------------------------------ MODULE Site_proofs ------------------------------
(******************************************************************************)
(* For every configuration text, every url and every file system: the parser  *)
(* accepts its grammar and, but for a word that the file ends in, loses       *)
(* nothing of the text, what the server makes of its configuration is what    *)
(* the text says, a url gets the handler of its longest prefix, and a static  *)
(* answer tells of the files.                                                 *)
(******************************************************************************)
EXTENDS Site, ConfigParser_proofs

--------------------------------------------------------------------------------
(* Static files: the name that is looked at is the one that is meant          *)

LEMMA MeantIsRequested ==
    ASSUME NEW S, "/" \in S, NEW r, r.url \in Seq(S), r.prefix \in Seq(S),
           IsPrefix(r.prefix, r.url)
    PROVE  Meant(r) = <<r.root, RelativePath(r.url, r.prefix)>>
  <1>1. PICK url \in Seq(S), prefix \in Seq(S) : url = r.url /\ prefix = r.prefix
    OBVIOUS
  <1>2. PICK k \in Nat, n \in Nat : k = Len(prefix) /\ n = Len(url) /\ k <= n
    BY <1>1, PrefixFacts, SequenceFacts
  <1>3. \A i \in 1 .. k : prefix[i] = url[i]
    BY <1>1, <1>2, PrefixFacts
  <1>4. PICK rest \in Seq(S) : rest = SubSeq(url, k + 1, n)
    <2>1. k + 1 \in 1 .. Len(url) + 1 /\ n \in 0 .. Len(url)
      BY <1>2
    <2> QED
      BY <2>1, SubSeqFacts
  <1>5. Len(rest) = n - k /\ \A i \in 1 .. n - k : rest[i] = url[k + i]
    <2>1. k + 1 \in 1 .. Len(url) + 1 /\ n \in 0 .. Len(url)
      BY <1>2
    <2>2. /\ Len(rest) = IF k + 1 <= n THEN n - (k + 1) + 1 ELSE 0
          /\ \A i \in 1 .. n - (k + 1) + 1 : rest[i] = url[k + 1 + i - 1]
      BY <1>4, <2>1, SubSeqFacts
    <2>3. k \in Nat /\ n \in Nat /\ k <= n
      BY <1>2
    <2>4. Len(rest) = n - k
      BY <2>2, <2>3
    <2>5. ASSUME NEW i \in 1 .. n - k PROVE rest[i] = url[k + i]
      <3>1. i \in 1 .. n - (k + 1) + 1 /\ k + 1 + i - 1 = k + i
        BY <2>3
      <3> QED
        BY <2>2, <3>1
    <2> QED
      BY <2>4, <2>5
  <1> DEFINE Slashed == rest # <<>> /\ rest[1] = "/"
             tail == IF Slashed THEN Tail(rest) ELSE rest
             relative == IF tail = <<>> THEN <<".">> ELSE tail
             rests == {p \in Suffixes(r.url) : \/ r.prefix \o p = r.url /\ (p = <<>> \/ p[1] # "/")
                                               \/ r.prefix \o <<"/">> \o p = r.url}
  <1>6. RelativePath(r.url, r.prefix) = relative
    BY <1>1, <1>2, <1>4 DEF RelativePath
  <1>7. \A p \in Suffixes(url) : p \in Seq(S)
    <2>1. ASSUME NEW l \in 1 .. Len(url) PROVE SubSeq(url, l, Len(url)) \in Seq(S)
      OBVIOUS
    <2>2. <<>> \in Seq(S)
      OBVIOUS
    <2> QED
      BY <2>1, <2>2 DEF Suffixes
  <1>8. rest \in Suffixes(url)
    <2>1. CASE k = n
      BY <1>5, <2>1 DEF Suffixes
    <2>2. CASE k # n
      <3>1. k + 1 \in 1 .. Len(url)
        BY <1>2, <2>2
      <3> QED
        BY <1>2, <1>4, <3>1 DEF Suffixes
    <2> QED
      BY <2>1, <2>2
  <1>9. prefix \o rest = url
    <2>1. PICK u \in Seq(S) : u = prefix \o rest
      BY JoinFacts
    <2>2. Len(u) = Len(prefix) + Len(rest)
      BY <2>1, JoinFacts
    <2>3. Len(u) = n
      BY <1>2, <1>5, <2>2
    <2>4. ASSUME NEW i \in 1 .. n PROVE u[i] = url[i]
      <3>1. CASE i <= k
        <4>1. i \in 1 .. Len(prefix) /\ i \in 1 .. k
          BY <1>2, <3>1
        <4>2. u[i] = prefix[i]
          BY <2>1, <4>1, JoinFacts
        <4> QED
          BY <1>3, <4>1, <4>2
      <3>2. CASE i > k
        <4>1. PICK j \in 1 .. n - k : i = k + j
          <5>1. i - k \in 1 .. n - k /\ i = k + (i - k)
            BY <1>2, <3>2
          <5> QED
            BY <5>1
        <4>2. u[Len(prefix) + j] = rest[j]
          <5>1. j \in 1 .. Len(rest)
            BY <1>5
          <5> QED
            BY <2>1, <5>1, JoinFacts
        <4> QED
          BY <1>2, <1>5, <4>1, <4>2
      <3> QED
        BY <1>2, <3>1, <3>2
    <2> QED
      BY <1>2, <2>1, <2>3, <2>4, SameSequence
  <1>10. ASSUME NEW p \in Seq(S), prefix \o p = url PROVE p = rest
    <2>1. Len(p) = n - k
      <3>1. Len(url) = Len(prefix) + Len(p) /\ Len(p) \in Nat
        BY <1>10, JoinFacts, SequenceFacts
      <3> QED
        BY <1>2, <3>1
    <2>2. ASSUME NEW i \in 1 .. n - k PROVE p[i] = rest[i]
      <3>1. url[Len(prefix) + i] = p[i]
        BY <1>10, <2>1, JoinFacts
      <3> QED
        BY <1>2, <1>5, <3>1
    <2> QED
      BY <1>5, <2>1, <2>2, SameSequence
  <1>11. ASSUME NEW p \in Seq(S) PROVE prefix \o <<"/">> \o p = url <=> Slashed /\ p = Tail(rest)
    <2>1. PICK slash \in Seq(S) : slash = <<"/">>
      <3>1. <<"/">> \in Seq(S)
        OBVIOUS
      <3> QED
        BY <3>1
    <2>2. Len(slash) = 1 /\ slash[1] = "/"
      BY <2>1
    <2>3. prefix \o slash \o p = prefix \o (slash \o p)
      OBVIOUS
    <2>4. PICK v \in Seq(S) : v = slash \o p
      BY JoinFacts
    <2>5. Len(v) = 1 + Len(p) /\ v[1] = "/" /\ \A i \in 1 .. Len(p) : v[1 + i] = p[i]
      <3>1. 1 \in 1 .. Len(slash)
        BY <2>2
      <3>2. v[1] = slash[1]
        BY <2>4, <3>1, JoinFacts
      <3>3. Len(v) = Len(slash) + Len(p) /\ \A i \in 1 .. Len(p) : v[Len(slash) + i] = p[i]
        BY <2>4, JoinFacts
      <3> QED
        BY <2>2, <3>2, <3>3
    <2>6. v # <<>> /\ Tail(v) = p
      <3>1. Len(v) # 0 /\ Len(p) \in Nat
        BY <2>5, SequenceFacts
      <3>2. v # <<>>
        BY <3>1, SequenceFacts
      <3>3. /\ Tail(v) \in Seq(S) /\ Len(Tail(v)) = Len(v) - 1
            /\ \A i \in 1 .. Len(v) - 1 : Tail(v)[i] = v[i + 1]
        BY <3>2
      <3>4. \A i \in 1 .. Len(p) : Tail(v)[i] = p[i]
        BY <2>5, <3>1, <3>3
      <3>5. Len(Tail(v)) = Len(p)
        BY <2>5, <3>1, <3>3
      <3> QED
        BY <3>2, <3>3, <3>4, <3>5, SameSequence
    <2>7. prefix \o v = url <=> v = rest
      BY <1>9, <1>10
    <2>8. ASSUME Slashed, p = Tail(rest) PROVE v = rest
      <3>1. Len(rest) # 0 /\ Len(rest) \in Nat
        BY <2>8, SequenceFacts
      <3>2. Len(p) = Len(rest) - 1 /\ \A i \in 1 .. Len(rest) - 1 : p[i] = rest[i + 1]
        BY <2>8
      <3>3. ASSUME NEW i \in 1 .. Len(rest), i # 1 PROVE v[i] = rest[i]
        <4>1. PICK j \in 1 .. Len(p) : i = 1 + j
          <5>1. i - 1 \in 1 .. Len(p) /\ i = 1 + (i - 1)
            BY <3>1, <3>2, <3>3
          <5> QED
            BY <5>1
        <4>2. v[i] = p[j] /\ p[j] = rest[j + 1]
          BY <2>5, <3>1, <3>2, <4>1
        <4> QED
          BY <4>1, <4>2
      <3>4. v[1] = rest[1]
        BY <2>5, <2>8
      <3>5. Len(v) = Len(rest)
        BY <2>5, <3>1, <3>2
      <3> QED
        BY <3>3, <3>4, <3>5, SameSequence
    <2> HIDE DEF tail, relative, rests
    <2>9. v = rest => Slashed /\ p = Tail(rest)
      BY <2>5, <2>6
    <2> QED
      BY <2>1, <2>3, <2>4, <2>7, <2>8, <2>9
  <1>12. Slashed => Tail(rest) \in Suffixes(url) /\ Tail(rest) \in Seq(S)
    <2> SUFFICES ASSUME Slashed PROVE Tail(rest) \in Suffixes(url) /\ Tail(rest) \in Seq(S)
      OBVIOUS
    <2>1. k < n
      BY <1>2, <1>5, SequenceFacts
    <2>2. Tail(rest) = SubSeq(url, k + 2, n)
      <3>1. PICK u \in Seq(S) : u = SubSeq(url, k + 2, n)
        <4>1. k + 2 \in 1 .. Len(url) + 1 /\ n \in 0 .. Len(url)
          BY <1>2, <2>1
        <4> QED
          BY <4>1, SubSeqFacts
      <3>2. PICK m \in Nat : m = n - k - 1 /\ n - (k + 2) + 1 = m /\ n - k = m + 1
        <4>1. k \in Nat /\ n \in Nat /\ n - k - 1 \in Nat
          BY <1>2, <2>1
        <4>2. n - (k + 2) + 1 = n - k - 1 /\ n - k = (n - k - 1) + 1
          BY <4>1
        <4> QED
          BY <4>1, <4>2
      <3>3. Len(u) = m
        <4>1. k + 2 \in 1 .. Len(url) + 1 /\ n \in 0 .. Len(url)
          BY <1>2, <2>1
        <4>2. Len(u) = IF k + 2 <= n THEN n - (k + 2) + 1 ELSE 0
          BY <3>1, <4>1, SubSeqFacts
        <4> QED
          BY <1>2, <3>2, <4>2
      <3>4. ASSUME NEW i \in 1 .. m PROVE u[i] = url[k + i + 1]
        <4>1. k + 2 \in 1 .. Len(url) + 1 /\ n \in 0 .. Len(url)
          BY <1>2, <2>1
        <4>2. i \in 1 .. n - (k + 2) + 1 /\ k + 2 + i - 1 = k + i + 1
          BY <1>2, <3>2
        <4>3. u[i] = url[k + 2 + i - 1]
          BY <3>1, <4>1, <4>2, SubSeqFacts
        <4> QED
          BY <4>2, <4>3
      <3>5. rest # <<>>
        OBVIOUS
      <3>6. /\ Tail(rest) \in Seq(S) /\ Len(Tail(rest)) = Len(rest) - 1
            /\ \A i \in 1 .. Len(rest) - 1 : Tail(rest)[i] = rest[i + 1]
        BY <3>5
      <3>7. Len(rest) = m + 1 /\ Len(rest) - 1 = m
        BY <1>5, <3>2
      <3>8. ASSUME NEW i \in 1 .. m PROVE Tail(rest)[i] = url[k + i + 1]
        <4>1. i + 1 \in 1 .. n - k /\ k + (i + 1) = k + i + 1
          BY <1>2, <3>2
        <4>2. Tail(rest)[i] = rest[i + 1]
          BY <3>6, <3>7
        <4>3. rest[i + 1] = url[k + (i + 1)]
          BY <1>5, <4>1
        <4> QED
          BY <4>1, <4>2, <4>3
      <3>9. Len(Tail(rest)) = Len(u)
        BY <3>3, <3>6, <3>7
      <3>10. \A i \in 1 .. Len(u) : u[i] = Tail(rest)[i]
        BY <3>3, <3>4, <3>8
      <3> QED
        BY <3>1, <3>6, <3>9, <3>10, SameSequence
    <2>3. CASE k + 2 <= n
      <3>1. k + 2 \in 1 .. Len(url)
        BY <1>2, <2>3
      <3> QED
        BY <1>2, <1>7, <2>2, <3>1 DEF Suffixes
    <2>4. CASE k + 2 > n
      <3>1. SubSeq(url, k + 2, n) = <<>>
        BY <1>2, <2>4
      <3> QED
        BY <1>7, <2>2, <3>1 DEF Suffixes
    <2> QED
      BY <1>2, <2>3, <2>4
  <1>13. rests = {tail}
    <2>1. ASSUME NEW p \in Suffixes(url)
          PROVE  p \in rests <=>
                             \/ p = rest /\ (p = <<>> \/ p[1] # "/")
                             \/ Slashed /\ p = Tail(rest)
      <3>1. p \in Seq(S)
        BY <1>7
      <3> HIDE DEF Slashed
      <3> QED
        BY <1>1, <1>9, <1>10, <1>11, <3>1
    <2>2. rests \subseteq Suffixes(url)
      BY <1>1
    <2> HIDE DEF rests
    <2> QED
      BY <1>8, <1>12, <2>1, <2>2
  <1>14. (CHOOSE p \in rests : TRUE) = tail
    <2> HIDE DEF rests, tail
    <2> QED
      BY <1>13
  <1>15. Meant(r) = <<r.root, relative>>
    <2> DEFINE chosen == CHOOSE p \in rests : TRUE
    <2>1. Meant(r) = <<r.root, IF chosen = <<>> THEN <<".">> ELSE chosen>>
      BY DEF Meant
    <2> HIDE DEF rests, tail
    <2> QED
      BY <1>14, <2>1
  <1> QED
    BY <1>6, <1>15

--------------------------------------------------------------------------------
(* Static files: what each look leaves known                                  *)

IsStatic == answer # <<>> /\ answer[2].handler = <<"StaticHandler">>

Responses ==
    {NoResponse, Forbidden, NotFoundResponse} \cup {Ok(body) : body \in Contents \cup {""}}

\* The conditions that the looks at a name and at an index.html could meet.
Everything(name) == Met(name) \cup UNION {Met(index) : index \in Indexes(name)}

\* What AnswersReflectFiles asks of an outcome.
Told(name, outcome) ==
    /\ Calm => outcome = Undisturbed(name)
    /\ outcome = Thrown => Unknown \in Met(name)
    /\ outcome = NotFoundResponse => Everything(name) \cap {Absent, Unknown} # {}
    /\ outcome = Forbidden => \E end \in Ends(name) : ~BeginsLikeRoot(end)
    /\ outcome = Ok("") =>
           Everything(name) \cap {Directory, Absent, Unreadable, Unknown, File("")} # {}
    /\ \A body \in Contents \ {""} : outcome = Ok(body) => File(body) \in Everything(name)
    /\ \A body : outcome = Ok(body) => Admitted(name)

\* What is behind a path was seen there, and what others lead to leads nowhere.
FilesHold(name) ==
    /\ name \in DOMAIN files /\ DOMAIN Others \subseteq DOMAIN files
    /\ DOMAIN seen = DOMAIN files
    /\ \A path \in DOMAIN files : files[path] \in seen[path] /\ seen[path] \subseteq Conditions
    /\ \A path \in DOMAIN Others : seen[path] \subseteq Things

\* The handler looks at the name that is meant, then at an end of it, then at an
\* index.html that is there.
LooksAt(name, s, path) ==
    /\ s \in {"exists", "canonical"} => path = name
    /\ s \in {"exists_again", "is_directory"} => path \in Ends(name) /\ Admitted(name)
    /\ s = "index" => path \in Indexes(name) /\ Admitted(name)
    /\ s = "read" => path \in Ends(name) \cup Indexes(name) /\ Admitted(name)

\* While nothing changes, each step knows what the ones before it saw.
FileKnown(name, s, path) ==
    LET here == Condition(name)
        end == Leads(name)
    IN  /\ s \in {"canonical", "exists_again", "is_directory", "index", "read"} =>
               here \notin {Absent, Unknown}
        /\ s \in {"exists_again", "is_directory", "index", "read"} => BeginsLikeRoot(end)
        /\ s \in {"exists_again", "is_directory"} => path = end
        /\ s = "index" => here = Directory /\ path = Index(end)
        /\ s = "read" => \/ here # Directory /\ path = end
                         \/ /\ here = Directory /\ path = Index(end)
                            /\ Condition(Index(end)) \notin {Absent, Unknown}

Looked(name) ==
    /\ FilesHold(name)
    /\ step \in Steps \ {"idle"}
    /\ response \in Responses
    /\ LooksAt(name, step, requested_path)
    /\ Calm => FileKnown(name, step, requested_path)
    /\ step = "done" => Told(name, response)
    /\ step = "thrown" => Told(name, Thrown)

FilesInv ==
    /\ IsStatic => Looked(Meant(request))
    /\ answer # <<>> /\ ~IsStatic => step \in {"idle", "done"}
    /\ answer = <<>> => step = "idle"
    /\ ~IsStatic => files = <<>> /\ seen = <<>>
    /\ step = "idle" => response = NoResponse

LEMMA ThingsDiffer ==
    /\ Absent # Unknown /\ Absent # Directory /\ Unknown # Directory
    /\ \A c \in Things : c.is # "elsewhere"
    /\ \A c \in Conditions : c.is = "elsewhere" =>
           c.path \in DOMAIN Others /\ c = LeadsTo(c.path)
    /\ \A c \in Conditions : c.is # "elsewhere" => c \in Things
    /\ \A path : LeadsTo(path) \notin Things
  <1>1. /\ Absent.is = "absent" /\ Unknown.is = "unknown" /\ Directory.is = "directory"
        /\ Unreadable.is = "unreadable" /\ \A content : File(content).is = "file"
    BY DEF Absent, Unknown, Directory, Unreadable, File
  <1>2. \A path : LeadsTo(path).is = "elsewhere" /\ LeadsTo(path).path = path
    BY DEF LeadsTo
  <1>3. \A c \in Things : c.is # "elsewhere"
    BY <1>1 DEF Things
  <1>4. \A c \in Conditions : c \in Things \/ \E path \in DOMAIN Others : c = LeadsTo(path)
    BY DEF Conditions
  <1>5. ASSUME NEW c \in Conditions
        PROVE  /\ c.is = "elsewhere" => c.path \in DOMAIN Others /\ c = LeadsTo(c.path)
               /\ c.is # "elsewhere" => c \in Things
    <2>1. CASE c \in Things
      BY <1>3, <2>1
    <2>2. CASE \E path \in DOMAIN Others : c = LeadsTo(path)
      BY <1>2, <2>2
    <2> QED
      BY <1>4, <2>1, <2>2
  <1>6. Absent # Unknown /\ Absent # Directory /\ Unknown # Directory
    BY <1>1
  <1>7. \A path : LeadsTo(path) \notin Things
    BY <1>2, <1>3
  <1> QED
    BY <1>3, <1>5, <1>6, <1>7, Zenon

\* What the system finds behind a path is one of the conditions to be met there.
LEMMA MetHere ==
    ASSUME NEW name, FilesHold(name), NEW path
    PROVE  /\ Condition(path) \in Met(path) /\ Condition(path) \in Things
           /\ Leads(path) \in Ends(path) /\ Condition(Leads(path)) = Condition(path)
           /\ Leads(path) = path \/ files[path] = LeadsTo(Leads(path))
  <1>1. Absent \in Things
    BY DEF Things
  <1>2. path \in Ends(path)
    BY DEF Ends
  <1>3. CASE path \notin DOMAIN files
    <2>1. Leads(path) = path /\ Condition(path) = Absent
      BY <1>3 DEF Leads, Condition
    <2>2. Seen(path) = {Absent}
      BY <1>3 DEF Seen, FilesHold
    <2> QED
      BY <1>1, <1>2, <2>1, <2>2 DEF Met
  <1>4. CASE path \in DOMAIN files /\ files[path].is = "elsewhere"
    <2>1. files[path] \in Conditions /\ files[path] \in Seen(path)
      BY <1>4 DEF FilesHold, Seen
    <2>2. PICK end \in DOMAIN Others : files[path] = LeadsTo(end) /\ end = files[path].path
      BY <1>4, <2>1, ThingsDiffer
    <2>3. Leads(path) = end /\ end \in Ends(path)
      BY <1>4, <2>1, <2>2 DEF Leads, Ends
    <2>4. end \in DOMAIN files /\ files[end] \in seen[end] /\ files[end] \in Things
          /\ Seen(end) = seen[end]
      BY <2>2 DEF FilesHold, Seen
    <2>5. Leads(end) = end
      BY <2>4, ThingsDiffer DEF Leads
    <2>6. Condition(path) = files[end] /\ Condition(end) = files[end]
      BY <2>3, <2>4, <2>5 DEF Condition
    <2>7. files[end] \in Met(path)
      BY <2>3, <2>4 DEF Met
    <2> QED
      BY <2>2, <2>3, <2>4, <2>6, <2>7
  <1>5. CASE path \in DOMAIN files /\ files[path].is # "elsewhere"
    <2>1. files[path] \in Conditions /\ files[path] \in Seen(path)
      BY <1>5 DEF FilesHold, Seen
    <2>2. files[path] \in Things
      BY <1>5, <2>1, ThingsDiffer
    <2>3. Leads(path) = path
      BY <1>5 DEF Leads
    <2>4. Condition(path) = files[path]
      BY <1>5, <2>3 DEF Condition
    <2> QED
      BY <1>2, <2>1, <2>2, <2>3, <2>4 DEF Met
  <1> QED
    BY <1>3, <1>4, <1>5

\* Where a name leads to leads nowhere else.
LEMMA MetThere ==
    ASSUME NEW name, FilesHold(name), NEW end \in Ends(name)
    PROVE  /\ Ends(end) \subseteq Ends(name) /\ Met(end) \subseteq Met(name)
           /\ Condition(end) \in Met(name)
           /\ Condition(end) = Directory => Index(end) \in Indexes(name)
  <1>1. Ends(end) \subseteq Ends(name)
    <2>1. CASE end = name
      BY <2>1
    <2>2. CASE end # name
      <3>1. end \in DOMAIN Others
        BY <2>2 DEF Ends
      <3>2. Seen(end) \subseteq Things
        BY <3>1 DEF FilesHold, Seen
      <3>3. Ends(end) = {end}
        BY <3>2, ThingsDiffer DEF Ends
      <3> QED
        BY <3>3
    <2> QED
      BY <2>1, <2>2
  <1>2. Met(end) \subseteq Met(name)
    BY <1>1 DEF Met
  <1>3. Condition(end) \in Met(end) /\ Leads(end) \in Ends(end)
    BY MetHere
  <1>4. Condition(end) = Directory => Index(end) \in Indexes(name)
    BY <1>3 DEF Indexes
  <1> QED
    BY <1>1, <1>2, <1>3, <1>4

LEMMA UndisturbedIs ==
    ASSUME NEW name, NEW here, here = Condition(name), NEW end, end = Leads(name),
           NEW index, index = Condition(Index(end))
    PROVE  /\ here = Unknown => Undisturbed(name) = Thrown
           /\ here = Absent => Undisturbed(name) = NotFoundResponse
           /\ here \notin {Absent, Unknown} /\ ~BeginsLikeRoot(end) =>
                  Undisturbed(name) = Forbidden
           /\ here \notin {Absent, Unknown} /\ BeginsLikeRoot(end) =>
                  /\ here # Directory => Undisturbed(name) = Ok(read_file(here))
                  /\ here = Directory /\ index \in {Absent, Unknown} =>
                         Undisturbed(name) = NotFoundResponse
                  /\ here = Directory /\ index \notin {Absent, Unknown} =>
                         Undisturbed(name) = Ok(read_file(index))
  BY ThingsDiffer DEF Undisturbed

\* The content of what is no file is empty.
LEMMA ReadIs ==
    ASSUME NEW c \in Things
    PROVE  /\ \/ c = File(read_file(c))
              \/ read_file(c) = "" /\ c \in {Directory, Absent, Unreadable, Unknown}
           /\ read_file(c) \in Contents \cup {""}
  <1>1. \A content : File(content).is = "file" /\ File(content).content = content
    BY DEF File
  <1>2. Absent.is # "file" /\ Unknown.is # "file" /\ Directory.is # "file" /\ Unreadable.is # "file"
    BY DEF Absent, Unknown, Directory, Unreadable
  <1>3. (\E content \in Contents : c = File(content))
           \/ c \in {Directory, Absent, Unreadable, Unknown}
    BY DEF Things
  <1> QED
    BY <1>1, <1>2, <1>3 DEF read_file

LEMMA OutcomesDiffer ==
    /\ Thrown # NotFoundResponse /\ Thrown # Forbidden /\ NotFoundResponse # Forbidden
    /\ \A body : Ok(body) # Thrown /\ Ok(body) # NotFoundResponse /\ Ok(body) # Forbidden
    /\ \A body, other : Ok(body) = Ok(other) => body = other
  <1>1. DOMAIN Thrown = {"exception"} /\ DOMAIN NotFoundResponse = {"status"}
        /\ DOMAIN Forbidden = {"status"}
    BY DEF Thrown, NotFoundResponse, Forbidden
  <1>2. \A body : DOMAIN Ok(body) = {"status", "body"}
    BY DEF Ok
  <1>3. NotFoundResponse.status = 404 /\ Forbidden.status = 403
    BY DEF NotFoundResponse, Forbidden
  <1>4. \A body : Ok(body).body = body
    BY DEF Ok
  <1>5. {"exception"} # {"status"} /\ {"status", "body"} # {"status"}
        /\ {"status", "body"} # {"exception"}
    OBVIOUS
  <1> QED
    BY <1>1, <1>2, <1>3, <1>4, <1>5

LEMMA ToldThrown ==
    ASSUME NEW name, Unknown \in Met(name), Calm => Undisturbed(name) = Thrown
    PROVE  Told(name, Thrown)
  BY OutcomesDiffer DEF Told

LEMMA ToldNotFound ==
    ASSUME NEW name, NEW c \in {Absent, Unknown}, c \in Everything(name),
           Calm => Undisturbed(name) = NotFoundResponse
    PROVE  Told(name, NotFoundResponse)
  BY OutcomesDiffer DEF Told

LEMMA ToldForbidden ==
    ASSUME NEW name, NEW end \in Ends(name), ~BeginsLikeRoot(end),
           Calm => Undisturbed(name) = Forbidden
    PROVE  Told(name, Forbidden)
  BY OutcomesDiffer DEF Told

LEMMA ToldOk ==
    ASSUME NEW name, NEW c \in Things, c \in Everything(name), Admitted(name),
           Calm => Undisturbed(name) = Ok(read_file(c))
    PROVE  Told(name, Ok(read_file(c)))
  <1>1. Ok(read_file(c)) = Ok("") =>
            Everything(name) \cap {Directory, Absent, Unreadable, Unknown, File("")} # {}
    BY ReadIs, OutcomesDiffer
  <1>2. ASSUME NEW body \in Contents \ {""}, Ok(read_file(c)) = Ok(body)
        PROVE  File(body) \in Everything(name)
    BY <1>2, ReadIs, OutcomesDiffer
  <1> QED
    BY <1>1, <1>2, OutcomesDiffer DEF Told

\* What was seen does not change with a step of the handler.
LEMMA SeenStays ==
    ASSUME UNCHANGED <<files, seen, request>>
    PROVE  /\ Calm' <=> Calm
           /\ \A path : /\ Leads(path)' = Leads(path) /\ Condition(path)' = Condition(path)
                        /\ Undisturbed(path)' = Undisturbed(path)
                        /\ Met(path)' = Met(path) /\ Everything(path)' = Everything(path)
                        /\ Ends(path)' = Ends(path) /\ Indexes(path)' = Indexes(path)
                        /\ Admitted(path)' <=> Admitted(path)
                        /\ BeginsLikeRoot(path)' <=> BeginsLikeRoot(path)
                        /\ FilesHold(path)' <=> FilesHold(path)
  <1>1. Calm' <=> Calm
    BY DEF Calm
  <1>2. ASSUME NEW path PROVE Leads(path)' = Leads(path) /\ Condition(path)' = Condition(path)
    BY DEF Leads, Condition
  <1>3. ASSUME NEW path PROVE BeginsLikeRoot(path)' <=> BeginsLikeRoot(path)
    BY DEF BeginsLikeRoot
  <1>4. ASSUME NEW path PROVE Undisturbed(path)' = Undisturbed(path)
    BY DEF Undisturbed, Leads, Condition, BeginsLikeRoot
  <1>5. ASSUME NEW path
        PROVE  /\ Met(path)' = Met(path) /\ Ends(path)' = Ends(path)
               /\ Admitted(path)' <=> Admitted(path)
    BY DEF Met, Ends, Admitted, Seen, BeginsLikeRoot
  <1>6. ASSUME NEW path PROVE Indexes(path)' = Indexes(path)
    BY DEF Indexes, Met, Ends, Seen
  <1>7. ASSUME NEW path PROVE Everything(path)' = Everything(path)
    BY DEF Everything, Indexes, Met, Ends, Seen
  <1>8. ASSUME NEW path PROVE FilesHold(path)' <=> FilesHold(path)
    BY DEF FilesHold
  <1> QED
    BY <1>1, <1>2, <1>3, <1>4, <1>5, <1>6, <1>7, <1>8

LEMMA ToldStays ==
    ASSUME NEW name, NEW outcome, UNCHANGED <<files, seen, request>>, Told(name, outcome)
    PROVE  Told(name, outcome)'
  BY SeenStays DEF Told

LEMMA LooksStay ==
    ASSUME NEW name, NEW s, NEW path, UNCHANGED <<files, seen, request>>
    PROVE  /\ LooksAt(name, s, path) => LooksAt(name, s, path)'
           /\ FileKnown(name, s, path) => FileKnown(name, s, path)'
  BY SeenStays DEF LooksAt, FileKnown

\* A step that goes on keeps the rest.
LEMMA LookGoesOn ==
    ASSUME NEW name, Looked(name), UNCHANGED <<files, seen, request>>,
           NEW s, s = step', NEW path, path = requested_path', NEW r, r = response',
           r \in Responses, s \in Steps \ {"idle"},
           LooksAt(name, s, path),
           Calm => FileKnown(name, s, path),
           s = "done" => Told(name, r),
           s = "thrown" => Told(name, Thrown)
    PROVE  Looked(name)'
  <1>1. FilesHold(name)' /\ Responses' = Responses /\ (Calm' <=> Calm)
    BY SeenStays DEF Looked, Responses
  <1>2. LooksAt(name, s, path)' /\ (Calm => FileKnown(name, s, path)')
    BY LooksStay
  <1>3. s = "done" => Told(name, r)'
    BY ToldStays
  <1>4. s = "thrown" => Told(name, Thrown)'
    <2>1. PICK outcome : outcome = Thrown
      OBVIOUS
    <2>2. s = "thrown" => Told(name, outcome)'
      BY <2>1, ToldStays
    <2> QED
      BY <2>1, <2>2
  <1>5. LooksAt(name, step, requested_path)'
    BY <1>2, SeenStays DEF LooksAt
  <1>6. Calm' => FileKnown(name, step, requested_path)'
    BY <1>1, <1>2, SeenStays DEF FileKnown
  <1>7. step' = "done" => Told(name, response)'
    BY <1>3, SeenStays DEF Told
  <1> QED
    BY <1>1, <1>4, <1>5, <1>6, <1>7 DEF Looked

LEMMA LookEnds ==
    ASSUME NEW name, Looked(name), UNCHANGED <<files, seen, request>>,
           NEW r \in Responses, step' = "done", response' = r, Told(name, r)
    PROVE  Looked(name)'
  <1>1. PICK s : s = step'
    OBVIOUS
  <1>2. LooksAt(name, s, requested_path') /\ FileKnown(name, s, requested_path')
    BY <1>1 DEF LooksAt, FileKnown
  <1> QED
    BY <1>1, <1>2, LookGoesOn DEF Steps

LEMMA ExistsLooks ==
    ASSUME NEW name, Looked(name), CheckExists
    PROVE  Looked(name)'
  <1>1. /\ step = "exists" /\ requested_path = name /\ response \in Responses
        /\ FilesHold(name) /\ (Calm => FileKnown(name, step, requested_path))
    BY DEF CheckExists, Looked, LooksAt
  <1>2. UNCHANGED <<files, seen, request>> /\ requested_path' = name
    BY <1>1 DEF CheckExists, Answer, Go
  <1>3. PICK here : here = Condition(name)
    OBVIOUS
  <1>4. PICK end : end = Leads(name)
    OBVIOUS
  <1>5. here \in Met(name) /\ here \in Everything(name)
    BY <1>1, <1>3, MetHere DEF Everything
  <1>6. CASE here = Absent
    <2>1. step' = "done" /\ response' = NotFoundResponse
      BY <1>1, <1>3, <1>6, ThingsDiffer DEF CheckExists, Answer
    <2>2. Undisturbed(name) = NotFoundResponse
      BY <1>3, <1>6, UndisturbedIs
    <2>3. Told(name, NotFoundResponse)
      BY <1>5, <1>6, <2>2, ToldNotFound
    <2> QED
      BY <1>2, <2>1, <2>3, LookEnds DEF Responses
  <1>7. CASE here = Unknown
    <2>1. step' = "thrown" /\ response' = response
      BY <1>1, <1>3, <1>7, ThingsDiffer DEF CheckExists, Go
    <2>2. Undisturbed(name) = Thrown
      BY <1>3, <1>7, UndisturbedIs
    <2>3. Told(name, Thrown)
      BY <1>5, <1>7, <2>2, ToldThrown
    <2> QED
      BY <1>1, <1>2, <2>1, <2>3, LookGoesOn DEF LooksAt, FileKnown, Steps
  <1>8. CASE here \notin {Absent, Unknown}
    <2>1. step' = "canonical" /\ response' = response
      BY <1>1, <1>3, <1>8 DEF CheckExists, Go
    <2>2. LooksAt(name, step', requested_path')
      BY <1>2, <2>1 DEF LooksAt
    <2>3. FileKnown(name, step', requested_path')
      BY <1>3, <1>8, <2>1 DEF FileKnown
    <2> QED
      BY <1>1, <1>2, <2>1, <2>2, <2>3, LookGoesOn DEF Steps
  <1> QED
    BY <1>6, <1>7, <1>8

LEMMA CanonicalLooks ==
    ASSUME NEW name, Looked(name), Canonical
    PROVE  Looked(name)'
  <1>1. /\ step = "canonical" /\ requested_path = name /\ response \in Responses
        /\ FilesHold(name) /\ (Calm => FileKnown(name, "canonical", name))
    BY DEF Canonical, Looked, LooksAt
  <1>2. UNCHANGED <<files, seen, request>>
    BY DEF Canonical
  <1>3. PICK here : here = Condition(name)
    OBVIOUS
  <1>4. PICK end : end = Leads(name)
    OBVIOUS
  <1>5. here \in Met(name) /\ here \in Everything(name) /\ end \in Ends(name)
    BY <1>1, <1>3, <1>4, MetHere DEF Everything
  <1>6. Calm => here \notin {Absent, Unknown}
    BY <1>1, <1>3 DEF FileKnown
  <1>7. CASE here \in {Absent, Unknown} /\ Answer(NotFoundResponse)
    <2>1. step' = "done" /\ response' = NotFoundResponse
      BY <1>7 DEF Answer
    <2>2. Told(name, NotFoundResponse)
      BY <1>5, <1>6, <1>7, ToldNotFound
    <2> QED
      BY <1>2, <2>1, <2>2, LookEnds DEF Responses
  <1>8. CASE here \notin {Absent, Unknown} /\ ~BeginsLikeRoot(end) /\ Answer(Forbidden)
    <2>1. step' = "done" /\ response' = Forbidden
      BY <1>8 DEF Answer
    <2>2. Undisturbed(name) = Forbidden
      BY <1>3, <1>4, <1>8, UndisturbedIs
    <2>3. Told(name, Forbidden)
      BY <1>5, <1>8, <2>2, ToldForbidden
    <2> QED
      BY <1>2, <2>1, <2>3, LookEnds DEF Responses
  <1>9. CASE /\ here \notin {Absent, Unknown} /\ BeginsLikeRoot(end)
             /\ step' = "exists_again" /\ requested_path' = end /\ response' = response
    <2>1. Admitted(name)
      <3>1. CASE name \in DOMAIN files
        <4>1. files[name] \in Seen(name) /\ files[name] \in Conditions
          BY <1>1, <3>1 DEF FilesHold, Seen
        <4>2. files[name].is = "elsewhere" => end = files[name].path
          BY <1>4, <3>1 DEF Leads
        <4> QED
          BY <1>9, <4>1, <4>2 DEF Admitted
      <3>2. CASE name \notin DOMAIN files
        BY <1>1, <3>2 DEF FilesHold
      <3> QED
        BY <3>1, <3>2
    <2>2. LooksAt(name, step', requested_path')
      BY <1>5, <1>9, <2>1 DEF LooksAt
    <2>3. FileKnown(name, step', requested_path')
      BY <1>3, <1>4, <1>9 DEF FileKnown
    <2> QED
      BY <1>1, <1>2, <1>9, <2>2, <2>3, LookGoesOn DEF Steps
  <1> QED
    BY <1>1, <1>3, <1>4, <1>7, <1>8, <1>9 DEF Canonical, canonical, Gone

\* After canonical() the path is an end of the name.
LEMMA AtAnEnd ==
    ASSUME NEW name, Looked(name), step \in {"exists_again", "is_directory"},
           NEW here, here = Condition(requested_path)
    PROVE  /\ requested_path \in Ends(name) /\ Admitted(name)
           /\ here \in Met(name) /\ here \in Everything(name) /\ here \in Things
           /\ here = Directory => Index(requested_path) \in Indexes(name)
           /\ Calm => /\ requested_path = Leads(name) /\ BeginsLikeRoot(Leads(name))
                      /\ here = Condition(name) /\ here \notin {Absent, Unknown}
  <1>1. /\ FilesHold(name) /\ requested_path \in Ends(name) /\ Admitted(name)
        /\ Calm => FileKnown(name, step, requested_path)
    BY DEF Looked, LooksAt
  <1>2. here \in Met(name) /\ (here = Directory => Index(requested_path) \in Indexes(name))
    BY <1>1, MetThere
  <1>3. here \in Things /\ Condition(Leads(name)) = Condition(name)
    BY <1>1, MetHere
  <1>4. Calm => /\ requested_path = Leads(name) /\ BeginsLikeRoot(Leads(name))
                /\ Condition(name) \notin {Absent, Unknown}
    BY <1>1 DEF FileKnown
  <1> QED
    BY <1>1, <1>2, <1>3, <1>4 DEF Everything

LEMMA ExistsAgainLooks ==
    ASSUME NEW name, Looked(name), CheckExistsAgain
    PROVE  Looked(name)'
  <1>1. step = "exists_again" /\ UNCHANGED <<files, seen, request, requested_path>>
    BY DEF CheckExistsAgain, Answer, Go
  <1>2. PICK here : here = Condition(requested_path)
    OBVIOUS
  <1>3. PICK path : path = requested_path
    OBVIOUS
  <1>4. /\ path \in Ends(name) /\ Admitted(name) /\ here \in Everything(name)
        /\ Calm => here \notin {Absent, Unknown}
    BY <1>1, <1>2, <1>3, AtAnEnd
  <1>5. response \in Responses /\ (Calm => FileKnown(name, "exists_again", path))
    BY <1>1, <1>3 DEF Looked
  <1>6. CASE here \in {Absent, Unknown}
    <2>1. step' = "done" /\ response' = NotFoundResponse
      BY <1>2, <1>6 DEF CheckExistsAgain, Gone, Answer
    <2>2. Told(name, NotFoundResponse)
      BY <1>4, <1>6, ToldNotFound
    <2> QED
      BY <1>1, <2>1, <2>2, LookEnds DEF Responses
  <1>7. CASE here \notin {Absent, Unknown}
    <2>1. step' = "is_directory" /\ response' = response
      BY <1>2, <1>7 DEF CheckExistsAgain, Gone, Go
    <2>2. LooksAt(name, step', requested_path')
      BY <1>1, <1>3, <1>4, <2>1 DEF LooksAt
    <2>3. Calm => FileKnown(name, step', requested_path')
      BY <1>1, <1>3, <1>5, <2>1 DEF FileKnown
    <2> QED
      BY <1>1, <1>5, <2>1, <2>2, <2>3, LookGoesOn DEF Steps
  <1> QED
    BY <1>6, <1>7

LEMMA DirectoryLooks ==
    ASSUME NEW name, Looked(name), CheckDirectory
    PROVE  Looked(name)'
  <1>1. step = "is_directory" /\ UNCHANGED <<files, seen, request>>
    BY DEF CheckDirectory
  <1>2. PICK here : here = Condition(requested_path)
    OBVIOUS
  <1>3. PICK path : path = requested_path
    OBVIOUS
  <1>4. /\ path \in Ends(name) /\ Admitted(name) /\ here \in Everything(name)
        /\ here = Directory => Index(path) \in Indexes(name)
        /\ Calm => /\ path = Leads(name) /\ BeginsLikeRoot(Leads(name))
                   /\ here = Condition(name) /\ here \notin {Absent, Unknown}
    BY <1>1, <1>2, <1>3, AtAnEnd
  <1>5. response \in Responses
    BY DEF Looked
  <1>6. CASE here = Unknown
    <2>1. step' = "done" /\ response' = NotFoundResponse
      BY <1>2, <1>6, ThingsDiffer DEF CheckDirectory, Answer
    <2>2. Told(name, NotFoundResponse)
      BY <1>4, <1>6, ToldNotFound
    <2> QED
      BY <1>1, <2>1, <2>2, LookEnds DEF Responses
  <1>7. CASE here = Directory
    <2>1. step' = "index" /\ requested_path' = Index(path) /\ response' = response
      BY <1>2, <1>3, <1>7, ThingsDiffer DEF CheckDirectory
    <2>2. LooksAt(name, step', requested_path')
      BY <1>4, <1>7, <2>1 DEF LooksAt
    <2>3. Calm => FileKnown(name, step', requested_path')
      BY <1>4, <1>7, <2>1 DEF FileKnown
    <2> QED
      BY <1>1, <1>5, <2>1, <2>2, <2>3, LookGoesOn DEF Steps
  <1>8. CASE here \notin {Unknown, Directory}
    <2>1. step' = "read" /\ requested_path' = path /\ response' = response
      BY <1>2, <1>3, <1>8 DEF CheckDirectory, Go
    <2>2. LooksAt(name, step', requested_path')
      BY <1>4, <2>1 DEF LooksAt
    <2>3. Calm => FileKnown(name, step', requested_path')
      BY <1>4, <1>8, <2>1 DEF FileKnown
    <2> QED
      BY <1>1, <1>5, <2>1, <2>2, <2>3, LookGoesOn DEF Steps
  <1> QED
    BY <1>6, <1>7, <1>8

\* What can be met at an index.html of the name.
LEMMA MetAtIndex ==
    ASSUME NEW name, FilesHold(name), NEW path \in Indexes(name)
    PROVE  Condition(path) \in Everything(name)
  BY MetHere DEF Everything

LEMMA IndexLooks ==
    ASSUME NEW name, Looked(name), CheckIndex
    PROVE  Looked(name)'
  <1>1. step = "index" /\ UNCHANGED <<files, seen, request, requested_path>>
    BY DEF CheckIndex, Answer, Go
  <1>2. PICK c : c = Condition(requested_path)
    OBVIOUS
  <1>3. PICK path : path = requested_path
    OBVIOUS
  <1>4. /\ FilesHold(name) /\ path \in Indexes(name) /\ Admitted(name)
        /\ response \in Responses
        /\ Calm => FileKnown(name, "index", path)
    BY <1>1, <1>3 DEF Looked, LooksAt
  <1>5. c \in Everything(name)
    BY <1>2, <1>3, <1>4, MetAtIndex
  <1>6. CASE c \in {Absent, Unknown}
    <2>1. step' = "done" /\ response' = NotFoundResponse
      BY <1>2, <1>6 DEF CheckIndex, Gone, Answer
    <2>2. Calm => Undisturbed(name) = NotFoundResponse
      <3>1. Calm => /\ BeginsLikeRoot(Leads(name)) /\ Condition(name) = Directory
                    /\ path = Index(Leads(name)) /\ Condition(name) \notin {Absent, Unknown}
        BY <1>4 DEF FileKnown
      <3> QED
        BY <1>2, <1>3, <1>6, <3>1, UndisturbedIs
    <2>3. Told(name, NotFoundResponse)
      BY <1>5, <1>6, <2>2, ToldNotFound
    <2> QED
      BY <1>1, <2>1, <2>3, LookEnds DEF Responses
  <1>7. CASE c \notin {Absent, Unknown}
    <2>1. step' = "read" /\ response' = response
      BY <1>2, <1>7 DEF CheckIndex, Gone, Go
    <2>2. LooksAt(name, step', requested_path')
      BY <1>1, <1>3, <1>4, <2>1 DEF LooksAt
    <2>3. Calm => FileKnown(name, step', requested_path')
      BY <1>1, <1>2, <1>3, <1>4, <1>7, <2>1 DEF FileKnown
    <2> QED
      BY <1>1, <1>4, <2>1, <2>2, <2>3, LookGoesOn DEF Steps
  <1> QED
    BY <1>6, <1>7

LEMMA ReadLooks ==
    ASSUME NEW name, Looked(name), Read
    PROVE  Looked(name)'
  <1>1. step = "read" /\ UNCHANGED <<files, seen, request, requested_path>>
    BY DEF Read, Answer
  <1>2. PICK c : c = Condition(requested_path)
    OBVIOUS
  <1>3. PICK path : path = requested_path
    OBVIOUS
  <1>4. /\ FilesHold(name) /\ path \in Ends(name) \cup Indexes(name) /\ Admitted(name)
        /\ Calm => FileKnown(name, "read", path)
    BY <1>1, <1>3 DEF Looked, LooksAt
  <1>5. c \in Everything(name) /\ c \in Things
    <2>1. c \in Things
      BY <1>2, <1>4, MetHere
    <2>2. path \in Ends(name) => c \in Met(name)
      BY <1>2, <1>3, <1>4, MetThere
    <2>3. path \in Indexes(name) => c \in Everything(name)
      BY <1>2, <1>3, <1>4, MetAtIndex
    <2> QED
      BY <1>4, <2>1, <2>2, <2>3 DEF Everything
  <1>6. step' = "done" /\ response' = Ok(read_file(c))
    BY <1>2 DEF Read, Answer
  <1>7. Calm => Undisturbed(name) = Ok(read_file(c))
    <2> SUFFICES ASSUME Calm PROVE Undisturbed(name) = Ok(read_file(c))
      OBVIOUS
    <2>1. Condition(name) \notin {Absent, Unknown} /\ BeginsLikeRoot(Leads(name))
      BY <1>4 DEF FileKnown
    <2>2. CASE Condition(name) # Directory /\ path = Leads(name)
      <3>1. c = Condition(name)
        BY <1>2, <1>3, <1>4, <2>2, MetHere
      <3> QED
        BY <2>1, <2>2, <3>1, UndisturbedIs
    <2>3. CASE /\ Condition(name) = Directory /\ path = Index(Leads(name))
               /\ Condition(Index(Leads(name))) \notin {Absent, Unknown}
      BY <1>2, <1>3, <2>1, <2>3, UndisturbedIs
    <2> QED
      BY <1>4, <2>2, <2>3 DEF FileKnown
  <1>8. Told(name, Ok(read_file(c)))
    BY <1>4, <1>5, <1>7, ToldOk
  <1>9. Ok(read_file(c)) \in Responses
    BY <1>5, ReadIs DEF Responses
  <1> QED
    BY <1>1, <1>6, <1>8, <1>9, LookEnds

\* More has been seen after a change.
LEMMA SeenGrows ==
    ASSUME NEW name, request' = request, \A path : Seen(path) \subseteq Seen(path)'
    PROVE  /\ Ends(name) \subseteq Ends(name)' /\ Indexes(name) \subseteq Indexes(name)'
           /\ Met(name) \subseteq Met(name)' /\ Everything(name) \subseteq Everything(name)'
           /\ Admitted(name) => Admitted(name)'
  <1>1. ASSUME NEW path PROVE Ends(path) \subseteq Ends(path)'
    BY DEF Ends
  <1>2. ASSUME NEW path PROVE Met(path) \subseteq Met(path)'
    BY <1>1 DEF Met
  <1>3. Indexes(name) \subseteq Indexes(name)'
    BY <1>1, <1>2 DEF Indexes
  <1>4. Everything(name) \subseteq Everything(name)'
    BY <1>2, <1>3 DEF Everything
  <1>5. Admitted(name) => Admitted(name)'
    BY DEF Admitted, BeginsLikeRoot
  <1> QED
    BY <1>1, <1>2, <1>3, <1>4, <1>5

LEMMA ChangeLooks ==
    ASSUME NEW name, Looked(name), NEW path \in DOMAIN files, NEW c \in Conditions,
           FileChanges(path, c)
    PROVE  Looked(name)'
  <1>1. /\ FilesHold(name) /\ files[path] # c /\ (path \in DOMAIN Others => c \in Things)
        /\ files' = [files EXCEPT ![path] = c]
        /\ seen' = [seen EXCEPT ![path] = @ \cup {c}]
        /\ UNCHANGED <<request, step, requested_path, response>>
        /\ step \notin {"idle", "done", "thrown"}
    BY DEF Looked, FileChanges
  <1>2. DOMAIN files' = DOMAIN files /\ DOMAIN seen' = DOMAIN files /\ DOMAIN seen = DOMAIN files
    BY <1>1 DEF FilesHold
  <1>3. ASSUME NEW q \in DOMAIN files
        PROVE  /\ seen'[q] = IF q = path THEN seen[q] \cup {c} ELSE seen[q]
               /\ files'[q] = IF q = path THEN c ELSE files[q]
    BY <1>1, <1>2
  <1>4. FilesHold(name)'
    <2>1. ASSUME NEW q \in DOMAIN files
          PROVE  files'[q] \in seen'[q] /\ seen'[q] \subseteq Conditions
      BY <1>1, <1>3 DEF FilesHold
    <2>2. ASSUME NEW q \in DOMAIN Others PROVE seen'[q] \subseteq Things
      BY <1>1, <1>3 DEF FilesHold
    <2> QED
      BY <1>1, <1>2, <2>1, <2>2 DEF FilesHold, Conditions, Things
  <1>5. ~Calm'
    <2>1. files[path] \in seen'[path] /\ files'[path] = c
      BY <1>1, <1>3 DEF FilesHold
    <2> QED
      BY <1>1, <1>2, <2>1 DEF Calm
  <1>6. \A q : Seen(q) \subseteq Seen(q)'
    BY <1>2, <1>3 DEF Seen
  <1>7. /\ Ends(name) \subseteq Ends(name)' /\ Indexes(name) \subseteq Indexes(name)'
        /\ Admitted(name) => Admitted(name)'
    BY <1>1, <1>6, SeenGrows
  <1>8. LooksAt(name, step, requested_path)'
    BY <1>1, <1>7 DEF Looked, LooksAt
  <1> QED
    BY <1>1, <1>4, <1>5, <1>8 DEF Looked, Responses

--------------------------------------------------------------------------------
(* The parser                                                                 *)

CharSeqs == Seq(Characters)

LEMMA FirstInText ==
    ASSUME NEW s \in CharSeqs, NEW chars
    PROVE  /\ FirstIn(s, chars) \in 0 .. Len(s)
           /\ FirstIn(s, chars) # 0 => s[FirstIn(s, chars)] \in chars
  <1> DEFINE I == {i \in 1 .. Len(s) : s[i] \in chars}
  <1>1. FirstIn(s, chars) = IF I # {} THEN Min(I) ELSE 0
    BY DEF FirstIn, SelectInSeq
  <1>2. I # {} => Min(I) \in I
    <2>1. I \in SUBSET Nat
      BY SequenceFacts
    <2> HIDE DEF I
    <2> QED
      BY <2>1, MinIsLeast
  <1>3. Len(s) \in Nat
    BY DEF CharSeqs
  <1> QED
    BY <1>1, <1>2, <1>3

LEMMA SkippedText ==
    ASSUME NEW s \in CharSeqs
    PROVE  /\ SkipWhitespace(s) \in CharSeqs
           /\ SkipWhitespace(s) # <<>> => SkipWhitespace(s)[1] \notin Whitespace
           /\ Len(SkipWhitespace(s)) \in Nat /\ Len(s) \in Nat
           /\ Len(SkipWhitespace(s)) <= Len(s)
  <1> DEFINE I == {i \in 1 .. Len(s) : s[i] \notin Whitespace}
             n == IF I # {} THEN Min(I) ELSE 0
  <1>1. SkipWhitespace(s) = IF n = 0 THEN <<>> ELSE SubSeq(s, n, Len(s))
    BY DEF SkipWhitespace, SelectInSeq
  <1>2. n # 0 => n \in I
    <2>1. I \in SUBSET Nat
      BY SequenceFacts
    <2>2. I # {} => Min(I) \in I
      <3> HIDE DEF I
      <3> QED
        BY <2>1, MinIsLeast
    <2> HIDE DEF I
    <2> QED
      BY <2>2
  <1>3. CASE n = 0
    <2>1. <<>> \in Seq(Characters) /\ Len(<<>>) = 0 /\ Len(s) \in Nat
      BY DEF CharSeqs
    <2> QED
      BY <1>1, <1>3, <2>1 DEF CharSeqs
  <1>4. CASE n # 0
    <2>1. PICK m \in 1 .. Len(s) : m = n /\ s[m] \notin Whitespace
      BY <1>2, <1>4
    <2> HIDE DEF n
    <2>2. /\ SubSeq(s, m, Len(s)) \in Seq(Characters)
          /\ SubSeq(s, m, Len(s))[1] = s[m]
          /\ Len(SubSeq(s, m, Len(s))) = Len(s) - m + 1
      <3>1. m \in 1 .. Len(s) + 1 /\ Len(s) \in 0 .. Len(s) /\ m <= Len(s) /\ s \in Seq(Characters)
        BY SequenceFacts DEF CharSeqs
      <3> QED
        BY <3>1, SubSeqFacts
    <2>3. Len(s) \in Nat /\ Len(s) - m + 1 \in Nat /\ Len(s) - m + 1 <= Len(s)
      BY <2>1 DEF CharSeqs
    <2> QED
      BY <1>1, <1>4, <2>1, <2>2, <2>3 DEF CharSeqs
  <1> QED
    BY <1>3, <1>4

LEMMA TokenOfText ==
    ASSUME NEW type, NEW s \in CharSeqs, NEW n \in 0 .. Len(s)
    PROVE  /\ Token(type, s, n).type = type
           /\ Token(type, s, n).value \in CharSeqs
           /\ Token(type, s, n).rest \in CharSeqs
           /\ n # 0 => Token(type, s, n).value # <<>>
  <1>1. /\ SubSeq(s, 1, n) \in CharSeqs /\ SubSeq(s, n + 1, Len(s)) \in CharSeqs
        /\ n # 0 => Len(SubSeq(s, 1, n)) # 0
    <2>1. s \in Seq(Characters) /\ Len(s) \in Nat /\ n \in Nat /\ n <= Len(s)
      BY SequenceFacts DEF CharSeqs
    <2>2. SubSeq(s, 1, n) \in Seq(Characters) /\ (n # 0 => Len(SubSeq(s, 1, n)) # 0)
      <3>1. 1 \in 1 .. Len(s) + 1
        BY <2>1
      <3>2. SubSeq(s, 1, n) \in Seq(Characters)
            /\ Len(SubSeq(s, 1, n)) = IF 1 <= n THEN n - 1 + 1 ELSE 0
        BY <2>1, <3>1, SubSeqFacts
      <3> QED
        BY <2>1, <3>2
    <2>3. SubSeq(s, n + 1, Len(s)) \in Seq(Characters)
      <3>1. n + 1 \in 1 .. Len(s) + 1 /\ Len(s) \in 0 .. Len(s)
        BY <2>1
      <3> QED
        BY <2>1, <3>1, SubSeqFacts
    <2> QED
      BY <2>2, <2>3 DEF CharSeqs
  <1>2. Len(<<>>) = 0
    OBVIOUS
  <1> QED
    BY <1>1, <1>2 DEF Token

\* What ParseToken returns for the text s, taken from its front; a word is not
\* empty.
TokenKinds == StatementTypes \cup {"COMMENT", "EOF", "ERROR"}

Final == {"EOF", "ERROR"}

IsToken(token) ==
    /\ token.rest \in CharSeqs
    /\ token.value \in CharSeqs
    /\ token.type = "NORMAL" => token.value # <<>>

TakenFrom(s, token) ==
    /\ IsToken(token)
    /\ token.type \in TokenKinds
    /\ token.type \notin Final => Len(token.rest) < Len(s)

LEMMA TokenTakenFrom ==
    ASSUME NEW s \in CharSeqs, NEW type \in TokenKinds, NEW n \in 1 .. Len(s)
    PROVE  TakenFrom(s, Token(type, s, n))
  <1>1. s \in Seq(Characters) /\ Len(s) \in Nat /\ n \in Nat /\ 1 <= n /\ n <= Len(s)
    BY SequenceFacts DEF CharSeqs
  <1>2. Len(SubSeq(s, n + 1, Len(s))) = IF n + 1 <= Len(s) THEN Len(s) - (n + 1) + 1 ELSE 0
    <2>1. n + 1 \in 1 .. Len(s) + 1 /\ Len(s) \in 0 .. Len(s)
      BY <1>1
    <2> QED
      BY <1>1, <2>1, SubSeqFacts
  <1>3. Len(SubSeq(s, n + 1, Len(s))) < Len(s)
    BY <1>1, <1>2
  <1>4. Token(type, s, n).type = type /\ Token(type, s, n).rest = SubSeq(s, n + 1, Len(s))
    BY DEF Token
  <1>5. IsToken(Token(type, s, n))
    <2>1. n \in 0 .. Len(s) /\ n # 0
      BY <1>1
    <2> QED
      BY <2>1, TokenOfText DEF IsToken
  <1> QED
    BY <1>3, <1>4, <1>5 DEF TakenFrom

LEMMA ParseTextFacts ==
    ASSUME NEW s \in CharSeqs, s # <<>> => s[1] \notin Whitespace
    PROVE  TakenFrom(s, ParseText(s))
  <1>1. Len(s) \in Nat /\ (s # <<>> => Len(s) >= 1)
    <2>1. s \in Seq(Characters)
      BY DEF CharSeqs
    <2> QED
      BY <2>1
  <1>2. TakenFrom(s, EndOfFile) /\ TakenFrom(s, NotAToken)
    <2>1. <<>> \in CharSeqs /\ 0 \in 0 .. Len(<<>>)
      BY DEF CharSeqs
    <2>2. /\ IsToken(EndOfFile) /\ EndOfFile.type = "EOF"
          /\ IsToken(NotAToken) /\ NotAToken.type = "ERROR"
      BY <2>1, TokenOfText DEF EndOfFile, NotAToken, IsToken
    <2> QED
      BY <2>2 DEF TakenFrom, TokenKinds, Final
  <1>3. ASSUME s # <<>>, s[1] \in DOMAIN SingleTokens
        PROVE  TakenFrom(s, Token(SingleTokens[s[1]], s, 1))
    <2>1. 1 \in 1 .. Len(s)
      BY <1>1, <1>3
    <2>2. SingleTokens[s[1]] \in TokenKinds
      BY <1>3 DEF SingleTokens, TokenKinds, StatementTypes
    <2> QED
      BY <2>1, <2>2, TokenTakenFrom
  <1>4. "NORMAL" \in TokenKinds /\ "COMMENT" \in TokenKinds
    BY DEF TokenKinds, StatementTypes
  <1>5. ASSUME NEW n \in 0 .. Len(s), n # 0 PROVE TakenFrom(s, Token("COMMENT", s, n))
    <2>1. n \in 1 .. Len(s)
      BY <1>1, <1>5
    <2> QED
      BY <1>4, <2>1, TokenTakenFrom
  <1>6. TakenFrom(s, QuotedToken(s))
    <2>1. ASSUME NEW n \in 1 .. Len(s) - 1 PROVE TakenFrom(s, Token("NORMAL", s, n))
      <3>1. n \in 1 .. Len(s)
        BY <1>1
      <3> QED
        BY <1>4, <3>1, TokenTakenFrom
    <2> QED
      BY <1>2, <2>1 DEF QuotedToken
  <1>7. ASSUME s # <<>>, s[1] \notin DOMAIN SingleTokens, NEW n \in 0 .. Len(s), n # 0,
               s[n] \in Delimiters
        PROVE  TakenFrom(s, Token("NORMAL", s, n - 1))
    <2>1. s[1] \notin Delimiters
      BY <1>7 DEF Delimiters, Whitespace, SingleTokens
    <2>2. n - 1 \in 1 .. Len(s)
      BY <1>1, <1>7, <2>1
    <2> QED
      BY <1>4, <2>2, TokenTakenFrom
  <1>8. PICK m \in 0 .. Len(s) : m = FirstIn(s, {"\n", "\r"})
    BY FirstInText
  <1>9. PICK n \in 0 .. Len(s) : n = FirstIn(s, Delimiters) /\ (n # 0 => s[n] \in Delimiters)
    BY FirstInText
  <1>10. CASE s = <<>>
    BY <1>2, <1>10 DEF ParseText
  <1>11. CASE s # <<>> /\ s[1] \in DOMAIN SingleTokens
    <2>1. s[1] # "#" /\ s[1] \notin Quotes
      BY <1>11 DEF SingleTokens, Quotes
    <2>2. ParseText(s) = Token(SingleTokens[s[1]], s, 1)
      BY <1>11, <2>1 DEF ParseText
    <2> QED
      BY <1>3, <1>11, <2>2
  <1>12. CASE s # <<>> /\ s[1] = "#"
    <2>1. s[1] \notin DOMAIN SingleTokens /\ s[1] \notin Quotes
      BY <1>12 DEF SingleTokens, Quotes
    <2>2. ParseText(s) = IF m = 0 THEN EndOfFile ELSE Token("COMMENT", s, m)
      BY <1>8, <1>12, <2>1 DEF ParseText
    <2> QED
      BY <1>2, <1>5, <2>2
  <1>13. CASE s # <<>> /\ s[1] \in Quotes
    <2>1. s[1] \notin DOMAIN SingleTokens /\ s[1] # "#"
      BY <1>13 DEF SingleTokens, Quotes
    <2>2. ParseText(s) = QuotedToken(s)
      BY <1>13, <2>1 DEF ParseText
    <2> QED
      BY <1>6, <2>2
  <1>14. CASE s # <<>> /\ s[1] \notin DOMAIN SingleTokens /\ s[1] # "#" /\ s[1] \notin Quotes
    <2>1. ParseText(s) = IF n = 0 THEN EndOfFile ELSE Token("NORMAL", s, n - 1)
      BY <1>9, <1>14 DEF ParseText
    <2> QED
      BY <1>2, <1>7, <1>9, <1>14, <2>1
  <1> QED
    BY <1>10, <1>11, <1>12, <1>13, <1>14

LEMMA ParseTokenFacts ==
    ASSUME NEW s \in CharSeqs
    PROVE  TakenFrom(s, ParseToken(s)) /\ Len(ParseToken(s).rest) \in Nat
  <1>1. TakenFrom(SkipWhitespace(s), ParseToken(s))
    BY SkippedText, ParseTextFacts DEF ParseToken
  <1>2. Len(ParseToken(s).rest) \in Nat
    BY <1>1 DEF TakenFrom, IsToken, CharSeqs
  <1> QED
    BY <1>1, <1>2, SkippedText DEF TakenFrom

\* What the parser has built so far: every statement has a name, stands in a
\* block, and the last one can be added to while its words are being read.
Words == CharSeqs \ {<<>>}

Statements ==
    [depth : Nat \ {0}, tokens : Seq(Words) \ {<<>>}, block : BOOLEAN]

ParserOK(p) ==
    /\ DOMAIN p = {"input", "config", "config_stack", "last_token_type", "verdict"}
    /\ p.input \in CharSeqs
    /\ p.config \in Seq(Statements)
    /\ p.config_stack \in Nat \ {0}
    /\ p.last_token_type = "NORMAL" => p.config # <<>>

LEMMA NewParserOK ==
    ASSUME NEW s \in CharSeqs PROVE ParserOK(NewParser(s))
  BY DEF NewParser, ParserOK

LEMMA AddStatementOK ==
    ASSUME NEW c \in Seq(Statements), NEW depth \in Nat \ {0}, NEW token \in Words
    PROVE  AddStatement(c, depth, token) \in Seq(Statements)
           /\ AddStatement(c, depth, token) # <<>>
  <1>1. <<token>> \in Seq(Words) \ {<<>>}
    OBVIOUS
  <1>2. PICK new \in Statements : new = [depth |-> depth, tokens |-> <<token>>, block |-> FALSE]
    BY <1>1 DEF Statements
  <1>3. Append(c, new) \in Seq(Statements) /\ Append(c, new) # <<>>
    BY AppendFacts
  <1> QED
    BY <1>2, <1>3 DEF AddStatement

LEMMA ChangeLast ==
    ASSUME NEW c \in Seq(Statements), c # <<>>, NEW new \in Statements
    PROVE  [c EXCEPT ![Len(c)] = new] \in Seq(Statements)
           /\ [c EXCEPT ![Len(c)] = new] # <<>>
  OBVIOUS

LEMMA AddTokenOK ==
    ASSUME NEW c \in Seq(Statements), c # <<>>, NEW token \in Words
    PROVE  AddToken(c, token) \in Seq(Statements) /\ AddToken(c, token) # <<>>
  <1>1. PICK old \in Statements : old = c[Len(c)]
    OBVIOUS
  <1>2. Append(old.tokens, token) \in Seq(Words) \ {<<>>}
    <2>1. old.tokens \in Seq(Words)
      BY DEF Statements
    <2>2. Append(old.tokens, token) \in Seq(Words)
      BY <2>1
    <2>3. Append(old.tokens, token) # <<>>
      BY <2>1
    <2> QED
      BY <2>2, <2>3
  <1>3. [old EXCEPT !.tokens = Append(@, token)] \in Statements
    BY <1>2 DEF Statements
  <1>4. AddToken(c, token) = [c EXCEPT ![Len(c)] = [old EXCEPT !.tokens = Append(@, token)]]
    BY <1>1 DEF AddToken
  <1> QED
    BY <1>3, <1>4, ChangeLast

LEMMA AddBlockOK ==
    ASSUME NEW c \in Seq(Statements), c # <<>>
    PROVE  AddBlock(c) \in Seq(Statements) /\ AddBlock(c) # <<>>
  <1>1. PICK old \in Statements : old = c[Len(c)]
    OBVIOUS
  <1>2. [old EXCEPT !.block = TRUE] \in Statements
    BY DEF Statements
  <1>3. AddBlock(c) = [c EXCEPT ![Len(c)] = [old EXCEPT !.block = TRUE]]
    BY <1>1 DEF AddBlock
  <1> QED
    BY <1>2, <1>3, ChangeLast

LEMMA ConsumeOK ==
    ASSUME NEW p, ParserOK(p), NEW token, IsToken(token), MayFollow(p, token.type)
    PROVE  ParserOK(Consume(p, token))
  <1> DEFINE q == [p EXCEPT !.input = token.rest, !.last_token_type = token.type]
  <1>1. /\ DOMAIN q = {"input", "config", "config_stack", "last_token_type", "verdict"}
        /\ q.input = token.rest /\ q.last_token_type = token.type
        /\ q.config = p.config /\ q.config_stack = p.config_stack
    BY DEF ParserOK
  <1>2. token.rest \in CharSeqs /\ p.config \in Seq(Statements) /\ p.config_stack \in Nat \ {0}
    BY DEF ParserOK, IsToken
  <1>3. CASE token.type = "NORMAL"
    <2>1. token.value \in Words
      BY <1>3 DEF IsToken, Words
    <2>2. CASE p.last_token_type = "NORMAL"
      <3>1. Consume(p, token) = [q EXCEPT !.config = AddToken(@, token.value)]
        BY <1>3, <2>2 DEF Consume
      <3>2. PICK c \in Seq(Statements) : c = AddToken(p.config, token.value) /\ c # <<>>
        BY <1>2, <2>1, <2>2, AddTokenOK DEF ParserOK
      <3> HIDE DEF q
      <3> QED
        BY <1>1, <1>2, <3>1, <3>2 DEF ParserOK
    <2>3. CASE p.last_token_type # "NORMAL"
      <3>1. Consume(p, token) =
                [q EXCEPT !.config = AddStatement(@, p.config_stack, token.value)]
        BY <1>3, <2>3 DEF Consume
      <3>2. PICK c \in Seq(Statements) :
                c = AddStatement(p.config, p.config_stack, token.value) /\ c # <<>>
        BY <1>2, <2>1, AddStatementOK
      <3> HIDE DEF q
      <3> QED
        BY <1>1, <1>2, <3>1, <3>2 DEF ParserOK
    <2> QED
      BY <2>2, <2>3
  <1>4. CASE token.type = "STATEMENT_END"
    <2>1. Consume(p, token) = q
      BY <1>4 DEF Consume
    <2> HIDE DEF q
    <2> QED
      BY <1>1, <1>2, <1>4, <2>1 DEF ParserOK
  <1>5. CASE token.type = "START_BLOCK"
    <2>1. p.last_token_type = "NORMAL"
      BY <1>5 DEF MayFollow
    <2>2. Consume(p, token) = [q EXCEPT !.config = AddBlock(@), !.config_stack = @ + 1]
      BY <1>5 DEF Consume
    <2>3. PICK c \in Seq(Statements) : c = AddBlock(p.config)
      BY <1>2, <2>1, AddBlockOK DEF ParserOK
    <2> HIDE DEF q
    <2> QED
      BY <1>1, <1>2, <1>5, <2>2, <2>3 DEF ParserOK
  <1>6. CASE token.type = "END_BLOCK"
    <2>1. p.config_stack > 1
      BY <1>6 DEF MayFollow
    <2>2. Consume(p, token) = [q EXCEPT !.config_stack = @ - 1]
      BY <1>6 DEF Consume
    <2> HIDE DEF q
    <2> QED
      BY <1>1, <1>2, <1>6, <2>1, <2>2 DEF ParserOK
  <1>7. CASE token.type \notin {"NORMAL", "STATEMENT_END", "START_BLOCK", "END_BLOCK"}
    <2>1. Consume(p, token) = [q EXCEPT !.verdict = "accepted"]
      BY <1>7 DEF Consume
    <2> HIDE DEF q
    <2> QED
      BY <1>1, <1>2, <1>7, <2>1 DEF ParserOK
  <1> QED
    BY <1>3, <1>4, <1>5, <1>6, <1>7

LEMMA ParseStepOK ==
    ASSUME NEW p, ParserOK(p) PROVE ParserOK(ParseStep(p))
  <1>1. PICK token : token = ParseToken(p.input) /\ IsToken(token)
    BY ParseTokenFacts DEF ParserOK, TakenFrom
  <1>2. CASE p.verdict # "parsing"
    BY <1>2 DEF ParseStep
  <1>3. CASE p.verdict = "parsing" /\ token.type = "COMMENT"
    <2>1. ParseStep(p) = [p EXCEPT !.input = token.rest]
      BY <1>1, <1>3 DEF ParseStep
    <2> QED
      BY <1>1, <2>1 DEF ParserOK, IsToken
  <1>4. CASE p.verdict = "parsing" /\ token.type # "COMMENT"
    <2>1. ParseStep(p) = IF MayFollow(p, token.type) THEN Consume(p, token)
                         ELSE [p EXCEPT !.verdict = "rejected"]
      BY <1>1, <1>4 DEF ParseStep
    <2>2. ParserOK([p EXCEPT !.verdict = "rejected"])
      BY DEF ParserOK
    <2> QED
      BY <1>1, <2>1, <2>2, ConsumeOK, Zenon
  <1> QED
    BY <1>2, <1>3, <1>4

--------------------------------------------------------------------------------
(* The grammar: it is that of balanced sequences, and the parser that of them *)

EndTypes == {"STATEMENT_END", "END_BLOCK"}

\* Token i may follow the one before it, and d is the number of open blocks.
Follows(t, d, i) ==
    /\ t[i] \in StatementTypes
    /\ t[i] \in {"STATEMENT_END", "START_BLOCK"} => i > 1 /\ t[i - 1] = "NORMAL"
    /\ t[i] = "END_BLOCK" => i > 1 /\ t[i - 1] \in EndTypes /\ d[i - 1] = d[i] + 1
    /\ t[i] = "START_BLOCK" => d[i] = d[i - 1] + 1
    /\ t[i] \in {"NORMAL", "STATEMENT_END"} => d[i] = d[i - 1]

Depths(t, d) ==
    /\ d \in [0 .. Len(t) -> Nat]
    /\ d[0] = 0
    /\ \A i \in 1 .. Len(t) : Follows(t, d, i)

Balanced(t) ==
    /\ t # <<>>
    /\ t[Len(t)] \in EndTypes
    /\ \E d : Depths(t, d) /\ d[Len(t)] = 0

LEMMA TokenSequenceFacts ==
    ASSUME NEW t \in TokenSequences
    PROVE  Len(t) \in Nat /\ (t # <<>> <=> Len(t) >= 1)
  <1>1. PICK S : TokenSequences = Seq(S)
    BY DEF TokenSequences
  <1>2. t \in Seq(S)
    BY <1>1
  <1> QED
    BY <1>2

\* The part of a sequence between two places.
LEMMA SubSequenceFacts ==
    ASSUME NEW t \in TokenSequences, NEW a \in Nat, NEW b \in Nat, a <= b, b <= Len(t)
    PROVE  \E u \in TokenSequences :
              /\ u = SubSeq(t, a + 1, b)
              /\ Len(u) = b - a
              /\ \A i \in 1 .. b - a : u[i] = t[a + i]
  <1>1. PICK S : TokenSequences = Seq(S)
    BY DEF TokenSequences
  <1>2. PICK m \in 1 .. Len(t) + 1, n \in 0 .. Len(t) : m = a + 1 /\ n = b
    BY TokenSequenceFacts
  <1>3. /\ SubSeq(t, m, n) \in Seq(S)
        /\ Len(SubSeq(t, m, n)) = IF m <= n THEN n - m + 1 ELSE 0
        /\ \A i \in 1 .. n - m + 1 : SubSeq(t, m, n)[i] = t[m + i - 1]
    <2>1. t \in Seq(S)
      BY <1>1
    <2> QED
      BY <2>1, SubSeqFacts
  <1>4. PICK u \in TokenSequences : u = SubSeq(t, m, n)
    BY <1>1, <1>3
  <1>5. Len(u) = b - a /\ n - m + 1 = b - a
    BY <1>2, <1>3, <1>4
  <1>6. \A i \in 1 .. b - a : u[i] = t[a + i]
    <2>1. \A i \in 1 .. b - a : m + i - 1 = a + i
      BY <1>2
    <2> QED
      BY <1>3, <1>4, <1>5, <2>1
  <1> QED
    BY <1>2, <1>4, <1>5, <1>6

\* The first n tokens.
LEMMA FirstPart ==
    ASSUME NEW t \in TokenSequences, NEW n \in Nat, n <= Len(t)
    PROVE  \E u \in TokenSequences :
              u = SubSeq(t, 1, n) /\ Len(u) = n /\ \A i \in 1 .. n : u[i] = t[i]
  <1>1. PICK a \in Nat : a = 0 /\ a <= n
    OBVIOUS
  <1>2. PICK u \in TokenSequences :
            u = SubSeq(t, a + 1, n) /\ Len(u) = n - a /\ \A i \in 1 .. n - a : u[i] = t[a + i]
    BY <1>1, SubSequenceFacts
  <1>3. a + 1 = 1 /\ n - a = n /\ \A i \in 1 .. n : a + i = i
    BY <1>1
  <1> QED
    BY <1>2, <1>3

\* A token fits where another one does that has the same token before it.
LEMMA FollowsAlike ==
    ASSUME NEW t, NEW d, NEW k \in Nat, NEW u, NEW e, NEW i \in Nat, NEW c \in Int,
           Follows(t, d, k), i > 1, u[i] = t[k], u[i - 1] = t[k - 1],
           d[k] \in Int, d[k - 1] \in Int, e[i] = d[k] - c, e[i - 1] = d[k - 1] - c
    PROVE  Follows(u, e, i)
  <1>1. /\ e[i] = d[k] <=> c = 0
        /\ d[k - 1] = d[k] + 1 => e[i - 1] = e[i] + 1
        /\ d[k] = d[k - 1] + 1 => e[i] = e[i - 1] + 1
        /\ d[k] = d[k - 1] => e[i] = e[i - 1]
    <2>1. PICK x, y \in Int : d[k] = x /\ d[k - 1] = y
      OBVIOUS
    <2> QED
      BY <2>1
  <1>2. /\ t[k] \in StatementTypes
        /\ t[k] \in {"STATEMENT_END", "START_BLOCK"} => t[k - 1] = "NORMAL"
        /\ t[k] = "END_BLOCK" => t[k - 1] \in EndTypes /\ d[k - 1] = d[k] + 1
        /\ t[k] = "START_BLOCK" => d[k] = d[k - 1] + 1
        /\ t[k] \in {"NORMAL", "STATEMENT_END"} => d[k] = d[k - 1]
    BY Zenon DEF Follows
  <1> QED
    BY <1>1, <1>2, Zenon DEF Follows

\* A part of a balanced sequence that opens no more than it closes is balanced.
LEMMA BalancedPart ==
    ASSUME NEW t \in TokenSequences, NEW d, Depths(t, d),
           NEW a \in 0 .. Len(t), NEW b \in a + 1 .. Len(t),
           t[a + 1] = "NORMAL", t[b] \in EndTypes, d[b] = d[a],
           \A i \in a .. b : d[i] >= d[a]
    PROVE  Balanced(SubSeq(t, a + 1, b))
  <1>1. Len(t) \in Nat /\ a \in Nat /\ b \in Nat /\ a < b /\ b <= Len(t)
    BY TokenSequenceFacts
  <1>2. PICK u \in TokenSequences :
            /\ u = SubSeq(t, a + 1, b)
            /\ Len(u) = b - a
            /\ \A i \in 1 .. b - a : u[i] = t[a + i]
    <2>1. a <= b
      BY <1>1
    <2> QED
      BY <1>1, <2>1, SubSequenceFacts
  <1>3. PICK e : e = [i \in 0 .. b - a |-> d[a + i] - d[a]]
    OBVIOUS
  <1>4. \A i \in 0 .. b - a : a + i \in a .. b /\ a + i \in 0 .. Len(t)
    BY <1>1
  <1>5. \A i \in 0 .. Len(t) : d[i] \in Nat
    BY DEF Depths
  <1>6. \A i \in 0 .. b - a : e[i] = d[a + i] - d[a] /\ e[i] \in Nat
    <2>1. ASSUME NEW i \in 0 .. b - a PROVE e[i] = d[a + i] - d[a] /\ e[i] \in Nat
      <3>1. e[i] = d[a + i] - d[a]
        BY <1>3
      <3>2. d[a + i] \in Nat /\ d[a] \in Nat /\ d[a + i] >= d[a]
        BY <1>1, <1>4, <1>5
      <3> QED
        BY <3>1, <3>2
    <2> QED
      BY <2>1
  <1>7. e \in [0 .. Len(u) -> Nat]
    BY <1>2, <1>3, <1>6
  <1>8. e[0] = 0 /\ e[b - a] = 0
    BY <1>1, <1>5, <1>6
  <1>9. ASSUME NEW i \in 1 .. Len(u) PROVE Follows(u, e, i)
    <2>1. i \in Nat /\ i >= 1 /\ i \in 1 .. b - a /\ a + i \in 1 .. Len(t)
      BY <1>1, <1>2
    <2>2. Follows(t, d, a + i)
      BY <2>1 DEF Depths
    <2>3. u[i] = t[a + i]
      BY <1>2, <2>1
    <2>4. /\ e[i] = d[a + i] - d[a] /\ e[i - 1] = d[a + (i - 1)] - d[a]
          /\ d[a + i] \in Nat /\ d[a + (i - 1)] \in Nat /\ d[a] \in Nat
          /\ a + (i - 1) = a + i - 1
      <3>1. i \in 0 .. b - a /\ i - 1 \in 0 .. b - a /\ a + (i - 1) = a + i - 1
        BY <1>1, <2>1
      <3> QED
        BY <1>4, <1>5, <1>6, <3>1
    <2>5. CASE i = 1
      <3>1. u[i] = "NORMAL"
        BY <2>3, <2>5
      <3>2. d[a + i] = d[a + i - 1]
        BY <2>2, <2>3, <3>1 DEF Follows
      <3>3. e[i] = e[i - 1]
        BY <2>4, <3>2
      <3> QED
        BY <3>1, <3>3 DEF Follows, StatementTypes
    <2>6. CASE i # 1
      <3>1. u[i - 1] = t[a + i - 1] /\ i > 1
        <4>1. i - 1 \in 1 .. b - a /\ a + (i - 1) = a + i - 1
          BY <1>1, <2>1, <2>6
        <4>2. u[i - 1] = t[a + (i - 1)]
          BY <1>2, <4>1
        <4> QED
          BY <2>1, <2>6, <4>1, <4>2
      <3> QED
        BY <1>1, <2>1, <2>2, <2>3, <2>4, <3>1, FollowsAlike
    <2> QED
      BY <2>5, <2>6
  <1>10. u # <<>> /\ u[Len(u)] \in EndTypes
    <2>1. Len(u) \in 1 .. b - a /\ Len(u) >= 1 /\ a + (b - a) = b
      BY <1>1, <1>2
    <2>2. u[Len(u)] = t[b]
      BY <1>2, <2>1
    <2> QED
      BY <2>1, <2>2, TokenSequenceFacts
  <1> QED
    BY <1>2, <1>7, <1>8, <1>9, <1>10 DEF Balanced, Depths

\* The grammar, of the sequences for which f is true.
Grammar(t, f) ==
    \E n \in 1 .. Len(t) :
        /\ \E words \in 1 .. n - 1 :
              /\ \A i \in 1 .. words : t[i] = "NORMAL"
              /\ \/ words + 1 = n /\ t[n] = "STATEMENT_END"
                 \/ /\ t[words + 1] = "START_BLOCK"
                    /\ t[n] = "END_BLOCK"
                    /\ f[SubSeq(t, words + 2, n - 1)]
        /\ n = Len(t) \/ f[SubSeq(t, n + 1, Len(t))]

\* Words come first, and leave no block open.
LEMMA FirstWords ==
    ASSUME NEW t \in TokenSequences, NEW d, Depths(t, d), NEW n \in 1 .. Len(t), t[n] # "NORMAL"
    PROVE  \E words \in 1 .. n - 1 :
              /\ \A i \in 1 .. words : t[i] = "NORMAL"
              /\ \A i \in 0 .. words : d[i] = 0
              /\ t[words + 1] \in {"STATEMENT_END", "START_BLOCK"}
  <1> DEFINE Other == {i \in 1 .. Len(t) : t[i] # "NORMAL"}
  <1>1. Len(t) \in Nat /\ n \in Nat /\ 1 <= n /\ n <= Len(t)
    BY TokenSequenceFacts
  <1>2. PICK m \in Other : m <= n /\ \A k \in Nat : k < m => k \notin Other
    <2>1. Other \in SUBSET Nat /\ n \in Other
      BY <1>1
    <2> HIDE DEF Other
    <2> QED
      BY <2>1, FirstNumber
  <1>3. m \in 1 .. n /\ m \in 1 .. Len(t) /\ t[m] # "NORMAL"
    BY <1>1, <1>2
  <1>4. ASSUME NEW i \in 1 .. m - 1 PROVE t[i] = "NORMAL"
    <2>1. i \in Nat /\ i < m /\ i \in 1 .. Len(t)
      BY <1>1, <1>3
    <2> QED
      BY <1>2, <2>1
  <1>5. Follows(t, d, m)
    BY <1>3 DEF Depths
  <1>6. m > 1 /\ m - 1 \in 1 .. n - 1 /\ t[m] \in {"STATEMENT_END", "START_BLOCK"}
    <2>1. t[m] \in {"STATEMENT_END", "START_BLOCK", "END_BLOCK"} /\ m > 1
      BY <1>3, <1>5 DEF Follows, StatementTypes
    <2>2. m - 1 \in 1 .. m - 1 /\ m - 1 \in 1 .. n - 1
      BY <1>1, <1>3, <2>1
    <2>3. t[m - 1] \notin EndTypes
      BY <1>4, <2>2 DEF EndTypes
    <2>4. t[m] # "END_BLOCK"
      BY <1>5, <2>3 DEF Follows
    <2> QED
      BY <2>1, <2>2, <2>4
  <1>7. ASSUME NEW i \in 0 .. m - 1, d[i] # 0 PROVE FALSE
    <2> DEFINE Deep == {k \in 0 .. m - 1 : d[k] # 0}
    <2>1. PICK k \in Deep : \A j \in Nat : j < k => j \notin Deep
      <3>1. Deep \in SUBSET Nat /\ i \in Deep
        BY <1>3, <1>7
      <3> HIDE DEF Deep
      <3> QED
        BY <3>1, FirstNumber
    <2>2. k \in 0 .. m - 1 /\ d[k] # 0
      BY <2>1
    <2>3. k # 0
      BY <2>2 DEF Depths
    <2>4. k - 1 \in Nat /\ k - 1 < k /\ k - 1 \in 0 .. m - 1 /\ k \in 1 .. m - 1
          /\ k \in 1 .. Len(t)
      BY <1>1, <1>3, <2>2, <2>3
    <2>5. d[k - 1] = 0
      BY <2>1, <2>4
    <2>6. t[k] = "NORMAL" /\ Follows(t, d, k)
      BY <1>4, <2>4 DEF Depths
    <2>7. d[k] = d[k - 1]
      BY <2>6 DEF Follows
    <2> QED
      BY <2>2, <2>5, <2>7
  <1>8. (m - 1) + 1 = m
    BY <1>1, <1>3
  <1> QED
    BY <1>4, <1>6, <1>7, <1>8

\* What is balanced is a statement and what is balanced.
LEMMA BalancedIsConfig ==
    ASSUME NEW t \in TokenSequences, Balanced(t), NEW f,
           \A u \in TokenSequences : Len(u) < Len(t) /\ Balanced(u) => f[u]
    PROVE  Grammar(t, f)
  <1>1. PICK d : Depths(t, d) /\ d[Len(t)] = 0
    BY DEF Balanced
  <1>2. PICK l \in Nat : l = Len(t) /\ l >= 1 /\ t[l] \in EndTypes
    BY TokenSequenceFacts DEF Balanced
  <1>3. /\ \A i \in 0 .. l : d[i] \in Nat
        /\ \A i \in 1 .. l : Follows(t, d, i)
        /\ d[0] = 0 /\ d[l] = 0
    BY <1>1, <1>2 DEF Depths
  \* The first word after something that is neither a word nor an end.
  <1>4. ASSUME NEW i \in 0 .. l - 1,
               i = 0 \/ t[i] \in {"START_BLOCK", "STATEMENT_END", "END_BLOCK"},
               i # 0 /\ t[i] \in EndTypes => d[i] = 0
        PROVE  t[i + 1] = "NORMAL"
    <2>1. i + 1 \in 1 .. l /\ (i + 1) - 1 = i /\ i \in 0 .. l /\ (i + 1 > 1 => i # 0)
      BY <1>2
    <2>2. Follows(t, d, i + 1) /\ d[i] \in Nat /\ d[i + 1] \in Nat
      BY <1>3, <2>1
    <2>3. t[i + 1] \in StatementTypes
      BY <2>2 DEF Follows
    <2>4. t[i + 1] \notin {"STATEMENT_END", "START_BLOCK"}
      BY <1>4, <2>1, <2>2 DEF Follows
    <2>5. t[i + 1] # "END_BLOCK"
      <3>1. t[i + 1] = "END_BLOCK" => i # 0 /\ t[i] \in EndTypes /\ d[i] = d[i + 1] + 1
        BY <2>1, <2>2 DEF Follows
      <3> QED
        BY <1>4, <2>2, <3>1
    <2> QED
      BY <2>3, <2>4, <2>5 DEF StatementTypes
  <1>5. ASSUME NEW n \in 1 .. l, d[n] = 0, t[n] \in EndTypes, n # l
        PROVE  f[SubSeq(t, n + 1, Len(t))]
    <2>1. /\ n \in 0 .. Len(t) /\ l \in n + 1 .. Len(t) /\ n \in 0 .. l - 1
          /\ n + 1 \in 1 .. Len(t) + 1 /\ l \in 0 .. Len(t) /\ n + 1 <= l /\ l - (n + 1) + 1 < l
      BY <1>2, <1>5
    <2>2. t[n + 1] = "NORMAL"
      BY <1>4, <1>5, <2>1 DEF EndTypes
    <2>3. \A i \in n .. l : d[i] >= d[n]
      <3>1. \A i \in n .. l : i \in 0 .. l
        BY <2>1
      <3> QED
        BY <1>3, <1>5, <3>1
    <2>4. Balanced(SubSeq(t, n + 1, l))
      BY <1>1, <1>2, <1>3, <1>5, <2>1, <2>2, <2>3, BalancedPart
    <2>5. PICK u \in TokenSequences : u = SubSeq(t, n + 1, l) /\ Len(u) = l - n
      <3>1. n \in Nat /\ l \in Nat /\ n <= l /\ l <= Len(t)
        BY <1>2, <2>1
      <3> QED
        BY <3>1, SubSequenceFacts
    <2>6. Len(u) < Len(t)
      BY <1>2, <2>1, <2>5
    <2> QED
      BY <1>2, <2>4, <2>5, <2>6
  <1>6. PICK words \in 1 .. l - 1 :
            /\ \A i \in 1 .. words : t[i] = "NORMAL"
            /\ \A i \in 0 .. words : d[i] = 0
            /\ t[words + 1] \in {"STATEMENT_END", "START_BLOCK"}
    <2>1. l \in 1 .. Len(t) /\ t[l] # "NORMAL"
      BY <1>2 DEF EndTypes
    <2> QED
      BY <1>1, <2>1, FirstWords
  <1>7. PICK w \in 2 .. l : w = words + 1
    BY <1>2
  <1>8. /\ words \in Nat /\ words \in 1 .. w - 1 /\ w \in 1 .. l /\ w - 1 = words /\ d[words] = 0
        /\ Follows(t, d, w) /\ 1 .. l = 1 .. Len(t)
    <2>1. words \in Nat /\ words \in 1 .. w - 1 /\ w \in 1 .. l /\ w - 1 = words
          /\ words \in 0 .. words
      BY <1>2, <1>7
    <2> QED
      BY <1>2, <1>3, <1>6, <2>1
  <1>9. CASE t[w] = "STATEMENT_END"
    <2>1. d[w] = 0 /\ t[w] \in EndTypes
      BY <1>8, <1>9 DEF Follows, EndTypes
    <2>2. w = Len(t) \/ f[SubSeq(t, w + 1, Len(t))]
      BY <1>2, <1>5, <1>8, <2>1
    <2> QED
      BY <1>6, <1>7, <1>8, <1>9, <2>2 DEF Grammar
  <1>10. CASE t[w] = "START_BLOCK"
    <2>1. d[w] = 1 /\ w # l
      BY <1>2, <1>8, <1>10 DEF Follows, EndTypes
    <2> DEFINE Closed == {i \in w + 1 .. l : d[i] = 0}
    <2>2. PICK n \in Closed : \A k \in Nat : k < n => k \notin Closed
      <3>1. Closed \in SUBSET Nat /\ l \in Closed
        BY <1>2, <1>3, <1>8, <2>1
      <3> HIDE DEF Closed
      <3> QED
        BY <3>1, FirstNumber
    <2>3. n \in w + 1 .. l /\ d[n] = 0 /\ n \in 1 .. l /\ n - 1 \in w .. l - 1 /\ n - 1 \in 0 .. l
      BY <1>2, <1>8, <2>2
    <2>4. \A i \in w .. n - 1 : d[i] >= 1
      <3>1. ASSUME NEW i \in w .. n - 1 PROVE d[i] >= 1
        <4>1. i \in Nat /\ i < n /\ i \in 0 .. l /\ (i = w \/ i \in w + 1 .. l)
          BY <1>2, <1>8, <2>3
        <4>2. i = w \/ d[i] # 0
          BY <2>2, <4>1
        <4>3. d[i] \in Nat
          BY <1>3, <4>1
        <4> QED
          BY <2>1, <4>2, <4>3
      <3> QED
        BY <3>1
    <2>5. Follows(t, d, n) /\ d[n - 1] \in Nat /\ d[n - 1] >= 1
      <3>1. n - 1 \in w .. n - 1
        BY <1>8, <2>3
      <3> QED
        BY <1>3, <2>3, <2>4, <3>1
    <2>6. t[n] = "END_BLOCK" /\ d[n - 1] = 1 /\ t[n - 1] \in EndTypes
      <3>1. t[n] \in StatementTypes
            /\ (t[n] \in {"NORMAL", "STATEMENT_END"} => d[n] = d[n - 1])
            /\ (t[n] = "START_BLOCK" => d[n] = d[n - 1] + 1)
            /\ (t[n] = "END_BLOCK" => t[n - 1] \in EndTypes /\ d[n - 1] = d[n] + 1)
        BY <2>5 DEF Follows
      <3>2. d[n] # d[n - 1] /\ d[n] # d[n - 1] + 1
        BY <2>3, <2>5
      <3>3. t[n] = "END_BLOCK"
        BY <3>1, <3>2 DEF StatementTypes
      <3> QED
        BY <2>3, <3>1, <3>3
    <2>7. n - 1 # w
      BY <1>10, <2>6 DEF EndTypes
    <2>8. Balanced(SubSeq(t, w + 1, n - 1))
      <3>1. w \in 0 .. Len(t) /\ n - 1 \in w + 1 .. Len(t) /\ w \in 0 .. l - 1 /\ w # 0
        BY <1>2, <1>8, <2>3, <2>7
      <3>2. t[w + 1] = "NORMAL"
        <4>1. t[w] \notin EndTypes
          BY <1>10 DEF EndTypes
        <4> QED
          BY <1>4, <1>10, <3>1, <4>1
      <3> QED
        BY <1>1, <2>1, <2>4, <2>6, <3>1, <3>2, BalancedPart
    <2>9. f[SubSeq(t, words + 2, n - 1)]
      <3> HIDE DEF Closed
      <3>1. /\ w \in Nat /\ n - 1 \in Nat /\ w <= n - 1 /\ n - 1 <= Len(t)
            /\ n - 1 - w < Len(t) /\ words + 2 = w + 1
        BY <1>2, <1>7, <1>8, <2>3, <2>7
      <3>2. PICK u \in TokenSequences : u = SubSeq(t, w + 1, n - 1) /\ Len(u) = n - 1 - w
        BY <3>1, SubSequenceFacts
      <3>3. f[u]
        BY <2>8, <3>1, <3>2
      <3> QED
        BY <3>1, <3>2, <3>3
    <2>10. n = Len(t) \/ f[SubSeq(t, n + 1, Len(t))]
      <3>1. t[n] \in EndTypes
        BY <2>6 DEF EndTypes
      <3> QED
        BY <1>2, <1>5, <2>3, <3>1
    <2>11. words \in 1 .. n - 1 /\ n \in 1 .. Len(t)
      BY <1>2, <1>8, <2>3
    <2> HIDE DEF Closed
    <2> QED
      BY <1>6, <1>7, <1>10, <2>6, <2>9, <2>10, <2>11 DEF Grammar
  <1> QED
    BY <1>6, <1>7, <1>9, <1>10

LEMMA WordFollows ==
    ASSUME NEW t, NEW d, NEW i, t[i] = "NORMAL", d[i] = d[i - 1]
    PROVE  Follows(t, d, i)
  BY DEF Follows, StatementTypes

LEMMA FirstIsWord ==
    ASSUME NEW t, NEW d, Depths(t, d), Len(t) \in Nat, Len(t) >= 1
    PROVE  t[1] = "NORMAL" /\ d[1] = d[0] /\ d[0] = 0
  <1>1. Follows(t, d, 1) /\ d[0] = 0 /\ 1 - 1 = 0
    BY DEF Depths
  <1> QED
    BY <1>1 DEF Follows, StatementTypes

\* A statement is balanced, where the statements of its block are.
LEMMA StatementBalanced ==
    ASSUME NEW t \in TokenSequences, NEW n \in 1 .. Len(t), NEW words \in 1 .. n - 1,
           \A i \in 1 .. words : t[i] = "NORMAL",
           \/ words + 1 = n /\ t[n] = "STATEMENT_END"
           \/ /\ t[words + 1] = "START_BLOCK"
              /\ t[n] = "END_BLOCK"
              /\ Balanced(SubSeq(t, words + 2, n - 1))
    PROVE  Balanced(SubSeq(t, 1, n))
  <1>1. Len(t) \in Nat /\ n \in Nat /\ words \in Nat /\ 1 <= words /\ words < n /\ n <= Len(t)
    BY TokenSequenceFacts
  <1>2. PICK v \in TokenSequences :
            v = SubSeq(t, 1, n) /\ Len(v) = n /\ \A i \in 1 .. n : v[i] = t[i]
    <2>1. n \in Nat /\ n <= Len(t)
      BY <1>1
    <2> QED
      BY <2>1, FirstPart
  <1>3. v # <<>> /\ v[n] = t[n]
    <2>1. Len(v) >= 1 /\ n \in 1 .. n
      BY <1>1, <1>2
    <2> QED
      BY <1>2, <2>1, TokenSequenceFacts
  <1>4. ASSUME NEW i \in 1 .. words PROVE v[i] = "NORMAL"
    BY <1>1, <1>2
  <1>5. CASE words + 1 = n /\ t[n] = "STATEMENT_END"
    <2>1. PICK d : d = [i \in 0 .. n |-> 0]
      OBVIOUS
    <2>2. \A i \in 0 .. n : d[i] = 0
      BY <2>1
    <2>3. d \in [0 .. Len(v) -> Nat] /\ d[0] = 0 /\ d[Len(v)] = 0
      BY <1>1, <1>2, <2>1, <2>2
    <2>4. ASSUME NEW i \in 1 .. n PROVE Follows(v, d, i)
      <3>1. d[i] = 0 /\ d[i - 1] = 0
        BY <1>1, <2>2
      <3>2. CASE i <= words
        BY <1>1, <1>4, <3>1, <3>2, WordFollows
      <3>3. CASE i = n
        <4>1. v[n] = "STATEMENT_END" /\ v[n - 1] = "NORMAL" /\ n > 1
          BY <1>1, <1>3, <1>4, <1>5
        <4> QED
          BY <3>1, <3>3, <4>1 DEF Follows, StatementTypes
      <3> QED
        BY <1>1, <1>5, <3>2, <3>3
    <2> QED
      BY <1>2, <1>3, <1>5, <2>3, <2>4 DEF Balanced, Depths, EndTypes
  <1>6. CASE /\ t[words + 1] = "START_BLOCK"
             /\ t[n] = "END_BLOCK"
             /\ Balanced(SubSeq(t, words + 2, n - 1))
    <2>1. words + 1 < n
      <3>1. "START_BLOCK" # "END_BLOCK"
        OBVIOUS
      <3>2. words + 1 # n
        BY <1>6, <3>1
      <3> QED
        BY <1>1, <3>2
    <2>2. PICK u \in TokenSequences :
              /\ u = SubSeq(t, words + 2, n - 1)
              /\ Len(u) = n - 2 - words
              /\ \A i \in 1 .. Len(u) : u[i] = v[words + 1 + i]
      <3>1. words + 1 \in Nat /\ n - 1 \in Nat /\ words + 1 <= n - 1 /\ n - 1 <= Len(t)
        BY <1>1, <2>1
      <3>2. PICK u \in TokenSequences :
                /\ u = SubSeq(t, words + 1 + 1, n - 1)
                /\ Len(u) = n - 1 - (words + 1)
                /\ \A i \in 1 .. n - 1 - (words + 1) : u[i] = t[words + 1 + i]
        BY <3>1, SubSequenceFacts
      <3>3. words + 1 + 1 = words + 2 /\ n - 1 - (words + 1) = n - 2 - words
        BY <1>1
      <3>4. \A i \in 1 .. n - 2 - words : words + 1 + i \in 1 .. n
        BY <1>1
      <3>5. Len(u) = n - 2 - words /\ \A i \in 1 .. n - 2 - words : u[i] = t[words + 1 + i]
        BY <3>2, <3>3
      <3>6. \A i \in 1 .. n - 2 - words : u[i] = v[words + 1 + i]
        BY <1>2, <3>4, <3>5
      <3> QED
        BY <3>2, <3>3, <3>5, <3>6
    <2>3. PICK m \in Nat : m = Len(u) /\ m >= 1 /\ m = n - 2 - words /\ u[m] \in EndTypes
      BY <1>6, <2>2, TokenSequenceFacts DEF Balanced
    <2>4. PICK e : Depths(u, e) /\ e[m] = 0
      BY <1>6, <2>2, <2>3 DEF Balanced
    <2>5. \A i \in 0 .. m : e[i] \in Nat
      BY <2>3, <2>4 DEF Depths
    <2>6. u[1] = "NORMAL" /\ e[1] = 0 /\ e[0] = 0
      BY <2>3, <2>4, FirstIsWord
    <2>7. PICK d : d = [i \in 0 .. n |-> IF i <= words \/ i = n THEN 0 ELSE e[i - words - 1] + 1]
      OBVIOUS
    <2>8. /\ \A i \in 0 .. words : d[i] = 0
          /\ \A i \in 0 .. m : d[words + 1 + i] = e[i] + 1
          /\ d[n] = 0
      <3>1. \A i \in 0 .. words : i \in 0 .. n /\ i <= words
        BY <1>1
      <3>2. ASSUME NEW i \in 0 .. m
            PROVE  /\ words + 1 + i \in 0 .. n /\ ~(words + 1 + i <= words)
                   /\ words + 1 + i # n /\ words + 1 + i - words - 1 = i
        BY <1>1, <2>1, <2>3
      <3>3. n \in 0 .. n
        BY <1>1
      <3> QED
        BY <2>7, <3>1, <3>2, <3>3
    <2>9. ASSUME NEW i \in 0 .. n
          PROVE  \/ i \in 0 .. words
                 \/ i = words + 1
                 \/ i = words + 2
                 \/ \E k \in 2 .. m : i = words + 1 + k
                 \/ i = n
      <3>1. i > words + 2 /\ i < n => i - words - 1 \in 2 .. m /\ i = words + 1 + (i - words - 1)
        BY <1>1, <2>3
      <3> QED
        BY <1>1, <3>1
    <2>10. ASSUME NEW i \in 0 .. n PROVE d[i] \in Nat
      <3>1. CASE i \in 0 .. words \/ i = n
        BY <2>8, <3>1
      <3>2. CASE i \notin 0 .. words /\ i # n
        <4>1. PICK k \in 0 .. m : i = words + 1 + k
          <5>1. i - words - 1 \in 0 .. m /\ i = words + 1 + (i - words - 1)
            BY <1>1, <2>3, <3>2
          <5> QED
            BY <5>1
        <4>2. d[i] = e[k] + 1 /\ e[k] \in Nat
          BY <2>5, <2>8, <4>1
        <4> QED
          BY <4>2
      <3> QED
        BY <3>1, <3>2
    <2>11. d \in [0 .. n -> Nat]
      BY <2>7, <2>10
    <2>12. ASSUME NEW i \in 1 .. n PROVE Follows(v, d, i)
      <3>1. CASE i \in 0 .. words
        <4>1. i \in 1 .. words /\ i - 1 \in 0 .. words
          BY <1>1, <3>1
        <4> QED
          BY <1>4, <2>8, <3>1, <4>1, WordFollows
      <3>2. CASE i = words + 1
        <4>1. v[i] = "START_BLOCK" /\ v[i - 1] = "NORMAL" /\ i > 1
          <5>1. i - 1 \in 1 .. words /\ i > 1
            BY <1>1, <3>2
          <5> QED
            BY <1>2, <1>4, <1>6, <3>2, <5>1
        <4>2. d[i] = d[i - 1] + 1
          <5>1. 0 \in 0 .. m /\ words + 1 + 0 = i /\ i - 1 = words /\ words \in 0 .. words
            BY <1>1, <2>3, <3>2
          <5>2. d[i] = e[0] + 1 /\ d[i - 1] = 0
            BY <2>8, <5>1
          <5> QED
            BY <2>6, <5>2
        <4> QED
          BY <4>1, <4>2 DEF Follows, StatementTypes
      <3>3. CASE i = words + 2
        <4>1. 1 \in 1 .. m /\ 1 \in 0 .. m /\ 0 \in 0 .. m /\ words + 1 + 1 = i
              /\ words + 1 + 0 = i - 1
          BY <1>1, <2>3, <3>3
        <4>2. v[i] = "NORMAL" /\ d[i] = e[1] + 1 /\ d[i - 1] = e[0] + 1
          BY <2>2, <2>3, <2>6, <2>8, <4>1
        <4> QED
          BY <2>6, <4>2, WordFollows
      <3>4. ASSUME NEW k \in 2 .. m, i = words + 1 + k PROVE Follows(v, d, i)
        <4>1. /\ k \in 1 .. m /\ k - 1 \in 1 .. m /\ k \in 0 .. m /\ k - 1 \in 0 .. m /\ k \in Nat
              /\ words + 1 + (k - 1) = i - 1 /\ i > 1 /\ i \in Nat
          BY <1>1, <2>3, <3>4
        <4>2. Follows(u, e, k)
          BY <2>3, <2>4, <4>1 DEF Depths
        <4>3. v[i] = u[k] /\ v[i - 1] = u[k - 1]
          BY <2>2, <2>3, <3>4, <4>1
        <4>4. d[i] = e[k] + 1 /\ d[i - 1] = e[k - 1] + 1 /\ e[k] \in Int /\ e[k - 1] \in Int
          BY <2>5, <2>8, <3>4, <4>1
        <4>5. d[i] = e[k] - (-1) /\ d[i - 1] = e[k - 1] - (-1) /\ -1 \in Int
          BY <4>4
        <4> QED
          BY <4>1, <4>2, <4>3, <4>4, <4>5, FollowsAlike
      <3>5. CASE i = n
        <4>1. m \in 0 .. m /\ m \in 1 .. m /\ words + 1 + m = n - 1 /\ n > 1
          BY <1>1, <2>3
        <4>2. v[n - 1] \in EndTypes
          BY <2>2, <2>3, <4>1
        <4>3. d[n - 1] = 1
          <5>1. d[words + 1 + m] = e[m] + 1
            BY <2>8, <4>1
          <5> QED
            BY <2>4, <4>1, <5>1
        <4>4. v[n] = "END_BLOCK" /\ d[n] = 0
          BY <1>3, <1>6, <2>8
        <4> QED
          BY <3>5, <4>1, <4>2, <4>3, <4>4 DEF Follows, StatementTypes
      <3> QED
        BY <1>1, <2>9, <3>1, <3>2, <3>3, <3>4, <3>5
    <2>13. d[0] = 0 /\ d[n] = 0
      BY <1>1, <2>8
    <2> QED
      BY <1>2, <1>3, <1>6, <2>11, <2>12, <2>13 DEF Balanced, Depths, EndTypes
  <1> QED
    BY <1>5, <1>6

\* Balanced sequences follow each other.
LEMMA BalancedFollow ==
    ASSUME NEW t \in TokenSequences, NEW n \in 1 .. Len(t), Balanced(SubSeq(t, 1, n)),
           Balanced(SubSeq(t, n + 1, Len(t)))
    PROVE  Balanced(t)
  <1>1. PICK l \in Nat : l = Len(t)
    BY TokenSequenceFacts
  <1>2. n \in Nat /\ 1 <= n /\ n <= l
    BY <1>1
  <1>3. PICK v \in TokenSequences :
            v = SubSeq(t, 1, n) /\ Len(v) = n /\ \A i \in 1 .. n : v[i] = t[i]
    <2>1. n \in Nat /\ n <= Len(t)
      BY <1>1, <1>2
    <2> QED
      BY <2>1, FirstPart
  <1>4. PICK u \in TokenSequences :
            /\ u = SubSeq(t, n + 1, l) /\ Len(u) = l - n
            /\ \A i \in 1 .. l - n : u[i] = t[n + i]
    <2>1. n \in Nat /\ l \in Nat /\ n <= l /\ l <= Len(t)
      BY <1>1, <1>2
    <2> QED
      BY <2>1, SubSequenceFacts
  <1>5. PICK c : Depths(v, c) /\ c[n] = 0
    BY <1>3 DEF Balanced
  <1>6. PICK e : Depths(u, e) /\ e[l - n] = 0 /\ l - n >= 1 /\ u[l - n] \in EndTypes
    <2>1. Balanced(u) /\ Len(u) = l - n
      BY <1>1, <1>4
    <2>2. Len(u) >= 1 /\ u[Len(u)] \in EndTypes
      BY <2>1, TokenSequenceFacts DEF Balanced
    <2>3. PICK e : Depths(u, e) /\ e[Len(u)] = 0
      BY <2>1 DEF Balanced
    <2> QED
      BY <2>1, <2>2, <2>3
  <1>7. \A i \in 0 .. n : c[i] \in Nat
    BY <1>3, <1>5 DEF Depths
  <1>8. \A i \in 0 .. l - n : e[i] \in Nat
    BY <1>4, <1>6 DEF Depths
  <1>9. PICK d : d = [i \in 0 .. l |-> IF i <= n THEN c[i] ELSE e[i - n]]
    OBVIOUS
  <1>10. u[1] = "NORMAL" /\ e[1] = 0 /\ e[0] = 0
    <2>1. Len(u) \in Nat /\ Len(u) >= 1 /\ Depths(u, e)
      BY <1>4, <1>6, TokenSequenceFacts
    <2>2. u[1] = "NORMAL" /\ e[1] = e[0] /\ e[0] = 0
      BY <2>1, FirstIsWord
    <2> QED
      BY <2>2
  <1>11. v[1] = "NORMAL" /\ c[1] = c[0] /\ c[0] = 0
    BY <1>2, <1>3, <1>5, FirstIsWord
  <1>12. /\ \A i \in 0 .. n : d[i] = c[i]
         /\ \A i \in 0 .. l - n : d[n + i] = e[i]
    <2>1. \A i \in 0 .. n : i \in 0 .. l /\ i <= n
      BY <1>2
    <2>2. ASSUME NEW i \in 0 .. l - n PROVE d[n + i] = e[i]
      <3>1. CASE i = 0
        <4>1. n + i = n /\ n \in 0 .. l /\ n <= n
          BY <1>2, <3>1
        <4> QED
          BY <1>5, <1>9, <1>10, <3>1, <4>1
      <3>2. CASE i # 0
        <4>1. n + i \in 0 .. l /\ ~(n + i <= n) /\ n + i - n = i
          BY <1>2, <3>2
        <4> QED
          BY <1>9, <4>1
      <3> QED
        BY <3>1, <3>2
    <2> QED
      BY <1>9, <2>1, <2>2
  <1>13. ASSUME NEW i \in 1 .. l PROVE Follows(t, d, i)
    <2>1. CASE i = 1
      <3>1. 1 \in 0 .. n /\ 0 \in 0 .. n /\ 1 \in 1 .. n /\ i - 1 = 0
        BY <1>2, <2>1
      <3>2. t[i] = "NORMAL" /\ d[i] = d[i - 1]
        BY <1>3, <1>11, <1>12, <2>1, <3>1
      <3> QED
        BY <3>2, WordFollows
    <2>2. CASE i = n + 1
      <3>1. 1 \in 0 .. l - n /\ 1 \in 1 .. l - n /\ i - 1 = n /\ n \in 0 .. n
        BY <1>2, <2>2
      <3>2. t[i] = "NORMAL" /\ d[i] = 0 /\ d[i - 1] = 0
        BY <1>4, <1>5, <1>10, <1>12, <2>2, <3>1
      <3> QED
        BY <3>2, WordFollows
    <2>3. CASE i \in 2 .. n
      <3>1. i \in 1 .. n /\ i - 1 \in 1 .. n /\ i \in 0 .. n /\ i - 1 \in 0 .. n /\ i \in Nat
            /\ i > 1
        BY <1>2, <2>3
      <3>2. Follows(v, c, i) /\ t[i] = v[i] /\ t[i - 1] = v[i - 1]
        BY <1>3, <1>5, <3>1 DEF Depths
      <3>3. d[i] = c[i] - 0 /\ d[i - 1] = c[i - 1] - 0 /\ c[i] \in Int /\ c[i - 1] \in Int
            /\ 0 \in Int
        BY <1>7, <1>12, <3>1
      <3> QED
        BY <3>1, <3>2, <3>3, FollowsAlike
    <2>4. CASE i > n + 1
      <3>1. PICK k \in 2 .. l - n : i = n + k
        <4>1. i - n \in 2 .. l - n /\ i = n + (i - n)
          BY <1>2, <2>4
        <4> QED
          BY <4>1
      <3>2. /\ k \in 1 .. l - n /\ k - 1 \in 1 .. l - n /\ k \in 0 .. l - n /\ k - 1 \in 0 .. l - n
            /\ k \in Nat /\ i \in Nat /\ i > 1 /\ n + (k - 1) = i - 1
        BY <1>2, <3>1
      <3>3. Follows(u, e, k) /\ t[i] = u[k] /\ t[i - 1] = u[k - 1]
        BY <1>4, <1>6, <3>1, <3>2 DEF Depths
      <3>4. d[i] = e[k] /\ d[i - 1] = e[k - 1] /\ e[k] \in Int /\ e[k - 1] \in Int
        BY <1>8, <1>12, <3>1, <3>2
      <3>5. d[i] = e[k] - 0 /\ d[i - 1] = e[k - 1] - 0 /\ 0 \in Int
        BY <3>4
      <3> QED
        BY <3>2, <3>3, <3>4, <3>5, FollowsAlike
    <2> QED
      BY <1>2, <2>1, <2>2, <2>3, <2>4
  <1>14. ASSUME NEW i \in 0 .. l PROVE d[i] \in Nat
    <2>1. CASE i <= n
      <3>1. i \in 0 .. n
        BY <1>2, <2>1
      <3> QED
        BY <1>7, <1>12, <3>1
    <2>2. CASE ~(i <= n)
      <3>1. i - n \in 0 .. l - n /\ n + (i - n) = i
        BY <1>2, <2>2
      <3>2. d[i] = e[i - n]
        BY <1>12, <3>1
      <3> QED
        BY <1>8, <3>1, <3>2
    <2> QED
      BY <2>1, <2>2
  <1>15. d \in [0 .. l -> Nat]
    BY <1>9, <1>14
  <1>16. d[0] = 0 /\ d[l] = 0 /\ t[l] \in EndTypes /\ t # <<>>
    <2>1. 0 \in 0 .. n /\ l - n \in 0 .. l - n /\ l - n \in 1 .. l - n /\ n + (l - n) = l /\ l >= 1
      BY <1>2, <1>6
    <2>2. t # <<>> /\ t[l] = u[l - n]
      BY <1>1, <1>4, <2>1, TokenSequenceFacts
    <2>3. d[0] = c[0] /\ d[l] = e[l - n]
      BY <1>12, <2>1
    <2> QED
      BY <1>6, <1>11, <2>2, <2>3
  <1> QED
    BY <1>1, <1>13, <1>15, <1>16 DEF Balanced, Depths

LEMMA ConfigIsBalanced ==
    ASSUME NEW t \in TokenSequences, NEW f, Grammar(t, f),
           \A u \in TokenSequences : Len(u) < Len(t) /\ f[u] => Balanced(u)
    PROVE  Balanced(t)
  <1>1. PICK n \in 1 .. Len(t) :
            /\ \E words \in 1 .. n - 1 :
                  /\ \A i \in 1 .. words : t[i] = "NORMAL"
                  /\ \/ words + 1 = n /\ t[n] = "STATEMENT_END"
                     \/ /\ t[words + 1] = "START_BLOCK"
                        /\ t[n] = "END_BLOCK"
                        /\ f[SubSeq(t, words + 2, n - 1)]
            /\ n = Len(t) \/ f[SubSeq(t, n + 1, Len(t))]
    BY Zenon DEF Grammar
  <1>2. PICK words \in 1 .. n - 1 :
            /\ \A i \in 1 .. words : t[i] = "NORMAL"
            /\ \/ words + 1 = n /\ t[n] = "STATEMENT_END"
               \/ /\ t[words + 1] = "START_BLOCK"
                  /\ t[n] = "END_BLOCK"
                  /\ f[SubSeq(t, words + 2, n - 1)]
    BY <1>1, Zenon
  <1>3. Len(t) \in Nat /\ n \in Nat /\ words \in Nat /\ 1 <= words /\ words < n /\ n <= Len(t)
    BY TokenSequenceFacts
  <1>4. ASSUME t[words + 1] = "START_BLOCK", t[n] = "END_BLOCK",
               f[SubSeq(t, words + 2, n - 1)]
        PROVE  Balanced(SubSeq(t, words + 2, n - 1))
    <2>1. words + 1 # n
      <3>1. "START_BLOCK" # "END_BLOCK"
        OBVIOUS
      <3> QED
        BY <1>4, <3>1
    <2>2. words + 1 \in Nat /\ n - 1 \in Nat /\ words + 1 <= n - 1 /\ n - 1 <= Len(t)
          /\ n - 1 - (words + 1) < Len(t) /\ words + 1 + 1 = words + 2
      BY <1>3, <2>1
    <2>3. PICK u \in TokenSequences :
              u = SubSeq(t, words + 1 + 1, n - 1) /\ Len(u) = n - 1 - (words + 1)
      BY <2>2, SubSequenceFacts
    <2> QED
      BY <1>4, <2>2, <2>3
  <1>5. Balanced(SubSeq(t, 1, n))
    BY <1>2, <1>4, StatementBalanced
  <1>6. CASE n = Len(t)
    <2>1. n \in Nat /\ n <= Len(t)
      BY <1>3
    <2>2. PICK u \in TokenSequences :
              u = SubSeq(t, 1, n) /\ Len(u) = n /\ \A i \in 1 .. n : u[i] = t[i]
      BY <2>1, FirstPart
    <2>3. u = t
      <3>1. PICK S : TokenSequences = Seq(S)
        BY DEF TokenSequences
      <3> QED
        BY <1>6, <2>2, <3>1, SameSequence
    <2> QED
      BY <1>5, <2>2, <2>3
  <1>7. CASE n # Len(t)
    <2>1. n \in Nat /\ Len(t) \in Nat /\ n <= Len(t) /\ Len(t) <= Len(t) /\ Len(t) - n < Len(t)
      BY <1>3
    <2>2. PICK u \in TokenSequences : u = SubSeq(t, n + 1, Len(t)) /\ Len(u) = Len(t) - n
      BY <2>1, SubSequenceFacts
    <2>3. f[u]
      BY <1>1, <1>7, <2>2
    <2>4. Balanced(SubSeq(t, n + 1, Len(t)))
      BY <2>1, <2>2, <2>3
    <2> QED
      BY <1>5, <2>4, BalancedFollow
  <1> QED
    BY <1>6, <1>7

\* The grammar has one solution: the balanced sequences.
LEMMA GrammarIsBalance ==
    ASSUME NEW t \in TokenSequences PROVE IsConfig[t] <=> Balanced(t)
  <1>1. IsConfig = CHOOSE f : f = [u \in TokenSequences |-> Grammar(u, f)]
    BY DEF IsConfig, Grammar
  <1>2. PICK b : b = [u \in TokenSequences |-> Balanced(u)]
    OBVIOUS
  <1>3. \A u \in TokenSequences : b[u] <=> Balanced(u)
    BY <1>2, Zenon
  <1>4. \A u \in TokenSequences : Balanced(u) <=> Grammar(u, b)
    BY <1>3, BalancedIsConfig, ConfigIsBalanced, Zenon
  <1>5. b = [u \in TokenSequences |-> Grammar(u, b)]
    <2>1. \A u \in TokenSequences : Balanced(u) \in BOOLEAN /\ Grammar(u, b) \in BOOLEAN
      BY Zenon DEF Balanced, Grammar
    <2>2. \A u \in TokenSequences : Balanced(u) = Grammar(u, b)
      BY <1>4, <2>1
    <2> QED
      BY <1>2, <2>2, Zenon
  <1>6. PICK f : f = IsConfig /\ f = [u \in TokenSequences |-> Grammar(u, f)]
    BY <1>1, <1>5, Zenon
  <1>7. \A u \in TokenSequences : f[u] <=> Grammar(u, f)
    <2>1. \A h : h = [u \in TokenSequences |-> Grammar(u, f)] =>
                     \A u \in TokenSequences : h[u] <=> Grammar(u, f)
      BY Zenon
    <2> QED
      BY <1>6, <2>1, Zenon
  <1>8. ASSUME NEW u \in TokenSequences, ~(f[u] <=> Balanced(u)) PROVE FALSE
    <2> DEFINE Wrong ==
            {n \in Nat : \E v \in TokenSequences : Len(v) = n /\ ~(f[v] <=> Balanced(v))}
    <2>1. PICK m \in Wrong : \A n \in Wrong : m <= n
      <3>1. Wrong \in SUBSET Nat
        OBVIOUS
      <3>2. Len(u) \in Nat
        BY TokenSequenceFacts
      <3>3. Len(u) \in Wrong
        BY <1>8, <3>2, Zenon
      <3> HIDE DEF Wrong
      <3> QED
        BY <3>1, <3>3, LeastNumber
    <2>2. PICK v \in TokenSequences : Len(v) = m /\ ~(f[v] <=> Balanced(v))
      BY <2>1, Zenon
    <2>3. ASSUME NEW w \in TokenSequences, Len(w) < Len(v) PROVE f[w] <=> Balanced(w)
      <3>1. Len(w) \in Nat /\ m \in Nat
        BY <2>1, TokenSequenceFacts
      <3>2. ~(m <= Len(w))
        BY <2>2, <2>3, <3>1
      <3>3. Len(w) \notin Wrong
        BY <2>1, <3>2, Zenon
      <3> QED
        BY <3>1, <3>3, Zenon
    <2>4. Balanced(v) => Grammar(v, f)
      BY <2>3, BalancedIsConfig, Zenon
    <2>5. Grammar(v, f) => Balanced(v)
      BY <2>3, ConfigIsBalanced, Zenon
    <2> QED
      BY <1>7, <2>2, <2>4, <2>5, Zenon
  <1> QED
    BY <1>6, <1>8, Zenon

IsTaken(taken) == taken.input \in CharSeqs /\ taken.types \in TokenSequences

\* The last types that are read.
FinalTypes == Final \cup {"CUT_WORD"}

HasEnded(taken) == taken.types # <<>> /\ Last(taken.types) \in FinalTypes

\* What is read differs from what ParseToken says at a cut word only.
LEMMA TokenTypeFacts ==
    ASSUME NEW input, NEW token, token = ParseToken(input), token.type \in TokenKinds,
           NEW type, type = TokenType(input)
    PROVE  /\ \/ type = token.type
              \/ token.type = "EOF" /\ type = "CUT_WORD"
           /\ type \in TokenKinds \cup {"CUT_WORD"}
           /\ type = "COMMENT" <=> token.type = "COMMENT"
           /\ type \in FinalTypes <=> token.type \in Final
           /\ type \in {"EOF", "CUT_WORD"} <=> token.type = "EOF"
  <1>1. type = token.type \/ (token.type = "EOF" /\ type = "CUT_WORD")
    BY DEF TokenType
  <1>2. "CUT_WORD" \notin TokenKinds
    BY DEF TokenKinds, StatementTypes
  <1> QED
    BY <1>1, <1>2 DEF FinalTypes, Final

LEMMA AppendType ==
    ASSUME NEW t \in TokenSequences, NEW type \in TokenKinds \cup {"CUT_WORD"},
           type # "COMMENT"
    PROVE  /\ Append(t, type) \in TokenSequences /\ Append(t, type) # <<>>
           /\ Len(Append(t, type)) = Len(t) + 1
           /\ Last(Append(t, type)) = type
           /\ Append(t, type)[Len(t) + 1] = type
           /\ \A i \in 1 .. Len(t) : Append(t, type)[i] = t[i]
           /\ Front(Append(t, type)) = t
  <1>1. PICK S : TokenSequences = Seq(S) /\ type \in S
    BY DEF TokenSequences, TokenKinds, StatementTypes
  <1>2. t \in Seq(S) /\ Len(t) \in Nat
    BY <1>1
  <1>3. /\ Append(t, type) \in Seq(S) /\ Append(t, type) # <<>>
        /\ Len(Append(t, type)) = Len(t) + 1
        /\ Append(t, type)[Len(t) + 1] = type
        /\ \A i \in 1 .. Len(t) : Append(t, type)[i] = t[i]
    BY <1>1, <1>2, AppendFacts
  <1>4. Last(Append(t, type)) = type
    BY <1>3 DEF Last
  <1>5. Front(Append(t, type)) = t
    <2>1. PICK u \in Seq(S) : u = Append(t, type)
      BY <1>3
    <2>2. Front(u) = SubSeq(u, 1, Len(t))
      BY <1>2, <1>3, <2>1 DEF Front
    <2>3. PICK v \in Seq(S) : v = SubSeq(u, 1, Len(t)) /\ Len(v) = Len(t)
                              /\ \A i \in 1 .. Len(t) : v[i] = u[i]
      <3>1. 1 \in 1 .. Len(u) + 1 /\ Len(t) \in 0 .. Len(u)
        BY <1>2, <1>3, <2>1
      <3>2. /\ SubSeq(u, 1, Len(t)) \in Seq(S)
            /\ Len(SubSeq(u, 1, Len(t))) = IF 1 <= Len(t) THEN Len(t) - 1 + 1 ELSE 0
            /\ \A i \in 1 .. Len(t) - 1 + 1 : SubSeq(u, 1, Len(t))[i] = u[1 + i - 1]
        BY <3>1, SubSeqFacts
      <3>3. (IF 1 <= Len(t) THEN Len(t) - 1 + 1 ELSE 0) = Len(t) /\ Len(t) - 1 + 1 = Len(t)
            /\ \A i \in 1 .. Len(t) : 1 + i - 1 = i
        BY <1>2
      <3> QED
        BY <3>2, <3>3
    <2>4. v = t
      BY <1>2, <1>3, <2>1, <2>3, SameSequence
    <2> QED
      BY <2>1, <2>2, <2>3, <2>4
  <1> QED
    BY <1>1, <1>3, <1>4, <1>5

\* One sequence is the beginning of another.
Begins(t, u) == Len(t) <= Len(u) /\ \A i \in 1 .. Len(t) : t[i] = u[i]

LEMMA TakeTokenFacts ==
    ASSUME NEW taken, IsTaken(taken)
    PROVE  /\ IsTaken(TakeToken(taken))
           /\ Begins(taken.types, TakeToken(taken).types)
           /\ HasEnded(taken) => TakeToken(taken) = taken
  <1>1. PICK token : token = ParseToken(taken.input) /\ token.type \in TokenKinds
                     /\ token.rest \in CharSeqs
    BY ParseTokenFacts DEF IsTaken, IsToken, TakenFrom
  <1>2. PICK type : /\ type = TokenType(taken.input) /\ type \in TokenKinds \cup {"CUT_WORD"}
                    /\ (type = "COMMENT" <=> token.type = "COMMENT")
    BY <1>1, TokenTypeFacts
  <1>3. taken.types \in TokenSequences /\ Len(taken.types) \in Nat
    BY TokenSequenceFacts DEF IsTaken
  <1>4. Begins(taken.types, taken.types)
    BY <1>3 DEF Begins
  <1>5. CASE HasEnded(taken)
    <2>1. TakeToken(taken) = taken
      BY <1>5, Zenon DEF TakeToken, HasEnded, FinalTypes, Final
    <2> QED
      BY <1>4, <2>1
  <1>6. CASE ~HasEnded(taken)
    <2>1. TakeToken(taken) =
              [input |-> token.rest,
               types |-> IF type = "COMMENT" THEN taken.types ELSE Append(taken.types, type)]
      BY <1>1, <1>2, <1>6, ZenonT(40) DEF TakeToken, HasEnded, FinalTypes, Final
    <2>2. TakeToken(taken).input = token.rest
      BY <2>1
    <2>3. CASE type = "COMMENT"
      <3>1. TakeToken(taken).types = taken.types
        BY <2>1, <2>3
      <3> QED
        BY <1>1, <1>3, <1>4, <1>6, <2>2, <3>1 DEF IsTaken
    <2>4. CASE type # "COMMENT"
      <3>1. TakeToken(taken).types = Append(taken.types, type)
        BY <2>1, <2>4
      <3>2. PICK u \in TokenSequences :
                /\ u = Append(taken.types, type) /\ Len(u) = Len(taken.types) + 1
                /\ \A i \in 1 .. Len(taken.types) : u[i] = taken.types[i]
        BY <1>2, <1>3, <2>4, AppendType
      <3>3. Begins(taken.types, u)
        BY <1>3, <3>2 DEF Begins
      <3> QED
        BY <1>1, <1>6, <2>2, <3>1, <3>2, <3>3 DEF IsTaken
    <2> QED
      BY <2>3, <2>4
  <1> QED
    BY <1>5, <1>6

\* What has been taken after n turns, of what has been after the turns before.
TakeTurn(input, f, n) ==
    IF n = 0 THEN [input |-> input, types |-> <<>>] ELSE TakeToken(f[n - 1])

AreTakeTurns(input, f, l) == f = [n \in 0 .. l |-> TakeTurn(input, f, n)]

LEMMA TakeTurnFromBefore ==
    ASSUME NEW input, NEW f, NEW g, NEW n, n = 0 \/ f[n - 1] = g[n - 1]
    PROVE  TakeTurn(input, f, n) = TakeTurn(input, g, n)
  BY DEF TakeTurn

LEMMA TakeTurnsExist ==
    ASSUME NEW input, NEW l \in Nat
    PROVE  \E f : AreTakeTurns(input, f, l)
  <1> DEFINE Without == {m \in Nat : ~\E f : AreTakeTurns(input, f, m)}
  <1> SUFFICES ASSUME Without # {} PROVE FALSE
    OBVIOUS
  <1>1. PICK m \in Without : \A k \in Without : m <= k
    <2>1. Without \in SUBSET Nat
      OBVIOUS
    <2> HIDE DEF Without
    <2> QED
      BY <2>1, LeastNumber
  <1>2. m \in Nat /\ ~\E f : AreTakeTurns(input, f, m)
    BY <1>1
  <1>3. PICK f : m = 0 \/ AreTakeTurns(input, f, m - 1)
    <2>1. m = 0 \/ (m - 1 \in Nat /\ m - 1 \notin Without)
      BY <1>1, <1>2
    <2> QED
      BY <2>1
  <1>4. PICK g : g = [k \in 0 .. m |-> TakeTurn(input, f, k)]
    OBVIOUS
  <1>5. ASSUME NEW k \in 0 .. m PROVE TakeTurn(input, f, k) = TakeTurn(input, g, k)
    <2>1. CASE k = 0
      BY <2>1, TakeTurnFromBefore
    <2>2. CASE k # 0
      <3>1. k - 1 \in 0 .. m /\ k - 1 \in 0 .. m - 1 /\ m # 0
        BY <1>2, <2>2
      <3>2. g[k - 1] = TakeTurn(input, f, k - 1)
        BY <1>4, <3>1
      <3>3. f = [j \in 0 .. m - 1 |-> TakeTurn(input, f, j)]
        BY <1>3, <3>1 DEF AreTakeTurns
      <3>4. f[k - 1] = TakeTurn(input, f, k - 1)
        <4>1. \A h : h = [j \in 0 .. m - 1 |-> TakeTurn(input, f, j)] =>
                         h[k - 1] = TakeTurn(input, f, k - 1)
          BY <3>1
        <4> QED
          BY <3>3, <4>1
      <3> QED
        BY <3>2, <3>4, TakeTurnFromBefore
    <2> QED
      BY <2>1, <2>2
  <1>6. AreTakeTurns(input, g, m)
    <2>1. g = [k \in 0 .. m |-> TakeTurn(input, g, k)]
      BY <1>4, <1>5
    <2> QED
      BY <2>1 DEF AreTakeTurns
  <1> QED
    BY <1>2, <1>6

\* f has what is taken from the input turn by turn.
Reads(input, f) ==
    /\ f[0] = [input |-> input, types |-> <<>>]
    /\ \A n \in 1 .. Len(input) + 1 : f[n] = TakeToken(f[n - 1])
    /\ TokenTypes(input) = f[Len(input) + 1].types

LEMMA SomethingReads ==
    ASSUME NEW input \in CharSeqs PROVE \E f : Reads(input, f)
  <1>1. PICK l \in Nat : l = Len(input) + 1
    BY DEF CharSeqs
  <1>2. PICK f : AreTakeTurns(input, f, l) /\ TokenTypes(input) = f[l].types
    <2>1. TokenTypes(input) = (CHOOSE f : AreTakeTurns(input, f, l))[l].types
      <3>1. TokenTypes(input) =
                (CHOOSE f : AreTakeTurns(input, f, Len(input) + 1))[Len(input) + 1].types
        BY DEF TokenTypes, AreTakeTurns, TakeTurn
      <3> QED
        BY <1>1, <3>1
    <2>2. AreTakeTurns(input, CHOOSE f : AreTakeTurns(input, f, l), l)
      BY <1>1, TakeTurnsExist
    <2> QED
      BY <2>1, <2>2
  <1>3. \A n \in 0 .. l : f[n] = TakeTurn(input, f, n)
    <2>1. \A h : h = [j \in 0 .. l |-> TakeTurn(input, f, j)] =>
                     \A n \in 0 .. l : h[n] = TakeTurn(input, f, n)
      OBVIOUS
    <2> QED
      BY <1>2, <2>1 DEF AreTakeTurns
  <1>4. f[0] = [input |-> input, types |-> <<>>]
    BY <1>1, <1>3 DEF TakeTurn
  <1>5. ASSUME NEW n \in 1 .. l PROVE f[n] = TakeToken(f[n - 1])
    <2>1. n \in 0 .. l /\ n # 0
      BY <1>1
    <2> QED
      BY <1>3, <2>1 DEF TakeTurn
  <1> QED
    BY <1>1, <1>2, <1>4, <1>5 DEF Reads

LEMMA BeginsFacts ==
    ASSUME NEW t, NEW u, NEW v, Len(t) \in Nat, Len(u) \in Nat, Len(v) \in Nat,
           Begins(t, u), Begins(u, v)
    PROVE  Begins(t, v)
  BY DEF Begins

\* What has been taken stays taken, and nothing is after the end.
LEMMA TakenStays ==
    ASSUME NEW input \in CharSeqs, NEW f, Reads(input, f),
           NEW n \in 0 .. Len(input) + 1, IsTaken(f[n]), NEW m \in n .. Len(input) + 1
    PROVE  /\ IsTaken(f[m])
           /\ Begins(f[n].types, f[m].types)
           /\ HasEnded(f[n]) => f[m] = f[n]
  <1> DEFINE Stays(k) == /\ IsTaken(f[k])
                         /\ Begins(f[n].types, f[k].types)
                         /\ HasEnded(f[n]) => f[k] = f[n]
             Wrong == {k \in n .. Len(input) + 1 : ~Stays(k)}
  <1> SUFFICES ASSUME ~Stays(m) PROVE FALSE
    OBVIOUS
  <1>1. Len(input) \in Nat /\ n \in Nat /\ m \in Nat
    BY DEF CharSeqs
  <1>2. PICK k \in Wrong : \A j \in Nat : j < k => j \notin Wrong
    <2>1. Wrong \in SUBSET Nat /\ m \in Wrong
      BY <1>1
    <2> HIDE DEF Wrong
    <2> QED
      BY <2>1, FirstNumber
  <1>3. k \in n .. Len(input) + 1 /\ ~Stays(k)
    BY <1>2
  <1>4. Len(f[n].types) \in Nat
    BY TokenSequenceFacts DEF IsTaken
  <1>5. k # n
    <2>1. Stays(n)
      BY <1>4 DEF Begins
    <2> HIDE DEF Stays
    <2> QED
      BY <1>3, <2>1
  <1>6. /\ k - 1 \in Nat /\ k - 1 < k /\ k - 1 \in n .. Len(input) + 1
        /\ k \in 1 .. Len(input) + 1
    BY <1>1, <1>3, <1>5
  <1>7. Stays(k - 1)
    <2>1. k - 1 \notin Wrong
      BY <1>2, <1>6, Zenon
    <2> HIDE DEF Stays
    <2> QED
      BY <1>6, <2>1
  <1>8. f[k] = TakeToken(f[k - 1])
    BY <1>6 DEF Reads
  <1>9. IsTaken(f[k]) /\ Begins(f[k - 1].types, f[k].types)
        /\ (HasEnded(f[k - 1]) => f[k] = f[k - 1])
    BY <1>7, <1>8, TakeTokenFacts
  <1>10. Len(f[k - 1].types) \in Nat /\ Len(f[k].types) \in Nat
    BY <1>7, <1>9, TokenSequenceFacts DEF IsTaken
  <1>11. Begins(f[n].types, f[k].types)
    BY <1>4, <1>7, <1>9, <1>10, BeginsFacts
  <1>12. HasEnded(f[n]) => f[k] = f[n]
    BY <1>7, <1>9, Zenon
  <1> QED
    BY <1>3, <1>9, <1>11, <1>12

\* The number of open blocks follows from the tokens.
LEMMA DepthsAgree ==
    ASSUME NEW t \in TokenSequences, NEW u \in TokenSequences, NEW d, NEW e,
           Depths(t, d), Depths(u, e), Begins(t, u), NEW n \in 0 .. Len(t)
    PROVE  d[n] = e[n]
  <1> DEFINE Other == {i \in 0 .. Len(t) : d[i] # e[i]}
  <1> SUFFICES ASSUME d[n] # e[n] PROVE FALSE
    OBVIOUS
  <1>1. Len(t) \in Nat /\ Len(u) \in Nat /\ Len(t) <= Len(u)
    BY TokenSequenceFacts DEF Begins
  <1>2. PICK m \in Other : \A k \in Nat : k < m => k \notin Other
    <2>1. Other \in SUBSET Nat /\ n \in Other
      OBVIOUS
    <2> HIDE DEF Other
    <2> QED
      BY <2>1, FirstNumber
  <1>3. m \in 0 .. Len(t) /\ d[m] # e[m] /\ m # 0
    BY <1>2 DEF Depths
  <1>4. m - 1 \in Nat /\ m - 1 < m /\ m - 1 \in 0 .. Len(t) /\ m \in 1 .. Len(t)
        /\ m \in 1 .. Len(u)
        /\ m \in 0 .. Len(u) /\ m - 1 \in 0 .. Len(u)
    BY <1>1, <1>3
  <1>5. d[m - 1] = e[m - 1]
    BY <1>2, <1>4
  <1>6. Follows(t, d, m) /\ Follows(u, e, m) /\ t[m] = u[m]
    BY <1>4 DEF Depths, Begins
  <1>7. d[m] \in Nat /\ e[m] \in Nat /\ d[m - 1] \in Nat
    BY <1>4 DEF Depths
  <1>8. t[m] \in StatementTypes
        /\ (t[m] = "END_BLOCK" => d[m - 1] = d[m] + 1)
        /\ (t[m] = "START_BLOCK" => d[m] = d[m - 1] + 1)
        /\ (t[m] \in {"NORMAL", "STATEMENT_END"} => d[m] = d[m - 1])
    BY <1>6 DEF Follows
  <1>9. /\ t[m] = "END_BLOCK" => e[m - 1] = e[m] + 1
        /\ t[m] = "START_BLOCK" => e[m] = e[m - 1] + 1
        /\ t[m] \in {"NORMAL", "STATEMENT_END"} => e[m] = e[m - 1]
    BY <1>6 DEF Follows
  <1> QED
    BY <1>3, <1>5, <1>7, <1>8, <1>9 DEF StatementTypes

\* What the parser remembers of the tokens it has taken.
LastType(t) == IF t = <<>> THEN "START" ELSE t[Len(t)]

Remembers(p, t) ==
    /\ \E d : Depths(t, d) /\ d[Len(t)] = p.config_stack - 1
    /\ p.last_token_type = LastType(t)

\* The types that may follow are those that fit.
LEMMA MayFollowFacts ==
    ASSUME NEW p
    PROVE  /\ MayFollow(p, "NORMAL")
           /\ \A type \in {"STATEMENT_END", "START_BLOCK"} :
                 MayFollow(p, type) <=> p.last_token_type = "NORMAL"
           /\ MayFollow(p, "END_BLOCK") <=> p.last_token_type \in EndTypes /\ p.config_stack > 1
           /\ MayFollow(p, "EOF") <=> p.last_token_type \in EndTypes /\ p.config_stack = 1
           /\ ~MayFollow(p, "ERROR")
  BY DEF MayFollow, EndTypes

Opened(type) == IF type = "START_BLOCK" THEN 1 ELSE IF type = "END_BLOCK" THEN -1 ELSE 0

LEMMA DepthsGrow ==
    ASSUME NEW p, NEW t \in TokenSequences, Remembers(p, t), p.config_stack \in Nat \ {0},
           NEW type \in StatementTypes, MayFollow(p, type)
    PROVE  \E e : /\ Depths(Append(t, type), e)
                  /\ e[Len(t) + 1] = p.config_stack - 1 + Opened(type)
  <1>1. PICK d : Depths(t, d) /\ d[Len(t)] = p.config_stack - 1
    BY DEF Remembers
  <1>2. PICK l \in Nat : l = Len(t) /\ (t # <<>> <=> l >= 1)
    BY TokenSequenceFacts
  <1>3. PICK u \in TokenSequences :
            /\ u = Append(t, type) /\ Len(u) = l + 1 /\ u[l + 1] = type
            /\ \A i \in 1 .. l : u[i] = t[i]
    <2>1. type \in TokenKinds \cup {"CUT_WORD"} /\ type # "COMMENT"
      BY DEF TokenKinds, StatementTypes
    <2> QED
      BY <1>2, <2>1, AppendType
  <1>4. PICK c \in Nat : c = p.config_stack - 1 /\ d[l] = c
    BY <1>1, <1>2
  <1>5. PICK o \in {-1, 0, 1} : o = Opened(type)
    BY DEF Opened
  <1>6. PICK e : e = [i \in 0 .. l + 1 |-> IF i <= l THEN d[i] ELSE c + o]
    OBVIOUS
  <1>7. (\A i \in 0 .. l : e[i] = d[i]) /\ e[l + 1] = c + o
    <2>1. \A i \in 0 .. l : i \in 0 .. l + 1 /\ i <= l
      BY <1>2
    <2>2. l + 1 \in 0 .. l + 1 /\ ~(l + 1 <= l)
      BY <1>2
    <2> QED
      BY <1>6, <2>1, <2>2
  <1>8. \A i \in 0 .. l : d[i] \in Nat
    BY <1>1, <1>2 DEF Depths
  <1>9. /\ type \in {"STATEMENT_END", "START_BLOCK"} => l + 1 > 1 /\ u[l] = "NORMAL"
        /\ type = "END_BLOCK" => l + 1 > 1 /\ u[l] \in EndTypes /\ c > 0
    <2>1. type \in {"STATEMENT_END", "START_BLOCK"} => LastType(t) = "NORMAL"
      BY MayFollowFacts DEF Remembers
    <2>2. type = "END_BLOCK" => LastType(t) \in EndTypes /\ c > 0
      BY <1>4, MayFollowFacts DEF Remembers
    <2>3. LastType(t) \in EndTypes \cup {"NORMAL"} => l >= 1 /\ LastType(t) = u[l]
      BY <1>2, <1>3 DEF LastType, EndTypes
    <2> QED
      BY <1>2, <2>1, <2>2, <2>3
  <1>10. c + o \in Nat
    BY <1>5, <1>9 DEF Opened
  <1>11. ASSUME NEW i \in 1 .. l + 1 PROVE Follows(u, e, i)
    <2>1. CASE i = l + 1
      <3>1. e[i] = c + o /\ e[i - 1] = c /\ i - 1 = l
        <4>1. i - 1 = l /\ l \in 0 .. l
          BY <1>2, <2>1
        <4> QED
          BY <1>4, <1>7, <2>1, <4>1
      <3>2. /\ type = "END_BLOCK" => e[i - 1] = e[i] + 1
            /\ type = "START_BLOCK" => e[i] = e[i - 1] + 1
            /\ type \in {"NORMAL", "STATEMENT_END"} => e[i] = e[i - 1]
        BY <1>5, <3>1 DEF Opened
      <3> QED
        BY <1>3, <1>9, <2>1, <3>1, <3>2 DEF Follows
    <2>2. CASE i # l + 1
      <3>1. i \in 1 .. l /\ i \in 0 .. l /\ i - 1 \in 0 .. l /\ i \in Nat
            /\ (i > 1 => i - 1 \in 1 .. l)
        BY <1>2, <2>2
      <3>2. Follows(t, d, i)
        BY <1>1, <1>2, <3>1 DEF Depths
      <3>3. e[i] = d[i] /\ e[i - 1] = d[i - 1] /\ u[i] = t[i] /\ (i > 1 => u[i - 1] = t[i - 1])
        BY <1>3, <1>7, <3>1
      <3> QED
        BY <3>2, <3>3, Zenon DEF Follows
    <2> QED
      BY <2>1, <2>2
  <1>12. e \in [0 .. l + 1 -> Nat]
    <2>1. ASSUME NEW i \in 0 .. l + 1 PROVE e[i] \in Nat
      <3>1. i \in 0 .. l \/ i = l + 1
        BY <1>2
      <3> QED
        BY <1>7, <1>8, <1>10, <3>1
    <2> QED
      BY <1>6, <2>1
  <1>13. e[0] = 0
    <2>1. 0 \in 0 .. l
      BY <1>2
    <2> QED
      BY <1>1, <1>7, <2>1 DEF Depths
  <1>14. Depths(u, e)
    BY <1>3, <1>11, <1>12, <1>13 DEF Depths
  <1> QED
    BY <1>2, <1>3, <1>4, <1>5, <1>7, <1>14

\* Nothing balanced goes on with what may not follow.
LEMMA Unbalanced ==
    ASSUME NEW p, NEW t \in TokenSequences, Remembers(p, t), p.config_stack \in Nat \ {0},
           NEW type \in StatementTypes, ~MayFollow(p, type),
           NEW u \in TokenSequences, Begins(Append(t, type), u), Balanced(u)
    PROVE  FALSE
  <1>1. PICK d : Depths(t, d) /\ d[Len(t)] = p.config_stack - 1
    BY DEF Remembers
  <1>2. PICK e : Depths(u, e)
    BY DEF Balanced
  <1>3. PICK l \in Nat : l = Len(t) /\ (t # <<>> <=> l >= 1)
    BY TokenSequenceFacts
  <1>4. l + 1 <= Len(u) /\ Len(u) \in Nat /\ u[l + 1] = type /\ \A i \in 1 .. l : u[i] = t[i]
    <2>1. type \in TokenKinds \cup {"CUT_WORD"} /\ type # "COMMENT"
      BY DEF TokenKinds, StatementTypes
    <2>2. PICK v \in TokenSequences :
              /\ v = Append(t, type) /\ Len(v) = l + 1 /\ v[l + 1] = type
              /\ \A i \in 1 .. l : v[i] = t[i]
      BY <1>3, <2>1, AppendType
    <2>3. Begins(v, u) /\ Len(u) \in Nat
      BY <2>2, TokenSequenceFacts
    <2>4. l + 1 \in 1 .. l + 1 /\ \A i \in 1 .. l : i \in 1 .. l + 1
      BY <1>3
    <2> QED
      BY <2>2, <2>3, <2>4 DEF Begins
  <1>5. Begins(t, u)
    BY <1>3, <1>4 DEF Begins
  <1>6. d[l] = e[l] /\ d[l] \in Nat
    <2>1. l \in 0 .. Len(t) /\ Len(t) \in 0 .. Len(t)
      BY <1>3
    <2> QED
      <3>1. d[Len(t)] = e[Len(t)]
        BY <1>1, <1>2, <1>3, <1>5, <2>1, DepthsAgree
      <3>2. d[l] \in Nat
        BY <1>1, <1>3, <2>1 DEF Depths
      <3> QED
        BY <1>3, <3>1, <3>2
  <1>7. Follows(u, e, l + 1) /\ e[l + 1] \in Nat /\ (l + 1) - 1 = l
    <2>1. l + 1 \in 1 .. Len(u) /\ l + 1 \in 0 .. Len(u) /\ (l + 1) - 1 = l
      BY <1>3, <1>4
    <2> QED
      BY <1>2, <2>1 DEF Depths
  <1>8. l >= 1 => LastType(t) = u[l]
    BY <1>3, <1>4 DEF LastType
  <1>9. p.last_token_type = LastType(t)
    BY DEF Remembers
  <1>10. CASE type \in {"STATEMENT_END", "START_BLOCK"}
    <2>1. l + 1 > 1 /\ u[l] = "NORMAL"
      BY <1>4, <1>7, <1>10 DEF Follows
    <2>2. l >= 1
      BY <2>1
    <2> QED
      BY <1>8, <1>9, <1>10, <2>1, <2>2, MayFollowFacts
  <1>11. CASE type = "END_BLOCK"
    <2>1. l + 1 > 1 /\ u[l] \in EndTypes /\ e[l] = e[l + 1] + 1
      BY <1>4, <1>7, <1>11 DEF Follows
    <2>2. l >= 1 /\ p.config_stack > 1
      BY <1>1, <1>3, <1>6, <1>7, <2>1
    <2> QED
      BY <1>8, <1>9, <1>11, <2>1, <2>2, MayFollowFacts
  <1>12. type # "NORMAL"
    BY MayFollowFacts
  <1> QED
    BY <1>10, <1>11, <1>12 DEF StatementTypes

\* The end may follow what is balanced.
LEMMA EndFollows ==
    ASSUME NEW p, NEW t \in TokenSequences, Remembers(p, t), p.config_stack \in Nat \ {0}
    PROVE  MayFollow(p, "EOF") <=> Balanced(t)
  <1>1. PICK d : Depths(t, d) /\ d[Len(t)] = p.config_stack - 1
    BY DEF Remembers
  <1>2. Len(t) \in Nat
    BY TokenSequenceFacts
  <1>3. ASSUME Balanced(t) PROVE d[Len(t)] = 0 /\ LastType(t) \in EndTypes
    <2>1. PICK e : Depths(t, e) /\ e[Len(t)] = 0 /\ t # <<>> /\ t[Len(t)] \in EndTypes
      BY <1>3 DEF Balanced
    <2>2. Begins(t, t) /\ Len(t) \in 0 .. Len(t)
      BY <1>2 DEF Begins
    <2> QED
      BY <1>1, <2>1, <2>2, DepthsAgree DEF LastType
  <1>4. ASSUME LastType(t) \in EndTypes, p.config_stack = 1 PROVE Balanced(t)
    BY <1>1, <1>4 DEF Balanced, LastType, EndTypes
  <1>5. MayFollow(p, "EOF") <=> LastType(t) \in EndTypes /\ p.config_stack = 1
    BY MayFollowFacts DEF Remembers
  <1>6. Balanced(t) => p.config_stack = 1
    BY <1>1, <1>3
  <1> QED
    BY <1>3, <1>4, <1>5, <1>6

\* A turn of the parser that goes on.
LEMMA ConsumeRemembers ==
    ASSUME NEW p, ParserOK(p), NEW token, token.type \in StatementTypes
    PROVE  LET q == Consume(p, token)
           IN  /\ q.input = token.rest
               /\ q.last_token_type = token.type
               /\ q.config_stack = p.config_stack + Opened(token.type)
               /\ q.verdict = p.verdict
  <1> DEFINE q == [p EXCEPT !.input = token.rest, !.last_token_type = token.type]
  <1>1. /\ DOMAIN q = {"input", "config", "config_stack", "last_token_type", "verdict"}
        /\ q.input = token.rest /\ q.last_token_type = token.type
        /\ q.config_stack = p.config_stack /\ q.verdict = p.verdict
    BY DEF ParserOK
  <1>2. p.config_stack \in Nat
    BY DEF ParserOK
  <1>3. CASE token.type = "NORMAL" /\ p.last_token_type = "NORMAL"
    <2>1. Consume(p, token) = [q EXCEPT !.config = AddToken(@, token.value)]
      BY <1>3 DEF Consume
    <2> HIDE DEF q
    <2> QED
      BY <1>1, <1>2, <1>3, <2>1 DEF Opened
  <1>4. CASE token.type = "NORMAL" /\ p.last_token_type # "NORMAL"
    <2>1. Consume(p, token) = [q EXCEPT !.config = AddStatement(@, p.config_stack, token.value)]
      BY <1>4 DEF Consume
    <2> HIDE DEF q
    <2> QED
      BY <1>1, <1>2, <1>4, <2>1 DEF Opened
  <1>5. CASE token.type = "STATEMENT_END"
    <2>1. Consume(p, token) = q
      BY <1>5 DEF Consume
    <2> HIDE DEF q
    <2> QED
      BY <1>1, <1>2, <1>5, <2>1 DEF Opened
  <1>6. CASE token.type = "START_BLOCK"
    <2>1. Consume(p, token) = [q EXCEPT !.config = AddBlock(@), !.config_stack = @ + 1]
      BY <1>6 DEF Consume
    <2> HIDE DEF q
    <2> QED
      BY <1>1, <1>2, <1>6, <2>1 DEF Opened
  <1>7. CASE token.type = "END_BLOCK"
    <2>1. Consume(p, token) = [q EXCEPT !.config_stack = @ - 1]
      BY <1>7 DEF Consume
    <2>2. p.config_stack - 1 = p.config_stack + (-1)
      BY <1>2
    <2> HIDE DEF q
    <2> QED
      BY <1>1, <1>2, <1>7, <2>1, <2>2 DEF Opened
  <1> QED
    BY <1>3, <1>4, <1>5, <1>6, <1>7 DEF StatementTypes

ConfigTypes(types) == Last(types) \in {"EOF", "CUT_WORD"} /\ IsConfig[Front(types)]

\* The parser has taken what the first n turns take, or has decided rightly.
ParsesGrammar(input, p) ==
    /\ p.verdict \in {"parsing", "accepted", "rejected"}
    /\ p.verdict = "parsing" =>
           \E f, n : /\ Reads(input, f)
                     /\ n \in 0 .. Len(input)
                     /\ f[n] = [input |-> p.input, types |-> f[n].types]
                     /\ f[n].types \in Seq(StatementTypes)
                     /\ Remembers(p, f[n].types)
                     /\ Len(p.input) + n <= Len(input)
    /\ p.verdict # "parsing" =>
           (p.verdict = "accepted" <=> ConfigTypes(TokenTypes(input)))

LEMMA NewParserGrammar ==
    ASSUME NEW input \in CharSeqs PROVE ParsesGrammar(input, NewParser(input))
  <1>1. PICK f : Reads(input, f)
    BY SomethingReads
  <1>2. PICK p : p = NewParser(input)
    OBVIOUS
  <1>3. p.verdict = "parsing" /\ p.input = input /\ p.config_stack - 1 = 0
        /\ p.last_token_type = "START"
    BY <1>2 DEF NewParser
  <1>4. f[0] = [input |-> p.input, types |-> f[0].types] /\ f[0].types = <<>>
    BY <1>1, <1>3 DEF Reads
  <1>5. Remembers(p, <<>>)
    <2>1. PICK d : d = [i \in 0 .. 0 |-> 0]
      OBVIOUS
    <2>2. Depths(<<>>, d) /\ d[0] = 0
      BY <2>1 DEF Depths
    <2>3. Len(<<>>) = 0
      OBVIOUS
    <2> QED
      BY <1>3, <2>2, <2>3 DEF Remembers, LastType
  <1>6. Len(p.input) + 0 <= Len(input) /\ 0 \in 0 .. Len(input)
    BY <1>3 DEF CharSeqs
  <1>7. f[0].types \in Seq(StatementTypes) /\ Remembers(p, f[0].types)
    BY <1>4, <1>5
  <1> QED
    BY <1>1, <1>2, <1>3, <1>4, <1>6, <1>7 DEF ParsesGrammar

LEMMA ParseStepGrammar ==
    ASSUME NEW input \in CharSeqs, NEW p, ParserOK(p), p.verdict = "parsing",
           ParsesGrammar(input, p)
    PROVE  ParsesGrammar(input, ParseStep(p))
  <1>1. PICK f, n : /\ Reads(input, f)
                    /\ n \in 0 .. Len(input)
                    /\ f[n] = [input |-> p.input, types |-> f[n].types]
                    /\ f[n].types \in Seq(StatementTypes)
                    /\ Remembers(p, f[n].types)
                    /\ Len(p.input) + n <= Len(input)
    BY DEF ParsesGrammar
  <1>2. PICK t \in Seq(StatementTypes) : t = f[n].types /\ Remembers(p, t)
    BY <1>1
  <1>3. PICK token : token = ParseToken(p.input) /\ IsToken(token) /\ TakenFrom(p.input, token)
                     /\ Len(token.rest) \in Nat
    BY ParseTokenFacts DEF ParserOK, TakenFrom
  <1>4. PICK type : /\ type = TokenType(p.input)
                    /\ type = token.type \/ (token.type = "EOF" /\ type = "CUT_WORD")
                    /\ type \in TokenKinds \cup {"CUT_WORD"}
                    /\ type = "COMMENT" <=> token.type = "COMMENT"
                    /\ type \in FinalTypes <=> token.type \in Final
                    /\ type \in {"EOF", "CUT_WORD"} <=> token.type = "EOF"
    BY <1>3, TokenTypeFacts DEF TakenFrom
  <1>5. t \in TokenSequences /\ IsTaken(f[n])
    <2>1. t \in TokenSequences
      BY DEF TokenSequences, StatementTypes
    <2> QED
      BY <1>1, <1>2, <2>1 DEF IsTaken, ParserOK
  <1>6. Len(input) \in Nat /\ n \in Nat /\ n <= Len(input) /\ Len(p.input) \in Nat
        /\ n + 1 \in 1 .. Len(input) + 1 /\ (n + 1) - 1 = n /\ n + 1 \in 0 .. Len(input) + 1
        /\ Len(input) + 1 \in n + 1 .. Len(input) + 1
    BY <1>1 DEF CharSeqs, ParserOK
  <1>7. ~HasEnded(f[n])
    <2>1. t # <<>> => Last(t) \in StatementTypes
      BY DEF Last
    <2> QED
      BY <1>2, <2>1 DEF HasEnded, FinalTypes, Final, StatementTypes
  <1>8. f[n + 1] = [input |-> token.rest,
                    types |-> IF type = "COMMENT" THEN t ELSE Append(t, type)]
    <2>1. f[n + 1] = TakeToken(f[n])
      BY <1>1, <1>6 DEF Reads
    <2>2. f[n].input = p.input
      BY <1>1
    <2> QED
      BY <1>2, <1>3, <1>7, <1>4, <2>1, <2>2, ZenonT(40) DEF TakeToken, HasEnded, FinalTypes, Final
  <1>9. IsTaken(f[n + 1])
    <2>1. f[n + 1] = TakeToken(f[n])
      BY <1>1, <1>6 DEF Reads
    <2> QED
      BY <1>5, <2>1, TakeTokenFacts
  <1>10. PICK types : types = TokenTypes(input) /\ types = f[Len(input) + 1].types
    BY <1>1 DEF Reads
  <1>11. IsTaken(f[Len(input) + 1]) /\ Begins(f[n + 1].types, types)
         /\ (HasEnded(f[n + 1]) => f[Len(input) + 1] = f[n + 1])
    BY <1>1, <1>6, <1>9, <1>10, TakenStays
  \* Goes on.
  <1>12. ASSUME NEW q, q.verdict = "parsing", q.input = token.rest, token.type \notin Final,
                f[n + 1].types \in Seq(StatementTypes), Remembers(q, f[n + 1].types)
         PROVE  ParsesGrammar(input, q)
    <2>1. Len(token.rest) < Len(p.input)
      BY <1>3, <1>12 DEF TakenFrom
    <2>2. n + 1 \in 0 .. Len(input) /\ Len(q.input) + (n + 1) <= Len(input)
      <3>1. PICK a, b, c \in Nat : a = Len(token.rest) /\ b = Len(p.input) /\ c = Len(input)
        BY <1>3, <1>6
      <3>2. a < b /\ b + n <= c /\ n \in Nat
        BY <1>1, <1>6, <2>1, <3>1
      <3>3. Len(q.input) = a
        BY <1>12, <3>1
      <3>4. n + 1 \in 0 .. c /\ a + (n + 1) <= c
        BY <3>2
      <3> QED
        BY <3>1, <3>3, <3>4
    <2>3. f[n + 1] = [input |-> q.input, types |-> f[n + 1].types]
      BY <1>8, <1>12
    <2> QED
      BY <1>1, <1>12, <2>2, <2>3 DEF ParsesGrammar
  \* Decides.
  <1>13. ASSUME NEW q, q.verdict = "accepted", ConfigTypes(types) PROVE ParsesGrammar(input, q)
    BY <1>10, <1>13 DEF ParsesGrammar
  <1>14. ASSUME NEW q, q.verdict = "rejected", ~ConfigTypes(types) PROVE ParsesGrammar(input, q)
    BY <1>10, <1>14 DEF ParsesGrammar
  <1>15. DOMAIN p = {"input", "config", "config_stack", "last_token_type", "verdict"}
         /\ p.config_stack \in Nat \ {0}
    BY DEF ParserOK
  <1>16. CASE token.type = "COMMENT"
    <2>1. PICK q : q = ParseStep(p) /\ q = [p EXCEPT !.input = token.rest]
      BY <1>3, <1>16 DEF ParseStep
    <2>2. q.verdict = "parsing" /\ q.input = token.rest /\ q.config_stack = p.config_stack
          /\ q.last_token_type = p.last_token_type
      BY <1>15, <2>1
    <2>3. f[n + 1].types = t
      BY <1>8, <1>16, <1>4
    <2>4. Remembers(q, f[n + 1].types)
      BY <1>2, <2>2, <2>3 DEF Remembers
    <2>5. token.type \notin Final
      BY <1>16 DEF Final
    <2> QED
      BY <1>12, <2>1, <2>2, <2>3, <2>4, <2>5
  <1>17. CASE token.type # "COMMENT"
    <2>1. ParseStep(p) = IF MayFollow(p, token.type) THEN Consume(p, token)
                         ELSE [p EXCEPT !.verdict = "rejected"]
      BY <1>3, <1>17 DEF ParseStep
    <2>2. f[n + 1].types = Append(t, type)
      BY <1>8, <1>17, <1>4
    <2>3. [p EXCEPT !.verdict = "rejected"].verdict = "rejected"
      BY <1>15
    <2>4. token.type \in TokenKinds
      BY <1>3 DEF TakenFrom
    <2>5. /\ Len(Append(t, type)) = Len(t) + 1
          /\ Last(Append(t, type)) = type
          /\ Append(t, type) # <<>>
          /\ Front(Append(t, type)) = t
          /\ Append(t, type)[Len(t) + 1] = type
          /\ Append(t, type) \in TokenSequences
      BY <1>5, <1>17, <1>4, AppendType
    <2>6. Len(t) \in Nat
      BY <1>5, TokenSequenceFacts
    <2>7. CASE token.type \in Final
      <3>1. HasEnded(f[n + 1])
        BY <1>4, <2>2, <2>5, <2>7 DEF HasEnded
      <3>2. types = Append(t, type)
        BY <1>10, <1>11, <2>2, <3>1
      <3>3. ConfigTypes(types) <=> token.type = "EOF" /\ Balanced(t)
        BY <1>5, <1>4, <2>5, <3>2, GrammarIsBalance DEF ConfigTypes
      <3>4. MayFollow(p, token.type) <=> token.type = "EOF" /\ Balanced(t)
        BY <1>2, <1>5, <1>15, <2>7, EndFollows, MayFollowFacts DEF Final
      <3>5. CASE MayFollow(p, token.type)
        <4>1. PICK q : q = ParseStep(p) /\ q = Consume(p, token)
          BY <2>1, <3>5
        <4>2. q.verdict = "accepted"
          BY <1>15, <3>4, <3>5, <4>1 DEF Consume
        <4> QED
          BY <1>13, <3>3, <3>4, <3>5, <4>1, <4>2
      <3>6. CASE ~MayFollow(p, token.type)
        <4>1. PICK q : q = ParseStep(p) /\ q.verdict = "rejected"
          BY <2>1, <2>3, <3>6
        <4> QED
          BY <1>14, <3>3, <3>4, <3>6, <4>1
      <3> QED
        BY <3>5, <3>6
    <2>8. CASE token.type \notin Final
      <3>1. token.type \in StatementTypes /\ type = token.type
        BY <1>17, <1>4, <2>4, <2>8 DEF TokenKinds, Final
      <3>2. CASE MayFollow(p, token.type)
        <4>1. PICK q : q = ParseStep(p) /\ q = Consume(p, token)
          BY <2>1, <3>2
        <4>2. /\ q.input = token.rest /\ q.last_token_type = token.type
              /\ q.config_stack = p.config_stack + Opened(token.type) /\ q.verdict = "parsing"
          BY <3>1, <4>1, ConsumeRemembers
        <4>3. PICK e : /\ Depths(Append(t, type), e)
                       /\ e[Len(t) + 1] = p.config_stack - 1 + Opened(token.type)
          BY <1>2, <1>5, <1>15, <3>1, <3>2, DepthsGrow
        <4>4. e[Len(t) + 1] = q.config_stack - 1
          BY <1>15, <4>2, <4>3 DEF Opened
        <4>5. Remembers(q, Append(t, type))
          BY <2>5, <3>1, <4>2, <4>3, <4>4 DEF Remembers, LastType
        <4>6. Append(t, type) \in Seq(StatementTypes)
          BY <3>1
        <4> QED
          BY <1>12, <2>2, <2>8, <4>1, <4>2, <4>5, <4>6
      <3>3. CASE ~MayFollow(p, token.type)
        <4>1. PICK q : q = ParseStep(p) /\ q.verdict = "rejected"
          BY <2>1, <2>3, <3>3
        <4>2. types \in TokenSequences /\ Begins(Append(t, type), types)
          BY <1>10, <1>11, <2>2 DEF IsTaken
        <4>3. ASSUME Last(types) \in {"EOF", "CUT_WORD"}, Balanced(Front(types)) PROVE FALSE
          <5>1. Len(types) \in Nat /\ Len(t) + 1 <= Len(types) /\ types[Len(t) + 1] = type
            <6>1. Len(types) \in Nat /\ Len(t) + 1 \in 1 .. Len(t) + 1
              BY <2>6, <4>2, TokenSequenceFacts
            <6> QED
              BY <2>5, <4>2, <6>1 DEF Begins
          <5>2. Len(t) + 1 # Len(types)
            BY <1>4, <2>8, <4>3, <5>1 DEF Last, FinalTypes, Final
          <5>3. PICK u \in TokenSequences :
                    /\ u = SubSeq(types, 1, Len(types) - 1) /\ Len(u) = Len(types) - 1
                    /\ \A i \in 1 .. Len(types) - 1 : u[i] = types[i]
            <6>1. Len(types) - 1 \in Nat /\ Len(types) - 1 <= Len(types)
              BY <2>6, <5>1
            <6> QED
              BY <4>2, <6>1, FirstPart
          <5>4. u = Front(types)
            BY <5>3 DEF Front
          <5>5. Begins(Append(t, type), u)
            <6>1. Len(t) + 1 <= Len(types) - 1
                  /\ \A i \in 1 .. Len(t) + 1 : i \in 1 .. Len(types) - 1
              BY <2>6, <5>1, <5>2
            <6> QED
              BY <2>5, <4>2, <5>3, <6>1 DEF Begins
          <5> QED
            BY <1>2, <1>5, <1>15, <3>1, <3>3, <4>3, <5>4, <5>5, Unbalanced
        <4>4. Last(types) \in {"EOF", "CUT_WORD"} => Front(types) \in TokenSequences
          <5>1. Len(types) \in Nat /\ Len(types) >= 1
            BY <2>5, <2>6, <4>2, TokenSequenceFacts DEF Begins
          <5>2. Len(types) - 1 \in Nat /\ Len(types) - 1 <= Len(types)
            BY <5>1
          <5>3. PICK u \in TokenSequences : u = SubSeq(types, 1, Len(types) - 1)
            BY <4>2, <5>2, FirstPart
          <5> QED
            BY <5>3 DEF Front
        <4>5. ~ConfigTypes(types)
          BY <4>3, <4>4, GrammarIsBalance, Zenon DEF ConfigTypes
        <4> QED
          BY <1>14, <4>1, <4>5
      <3> QED
        BY <3>2, <3>3
    <2> QED
      BY <2>7, <2>8
  <1> QED
    BY <1>16, <1>17

--------------------------------------------------------------------------------
(* Routing: what the extraction has read                                      *)

LocationConfigs(T) ==
    [path : T \cup {NoToken}, handler_name : T \cup {NoToken},
     args : UNION {[D -> T] : D \in SUBSET T}]

RoutingTypes ==
    /\ stage \in Stages
    /\ text \in CharSeqs
    /\ ParserOK(parser)
    /\ config \in Seq(Statements)
    /\ at \in 1 .. Len(config) + 1
    /\ port \in Shorts
    /\ location \in LocationConfigs(Tokens)
    /\ locations \in Seq(LocationConfigs(Tokens))
    /\ \A p \in DOMAIN _factories : _factories[p] \in LocationConfigs(Tokens)
                                    /\ _factories[p].path = p
    /\ locations_ = <<>> \/ locations_ = locations
    /\ endpoint \in 0 .. Wrap - 1

\* Everything between statement i and the one to be visited is deeper.
Within(i, depth) == \A k \in i + 1 .. at - 1 : config[k].depth > depth

ListensBefore(n) == {i \in InServer : i < n /\ IsListen(config[i])}
ServedBefore(n) == {i \in Served : i < n}

\* The port is that of the last listen directive before statement n.
PortRead(n) ==
    \/ ListensBefore(n) = {} /\ port = default_port
    \/ \E i \in ListensBefore(n) :
          /\ \A j \in ListensBefore(n) : j <= i
          /\ port = AsShort(atoi(config[i].tokens[2]))

\* The registry has the last block before statement n of each path, and the list
\* the same paths.
Registered(n) ==
    /\ \A k \in DOMAIN locations : locations[k].path \in DOMAIN _factories
    /\ \A p \in DOMAIN _factories :
          /\ \E k \in DOMAIN locations : locations[k].path = p
          /\ \E i \in ServedBefore(n) :
                /\ config[i].tokens[2] = p
                /\ _factories[p] = Location(i)
                /\ \A j \in ServedBefore(n) : config[j].tokens[2] = p => j <= i
    /\ \A i \in ServedBefore(n) : config[i].tokens[2] \in DOMAIN _factories

Extracted(n) == PortRead(n) /\ Registered(n)

\* The server block is being read, or has been.
ServerFound == FirstServer \in 1 .. at - 1 /\ IsServer(config[FirstServer])

\* Location block i is being read.
Reading(i) ==
    /\ i \in InServer
    /\ i < at
    /\ IsLocation(config[i])
    /\ Within(i, 2)
    /\ \E inside : /\ inside = {j \in Children(i) : j < at}
                   /\ location = Configured(i, inside)
    /\ Extracted(i)

RoutingInv ==
    /\ RoutingTypes
    /\ stage \in {"start", "outside"} =>
           locations = <<>> /\ _factories = NoMap /\ port = default_port
    /\ stage = "start" => config = <<>> /\ at = 1 /\ location = NewLocation(NoToken)
    /\ stage = "outside" => \A k \in 1 .. at - 1 : ~IsServer(config[k])
    /\ stage \notin {"serving", "failed"} => locations_ = <<>>
    /\ stage \in {"server", "location"} => ServerFound /\ Within(FirstServer, 1)
    /\ stage = "server" => Extracted(at)
    /\ stage = "location" => \E i \in 1 .. at - 1 : Reading(i)
    /\ stage = "serving" =>
           /\ ServerFound
           /\ Extracted(Len(config) + 1)
           /\ is_valid
           /\ locations_ = locations
           /\ endpoint = AsUnsigned(port)
    /\ answer # <<>> => stage = "serving"

--------------------------------------------------------------------------------
(* The tree of the configuration                                              *)

LEMMA StatementFacts ==
    ASSUME config \in Seq(Statements), NEW i \in 1 .. Len(config)
    PROVE  /\ config[i].depth \in Nat \ {0}
           /\ config[i].tokens \in Seq(Words) /\ config[i].tokens # <<>>
           /\ Len(config[i].tokens) \in Nat
           /\ config[i].tokens[1] \in Words /\ config[i].tokens[1] \in Tokens
           /\ HasValue(config[i]) =>
                  config[i].tokens[2] \in Words /\ config[i].tokens[2] \in Tokens
  <1>1. config[i] \in Statements /\ i \in DOMAIN config
    OBVIOUS
  <1>2. PICK tokens \in Seq(Words) : tokens = config[i].tokens /\ tokens # <<>>
    BY <1>1 DEF Statements
  <1>3. Len(tokens) \in Nat /\ 1 \in DOMAIN tokens /\ (Len(tokens) >= 2 => 2 \in DOMAIN tokens)
        /\ \A n \in DOMAIN tokens : tokens[n] \in Words
    BY <1>2
  <1>4. \A n \in DOMAIN tokens : tokens[n] \in ToSet(tokens)
    BY DEF ToSet
  <1>5. ToSet(tokens) \subseteq Tokens
    BY <1>1, <1>2 DEF Tokens
  <1>6. config[i].depth \in Nat \ {0}
    BY <1>1 DEF Statements
  <1> QED
    BY <1>2, <1>3, <1>4, <1>5, <1>6 DEF HasValue

LEMMA LastValueAdd ==
    ASSUME NEW C \in SUBSET Nat, NEW n \in Nat, \A j \in C : j < n, NEW name, NEW default
    PROVE  /\ config[n].tokens[1] = name /\ HasValue(config[n]) =>
                  LastValue(C \cup {n}, name, default) = config[n].tokens[2]
           /\ ~(config[n].tokens[1] = name /\ HasValue(config[n])) =>
                  LastValue(C \cup {n}, name, default) = LastValue(C, name, default)
  <1> DEFINE named(S) == {i \in S : config[i].tokens[1] = name /\ HasValue(config[i])}
             last(N) == CHOOSE i \in N : \A j \in N : j <= i
             value(N) == IF N = {} THEN default ELSE config[last(N)].tokens[2]
  <1>0. \A j \in C \cup {n} : j <= n
    <2> HIDE DEF named, last, value
    <2> QED
      OBVIOUS
  <1>1. \A S : LastValue(S, name, default) = value(named(S))
    BY DEF LastValue
  <1>2. CASE n \in named({n})
    <2>1. named(C \cup {n}) = named(C) \cup {n}
      BY <1>2
    <2>2. PICK N \in SUBSET C : N = named(C)
      OBVIOUS
    <2>3. last(N \cup {n}) = n
      <3>1. \A j \in N \cup {n} : j <= n
        BY <1>0, <2>2
      <3>2. ASSUME NEW i \in N, n <= i PROVE FALSE
        BY <3>2
      <3> QED
        BY <3>1, <3>2
    <2>4. value(N \cup {n}) = config[n].tokens[2]
      <3> HIDE DEF last
      <3> QED
        BY <2>3
    <2> HIDE DEF value
    <2> QED
      BY <1>1, <1>2, <2>1, <2>2, <2>4
  <1>3. CASE n \notin named({n})
    <2>1. named(C \cup {n}) = named(C)
      BY <1>3
    <2> HIDE DEF value
    <2> QED
      BY <1>1, <1>3, <2>1
  <1> QED
    BY <1>2, <1>3

WithHandler(l, value) == [l EXCEPT !.handler_name = value]
WithArg(l, key, value) == [l EXCEPT !.args = Set(@, key, value)]

\* What one more statement does to the configuration of its block.
LEMMA ConfiguredAdd ==
    ASSUME NEW C \in SUBSET Nat, NEW n \in Nat, \A j \in C : j < n, NEW i
    PROVE  /\ ~HasValue(config[n]) => Configured(i, C \cup {n}) = Configured(i, C)
           /\ HasValue(config[n]) /\ config[n].tokens[1] = <<"handler">> =>
                  Configured(i, C \cup {n}) =
                      WithHandler(Configured(i, C), config[n].tokens[2])
           /\ HasValue(config[n]) /\ config[n].tokens[1] # <<"handler">> =>
                  Configured(i, C \cup {n}) =
                      WithArg(Configured(i, C), config[n].tokens[1], config[n].tokens[2])
  <1> DEFINE handler == <<"handler">>
             names(S) == {config[j].tokens[1] : j \in {k \in S : HasValue(config[k])}}
             args(S) == [name \in names(S) \ {handler} |-> LastValue(S, name, NoToken)]
             D == C \cup {n}
             name_ == config[n].tokens[1]
             value == config[n].tokens[2]
  <1>1. \A S : Configured(i, S) = [path |-> config[i].tokens[2],
                                   handler_name |-> LastValue(S, handler, NoToken),
                                   args |-> args(S)]
    BY DEF Configured
  <1>2. /\ HasValue(config[n]) => LastValue(D, name_, NoToken) = value
        /\ \A name : name_ # name => LastValue(D, name, NoToken) = LastValue(C, name, NoToken)
        /\ ~HasValue(config[n]) =>
               \A name : LastValue(D, name, NoToken) = LastValue(C, name, NoToken)
    <2>1. ASSUME NEW name
          PROVE  /\ name_ = name /\ HasValue(config[n]) => LastValue(D, name, NoToken) = value
                 /\ ~(name_ = name /\ HasValue(config[n])) =>
                        LastValue(D, name, NoToken) = LastValue(C, name, NoToken)
      BY LastValueAdd
    <2> HIDE DEF D, name_, value
    <2> QED
      BY <2>1
  <1>3. CASE ~HasValue(config[n])
    <2>1. names(D) = names(C)
      BY <1>3
    <2>2. args(D) = args(C)
      <3> HIDE DEF names
      <3> QED
        BY <1>2, <1>3, <2>1
    <2>3. LastValue(D, handler, NoToken) = LastValue(C, handler, NoToken)
      BY <1>2, <1>3
    <2> HIDE DEF args, D, handler
    <2>4. Configured(i, D) = Configured(i, C)
      BY <1>1, <2>2, <2>3
    <2> QED
      BY <1>3, <2>4 DEF D
  <1>4. CASE HasValue(config[n]) /\ name_ = handler
    <2>1. names(D) \ {handler} = names(C) \ {handler}
      BY <1>4
    <2>2. args(D) = args(C)
      <3> HIDE DEF names
      <3>1. \A name \in names(C) \ {handler} :
                LastValue(D, name, NoToken) = LastValue(C, name, NoToken)
        BY <1>2, <1>4
      <3> QED
        BY <2>1, <3>1
    <2>3. LastValue(D, handler, NoToken) = value
      BY <1>2, <1>4
    <2> HIDE DEF args, D, handler, value
    <2>4. Configured(i, D) = [Configured(i, C) EXCEPT !.handler_name = value]
      BY <1>1, <2>2, <2>3
    <2> QED
      BY <1>4, <2>4 DEF D, handler, value, WithHandler
  <1>5. CASE HasValue(config[n]) /\ name_ # handler
    <2>1. names(D) = names(C) \cup {name_}
      BY <1>5
    <2>2. args(D) = Set(args(C), name_, value)
      <3>1. DOMAIN args(C) = names(C) \ {handler}
        OBVIOUS
      <3>2. names(D) \ {handler} = DOMAIN args(C) \cup {name_}
        BY <1>5, <2>1, <3>1
      <3>3. ASSUME NEW name \in names(D) \ {handler}
            PROVE  LastValue(D, name, NoToken) = IF name = name_ THEN value ELSE args(C)[name]
        <4>1. CASE name = name_
          BY <1>2, <1>5, <4>1
        <4>2. CASE name # name_
          <5>1. name \in names(C) \ {handler}
            BY <2>1, <3>3, <4>2
          <5>2. args(C)[name] = LastValue(C, name, NoToken)
            <6> HIDE DEF names
            <6> QED
              BY <5>1
          <5> QED
            BY <1>2, <4>2, <5>2
        <4> QED
          BY <4>1, <4>2
      <3> HIDE DEF names, name_, value
      <3> QED
        BY <3>1, <3>2, <3>3 DEF Set
    <2>3. LastValue(D, handler, NoToken) = LastValue(C, handler, NoToken)
      BY <1>2, <1>5
    <2> HIDE DEF args, D, handler, value, name_
    <2>4. Configured(i, D) = [Configured(i, C) EXCEPT !.args = Set(@, name_, value)]
      BY <1>1, <2>2, <2>3
    <2> QED
      BY <1>5, <2>4 DEF D, handler, value, name_, WithArg
  <1> QED
    BY <1>3, <1>4, <1>5

LEMMA ConfiguredNothing ==
    ASSUME NEW i PROVE Configured(i, {}) = NewLocation(config[i].tokens[2])
  <1>1. LastValue({}, <<"handler">>, NoToken) = NoToken
    BY DEF LastValue
  <1>2. [name \in {} |-> LastValue({}, name, NoToken)] = NoMap
    BY DEF NoMap
  <1>3. {config[j].tokens[1] : j \in {k \in {} : HasValue(config[k])}} \ {<<"handler">>} = {}
    OBVIOUS
  <1> QED
    BY <1>1, <1>2, <1>3 DEF Configured, NewLocation

LEMMA ChildrenFacts ==
    ASSUME config \in Seq(Statements), NEW i \in 1 .. Len(config), NEW j \in Children(i)
    PROVE  /\ j \in i + 1 .. Len(config) /\ j \in 1 .. Len(config) /\ i < j
           /\ config[j].depth = config[i].depth + 1
  BY DEF Children

\* The statement to be visited belongs to a block that has not ended when it is
\* one level deeper.
LEMMA ChildNext ==
    ASSUME config \in Seq(Statements), at \in 1 .. Len(config), NEW i \in 1 .. at - 1,
           Within(i, config[i].depth)
    PROVE  at \in Children(i) <=> config[at].depth = config[i].depth + 1
  <1>1. PICK n \in Nat : n = at /\ n \in i + 1 .. Len(config)
    BY SequenceFacts
  <1>2. config[i].depth \in Nat /\ config[n].depth \in Nat
    <2>1. i \in 1 .. Len(config) /\ n \in 1 .. Len(config)
      BY <1>1, SequenceFacts
    <2> QED
      BY <2>1, StatementFacts
  <1>3. ASSUME config[n].depth = config[i].depth + 1, NEW k \in i + 1 .. n
        PROVE  config[k].depth > config[i].depth
    <2>1. CASE k = n
      BY <1>2, <1>3, <2>1
    <2>2. CASE k # n
      <3>1. k \in i + 1 .. at - 1
        BY <1>1, <1>3, <2>2
      <3> QED
        BY <3>1 DEF Within
    <2> QED
      BY <2>1, <2>2
  <1> QED
    BY <1>1, <1>3 DEF Children

LEMMA ChildrenEnd ==
    ASSUME config \in Seq(Statements), at \in 1 .. Len(config) + 1, NEW i \in 1 .. at - 1,
           at <= Len(config) => config[at].depth <= config[i].depth
    PROVE  \A j \in Children(i) : j < at
  <1> SUFFICES ASSUME NEW j \in Children(i), ~(j < at) PROVE FALSE
    OBVIOUS
  <1>1. PICK n \in Nat, l \in Nat : n = at /\ l = Len(config) /\ n <= l + 1 /\ i < n
    BY SequenceFacts
  <1>2. i \in 1 .. Len(config)
    BY <1>1
  <1>3. j \in i + 1 .. Len(config) /\ \A k \in i + 1 .. j : config[k].depth > config[i].depth
    BY DEF Children
  <1>4. j >= n
    BY <1>1, <1>3
  <1>5. n \in i + 1 .. j /\ n \in 1 .. Len(config)
    BY <1>1, <1>3, <1>4
  <1>6. config[n].depth > config[i].depth /\ config[n].depth <= config[i].depth
    BY <1>1, <1>3, <1>5
  <1>7. config[n].depth \in Nat /\ config[i].depth \in Nat
    BY <1>2, <1>5, StatementFacts
  <1> QED
    BY <1>6, <1>7

LEMMA FirstServerFacts ==
    ASSUME config \in Seq(Statements)
    PROVE  /\ FirstServer \in 0 .. Len(config)
           /\ FirstServer # 0 => /\ IsServer(config[FirstServer])
                                 /\ \A k \in 1 .. FirstServer - 1 : ~IsServer(config[k])
           /\ \A n \in 1 .. Len(config) : IsServer(config[n]) => FirstServer # 0 /\ FirstServer <= n
  <1> DEFINE I == {i \in 1 .. Len(config) : IsServer(config[i])}
  <1>1. FirstServer = IF I # {} THEN Min(I) ELSE 0
    BY DEF FirstServer, SelectInSeq
  <1>2. Len(config) \in Nat
    BY SequenceFacts
  <1>3. I # {} => Min(I) \in I /\ \A n \in I : Min(I) <= n
    <2>1. I \in SUBSET Nat
      BY <1>2
    <2> HIDE DEF I
    <2> QED
      BY <2>1, MinIsLeast
  <1>4. CASE I = {}
    BY <1>1, <1>2, <1>4
  <1>5. CASE I # {}
    <2>1. PICK m \in 1 .. Len(config) :
              /\ m = FirstServer /\ IsServer(config[m])
              /\ \A n \in 1 .. Len(config) : IsServer(config[n]) => m <= n
      BY <1>1, <1>3, <1>5
    <2>2. \A k \in 1 .. m - 1 : k \in 1 .. Len(config) /\ ~(m <= k)
      BY <1>2
    <2> QED
      BY <1>2, <2>1, <2>2
  <1> QED
    BY <1>4, <1>5

\* The statements of the server block that has been found.
LEMMA InServerFacts ==
    ASSUME RoutingTypes, ServerFound
    PROVE  /\ FirstServer \in 1 .. Len(config) /\ FirstServer \in 1 .. at - 1
           /\ config[FirstServer].depth = 1
           /\ InServer = Children(FirstServer)
           /\ \A i \in InServer : i \in 1 .. Len(config) /\ config[i].depth = 2
  <1>1. PICK s \in Nat, n \in Nat, l \in Nat :
            s = FirstServer /\ n = at /\ l = Len(config) /\ 1 <= s /\ s < n /\ n <= l + 1
    <2>1. config \in Seq(Statements) /\ at \in 1 .. Len(config) + 1 /\ FirstServer \in 1 .. at - 1
      BY DEF RoutingTypes, ServerFound
    <2>2. Len(config) \in Nat
      BY <2>1, SequenceFacts
    <2>3. FirstServer \in Nat /\ at \in Nat /\ 1 <= FirstServer /\ FirstServer < at
          /\ at <= Len(config) + 1
      BY <2>1, <2>2
    <2> QED
      BY <2>2, <2>3
  <1>2. s \in 1 .. Len(config) /\ s # 0
    BY <1>1
  <1>3. config[s].depth = 1
    BY <1>1 DEF ServerFound, IsServer, Is
  <1>4. InServer = Children(FirstServer)
    BY <1>1, <1>2 DEF InServer
  <1>5. ASSUME NEW i \in InServer PROVE i \in 1 .. Len(config) /\ config[i].depth = 2
    <2>1. i \in 1 .. Len(config) /\ config[i].depth = config[s].depth + 1
      BY <1>1, <1>2, <1>4, <1>5, ChildrenFacts DEF RoutingTypes
    <2> QED
      BY <1>3, <2>1
  <1> QED
    BY <1>1, <1>2, <1>3, <1>4, <1>5 DEF ServerFound

--------------------------------------------------------------------------------
(* Ports                                                                      *)

LEMMA Modulo ==
    ASSUME NEW m \in Nat, m > 0, NEW n \in Int
    PROVE  /\ n % m \in 0 .. m - 1
           /\ n \in 0 .. m - 1 => n % m = n
           /\ n \in -m .. -1 => n % m = n + m
  OBVIOUS

LEMMA PortFacts ==
    /\ Wrap \in Nat /\ Wrap > 0
    /\ \A n \in Int : AsShort(n) \in Shorts
    /\ \A n \in 0 .. Wrap - 1 : AsUnsigned(AsShort(n)) = n
    /\ \A s \in Shorts : AsUnsigned(s) \in 0 .. Wrap - 1
    /\ \A s \in Shorts : s # 0 => AsUnsigned(s) # 0
    /\ \A s \in Shorts : s \in 0 .. Wrap - 1 => AsUnsigned(s) = s
  <1>1. PICK m \in Nat, w \in Nat : m = MaxShort /\ w = Wrap /\ w = 2 * (m + 1)
    BY ShortsAssumption DEF Wrap
  <1>2. Shorts = -(m + 1) .. m
    BY <1>1 DEF Shorts
  <1>3. ASSUME NEW n \in Int PROVE AsShort(n) \in Shorts
    <2>1. PICK low \in 0 .. w - 1 : low = n % w
      BY <1>1, Modulo
    <2>2. AsShort(n) = IF low > m THEN low - w ELSE low
      BY <1>1, <2>1 DEF AsShort
    <2> QED
      BY <1>1, <1>2, <2>1, <2>2
  <1>4. ASSUME NEW n \in 0 .. w - 1 PROVE AsUnsigned(AsShort(n)) = n
    <2>1. n % w = n
      BY <1>1, Modulo
    <2>2. PICK s \in Int : s = AsShort(n) /\ s = IF n > m THEN n - w ELSE n
      BY <1>1, <2>1 DEF AsShort
    <2>3. CASE n > m
      <3>1. s \in Int /\ s \in -w .. -1 /\ s + w = n
        BY <1>1, <2>2, <2>3
      <3>2. s % w = s + w
        BY <1>1, <3>1, Modulo
      <3> QED
        BY <1>1, <2>2, <3>1, <3>2 DEF AsUnsigned
    <2>4. CASE ~(n > m)
      BY <1>1, <2>1, <2>2, <2>4 DEF AsUnsigned
    <2> QED
      BY <2>3, <2>4
  <1>5. ASSUME NEW s \in Shorts
        PROVE  /\ AsUnsigned(s) \in 0 .. w - 1
               /\ s # 0 => AsUnsigned(s) # 0
               /\ s \in 0 .. w - 1 => AsUnsigned(s) = s
    <2>1. s \in Int /\ (s \in 0 .. w - 1 \/ s \in -w .. -1)
      BY <1>1, <1>2
    <2>2. PICK u \in 0 .. w - 1 : u = s % w /\ u = AsUnsigned(s)
      BY <1>1, <2>1, Modulo DEF AsUnsigned
    <2>3. /\ s \in 0 .. w - 1 => u = s
          /\ s \in -w .. -1 => u = s + w
      BY <1>1, <2>1, <2>2, Modulo
    <2>4. s + w # 0
      BY <1>1, <1>2
    <2> QED
      BY <2>1, <2>2, <2>3, <2>4
  <1> QED
    BY <1>1, <1>3, <1>4, <1>5

LEMMA atoiType == ASSUME NEW token PROVE atoi(token) \in Int
  BY NumbersAssumption DEF atoi

--------------------------------------------------------------------------------
(* Routing, step by step                                                      *)

LEMMA ConfigStays ==
    ASSUME config' = config
    PROVE  /\ Tokens' = Tokens /\ FirstServer' = FirstServer /\ InServer' = InServer
           /\ \A i : Children(i)' = Children(i)
           /\ \A i, C : Configured(i, C)' = Configured(i, C)
           /\ \A i : Location(i)' = Location(i)
           /\ Served' = Served
           /\ \A n : ListensBefore(n)' = ListensBefore(n)
           /\ \A n : ServedBefore(n)' = ServedBefore(n)
  <1>1. Tokens' = Tokens /\ FirstServer' = FirstServer
    BY DEF Tokens, FirstServer
  <1>2. \A i : Children(i)' = Children(i)
    BY DEF Children
  <1>3. InServer' = InServer
    BY <1>1, <1>2 DEF InServer, Children
  <1>4. \A C, name, default : LastValue(C, name, default)' = LastValue(C, name, default)
    BY DEF LastValue
  <1>5. \A i, C : Configured(i, C)' = Configured(i, C)
    BY DEF Configured, LastValue
  <1>6. \A i : Location(i)' = Location(i)
    BY DEF Location, Configured, LastValue, Children
  <1>7. Served' = Served
    BY <1>3, <1>6 DEF Served, Registers
  <1>8. \A n : ListensBefore(n)' = ListensBefore(n)
    BY <1>3 DEF ListensBefore
  <1>9. \A n : ServedBefore(n)' = ServedBefore(n)
    BY <1>7 DEF ServedBefore
  <1> QED
    BY <1>1, <1>2, <1>3, <1>5, <1>6, <1>7, <1>8, <1>9

LEMMA TypesStay ==
    ASSUME RoutingTypes, UNCHANGED <<text, config>>, ParserOK(parser'), stage' \in Stages,
           at' \in 1 .. Len(config) + 1, port' \in Shorts,
           location' \in LocationConfigs(Tokens), locations' \in Seq(LocationConfigs(Tokens)),
           \A p \in DOMAIN _factories' : _factories'[p] \in LocationConfigs(Tokens)
                                         /\ _factories'[p].path = p,
           locations_' = <<>> \/ locations_' = locations', endpoint' \in 0 .. Wrap - 1
    PROVE  RoutingTypes'
  <1>1. LocationConfigs(Tokens)' = LocationConfigs(Tokens) /\ CharSeqs' = CharSeqs
    <2>1. Tokens' = Tokens
      BY ConfigStays
    <2> QED
      BY <2>1 DEF LocationConfigs, CharSeqs
  <1>2. ParserOK(parser)'
    BY DEF ParserOK
  <1> QED
    BY <1>1, <1>2 DEF RoutingTypes, Shorts, Wrap, Stages

\* What has been extracted depends on the directives before a statement.
LEMMA ExtractedStays ==
    ASSUME NEW n, NEW m, Extracted(n), UNCHANGED <<config, port, locations, _factories>>,
           ListensBefore(m) = ListensBefore(n), ServedBefore(m) = ServedBefore(n)
    PROVE  Extracted(m)'
  <1>1. /\ ListensBefore(m)' = ListensBefore(n) /\ ServedBefore(m)' = ServedBefore(n)
        /\ \A i : Location(i)' = Location(i)
    BY ConfigStays
  <1>2. PortRead(m)'
    <2>1. CASE ListensBefore(n) = {} /\ port = default_port
      BY <1>1, <2>1 DEF PortRead
    <2>2. ASSUME NEW i \in ListensBefore(n), \A j \in ListensBefore(n) : j <= i,
                 port = AsShort(atoi(config[i].tokens[2]))
          PROVE  PortRead(m)'
      BY <1>1, <2>2 DEF PortRead
    <2> QED
      BY <2>1, <2>2 DEF Extracted, PortRead
  <1>3. Registered(m)'
    BY <1>1 DEF Extracted, Registered
  <1> QED
    BY <1>2, <1>3 DEF Extracted

LEMMA LocationTypes ==
    ASSUME NEW T, NEW l \in LocationConfigs(T), NEW key \in T, NEW value \in T
    PROVE  /\ NewLocation(NoToken) \in LocationConfigs(T)
           /\ NewLocation(value) \in LocationConfigs(T)
           /\ WithHandler(l, value) \in LocationConfigs(T)
           /\ WithArg(l, key, value) \in LocationConfigs(T)
  <1>1. NoMap \in [{} -> T]
    BY DEF NoMap
  <1>2. \A path \in T \cup {NoToken} : NewLocation(path) \in LocationConfigs(T)
    BY <1>1 DEF NewLocation, LocationConfigs
  <1>3. PICK D \in SUBSET T : l.args \in [D -> T]
    BY DEF LocationConfigs
  <1>4. Set(l.args, key, value) \in [D \cup {key} -> T]
    BY <1>3 DEF Set
  <1> QED
    BY <1>2, <1>4 DEF LocationConfigs, WithHandler, WithArg

LEMMA NewLocationType ==
    ASSUME NEW T, NEW path \in T \cup {NoToken} PROVE NewLocation(path) \in LocationConfigs(T)
  <1>1. NoMap \in [{} -> T]
    BY DEF NoMap
  <1> QED
    BY <1>1 DEF NewLocation, LocationConfigs

LEMMA ExtractedAt ==
    ASSUME NEW n, at' = n, Extracted(n)' PROVE Extracted(at)'
  BY DEF Extracted, PortRead, Registered, ListensBefore, ServedBefore

LEMMA LoadSteps ==
    ASSUME RoutingInv, ParseTurn \/ LoadConfig \/ LoadFails PROVE RoutingInv'
  <1>1. /\ stage = "start" /\ RoutingTypes /\ config = <<>> /\ at = 1
        /\ location = NewLocation(NoToken)
        /\ locations = <<>> /\ _factories = NoMap /\ port = default_port /\ answer = <<>>
    BY DEF RoutingInv, ParseTurn, LoadConfig, LoadFails
  <1>2. UNCHANGED <<text, at, port, locations, location, _factories, locations_, endpoint, answer>>
    BY DEF ParseTurn, LoadConfig, LoadFails, extractVars
  <1>3. <<>> \in CharSeqs
    BY DEF CharSeqs
  <1>4. ParserOK(parser')
    BY <1>1, <1>3, ParseStepOK, NewParserOK DEF ParseTurn, LoadConfig, LoadFails, RoutingTypes
  <1>5. CASE UNCHANGED config /\ stage' \in {"start", "failed"}
    <2>1. RoutingTypes'
      <3>1. stage' \in Stages
        BY <1>5 DEF Stages
      <3> QED
        BY <1>1, <1>2, <1>4, <1>5, <3>1, TypesStay DEF RoutingTypes
    <2> QED
      BY <1>1, <1>2, <1>5, <2>1 DEF RoutingInv
  <1>6. CASE config' = parser.config /\ stage' = "outside"
    <2>1. config' \in Seq(Statements) /\ at' \in 1 .. Len(config') + 1
      <3>1. config' \in Seq(Statements)
        BY <1>1, <1>6 DEF RoutingTypes, ParserOK
      <3>2. Len(config') \in Nat
        BY <3>1, SequenceFacts
      <3> QED
        BY <1>1, <1>2, <3>1, <3>2
    <2>2. location' \in LocationConfigs(Tokens') /\ locations' \in Seq(LocationConfigs(Tokens'))
      BY <1>1, <1>2, NewLocationType
    <2>3. LocationConfigs(Tokens)' = LocationConfigs(Tokens')
      BY DEF LocationConfigs
    <2>4. _factories' = NoMap /\ DOMAIN NoMap = {}
      BY <1>1, <1>2 DEF NoMap
    <2>5. ParserOK(parser)'
      BY <1>4 DEF ParserOK
    <2>6. RoutingTypes'
      BY <1>1, <1>2, <1>6, <2>1, <2>2, <2>3, <2>4, <2>5
      DEF RoutingTypes, Stages, Shorts, Wrap, CharSeqs
    <2> QED
      BY <1>1, <1>2, <1>6, <2>6 DEF RoutingInv
  <1> QED
    BY <1>5, <1>6 DEF ParseTurn, LoadConfig, LoadFails

LEMMA EnterServerStep ==
    ASSUME RoutingInv, EnterServerBlock PROVE RoutingInv'
  <1>1. /\ stage = "outside" /\ stage' = "server" /\ RoutingTypes
        /\ locations = <<>> /\ _factories = NoMap /\ port = default_port /\ answer = <<>>
        /\ \A k \in 1 .. at - 1 : ~IsServer(config[k])
        /\ at <= Len(config) /\ IsServer(config[at]) /\ at' = at + 1
        /\ UNCHANGED <<text, parser, config, port, locations, location, _factories,
                       locations_, endpoint, answer>>
    BY DEF RoutingInv, EnterServerBlock, Inside, extractVars
  <1>2. PICK n \in Nat, l \in Nat : n = at /\ l = Len(config) /\ 1 <= n /\ n <= l
    BY <1>1, SequenceFacts DEF RoutingTypes
  <1>3. RoutingTypes'
    <2>1. at' \in 1 .. Len(config) + 1 /\ stage' \in Stages
      BY <1>1, <1>2 DEF Stages
    <2> QED
      BY <1>1, <2>1, TypesStay DEF RoutingTypes
  <1>4. FirstServer = n
    <2>1. n \in 1 .. Len(config) /\ IsServer(config[n]) /\ config \in Seq(Statements)
      BY <1>1, <1>2 DEF RoutingTypes
    <2>2. FirstServer \in 0 .. Len(config) /\ FirstServer # 0 /\ FirstServer <= n
          /\ IsServer(config[FirstServer])
      BY <2>1, FirstServerFacts
    <2>3. FirstServer \notin 1 .. n - 1
      BY <1>1, <1>2, <2>2
    <2> QED
      BY <1>2, <2>2, <2>3
  <1>5. InServer = Children(n) /\ \A i \in InServer : n < i /\ i \in Nat
    <2>1. n \in 1 .. Len(config) /\ n # 0 /\ config \in Seq(Statements)
      BY <1>1, <1>2 DEF RoutingTypes
    <2> QED
      BY <1>2, <1>4, <2>1, ChildrenFacts DEF InServer
  <1>6. ListensBefore(n + 1) = {} /\ ServedBefore(n + 1) = {}
    <2>1. \A i \in InServer : ~(i < n + 1)
      BY <1>5
    <2> QED
      BY <2>1 DEF ListensBefore, ServedBefore, Served
  <1>7. Extracted(n + 1)
    <2>1. DOMAIN locations = {} /\ DOMAIN _factories = {}
      BY <1>1 DEF NoMap
    <2> QED
      BY <1>1, <1>6, <2>1 DEF Extracted, PortRead, Registered
  <1>8. Extracted(at)'
    <2>1. at' = n + 1
      BY <1>1, <1>2
    <2>2. Extracted(n + 1)'
      BY <1>1, <1>7, ExtractedStays
    <2> QED
      BY <2>1, <2>2, ExtractedAt
  <1>9. ServerFound'
    <2>1. FirstServer' = n /\ at' = n + 1 /\ IsServer(config[n])
      BY <1>1, <1>2, <1>4, ConfigStays
    <2> QED
      BY <1>1, <1>2, <2>1 DEF ServerFound
  <1>10. Within(FirstServer, 1)'
    <2>1. FirstServer' = n /\ at' = n + 1
      BY <1>1, <1>2, <1>4, ConfigStays
    <2> QED
      BY <1>2, <2>1 DEF Within
  <1> QED
    BY <1>1, <1>3, <1>8, <1>9, <1>10 DEF RoutingInv

\* In the server block, or in a location of it, before a statement of the block.
LEMMA ServerHere ==
    ASSUME RoutingInv, stage \in {"server", "location"}, Inside(2)
    PROVE  /\ at \in 1 .. Len(config) /\ at \in Nat /\ at + 1 \in 1 .. Len(config) + 1
           /\ at \in InServer <=> config[at].depth = 2
           /\ \A i \in InServer : i \in Nat
           /\ config[at].depth > 1
  <1>1. RoutingTypes /\ ServerFound /\ Within(FirstServer, 1)
    BY DEF RoutingInv
  <1>2. at \in 1 .. Len(config) /\ at \in Nat /\ at + 1 \in 1 .. Len(config) + 1
    <2>1. at <= Len(config) /\ at \in 1 .. Len(config) + 1 /\ Len(config) \in Nat
      BY <1>1, SequenceFacts DEF RoutingTypes, Inside
    <2> QED
      BY <2>1
  <1>3. FirstServer \in 1 .. at - 1 /\ config[FirstServer].depth = 1
        /\ InServer = Children(FirstServer) /\ \A i \in InServer : i \in 1 .. Len(config)
    BY <1>1, InServerFacts
  <1>4. at \in InServer <=> config[at].depth = 2
    <2>1. at \in Children(FirstServer) <=> config[at].depth = 1 + 1
      BY <1>1, <1>2, <1>3, ChildNext DEF RoutingTypes
    <2> QED
      BY <1>3, <2>1
  <1>5. config[at].depth > 1
    <2>1. config[at].depth >= 2 /\ config[at].depth \in Nat
      BY <1>1, <1>2, StatementFacts DEF Inside, RoutingTypes
    <2> QED
      BY <2>1
  <1> QED
    BY <1>2, <1>3, <1>4, <1>5

LEMMA ServerGoesOn ==
    ASSUME RoutingInv, stage \in {"server", "location"}, Inside(2),
           UNCHANGED config, at' = at + 1
    PROVE  ServerFound' /\ Within(FirstServer, 1)'
  <1>1. RoutingTypes /\ ServerFound /\ Within(FirstServer, 1)
    BY DEF RoutingInv
  <1>2. FirstServer' = FirstServer /\ FirstServer \in 1 .. at - 1 /\ at \in Nat
        /\ config[at].depth > 1
    BY <1>1, ServerHere, InServerFacts, ConfigStays
  <1>3. ServerFound'
    BY <1>1, <1>2 DEF ServerFound
  <1>4. Within(FirstServer, 1)'
    <2>1. ASSUME NEW k \in FirstServer + 1 .. at PROVE config[k].depth > 1
      <3>1. CASE k = at
        BY <1>2, <3>1
      <3>2. CASE k # at
        <4>1. k \in FirstServer + 1 .. at - 1
          BY <1>2, <3>2
        <4> QED
          BY <1>1, <4>1 DEF Within
      <3> QED
        BY <3>1, <3>2
    <2> QED
      BY <1>2, <2>1 DEF Within
  <1> QED
    BY <1>3, <1>4

LEMMA ReadListenStep ==
    ASSUME RoutingInv, ReadListen PROVE RoutingInv'
  <1>1. /\ stage = "server" /\ Inside(2) /\ IsListen(config[at])
        /\ port' = AsShort(atoi(config[at].tokens[2])) /\ at' = at + 1
        /\ UNCHANGED <<stage, text, parser, config, locations, location, _factories,
                       locations_, endpoint, answer>>
    BY DEF ReadListen, Value, dispatchVars
  <1>2. RoutingTypes /\ Extracted(at) /\ answer = <<>>
    BY <1>1 DEF RoutingInv
  <1>3. RoutingTypes'
    <2>1. at + 1 \in 1 .. Len(config) + 1 /\ port' \in Shorts
      BY <1>1, ServerHere, PortFacts, atoiType
    <2> QED
      BY <1>1, <1>2, <2>1, TypesStay DEF RoutingTypes
  <1>4. PICK n \in Nat : n = at /\ n \in InServer /\ \A i \in InServer : i \in Nat
    BY <1>1, ServerHere DEF IsListen, Is
  <1>5. ListensBefore(n + 1) = ListensBefore(n) \cup {n} /\ \A i \in ListensBefore(n) : i < n
    <2>1. IsListen(config[n])
      BY <1>1, <1>4
    <2>2. \A i \in InServer : i < n + 1 <=> i < n \/ i = n
      BY <1>4
    <2> QED
      BY <1>4, <2>1, <2>2 DEF ListensBefore
  <1>6. ServedBefore(n + 1) = ServedBefore(n)
    <2>1. n \notin Served
      <3>1. config[n].tokens[1] = <<"listen">>
        BY <1>1, <1>4 DEF IsListen, Is
      <3>2. <<"listen">> # <<"location">>
        OBVIOUS
      <3> QED
        BY <3>1, <3>2 DEF Served, IsLocation, Is
    <2>2. Served \subseteq InServer
      BY DEF Served
    <2>3. \A i \in Served : i < n + 1 <=> i < n
      BY <1>4, <2>1, <2>2
    <2> QED
      BY <2>3 DEF ServedBefore
  <1>7. Extracted(n + 1)'
    <2>1. /\ ListensBefore(n + 1)' = ListensBefore(n) \cup {n}
          /\ ServedBefore(n + 1)' = ServedBefore(n)
          /\ \A i : Location(i)' = Location(i)
      BY <1>1, <1>5, <1>6, ConfigStays
    <2>2. \A j \in ListensBefore(n) \cup {n} : j <= n
      BY <1>4, <1>5 DEF ListensBefore
    <2>3. port' = AsShort(atoi(config'[n].tokens[2]))
      BY <1>1, <1>4
    <2>4. PortRead(n + 1)'
      BY <2>1, <2>2, <2>3 DEF PortRead
    <2>5. Registered(n + 1)'
      BY <1>1, <1>2, <1>4, <2>1 DEF Extracted, Registered
    <2> QED
      BY <2>4, <2>5 DEF Extracted
  <1>8. Extracted(at)'
    BY <1>1, <1>4, <1>7, ExtractedAt
  <1> QED
    BY <1>1, <1>2, <1>3, <1>8, ServerGoesOn DEF RoutingInv

\* A statement of the block that is neither a listen directive nor a location.
LEMMA NothingRead ==
    ASSUME NEW n \in Nat, \A i \in InServer : i \in Nat, Extracted(n),
           n \in InServer => ~IsListen(config[n]) /\ ~IsLocation(config[n]),
           UNCHANGED <<config, port, locations, _factories>>
    PROVE  Extracted(n + 1)'
  <1>1. ListensBefore(n + 1) = ListensBefore(n)
    <2>1. \A i \in InServer : IsListen(config[i]) => (i < n + 1 <=> i < n)
      OBVIOUS
    <2> QED
      BY <2>1 DEF ListensBefore
  <1>2. ServedBefore(n + 1) = ServedBefore(n)
    <2>1. \A i \in Served : i < n + 1 <=> i < n
      BY DEF Served
    <2> QED
      BY <2>1 DEF ServedBefore
  <1> QED
    BY <1>1, <1>2, ExtractedStays

LEMMA SkipInServer ==
    ASSUME RoutingInv, SkipStatement, stage = "server" PROVE RoutingInv'
  <1>1. /\ Inside(2) /\ ~IsListen(config[at]) /\ ~IsLocation(config[at]) /\ at' = at + 1
        /\ UNCHANGED <<stage, text, parser, config, port, locations, location, _factories,
                       locations_, endpoint, answer>>
    BY DEF SkipStatement, extractVars
  <1>2. RoutingTypes /\ Extracted(at) /\ answer = <<>>
    BY DEF RoutingInv
  <1>3. RoutingTypes'
    <2>1. at + 1 \in 1 .. Len(config) + 1
      BY <1>1, ServerHere
    <2> QED
      BY <1>1, <1>2, <2>1, TypesStay DEF RoutingTypes
  <1>4. Extracted(at)'
    <2>1. PICK n \in Nat : n = at /\ \A i \in InServer : i \in Nat
      BY <1>1, ServerHere
    <2>2. Extracted(n)
      BY <1>2, <2>1
    <2>3. Extracted(n + 1)'
      BY <1>1, <2>1, <2>2, NothingRead
    <2> QED
      BY <1>1, <2>1, <2>3, ExtractedAt
  <1> QED
    BY <1>1, <1>2, <1>3, <1>4, ServerGoesOn DEF RoutingInv

LEMMA EnterLocationStep ==
    ASSUME RoutingInv, EnterLocation PROVE RoutingInv'
  <1>1. /\ stage = "server" /\ stage' = "location" /\ Inside(2) /\ IsLocation(config[at])
        /\ location' = NewLocation(config[at].tokens[2]) /\ at' = at + 1
        /\ UNCHANGED <<text, parser, config, port, locations, _factories,
                       locations_, endpoint, answer>>
    BY DEF EnterLocation, Value, dispatchVars
  <1>2. RoutingTypes /\ Extracted(at) /\ answer = <<>>
    BY <1>1 DEF RoutingInv
  <1>3. PICK n \in Nat : /\ n = at /\ n \in InServer /\ n \in 1 .. Len(config)
                         /\ n + 1 \in 1 .. Len(config) + 1
    BY <1>1, ServerHere DEF IsLocation, Is
  <1>4. RoutingTypes'
    <2>1. HasValue(config[n])
      BY <1>1, <1>3 DEF IsLocation
    <2>2. config[n].tokens[2] \in Tokens
      BY <1>2, <1>3, <2>1, StatementFacts DEF RoutingTypes
    <2>3. location' \in LocationConfigs(Tokens)
      BY <1>1, <1>3, <2>2, NewLocationType
    <2>4. stage' \in Stages
      BY <1>1 DEF Stages
    <2> QED
      BY <1>1, <1>2, <1>3, <2>3, <2>4, TypesStay DEF RoutingTypes
  <1>5. Reading(n)'
    <2>1. /\ InServer' = InServer /\ at' = n + 1 /\ config' = config
          /\ Children(n)' = Children(n) /\ \A C : Configured(n, C)' = Configured(n, C)
      BY <1>1, <1>3, ConfigStays
    <2>2. {j \in Children(n) : j < n + 1} = {}
      <3>1. \A j \in Children(n) : n < j /\ j \in Nat
        BY <1>2, <1>3, ChildrenFacts DEF RoutingTypes
      <3> QED
        BY <3>1
    <2>3. location' = Configured(n, {})
      BY <1>1, <1>3, ConfiguredNothing
    <2>4. Within(n, 2)'
      BY <1>3, <2>1 DEF Within
    <2>5. Extracted(n)'
      BY <1>1, <1>2, <1>3, ExtractedStays
    <2>6. /\ {} = {j \in Children(n)' : j < at'}
          /\ location' = Configured(n, {})'
      BY <2>1, <2>2, <2>3
    <2>7. IsLocation(config[n])' /\ n < at' /\ n \in InServer'
      BY <1>1, <1>3, <2>1
    <2> QED
      BY <2>4, <2>5, <2>6, <2>7 DEF Reading
  <1>6. n \in 1 .. at' - 1
    BY <1>1, <1>3
  <1> QED
    BY <1>1, <1>2, <1>4, <1>5, <1>6, ServerGoesOn DEF RoutingInv

LEMMA LocationHere ==
    ASSUME RoutingInv, stage = "location", Inside(3), NEW i \in 1 .. at - 1, Reading(i)
    PROVE  /\ Inside(2)
           /\ at \in Nat /\ at \in 1 .. Len(config) /\ at + 1 \in 1 .. Len(config) + 1
           /\ config[at].depth > 2
           /\ at \in Children(i) <=> config[at].depth = 3
           /\ \A j \in Children(i) : j \in Nat
  <1>1. RoutingTypes
    BY DEF RoutingInv
  <1>2. at <= Len(config) /\ config[at].depth >= 3
    BY DEF Inside
  <1>3. at \in Nat /\ at \in 1 .. Len(config) /\ at + 1 \in 1 .. Len(config) + 1
    <2>1. at \in 1 .. Len(config) + 1 /\ Len(config) \in Nat
      BY <1>1, SequenceFacts DEF RoutingTypes
    <2> QED
      BY <1>2, <2>1
  <1>4. config[at].depth \in Nat
    BY <1>1, <1>3, StatementFacts DEF RoutingTypes
  <1>5. Inside(2) /\ config[at].depth > 2
    BY <1>2, <1>4 DEF Inside
  <1>6. config[i].depth = 2 /\ Within(i, 2)
    BY DEF Reading, IsLocation, Is
  <1>7. i \in 1 .. Len(config)
    BY <1>3
  <1>8. at \in Children(i) <=> config[at].depth = 2 + 1
    BY <1>1, <1>3, <1>6, ChildNext DEF RoutingTypes
  <1>9. \A j \in Children(i) : j \in Nat
    BY <1>1, <1>7, ChildrenFacts DEF RoutingTypes
  <1> QED
    BY <1>3, <1>5, <1>8, <1>9

LEMMA LocationGoesOn ==
    ASSUME RoutingInv, stage = "location", Inside(3), NEW i \in 1 .. at - 1, Reading(i),
           at' = at + 1, UNCHANGED <<config, port, locations, _factories>>,
           location' = Configured(i, {j \in Children(i) : j < at + 1})
    PROVE  i \in 1 .. at' - 1 /\ Reading(i)'
  <1>1. at \in Nat /\ at \in 1 .. Len(config) /\ config[at].depth > 2
    BY LocationHere
  <1>2. /\ i \in InServer /\ i < at /\ IsLocation(config[i]) /\ Within(i, 2) /\ Extracted(i)
    BY DEF Reading
  <1>3. Within(i, 2)'
    <2>1. ASSUME NEW k \in i + 1 .. at PROVE config[k].depth > 2
      <3>1. CASE k = at
        BY <1>1, <3>1
      <3>2. CASE k # at
        <4>1. k \in i + 1 .. at - 1
          BY <1>1, <3>2
        <4> QED
          BY <1>2, <4>1 DEF Within
      <3> QED
        BY <3>1, <3>2
    <2> QED
      BY <1>1, <2>1 DEF Within
  <1>4. Extracted(i)'
    BY <1>2, ExtractedStays
  <1>5. PICK inside : /\ inside = {j \in Children(i)' : j < at'}
                      /\ location' = Configured(i, inside)'
    BY ConfigStays
  <1>6. i \in InServer' /\ i < at' /\ IsLocation(config[i])'
    BY <1>1, <1>2, ConfigStays
  <1>7. i \in 1 .. at' - 1
    BY <1>1
  <1> QED
    BY <1>3, <1>4, <1>5, <1>6, <1>7 DEF Reading

LEMMA ReadDirectiveStep ==
    ASSUME RoutingInv, stage = "location",
           ReadHandler \/ ReadArg \/ SkipStatement
    PROVE  RoutingInv'
  <1>1. /\ stage' = "location" /\ Inside(3) /\ at' = at + 1
        /\ UNCHANGED <<text, parser, config, port, locations, _factories,
                       locations_, endpoint, answer>>
    BY DEF ReadHandler, ReadArg, SkipStatement, dispatchVars, extractVars
  <1>2. RoutingTypes /\ answer = <<>>
    BY DEF RoutingInv
  <1>3. PICK i \in 1 .. at - 1 : Reading(i)
    BY DEF RoutingInv
  <1>4. PICK n \in Nat : /\ n = at /\ n \in 1 .. Len(config) /\ n + 1 \in 1 .. Len(config) + 1
                         /\ n \in Children(i) <=> config[n].depth = 3
                         /\ \A j \in Children(i) : j \in Nat
    BY <1>1, <1>3, LocationHere
  <1> DEFINE C == {j \in Children(i) : j < n}
             D == {j \in Children(i) : j < n + 1}
  <1>5. C \in SUBSET Nat /\ (\A j \in C : j < n) /\ location = Configured(i, C)
    BY <1>3, <1>4 DEF Reading
  <1>6. n \in Children(i) => D = C \cup {n}
    <2>1. \A j \in Children(i) : j < n + 1 <=> j < n \/ j = n
      BY <1>4
    <2> QED
      BY <2>1
  <1>7. n \notin Children(i) => D = C
    <2>1. n \notin Children(i) => \A j \in Children(i) : j < n + 1 <=> j < n
      BY <1>4
    <2> QED
      BY <2>1
  <1> HIDE DEF C, D
  <1>8. /\ location' = Configured(i, D)
        /\ location' \in LocationConfigs(Tokens)
    <2>1. CASE ReadHandler
      <3>0. n \in Children(i) /\ HasValue(config[n])
        BY <1>4, <2>1 DEF ReadHandler, IsDirective
      <3>1. /\ config[n].tokens[1] = <<"handler">>
            /\ location' = WithHandler(location, config[n].tokens[2])
        BY <1>4, <2>1 DEF ReadHandler, Value, WithHandler
      <3>2. location' = Configured(i, D)
        <4>1. D = C \cup {n}
          BY <1>6, <3>0
        <4>2. Configured(i, C \cup {n}) = WithHandler(Configured(i, C), config[n].tokens[2])
          BY <1>5, <3>0, <3>1, ConfiguredAdd
        <4> QED
          BY <1>5, <3>1, <4>1, <4>2
      <3>3. config[n].tokens[2] \in Tokens
        BY <1>2, <1>4, <3>0, StatementFacts DEF RoutingTypes
      <3>4. WithHandler(location, config[n].tokens[2]) \in LocationConfigs(Tokens)
        BY <1>2, <3>3, LocationTypes DEF RoutingTypes
      <3> QED
        BY <3>1, <3>2, <3>4
    <2>2. CASE ReadArg
      <3>0. n \in Children(i) /\ HasValue(config[n])
        BY <1>4, <2>2 DEF ReadArg, IsDirective
      <3>1. /\ config[n].tokens[1] # <<"handler">>
            /\ location' = WithArg(location, config[n].tokens[1], config[n].tokens[2])
        BY <1>4, <2>2 DEF ReadArg, Value, WithArg
      <3>2. location' = Configured(i, D)
        <4>1. D = C \cup {n}
          BY <1>6, <3>0
        <4>2. Configured(i, C \cup {n}) =
                  WithArg(Configured(i, C), config[n].tokens[1], config[n].tokens[2])
          BY <1>5, <3>0, <3>1, ConfiguredAdd
        <4> QED
          BY <1>5, <3>1, <4>1, <4>2
      <3>3. config[n].tokens[1] \in Tokens /\ config[n].tokens[2] \in Tokens
        BY <1>2, <1>4, <3>0, StatementFacts DEF RoutingTypes
      <3>4. WithArg(location, config[n].tokens[1], config[n].tokens[2])
                \in LocationConfigs(Tokens)
        BY <1>2, <3>3, LocationTypes DEF RoutingTypes
      <3> QED
        BY <3>1, <3>2, <3>4
    <2>3. CASE SkipStatement
      <3>1. location' = location /\ ~IsDirective(config[n])
        BY <1>4, <2>3 DEF SkipStatement, extractVars
      <3>2. n \in Children(i) => ~HasValue(config[n])
        BY <1>4, <3>1 DEF IsDirective
      <3>3. Configured(i, D) = Configured(i, C)
        <4>1. CASE n \in Children(i)
          <5>1. D = C \cup {n} /\ ~HasValue(config[n])
            BY <1>6, <3>2, <4>1
          <5> QED
            BY <1>5, <5>1, ConfiguredAdd
        <4>2. CASE n \notin Children(i)
          BY <1>7, <4>2
        <4> QED
          BY <4>1, <4>2
      <3> QED
        BY <1>2, <1>5, <3>1, <3>3 DEF RoutingTypes
    <2> QED
      BY <2>1, <2>2, <2>3
  <1>9. RoutingTypes'
    <2>1. stage' \in Stages
      BY <1>1 DEF Stages
    <2> QED
      BY <1>1, <1>2, <1>4, <1>8, <2>1, TypesStay DEF RoutingTypes
  <1>10. i \in 1 .. at' - 1 /\ Reading(i)'
    <2>1. location' = Configured(i, {j \in Children(i) : j < at + 1})
      BY <1>4, <1>8 DEF D
    <2> QED
      BY <1>1, <1>3, <2>1, LocationGoesOn
  <1>11. Inside(2)
    BY <1>1, <1>3, LocationHere
  <1>12. ServerFound' /\ Within(FirstServer, 1)'
    BY <1>1, <1>11, ServerGoesOn
  <1> QED
    BY <1>1, <1>2, <1>9, <1>10, <1>12 DEF RoutingInv

LEMMA EndLocationFrame ==
    ASSUME NEW n, n = at, stage' = "server", RoutingTypes', ServerFound, Within(FirstServer, 1),
           UNCHANGED <<config, at, locations_, answer>>, locations_ = <<>>, answer = <<>>,
           Extracted(n)'
    PROVE  RoutingInv'
  <1>1. ServerFound' /\ Within(FirstServer, 1)'
    BY ConfigStays DEF ServerFound, Within
  <1>2. Extracted(at)'
    BY ExtractedAt
  <1> QED
    BY <1>1, <1>2 DEF RoutingInv

LEMMA EndLocationStep ==
    ASSUME RoutingInv, EndLocation PROVE RoutingInv'
  <1>1. /\ stage = "location" /\ stage' = "server" /\ ~Inside(3)
        /\ UNCHANGED <<text, parser, config, at, port, location, locations_, endpoint, answer>>
    BY DEF EndLocation
  <1>2. RoutingTypes /\ ServerFound /\ Within(FirstServer, 1) /\ answer = <<>> /\ locations_ = <<>>
    BY <1>1 DEF RoutingInv
  <1>3. PICK i \in 1 .. at - 1 : Reading(i)
    BY <1>1 DEF RoutingInv
  <1>4. /\ i \in InServer /\ i < at /\ IsLocation(config[i]) /\ config[i].depth = 2
        /\ Within(i, 2) /\ Extracted(i)
    BY <1>3 DEF Reading, IsLocation, Is
  <1>5. /\ at \in Nat /\ i \in Nat /\ i \in 1 .. Len(config)
        /\ at <= Len(config) => at \in 1 .. Len(config)
        /\ InServer = Children(FirstServer) /\ \A j \in InServer : j \in Nat /\ config[j].depth = 2
    <2>1. at \in 1 .. Len(config) + 1 /\ Len(config) \in Nat
      BY <1>2, SequenceFacts DEF RoutingTypes
    <2>2. InServer = Children(FirstServer)
          /\ \A j \in InServer : j \in 1 .. Len(config) /\ config[j].depth = 2
      BY <1>2, InServerFacts
    <2> QED
      BY <1>4, <2>1, <2>2
  <1>6. location = Location(i)
    <2>1. at <= Len(config) => config[at].depth <= 2
      <3>1. at <= Len(config) => config[at].depth \in Nat /\ ~(config[at].depth >= 3)
        BY <1>1, <1>2, <1>5, StatementFacts DEF Inside, RoutingTypes
      <3> QED
        BY <3>1
    <2>2. \A j \in Children(i) : j < at
      BY <1>2, <1>4, <2>1, ChildrenEnd DEF RoutingTypes
    <2>3. {j \in Children(i) : j < at} = Children(i)
      BY <2>2
    <2> QED
      BY <1>3, <2>3 DEF Reading, Location
  <1>7. \A j \in InServer : j < at <=> j < i \/ j = i
    <2>1. ASSUME NEW j \in InServer, j < at, j > i PROVE FALSE
      <3>1. j \in i + 1 .. at - 1
        BY <1>5, <2>1
      <3>2. config[j].depth > 2 /\ config[j].depth = 2
        BY <1>4, <1>5, <3>1 DEF Within
      <3> QED
        BY <3>2
    <2> QED
      BY <1>4, <1>5, <2>1
  <1>8. PICK p : p = config[i].tokens[2] /\ p = location.path /\ p \in Tokens
    <2>1. Configured(i, Children(i)).path = config[i].tokens[2]
      BY DEF Configured
    <2>2. config[i].tokens[2] \in Tokens
      BY <1>2, <1>4, <1>5, StatementFacts DEF IsLocation, RoutingTypes
    <2> QED
      BY <1>6, <2>1, <2>2 DEF Location
  <1>9. PICK n \in Nat : n = at
    BY <1>5
  <1>10. ListensBefore(n) = ListensBefore(i)
    <2>1. ~IsListen(config[i])
      <3>1. config[i].tokens[1] = <<"location">> /\ <<"listen">> # <<"location">>
        BY <1>4 DEF IsLocation, Is
      <3> QED
        BY <3>1 DEF IsListen, Is
    <2>2. \A j \in InServer : IsListen(config[j]) => (j < n <=> j < i)
      BY <1>7, <1>9, <2>1
    <2> QED
      BY <2>2 DEF ListensBefore
  <1>11. \A j \in ServedBefore(n) : j \in ServedBefore(i) \/ j = i
    BY <1>7, <1>9 DEF ServedBefore, Served
  <1>12. ServedBefore(i) \subseteq ServedBefore(n)
    BY <1>7, <1>9 DEF ServedBefore, Served
  <1>13. i \in ServedBefore(n) <=> Registers(location)
    BY <1>4, <1>6, <1>9 DEF ServedBefore, Served
  <1>14. CASE UNCHANGED <<_factories, locations>> /\ ~Registers(location)
    <2>1. RoutingTypes'
      <3>1. stage' \in Stages
        BY <1>1 DEF Stages
      <3> QED
        BY <1>1, <1>2, <1>14, <3>1, TypesStay DEF RoutingTypes
    <2>2. Extracted(n)'
      <3>1. ServedBefore(n) = ServedBefore(i)
        BY <1>11, <1>12, <1>13, <1>14
      <3> QED
        BY <1>1, <1>4, <1>10, <1>14, <3>1, ExtractedStays
    <2> QED
      BY <1>1, <1>2, <1>9, <1>14, <2>1, <2>2, EndLocationFrame
  <1>15. CASE /\ Registers(location) /\ RegisterHandler(location.path, location)
              /\ locations' = Append(locations, location)
    <2>1. _factories' = Set(_factories, p, location)
      BY <1>8, <1>15 DEF RegisterHandler
    <2>2. /\ DOMAIN _factories' = DOMAIN _factories \cup {p} /\ _factories'[p] = location
          /\ \A q \in DOMAIN _factories \ {p} : _factories'[q] = _factories[q]
      BY <2>1 DEF Set
    <2>3. PICK T : T = LocationConfigs(Tokens)
      OBVIOUS
    <2>4. PICK list \in Seq(T) : list = locations
      BY <1>2, <2>3 DEF RoutingTypes
    <2>5. PICK l \in T : l = location
      BY <1>2, <2>3 DEF RoutingTypes
    <2>6. /\ locations' \in Seq(T)
          /\ DOMAIN locations' = 1 .. Len(list) + 1 /\ DOMAIN locations = 1 .. Len(list)
          /\ Len(list) \in Nat
          /\ locations'[Len(list) + 1] = location
          /\ \A k \in 1 .. Len(list) : locations'[k] = locations[k]
      BY <1>15, <2>4, <2>5, AppendFacts, SequenceFacts
    <2>7. locations_ = <<>>
      BY <1>1 DEF RoutingInv
    <2>8. RoutingTypes'
      <3>1. stage' \in Stages
        BY <1>1 DEF Stages
      <3>2. \A q \in DOMAIN _factories' : _factories'[q] \in T /\ _factories'[q].path = q
        BY <1>2, <1>8, <2>2, <2>3, <2>5 DEF RoutingTypes
      <3> QED
        BY <1>1, <1>2, <2>3, <2>6, <2>7, <3>1, <3>2, TypesStay DEF RoutingTypes
    <2>9. /\ ListensBefore(n)' = ListensBefore(i) /\ ServedBefore(n)' = ServedBefore(n)
          /\ \A j : Location(j)' = Location(j)
      BY <1>1, <1>10, ConfigStays
    <2>10. PortRead(n)'
      BY <1>1, <1>4, <2>9 DEF Extracted, PortRead
    <2>11. Registered(n)'
      <3>1. \A k \in DOMAIN locations' : locations'[k].path \in DOMAIN _factories'
        <4>1. \A k \in 1 .. Len(list) : locations[k].path \in DOMAIN _factories
          BY <1>4, <2>6 DEF Extracted, Registered
        <4> QED
          BY <1>8, <2>2, <2>6, <4>1
      <3>2. ASSUME NEW q \in DOMAIN _factories'
            PROVE \E k \in DOMAIN locations' : locations'[k].path = q
        <4>1. CASE q = p
          BY <1>8, <2>6, <4>1
        <4>2. CASE q # p
          <5>1. PICK k \in DOMAIN locations : locations[k].path = q
            BY <1>4, <2>2, <4>2 DEF Extracted, Registered
          <5>2. k \in DOMAIN locations' /\ locations'[k] = locations[k]
            BY <2>6, <5>1
          <5> QED
            BY <5>1, <5>2
        <4> QED
          BY <4>1, <4>2
      <3>3. ASSUME NEW q \in DOMAIN _factories'
            PROVE  \E j \in ServedBefore(n) :
                      /\ config[j].tokens[2] = q
                      /\ _factories'[q] = Location(j)
                      /\ \A m \in ServedBefore(n) : config[m].tokens[2] = q => m <= j
        <4>1. CASE q = p
          <5>1. i \in ServedBefore(n) /\ _factories'[q] = Location(i) /\ config[i].tokens[2] = q
            BY <1>6, <1>8, <1>13, <1>15, <2>2, <4>1
          <5>2. \A m \in ServedBefore(n) : m <= i
            BY <1>5, <1>7, <1>9 DEF ServedBefore, Served
          <5> QED
            BY <5>1, <5>2
        <4>2. CASE q # p
          <5>1. PICK j \in ServedBefore(i) :
                    /\ config[j].tokens[2] = q
                    /\ _factories[q] = Location(j)
                    /\ \A m \in ServedBefore(i) : config[m].tokens[2] = q => m <= j
            BY <1>4, <2>2, <4>2 DEF Extracted, Registered
          <5>2. \A m \in ServedBefore(n) : config[m].tokens[2] = q => m \in ServedBefore(i)
            BY <1>8, <1>11, <4>2
          <5> QED
            BY <1>12, <2>2, <4>2, <5>1, <5>2
        <4> QED
          BY <4>1, <4>2
      <3>4. \A j \in ServedBefore(n) : config[j].tokens[2] \in DOMAIN _factories'
        <4>1. \A j \in ServedBefore(i) : config[j].tokens[2] \in DOMAIN _factories
          BY <1>4 DEF Extracted, Registered
        <4> QED
          BY <1>8, <1>11, <2>2, <4>1
      <3> QED
        BY <1>1, <2>9, <3>1, <3>2, <3>3, <3>4 DEF Registered
    <2>12. Extracted(n)'
      BY <2>10, <2>11 DEF Extracted
    <2> QED
      BY <1>1, <1>2, <1>9, <2>8, <2>12, EndLocationFrame
  <1> QED
    BY <1>14, <1>15 DEF EndLocation

\* Outside a server block, with a statement that is not one.
LEMMA SkipOutside ==
    ASSUME RoutingInv, stage = "outside", Inside(1), ~IsServer(config[at]), SkipStatement
    PROVE  RoutingInv'
  <1>1. /\ RoutingTypes /\ at <= Len(config) /\ at' = at + 1 /\ answer = <<>> /\ locations_ = <<>>
        /\ locations = <<>> /\ _factories = NoMap /\ port = default_port
        /\ \A k \in 1 .. at - 1 : ~IsServer(config[k])
        /\ UNCHANGED <<stage, text, parser, config, port, locations, location, _factories,
                       locations_, endpoint, answer>>
    BY DEF RoutingInv, SkipStatement, Inside, extractVars
  <1>2. PICK n \in Nat, l \in Nat : n = at /\ l = Len(config) /\ 1 <= n /\ n <= l
    BY <1>1, SequenceFacts DEF RoutingTypes
  <1>3. RoutingTypes'
    <2>1. at' \in 1 .. Len(config) + 1
      BY <1>1, <1>2
    <2>2. stage' \in Stages
      BY <1>1 DEF RoutingTypes
    <2> QED
      BY <1>1, <2>1, <2>2, TypesStay DEF RoutingTypes
  <1>4. \A k \in 1 .. at' - 1 : ~IsServer(config[k])
    <2>1. \A k \in 1 .. n : k \in 1 .. n - 1 \/ k = n
      BY <1>2
    <2>2. at' - 1 = n
      BY <1>1, <1>2
    <2> QED
      BY <1>1, <1>2, <2>1, <2>2
  <1>5. (\A k \in 1 .. at - 1 : ~IsServer(config[k]))'
    BY <1>1, <1>4
  <1> QED
    BY <1>1, <1>3, <1>5 DEF RoutingInv

LEMMA StartStep ==
    ASSUME RoutingInv, Start PROVE RoutingInv'
  <1>1. /\ stage \in {"outside", "server"} /\ RoutingTypes /\ answer = <<>>
        /\ UNCHANGED <<text, parser, config, at, port, locations, location, _factories, answer>>
        /\ locations_' = locations
    BY DEF RoutingInv, Start, extractVars
  <1>2. stage' \in {"serving", "failed"} /\ endpoint' \in 0 .. Wrap - 1
    BY <1>1, PortFacts DEF Start, RoutingTypes
  <1>3. RoutingTypes'
    <2>1. stage' \in Stages
      BY <1>2 DEF Stages
    <2> QED
      BY <1>1, <1>2, <2>1, TypesStay DEF RoutingTypes
  <1>4. CASE stage' = "failed"
    BY <1>1, <1>3, <1>4 DEF RoutingInv
  <1>5. CASE stage' = "serving"
    <2>1. is_valid /\ endpoint' = AsUnsigned(port)
      BY <1>5 DEF Start
    <2>2. stage = "server" /\ ~Inside(2)
      BY <2>1 DEF is_valid, Start, RoutingInv
    <2>3. ServerFound /\ Within(FirstServer, 1) /\ Extracted(at)
      BY <2>2 DEF RoutingInv
    <2>4. PICK a \in Nat, n \in Nat : a = at /\ n = Len(config) + 1 /\ a <= n
      <3>1. at \in 1 .. Len(config) + 1 /\ Len(config) \in Nat
        BY <1>1, SequenceFacts DEF RoutingTypes
      <3> QED
        BY <3>1
    <2>5. /\ FirstServer \in 1 .. Len(config) /\ FirstServer \in 1 .. at - 1
          /\ config[FirstServer].depth = 1 /\ InServer = Children(FirstServer)
          /\ \A j \in InServer : j \in Nat
      BY <1>1, <2>3, InServerFacts
    <2>6. at <= Len(config) => config[at].depth <= config[FirstServer].depth
      <3>1. ASSUME at <= Len(config) PROVE config[at].depth <= 1
        <4>1. at \in 1 .. Len(config) /\ config \in Seq(Statements)
          BY <1>1, <3>1 DEF RoutingTypes
        <4>2. config[at].depth \in Nat /\ ~(config[at].depth >= 2)
          BY <2>2, <3>1, <4>1, StatementFacts DEF Inside
        <4> QED
          BY <4>2
      <3> QED
        BY <2>5, <3>1
    <2>7. \A j \in InServer : j < a /\ j < n
      <3>1. config \in Seq(Statements) /\ at \in 1 .. Len(config) + 1
        BY <1>1 DEF RoutingTypes
      <3>2. \A j \in InServer : j < a
        BY <2>4, <2>5, <2>6, <3>1, ChildrenEnd
      <3> QED
        BY <2>4, <2>5, <3>2
    <2>8. ListensBefore(n) = ListensBefore(a) /\ ServedBefore(n) = ServedBefore(a)
      BY <2>7 DEF ListensBefore, ServedBefore, Served
    <2>9. Extracted(n)'
      <3>1. Extracted(a)
        BY <2>3, <2>4
      <3> QED
        BY <1>1, <2>8, <3>1, ExtractedStays
    <2>10. Extracted(Len(config) + 1)'
      <3>1. (Len(config) + 1)' = n
        BY <1>1, <2>4
      <3> QED
        BY <2>9, <3>1 DEF Extracted, PortRead, Registered, ListensBefore, ServedBefore
    <2>11. ServerFound'
      BY <1>1, <2>3, ConfigStays DEF ServerFound
    <2>12. is_valid'
      BY <1>1, <2>1 DEF is_valid
    <2>13. (endpoint = AsUnsigned(port))'
      BY <1>1, <2>1 DEF AsUnsigned, Wrap
    <2>14. (locations_ = locations)'
      BY <1>1
    <2> QED
      BY <1>1, <1>3, <1>5, <2>10, <2>11, <2>12, <2>13, <2>14 DEF RoutingInv
  <1> QED
    BY <1>2, <1>4, <1>5

\* A step that does no more than to change the handler that a session holds.
LEMMA RoutingStays ==
    ASSUME RoutingInv, UNCHANGED <<stage, text, parser, config, at, extractVars, locations_,
                                   endpoint>>,
           answer' # <<>> => stage = "serving"
    PROVE  RoutingInv'
  <1>1. RoutingTypes /\ UNCHANGED <<stage, text, parser, config, at, port, locations, location,
                                    _factories, locations_, endpoint>>
    BY DEF RoutingInv, extractVars
  <1>2. RoutingTypes'
    BY <1>1, TypesStay DEF RoutingTypes
  <1>3. \A n : Extracted(n) => Extracted(n)'
    BY <1>1, ExtractedStays
  <1>4. Extracted(at) => Extracted(at)'
    BY <1>1, <1>3, ExtractedAt
  <1>5. ServerFound => ServerFound'
    BY <1>1, ConfigStays DEF ServerFound
  <1>6. Within(FirstServer, 1) => Within(FirstServer, 1)'
    BY <1>1, ConfigStays DEF Within
  <1>7. ASSUME NEW i, Reading(i) PROVE Reading(i)'
    <2>1. InServer' = InServer /\ Extracted(i)' /\ Within(i, 2)'
      BY <1>1, <1>3, <1>7, ConfigStays DEF Reading, Within
    <2>2. PICK inside : inside = {j \in Children(i) : j < at} /\ location = Configured(i, inside)
      BY <1>7 DEF Reading
    <2>3. inside = {j \in Children(i)' : j < at'} /\ location' = Configured(i, inside)'
      BY <1>1, <2>2, ConfigStays
    <2> QED
      BY <1>1, <1>7, <2>1, <2>3 DEF Reading
  <1>8. ASSUME NEW n, n = Len(config) + 1, Extracted(Len(config) + 1)
        PROVE  Extracted(Len(config) + 1)'
    <2>1. Extracted(n)' /\ n = (Len(config) + 1)'
      BY <1>1, <1>3, <1>8
    <2> QED
      BY <2>1 DEF Extracted, PortRead, Registered, ListensBefore, ServedBefore
  <1>9. is_valid => is_valid'
    BY <1>1 DEF is_valid
  <1>10. endpoint = AsUnsigned(port) => (endpoint = AsUnsigned(port))'
    BY <1>1 DEF AsUnsigned, Wrap
  <1>11. stage = "serving" => (stage = "serving" => /\ ServerFound /\ Extracted(Len(config) + 1)
                                 /\ is_valid /\ locations_ = locations
                                 /\ endpoint = AsUnsigned(port))'
    BY <1>1, <1>5, <1>8, <1>9, <1>10 DEF RoutingInv
  <1>12. stage = "location" => (\E i \in 1 .. at - 1 : Reading(i))'
    BY <1>1, <1>7 DEF RoutingInv
  <1> QED
    BY <1>1, <1>2, <1>4, <1>5, <1>6, <1>11, <1>12 DEF RoutingInv

LEMMA RoutingInit ==
    ASSUME Init PROVE RoutingInv
  <1>1. text \in CharSeqs
    BY TextsAssumption DEF Init, CharSeqs
  <1>2. ParserOK(parser)
    BY <1>1, NewParserOK DEF Init
  <1>3. location \in LocationConfigs(Tokens) /\ DOMAIN _factories = {}
    BY NewLocationType DEF Init, NoMap
  <1>4. endpoint \in 0 .. Wrap - 1
    BY PortFacts DEF Init
  <1>5. RoutingTypes
    BY <1>1, <1>2, <1>3, <1>4, ShortsAssumption DEF Init, RoutingTypes, Stages
  <1> QED
    BY <1>5 DEF Init, RoutingInv

LEMMA StartUpStep ==
    ASSUME RoutingInv, StartUp PROVE RoutingInv'
  <1>1. CASE SkipStatement
    <2>1. CASE stage = "outside" /\ Inside(1) /\ ~IsServer(config[at])
      BY <1>1, <2>1, SkipOutside
    <2>2. CASE stage = "server"
      BY <1>1, <2>2, SkipInServer
    <2>3. CASE stage = "location"
      BY <1>1, <2>3, ReadDirectiveStep
    <2> QED
      BY <1>1, <2>1, <2>2, <2>3 DEF SkipStatement
  <1>2. CASE ParseTurn \/ LoadConfig \/ LoadFails
    BY <1>2, LoadSteps
  <1>3. CASE ReadHandler \/ ReadArg
    <2>1. stage = "location"
      BY <1>3 DEF ReadHandler, ReadArg
    <2> QED
      BY <1>3, <2>1, ReadDirectiveStep
  <1>4. CASE EnterServerBlock
    BY <1>4, EnterServerStep
  <1>5. CASE ReadListen
    BY <1>5, ReadListenStep
  <1>6. CASE EnterLocation
    BY <1>6, EnterLocationStep
  <1>7. CASE EndLocation
    BY <1>7, EndLocationStep
  <1>8. CASE Start
    BY <1>8, StartStep
  <1> QED
    BY <1>1, <1>2, <1>3, <1>4, <1>5, <1>6, <1>7, <1>8 DEF StartUp

LEMMA RoutingStep ==
    ASSUME RoutingInv, [Next]_vars PROVE RoutingInv'
  <1> DEFINE Rest == UNCHANGED <<stage, text, parser, config, at, extractVars, locations_,
                                 endpoint>>
  <1>1. CASE Configure
    BY <1>1, StartUpStep DEF Configure
  <1>2. ASSUME NEW url \in Urls, HandleStatic(url) \/ HandleOther(url) \/ HandleApi(url)
        PROVE  RoutingInv'
    <2>1. Rest /\ stage = "serving"
      BY <1>2 DEF HandleStatic, HandleOther, HandleApi, CreateHandler
    <2> QED
      BY <2>1, RoutingStays
  <1>3. CASE Sent
    <2>1. Rest /\ answer' = <<>>
      BY <1>3 DEF Sent, DropHandler
    <2> QED
      BY <2>1, RoutingStays
  <1>4. CASE FileStep \/ FileChange \/ Ended \/ UNCHANGED vars
    <2>1. UNCHANGED routingVars
      BY <1>4 DEF FileStep, FileChange, Ended, vars
    <2>2. Rest /\ answer' = answer
      BY <2>1 DEF routingVars, extractVars, dispatchVars
    <2>3. answer # <<>> => stage = "serving"
      BY DEF RoutingInv
    <2> QED
      BY <2>2, <2>3, RoutingStays
  <1> QED
    BY <1>1, <1>2, <1>3, <1>4 DEF Next

--------------------------------------------------------------------------------
(* The port                                                                   *)

LEMMA ListenValue ==
    ASSUME NEW L, \A i \in L : i \in Nat /\ IsListen(config[i])
    PROVE  /\ L = {} => LastValue(L, <<"listen">>, NoToken) = NoToken
           /\ \A i \in L : (\A j \in L : j <= i) =>
                  LastValue(L, <<"listen">>, NoToken) = config[i].tokens[2]
  <1>1. PICK named : named = {i \in L : config[i].tokens[1] = <<"listen">> /\ HasValue(config[i])}
    OBVIOUS
  <1>2. named = L
    BY <1>1 DEF IsListen, Is
  <1>3. LastValue(L, <<"listen">>, NoToken) =
            IF L = {} THEN NoToken
            ELSE config[CHOOSE i \in L : \A j \in L : j <= i].tokens[2]
    <2> DEFINE listens(S) == {i \in S : config[i].tokens[1] = <<"listen">> /\ HasValue(config[i])}
               value(N) == IF N = {} THEN NoToken
                           ELSE config[CHOOSE i \in N : \A j \in N : j <= i].tokens[2]
    <2>1. LastValue(L, <<"listen">>, NoToken) = value(listens(L))
      BY DEF LastValue
    <2>2. listens(L) = L
      BY <1>1, <1>2
    <2> QED
      BY <2>1, <2>2, Zenon
  <1>4. ASSUME NEW i \in L, \A j \in L : j <= i
        PROVE  LastValue(L, <<"listen">>, NoToken) = config[i].tokens[2]
    <2>1. \A k \in L : (\A j \in L : j <= k) => k = i
      BY <1>4
    <2>2. (CHOOSE k \in L : \A j \in L : j <= k) = i
      BY <1>4, <2>1
    <2> QED
      BY <1>3, <2>2
  <1> QED
    BY <1>3, <1>4

\* The statements of the server block when all have been visited.
LEMMA AllVisited ==
    ASSUME RoutingInv, stage = "serving", NEW n, n = Len(config) + 1
    PROVE  /\ n \in Nat /\ \A i \in InServer : i \in 1 .. Len(config) /\ i \in Nat /\ i < n
           /\ ServedBefore(n) = Served
           /\ ListensBefore(n) = {i \in InServer : IsListen(config[i])}
           /\ Extracted(n) /\ locations_ = locations
  <1>1. RoutingTypes /\ ServerFound /\ Extracted(n) /\ locations_ = locations
    BY DEF RoutingInv
  <1>2. Len(config) \in Nat
    BY <1>1, SequenceFacts DEF RoutingTypes
  <1>3. \A i \in InServer : i \in 1 .. Len(config) /\ i \in Nat /\ i < n
    BY <1>1, <1>2, InServerFacts
  <1> QED
    BY <1>1, <1>2, <1>3 DEF ServedBefore, Served, ListensBefore

LEMMA StartsRight ==
    ASSUME RoutingInv PROVE StartsAsConfigured
  <1> SUFFICES ASSUME stage = "serving" PROVE StartsAsConfigured
    BY DEF StartsAsConfigured
  <1>1. RoutingTypes /\ port \in Shorts /\ port # 0 /\ endpoint = AsUnsigned(port)
        /\ locations # <<>>
    BY DEF RoutingInv, RoutingTypes, is_valid
  <1>2. PICK n \in Nat : n = Len(config) + 1
    BY <1>1, SequenceFacts DEF RoutingTypes
  <1>3. /\ \A i \in InServer : i \in 1 .. Len(config) /\ i \in Nat
        /\ ServedBefore(n) = Served
        /\ ListensBefore(n) = {i \in InServer : IsListen(config[i])}
        /\ PortRead(n) /\ Registered(n)
    BY <1>2, AllVisited DEF Extracted
  <1>4. PICK L : L = {i \in InServer : IsListen(config[i])}
    OBVIOUS
  <1>5. PICK token : token = LastValue(L, <<"listen">>, NoToken)
    OBVIOUS
  <1>6. PICK number : number = IF token = NoToken THEN default_port ELSE atoi(token)
    OBVIOUS
  <1>7. number \in 0 .. Wrap - 1 => endpoint = number
    <2>1. CASE L = {} /\ port = default_port
      <3>1. token = NoToken
        BY <1>3, <1>4, <1>5, <2>1, ListenValue
      <3> QED
        BY <1>1, <1>6, <2>1, <3>1, PortFacts
    <2>2. ASSUME NEW i \in L, \A j \in L : j <= i, port = AsShort(atoi(config[i].tokens[2]))
          PROVE  number \in 0 .. Wrap - 1 => endpoint = number
      <3>1. token = config[i].tokens[2]
        BY <1>3, <1>4, <1>5, <2>2, ListenValue
      <3>2. token \in Words
        <4>1. i \in 1 .. Len(config) /\ HasValue(config[i])
          BY <1>3, <1>4 DEF IsListen
        <4> QED
          BY <1>1, <3>1, <4>1, StatementFacts DEF RoutingTypes
      <3>3. number = atoi(token)
        BY <1>6, <3>2 DEF Words, NoToken
      <3> QED
        BY <1>1, <2>2, <3>1, <3>3, PortFacts
    <2> QED
      BY <1>3, <1>4, <2>1, <2>2 DEF PortRead
  <1>8. endpoint # 0
    BY <1>1, PortFacts
  <1>9. Served # {}
    <2>1. 1 \in DOMAIN locations
      BY <1>1, SequenceFacts DEF RoutingTypes
    <2>2. locations[1].path \in DOMAIN _factories
      BY <1>3, <2>1 DEF Registered
    <2> QED
      BY <1>3, <2>2 DEF Registered
  <1> QED
    BY <1>4, <1>5, <1>6, <1>7, <1>8, <1>9 DEF StartsAsConfigured

--------------------------------------------------------------------------------
(* The handler                                                                *)

Dispatched(url) ==
    IF Matches(url) = {} THEN NotFound ELSE GetFactory(locations_[FindBestMatch(url)].path)

DispatchInv == answer # <<>> => \E url \in Urls : answer = <<url, Dispatched(url)>>

LEMMA BestMatch ==
    ASSUME NEW url \in CharSeqs, NEW n \in Nat, DOMAIN locations_ = 1 .. n,
           \A i \in DOMAIN locations_ : locations_[i].path \in CharSeqs,
           Matches(url) # {}
    PROVE  /\ FindBestMatch(url) \in Matches(url)
           /\ \A j \in Matches(url) :
                 Len(locations_[j].path) <= Len(locations_[FindBestMatch(url)].path)
  <1>1. \A i \in Matches(url) :
            /\ i \in Nat
            /\ Len(locations_[i].path) \in Nat
            /\ Len(locations_[i].path) <= Len(url)
    <2>1. ASSUME NEW i \in Matches(url) PROVE Len(locations_[i].path) <= Len(url)
      BY <2>1, PrefixFacts DEF Matches, CharSeqs
    <2> QED
      BY <2>1, SequenceFacts DEF Matches, CharSeqs
  <1>2. PICK l \in Nat : l = Len(url)
    BY SequenceFacts DEF CharSeqs
  <1>3. PICK longest \in Matches(url) :
            \A j \in Matches(url) : Len(locations_[j].path) <= Len(locations_[longest].path)
    <2> DEFINE gaps == {l - Len(locations_[i].path) : i \in Matches(url)}
    <2>1. gaps \in SUBSET Nat
      BY <1>1, <1>2
    <2>2. gaps # {}
      OBVIOUS
    <2>3. PICK g \in gaps : \A h \in gaps : g <= h
      <3> HIDE DEF gaps
      <3> QED
        BY <2>1, <2>2, LeastNumber
    <2>4. PICK i \in Matches(url) : g = l - Len(locations_[i].path)
      BY <2>3
    <2>5. ASSUME NEW j \in Matches(url)
          PROVE  Len(locations_[j].path) <= Len(locations_[i].path)
      <3>1. l - Len(locations_[j].path) \in gaps
        OBVIOUS
      <3>2. l - Len(locations_[i].path) <= l - Len(locations_[j].path)
        BY <2>3, <2>4, <3>1
      <3> QED
        BY <1>1, <1>2, <3>2
    <2> QED
      BY <2>5
  <1>4. PICK best \in Matches(url) :
            /\ Len(locations_[best].path) = Len(locations_[longest].path)
            /\ \A j \in Matches(url) :
                  Len(locations_[j].path) = Len(locations_[longest].path) => best <= j
    <2> DEFINE all == {i \in Matches(url) : Len(locations_[i].path) = Len(locations_[longest].path)}
    <2>1. all \in SUBSET Nat /\ all # {}
      BY <1>1
    <2>2. \E i \in all : \A j \in all : i <= j
      <3> HIDE DEF all
      <3> QED
        BY <2>1, LeastNumber
    <2> QED
      BY <2>2
  <1>5. \A j \in Matches(url) \ {best} : Longer(best, j) \/ (~Longer(j, best) /\ best < j)
    <2>1. ASSUME NEW j \in Matches(url), j # best
          PROVE  Longer(best, j) \/ (~Longer(j, best) /\ best < j)
      <3>1. PICK b, m \in Nat : b = Len(locations_[best].path) /\ m = Len(locations_[j].path)
        BY <1>1
      <3>2. m <= b /\ (m = b => best <= j)
        BY <1>3, <1>4, <3>1
      <3>3. best \in Nat /\ j \in Nat
        BY <1>1
      <3> QED
        BY <2>1, <3>1, <3>2, <3>3 DEF Longer
    <2> QED
      BY <2>1
  <1>6. /\ FindBestMatch(url) \in Matches(url)
        /\ \A j \in Matches(url) \ {FindBestMatch(url)} :
              \/ Longer(FindBestMatch(url), j)
              \/ ~Longer(j, FindBestMatch(url)) /\ FindBestMatch(url) < j
    BY <1>5 DEF FindBestMatch
  <1>7. ASSUME NEW b, b = FindBestMatch(url), NEW j \in Matches(url)
        PROVE  Len(locations_[j].path) <= Len(locations_[b].path)
    <2>1. b \in Matches(url)
      BY <1>6, <1>7, Zenon
    <2>2. j = b \/ Longer(b, j) \/ ~Longer(j, b)
      BY <1>6, <1>7, Zenon
    <2>3. PICK x \in Nat, y \in Nat : x = Len(locations_[j].path) /\ y = Len(locations_[b].path)
      BY <1>1, <2>1
    <2>4. j = b => x = y
      BY <2>3
    <2>5. (Longer(b, j) <=> y > x) /\ (Longer(j, b) <=> x > y)
      BY <2>3 DEF Longer
    <2> QED
      BY <2>2, <2>3, <2>4, <2>5
  <1> QED
    BY <1>6, <1>7

\* A location block serves: its path is a word of the text.
LEMMA ServedFacts ==
    ASSUME RoutingInv, stage = "serving", NEW i \in Served
    PROVE  /\ i \in Nat /\ i \in 1 .. Len(config)
           /\ config[i].tokens[2] \in CharSeqs /\ config[i].tokens[2] # <<>>
           /\ Location(i).path = config[i].tokens[2]
  <1>1. i \in InServer /\ IsLocation(config[i]) /\ RoutingTypes
    BY DEF Served, RoutingInv
  <1>2. i \in Nat /\ i \in 1 .. Len(config)
    BY <1>1, AllVisited
  <1>3. config[i].tokens[2] \in Words
    BY <1>1, <1>2, StatementFacts DEF RoutingTypes, IsLocation
  <1>4. Configured(i, Children(i)).path = config[i].tokens[2]
    BY DEF Configured
  <1> QED
    BY <1>2, <1>3, <1>4 DEF Words, Location

LEMMA ListFacts ==
    ASSUME RoutingInv, stage = "serving"
    PROVE  \E n \in Nat : /\ DOMAIN locations_ = 1 .. n
                          /\ \A k \in 1 .. n : locations_[k].path \in CharSeqs
  <1>1. RoutingTypes /\ locations_ = locations
    BY DEF RoutingInv
  <1>2. PICK n \in Nat : n = Len(locations) /\ DOMAIN locations = 1 .. n
    BY <1>1, SequenceFacts DEF RoutingTypes
  <1>3. ASSUME NEW k \in 1 .. n PROVE locations[k].path \in CharSeqs
    <2>1. PICK m \in Nat : m = Len(config) + 1
      BY <1>1, SequenceFacts DEF RoutingTypes
    <2>2. Registered(m) /\ ServedBefore(m) = Served
      BY <2>1, AllVisited DEF Extracted
    <2>3. PICK i \in Served : config[i].tokens[2] = locations[k].path
      BY <1>2, <2>2 DEF Registered
    <2> QED
      BY <2>3, ServedFacts
  <1> QED
    BY <1>1, <1>2, <1>3

\* The dispatcher's answer for a url, told by the tree of the configuration.
Fits(url) == {i \in Served : IsPrefix(config[i].tokens[2], url)}

LEMMA DispatchedIs ==
    ASSUME RoutingInv, stage = "serving", NEW url \in Urls
    PROVE  /\ Fits(url) = {} => Dispatched(url) = NotFound
           /\ Fits(url) # {} =>
                  \E i \in Fits(url) :
                      /\ Dispatched(url) = Made(Location(i))
                      /\ \A j \in Fits(url) :
                            \/ Len(config[i].tokens[2]) > Len(config[j].tokens[2])
                            \/ config[i].tokens[2] = config[j].tokens[2] /\ i >= j
  <1>1. url \in CharSeqs
    BY TextsAssumption DEF CharSeqs
  <1>2. PICK n : n = Len(config) + 1
    OBVIOUS
  <1>3. Registered(n) /\ ServedBefore(n) = Served /\ locations_ = locations
    BY <1>2, AllVisited DEF Extracted
  <1>4. PICK m \in Nat : /\ DOMAIN locations_ = 1 .. m
                         /\ \A k \in 1 .. m : locations_[k].path \in CharSeqs
    BY ListFacts
  <1>5. ASSUME NEW k \in Matches(url)
        PROVE  \E i \in Fits(url) :
                   /\ config[i].tokens[2] = locations_[k].path
                   /\ locations_[k].path \in DOMAIN _factories
                   /\ _factories[locations_[k].path] = Location(i)
                   /\ \A j \in Served : config[j].tokens[2] = locations_[k].path => j <= i
    <2>1. k \in DOMAIN locations /\ IsPrefix(locations[k].path, url)
      BY <1>3, <1>5 DEF Matches
    <2>2. PICK p : p = locations[k].path /\ p \in DOMAIN _factories
      BY <1>3, <2>1 DEF Registered
    <2>3. PICK i \in Served : /\ config[i].tokens[2] = p /\ _factories[p] = Location(i)
                              /\ \A j \in Served : config[j].tokens[2] = p => j <= i
      BY <1>3, <2>2 DEF Registered
    <2> QED
      BY <1>3, <2>1, <2>2, <2>3 DEF Fits
  <1>6. ASSUME NEW i \in Fits(url)
        PROVE  \E k \in Matches(url) : locations_[k].path = config[i].tokens[2]
    <2>1. i \in Served /\ IsPrefix(config[i].tokens[2], url) /\ config[i].tokens[2] # <<>>
      BY <1>6, ServedFacts DEF Fits
    <2>2. config[i].tokens[2] \in DOMAIN _factories
      BY <1>3, <2>1 DEF Registered
    <2>3. PICK k \in DOMAIN locations : locations[k].path = config[i].tokens[2]
      BY <1>3, <2>2 DEF Registered
    <2> QED
      BY <1>3, <2>1, <2>3 DEF Matches
  <1>7. CASE Fits(url) = {}
    <2>1. Matches(url) = {}
      BY <1>5, <1>7
    <2> QED
      BY <1>7, <2>1 DEF Dispatched
  <1>8. CASE Fits(url) # {}
    <2>1. Matches(url) # {}
      BY <1>6, <1>8
    <2>2. PICK b \in Matches(url) :
              /\ b = FindBestMatch(url)
              /\ \A k \in Matches(url) : Len(locations_[k].path) <= Len(locations_[b].path)
      BY <1>1, <1>4, <2>1, BestMatch
    <2>3. PICK i \in Fits(url) :
              /\ config[i].tokens[2] = locations_[b].path
              /\ locations_[b].path \in DOMAIN _factories
              /\ _factories[locations_[b].path] = Location(i)
              /\ \A j \in Served : config[j].tokens[2] = locations_[b].path => j <= i
      BY <1>5
    <2>4. Dispatched(url) = Made(Location(i))
      BY <2>1, <2>2, <2>3 DEF Dispatched, GetFactory
    <2>5. ASSUME NEW j \in Fits(url)
          PROVE  \/ Len(config[i].tokens[2]) > Len(config[j].tokens[2])
                 \/ config[i].tokens[2] = config[j].tokens[2] /\ i >= j
      <3>1. PICK s \in CharSeqs, t \in CharSeqs :
                /\ s = config[i].tokens[2] /\ t = config[j].tokens[2]
                /\ IsPrefix(s, url) /\ IsPrefix(t, url) /\ j \in Served /\ i \in Nat /\ j \in Nat
        <4>1. i \in Served /\ j \in Served /\ IsPrefix(config[i].tokens[2], url)
              /\ IsPrefix(config[j].tokens[2], url)
          BY DEF Fits
        <4>2. config[i].tokens[2] \in CharSeqs /\ config[j].tokens[2] \in CharSeqs
              /\ i \in Nat /\ j \in Nat
          BY <4>1, ServedFacts
        <4> QED
          BY <4>1, <4>2
      <3>2. Len(t) <= Len(s)
        BY <1>6, <2>2, <2>3, <3>1
      <3>3. CASE Len(t) = Len(s)
        <4>1. s = t
          BY <1>1, <3>1, <3>3, PrefixesOfOneLength DEF CharSeqs
        <4> QED
          BY <2>3, <3>1, <4>1
      <3>4. CASE Len(t) # Len(s)
        <4>1. Len(s) > Len(t)
          BY <3>2, <3>4, SequenceFacts DEF CharSeqs
        <4> QED
          BY <3>1, <4>1
      <3> QED
        BY <3>3, <3>4
    <2> QED
      BY <1>8, <2>4, <2>5
  <1> QED
    BY <1>7, <1>8

LEMMA CallsLongest ==
    ASSUME RoutingInv, DispatchInv PROVE LongestPrefixIsCalled
  <1> SUFFICES ASSUME answer # <<>> PROVE LongestPrefixIsCalled
    BY DEF LongestPrefixIsCalled
  <1>1. stage = "serving"
    BY DEF RoutingInv
  <1>2. PICK url \in Urls : answer = <<url, Dispatched(url)>>
    BY DEF DispatchInv
  <1>3. PICK made : made = Dispatched(url)
    OBVIOUS
  <1>4. answer[1] = url /\ answer[2] = made
    BY <1>2, <1>3
  <1>5. Fits(answer[1]) = {} => answer[2] = NotFound
    BY <1>1, <1>3, <1>4, DispatchedIs
  <1>6. Fits(answer[1]) # {} =>
            \E i \in Fits(answer[1]) :
                /\ answer[2] = Made(Location(i))
                /\ \A j \in Fits(answer[1]) :
                      \/ Len(config[i].tokens[2]) > Len(config[j].tokens[2])
                      \/ config[i].tokens[2] = config[j].tokens[2] /\ i >= j
    BY <1>1, <1>3, <1>4, DispatchedIs
  <1> QED
    BY <1>5, <1>6 DEF LongestPrefixIsCalled, Fits

LEMMA DispatchedStays ==
    ASSUME NEW url, UNCHANGED <<locations_, _factories>>
    PROVE  Dispatched(url)' = Dispatched(url)
  <1>1. Matches(url)' = Matches(url)
    BY DEF Matches
  <1>2. \A i, j : Longer(i, j)' <=> Longer(i, j)
    BY DEF Longer
  <1>3. FindBestMatch(url)' = FindBestMatch(url)
    BY DEF FindBestMatch, Matches, Longer
  <1> QED
    BY <1>1, <1>3 DEF Dispatched, GetFactory

LEMMA DispatchStep ==
    ASSUME RoutingInv, DispatchInv, [Next]_vars PROVE DispatchInv'
  <1>1. CASE answer' = <<>>
    BY <1>1 DEF DispatchInv
  <1>2. ASSUME UNCHANGED <<locations_, _factories>>, answer' = answer
        PROVE  DispatchInv'
    BY <1>2, DispatchedStays DEF DispatchInv
  <1>3. ASSUME NEW url \in Urls, CreateHandler(url) PROVE DispatchInv'
    <2>1. UNCHANGED <<locations_, _factories>> /\ answer' = <<url, Dispatched(url)>>
      BY <1>3 DEF CreateHandler, extractVars, Dispatched
    <2>2. answer' = <<url, Dispatched(url)'>>
      BY <2>1, DispatchedStays
    <2> QED
      BY <2>2 DEF DispatchInv
  <1>4. CASE Configure
    <2>1. answer' = answer
      BY <1>4 DEF Configure, StartUp, ParseTurn, LoadConfig, LoadFails, EnterServerBlock,
                  SkipStatement, ReadListen, EnterLocation, ReadHandler, ReadArg, EndLocation, Start
    <2>2. stage # "serving"
      BY <1>4 DEF Configure, StartUp, ParseTurn, LoadConfig, LoadFails, EnterServerBlock,
                  SkipStatement, ReadListen, EnterLocation, ReadHandler, ReadArg, EndLocation, Start
    <2> QED
      BY <1>1, <2>1, <2>2 DEF RoutingInv
  <1>5. CASE FileStep \/ FileChange \/ Ended \/ UNCHANGED vars
    <2>1. UNCHANGED routingVars
      BY <1>5 DEF FileStep, FileChange, Ended, vars
    <2> QED
      BY <1>2, <2>1 DEF routingVars, dispatchVars
  <1>6. CASE Sent
    BY <1>1, <1>6 DEF Sent, DropHandler
  <1> QED
    BY <1>3, <1>4, <1>5, <1>6 DEF Next, HandleStatic, HandleOther, HandleApi

--------------------------------------------------------------------------------
(* Static files, step by step                                                 *)

LEMMA MadeFacts ==
    ASSUME NEW l
    PROVE  Made(l).handler = <<"StaticHandler">> => Made(l).prefix = l.path
  <1>1. CASE l.handler_name = <<"StaticHandler">>
    <2>1. Made(l) = [handler |-> l.handler_name, prefix |-> l.path, root |-> ArgOrHere(l, "root")]
      BY <1>1 DEF Made
    <2> QED
      BY <2>1
  <1>2. CASE l.handler_name = <<"ApiHandler">>
    <2>1. <<"ApiHandler">> # <<"StaticHandler">>
      OBVIOUS
    <2>2. Made(l) = [handler |-> l.handler_name, prefix |-> l.path,
                     data_path |-> ArgOrHere(l, "data_path")]
      BY <1>2, <2>1 DEF Made
    <2> QED
      BY <1>2, <2>1, <2>2
  <1>3. CASE l.handler_name \notin {<<"StaticHandler">>, <<"ApiHandler">>}
    <2>1. Made(l) = [handler |-> l.handler_name]
      BY <1>3 DEF Made
    <2> QED
      BY <1>3, <2>1
  <1> QED
    BY <1>1, <1>2, <1>3

\* The name a static handler looks at is the one that its url means.
LEMMA StaticMeans ==
    ASSUME RoutingInv, stage = "serving", NEW url \in Urls,
           NEW d, d = Dispatched(url), d.handler = <<"StaticHandler">>,
           NEW r, r = [url |-> url, prefix |-> d.prefix, root |-> d.root]
    PROVE  Meant(r) = <<r.root, RelativePath(r.url, r.prefix)>>
  <1>1. url \in CharSeqs
    BY TextsAssumption DEF CharSeqs
  <1>2. Fits(url) # {}
    <2>1. NotFound.handler = <<"NotFoundHandler">> /\ <<"NotFoundHandler">> # <<"StaticHandler">>
      BY DEF NotFound
    <2> QED
      BY <2>1, DispatchedIs
  <1>3. PICK i \in Served : d = Made(Location(i)) /\ IsPrefix(config[i].tokens[2], url)
    BY <1>2, DispatchedIs DEF Fits
  <1>4. d.prefix = config[i].tokens[2] /\ d.prefix \in CharSeqs
    BY <1>3, MadeFacts, ServedFacts
  <1>5. PICK S : S = Characters \cup {"/"}
    OBVIOUS
  <1>6. \A s \in CharSeqs : s \in Seq(S)
    BY <1>5 DEF CharSeqs
  <1>7. r.url \in Seq(S) /\ r.prefix \in Seq(S) /\ IsPrefix(r.prefix, r.url)
    BY <1>1, <1>3, <1>4, <1>6
  <1> QED
    BY <1>5, <1>7, MeantIsRequested

LEMMA ArrivesLooks ==
    ASSUME NEW r, Arrives(r), Meant(r) = <<r.root, RelativePath(r.url, r.prefix)>>,
           response = NoResponse
    PROVE  Looked(Meant(r))'
  <1>1. PICK name : name = Meant(r)
    OBVIOUS
  <1>2. PICK found \in Finds :
            files' = [path \in {name, Index(name)} \cup DOMAIN Others |->
                         IF path \in DOMAIN Others THEN Others[path]
                         ELSE IF path = name THEN found[1] ELSE found[2]]
    BY <1>1 DEF Arrives
  <1>3. found[1] \in Conditions /\ found[2] \in Conditions
    BY FilesAssumption
  <1>4. Things \subseteq Conditions /\ \A path \in DOMAIN Others : Others[path] \in Things
    BY FilesAssumption DEF Conditions
  <1>5. seen' = [path \in DOMAIN files' |-> {files'[path]}]
    BY DEF Arrives
  <1>6. DOMAIN files' = {name, Index(name)} \cup DOMAIN Others /\ DOMAIN seen' = DOMAIN files'
    BY <1>2, <1>5
  <1>7. ASSUME NEW path \in DOMAIN files'
        PROVE  files'[path] \in Conditions /\ seen'[path] = {files'[path]}
               /\ (path \in DOMAIN Others => files'[path] \in Things)
    BY <1>2, <1>3, <1>4, <1>5, <1>6
  <1>8. FilesHold(name)'
    BY <1>6, <1>7 DEF FilesHold, Conditions, Things
  <1>9. step' = "exists" /\ requested_path' = name /\ response' \in Responses
    BY <1>1 DEF Arrives, Responses
  <1>10. LooksAt(name, step, requested_path)' /\ FileKnown(name, step, requested_path)'
    BY <1>9 DEF LooksAt, FileKnown
  <1>11. Looked(name)'
    BY <1>8, <1>9, <1>10 DEF Looked, Steps, Responses
  <1> QED
    BY <1>1, <1>11

LEMMA LookedAt ==
    ASSUME NEW name, Meant(request') = name, Looked(name)'
    PROVE  Looked(Meant(request))'
  BY ZenonT(60) DEF Looked

LEMMA FilesStay ==
    ASSUME FilesInv, UNCHANGED <<staticVars, answer>> PROVE FilesInv'
  <1>1. UNCHANGED <<files, request, step, requested_path, response, seen, answer>>
    BY DEF staticVars
  <1>2. PICK name : name = Meant(request)
    OBVIOUS
  <1>3. Looked(name) => Looked(name)'
    <2> SUFFICES ASSUME Looked(name) PROVE Looked(name)'
      OBVIOUS
    <2>1. UNCHANGED <<files, seen, request>> /\ response \in Responses /\ step \in Steps \ {"idle"}
      BY <1>1 DEF Looked
    <2> QED
      BY <1>1, <2>1, LookGoesOn DEF Looked
  <1>4. Looked(name) => Looked(Meant(request))'
    BY <1>1, <1>2, <1>3, LookedAt
  <1> QED
    BY <1>1, <1>2, <1>4 DEF FilesInv, IsStatic

LEMMA FileStepLooks ==
    ASSUME FilesInv, FileStep \/ FileChange PROVE FilesInv'
  <1>1. answer' = answer
    BY DEF FileStep, FileChange, routingVars
  <1>2. step \notin {"idle", "done", "thrown"}
    BY DEF FileStep, HandleFile, CheckExists, Canonical, CheckExistsAgain, CheckDirectory,
           CheckIndex, Read, FileChange, FileChanges
  <1>3. IsStatic
    BY <1>2 DEF FilesInv
  <1>4. PICK name : name = Meant(request)
    OBVIOUS
  <1>5. Looked(name)
    BY <1>3, <1>4 DEF FilesInv
  <1>6. request' = request /\ Looked(name)'
    <2>1. CASE CheckExists
      BY <1>5, <2>1, ExistsLooks DEF CheckExists
    <2>2. CASE Canonical
      BY <1>5, <2>2, CanonicalLooks DEF Canonical
    <2>3. CASE CheckExistsAgain
      BY <1>5, <2>3, ExistsAgainLooks DEF CheckExistsAgain
    <2>4. CASE CheckDirectory
      BY <1>5, <2>4, DirectoryLooks DEF CheckDirectory
    <2>5. CASE CheckIndex
      BY <1>5, <2>5, IndexLooks DEF CheckIndex
    <2>6. CASE Read
      BY <1>5, <2>6, ReadLooks DEF Read
    <2>7. CASE FileChange
      <3>1. PICK path \in DOMAIN files, c \in Conditions : FileChanges(path, c)
        BY <2>7 DEF FileChange
      <3> QED
        BY <1>5, <3>1, ChangeLooks DEF FileChanges
    <2> QED
      BY <2>1, <2>2, <2>3, <2>4, <2>5, <2>6, <2>7 DEF FileStep, HandleFile
  <1>7. Looked(Meant(request))'
    BY <1>4, <1>6, LookedAt
  <1>8. step' # "idle" /\ IsStatic'
    BY <1>1, <1>3, <1>6 DEF Looked, IsStatic
  <1> QED
    BY <1>1, <1>7, <1>8 DEF FilesInv, IsStatic

LEMMA FilesStep ==
    ASSUME RoutingInv, FilesInv, [Next]_vars PROVE FilesInv'
  <1>1. CASE Configure
    <2>1. answer' = answer
      BY <1>1 DEF Configure, StartUp, ParseTurn, LoadConfig, LoadFails, EnterServerBlock,
                  SkipStatement, ReadListen, EnterLocation, ReadHandler, ReadArg, EndLocation, Start
    <2> QED
      BY <1>1, <2>1, FilesStay DEF Configure
  <1>2. ASSUME NEW url \in Urls, HandleStatic(url) PROVE FilesInv'
    <2>1. PICK d : d = Dispatched(url)
      OBVIOUS
    <2>2. stage = "serving" /\ answer = <<>> /\ answer' = <<url, d>>
      BY <1>2, <2>1 DEF HandleStatic, CreateHandler, Dispatched
    <2>3. answer' # <<>> /\ answer'[2] = d
      BY <2>2
    <2>4. PICK r : r = [url |-> url, prefix |-> d.prefix, root |-> d.root]
      OBVIOUS
    <2>5. d.handler = <<"StaticHandler">> /\ Arrives(r)
      BY <1>2, <2>3, <2>4 DEF HandleStatic
    <2>6. Meant(r) = <<r.root, RelativePath(r.url, r.prefix)>>
      BY <2>1, <2>2, <2>4, <2>5, StaticMeans
    <2>7. response = NoResponse /\ request' = r /\ step' = "exists"
      BY <2>2, <2>5 DEF FilesInv, Arrives
    <2>8. Looked(Meant(r))'
      BY <2>5, <2>6, <2>7, ArrivesLooks
    <2>9. Looked(Meant(request))'
      BY <2>7, <2>8, LookedAt
    <2>10. IsStatic'
      BY <2>3, <2>5 DEF IsStatic
    <2> QED
      BY <2>3, <2>7, <2>9, <2>10 DEF FilesInv
  <1>3. ASSUME NEW url \in Urls, HandleOther(url) \/ HandleApi(url) PROVE FilesInv'
    <2>1. answer = <<>> /\ answer' # <<>> /\ step = "idle" /\ UNCHANGED <<files, seen>>
          /\ answer'[2].handler # <<"StaticHandler">>
      <3>1. answer = <<>> /\ answer' # <<>> /\ step = "idle" /\ UNCHANGED <<files, seen>>
        BY <1>3 DEF HandleOther, HandleApi, CreateHandler, staticVars
      <3>2. <<"ApiHandler">> # <<"StaticHandler">>
        OBVIOUS
      <3> QED
        BY <1>3, <3>1, <3>2 DEF HandleOther, HandleApi
    <2>2. step' = "done" \/ (step' = "idle" /\ response' = response)
      BY <1>3, <2>1 DEF HandleOther, HandleApi, staticVars
    <2> QED
      BY <2>1, <2>2 DEF FilesInv, IsStatic
  <1>4. CASE FileStep \/ FileChange
    BY <1>4, FileStepLooks
  <1>5. CASE Sent
    BY <1>5 DEF Sent, DropHandler, FilesInv, IsStatic
  <1>6. CASE Ended \/ UNCHANGED vars
    BY <1>6, FilesStay DEF Ended, vars, routingVars
  <1> QED
    BY <1>1, <1>2, <1>3, <1>4, <1>5, <1>6 DEF Next

LEMMA AnswersAreTrue ==
    ASSUME FilesInv PROVE StaticAnswersReflectFiles
  <1> SUFFICES ASSUME IsStatic PROVE AnswersReflectFiles
    BY DEF StaticAnswersReflectFiles, IsStatic
  <1>1. PICK name : name = Meant(request)
    OBVIOUS
  <1>2. Looked(name)
    BY <1>1 DEF FilesInv
  <1>3. step = "done" => Told(name, response) /\ response \in Responses
    BY <1>2 DEF Looked
  <1>4. step = "thrown" => Told(name, Thrown)
    BY <1>2 DEF Looked
  <1>5. CASE step = "done"
    <2>1. response.status = 200 => \E body : response = Ok(body)
      <3>1. NoResponse.status = 0 /\ Forbidden.status = 403 /\ NotFoundResponse.status = 404
        BY DEF NoResponse, Forbidden, NotFoundResponse
      <3>2. \/ response \in {NoResponse, Forbidden, NotFoundResponse}
            \/ \E body \in Contents \cup {""} : response = Ok(body)
        BY <1>3, <1>5 DEF Responses
      <3>3. response \in {NoResponse, Forbidden, NotFoundResponse} => response.status # 200
        BY <3>1
      <3> QED
        BY <3>2, <3>3, Zenon
    <2> QED
      BY <1>1, <1>3, <1>5, <2>1 DEF AnswersReflectFiles, Told, Everything
  <1>6. CASE step = "thrown"
    BY <1>1, <1>4, <1>6 DEF AnswersReflectFiles, Told, Everything
  <1> QED
    BY <1>5, <1>6 DEF AnswersReflectFiles

LEMMA TypesAreRight ==
    ASSUME RoutingInv, FilesInv PROVE TypeOK
  <1>1. \A l \in LocationConfigs(Tokens) : IsLocationConfig(l)
    BY DEF LocationConfigs, IsLocationConfig
  <1>2. RoutingTypeOK
    <2>1. RoutingTypes
      BY DEF RoutingInv
    <2>2. \A k \in DOMAIN locations : locations[k] \in LocationConfigs(Tokens)
      BY <2>1 DEF RoutingTypes
    <2> QED
      BY <1>1, <2>1, <2>2 DEF RoutingTypes, RoutingTypeOK
  <1>3. CASE IsStatic
    <2>1. PICK name : Looked(name)
      BY <1>3 DEF FilesInv
    <2>2. step \in Steps /\ DOMAIN seen = DOMAIN files /\ response \in Responses
          /\ \A n \in DOMAIN files : files[n] \in Conditions
      BY <2>1 DEF Looked, FilesHold
    <2> QED
      BY <1>2, <1>3, <2>2 DEF TypeOK, StaticTypeOK, Responses, IsStatic
  <1>4. CASE ~IsStatic
    <2>1. step \in {"idle", "done"} /\ (answer = <<>> => step = "idle") /\ files = seen
      BY <1>4 DEF FilesInv
    <2> QED
      BY <1>2, <1>4, <2>1 DEF TypeOK, IsStatic, Steps
  <1> QED
    BY <1>3, <1>4

--------------------------------------------------------------------------------
(* The parser in the start-up                                                 *)

GrammarInv == stage = "start" => ParsesGrammar(text, parser)

LEMMA GrammarInit ==
    ASSUME Init PROVE GrammarInv
  <1>1. PICK input \in CharSeqs : input = text
    BY TextsAssumption DEF Init, CharSeqs
  <1>2. ParsesGrammar(input, NewParser(input))
    BY NewParserGrammar
  <1> QED
    BY <1>1, <1>2 DEF Init, GrammarInv

LEMMA GrammarStep ==
    ASSUME RoutingInv, GrammarInv, [Next]_vars PROVE GrammarInv'
  <1>1. CASE Configure
    <2>1. CASE ParseTurn
      <3>1. PICK input, p, q : input = text /\ p = parser /\ q = parser'
        OBVIOUS
      <3>2. /\ stage = "start" /\ p.verdict = "parsing" /\ q = ParseStep(p) /\ text' = input
            /\ input \in CharSeqs /\ ParserOK(p) /\ ParsesGrammar(input, p)
        BY <2>1, <3>1 DEF ParseTurn, RoutingInv, RoutingTypes, GrammarInv
      <3>3. ParsesGrammar(input, q)
        BY <3>2, ParseStepGrammar
      <3> QED
        BY <3>1, <3>2, <3>3 DEF GrammarInv
    <2>2. CASE ~ParseTurn
      <3>1. stage' # "start"
        BY <1>1, <2>2 DEF Configure, StartUp, LoadConfig, LoadFails, EnterServerBlock,
                          SkipStatement, ReadListen, EnterLocation, ReadHandler, ReadArg,
                          EndLocation, Start
      <3> QED
        BY <3>1 DEF GrammarInv
    <2> QED
      BY <2>1, <2>2
  <1>2. CASE ~Configure
    <2>1. UNCHANGED <<stage, text, parser>>
      BY <1>2 DEF Next, vars, routingVars, HandleStatic, HandleOther, HandleApi, CreateHandler,
                  FileStep, FileChange, Sent, DropHandler, Ended
    <2> QED
      BY <2>1 DEF GrammarInv
  <1> QED
    BY <1>1, <1>2

LEMMA AcceptsRight ==
    ASSUME GrammarInv PROVE AcceptsTheGrammar
  BY DEF GrammarInv, ParsesGrammar, ConfigTypes, AcceptsTheGrammar

--------------------------------------------------------------------------------
(* A text without its white space                                             *)

Kept(c) == IF c \in Whitespace THEN <<>> ELSE <<c>>

LEMMA SqueezedAppend ==
    ASSUME NEW S, NEW s \in Seq(S), NEW c \in S
    PROVE  /\ Squeezed(s) \in Seq(S) /\ Squeezed(<<>>) = <<>>
           /\ Squeezed(Append(s, c)) = Squeezed(s) \o Kept(c)
  <1>1. PICK T : T = Seq(S)
    OBVIOUS
  <1>2. PICK l \in Nat : l = Len(s) /\ DOMAIN s = 1 .. l
    OBVIOUS
  <1>3. ASSUME NEW x \in S PROVE Kept(x) \in T
    BY <1>1 DEF Kept
  <1>4. PICK u \in Seq(S) : /\ u = Append(s, c) /\ DOMAIN u = 1 .. l + 1
                            /\ u[l + 1] = c /\ \A n \in 1 .. l : u[n] = s[n]
    <2>1. /\ Append(s, c) \in Seq(S) /\ DOMAIN Append(s, c) = 1 .. Len(s) + 1
          /\ Append(s, c)[Len(s) + 1] = c
          /\ \A n \in 1 .. Len(s) : Append(s, c)[n] = s[n]
      BY AppendFacts
    <2> QED
      BY <1>2, <2>1
  <1>5. \A n \in 1 .. l : s[n] \in S
    BY <1>2
  <1>6. PICK g \in [1 .. l -> T] : g = [n \in 1 .. l |-> Kept(s[n])]
    BY <1>3, <1>5
  <1>7. PICK f \in [1 .. l + 1 -> T] : f = [n \in 1 .. l + 1 |-> Kept(u[n])]
    <2>1. \A n \in 1 .. l + 1 : u[n] \in S
      BY <1>4
    <2> QED
      BY <1>3, <2>1
  <1>8. f = Append(g, Kept(c))
    <2>1. f = Append([i \in 1 .. l |-> f[i]], f[l + 1])
      BY PartsAppend
    <2>2. \A i \in 1 .. l : f[i] = Kept(s[i])
      BY <1>4, <1>7
    <2>3. [i \in 1 .. l |-> f[i]] = g
      BY <1>6, <2>2
    <2>4. f[l + 1] = Kept(c)
      <3>1. l + 1 \in 1 .. l + 1
        BY <1>2
      <3> QED
        BY <1>4, <1>7, <3>1
    <2> QED
      BY <2>1, <2>3, <2>4
  <1>9. g \in Seq(Seq(S)) /\ Kept(c) \in Seq(S)
    <2>1. g \in Seq(T)
      BY SequenceOf
    <2> QED
      BY <1>1, <1>3, <2>1
  <1>10. /\ FlattenSeq(<<>>) = <<>> /\ FlattenSeq(g) \in Seq(S)
         /\ FlattenSeq(Append(g, Kept(c))) = FlattenSeq(g) \o Kept(c)
    BY <1>9, FlattenFacts
  <1>11. \A t : Squeezed(t) = FlattenSeq([n \in DOMAIN t |-> Kept(t[n])])
    BY DEF Squeezed, Kept
  <1>12. Squeezed(s) = FlattenSeq(g)
    BY <1>2, <1>6, <1>11
  <1>13. Squeezed(u) = FlattenSeq(f)
    BY <1>4, <1>7, <1>11
  <1>14. Squeezed(<<>>) = <<>>
    <2>1. [n \in DOMAIN <<>> |-> Kept(<<>>[n])] = <<>>
      OBVIOUS
    <2> QED
      BY <1>10, <1>11, <2>1
  <1> QED
    BY <1>4, <1>8, <1>10, <1>12, <1>13, <1>14

LEMMA SqueezedFacts ==
    ASSUME NEW S, NEW s \in Seq(S)
    PROVE  Squeezed(s) \in Seq(S) /\ Squeezed(<<>>) = <<>>
  <1>1. CASE s = <<>>
    <2>1. Squeezed(<<>>) = <<>>
      <3>1. <<>> \in Seq({0}) /\ 0 \in {0}
        OBVIOUS
      <3> QED
        BY <3>1, SqueezedAppend
    <2> QED
      BY <1>1, <2>1
  <1>2. CASE s # <<>>
    <2>1. 1 \in 1 .. Len(s)
      BY <1>2
    <2>2. s[1] \in S
      BY <2>1
    <2> QED
      BY <2>2, SqueezedAppend
  <1> QED
    BY <1>1, <1>2

\* What stands before the last character of a text, and that character.
LEMMA FrontAndLast ==
    ASSUME NEW S, NEW l \in Nat, NEW s \in Seq(S), Len(s) = l + 1
    PROVE  \E u \in Seq(S), c \in S :
               /\ s = Append(u, c) /\ Len(u) = l /\ \A i \in 1 .. l : u[i] = s[i]
  <1>1. s \in [1 .. l + 1 -> S]
    OBVIOUS
  <1>2. s = Append([i \in 1 .. l |-> s[i]], s[l + 1])
    BY <1>1, PartsAppend
  <1>3. PICK u \in [1 .. l -> S] : u = [i \in 1 .. l |-> s[i]]
    <2>1. \A i \in 1 .. l : s[i] \in S
      BY <1>1
    <2> QED
      BY <2>1
  <1>4. u \in Seq(S) /\ Len(u) = l
    BY SequenceOf
  <1>5. s[l + 1] \in S
    <2>1. l + 1 \in 1 .. l + 1
      OBVIOUS
    <2> QED
      BY <1>1, <2>1
  <1> QED
    BY <1>2, <1>3, <1>4, <1>5

LEMMA JoinAppends ==
    ASSUME NEW S, NEW s \in Seq(S), NEW u \in Seq(S), NEW c \in S
    PROVE  s \o Append(u, c) = Append(s \o u, c) /\ s \o u \in Seq(S)
  OBVIOUS

SqueezesApart(s, t) == Squeezed(s \o t) = Squeezed(s) \o Squeezed(t)

AreThree(S, x, y, z) == x \in Seq(S) /\ y \in Seq(S) /\ z \in Seq(S)

LEMMA JoinThree ==
    ASSUME NEW S, NEW x, NEW y, NEW z, AreThree(S, x, y, z)
    PROVE  (x \o y) \o z = x \o (y \o z)
  BY DEF AreThree

LEMMA SqueezedMore ==
    ASSUME NEW S, NEW s \in Seq(S), NEW v \in Seq(S), NEW c \in S, SqueezesApart(s, v)
    PROVE  SqueezesApart(s, Append(v, c))
  <1>1. s \o Append(v, c) = Append(s \o v, c) /\ s \o v \in Seq(S)
    BY JoinAppends
  <1>2. Squeezed(s \o Append(v, c)) = Squeezed(s \o v) \o Kept(c)
    BY <1>1, SqueezedAppend
  <1>3. Squeezed(Append(v, c)) = Squeezed(v) \o Kept(c)
    BY SqueezedAppend
  <1>4. Squeezed(s) \in Seq(S) /\ Squeezed(v) \in Seq(S) /\ Kept(c) \in Seq(S)
    BY SqueezedFacts DEF Kept
  <1>5. (Squeezed(s) \o Squeezed(v)) \o Kept(c) = Squeezed(s) \o (Squeezed(v) \o Kept(c))
    <2>1. AreThree(S, Squeezed(s), Squeezed(v), Kept(c))
      BY <1>4 DEF AreThree
    <2> QED
      BY <2>1, JoinThree
  <1> QED
    BY <1>2, <1>3, <1>5 DEF SqueezesApart

LEMMA SqueezedJoin ==
    ASSUME NEW S, NEW s \in Seq(S), NEW t \in Seq(S)
    PROVE  SqueezesApart(s, t)
  <1> DEFINE Wrong == {m \in Nat : \E u \in Seq(S) : Len(u) = m /\ ~SqueezesApart(s, u)}
  <1>1. SUFFICES ASSUME Wrong # {} PROVE FALSE
    <2>1. Len(t) \in Nat
      OBVIOUS
    <2> QED
      BY <2>1
  <1>2. PICK m \in Wrong : \A k \in Wrong : m <= k
    <2>1. Wrong \in SUBSET Nat
      OBVIOUS
    <2> HIDE DEF Wrong
    <2> QED
      BY <1>1, <2>1, LeastNumber
  <1>3. PICK u \in Seq(S) : Len(u) = m /\ ~SqueezesApart(s, u)
    BY <1>2
  <1>4. m \in Nat
    BY <1>2
  <1>5. Squeezed(s) \in Seq(S) /\ Squeezed(u) \in Seq(S) /\ Squeezed(<<>>) = <<>>
    BY SqueezedFacts
  <1>6. CASE m = 0
    <2>1. u = <<>>
      BY <1>3, <1>6, SequenceFacts
    <2>2. s \o <<>> = s /\ Squeezed(s) \o <<>> = Squeezed(s)
      BY <1>5, EmptyFacts
    <2> QED
      BY <1>3, <1>5, <2>1, <2>2 DEF SqueezesApart
  <1>7. CASE m # 0
    <2>1. PICK l \in Nat : m = l + 1
      <3>1. m - 1 \in Nat /\ m = (m - 1) + 1
        BY <1>4, <1>7
      <3> QED
        BY <3>1
    <2>2. PICK v \in Seq(S), c \in S :
              u = Append(v, c) /\ Len(v) = l /\ \A i \in 1 .. l : v[i] = u[i]
      <3>1. Len(u) = l + 1
        BY <1>3, <2>1
      <3> QED
        BY <2>1, <3>1, FrontAndLast, Zenon
    <2>3. SqueezesApart(s, v)
      <3>1. l \notin Wrong
        <4>1. ~(m <= l)
          BY <2>1
        <4> HIDE DEF Wrong
        <4> QED
          BY <1>2, <4>1
      <3> QED
        BY <2>2, <3>1
    <2> QED
      BY <1>3, <2>2, <2>3, SqueezedMore
  <1> QED
    BY <1>6, <1>7

LEMMA SqueezedBlank ==
    ASSUME NEW S, NEW s \in Seq(S), IsBlank(s) PROVE Squeezed(s) = <<>>
  <1> DEFINE Wrong == {m \in Nat : \E u \in Seq(S) :
                           Len(u) = m /\ IsBlank(u) /\ Squeezed(u) # <<>>}
  <1>1. SUFFICES ASSUME Wrong # {} PROVE FALSE
    <2>1. Len(s) \in Nat
      OBVIOUS
    <2> QED
      BY <2>1
  <1>2. PICK m \in Wrong : \A k \in Wrong : m <= k
    <2>1. Wrong \in SUBSET Nat
      OBVIOUS
    <2> HIDE DEF Wrong
    <2> QED
      BY <1>1, <2>1, LeastNumber
  <1>3. PICK u \in Seq(S) : Len(u) = m /\ IsBlank(u) /\ Squeezed(u) # <<>>
    BY <1>2
  <1>4. m \in Nat
    BY <1>2
  <1>5. CASE m = 0
    <2>1. u = <<>>
      BY <1>3, <1>5, SequenceFacts
    <2> QED
      BY <1>3, <2>1, SqueezedFacts
  <1>6. CASE m # 0
    <2>1. PICK l \in Nat : m = l + 1
      <3>1. m - 1 \in Nat /\ m = (m - 1) + 1
        BY <1>4, <1>6
      <3> QED
        BY <3>1
    <2>2. PICK v \in Seq(S), c \in S :
              u = Append(v, c) /\ Len(v) = l /\ \A i \in 1 .. l : v[i] = u[i]
      <3>1. Len(u) = l + 1
        BY <1>3, <2>1
      <3> QED
        BY <2>1, <3>1, FrontAndLast, Zenon
    <2>3. IsBlank(v)
      <3>1. ASSUME NEW i \in 1 .. l PROVE v[i] \in Whitespace
        <4>1. i \in 1 .. m
          BY <2>1
        <4> QED
          BY <1>3, <2>2, <4>1 DEF IsBlank
      <3> QED
        BY <2>2, <3>1 DEF IsBlank
    <2>4. c \in Whitespace
      <3>1. u[l + 1] = c /\ l + 1 \in 1 .. m
        BY <2>1, <2>2, AppendFacts
      <3> QED
        BY <1>3, <3>1 DEF IsBlank
    <2>5. Squeezed(v) = <<>>
      <3>1. l \notin Wrong
        <4>1. ~(m <= l)
          BY <2>1
        <4> HIDE DEF Wrong
        <4> QED
          BY <1>2, <4>1
      <3> QED
        BY <2>2, <2>3, <3>1
    <2>6. Squeezed(u) = Squeezed(v) \o Kept(c) /\ Kept(c) = <<>>
      BY <2>2, <2>4, SqueezedAppend DEF Kept
    <2>7. <<>> \o <<>> = <<>>
      OBVIOUS
    <2> QED
      BY <1>3, <2>5, <2>6, <2>7
  <1> QED
    BY <1>5, <1>6

\* Of the text that has no comment, a parser has written what it has read, up to
\* white space; and all of it when it accepts, but for a last word.
WritesText(S, input, p) ==
    /\ p.verdict = "parsing" =>
           \E done \in Seq(S) :
               /\ input = done \o p.input
               /\ "#" \notin ToSet(input) => Squeezed(done) = Squeezed(Written(p))
    /\ p.verdict = "accepted" /\ "#" \notin ToSet(input) /\ Last(input) \in Delimiters =>
           Squeezed(ConfigToString(p.config)) = Squeezed(input)

LEMMA WritesNew ==
    ASSUME NEW S, Signs \subseteq S, NEW input \in Seq(S)
    PROVE  WritesText(S, input, NewParser(input))
  <1>1. NewParser(input).verdict = "parsing" /\ NewParser(input).input = input
    BY DEF NewParser
  <1>2. Written(NewParser(input)) = <<>>
    BY ReadsNew
  <1>3. <<>> \in Seq(S) /\ <<>> \o input = input
    BY EmptyFacts
  <1> QED
    BY <1>1, <1>2, <1>3 DEF WritesText

LEMMA BothHaveIt ==
    ASSUME NEW S, NEW s \in Seq(S), NEW t \in Seq(S), NEW c, c \in ToSet(t)
    PROVE  c \in ToSet(s \o t)
  <1>1. PICK l \in Nat, m \in Nat : l = Len(s) /\ m = Len(t)
    OBVIOUS
  <1>2. PICK i \in 1 .. m : t[i] = c
    BY <1>1 DEF ToSet
  <1>3. PICK u \in Seq(S) : u = s \o t /\ Len(u) = l + m /\ u[l + i] = t[i]
    <2>1. /\ s \o t \in Seq(S) /\ Len(s \o t) = Len(s) + Len(t)
          /\ \A n \in 1 .. Len(t) : (s \o t)[Len(s) + n] = t[n]
      BY JoinFacts
    <2> QED
      BY <1>1, <2>1
  <1>4. l + i \in 1 .. l + m
    OBVIOUS
  <1>5. l + i \in DOMAIN u
    BY <1>3, <1>4
  <1> QED
    BY <1>2, <1>3, <1>5 DEF ToSet

LEMMA LastOfJoined ==
    ASSUME NEW S, NEW s \in Seq(S), NEW t \in Seq(S), t # <<>>
    PROVE  Last(s \o t) = Last(t)
  <1>1. PICK l \in Nat, m \in Nat : l = Len(s) /\ m = Len(t) /\ m # 0
    BY SequenceFacts
  <1>2. m \in 1 .. m
    BY <1>1
  <1>3. Len(s \o t) = l + m /\ (s \o t)[l + m] = t[m]
    BY <1>1, <1>2, JoinFacts
  <1> QED
    BY <1>1, <1>3 DEF Last

\* White space is nothing, before or behind.
SqueezesAround(w, s, v, b) == Squeezed(w \o (s \o (v \o b))) = Squeezed(w) \o Squeezed(v)

LEMMA SqueezedAround ==
    ASSUME NEW S, NEW w, NEW s, NEW v, NEW b, AreTexts(S, w, s, v, b, b), IsBlank(s), IsBlank(b)
    PROVE  SqueezesAround(w, s, v, b)
  <1>0. w \in Seq(S) /\ s \in Seq(S) /\ v \in Seq(S) /\ b \in Seq(S)
    BY DEF AreTexts
  <1>1. v \o b \in Seq(S) /\ s \o (v \o b) \in Seq(S)
    BY <1>0
  <1>2. Squeezed(w \o (s \o (v \o b))) = Squeezed(w) \o Squeezed(s \o (v \o b))
    BY <1>0, <1>1, SqueezedJoin, Zenon DEF SqueezesApart
  <1>3. Squeezed(s \o (v \o b)) = Squeezed(s) \o Squeezed(v \o b)
    BY <1>0, <1>1, SqueezedJoin, Zenon DEF SqueezesApart
  <1>4. Squeezed(v \o b) = Squeezed(v) \o Squeezed(b)
    BY <1>0, SqueezedJoin, Zenon DEF SqueezesApart
  <1>5. Squeezed(s) = <<>> /\ Squeezed(b) = <<>>
    BY <1>0, SqueezedBlank, Zenon
  <1>6. Squeezed(v) \in Seq(S)
    BY <1>0, SqueezedFacts, Zenon
  <1>7. Squeezed(v) \o <<>> = Squeezed(v) /\ <<>> \o Squeezed(v) = Squeezed(v)
    BY <1>6, EmptyFacts
  <1> QED
    BY <1>2, <1>3, <1>4, <1>5, <1>7 DEF SqueezesAround

LEMMA LastTaken ==
    ASSUME NEW S, NEW left \in Seq(S), ParseToken(left).type = "EOF"
    PROVE  \E space \in Seq(S), t \in Seq(S) :
               /\ IsBlank(space) /\ left = space \o t
               /\ t # <<>> => t[1] = "#" \/ \A i \in 1 .. Len(t) : t[i] \notin Delimiters
  <1>1. PICK space \in Seq(S), t \in Seq(S) :
            /\ IsBlank(space) /\ left = space \o t
            /\ t # <<>> => t[1] \notin Whitespace
            /\ ParseToken(left) = ParseText(t)
    BY WhatIsSkipped
  <1>2. t = <<>> \/ t[1] = "#" \/ \A i \in 1 .. Len(t) : t[i] \notin Delimiters
    BY <1>1, ParseTextTakes
  <1> QED
    BY <1>1, <1>2

\* A token that was taken is in what has been read and in what is written.
LEMMA WritesToken ==
    ASSUME NEW S, Signs \subseteq S, NEW input \in Seq(S), NEW p, Builds(S, p),
           p.verdict = "parsing", WritesText(S, input, p),
           NEW token, token = ParseToken(p.input), NEW q, StatementTurn(p, token, q)
    PROVE  WritesText(S, input, q)
  <1>1. /\ token.type \in StatementTypes /\ MayFollow(p, token.type) /\ q = Consume(p, token)
        /\ p.input \in Seq(S)
    BY DEF StatementTurn, Builds
  <1>2. /\ token.value \in Seq(S) /\ token.rest \in Seq(S) /\ HasItsSign(token)
        /\ \E space \in Seq(S) :
               IsBlank(space) /\ p.input = space \o (token.value \o token.rest)
    <2>1. TokenIn(S, p.input, token)
      BY <1>1, TokenTaken, Zenon
    <2> QED
      BY <2>1 DEF TokenIn
  <1>3. Took(p, q, token) /\ Adds(S, p, q, token.value)
    BY <1>1, <1>2, TokenAdds
  <1>4. PICK v \in Seq(S), r \in Seq(S) : v = token.value /\ r = token.rest
    BY <1>2
  <1>5. PICK space \in Seq(S) : IsBlank(space) /\ p.input = space \o (v \o r)
    BY <1>2, <1>4
  <1>6. PICK before \in Seq(S) :
            IsBlank(before) /\ Written(q) = Written(p) \o (before \o (v \o Behind(q)))
    BY <1>3, <1>4 DEF Adds
  <1>7. q.input = r /\ q.verdict = "parsing"
    BY <1>3, <1>4 DEF Took
  <1>8. PICK done \in Seq(S) :
            /\ input = done \o (space \o (v \o r))
            /\ "#" \notin ToSet(input) => Squeezed(done) = Squeezed(Written(p))
    BY <1>5 DEF WritesText
  <1>9. PICK more \in Seq(S) : more = done \o (space \o (v \o <<>>)) /\ input = more \o r
    <2>1. AreTexts(S, done, space, v, <<>>, r)
      BY EmptyFacts DEF AreTexts
    <2>2. /\ (done \o (space \o (v \o <<>>))) \o r = done \o (space \o (v \o (<<>> \o r)))
          /\ done \o (space \o (v \o (<<>> \o r))) \in Seq(S)
      BY <2>1, TextsJoin, Zenon
    <2>3. <<>> \o r = r
      BY EmptyFacts
    <2>4. done \o (space \o (v \o <<>>)) \in Seq(S)
      <3>1. v \o <<>> = v
        BY EmptyFacts
      <3>2. done \o (space \o v) \in Seq(S)
        OBVIOUS
      <3> QED
        BY <3>1, <3>2
    <2> QED
      BY <1>8, <2>2, <2>3, <2>4
  <1>10. Squeezed(more) = Squeezed(done) \o Squeezed(v)
    <2>1. <<>> \in Seq(S) /\ IsBlank(<<>>)
      BY EmptyFacts, BlankFacts
    <2>2. PICK e \in Seq(S) : e = <<>> /\ IsBlank(e)
      BY <2>1
    <2>3. AreTexts(S, done, space, v, e, e)
      BY <2>1 DEF AreTexts
    <2>4. Squeezed(done \o (space \o (v \o e))) = Squeezed(done) \o Squeezed(v)
      <3>1. SqueezesAround(done, space, v, e)
        BY <1>5, <2>2, <2>3, SqueezedAround
      <3> QED
        BY <3>1 DEF SqueezesAround
    <2> QED
      BY <1>9, <2>2, <2>4
  <1>11. Squeezed(Written(q)) = Squeezed(Written(p)) \o Squeezed(v)
    <2>1. PICK b \in Seq(S) : b = Behind(q) /\ IsBlank(b)
      BY BehindFacts
    <2>2. PICK w \in Seq(S) : w = Written(p)
      <3>1. PICK l \in Nat : l = Len(p.config)
        BY DEF Builds
      <3> QED
        BY <3>1, PartsFacts
    <2>3. Squeezed(w \o (before \o (v \o b))) = Squeezed(w) \o Squeezed(v)
      <3>1. AreTexts(S, w, before, v, b, b)
        BY DEF AreTexts
      <3> QED
        <4>1. SqueezesAround(w, before, v, b)
          BY <1>6, <2>1, <3>1, SqueezedAround
        <4> QED
          BY <4>1 DEF SqueezesAround
    <2> QED
      BY <1>6, <2>1, <2>2, <2>3
  <1> QED
    BY <1>7, <1>8, <1>9, <1>10, <1>11 DEF WritesText

\* Behind the last token there is nothing but white space.
LEMMA WritesEnd ==
    ASSUME NEW S, Signs \subseteq S, NEW input \in Seq(S), NEW p, Builds(S, p),
           p.verdict = "parsing", WritesText(S, input, p), ReadsBack(S, p),
           NEW token, token = ParseToken(p.input), NEW q, EndTurn(p, token, q)
    PROVE  WritesText(S, input, q)
  <1>1. /\ token.type = "EOF" /\ MayFollow(p, "EOF") /\ q.verdict = "accepted"
        /\ q.config = p.config /\ p.input \in Seq(S)
    BY DEF EndTurn, Builds
  <1>2. SUFFICES ASSUME "#" \notin ToSet(input), Last(input) \in Delimiters
                 PROVE  Squeezed(ConfigToString(p.config)) = Squeezed(input)
    BY <1>1 DEF WritesText
  <1>3. ConfigToString(p.config) = Written(p)
    BY <1>1, EndReached
  <1>4. PICK done \in Seq(S) :
            input = done \o p.input /\ Squeezed(done) = Squeezed(Written(p))
    BY <1>2 DEF WritesText
  <1>5. PICK space \in Seq(S), t \in Seq(S) :
            /\ IsBlank(space) /\ p.input = space \o t
            /\ t # <<>> => t[1] = "#" \/ \A i \in 1 .. Len(t) : t[i] \notin Delimiters
    BY <1>1, LastTaken, Zenon
  <1>6. PICK before \in Seq(S) : before = done \o space /\ input = before \o t
    <2>1. (done \o space) \o t = done \o (space \o t) /\ done \o space \in Seq(S)
      OBVIOUS
    <2> QED
      BY <1>4, <1>5, <2>1
  <1>7. t = <<>>
    <2>1. SUFFICES ASSUME t # <<>> PROVE FALSE
      OBVIOUS
    <2>2. PICK l \in Nat : /\ l = Len(t) /\ 1 \in 1 .. l /\ l \in 1 .. l
                            /\ DOMAIN t = 1 .. l
      BY <2>1, SequenceFacts
    <2>3. t[1] = "#" \/ \A i \in 1 .. Len(t) : t[i] \notin Delimiters
      BY <1>5, <2>1
    <2>4. t[1] # "#"
      <3>1. t[1] \in ToSet(t)
        BY <2>2 DEF ToSet
      <3> QED
        BY <1>2, <1>6, <3>1, BothHaveIt
    <2>5. Last(input) = t[l]
      BY <1>6, <2>1, <2>2, LastOfJoined DEF Last
    <2> QED
      BY <1>2, <2>2, <2>3, <2>4, <2>5
  <1>8. input = done \o space
    BY <1>6, <1>7, EmptyFacts
  <1>9. Squeezed(done \o space) = Squeezed(done) \o Squeezed(space)
    BY SqueezedJoin, Zenon DEF SqueezesApart
  <1>10. Squeezed(space) = <<>> /\ Squeezed(done) \in Seq(S)
    BY <1>5, SqueezedBlank, SqueezedFacts, Zenon
  <1>11. Squeezed(done) \o <<>> = Squeezed(done)
    BY <1>10, EmptyFacts
  <1> QED
    BY <1>3, <1>4, <1>8, <1>9, <1>10, <1>11

LEMMA WritesComment ==
    ASSUME NEW S, NEW input \in Seq(S), NEW p, Builds(S, p),
           p.verdict = "parsing", WritesText(S, input, p),
           NEW token, token = ParseToken(p.input), NEW q, CommentTurn(p, token, q)
    PROVE  WritesText(S, input, q)
  <1>1. token.type = "COMMENT" /\ q = Before(p, token.rest) /\ p.input \in Seq(S)
    BY DEF CommentTurn, Builds
  <1>2. /\ token.rest \in Seq(S)
        /\ \E before \in Seq(S) : p.input = before \o token.rest /\ "#" \in ToSet(p.input)
    BY <1>1, CommentFacts
  <1>3. PICK r \in Seq(S), before \in Seq(S) :
            r = token.rest /\ p.input = before \o r /\ "#" \in ToSet(before \o r)
    BY <1>2
  <1>4. PICK done \in Seq(S) : input = done \o (before \o r)
    BY <1>3 DEF WritesText
  <1>5. (done \o before) \o r = done \o (before \o r) /\ done \o before \in Seq(S)
    OBVIOUS
  <1>6. "#" \in ToSet(input)
    <2>1. before \o r \in Seq(S)
      OBVIOUS
    <2> QED
      BY <1>3, <1>4, <2>1, BothHaveIt
  <1>7. q.input = r /\ q.verdict = "parsing"
    BY <1>1, <1>3 DEF Before, Builds
  <1> QED
    BY <1>4, <1>5, <1>6, <1>7 DEF WritesText

LEMMA WritesStep ==
    ASSUME NEW S, Signs \subseteq S, NEW input \in Seq(S), NEW p, p.verdict = "parsing",
           Parsed(S, p), WritesText(S, input, p)
    PROVE  WritesText(S, input, ParseStep(p))
  <1>1. Builds(S, p) /\ ReadsBack(S, p)
    BY DEF Parsed
  <1>2. PICK token, q : token = ParseToken(p.input) /\ q = ParseStep(p)
    OBVIOUS
  <1>3. CASE CommentTurn(p, token, q)
    BY <1>1, <1>2, <1>3, WritesComment
  <1>4. CASE StatementTurn(p, token, q)
    BY <1>1, <1>2, <1>4, WritesToken
  <1>5. CASE EndTurn(p, token, q)
    BY <1>1, <1>2, <1>5, WritesEnd
  <1>6. CASE q.verdict = "rejected"
    BY <1>2, <1>6 DEF WritesText
  <1> QED
    BY <1>1, <1>2, <1>3, <1>4, <1>5, <1>6, TurnFacts

--------------------------------------------------------------------------------
(* The configuration is the text                                              *)

\* The texts, and what ToString adds to what is in them.
WithSigns == Characters \cup Signs

TextInv == stage = "start" => Parsed(WithSigns, parser) /\ WritesText(WithSigns, text, parser)

LEMMA TextHasSigns ==
    ASSUME NEW s \in CharSeqs PROVE s \in Seq(WithSigns) /\ Signs \subseteq WithSigns
  BY DEF CharSeqs, WithSigns

LEMMA TextInit ==
    ASSUME Init PROVE TextInv
  <1>1. PICK input \in CharSeqs : input = text
    BY TextsAssumption DEF Init, CharSeqs
  <1>2. input \in Seq(WithSigns) /\ Signs \subseteq WithSigns
    BY TextHasSigns
  <1>3. PICK S : S = WithSigns
    OBVIOUS
  <1>4. Parsed(S, NewParser(input)) /\ WritesText(S, input, NewParser(input))
    BY <1>2, <1>3, ParsedNew, WritesNew
  <1> QED
    BY <1>1, <1>3, <1>4 DEF Init, TextInv

LEMMA TextStep ==
    ASSUME RoutingInv, TextInv, [Next]_vars PROVE TextInv'
  <1>1. CASE Configure
    <2>1. CASE ParseTurn
      <3>1. PICK input, p, q : input = text /\ p = parser /\ q = parser'
        OBVIOUS
      <3>2. PICK S : S = WithSigns
        OBVIOUS
      <3>3. /\ stage = "start" /\ p.verdict = "parsing" /\ q = ParseStep(p) /\ text' = input
            /\ input \in CharSeqs /\ Parsed(S, p) /\ WritesText(S, input, p)
        BY <2>1, <3>1, <3>2 DEF ParseTurn, RoutingInv, RoutingTypes, TextInv
      <3>4. input \in Seq(S) /\ Signs \subseteq S
        BY <3>2, <3>3, TextHasSigns
      <3>5. Parsed(S, q) /\ WritesText(S, input, q)
        BY <3>3, <3>4, ParsedStep, WritesStep
      <3>6. WithSigns' = S
        BY <3>2 DEF WithSigns, Signs, Characters
      <3> QED
        BY <3>1, <3>3, <3>5, <3>6 DEF TextInv
    <2>2. CASE ~ParseTurn
      <3>1. stage' # "start"
        BY <1>1, <2>2 DEF Configure, StartUp, LoadConfig, LoadFails, EnterServerBlock,
                          SkipStatement, ReadListen, EnterLocation, ReadHandler, ReadArg,
                          EndLocation, Start
      <3> QED
        BY <3>1 DEF TextInv
    <2> QED
      BY <2>1, <2>2
  <1>2. CASE ~Configure
    <2>1. UNCHANGED <<stage, text, parser>>
      BY <1>2 DEF Next, vars, routingVars, HandleStatic, HandleOther, HandleApi, CreateHandler,
                  FileStep, FileChange, Sent, DropHandler, Ended
    <2> QED
      BY <2>1 DEF TextInv
  <1> QED
    BY <1>1, <1>2

LEMMA WritesRight ==
    ASSUME TextInv PROVE ConfigIsTheText
  BY DEF TextInv, Parsed, WritesText, ConfigIsTheText

--------------------------------------------------------------------------------
(* The theorems                                                               *)

SiteInv == RoutingInv /\ GrammarInv /\ TextInv /\ DispatchInv /\ FilesInv

LEMMA Invariant == Spec => []SiteInv
  <1>1. SiteInit => SiteInv
    <2>1. SiteInit => RoutingInv /\ GrammarInv /\ TextInv
      BY RoutingInit, GrammarInit, TextInit DEF SiteInit
    <2>2. SiteInit => DispatchInv /\ FilesInv
      BY DEF SiteInit, Init, FilesInit, DispatchInv, FilesInv, IsStatic
    <2> QED
      BY <2>1, <2>2 DEF SiteInv
  <1>2. SiteInv /\ [Next]_vars => SiteInv'
    BY RoutingStep, GrammarStep, TextStep, DispatchStep, FilesStep DEF SiteInv
  <1> QED
    BY <1>1, <1>2, PTL DEF Spec

\* What is read of a configuration, and what a static request holds, have their
\* types: the port fits a short whatever number atoi reads, what the locations
\* hold are words of the text, every factory stands under its own path.
THEOREM TypeCorrect == Spec => []TypeOK
  <1>1. SiteInv => TypeOK
    BY TypesAreRight DEF SiteInv
  <1> QED
    BY <1>1, Invariant, PTL

\* NginxConfigParser's loop looks at a token, the type of the one before it and
\* the height of config_stack: it accepts a file of any size exactly when its
\* tokens are derived from the grammar, statements with blocks of statements; a
\* word that the file ends in, behind them, is lost and changes nothing.
THEOREM GrammarAccepted == Spec => []AcceptsTheGrammar
  <1>1. SiteInv => AcceptsTheGrammar
    BY AcceptsRight DEF SiteInv
  <1> QED
    BY <1>1, Invariant, PTL

\* NginxConfig::ToString writes the tree that Parse has made, indented, with a
\* statement to a line: for a file of any size, whatever its words, quotes and
\* blocks, that is the text but for white space, and Parse makes the same tree of
\* it again.
THEOREM ConfigRoundTrip == Spec => []ConfigIsTheText
  <1>1. SiteInv => ConfigIsTheText
    BY WritesRight DEF SiteInv
  <1> QED
    BY <1>1, Invariant, PTL

\* ServerConfig keeps the port in a short and the acceptor takes it as an
\* unsigned one: the server listens on every port that a configuration names,
\* or the default, never on 0, and only with a location to serve.
THEOREM StartsWithItsPort == Spec => []StartsAsConfigured
  <1>1. SiteInv => StartsAsConfigured
    BY StartsRight DEF SiteInv
  <1> QED
    BY <1>1, Invariant, PTL

\* RequestDispatcher finds the first of the longest paths in its list and
\* HandlerRegistry the factory of that path in its map: together they find the
\* last block of the configuration with the longest prefix of the url.
THEOREM LongestPrefix == Spec => []LongestPrefixIsCalled
  <1>1. SiteInv => LongestPrefixIsCalled
    BY CallsLongest DEF SiteInv
  <1> QED
    BY <1>1, Invariant, PTL

\* FileRequestHandler checks a name three times, at two paths, and opens it later:
\* whatever changes in between, links included, the answer is one that the files
\* gave reason for, the answer of the files when nothing changes, and none with 200
\* if the name led to a path that does not begin like the root's all the time.
THEOREM StaticAnswersAreTrue == Spec => []StaticAnswersReflectFiles
  <1>1. SiteInv => StaticAnswersReflectFiles
    BY AnswersAreTrue DEF SiteInv
  <1> QED
    BY <1>1, Invariant, PTL

================================================================================
