------------------------------ MODULE StaticFiles ------------------------------
(******************************************************************************)
(* FileRequestHandler (src/request_handler_file.cc).  Each look at the file   *)
(* system is a step of its own, and others may change a file between two.     *)
(* Requests share nothing but the files, so there is one.                     *)
(*                                                                            *)
(* A path is in one of several conditions: a file with a content; a           *)
(* directory; nothing; a file that cannot be opened; one about which the      *)
(* system cannot tell (status fails with an error); or it leads elsewhere, by *)
(* a link, by .. or from a second slash on.  Paths are <<directory, relative  *)
(* path>>, with a third element for what is in a directory; base_dir_ stands  *)
(* for its canonical path.                                                    *)
(******************************************************************************)
EXTENDS Integers, Sequences, SequencesExt

CONSTANTS
    Contents,           \* contents of files
    Others,             \* paths that requests may lead to, each with its condition
    Finds,              \* pairs of conditions a name and its index.html may be in
    MaxFileChanges      \* bound on changes while a request is handled

File(content) == [is |-> "file", content |-> content]
Directory == [is |-> "directory"]
Absent == [is |-> "absent"]
Unreadable == [is |-> "unreadable"]
Unknown == [is |-> "unknown"]
LeadsTo(path) == [is |-> "elsewhere", path |-> path]

\* What is behind a path when it leads to no other one.
Things == {File(content) : content \in Contents}
              \cup {Directory, Absent, Unreadable, Unknown}
Conditions == Things \cup {LeadsTo(path) : path \in DOMAIN Others}

ASSUME FilesAssumption ==
    /\ MaxFileChanges \in Nat
    /\ \A path \in DOMAIN Others : Others[path] \in Things
    /\ Finds \subseteq Conditions \X Conditions

VARIABLES
    files,              \* the conditions of the paths
    file_changes,
    request,            \* url, url_prefix_ and base_dir_
    step,               \* where handle_request is
    requested_path,
    response

\* Ghost: the conditions each path was in since the request came.
VARIABLE seen

staticVars == <<files, file_changes, request, step, requested_path, response, seen>>

Steps == {"idle", "exists", "canonical", "exists_again", "is_directory", "index",
          "read", "done", "thrown"}

NoResponse == [status |-> 0]
Ok(body) == [status |-> 200, body |-> body]
Forbidden == [status |-> 403]
NotFoundResponse == [status |-> 404]

\* Links and .. followed: the path itself, if it does not lead elsewhere.
Leads(path) ==
    IF path \in DOMAIN files /\ files[path].is = "elsewhere" THEN files[path].path ELSE path

\* What the system finds behind a path; what nobody has put anywhere is absent.
Condition(path) ==
    LET end == Leads(path)
    IN  IF end \in DOMAIN files THEN files[end] ELSE Absent

Index(path) == Append(path, "index.html")

FilesInit ==
    /\ files = <<>>
    /\ file_changes = 0
    /\ request = <<>>
    /\ step = "idle"
    /\ requested_path = <<>>
    /\ response = NoResponse
    /\ seen = <<>>

--------------------------------------------------------------------------------
RelativePath(url, prefix) ==
    LET rest == IF IsPrefix(prefix, url) THEN SubSeq(url, Len(prefix) + 1, Len(url)) ELSE url
        tail == IF rest # <<>> /\ rest[1] = "/" THEN Tail(rest) ELSE rest
    IN  IF tail = <<>> THEN <<".">> ELSE tail

\* The rest of a url that its prefix starts, less one slash: what a reader of
\* the configuration expects the request to be about.
Meant(r) ==
    LET rests == {p \in Suffixes(r.url) : \/ r.prefix \o p = r.url /\ (p = <<>> \/ p[1] # "/")
                                          \/ r.prefix \o <<"/">> \o p = r.url}
        rest == CHOOSE p \in rests : TRUE
    IN  <<r.root, IF rest = <<>> THEN <<".">> ELSE rest>>

\* The request comes, and only the name it means, the index.html of it and what
\* they lead to can matter.
Arrives(r) ==
    /\ step = "idle"
    /\ request' = r
    /\ step' = "exists"
    /\ requested_path' = <<r.root, RelativePath(r.url, r.prefix)>>
    /\ \E found \in Finds :
          files' = [path \in {Meant(r), Index(Meant(r))} \cup DOMAIN Others |->
                        IF path \in DOMAIN Others THEN Others[path]
                        ELSE IF path = Meant(r) THEN found[1] ELSE found[2]]
    /\ seen' = [path \in DOMAIN files' |-> {files'[path]}]
    /\ UNCHANGED <<file_changes, response>>

\* Somebody else's doing; what paths lead to leads nowhere itself, and what is at
\* index.html changes on its own, also when the way there does.
FileChanges(path, c) ==
    /\ step \notin {"idle", "done", "thrown"}
    /\ file_changes < MaxFileChanges
    /\ files[path] # c
    /\ path \in DOMAIN Others => c \in Things
    /\ files' = [files EXCEPT ![path] = c]
    /\ file_changes' = file_changes + 1
    /\ seen' = [seen EXCEPT ![path] = @ \cup {c}]
    /\ UNCHANGED <<request, step, requested_path, response>>

Go(next) == step' = next /\ UNCHANGED <<requested_path, response>>
Answer(r) == step' = "done" /\ response' = r /\ UNCHANGED requested_path

\* exists() throws when it cannot tell, and here nothing catches it.
CheckExists ==
    /\ step = "exists"
    /\ CASE Condition(requested_path) = Absent -> Answer(NotFoundResponse)
         [] Condition(requested_path) = Unknown -> Go("thrown")
         [] OTHER -> Go("canonical")
    /\ UNCHANGED <<files, file_changes, request, seen>>

\* From here on every error of the file system is caught.
Gone == Condition(requested_path) \in {Absent, Unknown}

\* Bug that AnswersReflectFiles catches: the path is made absolute only.
absolute(path) == path

canonical(path) == Leads(path)

\* The text of the root's canonical path is where the path's begins, as it is for
\* what is in the root, and for what is in a directory named like it and longer.
BeginsLikeRoot(path) == IsPrefix(request.root, path[1])

\* From here on requested_path is where the name has led to.
Canonical ==
    /\ step = "canonical"
    /\ LET path == canonical(requested_path)
       IN  \/ Gone /\ Answer(NotFoundResponse)
           \/ ~Gone /\ ~BeginsLikeRoot(path) /\ Answer(Forbidden)
           \/ /\ ~Gone /\ BeginsLikeRoot(path)
              /\ step' = "exists_again"
              /\ requested_path' = path
              /\ UNCHANGED response
    /\ UNCHANGED <<files, file_changes, request, seen>>

CheckExistsAgain ==
    /\ step = "exists_again"
    /\ IF Gone THEN Answer(NotFoundResponse) ELSE Go("is_directory")
    /\ UNCHANGED <<files, file_changes, request, seen>>

\* What is absent is not a directory.
CheckDirectory ==
    /\ step = "is_directory"
    /\ CASE Condition(requested_path) = Unknown -> Answer(NotFoundResponse)
         [] Condition(requested_path) = Directory ->
                /\ step' = "index"
                /\ requested_path' = Index(requested_path)
                /\ UNCHANGED response
         [] OTHER -> Go("read")
    /\ UNCHANGED <<files, file_changes, request, seen>>

\* Where index.html leads to is not looked at.
CheckIndex ==
    /\ step = "index"
    /\ IF Gone THEN Answer(NotFoundResponse) ELSE Go("read")
    /\ UNCHANGED <<files, file_changes, request, seen>>

\* What cannot be opened, or cannot be read, has an empty content.
read_file(c) == IF c.is = "file" THEN c.content ELSE ""

Read ==
    /\ step = "read"
    /\ Answer(Ok(read_file(Condition(requested_path))))
    /\ UNCHANGED <<files, file_changes, request, seen>>

HandleFile ==
    \/ CheckExists \/ Canonical \/ CheckExistsAgain
    \/ CheckDirectory \/ CheckIndex \/ Read

--------------------------------------------------------------------------------
(* Properties                                                                 *)

StaticTypeOK ==
    /\ step \in Steps
    /\ \A path \in DOMAIN files : files[path] \in Conditions
    /\ DOMAIN seen = DOMAIN files
    /\ response \in {NoResponse, Forbidden, NotFoundResponse}
                        \cup {Ok(body) : body \in Contents \cup {""}}

Thrown == [exception |-> "filesystem_error"]

\* Nothing has changed since the request came.
Calm == \A path \in DOMAIN seen : seen[path] = {files[path]}

\* The answer for a name when nothing changes.
Undisturbed(name) ==
    LET here == Condition(name)
        index == Condition(Index(Leads(name)))
    IN  IF here = Unknown THEN Thrown
        ELSE IF here = Absent THEN NotFoundResponse
        ELSE IF ~BeginsLikeRoot(Leads(name)) THEN Forbidden
        ELSE IF here # Directory THEN Ok(read_file(here))
        ELSE IF index \in {Absent, Unknown} THEN NotFoundResponse
        ELSE Ok(read_file(index))

Seen(path) == IF path \in DOMAIN seen THEN seen[path] ELSE {Absent}

\* The paths that this one was or led to, the conditions a look at it could meet,
\* and the index.html of each of them at which it could meet a directory.
Ends(path) == {path} \cup {end \in DOMAIN Others : LeadsTo(end) \in Seen(path)}
Met(path) == UNION {Seen(end) : end \in Ends(path)}
Indexes(path) == {Index(end) : end \in {e \in Ends(path) : Directory \in Met(e)}}

\* At some moment the name was in its place, or led to a path that begins with the
\* root's.
Admitted(name) ==
    \E c \in Seen(name) : c.is = "elsewhere" => BeginsLikeRoot(c.path)

\* A static file's answer tells of the name that the url means, as it was at some
\* moment of the request or, when there were changes under way, at several: a
\* content only if the name, what it led to, or the index.html in one of them that
\* was a directory, had it; an empty body with 200 only if that is the content or
\* there was nothing to be read; 404 only if there was nothing or nothing could be
\* told; 403 only if the name led to a path that does not begin like the root's,
\* and an answer with 200 only if it did not do so all the time; and an exception
\* leaves the handler only if the system could not tell.  The handler checks three
\* times, at two paths, and opens later, and each time treats errors differently.
\* Links to paths that only begin like the root's, and those at index.html, are
\* followed, and a file that goes before it is opened is answered as empty.
AnswersReflectFiles ==
    step \in {"done", "thrown"} =>
        LET name == Meant(request)
            outcome == IF step = "thrown" THEN Thrown ELSE response
            conditions == Met(name) \cup UNION {Met(index) : index \in Indexes(name)}
            Was(C) == conditions \cap C # {}
        IN  /\ Calm => outcome = Undisturbed(name)
            /\ outcome = Thrown => Unknown \in Met(name)
            /\ outcome = NotFoundResponse => Was({Absent, Unknown})
            /\ outcome = Forbidden => \E end \in Ends(name) : ~BeginsLikeRoot(end)
            /\ outcome = Ok("") => Was({Directory, Absent, Unreadable, Unknown, File("")})
            /\ \A body \in Contents \ {""} : outcome = Ok(body) => Was({File(body)})
            /\ step = "done" /\ response.status = 200 => Admitted(name)
================================================================================
