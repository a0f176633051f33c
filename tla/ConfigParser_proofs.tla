-------------------------- MODULE ConfigParser_proofs --------------------------
(******************************************************************************)
(* ToString and Parse: what was read is written so that it is read again.     *)
(******************************************************************************)
EXTENDS ConfigParser, WellFoundedInduction, TLAPS

--------------------------------------------------------------------------------
(* Sequences                                                                  *)

LEMMA LeastNumber ==
    ASSUME NEW S \in SUBSET Nat, S # {}
    PROVE  \E m \in S : \A n \in S : m <= n
  <1> DEFINE Below == OpToRel(<, Nat)
  <1>1. IsWellFoundedOn(Below, Nat)
    BY NatLessThanWellFounded
  <1>2. \A m, n \in Nat : <<n, m>> \in Below <=> n < m
    BY DEF OpToRel
  <1> HIDE DEF Below
  <1>3. \E m \in S : \A n \in S : <<n, m>> \notin Below
    BY <1>1, WFMin
  <1>4. \E m \in S : \A n \in S : ~(n < m)
    BY <1>2, <1>3, Zenon
  <1> QED
    BY <1>4

\* A property of some number up to n holds first of some number.
LEMMA FirstNumber ==
    ASSUME NEW S \in SUBSET Nat, NEW n \in S
    PROVE  \E m \in S : m <= n /\ \A k \in Nat : k < m => k \notin S
  <1>1. PICK m \in S : \A k \in S : m <= k
    BY LeastNumber
  <1>2. m \in Nat /\ n \in Nat /\ m <= n
    BY <1>1
  <1> QED
    BY <1>1, <1>2

\* Min and SelectInSeq find what there is to find.
LEMMA MinIsLeast ==
    ASSUME NEW S \in SUBSET Nat, S # {}
    PROVE  Min(S) \in S /\ \A n \in S : Min(S) <= n
  <1>1. \E m \in S : \A n \in S : m <= n
    BY LeastNumber
  <1> QED
    BY <1>1 DEF Min

LEMMA SequenceFacts ==
    ASSUME NEW S, NEW s \in Seq(S)
    PROVE  /\ Len(s) \in Nat /\ DOMAIN s = 1 .. Len(s)
           /\ \A n \in 1 .. Len(s) : s[n] \in S
           /\ Len(s) = 0 <=> s = <<>>
  OBVIOUS

LEMMA SubSeqFacts ==
    ASSUME NEW S, NEW s \in Seq(S), NEW m \in 1 .. Len(s) + 1, NEW n \in 0 .. Len(s)
    PROVE  /\ SubSeq(s, m, n) \in Seq(S)
           /\ Len(SubSeq(s, m, n)) = IF m <= n THEN n - m + 1 ELSE 0
           /\ m <= n => SubSeq(s, m, n)[1] = s[m]
           /\ \A i \in 1 .. n - m + 1 : SubSeq(s, m, n)[i] = s[m + i - 1]
  OBVIOUS

LEMMA AppendFacts ==
    ASSUME NEW S, NEW s \in Seq(S), NEW x \in S
    PROVE  /\ Append(s, x) \in Seq(S) /\ Append(s, x) # <<>>
           /\ DOMAIN Append(s, x) = 1 .. Len(s) + 1 /\ Len(Append(s, x)) = Len(s) + 1
           /\ Append(s, x)[Len(s) + 1] = x
           /\ \A n \in 1 .. Len(s) : Append(s, x)[n] = s[n]
  OBVIOUS

LEMMA JoinFacts ==
    ASSUME NEW S, NEW s \in Seq(S), NEW u \in Seq(S)
    PROVE  /\ s \o u \in Seq(S) /\ Len(s \o u) = Len(s) + Len(u)
           /\ \A n \in 1 .. Len(s) : (s \o u)[n] = s[n]
           /\ \A n \in 1 .. Len(u) : (s \o u)[Len(s) + n] = u[n]
  OBVIOUS

LEMMA SameSequence ==
    ASSUME NEW S, NEW s \in Seq(S), NEW u \in Seq(S), Len(s) = Len(u),
           \A n \in 1 .. Len(s) : s[n] = u[n]
    PROVE  s = u
  OBVIOUS

\* A prefix, element by element.
LEMMA PrefixFacts ==
    ASSUME NEW S, NEW s \in Seq(S), NEW t \in Seq(S)
    PROVE  IsPrefix(s, t) <=> Len(s) <= Len(t) /\ \A n \in 1 .. Len(s) : s[n] = t[n]
  <1>1. SubSeq(s, 1, Len(s)) = s
    OBVIOUS
  <1>2. ASSUME Len(s) <= Len(t)
        PROVE  s = SubSeq(t, 1, Len(s)) <=> \A n \in 1 .. Len(s) : s[n] = t[n]
    <2>1. PICK u \in Seq(S) : u = SubSeq(t, 1, Len(s))
      <3>1. 1 \in 1 .. Len(t) + 1 /\ Len(s) \in 0 .. Len(t)
        BY <1>2
      <3> QED
        BY <3>1, SubSeqFacts
    <2>2. Len(u) = Len(s) /\ \A n \in 1 .. Len(s) : u[n] = t[n]
      BY <1>2, <2>1
    <2> QED
      BY <2>1, <2>2, SameSequence
  <1> QED
    BY <1>1, <1>2 DEF IsPrefix

\* Two prefixes of the same length are the same.
LEMMA PrefixesOfOneLength ==
    ASSUME NEW S, NEW s \in Seq(S), NEW u \in Seq(S), NEW t \in Seq(S),
           IsPrefix(s, t), IsPrefix(u, t), Len(s) = Len(u)
    PROVE  s = u
  BY PrefixFacts, SameSequence

--------------------------------------------------------------------------------
(* Recursion over the numbers up to l                                         *)

\* f has what step gives, beginning with x.
Iterates(f, x, step, l) ==
    f[0] = x /\ \A n \in 1 .. l : f[n] = step[n][f[n - 1]]

LEMMA IterationExists ==
    ASSUME NEW X, NEW x \in X, NEW l \in Nat, NEW step \in [1 .. l -> [X -> X]]
    PROVE  \E f \in [0 .. l -> X] : Iterates(f, x, step, l)
  <1> DEFINE Without == {m \in 0 .. l : ~\E f \in [0 .. m -> X] : Iterates(f, x, step, m)}
  <1> SUFFICES ASSUME Without # {} PROVE FALSE
    BY DEF Without
  <1>1. PICK m \in Without : \A k \in Without : m <= k
    <2>1. Without \in SUBSET Nat
      OBVIOUS
    <2> HIDE DEF Without
    <2> QED
      BY <2>1, LeastNumber
  <1>2. m \in 0 .. l /\ ~\E f \in [0 .. m -> X] : Iterates(f, x, step, m)
    BY <1>1
  <1>3. m # 0
    <2>1. PICK f : f = [n \in 0 .. 0 |-> x]
      OBVIOUS
    <2>2. f \in [0 .. 0 -> X] /\ Iterates(f, x, step, 0)
      BY <2>1 DEF Iterates
    <2> QED
      BY <1>2, <2>2
  <1>4. PICK f \in [0 .. m - 1 -> X] : Iterates(f, x, step, m - 1)
    <2>1. m - 1 \in 0 .. l /\ m - 1 < m
      BY <1>2, <1>3
    <2> QED
      BY <1>1, <2>1
  <1>5. PICK y \in X : y = step[m][f[m - 1]]
    BY <1>2, <1>3
  <1>6. PICK g : g = [n \in 0 .. m |-> IF n = m THEN y ELSE f[n]]
    OBVIOUS
  <1>7. g \in [0 .. m -> X]
    BY <1>2, <1>3, <1>6
  <1>8. Iterates(g, x, step, m)
    <2>1. g[0] = x
      BY <1>2, <1>3, <1>4, <1>6 DEF Iterates
    <2>2. ASSUME NEW n \in 1 .. m PROVE g[n] = step[n][g[n - 1]]
      <3>1. n - 1 \in 0 .. m - 1 /\ n \in 0 .. m /\ n - 1 \in 0 .. m /\ n - 1 # m
        BY <1>2
      <3>2. g[n - 1] = f[n - 1]
        BY <1>6, <3>1
      <3>3. CASE n = m
        BY <1>5, <1>6, <3>1, <3>2, <3>3
      <3>4. CASE n # m
        <4>1. n \in 1 .. m - 1
          BY <1>2, <3>4
        <4> QED
          BY <1>4, <1>6, <3>1, <3>2, <3>4, <4>1 DEF Iterates
      <3> QED
        BY <3>3, <3>4
    <2> QED
      BY <2>1, <2>2 DEF Iterates
  <1> QED
    BY <1>2, <1>7, <1>8

LEMMA IterationUnique ==
    ASSUME NEW x, NEW step, NEW l \in Nat, NEW f, NEW g,
           Iterates(f, x, step, l), Iterates(g, x, step, l)
    PROVE  \A n \in 0 .. l : f[n] = g[n]
  <1> DEFINE Other == {m \in 0 .. l : f[m] # g[m]}
  <1> SUFFICES ASSUME Other # {} PROVE FALSE
    OBVIOUS
  <1>1. PICK m \in Other : \A k \in Other : m <= k
    <2>1. Other \in SUBSET Nat
      OBVIOUS
    <2> HIDE DEF Other
    <2> QED
      BY <2>1, LeastNumber
  <1>2. m \in 0 .. l /\ f[m] # g[m]
    BY <1>1
  <1>3. m # 0
    BY <1>2 DEF Iterates
  <1>4. m \in 1 .. l /\ m - 1 \in 0 .. l /\ m - 1 < m
    BY <1>2, <1>3
  <1>5. f[m - 1] = g[m - 1]
    BY <1>1, <1>4
  <1> QED
    BY <1>2, <1>4, <1>5 DEF Iterates

--------------------------------------------------------------------------------
(* FlattenSeq                                                                 *)

Flattens(f, s) == f[0] = <<>> /\ \A n \in 1 .. Len(s) : f[n] = f[n - 1] \o s[n]

LEMMA EmptyFacts ==
    ASSUME NEW S
    PROVE  /\ <<>> \in Seq(S) /\ Len(<<>>) = 0
           /\ \A s \in Seq(S) : <<>> \o s = s /\ s \o <<>> = s
  OBVIOUS

LEMMA JoinJoin ==
    ASSUME NEW S, NEW s \in Seq(S), NEW t \in Seq(S), NEW u \in Seq(S)
    PROVE  (s \o t) \o u = s \o (t \o u)
  OBVIOUS

LEMMA SomethingFlattens ==
    ASSUME NEW S, NEW s \in Seq(Seq(S))
    PROVE  \E f \in [0 .. Len(s) -> Seq(S)] : Flattens(f, s)
  <1>1. PICK l \in Nat : l = Len(s)
    OBVIOUS
  <1>2. PICK step : step = [n \in 1 .. l |-> [t \in Seq(S) |-> t \o s[n]]]
    OBVIOUS
  <1>3. ASSUME NEW n \in 1 .. l, NEW t \in Seq(S) PROVE t \o s[n] \in Seq(S)
    BY <1>1
  <1>4. step \in [1 .. l -> [Seq(S) -> Seq(S)]]
    BY <1>2, <1>3
  <1>5. PICK f \in [0 .. l -> Seq(S)] : Iterates(f, <<>>, step, l)
    BY <1>4, EmptyFacts, IterationExists
  <1>6. ASSUME NEW n \in 1 .. l PROVE f[n] = f[n - 1] \o s[n]
    <2>1. f[n] = step[n][f[n - 1]] /\ f[n - 1] \in Seq(S)
      BY <1>5 DEF Iterates
    <2> QED
      BY <1>2, <2>1
  <1> QED
    BY <1>1, <1>5, <1>6 DEF Flattens, Iterates

LEMMA FlattensUnique ==
    ASSUME NEW S, NEW s \in Seq(Seq(S)), NEW f, NEW g, Flattens(f, s), Flattens(g, s)
    PROVE  f[Len(s)] = g[Len(s)]
  <1> DEFINE Other == {m \in 0 .. Len(s) : f[m] # g[m]}
  <1> SUFFICES ASSUME Other # {} PROVE FALSE
    OBVIOUS
  <1>1. PICK m \in Other : \A k \in Other : m <= k
    <2>1. Other \in SUBSET Nat
      OBVIOUS
    <2> HIDE DEF Other
    <2> QED
      BY <2>1, LeastNumber
  <1>2. m \in 0 .. Len(s) /\ f[m] # g[m]
    BY <1>1
  <1>3. m # 0
    BY <1>2 DEF Flattens
  <1>4. m \in 1 .. Len(s) /\ m - 1 \in 0 .. Len(s) /\ m - 1 < m
    BY <1>2, <1>3
  <1>5. f[m - 1] = g[m - 1]
    BY <1>1, <1>4
  <1> QED
    BY <1>2, <1>4, <1>5 DEF Flattens

LEMMA FlattenIs ==
    ASSUME NEW S, NEW s \in Seq(Seq(S)), NEW f \in [0 .. Len(s) -> Seq(S)], Flattens(f, s)
    PROVE  FlattenSeq(s) = f[Len(s)]
  <1>1. PICK l \in Nat : l = Len(s)
    OBVIOUS
  <1>2. CASE l = 0
    <2>1. s = <<>>
      BY <1>1, <1>2, SequenceFacts
    <2> QED
      BY <1>1, <1>2, <2>1 DEF FlattenSeq, Flattens
  <1>3. CASE l # 0
    <2> DEFINE Flat(h) == h = [i \in 1 .. l |-> IF i = 1 THEN s[i] ELSE h[i - 1] \o s[i]]
    <2>1. FlattenSeq(s) = (CHOOSE h : Flat(h))[l]
      BY <1>1, <1>3 DEF FlattenSeq
    <2>2. \E h : Flat(h)
      <3>1. PICK h : h = [i \in 1 .. l |-> f[i]]
        OBVIOUS
      <3>2. ASSUME NEW i \in 1 .. l
            PROVE  f[i] = IF i = 1 THEN s[i] ELSE h[i - 1] \o s[i]
        <4>1. f[i] = f[i - 1] \o s[i] /\ s[i] \in Seq(S) /\ f[0] = <<>>
          BY <1>1, SequenceFacts DEF Flattens
        <4>2. CASE i = 1
          <5>1. i - 1 = 0
            BY <4>2
          <5> QED
            BY <4>1, <4>2, <5>1, EmptyFacts
        <4>3. CASE i # 1
          <5>1. i - 1 \in 1 .. l
            BY <4>3
          <5> QED
            BY <3>1, <4>1, <4>3, <5>1
        <4> QED
          BY <4>2, <4>3
      <3> QED
        BY <3>1, <3>2, ZenonT(40)
    <2>3. PICK h : h = (CHOOSE g : Flat(g)) /\ Flat(h)
      BY <2>2
    <2>4. PICK g : g = [n \in 0 .. l |-> IF n = 0 THEN <<>> ELSE h[n]]
      OBVIOUS
    <2>5. ASSUME NEW n \in 1 .. l PROVE g[n] = g[n - 1] \o s[n]
      <3>1. \A k : k = [i \in 1 .. l |-> IF i = 1 THEN s[i] ELSE h[i - 1] \o s[i]] =>
                       k[n] = IF n = 1 THEN s[n] ELSE h[n - 1] \o s[n]
        OBVIOUS
      <3>2. h[n] = IF n = 1 THEN s[n] ELSE h[n - 1] \o s[n]
        BY <2>3, <3>1
      <3>3. n \in 0 .. l /\ n - 1 \in 0 .. l /\ n # 0 /\ s[n] \in Seq(S)
            /\ (n = 1 <=> n - 1 = 0)
        BY <1>1
      <3>4. g[n] = h[n] /\ g[n - 1] = IF n = 1 THEN <<>> ELSE h[n - 1]
        BY <2>4, <3>3
      <3> QED
        BY <3>2, <3>3, <3>4, EmptyFacts
    <2>6. Flattens(g, s)
      <3>1. g[0] = <<>>
        BY <2>4
      <3> QED
        BY <1>1, <2>5, <3>1, Zenon DEF Flattens
    <2>7. g[l] = h[l]
      BY <1>3, <2>4
    <2> QED
      BY <1>1, <2>1, <2>3, <2>6, <2>7, FlattensUnique
  <1> QED
    BY <1>2, <1>3

LEMMA FlattenFacts ==
    ASSUME NEW S, NEW s \in Seq(Seq(S)), NEW t \in Seq(S)
    PROVE  /\ FlattenSeq(<<>>) = <<>>
           /\ FlattenSeq(s) \in Seq(S)
           /\ FlattenSeq(Append(s, t)) = FlattenSeq(s) \o t
  <1>1. PICK f \in [0 .. Len(s) -> Seq(S)] : Flattens(f, s)
    BY SomethingFlattens
  <1>2. PICK l \in Nat : l = Len(s)
    OBVIOUS
  <1>3. FlattenSeq(s) = f[l] /\ f[l] \in Seq(S)
    BY <1>1, <1>2, FlattenIs
  <1>4. PICK u \in Seq(Seq(S)) : u = Append(s, t) /\ Len(u) = l + 1 /\ u[l + 1] = t
                                 /\ \A n \in 1 .. l : u[n] = s[n]
    <2>1. PICK T : T = Seq(S)
      OBVIOUS
    <2>2. s \in Seq(T) /\ t \in T
      BY <2>1
    <2>3. /\ Append(s, t) \in Seq(T)
          /\ Len(Append(s, t)) = Len(s) + 1
          /\ Append(s, t)[Len(s) + 1] = t
          /\ \A n \in 1 .. Len(s) : Append(s, t)[n] = s[n]
      BY <2>2, AppendFacts
    <2> QED
      BY <1>2, <2>1, <2>3
  <1>5. PICK g : g = [n \in 0 .. l + 1 |-> IF n = l + 1 THEN f[l] \o t ELSE f[n]]
    OBVIOUS
  <1>6. g \in [0 .. Len(u) -> Seq(S)]
    <2>1. f[l] \o t \in Seq(S)
      BY <1>3, JoinFacts
    <2>2. ASSUME NEW n \in 0 .. l + 1, n # l + 1 PROVE f[n] \in Seq(S)
      <3>1. n \in 0 .. l
        BY <2>2
      <3> QED
        BY <1>2, <3>1
    <2> QED
      BY <1>4, <1>5, <2>1, <2>2
  <1>7. Flattens(g, u)
    <2>1. g[0] = <<>>
      BY <1>1, <1>2, <1>5 DEF Flattens
    <2>2. ASSUME NEW n \in 1 .. l + 1 PROVE g[n] = g[n - 1] \o u[n]
      <3>1. n - 1 \in 0 .. l + 1 /\ n - 1 # l + 1 /\ n \in 0 .. l + 1
        OBVIOUS
      <3>2. g[n - 1] = f[n - 1]
        BY <1>5, <3>1
      <3>3. CASE n = l + 1
        <4>1. n - 1 = l /\ g[n] = f[l] \o t /\ u[n] = t
          BY <1>4, <1>5, <3>1, <3>3
        <4> QED
          BY <3>2, <4>1
      <3>4. CASE n # l + 1
        <4>1. n \in 1 .. l
          BY <3>4
        <4> QED
          BY <1>1, <1>2, <1>4, <1>5, <3>1, <3>2, <3>4, <4>1 DEF Flattens
      <3> QED
        BY <3>3, <3>4
    <2> QED
      BY <1>4, <2>1, <2>2 DEF Flattens
  <1>8. FlattenSeq(u) = f[l] \o t
    <2>1. FlattenSeq(u) = g[Len(u)]
      BY <1>6, <1>7, FlattenIs
    <2>2. Len(u) = l + 1 /\ l + 1 \in 0 .. l + 1
      BY <1>4
    <2> QED
      BY <1>5, <2>1, <2>2
  <1>9. FlattenSeq(<<>>) = <<>>
    BY DEF FlattenSeq
  <1> QED
    BY <1>3, <1>4, <1>8, <1>9

--------------------------------------------------------------------------------
(* Tokens                                                                     *)

\* A sequence is what comes up to n and what comes after.
LEMMA CutFacts ==
    ASSUME NEW S, NEW s \in Seq(S), NEW n \in 0 .. Len(s)
    PROVE  /\ SubSeq(s, 1, n) \in Seq(S) /\ Len(SubSeq(s, 1, n)) = n
           /\ \A i \in 1 .. n : SubSeq(s, 1, n)[i] = s[i]
           /\ SubSeq(s, n + 1, Len(s)) \in Seq(S)
           /\ Len(SubSeq(s, n + 1, Len(s))) = Len(s) - n
           /\ \A i \in 1 .. Len(s) - n : SubSeq(s, n + 1, Len(s))[i] = s[n + i]
  <1>1. Len(s) \in Nat /\ n \in Nat /\ n <= Len(s)
    BY SequenceFacts
  <1>2. PICK t \in Seq(S) : t = SubSeq(s, 1, n) /\ Len(t) = n /\ \A i \in 1 .. n : t[i] = s[i]
    <2>1. 1 \in 1 .. Len(s) + 1 /\ n \in 0 .. Len(s)
      BY <1>1
    <2>2. /\ SubSeq(s, 1, n) \in Seq(S)
          /\ Len(SubSeq(s, 1, n)) = IF 1 <= n THEN n - 1 + 1 ELSE 0
          /\ \A i \in 1 .. n - 1 + 1 : SubSeq(s, 1, n)[i] = s[1 + i - 1]
      BY <2>1, SubSeqFacts
    <2>3. (IF 1 <= n THEN n - 1 + 1 ELSE 0) = n /\ n - 1 + 1 = n /\ \A i \in 1 .. n : 1 + i - 1 = i
      BY <1>1
    <2>4. Len(SubSeq(s, 1, n)) = n
      BY <2>2, <2>3
    <2>5. ASSUME NEW i \in 1 .. n PROVE SubSeq(s, 1, n)[i] = s[i]
      <3>1. 1 + i - 1 = i /\ n - 1 + 1 = n
        BY <1>1
      <3>2. SubSeq(s, 1, n)[i] = s[1 + i - 1]
        BY <2>2, <3>1
      <3> QED
        BY <3>1, <3>2
    <2> QED
      BY <2>2, <2>4, <2>5
  <1>3. PICK u \in Seq(S) : /\ u = SubSeq(s, n + 1, Len(s)) /\ Len(u) = Len(s) - n
                            /\ \A i \in 1 .. Len(s) - n : u[i] = s[n + i]
    <2>1. n + 1 \in 1 .. Len(s) + 1 /\ Len(s) \in 0 .. Len(s)
      BY <1>1
    <2>2. /\ SubSeq(s, n + 1, Len(s)) \in Seq(S)
          /\ Len(SubSeq(s, n + 1, Len(s))) =
                 IF n + 1 <= Len(s) THEN Len(s) - (n + 1) + 1 ELSE 0
          /\ \A i \in 1 .. Len(s) - (n + 1) + 1 :
                 SubSeq(s, n + 1, Len(s))[i] = s[(n + 1) + i - 1]
      BY <2>1, SubSeqFacts
    <2>3. /\ (IF n + 1 <= Len(s) THEN Len(s) - (n + 1) + 1 ELSE 0) = Len(s) - n
          /\ Len(s) - (n + 1) + 1 = Len(s) - n
      BY <1>1
    <2>4. ASSUME NEW i \in 1 .. Len(s) - n PROVE SubSeq(s, n + 1, Len(s))[i] = s[n + i]
      <3>1. (n + 1) + i - 1 = n + i
        BY <1>1
      <3>2. SubSeq(s, n + 1, Len(s))[i] = s[(n + 1) + i - 1]
        BY <2>2, <2>3
      <3> QED
        BY <3>1, <3>2
    <2> QED
      BY <2>2, <2>3, <2>4
  <1> QED
    BY <1>2, <1>3

LEMMA CutJoins ==
    ASSUME NEW S, NEW s \in Seq(S), NEW n \in 0 .. Len(s)
    PROVE  s = SubSeq(s, 1, n) \o SubSeq(s, n + 1, Len(s))
  <1>1. Len(s) \in Nat /\ n \in Nat /\ n <= Len(s)
    BY SequenceFacts
  <1> DEFINE t == SubSeq(s, 1, n)
             u == SubSeq(s, n + 1, Len(s))
  <1>2. t \in Seq(S) /\ Len(t) = n /\ \A i \in 1 .. n : t[i] = s[i]
    BY CutFacts
  <1>3. /\ u \in Seq(S) /\ Len(u) = Len(s) - n
        /\ \A i \in 1 .. Len(s) - n : u[i] = s[n + i]
    BY CutFacts
  <1> HIDE DEF t, u
  <1>4. s = t \o u
    <2> DEFINE v == t \o u
    <2>1. /\ v \in Seq(S) /\ Len(v) = Len(t) + Len(u)
          /\ \A i \in 1 .. Len(t) : v[i] = t[i]
          /\ \A i \in 1 .. Len(u) : v[Len(t) + i] = u[i]
      <3>1. t \in Seq(S) /\ u \in Seq(S)
        BY <1>2, <1>3
      <3> QED
        BY <3>1, JoinFacts
    <2> HIDE DEF v
    <2>2. ASSUME NEW i \in 1 .. Len(s) PROVE v[i] = s[i]
      <3>1. CASE i <= n
        BY <1>1, <1>2, <2>1, <3>1
      <3>2. CASE i > n
        <4>1. PICK j : j = i - n
          OBVIOUS
        <4>2. j \in 1 .. Len(u) /\ n + j = i /\ j \in 1 .. Len(s) - n
          BY <1>1, <1>3, <3>2, <4>1
        <4>3. v[n + j] = u[j] /\ u[j] = s[n + j]
          BY <1>2, <1>3, <2>1, <4>2, Zenon
        <4> QED
          BY <4>2, <4>3
      <3> QED
        BY <1>1, <3>1, <3>2
    <2>3. Len(v) = Len(s)
      <3>1. Len(v) = n + (Len(s) - n)
        BY <1>2, <1>3, <2>1
      <3> QED
        BY <1>1, <3>1
    <2>4. v = s
      BY <2>1, <2>2, <2>3, SameSequence
    <2> QED
      BY <2>4 DEF v
  <1> QED
    BY <1>4 DEF t, u

LEMMA FirstInFacts ==
    ASSUME NEW S, NEW s \in Seq(S), NEW chars
    PROVE  /\ FirstIn(s, chars) \in 0 .. Len(s)
           /\ FirstIn(s, chars) # 0 => s[FirstIn(s, chars)] \in chars
           /\ FirstIn(s, chars) # 0 => \A i \in 1 .. FirstIn(s, chars) - 1 : s[i] \notin chars
           /\ FirstIn(s, chars) = 0 => \A i \in 1 .. Len(s) : s[i] \notin chars
  <1> DEFINE I == {i \in 1 .. Len(s) : s[i] \in chars}
  <1>1. FirstIn(s, chars) = IF I # {} THEN Min(I) ELSE 0
    BY DEF FirstIn, SelectInSeq
  <1>2. I # {} => Min(I) \in I /\ \A i \in I : Min(I) <= i
    <2>1. I \in SUBSET Nat
      BY SequenceFacts
    <2> HIDE DEF I
    <2> QED
      BY <2>1, MinIsLeast
  <1>3. Len(s) \in Nat
    OBVIOUS
  <1>4. CASE I = {}
    BY <1>1, <1>3, <1>4
  <1>5. CASE I # {}
    <2>1. PICK m : m = FirstIn(s, chars) /\ m \in I /\ \A i \in I : m <= i
      BY <1>1, <1>2, <1>5
    <2>2. m \in 1 .. Len(s) /\ s[m] \in chars
      BY <2>1
    <2>3. ASSUME NEW i \in 1 .. m - 1 PROVE s[i] \notin chars
      <3>1. i \in 1 .. Len(s) /\ ~(m <= i)
        BY <1>3, <2>2
      <3> QED
        BY <2>1, <3>1
    <2> QED
      BY <1>3, <2>1, <2>2, <2>3
  <1> QED
    BY <1>4, <1>5

LEMMA FirstInIs ==
    ASSUME NEW S, NEW s \in Seq(S), NEW chars, NEW m \in 1 .. Len(s), s[m] \in chars,
           \A i \in 1 .. m - 1 : s[i] \notin chars
    PROVE  FirstIn(s, chars) = m
  <1>1. PICK n \in 0 .. Len(s) :
            /\ n = FirstIn(s, chars)
            /\ n # 0 => s[n] \in chars
            /\ n # 0 => \A i \in 1 .. n - 1 : s[i] \notin chars
            /\ n = 0 => \A i \in 1 .. Len(s) : s[i] \notin chars
    BY FirstInFacts
  <1>2. n # 0
    BY <1>1
  <1>3. ~(n < m)
    <2>1. n < m => n \in 1 .. m - 1
      BY <1>2
    <2> QED
      BY <1>1, <1>2, <2>1
  <1>4. ~(m < n)
    <2>1. m < n => m \in 1 .. n - 1
      BY <1>2
    <2> QED
      BY <1>1, <1>2, <2>1
  <1> QED
    BY <1>1, <1>3, <1>4

\* What is skipped is white space, and nothing after it is.
LEMMA SkipWhitespaceFacts ==
    ASSUME NEW S, NEW s \in Seq(S)
    PROVE  \E n \in 0 .. Len(s) :
               /\ SkipWhitespace(s) = SubSeq(s, n + 1, Len(s))
               /\ \A i \in 1 .. n : s[i] \in Whitespace
               /\ n < Len(s) => s[n + 1] \notin Whitespace
  <1> DEFINE I == {i \in 1 .. Len(s) : s[i] \notin Whitespace}
             n == IF I # {} THEN Min(I) ELSE 0
  <1>1. SkipWhitespace(s) = IF n = 0 THEN <<>> ELSE SubSeq(s, n, Len(s))
    BY DEF SkipWhitespace, SelectInSeq
  <1>2. I # {} => Min(I) \in I /\ \A i \in I : Min(I) <= i
    <2>1. I \in SUBSET Nat
      BY SequenceFacts
    <2> HIDE DEF I
    <2> QED
      BY <2>1, MinIsLeast
  <1>3. Len(s) \in Nat
    OBVIOUS
  <1>4. CASE I = {}
    <2>1. SkipWhitespace(s) = <<>>
      BY <1>1, <1>4
    <2>2. SubSeq(s, Len(s) + 1, Len(s)) = <<>>
      <3>1. Len(s) \in 0 .. Len(s) /\ Len(s) - Len(s) = 0
        BY <1>3
      <3> QED
        BY <3>1, CutFacts, SequenceFacts
    <2> QED
      BY <1>3, <1>4, <2>1, <2>2
  <1>5. CASE I # {}
    <2>1. PICK m : m = n /\ m \in I /\ \A i \in I : m <= i
      BY <1>2, <1>5
    <2>2. m \in 1 .. Len(s) /\ s[m] \notin Whitespace /\ m - 1 \in 0 .. Len(s) /\ (m - 1) + 1 = m
      BY <1>3, <2>1, SMTT(30)
    <2>3. ASSUME NEW i \in 1 .. m - 1 PROVE s[i] \in Whitespace
      <3>1. i \in 1 .. Len(s) /\ ~(m <= i)
        BY <1>3, <2>2
      <3> QED
        BY <2>1, <3>1
    <2>4. SkipWhitespace(s) = SubSeq(s, (m - 1) + 1, Len(s))
      <3> HIDE DEF n
      <3> QED
        BY <1>1, <2>1, <2>2
    <2> QED
      BY <2>2, <2>3, <2>4
  <1> QED
    BY <1>4, <1>5

\* White space before a text is skipped.
LEMMA SkipIs ==
    ASSUME NEW S, NEW s \in Seq(S), \A i \in 1 .. Len(s) : s[i] \in Whitespace,
           NEW t \in Seq(S), t # <<>> => t[1] \notin Whitespace
    PROVE  SkipWhitespace(s \o t) = t
  <1> DEFINE u == s \o t
  <1>1. /\ u \in Seq(S) /\ Len(u) = Len(s) + Len(t)
        /\ \A i \in 1 .. Len(s) : u[i] = s[i]
        /\ \A i \in 1 .. Len(t) : u[Len(s) + i] = t[i]
    BY JoinFacts
  <1> HIDE DEF u
  <1>2. PICK n \in 0 .. Len(u) :
            /\ SkipWhitespace(u) = SubSeq(u, n + 1, Len(u))
            /\ \A i \in 1 .. n : u[i] \in Whitespace
            /\ n < Len(u) => u[n + 1] \notin Whitespace
    BY <1>1, SkipWhitespaceFacts
  <1>3. Len(s) \in Nat /\ Len(t) \in Nat /\ (t # <<>> => Len(t) >= 1)
    BY SequenceFacts
  <1>4. n = Len(s)
    <2>1. ~(n < Len(s))
      <3>1. n < Len(s) => n + 1 \in 1 .. Len(s) /\ n < Len(u)
        BY <1>1, <1>3
      <3> QED
        BY <1>1, <1>2, <3>1
    <2>2. ~(n > Len(s))
      <3>1. n > Len(s) => 1 \in 1 .. Len(t) /\ Len(s) + 1 \in 1 .. n /\ t # <<>>
        <4>1. n > Len(s) => Len(t) # 0
          BY <1>1, <1>3
        <4> QED
          BY <1>3, <4>1, SequenceFacts
      <3> QED
        BY <1>1, <1>2, <3>1
    <2> QED
      BY <1>1, <1>3, <2>1, <2>2
  <1> DEFINE v == SubSeq(u, n + 1, Len(u))
  <1>5. /\ v \in Seq(S) /\ Len(v) = Len(u) - n
        /\ \A i \in 1 .. Len(u) - n : v[i] = u[n + i]
    <2>1. PICK w \in Seq(S) : w = u
      BY <1>1
    <2> QED
      BY <2>1, CutFacts
  <1> HIDE DEF v
  <1>6. Len(v) = Len(t) /\ \A i \in 1 .. Len(v) : v[i] = t[i]
    BY <1>1, <1>3, <1>4, <1>5
  <1>7. v = t
    BY <1>5, <1>6, SameSequence
  <1> QED
    BY <1>2, <1>7 DEF u, v

LEMMA EscapedAlike ==
    ASSUME NEW t, NEW u, NEW n \in Nat, \A i \in 1 .. n : t[i] = u[i]
    PROVE  \A k \in 1 .. n : Escaped(t, k) <=> Escaped(u, k)
  <1> TAKE k \in 1 .. n
  <1>1. \A i \in 1 .. k - 1 : t[i] = u[i] /\ \A j \in i + 1 .. k - 1 : t[j] = u[j]
    OBVIOUS
  <1> QED
    BY <1>1 DEF Escaped

\* The closing quote of a text.
Closes(t, n) == t[n] = t[1] /\ ~Escaped(t, n)

LEMMA ClosingQuoteFacts ==
    ASSUME NEW t, Len(t) \in Nat
    PROVE  \/ ClosingQuote(t) = 0
           \/ /\ ClosingQuote(t) \in 2 .. Len(t)
              /\ Closes(t, ClosingQuote(t))
              /\ \A k \in 2 .. ClosingQuote(t) - 1 : ~Closes(t, k)
  <1> DEFINE closing == {n \in 2 .. Len(t) : t[n] = t[1] /\ ~Escaped(t, n)}
  <1>1. ClosingQuote(t) = IF closing = {} THEN 0
                          ELSE CHOOSE n \in closing : \A k \in closing : n <= k
    BY DEF ClosingQuote
  <1>2. CASE closing = {}
    BY <1>1, <1>2
  <1>3. CASE closing # {}
    <2>1. \E n \in closing : \A k \in closing : n <= k
      <3>1. closing \in SUBSET Nat
        OBVIOUS
      <3> HIDE DEF closing
      <3> QED
        BY <1>3, <3>1, LeastNumber
    <2>2. PICK n : n = ClosingQuote(t) /\ n \in closing /\ \A k \in closing : n <= k
      <3> HIDE DEF closing
      <3> QED
        BY <1>1, <1>3, <2>1
    <2>3. n \in 2 .. Len(t) /\ Closes(t, n)
      BY <2>2 DEF Closes
    <2>4. ASSUME NEW k \in 2 .. n - 1 PROVE ~Closes(t, k)
      <3>1. k \in 2 .. Len(t) /\ ~(n <= k)
        BY <2>3
      <3> QED
        BY <2>2, <3>1 DEF Closes
    <2> QED
      BY <2>2, <2>3, <2>4
  <1> QED
    BY <1>2, <1>3

LEMMA ClosingQuoteIs ==
    ASSUME NEW t, Len(t) \in Nat, NEW n \in 2 .. Len(t), Closes(t, n),
           \A k \in 2 .. n - 1 : ~Closes(t, k)
    PROVE  ClosingQuote(t) = n
  <1>1. PICK m : m = ClosingQuote(t)
    OBVIOUS
  <1>2. m # 0
    <2>1. n \in {k \in 2 .. Len(t) : t[k] = t[1] /\ ~Escaped(t, k)}
      BY DEF Closes
    <2>2. PICK least \in {k \in 2 .. Len(t) : t[k] = t[1] /\ ~Escaped(t, k)} :
              \A j \in {k \in 2 .. Len(t) : t[k] = t[1] /\ ~Escaped(t, k)} : least <= j
      <3>1. {k \in 2 .. Len(t) : t[k] = t[1] /\ ~Escaped(t, k)} \in SUBSET Nat
        OBVIOUS
      <3> QED
        BY <2>1, <3>1, LeastNumber
    <2>3. ClosingQuote(t) \in {k \in 2 .. Len(t) : t[k] = t[1] /\ ~Escaped(t, k)}
      BY <2>1, <2>2 DEF ClosingQuote
    <2> QED
      BY <1>1, <2>3
  <1>3. /\ m \in 2 .. Len(t) /\ Closes(t, m)
        /\ \A k \in 2 .. m - 1 : ~Closes(t, k)
    BY <1>1, <1>2, ClosingQuoteFacts
  <1>4. ~(m < n) /\ ~(n < m)
    <2>1. (m < n => m \in 2 .. n - 1) /\ (n < m => n \in 2 .. m - 1)
      BY <1>3
    <2> QED
      BY <1>3, <2>1
  <1> QED
    BY <1>1, <1>3, <1>4

\* A text whose first n characters are those of t has the same closing quote.
LEMMA ClosingQuoteAlike ==
    ASSUME NEW t, NEW u, Len(t) \in Nat, Len(u) \in Nat,
           NEW n \in 1 .. Len(t), n = ClosingQuote(t),
           n <= Len(u), \A i \in 1 .. n : t[i] = u[i]
    PROVE  ClosingQuote(u) = n
  <1>1. /\ n \in 2 .. Len(t) /\ Closes(t, n)
        /\ \A k \in 2 .. n - 1 : ~Closes(t, k)
    BY ClosingQuoteFacts
  <1>2. n \in Nat /\ n \in 2 .. Len(u) /\ 1 \in 1 .. n
    BY <1>1
  <1>3. \A k \in 1 .. n : Escaped(t, k) <=> Escaped(u, k)
    BY <1>2, EscapedAlike
  <1>4. ASSUME NEW k \in 2 .. n PROVE Closes(t, k) <=> Closes(u, k)
    <2>1. k \in 1 .. n
      OBVIOUS
    <2> QED
      BY <1>2, <1>3, <2>1 DEF Closes
  <1>5. Closes(u, n) /\ \A k \in 2 .. n - 1 : ~Closes(u, k)
    <2>1. n \in 2 .. n /\ \A k \in 2 .. n - 1 : k \in 2 .. n
      BY <1>1
    <2> QED
      BY <1>1, <1>4, <2>1
  <1> QED
    BY <1>2, <1>5, ClosingQuoteIs

\* The first n characters of a text are a token that a statement is made of.
StatementTypes == {"NORMAL", "STATEMENT_END", "START_BLOCK", "END_BLOCK"}

IsPiece(t, n, type) ==
    \/ n = 1 /\ t[1] \in DOMAIN SingleTokens /\ type = SingleTokens[t[1]]
    \/ type = "NORMAL" /\ t[1] \in Quotes /\ n = ClosingQuote(t)
    \/ /\ type = "NORMAL" /\ t[1] \notin Quotes /\ t[1] # "#"
       /\ \A i \in 1 .. n : t[i] \notin Delimiters

\* What ParseText takes from a text.
LEMMA ParseTextTakes ==
    ASSUME NEW S, NEW t \in Seq(S), t # <<>> => t[1] \notin Whitespace
    PROVE  /\ ParseText(t).type \in StatementTypes =>
                  \E n \in 1 .. Len(t) : /\ ParseText(t) = Token(ParseText(t).type, t, n)
                                         /\ IsPiece(t, n, ParseText(t).type)
           /\ ParseText(t).type = "COMMENT" =>
                  t[1] = "#" /\ \E n \in 1 .. Len(t) : ParseText(t) = Token("COMMENT", t, n)
           /\ ParseText(t).type = "EOF" =>
                  t = <<>> \/ t[1] = "#" \/ \A i \in 1 .. Len(t) : t[i] \notin Delimiters
  <1>1. Len(t) \in Nat /\ (t # <<>> => 1 \in 1 .. Len(t))
    BY SequenceFacts
  <1>2. \A type, n : Token(type, t, n).type = type
    BY DEF Token
  <1>3. EndOfFile.type = "EOF" /\ NotAToken.type = "ERROR"
    BY DEF EndOfFile, NotAToken, Token
  <1>4. CASE t = <<>>
    <2>1. ParseText(t) = EndOfFile
      BY <1>4 DEF ParseText
    <2> QED
      BY <1>3, <1>4, <2>1 DEF StatementTypes
  <1>5. CASE t # <<>> /\ t[1] \in DOMAIN SingleTokens
    <2>1. t[1] # "#" /\ t[1] \notin Quotes
      BY <1>5 DEF SingleTokens, Quotes
    <2>2. ParseText(t) = Token(SingleTokens[t[1]], t, 1)
      BY <1>5, <2>1 DEF ParseText
    <2>3. SingleTokens[t[1]] \in StatementTypes
      BY <1>5 DEF SingleTokens, StatementTypes
    <2>4. ParseText(t).type = SingleTokens[t[1]]
      BY <1>2, <2>2
    <2>5. IsPiece(t, 1, SingleTokens[t[1]])
      BY <1>5 DEF IsPiece
    <2> QED
      BY <1>1, <1>5, <2>2, <2>3, <2>4, <2>5 DEF StatementTypes
  <1>6. CASE t # <<>> /\ t[1] = "#"
    <2>1. t[1] \notin DOMAIN SingleTokens /\ t[1] \notin Quotes
      BY <1>6 DEF SingleTokens, Quotes
    <2>2. PICK n \in 0 .. Len(t) : n = FirstIn(t, {"\n", "\r"})
      BY FirstInFacts
    <2>3. ParseText(t) = IF n = 0 THEN EndOfFile ELSE Token("COMMENT", t, n)
      BY <1>6, <2>1, <2>2 DEF ParseText
    <2>4. n # 0 => n \in 1 .. Len(t)
      BY <1>1
    <2> QED
      BY <1>2, <1>3, <1>6, <2>3, <2>4 DEF StatementTypes
  <1>7. CASE t # <<>> /\ t[1] \in Quotes
    <2>1. t[1] \notin DOMAIN SingleTokens /\ t[1] # "#"
      BY <1>7 DEF SingleTokens, Quotes
    <2>2. ParseText(t) = QuotedToken(t)
      BY <1>7, <2>1 DEF ParseText
    <2>3. PICK n : n = ClosingQuote(t)
      OBVIOUS
    <2>4. \/ ParseText(t) = NotAToken
          \/ n \in 1 .. Len(t) - 1 /\ ParseText(t) = Token("NORMAL", t, n)
      BY <2>2, <2>3 DEF QuotedToken
    <2>5. n \in 1 .. Len(t) - 1 => n \in 1 .. Len(t)
      BY <1>1
    <2>6. IsPiece(t, n, "NORMAL")
      BY <1>7, <2>3 DEF IsPiece
    <2> QED
      BY <1>2, <1>3, <2>4, <2>5, <2>6 DEF StatementTypes
  <1>8. CASE t # <<>> /\ t[1] \notin DOMAIN SingleTokens /\ t[1] # "#" /\ t[1] \notin Quotes
    <2>1. PICK n \in 0 .. Len(t) :
              /\ n = FirstIn(t, Delimiters)
              /\ n # 0 => t[n] \in Delimiters
              /\ n # 0 => \A i \in 1 .. n - 1 : t[i] \notin Delimiters
              /\ n = 0 => \A i \in 1 .. Len(t) : t[i] \notin Delimiters
      BY FirstInFacts
    <2>2. ParseText(t) = IF n = 0 THEN EndOfFile ELSE Token("NORMAL", t, n - 1)
      BY <1>8, <2>1 DEF ParseText
    <2>3. CASE n = 0
      BY <1>3, <2>1, <2>2, <2>3 DEF StatementTypes
    <2>4. CASE n # 0
      <3>1. t[1] \notin Delimiters
        BY <1>8 DEF Delimiters, Whitespace, SingleTokens
      <3>2. n - 1 \in 1 .. Len(t)
        BY <1>1, <2>1, <2>4, <3>1
      <3>3. IsPiece(t, n - 1, "NORMAL")
        BY <1>8, <2>1, <2>4 DEF IsPiece
      <3> QED
        BY <1>2, <2>2, <2>4, <3>2, <3>3 DEF StatementTypes
    <2> QED
      BY <2>3, <2>4
  <1> QED
    BY <1>4, <1>5, <1>6, <1>7, <1>8

\* It takes the same from every text that begins alike, if a word is followed by
\* a delimiter.
LEMMA PieceAgain ==
    ASSUME NEW S, NEW t \in Seq(S), NEW u \in Seq(S), NEW n \in 1 .. Len(t),
           NEW type \in StatementTypes, IsPiece(t, n, type),
           n <= Len(u), \A i \in 1 .. n : t[i] = u[i],
           type = "NORMAL" => n + 1 <= Len(u) /\ u[n + 1] \in Delimiters
    PROVE  ParseText(u) = Token(type, u, n)
  <1>1. Len(t) \in Nat /\ Len(u) \in Nat /\ 1 \in 1 .. n /\ n \in Nat
    OBVIOUS
  <1>2. u # <<>> /\ u[1] = t[1]
    BY <1>1, SequenceFacts
  <1>3. CASE n = 1 /\ t[1] \in DOMAIN SingleTokens /\ type = SingleTokens[t[1]]
    <2>1. u[1] # "#" /\ u[1] \notin Quotes
      BY <1>2, <1>3 DEF SingleTokens, Quotes
    <2> QED
      BY <1>2, <1>3, <2>1 DEF ParseText
  <1>4. CASE type = "NORMAL" /\ t[1] \in Quotes /\ n = ClosingQuote(t)
    <2>1. u[1] \notin DOMAIN SingleTokens /\ u[1] # "#" /\ u[1] \in Quotes
      BY <1>2, <1>4 DEF SingleTokens, Quotes
    <2>2. ParseText(u) = QuotedToken(u)
      BY <1>2, <2>1 DEF ParseText
    <2>3. ClosingQuote(u) = n
      BY <1>1, <1>4, ClosingQuoteAlike
    <2>4. n \in 1 .. Len(u) - 1 /\ u[n + 1] \in Delimiters
      BY <1>1, <1>4
    <2> QED
      BY <1>4, <2>2, <2>3, <2>4 DEF QuotedToken
  <1>5. CASE /\ type = "NORMAL" /\ t[1] \notin Quotes /\ t[1] # "#"
             /\ \A i \in 1 .. n : t[i] \notin Delimiters
    <2>1. u[1] \notin DOMAIN SingleTokens /\ u[1] # "#" /\ u[1] \notin Quotes
      <3>1. t[1] \notin Delimiters
        BY <1>1, <1>5
      <3> QED
        BY <1>2, <1>5, <3>1 DEF SingleTokens, Delimiters
    <2>2. FirstIn(u, Delimiters) = n + 1
      <3>1. n + 1 \in 1 .. Len(u) /\ u[n + 1] \in Delimiters
        BY <1>1, <1>5
      <3>2. \A i \in 1 .. (n + 1) - 1 : u[i] \notin Delimiters
        BY <1>1, <1>5
      <3> QED
        BY <3>1, <3>2, FirstInIs
    <2>3. ParseText(u) = IF n + 1 = 0 THEN EndOfFile ELSE Token("NORMAL", u, (n + 1) - 1)
      BY <1>2, <2>1, <2>2 DEF ParseText
    <2> QED
      BY <1>1, <1>5, <2>3
  <1> QED
    BY <1>3, <1>4, <1>5 DEF IsPiece

IsBlank(s) == \A i \in 1 .. Len(s) : s[i] \in Whitespace

\* Behind a word comes something that ends it.
Delimited(type, z) == type = "NORMAL" => z # <<>> /\ z[1] \in Delimiters

\* What the tokens that statements are made of are, when they are signs.
HasItsSign(token) ==
    /\ token.type = "STATEMENT_END" => token.value = <<";">>
    /\ token.type = "START_BLOCK" => token.value = <<"{">>
    /\ token.type = "END_BLOCK" => token.value = <<"}">>

ReadAlike(token, space, z) ==
    ParseToken(space \o (token.value \o z)) =
        [type |-> token.type, value |-> token.value, rest |-> z]

\* A token that was read is read again: after other white space, and before
\* another text, which a word must be told from.
LEMMA TokenAgain ==
    ASSUME NEW S, NEW t \in Seq(S), t # <<>> => t[1] \notin Whitespace,
           NEW token, token = ParseText(t), token.type \in StatementTypes,
           NEW space \in Seq(S), IsBlank(space),
           NEW z \in Seq(S), Delimited(token.type, z)
    PROVE  /\ token.value \in Seq(S) /\ token.value # <<>>
           /\ token.rest \in Seq(S) /\ t = token.value \o token.rest
           /\ HasItsSign(token)
           /\ ReadAlike(token, space, z)
  <1>1. PICK n \in 1 .. Len(t) : token = Token(token.type, t, n) /\ IsPiece(t, n, token.type)
    BY ParseTextTakes
  <1>2. /\ Len(t) \in Nat /\ n \in 0 .. Len(t) /\ n \in Nat /\ 1 \in 1 .. n /\ n >= 1
    BY SequenceFacts
  <1>3. token.value = SubSeq(t, 1, n) /\ token.rest = SubSeq(t, n + 1, Len(t))
    BY <1>1 DEF Token
  <1>4. PICK v \in Seq(S) : /\ v = token.value /\ Len(v) = n
                            /\ \A i \in 1 .. n : v[i] = t[i]
    <2>1. /\ SubSeq(t, 1, n) \in Seq(S) /\ Len(SubSeq(t, 1, n)) = n
          /\ \A i \in 1 .. n : SubSeq(t, 1, n)[i] = t[i]
      BY <1>2, CutFacts
    <2> QED
      BY <1>3, <2>1
  <1>5. token.rest \in Seq(S) /\ t = token.value \o token.rest
    <2>1. SubSeq(t, n + 1, Len(t)) \in Seq(S)
      BY <1>2, CutFacts
    <2>2. t = SubSeq(t, 1, n) \o SubSeq(t, n + 1, Len(t))
      BY <1>2, CutJoins
    <2> QED
      BY <1>3, <2>1, <2>2
  <1>6. v # <<>> /\ v[1] = t[1]
    BY <1>2, <1>4, SequenceFacts
  <1> DEFINE u == v \o z
  <1>7. /\ u \in Seq(S) /\ Len(u) = n + Len(z) /\ Len(z) \in Nat
        /\ \A i \in 1 .. n : u[i] = t[i]
        /\ \A i \in 1 .. Len(z) : u[n + i] = z[i]
    <2>1. /\ u \in Seq(S) /\ Len(u) = Len(v) + Len(z)
          /\ \A i \in 1 .. Len(v) : u[i] = v[i]
          /\ \A i \in 1 .. Len(z) : u[Len(v) + i] = z[i]
      BY JoinFacts
    <2> HIDE DEF u
    <2> QED
      BY <1>4, <2>1
  <1>8. ParseText(u) = Token(token.type, u, n)
    <2> HIDE DEF u
    <2>1. n <= Len(u)
      BY <1>2, <1>7
    <2>2. z # <<>> => 1 \in 1 .. Len(z) /\ n + 1 <= Len(u) /\ u[n + 1] = z[1]
      BY <1>2, <1>7, SequenceFacts
    <2>3. \A i \in 1 .. n : t[i] = u[i]
      BY <1>7
    <2>4. token.type = "NORMAL" => n + 1 <= Len(u) /\ u[n + 1] \in Delimiters
      BY <2>2 DEF Delimited
    <2> QED
      BY <1>1, <1>7, <2>1, <2>3, <2>4, PieceAgain, SMTT(60)
  <1>9. SubSeq(u, 1, n) = v /\ SubSeq(u, n + 1, Len(u)) = z
    <2> HIDE DEF u
    <2>1. /\ n \in 0 .. Len(u) /\ Len(u) - n = Len(z)
      BY <1>2, <1>7
    <2>2. PICK w \in Seq(S) : w = u
      BY <1>7
    <2>3. /\ SubSeq(w, 1, n) \in Seq(S) /\ Len(SubSeq(w, 1, n)) = n
          /\ \A i \in 1 .. n : SubSeq(w, 1, n)[i] = w[i]
          /\ SubSeq(w, n + 1, Len(w)) \in Seq(S)
          /\ Len(SubSeq(w, n + 1, Len(w))) = Len(z)
          /\ \A i \in 1 .. Len(z) : SubSeq(w, n + 1, Len(w))[i] = w[n + i]
      BY <2>1, <2>2, CutFacts
    <2>4. SubSeq(w, 1, n) = v
      <3>1. \A i \in 1 .. n : SubSeq(w, 1, n)[i] = v[i]
        BY <1>4, <1>7, <2>2, <2>3
      <3> QED
        BY <1>4, <2>3, <3>1, SameSequence
    <2>5. SubSeq(w, n + 1, Len(w)) = z
      <3>1. \A i \in 1 .. Len(z) : SubSeq(w, n + 1, Len(w))[i] = z[i]
        BY <1>7, <2>2, <2>3
      <3> QED
        BY <2>3, <3>1, SameSequence
    <2> QED
      BY <2>2, <2>4, <2>5
  <1>10. ParseToken(space \o u) = ParseText(u)
    <2> HIDE DEF u
    <2>1. u[1] = t[1] /\ t # <<>>
      BY <1>2, <1>7, SequenceFacts
    <2>2. SkipWhitespace(space \o u) = u
      BY <1>7, <2>1, SkipIs DEF IsBlank
    <2> QED
      BY <2>2 DEF ParseToken
  <1>11. ParseToken(space \o (token.value \o z)) =
             [type |-> token.type, value |-> token.value, rest |-> z]
    BY <1>4, <1>8, <1>9, <1>10 DEF Token
  <1>0. ReadAlike(token, space, z)
    BY <1>11 DEF ReadAlike
  <1>12. ASSUME token.type # "NORMAL"
         PROVE  /\ token.value = <<t[1]>> /\ t[1] \in DOMAIN SingleTokens
                /\ token.type = SingleTokens[t[1]]
    <2>1. n = 1 /\ t[1] \in DOMAIN SingleTokens /\ token.type = SingleTokens[t[1]]
      BY <1>1, <1>12 DEF IsPiece
    <2>2. v = <<t[1]>>
      BY <1>4, <1>6, <2>1
    <2> QED
      BY <1>4, <2>1, <2>2
  <1>13. HasItsSign(token)
    BY <1>12 DEF HasItsSign, SingleTokens
  <1> QED
    BY <1>0, <1>4, <1>5, <1>6, <1>13

--------------------------------------------------------------------------------
(* ToString writes a parser's tree as it is built                             *)

Signs == {" ", "\n", ";", "{", "}"}

Built(S) == [depth : Nat \ {0}, tokens : Seq(Seq(S)) \ {<<>>}, block : BOOLEAN]

\* Statement s of a NginxConfig, up to the end of the blocks deeper than outer.
Inner(s) == IF s.block THEN s.depth + 1 ELSE s.depth
Opening(s) == Indented(s.depth, TokensToString(s.tokens))
Ending(s) == IF s.block THEN <<" ", "{", "\n">> ELSE <<";", "\n">>
Closings(inner, outer) ==
    FlattenSeq([k \in 1 .. inner - outer |-> Indented(inner - k, <<"}", "\n">>)])
Complete(s, outer) == Opening(s) \o Ending(s) \o Closings(Inner(s), outer)

\* The white space that starts a line.
Indent(depth) == [i \in 1 .. 2 * (depth - 1) |-> " "]

LEMMA SequenceOf ==
    ASSUME NEW S, NEW l \in Nat, NEW s \in [1 .. l -> S]
    PROVE  s \in Seq(S) /\ Len(s) = l
  OBVIOUS

LEMMA SignFacts ==
    ASSUME NEW S, Signs \subseteq S
    PROVE  /\ <<" ">> \in Seq(S) /\ <<"\n">> \in Seq(S) /\ <<";">> \in Seq(S)
           /\ <<"{">> \in Seq(S) /\ <<"}">> \in Seq(S)
           /\ <<";", "\n">> \in Seq(S) /\ <<";", "\n">> = <<";">> \o <<"\n">>
           /\ <<"}", "\n">> \in Seq(S) /\ <<"}", "\n">> = <<"}">> \o <<"\n">>
           /\ <<" ", "{", "\n">> \in Seq(S)
           /\ <<" ", "{", "\n">> = <<" ">> \o (<<"{">> \o <<"\n">>)
  <1>1. \A a \in S : <<a>> \in Seq(S)
    OBVIOUS
  <1>2. ASSUME NEW a \in S, NEW s \in Seq(S), NEW l \in Nat, Len(s) = l
        PROVE  /\ <<a>> \o s \in Seq(S) /\ Len(<<a>> \o s) = l + 1
               /\ (<<a>> \o s)[1] = a /\ \A i \in 1 .. l : (<<a>> \o s)[i + 1] = s[i]
    <2>1. PICK t \in Seq(S) : t = <<a>> /\ Len(t) = 1 /\ t[1] = a
      <3>1. <<a>> \in Seq(S) /\ Len(<<a>>) = 1 /\ <<a>>[1] = a
        OBVIOUS
      <3> QED
        BY <3>1
    <2>2. /\ t \o s \in Seq(S) /\ Len(t \o s) = Len(t) + Len(s)
          /\ \A i \in 1 .. Len(t) : (t \o s)[i] = t[i]
          /\ \A i \in 1 .. Len(s) : (t \o s)[Len(t) + i] = s[i]
      BY JoinFacts
    <2>3. 1 \in 1 .. Len(t) /\ Len(t \o s) = l + 1
      BY <1>2, <2>1, <2>2
    <2>4. ASSUME NEW i \in 1 .. l PROVE (t \o s)[i + 1] = s[i]
      <3>1. Len(t) + i = i + 1 /\ i \in 1 .. Len(s)
        BY <1>2, <2>1
      <3> QED
        BY <2>2, <3>1
    <2> QED
      BY <2>1, <2>2, <2>3, <2>4
  <1>3. ASSUME NEW a \in S, NEW b \in S
        PROVE  <<a, b>> \in Seq(S) /\ <<a, b>> = <<a>> \o <<b>>
    <2>1. PICK s \in Seq(S) : s = <<b>> /\ Len(s) = 1 /\ s[1] = b
      <3>1. <<b>> \in Seq(S) /\ Len(<<b>>) = 1 /\ <<b>>[1] = b
        OBVIOUS
      <3> QED
        BY <3>1
    <2>2. PICK t \in Seq(S) : t = <<a, b>> /\ Len(t) = 2 /\ t[1] = a /\ t[2] = b
      <3>1. <<a, b>> \in Seq(S) /\ Len(<<a, b>>) = 2 /\ <<a, b>>[1] = a /\ <<a, b>>[2] = b
        OBVIOUS
      <3> QED
        BY <3>1
    <2>3. /\ <<a>> \o s \in Seq(S) /\ Len(<<a>> \o s) = 2
          /\ (<<a>> \o s)[1] = a /\ (<<a>> \o s)[2] = b
      <3>1. 1 \in 1 .. 1 /\ 1 + 1 = 2 /\ 1 \in Nat
        OBVIOUS
      <3> QED
        BY <1>2, <2>1, <3>1
    <2>4. \A i \in 1 .. 2 : t[i] = (<<a>> \o s)[i]
      BY <2>2, <2>3
    <2>5. t = <<a>> \o s
      BY <2>2, <2>3, <2>4, SameSequence
    <2> QED
      BY <2>1, <2>2, <2>5
  <1>4. ASSUME NEW a \in S, NEW b \in S, NEW c \in S
        PROVE  <<a, b, c>> \in Seq(S) /\ <<a, b, c>> = <<a>> \o (<<b>> \o <<c>>)
    <2>1. PICK s \in Seq(S) : s = <<b, c>> /\ Len(s) = 2 /\ s[1] = b /\ s[2] = c
      <3>1. <<b, c>> \in Seq(S) /\ Len(<<b, c>>) = 2 /\ <<b, c>>[1] = b /\ <<b, c>>[2] = c
        OBVIOUS
      <3> QED
        BY <3>1
    <2>2. PICK t \in Seq(S) : t = <<a, b, c>> /\ Len(t) = 3 /\ t[1] = a /\ t[2] = b /\ t[3] = c
      <3>1. <<a, b, c>> \in Seq(S) /\ Len(<<a, b, c>>) = 3 /\ <<a, b, c>>[1] = a /\ <<a, b, c>>[2] = b /\ <<a, b, c>>[3] = c
        OBVIOUS
      <3> QED
        BY <3>1
    <2>3. /\ <<a>> \o s \in Seq(S) /\ Len(<<a>> \o s) = 3
          /\ (<<a>> \o s)[1] = a /\ (<<a>> \o s)[2] = b /\ (<<a>> \o s)[3] = c
      <3>1. 1 \in 1 .. 2 /\ 2 \in 1 .. 2 /\ 1 + 1 = 2 /\ 2 + 1 = 3 /\ 2 \in Nat
        OBVIOUS
      <3> QED
        BY <1>2, <2>1, <3>1
    <2>4. \A i \in 1 .. 3 : t[i] = (<<a>> \o s)[i]
      BY <2>2, <2>3
    <2>5. t = <<a>> \o s
      BY <2>2, <2>3, <2>4, SameSequence
    <2> QED
      BY <1>3, <2>1, <2>2, <2>5
  <1>5. " " \in S /\ "\n" \in S /\ ";" \in S /\ "{" \in S /\ "}" \in S
    BY DEF Signs
  <1> QED
    BY <1>1, <1>3, <1>4, <1>5, Zenon

LEMMA IndentedFacts ==
    ASSUME NEW S, Signs \subseteq S, NEW depth \in Nat \ {0}, NEW t \in Seq(S)
    PROVE  /\ Indent(depth) \in Seq(S) /\ IsBlank(Indent(depth))
           /\ Indented(depth, t) = Indent(depth) \o t
           /\ Indented(depth, t) \in Seq(S)
  <1>1. PICK l \in Nat : l = 2 * (depth - 1)
    OBVIOUS
  <1>2. " " \in S /\ " " \in Whitespace
    BY DEF Signs, Whitespace
  <1>3. PICK s \in [1 .. l -> S] : s = [i \in 1 .. l |-> " "]
    BY <1>2
  <1>4. s \in Seq(S) /\ Len(s) = l /\ \A i \in 1 .. l : s[i] = " "
    BY <1>3, SequenceOf
  <1>5. s = Indent(depth)
    BY <1>1, <1>3 DEF Indent
  <1>6. IsBlank(s)
    BY <1>2, <1>4 DEF IsBlank
  <1>7. Indented(depth, t) = s \o t
    BY <1>5 DEF Indented, Indent
  <1> QED
    BY <1>4, <1>5, <1>6, <1>7, JoinFacts

\* Adding an element to a sequence that is given by its elements.
LEMMA AppendIs ==
    ASSUME NEW S, NEW s \in Seq(S), NEW l \in Nat, l = Len(s), NEW x \in S,
           NEW t \in Seq(S), Len(t) = l + 1, t[l + 1] = x, \A i \in 1 .. l : t[i] = s[i]
    PROVE  t = Append(s, x)
  <1>1. PICK u \in Seq(S) : /\ u = Append(s, x) /\ Len(u) = l + 1 /\ u[l + 1] = x
                            /\ \A i \in 1 .. l : u[i] = s[i]
    BY AppendFacts
  <1>2. ASSUME NEW i \in 1 .. l + 1 PROVE t[i] = u[i]
    <2>1. i = l + 1 \/ i \in 1 .. l
      OBVIOUS
    <2> QED
      BY <1>1, <2>1
  <1> QED
    BY <1>1, <1>2, SameSequence

LEMMA TokensToStringFacts ==
    ASSUME NEW S, Signs \subseteq S, NEW tokens \in Seq(Seq(S)), NEW v \in Seq(S)
    PROVE  /\ TokensToString(tokens) \in Seq(S)
           /\ TokensToString(<<v>>) = v
           /\ tokens # <<>> => TokensToString(Append(tokens, v)) =
                                   TokensToString(tokens) \o (<<" ">> \o v)
  <1> DEFINE T == Seq(S)
             Word(t, i) == IF i = 1 THEN t[i] ELSE <<" ">> \o t[i]
             Texts(t) == [i \in DOMAIN t |-> Word(t, i)]
  <1>1. \A t : TokensToString(t) = FlattenSeq(Texts(t))
    BY DEF TokensToString
  <1>2. <<" ">> \in T /\ \A t \in T : <<" ">> \o t \in T
    <2>1. <<" ">> \in Seq(S)
      BY SignFacts
    <2>2. \A t \in Seq(S) : <<" ">> \o t \in Seq(S)
      BY <2>1, JoinFacts
    <2> QED
      BY <2>1, <2>2
  <1>3. ASSUME NEW t \in Seq(T) PROVE Texts(t) \in Seq(T) /\ Len(Texts(t)) = Len(t)
    <2>1. DOMAIN t = 1 .. Len(t) /\ Len(t) \in Nat /\ \A i \in 1 .. Len(t) : t[i] \in T
      <3> HIDE DEF T
      <3> QED
        BY SequenceFacts
    <2>2. \A i \in 1 .. Len(t) : Word(t, i) \in T
      <3> HIDE DEF T
      <3> QED
        BY <1>2, <2>1
    <2>3. Texts(t) \in [1 .. Len(t) -> T]
      <3> HIDE DEF Word, T
      <3> QED
        BY <2>1, <2>2
    <2> HIDE DEF Texts, T
    <2> QED
      BY <2>1, <2>3, SequenceOf
  <1>4. TokensToString(tokens) \in Seq(S)
    <2> HIDE DEF Texts
    <2> QED
      BY <1>1, <1>3, FlattenFacts
  <1>5. TokensToString(<<v>>) = v
    <2>1. Texts(<<v>>) = <<v>>
      OBVIOUS
    <2>2. <<v>> = Append(<<>>, v) /\ <<>> \in Seq(Seq(S))
      OBVIOUS
    <2>3. FlattenSeq(Append(<<>>, v)) = FlattenSeq(<<>>) \o v /\ FlattenSeq(<<>>) = <<>>
      BY <2>2, FlattenFacts
    <2>4. FlattenSeq(<<v>>) = v
      BY <2>2, <2>3, EmptyFacts
    <2> QED
      BY <1>1, <2>1, <2>4
  <1>6. ASSUME tokens # <<>>
        PROVE  TokensToString(Append(tokens, v)) = TokensToString(tokens) \o (<<" ">> \o v)
    <2>1. PICK l \in Nat : l = Len(tokens) /\ l # 0
      <3> HIDE DEF T
      <3> QED
        BY <1>6, SequenceFacts
    <2> DEFINE t == Append(tokens, v)
    <2>2. /\ t \in Seq(T) /\ Len(t) = l + 1 /\ t[l + 1] = v /\ DOMAIN t = 1 .. l + 1
          /\ \A i \in 1 .. l : t[i] = tokens[i]
      <3>1. PICK A : A = T
        OBVIOUS
      <3>2. tokens \in Seq(A) /\ v \in A
        BY <3>1
      <3> HIDE DEF T
      <3> QED
        BY <2>1, <3>1, <3>2, AppendFacts
    <2> HIDE DEF t
    <2>3. PICK x \in T : x = <<" ">> \o v
      BY <1>2
    <2>4. DOMAIN tokens = 1 .. l
      BY <2>1
    <2>5. Texts(t)[l + 1] = x /\ \A i \in 1 .. l : Texts(t)[i] = Texts(tokens)[i]
      <3>0. l + 1 \in 1 .. l + 1 /\ l + 1 # 1
        BY <2>1
      <3>1. Texts(t)[l + 1] = Word(t, l + 1)
        <4> HIDE DEF Word
        <4> QED
          BY <2>2, <3>0
      <3>2. Word(t, l + 1) = x
        BY <2>2, <2>3, <3>0, Zenon
      <3>3. ASSUME NEW i \in 1 .. l PROVE Texts(t)[i] = Texts(tokens)[i]
        <4>1. i \in 1 .. l + 1
          OBVIOUS
        <4>2. Texts(t)[i] = Word(t, i) /\ Texts(tokens)[i] = Word(tokens, i)
          <5> HIDE DEF Word
          <5> QED
            BY <2>2, <2>4, <4>1
        <4>3. t[i] = tokens[i]
          BY <2>2
        <4> QED
          BY <4>2, <4>3
      <3> HIDE DEF Texts
      <3> QED
        BY <3>1, <3>2, <3>3
    <2>6. /\ Texts(tokens) \in Seq(T) /\ l = Len(Texts(tokens))
          /\ Texts(t) \in Seq(T) /\ Len(Texts(t)) = l + 1
      <3> HIDE DEF Texts
      <3> QED
        BY <1>3, <2>1, <2>2
    <2>7. Texts(t) = Append(Texts(tokens), x)
      <3> HIDE DEF Texts, T
      <3> QED
        BY <2>5, <2>6, AppendIs
    <2>8. FlattenSeq(Texts(t)) = FlattenSeq(Texts(tokens)) \o x
      <3> HIDE DEF Texts
      <3> QED
        BY <2>6, <2>7, FlattenFacts
    <2> HIDE DEF Texts
    <2> QED
      BY <1>1, <2>3, <2>8 DEF t
  <1> QED
    BY <1>4, <1>5, <1>6

\* One more block is closed.
LEMMA ClosingsFacts ==
    ASSUME NEW S, Signs \subseteq S, NEW inner \in Nat \ {0}, NEW outer \in Nat \ {0}
    PROVE  /\ Closings(inner, outer) \in Seq(S)
           /\ outer >= inner => Closings(inner, outer) = <<>>
           /\ outer < inner => Closings(inner, outer) =
                  Closings(inner, outer + 1) \o Indented(outer, <<"}", "\n">>)
  <1> DEFINE T == Seq(S)
             Close(k) == Indented(inner - k, <<"}", "\n">>)
             Texts(o) == [k \in 1 .. inner - o |-> Close(k)]
  <1>1. \A o : Closings(inner, o) = FlattenSeq(Texts(o))
    BY DEF Closings
  <1>2. ASSUME NEW o \in Nat \ {0}, NEW k \in 1 .. inner - o PROVE Close(k) \in T
    <2>1. inner - k \in Nat \ {0}
      OBVIOUS
    <2>2. <<"}", "\n">> \in Seq(S)
      BY SignFacts
    <2> QED
      BY <2>1, <2>2, IndentedFacts
  <1>3. ASSUME NEW o \in Nat \ {0}, o < inner
        PROVE  Texts(o) \in Seq(T) /\ Len(Texts(o)) = inner - o
    <2>1. PICK l \in Nat : l = inner - o
      BY <1>3
    <2>2. Texts(o) \in [1 .. l -> T]
      <3> HIDE DEF Close, T
      <3> QED
        BY <1>2, <2>1
    <2> HIDE DEF Texts, T
    <2> QED
      BY <2>1, <2>2, SequenceOf
  <1>4. ASSUME NEW o \in Nat \ {0}, o >= inner PROVE Texts(o) = <<>>
    <2>1. 1 .. inner - o = 1 .. 0
      BY <1>4
    <2>2. Texts(o) \in [1 .. 0 -> T]
      <3> HIDE DEF Close, T
      <3> QED
        BY <1>2, <2>1
    <2> HIDE DEF Texts, T
    <2>3. Texts(o) \in Seq(T) /\ Len(Texts(o)) = 0
      BY <2>2, SequenceOf
    <2> QED
      BY <2>3, SequenceFacts
  <1>5. FlattenSeq(<<>>) = <<>> /\ <<>> \in Seq(T)
    BY DEF FlattenSeq
  <1>6. ASSUME outer < inner
        PROVE  FlattenSeq(Texts(outer)) =
                   FlattenSeq(Texts(outer + 1)) \o Indented(outer, <<"}", "\n">>)
    <2>1. PICK l \in Nat : l = inner - (outer + 1) /\ inner - outer = l + 1
      BY <1>6
    <2>2. Texts(outer) \in Seq(T) /\ Len(Texts(outer)) = l + 1
      <3> HIDE DEF Texts, T
      <3> QED
        BY <1>3, <1>6, <2>1
    <2>3. Texts(outer + 1) \in Seq(T) /\ Len(Texts(outer + 1)) = l
      <3>1. outer + 1 \in Nat \ {0}
        OBVIOUS
      <3>2. CASE outer + 1 < inner
        <4> HIDE DEF Texts, T
        <4> QED
          BY <1>3, <2>1, <3>1, <3>2
      <3>3. CASE outer + 1 >= inner
        <4>1. Texts(outer + 1) = <<>> /\ l = 0
          <5>1. l = 0
            BY <1>6, <2>1, <3>3
          <5> HIDE DEF Texts
          <5> QED
            BY <1>4, <3>1, <3>3, <5>1
        <4> HIDE DEF Texts, T
        <4> QED
          BY <1>5, <4>1, EmptyFacts
      <3> HIDE DEF Texts, T
      <3> QED
        BY <3>2, <3>3
    <2>4. PICK x \in T : x = Indented(outer, <<"}", "\n">>) /\ x = Close(l + 1)
      <3>1. inner - (l + 1) = outer /\ l + 1 \in 1 .. inner - outer
        BY <2>1
      <3>2. Close(l + 1) \in T
        <4> HIDE DEF Close, T
        <4> QED
          BY <1>2, <3>1
      <3> QED
        BY <3>1, <3>2
    <2>5. Texts(outer)[l + 1] = x /\ \A i \in 1 .. l : Texts(outer)[i] = Texts(outer + 1)[i]
      <3> HIDE DEF Close
      <3>1. l + 1 \in 1 .. inner - outer
            /\ \A i \in 1 .. l : i \in 1 .. inner - outer /\ i \in 1 .. inner - (outer + 1)
        BY <2>1
      <3>2. Texts(outer)[l + 1] = Close(l + 1)
        BY <3>1
      <3>3. ASSUME NEW i \in 1 .. l PROVE Texts(outer)[i] = Texts(outer + 1)[i]
        BY <3>1
      <3> HIDE DEF Texts
      <3> QED
        BY <2>4, <3>2, <3>3
    <2>6. Texts(outer) = Append(Texts(outer + 1), x)
      <3> HIDE DEF Texts, T
      <3> QED
        BY <2>2, <2>3, <2>5, AppendIs
    <2> HIDE DEF Texts
    <2> QED
      BY <2>3, <2>4, <2>6, FlattenFacts
  <1>7. FlattenSeq(Texts(outer)) \in Seq(S)
    <2>1. CASE outer < inner
      <3> HIDE DEF Texts
      <3> QED
        BY <1>3, <2>1, FlattenFacts
    <2>2. CASE outer >= inner
      <3> HIDE DEF Texts, T
      <3>1. Texts(outer) = <<>>
        BY <1>4, <2>2
      <3>2. FlattenSeq(Texts(outer)) = <<>>
        BY <1>5, <3>1
      <3> QED
        BY <3>2, EmptyFacts
    <2> HIDE DEF Texts, T
    <2> QED
      BY <2>1, <2>2
  <1> HIDE DEF Texts
  <1> QED
    BY <1>1, <1>4, <1>5, <1>6, <1>7

LEMMA CompleteFacts ==
    ASSUME NEW S, Signs \subseteq S, NEW s \in Built(S), NEW outer \in Nat \ {0}
    PROVE  /\ s.depth \in Nat \ {0} /\ s.tokens \in Seq(Seq(S)) /\ s.tokens # <<>>
           /\ s.block \in BOOLEAN
           /\ Inner(s) \in Nat \ {0}
           /\ Opening(s) \in Seq(S) /\ Ending(s) \in Seq(S)
           /\ Closings(Inner(s), outer) \in Seq(S)
           /\ Complete(s, outer) \in Seq(S)
  <1>1. /\ s.depth \in Nat \ {0} /\ s.tokens \in Seq(Seq(S)) /\ s.tokens # <<>>
        /\ s.block \in BOOLEAN
    BY DEF Built
  <1>2. Inner(s) \in Nat \ {0}
    BY <1>1 DEF Inner
  <1>3. Opening(s) \in Seq(S)
    <2>1. PICK t \in Seq(S) : t = TokensToString(s.tokens)
      BY <1>1, TokensToStringFacts, EmptyFacts
    <2> QED
      BY <1>1, <2>1, IndentedFacts DEF Opening
  <1>4. Ending(s) \in Seq(S)
    BY SignFacts DEF Ending
  <1>5. Closings(Inner(s), outer) \in Seq(S)
    BY <1>2, ClosingsFacts
  <1>6. Opening(s) \o Ending(s) \in Seq(S)
    BY <1>3, <1>4, JoinFacts
  <1>7. Complete(s, outer) \in Seq(S)
    BY <1>5, <1>6, JoinFacts DEF Complete
  <1> QED
    BY <1>1, <1>2, <1>3, <1>4, <1>5, <1>7

\* A parser with texts over S, whose last statement is still being read or is
\* in the block that is open.
Builds(S, p) ==
    /\ DOMAIN p = {"input", "config", "config_stack", "last_token_type", "verdict"}
    /\ p.input \in Seq(S)
    /\ p.config \in Seq(Built(S))
    /\ p.config_stack \in Nat \ {0}
    /\ p.config = <<>> <=> p.last_token_type = "START"
    /\ p.last_token_type = "NORMAL" =>
           p.config[Len(p.config)].depth = p.config_stack /\ ~p.config[Len(p.config)].block
    /\ p.config # <<>> => p.config_stack <= Inner(p.config[Len(p.config)])

\* What ToString writes of what a parser has read: of the last statement as far
\* as it goes.
LastPart(p) ==
    LET s == p.config[Len(p.config)]
    IN  IF p.last_token_type = "NORMAL" THEN Opening(s) ELSE Complete(s, p.config_stack)

Part(p, i) ==
    IF i = Len(p.config) THEN LastPart(p) ELSE Complete(p.config[i], p.config[i + 1].depth)

Written(p) == FlattenSeq([i \in 1 .. Len(p.config) |-> Part(p, i)])

Behind(p) ==
    IF p.last_token_type \in {"STATEMENT_END", "START_BLOCK", "END_BLOCK"} THEN <<"\n">> ELSE <<>>

LEMMA PartFacts ==
    ASSUME NEW S, Signs \subseteq S, NEW p, Builds(S, p), NEW i \in 1 .. Len(p.config)
    PROVE  Part(p, i) \in Seq(S)
  <1>1. PICK c \in Seq(Built(S)) : c = p.config
    BY DEF Builds
  <1>2. PICK l \in Nat : l = Len(c) /\ i \in 1 .. l
    BY <1>1
  <1>3. c[i] \in Built(S) /\ p.config_stack \in Nat \ {0}
    BY <1>1, <1>2, SequenceFacts DEF Builds
  <1>4. Opening(c[i]) \in Seq(S) /\ \A o \in Nat \ {0} : Complete(c[i], o) \in Seq(S)
    BY <1>3, CompleteFacts
  <1>5. CASE i = l
    BY <1>1, <1>2, <1>3, <1>4, <1>5 DEF Part, LastPart
  <1>6. CASE i # l
    <2>1. i + 1 \in 1 .. l
      BY <1>2, <1>6
    <2>2. c[i + 1] \in Built(S)
      BY <1>2, <2>1, SequenceFacts
    <2>3. c[i + 1].depth \in Nat \ {0}
      BY <2>2 DEF Built
    <2> QED
      BY <1>1, <1>2, <1>4, <1>6, <2>3 DEF Part
  <1> QED
    BY <1>5, <1>6

LEMMA PartsFacts ==
    ASSUME NEW S, Signs \subseteq S, NEW p, Builds(S, p), NEW l \in Nat, l = Len(p.config)
    PROVE  /\ [i \in 1 .. l |-> Part(p, i)] \in Seq(Seq(S))
           /\ Len([i \in 1 .. l |-> Part(p, i)]) = l
           /\ Written(p) \in Seq(S)
  <1>1. PICK s \in [1 .. l -> Seq(S)] : s = [i \in 1 .. l |-> Part(p, i)]
    BY PartFacts
  <1>2. s \in Seq(Seq(S)) /\ Len(s) = l
    <2>1. PICK T : T = Seq(S)
      OBVIOUS
    <2>2. s \in [1 .. l -> T]
      BY <2>1
    <2> QED
      BY <2>1, <2>2, SequenceOf
  <1>3. FlattenSeq(s) \in Seq(S)
    BY <1>2, FlattenFacts, EmptyFacts
  <1> QED
    BY <1>1, <1>2, <1>3 DEF Written

\* The parts up to n, and one more.
LEMMA PartsAppend ==
    ASSUME NEW T, NEW l \in Nat, NEW f \in [1 .. l + 1 -> T]
    PROVE  f = Append([i \in 1 .. l |-> f[i]], f[l + 1])
  <1>1. PICK g \in [1 .. l -> T] : g = [i \in 1 .. l |-> f[i]]
    <2>1. \A i \in 1 .. l : f[i] \in T
      OBVIOUS
    <2> QED
      BY <2>1
  <1>2. g \in Seq(T) /\ Len(g) = l /\ \A i \in 1 .. l : f[i] = g[i]
    BY <1>1, SequenceOf
  <1>3. f \in Seq(T) /\ Len(f) = l + 1
    <2>1. l + 1 \in Nat
      OBVIOUS
    <2> QED
      BY <2>1, SequenceOf
  <1>4. PICK x \in T : x = f[l + 1]
    OBVIOUS
  <1> QED
    BY <1>1, <1>2, <1>3, <1>4, AppendIs

\* What is written when the last of l + 1 statements is set apart.
LEMMA WrittenLast ==
    ASSUME NEW S, Signs \subseteq S, NEW p, Builds(S, p), NEW l \in Nat, Len(p.config) = l + 1
    PROVE  /\ [i \in 1 .. l |-> Part(p, i)] \in Seq(Seq(S))
           /\ Len([i \in 1 .. l |-> Part(p, i)]) = l
           /\ LastPart(p) \in Seq(S)
           /\ Written(p) = FlattenSeq([i \in 1 .. l |-> Part(p, i)]) \o LastPart(p)
  <1>1. PICK T : T = Seq(S)
    OBVIOUS
  <1>2. \A i \in 1 .. l + 1 : Part(p, i) \in T
    BY <1>1, PartFacts
  <1>3. PICK f \in [1 .. l + 1 -> T] : f = [i \in 1 .. l + 1 |-> Part(p, i)]
    BY <1>2
  <1>4. PICK g \in [1 .. l -> T] : g = [i \in 1 .. l |-> Part(p, i)]
    <2>1. \A i \in 1 .. l : i \in 1 .. l + 1
      OBVIOUS
    <2>2. \A i \in 1 .. l : Part(p, i) \in T
      BY <1>2, <2>1
    <2> QED
      BY <2>2
  <1>5. g \in Seq(T) /\ Len(g) = l
    BY SequenceOf
  <1>6. f[l + 1] = LastPart(p) /\ LastPart(p) \in T
    <2>1. l + 1 \in 1 .. l + 1
      OBVIOUS
    <2>2. f[l + 1] = Part(p, l + 1) /\ f[l + 1] \in T
      BY <1>3, <2>1
    <2> QED
      BY <2>2 DEF Part
  <1>7. f = Append(g, LastPart(p))
    <2>1. g = [i \in 1 .. l |-> f[i]]
      BY <1>3, <1>4
    <2> QED
      BY <1>6, <2>1, PartsAppend
  <1>8. Written(p) = FlattenSeq(f)
    BY <1>3 DEF Written
  <1>9. FlattenSeq(Append(g, LastPart(p))) = FlattenSeq(g) \o LastPart(p)
    BY <1>1, <1>5, <1>6, FlattenFacts
  <1> QED
    BY <1>1, <1>4, <1>5, <1>6, <1>7, <1>8, <1>9

\* More is written of the last statement.
LEMMA LastGrows ==
    ASSUME NEW S, Signs \subseteq S, NEW p, Builds(S, p), NEW q, Builds(S, q),
           p.config # <<>>, Len(q.config) = Len(p.config),
           \A i \in 1 .. Len(p.config) - 1 : q.config[i] = p.config[i],
           q.config[Len(p.config)].depth = p.config[Len(p.config)].depth,
           NEW t \in Seq(S), LastPart(q) = LastPart(p) \o t
    PROVE  Written(q) = Written(p) \o t
  <1>1. PICK l \in Nat : Len(p.config) = l + 1
    <2>1. PICK n \in Nat : n = Len(p.config) /\ n # 0
      BY SequenceFacts DEF Builds
    <2>2. n - 1 \in Nat /\ n = (n - 1) + 1
      BY <2>1
    <2> QED
      BY <2>1, <2>2
  <1> DEFINE P == [i \in 1 .. l |-> Part(p, i)]
             Q == [i \in 1 .. l |-> Part(q, i)]
  <1>2. P \in Seq(Seq(S)) /\ LastPart(p) \in Seq(S) /\ Written(p) = FlattenSeq(P) \o LastPart(p)
    BY <1>1, WrittenLast
  <1>3. Written(q) = FlattenSeq(Q) \o LastPart(q)
    BY <1>1, WrittenLast
  <1>4. ASSUME NEW i \in 1 .. l PROVE Part(q, i) = Part(p, i)
    <2>1. (l + 1) - 1 = l /\ i # l + 1 /\ (i + 1 = l + 1 \/ i + 1 \in 1 .. l)
      OBVIOUS
    <2>2. q.config[i] = p.config[i] /\ q.config[i + 1].depth = p.config[i + 1].depth
      BY <1>1, <2>1
    <2> QED
      BY <1>1, <2>1, <2>2 DEF Part
  <1>5. Q = P
    BY <1>4
  <1>6. FlattenSeq(P) \in Seq(S)
    <2> HIDE DEF P
    <2> QED
      BY <1>2, FlattenFacts
  <1> HIDE DEF P, Q
  <1>7. PICK a \in Seq(S), b \in Seq(S) : a = FlattenSeq(P) /\ b = LastPart(p)
    BY <1>2, <1>6
  <1>8. Written(q) = a \o (b \o t) /\ Written(p) = a \o b
    BY <1>2, <1>3, <1>5, <1>7
  <1>9. (a \o b) \o t = a \o (b \o t)
    BY JoinJoin, SMTT(30)
  <1> QED
    BY <1>8, <1>9

\* A statement is added behind those that are complete.
LEMMA StatementWritten ==
    ASSUME NEW S, Signs \subseteq S, NEW p, Builds(S, p), NEW q, Builds(S, q),
           p.last_token_type # "NORMAL",
           NEW s \in Built(S), s.depth = p.config_stack, q.config = Append(p.config, s)
    PROVE  Written(q) = Written(p) \o LastPart(q)
  <1>1. PICK l \in Nat : l = Len(p.config)
    BY DEF Builds
  <1>2. /\ Len(q.config) = l + 1 /\ q.config[l + 1] = s
        /\ \A i \in 1 .. l : q.config[i] = p.config[i]
    BY <1>1, AppendFacts DEF Builds
  <1> DEFINE P == [i \in 1 .. l |-> Part(p, i)]
             Q == [i \in 1 .. l |-> Part(q, i)]
  <1>3. Written(q) = FlattenSeq(Q) \o LastPart(q)
    BY <1>2, WrittenLast
  <1>4. Written(p) = FlattenSeq(P)
    BY <1>1 DEF Written
  <1>5. ASSUME NEW i \in 1 .. l PROVE Part(q, i) = Part(p, i)
    <2>1. i # l + 1 /\ (i = l \/ i + 1 \in 1 .. l)
      OBVIOUS
    <2>2. Part(q, i) = Complete(q.config[i], q.config[i + 1].depth)
      BY <1>2, <2>1 DEF Part
    <2>3. CASE i = l
      BY <1>1, <1>2, <2>2, <2>3 DEF Part, LastPart
    <2>4. CASE i # l
      BY <1>1, <1>2, <2>1, <2>2, <2>4 DEF Part
    <2> QED
      BY <2>3, <2>4
  <1>6. Q = P
    BY <1>5
  <1> HIDE DEF P, Q
  <1> QED
    BY <1>3, <1>4, <1>6

Replaced(c, new) == [c EXCEPT ![Len(c)] = new]

LEMMA LastChanges ==
    ASSUME NEW B, NEW c \in Seq(B), c # <<>>, NEW new \in B
    PROVE  /\ Replaced(c, new) \in Seq(B) /\ Replaced(c, new) # <<>>
           /\ Len(Replaced(c, new)) = Len(c) /\ Replaced(c, new)[Len(c)] = new
  BY DEF Replaced

LEMMA OthersStay ==
    ASSUME NEW B, NEW c \in Seq(B), c # <<>>, NEW new \in B, NEW i \in 1 .. Len(c) - 1
    PROVE  Replaced(c, new)[i] = c[i]
  BY DEF Replaced

LEMMA AppendIsSome ==
    ASSUME NEW T, NEW t \in Seq(T), NEW a \in T
    PROVE  Append(t, a) \in Seq(T) /\ Append(t, a) # <<>>
  <1>1. Append(t, a) \in Seq(T) /\ Len(Append(t, a)) = Len(t) + 1 /\ Len(t) \in Nat
    BY AppendFacts
  <1>2. Len(t) + 1 # 0
    BY <1>1
  <1> QED
    BY <1>1, <1>2, SequenceFacts

LEMMA DepthFacts ==
    ASSUME NEW n \in Nat \ {0}
    PROVE  /\ n + 1 \in Nat \ {0} /\ n <= n /\ n < n + 1 /\ (n + 1) - 1 = n
           /\ n > 1 => n - 1 \in Nat \ {0} /\ n = (n - 1) + 1
           /\ \A m \in Nat : n + 1 <= m => n < m /\ n <= m
  OBVIOUS

--------------------------------------------------------------------------------
(* What a token adds to what is written                                       *)

\* A token is written between white space, and something tells it from the word
\* before it.
Adds(S, p, q, value) ==
    \E before \in Seq(S) :
        /\ IsBlank(before)
        /\ Written(q) = Written(p) \o (before \o (value \o Behind(q)))
        /\ p.last_token_type = "NORMAL" =>
               before = <<" ">> \/ (before = <<>> /\ value = <<";">>)

Took(p, q, token) ==
    /\ q.input = token.rest /\ q.last_token_type = token.type
    /\ q.verdict = p.verdict
    /\ DOMAIN q = {"input", "config", "config_stack", "last_token_type", "verdict"}

LEMMA BlankFacts == IsBlank(<<>>) /\ IsBlank(<<" ">>)
  <1>1. Len(<<" ">>) = 1 /\ <<" ">>[1] = " " /\ " " \in Whitespace
    BY DEF Whitespace
  <1>2. \A i \in 1 .. 1 : i = 1
    OBVIOUS
  <1>3. Len(<<>>) = 0 /\ 1 .. 0 = {}
    OBVIOUS
  <1> QED
    BY <1>1, <1>2, <1>3 DEF IsBlank

\* The statement that a parser has read last.
LEMMA LastStatement ==
    ASSUME NEW S, NEW p, Builds(S, p), p.last_token_type # "START"
    PROVE  \E c \in Seq(Built(S)), l \in Nat \ {0} :
               /\ c = p.config /\ c # <<>> /\ l = Len(c) /\ c[l] \in Built(S)
               /\ p.last_token_type = "NORMAL" =>
                      c[l].depth = p.config_stack /\ ~c[l].block
               /\ p.config_stack <= Inner(c[l])
  <1>1. p.config \in Seq(Built(S)) /\ p.config # <<>>
    BY DEF Builds
  <1>2. PICK c \in Seq(Built(S)) : c = p.config /\ c # <<>>
    BY <1>1
  <1>3. PICK l \in Nat \ {0} : l = Len(c)
    BY <1>2, SequenceFacts
  <1>4. l \in 1 .. l
    OBVIOUS
  <1>5. c[l] \in Built(S)
    BY <1>3, <1>4, SequenceFacts
  <1>6. p.last_token_type = "NORMAL" => c[l].depth = p.config_stack /\ ~c[l].block
    BY <1>2, <1>3 DEF Builds
  <1>7. p.config_stack <= Inner(c[l])
    BY <1>2, <1>3 DEF Builds
  <1> QED
    BY <1>2, <1>3, <1>5, <1>6, <1>7

\* Nothing is closed before the block that a statement is in ends.
LEMMA StaysOpen ==
    ASSUME NEW S, Signs \subseteq S, NEW s \in Built(S)
    PROVE  Opening(s) \in Seq(S) /\ Complete(s, Inner(s)) = Opening(s) \o Ending(s)
  <1>1. 1 \in Nat \ {0}
    OBVIOUS
  <1>2. Inner(s) \in Nat \ {0} /\ Opening(s) \in Seq(S) /\ Ending(s) \in Seq(S)
    BY <1>1, CompleteFacts
  <1>3. Inner(s) >= Inner(s)
    BY <1>2
  <1>4. Closings(Inner(s), Inner(s)) = <<>>
    BY <1>2, <1>3, ClosingsFacts
  <1>5. Opening(s) \o Ending(s) \in Seq(S)
    BY <1>2, JoinFacts
  <1>6. (Opening(s) \o Ending(s)) \o <<>> = Opening(s) \o Ending(s)
    BY <1>5, EmptyFacts
  <1> QED
    BY <1>2, <1>4, <1>6 DEF Complete

\* One more of the blocks that end with a statement is closed.
LEMMA BlockCloses ==
    ASSUME NEW S, Signs \subseteq S, NEW s \in Built(S), NEW outer \in Nat \ {0},
           outer < Inner(s)
    PROVE  Complete(s, outer) = Complete(s, outer + 1) \o Indented(outer, <<"}", "\n">>)
  <1>1. outer + 1 \in Nat \ {0}
    OBVIOUS
  <1>2. PICK n \in Nat \ {0} : n = Inner(s)
    BY CompleteFacts
  <1>3. /\ Opening(s) \in Seq(S) /\ Ending(s) \in Seq(S)
        /\ Closings(Inner(s), outer + 1) \in Seq(S)
    BY <1>1, CompleteFacts
  <1>4. PICK x \in Seq(S) : x = Indented(outer, <<"}", "\n">>)
    BY SignFacts, IndentedFacts
  <1>5. Closings(Inner(s), outer) = Closings(Inner(s), outer + 1) \o x
    BY <1>2, <1>4, ClosingsFacts
  <1>6. PICK a \in Seq(S) : a = Opening(s) \o Ending(s)
    BY <1>3, JoinFacts
  <1>7. PICK b \in Seq(S) : b = Closings(Inner(s), outer + 1)
    BY <1>3
  <1>8. Complete(s, outer) = a \o (b \o x) /\ Complete(s, outer + 1) = a \o b
    BY <1>5, <1>6, <1>7 DEF Complete
  <1>9. (a \o b) \o x = a \o (b \o x)
    BY JoinJoin
  <1> QED
    BY <1>4, <1>8, <1>9

LEMMA WordAdds ==
    ASSUME NEW S, Signs \subseteq S, NEW p, Builds(S, p), p.last_token_type = "NORMAL",
           NEW token, token.type = "NORMAL", token.value \in Seq(S), token.rest \in Seq(S),
           NEW q, q = Consume(p, token)
    PROVE  Builds(S, q) /\ Took(p, q, token) /\ Adds(S, p, q, token.value)
  <1>1. PICK v \in Seq(S) : v = token.value
    OBVIOUS
  <1>2. PICK c \in Seq(Built(S)), l \in Nat \ {0} :
            /\ c = p.config /\ c # <<>> /\ l = Len(c) /\ c[l] \in Built(S)
            /\ c[l].depth = p.config_stack /\ ~c[l].block
    BY LastStatement, SMTT(30)
  <1>3. PICK old \in Built(S) : old = c[l] /\ old.depth = p.config_stack /\ ~old.block
    BY <1>2
  <1>4. PICK new \in Built(S) :
            /\ new = [old EXCEPT !.tokens = Append(@, v)]
            /\ new.depth = old.depth /\ new.block = old.block
            /\ new.tokens = Append(old.tokens, v)
    <2>1. PICK T : T = Seq(S)
      OBVIOUS
    <2>2. Append(old.tokens, v) \in Seq(T) /\ Append(old.tokens, v) # <<>>
      <3>1. old.tokens \in Seq(T) /\ v \in T
        BY <2>1 DEF Built
      <3> QED
        BY <3>1, AppendIsSome, Zenon
    <2>3. PICK n : n = [old EXCEPT !.tokens = Append(@, v)]
      OBVIOUS
    <2>4. n \in Built(S) /\ n.depth = old.depth /\ n.block = old.block
          /\ n.tokens = Append(old.tokens, v)
      BY <2>1, <2>2, <2>3 DEF Built
    <2> QED
      BY <2>3, <2>4
  <1>5. PICK d : d = Replaced(c, new)
    OBVIOUS
  <1>6. /\ d \in Seq(Built(S)) /\ d # <<>> /\ Len(d) = l /\ d[l] = new
        /\ \A i \in 1 .. l - 1 : d[i] = c[i]
    <2>1. c # <<>> /\ l = Len(c)
      BY <1>2, Zenon
    <2>2. /\ Replaced(c, new) \in Seq(Built(S)) /\ Replaced(c, new) # <<>>
          /\ Len(Replaced(c, new)) = Len(c) /\ Replaced(c, new)[Len(c)] = new
      BY <2>1, LastChanges, Zenon
    <2>3. ASSUME NEW i \in 1 .. l - 1 PROVE Replaced(c, new)[i] = c[i]
      <3>1. i \in 1 .. Len(c) - 1
        BY <2>1, Zenon
      <3> QED
        BY <2>1, <3>1, OthersStay, Zenon
    <2> QED
      BY <1>5, <2>1, <2>2, <2>3
  <1>7. q = [p EXCEPT !.input = token.rest, !.last_token_type = "NORMAL", !.config = d]
    <2>1. d = AddToken(p.config, v)
      BY <1>2, <1>3, <1>4, <1>5 DEF AddToken, Replaced
    <2>2. AddToken(p.config, token.value) = d
      BY <1>1, <2>1
    <2> QED
      BY <2>2 DEF Consume
  <1>8. /\ q.input = token.rest /\ q.last_token_type = "NORMAL" /\ q.config = d
        /\ q.config_stack = p.config_stack /\ q.verdict = p.verdict
        /\ DOMAIN q = {"input", "config", "config_stack", "last_token_type", "verdict"}
    BY <1>7 DEF Builds
  <1>9. Builds(S, q)
    <2>1. new.depth = q.config_stack /\ ~new.block /\ q.config_stack <= Inner(new)
      BY <1>3, <1>4, <1>8 DEF Inner, Builds
    <2> QED
      BY <1>6, <1>8, <2>1 DEF Builds
  <1>10. PICK i \in Seq(S), w \in Seq(S), x \in Seq(S) :
             /\ Opening(old) = i \o w /\ x = <<" ">> \o v
             /\ Opening(new) = i \o (w \o x)
    <2>1. old.tokens \in Seq(Seq(S)) /\ old.tokens # <<>> /\ old.depth \in Nat \ {0}
      BY DEF Built
    <2>2. PICK w \in Seq(S) : w = TokensToString(old.tokens)
      BY <2>1, TokensToStringFacts
    <2>3. PICK x \in Seq(S) : x = <<" ">> \o v
      BY SignFacts, JoinFacts
    <2>4. TokensToString(new.tokens) = w \o x /\ w \o x \in Seq(S)
      <3>1. TokensToString(Append(old.tokens, v)) = TokensToString(old.tokens) \o (<<" ">> \o v)
        BY <2>1, TokensToStringFacts
      <3> QED
        BY <1>4, <2>2, <2>3, <3>1, JoinFacts
    <2>5. PICK i \in Seq(S) : i = Indent(old.depth)
      BY <2>1, IndentedFacts
    <2>6. Opening(old) = i \o w
      BY <2>1, <2>2, <2>5, IndentedFacts DEF Opening
    <2>7. Opening(new) = i \o (w \o x)
      <3>1. PICK u \in Seq(S) : u = w \o x
        BY <2>4
      <3>2. Indented(old.depth, u) = i \o u
        BY <2>1, <2>5, IndentedFacts
      <3> QED
        BY <1>4, <2>4, <3>1, <3>2 DEF Opening
    <2> QED
      BY <2>3, <2>6, <2>7
  <1>11. LastPart(q) = LastPart(p) \o x
    <2>1. LastPart(q) = i \o (w \o x) /\ LastPart(p) = i \o w
      BY <1>2, <1>3, <1>6, <1>8, <1>10 DEF LastPart
    <2>2. (i \o w) \o x = i \o (w \o x)
      BY JoinJoin, SMTT(30)
    <2> QED
      BY <2>1, <2>2
  <1>12. Written(q) = Written(p) \o x
    <2>1. /\ p.config # <<>> /\ Len(q.config) = Len(p.config)
          /\ \A n \in 1 .. Len(p.config) - 1 : q.config[n] = p.config[n]
          /\ q.config[Len(p.config)].depth = p.config[Len(p.config)].depth
      <3>1. d[l].depth = c[l].depth
        BY <1>3, <1>4, <1>6
      <3> QED
        BY <1>2, <1>6, <1>8, <3>1
    <2> QED
      BY <1>9, <1>11, <2>1, LastGrows
  <1>13. Adds(S, p, q, v)
    <2>1. Behind(q) = <<>> /\ v \o <<>> = v
      BY <1>8, EmptyFacts DEF Behind
    <2>2. IsBlank(<<" ">>) /\ <<" ">> \in Seq(S)
      BY BlankFacts, SignFacts
    <2> QED
      BY <1>10, <1>12, <2>1, <2>2 DEF Adds
  <1> QED
    BY <1>1, <1>8, <1>9, <1>13 DEF Took

LEMMA StatementAdds ==
    ASSUME NEW S, Signs \subseteq S, NEW p, Builds(S, p), p.last_token_type # "NORMAL",
           NEW token, token.type = "NORMAL", token.value \in Seq(S), token.rest \in Seq(S),
           NEW q, q = Consume(p, token)
    PROVE  Builds(S, q) /\ Took(p, q, token) /\ Adds(S, p, q, token.value)
  <1>1. PICK v \in Seq(S) : v = token.value
    OBVIOUS
  <1>2. PICK c \in Seq(Built(S)), l \in Nat : c = p.config /\ l = Len(c)
    BY DEF Builds
  <1>3. p.config_stack \in Nat \ {0}
    BY DEF Builds
  <1>4. PICK s \in Built(S) : /\ s = [depth |-> p.config_stack, tokens |-> <<v>>, block |-> FALSE]
                              /\ s.depth = p.config_stack /\ ~s.block /\ s.tokens = <<v>>
    <2>1. PICK T : T = Seq(S)
      OBVIOUS
    <2>2. <<v>> \in Seq(T) /\ <<v>> # <<>>
      BY <2>1
    <2>3. PICK n : n = [depth |-> p.config_stack, tokens |-> <<v>>, block |-> FALSE]
      OBVIOUS
    <2>4. n \in Built(S) /\ n.depth = p.config_stack /\ ~n.block /\ n.tokens = <<v>>
      BY <1>3, <2>1, <2>2, <2>3 DEF Built
    <2> QED
      BY <2>3, <2>4
  <1>5. PICK d \in Seq(Built(S)) : d = Append(c, s) /\ d # <<>> /\ Len(d) = l + 1 /\ d[l + 1] = s
    <2>1. /\ Append(c, s) \in Seq(Built(S)) /\ Append(c, s) # <<>>
          /\ Len(Append(c, s)) = Len(c) + 1 /\ Append(c, s)[Len(c) + 1] = s
      BY AppendFacts
    <2> QED
      BY <1>2, <2>1
  <1>6. q = [p EXCEPT !.input = token.rest, !.last_token_type = "NORMAL", !.config = d]
    <2>1. d = AddStatement(p.config, p.config_stack, v)
      BY <1>2, <1>4, <1>5 DEF AddStatement
    <2> QED
      BY <1>1, <2>1 DEF Consume
  <1>7. /\ q.input = token.rest /\ q.last_token_type = "NORMAL" /\ q.config = d
        /\ q.config_stack = p.config_stack /\ q.verdict = p.verdict
        /\ DOMAIN q = {"input", "config", "config_stack", "last_token_type", "verdict"}
    BY <1>6 DEF Builds
  <1>8. Builds(S, q)
    <2>1. s.depth = q.config_stack /\ ~s.block /\ q.config_stack <= Inner(s)
      BY <1>3, <1>4, <1>7 DEF Inner
    <2>2. q.config[Len(q.config)] = s
      BY <1>5, <1>7
    <2> QED
      BY <1>3, <1>5, <1>7, <2>1, <2>2 DEF Builds
  <1>9. PICK i \in Seq(S) : i = Indent(p.config_stack) /\ IsBlank(i)
    BY <1>3, IndentedFacts, EmptyFacts
  <1>10. LastPart(q) = i \o v
    <2>1. TokensToString(<<v>>) = v
      BY EmptyFacts, TokensToStringFacts
    <2>2. Opening(s) = i \o v
      BY <1>3, <1>4, <1>9, <2>1, IndentedFacts, ZenonT(40) DEF Opening
    <2> QED
      BY <1>5, <1>7, <2>2 DEF LastPart
  <1>11. Written(q) = Written(p) \o (i \o v)
    <2>1. s.depth = p.config_stack /\ q.config = Append(p.config, s)
      BY <1>2, <1>4, <1>5, <1>7
    <2>2. Written(q) = Written(p) \o LastPart(q)
      BY <1>8, <2>1, StatementWritten
    <2> QED
      BY <1>10, <2>2
  <1>12. Adds(S, p, q, v)
    <2>1. Behind(q) = <<>> /\ v \o <<>> = v
      BY <1>7, EmptyFacts DEF Behind
    <2> QED
      BY <1>9, <1>11, <2>1 DEF Adds
  <1> QED
    BY <1>1, <1>7, <1>8, <1>12 DEF Took

LEMMA EndAdds ==
    ASSUME NEW S, Signs \subseteq S, NEW p, Builds(S, p), p.last_token_type = "NORMAL",
           NEW token, token.type = "STATEMENT_END", token.value = <<";">>, token.rest \in Seq(S),
           NEW q, q = Consume(p, token)
    PROVE  Builds(S, q) /\ Took(p, q, token) /\ Adds(S, p, q, token.value)
  <1>1. PICK c \in Seq(Built(S)), l \in Nat \ {0} :
            /\ c = p.config /\ c # <<>> /\ l = Len(c) /\ c[l] \in Built(S)
            /\ c[l].depth = p.config_stack /\ ~c[l].block
    BY LastStatement, ZenonT(40)
  <1>2. PICK s \in Built(S) : s = c[l] /\ s.depth = p.config_stack /\ ~s.block
    BY <1>1
  <1>3. q = [p EXCEPT !.input = token.rest, !.last_token_type = "STATEMENT_END"]
    BY DEF Consume
  <1>4. /\ q.input = token.rest /\ q.last_token_type = "STATEMENT_END" /\ q.config = c
        /\ q.config_stack = p.config_stack /\ q.verdict = p.verdict
        /\ DOMAIN q = {"input", "config", "config_stack", "last_token_type", "verdict"}
    BY <1>1, <1>3 DEF Builds
  <1>5. Builds(S, q)
    BY <1>1, <1>4 DEF Builds
  <1>6. PICK o \in Seq(S), x \in Seq(S) : o = Opening(s) /\ x = <<";", "\n">>
    BY StaysOpen, SignFacts
  <1>7. LastPart(q) = LastPart(p) \o x
    <2>1. LastPart(p) = o
      BY <1>1, <1>2, <1>6 DEF LastPart
    <2>2. q.config_stack = Inner(s) /\ Ending(s) = x
      BY <1>2, <1>4, <1>6 DEF Inner, Ending
    <2>3. LastPart(q) = Complete(s, Inner(s))
      BY <1>1, <1>2, <1>4, <2>2 DEF LastPart
    <2> QED
      BY <1>6, <2>1, <2>2, <2>3, StaysOpen
  <1>8. Written(q) = Written(p) \o x
    <2>1. /\ p.config # <<>> /\ Len(q.config) = Len(p.config)
          /\ \A n \in 1 .. Len(p.config) - 1 : q.config[n] = p.config[n]
          /\ q.config[Len(p.config)].depth = p.config[Len(p.config)].depth
      BY <1>1, <1>4
    <2> QED
      BY <1>5, <1>7, <2>1, LastGrows
  <1>9. Adds(S, p, q, token.value)
    <2>1. Behind(q) = <<"\n">> /\ x = <<";">> \o <<"\n">> /\ <<>> \o x = x
      BY <1>4, <1>6, SignFacts, EmptyFacts DEF Behind
    <2>2. IsBlank(<<>>) /\ <<>> \in Seq(S)
      BY BlankFacts, EmptyFacts
    <2>3. Written(q) = Written(p) \o (<<>> \o (<<";">> \o Behind(q)))
      BY <1>8, <2>1
    <2> QED
      BY <2>2, <2>3 DEF Adds
  <1> QED
    BY <1>4, <1>5, <1>9 DEF Took

LEMMA BlockAdds ==
    ASSUME NEW S, Signs \subseteq S, NEW p, Builds(S, p), p.last_token_type = "NORMAL",
           NEW token, token.type = "START_BLOCK", token.value = <<"{">>, token.rest \in Seq(S),
           NEW q, q = Consume(p, token)
    PROVE  Builds(S, q) /\ Took(p, q, token) /\ Adds(S, p, q, token.value)
  <1>1. PICK c \in Seq(Built(S)), l \in Nat \ {0} :
            /\ c = p.config /\ c # <<>> /\ l = Len(c) /\ c[l] \in Built(S)
            /\ c[l].depth = p.config_stack /\ ~c[l].block
    BY LastStatement, ZenonT(40)
  <1>2. PICK old \in Built(S) : old = c[l] /\ old.depth = p.config_stack /\ ~old.block
    BY <1>1
  <1>3. PICK new \in Built(S) :
            /\ new = [old EXCEPT !.block = TRUE]
            /\ new.depth = old.depth /\ new.block /\ new.tokens = old.tokens
    <2>1. PICK n : n = [old EXCEPT !.block = TRUE]
      OBVIOUS
    <2>2. n \in Built(S) /\ n.depth = old.depth /\ n.block /\ n.tokens = old.tokens
      BY <2>1 DEF Built
    <2> QED
      BY <2>1, <2>2
  <1>4. PICK d : d = Replaced(c, new)
    OBVIOUS
  <1>5. /\ d \in Seq(Built(S)) /\ d # <<>> /\ Len(d) = l /\ d[l] = new
        /\ \A i \in 1 .. l - 1 : d[i] = c[i]
    <2>1. c # <<>> /\ l = Len(c)
      BY <1>1, Zenon
    <2>2. /\ Replaced(c, new) \in Seq(Built(S)) /\ Replaced(c, new) # <<>>
          /\ Len(Replaced(c, new)) = Len(c) /\ Replaced(c, new)[Len(c)] = new
      BY <2>1, LastChanges, ZenonT(30)
    <2>3. ASSUME NEW i \in 1 .. l - 1 PROVE Replaced(c, new)[i] = c[i]
      <3>1. i \in 1 .. Len(c) - 1
        BY <2>1, Zenon
      <3> QED
        BY <2>1, <3>1, OthersStay, Zenon
    <2> QED
      BY <1>4, <2>1, <2>2, <2>3
  <1>6. q = [p EXCEPT !.input = token.rest, !.last_token_type = "START_BLOCK", !.config = d,
                      !.config_stack = @ + 1]
    <2>1. d = AddBlock(p.config)
      BY <1>1, <1>2, <1>3, <1>4 DEF AddBlock, Replaced
    <2> QED
      BY <2>1 DEF Consume
  <1>7. p.config_stack \in Nat \ {0}
    BY DEF Builds
  <1>8. /\ q.input = token.rest /\ q.last_token_type = "START_BLOCK" /\ q.config = d
        /\ q.config_stack = p.config_stack + 1 /\ q.verdict = p.verdict
        /\ DOMAIN q = {"input", "config", "config_stack", "last_token_type", "verdict"}
    BY <1>6 DEF Builds
  <1>9. Inner(new) = q.config_stack /\ q.config_stack \in Nat \ {0}
    <2>1. PICK n \in Nat \ {0} : n = p.config_stack
      BY <1>7
    <2>2. n + 1 \in Nat \ {0}
      BY DepthFacts, Zenon
    <2>3. q.config_stack = n + 1 /\ Inner(new) = n + 1
      BY <1>2, <1>3, <1>8, <2>1 DEF Inner
    <2> QED
      BY <2>2, <2>3
  <1>10. Builds(S, q)
    <2>1. q.config_stack <= q.config_stack
      BY <1>9, DepthFacts, Zenon
    <2>2. q.config[Len(q.config)] = new /\ q.config_stack <= Inner(new)
      BY <1>5, <1>8, <1>9, <2>1
    <2> QED
      BY <1>5, <1>8, <1>9, <2>2 DEF Builds
  <1>11. PICK o \in Seq(S), x \in Seq(S) : o = Opening(old) /\ x = <<" ", "{", "\n">>
    BY StaysOpen, SignFacts
  <1>12. LastPart(q) = LastPart(p) \o x
    <2>1. LastPart(p) = o
      BY <1>1, <1>2, <1>11 DEF LastPart
    <2>2. Opening(new) = o
      BY <1>3, <1>11 DEF Opening
    <2>3. Ending(new) = x
      BY <1>3, <1>11 DEF Ending
    <2>4. LastPart(q) = Complete(new, Inner(new))
      BY <1>5, <1>8, <1>9 DEF LastPart
    <2> QED
      BY <2>1, <2>2, <2>3, <2>4, StaysOpen
  <1>13. Written(q) = Written(p) \o x
    <2>1. /\ p.config # <<>> /\ Len(q.config) = Len(p.config)
          /\ \A n \in 1 .. Len(p.config) - 1 : q.config[n] = p.config[n]
          /\ q.config[Len(p.config)].depth = p.config[Len(p.config)].depth
      <3>1. d[l].depth = c[l].depth
        BY <1>2, <1>3, <1>5
      <3> QED
        BY <1>1, <1>5, <1>8, <3>1
    <2> QED
      BY <1>10, <1>12, <2>1, LastGrows
  <1>14. Adds(S, p, q, token.value)
    <2>1. Behind(q) = <<"\n">> /\ x = <<" ">> \o (<<"{">> \o <<"\n">>)
      BY <1>8, <1>11, SignFacts DEF Behind
    <2>2. IsBlank(<<" ">>) /\ <<" ">> \in Seq(S)
      BY BlankFacts, SignFacts
    <2> QED
      BY <1>13, <2>1, <2>2 DEF Adds
  <1> QED
    BY <1>8, <1>10, <1>14 DEF Took

LEMMA BlockEndAdds ==
    ASSUME NEW S, Signs \subseteq S, NEW p, Builds(S, p),
           p.last_token_type \in {"STATEMENT_END", "END_BLOCK"}, p.config_stack > 1,
           NEW token, token.type = "END_BLOCK", token.value = <<"}">>, token.rest \in Seq(S),
           NEW q, q = Consume(p, token)
    PROVE  Builds(S, q) /\ Took(p, q, token) /\ Adds(S, p, q, token.value)
  <1>1. PICK c \in Seq(Built(S)), l \in Nat \ {0} :
            /\ c = p.config /\ c # <<>> /\ l = Len(c) /\ c[l] \in Built(S)
            /\ p.config_stack <= Inner(c[l])
    BY LastStatement
  <1>2. PICK s \in Built(S) : s = c[l] /\ p.config_stack <= Inner(s)
    BY <1>1
  <1>3. PICK outer \in Nat \ {0} : p.config_stack = outer + 1
    <2>1. PICK n \in Nat \ {0} : n = p.config_stack
      BY DEF Builds
    <2>2. n > 1
      BY <2>1, Zenon
    <2>3. n - 1 \in Nat \ {0} /\ n = (n - 1) + 1
      BY <2>2, DepthFacts, Zenon
    <2> QED
      BY <2>1, <2>3
  <1>4. q = [p EXCEPT !.input = token.rest, !.last_token_type = "END_BLOCK",
                      !.config_stack = @ - 1]
    BY DEF Consume
  <1>5. /\ q.input = token.rest /\ q.last_token_type = "END_BLOCK" /\ q.config = c
        /\ q.config_stack = outer /\ q.verdict = p.verdict
        /\ DOMAIN q = {"input", "config", "config_stack", "last_token_type", "verdict"}
    <2>1. (outer + 1) - 1 = outer
      BY DepthFacts, Zenon
    <2>2. /\ q.input = token.rest /\ q.last_token_type = "END_BLOCK" /\ q.config = p.config
          /\ q.config_stack = p.config_stack - 1 /\ q.verdict = p.verdict
          /\ DOMAIN q = {"input", "config", "config_stack", "last_token_type", "verdict"}
      BY <1>4 DEF Builds
    <2> QED
      BY <1>1, <1>3, <2>1, <2>2
  <1>6. Inner(s) \in Nat \ {0} /\ outer < Inner(s) /\ outer <= Inner(s)
    <2>1. PICK n \in Nat \ {0} : n = Inner(s)
      BY CompleteFacts
    <2>2. outer + 1 <= n
      BY <1>2, <1>3, <2>1, Zenon
    <2>3. outer < n /\ outer <= n
      BY <2>2, DepthFacts, Zenon
    <2> QED
      BY <2>1, <2>3
  <1>7. Builds(S, q)
    <2>1. q.config[Len(q.config)] = s /\ q.config_stack <= Inner(s)
      BY <1>1, <1>2, <1>5, <1>6
    <2> QED
      BY <1>1, <1>5, <2>1 DEF Builds
  <1>8. PICK i \in Seq(S), x \in Seq(S) :
            /\ IsBlank(i) /\ x = i \o (<<"}">> \o <<"\n">>)
            /\ Indented(outer, <<"}", "\n">>) = x
    <2>1. PICK t : t = <<"}", "\n">>
      OBVIOUS
    <2>2. t \in Seq(S) /\ t = <<"}">> \o <<"\n">>
      BY <2>1, SignFacts
    <2>3. /\ Indent(outer) \in Seq(S) /\ IsBlank(Indent(outer))
          /\ Indented(outer, t) = Indent(outer) \o t /\ Indented(outer, t) \in Seq(S)
      BY <2>2, IndentedFacts
    <2> QED
      BY <2>1, <2>2, <2>3
  <1>9. LastPart(q) = LastPart(p) \o x
    <2>1. LastPart(p) = Complete(s, outer + 1)
      BY <1>1, <1>2, <1>3 DEF LastPart
    <2>2. LastPart(q) = Complete(s, outer)
      BY <1>1, <1>2, <1>5 DEF LastPart
    <2>3. Complete(s, outer) = Complete(s, outer + 1) \o Indented(outer, <<"}", "\n">>)
      BY <1>6, BlockCloses, Zenon
    <2> QED
      BY <1>8, <2>1, <2>2, <2>3
  <1>10. Written(q) = Written(p) \o x
    <2>1. /\ p.config # <<>> /\ Len(q.config) = Len(p.config)
          /\ \A n \in 1 .. Len(p.config) - 1 : q.config[n] = p.config[n]
          /\ q.config[Len(p.config)].depth = p.config[Len(p.config)].depth
      BY <1>1, <1>5
    <2> QED
      BY <1>7, <1>9, <2>1, LastGrows
  <1>11. Adds(S, p, q, token.value)
    <2>1. Behind(q) = <<"\n">>
      BY <1>5 DEF Behind
    <2> QED
      BY <1>8, <1>10, <2>1 DEF Adds
  <1> QED
    BY <1>5, <1>7, <1>11 DEF Took

LEMMA TokenAdds ==
    ASSUME NEW S, Signs \subseteq S, NEW p, Builds(S, p),
           NEW token, token.type \in StatementTypes, MayFollow(p, token.type), HasItsSign(token),
           token.value \in Seq(S), token.rest \in Seq(S),
           NEW q, q = Consume(p, token)
    PROVE  Builds(S, q) /\ Took(p, q, token) /\ Adds(S, p, q, token.value)
  <1>1. CASE token.type = "NORMAL" /\ p.last_token_type = "NORMAL"
    BY <1>1, WordAdds
  <1>2. CASE token.type = "NORMAL" /\ p.last_token_type # "NORMAL"
    BY <1>2, StatementAdds
  <1>3. CASE token.type = "STATEMENT_END"
    <2>1. p.last_token_type = "NORMAL" /\ token.value = <<";">>
      BY <1>3 DEF MayFollow, HasItsSign
    <2> QED
      BY <1>3, <2>1, EndAdds
  <1>4. CASE token.type = "START_BLOCK"
    <2>1. p.last_token_type = "NORMAL" /\ token.value = <<"{">>
      BY <1>4 DEF MayFollow, HasItsSign
    <2> QED
      BY <1>4, <2>1, BlockAdds
  <1>5. CASE token.type = "END_BLOCK"
    <2>1. /\ p.last_token_type \in {"STATEMENT_END", "END_BLOCK"} /\ p.config_stack > 1
          /\ token.value = <<"}">>
      BY <1>5 DEF MayFollow, HasItsSign
    <2> QED
      BY <1>5, <2>1, BlockEndAdds
  <1> QED
    BY <1>1, <1>2, <1>3, <1>4, <1>5 DEF StatementTypes

\* p with another text before it.
Before(p, input) == [p EXCEPT !.input = input]

\* What a token does to a parser does not depend on the text that is left.
LEMMA ConsumeAlike ==
    ASSUME NEW S, NEW p, Builds(S, p), NEW input,
           NEW type, NEW value, NEW rest, NEW other
    PROVE  /\ MayFollow(Before(p, input), type) <=> MayFollow(p, type)
           /\ Consume(Before(p, input), [type |-> type, value |-> value, rest |-> rest]) =
                  Before(Consume(p, [type |-> type, value |-> value, rest |-> other]), rest)
  <1>1. PICK r : r = Before(p, input)
    OBVIOUS
  <1>2. /\ DOMAIN r = {"input", "config", "config_stack", "last_token_type", "verdict"}
        /\ r.config = p.config /\ r.config_stack = p.config_stack
        /\ r.last_token_type = p.last_token_type /\ r.verdict = p.verdict
    BY <1>1 DEF Before, Builds
  <1>3. MayFollow(r, type) <=> MayFollow(p, type)
    BY <1>2 DEF MayFollow
  <1>4. PICK x, y : /\ x = [r EXCEPT !.input = rest, !.last_token_type = type]
                    /\ y = [p EXCEPT !.input = other, !.last_token_type = type]
    OBVIOUS
  <1>5. x = Before(y, rest)
    BY <1>1, <1>4 DEF Before, Builds
  <1>6. \A c, k, v :
            /\ [x EXCEPT !.config = c] = Before([y EXCEPT !.config = c], rest)
            /\ [x EXCEPT !.config = c, !.config_stack = k] =
                   Before([y EXCEPT !.config = c, !.config_stack = k], rest)
            /\ [x EXCEPT !.config_stack = k] = Before([y EXCEPT !.config_stack = k], rest)
            /\ [x EXCEPT !.verdict = v] = Before([y EXCEPT !.verdict = v], rest)
    BY <1>5 DEF Before
  <1>7. x.config = p.config /\ y.config = p.config
        /\ x.config_stack = p.config_stack /\ y.config_stack = p.config_stack
    BY <1>2, <1>4 DEF Builds
  <1>8. PICK t, u : /\ t = [type |-> type, value |-> value, rest |-> rest]
                    /\ u = [type |-> type, value |-> value, rest |-> other]
                    /\ t.type = type /\ u.type = type /\ t.value = value /\ u.value = value
                    /\ t.rest = rest /\ u.rest = other
    <2>1. PICK t : t = [type |-> type, value |-> value, rest |-> rest]
      OBVIOUS
    <2>2. PICK u : u = [type |-> type, value |-> value, rest |-> other]
      OBVIOUS
    <2>3. /\ t.type = type /\ u.type = type /\ t.value = value /\ u.value = value
          /\ t.rest = rest /\ u.rest = other
      BY <2>1, <2>2
    <2> QED
      BY <2>1, <2>2, <2>3
  <1>9. Consume(r, t) = Before(Consume(p, u), rest)
    <2>1. CASE type = "NORMAL" /\ p.last_token_type = "NORMAL"
      <3>1. /\ Consume(r, t) = [x EXCEPT !.config = AddToken(p.config, value)]
            /\ Consume(p, u) = [y EXCEPT !.config = AddToken(p.config, value)]
        BY <1>2, <1>4, <1>7, <1>8, <2>1 DEF Consume
      <3> QED
        BY <1>6, <3>1
    <2>2. CASE type = "NORMAL" /\ p.last_token_type # "NORMAL"
      <3>1. /\ Consume(r, t) = [x EXCEPT !.config = AddStatement(p.config, p.config_stack, value)]
            /\ Consume(p, u) = [y EXCEPT !.config = AddStatement(p.config, p.config_stack, value)]
        BY <1>2, <1>4, <1>7, <1>8, <2>2 DEF Consume
      <3> QED
        BY <1>6, <3>1
    <2>3. CASE type = "STATEMENT_END"
      <3>1. Consume(r, t) = x /\ Consume(p, u) = y
        BY <1>4, <1>8, <2>3 DEF Consume
      <3> QED
        BY <1>5, <3>1
    <2>4. CASE type = "START_BLOCK"
      <3>1. /\ Consume(r, t) = [x EXCEPT !.config = AddBlock(p.config),
                                         !.config_stack = p.config_stack + 1]
            /\ Consume(p, u) = [y EXCEPT !.config = AddBlock(p.config),
                                         !.config_stack = p.config_stack + 1]
        BY <1>2, <1>4, <1>7, <1>8, <2>4 DEF Consume, Builds
      <3>2. PICK c, k : c = AddBlock(p.config) /\ k = p.config_stack + 1
        OBVIOUS
      <3>3. /\ Consume(r, t) = [x EXCEPT !.config = c, !.config_stack = k]
            /\ Consume(p, u) = [y EXCEPT !.config = c, !.config_stack = k]
        BY <3>1, <3>2
      <3>4. [x EXCEPT !.config = c, !.config_stack = k] =
                Before([y EXCEPT !.config = c, !.config_stack = k], rest)
        BY <1>6, ZenonT(40)
      <3> QED
        BY <3>3, <3>4
    <2>5. CASE type = "END_BLOCK"
      <3>1. /\ Consume(r, t) = [x EXCEPT !.config_stack = p.config_stack - 1]
            /\ Consume(p, u) = [y EXCEPT !.config_stack = p.config_stack - 1]
        BY <1>2, <1>4, <1>7, <1>8, <2>5 DEF Consume, Builds
      <3> QED
        BY <1>6, <3>1
    <2>6. CASE type \notin StatementTypes
      <3>1. /\ Consume(r, t) = [x EXCEPT !.verdict = "accepted"]
            /\ Consume(p, u) = [y EXCEPT !.verdict = "accepted"]
        BY <1>4, <1>8, <2>6 DEF Consume, StatementTypes
      <3> QED
        BY <1>6, <3>1
    <2> QED
      BY <2>1, <2>2, <2>3, <2>4, <2>5, <2>6 DEF StatementTypes
  <1> QED
    BY <1>1, <1>3, <1>8, <1>9

--------------------------------------------------------------------------------
(* What Parse does turn by turn                                               *)

Turn(input, f, n) == IF n = 0 THEN NewParser(input) ELSE ParseStep(f[n - 1])

IsTurns(input, f, l) == f = [n \in 0 .. l |-> Turn(input, f, n)]

LEMMA TurnFromBefore ==
    ASSUME NEW input, NEW f, NEW g, NEW n, n = 0 \/ f[n - 1] = g[n - 1]
    PROVE  Turn(input, f, n) = Turn(input, g, n)
  BY DEF Turn

LEMMA TurnsExist ==
    ASSUME NEW input, NEW l \in Nat
    PROVE  \E f : IsTurns(input, f, l)
  <1> DEFINE Without == {m \in Nat : ~\E f : IsTurns(input, f, m)}
  <1> SUFFICES ASSUME Without # {} PROVE FALSE
    OBVIOUS
  <1>1. PICK m \in Without : \A k \in Without : m <= k
    <2>1. Without \in SUBSET Nat
      OBVIOUS
    <2> HIDE DEF Without
    <2> QED
      BY <2>1, LeastNumber
  <1>2. m \in Nat /\ ~\E f : IsTurns(input, f, m)
    BY <1>1
  <1>3. PICK f : m = 0 \/ IsTurns(input, f, m - 1)
    <2>1. m = 0 \/ (m - 1 \in Nat /\ m - 1 \notin Without)
      BY <1>1, <1>2
    <2> QED
      BY <2>1
  <1>4. PICK g : g = [k \in 0 .. m |-> Turn(input, f, k)]
    OBVIOUS
  <1>5. ASSUME NEW k \in 0 .. m PROVE Turn(input, f, k) = Turn(input, g, k)
    <2>1. CASE k = 0
      BY <2>1, TurnFromBefore
    <2>2. CASE k # 0
      <3>1. k - 1 \in 0 .. m /\ k - 1 \in 0 .. m - 1 /\ m # 0
        BY <1>2, <2>2
      <3>2. g[k - 1] = Turn(input, f, k - 1)
        BY <1>4, <3>1
      <3>3. f = [j \in 0 .. m - 1 |-> Turn(input, f, j)]
        BY <1>3, <3>1 DEF IsTurns
      <3>4. f[k - 1] = Turn(input, f, k - 1)
        <4>1. \A h : h = [j \in 0 .. m - 1 |-> Turn(input, f, j)] =>
                         h[k - 1] = Turn(input, f, k - 1)
          BY <3>1
        <4> QED
          BY <3>3, <4>1
      <3> QED
        BY <3>2, <3>4, TurnFromBefore
    <2> QED
      BY <2>1, <2>2
  <1>6. IsTurns(input, g, m)
    <2>1. g = [k \in 0 .. m |-> Turn(input, g, k)]
      BY <1>4, <1>5
    <2> QED
      BY <2>1 DEF IsTurns
  <1> QED
    BY <1>2, <1>6

\* f has the parser after every turn of Parse.
Parses(input, f, l) ==
    /\ f[0] = NewParser(input)
    /\ \A n \in 1 .. l + 1 : f[n] = ParseStep(f[n - 1])
    /\ Parse(input) = f[l + 1]

LEMMA SomethingParses ==
    ASSUME NEW input, NEW l \in Nat, l = Len(input) PROVE \E f : Parses(input, f, l)
  <1>1. PICK m \in Nat : m = l + 1
    OBVIOUS
  <1>2. PICK f : IsTurns(input, f, m) /\ Parse(input) = f[m]
    <2>1. Parse(input) = (CHOOSE f : IsTurns(input, f, m))[m]
      <3>1. Parse(input) =
                (CHOOSE f : IsTurns(input, f, Len(input) + 1))[Len(input) + 1]
        BY DEF Parse, IsTurns, Turn
      <3> QED
        BY <1>1, <3>1
    <2>2. IsTurns(input, CHOOSE f : IsTurns(input, f, m), m)
      BY TurnsExist
    <2> QED
      BY <2>1, <2>2
  <1>3. \A n \in 0 .. m : f[n] = Turn(input, f, n)
    <2>1. \A h : h = [j \in 0 .. m |-> Turn(input, f, j)] =>
                     \A n \in 0 .. m : h[n] = Turn(input, f, n)
      OBVIOUS
    <2> QED
      BY <1>2, <2>1 DEF IsTurns
  <1>4. f[0] = NewParser(input)
    BY <1>1, <1>3 DEF Turn
  <1>5. ASSUME NEW n \in 1 .. m PROVE f[n] = ParseStep(f[n - 1])
    <2>1. n \in 0 .. m /\ n # 0
      BY <1>1
    <2> QED
      BY <1>3, <2>1 DEF Turn
  <1> QED
    BY <1>1, <1>2, <1>4, <1>5 DEF Parses

\* Parse comes to q, with at most a turn for each character that q has read.
Reaches(S, input, q) ==
    /\ q.input \in Seq(S) /\ Len(q.input) <= Len(input)
    /\ \A f : Parses(input, f, Len(input)) =>
                  \E k \in 0 .. Len(input) - Len(q.input) : f[k] = q

LEMMA ReachesNew ==
    ASSUME NEW S, NEW input \in Seq(S) PROVE Reaches(S, input, NewParser(input))
  <1>1. PICK l \in Nat : l = Len(input)
    OBVIOUS
  <1>2. NewParser(input).input = input
    BY DEF NewParser
  <1>3. 0 \in 0 .. l - l /\ l <= l
    OBVIOUS
  <1> QED
    BY <1>1, <1>2, <1>3 DEF Reaches, Parses

LEMMA ReachesStep ==
    ASSUME NEW S, NEW input \in Seq(S), NEW p, Reaches(S, input, p),
           NEW q, q = ParseStep(p), q.input \in Seq(S), Len(q.input) < Len(p.input)
    PROVE  Reaches(S, input, q)
  <1>1. PICK l \in Nat, m \in Nat, n \in Nat :
            l = Len(input) /\ m = Len(p.input) /\ n = Len(q.input) /\ m <= l /\ n < m
    BY DEF Reaches
  <1>2. ASSUME NEW f, Parses(input, f, l) PROVE \E k \in 0 .. l - n : f[k] = q
    <2>1. PICK k \in 0 .. l - m : f[k] = p
      BY <1>1, <1>2 DEF Reaches
    <2>2. k + 1 \in 0 .. l - n /\ k + 1 \in 1 .. l + 1 /\ (k + 1) - 1 = k
      BY <1>1
    <2>3. f[k + 1] = ParseStep(f[(k + 1) - 1])
      BY <1>2, <2>2 DEF Parses
    <2> QED
      BY <2>1, <2>2, <2>3
  <1>3. n <= l
    BY <1>1
  <1> QED
    BY <1>1, <1>2, <1>3 DEF Reaches

LEMMA ReachesEnd ==
    ASSUME NEW S, NEW input \in Seq(S), NEW p, Reaches(S, input, p),
           NEW q, q = ParseStep(p), q.verdict # "parsing"
    PROVE  Parse(input) = q
  <1>1. PICK l \in Nat, m \in Nat : l = Len(input) /\ m = Len(p.input) /\ m <= l
    BY DEF Reaches
  <1>2. PICK f : Parses(input, f, l)
    BY <1>1, SomethingParses
  <1>3. PICK k \in 0 .. l - m : f[k] = p
    BY <1>1, <1>2 DEF Reaches
  <1> DEFINE Other == {n \in k + 1 .. l + 1 : f[n] # q}
  <1>4. Other = {}
    <2> SUFFICES ASSUME Other # {} PROVE FALSE
      OBVIOUS
    <2>1. PICK n \in Other : \A i \in Other : n <= i
      <3>1. Other \in SUBSET Nat
        OBVIOUS
      <3> HIDE DEF Other
      <3> QED
        BY <3>1, LeastNumber
    <2>2. n \in k + 1 .. l + 1 /\ f[n] # q /\ n \in 1 .. l + 1
      BY <2>1
    <2>3. f[n] = ParseStep(f[n - 1])
      BY <1>2, <2>2 DEF Parses
    <2>4. CASE n = k + 1
      <3>1. n - 1 = k
        BY <2>4
      <3> QED
        BY <1>3, <2>2, <2>3, <3>1
    <2>5. CASE n # k + 1
      <3>1. n - 1 \in k + 1 .. l + 1 /\ ~(n <= n - 1)
        BY <2>2, <2>5
      <3>2. f[n - 1] = q
        BY <2>1, <3>1
      <3>3. ParseStep(q) = q
        BY DEF ParseStep
      <3> QED
        BY <2>2, <2>3, <3>2, <3>3
    <2> QED
      BY <2>4, <2>5
  <1>5. l + 1 \in k + 1 .. l + 1
    BY <1>1
  <1>6. f[l + 1] = q
    BY <1>4, <1>5
  <1> QED
    BY <1>2, <1>6 DEF Parses

--------------------------------------------------------------------------------
(* What was read is written so that it is read again                          *)

AreTexts(S, w, s, v, b, z) ==
    w \in Seq(S) /\ s \in Seq(S) /\ v \in Seq(S) /\ b \in Seq(S) /\ z \in Seq(S)

LEMMA TextsJoin ==
    ASSUME NEW S, NEW w, NEW s, NEW v, NEW b, NEW z, AreTexts(S, w, s, v, b, z)
    PROVE  /\ (w \o (s \o (v \o b))) \o z = w \o (s \o (v \o (b \o z)))
           /\ w \o (s \o (v \o (b \o z))) \in Seq(S)
  <1>1. w \in Seq(S) /\ s \in Seq(S) /\ v \in Seq(S) /\ b \in Seq(S) /\ z \in Seq(S)
    BY DEF AreTexts
  <1>2. v \o (b \o z) \in Seq(S)
    BY <1>1
  <1>3. w \o (s \o (v \o (b \o z))) \in Seq(S)
    BY <1>1, <1>2
  <1>4. v \o b \in Seq(S) /\ s \o (v \o b) \in Seq(S)
    BY <1>1
  <1>5. (w \o (s \o (v \o b))) \o z = w \o ((s \o (v \o b)) \o z)
    <2>1. PICK u : u = s \o (v \o b)
      OBVIOUS
    <2>2. w \in Seq(S) /\ u \in Seq(S) /\ z \in Seq(S)
      BY <1>1, <1>4, <2>1
    <2>3. (w \o u) \o z = w \o (u \o z)
      BY <2>2
    <2> QED
      BY <2>1, <2>3
  <1>6. (s \o (v \o b)) \o z = s \o ((v \o b) \o z)
    <2>1. PICK u : u = v \o b
      OBVIOUS
    <2>2. s \in Seq(S) /\ u \in Seq(S) /\ z \in Seq(S)
      BY <1>1, <1>4, <2>1
    <2>3. (s \o u) \o z = s \o (u \o z)
      BY <2>2
    <2> QED
      BY <2>1, <2>3
  <1>7. (v \o b) \o z = v \o (b \o z)
    BY <1>1
  <1> QED
    BY <1>3, <1>5, <1>6, <1>7

LEMMA FirstOfJoined ==
    ASSUME NEW S, NEW s \in Seq(S), NEW t \in Seq(S), s # <<>>
    PROVE  s \o t # <<>> /\ (s \o t)[1] = s[1]
  <1>1. PICK l \in Nat, m \in Nat : l = Len(s) /\ m = Len(t) /\ l # 0
    BY SequenceFacts
  <1>2. 1 \in 1 .. l /\ l + m # 0
    BY <1>1
  <1>3. Len(s \o t) = l + m /\ (s \o t)[1] = s[1] /\ s \o t \in Seq(S)
    BY <1>1, <1>2, JoinFacts
  <1> QED
    BY <1>2, <1>3, SequenceFacts

LEMMA FirstDelimits ==
    ASSUME NEW S, NEW s \in Seq(S), NEW v \in Seq(S), NEW y \in Seq(S),
           s = <<" ">> \/ (s = <<>> /\ v = <<";">>)
    PROVE  s \o (v \o y) # <<>> /\ (s \o (v \o y))[1] \in Delimiters
  <1>1. PICK t \in Seq(S) : t = v \o y
    BY JoinFacts
  <1>2. CASE s = <<" ">>
    <2>1. s # <<>> /\ s[1] \in Delimiters
      BY <1>2 DEF Delimiters
    <2> QED
      BY <1>1, <2>1, FirstOfJoined
  <1>3. CASE s = <<>> /\ v = <<";">>
    <2>1. v # <<>> /\ v[1] \in Delimiters
      BY <1>3 DEF Delimiters
    <2>2. t # <<>> /\ t[1] \in Delimiters
      BY <1>1, <2>1, FirstOfJoined
    <2>3. s \o t = t
      BY <1>3, EmptyFacts
    <2> QED
      BY <1>1, <2>2, <2>3
  <1> QED
    BY <1>2, <1>3

LEMMA LongerThanItsEnd ==
    ASSUME NEW S, NEW c \in Seq(S), NEW s \in Seq(S), NEW v \in Seq(S), NEW y \in Seq(S), v # <<>>
    PROVE  Len(y) < Len(c \o (s \o (v \o y)))
  OBVIOUS

LEMMA BlankJoin ==
    ASSUME NEW S, NEW s \in Seq(S), NEW t \in Seq(S), IsBlank(s), IsBlank(t)
    PROVE  s \o t \in Seq(S) /\ IsBlank(s \o t)
  <1>1. PICK l \in Nat, m \in Nat, u \in Seq(S) :
            /\ l = Len(s) /\ m = Len(t) /\ u = s \o t /\ Len(u) = l + m
            /\ \A i \in 1 .. l : u[i] = s[i]
            /\ \A i \in 1 .. m : u[l + i] = t[i]
    <2>1. /\ s \o t \in Seq(S) /\ Len(s \o t) = Len(s) + Len(t)
          /\ \A i \in 1 .. Len(s) : (s \o t)[i] = s[i]
          /\ \A i \in 1 .. Len(t) : (s \o t)[Len(s) + i] = t[i]
      BY JoinFacts
    <2>2. Len(s) \in Nat /\ Len(t) \in Nat
      OBVIOUS
    <2> QED
      BY <2>1, <2>2
  <1>2. ASSUME NEW i \in 1 .. l + m PROVE u[i] \in Whitespace
    <2>1. CASE i \in 1 .. l
      BY <1>1, <2>1 DEF IsBlank
    <2>2. CASE i \notin 1 .. l
      <3>1. PICK j \in 1 .. m : i = l + j
        <4>1. i - l \in 1 .. m /\ i = l + (i - l)
          BY <2>2
        <4> QED
          BY <4>1
      <3> QED
        BY <1>1, <3>1 DEF IsBlank
    <2> QED
      BY <2>1, <2>2
  <1> QED
    BY <1>1, <1>2 DEF IsBlank

LEMMA BehindFacts ==
    ASSUME NEW S, Signs \subseteq S, NEW p
    PROVE  Behind(p) \in Seq(S) /\ IsBlank(Behind(p))
  <1>1. <<"\n">> \in Seq(S) /\ <<>> \in Seq(S)
    BY SignFacts, EmptyFacts
  <1>2. IsBlank(<<"\n">>)
    <2>1. Len(<<"\n">>) = 1 /\ <<"\n">>[1] = "\n" /\ "\n" \in Whitespace
      BY DEF Whitespace
    <2>2. \A i \in 1 .. 1 : i = 1
      OBVIOUS
    <2> QED
      BY <2>1, <2>2 DEF IsBlank
  <1> QED
    BY <1>1, <1>2, BlankFacts DEF Behind

\* A text is white space and what ParseText takes a token from.
LEMMA WhatIsSkipped ==
    ASSUME NEW S, NEW input \in Seq(S)
    PROVE  \E space \in Seq(S), t \in Seq(S) :
               /\ IsBlank(space) /\ input = space \o t
               /\ t # <<>> => t[1] \notin Whitespace
               /\ ParseToken(input) = ParseText(t)
  <1>1. PICK n \in 0 .. Len(input) :
            /\ SkipWhitespace(input) = SubSeq(input, n + 1, Len(input))
            /\ \A i \in 1 .. n : input[i] \in Whitespace
            /\ n < Len(input) => input[n + 1] \notin Whitespace
    BY SkipWhitespaceFacts
  <1>2. PICK l \in Nat : l = Len(input) /\ n \in Nat /\ n <= l
    BY SequenceFacts
  <1>0. /\ SubSeq(input, 1, n) \in Seq(S) /\ Len(SubSeq(input, 1, n)) = n
        /\ \A i \in 1 .. n : SubSeq(input, 1, n)[i] = input[i]
        /\ SubSeq(input, n + 1, Len(input)) \in Seq(S)
        /\ Len(SubSeq(input, n + 1, Len(input))) = Len(input) - n
        /\ \A i \in 1 .. Len(input) - n : SubSeq(input, n + 1, Len(input))[i] = input[n + i]
    BY CutFacts
  <1>3. PICK space \in Seq(S) :
            /\ space = SubSeq(input, 1, n) /\ Len(space) = n
            /\ \A i \in 1 .. n : space[i] = input[i]
    BY <1>0
  <1>4. PICK t \in Seq(S) :
            /\ t = SubSeq(input, n + 1, Len(input)) /\ Len(t) = Len(input) - n
            /\ \A i \in 1 .. Len(input) - n : t[i] = input[n + i]
    BY <1>0
  <1>5. IsBlank(space)
    BY <1>1, <1>3 DEF IsBlank
  <1>6. input = space \o t
    BY <1>3, <1>4, CutJoins
  <1>7. t # <<>> => t[1] \notin Whitespace
    <2> SUFFICES ASSUME t # <<>> PROVE t[1] \notin Whitespace
      OBVIOUS
    <2>1. Len(t) # 0 /\ Len(t) \in Nat
      BY SequenceFacts
    <2>2. n < l /\ 1 \in 1 .. Len(input) - n
      BY <1>2, <1>4, <2>1
    <2> QED
      BY <1>1, <1>2, <1>4, <2>2
  <1> QED
    BY <1>1, <1>4, <1>5, <1>6, <1>7 DEF ParseToken

\* The token and what is left behind it are the text, but for white space.
TokenIn(S, input, token) ==
    /\ token.value \in Seq(S) /\ token.rest \in Seq(S) /\ HasItsSign(token)
    /\ \E space \in Seq(S) : IsBlank(space) /\ input = space \o (token.value \o token.rest)

LEMMA TokenTaken ==
    ASSUME NEW S, Signs \subseteq S, NEW input \in Seq(S),
           NEW token, token = ParseToken(input), token.type \in StatementTypes
    PROVE  TokenIn(S, input, token)
  <1>1. PICK space \in Seq(S), t \in Seq(S) :
            /\ IsBlank(space) /\ input = space \o t
            /\ t # <<>> => t[1] \notin Whitespace
            /\ token = ParseText(t)
    BY WhatIsSkipped, ZenonT(40)
  <1>2. PICK blank \in Seq(S) : IsBlank(blank) /\ Delimited(token.type, blank)
    <2>1. <<" ">> \in Seq(S) /\ <<" ">> # <<>> /\ <<" ">>[1] \in Delimiters
      BY SignFacts DEF Delimiters
    <2>2. IsBlank(<<" ">>) /\ Delimited(token.type, <<" ">>)
      BY <2>1, BlankFacts DEF Delimited
    <2> QED
      BY <2>1, <2>2
  <1>3. /\ token.value \in Seq(S) /\ token.rest \in Seq(S) /\ HasItsSign(token)
        /\ t = token.value \o token.rest
    BY <1>1, <1>2, TokenAgain
  <1> QED
    BY <1>1, <1>3 DEF TokenIn

\* What a token of a statement is, and that it is read again.
LEMMA TokenFacts ==
    ASSUME NEW S, Signs \subseteq S, NEW input \in Seq(S),
           NEW token, token = ParseToken(input), token.type \in StatementTypes
    PROVE  /\ token.value \in Seq(S) /\ token.value # <<>> /\ token.rest \in Seq(S)
           /\ HasItsSign(token)
           /\ token = [type |-> token.type, value |-> token.value, rest |-> token.rest]
           /\ \E space \in Seq(S) :
                  IsBlank(space) /\ input = space \o (token.value \o token.rest)
           /\ \A space \in Seq(S), z \in Seq(S) :
                  IsBlank(space) /\ Delimited(token.type, z) => ReadAlike(token, space, z)
  <1>1. PICK space \in Seq(S), t \in Seq(S) :
            /\ IsBlank(space) /\ input = space \o t
            /\ t # <<>> => t[1] \notin Whitespace
            /\ token = ParseText(t)
    BY WhatIsSkipped, ZenonT(40)
  <1>2. PICK blank \in Seq(S) : IsBlank(blank) /\ Delimited(token.type, blank)
    <2>1. <<" ">> \in Seq(S) /\ <<" ">> # <<>> /\ <<" ">>[1] \in Delimiters
      BY SignFacts DEF Delimiters
    <2>2. IsBlank(<<" ">>) /\ Delimited(token.type, <<" ">>)
      BY <2>1, BlankFacts DEF Delimited
    <2> QED
      BY <2>1, <2>2
  <1>3. /\ token.value \in Seq(S) /\ token.value # <<>>
        /\ token.rest \in Seq(S) /\ t = token.value \o token.rest /\ HasItsSign(token)
    BY <1>1, <1>2, TokenAgain
  <1>4. token = [type |-> token.type, value |-> token.value, rest |-> token.rest]
    <2>1. PICK n : token = Token(token.type, t, n)
      BY <1>1, ParseTextTakes
    <2> QED
      BY <2>1 DEF Token
  <1>5. ASSUME NEW s \in Seq(S), NEW z \in Seq(S), IsBlank(s), Delimited(token.type, z)
        PROVE  ReadAlike(token, s, z)
    BY <1>1, <1>5, TokenAgain
  <1> QED
    BY <1>1, <1>3, <1>4, <1>5

\* From every text that begins with what ToString writes of what p has read, and
\* tells a last word from what comes behind it, Parse comes to where p is.
ReadsBack(S, p) ==
    \A z \in Seq(S) :
        Delimited(p.last_token_type, z)
            => Reaches(S, Written(p) \o z, Before(p, Behind(p) \o z))

LEMMA WrittenAlike ==
    ASSUME NEW S, NEW p, Builds(S, p), NEW input
    PROVE  Written(Before(p, input)) = Written(p) /\ Behind(Before(p, input)) = Behind(p)
  <1>1. PICK q : q = Before(p, input)
    OBVIOUS
  <1>2. /\ q.config = p.config /\ q.config_stack = p.config_stack
        /\ q.last_token_type = p.last_token_type
    BY <1>1 DEF Before, Builds
  <1>3. LastPart(q) = LastPart(p)
    BY <1>2 DEF LastPart
  <1>4. \A i : Part(q, i) = Part(p, i)
    BY <1>2, <1>3 DEF Part
  <1> QED
    BY <1>1, <1>2, <1>4 DEF Written, Behind

LEMMA ReadsNew ==
    ASSUME NEW S, Signs \subseteq S, NEW input \in Seq(S)
    PROVE  Builds(S, NewParser(input)) /\ Written(NewParser(input)) = <<>>
           /\ ReadsBack(S, NewParser(input))
  <1>1. PICK p : p = NewParser(input)
    OBVIOUS
  <1>2. /\ DOMAIN p = {"input", "config", "config_stack", "last_token_type", "verdict"}
        /\ p.input = input /\ p.config = <<>> /\ p.config_stack = 1
        /\ p.last_token_type = "START" /\ p.verdict = "parsing"
    BY <1>1 DEF NewParser
  <1>3. Builds(S, p)
    BY <1>2, EmptyFacts DEF Builds
  <1>4. Written(p) = <<>> /\ Behind(p) = <<>>
    <2>1. Len(p.config) = 0
      BY <1>2
    <2>2. [i \in 1 .. 0 |-> Part(p, i)] = <<>>
      OBVIOUS
    <2>3. FlattenSeq(<<>>) = <<>>
      BY DEF FlattenSeq
    <2> QED
      BY <1>2, <2>1, <2>2, <2>3 DEF Written, Behind
  <1>5. ASSUME NEW z \in Seq(S) PROVE Reaches(S, Written(p) \o z, Before(p, Behind(p) \o z))
    <2>1. <<>> \o z = z
      BY EmptyFacts
    <2>2. Before(p, z) = NewParser(z)
      BY <1>1 DEF Before, NewParser
    <2> QED
      BY <1>4, <2>1, <2>2, ReachesNew
  <1> QED
    BY <1>1, <1>3, <1>4, <1>5 DEF ReadsBack

LEMMA ReadsComment ==
    ASSUME NEW S, NEW p, Builds(S, p), ReadsBack(S, p), NEW input \in Seq(S)
    PROVE  Builds(S, Before(p, input)) /\ ReadsBack(S, Before(p, input))
  <1>1. PICK q : q = Before(p, input)
    OBVIOUS
  <1>2. /\ DOMAIN q = {"input", "config", "config_stack", "last_token_type", "verdict"}
        /\ q.config = p.config /\ q.config_stack = p.config_stack
        /\ q.last_token_type = p.last_token_type /\ q.input = input
    BY <1>1 DEF Before, Builds
  <1>3. Builds(S, q)
    BY <1>2 DEF Builds
  <1>4. Written(q) = Written(p) /\ Behind(q) = Behind(p)
    BY <1>1, WrittenAlike
  <1>5. \A i : Before(q, i) = Before(p, i)
    BY <1>1 DEF Before, Builds
  <1> QED
    BY <1>1, <1>2, <1>3, <1>4, <1>5 DEF ReadsBack

\* A token is read again where p is with what follows it written.
GoesOn(p, token, space, y) ==
    ParseStep(Before(p, space \o (token.value \o y))) = Before(Consume(p, token), y)

LEMMA TokenReached ==
    ASSUME NEW S, Signs \subseteq S, NEW p, Builds(S, p), p.verdict = "parsing",
           NEW token, token = ParseToken(p.input), token.type \in StatementTypes,
           MayFollow(p, token.type),
           NEW space \in Seq(S), IsBlank(space), NEW y \in Seq(S), Delimited(token.type, y)
    PROVE  GoesOn(p, token, space, y)
  <1>1. /\ token = [type |-> token.type, value |-> token.value, rest |-> token.rest]
        /\ ReadAlike(token, space, y)
    <2>1. p.input \in Seq(S)
      BY DEF Builds
    <2> QED
      BY <2>1, TokenFacts
  <1>2. PICK i, r : i = space \o (token.value \o y) /\ r = Before(p, i)
    OBVIOUS
  <1>3. r.input = i /\ r.verdict = "parsing"
    BY <1>2 DEF Before, Builds
  <1>4. PICK u : u = [type |-> token.type, value |-> token.value, rest |-> y]
    OBVIOUS
  <1>5. u.type = token.type /\ u.type # "COMMENT"
    BY <1>4 DEF StatementTypes
  <1>6. ParseToken(i) = u
    BY <1>1, <1>2, <1>4 DEF ReadAlike
  <1>7. MayFollow(r, token.type) /\ Consume(r, u) = Before(Consume(p, token), y)
    BY <1>1, <1>2, <1>4, ConsumeAlike
  <1>8. ParseStep(r) = Consume(r, u)
    BY <1>3, <1>5, <1>6, <1>7 DEF ParseStep
  <1> QED
    BY <1>2, <1>7, <1>8 DEF GoesOn

\* Where p comes to a text of spaces, a token and y, q comes to y.
LEMMA ReachesToken ==
    ASSUME NEW S, NEW input \in Seq(S), NEW p, NEW q,
           NEW space \in Seq(S), NEW value \in Seq(S), value # <<>>, NEW y \in Seq(S),
           p.input = space \o (value \o y), q.input = y, q = ParseStep(p),
           Reaches(S, input, p)
    PROVE  Reaches(S, input, q)
  <1>1. Len(y) < Len(space \o (value \o y))
    OBVIOUS
  <1> QED
    BY <1>1, ReachesStep

LEMMA ReadsToken ==
    ASSUME NEW S, Signs \subseteq S, NEW p, Builds(S, p), p.verdict = "parsing", ReadsBack(S, p),
           NEW token, token = ParseToken(p.input), token.type \in StatementTypes,
           MayFollow(p, token.type), NEW q, q = Consume(p, token)
    PROVE  ReadsBack(S, q)
  <1>1. /\ token.value \in Seq(S) /\ token.value # <<>> /\ token.rest \in Seq(S)
        /\ HasItsSign(token)
    <2>1. p.input \in Seq(S)
      BY DEF Builds
    <2> QED
      BY <2>1, TokenFacts
  <1>2. Builds(S, q) /\ Took(p, q, token) /\ Adds(S, p, q, token.value)
    BY <1>1, TokenAdds
  <1>3. PICK v \in Seq(S) : v = token.value /\ v # <<>>
    BY <1>1
  <1>4. PICK before \in Seq(S) :
            /\ IsBlank(before)
            /\ Written(q) = Written(p) \o (before \o (v \o Behind(q)))
            /\ p.last_token_type = "NORMAL" =>
                   before = <<" ">> \/ (before = <<>> /\ v = <<";">>)
    BY <1>2, <1>3 DEF Adds
  <1>5. SUFFICES ASSUME NEW z \in Seq(S), Delimited(q.last_token_type, z)
                 PROVE  Reaches(S, Written(q) \o z, Before(q, Behind(q) \o z))
    BY DEF ReadsBack
  <1>6. PICK y \in Seq(S) : y = Behind(q) \o z
    BY BehindFacts, JoinFacts
  <1>7. PICK x \in Seq(S) : x = before \o (v \o y)
    <2>1. before \o (v \o y) \in Seq(S)
      OBVIOUS
    <2> QED
      BY <2>1
  <1>8. Written(q) \o z = Written(p) \o x /\ Written(p) \o x \in Seq(S)
    <2>1. PICK w \in Seq(S) : w = Written(p)
      <3>1. PICK l \in Nat : l = Len(p.config)
        BY DEF Builds
      <3> QED
        BY <3>1, PartsFacts
    <2>2. PICK b \in Seq(S) : b = Behind(q)
      BY BehindFacts
    <2>3. Written(q) = w \o (before \o (v \o b)) /\ x = before \o (v \o (b \o z))
      BY <1>4, <1>6, <1>7, <2>1, <2>2
    <2>4. AreTexts(S, w, before, v, b, z)
      BY DEF AreTexts
    <2>5. /\ (w \o (before \o (v \o b))) \o z = w \o (before \o (v \o (b \o z)))
          /\ w \o (before \o (v \o (b \o z))) \in Seq(S)
      BY <2>4, TextsJoin, Zenon
    <2> QED
      BY <2>1, <2>3, <2>5, Zenon
  <1>9. Delimited(p.last_token_type, x)
    BY <1>4, <1>7, FirstDelimits DEF Delimited
  <1>10. Reaches(S, Written(q) \o z, Before(p, Behind(p) \o x))
    BY <1>8, <1>9 DEF ReadsBack
  <1>11. PICK space \in Seq(S) :
             space = Behind(p) \o before /\ IsBlank(space) /\ Behind(p) \o x = space \o (v \o y)
    <2>1. PICK c \in Seq(S) : c = Behind(p) /\ IsBlank(c)
      BY BehindFacts
    <2>2. c \o before \in Seq(S) /\ IsBlank(c \o before)
      BY <1>4, <2>1, BlankJoin
    <2>3. c \o (before \o (v \o y)) = (c \o before) \o (v \o y)
      BY SMTT(30)
    <2> QED
      BY <1>7, <2>1, <2>2, <2>3
  <1>12. Delimited(token.type, y)
    <2> SUFFICES ASSUME token.type = "NORMAL" PROVE y # <<>> /\ y[1] \in Delimiters
      BY DEF Delimited
    <2>1. q.last_token_type = "NORMAL"
      BY <1>2 DEF Took
    <2>2. Behind(q) = <<>>
      BY <2>1 DEF Behind
    <2>3. y = z
      BY <1>6, <2>2, EmptyFacts
    <2> QED
      BY <1>5, <2>1, <2>3 DEF Delimited
  <1>13. ParseStep(Before(p, space \o (v \o y))) = Before(q, y)
    <2>1. GoesOn(p, token, space, y)
      BY <1>11, <1>12, TokenReached, Zenon
    <2> QED
      BY <1>3, <2>1 DEF GoesOn
  <1>14. PICK r, u : r = Before(p, space \o (v \o y)) /\ u = Before(q, y)
    OBVIOUS
  <1>15. r.input = space \o (v \o y) /\ u.input = y
    BY <1>2, <1>14 DEF Before, Builds
  <1>16. Reaches(S, Written(q) \o z, r) /\ u = ParseStep(r) /\ Written(q) \o z \in Seq(S)
    BY <1>8, <1>10, <1>11, <1>13, <1>14
  <1>17. Reaches(S, Written(q) \o z, u)
    BY <1>3, <1>15, <1>16, ReachesToken
  <1> QED
    BY <1>6, <1>14, <1>17

--------------------------------------------------------------------------------
(* A configuration that was read is written, and read again                   *)

LEMMA StatementIsComplete ==
    ASSUME NEW config, NEW i
    PROVE  StatementToString(config, i) =
               Complete(config[i], IF i = Len(config) THEN 1 ELSE config[i + 1].depth)
  BY DEF StatementToString, Complete, Opening, Ending, Closings, Inner

LEMMA ConfigIsWritten ==
    ASSUME NEW S, NEW p, Builds(S, p), p.config_stack = 1, p.last_token_type # "NORMAL"
    PROVE  ConfigToString(p.config) = Written(p)
  <1>1. PICK c \in Seq(Built(S)) : c = p.config
    BY DEF Builds
  <1>2. DOMAIN c = 1 .. Len(c)
    BY <1>1
  <1>3. ASSUME NEW i PROVE StatementToString(c, i) = Part(p, i)
    BY <1>1, StatementIsComplete DEF Part, LastPart
  <1> QED
    BY <1>1, <1>2, <1>3 DEF ConfigToString, Written

\* After the last line there is no token.
LEMMA NothingBehind ==
    ASSUME NEW S, Signs \subseteq S
    PROVE  ParseToken(<<"\n">>) = EndOfFile
  <1>1. <<"\n">> \in Seq(S) /\ <<>> \in Seq(S)
    BY SignFacts, EmptyFacts
  <1>2. \A i \in 1 .. Len(<<"\n">>) : <<"\n">>[i] \in Whitespace
    <2>1. Len(<<"\n">>) = 1 /\ <<"\n">>[1] = "\n" /\ "\n" \in Whitespace
      BY DEF Whitespace
    <2>2. \A i \in 1 .. 1 : i = 1
      OBVIOUS
    <2> QED
      BY <2>1, <2>2
  <1>3. SkipWhitespace(<<"\n">> \o <<>>) = <<>>
    BY <1>1, <1>2, SkipIs
  <1>4. <<"\n">> \o <<>> = <<"\n">>
    BY <1>1, EmptyFacts
  <1> QED
    BY <1>3, <1>4 DEF ParseToken, ParseText

\* Where the text may end, what is written up to there is accepted.
LEMMA EndReached ==
    ASSUME NEW S, Signs \subseteq S, NEW p, Builds(S, p), p.verdict = "parsing",
           ReadsBack(S, p), MayFollow(p, "EOF")
    PROVE  /\ Parse(Written(p)).verdict = "accepted" /\ Parse(Written(p)).config = p.config
           /\ ConfigToString(p.config) = Written(p) /\ Written(p) \in Seq(S)
  <1>1. /\ p.last_token_type \in {"STATEMENT_END", "END_BLOCK"} /\ p.config_stack = 1
    BY DEF MayFollow
  <1>2. PICK w \in Seq(S) : w = Written(p)
    <2>1. PICK l \in Nat : l = Len(p.config)
      BY DEF Builds
    <2> QED
      BY <2>1, PartsFacts
  <1>3. Behind(p) = <<"\n">> /\ <<"\n">> \in Seq(S) /\ <<>> \in Seq(S)
    BY <1>1, SignFacts, EmptyFacts DEF Behind
  <1>4. w \o <<>> = w /\ <<"\n">> \o <<>> = <<"\n">>
    BY <1>2, <1>3, EmptyFacts
  <1>5. PICK r : r = Before(p, <<"\n">>)
    OBVIOUS
  <1>6. Reaches(S, w, r)
    <2>1. Delimited(p.last_token_type, <<>>)
      BY <1>1 DEF Delimited
    <2> QED
      BY <1>2, <1>3, <1>4, <1>5, <2>1 DEF ReadsBack
  <1>7. /\ r.input = <<"\n">> /\ r.verdict = "parsing" /\ r.config = p.config
        /\ r.last_token_type = p.last_token_type /\ r.config_stack = p.config_stack
        /\ DOMAIN r = {"input", "config", "config_stack", "last_token_type", "verdict"}
    BY <1>5 DEF Before, Builds
  <1>8. PICK token : token = EndOfFile /\ token = ParseToken(r.input) /\ token.type = "EOF"
    BY <1>7, NothingBehind DEF EndOfFile, Token
  <1>9. MayFollow(r, "EOF")
    BY <1>1, <1>7 DEF MayFollow
  <1>10. ParseStep(r) = Consume(r, token)
    BY <1>7, <1>8, <1>9 DEF ParseStep
  <1>11. Consume(r, token).verdict = "accepted" /\ Consume(r, token).config = p.config
    BY <1>7, <1>8 DEF Consume
  <1>12. Parse(w) = ParseStep(r)
    BY <1>2, <1>6, <1>10, <1>11, ReachesEnd
  <1>13. ConfigToString(p.config) = w
    BY <1>1, <1>2, ConfigIsWritten
  <1> QED
    BY <1>2, <1>10, <1>11, <1>12, <1>13

\* What a turn of the loop does to a parser with texts over S.
CommentTurn(p, token, q) ==
    token.type = "COMMENT" /\ q = Before(p, token.rest)
StatementTurn(p, token, q) ==
    token.type \in StatementTypes /\ MayFollow(p, token.type) /\ q = Consume(p, token)
EndTurn(p, token, q) ==
    token.type = "EOF" /\ MayFollow(p, "EOF") /\ q.verdict = "accepted" /\ q.config = p.config

LEMMA TurnFacts ==
    ASSUME NEW S, NEW p, Builds(S, p), p.verdict = "parsing",
           NEW token, token = ParseToken(p.input), NEW q, q = ParseStep(p)
    PROVE  \/ CommentTurn(p, token, q) \/ StatementTurn(p, token, q) \/ EndTurn(p, token, q)
           \/ q.verdict = "rejected"
  <1>1. CASE token.type = "COMMENT"
    BY <1>1 DEF ParseStep, CommentTurn, Before
  <1>2. CASE token.type # "COMMENT" /\ ~MayFollow(p, token.type)
    <2>1. q = [p EXCEPT !.verdict = "rejected"]
      BY <1>2 DEF ParseStep
    <2> QED
      BY <2>1 DEF Builds
  <1>3. CASE token.type # "COMMENT" /\ MayFollow(p, token.type)
    <2>1. q = Consume(p, token)
      BY <1>3 DEF ParseStep
    <2>2. token.type \in StatementTypes \/ token.type = "EOF"
      BY <1>3 DEF MayFollow, StatementTypes
    <2>3. CASE token.type = "EOF"
      <3>1. q.verdict = "accepted" /\ q.config = p.config
        BY <2>1, <2>3 DEF Consume, Builds
      <3> QED
        BY <1>3, <2>3, <3>1 DEF EndTurn
    <2> QED
      BY <1>3, <2>1, <2>2, <2>3 DEF StatementTurn
  <1> QED
    BY <1>1, <1>2, <1>3

\* As long as a parser reads, what it has read is written so that it is read
\* again; so is what it has accepted.
Parsed(S, p) ==
    /\ p.verdict = "parsing" => Builds(S, p) /\ ReadsBack(S, p)
    /\ p.verdict = "accepted" =>
           /\ Parse(ConfigToString(p.config)).verdict = "accepted"
           /\ Parse(ConfigToString(p.config)).config = p.config

LEMMA ParsedNew ==
    ASSUME NEW S, Signs \subseteq S, NEW input \in Seq(S)
    PROVE  Parsed(S, NewParser(input))
  <1>1. NewParser(input).verdict = "parsing"
    BY DEF NewParser
  <1> QED
    BY <1>1, ReadsNew DEF Parsed

LEMMA CommentFacts ==
    ASSUME NEW S, NEW input \in Seq(S),
           NEW token, token = ParseToken(input), token.type = "COMMENT"
    PROVE  /\ token.rest \in Seq(S)
           /\ \E before \in Seq(S) : input = before \o token.rest /\ "#" \in ToSet(input)
  <1>1. PICK space \in Seq(S), t \in Seq(S) :
            /\ IsBlank(space) /\ input = space \o t
            /\ t # <<>> => t[1] \notin Whitespace
            /\ token = ParseText(t)
    BY WhatIsSkipped, ZenonT(40)
  <1>2. PICK n \in 1 .. Len(t) : t[1] = "#" /\ token = Token("COMMENT", t, n)
    BY <1>1, ParseTextTakes
  <1>3. PICK l \in Nat, m \in Nat \ {0} : l = Len(space) /\ m = Len(t) /\ n \in 0 .. m
    BY <1>2
  <1>4. /\ SubSeq(t, 1, n) \in Seq(S) /\ Len(SubSeq(t, 1, n)) = n
        /\ \A i \in 1 .. n : SubSeq(t, 1, n)[i] = t[i]
        /\ SubSeq(t, n + 1, Len(t)) \in Seq(S)
        /\ Len(SubSeq(t, n + 1, Len(t))) = Len(t) - n
        /\ \A i \in 1 .. Len(t) - n : SubSeq(t, n + 1, Len(t))[i] = t[n + i]
    BY <1>3, CutFacts
  <1>5. PICK c \in Seq(S) :
            c = SubSeq(t, 1, n) /\ Len(c) = n /\ \A i \in 1 .. n : c[i] = t[i]
    BY <1>4
  <1>6. PICK u \in Seq(S) :
            /\ u = SubSeq(t, n + 1, Len(t)) /\ Len(u) = Len(t) - n
            /\ \A i \in 1 .. Len(t) - n : u[i] = t[n + i]
    BY <1>4
  <1>7. t = c \o u
    BY <1>3, <1>5, <1>6, CutJoins
  <1>8. token.rest = u
    BY <1>2, <1>6 DEF Token
  <1>9. input = (space \o c) \o u /\ space \o c \in Seq(S)
    <2>1. space \o (c \o u) = (space \o c) \o u /\ space \o c \in Seq(S)
      OBVIOUS
    <2> QED
      BY <1>1, <1>7, <2>1
  <1>10. "#" \in ToSet(input)
    <2>1. Len(space \o t) = l + m /\ (space \o t)[l + 1] = t[1]
      BY <1>3, JoinFacts
    <2>2. l + 1 \in 1 .. l + m
      BY <1>3
    <2>3. l + 1 \in DOMAIN input
      BY <1>1, <2>1, <2>2, SequenceFacts
    <2> QED
      BY <1>1, <1>2, <2>1, <2>3 DEF ToSet
  <1> QED
    BY <1>8, <1>9, <1>10

\* The configuration that Parse has made when it accepts, written and parsed, is
\* the same configuration.
LEMMA ParsedStep ==
    ASSUME NEW S, Signs \subseteq S, NEW p, Parsed(S, p), p.verdict = "parsing"
    PROVE  Parsed(S, ParseStep(p))
  <1>1. Builds(S, p) /\ ReadsBack(S, p) /\ p.input \in Seq(S)
    BY DEF Parsed, Builds
  <1>2. PICK token, q : token = ParseToken(p.input) /\ q = ParseStep(p)
    OBVIOUS
  <1>3. CASE CommentTurn(p, token, q)
    <2>1. token.rest \in Seq(S)
      BY <1>1, <1>2, <1>3, CommentFacts DEF CommentTurn
    <2>2. Builds(S, q) /\ ReadsBack(S, q)
      BY <1>1, <1>3, <2>1, ReadsComment DEF CommentTurn
    <2>3. q.verdict = "parsing"
      BY <1>1, <1>3 DEF CommentTurn, Before, Builds
    <2> QED
      BY <1>2, <2>2, <2>3 DEF Parsed
  <1>4. CASE StatementTurn(p, token, q)
    <2>1. token.type \in StatementTypes /\ MayFollow(p, token.type) /\ q = Consume(p, token)
      BY <1>4 DEF StatementTurn
    <2>2. token.value \in Seq(S) /\ token.rest \in Seq(S) /\ HasItsSign(token)
      BY <1>1, <1>2, <2>1, TokenFacts
    <2>3. Builds(S, q) /\ Took(p, q, token)
      BY <1>1, <2>1, <2>2, TokenAdds
    <2>4. ReadsBack(S, q)
      BY <1>1, <1>2, <2>1, ReadsToken
    <2>5. q.verdict = "parsing"
      BY <2>3 DEF Took
    <2> QED
      BY <1>2, <2>3, <2>4, <2>5 DEF Parsed
  <1>5. CASE EndTurn(p, token, q)
    <2>1. MayFollow(p, "EOF") /\ q.verdict = "accepted" /\ q.config = p.config
      BY <1>5 DEF EndTurn
    <2>2. /\ Parse(Written(p)).verdict = "accepted" /\ Parse(Written(p)).config = p.config
          /\ ConfigToString(p.config) = Written(p)
      BY <1>1, <2>1, EndReached
    <2> QED
      BY <1>2, <2>1, <2>2 DEF Parsed
  <1>6. CASE q.verdict = "rejected"
    BY <1>2, <1>6 DEF Parsed
  <1> QED
    BY <1>1, <1>2, <1>3, <1>4, <1>5, <1>6, TurnFacts

================================================================================
