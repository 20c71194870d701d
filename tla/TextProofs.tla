----------------------------- MODULE TextProofs -----------------------------
(***************************************************************************)
(* Proofs about the strings that the client and the server hand to each    *)
(* other and to other programs: first the client's URL, the way of a name  *)
(* through it, and the names that reach the database (module Routes), for  *)
(* any names of any length and any URLs; then the byte strings that are    *)
(* authenticated, hashed, exported and logged (module Encoding), for any   *)
(* names below 2^32 bytes and any values.                                  *)
(***************************************************************************)
EXTENDS Routes, Encoding, FunctionTheorems, FiniteSetTheorems, SequenceTheorems,
        TLAPS

-----------------------------------------------------------------------------
(***************************************************************************)
(* A URL, cut at its slashes                                               *)
(***************************************************************************)

\* Every slash of the path has its number.
Proper(path) ==
  /\ path \in Seq(Pieces)
  /\ \A k \in 1..Cardinality(SlashesIn(path)) : Cut(path, k) \in 1..Len(path)

NoSlash(s) == s \in Seq(Pieces) /\ \A i \in 1..Len(s) : s[i] # "/"

\* The pieces of a URL with one more segment.
LEMMA LongerUrl ==
  ASSUME NEW url \in Seq(Pieces), NEW seg \in Seq(Pieces)
  PROVE  /\ url // seg \in Seq(Pieces)
         /\ Len(url // seg) = Len(url) + 1 + Len(seg)
         /\ \A i \in 1..Len(url) : (url // seg)[i] = url[i]
         /\ (url // seg)[Len(url) + 1] = "/"
         /\ \A i \in 1..Len(seg) : (url // seg)[Len(url) + 1 + i] = seg[i]
<1> DEFINE pre == url \o <<"/">>
<1>1. "/" \in Pieces BY DEF Pieces
<1>2. /\ pre \in Seq(Pieces)
      /\ Len(pre) = Len(url) + 1
      /\ \A i \in 1..Len(url) : pre[i] = url[i]
      /\ pre[Len(url) + 1] = "/"
  BY <1>1, AppendIsConcat, AppendProperties
<1>3. url // seg = pre \o seg BY DEF //
<1> HIDE DEF pre
<1>4. /\ url // seg \in Seq(Pieces)
      /\ Len(url // seg) = Len(pre) + Len(seg)
      /\ \A i \in 1..(Len(pre) + Len(seg)) :
           (url // seg)[i] = IF i <= Len(pre) THEN pre[i] ELSE seg[i - Len(pre)]
  <2>1. pre \in Seq(Pieces) BY <1>2
  <2>2. /\ pre \o seg \in Seq(Pieces)
        /\ Len(pre \o seg) = Len(pre) + Len(seg)
        /\ \A i \in 1..(Len(pre) + Len(seg)) :
             (pre \o seg)[i] = IF i <= Len(pre) THEN pre[i] ELSE seg[i - Len(pre)]
    BY <2>1, ConcatProperties
  <2> QED BY <1>3, <2>2
<1>5. Len(url) \in Nat /\ Len(seg) \in Nat OBVIOUS
<1>6. \A i \in 1..Len(url) : (url // seg)[i] = url[i]
  BY <1>2, <1>4, <1>5
<1>7. (url // seg)[Len(url) + 1] = "/"
  <2>1. (url // seg)[Len(url) + 1] = pre[Len(url) + 1] BY <1>2, <1>4, <1>5
  <2> QED BY <1>2, <2>1
<1>8. ASSUME NEW i \in 1..Len(seg) PROVE (url // seg)[Len(url) + 1 + i] = seg[i]
  <2>1. Len(url) + 1 + i \in 1..(Len(pre) + Len(seg)) BY <1>2, <1>5
  <2>2. ~(Len(url) + 1 + i <= Len(pre)) /\ (Len(url) + 1 + i) - Len(pre) = i
    BY <1>2, <1>5
  <2> QED BY <1>4, <2>1, <2>2
<1>9. Len(url // seg) = Len(url) + 1 + Len(seg) BY <1>2, <1>4, <1>5
<1> QED BY <1>4, <1>6, <1>7, <1>8, <1>9

\* Only slashes that there are count, and there are finitely many.
LEMMA SlashesFinite ==
  ASSUME NEW path \in Seq(Pieces)
  PROVE  /\ SlashesIn(path) \subseteq 1..Len(path)
         /\ IsFiniteSet(SlashesIn(path)) /\ Cardinality(SlashesIn(path)) \in Nat
<1>1. SlashesIn(path) \subseteq 1..Len(path) BY DEF SlashesIn
<1>2. IsFiniteSet(1..Len(path)) BY FS_Interval
<1>3. IsFiniteSet(SlashesIn(path)) BY <1>1, <1>2, FS_Subset
<1> QED BY <1>1, <1>3, FS_CardinalityType

\* The members of a finite set of numbers are numbered from one to their number:
\* the numbers of two of them differ, and so none is missing.
LEMMA Numbered ==
  ASSUME NEW S \in SUBSET Nat, IsFiniteSet(S), NEW k \in 1..Cardinality(S)
  PROVE  \E i \in S : Cardinality({j \in S : j <= i}) = k
<1> DEFINE n == Cardinality(S)
           Upto(i) == {j \in S : j <= i}
           number == [i \in S |-> Cardinality(Upto(i))]
<1>1. n \in Nat BY FS_CardinalityType
<1>2. ASSUME NEW i \in S
      PROVE  /\ IsFiniteSet(Upto(i)) /\ Cardinality(Upto(i)) \in 1..n
  <2>1. Upto(i) \subseteq S /\ i \in Upto(i) OBVIOUS
  <2>2. IsFiniteSet(Upto(i)) /\ Cardinality(Upto(i)) <= n
    BY <2>1, FS_Subset
  <2>3. Cardinality(Upto(i)) \in Nat /\ Cardinality(Upto(i)) # 0
    BY <2>1, <2>2, FS_CardinalityType, FS_EmptySet
  <2> QED BY <1>1, <2>2, <2>3
<1>3. ASSUME NEW i \in S, NEW j \in S, i < j
      PROVE  Cardinality(Upto(i)) # Cardinality(Upto(j))
  <2>1. /\ \A x \in S : x \in Nat /\ (x <= i => x <= j)
        /\ j <= j /\ ~(j <= i)
    BY <1>3
  <2>2. Upto(i) \subseteq Upto(j) /\ j \in Upto(j) /\ j \notin Upto(i)
    BY <2>1
  <2>3. Upto(i) # Upto(j) BY <2>2
  <2> QED BY <1>2, <2>2, <2>3, FS_Subset
<1>4. ASSUME NEW i \in S, NEW j \in S, number[i] = number[j] PROVE i = j
  <2>1. Cardinality(Upto(i)) = Cardinality(Upto(j)) BY <1>4
  <2>2. i < j \/ j < i \/ i = j OBVIOUS
  <2> QED BY <1>3, <2>1, <2>2
<1>5. number \in [S -> 1..n] BY <1>2
<1>6. number \in Injection(S, 1..n) BY <1>4, <1>5, Fun_IsInj
<1>7. IsFiniteSet(1..n) /\ Cardinality(1..n) = n
  BY <1>1, FS_Interval
<1>8. number \in Surjection(S, 1..n) BY <1>6, <1>7, FS_Injection
<1>9. \A i \in S : number[i] = Cardinality(Upto(i)) OBVIOUS
<1> HIDE DEF number
<1>10. PICK i \in S : number[i] = k BY <1>8 DEF Surjection
<1> QED BY <1>9, <1>10

\* A set of numbers that is not empty and finite has a least one.
LEMMA LeastOf ==
  ASSUME NEW S \in SUBSET Nat, IsFiniteSet(S), S # {}
  PROVE  \E i \in S : \A j \in S : i <= j
<1>1. 1 \in 1..Cardinality(S) BY FS_CardinalityType, FS_EmptySet
<1>2. PICK i \in S : Cardinality({j \in S : j <= i}) = 1 BY <1>1, Numbered
<1> DEFINE T == {j \in S : j <= i}
<1>3. IsFiniteSet(T) BY FS_Subset
<1>4. PICK x : T = {x} BY <1>2, <1>3, FS_Singleton
<1>5. i \in T OBVIOUS
<1>6. \A j \in S : j <= i => j = i BY <1>4, <1>5
<1> QED BY <1>6

\* The slashes of a path have numbers, so that Cut finds each of them.
LEMMA EveryPathProper ==
  ASSUME NEW path \in Seq(Pieces)
  PROVE  Proper(path)
<1> DEFINE S == SlashesIn(path)
           n == Cardinality(S)
<1>1. S \subseteq 1..Len(path) /\ IsFiniteSet(S) /\ n \in Nat BY SlashesFinite
<1>2. S \subseteq Nat BY <1>1
<1> HIDE DEF S, n
<1>3. ASSUME NEW k \in 1..n PROVE Cut(path, k) \in S
  <2>1. PICK i \in S : Cardinality({j \in S : j <= i}) = k
    BY <1>1, <1>2, Numbered DEF n
  <2>2. i \in {j \in S : Rank(path, j) = k} BY <2>1 DEF Rank, S
  <2>3. (CHOOSE j \in {x \in S : Rank(path, x) = k} : TRUE) \in S BY <2>2
  <2>4. Cut(path, k) = CHOOSE j \in {x \in S : Rank(path, x) = k} : TRUE
    BY <1>1 DEF Cut, S, n
  <2> QED BY <2>3, <2>4
<1> QED BY <1>1, <1>3 DEF Proper, S, n

\* A segment more is a slash more, after the others.
LEMMA OneMoreSlash ==
  ASSUME NEW url \in Seq(Pieces), NEW seg, NoSlash(seg)
  PROVE  /\ SlashesIn(url // seg) = SlashesIn(url) \cup {Len(url) + 1}
         /\ Cardinality(SlashesIn(url // seg)) = Cardinality(SlashesIn(url)) + 1
         /\ \A i \in SlashesIn(url) : Rank(url // seg, i) = Rank(url, i)
         /\ Rank(url // seg, Len(url) + 1) = Cardinality(SlashesIn(url)) + 1
<1> DEFINE path == url // seg
           L == Len(url)
<1> seg \in Seq(Pieces) BY DEF NoSlash
<1>1. /\ path \in Seq(Pieces) /\ Len(path) = L + 1 + Len(seg) /\ L \in Nat
      /\ \A i \in 1..L : path[i] = url[i]
      /\ path[L + 1] = "/"
      /\ \A i \in 1..Len(seg) : path[L + 1 + i] = seg[i]
  BY LongerUrl, LenProperties
<1> HIDE DEF path
<1>2. ASSUME NEW i \in 1..Len(path), i > L + 1 PROVE path[i] # "/"
  <2>1. i - (L + 1) \in 1..Len(seg) BY <1>1, <1>2
  <2>2. path[L + 1 + (i - (L + 1))] = seg[i - (L + 1)] BY <1>1, <2>1
  <2>3. L + 1 + (i - (L + 1)) = i BY <1>1
  <2> QED BY <2>1, <2>2, <2>3 DEF NoSlash
<1>3. SlashesIn(path) = SlashesIn(url) \cup {L + 1}
  <2>1. ASSUME NEW i \in SlashesIn(path) PROVE i \in SlashesIn(url) \cup {L + 1}
    BY <1>1, <1>2, <2>1 DEF SlashesIn
  <2>2. ASSUME NEW i \in SlashesIn(url) PROVE i \in SlashesIn(path)
    <3>1. i \in 1..L /\ url[i] = "/" BY <1>1 DEF SlashesIn
    <3>2. i \in DOMAIN path BY <1>1, <3>1
    <3> QED BY <1>1, <3>1, <3>2 DEF SlashesIn
  <2>3. L + 1 \in SlashesIn(path) BY <1>1 DEF SlashesIn
  <2> QED BY <2>1, <2>2, <2>3
<1>4. L + 1 \notin SlashesIn(url) BY SlashesFinite, <1>1
<1>5. Cardinality(SlashesIn(path)) = Cardinality(SlashesIn(url)) + 1
  BY <1>3, <1>4, SlashesFinite, FS_AddElement
<1>6. ASSUME NEW i \in SlashesIn(url) PROVE Rank(path, i) = Rank(url, i)
  <2>1. i \in 1..L BY SlashesFinite
  <2>2. {j \in SlashesIn(path) : j <= i} = {j \in SlashesIn(url) : j <= i}
    BY <1>1, <1>3, <2>1
  <2> QED BY <2>2 DEF Rank
<1>7. {j \in SlashesIn(path) : j <= L + 1} = SlashesIn(path)
  BY <1>1, <1>3, SlashesFinite
<1>8. Rank(path, L + 1) = Cardinality(SlashesIn(url)) + 1 BY <1>5, <1>7 DEF Rank
<1> QED BY <1>3, <1>5, <1>6, <1>8 DEF path

\* The places of the slashes stay, and the new one is the last.
LEMMA CutsStay ==
  ASSUME NEW url, Proper(url), NEW seg, NoSlash(seg)
  PROVE  /\ \A k \in 0..Cardinality(SlashesIn(url)) : Cut(url // seg, k) = Cut(url, k)
         /\ Cut(url // seg, Cardinality(SlashesIn(url)) + 1) = Len(url) + 1
         /\ Cut(url // seg, Cardinality(SlashesIn(url)) + 2) = Len(url // seg) + 1
         /\ Proper(url // seg)
<1> DEFINE path == url // seg
           n == Cardinality(SlashesIn(url))
           At(p, k) == {i \in SlashesIn(p) : Rank(p, i) = k}
<1>1. url \in Seq(Pieces) /\ seg \in Seq(Pieces) BY DEF Proper, NoSlash
<1>2. n \in Nat BY <1>1, SlashesFinite
<1>3. /\ SlashesIn(path) = SlashesIn(url) \cup {Len(url) + 1}
      /\ Cardinality(SlashesIn(path)) = n + 1
      /\ \A i \in SlashesIn(url) : Rank(path, i) = Rank(url, i)
      /\ Rank(path, Len(url) + 1) = n + 1
  BY <1>1, OneMoreSlash
<1>4. path \in Seq(Pieces) /\ Len(path) = Len(url) + 1 + Len(seg)
  BY <1>1, LongerUrl
<1>5. \A i \in SlashesIn(url) : Rank(url, i) <= n
  <2> SUFFICES ASSUME NEW i \in SlashesIn(url) PROVE Rank(url, i) <= n OBVIOUS
  <2>1. {j \in SlashesIn(url) : j <= i} \subseteq SlashesIn(url) OBVIOUS
  <2> QED BY <1>1, <2>1, SlashesFinite, FS_Subset DEF Rank
<1>6. \A i \in SlashesIn(url) : Rank(url, i) # n + 1
  <2> SUFFICES ASSUME NEW i \in SlashesIn(url), Rank(url, i) = n + 1 PROVE FALSE
    OBVIOUS
  <2> QED BY <1>2, <1>5
<1> HIDE DEF path, n
<1>7. ASSUME NEW k \in 1..n PROVE Cut(path, k) = Cut(url, k)
  <2>1. At(path, k) = At(url, k) BY <1>2, <1>3
  <2>2. Cut(path, k) = CHOOSE i \in At(path, k) : TRUE
    BY <1>2, <1>3 DEF Cut
  <2>3. Cut(url, k) = CHOOSE i \in At(url, k) : TRUE
    BY <1>2 DEF Cut, n
  <2> QED BY <2>1, <2>2, <2>3
<1>8. Cut(path, 0) = Cut(url, 0) BY DEF Cut
<1>9. Cut(path, n + 1) = Len(url) + 1
  <2>1. At(path, n + 1) = {Len(url) + 1} BY <1>3, <1>6
  <2>2. Cut(path, n + 1) = CHOOSE i \in At(path, n + 1) : TRUE
    BY <1>2, <1>3 DEF Cut
  <2>3. (CHOOSE i \in {Len(url) + 1} : TRUE) = Len(url) + 1 OBVIOUS
  <2> QED BY <2>1, <2>2, <2>3
<1>10. Cut(path, n + 2) = Len(path) + 1 BY <1>2, <1>3 DEF Cut
<1>11. Proper(path)
  <2>1. \A k \in 1..n : Cut(url, k) \in 1..Len(url) BY DEF Proper, n
  <2> SUFFICES ASSUME NEW k \in 1..(n + 1) PROVE Cut(path, k) \in 1..Len(path)
    BY <1>3, <1>4 DEF Proper
  <2>2. Len(url) \in Nat /\ Len(seg) \in Nat BY <1>1
  <2>3. k \in 1..n \/ k = n + 1 BY <1>2
  <2> QED BY <1>4, <1>7, <1>9, <2>1, <2>2, <2>3
<1>12. \A k \in 0..n : k \in 1..n \/ k = 0 BY <1>2
<1> QED BY <1>7, <1>8, <1>9, <1>10, <1>11, <1>12 DEF path, n

\* A part of a path with the pieces of a name is the name.
LEMMA PartIs ==
  ASSUME NEW path \in Seq(Pieces), NEW name \in Seq(Pieces), NEW a \in Nat,
         a + Len(name) <= Len(path),
         \A i \in 1..Len(name) : path[a + i] = name[i]
  PROVE  SubSeq(path, a + 1, a + Len(name)) = name
<1> DEFINE part == SubSeq(path, a + 1, a + Len(name))
<1>1. \A i \in (a + 1)..(a + Len(name)) : path[i] \in Pieces OBVIOUS
<1>2. /\ part \in Seq(Pieces)
      /\ Len(part) = Len(name)
      /\ \A i \in 1..Len(name) : part[i] = path[a + i]
  <2> DEFINE m == a + 1
             n == a + Len(name)
  <2>1. m \in Int /\ n \in Int /\ n - m + 1 = Len(name) OBVIOUS
  <2>2. (m <= n) = (Len(name) # 0) /\ \A i \in 1..Len(name) : m + i - 1 = a + i
    OBVIOUS
  <2>4. \A i \in m..n : path[i] \in Pieces BY <1>1
  <2> HIDE DEF m, n
  <2>3. /\ SubSeq(path, m, n) \in Seq(Pieces)
        /\ Len(SubSeq(path, m, n)) = IF m <= n THEN n - m + 1 ELSE 0
        /\ \A i \in 1..(n - m + 1) : SubSeq(path, m, n)[i] = path[m + i - 1]
    BY <2>1, <2>4, SubSeqProperties
  <2> QED BY <2>1, <2>2, <2>3 DEF m, n
<1> HIDE DEF part
<1>3. part = name BY <1>2, SeqEqual
<1> QED BY <1>3 DEF part

\* The segments are the old ones and one more.
OneMore(new, old, seg) ==
  /\ Len(old) \in Nat /\ Len(new) = Len(old) + 1
  /\ \A k \in 1..Len(old) : new[k] = old[k]
  /\ new[Len(old) + 1] = seg

\* Split gives the segments of the shorter path, and the new one.
LEMMA SplitLonger ==
  ASSUME NEW url, Proper(url), NEW seg, NoSlash(seg)
  PROVE  /\ Proper(url // seg)
         /\ OneMore(Split(url // seg), Split(url), seg)
<1> DEFINE path == url // seg
           n == Cardinality(SlashesIn(url))
<1>1. url \in Seq(Pieces) /\ seg \in Seq(Pieces) BY DEF Proper, NoSlash
<1>2. n \in Nat BY <1>1, SlashesFinite
<1>3. Cardinality(SlashesIn(path)) = n + 1 BY <1>1, OneMoreSlash
<1>4. /\ path \in Seq(Pieces) /\ Len(path) = Len(url) + 1 + Len(seg)
      /\ \A i \in 1..Len(url) : path[i] = url[i]
      /\ \A i \in 1..Len(seg) : path[Len(url) + 1 + i] = seg[i]
  BY <1>1, LongerUrl
<1>5. /\ \A k \in 0..n : Cut(path, k) = Cut(url, k)
      /\ Cut(path, n + 1) = Len(url) + 1
      /\ Cut(path, n + 2) = Len(path) + 1
      /\ Proper(path)
  BY CutsStay
<1>6. Cut(url, 0) = 0 /\ Cut(url, n + 1) = Len(url) + 1 BY <1>2 DEF Cut
<1>7. \A k \in 1..n : Cut(url, k) \in 1..Len(url) BY DEF Proper
<1> HIDE DEF path, n
<1>8. ASSUME NEW a \in Nat \ {0}, NEW b \in 0..Len(url)
      PROVE  SubSeq(path, a, b) = SubSeq(url, a, b)
  <2>1. \A i \in a..b : i \in 1..Len(url) BY <1>1
  <2>2. \A i \in a..b : path[i] \in Pieces /\ url[i] \in Pieces
    BY <1>1, <1>4, <2>1
  <2>3. a \in Int /\ b \in Int BY <1>1
  <2>4. /\ SubSeq(path, a, b) \in Seq(Pieces) /\ SubSeq(url, a, b) \in Seq(Pieces)
        /\ Len(SubSeq(path, a, b)) = Len(SubSeq(url, a, b))
        /\ Len(SubSeq(path, a, b)) = IF a <= b THEN b - a + 1 ELSE 0
        /\ \A i \in 1..(b - a + 1) : /\ SubSeq(path, a, b)[i] = path[a + i - 1]
                                     /\ SubSeq(url, a, b)[i] = url[a + i - 1]
    BY <2>2, <2>3, SubSeqProperties
  <2>5. \A i \in 1..Len(SubSeq(path, a, b)) :
          SubSeq(path, a, b)[i] = SubSeq(url, a, b)[i]
    <3> SUFFICES ASSUME NEW i \in 1..Len(SubSeq(path, a, b))
                 PROVE  SubSeq(path, a, b)[i] = SubSeq(url, a, b)[i]
      OBVIOUS
    <3>1. i \in 1..(b - a + 1) /\ a + i - 1 \in 1..Len(url) BY <1>1, <2>3, <2>4
    <3> QED BY <1>4, <2>4, <3>1
  <2> QED BY <2>4, <2>5, SeqEqual
<1>9. ASSUME NEW k \in 1..(n + 1)
      PROVE  SubSeq(path, Cut(path, k - 1) + 1, Cut(path, k) - 1) =
               SubSeq(url, Cut(url, k - 1) + 1, Cut(url, k) - 1)
  <2>1. Len(url) \in Nat BY <1>1
  <2>2. Cut(path, k - 1) = Cut(url, k - 1) /\ Cut(path, k) = Cut(url, k)
    <3>1. k - 1 \in 0..n /\ (k \in 0..n \/ k = n + 1) BY <1>2
    <3> QED BY <1>5, <1>6, <3>1
  <2>3. Cut(url, k - 1) + 1 \in Nat \ {0}
    <3>1. k - 1 = 0 \/ k - 1 \in 1..n BY <1>2
    <3> QED BY <1>6, <1>7, <2>1, <3>1
  <2>4. Cut(url, k) - 1 \in 0..Len(url)
    <3>1. k = n + 1 \/ k \in 1..n BY <1>2
    <3> QED BY <1>6, <1>7, <2>1, <3>1
  <2> QED BY <1>8, <2>2, <2>3, <2>4
<1>10. SubSeq(path, Len(url) + 2, Len(path)) = seg
  <2>1. Len(url) + 1 \in Nat /\ Len(seg) \in Nat BY <1>1
  <2>2. SubSeq(path, (Len(url) + 1) + 1, (Len(url) + 1) + Len(seg)) = seg
    BY <1>1, <1>4, <2>1, PartIs
  <2>3. (Len(url) + 1) + 1 = Len(url) + 2 BY <1>1
  <2> QED BY <1>4, <2>2, <2>3
<1>11. Split(url) = [k \in 1..(n + 1) |->
                       SubSeq(url, Cut(url, k - 1) + 1, Cut(url, k) - 1)]
  BY DEF Split, n
<1>12. Split(path) = [k \in 1..(n + 2) |->
                        SubSeq(path, Cut(path, k - 1) + 1, Cut(path, k) - 1)]
  BY <1>2, <1>3 DEF Split
<1>13. Split(path)[n + 2] = seg
  <2>1. n + 2 \in 1..(n + 2) /\ (n + 2) - 1 = n + 1 BY <1>2
  <2>2. Cut(path, (n + 2) - 1) + 1 = Len(url) + 2 /\ Cut(path, n + 2) - 1 = Len(path)
    BY <1>1, <1>4, <1>5, <2>1
  <2> QED BY <1>10, <1>12, <2>1, <2>2
<1>14. \A k \in 1..(n + 1) : Split(path)[k] = Split(url)[k]
  <2> SUFFICES ASSUME NEW k \in 1..(n + 1) PROVE Split(path)[k] = Split(url)[k]
    OBVIOUS
  <2>1. k \in 1..(n + 2) BY <1>2
  <2>2. Split(path)[k] = SubSeq(path, Cut(path, k - 1) + 1, Cut(path, k) - 1)
    BY <1>12, <2>1
  <2>3. Split(url)[k] = SubSeq(url, Cut(url, k - 1) + 1, Cut(url, k) - 1)
    BY <1>11
  <2> QED BY <1>9, <2>2, <2>3
<1>15. Len(Split(url)) = n + 1 BY <1>2, <1>11
<1>16. Len(Split(path)) = n + 2 BY <1>2, <1>12
<1>17. (n + 1) + 1 = n + 2 /\ n + 1 \in Nat BY <1>2
<1>18. OneMore(Split(path), Split(url), seg)
  BY <1>13, <1>14, <1>15, <1>16, <1>17 DEF OneMore
<1> QED BY <1>5, <1>18 DEF path

\* The empty path, to which a URL without slashes at its end adds, is one segment.
LEMMA SplitEmpty ==
  Proper(<<>>) /\ Len(Split(<<>>)) = 1 /\ Split(<<>>)[1] = <<>>
<1>1. SlashesIn(<<>>) = {} BY DEF SlashesIn
<1>2. Cardinality(SlashesIn(<<>>)) = 0 BY <1>1, FS_EmptySet
<1>3. Proper(<<>>) BY <1>2 DEF Proper
<1>4. Cut(<<>>, 0) = 0 /\ Cut(<<>>, 1) = 1 BY <1>2 DEF Cut
<1>5. Split(<<>>) = [k \in 1..1 |-> SubSeq(<<>>, Cut(<<>>, k - 1) + 1, Cut(<<>>, k) - 1)]
  BY <1>2 DEF Split
<1>6. SubSeq(<<>>, Cut(<<>>, 0) + 1, Cut(<<>>, 1) - 1) = <<>>
  BY <1>4, SubSeqEmpty
<1>7. \A k \in 1..1 : k = 1 /\ k - 1 = 0 OBVIOUS
<1>8. Split(<<>>) = [k \in 1..1 |-> <<>>]
  BY <1>5, <1>6, <1>7
<1> QED BY <1>3, <1>8

-----------------------------------------------------------------------------
(***************************************************************************)
(* Valid names in URLs                                                     *)
(***************************************************************************)

\* A name of which no piece is a slash, is special in a URL or is encoded.
Clean(name) ==
  /\ name \in Seq(Pieces) /\ name # <<>>
  /\ \A i \in 1..Len(name) : name[i] \notin {"/", "?", "#", " ", "%61", "%2F"}

\* Nothing in a URL is one of the pieces bad.
Free(url, bad) ==
  url \in Seq(Pieces) /\ \A i \in 1..Len(url) : url[i] \notin bad

Awkward(bad) == bad \subseteq {"?", "#", " "}

\* Nothing in it ends the path, and nothing makes it invalid either.
Uncut(url) == Free(url, {"?", "#"})
Whole(url) == Free(url, {"?", "#", " "})

\* A valid project, key or token is clean.
LEMMA ValidIsClean ==
  ASSUME NEW name \in Seq(Pieces), valid_project(name) \/ valid_key(name)
  PROVE  Clean(name)
<1>1. DOMAIN name = 1..Len(name) OBVIOUS
<1> QED BY <1>1 DEF valid_project, valid_key, Letters, Clean

\* The words of the routes are clean.
LEMMA WordIsClean ==
  ASSUME NEW w \in {"v1", "projects", "secrets", "tokens"}
  PROVE  Clean(<<w>>)
<1>1. w \in Pieces BY DEF Pieces
<1> DEFINE s == <<w>>
<1>2. s \in Seq(Pieces) /\ s # <<>> /\ Len(s) = 1 /\ s[1] = w
  BY <1>1
<1>3. w \notin {"/", "?", "#", " ", "%61", "%2F"} OBVIOUS
<1> HIDE DEF s
<1>4. ASSUME NEW i \in 1..Len(s)
      PROVE  s[i] \notin {"/", "?", "#", " ", "%61", "%2F"}
  <2>1. i = 1 BY <1>2
  <2>2. s[i] = w BY <1>2, <2>1
  <2> QED BY <1>3, <2>2
<1>5. Clean(s) BY <1>2, <1>4 DEF Clean
<1> QED BY <1>5 DEF s

\* Decoding leaves a clean name as it is.
LEMMA DecodeClean ==
  ASSUME NEW name, Clean(name)
  PROVE  Decode(name) = name
<1>4. name \in Seq(Pieces) BY DEF Clean
<1>1. DOMAIN name = 1..Len(name) BY <1>4
<1>2. name = [i \in DOMAIN name |-> name[i]] BY <1>4
<1>3. ASSUME NEW i \in DOMAIN name
      PROVE  (CASE name[i] = "%61" -> "a" [] name[i] = "%2F" -> "/"
                [] OTHER -> name[i]) = name[i]
  BY <1>1 DEF Clean
<1> QED BY <1>2, <1>3 DEF Decode

\* Adding a clean segment to a URL of clean segments.
LEMMA AddClean ==
  ASSUME NEW bad, Awkward(bad),
         NEW url, Proper(url), Free(url, bad), NEW name, Clean(name)
  PROVE  Proper(url // name) /\ Free(url // name, bad)
<1> DEFINE path == url // name
<1>1. url \in Seq(Pieces) /\ name \in Seq(Pieces) BY DEF Free, Clean
<1>2. NoSlash(name) BY DEF Clean, NoSlash
<1>3. /\ path \in Seq(Pieces) /\ Len(path) = Len(url) + 1 + Len(name)
      /\ \A i \in 1..Len(url) : path[i] = url[i]
      /\ path[Len(url) + 1] = "/"
      /\ \A i \in 1..Len(name) : path[Len(url) + 1 + i] = name[i]
  BY <1>1, LongerUrl
<1> HIDE DEF path
<1>4. Free(path, bad)
  <2> SUFFICES ASSUME NEW i \in 1..Len(path) PROVE path[i] \notin bad
    BY <1>3 DEF Free
  <2>1. Len(url) \in Nat /\ Len(name) \in Nat BY <1>1
  <2>2. CASE i <= Len(url)
    <3>1. i \in 1..Len(url) BY <1>3, <2>1, <2>2
    <3>2. path[i] = url[i] BY <1>3, <3>1
    <3>3. url[i] \notin bad BY <3>1 DEF Free
    <3> QED BY <3>2, <3>3
  <2>3. CASE i = Len(url) + 1
    <3>1. "/" \notin bad BY DEF Awkward
    <3> QED BY <1>3, <2>3, <3>1
  <2>4. CASE i > Len(url) + 1
    <3>1. i - (Len(url) + 1) \in 1..Len(name) BY <1>3, <2>1, <2>4
    <3>2. Len(url) + 1 + (i - (Len(url) + 1)) = i BY <2>1
    <3>3. path[i] = name[i - (Len(url) + 1)] BY <1>3, <3>1, <3>2
    <3>4. name[i - (Len(url) + 1)] \notin bad BY <3>1 DEF Clean, Awkward
    <3> QED BY <3>3, <3>4
  <2>5. i <= Len(url) \/ i = Len(url) + 1 \/ i > Len(url) + 1 BY <1>3, <2>1
  <2> QED BY <2>2, <2>3, <2>4, <2>5
<1> QED BY <1>2, <1>4, SplitLonger DEF path

\* A URL of clean segments goes to the router as it is.
LEMMA WholeIsPath ==
  ASSUME NEW url, Uncut(url)
  PROVE  PathOf(url) = url /\ (Whole(url) => ~BadUri(url))
<1>5. url \in Seq(Pieces) BY DEF Uncut, Free
<1>1. DOMAIN url = 1..Len(url) BY <1>5
<1>2. {i \in DOMAIN url : url[i] \in {"?", "#"}} = {} BY <1>1 DEF Uncut, Free
<1>3. PathOf(url) = url BY <1>2 DEF PathOf
<1>4. Whole(url) => ~BadUri(url) BY <1>1 DEF Whole, Free, BadUri, Contains
<1> QED BY <1>3, <1>4

\* The segments that the URLs were made of, after the first n.
SecretsSegs(segs, n, name) ==
  /\ Len(segs) = n + 4
  /\ segs[n + 1] = <<"v1">> /\ segs[n + 2] = <<"projects">>
  /\ segs[n + 3] = name /\ segs[n + 4] = <<"secrets">>

SecretSegs(segs, n, name, key) ==
  /\ Len(segs) = n + 5
  /\ segs[n + 1] = <<"v1">> /\ segs[n + 2] = <<"projects">>
  /\ segs[n + 3] = name /\ segs[n + 4] = <<"secrets">> /\ segs[n + 5] = key

TokenSegs(segs, n, name) ==
  /\ Len(segs) = n + 3
  /\ segs[n + 1] = <<"v1">> /\ segs[n + 2] = <<"tokens">>
  /\ segs[n + 3] = name

\* A base URL whose slashes at the end were cut off, and how many segments its
\* path is.
Based(base) ==
  /\ base.slashes = 0 /\ base.path \in Seq(Pieces \ {"?", "#"})
  /\ base.path # <<>> => base.path[1] = "/"

Depth(base) == Len(Split(base.path))

\* The URLs start with the path of the base URL alone.
LEMMA StartIsPath ==
  ASSUME NEW base, Based(base)
  PROVE  /\ Start(base) = base.path
         /\ Proper(base.path) /\ Uncut(base.path)
         /\ Depth(base) \in Nat
         /\ base.path = <<>> => Depth(base) = 1 /\ Split(base.path)[1] = <<>>
         /\ base.path # <<>> => Depth(base) >= 2
<1> DEFINE p == base.path
           none == [i \in 1..base.slashes |-> "/"]
<1>1. base.slashes = 0 /\ p \in Seq(Pieces \ {"?", "#"}) BY DEF Based
<1>2. Pieces \ {"?", "#"} \subseteq Pieces OBVIOUS
<1>3. p \in Seq(Pieces) BY <1>1, <1>2, SeqMonotonic
<1>4. none = <<>> BY <1>1
<1>5. Start(base) = p
  <2>1. p \o <<>> = p BY <1>3, ConcatEmptySeq
  <2> QED BY <1>4, <2>1 DEF Start
<1>6. Uncut(p)
  <2>1. \A i \in 1..Len(p) : p[i] \in Pieces \ {"?", "#"} BY <1>1, ElementOfSeq
  <2> QED BY <1>3, <2>1 DEF Uncut, Free
<1>7. Proper(p) BY <1>3, EveryPathProper
<1>8. Cardinality(SlashesIn(p)) \in Nat BY <1>3, SlashesFinite
<1>9. Depth(base) = Cardinality(SlashesIn(p)) + 1 BY <1>8 DEF Depth, Split
<1>10. ASSUME p # <<>> PROVE Depth(base) >= 2
  <2>1. p[1] = "/" /\ 1 \in DOMAIN p BY <1>3, <1>10 DEF Based
  <2>2. 1 \in SlashesIn(p) BY <2>1 DEF SlashesIn
  <2>3. IsFiniteSet(SlashesIn(p)) BY <1>3, SlashesFinite
  <2>4. Cardinality(SlashesIn(p)) # 0 BY <2>2, <2>3, FS_EmptySet
  <2> QED BY <1>8, <1>9, <2>4
<1>11. p = <<>> => Depth(base) = 1 /\ Split(p)[1] = <<>>
  BY SplitEmpty DEF Depth
<1> QED BY <1>5, <1>6, <1>7, <1>8, <1>9, <1>10, <1>11

\* The URLs of a project, of a secret and of a token, cut by the router, are the
\* segments of the base URL and those that they were made of.
LEMMA UrlSegments ==
  ASSUME NEW base, Based(base), NEW name, Clean(name), NEW key, Clean(key)
  PROVE  LET n == Depth(base)
             s == Split(SecretsUrl(base, name))
             k == Split(SecretUrl(base, name, key))
             t == Split(TokenUrl(base, name))
         IN  /\ SecretsSegs(s, n, name) /\ s[1] = Split(base.path)[1]
             /\ SecretSegs(k, n, name, key) /\ k[1] = Split(base.path)[1]
             /\ TokenSegs(t, n, name) /\ t[1] = Split(base.path)[1]
<1> DEFINE p == base.path
           n == Len(Split(p))
           u1 == p // <<"v1">>
           u2 == u1 // <<"projects">>
           u3 == u2 // name
           u4 == u3 // <<"secrets">>
           u5 == u4 // key
           v2 == u1 // <<"tokens">>
           v3 == v2 // name
<1>1. /\ Start(base) = p /\ Proper(p) /\ n \in Nat /\ n >= 1
  BY StartIsPath DEF Depth
<1>2. /\ SecretsUrl(base, name) = u4 /\ SecretUrl(base, name, key) = u5
      /\ TokenUrl(base, name) = v3
  BY <1>1 DEF SecretsUrl, SecretUrl, TokenUrl
<1>3. /\ NoSlash(<<"v1">>) /\ NoSlash(<<"projects">>) /\ NoSlash(<<"secrets">>)
      /\ NoSlash(<<"tokens">>) /\ NoSlash(name) /\ NoSlash(key)
  BY WordIsClean DEF Clean, NoSlash
<1>4. Proper(u1) /\ OneMore(Split(u1), Split(p), <<"v1">>) BY <1>1, <1>3, SplitLonger
<1> HIDE DEF u1
<1>5. Proper(u2) /\ OneMore(Split(u2), Split(u1), <<"projects">>)
  BY <1>3, <1>4, SplitLonger
<1>6. Proper(v2) /\ OneMore(Split(v2), Split(u1), <<"tokens">>)
  BY <1>3, <1>4, SplitLonger
<1> HIDE DEF u2, v2
<1>7. Proper(u3) /\ OneMore(Split(u3), Split(u2), name) BY <1>3, <1>5, SplitLonger
<1>8. OneMore(Split(v3), Split(v2), name) BY <1>3, <1>6, SplitLonger
<1> HIDE DEF u3, v3
<1>9. Proper(u4) /\ OneMore(Split(u4), Split(u3), <<"secrets">>)
  BY <1>3, <1>7, SplitLonger
<1> HIDE DEF u4
<1>10. OneMore(Split(u5), Split(u4), key) BY <1>3, <1>9, SplitLonger
<1> HIDE DEF u5, p
<1>11. /\ Len(Split(u1)) = n + 1 /\ Split(u1)[n + 1] = <<"v1">>
       /\ Split(u1)[1] = Split(p)[1]
  BY <1>1, <1>4 DEF OneMore
<1> HIDE DEF n
<1>12. /\ Len(Split(u2)) = n + 2 /\ Split(u2)[n + 1] = <<"v1">>
       /\ Split(u2)[n + 2] = <<"projects">> /\ Split(u2)[1] = Split(p)[1]
  BY <1>1, <1>5, <1>11 DEF OneMore
<1>13. /\ Len(Split(v2)) = n + 2 /\ Split(v2)[n + 1] = <<"v1">>
       /\ Split(v2)[n + 2] = <<"tokens">> /\ Split(v2)[1] = Split(p)[1]
  BY <1>1, <1>6, <1>11 DEF OneMore
<1>14. TokenSegs(Split(v3), n, name) /\ Split(v3)[1] = Split(p)[1]
  BY <1>1, <1>8, <1>13 DEF OneMore, TokenSegs
<1>15. /\ Len(Split(u3)) = n + 3 /\ Split(u3)[n + 1] = <<"v1">>
       /\ Split(u3)[n + 2] = <<"projects">> /\ Split(u3)[n + 3] = name
       /\ Split(u3)[1] = Split(p)[1]
  BY <1>1, <1>7, <1>12 DEF OneMore
<1>16. SecretsSegs(Split(u4), n, name) /\ Split(u4)[1] = Split(p)[1]
  BY <1>1, <1>9, <1>15 DEF OneMore, SecretsSegs
<1>17. SecretSegs(Split(u5), n, name, key) /\ Split(u5)[1] = Split(p)[1]
  BY <1>1, <1>10, <1>16 DEF OneMore, SecretsSegs, SecretSegs
<1> QED BY <1>2, <1>14, <1>16, <1>17 DEF Depth, n, p

\* Names that are clean add nothing to what the base URL's path has that could end
\* the path of the URL or make it invalid.
LEMMA UrlFree ==
  ASSUME NEW bad, Awkward(bad), NEW base, Based(base),
         Free(base.path, bad), NEW name, Clean(name), NEW key, Clean(key)
  PROVE  /\ Free(SecretsUrl(base, name), bad)
         /\ Free(SecretUrl(base, name, key), bad)
         /\ Free(TokenUrl(base, name), bad)
<1> DEFINE u1 == base.path // <<"v1">>
           u2 == u1 // <<"projects">>
           u3 == u2 // name
           u4 == u3 // <<"secrets">>
           v2 == u1 // <<"tokens">>
<1>1. Start(base) = base.path /\ Proper(base.path) BY StartIsPath
<1>2. /\ SecretsUrl(base, name) = u4 /\ SecretUrl(base, name, key) = u4 // key
      /\ TokenUrl(base, name) = v2 // name
  BY <1>1 DEF SecretsUrl, SecretUrl, TokenUrl
<1>3. Clean(<<"v1">>) /\ Clean(<<"projects">>) /\ Clean(<<"secrets">>) /\ Clean(<<"tokens">>)
  BY WordIsClean
<1>4. Proper(u1) /\ Free(u1, bad) BY <1>1, <1>3, AddClean
<1> HIDE DEF u1
<1>5. Proper(u2) /\ Free(u2, bad) /\ Proper(v2) /\ Free(v2, bad)
  BY <1>3, <1>4, AddClean
<1> HIDE DEF u2, v2
<1>6. Proper(u3) /\ Free(u3, bad) /\ Free(v2 // name, bad) BY <1>5, AddClean
<1> HIDE DEF u3
<1>7. Proper(u4) /\ Free(u4, bad) BY <1>3, <1>6, AddClean
<1> HIDE DEF u4
<1>8. Free(u4 // key, bad) BY <1>7, AddClean
<1> QED BY <1>2, <1>6, <1>7, <1>8

\* A template that matches has a segment less than the path; no other template has
\* as many as those of a project, of a secret and of a token.
LEMMA LengthDecides ==
  ASSUME NEW segs, NEW u \in DOMAIN Templates, Matches(Templates[u], segs)
  PROVE  /\ Len(segs) \in 3..6
         /\ Len(segs) = 5 => u = "secrets"
         /\ Len(segs) = 6 => u = "secret"
         /\ Len(segs) = 4 => u = "token"
<1> DEFINE n == Len(Templates[u])
<1>1. u \in {"projects", "secrets", "secret", "tokens", "token"} BY DEF Templates
<1>10. /\ Len(Templates["projects"]) = 2 /\ Len(Templates["secrets"]) = 4
       /\ Len(Templates["secret"]) = 5 /\ Len(Templates["tokens"]) = 2
       /\ Len(Templates["token"]) = 3
  BY DEF Templates
<1>2. u = "projects" => n = 2 BY <1>10
<1>3. u = "secrets" => n = 4 BY <1>10
<1>4. u = "secret" => n = 5 BY <1>10
<1>5. u = "tokens" => n = 2 BY <1>10
<1>6. u = "token" => n = 3 BY <1>10
<1>7. Len(segs) = n + 1 BY DEF Matches
<1> HIDE DEF n
<1>8. n \in 2..5 BY <1>1, <1>2, <1>3, <1>4, <1>5, <1>6
<1>9. /\ Len(segs) = 5 => n # 2 /\ n # 5 /\ n # 3
      /\ Len(segs) = 6 => n # 2 /\ n # 4 /\ n # 3
      /\ Len(segs) = 4 => n # 2 /\ n # 4 /\ n # 5
      /\ Len(segs) \in 3..6
  BY <1>7, <1>8
<1> QED BY <1>1, <1>2, <1>3, <1>4, <1>5, <1>6, <1>9, Zenon

\* The only template that matches is the route.
LEMMA OnlyRoute ==
  ASSUME NEW segs, NEW x \in DOMAIN Templates, Matches(Templates[x], segs),
         \A t \in DOMAIN Templates : Matches(Templates[t], segs) => t = x
  PROVE  Route(segs) = x
<1> DEFINE found == {t \in DOMAIN Templates : Matches(Templates[t], segs)}
<1>1. found = {x} OBVIOUS
<1>2. Route(segs) = IF found = {} THEN None ELSE CHOOSE t \in found : TRUE BY DEF Route
<1> HIDE DEF found
<1>3. (CHOOSE t \in {x} : TRUE) = x OBVIOUS
<1> QED BY <1>1, <1>2, <1>3

\* Each is matched by its route alone.
LEMMA RouteOf ==
  ASSUME NEW segs, segs[1] = <<>>, NEW name, name # <<>>
  PROVE  /\ SecretsSegs(segs, 1, name) => Route(segs) = "secrets"
         /\ \A key : key # <<>> /\ SecretSegs(segs, 1, name, key) =>
              Route(segs) = "secret"
         /\ TokenSegs(segs, 1, name) => Route(segs) = "token"
<1>1. ASSUME SecretsSegs(segs, 1, name) PROVE Route(segs) = "secrets"
  <2> DEFINE t == Templates["secrets"]
  <2>1. /\ DOMAIN t = 1..4 /\ t[1] = "v1" /\ t[2] = "projects" /\ t[3] = "{name}"
        /\ t[4] = "secrets"
    BY DEF Templates
  <2>2. Len(t) = 4 BY DEF Templates
  <2> HIDE DEF t
  <2>3. \A i \in 1..4 : IF t[i] \in Params THEN segs[i + 1] # <<>>
                                           ELSE segs[i + 1] = <<t[i]>>
    <3>1. t[1] \notin Params /\ t[2] \notin Params /\ t[3] \in Params /\ t[4] \notin Params
      BY <2>1 DEF Params
    <3>5. /\ 1 + 1 = 2 /\ 2 + 1 = 3 /\ 3 + 1 = 4 /\ 4 + 1 = 5 /\ 5 + 1 = 6
          /\ 1 + 2 = 3 /\ 1 + 3 = 4 /\ 1 + 4 = 5 /\ 1 + 5 = 6
      OBVIOUS
    <3>6. segs[2] = <<t[1]>> /\ segs[3] = <<t[2]>> /\ segs[4] # <<>>
          /\ segs[5] = <<t[4]>>
      BY <1>1, <2>1, <3>5 DEF SecretsSegs
    <3>2. segs[1 + 1] = <<t[1]>> /\ segs[2 + 1] = <<t[2]>> /\ segs[3 + 1] # <<>>
          /\ segs[4 + 1] = <<t[4]>>
      BY <3>5, <3>6
    <3>3. \A i \in 1..4 : i = 1 \/ i = 2 \/ i = 3 \/ i = 4 OBVIOUS
    <3> QED BY <3>1, <3>2, <3>3
  <2>6. Len(segs) = Len(t) + 1 /\ segs[1] = <<>> BY <1>1, <2>2 DEF SecretsSegs
  <2>4. Matches(t, segs) BY <2>1, <2>3, <2>6 DEF Matches
  <2>5. \A u \in DOMAIN Templates : Matches(Templates[u], segs) => u = "secrets"
    BY <1>1, LengthDecides DEF SecretsSegs
  <2>7. DOMAIN Templates = {"projects", "secrets", "secret", "tokens", "token"}
    BY DEF Templates
  <2> QED BY <2>4, <2>5, <2>7, OnlyRoute DEF t
<1>2. ASSUME NEW key, key # <<>>, SecretSegs(segs, 1, name, key)
      PROVE  Route(segs) = "secret"
  <2> DEFINE t == Templates["secret"]
  <2>1. /\ DOMAIN t = 1..5 /\ t[1] = "v1" /\ t[2] = "projects" /\ t[3] = "{name}"
        /\ t[4] = "secrets" /\ t[5] = "{key}"
    BY DEF Templates
  <2>2. Len(t) = 5 BY DEF Templates
  <2> HIDE DEF t
  <2>3. \A i \in 1..5 : IF t[i] \in Params THEN segs[i + 1] # <<>>
                                           ELSE segs[i + 1] = <<t[i]>>
    <3>1. t[1] \notin Params /\ t[2] \notin Params /\ t[3] \in Params /\ t[4] \notin Params
          /\ t[5] \in Params
      BY <2>1 DEF Params
    <3>5. /\ 1 + 1 = 2 /\ 2 + 1 = 3 /\ 3 + 1 = 4 /\ 4 + 1 = 5 /\ 5 + 1 = 6
          /\ 1 + 2 = 3 /\ 1 + 3 = 4 /\ 1 + 4 = 5 /\ 1 + 5 = 6
      OBVIOUS
    <3>6. segs[2] = <<t[1]>> /\ segs[3] = <<t[2]>> /\ segs[4] # <<>>
          /\ segs[5] = <<t[4]>> /\ segs[6] # <<>>
      BY <1>2, <2>1, <3>5 DEF SecretSegs
    <3>2. segs[1 + 1] = <<t[1]>> /\ segs[2 + 1] = <<t[2]>> /\ segs[3 + 1] # <<>>
          /\ segs[4 + 1] = <<t[4]>> /\ segs[5 + 1] # <<>>
      BY <3>5, <3>6
    <3>3. \A i \in 1..5 : i = 1 \/ i = 2 \/ i = 3 \/ i = 4 \/ i = 5 OBVIOUS
    <3> QED BY <3>1, <3>2, <3>3
  <2>6. Len(segs) = Len(t) + 1 /\ segs[1] = <<>> BY <1>2, <2>2 DEF SecretSegs
  <2>4. Matches(t, segs) BY <2>1, <2>3, <2>6 DEF Matches
  <2>5. \A u \in DOMAIN Templates : Matches(Templates[u], segs) => u = "secret"
    BY <1>2, LengthDecides DEF SecretSegs
  <2>7. DOMAIN Templates = {"projects", "secrets", "secret", "tokens", "token"}
    BY DEF Templates
  <2> QED BY <2>4, <2>5, <2>7, OnlyRoute DEF t
<1>3. ASSUME TokenSegs(segs, 1, name) PROVE Route(segs) = "token"
  <2> DEFINE t == Templates["token"]
  <2>1. DOMAIN t = 1..3 /\ t[1] = "v1" /\ t[2] = "tokens" /\ t[3] = "{name}"
    BY DEF Templates
  <2>2. Len(t) = 3 BY DEF Templates
  <2> HIDE DEF t
  <2>3. \A i \in 1..3 : IF t[i] \in Params THEN segs[i + 1] # <<>>
                                           ELSE segs[i + 1] = <<t[i]>>
    <3>1. t[1] \notin Params /\ t[2] \notin Params /\ t[3] \in Params
      BY <2>1 DEF Params
    <3>5. /\ 1 + 1 = 2 /\ 2 + 1 = 3 /\ 3 + 1 = 4 /\ 4 + 1 = 5 /\ 5 + 1 = 6
          /\ 1 + 2 = 3 /\ 1 + 3 = 4 /\ 1 + 4 = 5 /\ 1 + 5 = 6
      OBVIOUS
    <3>6. segs[2] = <<t[1]>> /\ segs[3] = <<t[2]>> /\ segs[4] # <<>>
      BY <1>3, <2>1, <3>5 DEF TokenSegs
    <3>2. segs[1 + 1] = <<t[1]>> /\ segs[2 + 1] = <<t[2]>> /\ segs[3 + 1] # <<>>
      BY <3>5, <3>6
    <3>3. \A i \in 1..3 : i = 1 \/ i = 2 \/ i = 3 OBVIOUS
    <3> QED BY <3>1, <3>2, <3>3
  <2>6. Len(segs) = Len(t) + 1 /\ segs[1] = <<>> BY <1>3, <2>2 DEF TokenSegs
  <2>4. Matches(t, segs) BY <2>1, <2>3, <2>6 DEF Matches
  <2>5. \A u \in DOMAIN Templates : Matches(Templates[u], segs) => u = "token"
    BY <1>3, LengthDecides DEF TokenSegs
  <2>7. DOMAIN Templates = {"projects", "secrets", "secret", "tokens", "token"}
    BY DEF Templates
  <2> QED BY <2>4, <2>5, <2>7, OnlyRoute DEF t
<1> QED BY <1>1, <1>2, <1>3

\* The segments of a base URL's path in front, and no template is as long or has
\* its words in these places.
LEMMA NoRouteOf ==
  ASSUME NEW segs, NEW n \in Nat, n >= 2, NEW name, NEW key,
         \/ SecretsSegs(segs, n, name) \/ SecretSegs(segs, n, name, key)
         \/ TokenSegs(segs, n, name)
  PROVE  Route(segs) = None
<1>1. ASSUME NEW u \in DOMAIN Templates, Matches(Templates[u], segs) PROVE FALSE
  <2>1. /\ Len(segs) \in 3..6
        /\ Len(segs) = 5 => u = "secrets"
        /\ Len(segs) = 6 => u = "secret"
    BY <1>1, LengthDecides
  <2>2. ASSUME u \in {"secrets", "secret"}
        PROVE  segs[3] = <<"projects">> /\ segs[5] = <<"secrets">>
    <3> DEFINE t == Templates[u]
    <3>1. /\ 2 \in DOMAIN t /\ 4 \in DOMAIN t /\ t[2] = "projects" /\ t[4] = "secrets"
      <4>1. CASE u = "secrets" BY <4>1 DEF Templates
      <4>2. CASE u = "secret" BY <4>2 DEF Templates
      <4> QED BY <2>2, <4>1, <4>2
    <3>2. "projects" \notin Params /\ "secrets" \notin Params BY DEF Params
    <3> HIDE DEF t
    <3>3. segs[2 + 1] = <<t[2]>> /\ segs[4 + 1] = <<t[4]>>
      <4>1. \A i \in DOMAIN t : IF t[i] \in Params THEN segs[i + 1] # <<>>
                                                   ELSE segs[i + 1] = <<t[i]>>
        BY <1>1 DEF Matches, t
      <4> QED BY <3>1, <3>2, <4>1
    <3>4. 2 + 1 = 3 /\ 4 + 1 = 5 OBVIOUS
    <3> QED BY <3>1, <3>3, <3>4
  <2>3. <<"projects">> # <<"v1">> /\ <<"secrets">> # <<"tokens">>
    <3>1. <<"projects">>[1] # <<"v1">>[1] /\ <<"secrets">>[1] # <<"tokens">>[1]
      OBVIOUS
    <3> QED BY <3>1
  <2>4. CASE SecretsSegs(segs, n, name)
    <3>1. Len(segs) = n + 4 /\ segs[n + 1] = <<"v1">> BY <2>4 DEF SecretsSegs
    <3>2. n = 2 /\ Len(segs) = 6 /\ n + 1 = 3 BY <2>1, <3>1
    <3> QED BY <2>1, <2>2, <2>3, <3>1, <3>2
  <2>5. CASE SecretSegs(segs, n, name, key)
    <3>1. Len(segs) = n + 5 BY <2>5 DEF SecretSegs
    <3> QED BY <2>1, <3>1
  <2>6. CASE TokenSegs(segs, n, name)
    <3>1. Len(segs) = n + 3 /\ segs[n + 1] = <<"v1">> /\ segs[n + 2] = <<"tokens">>
      BY <2>6 DEF TokenSegs
    <3>2. \/ n = 2 /\ Len(segs) = 5 /\ n + 1 = 3
          \/ n = 3 /\ Len(segs) = 6 /\ n + 2 = 5
      BY <2>1, <3>1
    <3> QED BY <2>1, <2>2, <2>3, <3>1, <3>2
  <2> QED BY <2>4, <2>5, <2>6
<1>2. {t \in DOMAIN Templates : Matches(Templates[t], segs)} = {} BY <1>1
<1> QED BY <1>2 DEF Route

\* What the handler of the route answers.
Handled(segs) ==
  CASE Route(segs) = "secrets" -> get_secrets(Decode(segs[4]))
    [] Route(segs) = "secret" -> WithKey(Decode(segs[4]), Decode(segs[6]))
    [] Route(segs) = "token" -> revoke_token(Decode(segs[4]))

\* A request whose URL is whole is answered by the route of its segments.
LEMMA ServeWhole ==
  ASSUME NEW method, NEW url, Whole(url), Route(Split(url)) \in DOMAIN Methods,
         method \in Methods[Route(Split(url))]
  PROVE  Serve(method, url) =
           [status |-> Handled(Split(url)).status, route |-> Route(Split(url)),
            project |-> Handled(Split(url)).project, key |-> Handled(Split(url)).key,
            logged |-> Logged(Split(url))]
<1>1. PathOf(url) = url /\ ~BadUri(url) BY WholeIsPath DEF Whole, Uncut, Free
<1>2. Route(Split(url)) # None
  <2>1. DOMAIN Methods = {"projects", "secrets", "secret", "tokens", "token"}
    BY DEF Methods
  <2> QED BY <2>1, RoutesAssumption
<1> DEFINE segs == Split(PathOf(url))
           route == Route(segs)
           arg(i) == Decode(segs[i])
           answer == IF BadUri(url) THEN Answer(0)
                     ELSE IF route = None THEN Answer(404)
                     ELSE IF method \notin Methods[route] THEN Answer(405)
                     ELSE CASE route = "secrets" -> get_secrets(arg(4))
                            [] route = "secret" -> WithKey(arg(4), arg(6))
                            [] route = "token" -> revoke_token(arg(4))
<1>3. Serve(method, url) =
        [status |-> answer.status, route |-> route, project |-> answer.project,
         key |-> answer.key, logged |-> IF BadUri(url) THEN None ELSE Logged(segs)]
  BY DEF Serve
<1>4. segs = Split(url) BY <1>1
<1>5. answer = CASE route = "secrets" -> get_secrets(arg(4))
                 [] route = "secret" -> WithKey(arg(4), arg(6))
                 [] route = "token" -> revoke_token(arg(4))
  BY <1>1, <1>2, <1>4
<1> HIDE DEF segs
<1>6. answer = Handled(segs) BY <1>5 DEF Handled
<1> HIDE DEF answer
<1> QED BY <1>1, <1>3, <1>4, <1>6

\* What ValidNamesArrive says of a request to a base URL with a path.
Nowhere(r) == r.route = None /\ r.logged = None /\ r.status \in {0, 404}

\* A request whose URL the router does not know reaches no handler and has no name.
LEMMA ServeNowhere ==
  ASSUME NEW method, NEW url, Uncut(url), Route(Split(url)) = None
  PROVE  Nowhere(Serve(method, url))
<1>1. PathOf(url) = url BY WholeIsPath
<1>2. Logged(Split(url)) = None BY RoutesAssumption DEF Logged
<1> DEFINE segs == Split(PathOf(url))
           route == Route(segs)
           arg(i) == Decode(segs[i])
           answer == IF BadUri(url) THEN Answer(0)
                     ELSE IF route = None THEN Answer(404)
                     ELSE IF method \notin Methods[route] THEN Answer(405)
                     ELSE CASE route = "secrets" -> get_secrets(arg(4))
                            [] route = "secret" -> WithKey(arg(4), arg(6))
                            [] route = "token" -> revoke_token(arg(4))
<1>3. /\ Serve(method, url).status = answer.status
      /\ Serve(method, url).route = route
      /\ Serve(method, url).logged = IF BadUri(url) THEN None ELSE Logged(segs)
  BY DEF Serve
<1>4. route = None BY <1>1
<1>5. answer \in {Answer(0), Answer(404)} BY <1>4
<1>6. segs = Split(url) BY <1>1
<1> HIDE DEF segs, answer, route
<1>7. answer.status \in {0, 404} BY <1>5 DEF Answer
<1> QED BY <1>2, <1>3, <1>4, <1>6, <1>7 DEF Nowhere

\* A name that fits is recorded whole.
LEMMA TruncateFits ==
  ASSUME NEW name \in Seq(Pieces), Len(name) <= MaxProject
  PROVE  Truncated(name) = name
<1>1. Len(name) \in Nat /\ MaxProject \in Nat BY RoutesAssumption
<1>2. (IF Len(name) < MaxProject THEN Len(name) ELSE MaxProject) = Len(name)
  BY <1>1
<1>3. SubSeq(name, 0 + 1, 0 + Len(name)) = name
  <2>1. \A i \in 1..Len(name) : name[0 + i] = name[i] OBVIOUS
  <2>2. 0 + Len(name) <= Len(name) OBVIOUS
  <2> QED BY <2>1, <2>2, PartIs
<1>4. 0 + 1 = 1 /\ 0 + Len(name) = Len(name) BY <1>1
<1> QED BY <1>2, <1>3, <1>4 DEF Truncated

\* What is before the query or the fragment is a path too.
LEMMA PathIsPath ==
  ASSUME NEW url \in Seq(Pieces)
  PROVE  PathOf(url) \in Seq(Pieces)
<1> DEFINE cuts == {i \in DOMAIN url : url[i] \in {"?", "#"}}
           least == CHOOSE i \in cuts : \A j \in cuts : i <= j
<1>1. DOMAIN url = 1..Len(url) /\ Len(url) \in Nat OBVIOUS
<1>2. cuts \subseteq 1..Len(url) BY <1>1
<1>3. cuts \in SUBSET Nat /\ IsFiniteSet(cuts)
  <2>1. IsFiniteSet(1..Len(url)) BY <1>1, FS_Interval
  <2> QED BY <1>1, <1>2, <2>1, FS_Subset
<1>4. PathOf(url) = IF cuts = {} THEN url ELSE SubSeq(url, 1, least - 1)
  BY DEF PathOf
<1> HIDE DEF cuts
<1>5. ASSUME cuts # {} PROVE SubSeq(url, 1, least - 1) \in Seq(Pieces)
  <2>1. least \in cuts BY <1>3, <1>5, LeastOf
  <2> HIDE DEF least
  <2>2. \A i \in 1..(least - 1) : i \in 1..Len(url) BY <1>2, <2>1
  <2>3. \A i \in 1..(least - 1) : url[i] \in Pieces BY <2>2, ElementOfSeq
  <2>4. least - 1 \in Int /\ 1 \in Int BY <1>1, <1>2, <2>1
  <2> QED BY <2>3, <2>4, SubSeqProperties
<1> QED BY <1>4, <1>5

\* The segments of a path are sequences of pieces.
LEMMA SegmentsAre ==
  ASSUME NEW path \in Seq(Pieces), NEW k \in 1..Len(Split(path))
  PROVE  Split(path)[k] \in Seq(Pieces)
<1> DEFINE n == Cardinality(SlashesIn(path))
           a == Cut(path, k - 1) + 1
           b == Cut(path, k) - 1
<1>1. n \in Nat BY SlashesFinite
<1>2. Split(path) = [j \in 1..(n + 1) |->
                       SubSeq(path, Cut(path, j - 1) + 1, Cut(path, j) - 1)]
  BY DEF Split
<1>3. Len(Split(path)) = n + 1 BY <1>1, <1>2
<1>4. k \in 1..(n + 1) BY <1>3
<1>5. Split(path)[k] = SubSeq(path, a, b) BY <1>2, <1>4
<1>6. \A j \in 1..n : Cut(path, j) \in 1..Len(path) BY EveryPathProper DEF Proper
<1>7. Cut(path, 0) = 0 /\ Cut(path, n + 1) = Len(path) + 1 BY <1>1 DEF Cut
<1> HIDE DEF n
<1>8. a \in Nat \ {0} /\ b \in 0..Len(path)
  <2>1. Len(path) \in Nat OBVIOUS
  <2>2. k - 1 = 0 \/ k - 1 \in 1..n BY <1>1, <1>4
  <2>3. k = n + 1 \/ k \in 1..n BY <1>1, <1>4
  <2>4. Cut(path, k - 1) \in 0..Len(path) BY <1>6, <1>7, <2>1, <2>2
  <2>5. Cut(path, k) \in 1..(Len(path) + 1) BY <1>6, <1>7, <2>1, <2>3
  <2> QED BY <2>1, <2>4, <2>5
<1> HIDE DEF a, b
<1>9. \A i \in a..b : i \in 1..Len(path) BY <1>8
<1>10. \A i \in a..b : path[i] \in Pieces BY <1>9, ElementOfSeq
<1>11. a \in Int /\ b \in Int BY <1>8
<1> QED BY <1>5, <1>10, <1>11, SubSeqProperties

\* A segment whose decoded form fits is recorded as it was sent, and is its decoded
\* form unless it has an escape.
LEMMA TruncatedTells ==
  ASSUME NEW seg \in Seq(Pieces), Len(Decode(seg)) <= MaxProject
  PROVE  \/ Truncated(seg) = Decode(seg)
         \/ \E i \in DOMAIN Truncated(seg) : Truncated(seg)[i] \in {"%61", "%2F"}
<1>1. DOMAIN seg = 1..Len(seg) /\ Len(seg) \in Nat OBVIOUS
<1>2. Len(Decode(seg)) = Len(seg) BY <1>1 DEF Decode
<1>3. Truncated(seg) = seg BY <1>2, TruncateFits
<1>4. ASSUME \A i \in DOMAIN seg : seg[i] \notin {"%61", "%2F"}
      PROVE  Decode(seg) = seg
  <2>1. \A i \in DOMAIN seg : (CASE seg[i] = "%61" -> "a" [] seg[i] = "%2F" -> "/"
                                 [] OTHER -> seg[i]) = seg[i]
    BY <1>4
  <2>2. seg = [i \in DOMAIN seg |-> seg[i]] OBVIOUS
  <2> QED BY <2>1, <2>2 DEF Decode
<1> QED BY <1>3, <1>4

\* Whatever a request asked for, its record tells of the project that it got to.
LEMMA ServeTells ==
  ASSUME NEW method \in {"GET", "PUT", "DELETE"}, NEW url \in Seq(Pieces)
  PROVE  RecordTells(Serve(method, url))
<1> DEFINE r == Serve(method, url)
           segs == Split(PathOf(url))
           route == Route(segs)
           arg(i) == Decode(segs[i])
           answer == IF BadUri(url) THEN Answer(0)
                     ELSE IF route = None THEN Answer(404)
                     ELSE IF method \notin Methods[route] THEN Answer(405)
                     ELSE CASE route = "secrets" -> get_secrets(arg(4))
                            [] route = "secret" -> WithKey(arg(4), arg(6))
                            [] route = "token" -> revoke_token(arg(4))
<1>1. /\ r.project = answer.project
      /\ r.logged = IF BadUri(url) THEN None ELSE Logged(segs)
  BY DEF Serve
<1>2. Logged(segs) = IF route \in {"secrets", "secret"} THEN Truncated(segs[4]) ELSE None
  BY DEF Logged
<1>3. PathOf(url) \in Seq(Pieces) BY PathIsPath
<1>4. route = None \/ (route \in DOMAIN Templates /\ Matches(Templates[route], segs))
  <2> DEFINE found == {t \in DOMAIN Templates : Matches(Templates[t], segs)}
  <2>1. route = IF found = {} THEN None ELSE CHOOSE t \in found : TRUE BY DEF Route
  <2>2. \A t \in found : t \in DOMAIN Templates /\ Matches(Templates[t], segs) OBVIOUS
  <2> HIDE DEF found, route
  <2>3. found # {} => (CHOOSE t \in found : TRUE) \in found OBVIOUS
  <2> QED BY <2>1, <2>2, <2>3
<1>5. DOMAIN Templates = {"projects", "secrets", "secret", "tokens", "token"}
  BY DEF Templates
<1>6. /\ method \notin Methods["projects"] /\ method \notin Methods["tokens"]
  BY DEF Methods
<1>7. route \in {"secrets", "secret"} => segs[4] \in Seq(Pieces)
  <2>1. route \in {"secrets", "secret"} => Len(segs) \in {5, 6}
    <3>1. /\ Len(Templates["secrets"]) = 4 /\ Len(Templates["secret"]) = 5
      BY DEF Templates
    <3>2. route \in {"secrets", "secret"} => Len(segs) = Len(Templates[route]) + 1
      BY <1>4, RoutesAssumption DEF Matches
    <3> DEFINE len == Len(segs)
    <3>3. route \in {"secrets", "secret"} => len \in {4 + 1, 5 + 1} BY <3>1, <3>2
    <3> HIDE DEF len, route
    <3>4. 4 + 1 = 5 /\ 5 + 1 = 6 OBVIOUS
    <3> QED BY <3>3, <3>4 DEF len
  <2>2. \A k \in 1..Len(segs) : segs[k] \in Seq(Pieces) BY <1>3, SegmentsAre
  <2> HIDE DEF segs, route
  <2>3. \A n \in {5, 6} : 4 \in 1..n OBVIOUS
  <2> QED BY <2>1, <2>2, <2>3
<1> HIDE DEF r, answer
<1>8. ASSUME r.project # None
      PROVE  /\ ~BadUri(url) /\ route \in {"secrets", "secret"}
             /\ r.project = arg(4) /\ Len(arg(4)) <= MaxProject
  <2>1. answer.project # None BY <1>1, <1>8
  <2> HIDE DEF segs, route, arg
  <2>2. \/ answer \in {Answer(0), Answer(404), Answer(405)}
        \/ /\ ~BadUri(url)
           /\ \/ route = "secrets" /\ answer = get_secrets(arg(4))
              \/ route = "secret" /\ answer = WithKey(arg(4), arg(6))
              \/ route = "token" /\ answer = revoke_token(arg(4))
    BY <1>4, <1>5, <1>6 DEF answer
  <2>3. \A c : Answer(c).project = None BY DEF Answer
  <2>4. \A x : revoke_token(x).project = None BY DEF revoke_token, Answer
  <2>5. \A x : get_secrets(x).project # None =>
                 get_secrets(x).project = x /\ valid_project(x)
    BY DEF get_secrets, Answer
  <2>6. \A x, y : WithKey(x, y).project # None =>
                    WithKey(x, y).project = x /\ valid_project(x)
    BY DEF WithKey, Answer
  <2>7. /\ ~BadUri(url) /\ route \in {"secrets", "secret"}
        /\ answer.project = arg(4) /\ valid_project(arg(4))
    BY <2>1, <2>2, <2>3, <2>4, <2>5, <2>6
  <2> QED BY <1>1, <2>7 DEF valid_project
<1> HIDE DEF route
<1>9. ASSUME r.project # None
      PROVE  r.logged = r.project \/ \E i \in DOMAIN r.logged : r.logged[i] \in {"%61", "%2F"}
  <2>1. r.logged = Truncated(segs[4]) BY <1>1, <1>2, <1>8, <1>9
  <2>2. segs[4] \in Seq(Pieces) /\ r.project = Decode(segs[4])
        /\ Len(Decode(segs[4])) <= MaxProject
    BY <1>7, <1>8, <1>9
  <2> HIDE DEF segs
  <2> QED BY <2>1, <2>2, TruncatedTells
<1> QED BY <1>9 DEF RecordTells, r

\* The URLs of all names are sequences of pieces.
LEMMA UrlsAre ==
  ASSUME NEW base, Based(base), NEW name \in Seq(Pieces)
  PROVE  /\ SecretsUrl(base, name) \in Seq(Pieces)
         /\ TokenUrl(base, name) \in Seq(Pieces)
         /\ \A key \in Seq(Pieces) : SecretUrl(base, name, key) \in Seq(Pieces)
<1>1. Start(base) \in Seq(Pieces) BY StartIsPath DEF Proper
<1>2. /\ <<"v1">> \in Seq(Pieces) /\ <<"projects">> \in Seq(Pieces)
      /\ <<"secrets">> \in Seq(Pieces) /\ <<"tokens">> \in Seq(Pieces)
  BY WordIsClean DEF Clean
<1>3. \A u \in Seq(Pieces), s \in Seq(Pieces) : u // s \in Seq(Pieces) BY LongerUrl
<1>4. Start(base) // <<"v1">> \in Seq(Pieces) BY <1>1, <1>2, <1>3
<1>5. /\ (Start(base) // <<"v1">>) // <<"projects">> \in Seq(Pieces)
      /\ (Start(base) // <<"v1">>) // <<"tokens">> \in Seq(Pieces)
  BY <1>2, <1>3, <1>4
<1>6. ((Start(base) // <<"v1">>) // <<"projects">>) // name \in Seq(Pieces)
  BY <1>3, <1>5
<1>7. SecretsUrl(base, name) \in Seq(Pieces) BY <1>2, <1>3, <1>6 DEF SecretsUrl
<1>8. TokenUrl(base, name) \in Seq(Pieces) BY <1>3, <1>5 DEF TokenUrl
<1> QED BY <1>3, <1>7, <1>8 DEF SecretUrl

\* Without a path in the base URL, the URLs are the segments of the routes.
LEMMA RootUrls ==
  ASSUME NEW base, Based(base), base.path = <<>>, NEW name, Clean(name)
  PROVE  /\ Whole(SecretsUrl(base, name)) /\ Whole(TokenUrl(base, name))
         /\ SecretsSegs(Split(SecretsUrl(base, name)), 1, name)
         /\ Split(SecretsUrl(base, name))[1] = <<>>
         /\ TokenSegs(Split(TokenUrl(base, name)), 1, name)
         /\ Split(TokenUrl(base, name))[1] = <<>>
         /\ \A key : Clean(key) =>
              /\ Whole(SecretUrl(base, name, key))
              /\ SecretSegs(Split(SecretUrl(base, name, key)), 1, name, key)
              /\ Split(SecretUrl(base, name, key))[1] = <<>>
<1>1. Depth(base) = 1 /\ Split(base.path)[1] = <<>> BY StartIsPath
<1>2. Free(base.path, {"?", "#", " "}) BY DEF Free
<1>3. ASSUME NEW key, Clean(key)
      PROVE  /\ Whole(SecretsUrl(base, name)) /\ Whole(TokenUrl(base, name))
             /\ Whole(SecretUrl(base, name, key))
  <2>1. Awkward({"?", "#", " "}) BY DEF Awkward
  <2> QED BY <1>2, <1>3, <2>1, UrlFree DEF Whole
<1> QED BY <1>1, <1>3, UrlSegments

\* With a path in the base URL, no request reaches a handler.
LEMMA PathArrivesNowhere ==
  ASSUME NEW base, Based(base), base.path # <<>>, NEW name, Clean(name), NEW method
  PROVE  /\ Nowhere(Serve(method, SecretsUrl(base, name)))
         /\ Nowhere(Serve(method, TokenUrl(base, name)))
         /\ \A key : Clean(key) => Nowhere(Serve(method, SecretUrl(base, name, key)))
<1> DEFINE n == Depth(base)
<1>1. n \in Nat /\ n >= 2 /\ Uncut(base.path) BY StartIsPath
<1> HIDE DEF n
<1>2. ASSUME NEW url, NEW key, Uncut(url),
             \/ SecretsSegs(Split(url), n, name)
             \/ SecretSegs(Split(url), n, name, key)
             \/ TokenSegs(Split(url), n, name)
      PROVE  Nowhere(Serve(method, url))
  <2>1. Route(Split(url)) = None BY <1>1, <1>2, NoRouteOf
  <2> QED BY <1>2, <2>1, ServeNowhere
<1>3. ASSUME NEW key, Clean(key)
      PROVE  /\ Nowhere(Serve(method, SecretsUrl(base, name)))
             /\ Nowhere(Serve(method, TokenUrl(base, name)))
             /\ Nowhere(Serve(method, SecretUrl(base, name, key)))
  <2>1. /\ Uncut(SecretsUrl(base, name)) /\ Uncut(TokenUrl(base, name))
        /\ Uncut(SecretUrl(base, name, key))
    <3>1. Awkward({"?", "#"}) BY DEF Awkward
    <3> QED BY <1>1, <1>3, <3>1, UrlFree DEF Uncut
  <2>2. /\ SecretsSegs(Split(SecretsUrl(base, name)), n, name)
        /\ SecretSegs(Split(SecretUrl(base, name, key)), n, name, key)
        /\ TokenSegs(Split(TokenUrl(base, name)), n, name)
    BY <1>3, UrlSegments DEF n
  <2> QED BY <1>2, <2>1, <2>2
<1> QED BY <1>3

\* get_secrets gets the project that was asked for.
LEMMA GetArrives ==
  ASSUME NEW base, Based(base), base.path = <<>>, NEW name \in Names, valid_project(name),
         NEW r, r = Serve("GET", SecretsUrl(base, name))
  PROVE  /\ r.route = "secrets" /\ r.logged = name /\ r.status \in {200, 404}
         /\ r.status = 200 => r.project = name /\ r.key = None
         /\ name \in projects => r.project = name
<1> DEFINE url == SecretsUrl(base, name)
           segs == Split(url)
<1>1. name \in Seq(Pieces) BY RoutesAssumption
<1>2. Clean(name) BY <1>1, ValidIsClean
<1>3. Whole(url) /\ SecretsSegs(segs, 1, name) /\ segs[1] = <<>>
  BY <1>2, RootUrls
<1>4. name # <<>> BY DEF valid_project
<1>5. Route(segs) = "secrets" BY <1>3, <1>4, RouteOf
<1>6. segs[4] = name /\ Decode(name) = name
  <2>1. 1 + 3 = 4 OBVIOUS
  <2> QED BY <1>2, <1>3, <2>1, DecodeClean DEF SecretsSegs
<1>7. Truncated(name) = name BY <1>1, TruncateFits DEF valid_project
<1>8. Logged(segs) = name BY <1>5, <1>6, <1>7 DEF Logged
<1>9. "secrets" \in DOMAIN Methods /\ "GET" \in Methods["secrets"] BY DEF Methods
<1> HIDE DEF url
<1>11. Handled(segs) = get_secrets(name) BY <1>5, <1>6 DEF Handled
<1>10. r = [status |-> get_secrets(name).status, route |-> "secrets",
            project |-> get_secrets(name).project, key |-> get_secrets(name).key,
            logged |-> name]
  BY <1>3, <1>5, <1>6, <1>8, <1>9, <1>11, ServeWhole DEF url
<1> QED BY <1>10 DEF get_secrets, Answer

\* put_secret and delete_secret get the project and the key that were asked for.
LEMMA SecretArrives ==
  ASSUME NEW base, Based(base), base.path = <<>>, NEW name \in Names, valid_project(name),
         NEW key \in Names, valid_key(key), NEW method \in {"PUT", "DELETE"},
         NEW r, r = Serve(method, SecretUrl(base, name, key))
  PROVE  /\ r.route = "secret" /\ r.logged = name /\ r.status \in {200, 404}
         /\ r.status = 200 => r.project = name /\ r.key = key
<1> DEFINE url == SecretUrl(base, name, key)
           segs == Split(url)
<1>1. name \in Seq(Pieces) /\ key \in Seq(Pieces) BY RoutesAssumption
<1>2. Clean(name) /\ Clean(key) BY <1>1, ValidIsClean
<1>3. Whole(url) /\ SecretSegs(segs, 1, name, key) /\ segs[1] = <<>>
  BY <1>2, RootUrls
<1>4. name # <<>> /\ key # <<>> BY DEF valid_project, valid_key
<1>5. Route(segs) = "secret" BY <1>3, <1>4, RouteOf
<1>6. segs[4] = name /\ Decode(name) = name /\ segs[6] = key /\ Decode(key) = key
  <2>1. 1 + 3 = 4 /\ 1 + 5 = 6 OBVIOUS
  <2> QED BY <1>2, <1>3, <2>1, DecodeClean DEF SecretSegs
<1>7. Truncated(name) = name BY <1>1, TruncateFits DEF valid_project
<1>8. Logged(segs) = name BY <1>5, <1>6, <1>7 DEF Logged
<1>9. "secret" \in DOMAIN Methods /\ method \in Methods["secret"] BY DEF Methods
<1> HIDE DEF url
<1>11. Handled(segs) = WithKey(name, key) BY <1>5, <1>6 DEF Handled
<1>10. r = [status |-> WithKey(name, key).status, route |-> "secret",
            project |-> WithKey(name, key).project, key |-> WithKey(name, key).key,
            logged |-> name]
  BY <1>3, <1>5, <1>6, <1>8, <1>9, <1>11, ServeWhole DEF url
<1> QED BY <1>10 DEF WithKey, Answer

\* revoke_token gets the token's name that was asked for.
LEMMA RevokeArrives ==
  ASSUME NEW base, Based(base), base.path = <<>>, NEW name \in Names, valid_project(name),
         NEW r, r = Serve("DELETE", TokenUrl(base, name))
  PROVE  /\ r.route = "token" /\ r.logged = None /\ r.status = 200
         /\ r.project = None /\ r.key = name
<1> DEFINE url == TokenUrl(base, name)
           segs == Split(url)
<1>1. name \in Seq(Pieces) BY RoutesAssumption
<1>2. Clean(name) BY <1>1, ValidIsClean
<1>3. Whole(url) /\ TokenSegs(segs, 1, name) /\ segs[1] = <<>>
  BY <1>2, RootUrls
<1>4. name # <<>> BY DEF valid_project
<1>5. Route(segs) = "token" BY <1>3, <1>4, RouteOf
<1>6. segs[4] = name /\ Decode(name) = name
  <2>1. 1 + 3 = 4 OBVIOUS
  <2> QED BY <1>2, <1>3, <2>1, DecodeClean DEF TokenSegs
<1>8. Logged(segs) = None BY <1>5 DEF Logged
<1>9. "token" \in DOMAIN Methods /\ "DELETE" \in Methods["token"] BY DEF Methods
<1> HIDE DEF url
<1>11. Handled(segs) = revoke_token(name) BY <1>5, <1>6 DEF Handled
<1>10. r = [status |-> revoke_token(name).status, route |-> "token",
            project |-> revoke_token(name).project, key |-> revoke_token(name).key,
            logged |-> None]
  BY <1>3, <1>5, <1>6, <1>8, <1>9, <1>11, ServeWhole DEF url
<1> QED BY <1>10 DEF revoke_token

-----------------------------------------------------------------------------
(***************************************************************************)
(* The invariant                                                           *)
(***************************************************************************)

\* What validate_server_url leaves: https, or this host.
Safe(url) == url.scheme = "https" \/ is_loopback_host(url)

\* The names that the server accepts.
ValidNames == {name \in Names : valid_project(name)}

\* A client that is running has a URL that was validated and trimmed; every name
\* was accepted by create_project or create_token, every stored pair by put_secret.
Inv == /\ Loaded => Safe(config) /\ Based(config)
       /\ projects \subseteq ValidNames /\ tokens \subseteq ValidNames
       /\ \A pk \in stored : valid_key(pk[2])
       /\ TokenStaysSafe
       /\ ValidNamesArrive

\* Whichever source wins, load fails or returns a URL that passed validation, with
\* no slash after its path.
LEMMA LoadIsSafe ==
  ASSUME NEW envUrl \in Urls \cup {None, Empty},
         NEW fileUrl \in Urls \cup {None, Broken}, NEW envToken, NEW fileToken,
         load(envUrl, fileUrl, envToken, fileToken) # Failed
  PROVE  /\ Safe(load(envUrl, fileUrl, envToken, fileToken))
         /\ Based(load(envUrl, fileUrl, envToken, fileToken))
<1> DEFINE url == Or(envUrl, fileUrl)
           Paths == Seq(Pieces \ {"?", "#"})
<1>1. /\ load(envUrl, fileUrl, envToken, fileToken) = trim_end(url)
      /\ fileUrl # Broken /\ url # None /\ validate_server_url(url)
  BY DEF load
<1>2. url \in Urls BY <1>1 DEF Or
<1>3. /\ url \in [scheme : {"https", "http", "other"},
                  host : {"loopback", "localhost", "remote"},
                  extra : {"none", "userinfo", "query", "fragment"},
                  path : Paths, slashes : Nat]
      /\ url.path # <<>> => url.path[1] = "/"
  BY <1>2, RoutesAssumption
<1> HIDE DEF Paths
<1>4. /\ trim_end(url).scheme = url.scheme /\ trim_end(url).host = url.host
      /\ trim_end(url).path = url.path /\ trim_end(url).slashes = 0
  BY <1>3 DEF trim_end
<1>5. url.path \in Paths BY <1>3
<1>6. Based(trim_end(url)) BY <1>3, <1>4, <1>5, Zenon DEF Based, Paths
<1> QED BY <1>1, <1>4, <1>6 DEF Safe, validate_server_url, is_loopback_host

\* A request records what was asked, and the URL that it was sent to.
LEMMA AskedIs ==
  ASSUME NEW op, NEW project, NEW key, NEW r, NEW a, a = Asked(op, project, key, r)
  PROVE  /\ a.url = config /\ a.op = op /\ a.asked = project /\ a.askedKey = key
         /\ a.status = r.status /\ a.route = r.route /\ a.project = r.project
         /\ a.key = r.key /\ a.logged = r.logged
BY DEF Asked, Base

\* Only the route of one secret answers a PUT, and with 200 only for a valid key.
LEMMA PutIsValid ==
  ASSUME NEW url, Serve("PUT", url).status = 200
  PROVE  valid_key(Serve("PUT", url).key)
<1> DEFINE segs == Split(PathOf(url))
           route == Route(segs)
           arg(i) == Decode(segs[i])
           answer == IF BadUri(url) THEN Answer(0)
                     ELSE IF route = None THEN Answer(404)
                     ELSE IF "PUT" \notin Methods[route] THEN Answer(405)
                     ELSE CASE route = "secrets" -> get_secrets(arg(4))
                            [] route = "secret" -> WithKey(arg(4), arg(6))
                            [] route = "token" -> revoke_token(arg(4))
<1>1. /\ Serve("PUT", url).status = answer.status
      /\ Serve("PUT", url).key = answer.key
  BY DEF Serve
<1>2. route = None \/ route \in {"projects", "secrets", "secret", "tokens", "token"}
  <2>1. DOMAIN Templates = {"projects", "secrets", "secret", "tokens", "token"}
    BY DEF Templates
  <2> DEFINE found == {t \in DOMAIN Templates : Matches(Templates[t], segs)}
  <2>2. route = IF found = {} THEN None ELSE CHOOSE t \in found : TRUE BY DEF Route
  <2>3. found \subseteq DOMAIN Templates OBVIOUS
  <2> HIDE DEF found, route
  <2>4. found # {} => (CHOOSE t \in found : TRUE) \in found OBVIOUS
  <2> QED BY <2>1, <2>2, <2>3, <2>4
<1>3. route \in {"projects", "secrets", "tokens", "token"} =>
        "PUT" \notin Methods[route]
  BY DEF Methods
<1> HIDE DEF segs, route, arg
<1>4. \/ answer \in {Answer(0), Answer(404), Answer(405)}
      \/ answer = WithKey(arg(4), arg(6))
  BY <1>2, <1>3
<1> HIDE DEF answer
<1>5. answer.status = 200 => valid_key(answer.key)
  BY <1>4 DEF Answer, WithKey
<1> QED BY <1>1, <1>5

-----------------------------------------------------------------------------
\* Nothing is configured and nothing is stored at first.
LEMMA InitInv == Init => Inv
BY DEF Init, Inv, Loaded, TokenStaysSafe, ValidNamesArrive

\* A command that was loaded sends its request to a safe URL, so that a step which
\* keeps the names and the keys valid preserves the invariant.
LEMMA RequestInv ==
  ASSUME Inv, Loaded, last'.url = config, config' = None,
         projects' \subseteq ValidNames, tokens' \subseteq ValidNames,
         \A pk \in stored' : valid_key(pk[2]), ValidNamesArrive'
  PROVE  Inv'
<1>1. Safe(config) BY DEF Inv
<1>2. TokenStaysSafe' BY <1>1 DEF TokenStaysSafe, Safe, is_loopback_host
<1>3. ~Loaded' BY DEF Loaded
<1>4. ValidNames' = ValidNames BY DEF ValidNames, valid_project, Letters
<1>5. (\A pk \in stored : valid_key(pk[2]))' BY DEF valid_key, Letters
<1> QED BY <1>2, <1>3, <1>4, <1>5 DEF Inv

\* Every command and every failure preserves the invariant.
LEMMA NextInv == Inv /\ [Next]_vars => Inv'
<1> SUFFICES ASSUME Inv, [Next]_vars PROVE Inv'
  OBVIOUS
<1>0. /\ \A name \in Names : name # None /\ name \in Seq(Pieces)
      /\ ValidNames' = ValidNames
  BY RoutesAssumption DEF ValidNames, valid_project, Letters
<1>1. CASE Load
  <2>1. PICK envUrl \in Urls \cup {None, Empty},
             fileUrl \in Urls \cup {None, Broken},
             envToken \in {None, Empty, "variable"}, fileToken \in {None, "file"} :
               config' = load(envUrl, fileUrl, envToken, fileToken)
    BY <1>1 DEF Load
  <2>2. config' # Failed => Safe(config') /\ Based(config')
    BY <2>1, LoadIsSafe
  <2>3. last' = None /\ UNCHANGED <<projects, stored, tokens>> BY <1>1 DEF Load
  <2>4. TokenStaysSafe' /\ ValidNamesArrive'
    BY <2>3 DEF TokenStaysSafe, ValidNamesArrive
  <2>5. (Loaded => Safe(config) /\ Based(config))'
    BY <2>2 DEF Loaded, Safe, Based, is_loopback_host, Pieces
  <2>6. (\A pk \in stored : valid_key(pk[2]))'
    BY <2>3 DEF Inv, valid_key, Letters
  <2> QED BY <1>0, <2>3, <2>4, <2>5, <2>6 DEF Inv
<1>2. CASE Fail \/ UNCHANGED vars
  <2>1. UNCHANGED <<projects, stored, tokens, last>> /\ config' \in {config, None}
    BY <1>2 DEF Fail, vars
  <2>2. TokenStaysSafe' /\ ValidNamesArrive'
    BY <2>1 DEF Inv, TokenStaysSafe, is_loopback_host, ValidNamesArrive, Named, RecordTells,
                valid_project, valid_key, Letters
  <2>3. (Loaded => Safe(config) /\ Based(config))'
    BY <2>1 DEF Inv, Loaded, Safe, Based, is_loopback_host, Pieces
  <2>4. (\A pk \in stored : valid_key(pk[2]))'
    BY <2>1 DEF Inv, valid_key, Letters
  <2> QED BY <1>0, <2>1, <2>2, <2>3, <2>4 DEF Inv
<1>3. ASSUME NEW name \in Names, fetch_secrets(name) PROVE Inv'
  <2> DEFINE r == Serve("GET", SecretsUrl(Base, name))
  <2>1. Loaded /\ Based(config) BY <1>3 DEF fetch_secrets, Inv
  <2>2. config.path = <<>> /\ valid_project(name) =>
          /\ r.route = "secrets" /\ r.logged = name /\ r.status \in {200, 404}
          /\ r.status = 200 => r.project = name /\ r.key = None
    BY <2>1, GetArrives DEF Base
  <2>9. config.path # <<>> /\ valid_project(name) => Nowhere(r)
    BY <2>1, <1>0, ValidIsClean, PathArrivesNowhere DEF Base
  <2>3. /\ last' = Asked("secrets", name, None, r) /\ config' = None
        /\ UNCHANGED <<projects, stored, tokens>>
    BY <1>3 DEF fetch_secrets
  <2>11. RecordTells(r)
    <3>1. SecretsUrl(Base, name) \in Seq(Pieces) BY <1>0, <2>1, UrlsAre DEF Base
    <3> QED BY <3>1, ServeTells
  <2> HIDE DEF r
  <2>4. /\ last'.url = config /\ last'.op = "secrets" /\ last'.asked = name
        /\ last'.askedKey = None /\ last'.status = r.status /\ last'.route = r.route
        /\ last'.project = r.project /\ last'.key = r.key /\ last'.logged = r.logged
    BY <2>3, AskedIs
  <2>5. Named(last)' => valid_project(name)
    BY <1>0, <2>4 DEF Named, valid_project, Letters
  <2>12. RecordTells(last)' BY <2>4, <2>11 DEF RecordTells
  <2>6. ValidNamesArrive' BY <2>2, <2>4, <2>5, <2>9, <2>12 DEF ValidNamesArrive, Nowhere
  <2> QED BY <2>1, <2>3, <2>4, <2>6, RequestInv DEF Inv
<1>4. ASSUME NEW name \in Names, create_project(name) \/ create_token(name)
      PROVE  Inv'
  <2>1. /\ last' = None /\ config' = None /\ UNCHANGED stored
        /\ projects' \subseteq projects \cup (IF valid_project(name) THEN {name} ELSE {})
        /\ tokens' \subseteq tokens \cup (IF valid_project(name) THEN {name} ELSE {})
    BY <1>4 DEF create_project, create_token
  <2>2. projects' \subseteq ValidNames /\ tokens' \subseteq ValidNames
    BY <2>1 DEF Inv, ValidNames
  <2>3. TokenStaysSafe' /\ ValidNamesArrive' /\ ~Loaded'
    BY <2>1 DEF TokenStaysSafe, ValidNamesArrive, Loaded
  <2>4. (\A pk \in stored : valid_key(pk[2]))'
    BY <2>1 DEF Inv, valid_key, Letters
  <2> QED BY <1>0, <2>2, <2>3, <2>4 DEF Inv
<1>5. ASSUME NEW name \in Names, token_revoke(name) PROVE Inv'
  <2> DEFINE r == Serve("DELETE", TokenUrl(Base, name))
  <2>1. Loaded /\ Based(config) BY <1>5 DEF token_revoke, Inv
  <2>2. config.path = <<>> /\ valid_project(name) =>
          /\ r.route = "token" /\ r.logged = None /\ r.status = 200
          /\ r.project = None /\ r.key = name
    BY <2>1, RevokeArrives DEF Base
  <2>9. config.path # <<>> /\ valid_project(name) => Nowhere(r)
    BY <2>1, <1>0, ValidIsClean, PathArrivesNowhere DEF Base
  <2>3. /\ last' = Asked("token", None, name, r) /\ config' = None
        /\ tokens' \subseteq tokens /\ UNCHANGED <<projects, stored>>
    BY <1>5 DEF token_revoke
  <2>11. RecordTells(r)
    <3>1. TokenUrl(Base, name) \in Seq(Pieces) BY <1>0, <2>1, UrlsAre DEF Base
    <3> QED BY <3>1, ServeTells
  <2> HIDE DEF r
  <2>4. /\ last'.url = config /\ last'.op = "token" /\ last'.asked = None
        /\ last'.askedKey = name /\ last'.status = r.status /\ last'.route = r.route
        /\ last'.project = r.project /\ last'.key = r.key /\ last'.logged = r.logged
    BY <2>3, AskedIs
  <2>5. Named(last)' => valid_project(name)
    BY <1>0, <2>4 DEF Named, valid_project, Letters
  <2>12. RecordTells(last)' BY <2>4, <2>11 DEF RecordTells
  <2>6. ValidNamesArrive' BY <2>2, <2>4, <2>5, <2>9, <2>12 DEF ValidNamesArrive, Nowhere
  <2> QED BY <2>1, <2>3, <2>4, <2>6, RequestInv DEF Inv
<1>6. ASSUME NEW name \in Names, NEW key \in Names, set_secret(name, key)
      PROVE  Inv'
  <2> DEFINE r == Serve("PUT", SecretUrl(Base, name, key))
  <2>1. Loaded /\ Based(config) BY <1>6 DEF set_secret, Inv
  <2>2. config.path = <<>> /\ valid_project(name) /\ valid_key(key) =>
          /\ r.route = "secret" /\ r.logged = name /\ r.status \in {200, 404}
          /\ r.status = 200 => r.project = name /\ r.key = key
    BY <2>1, SecretArrives DEF Base
  <2>10. valid_project(name) /\ valid_key(key) => Clean(name) /\ Clean(key)
    BY <1>0, ValidIsClean
  <2>9. config.path # <<>> /\ valid_project(name) /\ valid_key(key) =>
          Nowhere(r)
    BY <2>1, <2>10, PathArrivesNowhere DEF Base
  <2>3. r.status = 200 => valid_key(r.key) BY PutIsValid
  <2>4. /\ last' = Asked("secret", name, key, r) /\ config' = None
        /\ stored' = IF r.status = 200 THEN stored \cup {<<r.project, r.key>>}
                     ELSE stored
        /\ UNCHANGED <<projects, tokens>>
    BY <1>6 DEF set_secret
  <2>11. RecordTells(r)
    <3>1. SecretUrl(Base, name, key) \in Seq(Pieces) BY <1>0, <2>1, UrlsAre DEF Base
    <3> QED BY <3>1, ServeTells
  <2> HIDE DEF r
  <2>5. \A pk \in stored' : valid_key(pk[2])
    BY <2>3, <2>4 DEF Inv
  <2>6. /\ last'.url = config /\ last'.op = "secret" /\ last'.asked = name
        /\ last'.askedKey = key /\ last'.status = r.status /\ last'.route = r.route
        /\ last'.project = r.project /\ last'.key = r.key /\ last'.logged = r.logged
    BY <2>4, AskedIs
  <2>7. Named(last)' => valid_project(name) /\ valid_key(key)
    BY <1>0, <2>6 DEF Named, valid_project, valid_key, Letters
  <2>12. RecordTells(last)' BY <2>6, <2>11 DEF RecordTells
  <2>8. ValidNamesArrive' BY <2>2, <2>6, <2>7, <2>9, <2>12 DEF ValidNamesArrive, Nowhere
  <2> QED BY <2>1, <2>4, <2>5, <2>6, <2>8, RequestInv DEF Inv
<1>7. ASSUME NEW name \in Names, NEW key \in Names, delete_secret(name, key)
      PROVE  Inv'
  <2> DEFINE r == Serve("DELETE", SecretUrl(Base, name, key))
             missing == r.status = 200 /\ <<r.project, r.key>> \notin stored
             s == [r EXCEPT !.status = IF missing THEN 404 ELSE @]
  <2>1. Loaded /\ Based(config) BY <1>7 DEF delete_secret, Inv
  <2>2. config.path = <<>> /\ valid_project(name) /\ valid_key(key) =>
          /\ r.route = "secret" /\ r.logged = name /\ r.status \in {200, 404}
          /\ r.status = 200 => r.project = name /\ r.key = key
    BY <2>1, SecretArrives DEF Base
  <2>10. valid_project(name) /\ valid_key(key) => Clean(name) /\ Clean(key)
    BY <1>0, ValidIsClean
  <2>9. config.path # <<>> /\ valid_project(name) /\ valid_key(key) =>
          Nowhere(r)
    BY <2>1, <2>10, PathArrivesNowhere DEF Base
  <2>3. /\ last' = Asked("secret", name, key, s) /\ config' = None
        /\ stored' \subseteq stored /\ UNCHANGED <<projects, tokens>>
    BY <1>7 DEF delete_secret
  <2>4. /\ s.status \in {r.status, 404} /\ s.route = r.route /\ s.project = r.project
        /\ s.key = r.key /\ s.logged = r.logged
    BY DEF Serve
  <2>11. RecordTells(r)
    <3>1. SecretUrl(Base, name, key) \in Seq(Pieces) BY <1>0, <2>1, UrlsAre DEF Base
    <3> QED BY <3>1, ServeTells
  <2> HIDE DEF r, s
  <2>5. \A pk \in stored' : valid_key(pk[2]) BY <2>3 DEF Inv
  <2>6. /\ last'.url = config /\ last'.op = "secret" /\ last'.asked = name
        /\ last'.askedKey = key /\ last'.status = s.status /\ last'.route = s.route
        /\ last'.project = s.project /\ last'.key = s.key /\ last'.logged = s.logged
    BY <2>3, AskedIs
  <2>7. Named(last)' => valid_project(name) /\ valid_key(key)
    BY <1>0, <2>6 DEF Named, valid_project, valid_key, Letters
  <2>12. RecordTells(last)' BY <2>4, <2>6, <2>11 DEF RecordTells
  <2>8. ValidNamesArrive' BY <2>2, <2>4, <2>6, <2>7, <2>9, <2>12 DEF ValidNamesArrive, Nowhere
  <2> QED BY <2>1, <2>3, <2>5, <2>6, <2>8, RequestInv DEF Inv
<1> QED BY <1>1, <1>2, <1>3, <1>4, <1>5, <1>6, <1>7 DEF Next

-----------------------------------------------------------------------------
\* The invariant holds in every reachable state.
THEOREM Invariance == Spec => []Inv
  BY InitInv, NextInv, PTL DEF Spec

\* No request, and no token with it, goes to another host without TLS, whichever of
\* the variable and the file named the server (config.rs, load).
THEOREM TokenNotSentInClear == Spec => []TokenStaysSafe
<1>1. Inv => TokenStaysSafe BY DEF Inv
<1> QED BY <1>1, Invariance, PTL

\* To a base URL without a path, a valid project, key or token reaches its own
\* handler as it was typed, however many slashes the URL ended in and whatever words
\* the name is made of, and is recorded as it was typed: the slash of format!, the
\* cut at a query, the split of the router, the decoding and the truncation together
\* are the identity on it.  To a base URL with a path, of any length and whatever it
\* is made of, it reaches no handler.  Any other name is recorded as the project that
\* it got to, or with an escape (config.rs, api.rs, app.rs, audit.rs).
THEOREM NamesArriveIntact == Spec => []ValidNamesArrive
<1>1. Inv => ValidNamesArrive BY DEF Inv
<1> QED BY <1>1, Invariance, PTL

\* Every project and every token that a JSON body created is reached by its URL
\* (handlers.rs, create_project and create_token; app.rs, router).
THEOREM NamesStayUsable == Spec => []NamesUsable
<1>1. Inv => NamesUsable
  <2> SUFFICES ASSUME Inv PROVE NamesUsable
    OBVIOUS
  <2>1. Based(Plain) /\ Plain.path = <<>> BY DEF Plain, Based
  <2>2. \A p \in projects : Serve("GET", SecretsUrl(Plain, p)).project = p
    BY <2>1, GetArrives DEF Inv, ValidNames
  <2>3. \A t \in tokens : Serve("DELETE", TokenUrl(Plain, t)).key = t
    BY <2>1, RevokeArrives DEF Inv, ValidNames
  <2> QED BY <2>2, <2>3 DEF NamesUsable
<1> QED BY <1>1, Invariance, PTL

\* Whatever a URL was cut and decoded to, a key that put_secret stored passes the
\* rule by which the client judges the whole project (api.rs).
THEOREM EveryProjectReadable == Spec => []ProjectsReadable
<1>1. Inv => ProjectsReadable
  <2> SUFFICES ASSUME Inv, NEW p \in projects
               PROVE  secret_map_from_plain(KeysOf(p)) = KeysOf(p)
    BY DEF ProjectsReadable
  <2>1. \A k \in KeysOf(p) : valid_key(k) BY DEF Inv, KeysOf
  <2>2. \A k : valid_key(k) => valid_secret_key(k) BY DEF valid_key, valid_secret_key
  <2> QED BY <2>1, <2>2 DEF secret_map_from_plain
<1> QED BY <1>1, Invariance, PTL

-----------------------------------------------------------------------------
(***************************************************************************)
(* Byte strings that can be taken apart again (module Encoding)            *)
(***************************************************************************)
Byte == 0..255

\* Parts of the same length at the start of equal strings are equal, and so is
\* what follows them.
LEMMA SameStart ==
  ASSUME NEW s \in Seq(Byte), NEW t \in Seq(Byte), NEW u \in Seq(Byte),
         NEW v \in Seq(Byte), Len(s) = Len(t), s \o u = t \o v
  PROVE  s = t /\ u = v
<1>1. /\ Len(s \o u) = Len(s) + Len(u)
      /\ \A i \in 1..(Len(s) + Len(u)) :
           (s \o u)[i] = IF i <= Len(s) THEN s[i] ELSE u[i - Len(s)]
  BY ConcatProperties
<1>2. /\ Len(t \o v) = Len(t) + Len(v)
      /\ \A i \in 1..(Len(t) + Len(v)) :
           (t \o v)[i] = IF i <= Len(t) THEN t[i] ELSE v[i - Len(t)]
  BY ConcatProperties
<1> DEFINE n == Len(s)
<1>3. n \in Nat /\ Len(t) = n /\ Len(u) \in Nat /\ Len(v) \in Nat BY LenProperties
<1>4. Len(u) = Len(v) BY <1>1, <1>2, <1>3
<1> DEFINE w == s \o u
           m == Len(u)
<1>5. /\ \A i \in 1..(n + m) : w[i] = IF i <= n THEN s[i] ELSE u[i - n]
      /\ \A i \in 1..(n + m) : w[i] = IF i <= n THEN t[i] ELSE v[i - n]
  BY <1>1, <1>2, <1>3, <1>4
<1>6. m \in Nat BY <1>3
<1> HIDE DEF n, w, m
<1>7. \A i \in 1..n : s[i] = t[i]
  <2> SUFFICES ASSUME NEW i \in 1..n PROVE s[i] = t[i] OBVIOUS
  <2>1. i \in 1..(n + m) /\ i <= n BY <1>3, <1>6
  <2> QED BY <1>5, <2>1
<1>8. \A i \in 1..m : u[i] = v[i]
  <2> SUFFICES ASSUME NEW i \in 1..m PROVE u[i] = v[i] OBVIOUS
  <2>1. n + i \in 1..(n + m) /\ ~(n + i <= n) /\ (n + i) - n = i BY <1>3, <1>6
  <2> QED BY <1>5, <2>1
<1>9. s = t BY <1>7, SeqEqual DEF n
<1>10. u = v BY <1>4, <1>8, SeqEqual DEF m
<1> QED BY <1>9, <1>10

\* The order in which strings are put together does not matter.
LEMMA Regroup ==
  \A s, t, u \in Seq(Byte) : (s \o t) \o u = s \o (t \o u)
BY ConcatAssociative

\* Concatenation as an operator that the provers need not look into.
Cat(s, t) == s \o t

\* Its type, and its groups.
LEMMA CatGroups ==
  /\ \A s, t \in Seq(Byte) : Cat(s, t) \in Seq(Byte)
  /\ \A s, t, u \in Seq(Byte) : Cat(Cat(s, t), u) = Cat(s, Cat(t, u))
<1>1. \A s, t \in Seq(Byte) : Cat(s, t) \in Seq(Byte) BY ConcatProperties DEF Cat
<1>2. \A s, t, u \in Seq(Byte) : Cat(Cat(s, t), u) = Cat(s, Cat(t, u))
  BY Regroup DEF Cat
<1> QED BY <1>1, <1>2

\* Four strings.
LEMMA RegroupFour ==
  ASSUME NEW x \in Seq(Byte), NEW h \in Seq(Byte), NEW a \in Seq(Byte),
         NEW c \in Seq(Byte)
  PROVE  Cat(Cat(Cat(x, h), a), c) = Cat(x, Cat(h, Cat(a, c)))
<1>1. Cat(x, h) \in Seq(Byte) /\ Cat(a, c) \in Seq(Byte) BY CatGroups
<1>2. Cat(Cat(Cat(x, h), a), c) = Cat(Cat(x, h), Cat(a, c)) BY <1>1, CatGroups
<1>3. Cat(Cat(x, h), Cat(a, c)) = Cat(x, Cat(h, Cat(a, c))) BY <1>1, CatGroups
<1> QED BY <1>2, <1>3

\* Five strings.
LEMMA RegroupFive ==
  ASSUME NEW x \in Seq(Byte), NEW h \in Seq(Byte), NEW a \in Seq(Byte),
         NEW c \in Seq(Byte), NEW d \in Seq(Byte)
  PROVE  Cat(Cat(Cat(Cat(x, h), a), c), d) = Cat(x, Cat(h, Cat(a, Cat(c, d))))
<1>1. /\ Cat(x, h) \in Seq(Byte) /\ Cat(Cat(x, h), a) \in Seq(Byte)
      /\ Cat(c, d) \in Seq(Byte) /\ Cat(a, Cat(c, d)) \in Seq(Byte)
  BY CatGroups
<1>2. Cat(Cat(Cat(Cat(x, h), a), c), d) = Cat(Cat(Cat(x, h), a), Cat(c, d))
  BY <1>1, CatGroups
<1>3. Cat(Cat(Cat(x, h), a), Cat(c, d)) = Cat(Cat(x, h), Cat(a, Cat(c, d)))
  BY <1>1, CatGroups
<1>4. Cat(Cat(x, h), Cat(a, Cat(c, d))) = Cat(x, Cat(h, Cat(a, Cat(c, d))))
  BY <1>1, CatGroups
<1> QED BY <1>2, <1>3, <1>4

\* A number is its low byte and the rest.
LEMMA ShrRest ==
  ASSUME NEW v \in Nat
  PROVE  /\ Shr(v) \in Nat /\ v % 256 \in Byte
         /\ \A w \in Nat : v % 256 = w % 256 /\ Shr(v) = Shr(w) => v = w
BY DEF Shr, Byte

\* Four bytes, and what is above them, determine a number.
LEMMA U32Unique ==
  ASSUME NEW v \in Nat
  PROVE  /\ u32_le(v) \in Seq(Byte) /\ Len(u32_le(v)) = 4 /\ High(v) \in Nat
         /\ \A w \in Nat : u32_le(v) = u32_le(w) /\ High(v) = High(w) => v = w
<1>1. \A x \in Nat : Shr(x) \in Nat /\ x % 256 \in Byte BY ShrRest
<1>2. \A x, y \in Nat : x % 256 = y % 256 /\ Shr(x) = Shr(y) => x = y BY ShrRest
<1>3. /\ Shr(v) \in Nat /\ Shr(Shr(v)) \in Nat /\ Shr(Shr(Shr(v))) \in Nat
      /\ High(v) \in Nat
  BY <1>1 DEF High
<1>4. u32_le(v) \in Seq(Byte) /\ Len(u32_le(v)) = 4 BY <1>1, <1>3 DEF u32_le
<1>5. ASSUME NEW w \in Nat, u32_le(v) = u32_le(w), High(v) = High(w) PROVE v = w
  <2>1. /\ v % 256 = w % 256 /\ Shr(v) % 256 = Shr(w) % 256
        /\ Shr(Shr(v)) % 256 = Shr(Shr(w)) % 256
        /\ Shr(Shr(Shr(v))) % 256 = Shr(Shr(Shr(w))) % 256
    BY <1>5 DEF u32_le
  <2>2. Shr(w) \in Nat /\ Shr(Shr(w)) \in Nat /\ Shr(Shr(Shr(w))) \in Nat BY <1>1
  <2>3. Shr(Shr(Shr(v))) = Shr(Shr(Shr(w))) BY <1>2, <1>3, <1>5, <2>1, <2>2 DEF High
  <2>4. Shr(Shr(v)) = Shr(Shr(w)) BY <1>2, <1>3, <2>1, <2>2, <2>3
  <2>5. Shr(v) = Shr(w) BY <1>2, <1>3, <2>1, <2>2, <2>4
  <2> QED BY <1>2, <2>1, <2>5
<1> QED BY <1>3, <1>4, <1>5

\* Eight bytes determine the 64 bits they were made of.
LEMMA U64Unique ==
  ASSUME NEW v \in Nat
  PROVE  /\ u64_le(v) \in Seq(Byte)
         /\ \A w \in Nat : /\ Fits(High(v)) /\ Fits(High(w))
                           /\ u64_le(v) = u64_le(w)
                           => v = w
<1>1. \A x \in Nat : High(x) \in Nat BY U32Unique
<1>2. \A x \in Nat : u32_le(x) \in Seq(Byte) /\ Len(u32_le(x)) = 4 BY U32Unique
<1>3. u64_le(v) \in Seq(Byte) BY <1>1, <1>2, ConcatProperties DEF u64_le
<1>4. ASSUME NEW w \in Nat, Fits(High(v)), Fits(High(w)), u64_le(v) = u64_le(w)
      PROVE  v = w
  <2>1. u32_le(v) = u32_le(w) /\ u32_le(High(v)) = u32_le(High(w))
    <3> DEFINE a == u32_le(v)
               b == u32_le(w)
               c == u32_le(High(v))
               d == u32_le(High(w))
    <3>1. /\ a \in Seq(Byte) /\ b \in Seq(Byte) /\ c \in Seq(Byte) /\ d \in Seq(Byte)
          /\ Len(a) = Len(b)
      BY <1>1, <1>2
    <3>2. a \o c = b \o d BY <1>4 DEF u64_le
    <3> HIDE DEF a, b, c, d
    <3>3. a = b /\ c = d BY <3>1, <3>2, SameStart
    <3> QED BY <3>3 DEF a, b, c, d
  <2>2. High(High(v)) = High(High(w)) BY <1>4 DEF Fits
  <2>3. High(v) = High(w) BY <1>1, <2>1, <2>2, U32Unique
  <2> QED BY <2>1, <2>3, U32Unique
<1> QED BY <1>3, <1>4

\* A string of at most 2^32 - 1 bytes after its length can be told from what
\* follows it.
LEMMA PrefixedUnique ==
  ASSUME NEW s \in Seq(Byte), NEW t \in Seq(Byte), NEW u \in Seq(Byte),
         NEW v \in Seq(Byte), Fits(Len(s)), Fits(Len(t)),
         Prefixed(s) \o u = Prefixed(t) \o v
  PROVE  s = t /\ u = v
<1> DEFINE m == u32_le(Len(s))
           n == u32_le(Len(t))
<1>1. Len(s) \in Nat /\ Len(t) \in Nat BY LenProperties
<1>2. m \in Seq(Byte) /\ n \in Seq(Byte) /\ Len(m) = 4 /\ Len(n) = 4
  BY <1>1, U32Unique
<1>3. Prefixed(s) = m \o s /\ Prefixed(t) = n \o t BY DEF Prefixed
<1>4. m = n => Len(s) = Len(t) BY <1>1, U32Unique DEF Fits
<1> HIDE DEF m, n
<1> DEFINE x == s \o u
           y == t \o v
<1>5. x \in Seq(Byte) /\ y \in Seq(Byte) BY ConcatProperties
<1>6. (m \o s) \o u = m \o x BY <1>2, Regroup, ZenonT(30)
<1>7. (n \o t) \o v = n \o y BY <1>2, Regroup, ZenonT(30)
<1>8. m \o x = n \o y BY <1>3, <1>6, <1>7
<1> HIDE DEF x, y
<1>9. m = n /\ x = y BY <1>2, <1>5, <1>8, SameStart
<1>10. Len(s) = Len(t) BY <1>4, <1>9
<1>11. s \o u = t \o v BY <1>9 DEF x, y
<1> QED BY <1>10, <1>11, SameStart

\* A prefixed string is a string of bytes.
LEMMA PrefixedType ==
  ASSUME NEW s \in Seq(Byte)
  PROVE  Prefixed(s) \in Seq(Byte)
<1>1. Len(s) \in Nat BY LenProperties
<1>2. u32_le(Len(s)) \in Seq(Byte) BY <1>1, U32Unique
<1> QED BY <1>2, ConcatProperties DEF Prefixed

\* The associated data of two pairs is the same only if the pairs are.
LEMMA AadBytesUnique ==
  ASSUME NEW p \in Seq(Byte), NEW k \in Seq(Byte), NEW q \in Seq(Byte),
         NEW l \in Seq(Byte), Fits(Len(p)), Fits(Len(k)), Fits(Len(q)), Fits(Len(l)),
         aad_bytes(p, k) = aad_bytes(q, l)
  PROVE  p = q /\ k = l
<1>1. Prefixed(k) \in Seq(Byte) /\ Prefixed(l) \in Seq(Byte) BY PrefixedType
<1>6. Prefixed(p) \o Prefixed(k) = Prefixed(q) \o Prefixed(l) BY DEF aad_bytes
<1>2. p = q /\ Prefixed(k) = Prefixed(l)
  <2> DEFINE a == Prefixed(k)
             b == Prefixed(l)
  <2>1. a \in Seq(Byte) /\ b \in Seq(Byte) /\ Prefixed(p) \o a = Prefixed(q) \o b
    BY <1>1, <1>6
  <2> HIDE DEF a, b
  <2>2. p = q /\ a = b BY <2>1, PrefixedUnique
  <2> QED BY <2>2 DEF a, b
<1>3. <<>> \in Seq(Byte) OBVIOUS
<1>4. Prefixed(k) \o <<>> = Prefixed(l) \o <<>> BY <1>2
<1>5. k = l BY <1>3, <1>4, PrefixedUnique
<1> QED BY <1>2, <1>5

\* So is that of cache files.
LEMMA CacheAadUnique ==
  ASSUME NEW p \in Seq(Byte), NEW q \in Seq(Byte), NEW k \in Seq(Byte),
         NEW l \in Seq(Byte), Fits(Len(p)), Fits(Len(k)), Fits(Len(q)), Fits(Len(l)),
         NEW g \in Hashes, NEW h \in Hashes, NEW t \in Moments, NEW u \in Moments,
         cache_aad(p, h, k, t) = cache_aad(q, g, l, u)
  PROVE  p = q /\ h = g /\ k = l /\ t = u
<1> DEFINE a == Prefixed(k)
           b == Prefixed(l)
           c == u64_le(t)
           d == u64_le(u)
           x == Prefixed(p)
           y == Prefixed(q)
<1>1. g \in Seq(Byte) /\ h \in Seq(Byte) /\ Len(g) = Len(h)
  BY EncodingAssumption DEF Byte
<1>2. t \in Nat /\ Fits(High(t)) /\ u \in Nat /\ Fits(High(u))
  BY EncodingAssumption
<1>3. c \in Seq(Byte) /\ d \in Seq(Byte) /\ (c = d => t = u) BY <1>2, U64Unique
<1>4. /\ a \in Seq(Byte) /\ b \in Seq(Byte) /\ x \in Seq(Byte) /\ y \in Seq(Byte)
  BY PrefixedType
<1>5. ((x \o h) \o a) \o c = ((y \o g) \o b) \o d BY DEF cache_aad
<1> HIDE DEF a, b, c, d, x, y
<1> DEFINE e == a \o c
           f == b \o d
           i == h \o e
           j == g \o f
<1>6. e \in Seq(Byte) /\ f \in Seq(Byte) BY <1>3, <1>4, ConcatProperties
<1>20. c \in Seq(Byte) /\ d \in Seq(Byte) BY <1>3
<1>7. ((x \o h) \o a) \o c = x \o i
  <2>1. Cat(Cat(Cat(x, h), a), c) = Cat(x, Cat(h, Cat(a, c)))
    BY <1>1, <1>4, <1>20, RegroupFour
  <2> QED BY <2>1, Zenon DEF Cat
<1>8. ((y \o g) \o b) \o d = y \o j
  <2>1. Cat(Cat(Cat(y, g), b), d) = Cat(y, Cat(g, Cat(b, d)))
    BY <1>1, <1>4, <1>20, RegroupFour
  <2> QED BY <2>1, Zenon DEF Cat
<1> HIDE DEF e, f
<1>9. i \in Seq(Byte) /\ j \in Seq(Byte) BY <1>1, <1>6, ConcatProperties
<1> HIDE DEF i, j
<1>12. x \o i = y \o j BY <1>5, <1>7, <1>8
<1>13. p = q /\ i = j BY <1>9, <1>12, PrefixedUnique DEF x, y
<1>14. h \o e = g \o f BY <1>13 DEF i, j
<1>15. h = g /\ e = f BY <1>1, <1>6, <1>14, SameStart
<1>16. Prefixed(k) \o c = Prefixed(l) \o d BY <1>15 DEF e, f, a, b
<1>17. k = l /\ c = d BY <1>3, <1>16, PrefixedUnique
<1> QED BY <1>3, <1>13, <1>15, <1>17

\* A string without a zero byte ends at the first one.
LEMMA ZeroEnds ==
  ASSUME NEW s \in Seq(Byte), NEW t \in Seq(Byte), NEW u \in Seq(Byte),
         NEW v \in Seq(Byte), NoZero(s), NoZero(t),
         s \o (<< 0 >> \o u) = t \o (<< 0 >> \o v)
  PROVE  s = t /\ u = v
<1> DEFINE a == <<0>> \o u
           b == <<0>> \o v
           w == s \o a
<1>1. <<0>> \in Seq(Byte) /\ Len(<<0>>) = 1 BY DEF Byte
<1>2. a \in Seq(Byte) /\ Len(a) = 1 + Len(u) /\ a[1] = 0
  BY <1>1, ConcatProperties
<1>3. b \in Seq(Byte) /\ Len(b) = 1 + Len(v) /\ b[1] = 0
  BY <1>1, ConcatProperties
<1> HIDE DEF a, b
<1>14. w = t \o b BY DEF a, b
<1>4. /\ Len(w) = Len(s) + Len(a)
      /\ \A i \in 1..(Len(s) + Len(a)) : w[i] = IF i <= Len(s) THEN s[i] ELSE a[i - Len(s)]
  <2>1. a \in Seq(Byte) BY <1>2
  <2> QED BY <2>1, ConcatProperties
<1>5. /\ Len(w) = Len(t) + Len(b)
      /\ \A i \in 1..(Len(t) + Len(b)) : w[i] = IF i <= Len(t) THEN t[i] ELSE b[i - Len(t)]
  <2>1. b \in Seq(Byte) BY <1>3
  <2>2. /\ Len(t \o b) = Len(t) + Len(b)
        /\ \A i \in 1..(Len(t) + Len(b)) :
             (t \o b)[i] = IF i <= Len(t) THEN t[i] ELSE b[i - Len(t)]
    BY <2>1, ConcatProperties
  <2> QED BY <1>14, <2>2
<1> HIDE DEF w
<1>6. /\ Len(s) \in Nat /\ Len(t) \in Nat /\ Len(u) \in Nat /\ Len(v) \in Nat
      /\ DOMAIN s = 1..Len(s) /\ DOMAIN t = 1..Len(t)
  BY LenProperties
<1>7. w[Len(s) + 1] = 0
  <2>1. Len(s) + 1 \in 1..(Len(s) + Len(a)) /\ ~(Len(s) + 1 <= Len(s))
        /\ (Len(s) + 1) - Len(s) = 1
    BY <1>2, <1>6
  <2> QED BY <1>2, <1>4, <2>1
<1>8. w[Len(t) + 1] = 0
  <2>1. Len(t) + 1 \in 1..(Len(t) + Len(b)) /\ ~(Len(t) + 1 <= Len(t))
        /\ (Len(t) + 1) - Len(t) = 1
    BY <1>3, <1>6
  <2> QED BY <1>3, <1>5, <2>1
<1>9. ~(Len(s) < Len(t))
  <2> SUFFICES ASSUME Len(s) < Len(t) PROVE FALSE OBVIOUS
  <2>1. Len(s) + 1 \in 1..Len(t) /\ Len(s) + 1 \in 1..(Len(t) + Len(b)) BY <1>3, <1>6
  <2>2. w[Len(s) + 1] = t[Len(s) + 1] BY <1>5, <2>1
  <2>3. t[Len(s) + 1] # 0 BY <1>6, <2>1 DEF NoZero
  <2> QED BY <1>7, <2>2, <2>3
<1>10. ~(Len(t) < Len(s))
  <2> SUFFICES ASSUME Len(t) < Len(s) PROVE FALSE OBVIOUS
  <2>1. Len(t) + 1 \in 1..Len(s) /\ Len(t) + 1 \in 1..(Len(s) + Len(a)) BY <1>2, <1>6
  <2>2. w[Len(t) + 1] = s[Len(t) + 1] BY <1>4, <2>1
  <2>3. s[Len(t) + 1] # 0 BY <1>6, <2>1 DEF NoZero
  <2> QED BY <1>8, <2>2, <2>3
<1>11. Len(s) = Len(t)
  <2>1. Len(s) \in Nat /\ Len(t) \in Nat BY <1>6
  <2> QED BY <1>9, <1>10, <2>1
<1>15. a \in Seq(Byte) /\ b \in Seq(Byte) /\ s \o a = t \o b
  BY <1>2, <1>3, <1>14 DEF w
<1>12. s = t /\ a = b BY <1>11, <1>15, SameStart
<1>16. <<0>> \o u = <<0>> \o v BY <1>12 DEF a, b
<1>13. u = v BY <1>1, <1>16, SameStart
<1> QED BY <1>12, <1>13

\* Two cache files with the same path belong to the same server, token and project.
LEMMA CachePathUnique ==
  ASSUME NEW p \in Seq(Byte), NEW q \in Seq(Byte), NEW k \in Seq(Byte),
         NEW l \in Seq(Byte), NoZero(p), NoZero(q), NEW g \in Hashes, NEW h \in Hashes,
         cache_path(p, h, k) = cache_path(q, g, l)
  PROVE  p = q /\ h = g /\ k = l
<1> DEFINE z == <<0>>
<1>1. g \in Seq(Byte) /\ h \in Seq(Byte) /\ Len(g) = Len(h)
  BY EncodingAssumption DEF Byte
<1>2. z \in Seq(Byte) BY DEF Byte
<1>3. (((p \o z) \o h) \o z) \o k = (((q \o z) \o g) \o z) \o l BY DEF cache_path
<1> DEFINE c == z \o k
           d == z \o l
           e == h \o c
           f == g \o d
<1>4. c \in Seq(Byte) /\ d \in Seq(Byte) BY <1>2, ConcatProperties
<1>5. e \in Seq(Byte) /\ f \in Seq(Byte)
  <2> HIDE DEF c, d
  <2> QED BY <1>1, <1>4, ConcatProperties
<1>6. p \o (z \o e) = q \o (z \o f)
  <2> HIDE DEF z
  <2>3. Cat(Cat(Cat(Cat(p, z), h), z), k) = Cat(p, Cat(z, Cat(h, Cat(z, k))))
    BY <1>1, <1>2, RegroupFive
  <2>4. Cat(Cat(Cat(Cat(q, z), g), z), l) = Cat(q, Cat(z, Cat(g, Cat(z, l))))
    BY <1>1, <1>2, RegroupFive
  <2>1. (((p \o z) \o h) \o z) \o k = p \o (z \o e) BY <2>3, Zenon DEF Cat
  <2>2. (((q \o z) \o g) \o z) \o l = q \o (z \o f) BY <2>4, Zenon DEF Cat
  <2> QED BY <1>3, <2>1, <2>2
<1> HIDE DEF e, f
<1>7. p = q /\ e = f BY <1>5, <1>6, ZeroEnds
<1> HIDE DEF c, d
<1>8. h \o c = g \o d BY <1>7 DEF e, f
<1>9. h = g /\ c = d BY <1>1, <1>4, <1>8, SameStart
<1>10. z \o k = z \o l BY <1>9 DEF c, d
<1>11. k = l
  <2> HIDE DEF z
  <2> QED BY <1>2, <1>10, SameStart
<1> QED BY <1>7, <1>9, <1>11

-----------------------------------------------------------------------------
(***************************************************************************)
(* Values that are exported and read, printed and read                     *)
(***************************************************************************)

\* In quotes, the reader takes what a byte was escaped to for the byte.
LEMMA ReadEscaped ==
  ASSUME NEW value, NEW r, r = [mode |-> "quoted", value |-> value], NEW b \in Byte
  PROVE  ReadOne(r, Escaped(b)) = [mode |-> "quoted", value |-> Append(value, b)]
<1> DEFINE e == [mode |-> "escape", value |-> value]
           q(x) == [mode |-> "quoted", value |-> Append(value, x)]
<1>1. r.mode = "quoted" /\ r.value = value OBVIOUS
<1>2. e.mode = "escape" /\ e.value = value OBVIOUS
<1> HIDE DEF e
<1>3. ReadByte(r, Backslash) = e
  BY <1>1 DEF ReadByte, Mode, LF, Quote, Backslash, e
<1>4. /\ ReadByte(e, 110) = q(LF) /\ ReadByte(e, 114) = q(CR)
      /\ ReadByte(e, Quote) = q(Quote) /\ ReadByte(e, Backslash) = q(Backslash)
  BY <1>2 DEF ReadByte, Put, LF, CR, Quote, Backslash
<1>5. ASSUME NEW c, Escaped(b) = <<Backslash, c>>, ReadByte(e, c) = q(b)
      PROVE  ReadOne(r, Escaped(b)) = q(b)
  <2> DEFINE s == <<Backslash, c>>
  <2>1. Len(s) = 2 /\ s[1] = Backslash /\ s[2] = c OBVIOUS
  <2> HIDE DEF s
  <2>2. ReadOne(r, s) = ReadByte(ReadByte(r, s[1]), s[2]) BY <2>1 DEF ReadOne
  <2> QED BY <1>3, <1>5, <2>1, <2>2 DEF s
<1>6. CASE b = Backslash
  <2>1. Escaped(b) = <<Backslash, Backslash>> BY <1>6 DEF Escaped, Quote, Backslash, LF, CR
  <2> QED BY <1>4, <1>5, <1>6, <2>1
<1>7. CASE b = Quote
  <2>1. Escaped(b) = <<Backslash, Quote>> BY <1>7 DEF Escaped, Quote, Backslash, LF, CR
  <2> QED BY <1>4, <1>5, <1>7, <2>1
<1>8. CASE b = LF
  <2>1. Escaped(b) = <<Backslash, 110>>
    BY <1>8 DEF Escaped, Quote, Backslash, LF, CR
  <2> QED BY <1>4, <1>5, <1>8, <2>1
<1>9. CASE b = CR
  <2>1. Escaped(b) = <<Backslash, 114>>
    BY <1>9 DEF Escaped, Quote, Backslash, LF, CR
  <2> QED BY <1>4, <1>5, <1>9, <2>1
<1>10. CASE b \notin {Backslash, Quote, LF, CR}
  <2> DEFINE s == <<b>>
  <2>1. Escaped(b) = s BY <1>10 DEF Escaped
  <2>2. Len(s) = 1 /\ s[1] = b OBVIOUS
  <2> HIDE DEF s
  <2>3. ReadOne(r, s) = ReadByte(r, b) BY <2>2 DEF ReadOne
  <2>4. b # Quote /\ b # Backslash BY <1>10
  <2>5. ReadByte(r, b) = q(b) BY <1>1, <2>4 DEF ReadByte, Put
  <2> QED BY <2>1, <2>3, <2>5
<1> QED BY <1>6, <1>7, <1>8, <1>9, <1>10

\* Without quotes, it takes the bytes that need none as they are.
LEMMA ReadBare ==
  ASSUME NEW value, NEW m \in {"start", "bare"}, NEW r,
         r = [mode |-> m, value |-> value], NEW b \in Byte, Bare(b)
  PROVE  ReadOne(r, <<b>>) = [mode |-> "bare", value |-> Append(value, b)]
<1> DEFINE s == <<b>>
<1>1. Len(s) = 1 /\ s[1] = b OBVIOUS
<1>2. r.mode = m /\ r.value = value OBVIOUS
<1>3. b # Quote /\ b # LF BY DEF Bare, Quote, LF
<1> HIDE DEF s
<1>4. ReadOne(r, s) = ReadByte(r, b) BY <1>1 DEF ReadOne
<1>5. ReadByte(r, b) = [mode |-> "bare", value |-> Append(value, b)]
  BY <1>2, <1>3 DEF ReadByte, Put
<1> QED BY <1>4, <1>5 DEF s

\* The quotes and the end of the line.
LEMMA ReadFrame ==
  ASSUME NEW value
  PROVE  /\ ReadByte(Reading, Quote) = [mode |-> "quoted", value |-> <<>>]
         /\ ReadByte([mode |-> "quoted", value |-> value], Quote) =
              [mode |-> "closed", value |-> value]
         /\ ReadByte([mode |-> "closed", value |-> value], LF) =
              [mode |-> "done", value |-> value]
         /\ ReadByte([mode |-> "bare", value |-> value], LF) =
              [mode |-> "done", value |-> value]
<1>1. ReadByte(Reading, Quote) = [mode |-> "quoted", value |-> <<>>]
  BY DEF Reading, ReadByte, Mode, Quote, LF
<1>2. ReadByte([mode |-> "quoted", value |-> value], Quote) =
        [mode |-> "closed", value |-> value]
  BY DEF ReadByte, Mode, Quote, LF, Backslash
<1>3. ReadByte([mode |-> "closed", value |-> value], LF) =
        [mode |-> "done", value |-> value]
  BY DEF ReadByte, Mode, Quote, LF
<1>4. ReadByte([mode |-> "bare", value |-> value], LF) =
        [mode |-> "done", value |-> value]
  BY DEF ReadByte, Mode, Quote, LF
<1> QED BY <1>1, <1>2, <1>3, <1>4

\* A value with a newline after it, and without the newline.
LEMMA FrontOfPrinted ==
  ASSUME NEW s \in Seq(Byte), NEW b \in Byte
  PROVE  /\ s \o <<b>> # <<>> /\ Last(s \o <<b>>) = b /\ Front(s \o <<b>>) = s
<1> DEFINE w == s \o <<b>>
<1>1. Len(s) \in Nat BY LenProperties
<1>2. w = Append(s, b) BY AppendIsConcat
<1>3. /\ w \in Seq(Byte) /\ Len(w) = Len(s) + 1
      /\ \A i \in 1..Len(s) : w[i] = s[i]
      /\ w[Len(s) + 1] = b
  BY <1>2, AppendProperties
<1> HIDE DEF w
<1>4. Last(w) = b BY <1>3 DEF Last
<1>5. w # <<>> BY <1>1, <1>3
<1> DEFINE f == SubSeq(w, 1, Len(s))
<1>6. Front(w) = f BY <1>1, <1>3 DEF Front
<1>7. \A i \in 1..Len(s) : w[i] \in Byte BY <1>1, <1>3, ElementOfSeq
<1>8. /\ f \in Seq(Byte) /\ Len(f) = Len(s)
      /\ \A i \in 1..Len(s) : f[i] = w[i]
  <2> DEFINE m == 1
             n == Len(s)
  <2>1. m \in Int /\ n \in Int /\ \A i \in m..n : w[i] \in Byte BY <1>1, <1>7
  <2>2. n - m + 1 = n /\ (IF m <= n THEN n - m + 1 ELSE 0) = n BY <1>1
  <2>3. \A i \in 1..n : m + i - 1 = i BY <1>1
  <2> HIDE DEF m, n
  <2>4. /\ SubSeq(w, m, n) \in Seq(Byte)
        /\ Len(SubSeq(w, m, n)) = IF m <= n THEN n - m + 1 ELSE 0
        /\ \A i \in 1..(n - m + 1) : SubSeq(w, m, n)[i] = w[m + i - 1]
    BY <1>3, <2>1, SubSeqProperties
  <2> QED BY <2>2, <2>3, <2>4 DEF m, n
<1> HIDE DEF f
<1>9. f = s BY <1>3, <1>8, SeqEqual
<1> QED BY <1>4, <1>5, <1>6, <1>9 DEF w

\* What get prints is what set reads, but for a CR at its end.
LEMMA PipeKeeps ==
  ASSUME NEW s \in Seq(Byte), ~EndsIn(s, CR)
  PROVE  read_secret_value(printed(s)) = s
<1> DEFINE w == s \o <<LF>>
<1>1. LF \in Byte BY DEF LF, Byte
<1>2. w # <<>> /\ Last(w) = LF /\ Front(w) = s BY <1>1, FrontOfPrinted
<1> HIDE DEF w
<1>3. EndsIn(w, LF) /\ ~EndsIn(Front(w), CR) BY <1>2 DEF EndsIn
<1>4. strip_newline(w) = s BY <1>2, <1>3 DEF strip_newline
<1> QED BY <1>4 DEF read_secret_value, printed, w

-----------------------------------------------------------------------------
(***************************************************************************)
(* The invariant of Encoding                                               *)
(***************************************************************************)

\* The names that have grown.
NamesInv ==
  /\ first \in Seq(NameBytes) /\ Len(first) <= MaxName
  /\ second \in Seq(NameBytes) /\ Len(second) <= MaxName

\* The characters end where no continuation byte follows, and some of these ends
\* is the last within the limit.
TextInv ==
  /\ first \in Seq(Byte)
  /\ ends \subseteq 0..Len(first) /\ Len(first) \in ends
  /\ \A i \in 0..Len(first) : Boundary(first, i) <=> i \in ends
  /\ \E e \in ends : e <= LogLimit /\ \A f \in ends : f <= LogLimit => f <= e

\* The reader has exactly what was exported so far, and waits for more of it.
ExportInv ==
  /\ kind = "value" => pos = 0 /\ reader = Reading
  /\ kind = "export" =>
       /\ pos \in 0..Len(first)
       /\ reader = [mode |-> IF ~safe(first) THEN "quoted"
                             ELSE IF pos = 0 THEN "start" ELSE "bare",
                    value |-> SubSeq(first, 1, pos)]
  /\ kind = "exported" => reader = [mode |-> "done", value |-> first]

EInv == /\ kind \in {"names", "value", "export", "exported"}
        /\ kind = "names" => NamesInv
        /\ kind # "names" => TextInv /\ ExportInv

\* Names are the strings of bounded length.
LEMMA NamesAre ==
  ASSUME NEW s \in NameStrings
  PROVE  s \in Seq(Byte) /\ Len(s) \in Nat /\ Len(s) <= MaxName
<1>1. PICK n \in 0..MaxName : s \in [1..n -> NameBytes]
  BY DEF NameStrings, BoundedSeq, SeqOf
<1>2. n \in Nat /\ n <= MaxName BY EncodingAssumption
<1>3. NameBytes \subseteq Byte BY EncodingAssumption DEF Byte
<1>4. s \in Seq(Byte) /\ Len(s) = n BY <1>1, <1>2, <1>3
<1> QED BY <1>2, <1>4

\* A shorter string than the longest has a length of 32 bits.
LEMMA ShortFits ==
  ASSUME NEW n \in Nat, n <= MaxName
  PROVE  Fits(n)
<1>1. MaxName \in Nat /\ Fits(MaxName) BY EncodingAssumption
<1>2. \A x, y \in Nat : x <= y => Shr(x) \in Nat /\ Shr(y) \in Nat /\ Shr(x) <= Shr(y)
  BY DEF Shr
<1>3. High(n) \in Nat /\ High(n) <= High(MaxName)
  <2>1. Shr(n) \in Nat /\ Shr(MaxName) \in Nat /\ Shr(n) <= Shr(MaxName) BY <1>1, <1>2
  <2>2. /\ Shr(Shr(n)) \in Nat /\ Shr(Shr(MaxName)) \in Nat
        /\ Shr(Shr(n)) <= Shr(Shr(MaxName))
    BY <1>2, <2>1
  <2>3. /\ Shr(Shr(Shr(n))) \in Nat /\ Shr(Shr(Shr(MaxName))) \in Nat
        /\ Shr(Shr(Shr(n))) <= Shr(Shr(Shr(MaxName)))
    BY <1>2, <2>2
  <2> QED BY <1>2, <2>3 DEF High
<1> QED BY <1>1, <1>3 DEF Fits

\* Everything is empty at first.
LEMMA EInitInv == EInit => EInv
<1> SUFFICES ASSUME EInit PROVE EInv OBVIOUS
<1>1. /\ kind \in {"names", "value"} /\ first = <<>> /\ second = <<>>
      /\ ends = {0} /\ pos = 0 /\ reader = Reading
  BY DEF EInit
<1>2. NamesInv BY <1>1, EncodingAssumption DEF NamesInv
<1>3. TextInv
  <2>1. Len(first) = 0 /\ first \in Seq(Byte) BY <1>1
  <2>2. \A i \in 0..Len(first) : Boundary(first, i) <=> i \in ends
    BY <1>1, <2>1 DEF Boundary
  <2>3. LogLimit \in Nat BY EncodingAssumption
  <2>4. \E e \in ends : e <= LogLimit /\ \A f \in ends : f <= LogLimit => f <= e
    BY <1>1, <2>3
  <2>5. ends \subseteq 0..Len(first) /\ Len(first) \in ends BY <1>1, <2>1
  <2> QED BY <2>1, <2>2, <2>4, <2>5 DEF TextInv
<1>4. ExportInv BY <1>1 DEF ExportInv
<1> QED BY <1>1, <1>2, <1>3, <1>4 DEF EInv

\* One more byte of a name.
LEMMA GrowNameInv ==
  ASSUME EInv, GrowName PROVE EInv'
<1>1. kind = "names" /\ kind' = "names" /\ NamesInv BY DEF EInv, GrowName
<1>2. PICK b \in NameBytes :
        \/ Len(first) < MaxName /\ first' = Append(first, b) /\ UNCHANGED second
        \/ Len(second) < MaxName /\ second' = Append(second, b) /\ UNCHANGED first
  BY DEF GrowName
<1>3. MaxName \in Nat BY EncodingAssumption
<1>4. ASSUME NEW s \in Seq(NameBytes), Len(s) < MaxName
      PROVE  Append(s, b) \in Seq(NameBytes) /\ Len(Append(s, b)) <= MaxName
  <2>1. Append(s, b) \in Seq(NameBytes) /\ Len(Append(s, b)) = Len(s) + 1 BY AppendProperties
  <2>2. Len(s) \in Nat BY LenProperties
  <2> QED BY <1>3, <1>4, <2>1, <2>2
<1>5. NamesInv' BY <1>1, <1>2, <1>4 DEF NamesInv
<1> QED BY <1>1, <1>5 DEF EInv

\* One more character of a value.
LEMMA GrowValueInv ==
  ASSUME EInv, GrowValue PROVE EInv'
<1>1. kind = "value" /\ kind' = "value" /\ TextInv /\ ExportInv BY DEF EInv, GrowValue
<1>2. PICK c \in ValueChars : first' = first \o c BY DEF GrowValue
<1>3. ends' = ends \cup {Len(first')} /\ UNCHANGED <<pos, reader>> BY DEF GrowValue
<1>4. /\ c \in Seq(Byte) /\ c # <<>>
      /\ \A i \in DOMAIN c : c[i] \in 128..191 <=> i > 1
  BY EncodingAssumption DEF Byte
<1> DEFINE m == Len(first)
           k == Len(c)
<1>5. first \in Seq(Byte) BY <1>1 DEF TextInv
<1>6. m \in Nat /\ k \in Nat /\ k > 0 /\ DOMAIN c = 1..k
  BY <1>4, <1>5, LenProperties, EmptySeq
<1>7. /\ first' \in Seq(Byte) /\ Len(first') = m + k
      /\ \A i \in 1..(m + k) : first'[i] = IF i <= m THEN first[i] ELSE c[i - m]
  BY <1>2, <1>4, <1>5, ConcatProperties
<1>8. /\ ends \subseteq 0..m /\ m \in ends
      /\ \A i \in 0..m : Boundary(first, i) <=> i \in ends
  BY <1>1 DEF TextInv
<1>9. \A i \in 0..(m - 1) : Boundary(first, i) <=> first[i + 1] \notin 128..191
  BY <1>6 DEF Boundary
<1>10. \A i \in 0..(m + k) :
         Boundary(first', i) <=> i = m + k \/ first'[i + 1] \notin 128..191
  BY <1>7 DEF Boundary
<1> HIDE DEF m, k
<1>11. ASSUME NEW i \in 0..(m + k) PROVE Boundary(first', i) <=> i \in ends'
  <2>1. CASE i < m
    <3>1. i + 1 \in 1..(m + k) /\ i + 1 <= m /\ i \in 0..(m - 1) /\ i # m + k /\ i \in 0..m
      BY <1>6, <2>1
    <3>2. first'[i + 1] = first[i + 1] BY <1>7, <3>1
    <3>3. Boundary(first', i) <=> Boundary(first, i) BY <1>9, <1>10, <3>1, <3>2
    <3>4. Boundary(first, i) <=> i \in ends BY <1>8, <3>1
    <3>5. i \in ends' <=> i \in ends BY <1>3, <1>7, <3>1
    <3> QED BY <3>3, <3>4, <3>5
  <2>2. CASE i = m
    <3>1. i + 1 \in 1..(m + k) /\ ~(i + 1 <= m) /\ (i + 1) - m = 1 /\ 1 \in 1..k /\ ~(1 > 1)
      BY <1>6, <2>2
    <3>2. first'[i + 1] = c[1] BY <1>7, <3>1
    <3>3. c[1] \notin 128..191 BY <1>4, <1>6, <3>1
    <3>4. Boundary(first', i) BY <1>10, <3>2, <3>3
    <3> QED BY <1>3, <1>8, <2>2, <3>4
  <2>3. CASE i > m /\ i < m + k
    <3>1. i + 1 \in 1..(m + k) /\ ~(i + 1 <= m) /\ (i + 1) - m \in 1..k /\ (i + 1) - m > 1
          /\ i # m + k
      BY <1>6, <2>3
    <3>2. first'[i + 1] = c[(i + 1) - m] BY <1>7, <3>1
    <3>3. c[(i + 1) - m] \in 128..191 BY <1>4, <1>6, <3>1
    <3>4. ~Boundary(first', i) BY <1>10, <3>1, <3>2, <3>3
    <3>5. i \notin 0..m BY <1>6, <2>3
    <3>6. i \notin ends' BY <1>3, <1>7, <1>8, <3>1, <3>5
    <3> QED BY <3>4, <3>6
  <2>4. CASE i = m + k
    <3>1. Boundary(first', i) BY <1>10, <2>4
    <3>2. i \in ends' BY <1>3, <1>7, <2>4
    <3> QED BY <3>1, <3>2
  <2>5. i < m \/ i = m \/ (i > m /\ i < m + k) \/ i = m + k BY <1>6
  <2> QED BY <2>1, <2>2, <2>3, <2>4, <2>5
<1>12. ends' \subseteq 0..(m + k) /\ m + k \in ends'
  <2>1. 0..m \subseteq 0..(m + k) /\ m + k \in 0..(m + k) BY <1>6
  <2> QED BY <1>3, <1>7, <1>8, <2>1
<1>13. \E e \in ends' : e <= LogLimit /\ \A f \in ends' : f <= LogLimit => f <= e
  <2>1. LogLimit \in Nat BY EncodingAssumption
  <2>2. CASE m + k <= LogLimit
    <3>1. \A f \in ends' : f <= m + k BY <1>6, <1>12
    <3> QED BY <1>12, <2>2, <3>1
  <2>3. CASE ~(m + k <= LogLimit)
    <3>1. PICK e \in ends : e <= LogLimit /\ \A f \in ends : f <= LogLimit => f <= e
      BY <1>1 DEF TextInv
    <3>2. \A f \in ends' : f \in ends \/ f = m + k BY <1>3, <1>7
    <3>3. e \in ends' BY <1>3
    <3> QED BY <2>3, <3>1, <3>2, <3>3
  <2> QED BY <2>2, <2>3
<1>14. TextInv'
  <2>1. \A i \in 0..Len(first') : Boundary(first', i) <=> i \in ends' BY <1>7, <1>11
  <2> QED BY <1>7, <1>12, <1>13, <2>1 DEF TextInv
<1>15. ExportInv' BY <1>1, <1>3 DEF ExportInv
<1> QED BY <1>1, <1>14, <1>15 DEF EInv

\* The text stays as it is while it is exported.
LEMMA TextStays ==
  ASSUME TextInv, UNCHANGED <<first, ends>> PROVE TextInv'
BY DEF TextInv, Boundary

\* The start of a string.
LEMMA StartOf ==
  ASSUME NEW s \in Seq(Byte), NEW k \in 0..Len(s)
  PROVE  /\ SubSeq(s, 1, k) \in Seq(Byte) /\ Len(SubSeq(s, 1, k)) = k
         /\ \A i \in 1..k : SubSeq(s, 1, k)[i] = s[i]
<1>1. Len(s) \in Nat BY LenProperties
<1>2. ASSUME NEW i \in 1..k PROVE s[i] \in Byte
  <2>1. i \in 1..Len(s) BY <1>1
  <2> QED BY <2>1, ElementOfSeq
<1> DEFINE m == 1
<1>3. m \in Int /\ k \in Int /\ \A i \in m..k : s[i] \in Byte BY <1>1, <1>2
<1>4. k - m + 1 = k /\ (IF m <= k THEN k - m + 1 ELSE 0) = k BY <1>1
<1>5. \A i \in 1..k : m + i - 1 = i OBVIOUS
<1> HIDE DEF m
<1>6. /\ SubSeq(s, m, k) \in Seq(Byte)
      /\ Len(SubSeq(s, m, k)) = IF m <= k THEN k - m + 1 ELSE 0
      /\ \A i \in 1..(k - m + 1) : SubSeq(s, m, k)[i] = s[m + i - 1]
  BY <1>3, SubSeqProperties
<1> QED BY <1>4, <1>5, <1>6 DEF m

\* The first bytes of a string and the next one.
LEMMA OneByteMore ==
  ASSUME NEW s \in Seq(Byte), NEW n \in Nat, n < Len(s)
  PROVE  /\ s[n + 1] \in Byte
         /\ SubSeq(s, 1, n + 1) = Append(SubSeq(s, 1, n), s[n + 1])
<1>1. Len(s) \in Nat BY LenProperties
<1>2. n + 1 \in 1..Len(s) BY <1>1
<1>3. s[n + 1] \in Byte BY <1>2, ElementOfSeq
<1> DEFINE a == SubSeq(s, 1, n)
           b == SubSeq(s, 1, n + 1)
           c == Append(a, s[n + 1])
<1>6. n \in 0..Len(s) /\ n + 1 \in 0..Len(s) BY <1>1
<1>7. a \in Seq(Byte) /\ Len(a) = n /\ \A i \in 1..n : a[i] = s[i] BY <1>6, StartOf
<1>8. b \in Seq(Byte) /\ Len(b) = n + 1 /\ \A i \in 1..(n + 1) : b[i] = s[i]
  BY <1>6, StartOf
<1> HIDE DEF a, b
<1>9. /\ c \in Seq(Byte) /\ Len(c) = n + 1
      /\ \A i \in 1..n : c[i] = a[i]
      /\ c[n + 1] = s[n + 1]
  BY <1>3, <1>7, AppendProperties
<1> HIDE DEF c
<1>10. \A i \in 1..(n + 1) : b[i] = c[i]
  <2> SUFFICES ASSUME NEW i \in 1..(n + 1) PROVE b[i] = c[i] OBVIOUS
  <2>1. i \in 1..n \/ i = n + 1 OBVIOUS
  <2> QED BY <1>7, <1>8, <1>9, <2>1
<1>11. b = c BY <1>8, <1>9, <1>10, SeqEqual
<1> QED BY <1>3, <1>11 DEF a, b, c

\* The decision on quotes.
LEMMA ExportStarts ==
  ASSUME EInv, Export PROVE EInv'
<1>1. /\ kind = "value" /\ kind' = "export" /\ UNCHANGED <<first, ends, pos>>
      /\ reader' = IF safe(first) THEN reader ELSE ReadByte(reader, Quote)
  BY DEF Export
<1>2. TextInv /\ pos = 0 /\ reader = Reading BY <1>1 DEF EInv, ExportInv
<1>3. TextInv' BY <1>1, <1>2, TextStays
<1>4. first \in Seq(Byte) /\ Len(first) \in Nat BY <1>2, LenProperties DEF TextInv
<1>5. SubSeq(first, 1, 0) = <<>> BY <1>4, SubSeqEmpty
<1>6. reader' = [mode |-> IF ~safe(first) THEN "quoted" ELSE "start", value |-> <<>>]
  BY <1>1, <1>2, ReadFrame DEF Reading
<1>7. safe(first') = safe(first) BY <1>1
<1>8. pos' = 0 /\ first' = first BY <1>1, <1>2
<1>9. pos' \in 0..Len(first') BY <1>4, <1>8
<1>10. reader' = [mode |-> IF ~safe(first') THEN "quoted"
                           ELSE IF pos' = 0 THEN "start" ELSE "bare",
                  value |-> SubSeq(first', 1, pos')]
  BY <1>5, <1>6, <1>8
<1>11. ExportInv' BY <1>1, <1>9, <1>10 DEF ExportInv
<1> QED BY <1>1, <1>3, <1>11 DEF EInv

\* A byte of the value, escaped or not, adds itself to what the reader has.
LEMMA PushByteInv ==
  ASSUME EInv, PushByte PROVE EInv'
<1> DEFINE b == first[pos + 1]
           done == SubSeq(first, 1, pos)
<1>1. /\ kind = "export" /\ kind' = "export" /\ UNCHANGED <<first, ends>>
      /\ pos < Len(first) /\ pos' = pos + 1
      /\ reader' = ReadOne(reader, IF safe(first) THEN <<b>> ELSE Escaped(b))
  BY DEF PushByte
<1>2. /\ TextInv /\ pos \in 0..Len(first)
      /\ reader = [mode |-> IF ~safe(first) THEN "quoted"
                            ELSE IF pos = 0 THEN "start" ELSE "bare", value |-> done]
  BY <1>1 DEF EInv, ExportInv
<1>3. TextInv' BY <1>1, <1>2, TextStays
<1>4. first \in Seq(Byte) /\ Len(first) \in Nat BY <1>2, LenProperties DEF TextInv
<1>5. pos \in Nat BY <1>2, <1>4
<1>6. b \in Byte /\ SubSeq(first, 1, pos + 1) = Append(done, b)
  BY <1>1, <1>4, <1>5, OneByteMore
<1>7. pos + 1 \in 0..Len(first) /\ pos + 1 # 0 BY <1>1, <1>4, <1>5
<1>8. safe(first) => Bare(b)
  <2>1. pos + 1 \in DOMAIN first BY <1>4, <1>7
  <2> QED BY <2>1 DEF safe
<1> HIDE DEF b, done
<1>9. ASSUME safe(first)
      PROVE  reader' = [mode |-> "bare", value |-> Append(done, b)]
  <2>1. reader' = ReadOne(reader, <<b>>) BY <1>1, <1>9
  <2> DEFINE m == IF pos = 0 THEN "start" ELSE "bare"
  <2>2. reader = [mode |-> m, value |-> done] /\ m \in {"start", "bare"} BY <1>2, <1>9
  <2> HIDE DEF m
  <2>3. ReadOne(reader, <<b>>) = [mode |-> "bare", value |-> Append(done, b)]
    BY <1>6, <1>8, <1>9, <2>2, ReadBare
  <2> QED BY <1>9, <2>1, <2>3
<1>10. ASSUME ~safe(first)
       PROVE  reader' = [mode |-> "quoted", value |-> Append(done, b)]
  <2>1. reader' = ReadOne(reader, Escaped(b)) BY <1>1, <1>10
  <2>2. reader = [mode |-> "quoted", value |-> done] BY <1>2, <1>10
  <2>3. ReadOne(reader, Escaped(b)) = [mode |-> "quoted", value |-> Append(done, b)]
    BY <1>6, <2>2, ReadEscaped
  <2> QED BY <1>10, <2>1, <2>3
<1>11. reader' = [mode |-> IF ~safe(first) THEN "quoted" ELSE "bare",
                  value |-> Append(done, b)]
  <2>1. safe(first) => reader' = [mode |-> "bare", value |-> Append(done, b)] BY <1>9
  <2>2. ~safe(first) => reader' = [mode |-> "quoted", value |-> Append(done, b)] BY <1>10
  <2> QED BY <2>1, <2>2
<1>12. first' = first BY <1>1
<1>13. reader' = [mode |-> IF ~safe(first') THEN "quoted"
                           ELSE IF pos' = 0 THEN "start" ELSE "bare",
                  value |-> SubSeq(first', 1, pos')]
  BY <1>1, <1>6, <1>7, <1>11, <1>12
<1>14. pos' \in 0..Len(first') BY <1>1, <1>7, <1>12
<1>15. ExportInv' BY <1>1, <1>13, <1>14 DEF ExportInv
<1> QED BY <1>1, <1>3, <1>15 DEF EInv

\* The end of the line ends the value, of which the reader then has every byte.
LEMMA PushEndInv ==
  ASSUME EInv, PushEnd PROVE EInv'
<1>1. /\ kind = "export" /\ kind' = "exported" /\ UNCHANGED <<first, ends>>
      /\ pos = Len(first)
      /\ reader' = ReadByte(IF safe(first) THEN reader ELSE ReadByte(reader, Quote), LF)
  BY DEF PushEnd
<1>2. /\ TextInv
      /\ reader = [mode |-> IF ~safe(first) THEN "quoted"
                            ELSE IF pos = 0 THEN "start" ELSE "bare",
                   value |-> SubSeq(first, 1, pos)]
  BY <1>1 DEF EInv, ExportInv
<1>3. TextInv' BY <1>1, <1>2, TextStays
<1>4. first \in Seq(Byte) /\ Len(first) \in Nat BY <1>2, LenProperties DEF TextInv
<1>5. SubSeq(first, 1, pos) = first BY <1>1, <1>4, SubSeqFull
<1>6. safe(first) => pos # 0
  <2>1. first # <<>> => Len(first) # 0 BY <1>4, EmptySeq
  <2> QED BY <1>1, <2>1 DEF safe
<1>7. ASSUME safe(first) PROVE reader' = [mode |-> "done", value |-> first]
  <2>1. reader = [mode |-> "bare", value |-> first] BY <1>2, <1>5, <1>6, <1>7
  <2>2. reader' = ReadByte(reader, LF) BY <1>1, <1>7
  <2> QED BY <2>1, <2>2, ReadFrame
<1>8. ASSUME ~safe(first) PROVE reader' = [mode |-> "done", value |-> first]
  <2>1. reader = [mode |-> "quoted", value |-> first] BY <1>2, <1>5, <1>8
  <2>2. reader' = ReadByte(ReadByte(reader, Quote), LF) BY <1>1, <1>8
  <2>3. ReadByte(reader, Quote) = [mode |-> "closed", value |-> first]
    BY <2>1, ReadFrame
  <2> QED BY <2>2, <2>3, ReadFrame
<1>9. reader' = [mode |-> "done", value |-> first']
  <2>1. reader' = [mode |-> "done", value |-> first] BY <1>7, <1>8
  <2> QED BY <1>1, <2>1
<1>10. ExportInv' BY <1>1, <1>9 DEF ExportInv
<1> QED BY <1>1, <1>3, <1>10 DEF EInv

\* Every step preserves the invariant.
LEMMA ENextInv == EInv /\ [ENext]_evars => EInv'
<1> SUFFICES ASSUME EInv, [ENext]_evars PROVE EInv'
  OBVIOUS
<1>1. CASE GrowName BY <1>1, GrowNameInv
<1>2. CASE GrowValue BY <1>2, GrowValueInv
<1>3. CASE Export BY <1>3, ExportStarts
<1>4. CASE PushByte BY <1>4, PushByteInv
<1>5. CASE PushEnd BY <1>5, PushEndInv
<1>6. CASE UNCHANGED evars
  <2>1. UNCHANGED <<kind, first, second, ends, pos, reader>> BY <1>6 DEF evars
  <2>2. kind = "names" => NamesInv' BY <2>1 DEF EInv, NamesInv
  <2>3. kind # "names" => TextInv' BY <2>1, TextStays DEF EInv
  <2>4. kind # "names" => ExportInv' BY <2>1 DEF EInv, ExportInv
  <2> QED BY <2>1, <2>2, <2>3, <2>4 DEF EInv
<1> QED BY <1>1, <1>2, <1>3, <1>4, <1>5, <1>6 DEF ENext

-----------------------------------------------------------------------------
\* The invariant holds in every reachable state.
THEOREM EncodingInvariance == ESpec => []EInv
  BY EInitInv, ENextInv, PTL DEF ESpec

\* Two names that are grown fit 32 bits and are strings of bytes.
LEMMA GrownNames ==
  ASSUME EInv, kind = "names"
  PROVE  /\ first \in Seq(Byte) /\ Fits(Len(first))
         /\ second \in Seq(Byte) /\ Fits(Len(second))
<1>1. NamesInv BY DEF EInv
<1>2. NameBytes \subseteq Byte BY EncodingAssumption DEF Byte
<1>3. first \in Seq(Byte) /\ second \in Seq(Byte)
  BY <1>1, <1>2, SeqMonotonic DEF NamesInv
<1>4. Len(first) \in Nat /\ Len(second) \in Nat BY <1>3, LenProperties
<1> QED BY <1>1, <1>3, <1>4, ShortFits DEF NamesInv

\* No two pairs of a project and a key share their associated data, and no project
\* without a zero byte in its name that of the verifier, for all names whose length
\* fits the prefix (lib.rs, aad_bytes).
THEOREM AadNeverCollides == ESpec => []AadUnique
<1>1. EInv => AadUnique
  <2> SUFFICES ASSUME EInv, kind = "names"
               PROVE  /\ \A p, k \in NameStrings :
                           aad_bytes(p, k) = aad_bytes(first, second) =>
                             p = first /\ k = second
                      /\ NoZero(first) => aad_bytes(first, second) # verifier_aad
    BY DEF AadUnique
  <2>1. /\ first \in Seq(Byte) /\ Fits(Len(first))
        /\ second \in Seq(Byte) /\ Fits(Len(second))
    BY GrownNames
  <2>2. ASSUME NEW p \in NameStrings, NEW k \in NameStrings,
               aad_bytes(p, k) = aad_bytes(first, second)
        PROVE  p = first /\ k = second
    <3>1. /\ p \in Seq(Byte) /\ Fits(Len(p)) /\ k \in Seq(Byte) /\ Fits(Len(k))
      BY NamesAre, ShortFits
    <3> QED BY <2>1, <2>2, <3>1, AadBytesUnique
  <2>3. ASSUME NoZero(first), aad_bytes(first, second) = verifier_aad
        PROVE  FALSE
    <3> DEFINE p == <<0, 1>>
               k == <<0, 2>>
    <3>1. /\ p \in Seq(Byte) /\ Len(p) = 2 /\ k \in Seq(Byte) /\ Len(k) = 2
          /\ DOMAIN p = 1..2 /\ p[1] = 0
      BY DEF Byte
    <3>2. Fits(2) BY DEF Fits, High, Shr
    <3>3. aad_bytes(first, second) = aad_bytes(p, k) BY <2>3 DEF verifier_aad
    <3> HIDE DEF p, k
    <3>4. p \in Seq(Byte) /\ k \in Seq(Byte) /\ Fits(Len(p)) /\ Fits(Len(k))
      BY <3>1, <3>2
    <3>5. first = p BY <2>1, <3>3, <3>4, AadBytesUnique
    <3> QED BY <2>3, <3>1, <3>5 DEF NoZero
  <2> QED BY <2>2, <2>3
<1> QED BY <1>1, EncodingInvariance, PTL

\* No cache file opens for another server, token, project or moment, and none has
\* the path of another, if URLs have no zero byte (cache.rs, aad and cache_path).
THEOREM CacheFilesKeptApart == ESpec => []CacheNamesUnique
<1>1. EInv => CacheNamesUnique
  <2> SUFFICES ASSUME EInv, kind = "names",
                      NEW url \in NameStrings, NEW p \in NameStrings,
                      NEW g \in Hashes, NEW h \in Hashes
               PROVE  /\ \A t, u \in Moments :
                           cache_aad(url, h, p, t) = cache_aad(first, g, second, u) =>
                             url = first /\ h = g /\ p = second /\ t = u
                      /\ /\ NoZero(url) /\ NoZero(first)
                         /\ cache_path(url, h, p) = cache_path(first, g, second)
                         => url = first /\ h = g /\ p = second
    BY DEF CacheNamesUnique
  <2>1. /\ first \in Seq(Byte) /\ Fits(Len(first))
        /\ second \in Seq(Byte) /\ Fits(Len(second))
    BY GrownNames
  <2>2. url \in Seq(Byte) /\ Fits(Len(url)) /\ p \in Seq(Byte) /\ Fits(Len(p))
    BY NamesAre, ShortFits
  <2>3. \A t, u \in Moments :
          cache_aad(url, h, p, t) = cache_aad(first, g, second, u) =>
            url = first /\ h = g /\ p = second /\ t = u
    BY <2>1, <2>2, CacheAadUnique
  <2>4. NoZero(url) /\ NoZero(first)
          /\ cache_path(url, h, p) = cache_path(first, g, second)
        => url = first /\ h = g /\ p = second
    BY <2>1, <2>2, CachePathUnique
  <2> QED BY <2>3, <2>4
<1> QED BY <1>1, EncodingInvariance, PTL

\* Whatever bytes a value is made of, a dotenv reader of its line has exactly the
\* value when the line ends, and "secrets get" piped into "secrets set" keeps it
\* (commands.rs, dotenv_value, get, read_secret_value).
THEOREM ValuesComeBack == ESpec => []ValuesSurvive
<1>1. EInv => ValuesSurvive
  <2> SUFFICES ASSUME EInv PROVE ValuesSurvive
    OBVIOUS
  <2>1. kind = "exported" => reader = [mode |-> "done", value |-> first]
    BY DEF EInv, ExportInv
  <2>2. ASSUME kind # "names", first # <<>>, ~EndsIn(first, CR)
        PROVE  read_secret_value(printed(first)) = first
    <3>1. first \in Seq(Byte) BY <2>2 DEF EInv, TextInv
    <3> QED BY <2>2, <3>1, PipeKeeps
  <2> QED BY <2>1, <2>2 DEF ValuesSurvive
<1> QED BY <1>1, EncodingInvariance, PTL

\* What the log gets of a path segment ends where a character ends, within the limit
\* and as late as possible (audit.rs, truncate_for_log).
THEOREM LogGetsText == ESpec => []LogShowsText
<1>1. EInv => LogShowsText
  <2> SUFFICES ASSUME EInv, kind # "names"
               PROVE  LET s == truncate_for_log(first)
                      IN  /\ s = SubSeq(first, 1, Len(s))
                          /\ Len(s) \in ends /\ Len(s) <= LogLimit
                          /\ \A e \in ends : e <= LogLimit => e <= Len(s)
    BY DEF LogShowsText
  <2>1. TextInv BY DEF EInv
  <2> DEFINE start == IF Len(first) < LogLimit THEN Len(first) ELSE LogLimit
             cuts == {i \in 0..start : Boundary(first, i)}
             n == CHOOSE i \in cuts : \A j \in cuts : j <= i
  <2>2. first \in Seq(Byte) /\ Len(first) \in Nat /\ LogLimit \in Nat
    BY <2>1, LenProperties, EncodingAssumption DEF TextInv
  <2>3. \A i \in 0..start : i \in 0..Len(first) /\ i <= LogLimit BY <2>2
  <2>4. \A i \in 0..Len(first) : i <= LogLimit => i \in 0..start BY <2>2
  <2> HIDE DEF start
  <2>5. \A i : i \in cuts <=> i \in ends /\ i <= LogLimit
    BY <2>1, <2>3, <2>4 DEF TextInv
  <2>6. \E e \in ends : e <= LogLimit /\ \A f \in ends : f <= LogLimit => f <= e
    BY <2>1 DEF TextInv
  <2>7. truncate_for_log(first) = SubSeq(first, 1, n) BY DEF truncate_for_log, start
  <2> HIDE DEF cuts
  <2>8. \E i \in cuts : \A j \in cuts : j <= i BY <2>5, <2>6
  <2>9. n \in cuts /\ \A j \in cuts : j <= n BY <2>8
  <2> HIDE DEF n
  <2>10. n \in ends /\ n <= LogLimit /\ \A e \in ends : e <= LogLimit => e <= n
    BY <2>5, <2>9
  <2>11. Len(SubSeq(first, 1, n)) = n
    <3>1. n \in 0..Len(first) BY <2>1, <2>10 DEF TextInv
    <3> QED BY <2>2, <3>1, StartOf
  <2> QED BY <2>7, <2>10, <2>11
<1> QED BY <1>1, EncodingInvariance, PTL
=============================================================================
