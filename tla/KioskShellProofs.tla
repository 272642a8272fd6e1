-------------------------- MODULE KioskShellProofs --------------------------
(***************************************************************************)
(* Proofs about the windows of the kiosk shell: no pointer to a window     *)
(* that was freed is used, every window stays in the list of its root, the *)
(* active tree is what is shown, and a minimized window can be restored,   *)
(* for any number of windows.                                              *)
(*                                                                         *)
(* Induction is done with sets: what fails somewhere fails for the first   *)
(* time somewhere (NatMin).                                                *)
(***************************************************************************)
EXTENDS KioskShell, SequenceTheorems, WellFoundedInduction, TLAPS

-----------------------------------------------------------------------------
(* Induction over numbers and lists. *)

\* A set of numbers has a least one.
LEMMA NatMin ==
  ASSUME NEW T \in SUBSET Nat, T # {}
  PROVE  \E x \in T : \A y \in T : x <= y
<1>1. PICK x \in T : \A y \in T : <<y, x>> \notin OpToRel(<, Nat)
  <2> HIDE DEF OpToRel
  <2> QED BY WFMin, NatLessThanWellFounded
<1>2. \A y \in T : ~(y < x)
  BY <1>1 DEF OpToRel
<1> QED BY <1>2

\* A set that has 0 and the successor of each of its members has all numbers.
LEMMA NatSteps ==
  ASSUME NEW P, 0 \in P, \A n \in Nat : n \in P => n + 1 \in P
  PROVE  \A n \in Nat : n \in P
<1> DEFINE T == {n \in Nat : n \notin P}
<1> SUFFICES ASSUME T # {} PROVE FALSE
  OBVIOUS
<1>1. PICK x \in T : \A y \in T : x <= y
  BY NatMin
<1>2. x # 0 /\ x - 1 \in Nat /\ x - 1 \notin T
  BY <1>1
<1> QED BY <1>2

\* A set of lists that has the empty one, and each of its members with an element
\* more, has all of them.
LEMMA ListSteps ==
  ASSUME NEW W, NEW P, <<>> \in P,
         \A l \in Seq(W), e \in W : l \in P => Append(l, e) \in P
  PROVE  \A l \in Seq(W) : l \in P
<1> DEFINE N == {n \in Nat : \A l \in Seq(W) : Len(l) = n => l \in P}
<1>1. 0 \in N
  BY EmptySeq
<1>2. ASSUME NEW n \in Nat, n \in N PROVE n + 1 \in N
  <2> SUFFICES ASSUME NEW l \in Seq(W), Len(l) = n + 1 PROVE l \in P
    OBVIOUS
  <2>1. PICK m \in Seq(W), e \in W : l = Append(m, e)
    BY <1>2, SequenceEmptyOrAppend, EmptySeq
  <2>2. Len(m) = n
    BY <1>2, <2>1, AppendProperties
  <2> QED BY <1>2, <2>1, <2>2
<1>3. \A n \in Nat : n \in N
  <2> HIDE DEF N
  <2> QED BY <1>1, <1>2, NatSteps
<1> QED BY <1>3, LenProperties

-----------------------------------------------------------------------------
(* Lists, and what Keep leaves of them. *)

More(l, S, k, i) == IF l[i] \in S THEN Append(k, l[i]) ELSE k

KeptUpTo(l, S, n, f) ==
  f = [i \in 0..n |-> IF i = 0 THEN <<>> ELSE More(l, S, f[i - 1], i)]

Kept(l, S) == CHOOSE f : KeptUpTo(l, S, Len(l), f)

\* The equation of KeptUpTo, element by element.
KeptSteps(l, S, n, f) == f[0] = <<>> /\ \A i \in 1..n : f[i] = More(l, S, f[i - 1], i)

LEMMA KeptAt ==
  ASSUME NEW l, NEW S, NEW n \in Nat, NEW f, KeptUpTo(l, S, n, f)
  PROVE  KeptSteps(l, S, n, f)
<1> PICK g : g = f
  OBVIOUS
<1>1. f = [i \in 0..n |-> IF i = 0 THEN <<>> ELSE More(l, S, g[i - 1], i)]
  BY Zenon DEF KeptUpTo
<1>2. f[0] = <<>>
  BY <1>1
<1>3. ASSUME NEW i \in 1..n PROVE f[i] = More(l, S, g[i - 1], i)
  BY <1>1
<1> QED BY <1>2, <1>3, Zenon DEF KeptSteps

LEMMA KeptExists ==
  ASSUME NEW l, NEW S, NEW n \in Nat
  PROVE  \E f : KeptUpTo(l, S, n, f)
<1> DEFINE N == {m \in Nat : \E f : KeptUpTo(l, S, m, f)}
<1>1. 0 \in N
  <2>1. KeptUpTo(l, S, 0, [i \in 0..0 |-> <<>>])
    BY DEF KeptUpTo
  <2> QED BY <2>1
<1>2. ASSUME NEW m \in Nat, m \in N PROVE m + 1 \in N
  <2>1. PICK f : KeptUpTo(l, S, m, f)
    BY <1>2
  <2>2. f[0] = <<>> /\ \A i \in 1..m : f[i] = More(l, S, f[i - 1], i)
    <3>1. KeptSteps(l, S, m, f)
      BY <2>1, KeptAt
    <3> QED BY <3>1 DEF KeptSteps
  <2> DEFINE g == [i \in 0..(m + 1) |-> IF i <= m THEN f[i] ELSE More(l, S, f[m], m + 1)]
  <2>3. \A i \in 0..(m + 1) : g[i] = IF i = 0 THEN <<>> ELSE More(l, S, g[i - 1], i)
    BY <2>2
  <2>4. KeptUpTo(l, S, m + 1, g)
    BY <2>3 DEF KeptUpTo
  <2> QED BY <2>4
<1>3. \A m \in Nat : m \in N
  <2> HIDE DEF N
  <2> QED BY <1>1, <1>2, NatSteps
<1> QED BY <1>3

LEMMA KeptDef ==
  ASSUME NEW W, NEW l \in Seq(W), NEW S
  PROVE  /\ Keep(l, S) = Kept(l, S)[Len(l)]
         /\ Kept(l, S)[0] = <<>>
         /\ \A i \in 1..Len(l) : Kept(l, S)[i] = More(l, S, Kept(l, S)[i - 1], i)
<1>1. Keep(l, S) = Kept(l, S)[Len(l)]
  BY DEF Keep, Kept, KeptUpTo, More
<1>2. Len(l) \in Nat
  BY LenProperties
<1>3. KeptUpTo(l, S, Len(l), Kept(l, S))
  BY <1>2, KeptExists DEF Kept
<1>4. /\ Kept(l, S)[0] = <<>>
      /\ \A i \in 1..Len(l) : Kept(l, S)[i] = More(l, S, Kept(l, S)[i - 1], i)
  <2>1. KeptSteps(l, S, Len(l), Kept(l, S))
    BY ONLY <1>2, <1>3, KeptAt
  <2> QED BY ONLY <2>1 DEF KeptSteps
<1> QED BY <1>1, <1>4, Zenon

LEMMA KeepEmpty == \A S : Keep(<<>>, S) = <<>>
<1> TAKE S
<1>1. <<>> \in Seq({}) /\ Len(<<>>) = 0
  BY EmptySeq
<1>2. Keep(<<>>, S) = Kept(<<>>, S)[Len(<<>>)] /\ Kept(<<>>, S)[0] = <<>>
  BY <1>1, KeptDef, Zenon
<1> QED BY <1>1, <1>2

\* What Keep does to the last element.
LEMMA KeepAppend ==
  ASSUME NEW W, NEW l \in Seq(W), NEW e \in W, NEW S
  PROVE  Keep(Append(l, e), S) = IF e \in S THEN Append(Keep(l, S), e) ELSE Keep(l, S)
<1> DEFINE m == Append(l, e)
<1>1. /\ m \in Seq(W)
      /\ Len(l) \in Nat
      /\ Len(m) = Len(l) + 1
      /\ \A i \in 1..Len(l) : m[i] = l[i]
      /\ m[Len(l) + 1] = e
  BY AppendProperties, LenProperties
<1> DEFINE N == {n \in Nat : n <= Len(l) => Kept(m, S)[n] = Kept(l, S)[n]}
<1>2. 0 \in N
  <2>1. Kept(m, S)[0] = <<>> /\ Kept(l, S)[0] = <<>>
    BY <1>1, KeptDef, Zenon
  <2> QED BY <2>1
<1>3. ASSUME NEW n \in Nat, n \in N PROVE n + 1 \in N
  <2> SUFFICES ASSUME n + 1 <= Len(l) PROVE Kept(m, S)[n + 1] = Kept(l, S)[n + 1]
    OBVIOUS
  <2> HIDE DEF m
  <2>1. n + 1 \in 1..Len(l) /\ n + 1 \in 1..Len(m) /\ (n + 1) - 1 = n
    BY <1>1
  <2>2. Kept(m, S)[n + 1] = More(m, S, Kept(m, S)[n], n + 1)
    BY <1>1, <2>1, KeptDef
  <2>3. Kept(l, S)[n + 1] = More(l, S, Kept(l, S)[n], n + 1)
    BY <2>1, KeptDef
  <2>4. Kept(m, S)[n] = Kept(l, S)[n] /\ m[n + 1] = l[n + 1]
    BY <1>1, <1>3, <2>1
  <2> QED BY <2>2, <2>3, <2>4 DEF More
<1>4. \A n \in Nat : n \in N
  <2> HIDE DEF N
  <2> QED BY <1>2, <1>3, NatSteps
<1>5. Kept(m, S)[Len(l)] = Keep(l, S)
  BY <1>1, <1>4, KeptDef
<1> HIDE DEF m
<1>6. Keep(m, S) = More(m, S, Kept(m, S)[Len(m) - 1], Len(m))
  <2>1. Len(m) \in 1..Len(m)
    BY <1>1
  <2> QED BY <1>1, <2>1, KeptDef, Zenon
<1>7. Len(m) - 1 = Len(l) /\ m[Len(m)] = e
  BY <1>1
<1> QED BY <1>5, <1>6, <1>7 DEF m, More

Lists == Seq(Windows)

\* The elements of small lists, and of lists put together.
LEMMA Ranges ==
  /\ Range(<<>>) = {}
  /\ \A x : Range(<<x>>) = {x}
  /\ \A l \in Lists : Range(l) \subseteq Windows
  /\ \A l \in Lists, e \in Windows : Range(Append(l, e)) = Range(l) \cup {e}
  /\ \A l, m \in Lists : Range(l \o m) = Range(l) \cup Range(m)
<1>1. Range(<<>>) = {}
  BY DEF Range
<1>2. \A x : Range(<<x>>) = {x}
  BY DEF Range
<1>3. \A l \in Lists : Range(l) \subseteq Windows
  BY RangeOfSeq DEF Lists
<1>4. \A l, m \in Lists : Range(l \o m) = Range(l) \cup Range(m)
  BY RangeConcatenation DEF Lists
<1>5. ASSUME NEW l \in Lists, NEW e \in Windows PROVE Range(Append(l, e)) = Range(l) \cup {e}
  <2>1. Append(l, e) = l \o <<e>> /\ <<e>> \in Lists
    BY AppendIsConcat DEF Lists
  <2> QED BY <1>2, <1>4, <2>1
<1> QED BY <1>1, <1>2, <1>3, <1>4, <1>5

LEMMA ListOps ==
  /\ <<>> \in Lists
  /\ \A x \in Windows : <<x>> \in Lists
  /\ \A l, m \in Lists : l \o m \in Lists
  /\ \A l \in Lists : <<>> \o l = l /\ l \o <<>> = l
  /\ \A l \in Lists, e \in Windows : Append(l, e) \in Lists
BY DEF Lists

\* Keep leaves a list, of the elements that are in S.
LEMMA KeepType ==
  ASSUME NEW l \in Lists, NEW S
  PROVE  /\ Keep(l, S) \in Lists
         /\ Range(Keep(l, S)) = Range(l) \cap S
<1> DEFINE P == {m \in Lists : Keep(m, S) \in Lists /\ Range(Keep(m, S)) = Range(m) \cap S}
<1>1. <<>> \in P
  BY KeepEmpty, Ranges, ListOps
<1>2. ASSUME NEW m \in Seq(Windows), NEW e \in Windows, m \in P PROVE Append(m, e) \in P
  <2>1. Keep(Append(m, e), S) = IF e \in S THEN Append(Keep(m, S), e) ELSE Keep(m, S)
    BY KeepAppend
  <2>2. Keep(m, S) \in Lists /\ Range(Keep(m, S)) = Range(m) \cap S /\ m \in Lists
    BY <1>2
  <2>3. Range(Append(m, e)) = Range(m) \cup {e} /\ Append(m, e) \in Lists
    BY <2>2, Ranges, ListOps
  <2>4. CASE e \in S
    <3>1. /\ Append(Keep(m, S), e) \in Lists
          /\ Range(Append(Keep(m, S), e)) = Range(Keep(m, S)) \cup {e}
      BY <2>2, Ranges, ListOps
    <3> QED BY <2>1, <2>2, <2>3, <2>4, <3>1
  <2>5. CASE e \notin S
    BY <2>1, <2>2, <2>3, <2>5
  <2> QED BY <2>4, <2>5
<1>3. \A m \in Seq(Windows) : m \in P
  <2> HIDE DEF P
  <2> QED BY <1>1, <1>2, ListSteps
<1> QED BY <1>3 DEF Lists

\* Only the elements of the list matter.
LEMMA KeepSame ==
  ASSUME NEW l \in Lists, NEW S, NEW T, Range(l) \cap S = Range(l) \cap T
  PROVE  Keep(l, S) = Keep(l, T)
<1> DEFINE P == {m \in Lists : Range(m) \cap S = Range(m) \cap T => Keep(m, S) = Keep(m, T)}
<1>1. <<>> \in P
  BY KeepEmpty, ListOps
<1>2. ASSUME NEW m \in Seq(Windows), NEW e \in Windows, m \in P PROVE Append(m, e) \in P
  <2>0. m \in Lists /\ Append(m, e) \in Lists
    BY ListOps DEF Lists
  <2> SUFFICES ASSUME Range(Append(m, e)) \cap S = Range(Append(m, e)) \cap T
               PROVE  Keep(Append(m, e), S) = Keep(Append(m, e), T)
    BY <2>0
  <2>1. Range(Append(m, e)) = Range(m) \cup {e}
    BY <2>0, Ranges
  <2>2. Range(m) \cap S = Range(m) \cap T /\ (e \in S <=> e \in T)
    BY <2>1
  <2>3. /\ Keep(Append(m, e), S) = IF e \in S THEN Append(Keep(m, S), e) ELSE Keep(m, S)
        /\ Keep(Append(m, e), T) = IF e \in T THEN Append(Keep(m, T), e) ELSE Keep(m, T)
    BY KeepAppend
  <2>4. Keep(m, S) = Keep(m, T)
    BY <1>2, <2>2
  <2> QED BY <2>2, <2>3, <2>4
<1>3. \A m \in Seq(Windows) : m \in P
  <2> HIDE DEF P
  <2> QED BY <1>1, <1>2, ListSteps
<1> QED BY <1>3 DEF Lists

\* Keep leaves everything, or nothing.
LEMMA KeepAll ==
  ASSUME NEW l \in Lists, NEW S, Range(l) \subseteq S
  PROVE  Keep(l, S) = l
<1> DEFINE P == {m \in Lists : Range(m) \subseteq S => Keep(m, S) = m}
<1>1. <<>> \in P
  BY KeepEmpty, ListOps
<1>2. ASSUME NEW m \in Seq(Windows), NEW e \in Windows, m \in P PROVE Append(m, e) \in P
  <2>0. m \in Lists /\ Append(m, e) \in Lists
    BY ListOps DEF Lists
  <2>1. Range(Append(m, e)) = Range(m) \cup {e}
    BY <2>0, Ranges
  <2> QED BY <1>2, <2>0, <2>1, KeepAppend
<1>3. \A m \in Seq(Windows) : m \in P
  <2> HIDE DEF P
  <2> QED BY <1>1, <1>2, ListSteps
<1> QED BY <1>3 DEF Lists

LEMMA KeepNone ==
  ASSUME NEW l \in Lists, NEW S, Range(l) \cap S = {}
  PROVE  Keep(l, S) = <<>>
<1> DEFINE P == {m \in Lists : Keep(m, {}) = <<>>}
<1>1. <<>> \in P
  BY KeepEmpty, ListOps
<1>2. ASSUME NEW m \in Seq(Windows), NEW e \in Windows, m \in P PROVE Append(m, e) \in P
  <2>0. m \in Lists /\ Append(m, e) \in Lists
    BY ListOps DEF Lists
  <2> QED BY <1>2, <2>0, KeepAppend
<1>3. \A m \in Seq(Windows) : m \in P
  <2> HIDE DEF P
  <2> QED BY <1>1, <1>2, ListSteps
<1>4. Keep(l, {}) = <<>>
  BY <1>3 DEF Lists
<1>5. Keep(l, S) = Keep(l, {})
  BY KeepSame
<1> QED BY <1>4, <1>5

LEMMA AppendConcat ==
  ASSUME NEW l \in Lists, NEW m \in Lists, NEW e \in Windows
  PROVE  Append(l \o m, e) = l \o Append(m, e)
<1> DEFINE k == Append(m, e)
           left == Append(l \o m, e)
           right == l \o k
<1>1. l \o m \in Seq(Windows) /\ Len(l \o m) = Len(l) + Len(m)
      /\ Len(l) \in Nat /\ Len(m) \in Nat
  BY ConcatProperties, LenProperties DEF Lists
<1>2. k \in Seq(Windows) /\ Len(k) = Len(m) + 1
  BY AppendProperties DEF Lists
<1>3. left \in Seq(Windows) /\ right \in Seq(Windows)
  BY <1>1, <1>2, AppendProperties, ConcatProperties DEF Lists
<1>4. Len(left) = Len(right)
  BY <1>1, <1>2, AppendProperties, ConcatProperties DEF Lists
<1>5. ASSUME NEW i \in 1..Len(left) PROVE left[i] = right[i]
  BY <1>1, <1>2 DEF Lists
<1> QED BY <1>3, <1>4, <1>5, SeqEqual

LEMMA KeepConcat ==
  ASSUME NEW l \in Lists, NEW k \in Lists, NEW S
  PROVE  Keep(l \o k, S) = Keep(l, S) \o Keep(k, S)
<1> DEFINE P == {m \in Lists : Keep(l \o m, S) = Keep(l, S) \o Keep(m, S)}
<1>1. <<>> \in P
  BY KeepEmpty, KeepType, ListOps
<1>2. ASSUME NEW m \in Seq(Windows), NEW e \in Windows, m \in P PROVE Append(m, e) \in P
  <2>0. m \in Lists /\ Append(m, e) \in Lists /\ l \o m \in Lists
    BY ListOps DEF Lists
  <2>1. l \o Append(m, e) = Append(l \o m, e)
    BY <2>0 DEF Lists
  <2>2. Keep(Append(l \o m, e), S) = IF e \in S THEN Append(Keep(l \o m, S), e) ELSE Keep(l \o m, S)
    BY <2>0, KeepAppend DEF Lists
  <2>3. Keep(Append(m, e), S) = IF e \in S THEN Append(Keep(m, S), e) ELSE Keep(m, S)
    BY <2>0, KeepAppend DEF Lists
  <2>4. Keep(l \o m, S) = Keep(l, S) \o Keep(m, S)
    BY <1>2
  <2>5. Append(Keep(l, S) \o Keep(m, S), e) = Keep(l, S) \o Append(Keep(m, S), e)
    <3>1. Keep(l, S) \in Seq(Windows) /\ Keep(m, S) \in Seq(Windows)
      BY <2>0, KeepType DEF Lists
    <3> QED BY ONLY <3>1, AppendConcat DEF Lists
  <2>6. Keep(l \o Append(m, e), S) = Keep(l, S) \o Keep(Append(m, e), S)
    BY <2>1, <2>2, <2>3, <2>4, <2>5
  <2> QED BY <2>0, <2>6
<1>3. \A m \in Seq(Windows) : m \in P
  <2> HIDE DEF P
  <2> QED BY <1>1, <1>2, ListSteps
<1> QED BY <1>3 DEF Lists

LEMMA KeepKeep ==
  ASSUME NEW l \in Lists, NEW S, NEW T
  PROVE  Keep(Keep(l, S), T) = Keep(l, S \cap T)
<1> DEFINE P == {m \in Lists : Keep(Keep(m, S), T) = Keep(m, S \cap T)}
<1>1. <<>> \in P
  BY KeepEmpty, ListOps
<1>2. ASSUME NEW m \in Seq(Windows), NEW e \in Windows, m \in P PROVE Append(m, e) \in P
  <2>0. m \in Lists /\ Append(m, e) \in Lists /\ Keep(m, S) \in Lists
    BY ListOps, KeepType DEF Lists
  <2>1. Keep(Append(m, e), S) = IF e \in S THEN Append(Keep(m, S), e) ELSE Keep(m, S)
    BY <2>0, KeepAppend DEF Lists
  <2>2. Keep(Append(Keep(m, S), e), T) =
          IF e \in T THEN Append(Keep(Keep(m, S), T), e) ELSE Keep(Keep(m, S), T)
    BY <2>0, KeepAppend DEF Lists
  <2>3. Keep(Append(m, e), S \cap T) =
          IF e \in S \cap T THEN Append(Keep(m, S \cap T), e) ELSE Keep(m, S \cap T)
    BY <2>0, KeepAppend DEF Lists
  <2>4. Keep(Keep(m, S), T) = Keep(m, S \cap T)
    BY <1>2
  <2>5. Keep(Keep(Append(m, e), S), T) = Keep(Append(m, e), S \cap T)
    <3>1. CASE e \in S
      <4>1. Keep(Append(m, e), S) = Append(Keep(m, S), e) /\ (e \in S \cap T <=> e \in T)
        BY <2>1, <3>1
      <4>2. CASE e \in T
        BY <2>2, <2>3, <2>4, <4>1, <4>2, Zenon
      <4>3. CASE e \notin T
        BY <2>2, <2>3, <2>4, <4>1, <4>3, Zenon
      <4> QED BY <4>2, <4>3
    <3>2. CASE e \notin S
      BY <2>1, <2>2, <2>3, <2>4, <3>2
    <3> QED BY <3>1, <3>2
  <2> QED BY <2>0, <2>5
<1>3. \A m \in Seq(Windows) : m \in P
  <2> HIDE DEF P
  <2> QED BY <1>1, <1>2, ListSteps
<1> QED BY <1>3 DEF Lists

\* The same of Without.
LEMMA WithoutType ==
  ASSUME NEW l \in Lists, NEW S
  PROVE  /\ Without(l, S) \in Lists
         /\ Range(Without(l, S)) = Range(l) \ S
         /\ Range(l) \cap S = {} => Without(l, S) = l
<1>1. Range(l) \subseteq Windows
  BY Ranges
<1> QED BY <1>1, KeepType, KeepAll DEF Without

\* No element twice.
Distinct(l) == \A i, j \in 1..Len(l) : l[i] = l[j] => i = j

LEMMA DistinctAppend ==
  ASSUME NEW l \in Lists, NEW e \in Windows
  PROVE  Distinct(Append(l, e)) <=> Distinct(l) /\ e \notin Range(l)
<1> DEFINE m == Append(l, e)
<1>1. /\ Len(l) \in Nat
      /\ Len(m) = Len(l) + 1
      /\ \A i \in 1..Len(l) : m[i] = l[i]
      /\ m[Len(l) + 1] = e
  BY AppendProperties, LenProperties DEF Lists
<1>2. Range(l) = {l[i] : i \in 1..Len(l)}
  BY RangeOfSeq, LenProperties DEF Lists, Range
<1> HIDE DEF m
<1>3. Distinct(m) <=> Distinct(l) /\ e \notin Range(l)
  <2>1. ASSUME Distinct(m) PROVE Distinct(l) /\ e \notin Range(l)
    BY <1>1, <1>2, <2>1 DEF Distinct
  <2>2. ASSUME Distinct(l), e \notin Range(l) PROVE Distinct(m)
    <3> SUFFICES ASSUME NEW i \in 1..Len(l) + 1, NEW j \in 1..Len(l) + 1, m[i] = m[j]
                 PROVE  i = j
      BY <1>1 DEF Distinct
    <3>1. CASE i \in 1..Len(l) /\ j \in 1..Len(l)
      BY <1>1, <2>2, <3>1 DEF Distinct
    <3>2. CASE i = Len(l) + 1 /\ j \in 1..Len(l)
      BY <1>1, <1>2, <2>2, <3>2
    <3>3. CASE j = Len(l) + 1 /\ i \in 1..Len(l)
      BY <1>1, <1>2, <2>2, <3>3
    <3> QED BY <1>1, <3>1, <3>2, <3>3
  <2> QED BY <2>1, <2>2
<1> QED BY <1>3 DEF m

LEMMA DistinctKeep ==
  ASSUME NEW l \in Lists, NEW S, Distinct(l)
  PROVE  Distinct(Keep(l, S))
<1> DEFINE P == {m \in Lists : Distinct(m) => Distinct(Keep(m, S))}
<1>1. <<>> \in P
  BY KeepEmpty, ListOps DEF Distinct
<1>2. ASSUME NEW m \in Lists, NEW e \in Windows, m \in P
      PROVE  Append(m, e) \in P
  <2>1. Append(m, e) \in Lists
    BY ListOps
  <2>2. ASSUME Distinct(Append(m, e)) PROVE Distinct(Keep(Append(m, e), S))
    <3>1. Distinct(m) /\ e \notin Range(m) /\ Distinct(Keep(m, S))
      BY <1>2, <2>2, DistinctAppend
    <3>2. Keep(m, S) \in Lists /\ e \notin Range(Keep(m, S))
      BY <3>1, KeepType
    <3>3. Keep(Append(m, e), S) = IF e \in S THEN Append(Keep(m, S), e) ELSE Keep(m, S)
      BY KeepAppend DEF Lists
    <3>4. Distinct(Append(Keep(m, S), e))
      BY <3>1, <3>2, DistinctAppend
    <3> QED BY ONLY <3>1, <3>3, <3>4
  <2> QED BY <2>1, <2>2
<1> HIDE DEF P
<1>3. \A m \in Lists : m \in P
  BY <1>1, <1>2, ListSteps DEF Lists
<1> QED BY <1>3 DEF P

-----------------------------------------------------------------------------
(* Trees of windows. *)

Parents == [Windows -> Windows \cup {NULL}]

\* Nobody is above itself: of any windows one has its parent elsewhere.
Grounded(sh) == \A S \in SUBSET Windows : S # {} => \E x \in S : sh.parent[x] \notin S

LEMMA AncestorsLeast ==
  ASSUME NEW sh, NEW w \in Windows, NEW S \in SUBSET Windows, w \in S,
         \A x \in S : sh.parent[x] \in S \cup {NULL}
  PROVE  Ancestors(sh, w) \subseteq S
BY DEF Ancestors

LEMMA AncestorsUp ==
  ASSUME NEW sh, sh.parent \in Parents, NEW w \in Windows
  PROVE  /\ Ancestors(sh, w) \subseteq Windows
         /\ w \in Ancestors(sh, w)
         /\ \A a \in Ancestors(sh, w) : sh.parent[a] \in Ancestors(sh, w) \cup {NULL}
<1>1. Ancestors(sh, w) \subseteq Windows /\ w \in Ancestors(sh, w)
  BY DEF Ancestors
<1>2. ASSUME NEW a \in Ancestors(sh, w), sh.parent[a] # NULL
      PROVE  sh.parent[a] \in Ancestors(sh, w)
  <2>1. sh.parent[a] \in Windows
    BY <1>1, <1>2 DEF Parents
  <2>2. ASSUME NEW S \in SUBSET Windows, w \in S,
               \A x \in S : sh.parent[x] \in S \cup {NULL}
        PROVE  sh.parent[a] \in S
    <3>1. a \in S
      BY <2>2, AncestorsLeast
    <3> QED BY <1>2, <2>2, <3>1
  <2> QED BY <2>1, <2>2 DEF Ancestors
<1> QED BY <1>1, <1>2

LEMMA AncestorsTransitive ==
  ASSUME NEW sh, sh.parent \in Parents, NEW w \in Windows, NEW a \in Ancestors(sh, w)
  PROVE  Ancestors(sh, a) \subseteq Ancestors(sh, w)
<1>1. a \in Windows /\ Ancestors(sh, w) \in SUBSET Windows
  BY AncestorsUp
<1> QED BY <1>1, AncestorsUp, AncestorsLeast

\* The ancestors of a window are it and those of its parent.
LEMMA AncestorsOf ==
  ASSUME NEW sh, sh.parent \in Parents, NEW w \in Windows
  PROVE  /\ sh.parent[w] = NULL => Ancestors(sh, w) = {w}
         /\ sh.parent[w] # NULL => Ancestors(sh, w) = {w} \cup Ancestors(sh, sh.parent[w])
<1>1. ASSUME sh.parent[w] = NULL PROVE Ancestors(sh, w) = {w}
  <2>0. {w} \in SUBSET Windows /\ \A x \in {w} : sh.parent[x] \in {w} \cup {NULL}
    BY <1>1
  <2>1. Ancestors(sh, w) \subseteq {w}
    BY <2>0, AncestorsLeast
  <2> QED BY <2>1, AncestorsUp
<1>2. ASSUME sh.parent[w] # NULL PROVE Ancestors(sh, w) = {w} \cup Ancestors(sh, sh.parent[w])
  <2> DEFINE p == sh.parent[w]
             S == {w} \cup Ancestors(sh, p)
  <2>1. p \in Windows
    BY <1>2 DEF Parents
  <2>2. p \in Ancestors(sh, w) /\ w \in Ancestors(sh, w)
    BY <1>2, AncestorsUp
  <2>3. S \subseteq Ancestors(sh, w)
    BY <2>2, AncestorsTransitive
  <2>4. /\ Ancestors(sh, p) \subseteq Windows
        /\ p \in Ancestors(sh, p)
        /\ \A a \in Ancestors(sh, p) : sh.parent[a] \in Ancestors(sh, p) \cup {NULL}
    BY <2>1, AncestorsUp
  <2>5. S \in SUBSET Windows /\ w \in S /\ \A x \in S : sh.parent[x] \in S \cup {NULL}
    BY <2>4
  <2>6. Ancestors(sh, w) \subseteq S
    <3> HIDE DEF S
    <3> QED BY <2>5, AncestorsLeast, Zenon
  <2> QED BY <2>3, <2>6
<1> QED BY <1>1, <1>2

\* A window without dialogs is above itself only.
LEMMA ChildlessIsLow ==
  ASSUME NEW sh, sh.parent \in Parents, NEW w \in Windows,
         \A x \in Windows : sh.parent[x] # w
  PROVE  \A x \in Windows : w \in Ancestors(sh, x) <=> x = w
<1> SUFFICES ASSUME NEW x \in Windows, x # w PROVE w \notin Ancestors(sh, x)
  BY AncestorsUp
<1> DEFINE S == Windows \ {w}
<1>1. S \in SUBSET Windows /\ x \in S /\ \A y \in S : sh.parent[y] \in S \cup {NULL}
  BY DEF Parents
<1>2. Ancestors(sh, x) \subseteq S
  BY <1>1, AncestorsLeast
<1> QED BY <1>2

Root(sh, w, r) == r \in Ancestors(sh, w) /\ sh.parent[r] = NULL

\* Every window has one root, its own or that of its parent.
LEMMA RootOf ==
  ASSUME NEW sh, sh.parent \in Parents, Grounded(sh), NEW w \in Windows
  PROVE  /\ Root(sh, w, get_parent_root(sh, w))
         /\ \A r : Root(sh, w, r) => r = get_parent_root(sh, w)
         /\ get_parent_root(sh, w) \in Windows
         /\ get_parent_root(sh, w) = IF sh.parent[w] = NULL THEN w
                                     ELSE get_parent_root(sh, sh.parent[w])
<1>1. ASSUME NEW x \in Windows PROVE Root(sh, x, get_parent_root(sh, x))
  <2>1. Ancestors(sh, x) \in SUBSET Windows /\ Ancestors(sh, x) # {}
    BY AncestorsUp
  <2>2. PICK r \in Ancestors(sh, x) : sh.parent[r] \notin Ancestors(sh, x)
    BY <2>1 DEF Grounded
  <2>3. sh.parent[r] = NULL
    BY <2>2, AncestorsUp
  <2> QED BY <2>2, <2>3 DEF Root, get_parent_root
<1> DEFINE S == {x \in Windows : \E r : Root(sh, x, r) /\ r # get_parent_root(sh, x)}
<1>2. S = {}
  <2> SUFFICES ASSUME S # {} PROVE FALSE
    OBVIOUS
  <2>1. PICK x \in S : sh.parent[x] \notin S
    BY DEF Grounded
  <2>2. PICK r : Root(sh, x, r) /\ r # get_parent_root(sh, x)
    BY <2>1
  <2>3. x \in Windows /\ Root(sh, x, get_parent_root(sh, x))
    BY <1>1
  <2>4. sh.parent[x] # NULL
    BY <2>2, <2>3, AncestorsOf DEF Root
  <2>5. sh.parent[x] \in Windows
    BY <2>3, <2>4 DEF Parents
  <2>6. Ancestors(sh, x) = {x} \cup Ancestors(sh, sh.parent[x])
    BY <2>3, <2>4, AncestorsOf
  <2>7. Root(sh, sh.parent[x], r) /\ Root(sh, sh.parent[x], get_parent_root(sh, x))
    BY <2>2, <2>3, <2>4, <2>6 DEF Root
  <2>8. \A q : Root(sh, sh.parent[x], q) => q = get_parent_root(sh, sh.parent[x])
    BY <2>1, <2>5
  <2> QED BY <2>2, <2>7, <2>8
<1>3. \A x \in Windows : \A r : Root(sh, x, r) => r = get_parent_root(sh, x)
  BY <1>2
<1>4. get_parent_root(sh, w) \in Windows
  BY <1>1, AncestorsUp DEF Root
<1>5. ASSUME sh.parent[w] = NULL PROVE get_parent_root(sh, w) = w
  BY <1>1, <1>5, AncestorsOf DEF Root
<1>6. ASSUME sh.parent[w] # NULL
      PROVE  get_parent_root(sh, w) = get_parent_root(sh, sh.parent[w])
  <2>1. sh.parent[w] \in Windows
    BY <1>6 DEF Parents
  <2>2. Root(sh, sh.parent[w], get_parent_root(sh, sh.parent[w]))
    BY <1>1, <2>1
  <2>3. Root(sh, w, get_parent_root(sh, sh.parent[w]))
    BY <1>6, <2>2, AncestorsOf DEF Root
  <2> QED BY <1>3, <2>3
<1> HIDE DEF S
<1> QED BY <1>1, <1>3, <1>4, <1>5, <1>6

\* The roots are the only function that goes up with the parents.
LEMMA RootsUnique ==
  ASSUME NEW sh, sh.parent \in Parents, Grounded(sh), NEW R \in [Windows -> Windows],
         \A x \in Windows :
           /\ sh.parent[x] = NULL => R[x] = x
           /\ sh.parent[x] # NULL => R[x] = R[sh.parent[x]]
  PROVE  \A x \in Windows : get_parent_root(sh, x) = R[x]
<1> DEFINE S == {x \in Windows : get_parent_root(sh, x) # R[x]}
<1> SUFFICES ASSUME S # {} PROVE FALSE
  OBVIOUS
<1>1. PICK x \in S : sh.parent[x] \notin S
  BY DEF Grounded
<1>2. get_parent_root(sh, x) = IF sh.parent[x] = NULL THEN x ELSE get_parent_root(sh, sh.parent[x])
  BY RootOf
<1>3. sh.parent[x] # NULL => sh.parent[x] \in Windows
  BY DEF Parents
<1>a. x \in Windows /\ get_parent_root(sh, x) # R[x]
  OBVIOUS
<1>4. CASE sh.parent[x] = NULL
  BY <1>2, <1>a, <1>4, Zenon
<1>5. CASE sh.parent[x] # NULL
  <2>1. get_parent_root(sh, sh.parent[x]) = R[sh.parent[x]]
    BY <1>1, <1>3, <1>5
  <2>2. R[x] = R[sh.parent[x]]
    BY <1>a, <1>5, Zenon
  <2>3. get_parent_root(sh, x) = R[x]
    BY <1>2, <1>5, <2>1, <2>2, Zenon
  <2> QED BY <2>3
<1> QED BY <1>4, <1>5

\* A window and what is above it have one root.
LEMMA SameRoot ==
  ASSUME NEW sh, sh.parent \in Parents, Grounded(sh), NEW w \in Windows,
         NEW a \in Ancestors(sh, w)
  PROVE  get_parent_root(sh, a) = get_parent_root(sh, w)
<1>1. a \in Windows
  BY AncestorsUp
<1>2. Root(sh, a, get_parent_root(sh, a))
  BY <1>1, RootOf
<1>3. Root(sh, w, get_parent_root(sh, a))
  BY <1>2, AncestorsTransitive DEF Root
<1> QED BY <1>3, RootOf

\* A root has below it the windows whose root it is.
LEMMA BelowRoot ==
  ASSUME NEW sh, sh.parent \in Parents, Grounded(sh), NEW r \in Windows, sh.parent[r] = NULL,
         NEW x \in Windows
  PROVE  is_descendant_of(sh, x, r) <=> get_parent_root(sh, x) = r
<1>1. is_descendant_of(sh, x, r) => get_parent_root(sh, x) = r
  BY RootOf DEF Root, is_descendant_of
<1>2. Root(sh, x, get_parent_root(sh, x))
  BY RootOf
<1> QED BY <1>1, <1>2 DEF Root, is_descendant_of

-----------------------------------------------------------------------------
(* Another parent for one window. *)

\* The parent is gone: the window becomes a root.
LEMMA RootsCut ==
  ASSUME NEW sh, sh.parent \in Parents, Grounded(sh), NEW w \in Windows,
         NEW t, t.parent = [sh.parent EXCEPT ![w] = NULL]
  PROVE  /\ t.parent \in Parents
         /\ Grounded(t)
         /\ \A x \in Windows :
              get_parent_root(t, x) = IF w \in Ancestors(sh, x) THEN w ELSE get_parent_root(sh, x)
<1>1. t.parent \in Parents
  BY DEF Parents
<1>2. \A x \in Windows : t.parent[x] = IF x = w THEN NULL ELSE sh.parent[x]
  BY DEF Parents
<1>3. Grounded(t)
  <2> SUFFICES ASSUME NEW S \in SUBSET Windows, S # {} PROVE \E x \in S : t.parent[x] \notin S
    BY DEF Grounded
  <2>1. PICK x \in S : sh.parent[x] \notin S
    BY DEF Grounded
  <2>2. t.parent[x] = sh.parent[x] \/ t.parent[x] = NULL
    BY <1>2
  <2> QED BY <2>1, <2>2, NullAssumption
<1> DEFINE R == [x \in Windows |-> IF w \in Ancestors(sh, x) THEN w ELSE get_parent_root(sh, x)]
<1>4. R \in [Windows -> Windows]
  BY RootOf
<1>5. ASSUME NEW x \in Windows
      PROVE  R[x] = IF t.parent[x] = NULL THEN x ELSE R[t.parent[x]]
  <2>1. CASE x = w
    BY <1>2, <2>1, AncestorsUp
  <2>2. CASE x # w /\ sh.parent[x] = NULL
    <3>1. w \notin Ancestors(sh, x) /\ get_parent_root(sh, x) = x
      BY <2>2, AncestorsOf, RootOf
    <3> QED BY <1>2, <2>2, <3>1
  <2>3. CASE x # w /\ sh.parent[x] # NULL
    <3>1. sh.parent[x] \in Windows /\ t.parent[x] = sh.parent[x]
      BY <1>2, <2>3 DEF Parents
    <3>2. w \in Ancestors(sh, x) <=> w \in Ancestors(sh, sh.parent[x])
      BY <2>3, AncestorsOf
    <3>3. get_parent_root(sh, x) = get_parent_root(sh, sh.parent[x])
      BY <2>3, RootOf
    <3> QED BY <2>3, <3>1, <3>2, <3>3
  <2> QED BY <2>1, <2>2, <2>3
<1>6. \A x \in Windows : get_parent_root(t, x) = R[x]
  <2> HIDE DEF R
  <2>1. \A x \in Windows :
          /\ t.parent[x] = NULL => R[x] = x
          /\ t.parent[x] # NULL => R[x] = R[t.parent[x]]
    BY <1>5, Zenon
  <2>2. PICK Q : Q = R
    OBVIOUS
  <2>3. \A x \in Windows : get_parent_root(t, x) = Q[x]
    <3>1. Q \in [Windows -> Windows]
      BY <1>4, <2>2
    <3>2. \A x \in Windows :
            /\ t.parent[x] = NULL => Q[x] = x
            /\ t.parent[x] # NULL => Q[x] = Q[t.parent[x]]
      BY <2>1, <2>2, Zenon
    <3> QED BY ONLY <1>1, <1>3, <3>1, <3>2, RootsUnique
  <2> QED BY <2>2, <2>3
<1> QED BY <1>1, <1>3, <1>6

\* Another parent, that is not below the window: all below it get that one's root.
LEMMA RootsJoined ==
  ASSUME NEW sh, sh.parent \in Parents, Grounded(sh), NEW w \in Windows,
         NEW p \in Windows, w \notin Ancestors(sh, p),
         NEW t, t.parent = [sh.parent EXCEPT ![w] = p]
  PROVE  /\ t.parent \in Parents
         /\ Grounded(t)
         /\ \A x \in Windows :
              get_parent_root(t, x) = IF w \in Ancestors(sh, x) THEN get_parent_root(sh, p)
                                      ELSE get_parent_root(sh, x)
<1>0. p # NULL
  BY NullAssumption
<1>1. t.parent \in Parents
  BY DEF Parents
<1>2. \A x \in Windows : t.parent[x] = IF x = w THEN p ELSE sh.parent[x]
  BY DEF Parents
<1>3. Grounded(t)
  <2> SUFFICES ASSUME NEW S \in SUBSET Windows, S # {},
                      \A x \in S : t.parent[x] \in S
               PROVE  FALSE
    BY DEF Grounded
  <2> DEFINE Q == {x \in S : w \notin Ancestors(sh, x)}
  <2>1. Q # {}
    <3>1. PICK y \in S : sh.parent[y] \notin S
      BY DEF Grounded
    <3>2. y = w
      BY <1>2, <3>1
    <3>3. p \in S
      BY <1>2, <3>2
    <3> QED BY <3>3
  <2>2. PICK x \in Q : sh.parent[x] \notin Q
    BY <2>1 DEF Grounded
  <2>3. x # w /\ x \in Windows /\ x \in S
    BY <2>2, AncestorsUp
  <2>4. sh.parent[x] \in S
    BY <1>2, <2>3
  <2>5. sh.parent[x] # NULL
    BY <2>4, NullAssumption
  <2>6. w \in Ancestors(sh, sh.parent[x])
    BY <2>2, <2>4
  <2> QED BY <2>2, <2>3, <2>5, <2>6, AncestorsOf
<1> DEFINE R == [x \in Windows |-> IF w \in Ancestors(sh, x) THEN get_parent_root(sh, p)
                                   ELSE get_parent_root(sh, x)]
<1>4. R \in [Windows -> Windows]
  BY RootOf
<1>5. ASSUME NEW x \in Windows
      PROVE  R[x] = IF t.parent[x] = NULL THEN x ELSE R[t.parent[x]]
  <2>1. CASE x = w
    <3>1. R[x] = get_parent_root(sh, p) /\ R[p] = get_parent_root(sh, p)
      BY <2>1, AncestorsUp
    <3> QED BY <1>0, <1>2, <2>1, <3>1
  <2>2. CASE x # w /\ sh.parent[x] = NULL
    <3>1. w \notin Ancestors(sh, x) /\ get_parent_root(sh, x) = x
      BY <2>2, AncestorsOf, RootOf
    <3> QED BY <1>2, <2>2, <3>1
  <2>3. CASE x # w /\ sh.parent[x] # NULL
    <3>1. sh.parent[x] \in Windows /\ t.parent[x] = sh.parent[x]
      BY <1>2, <2>3 DEF Parents
    <3>2. w \in Ancestors(sh, x) <=> w \in Ancestors(sh, sh.parent[x])
      BY <2>3, AncestorsOf
    <3>3. get_parent_root(sh, x) = get_parent_root(sh, sh.parent[x])
      BY <2>3, RootOf
    <3> QED BY <2>3, <3>1, <3>2, <3>3
  <2> QED BY <2>1, <2>2, <2>3
<1>6. \A x \in Windows : get_parent_root(t, x) = R[x]
  <2> HIDE DEF R
  <2>1. \A x \in Windows :
          /\ t.parent[x] = NULL => R[x] = x
          /\ t.parent[x] # NULL => R[x] = R[t.parent[x]]
    BY <1>5, Zenon
  <2>2. PICK Q : Q = R
    OBVIOUS
  <2>3. \A x \in Windows : get_parent_root(t, x) = Q[x]
    <3>1. Q \in [Windows -> Windows]
      BY <1>4, <2>2
    <3>2. \A x \in Windows :
            /\ t.parent[x] = NULL => Q[x] = x
            /\ t.parent[x] # NULL => Q[x] = Q[t.parent[x]]
      BY <2>1, <2>2, Zenon
    <3> QED BY ONLY <1>1, <1>3, <3>1, <3>2, RootsUnique
  <2> QED BY <2>2, <2>3
<1> QED BY <1>1, <1>3, <1>6

-----------------------------------------------------------------------------
(* What the helpers change. *)

\* t has the trees, the focus and the active tree of sh.
SameTrees(sh, t) ==
  /\ t.parent = sh.parent
  /\ t.parent_destroy_signal = sh.parent_destroy_signal
  /\ t.surface_tree_list = sh.surface_tree_list

SameFocus(sh, t) == t.focused_surface = sh.focused_surface /\ t.focus_count = sh.focus_count

SameLayers(sh, t) == t.normal_layer = sh.normal_layer /\ t.inactive_layer = sh.inactive_layer

SameActive(sh, t) == t.active_surface_tree = sh.active_surface_tree

Layers(sh) == Range(sh.normal_layer) \cup Range(sh.inactive_layer)

\* The fields of a shell.
LEMMA Fields ==
  ASSUME NEW sh \in ShellType
  PROVE  /\ sh.parent \in Parents
         /\ sh.parent_destroy_signal \in [Windows -> Lists]
         /\ sh.surface_tree_list \in [Windows -> Lists]
         /\ sh.active_surface_tree \in Windows \cup {NULL}
         /\ sh.normal_layer \in Lists
         /\ sh.inactive_layer \in Lists
         /\ sh.focused_surface \in Windows \cup {NULL}
         /\ sh.focus_count \in [Windows -> Nat]
BY DEF ShellType, Parents, Lists

LEMMA TreeIsList ==
  ASSUME NEW sh \in ShellType, NEW r \in Windows \cup {NULL}
  PROVE  Tree(sh, r) \in Lists /\ (r = NULL => Tree(sh, r) = <<>>)
BY Fields, ListOps DEF Tree

LEMMA PartIsList ==
  ASSUME NEW sh \in ShellType, NEW r \in Windows \cup {NULL}, NEW w \in Windows
  PROVE  /\ Part(sh, r, w) \in Lists
         /\ Range(Part(sh, r, w)) = {x \in Range(Tree(sh, r)) : w \in Ancestors(sh, x)}
<1>1. Tree(sh, r) \in Lists /\ Range(Tree(sh, r)) \subseteq Windows
  BY TreeIsList, Ranges
<1> QED BY <1>1, KeepType DEF Part, is_descendant_of

LEMMA OutOfLayersEffect ==
  ASSUME NEW sh \in ShellType, NEW S
  PROVE  /\ OutOfLayers(sh, S) \in ShellType
         /\ SameTrees(sh, OutOfLayers(sh, S))
         /\ SameFocus(sh, OutOfLayers(sh, S))
         /\ SameActive(sh, OutOfLayers(sh, S))
         /\ OutOfLayers(sh, S).normal_layer = Without(sh.normal_layer, S)
         /\ OutOfLayers(sh, S).inactive_layer = Without(sh.inactive_layer, S)
<1> DEFINE n == Without(sh.normal_layer, S)
           i == Without(sh.inactive_layer, S)
<1>1. n \in Seq(Windows) /\ i \in Seq(Windows)
  BY Fields, WithoutType DEF Lists
<1>2. OutOfLayers(sh, S) = [sh EXCEPT !.normal_layer = n, !.inactive_layer = i]
  BY DEF OutOfLayers
<1> HIDE DEF n, i
<1>3. OutOfLayers(sh, S) \in ShellType
  BY <1>1, <1>2 DEF ShellType
<1>4. SameTrees(sh, OutOfLayers(sh, S)) /\ SameFocus(sh, OutOfLayers(sh, S))
      /\ SameActive(sh, OutOfLayers(sh, S))
  BY <1>2 DEF ShellType, SameTrees, SameFocus, SameActive
<1>5. OutOfLayers(sh, S).normal_layer = n /\ OutOfLayers(sh, S).inactive_layer = i
  BY <1>2 DEF ShellType
<1> QED BY <1>3, <1>4, <1>5 DEF n, i

LEMMA ToNormalEffect ==
  ASSUME NEW sh \in ShellType, NEW l \in Lists
  PROVE  /\ ToNormal(sh, l) \in ShellType
         /\ SameTrees(sh, ToNormal(sh, l))
         /\ SameFocus(sh, ToNormal(sh, l))
         /\ SameActive(sh, ToNormal(sh, l))
         /\ ToNormal(sh, l).normal_layer = l \o Without(sh.normal_layer, Range(l))
         /\ Layers(ToNormal(sh, l)) = Layers(sh) \cup Range(l)
<1> DEFINE o == OutOfLayers(sh, Range(l))
           n == l \o o.normal_layer
<1>1. /\ o \in ShellType
      /\ SameTrees(sh, o) /\ SameFocus(sh, o) /\ SameActive(sh, o)
      /\ o.normal_layer = Without(sh.normal_layer, Range(l))
      /\ o.inactive_layer = Without(sh.inactive_layer, Range(l))
  BY OutOfLayersEffect
<1>2. n \in Seq(Windows)
  BY <1>1, Fields, ListOps DEF Lists
<1>3. ToNormal(sh, l) = [o EXCEPT !.normal_layer = n]
  BY DEF ToNormal
<1>4. /\ Range(o.normal_layer) = Range(sh.normal_layer) \ Range(l)
      /\ Range(o.inactive_layer) = Range(sh.inactive_layer) \ Range(l)
      /\ Range(n) = Range(l) \cup Range(o.normal_layer)
  BY <1>1, Fields, WithoutType, Ranges
<1> HIDE DEF o, n
<1>5. ToNormal(sh, l) \in ShellType
  BY <1>1, <1>2, <1>3 DEF ShellType
<1>6. SameTrees(sh, ToNormal(sh, l)) /\ SameFocus(sh, ToNormal(sh, l))
      /\ SameActive(sh, ToNormal(sh, l))
  BY <1>1, <1>3 DEF ShellType, SameTrees, SameFocus, SameActive
<1>7. ToNormal(sh, l).normal_layer = n /\ ToNormal(sh, l).inactive_layer = o.inactive_layer
  BY <1>1, <1>3 DEF ShellType
<1>8. Layers(ToNormal(sh, l)) = Layers(sh) \cup Range(l)
  BY <1>4, <1>7 DEF Layers
<1> QED BY <1>1, <1>5, <1>6, <1>7, <1>8 DEF n

LEMMA ToInactiveEffect ==
  ASSUME NEW sh \in ShellType, NEW l \in Lists
  PROVE  /\ ToInactive(sh, l) \in ShellType
         /\ SameTrees(sh, ToInactive(sh, l))
         /\ SameFocus(sh, ToInactive(sh, l))
         /\ SameActive(sh, ToInactive(sh, l))
         /\ ToInactive(sh, l).normal_layer = Without(sh.normal_layer, Range(l))
         /\ Layers(ToInactive(sh, l)) = Layers(sh) \cup Range(l)
<1> DEFINE o == OutOfLayers(sh, Range(l))
           n == l \o o.inactive_layer
<1>1. /\ o \in ShellType
      /\ SameTrees(sh, o) /\ SameFocus(sh, o) /\ SameActive(sh, o)
      /\ o.normal_layer = Without(sh.normal_layer, Range(l))
      /\ o.inactive_layer = Without(sh.inactive_layer, Range(l))
  BY OutOfLayersEffect
<1>2. n \in Seq(Windows)
  BY <1>1, Fields, ListOps DEF Lists
<1>3. ToInactive(sh, l) = [o EXCEPT !.inactive_layer = n]
  BY DEF ToInactive
<1>4. /\ Range(o.normal_layer) = Range(sh.normal_layer) \ Range(l)
      /\ Range(o.inactive_layer) = Range(sh.inactive_layer) \ Range(l)
      /\ Range(n) = Range(l) \cup Range(o.inactive_layer)
  BY <1>1, Fields, WithoutType, Ranges
<1> HIDE DEF o, n
<1>5. ToInactive(sh, l) \in ShellType
  BY <1>1, <1>2, <1>3 DEF ShellType
<1>6. SameTrees(sh, ToInactive(sh, l)) /\ SameFocus(sh, ToInactive(sh, l))
      /\ SameActive(sh, ToInactive(sh, l))
  BY <1>1, <1>3 DEF ShellType, SameTrees, SameFocus, SameActive
<1>7. ToInactive(sh, l).inactive_layer = n /\ ToInactive(sh, l).normal_layer = o.normal_layer
  BY <1>1, <1>3 DEF ShellType
<1>8. Layers(ToInactive(sh, l)) = Layers(sh) \cup Range(l)
  BY <1>4, <1>7 DEF Layers
<1> QED BY <1>1, <1>5, <1>6, <1>7, <1>8

\* The lists of t are those of sh with l moved to the top of the list of r.
Moved(sh, t, r, l) ==
  \A x \in Windows :
    t.surface_tree_list[x] =
      IF x = r THEN l \o Without(sh.surface_tree_list[x], Range(l))
      ELSE Without(sh.surface_tree_list[x], Range(l))

LEMMA MoveToTreeEffect ==
  ASSUME NEW sh \in ShellType, NEW r, NEW l \in Lists,
         NEW t, t = MoveToTree(sh, r, l)
  PROVE  /\ t \in ShellType
         /\ t.parent = sh.parent
         /\ t.parent_destroy_signal = sh.parent_destroy_signal
         /\ SameFocus(sh, t)
         /\ SameLayers(sh, t)
         /\ SameActive(sh, t)
         /\ Moved(sh, t, r, l)
<1> DEFINE n == [x \in Windows |-> IF x = r THEN l \o Without(sh.surface_tree_list[x], Range(l))
                                   ELSE Without(sh.surface_tree_list[x], Range(l))]
<1>1. \A x \in Windows : Without(sh.surface_tree_list[x], Range(l)) \in Lists
  BY Fields, WithoutType
<1>2. n \in [Windows -> Seq(Windows)]
  BY <1>1, ListOps DEF Lists
<1>3. t = [sh EXCEPT !.surface_tree_list = n]
  BY DEF MoveToTree, ShellType
<1>4. \A x \in Windows :
        n[x] = IF x = r THEN l \o Without(sh.surface_tree_list[x], Range(l))
               ELSE Without(sh.surface_tree_list[x], Range(l))
  OBVIOUS
<1> HIDE DEF n
<1>5. t \in ShellType
  BY <1>2, <1>3 DEF ShellType
<1>6. /\ t.parent = sh.parent
      /\ t.parent_destroy_signal = sh.parent_destroy_signal
      /\ SameFocus(sh, t)
      /\ SameLayers(sh, t)
      /\ SameActive(sh, t)
      /\ t.surface_tree_list = n
  BY <1>3 DEF ShellType, SameFocus, SameLayers, SameActive
<1> QED BY <1>4, <1>5, <1>6, Zenon DEF Moved

\* The active tree is hidden and the tree of r is shown.
LEMMA SetActiveEffect ==
  ASSUME NEW sh \in ShellType, NEW r \in Windows \cup {NULL},
         NEW t, t = set_active_surface_tree(sh, r)
  PROVE  /\ t \in ShellType
         /\ SameTrees(sh, t)
         /\ SameFocus(sh, t)
         /\ t.active_surface_tree = r
         /\ t.normal_layer =
              Tree(sh, r) \o Without(Without(sh.normal_layer, Range(Tree(sh, sh.active_surface_tree))),
                                     Range(Tree(sh, r)))
         /\ Layers(t) = Layers(sh) \cup Range(Tree(sh, sh.active_surface_tree))
                        \cup Range(Tree(sh, r))
<1> DEFINE a == Tree(sh, sh.active_surface_tree)
           c == ToInactive(sh, a)
           n == ToNormal(c, Tree(sh, r))
<1>0. a \in Lists /\ Tree(sh, r) \in Lists
  BY Fields, TreeIsList
<1>1. /\ c \in ShellType
      /\ SameTrees(sh, c) /\ SameFocus(sh, c)
      /\ c.normal_layer = Without(sh.normal_layer, Range(a))
      /\ Layers(c) = Layers(sh) \cup Range(a)
  BY <1>0, ToInactiveEffect
<1>2. /\ n \in ShellType
      /\ SameTrees(c, n) /\ SameFocus(c, n)
      /\ n.normal_layer = Tree(sh, r) \o Without(c.normal_layer, Range(Tree(sh, r)))
      /\ Layers(n) = Layers(c) \cup Range(Tree(sh, r))
  BY <1>0, <1>1, ToNormalEffect
<1>3. t = [n EXCEPT !.active_surface_tree = r]
  BY DEF set_active_surface_tree
<1> HIDE DEF n, c, a
<1>4. t \in ShellType /\ t.active_surface_tree = r
  BY <1>2, <1>3 DEF ShellType
<1>5. SameTrees(n, t) /\ SameFocus(n, t) /\ SameLayers(n, t)
  BY <1>2, <1>3 DEF ShellType, SameTrees, SameFocus, SameLayers
<1>6. SameTrees(sh, t) /\ SameFocus(sh, t)
  BY <1>1, <1>2, <1>5 DEF SameTrees, SameFocus
<1>7. Layers(t) = Layers(sh) \cup Range(a) \cup Range(Tree(sh, r))
  BY <1>1, <1>2, <1>5 DEF Layers, SameLayers
<1>8. t.normal_layer = Tree(sh, r) \o Without(Without(sh.normal_layer, Range(a)), Range(Tree(sh, r)))
  BY <1>1, <1>2, <1>5 DEF SameLayers
<1> QED BY <1>4, <1>6, <1>7, <1>8 DEF a

-----------------------------------------------------------------------------
(* The invariants, of a shell sh whose living windows are A. *)

\* Parents and dialogs are alive, and a window hears of the end of its parent.
Family(sh, A) ==
  /\ \A x \in Windows : sh.parent[x] # NULL => x \in A /\ sh.parent[x] \in A
  /\ \A p \in Windows : Distinct(sh.parent_destroy_signal[p])
  /\ \A p, x \in Windows : x \in Range(sh.parent_destroy_signal[p]) <=> sh.parent[x] = p

\* A window is in the list of its root.
Listed(sh, A) ==
  \A r, x \in Windows :
    x \in Range(sh.surface_tree_list[r]) <=> x \in A /\ get_parent_root(sh, x) = r

TreeInv(sh, A) == sh \in ShellType /\ Grounded(sh) /\ Family(sh, A) /\ Listed(sh, A)

\* The window with the focus is alive and counts it.
FocusInv(sh, A) ==
  sh.focused_surface # NULL =>
    sh.focused_surface \in A /\ sh.focus_count[sh.focused_surface] > 0

ShellInv(sh, A) == TreeInv(sh, A) /\ Layers(sh) \subseteq A /\ FocusInv(sh, A)

\* The visible layer is the active tree, with its windows that have contents, M.
Shown(sh, M) ==
  /\ sh.normal_layer = Keep(Tree(sh, sh.active_surface_tree), Range(sh.normal_layer))
  /\ \A x \in Range(Tree(sh, sh.active_surface_tree)) : x \in M => x \in Range(sh.normal_layer)

\* Roots depend on the parents only.
LEMMA RootsSame ==
  ASSUME NEW sh, NEW t, t.parent = sh.parent
  PROVE  /\ \A x : Ancestors(t, x) = Ancestors(sh, x)
         /\ \A x : get_parent_root(t, x) = get_parent_root(sh, x)
         /\ Grounded(sh) => Grounded(t)
<1>1. \A x : Ancestors(t, x) = Ancestors(sh, x)
  BY DEF Ancestors
<1>2. \A x : get_parent_root(t, x) = get_parent_root(sh, x)
  BY <1>1 DEF get_parent_root
<1> QED BY <1>1, <1>2 DEF Grounded

\* The order of the lists does not matter to the trees.
LEMMA TreesKept ==
  ASSUME NEW sh, NEW A, TreeInv(sh, A), NEW t \in ShellType,
         t.parent = sh.parent, t.parent_destroy_signal = sh.parent_destroy_signal,
         \A x \in Windows : Range(t.surface_tree_list[x]) = Range(sh.surface_tree_list[x])
  PROVE  TreeInv(t, A)
<1>1. Grounded(t) /\ Family(t, A)
  BY RootsSame DEF TreeInv, Family
<1>2. Listed(t, A)
  BY RootsSame DEF TreeInv, Listed
<1> QED BY <1>1, <1>2 DEF TreeInv

\* Different roots have no window in common, and all of them are alive.
LEMMA TreesApart ==
  ASSUME NEW sh, NEW A, TreeInv(sh, A)
  PROVE  /\ \A r, q \in Windows : r # q =>
              Range(sh.surface_tree_list[r]) \cap Range(sh.surface_tree_list[q]) = {}
         /\ \A r \in Windows \cup {NULL} : Range(Tree(sh, r)) \subseteq A
<1>1. \A r \in Windows : Range(sh.surface_tree_list[r]) \subseteq Windows
  BY Fields, Ranges DEF TreeInv
<1>2. \A r, q \in Windows : r # q =>
        Range(sh.surface_tree_list[r]) \cap Range(sh.surface_tree_list[q]) = {}
  BY <1>1 DEF TreeInv, Listed
<1>3. ASSUME NEW r \in Windows \cup {NULL} PROVE Range(Tree(sh, r)) \subseteq A
  <2>1. CASE r = NULL
    BY <2>1, Ranges DEF Tree
  <2>2. CASE r # NULL
    BY <1>1, <2>2 DEF Tree, TreeInv, Listed
  <2> QED BY <2>1, <2>2
<1> QED BY <1>2, <1>3

ActivePart(sh, w) == Part(sh, sh.active_surface_tree, w)

\* What is below w in the active tree comes to the top of the visible layer.
OnTop(sh, t, w) ==
  LET l == ActivePart(sh, w)
  IN  t.normal_layer = l \o Without(sh.normal_layer, Range(l))

\* It comes to the top of the list of that tree.
TopOfTree(sh, t, w) ==
  LET a == sh.active_surface_tree
      l == ActivePart(sh, w)
  IN  Tree(t, a) = l \o Without(Tree(sh, a), Range(l))

LEMMA RaiseEffect ==
  ASSUME NEW sh, NEW A, TreeInv(sh, A), NEW w \in Windows,
         NEW t, t = raise_surface_subtree(sh, w)
  PROVE  /\ TreeInv(t, A)
         /\ t.parent = sh.parent
         /\ SameFocus(sh, t)
         /\ SameActive(sh, t)
         /\ OnTop(sh, t, w)
         /\ Layers(t) = Layers(sh) \cup Range(ActivePart(sh, w))
         /\ TopOfTree(sh, t, w)
<1> DEFINE a == sh.active_surface_tree
           l == Part(sh, a, w)
           n == ToNormal(sh, l)
<1>1. sh \in ShellType /\ a \in Windows \cup {NULL}
  BY Fields DEF TreeInv
<1>2. l \in Lists /\ Range(l) \subseteq Range(Tree(sh, a))
  BY <1>1, PartIsList
<1>3. /\ n \in ShellType
      /\ SameTrees(sh, n) /\ SameFocus(sh, n) /\ SameActive(sh, n)
      /\ n.normal_layer = l \o Without(sh.normal_layer, Range(l))
      /\ Layers(n) = Layers(sh) \cup Range(l)
  BY <1>1, <1>2, ToNormalEffect
<1>4. t = MoveToTree(n, a, l)
  BY DEF raise_surface_subtree
<1> HIDE DEF n, l
<1>5. /\ t \in ShellType
      /\ t.parent = n.parent
      /\ t.parent_destroy_signal = n.parent_destroy_signal
      /\ SameFocus(n, t) /\ SameLayers(n, t) /\ SameActive(n, t)
      /\ Moved(n, t, a, l)
  BY <1>2, <1>3, <1>4, MoveToTreeEffect
<1>6. /\ n.parent = sh.parent
      /\ n.parent_destroy_signal = sh.parent_destroy_signal
      /\ n.surface_tree_list = sh.surface_tree_list
  BY <1>3 DEF SameTrees
<1>7. ASSUME NEW x \in Windows
      PROVE  Range(t.surface_tree_list[x]) = Range(sh.surface_tree_list[x])
  <2>0. sh.surface_tree_list[x] \in Lists
    BY <1>1, Fields
  <2>1. /\ Without(sh.surface_tree_list[x], Range(l)) \in Lists
        /\ Range(Without(sh.surface_tree_list[x], Range(l))) = Range(sh.surface_tree_list[x]) \ Range(l)
    BY <2>0, WithoutType
  <2>2. CASE x = a
    <3>1. Range(l) \subseteq Range(sh.surface_tree_list[x])
      BY <1>2, <2>2, NullAssumption DEF Tree
    <3>2. Range(t.surface_tree_list[x]) = Range(l) \cup (Range(sh.surface_tree_list[x]) \ Range(l))
      BY <1>2, <1>5, <1>6, <2>1, <2>2, Ranges DEF Moved
    <3> QED BY <3>1, <3>2
  <2>3. CASE x # a
    <3>1. Range(l) \cap Range(sh.surface_tree_list[x]) = {}
      <4>1. CASE a = NULL
        BY <1>2, <4>1, Ranges DEF Tree
      <4>2. CASE a # NULL
        BY <1>1, <1>2, <2>3, <4>2, TreesApart DEF Tree
      <4> QED BY <4>1, <4>2
    <3>2. Range(t.surface_tree_list[x]) = Range(sh.surface_tree_list[x]) \ Range(l)
      BY <1>5, <1>6, <2>1, <2>3 DEF Moved
    <3> QED BY <3>1, <3>2
  <2> QED BY <2>2, <2>3
<1>8. TreeInv(t, A)
  BY <1>5, <1>6, <1>7, TreesKept
<1>9. Tree(t, a) = l \o Without(Tree(sh, a), Range(l))
  <2>1. CASE a = NULL
    <3>1. l = <<>>
      BY <2>1, KeepEmpty DEF l, Part, Tree
    <3> QED BY <2>1, <3>1, ListOps, WithoutType, Ranges DEF Tree
  <2>2. CASE a # NULL
    BY <1>1, <1>5, <1>6, <2>2 DEF Tree, Moved
  <2> QED BY <2>1, <2>2
<1>10. SameFocus(sh, t) /\ SameActive(sh, t)
  BY <1>3, <1>5 DEF SameFocus, SameActive
<1>11. t.normal_layer = l \o Without(sh.normal_layer, Range(l)) /\ Layers(t) = Layers(sh) \cup Range(l)
  BY <1>3, <1>5 DEF SameLayers, Layers
<1>12. l = ActivePart(sh, w)
  BY DEF l, ActivePart
<1>13. OnTop(sh, t, w)
  BY <1>11, <1>12 DEF OnTop
<1>14. TopOfTree(sh, t, w)
  BY <1>9, <1>12 DEF TopOfTree
<1> QED BY <1>5, <1>6, <1>8, <1>10, <1>11, <1>12, <1>13, <1>14

\* A tree that is made active is what is shown, if nothing but it and the tree that was
\* active is in the visible layer.
LEMMA SetActiveShows ==
  ASSUME NEW sh \in ShellType, NEW r \in Windows \cup {NULL},
         NEW t, t = set_active_surface_tree(sh, r),
         Range(sh.normal_layer) \subseteq
           Range(Tree(sh, sh.active_surface_tree)) \cup Range(Tree(sh, r))
  PROVE  t.normal_layer = Tree(t, r) /\ \A M : Shown(t, M)
<1> DEFINE a == Tree(sh, sh.active_surface_tree)
           n == Without(sh.normal_layer, Range(a))
<1>1. a \in Lists /\ Tree(sh, r) \in Lists /\ sh.normal_layer \in Lists
  BY Fields, TreeIsList
<1>2. n \in Lists /\ Range(n) \subseteq Range(Tree(sh, r))
  BY <1>1, WithoutType
<1>3. Range(n) \cap (Windows \ Range(Tree(sh, r))) = {}
  BY <1>2
<1>4. Without(n, Range(Tree(sh, r))) = <<>>
  <2> HIDE DEF n
  <2> QED BY <1>2, <1>3, KeepNone DEF Without
<1>5. t.normal_layer = Tree(sh, r) \o Without(n, Range(Tree(sh, r)))
  BY SetActiveEffect
<1>6. t.normal_layer = Tree(sh, r)
  BY <1>1, <1>4, <1>5, ListOps
<1>7. Tree(t, r) = Tree(sh, r) /\ t.active_surface_tree = r
  <2>1. t.surface_tree_list = sh.surface_tree_list /\ t.active_surface_tree = r
    BY SetActiveEffect DEF SameTrees
  <2> QED BY <2>1 DEF Tree
<1>8. Keep(Tree(sh, r), Range(Tree(sh, r))) = Tree(sh, r)
  BY <1>1, KeepAll
<1> QED BY <1>6, <1>7, <1>8 DEF Shown

\* What is shown stays in the order of the tree when a part of it is raised, and w is
\* shown too.
LEMMA RaiseShows ==
  ASSUME NEW sh, NEW A, TreeInv(sh, A), NEW w \in Windows,
         NEW t, t = raise_surface_subtree(sh, w), NEW M, Shown(sh, M)
  PROVE  Shown(t, M \cup {w})
<1> DEFINE a == sh.active_surface_tree
           l == Part(sh, a, w)
           N == Range(sh.normal_layer)
           P == Range(l)
           Q == P \cup (N \ P)
<1>0. sh \in ShellType /\ a \in Windows \cup {NULL}
  BY Fields DEF TreeInv
<1>1. /\ Tree(sh, a) \in Lists /\ sh.normal_layer \in Lists
      /\ N \subseteq Windows
  BY <1>0, TreeIsList, Fields, Ranges
<1>2. l \in Lists /\ P = {x \in Range(Tree(sh, a)) : w \in Ancestors(sh, x)}
  BY <1>0, PartIsList
<1>3. /\ t.active_surface_tree = a
      /\ t.normal_layer = l \o Without(sh.normal_layer, P)
      /\ Tree(t, a) = l \o Without(Tree(sh, a), P)
  <2>1. SameActive(sh, t) /\ OnTop(sh, t, w) /\ TopOfTree(sh, t, w)
    BY RaiseEffect
  <2> QED BY <2>1 DEF SameActive, OnTop, TopOfTree, ActivePart
<1>4. sh.normal_layer = Keep(Tree(sh, a), N)
  BY DEF Shown
<1>5. Range(t.normal_layer) = Q
  BY <1>1, <1>2, <1>3, WithoutType, Ranges
<1>6. Without(sh.normal_layer, P) = Keep(Tree(sh, a), N \cap (Windows \ P))
  <2>1. Without(sh.normal_layer, P) = Keep(Keep(Tree(sh, a), N), Windows \ P)
    BY <1>4 DEF Without
  <2> QED BY <1>1, <2>1, KeepKeep
<1>7. Keep(Tree(t, a), Q) = Keep(l, Q) \o Keep(Without(Tree(sh, a), P), Q)
  <2> HIDE DEF Q, P, l
  <2>1. Without(Tree(sh, a), P) \in Lists
    BY <1>1, WithoutType
  <2>2. \A k \in Lists : Keep(l \o k, Q) = Keep(l, Q) \o Keep(k, Q)
    BY <1>2, KeepConcat
  <2> QED BY <1>3, <2>1, <2>2
<1>8. Keep(l, Q) = l
  BY <1>2, KeepAll
<1>9. Keep(Without(Tree(sh, a), P), Q) = Keep(Tree(sh, a), N \cap (Windows \ P))
  <2>1. Keep(Without(Tree(sh, a), P), Q) = Keep(Tree(sh, a), (Windows \ P) \cap Q)
    BY <1>1, KeepKeep DEF Without
  <2>2. (Windows \ P) \cap Q = N \cap (Windows \ P)
    BY <1>1
  <2> QED BY <2>1, <2>2
<1>10. t.normal_layer = Keep(Tree(t, a), Q)
  BY <1>3, <1>6, <1>7, <1>8, <1>9
<1>11. ASSUME NEW x \in Range(Tree(t, a)), x \in M \cup {w} PROVE x \in Q
  <2>1. x \in Range(Tree(sh, a))
    BY <1>1, <1>2, <1>3, WithoutType, Ranges
  <2>2. CASE x = w
    <3>1. w \in Ancestors(sh, x)
      BY <1>0, <2>2, Fields, AncestorsUp
    <3> QED BY <1>2, <2>1, <3>1
  <2>3. CASE x \in M
    BY <2>1, <2>3 DEF Shown
  <2> QED BY <1>11, <2>2, <2>3
<1> HIDE DEF Q, a
<1> QED BY <1>3, <1>5, <1>10, <1>11 DEF Shown

-----------------------------------------------------------------------------
(* What the helpers do to a shell that satisfies ShellInv. *)

LEMMA ShownIsTree ==
  ASSUME NEW sh \in ShellType, NEW M, Shown(sh, M)
  PROVE  Range(sh.normal_layer) \subseteq Range(Tree(sh, sh.active_surface_tree))
<1>1. Tree(sh, sh.active_surface_tree) \in Lists
  BY Fields, TreeIsList
<1> QED BY <1>1, KeepType, Zenon DEF Shown

\* Shown reads only the active tree and the visible layer.
LEMMA ShownSame ==
  ASSUME NEW sh, NEW t, NEW M, Shown(sh, M),
         Tree(t, t.active_surface_tree) = Tree(sh, sh.active_surface_tree),
         t.normal_layer = sh.normal_layer
  PROVE  Shown(t, M)
BY DEF Shown

\* Fewer windows with contents are easier to show.
LEMMA ShownLess ==
  ASSUME NEW sh, NEW M, NEW N, Shown(sh, M),
         \A x \in Range(Tree(sh, sh.active_surface_tree)) : x \in N => x \in M
  PROVE  Shown(sh, N)
BY DEF Shown

LEMMA SetActiveKeeps ==
  ASSUME NEW sh, NEW A, ShellInv(sh, A), NEW r \in Windows \cup {NULL},
         NEW t, t = set_active_surface_tree(sh, r)
  PROVE  /\ ShellInv(t, A)
         /\ SameTrees(sh, t)
         /\ SameFocus(sh, t)
         /\ t.active_surface_tree = r
         /\ Layers(sh) \subseteq Layers(t)
         /\ Range(Tree(sh, r)) \subseteq Layers(t)
<1>1. sh \in ShellType /\ TreeInv(sh, A)
  BY DEF ShellInv, TreeInv
<1>2. /\ t \in ShellType
      /\ SameTrees(sh, t)
      /\ SameFocus(sh, t)
      /\ t.active_surface_tree = r
      /\ Layers(t) = Layers(sh) \cup Range(Tree(sh, sh.active_surface_tree))
                     \cup Range(Tree(sh, r))
  BY <1>1, SetActiveEffect
<1>3. sh.active_surface_tree \in Windows \cup {NULL}
  BY <1>1, Fields
<1>4. Layers(t) \subseteq A
  BY <1>1, <1>2, <1>3, TreesApart DEF ShellInv
<1>5. TreeInv(t, A)
  BY <1>1, <1>2, TreesKept DEF SameTrees
<1>6. FocusInv(t, A)
  BY <1>2 DEF SameFocus, FocusInv, ShellInv
<1> QED BY <1>2, <1>4, <1>5, <1>6 DEF ShellInv

LEMMA SetActiveShown ==
  ASSUME NEW sh, NEW A, ShellInv(sh, A), NEW M, Shown(sh, M), NEW r \in Windows \cup {NULL},
         NEW t, t = set_active_surface_tree(sh, r)
  PROVE  t.normal_layer = Tree(t, r) /\ \A N : Shown(t, N)
<1>1. sh \in ShellType
  BY DEF ShellInv, TreeInv
<1>2. Range(sh.normal_layer) \subseteq Range(Tree(sh, sh.active_surface_tree))
  BY <1>1, ShownIsTree
<1> QED BY <1>1, <1>2, SetActiveShows

LEMMA RaiseKeeps ==
  ASSUME NEW sh, NEW A, ShellInv(sh, A), NEW w \in Windows,
         NEW t, t = raise_surface_subtree(sh, w)
  PROVE  /\ ShellInv(t, A)
         /\ t.parent = sh.parent
         /\ SameFocus(sh, t)
         /\ SameActive(sh, t)
         /\ Layers(sh) \subseteq Layers(t)
<1> DEFINE a == sh.active_surface_tree
<1>1. TreeInv(sh, A) /\ sh \in ShellType /\ a \in Windows \cup {NULL}
  BY Fields DEF ShellInv, TreeInv
<1>2. /\ TreeInv(t, A)
      /\ t.parent = sh.parent
      /\ SameFocus(sh, t)
      /\ SameActive(sh, t)
      /\ Layers(t) = Layers(sh) \cup Range(ActivePart(sh, w))
  BY <1>1, RaiseEffect
<1>3. Range(ActivePart(sh, w)) \subseteq Range(Tree(sh, a)) /\ Range(Tree(sh, a)) \subseteq A
  BY <1>1, PartIsList, TreesApart DEF ActivePart
<1>4. Layers(t) \subseteq A
  BY <1>2, <1>3 DEF ShellInv
<1>5. FocusInv(t, A)
  BY <1>2 DEF SameFocus, FocusInv, ShellInv
<1> QED BY <1>2, <1>4, <1>5 DEF ShellInv

Unfocused(sh) ==
  IF sh.focused_surface = NULL THEN sh
  ELSE [sh EXCEPT !.focus_count[sh.focused_surface] = @ - 1]

Focused(sh, w) == [Unfocused(sh) EXCEPT !.focused_surface = w, !.focus_count[w] = @ + 1]

\* The focus is counted for the window that gets it, and no longer for the one
\* that had it.
LEMMA FocusMoves ==
  ASSUME NEW sh, NEW A \in SUBSET Windows, ShellInv(sh, A), NEW w \in A,
         NEW t, t = Focused(sh, w)
  PROVE  /\ ShellInv(t, A)
         /\ SameTrees(sh, t)
         /\ SameLayers(sh, t)
         /\ SameActive(sh, t)
         /\ t.focused_surface = w
<1> DEFINE old == sh.focused_surface
           u == Unfocused(sh)
<1>1. sh \in ShellType /\ TreeInv(sh, A) /\ FocusInv(sh, A) /\ old \in Windows \cup {NULL}
  BY Fields DEF ShellInv, TreeInv
<1>2. u \in ShellType /\ SameTrees(sh, u) /\ SameLayers(sh, u) /\ SameActive(sh, u)
  <2>1. CASE old = NULL
    BY <1>1, <2>1 DEF SameTrees, SameLayers, SameActive, Unfocused
  <2>2. CASE old # NULL
    <3>1. sh.focus_count \in [Windows -> Nat] /\ old \in Windows /\ sh.focus_count[old] > 0
      BY <1>1, <2>2, Fields DEF FocusInv
    <3>2. sh.focus_count[old] - 1 \in Nat
      BY <3>1
    <3> DEFINE c == [sh.focus_count EXCEPT ![old] = sh.focus_count[old] - 1]
    <3>3. u = [sh EXCEPT !.focus_count = c]
      BY <2>2 DEF Unfocused
    <3>4. c \in [Windows -> Nat]
      BY <3>1, <3>2
    <3> HIDE DEF c
    <3> QED BY <1>1, <3>3, <3>4 DEF ShellType, SameTrees, SameLayers, SameActive
  <2> QED BY <2>1, <2>2
<1>3. /\ t \in ShellType
      /\ SameTrees(u, t) /\ SameLayers(u, t) /\ SameActive(u, t)
      /\ t.focused_surface = w
      /\ t.focus_count[w] > 0
  <2> DEFINE c == [u.focus_count EXCEPT ![w] = u.focus_count[w] + 1]
  <2>1. w \in Windows /\ u.focus_count \in [Windows -> Nat]
    BY <1>2, Fields
  <2>2. c \in [Windows -> Nat] /\ c[w] > 0
    BY <2>1
  <2>3. t = [u EXCEPT !.focused_surface = w, !.focus_count = c]
    BY DEF Focused
  <2> HIDE DEF c
  <2> QED BY <1>2, <2>1, <2>2, <2>3 DEF ShellType, SameTrees, SameLayers, SameActive
<1>4. SameTrees(sh, t) /\ SameLayers(sh, t) /\ SameActive(sh, t)
  BY <1>2, <1>3 DEF SameTrees, SameLayers, SameActive
<1>5. TreeInv(t, A)
  BY <1>1, <1>3, <1>4, TreesKept DEF SameTrees
<1>6. Layers(t) \subseteq A
  BY <1>4 DEF ShellInv, Layers, SameLayers
<1> QED BY <1>3, <1>4, <1>5, <1>6 DEF ShellInv, FocusInv

LEMMA ActivateEffect ==
  ASSUME NEW sh, NEW A \in SUBSET Windows, ShellInv(sh, A), NEW w \in A,
         NEW t, t = surface_activate(sh, w)
  PROVE  /\ ShellInv(t, A)
         /\ t.parent = sh.parent
         /\ t.focused_surface = w
         /\ SameActive(sh, t)
         /\ Layers(sh) \subseteq Layers(t)
         /\ \A M : Shown(sh, M) => Shown(t, M \cup {w})
         /\ OnTop(sh, t, w)
<1> DEFINE a == sh.active_surface_tree
           f == Focused(sh, w)
<1>1. t = raise_surface_subtree(f, w)
  BY DEF surface_activate, Unfocused, Focused
<1> HIDE DEF f
<1>2. /\ ShellInv(f, A)
      /\ SameTrees(sh, f)
      /\ SameLayers(sh, f)
      /\ SameActive(sh, f)
      /\ f.focused_surface = w
  BY FocusMoves DEF f
<1>3. TreeInv(f, A) /\ w \in Windows
  BY <1>2 DEF ShellInv
<1>4. /\ ShellInv(t, A)
      /\ t.parent = f.parent
      /\ SameFocus(f, t)
      /\ SameActive(f, t)
      /\ Layers(f) \subseteq Layers(t)
  BY <1>1, <1>2, <1>3, RaiseKeeps
<1>5. Layers(f) = Layers(sh) /\ f.active_surface_tree = a
  BY <1>2 DEF Layers, SameLayers, SameActive
<1>6. Tree(f, a) = Tree(sh, a) /\ Part(f, a, w) = Part(sh, a, w)
  <2> HIDE DEF a
  <2>1. \A x : Ancestors(f, x) = Ancestors(sh, x)
    BY <1>2, RootsSame DEF SameTrees
  <2>2. Tree(f, a) = Tree(sh, a)
    BY <1>2 DEF Tree, SameTrees
  <2> QED BY <2>1, <2>2 DEF Part, is_descendant_of
<1>7. OnTop(sh, t, w)
  <2>1. OnTop(f, t, w)
    BY <1>1, <1>3, RaiseEffect
  <2>2. ActivePart(f, w) = ActivePart(sh, w)
    BY <1>5, <1>6 DEF ActivePart
  <2>3. f.normal_layer = sh.normal_layer
    BY <1>2 DEF SameLayers
  <2> QED BY <2>1, <2>2, <2>3 DEF OnTop
<1>8. ASSUME NEW M, Shown(sh, M) PROVE Shown(t, M \cup {w})
  <2>1. Shown(f, M)
    BY <1>2, <1>5, <1>6, <1>8, ShownSame DEF SameLayers
  <2> QED BY <1>1, <1>3, <2>1, RaiseShows
<1> QED
  BY <1>2, <1>4, <1>5, <1>6, <1>7, <1>8 DEF SameFocus, SameTrees, SameActive

LEMMA RelinkEffect ==
  ASSUME NEW sh \in ShellType, NEW A \in SUBSET Windows, Family(sh, A),
         NEW w \in A, NEW p \in A \cup {NULL},
         NEW t, t = Relink(sh, w, p)
  PROVE  /\ t \in ShellType
         /\ t.parent = [sh.parent EXCEPT ![w] = p]
         /\ t.surface_tree_list = sh.surface_tree_list
         /\ SameFocus(sh, t)
         /\ SameLayers(sh, t)
         /\ SameActive(sh, t)
         /\ Family(t, A)
<1> DEFINE Old(x) == Without(sh.parent_destroy_signal[x], {w})
           New(x) == Append(Old(x), w)
           d == [x \in Windows |-> IF x = p THEN New(x) ELSE Old(x)]
           q == [sh.parent EXCEPT ![w] = p]
<1>1. /\ sh.parent \in Parents
      /\ \A x \in Windows : sh.parent_destroy_signal[x] \in Lists
      /\ w \in Windows
  BY Fields
<1>2. \A x \in Windows :
        /\ Old(x) \in Lists
        /\ Range(Old(x)) = Range(sh.parent_destroy_signal[x]) \ {w}
        /\ Distinct(Old(x))
  <2>1. ASSUME NEW x \in Windows PROVE Distinct(Old(x))
    BY <1>1, DistinctKeep DEF Family, Without
  <2> QED BY <1>1, <2>1, WithoutType
<1>3. \A x \in Windows :
        /\ New(x) \in Lists
        /\ Range(New(x)) = Range(sh.parent_destroy_signal[x]) \cup {w}
        /\ Distinct(New(x))
  <2> SUFFICES ASSUME NEW x \in Windows
               PROVE  /\ New(x) \in Lists
                      /\ Range(New(x)) = Range(sh.parent_destroy_signal[x]) \cup {w}
                      /\ Distinct(New(x))
    OBVIOUS
  <2>1. Old(x) \in Lists /\ Distinct(Old(x))
        /\ Range(Old(x)) = Range(sh.parent_destroy_signal[x]) \ {w}
    BY <1>2
  <2> HIDE DEF Old
  <2>2. New(x) \in Lists /\ Range(New(x)) = Range(Old(x)) \cup {w}
    BY <1>1, <2>1, ListOps, Ranges
  <2>3. Distinct(New(x))
    BY <1>1, <2>1, DistinctAppend
  <2> QED BY <2>1, <2>2, <2>3
<1>4. t = [sh EXCEPT !.parent = q, !.parent_destroy_signal = d]
  BY DEF Relink
<1> HIDE DEF Old, New
<1>5. /\ d \in [Windows -> Lists]
      /\ \A x \in Windows : d[x] = IF x = p THEN New(x) ELSE Old(x)
  BY <1>2, <1>3
<1>6. q \in Parents /\ \A x \in Windows : q[x] = IF x = w THEN p ELSE sh.parent[x]
  BY <1>1 DEF Parents
<1> HIDE DEF d, q
<1>7. t \in ShellType
  BY <1>4, <1>5, <1>6 DEF ShellType, Lists, Parents
<1>8. /\ t.parent = q
      /\ t.parent_destroy_signal = d
      /\ t.surface_tree_list = sh.surface_tree_list
      /\ SameFocus(sh, t)
      /\ SameLayers(sh, t)
      /\ SameActive(sh, t)
  BY <1>4 DEF ShellType, SameFocus, SameLayers, SameActive
<1>9. Family(t, A)
  <2>1. \A x \in Windows : t.parent[x] # NULL => x \in A /\ t.parent[x] \in A
    BY <1>6, <1>8 DEF Family
  <2>2. \A x \in Windows : Distinct(t.parent_destroy_signal[x])
    BY <1>2, <1>3, <1>5, <1>8
  <2>3. ASSUME NEW x \in Windows, NEW y \in Windows
        PROVE  y \in Range(t.parent_destroy_signal[x]) <=> t.parent[y] = x
    <3>1. y \in Range(sh.parent_destroy_signal[x]) <=> sh.parent[y] = x
      BY DEF Family
    <3>2. CASE x = p
      <4>1. Range(t.parent_destroy_signal[x]) = Range(sh.parent_destroy_signal[x]) \cup {w}
        BY <1>3, <1>5, <1>8, <3>2
      <4> QED BY <1>6, <1>8, <3>1, <3>2, <4>1
    <3>3. CASE x # p
      <4>1. Range(t.parent_destroy_signal[x]) = Range(sh.parent_destroy_signal[x]) \ {w}
        BY <1>2, <1>5, <1>8, <3>3
      <4> QED BY <1>6, <1>8, <3>1, <3>3, <4>1
    <3> QED BY <3>2, <3>3
  <2> QED BY <2>1, <2>2, <2>3 DEF Family
<1> QED BY <1>7, <1>8, <1>9 DEF q

\* Nobody is above its parent.
LEMMA NotAbove ==
  ASSUME NEW sh, sh.parent \in Parents, Grounded(sh), NEW w \in Windows,
         sh.parent[w] # NULL
  PROVE  w \notin Ancestors(sh, sh.parent[w])
<1> DEFINE p == sh.parent[w]
           S == {x \in Ancestors(sh, p) : w \in Ancestors(sh, x)}
<1>1. p \in Windows
  BY DEF Parents
<1> SUFFICES ASSUME w \in Ancestors(sh, p) PROVE FALSE
  OBVIOUS
<1>2. /\ Ancestors(sh, p) \subseteq Windows
      /\ p \in Ancestors(sh, p)
      /\ \A a \in Ancestors(sh, p) : sh.parent[a] \in Ancestors(sh, p) \cup {NULL}
  BY <1>1, AncestorsUp
<1>3. p \in S /\ S \in SUBSET Windows
  BY <1>2
<1>4. PICK x \in S : sh.parent[x] \notin S
  BY <1>3 DEF Grounded
<1>5. x \in Windows /\ w \in Ancestors(sh, x)
  BY <1>3, <1>4
<1>6. CASE x = w
  BY <1>3, <1>4, <1>6
<1>7. CASE x # w
  <2>1. sh.parent[x] # NULL /\ w \in Ancestors(sh, sh.parent[x])
    BY <1>5, <1>7, AncestorsOf
  <2>2. sh.parent[x] \in Ancestors(sh, p)
    BY <1>2, <1>4, <2>1
  <2> QED BY <1>4, <2>1, <2>2
<1> QED BY <1>6, <1>7

LEMMA FamilySame ==
  ASSUME NEW sh, NEW A, Family(sh, A), NEW t, t.parent = sh.parent,
         t.parent_destroy_signal = sh.parent_destroy_signal
  PROVE  Family(t, A)
BY DEF Family

\* ShellInv after a step that only touches the trees.
LEMMA TreesOnly ==
  ASSUME NEW sh, NEW A, ShellInv(sh, A), NEW t, TreeInv(t, A), SameFocus(sh, t),
         SameLayers(sh, t)
  PROVE  ShellInv(t, A) /\ Layers(t) = Layers(sh)
BY DEF ShellInv, FocusInv, Layers, SameFocus, SameLayers

\* A window gets a parent in its own tree.
LEMMA JoinSame ==
  ASSUME NEW sh, NEW A \in SUBSET Windows, ShellInv(sh, A), NEW w \in A, NEW p \in A,
         w \notin Ancestors(sh, p), get_parent_root(sh, w) = get_parent_root(sh, p),
         NEW t, t = Relink(sh, w, p)
  PROVE  /\ ShellInv(t, A)
         /\ t.parent = [sh.parent EXCEPT ![w] = p]
         /\ Layers(t) = Layers(sh)
         /\ SameFocus(sh, t)
         /\ SameActive(sh, t)
         /\ \A M : Shown(sh, M) => Shown(t, M)
<1>1. /\ sh \in ShellType /\ Grounded(sh) /\ Family(sh, A) /\ Listed(sh, A)
      /\ sh.parent \in Parents /\ w \in Windows /\ p \in Windows
  BY Fields DEF ShellInv, TreeInv
<1>2. /\ t \in ShellType
      /\ t.parent = [sh.parent EXCEPT ![w] = p]
      /\ t.surface_tree_list = sh.surface_tree_list
      /\ SameFocus(sh, t)
      /\ SameLayers(sh, t)
      /\ SameActive(sh, t)
      /\ Family(t, A)
  BY <1>1, RelinkEffect
<1>3. /\ Grounded(t)
      /\ \A x \in Windows :
           get_parent_root(t, x) = IF w \in Ancestors(sh, x) THEN get_parent_root(sh, p)
                                   ELSE get_parent_root(sh, x)
  BY <1>1, <1>2, RootsJoined
<1>4. \A x \in Windows : get_parent_root(t, x) = get_parent_root(sh, x)
  BY <1>1, <1>3, SameRoot
<1>5. Listed(t, A)
  BY <1>1, <1>2, <1>4 DEF Listed
<1>6. ShellInv(t, A) /\ Layers(t) = Layers(sh)
  BY <1>2, <1>3, <1>5, TreesOnly DEF TreeInv
<1>7. ASSUME NEW M, Shown(sh, M) PROVE Shown(t, M)
  BY <1>2, <1>7, ShownSame DEF SameLayers, SameActive, Tree
<1> QED BY <1>2, <1>6, <1>7

\* The lists after l was moved to the one of r.
LEMMA MovedLists ==
  ASSUME NEW sh \in ShellType, NEW r \in Windows, NEW l \in Lists, NEW t, Moved(sh, t, r, l)
  PROVE  /\ t.surface_tree_list[r] = l \o Without(sh.surface_tree_list[r], Range(l))
         /\ Range(t.surface_tree_list[r]) = Range(sh.surface_tree_list[r]) \cup Range(l)
         /\ \A x \in Windows \ {r} :
              /\ t.surface_tree_list[x] = Without(sh.surface_tree_list[x], Range(l))
              /\ Range(t.surface_tree_list[x]) = Range(sh.surface_tree_list[x]) \ Range(l)
<1> DEFINE V == Without(sh.surface_tree_list[r], Range(l))
<1>1. \A x \in Windows :
        /\ Without(sh.surface_tree_list[x], Range(l)) \in Lists
        /\ Range(Without(sh.surface_tree_list[x], Range(l))) =
             Range(sh.surface_tree_list[x]) \ Range(l)
  BY Fields, WithoutType
<1>2. t.surface_tree_list[r] = l \o V
  BY DEF Moved
<1>3. V \in Lists /\ Range(V) = Range(sh.surface_tree_list[r]) \ Range(l)
  BY <1>1
<1> HIDE DEF V
<1>4. Range(l \o V) = Range(l) \cup Range(V)
  BY <1>3, Ranges
<1>5. Range(t.surface_tree_list[r]) = Range(sh.surface_tree_list[r]) \cup Range(l)
  BY <1>2, <1>3, <1>4
<1>6. \A x \in Windows \ {r} :
        t.surface_tree_list[x] = Without(sh.surface_tree_list[x], Range(l))
  BY DEF Moved
<1> QED BY <1>1, <1>2, <1>5, <1>6 DEF V

One(w) == <<w>>

\* A window without dialogs gets a parent in another tree, and goes there.
LEMMA JoinOther ==
  ASSUME NEW sh, NEW A \in SUBSET Windows, ShellInv(sh, A), NEW w \in A, NEW p \in A,
         w \notin Ancestors(sh, p), get_parent_root(sh, w) # get_parent_root(sh, p),
         \A x \in Windows : sh.parent[x] # w,
         NEW r, r = get_parent_root(sh, p), NEW l, l = One(w),
         NEW t, t = MoveToTree(Relink(sh, w, p), r, l)
  PROVE  /\ ShellInv(t, A)
         /\ t.parent = [sh.parent EXCEPT ![w] = p]
         /\ Layers(t) = Layers(sh)
         /\ SameFocus(sh, t)
         /\ SameActive(sh, t)
         /\ \A M : Shown(sh, M) /\ w \notin M /\ w \notin Range(sh.normal_layer) => Shown(t, M)
<1> DEFINE u == Relink(sh, w, p)
<1>1. /\ sh \in ShellType /\ Grounded(sh) /\ Family(sh, A) /\ Listed(sh, A)
      /\ sh.parent \in Parents /\ w \in Windows /\ p \in Windows
      /\ \A x \in Windows : sh.surface_tree_list[x] \in Lists
  BY Fields DEF ShellInv, TreeInv
<1>2. /\ u \in ShellType
      /\ u.parent = [sh.parent EXCEPT ![w] = p]
      /\ u.surface_tree_list = sh.surface_tree_list
      /\ SameFocus(sh, u)
      /\ SameLayers(sh, u)
      /\ SameActive(sh, u)
      /\ Family(u, A)
  BY <1>1, RelinkEffect
<1>3. l \in Lists /\ Range(l) = {w} /\ r \in Windows
  BY <1>1, ListOps, Ranges, RootOf DEF One
<1>4. t = MoveToTree(u, r, l)
  OBVIOUS
<1> HIDE DEF u
<1>5. /\ t \in ShellType
      /\ t.parent = u.parent
      /\ t.parent_destroy_signal = u.parent_destroy_signal
      /\ SameFocus(u, t)
      /\ SameLayers(u, t)
      /\ SameActive(u, t)
      /\ Moved(u, t, r, l)
  BY <1>2, <1>3, <1>4, MoveToTreeEffect
<1>6. Moved(sh, t, r, l)
  BY <1>2, <1>5 DEF Moved
<1>7. /\ t.surface_tree_list[r] = l \o Without(sh.surface_tree_list[r], {w})
       /\ Range(t.surface_tree_list[r]) = Range(sh.surface_tree_list[r]) \cup {w}
       /\ \A x \in Windows \ {r} :
            /\ t.surface_tree_list[x] = Without(sh.surface_tree_list[x], {w})
            /\ Range(t.surface_tree_list[x]) = Range(sh.surface_tree_list[x]) \ {w}
  <2>1. sh \in ShellType /\ r \in Windows /\ l \in Lists
    BY <1>1, <1>3
  <2>2. /\ t.surface_tree_list[r] = l \o Without(sh.surface_tree_list[r], Range(l))
        /\ Range(t.surface_tree_list[r]) = Range(sh.surface_tree_list[r]) \cup Range(l)
        /\ \A x \in Windows \ {r} :
             /\ t.surface_tree_list[x] = Without(sh.surface_tree_list[x], Range(l))
             /\ Range(t.surface_tree_list[x]) = Range(sh.surface_tree_list[x]) \ Range(l)
    BY ONLY <2>1, <1>6, MovedLists
  <2> QED BY ONLY <1>3, <2>2
<1>8. SameFocus(sh, t) /\ SameLayers(sh, t) /\ SameActive(sh, t)
  BY <1>2, <1>5 DEF SameFocus, SameLayers, SameActive
<1>9. Family(t, A)
  BY <1>2, <1>5, FamilySame
<1>10. /\ Grounded(t)
      /\ \A x \in Windows : get_parent_root(t, x) = IF x = w THEN r ELSE get_parent_root(sh, x)
  <2>1. /\ Grounded(t)
        /\ \A x \in Windows :
             get_parent_root(t, x) = IF w \in Ancestors(sh, x) THEN get_parent_root(sh, p)
                                     ELSE get_parent_root(sh, x)
    BY <1>1, <1>2, <1>5, RootsJoined
  <2>2. \A x \in Windows : w \in Ancestors(sh, x) <=> x = w
    BY <1>1, ChildlessIsLow
  <2> QED BY <2>1, <2>2
<1>11. ASSUME NEW x \in Windows
      PROVE  /\ Without(sh.surface_tree_list[x], {w}) \in Lists
             /\ Range(Without(sh.surface_tree_list[x], {w})) = Range(sh.surface_tree_list[x]) \ {w}
  BY <1>1, WithoutType
<1>12. Listed(t, A)
  <2> SUFFICES ASSUME NEW q \in Windows, NEW x \in Windows
               PROVE  x \in Range(t.surface_tree_list[q]) <=> x \in A /\ get_parent_root(t, x) = q
    BY DEF Listed
  <2>1. x \in Range(sh.surface_tree_list[q]) <=> x \in A /\ get_parent_root(sh, x) = q
    BY <1>1 DEF Listed
  <2>2. CASE q = r
    <3>1. Range(t.surface_tree_list[q]) = Range(sh.surface_tree_list[q]) \cup {w}
      BY <1>7, <2>2
    <3> QED BY <1>10, <2>1, <2>2, <3>1
  <2>3. CASE q # r
    <3>1. Range(t.surface_tree_list[q]) = Range(sh.surface_tree_list[q]) \ {w}
      BY <1>7, <2>3
    <3> QED BY <1>10, <2>1, <2>3, <3>1
  <2> QED BY <2>2, <2>3
<1>13. ShellInv(t, A) /\ Layers(t) = Layers(sh)
  BY <1>5, <1>8, <1>9, <1>10, <1>12, TreesOnly DEF TreeInv
<1>14. ASSUME NEW M, Shown(sh, M), w \notin M, w \notin Range(sh.normal_layer)
       PROVE  Shown(t, M)
  <2> DEFINE a == sh.active_surface_tree
             T == sh.surface_tree_list[a]
             N == Range(sh.normal_layer)
             V == Without(T, {w})
  <2>1. a \in Windows \cup {NULL} /\ t.active_surface_tree = a /\ t.normal_layer = sh.normal_layer
    BY <1>1, <1>8, Fields DEF SameActive, SameLayers
  <2>2. CASE a = NULL
    BY <1>14, <2>1, <2>2, ShownSame DEF Tree
  <2>3. CASE a # NULL
    <3>1. /\ a \in Windows
          /\ Tree(sh, a) = T
          /\ Tree(t, a) = t.surface_tree_list[a]
          /\ T \in Lists /\ V \in Lists /\ Range(V) = Range(T) \ {w}
      BY <1>1, <1>11, <2>1, <2>3 DEF Tree
    <3>2. sh.normal_layer = Keep(T, N) /\ \A x \in Range(T) : x \in M => x \in N
      BY <1>14, <3>1 DEF Shown
    <3>3. Keep(V, N) = Keep(T, N)
      <4>1. V = Keep(T, Windows \ {w})
        BY DEF Without
      <4>2. Keep(V, N) = Keep(T, (Windows \ {w}) \cap N)
        BY <3>1, <4>1, KeepKeep
      <4>3. Range(T) \cap ((Windows \ {w}) \cap N) = Range(T) \cap N
        BY <1>14, <3>1, Ranges
      <4> QED BY <3>1, <4>2, <4>3, KeepSame
    <3>4. CASE a = r
      <4>1. Tree(t, a) = l \o V
        BY <1>7, <3>1, <3>4
      <4>2. Keep(l, N) = <<>> /\ Keep(V, N) \in Lists
        BY <1>3, <1>14, <3>1, KeepNone, KeepType
      <4>3. Keep(l \o V, N) = Keep(V, N)
        <5> HIDE DEF V, N
        <5>1. l \in Lists /\ V \in Lists
          BY <1>3, <3>1
        <5>2. Keep(l \o V, N) = Keep(l, N) \o Keep(V, N)
          BY ONLY <5>1, KeepConcat
        <5>3. <<>> \o Keep(V, N) = Keep(V, N)
          BY <4>2, ListOps
        <5> QED BY ONLY <4>2, <5>2, <5>3
      <4>4. Range(l \o V) = {w} \cup Range(V)
        BY <1>3, <3>1, Ranges
      <4>5. \A x \in Range(l \o V) : x \in M => x \in N
        BY <1>14, <3>1, <3>2, <4>4
      <4> QED BY <2>1, <3>2, <3>3, <4>1, <4>3, <4>5 DEF Shown
    <3>5. CASE a # r
      <4>1. Tree(t, a) = V
        BY <1>7, <3>1, <3>5
      <4> QED BY <2>1, <3>1, <3>2, <3>3, <4>1 DEF Shown
    <3> QED BY <3>4, <3>5
  <2> QED BY <2>2, <2>3
<1> QED BY <1>2, <1>5, <1>8, <1>13, <1>14

\* A window leaves its parent: it takes its part of the tree along and is shown.
LEMMA CutParent ==
  ASSUME NEW sh, NEW A \in SUBSET Windows, ShellInv(sh, A), NEW w \in A, sh.parent[w] # NULL,
         NEW r, r = get_parent_root(sh, w), NEW u, u = Relink(sh, w, NULL),
         NEW l, l = Part(u, r, w), NEW v, v = MoveToTree(u, w, l),
         NEW t, t = set_active_surface_tree(v, w)
  PROVE  /\ ShellInv(t, A)
         /\ t.parent = [sh.parent EXCEPT ![w] = NULL]
         /\ Layers(sh) \subseteq Layers(t)
         /\ SameFocus(sh, t)
         /\ t.active_surface_tree = w
         /\ \A M : Shown(sh, M) => Shown(t, M)
<1>1. /\ sh \in ShellType /\ Grounded(sh) /\ Family(sh, A) /\ Listed(sh, A)
      /\ sh.parent \in Parents /\ w \in Windows
  BY Fields DEF ShellInv, TreeInv
<1>2. /\ u \in ShellType
      /\ u.parent = [sh.parent EXCEPT ![w] = NULL]
      /\ u.surface_tree_list = sh.surface_tree_list
      /\ SameFocus(sh, u)
      /\ SameLayers(sh, u)
      /\ SameActive(sh, u)
      /\ Family(u, A)
  BY <1>1, RelinkEffect
<1>3. /\ r \in Windows
      /\ \A x \in Windows : get_parent_root(sh, x) \in Windows
      /\ \A x \in Windows : get_parent_root(sh, x) # w
  BY <1>1, RootOf DEF Root
<1>4. /\ u.parent \in Parents
      /\ Grounded(u)
      /\ \A x \in Windows :
           get_parent_root(u, x) = IF w \in Ancestors(sh, x) THEN w ELSE get_parent_root(sh, x)
  BY <1>1, <1>2, RootsCut
<1>5. u.parent[w] = NULL
  BY <1>1, <1>2 DEF Parents
<1>6. \A x \in Windows : w \in Ancestors(u, x) <=> get_parent_root(u, x) = w
  BY <1>1, <1>4, <1>5, BelowRoot DEF is_descendant_of
<1>7. \A x \in Windows : get_parent_root(u, x) = w => get_parent_root(sh, x) = r
  BY <1>1, <1>3, <1>4, SameRoot
<1>8. /\ l \in Lists
      /\ \A x \in Windows : x \in Range(l) <=> x \in A /\ get_parent_root(u, x) = w
  <2>1. r \in Windows \cup {NULL} /\ Tree(u, r) = sh.surface_tree_list[r]
    BY <1>2, <1>3, NullAssumption DEF Tree
  <2>2. l \in Lists /\ Range(l) = {x \in Range(Tree(u, r)) : w \in Ancestors(u, x)}
    BY <1>1, <1>2, <2>1, PartIsList
  <2>3. \A x \in Windows : x \in Range(Tree(u, r)) <=> x \in A /\ get_parent_root(sh, x) = r
    BY <1>1, <1>3, <2>1 DEF Listed
  <2> QED BY <1>6, <1>7, <2>2, <2>3
<1>9. /\ v \in ShellType
      /\ v.parent = u.parent
      /\ v.parent_destroy_signal = u.parent_destroy_signal
      /\ SameFocus(u, v)
      /\ SameLayers(u, v)
      /\ SameActive(u, v)
      /\ Moved(u, v, w, l)
  BY <1>2, <1>8, MoveToTreeEffect
<1>10. SameFocus(sh, v) /\ SameLayers(sh, v) /\ SameActive(sh, v)
  BY <1>2, <1>9 DEF SameFocus, SameLayers, SameActive
<1>11. /\ Range(v.surface_tree_list[w]) = Range(sh.surface_tree_list[w]) \cup Range(l)
       /\ \A x \in Windows \ {w} :
            Range(v.surface_tree_list[x]) = Range(sh.surface_tree_list[x]) \ Range(l)
  <2>1. u \in ShellType /\ w \in Windows /\ l \in Lists /\ Moved(u, v, w, l)
    BY <1>1, <1>2, <1>8, <1>9
  <2>2. /\ Range(v.surface_tree_list[w]) = Range(u.surface_tree_list[w]) \cup Range(l)
        /\ \A x \in Windows \ {w} :
             Range(v.surface_tree_list[x]) = Range(u.surface_tree_list[x]) \ Range(l)
    BY ONLY <2>1, MovedLists
  <2> QED BY ONLY <1>2, <2>2
<1>12. \A x : get_parent_root(v, x) = get_parent_root(u, x)
  BY <1>9, RootsSame
<1>13. Listed(v, A)
  <2> SUFFICES ASSUME NEW q \in Windows, NEW x \in Windows
               PROVE  x \in Range(v.surface_tree_list[q]) <=> x \in A /\ get_parent_root(u, x) = q
    BY <1>12 DEF Listed
  <2>1. x \in Range(sh.surface_tree_list[q]) <=> x \in A /\ get_parent_root(sh, x) = q
    BY <1>1 DEF Listed
  <2>2. x \in Range(l) <=> x \in A /\ get_parent_root(u, x) = w
    BY <1>8
  <2>3. CASE q = w
    BY <1>3, <1>11, <2>1, <2>2, <2>3
  <2>4. CASE q # w
    <3>1. x \in Range(v.surface_tree_list[q]) <=>
            x \in Range(sh.surface_tree_list[q]) /\ x \notin Range(l)
      BY <1>11, <2>4
    <3>2. get_parent_root(u, x) = w \/ get_parent_root(u, x) = get_parent_root(sh, x)
      BY <1>4
    <3> QED BY <2>1, <2>2, <2>4, <3>1, <3>2
  <2> QED BY <2>3, <2>4
<1>14. Grounded(v) /\ Family(v, A)
  BY <1>2, <1>4, <1>9, RootsSame, FamilySame
<1>15. ShellInv(v, A) /\ Layers(v) = Layers(sh)
  BY <1>9, <1>10, <1>13, <1>14, TreesOnly DEF TreeInv
<1>16. /\ ShellInv(t, A)
       /\ SameTrees(v, t)
       /\ SameFocus(v, t)
       /\ t.active_surface_tree = w
       /\ Layers(v) \subseteq Layers(t)
  BY <1>1, <1>15, SetActiveKeeps
<1>17. ASSUME NEW M, Shown(sh, M) PROVE Shown(t, M)
  <2> DEFINE a == sh.active_surface_tree
  <2>1. a \in Windows \cup {NULL} /\ v.active_surface_tree = a /\ v.normal_layer = sh.normal_layer
    BY <1>1, <1>10, Fields DEF SameActive, SameLayers
  <2>2. Range(sh.normal_layer) \subseteq Range(Tree(sh, a))
    BY <1>1, <1>17, ShownIsTree
  <2>3. Range(v.normal_layer) \subseteq Range(Tree(v, a)) \cup Range(Tree(v, w))
    <3>1. CASE a = NULL
      BY <2>1, <2>2, <3>1 DEF Tree
    <3>2. CASE a # NULL
      <4>1. /\ a \in Windows /\ w # NULL
            /\ Tree(sh, a) = sh.surface_tree_list[a]
            /\ Tree(v, a) = v.surface_tree_list[a]
            /\ Tree(v, w) = v.surface_tree_list[w]
        BY <1>1, <2>1, <3>2, NullAssumption DEF Tree
      <4> QED BY <1>11, <2>1, <2>2, <4>1
    <3> QED BY <3>1, <3>2
  <2> QED BY <1>1, <1>9, <2>1, <2>3, SetActiveShows
<1> QED BY <1>2, <1>9, <1>10, <1>15, <1>16, <1>17 DEF SameTrees, SameFocus

\* set_parent: the window is alive, and one that changes its tree has no dialogs.
LEMMA SetParentEffect ==
  ASSUME NEW sh, NEW A \in SUBSET Windows, ShellInv(sh, A), NEW w \in A, NEW p \in A \cup {NULL},
         p # NULL => /\ w \notin Ancestors(sh, p)
                     /\ \/ \A x \in Windows : sh.parent[x] # w
                        \/ get_parent_root(sh, w) = get_parent_root(sh, p),
         NEW t, t = set_parent(sh, w, p)
  PROVE  /\ ShellInv(t, A)
         /\ t.parent = [sh.parent EXCEPT ![w] = p]
         /\ Layers(sh) \subseteq Layers(t)
         /\ SameFocus(sh, t)
         /\ t.active_surface_tree \in {sh.active_surface_tree, w}
         /\ \A M : /\ Shown(sh, M)
                   /\ \/ p = NULL
                      \/ get_parent_root(sh, w) = get_parent_root(sh, p)
                      \/ w \notin M /\ w \notin Range(sh.normal_layer)
                   => Shown(t, M)
<1>1. /\ sh \in ShellType /\ Grounded(sh) /\ Listed(sh, A)
      /\ sh.parent \in Parents /\ w \in Windows
  BY Fields DEF ShellInv, TreeInv
<1>2. CASE p = NULL
  <2> DEFINE r == get_parent_root(sh, w)
             u == Relink(sh, w, NULL)
             l == Part(u, r, w)
             v == MoveToTree(u, w, l)
  <2>1. t = IF w = r THEN sh ELSE set_active_surface_tree(v, w)
    BY <1>2 DEF set_parent
  <2>2. w = r <=> sh.parent[w] = NULL
    BY <1>1, RootOf DEF Root
  <2> HIDE DEF r, u, l, v
  <2>3. CASE w = r
    <3>1. [sh.parent EXCEPT ![w] = p] = sh.parent
      BY <1>1, <1>2, <2>2, <2>3 DEF Parents
    <3> QED BY <1>2, <2>1, <2>3, <3>1 DEF SameFocus
  <2>4. CASE w # r
    <3>1. t = set_active_surface_tree(v, w) /\ sh.parent[w] # NULL
      BY <2>1, <2>2, <2>4
    <3>2. /\ ShellInv(t, A)
          /\ t.parent = [sh.parent EXCEPT ![w] = NULL]
          /\ Layers(sh) \subseteq Layers(t)
          /\ SameFocus(sh, t)
          /\ t.active_surface_tree = w
          /\ \A M : Shown(sh, M) => Shown(t, M)
      BY <3>1, CutParent DEF r, u, l, v
    <3> QED BY <1>2, <3>2
  <2> QED BY <2>3, <2>4
<1>3. CASE p # NULL
  <2> DEFINE r == get_parent_root(sh, p)
             u == Relink(sh, w, p)
             l == One(w)
  <2>1. p \in A /\ p \in Windows /\ r \in Windows
    BY <1>1, <1>3, RootOf
  <2>2. t = IF w \in Range(sh.surface_tree_list[r]) THEN u ELSE MoveToTree(u, r, l)
    BY <1>3 DEF set_parent, One
  <2>3. w \in Range(sh.surface_tree_list[r]) <=> get_parent_root(sh, w) = r
    BY <1>1, <2>1 DEF Listed
  <2> HIDE DEF r, u, l
  <2>4. CASE get_parent_root(sh, w) = r
    <3>1. t = u
      BY <2>2, <2>3, <2>4
    <3>2. /\ ShellInv(t, A)
          /\ t.parent = [sh.parent EXCEPT ![w] = p]
          /\ Layers(t) = Layers(sh)
          /\ SameFocus(sh, t)
          /\ SameActive(sh, t)
          /\ \A M : Shown(sh, M) => Shown(t, M)
      BY <1>3, <2>1, <2>4, <3>1, JoinSame DEF r, u
    <3> QED BY <3>2 DEF SameActive
  <2>5. CASE get_parent_root(sh, w) # r
    <3>1. t = MoveToTree(u, r, l) /\ get_parent_root(sh, w) # get_parent_root(sh, p)
      BY <2>2, <2>3, <2>5 DEF r
    <3>2. /\ ShellInv(t, A)
          /\ t.parent = [sh.parent EXCEPT ![w] = p]
          /\ Layers(t) = Layers(sh)
          /\ SameFocus(sh, t)
          /\ SameActive(sh, t)
          /\ \A M : Shown(sh, M) /\ w \notin M /\ w \notin Range(sh.normal_layer) => Shown(t, M)
      BY <1>3, <2>1, <3>1, JoinOther DEF r, u, l
    <3> QED BY <1>3, <3>1, <3>2 DEF SameActive
  <2> QED BY <2>4, <2>5
<1> QED BY <1>2, <1>3

-----------------------------------------------------------------------------
(* The children of a window that goes are told one after the other. *)

Tell(s, c, i) == notify_parent_destroy(s, c[i])

ToldUpTo(sh, c, n, f) == f = [i \in 0..n |-> IF i = 0 THEN sh ELSE Tell(f[i - 1], c, i)]

Told(sh, c) == CHOOSE f : ToldUpTo(sh, c, Len(c), f)

ToldSteps(sh, c, n, f) == f[0] = sh /\ \A i \in 1..n : f[i] = Tell(f[i - 1], c, i)

LEMMA ToldAt ==
  ASSUME NEW sh, NEW c, NEW n \in Nat, NEW f, ToldUpTo(sh, c, n, f)
  PROVE  ToldSteps(sh, c, n, f)
<1> PICK g : g = f
  OBVIOUS
<1>1. f = [i \in 0..n |-> IF i = 0 THEN sh ELSE Tell(g[i - 1], c, i)]
  BY Zenon DEF ToldUpTo
<1>2. f[0] = sh
  BY <1>1
<1>3. ASSUME NEW i \in 1..n PROVE f[i] = Tell(g[i - 1], c, i)
  BY <1>1
<1> QED BY <1>2, <1>3, Zenon DEF ToldSteps

LEMMA ToldExists ==
  ASSUME NEW sh, NEW c, NEW n \in Nat
  PROVE  \E f : ToldUpTo(sh, c, n, f)
<1> DEFINE N == {m \in Nat : \E f : ToldUpTo(sh, c, m, f)}
<1>1. 0 \in N
  <2>1. ToldUpTo(sh, c, 0, [i \in 0..0 |-> sh])
    BY DEF ToldUpTo
  <2> QED BY <2>1
<1>2. ASSUME NEW m \in Nat, m \in N PROVE m + 1 \in N
  <2>1. PICK f : ToldUpTo(sh, c, m, f)
    BY <1>2
  <2>2. f[0] = sh /\ \A i \in 1..m : f[i] = Tell(f[i - 1], c, i)
    <3>1. ToldSteps(sh, c, m, f)
      BY <2>1, ToldAt
    <3> QED BY <3>1 DEF ToldSteps
  <2> DEFINE g == [i \in 0..(m + 1) |-> IF i <= m THEN f[i] ELSE Tell(f[m], c, m + 1)]
  <2>3. \A i \in 0..(m + 1) : g[i] = IF i = 0 THEN sh ELSE Tell(g[i - 1], c, i)
    BY <2>2
  <2>4. ToldUpTo(sh, c, m + 1, g)
    BY <2>3 DEF ToldUpTo
  <2> QED BY <2>4
<1>3. \A m \in Nat : m \in N
  <2> HIDE DEF N
  <2> QED BY <1>1, <1>2, NatSteps
<1> QED BY <1>3

LEMMA ToldDef ==
  ASSUME NEW sh \in ShellType, NEW w \in Windows, NEW c, c = sh.parent_destroy_signal[w]
  PROVE  /\ emit_parent_destroy(sh, w) = Told(sh, c)[Len(c)]
         /\ Len(c) \in Nat
         /\ Told(sh, c)[0] = sh
         /\ \A i \in 1..Len(c) : Told(sh, c)[i] = Tell(Told(sh, c)[i - 1], c, i)
<1>1. emit_parent_destroy(sh, w) = Told(sh, c)[Len(c)]
  BY DEF emit_parent_destroy, Told, ToldUpTo, Tell
<1>2. Len(c) \in Nat
  <2>1. c \in Seq(Windows)
    BY Fields DEF Lists
  <2> QED BY <2>1, LenProperties
<1>3. ToldUpTo(sh, c, Len(c), Told(sh, c))
  BY <1>2, ToldExists DEF Told
<1>4. /\ Told(sh, c)[0] = sh
      /\ \A i \in 1..Len(c) : Told(sh, c)[i] = Tell(Told(sh, c)[i - 1], c, i)
  <2>1. ToldSteps(sh, c, Len(c), Told(sh, c))
    BY ONLY <1>2, <1>3, ToldAt
  <2> QED BY ONLY <2>1 DEF ToldSteps
<1> QED BY <1>1, <1>2, <1>4, Zenon

LEMMA NotOwnParent ==
  ASSUME NEW sh, Grounded(sh), NEW w \in Windows
  PROVE  sh.parent[w] # w
<1>1. {w} \in SUBSET Windows /\ {w} # {}
  OBVIOUS
<1>2. \E x \in {w} : sh.parent[x] \notin {w}
  BY <1>1 DEF Grounded
<1> QED BY <1>2

\* What is so when the first i children of w were told.
TellInv(sh, A, w, c, s, i) ==
  /\ ShellInv(s, A)
  /\ Layers(sh) \subseteq Layers(s)
  /\ SameFocus(sh, s)
  /\ s.active_surface_tree \in A \cup {sh.active_surface_tree}
  /\ \A x \in Windows :
       s.parent[x] = IF \E j \in 1..i : c[j] = x THEN sh.parent[w] ELSE sh.parent[x]
  /\ \A M : Shown(sh, M) => Shown(s, M)

LEMMA TellKeeps ==
  ASSUME NEW sh, NEW A \in SUBSET Windows, ShellInv(sh, A), NEW w \in Windows,
         NEW c, c = sh.parent_destroy_signal[w], NEW i \in Nat, i + 1 <= Len(c),
         NEW s, TellInv(sh, A, w, c, s, i), NEW t, t = Tell(s, c, i + 1)
  PROVE  TellInv(sh, A, w, c, t, i + 1)
<1> DEFINE x == c[i + 1]
           g == sh.parent[w]
<1>1. /\ sh \in ShellType /\ Grounded(sh) /\ Family(sh, A) /\ sh.parent \in Parents
      /\ c \in Seq(Windows) /\ Len(c) \in Nat
  <2>1. sh \in ShellType /\ Grounded(sh) /\ Family(sh, A)
    BY DEF ShellInv, TreeInv
  <2>2. c \in Seq(Windows)
    BY <2>1, Fields DEF Lists
  <2> QED BY <2>1, <2>2, Fields, LenProperties
<1>2. /\ s \in ShellType /\ Grounded(s) /\ s.parent \in Parents /\ ShellInv(s, A)
  BY Fields DEF TellInv, ShellInv, TreeInv
<1>3. x \in Range(c) /\ \A j \in 1..i : c[j] # x
  <2>1. i + 1 \in 1..Len(c)
    BY <1>1
  <2>2. x \in Range(c)
    BY <1>1, <2>1, RangeOfSeq DEF Range
  <2>3. \A j, k \in 1..Len(c) : c[j] = c[k] => j = k
    BY <1>1 DEF Family, Distinct
  <2> QED BY <1>1, <2>1, <2>2, <2>3
<1>4. x \in Windows /\ sh.parent[x] = w
  <2>1. Range(c) \subseteq Windows
    BY <1>1, Ranges DEF Lists
  <2> QED BY <1>1, <1>3, <2>1 DEF Family
<1>5. x \in A /\ g \in A \cup {NULL}
  BY <1>1, <1>4, NullAssumption DEF Family, Parents
<1>6. sh.parent[w] # w
  BY <1>1, NotOwnParent
<1>7. \A j \in 1..i : c[j] # w
  <2>1. w \notin Range(c)
    BY <1>1, <1>6 DEF Family
  <2>2. \A j \in 1..i : c[j] \in Range(c)
    BY <1>1 DEF Range
  <2> QED BY <2>1, <2>2
<1>8. s.parent[x] = w /\ s.parent[w] = g
  BY <1>3, <1>4, <1>7 DEF TellInv
<1> HIDE DEF x, g
<1>9. t = set_parent(s, x, g)
  BY <1>8 DEF Tell, notify_parent_destroy, x
<1>10. g # NULL => /\ x \notin Ancestors(s, g)
                   /\ get_parent_root(s, x) = get_parent_root(s, g)
  <2> SUFFICES ASSUME g # NULL
               PROVE  /\ x \notin Ancestors(s, g)
                      /\ get_parent_root(s, x) = get_parent_root(s, g)
    OBVIOUS
  <2>1. w # NULL
    BY NullAssumption
  <2>2. x \notin Ancestors(s, w)
    BY <1>2, <1>4, <1>8, <2>1, NotAbove
  <2>3. Ancestors(s, g) \subseteq Ancestors(s, w)
    BY <1>2, <1>8, AncestorsOf
  <2>4. get_parent_root(s, x) = get_parent_root(s, w)
    BY <1>2, <1>4, <1>8, <2>1, RootOf
  <2>5. get_parent_root(s, w) = get_parent_root(s, g)
    BY <1>2, <1>8, RootOf
  <2> QED BY <2>2, <2>3, <2>4, <2>5
<1>11. /\ ShellInv(t, A)
       /\ t.parent = [s.parent EXCEPT ![x] = g]
       /\ Layers(s) \subseteq Layers(t)
       /\ SameFocus(s, t)
       /\ t.active_surface_tree \in {s.active_surface_tree, x}
       /\ \A M : Shown(s, M) => Shown(t, M)
  BY <1>2, <1>5, <1>9, <1>10, SetParentEffect
<1>12. ASSUME NEW y \in Windows
       PROVE  t.parent[y] = IF \E j \in 1..(i + 1) : c[j] = y THEN g ELSE sh.parent[y]
  <2>1. t.parent[y] = IF y = x THEN g ELSE s.parent[y]
    BY <1>2, <1>4, <1>11 DEF Parents
  <2>2. s.parent[y] = IF \E j \in 1..i : c[j] = y THEN g ELSE sh.parent[y]
    BY DEF TellInv, g
  <2>3. (\E j \in 1..(i + 1) : c[j] = y) <=> (\E j \in 1..i : c[j] = y) \/ y = x
    BY DEF x
  <2> QED BY <2>1, <2>2, <2>3
<1> QED BY <1>5, <1>11, <1>12 DEF TellInv, SameFocus, g

\* When all were told, the window has no children.
LEMMA EmitEffect ==
  ASSUME NEW sh, NEW A \in SUBSET Windows, ShellInv(sh, A), NEW w \in Windows,
         NEW t, t = emit_parent_destroy(sh, w)
  PROVE  /\ ShellInv(t, A)
         /\ Layers(sh) \subseteq Layers(t)
         /\ SameFocus(sh, t)
         /\ t.active_surface_tree \in A \cup {sh.active_surface_tree}
         /\ \A x \in Windows : t.parent[x] # w
         /\ \A M : Shown(sh, M) => Shown(t, M)
<1> DEFINE c == sh.parent_destroy_signal[w]
           f == Told(sh, c)
           N == {i \in Nat : i <= Len(c) => TellInv(sh, A, w, c, f[i], i)}
<1>1. /\ sh \in ShellType /\ Grounded(sh) /\ Family(sh, A) /\ sh.parent \in Parents
      /\ c \in Seq(Windows)
  BY Fields DEF ShellInv, TreeInv, Lists
<1>2. /\ t = f[Len(c)]
      /\ Len(c) \in Nat
      /\ f[0] = sh
      /\ \A i \in 1..Len(c) : f[i] = Tell(f[i - 1], c, i)
  BY <1>1, ToldDef
<1>3. c = sh.parent_destroy_signal[w]
  OBVIOUS
<1> HIDE DEF c, f
<1>4. 0 \in N
  <2>1. TellInv(sh, A, w, c, sh, 0)
    BY DEF TellInv, SameFocus
  <2> QED BY <1>2, <2>1
<1>5. ASSUME NEW i \in Nat, i \in N PROVE i + 1 \in N
  <2> SUFFICES ASSUME i + 1 <= Len(c) PROVE TellInv(sh, A, w, c, f[i + 1], i + 1)
    OBVIOUS
  <2>1. TellInv(sh, A, w, c, f[i], i)
    BY <1>2, <1>5
  <2>2. f[i + 1] = Tell(f[i], c, i + 1)
    BY <1>2
  <2> HIDE DEF N
  <2> QED BY <1>3, <2>1, <2>2, TellKeeps
<1>6. \A i \in Nat : i \in N
  <2> HIDE DEF N
  <2> QED BY <1>4, <1>5, NatSteps
<1>7. TellInv(sh, A, w, c, t, Len(c))
  BY <1>2, <1>6
<1>8. ASSUME NEW x \in Windows PROVE t.parent[x] # w
  <2>1. sh.parent[w] # w
    BY <1>1, NotOwnParent
  <2>2. sh.parent[x] = w => \E j \in 1..Len(c) : c[j] = x
    <3>1. x \in Range(c) <=> sh.parent[x] = w
      BY <1>3, <1>1 DEF Family
    <3>2. Range(c) = {c[j] : j \in 1..Len(c)}
      BY <1>1 DEF Range
    <3> QED BY <3>1, <3>2
  <2>3. t.parent[x] = IF \E j \in 1..Len(c) : c[j] = x THEN sh.parent[w] ELSE sh.parent[x]
    BY <1>7 DEF TellInv
  <2> QED BY <2>1, <2>2, <2>3
<1> QED BY <1>7, <1>8 DEF TellInv

-----------------------------------------------------------------------------
(* The focus of a window that goes, and its end. *)

\* Those above a living window are alive.
LEMMA RootAlive ==
  ASSUME NEW sh, NEW A \in SUBSET Windows, TreeInv(sh, A), NEW w \in A
  PROVE  Ancestors(sh, w) \subseteq A /\ get_parent_root(sh, w) \in A
<1>1. sh.parent \in Parents /\ Grounded(sh) /\ Family(sh, A)
  BY Fields DEF TreeInv
<1>2. \A x \in A : sh.parent[x] \in A \cup {NULL}
  BY <1>1 DEF Family
<1>3. Ancestors(sh, w) \subseteq A
  BY <1>2, AncestorsLeast
<1> QED BY <1>1, <1>3, RootOf DEF Root

LEMMA HeadInRange ==
  ASSUME NEW l \in Lists, l # <<>>
  PROVE  Head(l) \in Range(l)
BY DEF Lists, Range

LEMMA HeadOfConcat ==
  ASSUME NEW l \in Lists, NEW m \in Lists, l # <<>>
  PROVE  Head(l \o m) = Head(l)
BY DEF Lists

\* The successor is another window with contents that is in a layer.
LEMMA SuccessorEffect ==
  ASSUME NEW sh \in ShellType, NEW w \in Windows,
         NEW n, n = find_focus_successor(sh, w), n # NULL
  PROVE  n \in Layers(sh) /\ n # w /\ window[n] = "mapped"
<1> DEFINE Mapped == {x \in Windows \ {w} : window[x] = "mapped"}
           Kin == {x \in Windows : get_parent_root(sh, x) = get_parent_root(sh, w)}
           Others(l) == Keep(l, Mapped)
           Related(l) == Keep(Others(l), Kin)
           i == sh.inactive_layer
           v == sh.normal_layer
           front == Related(i) \o Related(v)
           most == front \o Others(v)
           found == most \o Others(i)
<1>1. n = IF found = <<>> THEN NULL ELSE Head(found)
  BY DEF find_focus_successor
<1>2. i \in Lists /\ v \in Lists
  BY Fields
<1>3. ASSUME NEW l \in Lists
      PROVE  /\ Others(l) \in Lists /\ Range(Others(l)) \subseteq Range(l) \cap Mapped
             /\ Related(l) \in Lists /\ Range(Related(l)) \subseteq Range(l) \cap Mapped
  <2>1. Others(l) \in Lists /\ Range(Others(l)) = Range(l) \cap Mapped
    BY KeepType
  <2> HIDE DEF Others, Mapped, Kin
  <2>2. Related(l) \in Lists /\ Range(Related(l)) = Range(Others(l)) \cap Kin
    BY <2>1, KeepType
  <2> QED BY <2>1, <2>2
<1> HIDE DEF Others, Related, Mapped, Kin
<1>4. front \in Lists /\ Range(front) = Range(Related(i)) \cup Range(Related(v))
  BY <1>2, <1>3, ListOps, Ranges
<1> HIDE DEF front
<1>5. most \in Lists /\ Range(most) = Range(front) \cup Range(Others(v))
  BY <1>2, <1>3, <1>4, ListOps, Ranges
<1> HIDE DEF most
<1>6. found \in Lists /\ Range(found) = Range(most) \cup Range(Others(i))
  BY <1>2, <1>3, <1>5, ListOps, Ranges
<1> HIDE DEF found
<1>7. n \in Range(found)
  BY <1>1, <1>6, HeadInRange
<1>8. n \in (Range(i) \cup Range(v)) \cap Mapped
  BY <1>2, <1>3, <1>4, <1>5, <1>6, <1>7
<1> QED BY <1>8 DEF Mapped, Layers

LEMMA PassFocusEffect ==
  ASSUME NEW sh, NEW A \in SUBSET Windows, ShellInv(sh, A), NEW w \in Windows,
         NEW t, t = PassFocus(sh, w)
  PROVE  /\ ShellInv(t, A)
         /\ t.parent = sh.parent
         /\ t.focused_surface # w
         /\ Layers(sh) \subseteq Layers(t)
         /\ t.active_surface_tree \in A \cup {NULL, sh.active_surface_tree}
         /\ \A M : Shown(sh, M) => Shown(t, M)
<1> DEFINE n == find_focus_successor(sh, w)
           r == get_parent_root(sh, n)
           u == [sh EXCEPT !.focused_surface = NULL]
           v == IF n \in Range(sh.inactive_layer) THEN set_active_surface_tree(sh, r) ELSE sh
<1>1. sh \in ShellType /\ TreeInv(sh, A) /\ w # NULL
  BY NullAssumption DEF ShellInv, TreeInv
<1>2. /\ ~LosesFocus(sh, w) => t = sh
      /\ LosesFocus(sh, w) /\ n = NULL => t = set_active_surface_tree(u, NULL)
      /\ LosesFocus(sh, w) /\ n # NULL => t = surface_activate(v, n)
  BY DEF PassFocus
<1>3. CASE ~LosesFocus(sh, w)
  BY <1>1, <1>2, <1>3 DEF LosesFocus
<1>4. CASE LosesFocus(sh, w) /\ n = NULL
  <2>1. /\ u \in ShellType
        /\ u.parent = sh.parent
        /\ u.parent_destroy_signal = sh.parent_destroy_signal
        /\ u.surface_tree_list = sh.surface_tree_list
        /\ SameLayers(sh, u)
        /\ SameActive(sh, u)
        /\ u.focused_surface = NULL
    BY <1>1 DEF ShellType, SameLayers, SameActive
  <2>2. t = set_active_surface_tree(u, NULL)
    BY <1>2, <1>4
  <2> HIDE DEF u, n
  <2>3. ShellInv(u, A) /\ Layers(u) = Layers(sh)
    <3>1. TreeInv(u, A)
      BY <1>1, <2>1, TreesKept
    <3> QED BY <2>1, <3>1 DEF ShellInv, FocusInv, Layers, SameLayers
  <2>4. /\ ShellInv(t, A)
        /\ SameTrees(u, t)
        /\ SameFocus(u, t)
        /\ t.active_surface_tree = NULL
        /\ Layers(u) \subseteq Layers(t)
    BY <2>2, <2>3, SetActiveKeeps
  <2>5. ASSUME NEW M, Shown(sh, M) PROVE Shown(t, M)
    <3>1. Shown(u, M)
      BY <2>1, <2>5, ShownSame DEF SameLayers, SameActive, Tree
    <3> QED BY <2>2, <2>3, <3>1, SetActiveShown
  <2> QED BY <1>1, <2>1, <2>3, <2>4, <2>5 DEF SameTrees, SameFocus
<1>5. CASE LosesFocus(sh, w) /\ n # NULL
  <2>1. n \in Layers(sh) /\ n # w
    BY <1>1, <1>5, SuccessorEffect
  <2>2. n \in A /\ n \in Windows
    BY <2>1 DEF ShellInv
  <2>3. t = surface_activate(v, n)
    BY <1>2, <1>5
  <2> HIDE DEF n
  <2>4. r \in A /\ r \in Windows
    BY <1>1, <2>2, RootAlive
  <2> HIDE DEF r
  <2>5. /\ ShellInv(v, A)
        /\ v.parent = sh.parent
        /\ Layers(sh) \subseteq Layers(v)
        /\ v.active_surface_tree \in {r, sh.active_surface_tree}
        /\ \A M : Shown(sh, M) => Shown(v, M)
    <3>1. CASE n \in Range(sh.inactive_layer)
      <4>1. v = set_active_surface_tree(sh, r)
        BY <3>1
      <4>2. /\ ShellInv(v, A)
            /\ SameTrees(sh, v)
            /\ v.active_surface_tree = r
            /\ Layers(sh) \subseteq Layers(v)
        BY <2>4, <4>1, SetActiveKeeps
      <4>3. ASSUME NEW M, Shown(sh, M) PROVE Shown(v, M)
        BY <2>4, <4>1, <4>3, SetActiveShown
      <4> QED BY <4>2, <4>3 DEF SameTrees
    <3>2. CASE n \notin Range(sh.inactive_layer)
      <4>1. v = sh
        BY <3>2
      <4> QED BY <4>1
    <3> QED BY <3>1, <3>2
  <2> HIDE DEF v
  <2>6. /\ ShellInv(t, A)
        /\ t.parent = v.parent
        /\ t.focused_surface = n
        /\ SameActive(v, t)
        /\ Layers(v) \subseteq Layers(t)
        /\ \A M : Shown(v, M) => Shown(t, M \cup {n})
    BY <2>2, <2>3, <2>5, ActivateEffect
  <2>7. ASSUME NEW M, Shown(sh, M) PROVE Shown(t, M)
    <3>1. Shown(t, M \cup {n})
      BY <2>5, <2>6, <2>7
    <3> QED BY <3>1, ShownLess
  <2> QED BY <2>1, <2>4, <2>5, <2>6, <2>7 DEF SameActive
<1> QED BY <1>3, <1>4, <1>5

\* The end of a window that has no children and not the focus.
LEMMA DestroyEffect ==
  ASSUME NEW sh, NEW A \in SUBSET Windows, ShellInv(sh, A), NEW w \in Windows,
         \A x \in Windows : sh.parent[x] # w, sh.focused_surface # w,
         NEW t, t = surface_destroy(sh, w)
  PROVE  /\ ShellInv(t, A \ {w})
         /\ Layers(t) = Layers(sh) \ {w}
         /\ SameActive(sh, t)
         /\ \A M : Shown(sh, M) => Shown(t, M \ {w})
<1> DEFINE o == OutOfLayers(sh, {w})
           l == [x \in Windows |-> Without(o.surface_tree_list[x], {w})]
           d == [x \in Windows |-> IF x = w THEN <<>> ELSE Without(o.parent_destroy_signal[x], {w})]
           q == [o.parent EXCEPT ![w] = NULL]
           k == [o.focus_count EXCEPT ![w] = 0]
<1>1. /\ sh \in ShellType /\ Grounded(sh) /\ Family(sh, A) /\ Listed(sh, A)
      /\ Layers(sh) \subseteq A /\ FocusInv(sh, A)
  BY DEF ShellInv, TreeInv
<1>2. /\ sh.parent \in Parents
      /\ \A x \in Windows : sh.parent_destroy_signal[x] \in Lists
      /\ \A x \in Windows : sh.surface_tree_list[x] \in Lists
      /\ sh.active_surface_tree \in Windows \cup {NULL}
      /\ sh.normal_layer \in Lists
      /\ sh.inactive_layer \in Lists
      /\ sh.focused_surface \in Windows \cup {NULL}
      /\ sh.focus_count \in [Windows -> Nat]
  BY <1>1, Fields
<1>3. /\ o \in ShellType
      /\ o.parent = sh.parent
      /\ o.parent_destroy_signal = sh.parent_destroy_signal
      /\ o.surface_tree_list = sh.surface_tree_list
      /\ o.focused_surface = sh.focused_surface
      /\ o.focus_count = sh.focus_count
      /\ o.active_surface_tree = sh.active_surface_tree
      /\ o.normal_layer = Without(sh.normal_layer, {w})
      /\ o.inactive_layer = Without(sh.inactive_layer, {w})
  BY <1>1, OutOfLayersEffect DEF SameTrees, SameFocus, SameActive
<1>4. t = [o EXCEPT !.surface_tree_list = l, !.parent_destroy_signal = d,
                    !.parent = q, !.focus_count = k]
  BY DEF surface_destroy
<1> HIDE DEF o
<1>5. /\ l \in [Windows -> Lists]
      /\ \A x \in Windows : l[x] = Without(sh.surface_tree_list[x], {w})
      /\ \A x \in Windows : Range(l[x]) = Range(sh.surface_tree_list[x]) \ {w}
  BY <1>2, <1>3, WithoutType
<1>6. /\ d \in [Windows -> Lists]
      /\ d[w] = <<>>
      /\ \A x \in Windows \ {w} : d[x] = Without(sh.parent_destroy_signal[x], {w})
      /\ \A x \in Windows \ {w} : Range(d[x]) = Range(sh.parent_destroy_signal[x]) \ {w}
  BY <1>2, <1>3, WithoutType, ListOps
<1>7. q \in Parents /\ \A x \in Windows : q[x] = IF x = w THEN NULL ELSE sh.parent[x]
  BY <1>2, <1>3 DEF Parents
<1>8. k \in [Windows -> Nat] /\ \A x \in Windows : x # w => k[x] = sh.focus_count[x]
  BY <1>2, <1>3
<1>9. q = [sh.parent EXCEPT ![w] = NULL]
  BY <1>3
<1> HIDE DEF l, d, q, k
<1>10. t \in ShellType
  BY <1>3, <1>4, <1>5, <1>6, <1>7, <1>8 DEF ShellType, Lists, Parents
<1>11. /\ t.parent = q
       /\ t.parent_destroy_signal = d
       /\ t.surface_tree_list = l
       /\ t.focus_count = k
       /\ t.focused_surface = sh.focused_surface
       /\ t.active_surface_tree = sh.active_surface_tree
       /\ t.normal_layer = Without(sh.normal_layer, {w})
       /\ t.inactive_layer = Without(sh.inactive_layer, {w})
  BY <1>3, <1>4 DEF ShellType
<1>12. /\ Grounded(t)
       /\ \A x \in Windows : x # w => get_parent_root(t, x) = get_parent_root(sh, x)
  <2>1. /\ Grounded(t)
        /\ \A x \in Windows :
             get_parent_root(t, x) = IF w \in Ancestors(sh, x) THEN w ELSE get_parent_root(sh, x)
    BY <1>1, <1>2, <1>9, <1>11, RootsCut
  <2>2. \A x \in Windows : w \in Ancestors(sh, x) <=> x = w
    BY <1>2, ChildlessIsLow
  <2> QED BY <2>1, <2>2
<1>13. Listed(t, A \ {w})
  <2> SUFFICES ASSUME NEW r \in Windows, NEW x \in Windows
               PROVE  x \in Range(l[r]) <=> x \in A \ {w} /\ get_parent_root(t, x) = r
    BY <1>11 DEF Listed
  <2>1. x \in Range(sh.surface_tree_list[r]) <=> x \in A /\ get_parent_root(sh, x) = r
    BY <1>1 DEF Listed
  <2> QED BY <1>5, <1>12, <2>1
<1>14. Family(t, A \ {w})
  <2>1. \A x \in Windows : q[x] # NULL => x \in A \ {w} /\ q[x] \in A \ {w}
    BY <1>1, <1>7 DEF Family
  <2>2. ASSUME NEW p \in Windows PROVE Distinct(d[p])
    <3>1. CASE p = w
      <4>1. Distinct(<<>>)
        BY DEF Distinct
      <4> QED BY <1>6, <3>1, <4>1
    <3>2. CASE p # w
      <4>1. Distinct(sh.parent_destroy_signal[p])
        BY <1>1 DEF Family
      <4>2. Distinct(Keep(sh.parent_destroy_signal[p], Windows \ {w}))
        BY <1>2, <4>1, DistinctKeep
      <4> QED BY <1>6, <3>2, <4>2 DEF Without
    <3> QED BY <3>1, <3>2
  <2>3. ASSUME NEW p \in Windows, NEW x \in Windows
        PROVE  x \in Range(d[p]) <=> q[x] = p
    <3>1. x \in Range(sh.parent_destroy_signal[p]) <=> sh.parent[x] = p
      BY <1>1 DEF Family
    <3>2. CASE p = w
      <4>1. Range(d[p]) = {}
        BY <1>6, <3>2, Ranges
      <4> QED BY <1>7, <3>2, <4>1, NullAssumption
    <3>3. CASE p # w
      BY <1>6, <1>7, <3>1, <3>3, NullAssumption
    <3> QED BY <3>2, <3>3
  <2> QED BY <1>11, <2>1, <2>2, <2>3 DEF Family
<1>15. Layers(t) = Layers(sh) \ {w}
  BY <1>2, <1>11, WithoutType DEF Layers
<1>16. FocusInv(t, A \ {w})
  BY <1>1, <1>2, <1>8, <1>11 DEF FocusInv
<1>17. ShellInv(t, A \ {w})
  BY <1>1, <1>10, <1>12, <1>13, <1>14, <1>15, <1>16 DEF ShellInv, TreeInv
<1>18. ASSUME NEW M, Shown(sh, M) PROVE Shown(t, M \ {w})
  <2> DEFINE a == sh.active_surface_tree
             T == Tree(sh, a)
             N == Range(sh.normal_layer)
             O == Windows \ {w}
  <2>1. T \in Lists /\ N \subseteq Windows
    BY <1>1, <1>2, TreeIsList, Ranges
  <2>2. sh.normal_layer = Keep(T, N) /\ \A x \in Range(T) : x \in M => x \in N
    BY <1>18 DEF Shown
  <2>3. Tree(t, a) = Keep(T, O)
    <3>1. CASE a = NULL
      BY <3>1, KeepEmpty DEF Tree
    <3>2. CASE a # NULL
      BY <1>2, <1>5, <1>11, <3>2 DEF Tree, Without
    <3> QED BY <3>1, <3>2
  <2>4. t.normal_layer = Keep(Keep(T, N), O) /\ Range(t.normal_layer) = N \ {w}
    <3>1. t.normal_layer = Keep(sh.normal_layer, O)
      BY <1>11 DEF Without
    <3>2. Range(t.normal_layer) = N \ {w}
      BY <1>2, <1>11, WithoutType
    <3> QED BY <2>2, <3>1, <3>2
  <2>5. t.active_surface_tree = a /\ Range(Tree(t, a)) = Range(T) \cap O
    BY <1>11, <2>1, <2>3, KeepType
  <2> HIDE DEF T, N, O
  <2>6. Keep(Keep(T, N), O) = Keep(T, N \cap O)
    BY <2>1, KeepKeep
  <2>7. Keep(Keep(T, O), N \ {w}) = Keep(T, O \cap (N \ {w}))
    BY <2>1, KeepKeep
  <2>8. N \cap O = O \cap (N \ {w})
    BY <2>1 DEF O
  <2>9. t.normal_layer = Keep(Tree(t, a), Range(t.normal_layer))
    BY ONLY <2>3, <2>4, <2>6, <2>7, <2>8
  <2>10. \A x \in Range(Tree(t, a)) : x \in M \ {w} => x \in Range(t.normal_layer)
    BY <2>2, <2>4, <2>5
  <2> QED BY <2>5, <2>9, <2>10 DEF Shown
<1> QED BY <1>11, <1>15, <1>17, <1>18 DEF SameActive

-----------------------------------------------------------------------------
(* The steps of the handlers that are not a helper already. *)

\* A new window is a tree of its own.
LEMMA AddEffect ==
  ASSUME NEW sh, NEW A \in SUBSET Windows, ShellInv(sh, A), NEW w \in Windows, w \notin A,
         sh.active_surface_tree # w, NEW l, l = One(w), NEW t, t = MoveToTree(sh, w, l)
  PROVE  /\ ShellInv(t, A \cup {w})
         /\ t.parent = sh.parent
         /\ Layers(t) = Layers(sh)
         /\ w \notin Range(t.normal_layer)
         /\ SameActive(sh, t)
         /\ \A x \in Windows : t.parent[x] # w
         /\ \A x \in A : w \notin Ancestors(t, x)
         /\ \A M : Shown(sh, M) => Shown(t, M)
<1>1. /\ sh \in ShellType /\ Grounded(sh) /\ Family(sh, A) /\ Listed(sh, A)
      /\ sh.parent \in Parents /\ TreeInv(sh, A) /\ Layers(sh) \subseteq A /\ FocusInv(sh, A)
      /\ \A x \in Windows : sh.surface_tree_list[x] \in Lists
  BY Fields DEF ShellInv, TreeInv
<1>2. l \in Lists /\ Range(l) = {w}
  BY ListOps, Ranges DEF One
<1>3. /\ t \in ShellType
      /\ t.parent = sh.parent
      /\ t.parent_destroy_signal = sh.parent_destroy_signal
      /\ SameFocus(sh, t)
      /\ SameLayers(sh, t)
      /\ SameActive(sh, t)
      /\ Moved(sh, t, w, l)
  BY <1>1, <1>2, MoveToTreeEffect
<1>4. /\ Range(t.surface_tree_list[w]) = Range(sh.surface_tree_list[w]) \cup {w}
      /\ \A x \in Windows \ {w} :
           /\ t.surface_tree_list[x] = Without(sh.surface_tree_list[x], {w})
           /\ Range(t.surface_tree_list[x]) = Range(sh.surface_tree_list[x]) \ {w}
  <2>1. sh \in ShellType /\ l \in Lists /\ Moved(sh, t, w, l)
    BY <1>1, <1>2, <1>3
  <2>2. /\ Range(t.surface_tree_list[w]) = Range(sh.surface_tree_list[w]) \cup Range(l)
        /\ \A x \in Windows \ {w} :
             /\ t.surface_tree_list[x] = Without(sh.surface_tree_list[x], Range(l))
             /\ Range(t.surface_tree_list[x]) = Range(sh.surface_tree_list[x]) \ Range(l)
    BY ONLY <2>1, MovedLists
  <2> QED BY ONLY <1>2, <2>2
<1>5. sh.parent[w] = NULL /\ \A x \in Windows : sh.parent[x] # w
  BY <1>1, NullAssumption DEF Family
<1>6. /\ get_parent_root(sh, w) = w
      /\ \A x \in A : get_parent_root(sh, x) # w
      /\ \A x \in A : w \notin Ancestors(sh, x)
  BY <1>1, <1>5, RootOf, RootAlive
<1>7. /\ \A x : get_parent_root(t, x) = get_parent_root(sh, x)
      /\ \A x : Ancestors(t, x) = Ancestors(sh, x)
      /\ Grounded(t)
  BY <1>1, <1>3, RootsSame
<1>8. Listed(t, A \cup {w})
  <2> SUFFICES ASSUME NEW r \in Windows, NEW x \in Windows
               PROVE  x \in Range(t.surface_tree_list[r]) <=>
                        x \in A \cup {w} /\ get_parent_root(sh, x) = r
    BY <1>7 DEF Listed
  <2>1. x \in Range(sh.surface_tree_list[r]) <=> x \in A /\ get_parent_root(sh, x) = r
    BY <1>1 DEF Listed
  <2>2. CASE r = w
    BY <1>4, <1>6, <2>1, <2>2
  <2>3. CASE r # w
    BY <1>4, <1>6, <2>1, <2>3
  <2> QED BY <2>2, <2>3
<1>9. Family(t, A \cup {w})
  <2>1. Family(t, A)
    BY <1>1, <1>3, FamilySame
  <2> QED BY <2>1 DEF Family
<1>10. Layers(t) = Layers(sh) /\ FocusInv(t, A \cup {w})
  BY <1>1, <1>3 DEF Layers, SameLayers, FocusInv, SameFocus
<1>11. ShellInv(t, A \cup {w})
  BY <1>1, <1>3, <1>7, <1>8, <1>9, <1>10 DEF ShellInv, TreeInv
<1>12. w \notin Range(t.normal_layer)
  BY <1>1, <1>10 DEF Layers
<1>13. ASSUME NEW M, Shown(sh, M) PROVE Shown(t, M)
  <2> DEFINE a == sh.active_surface_tree
  <2>1. a \in Windows \cup {NULL} /\ t.active_surface_tree = a
    BY <1>1, <1>3, Fields DEF SameActive
  <2>2. Tree(t, a) = Tree(sh, a)
    <3>1. CASE a = NULL
      BY <3>1 DEF Tree
    <3>2. CASE a # NULL
      <4>1. a \in Windows \ {w} /\ w \notin Range(sh.surface_tree_list[a])
        BY <1>1, <2>1, <3>2 DEF Listed
      <4>2. Without(sh.surface_tree_list[a], {w}) = sh.surface_tree_list[a]
        BY <1>1, <4>1, WithoutType
      <4> QED BY <1>4, <3>2, <4>1, <4>2 DEF Tree
    <3> QED BY <3>1, <3>2
  <2> QED BY <1>3, <1>13, <2>1, <2>2, ShownSame DEF SameLayers
<1> QED BY <1>3, <1>5, <1>6, <1>7, <1>10, <1>11, <1>12, <1>13

\* A window leaves the layers.
LEMMA HideEffect ==
  ASSUME NEW sh, NEW A \in SUBSET Windows, ShellInv(sh, A), NEW w \in Windows,
         NEW t, t = OutOfLayers(sh, {w})
  PROVE  /\ ShellInv(t, A)
         /\ Layers(t) = Layers(sh) \ {w}
         /\ SameActive(sh, t)
         /\ \A M : Shown(sh, M) => Shown(t, M \ {w})
<1>1. /\ sh \in ShellType /\ TreeInv(sh, A) /\ Layers(sh) \subseteq A /\ FocusInv(sh, A)
      /\ sh.active_surface_tree \in Windows \cup {NULL}
      /\ sh.normal_layer \in Lists /\ sh.inactive_layer \in Lists
  BY Fields DEF ShellInv, TreeInv
<1>2. /\ t \in ShellType
      /\ SameTrees(sh, t)
      /\ SameFocus(sh, t)
      /\ SameActive(sh, t)
      /\ t.normal_layer = Without(sh.normal_layer, {w})
      /\ t.inactive_layer = Without(sh.inactive_layer, {w})
  BY <1>1, OutOfLayersEffect
<1>3. TreeInv(t, A)
  BY <1>1, <1>2, TreesKept DEF SameTrees
<1>4. Layers(t) = Layers(sh) \ {w}
  BY <1>1, <1>2, WithoutType DEF Layers
<1>5. ShellInv(t, A)
  BY <1>1, <1>2, <1>3, <1>4 DEF ShellInv, FocusInv, SameFocus
<1>6. ASSUME NEW M, Shown(sh, M) PROVE Shown(t, M \ {w})
  <2> DEFINE a == sh.active_surface_tree
             T == Tree(sh, a)
             N == Range(sh.normal_layer)
             O == Windows \ {w}
  <2>1. T \in Lists /\ N \subseteq Windows
    BY <1>1, TreeIsList, Ranges
  <2>2. sh.normal_layer = Keep(T, N) /\ \A x \in Range(T) : x \in M => x \in N
    BY <1>6 DEF Shown
  <2>3. Tree(t, a) = T /\ t.active_surface_tree = a
    BY <1>2 DEF SameTrees, SameActive, Tree
  <2>4. t.normal_layer = Keep(Keep(T, N), O)
    BY <1>2, <2>2 DEF Without
  <2>5. Range(t.normal_layer) = N \ {w}
    BY <1>1, <1>2, WithoutType
  <2> HIDE DEF T, N, O
  <2>6. Keep(Keep(T, N), O) = Keep(T, N \cap O)
    BY <2>1, KeepKeep
  <2>7. N \cap O = N \ {w}
    BY <2>1 DEF O
  <2> QED BY <2>2, <2>3, <2>4, <2>5, <2>6, <2>7 DEF Shown
<1> QED BY <1>2, <1>4, <1>5, <1>6

\* A window of a tree that is not shown goes to the top of the inactive layer.
LEMMA StashEffect ==
  ASSUME NEW sh, NEW A \in SUBSET Windows, ShellInv(sh, A), NEW w \in A,
         sh.active_surface_tree # get_parent_root(sh, w),
         NEW l, l = One(w), NEW t, t = ToInactive(sh, l)
  PROVE  /\ ShellInv(t, A)
         /\ Layers(t) = Layers(sh) \cup {w}
         /\ SameActive(sh, t)
         /\ \A M : Shown(sh, M) => Shown(t, M)
<1>1. /\ sh \in ShellType /\ TreeInv(sh, A) /\ Listed(sh, A)
      /\ Layers(sh) \subseteq A /\ FocusInv(sh, A)
      /\ sh.active_surface_tree \in Windows \cup {NULL}
      /\ sh.normal_layer \in Lists /\ w \in Windows
  BY Fields DEF ShellInv, TreeInv
<1>2. l \in Lists /\ Range(l) = {w}
  BY <1>1, ListOps, Ranges DEF One
<1>3. /\ t \in ShellType
      /\ SameTrees(sh, t)
      /\ SameFocus(sh, t)
      /\ SameActive(sh, t)
      /\ t.normal_layer = Without(sh.normal_layer, Range(l))
      /\ Layers(t) = Layers(sh) \cup Range(l)
  BY <1>1, <1>2, ToInactiveEffect
<1>4. TreeInv(t, A)
  BY <1>1, <1>3, TreesKept DEF SameTrees
<1>5. ShellInv(t, A)
  BY <1>1, <1>2, <1>3, <1>4 DEF ShellInv, FocusInv, SameFocus
<1>6. ASSUME NEW M, Shown(sh, M) PROVE Shown(t, M)
  <2> DEFINE a == sh.active_surface_tree
  <2>1. w \notin Range(Tree(sh, a))
    <3>1. CASE a = NULL
      BY <3>1, Ranges DEF Tree
    <3>2. CASE a # NULL
      BY <1>1, <3>2 DEF Tree, Listed
    <3> QED BY <3>1, <3>2
  <2>2. w \notin Range(sh.normal_layer)
    BY <1>1, <1>6, <2>1, ShownIsTree
  <2>3. t.normal_layer = sh.normal_layer
    BY <1>1, <1>2, <1>3, <2>2, WithoutType
  <2> QED BY <1>3, <1>6, <2>3, ShownSame DEF SameTrees, SameActive, Tree
<1> QED BY <1>2, <1>3, <1>5, <1>6

-----------------------------------------------------------------------------
(* The inductive invariant. *)

Living == {w \in Windows : Alive(w)}

Mapped == {w \in Windows : window[w] = "mapped"}

KInv ==
  /\ KioskTypeOK
  /\ ShellInv(shell, Living)
  /\ shell.active_surface_tree # NULL => window[shell.active_surface_tree] # "none"
  /\ minimized \subseteq Layers(shell)
  /\ ~reparented => Shown(shell, Mapped)

\* What every step uses of it.
LEMMA KInvFacts ==
  ASSUME KInv
  PROVE  /\ Living \in SUBSET Windows
         /\ shell \in ShellType
         /\ TreeInv(shell, Living)
         /\ ShellInv(shell, Living)
         /\ Layers(shell) \subseteq Living
         /\ \A x \in Windows : x \in Living <=> Alive(x)
         /\ \A x \in Windows : x \in Mapped <=> window[x] = "mapped"
BY DEF KInv, Living, Mapped, ShellInv, TreeInv

LEMMA InitInv == Init => KInv
<1> SUFFICES ASSUME Init PROVE KInv
  OBVIOUS
<1> DEFINE P == [w \in Windows |-> NULL]
           E == [w \in Windows |-> <<>>]
           Z == [w \in Windows |-> 0]
<1>1. P \in Parents /\ E \in [Windows -> Lists] /\ Z \in [Windows -> Nat]
  BY ListOps DEF Parents
<1>2. /\ shell.parent = P
      /\ shell.parent_destroy_signal = E
      /\ shell.surface_tree_list = E
      /\ shell.active_surface_tree = NULL
      /\ shell.normal_layer = <<>>
      /\ shell.inactive_layer = <<>>
      /\ shell.focused_surface = NULL
      /\ shell.focus_count = Z
  BY DEF Init
<1>3. shell \in ShellType
  BY <1>1, ListOps DEF Init, ShellType, Parents, Lists
<1>4. KioskTypeOK /\ Living = {}
  BY <1>3 DEF Init, KioskTypeOK, Living, Alive
<1>5. \A x \in Windows : P[x] = NULL /\ E[x] = <<>>
  OBVIOUS
<1> HIDE DEF P, E, Z
<1>6. Grounded(shell)
  BY <1>2, <1>5, NullAssumption DEF Grounded
<1>7. Family(shell, Living)
  <2>1. Distinct(<<>>)
    BY DEF Distinct
  <2>2. \A x \in Windows : shell.parent[x] = NULL /\ Range(shell.parent_destroy_signal[x]) = {}
    BY <1>2, <1>5, Ranges
  <2>3. \A x \in Windows : Distinct(shell.parent_destroy_signal[x])
    BY <1>2, <1>5, <2>1
  <2> QED BY <2>2, <2>3, NullAssumption DEF Family
<1>8. Listed(shell, Living)
  <2>1. \A x \in Windows : Range(shell.surface_tree_list[x]) = {}
    BY <1>2, <1>5, Ranges
  <2> QED BY <1>4, <2>1 DEF Listed
<1>9. Layers(shell) = {} /\ FocusInv(shell, Living)
  BY <1>2, Ranges DEF Layers, FocusInv
<1>10. Shown(shell, Mapped)
  <2>1. Tree(shell, shell.active_surface_tree) = <<>>
    BY <1>2 DEF Tree
  <2>2. Keep(<<>>, Range(shell.normal_layer)) = <<>> /\ Range(<<>>) = {}
    BY KeepEmpty, Ranges
  <2> QED BY <1>2, <2>1, <2>2 DEF Shown
<1>11. minimized = {}
  BY DEF Init
<1> QED
  BY <1>2, <1>3, <1>4, <1>6, <1>7, <1>8, <1>9, <1>10, <1>11 DEF KInv, ShellInv, TreeInv

\* What a step has to show.
LEMMA KInvNext ==
  ASSUME KInv,
         window' \in [Windows -> {"none", "added", "mapped", "unmapped", "removed"}],
         reparented' \in BOOLEAN,
         ShellInv(shell', Living'),
         shell'.active_surface_tree # NULL => window'[shell'.active_surface_tree] # "none",
         minimized' \subseteq Layers(shell'),
         ~reparented' => Shown(shell', Mapped')
  PROVE  KInv'
<1>1. Layers(shell') \subseteq Living' /\ Living' \subseteq Windows /\ shell' \in ShellType
  BY DEF ShellInv, TreeInv, Living
<1>2. KioskTypeOK'
  BY <1>1 DEF KioskTypeOK
<1> QED BY <1>2 DEF KInv

LEMMA AddedInv ==
  ASSUME KInv, NEW w \in Windows, desktop_surface_added(w)
  PROVE  KInv'
<1> DEFINE l == One(w)
           s == MoveToTree(shell, w, l)
           B == Living \cup {w}
<1>1. /\ window[w] = "none"
      /\ window' = [window EXCEPT ![w] = "added"]
      /\ \/ shell' = s
         \/ \E p \in Windows : Alive(p) /\ shell' = set_parent(s, w, p)
      /\ minimized' = minimized /\ reparented' = reparented
  BY DEF desktop_surface_added, One
<1>2. /\ w \notin Living
      /\ B \in SUBSET Windows
      /\ w \notin Mapped
      /\ shell.active_surface_tree # w
      /\ shell.active_surface_tree \in Windows \cup {NULL}
  BY <1>1, KInvFacts, Fields, NullAssumption DEF KInv, Alive
<1>3. Living' = B /\ Mapped' = Mapped
  BY <1>1 DEF KInv, KioskTypeOK, Living, Mapped, Alive
<1> HIDE DEF l, s
<1>4. /\ ShellInv(s, B)
      /\ Layers(s) = Layers(shell)
      /\ w \notin Range(s.normal_layer)
      /\ SameActive(shell, s)
      /\ \A x \in Windows : s.parent[x] # w
      /\ \A x \in Living : w \notin Ancestors(s, x)
      /\ \A M : Shown(shell, M) => Shown(s, M)
  <2>1. /\ Living \in SUBSET Windows /\ ShellInv(shell, Living) /\ w \notin Living
        /\ shell.active_surface_tree # w
    BY <1>2, KInvFacts
  <2>2. l = One(w) /\ s = MoveToTree(shell, w, l)
    BY DEF l, s
  <2> QED BY ONLY <2>1, <2>2, AddEffect
<1>5. /\ ShellInv(shell', B)
      /\ Layers(shell) \subseteq Layers(shell')
      /\ shell'.active_surface_tree \in {shell.active_surface_tree, w}
      /\ Shown(shell, Mapped) => Shown(shell', Mapped)
  <2>1. CASE shell' = s
    BY <1>4, <2>1 DEF SameActive
  <2>2. ASSUME NEW p \in Windows, Alive(p), shell' = set_parent(s, w, p)
        PROVE  /\ ShellInv(shell', B)
               /\ Layers(shell) \subseteq Layers(shell')
               /\ shell'.active_surface_tree \in {shell.active_surface_tree, w}
               /\ Shown(shell, Mapped) => Shown(shell', Mapped)
    <3>1. p \in Living /\ p \in B \cup {NULL} /\ w \in B
      BY <2>2, KInvFacts
    <3>2. w \notin Ancestors(s, p) /\ \A x \in Windows : s.parent[x] # w
      BY <1>4, <3>1
    <3>3. /\ ShellInv(shell', B)
          /\ Layers(s) \subseteq Layers(shell')
          /\ shell'.active_surface_tree \in {s.active_surface_tree, w}
          /\ \A M : Shown(s, M) /\ w \notin M /\ w \notin Range(s.normal_layer) => Shown(shell', M)
      <4> PICK t : t = shell'
        OBVIOUS
      <4>1. t = set_parent(s, w, p)
        BY <2>2
      <4>2. /\ ShellInv(t, B)
            /\ Layers(s) \subseteq Layers(t)
            /\ t.active_surface_tree \in {s.active_surface_tree, w}
            /\ \A M : Shown(s, M) /\ w \notin M /\ w \notin Range(s.normal_layer) => Shown(t, M)
        <5>1. B \in SUBSET Windows /\ ShellInv(s, B) /\ w \in B /\ p \in B \cup {NULL}
          BY <1>2, <1>4, <3>1
        <5> HIDE DEF B
        <5> QED BY ONLY <5>1, <3>2, <4>1, SetParentEffect
      <4> QED BY <4>2
    <3> QED BY <1>2, <1>4, <3>3 DEF SameActive
  <2> QED BY <1>1, <2>1, <2>2
<1>6. window' \in [Windows -> {"none", "added", "mapped", "unmapped", "removed"}]
      /\ reparented' \in BOOLEAN
  BY <1>1 DEF KInv, KioskTypeOK
<1>7. shell'.active_surface_tree # NULL => window'[shell'.active_surface_tree] # "none"
  BY <1>1, <1>2, <1>5 DEF KInv, KioskTypeOK
<1>8. minimized' \subseteq Layers(shell')
  BY <1>1, <1>5 DEF KInv
<1>9. ~reparented' => Shown(shell', Mapped')
  BY <1>1, <1>3, <1>5 DEF KInv
<1>10. ShellInv(shell', Living')
  BY <1>3, <1>5
<1> QED BY <1>6, <1>7, <1>8, <1>9, <1>10, KInvNext

LEMMA CommittedInv ==
  ASSUME KInv, NEW w \in Windows, desktop_surface_committed(w)
  PROVE  KInv'
<1> DEFINE s == IF shell.parent[w] = NULL THEN set_active_surface_tree(shell, w) ELSE shell
<1>1. /\ window[w] \in {"added", "unmapped"}
      /\ window' = [window EXCEPT ![w] = "mapped"]
      /\ shell' = surface_activate(s, w)
      /\ minimized' = minimized /\ reparented' = reparented
  BY DEF desktop_surface_committed
<1>2. w \in Living /\ Living \in SUBSET Windows /\ ShellInv(shell, Living)
  BY <1>1, KInvFacts DEF Alive
<1>3. Living' = Living /\ Mapped' = Mapped \cup {w}
  BY <1>1 DEF KInv, KioskTypeOK, Living, Mapped, Alive
<1>4. /\ ShellInv(s, Living)
      /\ Layers(shell) \subseteq Layers(s)
      /\ s.active_surface_tree \in {shell.active_surface_tree, w}
      /\ \A M : Shown(shell, M) => Shown(s, M)
  <2>1. CASE shell.parent[w] = NULL
    <3>1. s = set_active_surface_tree(shell, w) /\ w \in Windows \cup {NULL}
      BY <2>1
    <3> HIDE DEF s
    <3>2. /\ ShellInv(s, Living)
          /\ s.active_surface_tree = w
          /\ Layers(shell) \subseteq Layers(s)
      BY ONLY <1>2, <3>1, SetActiveKeeps
    <3>3. ASSUME NEW M, Shown(shell, M) PROVE Shown(s, M)
      BY ONLY <1>2, <3>1, <3>3, SetActiveShown
    <3> QED BY <3>2, <3>3
  <2>2. CASE shell.parent[w] # NULL
    <3>1. s = shell
      BY <2>2
    <3> HIDE DEF s
    <3> QED BY <1>2, <3>1
  <2> QED BY <2>1, <2>2
<1> HIDE DEF s
<1>5. /\ ShellInv(shell', Living)
      /\ SameActive(s, shell')
      /\ Layers(s) \subseteq Layers(shell')
      /\ \A M : Shown(s, M) => Shown(shell', M \cup {w})
  <2> PICK t : t = shell'
    OBVIOUS
  <2>1. t = surface_activate(s, w)
    BY <1>1
  <2>2. /\ ShellInv(t, Living)
        /\ SameActive(s, t)
        /\ Layers(s) \subseteq Layers(t)
        /\ \A M : Shown(s, M) => Shown(t, M \cup {w})
    BY ONLY <1>2, <1>4, <2>1, ActivateEffect
  <2> QED BY <2>2
<1>6. window' \in [Windows -> {"none", "added", "mapped", "unmapped", "removed"}]
      /\ reparented' \in BOOLEAN
  BY <1>1 DEF KInv, KioskTypeOK
<1>7. shell'.active_surface_tree # NULL => window'[shell'.active_surface_tree] # "none"
  <2>1. shell'.active_surface_tree \in {shell.active_surface_tree, w}
    BY <1>4, <1>5 DEF SameActive
  <2>2. shell.active_surface_tree \in Windows \cup {NULL}
    BY KInvFacts, Fields
  <2> QED BY <1>1, <2>1, <2>2 DEF KInv, KioskTypeOK
<1>8. minimized' \subseteq Layers(shell')
  BY <1>1, <1>4, <1>5 DEF KInv
<1>9. ~reparented' => Shown(shell', Mapped')
  BY <1>1, <1>3, <1>4, <1>5 DEF KInv
<1>10. ShellInv(shell', Living')
  BY <1>3, <1>5
<1> QED BY <1>6, <1>7, <1>8, <1>9, <1>10, KInvNext

LEMMA UnmapInv ==
  ASSUME KInv, NEW w \in Windows, weston_surface_unmap(w)
  PROVE  KInv'
<1>1. /\ window[w] = "mapped"
      /\ window' = [window EXCEPT ![w] = "unmapped"]
      /\ shell' = OutOfLayers(shell, {w})
      /\ minimized' = minimized \ {w} /\ reparented' = reparented
  BY DEF weston_surface_unmap
<1>2. Living \in SUBSET Windows /\ ShellInv(shell, Living)
  BY KInvFacts
<1>3. Living' = Living /\ Mapped' = Mapped \ {w}
  BY <1>1 DEF KInv, KioskTypeOK, Living, Mapped, Alive
<1>4. /\ ShellInv(shell', Living)
      /\ Layers(shell') = Layers(shell) \ {w}
      /\ SameActive(shell, shell')
      /\ \A M : Shown(shell, M) => Shown(shell', M \ {w})
  <2> PICK t : t = shell'
    OBVIOUS
  <2>1. t = OutOfLayers(shell, {w})
    BY <1>1
  <2>2. /\ ShellInv(t, Living)
        /\ Layers(t) = Layers(shell) \ {w}
        /\ SameActive(shell, t)
        /\ \A M : Shown(shell, M) => Shown(t, M \ {w})
    BY ONLY <1>2, <2>1, HideEffect
  <2> QED BY <2>2
<1>5. window' \in [Windows -> {"none", "added", "mapped", "unmapped", "removed"}]
      /\ reparented' \in BOOLEAN
  BY <1>1 DEF KInv, KioskTypeOK
<1>6. shell'.active_surface_tree # NULL => window'[shell'.active_surface_tree] # "none"
  <2>1. shell.active_surface_tree \in Windows \cup {NULL}
    BY KInvFacts, Fields
  <2> QED BY <1>1, <1>4, <2>1 DEF KInv, KioskTypeOK, SameActive
<1>7. minimized' \subseteq Layers(shell')
  BY <1>1, <1>4 DEF KInv
<1>8. ~reparented' => Shown(shell', Mapped')
  BY <1>1, <1>3, <1>4 DEF KInv
<1>9. ShellInv(shell', Living')
  BY <1>3, <1>4
<1> QED BY <1>5, <1>6, <1>7, <1>8, <1>9, KInvNext

LEMMA ParentInv ==
  ASSUME KInv, NEW w \in Windows, NEW p \in Windows \cup {NULL}, desktop_surface_set_parent(w, p)
  PROVE  KInv'
<1>1. /\ Alive(w)
      /\ p # NULL => Alive(p) /\ p # w /\ shell.parent_destroy_signal[w] = <<>>
      /\ shell' = set_parent(shell, w, p)
      /\ reparented' = (reparented \/ (p # NULL /\ (window[w] = "mapped" \/ Found(w))))
      /\ window' = window /\ minimized' = minimized
  BY DEF desktop_surface_set_parent
<1>2. /\ Living \in SUBSET Windows /\ ShellInv(shell, Living)
      /\ w \in Living /\ p \in Living \cup {NULL}
  BY <1>1, KInvFacts
<1>3. Living' = Living /\ Mapped' = Mapped
  BY <1>1 DEF Living, Mapped, Alive
<1>4. p # NULL => w \notin Ancestors(shell, p) /\ \A x \in Windows : shell.parent[x] # w
  <2> SUFFICES ASSUME p # NULL
               PROVE  w \notin Ancestors(shell, p) /\ \A x \in Windows : shell.parent[x] # w
    OBVIOUS
  <2>1. shell.parent \in Parents /\ Family(shell, Living)
    BY KInvFacts, Fields DEF TreeInv
  <2>2. Range(shell.parent_destroy_signal[w]) = {}
    BY <1>1, Ranges
  <2>3. \A x \in Windows : shell.parent[x] # w
    BY <2>1, <2>2 DEF Family
  <2>4. p # w /\ p \in Windows
    BY <1>1
  <2>5. \A x \in Windows : w \in Ancestors(shell, x) <=> x = w
    BY <2>1, <2>3, ChildlessIsLow
  <2> QED BY <2>3, <2>4, <2>5
<1>5. /\ ShellInv(shell', Living)
      /\ Layers(shell) \subseteq Layers(shell')
      /\ shell'.active_surface_tree \in {shell.active_surface_tree, w}
      /\ \A M : /\ Shown(shell, M)
                /\ p = NULL \/ (w \notin M /\ w \notin Range(shell.normal_layer))
                => Shown(shell', M)
  <2> PICK t : t = shell'
    OBVIOUS
  <2>1. t = set_parent(shell, w, p)
    BY <1>1
  <2>2. /\ ShellInv(t, Living)
        /\ Layers(shell) \subseteq Layers(t)
        /\ t.active_surface_tree \in {shell.active_surface_tree, w}
        /\ \A M : /\ Shown(shell, M)
                  /\ \/ p = NULL
                     \/ get_parent_root(shell, w) = get_parent_root(shell, p)
                     \/ w \notin M /\ w \notin Range(shell.normal_layer)
                  => Shown(t, M)
    BY ONLY <1>2, <1>4, <2>1, SetParentEffect
  <2> QED BY <2>2
<1>6. window' \in [Windows -> {"none", "added", "mapped", "unmapped", "removed"}]
      /\ reparented' \in BOOLEAN
  <2>1. reparented' \in BOOLEAN
    BY <1>1, Zenon DEF KInv, KioskTypeOK
  <2> QED BY <1>1, <2>1 DEF KInv, KioskTypeOK
<1>7. shell'.active_surface_tree # NULL => window'[shell'.active_surface_tree] # "none"
  BY <1>1, <1>5 DEF KInv, Alive
<1>8. minimized' \subseteq Layers(shell')
  BY <1>1, <1>5 DEF KInv
<1>9. ~reparented' => Shown(shell', Mapped')
  <2> SUFFICES ASSUME ~reparented' PROVE Shown(shell', Mapped)
    BY <1>3
  <2>1. ~reparented /\ (p = NULL \/ (window[w] # "mapped" /\ ~Found(w)))
    BY <1>1
  <2>2. Shown(shell, Mapped)
    BY <2>1 DEF KInv
  <2>3. ~Found(w) => w \notin Range(shell.normal_layer)
    BY KInvFacts, Fields, Ranges DEF Found
  <2>4. window[w] # "mapped" => w \notin Mapped
    BY DEF Mapped
  <2> QED BY <1>5, <2>1, <2>2, <2>3, <2>4
<1>10. ShellInv(shell', Living')
  BY <1>3, <1>5
<1> QED BY <1>6, <1>7, <1>8, <1>9, <1>10, KInvNext

LEMMA MinimizeInv ==
  ASSUME KInv, NEW w \in Windows, desktop_surface_minimized_requested(w)
  PROVE  KInv'
<1> DEFINE a == shell.active_surface_tree
           r == get_parent_root(shell, w)
           l == One(w)
<1>1. /\ Alive(w)
      /\ shell' = IF a = r THEN set_active_surface_tree(shell, NULL) ELSE ToInactive(shell, l)
      /\ minimized' = minimized \cup {w}
      /\ window' = window /\ reparented' = reparented
  BY DEF desktop_surface_minimized_requested, One
<1>2. /\ Living \in SUBSET Windows /\ ShellInv(shell, Living) /\ w \in Living
      /\ shell \in ShellType /\ a \in Windows \cup {NULL}
  BY <1>1, KInvFacts, Fields
<1>3. Living' = Living /\ Mapped' = Mapped
  BY <1>1 DEF Living, Mapped, Alive
<1>4. /\ ShellInv(shell', Living)
      /\ Layers(shell) \cup {w} \subseteq Layers(shell')
      /\ shell'.active_surface_tree \in {a, NULL}
      /\ \A M : Shown(shell, M) => Shown(shell', M)
  <2> PICK t : t = shell'
    OBVIOUS
  <2> SUFFICES /\ ShellInv(t, Living)
               /\ Layers(shell) \cup {w} \subseteq Layers(t)
               /\ t.active_surface_tree \in {a, NULL}
               /\ \A M : Shown(shell, M) => Shown(t, M)
    OBVIOUS
  <2>1. CASE a = r
    <3>1. t = set_active_surface_tree(shell, NULL) /\ NULL \in Windows \cup {NULL}
      BY <1>1, <2>1
    <3>2. /\ ShellInv(t, Living)
          /\ t.active_surface_tree = NULL
          /\ Layers(shell) \subseteq Layers(t)
      BY ONLY <1>2, <3>1, SetActiveKeeps
    <3>3. ASSUME NEW M, Shown(shell, M) PROVE Shown(t, M)
      BY ONLY <1>2, <3>1, <3>3, SetActiveShown
    <3>4. Layers(t) = Layers(shell) \cup Range(Tree(shell, a)) \cup Range(Tree(shell, NULL))
      BY ONLY <1>2, <3>1, SetActiveEffect
    <3>5. w \in Range(Tree(shell, a))
      <4>1. /\ Listed(shell, Living) /\ Grounded(shell) /\ shell.parent \in Parents
        BY KInvFacts, Fields DEF TreeInv
      <4>2. r \in Windows /\ a # NULL
        BY <2>1, <4>1, RootOf, NullAssumption
      <4> QED BY <1>2, <2>1, <4>1, <4>2 DEF Listed, Tree
    <3> QED BY <3>2, <3>3, <3>4, <3>5
  <2>2. CASE a # r
    <3>1. t = ToInactive(shell, l) /\ shell.active_surface_tree # get_parent_root(shell, w)
          /\ l = One(w)
      BY <1>1, <2>2
    <3> HIDE DEF l
    <3>2. /\ ShellInv(t, Living)
          /\ Layers(t) = Layers(shell) \cup {w}
          /\ SameActive(shell, t)
          /\ \A M : Shown(shell, M) => Shown(t, M)
      BY ONLY <1>2, <3>1, StashEffect
    <3> QED BY <3>2 DEF SameActive
  <2> QED BY <2>1, <2>2
<1>5. window' \in [Windows -> {"none", "added", "mapped", "unmapped", "removed"}]
      /\ reparented' \in BOOLEAN
  BY <1>1 DEF KInv, KioskTypeOK
<1>6. shell'.active_surface_tree # NULL => window'[shell'.active_surface_tree] # "none"
  BY <1>1, <1>4 DEF KInv
<1>7. minimized' \subseteq Layers(shell')
  BY <1>1, <1>4 DEF KInv
<1>8. ~reparented' => Shown(shell', Mapped')
  BY <1>1, <1>3, <1>4 DEF KInv
<1>9. ShellInv(shell', Living')
  BY <1>3, <1>4
<1> QED BY <1>5, <1>6, <1>7, <1>8, <1>9, KInvNext

\* The restore command: the tree of the window is shown, the part of it below the
\* window comes to the top, and the window gets the focus.
LEMMA RestoreEffect ==
  ASSUME NEW sh, NEW A \in SUBSET Windows, ShellInv(sh, A), NEW w \in A,
         NEW r, r = get_parent_root(sh, w),
         NEW s, s = set_active_surface_tree(sh, r),
         NEW u, u = raise_surface_subtree(s, w),
         NEW t, t = surface_activate(u, w)
  PROVE  /\ ShellInv(t, A)
         /\ r \in A
         /\ Layers(sh) \subseteq Layers(t)
         /\ t.active_surface_tree = r
         /\ t.focused_surface = w
         /\ is_descendant_of(t, Head(t.normal_layer), w)
         /\ \A M : Shown(sh, M) => Shown(t, M)
<1>1. TreeInv(sh, A) /\ w \in Windows
  BY DEF ShellInv
<1>2. r \in A /\ r \in Windows \cup {NULL} /\ r # NULL
  BY <1>1, RootAlive, NullAssumption
<1>3. /\ ShellInv(s, A)
      /\ SameTrees(sh, s)
      /\ s.active_surface_tree = r
      /\ Layers(sh) \subseteq Layers(s)
  BY <1>2, SetActiveKeeps
<1>4. /\ ShellInv(u, A)
      /\ u.parent = s.parent
      /\ SameActive(s, u)
      /\ Layers(s) \subseteq Layers(u)
  BY <1>1, <1>3, RaiseKeeps
<1>5. u.active_surface_tree = r
  BY <1>3, <1>4 DEF SameActive
<1> DEFINE l == Part(u, r, w)
           n == Without(u.normal_layer, Range(l))
<1>6. /\ ShellInv(t, A)
      /\ t.parent = u.parent
      /\ t.focused_surface = w
      /\ SameActive(u, t)
      /\ Layers(u) \subseteq Layers(t)
      /\ \A M : Shown(u, M) => Shown(t, M \cup {w})
      /\ OnTop(u, t, w)
  BY <1>4, ActivateEffect
<1>7. ASSUME NEW M, Shown(sh, M) PROVE Shown(t, M)
  <2>1. Shown(s, M)
    BY <1>2, <1>7, SetActiveShown
  <2>2. Shown(u, M \cup {w})
    BY <1>1, <1>3, <2>1, RaiseShows DEF ShellInv
  <2>3. Shown(t, (M \cup {w}) \cup {w})
    BY <1>6, <2>2
  <2> QED BY <2>3, ShownLess
<1>8. is_descendant_of(t, Head(t.normal_layer), w)
  <2>1. u \in ShellType /\ u.parent \in Parents /\ Grounded(u) /\ Listed(u, A)
        /\ u.normal_layer \in Lists
    BY <1>4, Fields DEF ShellInv, TreeInv
  <2>2. u.parent = sh.parent
    BY <1>3, <1>4 DEF SameTrees
  <2>3. get_parent_root(u, w) = r
    BY <2>2, RootsSame
  <2>4. w \in Range(Tree(u, r))
    BY <1>1, <1>2, <2>1, <2>3 DEF Listed, Tree
  <2>5. l \in Lists /\ Range(l) = {x \in Range(Tree(u, r)) : w \in Ancestors(u, x)}
    BY <1>1, <1>2, <2>1, PartIsList
  <2>6. w \in Ancestors(u, w)
    BY <1>1, <2>1, AncestorsUp
  <2>7. n \in Lists
    BY <2>1, WithoutType
  <2>8. t.normal_layer = l \o n
    BY <1>5, <1>6 DEF OnTop, ActivePart
  <2> HIDE DEF l, n
  <2>9. l # <<>>
    BY <2>4, <2>5, <2>6, Ranges
  <2>10. Head(l \o n) = Head(l)
    BY <2>5, <2>7, <2>9, HeadOfConcat
  <2>11. Head(l) \in Range(l)
    BY <2>5, <2>9, HeadInRange
  <2>12. \A x : Ancestors(t, x) = Ancestors(u, x)
    BY <1>6, RootsSame
  <2>13. w \in Ancestors(u, Head(l))
    BY <2>5, <2>11
  <2>14. Head(t.normal_layer) = Head(l)
    BY ONLY <2>10, <2>8
  <2> QED BY ONLY <2>12, <2>13, <2>14 DEF is_descendant_of
<1> QED BY <1>2, <1>3, <1>4, <1>5, <1>6, <1>7, <1>8 DEF SameActive

LEMMA RestoreInv ==
  ASSUME KInv, NEW w \in Windows, acglass_restore_window(w)
  PROVE  /\ KInv'
         /\ shell'.focused_surface = w
         /\ shell'.active_surface_tree = get_parent_root(shell, w)
         /\ is_descendant_of(shell', Head(shell'.normal_layer), w)
<1> DEFINE r == get_parent_root(shell, w)
           s == set_active_surface_tree(shell, r)
           u == raise_surface_subtree(s, w)
<1>1. /\ Found(w)
      /\ shell' = surface_activate(u, w)
      /\ minimized' = minimized \ {w}
      /\ window' = window /\ reparented' = reparented
  BY DEF acglass_restore_window
<1>2. Living \in SUBSET Windows /\ ShellInv(shell, Living) /\ w \in Living
  <2>1. w \in Layers(shell)
    BY <1>1, KInvFacts, Fields, Ranges DEF Found, Layers
  <2> QED BY <2>1, KInvFacts
<1>3. Living' = Living /\ Mapped' = Mapped
  BY <1>1 DEF Living, Mapped, Alive
<1>4. /\ ShellInv(shell', Living)
      /\ r \in Living
      /\ Layers(shell) \subseteq Layers(shell')
      /\ shell'.active_surface_tree = r
      /\ shell'.focused_surface = w
      /\ is_descendant_of(shell', Head(shell'.normal_layer), w)
      /\ \A M : Shown(shell, M) => Shown(shell', M)
  <2> PICK t : t = shell'
    OBVIOUS
  <2>1. /\ r = get_parent_root(shell, w)
        /\ s = set_active_surface_tree(shell, r)
        /\ u = raise_surface_subtree(s, w)
        /\ t = surface_activate(u, w)
    BY <1>1
  <2> HIDE DEF r, s, u
  <2>2. /\ ShellInv(t, Living)
        /\ r \in Living
        /\ Layers(shell) \subseteq Layers(t)
        /\ t.active_surface_tree = r
        /\ t.focused_surface = w
        /\ is_descendant_of(t, Head(t.normal_layer), w)
        /\ \A M : Shown(shell, M) => Shown(t, M)
    BY ONLY <1>2, <2>1, RestoreEffect
  <2> QED BY <2>2
<1>5. window' \in [Windows -> {"none", "added", "mapped", "unmapped", "removed"}]
      /\ reparented' \in BOOLEAN
  BY <1>1 DEF KInv, KioskTypeOK
<1>6. shell'.active_surface_tree # NULL => window'[shell'.active_surface_tree] # "none"
  BY <1>1, <1>4 DEF Living, Alive
<1>7. minimized' \subseteq Layers(shell')
  BY <1>1, <1>4 DEF KInv
<1>8. ~reparented' => Shown(shell', Mapped')
  BY <1>1, <1>3, <1>4 DEF KInv
<1>9. ShellInv(shell', Living')
  BY <1>3, <1>4
<1>10. KInv'
  BY <1>5, <1>6, <1>7, <1>8, <1>9, KInvNext
<1> QED BY <1>4, <1>10

LEMMA ActivateInv ==
  ASSUME KInv, NEW w \in Windows, kiosk_shell_activate_view(w)
  PROVE  KInv'
<1>1. /\ window[w] = "mapped"
      /\ shell' = surface_activate(shell, w)
      /\ window' = window /\ minimized' = minimized /\ reparented' = reparented
  BY DEF kiosk_shell_activate_view
<1>2. Living \in SUBSET Windows /\ ShellInv(shell, Living) /\ w \in Living /\ w \in Mapped
  BY <1>1, KInvFacts DEF Alive
<1>3. Living' = Living /\ Mapped' = Mapped
  BY <1>1 DEF Living, Mapped, Alive
<1>4. /\ ShellInv(shell', Living)
      /\ SameActive(shell, shell')
      /\ Layers(shell) \subseteq Layers(shell')
      /\ \A M : Shown(shell, M) => Shown(shell', M \cup {w})
  <2> PICK t : t = shell'
    OBVIOUS
  <2>1. t = surface_activate(shell, w)
    BY <1>1
  <2>2. /\ ShellInv(t, Living)
        /\ SameActive(shell, t)
        /\ Layers(shell) \subseteq Layers(t)
        /\ \A M : Shown(shell, M) => Shown(t, M \cup {w})
    BY ONLY <1>2, <2>1, ActivateEffect
  <2> QED BY <2>2
<1>5. window' \in [Windows -> {"none", "added", "mapped", "unmapped", "removed"}]
      /\ reparented' \in BOOLEAN
  BY <1>1 DEF KInv, KioskTypeOK
<1>6. shell'.active_surface_tree # NULL => window'[shell'.active_surface_tree] # "none"
  BY <1>1, <1>4 DEF KInv, SameActive
<1>7. minimized' \subseteq Layers(shell')
  BY <1>1, <1>4 DEF KInv
<1>8. ~reparented' => Shown(shell', Mapped')
  <2>1. Mapped \cup {w} = Mapped
    BY <1>2
  <2> QED BY <1>1, <1>3, <1>4, <2>1 DEF KInv
<1>9. ShellInv(shell', Living')
  BY <1>3, <1>4
<1> QED BY <1>5, <1>6, <1>7, <1>8, <1>9, KInvNext

LEMMA RemovedInv ==
  ASSUME KInv, NEW w \in Windows, desktop_surface_removed(w)
  PROVE  KInv'
<1> DEFINE s == emit_parent_destroy(shell, w)
           u == PassFocus(s, w)
           B == Living \ {w}
           a == shell.active_surface_tree
<1>1. /\ Alive(w)
      /\ window' = [window EXCEPT ![w] = "removed"]
      /\ shell' = surface_destroy(u, w)
      /\ minimized' = minimized \ {w} /\ reparented' = reparented
  BY DEF desktop_surface_removed
<1>2. Living \in SUBSET Windows /\ ShellInv(shell, Living)
  BY KInvFacts
<1>3. Living' = B /\ Mapped' = Mapped \ {w}
  BY <1>1 DEF KInv, KioskTypeOK, Living, Mapped, Alive
<1>4. /\ ShellInv(s, Living)
      /\ Layers(shell) \subseteq Layers(s)
      /\ s.active_surface_tree \in Living \cup {a}
      /\ \A x \in Windows : s.parent[x] # w
      /\ \A M : Shown(shell, M) => Shown(s, M)
  <2>1. s = emit_parent_destroy(shell, w)
    OBVIOUS
  <2> HIDE DEF s
  <2> QED BY ONLY <1>2, <2>1, EmitEffect
<1>5. /\ ShellInv(u, Living)
      /\ u.parent = s.parent
      /\ u.focused_surface # w
      /\ Layers(s) \subseteq Layers(u)
      /\ u.active_surface_tree \in Living \cup {NULL, s.active_surface_tree}
      /\ \A M : Shown(s, M) => Shown(u, M)
  <2>1. u = PassFocus(s, w)
    OBVIOUS
  <2> HIDE DEF s, u
  <2> QED BY ONLY <1>2, <1>4, <2>1, PassFocusEffect
<1> HIDE DEF s, u
<1>6. /\ ShellInv(shell', B)
      /\ Layers(shell') = Layers(u) \ {w}
      /\ SameActive(u, shell')
      /\ \A M : Shown(u, M) => Shown(shell', M \ {w})
  <2> PICK t : t = shell'
    OBVIOUS
  <2>1. t = surface_destroy(u, w) /\ \A x \in Windows : u.parent[x] # w
    BY <1>1, <1>4, <1>5
  <2>2. /\ ShellInv(t, Living \ {w})
        /\ Layers(t) = Layers(u) \ {w}
        /\ SameActive(u, t)
        /\ \A M : Shown(u, M) => Shown(t, M \ {w})
    BY ONLY <1>2, <1>5, <2>1, DestroyEffect
  <2> QED BY <2>2
<1>7. window' \in [Windows -> {"none", "added", "mapped", "unmapped", "removed"}]
      /\ reparented' \in BOOLEAN
  BY <1>1 DEF KInv, KioskTypeOK
<1>8. shell'.active_surface_tree # NULL => window'[shell'.active_surface_tree] # "none"
  <2>1. shell'.active_surface_tree \in Living \cup {NULL, a}
    BY <1>4, <1>5, <1>6 DEF SameActive
  <2>2. a \in Windows \cup {NULL}
    BY KInvFacts, Fields
  <2>3. \A x \in Living : x \in Windows /\ window[x] # "none"
    BY DEF Living, Alive
  <2>4. a # NULL => window[a] # "none"
    BY DEF KInv
  <2> HIDE DEF a
  <2>5. \A x \in Windows : window[x] # "none" => window'[x] # "none"
    BY <1>1 DEF KInv, KioskTypeOK
  <2> QED BY <2>1, <2>2, <2>3, <2>4, <2>5
<1>9. minimized' \subseteq Layers(shell')
  BY <1>1, <1>4, <1>5, <1>6 DEF KInv
<1>10. ~reparented' => Shown(shell', Mapped')
  BY <1>1, <1>3, <1>4, <1>5, <1>6 DEF KInv
<1>11. ShellInv(shell', Living')
  BY <1>3, <1>6
<1> QED BY <1>7, <1>8, <1>9, <1>10, <1>11, KInvNext

-----------------------------------------------------------------------------
(* The theorems. *)

LEMMA NextInv ==
  ASSUME KInv, [Next]_vars
  PROVE  KInv'
<1>1. ASSUME UNCHANGED vars PROVE KInv'
  <2>1. window' = window /\ shell' = shell /\ minimized' = minimized /\ reparented' = reparented
    BY <1>1 DEF vars
  <2>2. Living' = Living /\ Mapped' = Mapped
    BY <2>1 DEF Living, Mapped, Alive
  <2> QED BY <2>1, <2>2, KInvNext DEF KInv, KioskTypeOK
<1>2. ASSUME NEW w \in Windows, desktop_surface_added(w) PROVE KInv'
  BY <1>2, AddedInv
<1>3. ASSUME NEW w \in Windows, desktop_surface_committed(w) PROVE KInv'
  BY <1>3, CommittedInv
<1>4. ASSUME NEW w \in Windows, weston_surface_unmap(w) PROVE KInv'
  BY <1>4, UnmapInv
<1>5. ASSUME NEW w \in Windows, NEW p \in Windows \cup {NULL}, desktop_surface_set_parent(w, p)
      PROVE  KInv'
  BY <1>5, ParentInv
<1>6. ASSUME NEW w \in Windows, desktop_surface_minimized_requested(w) PROVE KInv'
  BY <1>6, MinimizeInv
<1>7. ASSUME NEW w \in Windows, acglass_restore_window(w) PROVE KInv'
  BY <1>7, RestoreInv
<1>8. ASSUME NEW w \in Windows, kiosk_shell_activate_view(w) PROVE KInv'
  BY <1>8, ActivateInv
<1>9. ASSUME NEW w \in Windows, desktop_surface_removed(w) PROVE KInv'
  BY <1>9, RemovedInv
<1> QED BY <1>1, <1>2, <1>3, <1>4, <1>5, <1>6, <1>7, <1>8, <1>9 DEF Next

LEMMA Inductive == Spec => []KInv
<1>1. Init => KInv
  BY InitInv
<1>2. KInv /\ [Next]_vars => KInv'
  BY NextInv
<1> QED BY <1>1, <1>2, PTL DEF Spec

\* Every pointer of the shell names a window or none, and no focus_count, which
\* kiosk_shell_surface_activate decrements for the window that loses the focus,
\* goes below zero.
THEOREM KioskTypes == Spec => []KioskTypeOK
<1>1. KInv => KioskTypeOK
  BY DEF KInv
<1> QED BY <1>1, Inductive, PTL

\* The window with the focus was not freed, whatever was removed, unmapped or
\* minimized before: the assert(current_focus) of kiosk_shell_surface_activate.
THEOREM FocusIsLive == Spec => []FocusLive
<1>1. KInv => FocusLive
  BY DEF KInv, ShellInv, FocusInv, FocusLive, Living
<1> QED BY <1>1, Inductive, PTL

\* The list of a root holds the living windows below it and no other list holds
\* anything, for any number of windows and depth of dialogs, also when parents
\* go before their dialogs (kiosk_shell_surface_notify_parent_destroy).
THEOREM TreesAreComplete == Spec => []TreesComplete
<1>1. ASSUME KInv PROVE TreesComplete
  <2>1. /\ Living \in SUBSET Windows /\ TreeInv(shell, Living) /\ Listed(shell, Living)
        /\ \A x \in Windows : x \in Living <=> Alive(x)
        /\ \A x \in Windows : shell.surface_tree_list[x] \in Lists
    BY <1>1, KInvFacts, Fields DEF TreeInv
  <2>2. \A x \in Living : get_parent_root(shell, x) \in Living
    BY <2>1, RootAlive
  <2>3. ASSUME NEW r \in Windows
        PROVE  Range(shell.surface_tree_list[r]) =
                 {w \in Windows : Alive(r) /\ Alive(w) /\ get_parent_root(shell, w) = r}
    <3>1. Range(shell.surface_tree_list[r]) \subseteq Windows
      BY <2>1, Ranges
    <3>2. \A w \in Windows : w \in Range(shell.surface_tree_list[r]) <=>
                               w \in Living /\ get_parent_root(shell, w) = r
      BY <2>1 DEF Listed
    <3> QED BY <2>1, <2>2, <3>1, <3>2
  <2> QED BY <2>3 DEF TreesComplete
<1> QED BY <1>1, Inductive, PTL

\* The visible layer is the active tree in its order, with all its windows that
\* have contents, as long as no window that was there to see got a parent
\* (kiosk_shell_surface_set_parent changes the tree and not the layer).
THEOREM ActiveTreeIsShown == Spec => []ActiveTreeShown
<1>1. KInv => ActiveTreeShown
  <2> SUFFICES ASSUME KInv, ~reparented
               PROVE  LET tree == Tree(shell, shell.active_surface_tree)
                          shown == Range(shell.normal_layer)
                      IN  /\ shell.normal_layer = Keep(tree, shown)
                          /\ \A w \in Range(tree) : window[w] = "mapped" => w \in shown
    BY DEF ActiveTreeShown
  <2>1. Shown(shell, Mapped)
    BY DEF KInv
  <2>2. Range(Tree(shell, shell.active_surface_tree)) \subseteq Windows
    BY KInvFacts, Fields, TreeIsList, Ranges
  <2> QED BY <2>1, <2>2 DEF Shown, Mapped
<1> QED BY <1>1, Inductive, PTL

\* A window that said it was minimized, and kept its contents, is in one of the
\* two layers that acglass_find_window searches for the restore command.
THEOREM MinimizedAreFound == Spec => []MinimizedIsFound
<1>1. KInv => MinimizedIsFound
  <2> SUFFICES ASSUME KInv, NEW w \in minimized PROVE Found(w)
    BY DEF MinimizedIsFound
  <2>1. w \in Layers(shell)
    BY DEF KInv
  <2>2. Range(shell.normal_layer \o shell.inactive_layer) = Layers(shell)
    BY KInvFacts, Fields, Ranges DEF Layers
  <2> QED BY <2>1, <2>2 DEF Found
<1> QED BY <1>1, Inductive, PTL

\* The restore command of acglass_window_command_handler makes the tree of the
\* minimized window the active one, puts the window or one of its dialogs on top
\* and gives it the focus.
THEOREM RestoreShowsWindow == Spec => RestoreShows
<1> DEFINE S(w) == /\ shell'.focused_surface = w
                   /\ shell'.active_surface_tree = get_parent_root(shell, w)
                   /\ is_descendant_of(shell', Head(shell'.normal_layer), w)
           Step == \A w \in minimized \ minimized' : window' = window => S(w)
<1>1. ASSUME KInv, [Next]_vars PROVE [Step]_vars
  <2> SUFFICES ASSUME NEW m \in minimized \ minimized', window' = window PROVE S(m)
    BY <1>1
  <2>1. \A x \in Windows : window[x] = window'[x]
    OBVIOUS
  <2>2. PICK w \in Windows :
          \/ weston_surface_unmap(w)
          \/ acglass_restore_window(w)
          \/ desktop_surface_removed(w)
    BY <1>1 DEF Next, vars, desktop_surface_added, desktop_surface_committed,
                desktop_surface_set_parent, desktop_surface_minimized_requested,
                kiosk_shell_activate_view
  <2>3. window \in [Windows -> {"none", "added", "mapped", "unmapped", "removed"}]
    BY <1>1 DEF KInv, KioskTypeOK
  <2>4. ~weston_surface_unmap(w)
    BY <2>1, <2>3 DEF weston_surface_unmap
  <2>5. ~desktop_surface_removed(w)
    BY <2>1, <2>3 DEF desktop_surface_removed, Alive
  <2>6. acglass_restore_window(w)
    BY <2>2, <2>4, <2>5
  <2>7. m = w
    BY <2>6 DEF acglass_restore_window
  <2>8. S(w)
    BY <1>1, <2>6, RestoreInv
  <2> QED BY <2>7, <2>8
<1>2. RestoreShows <=> [][Step]_vars
  BY DEF RestoreShows
<1>3. Spec => []KInv
  BY Inductive
<1> QED BY <1>1, <1>2, <1>3, PTL DEF Spec
=============================================================================
