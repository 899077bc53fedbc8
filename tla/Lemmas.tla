-------------------------------- MODULE Lemmas --------------------------------
(***************************************************************************)
(* Facts about naturals and sequences that the proofs of several modules   *)
(* rest on.                                                                *)
(***************************************************************************)
EXTENDS Naturals, Sequences, NaturalsInduction, WellFoundedInduction, TLAPS

\* A set of numbers has a least one.
LEMMA LeastOf ==
    ASSUME NEW T, T \subseteq Nat, T # {}
    PROVE  \E n \in T : \A m \in T : n <= m
  <1> DEFINE Less == {ss \in Nat \X Nat : ss[1] < ss[2]}
  <1>1. IsWellFoundedOn(Less, Nat)
    BY NatLessThanWellFounded, Zenon DEF OpToRel
  <1>2. PICK n \in T : \A m \in T : <<m, n>> \notin Less
    <2> HIDE DEF Less
    <2> QED
      BY <1>1, WFMin
  <1>3. ASSUME NEW m \in T PROVE n <= m
    <2>1. m \in Nat /\ n \in Nat
      BY <1>3
    <2>2. ASSUME m < n PROVE <<m, n>> \in Less
      BY <2>1, <2>2
    <2>3. ~(m < n)
      BY <1>2, <1>3, <2>2, Zenon
    <2> QED
      BY <2>1, <2>3
  <1> QED
    BY <1>3

\* A bounded set of numbers has a greatest one.
LEMMA GreatestOf ==
    ASSUME NEW T, T \subseteq Nat, T # {}, NEW top \in Nat, \A n \in T : n <= top
    PROVE  \E n \in T : \A m \in T : m <= n
  <1> DEFINE U == {u \in Nat : \E n \in T : u = top - n}
  <1>1. U \subseteq Nat
    OBVIOUS
  <1>2. U # {}
    <2>1. PICK n \in T : TRUE
      OBVIOUS
    <2>2. top - n \in U
      BY <2>1
    <2> QED
      BY <2>2
  <1>3. PICK u \in U : \A v \in U : u <= v
    <2> HIDE DEF U
    <2> QED
      BY <1>1, <1>2, LeastOf
  <1>4. PICK n \in T : u = top - n
    BY <1>3
  <1>5. ASSUME NEW m \in T PROVE m <= n
    <2>1. top - m \in U
      BY <1>5
    <2>2. u <= top - m
      BY <1>3, <2>1
    <2> QED
      BY <1>4, <1>5, <2>2
  <1> QED
    BY <1>5

\* An element of a sequence over S is in S.
LEMMA ElementIs ==
    ASSUME NEW S, NEW s \in Seq(S), NEW k \in 1..Len(s)
    PROVE  s[k] \in S
  OBVIOUS

\* What Append leaves in place and what it adds.
LEMMA AppendIs ==
    ASSUME NEW S, NEW s \in Seq(S), NEW e \in S
    PROVE  /\ Append(s, e) \in Seq(S)
           /\ Len(Append(s, e)) = Len(s) + 1
           /\ \A k \in 1..Len(s) : Append(s, e)[k] = s[k]
           /\ Append(s, e)[Len(s) + 1] = e
  OBVIOUS

\* A sequence over A is one over any larger set.
LEMMA SeqWidens ==
    ASSUME NEW A, NEW B, A \subseteq B, NEW s \in Seq(A)
    PROVE  s \in Seq(B)
  OBVIOUS

\* A sequence of consecutive numbers from o on.
LEMMA CountsUp ==
    ASSUME NEW S, NEW s \in Seq(S), NEW n \in Nat, NEW o, Len(s) = n,
           \A k \in 1..n : s[k] = o + k - 1
    PROVE  s = [k \in 1..n |-> o + k - 1]
  OBVIOUS

\* A slice that ends before it starts is empty.
LEMMA EmptySlice ==
    ASSUME NEW S, NEW s \in Seq(S), NEW m \in Nat, NEW n \in Nat, n <= m
    PROVE  SubSeq(s, m + 1, n) = <<>>
  OBVIOUS

\* The first n elements of a sequence.
LEMMA PrefixIs ==
    ASSUME NEW S, NEW s \in Seq(S), NEW n \in 0..Len(s)
    PROVE  /\ SubSeq(s, 1, n) \in Seq(S)
           /\ Len(SubSeq(s, 1, n)) = n
           /\ \A k \in 1..n : SubSeq(s, 1, n)[k] = s[k]
  <1>1. Len(s) \in Nat
    OBVIOUS
  <1>2. SubSeq(s, 1, n) \in Seq(S)
    OBVIOUS
  <1>3. Len(SubSeq(s, 1, n)) = n
    BY <1>1
  <1>4. \A k \in 1..n : SubSeq(s, 1, n)[k] = s[k]
    BY <1>1
  <1> QED
    BY <1>2, <1>3, <1>4

\* A sequence that agrees with s from m on is the slice of that length.
LEMMA SliceIs ==
    ASSUME NEW S, NEW s \in Seq(S), NEW t \in Seq(S), NEW m \in Nat,
           m + Len(t) <= Len(s),
           \A k \in 1..Len(t) : t[k] = s[m + k]
    PROVE  t = SubSeq(s, m + 1, m + Len(t))
  <1> DEFINE u == SubSeq(s, m + 1, m + Len(t))
  <1>1. Len(t) \in Nat /\ Len(s) \in Nat
    OBVIOUS
  <1>2. u \in Seq(S)
    OBVIOUS
  <1>3. Len(u) = Len(t)
    BY <1>1
  <1>4. \A k \in 1..Len(t) : u[k] = t[k]
    BY <1>1
  <1> HIDE DEF u
  <1>5. u = t
    BY <1>2, <1>3, <1>4
  <1> QED
    BY <1>5 DEF u
===============================================================================
