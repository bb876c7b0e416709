---------------------------- MODULE PrefixLemmas ----------------------------
(***************************************************************************)
(* Facts about prefixes of sequences, for the proofs that a variant of     *)
(* `elastic` implements Tee.                                               *)
(***************************************************************************)
EXTENDS SequenceTheorems, Naturals, TLAPS

(* As Tee defines it. *)
PrefixesOf(s) == {SubSeq(s, 1, n) : n \in 0..Len(s)}

(* A sequence is a prefix of any continuation of it. *)
LEMMA PrefixOfConcat ==
  ASSUME NEW S, NEW s \in Seq(S), NEW t \in Seq(S)
  PROVE  s \in PrefixesOf(s \o t)
  <1>1. s \o t \in Seq(S) /\ Len(s \o t) = Len(s) + Len(t)
    BY ConcatProperties
  <1>2. Len(s) \in 0..Len(s \o t)
    BY <1>1, LenProperties
  <1>3. SubSeq(s \o t, 1, Len(s)) = s
    <2>1. CASE s = <<>>
      BY <2>1, SubSeqEmpty
    <2>2. CASE s # <<>>
      <3>1. 1 \in 1..Len(s) /\ Len(s) \in 1..Len(s)
        BY <2>2, EmptySeq, LenProperties
      <3>2. SubSeq(s \o t, 1, Len(s)) = SubSeq(s, 1, Len(s))
        BY <3>1, SubSeqOfConcat1
      <3> QED
        BY <3>2, SubSeqFull
    <2> QED
      BY <2>1, <2>2
  <1> QED
    BY <1>2, <1>3 DEF PrefixesOf

(* A sequence is any prefix of it followed by the rest. *)
LEMMA PrefixSplit ==
  ASSUME NEW S, NEW s \in Seq(S), NEW n \in 0..Len(s)
  PROVE  /\ SubSeq(s, 1, n) \in Seq(S)
         /\ SubSeq(s, n + 1, Len(s)) \in Seq(S)
         /\ s = SubSeq(s, 1, n) \o SubSeq(s, n + 1, Len(s))
  <1>1. Len(s) \in Nat /\ \A i \in 1..Len(s) : s[i] \in S
    BY ElementOfSeq, LenProperties
  <1>2. SubSeq(s, 1, n) \in Seq(S) /\ SubSeq(s, n + 1, Len(s)) \in Seq(S)
    BY <1>1, SubSeqProperties
  <1>3. SubSeq(s, 1, n) \o SubSeq(s, n + 1, Len(s)) = SubSeq(s, 1, Len(s))
    <2>1. 1 \in 1..Len(s) + 1 /\ n \in 1 - 1..Len(s) /\ Len(s) \in n..Len(s)
      BY <1>1
    <2> QED
      BY <2>1, ConcatAdjacentSubSeq
  <1> QED
    BY <1>2, <1>3, SubSeqFull

(* A prefix of a prefix is one. *)
LEMMA PrefixTransitive ==
  ASSUME NEW S, NEW u \in Seq(S),
         NEW t \in PrefixesOf(u), NEW s \in PrefixesOf(t)
  PROVE  s \in PrefixesOf(u)
  <1>1. PICK n \in 0..Len(u) : t = SubSeq(u, 1, n)
    BY DEF PrefixesOf
  <1>2. PICK m \in 0..Len(t) : s = SubSeq(t, 1, m)
    BY DEF PrefixesOf
  <1> DEFINE b == SubSeq(u, n + 1, Len(u))
  <1> DEFINE a == SubSeq(t, m + 1, Len(t))
  <1>3. t \in Seq(S) /\ b \in Seq(S) /\ u = t \o b
    BY <1>1, PrefixSplit
  <1>4. s \in Seq(S) /\ a \in Seq(S) /\ t = s \o a
    BY <1>2, <1>3, PrefixSplit
  <1> HIDE DEF a, b
  <1>5. u = s \o (a \o b)
    BY <1>3, <1>4, ConcatAssociative
  <1>6. a \o b \in Seq(S)
    BY <1>3, <1>4, ConcatProperties
  <1> QED
    BY <1>4, <1>5, <1>6, PrefixOfConcat

(* What reading from n to m adds to the bytes of s read so far. *)
LEMMA PrefixGrows ==
  ASSUME NEW S, NEW s \in Seq(S), NEW m \in 0..Len(s), NEW n \in 0..m
  PROVE  /\ SubSeq(s, 1, m) \in Seq(S)
         /\ SubSeq(s, 1, n) \in Seq(S)
         /\ SubSeq(s, n + 1, m) \in Seq(S)
         /\ SubSeq(s, 1, m) = SubSeq(s, 1, n) \o SubSeq(s, n + 1, m)
         /\ Len(SubSeq(s, n + 1, m)) = m - n
         /\ SubSeq(s, 1, n) \in PrefixesOf(SubSeq(s, 1, m))
  <1> Len(s) \in Nat /\ \A i \in 1..Len(s) : s[i] \in S
    BY ElementOfSeq, LenProperties
  <1>1. SubSeq(s, 1, m) \in Seq(S) /\ SubSeq(s, n + 1, m) \in Seq(S)
        /\ SubSeq(s, 1, n) \in Seq(S)
    BY SubSeqProperties
  <1>2. SubSeq(s, 1, m) = SubSeq(s, 1, n) \o SubSeq(s, n + 1, m)
    <2>1. 1 \in 1..Len(s) + 1 /\ n \in 1 - 1..Len(s) /\ m \in n..Len(s)
      OBVIOUS
    <2> QED
      BY <2>1, ConcatAdjacentSubSeq
  <1>3. Len(SubSeq(s, n + 1, m)) = m - n
    BY SubSeqProperties
  <1> QED
    BY <1>1, <1>2, <1>3, PrefixOfConcat
=============================================================================
