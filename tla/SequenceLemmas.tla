--------------------------- MODULE SequenceLemmas ---------------------------
(***************************************************************************)
(* What the helpers of SequencesExt with which the lists of the bridge are *)
(* modelled return, for the proofs about CommandDedup and Responses.       *)
(***************************************************************************)
EXTENDS Naturals, SequencesExt, SequenceTheorems, WellFoundedInduction, TLAPS

(* Where the elements of a sequence without its element p come from. *)
LEMMA RemoveAtProperties ==
  ASSUME NEW S, NEW s \in Seq(S), NEW p \in DOMAIN s
  PROVE  /\ RemoveAt(s, p) \in Seq(S)
         /\ Len(RemoveAt(s, p)) = Len(s) - 1
         /\ \A i \in 1 .. Len(s) - 1 :
               RemoveAt(s, p)[i] = IF i < p THEN s[i] ELSE s[i + 1]
<1>1. p \in 1 .. Len(s) /\ Len(s) \in Nat /\ DOMAIN s = 1 .. Len(s)
  BY LenProperties
<1> DEFINE a == SubSeq(s, 1, p - 1)
           b == SubSeq(s, p + 1, Len(s))
<1>2. \A i \in 1 .. Len(s) : s[i] \in S
  BY ElementOfSeq
<1>3. /\ a \in Seq(S) /\ Len(a) = p - 1
      /\ \A i \in 1 .. p - 1 : a[i] = s[i]
  <2>1. /\ a \in Seq(S) /\ Len(a) = IF 1 <= p - 1 THEN (p - 1) - 1 + 1 ELSE 0
        /\ \A i \in 1 .. (p - 1) - 1 + 1 : a[i] = s[1 + i - 1]
    <3>1. 1 \in Int /\ p - 1 \in Int /\ \A i \in 1 .. p - 1 : s[i] \in S
      BY <1>1, <1>2
    <3> QED BY <3>1, SubSeqProperties
  <2> HIDE DEF a
  <2>2. Len(a) = p - 1
    BY <1>1, <2>1
  <2>3. ASSUME NEW i \in 1 .. p - 1 PROVE a[i] = s[i]
    <3>1. i \in 1 .. (p - 1) - 1 + 1 /\ 1 + i - 1 = i
      BY <1>1
    <3> QED BY <2>1, <3>1
  <2> QED BY <2>1, <2>2, <2>3
<1>4. /\ b \in Seq(S) /\ Len(b) = Len(s) - p
      /\ \A i \in 1 .. Len(s) - p : b[i] = s[p + i]
  <2>1. /\ b \in Seq(S)
        /\ Len(b) = IF p + 1 <= Len(s) THEN Len(s) - (p + 1) + 1 ELSE 0
        /\ \A i \in 1 .. Len(s) - (p + 1) + 1 : b[i] = s[(p + 1) + i - 1]
    <3>1. p + 1 \in Int /\ Len(s) \in Int /\ \A i \in p + 1 .. Len(s) : s[i] \in S
      BY <1>1, <1>2
    <3> QED BY <3>1, SubSeqProperties
  <2> HIDE DEF b
  <2>2. Len(b) = Len(s) - p
    BY <1>1, <2>1
  <2>3. ASSUME NEW i \in 1 .. Len(s) - p PROVE b[i] = s[p + i]
    <3>1. i \in 1 .. Len(s) - (p + 1) + 1 /\ (p + 1) + i - 1 = p + i
      BY <1>1
    <3> QED BY <2>1, <3>1
  <2> QED BY <2>1, <2>2, <2>3
<1>5. RemoveAt(s, p) = a \o b
  BY DEF RemoveAt
<1> HIDE DEF a, b
<1>6. /\ a \o b \in Seq(S) /\ Len(a \o b) = Len(a) + Len(b)
      /\ \A i \in 1 .. Len(a) + Len(b) :
            (a \o b)[i] = IF i <= Len(a) THEN a[i] ELSE b[i - Len(a)]
  BY <1>3, <1>4, ConcatProperties
<1>7. ASSUME NEW i \in 1 .. Len(s) - 1
      PROVE  (a \o b)[i] = IF i < p THEN s[i] ELSE s[i + 1]
  <2>1. CASE i < p
    BY <1>1, <1>3, <1>4, <1>6, <2>1
  <2>2. CASE ~(i < p)
    <3> DEFINE j == i - (p - 1)
    <3>1. j \in 1 .. Len(s) - p /\ p + j = i + 1
      BY <1>1, <2>2
    <3>2. i \in 1 .. Len(a) + Len(b) /\ ~(i <= Len(a)) /\ i - Len(a) = j
      BY <1>1, <1>3, <1>4, <2>2
    <3>3. (a \o b)[i] = b[j]
      BY <1>6, <3>2
    <3> HIDE DEF j
    <3>4. b[j] = s[p + j]
      BY <1>4, <3>1
    <3> QED BY <2>2, <3>1, <3>3, <3>4
  <2> QED BY <2>1, <2>2
<1> QED BY <1>1, <1>3, <1>4, <1>5, <1>6, <1>7

(* A non-empty set of positions has a least element, which Min returns.    *)
LEMMA MinOfPositions ==
  ASSUME NEW n \in Nat, NEW I, I \subseteq 1 .. n, I # {}
  PROVE  Min(I) \in I
<1>1. I \subseteq Nat
  OBVIOUS
<1> DEFINE R == OpToRel(<, Nat)
<1>2. R = {ss \in Nat \X Nat : ss[1] < ss[2]}
  BY DEF OpToRel
<1>3. IsWellFoundedOn(R, Nat)
  BY NatLessThanWellFounded
<1> HIDE DEF R
<1>4. PICK x \in I : \A y \in I : <<y, x>> \notin R
  BY <1>1, <1>3, WFMin
<1>5. \A y \in I : x <= y
  <2> SUFFICES ASSUME NEW y \in I, ~(x <= y) PROVE FALSE
    OBVIOUS
  <2>1. <<y, x>> \in Nat \X Nat /\ <<y, x>>[1] < <<y, x>>[2]
    BY <1>1
  <2> QED BY <1>2, <1>4, <2>1
<1> QED BY <1>5 DEF Min
=============================================================================
