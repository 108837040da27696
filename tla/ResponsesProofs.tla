-------------------------- MODULE ResponsesProofs --------------------------
(***************************************************************************)
(* Proofs about the publication of results, for any results, keys and      *)
(* size of the queue.                                                      *)
(***************************************************************************)
EXTENDS Responses, SequenceLemmas

In(s) == {s[i] : i \in DOMAIN s}
Distinct(s) == \A i, j \in DOMAIN s : s[i] = s[j] => i = j
DistinctKeys(s) == \A i, j \in DOMAIN s : KeyOf[s[i]] = KeyOf[s[j]] => i = j

(* The parts of the inductive invariant.  A flusher holds the lock as long *)
(* as it has a copy of the queue.                                          *)
LockHeld == \A f \in Flushers :
    /\ at[f] \in {"publish", "remove"} <=> lock = f
    /\ lock # f => snapshot[f] = <<>>

(* What the flusher is about to remove has been resolved.                  *)
RemovesResolved == \A f \in Flushers : at[f] = "remove" =>
    snapshot[f] # <<>> /\ Resolved(Head(snapshot[f]))

(* A result its sender is not through with is nowhere else.                *)
SenderFirst == \A r \in Results : stage[r] # "done" =>
    /\ r \notin In(published) /\ r \notin In(pending)
    /\ \A f \in Flushers : r \notin In(snapshot[f])

(* What a flusher has yet to publish has not been published.               *)
Unsent(f) == In(IF at[f] = "remove" THEN Tail(snapshot[f]) ELSE snapshot[f])

CopiesUnpublished == \A f \in Flushers :
    Distinct(snapshot[f]) /\ \A r \in In(published) : r \notin Unsent(f)

(* What waits has not been published, but for the one to be removed.       *)
WaitingUnpublished == \A r \in In(pending) \cap In(published) :
    \E f \in Flushers : at[f] = "remove" /\ Head(snapshot[f]) = r

Inv == /\ TypeOK /\ PublishedOnce /\ LockHeld /\ RemovesResolved
       /\ SenderFirst /\ CopiesUnpublished /\ WaitingUnpublished

-----------------------------------------------------------------------------
(* The list of the waiting results. *)
LEMMA SeqFacts ==
  ASSUME NEW s \in Seq(Results)
  PROVE  /\ Len(s) \in Nat /\ DOMAIN s = 1 .. Len(s)
         /\ In(s) \subseteq Results /\ (In(s) = {} <=> s = <<>>)
<1>1. Len(s) \in Nat /\ DOMAIN s = 1 .. Len(s) /\ s \in [1 .. Len(s) -> Results]
  BY LenProperties
<1>2. s # <<>> => Len(s) \in Nat \ {0}
  BY EmptySeq
<1>3. s # <<>> => In(s) # {}
  <2> SUFFICES ASSUME s # <<>> PROVE In(s) # {}
    OBVIOUS
  <2>1. 1 \in DOMAIN s
    BY <1>1, <1>2
  <2> QED BY <2>1 DEF In
<1>4. s = <<>> => In(s) = {}
  BY DEF In
<1> QED BY <1>1, <1>3, <1>4 DEF In

LEMMA RemovedAt ==
  ASSUME NEW s \in Seq(Results), DistinctKeys(s), NEW p \in DOMAIN s
  PROVE  /\ RemoveAt(s, p) \in Seq(Results) /\ Len(RemoveAt(s, p)) = Len(s) - 1
         /\ DistinctKeys(RemoveAt(s, p))
         /\ In(RemoveAt(s, p)) = In(s) \ {s[p]}
<1> DEFINE t == RemoveAt(s, p)
<1>1. Len(s) \in Nat /\ DOMAIN s = 1 .. Len(s) /\ p \in 1 .. Len(s)
  BY SeqFacts
<1>2. /\ t \in Seq(Results) /\ Len(t) = Len(s) - 1 /\ DOMAIN t = 1 .. Len(s) - 1
      /\ \A i \in 1 .. Len(s) - 1 : t[i] = IF i < p THEN s[i] ELSE s[i + 1]
  BY RemoveAtProperties, LenProperties
<1> HIDE DEF t
<1>3. ASSUME NEW i \in DOMAIN t
      PROVE  LET h == IF i < p THEN i ELSE i + 1 IN h \in DOMAIN s /\ h # p /\ t[i] = s[h]
  BY <1>1, <1>2
<1>4. DistinctKeys(t)
  <2> SUFFICES ASSUME NEW i \in DOMAIN t, NEW j \in DOMAIN t, KeyOf[t[i]] = KeyOf[t[j]]
               PROVE  i = j
    BY DEF DistinctKeys
  <2>1. (IF i < p THEN i ELSE i + 1) = (IF j < p THEN j ELSE j + 1)
    BY <1>3 DEF DistinctKeys
  <2> QED BY <1>1, <1>2, <2>1
<1>5. In(t) \subseteq In(s) \ {s[p]}
  <2> SUFFICES ASSUME NEW i \in DOMAIN t PROVE t[i] \in In(s) /\ t[i] # s[p]
    BY DEF In
  <2> QED BY <1>3 DEF In, DistinctKeys
<1>6. ASSUME NEW i \in DOMAIN s, s[i] # s[p] PROVE s[i] \in In(t)
  <2>1. CASE i < p
    <3>1. i \in DOMAIN t /\ t[i] = s[i]
      BY <1>1, <1>2, <2>1
    <3> QED BY <3>1 DEF In
  <2>2. CASE i > p
    <3>1. i - 1 \in 1 .. Len(s) - 1 /\ ~(i - 1 < p) /\ (i - 1) + 1 = i
      BY <1>1, <2>2
    <3>2. t[i - 1] = s[i] /\ i - 1 \in DOMAIN t
      BY <1>2, <3>1
    <3> QED BY <3>2 DEF In
  <2> QED BY <1>1, <1>6, <2>1, <2>2
<1>7. In(s) \ {s[p]} \subseteq In(t)
  <2> SUFFICES ASSUME NEW r \in In(s), r # s[p] PROVE r \in In(t)
    OBVIOUS
  <2>1. PICK i \in DOMAIN s : r = s[i]
    BY DEF In
  <2> QED BY <1>6, <2>1
<1>8. In(t) = In(s) \ {s[p]}
  BY <1>5, <1>7
<1> QED BY <1>2, <1>4, <1>8 DEF t

(* Removing a result that has been published, if it still waits.           *)
LEMMA RemovedFirst ==
  ASSUME NEW s \in Seq(Results), DistinctKeys(s), NEW r
  PROVE  /\ RemoveFirst(s, r) \in Seq(Results) /\ Len(RemoveFirst(s, r)) <= Len(s)
         /\ DistinctKeys(RemoveFirst(s, r))
         /\ In(RemoveFirst(s, r)) = In(s) \ {r}
<1> DEFINE I == {i \in 1 .. Len(s) : s[i] = r}
<1>1. Len(s) \in Nat /\ DOMAIN s = 1 .. Len(s)
  BY SeqFacts
<1>2. CASE I # {}
  <2> DEFINE p == Min(I)
  <2>1. p \in DOMAIN s /\ s[p] = r
    <3>1. p \in I
      BY <1>1, <1>2, MinOfPositions
    <3> QED BY <1>1, <3>1
  <2>2. RemoveFirst(s, r) = RemoveAt(s, p)
    BY <1>2 DEF RemoveFirst, SelectInSeq
  <2> HIDE DEF p, I
  <2>3. /\ RemoveAt(s, p) \in Seq(Results) /\ Len(RemoveAt(s, p)) = Len(s) - 1
        /\ DistinctKeys(RemoveAt(s, p)) /\ In(RemoveAt(s, p)) = In(s) \ {s[p]}
    BY <2>1, RemovedAt
  <2> DEFINE n == Len(RemoveAt(s, p))
  <2>4. n = Len(s) - 1
    BY <2>3
  <2> HIDE DEF n
  <2>5. n <= Len(s)
    BY <1>1, <2>4
  <2> QED BY <2>1, <2>2, <2>3, <2>5 DEF n
<1>3. CASE I = {}
  <2>1. RemoveFirst(s, r) = s
    BY <1>3 DEF RemoveFirst
  <2>2. r \notin In(s)
    BY <1>1, <1>3 DEF In
  <2> QED BY <1>1, <2>1, <2>2
<1> QED BY <1>2, <1>3

(* Evicting takes one result away, a safety result only if there is        *)
(* nothing else.                                                           *)
LEMMA Evicted ==
  ASSUME NEW s \in Seq(Results), DistinctKeys(s), s # <<>>
  PROVE  /\ Evict(s) \in Seq(Results) /\ Len(Evict(s)) = Len(s) - 1
         /\ DistinctKeys(Evict(s))
         /\ \E v \in In(s) : /\ In(Evict(s)) = In(s) \ {v}
                             /\ v \in Safety => In(s) \subseteq Safety
<1> DEFINE I == {i \in 1 .. Len(s) : s[i] \notin Safety}
           p == IF I = {} THEN 1 ELSE Min(I)
<1>1. Len(s) \in Nat \ {0} /\ DOMAIN s = 1 .. Len(s)
  BY SeqFacts, EmptySeq
<1>2. I # {} => Min(I) \in I
  BY <1>1, MinOfPositions
<1>3. p \in DOMAIN s /\ (s[p] \in Safety => I = {})
  BY <1>1, <1>2
<1>4. Evict(s) = RemoveAt(s, p)
  <2>1. CASE I = {}
    BY <2>1 DEF Evict, SelectInSeq
  <2>2. CASE I # {}
    <3>1. Min(I) # 0
      BY <1>1, <1>2, <2>2
    <3> QED BY <2>2, <3>1 DEF Evict, SelectInSeq
  <2> QED BY <2>1, <2>2
<1>5. I = {} => In(s) \subseteq Safety
  BY <1>1 DEF In
<1> HIDE DEF p, I
<1>6. s[p] \in In(s)
  BY <1>3 DEF In
<1> QED BY <1>3, <1>4, <1>5, <1>6, RemovedAt

(* Appending a result under a key of its own. *)
LEMMA Appended ==
  ASSUME NEW s \in Seq(Results), DistinctKeys(s), NEW r \in Results,
         \A q \in In(s) : KeyOf[q] # KeyOf[r]
  PROVE  /\ Append(s, r) \in Seq(Results) /\ Len(Append(s, r)) = Len(s) + 1
         /\ DistinctKeys(Append(s, r))
         /\ In(Append(s, r)) = In(s) \cup {r}
<1> DEFINE t == Append(s, r)
<1>1. /\ t \in Seq(Results) /\ Len(t) = Len(s) + 1 /\ DOMAIN t = 1 .. Len(s) + 1
      /\ \A i \in 1 .. Len(s) : t[i] = s[i]
      /\ t[Len(s) + 1] = r
      /\ Len(s) \in Nat /\ DOMAIN s = 1 .. Len(s)
  BY AppendProperties, LenProperties
<1> HIDE DEF t
<1>2. \A i \in DOMAIN s : KeyOf[s[i]] # KeyOf[r]
  BY DEF In
<1>3. DistinctKeys(t)
  <2> SUFFICES ASSUME NEW i \in DOMAIN t, NEW j \in DOMAIN t, KeyOf[t[i]] = KeyOf[t[j]]
               PROVE  i = j
    BY DEF DistinctKeys
  <2>1. CASE i \in DOMAIN s /\ j \in DOMAIN s
    BY <1>1, <2>1 DEF DistinctKeys
  <2>2. CASE i \in DOMAIN s /\ j = Len(s) + 1
    BY <1>1, <1>2, <2>2
  <2>3. CASE i = Len(s) + 1 /\ j \in DOMAIN s
    BY <1>1, <1>2, <2>3
  <2> QED BY <1>1, <2>1, <2>2, <2>3
<1>4. In(t) = In(s) \cup {r}
  <2>1. \A i \in DOMAIN s : i \in DOMAIN t /\ t[i] = s[i]
    BY <1>1
  <2>2. Len(s) + 1 \in DOMAIN t
    BY <1>1
  <2>3. \A i \in DOMAIN t : i \in DOMAIN s \/ i = Len(s) + 1
    BY <1>1
  <2> QED BY <1>1, <2>1, <2>2, <2>3 DEF In
<1> QED BY <1>1, <1>3, <1>4 DEF t

(* Queuing a new result: it takes the place of the one under its key, or   *)
(* is appended, after an eviction if the queue is full.                    *)
LEMMA QueuedProperties ==
  ASSUME NEW s \in Seq(Results), DistinctKeys(s), Len(s) <= Capacity,
         NEW r \in Results, r \notin In(s)
  PROVE  /\ Queued(s, r) \in Seq(Results) /\ Len(Queued(s, r)) <= Capacity
         /\ DistinctKeys(Queued(s, r))
         /\ \E gone \in SUBSET In(s) :
              /\ In(Queued(s, r)) = (In(s) \ gone) \cup {r}
              /\ \A v \in gone :
                   \/ KeyOf[v] = KeyOf[r]
                   \/ Len(s) = Capacity /\ (v \in Safety => In(s) \subseteq Safety)
<1> DEFINE k == KeyOf[r]
           I == {i \in 1 .. Len(s) : KeyOf[s[i]] = k}
<1>1. Len(s) \in Nat /\ DOMAIN s = 1 .. Len(s) /\ Capacity \in Nat \ {0}
  BY SeqFacts, ResponsesAssumption
<1>2. IndexOfKey(s, k) = IF I # {} THEN Min(I) ELSE 0
  BY DEF IndexOfKey, SelectInSeq
<1>3. CASE I # {}
  <2> DEFINE p == Min(I)
             t == [s EXCEPT ![p] = r]
  <2>1. p \in I
    BY <1>1, <1>3, MinOfPositions
  <2>2. p \in 1 .. Len(s) /\ KeyOf[s[p]] = k /\ p # 0
    BY <1>1, <2>1
  <2>3. Queued(s, r) = t
    BY <1>2, <1>3, <2>2 DEF Queued
  <2> HIDE DEF p, I
  <2>4. /\ t \in Seq(Results) /\ Len(t) = Len(s) /\ DOMAIN t = DOMAIN s
        /\ \A j \in 1 .. Len(s) : t[j] = IF j = p THEN r ELSE s[j]
    BY <1>1, <2>2, ExceptSeq
  <2> HIDE DEF t
  <2>5. DistinctKeys(t)
    BY <1>1, <2>2, <2>4 DEF DistinctKeys
  <2>6. \A j \in DOMAIN s : s[j] = s[p] => j = p
    BY <1>1, <2>2 DEF DistinctKeys
  <2>7. In(t) = (In(s) \ {s[p]}) \cup {r}
    <3>1. In(t) \subseteq (In(s) \ {s[p]}) \cup {r}
      BY <1>1, <2>4, <2>6 DEF In
    <3>2. r \in In(t)
      BY <1>1, <2>2, <2>4 DEF In
    <3>3. In(s) \ {s[p]} \subseteq In(t)
      BY <1>1, <2>4 DEF In
    <3> QED BY <3>1, <3>2, <3>3
  <2>8. {s[p]} \in SUBSET In(s)
    BY <1>1, <2>2 DEF In
  <2> QED BY <2>2, <2>3, <2>4, <2>5, <2>7, <2>8
<1>4. CASE I = {}
  <2>1. \A q \in In(s) : KeyOf[q] # KeyOf[r]
    BY <1>1, <1>4 DEF In
  <2> HIDE DEF I
  <2>2. CASE Len(s) >= Capacity
    <3>1. Queued(s, r) = Append(Evict(s), r)
      BY <1>2, <1>4, <2>2 DEF Queued
    <3>2. s # <<>>
      BY <1>1, <2>2
    <3>3. /\ Evict(s) \in Seq(Results) /\ Len(Evict(s)) = Len(s) - 1
          /\ DistinctKeys(Evict(s))
      BY <3>2, Evicted
    <3>4. PICK v \in In(s) : /\ In(Evict(s)) = In(s) \ {v}
                             /\ v \in Safety => In(s) \subseteq Safety
      BY <3>2, Evicted
    <3>5. /\ Append(Evict(s), r) \in Seq(Results)
          /\ Len(Append(Evict(s), r)) = Len(Evict(s)) + 1
          /\ DistinctKeys(Append(Evict(s), r))
          /\ In(Append(Evict(s), r)) = In(Evict(s)) \cup {r}
      BY <2>1, <3>3, <3>4, Appended
    <3>6. Len(s) = Capacity
      <4>1. /\ Len(s) \in Nat /\ Capacity \in Nat
            /\ Len(s) <= Capacity /\ Len(s) >= Capacity
        BY <1>1, <2>2
      <4> DEFINE n == Len(s)
      <4> HIDE DEF n
      <4>2. n \in Nat /\ n <= Capacity /\ n >= Capacity
        BY <4>1 DEF n
      <4>3. n = Capacity
        BY <4>1, <4>2
      <4> QED BY <4>3 DEF n
    <3> DEFINE n == Len(Evict(s))
    <3>8. n = Len(s) - 1
      BY <3>3
    <3> HIDE DEF n
    <3>9. n + 1 <= Capacity
      BY <1>1, <3>6, <3>8
    <3>7. {v} \in SUBSET In(s)
      OBVIOUS
    <3> QED BY <3>1, <3>3, <3>4, <3>5, <3>6, <3>7, <3>9 DEF n
  <2>3. CASE ~(Len(s) >= Capacity)
    <3>1. Queued(s, r) = Append(s, r)
      BY <1>2, <1>4, <2>3 DEF Queued
    <3>2. /\ Append(s, r) \in Seq(Results) /\ Len(Append(s, r)) = Len(s) + 1
          /\ DistinctKeys(Append(s, r)) /\ In(Append(s, r)) = In(s) \cup {r}
      BY <2>1, Appended
    <3>3. Len(s) + 1 <= Capacity
      BY <1>1, <2>3
    <3>4. {} \in SUBSET In(s) /\ In(s) \ {} = In(s)
      OBVIOUS
    <3> QED BY <3>1, <3>2, <3>3, <3>4
  <2> QED BY <2>2, <2>3
<1> QED BY <1>3, <1>4

(* Publishing a result that has not been published. *)
LEMMA AppendedDistinct ==
  ASSUME NEW s \in Seq(Results), Distinct(s), NEW r \in Results, r \notin In(s)
  PROVE  /\ Append(s, r) \in Seq(Results) /\ Distinct(Append(s, r))
         /\ In(Append(s, r)) = In(s) \cup {r}
<1> DEFINE t == Append(s, r)
<1>1. /\ t \in Seq(Results) /\ Len(t) = Len(s) + 1 /\ DOMAIN t = 1 .. Len(s) + 1
      /\ \A i \in 1 .. Len(s) : t[i] = s[i]
      /\ t[Len(s) + 1] = r
      /\ Len(s) \in Nat /\ DOMAIN s = 1 .. Len(s)
  BY AppendProperties, LenProperties
<1> HIDE DEF t
<1>2. /\ \A i \in DOMAIN s : i \in DOMAIN t /\ t[i] = s[i] /\ s[i] # r
      /\ Len(s) + 1 \in DOMAIN t
      /\ \A i \in DOMAIN t : i \in DOMAIN s \/ i = Len(s) + 1
  BY <1>1 DEF In
<1>3. Distinct(t)
  BY <1>1, <1>2 DEF Distinct
<1>4. In(t) = In(s) \cup {r}
  BY <1>1, <1>2 DEF In
<1> QED BY <1>1, <1>3, <1>4 DEF t

LEMMA TailFacts ==
  ASSUME NEW s \in Seq(Results), s # <<>>, Distinct(s)
  PROVE  /\ Head(s) \in In(s) /\ Head(s) \in Results
         /\ Tail(s) \in Seq(Results) /\ Distinct(Tail(s))
         /\ In(Tail(s)) = In(s) \ {Head(s)}
<1> DEFINE t == Tail(s)
<1>1. Len(s) \in Nat \ {0} /\ DOMAIN s = 1 .. Len(s) /\ Head(s) = s[1] /\ Head(s) \in Results
  BY SeqFacts, EmptySeq, HeadTailProperties
<1>2. /\ t \in Seq(Results) /\ Len(t) = Len(s) - 1 /\ DOMAIN t = 1 .. Len(t)
      /\ \A i \in 1 .. Len(t) : t[i] = s[i + 1]
  BY HeadTailProperties, LenProperties
<1> HIDE DEF t
<1>3. \A i \in DOMAIN t : i + 1 \in DOMAIN s /\ i + 1 # 1 /\ t[i] = s[i + 1]
  BY <1>1, <1>2
<1>4. \A i \in DOMAIN s : i # 1 => i - 1 \in DOMAIN t /\ t[i - 1] = s[i]
  <2> SUFFICES ASSUME NEW i \in DOMAIN s, i # 1 PROVE i - 1 \in DOMAIN t /\ t[i - 1] = s[i]
    OBVIOUS
  <2>1. i - 1 \in 1 .. Len(t) /\ (i - 1) + 1 = i
    BY <1>1, <1>2
  <2> QED BY <1>2, <2>1
<1>5. 1 \in DOMAIN s /\ Head(s) \in In(s)
  BY <1>1 DEF In
<1>6. Distinct(t)
  <2> SUFFICES ASSUME NEW i \in DOMAIN t, NEW j \in DOMAIN t, t[i] = t[j] PROVE i = j
    BY DEF Distinct
  <2>1. i + 1 = j + 1
    BY <1>3 DEF Distinct
  <2> QED BY <1>2, <2>1
<1>7. In(t) \subseteq In(s) \ {Head(s)}
  BY <1>1, <1>3, <1>5 DEF In, Distinct
<1>8. In(s) \ {Head(s)} \subseteq In(t)
  BY <1>1, <1>4 DEF In
<1>9. In(t) = In(s) \ {Head(s)}
  BY <1>7, <1>8
<1> QED BY <1>1, <1>2, <1>5, <1>6, <1>9 DEF t

-----------------------------------------------------------------------------
LEMMA InitInv == Init => Inv
<1> SUFFICES ASSUME Init PROVE Inv
  OBVIOUS
<1>1. /\ pending = <<>> /\ published = <<>> /\ lock = "free"
      /\ at = [f \in Flushers |-> "idle"]
      /\ snapshot = [f \in Flushers |-> <<>>]
      /\ stage = [r \in Results |-> "new"]
  BY DEF Init
<1>2. <<>> \in Seq(Results) /\ Len(<<>>) = 0 /\ In(<<>>) = {} /\ DOMAIN <<>> = {}
  BY DEF In
<1>3. TypeOK
  BY <1>1, <1>2, ResponsesAssumption DEF Init, TypeOK
<1>4. PublishedOnce /\ LockHeld /\ RemovesResolved
  BY <1>1, <1>2 DEF PublishedOnce, LockHeld, RemovesResolved, Flushers
<1>5. SenderFirst /\ CopiesUnpublished /\ WaitingUnpublished
  BY <1>1, <1>2 DEF SenderFirst, CopiesUnpublished, WaitingUnpublished, Distinct
<1> QED BY <1>3, <1>4, <1>5 DEF Inv

(* What the invariant says of one flusher's copy. *)
LEMMA CopyFacts ==
  ASSUME Inv, NEW f \in Flushers
  PROVE  /\ snapshot[f] \in Seq(Results) /\ Distinct(snapshot[f])
         /\ snapshot[f] # <<>> =>
              /\ Head(snapshot[f]) \in In(snapshot[f]) /\ Head(snapshot[f]) \in Results
              /\ Tail(snapshot[f]) \in Seq(Results) /\ Distinct(Tail(snapshot[f]))
              /\ In(Tail(snapshot[f])) = In(snapshot[f]) \ {Head(snapshot[f])}
         /\ Unsent(f) \subseteq In(snapshot[f])
<1>1. snapshot[f] \in Seq(Results) /\ Distinct(snapshot[f])
  BY DEF Inv, TypeOK, CopiesUnpublished
<1>2. snapshot[f] # <<>> =>
        /\ Head(snapshot[f]) \in In(snapshot[f]) /\ Head(snapshot[f]) \in Results
        /\ Tail(snapshot[f]) \in Seq(Results) /\ Distinct(Tail(snapshot[f]))
        /\ In(Tail(snapshot[f])) = In(snapshot[f]) \ {Head(snapshot[f])}
  BY <1>1, TailFacts
<1>3. at[f] = "remove" => snapshot[f] # <<>>
  BY DEF Inv, RemovesResolved
<1>4. Unsent(f) \subseteq In(snapshot[f])
  BY <1>2, <1>3 DEF Unsent
<1> QED BY <1>1, <1>2, <1>4

LEMMA QueueFacts ==
  ASSUME Inv
  PROVE  /\ pending \in Seq(Results) /\ DistinctKeys(pending) /\ Len(pending) <= Capacity
         /\ Distinct(pending)
         /\ published \in Seq(Results) /\ Distinct(published)
BY DEF Inv, TypeOK, PublishedOnce, DistinctKeys, Distinct

(* The sender. *)
LEMMA CheckConnectedStep ==
  ASSUME Inv, NEW r \in Results, CheckConnected(r) PROVE Inv'
<1>1. TypeOK'
  BY DEF Inv, TypeOK, CheckConnected, To
<1> QED BY <1>1 DEF Inv, CheckConnected, To, PublishedOnce, LockHeld, RemovesResolved, Resolved,
           Published, SenderFirst, CopiesUnpublished, Unsent, WaitingUnpublished, TypeOK

LEMMA PublishStep ==
  ASSUME Inv, NEW r \in Results, Publish(r) PROVE Inv'
<1>0. UNCHANGED <<session, pending, lock, at, snapshot>> /\ stage[r] = "publishing"
  BY DEF Publish, To
<1>1. CASE UNCHANGED published
  <2>1. stage' \in [Results -> {"new", "publishing", "queuing", "done"}]
    BY DEF Inv, TypeOK, Publish, To
  <2>2. \A q \in Results : stage'[q] # "done" => stage[q] # "done"
    BY DEF Inv, TypeOK, Publish, To
  <2>3. TypeOK'
    BY <1>0, <1>1, <2>1 DEF Inv, TypeOK
  <2> QED BY <1>0, <1>1, <2>2, <2>3 DEF Inv, PublishedOnce, LockHeld, RemovesResolved, Resolved,
             Published, SenderFirst, CopiesUnpublished, Unsent, WaitingUnpublished
<1>2. CASE stage' = [stage EXCEPT ![r] = "done"] /\ published' = Append(published, r)
  <2>1. /\ r \notin In(published) /\ r \notin In(pending)
        /\ \A f \in Flushers : r \notin In(snapshot[f])
    BY <1>0 DEF Inv, SenderFirst
  <2>2. /\ published' \in Seq(Results) /\ Distinct(published')
        /\ In(published') = In(published) \cup {r}
    BY <1>2, <2>1, QueueFacts, AppendedDistinct
  <2>3. TypeOK'
    BY <1>0, <1>2, <2>2 DEF Inv, TypeOK
  <2>4. PublishedOnce' /\ LockHeld' /\ RemovesResolved'
    <3>1. In(published) \subseteq In(published')
      BY <2>2
    <3> QED BY <1>0, <2>2, <3>1 DEF Inv, PublishedOnce, Distinct, LockHeld, RemovesResolved,
               Resolved, Published, In
  <2>5. SenderFirst'
    BY <1>0, <1>2, <2>2 DEF Inv, TypeOK, SenderFirst
  <2>6. CopiesUnpublished'
    <3>1. \A f \in Flushers : r \notin Unsent(f)
      BY <2>1, CopyFacts
    <3>2. \A f \in Flushers : Unsent(f)' = Unsent(f)
      BY <1>0 DEF Unsent
    <3> QED BY <1>0, <2>2, <3>1, <3>2 DEF Inv, CopiesUnpublished
  <2>7. WaitingUnpublished'
    BY <1>0, <2>1, <2>2 DEF Inv, WaitingUnpublished
  <2> QED BY <2>3, <2>4, <2>5, <2>6, <2>7 DEF Inv
<1> QED BY <1>1, <1>2 DEF Publish, To, PublishSucceeds, PublishTooLarge, PublishFails

LEMMA QueueStep ==
  ASSUME Inv, NEW r \in Results, Queue(r) PROVE Inv'
<1>0. /\ UNCHANGED <<session, lock, at, snapshot, published>> /\ stage[r] = "queuing"
      /\ stage' = [stage EXCEPT ![r] = "done"] /\ pending' = Queued(pending, r)
  BY DEF Queue, To
<1>1. r \notin In(published) /\ r \notin In(pending)
  BY <1>0 DEF Inv, SenderFirst
<1>2. /\ pending' \in Seq(Results) /\ Len(pending') <= Capacity /\ DistinctKeys(pending')
      /\ In(pending') \subseteq In(pending) \cup {r}
  BY <1>0, <1>1, QueueFacts, QueuedProperties
<1>3. TypeOK'
  BY <1>0, <1>2 DEF Inv, TypeOK
<1>4. PublishedOnce' /\ LockHeld' /\ RemovesResolved' /\ CopiesUnpublished'
  BY <1>0, <1>2 DEF Inv, PublishedOnce, DistinctKeys, LockHeld, RemovesResolved, Resolved,
     Published, CopiesUnpublished, Unsent
<1>5. SenderFirst'
  BY <1>0, <1>2 DEF Inv, TypeOK, SenderFirst
<1>6. WaitingUnpublished'
  BY <1>0, <1>1, <1>2 DEF Inv, WaitingUnpublished
<1> QED BY <1>3, <1>4, <1>5, <1>6 DEF Inv

(* Steps that only move a flusher that holds no lock, or the session. *)
LEMMA IdleStep ==
  ASSUME Inv, LoopAsks \/ Connect \/ Disconnect PROVE Inv'
<1>1. /\ UNCHANGED <<stage, pending, lock, snapshot, published>>
      /\ session' \in {"up", "lost", "down"}
      /\ at' \in [Flushers -> {"idle", "asked", "publish", "remove"}]
      /\ \A f \in Flushers : at'[f] = at[f] \/ (at[f] = "idle" /\ at'[f] = "asked")
  BY DEF Inv, TypeOK, LoopAsks, Connect, Disconnect, Flushers
<1>2. TypeOK'
  BY <1>1 DEF Inv, TypeOK
<1>3. \A f \in Flushers : /\ at'[f] \in {"publish", "remove"} <=> at[f] \in {"publish", "remove"}
                          /\ at'[f] = "remove" <=> at[f] = "remove"
                          /\ Unsent(f)' = Unsent(f)
  BY <1>1 DEF Unsent
<1> QED BY <1>1, <1>2, <1>3 DEF Inv, PublishedOnce, LockHeld, RemovesResolved, Resolved, Published,
           SenderFirst, CopiesUnpublished, WaitingUnpublished

(* The flushers. *)
LEMMA BeginFlushStep ==
  ASSUME Inv, NEW f \in Flushers, BeginFlush(f) PROVE Inv'
<1>0. UNCHANGED <<session, stage, pending, published>> /\ at[f] = "asked"
  BY DEF BeginFlush
<1>1. CASE lock' = lock /\ snapshot' = snapshot /\ at' = [at EXCEPT ![f] = "idle"]
  <2>1. TypeOK'
    BY <1>0, <1>1 DEF Inv, TypeOK
  <2>2. \A g \in Flushers : /\ at'[g] \in {"publish", "remove"} <=> at[g] \in {"publish", "remove"}
                            /\ at'[g] = "remove" <=> at[g] = "remove"
                            /\ Unsent(g)' = Unsent(g)
    BY <1>0, <1>1 DEF Inv, TypeOK, Unsent
  <2> QED BY <1>0, <1>1, <2>1, <2>2 DEF Inv, PublishedOnce, LockHeld, RemovesResolved, Resolved,
             Published, SenderFirst, CopiesUnpublished, WaitingUnpublished
<1>2. CASE /\ lock = "free" /\ lock' = f
           /\ snapshot' = [snapshot EXCEPT ![f] = pending]
           /\ at' = [at EXCEPT ![f] = "publish"]
  <2>0. \A g \in Flushers : at[g] \notin {"publish", "remove"} /\ snapshot[g] = <<>>
    BY <1>2 DEF Inv, LockHeld, Flushers
  <2>1. /\ snapshot'[f] = pending /\ at'[f] = "publish"
        /\ \A g \in Flushers : g # f => snapshot'[g] = <<>> /\ at'[g] = at[g]
    BY <1>2, <2>0 DEF Inv, TypeOK
  <2>2. TypeOK'
    BY <1>0, <1>2 DEF Inv, TypeOK
  <2>3. LockHeld'
    BY <1>2, <2>0, <2>1 DEF LockHeld
  <2>4. PublishedOnce' /\ RemovesResolved'
    BY <1>0, <2>0, <2>1 DEF Inv, PublishedOnce, RemovesResolved
  <2>5. SenderFirst'
    <3>1. \A g \in Flushers : g = f \/ In(snapshot'[g]) = {}
      BY <2>1 DEF In
    <3> QED BY <1>0, <2>1, <3>1 DEF Inv, SenderFirst
  <2>6. CopiesUnpublished'
    <3>1. In(pending) \cap In(published) = {}
      BY <2>0 DEF Inv, WaitingUnpublished
    <3>2. Unsent(f)' = In(pending)
      BY <2>1 DEF Unsent
    <3>3. \A g \in Flushers : g # f => Unsent(g)' = {} /\ Distinct(snapshot'[g])
      BY <2>0, <2>1 DEF Unsent, In, Distinct
    <3> QED BY <1>0, <2>1, <3>1, <3>2, <3>3, QueueFacts DEF CopiesUnpublished
  <2>7. WaitingUnpublished'
    BY <1>0, <2>0 DEF Inv, WaitingUnpublished
  <2> QED BY <2>2, <2>3, <2>4, <2>5, <2>6, <2>7 DEF Inv
<1> QED BY <1>1, <1>2 DEF BeginFlush

LEMMA FlushPublishStep ==
  ASSUME Inv, NEW f \in Flushers, FlushPublish(f) PROVE Inv'
<1> DEFINE r == Head(snapshot[f])
<1>0. /\ UNCHANGED <<session, stage, pending, lock>> /\ at[f] = "publish" /\ snapshot[f] # <<>>
      /\ lock = f
  BY DEF FlushPublish, Inv, LockHeld
<1>1. /\ r \in In(snapshot[f]) /\ r \in Results
      /\ Tail(snapshot[f]) \in Seq(Results) /\ Distinct(Tail(snapshot[f]))
      /\ In(Tail(snapshot[f])) = In(snapshot[f]) \ {r}
      /\ Distinct(snapshot[f])
  BY <1>0, CopyFacts
<1>2. \A g \in Flushers : g # f => snapshot[g] = <<>> /\ at[g] \notin {"publish", "remove"}
  BY <1>0 DEF Inv, LockHeld
<1>3. \A q \in In(published) : q \notin In(snapshot[f])
  BY <1>0 DEF Inv, CopiesUnpublished, Unsent
<1>4. CASE /\ at' = [at EXCEPT ![f] = "remove"] /\ UNCHANGED snapshot
           /\ \/ published' = Append(published, r)
              \/ r \in TooLarge /\ UNCHANGED published
  <2> HIDE DEF r
  <2>1. /\ published' \in Seq(Results) /\ Distinct(published')
        /\ In(published) \subseteq In(published') /\ In(published') \subseteq In(published) \cup {r}
        /\ r \in In(published') \cup TooLarge
    <3>1. CASE published' = Append(published, r)
      BY <1>1, <1>3, <3>1, QueueFacts, AppendedDistinct
    <3>2. CASE r \in TooLarge /\ UNCHANGED published
      BY <3>2, QueueFacts
    <3> QED BY <1>4, <3>1, <3>2
  <2>2. at'[f] = "remove" /\ \A g \in Flushers : g # f => at'[g] = at[g]
    BY <1>4 DEF Inv, TypeOK
  <2>3. TypeOK'
    BY <1>0, <1>4, <2>1 DEF Inv, TypeOK
  <2>4. LockHeld'
    BY <1>0, <1>4, <2>2 DEF Inv, LockHeld
  <2>5. RemovesResolved'
    BY <1>0, <1>2, <1>4, <2>1, <2>2 DEF RemovesResolved, Resolved, Published, In, r
  <2>6. PublishedOnce'
    BY <1>0, <2>1 DEF Inv, PublishedOnce, Distinct
  <2>7. SenderFirst'
    BY <1>0, <1>1, <1>4, <2>1 DEF Inv, SenderFirst
  <2>8. CopiesUnpublished'
    <3>1. Unsent(f)' = In(snapshot[f]) \ {r}
      BY <1>1, <1>4, <2>2 DEF Unsent
    <3>2. \A g \in Flushers : g # f => Unsent(g)' = {}
      BY <1>2, <1>4, <2>2 DEF Unsent, In
    <3> QED BY <1>3, <1>4, <2>1, <3>1, <3>2 DEF Inv, CopiesUnpublished
  <2>9. WaitingUnpublished'
    <3>1. \A q \in In(pending) : q \notin In(published)
      BY <1>0, <1>2 DEF Inv, WaitingUnpublished
    <3> QED BY <1>0, <1>4, <2>1, <2>2, <3>1 DEF WaitingUnpublished, r
  <2> QED BY <2>3, <2>4, <2>5, <2>6, <2>7, <2>8, <2>9 DEF Inv
<1>5. CASE /\ UNCHANGED <<at, published>>
           /\ snapshot' = [snapshot EXCEPT ![f] = Tail(@)]
  <2>1. snapshot'[f] = Tail(snapshot[f]) /\ \A g \in Flushers : g # f => snapshot'[g] = snapshot[g]
    BY <1>5 DEF Inv, TypeOK
  <2> HIDE DEF r
  <2>2. TypeOK'
    BY <1>0, <1>1, <1>5 DEF Inv, TypeOK
  <2>3. LockHeld' /\ RemovesResolved' /\ PublishedOnce'
    BY <1>0, <1>5, <2>1 DEF Inv, LockHeld, RemovesResolved, PublishedOnce, Resolved, Published
  <2>4. SenderFirst'
    BY <1>0, <1>1, <1>5, <2>1 DEF Inv, SenderFirst
  <2>5. CopiesUnpublished'
    <3>1. Unsent(f)' = In(Tail(snapshot[f]))
      BY <1>0, <1>5, <2>1 DEF Unsent
    <3>2. \A g \in Flushers : g # f => Unsent(g)' = Unsent(g)
      BY <1>5, <2>1 DEF Unsent
    <3> QED BY <1>1, <1>3, <1>5, <2>1, <3>1, <3>2 DEF Inv, CopiesUnpublished
  <2>6. WaitingUnpublished'
    BY <1>0, <1>2, <1>5, <2>1 DEF Inv, WaitingUnpublished
  <2> QED BY <2>2, <2>3, <2>4, <2>5, <2>6 DEF Inv
<1> QED BY <1>4, <1>5 DEF FlushPublish, PublishSucceeds, PublishTooLarge, PublishFails

LEMMA FlushRemoveStep ==
  ASSUME Inv, NEW f \in Flushers, FlushRemove(f) PROVE Inv'
<1> DEFINE r == Head(snapshot[f])
<1>0. /\ UNCHANGED <<session, stage, lock, published>> /\ at[f] = "remove" /\ lock = f
      /\ pending' = RemoveFirst(pending, r)
      /\ snapshot' = [snapshot EXCEPT ![f] = Tail(@)]
      /\ at' = [at EXCEPT ![f] = "publish"]
      /\ snapshot[f] # <<>>
  BY DEF FlushRemove, Inv, LockHeld, RemovesResolved
<1>1. /\ Tail(snapshot[f]) \in Seq(Results) /\ Distinct(Tail(snapshot[f]))
      /\ In(Tail(snapshot[f])) = In(snapshot[f]) \ {r}
  BY <1>0, CopyFacts
<1>2. \A g \in Flushers : g # f => snapshot[g] = <<>> /\ at[g] \notin {"publish", "remove"}
  BY <1>0 DEF Inv, LockHeld
<1>3. /\ snapshot'[f] = Tail(snapshot[f]) /\ at'[f] = "publish"
      /\ \A g \in Flushers : g # f => snapshot'[g] = snapshot[g] /\ at'[g] = at[g]
  BY <1>0 DEF Inv, TypeOK
<1>4. /\ pending' \in Seq(Results) /\ Len(pending') <= Capacity /\ DistinctKeys(pending')
      /\ In(pending') = In(pending) \ {r}
  <2>1. /\ pending' \in Seq(Results) /\ Len(pending') <= Len(pending) /\ DistinctKeys(pending')
        /\ In(pending') = In(pending) \ {r}
    BY <1>0, QueueFacts, RemovedFirst
  <2>2. Len(pending) \in Nat /\ Len(pending') \in Nat /\ Len(pending) <= Capacity
    BY <2>1, QueueFacts, SeqFacts
  <2> QED BY <2>1, <2>2, ResponsesAssumption
<1>5. TypeOK'
  BY <1>0, <1>1, <1>4 DEF Inv, TypeOK
<1>6. LockHeld' /\ RemovesResolved'
  BY <1>0, <1>2, <1>3 DEF Inv, LockHeld, RemovesResolved
<1>7. PublishedOnce'
  BY <1>0, <1>4 DEF Inv, PublishedOnce, DistinctKeys
<1>8. SenderFirst'
  BY <1>0, <1>1, <1>3, <1>4 DEF Inv, SenderFirst
<1>9. CopiesUnpublished'
  <2>1. Unsent(f)' = Unsent(f)
    BY <1>0, <1>3 DEF Unsent
  <2>2. \A g \in Flushers : g # f => Unsent(g)' = Unsent(g)
    BY <1>3 DEF Unsent
  <2> QED BY <1>0, <1>1, <1>3, <2>1, <2>2 DEF Inv, CopiesUnpublished
<1>10. WaitingUnpublished'
  <2>1. \A q \in In(pending) \cap In(published) : q = r
    BY <1>0, <1>2 DEF Inv, WaitingUnpublished
  <2> QED BY <1>0, <1>4, <2>1 DEF WaitingUnpublished
<1> QED BY <1>5, <1>6, <1>7, <1>8, <1>9, <1>10 DEF Inv

LEMMA EndFlushStep ==
  ASSUME Inv, NEW f \in Flushers, EndFlush(f) PROVE Inv'
<1>0. /\ UNCHANGED <<session, stage, pending, snapshot, published>>
      /\ at[f] = "publish" /\ snapshot[f] = <<>> /\ lock = f
      /\ at' = [at EXCEPT ![f] = "idle"] /\ lock' = "free"
  BY DEF EndFlush, Inv, LockHeld
<1>1. \A g \in Flushers : g # f => snapshot[g] = <<>> /\ at[g] \notin {"publish", "remove"}
  BY <1>0 DEF Inv, LockHeld
<1>2. at'[f] = "idle" /\ \A g \in Flushers : g # f => at'[g] = at[g]
  BY <1>0 DEF Inv, TypeOK
<1>3. TypeOK'
  BY <1>0 DEF Inv, TypeOK
<1>4. \A g \in Flushers : Unsent(g)' = Unsent(g)
  BY <1>0, <1>2 DEF Unsent
<1>5. LockHeld'
  BY <1>0, <1>1, <1>2 DEF LockHeld, Flushers
<1> QED BY <1>0, <1>1, <1>2, <1>3, <1>4, <1>5 DEF Inv, PublishedOnce, RemovesResolved, SenderFirst,
           CopiesUnpublished, WaitingUnpublished

LEMMA StepInv == Inv /\ [Next]_vars => Inv'
<1>1. Inv /\ UNCHANGED vars => Inv'
  BY DEF Inv, TypeOK, PublishedOnce, LockHeld, RemovesResolved, Resolved, Published, SenderFirst,
         CopiesUnpublished, Unsent, WaitingUnpublished, vars
<1> QED BY <1>1, CheckConnectedStep, PublishStep, QueueStep, IdleStep, BeginFlushStep,
           FlushPublishStep, FlushRemoveStep, EndFlushStep DEF Next, Send, FlushStep

-----------------------------------------------------------------------------
(* Every variable keeps its type, and the queue its size, for any results, *)
(* keys and capacity.                                                      *)
THEOREM TypeCorrect == Spec => []TypeOK
<1>1. Inv => TypeOK
  BY DEF Inv
<1> QED BY <1>1, InitInv, StepInv, PTL DEF Spec

(* No result is published twice, by its sender or by a flusher, and no two *)
(* waiting results share a key, for any results, keys and capacity.        *)
THEOREM OncePublished == Spec => []PublishedOnce
<1>1. Inv => PublishedOnce
  BY DEF Inv
<1> QED BY <1>1, InitInv, StepInv, PTL DEF Spec

(* What a step takes out of the queue. *)
LEMMA StepDisplaces ==
  ASSUME Inv, [Next]_vars, NEW r \in Waiting \ Waiting'
  PROVE  \/ Resolved(r)
         \/ \E q \in Waiting' \ Waiting :
              \/ KeyOf[q] = KeyOf[r]
              \/ Len(pending) = Capacity /\ (r \in Safety => Waiting \subseteq Safety)
<1>0. Waiting = In(pending) /\ Waiting' = In(pending')
  BY DEF Waiting, In
<1>1. pending' # pending
  BY <1>0
<1>2. ASSUME NEW q \in Results, Queue(q) PROVE
        \E x \in Waiting' \ Waiting :
              \/ KeyOf[x] = KeyOf[r]
              \/ Len(pending) = Capacity /\ (r \in Safety => Waiting \subseteq Safety)
  <2>1. pending' = Queued(pending, q) /\ q \notin In(pending)
    BY <1>2 DEF Queue, To, Inv, SenderFirst
  <2>2. PICK gone \in SUBSET In(pending) :
          /\ In(pending') = (In(pending) \ gone) \cup {q}
          /\ \A v \in gone :
               \/ KeyOf[v] = KeyOf[q]
               \/ Len(pending) = Capacity /\ (v \in Safety => In(pending) \subseteq Safety)
    BY <2>1, QueueFacts, QueuedProperties
  <2>3. r \in gone /\ q \in Waiting' \ Waiting
    BY <1>0, <2>1, <2>2
  <2> QED BY <1>0, <2>2, <2>3
<1>3. ASSUME NEW f \in Flushers, FlushRemove(f) PROVE Resolved(r)
  <2>1. at[f] = "remove" /\ pending' = RemoveFirst(pending, Head(snapshot[f]))
    BY <1>3 DEF FlushRemove
  <2>2. In(pending') = In(pending) \ {Head(snapshot[f])}
    BY <2>1, QueueFacts, RemovedFirst
  <2>3. r = Head(snapshot[f])
    BY <1>0, <2>2
  <2> QED BY <2>1, <2>3 DEF Inv, RemovesResolved
<1>4. (\E q \in Results : Queue(q)) \/ (\E f \in Flushers : FlushRemove(f))
  BY <1>1 DEF Next, Send, FlushStep, CheckConnected, Publish, LoopAsks, BeginFlush, FlushPublish,
     EndFlush, Connect, Disconnect, vars
<1> QED BY <1>2, <1>3, <1>4

(* A result leaves the queue unpublished only for a result just queued,    *)
(* and a safety result is the last to be evicted.                          *)
THEOREM FairEviction == Spec => EvictionIsFair
<1>1. ASSUME Inv, [Next]_vars
      PROVE  [OnlyNewDisplaces /\ SafetyEvictedLast]_vars
  BY <1>1, StepDisplaces DEF OnlyNewDisplaces, SafetyEvictedLast
<1> QED BY <1>1, InitInv, StepInv, PTL DEF Spec, EvictionIsFair
=============================================================================
