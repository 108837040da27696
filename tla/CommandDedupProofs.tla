------------------------- MODULE CommandDedupProofs -------------------------
(***************************************************************************)
(* Proofs about the command deduplicator, for any identifiers, payloads    *)
(* and size limit.  The operations are functions on the list of entries;   *)
(* a lemma for each says that it keeps the list a map and which entries    *)
(* are in its result.                                                      *)
(***************************************************************************)
EXTENDS CommandDedup, SequenceLemmas

(* The three parts of TypeOK about the list of entries.                    *)
Split(s, k) == \A i \in DOMAIN s : s[i].expired <=> i <= k
Ordered(s) == \E k \in 0 .. Len(s) : Split(s, k)
IsMap(s) == \A i, j \in DOMAIN s : s[i].id = s[j].id => i = j
Good(s) == s \in Seq(Entry) /\ IsMap(s) /\ Ordered(s)

In(e, s) == \E i \in DOMAIN s : s[i] = e

LEMMA TypeIsGood == TypeOK <=> inFlight \subseteq Ids /\ Good(entries)
BY DEF TypeOK, Good, IsMap, Ordered, Split

LEMMA TypeIsGoodNext == TypeOK' <=> inFlight' \subseteq Ids /\ Good(entries')
BY DEF TypeOK, Good, IsMap, Ordered, Split

(* Dropping an identifier keeps the list a map, in its order, and takes    *)
(* the entry of that identifier away and no other.                         *)
LEMMA DropKeeps ==
  ASSUME NEW s, Good(s), NEW id \in Ids
  PROVE  /\ Good(Drop(s, id))
         /\ \A e : In(e, Drop(s, id)) <=> In(e, s) /\ e.id # id
<1>0. s \in Seq(Entry) /\ Len(s) \in Nat /\ DOMAIN s = 1 .. Len(s)
  BY LenProperties DEF Good
<1>1. CASE ~Known(s, id)
  BY <1>1 DEF Drop, Known, EntriesOf, In
<1>2. CASE Known(s, id)
  <2> DEFINE p == Position(s, id)
             t == RemoveAt(s, p)
  <2>1. p \in DOMAIN s /\ s[p].id = id
    BY <1>2 DEF Known, EntriesOf, Position
  <2>2. Drop(s, id) = t
    BY <1>2 DEF Drop
  <2> HIDE DEF p
  <2>3. /\ t \in Seq(Entry) /\ Len(t) = Len(s) - 1 /\ DOMAIN t = 1 .. Len(s) - 1
        /\ \A i \in 1 .. Len(s) - 1 : t[i] = IF i < p THEN s[i] ELSE s[i + 1]
    BY <1>0, <2>1, RemoveAtProperties, LenProperties
  <2> HIDE DEF t
  <2>4. IsMap(t)
    <3> DEFINE From(i) == IF i < p THEN i ELSE i + 1
    <3>1. \A i \in DOMAIN t : From(i) \in DOMAIN s /\ t[i] = s[From(i)]
      BY <1>0, <2>1, <2>3
    <3>2. \A i, j \in DOMAIN t : From(i) = From(j) => i = j
      BY <1>0, <2>1, <2>3
    <3> HIDE DEF From
    <3> QED BY <3>1, <3>2 DEF IsMap, Good
  <2>5. Ordered(t)
    <3>1. PICK k \in 0 .. Len(s) : Split(s, k)
      BY DEF Good, Ordered
    <3>2. CASE p <= k
      <4>1. k - 1 \in 0 .. Len(t) /\ Split(t, k - 1)
        BY <1>0, <2>1, <2>3, <3>1, <3>2 DEF Split
      <4> QED BY <4>1 DEF Ordered
    <3>3. CASE k < p
      <4>1. k \in 0 .. Len(t) /\ Split(t, k)
        BY <1>0, <2>1, <2>3, <3>1, <3>3 DEF Split
      <4> QED BY <4>1 DEF Ordered
    <3> QED BY <1>0, <2>1, <3>2, <3>3
  <2>6. ASSUME NEW e, In(e, t) PROVE In(e, s) /\ e.id # id
    <3>1. PICK i \in 1 .. Len(s) - 1 : t[i] = e
      BY <2>3, <2>6 DEF In
    <3>2. \E j \in DOMAIN s : j # p /\ s[j] = e
      <4>1. CASE i < p
        BY <1>0, <2>1, <2>3, <3>1, <4>1
      <4>2. CASE ~(i < p)
        <5>1. i + 1 \in DOMAIN s /\ i + 1 # p
          BY <1>0, <2>1, <4>2
        <5> QED BY <2>3, <3>1, <4>2, <5>1
      <4> QED BY <4>1, <4>2
    <3> QED BY <2>1, <3>2 DEF In, IsMap, Good
  <2>7. ASSUME NEW e, In(e, s), e.id # id PROVE In(e, t)
    <3>1. PICK i \in 1 .. Len(s) : s[i] = e
      BY <1>0, <2>7 DEF In
    <3>2. CASE i < p
      BY <1>0, <2>1, <2>3, <3>1, <3>2 DEF In
    <3>3. CASE i > p
      <4>1. i - 1 \in 1 .. Len(s) - 1 /\ ~(i - 1 < p) /\ (i - 1) + 1 = i
        BY <1>0, <2>1, <3>3
      <4>2. t[i - 1] = e
        BY <2>3, <3>1, <4>1
      <4> QED BY <2>3, <4>1, <4>2 DEF In
    <3> QED BY <1>0, <2>1, <2>7, <3>1, <3>2, <3>3
  <2> QED BY <2>2, <2>3, <2>4, <2>5, <2>6, <2>7 DEF Good
<1> QED BY <1>1, <1>2

(* Stamping an identifier puts its fresh entry last, in the place of the   *)
(* one it had.                                                             *)
NewEntry(id, p) == [id |-> id, payload |-> p, expired |-> FALSE]

LEMMA StampedKeeps ==
  ASSUME NEW s, Good(s), NEW id \in Ids, NEW p \in Payloads \cup {Sentinel}
  PROVE  /\ Good(Stamped(s, id, p))
         /\ \A e : In(e, Stamped(s, id, p)) <=>
                     (In(e, s) /\ e.id # id) \/ e = NewEntry(id, p)
         /\ Len(Stamped(s, id, p)) = Len(Drop(s, id)) + 1
         /\ Stamped(s, id, p)[Len(Drop(s, id)) + 1] = NewEntry(id, p)
         /\ \A i \in DOMAIN Drop(s, id) : Stamped(s, id, p)[i] = Drop(s, id)[i]
<1> DEFINE d == Drop(s, id)
           n == NewEntry(id, p)
           t == Append(d, n)
<1>1. Good(d) /\ \A e : In(e, d) <=> In(e, s) /\ e.id # id
  BY DropKeeps
<1>2. Stamped(s, id, p) = t
  BY DEF Stamped, NewEntry
<1>3. n \in Entry /\ n.id = id /\ n.expired = FALSE
  BY DEF NewEntry, Entry
<1> HIDE DEF d, n
<1>4. d \in Seq(Entry) /\ Len(d) \in Nat /\ DOMAIN d = 1 .. Len(d)
  BY <1>1, LenProperties DEF Good
<1>5. /\ t \in Seq(Entry) /\ Len(t) = Len(d) + 1 /\ DOMAIN t = 1 .. Len(d) + 1
      /\ \A i \in 1 .. Len(d) : t[i] = d[i]
      /\ t[Len(d) + 1] = n
  BY <1>3, <1>4, AppendProperties, LenProperties
<1> HIDE DEF t
<1>6. \A i \in DOMAIN d : d[i].id # id
  BY <1>1 DEF In
<1>7. IsMap(t)
  <2> SUFFICES ASSUME NEW i \in DOMAIN t, NEW j \in DOMAIN t, t[i].id = t[j].id
               PROVE  i = j
    BY DEF IsMap
  <2>1. CASE i \in 1 .. Len(d) /\ j \in 1 .. Len(d)
    BY <1>1, <1>4, <1>5, <2>1 DEF Good, IsMap
  <2>2. CASE i = Len(d) + 1 /\ j \in 1 .. Len(d)
    BY <1>3, <1>4, <1>5, <1>6, <2>2
  <2>3. CASE i \in 1 .. Len(d) /\ j = Len(d) + 1
    BY <1>3, <1>4, <1>5, <1>6, <2>3
  <2> QED BY <1>4, <1>5, <2>1, <2>2, <2>3
<1>8. Ordered(t)
  <2>1. PICK k \in 0 .. Len(d) : Split(d, k)
    BY <1>1 DEF Good, Ordered
  <2>2. k \in 0 .. Len(t) /\ Split(t, k)
    BY <1>3, <1>4, <1>5, <2>1 DEF Split
  <2> QED BY <2>2 DEF Ordered
<1>9. \A e : In(e, t) <=> In(e, d) \/ e = n
  BY <1>4, <1>5 DEF In
<1> QED BY <1>1, <1>2, <1>4, <1>5, <1>7, <1>8, <1>9 DEF Good, d, n

(* t is s without its first m elements. *)
IsTail(t, s, m) == /\ t \in Seq(Entry) /\ m \in 0 .. Len(s)
                   /\ Len(t) = Len(s) - m
                   /\ \A i \in 1 .. Len(t) : t[i] = s[m + i]

LEMMA SubSeqIsTail ==
  ASSUME NEW s \in Seq(Entry), NEW m \in 0 .. Len(s)
  PROVE  IsTail(SubSeq(s, m + 1, Len(s)), s, m)
<1> DEFINE t == SubSeq(s, m + 1, Len(s))
<1>1. Len(s) \in Nat /\ \A i \in 1 .. Len(s) : s[i] \in Entry
  BY LenProperties, ElementOfSeq
<1>2. m + 1 \in Int /\ Len(s) \in Int /\ \A i \in m + 1 .. Len(s) : s[i] \in Entry
  BY <1>1
<1>3. /\ t \in Seq(Entry)
      /\ Len(t) = IF m + 1 <= Len(s) THEN Len(s) - (m + 1) + 1 ELSE 0
      /\ \A i \in 1 .. Len(s) - (m + 1) + 1 : t[i] = s[(m + 1) + i - 1]
  BY <1>2, SubSeqProperties
<1> HIDE DEF t
<1>4. Len(t) = Len(s) - m
  BY <1>1, <1>3
<1>5. ASSUME NEW i \in 1 .. Len(t) PROVE t[i] = s[m + i]
  <2>1. i \in 1 .. Len(s) - (m + 1) + 1 /\ (m + 1) + i - 1 = m + i
    BY <1>1, <1>4
  <2> QED BY <1>3, <2>1
<1> QED BY <1>3, <1>4, <1>5 DEF IsTail, t

LEMMA TailOfTail ==
  ASSUME NEW s \in Seq(Entry), NEW t, NEW u, NEW m, NEW n, IsTail(t, s, m), IsTail(u, t, n)
  PROVE  IsTail(u, s, m + n)
<1>1. /\ Len(s) \in Nat /\ m \in 0 .. Len(s) /\ Len(t) = Len(s) - m
      /\ n \in 0 .. Len(t) /\ Len(u) = Len(t) - n
  BY LenProperties DEF IsTail
<1>2. ASSUME NEW i \in 1 .. Len(u) PROVE u[i] = s[(m + n) + i]
  <2>1. n + i \in 1 .. Len(t) /\ m + (n + i) = (m + n) + i
    BY <1>1
  <2>2. u[i] = t[n + i]
    BY DEF IsTail
  <2>3. t[n + i] = s[m + (n + i)]
    BY <2>1 DEF IsTail
  <2> QED BY <2>1, <2>2, <2>3
<1>3. m + n \in 0 .. Len(s) /\ Len(u) = Len(s) - (m + n)
  BY <1>1
<1> QED BY <1>2, <1>3 DEF IsTail

LEMMA TailKeeps ==
  ASSUME NEW s, Good(s), NEW t, NEW m, IsTail(t, s, m)
  PROVE  Good(t) /\ (\A e : In(e, t) => In(e, s))
<1>1. /\ Len(s) \in Nat /\ DOMAIN s = 1 .. Len(s) /\ m \in 0 .. Len(s)
      /\ t \in Seq(Entry) /\ Len(t) = Len(s) - m /\ DOMAIN t = 1 .. Len(t)
  BY LenProperties DEF IsTail, Good
<1>2. ASSUME NEW i \in DOMAIN t PROVE t[i] = s[m + i] /\ m + i \in DOMAIN s
  BY <1>1 DEF IsTail
<1>3. \A e : In(e, t) => In(e, s)
  BY <1>2 DEF In
<1>4. IsMap(t)
  <2> SUFFICES ASSUME NEW i \in DOMAIN t, NEW j \in DOMAIN t, t[i].id = t[j].id
               PROVE  i = j
    BY DEF IsMap
  <2>1. m + i = m + j
    BY <1>2 DEF Good, IsMap
  <2> QED BY <1>1, <2>1
<1>5. Ordered(t)
  <2>1. PICK k \in 0 .. Len(s) : Split(s, k)
    BY DEF Good, Ordered
  <2> DEFINE h == IF k <= m THEN 0 ELSE k - m
  <2>2. h \in 0 .. Len(t) /\ \A i \in DOMAIN t : m + i <= k <=> i <= h
    BY <1>1
  <2> HIDE DEF h
  <2>3. Split(t, h)
    BY <1>2, <2>1, <2>2 DEF Split
  <2> QED BY <2>2, <2>3 DEF Ordered
<1> QED BY <1>1, <1>3, <1>4, <1>5 DEF Good

(* Cleaning up takes the expired entries from the front of the list, and   *)
(* more only as far as the rest exceeds the limit.                         *)
LEMMA CleanupIsTail ==
  ASSUME NEW s, Good(s)
  PROVE  \E k, m \in 0 .. Len(s) :
            /\ Split(s, k) /\ k <= m
            /\ IsTail(Cleanup(s), s, m)
            /\ m # k => Len(Cleanup(s)) = MaxHistory
<1> DEFINE k == Stale(s)
           f == Fresh(s)
           n == Len(f) - MaxHistory
<1>1. s \in Seq(Entry) /\ Len(s) \in Nat /\ MaxHistory \in Nat \ {0}
  BY LenProperties, CommandDedupAssumption DEF Good
<1>2. k \in 0 .. Len(s) /\ Split(s, k)
  BY DEF Good, Ordered, Split, Stale
<1>3. IsTail(f, s, k)
  BY <1>1, <1>2, SubSeqIsTail DEF Fresh
<1>4. Cleanup(s) = Newest(f)
  BY DEF Cleanup
<1> HIDE DEF k, f
<1>5. f \in Seq(Entry) /\ Len(f) \in Nat /\ Len(f) = Len(s) - k
  BY <1>3, LenProperties DEF IsTail
<1>6. CASE Len(f) > MaxHistory
  <2>1. n \in 0 .. Len(f) /\ Newest(f) = SubSeq(f, n + 1, Len(f))
    BY <1>1, <1>5, <1>6 DEF Newest
  <2> HIDE DEF n
  <2>2. IsTail(Newest(f), f, n)
    BY <1>5, <2>1, SubSeqIsTail
  <2>3. IsTail(Newest(f), s, k + n)
    BY <1>1, <1>3, <2>2, TailOfTail
  <2>4. Len(Newest(f)) = MaxHistory
    BY <1>1, <1>5, <2>2 DEF IsTail, n
  <2>5. k + n \in 0 .. Len(s) /\ k <= k + n
    BY <1>1, <1>2, <1>5, <2>1
  <2> QED BY <1>2, <1>4, <2>3, <2>4, <2>5
<1>7. CASE ~(Len(f) > MaxHistory)
  <2>1. Newest(f) = f
    BY <1>7 DEF Newest
  <2>2. k <= k
    BY <1>2
  <2> QED BY <1>2, <1>3, <1>4, <2>1, <2>2
<1> QED BY <1>6, <1>7

-----------------------------------------------------------------------------
(* What a list of entries means to the callers. *)
LEMMA MemoryOfEntry ==
  ASSUME NEW s, Good(s), NEW e, In(e, s), e.id \in Ids
  PROVE  /\ Known(s, e.id)
         /\ Expired(s, e.id) <=> e.expired
         /\ Memory(s)[e.id] = IF e.expired THEN Absent ELSE e.payload
<1>1. PICK i \in DOMAIN s : s[i] = e
  BY DEF In
<1>2. EntriesOf(s, e.id) = {i}
  BY <1>1 DEF EntriesOf, Good, IsMap
<1>3. Position(s, e.id) = i
  BY <1>2 DEF Position
<1>4. Known(s, e.id) /\ (Expired(s, e.id) <=> e.expired)
  BY <1>1, <1>2 DEF Known, Expired
<1> QED BY <1>1, <1>3, <1>4 DEF Memory, Remembered

LEMMA MemoryOfNone ==
  ASSUME NEW s, NEW id \in Ids, \A e : In(e, s) => e.id # id
  PROVE  ~Known(s, id) /\ ~Expired(s, id) /\ Memory(s)[id] = Absent
<1>1. EntriesOf(s, id) = {}
  BY DEF EntriesOf, In
<1> QED BY <1>1 DEF Known, Expired, Memory, Remembered

LEMMA KnownHasEntry ==
  ASSUME NEW s, NEW id, Known(s, id)
  PROVE  \E e : In(e, s) /\ e.id = id
BY DEF Known, EntriesOf, In

(* Lists with the same entries of an identifier mean the same for it.      *)
LEMMA SameMemory ==
  ASSUME NEW s, Good(s), NEW t, Good(t), NEW id \in Ids,
         \A e : e.id = id => (In(e, s) <=> In(e, t))
  PROVE  Memory(s)[id] = Memory(t)[id]
<1>1. CASE \E e : In(e, s) /\ e.id = id
  BY <1>1, MemoryOfEntry
<1>2. CASE \A e : In(e, s) => e.id # id
  BY <1>2, MemoryOfNone
<1> QED BY <1>1, <1>2

LEMMA MemoryType == \A s : DOMAIN Memory(s) = Ids /\ Memory(s) = [id \in Ids |-> Memory(s)[id]]
BY DEF Memory

-----------------------------------------------------------------------------
(* The operations. *)

(* The entry that has aged is of an identifier remembered so far.          *)
Aged(t, s, i) == /\ i \in DOMAIN s /\ ~s[i].expired
                 /\ Good(t) /\ Len(t) = Len(s)
                 /\ \A j \in DOMAIN s :
                       t[j] = IF j = i THEN [s[i] EXCEPT !.expired = TRUE] ELSE s[j]

LEMMA AgeKeeps ==
  ASSUME Good(entries), Age
  PROVE  \E i \in DOMAIN entries : Aged(entries', entries, i)
<1>1. PICK i \in DOMAIN entries :
        /\ ~entries[i].expired
        /\ \A j \in 1 .. i - 1 : entries[j].expired
        /\ entries' = [entries EXCEPT ![i].expired = TRUE]
  BY DEF Age
<1> DEFINE s == entries
           t == entries'
           a == [s[i] EXCEPT !.expired = TRUE]
<1>2. /\ s \in Seq(Entry) /\ Len(s) \in Nat /\ DOMAIN s = 1 .. Len(s)
      /\ i \in 1 .. Len(s) /\ s[i] \in Entry
  BY <1>1, LenProperties, ElementOfSeq DEF Good
<1>3. a \in Entry /\ a.id = s[i].id /\ a.expired = TRUE
  BY <1>2 DEF Entry
<1>4. t = [s EXCEPT ![i] = a]
  BY <1>1
<1> HIDE DEF a
<1>5. /\ t \in Seq(Entry) /\ Len(t) = Len(s)
      /\ \A j \in 1 .. Len(s) : t[j] = IF j = i THEN a ELSE s[j]
  <2> HIDE DEF t
  <2> QED BY <1>2, <1>3, <1>4, ExceptSeq
<1>6. DOMAIN t = DOMAIN s
  BY <1>2, <1>5, LenProperties
<1> HIDE DEF s, t
<1>7. IsMap(t)
  <2>1. \A j \in DOMAIN s : t[j].id = s[j].id
    BY <1>2, <1>3, <1>5
  <2>2. IsMap(s)
    BY DEF Good, s
  <2> QED BY <1>6, <2>1, <2>2 DEF IsMap
<1>8. Ordered(t)
  <2>1. \A j \in 1 .. i - 1 : s[j].expired
    BY <1>1 DEF s
  <2>2. PICK k \in 0 .. Len(s) : Split(s, k)
    BY DEF Good, Ordered, s
  <2>3. k = i - 1
    <3>1. ~(i <= k)
      BY <1>1, <1>2, <2>2 DEF Split, s
    <3>2. i \in 1 .. Len(s)
      BY <1>2
    <3>3. i - 1 <= k
      <4>1. CASE i = 1
        BY <2>2, <4>1
      <4>2. CASE i # 1
        <5>1. i - 1 \in DOMAIN s /\ i - 1 \in 1 .. i - 1
          BY <1>2, <3>2, <4>2
        <5> QED BY <2>1, <2>2, <5>1 DEF Split
      <4> QED BY <4>1, <4>2
    <3> QED BY <2>2, <3>1, <3>2, <3>3
  <2>4. i \in 0 .. Len(t) /\ \A j \in DOMAIN s : j <= i <=> j <= k \/ j = i
    BY <1>2, <1>5, <2>3
  <2>5. Split(t, i)
    BY <1>2, <1>3, <1>5, <1>6, <2>2, <2>4 DEF Split
  <2> QED BY <2>4, <2>5 DEF Ordered
<1>9. Good(t) /\ \A j \in DOMAIN s : t[j] = IF j = i THEN a ELSE s[j]
  BY <1>2, <1>5, <1>7, <1>8 DEF Good
<1> QED BY <1>1, <1>5, <1>9 DEF Aged, s, t, a

LEMMA StoreKeeps ==
  ASSUME Good(entries), NEW id \in Ids, NEW p \in Payloads, Store(id, p)
  PROVE  /\ Good(entries')
         /\ \A e : In(e, entries') => (In(e, entries) /\ e.id # id) \/ e = NewEntry(id, p)
         /\ In(NewEntry(id, p), entries')
         /\ \A e : In(e, entries') => ~e.expired
<1> DEFINE s == Stamped(entries, id, p)
           t == Cleanup(s)
           n == NewEntry(id, p)
           d == Len(Drop(entries, id))
<1>1. entries' = t
  BY DEF Store
<1>2. /\ Good(s)
      /\ \A e : In(e, s) <=> (In(e, entries) /\ e.id # id) \/ e = n
      /\ Len(s) = d + 1 /\ s[d + 1] = n /\ d \in Nat
  BY StampedKeeps, DropKeeps, LenProperties DEF Good
<1> HIDE DEF s
<1>3. PICK k \in 0 .. Len(s), m \in 0 .. Len(s) :
        /\ Split(s, k) /\ k <= m
        /\ IsTail(t, s, m)
        /\ m # k => Len(t) = MaxHistory
  BY <1>2, CleanupIsTail
<1>4. Good(t) /\ \A e : In(e, t) => In(e, s)
  BY <1>2, <1>3, TailKeeps
<1> HIDE DEF t
<1>5. Len(s) \in DOMAIN s /\ s[Len(s)] = n /\ ~n.expired /\ DOMAIN s = 1 .. Len(s)
  BY <1>2, LenProperties DEF NewEntry, Good
<1> HIDE DEF n, d
<1>6. k < Len(s)
  BY <1>2, <1>3, <1>5 DEF Split
<1>7. m < Len(s) /\ Len(t) = Len(s) - m /\ DOMAIN t = 1 .. Len(t)
  <2>1. Len(t) = Len(s) - m /\ DOMAIN t = 1 .. Len(t)
    BY <1>3, <1>4, LenProperties DEF IsTail, Good
  <2>2. MaxHistory \in Nat \ {0}
    BY CommandDedupAssumption
  <2> QED BY <1>2, <1>3, <1>6, <2>1, <2>2
<1>8. Len(t) \in DOMAIN t /\ m + Len(t) = Len(s)
  BY <1>2, <1>3, <1>7
<1>9. In(n, t)
  <2>1. t[Len(t)] = s[m + Len(t)]
    BY <1>7, <1>8, <1>3 DEF IsTail
  <2> QED BY <1>5, <1>8, <2>1 DEF In
<1>10. ASSUME NEW e, In(e, t) PROVE ~e.expired
  <2>1. PICK i \in DOMAIN t : t[i] = e
    BY <1>10 DEF In
  <2>2. e = s[m + i]
    BY <1>3, <1>7, <2>1 DEF IsTail
  <2>3. m + i \in DOMAIN s /\ ~(m + i <= k)
    BY <1>2, <1>3, <1>5, <1>7, <2>1
  <2> QED BY <1>3, <2>2, <2>3 DEF Split
<1> QED BY <1>1, <1>2, <1>4, <1>9, <1>10 DEF n

LEMMA InitType == Init => TypeOK
<1> SUFFICES ASSUME Init PROVE TypeOK
  OBVIOUS
<1>1. entries = <<>> /\ Len(entries) = 0 /\ DOMAIN entries = {} /\ entries \in Seq(Entry)
  BY DEF Init
<1>2. 0 \in 0 .. Len(entries)
  BY <1>1
<1> QED BY <1>1, <1>2 DEF Init, TypeOK

LEMMA StepType == TypeOK /\ [Next]_vars => TypeOK'
<1> SUFFICES ASSUME TypeOK, [Next]_vars PROVE inFlight' \subseteq Ids /\ Good(entries')
  BY TypeIsGoodNext
<1>0. inFlight \subseteq Ids /\ Good(entries)
  BY TypeIsGood
<1>1. ASSUME NEW id \in Ids, TryStart(id) PROVE inFlight' \subseteq Ids /\ Good(entries')
  BY <1>0, <1>1 DEF TryStart
<1>2. ASSUME NEW id \in Ids, Finish(id) PROVE inFlight' \subseteq Ids /\ Good(entries')
  BY <1>0, <1>2, StampedKeeps DEF Finish
<1>3. ASSUME NEW id \in Ids, NEW p \in Payloads, Store(id, p)
      PROVE  inFlight' \subseteq Ids /\ Good(entries')
  BY <1>0, <1>3, StoreKeeps DEF Store
<1>4. ASSUME NEW id \in Ids, Lookup(id) PROVE inFlight' \subseteq Ids /\ Good(entries')
  BY <1>0, <1>4, DropKeeps DEF Lookup
<1>5. CASE Age
  <2>1. Good(entries')
    BY <1>0, <1>5, AgeKeeps DEF Aged
  <2> QED BY <1>0, <1>5, <2>1 DEF Age
<1>6. CASE UNCHANGED vars
  BY <1>0, <1>6 DEF vars
<1> QED BY <1>1, <1>2, <1>3, <1>4, <1>5, <1>6 DEF Next

(* The state keeps its type and the list of entries stays a map, its       *)
(* expired entries first, for any identifiers and limits.                  *)
THEOREM TypeCorrect == Spec => []TypeOK
BY InitType, StepType, PTL DEF Spec

-----------------------------------------------------------------------------
(* A step that gives no identifier a different outcome. *)
LEMMA FinishMemory ==
  ASSUME TypeOK, NEW id \in Ids, Finish(id)
  PROVE  Table!Finish(id)
<1> DEFINE s == entries
           t == Stamped(s, id, Sentinel)
           n == NewEntry(id, Sentinel)
<1>0. Good(s)
  BY TypeIsGood
<1>1. inFlight' = inFlight \ {id}
  BY DEF Finish
<1>2. CASE id \in inFlight /\ ~Known(s, id)
  <2>1. entries' = t
    BY <1>2 DEF Finish
  <2>2. Good(t) /\ \A e : In(e, t) <=> (In(e, s) /\ e.id # id) \/ e = n
    BY <1>0, StampedKeeps
  <2>3. n.id = id /\ n.expired = FALSE /\ n.payload = Sentinel
    BY DEF NewEntry
  <2> HIDE DEF s, t, n
  <2>4. Memory(s)[id] = Absent
    BY <1>2 DEF Memory, Remembered
  <2>5. Memory(t)[id] = Sentinel
    BY <2>2, <2>3, MemoryOfEntry
  <2>6. ASSUME NEW x \in Ids, x # id PROVE Memory(t)[x] = Memory(s)[x]
    <3>1. \A e : e.id = x => (In(e, s) <=> In(e, t))
      BY <2>2, <2>3, <2>6
    <3> QED BY <1>0, <2>2, <3>1, SameMemory DEF s
  <2>7. Memory(t) = [Memory(s) EXCEPT ![id] = Sentinel]
    BY <2>5, <2>6, MemoryType
  <2>8. Memory(entries)' = [Memory(entries) EXCEPT ![id] = Sentinel]
    BY <2>1, <2>7 DEF s
  <2> QED BY <1>1, <1>2, <2>4, <2>8 DEF Table!Finish, s
<1>3. CASE ~(id \in inFlight /\ ~Known(s, id))
  <2>1. entries' = entries
    BY <1>3 DEF Finish
  <2> QED BY <1>1, <2>1 DEF Table!Finish
<1> QED BY <1>2, <1>3

LEMMA StoreMemory ==
  ASSUME TypeOK, NEW id \in Ids, NEW p \in Payloads, Store(id, p)
  PROVE  Table!Store(id, p)
<1> DEFINE s == entries
           t == entries'
           n == NewEntry(id, p)
           gone == {x \in Ids \ {id} : Memory(t)[x] = Absent}
<1>0. Good(s)
  BY TypeIsGood
<1>1. inFlight' = inFlight
  BY DEF Store
<1>2. /\ Good(t)
      /\ \A e : In(e, t) => (In(e, s) /\ e.id # id) \/ e = n
      /\ In(n, t)
      /\ \A e : In(e, t) => ~e.expired
  BY <1>0, StoreKeeps
<1>3. n.id = id /\ n.expired = FALSE /\ n.payload = p
  BY DEF NewEntry
<1> HIDE DEF s, t, n
<1>4. Memory(t)[id] = p
  BY <1>2, <1>3, MemoryOfEntry
<1>5. ASSUME NEW x \in Ids, x # id, Memory(t)[x] # Absent
      PROVE  Memory(t)[x] = Memory(s)[x]
  <2>1. PICK e : In(e, t) /\ e.id = x
    BY <1>5, MemoryOfNone
  <2>2. In(e, s) /\ ~e.expired
    BY <1>2, <1>3, <1>5, <2>1
  <2> QED BY <1>0, <1>2, <2>1, <2>2, MemoryOfEntry
<1>6. \A x \in Ids : Memory(t)[x] = IF x \in gone THEN Absent
                                    ELSE [Memory(s) EXCEPT ![id] = p][x]
  BY <1>4, <1>5, MemoryType
<1>7. Memory(t) = [x \in Ids |-> IF x \in gone THEN Absent
                                 ELSE [Memory(s) EXCEPT ![id] = p][x]]
  <2> HIDE DEF gone
  <2> QED BY <1>6, MemoryType
<1>8. gone \in SUBSET (Ids \ {id})
  OBVIOUS
<1> HIDE DEF gone
<1>9. Memory(t) = Table!Without([Memory(s) EXCEPT ![id] = p], gone)
  BY <1>7 DEF Table!Without
<1>10. Memory(entries)' = Table!Without([Memory(entries) EXCEPT ![id] = p], gone)
  BY <1>9 DEF s, t
<1> QED BY <1>1, <1>8, <1>10 DEF Table!Store

(* Purging an expired entry is no step of the table. *)
LEMMA LookupMemory ==
  ASSUME TypeOK, NEW id \in Ids, Lookup(id)
  PROVE  UNCHANGED Table!dedupVars
<1> DEFINE s == entries
           t == Drop(s, id)
<1>0. Good(s)
  BY TypeIsGood
<1>1. entries' = t /\ inFlight' = inFlight /\ Expired(s, id)
  BY DEF Lookup
<1>2. Good(t) /\ \A e : In(e, t) <=> In(e, s) /\ e.id # id
  BY <1>0, DropKeeps
<1> HIDE DEF s, t
<1>3. Memory(t)[id] = Absent
  BY <1>2, MemoryOfNone
<1>4. Memory(s)[id] = Absent
  BY <1>1 DEF Memory, Remembered
<1>5. ASSUME NEW x \in Ids, x # id PROVE Memory(t)[x] = Memory(s)[x]
  <2>1. \A e : e.id = x => (In(e, s) <=> In(e, t))
    BY <1>2, <1>5
  <2> QED BY <1>0, <1>2, <2>1, SameMemory
<1>6. Memory(t) = Memory(s)
  BY <1>3, <1>4, <1>5, MemoryType
<1>7. Memory(entries)' = Memory(entries)
  BY <1>1, <1>6 DEF s
<1> QED BY <1>1, <1>7 DEF Table!dedupVars

(* The entry that expires is forgotten. *)
LEMMA AgeMemory ==
  ASSUME TypeOK, Age
  PROVE  \E id \in Ids : Table!Forget(id)
<1> DEFINE s == entries
           t == entries'
<1>0. Good(s) /\ inFlight' = inFlight
  BY TypeIsGood DEF Age
<1>1. PICK i \in DOMAIN s : Aged(t, s, i)
  BY <1>0, AgeKeeps
<1> HIDE DEF s, t
<1> DEFINE e == s[i]
           a == [e EXCEPT !.expired = TRUE]
           id == e.id
<1>2. /\ DOMAIN s = 1 .. Len(s) /\ DOMAIN t = DOMAIN s /\ Good(t)
      /\ e \in Entry /\ ~e.expired
      /\ \A j \in DOMAIN s : t[j] = IF j = i THEN a ELSE s[j]
  BY <1>0, <1>1, LenProperties, ElementOfSeq DEF Aged, Good
<1>3. id \in Ids /\ e.payload # Absent /\ a.id = id /\ a.expired = TRUE
  BY <1>2, CommandDedupAssumption DEF Entry
<1> HIDE DEF e, a
<1>4. In(e, s) /\ In(a, t)
  BY <1>2 DEF In, e
<1>5. Memory(s)[id] # Absent
  BY <1>0, <1>2, <1>3, <1>4, MemoryOfEntry
<1>6. Memory(t)[id] = Absent
  BY <1>2, <1>3, <1>4, MemoryOfEntry
<1>7. ASSUME NEW x \in Ids, x # id PROVE Memory(t)[x] = Memory(s)[x]
  <2>1. \A f : f.id = x => (In(f, s) <=> In(f, t))
    <3> SUFFICES ASSUME NEW f, f.id = x PROVE In(f, s) <=> In(f, t)
      OBVIOUS
    <3>1. ASSUME NEW j \in DOMAIN s, s[j] = f \/ t[j] = f PROVE s[j] = t[j]
      BY <1>2, <1>3, <1>7, <3>1 DEF e
    <3> QED BY <1>2, <3>1 DEF In
  <2> QED BY <1>0, <1>2, <2>1, SameMemory
<1>8. Memory(t) = [Memory(s) EXCEPT ![id] = Absent]
  <2> HIDE DEF id
  <2> QED BY <1>6, <1>7, MemoryType
<1>9. Memory(entries)' = [Memory(entries) EXCEPT ![id] = Absent] /\ Memory(entries)[id] # Absent
  BY <1>5, <1>8 DEF s, t
<1> HIDE DEF id
<1> QED BY <1>0, <1>3, <1>9 DEF Table!Forget

LEMMA InitMemory == Init => Table!DedupInit
<1> SUFFICES ASSUME Init PROVE Table!DedupInit
  OBVIOUS
<1>1. inFlight = {} /\ DOMAIN entries = {}
  BY DEF Init
<1>2. \A id \in Ids : ~Known(entries, id)
  BY <1>1 DEF Known, EntriesOf
<1>3. Memory(entries) = [id \in Ids |-> Absent]
  BY <1>2 DEF Memory, Remembered
<1> QED BY <1>1, <1>3 DEF Table!DedupInit

LEMMA StepMemory ==
  TypeOK /\ [Next]_vars => [Table!DedupNext]_(Table!dedupVars)
<1> SUFFICES ASSUME TypeOK, [Next]_vars PROVE [Table!DedupNext]_(Table!dedupVars)
  OBVIOUS
<1>1. ASSUME NEW id \in Ids, TryStart(id) PROVE Table!TryStart(id)
  <2>1. entries' = entries
    BY <1>1 DEF TryStart
  <2> QED BY <1>1, <2>1 DEF TryStart, Table!TryStart
<1>2. CASE UNCHANGED vars
  BY <1>2 DEF vars, Table!dedupVars
<1> QED BY <1>1, <1>2, FinishMemory, StoreMemory, LookupMemory, AgeMemory DEF Next, Table!DedupNext

(* Every operation of the deduplicator is one of the table its callers     *)
(* rely on, or nothing to them: the lazy purges never show an outcome that *)
(* was not stored, and never make a command in flight startable.           *)
THEOREM Implements == Spec => ImplementsDedupTable
<1>1. Spec => Table!DedupSpec
  BY InitMemory, StepMemory, TypeCorrect, PTL DEF Spec, Table!DedupSpec
<1> QED BY <1>1 DEF ImplementsDedupTable

-----------------------------------------------------------------------------
(* A command that leaves the in-flight set and has no expired entry is     *)
(* remembered, by a stored result or by the sentinel, for any identifiers  *)
(* and limits.                                                             *)
LEMMA FinishedIsRemembered ==
  ASSUME TypeOK, [Next]_vars PROVE [\A id \in Ids : FinishLeavesATrace(id)]_vars
<1>1. ASSUME TypeOK, [Next]_vars
      PROVE  [\A id \in Ids : id \in inFlight /\ id \notin inFlight' /\ ~Expired(entries, id)
                               => Remembered(entries', id)]_vars
  <2> SUFFICES ASSUME Next, NEW id \in Ids, id \in inFlight, id \notin inFlight',
                      ~Expired(entries, id)
               PROVE  Remembered(entries', id)
    BY <1>1
  <2>0. Good(entries)
    BY <1>1, TypeIsGood
  <2>1. Finish(id)
    BY DEF Next, TryStart, Finish, Store, Lookup, Age
  <2>2. CASE Known(entries, id)
    <3>1. entries' = entries
      BY <2>1, <2>2 DEF Finish
    <3> QED BY <2>2, <3>1 DEF Remembered
  <2>3. CASE ~Known(entries, id)
    <3>1. entries' = Stamped(entries, id, Sentinel)
      BY <2>1, <2>3 DEF Finish
    <3> DEFINE n == NewEntry(id, Sentinel)
               t == Stamped(entries, id, Sentinel)
    <3>2. Good(t) /\ In(n, t)
      BY <2>0, StampedKeeps
    <3>3. n.id = id /\ ~n.expired
      BY DEF NewEntry
    <3> HIDE DEF n, t
    <3>4. Known(t, id) /\ ~Expired(t, id)
      BY <3>2, <3>3, MemoryOfEntry
    <3> QED BY <3>1, <3>4 DEF t, Remembered
  <2> QED BY <2>2, <2>3
<1> QED BY <1>1 DEF FinishLeavesATrace

-----------------------------------------------------------------------------
(* Where an element of a list without one of its elements comes from: the  *)
(* order of the others stays.                                              *)
From(j, p) == IF j < p THEN j ELSE j + 1

LEMMA DropShifts ==
  ASSUME NEW s, Good(s), NEW id \in Ids
  PROVE  \E p \in Nat : \A j \in DOMAIN Drop(s, id) :
            From(j, p) \in DOMAIN s /\ Drop(s, id)[j] = s[From(j, p)]
<1>0. s \in Seq(Entry) /\ Len(s) \in Nat /\ DOMAIN s = 1 .. Len(s)
  BY LenProperties DEF Good
<1>1. CASE ~Known(s, id)
  <2>1. Drop(s, id) = s
    BY <1>1 DEF Drop
  <2>2. Len(s) + 1 \in Nat /\ \A j \in DOMAIN s : From(j, Len(s) + 1) = j
    BY <1>0 DEF From
  <2> QED BY <2>1, <2>2
<1>2. CASE Known(s, id)
  <2> DEFINE p == Position(s, id)
             t == RemoveAt(s, p)
  <2>1. p \in DOMAIN s
    BY <1>2 DEF Known, EntriesOf, Position
  <2>2. Drop(s, id) = t
    BY <1>2 DEF Drop
  <2> HIDE DEF p
  <2>3. /\ DOMAIN t = 1 .. Len(s) - 1
        /\ \A i \in 1 .. Len(s) - 1 : t[i] = IF i < p THEN s[i] ELSE s[i + 1]
    BY <1>0, <2>1, RemoveAtProperties, LenProperties
  <2> HIDE DEF t
  <2>4. p \in Nat /\ \A j \in DOMAIN t : From(j, p) \in DOMAIN s /\ t[j] = s[From(j, p)]
    BY <1>0, <2>1, <2>3 DEF From
  <2> QED BY <2>2, <2>4
<1> QED BY <1>1, <1>2

(* The guarantee for one step that stores a result. *)
Evicts(id) == /\ Len(entries') = MaxHistory
              /\ \A k \in 1 .. MaxHistory - 1 : \E j \in DOMAIN entries :
                    /\ entries[j] = entries'[k]
                    /\ \A i \in EntriesOf(entries, id) : i < j

LEMMA StoreEvicts ==
  ASSUME Good(entries), NEW id \in Ids, NEW p \in Payloads, Store(id, p),
         NEW x \in Ids, Remembered(entries, x), ~Known(entries', x)
  PROVE  Evicts(x)
<1> DEFINE d == Drop(entries, id)
           s == Stamped(entries, id, p)
           t == Cleanup(s)
           n == NewEntry(id, p)
<1>1. entries' = t
  BY DEF Store
<1>2. /\ Good(d) /\ \A e : In(e, d) <=> In(e, entries) /\ e.id # id
      /\ Good(s) /\ Len(s) = Len(d) + 1 /\ \A i \in DOMAIN d : s[i] = d[i]
  <2>1. Good(d) /\ \A e : In(e, d) <=> In(e, entries) /\ e.id # id
    BY DropKeeps
  <2>2. p \in Payloads \cup {Sentinel}
    OBVIOUS
  <2>3. Good(s) /\ Len(s) = Len(d) + 1 /\ \A i \in DOMAIN d : s[i] = d[i]
    <3> HIDE DEF Good
    <3> QED BY <2>2, StampedKeeps
  <2> QED BY <2>1, <2>3
<1>3. PICK r \in Nat : \A j \in DOMAIN d :
        From(j, r) \in DOMAIN entries /\ d[j] = entries[From(j, r)]
  BY DropShifts
<1>4. In(n, t) /\ Good(t)
  BY <1>1, StoreKeeps
<1> HIDE DEF s
<1>5. PICK k \in 0 .. Len(s), m \in 0 .. Len(s) :
        /\ Split(s, k) /\ k <= m
        /\ IsTail(t, s, m)
        /\ m # k => Len(t) = MaxHistory
  BY <1>2, CleanupIsTail
<1>6. /\ Len(d) \in Nat /\ DOMAIN d = 1 .. Len(d) /\ DOMAIN s = 1 .. Len(s)
      /\ DOMAIN t = 1 .. Len(t) /\ Len(t) = Len(s) - m /\ MaxHistory \in Nat \ {0}
  BY <1>2, <1>4, <1>5, LenProperties, CommandDedupAssumption DEF Good, IsTail
<1> HIDE DEF t, d
<1>7. n.id = id
  BY DEF NewEntry
<1>8. x # id
  <2>1. n.id \in Ids => Known(t, n.id)
    BY <1>4, MemoryOfEntry
  <2> QED BY <1>1, <1>7, <2>1
<1>9. PICK e : In(e, entries) /\ e.id = x /\ ~e.expired
  <2>1. PICK e : In(e, entries) /\ e.id = x
    BY KnownHasEntry DEF Remembered
  <2>2. Expired(entries, x) <=> e.expired
    BY <2>1, MemoryOfEntry
  <2> QED BY <2>1, <2>2 DEF Remembered
<1>10. PICK q \in DOMAIN d : d[q] = e
  BY <1>2, <1>8, <1>9 DEF In
<1>11. q \in DOMAIN s /\ s[q] = e
  BY <1>2, <1>6, <1>10
<1>12. ~(q <= k)
  BY <1>5, <1>9, <1>11 DEF Split
<1>13. q <= m
  <2> SUFFICES ASSUME ~(q <= m) PROVE FALSE
    OBVIOUS
  <2>1. q - m \in DOMAIN t /\ m + (q - m) = q
    BY <1>2, <1>6, <1>11
  <2>2. t[q - m] = s[m + (q - m)]
    BY <1>5, <1>6, <2>1 DEF IsTail
  <2>3. In(e, t)
    BY <1>11, <2>1, <2>2 DEF In
  <2> QED BY <1>1, <1>4, <1>9, <2>3, MemoryOfEntry
<1>14. Len(t) = MaxHistory
  <2>1. m # k
    BY <1>6, <1>12, <1>13
  <2> QED BY <1>5, <2>1
<1>15. ASSUME NEW h \in 1 .. MaxHistory - 1
       PROVE  \E j \in DOMAIN entries : /\ entries[j] = t[h]
                                       /\ \A i \in EntriesOf(entries, x) : i < j
  <2>1. h \in DOMAIN t /\ m + h \in DOMAIN d /\ q < m + h
    BY <1>2, <1>6, <1>13, <1>14
  <2>2. t[h] = s[m + h]
    BY <1>5, <1>6, <2>1 DEF IsTail
  <2>3. t[h] = entries[From(m + h, r)] /\ From(m + h, r) \in DOMAIN entries
    BY <1>2, <1>3, <2>1, <2>2
  <2>4. From(q, r) \in DOMAIN entries /\ entries[From(q, r)].id = x
    BY <1>3, <1>9, <1>10
  <2>5. \A i \in EntriesOf(entries, x) : i = From(q, r)
    BY <2>4 DEF EntriesOf, Good, IsMap
  <2>6. From(q, r) < From(m + h, r)
    BY <1>3, <1>6, <2>1 DEF From
  <2> QED BY <2>3, <2>5, <2>6
<1> QED BY <1>1, <1>14, <1>15 DEF Evicts

(* An outcome within the age limit is pushed out only by as many newer     *)
(* entries as the size limit allows, for any limit.                        *)
LEMMA NewerEvicts ==
  ASSUME TypeOK, [Next]_vars PROVE [\A id \in Ids : OnlyNewerEvict(id)]_vars
<1>1. ASSUME TypeOK, [Next]_vars
      PROVE  [\A id \in Ids : Remembered(entries, id) /\ ~Known(entries', id) => Evicts(id)]_vars
  <2> SUFFICES ASSUME Next, NEW x \in Ids, Remembered(entries, x), ~Known(entries', x)
               PROVE  Evicts(x)
    BY <1>1
  <2>0. Good(entries)
    BY <1>1, TypeIsGood
  <2>1. PICK e : In(e, entries) /\ e.id = x
    BY KnownHasEntry DEF Remembered
  <2>2. \A s : Good(s) => ~In(e, s) \/ Known(s, x)
    BY <2>1, MemoryOfEntry
  <2>3. ASSUME NEW id \in Ids, TryStart(id) PROVE FALSE
    BY <2>3 DEF TryStart, Remembered
  <2>4. ASSUME NEW id \in Ids, Finish(id) PROVE FALSE
    <3>1. CASE entries' = entries
      BY <3>1 DEF Remembered
    <3>2. CASE entries' = Stamped(entries, id, Sentinel) /\ ~Known(entries, id)
      <4>1. x # id
        BY <3>2 DEF Remembered
      <4>2. Good(Stamped(entries, id, Sentinel)) /\ In(e, Stamped(entries, id, Sentinel))
        BY <2>0, <2>1, <4>1, StampedKeeps
      <4> QED BY <2>2, <3>2, <4>2
    <3> QED BY <2>4, <3>1, <3>2 DEF Finish
  <2>5. ASSUME NEW id \in Ids, Lookup(id) PROVE FALSE
    <3>1. x # id /\ entries' = Drop(entries, id)
      BY <2>5 DEF Lookup, Remembered
    <3>2. Good(Drop(entries, id)) /\ In(e, Drop(entries, id))
      BY <2>0, <2>1, <3>1, DropKeeps
    <3> QED BY <2>2, <3>1, <3>2
  <2>6. CASE Age
    <3>1. PICK i \in DOMAIN entries : Aged(entries', entries, i)
      BY <2>0, <2>6, AgeKeeps
    <3>2. Len(entries') = Len(entries) /\ Good(entries')
      BY <3>1 DEF Aged
    <3>3. DOMAIN entries' = DOMAIN entries
      BY <2>0, <3>2, LenProperties DEF Good
    <3>4. PICK j \in DOMAIN entries : entries[j] = e
      BY <2>1 DEF In
    <3>5. entries'[j].id = x
      <4>1. entries[i] \in Entry
        BY <2>0, <3>1, LenProperties, ElementOfSeq DEF Good
      <4>2. [entries[i] EXCEPT !.expired = TRUE].id = entries[i].id
        BY <4>1 DEF Entry
      <4> QED BY <2>1, <3>1, <3>4, <4>2 DEF Aged
    <3> QED BY <3>3, <3>4, <3>5 DEF Known, EntriesOf
  <2> QED BY <2>0, <2>3, <2>4, <2>5, <2>6, StoreEvicts DEF Next
<1> QED BY <1>1 DEF OnlyNewerEvict, Evicts

(* No step makes the history forget a command it still has room for, for   *)
(* any identifiers and limits.                                             *)
THEOREM HistoryKept == Spec => HistoryIsKept
<1>1. ASSUME TypeOK, [Next]_vars
      PROVE  [\A id \in Ids : FinishLeavesATrace(id) /\ OnlyNewerEvict(id)]_vars
  BY <1>1, FinishedIsRemembered, NewerEvicts
<1> QED BY <1>1, TypeCorrect, PTL DEF Spec, HistoryIsKept
=============================================================================
