--------------------------- MODULE NavAdapterProofs ---------------------------
(***************************************************************************)
(* Proofs about the navigation adapter: the invariants of run nav, for any *)
(* number of commands, requests, transports and crashes.                   *)
(*                                                                         *)
(* The registry is a list only for the sake of which command is current.   *)
(* All that the invariants say of it they say of the set of its entries,   *)
(* and every step does one of five things to that set (RegistryStep).      *)
(***************************************************************************)
EXTENDS NavAdapter, SequenceTheorems, TLAPS

EntryType == [command : Commands, transport : Transports, ended : BOOLEAN]
TaskType == [transport : Transports \cup {NoTransport}, stage : WatchStages]
HandlerType == [stage : HandlerStages, command : Commands \cup {None},
                transport : Transports \cup {NoTransport}, replaced : BOOLEAN]

(* The entries of a list, and what it takes to be a registry. *)
In(r) == {r[i] : i \in DOMAIN r}
IsMap(r) == \A i, j \in DOMAIN r : r[i].command = r[j].command => i = j
IsRegistry(r) == r \in Seq(EntryType) /\ IsMap(r)

Entries == In(registry)
But(c) == {e \in Entries : e.command # c}
Fresh(c, t) == [command |-> c, transport |-> t, ended |-> FALSE]

-----------------------------------------------------------------------------
(* What the operations of StateStore do to the entries. *)

LEMMA AppendEntry ==
  ASSUME NEW r \in Seq(EntryType), IsMap(r), NEW e \in EntryType,
         \A f \in In(r) : f.command # e.command
  PROVE  IsRegistry(Append(r, e)) /\ In(Append(r, e)) = In(r) \cup {e}
<1>1. /\ Append(r, e) \in Seq(EntryType) /\ Len(r) \in Nat
      /\ DOMAIN r = 1..Len(r) /\ DOMAIN Append(r, e) = 1..(Len(r) + 1)
      /\ \A i \in 1..Len(r) : Append(r, e)[i] = r[i]
      /\ Append(r, e)[Len(r) + 1] = e
  OBVIOUS
<1>2. 1..(Len(r) + 1) = 1..Len(r) \cup {Len(r) + 1} /\ Len(r) + 1 \notin 1..Len(r)
  BY <1>1
<1>3. \A i \in 1..Len(r) : r[i] \in In(r)
  BY <1>1 DEF In
<1>4. IsMap(Append(r, e))
  BY <1>1, <1>2, <1>3 DEF IsMap
<1>5. In(Append(r, e)) = In(r) \cup {e}
  BY <1>1, <1>2 DEF In
<1> QED BY <1>1, <1>4, <1>5 DEF IsRegistry

LEMMA IsRegisteredIffEntry ==
  ASSUME NEW c
  PROVE  IsRegistered(c) <=> \E e \in Entries : e.command = c
BY DEF IsRegistered, Entries, In

LEMMA EntryIs ==
  ASSUME IsRegistry(registry), NEW e \in Entries
  PROVE  /\ e \in EntryType /\ IsRegistered(e.command)
         /\ Entry(e.command) = e /\ TransportOf(e.command) = e.transport
         /\ Place(e.command) \in DOMAIN registry
<1>1. PICK i \in DOMAIN registry : e = registry[i]
  BY DEF Entries, In
<1>2. IsRegistered(e.command)
  BY <1>1 DEF IsRegistered
<1>3. Place(e.command) = i
  BY <1>1 DEF Place, IsRegistry, IsMap
<1>4. e \in EntryType
  BY <1>1 DEF IsRegistry
<1> QED BY <1>1, <1>2, <1>3, <1>4 DEF Entry, TransportOf

LEMMA RegisteredHasEntry ==
  ASSUME IsRegistry(registry), NEW c, IsRegistered(c)
  PROVE  Entry(c) \in Entries /\ Entry(c).command = c /\ TransportOf(c) = Entry(c).transport
<1>1. PICK e \in Entries : e.command = c
  BY IsRegisteredIffEntry
<1> QED BY <1>1, EntryIs

LEMMA OneEntryEach ==
  ASSUME IsRegistry(registry), NEW e \in Entries, NEW f \in Entries, e.command = f.command
  PROVE  e = f
BY DEF Entries, In, IsRegistry, IsMap

LEMMA WithoutIs ==
  ASSUME IsRegistry(registry), NEW c
  PROVE  IsRegistry(Without(c)) /\ In(Without(c)) = But(c)
<1>1. CASE ~IsRegistered(c)
  <2>1. Without(c) = registry
    BY <1>1 DEF Without
  <2> QED BY <1>1, <2>1, IsRegisteredIffEntry DEF But, Entries
<1>2. CASE IsRegistered(c)
  <2> DEFINE n == Len(registry)
             p == Place(c)
             w == Without(c)
             at(i) == IF i < p THEN i ELSE i + 1
  <2>1. n \in Nat /\ DOMAIN registry = 1..n /\ \A i \in 1..n : registry[i] \in EntryType
    BY DEF IsRegistry
  <2>2. p \in 1..n /\ registry[p].command = c
    BY <1>2, <2>1, RegisteredHasEntry, EntryIs DEF Entry
  <2>3. w = [i \in 1..(n - 1) |-> registry[at(i)]]
    BY <1>2 DEF Without
  <2>4. n - 1 \in Nat /\ \A i \in 1..(n - 1) : at(i) \in 1..n /\ at(i) # p
    BY <2>1, <2>2
  <2>5. \A j \in 1..n : j # p => \E i \in 1..(n - 1) : at(i) = j
    <3> SUFFICES ASSUME NEW j \in 1..n, j # p
                 PROVE  \E i \in 1..(n - 1) : at(i) = j
      OBVIOUS
    <3>1. CASE j < p
      BY <2>1, <2>2, <3>1
    <3>2. CASE j > p
      <4>1. j - 1 \in 1..(n - 1) /\ at(j - 1) = j
        BY <2>1, <2>2, <3>2
      <4> QED BY <4>1
    <3> QED BY <2>1, <2>2, <3>1, <3>2
  <2>6. \A i, j \in 1..(n - 1) : at(i) = at(j) => i = j
    BY <2>1, <2>2
  <2>7. \A j \in 1..n : j # p => registry[j].command # c
    BY <2>1, <2>2 DEF IsRegistry, IsMap
  <2> HIDE DEF n, p, w, at
  <2>8. w \in [1..(n - 1) -> EntryType]
    BY <2>1, <2>3, <2>4
  <2>9. w \in Seq(EntryType) /\ DOMAIN w = 1..(n - 1)
    BY <2>4, <2>8, SeqDef
  <2>10. IsMap(w)
    BY <2>1, <2>3, <2>4, <2>6, <2>9 DEF IsMap, IsRegistry
  <2>11. In(w) = But(c)
    BY <2>1, <2>2, <2>3, <2>4, <2>5, <2>7, <2>9 DEF In, But, Entries
  <2> QED BY <2>9, <2>10, <2>11 DEF w, IsRegistry
<1> QED BY <1>1, <1>2

(* The entry of c after a write of state s, if c has one. *)
Marked(c, s) == {[e EXCEPT !.ended = s \in Terminal] : e \in Entries \ But(c)}

LEMMA WithStateIs ==
  ASSUME IsRegistry(registry), NEW c, NEW s
  PROVE  /\ IsRegistry(WithState(c, s))
         /\ In(WithState(c, s)) = But(c) \cup Marked(c, s)
<1> DEFINE n == Len(registry)
           w == WithState(c, s)
<1>1. n \in Nat /\ DOMAIN registry = 1..n /\ \A i \in 1..n : registry[i] \in EntryType
  BY DEF IsRegistry
<1>2. w = [i \in 1..n |-> IF registry[i].command = c
                          THEN [registry[i] EXCEPT !.ended = s \in Terminal] ELSE registry[i]]
  BY <1>1 DEF WithState
<1>3. \A e \in EntryType : /\ [e EXCEPT !.ended = s \in Terminal] \in EntryType
                           /\ [e EXCEPT !.ended = s \in Terminal].command = e.command
  <2>1. \A b \in BOOLEAN : \A e \in EntryType : /\ [e EXCEPT !.ended = b] \in EntryType
                                              /\ [e EXCEPT !.ended = b].command = e.command
    BY DEF EntryType
  <2>2. (s \in Terminal) \in BOOLEAN
    OBVIOUS
  <2> QED BY <2>1, <2>2
<1> HIDE DEF n, w
<1>4. w \in [1..n -> EntryType] /\ \A i \in 1..n : w[i].command = registry[i].command
  BY <1>1, <1>2, <1>3
<1>5. w \in Seq(EntryType) /\ DOMAIN w = 1..n
  BY <1>1, <1>4, SeqDef
<1>6. IsMap(w)
  BY <1>1, <1>4, <1>5 DEF IsMap, IsRegistry
<1>7. In(w) = But(c) \cup Marked(c, s)
  BY <1>1, <1>2, <1>5 DEF In, But, Entries, Marked
<1> QED BY <1>5, <1>6, <1>7 DEF w, IsRegistry

-----------------------------------------------------------------------------
(* The inductive invariant, in four parts.                                 *)

InTheWorks(h) == handler[h].stage \notin {"idle", "locking"}
TaskLives(c) == watch[c].stage # "done"
Owned(c, t) == t # NoTransport => owner[t] = c

(* Whoever names a transport for a command names one created for it. *)
HandlersOwn == \A h \in Handlers : handler[h].stage # "idle" =>
    /\ handler[h].command \in Commands
    /\ handler[h].stage = "starting" =>
         /\ handler[h].transport \in Transports
         /\ owner[handler[h].transport] = handler[h].command
EntriesOwn == \A e \in Entries : owner[e.transport] = e.command
TasksOwn == \A c \in Commands :
    Owned(c, watch[c].transport) /\ (TaskLives(c) => watch[c].transport # NoTransport)
FilesOwn == /\ \A c \in Commands : Owned(c, disk[c]) /\ Owned(c, persisted[c])
            /\ \A c \in unchecked : persisted[c] # NoTransport
QueueOwns == \A i \in DOMAIN queue : Owned(queue[i][1], queue[i][2])
AcceptedOwned == \A t \in accepted : owner[t] \in Commands
Belongs ==
    /\ \A t \in Transports : robot[t] = "none" => owner[t] = None
    /\ HandlersOwn /\ EntriesOwn /\ TasksOwn /\ FilesOwn /\ QueueOwns /\ AcceptedOwned

(* An entry a navigate need not fear. *)
Settled(e) == e.ended \/ e.transport \in recovered \/ ~SoleUse(e.transport)

(* Who is past the lock is alone there, and will be alone in the works. *)
Alone ==
    /\ \A g, h \in Handlers : InTheWorks(g) /\ InTheWorks(h) => g = h
    /\ \A h \in Handlers, e \in Entries : InTheWorks(h) => Settled(e)
    /\ \A e \in Entries : e.ended => robot[e.transport] \in Terminal \/ ~SoleUse(e.transport)
    /\ \A e, f \in Entries : e = f \/ Settled(e) \/ Settled(f)

(* A transport nothing has been said of since the start of the process. *)
Unheard(t) == t \notin accepted /\ t \notin stopping /\ results[t] = <<>>

(* A transport is accepted once, and its results come in few orders. *)
StartsFresh == \A h \in Handlers : handler[h].stage = "starting" =>
    /\ handler[h].transport \notin accepted
    /\ \A c \in Commands : persisted[c] # handler[h].transport /\ disk[c] # handler[h].transport
    /\ \A i \in DOMAIN queue : queue[i][2] # handler[h].transport
UncheckedFresh == \A c \in unchecked : persisted[c] \notin accepted
AcceptedFirst == \A t \in Transports : t \notin accepted => Unheard(t)
TasksReport == \A c \in Commands : TaskLives(c) =>
    watch[c].transport \in accepted /\ results[watch[c].transport] \in {<<>>, <<"cancel">>}
EntriesReport == \A e \in Entries :
    e.transport \in accepted /\ e.transport \notin stopping /\ results[e.transport] = <<>>
StoppingReport == \A t \in stopping : results[t] \in {<<>>, <<"failed">>}
FewOrders == \A t \in Transports :
    results[t] \in {<<>>, <<"ended">>, <<"failed">>, <<"cancel">>,
                   <<"failed", "cancel">>, <<"cancel", "failed">>}
Reported ==
    /\ StartsFresh /\ UncheckedFresh /\ AcceptedFirst
    /\ TasksReport /\ EntriesReport /\ StoppingReport /\ FewOrders

-----------------------------------------------------------------------------
(* The steps, as the invariants see them.                                  *)

LEMMA TypeOfRegistry == ASSUME TypeOK PROVE IsRegistry(registry)
BY DEF TypeOK, IsRegistry, IsMap, EntryType

LEMMA Cleared ==
  ASSUME TypeOK, NEW c \in Commands, ClearTransport(c)
  PROVE  /\ IsRegistry(registry)' /\ Entries' = But(c)
         /\ queue' \in Seq(Commands \X (Transports \cup {NoTransport}))
         /\ queue' = queue \/ queue' = Append(queue, <<c, NoTransport>>)
<1>1. IsRegistry(registry)
  BY TypeOfRegistry
<1>2. CASE IsRegistered(c)
  <2>1. registry' = Without(c) /\ queue' = Append(queue, <<c, NoTransport>>)
    BY <1>2 DEF ClearTransport
  <2>2. queue' \in Seq(Commands \X (Transports \cup {NoTransport}))
    BY <2>1 DEF TypeOK
  <2>3. IsRegistry(Without(c)) /\ In(Without(c)) = But(c)
    BY <1>1, WithoutIs
  <2> QED BY <2>1, <2>2, <2>3 DEF Entries
<1>3. CASE ~IsRegistered(c)
  <2>1. registry' = registry /\ queue' = queue
    BY <1>3 DEF ClearTransport
  <2>2. Entries = But(c)
    BY <1>3, IsRegisteredIffEntry DEF But
  <2>3. queue \in Seq(Commands \X (Transports \cup {NoTransport}))
    BY DEF TypeOK
  <2> QED BY <1>1, <2>1, <2>2, <2>3 DEF Entries
<1> QED BY <1>2, <1>3

LEMMA Registered ==
  ASSUME TypeOK, NEW c \in Commands, NEW t \in Transports, RegisterCommand(c, t)
  PROVE  /\ IsRegistry(registry)' /\ Entries' = But(c) \cup {Fresh(c, t)}
         /\ queue' \in Seq(Commands \X (Transports \cup {NoTransport}))
         /\ queue' = Append(queue, <<c, t>>)
         /\ accepted' = accepted \cup {t}
<1>1. IsRegistry(Without(c)) /\ In(Without(c)) = But(c)
  BY TypeOfRegistry, WithoutIs
<1>2. Fresh(c, t) \in EntryType /\ Fresh(c, t).command = c
  BY DEF Fresh, EntryType
<1>3. \A f \in In(Without(c)) : f.command # Fresh(c, t).command
  BY <1>1, <1>2 DEF But
<1>4. /\ IsRegistry(Append(Without(c), Fresh(c, t)))
      /\ In(Append(Without(c), Fresh(c, t))) = But(c) \cup {Fresh(c, t)}
  BY <1>1, <1>2, <1>3, AppendEntry DEF IsRegistry
<1>5. registry' = Append(Without(c), Fresh(c, t)) /\ queue' = Append(queue, <<c, t>>)
      /\ accepted' = accepted \cup {t}
  BY DEF RegisterCommand, Fresh
<1>6. queue' \in Seq(Commands \X (Transports \cup {NoTransport}))
  BY <1>5 DEF TypeOK
<1> QED BY <1>4, <1>5, <1>6 DEF Entries

(* The steps of a watcher: a result, a step without one, or the end of a   *)
(* task whose transport is gone.                                           *)
Watches(c) ==
    \/ WatcherBegins(c) \/ InitialFetch(c) \/ PollAnswers(c) \/ ErrorExplained(c)
    \/ PollInterrupted(c) \/ PollFails(c) \/ BackoffEnds(c)
Says(c, r) == Settle(c, r) /\ (r = "ended" => IsActive(c))
Forgets(c) ==
    /\ robot[watch[c].transport] = "gone"
    /\ ClearTransport(c) /\ WatcherEnds(c) /\ UNCHANGED ghost
MovesOn(c) ==
    /\ \E s \in WatchStages : watch' = [watch EXCEPT ![c].stage = s]
    /\ arrived' \subseteq arrived
    /\ UNCHANGED <<queue, ghost>>
    /\ UNCHANGED registry \/ registry' = WithState(c, robot[watch[c].transport])

LEMMA IterateIs ==
  ASSUME NEW c, NEW s, s = registry \/ s = WithState(c, robot[watch[c].transport]),
         Iterate(c, s)
  PROVE  Says(c, "ended") \/ MovesOn(c)
<1>1. CASE IsActive(c) /\ c \in arrived /\ Settle(c, "ended")
  BY <1>1 DEF Says
<1>2. CASE registry' = s /\ WatcherGoesTo(c, "polling") /\ UNCHANGED <<queue, ghost>>
  BY <1>2 DEF MovesOn, WatcherGoesTo, WatchStages
<1>3. CASE registry' = s /\ WatcherEnds(c) /\ UNCHANGED <<queue, ghost>>
  BY <1>3 DEF MovesOn, WatcherEnds, WatchStages
<1> QED BY <1>1, <1>2, <1>3 DEF Iterate

LEMMA WatcherStepIs ==
  ASSUME NEW c, Watches(c)
  PROVE  /\ TaskLives(c)
         /\ UNCHANGED <<robot, owner, navigating, stopping, storage>>
         /\ Says(c, "ended") \/ Says(c, "failed") \/ Forgets(c) \/ MovesOn(c)
<1>1. CASE WatcherBegins(c)
  BY <1>1 DEF WatcherBegins, TaskLives, MovesOn, WatcherGoesTo, WatchStages
<1>2. CASE InitialFetch(c)
  BY <1>2, IterateIs DEF InitialFetch, TaskLives
<1>3. CASE PollAnswers(c)
  <2>1. CASE robot[watch[c].transport] = "gone" /\ ClearTransport(c) /\ WatcherEnds(c) /\ UNCHANGED ghost
    BY <1>3, <2>1 DEF PollAnswers, TaskLives, Forgets
  <2>2. CASE WatcherEnds(c) /\ UNCHANGED <<registry, queue, ghost>>
    BY <1>3, <2>2 DEF PollAnswers, TaskLives, MovesOn, WatcherEnds, WatchStages
  <2>3. CASE Iterate(c, registry) \/ Iterate(c, WithState(c, robot[watch[c].transport]))
    BY <1>3, <2>3, IterateIs DEF PollAnswers, TaskLives
  <2>4. CASE IsActive(c) /\ Settle(c, "ended")
    BY <1>3, <2>4 DEF PollAnswers, TaskLives, Says
  <2>5. CASE /\ registry' = WithState(c, robot[watch[c].transport])
             /\ WatcherGoesTo(c, "explaining") /\ UNCHANGED <<queue, ghost>>
    BY <1>3, <2>5 DEF PollAnswers, TaskLives, MovesOn, WatcherGoesTo, WatchStages
  <2> QED BY <1>3, <2>1, <2>2, <2>3, <2>4, <2>5 DEF PollAnswers
<1>4. CASE ErrorExplained(c)
  BY <1>4 DEF ErrorExplained, TaskLives, Says
<1>5. CASE PollInterrupted(c)
  BY <1>5, IterateIs DEF PollInterrupted, TaskLives
<1>6. CASE PollFails(c)
  <2>1. CASE Settle(c, "failed")
    BY <1>6, <2>1 DEF PollFails, TaskLives, Says
  <2>2. CASE WatcherGoesTo(c, "backoff") /\ UNCHANGED <<registry, queue, ghost>>
    BY <1>6, <2>2 DEF PollFails, TaskLives, MovesOn, WatcherGoesTo, WatchStages
  <2> QED BY <1>6, <2>1, <2>2 DEF PollFails
<1>7. CASE BackoffEnds(c)
  BY <1>7, IterateIs DEF BackoffEnds, TaskLives
<1> QED BY <1>1, <1>2, <1>3, <1>4, <1>5, <1>6, <1>7 DEF Watches

(* The steps of a handler before the transport is asked for. *)
Waits(h) ==
    \/ \E c \in Commands : Navigate(h, c)
    \/ AcquiresNavigateLock(h) \/ ReadinessKnown(h) \/ ScannerWaitEnds(h)
    \/ ScannerRechecked(h) \/ NavigateTimesOut(h)

(* Nobody but h changes what it holds. *)
OnlyHandler(h) ==
    /\ handler' \in [Handlers -> HandlerType] /\ newest' \in Handlers \cup {None}
    /\ \A g \in Handlers : g # h =>
         /\ handler'[g].stage = handler[g].stage
         /\ handler'[g].command = handler[g].command
         /\ handler'[g].transport = handler[g].transport

LEMMA HandlerReturns ==
  ASSUME TypeOK, NEW h \in Handlers, Returns(h)
  PROVE  OnlyHandler(h) /\ handler'[h].stage = "idle"
<1>1. handler \in [Handlers -> HandlerType] /\ newest \in Handlers \cup {None}
  BY DEF TypeOK, HandlerType
<1>2. IdleHandler \in HandlerType /\ IdleHandler.stage = "idle"
  BY DEF IdleHandler, HandlerType, HandlerStages
<1> QED BY <1>1, <1>2 DEF Returns, OnlyHandler

LEMMA HandlerGoes ==
  ASSUME TypeOK, NEW h \in Handlers, NEW s \in HandlerStages, Goto(h, s)
  PROVE  OnlyHandler(h) /\ handler'[h].stage = s /\ handler'[h].command = handler[h].command
<1>1. handler \in [Handlers -> HandlerType] /\ newest \in Handlers \cup {None}
  BY DEF TypeOK, HandlerType
<1>2. \A r \in HandlerType : /\ [r EXCEPT !.stage = s] \in HandlerType
                             /\ [r EXCEPT !.stage = s].stage = s
                             /\ [r EXCEPT !.stage = s].command = r.command
  BY DEF HandlerType
<1>3. handler' = [handler EXCEPT ![h] = [handler[h] EXCEPT !.stage = s]] /\ newest' = newest
  BY <1>1 DEF Goto
<1> QED BY <1>1, <1>2, <1>3 DEF OnlyHandler

LEMMA HandlerProceeds ==
  ASSUME TypeOK, NEW h \in Handlers, Proceeds(h)
  PROVE  /\ OnlyHandler(h) /\ handler'[h].stage = "creating"
         /\ handler'[h].command = handler[h].command
<1>1. handler \in [Handlers -> HandlerType] /\ newest \in Handlers \cup {None}
  BY DEF TypeOK, HandlerType
<1>2. \A r \in HandlerType :
        LET q == [[r EXCEPT !.stage = "creating"] EXCEPT !.replaced = FALSE] IN
        q \in HandlerType /\ q.stage = "creating" /\ q.command = r.command
  BY DEF HandlerType, HandlerStages
<1>3. handler' = [handler EXCEPT ![h] = [[handler[h] EXCEPT !.stage = "creating"] EXCEPT !.replaced = FALSE]]
  BY <1>1 DEF Proceeds
<1>4. newest' \in Handlers \cup {None}
  BY <1>1 DEF Proceeds
<1> QED BY <1>1, <1>2, <1>3, <1>4 DEF OnlyHandler

(* A handler that waits has no transport yet, and takes the lock of a     *)
(* registry in which everything has ended.                                *)
LEMMA WaitsIs ==
  ASSUME TypeOK, Belongs, NEW h \in Handlers, Waits(h)
  PROVE  /\ OnlyHandler(h)
         /\ UNCHANGED <<robot, owner, stopping, registry, watch, arrived, queue, storage, ghost>>
         /\ handler'[h].stage # "starting"
         /\ handler'[h].stage # "idle" => handler'[h].command \in Commands
         /\ InTheWorks(h)' => InTheWorks(h) \/ (LockIsFree /\ ~Busy)
<1>1. UNCHANGED <<robot, owner, stopping, registry, watch, arrived, queue, storage, ghost>>
  BY DEF Waits, Navigate, AcquiresNavigateLock, ReadinessKnown, ScannerWaitEnds,
         ScannerRechecked, NavigateTimesOut
<1>2. handler \in [Handlers -> HandlerType]
  BY DEF TypeOK, HandlerType
<1>3. handler[h].stage # "idle" => handler[h].command \in Commands
  BY DEF Belongs, HandlersOwn, FilesOwn
<1>4. CASE Returns(h)
  BY <1>1, <1>4, HandlerReturns DEF InTheWorks
<1>5. CASE \E s \in {"scanning", "rechecking"} : Goto(h, s) /\ InTheWorks(h)
  BY <1>1, <1>3, <1>5, HandlerGoes DEF InTheWorks, HandlerStages
<1>6. CASE Proceeds(h) /\ InTheWorks(h)
  BY <1>1, <1>3, <1>6, HandlerProceeds DEF InTheWorks
<1>7. CASE Goto(h, "checking") /\ handler[h].stage # "idle" /\ LockIsFree /\ ~Busy
  BY <1>1, <1>3, <1>7, HandlerGoes DEF HandlerStages
<1>8. ASSUME NEW c \in Commands, Navigate(h, c)
      PROVE  /\ OnlyHandler(h) /\ handler'[h].stage = "locking" /\ handler'[h].command = c
  <2>1. \A r \in HandlerType :
          LET q == [r EXCEPT !.replaced = TRUE] IN
          q \in HandlerType /\ q.stage = r.stage /\ q.command = r.command /\ q.transport = r.transport
    BY DEF HandlerType
  <2> DEFINE new == [[IdleHandler EXCEPT !.stage = "locking"] EXCEPT !.command = c]
  <2>2. new \in HandlerType /\ new.stage = "locking" /\ new.command = c
    BY DEF IdleHandler, HandlerType, HandlerStages
  <2>3. newest' = h /\ handler' = [g \in Handlers |->
                     IF g = h THEN new
                     ELSE IF g = newest THEN [handler[g] EXCEPT !.replaced = TRUE] ELSE handler[g]]
    BY <1>8 DEF Navigate
  <2> HIDE DEF new
  <2> QED BY <1>2, <2>1, <2>2, <2>3 DEF OnlyHandler
<1>9. CASE AcquiresNavigateLock(h)
  BY <1>4, <1>7, <1>9 DEF AcquiresNavigateLock
<1>10. CASE ReadinessKnown(h) \/ ScannerWaitEnds(h) \/ ScannerRechecked(h)
  BY <1>4, <1>5, <1>6, <1>10 DEF ReadinessKnown, ScannerWaitEnds, ScannerRechecked, InTheWorks
<1>11. CASE NavigateTimesOut(h)
  BY <1>4, <1>11 DEF NavigateTimesOut
<1>12. CASE \E c \in Commands : Navigate(h, c)
  BY <1>1, <1>8, <1>12 DEF InTheWorks
<1> QED BY <1>9, <1>10, <1>11, <1>12 DEF Waits

(* What the controller does to a transport it has done before: an end is   *)
(* an end, and who created it stays its owner.                             *)
LEMMA RobotKeeps ==
  ASSUME TypeOK, Belongs, Next
  PROVE  /\ robot' \in [Transports -> RobotStates]
         /\ owner' \in [Transports -> Commands \cup {None}]
         /\ \A t \in Transports :
              /\ robot[t] \in Terminal \cup {"gone"} => robot'[t] = robot[t]
              /\ robot'[t] = "none" => robot[t] = "none" /\ owner'[t] = owner[t]
              /\ owner'[t] # owner[t] => robot[t] = "none"
<1> DEFINE Goal == /\ robot' \in [Transports -> RobotStates]
                   /\ owner' \in [Transports -> Commands \cup {None}]
                   /\ \A t \in Transports :
                        /\ robot[t] \in Terminal \cup {"gone"} => robot'[t] = robot[t]
                        /\ robot'[t] = "none" => robot[t] = "none" /\ owner'[t] = owner[t]
                        /\ owner'[t] # owner[t] => robot[t] = "none"
<1>1. robot \in [Transports -> RobotStates] /\ owner \in [Transports -> Commands \cup {None}]
      /\ handler \in [Handlers -> HandlerType]
  BY DEF TypeOK, HandlerType
<1>2. CASE UNCHANGED <<robot, owner>>
  BY <1>1, <1>2
<1>3. ASSUME NEW t \in Transports, NEW h \in Handlers, Creates(h, t), handler[h].stage # "idle"
      PROVE  Goal
  <2>1. handler[h].command \in Commands
    BY <1>3 DEF Belongs, HandlersOwn, FilesOwn
  <2>2. robot' = [robot EXCEPT ![t] = "created"] /\ owner' = [owner EXCEPT ![t] = handler[h].command]
        /\ robot[t] = "none"
    BY <1>3 DEF Creates
  <2>3. "created" \in RobotStates /\ "none" \notin Terminal \cup {"gone"}
    BY DEF RobotStates, PreRun, Terminal
  <2> QED BY <1>1, <2>1, <2>2, <2>3
<1>4. ASSUME NEW t \in Transports, NEW s \in RobotStates \ {"none"},
             robot' = [robot EXCEPT ![t] = s], robot[t] \notin Terminal \cup {"gone"},
             UNCHANGED owner
      PROVE  Goal
  BY <1>1, <1>4
<1>5. ASSUME NEW h \in Handlers, TransportCreated(h) \/ TransportNotCreated(h)
      PROVE  Goal
  <2>1. handler[h].stage # "idle"
    BY <1>5 DEF TransportCreated, TransportNotCreated
  <2> QED BY <1>2, <1>3, <1>5, <2>1 DEF TransportCreated, TransportNotCreated
<1>6. ASSUME NEW h \in Handlers, TransportStarted(h) \/ TransportNotStarted(h)
      PROVE  Goal
  <2>1. handler[h].transport \in Transports
    BY <1>6 DEF TransportStarted, TransportNotStarted, Belongs, HandlersOwn, FilesOwn
  <2>2. PICK s \in {"gone", "created", "assigned"} :
          robot' = [robot EXCEPT ![handler[h].transport] = IF @ = "created" THEN s ELSE @]
    BY <1>6 DEF TransportStarted, TransportNotStarted
  <2>3. UNCHANGED owner
    BY <1>6 DEF TransportStarted, TransportNotStarted
  <2>4. s \in RobotStates \ {"none"} /\ "created" \notin Terminal \cup {"gone"}
    BY DEF RobotStates, PreRun, Terminal
  <2>5. CASE robot[handler[h].transport] = "created"
    BY <1>4, <2>1, <2>2, <2>3, <2>4, <2>5
  <2>6. CASE robot[handler[h].transport] # "created"
    BY <1>1, <1>2, <2>1, <2>2, <2>3, <2>6
  <2> QED BY <2>5, <2>6
<1>7. ASSUME NEW t \in Transports, StopEnds(t) \/ RobotMoves(t) \/ TransportDeleted(t)
      PROVE  Goal
  <2>1. UNCHANGED owner
    BY <1>7 DEF StopEnds, RobotMoves, TransportDeleted
  <2>2. UNCHANGED robot \/ \E s \in RobotStates \ {"none"} : /\ robot' = [robot EXCEPT ![t] = s]
                                                            /\ robot[t] \notin Terminal \cup {"gone"}
    <3>1. CASE Stopped(t)
      <4>1. CASE robot[t] \in PreRun \cup Active
        BY <3>1, <4>1 DEF Stopped, RobotStates, PreRun, Active, Terminal
      <4>2. CASE robot[t] \notin PreRun \cup Active
        BY <1>1, <3>1, <4>2 DEF Stopped
      <4> QED BY <4>1, <4>2
    <3>2. CASE RobotMoves(t) \/ TransportDeleted(t)
      BY <3>2 DEF RobotMoves, TransportDeleted, RobotStates, PreRun, Active, Terminal
    <3> QED BY <1>7, <3>1, <3>2 DEF StopEnds
  <2> QED BY <1>2, <1>4, <2>1, <2>2
<1>8. ASSUME NEW h \in Handlers, Waits(h)
      PROVE  Goal
  BY <1>2, <1>8, WaitsIs
<1>9. ASSUME NEW c \in Commands,
             Cancel(c) \/ Proximity(c) \/ Watches(c) \/ RecoveryStep(c)
      PROVE  Goal
  BY <1>2, <1>9, WatcherStepIs
     DEF Cancel, Proximity, RecoveryStep, RecoveryDrops, RecoveryFindsActive, RecoverySkips
<1>10. CASE Manage \/ PersistenceWrite \/ FileTurnsUnreadable \/ CrashAndRestart
  BY <1>2, <1>10 DEF Manage, PersistenceWrite, FileTurnsUnreadable, CrashAndRestart
<1> QED BY <1>5, <1>6, <1>7, <1>8, <1>9, <1>10 DEF Next, NavigateStep, WatcherStep, Waits, Watches

-----------------------------------------------------------------------------
(* The registry, its queue and what is accepted, step by step. *)

Clears(c) == ClearTransport(c) /\ UNCHANGED <<accepted, recovered, disk, persisted, lost>>
Marks(c) ==
    /\ TaskLives(c)
    /\ registry' = WithState(c, robot[watch[c].transport])
    /\ UNCHANGED <<queue, accepted, recovered, disk, persisted, lost>>
Registers(c, t) ==
    /\ t \in Transports /\ owner[t] = c
    /\ RegisterCommand(c, t)
    /\ UNCHANGED <<disk, persisted, lost>>
    /\ \/ \E h \in Handlers :
            TransportStarted(h) /\ handler[h].command = c /\ handler[h].transport = t
       \/ RecoveryFindsActive(c) /\ persisted[c] = t

LEMMA StartRegisters ==
  ASSUME TypeOK, Belongs, NEW h \in Handlers, TransportStarted(h)
  PROVE  \E c \in Commands, t \in Transports : Registers(c, t)
<1>1. handler[h].command \in Commands /\ handler[h].transport \in Transports
      /\ owner[handler[h].transport] = handler[h].command
  BY DEF TransportStarted, Belongs, HandlersOwn
<1>2. RegisterCommand(handler[h].command, handler[h].transport) /\ UNCHANGED <<disk, persisted, lost>>
  BY DEF TransportStarted, storage
<1>3. Registers(handler[h].command, handler[h].transport)
  BY <1>1, <1>2 DEF Registers
<1> QED BY <1>1, <1>3

LEMMA RecoveryRegisters ==
  ASSUME TypeOK, Belongs, NEW c \in Commands, RecoveryFindsActive(c)
  PROVE  \E t \in Transports : Registers(c, t)
<1>1. persisted[c] \in Transports /\ owner[persisted[c]] = c
  <2>1. persisted[c] \in Transports \cup {NoTransport}
    BY DEF TypeOK
  <2>2. persisted[c] # NoTransport /\ Owned(c, persisted[c])
    BY DEF RecoveryFindsActive, Belongs, FilesOwn
  <2> QED BY <2>1, <2>2 DEF Owned
<1>2. Registers(c, persisted[c])
  BY <1>1 DEF Registers, RecoveryFindsActive
<1> QED BY <1>1, <1>2

LEMMA RegistryStep ==
  ASSUME TypeOK, Belongs, Next
  PROVE  \/ UNCHANGED <<registry, queue, accepted, recovered, disk, persisted, lost>>
         \/ \E c \in Commands : Clears(c) \/ Marks(c) \/ \E t \in Transports : Registers(c, t)
         \/ PersistenceWrite \/ FileTurnsUnreadable \/ CrashAndRestart
<1> DEFINE Unmoved == UNCHANGED <<registry, queue, accepted, recovered, disk, persisted, lost>>
<1>1. ASSUME NEW h \in Handlers, Waits(h)
      PROVE  Unmoved
  BY <1>1, WaitsIs DEF ghost, storage
<1>2. ASSUME NEW h \in Handlers, TransportCreated(h) \/ TransportNotCreated(h) \/ TransportNotStarted(h)
      PROVE  Unmoved
  BY <1>2 DEF TransportCreated, TransportNotCreated, TransportNotStarted, ghost, storage
<1>3. ASSUME NEW h \in Handlers, TransportStarted(h)
      PROVE  \E c \in Commands, t \in Transports : Registers(c, t)
  BY <1>3, StartRegisters
<1>4. ASSUME NEW c \in Commands, Cancel(c) \/ RecoveryDrops(c)
      PROVE  Clears(c)
  BY <1>4 DEF Cancel, RecoveryDrops, Clears, ghost, storage
<1>5. ASSUME NEW c \in Commands, Watches(c)
      PROVE  Unmoved \/ Clears(c) \/ Marks(c)
  BY <1>5, WatcherStepIs DEF Says, Settle, Publish, Forgets, MovesOn, Clears, Marks, ghost, storage
<1>6. ASSUME NEW c \in Commands, RecoveryFindsActive(c)
      PROVE  \E t \in Transports : Registers(c, t)
  BY <1>6, RecoveryRegisters
<1>7. ASSUME NEW c \in Commands, Proximity(c) \/ RecoverySkips(c)
      PROVE  Unmoved
  BY <1>7 DEF Proximity, RecoverySkips, ghost, storage
<1>8. ASSUME NEW t \in Transports, StopEnds(t) \/ RobotMoves(t) \/ TransportDeleted(t)
      PROVE  Unmoved
  BY <1>8 DEF StopEnds, Publish, RobotMoves, TransportDeleted, ghost, storage
<1>9. ASSUME Manage
      PROVE  Unmoved
  BY <1>9 DEF Manage, ghost, storage
<1> QED BY <1>1, <1>2, <1>3, <1>4, <1>5, <1>6, <1>7, <1>8, <1>9
        DEF Next, NavigateStep, WatcherStep, RecoveryStep, Waits, Watches

-----------------------------------------------------------------------------
(* Types.                                                                  *)

QueueType == Seq(Commands \X (Transports \cup {NoTransport}))
FileType == [Commands -> Transports \cup {NoTransport}]

LEMMA TypeOKIs ==
  TypeOK <=>
    /\ robot \in [Transports -> RobotStates]
    /\ owner \in [Transports -> Commands \cup {None}]
    /\ handler \in [Handlers -> HandlerType] /\ newest \in Handlers \cup {None}
    /\ stopping \subseteq Transports
    /\ IsRegistry(registry)
    /\ watch \in [Commands -> TaskType] /\ arrived \subseteq Commands
    /\ queue \in QueueType
    /\ disk \in FileType /\ persisted \in FileType /\ unchecked \subseteq Commands
    /\ crashes \in 0..MaxCrashes /\ faults \in 0..MaxFaults /\ lost \subseteq Commands
    /\ recovered \subseteq accepted /\ accepted \subseteq Transports
    /\ results \in [Transports -> Seq(Results)]
BY DEF TypeOK, HandlerType, IsRegistry, IsMap, EntryType, TaskType, QueueType, FileType

(* What the writer and the loss of the file do to the queue and the file.  *)
LEMMA FileMovesIs ==
  ASSUME TypeOK, PersistenceWrite \/ FileTurnsUnreadable
  PROVE  /\ queue' \in QueueType /\ disk' \in FileType
         /\ faults' \in 0..MaxFaults /\ lost' \subseteq Commands
         /\ queue' = queue \/ (queue # <<>> /\ queue' = Tail(queue))
         /\ \A c \in Commands :
              \/ disk'[c] \in {disk[c], NoTransport}
              \/ queue # <<>> /\ c = queue[1][1] /\ disk'[c] = queue[1][2]
<1>1. /\ queue \in QueueType /\ disk \in FileType
      /\ faults \in 0..MaxFaults /\ lost \subseteq Commands
  BY TypeOKIs
<1>2. Faulty => faults' \in 0..MaxFaults
  BY <1>1, NavAssumption DEF Faulty
<1>3. CASE FileTurnsUnreadable
  <2>1. disk' \in FileType /\ \A c \in Commands : disk'[c] = NoTransport
    BY <1>3 DEF FileTurnsUnreadable, FileType
  <2> QED BY <1>1, <1>2, <1>3, <2>1 DEF FileTurnsUnreadable
<1>4. CASE PersistenceWrite
  <2>1. queue # <<>> /\ queue' = Tail(queue) /\ queue' \in QueueType
    BY <1>1, <1>4, HeadTailProperties DEF PersistenceWrite, QueueType
  <2>2. Head(queue) = queue[1] /\ queue[1] \in Commands \X (Transports \cup {NoTransport})
    BY <1>1, <2>1 DEF QueueType
  <2>3. queue[1][1] \in Commands /\ queue[1][2] \in Transports \cup {NoTransport}
    BY <2>2
  <2>4. CASE OperationWritten(queue[1][1], queue[1][2])
    <3>1. disk' \in FileType
      BY <1>1, <2>3, <2>4 DEF OperationWritten, FileType
    <3>2. \A c \in Commands : disk'[c] = IF c = queue[1][1] THEN queue[1][2] ELSE disk[c]
      BY <1>1, <2>3, <2>4 DEF OperationWritten, FileType
    <3> QED BY <1>1, <2>1, <2>4, <3>1, <3>2 DEF OperationWritten
  <2>5. CASE OperationDropped(queue[1][1])
    BY <1>1, <1>2, <2>1, <2>3, <2>5 DEF OperationDropped
  <2> QED BY <1>4, <2>2, <2>4, <2>5 DEF PersistenceWrite
<1> QED BY <1>3, <1>4

LEMMA WatcherTyped ==
  ASSUME TypeOK, NEW c \in Commands,
         Says(c, "ended") \/ Says(c, "failed") \/ Forgets(c) \/ MovesOn(c)
  PROVE  /\ IsRegistry(registry)' /\ queue' \in QueueType
         /\ watch' \in [Commands -> TaskType] /\ arrived' \subseteq Commands
         /\ recovered' \subseteq accepted' /\ accepted' \subseteq Transports
         /\ results' \in [Transports -> Seq(Results)]
<1>1. /\ IsRegistry(registry) /\ queue \in QueueType
      /\ watch \in [Commands -> TaskType] /\ arrived \subseteq Commands
      /\ recovered \subseteq accepted /\ accepted \subseteq Transports
      /\ results \in [Transports -> Seq(Results)]
  BY TypeOKIs
<1>2. \A s \in WatchStages, r \in TaskType : [r EXCEPT !.stage = s] \in TaskType
  BY DEF TaskType
<1>3. \A s \in WatchStages : [watch EXCEPT ![c].stage = s] \in [Commands -> TaskType]
  <2> TAKE s \in WatchStages
  <2>1. [watch EXCEPT ![c].stage = s] = [watch EXCEPT ![c] = [watch[c] EXCEPT !.stage = s]]
    BY <1>1
  <2> QED BY <1>1, <1>2, <2>1
<1>4. ASSUME ClearTransport(c), WatcherEnds(c)
      PROVE  /\ IsRegistry(registry)' /\ queue' \in QueueType
             /\ watch' \in [Commands -> TaskType] /\ arrived' \subseteq Commands
  <2>1. watch' \in [Commands -> TaskType] /\ arrived' \subseteq Commands
    BY <1>1, <1>3, <1>4 DEF WatcherEnds, WatchStages
  <2> QED BY <1>4, <2>1, Cleared DEF QueueType
<1>5. CASE Says(c, "ended") \/ Says(c, "failed")
  <2>1. PICK r \in {"ended", "failed"} : Settle(c, r)
    BY <1>5 DEF Says
  <2>2. results' \in [Transports -> Seq(Results)]
    <3>1. results' = [results EXCEPT ![watch[c].transport] = Append(@, r)]
      BY <2>1 DEF Settle, Publish
    <3>2. \A q \in Seq(Results) : Append(q, r) \in Seq(Results)
      BY DEF Results
    <3> QED BY <1>1, <3>1, <3>2
  <2> QED BY <1>1, <1>4, <2>1, <2>2 DEF Settle, Publish
<1>6. CASE Forgets(c)
  BY <1>1, <1>4, <1>6 DEF Forgets, ghost
<1>7. CASE MovesOn(c)
  BY <1>1, <1>3, <1>7, WithStateIs DEF MovesOn, ghost
<1> QED BY <1>5, <1>6, <1>7

LEMMA TypeStep ==
  ASSUME TypeOK, Belongs, Next
  PROVE  TypeOK'
<1>1. /\ handler \in [Handlers -> HandlerType] /\ newest \in Handlers \cup {None}
      /\ stopping \subseteq Transports
      /\ IsRegistry(registry)
      /\ watch \in [Commands -> TaskType] /\ arrived \subseteq Commands
      /\ queue \in QueueType
      /\ disk \in FileType /\ persisted \in FileType /\ unchecked \subseteq Commands
      /\ crashes \in 0..MaxCrashes /\ faults \in 0..MaxFaults /\ lost \subseteq Commands
      /\ recovered \subseteq accepted /\ accepted \subseteq Transports
      /\ results \in [Transports -> Seq(Results)]
  BY TypeOKIs
<1>2. /\ robot' \in [Transports -> RobotStates]
      /\ owner' \in [Transports -> Commands \cup {None}]
  BY RobotKeeps
<1> DEFINE Rest == /\ handler \in [Handlers -> HandlerType] /\ newest \in Handlers \cup {None}
                   /\ stopping \subseteq Transports
                   /\ IsRegistry(registry)
                   /\ watch \in [Commands -> TaskType] /\ arrived \subseteq Commands
                   /\ queue \in QueueType
                   /\ disk \in FileType /\ persisted \in FileType /\ unchecked \subseteq Commands
                   /\ crashes \in 0..MaxCrashes /\ faults \in 0..MaxFaults /\ lost \subseteq Commands
                   /\ recovered \subseteq accepted /\ accepted \subseteq Transports
                   /\ results \in [Transports -> Seq(Results)]
<1>3. ASSUME NEW h \in Handlers, Waits(h)
      PROVE  Rest'
  BY <1>1, <1>3, WaitsIs DEF OnlyHandler, ghost, storage
<1>4. ASSUME NEW h \in Handlers, TransportCreated(h)
      PROVE  Rest'
  <2>1. PICK t \in Transports : handler' = [handler EXCEPT ![h].stage = "starting", ![h].transport = t]
    BY <1>4 DEF TransportCreated
  <2>2. [[handler[h] EXCEPT !.stage = "starting"] EXCEPT !.transport = t] \in HandlerType
    BY <1>1 DEF HandlerType, HandlerStages
  <2>3. handler' = [handler EXCEPT ![h] = [[handler[h] EXCEPT !.stage = "starting"] EXCEPT !.transport = t]]
    BY <1>1, <2>1
  <2>4. handler' \in [Handlers -> HandlerType]
    BY <1>1, <2>2, <2>3
  <2> QED BY <1>1, <1>4, <2>4 DEF TransportCreated, ghost, storage
<1>5. ASSUME NEW h \in Handlers, TransportNotCreated(h) \/ TransportNotStarted(h)
      PROVE  Rest'
  BY <1>1, <1>5, HandlerReturns DEF TransportNotCreated, TransportNotStarted, OnlyHandler, ghost, storage
<1>6. ASSUME NEW h \in Handlers, TransportStarted(h)
      PROVE  Rest'
  <2>1. handler[h].command \in Commands /\ handler[h].transport \in Transports
    BY <1>6 DEF TransportStarted, Belongs, HandlersOwn, FilesOwn
  <2>2. /\ IsRegistry(registry)' /\ queue' \in QueueType
        /\ accepted' = accepted \cup {handler[h].transport}
    BY <1>6, <2>1, Registered DEF TransportStarted, QueueType
  <2> QED BY <1>1, <1>6, <2>1, <2>2, HandlerReturns DEF TransportStarted, OnlyHandler, storage
<1>7. ASSUME NEW c \in Commands, Cancel(c)
      PROVE  Rest'
  <2>1. Entry(c).transport \in Transports
    BY <1>1, <1>7, RegisteredHasEntry, EntryIs DEF Cancel, EntryType
  <2> QED BY <1>1, <1>7, <2>1, Cleared DEF Cancel, QueueType, navigating, ghost, storage
<1>8. ASSUME NEW c \in Commands, Watches(c)
      PROVE  Rest'
  BY <1>1, <1>8, WatcherStepIs, WatcherTyped DEF navigating, storage
<1>9. ASSUME NEW c \in Commands, Proximity(c)
      PROVE  Rest'
  BY <1>1, <1>9 DEF Proximity, navigating, ghost, storage
<1>10. ASSUME NEW c \in Commands, RecoveryDrops(c)
       PROVE  Rest'
  BY <1>1, <1>10, Cleared DEF RecoveryDrops, QueueType, navigating, ghost
<1>11. ASSUME NEW c \in Commands, RecoveryFindsActive(c)
       PROVE  Rest'
  <2>1. persisted[c] \in Transports
    BY <1>1, <1>11 DEF RecoveryFindsActive, Belongs, HandlersOwn, FilesOwn, FileType
  <2> QED BY <1>1, <1>11, <2>1, Registered DEF RecoveryFindsActive, QueueType, navigating
<1>12. ASSUME NEW c \in Commands, RecoverySkips(c)
       PROVE  Rest'
  BY <1>1, <1>12 DEF RecoverySkips, navigating, ghost
<1>13. ASSUME NEW t \in Transports, StopEnds(t)
       PROVE  Rest'
  <2>1. results' = [results EXCEPT ![t] = Append(@, "cancel")] /\ UNCHANGED <<accepted, recovered>>
    BY <1>13 DEF StopEnds, Publish
  <2>2. \A q \in Seq(Results) : Append(q, "cancel") \in Seq(Results)
    BY DEF Results
  <2>3. results' \in [Transports -> Seq(Results)]
    BY <1>1, <2>1, <2>2
  <2> QED BY <1>1, <1>13, <2>1, <2>3 DEF StopEnds, navigating, storage
<1>14. ASSUME NEW t \in Transports, RobotMoves(t) \/ TransportDeleted(t)
       PROVE  Rest'
  BY <1>1, <1>14 DEF RobotMoves, TransportDeleted, navigating, ghost, storage
<1>15. ASSUME Manage
       PROVE  Rest'
  <2>1. \A c \in Commands : c = Current => TransportOf(c) \in Transports \cup {NoTransport}
    BY <1>1, RegisteredHasEntry, EntryIs DEF TransportOf, EntryType
  <2>2. \A c \in Commands : c = Current => [transport |-> TransportOf(c), stage |-> "begin"] \in TaskType
    BY <2>1 DEF TaskType, WatchStages
  <2>3. NoTask \in TaskType
    BY DEF NoTask, TaskType, WatchStages
  <2>4. watch' = [c \in Commands |->
                   IF c # Current THEN NoTask
                   ELSE IF NeedsTask(c)
                        THEN [transport |-> TransportOf(c), stage |-> "begin"]
                        ELSE watch[c]]
    BY <1>15 DEF Manage
  <2>5. watch' \in [Commands -> TaskType]
    BY <1>1, <2>2, <2>3, <2>4
  <2>6. arrived' \subseteq Commands
    BY <1>1, <1>15 DEF Manage
  <2>7. UNCHANGED <<handler, newest, stopping, registry, queue, storage, ghost>>
    BY <1>15 DEF Manage, navigating
  <2> QED BY <1>1, <2>5, <2>6, <2>7 DEF ghost, storage
<1>16. ASSUME PersistenceWrite \/ FileTurnsUnreadable
       PROVE  Rest'
  <2>1. /\ queue' \in QueueType /\ disk' \in FileType
        /\ faults' \in 0..MaxFaults /\ lost' \subseteq Commands
    BY <1>16, FileMovesIs
  <2>2. UNCHANGED <<handler, newest, stopping, registry, watch, arrived, persisted,
                    unchecked, crashes, accepted, recovered, results>>
    BY <1>16 DEF PersistenceWrite, FileTurnsUnreadable, navigating, ghost
  <2> QED BY <1>1, <2>1, <2>2
<1>17. ASSUME CrashAndRestart
       PROVE  Rest'
  <2>1. IdleHandler \in HandlerType /\ NoTask \in TaskType
    BY DEF IdleHandler, HandlerType, HandlerStages, NoTask, TaskType, WatchStages
  <2>2. handler' \in [Handlers -> HandlerType] /\ watch' \in [Commands -> TaskType]
    BY <1>17, <2>1 DEF CrashAndRestart
  <2>3. IsRegistry(<<>>) /\ <<>> \in QueueType /\ <<>> \in Seq(Results)
    BY DEF IsRegistry, IsMap, QueueType
  <2>4. results' \in [Transports -> Seq(Results)]
    BY <1>17, <2>3 DEF CrashAndRestart
  <2>5. crashes' \in 0..MaxCrashes
    BY <1>1, <1>17, NavAssumption DEF CrashAndRestart
  <2>6. unchecked' \subseteq Commands
    BY <1>17 DEF CrashAndRestart
  <2>7. /\ newest' = None /\ stopping' = {} /\ registry' = <<>> /\ arrived' = {} /\ queue' = <<>>
        /\ persisted' = disk /\ disk' = disk /\ accepted' = {} /\ recovered' = {}
        /\ faults' = faults /\ lost' = {}
    BY <1>17 DEF CrashAndRestart
  <2> QED BY <1>1, <2>2, <2>3, <2>4, <2>5, <2>6, <2>7
<1> HIDE DEF Rest
<1>18. Rest'
  BY <1>3, <1>4, <1>5, <1>6, <1>7, <1>8, <1>9, <1>10, <1>11, <1>12, <1>13, <1>14, <1>15, <1>16, <1>17
     DEF Next, NavigateStep, WatcherStep, RecoveryStep, Waits, Watches
<1>19. TypeOK' <=> (robot' \in [Transports -> RobotStates] /\ owner' \in [Transports -> Commands \cup {None}] /\ Rest')
  BY DEF Rest, TypeOK, HandlerType, IsRegistry, IsMap, EntryType, TaskType, QueueType, FileType
<1> QED BY <1>2, <1>18, <1>19

-----------------------------------------------------------------------------
(* Ownership.                                                              *)

LEMMA OwnerStays ==
  ASSUME TypeOK, Belongs, Next
  PROVE  /\ \A t \in Transports : owner[t] \in Commands => owner'[t] = owner[t]
         /\ \A c \in Commands, t \in Transports \cup {NoTransport} : Owned(c, t) => Owned(c, t)'
<1>1. \A t \in Transports : owner[t] \in Commands => owner'[t] = owner[t]
  BY RobotKeeps, NavAssumption DEF Belongs
<1> QED BY <1>1 DEF Owned

LEMMA HandlersStep ==
  ASSUME TypeOK, Belongs, Next
  PROVE  HandlersOwn'
<1>1. handler \in [Handlers -> HandlerType] /\ HandlersOwn
  BY TypeOKIs DEF Belongs
<1>2. \A t \in Transports : owner[t] \in Commands => owner'[t] = owner[t]
  BY OwnerStays
<1>3. ASSUME NEW h \in Handlers, OnlyHandler(h), handler'[h].stage # "idle" =>
               /\ handler'[h].command \in Commands
               /\ handler'[h].stage = "starting" =>
                    /\ handler'[h].transport \in Transports
                    /\ owner'[handler'[h].transport] = handler'[h].command
      PROVE  HandlersOwn'
  BY <1>1, <1>2, <1>3 DEF OnlyHandler, HandlersOwn
<1>4. ASSUME UNCHANGED handler
      PROVE  HandlersOwn'
  BY <1>1, <1>2, <1>4 DEF HandlersOwn
<1>5. ASSUME NEW h \in Handlers, Waits(h)
      PROVE  HandlersOwn'
  BY <1>3, <1>5, WaitsIs
<1>6. ASSUME NEW h \in Handlers, TransportCreated(h)
      PROVE  HandlersOwn'
  <2>1. PICK t \in Transports : /\ Creates(h, t)
                                /\ handler' = [handler EXCEPT ![h].stage = "starting", ![h].transport = t]
    BY <1>6 DEF TransportCreated
  <2>2. handler[h].command \in Commands /\ owner' = [owner EXCEPT ![t] = handler[h].command]
    BY <1>1, <1>6, <2>1 DEF TransportCreated, HandlersOwn, Creates
  <2>3. owner'[t] = handler[h].command
    BY <2>2, TypeOKIs
  <2>4. handler' = [handler EXCEPT ![h] = [[handler[h] EXCEPT !.stage = "starting"] EXCEPT !.transport = t]]
    BY <1>1, <2>1
  <2>5. LET q == [[handler[h] EXCEPT !.stage = "starting"] EXCEPT !.transport = t] IN
        q.stage = "starting" /\ q.command = handler[h].command /\ q.transport = t
    BY <1>1 DEF HandlerType
  <2>6. /\ handler'[h].stage = "starting" /\ handler'[h].command = handler[h].command
        /\ handler'[h].transport = t
        /\ \A g \in Handlers : g # h => handler'[g] = handler[g]
    BY <1>1, <2>4, <2>5
  <2> QED BY <1>1, <1>2, <2>2, <2>3, <2>6 DEF HandlersOwn
<1>7. ASSUME NEW h \in Handlers, TransportNotCreated(h) \/ TransportStarted(h) \/ TransportNotStarted(h)
      PROVE  HandlersOwn'
  BY <1>3, <1>7, HandlerReturns DEF TransportNotCreated, TransportStarted,
                       TransportNotStarted
<1>8. ASSUME NEW c \in Commands, Cancel(c) \/ Proximity(c) \/ Watches(c) \/ RecoveryStep(c)
      PROVE  HandlersOwn'
  BY <1>4, <1>8, WatcherStepIs
     DEF Cancel, Proximity, RecoveryStep, RecoveryDrops, RecoveryFindsActive, RecoverySkips, navigating
<1>9. ASSUME NEW t \in Transports, StopEnds(t) \/ RobotMoves(t) \/ TransportDeleted(t)
      PROVE  HandlersOwn'
  BY <1>4, <1>9 DEF StopEnds, RobotMoves, TransportDeleted, navigating
<1>10. ASSUME Manage \/ PersistenceWrite \/ FileTurnsUnreadable
       PROVE  HandlersOwn'
  BY <1>4, <1>10 DEF Manage, PersistenceWrite, FileTurnsUnreadable, navigating
<1>11. ASSUME CrashAndRestart
       PROVE  HandlersOwn'
  BY <1>11 DEF CrashAndRestart, HandlersOwn, IdleHandler
<1> QED BY <1>5, <1>6, <1>7, <1>8, <1>9, <1>10, <1>11
        DEF Next, NavigateStep, WatcherStep, Waits, Watches

LEMMA EmptyRegistry == ASSUME registry = <<>> PROVE Entries = {}
BY DEF Entries, In

LEMMA MarkedIs ==
  ASSUME TypeOK, NEW c, NEW s, NEW e \in Marked(c, s)
  PROVE  \E f \in Entries : /\ f.command = c /\ e.command = c /\ e.transport = f.transport
                           /\ e.ended = (s \in Terminal)
<1>1. PICK f \in Entries \ But(c) : e = [f EXCEPT !.ended = s \in Terminal]
  BY DEF Marked
<1>2. f \in EntryType /\ f.command = c
  BY TypeOKIs, EntryIs DEF But
<1>3. \A b \in BOOLEAN : LET g == [f EXCEPT !.ended = b] IN
        g.command = f.command /\ g.transport = f.transport /\ g.ended = b
  BY <1>2 DEF EntryType
<1>4. (s \in Terminal) \in BOOLEAN
  OBVIOUS
<1> QED BY <1>1, <1>2, <1>3, <1>4

(* Where the entries come from. *)
LEMMA EntriesStep ==
  ASSUME TypeOK, Belongs, Next, NEW e \in Entries'
  PROVE  \/ \E f \in Entries : f.command = e.command /\ f.transport = e.transport
         \/ \E c \in Commands, t \in Transports : Registers(c, t) /\ e = Fresh(c, t)
<1>1. CASE UNCHANGED registry
  BY <1>1 DEF Entries
<1>2. ASSUME NEW c \in Commands, Clears(c)
      PROVE  e \in Entries
  BY <1>2, Cleared DEF Clears, But
<1>3. ASSUME NEW c \in Commands, Marks(c)
      PROVE  \E f \in Entries : f.command = e.command /\ f.transport = e.transport
  <2>1. Entries' = But(c) \cup Marked(c, robot[watch[c].transport])
    BY <1>3, TypeOfRegistry, WithStateIs DEF Marks, Entries
  <2>2. CASE e \in But(c)
    BY <2>2 DEF But
  <2>3. CASE e \in Marked(c, robot[watch[c].transport])
    BY <2>3, MarkedIs
  <2> QED BY <2>1, <2>2, <2>3
<1>4. ASSUME NEW c \in Commands, NEW t \in Transports, Registers(c, t)
      PROVE  e \in Entries \/ e = Fresh(c, t)
  BY <1>4, Registered DEF Registers, But
<1>5. CASE CrashAndRestart
  <2>1. registry' = <<>>
    BY <1>5 DEF CrashAndRestart
  <2> QED BY <2>1 DEF Entries, In
<1>6. CASE PersistenceWrite \/ FileTurnsUnreadable
  BY <1>1, <1>6 DEF PersistenceWrite, FileTurnsUnreadable
<1> QED BY <1>1, <1>2, <1>3, <1>4, <1>5, <1>6, RegistryStep

LEMMA EntriesOwnStep ==
  ASSUME TypeOK, Belongs, Next
  PROVE  EntriesOwn'
<1> SUFFICES ASSUME NEW e \in Entries'
             PROVE  owner'[e.transport] = e.command
  BY DEF EntriesOwn
<1>1. ASSUME NEW f \in Entries
      PROVE  owner'[f.transport] = f.command
  <2>1. f.transport \in Transports /\ f.command \in Commands
    BY TypeOKIs, EntryIs DEF EntryType
  <2> QED BY <2>1, OwnerStays DEF Belongs, EntriesOwn
<1>2. ASSUME NEW c \in Commands, NEW t \in Transports, Registers(c, t)
      PROVE  owner'[Fresh(c, t).transport] = Fresh(c, t).command
  BY <1>2, OwnerStays DEF Registers, Fresh
<1> QED BY <1>1, <1>2, EntriesStep

LEMMA AcceptedOwnedStep ==
  ASSUME TypeOK, Belongs, Next
  PROVE  AcceptedOwned'
<1>1. /\ \A t \in Transports : owner[t] \in Commands => owner'[t] = owner[t]
      /\ accepted \subseteq Transports /\ \A t \in accepted : owner[t] \in Commands
  BY OwnerStays, TypeOKIs DEF Belongs, AcceptedOwned
<1>2. accepted' \subseteq accepted \/ \E t \in Transports : /\ owner[t] \in Commands
                                                       /\ accepted' = accepted \cup {t}
  BY RegistryStep DEF Clears, Marks, Registers, RegisterCommand, PersistenceWrite, FileTurnsUnreadable, CrashAndRestart, ghost
<1> QED BY <1>1, <1>2 DEF AcceptedOwned

LEMMA TasksOwnStep ==
  ASSUME TypeOK, Belongs, Next
  PROVE  TasksOwn'
<1>1. watch \in [Commands -> TaskType] /\ TasksOwn
  BY TypeOKIs DEF Belongs
<1>2. ASSUME NEW c \in Commands, NEW t \in Transports \cup {NoTransport}, Owned(c, t)
      PROVE  Owned(c, t)'
  BY <1>2, OwnerStays
<1>3. ASSUME UNCHANGED watch
      PROVE  TasksOwn'
  <2> SUFFICES ASSUME NEW c \in Commands
               PROVE  (Owned(c, watch[c].transport) /\ (TaskLives(c) => watch[c].transport # NoTransport))'
    BY DEF TasksOwn
  <2>1. watch[c].transport \in Transports \cup {NoTransport}
    BY <1>1 DEF TaskType
  <2> QED BY <1>1, <1>2, <1>3, <2>1 DEF TasksOwn, TaskLives
<1>4. ASSUME NEW c \in Commands, TaskLives(c),
             NEW s \in WatchStages, watch' = [watch EXCEPT ![c].stage = s]
      PROVE  TasksOwn'
  <2> SUFFICES ASSUME NEW d \in Commands
               PROVE  (Owned(d, watch[d].transport) /\ (TaskLives(d) => watch[d].transport # NoTransport))'
    BY DEF TasksOwn
  <2>1. watch[d].transport \in Transports \cup {NoTransport}
    BY <1>1 DEF TaskType
  <2>2. \A r \in TaskType : [r EXCEPT !.stage = s].transport = r.transport
    BY DEF TaskType
  <2>3. watch' = [watch EXCEPT ![c] = [watch[c] EXCEPT !.stage = s]]
    BY <1>1, <1>4
  <2>4. watch'[d].transport = watch[d].transport /\ (d # c => watch'[d] = watch[d])
    BY <1>1, <2>2, <2>3
  <2> QED BY <1>1, <1>2, <1>4, <2>1, <2>4 DEF TasksOwn, TaskLives
<1>5. ASSUME NEW c \in Commands, Watches(c)
      PROVE  TasksOwn'
  <2>1. TaskLives(c) /\ (Says(c, "ended") \/ Says(c, "failed") \/ Forgets(c) \/ MovesOn(c))
    BY <1>5, WatcherStepIs
  <2>2. \E s \in WatchStages : watch' = [watch EXCEPT ![c].stage = s]
    BY <2>1 DEF Says, Settle, Forgets, WatcherEnds, MovesOn, WatchStages
  <2> QED BY <1>4, <2>1, <2>2
<1>6. ASSUME Manage
      PROVE  TasksOwn'
  <2> SUFFICES ASSUME NEW c \in Commands
               PROVE  (Owned(c, watch[c].transport) /\ (TaskLives(c) => watch[c].transport # NoTransport))'
    BY DEF TasksOwn
  <2>1. watch'[c] = IF c # Current THEN NoTask
                    ELSE IF NeedsTask(c)
                         THEN [transport |-> TransportOf(c), stage |-> "begin"]
                         ELSE watch[c]
    BY <1>6 DEF Manage
  <2>2. CASE watch'[c] = NoTask
    BY <2>2 DEF Owned, TaskLives, NoTask
  <2>3. CASE watch'[c] = watch[c]
    <3>1. watch[c].transport \in Transports \cup {NoTransport}
      BY <1>1 DEF TaskType
    <3> QED BY <1>1, <1>2, <2>3, <3>1 DEF TasksOwn, TaskLives
  <2>4. CASE c = Current /\ watch'[c] = [transport |-> TransportOf(c), stage |-> "begin"]
    <3>1. registry # <<>>
      BY <2>4, NavAssumption DEF Current
    <3>2. Len(registry) \in DOMAIN registry
      BY <3>1, TypeOfRegistry DEF IsRegistry
    <3>3. IsRegistered(c)
      BY <2>4, <3>1, <3>2 DEF Current, IsRegistered
    <3>4. Entry(c) \in Entries /\ TransportOf(c) = Entry(c).transport /\ Entry(c).command = c
      BY <3>3, TypeOfRegistry, RegisteredHasEntry
    <3>5. TransportOf(c) \in Transports /\ owner[TransportOf(c)] = c
      BY <3>4, TypeOfRegistry, EntryIs DEF EntryType, Belongs, EntriesOwn
    <3>6. TransportOf(c) # NoTransport
      BY <3>5 DEF Transports, NoTransport
    <3>7. UNCHANGED owner
      BY <1>6 DEF Manage
    <3> QED BY <2>4, <3>5, <3>6, <3>7 DEF Owned, TaskLives
  <2> QED BY <2>1, <2>2, <2>3, <2>4
<1>7. ASSUME CrashAndRestart
      PROVE  TasksOwn'
  BY <1>7 DEF CrashAndRestart, TasksOwn, Owned, TaskLives, NoTask
<1>8. ASSUME NEW h \in Handlers, Waits(h) \/ NavigateStep(h)
      PROVE  UNCHANGED watch
  BY <1>8, WaitsIs DEF Waits, NavigateStep, TransportCreated, TransportNotCreated, TransportStarted,
                       TransportNotStarted
<1>9. ASSUME NEW c \in Commands, Cancel(c) \/ Proximity(c) \/ RecoveryStep(c)
      PROVE  UNCHANGED watch
  BY <1>9 DEF Cancel, Proximity, RecoveryStep, RecoveryDrops, RecoveryFindsActive, RecoverySkips
<1>10. ASSUME NEW t \in Transports, StopEnds(t) \/ RobotMoves(t) \/ TransportDeleted(t)
       PROVE  UNCHANGED watch
  BY <1>10 DEF StopEnds, RobotMoves, TransportDeleted
<1>11. ASSUME PersistenceWrite \/ FileTurnsUnreadable
       PROVE  UNCHANGED watch
  BY <1>11 DEF PersistenceWrite, FileTurnsUnreadable
<1> QED BY <1>3, <1>5, <1>6, <1>7, <1>8, <1>9, <1>10, <1>11 DEF Next, WatcherStep, Waits, Watches

LEMMA FilesOwnStep ==
  ASSUME TypeOK, Belongs, Next
  PROVE  FilesOwn'
<1>1. disk \in FileType /\ persisted \in FileType /\ queue \in QueueType /\ FilesOwn /\ QueueOwns
  BY TypeOKIs DEF Belongs
<1>2. \A c \in Commands, t \in Transports \cup {NoTransport} : Owned(c, t) => Owned(c, t)'
  BY OwnerStays
<1>3. \A c \in Commands : /\ disk[c] \in Transports \cup {NoTransport}
                         /\ persisted[c] \in Transports \cup {NoTransport}
  BY <1>1 DEF FileType
<1>4. CASE UNCHANGED <<disk, persisted>> /\ unchecked' \subseteq unchecked
  BY <1>1, <1>2, <1>3, <1>4 DEF FilesOwn
<1>5. CASE PersistenceWrite \/ FileTurnsUnreadable
  <2>1. UNCHANGED <<persisted, unchecked, owner>>
    BY <1>5 DEF PersistenceWrite, FileTurnsUnreadable
  <2>2. queue # <<>> => Owned(queue[1][1], queue[1][2])
    BY <1>1 DEF QueueOwns, QueueType
  <2>3. \A c \in Commands :
          \/ disk'[c] \in {disk[c], NoTransport}
          \/ queue # <<>> /\ c = queue[1][1] /\ disk'[c] = queue[1][2]
    BY <1>5, FileMovesIs
  <2>4. \A c \in Commands : Owned(c, disk'[c])
    BY <1>1, <2>2, <2>3 DEF FilesOwn, Owned
  <2> QED BY <1>1, <2>1, <2>4 DEF FilesOwn, Owned
<1>6. CASE CrashAndRestart
  BY <1>1, <1>6 DEF CrashAndRestart, FilesOwn, Owned
<1>7. ASSUME NEW h \in Handlers, Waits(h) \/ NavigateStep(h)
      PROVE  UNCHANGED <<disk, persisted, unchecked>>
  BY <1>7, WaitsIs DEF Waits, NavigateStep, TransportCreated, TransportNotCreated, TransportStarted,
                       TransportNotStarted, storage
<1>8. ASSUME NEW c \in Commands, Cancel(c) \/ Proximity(c) \/ Watches(c) \/ RecoveryStep(c)
      PROVE  UNCHANGED <<disk, persisted>> /\ unchecked' \subseteq unchecked
  BY <1>8, WatcherStepIs
     DEF Cancel, Proximity, RecoveryStep, RecoveryDrops, RecoveryFindsActive, RecoverySkips, storage
<1>9. ASSUME NEW t \in Transports, StopEnds(t) \/ RobotMoves(t) \/ TransportDeleted(t)
      PROVE  UNCHANGED <<disk, persisted, unchecked>>
  BY <1>9 DEF StopEnds, RobotMoves, TransportDeleted, storage
<1>10. ASSUME Manage
       PROVE  UNCHANGED <<disk, persisted, unchecked>>
  BY <1>10 DEF Manage, storage
<1> QED BY <1>4, <1>5, <1>6, <1>7, <1>8, <1>9, <1>10 DEF Next, WatcherStep, Waits, Watches

(* What the queue holds after a step: one operation more, or one less. *)
LEMMA AppendOperation ==
  ASSUME NEW q \in QueueType, NEW o \in Commands \X (Transports \cup {NoTransport})
  PROVE  /\ Len(q) \in Nat /\ DOMAIN q = 1..Len(q) /\ DOMAIN Append(q, o) = 1..(Len(q) + 1)
         /\ \A i \in DOMAIN Append(q, o) :
              (i \in DOMAIN q /\ Append(q, o)[i] = q[i]) \/ (i = Len(q) + 1 /\ Append(q, o)[i] = o)
         /\ \A i \in DOMAIN q : Append(q, o)[i] = q[i]
         /\ Append(q, o)[Len(q) + 1] = o
BY DEF QueueType

LEMMA QueueOwnsStep ==
  ASSUME TypeOK, Belongs, Next
  PROVE  QueueOwns'
<1>1. queue \in QueueType /\ QueueOwns
  BY TypeOKIs DEF Belongs
<1>2. \A i \in DOMAIN queue : queue[i][2] # NoTransport => owner'[queue[i][2]] = queue[i][1]
  <2> TAKE i \in DOMAIN queue
  <2>1. queue[i] \in Commands \X (Transports \cup {NoTransport})
    BY <1>1 DEF QueueType
  <2>2. queue[i][1] \in Commands /\ queue[i][2] \in Transports \cup {NoTransport}
    BY <2>1
  <2>3. Owned(queue[i][1], queue[i][2])
    BY <1>1 DEF QueueOwns
  <2>4. queue[i][2] # NoTransport => owner'[queue[i][2]] = queue[i][1]
    BY <2>2, <2>3, OwnerStays DEF Owned
  <2> QED BY <2>4
<1>3. CASE UNCHANGED queue
  BY <1>2, <1>3 DEF QueueOwns, Owned
<1>4. ASSUME NEW c \in Commands, NEW t \in Transports \cup {NoTransport},
             queue' = Append(queue, <<c, t>>), t # NoTransport => owner'[t] = c
      PROVE  QueueOwns'
  <2>1. <<c, t>> \in Commands \X (Transports \cup {NoTransport})
    OBVIOUS
  <2>2. \A i \in DOMAIN queue' : (i \in DOMAIN queue /\ queue'[i] = queue[i]) \/ queue'[i] = <<c, t>>
    BY <1>1, <1>4, <2>1, AppendOperation
  <2> QED BY <1>2, <1>4, <2>2 DEF QueueOwns, Owned
<1>5. ASSUME NEW c \in Commands, Clears(c)
      PROVE  QueueOwns'
  BY <1>3, <1>4, <1>5, Cleared DEF Clears
<1>6. ASSUME NEW c \in Commands, NEW t \in Transports, Registers(c, t)
      PROVE  QueueOwns'
  <2>1. owner'[t] = c /\ queue' = Append(queue, <<c, t>>)
    BY <1>6, OwnerStays, Registered DEF Registers
  <2> QED BY <1>4, <2>1
<1>7. CASE PersistenceWrite \/ FileTurnsUnreadable
  <2>1. queue' = queue \/ (queue # <<>> /\ queue' = Tail(queue))
    BY <1>7, FileMovesIs
  <2>2. ASSUME queue # <<>>, queue' = Tail(queue)
        PROVE  \A i \in DOMAIN queue' : i + 1 \in DOMAIN queue /\ queue'[i] = queue[i + 1]
    BY <1>1, <2>2 DEF QueueType
  <2> QED BY <1>2, <1>3, <2>1, <2>2 DEF QueueOwns, Owned
<1>8. CASE CrashAndRestart
  BY <1>8 DEF CrashAndRestart, QueueOwns
<1> QED BY <1>3, <1>5, <1>6, <1>7, <1>8, RegistryStep DEF Marks

LEMMA BelongsStep ==
  ASSUME TypeOK, Belongs, Next
  PROVE  Belongs'
<1>1. \A t \in Transports : robot'[t] = "none" => owner'[t] = None
  BY RobotKeeps DEF Belongs
<1> QED BY <1>1, HandlersStep, EntriesOwnStep, TasksOwnStep, FilesOwnStep, QueueOwnsStep, AcceptedOwnedStep
        DEF Belongs

Invariant == TypeOK /\ Belongs

LEMMA InitInvariant == Init => Invariant
<1> SUFFICES ASSUME Init PROVE TypeOK /\ Belongs
  BY DEF Invariant
<1>1. TypeOK
  <2>1. IdleHandler \in HandlerType /\ NoTask \in TaskType
    BY DEF IdleHandler, HandlerType, HandlerStages, NoTask, TaskType, WatchStages
  <2>2. handler \in [Handlers -> HandlerType] /\ watch \in [Commands -> TaskType]
    BY <2>1 DEF Init
  <2>3. IsRegistry(<<>>) /\ <<>> \in QueueType /\ <<>> \in Seq(Results)
    BY DEF IsRegistry, IsMap, QueueType
  <2>4. results \in [Transports -> Seq(Results)]
    BY <2>3 DEF Init
  <2>5. robot \in [Transports -> RobotStates] /\ owner \in [Transports -> Commands \cup {None}]
    BY DEF Init, RobotStates
  <2>6. disk \in FileType /\ persisted \in FileType
    BY DEF Init, FileType
  <2>7. crashes \in 0..MaxCrashes /\ faults \in 0..MaxFaults /\ lost \subseteq Commands
    BY NavAssumption DEF Init
  <2>8. /\ newest = None /\ stopping = {} /\ registry = <<>> /\ arrived = {} /\ queue = <<>>
        /\ unchecked = {} /\ accepted = {} /\ recovered = {}
    BY DEF Init
  <2> QED BY <2>2, <2>3, <2>4, <2>5, <2>6, <2>7, <2>8, TypeOKIs
<1>2. Entries = {}
  BY EmptyRegistry DEF Init
<1>3. HandlersOwn
  BY DEF Init, HandlersOwn, IdleHandler
<1>4. TasksOwn /\ FilesOwn
  BY DEF Init, TasksOwn, FilesOwn, Owned, TaskLives, NoTask
<1>5. EntriesOwn /\ QueueOwns /\ AcceptedOwned
  BY <1>2 DEF Init, EntriesOwn, QueueOwns, AcceptedOwned
<1> QED BY <1>1, <1>3, <1>4, <1>5 DEF Belongs, Init

LEMMA StepInvariant == Invariant /\ [Next]_vars => Invariant'
<1> SUFFICES ASSUME TypeOK, Belongs, [Next]_vars
             PROVE  Invariant'
  BY DEF Invariant
<1>1. CASE Next
  BY <1>1, TypeStep, BelongsStep DEF Invariant
<1>2. CASE UNCHANGED vars
  <2>1. UNCHANGED <<robot, owner, handler, newest, stopping, registry, watch, arrived, queue, disk, persisted,
                    unchecked, crashes, faults, lost, accepted, recovered, results>>
    BY <1>2 DEF vars, navigating, storage, ghost
  <2>2. TypeOK'
    BY <2>1 DEF TypeOK
  <2>3. Belongs'
    BY <2>1 DEF Belongs, HandlersOwn, EntriesOwn, Entries, TasksOwn, TaskLives, FilesOwn, QueueOwns,
                   AcceptedOwned, Owned
  <2> QED BY <2>2, <2>3 DEF Invariant
<1> QED BY <1>1, <1>2

(* Every variable keeps its type, and no command is registered twice, for  *)
(* any number of commands, requests, transports and crashes.               *)
THEOREM TypeCorrect == Spec => []TypeOK
<1>1. Spec => []Invariant
  BY InitInvariant, StepInvariant, PTL DEF Spec
<1> QED BY <1>1, PTL DEF Invariant

-----------------------------------------------------------------------------
(* The persistence file.                                                   *)

LEMMA AppendHolds ==
  ASSUME TypeOK, NEW c \in Commands, NEW t \in Transports \cup {NoTransport},
         queue' = Append(queue, <<c, t>>), UNCHANGED disk
  PROVE  /\ WillHold(c, t)'
         /\ \A d \in Commands, u \in Transports \cup {NoTransport} :
              d # c /\ WillHold(d, u) => WillHold(d, u)'
<1> DEFINE n == Len(queue)
<1>1. /\ n \in Nat /\ DOMAIN queue = 1..n /\ DOMAIN queue' = 1..(n + 1)
      /\ \A i \in 1..n : queue'[i] = queue[i]
      /\ queue'[n + 1] = <<c, t>>
  BY AppendOperation, TypeOKIs
<1> HIDE DEF n
<1>2. n + 1 \in DOMAIN queue' /\ queue'[n + 1][1] = c /\ queue'[n + 1][2] = t
  BY <1>1
<1>3. \A i \in DOMAIN queue' : i = n + 1 \/ (i \in DOMAIN queue /\ i < n + 1 /\ queue'[i] = queue[i])
  BY <1>1
<1>4. WillHold(c, t)'
  <2>1. \A i \in DOMAIN queue' : (\A j \in DOMAIN queue' : queue'[j][1] = c => j <= i) => i = n + 1
    <3> SUFFICES ASSUME NEW i \in DOMAIN queue', n + 1 <= i
                 PROVE  i = n + 1
      BY <1>2
    <3> QED BY <1>1
  <2> QED BY <1>2, <2>1 DEF WillHold
<1>5. ASSUME NEW d \in Commands, NEW u \in Transports \cup {NoTransport}, d # c, WillHold(d, u)
      PROVE  WillHold(d, u)'
  <2>1. \A i \in DOMAIN queue' : queue'[i][1] = d => i \in DOMAIN queue /\ queue'[i] = queue[i]
    BY <1>2, <1>3, <1>5
  <2>2. \A i \in DOMAIN queue : i \in DOMAIN queue' /\ queue'[i] = queue[i]
    BY <1>1
  <2>3. (\A i \in DOMAIN queue' : queue'[i][1] # d) => disk'[d] = u
    <3>1. (\A i \in DOMAIN queue' : queue'[i][1] # d) => \A i \in DOMAIN queue : queue[i][1] # d
      BY <2>2
    <3> QED BY <1>5, <3>1 DEF WillHold
  <2>4. ASSUME NEW i \in DOMAIN queue', queue'[i][1] = d,
               \A j \in DOMAIN queue' : queue'[j][1] = d => j <= i
        PROVE  queue'[i][2] = u
    <3>1. i \in DOMAIN queue /\ queue[i] = queue'[i]
      BY <2>1, <2>4
    <3>2. \A j \in DOMAIN queue : queue[j][1] = d => j <= i
      BY <2>2, <2>4
    <3> QED BY <1>5, <2>4, <3>1, <3>2 DEF WillHold
  <2> QED BY <2>3, <2>4 DEF WillHold
<1> QED BY <1>4, <1>5

LEMMA AppendStrays ==
  ASSUME TypeOK, NEW c \in Commands, NEW t \in Transports \cup {NoTransport},
         queue' = Append(queue, <<c, t>>), UNCHANGED lost, NEW d \in Commands, d # c
  PROVE  Astray(d) => Astray(d)'
<1>1. <<c, t>> \in Commands \X (Transports \cup {NoTransport}) /\ queue \in QueueType
  BY TypeOKIs
<1>2. \A i \in DOMAIN queue' : (i \in DOMAIN queue /\ queue'[i] = queue[i]) \/ queue'[i] = <<c, t>>
  BY <1>1, AppendOperation
<1> QED BY <1>2 DEF Astray

(* An operation that leaves the queue takes effect, or is not the last one *)
(* of its command.                                                         *)
LEMMA WriteHolds ==
  ASSUME TypeOK, NEW c \in Commands, NEW t \in Transports \cup {NoTransport}, WillHold(c, t),
         queue # <<>>, queue' = Tail(queue),
         \/ disk'[c] = IF c = queue[1][1] THEN queue[1][2] ELSE disk[c]
         \/ \E i \in DOMAIN queue' : queue'[i][1] = c
  PROVE  WillHold(c, t)'
<1> DEFINE n == Len(queue)
<1>2. /\ n \in Nat /\ DOMAIN queue = 1..n /\ n >= 1 /\ Head(queue) = queue[1]
      /\ DOMAIN queue' = 1..(n - 1) /\ \A i \in 1..(n - 1) : queue'[i] = queue[i + 1]
  BY TypeOKIs DEF QueueType
<1> HIDE DEF n
<1>4. \A i \in DOMAIN queue' : i + 1 \in DOMAIN queue /\ queue'[i] = queue[i + 1]
  BY <1>2
<1>5. \A j \in DOMAIN queue : j = 1 \/ (j - 1 \in DOMAIN queue' /\ queue'[j - 1] = queue[j])
  BY <1>2
<1>6. ASSUME NEW i \in DOMAIN queue', queue'[i][1] = c,
             \A j \in DOMAIN queue' : queue'[j][1] = c => j <= i
      PROVE  queue'[i][2] = t
  <2>1. i + 1 \in DOMAIN queue /\ queue[i + 1] = queue'[i]
    BY <1>4
  <2>2. ASSUME NEW j \in DOMAIN queue, queue[j][1] = c
        PROVE  j <= i + 1
    <3>1. i \in Nat /\ i >= 1 /\ j \in Nat
      BY <1>2
    <3>2. CASE j = 1
      BY <3>1, <3>2
    <3>3. CASE j - 1 \in DOMAIN queue' /\ queue'[j - 1] = queue[j]
      <4>1. j - 1 <= i
        BY <1>6, <2>2, <3>3
      <4> QED BY <3>1, <4>1
    <3> QED BY <1>5, <3>2, <3>3
  <2> QED BY <1>6, <2>1, <2>2 DEF WillHold
<1>7. ASSUME \A i \in DOMAIN queue' : queue'[i][1] # c
      PROVE  disk'[c] = t
  <2>1. \A j \in DOMAIN queue : queue[j][1] = c => j = 1
    BY <1>5, <1>7
  <2>2. CASE c = queue[1][1]
    <3>1. 1 \in DOMAIN queue /\ \A j \in DOMAIN queue : queue[j][1] = c => j <= 1
      BY <1>2, <2>1
    <3>2. queue[1][2] = t
      BY <2>2, <3>1 DEF WillHold
    <3> QED BY <1>7, <2>2, <3>2
  <2>3. CASE c # queue[1][1]
    <3>1. \A j \in DOMAIN queue : queue[j][1] # c
      BY <2>1, <2>3
    <3>2. disk[c] = t
      BY <3>1 DEF WillHold
    <3> QED BY <1>7, <2>3, <3>2
  <2> QED BY <2>2, <2>3
<1> QED BY <1>6, <1>7 DEF WillHold

(* Only a failure leads a command astray that has no operation queued.     *)
LEMMA WriteKeeps ==
  ASSUME TypeOK, PersistenceWrite, NEW c \in Commands
  PROVE  /\ \A t \in Transports \cup {NoTransport} : WillHold(c, t) => WillHold(c, t)' \/ Astray(c)'
         /\ Astray(c) => Astray(c)'
<1>1. /\ queue # <<>> /\ queue' = Tail(queue) /\ Head(queue) = queue[1]
      /\ 1 \in DOMAIN queue
      /\ \A i \in DOMAIN queue' : i + 1 \in DOMAIN queue /\ queue'[i] = queue[i + 1]
  BY TypeOKIs DEF PersistenceWrite, QueueType
<1>2. CASE OperationWritten(queue[1][1], queue[1][2])
  <2>1. disk'[c] = IF c = queue[1][1] THEN queue[1][2] ELSE disk[c]
    BY <1>2, TypeOKIs DEF OperationWritten, FileType
  <2>2. Astray(c) => Astray(c)'
    BY <1>1, <1>2 DEF Astray, OperationWritten
  <2> QED BY <1>1, <2>1, <2>2, WriteHolds
<1>3. CASE OperationDropped(queue[1][1])
  <2>1. UNCHANGED disk /\ lost' = lost \cup {queue[1][1]}
    BY <1>3 DEF OperationDropped
  <2>2. Astray(c) => Astray(c)'
    BY <1>1, <2>1 DEF Astray
  <2>3. ASSUME NEW t \in Transports \cup {NoTransport}, WillHold(c, t)
        PROVE  WillHold(c, t)' \/ Astray(c)'
    <3>1. CASE c # queue[1][1] \/ \E i \in DOMAIN queue' : queue'[i][1] = c
      BY <1>1, <2>1, <2>3, <3>1, WriteHolds
    <3>2. CASE c = queue[1][1] /\ \A i \in DOMAIN queue' : queue'[i][1] # c
      BY <2>1, <3>2 DEF Astray
    <3> QED BY <3>1, <3>2
  <2> QED BY <2>2, <2>3
<1> QED BY <1>1, <1>2, <1>3 DEF PersistenceWrite

LEMMA LossKeeps ==
  ASSUME TypeOK, FileTurnsUnreadable, NEW c \in Commands
  PROVE  /\ \A t \in Transports \cup {NoTransport} : WillHold(c, t) => WillHold(c, t)' \/ Astray(c)'
         /\ Astray(c) => Astray(c)'
<1>1. /\ UNCHANGED queue /\ disk'[c] = NoTransport
      /\ lost \subseteq lost' /\ (disk[c] # NoTransport => c \in lost')
  BY DEF FileTurnsUnreadable
<1>2. Astray(c) => Astray(c)'
  BY <1>1 DEF Astray
<1>3. ASSUME NEW t \in Transports \cup {NoTransport}, WillHold(c, t), ~Astray(c)'
      PROVE  WillHold(c, t)'
  <2>1. disk[c] = NoTransport \/ \E i \in DOMAIN queue : queue[i][1] = c
    BY <1>1, <1>3 DEF Astray
  <2> QED BY <1>1, <1>3, <2>1 DEF WillHold
<1> QED BY <1>2, <1>3

(* FileFollowsRegistry, told of the entries: t is what the file should     *)
(* hold for c once the queue is written.                                   *)
Names(c, t) ==
    \/ \E e \in Entries : e.command = c /\ e.transport = t
    \/ /\ \A e \in Entries : e.command # c
       /\ t = IF RegisteredSinceStart(c) THEN NoTransport ELSE persisted[c]
FileHolds(c) == \E t \in Transports \cup {NoTransport} : Names(c, t) /\ WillHold(c, t)
EntriesAccepted == \A e \in Entries : e.transport \in accepted
FileFollows == EntriesAccepted /\ \A c \in Commands : FileHolds(c) \/ Astray(c)

LEMMA FileFollowsIs ==
  ASSUME TypeOK, FileFollows
  PROVE  FileFollowsRegistry
<1> SUFFICES ASSUME NEW c \in Commands, FileHolds(c)
             PROVE  WillHold(c, Expected(c))
  BY DEF FileFollowsRegistry, FileFollows
<1>1. PICK t \in Transports \cup {NoTransport} : Names(c, t) /\ WillHold(c, t)
  BY DEF FileHolds
<1>2. CASE IsRegistered(c)
  <2>1. Entry(c) \in Entries /\ Entry(c).command = c /\ TransportOf(c) = Entry(c).transport
    BY <1>2, TypeOfRegistry, RegisteredHasEntry DEF TransportOf
  <2>2. \A e \in Entries : e.command = c => e = Entry(c)
    BY <2>1, TypeOfRegistry, OneEntryEach
  <2>3. t = TransportOf(c)
    BY <1>1, <2>1, <2>2 DEF Names
  <2> QED BY <1>1, <1>2, <2>3 DEF Expected
<1>3. CASE ~IsRegistered(c)
  <2>1. t = IF RegisteredSinceStart(c) THEN NoTransport ELSE persisted[c]
    BY <1>1, <1>3, IsRegisteredIffEntry DEF Names
  <2> QED BY <1>1, <1>3, <2>1 DEF Expected
<1> QED BY <1>2, <1>3

(* A command has been registered since the start of the process after a    *)
(* step if it was before, or if this is the step that registers it.        *)
LEMMA SinceStartKept ==
  ASSUME Invariant, Next, UNCHANGED accepted, NEW d
  PROVE  RegisteredSinceStart(d)' <=> RegisteredSinceStart(d)
<1>1. \A t \in accepted : owner'[t] = owner[t]
  BY OwnerStays, TypeOKIs DEF Invariant, Belongs, AcceptedOwned
<1> QED BY <1>1 DEF RegisteredSinceStart

LEMMA SinceStartRegistered ==
  ASSUME Invariant, Next, NEW c \in Commands, NEW t \in Transports, Registers(c, t), NEW d, d # c
  PROVE  RegisteredSinceStart(d)' <=> RegisteredSinceStart(d)
<1>1. \A u \in accepted : owner'[u] = owner[u]
  BY OwnerStays, TypeOKIs DEF Invariant, Belongs, AcceptedOwned
<1>2. owner'[t] = c /\ accepted' = accepted \cup {t}
  BY OwnerStays, Registered DEF Invariant, Registers
<1> QED BY <1>1, <1>2 DEF RegisteredSinceStart

LEMMA FileStep ==
  ASSUME Invariant, Invariant', FileFollows, [Next]_vars
  PROVE  \A d \in Commands : FileHolds(d)' \/ Astray(d)'
<1> SUFFICES ASSUME NEW d \in Commands
             PROVE  FileHolds(d)' \/ Astray(d)'
  OBVIOUS
<1> USE DEF Invariant
<1>1. ASSUME UNCHANGED <<queue, disk, lost>>
      PROVE  /\ \A u \in Transports \cup {NoTransport} : WillHold(d, u) => WillHold(d, u)'
             /\ Astray(d) => Astray(d)'
  BY <1>1 DEF WillHold, Astray
<1>2. ASSUME \A u \in Transports \cup {NoTransport} : Names(d, u) => Names(d, u)',
             \A u \in Transports \cup {NoTransport} : WillHold(d, u) => WillHold(d, u)' \/ Astray(d)',
             Astray(d) => Astray(d)'
      PROVE  FileHolds(d)' \/ Astray(d)'
  BY <1>2 DEF FileFollows, FileHolds
<1>9. ASSUME Next, UNCHANGED <<accepted, persisted>>
      PROVE  UNCHANGED <<persisted>> /\ (RegisteredSinceStart(d)' <=> RegisteredSinceStart(d))
  BY <1>9, SinceStartKept
<1>3. CASE Next /\ UNCHANGED <<registry, queue, accepted, disk, persisted, lost>>
  <2>1. \A u : Names(d, u) => Names(d, u)'
    BY <1>3, <1>9 DEF Names, Entries
  <2> QED BY <1>1, <1>2, <1>3, <2>1
<1>10. CASE UNCHANGED vars
  <2>1. \A u : Names(d, u) => Names(d, u)'
    BY <1>10 DEF vars, storage, ghost, Names, Entries, RegisteredSinceStart
  <2> QED BY <1>1, <1>2, <1>10, <2>1 DEF vars, storage
<1>4. CASE Next /\ \E c \in Commands : Clears(c)
  <2>1. PICK c \in Commands : Clears(c)
    BY <1>4
  <2>2. Entries' = But(c) /\ UNCHANGED <<accepted, disk, persisted, lost>>
    BY <2>1, Cleared DEF Clears
  <2>3. CASE ~IsRegistered(c)
    BY <1>3, <1>4, <2>1, <2>3 DEF Clears, ClearTransport
  <2>4. CASE IsRegistered(c)
    <3>1. queue' = Append(queue, <<c, NoTransport>>)
      BY <2>1, <2>4 DEF Clears, ClearTransport
    <3>2. CASE d = c
      <4>1. WillHold(d, NoTransport)'
        BY <2>2, <3>1, <3>2, AppendHolds
      <4>2. RegisteredSinceStart(d)
        <5>1. PICK e \in Entries : e.command = c
          BY <2>4, IsRegisteredIffEntry
        <5> QED BY <3>2, <5>1 DEF FileFollows, EntriesAccepted, Belongs, EntriesOwn, RegisteredSinceStart
      <4>3. Names(d, NoTransport)'
        BY <1>4, <1>9, <2>2, <3>2, <4>2 DEF Names, But
      <4> QED BY <4>1, <4>3 DEF FileHolds
    <3>3. CASE d # c
      <4>1. \A u \in Transports \cup {NoTransport} : WillHold(d, u) => WillHold(d, u)'
        BY <2>2, <3>1, <3>3, AppendHolds
      <4>2. \A u : Names(d, u) => Names(d, u)'
        BY <1>4, <1>9, <2>2, <3>3 DEF Names, But
      <4>3. Astray(d) => Astray(d)'
        BY <2>2, <3>1, <3>3, AppendStrays
      <4> QED BY <1>2, <4>1, <4>2, <4>3
    <3> QED BY <3>2, <3>3
  <2> QED BY <2>3, <2>4
<1>5. CASE Next /\ \E c \in Commands : Marks(c)
  <2>1. PICK c \in Commands : Marks(c)
    BY <1>5
  <2>2. Entries' = But(c) \cup Marked(c, robot[watch[c].transport])
    BY <2>1, TypeOfRegistry, WithStateIs DEF Marks, Entries
  <2>3. UNCHANGED <<queue, accepted, disk, persisted, lost>>
    BY <2>1 DEF Marks
  <2>4. ASSUME NEW e \in Entries
        PROVE  \E f \in Entries' : f.command = e.command /\ f.transport = e.transport
    <3>1. CASE e.command # c
      BY <2>2, <3>1 DEF But
    <3>2. CASE e.command = c
      <4>1. [e EXCEPT !.ended = robot[watch[c].transport] \in Terminal] \in Entries'
        BY <2>2, <3>2 DEF Marked, But
      <4>2. e \in EntryType
        BY TypeOfRegistry, EntryIs
      <4>3. \A b : [e EXCEPT !.ended = b].command = e.command /\ [e EXCEPT !.ended = b].transport = e.transport
        BY <4>2 DEF EntryType
      <4> QED BY <4>1, <4>3
    <3> QED BY <3>1, <3>2
  <2>5. ASSUME NEW e \in Entries'
        PROVE  \E f \in Entries : f.command = e.command /\ f.transport = e.transport
    BY <2>2, MarkedIs DEF But
  <2>6. \A u : Names(d, u) => Names(d, u)'
    BY <1>5, <1>9, <2>3, <2>4, <2>5 DEF Names
  <2> QED BY <1>1, <1>2, <2>3, <2>6
<1>6. CASE Next /\ \E c \in Commands, t \in Transports : Registers(c, t)
  <2>1. PICK c \in Commands, t \in Transports : Registers(c, t)
    BY <1>6
  <2>2. /\ Entries' = But(c) \cup {Fresh(c, t)} /\ queue' = Append(queue, <<c, t>>)
        /\ UNCHANGED <<disk, persisted, lost>>
    BY <2>1, Registered DEF Registers
  <2>3. Fresh(c, t).command = c /\ Fresh(c, t).transport = t
    BY DEF Fresh
  <2>4. CASE d = c
    <3>1. WillHold(d, t)'
      BY <2>2, <2>4, AppendHolds
    <3>2. Names(d, t)'
      BY <2>2, <2>3, <2>4 DEF Names
    <3> QED BY <3>1, <3>2 DEF FileHolds
  <2>5. CASE d # c
    <3>1. \A u \in Transports \cup {NoTransport} : WillHold(d, u) => WillHold(d, u)'
      BY <2>2, <2>5, AppendHolds
    <3>2. RegisteredSinceStart(d)' <=> RegisteredSinceStart(d)
      BY <1>6, <2>1, <2>5, SinceStartRegistered
    <3>3. \A u : Names(d, u) => Names(d, u)'
      BY <2>2, <2>3, <2>5, <3>2 DEF Names, But
    <3>4. Astray(d) => Astray(d)'
      BY <2>2, <2>5, AppendStrays
    <3> QED BY <1>2, <3>1, <3>3, <3>4
  <2> QED BY <2>4, <2>5
<1>7. CASE Next /\ (PersistenceWrite \/ FileTurnsUnreadable)
  <2>1. UNCHANGED <<registry, accepted, persisted>>
    BY <1>7 DEF PersistenceWrite, FileTurnsUnreadable, ghost
  <2>2. \A u : Names(d, u) => Names(d, u)'
    BY <1>7, <1>9, <2>1 DEF Names, Entries
  <2> QED BY <1>2, <1>7, <2>2, WriteKeeps, LossKeeps
<1>8. CASE CrashAndRestart
  <2>1. /\ registry' = <<>> /\ queue' = <<>> /\ persisted' = disk /\ UNCHANGED disk /\ accepted' = {}
    BY <1>8 DEF CrashAndRestart
  <2>2. disk[d] \in Transports \cup {NoTransport}
    BY TypeOKIs DEF FileType
  <2>3. ASSUME NEW t, t = disk[d]
        PROVE  WillHold(d, t)' /\ Names(d, t)'
    <3>1. queue' = <<>> /\ disk'[d] = t /\ persisted'[d] = t /\ Entries' = {}
      BY <2>1, <2>3 DEF Entries, In
    <3>2. DOMAIN queue' = {}
      BY <3>1
    <3>3. ~RegisteredSinceStart(d)'
      BY <2>1 DEF RegisteredSinceStart
    <3> QED BY <3>1, <3>2, <3>3 DEF WillHold, Names
  <2> QED BY <2>2, <2>3 DEF FileHolds
<1> QED BY <1>3, <1>4, <1>5, <1>6, <1>7, <1>8, <1>10, RegistryStep

LEMMA EntriesAcceptedStep ==
  ASSUME Invariant, EntriesAccepted, [Next]_vars
  PROVE  EntriesAccepted'
<1> USE DEF Invariant
<1>1. CASE UNCHANGED <<registry, accepted>>
  BY <1>1 DEF EntriesAccepted, Entries
<1>2. ASSUME NEW c \in Commands, Clears(c)
      PROVE  EntriesAccepted'
  BY <1>2, Cleared DEF Clears, EntriesAccepted, But
<1>3. ASSUME NEW c \in Commands, Marks(c)
      PROVE  EntriesAccepted'
  <2>1. Entries' = But(c) \cup Marked(c, robot[watch[c].transport]) /\ UNCHANGED accepted
    BY <1>3, TypeOfRegistry, WithStateIs DEF Marks, Entries
  <2> QED BY <2>1, MarkedIs DEF EntriesAccepted, But
<1>4. ASSUME NEW c \in Commands, NEW t \in Transports, Registers(c, t)
      PROVE  EntriesAccepted'
  <2>1. Entries' = But(c) \cup {Fresh(c, t)} /\ accepted' = accepted \cup {t}
    BY <1>4, Registered DEF Registers
  <2> QED BY <2>1 DEF EntriesAccepted, But, Fresh
<1>5. CASE PersistenceWrite \/ FileTurnsUnreadable
  BY <1>1, <1>5 DEF PersistenceWrite, FileTurnsUnreadable, ghost
<1>6. CASE CrashAndRestart
  BY <1>6 DEF CrashAndRestart, EntriesAccepted, Entries, In
<1> QED BY <1>1, <1>2, <1>3, <1>4, <1>5, <1>6, RegistryStep DEF vars, ghost

(* The file follows the registry, however registrations, cancels, results  *)
(* and recovery interleave with its writer and its failures, but for the   *)
(* commands whose own last write a failure has undone.                     *)
THEOREM FileFollowed == Spec => []FileFollowsRegistry
<1>1. Init => FileFollows
  <2> SUFFICES ASSUME Init PROVE FileFollows
    OBVIOUS
  <2>1. Entries = {} /\ DOMAIN queue = {}
    BY EmptyRegistry DEF Init
  <2>2. \A c \in Commands : Names(c, NoTransport) /\ WillHold(c, NoTransport)
    BY <2>1 DEF Init, Names, WillHold
  <2> QED BY <2>1, <2>2 DEF FileFollows, FileHolds, EntriesAccepted
<1>2. Invariant /\ Invariant' /\ FileFollows /\ [Next]_vars => FileFollows'
  BY FileStep, EntriesAcceptedStep DEF FileFollows
<1>3. Invariant /\ FileFollows => FileFollowsRegistry
  BY FileFollowsIs DEF Invariant
<1> QED BY <1>1, <1>2, <1>3, InitInvariant, StepInvariant, PTL DEF Spec

-----------------------------------------------------------------------------
(* One navigate in the works.                                              *)

LEMMA SharedStays ==
  ASSUME TypeOK, Belongs, Next, NEW t \in Transports, owner[t] \in Commands, ~SoleUse(t)
  PROVE  ~SoleUse(t)'
BY OwnerStays DEF SoleUse

(* Who enters the works finds them empty. *)
LEMMA WorksStep ==
  ASSUME TypeOK, Belongs, Next, NEW h \in Handlers, InTheWorks(h)', ~InTheWorks(h)
  PROVE  /\ UNCHANGED <<robot, owner, registry, recovered>> /\ ~Busy
         /\ \A g \in Handlers : InTheWorks(g)' => g = h
<1>1. ASSUME NEW g \in Handlers, Waits(g)
      PROVE  /\ UNCHANGED <<robot, owner, registry, recovered>> /\ ~Busy
             /\ \A k \in Handlers : InTheWorks(k)' => k = h
  <2>1. OnlyHandler(g) /\ (InTheWorks(g)' => InTheWorks(g) \/ (LockIsFree /\ ~Busy))
        /\ UNCHANGED <<robot, owner, registry, recovered>>
    BY <1>1, WaitsIs DEF ghost
  <2>2. g = h /\ LockIsFree /\ ~Busy
    BY <2>1 DEF OnlyHandler, InTheWorks
  <2> QED BY <2>1, <2>2 DEF OnlyHandler, InTheWorks, LockIsFree
<1>2. handler \in [Handlers -> HandlerType]
  BY TypeOKIs
<1>3. ASSUME NEW g \in Handlers, TransportCreated(g)
      PROVE  FALSE
  <2>1. PICK t \in Transports : handler' = [handler EXCEPT ![g].stage = "starting", ![g].transport = t]
    BY <1>3 DEF TransportCreated
  <2>2. g # h => handler'[h] = handler[h]
    BY <1>2, <2>1
  <2>3. InTheWorks(g)
    BY <1>3 DEF TransportCreated, InTheWorks
  <2> QED BY <2>2, <2>3 DEF InTheWorks
<1>4. ASSUME NEW g \in Handlers, TransportNotCreated(g) \/ TransportStarted(g) \/ TransportNotStarted(g)
      PROVE  FALSE
  <2>1. OnlyHandler(g) /\ handler'[g].stage = "idle"
    BY <1>4, HandlerReturns DEF TransportNotCreated, TransportStarted,
                       TransportNotStarted
  <2> QED BY <2>1 DEF OnlyHandler, InTheWorks
<1>5. ASSUME UNCHANGED handler
      PROVE  FALSE
  BY <1>5 DEF InTheWorks
<1>6. ASSUME NEW c \in Commands, Cancel(c) \/ Proximity(c) \/ Watches(c) \/ RecoveryStep(c)
      PROVE  FALSE
  BY <1>5, <1>6, WatcherStepIs
     DEF Cancel, Proximity, RecoveryStep, RecoveryDrops, RecoveryFindsActive, RecoverySkips, navigating
<1>7. ASSUME NEW t \in Transports, StopEnds(t) \/ RobotMoves(t) \/ TransportDeleted(t)
      PROVE  FALSE
  BY <1>5, <1>7 DEF StopEnds, RobotMoves, TransportDeleted, navigating
<1>8. ASSUME Manage \/ PersistenceWrite \/ FileTurnsUnreadable
      PROVE  FALSE
  BY <1>5, <1>8 DEF Manage, PersistenceWrite, FileTurnsUnreadable, navigating
<1>9. ASSUME CrashAndRestart
      PROVE  FALSE
  BY <1>9 DEF CrashAndRestart, InTheWorks, IdleHandler
<1> QED BY <1>1, <1>3, <1>4, <1>6, <1>7, <1>8, <1>9
        DEF Next, NavigateStep, WatcherStep, Waits, Watches

(* A settled entry stays settled: a watcher that writes no end to it reads *)
(* the state of another transport of the same command.                     *)
LEMMA SettledStays ==
  ASSUME TypeOK, Belongs, Alone, Next, ~CrashAndRestart, NEW e \in Entries'
  PROVE  \/ \E f \in Entries :
              /\ f.command = e.command /\ f.transport = e.transport
              /\ Settled(f) => Settled(e)'
              /\ e.ended => robot'[e.transport] \in Terminal \/ ~SoleUse(e.transport)'
         \/ \E c \in Commands, t \in Transports : Registers(c, t) /\ e = Fresh(c, t)
<1>1. \A f \in Entries : f.transport \in Transports /\ f.command \in Commands /\ owner[f.transport] = f.command
  BY TypeOfRegistry, EntryIs DEF EntryType, Belongs, EntriesOwn
<1>2. recovered \subseteq recovered'
  BY RegistryStep DEF Clears, Marks, Registers, TransportStarted, RecoveryFindsActive, PersistenceWrite, FileTurnsUnreadable, ghost
<1>3. ASSUME NEW f \in Entries
      PROVE  /\ robot[f.transport] \in Terminal => robot'[f.transport] \in Terminal
             /\ ~SoleUse(f.transport) => ~SoleUse(f.transport)'
  <2>1. robot[f.transport] \in Terminal => robot'[f.transport] \in Terminal
    BY <1>1, RobotKeeps
  <2>2. ~SoleUse(f.transport) => ~SoleUse(f.transport)'
    BY <1>1, SharedStays
  <2> QED BY <2>1, <2>2
<1>4. ASSUME e \in Entries
      PROVE  /\ Settled(e) => Settled(e)'
             /\ e.ended => robot'[e.transport] \in Terminal \/ ~SoleUse(e.transport)'
  <2>1. /\ robot[e.transport] \in Terminal => robot'[e.transport] \in Terminal
        /\ ~SoleUse(e.transport) => ~SoleUse(e.transport)'
    BY <1>3, <1>4
  <2>2. e.transport \in recovered => e.transport \in recovered'
    BY <1>2
  <2>3. Settled(e) => Settled(e)'
    BY <2>1, <2>2, Zenon DEF Settled
  <2>4. e.ended => robot[e.transport] \in Terminal \/ ~SoleUse(e.transport)
    BY <1>4, Zenon DEF Alone
  <2> QED BY <2>1, <2>3, <2>4, Zenon
<1>5. CASE UNCHANGED registry
  BY <1>4, <1>5 DEF Entries
<1>6. ASSUME NEW c \in Commands, Clears(c)
      PROVE  e \in Entries
  BY <1>6, Cleared DEF Clears, But
<1>7. ASSUME NEW c \in Commands, Marks(c)
      PROVE  e \in Entries \/
             \E f \in Entries :
              /\ f.command = e.command /\ f.transport = e.transport
              /\ Settled(f) => Settled(e)'
              /\ e.ended => robot'[e.transport] \in Terminal \/ ~SoleUse(e.transport)'
  <2>1. Entries' = But(c) \cup Marked(c, robot[watch[c].transport])
    BY <1>7, TypeOfRegistry, WithStateIs DEF Marks, Entries
  <2>2. CASE e \in But(c)
    BY <2>2 DEF But
  <2>3. CASE e \in Marked(c, robot[watch[c].transport])
    <3>1. PICK f \in Entries : /\ f.command = c /\ e.command = c /\ e.transport = f.transport
                              /\ e.ended = (robot[watch[c].transport] \in Terminal)
      BY <2>3, MarkedIs
    <3>2. watch[c].transport # NoTransport /\ owner[watch[c].transport] = c
      BY <1>7 DEF Marks, Belongs, TasksOwn, Owned
    <3>3. watch[c].transport \in Transports
      <4>1. watch[c] \in TaskType
        BY TypeOKIs
      <4> QED BY <3>2, <4>1 DEF TaskType
    <3>4. CASE watch[c].transport = f.transport
      <4>1. e.ended = (robot[f.transport] \in Terminal)
        BY <3>1, <3>4
      <4>2. f.ended => robot[f.transport] \in Terminal \/ ~SoleUse(f.transport)
        BY Zenon DEF Alone
      <4>3. /\ robot[f.transport] \in Terminal => robot'[f.transport] \in Terminal
            /\ ~SoleUse(f.transport) => ~SoleUse(f.transport)'
        BY <1>3
      <4>4. f.transport \in recovered => f.transport \in recovered'
        BY <1>2
      <4>5. Settled(f) => Settled(e)'
        BY <3>1, <4>1, <4>2, <4>3, <4>4, Zenon DEF Settled
      <4>6. e.ended => robot'[f.transport] \in Terminal
        BY <4>1, <4>3, Zenon
      <4> QED BY <3>1, <4>5, <4>6, Zenon
    <3>5. CASE watch[c].transport # f.transport
      <4>1. ~SoleUse(f.transport)
        BY <1>1, <3>1, <3>2, <3>3, <3>5 DEF SoleUse
      <4>2. ~SoleUse(f.transport)'
        BY <1>3, <4>1
      <4> QED BY <3>1, <4>2, Zenon DEF Settled
    <3> QED BY <3>4, <3>5
  <2> QED BY <2>1, <2>2, <2>3
<1>8. ASSUME NEW c \in Commands, NEW t \in Transports, Registers(c, t)
      PROVE  e \in Entries \/ e = Fresh(c, t)
  BY <1>8, Registered DEF Registers, But
<1>9. CASE PersistenceWrite \/ FileTurnsUnreadable
  BY <1>5, <1>9 DEF PersistenceWrite, FileTurnsUnreadable
<1> QED BY <1>4, <1>5, <1>6, <1>7, <1>8, <1>9, RegistryStep

(* What is registered is a navigate that was in the works, or recovered. *)
LeavesTheWorks(h) ==
    /\ InTheWorks(h) /\ ~InTheWorks(h)'
    /\ \A g \in Handlers : g # h /\ InTheWorks(g)' => InTheWorks(g)

LEMMA RegistersOnce ==
  ASSUME TypeOK, NEW c \in Commands, NEW t \in Transports, Registers(c, t),
         NEW d \in Commands, NEW u \in Transports, Registers(d, u)
  PROVE  c = d /\ t = u
<1>1. queue' = Append(queue, <<c, t>>) /\ queue' = Append(queue, <<d, u>>)
  BY DEF Registers, RegisterCommand
<1>2. queue'[Len(queue) + 1] = <<c, t>>
  BY <1>1, AppendOperation, TypeOKIs
<1>3. queue'[Len(queue) + 1] = <<d, u>>
  BY <1>1, AppendOperation, TypeOKIs
<1> QED BY <1>2, <1>3

LEMMA RegistersIs ==
  ASSUME TypeOK, Belongs, Next, NEW c \in Commands, NEW t \in Transports, Registers(c, t)
  PROVE  /\ t \in recovered' \/ \E h \in Handlers : LeavesTheWorks(h)
         /\ Fresh(c, t).transport = t /\ Fresh(c, t).command = c /\ ~Fresh(c, t).ended
<1>1. ASSUME NEW h \in Handlers, TransportStarted(h)
      PROVE  LeavesTheWorks(h)
  <2>1. OnlyHandler(h) /\ handler'[h].stage = "idle" /\ handler[h].stage = "starting"
    BY <1>1, HandlerReturns DEF TransportStarted
  <2> QED BY <2>1 DEF LeavesTheWorks, InTheWorks, OnlyHandler
<1>2. ASSUME RecoveryFindsActive(c), persisted[c] = t
      PROVE  t \in recovered'
  BY <1>2 DEF RecoveryFindsActive
<1> QED BY <1>1, <1>2 DEF Registers, Fresh

LEMMA AloneStep ==
  ASSUME Invariant, Invariant', Alone, Next
  PROVE  Alone'
<1> USE DEF Invariant
<1>1. CASE CrashAndRestart
  <2>1. \A h \in Handlers : ~InTheWorks(h)'
    BY <1>1 DEF CrashAndRestart, InTheWorks, IdleHandler
  <2>2. Entries' = {}
    BY <1>1 DEF CrashAndRestart, Entries, In
  <2> QED BY <2>1, <2>2 DEF Alone
<1>2. CASE ~CrashAndRestart
  <2>1. ASSUME NEW g \in Handlers, NEW h \in Handlers, InTheWorks(g)', InTheWorks(h)'
        PROVE  g = h
    BY <2>1, WorksStep DEF Alone
  <2>2. ASSUME NEW c \in Commands, NEW t \in Transports, Registers(c, t), NEW h \in Handlers, InTheWorks(h)'
        PROVE  Settled(Fresh(c, t))'
    <3>1. CASE t \in recovered'
      BY <2>2, <3>1, RegistersIs DEF Settled
    <3>2. CASE t \notin recovered'
      <4>1. PICK g \in Handlers : LeavesTheWorks(g)
        BY <2>2, <3>2, RegistersIs
      <4>2. InTheWorks(g) /\ InTheWorks(h) /\ h # g
        BY <2>2, <4>1 DEF LeavesTheWorks
      <4> QED BY <4>2 DEF Alone
    <3> QED BY <3>1, <3>2
  <2>3. ASSUME NEW h \in Handlers, NEW e \in Entries', InTheWorks(h)'
        PROVE  Settled(e)'
    <3>1. CASE InTheWorks(h)
      <4>1. \A f \in Entries : Settled(f)
        BY <3>1 DEF Alone
      <4>2. CASE \E f \in Entries : Settled(f) => Settled(e)'
        BY <4>1, <4>2
      <4>3. ASSUME NEW c \in Commands, NEW t \in Transports, Registers(c, t), e = Fresh(c, t)
            PROVE  Settled(e)'
        BY <2>2, <2>3, <4>3
      <4> QED BY <1>2, <4>2, <4>3, SettledStays
    <3>2. CASE ~InTheWorks(h)
      <4>1. UNCHANGED <<robot, owner, registry, recovered>> /\ ~Busy
        BY <2>3, <3>2, WorksStep
      <4>2. e \in Entries /\ e.ended
        BY <4>1 DEF Entries, In, Busy
      <4> QED BY <4>2 DEF Settled
    <3> QED BY <3>1, <3>2
  <2>4. ASSUME NEW e \in Entries', e.ended
        PROVE  robot'[e.transport] \in Terminal \/ ~SoleUse(e.transport)'
    BY <1>2, <2>4, SettledStays, RegistersIs
  <2>5. ASSUME NEW c \in Commands, NEW t \in Transports, Registers(c, t), NEW e \in Entries'
        PROVE  e = Fresh(c, t) \/ Settled(e)' \/ Settled(Fresh(c, t))'
    <3>1. CASE t \in recovered'
      BY <2>5, <3>1, RegistersIs DEF Settled
    <3>2. CASE t \notin recovered'
      <4>1. PICK g \in Handlers : LeavesTheWorks(g)
        BY <2>5, <3>2, RegistersIs
      <4>2. \A f \in Entries : Settled(f)
        BY <4>1 DEF LeavesTheWorks, Alone
      <4>3. CASE \E f \in Entries : Settled(f) => Settled(e)'
        BY <4>2, <4>3
      <4>4. CASE \E d \in Commands, u \in Transports : Registers(d, u) /\ e = Fresh(d, u)
        BY <2>5, <4>4, RegistersOnce, Zenon
      <4> QED BY <1>2, <4>3, <4>4, SettledStays
    <3> QED BY <3>1, <3>2
  <2>6. ASSUME NEW e \in Entries', NEW f \in Entries'
        PROVE  e = f \/ Settled(e)' \/ Settled(f)'
    <3>1. CASE \E c \in Commands, t \in Transports : Registers(c, t) /\ (e = Fresh(c, t) \/ f = Fresh(c, t))
      BY <2>5, <3>1
    <3>2. CASE ~(\E c \in Commands, t \in Transports : Registers(c, t) /\ (e = Fresh(c, t) \/ f = Fresh(c, t)))
      <4>1. PICK d \in Entries : d.command = e.command /\ (Settled(d) => Settled(e)')
        BY <1>2, <3>2, SettledStays
      <4>2. PICK g \in Entries : g.command = f.command /\ (Settled(g) => Settled(f)')
        BY <1>2, <3>2, SettledStays
      <4>3. IsRegistry(registry)'
        BY DEF TypeOK, IsRegistry, IsMap, EntryType
      <4>4. e.command = f.command => e = f
        BY <4>3 DEF IsRegistry, IsMap, Entries, In
      <4>5. d = g \/ Settled(d) \/ Settled(g)
        BY DEF Alone
      <4> QED BY <4>1, <4>2, <4>4, <4>5
    <3> QED BY <3>1, <3>2
  <2> QED BY <2>1, <2>3, <2>4, <2>6 DEF Alone
<1> QED BY <1>1, <1>2

LEMMA AloneIs ==
  ASSUME TypeOK, Alone
  PROVE  OneNavigateInTheWorks
<1>1. ASSUME NEW i \in DOMAIN registry, NEW j \in DOMAIN registry, i # j
      PROVE  Settled(registry[i]) \/ Settled(registry[j])
  <2>1. registry[i] \in Entries /\ registry[j] \in Entries /\ registry[i] # registry[j]
    BY <1>1, TypeOfRegistry DEF IsRegistry, IsMap, Entries, In
  <2> QED BY <2>1 DEF Alone
<1> QED BY <1>1 DEF OneNavigateInTheWorks, Settled

LEMMA InitAlone == Init => Alone
<1> SUFFICES ASSUME Init PROVE Alone
  OBVIOUS
<1>1. Entries = {} /\ \A h \in Handlers : ~InTheWorks(h)
  BY EmptyRegistry DEF Init, InTheWorks, IdleHandler
<1> QED BY <1>1 DEF Alone

LEMMA StepAlone == Invariant /\ Invariant' /\ Alone /\ [Next]_vars => Alone'
<1> SUFFICES ASSUME Invariant, Invariant', Alone, UNCHANGED vars
             PROVE  Alone'
  BY AloneStep
<1>1. UNCHANGED <<robot, owner, handler, registry, recovered>>
  BY DEF vars, navigating, ghost
<1> QED BY <1>1 DEF Alone, InTheWorks, Entries, Settled, SoleUse

(* Of the commands in the works, at most one came by a navigate; any other *)
(* was brought back by the recovery.                                       *)
THEOREM OneNavigate == Spec => []OneNavigateInTheWorks
<1>1. Invariant /\ Alone => OneNavigateInTheWorks
  BY AloneIs DEF Invariant
<1> QED BY <1>1, InitInvariant, StepInvariant, InitAlone, StepAlone, PTL DEF Spec

-----------------------------------------------------------------------------
(* Results.                                                                *)

(* What is said of which transport. *)
Reports(c, r) == /\ TaskLives(c) /\ Says(c, r) /\ UNCHANGED stopping
LEMMA ReportStep ==
  ASSUME TypeOK, Belongs, Next
  PROVE  \/ UNCHANGED <<results, stopping>> /\ accepted \subseteq accepted'
         \/ \E c \in Commands : \/ Cancel(c)
                               \/ Reports(c, "ended") \/ Reports(c, "failed")
         \/ \E t \in Transports : StopEnds(t)
         \/ CrashAndRestart
<1>1. ASSUME NEW h \in Handlers, Waits(h) \/ NavigateStep(h)
      PROVE  UNCHANGED <<results, stopping>>
  BY <1>1, WaitsIs DEF Waits, NavigateStep, TransportCreated, TransportNotCreated, TransportStarted,
                       TransportNotStarted, ghost
<1>2. ASSUME NEW c \in Commands, Watches(c)
      PROVE  UNCHANGED <<results, stopping>> \/ Reports(c, "ended") \/ Reports(c, "failed")
  BY <1>2, WatcherStepIs DEF Reports, Forgets, MovesOn, ghost
<1>3. ASSUME NEW c \in Commands, Proximity(c) \/ RecoveryStep(c)
      PROVE  UNCHANGED <<results, stopping>>
  BY <1>3 DEF Proximity, RecoveryStep, RecoveryDrops, RecoveryFindsActive, RecoverySkips, ghost
<1>4. ASSUME NEW t \in Transports, RobotMoves(t) \/ TransportDeleted(t)
      PROVE  UNCHANGED <<results, stopping>>
  BY <1>4 DEF RobotMoves, TransportDeleted, ghost
<1>5. ASSUME Manage \/ PersistenceWrite \/ FileTurnsUnreadable
      PROVE  UNCHANGED <<results, stopping>>
  BY <1>5 DEF Manage, PersistenceWrite, FileTurnsUnreadable, ghost
<1>6. accepted \subseteq accepted' \/ CrashAndRestart
  BY RegistryStep DEF Clears, Marks, Registers, RegisterCommand, PersistenceWrite, FileTurnsUnreadable, ghost
<1> QED BY <1>1, <1>2, <1>3, <1>4, <1>5, <1>6 DEF Next, WatcherStep, Waits, Watches

(* A task on a transport was there before, or the manager made it for the  *)
(* entry of its command.                                                   *)
LEMMA TaskStep ==
  ASSUME TypeOK, Belongs, Next, NEW c \in Commands, TaskLives(c)'
  PROVE  \/ /\ TaskLives(c) /\ watch'[c].transport = watch[c].transport
            /\ \A r : ~Reports(c, r)
         \/ /\ UNCHANGED <<results, stopping, accepted>>
            /\ \E e \in Entries : watch'[c].transport = e.transport
<1>1. watch \in [Commands -> TaskType]
  BY TypeOKIs
<1>2. ASSUME NEW d \in Commands, TaskLives(d), NEW s \in WatchStages, watch' = [watch EXCEPT ![d].stage = s]
      PROVE  /\ TaskLives(c) /\ watch'[c].transport = watch[c].transport
             /\ s = "done" => d # c
  <2>1. watch' = [watch EXCEPT ![d] = [watch[d] EXCEPT !.stage = s]]
    BY <1>1, <1>2
  <2>2. \A r \in TaskType : [r EXCEPT !.stage = s].transport = r.transport /\ [r EXCEPT !.stage = s].stage = s
    BY DEF TaskType
  <2>3. c # d => watch'[c] = watch[c]
    BY <1>1, <2>1
  <2>4. c = d => watch'[c].transport = watch[c].transport /\ watch'[c].stage = s
    BY <1>1, <2>1, <2>2
  <2> QED BY <1>2, <2>3, <2>4 DEF TaskLives
<1>3. ASSUME NEW d \in Commands, Watches(d)
      PROVE  TaskLives(c) /\ watch'[c].transport = watch[c].transport
  <2>1. TaskLives(d) /\ \E s \in WatchStages : watch' = [watch EXCEPT ![d].stage = s]
    BY <1>3, WatcherStepIs DEF Says, Settle, Forgets, WatcherEnds, MovesOn, WatchStages
  <2> QED BY <1>2, <2>1
<1>4. ASSUME NEW r, Reports(c, r)
      PROVE  FALSE
  <2>1. watch' = [watch EXCEPT ![c].stage = "done"] /\ TaskLives(c)
    BY <1>4 DEF Reports, Says, Settle, WatcherEnds
  <2> QED BY <1>2, <2>1 DEF WatchStages
<1>5. CASE UNCHANGED watch
  BY <1>4, <1>5 DEF TaskLives
<1>6. CASE Manage
  <2>1. UNCHANGED <<results, stopping, accepted, registry>>
    BY <1>6 DEF Manage, ghost
  <2>2. watch'[c] = IF c # Current THEN NoTask
                    ELSE IF NeedsTask(c)
                         THEN [transport |-> TransportOf(c), stage |-> "begin"]
                         ELSE watch[c]
    BY <1>6 DEF Manage
  <2>3. CASE watch'[c] = watch[c]
    BY <1>4, <2>3 DEF TaskLives
  <2>4. CASE c = Current /\ watch'[c] = [transport |-> TransportOf(c), stage |-> "begin"]
    <3>1. registry # <<>>
      BY <2>4, NavAssumption DEF Current
    <3>2. Len(registry) \in DOMAIN registry
      BY <3>1, TypeOfRegistry DEF IsRegistry
    <3>3. IsRegistered(c)
      BY <2>4, <3>1, <3>2 DEF Current, IsRegistered
    <3>4. Entry(c) \in Entries /\ TransportOf(c) = Entry(c).transport
      BY <3>3, TypeOfRegistry, RegisteredHasEntry
    <3>5. watch'[c].transport = Entry(c).transport
      BY <2>4, <3>4
    <3> QED BY <2>1, <3>4, <3>5
  <2>5. watch'[c] # NoTask
    BY DEF TaskLives, NoTask
  <2> QED BY <2>2, <2>3, <2>4, <2>5
<1>7. CASE CrashAndRestart
  BY <1>7 DEF CrashAndRestart, TaskLives, NoTask
<1>8. ASSUME NEW h \in Handlers, Waits(h) \/ NavigateStep(h)
      PROVE  UNCHANGED watch
  BY <1>8, WaitsIs DEF Waits, NavigateStep, TransportCreated, TransportNotCreated, TransportStarted,
                       TransportNotStarted
<1>9. ASSUME NEW d \in Commands, Cancel(d) \/ Proximity(d) \/ RecoveryStep(d)
      PROVE  UNCHANGED watch
  BY <1>9 DEF Cancel, Proximity, RecoveryStep, RecoveryDrops, RecoveryFindsActive, RecoverySkips
<1>10. ASSUME NEW t \in Transports, StopEnds(t) \/ RobotMoves(t) \/ TransportDeleted(t)
       PROVE  UNCHANGED watch
  BY <1>10 DEF StopEnds, RobotMoves, TransportDeleted
<1>11. CASE PersistenceWrite \/ FileTurnsUnreadable
  BY <1>5, <1>11 DEF PersistenceWrite, FileTurnsUnreadable
<1> QED BY <1>3, <1>4, <1>5, <1>6, <1>7, <1>8, <1>9, <1>10, <1>11 DEF Next, WatcherStep, Waits, Watches

(* A handler starts a transport that it has just created, or the same as   *)
(* before.                                                                 *)
LEMMA StartingStep ==
  ASSUME TypeOK, Belongs, Next, NEW h \in Handlers, handler'[h].stage = "starting"
  PROVE  \/ TransportCreated(h) /\ robot[handler'[h].transport] = "none"
         \/ /\ handler[h].stage = "starting" /\ handler'[h].transport = handler[h].transport
            /\ ~TransportStarted(h) /\ ~CrashAndRestart
<1> DEFINE Same == handler[h].stage = "starting" /\ handler'[h].transport = handler[h].transport
<1>1. handler \in [Handlers -> HandlerType]
  BY TypeOKIs
<1>2. ASSUME NEW g \in Handlers, Waits(g)
      PROVE  Same
  BY <1>2, WaitsIs DEF OnlyHandler
<1>3. ASSUME NEW g \in Handlers, TransportCreated(g)
      PROVE  Same \/ (TransportCreated(h) /\ robot[handler'[h].transport] = "none")
  <2>1. PICK t \in Transports : Creates(g, t) /\ handler' = [handler EXCEPT ![g].stage = "starting", ![g].transport = t]
    BY <1>3 DEF TransportCreated
  <2>2. handler' = [handler EXCEPT ![g] = [[handler[g] EXCEPT !.stage = "starting"] EXCEPT !.transport = t]]
    BY <1>1, <2>1
  <2>3. [[handler[g] EXCEPT !.stage = "starting"] EXCEPT !.transport = t].transport = t
    BY <1>1 DEF HandlerType
  <2>4. CASE g = h
    <3>1. handler'[h].transport = t
      BY <1>1, <2>2, <2>3, <2>4
    <3> QED BY <1>3, <2>1, <2>4, <3>1 DEF Creates
  <2>5. CASE g # h
    BY <1>1, <2>2, <2>5
  <2> QED BY <2>4, <2>5
<1>4. ASSUME NEW g \in Handlers, TransportNotCreated(g) \/ TransportStarted(g) \/ TransportNotStarted(g)
      PROVE  Same /\ g # h
  BY <1>4, HandlerReturns DEF TransportNotCreated, TransportStarted, TransportNotStarted, OnlyHandler
<1>5. ASSUME UNCHANGED handler
      PROVE  Same
  BY <1>5
<1>6. ASSUME NEW c \in Commands, Cancel(c) \/ Proximity(c) \/ Watches(c) \/ RecoveryStep(c)
      PROVE  UNCHANGED handler
  BY <1>6, WatcherStepIs
     DEF Cancel, Proximity, RecoveryStep, RecoveryDrops, RecoveryFindsActive, RecoverySkips, navigating
<1>7. ASSUME NEW t \in Transports, StopEnds(t) \/ RobotMoves(t) \/ TransportDeleted(t)
      PROVE  UNCHANGED handler
  BY <1>7 DEF StopEnds, RobotMoves, TransportDeleted, navigating
<1>8. ASSUME Manage \/ PersistenceWrite \/ FileTurnsUnreadable
      PROVE  UNCHANGED handler
  BY <1>8 DEF Manage, PersistenceWrite, FileTurnsUnreadable, navigating
<1>9. ~CrashAndRestart
  BY DEF CrashAndRestart, IdleHandler
<1>10. ~TransportStarted(h)
  BY <1>4
<1> HIDE DEF Same
<1>11. Same \/ (TransportCreated(h) /\ robot[handler'[h].transport] = "none")
  BY <1>2, <1>3, <1>4, <1>5, <1>6, <1>7, <1>8, <1>9
     DEF Next, NavigateStep, WatcherStep, Waits, Watches
<1> QED BY <1>9, <1>10, <1>11 DEF Same

(* What ReportStep does to the results. *)
LEMMA ReportsIs ==
  ASSUME TypeOK, Belongs, NEW c \in Commands, NEW r \in {"ended", "failed"}, Reports(c, r)
  PROVE  /\ watch[c].transport \in Transports /\ owner[watch[c].transport] = c
         /\ results' = [results EXCEPT ![watch[c].transport] = Append(@, r)]
         /\ Entries' = But(c) /\ TaskLives(c)
         /\ UNCHANGED <<stopping, accepted>>
         /\ r = "ended" => \E e \in Entries : e.transport = watch[c].transport
<1>1. watch[c].transport \in Transports /\ owner[watch[c].transport] = c
  <2>1. watch[c] \in TaskType
    BY TypeOKIs
  <2>2. watch[c].transport # NoTransport /\ Owned(c, watch[c].transport)
    BY DEF Reports, Belongs, TasksOwn
  <2> QED BY <2>1, <2>2 DEF TaskType, Owned
<1>2. Entries' = But(c)
  BY Cleared DEF Reports, Says, Settle
<1>3. ASSUME IsActive(c)
      PROVE  \E e \in Entries : e.transport = watch[c].transport
  BY <1>3, TypeOfRegistry, RegisteredHasEntry DEF IsActive
<1> QED BY <1>1, <1>2, <1>3 DEF Reports, Says, Settle, Publish

LEMMA CancelIs ==
  ASSUME TypeOK, Belongs, NEW c \in Commands, Cancel(c)
  PROVE  /\ Entries' = But(c) /\ UNCHANGED <<results, accepted, watch>>
         /\ \E e \in Entries : e.command = c /\ stopping' = stopping \cup {e.transport}
<1>1. Entries' = But(c)
  BY Cleared DEF Cancel
<1>2. Entry(c) \in Entries /\ Entry(c).command = c
  BY TypeOfRegistry, RegisteredHasEntry DEF Cancel
<1> QED BY <1>1, <1>2 DEF Cancel, ghost

LEMMA StopEndsIs ==
  ASSUME TypeOK, NEW t \in Transports, StopEnds(t)
  PROVE  /\ t \in stopping /\ stopping' = stopping \ {t}
         /\ results' = [results EXCEPT ![t] = Append(@, "cancel")]
         /\ UNCHANGED <<accepted, registry, watch>>
BY DEF StopEnds, Publish

LEMMA AppendToNone ==
  ASSUME NEW r \in Results
  PROVE  Append(<<>>, r) = <<r>>
<1>1. <<>> \in Seq(Results) /\ <<r>> \in Seq(Results)
  OBVIOUS
<1>2. Append(<<>>, r) \in Seq(Results) /\ Len(Append(<<>>, r)) = 1 /\ Append(<<>>, r)[1] = r
  BY <1>1
<1> QED BY <1>1, <1>2, SeqEqual

LEMMA AppendToOne ==
  ASSUME NEW q \in Results, NEW r \in Results
  PROVE  Append(<<q>>, r) = <<q, r>>
<1>1. <<q>> \in Seq(Results) /\ <<q, r>> \in Seq(Results) /\ Len(<<q>>) = 1
  OBVIOUS
<1>2. /\ Append(<<q>>, r) \in Seq(Results) /\ Len(Append(<<q>>, r)) = 2
      /\ Append(<<q>>, r)[1] = q /\ Append(<<q>>, r)[2] = r
  BY <1>1
<1>3. Len(<<q, r>>) = 2 /\ <<q, r>>[1] = q /\ <<q, r>>[2] = r
  OBVIOUS
<1>4. \A i \in 1..2 : i = 1 \/ i = 2
  OBVIOUS
<1>5. \A i \in 1..Len(Append(<<q>>, r)) : Append(<<q>>, r)[i] = <<q, r>>[i]
  BY <1>2, <1>3, <1>4
<1> HIDE DEF Results
<1> QED BY <1>1, <1>2, <1>3, <1>5, SeqEqual

(* The orders in which the results of a transport come. *)
LEMMA Orders ==
  /\ Append(<<>>, "ended") = <<"ended">> /\ Append(<<>>, "failed") = <<"failed">>
  /\ Append(<<>>, "cancel") = <<"cancel">>
  /\ Append(<<"cancel">>, "failed") = <<"cancel", "failed">>
  /\ Append(<<"failed">>, "cancel") = <<"failed", "cancel">>
  /\ <<"cancel">> # <<>> /\ <<"cancel">> # <<"failed">>
<1>1. "ended" \in Results /\ "failed" \in Results /\ "cancel" \in Results
  BY DEF Results
<1>2. <<"cancel">> # <<>> /\ <<"cancel">> # <<"failed">>
  OBVIOUS
<1> QED BY <1>1, <1>2, AppendToNone, AppendToOne

(* Entries and tasks name transports of their own command. *)
LEMMA NamesOwn ==
  ASSUME TypeOK, Belongs
  PROVE  /\ \A e \in Entries : /\ e.transport \in Transports /\ e.command \in Commands
                               /\ owner[e.transport] = e.command
         /\ \A c \in Commands : TaskLives(c) =>
              watch[c].transport \in Transports /\ owner[watch[c].transport] = c
<1>1. \A e \in Entries : /\ e.transport \in Transports /\ e.command \in Commands
                        /\ owner[e.transport] = e.command
  BY TypeOfRegistry, EntryIs DEF EntryType, Belongs, EntriesOwn
<1>2. ASSUME NEW c \in Commands, TaskLives(c)
      PROVE  watch[c].transport \in Transports /\ owner[watch[c].transport] = c
  <2>1. watch[c] \in TaskType
    BY TypeOKIs
  <2>2. watch[c].transport # NoTransport /\ Owned(c, watch[c].transport)
    BY <1>2 DEF Belongs, TasksOwn
  <2> QED BY <2>1, <2>2 DEF TaskType, Owned
<1> QED BY <1>1, <1>2

(* What is registered has not been heard of. *)
LEMMA RegistersUnheard ==
  ASSUME TypeOK, Belongs, Reported, NEW c \in Commands, NEW t \in Transports, Registers(c, t)
  PROVE  Unheard(t)
<1>1. t \notin accepted
  BY DEF Registers, TransportStarted, RecoveryFindsActive, Reported, StartsFresh, UncheckedFresh
<1> QED BY <1>1 DEF Reported, AcceptedFirst

LEMMA StartsFreshStep ==
  ASSUME Invariant, Alone, Reported, Next
  PROVE  StartsFresh'
<1> USE DEF Invariant
<1> SUFFICES ASSUME NEW h \in Handlers, handler'[h].stage = "starting"
             PROVE  /\ handler'[h].transport \notin accepted'
                    /\ \A c \in Commands : /\ persisted'[c] # handler'[h].transport
                                           /\ disk'[c] # handler'[h].transport
                    /\ \A i \in DOMAIN queue' : queue'[i][2] # handler'[h].transport
  BY DEF StartsFresh
<1>1. CASE TransportCreated(h) /\ robot[handler'[h].transport] = "none"
  <2>1. handler' \in [Handlers -> HandlerType]
    BY TypeStep DEF TypeOK, HandlerType
  <2> DEFINE t == handler'[h].transport
  <2>2. PICK u \in Transports : handler' = [handler EXCEPT ![h].stage = "starting", ![h].transport = u]
    BY <1>1 DEF TransportCreated
  <2>3. t = u
    <3>1. handler \in [Handlers -> HandlerType]
      BY TypeOKIs
    <3>2. handler' = [handler EXCEPT ![h] = [[handler[h] EXCEPT !.stage = "starting"] EXCEPT !.transport = u]]
      BY <2>2, <3>1
    <3>3. [[handler[h] EXCEPT !.stage = "starting"] EXCEPT !.transport = u].transport = u
      BY <3>1 DEF HandlerType
    <3> QED BY <3>1, <3>2, <3>3
  <2>4. t \in Transports /\ owner[t] = None /\ t # NoTransport
    BY <1>1, <2>3 DEF Belongs, Transports, NoTransport
  <2>5. UNCHANGED <<accepted, persisted, disk, queue>>
    BY <1>1 DEF TransportCreated, ghost, storage
  <2>6. t \notin accepted
    BY <2>4, NavAssumption DEF Belongs, AcceptedOwned
  <2>7. \A c \in Commands : persisted[c] # t /\ disk[c] # t
    BY <2>4, NavAssumption DEF Belongs, FilesOwn, Owned
  <2>8. \A i \in DOMAIN queue : queue[i][2] # t
    <3> SUFFICES ASSUME NEW i \in DOMAIN queue, queue[i][2] = t PROVE FALSE
      OBVIOUS
    <3>1. queue[i] \in Commands \X (Transports \cup {NoTransport})
      BY TypeOKIs DEF QueueType
    <3>2. queue[i][1] \in Commands
      BY <3>1
    <3>3. owner[t] = queue[i][1]
      BY <2>4 DEF Belongs, QueueOwns, Owned
    <3> QED BY <2>4, <3>2, <3>3, NavAssumption
  <2> QED BY <2>5, <2>6, <2>7, <2>8
<1>2. CASE /\ handler[h].stage = "starting" /\ handler'[h].transport = handler[h].transport
           /\ ~TransportStarted(h) /\ ~CrashAndRestart
  <2> DEFINE t == handler[h].transport
  <2>1. /\ t \in Transports /\ t # NoTransport /\ t \notin accepted
        /\ \A c \in Commands : persisted[c] # t /\ disk[c] # t
        /\ \A i \in DOMAIN queue : queue[i][2] # t
    BY <1>2 DEF Belongs, HandlersOwn, Reported, StartsFresh, Transports, NoTransport
  <2> HIDE DEF t
  <2> SUFFICES /\ t \notin accepted'
               /\ \A c \in Commands : persisted'[c] # t /\ disk'[c] # t
               /\ \A i \in DOMAIN queue' : queue'[i][2] # t
    BY <1>2 DEF t
  <2>2. CASE UNCHANGED <<registry, queue, accepted, recovered, disk, persisted, lost>>
    BY <2>1, <2>2
  <2>3. ASSUME NEW c \in Commands, NEW u \in Transports \cup {NoTransport}, u # t,
               queue' = queue \/ queue' = Append(queue, <<c, u>>)
        PROVE  \A i \in DOMAIN queue' : queue'[i][2] # t
    <3>1. <<c, u>> \in Commands \X (Transports \cup {NoTransport}) /\ queue \in QueueType
      BY TypeOKIs
    <3>2. CASE queue' = queue
      BY <2>1, <3>2
    <3>3. CASE queue' = Append(queue, <<c, u>>)
      <4>1. \A i \in DOMAIN queue' : (i \in DOMAIN queue /\ queue'[i] = queue[i]) \/ queue'[i] = <<c, u>>
        BY <3>1, <3>3, AppendOperation
      <4>2. <<c, u>>[2] # t
        BY <2>3
      <4> QED BY <2>1, <4>1, <4>2
    <3> QED BY <2>3, <3>2, <3>3
  <2>4. ASSUME NEW c \in Commands, Clears(c)
        PROVE  /\ UNCHANGED <<accepted, disk, persisted>>
               /\ \A i \in DOMAIN queue' : queue'[i][2] # t
    BY <2>1, <2>3, <2>4, Cleared DEF Clears
  <2>5. ASSUME NEW c \in Commands, NEW u \in Transports, Registers(c, u)
        PROVE  /\ accepted' = accepted \cup {u} /\ u # t /\ UNCHANGED <<disk, persisted>>
               /\ \A i \in DOMAIN queue' : queue'[i][2] # t
    <3>1. accepted' = accepted \cup {u} /\ queue' = Append(queue, <<c, u>>) /\ UNCHANGED <<disk, persisted>>
      BY <2>5, Registered DEF Registers
    <3>2. u # t
      <4>1. ASSUME NEW g \in Handlers, TransportStarted(g)
            PROVE  FALSE
        <5>1. g = h
          BY <1>2, <4>1 DEF TransportStarted, Alone, InTheWorks
        <5> QED BY <1>2, <4>1, <5>1
      <4> QED BY <2>1, <2>5, <4>1 DEF Registers
    <3> QED BY <2>3, <3>1, <3>2
  <2>6. CASE PersistenceWrite \/ FileTurnsUnreadable
    <3>1. UNCHANGED <<accepted, persisted>>
      BY <2>6 DEF PersistenceWrite, FileTurnsUnreadable, ghost
    <3>2. queue' = queue \/ (queue # <<>> /\ queue' = Tail(queue))
      BY <2>6, FileMovesIs
    <3>3. ASSUME queue # <<>>, queue' = Tail(queue)
          PROVE  \A i \in DOMAIN queue' : i + 1 \in DOMAIN queue /\ queue'[i] = queue[i + 1]
      BY <3>3, TypeOKIs DEF QueueType
    <3>4. queue # <<>> => 1 \in DOMAIN queue
      BY TypeOKIs DEF QueueType
    <3>5. \A c \in Commands : disk'[c] # t
      BY <2>1, <2>6, <3>4, FileMovesIs
    <3> QED BY <2>1, <3>1, <3>2, <3>3, <3>5
  <2> QED BY <1>2, <2>1, <2>2, <2>4, <2>5, <2>6, RegistryStep DEF Marks
<1> QED BY <1>1, <1>2, StartingStep

LEMMA UncheckedFreshStep ==
  ASSUME Invariant, Reported, Next
  PROVE  UncheckedFresh'
<1> USE DEF Invariant
<1>1. CASE CrashAndRestart
  BY <1>1 DEF CrashAndRestart, UncheckedFresh
<1>2. CASE ~CrashAndRestart
  <2>1. unchecked' \subseteq unchecked
    <3>1. ASSUME NEW h \in Handlers, Waits(h) \/ NavigateStep(h)
          PROVE  UNCHANGED unchecked
      BY <3>1, WaitsIs DEF Waits, NavigateStep, TransportCreated, TransportNotCreated, TransportStarted,
                           TransportNotStarted, storage
    <3>2. ASSUME NEW c \in Commands, Cancel(c) \/ Proximity(c) \/ Watches(c)
          PROVE  UNCHANGED unchecked
      BY <3>2, WatcherStepIs DEF Cancel, Proximity, storage
    <3>3. ASSUME NEW c \in Commands, RecoveryStep(c)
          PROVE  unchecked' \subseteq unchecked
      BY <3>3 DEF RecoveryStep, RecoveryDrops, RecoveryFindsActive, RecoverySkips
    <3>4. ASSUME NEW t \in Transports, StopEnds(t) \/ RobotMoves(t) \/ TransportDeleted(t)
          PROVE  UNCHANGED unchecked
      BY <3>4 DEF StopEnds, RobotMoves, TransportDeleted, storage
    <3>5. ASSUME Manage \/ PersistenceWrite \/ FileTurnsUnreadable
          PROVE  UNCHANGED unchecked
      BY <3>5 DEF Manage, PersistenceWrite, FileTurnsUnreadable, storage
    <3> QED BY <1>2, <3>1, <3>2, <3>3, <3>4, <3>5 DEF Next, WatcherStep, Waits, Watches
  <2>2. \A c \in unchecked : /\ persisted[c] \notin accepted
                             /\ c \in Commands /\ persisted[c] \in Transports /\ owner[persisted[c]] = c
    BY TypeOKIs DEF FileType, Reported, UncheckedFresh, Belongs, FilesOwn, Owned
  <2>3. CASE UNCHANGED <<accepted, persisted>>
    BY <2>1, <2>2, <2>3 DEF UncheckedFresh
  <2>4. ASSUME NEW d \in Commands, NEW u \in Transports, Registers(d, u)
        PROVE  UncheckedFresh'
    <3>1. accepted' = accepted \cup {u} /\ UNCHANGED persisted /\ owner[u] = d
      BY <2>4 DEF Registers, RegisterCommand
    <3>2. ASSUME NEW c \in unchecked'
          PROVE  persisted[c] # u
      <4>1. CASE \E h \in Handlers : TransportStarted(h) /\ handler[h].transport = u
        BY <2>1, <2>2, <4>1 DEF TransportStarted, Reported, StartsFresh
      <4>2. CASE RecoveryFindsActive(d)
        BY <2>1, <2>2, <3>1, <4>2 DEF RecoveryFindsActive
      <4> QED BY <2>4, <4>1, <4>2 DEF Registers
    <3> QED BY <2>1, <2>2, <3>1, <3>2 DEF UncheckedFresh
  <2> QED BY <1>2, <2>3, <2>4, RegistryStep DEF Clears, Marks, PersistenceWrite, FileTurnsUnreadable, ghost
<1> QED BY <1>1, <1>2

LEMMA AcceptedFirstStep ==
  ASSUME Invariant, Reported, Next
  PROVE  AcceptedFirst'
<1> USE DEF Invariant
<1>1. \A t \in Transports : t \notin accepted => t \notin stopping /\ results[t] = <<>>
  BY DEF Reported, AcceptedFirst, Unheard
<1>2. results \in [Transports -> Seq(Results)] /\ stopping \subseteq Transports
  BY TypeOKIs
<1>3. CASE UNCHANGED <<results, stopping>> /\ accepted \subseteq accepted'
  BY <1>1, <1>3 DEF AcceptedFirst, Unheard
<1>4. ASSUME NEW c \in Commands, Cancel(c)
      PROVE  AcceptedFirst'
  BY <1>1, <1>4, CancelIs DEF AcceptedFirst, Unheard, Reported, EntriesReport
<1>5. ASSUME NEW c \in Commands, NEW r \in {"ended", "failed"}, Reports(c, r)
      PROVE  AcceptedFirst'
  <2>1. watch[c].transport \in accepted
    BY <1>5, ReportsIs DEF Reported, TasksReport
  <2>2. results' = [results EXCEPT ![watch[c].transport] = Append(@, r)] /\ UNCHANGED <<stopping, accepted>>
    BY <1>5, ReportsIs
  <2> QED BY <1>1, <1>2, <2>1, <2>2 DEF AcceptedFirst, Unheard
<1>6. ASSUME NEW t \in Transports, StopEnds(t)
      PROVE  AcceptedFirst'
  BY <1>1, <1>2, <1>6, StopEndsIs DEF AcceptedFirst, Unheard
<1>7. CASE CrashAndRestart
  BY <1>7 DEF CrashAndRestart, AcceptedFirst, Unheard
<1> QED BY <1>3, <1>4, <1>5, <1>6, <1>7, ReportStep

LEMMA TasksReportStep ==
  ASSUME Invariant, Reported, Next
  PROVE  TasksReport'
<1> USE DEF Invariant
<1> SUFFICES ASSUME NEW c \in Commands, TaskLives(c)'
             PROVE  /\ watch'[c].transport \in accepted'
                    /\ results'[watch'[c].transport] \in {<<>>, <<"cancel">>}
  BY DEF TasksReport
<1>1. CASE /\ TaskLives(c) /\ watch'[c].transport = watch[c].transport
           /\ \A r : ~Reports(c, r)
  <2> DEFINE t == watch[c].transport
  <2>1. t \in Transports /\ owner[t] = c
    BY <1>1, NamesOwn
  <2>2. t \in accepted /\ results[t] \in {<<>>, <<"cancel">>}
    BY <1>1 DEF Reported, TasksReport
  <2>3. results \in [Transports -> Seq(Results)]
    BY TypeOKIs
  <2>4. CASE results'[t] = results[t] /\ accepted \subseteq accepted'
    BY <1>1, <2>2, <2>4
  <2>5. ASSUME NEW u \in Transports, StopEnds(u)
        PROVE  results'[t] \in {<<>>, <<"cancel">>} /\ UNCHANGED accepted
    <3>1. results' = [results EXCEPT ![u] = Append(@, "cancel")] /\ u \in stopping /\ UNCHANGED accepted
      BY <2>5, StopEndsIs
    <3>2. CASE t = u
      <4>1. results[t] \in {<<>>, <<"failed">>}
        BY <3>1, <3>2 DEF Reported, StoppingReport
      <4>2. results[t] = <<>>
        BY <2>2, <4>1, Orders
      <4> QED BY <2>1, <2>3, <3>1, <3>2, <4>2, Orders
    <3>3. CASE t # u
      BY <2>1, <2>2, <2>3, <3>1, <3>3
    <3> QED BY <3>2, <3>3
  <2>6. ASSUME NEW d \in Commands, NEW r \in {"ended", "failed"}, Reports(d, r)
        PROVE  results'[t] = results[t] /\ UNCHANGED accepted
    <3>1. d # c
      BY <1>1, <2>6
    <3>2. /\ watch[d].transport \in Transports /\ owner[watch[d].transport] = d
          /\ results' = [results EXCEPT ![watch[d].transport] = Append(@, r)]
          /\ UNCHANGED accepted
      BY <2>6, ReportsIs
    <3> QED BY <2>1, <2>3, <3>1, <3>2
  <2>7. ASSUME NEW d \in Commands, Cancel(d)
        PROVE  UNCHANGED <<results, accepted>>
    BY <2>7, CancelIs
  <2>8. ~CrashAndRestart
    BY DEF CrashAndRestart, TaskLives, NoTask
  <2> QED BY <1>1, <2>2, <2>4, <2>5, <2>6, <2>7, <2>8, ReportStep
<1>2. CASE /\ UNCHANGED <<results, stopping, accepted>>
           /\ \E e \in Entries : watch'[c].transport = e.transport
  BY <1>2 DEF Reported, EntriesReport
<1> QED BY <1>1, <1>2, TaskStep

LEMMA EntriesReportStep ==
  ASSUME Invariant, Reported, Next
  PROVE  EntriesReport'
<1> USE DEF Invariant
<1> SUFFICES ASSUME NEW e \in Entries'
             PROVE  /\ e.transport \in accepted' /\ e.transport \notin stopping'
                    /\ results'[e.transport] = <<>>
  BY DEF EntriesReport
<1>1. ASSUME NEW c \in Commands, NEW t \in Transports, Registers(c, t), e = Fresh(c, t)
      PROVE  /\ e.transport \in accepted' /\ e.transport \notin stopping'
             /\ results'[e.transport] = <<>>
  <2>1. t \notin stopping /\ results[t] = <<>>
    BY <1>1, RegistersUnheard DEF Unheard
  <2>2. UNCHANGED <<stopping, results>> /\ t \in accepted'
    BY <1>1 DEF Registers, TransportStarted, RecoveryFindsActive, RegisterCommand
  <2>3. e.transport = t
    BY <1>1 DEF Fresh
  <2> QED BY <2>1, <2>2, <2>3
<1>2. ASSUME NEW f \in Entries, f.command = e.command, f.transport = e.transport
      PROVE  /\ e.transport \in accepted' /\ e.transport \notin stopping'
             /\ results'[e.transport] = <<>>
  <2> DEFINE t == f.transport
  <2>1. t \in Transports /\ owner[t] = f.command
    BY NamesOwn
  <2>2. t \in accepted /\ t \notin stopping /\ results[t] = <<>>
    BY DEF Reported, EntriesReport
  <2>3. results \in [Transports -> Seq(Results)]
    BY TypeOKIs
  <2>4. ASSUME NEW c \in Commands, Cancel(c)
        PROVE  UNCHANGED <<results, accepted>> /\ t \notin stopping'
    <3>1. PICK g \in Entries : g.command = c /\ stopping' = stopping \cup {g.transport}
      BY <2>4, CancelIs
    <3>2. e.command # c
      BY <2>4, CancelIs DEF But
    <3>3. g.transport # t
      BY <1>2, <2>1, <3>1, <3>2, NamesOwn
    <3> QED BY <2>2, <2>4, <3>1, <3>3, CancelIs
  <2>5. ASSUME NEW c \in Commands, NEW r \in {"ended", "failed"}, Reports(c, r)
        PROVE  results'[t] = results[t] /\ UNCHANGED <<accepted, stopping>>
    <3>1. /\ watch[c].transport \in Transports /\ owner[watch[c].transport] = c
          /\ results' = [results EXCEPT ![watch[c].transport] = Append(@, r)]
          /\ UNCHANGED <<accepted, stopping>> /\ e \in But(c)
      BY <2>5, ReportsIs
    <3>2. watch[c].transport # t
      BY <1>2, <2>1, <3>1 DEF But
    <3> QED BY <2>1, <2>3, <3>1, <3>2
  <2>6. ASSUME NEW u \in Transports, StopEnds(u)
        PROVE  results'[t] = results[t] /\ UNCHANGED accepted /\ t \notin stopping'
    BY <2>1, <2>2, <2>3, <2>6, StopEndsIs
  <2>7. ~CrashAndRestart
    BY EmptyRegistry DEF CrashAndRestart, Entries, In
  <2> QED BY <1>2, <2>2, <2>4, <2>5, <2>6, <2>7, ReportStep
<1> QED BY <1>1, <1>2, EntriesStep

(* A watcher reports the end only of a transport nothing was reported of,  *)
(* a failure perhaps beside a cancel.                                      *)
LEMMA ReportsBeside ==
  ASSUME TypeOK, Belongs, Reported, NEW c \in Commands, NEW r \in {"ended", "failed"}, Reports(c, r)
  PROVE  LET t == watch[c].transport IN
         /\ r = "ended" => t \notin stopping /\ results[t] = <<>>
         /\ results[t] \in {<<>>, <<"cancel">>}
BY ReportsIs DEF Reported, TasksReport, EntriesReport

LEMMA StoppingReportStep ==
  ASSUME Invariant, Reported, Next
  PROVE  StoppingReport'
<1> USE DEF Invariant
<1>1. /\ results \in [Transports -> Seq(Results)] /\ stopping \subseteq Transports
      /\ \A t \in stopping : results[t] \in {<<>>, <<"failed">>}
  BY TypeOKIs DEF Reported, StoppingReport
<1>2. CASE UNCHANGED <<results, stopping>>
  BY <1>1, <1>2 DEF StoppingReport
<1>3. ASSUME NEW c \in Commands, Cancel(c)
      PROVE  StoppingReport'
  BY <1>1, <1>3, CancelIs DEF StoppingReport, Reported, EntriesReport
<1>4. ASSUME NEW c \in Commands, NEW r \in {"ended", "failed"}, Reports(c, r)
      PROVE  StoppingReport'
  <2> DEFINE u == watch[c].transport
  <2>1. results' = [results EXCEPT ![u] = Append(@, r)] /\ UNCHANGED stopping /\ u \in Transports
    BY <1>4, ReportsIs
  <2>2. /\ r = "ended" => u \notin stopping
        /\ results[u] \in {<<>>, <<"cancel">>}
    BY <1>4, ReportsBeside
  <2>3. ASSUME u \in stopping
        PROVE  results'[u] = <<"failed">>
    <3>1. r = "failed" /\ results[u] = <<>>
      BY <1>1, <2>2, <2>3, Orders
    <3> QED BY <1>1, <2>1, <3>1, Orders
  <2> HIDE DEF u
  <2> QED BY <1>1, <2>1, <2>3 DEF StoppingReport
<1>5. ASSUME NEW u \in Transports, StopEnds(u)
      PROVE  StoppingReport'
  BY <1>1, <1>5, StopEndsIs DEF StoppingReport
<1>6. CASE CrashAndRestart
  BY <1>6 DEF CrashAndRestart, StoppingReport
<1> QED BY <1>2, <1>3, <1>4, <1>5, <1>6, ReportStep

LEMMA FewOrdersStep ==
  ASSUME Invariant, Reported, Next
  PROVE  FewOrders'
<1> USE DEF Invariant
<1>1. results \in [Transports -> Seq(Results)] /\ FewOrders
  BY TypeOKIs DEF Reported
<1>2. CASE UNCHANGED results
  BY <1>1, <1>2 DEF FewOrders
<1>3. ASSUME NEW c \in Commands, NEW r \in {"ended", "failed"}, Reports(c, r)
      PROVE  FewOrders'
  <2> DEFINE u == watch[c].transport
  <2>1. results' = [results EXCEPT ![u] = Append(@, r)] /\ u \in Transports
    BY <1>3, ReportsIs
  <2>2. /\ r = "ended" => results[u] = <<>>
        /\ results[u] \in {<<>>, <<"cancel">>}
    BY <1>3, ReportsBeside
  <2>3. results'[u] \in {<<"ended">>, <<"failed">>, <<"cancel", "failed">>}
    <3>1. CASE results[u] = <<>>
      BY <1>1, <2>1, <3>1, Orders
    <3>2. CASE results[u] = <<"cancel">> /\ r = "failed"
      BY <1>1, <2>1, <3>2, Orders
    <3> QED BY <2>2, <3>1, <3>2
  <2> HIDE DEF u
  <2> QED BY <1>1, <2>1, <2>3 DEF FewOrders
<1>4. ASSUME NEW u \in Transports, StopEnds(u)
      PROVE  FewOrders'
  <2>1. results' = [results EXCEPT ![u] = Append(@, "cancel")] /\ results[u] \in {<<>>, <<"failed">>}
    BY <1>4, StopEndsIs DEF Reported, StoppingReport
  <2>2. results'[u] \in {<<"cancel">>, <<"failed", "cancel">>}
    BY <1>1, <2>1, Orders
  <2> QED BY <1>1, <2>1, <2>2 DEF FewOrders
<1>5. CASE CrashAndRestart
  BY <1>5 DEF CrashAndRestart, FewOrders
<1>6. ASSUME NEW c \in Commands, Cancel(c)
      PROVE  UNCHANGED results
  BY <1>6, CancelIs
<1> QED BY <1>2, <1>3, <1>4, <1>5, <1>6, ReportStep

LEMMA ReportedStep ==
  ASSUME Invariant, Alone, Reported, [Next]_vars
  PROVE  Reported'
<1>1. CASE Next
  <2>1. StartsFresh'
    BY <1>1, StartsFreshStep
  <2>2. UncheckedFresh' /\ AcceptedFirst'
    BY <1>1, UncheckedFreshStep, AcceptedFirstStep
  <2>3. TasksReport' /\ EntriesReport'
    BY <1>1, TasksReportStep, EntriesReportStep
  <2>4. StoppingReport' /\ FewOrders'
    BY <1>1, StoppingReportStep, FewOrdersStep
  <2> QED BY <2>1, <2>2, <2>3, <2>4 DEF Reported
<1>2. CASE UNCHANGED vars
  <2>1. UNCHANGED <<handler, stopping, registry, watch, queue, disk, persisted, unchecked, accepted, results>>
    BY <1>2 DEF vars, navigating, storage, ghost
  <2> QED BY <2>1 DEF Reported, StartsFresh, UncheckedFresh, AcceptedFirst, Unheard, TasksReport, TaskLives,
                     EntriesReport, Entries, StoppingReport, FewOrders
<1> QED BY <1>1, <1>2

LEMMA InitReported == Init => Reported
<1> SUFFICES ASSUME Init PROVE Reported
  OBVIOUS
<1>1. Entries = {} /\ \A h \in Handlers : handler[h].stage = "idle"
  BY EmptyRegistry DEF Init, IdleHandler
<1>2. \A c \in Commands : ~TaskLives(c)
  BY DEF Init, TaskLives, NoTask
<1> QED BY <1>1, <1>2 DEF Init, Reported, StartsFresh, UncheckedFresh, AcceptedFirst, Unheard, TasksReport,
                         EntriesReport, StoppingReport, FewOrders

(* A transport gets one result, or a failure beside a cancel, however      *)
(* cancel, watcher and arrival race.                                       *)
THEOREM OneResultEach == Spec => []OneResult
<1>1. TypeOK /\ FewOrders => OneResult
  <2> SUFFICES ASSUME FewOrders, NEW t \in Transports
               PROVE  \/ Len(results[t]) <= 1
                      \/ /\ Len(results[t]) = 2
                         /\ {results[t][1], results[t][2]} = {"failed", "cancel"}
    BY DEF OneResult
  <2>1. /\ Len(<<>>) = 0 /\ Len(<<"ended">>) = 1 /\ Len(<<"failed">>) = 1 /\ Len(<<"cancel">>) = 1
        /\ \A q, r : Len(<<q, r>>) = 2 /\ <<q, r>>[1] = q /\ <<q, r>>[2] = r
    OBVIOUS
  <2>2. CASE results[t] \in {<<>>, <<"ended">>, <<"failed">>, <<"cancel">>}
    <3>1. Len(results[t]) = 0 \/ Len(results[t]) = 1
      BY <2>1, <2>2
    <3> QED BY <3>1
  <2>3. CASE results[t] \in {<<"failed", "cancel">>, <<"cancel", "failed">>}
    BY <2>1, <2>3
  <2> QED BY <2>2, <2>3 DEF FewOrders
<1>2. Invariant /\ Reported => OneResult
  BY <1>1 DEF Invariant, Reported
<1>3. Invariant /\ Alone /\ Reported /\ [Next]_vars => Reported'
  BY ReportedStep
<1> QED BY <1>2, <1>3, InitReported, InitAlone, StepAlone, InitInvariant, StepInvariant, PTL DEF Spec

-----------------------------------------------------------------------------
(* No accepted command vanishes.                                           *)

(* An entry stays, or something is known of the step that removed it. *)
Stays(e) == \E f \in Entries' : f.command = e.command /\ f.transport = e.transport
LEMMA LeavesStep ==
  ASSUME TypeOK, Belongs, Next, NEW e \in Entries
  PROVE  \/ Stays(e) \/ Cancel(e.command) \/ RecoveryDrops(e.command) \/ CrashAndRestart
         \/ Reports(e.command, "ended") \/ Reports(e.command, "failed")
         \/ TaskLives(e.command) /\ Forgets(e.command)
         \/ \E t \in Transports : Registers(e.command, t)
<1>1. ASSUME UNCHANGED registry
      PROVE  Stays(e)
  BY <1>1 DEF Entries, Stays
<1>2. ASSUME NEW c \in Commands, ClearTransport(c), c # e.command
      PROVE  Stays(e)
  BY <1>2, Cleared DEF But, Stays
<1>3. ASSUME NEW c \in Commands, Watches(c)
      PROVE  \/ Stays(e)
             \/ c = e.command /\ (Reports(c, "ended") \/ Reports(c, "failed") \/ Forgets(c)) /\ TaskLives(c)
  <2>1. TaskLives(c) /\ UNCHANGED stopping
    BY <1>3, WatcherStepIs
  <2>2. CASE Says(c, "ended") \/ Says(c, "failed") \/ Forgets(c)
    BY <1>2, <2>1, <2>2 DEF Says, Settle, Forgets, Reports
  <2>3. CASE MovesOn(c)
    <3>1. CASE registry' = WithState(c, robot[watch[c].transport])
      <4>1. Entries' = But(c) \cup Marked(c, robot[watch[c].transport])
        BY <3>1, TypeOfRegistry, WithStateIs DEF Entries
      <4>2. CASE e \in But(c)
        BY <4>1, <4>2 DEF Stays
      <4>3. CASE e \notin But(c)
        <5> DEFINE f(b) == [e EXCEPT !.ended = b]
        <5>1. e \in EntryType
          BY TypeOKIs, EntryIs
        <5>2. \A b \in BOOLEAN : f(b).command = e.command /\ f(b).transport = e.transport
          BY <5>1 DEF EntryType
        <5>3. f(robot[watch[c].transport] \in Terminal) \in Marked(c, robot[watch[c].transport])
          BY <4>3 DEF Marked
        <5>4. (robot[watch[c].transport] \in Terminal) \in BOOLEAN
          OBVIOUS
        <5> HIDE DEF f
        <5> QED BY <4>1, <5>2, <5>3, <5>4 DEF Stays
      <4> QED BY <4>2, <4>3
    <3> QED BY <1>1, <2>3, <3>1 DEF MovesOn
  <2> QED BY <1>3, <2>2, <2>3, WatcherStepIs
<1>4. ASSUME NEW c \in Commands, NEW t \in Transports, Registers(c, t)
      PROVE  Stays(e) \/ c = e.command
  BY <1>4, Registered DEF Registers, But, Stays
<1>5. ASSUME NEW c \in Commands, Cancel(c) \/ Proximity(c) \/ RecoveryStep(c)
      PROVE  \/ Stays(e) \/ Cancel(e.command) \/ RecoveryDrops(e.command)
             \/ \E t \in Transports : Registers(e.command, t)
  <2>1. CASE Cancel(c) \/ RecoveryDrops(c)
    BY <1>2, <2>1 DEF Cancel, RecoveryDrops
  <2>2. CASE Proximity(c) \/ RecoverySkips(c)
    BY <1>1, <2>2 DEF Proximity, RecoverySkips
  <2>3. CASE RecoveryFindsActive(c)
    BY <1>4, <2>3, RecoveryRegisters
  <2> QED BY <1>5, <2>1, <2>2, <2>3 DEF RecoveryStep
<1>6. ASSUME NEW h \in Handlers, Waits(h) \/ NavigateStep(h)
      PROVE  Stays(e) \/ \E t \in Transports : Registers(e.command, t)
  <2>1. CASE Waits(h)
    BY <1>1, <2>1, WaitsIs
  <2>2. CASE TransportCreated(h) \/ TransportNotCreated(h) \/ TransportNotStarted(h)
    BY <1>1, <2>2 DEF TransportCreated, TransportNotCreated, TransportNotStarted
  <2>3. CASE TransportStarted(h)
    BY <1>4, <2>3, StartRegisters
  <2> QED BY <1>6, <2>1, <2>2, <2>3 DEF NavigateStep, Waits
<1>7. ASSUME NEW t \in Transports, StopEnds(t) \/ RobotMoves(t) \/ TransportDeleted(t)
      PROVE  Stays(e)
  BY <1>1, <1>7 DEF StopEnds, RobotMoves, TransportDeleted
<1>8. ASSUME Manage \/ PersistenceWrite \/ FileTurnsUnreadable
      PROVE  Stays(e)
  BY <1>1, <1>8 DEF Manage, PersistenceWrite, FileTurnsUnreadable
<1> QED BY <1>3, <1>5, <1>6, <1>7, <1>8 DEF Next, WatcherStep, Waits, Watches

LEMMA AccountedStep ==
  ASSUME Invariant, Invariant', Reported, AcceptedIsAccountedFor, Next
  PROVE  AcceptedIsAccountedFor'
<1> USE DEF Invariant
<1> DEFINE Accounted(t) == \/ TransportOf(owner[t]) = t
                           \/ t \in stopping
                           \/ results[t] # <<>>
                           \/ robot[t] = "gone"
                           \/ ~SoleUse(t)
<1>1. CASE CrashAndRestart
  BY <1>1 DEF CrashAndRestart, AcceptedIsAccountedFor
<1>2. ASSUME NEW e \in Entries', e.transport \in Transports
      PROVE  Accounted(e.transport)'
  <2>1. IsRegistry(registry)'
    BY DEF TypeOK, IsRegistry, IsMap, EntryType
  <2>2. owner'[e.transport] = e.command
    BY DEF Belongs, EntriesOwn
  <2>3. PICK i \in DOMAIN registry' : e = registry'[i]
    BY DEF Entries, In
  <2>4. IsRegistered(e.command)'
    BY <2>3 DEF IsRegistered
  <2>5. Place(e.command)' = i
    BY <2>1, <2>3 DEF Place, IsRegistry, IsMap
  <2>6. TransportOf(owner[e.transport])' = e.transport
    BY <2>2, <2>3, <2>4, <2>5 DEF TransportOf, Entry
  <2> QED BY <2>6
<1>3. ASSUME NEW t \in Transports, owner[t] \in Commands,
             t \in stopping \/ results[t] # <<>> \/ robot[t] = "gone" \/ ~SoleUse(t), ~CrashAndRestart
      PROVE  Accounted(t)'
  <2>1. CASE robot[t] = "gone" \/ ~SoleUse(t)
    BY <1>3, <2>1, RobotKeeps, SharedStays
  <2>2. results' = results \/ \E u \in Transports, r \in Results : results' = [results EXCEPT ![u] = Append(@, r)]
    BY <1>3, ReportStep, ReportsIs, CancelIs, StopEndsIs DEF Results
  <2>3. ASSUME NEW u \in Transports, NEW r \in Results, results' = [results EXCEPT ![u] = Append(@, r)]
        PROVE  (results[t] # <<>> => results'[t] # <<>>) /\ results'[u] # <<>>
    <3>1. results \in [Transports -> Seq(Results)]
      BY TypeOKIs
    <3>2. Append(results[u], r) # <<>>
      BY <3>1
    <3> QED BY <2>3, <3>1, <3>2
  <2>4. CASE results[t] # <<>>
    BY <2>2, <2>3, <2>4
  <2>5. CASE t \in stopping
    <3>1. t \in stopping' \/ StopEnds(t)
      BY <1>3, <2>5, ReportStep, ReportsIs, CancelIs, StopEndsIs
    <3>2. CASE StopEnds(t)
      <4>1. results' = [results EXCEPT ![t] = Append(@, "cancel")] /\ "cancel" \in Results
        BY <3>2, StopEndsIs DEF Results
      <4> QED BY <2>3, <4>1
    <3> QED BY <3>1, <3>2
  <2> QED BY <1>3, <2>1, <2>4, <2>5
<1>4. ASSUME NEW e \in Entries, ~CrashAndRestart
      PROVE  Accounted(e.transport)'
  <2> DEFINE t == e.transport
             c == e.command
  <2>1. t \in Transports /\ c \in Commands /\ owner[t] = c /\ t \in accepted
    BY NamesOwn DEF Reported, EntriesReport
  <2>2. CASE Stays(e)
    BY <1>2, <2>1, <2>2 DEF Stays
  <2>3. CASE Cancel(c)
    <3>1. PICK g \in Entries : g.command = c /\ stopping' = stopping \cup {g.transport}
      BY <2>1, <2>3, CancelIs
    <3>2. g = e
      BY <3>1, TypeOfRegistry, OneEntryEach
    <3> QED BY <3>1, <3>2
  <2>4. ASSUME NEW u \in Transports, owner[u] = c, u # t
        PROVE  Accounted(t)'
    <3>1. ~SoleUse(t)
      BY <2>1, <2>4 DEF SoleUse
    <3> QED BY <1>3, <1>4, <2>1, <3>1
  <2>5. ASSUME NEW r \in {"ended", "failed"}, Reports(c, r)
        PROVE  Accounted(t)'
    <3>1. /\ watch[c].transport \in Transports /\ owner[watch[c].transport] = c
          /\ results' = [results EXCEPT ![watch[c].transport] = Append(@, r)]
      BY <2>1, <2>5, ReportsIs
    <3>2. CASE watch[c].transport = t
      <4>1. results \in [Transports -> Seq(Results)] /\ r \in Results
        BY TypeOKIs DEF Results
      <4>2. Append(results[t], r) # <<>>
        BY <2>1, <4>1
      <4> QED BY <2>1, <3>1, <3>2, <4>1, <4>2
    <3> QED BY <2>4, <3>1, <3>2
  <2>6. CASE TaskLives(c) /\ Forgets(c)
    <3>1. watch[c].transport \in Transports /\ owner[watch[c].transport] = c /\ robot[watch[c].transport] = "gone"
      BY <2>1, <2>6, NamesOwn DEF Forgets
    <3>2. CASE watch[c].transport = t
      BY <1>3, <1>4, <2>1, <3>1, <3>2
    <3> QED BY <2>4, <3>1, <3>2
  <2>7. CASE RecoveryDrops(c)
    <3>1. persisted[c] \notin accepted /\ persisted[c] # NoTransport /\ Owned(c, persisted[c])
      BY <2>1, <2>7 DEF RecoveryDrops, Reported, UncheckedFresh, Belongs, FilesOwn
    <3>2. persisted[c] \in Transports /\ owner[persisted[c]] = c /\ persisted[c] # t
      BY <2>1, <3>1, TypeOKIs DEF FileType, Owned
    <3> QED BY <2>4, <3>2
  <2>8. ASSUME NEW u \in Transports, Registers(c, u)
        PROVE  Accounted(t)'
    <3>1. u \notin accepted /\ owner[u] = c
      BY <2>1, <2>8, RegistersUnheard DEF Unheard, Registers
    <3> QED BY <2>1, <2>4, <3>1
  <2> HIDE DEF t, c, Accounted
  <2> QED BY <1>4, <2>2, <2>3, <2>5, <2>6, <2>7, <2>8, LeavesStep DEF t, c
<1>5. ASSUME NEW t \in accepted', ~CrashAndRestart
      PROVE  Accounted(t)'
  <2>1. CASE t \in accepted
    <3>1. t \in Transports /\ owner[t] \in Commands /\ Accounted(t)
      BY <2>1, TypeOKIs DEF Belongs, AcceptedOwned, AcceptedIsAccountedFor
    <3>2. CASE TransportOf(owner[t]) = t
      <4>1. IsRegistered(owner[t])
        BY <3>1, <3>2 DEF TransportOf, Transports, NoTransport
      <4>2. Entry(owner[t]) \in Entries /\ Entry(owner[t]).transport = t
        BY <3>2, <4>1, TypeOfRegistry, RegisteredHasEntry
      <4> QED BY <1>4, <1>5, <4>2
    <3> QED BY <1>3, <1>5, <3>1, <3>2
  <2>2. CASE t \notin accepted
    <3>1. PICK c \in Commands, u \in Transports : Registers(c, u)
      BY <1>5, <2>2, RegistryStep DEF Clears, Marks, PersistenceWrite, FileTurnsUnreadable, ghost
    <3>2. u = t
      BY <1>5, <2>2, <3>1, Registered DEF Registers
    <3>3. Fresh(c, t) \in Entries' /\ Fresh(c, t).transport = t
      BY <3>1, <3>2, Registered DEF Registers, Fresh
    <3> QED BY <1>2, <3>1, <3>2, <3>3
  <2> QED BY <2>1, <2>2
<1> QED BY <1>1, <1>5 DEF AcceptedIsAccountedFor

(* No accepted command vanishes: until its result is out it is registered, *)
(* being cancelled, or its transport is gone from the controller.          *)
THEOREM NoneVanishes == Spec => []AcceptedIsAccountedFor
<1>1. Init => AcceptedIsAccountedFor
  BY DEF Init, AcceptedIsAccountedFor
<1>2. Invariant /\ Invariant' /\ Reported /\ AcceptedIsAccountedFor /\ [Next]_vars => AcceptedIsAccountedFor'
  <2> SUFFICES ASSUME AcceptedIsAccountedFor, UNCHANGED vars
               PROVE  AcceptedIsAccountedFor'
    BY AccountedStep
  <2>1. UNCHANGED <<accepted, registry, owner, stopping, results, robot>>
    BY DEF vars, ghost
  <2> QED BY <2>1 DEF AcceptedIsAccountedFor, TransportOf, IsRegistered, Entry, Place, SoleUse
<1>3. Invariant /\ Alone /\ Reported /\ [Next]_vars => Reported'
  BY ReportedStep
<1> QED BY <1>1, <1>2, <1>3, InitReported, InitAlone, StepAlone, InitInvariant, StepInvariant, PTL DEF Spec
=============================================================================
