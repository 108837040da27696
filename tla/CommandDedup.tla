---------------------------- MODULE CommandDedup ----------------------------
(***************************************************************************)
(* The command deduplicator as coded (mqtt-bridge/command_dedup.py): an    *)
(* in-flight set and a history with an age limit (history_ttl) and a size  *)
(* limit (max_history), both enforced lazily.                              *)
(*                                                                         *)
(* The history is the sequence of its entries by increasing timestamp, so  *)
(* the entries past the age limit are a prefix of it; the passing of time  *)
(* is the action Age, which expires the oldest entry still fresh.          *)
(***************************************************************************)
EXTENDS Naturals, SequencesExt

CONSTANTS Ids, Payloads, Absent, Sentinel,
          MaxHistory    \* max_history

ASSUME CommandDedupAssumption == /\ MaxHistory \in Nat \ {0}
                                 /\ Absent \notin Payloads \cup {Sentinel}

VARIABLES inFlight,     \* _commands_in_flight
          entries       \* _history, oldest timestamp first

vars == <<inFlight, entries>>

Entry == [id : Ids, payload : Payloads \cup {Sentinel}, expired : BOOLEAN]

(* The state has its type, and the lazy purges keep the list a map: no      *)
(* identifier has two entries, and the expired entries are the oldest ones. *)
TypeOK == /\ inFlight \subseteq Ids
          /\ entries \in Seq(Entry)
          /\ \A i, j \in DOMAIN entries : entries[i].id = entries[j].id => i = j
          /\ \E k \in 0 .. Len(entries) :
                \A i \in DOMAIN entries : entries[i].expired <=> i <= k

Init == inFlight = {} /\ entries = <<>>

-----------------------------------------------------------------------------
EntriesOf(s, id) == {i \in DOMAIN s : s[i].id = id}

Known(s, id) == EntriesOf(s, id) # {}

Expired(s, id) == \E i \in EntriesOf(s, id) : s[i].expired

Position(s, id) == CHOOSE i \in EntriesOf(s, id) : TRUE

Drop(s, id) == IF Known(s, id) THEN RemoveAt(s, Position(s, id)) ELSE s

(* Mistake: a second entry instead of a fresh timestamp. *)
StampedTwice(s, id, p) ==
    Append(s, [id |-> id, payload |-> p, expired |-> FALSE])

Stamped(s, id, p) ==
    Append(Drop(s, id), [id |-> id, payload |-> p, expired |-> FALSE])

Stale(s) == CHOOSE k \in 0 .. Len(s) : \A i \in DOMAIN s : s[i].expired <=> i <= k

Fresh(s) == SubSeq(s, Stale(s) + 1, Len(s))

(* Mistake: one entry too many goes. *)
NewestLessOne(s) ==
    IF Len(s) > MaxHistory THEN SubSeq(s, Len(s) - MaxHistory + 2, Len(s)) ELSE s

Newest(s) ==
    IF Len(s) > MaxHistory THEN SubSeq(s, Len(s) - MaxHistory + 1, Len(s)) ELSE s

(* _cleanup_locked: the expired entries go, then the oldest above the cap. *)
Cleanup(s) == Newest(Fresh(s))

-----------------------------------------------------------------------------
TryStart(id) == /\ id \notin inFlight
                /\ inFlight' = inFlight \cup {id}
                /\ UNCHANGED entries

(* Mistakes: no sentinel, one over a stored result. *)
FinishWithoutTrace(id) == /\ inFlight' = inFlight \ {id}
                          /\ UNCHANGED entries

FinishOverwriting(id) ==
    /\ inFlight' = inFlight \ {id}
    /\ entries' = IF id \in inFlight THEN Stamped(entries, id, Sentinel) ELSE entries

(* The sentinel is added without a cleanup, so sentinels may overshoot the *)
(* size limit until the next store().  An entry that is expired but not    *)
(* yet purged still counts as a stored result, so no sentinel is added.    *)
Finish(id) ==
    /\ inFlight' = inFlight \ {id}
    /\ entries' = IF id \in inFlight /\ ~Known(entries, id)
                  THEN Stamped(entries, id, Sentinel) ELSE entries

Store(id, p) == /\ entries' = Cleanup(Stamped(entries, id, p))
                /\ UNCHANGED inFlight

(* get and was_processed share their only effect: they purge the entry     *)
(* they find expired.                                                      *)
Lookup(id) == /\ Expired(entries, id)
              /\ entries' = Drop(entries, id)
              /\ UNCHANGED inFlight

Age == \E i \in DOMAIN entries :
          /\ ~entries[i].expired
          /\ \A j \in 1 .. i - 1 : entries[j].expired
          /\ entries' = [entries EXCEPT ![i].expired = TRUE]
          /\ UNCHANGED inFlight

Next == \/ \E id \in Ids : \/ TryStart(id)
                           \/ Finish(id)
                           \/ \E p \in Payloads : Store(id, p)
                           \/ Lookup(id)
        \/ Age

Spec == Init /\ [][Next]_vars

-----------------------------------------------------------------------------
Remembered(s, id) == Known(s, id) /\ ~Expired(s, id)

(* What the table holds: an expired entry counts as forgotten whether or   *)
(* not it was purged.                                                      *)
Memory(s) == [id \in Ids |-> IF Remembered(s, id) THEN s[Position(s, id)].payload
                                                  ELSE Absent]

(* The deduplicator as coded implements the table its callers rely on.     *)
Table == INSTANCE DedupTable WITH history <- Memory(entries)

ImplementsDedupTable == Table!DedupSpec

(* A command that leaves the in-flight set is remembered, by its result or *)
(* a sentinel, unless an earlier outcome of it has expired and lies there  *)
(* unpurged: finish() (line 82) takes that entry for a trace and adds no   *)
(* sentinel, while get() and was_processed() (lines 117, 134) take it for  *)
(* none, so that such a command is unknown the moment it is finished.      *)
FinishLeavesATrace(id) ==
    id \in inFlight /\ id \notin inFlight' /\ ~Expired(entries, id) => Remembered(entries', id)

(* An outcome within the age limit is pushed out only by MaxHistory newer  *)
(* ones: cleaning up never drops an entry that still had room.             *)
OnlyNewerEvict(id) ==
    Remembered(entries, id) /\ ~Known(entries', id) =>
        /\ Len(entries') = MaxHistory
        /\ \A k \in 1 .. MaxHistory - 1 : \E j \in DOMAIN entries :
              /\ entries[j] = entries'[k]
              /\ \A i \in EntriesOf(entries, id) : i < j

(* No step makes the history forget a command it still has room for, the   *)
(* finish() that meets an expired entry of the command excepted.           *)
HistoryIsKept == [][\A id \in Ids : FinishLeavesATrace(id) /\ OnlyNewerEvict(id)]_vars
=============================================================================
