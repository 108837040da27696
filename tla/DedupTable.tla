----------------------------- MODULE DedupTable -----------------------------
(***************************************************************************)
(* What a command deduplicator promises its callers                        *)
(* (mqtt-bridge/command_dedup.py, class CommandDeduplicator).              *)
(*                                                                         *)
(* The table keeps the identifiers being processed and, for identifiers    *)
(* processed before, a remembered outcome: a result payload, or Sentinel   *)
(* when processing ended without one.  Every operation runs under the      *)
(* table's one lock, so each is one step.  The table may forget outcomes   *)
(* at any time: how (an age limit, a size limit) is the business of        *)
(* CommandDedup, which implements this module.                             *)
(***************************************************************************)
EXTENDS Naturals

CONSTANTS Ids,        \* command or request identifiers (never empty strings)
          Payloads,   \* result payloads, as far as the callers tell them apart
          Absent,     \* no entry in the history
          Sentinel    \* _DEDUP_SENTINEL: processed, no result stored

ASSUME DedupAssumption == /\ Absent \notin Payloads
                          /\ Sentinel \notin Payloads
                          /\ Absent # Sentinel

VARIABLES inFlight,   \* _commands_in_flight
          history     \* _history, as a function: the remembered outcome

dedupVars == <<inFlight, history>>

Outcomes == Payloads \cup {Sentinel}

DedupTypeOK == /\ inFlight \subseteq Ids
               /\ history \in [Ids -> Outcomes \cup {Absent}]

DedupInit == /\ inFlight = {}
             /\ history = [id \in Ids |-> Absent]

-----------------------------------------------------------------------------
(* What get and was_processed answer. *)

Get(id) == IF history[id] = Sentinel THEN Absent ELSE history[id]

WasProcessed(id) == history[id] # Absent

(* The operations that change the table. *)

TryStart(id) == /\ id \notin inFlight
                /\ inFlight' = inFlight \cup {id}
                /\ UNCHANGED history

(* Finishing without a stored result records the sentinel, unless an       *)
(* outcome already forgotten by age, but not yet purged, is in its place.  *)
Finish(id) ==
    /\ inFlight' = inFlight \ {id}
    /\ \/ UNCHANGED history
       \/ /\ id \in inFlight /\ history[id] = Absent
          /\ history' = [history EXCEPT ![id] = Sentinel]

(* The outcomes of the identifiers in gone are dropped. *)
Without(hist, gone) == [id \in Ids |-> IF id \in gone THEN Absent ELSE hist[id]]

(* Storing a result may push out the outcomes of other identifiers. *)
Store(id, p) ==
    /\ \E gone \in SUBSET (Ids \ {id}) :
          history' = Without([history EXCEPT ![id] = p], gone)
    /\ UNCHANGED inFlight

Forget(id) == /\ history[id] # Absent
              /\ history' = [history EXCEPT ![id] = Absent]
              /\ UNCHANGED inFlight

DedupNext == \E id \in Ids : \/ TryStart(id)
                             \/ Finish(id)
                             \/ \E p \in Payloads : Store(id, p)
                             \/ Forget(id)

DedupSpec == DedupInit /\ [][DedupNext]_dedupVars
=============================================================================
