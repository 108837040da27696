------------------------------ MODULE Responses ------------------------------
(***************************************************************************)
(* What happens to an answer of the bridge on its way to MQTT:             *)
(* send_response (mqtt-bridge/response_publisher.py), the publisher        *)
(* (mqtt_publisher.py) and the queue of the results that could not be      *)
(* published (pending_results.py, class PendingResultQueue).               *)
(*                                                                         *)
(* Any thread may send a result; two may flush the queue, the periodic     *)
(* flush thread and the handler-pool thread that runs the callback of a    *)
(* connection.  A result is an object with an identity of its own and the  *)
(* request_id (or fallback key) under which the queue keeps it: the        *)
(* acknowledgement and the final result of one request share their key.    *)
(***************************************************************************)
EXTENDS Naturals, SequencesExt

CONSTANTS Results,    \* the result objects, each sent once
          Keys,
          KeyOf,      \* [Results -> Keys]
          Estop,      \* those that report on an e-stop
          Named,      \* those that carry their command_name: an error
                      \* response (publish_command_error) does not
          TooLarge,   \* those serialize_mqtt_payload refuses
          Capacity    \* MAX_TASK_RESULT_QUEUE

ASSUME ResponsesAssumption == /\ KeyOf \in [Results -> Keys]
                              /\ Estop \subseteq Results
                              /\ Named \subseteq Results
                              /\ TooLarge \subseteq Results
                              /\ Capacity \in Nat \ {0}

VARIABLES session,    \* "up", "lost" but not yet noticed, or "down"
          stage,      \* where the thread that sends each result is
          pending,    \* _pending, in dictionary order
          lock,       \* _flush_lock: its holder, or "free"
          at,         \* where each flusher is
          snapshot,   \* results_to_send of each flusher
          published   \* the results handed to the broker, in order

vars == <<session, stage, pending, lock, at, snapshot, published>>

Flushers == {"loop", "callback"}

(* What queue() takes for a safety result: its command_name says so.       *)
Safety == Estop \cap Named

TypeOK ==
    /\ session \in {"up", "lost", "down"}
    /\ stage \in [Results -> {"new", "publishing", "queuing", "done"}]
    /\ pending \in Seq(Results) /\ Len(pending) <= Capacity
    /\ lock \in Flushers \cup {"free"}
    /\ at \in [Flushers -> {"idle", "asked", "publish", "remove"}]
    /\ snapshot \in [Flushers -> Seq(Results)]
    /\ published \in Seq(Results)

Init ==
    /\ session = "down"
    /\ stage = [r \in Results |-> "new"]
    /\ pending = <<>> /\ published = <<>>
    /\ lock = "free"
    /\ at = [f \in Flushers |-> "idle"]
    /\ snapshot = [f \in Flushers |-> <<>>]

IsConnected == session # "down"

-----------------------------------------------------------------------------
(* publish_json(r) with its three outcomes. *)

PublishSucceeds(r) == /\ session = "up" /\ r \notin TooLarge
                      /\ published' = Append(published, r)

PublishTooLarge(r) == /\ IsConnected /\ r \in TooLarge
                      /\ UNCHANGED published

PublishFails(r) == /\ session = "down" \/ (session = "lost" /\ r \notin TooLarge)
                   /\ UNCHANGED published

(* queue(r): a full queue drops its oldest entry that is not a safety      *)
(* result, or else its oldest entry; a result of a request that already    *)
(* waits takes the place of the earlier one.                               *)
IndexOfKey(s, k) == SelectInSeq(s, LAMBDA r : KeyOf[r] = k)

(* Mistakes: the oldest entry, whatever it is; only what is no safety result. *)
EvictOldest(s) == RemoveAt(s, 1)

EvictNoSafety(s) == RemoveAt(s, SelectInSeq(s, LAMBDA r : r \notin Safety))

Evict(s) == LET i == SelectInSeq(s, LAMBDA r : r \notin Safety)
            IN  RemoveAt(s, IF i = 0 THEN 1 ELSE i)

Queued(s, r) ==
    LET i == IndexOfKey(s, KeyOf[r])
    IN  IF i # 0 THEN [s EXCEPT ![i] = r]
        ELSE Append(IF Len(s) >= Capacity THEN Evict(s) ELSE s, r)

-----------------------------------------------------------------------------
(* send_response *)

To(r, from, next) == stage[r] = from /\ stage' = [stage EXCEPT ![r] = next]

CheckConnected(r) ==
    /\ To(r, "new", IF IsConnected THEN "publishing" ELSE "queuing")
    /\ UNCHANGED <<session, pending, lock, at, snapshot, published>>

Publish(r) ==
    /\ \/ To(r, "publishing", "done") /\ (PublishSucceeds(r) \/ PublishTooLarge(r))
       \/ To(r, "publishing", "queuing") /\ PublishFails(r)
    /\ UNCHANGED <<session, pending, lock, at, snapshot>>

Queue(r) ==
    /\ To(r, "queuing", "done")
    /\ pending' = Queued(pending, r)
    /\ UNCHANGED <<session, lock, at, snapshot, published>>

-----------------------------------------------------------------------------
(* flush *)

(* _flush_loop asks every ten seconds, if it has reason to. *)
LoopAsks ==
    /\ at["loop"] = "idle"
    /\ pending # <<>> /\ IsConnected
    /\ at' = [at EXCEPT !["loop"] = "asked"]
    /\ UNCHANGED <<session, stage, pending, lock, snapshot, published>>

(* Mistake: two flushes at the same time. *)
BeginFlushUnlocked(f) ==
    /\ at[f] = "asked"
    /\ snapshot' = [snapshot EXCEPT ![f] = pending]
    /\ at' = [at EXCEPT ![f] = "publish"]
    /\ UNCHANGED <<session, stage, pending, lock, published>>

(* The lock is only tried: a flush under way makes this one return. *)
BeginFlush(f) ==
    /\ at[f] = "asked"
    /\ IF lock = "free" /\ pending # <<>>
       THEN /\ lock' = f
            /\ snapshot' = [snapshot EXCEPT ![f] = pending]
            /\ at' = [at EXCEPT ![f] = "publish"]
       ELSE /\ at' = [at EXCEPT ![f] = "idle"]
            /\ UNCHANGED <<lock, snapshot>>
    /\ UNCHANGED <<session, stage, pending, published>>

FlushPublish(f) ==
    /\ at[f] = "publish" /\ snapshot[f] # <<>>
    /\ LET r == Head(snapshot[f])
       IN  \/ /\ PublishSucceeds(r) \/ PublishTooLarge(r)
              /\ at' = [at EXCEPT ![f] = "remove"]
              /\ UNCHANGED snapshot
           \/ /\ PublishFails(r)
              /\ snapshot' = [snapshot EXCEPT ![f] = Tail(@)]
              /\ UNCHANGED at
    /\ UNCHANGED <<session, stage, pending, lock>>

(* Mistake: whatever waits under the key is removed. *)
FlushRemoveKey(f) ==
    /\ at[f] = "remove"
    /\ LET k == KeyOf[Head(snapshot[f])]
       IN  pending' = SelectSeq(pending, LAMBDA q : KeyOf[q] # k)
    /\ snapshot' = [snapshot EXCEPT ![f] = Tail(@)]
    /\ at' = [at EXCEPT ![f] = "publish"]
    /\ UNCHANGED <<session, stage, lock, published>>

(* Only the very object that was published leaves the queue: in the        *)
(* meantime a newer result may have taken its place.                       *)
FlushRemove(f) ==
    /\ at[f] = "remove"
    /\ LET r == Head(snapshot[f])
       IN  pending' = RemoveFirst(pending, r)
    /\ snapshot' = [snapshot EXCEPT ![f] = Tail(@)]
    /\ at' = [at EXCEPT ![f] = "publish"]
    /\ UNCHANGED <<session, stage, lock, published>>

(* Mistake: the lock is not released. *)
EndFlushLocked(f) ==
    /\ at[f] = "publish" /\ snapshot[f] = <<>>
    /\ at' = [at EXCEPT ![f] = "idle"]
    /\ UNCHANGED <<session, stage, pending, lock, snapshot, published>>

EndFlush(f) ==
    /\ at[f] = "publish" /\ snapshot[f] = <<>>
    /\ at' = [at EXCEPT ![f] = "idle"]
    /\ lock' = "free"
    /\ UNCHANGED <<session, stage, pending, snapshot, published>>

-----------------------------------------------------------------------------
(* The connection, as LightMQTTClient reports it; connecting submits the   *)
(* callback that flushes.                                                  *)
Connect ==
    /\ session = "down" /\ session' = "up"
    /\ at' = [at EXCEPT !["callback"] = IF @ = "idle" THEN "asked" ELSE @]
    /\ UNCHANGED <<stage, pending, lock, snapshot, published>>

Disconnect ==
    /\ \/ session = "up" /\ session' = "lost"
       \/ session = "lost" /\ session' = "down"
    /\ UNCHANGED <<stage, pending, lock, at, snapshot, published>>

Send(r) == CheckConnected(r) \/ Publish(r) \/ Queue(r)

FlushStep(f) == BeginFlush(f) \/ FlushPublish(f) \/ FlushRemove(f) \/ EndFlush(f)

Next == \/ \E r \in Results : Send(r)
        \/ LoopAsks
        \/ \E f \in Flushers : FlushStep(f)
        \/ Connect \/ Disconnect

(* The flush thread and the handler pool run until the bridge is stopped,  *)
(* and a thread that began to send goes on.                                *)
Fairness == /\ WF_vars(LoopAsks)
            /\ \A f \in Flushers : WF_vars(FlushStep(f))
            /\ \A r \in Results : WF_vars(Publish(r) \/ Queue(r))

Spec == Init /\ [][Next]_vars /\ Fairness

-----------------------------------------------------------------------------
Waiting == {pending[i] : i \in DOMAIN pending}
Published == {published[i] : i \in DOMAIN published}
Resolved(r) == r \in Published \cup TooLarge

(* A result is published at most once, by its sender or by a flusher, even *)
(* when two flushers are asked at the same time or a newer result of the   *)
(* request replaces it meanwhile; and no two waiting results share a key.  *)
PublishedOnce ==
    /\ \A i, j \in DOMAIN published : published[i] = published[j] => i = j
    /\ \A i, j \in DOMAIN pending : KeyOf[pending[i]] = KeyOf[pending[j]] => i = j

(* A result leaves the queue unpublished only for a result just queued:    *)
(* one of its own request, or one that found the queue full.  In           *)
(* particular a flush never removes a result it did not publish.           *)
OnlyNewDisplaces ==
    \A r \in Waiting \ Waiting' : Resolved(r) \/
       \E q \in Waiting' \ Waiting : \/ KeyOf[q] = KeyOf[r]
                                     \/ Len(pending) = Capacity

(* A safety result is lost only to another one of its request or when      *)
(* nothing but safety results waits.                                       *)
SafetyEvictedLast ==
    \A r \in (Waiting \ Waiting') \cap Safety :
      \/ Resolved(r)
      \/ \E q \in Waiting' : KeyOf[q] = KeyOf[r]
      \/ Waiting \subseteq Safety

(* Every step that takes a result out of the queue keeps to both.          *)
EvictionIsFair == [][OnlyNewDisplaces /\ SafetyEvictedLast]_vars

(* A connection that lasts empties the queue: a result that waits is       *)
(* published, or displaced by one that is.                                 *)
QueueDrains == <>[](session = "up") => []<>(pending = <<>>)
=============================================================================
