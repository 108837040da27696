------------------------------ MODULE MCBridge ------------------------------
(* Pairs of messages for checking Bridge. *)
EXTENDS Bridge, TLC
CONSTANTS m1, m2, move, stop, read

MCPayloads == {"ack", "error", "final"}

Two == {m1, m2}
AllIds == {move, stop, read}
AllKinds == (move :> "command") @@ (stop :> "estop") @@ (read :> "service")

(* A redelivered command or service request, and a command beside an      *)
(* e-stop or a service request.                                           *)
Pairs == {(m1 :> move) @@ (m2 :> move), (m1 :> read) @@ (m2 :> read),
          (m1 :> move) @@ (m2 :> stop), (m1 :> read) @@ (m2 :> move)}

(* Two permits: a command meets its own watcher; one: they run out. *)
MCWatcherSlots == [d \in Deliveries |-> IF d[m1] = d[m2] THEN 2 ELSE 1]

SameCommand == {(m1 :> move) @@ (m2 :> move)}
=============================================================================
