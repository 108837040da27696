----------------------------- MODULE PlayerStates -----------------------------
(***************************************************************************)
(* What the camera player promises its user: the states it shows and       *)
(* whether it means to play.  Player implements this specification.        *)
(***************************************************************************)

VARIABLES state,  \* what the player shows
          wanted  \* it means to play

vars == <<state, wanted>>

Active == {"CONNECTING", "PLAYING", "RECONNECTING"}

Init == state = "IDLE" /\ wanted = FALSE

(* Started from rest, or given up on while reconnecting and started anew. *)
Start ==
    /\ state \in {"IDLE", "ERROR", "RECONNECTING"}
    /\ state' = "CONNECTING" /\ wanted' = TRUE

(* Video is shown only after a connection was being made. *)
Show ==
    /\ state \in {"CONNECTING", "RECONNECTING"}
    /\ state' = "PLAYING" /\ wanted' = wanted

Lose ==
    /\ state \in {"CONNECTING", "PLAYING"}
    /\ state' = "RECONNECTING" /\ wanted' = wanted

(* Failing gives up: a failed player does not mean to play. *)
Fail ==
    /\ state \in Active
    /\ state' = "ERROR" /\ wanted' = FALSE

Stop ==
    /\ state \in Active
    /\ state' = "IDLE" /\ wanted' = FALSE

Next == Start \/ Show \/ Lose \/ Fail \/ Stop

Spec == Init /\ [][Next]_vars
=============================================================================
