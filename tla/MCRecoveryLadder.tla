-------------------------- MODULE MCRecoveryLadder --------------------------
(* Two gentler levels and the reboot, one attempt each. *)
EXTENDS RecoveryLadder
MCMaxAttempts == [l \in 0 .. 2 |-> 1]
=============================================================================
