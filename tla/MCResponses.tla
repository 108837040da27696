----------------------------- MODULE MCResponses -----------------------------
(* Two results of one navigation request, two about e-stops and one too    *)
(* large, in a queue for two.                                              *)
EXTENDS Responses, TLC
CONSTANTS ack, final, stop, stop2, big
MCResults == {ack, final, stop, stop2, big}
MCKeys == {"move", "stop", "stop2", "map"}
MCKeyOf == (ack :> "move") @@ (final :> "move") @@ (stop :> "stop")
               @@ (stop2 :> "stop2") @@ (big :> "map")
MCEstop == {stop, stop2}
Acknowledged == MCResults
(* The second e-stop is reported by an error response. *)
OneError == MCResults \ {stop2}
MCTooLarge == {big}
=============================================================================
