--------------------------- MODULE MCCommandDedup ---------------------------
(* The deduplicator on three identifiers with room for two outcomes, so    *)
(* that storing evicts and sentinels overshoot the limit.                  *)
EXTENDS CommandDedup
CONSTANTS c1, c2, c3, ok, ko
MCIds == {c1, c2, c3}
MCPayloads == {ok, ko}
=============================================================================
