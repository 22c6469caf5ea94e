----------------------------- MODULE MCHashMap -----------------------------
(***************************************************************************)
(* HashMap for TLC: names that share probe sequences, two of them at the   *)
(* end of the hash space or of the table, so that probing wraps around.    *)
(***************************************************************************)
EXTENDS HashMap

CONSTANTS a, b, c, d

MCHash == [k \in Keys |->
  CASE k = a -> 15
    [] k = b -> 7
    [] k = c -> 3
    [] OTHER -> 0]
=============================================================================
