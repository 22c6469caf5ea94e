----------------------------- MODULE MCIntExpr -----------------------------
(***************************************************************************)
(* IntExpr for TLC: widths that keep the order of the real ones.           *)
(***************************************************************************)
EXTENDS IntExpr

MCBits == [s \in {1, 2, 4, 8} |-> CASE s = 1 -> 2 [] s = 2 -> 3 [] s = 4 -> 4 [] s = 8 -> 6]

\* The ends of each type's range and what is next to zero.
Least(t)    == IF IsUnsigned(t) \/ t = "bool" THEN 0 ELSE -(2^(MCBits[Size(t)] - 1))
Greatest(t) == IF t = "bool" THEN 1
               ELSE IF IsUnsigned(t) THEN 2^MCBits[Size(t)] - 1 ELSE 2^(MCBits[Size(t)] - 1) - 1
MCValues == [t \in Types |-> {Least(t), 1, Greatest(t)} \cup ({-1, 2} \cap Least(t)..Greatest(t))]
=============================================================================
