----------------------------- MODULE StringMap -----------------------------
(***************************************************************************)
(* What the compiler expects of a string-keyed table: a partial function   *)
(* from names to values in which the last store wins and a removed name is *)
(* gone.  HashMap implements it, exactly or with the weaker DeleteSome,    *)
(* depending on how the table is used.                                     *)
(***************************************************************************)
CONSTANTS
  Keys,   \* the names
  Vals,   \* what a name can be bound to
  NoVal   \* the answer for a name that is not in the table

VARIABLES
  dict,   \* the binding of every name
  op      \* the last request, so that a step is tied to its arguments

vars == <<dict, op>>

Init ==
  /\ dict = [k \in Keys |-> NoVal]
  /\ op = <<"none">>

\* Bind k to v, whatever k was bound to.
Put(k, v) ==
  /\ op' = <<"put", k, v>>
  /\ dict' = [dict EXCEPT ![k] = v]

\* k is gone.
Delete(k) ==
  /\ op' = <<"delete", k>>
  /\ dict' = [dict EXCEPT ![k] = NoVal]

\* The contract that is left when a removed name may come back with a value
\* it had before: only the bindings of the other names are promised.
DeleteSome(k) ==
  /\ op' = <<"delete", k>>
  /\ \E v \in Vals \cup {NoVal} : dict' = [dict EXCEPT ![k] = v]

Inserting == \E k \in Keys, v \in Vals : Put(k, v)

Spec      == Init /\ [][Inserting \/ \E k \in Keys : Delete(k)]_vars
WeakSpec  == Init /\ [][Inserting \/ \E k \in Keys : DeleteSome(k)]_vars
=============================================================================
