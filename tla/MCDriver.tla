------------------------------ MODULE MCDriver -----------------------------
(***************************************************************************)
(* Driver for TLC: every combination of the mode options and -o with every *)
(* list of up to MaxInputs inputs.                                         *)
(***************************************************************************)
EXTENDS Driver

CONSTANT MaxInputs

In(type, base) == [type |-> type, base |-> base]

AllInputs == {In("c", "foo"), In("c", "bar"), In("asm", "baz"), In("asm", "foo"),
              In("obj", "qux"), In("lib", "m"), In("unknown", "foo")}

InputLists == UNION {[1..n -> AllInputs] : n \in 1..MaxInputs}

AllCommands ==
  [opt_c : BOOLEAN, opt_s : BOOLEAN, opt_e : BOOLEAN, opt_x : {"none", "c", "asm"},
   opt_o : {None, <<"out">>}, inputs : InputLists]

OldOutputs == {<<"foo", ".o">>, <<"out">>}
=============================================================================
