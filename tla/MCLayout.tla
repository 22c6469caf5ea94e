------------------------------ MODULE MCLayout ------------------------------
(***************************************************************************)
(* Layout for TLC.                                                         *)
(***************************************************************************)
EXTENDS Layout

Whole(n, a) ==
  [size |-> n, align |-> a, unsigned |-> FALSE, width |-> NoWidth, named |-> TRUE]
Field(n, u, w) ==
  [size |-> n, align |-> n, unsigned |-> u, width |-> w, named |-> TRUE]
Unnamed(n, w) ==
  [size |-> n, align |-> n, unsigned |-> FALSE, width |-> w, named |-> FALSE]

MCDeclarators ==
  {Whole(1, 1), Whole(8, 8), Whole(3, 1), Whole(1, 4), Field(1, FALSE, 3), Field(2, TRUE, 9),
   Field(4, FALSE, 5), Field(4, TRUE, 30), Field(8, FALSE, 31), Unnamed(4, 0)}

\* All ones, and a pattern with ones where the widths above end.
MCValues == {Word, {0, 2, 4, 7, 8, 29, 31, 62}}
=============================================================================
