-------------------------- MODULE MCInitializers ---------------------------
(***************************************************************************)
(* Initializers for TLC: types in which every kind of object is part of    *)
(* every other, with one or two elements each.                             *)
(***************************************************************************)
EXTENDS Initializers

pair == Record("struct", <<Member("a", Scalar), Member("b", Scalar)>>)
choice == Record("union", <<Member("i", Scalar), Member("v", ArrayOf(Scalar, 2))>>)
unnamed ==
  Record("struct", <<Member("", Record("struct",
                       <<Member("a", Scalar), Member("", Record("struct", <<Member("b", Scalar)>>))>>)),
                     Member("c", Scalar)>>)
nested == Record("struct", <<Member("p", pair), Member("z", Scalar)>>)
either == Record("struct", <<Member("u", choice), Member("z", Scalar)>>)
text == Record("struct", <<Member("s", ArrayOf(Char, 3)), Member("u", choice), Member("z", Scalar)>>)
flexible == Record("struct", <<Member("n", Scalar), Member("a", ArrayOf(Scalar, -1))>>)

\* Three initializers show an override that a later list goes on from; two are
\* enough for what the larger types add.
Three == {nested, unnamed, flexible, ArrayOf(pair, -1), ArrayOf(Char, -1)}
Two == {text, either, ArrayOf(pair, 2), ArrayOf(ArrayOf(Scalar, 2), 2), ArrayOf(ArrayOf(Scalar, 2), -1),
        ArrayOf(choice, 2), ArrayOf(ArrayOf(Char, 3), -1)}
Objects == Two \cup Three
Bounds == [t \in Objects |-> IF t \in Three THEN 3 ELSE 2]
=============================================================================
