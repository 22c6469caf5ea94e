---------------------------- MODULE MCCallConv -----------------------------
(***************************************************************************)
(* CallConv for TLC: argument lists over the C types that the three loops  *)
(* tell apart.                                                             *)
(***************************************************************************)
EXTENDS CallConv

CONSTANT MaxArgs

Struct(n, f1, f2) == [kind |-> "struct", words |-> n, fp1 |-> f1, fp2 |-> f2, wide |-> FALSE]

long   == Pointer
double == [kind |-> "fp", words |-> 1, fp1 |-> TRUE, fp2 |-> TRUE, wide |-> FALSE]
longDouble == [kind |-> "ldouble", words |-> 2, fp1 |-> FALSE, fp2 |-> FALSE, wide |-> TRUE]
pair   == Struct(2, FALSE, FALSE)  \* struct { long a, b; }
mixed  == Struct(2, TRUE, FALSE)   \* struct { double a; long b; }
big    == Struct(3, FALSE, FALSE)  \* struct { long a, b, c; }
\* struct { long double a; long b; }
aligned == [Struct(4, FALSE, FALSE) EXCEPT !.wide = TRUE]

ListsOver(types) == UNION {[1..n -> types] : n \in 0..MaxArgs}

\* Scalars and structs of more than eight bytes, with long doubles in front only.
WideLists ==
  ListsOver({long, double, pair, mixed, big})
    \cup ListsOver({long, big, aligned})
    \cup {<<longDouble, longDouble>> \o l : l \in ListsOver({long, pair, big})}

=============================================================================
