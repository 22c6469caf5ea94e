--------------------------- MODULE Initializers ----------------------------
(***************************************************************************)
(* Initializers (src/src/parse.rs).  An initializer is read by functions   *)
(* that call each other along the type (initializer2, array_initializer1   *)
(* and 2, struct_initializer1 and 2, union_initializer, designation), and  *)
(* guess from the next token whether braces were left out.  They fill a    *)
(* tree, from which static data or assignments to a local are made.        *)
(*                                                                         *)
(* The C standard says the same with a cursor: each brace-enclosed list    *)
(* has a current subobject, a designator moves it, and an initializer      *)
(* without braces goes down from it to the first scalar.  An initializer   *)
(* grows here one item at a time under the rules of C, which note what     *)
(* each object should receive (meant); when its last brace is closed, the  *)
(* compiler reads it.                                                      *)
(*                                                                         *)
(* A subobject is the path to it: array indices from 0, positions of       *)
(* members from 1.  The "=" after a designator may be left out and is.     *)
(***************************************************************************)
EXTENDS Integers, Sequences, SequencesExt, FiniteSets, FiniteSetsExt, TLC

CONSTANTS
  Types,       \* the types of the object initialized
  MaxItems,    \* for each of them, the initializers without braces in one
  MaxNesting,  \* lists open at once
  Indices,     \* the indices designated in an array of unknown size
  Lengths,     \* the sizes of string literals, null byte included
  Shorthand,   \* may a list go on after a designator that ends inside a struct?
  Leftovers    \* is what a new list or string for the same object leaves looked at?

(***************************************************************************)
(* Types.  An array of unknown size has length -1.                         *)
(***************************************************************************)
Scalar == [kind |-> "scalar"]
Char == [kind |-> "char"]
ArrayOf(base, len) == [kind |-> "array", base |-> base, len |-> len]
Record(kind, members) == [kind |-> kind, members |-> members]
Member(name, type) == [name |-> name, type |-> type]

IsScalar(t) == t.kind \in {"scalar", "char"}
IsString(t) == t.kind = "array" /\ t.base = Char
Part(t, k) == IF t.kind = "array" THEN t.base ELSE t.members[k].type
LastMember(t, k) == k = Len(t.members)

RECURSIVE TypeAt(_, _)
TypeAt(t, path) == IF path = <<>> THEN t ELSE TypeAt(Part(t, Head(path)), Tail(path))

VARIABLES
  type,     \* the type of the object
  toks,     \* the initializer so far
  lists,    \* the open lists, innermost last
  items,    \* initializers given
  meant,    \* C: what the subobjects given an initializer receive
  stale,    \* C: those that a list or string for all they are in took it from again
  entered,  \* C: the members of unions that were initialized
  init      \* what the compiler has read: its tree, and where it stopped

vars == <<type, toks, lists, items, meant, stale, entered, init>>

(***************************************************************************)
(* The compiler's tree: the expressions and chosen union members by path,  *)
(* and the lengths found for arrays of unknown size.                       *)
(***************************************************************************)
Empty == [x \in {} |-> 0]
NewInitializer == [expr |-> Empty, mem |-> Empty, len |-> Empty]

LenAt(s, path, t) == IF path \in DOMAIN s.len THEN s.len[path] ELSE t.len
SetExpr(s, path, v) == [s EXCEPT !.expr = (path :> v) @@ @]
SetMember(s, path, k) == [s EXCEPT !.mem = (path :> k) @@ @]

(***************************************************************************)
(* Reading tokens.  A position of 0 stands for an error: no token is       *)
(* there, so that whatever is tried next fails as well.                    *)
(***************************************************************************)
Tok(p) == IF p \in DOMAIN toks THEN toks[p].k ELSE "none"
Skip(p, k) == IF Tok(p) = k THEN p + 1 ELSE 0
Consume(p, k) == IF Tok(p) = k THEN p + 1 ELSE p
Assign(p) == IF Tok(p) \in {"expr", "string", "struct"} THEN p + 1 ELSE 0
IsEnd(p) == Tok(p) = "}" \/ (Tok(p) = "," /\ Tok(p + 1) = "}")
ConsumeEnd(p) == IF Tok(p) = "}" THEN p + 1 ELSE p + 2

At(p, s) == [at |-> p, s |-> s]

\* get_struct_member, and struct_designator, which leaves the designator
\* unread for an unnamed struct that has the name.
RECURSIVE Has(_, _)
Has(t, name) ==
  \E k \in DOMAIN t.members :
    \/ t.members[k].name = name
    \/ t.members[k].name = "" /\ Has(t.members[k].type, name)

struct_designator(t, p) ==
  LET fits(k) ==
        \/ t.members[k].name = toks[p].name
        \/ /\ t.members[k].name = "" /\ t.members[k].type.kind = "struct"
           /\ Has(t.members[k].type, toks[p].name)
      k == SelectInSeq([j \in DOMAIN t.members |-> fits(j)], LAMBDA b : b)
  IN  [k |-> k, at |-> IF k = 0 THEN 0 ELSE IF t.members[k].name = "" THEN p ELSE p + 1]

\* string_initializer: the terminating null byte is written if it fits.  An
\* array of anything but characters is a panic.
string_initializer(p, path, t, s) ==
  LET len == IF LenAt(s, path, t) < 0 THEN toks[p].len ELSE LenAt(s, path, t)
      set == {Append(path, j) : j \in 0..(Min({len, toks[p].len}) - 1)}
  IN  At(IF IsString(t) THEN p + 1 ELSE 0,
         [s EXCEPT !.expr = [q \in set |-> <<toks[p].value, Last(q)>>] @@ @,
                   !.len = IF t.len < 0 THEN (path :> len) @@ @ ELSE @])

skip_excess_element[p \in Nat] ==
  IF Tok(p) = "{" THEN Skip(skip_excess_element[p + 1], "}") ELSE Assign(p)

RECURSIVE initializer2(_, _, _, _), designation(_, _, _, _), ArrayTail(_, _, _, _, _),
          StructTail(_, _, _, _, _, _), ArrayList(_, _, _, _, _, _),
          StructList(_, _, _, _, _, _), Designated(_, _, _, _, _), Count(_, _, _, _, _)

\* count_array_init_elements: the elements are read into one dummy.
Count(p, t, i, max, first) ==
  IF p = 0 THEN -1
  ELSE IF IsEnd(p) THEN max
  ELSE LET q == IF first THEN p ELSE Skip(p, ",")
           end == IF Tok(q) = "[" THEN toks[q].to ELSE i
           r == IF Tok(q) = "[" THEN designation(q + 1, <<>>, t.base, NewInitializer)
                ELSE IF Tok(q) = "." /\ t.base.kind = "struct"
                THEN designation(q, <<>>, t.base, NewInitializer)
                ELSE initializer2(q, <<>>, t.base, NewInitializer)
       IN  Count(r.at, t, end + 1, Max({max, end + 1}), FALSE)

materialize(p, path, t, s) ==
  IF LenAt(s, path, t) >= 0 THEN s
  ELSE [s EXCEPT !.len = (path :> Count(p, t, 0, 0, TRUE)) @@ @]

\* The elements from..to are read from the same tokens, one after the other.
Designated(p, path, t, s, j) ==
  LET r == designation(p + 1, Append(path, j), t.base, s) IN
  IF r.at # 0 /\ j < toks[p].to THEN Designated(p, path, t, r.s, j + 1) ELSE r

\* The loop of array_initializer1.
ArrayList(p, path, t, s, i, first) ==
  IF p = 0 THEN At(0, s)
  ELSE IF IsEnd(p) THEN At(ConsumeEnd(p), s)
  ELSE LET q == IF first THEN p ELSE Skip(p, ",") IN
       IF Tok(q) = "["
         THEN LET r == Designated(q, path, t, s, toks[q].from)
              IN  ArrayList(r.at, path, t, r.s, toks[q].to + 1, FALSE)
       ELSE IF i < LenAt(s, path, t)
         THEN LET r == initializer2(q, Append(path, i), t.base, s)
              IN  ArrayList(r.at, path, t, r.s, i + 1, FALSE)
       ELSE ArrayList(skip_excess_element[q], path, t, s, i + 1, FALSE)

array_initializer1(p, path, t, s) ==
  ArrayList(p + 1, path, t, materialize(p + 1, path, t, s), 0, TRUE)

\* Seeded fault: a designator for an array of an enclosing list is not seen.
ArrayTailBlind(p, path, t, s, i) ==
  IF p = 0 \/ i >= LenAt(s, path, t) \/ IsEnd(p) THEN At(p, s)
  ELSE LET q == IF i > 0 THEN Skip(p, ",") ELSE p IN
       IF Tok(q) = "." THEN At(p, s)
       ELSE LET r == initializer2(q, Append(path, i), t.base, s)
            IN  ArrayTail(r.at, path, t, r.s, i + 1)

\* The loop of array_initializer2; a designator belongs to an enclosing list.
ArrayTail(p, path, t, s, i) ==
  IF p = 0 \/ i >= LenAt(s, path, t) \/ IsEnd(p) THEN At(p, s)
  ELSE LET q == IF i > 0 THEN Skip(p, ",") ELSE p IN
       IF Tok(q) \in {"[", "."} THEN At(p, s)
       ELSE LET r == initializer2(q, Append(path, i), t.base, s)
            IN  ArrayTail(r.at, path, t, r.s, i + 1)

array_initializer2(p, path, t, s, i) == ArrayTail(p, path, t, materialize(p, path, t, s), i)

\* Seeded fault: a designator does not move the list on.
StructListStays(p, path, t, s, k, first) ==
  IF p = 0 THEN At(0, s)
  ELSE IF IsEnd(p) THEN At(ConsumeEnd(p), s)
  ELSE LET q == IF first THEN p ELSE Skip(p, ",")
           d == IF Tok(q) = "." THEN struct_designator(t, q) ELSE [k |-> k, at |-> q]
           r == designation(d.at, Append(path, d.k), Part(t, d.k), s)
       IN  IF d.k \in DOMAIN t.members
             THEN StructList(r.at, path, t, r.s, IF Tok(q) = "." THEN k ELSE k + 1, FALSE)
           ELSE StructList(skip_excess_element[q], path, t, s, k, FALSE)

\* The loop of struct_initializer1; k is one past the last member when none
\* is left.
StructList(p, path, t, s, k, first) ==
  IF p = 0 THEN At(0, s)
  ELSE IF IsEnd(p) THEN At(ConsumeEnd(p), s)
  ELSE LET q == IF first THEN p ELSE Skip(p, ",") IN
       IF Tok(q) = "."
         THEN LET d == struct_designator(t, q)
                  r == designation(d.at, Append(path, d.k), Part(t, d.k), s)
              IN  IF d.k = 0 THEN At(0, s) ELSE StructList(r.at, path, t, r.s, d.k + 1, FALSE)
       ELSE IF k <= Len(t.members)
         THEN LET r == initializer2(q, Append(path, k), Part(t, k), s)
              IN  StructList(r.at, path, t, r.s, k + 1, FALSE)
       ELSE StructList(skip_excess_element[q], path, t, s, k, FALSE)

\* The loop of struct_initializer2.
StructTail(p, path, t, s, k, first) ==
  IF p = 0 \/ k > Len(t.members) \/ IsEnd(p) THEN At(p, s)
  ELSE LET q == IF first THEN p ELSE Skip(p, ",") IN
       IF Tok(q) \in {"[", "."} THEN At(p, s)
       ELSE LET r == initializer2(q, Append(path, k), Part(t, k), s)
            IN  StructTail(r.at, path, t, r.s, k + 1, FALSE)

\* designation, at what follows one designator: another, or the initializer.
\* A struct that was given an expression as a whole drops it.  An array whose
\* size is not known yet has no elements: a panic.
designation(p, path, t, s) ==
  IF Tok(p) = "["
    THEN LET r == Designated(p, path, t, s, toks[p].from) IN
         IF t.kind # "array" \/ LenAt(s, path, t) < 0 THEN At(0, s)
         ELSE array_initializer2(r.at, path, t, r.s, toks[p].from + 1)
  ELSE IF Tok(p) = "."
    THEN LET d == struct_designator(t, p)
             r == designation(d.at, Append(path, d.k), Part(t, d.k), s)
             dropped == [r.s EXCEPT !.expr = [q \in DOMAIN @ \ {path} |-> @[q]]]
             u == designation(d.at, Append(path, d.k), Part(t, d.k), SetMember(s, path, d.k))
         IN  IF t.kind \notin {"struct", "union"} \/ d.k = 0 THEN At(0, s)
             ELSE IF t.kind = "union" THEN u
             ELSE StructTail(r.at, path, t, dropped, d.k + 1, TRUE)
  ELSE initializer2(p, path, t, s)

union_initializer(p, path, t, s) ==
  IF Tok(p) = "{" /\ Tok(p + 1) = "."
    THEN LET d == struct_designator(t, p + 1)
             r == designation(d.at, Append(path, d.k), Part(t, d.k), SetMember(s, path, d.k))
         IN  IF d.k = 0 THEN At(0, s) ELSE At(Skip(r.at, "}"), r.s)
  ELSE LET first == SetMember(s, path, 1)
           r == initializer2(Consume(p, "{"), Append(path, 1), Part(t, 1), first)
       IN  IF Tok(p) = "{" THEN At(Skip(Consume(r.at, ","), "}"), r.s) ELSE r

initializer2(p, path, t, s) ==
  CASE t.kind = "array" ->
         IF Tok(p) = "string" THEN string_initializer(p, path, t, s)
         ELSE IF Tok(p) = "{" THEN array_initializer1(p, path, t, s)
         ELSE array_initializer2(p, path, t, s, 0)
    [] t.kind = "struct" ->
         IF Tok(p) = "{" THEN StructList(p + 1, path, t, s, 1, TRUE)
         ELSE IF Tok(p) = "struct" THEN At(p + 1, SetExpr(s, path, <<toks[p].value, 0>>))
         ELSE IF Assign(p) = 0 THEN At(0, s)
         ELSE StructTail(p, path, t, s, 1, TRUE)
    [] t.kind = "union" -> union_initializer(p, path, t, s)
    [] IsScalar(t) ->
         IF Tok(p) = "{"
           THEN LET r == initializer2(p + 1, path, t, s) IN At(Skip(r.at, "}"), r.s)
         ELSE IF Assign(p) = 0 THEN At(0, s)
         ELSE At(p + 1, SetExpr(s, path, <<toks[p].value, 0>>))

Children(path, t, s) ==
  CASE t.kind = "array"  -> {Append(path, j) : j \in 0..(LenAt(s, path, t) - 1)}
    [] t.kind = "struct" -> {Append(path, k) : k \in DOMAIN t.members}
    [] OTHER             -> {}

OfExpr(path, s) == IF path \in DOMAIN s.expr THEN {<<path, s.expr[path]>>} ELSE {}

\* write_gvar_data: what static data receives.  A union none of whose members
\* was initialized stays zero.
RECURSIVE write_gvar_data(_, _, _)
write_gvar_data(path, t, s) ==
  CASE IsScalar(t) -> OfExpr(path, s)
    [] t.kind = "union" ->
         IF path \notin DOMAIN s.mem THEN {}
         ELSE LET k == s.mem[path] IN write_gvar_data(Append(path, k), Part(t, k), s)
    [] OTHER ->
         UNION {write_gvar_data(q, Part(t, Last(q)), s) : q \in Children(path, t, s)}

RECURSIVE create_lvar_init(_, _, _)

\* Seeded fault: a local union is assigned its first member.
create_lvar_init_first(path, t, s) ==
  CASE IsScalar(t) -> OfExpr(path, s)
    [] t.kind = "union" -> create_lvar_init(Append(path, 1), Part(t, 1), s)
    [] t.kind = "struct" /\ path \in DOMAIN s.expr -> OfExpr(path, s)
    [] OTHER ->
         UNION {create_lvar_init(q, Part(t, Last(q)), s) : q \in Children(path, t, s)}

\* create_lvar_init: the assignments that follow the zeroing of a local.
create_lvar_init(path, t, s) ==
  CASE IsScalar(t) -> OfExpr(path, s)
    [] t.kind = "union" ->
         LET k == IF path \in DOMAIN s.mem THEN s.mem[path] ELSE 1
         IN  create_lvar_init(Append(path, k), Part(t, k), s)
    [] t.kind = "struct" /\ path \in DOMAIN s.expr -> OfExpr(path, s)
    [] OTHER ->
         UNION {create_lvar_init(q, Part(t, Last(q)), s) : q \in Children(path, t, s)}

(***************************************************************************)
(* The initializer, by the rules of C.  A list is for one object, or for   *)
(* the elements of a range alike: at holds their paths.  Its cursor, next, *)
(* is a path from there.                                                   *)
(***************************************************************************)
NoneLeft == <<-1>>
FirstPart(t) == IF t.kind = "array" THEN 0 ELSE 1

\* The subobject after one: its next sibling, or its parent's.
RECURSIVE Successor(_, _)
Successor(t, path) ==
  IF path = <<>> THEN NoneLeft
  ELSE LET parent == TypeAt(t, Front(path))
           more == \/ parent.kind = "array" /\ (parent.len < 0 \/ Last(path) + 1 < parent.len)
                   \/ parent.kind = "struct" /\ ~LastMember(parent, Last(path))
       IN  IF more THEN Append(Front(path), Last(path) + 1) ELSE Successor(t, Front(path))

\* From a subobject down to the first one that an initializer of this kind can
\* be for when it has no braces; NoneLeft if there is none, or the compiler
\* does not look there (README section 4).
RECURSIVE Down(_, _)
Down(t, kind) ==
  LET stop == CASE kind = "expr"   -> IsScalar(t)
                [] kind = "string" -> IsString(t)
                [] kind = "struct" -> t.kind = "struct"
      below == Down(Part(t, FirstPart(t)), kind)
  IN  IF stop THEN <<>>
      ELSE IF IsScalar(t) \/ (kind = "string" /\ t.kind = "array") \/ below = NoneLeft THEN NoneLeft
      ELSE <<FirstPart(t)>> \o below

\* The members a designator may name, those of unnamed structs included.
RECURSIVE Names(_)
Names(t) ==
  UNION {IF t.members[k].name # "" THEN {<<t.members[k].name, <<k>>>>}
         ELSE IF t.members[k].type.kind = "struct"
           THEN {<<m[1], <<k>> \o m[2]>> : m \in Names(t.members[k].type)}
         ELSE {} : k \in DOMAIN t.members}

\* Designators: their tokens, the subobjects designated, and the last of them.
Designators(t) ==
  CASE t.kind = "array" ->
         LET bounds == IF t.len < 0 THEN Indices ELSE 0..(t.len - 1) IN
         {[toks |-> <<[k |-> "[", from |-> b[1], to |-> b[2]]>>,
           all |-> {<<j>> : j \in b[1]..b[2]}, last |-> <<b[2]>>] :
            b \in {c \in bounds \X bounds : c[1] <= c[2]}}
    [] IsScalar(t) -> {}
    [] OTHER ->
         {[toks |-> <<[k |-> ".", name |-> m[1]]>>, all |-> {m[2]}, last |-> m[2]] :
            m \in Names(t)}

\* One or two of them.  A range stands alone: what follows one that is nested
\* or goes deeper no standard says, and the compiler reads it once per element.
Chains(t) ==
  LET One(u) == {e \in Designators(u) : e.all = {e.last}} IN
  Designators(t) \cup
    UNION {{[toks |-> d.toks \o e.toks, last |-> d.last \o e.last, all |-> {d.last \o e.last}] :
              e \in One(TypeAt(t, d.last))} : d \in One(t)}

\* The unions above a subobject, each with the member it is in.
Alternatives(path) ==
  {<<SubSeq(path, 1, j - 1), path[j]>> :
     j \in {k \in DOMAIN path : TypeAt(type, SubSeq(path, 1, k - 1)).kind = "union"}}

\* Are they in different members of a union?
Apart(path, r) ==
  \E c \in Alternatives(path), d \in Alternatives(r) : c[1] = d[1] /\ c[2] # d[2]

\* Initializing a subobject overrides the other members of the unions above
\* it, and the expression given to a struct it is part of.
Overridden(path) == {r \in DOMAIN meant : IsStrictPrefix(r, path) \/ Apart(path, r)}

\* What had been given to these subobjects, or to parts of them.
Within(paths) == {r \in DOMAIN meant : \E q \in paths : IsPrefix(q, r)}

\* An initializer for all of each of these subobjects, with the values it has for
\* them or for their parts.  It overrides every earlier one for any part.
Give(wholes, values) ==
  LET gone == Within(wholes) \cup UNION {Overridden(q) : q \in DOMAIN values}
  IN  /\ meant' = values @@ [q \in DOMAIN meant \ gone |-> meant[q]]
      /\ stale' = (stale \cup Within(wholes)) \ DOMAIN values

(***************************************************************************)
(* Initializers left out because the compiler is known to get them wrong   *)
(* (README section 4).                                                     *)
(***************************************************************************)
\* Going back to a member of a union after another.
Retaken(path) ==
  \E c \in Alternatives(path) :
    c \in entered /\ \A r \in DOMAIN meant : ~IsPrefix(Append(c[1], c[2]), r)

\* Braces, or an initializer without a designator, for part of a struct that
\* was given an expression.
Covered(d, a, path) ==
  \E r \in DOMAIN meant :
    /\ IsStrictPrefix(r, path)
    /\ d.toks = <<>> \/ r = a \/ ~IsStrictPrefix(r, a \o d.last)

\* A list or a string for an object of which a part was initialized, and is not
\* again: it is zero, but the compiler keeps the old initializer.
Leftover == \E r \in stale : \A q \in DOMAIN meant : ~Apart(q, r)

\* A list that goes on after .s.a, a not being the last member of s.
EndsInside(t, d) ==
  d.toks # <<>> /\ \E j \in 2..Len(d.last) :
    LET parent == TypeAt(t, SubSeq(d.last, 1, j - 1))
    IN  parent.kind = "struct" /\ ~LastMember(parent, d.last[j])

\* A designator for an element of an array of unknown size from outside of it,
\* or any after that array was initialized.
Unsized(t, d) ==
  /\ d.toks # <<>> /\ t.kind = "struct"
  /\ LET k == Len(t.members) IN
     /\ Part(t, k).kind = "array" /\ Part(t, k).len < 0
     /\ \/ d.last[1] = k /\ Len(d.last) > 1
        \/ \E r \in DOMAIN meant : IsPrefix(<<k>>, r)

(***************************************************************************)
(* The items of the innermost list.                                        *)
(***************************************************************************)
List == Last(lists)
OpenList(at, t) ==
  [at |-> at, type |-> t, next |-> IF IsScalar(t) THEN <<>> ELSE <<FirstPart(t)>>,
   some |-> FALSE, dot |-> FALSE, shut |-> FALSE]

Comma == IF List.some THEN <<[k |-> ","]>> ELSE <<>>

More == items < MaxItems[type] /\ lists # <<>> /\ ~List.shut

\* What the next item can be for: what it designates, or what the cursor is at.
Targets ==
  LET designated == IF List.type.kind = "union" /\ List.some THEN {} ELSE Chains(List.type)
      current == [toks |-> <<>>, all |-> {List.next}, last |-> List.next]
  IN  {d \in designated \cup {current} : d.last # NoneLeft /\ ~Unsized(List.type, d)}

\* The list once an item has been given for the subobject at last.
After(d, last) ==
  [List EXCEPT !.next = Successor(List.type, last), !.some = TRUE,
               !.dot = @ \/ (~List.some /\ d.toks # <<>>),
               !.shut = ~Shorthand /\ EndsInside(List.type, d)]

\* An initializer without braces: what each subobject receives.  A value is
\* the number of its initializer, and the byte if that is a string.
Values(kind, paths, t, len) ==
  IF kind # "string" THEN [q \in paths |-> <<items, 0>>]
  ELSE LET stored == IF t.len < 0 THEN len ELSE Min({len, t.len})
       IN  [q \in {Append(p, j) : p \in paths, j \in 0..(stored - 1)} |-> <<items, Last(q)>>]

Initializer(kind, len) ==
  \E d \in Targets :
    LET t == TypeAt(List.type, d.last)
        down == Down(t, kind)
        wholes == {a \o p \o down : a \in List.at, p \in d.all}
        given == Values(kind, wholes, TypeAt(t, down), len)
    IN  /\ down # NoneLeft
        /\ Cardinality(d.all) > 1 => down = <<>>
        /\ \A q \in DOMAIN given : ~Retaken(q)
        /\ \A a \in List.at, q \in DOMAIN given : IsPrefix(a, q) => ~Covered(d, a, q)
        /\ kind = "struct" => \A q \in DOMAIN given, r \in DOMAIN meant : ~IsStrictPrefix(q, r)
        /\ Give(wholes, given)
        /\ entered' = entered \cup UNION {Alternatives(q) : q \in DOMAIN given}
        /\ toks' = toks \o Comma \o d.toks \o <<[k |-> kind, value |-> items, len |-> len]>>
        /\ lists' = Append(Front(lists), After(d, d.last \o down))
        /\ items' = items + 1
        /\ UNCHANGED <<type, init>>

Begin ==
  /\ toks = <<>>
  /\ toks' = <<[k |-> "{"]>> /\ lists' = <<OpenList({<<>>}, type)>>
  /\ UNCHANGED <<type, items, meant, stale, entered, init>>

\* A string for the whole object.
BeginString ==
  /\ toks = <<>> /\ IsString(type)
  /\ \E len \in Lengths :
       /\ meant' = Values("string", {<<>>}, type, len)
       /\ toks' = <<[k |-> "string", value |-> items, len |-> len]>>
  /\ items' = items + 1
  /\ UNCHANGED <<type, lists, stale, entered, init>>

Expression == More /\ Initializer("expr", 1)
StringLiteral == More /\ \E len \in Lengths : Initializer("string", len)
StructValue == More /\ Initializer("struct", 1)

\* An expression more than the object has room for.
Excess ==
  /\ More /\ List.next = NoneLeft /\ List.type.kind \in {"array", "struct"}
  /\ toks' = toks \o Comma \o <<[k |-> "expr", value |-> items, len |-> 1]>>
  /\ items' = items + 1
  /\ UNCHANGED <<type, lists, meant, stale, entered, init>>

\* A list of its own overrides all that was given to a subobject before.
Open ==
  /\ More /\ Len(lists) < MaxNesting /\ ~IsScalar(List.type)
  /\ \E d \in Targets :
       LET t == TypeAt(List.type, d.last)
           at == {a \o p : a \in List.at, p \in d.all}
       IN  /\ \A a \in List.at, q \in at : IsPrefix(a, q) => ~Covered(d, a, q)
           /\ t.kind = "struct" => at \cap DOMAIN meant = {}
           /\ meant' = [q \in DOMAIN meant \ (Within(at) \cup UNION {Overridden(p) : p \in at}) |->
                          meant[q]]
           /\ stale' = stale \cup Within(at)
           /\ entered' = {c \in entered : \A p \in at : ~IsPrefix(p, c[1])}
                            \cup UNION {Alternatives(p) : p \in at}
           /\ toks' = toks \o Comma \o d.toks \o <<[k |-> "{"]>>
           /\ lists' = Front(lists) \o <<After(d, d.last), OpenList(at, t)>>
  /\ UNCHANGED <<type, items, init>>

\* A comma may end a list, one per initializer here; the compiler does not
\* expect it after the initializer of a scalar or of a designated member of a
\* union.
Close ==
  /\ lists # <<>> /\ List.some
  /\ \/ toks' = Append(toks, [k |-> "}"])
     \/ /\ ~IsScalar(List.type) /\ ~(List.type.kind = "union" /\ List.dot)
        /\ \A j \in DOMAIN toks : toks[j].k = "," => Tok(j + 1) # "}"
        /\ toks' = toks \o <<[k |-> ","], [k |-> "}"]>>
  /\ lists' = Front(lists)
  /\ UNCHANGED <<type, items, meant, stale, entered, init>>

Complete == toks # <<>> /\ lists = <<>>

\* The compiler reads it.
Read ==
  /\ Complete /\ init.at = 0
  /\ init' = initializer2(1, <<>>, type, NewInitializer)
  /\ UNCHANGED <<type, toks, lists, items, meant, stale, entered>>

Init ==
  /\ type \in Types
  /\ toks = <<>> /\ lists = <<>> /\ items = 0
  /\ meant = Empty /\ stale = {} /\ entered = {}
  /\ init = At(0, NewInitializer)

Next ==
  \/ Begin \/ BeginString \/ Expression \/ StringLiteral \/ StructValue \/ Excess
  \/ Open \/ Close \/ Read

Spec == Init /\ [][Next]_vars
-----------------------------------------------------------------------------
(***************************************************************************)
(* Properties.                                                             *)
(***************************************************************************)
HasRead == Complete /\ init # At(0, NewInitializer)
Pairs(f) == {<<q, f[q]>> : q \in DOMAIN f}

\* The compiler accepts the initializer and reads it to its end: whatever was
\* nested, designated or left without braces, each function stopped where the
\* one that called it goes on.
ReadToTheEnd == HasRead => init.at = Len(toks) + 1

\* An object in static storage holds what C says, each scalar from the last
\* initializer for it or for what it is part of, and zero where that has none.
StaticAsC ==
  HasRead /\ (Leftovers \/ ~Leftover) /\ (\A j \in DOMAIN toks : toks[j].k # "struct") =>
    write_gvar_data(<<>>, type, init.s) = Pairs(meant)

\* A local object is assigned what C says after it was zeroed, expressions for
\* whole structs included.
LocalAsC ==
  HasRead /\ (Leftovers \/ ~Leftover) =>
    create_lvar_init(<<>>, type, init.s) = Pairs(meant)

\* An array of unknown size becomes as long as its largest initialized index
\* demands, though its initializer is read before there are elements to read
\* it into.
LengthAsC ==
  HasRead => \A path \in DOMAIN init.s.len :
    init.s.len[path] = 1 + Max({q[Len(path) + 1] : q \in {r \in DOMAIN meant : IsStrictPrefix(path, r)}})

\* The tokens are divided among the subobjects as in C, and so is their number.
ReadAsC == ReadToTheEnd /\ LengthAsC
=============================================================================
