------------------------------- MODULE Linkage -----------------------------
(***************************************************************************)
(* Names from the parser to the assembler: the declarations of             *)
(* src/src/parse.rs (global_variable, function, declaration, find_var),    *)
(* then mark_live_globals and scan_globals, and what emit_assembly of      *)
(* src/src/codegen.rs makes of the list they leave.                        *)
(*                                                                         *)
(* A program is any order of declarations, blocks and mentions of a name   *)
(* that C allows.  Beside the code's scope_stack stands C's (cscopes),     *)
(* where declarations with linkage are bound too; the code finds those in  *)
(* globals.  Functions and Variables are the names with linkage; any name  *)
(* can also be a local's or a typedef's.                                   *)
(***************************************************************************)
EXTENDS Naturals, SequencesExt, FiniteSetsExt

CONSTANTS
  Functions, Variables,
  Dialects,   \* kinds of programs
  Items,      \* the declarations and mentions that programs of a kind are made of
  MaxItems,   \* how many of them one program of a kind has
  alloca,     \* the builtin's name
  Repeats     \* may an object be declared twice without initializer?

Names == Functions \cup Variables

ASSUME NamesAssumption ==
  /\ Functions \cap Variables = {} /\ Names \cap Nat = {}
  /\ alloca \notin Names \cup Nat
ASSUME BoundsAssumption ==
  (\A d \in Dialects : MaxItems[d] \in Nat) /\ Dialects \subseteq DOMAIN Items /\ Repeats \in BOOLEAN

\* Functions are declared as functions and objects as objects; one name at most
\* occurs in an initializer; and no declaration is extern with an initializer.
ASSUME ItemsAssumption ==
  \A d \in Dialects : \A it \in Items[d] :
    /\ it.name \in Names /\ it.with \subseteq Names /\ it.given \in BOOLEAN
    /\ it.op \in {"prototype", "function"} => it.name \in Functions
    /\ it.op = "variable" => it.name \in Variables /\ ~(it.given /\ "extern" \in it.attr)
    /\ it.op \in {"variable", "static local"} => \A m, n \in it.with : m = n

VARIABLES
  globals,    \* the list of Obj
  scopes,     \* scope_stack, innermost last
  parsing,    \* PARSING_FN, or 0
  phase,
  next,       \* where the loop of mark_live_globals is
  pending,    \* the names mark_live still has to be called with, innermost call first
  asm,        \* the symbols defined by the output
  dialect,    \* the kind of program
  items,      \* how long it is
  cscopes,    \* C's scopes
  croots,     \* the functions that are needed whatever calls them
  crefs,      \* who mentions whom, as C understands it
  agreed      \* has every mention been understood as in C?

code == <<globals, scopes, parsing, phase, next, pending, asm>>
history == <<dialect, items, cscopes, croots, crefs, agreed>>
vars == <<code, history>>

-----------------------------------------------------------------------------
\* Objects and scopes.

\* new_gvar
Object(name) ==
  [name |-> name, fn |-> FALSE, def |-> TRUE, tent |-> FALSE, static |-> TRUE,
   tls |-> FALSE, given |-> FALSE, root |-> FALSE, live |-> FALSE, refs |-> <<>>]

\* new_anon_gvar: numbered, never mentioned by name.
Anonymous(gs) == [Object(Len(gs) + 1) EXCEPT !.static = FALSE]

Local(id)  == [kind |-> "local", id |-> id]
Typedef(id) == [kind |-> "typedef", id |-> id]
Global(i)  == [kind |-> "global", id |-> i]
Linked(n)  == [kind |-> "linked", id |-> n]
Unbound    == [kind |-> "unbound", id |-> 0]

Bind(scope, n, b) == [m \in DOMAIN scope \cup {n} |-> IF m = n THEN b ELSE scope[m]]
BindLast(stack, n, b) == [stack EXCEPT ![Len(stack)] = Bind(@, n, b)]
NoNames == [n \in {} |-> Unbound]

\* The scopes that bind n, and what the innermost of them says.
Binding(stack, n) == {k \in DOMAIN stack : n \in DOMAIN stack[k]}
Innermost(stack, n) ==
  IF Binding(stack, n) = {} THEN Unbound ELSE stack[Max(Binding(stack, n))][n]

Called(n) == {i \in DOMAIN globals : globals[i].name = n}

\* Seeded fault: the outermost scope is asked first.
find_var_outermost(n) ==
  IF Binding(scopes, n) # {} THEN scopes[Min(Binding(scopes, n))][n]
  ELSE IF Called(n) # {} THEN Global(Min(Called(n))) ELSE Unbound

\* Scopes from the inside out, then the first global of the name.
find_var(n) ==
  IF Binding(scopes, n) # {} THEN Innermost(scopes, n)
  ELSE IF Called(n) # {} THEN Global(Min(Called(n))) ELSE Unbound

\* The last definition of function n, else its last declaration, else 0.
func_index(gs, n) ==
  LET fns  == {i \in DOMAIN gs : gs[i].fn /\ gs[i].name = n}
      defs == {i \in fns : gs[i].def}
  IN  IF defs # {} THEN Max(defs) ELSE IF fns # {} THEN Max(fns) ELSE 0

-----------------------------------------------------------------------------
\* Mentions.

\* Seeded fault: only what is mentioned in a function is recorded.
MentionedInside(gs, b) ==
  IF b.kind # "global" \/ ~gs[b.id].fn \/ parsing = 0 THEN gs
  ELSE [gs EXCEPT ![parsing].refs = Append(@, gs[b.id].name)]

\* primary: a function that is mentioned is live if the function being
\* parsed is; outside of functions it is live.
Mentioned(gs, b) ==
  IF b.kind # "global" \/ ~gs[b.id].fn THEN gs
  ELSE IF parsing # 0 THEN [gs EXCEPT ![parsing].refs = Append(@, gs[b.id].name)]
  ELSE [gs EXCEPT ![func_index(gs, gs[b.id].name)].root = TRUE]

\* Does the binding the code found mean what C's does?
SameMeaning(b, c) ==
  IF c.kind = "linked" THEN b.kind = "global" /\ globals[b.id].name = c.id ELSE b = c

\* The functions a mention of n is about, in C.
FunctionsMeant(n, c) == IF c.kind = "linked" THEN {c.id} \cap Functions ELSE {}

\* globals after m is mentioned, a set of one name or none.
Seen(m) ==
  IF m = {} THEN globals ELSE Mentioned(globals, find_var(CHOOSE n \in m : TRUE))

\* What C makes of the mention.
Meant(m) ==
  LET meant == UNION {FunctionsMeant(n, Innermost(cscopes, n)) : n \in m}
  IN  /\ \A n \in m : Innermost(cscopes, n).kind # "unbound"
      /\ agreed' = (agreed /\ \A n \in m : SameMeaning(find_var(n), Innermost(cscopes, n)))
      /\ IF parsing = 0
           THEN croots' = croots \cup meant /\ UNCHANGED crefs
           ELSE /\ crefs' = crefs \cup {<<globals[parsing].name, f>> : f \in meant}
                /\ UNCHANGED croots

-----------------------------------------------------------------------------
\* Declarations.  An item has a name, the storage classes of its specifiers
\* (attr), whether it has an initializer (given), and the name that occurs in the
\* initializer or is the parameter (with).

Item(it, op) ==
  /\ phase = "parse" /\ it.op = op
  /\ items < MaxItems[dialect] /\ items' = items + 1 /\ UNCHANGED dialect

InFunction == parsing # 0

\* C lets n be declared in the current scope.
Undeclared(n) == n \notin DOMAIN cscopes[Len(cscopes)]
Redeclarable(n) == Undeclared(n) \/ Innermost(cscopes, n) = Linked(n)
\* No local hides the n that a block declares anew: the code would find the local.
Unhidden(n) == Innermost(cscopes, n) \in {Unbound, Linked(n)}

Defines(it) == "extern" \notin it.attr

\* C wants one initializer at most, and all declarations of an object thread-local or none.
\* Without Repeats, what has no initializer is declared once; if thread-local, not beside
\* an initializer either.
MayBeDeclared(it) ==
  \A i \in Called(it.name) :
    /\ ~(it.given /\ globals[i].given)
    /\ globals[i].tls = ("tls" \in it.attr)
    /\ Defines(it) /\ globals[i].def /\ ~Repeats =>
         (it.given \/ globals[i].given) /\ ~globals[i].tls

\* global_variable: is it a tentative definition?
Tentative(it) == ~it.given /\ Defines(it) /\ "tls" \notin it.attr

\* global_variable, called for a block's extern declarations too.
GlobalVariable(it) ==
  /\ Item(it, "variable")
  /\ InFunction => ~Defines(it) /\ Unhidden(it.name)
  /\ Redeclarable(it.name) /\ MayBeDeclared(it)
  /\ Meant(it.with)
  /\ globals' = Append(Seen(it.with),
       [Object(it.name) EXCEPT
          !.def = Defines(it), !.static = "static" \in it.attr,
          !.tls = "tls" \in it.attr, !.given = it.given,
          !.tent = Tentative(it)])
  /\ cscopes' = BindLast(cscopes, it.name, Linked(it.name))
  /\ UNCHANGED <<scopes, parsing, phase, next, pending, asm>>

IsStatic(attr) == "static" \in attr \/ ("inline" \in attr /\ "extern" \notin attr)
StaticInline(attr) == IsStatic(attr) /\ "inline" \in attr

\* function: the object of a declaration.
Function(it, def) ==
  [Object(it.name) EXCEPT !.fn = TRUE, !.def = def, !.static = IsStatic(it.attr),
                          !.root = ~StaticInline(it.attr)]

RootIfNot(it) == croots' = croots \cup (IF StaticInline(it.attr) THEN {} ELSE {it.name})

Prototype(it) ==
  /\ Item(it, "prototype")
  /\ InFunction => "static" \notin it.attr /\ Unhidden(it.name)
  /\ Redeclarable(it.name)
  /\ globals' = Append(globals, Function(it, FALSE))
  /\ cscopes' = BindLast(cscopes, it.name, Linked(it.name))
  /\ RootIfNot(it)
  /\ UNCHANGED <<scopes, parsing, phase, next, pending, asm, crefs, agreed>>

\* The outer scope of a function: its name, hidden by a parameter.
OwnScope(it, i) ==
  [m \in {it.name} \cup it.with |-> IF m \in it.with THEN Local(items) ELSE Global(i)]

\* function, up to the first token of the body; compound_stmt opens a scope of
\* its own.  __func__ is an object too.
Definition(it) ==
  /\ Item(it, "function") /\ ~InFunction
  /\ Redeclarable(it.name) /\ \A i \in Called(it.name) : ~globals[i].def
  /\ LET own == Append(globals, Function(it, TRUE))
     IN  globals' = Append(own, Anonymous(own))
  /\ parsing' = Len(globals) + 1
  /\ scopes' = scopes \o <<OwnScope(it, Len(globals) + 1), NoNames>>
  /\ cscopes' = Append(BindLast(cscopes, it.name, Linked(it.name)),
                       [m \in it.with |-> Local(items)])
  /\ RootIfNot(it)
  /\ UNCHANGED <<phase, next, pending, asm, crefs, agreed>>

OpenBlock(it) ==
  /\ Item(it, "block") /\ InFunction
  /\ scopes' = Append(scopes, NoNames) /\ cscopes' = Append(cscopes, NoNames)
  /\ UNCHANGED <<globals, parsing, phase, next, pending, asm, croots, crefs, agreed>>

\* The body's own closing brace is EndFunction's.
CloseBlock ==
  /\ phase = "parse" /\ Len(scopes) > 3
  /\ scopes' = Front(scopes) /\ cscopes' = Front(cscopes)
  /\ UNCHANGED <<globals, parsing, phase, next, pending, asm, dialect, items, croots, crefs, agreed>>

\* Back in the caller's scope_stack: the function had a copy.
EndFunction ==
  /\ phase = "parse" /\ Len(scopes) = 3
  /\ scopes' = <<scopes[1]>> /\ cscopes' = <<cscopes[1]>> /\ parsing' = 0
  /\ UNCHANGED <<globals, phase, next, pending, asm, dialect, items, croots, crefs, agreed>>

\* new_lvar
LocalVariable(it) ==
  /\ Item(it, "local") /\ InFunction /\ Undeclared(it.name)
  /\ scopes' = BindLast(scopes, it.name, Local(items))
  /\ cscopes' = BindLast(cscopes, it.name, Local(items))
  /\ UNCHANGED <<globals, parsing, phase, next, pending, asm, croots, crefs, agreed>>

\* declaration, for a static local: an anonymous global, bound after its
\* initializer was read.  It does not mention itself.
StaticLocal(it) ==
  /\ Item(it, "static local") /\ InFunction /\ Undeclared(it.name)
  /\ it.name \notin it.with /\ Meant(it.with)
  /\ LET gs == Seen(it.with)
         b == Global(Len(gs) + 1)
     IN  /\ globals' = Append(gs, [Anonymous(gs) EXCEPT !.static = TRUE, !.given = it.given])
         /\ scopes' = BindLast(scopes, it.name, b)
         /\ cscopes' = BindLast(cscopes, it.name, b)
  /\ UNCHANGED <<parsing, phase, next, pending, asm>>

\* parse_typedef; an enumeration constant is entered the same way.
TypedefName(it) ==
  /\ Item(it, "typedef") /\ Undeclared(it.name)
  /\ scopes' = BindLast(scopes, it.name, Typedef(items))
  /\ cscopes' = BindLast(cscopes, it.name, Typedef(items))
  /\ UNCHANGED <<globals, parsing, phase, next, pending, asm, croots, crefs, agreed>>

\* An identifier in a statement: find_typedef, or primary.
MentionName(it) ==
  /\ Item(it, "mention") /\ InFunction /\ Meant({it.name})
  /\ globals' = Seen({it.name})
  /\ UNCHANGED <<scopes, parsing, phase, next, pending, asm, cscopes>>

-----------------------------------------------------------------------------
\* After the last declaration.

\* emit_assembly calls mark_live_globals, whose loop runs from the end.
EndOfFile ==
  /\ phase = "parse" /\ ~InFunction
  /\ phase' = "mark" /\ next' = Len(globals)
  /\ UNCHANGED <<globals, scopes, parsing, pending, asm, history>>

MarkRoot ==
  /\ phase = "mark" /\ pending = <<>> /\ next > 0
  /\ pending' = IF globals[next].root THEN <<globals[next].name>> ELSE <<>>
  /\ next' = next - 1
  /\ UNCHANGED <<globals, scopes, parsing, phase, asm, history>>

\* Seeded fault: it does not look whether the function is live already.
MarkLiveAgain ==
  /\ phase = "mark" /\ pending # <<>>
  /\ LET i == func_index(globals, Head(pending))
     IN  IF i = 0
           THEN pending' = Tail(pending) /\ UNCHANGED globals
           ELSE /\ globals' = [globals EXCEPT ![i].live = TRUE]
                /\ pending' = globals[i].refs \o Tail(pending)
  /\ UNCHANGED <<scopes, parsing, phase, next, asm, history>>

\* mark_live, called with the head of pending: marks it, and calls itself for what
\* it takes out of refs.
MarkLive ==
  /\ phase = "mark" /\ pending # <<>>
  /\ LET i == func_index(globals, Head(pending))
     IN  IF i = 0 \/ globals[i].live
           THEN pending' = Tail(pending) /\ UNCHANGED globals
           ELSE /\ globals' = [globals EXCEPT ![i].live = TRUE, ![i].refs = <<>>]
                /\ pending' = globals[i].refs \o Tail(pending)
  /\ UNCHANGED <<scopes, parsing, phase, next, asm, history>>

\* Seeded fault: the definition counts as another one of itself.
KeptUnlessDefined(i) == globals[i].tent => \A j \in Called(globals[i].name) : ~globals[j].def

\* scan_globals: a tentative definition stays if there is no other definition.
Kept(i) == globals[i].tent => \A j \in Called(globals[i].name) \ {i} : ~globals[j].def

\* Objects are emitted if defined, functions if they are live as well.
Emitted(i) ==
  /\ Kept(i) /\ globals[i].def
  /\ globals[i].fn => globals[i].live

Emit ==
  /\ phase = "mark" /\ pending = <<>> /\ next = 0
  /\ asm' = {i \in DOMAIN globals : Emitted(i)}
  /\ phase' = "done"
  /\ UNCHANGED <<globals, scopes, parsing, next, pending, history>>

Init ==
  /\ globals = <<[Object(alloca) EXCEPT !.def = FALSE]>>
  /\ scopes = <<NoNames>> /\ cscopes = <<NoNames>>
  /\ parsing = 0 /\ phase = "parse" /\ next = 0 /\ pending = <<>> /\ asm = {}
  /\ dialect \in Dialects /\ items = 0 /\ croots = {} /\ crefs = {} /\ agreed = TRUE

Declare ==
  \E it \in Items[dialect] :
    \/ GlobalVariable(it) \/ Prototype(it) \/ Definition(it) \/ OpenBlock(it)
    \/ LocalVariable(it) \/ StaticLocal(it) \/ TypedefName(it) \/ MentionName(it)

Mark == MarkRoot \/ MarkLive \/ Emit

Next == Declare \/ CloseBlock \/ EndFunction \/ EndOfFile \/ Mark

\* The compiler is one sequential thread: the loop goes on.
Spec == Init /\ [][Next]_vars /\ WF_vars(Mark)

-----------------------------------------------------------------------------

\* Every identifier is found in the scope C finds it in, through blocks, parameters,
\* statics, typedefs and declarations of the same name.
MeansTheSame == agreed

\* The functions the program needs: those with a declaration that is not static
\* inline, those the file's initializers mention, and what these call.
Needed ==
  {f \in Functions : \A S \in SUBSET Functions :
     (croots \subseteq S /\ \A e \in crefs : e[1] \in S => e[2] \in S) => f \in S}

\* A function is emitted if and only if the program needs it and defines it,
\* wherever the definition stands and however the calls go round.
EmitsWhatIsNeeded ==
  phase = "done" =>
    {globals[i].name : i \in {i \in asm : globals[i].fn}}
      = {f \in Needed : \E i \in Called(f) : globals[i].def}

\* No symbol is defined twice, and an object that the file defines is defined
\* once, with its initializer if a declaration gives one.
EveryObjectOnce ==
  phase = "done" =>
    /\ \A i, j \in asm : globals[i].name = globals[j].name => i = j
    /\ \A x \in Variables :
         (\E i \in Called(x) : globals[i].def) =>
           \E i \in asm : /\ globals[i].name = x
                           /\ (\E j \in Called(x) : globals[j].given) => globals[i].given

\* mark_live_globals ends, recursion among functions notwithstanding.
MarkingEnds == phase = "mark" ~> phase = "done"
=============================================================================
