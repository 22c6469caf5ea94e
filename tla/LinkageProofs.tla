---------------------------- MODULE LinkageProofs ---------------------------
(***************************************************************************)
(* Theorems about Linkage, for every vocabulary and length of programs.    *)
(***************************************************************************)
EXTENDS Linkage, FiniteSetTheorems, WellFoundedInduction, TLAPS

(***************************************************************************)
(* The invariants.                                                         *)
(***************************************************************************)
Objects ==
  [name : Names \cup Nat \cup {alloca}, fn : BOOLEAN, def : BOOLEAN, tent : BOOLEAN,
   static : BOOLEAN, tls : BOOLEAN, given : BOOLEAN, root : BOOLEAN, live : BOOLEAN,
   refs : Seq(Functions)]
Bindings == [kind : {"local", "typedef", "global", "linked"}, id : Names \cup Nat]
Scopes == UNION {[D -> Bindings] : D \in SUBSET Names}

TypeOK ==
  /\ globals \in Seq(Objects) /\ scopes \in Seq(Scopes) /\ cscopes \in Seq(Scopes)
  /\ parsing \in 0..Len(globals) /\ next \in 0..Len(globals) /\ items \in Nat
  /\ pending \in Seq(Functions) /\ dialect \in Dialects
  /\ phase \in {"parse", "mark", "done"} /\ (phase # "parse" => parsing = 0)
  /\ croots \subseteq Functions /\ crefs \subseteq Functions \X Functions

\* An object's name says what it is; a number is that of an anonymous one.
WellNamed(gs, i) ==
  LET o == gs[i] IN
  /\ o.name \in Nat => o.name = i
  /\ o.name = alloca => ~o.def
  /\ o.fn <=> o.name \in Functions
  /\ o.tent <=> o.name \in Variables /\ o.def /\ ~o.given /\ ~o.tls
  /\ o.given => o.def
  /\ o.root \/ o.live \/ o.refs # <<>> => o.fn
  /\ o.refs # <<>> => o.def

\* A function is defined once, and of two definitions of an object one has the
\* initializer and the other is tentative.
DefinedOnce(o, p) ==
  o.def /\ p.def /\ o.name = p.name =>
    ~o.fn /\ (~Repeats => o.given # p.given /\ ~o.tls /\ ~p.tls)

Declared(gs, f) == \E j \in DOMAIN gs : gs[j].name = f

\* Does object i mention f?
Refers(gs, i, f) == \E k \in DOMAIN gs[i].refs : gs[i].refs[k] = f

\* What is mentioned is declared.
GlobalsOK(gs) ==
  /\ \A i \in DOMAIN gs : WellNamed(gs, i)
  /\ \A i, j \in DOMAIN gs : i # j => DefinedOnce(gs[i], gs[j])
  /\ \A i \in DOMAIN gs : \A f \in Functions : Refers(gs, i, f) => Declared(gs, f)

\* The C scope that the code's scope j belongs to: a function's outer scope and its
\* body are one in C.
Level(j) == IF j <= 2 THEN j ELSE j - 1

ScopesOK ==
  /\ Len(scopes) = IF parsing = 0 THEN 1 ELSE Len(cscopes) + 1
  /\ IF parsing = 0 THEN Len(cscopes) = 1 ELSE Len(cscopes) >= 2
  /\ parsing # 0 => LET n == globals[parsing].name IN
                    /\ globals[parsing].fn /\ globals[parsing].def
                    /\ n \in DOMAIN cscopes[1] /\ cscopes[1][n] = Linked(n)

\* Every binding of the code's is C's, or that of the function being parsed to
\* itself.
CodeInC(j, n) ==
  \/ /\ n \in DOMAIN cscopes[Level(j)] /\ scopes[j][n] = cscopes[Level(j)][n]
     /\ scopes[j][n].kind # "linked"
  \/ parsing # 0 /\ j = 2 /\ n = globals[parsing].name /\ scopes[j][n] = Global(parsing)

\* Every binding of C's is the code's; but a name with linkage is among the
\* globals, and what C binds further out is it too.
CInCode(k, n) ==
  IF cscopes[k][n].kind = "linked"
    THEN /\ cscopes[k][n] = Linked(n) /\ Called(n) # {}
         /\ \A l \in 1..k : n \in DOMAIN cscopes[l] => cscopes[l][n] = Linked(n)
    ELSE /\ \E j \in DOMAIN scopes :
              Level(j) = k /\ n \in DOMAIN scopes[j] /\ scopes[j][n] = cscopes[k][n]
         /\ cscopes[k][n].kind = "global" =>
              cscopes[k][n].id \in DOMAIN globals /\ globals[cscopes[k][n].id].name \notin Names

BindingsOK ==
  /\ \A j \in DOMAIN scopes : \A n \in DOMAIN scopes[j] : CodeInC(j, n)
  /\ \A k \in DOMAIN cscopes : \A n \in DOMAIN cscopes[k] : CInCode(k, n)

\* What the code recorded of mentions is what C says.
RootsAre(gs, roots) ==
  \A f \in Functions : f \in roots <=> \E i \in DOMAIN gs : gs[i].root /\ gs[i].name = f
RefsAre(gs, refs) ==
  \A e, f \in Functions :
    <<e, f>> \in refs <=> \E i \in DOMAIN gs : gs[i].name = e /\ Refers(gs, i, f)

ParseInv ==
  /\ RootsAre(globals, croots) /\ RefsAre(globals, crefs) /\ pending = <<>>
  /\ \A i \in DOMAIN globals : ~globals[i].live

\* What is marked or to be marked is needed, and what is needed is not forgotten.
Reached(f) ==
  \/ func_index(globals, f) # 0 /\ globals[func_index(globals, f)].live
  \/ \E k \in DOMAIN pending : pending[k] = f
MarkInv ==
  /\ RootsAre(globals, croots)
  /\ \A f \in Functions : Reached(f) => f \in Needed
  /\ \A i \in DOMAIN globals :
       /\ globals[i].live => i = func_index(globals, globals[i].name)
       /\ i > next /\ globals[i].root => Reached(globals[i].name)
       /\ \A f \in Functions : Refers(globals, i, f) => <<globals[i].name, f>> \in crefs
  /\ \A e, f \in Functions : <<e, f>> \in crefs =>
       LET i == func_index(globals, e) IN
       i # 0 /\ (IF globals[i].live THEN Reached(f) ELSE Refers(globals, i, f))
  /\ \A k \in DOMAIN pending : func_index(globals, pending[k]) # 0

IInv ==
  /\ TypeOK /\ GlobalsOK(globals) /\ ScopesOK /\ BindingsOK
  /\ phase = "parse" => ParseInv
  /\ phase = "mark" => MarkInv
  /\ agreed /\ EmitsWhatIsNeeded /\ (~Repeats => EveryObjectOnce)

(***************************************************************************)
(* Least and greatest.                                                     *)
(***************************************************************************)
LEMMA LeastElement ==
  ASSUME NEW n \in Nat, NEW T \in SUBSET (0..n), T # {}
  PROVE  \E i \in T : \A j \in 0..(i - 1) : j \notin T
<1> DEFINE Below(i) == 0..(i - 1)
           Segments == {Below(i) : i \in T}
<1>1. IsFiniteSet(0..n)
  BY FS_Interval
<1>2. IsWellFoundedOn(StrictSubsetOrdering(0..n), FiniteSubsetsOf(0..n))
  BY FS_StrictSubsetOrderingWellFounded
<1>3. Segments \subseteq FiniteSubsetsOf(0..n)
  <2>1. FiniteSubsetsOf(0..n) = SUBSET (0..n)
    BY <1>1, FS_FiniteSubsetsOfFinite
  <2> QED BY <2>1
<1>4. Segments # {}
  OBVIOUS
<1> HIDE DEF Segments
<1>5. PICK s \in Segments : \A r \in Segments : ~(<<r, s>> \in StrictSubsetOrdering(0..n))
  BY <1>2, <1>3, <1>4, WFMin
<1>6. PICK i \in T : s = Below(i)
  BY <1>5 DEF Segments
<1>7. ASSUME NEW j \in 0..(i - 1), j \in T
      PROVE  FALSE
  <2>1. Below(j) \in Segments
    BY <1>7 DEF Segments
  <2>2. Below(j) \subseteq Below(i) /\ Below(j) # Below(i) /\ Below(i) \subseteq 0..n
    BY <1>7
  <2>3. <<Below(j), Below(i)>> \in StrictSubsetOrdering(0..n)
    BY <2>2 DEF StrictSubsetOrdering
  <2> QED BY <2>1, <2>3, <1>5, <1>6
<1> QED BY <1>7

LEMMA MinMax ==
  ASSUME NEW n \in Nat, NEW T \in SUBSET (1..n), T # {}
  PROVE  /\ Min(T) \in T /\ Max(T) \in T
         /\ \A t \in T : Max(T) >= t
<1>1. T \in SUBSET (0..n) /\ \A t \in T : t \in Nat
  OBVIOUS
<1>2. PICK i \in T : \A j \in 0..(i - 1) : j \notin T
  BY <1>1, LeastElement
<1>3. \A t \in T : i =< t
  BY <1>1, <1>2
<1>4. Min(T) \in T
  BY <1>3 DEF Min
<1> DEFINE U == {n - t : t \in T}
<1>5. U \in SUBSET (0..n) /\ U # {}
  OBVIOUS
<1> HIDE DEF U
<1>6. PICK u \in U : \A j \in 0..(u - 1) : j \notin U
  BY <1>5, LeastElement
<1>7. PICK m \in T : u = n - m
  BY <1>6 DEF U
<1>8. ASSUME NEW t \in T
      PROVE  m >= t
  <2>1. n - t \in U
    BY DEF U
  <2> QED BY <1>1, <1>6, <1>7, <2>1
<1>9. Max(T) \in T /\ \A t \in T : Max(T) >= t
  BY <1>8 DEF Max
<1> QED BY <1>4, <1>9

(***************************************************************************)
(* Objects.                                                                *)
(***************************************************************************)
LEMMA NamesApart ==
  /\ \A f \in Functions : f \notin Variables /\ f \notin Nat /\ f # alloca /\ f \in Names
  /\ \A x \in Variables : x \notin Functions /\ x \notin Nat /\ x # alloca /\ x \in Names
  /\ \A i \in Nat : i \notin Functions /\ i \notin Variables /\ i # alloca
  /\ alloca \notin Functions /\ alloca \notin Variables
BY NamesAssumption DEF Names

\* func_index finds a function of that name, defined if one is.
LEMMA FuncIndex ==
  ASSUME NEW gs \in Seq(Objects), NEW f, NEW i, i = func_index(gs, f)
  PROVE  /\ (\E j \in DOMAIN gs : gs[j].fn /\ gs[j].name = f) =>
              i \in DOMAIN gs /\ gs[i].fn /\ gs[i].name = f
         /\ (\E j \in DOMAIN gs : gs[j].fn /\ gs[j].name = f /\ gs[j].def) => gs[i].def
         /\ i # 0 => i \in DOMAIN gs /\ gs[i].fn /\ gs[i].name = f
<1> DEFINE fns == {j \in DOMAIN gs : gs[j].fn /\ gs[j].name = f}
           defs == {j \in fns : gs[j].def}
<1>1. i = IF defs # {} THEN Max(defs) ELSE IF fns # {} THEN Max(fns) ELSE 0
  BY DEF func_index
<1>2. Len(gs) \in Nat /\ fns \in SUBSET (1..Len(gs)) /\ defs \in SUBSET (1..Len(gs))
  OBVIOUS
<1>3. (defs # {} => Max(defs) \in defs) /\ (fns # {} => Max(fns) \in fns)
  BY <1>2, MinMax
<1> QED BY <1>1, <1>3

LEMMA FuncIndexSame ==
  ASSUME NEW gs \in Seq(Objects), NEW hs \in Seq(Objects), Len(gs) = Len(hs), NEW f,
         \A i \in DOMAIN gs : /\ gs[i].name = hs[i].name /\ gs[i].fn = hs[i].fn
                              /\ gs[i].def = hs[i].def
  PROVE  func_index(gs, f) = func_index(hs, f)
<1>1. DOMAIN gs = DOMAIN hs
  OBVIOUS
<1>2. {j \in DOMAIN gs : gs[j].fn /\ gs[j].name = f} = {j \in DOMAIN hs : hs[j].fn /\ hs[j].name = f}
  BY <1>1
<1>3. {i \in {j \in DOMAIN gs : gs[j].fn /\ gs[j].name = f} : gs[i].def}
        = {i \in {j \in DOMAIN hs : hs[j].fn /\ hs[j].name = f} : hs[i].def}
  BY <1>1, <1>2
<1> QED BY <1>2, <1>3 DEF func_index

(***************************************************************************)
(* Bindings.                                                               *)
(***************************************************************************)
LEMMA ScopeTypes ==
  ASSUME NEW stack \in Seq(Scopes)
  PROVE  /\ Len(stack) \in Nat /\ DOMAIN stack = 1..Len(stack)
         /\ \A k \in DOMAIN stack : \A n \in DOMAIN stack[k] :
              /\ n \in Names /\ stack[k][n] \in Bindings
              /\ stack[k][n].kind \in {"local", "typedef", "global", "linked"}
<1>1. Len(stack) \in Nat /\ DOMAIN stack = 1..Len(stack)
  OBVIOUS
<1>2. ASSUME NEW k \in DOMAIN stack, NEW n \in DOMAIN stack[k]
      PROVE  n \in Names /\ stack[k][n] \in Bindings
  <2>1. stack[k] \in Scopes
    OBVIOUS
  <2> QED BY <2>1 DEF Scopes
<1>3. \A b \in Bindings : b.kind \in {"local", "typedef", "global", "linked"}
  BY DEF Bindings
<1> QED BY <1>1, <1>2, <1>3

\* The innermost binding is that of the last scope that has one.
LEMMA InnermostIs ==
  ASSUME NEW stack \in Seq(Scopes), NEW n
  PROVE  \/ /\ Innermost(stack, n) = Unbound
            /\ Binding(stack, n) = {} /\ \A k \in DOMAIN stack : n \notin DOMAIN stack[k]
         \/ \E k \in DOMAIN stack :
              /\ n \in DOMAIN stack[k] /\ Innermost(stack, n) = stack[k][n] /\ Binding(stack, n) # {}
              /\ Innermost(stack, n).kind \in {"local", "typedef", "global", "linked"}
              /\ \A l \in DOMAIN stack : n \in DOMAIN stack[l] => l <= k
<1>1. CASE Binding(stack, n) = {}
  BY <1>1 DEF Innermost, Binding
<1>2. CASE Binding(stack, n) # {}
  <2>1. Len(stack) \in Nat /\ Binding(stack, n) \in SUBSET (1..Len(stack))
    BY ScopeTypes DEF Binding
  <2>2. PICK k \in Binding(stack, n) : k = Max(Binding(stack, n)) /\ \A l \in Binding(stack, n) : k >= l
    BY <1>2, <2>1, MinMax
  <2>3. k \in DOMAIN stack /\ n \in DOMAIN stack[k] /\ Innermost(stack, n) = stack[k][n]
    BY <1>2, <2>2 DEF Binding, Innermost
  <2>4. \A l \in DOMAIN stack : n \in DOMAIN stack[l] => l <= k
    BY <2>1, <2>2, ScopeTypes DEF Binding
  <2> QED BY <1>2, <2>3, <2>4, ScopeTypes
<1> QED BY <1>1, <1>2

\* The code's scopes and C's stand side by side.
LEMMA LevelIs ==
  ASSUME TypeOK, ScopesOK
  PROVE  /\ Len(scopes) \in Nat /\ Len(cscopes) \in Nat /\ Len(cscopes) >= 1 /\ Len(scopes) >= 1
         /\ DOMAIN scopes = 1..Len(scopes) /\ DOMAIN cscopes = 1..Len(cscopes)
         /\ \A j \in DOMAIN scopes : j \in Nat /\ Level(j) \in DOMAIN cscopes /\ Level(j) <= j
         /\ \A i, j \in DOMAIN scopes : i <= j => Level(i) <= Level(j)
         /\ Level(Len(scopes)) = Len(cscopes)
<1>1. /\ Len(scopes) \in Nat /\ Len(cscopes) \in Nat
      /\ DOMAIN scopes = 1..Len(scopes) /\ DOMAIN cscopes = 1..Len(cscopes)
  BY ScopeTypes DEF TypeOK
<1>2. PICK L \in Nat, M \in Nat : L = Len(scopes) /\ M = Len(cscopes)
  BY <1>1
<1>3. \/ L = 1 /\ M = 1
      \/ L = M + 1 /\ M >= 2
  BY <1>2 DEF ScopesOK
<1>4. \A j \in 1..L : j \in Nat /\ Level(j) \in 1..M /\ Level(j) <= j
  BY <1>3 DEF Level
<1>5. \A i, j \in 1..L : i <= j => Level(i) <= Level(j)
  BY <1>3 DEF Level
<1>6. Level(L) = M /\ L >= 1 /\ M >= 1
  BY <1>3 DEF Level
<1> QED BY <1>1, <1>2, <1>4, <1>5, <1>6

\* A name is found to mean what it means in C.
LEMMA Agreement ==
  ASSUME TypeOK, ScopesOK, BindingsOK, NEW n \in Names, NEW b, b = find_var(n),
         NEW c, c = Innermost(cscopes, n), c.kind # "unbound"
  PROVE  /\ SameMeaning(b, c)
         /\ c.kind = "linked" => /\ c.id = n /\ b.kind = "global" /\ b.id \in DOMAIN globals
                                 /\ globals[b.id].name = n
         /\ c.kind # "linked" /\ b.kind = "global" =>
              b.id \in DOMAIN globals /\ globals[b.id].name \notin Names
<1>1. PICK k \in DOMAIN cscopes :
        /\ n \in DOMAIN cscopes[k] /\ c = cscopes[k][n]
        /\ \A l \in DOMAIN cscopes : n \in DOMAIN cscopes[l] => l <= k
  BY InnermostIs DEF TypeOK, Unbound
<1>2. CInCode(k, n)
  BY <1>1 DEF BindingsOK
<1>3. \/ Binding(scopes, n) = {} /\ \A j \in DOMAIN scopes : n \notin DOMAIN scopes[j]
      \/ \E j \in DOMAIN scopes :
           /\ n \in DOMAIN scopes[j] /\ b = scopes[j][n]
           /\ \A l \in DOMAIN scopes : n \in DOMAIN scopes[l] => l <= j
  BY InnermostIs DEF TypeOK, find_var
<1>4. CASE c.kind = "linked"
  <2>1. /\ c = Linked(n) /\ Called(n) # {}
        /\ \A l \in 1..k : n \in DOMAIN cscopes[l] => cscopes[l][n] = Linked(n)
    BY <1>1, <1>2, <1>4 DEF CInCode
  <2>2. c.id = n /\ Linked(n).kind = "linked"
    BY <2>1 DEF Linked
  <2>3. \A l \in DOMAIN cscopes : n \in DOMAIN cscopes[l] => cscopes[l][n] = Linked(n)
    BY <1>1, <2>1, LevelIs
  <2>4. b.kind = "global" /\ b.id \in DOMAIN globals /\ globals[b.id].name = n
    <3>1. CASE Binding(scopes, n) = {}
      <4>1. b = Global(Min(Called(n)))
        BY <2>1, <3>1 DEF find_var
      <4>2. Len(globals) \in Nat /\ Called(n) \in SUBSET (1..Len(globals))
        BY DEF TypeOK, Called
      <4>3. Min(Called(n)) \in Called(n)
        BY <2>1, <4>2, MinMax
      <4> QED BY <4>1, <4>3 DEF Global, Called
    <3>2. CASE \E j \in DOMAIN scopes : n \in DOMAIN scopes[j] /\ b = scopes[j][n]
      <4>1. PICK j \in DOMAIN scopes : n \in DOMAIN scopes[j] /\ b = scopes[j][n]
        BY <3>2
      <4>2. CodeInC(j, n)
        BY <4>1 DEF BindingsOK
      <4>3. ~(n \in DOMAIN cscopes[Level(j)] /\ scopes[j][n].kind # "linked"
                /\ scopes[j][n] = cscopes[Level(j)][n])
        BY <2>2, <2>3, LevelIs
      <4>4. parsing # 0 /\ n = globals[parsing].name /\ b = Global(parsing)
        BY <4>1, <4>2, <4>3 DEF CodeInC
      <4> QED BY <4>4 DEF Global, TypeOK
    <3> QED BY <1>3, <3>1, <3>2
  <2> QED BY <1>4, <2>2, <2>4 DEF SameMeaning
<1>5. CASE c.kind # "linked"
  <2>1. PICK i \in DOMAIN scopes : Level(i) = k /\ n \in DOMAIN scopes[i] /\ scopes[i][n] = c
    BY <1>1, <1>2, <1>5 DEF CInCode
  <2>2. PICK j \in DOMAIN scopes :
          /\ n \in DOMAIN scopes[j] /\ b = scopes[j][n]
          /\ \A l \in DOMAIN scopes : n \in DOMAIN scopes[l] => l <= j
    BY <1>3, <2>1
  <2>3. CodeInC(j, n)
    BY <2>2 DEF BindingsOK
  <2>4. Level(i) <= Level(j) /\ i <= j
    BY <2>1, <2>2, LevelIs
  <2>5. ~(parsing # 0 /\ j = 2 /\ n = globals[parsing].name /\ scopes[j][n] = Global(parsing))
    <3> SUFFICES ASSUME parsing # 0, j = 2, n = globals[parsing].name,
                        scopes[j][n] = Global(parsing)
                 PROVE  FALSE
      OBVIOUS
    <3>1. n \in DOMAIN cscopes[1] /\ cscopes[1][n] = Linked(n)
      BY DEF ScopesOK
    <3>2. i # 1
      BY <1>1, <1>5, <2>1, <3>1 DEF Linked, Level
    <3>3. i = 2
      BY <2>1, <2>4, <3>2, LevelIs
    <3>4. c = Global(parsing)
      BY <2>1, <3>3
    <3>5. globals[parsing].name \notin Names
      BY <1>1, <1>2, <1>5, <3>4 DEF CInCode, Global
    <3> QED BY <3>5
  <2>6. n \in DOMAIN cscopes[Level(j)] /\ scopes[j][n] = cscopes[Level(j)][n]
    BY <2>3, <2>5 DEF CodeInC
  <2>7. Level(j) = k
    BY <1>1, <2>1, <2>2, <2>4, <2>6, LevelIs
  <2>8. b = c
    BY <1>1, <2>2, <2>6, <2>7
  <2>9. b.kind = "global" => b.id \in DOMAIN globals /\ globals[b.id].name \notin Names
    BY <1>1, <1>2, <1>5, <2>8 DEF CInCode
  <2> QED BY <1>5, <2>8, <2>9 DEF SameMeaning
<1> QED BY <1>4, <1>5

(***************************************************************************)
(* How the scopes change.                                                  *)
(***************************************************************************)
LEMMA BindLastIs ==
  ASSUME NEW stack \in Seq(Scopes), NEW n \in Names, NEW b \in Bindings,
         NEW L, L = Len(stack), L >= 1, NEW new, new = BindLast(stack, n, b)
  PROVE  /\ new \in Seq(Scopes) /\ Len(new) = L /\ DOMAIN new = DOMAIN stack
         /\ \A k \in DOMAIN stack : k # L => new[k] = stack[k]
         /\ L \in DOMAIN stack /\ DOMAIN new[L] = DOMAIN stack[L] \cup {n}
         /\ new[L][n] = b
         /\ \A m \in DOMAIN stack[L] : m # n => new[L][m] = stack[L][m]
<1>1. L \in Nat /\ L \in DOMAIN stack /\ stack[L] \in Scopes
  OBVIOUS
<1>2. PICK D \in SUBSET Names : stack[L] \in [D -> Bindings]
  BY <1>1 DEF Scopes
<1>3. PICK s : s = Bind(stack[L], n, b)
  OBVIOUS
<1>4. s \in [D \cup {n} -> Bindings] /\ D \cup {n} \in SUBSET Names
  BY <1>2, <1>3 DEF Bind
<1>5. s \in Scopes
  BY <1>4 DEF Scopes
<1>6. /\ DOMAIN s = DOMAIN stack[L] \cup {n} /\ s[n] = b
      /\ \A m \in DOMAIN stack[L] : m # n => s[m] = stack[L][m]
  BY <1>3 DEF Bind
<1>7. new = [stack EXCEPT ![L] = s]
  BY <1>3 DEF BindLast
<1> QED BY <1>1, <1>5, <1>6, <1>7

\* The list of objects only grows, and what they are does not change.
Grows ==
  /\ globals' \in Seq(Objects)
  /\ \A i \in DOMAIN globals :
       /\ i \in DOMAIN globals' /\ globals'[i].name = globals[i].name
       /\ globals'[i].fn = globals[i].fn /\ globals'[i].def = globals[i].def

LEMMA CalledGrows ==
  ASSUME Grows, NEW n
  PROVE  Called(n) # {} => Called(n)' # {}
BY DEF Grows, Called

\* A binding of the code's stays C's, and one of C's the code's.
LEMMA CodeStays ==
  ASSUME TypeOK, Grows, parsing' = parsing, NEW j, NEW n, CodeInC(j, n),
         scopes'[j][n] = scopes[j][n],
         n \in DOMAIN cscopes[Level(j)] =>
           n \in DOMAIN cscopes'[Level(j)] /\ cscopes'[Level(j)][n] = cscopes[Level(j)][n]
  PROVE  CodeInC(j, n)'
<1>1. parsing # 0 => parsing \in DOMAIN globals
  BY DEF TypeOK
<1> QED BY <1>1 DEF CodeInC, Grows, Global

LEMMA CStays ==
  ASSUME TypeOK, Grows, NEW k, NEW n, CInCode(k, n),
         cscopes'[k][n] = cscopes[k][n],
         \A j \in DOMAIN scopes :
           Level(j) = k /\ n \in DOMAIN scopes[j] =>
             j \in DOMAIN scopes' /\ n \in DOMAIN scopes'[j] /\ scopes'[j][n] = scopes[j][n],
         \A l \in 1..k : n \in DOMAIN cscopes'[l] =>
           n \in DOMAIN cscopes[l] /\ cscopes'[l][n] = cscopes[l][n]
  PROVE  CInCode(k, n)'
<1>1. CASE cscopes[k][n].kind = "linked"
  <2>1. /\ cscopes[k][n] = Linked(n) /\ Called(n) # {}
        /\ \A l \in 1..k : n \in DOMAIN cscopes[l] => cscopes[l][n] = Linked(n)
    BY <1>1 DEF CInCode
  <2>2. Called(n)' # {}
    BY <2>1, CalledGrows
  <2> QED BY <1>1, <2>1, <2>2 DEF CInCode, Linked
<1>2. CASE cscopes[k][n].kind # "linked"
  BY <1>2 DEF CInCode, Grows
<1> QED BY <1>1, <1>2

LEMMA SameScopes ==
  ASSUME TypeOK, ScopesOK, BindingsOK, Grows, UNCHANGED <<scopes, cscopes, parsing>>
  PROVE  ScopesOK' /\ BindingsOK'
<1>1. scopes' = scopes /\ cscopes' = cscopes /\ parsing' = parsing
  OBVIOUS
<1>2. parsing # 0 => parsing \in DOMAIN globals
  BY DEF TypeOK
<1>3. ScopesOK'
  BY <1>1, <1>2 DEF ScopesOK, Grows, Linked
<1>4. \A j \in DOMAIN scopes' : \A n \in DOMAIN scopes'[j] : CodeInC(j, n)'
  BY <1>1, CodeStays DEF BindingsOK
<1>5. \A k \in DOMAIN cscopes' : \A n \in DOMAIN cscopes'[k] : CInCode(k, n)'
  BY <1>1, CStays DEF BindingsOK
<1> QED BY <1>3, <1>4, <1>5 DEF BindingsOK

\* A declaration with linkage is bound in C only.
LEMMA LinkedBound ==
  ASSUME TypeOK, ScopesOK, BindingsOK, Grows, UNCHANGED <<scopes, parsing>>,
         NEW n \in Names, cscopes' = BindLast(cscopes, n, Linked(n)), Called(n)' # {},
         Redeclarable(n), parsing # 0 => Unhidden(n)
  PROVE  cscopes' \in Seq(Scopes) /\ ScopesOK' /\ BindingsOK'
<1>1. scopes' = scopes /\ parsing' = parsing
  OBVIOUS
<1>2. PICK L \in Nat : L = Len(cscopes) /\ L >= 1
  BY LevelIs
<1>3. Linked(n) \in Bindings
  BY DEF Linked, Bindings
<1>4. /\ cscopes' \in Seq(Scopes) /\ Len(cscopes') = L /\ DOMAIN cscopes' = DOMAIN cscopes
      /\ \A k \in DOMAIN cscopes : k # L => cscopes'[k] = cscopes[k]
      /\ L \in DOMAIN cscopes /\ DOMAIN cscopes'[L] = DOMAIN cscopes[L] \cup {n}
      /\ cscopes'[L][n] = Linked(n)
      /\ \A m \in DOMAIN cscopes[L] : m # n => cscopes'[L][m] = cscopes[L][m]
  BY <1>2, <1>3, BindLastIs DEF TypeOK
\* What C bound the name to already was the same.
<1>5. ASSUME NEW l \in DOMAIN cscopes, n \in DOMAIN cscopes[l]
      PROVE  cscopes[l][n] = Linked(n)
  <2>1. PICK k \in DOMAIN cscopes :
          /\ n \in DOMAIN cscopes[k] /\ Innermost(cscopes, n) = cscopes[k][n]
          /\ Innermost(cscopes, n).kind # "unbound"
          /\ \A i \in DOMAIN cscopes : n \in DOMAIN cscopes[i] => i <= k
    BY <1>5, InnermostIs DEF TypeOK
  <2>2. Innermost(cscopes, n) = Linked(n)
    <3>1. CASE parsing = 0
      <4>1. L = 1 /\ DOMAIN cscopes = {1}
        BY <1>2, <3>1, LevelIs DEF ScopesOK
      <4>2. ~Undeclared(n)
        BY <1>2, <1>5, <4>1 DEF Undeclared
      <4> QED BY <4>2 DEF Redeclarable
    <3>2. CASE parsing # 0
      BY <2>1, <3>2 DEF Unhidden, Unbound
    <3> QED BY <3>1, <3>2
  <2>3. l \in 1..k
    BY <1>5, <2>1, LevelIs
  <2>4. CInCode(k, n) /\ cscopes[k][n].kind = "linked"
    BY <2>1, <2>2 DEF BindingsOK, Linked
  <2> QED BY <1>5, <2>3, <2>4 DEF CInCode
<1>6. \A k \in DOMAIN cscopes : \A m \in DOMAIN cscopes[k] :
        m \in DOMAIN cscopes'[k] /\ cscopes'[k][m] = cscopes[k][m]
  BY <1>4, <1>5
<1>7. parsing # 0 => parsing \in DOMAIN globals
  BY DEF TypeOK
<1>8. 1 \in DOMAIN cscopes
  BY LevelIs
<1>9. ScopesOK'
  <2>1. /\ Len(scopes') = Len(scopes) /\ Len(cscopes') = Len(cscopes)
    BY <1>1, <1>2, <1>4
  <2>2. ASSUME parsing # 0, NEW m, m = globals[parsing].name
        PROVE  /\ globals'[parsing].name = m /\ globals'[parsing].fn /\ globals'[parsing].def
               /\ m \in DOMAIN cscopes'[1] /\ cscopes'[1][m] = Linked(m)
    <3>1. m \in DOMAIN cscopes[1] /\ cscopes[1][m] = Linked(m)
          /\ globals[parsing].fn /\ globals[parsing].def
      BY <2>2 DEF ScopesOK
    <3> QED BY <1>6, <1>7, <1>8, <2>2, <3>1 DEF Grows
  <2> QED BY <1>1, <2>1, <2>2 DEF ScopesOK, Linked
<1>10. ASSUME NEW j \in DOMAIN scopes, NEW m \in DOMAIN scopes[j]
       PROVE  CodeInC(j, m)'
  <2>1. Level(j) \in DOMAIN cscopes /\ CodeInC(j, m)
    BY LevelIs DEF BindingsOK
  <2> QED BY <1>1, <1>6, <2>1, CodeStays
<1>11. ASSUME NEW k \in DOMAIN cscopes', NEW m \in DOMAIN cscopes'[k]
       PROVE  CInCode(k, m)'
  <2>1. CASE m = n
    <3>1. \A l \in DOMAIN cscopes : n \in DOMAIN cscopes'[l] => cscopes'[l][n] = Linked(n)
      BY <1>4, <1>5
    <3>2. \A l \in 1..k : l \in DOMAIN cscopes
      BY <1>4, LevelIs
    <3>3. cscopes'[k][n] = Linked(n) /\ Linked(n).kind = "linked"
      BY <1>4, <2>1, <3>1 DEF Linked
    <3> QED BY <2>1, <3>1, <3>2, <3>3 DEF CInCode, Linked
  <2>2. CASE m # n
    <3>1. k \in DOMAIN cscopes /\ m \in DOMAIN cscopes[k] /\ \A l \in 1..k : l \in DOMAIN cscopes
      BY <1>4, <2>2, LevelIs
    <3>2. \A l \in 1..k : m \in DOMAIN cscopes'[l] =>
            m \in DOMAIN cscopes[l] /\ cscopes'[l][m] = cscopes[l][m]
      BY <1>4, <1>6, <2>2, <3>1
    <3>3. CInCode(k, m) /\ cscopes'[k][m] = cscopes[k][m]
      BY <1>6, <3>1 DEF BindingsOK
    <3> QED BY <1>1, <3>2, <3>3, CStays
  <2> QED BY <2>1, <2>2
<1> QED BY <1>1, <1>4, <1>9, <1>10, <1>11 DEF BindingsOK

\* A name without linkage is bound in both.
LEMMA BothBound ==
  ASSUME TypeOK, ScopesOK, BindingsOK, Grows, parsing' = parsing,
         NEW n \in Names, NEW b \in Bindings, Undeclared(n), b.kind # "linked",
         scopes' = BindLast(scopes, n, b), cscopes' = BindLast(cscopes, n, b),
         b.kind = "global" => b.id \in DOMAIN globals' /\ globals'[b.id].name \notin Names
  PROVE  scopes' \in Seq(Scopes) /\ cscopes' \in Seq(Scopes) /\ ScopesOK' /\ BindingsOK'
<1>1. PICK L \in Nat, K \in Nat :
        L = Len(cscopes) /\ L >= 1 /\ K = Len(scopes) /\ K >= 1 /\ Level(K) = L
  BY LevelIs
<1>2. /\ cscopes' \in Seq(Scopes) /\ Len(cscopes') = L /\ DOMAIN cscopes' = DOMAIN cscopes
      /\ \A k \in DOMAIN cscopes : k # L => cscopes'[k] = cscopes[k]
      /\ L \in DOMAIN cscopes /\ DOMAIN cscopes'[L] = DOMAIN cscopes[L] \cup {n}
      /\ cscopes'[L][n] = b
      /\ \A m \in DOMAIN cscopes[L] : m # n => cscopes'[L][m] = cscopes[L][m]
  BY <1>1, BindLastIs DEF TypeOK
<1>3. /\ scopes' \in Seq(Scopes) /\ Len(scopes') = K /\ DOMAIN scopes' = DOMAIN scopes
      /\ \A k \in DOMAIN scopes : k # K => scopes'[k] = scopes[k]
      /\ K \in DOMAIN scopes /\ DOMAIN scopes'[K] = DOMAIN scopes[K] \cup {n}
      /\ scopes'[K][n] = b
      /\ \A m \in DOMAIN scopes[K] : m # n => scopes'[K][m] = scopes[K][m]
  BY <1>1, BindLastIs DEF TypeOK
<1>4. n \notin DOMAIN cscopes[L]
  BY <1>1 DEF Undeclared
<1>5. \A k \in DOMAIN cscopes : \A m \in DOMAIN cscopes[k] :
        m \in DOMAIN cscopes'[k] /\ cscopes'[k][m] = cscopes[k][m]
  BY <1>2, <1>4
\* The code binds it in that scope only if the function being parsed is named so, and then
\* further out.
<1>6. n \notin DOMAIN scopes[K]
  <2> SUFFICES ASSUME n \in DOMAIN scopes[K]
               PROVE  FALSE
    OBVIOUS
  <2>1. CodeInC(K, n) /\ n \notin DOMAIN cscopes[Level(K)]
    BY <1>1, <1>3, <1>4 DEF BindingsOK
  <2>2. K = 2 /\ parsing # 0
    BY <2>1 DEF CodeInC
  <2>3. K >= 3
    BY <1>1, <2>2 DEF ScopesOK
  <2> QED BY <1>1, <2>2, <2>3
<1>7. \A k \in DOMAIN scopes : \A m \in DOMAIN scopes[k] :
        m \in DOMAIN scopes'[k] /\ scopes'[k][m] = scopes[k][m]
  BY <1>3, <1>6
<1>8. parsing # 0 => parsing \in DOMAIN globals
  BY DEF TypeOK
<1>9. 1 \in DOMAIN cscopes
  BY LevelIs
<1>10. ScopesOK'
  <2>1. Len(scopes') = Len(scopes) /\ Len(cscopes') = Len(cscopes)
    BY <1>1, <1>2, <1>3
  <2>2. ASSUME parsing # 0, NEW m, m = globals[parsing].name
        PROVE  /\ globals'[parsing].name = m /\ globals'[parsing].fn /\ globals'[parsing].def
               /\ m \in DOMAIN cscopes'[1] /\ cscopes'[1][m] = Linked(m)
    <3>1. m \in DOMAIN cscopes[1] /\ cscopes[1][m] = Linked(m)
          /\ globals[parsing].fn /\ globals[parsing].def
      BY <2>2 DEF ScopesOK
    <3> QED BY <1>5, <1>8, <1>9, <2>2, <3>1 DEF Grows
  <2> QED BY <2>1, <2>2 DEF ScopesOK, Linked
<1>11. ASSUME NEW j \in DOMAIN scopes', NEW m \in DOMAIN scopes'[j]
       PROVE  CodeInC(j, m)'
  <2>1. CASE j = K /\ m = n
    BY <1>1, <1>2, <1>3, <2>1 DEF CodeInC
  <2>2. CASE ~(j = K /\ m = n)
    <3>1. j \in DOMAIN scopes /\ m \in DOMAIN scopes[j] /\ scopes'[j][m] = scopes[j][m]
      BY <1>3, <2>2
    <3>2. Level(j) \in DOMAIN cscopes /\ CodeInC(j, m)
      BY <3>1, LevelIs DEF BindingsOK
    <3> QED BY <1>5, <3>1, <3>2, CodeStays
  <2> QED BY <2>1, <2>2
<1>12. ASSUME NEW k \in DOMAIN cscopes', NEW m \in DOMAIN cscopes'[k]
       PROVE  CInCode(k, m)'
  <2>1. CASE k = L /\ m = n
    <3>1. K \in DOMAIN scopes' /\ Level(K) = k /\ n \in DOMAIN scopes'[K] /\ scopes'[K][n] = b
      BY <1>1, <1>3, <2>1
    <3> QED BY <1>2, <2>1, <3>1 DEF CInCode
  <2>2. CASE ~(k = L /\ m = n)
    <3>1. k \in DOMAIN cscopes /\ m \in DOMAIN cscopes[k] /\ cscopes'[k][m] = cscopes[k][m]
      BY <1>2, <2>2
    <3>2. \A l \in 1..k : l \in DOMAIN cscopes /\ (l = L => k = L)
      BY <1>1, <3>1, LevelIs
    <3>3. \A l \in 1..k : m \in DOMAIN cscopes'[l] =>
            m \in DOMAIN cscopes[l] /\ cscopes'[l][m] = cscopes[l][m]
      BY <1>2, <1>5, <2>2, <3>2
    <3>4. CInCode(k, m)
      BY <3>1 DEF BindingsOK
    <3> QED BY <1>3, <1>7, <3>1, <3>3, <3>4, CStays
  <2> QED BY <2>1, <2>2
<1> QED BY <1>2, <1>3, <1>10, <1>11, <1>12 DEF BindingsOK

LEMMA Appended ==
  ASSUME NEW stack \in Seq(Scopes), NEW s \in Scopes, NEW N, N = Len(stack),
         NEW new, new = Append(stack, s)
  PROVE  /\ new \in Seq(Scopes) /\ Len(new) = N + 1 /\ new[N + 1] = s
         /\ DOMAIN new = DOMAIN stack \cup {N + 1} /\ \A j \in DOMAIN stack : new[j] = stack[j]
OBVIOUS

LEMMA NoNamesIs == NoNames \in Scopes /\ DOMAIN NoNames = {}
<1>1. NoNames \in [{} -> Bindings] /\ {} \in SUBSET Names
  BY DEF NoNames
<1> QED BY <1>1 DEF Scopes

\* A scope is opened in both, and closed in both.
LEMMA ScopeOpened ==
  ASSUME TypeOK, ScopesOK, BindingsOK, Grows, parsing # 0, parsing' = parsing,
         scopes' = Append(scopes, NoNames), cscopes' = Append(cscopes, NoNames)
  PROVE  scopes' \in Seq(Scopes) /\ cscopes' \in Seq(Scopes) /\ ScopesOK' /\ BindingsOK'
<1>1. PICK L \in Nat, K \in Nat : L = Len(cscopes) /\ K = Len(scopes)
  BY LevelIs
<1>2. NoNames \in Scopes /\ DOMAIN NoNames = {}
  BY NoNamesIs
<1>3. /\ scopes' \in Seq(Scopes) /\ Len(scopes') = K + 1 /\ scopes'[K + 1] = NoNames
      /\ DOMAIN scopes' = DOMAIN scopes \cup {K + 1} /\ \A j \in DOMAIN scopes : scopes'[j] = scopes[j]
  BY <1>1, <1>2, Appended DEF TypeOK
<1>4. /\ cscopes' \in Seq(Scopes) /\ Len(cscopes') = L + 1 /\ cscopes'[L + 1] = NoNames
      /\ DOMAIN cscopes' = DOMAIN cscopes \cup {L + 1}
      /\ \A k \in DOMAIN cscopes : cscopes'[k] = cscopes[k]
  BY <1>1, <1>2, Appended DEF TypeOK
<1>5. parsing \in DOMAIN globals /\ 1 \in DOMAIN cscopes
  BY LevelIs DEF TypeOK
<1>6. ScopesOK'
  <2>1. /\ globals'[parsing].name = globals[parsing].name /\ globals'[parsing].fn
        /\ globals'[parsing].def
    BY <1>5 DEF ScopesOK, Grows
  <2>2. K = L + 1 /\ L >= 2
    BY <1>1 DEF ScopesOK
  <2> QED BY <1>1, <1>3, <1>4, <1>5, <2>1, <2>2 DEF ScopesOK, Linked
<1>7. ASSUME NEW j \in DOMAIN scopes', NEW m \in DOMAIN scopes'[j]
      PROVE  CodeInC(j, m)'
  <2>1. j \in DOMAIN scopes /\ m \in DOMAIN scopes[j]
    BY <1>2, <1>3
  <2>2. Level(j) \in DOMAIN cscopes /\ CodeInC(j, m)
    BY <2>1, LevelIs DEF BindingsOK
  <2> QED BY <1>3, <1>4, <2>1, <2>2, CodeStays
<1>8. ASSUME NEW k \in DOMAIN cscopes', NEW m \in DOMAIN cscopes'[k]
      PROVE  CInCode(k, m)'
  <2>1. k \in DOMAIN cscopes /\ m \in DOMAIN cscopes[k]
    BY <1>2, <1>4
  <2>2. \A l \in 1..k : l \in DOMAIN cscopes
    BY <2>1, LevelIs
  <2>3. CInCode(k, m)
    BY <2>1 DEF BindingsOK
  <2> QED BY <1>3, <1>4, <2>1, <2>2, <2>3, CStays
<1> QED BY <1>3, <1>4, <1>6, <1>7, <1>8 DEF BindingsOK

LEMMA FrontIs ==
  ASSUME NEW stack \in Seq(Scopes), NEW N, N = Len(stack), N >= 1, NEW new, new = Front(stack)
  PROVE  /\ new \in Seq(Scopes) /\ Len(new) = N - 1 /\ DOMAIN new = 1..(N - 1)
         /\ \A j \in 1..(N - 1) : j \in DOMAIN stack /\ new[j] = stack[j]
BY DEF Front

LEMMA ScopeClosed ==
  ASSUME TypeOK, ScopesOK, BindingsOK, Grows, Len(scopes) > 3, parsing' = parsing,
         scopes' = Front(scopes), cscopes' = Front(cscopes)
  PROVE  scopes' \in Seq(Scopes) /\ cscopes' \in Seq(Scopes) /\ ScopesOK' /\ BindingsOK'
<1>1. PICK M \in Nat : M >= 2 /\ Len(cscopes) = M + 1 /\ Len(scopes) = M + 2 /\ parsing # 0
  <2>1. PICK K \in Nat, L \in Nat : K = Len(scopes) /\ L = Len(cscopes) /\ K > 3
    BY LevelIs
  <2>2. K = L + 1 /\ parsing # 0
    BY <2>1 DEF ScopesOK
  <2>3. L - 1 \in Nat /\ L - 1 >= 2 /\ L = (L - 1) + 1 /\ K = (L - 1) + 2
    BY <2>1, <2>2
  <2> QED BY <2>1, <2>2, <2>3
<1>2. /\ scopes' \in Seq(Scopes) /\ Len(scopes') = M + 1 /\ DOMAIN scopes' = 1..(M + 1)
      /\ \A j \in 1..(M + 1) : j \in DOMAIN scopes /\ scopes'[j] = scopes[j]
  <2>1. PICK N, new : N = Len(scopes) /\ new = scopes'
    OBVIOUS
  <2>2. N >= 1
    BY <1>1, <2>1
  <2>3. scopes \in Seq(Scopes) /\ new = Front(scopes)
    BY <2>1 DEF TypeOK
  <2>4. /\ new \in Seq(Scopes) /\ Len(new) = N - 1 /\ DOMAIN new = 1..(N - 1)
        /\ \A j \in 1..(N - 1) : j \in DOMAIN scopes /\ new[j] = scopes[j]
    BY ONLY <2>1, <2>2, <2>3, FrontIs
  <2>5. N - 1 = M + 1
    BY <1>1, <2>1
  <2> QED BY ONLY <2>1, <2>4, <2>5
<1>3. /\ cscopes' \in Seq(Scopes) /\ Len(cscopes') = M /\ DOMAIN cscopes' = 1..M
      /\ \A k \in 1..M : k \in DOMAIN cscopes /\ cscopes'[k] = cscopes[k]
  <2>1. PICK N, new : N = Len(cscopes) /\ new = cscopes'
    OBVIOUS
  <2>2. N >= 1
    BY <1>1, <2>1
  <2>3. cscopes \in Seq(Scopes) /\ new = Front(cscopes)
    BY <2>1 DEF TypeOK
  <2>4. /\ new \in Seq(Scopes) /\ Len(new) = N - 1 /\ DOMAIN new = 1..(N - 1)
        /\ \A k \in 1..(N - 1) : k \in DOMAIN cscopes /\ new[k] = cscopes[k]
    BY ONLY <2>1, <2>2, <2>3, FrontIs
  <2>5. N - 1 = M
    BY <1>1, <2>1
  <2> QED BY ONLY <2>1, <2>4, <2>5
<1>4. parsing \in DOMAIN globals /\ 1 \in 1..M
  BY <1>1 DEF TypeOK
<1>5. ScopesOK'
  <2>1. /\ globals'[parsing].name = globals[parsing].name /\ globals'[parsing].fn
        /\ globals'[parsing].def
    BY <1>1, <1>4 DEF ScopesOK, Grows
  <2> QED BY <1>1, <1>2, <1>3, <1>4, <2>1 DEF ScopesOK, Linked
<1>6. ASSUME NEW j \in DOMAIN scopes', NEW m \in DOMAIN scopes'[j]
      PROVE  CodeInC(j, m)'
  <2>1. j \in 1..(M + 1) /\ Level(j) \in 1..M
    BY <1>1, <1>2 DEF Level
  <2>2. CodeInC(j, m)
    BY <1>2, <2>1 DEF BindingsOK
  <2> QED BY <1>2, <1>3, <2>1, <2>2, CodeStays
<1>7. ASSUME NEW k \in DOMAIN cscopes', NEW m \in DOMAIN cscopes'[k]
      PROVE  CInCode(k, m)'
  <2>1. k \in 1..M /\ \A l \in 1..k : l \in 1..M
    BY <1>3
  <2>2. \A j \in DOMAIN scopes : Level(j) = k => j \in 1..(M + 1)
    BY <1>1, <2>1, LevelIs DEF Level
  <2>3. CInCode(k, m)
    BY <1>3, <2>1 DEF BindingsOK
  <2> QED BY <1>2, <1>3, <2>1, <2>2, <2>3, CStays
<1> QED BY <1>2, <1>3, <1>5, <1>6, <1>7 DEF BindingsOK

LEMMA FunctionEnded ==
  ASSUME TypeOK, ScopesOK, BindingsOK, Grows, Len(scopes) = 3, parsing' = 0,
         scopes' = <<scopes[1]>>, cscopes' = <<cscopes[1]>>
  PROVE  scopes' \in Seq(Scopes) /\ cscopes' \in Seq(Scopes) /\ ScopesOK' /\ BindingsOK'
<1>1. 1 \in DOMAIN scopes /\ 1 \in DOMAIN cscopes /\ scopes[1] \in Scopes /\ cscopes[1] \in Scopes
  BY LevelIs DEF TypeOK
<1>2. /\ scopes' \in Seq(Scopes) /\ Len(scopes') = 1 /\ DOMAIN scopes' = {1} /\ scopes'[1] = scopes[1]
  BY <1>1
<1>3. /\ cscopes' \in Seq(Scopes) /\ Len(cscopes') = 1 /\ DOMAIN cscopes' = {1}
      /\ cscopes'[1] = cscopes[1]
  BY <1>1
<1>4. ScopesOK'
  BY <1>2, <1>3 DEF ScopesOK
<1>5. Level(1) = 1 /\ \A j \in DOMAIN scopes : Level(j) = 1 => j = 1
  BY LevelIs DEF Level
<1>6. ASSUME NEW m \in DOMAIN scopes[1]
      PROVE  CodeInC(1, m)'
  <2>1. CodeInC(1, m)
    BY <1>1 DEF BindingsOK
  <2> QED BY <1>2, <1>3, <1>5, <2>1 DEF CodeInC
<1>7. ASSUME NEW m \in DOMAIN cscopes[1]
      PROVE  CInCode(1, m)'
  <2>1. CInCode(1, m)
    BY <1>1 DEF BindingsOK
  <2>2. \A l \in 1..1 : l = 1
    OBVIOUS
  <2> QED BY <1>2, <1>3, <1>5, <2>1, <2>2, CStays
<1> QED BY <1>2, <1>3, <1>4, <1>6, <1>7 DEF BindingsOK

LEMMA TwoAppended ==
  ASSUME NEW stack \in Seq(Scopes), NEW s \in Scopes, NEW t \in Scopes, NEW N, N = Len(stack),
         NEW new, new = stack \o <<s, t>>
  PROVE  /\ new \in Seq(Scopes) /\ Len(new) = N + 2 /\ DOMAIN new = 1..(N + 2)
         /\ new[N + 1] = s /\ new[N + 2] = t /\ \A j \in 1..N : new[j] = stack[j]
<1>1. PICK top : top = <<s, t>>
  OBVIOUS
<1>2. top \in Seq(Scopes) /\ Len(top) = 2 /\ top[1] = s /\ top[2] = t
  BY <1>1
<1>3. N \in Nat /\ new = stack \o top
  BY <1>1
<1> QED BY <1>2, <1>3

\* The two scopes of a function, one in C.
LEMMA FunctionOpened ==
  ASSUME TypeOK, ScopesOK, BindingsOK, Grows, parsing = 0,
         NEW it, it.name \in Names, it.with \subseteq Names, Redeclarable(it.name),
         NEW i \in Nat, i # 0, i \in DOMAIN globals', globals'[i].name = it.name, globals'[i].fn,
         globals'[i].def, parsing' = i,
         scopes' = scopes \o <<OwnScope(it, i), NoNames>>,
         cscopes' = Append(BindLast(cscopes, it.name, Linked(it.name)),
                           [m \in it.with |-> Local(items)])
  PROVE  scopes' \in Seq(Scopes) /\ cscopes' \in Seq(Scopes) /\ ScopesOK' /\ BindingsOK'
<1> PICK n \in Names : n = it.name
  OBVIOUS
<1>1. PICK own, params :
        /\ n = it.name /\ own = OwnScope(it, i) /\ params = [m \in it.with |-> Local(items)]
  OBVIOUS
<1>2. /\ Len(scopes) = 1 /\ Len(cscopes) = 1 /\ DOMAIN scopes = {1} /\ DOMAIN cscopes = {1}
  BY LevelIs DEF ScopesOK
<1>3. /\ Linked(n) \in Bindings /\ Linked(n).kind = "linked"
      /\ Local(items) \in Bindings /\ Local(items).kind = "local"
      /\ Global(i) \in Bindings /\ Global(i).kind = "global"
  BY DEF Linked, Local, Global, Bindings, TypeOK
<1>4. own \in Scopes /\ params \in Scopes
  <2>1. /\ own \in [{n} \cup it.with -> Bindings] /\ {n} \cup it.with \in SUBSET Names
        /\ params \in [it.with -> Bindings] /\ it.with \in SUBSET Names
    BY <1>1, <1>3 DEF OwnScope
  <2> QED BY <2>1 DEF Scopes
<1>5. /\ DOMAIN own = {n} \cup it.with /\ DOMAIN params = it.with
      /\ \A m \in it.with : own[m] = Local(items) /\ params[m] = Local(items)
      /\ n \notin it.with => own[n] = Global(i)
  BY <1>1 DEF OwnScope
<1>6. /\ scopes' \in Seq(Scopes) /\ Len(scopes') = 3 /\ DOMAIN scopes' = {1, 2, 3}
      /\ scopes'[1] = scopes[1] /\ scopes'[2] = own /\ scopes'[3] = NoNames
  <2>1. PICK N, new : N = Len(scopes) /\ new = scopes'
    OBVIOUS
  <2>2. scopes \in Seq(Scopes) /\ NoNames \in Scopes /\ new = scopes \o <<own, NoNames>>
    BY <1>1, <2>1, NoNamesIs DEF TypeOK
  <2>3. /\ new \in Seq(Scopes) /\ Len(new) = N + 2 /\ DOMAIN new = 1..(N + 2)
        /\ new[N + 1] = own /\ new[N + 2] = NoNames /\ \A j \in 1..N : new[j] = scopes[j]
    BY ONLY <1>4, <2>1, <2>2, TwoAppended
  <2>4. N = 1
    BY <1>2, <2>1
  <2>5. N + 1 = 2 /\ N + 2 = 3 /\ 1 \in 1..N /\ 1..(N + 2) = {1, 2, 3}
    BY ONLY <2>4
  <2> QED BY ONLY <2>1, <2>3, <2>5
<1>7. PICK bound : bound = BindLast(cscopes, n, Linked(n))
  OBVIOUS
<1>8. /\ bound \in Seq(Scopes) /\ Len(bound) = 1 /\ DOMAIN bound[1] = DOMAIN cscopes[1] \cup {n}
      /\ bound[1][n] = Linked(n) /\ \A m \in DOMAIN cscopes[1] : m # n => bound[1][m] = cscopes[1][m]
  <2>1. PICK L : L = Len(cscopes)
    OBVIOUS
  <2>2. L >= 1 /\ cscopes \in Seq(Scopes)
    BY <1>2, <2>1 DEF TypeOK
  <2>3. /\ bound \in Seq(Scopes) /\ Len(bound) = L /\ DOMAIN bound[L] = DOMAIN cscopes[L] \cup {n}
        /\ bound[L][n] = Linked(n)
        /\ \A m \in DOMAIN cscopes[L] : m # n => bound[L][m] = cscopes[L][m]
    BY ONLY <1>3, <1>7, <2>1, <2>2, n \in Names, BindLastIs
  <2>4. L = 1
    BY <1>2, <2>1
  <2> QED BY ONLY <2>3, <2>4
<1>9. /\ cscopes' \in Seq(Scopes) /\ Len(cscopes') = 2 /\ DOMAIN cscopes' = {1, 2}
      /\ cscopes'[1] = bound[1] /\ cscopes'[2] = params
  <2>1. PICK N, new : N = Len(bound) /\ new = cscopes'
    OBVIOUS
  <2>2. new = Append(bound, params) /\ bound \in Seq(Scopes)
    BY <1>1, <1>7, <1>8, <2>1
  <2>3. /\ new \in Seq(Scopes) /\ Len(new) = N + 1 /\ new[N + 1] = params
        /\ DOMAIN new = DOMAIN bound \cup {N + 1} /\ \A j \in DOMAIN bound : new[j] = bound[j]
    BY ONLY <1>4, <2>1, <2>2, Appended
  <2>4. N = 1 /\ DOMAIN bound = {1}
    BY <1>8, <2>1
  <2>5. N + 1 = 2
    BY <2>4
  <2> QED BY ONLY <2>1, <2>3, <2>4, <2>5
<1>10. ScopesOK'
  BY <1>1, <1>6, <1>8, <1>9 DEF ScopesOK, Linked
<1>11. Called(n)' # {}
  BY <1>1 DEF Called
<1>12. n \in DOMAIN cscopes[1] => cscopes[1][n] = Linked(n)
  <2> SUFFICES ASSUME n \in DOMAIN cscopes[1]
               PROVE  cscopes[1][n] = Linked(n)
    OBVIOUS
  <2>1. Innermost(cscopes, n) = Linked(n)
    BY <1>1, <1>2 DEF Redeclarable, Undeclared
  <2>2. PICK k \in DOMAIN cscopes : Innermost(cscopes, n) = cscopes[k][n]
    BY <1>2, InnermostIs DEF TypeOK
  <2> QED BY <1>2, <2>1, <2>2
<1>13. Level(1) = 1 /\ Level(2) = 2
  BY DEF Level
<1>14. ASSUME NEW m \in DOMAIN scopes[1]
       PROVE  CodeInC(1, m)'
  <2>1. CodeInC(1, m)
    BY <1>2 DEF BindingsOK
  <2>2. /\ m \in DOMAIN cscopes[1] /\ scopes[1][m] = cscopes[1][m]
        /\ scopes[1][m].kind # "linked"
    BY <1>13, <2>1 DEF CodeInC
  <2>3. m # n
    BY <1>3, <1>12, <2>2
  <2> QED BY <1>6, <1>8, <1>9, <1>13, <2>2, <2>3 DEF CodeInC
<1>15. ASSUME NEW m \in DOMAIN own
       PROVE  CodeInC(2, m)'
  <2>1. CASE m \in it.with
    BY <1>3, <1>5, <1>6, <1>9, <1>13, <2>1 DEF CodeInC
  <2>2. CASE m = n /\ n \notin it.with
    BY <1>1, <1>5, <1>6, <2>2 DEF CodeInC
  <2> QED BY <1>5, <2>1, <2>2
<1>16. ASSUME NEW m \in DOMAIN bound[1]
       PROVE  CInCode(1, m)'
  <2>1. \A l \in 1..1 : l = 1
    OBVIOUS
  <2>2. CASE m = n
    BY <1>3, <1>8, <1>9, <1>11, <2>1, <2>2 DEF CInCode, Linked
  <2>3. CASE m # n
    <3>1. m \in DOMAIN cscopes[1] /\ cscopes'[1][m] = cscopes[1][m]
      BY <1>8, <1>9, <2>3
    <3>2. CInCode(1, m)
      BY <1>2, <3>1 DEF BindingsOK
    <3> QED BY <1>2, <1>6, <2>1, <3>1, <3>2, CStays
  <2> QED BY <2>2, <2>3
<1>17. ASSUME NEW m \in DOMAIN params
       PROVE  CInCode(2, m)'
  <2>1. cscopes'[2][m] = Local(items) /\ scopes'[2][m] = Local(items) /\ m \in DOMAIN scopes'[2]
    BY <1>5, <1>6, <1>9
  <2>2. 2 \in DOMAIN scopes' /\ Level(2) = 2
    BY <1>6, <1>13
  <2> QED BY <1>3, <2>1, <2>2 DEF CInCode
<1> QED BY <1>6, <1>9, <1>10, <1>14, <1>15, <1>16, <1>17, NoNamesIs DEF BindingsOK

(***************************************************************************)
(* How the objects change.                                                 *)
(***************************************************************************)
\* The objects of h are those of g but for what is recorded of mentions.
Alike(g, h) ==
  /\ h \in Seq(Objects) /\ Len(h) = Len(g) /\ DOMAIN h = DOMAIN g
  /\ \A i \in DOMAIN g :
       /\ h[i].name = g[i].name /\ h[i].fn = g[i].fn /\ h[i].def = g[i].def
       /\ h[i].tent = g[i].tent /\ h[i].given = g[i].given /\ h[i].tls = g[i].tls
       /\ h[i].live = g[i].live

LEMMA RefAdded ==
  ASSUME NEW g \in Seq(Objects), GlobalsOK(g), NEW p \in DOMAIN g, g[p].fn, g[p].def,
         NEW f \in Functions, Declared(g, f),
         NEW roots, RootsAre(g, roots), NEW refs, RefsAre(g, refs),
         NEW h, h = [g EXCEPT ![p].refs = Append(@, f)]
  PROVE  Alike(g, h) /\ GlobalsOK(h) /\ RootsAre(h, roots) /\ RefsAre(h, refs \cup {<<g[p].name, f>>})
<1>1. g[p] \in Objects /\ g[p].refs \in Seq(Functions) /\ Len(g) \in Nat /\ DOMAIN g = 1..Len(g)
  <2>1. g[p] \in Objects /\ Len(g) \in Nat /\ DOMAIN g = 1..Len(g)
    BY ONLY g \in Seq(Objects), p \in DOMAIN g
  <2>2. g[p].refs \in Seq(Functions)
    BY ONLY <2>1 DEF Objects
  <2> QED BY <2>1, <2>2
<1>2. PICK rs : rs = Append(g[p].refs, f)
  OBVIOUS
<1>3. /\ rs \in Seq(Functions) /\ rs # <<>>
      /\ \A e : (\E k \in DOMAIN rs : rs[k] = e) <=> (e = f \/ \E k \in DOMAIN g[p].refs : g[p].refs[k] = e)
  <2>1. PICK old \in Seq(Functions), N \in Nat : old = g[p].refs /\ N = Len(old)
    BY ONLY <1>1
  <2>2. /\ rs \in Seq(Functions) /\ DOMAIN rs = 1..(N + 1) /\ DOMAIN old = 1..N /\ rs[N + 1] = f
        /\ \A k \in 1..N : rs[k] = old[k]
    BY ONLY <1>2, <2>1, f \in Functions
  <2>3. ASSUME NEW e
        PROVE  (\E k \in 1..(N + 1) : rs[k] = e) <=> (e = f \/ \E k \in 1..N : old[k] = e)
    <3>1. \A k \in 1..(N + 1) : k \in 1..N \/ k = N + 1
      BY ONLY <2>1
    <3>2. 1..N \subseteq 1..(N + 1) /\ N + 1 \in 1..(N + 1)
      BY ONLY <2>1
    <3> QED BY ONLY <2>2, <3>1, <3>2
  <2>4. rs # <<>>
    BY ONLY <2>1, <2>2
  <2> QED BY <2>1, <2>2, <2>3, <2>4
<1>4. h = [g EXCEPT ![p] = [g[p] EXCEPT !.refs = rs]]
  BY <1>2
<1>5. PICK o : o = [g[p] EXCEPT !.refs = rs]
  OBVIOUS
<1>6. /\ o \in Objects /\ o.name = g[p].name /\ o.fn = g[p].fn /\ o.def = g[p].def
      /\ o.tent = g[p].tent /\ o.given = g[p].given /\ o.tls = g[p].tls /\ o.root = g[p].root
      /\ o.live = g[p].live /\ o.refs = rs
  BY <1>1, <1>3, <1>5 DEF Objects
<1>7. h \in Seq(Objects) /\ Len(h) = Len(g) /\ DOMAIN h = DOMAIN g /\ h[p] = o
      /\ \A i \in DOMAIN g : i # p => h[i] = g[i]
  <2>1. h = [g EXCEPT ![p] = o]
    BY ONLY <1>4, <1>5
  <2> QED BY ONLY <1>1, <1>6, <2>1, g \in Seq(Objects), p \in DOMAIN g
<1>8. Alike(g, h) /\ \A i \in DOMAIN g : h[i].root = g[i].root
  BY <1>6, <1>7 DEF Alike
<1>9. ASSUME NEW i \in DOMAIN g, NEW e
       PROVE  Refers(h, i, e) <=> Refers(g, i, e) \/ (i = p /\ e = f)
  <2>1. CASE i = p
    BY ONLY <1>3, <1>6, <1>7, <2>1 DEF Refers
  <2>2. CASE i # p
    BY ONLY <1>7, <2>2, i \in DOMAIN g DEF Refers
  <2> QED BY <2>1, <2>2
<1>10. GlobalsOK(h)
  <2>1. ASSUME NEW i \in DOMAIN h
        PROVE  WellNamed(h, i)
    <3>1. WellNamed(g, i)
      BY <1>7 DEF GlobalsOK
    <3>2. CASE i # p
      BY <1>7, <3>1, <3>2 DEF WellNamed
    <3>3. CASE i = p
      BY ONLY <1>3, <1>6, <1>7, <3>1, <3>3, g[p].fn, g[p].def DEF WellNamed
    <3> QED BY <3>2, <3>3
  <2>2. ASSUME NEW i \in DOMAIN h, NEW j \in DOMAIN h, i # j
        PROVE  DefinedOnce(h[i], h[j])
    <3>1. DefinedOnce(g[i], g[j])
      BY <1>7, <2>2 DEF GlobalsOK
    <3> QED BY <1>8, <2>2, <3>1 DEF DefinedOnce, Alike
  <2>3. ASSUME NEW i \in DOMAIN h, NEW e \in Functions, Refers(h, i, e)
        PROVE  Declared(h, e)
    <3>1. Declared(g, e)
      BY <1>7, <1>9, <2>3 DEF GlobalsOK
    <3> QED BY <1>8, <3>1 DEF Alike, Declared
  <2> QED BY <2>1, <2>2, <2>3 DEF GlobalsOK
<1>11. RootsAre(h, roots)
  BY <1>8 DEF RootsAre, Alike
<1>12. RefsAre(h, refs \cup {<<g[p].name, f>>})
  <2> SUFFICES ASSUME NEW d \in Functions, NEW e \in Functions
               PROVE  <<d, e>> \in refs \cup {<<g[p].name, f>>}
                        <=> \E i \in DOMAIN h : h[i].name = d /\ Refers(h, i, e)
    BY DEF RefsAre
  <2>1. <<d, e>> \in refs <=> \E i \in DOMAIN g : g[i].name = d /\ Refers(g, i, e)
    BY DEF RefsAre
  <2>2. /\ DOMAIN h = DOMAIN g
        /\ \A i \in DOMAIN g : h[i].name = g[i].name
    BY <1>8 DEF Alike
  <2>3. <<d, e>> = <<g[p].name, f>> <=> d = g[p].name /\ e = f
    OBVIOUS
  <2> QED BY <1>9, <2>1, <2>2, <2>3
<1> QED BY <1>8, <1>10, <1>11, <1>12

LEMMA RootAdded ==
  ASSUME NEW g \in Seq(Objects), GlobalsOK(g), NEW p \in DOMAIN g, g[p].fn,
         NEW roots, RootsAre(g, roots), NEW refs, RefsAre(g, refs),
         NEW h, h = [g EXCEPT ![p].root = TRUE]
  PROVE  Alike(g, h) /\ GlobalsOK(h) /\ RootsAre(h, roots \cup {g[p].name}) /\ RefsAre(h, refs)
<1>1. g[p] \in Objects /\ Len(g) \in Nat /\ DOMAIN g = 1..Len(g)
  OBVIOUS
<1>2. PICK o : o = [g[p] EXCEPT !.root = TRUE]
  OBVIOUS
<1>3. /\ o \in Objects /\ o.name = g[p].name /\ o.fn = g[p].fn /\ o.def = g[p].def
      /\ o.tent = g[p].tent /\ o.given = g[p].given /\ o.tls = g[p].tls /\ o.refs = g[p].refs
      /\ o.live = g[p].live /\ o.root
  BY <1>1, <1>2 DEF Objects
<1>4. h \in Seq(Objects) /\ Len(h) = Len(g) /\ DOMAIN h = DOMAIN g /\ h[p] = o
      /\ \A i \in DOMAIN g : i # p => h[i] = g[i]
  BY <1>2, <1>3
<1>5. Alike(g, h) /\ \A i \in DOMAIN g : h[i].refs = g[i].refs
  BY <1>3, <1>4 DEF Alike
<1>6. GlobalsOK(h)
  <2>1. ASSUME NEW i \in DOMAIN h
        PROVE  WellNamed(h, i)
    <3>1. CASE i # p
      BY <1>4, <3>1 DEF GlobalsOK, WellNamed
    <3>2. CASE i = p
      BY <1>3, <1>4, <3>2 DEF GlobalsOK, WellNamed
    <3> QED BY <3>1, <3>2
  <2>2. ASSUME NEW i \in DOMAIN h, NEW j \in DOMAIN h, i # j
        PROVE  DefinedOnce(h[i], h[j])
    <3>1. DefinedOnce(g[i], g[j])
      BY <1>4, <2>2 DEF GlobalsOK
    <3> QED BY <1>5, <2>2, <3>1 DEF DefinedOnce, Alike
  <2>3. ASSUME NEW i \in DOMAIN h, NEW e \in Functions, Refers(h, i, e)
        PROVE  Declared(h, e)
    <3>1. i \in DOMAIN g /\ Refers(g, i, e)
      BY <1>4, <1>5, <2>3 DEF Refers
    <3>2. Declared(g, e)
      BY <3>1 DEF GlobalsOK
    <3> QED BY <1>5, <3>2 DEF Alike, Declared
  <2> QED BY <2>1, <2>2, <2>3 DEF GlobalsOK
<1>7. RefsAre(h, refs)
  <2>1. DOMAIN h = DOMAIN g /\ \A i \in DOMAIN g : h[i].name = g[i].name
    BY <1>5 DEF Alike
  <2>2. \A i \in DOMAIN g : \A e : Refers(h, i, e) <=> Refers(g, i, e)
    BY <1>5 DEF Refers
  <2> SUFFICES ASSUME NEW d \in Functions, NEW e \in Functions
               PROVE  <<d, e>> \in refs <=> \E i \in DOMAIN h : h[i].name = d /\ Refers(h, i, e)
    BY DEF RefsAre
  <2>3. <<d, e>> \in refs <=> \E i \in DOMAIN g : g[i].name = d /\ Refers(g, i, e)
    BY DEF RefsAre
  <2> QED BY ONLY <2>1, <2>2, <2>3
<1>8. RootsAre(h, roots \cup {g[p].name})
  BY <1>3, <1>4 DEF RootsAre
<1> QED BY <1>5, <1>6, <1>7, <1>8

\* A mention is recorded as C understands it.
LEMMA Mention ==
  ASSUME TypeOK, ScopesOK, BindingsOK, GlobalsOK(globals), agreed,
         RootsAre(globals, croots), RefsAre(globals, crefs),
         NEW m \in SUBSET Names, \A x, y \in m : x = y, Meant(m), NEW gs, gs = Seen(m)
  PROVE  /\ Alike(globals, gs) /\ GlobalsOK(gs) /\ agreed'
         /\ RootsAre(gs, croots') /\ RefsAre(gs, crefs')
         /\ croots' \subseteq Functions /\ crefs' \subseteq Functions \X Functions
<1> DEFINE meant == UNION {FunctionsMeant(x, Innermost(cscopes, x)) : x \in m}
<1>1. /\ \A x \in m : Innermost(cscopes, x).kind # "unbound"
      /\ agreed' = (agreed /\ \A x \in m : SameMeaning(find_var(x), Innermost(cscopes, x)))
      /\ parsing = 0 => croots' = croots \cup meant /\ crefs' = crefs
      /\ parsing # 0 => /\ crefs' = crefs \cup {<<globals[parsing].name, f>> : f \in meant}
                        /\ croots' = croots
  BY DEF Meant
<1>2. \A x \in m : SameMeaning(find_var(x), Innermost(cscopes, x))
  BY <1>1, Agreement
<1>3. agreed'
  BY <1>1, <1>2
<1>4. /\ globals \in Seq(Objects) /\ croots \subseteq Functions /\ crefs \subseteq Functions \X Functions
      /\ parsing \in 0..Len(globals)
  BY DEF TypeOK
<1>5. Alike(globals, globals)
  BY <1>4 DEF Alike
\* Nothing is recorded if no function is meant.
<1>6. ASSUME meant = {}, gs = globals
      PROVE  /\ Alike(globals, gs) /\ GlobalsOK(gs) /\ RootsAre(gs, croots') /\ RefsAre(gs, crefs')
             /\ croots' \subseteq Functions /\ crefs' \subseteq Functions \X Functions
  <2>1. croots' = croots /\ crefs' = crefs
    <3>1. {<<globals[parsing].name, f>> : f \in meant} = {}
      BY <1>6
    <3> QED BY <1>1, <1>6, <3>1
  <2> QED BY <1>4, <1>5, <1>6, <2>1
<1>7. CASE m = {}
  BY <1>3, <1>6, <1>7 DEF Seen
<1>8. CASE m # {}
  <2>1. PICK n \in m : n = CHOOSE x \in m : TRUE
    BY <1>8
  <2>2. m = {n} /\ n \in Names
    BY <2>1
  <2>3. PICK b, c : b = find_var(n) /\ c = Innermost(cscopes, n)
    OBVIOUS
  <2>4. gs = Mentioned(globals, b) /\ meant = FunctionsMeant(n, c)
    BY <1>8, <2>1, <2>2, <2>3 DEF Seen
  <2>5. /\ c.kind = "linked" => /\ c.id = n /\ b.kind = "global" /\ b.id \in DOMAIN globals
                                /\ globals[b.id].name = n
        /\ c.kind # "linked" /\ b.kind = "global" =>
             b.id \in DOMAIN globals /\ globals[b.id].name \notin Names
    BY <1>1, <2>2, <2>3, Agreement
  <2>6. \A i \in DOMAIN globals : globals[i].fn <=> globals[i].name \in Functions
    BY DEF GlobalsOK, WellNamed
  <2>7. CASE c.kind # "linked" \/ n \notin Functions
    <3>1. meant = {}
      BY <2>4, <2>5, <2>7 DEF FunctionsMeant
    <3>2. gs = globals
      BY <2>4, <2>5, <2>6, <2>7, NamesApart DEF Mentioned
    <3> QED BY <1>3, <1>6, <3>1, <3>2
  <2>8. CASE c.kind = "linked" /\ n \in Functions
    <3>1. meant = {n}
      BY <2>4, <2>5, <2>8 DEF FunctionsMeant
    <3>2. b.kind = "global" /\ globals[b.id].fn /\ globals[b.id].name = n /\ b.id \in DOMAIN globals
      BY <2>5, <2>6, <2>8
    <3>3. CASE parsing = 0
      <4>1. PICK p : p = func_index(globals, n)
        OBVIOUS
      <4>2. p \in DOMAIN globals /\ globals[p].fn /\ globals[p].name = n
        BY <1>4, <3>2, <4>1, FuncIndex
      <4>3. gs = [globals EXCEPT ![p].root = TRUE]
        BY <2>4, <3>2, <3>3, <4>1 DEF Mentioned
      <4>4. Alike(globals, gs) /\ GlobalsOK(gs) /\ RootsAre(gs, croots \cup {n}) /\ RefsAre(gs, crefs)
        BY <1>4, <4>2, <4>3, RootAdded
      <4>5. croots' = croots \cup {n} /\ crefs' = crefs
        BY <1>1, <3>1, <3>3
      <4> QED BY <1>3, <1>4, <2>8, <4>4, <4>5
    <3>4. CASE parsing # 0
      <4>1. parsing \in DOMAIN globals /\ globals[parsing].fn /\ globals[parsing].def
        BY <1>4, <3>4 DEF ScopesOK
      <4>2. gs = [globals EXCEPT ![parsing].refs = Append(@, n)]
        BY <2>4, <3>2, <3>4 DEF Mentioned
      <4>3. /\ Alike(globals, gs) /\ GlobalsOK(gs) /\ RootsAre(gs, croots)
            /\ RefsAre(gs, crefs \cup {<<globals[parsing].name, n>>})
        <5>1. n \in Functions /\ Declared(globals, n)
          BY <2>8, <3>2 DEF Declared
        <5>2. PICK g, p : g = globals /\ p = parsing
          OBVIOUS
        <5>3. /\ g \in Seq(Objects) /\ GlobalsOK(g) /\ p \in DOMAIN g /\ g[p].fn /\ g[p].def
              /\ n \in Functions /\ Declared(g, n)
              /\ RootsAre(g, croots) /\ RefsAre(g, crefs) /\ gs = [g EXCEPT ![p].refs = Append(@, n)]
          BY <1>4, <4>1, <4>2, <5>1, <5>2
        <5>4. /\ Alike(g, gs) /\ GlobalsOK(gs) /\ RootsAre(gs, croots)
              /\ RefsAre(gs, crefs \cup {<<g[p].name, n>>})
          BY ONLY <5>3, RefAdded
        <5> QED BY <5>2, <5>4
      <4>4. crefs' = crefs \cup {<<globals[parsing].name, n>>} /\ croots' = croots
        BY <1>1, <3>1, <3>4
      <4>5. globals[parsing].name \in Functions
        BY <2>6, <4>1
      <4> QED BY <1>3, <1>4, <2>8, <4>3, <4>4, <4>5
    <3> QED BY <3>3, <3>4
  <2> QED BY <2>7, <2>8
<1> QED BY <1>7, <1>8

\* What a declaration makes, as object i.
Fresh(o, i) ==
  /\ o \in Objects /\ o.refs = <<>> /\ ~o.live
  /\ o.name \in Nat => o.name = i
  /\ o.name # alloca /\ (o.fn <=> o.name \in Functions)
  /\ o.tent <=> o.name \in Variables /\ o.def /\ ~o.given /\ ~o.tls
  /\ (o.given => o.def) /\ (o.root => o.fn)

\* An object is appended.
LEMMA Extended ==
  ASSUME NEW g \in Seq(Objects), GlobalsOK(g), NEW N, N = Len(g), NEW o, Fresh(o, N + 1),
         \A i \in DOMAIN g : DefinedOnce(g[i], o), NEW h, h = Append(g, o),
         NEW roots, RootsAre(g, roots), NEW refs, RefsAre(g, refs)
  PROVE  /\ h \in Seq(Objects) /\ Len(h) = N + 1 /\ DOMAIN h = DOMAIN g \cup {N + 1}
         /\ h[N + 1] = o /\ \A i \in DOMAIN g : h[i] = g[i]
         /\ GlobalsOK(h) /\ RefsAre(h, refs)
         /\ RootsAre(h, roots \cup IF o.root THEN {o.name} ELSE {})
<1>1. /\ h \in Seq(Objects) /\ Len(h) = N + 1 /\ DOMAIN h = DOMAIN g \cup {N + 1}
      /\ h[N + 1] = o /\ \A i \in DOMAIN g : h[i] = g[i]
  <2>1. o \in Objects
    BY DEF Fresh
  <2> QED BY ONLY <2>1, g \in Seq(Objects), N = Len(g), h = Append(g, o)
<1>2. N \in Nat /\ N + 1 \notin DOMAIN g
  BY ONLY g \in Seq(Objects), N = Len(g)
<1>3. GlobalsOK(h)
  <2>1. ASSUME NEW i \in DOMAIN h
        PROVE  WellNamed(h, i)
    <3>1. CASE i \in DOMAIN g
      <4>1. WellNamed(g, i)
        BY <3>1 DEF GlobalsOK
      <4> QED BY <1>1, <3>1, <4>1 DEF WellNamed
    <3>2. CASE i = N + 1
      BY <1>1, <3>2 DEF WellNamed, Fresh
    <3> QED BY <1>1, <3>1, <3>2
  <2>2. ASSUME NEW i \in DOMAIN h, NEW j \in DOMAIN h, i # j
        PROVE  DefinedOnce(h[i], h[j])
    <3>1. CASE i \in DOMAIN g /\ j \in DOMAIN g
      BY <1>1, <2>2, <3>1 DEF GlobalsOK
    <3>2. CASE i \in DOMAIN g /\ j = N + 1
      BY <1>1, <3>2
    <3>3. CASE i = N + 1 /\ j \in DOMAIN g
      <4>1. DefinedOnce(g[j], o)
        BY <3>3
      <4>2. o.fn = g[j].fn \/ o.name # g[j].name
        <5>1. WellNamed(g, j) /\ g[j] \in Objects
          BY <3>3 DEF GlobalsOK
        <5>2. o.fn \in BOOLEAN /\ g[j].fn \in BOOLEAN
          BY <5>1 DEF Objects, Fresh
        <5> QED BY <5>1, <5>2 DEF WellNamed, Fresh
      <4>3. DefinedOnce(o, g[j])
        BY <4>1, <4>2 DEF DefinedOnce
      <4> QED BY <1>1, <3>3, <4>3
    <3> QED BY <1>1, <2>2, <3>1, <3>2, <3>3
  <2>3. ASSUME NEW i \in DOMAIN h, NEW e \in Functions, Refers(h, i, e)
        PROVE  Declared(h, e)
    <3>1. i # N + 1
      <4>1. DOMAIN h[N + 1].refs = {}
        BY <1>1 DEF Fresh
      <4> QED BY <2>3, <4>1 DEF Refers
    <3>2. i \in DOMAIN g /\ Refers(g, i, e)
      BY <1>1, <2>3, <3>1 DEF Refers
    <3>3. Declared(g, e)
      BY <3>2 DEF GlobalsOK
    <3> QED BY <1>1, <3>3 DEF Declared
  <2> QED BY <2>1, <2>2, <2>3 DEF GlobalsOK
<1>4. RefsAre(h, refs)
  <2> SUFFICES ASSUME NEW d \in Functions, NEW e \in Functions
               PROVE  <<d, e>> \in refs <=> \E i \in DOMAIN h : h[i].name = d /\ Refers(h, i, e)
    BY DEF RefsAre
  <2>1. <<d, e>> \in refs <=> \E i \in DOMAIN g : g[i].name = d /\ Refers(g, i, e)
    BY DEF RefsAre
  <2>2. \A i \in DOMAIN g : Refers(h, i, e) <=> Refers(g, i, e)
    BY <1>1 DEF Refers
  <2>3. ~Refers(h, N + 1, e)
    <3>1. DOMAIN h[N + 1].refs = {}
      BY <1>1 DEF Fresh
    <3> QED BY <3>1 DEF Refers
  <2> QED BY ONLY <1>1, <2>1, <2>2, <2>3
<1>5. RootsAre(h, roots \cup IF o.root THEN {o.name} ELSE {})
  <2>1. CASE o.root
    BY <1>1, <2>1 DEF RootsAre
  <2>2. CASE ~o.root
    BY <1>1, <2>2 DEF RootsAre
  <2> QED BY <2>1, <2>2
<1> QED BY <1>1, <1>3, <1>4, <1>5

(***************************************************************************)
(* Declarations keep the invariants.                                       *)
(***************************************************************************)
LEMMA VariableObject ==
  ASSUME NEW it, it.name \in Variables, it.given \in BOOLEAN,
         NEW o, o = [Object(it.name) EXCEPT
                       !.def = Defines(it), !.static = "static" \in it.attr,
                       !.tls = "tls" \in it.attr, !.given = it.given,
                       !.tent = Tentative(it)]
  PROVE  /\ o \in Objects /\ o.name = it.name /\ ~o.fn /\ o.given = it.given /\ ~o.root /\ ~o.live
         /\ o.refs = <<>> /\ (o.def <=> Defines(it)) /\ (o.tls <=> "tls" \in it.attr)
         /\ (o.tent <=> Tentative(it))
<1>1. PICK d, s, t, e :
        /\ d \in BOOLEAN /\ s \in BOOLEAN /\ t \in BOOLEAN /\ e \in BOOLEAN
        /\ d = Defines(it) /\ s = ("static" \in it.attr) /\ t = ("tls" \in it.attr)
        /\ e = Tentative(it)
  <2>1. Defines(it) \in BOOLEAN
    BY DEF Defines
  <2>2. ("static" \in it.attr) \in BOOLEAN
    OBVIOUS
  <2>3. ("tls" \in it.attr) \in BOOLEAN
    OBVIOUS
  <2>4. Tentative(it) \in BOOLEAN
    BY DEF Tentative
  <2> QED BY Zenon, <2>1, <2>2, <2>3, <2>4
<1>2. o = [Object(it.name) EXCEPT !.def = d, !.static = s, !.tls = t, !.given = it.given, !.tent = e]
  BY <1>1
<1>3. it.name \in Names \cup Nat \cup {alloca} /\ <<>> \in Seq(Functions)
  BY NamesApart
<1>4. o = [name |-> it.name, fn |-> FALSE, def |-> d, tent |-> e, static |-> s,
           tls |-> t, given |-> it.given, root |-> FALSE, live |-> FALSE, refs |-> <<>>]
  BY <1>2 DEF Object
<1>5. o \in Objects
  BY ONLY <1>1, <1>3, <1>4, it.given \in BOOLEAN DEF Objects
<1>6. /\ o.name = it.name /\ o.fn = FALSE /\ o.given = it.given /\ o.root = FALSE /\ o.live = FALSE
      /\ o.refs = <<>> /\ o.def = d /\ o.tls = t /\ o.tent = e
  BY ONLY <1>4
<1> QED BY <1>1, <1>5, <1>6

LEMMA FunctionObject ==
  ASSUME NEW it, it.name \in Functions, NEW def \in BOOLEAN, NEW o, o = Function(it, def)
  PROVE  /\ o \in Objects /\ o.name = it.name /\ o.fn /\ o.def = def /\ ~o.given /\ ~o.live /\ ~o.tent
         /\ o.refs = <<>> /\ (o.root <=> ~StaticInline(it.attr))
<1>1. PICK s, t :
        /\ s \in BOOLEAN /\ t \in BOOLEAN /\ s = IsStatic(it.attr) /\ t = ~StaticInline(it.attr)
  <2>1. IsStatic(it.attr) \in BOOLEAN
    BY DEF IsStatic
  <2>2. (~StaticInline(it.attr)) \in BOOLEAN
    BY DEF StaticInline
  <2> QED BY Zenon, <2>1, <2>2
<1>2. it.name \in Names \cup Nat \cup {alloca} /\ <<>> \in Seq(Functions)
  BY NamesApart
<1>3. o = [name |-> it.name, fn |-> TRUE, def |-> def, tent |-> FALSE, static |-> s,
           tls |-> FALSE, given |-> FALSE, root |-> t, live |-> FALSE, refs |-> <<>>]
  BY <1>1 DEF Object, Function
<1>4. o \in Objects
  BY ONLY <1>1, <1>2, <1>3, def \in BOOLEAN DEF Objects
<1>5. /\ o.name = it.name /\ o.fn = TRUE /\ o.def = def /\ o.given = FALSE /\ o.live = FALSE
      /\ o.tent = FALSE /\ o.refs = <<>> /\ o.root = t
  BY ONLY <1>3
<1> QED BY <1>1, <1>4, <1>5

\* What a declaration leaves alone.
LEMMA StillParsing ==
  ASSUME TypeOK, phase = "parse", phase' = phase, next' = next, pending' = pending, dialect' = dialect,
         pending = <<>>, items' \in Nat, scopes' \in Seq(Scopes), cscopes' \in Seq(Scopes),
         globals' \in Seq(Objects), Len(globals') >= Len(globals), parsing' \in 0..Len(globals'),
         GlobalsOK(globals'), ScopesOK', BindingsOK', agreed',
         croots' \subseteq Functions, crefs' \subseteq Functions \X Functions,
         RootsAre(globals', croots'), RefsAre(globals', crefs'),
         \A i \in DOMAIN globals' : ~globals'[i].live
  PROVE  IInv'
<1>1. next' \in 0..Len(globals')
  <2>1. Len(globals) \in Nat /\ Len(globals') \in Nat /\ next \in 0..Len(globals)
    BY DEF TypeOK
  <2> QED BY <2>1
<1>2. TypeOK'
  BY <1>1 DEF TypeOK
<1>3. ParseInv'
  BY DEF ParseInv
<1>4. EmitsWhatIsNeeded' /\ EveryObjectOnce'
  BY DEF EmitsWhatIsNeeded, EveryObjectOnce
<1>5. GlobalsOK(globals)'
  OBVIOUS
<1> QED BY <1>2, <1>3, <1>4, <1>5 DEF IInv

LEMMA ItemOK ==
  ASSUME TypeOK, NEW it \in Items[dialect], NEW op, Item(it, op)
  PROVE  /\ phase = "parse" /\ it.op = op /\ items' \in Nat /\ dialect' = dialect
         /\ it.name \in Names /\ it.with \subseteq Names /\ it.given \in BOOLEAN
         /\ it.op \in {"prototype", "function"} => it.name \in Functions
         /\ it.op = "variable" => it.name \in Variables /\ ~(it.given /\ "extern" \in it.attr)
         /\ it.op \in {"variable", "static local"} => \A m, n \in it.with : m = n
<1>1. dialect \in Dialects /\ items \in Nat
  BY DEF TypeOK
<1>2. phase = "parse" /\ it.op = op /\ items' = items + 1 /\ dialect' = dialect
  BY DEF Item
<1>3. /\ it.name \in Names /\ it.with \subseteq Names /\ it.given \in BOOLEAN
      /\ it.op \in {"prototype", "function"} => it.name \in Functions
      /\ it.op = "variable" => it.name \in Variables /\ ~(it.given /\ "extern" \in it.attr)
      /\ it.op \in {"variable", "static local"} => \A m, n \in it.with : m = n
  BY <1>1, ItemsAssumption, Zenon
<1>4. items' \in Nat
  BY <1>1, <1>2
<1> QED BY ONLY <1>2, <1>3, <1>4, Zenon

LEMMA InParse ==
  ASSUME IInv, phase = "parse"
  PROVE  /\ TypeOK /\ GlobalsOK(globals) /\ ScopesOK /\ BindingsOK /\ agreed
         /\ RootsAre(globals, croots) /\ RefsAre(globals, crefs) /\ pending = <<>>
         /\ \A i \in DOMAIN globals : ~globals[i].live
         /\ globals \in Seq(Objects) /\ scopes \in Seq(Scopes) /\ cscopes \in Seq(Scopes)
         /\ Len(globals) \in Nat /\ DOMAIN globals = 1..Len(globals) /\ parsing \in 0..Len(globals)
         /\ croots \subseteq Functions /\ crefs \subseteq Functions \X Functions
<1>1. TypeOK /\ ParseInv /\ GlobalsOK(globals) /\ ScopesOK /\ BindingsOK /\ agreed
  BY DEF IInv
<1>2. globals \in Seq(Objects)
  BY <1>1 DEF TypeOK
<1>3. Len(globals) \in Nat /\ DOMAIN globals = 1..Len(globals)
  BY ONLY <1>2
<1> QED BY <1>1, <1>2, <1>3 DEF TypeOK, ParseInv

LEMMA GlobalVariableKeeps ==
  ASSUME IInv, NEW it \in Items[dialect], GlobalVariable(it)
  PROVE  IInv'
<1>1. /\ TypeOK /\ Item(it, "variable")
  BY DEF IInv, GlobalVariable
<1>2. /\ phase = "parse" /\ items' \in Nat /\ dialect' = dialect /\ it.name \in Names
      /\ it.name \in Variables /\ ~(it.given /\ "extern" \in it.attr) /\ it.given \in BOOLEAN
      /\ it.with \in SUBSET Names /\ \A x, y \in it.with : x = y
  BY <1>1, ItemOK
<1>3. /\ GlobalsOK(globals) /\ ScopesOK /\ BindingsOK /\ agreed
      /\ RootsAre(globals, croots) /\ RefsAre(globals, crefs) /\ pending = <<>>
      /\ \A i \in DOMAIN globals : ~globals[i].live
      /\ globals \in Seq(Objects) /\ Len(globals) \in Nat /\ DOMAIN globals = 1..Len(globals)
      /\ scopes \in Seq(Scopes) /\ parsing \in 0..Len(globals)
  BY <1>2, InParse
<1>4. PICK gs, o :
        /\ gs = Seen(it.with)
        /\ o = [Object(it.name) EXCEPT
                  !.def = Defines(it), !.static = "static" \in it.attr,
                  !.tls = "tls" \in it.attr, !.given = it.given,
                  !.tent = Tentative(it)]
  OBVIOUS
<1>5. /\ parsing # 0 => Unhidden(it.name)
      /\ Redeclarable(it.name) /\ MayBeDeclared(it) /\ Meant(it.with)
      /\ globals' = Append(gs, o) /\ cscopes' = BindLast(cscopes, it.name, Linked(it.name))
      /\ scopes' = scopes /\ parsing' = parsing /\ phase' = phase /\ next' = next
      /\ pending' = pending
  BY <1>4 DEF GlobalVariable, InFunction
<1>6. /\ o \in Objects /\ o.name = it.name /\ ~o.fn /\ o.given = it.given /\ ~o.root /\ ~o.live
      /\ o.refs = <<>> /\ (o.def <=> Defines(it)) /\ (o.tls <=> "tls" \in it.attr)
      /\ (o.tent <=> Tentative(it))
  BY ONLY <1>2, <1>4, VariableObject
<1>7. /\ Alike(globals, gs) /\ GlobalsOK(gs) /\ agreed'
      /\ RootsAre(gs, croots') /\ RefsAre(gs, crefs')
      /\ croots' \subseteq Functions /\ crefs' \subseteq Functions \X Functions
  BY ONLY <1>1, <1>2, <1>3, <1>4, <1>5, Mention
<1>8. ASSUME NEW i \in DOMAIN gs
      PROVE  DefinedOnce(gs[i], o)
  <2> SUFFICES ASSUME gs[i].def, o.def, gs[i].name = it.name
               PROVE  /\ ~gs[i].fn
                      /\ ~Repeats => gs[i].given # o.given /\ ~gs[i].tls /\ ~o.tls
    BY <1>6 DEF DefinedOnce
  <2>1. /\ i \in DOMAIN globals /\ globals[i].def /\ globals[i].name = it.name
        /\ globals[i].fn = gs[i].fn /\ globals[i].given = gs[i].given /\ globals[i].tls = gs[i].tls
    BY <1>7 DEF Alike
  <2>2. WellNamed(globals, i) /\ globals[i] \in Objects
    BY <1>3, <2>1 DEF GlobalsOK
  <2>3. globals[i].given \in BOOLEAN /\ globals[i].tls \in BOOLEAN /\ globals[i].fn \in BOOLEAN
    BY <2>2 DEF Objects
  <2>4. ~gs[i].fn
    BY <1>2, <2>1, <2>2, <2>3, NamesApart DEF WellNamed
  <2>5. /\ ~(it.given /\ globals[i].given)
        /\ globals[i].tls = ("tls" \in it.attr)
        /\ ~Repeats => (it.given \/ globals[i].given) /\ ~globals[i].tls
    BY <1>5, <1>6, <2>1 DEF MayBeDeclared, Called
  <2> QED BY <1>2, <1>6, <2>1, <2>3, <2>4, <2>5
<1>9. PICK N : N = Len(gs)
  OBVIOUS
<1>10. /\ gs \in Seq(Objects) /\ N = Len(globals) /\ DOMAIN gs = DOMAIN globals
       /\ \A i \in DOMAIN gs : gs[i].name = globals[i].name /\ gs[i].fn = globals[i].fn
                               /\ gs[i].def = globals[i].def /\ ~gs[i].live
  BY <1>3, <1>7, <1>9 DEF Alike
<1>11. /\ globals' \in Seq(Objects) /\ Len(globals') = N + 1 /\ DOMAIN globals' = DOMAIN gs \cup {N + 1}
       /\ globals'[N + 1] = o /\ \A i \in DOMAIN gs : globals'[i] = gs[i]
       /\ GlobalsOK(globals') /\ RefsAre(globals', crefs')
       /\ RootsAre(globals', croots' \cup IF o.root THEN {o.name} ELSE {})
  <2>1. /\ o.name \notin Nat /\ o.name # alloca /\ (o.fn <=> o.name \in Functions)
    BY <1>2, <1>6, NamesApart
  <2>2. /\ o.tent <=> o.name \in Variables /\ o.def /\ ~o.given /\ ~o.tls
        /\ o.given => o.def
    BY <1>2, <1>6 DEF Tentative, Defines
  <2>3. Fresh(o, N + 1)
    BY ONLY <1>6, <2>1, <2>2 DEF Fresh
  <2>4. PICK h : h = globals' /\ h = Append(gs, o)
    BY <1>5
  <2>5. /\ gs \in Seq(Objects) /\ GlobalsOK(gs) /\ RootsAre(gs, croots') /\ RefsAre(gs, crefs')
    BY <1>7, <1>10
  <2>6. /\ h \in Seq(Objects) /\ Len(h) = N + 1 /\ DOMAIN h = DOMAIN gs \cup {N + 1}
        /\ h[N + 1] = o /\ \A i \in DOMAIN gs : h[i] = gs[i]
    BY ONLY <1>6, <1>9, <2>4, <2>5
  <2>7. GlobalsOK(h)
    BY ONLY <1>8, <1>9, <2>3, <2>4, <2>5, Extended
  <2>8. RefsAre(h, crefs')
    BY ONLY <1>8, <1>9, <2>3, <2>4, <2>5, Extended
  <2>9. RootsAre(h, croots' \cup IF o.root THEN {o.name} ELSE {})
    BY ONLY <1>8, <1>9, <2>3, <2>4, <2>5, Extended
  <2> QED BY ONLY <2>4, <2>6, <2>7, <2>8, <2>9
<1>12. RootsAre(globals', croots')
  BY <1>6, <1>11
<1>13. Grows /\ Called(it.name)' # {}
  <2>1. Grows
    BY <1>10, <1>11 DEF Grows
  <2>2. N + 1 \in DOMAIN globals' /\ globals'[N + 1].name = it.name
    BY <1>6, <1>11
  <2> QED BY <2>1, <2>2 DEF Called
<1>14. cscopes' \in Seq(Scopes) /\ ScopesOK' /\ BindingsOK'
  BY ONLY <1>1, <1>2, <1>3, <1>5, <1>13, LinkedBound
<1>15. \A i \in DOMAIN globals' : ~globals'[i].live
  BY <1>6, <1>10, <1>11
<1>16. Len(globals') >= Len(globals) /\ parsing' \in 0..Len(globals')
  BY ONLY <1>3, <1>5, <1>10, <1>11
<1> QED BY ONLY <1>1, <1>2, <1>3, <1>5, <1>7, <1>11, <1>12, <1>14, <1>15, <1>16, StillParsing

\* An object without a name is nobody else's.
LEMMA AnonymousFits ==
  ASSUME NEW g \in Seq(Objects), GlobalsOK(g), NEW N \in Nat, N = Len(g),
         NEW s, s \in BOOLEAN, NEW e, e \in BOOLEAN,
         NEW a, a = [Anonymous(g) EXCEPT !.static = s, !.given = e]
  PROVE  /\ Fresh(a, N + 1) /\ a \in Objects /\ a.name = N + 1 /\ ~a.fn /\ ~a.root /\ ~a.live
         /\ \A i \in DOMAIN g : DefinedOnce(g[i], a)
<1>1. a = [Object(N + 1) EXCEPT !.static = s, !.given = e]
  BY DEF Anonymous, Object
<1>2. /\ a \in Objects /\ a.name = N + 1 /\ ~a.fn /\ a.def /\ a.given = e /\ ~a.root /\ ~a.live
      /\ ~a.tent /\ a.refs = <<>>
  <2>1. PICK k \in Nat : k = N + 1
    OBVIOUS
  <2>2. a = [name |-> k, fn |-> FALSE, def |-> TRUE, tent |-> FALSE, static |-> s,
             tls |-> FALSE, given |-> e, root |-> FALSE, live |-> FALSE, refs |-> <<>>]
    BY <1>1, <2>1 DEF Object
  <2>3. <<>> \in Seq(Functions)
    OBVIOUS
  <2>4. a \in Objects
    BY ONLY <2>1, <2>2, <2>3, s \in BOOLEAN, e \in BOOLEAN DEF Objects
  <2>5. /\ a.name = k /\ a.fn = FALSE /\ a.def = TRUE /\ a.given = e /\ a.root = FALSE
        /\ a.live = FALSE /\ a.tent = FALSE /\ a.refs = <<>>
    BY ONLY <2>2
  <2> QED BY <2>1, <2>4, <2>5
<1>3. Fresh(a, N + 1)
  <2>1. N + 1 \in Nat
    OBVIOUS
  <2>2. a.name \notin Functions /\ a.name \notin Variables /\ a.name # alloca
    BY <1>2, <2>1, NamesApart
  <2> QED BY ONLY <1>2, <2>2 DEF Fresh
<1>4. ASSUME NEW i \in DOMAIN g
      PROVE  DefinedOnce(g[i], a)
  <2>1. g[i].name # N + 1
    <3>1. i # N + 1 /\ N + 1 \in Nat
      OBVIOUS
    <3>2. WellNamed(g, i)
      BY DEF GlobalsOK
    <3> QED BY <3>1, <3>2 DEF WellNamed
  <2> QED BY <1>2, <2>1 DEF DefinedOnce
<1> QED BY <1>2, <1>3, <1>4

LEMMA AppendIs ==
  ASSUME NEW g \in Seq(Objects), NEW o \in Objects, NEW N, N = Len(g), NEW h, h = Append(g, o)
  PROVE  /\ h \in Seq(Objects) /\ Len(h) = N + 1 /\ DOMAIN h = DOMAIN g \cup {N + 1}
         /\ h[N + 1] = o /\ \A i \in DOMAIN g : h[i] = g[i]
OBVIOUS

LEMMA PrototypeKeeps ==
  ASSUME IInv, NEW it \in Items[dialect], Prototype(it)
  PROVE  IInv'
<1>1. TypeOK /\ Item(it, "prototype")
  BY DEF IInv, Prototype
<1>2. /\ phase = "parse" /\ items' \in Nat /\ dialect' = dialect /\ it.name \in Names
      /\ it.name \in Functions
  BY <1>1, ItemOK
<1>3. /\ GlobalsOK(globals) /\ ScopesOK /\ BindingsOK /\ agreed
      /\ RootsAre(globals, croots) /\ RefsAre(globals, crefs) /\ pending = <<>>
      /\ \A i \in DOMAIN globals : ~globals[i].live
      /\ globals \in Seq(Objects) /\ Len(globals) \in Nat /\ DOMAIN globals = 1..Len(globals)
      /\ scopes \in Seq(Scopes) /\ parsing \in 0..Len(globals)
      /\ croots \subseteq Functions /\ crefs \subseteq Functions \X Functions
  BY <1>2, InParse
<1>4. PICK o, N : o = Function(it, FALSE) /\ N = Len(globals)
  OBVIOUS
<1>5. /\ parsing # 0 => Unhidden(it.name)
      /\ Redeclarable(it.name)
      /\ globals' = Append(globals, o) /\ cscopes' = BindLast(cscopes, it.name, Linked(it.name))
      /\ croots' = croots \cup (IF StaticInline(it.attr) THEN {} ELSE {it.name})
      /\ scopes' = scopes /\ parsing' = parsing /\ phase' = phase /\ next' = next
      /\ pending' = pending /\ crefs' = crefs /\ agreed' = agreed
  BY <1>4 DEF Prototype, InFunction, RootIfNot
<1>6. /\ o \in Objects /\ o.name = it.name /\ o.fn /\ ~o.def /\ ~o.given /\ ~o.live /\ ~o.tent
      /\ o.refs = <<>> /\ (o.root <=> ~StaticInline(it.attr))
  BY ONLY <1>2, <1>4, FunctionObject
<1>7. Fresh(o, N + 1)
  <2>1. /\ o.name \notin Nat /\ o.name # alloca /\ o.name \in Functions /\ o.name \notin Variables
    BY <1>2, <1>6, NamesApart
  <2> QED BY ONLY <1>6, <2>1 DEF Fresh
<1>8. \A i \in DOMAIN globals : DefinedOnce(globals[i], o)
  BY <1>6 DEF DefinedOnce
<1>9. PICK g, h : g = globals /\ h = globals' /\ h = Append(g, o) /\ N = Len(g)
  BY <1>4, <1>5
<1>10. /\ g \in Seq(Objects) /\ GlobalsOK(g) /\ RootsAre(g, croots) /\ RefsAre(g, crefs)
       /\ \A i \in DOMAIN g : DefinedOnce(g[i], o)
  BY <1>3, <1>8, <1>9
<1>11. /\ h \in Seq(Objects) /\ Len(h) = N + 1 /\ DOMAIN h = DOMAIN g \cup {N + 1}
       /\ h[N + 1] = o /\ \A i \in DOMAIN g : h[i] = g[i]
  BY ONLY <1>6, <1>9, <1>10, AppendIs
<1>12. GlobalsOK(h)
  BY ONLY <1>7, <1>9, <1>10, Extended
<1>13. RefsAre(h, crefs)
  BY ONLY <1>7, <1>9, <1>10, Extended
<1>14. RootsAre(h, croots \cup IF o.root THEN {o.name} ELSE {})
  BY ONLY <1>7, <1>9, <1>10, Extended
<1>15. croots' = (croots \cup IF o.root THEN {o.name} ELSE {}) /\ croots' \subseteq Functions
  BY <1>2, <1>3, <1>5, <1>6
<1>16. Grows /\ Called(it.name)' # {}
  <2>1. Grows
    BY <1>9, <1>11 DEF Grows
  <2>2. N + 1 \in DOMAIN globals' /\ globals'[N + 1].name = it.name
    BY <1>6, <1>9, <1>11
  <2> QED BY <2>1, <2>2 DEF Called
<1>17. cscopes' \in Seq(Scopes) /\ ScopesOK' /\ BindingsOK'
  BY ONLY <1>1, <1>2, <1>3, <1>5, <1>16, LinkedBound
<1>18. \A i \in DOMAIN globals' : ~globals'[i].live
  BY <1>3, <1>6, <1>9, <1>11
<1>19. Len(globals') >= Len(globals) /\ parsing' \in 0..Len(globals')
  BY ONLY <1>3, <1>4, <1>5, <1>9, <1>11
<1>20. /\ globals' \in Seq(Objects) /\ GlobalsOK(globals') /\ RootsAre(globals', croots')
       /\ RefsAre(globals', crefs')
  BY ONLY <1>5, <1>9, <1>11, <1>12, <1>13, <1>14, <1>15
<1> QED BY ONLY <1>1, <1>2, <1>3, <1>5, <1>15, <1>17, <1>18, <1>19, <1>20, StillParsing

LEMMA DefinitionKeeps ==
  ASSUME IInv, NEW it \in Items[dialect], Definition(it)
  PROVE  IInv'
<1>1. TypeOK /\ Item(it, "function")
  BY DEF IInv, Definition
<1>2. /\ phase = "parse" /\ items' \in Nat /\ dialect' = dialect /\ it.name \in Names
      /\ it.name \in Functions /\ it.with \subseteq Names
  BY <1>1, ItemOK
<1>3. /\ GlobalsOK(globals) /\ ScopesOK /\ BindingsOK /\ agreed
      /\ RootsAre(globals, croots) /\ RefsAre(globals, crefs) /\ pending = <<>>
      /\ \A i \in DOMAIN globals : ~globals[i].live
      /\ globals \in Seq(Objects) /\ Len(globals) \in Nat /\ DOMAIN globals = 1..Len(globals)
      /\ croots \subseteq Functions /\ crefs \subseteq Functions \X Functions
  BY <1>2, InParse
<1>4. PICK g, N, o, own, a, h :
        /\ g = globals /\ N = Len(globals) /\ o = Function(it, TRUE) /\ own = Append(g, o)
        /\ a = Anonymous(own) /\ h = Append(own, a)
  OBVIOUS
<1>5. /\ parsing = 0 /\ Redeclarable(it.name) /\ \A i \in Called(it.name) : ~globals[i].def
      /\ globals' = h /\ parsing' = N + 1
      /\ scopes' = scopes \o <<OwnScope(it, N + 1), NoNames>>
      /\ cscopes' = Append(BindLast(cscopes, it.name, Linked(it.name)),
                           [m \in it.with |-> Local(items)])
      /\ croots' = croots \cup (IF StaticInline(it.attr) THEN {} ELSE {it.name})
      /\ phase' = phase /\ next' = next /\ pending' = pending /\ crefs' = crefs /\ agreed' = agreed
  BY <1>4 DEF Definition, InFunction, RootIfNot
<1>6. /\ o \in Objects /\ o.name = it.name /\ o.fn /\ o.def /\ ~o.given /\ ~o.live /\ ~o.tent
      /\ o.refs = <<>> /\ (o.root <=> ~StaticInline(it.attr))
  BY ONLY <1>2, <1>4, FunctionObject
<1>7. Fresh(o, N + 1)
  <2>1. /\ o.name \notin Nat /\ o.name # alloca /\ o.name \in Functions /\ o.name \notin Variables
    BY <1>2, <1>6, NamesApart
  <2> QED BY ONLY <1>6, <2>1 DEF Fresh
<1>8. \A i \in DOMAIN g : DefinedOnce(g[i], o)
  BY <1>4, <1>5, <1>6 DEF DefinedOnce, Called
<1>9. /\ g \in Seq(Objects) /\ GlobalsOK(g) /\ RootsAre(g, croots) /\ RefsAre(g, crefs)
      /\ N = Len(g) /\ N \in Nat /\ DOMAIN g = 1..N /\ own = Append(g, o)
  BY <1>3, <1>4
<1>10. /\ own \in Seq(Objects) /\ Len(own) = N + 1 /\ DOMAIN own = DOMAIN g \cup {N + 1}
       /\ own[N + 1] = o /\ \A i \in DOMAIN g : own[i] = g[i]
  BY ONLY <1>6, <1>9, AppendIs
<1>11. GlobalsOK(own)
  BY ONLY <1>7, <1>8, <1>9, Extended
<1>12. RefsAre(own, crefs)
  BY ONLY <1>7, <1>8, <1>9, Extended
<1>13. RootsAre(own, croots \cup IF o.root THEN {o.name} ELSE {})
  BY ONLY <1>7, <1>8, <1>9, Extended
<1>14. croots' = (croots \cup IF o.root THEN {o.name} ELSE {}) /\ croots' \subseteq Functions
  BY <1>2, <1>3, <1>5, <1>6
<1>15. PICK M \in Nat : M = N + 1 /\ M = Len(own)
  BY <1>9, <1>10
<1>16. a = [Anonymous(own) EXCEPT !.static = FALSE, !.given = FALSE]
  <2>1. PICK k : k = Len(own) + 1
    OBVIOUS
  <2>2. a = [name |-> k, fn |-> FALSE, def |-> TRUE, tent |-> FALSE, static |-> FALSE,
             tls |-> FALSE, given |-> FALSE, root |-> FALSE, live |-> FALSE, refs |-> <<>>]
    BY ONLY <1>4, <2>1 DEF Anonymous, Object
  <2>3. PICK b : b = [a EXCEPT !.static = FALSE, !.given = FALSE]
    OBVIOUS
  <2>4. b = [name |-> k, fn |-> FALSE, def |-> TRUE, tent |-> FALSE, static |-> FALSE,
             tls |-> FALSE, given |-> FALSE, root |-> FALSE, live |-> FALSE, refs |-> <<>>]
    BY ONLY <2>2, <2>3
  <2> QED BY ONLY <1>4, <2>2, <2>3, <2>4
<1>17. /\ Fresh(a, M + 1) /\ a \in Objects /\ a.name = M + 1 /\ ~a.fn /\ ~a.root /\ ~a.live
       /\ \A i \in DOMAIN own : DefinedOnce(own[i], a)
  <2>1. FALSE \in BOOLEAN
    OBVIOUS
  <2> QED BY ONLY <1>10, <1>11, <1>15, <1>16, <2>1, AnonymousFits
<1>18. own \in Seq(Objects) /\ M = Len(own) /\ h = Append(own, a) /\ RootsAre(own, croots')
  BY <1>4, <1>10, <1>13, <1>14, <1>15
<1>19. /\ h \in Seq(Objects) /\ Len(h) = M + 1 /\ DOMAIN h = DOMAIN own \cup {M + 1}
       /\ h[M + 1] = a /\ \A i \in DOMAIN own : h[i] = own[i]
  BY ONLY <1>17, <1>18, AppendIs
<1>20. GlobalsOK(h)
  BY ONLY <1>11, <1>12, <1>17, <1>18, Extended
<1>21. RefsAre(h, crefs)
  BY ONLY <1>11, <1>12, <1>17, <1>18, Extended
<1>22. RootsAre(h, croots' \cup IF a.root THEN {a.name} ELSE {})
  BY ONLY <1>11, <1>12, <1>17, <1>18, Extended
<1>23. RootsAre(h, croots')
  BY <1>17, <1>22
<1>24. Grows /\ M \in DOMAIN globals' /\ globals'[M] = o
  BY <1>4, <1>5, <1>10, <1>15, <1>19 DEF Grows
<1>25. /\ scopes' \in Seq(Scopes) /\ cscopes' \in Seq(Scopes) /\ ScopesOK' /\ BindingsOK'
  <2>1. /\ M # 0 /\ globals'[M].name = it.name /\ globals'[M].fn /\ globals'[M].def
        /\ parsing' = M /\ scopes' = scopes \o <<OwnScope(it, M), NoNames>>
    BY <1>5, <1>6, <1>9, <1>15, <1>24
  <2> QED BY ONLY <1>1, <1>2, <1>3, <1>5, <1>15, <1>24, <2>1, FunctionOpened
<1>26. \A i \in DOMAIN globals' : ~globals'[i].live
  <2>1. ASSUME NEW i \in DOMAIN own
        PROVE  ~own[i].live
    <3>1. CASE i \in DOMAIN g
      BY <1>3, <1>4, <1>10, <3>1
    <3>2. CASE i = N + 1
      BY <1>6, <1>10, <3>2
    <3> QED BY <1>10, <3>1, <3>2
  <2> QED BY ONLY <1>5, <1>17, <1>19, <2>1
<1>27. Len(globals') >= Len(globals) /\ parsing' \in 0..Len(globals')
  BY ONLY <1>4, <1>5, <1>9, <1>15, <1>19
<1>28. /\ globals' \in Seq(Objects) /\ GlobalsOK(globals') /\ RootsAre(globals', croots')
       /\ RefsAre(globals', crefs')
  BY ONLY <1>5, <1>19, <1>20, <1>21, <1>23
<1> QED BY ONLY <1>1, <1>2, <1>3, <1>5, <1>14, <1>25, <1>26, <1>27, <1>28, StillParsing

\* A step that leaves the objects alone.
LEMMA SameObjects ==
  ASSUME IInv, phase = "parse", phase' = phase, globals' = globals, next' = next, pending' = pending,
         dialect' = dialect, croots' = croots, crefs' = crefs, agreed' = agreed, items' \in Nat,
         scopes' \in Seq(Scopes), cscopes' \in Seq(Scopes), parsing' \in {parsing, 0},
         ScopesOK', BindingsOK'
  PROVE  IInv'
<1>1. /\ TypeOK /\ GlobalsOK(globals) /\ agreed
      /\ RootsAre(globals, croots) /\ RefsAre(globals, crefs) /\ pending = <<>>
      /\ \A i \in DOMAIN globals : ~globals[i].live
      /\ globals \in Seq(Objects) /\ Len(globals) \in Nat /\ parsing \in 0..Len(globals)
      /\ croots \subseteq Functions /\ crefs \subseteq Functions \X Functions
  BY InParse
<1>2. Len(globals') >= Len(globals) /\ parsing' \in 0..Len(globals')
  BY <1>1
<1>3. /\ globals' \in Seq(Objects) /\ GlobalsOK(globals') /\ agreed'
      /\ croots' \subseteq Functions /\ crefs' \subseteq Functions \X Functions
      /\ RootsAre(globals', croots') /\ RefsAre(globals', crefs')
      /\ \A i \in DOMAIN globals' : ~globals'[i].live
  BY <1>1
<1> QED BY <1>1, <1>2, <1>3, StillParsing

LEMMA ScopesFact ==
  ASSUME IInv, phase = "parse"
  PROVE  /\ TypeOK /\ ScopesOK /\ BindingsOK /\ items \in Nat
         /\ globals' = globals => Grows
<1>1. TypeOK /\ ScopesOK /\ BindingsOK /\ globals \in Seq(Objects)
  BY InParse
<1>2. globals' = globals => Grows
  BY <1>1 DEF Grows
<1> QED BY <1>1, <1>2 DEF TypeOK

LEMMA OpenBlockKeeps ==
  ASSUME IInv, NEW it \in Items[dialect], OpenBlock(it)
  PROVE  IInv'
<1>1. TypeOK /\ Item(it, "block")
  BY DEF IInv, OpenBlock
<1>2. phase = "parse" /\ items' \in Nat /\ dialect' = dialect
  BY <1>1, ItemOK
<1>3. /\ parsing # 0 /\ scopes' = Append(scopes, NoNames) /\ cscopes' = Append(cscopes, NoNames)
      /\ globals' = globals /\ parsing' = parsing /\ phase' = phase /\ next' = next
      /\ pending' = pending /\ croots' = croots /\ crefs' = crefs /\ agreed' = agreed
  BY DEF OpenBlock, InFunction
<1>4. scopes' \in Seq(Scopes) /\ cscopes' \in Seq(Scopes) /\ ScopesOK' /\ BindingsOK'
  BY <1>2, <1>3, ScopesFact, ScopeOpened
<1> QED BY <1>2, <1>3, <1>4, SameObjects

LEMMA CloseBlockKeeps ==
  ASSUME IInv, CloseBlock
  PROVE  IInv'
<1>1. /\ phase = "parse" /\ Len(scopes) > 3 /\ scopes' = Front(scopes) /\ cscopes' = Front(cscopes)
      /\ globals' = globals /\ parsing' = parsing /\ phase' = phase /\ next' = next
      /\ pending' = pending /\ croots' = croots /\ crefs' = crefs /\ agreed' = agreed
      /\ items' = items /\ dialect' = dialect
  BY DEF CloseBlock
<1>2. scopes' \in Seq(Scopes) /\ cscopes' \in Seq(Scopes) /\ ScopesOK' /\ BindingsOK'
  BY <1>1, ScopesFact, ScopeClosed
<1> QED BY <1>1, <1>2, ScopesFact, SameObjects

LEMMA EndFunctionKeeps ==
  ASSUME IInv, EndFunction
  PROVE  IInv'
<1>1. /\ phase = "parse" /\ Len(scopes) = 3 /\ scopes' = <<scopes[1]>> /\ cscopes' = <<cscopes[1]>>
      /\ globals' = globals /\ parsing' = 0 /\ phase' = phase /\ next' = next
      /\ pending' = pending /\ croots' = croots /\ crefs' = crefs /\ agreed' = agreed
      /\ items' = items /\ dialect' = dialect
  BY DEF EndFunction
<1>2. TypeOK /\ ScopesOK /\ BindingsOK /\ Grows /\ items' \in Nat
  BY <1>1, ScopesFact
<1>3. scopes' \in Seq(Scopes) /\ cscopes' \in Seq(Scopes) /\ ScopesOK' /\ BindingsOK'
  BY ONLY <1>1, <1>2, FunctionEnded
<1> QED BY <1>1, <1>2, <1>3, SameObjects

LEMMA LocalVariableKeeps ==
  ASSUME IInv, NEW it \in Items[dialect], LocalVariable(it)
  PROVE  IInv'
<1>1. TypeOK /\ Item(it, "local")
  BY DEF IInv, LocalVariable
<1>2. phase = "parse" /\ items' \in Nat /\ dialect' = dialect /\ it.name \in Names
  BY <1>1, ItemOK
<1>3. PICK b : b = Local(items)
  OBVIOUS
<1>4. /\ Undeclared(it.name) /\ scopes' = BindLast(scopes, it.name, b)
      /\ cscopes' = BindLast(cscopes, it.name, b)
      /\ globals' = globals /\ parsing' = parsing /\ phase' = phase /\ next' = next
      /\ pending' = pending /\ croots' = croots /\ crefs' = crefs /\ agreed' = agreed
  BY <1>3 DEF LocalVariable
<1>5. b \in Bindings /\ b.kind = "local"
  BY <1>2, <1>3, ScopesFact DEF Local, Bindings
<1>6. TypeOK /\ ScopesOK /\ BindingsOK /\ Grows
  BY <1>2, <1>4, ScopesFact
<1>7. scopes' \in Seq(Scopes) /\ cscopes' \in Seq(Scopes) /\ ScopesOK' /\ BindingsOK'
  BY ONLY <1>2, <1>4, <1>5, <1>6, BothBound
<1> QED BY <1>2, <1>4, <1>7, SameObjects

LEMMA TypedefNameKeeps ==
  ASSUME IInv, NEW it \in Items[dialect], TypedefName(it)
  PROVE  IInv'
<1>1. TypeOK /\ Item(it, "typedef")
  BY DEF IInv, TypedefName
<1>2. phase = "parse" /\ items' \in Nat /\ dialect' = dialect /\ it.name \in Names
  BY <1>1, ItemOK
<1>3. PICK b : b = Typedef(items)
  OBVIOUS
<1>4. /\ Undeclared(it.name) /\ scopes' = BindLast(scopes, it.name, b)
      /\ cscopes' = BindLast(cscopes, it.name, b)
      /\ globals' = globals /\ parsing' = parsing /\ phase' = phase /\ next' = next
      /\ pending' = pending /\ croots' = croots /\ crefs' = crefs /\ agreed' = agreed
  BY <1>3 DEF TypedefName
<1>5. b \in Bindings /\ b.kind = "typedef"
  BY <1>2, <1>3, ScopesFact DEF Typedef, Bindings
<1>6. TypeOK /\ ScopesOK /\ BindingsOK /\ Grows
  BY <1>2, <1>4, ScopesFact
<1>7. scopes' \in Seq(Scopes) /\ cscopes' \in Seq(Scopes) /\ ScopesOK' /\ BindingsOK'
  BY ONLY <1>2, <1>4, <1>5, <1>6, BothBound
<1> QED BY <1>2, <1>4, <1>7, SameObjects

LEMMA StaticLocalKeeps ==
  ASSUME IInv, NEW it \in Items[dialect], StaticLocal(it)
  PROVE  IInv'
<1>1. TypeOK /\ Item(it, "static local")
  BY DEF IInv, StaticLocal
<1>2. /\ phase = "parse" /\ items' \in Nat /\ dialect' = dialect /\ it.name \in Names
      /\ it.given \in BOOLEAN /\ it.with \in SUBSET Names /\ \A x, y \in it.with : x = y
  BY <1>1, ItemOK
<1>3. /\ GlobalsOK(globals) /\ ScopesOK /\ BindingsOK /\ agreed
      /\ RootsAre(globals, croots) /\ RefsAre(globals, crefs) /\ pending = <<>>
      /\ \A i \in DOMAIN globals : ~globals[i].live
      /\ globals \in Seq(Objects) /\ Len(globals) \in Nat /\ DOMAIN globals = 1..Len(globals)
      /\ parsing \in 0..Len(globals)
  BY <1>2, InParse
<1>4. PICK gs, N, a, h :
        /\ gs = Seen(it.with) /\ N = Len(gs)
        /\ a = [Anonymous(gs) EXCEPT !.static = TRUE, !.given = it.given] /\ h = Append(gs, a)
  OBVIOUS
<1>5. /\ Undeclared(it.name) /\ Meant(it.with)
      /\ globals' = h /\ scopes' = BindLast(scopes, it.name, Global(N + 1))
      /\ cscopes' = BindLast(cscopes, it.name, Global(N + 1))
      /\ parsing' = parsing /\ phase' = phase /\ next' = next /\ pending' = pending
  BY <1>4 DEF StaticLocal
<1>6. /\ Alike(globals, gs) /\ GlobalsOK(gs) /\ agreed'
      /\ RootsAre(gs, croots') /\ RefsAre(gs, crefs')
      /\ croots' \subseteq Functions /\ crefs' \subseteq Functions \X Functions
  BY ONLY <1>1, <1>2, <1>3, <1>4, <1>5, Mention
<1>7. /\ gs \in Seq(Objects) /\ N = Len(globals) /\ N \in Nat /\ DOMAIN gs = DOMAIN globals
      /\ \A i \in DOMAIN gs : gs[i].name = globals[i].name /\ gs[i].fn = globals[i].fn
                              /\ gs[i].def = globals[i].def /\ ~gs[i].live
  BY <1>3, <1>4, <1>6 DEF Alike
<1>8. /\ Fresh(a, N + 1) /\ a \in Objects /\ a.name = N + 1 /\ ~a.fn /\ ~a.root /\ ~a.live
      /\ \A i \in DOMAIN gs : DefinedOnce(gs[i], a)
  <2>1. PICK s, e : s = TRUE /\ e = it.given /\ s \in BOOLEAN /\ e \in BOOLEAN
    BY <1>2
  <2>2. a = [Anonymous(gs) EXCEPT !.static = s, !.given = e]
    BY <1>4, <2>1
  <2>3. gs \in Seq(Objects) /\ GlobalsOK(gs) /\ N \in Nat /\ N = Len(gs)
    BY <1>4, <1>6, <1>7
  <2>4. s \in BOOLEAN /\ e \in BOOLEAN
    BY <2>1
  <2> QED BY ONLY <2>2, <2>3, <2>4, AnonymousFits
<1>9. /\ h \in Seq(Objects) /\ Len(h) = N + 1 /\ DOMAIN h = DOMAIN gs \cup {N + 1}
      /\ h[N + 1] = a /\ \A i \in DOMAIN gs : h[i] = gs[i]
  BY ONLY <1>4, <1>7, <1>8, AppendIs
<1>10. /\ gs \in Seq(Objects) /\ GlobalsOK(gs) /\ RootsAre(gs, croots') /\ RefsAre(gs, crefs')
       /\ N = Len(gs) /\ h = Append(gs, a) /\ Fresh(a, N + 1)
       /\ \A i \in DOMAIN gs : DefinedOnce(gs[i], a)
  BY ONLY <1>4, <1>6, <1>7, <1>8
<1>11. GlobalsOK(h)
  BY ONLY <1>10, Extended
<1>12. RefsAre(h, crefs')
  BY ONLY <1>10, Extended
<1>13. RootsAre(h, croots')
  <2>1. RootsAre(h, croots' \cup IF a.root THEN {a.name} ELSE {})
    BY ONLY <1>10, Extended
  <2> QED BY <1>8, <2>1
<1>14. Grows
  BY <1>5, <1>7, <1>9 DEF Grows
<1>15. PICK b : b = Global(N + 1)
  OBVIOUS
<1>16. /\ b \in Bindings /\ b.kind = "global" /\ b.id \in DOMAIN globals'
       /\ globals'[b.id].name \notin Names
  <2>1. N + 1 \in Nat
    BY <1>7
  <2>2. b.id = N + 1 /\ b.kind = "global" /\ b \in Bindings
    BY <1>15, <2>1 DEF Global, Bindings
  <2>3. N + 1 \notin Names
    BY <2>1, NamesApart DEF Names
  <2> QED BY <1>5, <1>8, <1>9, <2>2, <2>3
<1>17. scopes' \in Seq(Scopes) /\ cscopes' \in Seq(Scopes) /\ ScopesOK' /\ BindingsOK'
  <2>1. b.kind # "linked" /\ b.kind = "global"
    BY <1>16
  <2>2. scopes' = BindLast(scopes, it.name, b) /\ cscopes' = BindLast(cscopes, it.name, b)
    BY <1>5, <1>15
  <2> QED BY ONLY <1>1, <1>2, <1>3, <1>5, <1>14, <1>16, <2>1, <2>2, BothBound
<1>18. \A i \in DOMAIN globals' : ~globals'[i].live
  BY <1>5, <1>7, <1>8, <1>9
<1>19. Len(globals') >= Len(globals) /\ parsing' \in 0..Len(globals')
  BY ONLY <1>3, <1>5, <1>7, <1>9
<1>20. /\ globals' \in Seq(Objects) /\ GlobalsOK(globals') /\ RootsAre(globals', croots')
       /\ RefsAre(globals', crefs')
  BY ONLY <1>5, <1>9, <1>11, <1>12, <1>13
<1> QED BY ONLY <1>1, <1>2, <1>3, <1>5, <1>6, <1>17, <1>18, <1>19, <1>20, StillParsing

LEMMA MentionNameKeeps ==
  ASSUME IInv, NEW it \in Items[dialect], MentionName(it)
  PROVE  IInv'
<1>1. TypeOK /\ Item(it, "mention")
  BY DEF IInv, MentionName
<1>2. phase = "parse" /\ items' \in Nat /\ dialect' = dialect /\ it.name \in Names
  BY <1>1, ItemOK
<1>3. /\ GlobalsOK(globals) /\ ScopesOK /\ BindingsOK /\ agreed
      /\ RootsAre(globals, croots) /\ RefsAre(globals, crefs) /\ pending = <<>>
      /\ \A i \in DOMAIN globals : ~globals[i].live
      /\ globals \in Seq(Objects) /\ Len(globals) \in Nat /\ DOMAIN globals = 1..Len(globals)
      /\ scopes \in Seq(Scopes) /\ cscopes \in Seq(Scopes) /\ parsing \in 0..Len(globals)
  BY <1>2, InParse
<1>4. PICK m, gs : m = {it.name} /\ gs = Seen(m)
  OBVIOUS
<1>5. /\ Meant(m) /\ globals' = gs
      /\ scopes' = scopes /\ cscopes' = cscopes /\ parsing' = parsing /\ phase' = phase
      /\ next' = next /\ pending' = pending
  BY <1>4 DEF MentionName
<1>6. m \in SUBSET Names /\ \A x, y \in m : x = y
  BY <1>2, <1>4
<1>7. /\ Alike(globals, gs) /\ GlobalsOK(gs) /\ agreed'
      /\ RootsAre(gs, croots') /\ RefsAre(gs, crefs')
      /\ croots' \subseteq Functions /\ crefs' \subseteq Functions \X Functions
  BY ONLY <1>1, <1>3, <1>4, <1>5, <1>6, Mention
<1>8. /\ gs \in Seq(Objects) /\ Len(gs) = Len(globals) /\ DOMAIN gs = DOMAIN globals
      /\ \A i \in DOMAIN gs : gs[i].name = globals[i].name /\ gs[i].fn = globals[i].fn
                              /\ gs[i].def = globals[i].def /\ ~gs[i].live
  BY <1>3, <1>7 DEF Alike
<1>9. Grows
  BY <1>5, <1>8 DEF Grows
<1>10. ScopesOK' /\ BindingsOK'
  BY <1>1, <1>3, <1>5, <1>9, SameScopes
<1>11. Len(globals') >= Len(globals) /\ parsing' \in 0..Len(globals')
  BY ONLY <1>3, <1>5, <1>8
<1>12. /\ globals' \in Seq(Objects) /\ GlobalsOK(globals') /\ RootsAre(globals', croots')
       /\ RefsAre(globals', crefs') /\ scopes' \in Seq(Scopes) /\ cscopes' \in Seq(Scopes)
       /\ \A i \in DOMAIN globals' : ~globals'[i].live
  BY ONLY <1>3, <1>5, <1>7, <1>8
<1> QED BY ONLY <1>1, <1>2, <1>3, <1>5, <1>7, <1>10, <1>11, <1>12, StillParsing

(***************************************************************************)
(* Marking keeps the invariants.                                           *)
(***************************************************************************)
LEMMA NeededIs ==
  ASSUME croots \subseteq Functions, crefs \subseteq Functions \X Functions
  PROVE  /\ Needed \subseteq Functions /\ croots \subseteq Needed
         /\ \A e, f \in Functions : <<e, f>> \in crefs /\ e \in Needed => f \in Needed
         /\ \A S \in SUBSET Functions :
              croots \subseteq S /\ (\A e, f \in Functions : <<e, f>> \in crefs /\ e \in S => f \in S)
                => Needed \subseteq S
<1>1. Needed \subseteq Functions /\ croots \subseteq Needed
  BY DEF Needed
<1>2. ASSUME NEW e \in Functions, NEW f \in Functions, <<e, f>> \in crefs, e \in Needed
      PROVE  f \in Needed
  <2> SUFFICES ASSUME NEW S \in SUBSET Functions, croots \subseteq S,
                      \A d \in crefs : d[1] \in S => d[2] \in S
               PROVE  f \in S
    BY DEF Needed
  <2>1. e \in S
    BY <1>2 DEF Needed
  <2>2. <<e, f>>[1] \in S => <<e, f>>[2] \in S
    BY <1>2
  <2> QED BY <2>1, <2>2
<1>3. ASSUME NEW S \in SUBSET Functions, croots \subseteq S,
             \A e, f \in Functions : <<e, f>> \in crefs /\ e \in S => f \in S
      PROVE  Needed \subseteq S
  <2>1. ASSUME NEW d \in crefs, d[1] \in S
        PROVE  d[2] \in S
    <3>1. PICK e \in Functions, f \in Functions : d = <<e, f>>
      BY <2>1
    <3> QED BY <1>3, <2>1, <3>1
  <2> QED BY <1>3, <2>1 DEF Needed
<1> QED BY <1>1, <1>2, <1>3

LEMMA EndOfFileKeeps ==
  ASSUME IInv, EndOfFile
  PROVE  IInv'
<1>1. /\ phase = "parse" /\ parsing = 0 /\ phase' = "mark" /\ next' = Len(globals)
      /\ globals' = globals /\ scopes' = scopes /\ parsing' = parsing /\ pending' = pending
      /\ asm' = asm /\ dialect' = dialect /\ items' = items /\ cscopes' = cscopes
      /\ croots' = croots /\ crefs' = crefs /\ agreed' = agreed
  BY DEF EndOfFile, InFunction, history
<1>2. /\ TypeOK /\ GlobalsOK(globals) /\ ScopesOK /\ BindingsOK /\ agreed
      /\ RootsAre(globals, croots) /\ RefsAre(globals, crefs) /\ pending = <<>>
      /\ \A i \in DOMAIN globals : ~globals[i].live
      /\ globals \in Seq(Objects) /\ Len(globals) \in Nat /\ DOMAIN globals = 1..Len(globals)
  BY <1>1, InParse
<1>3. TypeOK'
  BY <1>1, <1>2 DEF TypeOK
<1>4. Grows
  BY <1>1, <1>2 DEF Grows
<1>5. ScopesOK' /\ BindingsOK'
  BY <1>1, <1>2, <1>4, SameScopes
<1>6. \A i \in DOMAIN globals :
        /\ globals[i].fn <=> globals[i].name \in Functions
        /\ \A f : Refers(globals, i, f) => globals[i].fn /\ globals[i].def /\ f \in Functions
  <2> SUFFICES ASSUME NEW i \in DOMAIN globals
               PROVE  /\ globals[i].fn <=> globals[i].name \in Functions
                      /\ \A f : Refers(globals, i, f) => globals[i].fn /\ globals[i].def /\ f \in Functions
    OBVIOUS
  <2>1. WellNamed(globals, i) /\ globals[i] \in Objects
    BY <1>2 DEF GlobalsOK
  <2>2. globals[i].refs \in Seq(Functions)
    BY <2>1 DEF Objects
  <2>3. ASSUME NEW f, Refers(globals, i, f)
        PROVE  globals[i].refs # <<>> /\ f \in Functions
    BY <2>2, <2>3 DEF Refers
  <2> QED BY <2>1, <2>3 DEF WellNamed
<1>7. \A f \in Functions : ~Reached(f)'
  <2> SUFFICES ASSUME NEW f \in Functions, Reached(f)'
               PROVE  FALSE
    OBVIOUS
  <2>1. DOMAIN pending' = {}
    BY <1>1, <1>2
  <2>2. PICK i : i = func_index(globals, f) /\ i # 0 /\ globals[i].live
    BY <1>1, <2>1 DEF Reached
  <2>3. i \in DOMAIN globals
    BY <1>2, <2>2, FuncIndex
  <2> QED BY <1>2, <2>2, <2>3
<1>8. ASSUME NEW e \in Functions, NEW f \in Functions, <<e, f>> \in crefs,
             NEW i, i = func_index(globals, e)
      PROVE  i # 0 /\ ~globals[i].live /\ Refers(globals, i, f)
  <2>1. PICK j \in DOMAIN globals : globals[j].name = e /\ Refers(globals, j, f)
    BY <1>2, <1>8 DEF RefsAre
  <2>2. globals[j].fn /\ globals[j].def
    BY <1>6, <2>1
  <2>3. i \in DOMAIN globals /\ globals[i].fn /\ globals[i].name = e /\ globals[i].def
    BY <1>2, <1>8, <2>1, <2>2, FuncIndex
  <2>4. i = j
    BY <1>2, <2>1, <2>2, <2>3 DEF GlobalsOK, DefinedOnce
  <2> QED BY <1>2, <2>1, <2>3, <2>4
<1>9. MarkInv'
  <2>1. RootsAre(globals, croots)'
    BY <1>1, <1>2
  <2>2. \A f \in Functions : Reached(f)' => f \in Needed'
    BY <1>7
  <2>3. \A i \in DOMAIN globals' :
          /\ globals'[i].live => i = func_index(globals', globals'[i].name)
          /\ i > next' /\ globals'[i].root => Reached(globals[i].name)'
          /\ \A f \in Functions : Refers(globals', i, f) => <<globals'[i].name, f>> \in crefs'
    <3> SUFFICES ASSUME NEW i \in DOMAIN globals
                 PROVE  /\ ~globals[i].live /\ ~(i > next')
                        /\ \A f \in Functions :
                             Refers(globals, i, f) => <<globals[i].name, f>> \in crefs
      BY <1>1
    <3>1. ~globals[i].live /\ ~(i > next')
      BY <1>1, <1>2
    <3>2. ASSUME NEW f \in Functions, Refers(globals, i, f)
          PROVE  <<globals[i].name, f>> \in crefs
      BY <1>2, <1>6, <3>2 DEF RefsAre
    <3> QED BY <3>1, <3>2
  <2>4. \A e, f \in Functions : <<e, f>> \in crefs' =>
          LET i == func_index(globals', e) IN
          i # 0 /\ (IF globals'[i].live THEN Reached(f)' ELSE Refers(globals', i, f))
    BY <1>1, <1>8
  <2>5. \A k \in DOMAIN pending' : func_index(globals', pending'[k]) # 0
    BY <1>1, <1>2
  <2> QED BY ONLY <2>1, <2>2, <2>3, <2>4, <2>5 DEF MarkInv
<1>10. EmitsWhatIsNeeded' /\ EveryObjectOnce'
  BY <1>1 DEF EmitsWhatIsNeeded, EveryObjectOnce
<1>11. GlobalsOK(globals)' /\ agreed'
  BY <1>1, <1>2
<1>12. phase' = "mark"
  BY <1>1
<1> QED BY ONLY <1>3, <1>5, <1>9, <1>10, <1>11, <1>12 DEF IInv

LEMMA InMark ==
  ASSUME IInv, phase = "mark"
  PROVE  /\ TypeOK /\ GlobalsOK(globals) /\ ScopesOK /\ BindingsOK /\ agreed /\ MarkInv
         /\ globals \in Seq(Objects) /\ Len(globals) \in Nat /\ DOMAIN globals = 1..Len(globals)
         /\ next \in 0..Len(globals) /\ pending \in Seq(Functions) /\ parsing = 0
         /\ croots \subseteq Functions /\ crefs \subseteq Functions \X Functions
<1>1. TypeOK /\ MarkInv /\ GlobalsOK(globals) /\ ScopesOK /\ BindingsOK /\ agreed
  BY DEF IInv
<1>2. globals \in Seq(Objects)
  BY <1>1 DEF TypeOK
<1>3. Len(globals) \in Nat /\ DOMAIN globals = 1..Len(globals)
  BY ONLY <1>2
<1> QED BY <1>1, <1>2, <1>3 DEF TypeOK

LEMMA MarkRootKeeps ==
  ASSUME IInv, MarkRoot
  PROVE  IInv'
<1>1. /\ phase = "mark" /\ pending = <<>> /\ next > 0 /\ next' = next - 1 /\ phase' = phase
      /\ pending' = IF globals[next].root THEN <<globals[next].name>> ELSE <<>>
      /\ globals' = globals /\ scopes' = scopes /\ parsing' = parsing
      /\ asm' = asm /\ dialect' = dialect /\ items' = items /\ cscopes' = cscopes
      /\ croots' = croots /\ crefs' = crefs /\ agreed' = agreed
  BY DEF MarkRoot, history
<1>2. /\ TypeOK /\ GlobalsOK(globals) /\ ScopesOK /\ BindingsOK /\ agreed /\ MarkInv
      /\ globals \in Seq(Objects) /\ Len(globals) \in Nat /\ DOMAIN globals = 1..Len(globals)
      /\ next \in 0..Len(globals) /\ parsing = 0
      /\ croots \subseteq Functions /\ crefs \subseteq Functions \X Functions
  BY <1>1, InMark
<1>3. PICK i, g : i \in DOMAIN globals /\ i = next /\ g = globals[i]
  BY <1>1, <1>2
<1>4. WellNamed(globals, i) /\ g \in Objects
  BY <1>2, <1>3 DEF GlobalsOK
\* A root is a function that is needed.
<1>5. g.root => g.fn /\ g.name \in Functions /\ g.name \in croots /\ func_index(globals, g.name) # 0
  <2> SUFFICES ASSUME g.root
               PROVE  g.fn /\ g.name \in Functions /\ g.name \in croots /\ func_index(globals, g.name) # 0
    OBVIOUS
  <2>1. g.fn /\ g.name \in Functions
    BY <1>3, <1>4 DEF WellNamed
  <2>2. RootsAre(globals, croots)
    BY <1>2 DEF MarkInv
  <2>3. g.name \in croots
    BY <1>3, <2>1, <2>2 DEF RootsAre
  <2>4. func_index(globals, g.name) \in DOMAIN globals
    BY <1>2, <1>3, <2>1, FuncIndex
  <2> QED BY <1>2, <2>1, <2>3, <2>4
<1>6. /\ pending' \in Seq(Functions)
      /\ g.root => DOMAIN pending' = {1} /\ pending'[1] = g.name
      /\ ~g.root => DOMAIN pending' = {}
  <2>1. CASE g.root
    <3>1. PICK f \in Functions : f = g.name
      BY <1>5, <2>1
    <3>2. pending' = <<f>>
      BY <1>1, <1>3, <2>1, <3>1
    <3> QED BY <2>1, <3>1, <3>2
  <2>2. CASE ~g.root
    <3>1. pending' = <<>>
      BY <1>1, <1>3, <2>2
    <3> QED BY <2>2, <3>1
  <2> QED BY <2>1, <2>2
<1>7. TypeOK'
  <2>1. next' \in 0..Len(globals)
    BY <1>1, <1>2
  <2> QED BY <1>1, <1>2, <1>6, <2>1 DEF TypeOK
<1>8. Grows
  BY <1>1, <1>2 DEF Grows
<1>9. ScopesOK' /\ BindingsOK'
  BY <1>1, <1>2, <1>8, SameScopes
<1>10. ASSUME NEW f
       PROVE  Reached(f)' <=> Reached(f) \/ (g.root /\ f = g.name)
  <2>1. DOMAIN pending = {}
    BY <1>1
  <2> QED BY <1>1, <1>6, <2>1 DEF Reached
<1>11. Needed' = Needed
  BY <1>1 DEF Needed
<1>12. MarkInv'
  <2>1. RootsAre(globals, croots)'
    BY <1>1, <1>2 DEF MarkInv
  <2>2. \A f \in Functions : Reached(f)' => f \in Needed'
    BY <1>2, <1>5, <1>10, <1>11, NeededIs DEF MarkInv
  <2>3. \A j \in DOMAIN globals' :
          /\ globals'[j].live => j = func_index(globals', globals'[j].name)
          /\ j > next' /\ globals'[j].root => Reached(globals[j].name)'
          /\ \A f \in Functions : Refers(globals', j, f) => <<globals'[j].name, f>> \in crefs'
    <3> SUFFICES ASSUME NEW j \in DOMAIN globals
                 PROVE  /\ globals[j].live => j = func_index(globals, globals[j].name)
                        /\ j > next' /\ globals[j].root => Reached(globals[j].name)'
                        /\ \A f \in Functions :
                             Refers(globals, j, f) => <<globals[j].name, f>> \in crefs
      BY <1>1
    <3>1. j > next' => j > next \/ j = i
      BY <1>1, <1>2, <1>3
    <3>2. globals[j].live => j = func_index(globals, globals[j].name)
      BY <1>2 DEF MarkInv
    <3>3. \A f \in Functions : Refers(globals, j, f) => <<globals[j].name, f>> \in crefs
      BY <1>2 DEF MarkInv
    <3>4. j > next /\ globals[j].root => Reached(globals[j].name)
      BY <1>2 DEF MarkInv
    <3>5. globals'[j] = globals[j]
      BY <1>1
    <3>6. j > next' /\ globals[j].root => Reached(globals[j].name)'
      <4> SUFFICES ASSUME j > next', globals[j].root
                   PROVE  Reached(globals[j].name)'
        OBVIOUS
      <4>1. PICK f : f = globals[j].name
        OBVIOUS
      <4>2. Reached(f)'
        BY <1>3, <1>10, <3>1, <3>4, <4>1
      <4> QED BY <1>1, <4>1, <4>2
    <3> QED BY <3>2, <3>3, <3>6
  <2>4. \A e, f \in Functions : <<e, f>> \in crefs' =>
          LET j == func_index(globals', e) IN
          j # 0 /\ (IF globals'[j].live THEN Reached(f)' ELSE Refers(globals', j, f))
    BY <1>1, <1>2, <1>10 DEF MarkInv
  <2>5. \A k \in DOMAIN pending' : func_index(globals', pending'[k]) # 0
    BY <1>1, <1>5, <1>6
  <2> QED BY <2>1, <2>2, <2>3, <2>4, <2>5 DEF MarkInv
<1>13. EmitsWhatIsNeeded' /\ EveryObjectOnce'
  BY <1>1 DEF EmitsWhatIsNeeded, EveryObjectOnce
<1>14. GlobalsOK(globals)' /\ agreed' /\ phase' = "mark"
  BY <1>1, <1>2
<1> QED BY ONLY <1>7, <1>9, <1>12, <1>13, <1>14 DEF IInv

LEMMA MarkLiveKeeps ==
  ASSUME IInv, MarkLive
  PROVE  IInv'
<1>1. PICK i, f : f = Head(pending) /\ i = func_index(globals, f)
  OBVIOUS
<1>2. /\ phase = "mark" /\ pending # <<>> /\ phase' = phase /\ next' = next
      /\ i = 0 \/ globals[i].live => pending' = Tail(pending) /\ globals' = globals
      /\ ~(i = 0 \/ globals[i].live) =>
           /\ globals' = [globals EXCEPT ![i].live = TRUE, ![i].refs = <<>>]
           /\ pending' = globals[i].refs \o Tail(pending)
      /\ scopes' = scopes /\ parsing' = parsing
      /\ asm' = asm /\ dialect' = dialect /\ items' = items /\ cscopes' = cscopes
      /\ croots' = croots /\ crefs' = crefs /\ agreed' = agreed
  BY <1>1 DEF MarkLive, history
<1>3. /\ TypeOK /\ GlobalsOK(globals) /\ ScopesOK /\ BindingsOK /\ agreed /\ MarkInv
      /\ globals \in Seq(Objects) /\ Len(globals) \in Nat /\ DOMAIN globals = 1..Len(globals)
      /\ next \in 0..Len(globals) /\ pending \in Seq(Functions) /\ parsing = 0
      /\ croots \subseteq Functions /\ crefs \subseteq Functions \X Functions
  BY <1>2, InMark
<1>4. PICK rest : rest = Tail(pending)
  OBVIOUS
<1>5. /\ rest \in Seq(Functions) /\ f \in Functions
      /\ \A e : (\E k \in DOMAIN pending : pending[k] = e)
                  <=> (e = f \/ \E k \in DOMAIN rest : rest[k] = e)
  <2>1. PICK N \in Nat : N = Len(pending) /\ N >= 1
    BY ONLY <1>2, <1>3
  <2>2. /\ rest \in Seq(Functions) /\ f \in Functions /\ f = pending[1] /\ DOMAIN pending = 1..N
        /\ DOMAIN rest = 1..(N - 1) /\ \A k \in 1..(N - 1) : rest[k] = pending[k + 1]
    BY ONLY <1>1, <1>2, <1>3, <1>4, <2>1
  <2>3. ASSUME NEW e, NEW k \in 1..N, pending[k] = e
        PROVE  e = f \/ \E l \in 1..(N - 1) : rest[l] = e
    <3>1. CASE k = 1
      BY <2>2, <2>3, <3>1
    <3>2. CASE k # 1
      <4>1. k - 1 \in 1..(N - 1) /\ (k - 1) + 1 = k
        BY <2>1, <3>2
      <4> QED BY <2>2, <2>3, <4>1
    <3> QED BY <3>1, <3>2
  <2>4. ASSUME NEW e, NEW l \in 1..(N - 1), rest[l] = e
        PROVE  \E k \in 1..N : pending[k] = e
    <3>1. l + 1 \in 1..N
      BY <2>1
    <3> QED BY <2>2, <2>4, <3>1
  <2>5. 1 \in 1..N
    BY <2>1
  <2> QED BY <2>2, <2>3, <2>4, <2>5
<1>6. i \in DOMAIN globals /\ globals[i].fn /\ globals[i].name = f /\ i # 0
  <2>1. PICK k \in DOMAIN pending : pending[k] = f
    BY <1>5
  <2>2. i # 0
    BY <1>1, <1>3, <2>1 DEF MarkInv
  <2> QED BY <1>1, <1>3, <2>2, FuncIndex
<1>7. Reached(f) /\ f \in Needed
  <2>1. Reached(f)
    BY <1>5 DEF Reached
  <2> QED BY <1>3, <1>5, <2>1 DEF MarkInv
<1>8. PICK g, rs : g = globals[i] /\ rs = g.refs
  OBVIOUS
<1>9. /\ g \in Objects /\ rs \in Seq(Functions) /\ WellNamed(globals, i)
  <2>1. g \in Objects
    BY <1>3, <1>6, <1>8
  <2>2. rs \in Seq(Functions)
    BY <1>8, <2>1 DEF Objects
  <2> QED BY <1>3, <1>6, <2>1, <2>2 DEF GlobalsOK
\* Whether it is marked now or was before, the rest is the same.
<1>10. PICK h, ps : h = globals' /\ ps = pending'
  OBVIOUS
<1>11. /\ h \in Seq(Objects) /\ Len(h) = Len(globals) /\ DOMAIN h = DOMAIN globals
       /\ \A j \in DOMAIN globals :
            /\ h[j].name = globals[j].name /\ h[j].fn = globals[j].fn /\ h[j].def = globals[j].def
            /\ h[j].tent = globals[j].tent /\ h[j].given = globals[j].given
            /\ h[j].tls = globals[j].tls /\ h[j].root = globals[j].root
            /\ j # i => h[j] = globals[j]
            /\ h[j].refs \in {globals[j].refs, <<>>} /\ (j # i => h[j].live = globals[j].live)
       /\ h[i].live
       /\ globals[i].live => h[i].refs = globals[i].refs
  <2>1. CASE globals[i].live
    BY <1>2, <1>3, <1>6, <1>10, <2>1
  <2>2. CASE ~globals[i].live
    <3>1. PICK o : o = [g EXCEPT !.live = TRUE, !.refs = <<>>]
      OBVIOUS
    <3>2. /\ o \in Objects /\ o.name = g.name /\ o.fn = g.fn /\ o.def = g.def
          /\ o.tent = g.tent /\ o.given = g.given /\ o.tls = g.tls /\ o.root = g.root
          /\ o.refs = <<>> /\ o.live
      <4>1. <<>> \in Seq(Functions)
        OBVIOUS
      <4> QED BY ONLY <1>9, <3>1, <4>1 DEF Objects
    <3>3. h = [globals EXCEPT ![i] = o]
      BY <1>2, <1>6, <1>8, <1>10, <2>2, <3>1
    <3>4. h \in Seq(Objects) /\ Len(h) = Len(globals) /\ DOMAIN h = DOMAIN globals /\ h[i] = o
          /\ \A j \in DOMAIN globals : j # i => h[j] = globals[j]
      BY ONLY <1>3, <1>6, <3>2, <3>3
    <3> QED BY <1>8, <2>2, <3>2, <3>4
  <2> QED BY <2>1, <2>2
<1>12. /\ ps \in Seq(Functions)
       /\ \A e : (\E k \in DOMAIN ps : ps[k] = e)
                   <=> \/ \E k \in DOMAIN rest : rest[k] = e
                       \/ ~globals[i].live /\ Refers(globals, i, e)
  <2>1. CASE globals[i].live
    BY <1>2, <1>4, <1>5, <1>10, <2>1
  <2>2. CASE ~globals[i].live
    <3>1. ps = rs \o rest
      BY <1>2, <1>4, <1>6, <1>8, <1>10, <2>2
    <3>2. PICK N \in Nat, M \in Nat : N = Len(rs) /\ M = Len(rest)
      BY <1>5, <1>9
    <3>3. /\ ps \in Seq(Functions) /\ DOMAIN ps = 1..(N + M) /\ DOMAIN rs = 1..N /\ DOMAIN rest = 1..M
          /\ \A k \in 1..(N + M) : ps[k] = IF k <= N THEN rs[k] ELSE rest[k - N]
      BY ONLY <1>5, <1>9, <3>1, <3>2
    <3>4. ASSUME NEW e, NEW k \in 1..(N + M), ps[k] = e
          PROVE  (\E l \in 1..M : rest[l] = e) \/ \E l \in 1..N : rs[l] = e
      <4>1. CASE k <= N
        <5>1. k \in 1..N
          BY <3>2, <4>1
        <5> QED BY <3>3, <3>4, <4>1, <5>1
      <4>2. CASE ~(k <= N)
        <5>1. k - N \in 1..M
          BY <3>2, <4>2
        <5> QED BY <3>3, <3>4, <4>2, <5>1
      <4> QED BY <4>1, <4>2
    <3>5. ASSUME NEW e, NEW l \in 1..M, rest[l] = e
          PROVE  \E k \in 1..(N + M) : ps[k] = e
      <4>1. l + N \in 1..(N + M) /\ ~(l + N <= N) /\ (l + N) - N = l
        BY <3>2
      <4> QED BY <3>3, <3>5, <4>1
    <3>6. ASSUME NEW e, NEW l \in 1..N, rs[l] = e
          PROVE  \E k \in 1..(N + M) : ps[k] = e
      <4>1. l \in 1..(N + M) /\ l <= N
        BY <3>2
      <4> QED BY <3>3, <3>6, <4>1
    <3>7. \A e : Refers(globals, i, e) <=> \E l \in 1..N : rs[l] = e
      BY <1>8, <3>3 DEF Refers
    <3> QED BY <2>2, <3>3, <3>4, <3>5, <3>6, <3>7
  <2> QED BY <2>1, <2>2
<1>13. \A e : func_index(h, e) = func_index(globals, e)
  BY <1>3, <1>11, FuncIndexSame
<1>14. ASSUME NEW e \in Functions
       PROVE  Reached(e)' <=> Reached(e) \/ (~globals[i].live /\ Refers(globals, i, e))
  <2>1. PICK j : j = func_index(globals, e)
    OBVIOUS
  <2>2. Reached(e)' <=> (j # 0 /\ h[j].live) \/ \E k \in DOMAIN ps : ps[k] = e
    BY <1>10, <1>13, <2>1 DEF Reached
  <2>3. Reached(e) <=> (j # 0 /\ globals[j].live) \/ \E k \in DOMAIN pending : pending[k] = e
    BY <2>1 DEF Reached
  <2>4. j # 0 => j \in DOMAIN globals /\ globals[j].name = e
    BY <1>3, <2>1, FuncIndex
  <2>5. CASE e = f
    <3>1. j = i /\ h[i].live
      BY <1>1, <1>11, <2>1, <2>5
    <3> QED BY <1>6, <1>7, <2>2, <2>5, <3>1
  <2>6. CASE e # f
    <3>1. j # 0 => j # i /\ (h[j].live <=> globals[j].live)
      BY <1>6, <1>11, <2>4, <2>6
    <3> QED BY <1>5, <1>12, <2>2, <2>3, <2>6, <3>1
  <2> QED BY <2>5, <2>6
<1>15. ASSUME NEW j \in DOMAIN h, NEW e, Refers(h, j, e)
       PROVE  Refers(globals, j, e)
  <2>1. h[j].refs = globals[j].refs
    BY <1>11, <1>15 DEF Refers
  <2> QED BY <1>15, <2>1 DEF Refers
<1>16. GlobalsOK(h)
  <2>1. ASSUME NEW j \in DOMAIN h
        PROVE  WellNamed(h, j)
    <3>1. WellNamed(globals, j)
      BY <1>3, <1>11 DEF GlobalsOK
    <3>2. CASE j # i
      BY <1>11, <3>1, <3>2 DEF WellNamed
    <3>3. CASE j = i
      <4>1. /\ h[i].name = globals[i].name /\ h[i].fn = globals[i].fn /\ h[i].def = globals[i].def
            /\ h[i].tent = globals[i].tent /\ h[i].given = globals[i].given
            /\ h[i].tls = globals[i].tls /\ h[i].refs \in {globals[i].refs, <<>>}
        BY <1>6, <1>11
      <4> QED BY ONLY <1>6, <3>1, <3>3, <4>1 DEF WellNamed
    <3> QED BY <3>2, <3>3
  <2>2. ASSUME NEW j \in DOMAIN h, NEW k \in DOMAIN h, j # k
        PROVE  DefinedOnce(h[j], h[k])
    <3>1. DefinedOnce(globals[j], globals[k])
      BY <1>3, <1>11, <2>2 DEF GlobalsOK
    <3> QED BY <1>11, <3>1 DEF DefinedOnce
  <2>3. ASSUME NEW j \in DOMAIN h, NEW e \in Functions, Refers(h, j, e)
        PROVE  Declared(h, e)
    <3>1. Declared(globals, e)
      BY <1>3, <1>11, <1>15, <2>3 DEF GlobalsOK
    <3> QED BY <1>11, <3>1 DEF Declared
  <2> QED BY <2>1, <2>2, <2>3 DEF GlobalsOK
<1>17. TypeOK'
  <2>1. /\ globals' \in Seq(Objects) /\ Len(globals') = Len(globals) /\ pending' \in Seq(Functions)
    BY <1>10, <1>11, <1>12
  <2> QED BY <1>2, <1>3, <2>1 DEF TypeOK
<1>18. Grows
  BY <1>10, <1>11 DEF Grows
<1>19. ScopesOK' /\ BindingsOK'
  BY <1>2, <1>3, <1>18, SameScopes
<1>20. Needed' = Needed
  BY <1>2 DEF Needed
<1>21. MarkInv'
  <2>1. RootsAre(globals, croots)'
    <3>1. RootsAre(globals, croots)
      BY <1>3 DEF MarkInv
    <3>2. RootsAre(h, croots)
      BY <1>11, <3>1 DEF RootsAre
    <3> QED BY <1>2, <1>10, <3>2
  <2>2. \A e \in Functions : Reached(e)' => e \in Needed'
    <3> SUFFICES ASSUME NEW e \in Functions, Reached(e)'
                 PROVE  e \in Needed
      BY <1>20
    <3>1. CASE Reached(e)
      BY <1>3, <3>1 DEF MarkInv
    <3>2. CASE Refers(globals, i, e)
      <4>1. <<f, e>> \in crefs
        BY <1>3, <1>6, <3>2 DEF MarkInv
      <4> QED BY <1>3, <1>5, <1>7, <4>1, NeededIs
    <3> QED BY <1>14, <3>1, <3>2
  <2>3. ASSUME NEW j \in DOMAIN h, NEW n, n = h[j].name
        PROVE  /\ h[j].live => j = func_index(h, n)
               /\ j > next' /\ h[j].root => Reached(n)'
               /\ \A e \in Functions : Refers(h, j, e) => <<n, e>> \in crefs'
    <3>1. /\ j \in DOMAIN globals /\ n = globals[j].name /\ h[j].root = globals[j].root
      BY <1>11, <2>3
    <3>2. h[j].live => j = func_index(h, n)
      <4>1. CASE j = i
        BY <1>1, <1>6, <1>13, <3>1, <4>1
      <4>2. CASE j # i
        <5>1. globals[j].live => j = func_index(globals, n)
          BY <1>3, <3>1 DEF MarkInv
        <5> QED BY <1>11, <1>13, <3>1, <4>2, <5>1
      <4> QED BY <4>1, <4>2
    <3>3. j > next' /\ h[j].root => Reached(n)'
      <4> SUFFICES ASSUME j > next, globals[j].root
                   PROVE  Reached(n)'
        BY <1>2, <3>1
      <4>1. Reached(n)
        BY <1>3, <3>1 DEF MarkInv
      <4>2. n \in Functions
        <5>1. WellNamed(globals, j)
          BY <1>3, <3>1 DEF GlobalsOK
        <5> QED BY <3>1, <5>1 DEF WellNamed
      <4> QED BY <1>14, <4>1, <4>2
    <3>4. \A e \in Functions : Refers(h, j, e) => <<n, e>> \in crefs'
      BY <1>2, <1>3, <1>15, <3>1 DEF MarkInv
    <3> QED BY <3>2, <3>3, <3>4
  <2>4. ASSUME NEW d \in Functions, NEW e \in Functions, <<d, e>> \in crefs',
               NEW j, j = func_index(h, d)
        PROVE  j # 0 /\ (IF h[j].live THEN Reached(e)' ELSE Refers(h, j, e))
    <3>1. /\ j = func_index(globals, d) /\ j # 0
          /\ IF globals[j].live THEN Reached(e) ELSE Refers(globals, j, e)
      BY <1>2, <1>3, <1>13, <2>4 DEF MarkInv
    <3>2. j \in DOMAIN globals /\ globals[j].name = d
      BY <1>3, <3>1, FuncIndex
    <3>3. CASE j = i
      BY <1>11, <1>14, <3>1, <3>3
    <3>4. CASE j # i
      <4>1. h[j] = globals[j] /\ h[j].live = globals[j].live
        BY <1>11, <3>2, <3>4
      <4>2. Refers(h, j, e) <=> Refers(globals, j, e)
        BY <4>1 DEF Refers
      <4> QED BY <1>14, <3>1, <4>1, <4>2
    <3> QED BY <3>3, <3>4
  <2>5. ASSUME NEW k \in DOMAIN ps
        PROVE  func_index(h, ps[k]) # 0
    <3>1. PICK e \in Functions : e = ps[k]
      BY <1>12
    <3>2. (\E l \in DOMAIN rest : rest[l] = e) \/ Refers(globals, i, e)
      BY <1>12, <3>1
    <3>3. CASE \E l \in DOMAIN rest : rest[l] = e
      <4>1. \E l \in DOMAIN pending : pending[l] = e
        BY <1>5, <3>3
      <4> QED BY <1>3, <1>13, <3>1, <4>1 DEF MarkInv
    <3>4. CASE Refers(globals, i, e)
      <4>1. PICK j \in DOMAIN globals : globals[j].name = e
        BY <1>3, <1>6, <3>4 DEF GlobalsOK, Declared
      <4>2. WellNamed(globals, j)
        BY <1>3 DEF GlobalsOK
      <4>3. globals[j].fn
        BY <4>1, <4>2 DEF WellNamed
      <4>4. func_index(globals, e) \in DOMAIN globals
        BY <1>3, <4>1, <4>3, FuncIndex
      <4> QED BY <1>3, <1>13, <3>1, <4>4
    <3> QED BY <3>2, <3>3, <3>4
  <2> QED BY <1>10, <2>1, <2>2, <2>3, <2>4, <2>5 DEF MarkInv
<1>22. EmitsWhatIsNeeded' /\ EveryObjectOnce'
  BY <1>2 DEF EmitsWhatIsNeeded, EveryObjectOnce
<1>23. GlobalsOK(globals)' /\ agreed' /\ phase' = "mark"
  BY <1>2, <1>3, <1>10, <1>16
<1> QED BY ONLY <1>17, <1>19, <1>21, <1>22, <1>23 DEF IInv

LEMMA EmitKeeps ==
  ASSUME IInv, Emit
  PROVE  IInv'
<1>1. /\ phase = "mark" /\ pending = <<>> /\ next = 0 /\ phase' = "done"
      /\ asm' = {i \in DOMAIN globals : Emitted(i)}
      /\ globals' = globals /\ scopes' = scopes /\ parsing' = parsing /\ next' = next
      /\ pending' = pending /\ dialect' = dialect /\ items' = items /\ cscopes' = cscopes
      /\ croots' = croots /\ crefs' = crefs /\ agreed' = agreed
  BY DEF Emit, history
<1>2. /\ TypeOK /\ GlobalsOK(globals) /\ ScopesOK /\ BindingsOK /\ agreed /\ MarkInv
      /\ globals \in Seq(Objects) /\ Len(globals) \in Nat /\ DOMAIN globals = 1..Len(globals)
      /\ croots \subseteq Functions /\ crefs \subseteq Functions \X Functions /\ parsing = 0
  BY <1>1, InMark
<1>3. TypeOK'
  BY <1>1, <1>2 DEF TypeOK
<1>4. Grows
  BY <1>1, <1>2 DEF Grows
<1>5. ScopesOK' /\ BindingsOK'
  BY <1>1, <1>2, <1>4, SameScopes
<1>6. \A i \in DOMAIN globals : WellNamed(globals, i) /\ globals[i] \in Objects
  BY <1>2 DEF GlobalsOK
<1>7. \A i, j \in DOMAIN globals : i # j => DefinedOnce(globals[i], globals[j])
  BY <1>2 DEF GlobalsOK
\* Nothing waits: what is reached is marked.
<1>8. ASSUME NEW f \in Functions, NEW i, i = func_index(globals, f)
      PROVE  Reached(f) <=> i # 0 /\ globals[i].live
  <2>1. DOMAIN pending = {}
    BY <1>1
  <2> QED BY <1>8, <2>1 DEF Reached
<1>9. ASSUME NEW f \in Functions
      PROVE  Reached(f) <=> f \in Needed
  <2>1. Reached(f) => f \in Needed
    BY <1>2 DEF MarkInv
  <2>2. PICK S : S = {e \in Functions : Reached(e)}
    OBVIOUS
  <2>3. croots \subseteq S
    <3> SUFFICES ASSUME NEW e \in croots
                 PROVE  e \in S
      OBVIOUS
    <3>1. PICK i \in DOMAIN globals : globals[i].root /\ globals[i].name = e
      BY <1>2 DEF MarkInv, RootsAre
    <3>2. i > next
      BY <1>1, <1>2
    <3>3. Reached(globals[i].name)
      BY <1>2, <3>1, <3>2 DEF MarkInv
    <3> QED BY <1>2, <2>2, <3>1, <3>3
  <2>4. ASSUME NEW d \in Functions, NEW e \in Functions, <<d, e>> \in crefs, d \in S
        PROVE  e \in S
    <3>1. PICK i : i = func_index(globals, d)
      OBVIOUS
    <3>2. Reached(d)
      BY <2>2, <2>4
    <3>3. globals[i].live
      BY <1>8, <3>1, <3>2
    <3>4. Reached(e)
      BY <1>2, <2>4, <3>1, <3>3 DEF MarkInv
    <3> QED BY <2>2, <3>4
  <2>5. Needed \subseteq S
    <3>1. S \in SUBSET Functions
      BY <2>2
    <3> QED BY <1>2, <2>3, <2>4, <3>1, NeededIs
  <2> QED BY <2>1, <2>2, <2>5
<1>10. ASSUME NEW i \in DOMAIN globals, globals[i].fn
       PROVE  i \in asm' <=> globals[i].def /\ globals[i].live
  <2>1. globals[i].name \in Functions /\ globals[i].name \notin Variables
    BY <1>6, <1>10, NamesApart DEF WellNamed
  <2>2. ~globals[i].tent
    BY <1>6, <2>1 DEF WellNamed
  <2> QED BY <1>1, <1>10, <2>2 DEF Emitted, Kept
<1>11. {globals[i].name : i \in {i \in asm' : globals[i].fn}}
         = {f \in Needed : \E i \in Called(f) : globals[i].def}
  <2>1. ASSUME NEW i \in asm', globals[i].fn
        PROVE  /\ globals[i].name \in Needed
               /\ \E j \in Called(globals[i].name) : globals[j].def
    <3>1. i \in DOMAIN globals
      BY <1>1
    <3>2. globals[i].def /\ globals[i].live
      BY <1>10, <2>1, <3>1
    <3>3. globals[i].name \in Functions
      BY <1>6, <2>1, <3>1 DEF WellNamed
    <3>4. i = func_index(globals, globals[i].name)
      BY <1>2, <3>1, <3>2 DEF MarkInv
    <3>5. Reached(globals[i].name)
      <4>1. i # 0
        BY <1>2, <3>1
      <4> QED BY <1>8, <3>2, <3>3, <3>4, <4>1
    <3> QED BY <1>9, <3>1, <3>2, <3>3, <3>5 DEF Called
  <2>2. ASSUME NEW f \in Needed, NEW j \in Called(f), globals[j].def
        PROVE  \E i \in asm' : globals[i].fn /\ globals[i].name = f
    <3>1. f \in Functions
      BY <1>2, NeededIs
    <3>2. j \in DOMAIN globals /\ globals[j].name = f
      BY DEF Called
    <3>3. globals[j].fn
      BY <1>6, <3>1, <3>2 DEF WellNamed
    <3>4. PICK i : i = func_index(globals, f)
      OBVIOUS
    <3>5. i \in DOMAIN globals /\ globals[i].fn /\ globals[i].name = f /\ globals[i].def
      BY <1>2, <2>2, <3>2, <3>3, <3>4, FuncIndex
    <3>6. globals[i].live
      BY <1>8, <1>9, <3>1, <3>4
    <3> QED BY <1>10, <3>5, <3>6
  <2> QED BY <2>1, <2>2
<1>12. EmitsWhatIsNeeded'
  <2>1. Needed' = Needed /\ \A f : Called(f)' = Called(f)
    BY <1>1 DEF Needed, Called
  <2> QED BY <1>1, <1>11, <2>1 DEF EmitsWhatIsNeeded
\* Of two definitions of an object the tentative one goes.
<1>13. ASSUME ~Repeats, NEW i \in asm', NEW j \in asm', globals[i].name = globals[j].name
       PROVE  i = j
  <2> SUFFICES ASSUME i # j
               PROVE  FALSE
    OBVIOUS
  <2>1. /\ i \in DOMAIN globals /\ globals[i].def /\ Kept(i)
        /\ j \in DOMAIN globals /\ globals[j].def /\ Kept(j)
    BY <1>1 DEF Emitted
  <2>2. ~globals[i].fn /\ globals[i].given # globals[j].given /\ ~globals[i].tls /\ ~globals[j].tls
    BY <1>7, <1>13, <2>1 DEF DefinedOnce
  <2>3. globals[i].name \in Variables
    <3>1. globals[i].name \notin Nat /\ globals[i].name # alloca /\ globals[i].name \notin Functions
      BY <1>6, <1>13, <2>1, <2>2 DEF WellNamed
    <3>2. globals[i].name \in Names \cup Nat \cup {alloca}
      BY <1>6, <2>1 DEF Objects
    <3> QED BY <3>1, <3>2 DEF Names
  <2>4. globals[i].tent \/ globals[j].tent
    <3>1. globals[i].given \in BOOLEAN /\ globals[j].given \in BOOLEAN
      BY <1>6, <2>1 DEF Objects
    <3>2. ~globals[i].given \/ ~globals[j].given
      BY <2>2, <3>1
    <3> QED BY <1>6, <1>13, <2>1, <2>2, <2>3, <3>2 DEF WellNamed
  <2>5. i \in Called(globals[j].name) \ {j} /\ j \in Called(globals[i].name) \ {i}
    BY <1>13, <2>1 DEF Called
  <2> QED BY <2>1, <2>4, <2>5 DEF Kept
<1>14. ASSUME ~Repeats, NEW x \in Variables, NEW i \in Called(x), globals[i].def
       PROVE  \E j \in asm' : /\ globals[j].name = x
                               /\ (\E k \in Called(x) : globals[k].given) => globals[j].given
  <2>1. \A k \in Called(x) : k \in DOMAIN globals /\ globals[k].name = x
    BY DEF Called
  <2>2. \A k \in Called(x) : ~globals[k].fn
    BY <1>6, <2>1, NamesApart DEF WellNamed
  <2>3. CASE \E k \in Called(x) : globals[k].given
    <3>1. PICK k \in Called(x) : globals[k].given
      BY <2>3
    <3>2. globals[k].def /\ ~globals[k].tent
      BY <1>6, <2>1, <3>1 DEF WellNamed
    <3>3. k \in asm'
      BY <1>1, <2>1, <2>2, <3>2 DEF Emitted, Kept
    <3> QED BY <2>1, <3>1, <3>3
  <2>4. CASE ~\E k \in Called(x) : globals[k].given
    <3>1. ASSUME NEW k \in Called(x) \ {i}
          PROVE  ~globals[k].def
      <4> SUFFICES ASSUME globals[k].def
                   PROVE  FALSE
        OBVIOUS
      <4>1. globals[k].given # globals[i].given
        <5>1. k \in DOMAIN globals /\ i \in DOMAIN globals /\ k # i
              /\ globals[k].name = globals[i].name
          BY <2>1
        <5> QED BY <1>7, <1>14, <5>1 DEF DefinedOnce
      <4>2. globals[k].given \in BOOLEAN /\ globals[i].given \in BOOLEAN
        BY <1>6, <2>1 DEF Objects
      <4> QED BY <2>4, <4>1, <4>2
    <3>2. Kept(i)
      BY <2>1, <3>1 DEF Kept
    <3>3. i \in asm'
      BY <1>1, <1>14, <2>1, <2>2, <3>2 DEF Emitted
    <3> QED BY <2>1, <2>4, <3>3
  <2> QED BY <2>3, <2>4
<1>15. ~Repeats => EveryObjectOnce'
  <2> SUFFICES ASSUME ~Repeats
               PROVE  EveryObjectOnce'
    OBVIOUS
  <2>1. \A x : Called(x)' = Called(x)
    BY <1>1 DEF Called
  <2>2. \A i, j \in asm' : globals'[i].name = globals'[j].name => i = j
    BY <1>1, <1>13
  <2>3. \A x \in Variables :
          (\E i \in Called(x) : globals[i].def) =>
            \E i \in asm' : /\ globals[i].name = x
                             /\ (\E j \in Called(x) : globals[j].given) => globals[i].given
    BY <1>14
  <2>4. \A x \in Variables :
          (\E i \in Called(x)' : globals'[i].def) =>
            \E i \in asm' : /\ globals'[i].name = x
                             /\ (\E j \in Called(x)' : globals'[j].given) => globals'[i].given
    BY ONLY <1>1, <2>1, <2>3
  <2> QED BY <2>2, <2>4 DEF EveryObjectOnce
<1>16. GlobalsOK(globals)' /\ agreed' /\ phase' = "done"
  BY <1>1, <1>2
<1> QED BY ONLY <1>3, <1>5, <1>12, <1>15, <1>16, Repeats' = Repeats DEF IInv

LEMMA StutterKeeps ==
  ASSUME IInv, UNCHANGED vars
  PROVE  IInv'
<1>1. /\ globals' = globals /\ scopes' = scopes /\ parsing' = parsing /\ phase' = phase /\ next' = next
      /\ pending' = pending /\ asm' = asm /\ dialect' = dialect /\ items' = items
      /\ cscopes' = cscopes /\ croots' = croots /\ crefs' = crefs /\ agreed' = agreed
  BY DEF vars, code, history
<1>2. TypeOK /\ GlobalsOK(globals) /\ ScopesOK /\ BindingsOK
  BY DEF IInv
<1>3. TypeOK'
  BY <1>1, <1>2 DEF TypeOK
<1>4. Grows
  BY <1>1, <1>2 DEF Grows, TypeOK
<1>5. ScopesOK' /\ BindingsOK'
  BY <1>1, <1>2, <1>4, SameScopes
<1>6. /\ \A n : Called(n)' = Called(n)
      /\ \A f : Reached(f)' = Reached(f)
      /\ Needed' = Needed
  BY <1>1 DEF Called, Reached, Needed
<1>7. phase = "parse" => ParseInv'
  BY <1>1 DEF IInv, ParseInv
<1>8. phase = "mark" => MarkInv'
  BY <1>1, <1>6 DEF IInv, MarkInv
<1>9. EmitsWhatIsNeeded' /\ (~Repeats => EveryObjectOnce')
  <2>1. EmitsWhatIsNeeded'
    BY <1>1, <1>6 DEF IInv, EmitsWhatIsNeeded
  <2>2. ~Repeats => EveryObjectOnce'
    BY <1>1, <1>6 DEF IInv, EveryObjectOnce
  <2> QED BY <2>1, <2>2
<1>10. GlobalsOK(globals)' /\ agreed'
  BY <1>1 DEF IInv
<1> QED BY <1>1, <1>3, <1>5, <1>7, <1>8, <1>9, <1>10 DEF IInv

LEMMA InitHolds == Init => IInv
<1> SUFFICES ASSUME Init
             PROVE  IInv
  OBVIOUS
<1>1. PICK o : o = [Object(alloca) EXCEPT !.def = FALSE]
  OBVIOUS
<1>2. /\ globals = <<o>> /\ scopes = <<NoNames>> /\ cscopes = <<NoNames>>
      /\ parsing = 0 /\ phase = "parse" /\ next = 0 /\ pending = <<>> /\ asm = {}
      /\ dialect \in Dialects /\ items = 0 /\ croots = {} /\ crefs = {} /\ agreed = TRUE
  BY <1>1 DEF Init
<1>3. o = [name |-> alloca, fn |-> FALSE, def |-> FALSE, tent |-> FALSE, static |-> TRUE,
           tls |-> FALSE, given |-> FALSE, root |-> FALSE, live |-> FALSE, refs |-> <<>>]
  BY <1>1 DEF Object
<1>4. o \in Objects
  <2>1. <<>> \in Seq(Functions)
    OBVIOUS
  <2> QED BY ONLY <1>3, <2>1 DEF Objects
<1>5. /\ o.name = alloca /\ o.fn = FALSE /\ o.def = FALSE /\ o.tent = FALSE /\ o.given = FALSE
      /\ o.root = FALSE /\ o.live = FALSE /\ o.refs = <<>>
  BY ONLY <1>3
<1>6. globals \in Seq(Objects) /\ Len(globals) = 1 /\ DOMAIN globals = {1} /\ globals[1] = o
  BY ONLY <1>2, <1>4
<1>7. /\ scopes \in Seq(Scopes) /\ Len(scopes) = 1 /\ DOMAIN scopes = {1} /\ DOMAIN scopes[1] = {}
  BY <1>2, NoNamesIs
<1>8. /\ cscopes \in Seq(Scopes) /\ Len(cscopes) = 1 /\ DOMAIN cscopes = {1} /\ DOMAIN cscopes[1] = {}
  BY <1>2, NoNamesIs
<1>9. TypeOK
  <2>1. pending \in Seq(Functions)
    BY <1>2
  <2> QED BY ONLY <1>2, <1>6, <1>7, <1>8, <2>1 DEF TypeOK
<1>10. \A e : ~Refers(globals, 1, e)
  <2>1. DOMAIN globals[1].refs = {}
    BY <1>5, <1>6
  <2> QED BY <2>1 DEF Refers
<1>11. GlobalsOK(globals)
  <2>1. WellNamed(globals, 1)
    BY <1>5, <1>6, NamesApart, NamesAssumption DEF WellNamed, Names
  <2> QED BY <1>6, <1>10, <2>1 DEF GlobalsOK
<1>12. ScopesOK /\ BindingsOK
  BY <1>2, <1>7, <1>8 DEF ScopesOK, BindingsOK
<1>13. ParseInv
  <2>1. RootsAre(globals, croots)
    BY <1>2, <1>5, <1>6 DEF RootsAre
  <2>2. RefsAre(globals, crefs)
    BY <1>2, <1>6, <1>10 DEF RefsAre
  <2> QED BY <1>2, <1>5, <1>6, <2>1, <2>2 DEF ParseInv
<1>14. EmitsWhatIsNeeded /\ EveryObjectOnce
  BY <1>2 DEF EmitsWhatIsNeeded, EveryObjectOnce
<1> QED BY <1>2, <1>9, <1>11, <1>12, <1>13, <1>14 DEF IInv

LEMMA Inductive == IInv /\ [Next]_vars => IInv'
<1> SUFFICES ASSUME IInv, [Next]_vars
             PROVE  IInv'
  OBVIOUS
<1>1. CASE Declare
  <2>1. PICK it \in Items[dialect] :
          \/ GlobalVariable(it) \/ Prototype(it) \/ Definition(it) \/ OpenBlock(it)
          \/ LocalVariable(it) \/ StaticLocal(it) \/ TypedefName(it) \/ MentionName(it)
    BY <1>1 DEF Declare
  <2> QED BY <2>1, GlobalVariableKeeps, PrototypeKeeps, DefinitionKeeps, OpenBlockKeeps,
             LocalVariableKeeps, StaticLocalKeeps, TypedefNameKeeps, MentionNameKeeps
<1>2. CASE CloseBlock
  BY <1>2, CloseBlockKeeps
<1>3. CASE EndFunction
  BY <1>3, EndFunctionKeeps
<1>4. CASE EndOfFile
  BY <1>4, EndOfFileKeeps
<1>5. CASE Mark
  BY <1>5, MarkRootKeeps, MarkLiveKeeps, EmitKeeps DEF Mark
<1>6. CASE UNCHANGED vars
  BY <1>6, StutterKeeps
<1> QED BY <1>1, <1>2, <1>3, <1>4, <1>5, <1>6 DEF Next

(***************************************************************************)
(* The theorems.                                                           *)
(***************************************************************************)

\* find_var finds every identifier of every program where C finds it: blocks,
\* parameters, static locals and typedefs shadow as they do in C, and a
\* function's own name in its outer scope hides nothing.
THEOREM FindsWhatCMeans == Spec => []MeansTheSame
<1>1. IInv => MeansTheSame
  BY DEF IInv, MeansTheSame
<1> QED BY <1>1, InitHolds, Inductive, PTL DEF Spec

\* mark_live_globals and what emit_assembly leaves out: a function is in the
\* output exactly if the program needs and defines it.
THEOREM LiveIsNeeded == Spec => []EmitsWhatIsNeeded
<1>1. IInv => EmitsWhatIsNeeded
  BY DEF IInv
<1> QED BY <1>1, InitHolds, Inductive, PTL DEF Spec

\* scan_globals: where an object without initializer is not declared twice, no
\* symbol is defined twice and none that is declared is lost.
THEOREM DefinedExactlyOnce == ~Repeats => (Spec => []EveryObjectOnce)
<1> SUFFICES ASSUME ~Repeats
             PROVE  Spec => []EveryObjectOnce
  OBVIOUS
<1>1. IInv => EveryObjectOnce
  BY DEF IInv
<1> QED BY <1>1, InitHolds, Inductive, PTL DEF Spec
=============================================================================
