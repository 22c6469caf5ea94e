--------------------------- MODULE CallConvProofs ---------------------------
(***************************************************************************)
(* Theorems about CallConv, for every set of argument lists of any length, *)
(* any numbers of registers, words of enclosing expressions and blocks of  *)
(* alloca.                                                                 *)
(***************************************************************************)
EXTENDS CallConv, FiniteSetTheorems, TLAPS

N == Len(args)
Word == Int \X Int

(***************************************************************************)
(* Where the code is right (the README, section 4, tells of the others).   *)
(***************************************************************************)
\* No argument is a struct of one word: count_args and the pop loop agree.
WideStructs == \A j \in 1..N : args[j].kind = "struct" => args[j].words > 1

\* What is passed on the stack before a long double leaves it aligned: the callee
\* looks for it at a multiple of 16 bytes, the caller pads nothing.
EvenLongDoubles ==
  \A k \in 1..N : args[k].kind = "ldouble" =>
    \A j \in 1..(k - 1) : byStack[j] => args[j].words % 2 = 0

(***************************************************************************)
(* The division of the arguments that all the loops arrive at: before      *)
(* argument j, G and F registers of either class are used up, R words are  *)
(* in registers and S words on the stack.                                  *)
(***************************************************************************)
Divided(j, G, F, S, R) ==
  LET t == args[j] IN
  IF byStack[j]
    THEN /\ ~Fits(t, G[j], F[j], Second(t))
         /\ G[j + 1] = G[j] /\ F[j + 1] = F[j]
         /\ R[j + 1] = R[j] /\ S[j + 1] = S[j] + t.words
    ELSE /\ Fits(t, G[j], F[j], Second(t))
         /\ G[j + 1] = G[j] + GpNeed(t, Second(t)) /\ F[j + 1] = F[j] + FpNeed(t, Second(t))
         /\ R[j + 1] = R[j] + t.words /\ S[j + 1] = S[j]

Rising(n, X) == \A j, k \in 1..(n + 1) : j <= k => X[j] <= X[k]

\* Words in even numbers add up to an even number.
EvenSum(k, S) ==
  (\A j \in 1..(k - 1) : byStack[j] => args[j].words % 2 = 0) => S[k] % 2 = 0

\* As long as scalars are passed in registers, each takes one.
Vectors(k) == {j \in 1..k : TypeOf(j).kind = "fp"}
Others(k) == (First..k) \ Vectors(k)
ScalarSum(k, G, F, S) ==
  (\A j \in 1..(k - 1) : args[j].kind \in {"gp", "fp"} /\ ~byStack[j]) =>
    /\ S[k] = 0
    /\ F[k] = Cardinality(Vectors(k - 1)) /\ G[k] = Cardinality(Others(k - 1))

Division(n, G, F, S, R) ==
  /\ G \in [Nat -> Nat] /\ F \in [Nat -> Nat] /\ S \in [Nat -> Nat] /\ R \in [Nat -> Nat]
  /\ G[0] = 0 /\ F[0] = 0 /\ G[1] = Int01(large) /\ F[1] = 0 /\ S[1] = 0 /\ R[1] = 0
  /\ \A j \in 1..n : Divided(j, G, F, S, R)
  /\ Rising(n, G) /\ Rising(n, F) /\ Rising(n, S) /\ Rising(n, R)
  /\ \A k \in 1..(n + 1) : EvenSum(k, S)
  /\ \A k \in 1..(n + 1) : ScalarSum(k, G, F, S)

(***************************************************************************)
(* The stack is always the end of one sequence: the words for registers,   *)
(* those for the stack, padding, what was there before, blocks of alloca.  *)
(* The first cut words of it are still to be pushed, or popped already.    *)
(***************************************************************************)
At(j, S, R) == IF byStack[j] THEN R[N + 1] + S[j] ELSE R[j]

Holds(s, place, cut, word) == place > cut => s[place - cut] = word

\* Of b words of blocks, the m-th from the top.
BlockAt(b, m) == Block(b + 1 - m)

Suffix(cut, S, R) ==
  /\ stack \in Seq(Word) /\ cut \in 0..(R[N + 1] + stackArgs)
  /\ Len(stack) = R[N + 1] + stackArgs + Len(start) + bottom - cut
  /\ depth = R[N + 1] + stackArgs + Len(start) - cut
  /\ \A j \in 1..N : \A w \in 1..args[j].words :
       Holds(stack, At(j, S, R) + w, cut, <<j, w>>)
  /\ \A m \in 1..Len(start) : Holds(stack, R[N + 1] + stackArgs + m, cut, start[m])
  /\ \A m \in 1..bottom :
       Holds(stack, R[N + 1] + stackArgs + Len(start) + m, cut, BlockAt(bottom, m))

\* The registers hold the register arguments before k.
Ahead(t, w, vector) == Int01(w = 2 /\ InVector(t)[1] = vector)
InReg(j, w, G, F) ==
  IF InVector(args[j])[w] THEN fpRegs[F[j] + Ahead(args[j], w, TRUE) + 1] = <<j, w>>
                          ELSE gpRegs[G[j] + Ahead(args[j], w, FALSE) + 1] = <<j, w>>
Loaded(k, G, F) ==
  /\ gpRegs \in Seq(Word) /\ fpRegs \in Seq(Word)
  /\ Len(gpRegs) = G[k] /\ Len(fpRegs) = F[k]
  /\ large => gpRegs[1] = <<0, 1>>
  /\ \A j \in 1..(k - 1) : ~byStack[j] => \A w \in 1..args[j].words : InReg(j, w, G, F)

\* The callee finds parameter j on the stack, or in registers.
Offset(j, S) == IF j # 0 /\ byStack[j] THEN S[j] + 2 ELSE 0
Offsets(k, S) == \A j \in First..k : offset[j] = Offset(j, S)

VaList(k, G, F, S) == [gp |-> G[k], fp |-> F[k], at |-> S[k] + 2]

Arrived(j) == got[j] = Words(j)

(***************************************************************************)
(* The invariant, one part per loop.                                       *)
(***************************************************************************)
\* The counter of count_args runs on when no register is left.
Same(c, g, max) == c \in Nat /\ (c = g \/ (c >= max /\ g >= max))

Counting(G, F, S, R) ==
  /\ i \in 1..(N + 1) /\ byStack \in Seq(BOOLEAN) /\ Len(byStack) = i - 1
  /\ Division(i - 1, G, F, S, R)
  /\ Same(gp, G[i], GP_MAX) /\ Same(fp, F[i], FP_MAX)
  /\ stackArgs = S[i] /\ stack = start /\ depth = Len(start) /\ bottom = 0

Counted(G, F, S, R) ==
  /\ byStack \in Seq(BOOLEAN) /\ Len(byStack) = N /\ Division(N, G, F, S, R)
  /\ stackArgs \in Nat /\ stackArgs >= S[N + 1] /\ (Len(start) + stackArgs) % 2 = 0
  /\ bottom \in Nat /\ bottom % 2 = 0

Before == DOMAIN offset = {} /\ top = 2 /\ DOMAIN got = {}

Popping(G, F, S, R) ==
  /\ i \in 1..(N + 1) /\ gp = G[i] /\ fp = F[i]
  /\ Loaded(i, G, F) /\ Suffix(R[i], S, R)

Placing(G, F, S) ==
  /\ named \in 0..N /\ i \in First..(named + 1) /\ gp = G[i] /\ fp = F[i]
  /\ DOMAIN offset = First..(i - 1) /\ DOMAIN got = {}
  /\ EvenLongDoubles =>
       /\ top = IF i = 0 THEN 2 ELSE S[i] + 2
       /\ Offsets(i - 1, S)

Storing(G, F, S) ==
  /\ named \in 0..N /\ i \in First..(N + 1)
  /\ DOMAIN offset = First..named /\ DOMAIN got = First..(i - 1)
  /\ va \in [gp : Nat, fp : Nat, at : Nat]
  /\ EvenLongDoubles =>
       /\ Offsets(named, S)
       /\ i <= named + 1 => gp = G[i] /\ fp = F[i]
       /\ \A j \in First..named : j < i => Arrived(j)
  /\ PlainVariadic =>
       /\ va = VaList(IF i <= named THEN named + 1 ELSE i, G, F, S)
       /\ \A j \in (named + 1)..N : j < i => Arrived(j)

Done ==
  /\ named \in 0..N
  /\ EvenLongDoubles => \A j \in First..named : Arrived(j)
  /\ PlainVariadic => \A j \in (named + 1)..N : Arrived(j)
  /\ depth = Len(start) /\ stack = start \o [w \in 1..bottom |-> Block(bottom + 1 - w)]

Loops(G, F, S, R) ==
  /\ pc \in {"count", "push stack", "push regs", "pop", "place", "store", "returned"}
  /\ pc = "count" => Counting(G, F, S, R)
  /\ pc # "count" => Counted(G, F, S, R)
  /\ pc \in {"count", "push stack", "push regs", "pop"} => Before
  /\ pc \in {"count", "push stack", "push regs"} => gpRegs = <<>> /\ fpRegs = <<>>
  /\ pc = "push stack" => i \in 0..N /\ Suffix(R[N + 1] + S[i + 1], S, R)
  /\ pc = "push regs" => i \in 0..N /\ Suffix(R[i + 1], S, R)
  /\ pc = "pop" => Popping(G, F, S, R)
  /\ pc \in {"place", "store"} => Loaded(N + 1, G, F) /\ Suffix(R[N + 1], S, R)
  /\ pc = "place" => Placing(G, F, S)
  /\ pc = "store" => Storing(G, F, S)
  /\ pc = "returned" => Done

Given ==
  /\ args \in ArgLists /\ large \in BOOLEAN
  /\ start \in Seq(Word) /\ Len(start) \in Nat

IInv == Given /\ named \in Int /\ (WideStructs => \E G, F, S, R : Loops(G, F, S, R))

(***************************************************************************)
(* Types.                                                                  *)
(***************************************************************************)
LEMMA ArgType ==
  ASSUME Given, NEW j \in 1..N
  PROVE  /\ args[j].kind \in {"gp", "fp", "ldouble", "struct"}
         /\ args[j].words \in Nat \ {0}
         /\ args[j].kind \in {"gp", "fp"} => args[j].words = 1
         /\ args[j].kind = "ldouble" => args[j].words = 2
         /\ args[j].fp1 \in BOOLEAN /\ args[j].fp2 \in BOOLEAN
         /\ args[j].wide \in BOOLEAN /\ args[j].wide => args[j].words % 2 = 0
<1>1. DOMAIN args = 1..N
  BY TypeAssumption DEF Given, N
<1> QED BY <1>1, TypeAssumption DEF Given

LEMMA SizeType == Given => N \in Nat /\ DOMAIN args = 1..N
BY TypeAssumption DEF Given, N

\* A type that may be passed in registers, a word in each.
Loadable(t) ==
  /\ t.kind \in {"gp", "fp"} \/ (t.kind = "struct" /\ t.words = 2)
  /\ t.kind \in {"gp", "fp"} => t.words = 1
  /\ t.fp1 \in BOOLEAN /\ t.fp2 \in BOOLEAN

\* The registers that each word of such a type is loaded to and stored from.
Divides(t) ==
  /\ InVector(t) \in Seq(BOOLEAN) /\ Len(InVector(t)) = t.words
  /\ DOMAIN InVector(t) = 1..t.words
  /\ Len(InClass(t, FALSE)) = GpNeed(t, Second(t))
  /\ Len(InClass(t, TRUE)) = FpNeed(t, Second(t))
  /\ \A vector \in BOOLEAN :
       /\ InClass(t, vector) \in Seq(1..t.words)
       /\ \A w \in 1..t.words : InVector(t)[w] = vector =>
            /\ Ahead(t, w, vector) + 1 \in 1..Len(InClass(t, vector))
            /\ InClass(t, vector)[Ahead(t, w, vector) + 1] = w

LEMMA ScalarDivides ==
  ASSUME NEW t, Loadable(t), t.kind # "struct"
  PROVE  Divides(t)
<1>1. PICK b \in BOOLEAN : b <=> t.kind = "fp"
  OBVIOUS
<1>2. InVector(t) = <<b>> /\ t.words = 1
  <2>1. CASE b = TRUE
    BY <1>1, <2>1 DEF Loadable, InVector
  <2>2. CASE b = FALSE
    BY <1>1, <2>2 DEF Loadable, InVector
  <2> QED BY <2>1, <2>2
<1>3. InClass(t, b) = <<1>> /\ InClass(t, ~b) = <<>>
  <2>1. Len(<<b>>) # 2 /\ <<b>>[1] = b /\ b # ~b
    OBVIOUS
  <2> QED BY ONLY <1>2, <2>1 DEF InClass
<1>4. GpNeed(t, Second(t)) = Int01(~b) /\ FpNeed(t, Second(t)) = Int01(b)
  BY <1>1 DEF Loadable, GpNeed, FpNeed, Int01
<1>5. /\ InVector(t) \in Seq(BOOLEAN) /\ Len(InVector(t)) = t.words
      /\ DOMAIN InVector(t) = 1..t.words
  BY <1>2
<1>6. ASSUME NEW vector \in BOOLEAN, NEW w \in 1..t.words, InVector(t)[w] = vector
      PROVE  /\ Ahead(t, w, vector) + 1 \in 1..Len(InClass(t, vector))
             /\ InClass(t, vector)[Ahead(t, w, vector) + 1] = w
  <2>1. w = 1
    BY <1>2
  <2>2. InVector(t)[1] = b
    BY <1>2
  <2>3. vector = b
    BY <1>6, <2>1, <2>2
  <2>4. InClass(t, vector) = <<1>>
    BY <1>3, <2>3
  <2>5. Ahead(t, w, vector) = 0
    BY <2>1 DEF Ahead, Int01
  <2> QED BY ONLY <2>1, <2>4, <2>5
<1>7. <<1>> \in Seq(1..1) /\ <<>> \in Seq(1..1)
  OBVIOUS
<1>8. CASE b = TRUE
  <2>1. InClass(t, TRUE) = <<1>> /\ InClass(t, FALSE) = <<>>
    BY <1>3, <1>8
  <2>2. /\ Len(InClass(t, FALSE)) = GpNeed(t, Second(t))
        /\ Len(InClass(t, TRUE)) = FpNeed(t, Second(t))
    BY <2>1, <1>4, <1>8 DEF Int01
  <2>3. InClass(t, FALSE) \in Seq(1..t.words) /\ InClass(t, TRUE) \in Seq(1..t.words)
    BY ONLY <1>2, <1>7, <2>1
  <2> QED BY <1>5, <1>6, <2>2, <2>3 DEF Divides
<1>9. CASE b = FALSE
  <2>1. InClass(t, FALSE) = <<1>> /\ InClass(t, TRUE) = <<>>
    BY <1>3, <1>9
  <2>2. /\ Len(InClass(t, FALSE)) = GpNeed(t, Second(t))
        /\ Len(InClass(t, TRUE)) = FpNeed(t, Second(t))
    BY <2>1, <1>4, <1>9 DEF Int01
  <2>3. InClass(t, FALSE) \in Seq(1..t.words) /\ InClass(t, TRUE) \in Seq(1..t.words)
    BY ONLY <1>2, <1>7, <2>1
  <2> QED BY <1>5, <1>6, <2>2, <2>3 DEF Divides
<1> QED BY <1>8, <1>9

LEMMA StructDivides ==
  ASSUME NEW t, Loadable(t), t.kind = "struct"
  PROVE  Divides(t)
<1>1. PICK a \in BOOLEAN, b \in BOOLEAN : a = t.fp1 /\ b = t.fp2
  BY DEF Loadable
<1>2. InVector(t) = <<a, b>> /\ t.words = 2 /\ Second(t) = b
  BY <1>1 DEF Loadable, InVector, Second
<1>3. /\ GpNeed(t, Second(t)) = Int01(~a) + Int01(~b)
      /\ FpNeed(t, Second(t)) = Int01(a) + Int01(b)
  BY <1>1, <1>2 DEF GpNeed, FpNeed
<1>4. /\ InVector(t) \in Seq(BOOLEAN) /\ Len(InVector(t)) = t.words
      /\ DOMAIN InVector(t) = 1..t.words /\ InVector(t)[1] = a /\ InVector(t)[2] = b
  BY <1>2
<1>6. \A vector \in BOOLEAN :
        InClass(t, vector) = IF a = vector THEN IF b = vector THEN <<1, 2>> ELSE <<1>>
                                           ELSE IF b = vector THEN <<2>> ELSE <<>>
  BY ONLY <1>2, <1>4 DEF InClass
<1>7. /\ Len(InClass(t, FALSE)) = GpNeed(t, Second(t))
      /\ Len(InClass(t, TRUE)) = FpNeed(t, Second(t))
  <2>1. CASE a /\ b
    <3>1. InClass(t, TRUE) = <<1, 2>> /\ InClass(t, FALSE) = <<>>
      BY <1>6, <2>1
    <3>2. Len(<<1, 2>>) = 2 /\ Len(<<>>) = 0
      OBVIOUS
    <3>3. /\ Int01(a) = 1 /\ Int01(~a) = 0
          /\ Int01(b) = 1 /\ Int01(~b) = 0
      BY <2>1 DEF Int01
    <3>4. GpNeed(t, Second(t)) = 0
      BY ONLY <1>3, <3>3
    <3>5. FpNeed(t, Second(t)) = 2
      BY ONLY <1>3, <3>3
    <3> QED BY ONLY <3>1, <3>2, <3>4, <3>5, Zenon
  <2>2. CASE a /\ ~b
    <3>1. InClass(t, TRUE) = <<1>> /\ InClass(t, FALSE) = <<2>>
      BY <1>6, <2>2
    <3>2. Len(<<1>>) = 1 /\ Len(<<2>>) = 1
      OBVIOUS
    <3>3. /\ Int01(a) = 1 /\ Int01(~a) = 0
          /\ Int01(b) = 0 /\ Int01(~b) = 1
      BY <2>2 DEF Int01
    <3>4. GpNeed(t, Second(t)) = 1
      BY ONLY <1>3, <3>3
    <3>5. FpNeed(t, Second(t)) = 1
      BY ONLY <1>3, <3>3
    <3> QED BY ONLY <3>1, <3>2, <3>4, <3>5, Zenon
  <2>3. CASE ~a /\ b
    <3>1. InClass(t, TRUE) = <<2>> /\ InClass(t, FALSE) = <<1>>
      BY <1>6, <2>3
    <3>2. Len(<<2>>) = 1 /\ Len(<<1>>) = 1
      OBVIOUS
    <3>3. /\ Int01(a) = 0 /\ Int01(~a) = 1
          /\ Int01(b) = 1 /\ Int01(~b) = 0
      BY <2>3 DEF Int01
    <3>4. GpNeed(t, Second(t)) = 1
      BY ONLY <1>3, <3>3
    <3>5. FpNeed(t, Second(t)) = 1
      BY ONLY <1>3, <3>3
    <3> QED BY ONLY <3>1, <3>2, <3>4, <3>5, Zenon
  <2>4. CASE ~a /\ ~b
    <3>1. InClass(t, TRUE) = <<>> /\ InClass(t, FALSE) = <<1, 2>>
      BY <1>6, <2>4
    <3>2. Len(<<>>) = 0 /\ Len(<<1, 2>>) = 2
      OBVIOUS
    <3>3. /\ Int01(a) = 0 /\ Int01(~a) = 1
          /\ Int01(b) = 0 /\ Int01(~b) = 1
      BY <2>4 DEF Int01
    <3>4. GpNeed(t, Second(t)) = 2
      BY ONLY <1>3, <3>3
    <3>5. FpNeed(t, Second(t)) = 0
      BY ONLY <1>3, <3>3
    <3> QED BY ONLY <3>1, <3>2, <3>4, <3>5, Zenon
  <2> QED BY <2>1, <2>2, <2>3, <2>4
<1>8. ASSUME NEW vector \in BOOLEAN
      PROVE  InClass(t, vector) \in Seq(1..t.words)
  <2>1. <<1, 2>> \in Seq(1..2) /\ <<1>> \in Seq(1..2) /\ <<2>> \in Seq(1..2) /\ <<>> \in Seq(1..2)
    OBVIOUS
  <2> QED BY ONLY <1>2, <1>6, <2>1, vector \in BOOLEAN
<1>9. ASSUME NEW vector \in BOOLEAN, NEW w \in 1..t.words, InVector(t)[w] = vector
      PROVE  /\ Ahead(t, w, vector) + 1 \in 1..Len(InClass(t, vector))
             /\ InClass(t, vector)[Ahead(t, w, vector) + 1] = w
  <2>1. CASE w = 1
    BY <1>4, <1>6, <1>9, <2>1 DEF Ahead, Int01
  <2>2. CASE w = 2
    BY <1>4, <1>6, <1>9, <2>2 DEF Ahead, Int01
  <2> QED BY <1>2, <2>1, <2>2
<1> QED BY <1>4, <1>7, <1>8, <1>9 DEF Divides

(***************************************************************************)
(* Decisions.                                                              *)
(***************************************************************************)
LEMMA NeedType ==
  ASSUME Given, NEW j \in 1..N
  PROVE  /\ GpNeed(args[j], Second(args[j])) \in 0..2
         /\ FpNeed(args[j], Second(args[j])) \in 0..2
         /\ args[j].kind = "gp" =>
              GpNeed(args[j], Second(args[j])) = 1 /\ FpNeed(args[j], Second(args[j])) = 0
         /\ args[j].kind = "fp" =>
              GpNeed(args[j], Second(args[j])) = 0 /\ FpNeed(args[j], Second(args[j])) = 1
         /\ args[j].kind = "ldouble" =>
              GpNeed(args[j], Second(args[j])) = 0 /\ FpNeed(args[j], Second(args[j])) = 0
<1>1. args[j].kind \in {"gp", "fp", "ldouble", "struct"}
  BY ArgType
<1>2. \A b : Int01(b) \in 0..1
  BY DEF Int01
<1> QED BY <1>1, <1>2 DEF GpNeed, FpNeed

\* What fits is loadable, and the pop loop decides as the others.
LEMMA FitsIs ==
  ASSUME Given, WideStructs, NEW j \in 1..N, NEW g \in Nat, NEW f \in Nat
  PROVE  /\ Fits(args[j], g, f, Second(args[j])) => Loadable(args[j])
         /\ Fits(args[j], g, f, args[j].fp2) = Fits(args[j], g, f, Second(args[j]))
<1>1. /\ args[j].kind \in {"gp", "fp", "ldouble", "struct"}
      /\ args[j].words \in Nat \ {0}
      /\ args[j].kind \in {"gp", "fp"} => args[j].words = 1
      /\ args[j].fp1 \in BOOLEAN /\ args[j].fp2 \in BOOLEAN
  BY ArgType
<1>2. args[j].kind = "struct" => args[j].words > 1
  BY DEF WideStructs
<1>3. Fits(args[j], g, f, Second(args[j])) => Loadable(args[j])
  <2>1. CASE args[j].kind \in {"gp", "fp"}
    BY <1>1, <2>1 DEF Loadable
  <2>2. CASE args[j].kind = "ldouble"
    BY <2>2 DEF Fits
  <2>3. CASE args[j].kind = "struct"
    <3>1. Fits(args[j], g, f, Second(args[j])) => args[j].words = 2
      BY <1>1, <1>2, <2>3 DEF Fits
    <3> QED BY <1>1, <2>3, <3>1 DEF Loadable
  <2> QED BY <1>1, <2>1, <2>2, <2>3
<1>4. Fits(args[j], g, f, args[j].fp2) = Fits(args[j], g, f, Second(args[j]))
  <2>1. CASE args[j].kind = "struct" /\ args[j].words = 2
    <3>1. Second(args[j]) = args[j].fp2
      BY <2>1 DEF Second
    <3> QED BY <3>1
  <2>2. CASE args[j].kind = "struct" /\ args[j].words # 2
    BY <1>1, <1>2, <2>2 DEF Fits
  <2>3. CASE args[j].kind # "struct"
    BY <1>1, <2>3 DEF Fits
  <2> QED BY <2>1, <2>2, <2>3
<1> QED BY <1>3, <1>4

\* The counters of count_args, which run on, decide as those that do not.
LEMMA SameFits ==
  ASSUME Given, NEW j \in 1..N, NEW g \in Nat, NEW f \in Nat, NEW c, NEW d,
         Same(c, g, GP_MAX), Same(d, f, FP_MAX)
  PROVE  LET t == args[j]
             x == Second(t)
         IN  /\ Fits(t, c, d, x) <=> Fits(t, g, f, x)
             /\ Fits(t, g, f, x) =>
                  Same(c + GpNeed(t, x), g + GpNeed(t, x), GP_MAX)
                    /\ Same(d + FpNeed(t, x), f + FpNeed(t, x), FP_MAX)
             /\ ~Fits(t, g, f, x) /\ t.kind # "struct" =>
                  Same(c + GpNeed(t, x), g, GP_MAX) /\ Same(d + FpNeed(t, x), f, FP_MAX)
<1> DEFINE t == args[j]
           x == Second(t)
           gn == GpNeed(t, x)
           fn == FpNeed(t, x)
<1>1. /\ t.kind \in {"gp", "fp", "ldouble", "struct"}
      /\ gn \in 0..2 /\ fn \in 0..2
      /\ t.kind = "gp" => gn = 1 /\ fn = 0
      /\ t.kind = "fp" => gn = 0 /\ fn = 1
      /\ t.kind = "ldouble" => gn = 0 /\ fn = 0
  BY ArgType, NeedType
<1>2. GP_MAX \in Nat /\ FP_MAX \in Nat
  BY SizesAssumption
<1>3. /\ c \in Nat /\ (c = g \/ (c >= GP_MAX /\ g >= GP_MAX))
      /\ d \in Nat /\ (d = f \/ (d >= FP_MAX /\ f >= FP_MAX))
  BY DEF Same
<1>4. \A a, b : Fits(t, a, b, x) <=>
        CASE t.kind = "gp" -> a < GP_MAX
          [] t.kind = "fp" -> b < FP_MAX
          [] t.kind = "ldouble" -> FALSE
          [] t.kind = "struct" -> t.words <= 2 /\ b + fn < FP_MAX /\ a + gn < GP_MAX
  BY DEF Fits
<1> HIDE DEF gn, fn, t, x
<1>5. CASE t.kind = "gp"
  BY <1>1, <1>2, <1>3, <1>4, <1>5 DEF Same, gn, fn, t, x
<1>6. CASE t.kind = "fp"
  BY <1>1, <1>2, <1>3, <1>4, <1>6 DEF Same, gn, fn, t, x
<1>7. CASE t.kind = "ldouble"
  BY <1>1, <1>2, <1>3, <1>4, <1>7 DEF Same, gn, fn, t, x
<1>8. CASE t.kind = "struct"
  BY <1>1, <1>2, <1>3, <1>4, <1>8 DEF Same, gn, fn, t, x
<1> QED BY <1>1, <1>5, <1>6, <1>7, <1>8

(***************************************************************************)
(* The division grows by an argument.                                      *)
(***************************************************************************)
Grow(X, k, v) == [X EXCEPT ![k] = v]
Grew(n, X, Y, v) ==
  /\ Y \in [Nat -> Nat] /\ Rising(n + 1, Y) /\ Y[n + 2] = v
  /\ \A k \in 0..(n + 1) : Y[k] = X[k]

LEMMA Grown ==
  ASSUME NEW n \in Nat, NEW X \in [Nat -> Nat], NEW v \in Nat, Rising(n, X), v >= X[n + 1]
  PROVE  Grew(n, X, Grow(X, n + 2, v), v)
<1> DEFINE Y == Grow(X, n + 2, v)
<1>1. Y \in [Nat -> Nat] /\ Y[n + 2] = v /\ \A k \in Nat : k # n + 2 => Y[k] = X[k]
  BY DEF Grow
<1> HIDE DEF Y
<1>2. \A k \in 0..(n + 1) : Y[k] = X[k]
  BY <1>1
<1>3. ASSUME NEW j \in 1..(n + 2), NEW k \in 1..(n + 2), j <= k
      PROVE  Y[j] <= Y[k]
  <2>1. CASE k \in 1..(n + 1)
    BY <1>2, <1>3, <2>1 DEF Rising
  <2>2. CASE k = n + 2 /\ j \in 1..(n + 1)
    <3>1. X[j] <= X[n + 1]
      BY <2>2 DEF Rising
    <3>2. X[j] \in Nat /\ X[n + 1] \in Nat
      BY <2>2
    <3> QED BY <1>1, <1>2, <2>2, <3>1, <3>2
  <2>3. CASE k = n + 2 /\ j = n + 2
    BY <1>1, <2>3
  <2> QED BY <2>1, <2>2, <2>3
<1> QED BY <1>1, <1>2, <1>3 DEF Grew, Rising, Y

\* One more scalar takes one more register.
LEMMA VectorsType ==
  ASSUME Given, NEW k \in 0..N
  PROVE  /\ IsFiniteSet(Vectors(k)) /\ IsFiniteSet(Others(k))
         /\ Cardinality(Vectors(k)) \in Nat /\ Cardinality(Others(k)) \in Nat
<1>1. IsFiniteSet(1..k) /\ IsFiniteSet(First..k)
  <2>1. k \in Int /\ First \in Int
    BY SizeType DEF First
  <2> QED BY <2>1, FS_Interval
<1>2. Vectors(k) \subseteq 1..k /\ Others(k) \subseteq First..k
  BY DEF Vectors, Others
<1> QED BY <1>1, <1>2, FS_Subset, FS_CardinalityType

LEMMA VectorsGrow ==
  ASSUME Given, NEW k \in 1..N
  PROVE  /\ args[k].kind = "fp" => /\ Cardinality(Vectors(k)) = Cardinality(Vectors(k - 1)) + 1
                                   /\ Others(k) = Others(k - 1)
         /\ args[k].kind # "fp" => /\ Cardinality(Others(k)) = Cardinality(Others(k - 1)) + 1
                                   /\ Vectors(k) = Vectors(k - 1)
<1>1. k - 1 \in 0..N /\ N \in Nat /\ First \in 0..1
  BY SizeType DEF First
<1>2. /\ 1..k = (1..(k - 1)) \cup {k} /\ First..k = (First..(k - 1)) \cup {k}
      /\ k \notin 1..(k - 1) /\ k \notin First..(k - 1)
  BY <1>1
<1>3. TypeOf(k) = args[k]
  BY DEF TypeOf
<1>4. k \notin Vectors(k - 1) /\ k \notin Others(k - 1)
  BY <1>2 DEF Vectors, Others
<1>5. IsFiniteSet(Vectors(k - 1)) /\ IsFiniteSet(Others(k - 1))
  BY <1>1, VectorsType
<1>6. CASE args[k].kind = "fp"
  <2>1. Vectors(k) = Vectors(k - 1) \cup {k}
    BY <1>2, <1>3, <1>6 DEF Vectors
  <2>2. Others(k) = Others(k - 1)
    BY <1>2, <2>1, <1>4 DEF Others
  <2> QED BY <1>4, <1>5, <1>6, <2>1, <2>2, FS_AddElement
<1>7. CASE args[k].kind # "fp"
  <2>1. Vectors(k) = Vectors(k - 1)
    BY <1>2, <1>3, <1>7 DEF Vectors
  <2>2. Others(k) = Others(k - 1) \cup {k}
    BY <1>2, <2>1, <1>4 DEF Others, Vectors
  <2> QED BY <1>4, <1>5, <1>7, <2>1, <2>2, FS_AddElement
<1> QED BY <1>6, <1>7

LEMMA DivisionGrows ==
  ASSUME Given, NEW n \in Nat, n + 1 \in 1..N, NEW G, NEW F, NEW S, NEW R,
         Division(n, G, F, S, R),
         byStack \in Seq(BOOLEAN), Len(byStack) = n, NEW b \in BOOLEAN,
         b <=> ~Fits(args[n + 1], G[n + 1], F[n + 1], Second(args[n + 1])),
         byStack' = Append(byStack, b), args' = args, large' = large
  PROVE  \E G2, F2, S2, R2 :
           /\ Division(n + 1, G2, F2, S2, R2)'
           /\ b => /\ G2[n + 2] = G[n + 1] /\ F2[n + 2] = F[n + 1]
                   /\ S2[n + 2] = S[n + 1] + args[n + 1].words
           /\ ~b => /\ G2[n + 2] = G[n + 1] + GpNeed(args[n + 1], Second(args[n + 1]))
                    /\ F2[n + 2] = F[n + 1] + FpNeed(args[n + 1], Second(args[n + 1]))
                    /\ S2[n + 2] = S[n + 1]
<1> PICK words : words = args[n + 1].words
  OBVIOUS
<1> PICK gn : gn = GpNeed(args[n + 1], Second(args[n + 1]))
  OBVIOUS
<1> PICK fn : fn = FpNeed(args[n + 1], Second(args[n + 1]))
  OBVIOUS
<1> PICK g : g = IF b THEN G[n + 1] ELSE G[n + 1] + gn
  OBVIOUS
<1> PICK f : f = IF b THEN F[n + 1] ELSE F[n + 1] + fn
  OBVIOUS
<1> PICK s : s = IF b THEN S[n + 1] + words ELSE S[n + 1]
  OBVIOUS
<1> PICK q : q = IF b THEN R[n + 1] ELSE R[n + 1] + words
  OBVIOUS
<1> PICK G2 : G2 = Grow(G, n + 2, g)
  OBVIOUS
<1> PICK F2 : F2 = Grow(F, n + 2, f)
  OBVIOUS
<1> PICK S2 : S2 = Grow(S, n + 2, s)
  OBVIOUS
<1> PICK R2 : R2 = Grow(R, n + 2, q)
  OBVIOUS
<1>1. /\ words \in Nat \ {0} /\ gn \in 0..2 /\ fn \in 0..2
      /\ args[n + 1].kind = "gp" => gn = 1 /\ fn = 0
      /\ args[n + 1].kind = "fp" => gn = 0 /\ fn = 1
  BY ArgType, NeedType
<1>2. /\ G \in [Nat -> Nat] /\ F \in [Nat -> Nat] /\ S \in [Nat -> Nat] /\ R \in [Nat -> Nat]
      /\ Rising(n, G) /\ Rising(n, F) /\ Rising(n, S) /\ Rising(n, R)
  BY DEF Division
<1>12. G[n + 1] \in Nat /\ F[n + 1] \in Nat /\ S[n + 1] \in Nat /\ R[n + 1] \in Nat
  <2>1. n + 1 \in Nat
    OBVIOUS
  <2> QED BY ONLY <1>2, <2>1
<1>14. /\ b => g = G[n + 1] /\ f = F[n + 1] /\ s = S[n + 1] + words /\ q = R[n + 1]
       /\ ~b => g = G[n + 1] + gn /\ f = F[n + 1] + fn /\ s = S[n + 1] /\ q = R[n + 1] + words
  BY Zenon
<1>13. /\ g \in Nat /\ g >= G[n + 1] /\ f \in Nat /\ f >= F[n + 1]
       /\ s \in Nat /\ s >= S[n + 1] /\ q \in Nat /\ q >= R[n + 1]
  <2>1. CASE b
    BY ONLY <1>1, <1>12, <1>14, <2>1
  <2>2. CASE ~b
    BY ONLY <1>1, <1>12, <1>14, <2>2
  <2> QED BY ONLY <2>1, <2>2
<1>3. /\ byStack'[n + 1] = b /\ \A j \in 1..n : byStack'[j] = byStack[j]
  OBVIOUS
<1>4. /\ G2 \in [Nat -> Nat] /\ Rising(n + 1, G2) /\ G2[n + 2] = g
      /\ \A k \in 0..(n + 1) : G2[k] = G[k]
  <2>1. Grew(n, G, Grow(G, n + 2, g), g)
    BY ONLY <1>2, <1>13, n \in Nat, Grown
  <2> QED BY <2>1 DEF Grew
<1>5. /\ F2 \in [Nat -> Nat] /\ Rising(n + 1, F2) /\ F2[n + 2] = f
      /\ \A k \in 0..(n + 1) : F2[k] = F[k]
  <2>1. Grew(n, F, Grow(F, n + 2, f), f)
    BY ONLY <1>2, <1>13, n \in Nat, Grown
  <2> QED BY <2>1 DEF Grew
<1>6. /\ S2 \in [Nat -> Nat] /\ Rising(n + 1, S2) /\ S2[n + 2] = s
      /\ \A k \in 0..(n + 1) : S2[k] = S[k]
  <2>1. Grew(n, S, Grow(S, n + 2, s), s)
    BY ONLY <1>2, <1>13, n \in Nat, Grown
  <2> QED BY <2>1 DEF Grew
<1>7. /\ R2 \in [Nat -> Nat] /\ Rising(n + 1, R2) /\ R2[n + 2] = q
      /\ \A k \in 0..(n + 1) : R2[k] = R[k]
  <2>1. Grew(n, R, Grow(R, n + 2, q), q)
    BY ONLY <1>2, <1>13, n \in Nat, Grown
  <2> QED BY <2>1 DEF Grew
<1>8. ASSUME NEW j \in 1..(n + 1)
      PROVE  Divided(j, G2, F2, S2, R2)'
  <2>1. CASE j \in 1..n
    <3>1. Divided(j, G, F, S, R) /\ j \in 0..(n + 1) /\ j + 1 \in 0..(n + 1)
      BY <2>1 DEF Division
    <3>2. /\ G2[j] = G[j] /\ F2[j] = F[j] /\ S2[j] = S[j] /\ R2[j] = R[j]
          /\ G2[j + 1] = G[j + 1] /\ F2[j + 1] = F[j + 1]
          /\ S2[j + 1] = S[j + 1] /\ R2[j + 1] = R[j + 1]
      BY <3>1, <1>4, <1>5, <1>6, <1>7
    <3>3. byStack'[j] = byStack[j]
      BY <1>3, <2>1
    <3> QED BY <3>1, <3>2, <3>3 DEF Divided
  <2>2. CASE j = n + 1
    <3>1. /\ G2[j] = G[j] /\ F2[j] = F[j] /\ S2[j] = S[j] /\ R2[j] = R[j] /\ j + 1 = n + 2
      BY ONLY <2>2, n \in Nat, <1>4, <1>5, <1>6, <1>7
    <3>2. CASE b
      <4>1. ~Fits(args[j], G2[j], F2[j], Second(args[j])) /\ byStack'[j]
        BY <1>3, <2>2, <3>1, <3>2
      <4>2. G2[j + 1] = G2[j] /\ F2[j + 1] = F2[j] /\ R2[j + 1] = R2[j] /\ S2[j + 1] = S2[j] + words
        BY ONLY <2>2, <3>1, <3>2, <1>14, <1>4, <1>5, <1>6, <1>7
      <4> QED BY <2>2, <4>1, <4>2 DEF Divided
    <3>3. CASE ~b
      <4>1. Fits(args[j], G2[j], F2[j], Second(args[j])) /\ ~byStack'[j]
        BY <1>3, <2>2, <3>1, <3>3
      <4>2. /\ G2[j + 1] = G2[j] + gn /\ F2[j + 1] = F2[j] + fn
            /\ R2[j + 1] = R2[j] + words /\ S2[j + 1] = S2[j]
        BY ONLY <2>2, <3>1, <3>3, <1>14, <1>4, <1>5, <1>6, <1>7
      <4> QED BY <2>2, <4>1, <4>2 DEF Divided
    <3> QED BY <3>2, <3>3
  <2> QED BY <2>1, <2>2
<1>9. ASSUME NEW k \in 1..(n + 2)
      PROVE  EvenSum(k, S2)'
  <2> SUFFICES ASSUME \A j \in 1..(k - 1) : byStack'[j] => args[j].words % 2 = 0
               PROVE  S2[k] % 2 = 0
    BY DEF EvenSum
  <2>1. CASE k \in 1..(n + 1)
    <3>1. \A j \in 1..(k - 1) : byStack[j] => args[j].words % 2 = 0
      BY <1>3, <2>1
    <3>2. EvenSum(k, S)
      BY <2>1 DEF Division
    <3>3. S[k] % 2 = 0
      BY <3>1, <3>2 DEF EvenSum
    <3>4. S2[k] = S[k]
      BY ONLY <2>1, n \in Nat, <1>6
    <3> QED BY <3>3, <3>4
  <2>2. CASE k = n + 2
    <3>1. \A j \in 1..n : byStack[j] => args[j].words % 2 = 0
      BY <1>3, <2>2
    <3>4. EvenSum(n + 1, S) /\ n + 1 - 1 = n
      BY DEF Division
    <3>2. S[n + 1] % 2 = 0
      BY <3>1, <3>4 DEF EvenSum
    <3>3. b => words % 2 = 0
      BY <1>3, <2>2
    <3>5. CASE b
      <4>1. s = S[n + 1] + words /\ words % 2 = 0
        BY <3>5, <3>3, <1>14
      <4> QED BY ONLY <4>1, <3>2, <1>1, <1>12, <1>6, <2>2
    <3>6. CASE ~b
      BY ONLY <3>6, <3>2, <1>14, <1>6, <2>2
    <3> QED BY <3>5, <3>6
  <2> QED BY <2>1, <2>2
<1>10. ASSUME NEW k \in 1..(n + 2)
       PROVE  ScalarSum(k, G2, F2, S2)'
  <2>1. \A m : Vectors(m)' = Vectors(m) /\ Others(m)' = Others(m)
    BY DEF Vectors, Others, TypeOf, First
  <2> SUFFICES ASSUME \A j \in 1..(k - 1) : args[j].kind \in {"gp", "fp"} /\ ~byStack'[j]
               PROVE  /\ S2[k] = 0
                      /\ F2[k] = Cardinality(Vectors(k - 1))
                      /\ G2[k] = Cardinality(Others(k - 1))
    BY <2>1 DEF ScalarSum
  <2>2. CASE k \in 1..(n + 1)
    <3>1. \A j \in 1..(k - 1) : args[j].kind \in {"gp", "fp"} /\ ~byStack[j]
      BY <1>3, <2>2
    <3>3. ScalarSum(k, G, F, S)
      BY <2>2 DEF Division
    <3>2. S[k] = 0 /\ F[k] = Cardinality(Vectors(k - 1)) /\ G[k] = Cardinality(Others(k - 1))
      BY <3>1, <3>3 DEF ScalarSum
    <3> QED BY ONLY <3>2, <2>2, n \in Nat, <1>4, <1>5, <1>6
  <2>3. CASE k = n + 2
    <3>1. \A j \in 1..n : args[j].kind \in {"gp", "fp"} /\ ~byStack[j]
      BY <1>3, <2>3
    <3>7. ScalarSum(n + 1, G, F, S) /\ n + 1 - 1 = n
      BY DEF Division
    <3>2. S[n + 1] = 0 /\ F[n + 1] = Cardinality(Vectors(n)) /\ G[n + 1] = Cardinality(Others(n))
      BY <3>1, <3>7 DEF ScalarSum
    <3>3. args[n + 1].kind \in {"gp", "fp"} /\ ~b
      BY <1>3, <2>3
    <3>4. n + 1 - 1 = n /\ k - 1 = n + 1
      BY <2>3
    <3>5. CASE args[n + 1].kind = "fp"
      <4>1. Cardinality(Vectors(n + 1)) = F[n + 1] + 1 /\ Others(n + 1) = Others(n)
        BY <3>2, <3>4, <3>5, VectorsGrow
      <4> QED BY ONLY <1>1, <1>12, <1>14, <1>4, <1>5, <1>6, <2>3, <3>2, <3>3, <3>4, <3>5, <4>1
    <3>6. CASE args[n + 1].kind = "gp"
      <4>1. Cardinality(Others(n + 1)) = G[n + 1] + 1 /\ Vectors(n + 1) = Vectors(n)
        BY <3>2, <3>4, <3>6, VectorsGrow
      <4> QED BY ONLY <1>1, <1>12, <1>14, <1>4, <1>5, <1>6, <2>3, <3>2, <3>3, <3>4, <3>6, <4>1
    <3> QED BY <3>3, <3>5, <3>6
  <2> QED BY <2>2, <2>3
<1>11. /\ G2[0] = 0 /\ F2[0] = 0 /\ G2[1] = Int01(large') /\ F2[1] = 0 /\ S2[1] = 0 /\ R2[1] = 0
  <2>1. /\ G[0] = 0 /\ F[0] = 0 /\ G[1] = Int01(large) /\ F[1] = 0 /\ S[1] = 0 /\ R[1] = 0
    BY DEF Division
  <2>2. Int01(large') = Int01(large)
    OBVIOUS
  <2>3. 0 \in 0..(n + 1) /\ 1 \in 0..(n + 1)
    OBVIOUS
  <2> QED BY ONLY <2>1, <2>2, <2>3, <1>4, <1>5, <1>6, <1>7
<1>15. n + 1 + 1 = n + 2
  OBVIOUS
<1>16. Division(n + 1, G2, F2, S2, R2)'
  BY ONLY <1>4, <1>5, <1>6, <1>7, <1>8, <1>9, <1>10, <1>11, <1>15 DEF Division
<1>17. /\ b => G2[n + 2] = G[n + 1] /\ F2[n + 2] = F[n + 1] /\ S2[n + 2] = S[n + 1] + words
       /\ ~b => /\ G2[n + 2] = G[n + 1] + gn /\ F2[n + 2] = F[n + 1] + fn
                /\ S2[n + 2] = S[n + 1]
  BY ONLY <1>4, <1>5, <1>6, <1>14, Zenon
<1> QED BY <1>16, <1>17

(***************************************************************************)
(* What the division gives.                                                *)
(***************************************************************************)
LEMMA DivisionType ==
  ASSUME NEW n \in Nat, NEW G, NEW F, NEW S, NEW R, Division(n, G, F, S, R), NEW j \in 0..(n + 1)
  PROVE  /\ G[j] \in Nat /\ F[j] \in Nat /\ S[j] \in Nat /\ R[j] \in Nat
         /\ j # 0 => S[j] <= S[n + 1] /\ R[j] <= R[n + 1] /\ G[j] <= G[n + 1] /\ F[j] <= F[n + 1]
<1>1. /\ G \in [Nat -> Nat] /\ F \in [Nat -> Nat] /\ S \in [Nat -> Nat] /\ R \in [Nat -> Nat]
      /\ Rising(n, G) /\ Rising(n, F) /\ Rising(n, S) /\ Rising(n, R)
  BY DEF Division
<1>2. j \in Nat
  OBVIOUS
<1>3. j # 0 => j \in 1..(n + 1) /\ n + 1 \in 1..(n + 1) /\ j <= n + 1
  OBVIOUS
<1> QED BY ONLY <1>1, <1>2, <1>3 DEF Rising

LEMMA StepIs ==
  ASSUME Given, NEW G, NEW F, NEW S, NEW R, Division(N, G, F, S, R), NEW j \in 1..N
  PROVE  /\ G[j] \in Nat /\ F[j] \in Nat /\ S[j] \in Nat /\ R[j] \in Nat
         /\ G[j + 1] \in Nat /\ F[j + 1] \in Nat /\ S[j + 1] \in Nat /\ R[j + 1] \in Nat
         /\ S[j + 1] <= S[N + 1] /\ R[j + 1] <= R[N + 1]
         /\ G[j + 1] <= G[N + 1] /\ F[j + 1] <= F[N + 1]
         /\ S[N + 1] \in Nat /\ R[N + 1] \in Nat /\ G[N + 1] \in Nat /\ F[N + 1] \in Nat
         /\ Divided(j, G, F, S, R)
<1>1. N \in Nat /\ j \in 0..(N + 1) /\ j + 1 \in 0..(N + 1) /\ N + 1 \in 0..(N + 1) /\ j + 1 # 0
  BY SizeType
<1>2. /\ G[j] \in Nat /\ F[j] \in Nat /\ S[j] \in Nat /\ R[j] \in Nat
  BY <1>1, DivisionType
<1>3. /\ G[j + 1] \in Nat /\ F[j + 1] \in Nat /\ S[j + 1] \in Nat /\ R[j + 1] \in Nat
      /\ S[j + 1] <= S[N + 1] /\ R[j + 1] <= R[N + 1]
      /\ G[j + 1] <= G[N + 1] /\ F[j + 1] <= F[N + 1]
  BY <1>1, DivisionType
<1>4. S[N + 1] \in Nat /\ R[N + 1] \in Nat /\ G[N + 1] \in Nat /\ F[N + 1] \in Nat
  BY <1>1, DivisionType
<1>5. Divided(j, G, F, S, R)
  BY DEF Division
<1> QED BY <1>2, <1>3, <1>4, <1>5

\* No two arguments lie on one word.
LEMMA PlaceIs ==
  ASSUME Given, NEW G, NEW F, NEW S, NEW R, Division(N, G, F, S, R), NEW j \in 1..N
  PROVE  /\ At(j, S, R) \in Nat
         /\ At(j, S, R) + args[j].words <= R[N + 1] + S[N + 1]
         /\ ~byStack[j] => At(j, S, R) + args[j].words <= R[N + 1]
         /\ byStack[j] => At(j, S, R) >= R[N + 1]
<1>1. args[j].words \in Nat \ {0}
  BY ArgType
<1>2. /\ S[j] \in Nat /\ R[j] \in Nat /\ S[N + 1] \in Nat /\ R[N + 1] \in Nat
      /\ S[j + 1] <= S[N + 1] /\ R[j + 1] <= R[N + 1]
      /\ Divided(j, G, F, S, R)
  BY StepIs
<1>3. CASE byStack[j]
  <2>1. S[j + 1] = S[j] + args[j].words /\ At(j, S, R) = R[N + 1] + S[j]
    BY <1>2, <1>3 DEF Divided, At
  <2> QED BY ONLY <1>1, <1>2, <1>3, <2>1
<1>4. CASE ~byStack[j]
  <2>1. R[j + 1] = R[j] + args[j].words /\ At(j, S, R) = R[j]
    BY <1>2, <1>4 DEF Divided, At
  <2> QED BY ONLY <1>1, <1>2, <1>4, <2>1
<1> QED BY <1>3, <1>4

LEMMA PlacesApart ==
  ASSUME Given, NEW G, NEW F, NEW S, NEW R, Division(N, G, F, S, R),
         NEW j \in 1..N, NEW k \in 1..N, j < k
  PROVE  \/ At(j, S, R) + args[j].words <= At(k, S, R)
         \/ At(k, S, R) + args[k].words <= At(j, S, R)
<1>1. args[j].words \in Nat \ {0} /\ args[k].words \in Nat \ {0}
  BY ArgType
<1>2. /\ At(j, S, R) \in Nat /\ At(k, S, R) \in Nat /\ R[N + 1] \in Nat
      /\ ~byStack[j] => At(j, S, R) + args[j].words <= R[N + 1]
      /\ byStack[j] => At(j, S, R) >= R[N + 1]
      /\ ~byStack[k] => At(k, S, R) + args[k].words <= R[N + 1]
      /\ byStack[k] => At(k, S, R) >= R[N + 1]
  BY PlaceIs, StepIs
<1>3. /\ S[j] \in Nat /\ R[j] \in Nat /\ S[k] \in Nat /\ R[k] \in Nat
      /\ S[j + 1] \in Nat /\ R[j + 1] \in Nat
      /\ Divided(j, G, F, S, R)
  BY StepIs
<1>4. S[j + 1] <= S[k] /\ R[j + 1] <= R[k]
  <2>1. N \in Nat /\ j + 1 \in 1..(N + 1) /\ k \in 1..(N + 1) /\ j + 1 <= k
    BY SizeType
  <2>2. Rising(N, S) /\ Rising(N, R)
    BY DEF Division
  <2> QED BY ONLY <2>1, <2>2 DEF Rising
<1>5. CASE byStack[j] /\ byStack[k]
  <2>1. /\ S[j + 1] = S[j] + args[j].words
        /\ At(j, S, R) = R[N + 1] + S[j] /\ At(k, S, R) = R[N + 1] + S[k]
    BY <1>3, <1>5 DEF Divided, At
  <2> QED BY ONLY <1>1, <1>2, <1>3, <1>4, <2>1
<1>6. CASE ~byStack[j] /\ ~byStack[k]
  <2>1. R[j + 1] = R[j] + args[j].words /\ At(j, S, R) = R[j] /\ At(k, S, R) = R[k]
    BY <1>3, <1>6 DEF Divided, At
  <2> QED BY ONLY <1>1, <1>2, <1>3, <1>4, <2>1
<1>7. CASE byStack[j] /\ ~byStack[k]
  BY ONLY <1>1, <1>2, <1>7
<1>8. CASE ~byStack[j] /\ byStack[k]
  BY ONLY <1>1, <1>2, <1>8
<1> QED BY <1>5, <1>6, <1>7, <1>8

(***************************************************************************)
(* Pushing, popping, and alloca.                                           *)
(***************************************************************************)
LEMMA Joined ==
  ASSUME NEW X, NEW a \in Seq(X), NEW b \in Seq(X)
  PROVE  /\ a \o b \in Seq(X) /\ Len(a \o b) = Len(a) + Len(b)
         /\ Len(a) \in Nat /\ Len(b) \in Nat
         /\ \A k \in 1..Len(a) : (a \o b)[k] = a[k]
         /\ \A k \in 1..Len(b) : (a \o b)[Len(a) + k] = b[k]
OBVIOUS

LEMMA Dropped ==
  ASSUME NEW X, NEW s \in Seq(X), NEW k \in 0..Len(s)
  PROVE  /\ SubSeq(s, k + 1, Len(s)) \in Seq(X) /\ Len(s) \in Nat
         /\ Len(SubSeq(s, k + 1, Len(s))) = Len(s) - k
         /\ \A m \in 1..(Len(s) - k) : SubSeq(s, k + 1, Len(s))[m] = s[k + m]
OBVIOUS

\* Where a word is after a push, in what was there and in what is pushed.
LEMMA HoldsUnder ==
  ASSUME NEW X, NEW a \in Seq(X), NEW s \in Seq(X), NEW at \in Nat, NEW place \in Nat, NEW word,
         NEW cut \in Nat, cut = at + Len(a),
         Holds(s, place, cut, word), place > cut, place <= cut + Len(s)
  PROVE  Holds(a \o s, place, at, word)
<1>1. /\ Len(a) \in Nat /\ Len(s) \in Nat
      /\ \A k \in 1..Len(s) : (a \o s)[Len(a) + k] = s[k]
  BY Joined
<1>2. PICK k \in 1..Len(s) : k = place - cut
  <2>1. place - cut \in 1..Len(s)
    BY ONLY <1>1, place \in Nat, cut \in Nat, place > cut, place <= cut + Len(s)
  <2> QED BY <2>1
<1>3. place - at = Len(a) + k
  BY <1>1, <1>2
<1>4. s[k] = word
  BY <1>2 DEF Holds
<1> QED BY <1>1, <1>2, <1>3, <1>4 DEF Holds

LEMMA HoldsOnTop ==
  ASSUME NEW X, NEW a \in Seq(X), NEW s \in Seq(X), NEW at \in Nat, NEW w \in 1..Len(a)
  PROVE  Holds(a \o s, at + w, at, a[w])
<1>1. at + w - at = w
  OBVIOUS
<1>2. (a \o s)[w] = a[w]
  BY Joined
<1> QED BY <1>1, <1>2 DEF Holds

\* After a pop.
LEMMA HoldsPopped ==
  ASSUME NEW X, NEW s \in Seq(X), NEW k \in 0..Len(s), NEW cut \in Nat, NEW place \in Nat, NEW word,
         Holds(s, place, cut, word), place <= cut + Len(s)
  PROVE  Holds(SubSeq(s, k + 1, Len(s)), place, cut + k, word)
<1> SUFFICES ASSUME place > cut + k
             PROVE  SubSeq(s, k + 1, Len(s))[place - (cut + k)] = word
  BY DEF Holds
<1>1. Len(s) \in Nat /\ k \in Nat
  OBVIOUS
<1>2. PICK m \in 1..(Len(s) - k) : m = place - (cut + k)
  BY <1>1
<1>3. k + m = place - cut /\ place > cut
  BY <1>1, <1>2
<1>4. s[k + m] = word
  BY <1>3 DEF Holds
<1>5. SubSeq(s, k + 1, Len(s))[m] = s[k + m]
  BY Dropped
<1> QED BY <1>2, <1>4, <1>5

\* And with words put under it all.
LEMMA HoldsAbove ==
  ASSUME NEW X, NEW s \in Seq(X), NEW b \in Seq(X), NEW cut \in Nat, NEW place \in Nat, NEW word,
         Holds(s, place, cut, word), place <= cut + Len(s)
  PROVE  Holds(s \o b, place, cut, word)
<1> SUFFICES ASSUME place > cut
             PROVE  (s \o b)[place - cut] = word
  BY DEF Holds
<1>1. Len(s) \in Nat
  OBVIOUS
<1>2. PICK m \in 1..Len(s) : m = place - cut
  BY <1>1
<1>3. s[m] = word
  BY <1>2 DEF Holds
<1> QED BY <1>2, <1>3, Joined

LEMMA HoldsAt ==
  ASSUME NEW s, NEW cut, NEW place, NEW q, place - cut = q, NEW word
  PROVE  /\ s[q] = word => Holds(s, place, cut, word)
         /\ place > cut /\ Holds(s, place, cut, word) => s[q] = word
BY DEF Holds

LEMMA HoldsBelow ==
  ASSUME NEW X, NEW s \in Seq(X), NEW b \in Seq(X), NEW cut \in Nat, NEW m \in 1..Len(b),
         NEW place, place = cut + Len(s) + m
  PROVE  Holds(s \o b, place, cut, b[m])
<1>1. Len(s) \in Nat /\ place - cut = Len(s) + m
  OBVIOUS
<1> QED BY <1>1, Joined DEF Holds

LEMMA WordsAre ==
  ASSUME Given, NEW j \in 1..N
  PROVE  /\ Words(j) \in Seq(Word) /\ Len(Words(j)) = args[j].words
         /\ \A w \in 1..args[j].words : Words(j)[w] = <<j, w>>
<1>1. args[j].words \in Nat \ {0} /\ j # 0 /\ j \in Int
  BY ArgType, SizeType
<1>2. Words(j) = [w \in 1..args[j].words |-> <<j, w>>]
  BY <1>1 DEF Words, TypeOf
<1>3. \A w \in 1..args[j].words : <<j, w>> \in Word
  BY <1>1 DEF Word
<1> QED BY <1>1, <1>2, <1>3

\* The places on the stack of the words of an argument.
LEMMA WordPlace ==
  ASSUME Given, NEW G, NEW F, NEW S, NEW R, Counted(G, F, S, R),
         NEW k \in 1..N, NEW w \in 1..args[k].words
  PROVE  /\ At(k, S, R) \in Nat /\ w \in Nat \ {0} /\ args[k].words \in Nat
         /\ At(k, S, R) + w \in Nat /\ R[N + 1] \in Nat /\ S[N + 1] \in Nat
         /\ At(k, S, R) + w <= R[N + 1] + S[N + 1]
         /\ At(k, S, R) + w <= R[N + 1] + stackArgs
<1>1. Division(N, G, F, S, R) /\ stackArgs \in Nat /\ stackArgs >= S[N + 1]
  BY DEF Counted
<1>2. /\ At(k, S, R) \in Nat /\ R[N + 1] \in Nat /\ S[N + 1] \in Nat
      /\ At(k, S, R) + args[k].words <= R[N + 1] + S[N + 1]
      /\ args[k].words \in Nat
  BY <1>1, PlaceIs, StepIs, ArgType
<1> QED BY ONLY <1>1, <1>2, w \in 1..args[k].words

\* What a loop over arguments leaves alone.
Kept == args' = args /\ large' = large /\ start' = start /\ byStack' = byStack
          /\ stackArgs' = stackArgs

LEMMA Pushed ==
  ASSUME Given, NEW G, NEW F, NEW S, NEW R, Counted(G, F, S, R), NEW j \in 1..N,
         NEW at, at = At(j, S, R), Suffix(at + args[j].words, S, R), Kept, bottom' = bottom,
         stack' = Words(j) \o stack, depth' = depth + args[j].words
  PROVE  Suffix(at, S, R)'
<1> DEFINE n == args[j].words
           all == R[N + 1] + stackArgs
           cut == at + n
<1>1. /\ Division(N, G, F, S, R) /\ stackArgs \in Nat /\ bottom \in Nat
  BY DEF Counted
<1>2. n \in Nat \ {0} /\ N \in Nat
  BY ArgType, SizeType
<1>3. at \in Nat /\ R[N + 1] \in Nat
  BY <1>1, PlaceIs, StepIs
<1>4. /\ stack \in Seq(Word) /\ cut \in 0..all
      /\ Len(stack) = all + Len(start) + bottom - cut
      /\ depth = all + Len(start) - cut
      /\ \A k \in 1..N : \A w \in 1..args[k].words : Holds(stack, At(k, S, R) + w, cut, <<k, w>>)
      /\ \A m \in 1..Len(start) : Holds(stack, all + m, cut, start[m])
      /\ \A m \in 1..bottom : Holds(stack, all + Len(start) + m, cut, BlockAt(bottom, m))
  BY DEF Suffix
<1>11. R[N + 1] + stackArgs = all /\ all \in Nat
  BY <1>1, <1>3
<1>12. N' = N /\ \A k : At(k, S, R)' = At(k, S, R)
  BY DEF Kept, N, At
<1>13. /\ n = args[j].words /\ at = At(j, S, R) /\ cut = at + n
       /\ \A w \in 1..n : Words(j)[w] = <<j, w>>
       /\ Words(j) \in Seq(Word) /\ Len(Words(j)) = n
  BY WordsAre
<1>14. depth' = depth + n /\ stack' = Words(j) \o stack
  OBVIOUS
<1>6. Len(start) \in Nat /\ Len(stack) \in Nat
  BY <1>4 DEF Given
<1> HIDE DEF n, all, cut
<1>18. /\ cut \in 0..all /\ cut = at + n /\ Len(stack) = all + Len(start) + bottom - cut
       /\ depth = all + Len(start) - cut /\ all \in Nat /\ at \in Nat /\ n \in Nat
       /\ bottom \in Nat /\ Len(start) \in Nat /\ Len(stack) \in Nat
  BY ONLY <1>1, <1>2, <1>3, <1>4, <1>6, <1>11, <1>13, Zenon
<1>15. cut \in Nat /\ cut = at + Len(Words(j)) /\ cut + Len(stack) = all + Len(start) + bottom
  <2>1. cut \in Nat /\ cut + Len(stack) = all + Len(start) + bottom
    BY ONLY <1>18
  <2> QED BY <2>1, <1>13, Zenon
<1>5. stack' \in Seq(Word) /\ Len(stack') = n + Len(stack)
  <2>1. /\ Words(j) \o stack \in Seq(Word)
        /\ Len(Words(j) \o stack) = Len(Words(j)) + Len(stack)
    BY ONLY <1>4, <1>13, Joined
  <2> QED BY <2>1, <1>13, <1>14, Zenon
<1>7. ASSUME NEW place \in Nat, NEW word, Holds(stack, place, cut, word), place > cut,
             place <= all + Len(start) + bottom
      PROVE  Holds(stack', place, at, word)
  BY <1>3, <1>4, <1>7, <1>13, <1>14, <1>15, HoldsUnder
<1>8. ASSUME NEW k \in 1..N, NEW w \in 1..args[k].words
      PROVE  Holds(stack', At(k, S, R) + w, at, <<k, w>>)
  <2>1. CASE k = j
    <3>1. At(k, S, R) = at /\ w \in 1..Len(Words(j)) /\ Words(j)[w] = <<k, w>>
      BY <1>13, <2>1
    <3> QED BY <1>3, <1>4, <1>13, <1>14, <3>1, HoldsOnTop
  <2>2. CASE k # j
    <3>1. /\ At(k, S, R) \in Nat /\ args[k].words \in Nat /\ At(k, S, R) + w \in Nat
          /\ w \in Nat \ {0} /\ At(k, S, R) + w <= all
      BY <1>11, WordPlace
    <3>2. \/ cut <= At(k, S, R)
          \/ At(k, S, R) + args[k].words <= at
      <4>1. j < k \/ k < j
        BY <2>2, <1>2
      <4> QED BY <4>1, <1>1, <1>13, PlacesApart
    <3>3. CASE cut <= At(k, S, R)
      <4>1. At(k, S, R) + w > cut /\ At(k, S, R) + w <= all + Len(start) + bottom
        <5>1. PICK x, d, l : x = At(k, S, R) /\ d = all /\ l = Len(start)
          OBVIOUS
        <5>2. /\ x \in Nat /\ w \in Nat \ {0} /\ x + w <= d /\ cut <= x /\ cut \in Nat
              /\ d \in Nat /\ l \in Nat /\ bottom \in Nat
          BY ONLY <3>1, <3>3, <1>15, <1>18, <5>1, Zenon
        <5>3. x + w > cut /\ x + w <= d + l + bottom
          BY ONLY <5>2
        <5> QED BY ONLY <5>1, <5>3, Zenon
      <4>2. Holds(stack, At(k, S, R) + w, cut, <<k, w>>)
        BY <1>4
      <4> QED BY <1>7, <3>1, <4>1, <4>2
    <3>4. CASE At(k, S, R) + args[k].words <= at
      <4>1. ~(At(k, S, R) + w > at)
        BY ONLY <3>1, <3>4, <1>3, w \in 1..args[k].words
      <4> QED BY <4>1 DEF Holds
    <3> QED BY <3>2, <3>3, <3>4
  <2> QED BY <2>1, <2>2
<1>9. ASSUME NEW m \in 1..Len(start)
      PROVE  Holds(stack', all + m, at, start[m])
  <2>1. /\ all + m \in Nat /\ all + m > cut /\ all + m <= all + Len(start) + bottom
    <3>1. PICK d, l : d = all /\ l = Len(start)
      OBVIOUS
    <3>2. cut \in 0..d /\ d \in Nat /\ l \in Nat /\ bottom \in Nat /\ m \in 1..l
      BY <1>18, <3>1, Zenon
    <3>3. d + m \in Nat /\ d + m > cut /\ d + m <= d + l + bottom
      BY ONLY <3>2
    <3> QED BY ONLY <3>1, <3>3, Zenon
  <2> QED BY <2>1, <1>4, <1>7
<1>10. ASSUME NEW m \in 1..bottom
       PROVE  Holds(stack', all + Len(start) + m, at, BlockAt(bottom, m))
  <2>1. /\ all + Len(start) + m \in Nat /\ all + Len(start) + m > cut
        /\ all + Len(start) + m <= all + Len(start) + bottom
    <3>1. PICK d, l : d = all /\ l = Len(start)
      OBVIOUS
    <3>2. cut \in 0..d /\ d \in Nat /\ l \in Nat /\ bottom \in Nat /\ m \in 1..bottom
      BY <1>18, <3>1, Zenon
    <3>3. d + l + m \in Nat /\ d + l + m > cut /\ d + l + m <= d + l + bottom
      BY ONLY <3>2
    <3> QED BY ONLY <3>1, <3>3, Zenon
  <2> QED BY <2>1, <1>4, <1>7
<1>16. /\ at \in 0..all /\ Len(stack') = all + Len(start) + bottom - at
       /\ depth' = all + Len(start) - at
  <2>1. Len(stack') = n + Len(stack) /\ depth' = depth + n
    BY <1>5, <1>14, Zenon
  <2> QED BY ONLY <1>18, <2>1
<1>17. args' = args /\ start' = start /\ stackArgs' = stackArgs /\ bottom' = bottom
  BY DEF Kept
<1> QED BY ONLY <1>5, <1>8, <1>9, <1>10, <1>11, <1>12, <1>13, <1>16, <1>17 DEF Suffix

LEMMA SuffixKept ==
  ASSUME NEW cut, NEW S, NEW R, Suffix(cut, S, R), Kept,
         stack' = stack, depth' = depth, bottom' = bottom
  PROVE  Suffix(cut, S, R)'
<1>1. N' = N /\ \A k : At(k, S, R)' = At(k, S, R)
  BY DEF Kept, N, At
<1> QED BY <1>1 DEF Suffix, Kept

LEMMA PoppedOff ==
  ASSUME Given, NEW G, NEW F, NEW S, NEW R, Counted(G, F, S, R), NEW cut, Suffix(cut, S, R),
         NEW k \in Nat, cut + k <= R[N + 1] + stackArgs, Kept, bottom' = bottom,
         stack' = SubSeq(stack, k + 1, Len(stack)), depth' = depth - k
  PROVE  Suffix(cut + k, S, R)'
<1> DEFINE all == R[N + 1] + stackArgs
<1>1. /\ stackArgs \in Nat /\ bottom \in Nat /\ R[N + 1] \in Nat /\ N \in Nat
  <2>1. Division(N, G, F, S, R) /\ stackArgs \in Nat /\ bottom \in Nat
    BY DEF Counted
  <2>2. N \in Nat /\ N + 1 \in 0..(N + 1)
    BY SizeType
  <2> QED BY <2>1, <2>2, DivisionType
<1>2. /\ stack \in Seq(Word) /\ cut \in 0..all
      /\ Len(stack) = all + Len(start) + bottom - cut
      /\ depth = all + Len(start) - cut
      /\ \A j \in 1..N : \A w \in 1..args[j].words : Holds(stack, At(j, S, R) + w, cut, <<j, w>>)
      /\ \A m \in 1..Len(start) : Holds(stack, all + m, cut, start[m])
      /\ \A m \in 1..bottom : Holds(stack, all + Len(start) + m, cut, BlockAt(bottom, m))
  BY DEF Suffix
<1>3. R[N + 1] + stackArgs = all /\ cut + k <= all
  OBVIOUS
<1>4. Len(start) \in Nat /\ Len(stack) \in Nat
  BY <1>2 DEF Given
<1>5. N' = N /\ \A j : At(j, S, R)' = At(j, S, R)
  BY DEF Kept, N, At
<1> HIDE DEF all
<1>6. /\ all \in Nat /\ cut \in Nat /\ cut + Len(stack) = all + Len(start) + bottom
      /\ k \in 0..Len(stack) /\ cut + k \in 0..all
  <2>1. all \in Nat /\ cut \in 0..all /\ cut + k <= all
    <3>1. PICK r, a : r = R[N + 1] /\ a = stackArgs
      OBVIOUS
    <3>2. all = r + a /\ r \in Nat /\ a \in Nat
      BY ONLY <1>1, <1>3, <3>1, Zenon
    <3>3. all \in Nat
      BY ONLY <3>2
    <3> QED BY ONLY <1>2, <1>3, <3>3, Zenon
  <2>2. PICK l, s : l = Len(stack) /\ s = Len(start)
    OBVIOUS
  <2>3. l = all + s + bottom - cut /\ l \in Nat /\ s \in Nat /\ bottom \in Nat
    BY ONLY <1>1, <1>2, <1>4, <2>2, Zenon
  <2>4. cut \in Nat /\ cut + l = all + s + bottom /\ k \in 0..l /\ cut + k \in 0..all
    BY ONLY <2>1, <2>3, k \in Nat
  <2> QED BY ONLY <2>1, <2>2, <2>4, Zenon
<1>7. stack' \in Seq(Word) /\ Len(stack') = Len(stack) - k
  BY <1>2, <1>6, Dropped
<1>8. ASSUME NEW place \in Nat, NEW word, Holds(stack, place, cut, word),
             place <= all + Len(start) + bottom
      PROVE  Holds(stack', place, cut + k, word)
  BY <1>2, <1>6, <1>8, HoldsPopped
<1>9. ASSUME NEW j \in 1..N, NEW w \in 1..args[j].words
      PROVE  Holds(stack', At(j, S, R) + w, cut + k, <<j, w>>)
  <2>1. At(j, S, R) + w \in Nat /\ At(j, S, R) + w <= all
    BY <1>3, WordPlace
  <2>2. At(j, S, R) + w <= all + Len(start) + bottom
    BY ONLY <2>1, <1>1, <1>4, <1>6
  <2> QED BY <1>2, <1>8, <2>1, <2>2
<1>10. ASSUME NEW m \in 1..Len(start)
       PROVE  Holds(stack', all + m, cut + k, start[m])
  <2>1. all + m \in Nat /\ all + m <= all + Len(start) + bottom
    BY ONLY <1>1, <1>4, <1>6, m \in 1..Len(start)
  <2> QED BY <1>2, <1>8, <2>1
<1>11. ASSUME NEW m \in 1..bottom
       PROVE  Holds(stack', all + Len(start) + m, cut + k, BlockAt(bottom, m))
  <2>1. /\ all + Len(start) + m \in Nat
        /\ all + Len(start) + m <= all + Len(start) + bottom
    BY ONLY <1>1, <1>4, <1>6, m \in 1..bottom
  <2> QED BY <1>2, <1>8, <2>1
<1>12. /\ Len(stack') = all + Len(start) + bottom - (cut + k)
       /\ depth' = all + Len(start) - (cut + k)
  <2>1. depth' = depth - k
    OBVIOUS
  <2>2. Len(stack) = all + Len(start) + bottom - cut /\ depth = all + Len(start) - cut
    BY <1>2
  <2> QED BY ONLY <1>1, <1>4, <1>6, <1>7, <2>1, <2>2, k \in Nat
<1>13. args' = args /\ start' = start /\ stackArgs' = stackArgs /\ bottom' = bottom
  BY DEF Kept
<1> QED BY ONLY <1>3, <1>5, <1>6, <1>7, <1>9, <1>10, <1>11, <1>12, <1>13 DEF Suffix

Blocks(n) == [w \in 1..n |-> BlockAt(n, w)]

LEMMA BlockIs == ASSUME NEW b \in Nat, NEW m \in Int PROVE BlockAt(b, m) \in Word
BY DEF BlockAt, Block, Word

LEMMA BlocksAre ==
  ASSUME NEW n \in Nat
  PROVE  /\ Blocks(n) \in Seq(Word) /\ Len(Blocks(n)) = n
         /\ \A m \in 1..n : Blocks(n)[m] = BlockAt(n, m)
<1>1. \A m \in 1..n : BlockAt(n, m) \in Word
  BY BlockIs
<1> QED BY <1>1 DEF Blocks

\* The words of a new block, above b words of blocks.
NewBlock(b, n) == [w \in 1..n |-> Block(b + n + 1 - w)]

LEMMA NewBlockIs ==
  ASSUME NEW b \in Nat, NEW n \in Nat
  PROVE  /\ NewBlock(b, n) \in Seq(Word) /\ Len(NewBlock(b, n)) = n
         /\ \A m \in 1..n : NewBlock(b, n)[m] = BlockAt(b + n, m)
         /\ \A m \in 1..b : BlockAt(b + n, n + m) = BlockAt(b, m)
<1>1. \A m \in 1..n : Block(b + n + 1 - m) = BlockAt(b + n, m)
  BY DEF BlockAt
<1>2. \A m \in 1..n : BlockAt(b + n, m) \in Word
  BY BlockIs
<1>3. \A m \in 1..b : (b + n) + 1 - (n + m) = b + 1 - m
  OBVIOUS
<1> QED BY <1>1, <1>2, <1>3 DEF NewBlock, BlockAt

Insert(s, p, b) == SubSeq(s, 1, p) \o b \o SubSeq(s, p + 1, Len(s))

LEMMA Inserted ==
  ASSUME NEW s \in Seq(Word), NEW b \in Seq(Word), NEW p \in 0..Len(s)
  PROVE  /\ Insert(s, p, b) \in Seq(Word) /\ Len(Insert(s, p, b)) = Len(s) + Len(b)
         /\ \A m \in 1..p : Insert(s, p, b)[m] = s[m]
         /\ \A m \in 1..Len(b) : Insert(s, p, b)[p + m] = b[m]
         /\ \A m \in (p + 1)..Len(s) : Insert(s, p, b)[Len(b) + m] = s[m]
<1>0. Len(s) \in Nat /\ p \in Nat /\ p <= Len(s)
  OBVIOUS
<1>8. \A g, h \in Seq(Word) :
        /\ g \o h \in Seq(Word) /\ Len(g \o h) = Len(g) + Len(h) /\ Len(h) \in Nat
        /\ \A m \in 1..Len(g) : (g \o h)[m] = g[m]
        /\ \A m \in 1..Len(h) : (g \o h)[Len(g) + m] = h[m]
  BY Joined
<1> DEFINE front == SubSeq(s, 1, p)
           end   == SubSeq(s, p + 1, Len(s))
           first == front \o b
           t     == Insert(s, p, b)
<1>1. front \in Seq(Word) /\ Len(front) = p /\ \A m \in 1..p : front[m] = s[m]
  BY <1>0
<1>2. /\ end \in Seq(Word) /\ Len(end) = Len(s) - p /\ Len(s) \in Nat
      /\ \A m \in 1..(Len(s) - p) : end[m] = s[p + m]
  BY Dropped
<1>3. t = first \o end
  BY DEF Insert
<1> HIDE DEF front, end, t
<1>4. /\ first \in Seq(Word) /\ Len(first) = p + Len(b) /\ Len(b) \in Nat
      /\ \A m \in 1..p : first[m] = s[m]
      /\ \A m \in 1..Len(b) : first[p + m] = b[m]
  <2>1. /\ front \o b \in Seq(Word) /\ Len(front \o b) = Len(front) + Len(b) /\ Len(b) \in Nat
        /\ \A m \in 1..Len(front) : (front \o b)[m] = front[m]
        /\ \A m \in 1..Len(b) : (front \o b)[Len(front) + m] = b[m]
    BY ONLY <1>1, <1>8, b \in Seq(Word), Zenon
  <2>2. first = front \o b
    OBVIOUS
  <2> QED BY <1>1, <2>1, <2>2
<1> HIDE DEF first
<1>5. /\ t \in Seq(Word) /\ Len(t) = Len(first) + Len(end)
      /\ \A m \in 1..Len(first) : t[m] = first[m]
      /\ \A m \in 1..Len(end) : t[Len(first) + m] = end[m]
  <2>1. /\ first \o end \in Seq(Word) /\ Len(first \o end) = Len(first) + Len(end)
        /\ \A m \in 1..Len(first) : (first \o end)[m] = first[m]
        /\ \A m \in 1..Len(end) : (first \o end)[Len(first) + m] = end[m]
    BY ONLY <1>2, <1>4, <1>8, Zenon
  <2> QED BY ONLY <1>3, <2>1, Zenon
<1>6. /\ Len(t) = Len(s) + Len(b)
      /\ \A m \in 1..p : m \in 1..Len(first)
      /\ \A m \in 1..Len(b) : p + m \in 1..Len(first)
  BY ONLY <1>0, <1>1, <1>2, <1>4, <1>5
<1>7. ASSUME NEW m \in (p + 1)..Len(s)
      PROVE  t[Len(b) + m] = s[m]
  <2>1. PICK k \in 1..Len(end) : m = p + k /\ Len(b) + m = Len(first) + k
    <3>1. m - p \in 1..Len(end) /\ m = p + (m - p) /\ Len(b) + m = Len(first) + (m - p)
      BY ONLY <1>2, <1>4, p \in 0..Len(s), m \in (p + 1)..Len(s)
    <3> QED BY <3>1
  <2> QED BY <1>2, <1>5, <2>1
<1> QED BY ONLY <1>4, <1>5, <1>6, <1>7 DEF t

LEMMA AllocaBelow ==
  ASSUME Given, NEW G, NEW F, NEW S, NEW R, Counted(G, F, S, R), NEW cut, Suffix(cut, S, R),
         Kept, NEW n \in Nat, bottom' = bottom + n, depth' = depth,
         stack' = SubSeq(stack, 1, Len(stack) - bottom) \o NewBlock(bottom, n)
                    \o SubSeq(stack, Len(stack) - bottom + 1, Len(stack))
  PROVE  Suffix(cut, S, R)'
<1> DEFINE all == R[N + 1] + stackArgs
<1>1. /\ stackArgs \in Nat /\ R[N + 1] \in Nat /\ N \in Nat /\ bottom \in Nat
  <2>1. Division(N, G, F, S, R) /\ stackArgs \in Nat /\ bottom \in Nat
    BY DEF Counted
  <2>2. N \in Nat /\ N + 1 \in 0..(N + 1)
    BY SizeType
  <2> QED BY <2>1, <2>2, DivisionType
<1>2. /\ stack \in Seq(Word) /\ cut \in 0..all
      /\ Len(stack) = all + Len(start) + bottom - cut
      /\ depth = all + Len(start) - cut
      /\ \A j \in 1..N : \A w \in 1..args[j].words : Holds(stack, At(j, S, R) + w, cut, <<j, w>>)
      /\ \A m \in 1..Len(start) : Holds(stack, all + m, cut, start[m])
      /\ \A m \in 1..bottom : Holds(stack, all + Len(start) + m, cut, BlockAt(bottom, m))
  BY DEF Suffix
<1>3. R[N + 1] + stackArgs = all
  OBVIOUS
<1>4. Len(start) \in Nat /\ Len(stack) \in Nat
  BY <1>2 DEF Given
<1>5. N' = N /\ \A j : At(j, S, R)' = At(j, S, R)
  BY DEF Kept, N, At
<1> HIDE DEF all
<1>6. PICK p \in 0..Len(stack) :
        p = Len(stack) - bottom /\ cut + p = all + Len(start) /\ all \in Nat /\ cut \in Nat
  <2>1. PICK l, s, a : l = Len(stack) /\ s = Len(start) /\ a = all
    OBVIOUS
  <2>2. /\ l \in Nat /\ s \in Nat /\ bottom \in Nat /\ cut \in 0..a /\ l = a + s + bottom - cut
        /\ a \in Nat
    <3>1. all \in Nat
      BY ONLY <1>1, <1>3
    <3> QED BY ONLY <1>1, <1>2, <1>4, <2>1, <3>1, Zenon
  <2>3. l - bottom \in 0..l /\ cut + (l - bottom) = a + s /\ cut \in Nat
    BY ONLY <2>2
  <2> QED BY ONLY <2>1, <2>2, <2>3, Zenon
<1>7. /\ NewBlock(bottom, n) \in Seq(Word) /\ Len(NewBlock(bottom, n)) = n
      /\ \A m \in 1..n : NewBlock(bottom, n)[m] = BlockAt(bottom + n, m)
      /\ \A m \in 1..bottom : BlockAt(bottom + n, n + m) = BlockAt(bottom, m)
  BY <1>1, NewBlockIs
<1>8. /\ stack' \in Seq(Word) /\ Len(stack') = Len(stack) + n
      /\ \A m \in 1..p : stack'[m] = stack[m]
      /\ \A m \in 1..n : stack'[p + m] = BlockAt(bottom + n, m)
      /\ \A m \in (p + 1)..Len(stack) : stack'[n + m] = stack[m]
  <2>1. PICK b \in Seq(Word) : b = NewBlock(bottom, n)
    BY <1>7
  <2>2. stack' = Insert(stack, p, b) /\ stack \in Seq(Word)
    BY <1>2, <1>6, <2>1 DEF Insert
  <2>3. /\ stack' \in Seq(Word) /\ Len(stack') = Len(stack) + Len(b)
        /\ \A m \in 1..p : stack'[m] = stack[m]
        /\ \A m \in 1..Len(b) : stack'[p + m] = b[m]
        /\ \A m \in (p + 1)..Len(stack) : stack'[Len(b) + m] = stack[m]
    BY ONLY <2>2, Inserted, b \in Seq(Word), p \in 0..Len(stack), Zenon
  <2> QED BY <1>7, <2>1, <2>3
<1>9. ASSUME NEW place \in Nat, NEW word, Holds(stack, place, cut, word), place <= all + Len(start)
      PROVE  Holds(stack', place, cut, word)
  <2> SUFFICES ASSUME place > cut
               PROVE  stack'[place - cut] = word
    BY DEF Holds
  <2>1. stack[place - cut] = word
    BY <1>9 DEF Holds
  <2>2. place - cut \in 1..p
    BY ONLY <1>6, <1>9, place > cut
  <2> QED BY <1>8, <2>1, <2>2
<1>10. ASSUME NEW j \in 1..N, NEW w \in 1..args[j].words
       PROVE  Holds(stack', At(j, S, R) + w, cut, <<j, w>>)
  <2>1. At(j, S, R) + w \in Nat /\ At(j, S, R) + w <= all
    BY <1>3, WordPlace
  <2>2. At(j, S, R) + w <= all + Len(start)
    BY ONLY <2>1, <1>1, <1>4, <1>6
  <2> QED BY <1>2, <1>9, <2>1, <2>2
<1>11. ASSUME NEW m \in 1..Len(start)
       PROVE  Holds(stack', all + m, cut, start[m])
  <2>1. all + m \in Nat /\ all + m <= all + Len(start)
    BY ONLY <1>1, <1>4, <1>6, m \in 1..Len(start)
  <2> QED BY <1>2, <1>9, <2>1
<1>12. ASSUME NEW m \in 1..(bottom + n)
       PROVE  Holds(stack', all + Len(start) + m, cut, BlockAt(bottom + n, m))
  <2>1. (all + Len(start) + m) - cut = p + m
    BY ONLY <1>4, <1>6, <1>1, m \in 1..(bottom + n)
  <2>4. \A k \in 1..bottom : stack[p + k] = BlockAt(bottom, k)
    <3> SUFFICES ASSUME NEW k \in 1..bottom
                 PROVE  stack[p + k] = BlockAt(bottom, k)
      OBVIOUS
    <3>1. all + Len(start) + k > cut /\ (all + Len(start) + k) - cut = p + k
      BY ONLY <1>1, <1>4, <1>6, k \in 1..bottom
    <3>2. Holds(stack, all + Len(start) + k, cut, BlockAt(bottom, k))
      BY <1>2
    <3> QED BY ONLY <3>1, <3>2, HoldsAt, Zenon
  <2>2. ASSUME m \in 1..n PROVE stack'[p + m] = BlockAt(bottom + n, m)
    BY <1>8, <2>2
  <2>3. ASSUME m \notin 1..n PROVE stack'[p + m] = BlockAt(bottom + n, m)
    <3>1. PICK k \in 1..bottom : m = n + k
      <4>1. m - n \in 1..bottom /\ m = n + (m - n)
        BY ONLY <1>1, <2>3, m \in 1..(bottom + n), n \in Nat
      <4> QED BY <4>1
    <3>2. p + k \in (p + 1)..Len(stack) /\ p + m = n + (p + k)
      BY ONLY <1>1, <1>4, <1>6, <3>1, n \in Nat
    <3>3. stack'[n + (p + k)] = BlockAt(bottom + n, n + k)
      BY <1>7, <1>8, <2>4, <3>2
    <3> QED BY ONLY <3>1, <3>2, <3>3, Zenon
  <2>5. stack'[p + m] = BlockAt(bottom + n, m)
    BY ONLY <2>2, <2>3, Zenon
  <2> QED BY ONLY <2>1, <2>5, HoldsAt, Zenon
<1>13. /\ Len(stack') = all + Len(start) + (bottom + n) - cut /\ depth' = all + Len(start) - cut
  <2>1. depth' = depth /\ depth = all + Len(start) - cut
    BY <1>2
  <2>2. Len(stack) = all + Len(start) + bottom - cut /\ Len(stack') = Len(stack) + n
    BY <1>2, <1>8
  <2> QED BY ONLY <1>1, <1>4, <1>6, <2>1, <2>2, n \in Nat
<1>14. args' = args /\ start' = start /\ stackArgs' = stackArgs /\ bottom' = bottom + n
  BY DEF Kept
<1> QED BY ONLY <1>2, <1>3, <1>5, <1>8, <1>10, <1>11, <1>12, <1>13, <1>14 DEF Suffix

(***************************************************************************)
(* The parts of the invariant that a step leaves alone.                    *)
(***************************************************************************)
LEMMA DivisionKept ==
  ASSUME NEW G, NEW F, NEW S, NEW R, Division(N, G, F, S, R),
         args' = args, large' = large, byStack' = byStack
  PROVE  Division(N, G, F, S, R)'
<1>1. N' = N
  BY DEF N
<1>2. \A m : Vectors(m)' = Vectors(m) /\ Others(m)' = Others(m)
  BY <1>1 DEF Vectors, Others, TypeOf, First
<1>3. \A j : Divided(j, G, F, S, R)' <=> Divided(j, G, F, S, R)
  BY <1>1 DEF Divided
<1>4. \A k : /\ EvenSum(k, S)' <=> EvenSum(k, S)
             /\ ScalarSum(k, G, F, S)' <=> ScalarSum(k, G, F, S)
  BY <1>1, <1>2 DEF EvenSum, ScalarSum
<1>5. Int01(large)' = Int01(large)
  BY <1>1 DEF Int01
<1> QED BY <1>1, <1>3, <1>4, <1>5 DEF Division

LEMMA CountedKept ==
  ASSUME NEW G, NEW F, NEW S, NEW R, Counted(G, F, S, R), Kept, bottom' \in Nat, bottom' % 2 = 0
  PROVE  Counted(G, F, S, R)'
<1>1. N' = N
  BY DEF N, Kept
<1>2. Division(N, G, F, S, R)'
  BY DivisionKept DEF Counted, Kept
<1> QED BY <1>1, <1>2 DEF Counted, Kept

LEMMA LoadedKept ==
  ASSUME NEW G, NEW F, NEW k, Loaded(k, G, F), Kept, gpRegs' = gpRegs, fpRegs' = fpRegs
  PROVE  Loaded(k, G, F)'
<1>1. \A j, w : InReg(j, w, G, F)' <=> InReg(j, w, G, F)
  BY DEF InReg, Kept
<1> QED BY <1>1 DEF Loaded, Kept

LEMMA GivenKept ==
  ASSUME Given, args' = args, large' = large, start' = start
  PROVE  Given' /\ N' = N /\ (WideStructs' <=> WideStructs)
BY DEF Given, N, WideStructs

(***************************************************************************)
(* The start.                                                              *)
(***************************************************************************)
LEMMA InitGiven == Init => Given
<1> SUFFICES ASSUME Init PROVE Given
  OBVIOUS
<1>1. PICK d \in StartDepths : start = [w \in 1..d |-> Outer(w)]
  BY DEF Init
<1>2. d \in Nat
  BY SizesAssumption
<1>3. \A w \in 1..d : Outer(w) \in Word
  BY DEF Outer, Word
<1>4. start \in Seq(Word) /\ Len(start) \in Nat
  BY <1>1, <1>2, <1>3
<1> QED BY <1>4 DEF Given, Init

LEMMA InitDivides ==
  ASSUME Given
  PROVE  LET Z == [k \in Nat |-> 0]
         IN  Division(0, [k \in Nat |-> IF k = 0 THEN 0 ELSE Int01(large)], Z, Z, Z)
<1> DEFINE Z == [k \in Nat |-> 0]
           G == [k \in Nat |-> IF k = 0 THEN 0 ELSE Int01(large)]
<1>1. Int01(large) \in Nat /\ (large => Int01(large) = 1) /\ (~large => Int01(large) = 0)
  BY DEF Int01
<1>2. /\ G \in [Nat -> Nat] /\ Z \in [Nat -> Nat] /\ G[0] = 0 /\ G[1] = Int01(large)
      /\ Z[0] = 0 /\ Z[1] = 0
  BY <1>1
<1> HIDE DEF G, Z
<1>3. Rising(0, G) /\ Rising(0, Z)
  BY <1>2, <1>1 DEF Rising
<1>4. EvenSum(1, Z)
  BY <1>2 DEF EvenSum
<1>5. Vectors(0) = {}
  BY DEF Vectors
<1>6. Cardinality(Vectors(0)) = 0
  BY <1>5, FS_EmptySet
<1>7. Cardinality(Others(0)) = Int01(large)
  <2>1. CASE large
    <3>1. Others(0) = {0}
      BY <1>5, <2>1 DEF Others, First
    <3> QED BY <1>1, <2>1, <3>1, FS_Singleton
  <2>2. CASE ~large
    <3>1. Others(0) = {}
      BY <1>5, <2>2 DEF Others, First
    <3> QED BY <1>1, <2>2, <3>1, FS_EmptySet
  <2> QED BY <2>1, <2>2
<1>8. ScalarSum(1, G, Z, Z)
  <2>1. 1 - 1 = 0
    OBVIOUS
  <2> QED BY ONLY <1>2, <1>6, <1>7, <2>1 DEF ScalarSum
<1>9. 1..0 = {} /\ \A k \in 1..(0 + 1) : k = 1
  OBVIOUS
<1>10. Division(0, G, Z, Z, Z)
  BY ONLY <1>2, <1>3, <1>4, <1>8, <1>9 DEF Division
<1> QED BY <1>10 DEF G, Z

LEMMA InitHolds == Init => IInv
<1> SUFFICES ASSUME Init PROVE IInv
  OBVIOUS
<1>1. Given
  BY InitGiven
<1> DEFINE Z == [k \in Nat |-> 0]
           G == [k \in Nat |-> IF k = 0 THEN 0 ELSE Int01(large)]
<1>2. Division(0, G, Z, Z, Z)
  BY <1>1, InitDivides
<1>3. Int01(large) \in Nat /\ G[1] = Int01(large) /\ Z[1] = 0
  BY DEF Int01
<1>4. N \in Nat
  BY <1>1, SizeType
<1> HIDE DEF G, Z
<1>5. Same(gp, G[1], GP_MAX) /\ Same(fp, Z[1], FP_MAX)
  BY <1>3 DEF Init, Same
<1>6. i = 1 /\ i - 1 = 0 /\ i \in 1..(N + 1) /\ byStack \in Seq(BOOLEAN) /\ Len(byStack) = 0
  BY <1>4 DEF Init
<1>7. Counting(G, Z, Z, Z)
  BY <1>2, <1>3, <1>5, <1>6 DEF Init, Counting
<1>8. Before
  BY DEF Init, Before
<1>9. Loops(G, Z, Z, Z)
  BY <1>7, <1>8 DEF Init, Loops
<1>10. named \in Int
  BY DEF Init
<1> QED BY <1>1, <1>9, <1>10 DEF IInv

(***************************************************************************)
(* count_args.                                                             *)
(***************************************************************************)
LEMMA CountArgKeeps ==
  ASSUME Given, NEW G, NEW F, NEW S, NEW R, Loops(G, F, S, R), CountArg
  PROVE  \E G2, F2, S2, R2 : Loops(G2, F2, S2, R2)'
<1> PICK n : n = i - 1
  OBVIOUS
<1> DEFINE t == args[i]
           x == Second(t)
           gn == GpNeed(t, x)
           fn == FpNeed(t, x)
<1>1. /\ pc = "count" /\ i <= N /\ Counting(G, F, S, R) /\ Before
      /\ gpRegs = <<>> /\ fpRegs = <<>>
  BY DEF CountArg, Loops, N
<1>2. /\ N \in Nat /\ i \in 1..N /\ n \in Nat /\ n + 1 = i /\ n + 2 = i + 1
      /\ byStack \in Seq(BOOLEAN) /\ Len(byStack) = n /\ Division(n, G, F, S, R)
      /\ Same(gp, G[i], GP_MAX) /\ Same(fp, F[i], FP_MAX)
      /\ stackArgs = S[i] /\ stack = start /\ depth = Len(start) /\ bottom = 0
  <2>1. N \in Nat
    BY SizeType
  <2> QED BY <1>1, <2>1 DEF Counting
<1>3. G[i] \in Nat /\ F[i] \in Nat /\ S[i] \in Nat /\ R[i] \in Nat
  <2>1. i \in 0..(n + 1)
    BY <1>2
  <2> QED BY <1>2, <2>1, DivisionType
<1>4. PICK b \in BOOLEAN : b <=> ~Fits(t, G[i], F[i], x)
  OBVIOUS
<1>5. /\ Fits(t, gp, fp, x) <=> Fits(t, G[i], F[i], x)
      /\ Fits(t, G[i], F[i], x) => Same(gp + gn, G[i] + gn, GP_MAX) /\ Same(fp + fn, F[i] + fn, FP_MAX)
      /\ ~Fits(t, G[i], F[i], x) /\ t.kind # "struct" =>
           Same(gp + gn, G[i], GP_MAX) /\ Same(fp + fn, F[i], FP_MAX)
  BY <1>2, <1>3, SameFits
<1>6. /\ byStack' = Append(byStack, b)
      /\ stackArgs' = IF b THEN S[i] + t.words ELSE S[i]
      /\ gp' = IF t.kind = "struct" /\ b THEN gp ELSE gp + gn
      /\ fp' = IF t.kind = "struct" /\ b THEN fp ELSE fp + fn
      /\ i' = i + 1
      /\ args' = args /\ large' = large /\ start' = start /\ pc' = pc
      /\ stack' = stack /\ depth' = depth /\ bottom' = bottom
      /\ gpRegs' = gpRegs /\ fpRegs' = fpRegs /\ offset' = offset /\ top' = top /\ got' = got
  <2>1. Fits(t, gp, fp, x) <=> ~b
    BY <1>4, <1>5
  <2>2. b = ~Fits(t, gp, fp, x)
    BY <2>1
  <2> QED BY <1>2, <2>1, <2>2 DEF CountArg, machine, callee
<1>7. PICK G2, F2, S2, R2 :
        /\ Division(n + 1, G2, F2, S2, R2)'
        /\ b => G2[n + 2] = G[n + 1] /\ F2[n + 2] = F[n + 1] /\ S2[n + 2] = S[n + 1] + t.words
        /\ ~b => G2[n + 2] = G[n + 1] + gn /\ F2[n + 2] = F[n + 1] + fn /\ S2[n + 2] = S[n + 1]
  <2>1. b <=> ~Fits(args[n + 1], G[n + 1], F[n + 1], Second(args[n + 1]))
    BY <1>2, <1>4
  <2>2. n \in Nat /\ n + 1 \in 1..N
    BY <1>2
  <2>3. \E G2, F2, S2, R2 :
          /\ Division(n + 1, G2, F2, S2, R2)'
          /\ b => /\ G2[n + 2] = G[n + 1] /\ F2[n + 2] = F[n + 1]
                  /\ S2[n + 2] = S[n + 1] + args[n + 1].words
          /\ ~b => /\ G2[n + 2] = G[n + 1] + GpNeed(args[n + 1], Second(args[n + 1]))
                   /\ F2[n + 2] = F[n + 1] + FpNeed(args[n + 1], Second(args[n + 1]))
                   /\ S2[n + 2] = S[n + 1]
    BY ONLY Given, <1>2, <1>6, <2>1, <2>2, b \in BOOLEAN, DivisionGrows
  <2> QED BY <1>2, <2>3
<1>8. stackArgs' = S2[i + 1]
  BY <1>2, <1>6, <1>7
<1>9. Same(gp', G2[i + 1], GP_MAX) /\ Same(fp', F2[i + 1], FP_MAX)
  <2>1. CASE ~b
    BY <1>2, <1>4, <1>5, <1>6, <1>7, <2>1
  <2>2. CASE b /\ t.kind = "struct"
    BY <1>2, <1>6, <1>7, <2>2
  <2>3. CASE b /\ t.kind # "struct"
    BY <1>2, <1>4, <1>5, <1>6, <1>7, <2>3
  <2> QED BY <2>1, <2>2, <2>3
<1>10. byStack' \in Seq(BOOLEAN) /\ Len(byStack') = i /\ i' \in 1..(N + 1)
  BY <1>2, <1>6
<1>11. Counting(G2, F2, S2, R2)'
  <2>1. N' = N /\ i' = i + 1 /\ i' - 1 = i
    BY <1>2, <1>6 DEF N
  <2>2. Division(i - 1, G2, F2, S2, R2)'
    BY <1>2, <1>7, <2>1 DEF Division
  <2>3. stack' = start' /\ depth' = Len(start') /\ bottom' = 0
    BY <1>2, <1>6
  <2> QED BY <1>8, <1>9, <1>10, <2>1, <2>2, <2>3 DEF Counting
<1>12. Before'
  BY <1>1, <1>6 DEF Before
<1> QED BY <1>1, <1>6, <1>11, <1>12 DEF Loops

(***************************************************************************)
(* The caller pushes.                                                      *)
(***************************************************************************)
\* What a step leaves of the parts that only other loops change.
LEMMA SuffixIs ==
  ASSUME NEW c, NEW S, NEW R, Suffix(c, S, R)'
  PROVE  /\ c = R[N' + 1] + S[i' + 1] => Suffix(R[N + 1] + S[i + 1], S, R)'
         /\ c = R[i' + 1] => Suffix(R[i + 1], S, R)'
         /\ c = R[i'] => Suffix(R[i], S, R)'
         /\ c = R[N' + 1] => Suffix(R[N + 1], S, R)'
<1>1. c = R[N' + 1] + S[i' + 1] => Suffix(R[N + 1] + S[i + 1], S, R)'
  BY DEF Suffix
<1>2. c = R[i' + 1] => Suffix(R[i + 1], S, R)'
  BY DEF Suffix
<1>3. c = R[i'] => Suffix(R[i], S, R)'
  BY DEF Suffix
<1>4. c = R[N' + 1] => Suffix(R[N + 1], S, R)'
  BY DEF Suffix
<1> QED BY <1>1, <1>2, <1>3, <1>4

LEMMA EvenUp ==
  ASSUME NEW x \in Nat
  PROVE  x % 2 \in 0..1 /\ (x + (x % 2)) % 2 = 0
OBVIOUS

LEMMA PaddingAre ==
  ASSUME NEW n \in Nat
  PROVE  /\ [w \in 1..n |-> Padding(w)] \in Seq(Word) /\ Len([w \in 1..n |-> Padding(w)]) = n
BY DEF Padding, Word

LEMMA Padded ==
  ASSUME Given, NEW G, NEW F, NEW S, NEW R, Division(N, G, F, S, R), NEW pad \in 0..1,
         stack = start, depth = Len(start), bottom = 0, stackArgs = S[N + 1],
         args' = args, large' = large, start' = start, byStack' = byStack, bottom' = bottom,
         stackArgs' = stackArgs + pad, depth' = depth + pad,
         stack' = [w \in 1..pad |-> Padding(w)] \o stack,
         NEW cut, cut = R[N + 1] + S[N + 1]
  PROVE  Suffix(cut, S, R)'
<1> DEFINE pads == [w \in 1..pad |-> Padding(w)]
<1>1. R[N + 1] \in Nat /\ S[N + 1] \in Nat /\ N \in Nat
  <2>1. N \in Nat /\ N + 1 \in 0..(N + 1)
    BY SizeType
  <2> QED BY <2>1, DivisionType
<1>2. pads \in Seq(Word) /\ Len(pads) = pad /\ start \in Seq(Word) /\ Len(start) \in Nat
  <2>1. pad \in Nat
    OBVIOUS
  <2>2. pads \in Seq(Word) /\ Len(pads) = pad
    BY ONLY <2>1, PaddingAre
  <2> QED BY <2>2 DEF Given
<1>3. stack' = pads \o start
  OBVIOUS
<1>4. N' = N /\ \A j : At(j, S, R)' = At(j, S, R)
  BY DEF N, At
<1> HIDE DEF pads
<1>5. stack' \in Seq(Word) /\ Len(stack') = pad + Len(start)
  <2>1. pads \o start \in Seq(Word) /\ Len(pads \o start) = Len(pads) + Len(start)
    BY ONLY <1>2, Joined
  <2> QED BY <2>1, <1>2, <1>3, Zenon
<1>6. ASSUME NEW j \in 1..N, NEW w \in 1..args[j].words
      PROVE  Holds(stack', At(j, S, R) + w, cut, <<j, w>>)
  <2>1. /\ At(j, S, R) \in Nat /\ args[j].words \in Nat
        /\ At(j, S, R) + args[j].words <= cut /\ cut \in Nat
    <3>1. At(j, S, R) \in Nat /\ At(j, S, R) + args[j].words <= R[N + 1] + S[N + 1]
      BY PlaceIs
    <3>2. args[j].words \in Nat
      BY ArgType
    <3> QED BY ONLY <3>1, <3>2, <1>1, cut = R[N + 1] + S[N + 1]
  <2>2. ~(At(j, S, R) + w > cut)
    BY ONLY <2>1, w \in 1..args[j].words
  <2> QED BY <2>2 DEF Holds
<1>10. stackArgs' = S[N + 1] + pad /\ cut = R[N + 1] + S[N + 1]
  OBVIOUS
<1>7. ASSUME NEW m \in 1..Len(start)
      PROVE  Holds(stack', R[N + 1] + stackArgs' + m, cut, start[m])
  <2>1. cut \in Nat /\ R[N + 1] + stackArgs' + m = cut + Len(pads) + m
    <3>1. cut \in Nat /\ R[N + 1] + stackArgs' + m = cut + pad + m
      <4>1. Len(start) \in Nat
        BY <1>2
      <4>2. PICK r, a, q, l : r = R[N + 1] /\ a = stackArgs' /\ q = S[N + 1] /\ l = Len(start)
        OBVIOUS
      <4>3. r \in Nat /\ q \in Nat /\ l \in Nat /\ a = q + pad /\ cut = r + q /\ m \in 1..l
        BY <4>1, <1>1, <1>10, <4>2, Zenon
      <4>4. cut \in Nat /\ r + a + m = cut + pad + m
        BY ONLY <4>3, pad \in 0..1
      <4> QED BY ONLY <4>2, <4>4, Zenon
    <3> QED BY ONLY <3>1, <1>2, Zenon
  <2> QED BY <1>2, <1>3, <2>1, HoldsBelow
<1>8. /\ cut \in 0..(R[N + 1] + stackArgs')
      /\ Len(stack') = R[N + 1] + stackArgs' + Len(start) + 0 - cut
      /\ depth' = R[N + 1] + stackArgs' + Len(start) - cut
  <2>1. depth' = Len(start) + pad
    OBVIOUS
  <2>2. PICK r, a, s, q : r = R[N + 1] /\ a = stackArgs' /\ s = Len(start) /\ q = S[N + 1]
    OBVIOUS
  <2>3. /\ r \in Nat /\ q \in Nat /\ s \in Nat /\ a = q + pad /\ cut = r + q
        /\ Len(stack') = pad + s /\ depth' = s + pad
    BY ONLY <1>1, <1>2, <1>5, <1>10, <2>1, <2>2, Zenon
  <2>4. /\ cut \in 0..(r + a) /\ pad + s = r + a + s + 0 - cut /\ s + pad = r + a + s - cut
    BY ONLY <2>3, pad \in 0..1
  <2> QED BY ONLY <2>2, <2>3, <2>4, Zenon
<1>9. args' = args /\ start' = start /\ bottom' = 0
  OBVIOUS
<1> QED BY ONLY <1>4, <1>5, <1>6, <1>7, <1>8, <1>9 DEF Suffix

LEMMA PadKeeps ==
  ASSUME Given, NEW G, NEW F, NEW S, NEW R, Loops(G, F, S, R), Pad
  PROVE  Loops(G, F, S, R)'
<1>1. PICK pad : pad = (depth + stackArgs) % 2
  OBVIOUS
<1>2. /\ pc = "count" /\ i > N /\ Counting(G, F, S, R) /\ Before
      /\ gpRegs = <<>> /\ fpRegs = <<>>
  BY DEF Pad, Loops, N
<1>3. /\ i = N + 1 /\ i - 1 = N /\ N \in Nat /\ byStack \in Seq(BOOLEAN) /\ Len(byStack) = N
      /\ stackArgs = S[N + 1] /\ stack = start /\ depth = Len(start) /\ bottom = 0
  <2>1. N \in Nat
    BY SizeType
  <2> QED BY <1>2, <2>1 DEF Counting
<1>4. Division(N, G, F, S, R)
  BY <1>2, <1>3 DEF Counting
<1>5. Len(start) \in Nat /\ S[N + 1] \in Nat /\ R[N + 1] \in Nat
  <2>1. N + 1 \in 0..(N + 1)
    BY <1>3
  <2> QED BY <1>3, <1>4, <2>1, DivisionType DEF Given
<1>6. pad \in 0..1 /\ (Len(start) + S[N + 1] + pad) % 2 = 0
  <2>1. PICK x : x = Len(start) + S[N + 1]
    OBVIOUS
  <2>2. x \in Nat
    BY ONLY <1>5, <2>1
  <2>3. pad = x % 2
    BY <1>1, <1>3, <2>1
  <2>4. x % 2 \in 0..1 /\ (x + (x % 2)) % 2 = 0
    BY ONLY <2>2, EvenUp
  <2>5. pad \in 0..1
    BY ONLY <2>3, <2>4, Zenon
  <2>6. (Len(start) + S[N + 1] + pad) % 2 = 0
    <3>1. x + pad = Len(start) + S[N + 1] + pad
      BY ONLY <2>1
    <3>2. x + pad = x + (x % 2)
      BY ONLY <2>3
    <3> QED BY ONLY <2>4, <3>1, <3>2
  <2> QED BY <2>5, <2>6
<1>7. /\ stack' = [w \in 1..pad |-> Padding(w)] \o stack
      /\ depth' = depth + pad /\ stackArgs' = stackArgs + pad
      /\ pc' = "push stack" /\ i' = N
      /\ args' = args /\ large' = large /\ start' = start /\ byStack' = byStack /\ bottom' = bottom
      /\ gpRegs' = gpRegs /\ fpRegs' = fpRegs /\ offset' = offset /\ top' = top /\ got' = got
  BY <1>1 DEF Pad, callee, N
<1>8. N' = N
  BY <1>7 DEF N
<1>9. Counted(G, F, S, R)'
  <2>1. Division(N, G, F, S, R)'
    BY <1>4, <1>7, DivisionKept
  <2>2. stackArgs' \in Nat /\ stackArgs' >= S[N + 1] /\ (Len(start) + stackArgs') % 2 = 0
    <3>1. Len(start) + (S[N + 1] + pad) = Len(start) + S[N + 1] + pad
      BY ONLY <1>5, <1>6
    <3>2. stackArgs' = S[N + 1] + pad
      BY <1>3, <1>7
    <3>3. S[N + 1] + pad \in Nat /\ S[N + 1] + pad >= S[N + 1]
      BY ONLY <1>5, <1>6
    <3>4. (Len(start) + stackArgs') % 2 = 0
      BY ONLY <1>6, <3>1, <3>2, Zenon
    <3> QED BY <3>2, <3>3, <3>4
  <2>4. 0 % 2 = 0
    OBVIOUS
  <2>3. bottom' = 0 /\ bottom' % 2 = 0 /\ bottom' \in Nat
    BY <1>3, <1>7, <2>4
  <2> QED BY <1>3, <1>7, <1>8, <2>1, <2>2, <2>3 DEF Counted
<1>10. i' \in 0..N' /\ Suffix(R[N + 1] + S[i + 1], S, R)'
  <2>1. PICK cut : cut = R[N + 1] + S[N + 1]
    OBVIOUS
  <2>2. Suffix(cut, S, R)'
    BY ONLY Given, <1>3, <1>4, <1>6, <1>7, <2>1, Padded
  <2>3. N \in 0..N /\ i' + 1 = N + 1
    <3>1. N \in Nat /\ i' = N
      BY <1>3, <1>7
    <3> QED BY ONLY <3>1
  <2>4. cut = R[N' + 1] + S[i' + 1]
    BY <1>8, <2>1, <2>3
  <2>5. Suffix(R[N + 1] + S[i + 1], S, R)'
    BY ONLY <2>2, <2>4, SuffixIs
  <2> QED BY <1>7, <1>8, <2>3, <2>5
<1>11. Before'
  BY <1>2, <1>7 DEF Before
<1> QED BY <1>2, <1>7, <1>9, <1>10, <1>11 DEF Loops

LEMMA PushArgKeeps ==
  ASSUME Given, NEW G, NEW F, NEW S, NEW R, Loops(G, F, S, R), PushArg
  PROVE  Loops(G, F, S, R)'
<1>1. PICK j : j = i
  OBVIOUS
<1>2. /\ pc \in {"push stack", "push regs"} /\ j >= 1 /\ i' = j - 1 /\ pc' = pc
      /\ Kept /\ bottom' = bottom
      /\ gpRegs' = gpRegs /\ fpRegs' = fpRegs /\ offset' = offset /\ top' = top /\ got' = got
  BY <1>1 DEF PushArg, Kept, caller, callee
<1>3. Counted(G, F, S, R) /\ Before /\ gpRegs = <<>> /\ fpRegs = <<>> /\ j \in 0..N
  BY <1>1, <1>2 DEF Loops
<1>4. /\ j \in 1..N /\ N \in Nat /\ j - 1 + 1 = j /\ N' = N /\ i' \in 0..N'
  <2>1. N \in Nat /\ N' = N
    BY <1>2, SizeType DEF N, Kept
  <2>2. j \in 0..N /\ j >= 1 /\ i' = j - 1
    BY <1>2, <1>3
  <2> QED BY ONLY <2>1, <2>2
<1>5. Counted(G, F, S, R)'
  BY <1>2, <1>3, CountedKept DEF Counted
<1>6. /\ S[j] \in Nat /\ R[j] \in Nat /\ R[N + 1] \in Nat /\ args[j].words \in Nat
      /\ byStack[j] \in BOOLEAN
      /\ byStack[j] => S[j + 1] = S[j] + args[j].words /\ R[j + 1] = R[j]
      /\ ~byStack[j] => S[j + 1] = S[j] /\ R[j + 1] = R[j] + args[j].words
      /\ byStack[j] => At(j, S, R) = R[N + 1] + S[j]
      /\ ~byStack[j] => At(j, S, R) = R[j]
  <2>1. Division(N, G, F, S, R) /\ byStack \in Seq(BOOLEAN) /\ Len(byStack) = N
    BY <1>3 DEF Counted
  <2>2. Divided(j, G, F, S, R) /\ S[j] \in Nat /\ R[j] \in Nat /\ R[N + 1] \in Nat
    BY <1>4, <2>1, StepIs
  <2>3. byStack[j] \in BOOLEAN
    BY <1>4, <2>1
  <2> QED BY <1>4, <2>2, <2>3, ArgType DEF Divided, At
<1>7. ASSUME NEW at, at = At(j, S, R), Suffix(at + args[j].words, S, R),
             byStack[j] = (pc = "push stack")
      PROVE  Suffix(at, S, R)'
  <2>1. stack' = Words(j) \o stack /\ depth' = depth + args[j].words
    BY <1>1, <1>7 DEF PushArg
  <2> QED BY <1>2, <1>3, <1>4, <1>7, <2>1, Pushed
<1>8. ASSUME NEW cut, Suffix(cut, S, R), byStack[j] # (pc = "push stack")
      PROVE  Suffix(cut, S, R)'
  <2>1. stack' = stack /\ depth' = depth
    BY <1>1, <1>8 DEF PushArg
  <2> QED BY <1>2, <1>8, <2>1, SuffixKept
<1>9. CASE pc = "push stack"
  <2>1. Suffix(R[N + 1] + S[j + 1], S, R)
    BY <1>1, <1>9 DEF Loops
  <2>2. PICK c : c = R[N + 1] + S[j]
    OBVIOUS
  <2>3. Suffix(c, S, R)'
    <3>1. CASE byStack[j]
      <4>1. c = At(j, S, R) /\ R[N + 1] + S[j + 1] = c + args[j].words
        BY <1>6, <2>2, <3>1
      <4> QED BY <1>7, <1>9, <2>1, <3>1, <4>1
    <3>2. CASE ~byStack[j]
      BY <1>6, <1>8, <1>9, <2>1, <2>2, <3>2
    <3> QED BY <3>1, <3>2
  <2>4. Suffix(R[N + 1] + S[i + 1], S, R)'
    BY <1>2, <1>4, <2>2, <2>3, SuffixIs
  <2>5. Before'
    BY <1>2, <1>3 DEF Before
  <2> QED BY <1>2, <1>3, <1>4, <1>5, <1>9, <2>4, <2>5 DEF Loops
<1>10. CASE pc = "push regs"
  <2>1. Suffix(R[j + 1], S, R)
    BY <1>1, <1>10 DEF Loops
  <2>2. PICK c : c = R[j]
    OBVIOUS
  <2>3. Suffix(c, S, R)'
    <3>1. CASE ~byStack[j]
      <4>1. c = At(j, S, R) /\ R[j + 1] = c + args[j].words
        BY <1>6, <2>2, <3>1
      <4> QED BY <1>6, <1>7, <1>10, <2>1, <3>1, <4>1
    <3>2. CASE byStack[j]
      BY <1>6, <1>8, <1>10, <2>1, <2>2, <3>2
    <3> QED BY <3>1, <3>2
  <2>4. Suffix(R[i + 1], S, R)'
    BY <1>2, <1>4, <2>2, <2>3, SuffixIs
  <2>5. Before'
    BY <1>2, <1>3 DEF Before
  <2> QED BY <1>2, <1>3, <1>4, <1>5, <1>10, <2>4, <2>5 DEF Loops
<1> QED BY <1>2, <1>9, <1>10

LEMMA AllocaKeeps ==
  ASSUME Given, NEW G, NEW F, NEW S, NEW R, Loops(G, F, S, R), Alloca
  PROVE  Loops(G, F, S, R)'
<1>1. /\ pc \in {"push stack", "push regs"} /\ pc' = pc /\ i' = i /\ Kept /\ depth' = depth
      /\ gpRegs' = gpRegs /\ fpRegs' = fpRegs /\ offset' = offset /\ top' = top /\ got' = got
  BY DEF Alloca, Kept, caller, callee
<1>2. PICK size \in AllocaSizes, n \in Nat :
        /\ n = ((size + 15) \div 16) * 2
        /\ stack' = SubSeq(stack, 1, Len(stack) - bottom) \o NewBlock(bottom, n)
                      \o SubSeq(stack, Len(stack) - bottom + 1, Len(stack))
        /\ bottom' = bottom + n
  <2>1. \A size \in AllocaSizes : ((size + 15) \div 16) * 2 \in Nat
    BY SizesAssumption
  <2> QED BY <2>1 DEF Alloca, NewBlock
<1>4. Counted(G, F, S, R) /\ Before /\ gpRegs = <<>> /\ fpRegs = <<>> /\ i \in 0..N
  BY <1>1 DEF Loops
<1>3. bottom' \in Nat /\ bottom' % 2 = 0
  <2>1. size \in Nat
    BY SizesAssumption
  <2>2. PICK m : m = (size + 15) \div 16
    OBVIOUS
  <2>3. m \in Nat
    BY ONLY <2>1, <2>2
  <2>4. bottom \in Nat /\ bottom % 2 = 0
    BY <1>4 DEF Counted
  <2>5. bottom' = bottom + m * 2
    BY <1>2, <2>2
  <2> QED BY ONLY <2>3, <2>4, <2>5
<1>5. Counted(G, F, S, R)' /\ N' = N /\ Before'
  <2>1. Before'
    BY <1>1, <1>4 DEF Before
  <2> QED BY <1>1, <1>3, <1>4, <2>1, CountedKept DEF N, Kept
<1>6. ASSUME NEW cut, Suffix(cut, S, R)
      PROVE  Suffix(cut, S, R)'
  BY <1>1, <1>2, <1>4, <1>6, AllocaBelow
<1>7. CASE pc = "push stack"
  <2>1. PICK c : c = R[N + 1] + S[i + 1]
    OBVIOUS
  <2>2. Suffix(c, S, R)'
    BY <1>6, <1>7, <2>1 DEF Loops
  <2>3. Suffix(R[N + 1] + S[i + 1], S, R)'
    BY <1>1, <1>5, <2>1, <2>2, SuffixIs
  <2> QED BY <1>1, <1>4, <1>5, <1>7, <2>3 DEF Loops
<1>8. CASE pc = "push regs"
  <2>1. PICK c : c = R[i + 1]
    OBVIOUS
  <2>2. Suffix(c, S, R)'
    BY <1>6, <1>8, <2>1 DEF Loops
  <2>3. Suffix(R[i + 1], S, R)'
    BY <1>1, <1>5, <2>1, <2>2, SuffixIs
  <2> QED BY <1>1, <1>4, <1>5, <1>8, <2>3 DEF Loops
<1> QED BY <1>1, <1>7, <1>8

LEMMA SecondPassKeeps ==
  ASSUME Given, NEW G, NEW F, NEW S, NEW R, Loops(G, F, S, R), SecondPass
  PROVE  Loops(G, F, S, R)'
<1>1. /\ pc = "push stack" /\ i = 0 /\ pc' = "push regs" /\ i' = N /\ Kept
      /\ stack' = stack /\ depth' = depth /\ bottom' = bottom
      /\ gpRegs' = gpRegs /\ fpRegs' = fpRegs /\ offset' = offset /\ top' = top /\ got' = got
  BY DEF SecondPass, Kept, caller, machine, callee, N
<1>2. /\ Counted(G, F, S, R) /\ Before /\ gpRegs = <<>> /\ fpRegs = <<>>
      /\ Suffix(R[N + 1] + S[0 + 1], S, R)
  BY <1>1 DEF Loops
<1>3. Counted(G, F, S, R)' /\ N' = N /\ Before'
  <2>1. Before'
    BY <1>1, <1>2 DEF Before
  <2> QED BY <1>1, <1>2, <2>1, CountedKept DEF Counted, N, Kept
<1>4. N \in Nat /\ S[0 + 1] = 0 /\ R[N + 1] \in Nat
  <2>1. N \in Nat /\ N + 1 \in 0..(N + 1) /\ Division(N, G, F, S, R)
    BY <1>2, SizeType DEF Counted
  <2>2. S[1] = 0 /\ 0 + 1 = 1
    BY <2>1 DEF Division
  <2>3. R[N + 1] \in Nat
    BY <2>1, DivisionType
  <2> QED BY <2>1, <2>2, <2>3, Zenon
<1>5. PICK c : c = R[N + 1]
  OBVIOUS
<1>6. R[N + 1] + S[0 + 1] = c
  BY <1>4, <1>5
<1>7. Suffix(c, S, R)'
  BY <1>1, <1>2, <1>6, SuffixKept
<1>8. Suffix(R[N + 1], S, R)' /\ Suffix(R[i + 1], S, R)'
  BY <1>1, <1>3, <1>5, <1>7, SuffixIs
<1>9. i' \in 0..N'
  <2>1. N \in 0..N
    BY ONLY <1>4
  <2> QED BY <1>1, <1>3, <2>1
<1> QED BY <1>1, <1>2, <1>3, <1>8, <1>9 DEF Loops

(***************************************************************************)
(* The caller pops.                                                        *)
(***************************************************************************)
LEMMA LoadedIs ==
  ASSUME NEW k, NEW G, NEW F, Loaded(k, G, F)'
  PROVE  /\ k = i' => Loaded(i, G, F)'
         /\ k = N' + 1 => Loaded(N + 1, G, F)'
<1>1. k = i' => Loaded(i, G, F)'
  BY DEF Loaded
<1>2. k = N' + 1 => Loaded(N + 1, G, F)'
  BY DEF Loaded
<1> QED BY <1>1, <1>2

LEMMA PassBufferKeeps ==
  ASSUME Given, NEW G, NEW F, NEW S, NEW R, Loops(G, F, S, R), PassBuffer
  PROVE  Loops(G, F, S, R)'
<1>1. /\ pc = "push regs" /\ i = 0 /\ pc' = "pop" /\ i' = 1 /\ Kept
      /\ gpRegs' = (IF large THEN Words(0) ELSE <<>>) /\ fpRegs' = fpRegs
      /\ gp' = Int01(large) /\ fp' = 0
      /\ stack' = stack /\ depth' = depth /\ bottom' = bottom
      /\ offset' = offset /\ top' = top /\ got' = got
  BY DEF PassBuffer, Kept, caller, callee
<1>2. Counted(G, F, S, R) /\ Before /\ fpRegs = <<>> /\ Suffix(R[0 + 1], S, R)
  BY <1>1 DEF Loops
<1>3. Counted(G, F, S, R)' /\ N' = N /\ Before'
  <2>1. Before'
    BY <1>1, <1>2 DEF Before
  <2> QED BY <1>1, <1>2, <2>1, CountedKept DEF Counted, N, Kept
<1>4. N \in Nat /\ G[1] = Int01(large) /\ F[1] = 0 /\ large \in BOOLEAN
  <2>1. N \in Nat /\ Division(N, G, F, S, R)
    BY <1>2, SizeType DEF Counted
  <2> QED BY <2>1 DEF Division, Given
<1>5. PICK c : c = R[1]
  OBVIOUS
<1>6. Suffix(c, S, R)'
  <2>1. R[0 + 1] = c
    BY <1>5
  <2> QED BY <1>1, <1>2, <2>1, SuffixKept
<1>7. Suffix(R[i], S, R)'
  BY <1>1, <1>3, <1>5, <1>6, SuffixIs
<1>8. Words(0) = [w \in 1..1 |-> <<0, w>>]
  BY DEF Words, TypeOf, Pointer
<1>9. /\ Words(0) \in Seq(Word) /\ Len(Words(0)) = 1 /\ Words(0)[1] = <<0, 1>>
  BY <1>8 DEF Word
<1>10. gpRegs' \in Seq(Word) /\ Len(gpRegs') = G[1] /\ (large => gpRegs'[1] = <<0, 1>>)
  <2>1. CASE large
    BY <1>1, <1>4, <1>9, <2>1 DEF Int01
  <2>2. CASE ~large
    <3>1. gpRegs' = <<>> /\ G[1] = 0
      BY <1>1, <1>4, <2>2 DEF Int01
    <3> QED BY <2>2, <3>1
  <2> QED BY <2>1, <2>2
<1>11. Loaded(1, G, F)'
  <2>4. <<>> \in Seq(Word) /\ Len(<<>>) = 0
    OBVIOUS
  <2>1. fpRegs' \in Seq(Word) /\ Len(fpRegs') = F[1]
    BY <1>1, <1>2, <1>4, <2>4, Zenon
  <2>2. large' = large
    BY <1>1 DEF Kept
  <2>3. 1..(1 - 1) = {}
    OBVIOUS
  <2> QED BY <1>10, <2>1, <2>2, <2>3 DEF Loaded
<1>12. Loaded(i, G, F)'
  BY <1>1, <1>11, LoadedIs
<1>13. i' \in 1..(N' + 1) /\ gp' = G[i'] /\ fp' = F[i']
  <2>1. 1 \in 1..(N + 1)
    BY ONLY <1>4
  <2> QED BY <1>1, <1>3, <1>4, <2>1, Zenon
<1>14. Popping(G, F, S, R)'
  BY <1>7, <1>12, <1>13 DEF Popping
<1> QED BY <1>1, <1>3, <1>14 DEF Loops

LEMMA CallKeeps ==
  ASSUME Given, NEW G, NEW F, NEW S, NEW R, Loops(G, F, S, R), Call
  PROVE  Loops(G, F, S, R)'
<1>1. /\ pc = "pop" /\ i > N /\ named' \in 0..N /\ pc' = "place" /\ i' = First /\ gp' = 0 /\ fp' = 0
      /\ Kept /\ stack' = stack /\ depth' = depth /\ bottom' = bottom
      /\ gpRegs' = gpRegs /\ fpRegs' = fpRegs
      /\ offset' = offset /\ top' = top /\ got' = got
  BY DEF Call, Kept, caller, machine, N
<1>2. Counted(G, F, S, R) /\ Before /\ Popping(G, F, S, R)
  BY <1>1 DEF Loops
<1>3. Counted(G, F, S, R)' /\ N' = N
  BY <1>1, <1>2, CountedKept DEF Counted, N, Kept
<1>4. N \in Nat /\ i = N + 1 /\ First \in 0..1 /\ First' = First /\ (large <=> First = 0)
  <2>1. N \in Nat /\ i \in 1..(N + 1)
    BY <1>2, SizeType DEF Popping
  <2>2. i = N + 1
    BY ONLY <1>1, <2>1
  <2> QED BY <1>1, <2>1, <2>2 DEF First, Kept
<1>5. /\ G[0] = 0 /\ F[0] = 0 /\ F[1] = 0 /\ S[1] = 0 /\ (~large => G[1] = 0)
  BY <1>2 DEF Counted, Division, Int01
<1>6. PICK c, k : c = R[N + 1] /\ k = N + 1
  OBVIOUS
<1>7. Suffix(c, S, R)' /\ Loaded(k, G, F)'
  BY <1>1, <1>2, <1>4, <1>6, SuffixKept, LoadedKept DEF Popping
<1>8. Suffix(R[N + 1], S, R)' /\ Loaded(N + 1, G, F)'
  BY <1>3, <1>6, <1>7, SuffixIs, LoadedIs
<1>9. gp' = G[i'] /\ fp' = F[i']
  BY <1>1, <1>4, <1>5
<1>10. First..(First - 1) = {} /\ First \in First..(named' + 1)
  <2>1. named' \in Nat
    BY <1>1, <1>4
  <2>2. First = 0 \/ First = 1
    BY <1>4
  <2>3. PICK m \in Nat : m = named'
    BY <2>1
  <2>4. /\ 0..(0 - 1) = {} /\ 0 \in 0..(m + 1)
        /\ 1..(1 - 1) = {} /\ 1 \in 1..(m + 1)
    BY ONLY m \in Nat
  <2> QED BY ONLY <2>2, <2>3, <2>4, Zenon
<1>11. top' = (IF i' = 0 THEN 2 ELSE S[i'] + 2)
  BY <1>1, <1>2, <1>4, <1>5 DEF Before
<1>12. DOMAIN offset' = {} /\ DOMAIN got' = {}
  BY <1>1, <1>2 DEF Before
<1>13. Placing(G, F, S)'
  BY <1>1, <1>3, <1>4, <1>9, <1>10, <1>11, <1>12 DEF Placing, Offsets
<1> QED BY <1>1, <1>3, <1>8, <1>13 DEF Loops

\* Which register a word of a register argument is in.
LEMMA RegisterIs ==
  ASSUME Given, WideStructs, NEW G, NEW F, NEW S, NEW R, Division(N, G, F, S, R),
         NEW j \in 1..N, ~byStack[j]
  PROVE  /\ Loadable(args[j]) /\ Divides(args[j])
         /\ G[j] \in Nat /\ F[j] \in Nat /\ R[j] \in Nat /\ args[j].words \in Nat
         /\ G[j + 1] \in Nat /\ F[j + 1] \in Nat
         /\ G[j + 1] = G[j] + Len(InClass(args[j], FALSE))
         /\ F[j + 1] = F[j] + Len(InClass(args[j], TRUE))
         /\ R[j + 1] = R[j] + args[j].words
<1>1. /\ G[j] \in Nat /\ F[j] \in Nat /\ R[j] \in Nat
      /\ G[j + 1] \in Nat /\ F[j + 1] \in Nat /\ Divided(j, G, F, S, R)
  BY StepIs
<1>2. /\ Fits(args[j], G[j], F[j], Second(args[j]))
      /\ G[j + 1] = G[j] + GpNeed(args[j], Second(args[j]))
      /\ F[j + 1] = F[j] + FpNeed(args[j], Second(args[j]))
      /\ R[j + 1] = R[j] + args[j].words
  BY <1>1 DEF Divided
<1>3. Loadable(args[j])
  BY <1>1, <1>2, FitsIs
<1>4. Divides(args[j])
  BY <1>3, ScalarDivides, StructDivides
<1>5. args[j].words \in Nat
  BY ArgType
<1> QED BY <1>1, <1>2, <1>3, <1>4, <1>5 DEF Divides

LEMMA AheadIs ==
  ASSUME NEW t, Divides(t), NEW w \in 1..t.words, NEW vector \in BOOLEAN, InVector(t)[w] = vector
  PROVE  /\ Ahead(t, w, vector) \in Nat /\ Len(InClass(t, vector)) \in Nat
         /\ Ahead(t, w, vector) + 1 \in 1..Len(InClass(t, vector))
         /\ InClass(t, vector)[Ahead(t, w, vector) + 1] = w
<1>1. Ahead(t, w, vector) \in Nat
  BY DEF Ahead, Int01
<1>2. Len(InClass(t, vector)) \in Nat
  BY DEF Divides
<1> QED BY <1>1, <1>2 DEF Divides

\* Registers loaded before keep their words when more are loaded.
LEMMA LoadedGrows ==
  ASSUME Given, WideStructs, NEW G, NEW F, NEW S, NEW R, Counted(G, F, S, R),
         NEW k \in 1..N, ~byStack[k], Loaded(k, G, F), Kept,
         NEW a \in Seq(Word), NEW b \in Seq(Word),
         Len(a) = Len(InClass(args[k], FALSE)), Len(b) = Len(InClass(args[k], TRUE)),
         \A w \in 1..Len(a) : a[w] = <<k, InClass(args[k], FALSE)[w]>>,
         \A w \in 1..Len(b) : b[w] = <<k, InClass(args[k], TRUE)[w]>>,
         gpRegs' = gpRegs \o a, fpRegs' = fpRegs \o b
  PROVE  Loaded(k + 1, G, F)'
<1>1. Division(N, G, F, S, R) /\ byStack \in Seq(BOOLEAN) /\ Len(byStack) = N
  BY DEF Counted
<1>2. /\ gpRegs \in Seq(Word) /\ fpRegs \in Seq(Word)
      /\ Len(gpRegs) = G[k] /\ Len(fpRegs) = F[k] /\ (large => gpRegs[1] = <<0, 1>>)
      /\ \A j \in 1..(k - 1) : ~byStack[j] => \A w \in 1..args[j].words : InReg(j, w, G, F)
  BY DEF Loaded
<1>3. /\ Divides(args[k]) /\ G[k] \in Nat /\ F[k] \in Nat
      /\ G[k + 1] = G[k] + Len(a) /\ F[k + 1] = F[k] + Len(b)
  BY <1>1, RegisterIs
<1>4. /\ gpRegs' \in Seq(Word) /\ Len(gpRegs') = G[k] + Len(a)
      /\ \A m \in 1..G[k] : gpRegs'[m] = gpRegs[m]
      /\ \A m \in 1..Len(a) : gpRegs'[G[k] + m] = a[m]
  <2>1. /\ gpRegs \o a \in Seq(Word) /\ Len(gpRegs \o a) = Len(gpRegs) + Len(a)
        /\ \A m \in 1..Len(gpRegs) : (gpRegs \o a)[m] = gpRegs[m]
        /\ \A m \in 1..Len(a) : (gpRegs \o a)[Len(gpRegs) + m] = a[m]
    <3>1. gpRegs \in Seq(Word)
      BY <1>2
    <3> QED BY ONLY <3>1, a \in Seq(Word), Joined
  <2>2. gpRegs' = gpRegs \o a /\ Len(gpRegs) = G[k]
    BY <1>2
  <2> QED BY ONLY <2>1, <2>2
<1>5. /\ fpRegs' \in Seq(Word) /\ Len(fpRegs') = F[k] + Len(b)
      /\ \A m \in 1..F[k] : fpRegs'[m] = fpRegs[m]
      /\ \A m \in 1..Len(b) : fpRegs'[F[k] + m] = b[m]
  <2>1. /\ fpRegs \o b \in Seq(Word) /\ Len(fpRegs \o b) = Len(fpRegs) + Len(b)
        /\ \A m \in 1..Len(fpRegs) : (fpRegs \o b)[m] = fpRegs[m]
        /\ \A m \in 1..Len(b) : (fpRegs \o b)[Len(fpRegs) + m] = b[m]
    <3>1. fpRegs \in Seq(Word)
      BY <1>2
    <3> QED BY ONLY <3>1, b \in Seq(Word), Joined
  <2>2. fpRegs' = fpRegs \o b /\ Len(fpRegs) = F[k]
    BY <1>2
  <2> QED BY ONLY <2>1, <2>2
<1>6. large => gpRegs'[1] = <<0, 1>>
  <2> SUFFICES ASSUME large PROVE gpRegs'[1] = <<0, 1>>
    OBVIOUS
  <2>1. G[1] = 1 /\ Rising(N, G) /\ N \in Nat
    BY <1>1, SizeType DEF Division, Int01
  <2>2. 1 \in 1..(N + 1) /\ k \in 1..(N + 1) /\ 1 <= k
    BY <2>1
  <2>3. 1 <= G[k]
    BY ONLY <2>1, <2>2 DEF Rising
  <2>4. 1 \in 1..G[k]
    BY ONLY <2>3, <1>3
  <2> QED BY <1>2, <1>4, <2>4
<1>7. ASSUME NEW j \in 1..k, ~byStack[j], NEW w \in 1..args[j].words
      PROVE  IF InVector(args[j])[w] THEN fpRegs'[F[j] + Ahead(args[j], w, TRUE) + 1] = <<j, w>>
                                     ELSE gpRegs'[G[j] + Ahead(args[j], w, FALSE) + 1] = <<j, w>>
  <2>1. N \in Nat /\ j \in 1..N
    BY SizeType
  <2>2. /\ Divides(args[j]) /\ G[j] \in Nat /\ F[j] \in Nat
        /\ G[j + 1] \in Nat /\ F[j + 1] \in Nat
        /\ G[j + 1] = G[j] + Len(InClass(args[j], FALSE))
        /\ F[j + 1] = F[j] + Len(InClass(args[j], TRUE))
    BY <1>1, <1>7, <2>1, RegisterIs
  <2>3. InVector(args[j])[w] \in BOOLEAN
    <3>1. InVector(args[j]) \in Seq(BOOLEAN) /\ DOMAIN InVector(args[j]) = 1..args[j].words
      BY <2>2 DEF Divides
    <3>2. PICK v : v = InVector(args[j])
      OBVIOUS
    <3>3. v \in Seq(BOOLEAN) /\ w \in DOMAIN v
      BY <3>1, <3>2, Zenon
    <3>4. v[w] \in BOOLEAN
      BY ONLY <3>3
    <3> QED BY ONLY <3>2, <3>4, Zenon
  <2>4. j < k => G[j + 1] <= G[k] /\ F[j + 1] <= F[k]
    <3>1. j < k => j + 1 \in 1..(N + 1) /\ k \in 1..(N + 1) /\ j + 1 <= k
      BY ONLY <2>1, j \in 1..k, k \in 1..N
    <3>2. Rising(N, G) /\ Rising(N, F)
      BY <1>1 DEF Division
    <3> QED BY ONLY <3>1, <3>2 DEF Rising
  <2>5. CASE InVector(args[j])[w] = TRUE
    <3> PICK h, l : h = Ahead(args[j], w, TRUE) /\ l = Len(InClass(args[j], TRUE))
      OBVIOUS
    <3>1. h \in Nat /\ l \in Nat /\ h + 1 \in 1..l /\ InClass(args[j], TRUE)[h + 1] = w
      BY <2>2, <2>5, AheadIs
    <3>4. h \in Nat /\ l \in Nat /\ h + 1 \in 1..l
      BY <3>1
    <3>2. CASE j < k
      <4>1. F[j] + h + 1 \in 1..F[k]
        <5>1. F[j] \in Nat /\ F[k] \in Nat /\ F[j + 1] = F[j] + l /\ F[j + 1] <= F[k]
          BY <1>3, <2>2, <2>4, <3>2
        <5>2. PICK x, z : x = F[j] /\ z = F[k]
          OBVIOUS
        <5>3. x \in Nat /\ z \in Nat /\ x + l <= z
          BY ONLY <5>1, <5>2, Zenon
        <5>4. x + h + 1 \in 1..z
          BY ONLY <3>4, <5>3
        <5> QED BY ONLY <5>2, <5>4, Zenon
      <4>2. fpRegs[F[j] + h + 1] = <<j, w>>
        <5>1. j \in 1..(k - 1)
          BY ONLY <2>1, <3>2, k \in 1..N
        <5>2. InReg(j, w, G, F)
          BY <1>2, <1>7, <5>1
        <5> QED BY <5>2, <2>5 DEF InReg
      <4>3. fpRegs'[F[j] + h + 1] = fpRegs[F[j] + h + 1]
        BY ONLY <1>5, <4>1
      <4>5. fpRegs'[F[j] + Ahead(args[j], w, TRUE) + 1] = <<j, w>>
        BY ONLY <4>2, <4>3, h = Ahead(args[j], w, TRUE)
      <4> QED BY <4>5, <2>5, Zenon
    <3>3. CASE j = k
      <4>1. F[j] + h + 1 = F[k] + (h + 1)
        <5>1. F[k] \in Nat /\ F[j] = F[k]
          BY <1>3, <3>3
        <5>2. PICK x \in Nat : x = F[k]
          BY <5>1
        <5>3. x + h + 1 = x + (h + 1)
          BY ONLY <3>4, x \in Nat
        <5> QED BY ONLY <5>1, <5>2, <5>3, Zenon
      <4>2. h + 1 \in 1..Len(b)
        BY <3>1, <3>3
      <4>3. b[h + 1] = <<j, w>>
        BY <3>1, <3>3, <4>2
      <4>4. fpRegs'[F[k] + (h + 1)] = b[h + 1]
        BY ONLY <1>5, <4>2
      <4>5. fpRegs'[F[j] + Ahead(args[j], w, TRUE) + 1] = <<j, w>>
        BY ONLY <4>1, <4>3, <4>4, h = Ahead(args[j], w, TRUE)
      <4> QED BY <4>5, <2>5, Zenon
    <3>5. j < k \/ j = k
      BY ONLY <2>1, k \in 1..N, j \in 1..k
    <3> QED BY ONLY <3>2, <3>3, <3>5
  <2>6. CASE InVector(args[j])[w] = FALSE
    <3> PICK h, l : h = Ahead(args[j], w, FALSE) /\ l = Len(InClass(args[j], FALSE))
      OBVIOUS
    <3>1. h \in Nat /\ l \in Nat /\ h + 1 \in 1..l /\ InClass(args[j], FALSE)[h + 1] = w
      BY <2>2, <2>6, AheadIs
    <3>4. h \in Nat /\ l \in Nat /\ h + 1 \in 1..l
      BY <3>1
    <3>2. CASE j < k
      <4>1. G[j] + h + 1 \in 1..G[k]
        <5>1. G[j] \in Nat /\ G[k] \in Nat /\ G[j + 1] = G[j] + l /\ G[j + 1] <= G[k]
          BY <1>3, <2>2, <2>4, <3>2
        <5>2. PICK x, z : x = G[j] /\ z = G[k]
          OBVIOUS
        <5>3. x \in Nat /\ z \in Nat /\ x + l <= z
          BY ONLY <5>1, <5>2, Zenon
        <5>4. x + h + 1 \in 1..z
          BY ONLY <3>4, <5>3
        <5> QED BY ONLY <5>2, <5>4, Zenon
      <4>2. gpRegs[G[j] + h + 1] = <<j, w>>
        <5>1. j \in 1..(k - 1)
          BY ONLY <2>1, <3>2, k \in 1..N
        <5>2. InReg(j, w, G, F)
          BY <1>2, <1>7, <5>1
        <5> QED BY <5>2, <2>6 DEF InReg
      <4>3. gpRegs'[G[j] + h + 1] = gpRegs[G[j] + h + 1]
        BY ONLY <1>4, <4>1
      <4>5. gpRegs'[G[j] + Ahead(args[j], w, FALSE) + 1] = <<j, w>>
        BY ONLY <4>2, <4>3, h = Ahead(args[j], w, FALSE)
      <4> QED BY <4>5, <2>6, Zenon
    <3>3. CASE j = k
      <4>1. G[j] + h + 1 = G[k] + (h + 1)
        <5>1. G[k] \in Nat /\ G[j] = G[k]
          BY <1>3, <3>3
        <5>2. PICK x \in Nat : x = G[k]
          BY <5>1
        <5>3. x + h + 1 = x + (h + 1)
          BY ONLY <3>4, x \in Nat
        <5> QED BY ONLY <5>1, <5>2, <5>3, Zenon
      <4>2. h + 1 \in 1..Len(a)
        BY <3>1, <3>3
      <4>3. a[h + 1] = <<j, w>>
        BY <3>1, <3>3, <4>2
      <4>4. gpRegs'[G[k] + (h + 1)] = a[h + 1]
        BY ONLY <1>4, <4>2
      <4>5. gpRegs'[G[j] + Ahead(args[j], w, FALSE) + 1] = <<j, w>>
        BY ONLY <4>1, <4>3, <4>4, h = Ahead(args[j], w, FALSE)
      <4> QED BY <4>5, <2>6, Zenon
    <3>5. j < k \/ j = k
      BY ONLY <2>1, k \in 1..N, j \in 1..k
    <3> QED BY ONLY <3>2, <3>3, <3>5
  <2> QED BY <2>3, <2>5, <2>6
<1>8. args' = args /\ large' = large /\ byStack' = byStack
  BY DEF Kept
<1>9. ASSUME NEW j \in 1..(k + 1 - 1), ~byStack'[j], NEW w \in 1..args[j].words
      PROVE  InReg(j, w, G, F)'
  <2>1. j \in 1..k /\ ~byStack[j]
    BY <1>8, <1>9
  <2> QED BY <1>7, <1>8, <2>1 DEF InReg
<1>10. /\ gpRegs' \in Seq(Word) /\ fpRegs' \in Seq(Word)
       /\ Len(gpRegs') = G[k + 1] /\ Len(fpRegs') = F[k + 1]
  BY <1>3, <1>4, <1>5
<1> QED BY ONLY <1>6, <1>8, <1>9, <1>10 DEF Loaded

LEMMA PopArgKeeps ==
  ASSUME Given, WideStructs, NEW G, NEW F, NEW S, NEW R, Loops(G, F, S, R), PopArg
  PROVE  Loops(G, F, S, R)'
<1>1. PICK k : k = i
  OBVIOUS
<1> DEFINE t == args[k]
           fits == Fits(t, gp, fp, t.fp2)
           Load(vector) == LET mine == InClass(t, vector) IN [w \in DOMAIN mine |-> Popped(mine[w])]
<1>2. /\ pc = "pop" /\ k <= N /\ pc' = pc /\ i' = k + 1 /\ Kept /\ bottom' = bottom
      /\ offset' = offset /\ top' = top /\ got' = got
  BY <1>1 DEF PopArg, Kept, caller, callee, N
<1>3. /\ Counted(G, F, S, R) /\ Before /\ k \in 1..(N + 1) /\ gp = G[k] /\ fp = F[k]
      /\ Loaded(k, G, F) /\ Suffix(R[k], S, R)
  BY <1>1, <1>2 DEF Loops, Popping
<1>4. N \in Nat /\ k \in 1..N /\ k + 1 \in 1..(N + 1)
  <2>1. N \in Nat
    BY SizeType
  <2> QED BY ONLY <1>2, <1>3, <2>1
<1>5. Counted(G, F, S, R)' /\ N' = N /\ Before'
  <2>1. Before'
    BY <1>2, <1>3 DEF Before
  <2> QED BY <1>2, <1>3, <2>1, CountedKept DEF Counted, N, Kept
<1>6. /\ Division(N, G, F, S, R) /\ stackArgs \in Nat /\ stackArgs >= S[N + 1] /\ bottom \in Nat
  BY <1>3 DEF Counted
<1>7. /\ G[k] \in Nat /\ F[k] \in Nat /\ R[k] \in Nat /\ R[k + 1] \in Nat
      /\ R[N + 1] \in Nat /\ R[k + 1] <= R[N + 1] /\ Divided(k, G, F, S, R)
  BY <1>4, <1>6, StepIs
<1>8. fits <=> ~byStack[k]
  <2>1. fits = Fits(t, G[k], F[k], Second(t))
    BY <1>3, <1>4, <1>7, FitsIs
  <2> QED BY <1>7, <2>1 DEF Divided
<1>9. Loaded(k + 1, G, F)' /\ gp' = G[k + 1] /\ fp' = F[k + 1]
        /\ \A c : c = R[k + 1] => Suffix(c, S, R)'
  <2>1. CASE ~byStack[k]
    <3>1. /\ Divides(t) /\ R[k + 1] = R[k] + t.words /\ t.words \in Nat
          /\ G[k + 1] = G[k] + Len(InClass(t, FALSE)) /\ F[k + 1] = F[k] + Len(InClass(t, TRUE))
      <4>1. /\ Divides(args[k]) /\ R[k + 1] = R[k] + args[k].words /\ args[k].words \in Nat
            /\ G[k + 1] = G[k] + Len(InClass(args[k], FALSE))
            /\ F[k + 1] = F[k] + Len(InClass(args[k], TRUE))
        <5>1. Division(N, G, F, S, R) /\ k \in 1..N
          BY <1>4, <1>6
        <5>2. /\ Divides(args[k]) /\ args[k].words \in Nat
              /\ G[k + 1] = G[k] + Len(InClass(args[k], FALSE))
              /\ F[k + 1] = F[k] + Len(InClass(args[k], TRUE))
          BY ONLY Given, WideStructs, <2>1, <5>1, RegisterIs
        <5>3. R[k + 1] = R[k] + args[k].words
          BY <1>7, <2>1 DEF Divided
        <5> QED BY <5>2, <5>3
      <4> QED BY <4>1
    <3>2. /\ gpRegs' = gpRegs \o Load(FALSE) /\ fpRegs' = fpRegs \o Load(TRUE)
          /\ gp' = Len(gpRegs') /\ fp' = Len(fpRegs')
          /\ stack' = SubSeq(stack, Len(InVector(t)) + 1, Len(stack))
          /\ depth' = depth - Len(InVector(t))
      BY <1>1, <1>8, <2>1 DEF PopArg
    <3>3. Len(InVector(t)) = t.words
      BY <3>1 DEF Divides
    <3>4. ASSUME NEW w \in 1..t.words
          PROVE  Popped(w) = <<k, w>>
      <4>1. Holds(stack, At(k, S, R) + w, R[k], <<k, w>>)
        BY <1>3, <1>4 DEF Suffix
      <4>2. At(k, S, R) = R[k]
        BY <2>1 DEF At
      <4>3. R[k] + w > R[k] /\ R[k] + w - R[k] = w
        BY ONLY <1>7, w \in 1..t.words
      <4>4. stack[w] = <<k, w>>
        <5>1. Holds(stack, R[k] + w, R[k], <<k, w>>)
          BY ONLY <4>1, <4>2, Zenon
        <5>2. R[k] + w > R[k] => stack[R[k] + w - R[k]] = <<k, w>>
          BY ONLY <5>1, <1>7, w \in 1..t.words DEF Holds
        <5>3. stack[R[k] + w - R[k]] = <<k, w>>
          BY ONLY <4>3, <5>2, Zenon
        <5> QED BY ONLY <4>3, <5>3, Zenon
      <4>5. w <= Len(stack)
        <5>1. Len(stack) = R[N + 1] + stackArgs + Len(start) + bottom - R[k]
          BY <1>3 DEF Suffix
        <5>2. Len(start) \in Nat
          BY DEF Given
        <5>3. R[k] + t.words <= R[N + 1]
          BY <1>7, <3>1
        <5>4. t.words \in Nat
          BY <3>1
        <5>5. PICK n : n = t.words
          OBVIOUS
        <5>6. n \in Nat /\ R[k] + n <= R[N + 1] /\ w \in 1..n
          BY <5>3, <5>4, <5>5, Zenon
        <5>7. PICK r, x, a, l : r = R[N + 1] /\ x = R[k] /\ a = stackArgs /\ l = Len(start)
          OBVIOUS
        <5>8. /\ r \in Nat /\ x \in Nat /\ a \in Nat /\ l \in Nat /\ bottom \in Nat
              /\ Len(stack) = r + a + l + bottom - x /\ x + n <= r
          BY ONLY <1>6, <1>7, <5>1, <5>2, <5>6, <5>7, Zenon
        <5>9. w <= r + a + l + bottom - x
          BY ONLY <5>6, <5>8
        <5> QED BY ONLY <5>8, <5>9, Zenon
      <4> QED BY <4>4, <4>5 DEF Popped
    <3>5. ASSUME NEW vector \in BOOLEAN
          PROVE  /\ Load(vector) \in Seq(Word) /\ Len(Load(vector)) = Len(InClass(t, vector))
                 /\ \A w \in 1..Len(Load(vector)) : Load(vector)[w] = <<k, InClass(t, vector)[w]>>
      <4> DEFINE mine == InClass(t, vector)
      <4>1. mine \in Seq(1..t.words)
        BY <3>1 DEF Divides
      <4>2. Len(mine) \in Nat /\ DOMAIN mine = 1..Len(mine)
              /\ \A w \in 1..Len(mine) : mine[w] \in 1..t.words
        <5> PICK m, n : m = mine /\ n = t.words
          OBVIOUS
        <5>1. m \in Seq(1..n)
          BY <4>1
        <5>2. Len(m) \in Nat /\ DOMAIN m = 1..Len(m) /\ \A w \in 1..Len(m) : m[w] \in 1..n
          <6> PICK X : X = 1..n
            OBVIOUS
          <6>1. m \in Seq(X)
            BY <5>1
          <6>2. Len(m) \in Nat /\ DOMAIN m = 1..Len(m) /\ \A w \in 1..Len(m) : m[w] \in X
            BY ONLY <6>1
          <6> QED BY <6>2
        <5> QED BY <5>2
      <4>3. \A w \in 1..t.words : <<k, w>> \in Word
        BY <1>4 DEF Word
      <4>4. Load(vector) = [w \in 1..Len(mine) |-> Popped(mine[w])]
        BY <4>2
      <4>5. \A w \in 1..Len(mine) : Popped(mine[w]) = <<k, mine[w]>> /\ <<k, mine[w]>> \in Word
        BY <3>4, <4>2, <4>3
      <4> HIDE DEF Load, mine
      <4>6. Load(vector) \in Seq(Word) /\ Len(Load(vector)) = Len(mine)
              /\ \A w \in 1..Len(mine) : Load(vector)[w] = <<k, mine[w]>>
        <5> PICK l, m : l = Load(vector) /\ m = mine
          OBVIOUS
        <5>1. l = [w \in 1..Len(m) |-> <<k, m[w]>>] /\ Len(m) \in Nat
          BY <4>2, <4>4, <4>5
        <5>2. \A w \in 1..Len(m) : <<k, m[w]>> \in Word
          BY <4>5
        <5>3. l \in Seq(Word) /\ Len(l) = Len(m) /\ \A w \in 1..Len(m) : l[w] = <<k, m[w]>>
          BY ONLY <5>1, <5>2
        <5> QED BY <5>3
      <4> QED BY <4>6 DEF mine
    <3> HIDE DEF Load
    <3>6. PICK a, b : a = Load(FALSE) /\ b = Load(TRUE)
      OBVIOUS
    <3>7. /\ a \in Seq(Word) /\ Len(a) = Len(InClass(args[k], FALSE))
          /\ \A w \in 1..Len(a) : a[w] = <<k, InClass(args[k], FALSE)[w]>>
      BY <3>5, <3>6
    <3>8. /\ b \in Seq(Word) /\ Len(b) = Len(InClass(args[k], TRUE))
          /\ \A w \in 1..Len(b) : b[w] = <<k, InClass(args[k], TRUE)[w]>>
      BY <3>5, <3>6
    <3>9. gpRegs' = gpRegs \o a /\ fpRegs' = fpRegs \o b
      BY <3>2, <3>6
    <3>10. Loaded(k + 1, G, F)'
      BY ONLY Given, WideStructs, <1>2, <1>3, <1>4, <2>1, <3>7, <3>8, <3>9, LoadedGrows
    <3>11. gp' = G[k + 1] /\ fp' = F[k + 1]
      BY <3>2, <3>10 DEF Loaded
    <3>12. ASSUME NEW c, c = R[k + 1]
           PROVE  Suffix(c, S, R)'
      <4>1. PICK n, cut : n = t.words /\ cut = R[k]
        OBVIOUS
      <4>2. n \in Nat /\ c = cut + n /\ cut + n <= R[N + 1] + stackArgs
        <5>1. n \in Nat /\ c = cut + n
          BY <3>1, <3>12, <4>1
        <5>2. c <= R[N + 1] /\ c \in Nat
          BY <1>7, <3>12
        <5> QED BY ONLY <5>1, <5>2, <1>6, <1>7
      <4>3. /\ stack' = SubSeq(stack, n + 1, Len(stack)) /\ depth' = depth - n
            /\ Suffix(cut, S, R)
        BY <1>3, <3>2, <3>3, <4>1
      <4>4. Suffix(cut + n, S, R)'
        BY ONLY Given, <1>2, <1>3, <4>2, <4>3, PoppedOff
      <4> QED BY <4>2, <4>4
    <3> QED BY <3>10, <3>11, <3>12
  <2>2. CASE byStack[k]
    <3>1. /\ gpRegs' = gpRegs /\ fpRegs' = fpRegs /\ gp' = gp /\ fp' = fp
          /\ stack' = stack /\ depth' = depth
      BY <1>1, <1>8, <2>2 DEF PopArg
    <3>2. G[k + 1] = G[k] /\ F[k + 1] = F[k] /\ R[k + 1] = R[k]
      BY <1>7, <2>2 DEF Divided
    <3>3. Loaded(k + 1, G, F)
      <4>1. \A j \in 1..(k + 1 - 1) : ~byStack[j] => j \in 1..(k - 1)
        BY <1>4, <2>2
      <4> QED BY ONLY <1>3, <3>2, <4>1 DEF Loaded
    <3>4. Loaded(k + 1, G, F)'
      BY <1>2, <3>1, <3>3, LoadedKept
    <3>5. ASSUME NEW c, c = R[k + 1]
          PROVE  Suffix(c, S, R)'
      BY <1>2, <1>3, <3>1, <3>2, <3>5, SuffixKept
    <3> QED BY <1>3, <3>1, <3>2, <3>4, <3>5
  <2> QED BY <2>1, <2>2
<1>10. Suffix(R[i], S, R)' /\ Loaded(i, G, F)'
  <2>1. PICK c, m : c = R[k + 1] /\ m = k + 1
    OBVIOUS
  <2>2. Suffix(c, S, R)' /\ Loaded(m, G, F)'
    BY <1>9, <2>1
  <2> QED BY <1>2, <2>1, <2>2, SuffixIs, LoadedIs
<1>11. Popping(G, F, S, R)'
  BY <1>2, <1>4, <1>5, <1>9, <1>10 DEF Popping
<1> QED BY <1>2, <1>5, <1>11 DEF Loops

(***************************************************************************)
(* The callee.                                                             *)
(***************************************************************************)
LEMMA PremisesKept ==
  ASSUME Kept
  PROVE  /\ EvenLongDoubles' <=> EvenLongDoubles
         /\ First' = First
         /\ offset' = offset /\ named' = named => (PlainVariadic' <=> PlainVariadic)
BY DEF EvenLongDoubles, PlainVariadic, First, TypeOf, Kept, N

\* Behind words in even numbers the next one on the stack lies at an even offset.
LEMMA EvenOffset ==
  ASSUME Given, NEW G, NEW F, NEW S, NEW R, Division(N, G, F, S, R), NEW k \in 1..N,
         \A j \in 1..(k - 1) : byStack[j] => args[j].words % 2 = 0, NEW place, place = S[k] + 2
  PROVE  place + (place % 2) = place
<1>1. S[k] \in Nat
  BY StepIs
<1>2. S[k] % 2 = 0
  <2>1. k \in 1..(N + 1)
    BY SizeType
  <2>2. EvenSum(k, S)
    BY <2>1 DEF Division
  <2> QED BY <2>2 DEF EvenSum
<1> QED BY ONLY <1>1, <1>2, place = S[k] + 2

\* A long double on the stack lies at an even offset.
LEMMA LongDoubleEven ==
  ASSUME Given, NEW G, NEW F, NEW S, NEW R, Division(N, G, F, S, R), EvenLongDoubles,
         NEW k \in 1..N, args[k].kind = "ldouble", NEW place, place = S[k] + 2
  PROVE  place + (place % 2) = place
<1>1. \A j \in 1..(k - 1) : byStack[j] => args[j].words % 2 = 0
  BY DEF EvenLongDoubles
<1> QED BY <1>1, EvenOffset

LEMMA PlaceParamKeeps ==
  ASSUME Given, NEW G, NEW F, NEW S, NEW R, Loops(G, F, S, R), PlaceParam
  PROVE  Loops(G, F, S, R)'
<1>1. PICK k : k = i
  OBVIOUS
<1> DEFINE t == TypeOf(k)
           fits == Fits(t, gp, fp, Second(t))
           at == IF t.kind = "ldouble" THEN top + (top % 2) ELSE top
<1>2. /\ pc = "place" /\ k <= named /\ pc' = pc /\ i' = k + 1 /\ Kept
      /\ stack' = stack /\ depth' = depth /\ bottom' = bottom
      /\ gpRegs' = gpRegs /\ fpRegs' = fpRegs /\ named' = named /\ got' = got
  BY <1>1 DEF PlaceParam, Kept, caller, machine
<1>3. /\ fits => /\ gp' = gp + GpNeed(t, Second(t)) /\ fp' = fp + FpNeed(t, Second(t))
                 /\ offset' = Extend(offset, k, 0) /\ top' = top
      /\ ~fits => /\ gp' = gp /\ fp' = fp
                  /\ offset' = Extend(offset, k, at) /\ top' = at + t.words
  BY <1>1 DEF PlaceParam
<1>4. /\ Counted(G, F, S, R) /\ Loaded(N + 1, G, F) /\ Suffix(R[N + 1], S, R)
      /\ named \in 0..N /\ k \in First..(named + 1) /\ gp = G[k] /\ fp = F[k]
      /\ DOMAIN offset = First..(k - 1) /\ DOMAIN got = {}
      /\ EvenLongDoubles => top = (IF k = 0 THEN 2 ELSE S[k] + 2) /\ Offsets(k - 1, S)
  BY <1>1, <1>2 DEF Loops, Placing
<1>5. /\ N \in Nat /\ First \in 0..1 /\ (First = 0 <=> large)
      /\ Division(N, G, F, S, R)
  BY <1>4, SizeType DEF First, Counted
<1>6. /\ k \in First..named /\ k + 1 \in First..(named + 1) /\ k + 1 # 0
      /\ (k = 0 => large) /\ (k # 0 => k \in 1..N)
  BY ONLY <1>2, <1>4, <1>5
<1>7. Counted(G, F, S, R)' /\ N' = N
  BY <1>2, <1>4, CountedKept DEF Counted, N, Kept
<1>8. Suffix(R[N + 1], S, R)' /\ Loaded(N + 1, G, F)'
  <2>1. PICK c, m : c = R[N + 1] /\ m = N + 1
    OBVIOUS
  <2>2. Suffix(c, S, R)' /\ Loaded(m, G, F)'
    BY <1>2, <1>4, <2>1, SuffixKept, LoadedKept
  <2> QED BY <1>7, <2>1, <2>2, SuffixIs, LoadedIs
<1>9. PICK v : offset' = Extend(offset, k, v) /\ (fits => v = 0) /\ (~fits => v = at)
  <2>1. CASE fits
    BY <1>3, <2>1
  <2>2. CASE ~fits
    BY <1>3, <2>2
  <2> QED BY <2>1, <2>2
<1>10. /\ DOMAIN offset' = First..k /\ offset'[k] = v
       /\ \A j \in First..(k - 1) : offset'[j] = offset[j]
  <2>1. First..k = (First..(k - 1)) \cup {k} /\ k \notin First..(k - 1)
    BY ONLY <1>5, <1>6
  <2>2. /\ DOMAIN Extend(offset, k, v) = DOMAIN offset \cup {k} /\ Extend(offset, k, v)[k] = v
        /\ \A j \in DOMAIN offset : j # k => Extend(offset, k, v)[j] = offset[j]
    BY DEF Extend
  <2>3. DOMAIN offset = First..(k - 1) /\ offset' = Extend(offset, k, v)
    BY <1>4, <1>9
  <2> QED BY ONLY <2>1, <2>2, <2>3, Zenon
<1>11. /\ gp' = G[k + 1] /\ fp' = F[k + 1]
       /\ EvenLongDoubles => offset'[k] = Offset(k, S) /\ top' = S[k + 1] + 2
  <2>1. CASE k = 0
    <3>1. G[0] = 0 /\ F[0] = 0 /\ G[1] = 1 /\ F[1] = 0 /\ S[1] = 0
      BY <1>5, <1>6, <2>1 DEF Division, Int01
    <3>2. t = Pointer
      BY <2>1 DEF TypeOf
    <3>3. GpNeed(t, Second(t)) = 1 /\ FpNeed(t, Second(t)) = 0
      BY <3>2 DEF Pointer, GpNeed, FpNeed
    <3>4. fits
      <4>1. 0 < GP_MAX
        BY SizesAssumption
      <4>2. t.kind = "gp"
        BY <3>2 DEF Pointer
      <4>3. gp < GP_MAX
        BY <1>4, <2>1, <3>1, <4>1
      <4> QED BY ONLY <4>2, <4>3 DEF Fits, fits
    <3>5. /\ gp' = 0 + 1 /\ fp' = 0 + 0 /\ top' = top /\ v = 0
      <4>1. gp = 0 /\ fp = 0
        BY <1>4, <2>1, <3>1
      <4> QED BY ONLY <1>3, <1>9, <3>3, <3>4, <4>1, Zenon
    <3>6. k + 1 = 1 /\ 0 + 1 = 1 /\ 0 + 0 = 0 /\ 0 + 2 = 2
      BY <2>1
    <3>7. EvenLongDoubles => top = 2
      BY <1>4, <2>1
    <3>8. gp' = G[k + 1] /\ fp' = F[k + 1]
      BY ONLY <3>1, <3>5, <3>6, Zenon
    <3>9. EvenLongDoubles => top' = S[k + 1] + 2
      BY ONLY <3>1, <3>5, <3>6, <3>7, Zenon
    <3>10. offset'[k] = Offset(k, S)
      BY <1>10, <2>1, <3>5 DEF Offset
    <3> QED BY <3>8, <3>9, <3>10
  <2>2. CASE k # 0
    <3>1. /\ k \in 1..N /\ t = args[k] /\ args[k].words \in Nat
          /\ S[k] \in Nat /\ Divided(k, G, F, S, R)
      BY <1>5, <1>6, <2>2, StepIs, ArgType DEF TypeOf
    <3>2. fits <=> ~byStack[k]
      BY <1>4, <3>1 DEF Divided
    <3>3. CASE fits
      <4>1. /\ gp' = gp + GpNeed(t, Second(t)) /\ fp' = fp + FpNeed(t, Second(t))
            /\ v = 0 /\ top' = top
        BY <1>3, <1>9, <3>3
      <4>2. /\ G[k + 1] = G[k] + GpNeed(t, Second(t)) /\ F[k + 1] = F[k] + FpNeed(t, Second(t))
            /\ S[k + 1] = S[k]
        BY <3>1, <3>2, <3>3 DEF Divided
      <4>3. offset'[k] = Offset(k, S)
        BY <1>10, <3>2, <3>3, <4>1 DEF Offset
      <4>4. EvenLongDoubles => top' = S[k + 1] + 2
        BY <1>4, <2>2, <4>1, <4>2
      <4> QED BY <1>4, <4>1, <4>2, <4>3, <4>4
    <3>4. CASE ~fits
      <4>1. /\ gp' = gp /\ fp' = fp /\ v = at /\ top' = at + t.words
            /\ G[k + 1] = G[k] /\ F[k + 1] = F[k] /\ S[k + 1] = S[k] + args[k].words
        <5>1. gp' = gp /\ fp' = fp /\ v = at /\ top' = at + t.words
          BY ONLY <1>3, <1>9, <3>4, Zenon
        <5>2. G[k + 1] = G[k] /\ F[k + 1] = F[k] /\ S[k + 1] = S[k] + args[k].words
          BY <3>1, <3>2, <3>4 DEF Divided
        <5> QED BY <5>1, <5>2
      <4>2. EvenLongDoubles => at = S[k] + 2
        <5> SUFFICES ASSUME EvenLongDoubles PROVE at = S[k] + 2
          OBVIOUS
        <5>1. top = S[k] + 2
          BY <1>4, <2>2
        <5>2. t.kind = "ldouble" => top + (top % 2) = top
          <6>1. PICK place : place = top
            OBVIOUS
          <6> QED BY <1>5, <3>1, <5>1, <6>1, LongDoubleEven
        <5> QED BY <5>1, <5>2
      <4>3. S[k] + 2 + args[k].words = S[k] + args[k].words + 2
        BY ONLY <3>1
      <4>4. EvenLongDoubles => offset'[k] = Offset(k, S)
        BY <1>10, <2>2, <3>2, <3>4, <4>1, <4>2 DEF Offset
      <4>5. EvenLongDoubles => top' = S[k + 1] + 2
        BY <3>1, <4>1, <4>2, <4>3
      <4> QED BY <1>4, <4>1, <4>4, <4>5
    <3> QED BY <3>3, <3>4
  <2> QED BY <2>1, <2>2
<1>12. First' = First /\ (EvenLongDoubles' <=> EvenLongDoubles)
  BY <1>2, PremisesKept
<1>13. EvenLongDoubles => \A j \in First..k : offset'[j] = Offset(j, S)
  <2>1. \A j \in First..k : j = k \/ j \in First..(k - 1)
    BY ONLY <1>5, <1>6
  <2> QED BY <1>4, <1>10, <1>11, <2>1 DEF Offsets
<1>14. \A j : Offset(j, S)' = Offset(j, S)
  BY <1>2 DEF Offset, Kept
<1>15. i' - 1 = k /\ i' # 0
  BY <1>2, <1>5, <1>6
<1>16. Placing(G, F, S)'
  <2>1. EvenLongDoubles => Offsets(i - 1, S)'
    BY <1>12, <1>13, <1>14, <1>15 DEF Offsets
  <2> QED BY <1>2, <1>4, <1>6, <1>7, <1>10, <1>11, <1>12, <1>15, <2>1 DEF Placing
<1> QED BY <1>2, <1>7, <1>8, <1>16 DEF Loops

LEMMA PlacedKeeps ==
  ASSUME Given, NEW G, NEW F, NEW S, NEW R, Loops(G, F, S, R), Placed
  PROVE  Loops(G, F, S, R)'
<1>1. /\ pc = "place" /\ i > named /\ pc' = "store" /\ i' = First /\ gp' = 0 /\ fp' = 0 /\ Kept
      /\ va' = [gp |-> Cardinality(Others(named)), fp |-> Cardinality(Vectors(named)), at |-> 2]
      /\ stack' = stack /\ depth' = depth /\ bottom' = bottom
      /\ gpRegs' = gpRegs /\ fpRegs' = fpRegs /\ named' = named /\ got' = got
      /\ offset' = offset /\ top' = top
  BY DEF Placed, Kept, caller, machine, Others, Vectors
<1>2. /\ Counted(G, F, S, R) /\ Loaded(N + 1, G, F) /\ Suffix(R[N + 1], S, R)
      /\ named \in 0..N /\ i \in First..(named + 1)
      /\ DOMAIN offset = First..(i - 1) /\ DOMAIN got = {}
      /\ EvenLongDoubles => Offsets(i - 1, S)
  BY <1>1 DEF Loops, Placing
<1>3. /\ N \in Nat /\ First \in 0..1 /\ (First = 0 <=> large)
      /\ Division(N, G, F, S, R)
  BY <1>2, SizeType DEF First, Counted
<1>4. i = named + 1 /\ i - 1 = named /\ named \in Nat
  BY ONLY <1>1, <1>2, <1>3
<1>5. Counted(G, F, S, R)' /\ N' = N
  BY <1>1, <1>2, CountedKept DEF Counted, N, Kept
<1>6. Suffix(R[N + 1], S, R)' /\ Loaded(N + 1, G, F)'
  <2>1. PICK c, m : c = R[N + 1] /\ m = N + 1
    OBVIOUS
  <2>2. Suffix(c, S, R)' /\ Loaded(m, G, F)'
    BY <1>1, <1>2, <2>1, SuffixKept, LoadedKept
  <2> QED BY <1>5, <2>1, <2>2, SuffixIs, LoadedIs
<1>7. /\ First' = First /\ (EvenLongDoubles' <=> EvenLongDoubles)
      /\ (PlainVariadic' <=> PlainVariadic)
  BY <1>1, PremisesKept
<1>8. First..(First - 1) = {} /\ First \in First..(N + 1) /\ (First <= named \/ First = named + 1)
  BY ONLY <1>3, <1>4
<1>9. /\ Cardinality(Vectors(named)) \in Nat /\ Cardinality(Others(named)) \in Nat
  BY <1>2, VectorsType
<1>10. G[First] = 0 /\ F[First] = 0
  <2>1. G[0] = 0 /\ F[0] = 0 /\ F[1] = 0 /\ (~large => G[1] = 0)
    BY <1>3 DEF Division, Int01
  <2> QED BY <1>3, <2>1
<1>11. PlainVariadic =>
         /\ S[named + 1] = 0
         /\ F[named + 1] = Cardinality(Vectors(named))
         /\ G[named + 1] = Cardinality(Others(named))
  <2> SUFFICES ASSUME PlainVariadic
               PROVE  /\ S[named + 1] = 0
                      /\ F[named + 1] = Cardinality(Vectors(named))
                      /\ G[named + 1] = Cardinality(Others(named))
    OBVIOUS
  <2>1. EvenLongDoubles
    <3>1. ASSUME NEW j \in 1..N
          PROVE  args[j].kind # "ldouble"
      <4>1. CASE j \in 1..named
        <5>1. j \in First..named /\ j # 0
          BY ONLY <1>3, <1>4, <4>1
        <5> QED BY <5>1 DEF PlainVariadic, TypeOf
      <4>2. CASE j \in (named + 1)..N
        BY <4>2 DEF PlainVariadic, N
      <4>3. j \in 1..named \/ j \in (named + 1)..N
        BY ONLY <1>3, <1>4, j \in 1..N
      <4> QED BY <4>1, <4>2, <4>3 DEF N
    <3> QED BY <3>1 DEF EvenLongDoubles
  <2>2. ASSUME NEW j \in 1..named
        PROVE  args[j].kind \in {"gp", "fp"} /\ ~byStack[j]
    <3>1. j \in First..named /\ j # 0 /\ j \in 1..N
      BY ONLY <1>2, <1>3, <1>4, j \in 1..named
    <3>2. args[j].kind \in {"gp", "fp"} /\ offset[j] = 0
      BY <3>1 DEF PlainVariadic, TypeOf
    <3>3. offset[j] = Offset(j, S)
      BY <1>2, <1>4, <2>1, <3>1 DEF Offsets
    <3>4. S[j] \in Nat
      BY <1>3, <3>1, StepIs
    <3>5. S[j] + 2 # 0
      BY ONLY <3>4
    <3> QED BY <3>1, <3>2, <3>3, <3>5 DEF Offset
  <2>3. (named + 1) - 1 = named /\ named + 1 \in 1..(N + 1)
    BY ONLY <1>2, <1>3, <1>4
  <2>4. ScalarSum(named + 1, G, F, S)
    BY <1>3, <2>3 DEF Division
  <2>5. \A j \in 1..((named + 1) - 1) : args[j].kind \in {"gp", "fp"} /\ ~byStack[j]
    BY <2>2, <2>3
  <2>6. /\ S[named + 1] = 0
        /\ F[named + 1] = Cardinality(Vectors((named + 1) - 1))
        /\ G[named + 1] = Cardinality(Others((named + 1) - 1))
    BY ONLY <2>4, <2>5 DEF ScalarSum
  <2> QED BY <2>3, <2>6
<1>12. PlainVariadic => va' = VaList(named + 1, G, F, S)
  <2>1. 0 + 2 = 2
    OBVIOUS
  <2> QED BY <1>1, <1>11, <2>1 DEF VaList
<1>13. (IF First <= named THEN named + 1 ELSE First) = named + 1
  BY <1>8
<1>14. Offsets(named, S)' <=> Offsets(named, S)
  BY <1>1, <1>7 DEF Offsets, Offset, Kept
<1>15. \A j \in First..named : ~(j < First)
  BY ONLY <1>3, <1>4
<1>16. \A j \in (named + 1)..N : ~(j < First)
  BY ONLY <1>3, <1>4
<1>17. va' \in [gp : Nat, fp : Nat, at : Nat]
  BY <1>1, <1>9
<1>18. Storing(G, F, S)'
  <2>1. DOMAIN offset' = First'..named' /\ DOMAIN got' = First'..(i' - 1)
    BY <1>1, <1>2, <1>4, <1>7, <1>8
  <2>2. named' \in 0..N' /\ i' \in First'..(N' + 1)
    BY <1>1, <1>2, <1>5, <1>7, <1>8
  <2>3. EvenLongDoubles' =>
          /\ Offsets(named, S)'
          /\ i' <= named' + 1 => gp' = G[i'] /\ fp' = F[i']
          /\ \A j \in First'..named' : j < i' => Arrived(j)'
    BY <1>1, <1>2, <1>4, <1>7, <1>10, <1>14, <1>15
  <2>4. PlainVariadic' =>
          /\ va' = VaList(IF i' <= named' THEN named' + 1 ELSE i', G, F, S)
          /\ \A j \in (named' + 1)..N' : j < i' => Arrived(j)'
    BY <1>1, <1>5, <1>7, <1>12, <1>13, <1>16
  <2> QED BY <1>17, <2>1, <2>2, <2>3, <2>4 DEF Storing
<1> QED BY <1>1, <1>5, <1>6, <1>18 DEF Loops

\* A stack argument is found from its offset, a register argument in its registers.
LEMMA MemoryHolds ==
  ASSUME Given, NEW G, NEW F, NEW S, NEW R, Counted(G, F, S, R), Suffix(R[N + 1], S, R),
         NEW k \in 1..N, byStack[k], NEW place, place = S[k] + 2
  PROVE  [w \in 1..args[k].words |-> Popped(place - 2 + w)] = Words(k)
<1>1. Division(N, G, F, S, R) /\ stackArgs \in Nat /\ bottom \in Nat
  BY DEF Counted
<1>2. S[k] \in Nat /\ R[N + 1] \in Nat /\ args[k].words \in Nat /\ Len(start) \in Nat /\ k # 0
  BY <1>1, StepIs, ArgType DEF Given
<1>3. ASSUME NEW w \in 1..args[k].words
      PROVE  Popped(place - 2 + w) = <<k, w>>
  <2>1. At(k, S, R) = R[N + 1] + S[k]
    BY DEF At
  <2>2. /\ Holds(stack, At(k, S, R) + w, R[N + 1], <<k, w>>)
        /\ Len(stack) = R[N + 1] + stackArgs + Len(start) + bottom - R[N + 1]
    BY DEF Suffix
  <2>3. At(k, S, R) + w <= R[N + 1] + stackArgs /\ w \in Nat \ {0}
    BY WordPlace
  <2>4. PICK x, m : x = At(k, S, R) + w /\ m = place - 2 + w
    OBVIOUS
  <2>5. m = S[k] + w /\ m \in Nat /\ m = x - R[N + 1] /\ x > R[N + 1] /\ m <= Len(stack)
    <3>1. PICK s, q, n : s = S[k] /\ q = R[N + 1] /\ n = Len(stack)
      OBVIOUS
    <3>2. /\ s \in Nat /\ q \in Nat /\ x = q + s + w /\ m = (s + 2) - 2 + w
          /\ n = q + stackArgs + Len(start) + bottom - q /\ x <= q + stackArgs
      BY <1>2, <2>1, <2>2, <2>3, <2>4, <3>1, Zenon
    <3>3. /\ m = s + w /\ m \in Nat /\ m = x - q /\ x > q /\ m <= n
      BY ONLY <1>1, <1>2, <2>3, <3>2
    <3> QED BY <3>1, <3>3
  <2>6. stack[m] = <<k, w>>
    BY <2>2, <2>4, <2>5 DEF Holds
  <2> QED BY <2>4, <2>5, <2>6 DEF Popped
<1>4. Words(k) = [w \in 1..args[k].words |-> <<k, w>>]
  BY <1>2 DEF Words, TypeOf
<1> QED BY <1>3, <1>4

LEMMA RegistersHold ==
  ASSUME Given, WideStructs, NEW G, NEW F, NEW S, NEW R, Counted(G, F, S, R), Loaded(N + 1, G, F),
         NEW k \in 1..N, ~byStack[k], NEW w \in 1..args[k].words
  PROVE  /\ InVector(args[k])[w] \in BOOLEAN
         /\ InVector(args[k])[w] => Reg(fpRegs, F[k] + Ahead(args[k], w, TRUE)) = <<k, w>>
         /\ ~InVector(args[k])[w] => Reg(gpRegs, G[k] + Ahead(args[k], w, FALSE)) = <<k, w>>
<1>1. Division(N, G, F, S, R) /\ N \in Nat /\ N + 1 - 1 = N
  BY SizeType DEF Counted
<1>2. /\ Divides(args[k]) /\ G[k] \in Nat /\ F[k] \in Nat
      /\ G[k + 1] = G[k] + Len(InClass(args[k], FALSE))
      /\ F[k + 1] = F[k] + Len(InClass(args[k], TRUE))
  BY <1>1, RegisterIs
<1>3. /\ G[k + 1] <= G[N + 1] /\ F[k + 1] <= F[N + 1]
      /\ G[N + 1] \in Nat /\ F[N + 1] \in Nat
  BY <1>1, StepIs
<1>4. InReg(k, w, G, F) /\ Len(gpRegs) = G[N + 1] /\ Len(fpRegs) = F[N + 1]
  BY <1>1 DEF Loaded
<1>5. InVector(args[k])[w] \in BOOLEAN
  BY <1>2 DEF Divides
<1>6. CASE InVector(args[k])[w] = TRUE
  <2>1. PICK h, l : h = Ahead(args[k], w, TRUE) /\ l = Len(InClass(args[k], TRUE))
    OBVIOUS
  <2>2. h \in Nat /\ l \in Nat /\ h + 1 \in 1..l
    BY <1>2, <1>6, <2>1, AheadIs
  <2>3. F[k] \in Nat /\ F[k] + l <= Len(fpRegs) /\ Len(fpRegs) \in Nat
    BY <1>2, <1>3, <1>4, <2>1
  <2>4. F[k] + h < Len(fpRegs)
    BY ONLY <2>2, <2>3
  <2>5. fpRegs[F[k] + h + 1] = <<k, w>>
    BY <1>4, <1>6, <2>1 DEF InReg
  <2>6. Reg(fpRegs, F[k] + h) = <<k, w>>
    BY ONLY <2>4, <2>5 DEF Reg
  <2> QED BY <1>5, <1>6, <2>1, <2>6
<1>7. CASE InVector(args[k])[w] = FALSE
  <2>1. PICK h, l : h = Ahead(args[k], w, FALSE) /\ l = Len(InClass(args[k], FALSE))
    OBVIOUS
  <2>2. h \in Nat /\ l \in Nat /\ h + 1 \in 1..l
    BY <1>2, <1>7, <2>1, AheadIs
  <2>3. G[k] \in Nat /\ G[k] + l <= Len(gpRegs) /\ Len(gpRegs) \in Nat
    BY <1>2, <1>3, <1>4, <2>1
  <2>4. G[k] + h < Len(gpRegs)
    BY ONLY <2>2, <2>3
  <2>5. gpRegs[G[k] + h + 1] = <<k, w>>
    BY <1>4, <1>7, <2>1 DEF InReg
  <2>6. Reg(gpRegs, G[k] + h) = <<k, w>>
    BY ONLY <2>4, <2>5 DEF Reg
  <2> QED BY <1>5, <1>7, <2>1, <2>6
<1> QED BY <1>5, <1>6, <1>7

\* What a parameter stored from registers gets, and the counters after.
LEMMA StoredIs ==
  ASSUME Given, WideStructs, NEW G, NEW F, NEW S, NEW R, Counted(G, F, S, R), Loaded(N + 1, G, F),
         NEW k \in First..N, k # 0 => ~byStack[k], gp = G[k], fp = F[k]
  PROVE  /\ [w \in 1..TypeOf(k).words |-> FromRegs(TypeOf(k), w)] = Words(k)
         /\ gp + Len(InClass(TypeOf(k), FALSE)) = G[k + 1]
         /\ fp + Len(InClass(TypeOf(k), TRUE)) = F[k + 1]
<1>1. Division(N, G, F, S, R) /\ N \in Nat /\ First \in 0..1 /\ (First = 0 <=> large)
  BY SizeType DEF Counted, First
<1>2. CASE k = 0
  <2>1. large
    BY <1>1, <1>2
  <2>2. TypeOf(k) = Pointer /\ TypeOf(0) = Pointer
    BY <1>2 DEF TypeOf
  <2>3. /\ G[0] = 0 /\ F[0] = 0 /\ G[1] = 1 /\ F[1] = 0
    BY <1>1, <2>1 DEF Division, Int01
  <2>4. InVector(Pointer) = <<FALSE>> /\ Pointer.words = 1
    BY DEF InVector, Pointer
  <2>5. InClass(Pointer, FALSE) = <<1>> /\ InClass(Pointer, TRUE) = <<>>
    <3>1. <<FALSE>>[1] = FALSE /\ Len(<<FALSE>>) # 2 /\ TRUE # FALSE
      OBVIOUS
    <3> QED BY ONLY <2>4, <3>1 DEF InClass
  <2>6. Len(<<1>>) = 1 /\ Len(<<>>) = 0 /\ 0 + 1 = 1 /\ 0 + 0 = 0 /\ k + 1 = 1
    BY <1>2
  <2>7. ASSUME NEW w \in 1..1
        PROVE  FromRegs(Pointer, w) = <<0, w>>
    <3>1. w = 1
      OBVIOUS
    <3>2. InVector(Pointer)[w] = FALSE
      BY <2>4, <3>1
    <3>3. FromRegs(Pointer, w) = Reg(gpRegs, gp + Int01(w = 2 /\ InVector(Pointer)[1] = FALSE))
      BY <3>2 DEF FromRegs
    <3>4. Int01(w = 2 /\ InVector(Pointer)[1] = FALSE) = 0
      BY <3>1 DEF Int01
    <3>5. gp = 0
      BY <1>2, <2>3
    <3>6. gpRegs[1] = <<0, 1>> /\ Len(gpRegs) >= 1
      <4>1. Len(gpRegs) = G[N + 1] /\ gpRegs[1] = <<0, 1>>
        BY <2>1 DEF Loaded
      <4>2. 1 \in 1..(N + 1) /\ N + 1 \in 1..(N + 1) /\ 1 <= N + 1
        BY ONLY <1>1
      <4>3. G[1] <= G[N + 1]
        BY <1>1, <4>2 DEF Division, Rising
      <4> QED BY <2>3, <4>1, <4>3
    <3>7. Reg(gpRegs, 0) = <<0, 1>>
      <4>1. 0 < Len(gpRegs) /\ 0 + 1 = 1
        <5>1. gpRegs \in Seq(Word)
          BY DEF Loaded
        <5>2. Len(gpRegs) \in Nat
          BY ONLY <5>1
        <5> QED BY ONLY <3>6, <5>2
      <4> QED BY <3>6, <4>1 DEF Reg
    <3> QED BY <3>1, <3>3, <3>4, <3>5, <3>7
  <2>8. Words(0) = [w \in 1..1 |-> <<0, w>>]
    BY <2>2, <2>4 DEF Words
  <2>9. [w \in 1..TypeOf(k).words |-> FromRegs(TypeOf(k), w)] = Words(k)
    BY <1>2, <2>2, <2>4, <2>7, <2>8
  <2>10. gp + Len(InClass(TypeOf(k), FALSE)) = G[k + 1]
    BY <1>2, <2>2, <2>3, <2>5, <2>6
  <2>11. fp + Len(InClass(TypeOf(k), TRUE)) = F[k + 1]
    BY <1>2, <2>2, <2>3, <2>5, <2>6
  <2> QED BY <2>9, <2>10, <2>11
<1>3. CASE k # 0
  <2>1. k \in 1..N /\ ~byStack[k] /\ TypeOf(k) = args[k]
    <3>1. k \in 1..N
      BY ONLY <1>1, <1>3, k \in First..N
    <3> QED BY <1>3, <3>1 DEF TypeOf
  <2>2. /\ G[k + 1] = G[k] + Len(InClass(args[k], FALSE))
        /\ F[k + 1] = F[k] + Len(InClass(args[k], TRUE))
    BY <1>1, <2>1, RegisterIs
  <2>3. ASSUME NEW w \in 1..args[k].words
        PROVE  FromRegs(args[k], w) = <<k, w>>
    <3>1. /\ InVector(args[k])[w] \in BOOLEAN
          /\ InVector(args[k])[w] => Reg(fpRegs, F[k] + Ahead(args[k], w, TRUE)) = <<k, w>>
          /\ ~InVector(args[k])[w] => Reg(gpRegs, G[k] + Ahead(args[k], w, FALSE)) = <<k, w>>
      BY <2>1, RegistersHold
    <3>2. FromRegs(args[k], w) = IF InVector(args[k])[w]
                                   THEN Reg(fpRegs, F[k] + Ahead(args[k], w, TRUE))
                                   ELSE Reg(gpRegs, G[k] + Ahead(args[k], w, FALSE))
      BY DEF FromRegs, Ahead
    <3>3. CASE InVector(args[k])[w]
      BY <3>1, <3>2, <3>3, Zenon
    <3>4. CASE ~InVector(args[k])[w]
      BY <3>1, <3>2, <3>4, Zenon
    <3> QED BY <3>3, <3>4
  <2>4. Words(k) = [w \in 1..args[k].words |-> <<k, w>>]
    BY <2>1 DEF Words
  <2>5. [w \in 1..args[k].words |-> FromRegs(args[k], w)] = Words(k)
    BY <2>3, <2>4
  <2> QED BY <2>1, <2>2, <2>5
<1> QED BY <1>2, <1>3

\* The part of the invariant that the callee only reads.
LEMMA CalleeKept ==
  ASSUME NEW G, NEW F, NEW S, NEW R, Counted(G, F, S, R), Loaded(N + 1, G, F), Suffix(R[N + 1], S, R),
         Kept, stack' = stack, depth' = depth, bottom' = bottom, gpRegs' = gpRegs, fpRegs' = fpRegs
  PROVE  /\ Counted(G, F, S, R)' /\ N' = N
         /\ Suffix(R[N + 1], S, R)' /\ Loaded(N + 1, G, F)'
<1>1. Counted(G, F, S, R)' /\ N' = N
  BY CountedKept DEF Counted, N, Kept
<1>2. PICK c, m : c = R[N + 1] /\ m = N + 1
  OBVIOUS
<1>3. Suffix(c, S, R)' /\ Loaded(m, G, F)'
  BY <1>2, SuffixKept, LoadedKept
<1> QED BY <1>1, <1>2, <1>3, SuffixIs, LoadedIs

\* One more parameter has what it should.
LEMMA GotMore ==
  ASSUME Kept, NEW k, NEW v, got' = Extend(got, k, v), NEW P, P \subseteq DOMAIN got, k \notin P,
         \A j \in P : Arrived(j)
  PROVE  /\ DOMAIN got' = DOMAIN got \cup {k}
         /\ \A j \in P : Arrived(j)'
         /\ v = Words(k) => Arrived(k)'
<1>1. /\ DOMAIN Extend(got, k, v) = DOMAIN got \cup {k} /\ Extend(got, k, v)[k] = v
      /\ \A j \in DOMAIN got : j # k => Extend(got, k, v)[j] = got[j]
  BY DEF Extend
<1>2. \A j : Words(j)' = Words(j)
  BY DEF Words, TypeOf, Kept
<1>3. \A j \in P : j \in DOMAIN got /\ j # k /\ got[j] = Words(j)
  BY DEF Arrived
<1>4. \A j \in P : got'[j] = Words(j)'
  BY <1>1, <1>2, <1>3
<1>5. got'[k] = v /\ DOMAIN got' = DOMAIN got \cup {k}
  BY <1>1
<1> QED BY <1>2, <1>4, <1>5 DEF Arrived

LEMMA StoreParamKeeps ==
  ASSUME Given, WideStructs, NEW G, NEW F, NEW S, NEW R, Loops(G, F, S, R), StoreParam
  PROVE  Loops(G, F, S, R)'
<1>1. PICK k : k = i
  OBVIOUS
<1>2. /\ pc = "store" /\ k <= named /\ pc' = pc /\ i' = k + 1 /\ Kept
      /\ stack' = stack /\ depth' = depth /\ bottom' = bottom
      /\ gpRegs' = gpRegs /\ fpRegs' = fpRegs /\ named' = named /\ offset' = offset /\ va' = va
  BY <1>1 DEF StoreParam, Kept, caller, machine
<1>3. PICK v :
        /\ got' = Extend(got, k, v)
        /\ offset[k] > 0 => /\ v = [w \in 1..TypeOf(k).words |-> Popped(offset[k] - 2 + w)]
                            /\ gp' = gp /\ fp' = fp
        /\ ~(offset[k] > 0) => /\ v = [w \in 1..TypeOf(k).words |-> FromRegs(TypeOf(k), w)]
                               /\ gp' = gp + Len(InClass(TypeOf(k), FALSE))
                               /\ fp' = fp + Len(InClass(TypeOf(k), TRUE))
  <2>1. CASE offset[k] > 0
    BY <1>1, <2>1 DEF StoreParam
  <2>2. CASE ~(offset[k] > 0)
    BY <1>1, <2>2 DEF StoreParam
  <2> QED BY <2>1, <2>2
<1>4. /\ Counted(G, F, S, R) /\ Loaded(N + 1, G, F) /\ Suffix(R[N + 1], S, R)
      /\ named \in 0..N /\ k \in First..(N + 1)
      /\ DOMAIN offset = First..named /\ DOMAIN got = First..(k - 1)
      /\ va \in [gp : Nat, fp : Nat, at : Nat]
      /\ EvenLongDoubles =>
           /\ Offsets(named, S)
           /\ k <= named + 1 => gp = G[k] /\ fp = F[k]
           /\ \A j \in First..named : j < k => Arrived(j)
      /\ PlainVariadic => va = VaList(IF k <= named THEN named + 1 ELSE k, G, F, S)
  BY <1>1, <1>2 DEF Loops, Storing
<1>5. /\ N \in Nat /\ First \in 0..1 /\ Division(N, G, F, S, R) /\ byStack \in Seq(BOOLEAN)
  BY <1>4, SizeType DEF First, Counted
<1>6. /\ named \in Nat /\ k \in First..named /\ k <= named + 1 /\ k \in First..N
      /\ k + 1 \in First..(N + 1) /\ (k # 0 => k \in 1..N)
      /\ (k + 1 <= named \/ k + 1 = named + 1)
  BY ONLY <1>2, <1>4, <1>5
<1>7. /\ Counted(G, F, S, R)' /\ N' = N /\ Suffix(R[N + 1], S, R)' /\ Loaded(N + 1, G, F)'
  BY ONLY <1>2, <1>4, CalleeKept
<1>8. /\ First' = First /\ (EvenLongDoubles' <=> EvenLongDoubles)
      /\ (PlainVariadic' <=> PlainVariadic)
  BY <1>2, PremisesKept
<1>9. First..k = (First..(k - 1)) \cup {k} /\ k \notin First..(k - 1)
  BY ONLY <1>5, <1>6
<1>10. DOMAIN got' = First..k
  <2>1. DOMAIN Extend(got, k, v) = DOMAIN got \cup {k}
    BY DEF Extend
  <2> QED BY <1>3, <1>4, <1>9, <2>1
<1>11. EvenLongDoubles => v = Words(k) /\ gp' = G[k + 1] /\ fp' = F[k + 1]
  <2> SUFFICES ASSUME EvenLongDoubles
               PROVE  v = Words(k) /\ gp' = G[k + 1] /\ fp' = F[k + 1]
    OBVIOUS
  <2>1. offset[k] = Offset(k, S) /\ gp = G[k] /\ fp = F[k]
    BY <1>4, <1>6 DEF Offsets
  <2>2. CASE k # 0 /\ byStack[k]
    <3>1. /\ k \in 1..N /\ offset[k] = S[k] + 2 /\ TypeOf(k) = args[k]
      BY <1>6, <2>1, <2>2 DEF Offset, TypeOf
    <3>2. S[k] \in Nat /\ G[k + 1] = G[k] /\ F[k + 1] = F[k]
      BY <1>5, <2>2, <3>1, StepIs DEF Divided
    <3>3. offset[k] > 0
      BY ONLY <3>1, <3>2
    <3>4. PICK place : place = offset[k]
      OBVIOUS
    <3>5. [w \in 1..args[k].words |-> Popped(place - 2 + w)] = Words(k)
      BY <1>4, <2>2, <3>1, <3>4, MemoryHolds
    <3>6. v = [w \in 1..TypeOf(k).words |-> Popped(offset[k] - 2 + w)] /\ gp' = gp /\ fp' = fp
      BY ONLY <1>3, <3>3
    <3>7. v = Words(k)
      BY ONLY <3>1, <3>4, <3>5, <3>6, Zenon
    <3> QED BY ONLY <2>1, <3>2, <3>6, <3>7, Zenon
  <2>3. CASE k # 0 => ~byStack[k]
    <3>1. offset[k] = 0
      BY <2>1, <2>3 DEF Offset
    <3>2. ~(offset[k] > 0)
      BY ONLY <3>1
    <3>3. /\ [w \in 1..TypeOf(k).words |-> FromRegs(TypeOf(k), w)] = Words(k)
          /\ gp + Len(InClass(TypeOf(k), FALSE)) = G[k + 1]
          /\ fp + Len(InClass(TypeOf(k), TRUE)) = F[k + 1]
      BY ONLY Given, WideStructs, <1>4, <1>6, <2>1, <2>3, StoredIs
    <3> QED BY ONLY <1>3, <3>2, <3>3, Zenon
  <2> QED BY <2>2, <2>3
<1>12. EvenLongDoubles => \A j \in First..k : Arrived(j)'
  <2> SUFFICES ASSUME EvenLongDoubles
               PROVE  \A j \in First..k : Arrived(j)'
    OBVIOUS
  <2>1. PICK P : P = First..(k - 1)
    OBVIOUS
  <2>2. \A j \in First..(k - 1) : j \in First..named /\ j < k
    BY ONLY <1>5, <1>6
  <2>3. P \subseteq DOMAIN got /\ k \notin P /\ \A j \in P : Arrived(j)
    BY <1>4, <1>9, <2>1, <2>2
  <2>4. (\A j \in P : Arrived(j)') /\ Arrived(k)'
    BY <1>2, <1>3, <1>11, <2>3, GotMore
  <2> QED BY <1>9, <2>1, <2>4
<1>13. PlainVariadic => va' = VaList(named + 1, G, F, S)
  <2>1. (IF k <= named THEN named + 1 ELSE k) = named + 1
    BY <1>2
  <2> QED BY <1>2, <1>4, <2>1
<1>14. (IF k + 1 <= named THEN named + 1 ELSE k + 1) = named + 1
  BY ONLY <1>6
<1>15. \A j \in (named + 1)..N : ~(j < k + 1)
  BY ONLY <1>5, <1>6
<1>16. \A j \in First..named : j < k + 1 => j \in First..k
  BY ONLY <1>5, <1>6
<1>17. Offsets(named, S)' <=> Offsets(named, S)
  BY <1>2, <1>8 DEF Offsets, Offset, Kept
<1>18. k + 1 - 1 = k
  BY ONLY <1>5, <1>6
<1>19. Storing(G, F, S)'
  <2>1. DOMAIN offset' = First'..named' /\ DOMAIN got' = First'..(i' - 1)
    BY <1>2, <1>4, <1>8, <1>10, <1>18
  <2>2. named' \in 0..N' /\ i' \in First'..(N' + 1)
    BY <1>2, <1>4, <1>6, <1>7, <1>8
  <2>3. EvenLongDoubles' =>
          /\ Offsets(named, S)'
          /\ i' <= named' + 1 => gp' = G[i'] /\ fp' = F[i']
          /\ \A j \in First'..named' : j < i' => Arrived(j)'
    BY <1>2, <1>4, <1>8, <1>11, <1>12, <1>16, <1>17
  <2>4. PlainVariadic' =>
          /\ va' = VaList(IF i' <= named' THEN named' + 1 ELSE i', G, F, S)
          /\ \A j \in (named' + 1)..N' : j < i' => Arrived(j)'
    BY <1>2, <1>7, <1>8, <1>13, <1>14, <1>15
  <2>5. va' \in [gp : Nat, fp : Nat, at : Nat]
    BY <1>2, <1>4
  <2> QED BY <2>1, <2>2, <2>3, <2>4, <2>5 DEF Storing
<1> QED BY <1>2, <1>7, <1>19 DEF Loops

\* A scalar in a register, and where the next argument's would be.
LEMMA ScalarHolds ==
  ASSUME Given, WideStructs, NEW G, NEW F, NEW S, NEW R, Counted(G, F, S, R), Loaded(N + 1, G, F),
         NEW k \in 1..N, ~byStack[k], args[k].kind \in {"gp", "fp"}
  PROVE  /\ Words(k) = [w \in 1..1 |-> <<k, 1>>] /\ args[k].words = 1
         /\ args[k].kind = "gp" => /\ Reg(gpRegs, G[k]) = <<k, 1>>
                                   /\ G[k + 1] = G[k] + 1 /\ F[k + 1] = F[k] /\ S[k + 1] = S[k]
         /\ args[k].kind = "fp" => /\ Reg(fpRegs, F[k]) = <<k, 1>>
                                   /\ G[k + 1] = G[k] /\ F[k + 1] = F[k] + 1 /\ S[k + 1] = S[k]
<1>1. Division(N, G, F, S, R) /\ k # 0
  BY SizeType DEF Counted
<1>2. args[k].words = 1
  BY ArgType
<1>3. G[k] \in Nat /\ F[k] \in Nat /\ Divided(k, G, F, S, R)
  BY <1>1, StepIs
<1>4. /\ G[k + 1] = G[k] + GpNeed(args[k], Second(args[k]))
      /\ F[k + 1] = F[k] + FpNeed(args[k], Second(args[k])) /\ S[k + 1] = S[k]
  BY <1>3 DEF Divided
<1>5. Words(k) = [w \in 1..1 |-> <<k, 1>>]
  <2>1. Words(k) = [w \in 1..1 |-> <<k, w>>]
    BY <1>1, <1>2 DEF Words, TypeOf
  <2>2. \A w \in 1..1 : w = 1
    OBVIOUS
  <2> QED BY <2>1, <2>2
<1>6. 1 \in 1..args[k].words /\ \A b : Ahead(args[k], 1, b) = 0
  BY <1>2 DEF Ahead, Int01
<1>7. /\ InVector(args[k])[1] => Reg(fpRegs, F[k] + 0) = <<k, 1>>
      /\ ~InVector(args[k])[1] => Reg(gpRegs, G[k] + 0) = <<k, 1>>
  <2>1. /\ InVector(args[k])[1] => Reg(fpRegs, F[k] + Ahead(args[k], 1, TRUE)) = <<k, 1>>
        /\ ~InVector(args[k])[1] => Reg(gpRegs, G[k] + Ahead(args[k], 1, FALSE)) = <<k, 1>>
    BY <1>6, RegistersHold
  <2> QED BY <1>6, <2>1
<1>8. F[k] + 0 = F[k] /\ G[k] + 0 = G[k]
  BY ONLY <1>3
<1>9. CASE args[k].kind = "gp"
  <2>1. InVector(args[k])[1] = FALSE
    BY <1>9 DEF InVector
  <2>2. G[k + 1] = G[k] + 1 /\ F[k + 1] = F[k] + 0
    BY <1>4, <1>9, NeedType
  <2> QED BY <1>2, <1>4, <1>5, <1>7, <1>8, <1>9, <2>1, <2>2
<1>10. CASE args[k].kind = "fp"
  <2>1. InVector(args[k])[1] = TRUE
    BY <1>10 DEF InVector
  <2>2. G[k + 1] = G[k] + 0 /\ F[k + 1] = F[k] + 1
    BY <1>4, <1>10, NeedType
  <2> QED BY <1>2, <1>4, <1>5, <1>7, <1>8, <1>10, <2>1, <2>2
<1> QED BY <1>9, <1>10

\* What one va_arg finds, where it is right at all.
LEMMA FetchedIs ==
  ASSUME Given, WideStructs, NEW G, NEW F, NEW S, NEW R, Counted(G, F, S, R), Loaded(N + 1, G, F),
         Suffix(R[N + 1], S, R), NEW k \in 1..N, k = i, FetchArg, va = VaList(k, G, F, S),
         args[k].kind \in {"gp", "fp", "struct"},
         args[k].kind = "struct" => args[k].words > 2,
         args[k].wide => \A j \in 1..(k - 1) : byStack[j] => args[j].words % 2 = 0
  PROVE  got' = Extend(got, k, Words(k)) /\ va' = VaList(k + 1, G, F, S)
<1>1. Division(N, G, F, S, R)
  BY DEF Counted
<1>2. /\ G[k] \in Nat /\ F[k] \in Nat /\ S[k] \in Nat /\ Divided(k, G, F, S, R)
      /\ args[k].words \in Nat
  BY <1>1, StepIs, ArgType
<1>3. va.gp = G[k] /\ va.fp = F[k] /\ va.at = S[k] + 2
  BY DEF VaList
<1>4. /\ args[k].kind = "gp" => (byStack[k] <=> ~(va.gp < GP_MAX))
      /\ args[k].kind = "fp" => (byStack[k] <=> ~(va.fp < FP_MAX))
      /\ args[k].kind = "struct" => byStack[k]
  <2>1. byStack[k] <=> ~Fits(args[k], G[k], F[k], Second(args[k]))
    <3>1. CASE byStack[k]
      BY <1>2, <3>1 DEF Divided
    <3>2. CASE ~byStack[k]
      BY <1>2, <3>2 DEF Divided
    <3> QED BY <3>1, <3>2
  <2>2. args[k].kind = "gp" => (byStack[k] <=> ~(va.gp < GP_MAX))
    <3>1. args[k].kind = "gp" => (Fits(args[k], G[k], F[k], Second(args[k])) <=> G[k] < GP_MAX)
      BY DEF Fits
    <3> QED BY ONLY <1>3, <2>1, <3>1, Zenon
  <2>3. args[k].kind = "fp" => (byStack[k] <=> ~(va.fp < FP_MAX))
    <3>1. args[k].kind = "fp" => (Fits(args[k], G[k], F[k], Second(args[k])) <=> F[k] < FP_MAX)
      BY DEF Fits
    <3> QED BY ONLY <1>3, <2>1, <3>1, Zenon
  <2>4. args[k].kind = "struct" => byStack[k]
    <3>1. args[k].kind = "struct" => ~(args[k].words <= 2)
      BY <1>2
    <3>2. args[k].kind = "struct" => ~Fits(args[k], G[k], F[k], Second(args[k]))
      BY <3>1 DEF Fits
    <3> QED BY ONLY <2>1, <3>2, Zenon
  <2> QED BY <2>2, <2>3, <2>4
<1>5. CASE args[k].kind = "gp" /\ va.gp < GP_MAX
  <2>1. /\ got' = Extend(got, k, <<Reg(gpRegs, G[k])>>)
        /\ va' = [va EXCEPT !.gp = @ + 1]
    BY <1>2, <1>3, <1>5, SizesAssumption DEF FetchArg
  <2>2. /\ Reg(gpRegs, G[k]) = <<k, 1>> /\ Words(k) = [w \in 1..1 |-> <<k, 1>>]
        /\ G[k + 1] = G[k] + 1 /\ F[k + 1] = F[k] /\ S[k + 1] = S[k]
    BY <1>4, <1>5, ScalarHolds
  <2>3. <<Reg(gpRegs, G[k])>> = Words(k)
    BY <2>2
  <2>4. va' = VaList(k + 1, G, F, S)
    BY <2>1, <2>2 DEF VaList
  <2> QED BY <2>1, <2>3, <2>4
<1>6. CASE args[k].kind = "fp" /\ va.fp < FP_MAX
  <2>1. /\ got' = Extend(got, k, [w \in 1..args[k].words |-> Reg(fpRegs, F[k] + w - 1)])
        /\ va' = [va EXCEPT !.fp = @ + 1]
    BY <1>2, <1>3, <1>6, SizesAssumption DEF FetchArg
  <2>2. /\ Reg(fpRegs, F[k]) = <<k, 1>> /\ Words(k) = [w \in 1..1 |-> <<k, 1>>]
        /\ G[k + 1] = G[k] /\ F[k + 1] = F[k] + 1 /\ S[k + 1] = S[k] /\ args[k].words = 1
    BY <1>4, <1>6, ScalarHolds
  <2>3. \A w \in 1..1 : F[k] + w - 1 = F[k]
    BY ONLY <1>2
  <2>4. [w \in 1..args[k].words |-> Reg(fpRegs, F[k] + w - 1)] = Words(k)
    BY <2>2, <2>3
  <2>5. va' = VaList(k + 1, G, F, S)
    BY <2>1, <2>2 DEF VaList
  <2> QED BY <2>1, <2>4, <2>5
<1>7. CASE byStack[k]
  <2>1. FromMemory(args[k])
    BY <1>4, <1>7 DEF FetchArg
  <2>2. PICK place : place = S[k] + 2
    OBVIOUS
  <2>8. args[k].wide => place + (place % 2) = place
    BY <1>1, <2>2, EvenOffset
  <2>3. /\ got' = Extend(got, k, [w \in 1..args[k].words |-> Popped(place - 2 + w)])
        /\ va' = [va EXCEPT !.at = place + args[k].words]
    <3>1. CASE args[k].wide
      BY <1>3, <2>1, <2>2, <2>8, <3>1 DEF FromMemory
    <3>2. CASE ~args[k].wide
      BY <1>3, <2>1, <2>2, <3>2 DEF FromMemory
    <3> QED BY <3>1, <3>2
  <2>4. [w \in 1..args[k].words |-> Popped(place - 2 + w)] = Words(k)
    BY <1>7, <2>2, MemoryHolds
  <2>5. G[k + 1] = G[k] /\ F[k + 1] = F[k] /\ S[k + 1] = S[k] + args[k].words
    BY <1>2, <1>7 DEF Divided
  <2>6. place + args[k].words = S[k + 1] + 2
    BY ONLY <1>2, <2>2, <2>5
  <2>7. va' = VaList(k + 1, G, F, S)
    BY <2>3, <2>5, <2>6 DEF VaList
  <2> QED BY <2>3, <2>4, <2>7
<1> QED BY <1>4, <1>5, <1>6, <1>7

LEMMA FetchArgKeeps ==
  ASSUME Given, WideStructs, NEW G, NEW F, NEW S, NEW R, Loops(G, F, S, R), FetchArg
  PROVE  Loops(G, F, S, R)'
<1>1. PICK k : k = i
  OBVIOUS
<1>2. /\ pc = "store" /\ named < k /\ k <= N /\ pc' = pc /\ i' = k + 1 /\ Kept
      /\ stack' = stack /\ depth' = depth /\ bottom' = bottom
      /\ gpRegs' = gpRegs /\ fpRegs' = fpRegs /\ named' = named /\ offset' = offset
      /\ gp' = gp /\ fp' = fp
  BY <1>1 DEF FetchArg, Kept, caller, machine, N
<1>3. /\ Counted(G, F, S, R) /\ Loaded(N + 1, G, F) /\ Suffix(R[N + 1], S, R)
      /\ named \in 0..N /\ k \in First..(N + 1)
      /\ DOMAIN offset = First..named /\ DOMAIN got = First..(k - 1)
      /\ va \in [gp : Nat, fp : Nat, at : Nat]
      /\ EvenLongDoubles =>
           /\ Offsets(named, S)
           /\ \A j \in First..named : j < k => Arrived(j)
      /\ PlainVariadic =>
           /\ va = VaList(IF k <= named THEN named + 1 ELSE k, G, F, S)
           /\ \A j \in (named + 1)..N : j < k => Arrived(j)
  BY <1>1, <1>2 DEF Loops, Storing
<1>4. /\ N \in Nat /\ First \in 0..1
  BY SizeType DEF First
<1>5. /\ named \in Nat /\ k \in 1..N /\ k + 1 \in First..(N + 1) /\ ~(k <= named)
      /\ ~(k + 1 <= named + 1) /\ ~(k + 1 <= named) /\ k + 1 - 1 = k
      /\ k \in (named + 1)..N
  BY ONLY <1>2, <1>3, <1>4
<1>6. /\ Counted(G, F, S, R)' /\ N' = N /\ Suffix(R[N + 1], S, R)' /\ Loaded(N + 1, G, F)'
  BY ONLY <1>2, <1>3, CalleeKept
<1>7. /\ First' = First /\ (EvenLongDoubles' <=> EvenLongDoubles)
      /\ (PlainVariadic' <=> PlainVariadic)
  BY <1>2, PremisesKept
<1>8. args[k].words \in Nat
  BY <1>5, ArgType
<1>9. (\E v : got' = Extend(got, k, v)) /\ va' \in [gp : Nat, fp : Nat, at : Nat]
  <2>1. va.gp \in Nat /\ va.fp \in Nat /\ va.at \in Nat
    BY <1>3
  <2>2. \E v : got' = Extend(got, k, v)
    BY <1>1, Zenon DEF FetchArg, FromMemory
  <2>3. CASE va' = [va EXCEPT !.gp = @ + 1] \/ va' = [va EXCEPT !.fp = @ + 1]
    <3>1. va' \in [gp : Nat, fp : Nat, at : Nat]
      BY <1>3, <2>1, <2>3
    <3> QED BY ONLY <2>2, <3>1
  <2>4. CASE FromMemory(args[k])
    <3>1. PICK at : /\ at = IF args[k].wide THEN va.at + (va.at % 2) ELSE va.at
                    /\ va' = [va EXCEPT !.at = at + args[k].words]
      BY <1>1, <2>4 DEF FromMemory
    <3>2. at \in Nat
      BY ONLY <2>1, <3>1
    <3>3. at + args[k].words \in Nat
      BY ONLY <1>8, <3>2
    <3>4. va' \in [gp : Nat, fp : Nat, at : Nat]
      BY <1>3, <3>1, <3>3
    <3> QED BY ONLY <2>2, <3>4
  <2>5. \/ va' = [va EXCEPT !.gp = @ + 1] \/ va' = [va EXCEPT !.fp = @ + 1]
        \/ FromMemory(args[k])
    BY <1>1, Zenon DEF FetchArg
  <2> QED BY ONLY <2>3, <2>4, <2>5, Zenon
<1>10. PICK v : got' = Extend(got, k, v)
  BY <1>9
<1>11. DOMAIN got' = First..k
  <2>1. DOMAIN Extend(got, k, v) = DOMAIN got \cup {k}
    BY DEF Extend
  <2>2. First..k = (First..(k - 1)) \cup {k}
    BY ONLY <1>4, <1>5
  <2> QED BY <1>3, <1>10, <2>1, <2>2
<1>12. EvenLongDoubles => \A j \in First..named : Arrived(j)'
  <2> SUFFICES ASSUME EvenLongDoubles
               PROVE  \A j \in First..named : Arrived(j)'
    OBVIOUS
  <2>1. PICK P : P = First..named
    OBVIOUS
  <2>2. \A j \in First..named : j \in First..(k - 1) /\ j < k /\ j # k
    BY ONLY <1>4, <1>5
  <2>3. P \subseteq DOMAIN got /\ k \notin P /\ \A j \in P : Arrived(j)
    BY <1>3, <2>1, <2>2
  <2> QED BY <1>2, <1>10, <2>1, <2>3, GotMore
<1>13. PlainVariadic =>
         /\ va' = VaList(k + 1, G, F, S)
         /\ \A j \in (named + 1)..k : Arrived(j)'
  <2> SUFFICES ASSUME PlainVariadic
               PROVE  /\ va' = VaList(k + 1, G, F, S)
                      /\ \A j \in (named + 1)..k : Arrived(j)'
    OBVIOUS
  <2>1. /\ args[k].kind \in {"gp", "fp", "struct"}
        /\ args[k].kind = "struct" => args[k].words > 2
        /\ args[k].wide => \A j \in 1..(k - 1) : byStack[j] => args[j].words % 2 = 0
    BY <1>5 DEF PlainVariadic, N
  <2>2. va = VaList(k, G, F, S)
    BY <1>3, <1>5
  <2>3. got' = Extend(got, k, Words(k)) /\ va' = VaList(k + 1, G, F, S)
    BY <1>1, <1>3, <1>5, <2>1, <2>2, FetchedIs
  <2>4. PICK P, u : P = (named + 1)..(k - 1) /\ u = Words(k)
    OBVIOUS
  <2>5. \A j \in (named + 1)..(k - 1) : j \in First..(k - 1) /\ j \in (named + 1)..N /\ j < k /\ j # k
    BY ONLY <1>4, <1>5
  <2>6. P \subseteq DOMAIN got /\ k \notin P /\ \A j \in P : Arrived(j)
    BY <1>3, <2>4, <2>5
  <2>9. got' = Extend(got, k, u)
    BY ONLY <2>3, <2>4, Zenon
  <2>10. Kept /\ P \subseteq DOMAIN got /\ k \notin P /\ u = Words(k)
    BY <1>2, <2>4, <2>6
  <2>7. \A j \in P : Arrived(j)'
    BY ONLY <2>6, <2>9, <2>10, GotMore
  <2>11. Arrived(k)'
    BY ONLY <2>6, <2>9, <2>10, GotMore
  <2>8. \A j \in (named + 1)..k : j \in (named + 1)..(k - 1) \/ j = k
    BY ONLY <1>5
  <2> QED BY <2>3, <2>4, <2>7, <2>8, <2>11
<1>14. (IF k + 1 <= named THEN named + 1 ELSE k + 1) = k + 1
  BY <1>5
<1>15. \A j \in (named + 1)..N : j < k + 1 => j \in (named + 1)..k
  BY ONLY <1>5
<1>16. Offsets(named, S)' <=> Offsets(named, S)
  BY <1>2, <1>7 DEF Offsets, Offset, Kept
<1>17. Storing(G, F, S)'
  <2>1. DOMAIN offset' = First'..named' /\ DOMAIN got' = First'..(i' - 1)
    BY <1>2, <1>3, <1>5, <1>7, <1>11
  <2>2. named' \in 0..N' /\ i' \in First'..(N' + 1)
    BY <1>2, <1>3, <1>5, <1>6, <1>7
  <2>3. EvenLongDoubles' =>
          /\ Offsets(named, S)'
          /\ i' <= named' + 1 => gp' = G[i'] /\ fp' = F[i']
          /\ \A j \in First'..named' : j < i' => Arrived(j)'
    BY <1>2, <1>3, <1>5, <1>7, <1>12, <1>16
  <2>4. PlainVariadic' =>
          /\ va' = VaList(IF i' <= named' THEN named' + 1 ELSE i', G, F, S)
          /\ \A j \in (named' + 1)..N' : j < i' => Arrived(j)'
    BY <1>2, <1>6, <1>7, <1>13, <1>14, <1>15
  <2> QED BY <1>9, <2>1, <2>2, <2>3, <2>4 DEF Storing
<1> QED BY <1>2, <1>6, <1>17 DEF Loops

(***************************************************************************)
(* The caller drops what it pushed.                                        *)
(***************************************************************************)
LEMMA AllDropped ==
  ASSUME NEW s \in Seq(Word), NEW f \in Seq(Word), NEW b \in Nat, NEW all \in Nat,
         Len(s) = Len(f) + b,
         \A m \in 1..Len(f) : Holds(s, all + m, all, f[m]),
         \A m \in 1..b : Holds(s, all + Len(f) + m, all, BlockAt(b, m))
  PROVE  s = f \o Blocks(b)
<1>1. PICK below \in Seq(Word) :
        below = Blocks(b) /\ Len(below) = b /\ \A m \in 1..b : below[m] = BlockAt(b, m)
  BY BlocksAre
<1>2. /\ f \o below \in Seq(Word) /\ Len(f \o below) = Len(f) + b /\ Len(f) \in Nat
      /\ \A m \in 1..Len(f) : (f \o below)[m] = f[m]
      /\ \A m \in 1..b : (f \o below)[Len(f) + m] = below[m]
  <2>1. \A g, h \in Seq(Word) :
          /\ g \o h \in Seq(Word) /\ Len(g \o h) = Len(g) + Len(h) /\ Len(g) \in Nat
          /\ \A m \in 1..Len(g) : (g \o h)[m] = g[m]
          /\ \A m \in 1..Len(h) : (g \o h)[Len(g) + m] = h[m]
    BY Joined
  <2>2. f \in Seq(Word) /\ below \in Seq(Word) /\ Len(below) = b
    BY <1>1
  <2> QED BY ONLY <2>1, <2>2, Zenon
<1>3. ASSUME NEW m \in 1..Len(f)
      PROVE  s[m] = (f \o below)[m]
  <2>1. all + m > all /\ (all + m) - all = m
    BY ONLY <1>2, m \in 1..Len(f), all \in Nat
  <2>2. s[m] = f[m]
    BY <2>1 DEF Holds
  <2> QED BY <1>2, <2>2
<1>4. ASSUME NEW n \in 1..b
      PROVE  s[Len(f) + n] = (f \o below)[Len(f) + n]
  <2>1. all + Len(f) + n > all /\ (all + Len(f) + n) - all = Len(f) + n
    BY ONLY <1>2, n \in 1..b, b \in Nat, all \in Nat
  <2>2. s[Len(f) + n] = BlockAt(b, n)
    BY <2>1 DEF Holds
  <2> QED BY <1>1, <1>2, <2>2
<1>5. \A m \in 1..Len(s) : m \in 1..Len(f) \/ \E n \in 1..b : m = Len(f) + n
  <2> SUFFICES ASSUME NEW m \in 1..Len(s), m \notin 1..Len(f)
               PROVE  \E n \in 1..b : m = Len(f) + n
    OBVIOUS
  <2>1. m - Len(f) \in 1..b /\ m = Len(f) + (m - Len(f))
    BY ONLY <1>2, m \in 1..Len(s), m \notin 1..Len(f), Len(s) = Len(f) + b, b \in Nat
  <2> QED BY <2>1
<1>6. \A m \in 1..Len(s) : s[m] = (f \o below)[m]
  BY ONLY <1>3, <1>4, <1>5, Zenon
<1>7. Len(s) = Len(f \o below) /\ f \o below \in Seq(Word)
  BY <1>2
<1>8. s = f \o below
  <2>1. PICK r : r = f \o below
    OBVIOUS
  <2>2. r \in Seq(Word) /\ Len(s) = Len(r) /\ \A m \in 1..Len(s) : s[m] = r[m]
    BY ONLY <1>6, <1>7, <2>1, Zenon
  <2>3. s = r
    BY ONLY <2>2, s \in Seq(Word)
  <2> QED BY ONLY <2>1, <2>3, Zenon
<1> QED BY <1>1, <1>8

LEMMA ReturnKeeps ==
  ASSUME Given, NEW G, NEW F, NEW S, NEW R, Loops(G, F, S, R), Return
  PROVE  Loops(G, F, S, R)'
<1>1. PICK k, c : k = stackArgs /\ c = R[N + 1]
  OBVIOUS
<1>2. /\ pc = "store" /\ i > N /\ pc' = "returned" /\ Kept
      /\ stack' = SubSeq(stack, k + 1, Len(stack)) /\ depth' = depth - k /\ bottom' = bottom
      /\ offset' = offset /\ named' = named /\ got' = got
  BY <1>1 DEF Return, Kept, caller, callee, N
<1>3. /\ Counted(G, F, S, R) /\ Suffix(c, S, R)
      /\ named \in 0..N /\ i \in First..(N + 1)
      /\ EvenLongDoubles => \A j \in First..named : j < i => Arrived(j)
      /\ PlainVariadic => \A j \in (named + 1)..N : j < i => Arrived(j)
  BY <1>1, <1>2 DEF Loops, Storing
<1>4. N \in Nat /\ First \in 0..1 /\ c \in Nat /\ k \in Nat /\ bottom \in Nat
  <2>1. N \in Nat /\ N + 1 \in 0..(N + 1) /\ Division(N, G, F, S, R)
    BY <1>3, SizeType DEF Counted
  <2> QED BY <1>1, <1>3, <2>1, DivisionType DEF Counted, First
<1>5. Counted(G, F, S, R)' /\ N' = N
  BY <1>2, <1>3, CountedKept DEF Counted, N, Kept
<1>6. (EvenLongDoubles' <=> EvenLongDoubles) /\ First' = First /\ (PlainVariadic' <=> PlainVariadic)
  BY <1>2, PremisesKept
<1>7. PICK all : all = c + k
  OBVIOUS
<1>8. all \in Nat /\ all <= c + k /\ R[N + 1] + stackArgs = all
  <2>1. all \in Nat /\ all <= c + k
    BY ONLY <1>4, <1>7
  <2> QED BY <1>1, <1>7, <2>1
<1>9. Suffix(c + k, S, R)'
  <2>1. c + k <= R[N + 1] + stackArgs
    BY ONLY <1>4, <1>7, <1>8
  <2> QED BY <1>2, <1>3, <1>4, <2>1, PoppedOff
<1>10. R[N' + 1] + stackArgs' = all /\ start' = start /\ Len(start) \in Nat
  BY <1>2, <1>5, <1>8 DEF Kept, Given
<1>11. /\ stack' \in Seq(Word)
       /\ Len(stack') = all + Len(start) + bottom - all
       /\ depth' = all + Len(start) - all
       /\ \A m \in 1..Len(start) : Holds(stack', all + m, all, start[m])
       /\ \A m \in 1..bottom : Holds(stack', all + Len(start) + m, all, BlockAt(bottom, m))
  BY ONLY <1>2, <1>7, <1>9, <1>10, Zenon DEF Suffix
<1>12. Len(stack') = Len(start) + bottom /\ depth' = Len(start)
  BY ONLY <1>4, <1>8, <1>10, <1>11
<1>13. stack' = start \o Blocks(bottom)
  <2>1. PICK s : s = stack'
    OBVIOUS
  <2>2. start \in Seq(Word)
    BY DEF Given
  <2>3. s = start \o Blocks(bottom)
    BY ONLY <1>4, <1>8, <1>11, <1>12, <2>1, <2>2, AllDropped
  <2> QED BY <2>1, <2>3
<1>14. depth' = Len(start') /\ stack' = start' \o [w \in 1..bottom' |-> Block(bottom' + 1 - w)]
  BY <1>2, <1>10, <1>12, <1>13 DEF Blocks, BlockAt
<1>15. (\A j \in First..named : j < i) /\ (\A j \in (named + 1)..N : j < i)
  BY ONLY <1>2, <1>3, <1>4
<1>16. \A j : Arrived(j)' <=> Arrived(j)
  BY <1>2 DEF Arrived, Words, TypeOf, Kept
<1>17. Done'
  BY <1>2, <1>3, <1>5, <1>6, <1>14, <1>15, <1>16 DEF Done
<1> QED BY <1>2, <1>5, <1>17 DEF Loops

(***************************************************************************)
(* The invariant.                                                          *)
(***************************************************************************)
\* A step that changes nothing.
LEMMA StutterKeeps ==
  ASSUME NEW G, NEW F, NEW S, NEW R, Loops(G, F, S, R), vars' = vars
  PROVE  Loops(G, F, S, R)'
<1>1. /\ args' = args /\ large' = large /\ start' = start /\ pc' = pc /\ i' = i
      /\ gp' = gp /\ fp' = fp /\ byStack' = byStack /\ stackArgs' = stackArgs
      /\ stack' = stack /\ depth' = depth /\ bottom' = bottom
      /\ gpRegs' = gpRegs /\ fpRegs' = fpRegs
      /\ offset' = offset /\ top' = top /\ named' = named /\ va' = va /\ got' = got
  BY DEF vars, caller, machine, callee
<1>2. /\ (EvenLongDoubles' <=> EvenLongDoubles) /\ (PlainVariadic' <=> PlainVariadic)
      /\ N' = N /\ First' = First
  BY <1>1, PremisesKept DEF N, Kept
<1>3. \A j : Divided(j, G, F, S, R)' <=> Divided(j, G, F, S, R)
  BY <1>1 DEF Divided
<1>4. \A k : /\ EvenSum(k, S)' <=> EvenSum(k, S)
             /\ ScalarSum(k, G, F, S)' <=> ScalarSum(k, G, F, S)
  <2>1. \A m : Vectors(m)' = Vectors(m) /\ Others(m)' = Others(m)
    BY <1>1, <1>2 DEF Vectors, Others, TypeOf
  <2> QED BY <1>1, <2>1 DEF EvenSum, ScalarSum
<1>5. \A n : Division(n, G, F, S, R) => Division(n, G, F, S, R)'
  BY <1>1, <1>3, <1>4 DEF Division, Int01
<1>6. Counting(G, F, S, R) => Counting(G, F, S, R)'
  <2>1. PICK n : n = i - 1
    OBVIOUS
  <2> SUFFICES ASSUME Counting(G, F, S, R)
               PROVE  Counting(G, F, S, R)'
    OBVIOUS
  <2>2. Division(n, G, F, S, R)'
    BY <1>5, <2>1 DEF Counting
  <2>3. Division(i - 1, G, F, S, R)'
    BY <1>1, <2>1, <2>2 DEF Division
  <2> QED BY <1>1, <1>2, <2>3 DEF Counting
<1>7. Counted(G, F, S, R) => Counted(G, F, S, R)'
  BY <1>1, CountedKept DEF Counted, Kept
<1>8. \A c : Suffix(c, S, R) => Suffix(c, S, R)'
  BY <1>1, SuffixKept DEF Kept
<1>9. \A k : Loaded(k, G, F) => Loaded(k, G, F)'
  BY <1>1, LoadedKept DEF Kept
<1>10. /\ Suffix(R[N + 1] + S[i + 1], S, R) => Suffix(R[N + 1] + S[i + 1], S, R)'
       /\ Suffix(R[i + 1], S, R) => Suffix(R[i + 1], S, R)'
       /\ Suffix(R[i], S, R) => Suffix(R[i], S, R)'
       /\ Suffix(R[N + 1], S, R) => Suffix(R[N + 1], S, R)'
  <2>1. PICK c1, c2, c3, c4 : /\ c1 = R[N + 1] + S[i + 1] /\ c2 = R[i + 1]
                              /\ c3 = R[i] /\ c4 = R[N + 1]
    OBVIOUS
  <2>2. /\ c1 = R[N' + 1] + S[i' + 1] /\ c2 = R[i' + 1]
        /\ c3 = R[i'] /\ c4 = R[N' + 1]
    BY <1>1, <1>2, <2>1
  <2>3. Suffix(R[N + 1] + S[i + 1], S, R) => Suffix(R[N + 1] + S[i + 1], S, R)'
    BY ONLY <1>8, <2>1, <2>2, SuffixIs
  <2>4. Suffix(R[i + 1], S, R) => Suffix(R[i + 1], S, R)'
    BY ONLY <1>8, <2>1, <2>2, SuffixIs
  <2>5. Suffix(R[i], S, R) => Suffix(R[i], S, R)'
    BY ONLY <1>8, <2>1, <2>2, SuffixIs
  <2>6. Suffix(R[N + 1], S, R) => Suffix(R[N + 1], S, R)'
    BY ONLY <1>8, <2>1, <2>2, SuffixIs
  <2> QED BY <2>3, <2>4, <2>5, <2>6
<1>11. /\ Loaded(i, G, F) => Loaded(i, G, F)'
       /\ Loaded(N + 1, G, F) => Loaded(N + 1, G, F)'
  <2>1. PICK k1, k2 : k1 = i /\ k2 = N + 1
    OBVIOUS
  <2>2. k1 = i' /\ k2 = N' + 1
    BY <1>1, <1>2, <2>1
  <2> QED BY ONLY <1>9, <2>1, <2>2, LoadedIs
<1>12. \A j : Arrived(j)' <=> Arrived(j)
  BY <1>1 DEF Arrived, Words, TypeOf
<1>13. \A k : Offsets(k, S)' <=> Offsets(k, S)
  BY <1>1, <1>2 DEF Offsets, Offset
<1>14. (Before => Before') /\ (Popping(G, F, S, R) => Popping(G, F, S, R)')
  BY <1>1, <1>2, <1>10, <1>11 DEF Before, Popping
<1>15. Placing(G, F, S) => Placing(G, F, S)'
  <2>1. Offsets(i - 1, S) => Offsets(i - 1, S)'
    BY <1>1, <1>2 DEF Offsets, Offset
  <2> QED BY <1>1, <1>2, <2>1 DEF Placing
<1>16. Storing(G, F, S) => Storing(G, F, S)'
  <2>1. Offsets(named, S) => Offsets(named, S)'
    BY <1>1, <1>2 DEF Offsets, Offset
  <2> QED BY <1>1, <1>2, <1>12, <2>1 DEF Storing, VaList
<1>17. Done => Done'
  BY <1>1, <1>2, <1>12 DEF Done
<1> QED BY <1>1, <1>2, <1>6, <1>7, <1>10, <1>11, <1>14, <1>15, <1>16, <1>17 DEF Loops

\* Every loop hands the next what that one relies on.
LEMMA Step == IInv /\ [Next]_vars => IInv'
<1> SUFFICES ASSUME IInv, [Next]_vars
             PROVE  IInv'
  OBVIOUS
<1>1. args' = args /\ large' = large /\ start' = start
  <2>1. CASE vars' = vars
    BY <2>1 DEF vars
  <2>2. CASE CountArg \/ Pad \/ PushArg \/ Alloca \/ SecondPass \/ PassBuffer
    BY <2>2 DEF CountArg, Pad, PushArg, Alloca, SecondPass, PassBuffer
  <2>3. CASE PopArg \/ Call \/ PlaceParam \/ Placed
    BY <2>3 DEF PopArg, Call, PlaceParam, Placed
  <2>4. CASE StoreParam \/ FetchArg \/ Return \/ Returned
    BY <2>4 DEF StoreParam, FetchArg, Return, Returned, vars
  <2> QED BY <2>1, <2>2, <2>3, <2>4 DEF Next
<1>2. Given /\ Given' /\ (WideStructs' <=> WideStructs)
  BY <1>1, GivenKept DEF IInv
<1>4. named' \in Int
  <2>1. N \in Nat /\ named \in Int
    BY SizeType DEF IInv
  <2>2. CASE Call
    <3>1. named' \in 0..N
      BY <2>2 DEF Call, N
    <3> QED BY ONLY <2>1, <3>1
  <2>3. CASE named' = named
    BY <2>1, <2>3
  <2>4. CountArg \/ Pad \/ PushArg \/ Alloca \/ SecondPass \/ PassBuffer => named' = named
    BY DEF CountArg, Pad, PushArg, Alloca, SecondPass, PassBuffer, callee
  <2>5. PopArg \/ PlaceParam \/ Placed \/ StoreParam \/ FetchArg => named' = named
    BY DEF PopArg, PlaceParam, Placed, StoreParam, FetchArg, callee
  <2>6. Return \/ Returned \/ vars' = vars => named' = named
    BY DEF Return, Returned, vars, callee
  <2> QED BY <2>2, <2>3, <2>4, <2>5, <2>6 DEF Next
<1>3. ASSUME WideStructs
      PROVE  \E G, F, S, R : Loops(G, F, S, R)'
  <2>1. PICK G, F, S, R : Loops(G, F, S, R)
    BY <1>3 DEF IInv
  <2>2. CASE CountArg
    BY <1>2, <2>1, <2>2, CountArgKeeps
  <2>3. CASE Pad
    BY <1>2, <2>1, <2>3, PadKeeps
  <2>4. CASE PushArg
    BY <1>2, <2>1, <2>4, PushArgKeeps
  <2>5. CASE Alloca
    BY <1>2, <2>1, <2>5, AllocaKeeps
  <2>6. CASE SecondPass
    BY <1>2, <2>1, <2>6, SecondPassKeeps
  <2>7. CASE PassBuffer
    BY <1>2, <2>1, <2>7, PassBufferKeeps
  <2>8. CASE PopArg
    BY <1>2, <1>3, <2>1, <2>8, PopArgKeeps
  <2>9. CASE Call
    BY <1>2, <2>1, <2>9, CallKeeps
  <2>10. CASE PlaceParam
    BY <1>2, <2>1, <2>10, PlaceParamKeeps
  <2>11. CASE Placed
    BY <1>2, <2>1, <2>11, PlacedKeeps
  <2>12. CASE StoreParam
    BY <1>2, <1>3, <2>1, <2>12, StoreParamKeeps
  <2>13. CASE FetchArg
    BY <1>2, <1>3, <2>1, <2>13, FetchArgKeeps
  <2>14. CASE Return
    BY <1>2, <2>1, <2>14, ReturnKeeps
  <2>15. CASE vars' = vars \/ Returned
    <3>1. vars' = vars
      BY <2>15 DEF Returned
    <3> QED BY ONLY <2>1, <3>1, StutterKeeps
  <2> QED BY <2>2, <2>3, <2>4, <2>5, <2>6, <2>7, <2>8, <2>9, <2>10, <2>11, <2>12, <2>13, <2>14, <2>15
          DEF Next
<1> QED BY <1>2, <1>3, <1>4 DEF IInv

THEOREM Invariant == Spec => []IInv
<1>1. Init => IInv
  BY InitHolds
<1>2. IInv /\ [Next]_vars => IInv'
  BY Step
<1> QED BY <1>1, <1>2, PTL DEF Spec

\* Each named parameter holds its argument: count_args, the pop loop of FuncCall
\* and the prologue of the callee divide the arguments the same way, whatever
\* their number and types, given that no struct is of one word and that no long
\* double is on the stack behind an odd number of words.
THEOREM ArgumentsArrive == Spec => [](WideStructs /\ EvenLongDoubles => ArgsArrive)
<1>1. IInv => (WideStructs /\ EvenLongDoubles => ArgsArrive)
  BY DEF IInv, Loops, Done, ArgsArrive, Arrived
<1> QED BY <1>1, Invariant, PTL

\* Each unnamed argument is what a va_arg of the callee's body gets, as long as the
\* named ones are scalars in registers and the unnamed ones scalars or large
\* structs (PlainVariadic): Placed and FetchArg count on where the callers counted to.
THEOREM VariadicsArrive == Spec => []VariadicArrive
<1>1. IInv /\ PlainVariadic => WideStructs
  <2> SUFFICES ASSUME IInv, PlainVariadic, NEW j \in 1..N, args[j].kind = "struct"
               PROVE  args[j].words > 1
    BY DEF WideStructs
  <2>1. N \in Nat /\ named \in Int /\ First \in 0..1 /\ j # 0 /\ args[j].words \in Nat
    BY SizeType, ArgType DEF IInv, First
  <2>2. j \in First..named \/ j \in (named + 1)..N
    BY ONLY <2>1, j \in 1..N
  <2>3. j \notin First..named
    BY <2>1 DEF PlainVariadic, TypeOf
  <2>4. args[j].words > 2
    BY <2>2, <2>3 DEF PlainVariadic, N
  <2> QED BY ONLY <2>1, <2>4
<1>2. IInv => VariadicArrive
  BY <1>1 DEF IInv, Loops, Done, VariadicArrive, Arrived, N
<1> QED BY <1>2, Invariant, PTL

\* A call leaves depth and the stack as they were, and the blocks of alloca below
\* everything, the older ones lowest: what the padding, the two passes of pushes, the pops and the
\* add to %rsp come to.
THEOREM StackIsBalanced == Spec => [](WideStructs => Balanced)
<1>1. IInv => (WideStructs => Balanced)
  <2> SUFFICES ASSUME IInv, WideStructs, pc = "returned"
               PROVE  depth = Len(start) /\ stack = start \o [w \in 1..bottom |-> Block(bottom + 1 - w)]
    BY DEF Balanced
  <2>1. Done
    BY DEF IInv, Loops
  <2> QED BY ONLY <2>1 DEF Done
<1> QED BY <1>1, Invariant, PTL

\* The call instruction finds %rsp at a multiple of 16 bytes, with any number of
\* words pushed by enclosing expressions, arguments on the stack and blocks of
\* alloca.
THEOREM CallsAreAligned == Spec => [](WideStructs => Aligned)
<1>1. IInv => (WideStructs => Aligned)
  <2> SUFFICES ASSUME IInv, WideStructs, pc = "place"
               PROVE  depth % 2 = 0 /\ Len(stack) % 2 = 0
    BY DEF Aligned
  <2>1. PICK G, F, S, R : Counted(G, F, S, R) /\ Suffix(R[N + 1], S, R)
    BY DEF IInv, Loops
  <2>2. N \in Nat /\ N + 1 \in 0..(N + 1) /\ Division(N, G, F, S, R)
    BY <2>1, SizeType DEF IInv, Counted
  <2>3. R[N + 1] \in Nat
    BY <2>2, DivisionType DEF IInv
  <2>4. PICK r, s : r = R[N + 1] /\ s = Len(start)
    OBVIOUS
  <2>5. /\ stackArgs \in Nat /\ bottom \in Nat /\ (s + stackArgs) % 2 = 0 /\ bottom % 2 = 0
        /\ Len(stack) = r + stackArgs + s + bottom - r /\ depth = r + stackArgs + s - r
        /\ r \in Nat /\ s \in Nat
    BY <2>1, <2>3, <2>4 DEF Counted, Suffix, IInv, Given
  <2>6. depth = s + stackArgs /\ Len(stack) = (s + stackArgs) + bottom
    BY ONLY <2>5
  <2>7. PICK x : x = s + stackArgs
    OBVIOUS
  <2>8. x \in Nat /\ x % 2 = 0 /\ bottom \in Nat /\ bottom % 2 = 0
    BY ONLY <2>5, <2>7
  <2>9. (x + bottom) % 2 = 0
    BY ONLY <2>8
  <2> QED BY <2>6, <2>7, <2>8, <2>9
<1> QED BY <1>1, Invariant, PTL
=============================================================================
