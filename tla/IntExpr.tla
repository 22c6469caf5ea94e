------------------------------ MODULE IntExpr ------------------------------
(***************************************************************************)
(* Integer expressions: the types add_type gives them, the instructions    *)
(* gen_expr emits for them (src/src/codegen.rs), and what eval2 makes of   *)
(* them when they must be constant (src/src/parse.rs).                     *)
(*                                                                         *)
(* An expression is represented by what the three of them know of it:      *)
(*   ty    its type in the compiler;                                       *)
(*   rax   what its code leaves in %rax, None if it traps;                 *)
(*   val   the i64 of eval2, None if that fails;                           *)
(* and, for comparison, by what the C standard says of it:                 *)
(*   cty, cval  its type, and its value, None if undefined.                *)
(* An action is one way the parser has of making a larger expression.      *)
(***************************************************************************)
EXTENDS Integers

CONSTANTS
  Bits,   \* the width of an object of 1, 2, 4 and 8 bytes
  Values  \* Values[t]: the values of leaves of type t

\* 2^n, for every n that occurs.
Pow2[n \in 0..Bits[8]] == IF n = 0 THEN 1 ELSE 2 * Pow2[n - 1]

\* A shift takes its count from the low bits of the register: 32 divides 2^32.
ASSUME BitsAssumption ==
  /\ Bits \in [{1, 2, 4, 8} -> Nat \ {0, 1}]
  /\ Bits[1] < Bits[2] /\ Bits[2] < Bits[4] /\ Bits[4] < Bits[8]
  /\ Pow2[Bits[4]] % Bits[4] = 0

VARIABLE node  \* the expression

Types == {"bool", "char", "uchar", "short", "ushort", "int", "uint", "long", "ulong", "enum"}
IsUnsigned(t) == t \in {"uchar", "ushort", "uint", "ulong"}
Size(t) ==
  CASE t \in {"bool", "char", "uchar"} -> 1
    [] t \in {"short", "ushort"}       -> 2
    [] t \in {"int", "uint", "enum"}   -> 4
    [] t \in {"long", "ulong"}         -> 8

Wrap(n, size) == n % Pow2[Bits[size]]
Signed(n, size) ==
  LET u == Wrap(n, size) IN IF u < Pow2[Bits[size] - 1] THEN u ELSE u - Pow2[Bits[size]]

\* The low bits of n read as a t.
As(n, t) == IF IsUnsigned(t) THEN Wrap(n, Size(t)) ELSE Signed(n, Size(t))

\* Division as C and idiv do it, rounding toward zero.
Abs(n) == IF n < 0 THEN -n ELSE n
Quotient(a, b) == IF (a < 0) = (b < 0) THEN Abs(a) \div Abs(b) ELSE -(Abs(a) \div Abs(b))
Remainder(a, b) == a - b * Quotient(a, b)

Bit(n, i) == (n \div Pow2[i]) % 2
Bitwise(op, x, y) ==
  CASE op = "&" -> x /\ y
    [] op = "|" -> x \/ y
    [] op = "^" -> x # y

\* The low bits of the result, one more at a time.
LowBits(op, a, b) ==
  LET low[i \in 0..Bits[8]] ==
        IF i = 0 THEN 0
        ELSE low[i - 1] + IF Bitwise(op, Bit(a, i - 1) = 1, Bit(b, i - 1) = 1) THEN Pow2[i - 1] ELSE 0
  IN  low
OnBits(op, a, b) == LowBits(op, a, b)[Bits[8]]
Bool(b) == IF b THEN 1 ELSE 0

\* Results that may not be there.
None == <<>>
Some(n) == <<n>>

Bitwises    == {"&", "|", "^"}
Arith       == {"+", "-", "*", "/", "%"} \cup Bitwises
Shifts      == {"<<", ">>"}
Comparisons == {"==", "!=", "<", "<="}

(***************************************************************************)
(* Types: add_type.                                                        *)
(***************************************************************************)
\* Seeded fault: the sign of the left type alone is looked at.
CommonOfLeft(t1, t2) ==
  LET promoted(t) == IF Size(t) < 4 THEN "int" ELSE t
      p1 == promoted(t1)
      p2 == promoted(t2)
  IN  IF Size(p1) < Size(p2) THEN p2 ELSE p1

get_common_type(t1, t2) ==
  LET promoted(t) == IF Size(t) < 4 THEN "int" ELSE t
      p1 == promoted(t1)
      p2 == promoted(t2)
  IN  IF Size(p1) # Size(p2) THEN IF Size(p1) < Size(p2) THEN p2 ELSE p1
      ELSE IF IsUnsigned(p2) THEN p2 ELSE p1

(***************************************************************************)
(* Code: what the emitted instructions do to %rax.  Instructions on 32-bit *)
(* registers clear the upper half of the 64-bit ones.                      *)
(***************************************************************************)
load(n, t) == IF Size(t) < 4 THEN Wrap(As(n, t), 4) ELSE Wrap(Signed(n, Size(t)), 8)

\* cmp_zero and the flag it sets.
IsZero(rax, t) == Wrap(rax, IF Size(t) <= 4 THEN 4 ELSE 8) = 0

\* Seeded fault: no entry where the source is no larger.
CoversBySize(from, to) == Size(from) <= Size(to)

\* The cast table has no entry where every value of from is one of to.
Covers(from, to) ==
  \/ Size(from) = Size(to) /\ IsUnsigned(from) = IsUnsigned(to)
  \/ Size(from) < Size(to) /\ (IsUnsigned(from) \/ ~IsUnsigned(to))

\* get_type_id takes bool for an unsigned char and enum for a long.
TypeId(t) == CASE t = "bool" -> "uchar" [] t = "enum" -> "long" [] OTHER -> t

cast_type(from, to, rax) ==
  LET f == TypeId(from)
      t == TypeId(to)
  IN  CASE to = "bool" -> Bool(~IsZero(rax, from))
        [] to # "bool" /\ Size(t) < 4 -> IF Covers(f, t) THEN rax ELSE Wrap(As(rax, t), 4)
        [] to # "bool" /\ Size(t) = 4 -> rax
        [] to # "bool" /\ Size(t) = 8 ->
             IF Size(f) = 8 THEN rax
             ELSE IF f = "uint" THEN Wrap(rax, 4) ELSE Wrap(Signed(rax, 4), 8)

\* The instructions after the operands, both of type t, are in %rax and %rdi.
gen_binary(op, t, rax, rdi) ==
  LET size == IF t \in {"long", "ulong"} THEN 8 ELSE 4
      a  == Wrap(rax, size)
      d  == Wrap(rdi, size)
      sa == IF IsUnsigned(t) THEN a ELSE Signed(a, size)
      sd == IF IsUnsigned(t) THEN d ELSE Signed(d, size)
      count == rdi % Bits[size]
      traps == op \in {"/", "%"} /\ (d = 0 \/ (~IsUnsigned(t) /\ sa = -Pow2[Bits[size] - 1] /\ sd = -1))
      result ==
        CASE op = "+"  -> Wrap(a + d, size)
          [] op = "-"  -> Wrap(a - d, size)
          [] op = "*"  -> Wrap(a * d, size)
          [] op = "/"  -> Wrap(Quotient(sa, sd), size)
          [] op = "%"  -> Wrap(Remainder(sa, sd), size)
          [] op \in Bitwises -> OnBits(op, a, d)
          [] op = "<<" -> Wrap(a * Pow2[count], size)
          [] op = ">>" -> Wrap(sa \div Pow2[count], size)
          [] op = "==" -> Bool(a = d)
          [] op = "!=" -> Bool(a # d)
          [] op = "<"  -> Bool(sa < sd)
          [] op = "<=" -> Bool(sa <= sd)
  IN  IF traps THEN None ELSE Some(result)

(***************************************************************************)
(* Constants: eval2, on an i64.                                            *)
(***************************************************************************)
\* The bits of an i64 as a u64.
U64(n) == Wrap(n, 8)

I64(n) == Signed(n, 8)

\* Seeded fault: every cast is to a signed type.
EvalCastSigned(to, n) == Signed(n, Size(to))

eval_cast(to, n) == IF Size(to) = 8 THEN n ELSE As(n, to)

\* Of two operands of type t.  None is a panic: a division by zero, a
\* remainder or (in a debug build) a shift that overflows.
eval_binary(op, t, l, r) ==
  CASE op = "+"  -> Some(I64(l + r))
    [] op = "-"  -> Some(I64(l - r))
    [] op = "*"  -> Some(I64(l * r))
    [] op = "/"  -> IF r = 0 THEN None
                    ELSE Some(I64(IF IsUnsigned(t) THEN U64(l) \div U64(r) ELSE Quotient(l, r)))
    [] op = "%"  -> IF r = 0 \/ (~IsUnsigned(t) /\ r = -1 /\ l = -Pow2[Bits[8] - 1]) THEN None
                    ELSE Some(I64(IF IsUnsigned(t) THEN U64(l) % U64(r) ELSE Remainder(l, r)))
    [] op \in Bitwises -> Some(I64(OnBits(op, U64(l), U64(r))))
    [] op = "<<" -> IF r \in 0..(Bits[8] - 1) THEN Some(I64(l * Pow2[r])) ELSE None
    [] op = ">>" -> IF r \in 0..(Bits[8] - 1)
                    THEN Some(I64((IF t = "ulong" THEN U64(l) ELSE l) \div Pow2[r])) ELSE None
    [] op = "==" -> Some(Bool(l = r))
    [] op = "!=" -> Some(Bool(l # r))
    [] op = "<"  -> Some(Bool(IF IsUnsigned(t) THEN U64(l) < U64(r) ELSE l < r))
    [] op = "<=" -> Some(Bool(IF IsUnsigned(t) THEN U64(l) <= U64(r) ELSE l <= r))

(***************************************************************************)
(* What C says (6.3.1, 6.5).                                               *)
(***************************************************************************)
Promote(t) == IF Size(t) < 4 \/ t = "enum" THEN "int" ELSE t

Usual(t1, t2) ==
  LET p == {Promote(t1), Promote(t2)} IN
  CASE "ulong" \in p -> "ulong"
    [] "ulong" \notin p /\ "long" \in p -> "long"
    [] p \cap {"ulong", "long"} = {} /\ "uint" \in p -> "uint"
    [] p = {"int"} -> "int"

\* Conversion; to a signed type it wraps, as every implementation defines it.
Converted(n, t) == IF t = "bool" THEN Bool(n # 0) ELSE As(n, t)

\* A leaf's value is one of its type.
ASSUME ValuesAssumption ==
  \A t \in Types : \A n \in Values[t] : n \in Int /\ Converted(n, t) = n

\* A result of type t: undefined if a signed type cannot hold it.
Result(n, t) == IF IsUnsigned(t) \/ As(n, t) = n THEN Some(As(n, t)) ELSE None

Meaning(op, t, l, r) ==
  CASE op = "+" -> Result(l + r, t)
    [] op = "-" -> Result(l - r, t)
    [] op = "*" -> Result(l * r, t)
    [] op = "/" -> IF r = 0 THEN None ELSE Result(Quotient(l, r), t)
    [] op = "%" -> IF r = 0 \/ Result(Quotient(l, r), t) = None THEN None
                   ELSE Result(Remainder(l, r), t)
    [] op \in Bitwises -> Some(As(OnBits(op, U64(l), U64(r)), t))
    [] op = "<<" -> IF r \in 0..(Bits[Size(t)] - 1) /\ l >= 0 THEN Result(l * Pow2[r], t) ELSE None
    [] op = ">>" -> IF r \in 0..(Bits[Size(t)] - 1) THEN Some(l \div Pow2[r]) ELSE None
    [] op = "==" -> Some(Bool(l = r))
    [] op = "!=" -> Some(Bool(l # r))
    [] op = "<"  -> Some(Bool(l < r))
    [] op = "<=" -> Some(Bool(l <= r))

(***************************************************************************)
(* Expressions.                                                            *)
(***************************************************************************)
Var(t, n) == [ty |-> t, rax |-> Some(load(n, t)), val |-> None,
              cty |-> t, cval |-> Some(n)]
Num(t, n) == [ty |-> t, rax |-> Some(Wrap(n, 8)), val |-> Some(I64(n)),
              cty |-> t, cval |-> Some(n)]

Variables == UNION {{Var(t, n) : n \in Values[t]} : t \in Types}
Leaves ==
  Variables \cup
  (UNION {{Num(t, n) : n \in Values[t] \cap Nat} : t \in {"int", "uint", "long", "ulong"}})

\* What follows from a result, or from two, that may not be there.
Then(r, F(_)) == IF r = None THEN None ELSE F(r[1])
Map(F(_), r) == Then(r, LAMBDA n : Some(F(n)))
Map2(F(_, _), r, s) == IF r = None \/ s = None THEN None ELSE F(r[1], s[1])

\* What new_cast adds to the code and to the constant.
RaxAs(e, t) == Map(LAMBDA n : cast_type(e.ty, t, n), e.rax)
ValAs(e, t) == Map(LAMBDA n : eval_cast(t, n), e.val)
ValueAs(e, t) == Map(LAMBDA n : Converted(n, t), e.cval)

Cast(e, t) == [ty |-> t, rax |-> RaxAs(e, t), val |-> ValAs(e, t),
               cty |-> t, cval |-> ValueAs(e, t)]

Neg(e) ==
  LET t == get_common_type("int", e.ty)
      c == Promote(e.cty)
  IN  [ty |-> t, rax |-> Map(LAMBDA n : Wrap(-n, 8), RaxAs(e, t)),
       val |-> IF ValAs(e, t) = Some(-Pow2[Bits[8] - 1]) THEN None  \* overflow, in a debug build
               ELSE Map(LAMBDA n : -n, ValAs(e, t)),
       cty |-> c, cval |-> Then(e.cval, LAMBDA n : Result(-n, c))]

BitNot(e) ==
  LET c == Promote(e.cty) IN
  [ty |-> e.ty, rax |-> Map(LAMBDA n : Wrap(-n - 1, 8), e.rax), val |-> Map(LAMBDA n : -n - 1, e.val),
   cty |-> c, cval |-> Map(LAMBDA n : As(-n - 1, c), e.cval)]

Not(e) ==
  [ty |-> "int", rax |-> Map(LAMBDA n : Bool(IsZero(n, e.ty)), e.rax),
   val |-> Map(LAMBDA n : Bool(n = 0), e.val),
   cty |-> "int", cval |-> Map(LAMBDA n : Bool(n = 0), e.cval)]

Binary(op, l, r) ==
  LET t  == get_common_type(l.ty, r.ty)
      ct == IF op \in Shifts THEN Promote(l.cty) ELSE Usual(l.cty, r.cty)
      c2 == IF op \in Shifts THEN Promote(r.cty) ELSE ct
  IN  [ty |-> IF op \in Comparisons THEN "int" ELSE t,
       rax |-> Map2(LAMBDA a, d : gen_binary(op, t, a, d), RaxAs(l, t), RaxAs(r, t)),
       val |-> Map2(LAMBDA m, n : eval_binary(op, t, m, n), ValAs(l, t), ValAs(r, t)),
       cty |-> IF op \in Comparisons THEN "int" ELSE ct,
       cval |-> Map2(LAMBDA m, n : Meaning(op, ct, m, n), ValueAs(l, ct), ValueAs(r, c2))]

\* && and ||: stop is the truth of the left operand at which they stop.  The
\* code does; eval2 evaluates both operands.
Logical(stop, l, r) ==
  LET short(zero, other) == IF zero # stop THEN Some(Bool(stop)) ELSE other IN
  [ty |-> "int",
   rax |-> Then(l.rax, LAMBDA m : short(IsZero(m, l.ty), Map(LAMBDA n : Bool(~IsZero(n, r.ty)), r.rax))),
   val |-> Map2(LAMBDA m, n : short(m = 0, Some(Bool(n # 0))), l.val, r.val),
   cty |-> "int",
   cval |-> Then(l.cval, LAMBDA m : short(m = 0, Map(LAMBDA n : Bool(n # 0), r.cval)))]

Cond(c, a, b) ==
  LET t == get_common_type(a.ty, b.ty)
      u == Usual(a.cty, b.cty)
  IN  [ty |-> t,
       rax |-> Then(c.rax, LAMBDA m : IF IsZero(m, c.ty) THEN RaxAs(b, t) ELSE RaxAs(a, t)),
       val |-> Then(c.val, LAMBDA m : IF m = 0 THEN ValAs(b, t) ELSE ValAs(a, t)),
       cty |-> u,
       cval |-> Then(c.cval, LAMBDA m : IF m = 0 THEN ValueAs(b, u) ELSE ValueAs(a, u))]

Comma(l, r) ==
  [r EXCEPT !.rax = IF l.rax = None THEN None ELSE r.rax,
            !.cval = IF l.cval = None THEN None ELSE r.cval]

\* The value of an assignment to an object of type t is what its conversion
\* left in the register, and not read from the object.
Assign(t, e) == [Cast(e, t) EXCEPT !.val = None]

\* The bytes that store takes from the register.
store(n, t) == Wrap(n, Size(t))

\* The object that was assigned e.
Assigned(t, e) == [Assign(t, e) EXCEPT !.rax = Map(LAMBDA n : load(store(n, t), t), RaxAs(e, t))]

\* The parser takes the address of x into a temporary, so that x op= e looks
\* up x once; what is computed is x = x op e.
to_assign(op, x, e) == Assign(x.ty, Binary(op, x, e))

\* x++ and x--: what was added to x is subtracted from the value of the
\* assignment, and the value that x had is to come out.
IncDec(x, addend) ==
  LET sum  == to_assign("+", x, Num("int", addend))
      back == Cast(Binary("+", sum, Num("int", -addend)), x.ty)
  IN  [back EXCEPT !.cval = IF sum.cval = None THEN None ELSE x.cval]

\* sizeof looks at the type alone.
Sizeof(e) == [Num("ulong", Size(e.ty)) EXCEPT !.cval = Some(Size(e.cty))]

(***************************************************************************)
(* The forms that the compiler gets wrong, which are not plain.            *)
(***************************************************************************)
\* The i64 of a constant unsigned int may have bits above its 32: nothing
\* truncates the results of eval2 but a cast to 32 bits or less.
Exact(e) == e.val # None /\ e.cval # None => e.val[1] = I64(e.cval[1])

\* So a constant conversion to 64 bits or test for zero may see them, and a
\* conversion to bool is not a test for zero.  An enum is taken for a 64-bit
\* value, which holds of one that was loaded or converted from an int.
PlainCast(e, t) ==
  /\ Size(t) = 8 => Exact(e)
  /\ t = "bool" => e.val \in {None, Some(0), Some(1)}
  /\ t = "enum" => e.ty \notin {"uint", "long", "ulong"}

\* Arithmetic on an enum stays an enum but is done on 32 bits; a shift is done
\* in the common type of both operands.
PlainBinary(op, l, r) ==
  LET t == get_common_type(l.ty, r.ty) IN
  /\ PlainCast(l, t) /\ PlainCast(r, t)
  /\ op \in Arith \cup Shifts => t # "enum"
  /\ op \in Shifts => t = Promote(l.ty)

PlainCond(c, a, b) ==
  LET t == get_common_type(a.ty, b.ty) IN Exact(c) /\ PlainCast(a, t) /\ PlainCast(b, t)

\* A _Bool does not get its old value back by arithmetic.
PlainIncDec(x, addend) == x.ty # "bool" /\ PlainBinary("+", x, Num("int", addend))

\* ~ does not promote its operand.
PlainNot(e) == Size(e.ty) >= 4

(***************************************************************************)
(* The parser.                                                             *)
(***************************************************************************)
Operands == Leaves \cup {Binary("/", Num("int", 1), Num("int", 0))}

Init == node \in Leaves

\* Nothing is said of an expression that has no meaning, or is not plain.
Extend(e, isPlain) == isPlain /\ e.cval # None /\ node' = e

NewCast == \E t \in Types : Extend(Cast(node, t), PlainCast(node, t))
NewNeg == Extend(Neg(node), PlainCast(node, get_common_type("int", node.ty)))
NewBitNot == Extend(BitNot(node), PlainNot(node))
NewNot == Extend(Not(node), Exact(node))
NewBinary ==
  \E e \in Operands, op \in Arith \cup Shifts \cup Comparisons :
    \/ Extend(Binary(op, node, e), PlainBinary(op, node, e))
    \/ Extend(Binary(op, e, node), PlainBinary(op, e, node))
NewLogical ==
  \E e \in Operands, stop \in BOOLEAN :
    \/ Extend(Logical(stop, node, e), Exact(node) /\ Exact(e))
    \/ Extend(Logical(stop, e, node), Exact(node) /\ Exact(e))

\* Of the three operands two are the same, which gives all pairs of types.
NewCond ==
  \E e \in Operands :
    \/ Extend(Cond(node, node, e), PlainCond(node, node, e))
    \/ Extend(Cond(node, e, node), PlainCond(node, e, node))
    \/ Extend(Cond(e, node, e), PlainCond(e, node, e))
    \/ Extend(Cond(e, e, node), PlainCond(e, e, node))
NewComma == \E e \in Operands : Extend(Comma(node, e), TRUE) \/ Extend(Comma(e, node), TRUE)
NewSizeof == Extend(Sizeof(node), TRUE)

\* The value of an assignment, or of the object later.
NewAssign ==
  \E t \in Types :
    \/ Extend(Assign(t, node), PlainCast(node, t))
    \/ Extend(Assigned(t, node), PlainCast(node, t))

\* ++x and --x are x += 1 and x -= 1.
NewOpAssign ==
  \E x \in Variables, op \in Arith \cup Shifts :
    Extend(to_assign(op, x, node),
           PlainBinary(op, x, node) /\ PlainCast(Binary(op, x, node), x.ty))
NewIncDec ==
  /\ node \in Variables
  /\ \E addend \in {1, -1} : Extend(IncDec(node, addend), PlainIncDec(node, addend))

Next ==
  \/ NewCast \/ NewNeg \/ NewBitNot \/ NewNot \/ NewBinary \/ NewLogical \/ NewCond \/ NewComma
  \/ NewSizeof \/ NewAssign \/ NewOpAssign \/ NewIncDec

Spec == Init /\ [][Next]_node
-----------------------------------------------------------------------------
(***************************************************************************)
(* Properties.                                                             *)
(***************************************************************************)

\* The code computes what C says, for every expression that has a meaning: the
\* register, read as the promoted type, holds the value.  Values of narrow types
\* are kept extended to 32 bits with nothing assumed of the upper half, so every
\* later conversion must know what the register may hold.
Holds(e) == e.cval # None => e.rax # None /\ As(e.rax[1], Promote(e.cty)) = e.cval[1]
CodeIsC == Holds(node)

\* Promotions and usual conversions are those of C, which decides what sizeof,
\* later conversions and the sign of later divisions are.
TypesAreC == Promote(node.ty) = Promote(node.cty)

\* src/README.md:166, "Handle unsigned types in the constant expression": what
\* eval2 makes of an expression is, at the width of its type, what C says and
\* so what the code for it would have computed.
ConstantIsC ==
  node.val # None => As(node.val[1], Promote(node.cty)) = node.cval[1]
=============================================================================
