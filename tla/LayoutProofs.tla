---------------------------- MODULE LayoutProofs ----------------------------
(***************************************************************************)
(* Theorems about Layout, for every set of member declarators and values   *)
(* that satisfies the assumptions, and any number of members: where        *)
(* members are, that the ABI has them there, and what they hold.           *)
(***************************************************************************)
EXTENDS Layout, FiniteSetTheorems, WellFoundedInduction, TLAPS

(***************************************************************************)
(* Rounding.                                                               *)
(***************************************************************************)
Powers == {1, 2, 4, 8, 16}

LEMMA AlignTo ==
  ASSUME NEW n \in Nat, NEW a \in Powers
  PROVE  /\ align_to(n, 8 * a) \in Nat
         /\ align_to(n, 8 * a) >= n
         /\ align_to(n, 8 * a) % (8 * a) = 0
         /\ align_to(n, 8 * a) % 8 = 0
         /\ align_to(n, a) \in Nat
         /\ align_to(n, a) >= n
         /\ align_to(n, a) % a = 0
<1>1. CASE a = 1
  BY <1>1 DEF align_to
<1>2. CASE a = 2
  BY <1>2 DEF align_to
<1>3. CASE a = 4
  BY <1>3 DEF align_to
<1>4. CASE a = 8
  BY <1>4 DEF align_to
<1>5. CASE a = 16
  BY <1>5 DEF align_to
<1> QED
  BY <1>1, <1>2, <1>3, <1>4, <1>5 DEF Powers

(***************************************************************************)
(* Where a member of a struct goes when e bits are used, and what is used  *)
(* then.                                                                   *)
(***************************************************************************)
From(m, e) ==
  IF e \div TypeBits(m) # (e + m.width - 1) \div TypeBits(m)
  THEN align_to(e, TypeBits(m)) ELSE e

Zero == [offset |-> 0, bit_offset |-> 0]

At(k, m, e) ==
  IF k = "union" \/ m.width = 0 THEN Zero
  ELSE IF IsBitfield(m)
       THEN [offset |-> align_down(From(m, e) \div 8, m.size), bit_offset |-> From(m, e) % TypeBits(m)]
       ELSE [offset |-> align_to(e, 8 * m.align) \div 8, bit_offset |-> 0]

After(k, m, e) ==
  IF k = "union" THEN IF e < m.size THEN m.size ELSE e
  ELSE IF m.width = 0 THEN align_to(e, TypeBits(m))
  ELSE IF IsBitfield(m) THEN From(m, e) + m.width
  ELSE align_to(e, 8 * m.align) + TypeBits(m)

\* What the parser has made sure of.
LEMMA DeclaratorFacts ==
  ASSUME NEW d \in Declarators
  PROVE  /\ d.size \in Nat /\ d.align \in Powers /\ d.unsigned \in BOOLEAN
         /\ d.width \in {NoWidth} \cup 0..31 /\ d.named \in BOOLEAN
         /\ IsBitfield(d) => /\ d.size \in {1, 2, 4, 8} /\ d.size <= d.align
                             /\ d.width \in 0..31 /\ d.width <= 8 * d.size
         /\ ~IsBitfield(d) => d.width = -1
         /\ d.width = 0 => ~d.named
         /\ Width(d) \in Nat
BY DeclaratorsAssumption DEF Powers, IsBitfield, NoWidth, Width, TypeBits

LEMMA BitfieldFacts ==
  ASSUME NEW d \in Declarators, IsBitfield(d), d.width # 0
  PROVE  /\ d.width \in 1..31 /\ d.width > 0 /\ d.width \in Nat
         /\ d.size \in {1, 2, 4, 8} /\ d.size \in Nat /\ d.size <= d.align
<1>1. d.width \in 0..31 /\ d.size \in {1, 2, 4, 8} /\ d.size <= d.align
  BY DeclaratorFacts
<1> QED
  BY <1>1

\* A bit-field starts at or behind e and lies in one unit of its type.
LEMMA BitfieldAt ==
  ASSUME NEW d \in Declarators, NEW e \in Nat, d.width > 0, NEW p, p = At("struct", d, e)
  PROVE  /\ p = [offset |-> p.offset, bit_offset |-> p.bit_offset]
         /\ p.offset \in Nat /\ p.bit_offset \in 0..(8 * d.size - 1)
         /\ 8 * p.offset + p.bit_offset = From(d, e)
         /\ From(d, e) \in Nat /\ From(d, e) >= e
         /\ p.bit_offset + d.width <= 8 * d.size
         /\ p.offset % d.size = 0
<1> DEFINE s == d.size
           w == d.width
           f == From(d, e)
           Claim == /\ p = [offset |-> p.offset, bit_offset |-> p.bit_offset]
                    /\ p.offset \in Nat /\ p.bit_offset \in 0..(8 * s - 1)
                    /\ 8 * p.offset + p.bit_offset = f
                    /\ f \in Nat /\ f >= e
                    /\ p.bit_offset + w <= 8 * s
                    /\ p.offset % s = 0
<1>1. s \in {1, 2, 4, 8} /\ w \in 1..31 /\ w <= 8 * s /\ IsBitfield(d)
  BY DeclaratorFacts DEF IsBitfield, NoWidth
<1>2. p = [offset |-> align_down(f \div 8, s), bit_offset |-> f % (8 * s)]
  BY <1>1 DEF At, TypeBits
<1>3. f = IF e \div (8 * s) # (e + w - 1) \div (8 * s) THEN align_to(e, 8 * s) ELSE e
  BY DEF From, TypeBits
<1> HIDE DEF s, w, f
<1>4. Claim
  <2>1. CASE s = 1
    BY <1>1, <1>2, <1>3, <2>1 DEF align_to, align_down
  <2>2. CASE s = 2
    BY <1>1, <1>2, <1>3, <2>2 DEF align_to, align_down
  <2>3. CASE s = 4
    BY <1>1, <1>2, <1>3, <2>3 DEF align_to, align_down
  <2>4. CASE s = 8
    BY <1>1, <1>2, <1>3, <2>4 DEF align_to, align_down
  <2> HIDE DEF Claim
  <2> QED
    BY <1>1, <2>1, <2>2, <2>3, <2>4
<1> QED
  BY <1>4 DEF s, w, f

\* Any other member starts at or behind e, on a byte.
LEMMA MemberAt ==
  ASSUME NEW d \in Declarators, NEW e \in Nat, ~IsBitfield(d), NEW p, p = At("struct", d, e)
  PROVE  /\ p = [offset |-> p.offset, bit_offset |-> 0]
         /\ p.offset \in Nat /\ p.bit_offset = 0
         /\ 8 * p.offset = align_to(e, 8 * d.align)
         /\ 8 * p.offset >= e
<1>1. d.align \in Powers /\ d.width # 0
  BY DeclaratorFacts
<1>2. p = [offset |-> align_to(e, 8 * d.align) \div 8, bit_offset |-> 0]
  BY <1>1 DEF At
<1> DEFINE n == align_to(e, 8 * d.align)
<1>3. n \in Nat /\ n >= e /\ n % 8 = 0
  BY <1>1, AlignTo
<1> HIDE DEF n
<1>4. p.offset = n \div 8 /\ p.bit_offset = 0
  BY <1>2 DEF n
<1> QED
  BY <1>2, <1>3, <1>4 DEF n

LEMMA PlaceType ==
  ASSUME NEW k \in {"struct", "union"}, NEW d \in Declarators, NEW e \in Nat
  PROVE  /\ At(k, d, e) \in [offset : Nat, bit_offset : Word]
         /\ After(k, d, e) \in Nat /\ After(k, d, e) >= e
<1>1. CASE k = "union"
  BY <1>1, DeclaratorFacts DEF At, After, Zero, Word
<1>2. CASE k = "struct" /\ d.width = 0
  <2>1. d.size \in Powers
    BY <1>2, DeclaratorFacts DEF IsBitfield, NoWidth, Powers
  <2> QED
    BY <1>2, <2>1, AlignTo DEF At, After, Zero, Word, TypeBits
<1>3. CASE k = "struct" /\ IsBitfield(d) /\ d.width # 0
  <2>1. d.width > 0 /\ d.size \in {1, 2, 4, 8} /\ d.width \in 1..31
    BY <1>3, DeclaratorFacts
  <2>2. /\ After(k, d, e) = From(d, e) + d.width
    BY <1>3 DEF After
  <2> QED
    BY <1>3, <2>1, <2>2, BitfieldAt DEF Word
<1>4. CASE k = "struct" /\ ~IsBitfield(d)
  <2>1. d.width # 0 /\ d.size \in Nat /\ d.align \in Powers
    BY <1>4, DeclaratorFacts
  <2>2. After(k, d, e) = align_to(e, 8 * d.align) + 8 * d.size
    BY <1>4, <2>1 DEF After, TypeBits
  <2> QED
    BY <1>4, <2>1, <2>2, MemberAt, AlignTo DEF Word
<1> QED
  BY <1>1, <1>2, <1>3, <1>4

(***************************************************************************)
(* The inductive invariant: E[i] is what is used after the i-th member.    *)
(* A second run of the loop computes the same E.                           *)
(***************************************************************************)
Phases ==
  /\ phase = "parse" => before = <<>> /\ pos = 1
  /\ phase \in {"init", "ready"} => before # <<>>
  /\ phase = "ready" => pos = 1

\* The members whose place is known.
Done == IF phase = "parse" THEN 0 ELSE IF before = <<>> THEN pos - 1 ELSE Len(members)

Chain(E) ==
  /\ E \in [0..Len(members) -> Nat] /\ E[0] = 0
  /\ \A i \in 1..Done : /\ E[i] = After(kind, members[i], E[i - 1])
                        /\ place[i] = At(kind, members[i], E[i - 1])
  /\ \A i \in (Done + 1)..Len(members) : place[i] = Zero
  /\ \A i, j \in 0..Done : i <= j => E[i] <= E[j]
  /\ phase = "place" => bits = E[pos - 1]

\* a is the largest alignment of the first n members.
Covers(a, n) ==
  /\ a \in Powers
  /\ \A i \in 1..n : members[i].align <= a
  /\ a = 1 \/ \E i \in 1..n : members[i].align = a

SizeOf(k, e, a) == IF k = "struct" THEN align_to(e, 8 * a) \div 8 ELSE align_to(e, a)

Kept(E) ==
  before # <<>> => /\ Covers(before[2], Len(members))
                   /\ before = <<place, before[2], SizeOf(kind, E[Len(members)], before[2])>>

Aligned ==
  /\ phase = "place" /\ (before = <<>> \/ kind = "union") => Covers(align, pos - 1)
  /\ phase = "place" /\ before # <<>> /\ kind = "struct" => align = before[2]
  /\ phase \in {"init", "ready"} => before = <<place, align, size>>

LInv == TypeOK /\ Phases /\ Aligned /\ \E E : Chain(E) /\ Kept(E)

Turns == ZeroWidth \/ Bitfield \/ Member \/ UnionMember

LEMMA MemberFacts ==
  ASSUME TypeOK
  PROVE  /\ Len(members) \in Nat /\ DOMAIN members = 1..Len(members) /\ DOMAIN place = DOMAIN members
         /\ \A i \in DOMAIN members : /\ members[i] \in Declarators
                                      /\ place[i] \in [offset : Nat, bit_offset : Word]
                                      /\ place[i].offset \in Nat /\ place[i].bit_offset \in Int
<1>1. Len(members) \in Nat /\ DOMAIN members = 1..Len(members) /\ DOMAIN place = DOMAIN members
  BY DEF TypeOK
<1> DEFINE R == [offset : Nat, bit_offset : Word]
<1>2. place \in Seq(R) /\ members \in Seq(Declarators)
  BY DEF TypeOK
<1> HIDE DEF R
<1>3. \A i \in DOMAIN members : members[i] \in Declarators /\ place[i] \in R
  BY <1>1, <1>2
<1>4. \A q \in R : q.offset \in Nat /\ q.bit_offset \in Word
  BY DEF R
<1>5. \A n \in Word : n \in Int
  BY DEF Word
<1> QED
  BY <1>1, <1>3, <1>4, <1>5 DEF R

\* A turn of either loop, whichever branch it takes, moves to After and At.
LEMMA TurnIs ==
  ASSUME TypeOK, Turns, place[pos] \in {Zero, At(kind, members[pos], bits)}
  PROVE  /\ phase = "place" /\ pos \in 1..Len(members)
         /\ bits' = After(kind, members[pos], bits)
         /\ place' = [place EXCEPT ![pos] = At(kind, members[pos], bits)]
         /\ NextMember
<1>1. /\ phase = "place" /\ pos \in 1..Len(members) /\ NextMember /\ kind \in {"struct", "union"}
      /\ members[pos] \in Declarators /\ bits \in Nat
      /\ place = [i \in 1..Len(members) |-> place[i]]
  BY MemberFacts DEF Turns, ZeroWidth, Bitfield, Member, UnionMember, Turn, TypeOK
<1> DEFINE d == members[pos]
           q == At(kind, d, bits)
<1>2. CASE ZeroWidth \/ UnionMember
  <2>1. q = Zero
    BY <1>2 DEF ZeroWidth, UnionMember, Turn, At
  <2>2. place' = place /\ place[pos] = Zero
    BY <1>2, <2>1 DEF ZeroWidth, UnionMember
  <2>3. place' = [place EXCEPT ![pos] = q]
    BY <1>1, <2>1, <2>2
  <2>4. bits' = After(kind, d, bits)
    BY <1>1, <1>2 DEF ZeroWidth, UnionMember, Turn, After
  <2> QED
    BY <1>1, <2>3, <2>4
<1>3. CASE Bitfield
  <2>1. kind = "struct" /\ d.width > 0 /\ d.width # 0 /\ IsBitfield(d)
    BY <1>1, <1>3, DeclaratorFacts DEF Bitfield, Turn
  <2>2. StartOf(d) = From(d, bits)
    BY DEF StartOf, From
  <2> QED
    BY <1>1, <1>3, <2>1, <2>2 DEF Bitfield, At, After
<1>4. CASE Member
  <2>1. kind = "struct" /\ ~IsBitfield(d) /\ d.width # 0
    BY <1>1, <1>4, DeclaratorFacts DEF Member, Turn
  <2>2. place[pos].bit_offset = 0 /\ place[pos] = [offset |-> place[pos].offset, bit_offset |-> 0]
    BY <1>1, <2>1, MemberAt DEF Zero
  <2>3. q = [offset |-> align_to(bits, 8 * d.align) \div 8, bit_offset |-> 0]
    BY <2>1 DEF At
  <2>4. [place[pos] EXCEPT !.offset = align_to(bits, 8 * d.align) \div 8] = q
    BY <2>2, <2>3
  <2>5. place' = [place EXCEPT ![pos] = q]
    BY <1>1, <1>4, <2>4 DEF Member
  <2>6. bits' = After(kind, d, bits)
    BY <1>4, <2>1 DEF Member, After
  <2> QED
    BY <1>1, <2>5, <2>6
<1> QED
  BY <1>2, <1>3, <1>4 DEF Turns

LEMMA SizeType ==
  ASSUME NEW k, NEW e \in Nat, NEW a \in Powers
  PROVE  /\ SizeOf(k, e, a) \in Nat
         /\ k = "struct" => 8 * SizeOf(k, e, a) = align_to(e, 8 * a)
         /\ k # "struct" => SizeOf(k, e, a) = align_to(e, a)
<1> DEFINE n == align_to(e, 8 * a)
           l == align_to(e, a)
<1>1. n \in Nat /\ n % 8 = 0 /\ l \in Nat
  BY AlignTo
<1>2. SizeOf(k, e, a) = IF k = "struct" THEN n \div 8 ELSE l
  BY DEF SizeOf
<1> HIDE DEF n, l
<1>3. n \div 8 \in Nat /\ 8 * (n \div 8) = n
  BY <1>1
<1> QED
  BY <1>1, <1>2, <1>3 DEF n, l

\* A store changes bits of one unit.
LEMMA WriteType ==
  ASSUME TypeOK, NEW i \in DOMAIN members, NEW r \in SUBSET Int
  PROVE  write_buf(i, r) \subseteq Nat
<1>1. place[i].offset \in Nat /\ members[i].size \in Nat
  BY MemberFacts, DeclaratorFacts
<1> DEFINE at == 8 * place[i].offset
           n == TypeBits(members[i])
<1>2. at \in Nat /\ n \in Nat
  BY <1>1 DEF TypeBits
<1>3. write_buf(i, r) = (mem \ at..(at + n - 1)) \cup {at + b : b \in r \cap 0..(n - 1)}
  BY DEF write_buf
<1> HIDE DEF at, n
<1>4. mem \subseteq Nat
  BY DEF TypeOK
<1>5. \A b \in r \cap 0..(n - 1) : at + b \in Nat
  BY <1>2
<1> QED
  BY <1>3, <1>4, <1>5

LEMMA RegisterType ==
  ASSUME NEW r \in SUBSET Int, NEW n \in Int
  PROVE  shl(r, n) \subseteq Word /\ Word \subseteq Int
BY DEF shl, Word

LEMMA LoadType ==
  ASSUME TypeOK, NEW i \in DOMAIN members
  PROVE  load(i) \subseteq Int /\ read_buf(i) \subseteq Int
<1>1. place[i].offset \in Nat /\ members[i] \in Declarators /\ mem \subseteq Nat
  BY MemberFacts DEF TypeOK
<1>2. members[i].size \in Nat
  BY <1>1, DeclaratorFacts
<1> QED
  BY <1>1, <1>2 DEF load, read_buf, TypeBits

LEMMA AssignedType ==
  ASSUME TypeOK, NEW i \in DOMAIN members, NEW v \in SUBSET Word
  PROVE  Assigned(i, v) \subseteq Nat
<1>1. members[i] \in Declarators /\ place[i].bit_offset \in Int
  BY MemberFacts
<1>2. mask(members[i].width) \subseteq Int /\ v \subseteq Int
  BY <1>1 DEF mask, Word
<1>3. shl(v \cap mask(members[i].width), place[i].bit_offset) \subseteq Int
  BY <1>1, <1>2, RegisterType
<1>4. load(i) \subseteq Int
  BY LoadType
<1> QED
  BY <1>2, <1>3, <1>4, WriteType DEF Assigned

\* Objects, when the type is laid out for the first time.
LEMMA DefinedType ==
  ASSUME TypeOK, NEW g \in Initializers
  PROVE  Defined(g) \in [DOMAIN members -> (SUBSET Nat) \cup {None}]
<1>1. \A i \in DOMAIN members : \A v \in SUBSET Word : Low(i, v) \in SUBSET Nat
  BY DEF Low, Word
<1>2. g \in [DOMAIN members -> Values \cup {None}] /\ Values \subseteq SUBSET Word
  BY ValuesAssumption DEF Initializers, Word
<1>3. \A i \in DOMAIN members : g[i] # None => Low(i, g[i]) \in SUBSET Nat
  BY <1>1, <1>2
<1> QED
  BY <1>3 DEF Defined

LEMMA TypeStep ==
  ASSUME TypeOK, Phases, [Next]_vars,
         Turns => place[pos] \in {Zero, At(kind, members[pos], bits)}
  PROVE  TypeOK'
<1>0. Len(members) \in Nat /\ DOMAIN members = 1..Len(members) /\ DOMAIN place = DOMAIN members
  BY MemberFacts
<1>1. CASE UNCHANGED vars
  BY <1>1 DEF vars, layout, object, TypeOK
<1>2. CASE struct_members
  <2>1. PICK d \in Declarators : members' = Append(members, d)
    BY <1>2 DEF struct_members
  <2>2. place' = Append(place, Zero) /\ Zero \in [offset : Nat, bit_offset : Word]
    BY <1>2 DEF struct_members, Zero, Word
  <2>3. phase' = "parse" /\ before' = <<>>
    BY <1>2 DEF struct_members, Phases, object
  <2> QED
    BY <1>0, <1>2, <2>1, <2>2, <2>3 DEF struct_members, TypeOK, object, Phases
<1>3. CASE struct_union_decl
  BY <1>0, <1>3 DEF struct_union_decl, TypeOK, object, Phases
<1>4. CASE Turns
  <2>1. /\ phase = "place" /\ pos \in 1..Len(members) /\ NextMember
        /\ bits' = After(kind, members[pos], bits)
        /\ place' = [place EXCEPT ![pos] = At(kind, members[pos], bits)]
    BY <1>4, TurnIs
  <2>2. members[pos] \in Declarators /\ members[pos].align \in Powers
    BY <1>0, <2>1, MemberFacts, DeclaratorFacts
  <2>3. bits' \in Nat /\ At(kind, members[pos], bits) \in [offset : Nat, bit_offset : Word]
    BY <2>1, <2>2, PlaceType DEF TypeOK
  <2> QED
    BY <1>0, <2>1, <2>2, <2>3 DEF NextMember, TypeOK, object, Powers
<1>5. CASE Laid
  <2>1. Size = SizeOf(kind, bits, align) /\ Size \in Nat
    BY SizeType DEF TypeOK, Size, SizeOf, Powers
  <2>2. UNCHANGED <<kind, members, place, bits, align, storage, mem>> /\ size' \in Nat /\ pos' = 1
    BY <1>5, <2>1 DEF Laid, object
  <2>3. CASE before # <<>>
    <3>1. phase' = "ready" /\ before' = before /\ value' = value
      BY <1>5, <2>3 DEF Laid, object
    <3> QED
      BY <1>0, <2>2, <2>3, <3>1 DEF TypeOK
  <2>4. CASE before = <<>>
    <3>1. phase' = "init" /\ inits' \in Initializers /\ value' = Defined(inits')
      BY <1>5, <2>4 DEF Laid
    <3>2. inits' \in [DOMAIN members -> Values \cup {None}]
      BY <3>1 DEF Initializers
    <3>3. value' \in [DOMAIN members -> (SUBSET Nat) \cup {None}]
      BY <3>1, DefinedType
    <3>4. phase' \in {"parse", "place", "init", "ready"}
      BY <3>1
    <3> QED
      BY <1>0, <2>2, <3>2, <3>3, <3>4 DEF TypeOK
  <2> QED
    BY <2>3, <2>4
<1>6. CASE Again
  BY <1>6 DEF Again, TypeOK, object
<1>7. CASE StaticBitfield \/ StaticMember \/ LocalMember
  <2>1. InitTurn /\ NextInit /\ pos \in DOMAIN members
    BY <1>7 DEF StaticBitfield, StaticMember, LocalMember, InitTurn
  <2>2. Given => inits[pos] \in SUBSET Word /\ inits[pos] \in SUBSET Int
    <3>1. inits[pos] \in Values \cup {None}
      BY <2>1 DEF InitTurn, TypeOK
    <3>2. Given => inits[pos] \in Values
      BY <3>1 DEF Given
    <3>3. Values \subseteq SUBSET Word /\ SUBSET Word \subseteq SUBSET Int
      BY ValuesAssumption DEF Word
    <3> QED
      BY <3>2, <3>3
  <2>3. mem' \subseteq Nat
    <3>1. CASE StaticBitfield
      <4>1. shl(inits[pos] \cap mask(members[pos].width), place[pos].bit_offset) \subseteq Int
        <5>1. inits[pos] \cap mask(members[pos].width) \in SUBSET Int /\ place[pos].bit_offset \in Int
          BY <2>1, <2>2, <3>1, MemberFacts DEF StaticBitfield
        <5> QED
          BY <5>1, RegisterType
      <4>2. read_buf(pos) \subseteq Int
        BY <2>1, LoadType
      <4> QED
        BY <2>1, <3>1, <4>1, <4>2, WriteType DEF StaticBitfield
    <3>2. CASE StaticMember
      BY <2>1, <2>2, <3>2, WriteType DEF StaticMember, TypeOK
    <3>3. CASE LocalMember
      BY <2>1, <2>2, <3>3, AssignedType DEF LocalMember, TypeOK
    <3> QED
      BY <1>7, <3>1, <3>2, <3>3
  <2> QED
    BY <2>1, <2>3 DEF NextInit, InitTurn, layout, TypeOK
<1>8. CASE StaticBreak \/ Initialized
  <2>1. EndInit
    BY <1>8 DEF StaticBreak, Initialized
  <2> QED
    BY <2>1 DEF EndInit, layout, TypeOK
<1>9. CASE Assign
  <2>1. PICK i \in DOMAIN members, v \in Values :
          /\ mem' = Assigned(i, v)
          /\ value' = IF kind = "struct" THEN [value EXCEPT ![i] = Low(i, v)]
                      ELSE [j \in DOMAIN members |-> IF j = i THEN Low(i, v) ELSE None]
    BY <1>9 DEF Assign
  <2>2. v \in SUBSET Word /\ Low(i, v) \in SUBSET Nat
    BY ValuesAssumption DEF Low, Word
  <2>3. mem' \subseteq Nat
    BY <2>1, <2>2, AssignedType
  <2>4. value' \in [DOMAIN members -> (SUBSET Nat) \cup {None}]
    BY <1>9, <2>1, <2>2 DEF Assign, TypeOK, Phases
  <2> QED
    BY <1>9, <2>3, <2>4 DEF Assign, layout, TypeOK
<1> QED
  BY <1>1, <1>2, <1>3, <1>4, <1>5, <1>6, <1>7, <1>8, <1>9 DEF Next, Turns

LEMMA LayoutInit == Init => LInv
<1> SUFFICES ASSUME Init PROVE LInv
  OBVIOUS
<1> DEFINE E == [i \in 0..0 |-> 0]
<1>1. TypeOK /\ Phases /\ Aligned
  BY DEF Init, TypeOK, Phases, Aligned, Word
<1>2. Chain(E) /\ Kept(E)
  BY DEF Init, Chain, Kept, Done
<1> QED
  BY <1>1, <1>2 DEF LInv

\* The largest alignment is one number.
LEMMA CoversOnce ==
  ASSUME TypeOK, NEW n \in 0..Len(members), NEW a, NEW b, Covers(a, n), Covers(b, n)
  PROVE  a = b
<1>1. \A i \in 1..n : members[i].align \in Powers
  BY MemberFacts, DeclaratorFacts
<1> QED
  BY <1>1 DEF Covers, Powers

\* A turn of a loop: E gets a value, or, the second time, has it already.
LEMMA TurnKeeps ==
  ASSUME LInv, Turns
  PROVE  TypeOK' /\ Phases' /\ Aligned' /\ \E E : Chain(E)' /\ Kept(E)'
<1>0. /\ TypeOK /\ Phases /\ Aligned
      /\ Len(members) \in Nat /\ DOMAIN members = 1..Len(members) /\ DOMAIN place = DOMAIN members
  BY MemberFacts DEF LInv
<1>1. PICK E : Chain(E) /\ Kept(E)
  BY DEF LInv
<1>2. phase = "place" /\ pos \in 1..Len(members) /\ kind \in {"struct", "union"}
  BY <1>0 DEF Turns, ZeroWidth, Bitfield, Member, UnionMember, Turn, TypeOK
<1>3. bits = E[pos - 1] /\ bits \in Nat
  BY <1>0, <1>1, <1>2 DEF Chain, TypeOK
<1>4. place[pos] \in {Zero, At(kind, members[pos], bits)}
  BY <1>0, <1>1, <1>2, <1>3 DEF Chain, Done
<1>5. /\ bits' = After(kind, members[pos], bits)
      /\ place' = [place EXCEPT ![pos] = At(kind, members[pos], bits)]
      /\ NextMember
  BY <1>0, <1>4, TurnIs
<1>6. TypeOK'
  BY <1>0, <1>4, TypeStep DEF Next, Turns
<1>7. /\ kind' = kind /\ phase' = phase /\ members' = members /\ before' = before /\ pos' = pos + 1
      /\ align' = IF align < members[pos].align THEN members[pos].align ELSE align
  BY <1>5 DEF NextMember, object
<1>8. Phases'
  BY <1>2, <1>7 DEF Phases
<1>9. members[pos] \in Declarators /\ members[pos].align \in Powers
  BY <1>0, <1>2, MemberFacts, DeclaratorFacts
<1>10. bits' \in Nat /\ bits' >= bits
  BY <1>2, <1>3, <1>5, <1>9, PlaceType
<1>11. Covers(align, pos - 1) => Covers(align', pos)
  <2> SUFFICES ASSUME Covers(align, pos - 1) PROVE Covers(align', pos)
    OBVIOUS
  <2>1. \A i \in 1..pos : (i \in 1..(pos - 1) \/ i = pos) /\ members[i].align \in Nat
    <3>1. \A i \in 1..pos : (i \in 1..(pos - 1) \/ i = pos) /\ i \in DOMAIN members
      BY <1>0, <1>2
    <3>2. \A i \in DOMAIN members : members[i].align \in Powers
      BY <1>0, MemberFacts, DeclaratorFacts
    <3>3. Powers \subseteq Nat
      BY DEF Powers
    <3> QED
      BY <3>1, <3>2, <3>3
  <2>2. \A i \in 1..(pos - 1) : i \in 1..pos
    BY <1>2
  <2>3. align' \in Powers /\ align' >= align /\ align' >= members[pos].align /\ align \in Nat
    BY <1>7, <1>9 DEF Covers, Powers
  <2>4. \A i \in 1..pos : members[i].align <= align'
    BY <1>2, <2>1, <2>3 DEF Covers, Powers
  <2>5. align' = 1 \/ \E i \in 1..pos : members[i].align = align'
    BY <1>2, <1>7, <2>2 DEF Covers
  <2> QED
    BY <2>3, <2>4, <2>5 DEF Covers
<1>14. Covers(align, pos - 1) => Covers(align, pos - 1)'
  <2>1. pos' - 1 = pos
    BY <1>2, <1>7
  <2> QED
    BY <1>7, <1>11, <2>1 DEF Covers
<1>12. CASE before = <<>>
  <2>0. PICK F : F = [E EXCEPT ![pos] = bits']
    OBVIOUS
  <2>1. Done = pos - 1 /\ Done' = pos
    BY <1>2, <1>7, <1>12 DEF Done
  <2>2. F \in [0..Len(members) -> Nat] /\ F[0] = 0
    BY <1>0, <1>1, <1>2, <1>10, <2>0 DEF Chain
  <2>3. F[pos] = bits' /\ \A i \in 0..(pos - 1) : F[i] = E[i]
    BY <1>0, <1>1, <1>2, <2>0 DEF Chain
  <2>4. \A i \in 1..pos : /\ F[i] = After(kind, members[i], F[i - 1])
                          /\ place'[i] = At(kind, members[i], F[i - 1])
    <3> SUFFICES ASSUME NEW i \in 1..pos
                 PROVE  /\ F[i] = After(kind, members[i], F[i - 1])
                        /\ place'[i] = At(kind, members[i], F[i - 1])
      OBVIOUS
    <3>1. CASE i = pos
      BY <1>0, <1>2, <1>3, <1>5, <2>3, <3>1
    <3>2. CASE i # pos
      <4>1. i \in 1..(pos - 1) /\ i - 1 \in 0..(pos - 1) /\ i \in 0..(pos - 1)
        BY <1>2, <3>2
      <4> QED
        BY <1>0, <1>1, <1>2, <1>5, <2>1, <2>3, <3>2, <4>1 DEF Chain
    <3> QED
      BY <3>1, <3>2
  <2>5. \A i \in (pos + 1)..Len(members) : place'[i] = Zero
    BY <1>0, <1>1, <1>2, <1>5, <2>1 DEF Chain
  <2>6. \A i, j \in 0..pos : i <= j => F[i] <= F[j]
    <3> SUFFICES ASSUME NEW i \in 0..pos, NEW j \in 0..pos, i <= j PROVE F[i] <= F[j]
      OBVIOUS
    <3>1. \A m \in 0..(pos - 1) : F[m] <= E[pos - 1] /\ E[m] \in Nat
      BY <1>0, <1>1, <1>2, <2>1, <2>3 DEF Chain
    <3>2. CASE j = pos /\ i # pos
      <4>1. i \in 0..(pos - 1) /\ pos - 1 \in 0..(pos - 1)
        BY <1>2, <3>2
      <4> QED
        BY <1>3, <1>10, <2>3, <3>1, <3>2, <4>1
    <3>3. CASE i = pos
      BY <1>2, <1>10, <2>3, <3>3
    <3>4. CASE j # pos
      <4>1. i \in 0..(pos - 1) /\ j \in 0..(pos - 1)
        BY <1>2, <3>4
      <4> QED
        BY <1>1, <2>1, <2>3, <4>1 DEF Chain
    <3> QED
      BY <3>2, <3>3, <3>4
  <2>7. bits' = F[(pos + 1) - 1]
    BY <1>2, <2>3
  <2>8. Chain(F)'
    <3>1. Len(members)' = Len(members) /\ kind' = kind /\ Done' = pos /\ pos' - 1 = (pos + 1) - 1
      BY <1>7, <2>1
    <3>2. \A i \in 1..Done' : /\ F[i] = After(kind, members[i], F[i - 1])
                             /\ place'[i] = At(kind, members[i], F[i - 1])
      BY <2>4, <3>1
    <3>3. \A i \in (Done' + 1)..Len(members) : place'[i] = Zero
      BY <2>5, <3>1
    <3>4. \A i, j \in 0..Done' : i <= j => F[i] <= F[j]
      BY <2>6, <3>1
    <3>5. phase' = "place" => bits' = F[pos' - 1]
      BY <2>7, <3>1
    <3> QED
      BY <1>7, <2>2, <3>2, <3>3, <3>4, <3>5 DEF Chain
  <2>9. Kept(F)'
    BY <1>7, <1>12 DEF Kept
  <2>10. Aligned'
    BY <1>0, <1>2, <1>7, <1>14, <1>12 DEF Aligned
  <2> QED
    BY <1>6, <1>8, <2>8, <2>9, <2>10
<1>13. CASE before # <<>>
  <2>1. Done = Len(members) /\ Done' = Len(members)
    BY <1>2, <1>7, <1>13 DEF Done
  <2>2. /\ pos \in 1..Done /\ bits' = E[pos]
        /\ place[pos] = At(kind, members[pos], bits)
    BY <1>0, <1>1, <1>2, <1>3, <1>5, <2>1 DEF Chain
  <2>7. place' = place
    BY <1>0, <1>2, <1>5, <2>2 DEF TypeOK
  <2>3. Chain(E)'
    BY <1>0, <1>1, <1>2, <1>7, <2>1, <2>2, <2>7 DEF Chain
  <2>4. Kept(E)'
    BY <1>1, <1>7, <2>7 DEF Kept, Covers
  <2>5. kind = "struct" => align' = align
    <3>1. Covers(before[2], Len(members)) /\ (kind = "struct" => align = before[2])
      BY <1>0, <1>1, <1>2, <1>13 DEF Kept, Aligned
    <3> QED
      BY <1>2, <1>7, <1>9, <3>1 DEF Covers, Powers
  <2>6. Aligned'
    BY <1>0, <1>2, <1>7, <1>14, <1>13, <2>5 DEF Aligned
  <2> QED
    BY <1>6, <1>8, <2>3, <2>4, <2>6
<1> QED
  BY <1>12, <1>13

\* Parsing: nothing has a place yet.
LEMMA ParseKeeps ==
  ASSUME LInv, struct_members \/ struct_union_decl, TypeOK'
  PROVE  Phases' /\ Aligned' /\ \E E : Chain(E)' /\ Kept(E)'
<1>0. /\ TypeOK /\ Phases /\ Len(members) \in Nat /\ phase = "parse" /\ before = <<>> /\ before' = <<>>
      /\ pos = 1
  BY MemberFacts DEF LInv, struct_members, struct_union_decl, object, Phases
<1>1. PICK E : Chain(E)
  BY DEF LInv
<1>2. \A i \in 1..Len(members) : place[i] = Zero
  BY <1>0, <1>1 DEF Chain, Done
<1>3. PICK F : F = [i \in 0..Len(members') |-> 0]
  OBVIOUS
<1>4. CASE struct_members
  <2>1. /\ kind' = kind /\ phase' = "parse" /\ bits' = bits /\ pos' = 1
        /\ place' = Append(place, Zero)
        /\ Len(members') = Len(members) + 1
    BY <1>0, <1>4 DEF struct_members, object, Zero, TypeOK
  <2>2. \A i \in 1..Len(members') : place'[i] = Zero
    <3>1. Len(place) = Len(members) /\ place \in Seq([offset : Nat, bit_offset : Word])
      BY <1>0 DEF TypeOK
    <3> QED
      BY <1>0, <1>2, <2>1, <3>1
  <2>3. Done' = 0
    BY <2>1 DEF Done
  <2>4. Chain(F)'
    <3>1. Len(members') \in Nat /\ F \in [0..Len(members') -> Nat] /\ F[0] = 0
      BY <1>0, <1>3, <2>1
    <3>2. \A i, j \in 0..Done' : i <= j => F[i] <= F[j]
      BY <2>3, <3>1
    <3>3. \A i \in (Done' + 1)..Len(members') : place'[i] = Zero
      BY <2>2, <2>3
    <3>4. 1..Done' = {}
      BY <2>3
    <3> QED
      BY <2>1, <3>1, <3>2, <3>3, <3>4 DEF Chain
  <2> QED
    BY <1>0, <2>1, <2>4 DEF Phases, Aligned, Kept
<1>5. CASE struct_union_decl
  <2>1. /\ kind' = kind /\ phase' = "place" /\ bits' = 0 /\ pos' = 1 /\ align' = 1
        /\ place' = place /\ members' = members
    BY <1>5 DEF struct_union_decl
  <2>2. Done' = 0
    BY <1>0, <2>1 DEF Done
  <2>3. Chain(F)'
    BY <1>0, <1>2, <1>3, <2>1, <2>2 DEF Chain
  <2>5. Aligned'
    BY <1>0, <2>1 DEF Aligned, Covers, Powers
  <2> QED
    BY <1>0, <2>1, <2>3, <2>5 DEF Phases, Kept
<1> QED
  BY <1>4, <1>5

\* The end of the loop: the first time the object takes the layout over, the
\* second time the alignment and the size come out as before.
LEMMA LaidKeeps ==
  ASSUME LInv, Laid, TypeOK'
  PROVE  Phases' /\ Aligned' /\ \E E : Chain(E)' /\ Kept(E)'
<1>0. /\ TypeOK /\ Phases /\ Aligned /\ Len(members) \in Nat
      /\ kind \in {"struct", "union"} /\ align \in Powers /\ bits \in Nat
      /\ phase = "place" /\ pos = Len(members) + 1
  BY MemberFacts DEF LInv, Laid, TypeOK, Powers
<1>1. PICK E : Chain(E) /\ Kept(E)
  BY DEF LInv
<1>2. /\ kind' = kind /\ members' = members /\ place' = place /\ bits' = bits /\ align' = align
      /\ size' = Size /\ pos' = 1
  BY <1>0 DEF Laid
<1>3. bits = E[Len(members)] /\ size' = SizeOf(kind, E[Len(members)], align)
  BY <1>0, <1>1, <1>2 DEF Chain, Size, SizeOf
<1>4. Done = Len(members)
  BY <1>0 DEF Done
<1>5. CASE before = <<>>
  <2>1. phase' = "init" /\ before' = <<place, align, Size>>
    BY <1>5 DEF Laid
  <2>2. Done' = Len(members) /\ before' # <<>>
    BY <1>2, <2>1 DEF Done
  <2>3. Chain(E)'
    BY <1>1, <1>2, <1>4, <2>1, <2>2 DEF Chain
  <2>4. Covers(align, Len(members))
    BY <1>0, <1>5 DEF Aligned
  <2>5. Kept(E)'
    BY <1>2, <1>3, <2>1, <2>4 DEF Kept, Covers
  <2> QED
    BY <1>2, <2>1, <2>2, <2>3, <2>5 DEF Phases, Aligned
<1>6. CASE before # <<>>
  <2>1. phase' = "ready" /\ before' = before
    BY <1>6 DEF Laid, object
  <2>2. Done' = Len(members)
    BY <1>2, <1>6, <2>1 DEF Done
  <2>3. Chain(E)'
    BY <1>1, <1>2, <1>4, <2>1, <2>2 DEF Chain
  <2>4. Kept(E)'
    BY <1>1, <1>2, <2>1 DEF Kept, Covers
  <2>5. align = before[2]
    <3>1. CASE kind = "struct"
      BY <1>0, <1>6, <3>1 DEF Aligned
    <3>2. CASE kind = "union"
      <4>1. Covers(align, Len(members))
        BY <1>0, <3>2 DEF Aligned
      <4>2. Covers(before[2], Len(members))
        BY <1>1, <1>6 DEF Kept
      <4> QED
        BY <1>0, <4>1, <4>2, CoversOnce
    <3> QED
      BY <1>0, <3>1, <3>2
  <2>6. before = <<place, align, size'>>
    BY <1>1, <1>3, <1>6, <2>5 DEF Kept
  <2> QED
    BY <1>2, <1>6, <2>1, <2>3, <2>4, <2>6 DEF Phases, Aligned
<1> QED
  BY <1>5, <1>6

\* The loop begins again.
LEMMA AgainKeeps ==
  ASSUME LInv, Again, TypeOK'
  PROVE  Phases' /\ Aligned' /\ \E E : Chain(E)' /\ Kept(E)'
<1>0. /\ Phases /\ Aligned /\ kind \in {"struct", "union"} /\ phase = "ready"
      /\ before # <<>> /\ pos = 1
  BY DEF LInv, Again, TypeOK, Phases
<1>1. PICK E : Chain(E) /\ Kept(E)
  BY DEF LInv
<1>2. /\ kind' = kind /\ members' = members /\ place' = place /\ before' = before /\ pos' = 1
      /\ phase' = "place" /\ bits' = 0 /\ align' = IF kind = "struct" THEN align ELSE 1
  BY <1>0 DEF Again, object
<1>3. Done = Len(members) /\ Done' = Len(members)
  BY <1>0, <1>2 DEF Done
<1>4. Chain(E)'
  BY <1>1, <1>2, <1>3 DEF Chain
<1>5. Kept(E)'
  BY <1>1, <1>2 DEF Kept, Covers
<1>6. before = <<place, align, size>>
  BY <1>0 DEF Aligned
<1>7. kind = "union" => Covers(1, 0)
  BY DEF Covers, Powers
<1>8. Aligned'
  BY <1>0, <1>2, <1>6, <1>7 DEF Aligned, Covers, Powers
<1> QED
  BY <1>0, <1>2, <1>4, <1>5, <1>8 DEF Phases

\* An object is initialized or assigned to.
LEMMA ObjectKeeps ==
  ASSUME LInv, TypeOK', phase \in {"init", "ready"}, phase' \in {"init", "ready"},
         kind' = kind, members' = members, layout' = layout, before' = before,
         phase' = "ready" => pos' = 1
  PROVE  Phases' /\ Aligned' /\ \E E : Chain(E)' /\ Kept(E)'
<1>0. Phases /\ Aligned /\ before # <<>> /\ place' = place /\ align' = align /\ size' = size
  BY DEF LInv, Phases, layout
<1>1. PICK E : Chain(E) /\ Kept(E)
  BY DEF LInv
<1>2. Done = Len(members) /\ Done' = Len(members)
  BY <1>0 DEF Done
<1>3. Chain(E)'
  BY <1>0, <1>1, <1>2 DEF Chain
<1>4. Kept(E)'
  BY <1>0, <1>1 DEF Kept, Covers
<1> QED
  BY <1>0, <1>3, <1>4 DEF Phases, Aligned

LEMMA LayoutStep ==
  ASSUME LInv, [Next]_vars
  PROVE  LInv'
<1>0. TypeOK /\ Phases
  BY DEF LInv
<1>1. CASE UNCHANGED vars
  <2>1. /\ kind' = kind /\ phase' = phase /\ members' = members /\ place' = place /\ pos' = pos
        /\ bits' = bits /\ align' = align /\ size' = size /\ before' = before
    BY <1>1 DEF vars, layout, object
  <2>2. TypeOK'
    BY <1>0, <1>1 DEF vars, layout, object, TypeOK
  <2>3. Phases' /\ Aligned'
    BY <1>0, <2>1 DEF LInv, Phases, Aligned, Covers
  <2>4. PICK E : Chain(E) /\ Kept(E)
    BY DEF LInv
  <2>5. Done' = Done
    BY <2>1 DEF Done
  <2>6. Chain(E)' /\ Kept(E)'
    BY <2>1, <2>4, <2>5 DEF Chain, Kept, Covers
  <2> QED
    BY <2>2, <2>3, <2>6 DEF LInv
<1>2. CASE Turns
  BY <1>2, TurnKeeps DEF LInv
<1>3. CASE Next /\ ~Turns
  <2>1. TypeOK'
    BY <1>0, <1>3, TypeStep
  <2>2. CASE struct_members \/ struct_union_decl
    BY <2>1, <2>2, ParseKeeps DEF LInv
  <2>3. CASE Laid
    BY <2>1, <2>3, LaidKeeps DEF LInv
  <2>4. CASE Again
    BY <2>1, <2>4, AgainKeeps DEF LInv
  <2>5. CASE StaticBitfield \/ StaticMember \/ LocalMember
    <3>1. /\ phase = "init" /\ phase' = phase /\ kind' = kind /\ members' = members
          /\ layout' = layout /\ before' = before
      BY <2>5 DEF StaticBitfield, StaticMember, LocalMember, InitTurn, NextInit
    <3> QED
      BY <2>1, <3>1, ObjectKeeps DEF LInv
  <2>6. CASE StaticBreak \/ Initialized
    <3>1. /\ phase = "init" /\ phase' = "ready" /\ kind' = kind /\ members' = members
          /\ layout' = layout /\ before' = before /\ pos' = 1
      BY <2>6 DEF StaticBreak, Initialized, InitTurn, EndInit
    <3> QED
      BY <2>1, <3>1, ObjectKeeps DEF LInv
  <2>7. CASE Assign
    <3>1. /\ phase = "ready" /\ phase' = phase /\ kind' = kind /\ members' = members
          /\ layout' = layout /\ before' = before /\ pos' = pos /\ pos = 1
      BY <1>0, <2>7 DEF Assign, Phases
    <3> QED
      BY <2>1, <3>1, ObjectKeeps DEF LInv
  <2> QED
    BY <1>3, <2>2, <2>3, <2>4, <2>5, <2>6, <2>7 DEF Next, Turns
<1> QED
  BY <1>1, <1>2, <1>3

THEOREM LayoutInvariant == Spec => []LInv
<1>1. LInv /\ [Next]_vars => LInv'
  BY LayoutStep
<1> QED
  BY <1>1, LayoutInit, PTL DEF Spec

\* Every variable keeps its type; above all no place, size or memory address is
\* negative, however many members there are.
THEOREM TypeCorrect == Spec => []TypeOK
<1>1. LInv => TypeOK
  BY DEF LInv
<1> QED
  BY <1>1, LayoutInvariant, PTL

\* However often the tag of a struct or a union is mentioned, its members, its
\* alignment and its size stay where the first object found them.
THEOREM LayoutIsKept == Spec => []LayoutKept
<1>1. LInv => LayoutKept
  BY DEF LInv, Aligned, LayoutKept
<1> QED
  BY <1>1, LayoutInvariant, PTL

(***************************************************************************)
(* Units.                                                                  *)
(***************************************************************************)

\* A unit of s bytes that begins inside of n bytes ends there.
LEMMA UnitFits ==
  ASSUME NEW s \in {1, 2, 4, 8}, NEW a \in Powers, s <= a, NEW o \in Nat, NEW n \in Nat,
         o % s = 0, (8 * n) % (8 * a) = 0, o < n
  PROVE  o + s <= n
<1>1. n % s = 0
  <2>1. CASE a = 1
    BY <2>1
  <2>2. CASE a = 2
    BY <2>2
  <2>3. CASE a = 4
    BY <2>3
  <2>4. CASE a = 8
    BY <2>4
  <2>5. CASE a = 16
    BY <2>5
  <2> QED
    BY <2>1, <2>2, <2>3, <2>4, <2>5 DEF Powers
<1>2. CASE s = 1
  BY <1>2
<1>3. CASE s = 2
  BY <1>1, <1>3
<1>4. CASE s = 4
  BY <1>1, <1>4
<1>5. CASE s = 8
  BY <1>1, <1>5
<1> QED
  BY <1>2, <1>3, <1>4, <1>5

\* Once laid out, the members are where E says, and the size covers all of E.
LEMMA LaidOut ==
  ASSUME LInv, phase \in {"init", "ready"}
  PROVE  \E E \in [0..Len(members) -> Nat] :
           /\ E[0] = 0
           /\ \A i \in DOMAIN members : /\ E[i] = After(kind, members[i], E[i - 1])
                                        /\ place[i] = At(kind, members[i], E[i - 1])
           /\ \A i, j \in 0..Len(members) : i <= j => E[i] <= E[j]
           /\ \A i \in DOMAIN members : members[i].align <= align
           /\ align \in Powers /\ size = SizeOf(kind, E[Len(members)], align)
<1>0. TypeOK /\ Phases /\ Aligned /\ before # <<>> /\ before = <<place, align, size>>
  BY DEF LInv, Phases, Aligned
<1>1. PICK E : Chain(E) /\ Kept(E)
  BY DEF LInv
<1>2. Done = Len(members) /\ DOMAIN members = 1..Len(members)
  BY <1>0, MemberFacts DEF Done
<1>3. Covers(align, Len(members)) /\ size = SizeOf(kind, E[Len(members)], align)
  BY <1>0, <1>1 DEF Kept
<1> QED
  BY <1>1, <1>2, <1>3 DEF Chain, Covers

\* What ends inside of all the bits ends inside of the bytes that hold them.
LEMMA BytesHold ==
  ASSUME NEW o \in Nat, NEW n \in Nat, NEW all \in Nat, NEW bytes \in Nat, 8 * bytes >= all
  PROVE  /\ 8 * o + 8 * n <= all => o + n <= bytes
         /\ n > 0 /\ 8 * o + n <= all => o < bytes
OBVIOUS

\* The unit that an access to a member reads and writes is inside of the object:
\* the struct's last unit is full even if its last bit-field does not fill it.
THEOREM AccessesInside == Spec => []UnitsInside
<1>1. LInv => UnitsInside
  <2> SUFFICES ASSUME LInv, phase \in {"init", "ready"},
                      NEW i \in DOMAIN members, members[i].width # 0
               PROVE  place[i].offset + members[i].size <= size
    BY DEF UnitsInside
  <2>0. /\ TypeOK /\ Len(members) \in Nat /\ i \in 1..Len(members)
        /\ members[i] \in Declarators /\ kind \in {"struct", "union"}
    BY MemberFacts DEF LInv, TypeOK
  <2>1. PICK E \in [0..Len(members) -> Nat] :
          /\ E[i] = After(kind, members[i], E[i - 1])
          /\ place[i] = At(kind, members[i], E[i - 1])
          /\ \A j, k \in 0..Len(members) : j <= k => E[j] <= E[k]
          /\ members[i].align <= align
          /\ align \in Powers /\ size = SizeOf(kind, E[Len(members)], align)
    BY LaidOut
  <2>2. E[i] \in Nat /\ E[i - 1] \in Nat /\ E[Len(members)] \in Nat /\ E[i] <= E[Len(members)]
    BY <2>0, <2>1
  <2> DEFINE d == members[i]
             e == E[i - 1]
             all == E[Len(members)]
             p == place[i]
  <2>3. d.size \in Nat /\ d.align \in Powers /\ size \in Nat
    BY <2>0, DeclaratorFacts DEF TypeOK
  <2>4. CASE kind = "union"
    <3>1. p = Zero /\ E[i] >= d.size
      BY <2>1, <2>2, <2>3, <2>4 DEF At, After
    <3>2. size = align_to(all, align)
      BY <2>1, <2>2, <2>4, SizeType
    <3>3. size >= all
      BY <2>1, <2>2, <3>2, AlignTo
    <3>4. p.offset = 0
      BY <3>1 DEF Zero
    <3> QED
      BY <2>2, <2>3, <3>1, <3>3, <3>4
  <2>5. CASE kind = "struct"
    <3>1. 8 * size = align_to(all, 8 * align)
      BY <2>1, <2>2, <2>5, SizeType
    <3>2. (8 * size) % (8 * align) = 0 /\ 8 * size >= all
      <4>1. PICK n : n = all
        OBVIOUS
      <4>2. n \in Nat /\ align \in Powers /\ 8 * size = align_to(n, 8 * align)
        BY <2>1, <2>2, <3>1, <4>1
      <4>3. align_to(n, 8 * align) % (8 * align) = 0 /\ align_to(n, 8 * align) >= n
        BY <4>2, AlignTo
      <4> QED
        BY <4>1, <4>2, <4>3
    <3>6. 8 * size >= all
      BY <3>2
    <3>3. CASE ~IsBitfield(d)
      <4>1. p.offset \in Nat /\ 8 * p.offset = align_to(e, 8 * d.align)
        BY <2>0, <2>1, <2>2, <2>5, <3>3, MemberAt
      <4>2. E[i] = align_to(e, 8 * d.align) + 8 * d.size
        BY <2>1, <2>5, <3>3 DEF After, TypeBits
      <4>3. p.offset + d.size <= size
        <5>1. 8 * p.offset + 8 * d.size = E[i] /\ E[i] <= all /\ all \in Nat
          BY <2>2, <4>1, <4>2
        <5> HIDE DEF all, p, d, e
        <5>2. 8 * p.offset + 8 * d.size <= all
          BY ONLY <5>1
        <5> QED
          BY <2>3, <3>6, <4>1, <5>1, <5>2, BytesHold
      <4> QED
        BY <4>3
    <3>4. CASE IsBitfield(d)
      <4>1. /\ d.width > 0 /\ d.width \in Nat /\ d.size \in {1, 2, 4, 8} /\ d.size \in Nat
            /\ d.size <= d.align
        BY <2>0, <3>4, BitfieldFacts
      <4>2. /\ p.offset \in Nat /\ p.bit_offset \in 0..(8 * d.size - 1)
            /\ 8 * p.offset + p.bit_offset = From(d, e) /\ p.offset % d.size = 0
        BY <2>0, <2>1, <2>2, <2>5, <4>1, BitfieldAt
      <4>3. E[i] = From(d, e) + d.width
        BY <2>1, <2>5, <3>4, <4>1 DEF After
      <4>4. p.offset < size
        <5>1. p.offset \in Nat /\ p.bit_offset \in Nat
          <6>1. \A n \in Nat : \A b \in 0..(8 * n - 1) : b \in Nat
            OBVIOUS
          <6> QED
            BY <4>1, <4>2, <6>1
        <5>2. E[i] = 8 * p.offset + p.bit_offset + d.width
          BY <4>2, <4>3
        <5>3. d.width \in Nat /\ d.width > 0
          BY <4>1
        <5>4. E[i] <= all /\ all \in Nat
          BY <2>2
        <5> HIDE DEF p, d, all
        <5>5. PICK n : n = p.bit_offset + d.width
          OBVIOUS
        <5>6. n \in Nat /\ n > 0
          BY ONLY <5>1, <5>3, <5>5
        <5>7. 8 * p.offset + n <= all
          BY ONLY <5>1, <5>2, <5>3, <5>4, <5>5
        <5> QED
          BY <2>3, <3>6, <5>1, <5>4, <5>6, <5>7, BytesHold
      <4>5. d.size <= align /\ align \in Powers
        <5>1. d.align <= align /\ align \in Powers
          BY <2>1
        <5>2. d.align \in Int /\ align \in Int
          BY <2>3, <5>1 DEF Powers
        <5> HIDE DEF d
        <5> QED
          BY ONLY <4>1, <5>1, <5>2
      <4>6. p.offset \in Nat /\ p.offset % d.size = 0
        BY <4>2
      <4>7. p.offset + d.size <= size
        <5> HIDE DEF p, d
        <5> QED
          BY <2>3, <3>2, <4>1, <4>4, <4>5, <4>6, UnitFits
      <4> QED
        BY <4>7
    <3> QED
      BY <3>3, <3>4
  <2> QED
    BY <2>0, <2>4, <2>5
<1> QED
  BY <1>1, LayoutInvariant, PTL

(***************************************************************************)
(* The System V ABI.                                                       *)
(***************************************************************************)

\* Rounding up goes to the nearest multiple.
LEMMA NearestMultiple ==
  ASSUME NEW n \in Nat, NEW a \in Powers
  PROVE  /\ align_to(n, 8 * a) <= n + 127 /\ n > align_to(n, 8 * a) - 8 * a
         /\ n > align_to(n, a) - a
         /\ align_to(0, 8 * a) = 0 /\ align_to(0, a) = 0
         /\ \A q \in n..(align_to(n, 8 * a) - 1) : q % (8 * a) # 0
<1>1. CASE a = 1
  BY <1>1 DEF align_to
<1>2. CASE a = 2
  BY <1>2 DEF align_to
<1>3. CASE a = 4
  BY <1>3 DEF align_to
<1>4. CASE a = 8
  BY <1>4 DEF align_to
<1>5. CASE a = 16
  BY <1>5 DEF align_to
<1> QED
  BY <1>1, <1>2, <1>3, <1>4, <1>5 DEF Powers

LEMMA BytesToBits ==
  ASSUME NEW n \in Nat, NEW a \in Powers, n % a = 0
  PROVE  (8 * n) % (8 * a) = 0
<1>1. CASE a = 1
  BY <1>1
<1>2. CASE a = 2
  BY <1>2
<1>3. CASE a = 4
  BY <1>3
<1>4. CASE a = 8
  BY <1>4
<1>5. CASE a = 16
  BY <1>5
<1> QED
  BY <1>1, <1>2, <1>3, <1>4, <1>5 DEF Powers

\* The bit at which the code puts a member of a struct.
Put(m, e) ==
  IF ~IsBitfield(m) THEN align_to(e, 8 * m.align)
  ELSE IF m.width = 0 THEN align_to(e, TypeBits(m)) ELSE From(m, e)

First(m, e, p) == p \in e..(e + 127) /\ Fits(m, p) /\ \A q \in e..(p - 1) : ~Fits(m, q)

LEMMA FieldFits ==
  ASSUME NEW d \in Declarators, NEW e \in Nat, d.width > 0
  PROVE  First(d, e, From(d, e))
<1> DEFINE s == d.size
           w == d.width
           f == From(d, e)
<1>1. s \in {1, 2, 4, 8} /\ w \in 1..31 /\ w <= 8 * s /\ IsBitfield(d)
  BY DeclaratorFacts DEF IsBitfield, NoWidth
<1>2. f = IF e \div (8 * s) # (e + w - 1) \div (8 * s) THEN align_to(e, 8 * s) ELSE e
  BY DEF From, TypeBits
<1>3. \A q : Fits(d, q) <=> q \div (8 * s) = (q + w - 1) \div (8 * s)
  BY <1>1 DEF Fits, TypeBits
<1> DEFINE Fit(q) == q \div (8 * s) = (q + w - 1) \div (8 * s)
           Claim == f \in e..(e + 127) /\ Fit(f) /\ \A q \in e..(f - 1) : ~Fit(q)
<1> HIDE DEF s, w, f
<1>4. CASE e \div (8 * s) = (e + w - 1) \div (8 * s)
  <2>1. f = e
    BY <1>2, <1>4
  <2> QED
    BY <1>3, <1>4, <2>1 DEF First, f
<1>5. CASE e \div (8 * s) # (e + w - 1) \div (8 * s)
  <2>0. f = align_to(e, 8 * s)
    BY <1>2, <1>5
  <2>5. Claim
    <3>1. CASE s = 1
      BY <1>1, <1>5, <2>0, <3>1 DEF align_to
    <3>2. CASE s = 2
      BY <1>1, <1>5, <2>0, <3>2 DEF align_to
    <3>3. CASE s = 4
      BY <1>1, <1>5, <2>0, <3>3 DEF align_to
    <3>4. CASE s = 8
      BY <1>1, <1>5, <2>0, <3>4 DEF align_to
    <3> HIDE DEF Claim
    <3> QED
      BY <1>1, <3>1, <3>2, <3>3, <3>4
  <2> QED
    BY <1>3, <2>5 DEF First, f
<1> QED
  BY <1>4, <1>5

LEMMA PutFits ==
  ASSUME NEW d \in Declarators, NEW e \in Nat
  PROVE  First(d, e, Put(d, e))
<1>1. CASE ~IsBitfield(d)
  <2>1. d.align \in Powers
    BY DeclaratorFacts
  <2>2. \A q : Fits(d, q) <=> q % (8 * d.align) = 0
    BY <1>1 DEF Fits
  <2>3. Put(d, e) = align_to(e, 8 * d.align)
    BY <1>1 DEF Put
  <2> DEFINE n == align_to(e, 8 * d.align)
  <2>4. n \in Nat /\ n >= e /\ n % (8 * d.align) = 0 /\ n <= e + 127
    BY <2>1, AlignTo, NearestMultiple
  <2>5. \A q \in e..(n - 1) : q % (8 * d.align) # 0
    BY <2>1, NearestMultiple
  <2> HIDE DEF n
  <2>6. n \in e..(e + 127)
    BY <2>4
  <2> QED
    BY <2>2, <2>3, <2>4, <2>5, <2>6 DEF First, n
<1>2. CASE IsBitfield(d) /\ d.width = 0
  <2>1. d.size \in Powers
    BY <1>2, DeclaratorFacts DEF Powers
  <2>2. \A q : Fits(d, q) <=> q % (8 * d.size) = 0
    BY <1>2 DEF Fits, TypeBits
  <2>3. Put(d, e) = align_to(e, 8 * d.size)
    BY <1>2 DEF Put, TypeBits
  <2> DEFINE n == align_to(e, 8 * d.size)
  <2>4. n \in Nat /\ n >= e /\ n % (8 * d.size) = 0 /\ n <= e + 127
    BY <2>1, AlignTo, NearestMultiple
  <2>5. \A q \in e..(n - 1) : q % (8 * d.size) # 0
    BY <2>1, NearestMultiple
  <2> HIDE DEF n
  <2>6. n \in e..(e + 127)
    BY <2>4
  <2> QED
    BY <2>2, <2>3, <2>4, <2>5, <2>6 DEF First, n
<1>3. CASE IsBitfield(d) /\ d.width # 0
  <2>1. d.width > 0
    BY <1>3, BitfieldFacts
  <2>2. Put(d, e) = From(d, e)
    BY <1>3 DEF Put
  <2> QED
    BY <2>1, <2>2, FieldFits
<1> QED
  BY <1>1, <1>2, <1>3

\* That is where the ABI puts it, and the code goes on where the ABI does.
LEMMA PutIsFirstFit ==
  ASSUME NEW d \in Declarators, NEW e \in Nat
  PROVE  /\ FirstFit(d, e) = Put(d, e)
         /\ FirstFit(d, e) + Width(d) = After("struct", d, e)
         /\ \A p : p = At("struct", d, e) /\ d.width # 0 => 8 * p.offset + p.bit_offset = FirstFit(d, e)
<1> DEFINE s == Put(d, e)
<1>1. First(d, e, s)
  BY PutFits
<1>2. FirstFit(d, e) = CHOOSE p \in e..(e + 127) : Fits(d, p) /\ \A q \in e..(p - 1) : ~Fits(d, q)
  BY DEF FirstFit
<1> DEFINE c == FirstFit(d, e)
<1> HIDE DEF s
<1>3. c \in e..(e + 127) /\ Fits(d, c) /\ \A q \in e..(c - 1) : ~Fits(d, q)
  BY <1>1, <1>2 DEF First
<1> HIDE DEF c
<1>4. c = s
  <2>1. s \in e..(e + 127) /\ Fits(d, s) /\ \A q \in e..(s - 1) : ~Fits(d, q)
    BY <1>1 DEF First
  <2>2. ~(c < s)
    <3>1. c < s => c \in e..(s - 1)
      BY <1>3, <2>1
    <3> QED
      BY <1>3, <2>1, <3>1
  <2>3. ~(s < c)
    <3>1. s < c => s \in e..(c - 1)
      BY <1>3, <2>1
    <3> QED
      BY <1>3, <2>1, <3>1
  <2> QED
    BY <1>3, <2>1, <2>2, <2>3
<1>5. s + Width(d) = After("struct", d, e)
  <2>1. CASE ~IsBitfield(d)
    <3>1. d.width # 0
      BY <2>1, DeclaratorFacts
    <3> QED
      BY <2>1, <3>1 DEF s, Put, After, Width
  <2>2. CASE IsBitfield(d) /\ d.width = 0
    <3>1. s = align_to(e, TypeBits(d)) /\ Width(d) = 0 /\ After("struct", d, e) = align_to(e, TypeBits(d))
      BY <2>2 DEF s, Put, After, Width
    <3>2. s \in Nat
      BY <1>1 DEF First
    <3> QED
      BY <3>1, <3>2
  <2>3. CASE IsBitfield(d) /\ d.width # 0
    BY <2>3 DEF s, Put, After, Width
  <2> QED
    BY <2>1, <2>2, <2>3
<1>6. ASSUME NEW p, p = At("struct", d, e), d.width # 0
      PROVE  8 * p.offset + p.bit_offset = s
  <2>1. CASE IsBitfield(d)
    <3>1. d.width > 0
      BY <1>6, <2>1, BitfieldFacts
    <3> QED
      BY <1>6, <2>1, <3>1, BitfieldAt DEF s, Put
  <2>2. CASE ~IsBitfield(d)
    <3>1. p.offset \in Nat /\ p.bit_offset = 0 /\ 8 * p.offset = align_to(e, 8 * d.align)
      BY <1>6, <2>2, MemberAt
    <3>2. s = align_to(e, 8 * d.align)
      BY <2>2 DEF s, Put
    <3> QED
      BY <3>1, <3>2
  <2> QED
    BY <2>1, <2>2
<1> QED
  BY <1>4, <1>5, <1>6 DEF c, s

\* A set of naturals that is not empty has a least element.
LEMMA LeastElement ==
  ASSUME NEW n \in Nat, NEW T \in SUBSET (0..n), T # {}
  PROVE  \E i \in T : \A j \in 0..(i - 1) : j \notin T
<1> DEFINE Below(i) == 0..(i - 1)
           Segments == {Below(i) : i \in T}
<1>1. IsFiniteSet(0..n)
  BY FS_Interval
<1>2. IsWellFoundedOn(StrictSubsetOrdering(0..n), FiniteSubsetsOf(0..n))
  BY FS_StrictSubsetOrderingWellFounded
<1>3. Segments \subseteq FiniteSubsetsOf(0..n)
  <2>1. FiniteSubsetsOf(0..n) = SUBSET (0..n)
    BY <1>1, FS_FiniteSubsetsOfFinite
  <2> QED
    BY <2>1
<1>4. Segments # {}
  OBVIOUS
<1> HIDE DEF Segments
<1>5. PICK s \in Segments : \A r \in Segments : ~(<<r, s>> \in StrictSubsetOrdering(0..n))
  BY <1>2, <1>3, <1>4, WFMin
<1>6. PICK i \in T : s = Below(i)
  BY <1>5 DEF Segments
<1>7. ASSUME NEW j \in 0..(i - 1), j \in T
      PROVE  FALSE
  <2>1. Below(j) \in Segments
    BY <1>7 DEF Segments
  <2>2. Below(j) \subseteq Below(i) /\ Below(j) # Below(i)
    BY <1>7
  <2>3. Below(i) \subseteq 0..n
    OBVIOUS
  <2>4. <<Below(j), Below(i)>> \in StrictSubsetOrdering(0..n)
    BY <2>2, <2>3 DEF StrictSubsetOrdering
  <2> QED
    BY <2>1, <2>4, <1>5, <1>6
<1> QED
  BY <1>7

\* The recursion that defines AbiEnd has a solution, the sums of the code, and
\* no other.
LEMMA AbiEndIs ==
  ASSUME TypeOK, NEW E \in [0..Len(members) -> Nat], E[0] = 0,
         \A i \in DOMAIN members : E[i] = After("struct", members[i], E[i - 1])
  PROVE  \A i \in 0..Len(members) : AbiEnd[i] = E[i]
<1> DEFINE n == Len(members)
           Step(f, i) == IF i = 0 THEN 0 ELSE FirstFit(members[i], f[i - 1]) + Width(members[i])
<1>0. n \in Nat /\ DOMAIN members = 1..n /\ \A i \in 1..n : members[i] \in Declarators
  BY MemberFacts
<1>1. \A i \in 1..n : i - 1 \in 0..n
  BY <1>0
<1>2. \A i \in 0..n : E[i] = Step(E, i)
  <2> SUFFICES ASSUME NEW i \in 0..n PROVE E[i] = Step(E, i)
    OBVIOUS
  <2>1. CASE i = 0
    BY <2>1
  <2>2. CASE i # 0
    <3>1. i \in 1..n /\ E[i - 1] \in Nat
      BY <1>0, <1>1, <2>2
    <3>2. FirstFit(members[i], E[i - 1]) + Width(members[i]) = After("struct", members[i], E[i - 1])
      BY <1>0, <3>1, PutIsFirstFit
    <3> QED
      BY <1>0, <2>2, <3>1, <3>2
  <2> QED
    BY <2>1, <2>2
<1>3. AbiEnd = CHOOSE f : f = [i \in 0..n |-> Step(f, i)]
  BY DEF AbiEnd
<1> HIDE DEF Step
<1>4. E = [i \in 0..n |-> Step(E, i)]
  BY <1>2
<1>5. AbiEnd = [i \in 0..n |-> Step(AbiEnd, i)]
  BY <1>3, <1>4
<1>6. \A i \in 0..n : AbiEnd[i] = Step(AbiEnd, i)
  BY <1>5
<1> DEFINE T == {i \in 0..n : AbiEnd[i] # E[i]}
<1>7. ASSUME T # {}
      PROVE  FALSE
  <2>1. T \in SUBSET (0..n)
    OBVIOUS
  <2> HIDE DEF T
  <2>2. PICK i \in T : \A j \in 0..(i - 1) : j \notin T
    BY <1>0, <1>7, <2>1, LeastElement
  <2>3. i \in 0..n /\ AbiEnd[i] # E[i]
    BY <2>2 DEF T
  <2>4. i # 0
    BY <1>2, <1>6, <2>3 DEF Step
  <2>5. i - 1 \in 0..(i - 1) /\ i - 1 \in 0..n
    BY <1>0, <2>3, <2>4
  <2>6. AbiEnd[i - 1] = E[i - 1]
    BY <2>2, <2>5 DEF T
  <2>7. Step(AbiEnd, i) = Step(E, i)
    BY <2>6 DEF Step
  <2> QED
    BY <1>2, <1>6, <2>3, <2>7
<1> QED
  BY <1>7

\* E of a union is the size of a member, or nothing.
LEMMA UnionEnd ==
  ASSUME TypeOK, NEW E \in [0..Len(members) -> Nat], E[0] = 0,
         \A i \in DOMAIN members : E[i] = After("union", members[i], E[i - 1])
  PROVE  E[Len(members)] = 0 \/ \E i \in DOMAIN members : members[i].size = E[Len(members)]
<1> DEFINE n == Len(members)
           T == {i \in 0..n : E[i] = E[n]}
<1>0. n \in Nat /\ DOMAIN members = 1..n
  BY MemberFacts
<1>1. T \in SUBSET (0..n) /\ T # {}
  BY <1>0
<1> HIDE DEF T
<1>2. PICK i \in T : \A j \in 0..(i - 1) : j \notin T
  BY <1>0, <1>1, LeastElement
<1>3. i \in 0..n /\ E[i] = E[n]
  BY <1>2 DEF T
<1>4. CASE i = 0
  BY <1>3, <1>4
<1>5. CASE i # 0
  <2>1. i - 1 \in 0..(i - 1) /\ i - 1 \in 0..n /\ i \in 1..n
    BY <1>0, <1>3, <1>5
  <2>2. E[i - 1] # E[i]
    BY <1>2, <1>3, <2>1 DEF T
  <2>3. E[i] = After("union", members[i], E[i - 1])
    BY <1>0, <2>1
  <2>4. E[i] = members[i].size
    BY <2>2, <2>3 DEF After
  <2> QED
    BY <1>0, <1>3, <2>1, <2>4
<1> QED
  BY <1>4, <1>5

\* The largest alignment is that of a member, or 1.
LEMMA AlignOfMember ==
  ASSUME LInv, phase \in {"init", "ready"}
  PROVE  align = 1 \/ \E i \in DOMAIN members : members[i].align = align
<1>1. TypeOK /\ before # <<>> /\ before = <<place, align, size>>
  BY DEF LInv, Phases, Aligned
<1>2. Covers(align, Len(members))
  BY <1>1 DEF LInv, Kept
<1> QED
  BY <1>1, <1>2, MemberFacts DEF Covers

\* Whatever the members, the struct or union is laid out as the System V ABI
\* has it: each member at the first bit behind the one before it where it fits,
\* and the least size that holds them all and is a multiple of the alignment.
THEOREM LayoutIsAbi == Spec => []AsAbi
<1>1. LInv => AsAbi
  <2> SUFFICES ASSUME LInv, phase \in {"init", "ready"}
               PROVE  /\ \A i \in DOMAIN members : members[i].width # 0 => Start(i) = AbiStart(i)
                      /\ \A i \in DOMAIN members : align >= members[i].align
                      /\ align = 1 \/ \E i \in DOMAIN members : align = members[i].align
                      /\ LET used(i) == IF kind = "struct" THEN AbiEnd[i] ELSE TypeBits(members[i])
                             most == 8 * size
                         IN  /\ most % (8 * align) = 0
                             /\ \A i \in DOMAIN members : used(i) <= most
                             /\ most = 0 \/ \E i \in DOMAIN members : used(i) > most - 8 * align
    BY DEF AsAbi
  <2>0. /\ TypeOK /\ Len(members) \in Nat /\ DOMAIN members = 1..Len(members)
        /\ kind \in {"struct", "union"} /\ size \in Nat
        /\ \A i \in DOMAIN members : members[i] \in Declarators
    BY MemberFacts DEF LInv, TypeOK
  <2>1. PICK E \in [0..Len(members) -> Nat] :
          /\ E[0] = 0
          /\ \A i \in DOMAIN members : /\ E[i] = After(kind, members[i], E[i - 1])
                                       /\ place[i] = At(kind, members[i], E[i - 1])
          /\ \A i, j \in 0..Len(members) : i <= j => E[i] <= E[j]
          /\ \A i \in DOMAIN members : members[i].align <= align
          /\ align \in Powers /\ size = SizeOf(kind, E[Len(members)], align)
    BY LaidOut
  <2>2. \A i \in DOMAIN members : members[i].align \in Nat /\ members[i].size \in Nat
    <3>1. \A d \in Declarators : d.align \in Powers /\ d.size \in Nat
      BY DeclaratorFacts
    <3>2. Powers \subseteq Nat
      BY DEF Powers
    <3> QED
      BY <2>0, <3>1, <3>2
  <2>3. align \in Nat
    BY <2>1 DEF Powers
  <2>4. \A i \in DOMAIN members : i \in 0..Len(members) /\ i - 1 \in 0..Len(members)
    BY <2>0
  <2>5. \A i \in DOMAIN members : align >= members[i].align
    BY <2>1, <2>2, <2>3
  <2>6. align = 1 \/ \E i \in DOMAIN members : align = members[i].align
    BY AlignOfMember
  <2> DEFINE n == Len(members)
             all == E[n]
             most == 8 * size
  <2>7. all \in Nat /\ most \in Nat
    BY <2>0, <2>1
  <2>8. CASE kind = "struct"
    <3>1. \A i \in 0..n : AbiEnd[i] = E[i]
      BY <2>0, <2>1, <2>8, AbiEndIs
    <3>2. ASSUME NEW i \in DOMAIN members, members[i].width # 0
          PROVE  Start(i) = AbiStart(i)
      <4>1. E[i - 1] \in Nat /\ AbiEnd[i - 1] = E[i - 1]
        BY <2>1, <2>4, <3>1
      <4>2. place[i] = At("struct", members[i], E[i - 1])
        BY <2>1, <2>8
      <4>3. 8 * place[i].offset + place[i].bit_offset = FirstFit(members[i], E[i - 1])
        BY <2>0, <3>2, <4>1, <4>2, PutIsFirstFit
      <4> QED
        BY <2>8, <4>1, <4>3 DEF Start, AbiStart
    <3>3. most = align_to(all, 8 * align)
      BY <2>1, <2>7, <2>8, SizeType
    <3> HIDE DEF all, most
    <3>4. most % (8 * align) = 0 /\ most >= all /\ all > most - 8 * align
      BY <2>1, <2>7, <3>3, AlignTo, NearestMultiple
    <3>5. ASSUME NEW i \in DOMAIN members
          PROVE  AbiEnd[i] <= most
      <4>1. AbiEnd[i] = E[i] /\ E[i] \in Nat /\ E[i] <= all
        BY <2>0, <2>1, <2>4, <3>1 DEF all
      <4> QED
        BY <2>7, <3>4, <4>1
    <3>6. CASE n = 0
      <4>1. all = 0
        BY <2>1, <3>6 DEF all
      <4>2. most = 0
        BY <2>1, <2>7, <3>3, <4>1, NearestMultiple
      <4> QED
        BY <2>5, <2>6, <2>8, <3>2, <3>4, <3>5, <4>2 DEF most
    <3>7. CASE n # 0
      <4>1. n \in DOMAIN members /\ AbiEnd[n] = all
        BY <2>0, <3>1, <3>7 DEF all
      <4>2. \E i \in DOMAIN members : AbiEnd[i] > most - 8 * align
        BY <3>4, <4>1
      <4> QED
        BY <2>5, <2>6, <2>8, <3>2, <3>4, <3>5, <4>2 DEF most
    <3> QED
      BY <3>6, <3>7
  <2>9. CASE kind = "union"
    <3>1. ASSUME NEW i \in DOMAIN members
          PROVE  Start(i) = AbiStart(i)
      <4>1. place[i] = Zero
        BY <2>1, <2>9 DEF At
      <4> QED
        BY <2>9, <4>1 DEF Start, AbiStart, Zero
    <3>2. size = align_to(all, align)
      BY <2>1, <2>7, <2>9, SizeType
    <3>3. all = 0 \/ \E i \in DOMAIN members : members[i].size = all
      BY <2>0, <2>1, <2>9, UnionEnd
    <3>4. ASSUME NEW i \in DOMAIN members
          PROVE  members[i].size <= all
      <4>1. E[i] \in Nat /\ E[i - 1] \in Nat /\ E[i] = After("union", members[i], E[i - 1]) /\ E[i] <= all
        BY <2>0, <2>1, <2>4, <2>9
      <4> HIDE DEF all
      <4> QED
        BY <2>2, <2>7, <4>1 DEF After
    <3> HIDE DEF all
    <3>5. size % align = 0 /\ size >= all /\ all > size - align
      BY <2>1, <2>7, <3>2, AlignTo, NearestMultiple
    <3>6. most % (8 * align) = 0
      BY <2>0, <2>1, <3>5, BytesToBits
    <3>7. \A i \in DOMAIN members : TypeBits(members[i]) <= most
      BY <2>0, <2>2, <2>7, <3>4, <3>5 DEF TypeBits
    <3>8. most = 0 \/ \E i \in DOMAIN members : TypeBits(members[i]) > most - 8 * align
      <4>1. CASE all = 0
        <5>1. size = 0
          BY <2>1, <2>7, <3>2, <4>1, NearestMultiple
        <5> QED
          BY <5>1
      <4>2. CASE \E i \in DOMAIN members : members[i].size = all
        BY <2>0, <2>2, <2>3, <2>7, <3>5, <4>2 DEF TypeBits
      <4> QED
        BY <3>3, <4>1, <4>2
    <3> QED
      BY <2>5, <2>6, <2>9, <3>1, <3>6, <3>7, <3>8 DEF most
  <2> QED
    BY <2>0, <2>8, <2>9
<1> QED
  BY <1>1, LayoutInvariant, PTL

(***************************************************************************)
(*                                                                         *)
(* What is stored in a member is read from it.                             *)
(*                                                                         *)
(***************************************************************************)

(***************************************************************************)
(* Shifts, reads and stores, bit by bit.                                   *)
(***************************************************************************)
LEMMA ShlIs ==
  ASSUME NEW r \in SUBSET Int, NEW n \in Int, NEW b \in Int
  PROVE  b \in shl(r, n) <=> b \in Word /\ b - n \in r
<1>1. b - n \in r => b \in {c + n : c \in r}
  <2>1. (b - n) + n = b
    OBVIOUS
  <2> QED
    BY <2>1
<1>2. \A c \in r : b = c + n => b - n = c
  OBVIOUS
<1> QED
  BY <1>1, <1>2 DEF shl

LEMMA ShrIs ==
  ASSUME NEW r \in SUBSET Int, NEW n \in Int, NEW b \in Int
  PROVE  b \in shr(r, n) <=> b \in Word /\ b + n \in r
<1>1. b + n \in r => b \in {c - n : c \in r}
  <2>1. (b + n) - n = b
    OBVIOUS
  <2> QED
    BY <2>1
<1>2. \A c \in r : b = c - n => b + n = c
  OBVIOUS
<1> QED
  BY <1>1, <1>2 DEF shr

LEMMA ReadIs ==
  ASSUME TypeOK, NEW i \in DOMAIN members, NEW b \in Int
  PROVE  b \in read_buf(i) <=>
           b \in 0..(TypeBits(members[i]) - 1) /\ 8 * place[i].offset + b \in mem
<1> DEFINE at == 8 * place[i].offset
<1>1. at \in Nat /\ mem \subseteq Int
  BY MemberFacts DEF TypeOK
<1> HIDE DEF at
<1>2. at + b \in mem => b \in {c - at : c \in mem}
  <2>1. (at + b) - at = b
    BY <1>1
  <2> QED
    BY <2>1
<1>3. \A c \in mem : b = c - at => at + b = c
  BY <1>1
<1>4. read_buf(i) = {c - at : c \in mem} \cap 0..(TypeBits(members[i]) - 1)
  BY DEF read_buf, at
<1>5. b \in read_buf(i) <=> b \in 0..(TypeBits(members[i]) - 1) /\ at + b \in mem
  BY <1>2, <1>3, <1>4
<1> QED
  BY <1>5 DEF at

\* A store gives one unit the low bits of a register.
LEMMA WriteIs ==
  ASSUME TypeOK, NEW i \in DOMAIN members, NEW r \in SUBSET Int, NEW b \in Int
  PROVE  LET at == 8 * place[i].offset
         IN  b \in write_buf(i, r) <=>
               IF b \in at..(at + TypeBits(members[i]) - 1) THEN b - at \in r ELSE b \in mem
<1> DEFINE at == 8 * place[i].offset
           n  == TypeBits(members[i])
<1>1. at \in Nat /\ n \in Nat
  BY MemberFacts, DeclaratorFacts DEF TypeBits
<1>2. write_buf(i, r) = (mem \ at..(at + n - 1)) \cup {at + c : c \in r \cap 0..(n - 1)}
  BY DEF write_buf
<1> HIDE DEF at, n
<1>3. b \in {at + c : c \in r \cap 0..(n - 1)} <=> b \in at..(at + n - 1) /\ b - at \in r
  <2>1. at + (b - at) = b
    BY <1>1
  <2>2. b \in at..(at + n - 1) => b - at \in 0..(n - 1)
    BY <1>1
  <2>3. \A c \in r \cap 0..(n - 1) : b = at + c => b - at = c /\ b \in at..(at + n - 1)
    BY <1>1
  <2> QED
    BY <2>1, <2>2, <2>3
<1>4. b \in write_buf(i, r) <=> IF b \in at..(at + n - 1) THEN b - at \in r ELSE b \in mem
  BY <1>2, <1>3
<1> QED
  BY <1>4 DEF at, n

(***************************************************************************)
(* Where members are.                                                      *)
(***************************************************************************)
Usable == LInv /\ phase \in {"init", "ready"}

\* A member lies in its unit.
LEMMA InUnit ==
  ASSUME Usable, NEW i \in DOMAIN members, members[i].width # 0
  PROVE  /\ place[i].offset \in Nat /\ place[i].bit_offset \in Nat /\ Start(i) \in Nat
         /\ Start(i) = 8 * place[i].offset + place[i].bit_offset
         /\ Width(members[i]) \in Nat /\ TypeBits(members[i]) \in Nat
         /\ place[i].bit_offset + Width(members[i]) <= TypeBits(members[i])
         /\ Stop(i) = Start(i) + Width(members[i])
         /\ IsBitfield(members[i]) => /\ members[i].width \in 1..31
                                      /\ Width(members[i]) = members[i].width
                                      /\ TypeBits(members[i]) \in {8, 16, 32, 64}
         /\ ~IsBitfield(members[i]) => /\ place[i].bit_offset = 0
                                       /\ Width(members[i]) = TypeBits(members[i])
<1> DEFINE d == members[i]
           p == place[i]
<1>0. /\ TypeOK /\ Len(members) \in Nat /\ i \in 1..Len(members) /\ d \in Declarators
      /\ kind \in {"struct", "union"} /\ p.offset \in Nat
  BY MemberFacts DEF Usable, LInv, TypeOK
<1>1. d.size \in Nat /\ TypeBits(d) = 8 * d.size
  BY <1>0, DeclaratorFacts DEF TypeBits
<1>2. PICK E \in [0..Len(members) -> Nat] : p = At(kind, d, E[i - 1])
  BY LaidOut DEF Usable
<1>3. E[i - 1] \in Nat
  BY <1>0, <1>2
<1>4. CASE ~IsBitfield(d)
  <2>1. p.bit_offset = 0
    <3>1. CASE kind = "union"
      BY <1>2, <3>1 DEF At, Zero
    <3>2. CASE kind = "struct"
      BY <1>0, <1>2, <1>3, <1>4, <3>2, MemberAt
    <3> QED
      BY <1>0, <3>1, <3>2
  <2>2. Width(d) = TypeBits(d) /\ TypeBits(d) \in Nat
    BY <1>1, <1>4 DEF Width
  <2> QED
    BY <1>0, <1>4, <2>1, <2>2 DEF Start, Stop
<1>5. CASE IsBitfield(d)
  <2>1. /\ d.width \in 1..31 /\ d.width > 0 /\ d.width \in Nat /\ d.size \in {1, 2, 4, 8}
        /\ Width(d) = d.width
    BY <1>0, <1>5, BitfieldFacts DEF Width
  <2>2. TypeBits(d) \in {8, 16, 32, 64} /\ TypeBits(d) \in Nat /\ d.width \in Nat
    <3>2. 8 * d.size \in {8, 16, 32, 64}
      BY <2>1
    <3> QED
      BY <1>1, <2>1, <3>2
  <2>3. p.bit_offset \in Nat /\ p.bit_offset + d.width <= TypeBits(d)
    <3>1. CASE kind = "union"
      <4>1. d.width <= 8 * d.size
        BY <1>0, <1>5, DeclaratorFacts
      <4>2. p.bit_offset = 0
        BY <1>2, <3>1 DEF At, Zero
      <4> QED
        BY <1>1, <2>2, <4>1, <4>2
    <3>2. CASE kind = "struct"
      <4>1. p.bit_offset \in 0..(8 * d.size - 1) /\ p.bit_offset + d.width <= 8 * d.size
        BY <1>0, <1>2, <1>3, <2>1, <3>2, BitfieldAt
      <4>2. \A n \in Nat : \A b \in 0..(8 * n - 1) : b \in Nat
        OBVIOUS
      <4> HIDE DEF p, d
      <4> QED
        BY <1>1, <4>1, <4>2
    <3>3. kind = "union" \/ kind = "struct"
      BY <1>0
    <3> HIDE DEF p, d
    <3> QED
      BY ONLY <3>1, <3>2, <3>3
  <2>4. Start(i) = 8 * p.offset + p.bit_offset /\ Start(i) \in Nat
    <3>1. Start(i) = 8 * p.offset + p.bit_offset
      BY DEF Start
    <3>2. p.offset \in Nat /\ p.bit_offset \in Nat
      BY <1>0, <2>3
    <3> HIDE DEF p
    <3> QED
      BY ONLY <3>1, <3>2
  <2>5. Stop(i) = Start(i) + Width(d)
    BY DEF Stop
  <2>6. p.bit_offset + Width(d) <= TypeBits(d) /\ Width(d) \in Nat
    BY ONLY <2>1, <2>3
  <2> QED
    BY ONLY <1>0, <1>5, <2>1, <2>2, <2>3, <2>4, <2>5, <2>6
<1> QED
  BY <1>4, <1>5

\* In a struct a member ends before the next begins.
LEMMA Apart ==
  ASSUME Usable, kind = "struct", NEW i \in DOMAIN members, NEW j \in DOMAIN members,
         members[i].width # 0, members[j].width # 0, i < j
  PROVE  Stop(i) <= Start(j)
<1>0. TypeOK /\ Len(members) \in Nat /\ DOMAIN members = 1..Len(members)
  BY MemberFacts DEF Usable, LInv
<1>1. PICK E \in [0..Len(members) -> Nat] :
        /\ \A k \in DOMAIN members : /\ E[k] = After(kind, members[k], E[k - 1])
                                     /\ place[k] = At(kind, members[k], E[k - 1])
        /\ \A k, l \in 0..Len(members) : k <= l => E[k] <= E[l]
  BY LaidOut DEF Usable
<1>2. ASSUME NEW k \in DOMAIN members, members[k].width # 0
      PROVE  E[k - 1] <= Start(k) /\ Stop(k) = E[k]
  <2> DEFINE d == members[k]
             e == E[k - 1]
  <2>1. d \in Declarators /\ e \in Nat /\ place[k] = At("struct", d, e)
    BY <1>0, <1>1, MemberFacts
  <2>2. Start(k) \in Nat /\ Start(k) = 8 * place[k].offset + place[k].bit_offset
        /\ Stop(k) = Start(k) + Width(d) /\ Width(d) \in Nat
    BY <1>2, InUnit
  <2>3. CASE IsBitfield(d)
    <3>1. d.width > 0
      BY <1>2, <2>1, <2>3, BitfieldFacts
    <3>2. Start(k) = From(d, e) /\ From(d, e) >= e
      BY <2>1, <2>2, <3>1, BitfieldAt
    <3>3. E[k] = From(d, e) + Width(d)
      BY <1>1, <1>2, <2>3 DEF After, Width
    <3> QED
      BY <2>2, <3>2, <3>3
  <2>4. CASE ~IsBitfield(d)
    <3>1. /\ place[k].bit_offset = 0 /\ 8 * place[k].offset = align_to(e, 8 * d.align)
          /\ 8 * place[k].offset >= e /\ place[k].offset \in Nat
      BY <2>1, <2>4, MemberAt
    <3>2. E[k] = align_to(e, 8 * d.align) + Width(d)
      BY <1>1, <1>2, <2>4 DEF After, Width
    <3> QED
      BY <2>2, <3>1, <3>2
  <2> QED
    BY <2>3, <2>4
<1>3. E[i] <= E[j - 1] /\ E[i] \in Nat /\ E[j - 1] \in Nat
  BY <1>0, <1>1
<1>4. Start(j) \in Nat /\ Stop(i) = E[i] /\ E[j - 1] <= Start(j)
  BY <1>2, InUnit
<1> QED
  BY <1>3, <1>4

(***************************************************************************)
(* A member as it is in memory, and stores.                                *)
(***************************************************************************)
Field(i) == {b \in 0..(Width(members[i]) - 1) : Start(i) + b \in mem}

\* What a store of v to member i makes of memory m.
Stored(m, i, v) ==
  \A b \in Nat : b \in m <=> IF b \in Start(i)..(Stop(i) - 1) THEN b - Start(i) \in v ELSE b \in mem

LEMMA LoadIs ==
  ASSUME TypeOK, NEW i \in DOMAIN members, NEW b \in 0..(TypeBits(members[i]) - 1)
  PROVE  b \in load(i) <=> 8 * place[i].offset + b \in mem
<1>1. TypeBits(members[i]) \in Nat
  BY MemberFacts, DeclaratorFacts DEF TypeBits
<1>2. b \in Int /\ \A n \in Int : b \notin TypeBits(members[i])..n
  BY <1>1
<1>3. b \in load(i) <=> b \in read_buf(i)
  BY <1>2 DEF load
<1> QED
  BY <1>2, <1>3, ReadIs

\* A plain member is all of its unit.
LEMMA WholeIs ==
  ASSUME Usable, NEW i \in DOMAIN members, ~IsBitfield(members[i]), members[i].width # 0,
         NEW v \in SUBSET Word
  PROVE  Stored(write_buf(i, v), i, v)
<1> SUFFICES ASSUME NEW b \in Nat
             PROVE  b \in write_buf(i, v) <=>
                      IF b \in Start(i)..(Stop(i) - 1) THEN b - Start(i) \in v ELSE b \in mem
  BY DEF Stored
<1> DEFINE at == 8 * place[i].offset
           n  == TypeBits(members[i])
<1>1. TypeOK /\ v \in SUBSET Int
  BY DEF Usable, LInv, Word
<1>2. b \in write_buf(i, v) <=> IF b \in at..(at + n - 1) THEN b - at \in v ELSE b \in mem
  BY <1>1, WriteIs
<1>3. Start(i) = at /\ Stop(i) = at + n /\ at \in Nat /\ n \in Nat
  BY InUnit
<1> HIDE DEF at, n
<1> QED
  BY <1>2, <1>3

\* An assignment changes the bits of its member and no other.
LEMMA AssignedIs ==
  ASSUME Usable, NEW i \in DOMAIN members, members[i].width # 0, NEW v \in SUBSET Word
  PROVE  Stored(Assigned(i, v), i, v)
<1> SUFFICES ASSUME NEW b \in Nat
             PROVE  b \in Assigned(i, v) <=>
                      IF b \in Start(i)..(Stop(i) - 1) THEN b - Start(i) \in v ELSE b \in mem
  BY DEF Stored
<1> DEFINE d  == members[i]
           w  == d.width
           bo == place[i].bit_offset
           at == 8 * place[i].offset
           n  == TypeBits(d)
<1>0. TypeOK /\ v \in SUBSET Int /\ Word \subseteq Int
  BY DEF Usable, LInv, Word
<1>1. CASE ~IsBitfield(d)
  <2>1. Assigned(i, v) = write_buf(i, v)
    BY <1>1 DEF Assigned
  <2> QED
    BY <1>1, <2>1, WholeIs DEF Stored
<1>2. CASE IsBitfield(d)
  <2> DEFINE rdi == shl(v \cap mask(w), bo)
             r9  == Word \ shl(mask(w), bo)
             r   == (load(i) \cap r9) \cup rdi
  <2>1. /\ at \in Nat /\ bo \in Nat /\ w \in 1..31 /\ n \in {8, 16, 32, 64} /\ bo + w <= n
        /\ Start(i) = at + bo /\ Stop(i) = at + bo + w
    BY <1>2, InUnit
  <2>2. mask(w) \in SUBSET Int /\ v \cap mask(w) \in SUBSET Int /\ mask(w) = 0..(w - 1)
    BY <2>1 DEF mask
  <2>3. rdi \in SUBSET Int /\ load(i) \in SUBSET Int /\ r \in SUBSET Int
    <3>1. shl(v \cap mask(w), bo) \subseteq Word
      BY <2>1, <2>2, RegisterType
    <3>2. load(i) \subseteq Int
      BY <1>0, LoadType
    <3> QED
      BY <1>0, <3>1, <3>2
  <2>4. b \in Assigned(i, v) <=> IF b \in at..(at + n - 1) THEN b - at \in r ELSE b \in mem
    <3>1. Assigned(i, v) = write_buf(i, r)
      BY <1>2 DEF Assigned
    <3> HIDE DEF r
    <3> QED
      BY <1>0, <2>3, <3>1, WriteIs
  <2>5. ASSUME b \in at..(at + n - 1)
        PROVE  b - at \in r <=> IF b - at - bo \in 0..(w - 1) THEN b - at - bo \in v ELSE b \in mem
    <3> DEFINE c == b - at
    <3>1. c \in 0..(n - 1) /\ c \in Int /\ c \in Word
      BY <2>1, <2>5 DEF Word
    <3> HIDE DEF c
    <3>7. bo \in Int
      BY <2>1
    <3>2. c \in rdi <=> c - bo \in v \cap mask(w)
      <4> HIDE DEF bo
      <4> QED
        BY <2>2, <3>1, <3>7, ShlIs
    <3>3. c \in r9 <=> ~(c - bo \in mask(w))
      <4> HIDE DEF bo
      <4> QED
        BY <2>2, <3>1, <3>7, ShlIs
    <3>4. c \in load(i) <=> at + c \in mem
      BY <1>0, <3>1, LoadIs
    <3>5. at + c = b
      BY <2>1 DEF c
    <3> HIDE DEF rdi, r9
    <3>6. c \in r <=> IF c - bo \in 0..(w - 1) THEN c - bo \in v ELSE b \in mem
      BY <2>2, <3>2, <3>3, <3>4, <3>5
    <3> QED
      BY <3>6 DEF c
  <2> HIDE DEF r, at, bo, n, w
  <2>6. CASE b \in at..(at + n - 1)
    <3>1. b - at - bo \in 0..(w - 1) <=> b \in Start(i)..(Stop(i) - 1)
      BY <2>1, <2>6
    <3>2. b - at - bo = b - Start(i)
      BY <2>1
    <3> QED
      BY <2>4, <2>5, <2>6, <3>1, <3>2
  <2>7. CASE b \notin at..(at + n - 1)
    <3>1. b \notin Start(i)..(Stop(i) - 1)
      BY <2>1, <2>7
    <3> QED
      BY <2>4, <2>7, <3>1
  <2> QED
    BY <2>6, <2>7
<1> QED
  BY <1>1, <1>2

\* Or-ing a bit-field into its unit is the same, if no bit is one from there on.
LEMMA OredIs ==
  ASSUME Usable, NEW i \in DOMAIN members, IsBitfield(members[i]), members[i].width # 0,
         NEW v \in SUBSET Word, \A b \in mem : b < Start(i)
  PROVE  Stored(write_buf(i, read_buf(i) \cup shl(v \cap mask(members[i].width), place[i].bit_offset)), i, v)
<1> DEFINE d   == members[i]
           w   == d.width
           bo  == place[i].bit_offset
           at  == 8 * place[i].offset
           n   == TypeBits(d)
           rdi == shl(v \cap mask(w), bo)
           r   == read_buf(i) \cup rdi
<1> SUFFICES ASSUME NEW b \in Nat
             PROVE  b \in write_buf(i, r) <=>
                      IF b \in Start(i)..(Stop(i) - 1) THEN b - Start(i) \in v ELSE b \in mem
  BY DEF Stored
<1>0. TypeOK /\ v \in SUBSET Int /\ Word \subseteq Int
  BY DEF Usable, LInv, Word
<1>1. /\ at \in Nat /\ bo \in Nat /\ w \in 1..31 /\ n \in {8, 16, 32, 64} /\ bo + w <= n
      /\ Start(i) = at + bo /\ Stop(i) = at + bo + w
  BY InUnit
<1>2. v \cap mask(w) \in SUBSET Int /\ mask(w) = 0..(w - 1)
  BY <1>1 DEF mask
<1>3. rdi \subseteq Word /\ read_buf(i) \subseteq Int
  BY <1>0, <1>1, <1>2, RegisterType, LoadType
<1>4. b \in write_buf(i, r) <=> IF b \in at..(at + n - 1) THEN b - at \in r ELSE b \in mem
  <2>1. r \in SUBSET Int
    BY <1>0, <1>3
  <2> HIDE DEF r
  <2> QED
    BY <1>0, <2>1, WriteIs
<1>5. ASSUME b \in at..(at + n - 1)
      PROVE  b - at \in r <=> IF b - at - bo \in 0..(w - 1) THEN b - at - bo \in v ELSE b \in mem
  <2> DEFINE c == b - at
  <2>1. c \in 0..(n - 1) /\ c \in Int /\ c \in Word
    BY <1>1, <1>5 DEF Word
  <2>2. at + c = b /\ bo \in Int /\ (c - bo \in 0..(w - 1) => b >= Start(i))
    BY <1>1
  <2> HIDE DEF c, bo
  <2>3. c \in rdi <=> c - bo \in v \cap mask(w)
    BY <1>2, <2>1, <2>2, ShlIs
  <2>4. c \in read_buf(i) <=> at + c \in mem
    BY <1>0, <2>1, ReadIs
  <2>5. c - bo \in 0..(w - 1) => b \notin mem
    BY <1>1, <2>2
  <2> HIDE DEF rdi, at, w
  <2>6. c \in r <=> IF c - bo \in 0..(w - 1) THEN c - bo \in v ELSE b \in mem
    BY <1>2, <2>2, <2>3, <2>4, <2>5
  <2> QED
    BY <2>6 DEF c
<1> HIDE DEF r, at, bo, n, w
<1>6. CASE b \in at..(at + n - 1)
  <2>1. b - at - bo \in 0..(w - 1) <=> b \in Start(i)..(Stop(i) - 1)
    BY <1>1, <1>6
  <2>2. b - at - bo = b - Start(i)
    BY <1>1
  <2> QED
    BY <1>4, <1>5, <1>6, <2>1, <2>2
<1>7. CASE b \notin at..(at + n - 1)
  <2>1. b \notin Start(i)..(Stop(i) - 1)
    BY <1>1, <1>7
  <2> QED
    BY <1>4, <1>7, <2>1
<1> QED
  BY <1>6, <1>7

\* What a store leaves in its member, and in the others of a struct.
LEMMA StoredField ==
  ASSUME Usable, NEW i \in DOMAIN members, members[i].width # 0, NEW v \in SUBSET Word,
         members' = members, place' = place, Stored(mem', i, v)
  PROVE  /\ Field(i)' = Low(i, v)
         /\ kind = "struct" => \A j \in DOMAIN members : j # i => Field(j)' = Field(j)
<1>0. Start(i)' = Start(i) /\ Field(i)' = {b \in 0..(Width(members[i]) - 1) : Start(i) + b \in mem'}
  BY DEF Start, Field
<1>1. Start(i) \in Nat /\ Width(members[i]) \in Nat /\ Stop(i) = Start(i) + Width(members[i])
  BY InUnit
<1>2. ASSUME NEW b \in 0..(Width(members[i]) - 1)
      PROVE  Start(i) + b \in mem' <=> b \in v
  <2>1. Start(i) + b \in Nat /\ Start(i) + b \in Start(i)..(Stop(i) - 1) /\ (Start(i) + b) - Start(i) = b
    BY <1>1
  <2> QED
    BY <2>1 DEF Stored
<1>3. Field(i)' = Low(i, v)
  BY <1>0, <1>2 DEF Low
<1>4. ASSUME kind = "struct", NEW j \in DOMAIN members, j # i
      PROVE  Field(j)' = Field(j)
  <2>1. Field(j)' = {b \in 0..(Width(members[j]) - 1) : Start(j) + b \in mem'}
    BY DEF Start, Field
  <2>2. CASE members[j].width = 0
    <3>1. Width(members[j]) = 0
      BY <2>2 DEF Width, IsBitfield, NoWidth
    <3> QED
      BY <2>1, <3>1 DEF Field
  <2>3. CASE members[j].width # 0
    <3>1. Start(j) \in Nat /\ Width(members[j]) \in Nat /\ Stop(j) = Start(j) + Width(members[j])
      BY <2>3, InUnit
    <3>2. i \in Nat /\ j \in Nat
      BY MemberFacts DEF Usable, LInv
    <3>3. Stop(i) <= Start(j) \/ Stop(j) <= Start(i)
      BY <1>4, <2>3, <3>2, Apart
    <3>4. ASSUME NEW b \in 0..(Width(members[j]) - 1)
          PROVE  Start(j) + b \in mem' <=> Start(j) + b \in mem
      <4>1. Start(j) + b \in Nat /\ Start(j) + b \notin Start(i)..(Stop(i) - 1)
        BY <1>1, <3>1, <3>3
      <4> QED
        BY <4>1 DEF Stored
    <3> QED
      BY <2>1, <3>4 DEF Field
  <2> QED
    BY <2>2, <2>3
<1> QED
  BY <1>3, <1>4

\* The code for reading a member leaves its bits, extended.
LEMMA ReadsField ==
  ASSUME Usable, NEW i \in DOMAIN members, members[i].width # 0
  PROVE  /\ IsBitfield(members[i]) => Read(i) = Extended(members[i], Field(i))
         /\ ~IsBitfield(members[i]) => Low(i, Read(i)) = Field(i)
<1> DEFINE d  == members[i]
           w  == d.width
           bo == place[i].bit_offset
           at == 8 * place[i].offset
           n  == TypeBits(d)
<1>0. TypeOK /\ load(i) \in SUBSET Int
  BY LoadType DEF Usable, LInv
<1>1. ASSUME ~IsBitfield(d) PROVE Low(i, Read(i)) = Field(i)
  <2>1. Read(i) = load(i) /\ Width(d) = n /\ Start(i) = at /\ Width(d) \in Nat
    BY <1>1, InUnit DEF Read
  <2>2. \A b \in 0..(n - 1) : b \in load(i) <=> at + b \in mem
    BY <1>0, LoadIs
  <2> HIDE DEF at, n
  <2> QED
    BY <2>1, <2>2 DEF Low, Field
<1>2. ASSUME IsBitfield(d) PROVE Read(i) = Extended(d, Field(i))
  <2> DEFINE up == shl(load(i), 64 - w - bo)
             F  == Field(i)
  <2>1. /\ at \in Nat /\ bo \in Nat /\ w \in 1..31 /\ n \in {8, 16, 32, 64} /\ bo + w <= n
        /\ Start(i) = at + bo /\ Width(d) = w
    BY <1>2, InUnit
  <2>2. \A b \in 0..(n - 1) : b \in load(i) <=> at + b \in mem
    BY <1>0, LoadIs
  <2>3. \A b \in Int : b \in F <=> b \in 0..(w - 1) /\ at + bo + b \in mem
    BY <2>1 DEF Field
  <2>4. 64 - w - bo \in Int /\ 64 - w \in Int /\ 64 - (64 - w) = w
    BY <2>1
  <2>5. up \in SUBSET Int
    BY <1>0, <2>4, RegisterType DEF Word
  <2>6. \A b \in Int : b \in up <=> b \in Word /\ b - (64 - w - bo) \in load(i)
    BY <1>0, <2>4, ShlIs
  <2> HIDE DEF up, F, at, bo, w, n
  <2>7. ASSUME NEW b \in Int PROVE b \in shr(up, 64 - w) <=> b \in F
    <3>1. b \in shr(up, 64 - w) <=> b \in Word /\ b + (64 - w) \in up
      BY <2>4, <2>5, ShrIs
    <3>2. b + (64 - w) \in up <=> b + (64 - w) \in Word /\ b + bo \in load(i)
      <4> DEFINE c == b + (64 - w)
      <4>1. c - (64 - w - bo) = b + bo /\ c \in Int
        BY <2>1
      <4> HIDE DEF c
      <4>2. c \in up <=> c \in Word /\ c - (64 - w - bo) \in load(i)
        BY <2>6, <4>1
      <4>3. c \in up <=> c \in Word /\ b + bo \in load(i)
        BY <4>1, <4>2
      <4> QED
        BY <4>3 DEF c
    <3>3. b \in Word /\ b + (64 - w) \in Word <=> b \in 0..(w - 1)
      BY <2>1 DEF Word
    <3>4. b \in 0..(w - 1) => (b + bo \in load(i) <=> at + bo + b \in mem)
      <4>1. b \in 0..(w - 1) => b + bo \in 0..(n - 1)
        BY <2>1
      <4>2. at + (b + bo) = at + bo + b
        BY <2>1
      <4> QED
        BY <2>2, <4>1, <4>2
    <3> QED
      BY <2>3, <3>1, <3>2, <3>3, <3>4
  <2>8. shr(up, 64 - w) = F
    <3>1. shr(up, 64 - w) \subseteq Int
      BY DEF shr, Word
    <3>2. F \subseteq Int
      BY <2>1 DEF F, Field
    <3> QED
      BY <2>7, <3>1, <3>2
  <2>9. 63 \in up <=> w - 1 \in F
    <3>1. 63 - (64 - w - bo) = bo + w - 1 /\ 63 \in Word /\ bo + w - 1 \in 0..(n - 1)
      BY <2>1 DEF Word
    <3>2. w - 1 \in 0..(w - 1) /\ w - 1 \in Int /\ at + (bo + w - 1) = at + bo + (w - 1)
      BY <2>1
    <3> QED
      BY <2>2, <2>3, <2>6, <3>1, <3>2
  <2>10. Read(i) = IF d.unsigned THEN shr(up, 64 - w) ELSE sar(up, 64 - w)
    BY <1>2 DEF Read, up, w, bo
  <2>11. sar(up, 64 - w) = F \cup IF w - 1 \in F THEN w..63 ELSE {}
    BY <2>4, <2>8, <2>9 DEF sar
  <2>12. Extended(d, F) = IF ~d.unsigned /\ w - 1 \in F THEN F \cup w..63 ELSE F
    BY DEF Extended, w
  <2> QED
    BY <2>8, <2>10, <2>11, <2>12 DEF F
<1> QED
  BY <1>1, <1>2

(***************************************************************************)
(* The inductive invariant: while the initializer is written, the members  *)
(* up to pos hold their values, and from there on the struct is zero.      *)
(***************************************************************************)
Below(n) == \A j \in n..Len(members) : members[j].width # 0 => \A b \in mem : b < Start(j)

Written ==
  /\ kind = "struct" => (\A i \in 1..(pos - 1) : Field(i) = value[i]) /\ Below(pos)
  /\ kind = "union" => /\ (\A i \in 1..(pos - 1) : inits[i] = None) => mem = {}
                       /\ \A i \in 1..(pos - 1) : inits[i] # None => Field(i) = value[i]

Filled == \A i \in DOMAIN members : value[i] # None => Field(i) = value[i]

MInv ==
  /\ LInv
  /\ before = <<>> => mem = {}
  /\ phase = "init" => inits \in Initializers /\ value = Defined(inits) /\ Written
  /\ before # <<>> /\ phase # "init" => Filled

LEMMA EmptyField ==
  ASSUME Usable, NEW i \in DOMAIN members,
         members[i].width = 0 \/ \A b \in mem : b < Start(i)
  PROVE  Field(i) = {}
<1>1. CASE members[i].width = 0
  <2>1. Width(members[i]) = 0
    BY <1>1 DEF Width, IsBitfield, NoWidth
  <2> QED
    BY <2>1 DEF Field
<1>2. CASE members[i].width # 0 /\ \A b \in mem : b < Start(i)
  <2>1. Start(i) \in Nat /\ Width(members[i]) \in Nat
    BY <1>2, InUnit
  <2>2. \A b \in 0..(Width(members[i]) - 1) : ~(Start(i) + b < Start(i))
    BY <2>1
  <2> QED
    BY <1>2, <2>2 DEF Field
<1> QED
  BY <1>1, <1>2

LEMMA SameField ==
  ASSUME members' = members, place' = place, mem' = mem, NEW i
  PROVE  Field(i)' = Field(i) /\ Start(i)' = Start(i)
BY DEF Field, Start

\* What an initializer gives, and what it defines.
LEMMA GivenIs ==
  ASSUME TypeOK, inits \in Initializers, value = Defined(inits), NEW i \in DOMAIN members
  PROVE  /\ inits[i] # None => /\ inits[i] \in SUBSET Word /\ members[i].width # 0
                               /\ value[i] = Low(i, inits[i])
         /\ inits[i] = None => value[i] \in {None, {}}
         /\ inits[i] = None /\ kind = "struct" => value[i] = {}
         /\ value[i] # None /\ inits[i] = None /\ kind = "union" => \A j \in DOMAIN members : inits[j] = None
         /\ kind = "union" /\ inits[i] # None => \A j \in DOMAIN members : j # i => inits[j] = None
<1>1. inits[i] \in Values \cup {None} /\ Values \subseteq SUBSET Word
  BY ValuesAssumption DEF Initializers, Word
<1>2. inits[i] # None => members[i].width # 0
  BY MemberFacts, DeclaratorFacts DEF Initializers
<1>3. value[i] = IF inits[i] # None THEN Low(i, inits[i])
                 ELSE IF kind = "union" /\ \E j \in DOMAIN members : inits[j] # None THEN None ELSE {}
  BY DEF Defined
<1>4. kind = "union" => \A j \in DOMAIN members : i = j \/ inits[i] = None \/ inits[j] = None
  BY DEF Initializers
<1>5. CASE inits[i] # None
  <2>1. inits[i] \in SUBSET Word /\ value[i] = Low(i, inits[i])
    BY <1>1, <1>3, <1>5
  <2>2. kind = "union" => \A j \in DOMAIN members : j # i => inits[j] = None
    BY <1>4, <1>5
  <2> QED
    BY <1>2, <1>5, <2>1, <2>2
<1>6. CASE inits[i] = None
  <2>1. value[i] = IF kind = "union" /\ \E j \in DOMAIN members : inits[j] # None THEN None ELSE {}
    BY <1>3, <1>6
  <2> QED
    BY <1>6, <2>1
<1> QED
  BY <1>5, <1>6

\* One member's turn.
LEMMA WrittenOn ==
  ASSUME MInv, StaticBitfield \/ StaticMember \/ LocalMember, TypeOK'
  PROVE  Written'
<1>0. /\ TypeOK /\ Usable /\ Len(members) \in Nat /\ DOMAIN members = 1..Len(members)
      /\ pos \in DOMAIN members /\ pos \in Nat /\ phase = "init" /\ kind \in {"struct", "union"}
      /\ inits \in Initializers /\ value = Defined(inits) /\ Written
  <2>2. phase = "init" /\ pos \in DOMAIN members
    BY DEF StaticBitfield, StaticMember, LocalMember, InitTurn
  <2>1. Usable /\ TypeOK
    BY <2>2 DEF MInv, Usable, LInv
  <2>3. Len(members) \in Nat /\ DOMAIN members = 1..Len(members)
    BY <2>1, MemberFacts
  <2>4. pos \in Nat \ {0} /\ kind \in {"struct", "union"}
    BY <2>1 DEF TypeOK
  <2>6. inits \in Initializers /\ value = Defined(inits) /\ Written
    BY <2>2 DEF MInv
  <2> QED
    BY <2>1, <2>2, <2>3, <2>4, <2>6
<1>p. PICK p : p = pos
  OBVIOUS
<1>1. /\ kind' = kind /\ members' = members /\ place' = place /\ pos' = pos + 1
      /\ inits' = inits /\ value' = value
  BY DEF StaticBitfield, StaticMember, LocalMember, NextInit, layout
<1>2. \A i \in 1..(pos' - 1) : i \in 1..(pos - 1) \/ i = pos
  BY <1>0, <1>1
<1>3. mem \subseteq Nat /\ mem' \subseteq Nat
  BY <1>0 DEF TypeOK
<1>4. CASE ~Given
  <2>1. mem' = mem /\ inits[pos] = None
    BY <1>4 DEF StaticBitfield, StaticMember, LocalMember, Given
  <2>2. \A i : Field(i)' = Field(i) /\ Start(i)' = Start(i)
    BY <1>1, <2>1, SameField
  <2>3. CASE kind = "struct"
    <3>1. Below(pos) /\ \A i \in 1..(pos - 1) : Field(i) = value[i]
      BY <1>0, <2>3 DEF Written
    <3>2. Field(pos) = value[pos]
      <4>1. value[pos] = {}
        BY <1>0, <2>1, <2>3, GivenIs
      <4>2. pos \in pos..Len(members)
        BY <1>0
      <4> QED
        BY <1>0, <3>1, <4>1, <4>2, EmptyField DEF Below
    <3>3. Below(p + 1)'
      <4>1. \A j \in (pos + 1)..Len(members) : j \in pos..Len(members)
        BY <1>0
      <4> QED
        BY <1>p, <1>1, <2>1, <2>2, <3>1, <4>1 DEF Below
    <3> QED
      <4>1. \A i \in 1..(pos' - 1) : Field(i)' = value'[i]
        BY <1>1, <1>2, <2>2, <3>1, <3>2
      <4>2. Below(pos)'
        BY <1>p, <1>1, <3>3 DEF Below
      <4> QED
        BY <1>1, <2>3, <4>1, <4>2 DEF Written
  <2>4. CASE kind = "union"
    <3>1. \A i \in 1..(pos - 1) : i \in 1..(pos' - 1)
      BY <1>0, <1>1
    <3> QED
      BY <1>0, <1>1, <1>2, <2>1, <2>2, <2>4, <3>1 DEF Written
  <2> QED
    BY <1>0, <2>3, <2>4
<1>5. CASE Given
  <2> DEFINE v == inits[pos]
  <2>1. v # None /\ v \in SUBSET Word /\ members[pos].width # 0 /\ value[pos] = Low(pos, v)
    BY <1>0, <1>5, GivenIs DEF Given
  <2>2. CASE kind = "struct"
    <3>1. Below(pos) /\ \A i \in 1..(pos - 1) : Field(i) = value[i]
      BY <1>0, <2>2 DEF Written
    <3>2. \A b \in mem : b < Start(pos)
      <4>1. pos \in pos..Len(members)
        BY <1>0
      <4> QED
        BY <2>1, <3>1, <4>1 DEF Below
    <3>3. Stored(mem', pos, v)
      <4>1. CASE StaticBitfield
        <5>1. /\ IsBitfield(members[pos])
              /\ mem' = write_buf(pos, read_buf(pos) \cup
                                       shl(v \cap mask(members[pos].width), place[pos].bit_offset))
          BY <4>1 DEF StaticBitfield
        <5> QED
          BY <1>0, <2>1, <3>2, <5>1, OredIs
      <4>2. CASE StaticMember
        <5>1. ~IsBitfield(members[pos]) /\ mem' = write_buf(pos, v)
          BY <1>5, <2>2, <4>2 DEF StaticMember
        <5> QED
          BY <1>0, <2>1, <5>1, WholeIs
      <4>3. CASE LocalMember
        <5>1. mem' = Assigned(pos, v)
          BY <1>5, <4>3 DEF LocalMember
        <5> QED
          BY <1>0, <2>1, <5>1, AssignedIs
      <4> QED
        BY <4>1, <4>2, <4>3
    <3>4. Field(p)' = value[pos] /\ \A j \in DOMAIN members : j # pos => Field(j)' = Field(j)
      BY <1>p, <1>0, <1>1, <2>1, <2>2, <3>3, StoredField
    <3>5. ASSUME NEW i \in 1..(pos' - 1) PROVE Field(i)' = value'[i]
      <4>1. CASE i = pos
        BY <1>p, <1>1, <3>4, <4>1
      <4>2. CASE i \in 1..(pos - 1)
        <5>1. i \in DOMAIN members /\ i # pos
          BY <1>0, <4>2
        <5> QED
          BY <1>1, <3>1, <3>4, <4>2, <5>1
      <4> QED
        BY <1>2, <4>1, <4>2
    <3>6. ASSUME NEW j \in (pos + 1)..Len(members), members[j].width # 0, NEW b \in mem'
          PROVE  b < Start(j)
      <4>1. j \in DOMAIN members /\ pos < j /\ j \in pos..Len(members)
        BY <1>0
      <4>2. Stop(pos) <= Start(j)
        BY <1>0, <2>1, <2>2, <3>6, <4>1, Apart
      <4>3. b \in Nat /\ Start(j) \in Nat /\ Start(pos) \in Nat /\ Stop(pos) \in Int
        BY <1>0, <1>3, <2>1, <3>6, <4>1, InUnit
      <4>4. b \in Start(pos)..(Stop(pos) - 1) \/ b \in mem
        BY <3>3, <4>3 DEF Stored
      <4>5. b \in mem => b < Start(j)
        BY <3>1, <3>6, <4>1 DEF Below
      <4> QED
        BY <4>2, <4>3, <4>4, <4>5
    <3>7. Below(pos)'
      <4>1. \A j : Start(j)' = Start(j)
        BY <1>1 DEF Start
      <4> QED
        BY <1>1, <3>6, <4>1 DEF Below
    <3> QED
      BY <1>1, <2>2, <3>5, <3>7 DEF Written
  <2>3. CASE kind = "union"
    <3>1. Field(p)' = value[pos]
      <4>1. CASE LocalMember
        <5>1. Stored(mem', pos, v)
          BY <1>0, <1>5, <2>1, <4>1, AssignedIs DEF LocalMember
        <5> QED
          BY <1>p, <1>0, <1>1, <2>1, <5>1, StoredField
      <4>2. CASE ~LocalMember
        <5> DEFINE at == 8 * place[pos].offset
                   n  == TypeBits(members[pos])
                   w  == Width(members[pos])
        <5>1. mem' = write_buf(pos, v)
          BY <1>5, <2>3, <4>2 DEF StaticMember, StaticBitfield
        <5>2. at \in Nat /\ n \in Nat /\ w \in Nat /\ w <= n /\ Start(pos) = at
          <6>1. place[pos].bit_offset = 0
            <7>1. PICK E : place[pos] = At(kind, members[pos], E[pos - 1])
              BY <1>0, LaidOut DEF Usable
            <7> QED
              BY <2>3, <7>1 DEF At, Zero
          <6>2. /\ place[pos].offset \in Nat
                /\ Start(pos) = 8 * place[pos].offset + place[pos].bit_offset
                /\ place[pos].bit_offset + Width(members[pos]) <= TypeBits(members[pos])
                /\ w \in Nat /\ n \in Nat
            BY <1>0, <2>1, InUnit
          <6> HIDE DEF n, w
          <6>3. Start(pos) = at /\ at \in Nat
            BY <6>1, <6>2
          <6>4. w <= n
            BY <6>1, <6>2 DEF n, w
          <6> QED
            BY <6>2, <6>3, <6>4
        <5>3. v \in SUBSET Int
          BY <2>1 DEF Word
        <5> HIDE DEF at, n, w, v
        <5>4. ASSUME NEW b \in 0..(w - 1) PROVE Start(pos) + b \in mem' <=> b \in v
          <6>1. at + b \in at..(at + n - 1) /\ (at + b) - at = b /\ at + b \in Int
            BY <5>2
          <6> DEFINE c == at + b
          <6> HIDE DEF c
          <6>2. c \in Int
            BY <6>1 DEF c
          <6>3. c \in write_buf(pos, v) <=> IF c \in at..(at + n - 1) THEN c - at \in v ELSE c \in mem
            BY <1>0, <5>3, <6>2, WriteIs DEF at, n
          <6> QED
            BY <5>1, <5>2, <6>1, <6>3 DEF c
        <5>5. Field(p)' = {b \in 0..(w - 1) : Start(pos) + b \in mem'}
          BY <1>p, <1>1 DEF Field, Start, w
        <5>6. Low(pos, v) = v \cap 0..(w - 1)
          BY DEF Low, w
        <5> QED
          BY <2>1, <5>4, <5>5, <5>6 DEF v
      <4> QED
        BY <4>1, <4>2
    <3>2. \A i \in 1..(pos - 1) : inits[i] = None
      <4>1. \A i \in 1..(pos - 1) : i \in DOMAIN members /\ i # pos
        BY <1>0
      <4> QED
        BY <1>0, <2>1, <2>3, <4>1, GivenIs
    <3>3. pos \in 1..(pos' - 1)
      BY <1>0, <1>1
    <3> QED
      <4>1. \A i \in 1..(pos' - 1) : inits'[i] # None => Field(i)' = value'[i]
        BY <1>p, <1>1, <1>2, <3>1, <3>2
      <4>2. ~ \A i \in 1..(pos' - 1) : inits'[i] = None
        BY <1>1, <2>1, <3>3
      <4> QED
        BY <1>1, <2>3, <4>1, <4>2 DEF Written
  <2> QED
    BY <1>0, <2>2, <2>3
<1> QED
  BY <1>4, <1>5

\* The end of the initializer; a static one ends early only where there is nothing more.
LEMMA FilledAtEnd ==
  ASSUME ~Gaps, MInv, StaticBreak \/ Initialized
  PROVE  Filled'
<1>0. /\ TypeOK /\ Usable /\ Len(members) \in Nat /\ DOMAIN members = 1..Len(members)
      /\ pos \in 1..(Len(members) + 1) /\ phase = "init" /\ kind \in {"struct", "union"}
      /\ inits \in Initializers /\ value = Defined(inits) /\ Written
  BY MemberFacts DEF MInv, LInv, Usable, StaticBreak, Initialized, InitTurn, TypeOK
<1>1. members' = members /\ place' = place /\ mem' = mem /\ value' = value
  BY DEF StaticBreak, Initialized, EndInit, layout
<1>2. \A i : Field(i)' = Field(i)
  BY <1>1, SameField
<1>3. ASSUME NEW i \in DOMAIN members, value[i] # None
      PROVE  Field(i) = value[i]
  <2>1. CASE kind = "struct"
    <3>1. CASE i < pos
      BY <1>0, <2>1, <3>1 DEF Written
    <3>2. CASE i >= pos
      <4>1. i \in pos..Len(members) /\ pos \in DOMAIN members
        BY <1>0, <3>2
      <4>2. storage = "static" /\ IsBitfield(members[pos]) /\ inits[pos] = None
        BY <1>0, <4>1 DEF StaticBreak, Initialized, Given
      <4>3. inits[i] = None
        BY <1>0, <2>1, <3>2, <4>1, <4>2 DEF Initializers
      <4>4. value[i] = {}
        BY <1>0, <2>1, <4>3, GivenIs
      <4>5. members[i].width = 0 \/ \A b \in mem : b < Start(i)
        BY <1>0, <2>1, <4>1 DEF Written, Below
      <4> QED
        BY <1>0, <4>4, <4>5, EmptyField
    <3> QED
      BY <1>0, <3>1, <3>2
  <2>2. CASE kind = "union"
    <3>1. pos = Len(members) + 1
      BY <1>0, <2>2 DEF StaticBreak, Initialized
    <3>2. \A j \in DOMAIN members : j \in 1..(pos - 1)
      BY <1>0, <3>1
    <3>3. \A j \in 1..(pos - 1) : j \in DOMAIN members
      BY <1>0, <3>1
    <3>4. CASE inits[i] # None
      BY <1>0, <2>2, <3>2, <3>4 DEF Written
    <3>5. CASE inits[i] = None
      <4>1. value[i] = {} /\ \A j \in DOMAIN members : inits[j] = None
        BY <1>0, <1>3, <2>2, <3>5, GivenIs
      <4>2. mem = {}
        BY <1>0, <2>2, <3>3, <4>1 DEF Written
      <4> QED
        BY <1>0, <4>1, <4>2, EmptyField
    <3> QED
      BY <3>4, <3>5
  <2> QED
    BY <1>0, <2>1, <2>2
<1> QED
  BY <1>1, <1>2, <1>3 DEF Filled

\* An assignment stores its member and no other.
LEMMA FilledByAssign ==
  ASSUME MInv, Assign
  PROVE  Filled'
<1>0. /\ TypeOK /\ Usable /\ kind \in {"struct", "union"} /\ Filled /\ phase = "ready"
      /\ value \in [DOMAIN members -> (SUBSET Nat) \cup {None}]
  BY DEF MInv, LInv, Usable, Assign, Phases, TypeOK
<1>1. members' = members /\ place' = place
  BY DEF Assign, layout
<1>2. PICK i \in DOMAIN members, v \in Values :
        /\ members[i].named
        /\ mem' = Assigned(i, v)
        /\ value' = IF kind = "struct" THEN [value EXCEPT ![i] = Low(i, v)]
                    ELSE [j \in DOMAIN members |-> IF j = i THEN Low(i, v) ELSE None]
  BY DEF Assign
<1>3. v \in SUBSET Word /\ members[i].width # 0
  BY <1>0, <1>2, ValuesAssumption, MemberFacts, DeclaratorFacts DEF Word
<1>4. Stored(mem', i, v)
  BY <1>0, <1>2, <1>3, AssignedIs
<1>5. /\ Field(i)' = Low(i, v)
      /\ kind = "struct" => \A j \in DOMAIN members : j # i => Field(j)' = Field(j)
  BY <1>0, <1>1, <1>3, <1>4, StoredField
<1>6. ASSUME NEW j \in DOMAIN members, value'[j] # None
      PROVE  Field(j)' = value'[j]
  <2>1. CASE j = i
    BY <1>0, <1>2, <1>5, <2>1
  <2>2. CASE j # i
    <3>1. kind = "struct"
      BY <1>0, <1>2, <1>6, <2>2
    <3>2. value'[j] = value[j]
      BY <1>0, <1>2, <2>2, <3>1
    <3> QED
      BY <1>0, <1>5, <1>6, <2>2, <3>1, <3>2 DEF Filled
  <2> QED
    BY <2>1, <2>2
<1> QED
  BY <1>1, <1>6 DEF Filled

\* A second run of the loop moves nothing.
LEMMA PlacedStays ==
  ASSUME LInv, Turns, before # <<>>
  PROVE  place' = place
<1>0. /\ TypeOK /\ Len(members) \in Nat /\ DOMAIN members = 1..Len(members)
      /\ DOMAIN place = DOMAIN members
  BY MemberFacts DEF LInv
<1>1. PICK E : Chain(E)
  BY DEF LInv
<1>2. phase = "place" /\ pos \in 1..Len(members)
  BY <1>0 DEF Turns, ZeroWidth, Bitfield, Member, UnionMember, Turn
<1>3. bits = E[pos - 1] /\ place[pos] = At(kind, members[pos], bits)
  BY <1>0, <1>1, <1>2 DEF Chain, Done
<1>4. place' = [place EXCEPT ![pos] = At(kind, members[pos], bits)]
  BY <1>0, <1>3, TurnIs
<1> QED
  BY <1>0, <1>2, <1>3, <1>4 DEF TypeOK

LEMMA MemoryStep ==
  ASSUME ~Gaps, MInv, [Next]_vars
  PROVE  MInv'
<1>0. LInv /\ TypeOK /\ Phases
  BY DEF MInv, LInv
<1>1. LInv' /\ TypeOK'
  BY <1>0, LayoutStep DEF LInv
<1>2. ASSUME members' = members, place' = place, mem' = mem, value' = value
      PROVE  Filled => Filled'
  BY <1>2, SameField DEF Filled
<1>3. CASE UNCHANGED vars
  <2>1. /\ members' = members /\ place' = place /\ mem' = mem /\ value' = value /\ inits' = inits
        /\ before' = before /\ phase' = phase /\ pos' = pos /\ kind' = kind /\ storage' = storage
    BY <1>3 DEF vars, layout, object
  <2>2. \A i : Field(i)' = Field(i) /\ Start(i)' = Start(i)
    BY <2>1, SameField
  <2>3. Written => Written'
    BY <2>1, <2>2 DEF Written, Below
  <2>4. inits \in Initializers /\ value = Defined(inits) => inits' \in Initializers' /\ value' = Defined(inits)'
    BY <2>1 DEF Initializers, Defined, Low
  <2> QED
    BY <1>1, <1>2, <2>1, <2>3, <2>4 DEF MInv
<1>4. CASE struct_members \/ struct_union_decl
  <2>1. mem' = mem /\ before' = before /\ before = <<>> /\ phase' \in {"parse", "place"}
    BY <1>0, <1>4 DEF struct_members, struct_union_decl, object, Phases
  <2> QED
    BY <1>1, <2>1 DEF MInv
<1>5. CASE Turns
  <2>1. /\ mem' = mem /\ before' = before /\ value' = value /\ members' = members
        /\ phase = "place" /\ phase' = phase
    BY <1>5 DEF Turns, ZeroWidth, Bitfield, Member, UnionMember, Turn, NextMember, object
  <2>2. before # <<>> => place' = place
    BY <1>0, <1>5, PlacedStays
  <2> QED
    BY <1>1, <1>2, <2>1, <2>2 DEF MInv
<1>6. CASE Laid
  <2>1. mem' = mem /\ members' = members /\ place' = place /\ kind' = kind /\ storage' = storage /\ pos' = 1
    BY <1>6 DEF Laid, object
  <2>2. CASE before # <<>>
    <3>1. phase = "place" /\ phase' = "ready" /\ before' = before /\ value' = value
      BY <1>6, <2>2 DEF Laid, object
    <3> QED
      BY <1>1, <1>2, <2>1, <2>2, <3>1 DEF MInv
  <2>3. CASE before = <<>>
    <3>1. phase' = "init" /\ before' # <<>> /\ inits' \in Initializers /\ value' = Defined(inits') /\ mem = {}
      BY <1>6, <2>3 DEF Laid, MInv
    <3>2. inits' \in Initializers' /\ value' = Defined(inits)'
      BY <2>1, <3>1 DEF Initializers, Defined, Low
    <3>3. 1..(pos' - 1) = {} /\ mem' = {}
      BY <2>1, <3>1
    <3>4. Written'
      BY <3>3 DEF Written, Below
    <3> QED
      BY <1>1, <3>1, <3>2, <3>4 DEF MInv
  <2> QED
    BY <2>2, <2>3
<1>7. CASE Again
  <2>1. /\ mem' = mem /\ before' = before /\ value' = value /\ members' = members /\ place' = place
        /\ phase = "ready" /\ phase' = "place"
    BY <1>7 DEF Again, object
  <2> QED
    BY <1>0, <1>1, <1>2, <2>1 DEF MInv, Phases
<1>8. CASE StaticBitfield \/ StaticMember \/ LocalMember
  <2>1. /\ phase = "init" /\ phase' = "init" /\ inits' = inits /\ value' = value /\ before' = before
        /\ kind' = kind /\ members' = members /\ storage' = storage /\ before # <<>>
    BY <1>0, <1>8 DEF StaticBitfield, StaticMember, LocalMember, InitTurn, NextInit, Phases
  <2>2. inits' \in Initializers' /\ value' = Defined(inits)'
    BY <2>1 DEF MInv, Initializers, Defined, Low
  <2>3. Written'
    BY <1>1, <1>8, WrittenOn
  <2> QED
    BY <1>1, <2>1, <2>2, <2>3 DEF MInv
<1>9. CASE StaticBreak \/ Initialized
  <2>1. phase = "init" /\ phase' = "ready" /\ before' = before /\ before # <<>>
    BY <1>0, <1>9 DEF StaticBreak, Initialized, InitTurn, EndInit, Phases
  <2> QED
    BY <1>1, <1>9, <2>1, FilledAtEnd DEF MInv
<1>10. CASE Assign
  <2>1. phase' = "ready" /\ before' = before /\ before # <<>>
    BY <1>0, <1>10 DEF Assign, Phases
  <2> QED
    BY <1>1, <1>10, <2>1, FilledByAssign DEF MInv
<1> QED
  BY <1>3, <1>4, <1>5, <1>6, <1>7, <1>8, <1>9, <1>10 DEF Next, Turns

\* Every member of a struct or union reads as what it was given last, by the
\* initializer or by an assignment: for any members and values, where a static
\* initializer gives each bit-field before a member it gives.
THEOREM MembersReadBack ==
  ASSUME ~Gaps
  PROVE  Spec => []ReadsBack
<1>1. Init => MInv
  BY LayoutInit DEF Init, MInv
<1>2. MInv /\ [Next]_vars => MInv'
  BY MemoryStep
<1>3. MInv => ReadsBack
  <2> SUFFICES ASSUME MInv, phase = "ready", NEW i \in DOMAIN members, members[i].named, value[i] # None
               PROVE  IF IsBitfield(members[i]) THEN Read(i) = Extended(members[i], value[i])
                      ELSE Low(i, Read(i)) = value[i]
    BY DEF ReadsBack
  <2>1. Usable /\ Filled /\ TypeOK
    BY DEF MInv, LInv, Usable, Phases
  <2>2. members[i].width # 0
    BY <2>1, MemberFacts, DeclaratorFacts
  <2>3. Field(i) = value[i]
    BY <2>1 DEF Filled
  <2> QED
    BY <2>1, <2>2, <2>3, ReadsField
<1> QED
  BY <1>1, <1>2, <1>3, PTL DEF Spec
=============================================================================
