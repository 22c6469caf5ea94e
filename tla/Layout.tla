------------------------------- MODULE Layout -------------------------------
(***************************************************************************)
(* Layout: a struct or union, from its member list to an object of it.     *)
(* Modelled are struct_members and the loops of struct_decl and union_decl *)
(* (src/src/parse.rs), the two ways an initializer is written, and the     *)
(* code for reading and assigning a member (src/src/codegen.rs).           *)
(*                                                                         *)
(* A register, a mask, or the memory from the object's first byte on, is   *)
(* the set of the numbers of its bits that are one.                        *)
(***************************************************************************)
EXTENDS Integers, Sequences

CONSTANTS
  Declarators,  \* what may be written for a member
  MaxMembers,   \* a bound: how many of them
  Values,       \* what may be assigned
  Gaps          \* may a static initializer leave out a bit-field before
                \* a member it gives?

NoWidth == -1  \* not a bit-field

\* The mask of a bit-field of 32 bits or more is no immediate operand of and.
\* The size of a bit-field's type is its alignment, which _Alignas does not lessen.
ASSUME DeclaratorsAssumption ==
  \A d \in Declarators :
    /\ d \in [size : Nat, align : {1, 2, 4, 8, 16}, unsigned : BOOLEAN,
              width : {NoWidth} \cup 0..31, named : BOOLEAN]
    /\ d.width # NoWidth => /\ d.size \in {1, 2, 4, 8}
                            /\ d.size <= d.align
                            /\ d.width <= 8 * d.size
    /\ d.width = 0 => ~d.named
ASSUME ValuesAssumption == Values \subseteq SUBSET (0..63)
ASSUME ParametersAssumption == MaxMembers \in Nat /\ Gaps \in BOOLEAN

VARIABLES
  kind,     \* "struct" or "union"
  phase,    \* of the type, then of one object of it
  members,  \* ty.members, as written
  place,    \* their offset and bit_offset
  pos,      \* the member a loop is at
  bits,     \* struct_decl: the bits used; union_decl: max_size
  align,    \* ty.align and max_align
  size,     \* ty.size
  storage,  \* of the object: "static" or "local"
  inits,    \* the expressions of its initializer
  mem,      \* its memory
  value,    \* what each member was given last, in its own width
  before    \* the layout when the object was made

layout == <<place, align, size>>
object == <<storage, inits, mem, value, before>>
vars == <<kind, phase, members, pos, bits, layout, object>>

None == {-1}  \* no expression; a value nobody knows
Word == 0..63
IsBitfield(m) == m.width # NoWidth
TypeBits(m) == 8 * m.size
Width(m) == IF IsBitfield(m) THEN m.width ELSE TypeBits(m)
Start(i) == 8 * place[i].offset + place[i].bit_offset
Stop(i) == Start(i) + Width(members[i])

align_to(n, a) == ((n + a - 1) \div a) * a
align_down(n, a) == align_to(n - a + 1, a)

(***************************************************************************)
(* Parsing and layout.                                                     *)
(***************************************************************************)
Init ==
  /\ kind \in {"struct", "union"} /\ phase = "parse"
  /\ members = <<>> /\ place = <<>> /\ pos = 1 /\ bits = 0 /\ align = 1 /\ size = 0
  /\ storage \in {"static", "local"}
  /\ inits = <<>> /\ mem = {} /\ value = <<>> /\ before = <<>>

struct_members ==
  /\ phase = "parse" /\ Len(members) < MaxMembers
  /\ \E d \in Declarators : members' = Append(members, d)
  /\ place' = Append(place, [offset |-> 0, bit_offset |-> 0])
  /\ UNCHANGED <<kind, phase, pos, bits, align, size, object>>

\* The closing brace.
struct_union_decl ==
  /\ phase = "parse"
  /\ phase' = "place" /\ pos' = 1 /\ bits' = 0 /\ align' = 1 /\ size' = 0
  /\ UNCHANGED <<kind, members, place, object>>

Turn(k) == phase = "place" /\ kind = k /\ pos \in DOMAIN members

\* Seeded fault: a bit-field does not count for the alignment.
NextMemberWholeOnly ==
  /\ pos' = pos + 1
  /\ align' = IF align < members[pos].align /\ ~IsBitfield(members[pos]) THEN members[pos].align ELSE align
  /\ UNCHANGED <<kind, phase, members, size, object>>

NextMember ==
  /\ pos' = pos + 1
  /\ align' = IF align < members[pos].align THEN members[pos].align ELSE align
  /\ UNCHANGED <<kind, phase, members, size, object>>

ZeroWidth ==
  /\ Turn("struct") /\ members[pos].width = 0
  /\ bits' = align_to(bits, TypeBits(members[pos]))
  /\ UNCHANGED place
  /\ NextMember

\* Seeded fault: a bit-field that just fits is moved to the next unit.
StartOfStrict(m) ==
  IF bits \div TypeBits(m) # (bits + m.width) \div TypeBits(m)
  THEN align_to(bits, TypeBits(m)) ELSE bits

\* A bit-field does not cross the end of a unit of its type.
StartOf(m) ==
  IF bits \div TypeBits(m) # (bits + m.width - 1) \div TypeBits(m)
  THEN align_to(bits, TypeBits(m)) ELSE bits

Bitfield ==
  /\ Turn("struct") /\ members[pos].width > 0
  /\ LET m == members[pos]
         start == StartOf(m)
     IN  /\ place' = [place EXCEPT ![pos] = [offset |-> align_down(start \div 8, m.size),
                                             bit_offset |-> start % TypeBits(m)]]
         /\ bits' = start + m.width
  /\ NextMember

Member ==
  /\ Turn("struct") /\ ~IsBitfield(members[pos])
  /\ LET start == align_to(bits, 8 * members[pos].align)
     IN  /\ place' = [place EXCEPT ![pos].offset = start \div 8]
         /\ bits' = start + TypeBits(members[pos])
  /\ NextMember

UnionMember ==
  /\ Turn("union")
  /\ bits' = IF bits < members[pos].size THEN members[pos].size ELSE bits
  /\ UNCHANGED place
  /\ NextMember

Size == IF kind = "struct" THEN align_to(bits, 8 * align) \div 8 ELSE align_to(bits, align)

Low(i, v) == v \cap 0..(Width(members[i]) - 1)

\* What an initializer may give: one member of a union, no unnamed bit-field.
Initializers ==
  {g \in [DOMAIN members -> Values \cup {None}] :
     /\ \A i \in DOMAIN members : members[i].named \/ g[i] = None
     /\ kind = "union" => \A i, j \in DOMAIN members : i = j \/ g[i] = None \/ g[j] = None
     /\ kind = "struct" /\ storage = "static" /\ ~Gaps =>
          \A i, j \in DOMAIN members :
            i < j /\ IsBitfield(members[i]) /\ g[i] = None => g[j] = None}

\* The values then: zero without an expression, in a union if there is none at all.
Defined(g) ==
  [i \in DOMAIN members |->
     IF g[i] # None THEN Low(i, g[i])
     ELSE IF kind = "union" /\ \E j \in DOMAIN members : g[j] # None THEN None ELSE {}]

\* The end of the loop; the first time, an object is defined.
Laid ==
  /\ phase = "place" /\ pos > Len(members)
  /\ size' = Size /\ pos' = 1
  /\ IF before # <<>> THEN phase' = "ready" /\ UNCHANGED object
     ELSE /\ phase' = "init" /\ before' = <<place, align, Size>>
          /\ inits' \in Initializers
          /\ value' = Defined(inits')
          /\ UNCHANGED <<storage, mem>>
  /\ UNCHANGED <<kind, members, place, bits, align>>

\* Seeded fault: the bits of the last time are not forgotten.
AgainKeepsBits ==
  /\ phase = "ready"
  /\ phase' = "place" /\ align' = IF kind = "struct" THEN align ELSE 1
  /\ UNCHANGED <<kind, members, place, pos, bits, size, object>>

\* The tag is mentioned again: the loop runs again, over the same members.
Again ==
  /\ phase = "ready"
  /\ phase' = "place" /\ bits' = 0 /\ align' = IF kind = "struct" THEN align ELSE 1
  /\ UNCHANGED <<kind, members, place, pos, size, object>>

(***************************************************************************)
(* Instructions and the compiler's own buffer.                             *)
(***************************************************************************)
shl(r, n) == {b + n : b \in r} \cap Word
shr(r, n) == {b - n : b \in r} \cap Word
sar(r, n) == shr(r, n) \cup IF 63 \in r THEN (64 - n)..63 ELSE {}
mask(w) == 0..(w - 1)

\* read_buf and write_buf, and the memory accesses of load and store.
read_buf(i) == {b - 8 * place[i].offset : b \in mem} \cap 0..(TypeBits(members[i]) - 1)
write_buf(i, r) ==
  LET at == 8 * place[i].offset
      n  == TypeBits(members[i])
  IN  (mem \ at..(at + n - 1)) \cup {at + b : b \in r \cap 0..(n - 1)}

\* load: small objects are extended to 32 bits, those of 32 to 64 with their sign.
load(i) ==
  LET m == members[i]
      r == read_buf(i)
      extended == (m.size \in {1, 2} /\ ~m.unsigned) \/ m.size = 4
  IN  IF extended /\ TypeBits(m) - 1 \in r
      THEN r \cup TypeBits(m)..(IF m.size = 4 THEN 63 ELSE 31) ELSE r

\* gen_expr for a member: the register its code leaves.
Read(i) ==
  LET m == members[i]
      up == shl(load(i), 64 - m.width - place[i].bit_offset)
  IN  IF ~IsBitfield(m) THEN load(i)
      ELSE IF m.unsigned THEN shr(up, 64 - m.width) ELSE sar(up, 64 - m.width)

\* Seeded fault: the mask that clears the bit-field is not moved to it.
AssignedWrongMask(i, v) ==
  LET m == members[i]
      rdi == shl(v \cap mask(m.width), place[i].bit_offset)
      r9  == Word \ mask(m.width)
  IN  write_buf(i, IF IsBitfield(m) THEN (load(i) \cap r9) \cup rdi ELSE v)

\* gen_expr for an assignment of v to a member: the memory it leaves.
Assigned(i, v) ==
  LET m == members[i]
      rdi == shl(v \cap mask(m.width), place[i].bit_offset)
      r9  == Word \ shl(mask(m.width), place[i].bit_offset)
  IN  write_buf(i, IF IsBitfield(m) THEN (load(i) \cap r9) \cup rdi ELSE v)

(***************************************************************************)
(* The initializer is written, then members are assigned.                  *)
(***************************************************************************)
Given == inits[pos] # None
InitTurn == phase = "init" /\ pos \in DOMAIN members
NextInit ==
  /\ pos' = pos + 1
  /\ UNCHANGED <<kind, phase, members, bits, layout, storage, inits, value, before>>
EndInit ==
  /\ phase' = "ready" /\ pos' = 1 /\ inits' = <<>>
  /\ UNCHANGED <<kind, members, bits, layout, storage, mem, value, before>>

\* write_gvar_data for a struct's bit-field; without an expression the loop is left.
StaticBitfield ==
  /\ InitTurn /\ storage = "static" /\ kind = "struct" /\ IsBitfield(members[pos]) /\ Given
  /\ mem' = write_buf(pos, read_buf(pos) \cup
                           shl(inits[pos] \cap mask(members[pos].width), place[pos].bit_offset))
  /\ NextInit

StaticBreak ==
  /\ InitTurn /\ storage = "static" /\ kind = "struct" /\ IsBitfield(members[pos]) /\ ~Given
  /\ EndInit

\* write_gvar_data for the others.
StaticMember ==
  /\ InitTurn /\ storage = "static" /\ (kind = "union" \/ ~IsBitfield(members[pos]))
  /\ mem' = IF Given THEN write_buf(pos, inits[pos]) ELSE mem
  /\ NextInit

\* create_lvar_init: an assignment, after the memory is set to zero.
LocalMember ==
  /\ InitTurn /\ storage = "local"
  /\ mem' = IF Given THEN Assigned(pos, inits[pos]) ELSE mem
  /\ NextInit

Initialized == phase = "init" /\ pos > Len(members) /\ EndInit

\* In a union, what the other members now are nobody knows.
Assign ==
  /\ phase = "ready"
  /\ \E i \in DOMAIN members, v \in Values :
       /\ members[i].named
       /\ mem' = Assigned(i, v)
       /\ value' = IF kind = "struct" THEN [value EXCEPT ![i] = Low(i, v)]
                   ELSE [j \in DOMAIN members |-> IF j = i THEN Low(i, v) ELSE None]
  /\ UNCHANGED <<kind, phase, members, pos, bits, layout, storage, inits, before>>

Next ==
  \/ struct_members \/ struct_union_decl
  \/ ZeroWidth \/ Bitfield \/ Member \/ UnionMember \/ Laid \/ Again
  \/ StaticBitfield \/ StaticBreak \/ StaticMember \/ LocalMember \/ Initialized
  \/ Assign

Spec == Init /\ [][Next]_vars
-----------------------------------------------------------------------------
(***************************************************************************)
(* Properties.                                                             *)
(***************************************************************************)
TypeOK ==
  /\ kind \in {"struct", "union"} /\ storage \in {"static", "local"}
  /\ phase \in {"parse", "place", "init", "ready"}
  /\ members \in Seq(Declarators)
  /\ place \in Seq([offset : Nat, bit_offset : Word]) /\ Len(place) = Len(members)
  /\ pos \in 1..(Len(members) + 1) /\ bits \in Nat /\ size \in Nat
  /\ align \in {1, 2, 4, 8, 16}
  /\ mem \subseteq Nat
  /\ phase = "init" => inits \in [DOMAIN members -> Values \cup {None}]
  /\ before # <<>> => value \in [DOMAIN members -> (SUBSET Nat) \cup {None}]

(***************************************************************************)
(* The layout of the System V ABI.                                         *)
(***************************************************************************)
Fits(m, p) ==
  IF ~IsBitfield(m) THEN p % (8 * m.align) = 0
  ELSE IF m.width = 0 THEN p % TypeBits(m) = 0
  ELSE p \div TypeBits(m) = (p + m.width - 1) \div TypeBits(m)

\* The first bit at or behind from where m fits.
FirstFit(m, from) ==
  CHOOSE p \in from..(from + 127) : Fits(m, p) /\ \A q \in from..(p - 1) : ~Fits(m, q)

\* Where the i-th member of a struct begins, and where the first i end.
AbiEnd[i \in 0..Len(members)] ==
  IF i = 0 THEN 0 ELSE FirstFit(members[i], AbiEnd[i - 1]) + Width(members[i])
AbiStart(i) == IF kind = "union" THEN 0 ELSE FirstFit(members[i], AbiEnd[i - 1])

\* Every member is where the ABI has it, and the size is the least that is a
\* multiple of the alignment: the code computes it by rounding, one member at a
\* time.  (What unnamed bit-fields do to alignment, and to a union, is left open.)
AsAbi ==
  phase \in {"init", "ready"} =>
    /\ \A i \in DOMAIN members : members[i].width # 0 => Start(i) = AbiStart(i)
    /\ \A i \in DOMAIN members : align >= members[i].align
    /\ align = 1 \/ \E i \in DOMAIN members : align = members[i].align
    /\ LET used(i) == IF kind = "struct" THEN AbiEnd[i] ELSE TypeBits(members[i])
           most == 8 * size
       IN  /\ most % (8 * align) = 0
           /\ \A i \in DOMAIN members : used(i) <= most
           /\ most = 0 \/ \E i \in DOMAIN members : used(i) > most - 8 * align

\* Reading and writing a bit-field accesses the whole unit it is in, which lies
\* inside of the object; outside of it is another object, or the end of the
\* buffer that write_gvar_data fills.
UnitsInside ==
  phase \in {"init", "ready"} =>
    \A i \in DOMAIN members :
      members[i].width # 0 => place[i].offset + members[i].size <= size

\* What a member of some width is when its bits are v, in a register.
Extended(m, v) ==
  IF ~m.unsigned /\ m.width - 1 \in v THEN v \cup m.width..63 ELSE v

\* A member reads as what it was given last, by the initializer or by an
\* assignment, whatever other members were given since: stores of a bit-field
\* rewrite its neighbours.
ReadsBack ==
  phase = "ready" =>
    \A i \in DOMAIN members :
      members[i].named /\ value[i] # None =>
        IF IsBitfield(members[i]) THEN Read(i) = Extended(members[i], value[i])
        ELSE Low(i, Read(i)) = value[i]

\* The loop may run many times over the members all uses of the tag share; objects
\* laid out before must not find their members moved.
LayoutKept == phase = "ready" => before = <<place, align, size>>
=============================================================================
