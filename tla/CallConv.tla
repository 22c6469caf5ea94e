----------------------------- MODULE CallConv ------------------------------
(***************************************************************************)
(* One function call as src/src/codegen.rs compiles it, and the prologue   *)
(* of the function it calls.  The two sides are generated independently:   *)
(* the caller decides twice which arguments go to registers (count_args    *)
(* before pushing, the pop loop of FuncCall after) and the callee decides  *)
(* once more where its parameters are.  Nothing but the three loops        *)
(* agreeing makes a parameter hold its argument.                           *)
(*                                                                         *)
(* The loops of the compiler and the instructions they emit are modelled   *)
(* together: a step that emits a push pushes.  The machine stack is a      *)
(* sequence of 8-byte words with the top of stack first; the w-th word of  *)
(* argument j is the pair <<j, w>>.  Argument 0 is the hidden pointer to   *)
(* the return buffer of a large struct; negative numbers name the words    *)
(* that belong to no argument.                                             *)
(*                                                                         *)
(* A function with fewer named parameters than arguments is variadic: its  *)
(* prologue saves the argument registers in __va_area__, and its body      *)
(* fetches the other arguments with the va_arg of the compiler's own       *)
(* stdarg.h (src/src/cpp/include), which divides them into registers and   *)
(* stack a fourth time.                                                    *)
(***************************************************************************)
EXTENDS Integers, Sequences, FiniteSets

CONSTANTS
  GP_MAX,      \* integer argument registers, 6 in the code
  FP_MAX,      \* vector argument registers, 8 in the code
  ArgLists,    \* the argument type lists considered
  StartDepths, \* words an enclosing expression may have on the stack
  AllocaSizes, \* bytes an argument may ask alloca for
  AllocaArgs,  \* the longest argument list considered with an alloca in it,
  AllocaWords  \* and the words of all the blocks considered

(***************************************************************************)
(* A type is a record: kind "gp" (integers, pointers), "fp" (float and     *)
(* double), "ldouble" or "struct"; its size in words; and the answers of   *)
(* has_flonum1 and has_flonum2.  The second is TRUE for a struct of one    *)
(* word: no member lies in bytes 8 to 15, so none there is not a float.    *)
(* A type is wide if its alignment is more than 8 bytes, as a long         *)
(* double's is and that of a struct with one in it.                        *)
(***************************************************************************)
Pointer == [kind |-> "gp", words |-> 1, fp1 |-> FALSE, fp2 |-> TRUE, wide |-> FALSE]

ASSUME TypeAssumption ==
  \A list \in ArgLists :
    /\ Len(list) \in Nat /\ DOMAIN list = 1..Len(list)
    /\ \A j \in DOMAIN list :
         /\ list[j].kind \in {"gp", "fp", "ldouble", "struct"}
         /\ list[j].words \in Nat \ {0}
         /\ list[j].kind \in {"gp", "fp"} => list[j].words = 1
         /\ list[j].kind = "ldouble" => list[j].words = 2 /\ list[j].wide
         /\ {list[j].fp1, list[j].fp2, list[j].wide} \subseteq BOOLEAN
         /\ list[j].wide => list[j].words % 2 = 0
         /\ list[j].kind = "struct" /\ list[j].words = 1 => list[j].fp2

ASSUME SizesAssumption ==
  /\ GP_MAX \in Nat \ {0} /\ FP_MAX \in Nat
  /\ StartDepths \subseteq Nat /\ AllocaSizes \subseteq Nat

VARIABLES
  args,     \* the types of the arguments
  large,    \* is the result a struct of more than 16 bytes?
  start,    \* what the enclosing expressions have pushed
  pc,       \* the loop being run
  i,        \* the argument it is at
  gp, fp,   \* its register counters
  byStack,  \* pass_by_stack of count_args
  stackArgs,\* words to drop after the call: stack arguments and padding
  stack,    \* the machine stack, top first
  depth,    \* the compiler's count of pushed words
  bottom,   \* words alloca made: __alloca_size__, from the end of the frame
  gpRegs, fpRegs, \* the argument registers loaded so far
  offset,   \* the word offset from %rbp of each stack parameter, 0 if none
  top,      \* the next stack parameter's word offset
  named,    \* how many of the arguments have a named parameter
  va,       \* the va_list: registers used up, and the next stack word
  got       \* the words each parameter, or each va_arg, ends up with

caller == <<byStack, stackArgs>>
machine == <<stack, depth, bottom, gpRegs, fpRegs>>
callee == <<offset, top, named, va, got>>
vars == <<args, large, start, pc, i, gp, fp, caller, machine, callee>>

First == IF large THEN 0 ELSE 1
TypeOf(j) == IF j = 0 THEN Pointer ELSE args[j]

\* Words of enclosing expressions, of padding, of the caller's frame below
\* what was pushed, what a register holds that was not loaded, and of memory
\* that alloca gave out, counted from the end of the frame.
Outer(w) == <<-1, w>>
Padding(w) == <<-2, w>>
Frame(w) == <<-3, w>>
Junk(n) == <<-4, n>>
Block(w) == <<-5, w>>

Int01(b) == IF b THEN 1 ELSE 0

\* The vector registers and the integer registers a type asks for, f2 being
\* the class given to its second word.
FpNeed(t, f2) ==
  CASE t.kind = "fp" -> 1 [] t.kind = "struct" -> Int01(t.fp1) + Int01(f2) [] OTHER -> 0
GpNeed(t, f2) ==
  CASE t.kind = "gp" -> 1 [] t.kind = "struct" -> Int01(~t.fp1) + Int01(~f2) [] OTHER -> 0

\* Do the registers left suffice?  Scalars may take the last register, the
\* strict comparison keeps structs from it.
Fits(t, g, f, f2) ==
  CASE t.kind = "gp"      -> g < GP_MAX
    [] t.kind = "fp"      -> f < FP_MAX
    [] t.kind = "ldouble" -> FALSE
    [] t.kind = "struct"  -> /\ t.words <= 2
                             /\ f + FpNeed(t, f2) < FP_MAX
                             /\ g + GpNeed(t, f2) < GP_MAX

\* count_args and the callee take the second word of a one-word struct for
\* an integer, the pop loop takes it for a float.
Second(t) == IF t.words = 2 THEN t.fp2 ELSE FALSE

Words(j) == [w \in 1..TypeOf(j).words |-> <<j, w>>]

\* Which words of a register argument are in vector registers.
InVector(t) ==
  CASE t.kind = "fp"     -> <<TRUE>>
    [] t.kind = "struct" -> IF t.words = 2 THEN <<t.fp1, t.fp2>> ELSE <<t.fp1>>
    [] OTHER             -> <<FALSE>>

\* The words in registers of one class, in order.
InClass(t, vector) ==
  LET v == InVector(t)
      second == Len(v) = 2 /\ v[2] = vector
  IN  IF v[1] = vector THEN IF second THEN <<1, 2>> ELSE <<1>>
                       ELSE IF second THEN <<2>> ELSE <<>>

\* f with one more value.
Extend(f, j, value) == [k \in DOMAIN f \cup {j} |-> IF k = j THEN value ELSE f[k]]

Init ==
  /\ args \in ArgLists
  /\ large \in BOOLEAN
  /\ start \in {[w \in 1..d |-> Outer(w)] : d \in StartDepths}
  /\ pc = "count" /\ i = 1 /\ gp = Int01(large) /\ fp = 0
  /\ byStack = <<>> /\ stackArgs = 0
  /\ stack = start /\ depth = Len(start) /\ bottom = 0
  /\ gpRegs = <<>> /\ fpRegs = <<>>
  /\ offset = [j \in {} |-> 0] /\ top = 2 /\ got = [j \in {} |-> <<>>]
  /\ named = 0 /\ va = [gp |-> 0, fp |-> 0, at |-> 0]

(***************************************************************************)
(* The caller.                                                             *)
(***************************************************************************)

\* One turn of count_args.
CountArg ==
  LET t == args[i]
      fits == Fits(t, gp, fp, Second(t))
  IN
  /\ pc = "count" /\ i <= Len(args)
  /\ byStack' = Append(byStack, ~fits)
  /\ stackArgs' = IF fits THEN stackArgs ELSE stackArgs + t.words
  /\ gp' = IF t.kind = "struct" /\ ~fits THEN gp ELSE gp + GpNeed(t, Second(t))
  /\ fp' = IF t.kind = "struct" /\ ~fits THEN fp ELSE fp + FpNeed(t, Second(t))
  /\ i' = i + 1
  /\ UNCHANGED <<args, large, start, pc, machine, callee>>

\* Seeded fault: the padding is not dropped after the call.
PadKept ==
  LET pad == (depth + stackArgs) % 2 IN
  /\ pc = "count" /\ i > Len(args)
  /\ stack' = [w \in 1..pad |-> Padding(w)] \o stack
  /\ depth' = depth + pad
  /\ pc' = "push stack" /\ i' = Len(args)
  /\ UNCHANGED <<args, large, start, gp, fp, caller, bottom, gpRegs, fpRegs, callee>>

\* Seeded fault: the stack arguments are left out of the parity.
PadByDepth ==
  LET pad == depth % 2 IN
  /\ pc = "count" /\ i > Len(args)
  /\ stack' = [w \in 1..pad |-> Padding(w)] \o stack
  /\ depth' = depth + pad
  /\ stackArgs' = stackArgs + pad
  /\ pc' = "push stack" /\ i' = Len(args)
  /\ UNCHANGED <<args, large, start, gp, fp, byStack, bottom, gpRegs, fpRegs, callee>>

\* push_args: a word of padding if the stack arguments would end up odd.
Pad ==
  LET pad == (depth + stackArgs) % 2 IN
  /\ pc = "count" /\ i > Len(args)
  /\ stack' = [w \in 1..pad |-> Padding(w)] \o stack
  /\ depth' = depth + pad
  /\ stackArgs' = stackArgs + pad
  /\ pc' = "push stack" /\ i' = Len(args)
  /\ UNCHANGED <<args, large, start, gp, fp, byStack, bottom, gpRegs, fpRegs, callee>>

\* push_args2, last argument first: one pass for the stack arguments, one
\* for those that will be popped.
PushArg ==
  /\ pc \in {"push stack", "push regs"} /\ i >= 1
  /\ IF byStack[i] = (pc = "push stack")
       THEN /\ stack' = Words(i) \o stack
            /\ depth' = depth + args[i].words
       ELSE UNCHANGED <<stack, depth>>
  /\ i' = i - 1
  /\ UNCHANGED <<args, large, start, pc, gp, fp, caller, bottom, gpRegs, fpRegs, callee>>

\* An argument about to be pushed calls alloca, once or several times:
\* builtin_alloca rounds the size, moves what the expression has pushed down by
\* it, and leaves the block between that and the blocks and locals before.
Alloca ==
  /\ pc \in {"push stack", "push regs"} /\ i >= 1 /\ byStack[i] = (pc = "push stack")
  /\ Len(args) <= AllocaArgs
  /\ \E size \in AllocaSizes :
       LET words == ((size + 15) \div 16) * 2
           pushed == Len(stack) - bottom
       IN  /\ bottom + words <= AllocaWords
           /\ stack' = SubSeq(stack, 1, pushed)
                         \o [w \in 1..words |-> Block(bottom + words + 1 - w)]
                         \o SubSeq(stack, pushed + 1, Len(stack))
           /\ bottom' = bottom + words
  /\ UNCHANGED <<args, large, start, pc, i, gp, fp, caller, depth, gpRegs, fpRegs, callee>>

SecondPass ==
  /\ pc = "push stack" /\ i = 0
  /\ pc' = "push regs" /\ i' = Len(args)
  /\ UNCHANGED <<args, large, start, gp, fp, caller, machine, callee>>

\* The return buffer's address is pushed last and popped first.
PassBuffer ==
  /\ pc = "push regs" /\ i = 0
  /\ gpRegs' = IF large THEN Words(0) ELSE <<>>
  /\ gp' = Int01(large) /\ fp' = 0
  /\ pc' = "pop" /\ i' = 1
  /\ UNCHANGED <<args, large, start, caller, stack, depth, bottom, fpRegs, callee>>

\* What a pop of the n-th word finds; below the pushed words lie the locals.
Popped(n) == IF n <= Len(stack) THEN stack[n] ELSE Frame(n)

\* One turn of the pop loop.
PopArg ==
  LET t == args[i]
      fits == Fits(t, gp, fp, t.fp2)
      Load(vector) == LET mine == InClass(t, vector) IN [w \in DOMAIN mine |-> Popped(mine[w])]
  IN
  /\ pc = "pop" /\ i <= Len(args)
  /\ IF fits
       THEN /\ gpRegs' = gpRegs \o Load(FALSE)
            /\ fpRegs' = fpRegs \o Load(TRUE)
            /\ gp' = Len(gpRegs') /\ fp' = Len(fpRegs')
            /\ stack' = SubSeq(stack, Len(InVector(t)) + 1, Len(stack))
            /\ depth' = depth - Len(InVector(t))
       ELSE UNCHANGED <<gp, fp, stack, depth, gpRegs, fpRegs>>
  /\ i' = i + 1
  /\ UNCHANGED <<args, large, start, pc, caller, bottom, callee>>

\* The function called names the first n of the arguments.
Call ==
  /\ pc = "pop" /\ i > Len(args)
  /\ \E n \in 0..Len(args) : named' = n
  /\ pc' = "place" /\ i' = First /\ gp' = 0 /\ fp' = 0
  /\ UNCHANGED <<args, large, start, caller, machine, offset, top, va, got>>

(***************************************************************************)
(* The callee.                                                             *)
(***************************************************************************)
\* Seeded fault: a struct that does not fit uses up registers all the same.
PlaceParamGreedy ==
  LET t == TypeOf(i)
      fits == Fits(t, gp, fp, Second(t))
  IN
  /\ pc = "place" /\ i <= named
  /\ gp' = gp + GpNeed(t, Second(t)) /\ fp' = fp + FpNeed(t, Second(t))
  /\ IF fits
       THEN offset' = Extend(offset, i, 0) /\ UNCHANGED top
       ELSE offset' = Extend(offset, i, top) /\ top' = top + t.words
  /\ i' = i + 1
  /\ UNCHANGED <<args, large, start, pc, caller, machine, named, va, got>>

\* One turn of the loop that gives offsets to stack parameters.
PlaceParam ==
  LET t == TypeOf(i)
      fits == Fits(t, gp, fp, Second(t))
      at == IF t.kind = "ldouble" THEN top + (top % 2) ELSE top
  IN
  /\ pc = "place" /\ i <= named
  /\ IF fits
       THEN /\ gp' = gp + GpNeed(t, Second(t)) /\ fp' = fp + FpNeed(t, Second(t))
            /\ offset' = Extend(offset, i, 0)
            /\ UNCHANGED top
       ELSE /\ offset' = Extend(offset, i, at)
            /\ top' = at + t.words
            /\ UNCHANGED <<gp, fp>>
  /\ i' = i + 1
  /\ UNCHANGED <<args, large, start, pc, caller, machine, named, va, got>>

\* Seeded fault: the hidden pointer to the return buffer is not counted.
PlacedUncounted ==
  LET vectors == {j \in 1..named : TypeOf(j).kind = "fp"}
  IN
  /\ pc = "place" /\ i > named
  /\ va' = [gp |-> named - Cardinality(vectors), fp |-> Cardinality(vectors), at |-> 2]
  /\ pc' = "store" /\ i' = First /\ gp' = 0 /\ fp' = 0
  /\ UNCHANGED <<args, large, start, caller, machine, offset, top, named, got>>

\* The prologue fills __va_area__: a parameter counts as one vector register
\* or one integer register, whatever it is and wherever it was passed.
Placed ==
  LET vectors == {j \in 1..named : TypeOf(j).kind = "fp"}
      others == (First..named) \ vectors
  IN
  /\ pc = "place" /\ i > named
  /\ va' = [gp |-> Cardinality(others), fp |-> Cardinality(vectors), at |-> 2]
  /\ pc' = "store" /\ i' = First /\ gp' = 0 /\ fp' = 0
  /\ UNCHANGED <<args, large, start, caller, machine, offset, top, named, got>>

\* A register that was not loaded holds whatever it held.
Reg(regs, n) == IF n < Len(regs) THEN regs[n + 1] ELSE Junk(n)

\* The w-th word of a parameter stored from registers: the vector and the
\* integer registers are numbered separately.
FromRegs(t, w) ==
  LET inVector == InVector(t)
      before(b) == Int01(w = 2 /\ inVector[1] = b)
  IN  IF inVector[w] THEN Reg(fpRegs, fp + before(TRUE)) ELSE Reg(gpRegs, gp + before(FALSE))

\* One turn of the loop that saves register parameters; a stack parameter
\* stays where it is.
StoreParam ==
  LET t == TypeOf(i) IN
  /\ pc = "store" /\ i <= named
  /\ IF offset[i] > 0
       THEN /\ got' = Extend(got, i, [w \in 1..t.words |-> Popped(offset[i] - 2 + w)])
            /\ UNCHANGED <<gp, fp>>
       ELSE /\ got' = Extend(got, i, [w \in 1..t.words |-> FromRegs(t, w)])
            /\ gp' = gp + Len(InClass(t, FALSE)) /\ fp' = fp + Len(InClass(t, TRUE))
  /\ i' = i + 1
  /\ UNCHANGED <<args, large, start, pc, caller, machine, offset, top, named, va>>

\* __va_arg_mem: the next words of the stack, from an even one if the type's
\* alignment is more than 8 bytes.
FromMemory(t) ==
  LET at == IF t.wide THEN va.at + (va.at % 2) ELSE va.at
  IN  /\ got' = Extend(got, i, [w \in 1..t.words |-> Popped(at - 2 + w)])
      /\ va' = [va EXCEPT !.at = at + t.words]

\* One va_arg: by __builtin_reg_class of the type, from the saved registers
\* while some are left, or from memory.  A long double is of the class of the
\* vector registers.
FetchArg ==
  LET t == args[i] IN
  /\ pc = "store" /\ named < i /\ i <= Len(args)
  /\ \/ /\ t.kind = "gp" /\ va.gp < GP_MAX
        /\ got' = Extend(got, i, <<Reg(gpRegs, va.gp)>>)
        /\ va' = [va EXCEPT !.gp = @ + 1]
     \/ /\ t.kind \in {"fp", "ldouble"} /\ va.fp < FP_MAX
        /\ got' = Extend(got, i, [w \in 1..t.words |-> Reg(fpRegs, va.fp + w - 1)])
        /\ va' = [va EXCEPT !.fp = @ + 1]
     \/ /\ t.kind = "gp" => va.gp >= GP_MAX
        /\ t.kind \in {"fp", "ldouble"} => va.fp >= FP_MAX
        /\ FromMemory(t)
  /\ i' = i + 1
  /\ UNCHANGED <<args, large, start, pc, gp, fp, caller, machine, offset, top, named>>

\* Back in the caller: add $8*stack_args, %rsp.
Return ==
  /\ pc = "store" /\ i > Len(args)
  /\ stack' = SubSeq(stack, stackArgs + 1, Len(stack))
  /\ depth' = depth - stackArgs
  /\ pc' = "returned"
  /\ UNCHANGED <<args, large, start, i, gp, fp, caller, bottom, gpRegs, fpRegs, callee>>

Returned == pc = "returned" /\ UNCHANGED vars

Next ==
  \/ CountArg \/ Pad \/ PushArg \/ Alloca \/ SecondPass \/ PassBuffer \/ PopArg \/ Call
  \/ PlaceParam \/ Placed \/ StoreParam \/ FetchArg \/ Return \/ Returned

Spec == Init /\ [][Next]_vars
-----------------------------------------------------------------------------
(***************************************************************************)
(* Properties.                                                             *)
(***************************************************************************)
\* Each parameter holds its argument: the decisions of count_args, of the pop
\* loop and of the callee's prologue agree on every argument, with structs and
\* scalars competing for registers and any of them overflowing to the stack.
ArgsArrive == pc = "returned" => \A j \in First..named : got[j] = Words(j)

\* What va_arg gets right: every named parameter is a scalar in a register, the
\* others are no long doubles and no structs that may be in registers, and a
\* struct that va_arg looks for at an even word, where the caller pads nothing,
\* has only types of even size before it on the stack.
PlainVariadic ==
  /\ \A j \in First..named : TypeOf(j).kind \in {"gp", "fp"} /\ offset[j] = 0
  /\ \A j \in (named + 1)..Len(args) :
       /\ args[j].kind \in {"gp", "fp", "struct"}
       /\ args[j].kind = "struct" => args[j].words > 2
       /\ args[j].wide => \A k \in 1..(j - 1) : byStack[k] => args[k].words % 2 = 0

\* A variadic function finds each of its unnamed arguments, in order, though
\* prologue, va_arg and caller count registers and stack words separately and
\* the integer and vector registers run out at different arguments.
VariadicArrive ==
  pc = "returned" /\ PlainVariadic =>
    \A j \in (named + 1)..Len(args) : got[j] = Words(j)

\* A call leaves the stack as it found it, whatever was pushed around it: the
\* assertion that closes emit_assembly, "depth should be 0 after function body"
\* (l.2194), holds however calls nest.
\* The blocks given out by alloca in arguments are below it all, each where it was.
Balanced ==
  pc = "returned" =>
    depth = Len(start) /\ stack = start \o [w \in 1..bottom |-> Block(bottom + 1 - w)]

\* At the call instruction the pushed words are even in number, so %rsp is a
\* multiple of 16, as the frame's size is (l.2066).
Aligned == pc = "place" => depth % 2 = 0 /\ Len(stack) % 2 = 0
=============================================================================
