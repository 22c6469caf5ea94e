# A verification of cc-rs in TLA+

cc-rs is a C11 compiler for x86-64 Linux written in Rust (`src/src/*.rs`), a port
of a C compiler whose original is kept in `src/src/cpp`.  One process, the driver,
starts a copy of itself per input file (`-cc1`), the assembler, and the linker; a
`cc1` process is single-threaded and runs tokenizer, preprocessor, parser and code
generator one after the other over data held in thread-local cells.  So the hard
behaviours are not races.  They are algorithms written several times over that
must agree, tables whose invariants depend on the order of their users' calls,
token-list surgery whose flags matter much later, and children that fail half way.

## 1. Inventory

| Component | State | Operations | What makes it correct | Model |
|---|---|---|---|---|
| String table, `hashmap.rs` | buckets, capacity, `used` | put, get, delete, `rehash` | it is a map; searches end; a rehash loses nothing and does not nest | `HashMap`, `StringMap`, `HashMapProofs` |
| Calling convention, `codegen.rs` 15-38, 202-431, 1044-1192, 1964-2184, `cpp/include/stdarg.h` | register counters, `depth`, machine stack, `__alloca_size__`, register save area | `count_args`, `push_args2`, pop loop, parameter placement and stores, `builtin_alloca`, `va_arg` | every argument arrives, named or fetched by `va_arg`; stack balanced and aligned | `CallConv`, `CallConvProofs` |
| Directives, `preprocess.rs` 1058-1290, 1684-1913 | `COND_INCL`, the macro names, the token list | `#if` ... `#endif`, `#define`, `#undef`, `#include`, skipping | exactly the selected text is kept; strays are diagnosed; preprocessing ends | `CondIncl`, `Preprocess`, `PreprocessProofs` |
| Driver, `main.rs` 378-796 | inputs, temporary files, linker arguments, the file system | one branch per input type and mode, children, linking, exit | success means complete and fresh outputs; nothing left behind | `Driver`, `DriverProofs` |
| Macro expansion, `preprocess.rs` 408-930 | hidesets on tokens, macro bodies | `expand_macro`, `read_macro_args`, `subst`, `paste`, `stringize` | it ends; no macro is expanded within itself; a replacement is what the standard says | `MacroExpand`, `MacroExpandProofs` |
| Line markers, include search | `line_delta`, display names, search paths | `read_line_marker`, `search_include_paths` | line numbers are those of `#line`; first directory wins | not modelled |
| Tokenizer, `tokenize.rs`, `preprocess.rs` 1399-1475, `unicode_ident.rs` | character position, `at_bol`, `has_space` | splicing, universal characters, numbers, literals, conversion, joining of strings | each token is the longest of C's grammar and knows its line; constants have C's value and type | `Tokenizer`, `TokensAsC` |
| Scopes and globals, `parse.rs` 30-188, 535-670, 2747-2815, 3779-3928 | scope stack, `globals`, `is_live`, `refs` | push, find, declarations, `mark_live_globals`, `scan_globals`, what `emit_assembly` prints | a name means what it means in C; what is emitted is what is needed; one definition per name | `Linkage`, `LinkageProofs` |
| Declarations and types, `parse.rs` 1723-2025, `lib.rs` | the declspec counter, types shared by `origin` | `declspec`, `declarator`, `struct_decl`, `union_decl` | members do not overlap, offsets aligned, bit-fields within their units; a member reads as what it was given | `Layout`, `LayoutProofs` (structs and unions) |
| Initializers, `parse.rs` 645-1656, 2500-2745 | the initializer tree, relocations | designators, brace elision, `write_gvar_data`, `create_lvar_init` | each scalar initialized by its last initializer | `Initializers`; bit-fields in `Layout` |
| Statements, `parse.rs` 3669-4543 | `GOTOS`, `LABELS`, break/continue labels, `CURRENT_SWITCH` | statements, `resolve_goto_labels`, `gen_stmt` | every jump goes to the enclosing loop or switch, every goto to its label | `Statements` |
| Constant evaluation, `parse.rs` 4570-4920 | none | `eval`, `eval2`, `eval_rval` | agrees with the code generated for the expression, at each width | `IntExpr` (`eval2` on integers) |
| Expression code, `codegen.rs` 440-1700 | `depth`, registers, machine stack | `gen_expr`, `gen_addr`, `gen_stmt`, casts | `depth` and stack balanced around every node; values as in C | `IntExpr`, `IntExprProofs` (integer values) |
| Frame, `codegen.rs` 1739, 2047-2087 | offsets of locals | `assign_lvar_offsets` | locals disjoint and aligned | not modelled |
| Global data, `codegen.rs` 1880-1953 | output text | `.comm`, sections, relocations | formatting; the choice of what to emit | the choice in `Linkage`, `LinkageProofs` |
| Unicode tables, messages | constants | look-up | no state | out of scope |
| `src/src/cpp`, scripts, `Makefile` | - | - | the C original is test input; scripts run tests and hosts | out of scope |

How they interact: the driver talks to `cc1` only by command line, files and exit
status.  Inside `cc1` the tokenizer hands a linked list of tokens to the
preprocessor, which calls the tokenizer again for every `#include` and the parser's
`const_expr` for every `#if`; the string table is called by the preprocessor (macro
table), the tokenizer (keywords) and the parser (scopes, tags, typenames).  The
parser passes the list of `Obj` to the code generator, which walks the argument list
of a call three times and the parameter list of a function twice: nothing but those
loops connects caller and callee.

Nothing is persisted and nothing runs concurrently with shared memory, so crash
recovery, lost messages and interleavings are no hazards here.  `PROJECT.json`
lists those that are.

## 2. Modules and their relation to the code

**`StringMap`** is the promise of a string table: put binds, delete removes
(`Spec`), or, weaker, a put binds its key, a delete disturbs no *other* binding and
may restore an older one (`WeakSpec`).

**`HashMap`** has the buckets.  `FirstProbe` is the probe loop: the first probe whose
bucket's key is in a set; `get_entry` stops at its key or null,
`get_or_insert_entry` also at a tombstone.  A put is one step unless the table is at
the high watermark: then `BeginRehash` allocates `map2`, `Drain` is one turn of the
loop over the old buckets, `FinishRehash` replaces the table and performs the pending
put, `AssertFails` is the `assert_eq!` of line 85.  The hash function is a constant, so
that collisions are chosen.  The code's null value pointer is `NoVal`; pointers to
values are the values.  Two specifications differ in what the clients ask for.
`Spec` is the macro table: `#define` stores without looking, `#undef` deletes.
`ExactSpec` is what makes the table a map: `CarefulNext`, the macro table when no
macro in force is redefined, and `ScopeNext`, the parser, which overwrites through
`get_mut` what it finds and never deletes.

**`CallConv`** runs the compiler's loops and the instructions they emit together:
a step that emits a push pushes.  The stack holds words named by the argument they
belong to, so what a parameter ends up with can be compared with what was passed.
`CountArg`, `Pad`, `PushArg` (two passes), `PassBuffer`, `PopArg`, `Call` are the caller;
`PlaceParam`, `StoreParam` the callee's prologue; `Return` drops the stack arguments.
Evaluating an argument is not modelled: it is balanced itself, and a call nested in
an argument list starts with words on the stack (`StartDepths`).  A type is what the
loops look at: class, size in words, the two answers of `has_flonum`, and whether it is aligned to more
than 8 bytes (`wide`), which only `va_arg` asks.  Each call to `alloca` among
the arguments (`Alloca`, `builtin_alloca`) moves the words pushed so far, which `depth` never
learns; `AllocaWords` bounds what all of them take.  If fewer parameters are named than arguments passed, the callee is variadic: `Placed`
fills `__va_area__`, and `FetchArg` is `va_arg` of the compiler's own `stdarg.h`, the fourth
place that divides arguments into registers and stack.  `TypeAssumption` lists what a type can be (a
scalar is one word, a `long double` two), `SizesAssumption` that there are registers.

**`CondIncl`** describes conditional inclusion as the C standard does: a stack of
groups, a line kept when all of them are in a selected section, and only the nesting
looked at in what is left out.  **`Preprocess`** is the code: `COND_INCL` with `ctx` and
`included`, and the two skip routines as a flag and a count of activations (`nest`), one
line per turn.  The token list is abstracted to lines; `bol` says whether the first
token of the next line still has its `at_bol`.  `#include` prepends the lines of a
file.  `#if` and `#elif` test `defined(name)`: evaluating an expression changes
nothing here.  `#line` and `#pragma` only pass to the next line and are left out.
`LinesAssumption` lists what a line can be; every file that is included exists.
A macro without body is what makes the code see other directives than the standard: a line says whether it
ends in one (`empty`), is nothing else, or begins with one before a `#` (`made`), because the first
token of what is left takes its `at_bol` from the macro's name.
`PlainSources` names the sources in which the code sees the directives that the standard
sees, which rules out three faults of the code (section 4).

**`MacroExpand`** is the other half of `preprocess2`: a stack of activations, because
`subst` calls `preprocess2` again for each parameter it expands.  `Emit`,
`ExpandObjlike` and `BeginCall` are `expand_macro`; then each branch of the loop in
`subst` is an action (`Stringize`, `VaComma`, `Paste`, `VaOpt`, `LeftOperand`,
`ExpandArg` with `ArgExpanded`, `CopyWord`), `SubstFails` is the `.ok()?` that drops its
errors, `SubstPanics` its one `unwrap` of a `None`.  A token is a spelling and a hideset.
`open` and `full` are history, read by properties only: the replacements being read,
and the arguments as they expanded.  `Standard` is the replacement as the C standard
describes it, with placemarkers.  Built-in macros, and the blanks inside a string made
by `#`, are left out; `##` in an object-like body is an ordinary word, as in the code.
`InputsAssumption` says that programs, bodies and parameter lists are sequences, as `IsSeq` has it.

**`Driver`** is `run`: one action per branch of its loop, which sets a list of children
to run; each child succeeds, cannot be started (`ExecFails`, an `Err`), or fails
(`ChildFails`, `process::exit`) leaving its output as it was, cut short, or, for the
external tools, removed.  Contents of files record how they were made.  `Type` is the type the
driver takes an input to have: by its name, by `-x`, or C under `-E`, which everything but an `-l` is then.
`CompleteOnSuccess` speaks of all inputs of a link, but not of links with an assembler
source among them (`LeftOut`), whose object the code never links (section 4).
`CommandsAssumption` says what a command line is, and that neither it nor an older
output has the name of a temporary file, which `mkstemp` makes anew.

**`IntExpr`** follows an integer expression through the three places that give it
a meaning: `add_type` (`ty`), the instructions `gen_expr` emits (`rax`, the 64-bit
register they leave, upper half included), and `eval2` (`val`, the `i64` of a constant).
Beside them stand the type and value the C standard gives (`cty`, `cval`).  The parser
builds an expression upward, one `New...` action per production, so a state is an
expression of any size, and two expressions of which the compiler knows the same are
one state.  A composite is combined with leaves, and with `1/0`: what code does with
an operand depends on its type and on the bits that `CodeIsC` fixes, so any operand
behaves as a leaf of the same type and value; the lemmas behind `CodeComputesC` speak of any two operands.  An assignment (`NewAssign`, `NewOpAssign`, `NewIncDec`)
leaves in the register what the conversion to the object's type left there, while the object gets its low
bytes (`store`) and is read again with `load` (`Assigned`); objects hold any value at any time, so no memory is
kept.  The forms in `PlainCast`, `PlainBinary`, `PlainCond`, `PlainNot` and `PlainIncDec` are left out; the compiler is wrong about them (section 4).
`BitsAssumption` says that there are four widths in order, of two bits or more, and that the third divides its own
power of two, as 32 does, because the processor takes a shift's count from the register's low bits;
`ValuesAssumption`, that a leaf's values are of its type.

**`Statements`** parses a function body with the operators of `stmt` (`while_stmt`,
`for_stmt`, `switch_stmt`, ...), which pass the thread-local cells along as a record,
emits code for it with those of `gen_stmt`, and then runs that code (`RunCode`) beside
`todo`, the list of what C still has to do (`RunC`).  `todo` knows no labels: `break` and
`continue` drop entries from it, `goto` and `switch` look for their target in the body
(`From`).  Both halt at every expression, where `Evaluate` gives them the same value.  A
label is named after the place it was made for instead of numbered, so two bodies with
the same labels are one state.  An expression is only the statements in it, in
`({ ... })`; its instructions are `IntExpr`'s.  The case nodes are linked into the cell of
their switch (`AddCase`) in the order of the code, innermost first, and tested by `Equal` on
registers.  `goto *`, `asm` and declarations are left out, and so is the conversion of a
returned value.

**`Layout`** takes a struct or union from its member list (`struct_members`) through the
loop that places the members, one turn each (`ZeroWidth`, `Bitfield`, `Member`, `UnionMember`,
`Laid`), to one object of the type, which is initialized as static data is (`StaticBitfield`,
`StaticMember`, `StaticBreak`: `write_gvar_data` on the compiler's buffer) or as a local is
(`LocalMember`: an assignment each) and then assigned to.  `Again` is a later mention of the tag:
`struct_decl` and `union_decl` run their loop again, on members all copies share.  Memory and registers are sets of
the numbers of their one-bits, so that `Assigned` and `Read` are the masks and shifts of the code.
`AbiEnd` is the reference: the first bit from where the member fits.  Members are taken with
the size and alignment `declspec` and `_Alignas` gave them; one that is no bit-field is any object of its
size.  Flexible arrays and nested initializers are left out, and bit-fields of 32 bits and more, for
which the emitted `and` does not assemble (section 4).

**`Linkage`** follows names through the parser: any program of declarations, blocks, mentions
and definitions, at file scope (`Prototype`, `GlobalVariable`, `Definition`) and in blocks
(`LocalVariable`, `StaticLocal`, `TypedefName`, `MentionName`); then `MarkRoot` and `MarkLive`,
one call of `mark_live` each, and `Emit`, which is `scan_globals` and the tests of `emit_assembly`.
Beside the code's scopes, in which nothing with linkage is entered, stand C's (`cscopes`), where
every declaration is; beside the references by name, what C's rules make needed (`croots`, `crefs`).
The programs are those C gives a meaning to; what each step forbids is written as its guard.
`ItemsAssumption` adds that a function is declared as a function everywhere and an object as an
object, that an initializer or a parameter list of a vocabulary mentions what is in `Names` (an initializer one
name at most), and that no declaration is `extern` with an initializer, which is never emitted (section 4).

**`Initializers`** lets an initializer grow under the rules of C (`Begin`, `Open`, `Expression`,
`StringLiteral`, `Close` and so on, with designators and ranges), which note at once what every
subobject should receive: C describes a cursor that designators move and elided braces make go
down.  A list or a string for a whole subobject overrides all that its parts were given before; `stale` says
what that was.  When the last brace is closed, `Read` is `initializer()` on the tokens, the mutually
recursive functions of the code under their names, and the properties compare what
`write_gvar_data` and `create_lvar_init` then make of the tree.  Expressions are numbered; a string
is its length.

**`Tokenizer`** has a file of characters, of which one or two stand for each class that the code tells
apart: `ReadFile` with its three passes, one action of the loop in `tokenize` per kind of token or
blank, `convert_pp_tokens`, and `join_adjacent_string_literals`.  **`TokensAsC`** is what the standard
says of the same file, in its own order: characters that know their line, lines joined, universal
names, then at each place the longest string the grammar has a token for (`Lexed`), types of
constants by C's lists, strings by their parts.

`MCLinkage`, `MCInitializers`, `MCTokenizer`, `MCHashMap`, `MCCallConv`, `MCPreprocess`, `MCMacroExpand`, `MCIntExpr`, `MCStatements`, `MCLayout` and
`MCDriver` give the constants their values.  Definitions introduced by "Seeded fault" are variants of the definition
that follows them, with a mistake a programmer could make; each property was seen to
fail when the variant takes the place of the original.

## 3. Runs

| Run | Shows | Bounds, and why they suffice |
|---|---|---|
| `macro_table` | `ProbesEnd`, `RehashNotNested`, refines `StringMap!WeakSpec` | 3 keys all colliding or wrapping round, 2 values, capacities 4 and 8: tombstones, reuse, a full probe, one growth and rehashes at the same capacity.  A second growth needs more keys than TLC can take here; the proofs cover it |
| `exact_table` | `KeysOnce`, refines `StringMap!Spec` | the same with a fourth key and the two clients of `ExactSpec` |
| `call_wide` | `ArgsArrive`, `VariadicArrive`, `Balanced`, `Aligned` | 3 integer and 2 vector registers, all lists of up to 4 of 5 types, some of them behind two long doubles, any number of them named, with and without return buffer and a word on the stack: each register class runs out, at named and at variable arguments, and structs compete for the last one; and lists of `long`, a struct of three words and one of four that is aligned to 16.  Blocks of `alloca` of 1 or 16 bytes before any argument of lists up to 3, as many as take four words: one of each, or two of either |
| `groups` | `InsideSelected`, refines `CondIncl!Spec`, `Terminates` | all programs of up to 5 lines over three vocabularies: `#ifdef`, `#ifndef`, `#elif`, `#else`, `#endif`, `#define`, `#error` and text; `#if`, `#undef`, `#` alone, a C `else`, and macros without body at the end of a text line, alone on a line or in front of `#define`, where `PlainSources` admits them; two headers, one including itself, one leaving a group open.  That is nesting of 2 with text, three levels of skipping, every order of `#elif`, `#else`, `#endif` |
| `macros` | `NotReentered`, `SubstIsStandard`, `Terminates` | macros `F` and `G` with every body of up to 2 and 3 words over each other, the parameter and parentheses, called in 4 ways that let a call end outside the replacement it starts in; every body of up to 4 words over two parameters, a word, `#` and `##`, with arguments of none, one and two tokens, too few included; variadic bodies with `,##` and `__VA_OPT__` |
| `driver_outputs` | `ReadyToRun`, `CompleteOnSuccess`, `TmpfilesRemoved` | up to 3 of 7 inputs, all mode options and `-x`, older outputs present or not |
| `int_expr` | `CodeIsC`, `TypesAreC`, `ConstantIsC` | objects of 2, 3, 4 and 6 bits for those of 8, 16, 32 and 64: only the order of the widths is used by `add_type` and the cast table; leaves at both ends of each type's range, at 1, and at -1 and 2 where they fit |
| `statements` | `TypeOK`, `RefusesAsC`, `SameExpressions`, `KeepsPace` | 60,500 bodies: each of 11 loops, switches, conditionals and statement expressions around each other, with an expression, `return`, `break`, `continue` or `goto` in three places and a label on any part or none, before a tail that can be seen to be reached.  Two levels tell an inner context from an outer one, which is all the cells hold; switches on 3-bit values test a range over zero.  `RefusesAsC` and the labels in `TypeOK` are facts of the code and looked at once per body |
| `layout` | `AsAbi`, `UnitsInside`, `ReadsBack`, `LayoutKept` | up to 3 of 10 members: plain ones whose size is not their alignment, over-aligned ones, signed and unsigned bit-fields of 1, 2, 4 and 8 bytes that fill or cross a unit in every order, a zero width.  Three members tell a unit's first, inner and last field apart.  Values are all ones, which any stray bit shows in, and a mixed pattern |
| `linkage` | `MeansTheSame`, `EmitsWhatIsNeeded`, `EveryObjectOnce`, `MarkingEnds` | four vocabularies, each with programs long enough for it: up to 7 items of two static inline functions calling each other before and after their definitions, a root and an initializer; up to 5 of `inline`, `static` and `extern inline` declarations of one function; up to 6 of locals, parameters, typedefs, statics and blocks over a function's and an object's name; up to 5 declarations of one object |
| `initializers` | `ReadAsC`, `StaticAsC`, `LocalAsC` | 12 types in which every kind of object is part of every other, one or two elements each; up to 3 initializers for five of them, 2 for the rest, in up to 3 nested lists, with and without braces, excess elements, trailing commas, designators that go any way down, ranges.  Three show a list that goes on after an override |
| `tokens` | `TypeOK`, `ReadAsC`, `ConstantsAsC`, `StringsAsC` | every text of 4 or 5 pieces over ten alphabets: line ends and backslashes, comments, punctuators, integer and floating constants, universal names, identifiers, string and character literals, runs of strings.  `int` has 3 bits and `long` 5, so that constants of 4 digits cross every boundary; names have 1 and 2 digits |

Deadlock is not checked where the component may stop: a table used up to the largest
capacity modelled, or whose assertion failed; a preprocessor, macro expansion, function, driver, list of objects, initializer or file that has ended.

The only fairness is `WF_vars(Next)`, in `Preprocess!FairSpec` and `MacroExpand!Spec`, and `WF_vars(Mark)`
in `Linkage!Spec`, where what else the program declares is up to it: a sequential loop that can
take a step takes it.  The others have only safety properties; that code and `todo` reach the next expression together is one of them (`KeepsPace`).

Excluded from the runs, because the code is wrong there (section 4): a text line that ends in a
macro without body before a directive; a macro without body at the beginning of a line before a `#`, or one whose
body begins with `#`; a `#` alone before a line that begins with a directive's
name; two `##` with a single word between them; redefinition of a macro in force for the exact
refinement; one-word structs and, behind anything else on the stack, long doubles as arguments; of
variadic calls, what `PlainVariadic` leaves out; a static initializer that gives a member but not a
bit-field before it (`Gaps`); an object declared twice without initializer (`Repeats`); a list that
goes on after a designator that ends inside of a struct (`Shorthand`); a list or string for an object of which more
was initialized before (`Leftovers`), and the other forms the guards
of `Initializers` name; links with an assembler source.  `Gaps`, `Repeats`, `Shorthand` and `Leftovers` are constants: with one of them `TRUE`, TLC
finds the fault.  Texts to which C gives no meaning are read by the tokenizer but not judged:
quotes and comments that are not closed, numbers that are no constants, character constants of several characters; and
so are `_` or other letters beyond ASCII in numbers, and digraphs, which it does not know.

Parameters inside `__VA_OPT__` are left out too: the code
copies that text as it stands, which no document of the repository denies.  So are `break`
and `continue` in a statement expression in the parentheses of a `for`, an extension
compilers disagree on, and switches with two equal cases or functions with two equal
labels, which are not C and which the parser does not look for.

## 4. What the code does otherwise

Met while modelling; the runs leave these forms out by name, as section 3 says.

Where the repository itself says what should happen:

- A `#define` over a tombstone can store a key twice (`hashmap.rs` 129-133); `#undef` then uncovers the old
  definition, so that a macro comes back from the dead, and the next rehash fails the
  `assert_eq!` of line 85.  Only the macro table deletes.
- `count_args` and the pop loop disagree on structs of at most 8 bytes
  (`codegen.rs` 290 and 1114): with enough integer arguments a word meant for the stack is
  popped into a register, and `depth` is wrong after the call, against the assertion of line 2194.
- `write_gvar_data` leaves its loop at the first bit-field without an expression
  (`parse.rs` 2622): of `static struct { int a:3, b:3; } x = {.b = 1}` nothing is written, where
  `src/README.md` 230 lists "Support global struct bitfield initializer".
- `int x; int x;` leaves no definition: `scan_globals` drops a tentative definition if any other
  exists, another tentative one included (`parse.rs` 184; `src/README.md` 178 lists "Add tentative
  definition").
- `.s.a = 1, .s.b = 2`, and `.s.a = 1, 2`, are refused when `a` is not the last member of `s`
  (`parse.rs` 1273, 1152-1167; `src/README.md` 239 lists struct designators).

Directives, macros and the driver:

- A macro without body at the end of a line hides the directive on the next: its
  `at_bol` is overwritten (`preprocess.rs` 894).
- For the same reason a macro at the beginning of a line makes a directive of a `#` behind it: `EMPTY # include "f"`,
  or with `#define HASH #`, `HASH define X` (894, 915), is obeyed, where C 6.10p2 says it is none.
- A `#` alone on its line takes the first word of the next line for its directive,
  because the word is compared before its `at_bol` is looked at (`preprocess.rs` 1727).
- In `x##y##z`, with nothing for `x` and `y`, the second `##` has no placemarker to its
  left: it fails, or pastes to the token before the chain (`preprocess.rs` 776).
- A macro body that ends in `##` after a parameter panics when the argument is empty
  (`preprocess.rs` 796, `SubstPanics`).
- A number after `#line` is that of the next line in C; here the next line is one further, which
  `src/src/cpp/test/line.c` expects.
- An assembler source is assembled but its object is not linked (`main.rs` 702-711): `foo.s bar.c` links `bar.c`
  alone, and `foo.s` alone makes nothing and succeeds.
- `-c` or `-S` with an object or library on the command line still links, and so does `-E` with an `-l`
  (`main.rs` 763).  Every other input of `-E` is taken for C, objects included (339).

Calls:

- A `long double` parameter after an odd number of stack words is looked for 8 bytes
  too high: the callee aligns it to 16 bytes (`codegen.rs` 2024), the caller packs words.
- `va_arg(ap, long double)` reads the vector save area, because `is_flonum` includes it (`lib.rs` 720,
  `parse.rs` 6615); `va_arg` of a struct of up to 16 bytes looks in memory, though it was passed in registers; a
  struct of more than two words aligned to 16 is looked for at a multiple of 16 (`src/src/cpp/include/stdarg.h` 20-21), but
  passed and, as a parameter, taken without padding;
  and after named parameters on the stack, or named structs of two words, `va_arg` starts at the wrong
  word (`codegen.rs` 2106-2116).

Expressions, statements and members:

- `break` or `goto` out of a statement expression that is an operand, as in
  `f(a, ({ break; 0; }))`, leaves the words pushed for the other operands on the stack
  (`codegen.rs` 1193); `%rsp` is only put right at the epilogue.
- `return` in a statement expression is not converted to the function's type, because
  `primary` hands on `None` for it (`parse.rs` 6436).
- Shifts are done in the common type of value and count (`parse.rs` 6938; the C original,
  `src/src/cpp/type.c` 236-240, takes the type of the value), so `-1 >> 1u` is 2147483647.
- `~` does not promote its operand (`parse.rs` 6984): `(unsigned char)~c` gets no cast
  instruction and keeps 32 bits.
- Arithmetic on an `enum` stays an `enum`, is done on 32 bits, and `get_type_id` takes it
  for 64: `e - 1` as a `long` can be 4294967295.
- `b++` and `b--` on a `_Bool` undo the addition on the new value (`new_inc_dec`, `parse.rs` 5122-5132): of a
  true `b`, `b++` is 0, and of a false one `b--` is 1.
- `eval2` never truncates to 32 bits but at a cast: `(long)-1U` as a constant is -1, and
  `!`, `&&`, `||`, `?:` test bits the code would not.  A constant converted to
  `_Bool` keeps its low 8 bits.  `0 && 1/0` evaluates `1/0` and panics.
- Assigning to a bit-field of 32 bits or more emits an `and` whose immediate does not fit, and a
  width of 64 overflows the compiler's own shift (`codegen.rs` 1024-1029, `parse.rs` 2629).
- The value of an assignment to a bit-field is the value assigned, not what the field then holds
  (`mov %r8, %rax`, `codegen.rs` 1037).
- A `_Bool` bit-field is read with its sign, because `_Bool` is not marked unsigned: `b:1` set to 1 reads as -1
  (`codegen.rs` 946).
- Unnamed bit-fields raise the alignment of their struct, and take an initializer
  (`parse.rs` 1968, 1232).

Names with linkage:

- `static void *p = &p;`: the object's own name is not found in its initializer (`parse.rs` 2797-2810, 3412-3436).
- `extern int x = 5;` is never emitted (`parse.rs` 2791).
- A declaration in a block, `extern` or of a function, does not hide a local of an outer block;
  `struct T;` in an inner scope does not hide the outer tag (1877).
- Two `_Thread_local` definitions of an object are both emitted.
- Static data of a function that is not emitted may name functions that are not emitted either.
- After `extern int a[]; int a[3];` the first declaration is found, so `sizeof a` is refused (541).
- `static int f(void); int f(void) {}` makes `f` global (3812).
- A local with `_Alignas` above 16 is aligned only relative to `%rbp` (`codegen.rs` 2062).

Initializers (`parse.rs`):

- A range designator with more designators behind it continues after its first element (1121).
- A designator into a flexible array member that has no size yet panics (1104); `.n = ...` after one
  that was left out is refused (830-888).
- `{ .b = 1, }` and `{ .a = 1, .b = 2 }` for a union, and `int x = {1,}`, are refused (1337, 1447).
- A string for an element of `char *p[2]` in an outer list, or of a nested array of `char`, panics when the
  inner braces are left out (929); `char s[] = {"abc"}` is misread.
- A union initialized by an expression of its own type passes it to its first member (1348).
- A struct expression is taken for the first struct met on the way down, of whatever type (1414), and stays when a later
  initializer overrides part of it (1400-1421, 1567).
- Members of unnamed unions cannot be designated (770).
- Returning to a union member after another finds its old initializers again.
- A list or string for a whole subobject keeps what its parts were given before: after `.p = {1, 2}, .p = {3}` the second
  member is 2, after `.s = "abc", .s = ""` the array holds `bc` behind the NUL (1187-1248, 915-932); C 6.7.9 (19, 21)
  makes them zero.

Tokens (`tokenize.rs`):

- An error is a token of kind `Eof` whose message nobody looks at (1269-1287; `preprocess.rs` 1708,
  `codegen.rs` 1825): at file scope, with `-E` and in headers the rest of the file is dropped in
  silence, also after an apostrophe in a group that is skipped.
- A comment that is not closed runs to the end of the file in silence (957-968; the C original says
  "unclosed block comment", `src/src/cpp/tokenize.c` 513).
- `0x1g` and `0x` are floating constants (700-745), `08` is a double, `1f` a float, `1lL` an integer.
- `'''` and a newline in a character constant are accepted, constants of several characters refused.
- A universal name of a surrogate or beyond `10FFFF` panics (321); one of an ASCII character is that character, so
  that `\u0022` begins a string.  U+2028 is white space (944).
- Numbers end before `_`; digraphs are unknown.
- A token on a continued line has the number of the line it began on.


## 5. Proofs

`HashMapProofs` proves about `HashMap`, for every set of keys and values, every hash
function, and every set of capacities satisfying the module's assumptions:

- `TableInvariant`: `Spec => []IInv`, and the same for `ExactSpec`.  `IInv` is
  `TypeOK`, `RoomLeft` (`used` is the number of buckets that are not null and, in an
  allocated table, less than the capacity) and `Draining` (`map2` holds no more keys
  than were drained, and is sparse enough for all of the old table's).  `TypeOK` alone is
  not inductive: that a put finds a bucket needs a null one.
- `TypeCorrect`: `[]TypeOK`.
- `SearchesEnd`: `[]ProbesEnd`, from `RoomLeft` and the arithmetic of probing.  Capacity
  divides the modulus of the wrapping addition, so the wrapped probe index is the
  unwrapped one modulo the capacity (`SlotFormula`) and meets every bucket
  (`SlotOnto`); some bucket is null; a least probe among those that
  meet one exists (`FirstProbeExists`).
- `RehashIsShallow`: `[]RehashNotNested`, from `Draining`: below 50 % before means below
  70 % while filling.

It goes on to the map that the table stands for (`View`, what a
lookup of each key would find):

- `RefinesWeakMap`: `Spec => StringMap!WeakSpec`, for the macro table, whatever is defined
  and undefined.  The invariant `WeakInv` adds to `IInv` that each bucket in use holds a value
  and is met by the search for its key before a null bucket (`Reachable`: stores fill null buckets,
  deletes leave tombstones, so no search is cut short), and that during a rehash the new table
  holds exactly the keys drained, once each, with a value that one of their buckets had (`Copied`).
- `KeysAreOnce`: `ExactSpec => []KeysOnce`, and `RefinesMap`: `ExactSpec => StringMap!Spec`.
  `ExactInv` adds that the old table has no key twice.  That is what `Spec` does not give,
  since a `#define` can stop at a tombstone before the key (section 4).

Both refinements go step by step: a put or delete away from the high watermark is one step of the map, the steps
of a rehash are stutters, because a lookup in either table finds the same, and `FinishRehash` is the put that was
waiting.  The assumptions are those named in `HashMap`: sentinels are not keys, the hash is in
range, capacities are at least 4 and divide the hash modulus.  `INIT_SIZE` 16, its
doublings and 2^64 satisfy them.

`PreprocessProofs` proves about `Preprocess`, for every program and every set of
headers: `LoopInvariant`, `Spec => []IInv`, where
`IInv` is `TypeOK` and `InsideSelected`; `TypeCorrect` and `OnlySelected` are its two
parts, and need no assumption on the constants.  Neither part is inductive alone: that the section an `#else` closes was
selected needs to know what is on `COND_INCL`, and that `COND_INCL` is not empty while
skipping needs to know which routine pushed last.

`RefinesStandard` is the refinement, `Spec => CondIncl!Spec`, from `LinesAssumption` and
`PlainSources`.  `RInv` adds that the lines to come are plain, and that a line that lost its
`at_bol` is no directive: then the code sees each directive (`SeesDirective`).  The standard's stack
is the code's `COND_INCL` with the groups a skip routine has counted put on top (`NestedIs`,
`NestedPush`, `NestedPop`); a line is live there exactly if no routine is skipping (`LiveIs`).  Then
each action of `Preprocess` is the action of `CondIncl` for the same line.

`IntExprProofs` proves about `IntExpr`, for all widths that satisfy `BitsAssumption`, all values of the leaves, and expressions of
any size: `TypesCorrect`, `CodeComputesC` and `ConstantsAreC`, that is `TypesAreC`, `CodeIsC` and
`ConstantIsC`.  Neither of the last two is inductive: that the low bits of the register are right says
nothing of what a conversion to 64 bits will extend.  The invariant (`AllRight`) says which bits hold
the value: those of the 32-bit register for a type of 32 bits or less, a narrow one included, all 64 for a
`long` and, since `get_type_id` takes it for one, for an `enum` (`InReg`); the constant agrees with the value on as many bits (`InConst`).
It also says that the compiler's type is C's, or an `enum` where C has its `int` (`TypePair`).  The argument has four layers:

- Congruence modulo powers of two (`Cong`, `Pow2Is`, `Pow2Divides`): of the numbers congruent to each
  other a type has one as its value (`AsUnique`), and what agrees on more bits agrees on fewer (`CongNarrow`).
- Conversions: where the cast table has no entry, every value of the one type is one of the other
  (`CoversVals`), so leaving the register alone is right (`CastReg`); `eval2` truncates as the code does (`CastConst`).
- Operations: `+`, `-`, `*`, `<<` and the bitwise ones need congruent operands only (`Computed`, `OnBitsCong`);
  `/`, `%`, `>>` and comparisons need the extended operands (`OperandReg`), and that C leaves the quotient that
  traps undefined (`NoOverflow`).
- A lemma for each form of expression, for any right operands (`BinaryRight`, `CondRight`, `IncDecRight`, ...).

Powers of two and the bits of a result are recursive functions; what is proved of them by induction goes
by the least number for which it fails (`LeastElement`), and that they exist at all is `Repeated`.

`LayoutProofs` proves about `Layout`, for every set of declarators and values that satisfies the
module's assumptions, and any number of members.  The invariant `LInv` (`LayoutInvariant`) says that there is
a sequence `E` of bit counts, one after each member, from which every place and the
size follow (`Chain`, `Kept`); a second run of the loop meets the same `E`, which is what
`TypeOK` and `LayoutKept` alone cannot say.  From it:

- `TypeCorrect`: `[]TypeOK`; that bit offsets stay below 64 rests on `BitfieldAt`, the arithmetic of
  rounding for each size of a unit.
- `LayoutIsKept`: `[]LayoutKept`.  A struct's second run starts from its final alignment, a union's from 1;
  both end at the largest alignment, which is one number (`CoversOnce`).
- `AccessesInside`: `[]UnitsInside`.  `E` does not decrease, the size is `E`'s last value rounded up to the
  alignment, and a unit that begins inside of that ends inside of it (`UnitFits`).
- `LayoutIsAbi`: `[]AsAbi`, the one pass of the code against the definition of the ABI.  `FirstFit` asks for the
  least bit at which a member fits, the code rounds up: rounding finds it, whether a bit-field has room in the unit it
  is in, crosses the unit's end, or has width zero (`PutIsFirstFit`, from `NearestMultiple`).  So the recursion that
  defines `AbiEnd` has one solution, `E` (`AbiEndIs`, by the least member at which they differ).

It goes on from there to memory, where static initializers leave no gap
(`~Gaps`): `MembersReadBack`, `Spec => []ReadsBack`.  A member lies in its unit (`InUnit`), two members of a
struct do not meet (`Apart`, because `E` does not decrease), a store changes the bits of its member and no
others (`Stored`, from `AssignedIs`, `WholeIs` and `OredIs`, one for each way the code stores), and a read leaves
the member's bits, extended (`ReadsField`).  While the initializer is written the invariant (`MInv`) also needs
that the struct is still zero from the next member on (`Below`), since static bit-fields are or-ed in.

`DriverProofs` proves about `Driver`, for every set of command lines, of any length, and of
older files: `ChildrenAreReady`, `Spec => []ReadyToRun`; `SuccessIsComplete`, `[]CompleteOnSuccess`;
`NoTmpfilesLeft`, `[]TmpfilesRemoved`.  The last two speak of the end, so the invariant says what
holds on the way (`RunningInv`): the arguments of the linker are the inputs done so far that go to it, in order
(`Order`); what is still to be run is one child, a compiler and its assembler, or the linker
(`Shape`); every temporary file there is is on the list to be removed (`Held`); what the next child reads, and what the linker will, is
complete, or the last child waiting will write it (`Ready`); and the inputs that are done have what they promise (`Goals`),
where no two outputs of the command line have one name (`NamesDiffer`).  That the executable is made of one object for each
input, in order, needs that no assembler source is to be linked (`~LeftOut`): then the inputs done so far, each as the
linker's argument for it, are `Objects`.

`CallConvProofs` proves about `CallConv`, for argument lists of any length, any numbers of registers and any
words pushed before: `ArgumentsArrive`, `VariadicsArrive`, `StackIsBalanced`, `CallsAreAligned`, that is
`ArgsArrive`, `VariadicArrive`, `Balanced` and `Aligned`.  Two premises name the lists on which the code is wrong (section 4):
no struct of one word (`WideStructs`; `VariadicArrive` implies it), and, for `ArgsArrive`, no long double behind an odd
number of words on the stack (`EvenLongDoubles`).  `PlainVariadic`, the premise of `VariadicArrive`, has structs aligned to
16 behind types of an even number of words only, where `va_arg` rounds to where they are.  The invariant has two ideas:

- One division of the arguments (`Division`: registers of either class used up, words in registers, words on
  the stack, before each argument), which `count_args` builds and every later loop is shown to follow:
  the pops load the registers it names (`Loaded`), the prologue gives the offsets it names (`Offsets`), `va_arg`
  stands where it says (`VaList`).  `count_args` itself counts on when no register is left, so it
  follows the division only up to that (`Same`).
- The stack is always the end of one sequence that the argument list fixes: words for registers, words for the
  stack, padding, what was there before, the blocks of `alloca` (`Suffix`).  A push lengthens that end by one
  argument, a pop shortens it, `alloca` adds below.

That `Placed` counts parameters while `FetchArg` counts registers needs one more part, `ScalarSum`: as long as all
arguments are scalars in registers, the two are one number.  The assumptions are `TypeAssumption` and `SizesAssumption`.

`LinkageProofs` proves about `Linkage`, for all names, vocabularies and lengths of programs:

- `FindsWhatCMeans`: `Spec => []MeansTheSame`, every identifier is found where C finds it.  The
  code has a scope with a function's own name and its parameters and another for its body, and looks for names
  with linkage in `globals`; C has one scope for parameters and body and enters everything.  `BindingsOK`
  relates the two at each level (`Level`): what C binds there is in the code's scope, or has linkage, is declared, and
  hides nothing without (`CInCode`); all that the code binds but the own name is bound in C (`CodeInC`).
- `LiveIsNeeded`: `[]EmitsWhatIsNeeded`.  While parsing, roots and references are those of C
  (`ParseInv`).  While marking, what is marked or waiting to be is needed, and a function that a
  marked one mentions is marked or waiting (`MarkInv`); so when nothing waits and
  no root is left, the marked functions are closed under references, and C's set is the least such.
- `DefinedExactlyOnce`: `[]EveryObjectOnce` where no object is declared twice without initializer
  (`~Repeats`; otherwise the code is wrong, section 4).

The assumptions are `NamesAssumption`, `BoundsAssumption` and `ItemsAssumption`.

`MacroExpandProofs` proves about `MacroExpand`, for all macro tables, programs and ways of pasting and quoting:
`NeverReentered`, `Spec => []NotReentered`.  The invariant (`Inv`) says of each activation of `preprocess2` that a
token that stands before the place where a replacement ends has that replacement's macro in its hideset
(`Hidden`), and the same of what a call has read (`CallOK`): its arguments, the tokens after it, and the
hideset to come.  That the code intersects the hidesets of the name and of the closing parenthesis loses nothing
that is still needed: a replacement that ends after the parenthesis hides both, and one that ends before it is over
when the call's replacement takes its place (`BeginCallStep`, `RescannedFrame`).  An argument stands before
the parenthesis (`ArgsRead`), so its own activation starts with everything around the call hidden (`ExpandArgStep`).
What subst builds, pasted tokens without hideset included, gets the call's hideset whole (`EndSubstStep`).
The one assumption is `InputsAssumption`.

Model-checked only: everything in `Initializers`, `TokensAsC` and `Statements` (recursive operators, on which the prover has no
backend), `SubstIsStandard`
(a fold over the parts of a body), and termination (`Terminates`, `MarkingEnds`), which as
liveness is out of the prover's reach.

## 6. Not modelled

- Line markers and the search for included files: numbers in messages, and a list searched in order.
- The declspec counter and declarators (a table of allowed sums, and recursion over the syntax), tags
  in scopes, and offsets of locals in the frame.
- Floating-point values, pointer arithmetic, addresses and relocations (`eval_rval`,
  `gen_addr`): `IntExpr` ends at integers, and TLC has no arithmetic for the others.
- Built-in macros, messages, and the layout of text output, which hold no state.
- The C original in `src/src/cpp`, which is test input, and scripts.

## 7. Plan

What is left is proof; in this order:

1. `Tokenizer`: `pos` stays within the text and tokens do not overlap (`TypeOK`).
2. `Statements`: what `RefusesAsC` says of `break`, `continue` and labels.
