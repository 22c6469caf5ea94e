----------------------------- MODULE Preprocess ----------------------------
(***************************************************************************)
(* The directive loop of src/src/preprocess.rs (preprocess2) with the two  *)
(* routines that skip what a condition leaves out.                         *)
(*                                                                         *)
(* The token list is abstracted to lines.  A line is a record: hash, does  *)
(* it begin with #; word, the directive's name (for text, its first word   *)
(* when that is spelt like one, as the C statements if and else are);      *)
(* name, the macro or file it is about; empty, does it "end" in a macro    *)
(* with no body, or is that "all" there is on it; made, does a macro with   *)
(* no body, or with a body that begins with #, at its beginning leave a #  *)
(* and a directive (word and name) in front.  #if and #elif test           *)
(* defined(name).  An #include replaces its line by the lines of the file, *)
(* as append_tokens does, so the stack of conditionals spans files.        *)
(***************************************************************************)
EXTENDS Sequences, Naturals

CONSTANTS
  Programs,  \* the sequences of lines that may be given to be preprocessed
  Files      \* the lines of each file that may be included

Sources == Programs \cup {Files[f] : f \in DOMAIN Files}
Lines == UNION {{p[n] : n \in DOMAIN p} : p \in Sources}

ASSUME LinesAssumption ==
  /\ Sources \subseteq Seq(Lines)
  /\ \A l \in Lines :
       /\ l.hash \in BOOLEAN /\ l.made \in BOOLEAN /\ l.empty \in {"no", "end", "all"}
       /\ ~(l.hash /\ l.made)
       /\ l.hash \/ l.made =>
            /\ l.word \in {"if", "ifdef", "ifndef", "elif", "else", "endif", "define",
                           "undef", "include", "error", ""}
            /\ l.word = "include" => l.name \in DOMAIN Files

VARIABLES
  todo,     \* the lines of the token list from tok on
  bol,      \* has the first token of todo kept its at_bol flag?
  stack,    \* COND_INCL, innermost first
  skipping, \* is skip_cond_incl running?
  nest,     \* activations of skip_cond_incl2 under it
  macros, out, status

vars == <<todo, bol, stack, skipping, nest, macros, out, status>>
skipper == <<skipping, nest>>

CondIncl(ctx, included) == [ctx |-> ctx, included |-> included]

Opening == {"if", "ifdef", "ifndef"}
Resuming == {"elif", "else", "endif"}

\* is_hash: the line is a directive to the code.  preprocess2 expands a macro
\* before it looks, and the macro's at_bol is then that of the # it leaves.
IsHash == bol /\ (Head(todo).hash \/ (Head(todo).made /\ ~skipping))

\* The code looks at the token after the #, on whatever line that is.
OnNextLine ==
  /\ Head(todo).word = "" /\ Len(todo) > 1
  /\ ~todo[2].hash /\ ~todo[2].made /\ todo[2].word # ""
Dir   == IF OnNextLine THEN todo[2] ELSE Head(todo)
After == IF OnNextLine THEN Tail(Tail(todo)) ELSE Tail(todo)

\* Does the condition of #if, #ifdef, #ifndef or #elif hold?
Holds == IF Dir.word = "ifndef" THEN Dir.name \notin macros ELSE Dir.name \in macros

Init ==
  /\ todo \in Programs
  /\ bol = TRUE /\ stack = <<>> /\ skipping = FALSE /\ nest = 0
  /\ macros = {} /\ out = <<>> /\ status = "running"

Reading == status = "running" /\ todo # <<>>
\* preprocess2 is at a directive among the words given.
Directive(words) == Reading /\ ~skipping /\ IsHash /\ Dir.word \in words
\* skip_cond_incl breaks out of its loop at one of these.
Resume(word) == Reading /\ (skipping => nest = 0) /\ IsHash /\ Dir.word = word

\* To the line after the directive; the skipping ends or starts there.
GoOn(skip) == todo' = After /\ bol' = TRUE /\ skipping' = skip /\ nest' = 0
Err(how) == status' = how /\ UNCHANGED <<todo, bol, skipper>>

\* A line that is no directive to the code goes to the output.  A macro
\* without body gives the next token its own at_bol: FALSE at the line's end,
\* what the line began with if there is nothing else on it.
Text ==
  /\ Reading /\ ~skipping /\ ~IsHash
  /\ out' = Append(out, Head(todo))
  /\ todo' = Tail(todo) /\ bol' = (Head(todo).empty = "no" \/ (Head(todo).empty = "all" /\ bol))
  /\ UNCHANGED <<stack, skipper, macros, status>>

\* #if, #ifdef, #ifndef: push_cond_incl, then skip if the condition fails.
If ==
  /\ Directive(Opening)
  /\ stack' = <<CondIncl("then", Holds)>> \o stack
  /\ GoOn(~Holds)
  /\ UNCHANGED <<macros, out, status>>

\* Seeded fault: included is not recorded.
ElifForgets ==
  /\ Resume("elif")
  /\ IF stack = <<>> \/ Head(stack).ctx = "else"
       THEN stack' = <<>> /\ Err("stray")
       ELSE LET ci == Head(stack)
                selected == ~ci.included /\ Holds
            IN  /\ stack' = <<CondIncl("elif", ci.included)>> \o Tail(stack)
                /\ GoOn(~selected) /\ UNCHANGED status
  /\ UNCHANGED <<macros, out>>

Elif ==
  /\ Resume("elif")
  /\ IF stack = <<>> \/ Head(stack).ctx = "else"
       THEN stack' = <<>> /\ Err("stray")
       ELSE LET ci == Head(stack)
                selected == ~ci.included /\ Holds
            IN  /\ stack' = <<CondIncl("elif", ci.included \/ selected)>> \o Tail(stack)
                /\ GoOn(~selected) /\ UNCHANGED status
  /\ UNCHANGED <<macros, out>>

Else ==
  /\ Resume("else")
  /\ IF stack = <<>> \/ Head(stack).ctx = "else"
       THEN stack' = <<>> /\ Err("stray")
       ELSE LET ci == Head(stack)
            IN  /\ stack' = <<CondIncl("else", ci.included)>> \o Tail(stack)
                /\ GoOn(ci.included) /\ UNCHANGED status
  /\ UNCHANGED <<macros, out>>

Endif ==
  /\ Resume("endif")
  /\ IF stack = <<>>
       THEN Err("stray") /\ UNCHANGED stack
       ELSE stack' = Tail(stack) /\ GoOn(FALSE) /\ UNCHANGED status
  /\ UNCHANGED <<macros, out>>

\* Seeded fault: an #else within the skipped group ends the skipping.
SkipFlat ==
  /\ Reading /\ skipping
  /\ nest = 0 => ~(IsHash /\ Dir.word \in Resuming)
  /\ nest' = IF IsHash /\ Dir.word \in Opening THEN nest + 1
             ELSE IF IsHash /\ Dir.word \in Resuming THEN nest - 1 ELSE nest
  /\ todo' = IF IsHash /\ Dir.word \in Opening \cup {"endif"} THEN After ELSE Tail(todo)
  /\ bol' = TRUE
  /\ UNCHANGED <<stack, skipping, macros, out, status>>

\* One turn of skip_cond_incl, or of the innermost skip_cond_incl2.
Skip ==
  LET word == IF IsHash THEN Dir.word ELSE "" IN
  /\ Reading /\ skipping
  /\ nest = 0 => word \notin Resuming
  /\ nest' = IF word \in Opening THEN nest + 1 ELSE IF word = "endif" THEN nest - 1 ELSE nest
  /\ todo' = IF word \in Opening \cup {"endif"} THEN After ELSE Tail(todo)
  /\ bol' = TRUE
  /\ UNCHANGED <<stack, skipping, macros, out, status>>

Define ==
  /\ Directive({"define", "undef"})
  /\ macros' = IF Dir.word = "define" THEN macros \cup {Dir.name} ELSE macros \ {Dir.name}
  /\ GoOn(FALSE)
  /\ UNCHANGED <<stack, out, status>>

Include ==
  /\ Directive({"include"})
  /\ todo' = Files[Dir.name] \o After /\ bol' = TRUE
  /\ UNCHANGED <<stack, skipper, macros, out, status>>

NullDirective ==
  /\ Directive({""})
  /\ GoOn(FALSE)
  /\ UNCHANGED <<stack, macros, out, status>>

Error ==
  /\ Directive({"error"})
  /\ Err("error")
  /\ UNCHANGED <<stack, macros, out>>

\* Seeded fault: skip_cond_incl waits for its #endif past the end.
FinishUnlessSkipping ==
  /\ status = "running" /\ todo = <<>> /\ ~skipping
  /\ status' = IF stack = <<>> THEN "done" ELSE "unterminated"
  /\ stack' = <<>> /\ skipping' = FALSE /\ nest' = 0
  /\ UNCHANGED <<todo, bol, macros, out>>

\* preprocess: what is left on COND_INCL has no #endif.
Finish ==
  /\ status = "running" /\ todo = <<>>
  /\ status' = IF stack = <<>> THEN "done" ELSE "unterminated"
  /\ stack' = <<>> /\ skipping' = FALSE /\ nest' = 0
  /\ UNCHANGED <<todo, bol, macros, out>>

Next ==
  \/ Text \/ If \/ Elif \/ Else \/ Endif \/ Skip \/ Define \/ Include
  \/ NullDirective \/ Error \/ Finish

Spec == Init /\ [][Next]_vars
FairSpec == Spec /\ WF_vars(Next)
-----------------------------------------------------------------------------
(***************************************************************************)
(* Properties.                                                             *)
(***************************************************************************)
\* The types of the variables; skip_cond_incl runs inside some conditional,
\* and skip_cond_incl2 inside it.
TypeOK ==
  /\ bol \in BOOLEAN /\ skipping \in BOOLEAN /\ nest \in Nat
  /\ stack \in Seq([ctx : {"then", "elif", "else"}, included : BOOLEAN])
  /\ status \in {"running", "done", "stray", "unterminated", "error"}
  /\ skipping /\ status = "running" => stack # <<>>
  /\ nest > 0 => skipping

\* Text is output only inside sections that were selected: every conditional
\* on COND_INCL but the one being skipped has included set, or is in its #else.
InsideSelected ==
  status = "running" =>
    \A n \in DOMAIN stack : n > 1 \/ ~skipping => stack[n].included \/ stack[n].ctx = "else"

\* The open groups as the standard describes them: one left out for each
\* activation of skip_cond_incl2, then those of COND_INCL.
Groups ==
  LET opened(n) == [live   |-> n > 1 \/ ~skipping,
                    taken  |-> stack[n].included \/ stack[n].ctx = "else",
                    closed |-> stack[n].ctx = "else"]
      leftOut   == [live |-> FALSE, taken |-> TRUE, closed |-> TRUE]
  IN  IF status # "running" THEN <<>>
      ELSE [n \in 1..nest |-> leftOut] \o [n \in 1..Len(stack) |-> opened(n)]

Standard == INSTANCE CondIncl WITH rest <- todo, groups <- Groups

\* The sources in which the code sees the directives the standard sees: no line
\* that ends in a macro without body stands before one that begins with # or is
\* nothing but such macros; a line whose first macro leaves a # in front stands only
\* where at_bol is lost; and no # alone stands before a line whose first token the
\* code would take for its directive.  The end of a file may meet any line that may
\* stand behind a directive.
Plain(a, b) ==
  /\ ~a.hash /\ a.empty = "end" => ~b.hash /\ b.empty # "all"
  /\ b.made => ~a.hash /\ a.empty = "end"
  /\ a.hash /\ a.word = "" => b.hash \/ b.word = ""
PlainSources ==
  /\ \A p \in Sources : p # <<>> => ~p[1].made
  /\ \A p \in Sources : \A n \in 1..(Len(p) - 1) : Plain(p[n], p[n + 1])
  /\ \A f \in DOMAIN Files : \A l \in Lines :
       Files[f] # <<>> /\ ~l.made => Plain(Files[f][Len(Files[f])], l)

\* The loop with its skip routines keeps exactly the lines, obeys exactly the
\* directives and diagnoses exactly the strays that the standard's description
\* of groups says, whatever the nesting and wherever the file boundaries fall.
ImplementsStandard == Standard!Spec

\* A guarded header may include itself: preprocessing ends all the same,
\* although include_file has no limit of its own.
Terminates == <>(status # "running")

=============================================================================
