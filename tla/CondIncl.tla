------------------------------ MODULE CondIncl -----------------------------
(***************************************************************************)
(* What conditional inclusion promises: a line of text is kept when every  *)
(* group around it is in its selected section, a directive is obeyed under *)
(* the same condition, and within a group left out only the nesting of     *)
(* groups is looked at.  The abstract specification of Preprocess.         *)
(***************************************************************************)
EXTENDS Naturals, Sequences

CONSTANTS
  Programs,  \* the sequences of lines that may be given to be preprocessed
  Files      \* the lines of each file that may be included

VARIABLES
  rest,    \* the lines still to be read
  groups,  \* the open groups, the innermost first
  macros,  \* the names defined
  out,     \* the lines kept
  status   \* "running", or how it ended

vars == <<rest, groups, macros, out, status>>

\* live: is its present section the selected one?  taken: has a section been
\* selected, so that no other can be?  closed: has #else been seen?
Group(live, taken, closed) == [live |-> live, taken |-> taken, closed |-> closed]
LeftOut == Group(FALSE, TRUE, TRUE)

Opening == {"if", "ifdef", "ifndef"}
Line == Head(rest)
Holds == IF Line.word = "ifndef" THEN Line.name \notin macros ELSE Line.name \in macros

Live == \A n \in DOMAIN groups : groups[n].live
\* Is what surrounds the innermost group kept?
LiveAround == \A n \in DOMAIN groups : n > 1 => groups[n].live

Init ==
  /\ rest \in Programs
  /\ groups = <<>> /\ macros = {} /\ out = <<>> /\ status = "running"

Directive(words) == status = "running" /\ rest # <<>> /\ Line.hash /\ Line.word \in words
\* The innermost group becomes g.
Section(g) == groups' = <<g>> \o Tail(groups) /\ rest' = Tail(rest) /\ UNCHANGED status
Stop(how) == status' = how /\ groups' = <<>> /\ UNCHANGED rest

Text ==
  /\ status = "running" /\ rest # <<>> /\ ~Line.hash
  /\ out' = IF Live THEN Append(out, Line) ELSE out
  /\ rest' = Tail(rest)
  /\ UNCHANGED <<groups, macros, status>>

Open ==
  /\ Directive(Opening)
  /\ groups' = <<IF Live THEN Group(Holds, Holds, FALSE) ELSE LeftOut>> \o groups
  /\ rest' = Tail(rest)
  /\ UNCHANGED <<macros, out, status>>

Elif ==
  /\ Directive({"elif"})
  /\ IF groups = <<>> \/ (LiveAround /\ Head(groups).closed)
       THEN Stop("stray")
       ELSE LET g == Head(groups)
                selected == ~g.taken /\ Holds
            IN  Section(IF LiveAround THEN Group(selected, g.taken \/ selected, FALSE) ELSE g)
  /\ UNCHANGED <<macros, out>>

Else ==
  /\ Directive({"else"})
  /\ IF groups = <<>> \/ (LiveAround /\ Head(groups).closed)
       THEN Stop("stray")
       ELSE LET g == Head(groups)
            IN  Section(IF LiveAround THEN Group(~g.taken, TRUE, TRUE) ELSE g)
  /\ UNCHANGED <<macros, out>>

Endif ==
  /\ Directive({"endif"})
  /\ IF groups = <<>> THEN Stop("stray")
       ELSE groups' = Tail(groups) /\ rest' = Tail(rest) /\ UNCHANGED status
  /\ UNCHANGED <<macros, out>>

Define ==
  /\ Directive({"define", "undef"})
  /\ macros' = IF ~Live THEN macros
               ELSE IF Line.word = "define" THEN macros \cup {Line.name}
                                            ELSE macros \ {Line.name}
  /\ rest' = Tail(rest)
  /\ UNCHANGED <<groups, out, status>>

Include ==
  /\ Directive({"include"})
  /\ rest' = IF Live THEN Files[Line.name] \o Tail(rest) ELSE Tail(rest)
  /\ UNCHANGED <<groups, macros, out, status>>

\* A line of # alone does nothing.
NullDirective ==
  /\ Directive({""})
  /\ rest' = Tail(rest)
  /\ UNCHANGED <<groups, macros, out, status>>

Error ==
  /\ Directive({"error"})
  /\ IF Live THEN Stop("error") ELSE rest' = Tail(rest) /\ UNCHANGED <<groups, status>>
  /\ UNCHANGED <<macros, out>>

Finish ==
  /\ status = "running" /\ rest = <<>>
  /\ status' = IF groups = <<>> THEN "done" ELSE "unterminated"
  /\ groups' = <<>>
  /\ UNCHANGED <<rest, macros, out>>

Next ==
  \/ Text \/ Open \/ Elif \/ Else \/ Endif \/ Define \/ Include
  \/ NullDirective \/ Error \/ Finish

Spec == Init /\ [][Next]_vars
=============================================================================
