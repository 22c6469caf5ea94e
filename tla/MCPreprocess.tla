---------------------------- MODULE MCPreprocess ---------------------------
(***************************************************************************)
(* Preprocess for TLC: every short program over a few lines.               *)
(***************************************************************************)
EXTENDS Preprocess, FiniteSets

CONSTANT MaxLines

ASSUME PlainSources

D(word, name) == [hash |-> TRUE, word |-> word, name |-> name,
                  empty |-> "no", made |-> FALSE]
T(word, name, empty) == [hash |-> FALSE, word |-> word, name |-> name,
                         empty |-> empty, made |-> FALSE]
\* EMPTY # word name
M(word, name) == [hash |-> FALSE, word |-> word, name |-> name, empty |-> "no", made |-> TRUE]

ProgramsOver(lines) == UNION {[1..n -> lines] : n \in 0..MaxLines}

Groupings ==
  {D("ifdef", "A"), D("ifndef", "A"), D("elif", "A"), D("else", ""), D("endif", "")}

\* Conditionals that depend on what earlier sections define, and on errors
\* that must not be met.
NestedPrograms ==
  ProgramsOver(Groupings \cup {D("define", "A"), D("error", ""), T("", "text", "no")})

\* The same with null directives and #undef; a C else at a line's start; macros
\* without body at a line's end, alone on a line, or in front of a #, wherever the
\* code makes no other directives of it than the standard.
UndefPrograms ==
  {p \in ProgramsOver({D("if", "A"), D("else", ""), D("endif", ""), D("define", "A"),
                       D("undef", "A"), D("", ""), T("else", "text", "no"),
                       T("", "text", "end"), T("", "", "all"), M("define", "A")}) :
     /\ p # <<>> => ~p[1].made
     /\ \A n \in 1..(Len(p) - 1) : Plain(p[n], p[n + 1])}

NoFiles == [f \in {} |-> <<>>]

\* guarded.h has a guard and includes itself; open.h leaves a group open for
\* its includer to close.
Headers ==
  [f \in {"guarded.h", "open.h"} |->
     IF f = "guarded.h"
       THEN <<D("ifndef", "G"), D("define", "G"), T("", "guarded", "no"),
              D("include", "guarded.h"), D("endif", "")>>
       ELSE <<D("ifndef", "A"), T("", "text", "no")>>]

IncludePrograms ==
  ProgramsOver({D("include", "guarded.h"), D("include", "open.h"), D("ifdef", "G"),
                D("else", ""), D("endif", ""), D("define", "A")})

AllPrograms == NestedPrograms \cup UndefPrograms \cup IncludePrograms
=============================================================================
