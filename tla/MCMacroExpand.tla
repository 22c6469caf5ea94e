--------------------------- MODULE MCMacroExpand ---------------------------
(***************************************************************************)
(* MacroExpand for TLC.                                                    *)
(***************************************************************************)
EXTENDS MacroExpand, TLC

Objlike(body) == [objlike |-> TRUE, params |-> <<>>, va |-> "", body |-> body]
Funclike(params, va, body) == [objlike |-> FALSE, params |-> params, va |-> va, body |-> body]

\* Identifiers paste to an identifier, nothing else pastes.
MCSpliced(l, r) ==
  IF {l, r} \cap {"(", ")", ",", "#", "##", "'F'", "'x'", "''", "'xF'", "bad"} = {}
    THEN l \o r ELSE ""
MCQuoted(words) == "'" \o FoldLeft(LAMBDA l, r : l \o r, "", words) \o "'"

Bodies(words, n) == UNION {[1..l -> words] : l \in 0..n}

\* Object-like and function-like macros that name each other, called in ways
\* that spread a call over the end of a replacement.
Recursive ==
  {<<[F |-> Objlike(f), G |-> Funclike(<<"a">>, "", g)], program>> :
     f \in Bodies({"F", "G", "(", ")"}, 2),
     g \in Bodies({"F", "G", "a", "(", ")"}, 3),
     program \in {<<"F", "(", "F", ")">>, <<"G", "(", "F", ")", "(", "G", ")">>,
                  <<"G", "(", "G", "(", "F", ")", ")">>, <<"F", "x", ")", "(", "x", ")">>}}

\* Bodies with # and ##; which of the two is applied first is unspecified.
Ordered(body) ==
  \A n \in DOMAIN body : n > 1 /\ body[n] \in {"#", "##"} => body[n - 1] # "##"

\* No two ## with a single word between them.
Unchained(body) ==
  \A n \in DOMAIN body : n + 2 \in DOMAIN body => ~(body[n] = "##" /\ body[n + 2] = "##")

Calls == {<<"G", "(", "x", ",", "F", ")">>, <<"G", "(", ",", "F", ")">>,
          <<"G", "(", "F", ",", ")">>, <<"G", "(", ",", ")">>,
          <<"G", "(", "x", "F", ",", "F", "x", ")">>, <<"G", "(", "F", ")">>}

Tables(bodies, params, va, programs) ==
  {<<[F |-> Objlike(<<"y">>), xF |-> Objlike(<<"z">>), G |-> Funclike(params, va, g)], program>> :
     g \in bodies, program \in programs}

Pastes(n) == {g \in Bodies({"a", "b", "x", "#", "##"}, n) : Ordered(g)}

\* Variadic macros, with __VA_OPT__ around text that names no parameter.
Variadics ==
  Bodies({"a", "v", "x"}, 2) \cup
  {l \o <<",", "##", "v">> \o r : l \in Bodies({"a", "v"}, 1), r \in Bodies({"x", ","}, 1)} \cup
  {l \o <<"__VA_OPT__", "(">> \o t \o <<")">> \o r :
     l \in Bodies({"a", "v"}, 1), t \in Bodies({"x", ","}, 1), r \in Bodies({"v"}, 1)}
VaCalls == {<<"G", "(", "x", ")">>, <<"G", "(", "F", ",", "F", ",", "x", ")">>,
            <<"G", "(", ",", ")">>, <<"G", "(", ")">>, <<"G", "(", "(", ",", ")", ",", "F", ")">>}

MCInputs ==
  Recursive
    \cup Tables({g \in Pastes(4) : Unchained(g)}, <<"a", "b">>, "", Calls)
    \cup Tables(Variadics, <<"a">>, "v", VaCalls)
    \cup Tables(Bodies({"v"}, 1), <<>>, "v", VaCalls)
    \cup Tables(Bodies({"x"}, 1), <<>>, "", VaCalls)
=============================================================================
