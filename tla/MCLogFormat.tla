----------------------------- MODULE MCLogFormat -----------------------------
(* An instance of LogFormat for TLC.                                        *)
EXTENDS LogFormat

conv(flags, width, precision, length, letter, family) ==
    [text |-> << >>, flags |-> flags, width |-> width,
     precision |-> precision, length |-> length, letter |-> letter,
     family |-> family]

Simple(letter) == conv(<< >>, << >>, << >>, << >>, letter, 0)
Long(length, letter) == conv(<< >>, << >>, << >>, length, letter, 0)

Lengths == {<<"h", "h">>, <<"h">>, <<"l">>, <<"l", "l">>, <<"L">>, <<"q">>,
            <<"z">>}

Plain == {Simple(l) : l \in {"d", "f", "c", "s", "p", "%", "m"}}
Sized == {Long(len, "d") : len \in Lengths} \cup {Long(<<"L">>, "f")}
Adorned ==
    {conv(f, w, p, << >>, "f", 0) :
        f \in {<< >>, <<"flag">>},
        w \in {<< >>, <<"digit", "digit">>, <<"*">>},
        p \in {<< >>, <<".", "digit">>, <<".", "*">>}}
Errors == {Simple(l) : l \in OneError \cup TwoErrors \cup ByNumber}
Unknown == 9
Families == {conv(<< >>, << >>, << >>, << >>, l, f) :
                 l \in ChangesFamily, f \in Registered \cup {Unknown}}
\* %lf, %ls, %lc and %n, which are misread.
Mistaken == {Long(<<"l">>, l) : l \in {"f", "s", "c"}}
            \cup {Long(len, "n") : len \in Lengths \cup {<< >>}}
WithText(cvs) == cvs \cup {[cv EXCEPT !.text = <<"text">>] : cv \in cvs}

UpTo(n, cvs) == UNION {[1..i -> cvs] : i \in 0..n}

\* A '.' alone takes the next letter for its precision, and so needs one.
Swallowing ==
    {<<conv(<< >>, << >>, <<".">>, << >>, l, 0), next>> :
        l \in {"d", "f", "s"}, next \in WithText({Simple("d"), Simple("f")})}

\* Every pair of conversions, and triples with families, one of them not
\* registered.
Pairs == UpTo(2, WithText(Plain \cup Sized \cup Adorned \cup Errors
                          \cup Mistaken))
         \cup UpTo(3, Families \cup Errors)
         \cup Swallowing

TextOrNot == {<< >>, <<"text">>}
=============================================================================
