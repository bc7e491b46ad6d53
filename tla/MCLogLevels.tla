----------------------------- MODULE MCLogLevels -----------------------------
(* An instance of LogLevels for TLC: COMPONENT_ALL and two others.        *)
EXTENDS LogLevels, TLC

\* NIV_EVENT, but NIV_NULL as COMPONENT_MEMALLOC and COMPONENT_MEMLEAKS have.
Compiled == [c \in Components |-> IF c = 2 THEN 0 ELSE 3]

\* Nothing, a level for COMPONENT_ALL alone, for another, and for all.
Environments ==
    {[c \in Components |-> -1]}
        \cup {[c \in Components |-> IF c = d THEN 5 ELSE -1] : d \in {0, 1}}
        \cup {[c \in Components |-> 5 - c]}
Asked == {-1, 6}

HandlersSymmetry == Permutations(Handlers)
=============================================================================
