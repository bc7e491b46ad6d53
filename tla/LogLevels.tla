------------------------------ MODULE LogLevels ------------------------------
(***************************************************************************)
(* log_functions.c: the levels of the log components.  The program sets    *)
(* them from one thread (SetLevelDebug and InitLogging are not thread      *)
(* safe), one component's or all; SIGUSR1 and SIGUSR2 raise and lower the  *)
(* level of all by one.  A handler blocks its own signal only, and only in *)
(* the thread that took it, so handlers run in the middle of each other    *)
(* and at the same time on several threads.  A step reads or writes one    *)
(* level.                                                                  *)
(***************************************************************************)
EXTENDS Integers

CONSTANTS
    COMPONENT_COUNT,
    InitialLevel,  \* the levels CommLogComponents is compiled with
    Environment,   \* what the environment may say: a level, or -1 for nothing
                   \* (or nothing that ReturnLevelAscii knows), by component
    LevelsAsked,   \* the levels the program asks for
    Handlers       \* the runs of a signal handler that may overlap

NIV_NULL == 0
NB_LOG_LEVEL == 6
COMPONENT_ALL == 0
Components == COMPONENT_ALL..(COMPONENT_COUNT - 1)
Levels == NIV_NULL..(NB_LOG_LEVEL - 1)

ASSUME ParametersAssumption ==
    /\ COMPONENT_COUNT \in Nat \ {0}
    /\ InitialLevel \in [Components -> Levels]
    /\ Environment \subseteq [Components -> Levels \cup {-1}]
    /\ LevelsAsked \subseteq Int
    /\ "program" \notin Handlers

Signals == {"SIGUSR1", "SIGUSR2"}
Actors == Handlers \cup {"program"}
Change(signal) == IF signal = "SIGUSR1" THEN 1 ELSE -1

VARIABLES
    comp_log_level,
    environment,
    armed,      \* InitLogging has armed the signals
    call,       \* actor -> its call: pc, the level to set, the component
    own,        \* history: the components that have a level of their own
    due,        \* history: the level the changes of all add up to, -1 once
                \* two of them have overlapped
    possible    \* history: the levels they may lead to, each signal counted
                \* once or lost

vars == <<comp_log_level, environment, armed, call, own, due, possible>>

TypeOK ==
    /\ comp_log_level \in [Components -> Levels]
    /\ environment \in Environment
    /\ armed \in BOOLEAN
    /\ call \in [Actors -> [pc : {"idle", "all", "one", "init"},
                            level : Levels, i : 0..COMPONENT_COUNT]]
    /\ own \subseteq Components \ {COMPONENT_ALL}
    /\ due \in Levels \cup {-1}
    /\ possible \subseteq Levels

Init ==
    /\ comp_log_level = InitialLevel
    /\ environment \in Environment
    /\ armed = FALSE
    /\ call = [a \in Actors |-> [pc |-> "idle", level |-> NIV_NULL, i |-> 0]]
    /\ own = Components \ {COMPONENT_ALL}
    /\ due = InitialLevel[COMPONENT_ALL]
    /\ possible = {due}

\* The actors that are giving all components one level.
Changing == {a \in Actors : call[a].pc = "all"}

-----------------------------------------------------------------------------
(* A change of all levels                                                  *)

Clamp(level) == IF level < NIV_NULL THEN NIV_NULL
                ELSE IF level >= NB_LOG_LEVEL THEN NB_LOG_LEVEL - 1
                ELSE level

At(a, pc, level, i) ==
    call' = [call EXCEPT ![a] = [pc |-> pc, level |-> level, i |-> i]]

\* The level the next change is to start from.
Base == IF due = -1 THEN comp_log_level[COMPONENT_ALL] ELSE due

\* A change of all that is to lead to level begins; may is where it may lead.
Due(level, may) ==
    /\ due' = IF Changing = {} THEN level ELSE -1
    /\ possible' = possible \cup may

\* Mutant of ReturnLevelDebug: the handler starts from another component.
ReturnLevelDebugOfLast == comp_log_level[COMPONENT_COUNT - 1]

ReturnLevelDebug == comp_log_level[COMPONENT_ALL]

\* A handler begins, by reading the level it starts from.  The default action
\* of the signals, until they are armed, ends the process.
Signal(h, s) ==
    /\ armed
    /\ call[h].pc = "idle"
    /\ At(h, "all", Clamp(ReturnLevelDebug + Change(s)), 0)
    /\ Due(Clamp(Base + Change(s)), {Clamp(l + Change(s)) : l \in possible})
    /\ UNCHANGED <<comp_log_level, environment, armed, own>>

\* SetLevelDebug, or SetComponentLogLevel for COMPONENT_ALL.
SetLevelDebug(level) ==
    /\ call["program"].pc = "idle"
    /\ At("program", "all", Clamp(level), 0)
    /\ Due(Clamp(level), {Clamp(level)})
    /\ UNCHANGED <<comp_log_level, environment, armed, own>>

\* One round of _SetLevelDebug's loop.  When a change that ran alone is
\* through, nothing else is possible.
SetNext(a) ==
    LET c == call[a].i
        last == c = COMPONENT_COUNT - 1
    IN  /\ call[a].pc = "all"
        /\ comp_log_level' = [comp_log_level EXCEPT ![c] = call[a].level]
        /\ IF last THEN At(a, "idle", NIV_NULL, 0)
           ELSE At(a, "all", call[a].level, c + 1)
        /\ own' = own \ {c}
        /\ possible' = IF last /\ due # -1 THEN {due} ELSE possible
        /\ UNCHANGED <<environment, armed, due>>

-----------------------------------------------------------------------------
(* A change of one level                                                   *)

\* Nothing is written when the component has the level already.
SetComponentLogLevel(c, level) ==
    /\ call["program"].pc = "idle"
    /\ c # COMPONENT_ALL
    /\ IF comp_log_level[c] = Clamp(level)
       THEN UNCHANGED call /\ own' = own \cup {c}
       ELSE At("program", "one", Clamp(level), c) /\ UNCHANGED own
    /\ UNCHANGED <<comp_log_level, environment, armed, due, possible>>

SetOne ==
    LET c == call["program"].i
    IN  /\ call["program"].pc = "one"
        /\ comp_log_level' =
              [comp_log_level EXCEPT ![c] = call["program"].level]
        /\ own' = own \cup {c}
        /\ At("program", "idle", NIV_NULL, 0)
        /\ UNCHANGED <<environment, armed, due, possible>>

\* InitLogging arms the signals, then goes through the components.
InitLogging ==
    /\ ~armed
    /\ call["program"].pc = "idle"
    /\ armed' = TRUE
    /\ At("program", "init", NIV_NULL, 0)
    /\ UNCHANGED <<comp_log_level, environment, own, due, possible>>

\* The component's level, if the environment gives one.  What it gives to
\* COMPONENT_ALL is written to that entry only: it is the level of all from
\* then on, and the others, which do not have it, keep levels of their own.
ReadEnvironment ==
    LET c == call["program"].i
        level == environment[c]
    IN  /\ call["program"].pc = "init"
        /\ IF c = COMPONENT_COUNT - 1 THEN At("program", "idle", NIV_NULL, 0)
           ELSE At("program", "init", NIV_NULL, c + 1)
        /\ IF level = -1
           THEN UNCHANGED <<comp_log_level, own, due, possible>>
           ELSE /\ comp_log_level' = [comp_log_level EXCEPT ![c] = level]
                /\ IF c = COMPONENT_ALL
                   THEN /\ own' = Components \ {COMPONENT_ALL}
                        /\ due' = IF Changing = {} THEN level ELSE -1
                        /\ possible' = {level} \cup
                              (IF Changing = {} THEN {} ELSE possible)
                   ELSE /\ own' = own \cup {c}
                        /\ UNCHANGED <<due, possible>>
        /\ UNCHANGED <<environment, armed>>

Next ==
    \/ \E h \in Handlers, s \in Signals : Signal(h, s)
    \/ \E a \in Actors : SetNext(a)
    \/ \E level \in LevelsAsked :
          \/ SetLevelDebug(level)
          \/ \E c \in Components : SetComponentLogLevel(c, level)
    \/ SetOne \/ InitLogging \/ ReadEnvironment

Spec == Init /\ [][Next]_vars

-----------------------------------------------------------------------------
(* Properties                                                              *)

\* The changes of all levels add up.  A change that meets no other leaves its
\* level in every entry of the table: each signal counts once, from the level
\* the changes before lead to, and a change of one level that it interrupts
\* disturbs nothing.  When handlers overlap, in one thread or in several,
\* signals may be lost and components end at different levels, but none counts
\* twice, and the next change that meets no other brings all together again.
\* (Left out are the components given a level of their own since.)
ChangesAddUp ==
    \A c \in Components \ own :
        /\ comp_log_level[c] \in possible
        /\ Changing = {} /\ due # -1 => comp_log_level[c] = due
=============================================================================
