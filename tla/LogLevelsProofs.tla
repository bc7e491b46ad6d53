--------------------------- MODULE LogLevelsProofs ---------------------------
(***************************************************************************)
(* Proofs about LogLevels, for any number of components, any environment   *)
(* and any number of handlers that overlap: the changes of all levels add  *)
(* up, as far as they do not meet, and what they may lead to is bounded    *)
(* where they do.                                                          *)
(***************************************************************************)
EXTENDS LogLevels, TLAPS

\* A loop is at a component while it runs; one component's level is never
\* that of all.
LoopsInRange ==
    \A a \in Actors :
        /\ call[a].pc \in {"all", "one", "init"} => call[a].i \in Components
        /\ call[a].pc = "one" => call[a].i # COMPONENT_ALL

TypeInv == TypeOK /\ LoopsInRange

All(a) == call[a].pc = "all"

\* The table and the loops hold possible levels only.
PossibleOnly ==
    /\ \A c \in Components \ own : comp_log_level[c] \in possible
    /\ \A a \in Actors : All(a) => call[a].level \in possible

\* The components below i have the level that is due.
Reached(i) == \A c \in Components \ own : c < i => comp_log_level[c] = due

\* While the level that is due is known, at most one change is under way: it
\* gives that level, and the components it has passed have it.
DueInStep ==
    due # -1 =>
        /\ \A a, b \in Actors : All(a) /\ All(b) => a = b
        /\ (\A a \in Actors : ~All(a)) => possible = {due}
        /\ \A a \in Actors :
              All(a) => call[a].level = due /\ Reached(call[a].i)

LevelInv == TypeInv /\ PossibleOnly /\ DueInStep

-----------------------------------------------------------------------------
(* The helpers                                                             *)

LEMMA ClampType ==
    ASSUME NEW level \in Int
    PROVE  Clamp(level) \in Levels
BY DEF Clamp, Levels, NIV_NULL, NB_LOG_LEVEL

LEMMA LevelsAreInts ==
    Levels \subseteq Int /\ NIV_NULL \in Levels /\ -1 \notin Levels
BY DEF Levels, NIV_NULL, NB_LOG_LEVEL

LEMMA ComponentAll == COMPONENT_ALL = 0 /\ COMPONENT_ALL \in Components
BY ParametersAssumption DEF COMPONENT_ALL, Components

LEMMA ComponentsOfIndexes ==
    \A c \in Components :
        /\ c \in Int /\ 0 <= c /\ c < COMPONENT_COUNT
        /\ c \in 0..COMPONENT_COUNT /\ c + 1 \in 0..COMPONENT_COUNT
        /\ c # COMPONENT_COUNT - 1 => c + 1 \in Components
BY ParametersAssumption DEF COMPONENT_ALL, Components

LEMMA TheActors ==
    /\ "program" \in Actors /\ Handlers \subseteq Actors
    /\ \A s \in Signals : Change(s) \in Int
BY DEF Actors, Change

LEMMA NobodyChanges == Changing = {} <=> \A a \in Actors : ~All(a)
BY DEF Changing, All

Calls == [pc : {"idle", "all", "one", "init"}, level : Levels,
          i : 0..COMPONENT_COUNT]

\* Only the actor's call changes.
LEMMA CallAt ==
    ASSUME TypeInv, NEW a \in Actors,
           NEW pc \in {"idle", "all", "one", "init"}, NEW level \in Levels,
           NEW i \in 0..COMPONENT_COUNT, At(a, pc, level, i),
           pc # "idle" => i \in Components,
           pc = "one" => i # COMPONENT_ALL
    PROVE  /\ call' \in [Actors -> Calls] /\ LoopsInRange'
           /\ call'[a].pc = pc /\ call'[a].level = level /\ call'[a].i = i
           /\ \A b \in Actors : b # a => call'[b] = call[b]
<1>1. /\ call' \in [Actors -> Calls]
      /\ call'[a].pc = pc /\ call'[a].level = level /\ call'[a].i = i
      /\ \A b \in Actors : b # a => call'[b] = call[b]
  BY DEF At, TypeInv, TypeOK, Calls
<1>2. LoopsInRange'
  <2> SUFFICES ASSUME NEW b \in Actors
               PROVE  /\ call'[b].pc \in {"all", "one", "init"} =>
                            call'[b].i \in Components
                      /\ call'[b].pc = "one" => call'[b].i # COMPONENT_ALL
    BY DEF LoopsInRange
  <2>1. CASE b = a
    BY <1>1, <2>1
  <2>2. CASE b # a
    BY <1>1, <2>2 DEF TypeInv, LoopsInRange
  <2> QED
    BY <2>1, <2>2
<1> QED
  BY <1>1, <1>2

-----------------------------------------------------------------------------
(* The steps                                                               *)

\* An actor begins to give all components a level, which is what is due when
\* it is alone, and possible in any case.
LEMMA BeginKeepsLevelInv ==
    ASSUME LevelInv, NEW a \in Actors, call[a].pc = "idle",
           NEW level \in Levels, At(a, "all", level, 0),
           NEW target, NEW may \in SUBSET Levels, Due(target, may),
           level \in may,
           Changing = {} => target = level,
           UNCHANGED <<comp_log_level, environment, armed, own>>
    PROVE  LevelInv'
<1>1. /\ call' \in [Actors -> Calls] /\ LoopsInRange'
      /\ call'[a].pc = "all" /\ call'[a].level = level /\ call'[a].i = 0
      /\ \A b \in Actors : b # a => call'[b] = call[b]
  <2>1. 0 \in Components /\ 0 \in 0..COMPONENT_COUNT
    BY ComponentAll, ComponentsOfIndexes
  <2> QED
    BY <2>1, CallAt DEF LevelInv
<1>2. possible' = possible \cup may /\ due' \in Levels \cup {-1}
  BY DEF Due
<1>3. TypeOK'
  BY <1>1, <1>2 DEF LevelInv, TypeInv, TypeOK, Calls
<1>4. PossibleOnly'
  <2>1. \A c \in Components \ own' : comp_log_level'[c] \in possible'
    BY <1>2 DEF LevelInv, PossibleOnly
  <2>2. ASSUME NEW b \in Actors, call'[b].pc = "all"
        PROVE  call'[b].level \in possible'
    <3>1. CASE b = a
      BY <1>1, <1>2, <3>1
    <3>2. CASE b # a
      BY <1>1, <1>2, <2>2, <3>2 DEF LevelInv, PossibleOnly, All
    <3> QED
      BY <3>1, <3>2
  <2> QED
    BY <2>1, <2>2 DEF PossibleOnly, All
<1>5. DueInStep'
  <2> SUFFICES ASSUME due' # -1
               PROVE  DueInStep'
    BY DEF DueInStep
  <2>1. Changing = {} /\ due' = level
    BY DEF Due
  <2>2. \A b \in Actors : call'[b].pc = "all" <=> b = a
    BY <1>1, <2>1, NobodyChanges DEF All
  <2>3. \A c \in Components \ own' :
           c < call'[a].i => comp_log_level'[c] = due'
    <3>1. call'[a].i = 0
      BY <1>1
    <3>2. \A c \in Components : ~(c < 0)
      BY ParametersAssumption DEF Components, COMPONENT_ALL
    <3> QED
      BY <3>1, <3>2
  <2> QED
    BY <1>1, <2>1, <2>2, <2>3 DEF DueInStep, All, Reached
<1> QED
  BY <1>1, <1>3, <1>4, <1>5 DEF LevelInv, TypeInv

\* The handler reads a possible level, and the one that is due if no other
\* change is under way.
LEMMA SignalKeepsLevelInv ==
    ASSUME LevelInv, NEW h \in Handlers, NEW s \in Signals, Signal(h, s)
    PROVE  LevelInv'
<1> DEFINE from == comp_log_level[COMPONENT_ALL]
           may == {Clamp(l + Change(s)) : l \in possible}
<1>1. /\ call[h].pc = "idle"
      /\ At(h, "all", Clamp(from + Change(s)), 0)
      /\ Due(Clamp(Base + Change(s)), may)
      /\ UNCHANGED <<comp_log_level, environment, armed, own>>
  BY DEF Signal, ReturnLevelDebug
<1>2. from \in possible /\ from \in Int /\ possible \subseteq Levels
  <2>1. COMPONENT_ALL \in Components \ own
    BY ComponentAll DEF LevelInv, TypeInv, TypeOK
  <2> QED
    BY <2>1, LevelsAreInts DEF LevelInv, TypeInv, TypeOK, PossibleOnly
<1>3. Change(s) \in Int /\ h \in Actors
  BY TheActors
<1>4. Clamp(from + Change(s)) \in Levels /\ Clamp(from + Change(s)) \in may
  BY <1>2, <1>3, ClampType
<1>5. may \subseteq Levels
  <2>1. ASSUME NEW l \in possible PROVE Clamp(l + Change(s)) \in Levels
    BY <1>2, <1>3, LevelsAreInts, ClampType
  <2> QED
    BY <2>1
<1>6. Changing = {} => Base = from
  BY <1>2, NobodyChanges DEF LevelInv, DueInStep, Base
<1> HIDE DEF from, may
<1> QED
  BY <1>1, <1>3, <1>4, <1>5, <1>6, BeginKeepsLevelInv

LEMMA SetLevelDebugKeepsLevelInv ==
    ASSUME LevelInv, NEW asked \in LevelsAsked, SetLevelDebug(asked)
    PROVE  LevelInv'
<1>1. Clamp(asked) \in Levels /\ "program" \in Actors
  BY ClampType, TheActors, ParametersAssumption
<1>2. /\ call["program"].pc = "idle" /\ At("program", "all", Clamp(asked), 0)
      /\ Due(Clamp(asked), {Clamp(asked)})
      /\ UNCHANGED <<comp_log_level, environment, armed, own>>
  BY DEF SetLevelDebug
<1>3. {Clamp(asked)} \in SUBSET Levels /\ Clamp(asked) \in {Clamp(asked)}
  BY <1>1
<1> QED
  BY <1>1, <1>2, <1>3, BeginKeepsLevelInv

LEMMA SetNextKeepsLevelInv ==
    ASSUME LevelInv, NEW a \in Actors, SetNext(a)
    PROVE  LevelInv'
<1> DEFINE c == call[a].i
           level == call[a].level
           last == c = COMPONENT_COUNT - 1
<1>1. /\ call[a].pc = "all"
      /\ comp_log_level' = [comp_log_level EXCEPT ![c] = level]
      /\ IF last THEN At(a, "idle", NIV_NULL, 0)
         ELSE At(a, "all", level, c + 1)
      /\ own' = own \ {c}
      /\ possible' = IF last /\ due # -1 THEN {due} ELSE possible
      /\ UNCHANGED <<environment, armed, due>>
  BY DEF SetNext
<1>2. /\ c \in Components /\ level \in Levels /\ level \in possible
      /\ due # -1 => level = due
  BY <1>1 DEF LevelInv, TypeInv, TypeOK, LoopsInRange, PossibleOnly,
     DueInStep, All
<1>3. /\ c \in Int /\ c + 1 \in 0..COMPONENT_COUNT /\ 0 \in 0..COMPONENT_COUNT
      /\ ~last => c + 1 \in Components
  BY <1>2, ComponentAll, ComponentsOfIndexes
<1>4. /\ call' \in [Actors -> Calls] /\ LoopsInRange'
      /\ \A b \in Actors : b # a => call'[b] = call[b]
      /\ last => call'[a].pc = "idle"
      /\ ~last => /\ call'[a].pc = "all" /\ call'[a].level = level
                  /\ call'[a].i = c + 1
  <2>1. CASE last
    <3>1. NIV_NULL \in Levels /\ At(a, "idle", NIV_NULL, 0)
      BY <1>1, <2>1, LevelsAreInts
    <3> HIDE DEF c, level
    <3> QED
      BY <1>3, <2>1, <3>1, CallAt DEF LevelInv
  <2>2. CASE ~last
    <3>1. At(a, "all", level, c + 1)
      BY <1>1, <2>2
    <3> HIDE DEF c, level, last
    <3> QED
      BY <1>2, <1>3, <2>2, <3>1, CallAt DEF LevelInv
  <2> QED
    BY <2>1, <2>2
<1> HIDE DEF c, level, last
<1>5. /\ comp_log_level' \in [Components -> Levels]
      /\ comp_log_level'[c] = level
      /\ \A d \in Components : d # c => comp_log_level'[d] = comp_log_level[d]
  BY <1>1, <1>2 DEF LevelInv, TypeInv, TypeOK
<1>6. TypeOK'
  BY <1>1, <1>2, <1>4, <1>5 DEF LevelInv, TypeInv, TypeOK, Calls
<1>7. ASSUME due # -1
      PROVE  \A d \in Components \ own' :
                d < c + 1 => comp_log_level'[d] = due
  <2> SUFFICES ASSUME NEW d \in Components, d \notin own', d < c + 1
               PROVE  comp_log_level'[d] = due
    OBVIOUS
  <2>1. CASE d = c
    BY <1>2, <1>5, <1>7, <2>1
  <2>2. CASE d # c
    <3>1. d < c /\ d \in Components \ own
      BY <1>1, <1>3, <2>2, ComponentsOfIndexes
    <3>2. Reached(c)
      BY <1>1, <1>7 DEF LevelInv, DueInStep, All, c
    <3> QED
      BY <1>5, <2>2, <3>1, <3>2 DEF Reached
  <2> QED
    BY <2>1, <2>2
<1>8. due # -1 /\ last =>
         /\ \A d \in Components \ own' : comp_log_level'[d] = due
         /\ \A b \in Actors : call'[b].pc # "all"
  <2> SUFFICES ASSUME due # -1, last
               PROVE  /\ \A d \in Components \ own' :
                            comp_log_level'[d] = due
                      /\ \A b \in Actors : call'[b].pc # "all"
    OBVIOUS
  <2>1. \A d \in Components : d < c + 1
    BY ComponentsOfIndexes, ParametersAssumption DEF last
  <2>2. \A b \in Actors : b # a => call[b].pc # "all"
    BY <1>1 DEF LevelInv, DueInStep, All
  <2> QED
    BY <1>4, <1>7, <2>1, <2>2
<1>9. PossibleOnly'
  <2>1. CASE due # -1 /\ last
    BY <1>1, <1>8, <2>1 DEF PossibleOnly, All
  <2>2. CASE ~(due # -1 /\ last)
    <3>1. possible' = possible
      BY <1>1, <2>2
    <3>2. ASSUME NEW d \in Components, d \notin own'
          PROVE  comp_log_level'[d] \in possible
      BY <1>1, <1>2, <1>5, <3>2 DEF LevelInv, PossibleOnly
    <3>3. ASSUME NEW b \in Actors, call'[b].pc = "all"
          PROVE  call'[b].level \in possible
      <4>1. CASE b = a
        BY <1>2, <1>4, <3>3, <4>1
      <4>2. CASE b # a
        BY <1>4, <3>3, <4>2 DEF LevelInv, PossibleOnly, All
      <4> QED
        BY <4>1, <4>2
    <3> QED
      BY <3>1, <3>2, <3>3 DEF PossibleOnly, All
  <2> QED
    BY <2>1, <2>2
<1>10. DueInStep'
  <2> SUFFICES ASSUME due' # -1
               PROVE  DueInStep'
    BY DEF DueInStep
  <2>1. due' = due /\ due # -1
    BY <1>1
  <2>2. CASE last
    BY <1>1, <1>8, <2>1, <2>2 DEF DueInStep, All
  <2>3. CASE ~last
    <3>1. \A b \in Actors : call'[b].pc = "all" <=> b = a
      BY <1>1, <1>4, <2>1, <2>3 DEF LevelInv, DueInStep, All
    <3>2. /\ call'[a].level = due'
          /\ \A d \in Components \ own' :
                d < call'[a].i => comp_log_level'[d] = due'
      BY <1>2, <1>4, <1>7, <2>1, <2>3
    <3> QED
      BY <3>1, <3>2 DEF DueInStep, All, Reached
  <2> QED
    BY <2>2, <2>3
<1> QED
  BY <1>4, <1>6, <1>9, <1>10 DEF LevelInv, TypeInv

\* A step of the program that gives at most one component a level of its own
\* leaves what the changes of all rest on.
LEMMA OwnLevelKeepsChanges ==
    ASSUME LevelInv, NEW a \in Actors, ~All(a), call'[a].pc # "all",
           \A b \in Actors : b # a => call'[b] = call[b],
           own \subseteq own',
           \A c \in Components \ own' : comp_log_level'[c] = comp_log_level[c],
           UNCHANGED <<due, possible>>
    PROVE  PossibleOnly' /\ DueInStep'
<1>1. \A b \in Actors : /\ call'[b].pc = "all" <=> All(b)
                        /\ All(b) => call'[b] = call[b]
  BY DEF All
<1>2. \A c \in Components \ own' : c \in Components \ own
  OBVIOUS
<1>3. PossibleOnly'
  BY <1>1, <1>2 DEF LevelInv, PossibleOnly, All
<1>4. \A i : Reached(i) => \A c \in Components \ own' :
         c < i => comp_log_level'[c] = due'
  BY <1>2 DEF Reached
<1>5. DueInStep'
  <2> SUFFICES ASSUME due # -1
               PROVE  /\ \A b, d \in Actors :
                            call'[b].pc = "all" /\ call'[d].pc = "all"
                                => b = d
                      /\ (\A b \in Actors : ~(call'[b].pc = "all"))
                            => possible = {due}
                      /\ \A b \in Actors : call'[b].pc = "all" =>
                            /\ call'[b].level = due
                            /\ \A c \in Components \ own' :
                                  c < call'[b].i => comp_log_level'[c] = due
    BY Zenon DEF DueInStep, All, Reached
  <2>1. /\ \A b, d \in Actors : All(b) /\ All(d) => b = d
        /\ (\A b \in Actors : ~All(b)) => possible = {due}
        /\ \A b \in Actors :
              All(b) => call[b].level = due /\ Reached(call[b].i)
    BY DEF LevelInv, DueInStep
  <2> QED
    BY <1>1, <1>4, <2>1
<1> QED
  BY <1>3, <1>5

LEMMA SetComponentLogLevelKeepsLevelInv ==
    ASSUME LevelInv, NEW c \in Components, NEW asked \in LevelsAsked,
           SetComponentLogLevel(c, asked)
    PROVE  LevelInv'
<1> DEFINE level == Clamp(asked)
<1>1. /\ "program" \in Actors
      /\ call["program"].pc = "idle" /\ c # COMPONENT_ALL
      /\ UNCHANGED <<comp_log_level, environment, armed, due, possible>>
      /\ \/ UNCHANGED call /\ own' = own \cup {c}
         \/ At("program", "one", level, c) /\ UNCHANGED own
  BY TheActors DEF SetComponentLogLevel
<1>2. level \in Levels /\ c \in 0..COMPONENT_COUNT
  BY ClampType, ComponentsOfIndexes, ParametersAssumption
<1> HIDE DEF level
<1>3. CASE UNCHANGED call /\ own' = own \cup {c}
  <2>1. TypeOK' /\ LoopsInRange'
    BY <1>1, <1>3 DEF LevelInv, TypeInv, TypeOK, LoopsInRange
  <2>2. ~All("program") /\ call'["program"].pc # "all"
    BY <1>1, <1>3 DEF All
  <2>3. PossibleOnly' /\ DueInStep'
    BY <1>1, <1>3, <2>2, OwnLevelKeepsChanges
  <2> QED
    BY <2>1, <2>3 DEF LevelInv, TypeInv
<1>4. CASE At("program", "one", level, c) /\ UNCHANGED own
  <2>1. /\ call' \in [Actors -> Calls] /\ LoopsInRange'
        /\ call'["program"].pc = "one"
        /\ \A b \in Actors : b # "program" => call'[b] = call[b]
    BY <1>1, <1>2, <1>4, CallAt DEF LevelInv
  <2>2. TypeOK'
    BY <2>1, <1>1, <1>4 DEF LevelInv, TypeInv, TypeOK, Calls
  <2>3. ~All("program") /\ call'["program"].pc # "all"
    BY <1>1, <2>1 DEF All
  <2>4. PossibleOnly' /\ DueInStep'
    BY <1>1, <1>4, <2>1, <2>3, OwnLevelKeepsChanges
  <2> QED
    BY <2>1, <2>2, <2>4 DEF LevelInv, TypeInv
<1> QED
  BY <1>1, <1>3, <1>4

\* The program's call goes on, and one component is given a level of its own.
LEMMA OneLevelKeepsLevelInv ==
    ASSUME LevelInv, ~All("program"), NEW c \in Components,
           c # COMPONENT_ALL, NEW level \in Levels,
           comp_log_level' = [comp_log_level EXCEPT ![c] = level],
           own' = own \cup {c},
           UNCHANGED <<environment, armed, due, possible>>,
           call' \in [Actors -> Calls], LoopsInRange',
           call'["program"].pc # "all",
           \A b \in Actors : b # "program" => call'[b] = call[b]
    PROVE  LevelInv'
<1>1. /\ comp_log_level' \in [Components -> Levels]
      /\ \A d \in Components : d # c => comp_log_level'[d] = comp_log_level[d]
  BY DEF LevelInv, TypeInv, TypeOK
<1>2. TypeOK'
  BY <1>1 DEF LevelInv, TypeInv, TypeOK, Calls
<1>3. "program" \in Actors
  BY TheActors
<1>4. PossibleOnly' /\ DueInStep'
  BY <1>1, <1>3, OwnLevelKeepsChanges
<1> QED
  BY <1>2, <1>4 DEF LevelInv, TypeInv

LEMMA SetOneKeepsLevelInv ==
    ASSUME LevelInv, SetOne
    PROVE  LevelInv'
<1> DEFINE c == call["program"].i
           level == call["program"].level
<1>1. /\ call["program"].pc = "one"
      /\ comp_log_level' = [comp_log_level EXCEPT ![c] = level]
      /\ own' = own \cup {c}
      /\ At("program", "idle", NIV_NULL, 0)
      /\ UNCHANGED <<environment, armed, due, possible>>
  BY DEF SetOne
<1>2. /\ "program" \in Actors
      /\ c \in Components /\ c # COMPONENT_ALL /\ level \in Levels
  BY <1>1, TheActors DEF LevelInv, TypeInv, LoopsInRange, TypeOK
<1>3. NIV_NULL \in Levels /\ 0 \in 0..COMPONENT_COUNT
  BY LevelsAreInts, ParametersAssumption
<1> HIDE DEF c, level
<1>4. /\ call' \in [Actors -> Calls] /\ LoopsInRange'
      /\ call'["program"].pc = "idle"
      /\ \A b \in Actors : b # "program" => call'[b] = call[b]
  BY <1>1, <1>2, <1>3, CallAt DEF LevelInv
<1>5. ~All("program") /\ call'["program"].pc # "all"
  BY <1>1, <1>4 DEF All
<1> QED
  BY <1>1, <1>2, <1>4, <1>5, OneLevelKeepsLevelInv

LEMMA InitLoggingKeepsLevelInv ==
    ASSUME LevelInv, InitLogging
    PROVE  LevelInv'
<1>1. /\ "program" \in Actors
      /\ call["program"].pc = "idle" /\ armed' = TRUE
      /\ At("program", "init", NIV_NULL, 0)
      /\ UNCHANGED <<comp_log_level, environment, own, due, possible>>
  BY TheActors DEF InitLogging
<1>2. NIV_NULL \in Levels /\ 0 \in 0..COMPONENT_COUNT /\ 0 \in Components
  BY LevelsAreInts, ComponentAll, ParametersAssumption
<1>3. /\ call' \in [Actors -> Calls] /\ LoopsInRange'
      /\ call'["program"].pc = "init"
      /\ \A b \in Actors : b # "program" => call'[b] = call[b]
  BY <1>1, <1>2, CallAt DEF LevelInv
<1>4. TypeOK'
  BY <1>1, <1>3 DEF LevelInv, TypeInv, TypeOK, Calls
<1>5. ~All("program") /\ call'["program"].pc # "all"
  BY <1>1, <1>3 DEF All
<1>6. PossibleOnly' /\ DueInStep'
  BY <1>1, <1>3, <1>5, OwnLevelKeepsChanges
<1> QED
  BY <1>3, <1>4, <1>6 DEF LevelInv, TypeInv

LEMMA ReadEnvironmentKeepsLevelInv ==
    ASSUME LevelInv, ReadEnvironment
    PROVE  LevelInv'
<1> DEFINE c == call["program"].i
           level == environment[c]
           last == c = COMPONENT_COUNT - 1
<1>1. /\ call["program"].pc = "init"
      /\ IF last THEN At("program", "idle", NIV_NULL, 0)
         ELSE At("program", "init", NIV_NULL, c + 1)
      /\ UNCHANGED <<environment, armed>>
      /\ level = -1 => UNCHANGED <<comp_log_level, own, due, possible>>
      /\ level # -1 =>
            /\ comp_log_level' = [comp_log_level EXCEPT ![c] = level]
            /\ c # COMPONENT_ALL =>
                  own' = own \cup {c} /\ UNCHANGED <<due, possible>>
            /\ c = COMPONENT_ALL =>
                  /\ own' = Components \ {COMPONENT_ALL}
                  /\ due' = IF Changing = {} THEN level ELSE -1
                  /\ possible' = {level} \cup
                        (IF Changing = {} THEN {} ELSE possible)
  BY DEF ReadEnvironment
<1>2. /\ "program" \in Actors /\ c \in Components
      /\ ~last => c + 1 \in Components
      /\ c + 1 \in 0..COMPONENT_COUNT /\ 0 \in 0..COMPONENT_COUNT
  BY <1>1, TheActors, ComponentAll, ComponentsOfIndexes
     DEF LevelInv, TypeInv, LoopsInRange
<1>3. level \in Levels \cup {-1} /\ NIV_NULL \in Levels
  BY <1>2, LevelsAreInts, ParametersAssumption DEF LevelInv, TypeInv, TypeOK
<1> HIDE DEF c, level, last
<1>4. /\ call' \in [Actors -> Calls] /\ LoopsInRange'
      /\ call'["program"].pc # "all"
      /\ \A b \in Actors : b # "program" => call'[b] = call[b]
  <2>1. CASE last
    <3>1. At("program", "idle", NIV_NULL, 0)
      BY <1>1, <2>1
    <3> QED
      BY <1>2, <1>3, <3>1, CallAt DEF LevelInv
  <2>2. CASE ~last
    <3>1. At("program", "init", NIV_NULL, c + 1)
      BY <1>1, <2>2
    <3> QED
      BY <1>2, <1>3, <2>2, <3>1, CallAt DEF LevelInv
  <2> QED
    BY <2>1, <2>2
<1>5. ~All("program")
  BY <1>1 DEF All
<1>6. CASE level = -1
  <2>1. TypeOK'
    BY <1>1, <1>4, <1>6 DEF LevelInv, TypeInv, TypeOK, Calls
  <2>2. PossibleOnly' /\ DueInStep'
    BY <1>1, <1>2, <1>4, <1>5, <1>6, OwnLevelKeepsChanges
  <2> QED
    BY <1>4, <2>1, <2>2 DEF LevelInv, TypeInv
<1>7. CASE level # -1 /\ c # COMPONENT_ALL
  BY <1>1, <1>2, <1>3, <1>4, <1>5, <1>7, OneLevelKeepsLevelInv
<1>8. CASE level # -1 /\ c = COMPONENT_ALL
  <2>1. /\ level \in Levels
        /\ comp_log_level' = [comp_log_level EXCEPT ![COMPONENT_ALL] = level]
        /\ own' = Components \ {COMPONENT_ALL}
        /\ due' = IF Changing = {} THEN level ELSE -1
        /\ possible' = {level} \cup (IF Changing = {} THEN {} ELSE possible)
    BY <1>1, <1>3, <1>8
  <2>2. /\ comp_log_level' \in [Components -> Levels]
        /\ comp_log_level'[COMPONENT_ALL] = level
    BY <2>1, ComponentAll DEF LevelInv, TypeInv, TypeOK
  <2>3. due' \in Levels \cup {-1} /\ possible' \subseteq Levels
    BY <2>1 DEF LevelInv, TypeInv, TypeOK
  <2>4. TypeOK'
    BY <1>1, <1>4, <2>1, <2>2, <2>3 DEF LevelInv, TypeInv, TypeOK, Calls
  <2>5. \A b \in Actors : /\ call'[b].pc = "all" <=> All(b)
                          /\ All(b) => call'[b] = call[b]
    BY <1>4, <1>5 DEF All
  <2>6. \A d \in Components \ own' : d = COMPONENT_ALL
    BY <2>1
  <2>7. PossibleOnly'
    <3>1. ASSUME NEW b \in Actors, call'[b].pc = "all"
          PROVE  call'[b].level \in possible'
      <4>1. All(b) /\ call'[b] = call[b]
        BY <2>5, <3>1
      <4>2. Changing # {}
        BY <4>1, NobodyChanges
      <4> QED
        BY <2>1, <4>1, <4>2 DEF LevelInv, PossibleOnly
    <3> QED
      BY <2>1, <2>2, <2>6, <3>1 DEF PossibleOnly, All
  <2>8. DueInStep'
    <3> SUFFICES ASSUME due' # -1
                 PROVE  DueInStep'
      BY DEF DueInStep
    <3>1. Changing = {} /\ due' = level /\ possible' = {level}
      BY <2>1
    <3>2. \A b \in Actors : call'[b].pc # "all"
      BY <2>5, <3>1, NobodyChanges
    <3> QED
      BY <3>1, <3>2 DEF DueInStep, All
  <2> QED
    BY <1>4, <2>4, <2>7, <2>8 DEF LevelInv, TypeInv
<1> QED
  BY <1>6, <1>7, <1>8

-----------------------------------------------------------------------------
(* The invariant                                                           *)

LEMMA InitLevelInv == Init => LevelInv
<1> SUFFICES ASSUME Init PROVE LevelInv
  OBVIOUS
<1>1. /\ NIV_NULL \in Levels /\ 0 \in 0..COMPONENT_COUNT
      /\ InitialLevel \in [Components -> Levels]
      /\ InitialLevel[COMPONENT_ALL] \in Levels
  BY LevelsAreInts, ComponentAll, ParametersAssumption
<1>2. TypeOK
  BY <1>1 DEF Init, TypeOK
<1>3. \A a \in Actors : call[a].pc = "idle"
  BY DEF Init
<1>4. LoopsInRange
  BY <1>3 DEF LoopsInRange
<1>5. PossibleOnly /\ DueInStep
  BY <1>3 DEF Init, PossibleOnly, DueInStep, All
<1> QED
  BY <1>2, <1>4, <1>5 DEF LevelInv, TypeInv

LEMMA StepKeepsLevelInv ==
    ASSUME LevelInv, [Next]_vars
    PROVE  LevelInv'
<1>1. CASE UNCHANGED vars
  BY <1>1 DEF vars, LevelInv, TypeInv, TypeOK, LoopsInRange, PossibleOnly,
     DueInStep, Reached, All
<1>2. CASE Next
  <2>1. CASE \E h \in Handlers, s \in Signals : Signal(h, s)
    BY <2>1, SignalKeepsLevelInv
  <2>2. CASE \E a \in Actors : SetNext(a)
    BY <2>2, SetNextKeepsLevelInv
  <2>3. CASE \E level \in LevelsAsked :
                \/ SetLevelDebug(level)
                \/ \E c \in Components : SetComponentLogLevel(c, level)
    BY <2>3, SetLevelDebugKeepsLevelInv, SetComponentLogLevelKeepsLevelInv
  <2>4. CASE SetOne \/ InitLogging \/ ReadEnvironment
    BY <2>4, SetOneKeepsLevelInv, InitLoggingKeepsLevelInv,
       ReadEnvironmentKeepsLevelInv
  <2> QED
    BY <1>2, <2>1, <2>2, <2>3, <2>4 DEF Next
<1> QED
  BY <1>1, <1>2

\* Every level in the table, and every level a loop is giving, is one that
\* the changes so far may lead to, each signal counted once or lost; while
\* no two changes have overlapped it is the one they add up to.  No
\* assumption is made about which handlers, loops and levels given to single
\* components overlap.
THEOREM LevelInvariant == Spec => []LevelInv
<1>1. LevelInv /\ [Next]_vars => LevelInv'
  BY StepKeepsLevelInv
<1> QED
  BY <1>1, InitLevelInv, PTL DEF Spec

\* Type correctness: no loop and no handler reads or writes outside the table
\* of components, and every level written is one there is.
THEOREM TypeCorrect == Spec => []TypeInv
<1>1. LevelInv => TypeInv
  BY DEF LevelInv
<1> QED
  BY <1>1, LevelInvariant, PTL

\* The changes of all levels add up as long as they do not overlap, and no
\* signal counts twice when they do.
THEOREM ChangesCorrect == Spec => []ChangesAddUp
<1>1. LevelInv => ChangesAddUp
  BY NobodyChanges DEF LevelInv, PossibleOnly, DueInStep, ChangesAddUp
<1> QED
  BY <1>1, LevelInvariant, PTL
=============================================================================
