------------------------------ MODULE LogOutput ------------------------------
(***************************************************************************)
(* log_functions.c: the way of a log message from DisplayLogComponentLevel *)
(* to its destination, the context each thread keeps for its name, and the *)
(* functions that choose the destinations.                                 *)
(*                                                                         *)
(* A thread's calls form a stack, since the logging functions log.  What   *)
(* one thread alone can see (its context) changes in one step; the tables  *)
(* all threads share are read and written one field a step.  Signals are   *)
(* not in this module.                                                     *)
(***************************************************************************)
EXTENDS Sequences, SequencesExt

CONSTANTS
    Components,  \* the components in the order of their numbers
    Threads,
    Names,       \* the names the threads give themselves
    Destinations, \* what SetComponentLogFile is asked for
    Buffers,     \* the buffers SetComponentLogBuffer is given
    Faults,      \* how an allocation may go wrong: "malloc", "setspecific"
    EmergDebug,  \* COMPONENT_LOG_EMERG is at NIV_FULL_DEBUG, others below
    MaxChanges   \* bound: the changes of destinations

Empty == ""
EMERGENCY == "* log emergency *"
NULL == "NULL"
Idle == "idle"

\* SetComponentLogFile's words for types; any other is the path of a file.
Word == [SYSLOG |-> "SYSLOG", STDERR |-> "STDERRLOG", STDOUT |-> "STDOUTLOG",
         TEST |-> "TESTLOG"]
TypeOf(name) == IF name \in Buffers THEN "BUFFLOG"
                ELSE IF name \in DOMAIN Word THEN Word[name] ELSE "FILELOG"

ASSUME ParametersAssumption ==
    /\ Components \in Seq(STRING)
    /\ {"LOG", "LOG_EMERG", "STDOUT"} \subseteq ToSet(Components)
    /\ NULL \notin Names
    /\ \A buffer \in Buffers : /\ buffer \notin Destinations \cup DOMAIN Word
                              /\ buffer # NULL
    /\ Faults \subseteq {"malloc", "setspecific"}
    /\ EmergDebug \in BOOLEAN

VARIABLES
    comp_log_type, comp_log_file, comp_buffer,
    once_key,   \* "new", the thread that runs init_keys, or "done"
    specific,   \* thread -> the name in its context, or NULL
    stack,      \* thread -> its calls, the innermost one first
    change,     \* the change of destinations under way
    changes,    \* how many have begun
    chosen,     \* history: component -> the destination chosen for it
    default,    \* history: what SetDefaultLogging chose for all, or Idle
    named,      \* history: thread -> the name it gave itself last
    failed      \* history: thread -> whether an allocation failed

tables == <<comp_log_type, comp_log_file, comp_buffer>>
changing == <<change, changes, chosen, default>>
vars == <<tables, once_key, specific, stack, changing, named, failed>>

\* Between the two stores of a change of c.
HalfChanged(c) == change.pc \in {"file", "buffer"} /\ change.todo[1] = c

Frame(kind, c, name) ==
    [kind |-> kind, c |-> c, name |-> name, pc |-> IF kind = "message"
     THEN "type" ELSE "once", type |-> "SYSLOG", to |-> chosen[c],
     torn |-> HalfChanged(c)]

Types == {"SYSLOG", "FILELOG", "STDERRLOG", "STDOUTLOG", "TESTLOG", "BUFFLOG"}

TypeOK ==
    /\ comp_log_type \in [ToSet(Components) -> Types]
    /\ comp_log_file \in
          [ToSet(Components) -> Destinations \cup {Empty, "SYSLOG"}]
    /\ comp_buffer \in [ToSet(Components) -> Buffers \cup {NULL}]
    /\ once_key \in {"new", "done"} \cup Threads
    /\ specific \in [Threads -> Names \cup {Empty, NULL}]
    /\ \A t \in Threads : \A i \in 1..Len(stack[t]) :
          /\ stack[t][i].pc \in {"type", "once", "init", "specific", "emit",
                                 "copy"}
          /\ stack[t][i].c \in ToSet(Components)
          /\ i > 1 => stack[t][i].pc = "emit"
    /\ change.pc \in {Idle, "check", "type", "file", "report", "announce",
                     "buffer"}

Init ==
    /\ comp_log_type = [c \in ToSet(Components) |-> "SYSLOG"]
    /\ comp_log_file = [c \in ToSet(Components) |->
                           IF c = "ALL" THEN Empty ELSE "SYSLOG"]
    /\ comp_buffer = [c \in ToSet(Components) |-> NULL]
    /\ once_key = "new"
    /\ specific = [t \in Threads |-> NULL]
    /\ stack = [t \in Threads |-> << >>]
    /\ change = [pc |-> Idle]
    /\ changes = 0
    /\ chosen = [c \in ToSet(Components) |-> "SYSLOG"]
    /\ default = Idle
    /\ named = [t \in Threads |-> Empty]
    /\ failed = [t \in Threads |-> FALSE]

-----------------------------------------------------------------------------
(* A thread's context                                                      *)

At(t, pc) == stack[t] # << >> /\ Head(stack[t]).pc = pc

Top(t, frame) == [stack EXCEPT ![t] = <<frame>> \o Tail(@)]

\* pthread_once: one thread runs init_keys, the others wait for it.
Once(t) ==
    /\ At(t, "once")
    /\ \/ /\ once_key = "done"
          /\ stack' = Top(t, [Head(stack[t]) EXCEPT !.pc = "specific"])
          /\ UNCHANGED once_key
       \/ /\ once_key = "new"
          /\ stack' = Top(t, [Head(stack[t]) EXCEPT !.pc = "init"])
          /\ once_key' = t
    /\ UNCHANGED <<tables, specific, changing, named, failed>>

InitKeys(t) ==
    /\ At(t, "init")
    /\ once_key' = "done"
    /\ stack' = Top(t, [Head(stack[t]) EXCEPT !.pc = "specific"])
    /\ UNCHANGED <<tables, specific, changing, named, failed>>

\* Mutant of OkErrors: messages about emergencies may cause others.
OkErrorsAlways(frame) == frame.kind = "message"

\* Whether a failure, or an allocation, may be logged.
OkErrors(frame) == frame.kind = "message" /\ frame.c # "LOG_EMERG"

\* Log_GetThreadContext has found or made a context, or has not: the call
\* goes on with the name, after a message of COMPONENT_LOG_EMERG if one is
\* due.
HasContext(t, name, logs) ==
    LET frame == Head(stack[t])
        onward == [frame EXCEPT
                      !.pc = IF frame.kind = "message" THEN "emit" ELSE "copy",
                      !.name = IF frame.kind = "message" THEN name ELSE @]
    IN  stack' = [stack EXCEPT ![t] =
           (IF logs /\ OkErrors(frame)
            THEN <<Frame("message", "LOG_EMERG", Empty)>> ELSE << >>)
           \o <<onward>> \o Tail(@)]

FoundContext(t) ==
    /\ At(t, "specific")
    /\ specific[t] # NULL
    /\ HasContext(t, specific[t], FALSE)
    /\ UNCHANGED <<tables, once_key, specific, changing, named, failed>>

\* The result of pthread_setspecific is ignored: if it fails, the context is
\* used for this call, and the next allocates another.
MadeContext(t) ==
    /\ At(t, "specific")
    /\ specific[t] = NULL
    /\ \/ /\ specific' = [specific EXCEPT ![t] = Empty]
          /\ UNCHANGED failed
       \/ /\ "setspecific" \in Faults
          /\ failed' = [failed EXCEPT ![t] = TRUE]
          /\ UNCHANGED specific
    /\ HasContext(t, Empty, EmergDebug)
    /\ UNCHANGED <<tables, once_key, changing, named>>

NoContext(t) ==
    /\ At(t, "specific")
    /\ specific[t] = NULL
    /\ "malloc" \in Faults
    /\ failed' = [failed EXCEPT ![t] = TRUE]
    /\ HasContext(t, EMERGENCY, TRUE)
    /\ UNCHANGED <<tables, once_key, specific, changing, named>>

\* SetNameFunction: the name is lost when there is no context to hold it.
SetNameFunction(t, name) ==
    /\ stack[t] = << >>
    /\ named' = [named EXCEPT ![t] = name]
    /\ stack' = [stack EXCEPT ![t] = <<Frame("name", "LOG", name)>>]
    /\ UNCHANGED <<tables, once_key, specific, changing, failed>>

\* Mutant of CopyName: one buffer for the names of all threads.
CopyNameShared(t) ==
    /\ At(t, "copy")
    /\ specific' = [u \in Threads |-> IF specific[u] = NULL THEN NULL
                                       ELSE Head(stack[t]).name]
    /\ stack' = [stack EXCEPT ![t] = << >>]
    /\ UNCHANGED <<tables, once_key, changing, named, failed>>

CopyName(t) ==
    /\ At(t, "copy")
    /\ specific' = [specific EXCEPT
                       ![t] = IF @ = NULL THEN NULL ELSE Head(stack[t]).name]
    /\ stack' = [stack EXCEPT ![t] = << >>]
    /\ UNCHANGED <<tables, once_key, changing, named, failed>>

-----------------------------------------------------------------------------
(* A message                                                               *)

\* DisplayLogComponentLevel, of a message whose level is enabled.
Message(t, c) ==
    /\ stack[t] = << >>
    /\ stack' = [stack EXCEPT ![t] = <<Frame("message", c, Empty)>>]
    /\ UNCHANGED <<tables, once_key, specific, changing, named, failed>>

\* The switch; tests and buffers show no name.
ReadType(t) ==
    LET frame == Head(stack[t])
        type == comp_log_type[frame.c]
    IN  /\ At(t, "type")
        /\ stack' = Top(t, [frame EXCEPT !.type = type,
              !.pc = IF type \in {"TESTLOG", "BUFFLOG"} THEN "emit"
                     ELSE "once"])
        /\ UNCHANGED <<tables, once_key, specific, changing, named, failed>>

\* Where a message ends: its type was read at the switch, the path or the
\* buffer is read now.  A file that cannot be opened leaves the message to
\* stderr, an empty path drops it; a buffer is written whatever it is.
Sinks(type, where) ==
    IF type = "BUFFLOG" THEN {<<"buffer", where>>}
    ELSE IF type # "FILELOG" THEN {<<type>>}
    ELSE IF where = Empty THEN {}
    ELSE {<<"file", where>>, <<"STDERRLOG">>}

Place(type, c) ==
    IF type = "BUFFLOG" THEN comp_buffer[c] ELSE comp_log_file[c]

\* Mutant of SinksOf: every component's messages go to the place of LOG.
SinksOfLog(t) == Sinks(Head(stack[t]).type, Place(Head(stack[t]).type, "LOG"))

SinksOf(t) ==
    LET frame == Head(stack[t])
    IN  Sinks(frame.type, Place(frame.type, frame.c))

Emit(t) ==
    /\ At(t, "emit")
    /\ stack' = [stack EXCEPT ![t] = Tail(@)]
    /\ UNCHANGED <<tables, once_key, specific, changing, named, failed>>

-----------------------------------------------------------------------------
(* A change of destinations, by one thread at a time                       *)

\* Mutant of AllButStdout: the emergencies are left where they are.
AllButStdoutAndEmerg ==
    SelectSeq(Components, LAMBDA c : c \notin {"STDOUT", "LOG_EMERG"})

\* Whom SetDefaultLogging's loop visits.
AllButStdout ==
    LET stdout == CHOOSE i \in DOMAIN Components : Components[i] = "STDOUT"
    IN  RemoveAt(Components, stdout)

Begin(t, todo, name, all) ==
    /\ change.pc = Idle
    /\ stack[t] = << >>
    /\ changes < MaxChanges
    /\ changes' = changes + 1
    /\ change' = [pc |-> "check", thread |-> t, todo |-> todo, name |-> name,
                  all |-> all, changed |-> FALSE]
    /\ default' = Idle
    /\ UNCHANGED <<tables, once_key, specific, stack, chosen, named, failed>>

SetComponentLogFile(t, c, name) == Begin(t, <<c>>, name, FALSE)

\* COMPONENT_LOG first, then all but COMPONENT_STDOUT.
SetDefaultLogging(t, name) == Begin(t, <<"LOG">> \o AllButStdout, name, TRUE)

\* The change goes on when the messages it causes are out.
Changes(pc) ==
    change.pc = pc /\ stack[change.thread] = << >>

\* LogChanges, a message of COMPONENT_LOG unless that goes to TEST.
LogChanges(says) ==
    stack' = IF says /\ comp_log_type["LOG"] # "TESTLOG"
             THEN [stack EXCEPT
                      ![change.thread] = <<Frame("message", "LOG", Empty)>>]
             ELSE stack

\* isValidLogPath accepts every path.
Compare ==
    LET c == change.todo[1]
        changed == \/ TypeOf(change.name) # comp_log_type[c]
                   \/ /\ TypeOf(change.name) = "FILELOG"
                      /\ change.name # comp_log_file[c]
    IN  /\ Changes("check")
        /\ change' = [change EXCEPT !.pc = "type", !.changed = changed]
        /\ LogChanges(changed /\ c # "LOG")
        /\ UNCHANGED <<tables, once_key, specific, changes, chosen, default,
                       named, failed>>

\* The messages of component c under way when its destination changes.
Tear(c) ==
    stack' = [t \in Threads |-> [i \in 1..Len(stack[t]) |->
        [stack[t][i] EXCEPT !.torn = @ \/ stack[t][i].c = c]]]

StoreType ==
    LET c == change.todo[1]
    IN  /\ Changes("type")
        /\ comp_log_type' = [comp_log_type EXCEPT ![c] = TypeOf(change.name)]
        /\ change' = [change EXCEPT !.pc = "file"]
        /\ Tear(c)
        /\ UNCHANGED <<comp_log_file, comp_buffer, once_key, specific, changes,
                       chosen, default, named, failed>>

StoreFile ==
    LET c == change.todo[1]
    IN  /\ Changes("file")
        /\ comp_log_file' = [comp_log_file EXCEPT ![c] = change.name]
        /\ chosen' = [chosen EXCEPT ![c] = change.name]
        /\ change' = [change EXCEPT !.pc = "report"]
        /\ UNCHANGED <<comp_log_type, comp_buffer, once_key, specific, stack,
                       changes, default, named, failed>>

\* What is said of a change of COMPONENT_LOG; then the next component.
Report ==
    LET c == change.todo[1]
        left == Tail(change.todo)
    IN  /\ Changes("report")
        /\ LogChanges(c = "LOG" /\ change.changed)
        /\ IF left = << >>
           THEN /\ change' = [pc |-> Idle]
                /\ default' = IF change.all THEN change.name ELSE Idle
           ELSE /\ change' = [change EXCEPT !.pc = IF Len(left)
                                   = Len(AllButStdout) THEN "announce"
                                   ELSE "check", !.todo = left]
                /\ UNCHANGED default
        /\ UNCHANGED <<tables, once_key, specific, changes, chosen, named,
                       failed>>

\* SetDefaultLogging's own message, before its loop.
Announce ==
    /\ Changes("announce")
    /\ LogChanges(TRUE)
    /\ change' = [change EXCEPT !.pc = "check"]
    /\ UNCHANGED <<tables, once_key, specific, changes, chosen, default,
                   named, failed>>

\* Two stores, the type first; a message in between is written to the buffer
\* of before, or to none.
SetComponentLogBuffer(t, c, buffer) ==
    /\ change.pc = Idle
    /\ stack[t] = << >>
    /\ changes < MaxChanges
    /\ changes' = changes + 1
    /\ comp_log_type' = [comp_log_type EXCEPT ![c] = "BUFFLOG"]
    /\ change' = [pc |-> "buffer", thread |-> t, todo |-> <<c>>,
                  name |-> buffer, all |-> FALSE, changed |-> FALSE]
    /\ default' = Idle
    /\ Tear(c)
    /\ UNCHANGED <<comp_log_file, comp_buffer, once_key, specific, chosen,
                   named, failed>>

StoreBuffer ==
    LET c == change.todo[1]
    IN  /\ Changes("buffer")
        /\ comp_buffer' = [comp_buffer EXCEPT ![c] = change.name]
        /\ chosen' = [chosen EXCEPT ![c] = change.name]
        /\ change' = [pc |-> Idle]
        /\ UNCHANGED <<comp_log_type, comp_log_file, once_key, specific, stack,
                       changes, default, named, failed>>

\* The steps of a call under way.
Step(t) ==
    \/ Once(t) \/ InitKeys(t)
    \/ FoundContext(t) \/ MadeContext(t) \/ NoContext(t)
    \/ CopyName(t) \/ ReadType(t) \/ Emit(t)

ChangeStep ==
    Compare \/ StoreType \/ StoreFile \/ Report \/ Announce \/ StoreBuffer

CanCall(t) == change.pc # Idle => change.thread # t

Next ==
    \/ \E t \in Threads :
          \/ Step(t)
          \/ /\ CanCall(t)
             /\ \/ \E name \in Names : SetNameFunction(t, name)
                \/ \E c \in ToSet(Components) : Message(t, c)
          \/ \E name \in Destinations :
                \/ SetDefaultLogging(t, name)
                \/ \E c \in ToSet(Components) : SetComponentLogFile(t, c, name)
          \/ \E c \in ToSet(Components), buffer \in Buffers :
                SetComponentLogBuffer(t, c, buffer)
    \/ ChangeStep

Spec == Init /\ [][Next]_vars

-----------------------------------------------------------------------------
(* Properties                                                              *)

\* COMPONENT_LOG_EMERG is there to "avoid infinite recursion"
\* (log_macros.h:10): a message causes one more at most, whatever fails on
\* the way and whatever the levels.
RecursionBounded == \A t \in Threads : Len(stack[t]) <= 2

\* A message shows the name its thread gave itself last, never an older one
\* or another thread's; once an allocation has failed it may show none, or
\* the text for emergencies.
NamesKept ==
    \A t \in Threads :
        LET message == Head(stack[t])
        IN  At(t, "emit") /\ message.type \notin {"TESTLOG", "BUFFLOG"} =>
               \/ message.name = named[t]
               \/ failed[t] /\ message.name \in {Empty, EMERGENCY}

\* A message goes where its component was last told to go, though the type
\* and the path, or the buffer, are stored, and read, one after the other.
\* Only a message during which its own component is changed may see half of
\* the change.
MessagesArrive ==
    \A t \in Threads :
        LET message == Head(stack[t])
        IN  At(t, "emit") /\ ~message.torn =>
               SinksOf(t) = Sinks(TypeOf(message.to), message.to)

\* "separate layer logging defaults to this destination"
\* (log_functions.c:1287): when SetDefaultLogging has returned, every
\* component but COMPONENT_STDOUT has the destination, though the function
\* logs along the way, to destinations half of which have changed.
DefaultReachesAll ==
    default # Idle =>
        \A c \in ToSet(Components) \ {"STDOUT"} :
            comp_log_type[c] = TypeOf(default) /\ comp_log_file[c] = default
=============================================================================
