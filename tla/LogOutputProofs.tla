--------------------------- MODULE LogOutputProofs ---------------------------
(***************************************************************************)
(* Proofs about LogOutput, for any components, threads, names, paths and   *)
(* failures: types, how deep a thread's calls go, the name and the         *)
(* destination of every message, and what SetDefaultLogging reaches.       *)
(***************************************************************************)
EXTENDS LogOutput, SequenceTheorems, TLAPS

Comps == ToSet(Components)
Chosen == Destinations \cup Buffers \cup {"SYSLOG"}
Texts == Names \cup {Empty, EMERGENCY}
FramePcs == {"type", "once", "init", "specific", "emit", "copy"}

Frames ==
    [kind : {"message", "name"}, c : Comps, name : Texts,
     pc : FramePcs, type : Types, to : Chosen, torn : BOOLEAN]

Changing ==
    [pc : {"check", "type", "file", "report", "announce"}, thread : Threads,
     todo : Seq(Comps) \ {<< >>}, name : Destinations, all : BOOLEAN,
     changed : BOOLEAN]

Buffering ==
    [pc : {"buffer"}, thread : Threads, todo : Seq(Comps) \ {<< >>},
     name : Buffers, all : {FALSE}, changed : {FALSE}]

ValuesTyped ==
    /\ comp_log_type \in [Comps -> Types]
    /\ comp_log_file \in [Comps -> Destinations \cup {Empty, "SYSLOG"}]
    /\ comp_buffer \in [Comps -> Buffers \cup {NULL}]
    /\ once_key \in {"new", "done"} \cup Threads
    /\ specific \in [Threads -> Names \cup {Empty, NULL}]
    /\ stack \in [Threads -> Seq(Frames)]
    /\ change = [pc |-> Idle] \/ change \in Changing \/ change \in Buffering
    /\ chosen \in [Comps -> Chosen]
    /\ named \in [Threads -> Names \cup {Empty}]
    /\ failed \in [Threads -> BOOLEAN]

\* What a call under way may be: the name of a thread or a message, and in a
\* message that waits for another one, that one is of COMPONENT_LOG_EMERG.
CallInStep(frame) ==
    IF frame.kind = "name"
    THEN frame.pc \notin {"type", "emit"} /\ frame.name \in Names
    ELSE frame.pc # "copy"

StackInStep(t) ==
    /\ \A i \in 1..Len(stack[t]) : CallInStep(stack[t][i])
    /\ Len(stack[t]) <= 2
    /\ Len(stack[t]) = 2 =>
          /\ stack[t][1].kind = "message" /\ stack[t][1].c = "LOG_EMERG"
          /\ stack[t][2].kind = "message" /\ stack[t][2].pc = "emit"

\* SetNameFunction of t is under way.
Naming(t) == stack[t] # << >> /\ stack[t][1].kind = "name"

\* The name a message may show, in a thread that calls itself own and whose
\* memory may have failed.
Shows(name, own, lost) ==
    name = own \/ (lost /\ name \in {Empty, EMERGENCY})

NameShown(frame, own, lost) ==
    frame.pc = "emit" /\ frame.type \notin {"TESTLOG", "BUFFLOG"} =>
        Shows(frame.name, own, lost)

\* Unless it is being named, a thread's context holds its name, or there was
\* no memory to keep it.
ContextInStep(t) ==
    IF Naming(t)
    THEN /\ stack[t][1].name = named[t]
         /\ stack[t][1].pc = "copy" => specific[t] # NULL \/ failed[t]
    ELSE IF specific[t] = NULL THEN named[t] = Empty \/ failed[t]
         ELSE specific[t] = named[t] \/ (failed[t] /\ specific[t] = Empty)

\* Between the two stores of a change, the type is that of the new
\* destination; else both are those of the one that was chosen.
TablesInStep(c) ==
    IF HalfChanged(c) THEN comp_log_type[c] = TypeOf(change.name)
    ELSE /\ comp_log_type[c] = TypeOf(chosen[c])
         /\ TypeOf(chosen[c]) = "FILELOG" => comp_log_file[c] = chosen[c]
         /\ TypeOf(chosen[c]) = "BUFFLOG" => comp_buffer[c] = chosen[c]

\* A message whose component was not changed since it began is on its way to
\* the destination chosen for that component.
OnItsWay(frame) ==
    ~frame.torn =>
        /\ frame.to = chosen[frame.c] /\ ~HalfChanged(frame.c)
        /\ frame.kind = "message" /\ frame.pc # "type" =>
              frame.type = comp_log_type[frame.c]

CallsInStep(t) ==
    \A i \in 1..Len(stack[t]) :
        /\ NameShown(stack[t][i], named[t], failed[t])
        /\ OnItsWay(stack[t][i])

\* SetDefaultLogging has changed all components but those it has still to
\* visit.
Has(c, name) == comp_log_type[c] = TypeOf(name) /\ comp_log_file[c] = name

DefaultInStep ==
    /\ change.pc # Idle =>
          /\ default = Idle
          /\ change.pc = "report" => Has(change.todo[1], change.name)
          /\ change.all =>
                \A c \in Comps \ {"STDOUT"} :
                   \/ Has(c, change.name)
                   \/ \E i \in 1..Len(change.todo) : change.todo[i] = c
    /\ DefaultReachesAll

OutputInv ==
    /\ ValuesTyped /\ DefaultInStep
    /\ \A t \in Threads : StackInStep(t) /\ ContextInStep(t) /\ CallsInStep(t)
    /\ \A c \in Comps : TablesInStep(c)
-----------------------------------------------------------------------------
(* The components, and the sequences of calls                              *)

\* Components is a sequence of its elements.
LEMMA ComponentsTyped ==
    /\ DOMAIN Components = 1..Len(Components) /\ Len(Components) \in Nat
    /\ \A i \in 1..Len(Components) : Components[i] \in ToSet(Components)
    /\ \A c \in ToSet(Components) : \E i \in 1..Len(Components) :
          c = Components[i]
    /\ "LOG" \in ToSet(Components) /\ "LOG_EMERG" \in ToSet(Components)
    /\ Components \in Seq(ToSet(Components))
<1>1. DOMAIN Components = 1..Len(Components) /\ Len(Components) \in Nat
  BY ParametersAssumption
<1>2. Components \in [1..Len(Components) -> ToSet(Components)]
  BY <1>1, ParametersAssumption DEF ToSet
<1>3. Components \in Seq(ToSet(Components))
  BY <1>1, <1>2, SeqDef
<1> QED
  BY <1>1, <1>3, ParametersAssumption DEF ToSet

\* The loop of SetDefaultLogging visits every component but one.
LEMMA AllButStdoutVisits ==
    /\ AllButStdout \in Seq(ToSet(Components))
    /\ \A c \in ToSet(Components) \ {"STDOUT"} :
          \E i \in 1..Len(AllButStdout) : AllButStdout[i] = c
<1> DEFINE C == ToSet(Components)
           n == Len(Components)
           k == CHOOSE i \in DOMAIN Components : Components[i] = "STDOUT"
<1>1. Components \in Seq(C) /\ n \in Nat /\ DOMAIN Components = 1..n
  BY ComponentsTyped
<1>2. k \in 1..n /\ Components[k] = "STDOUT"
  <2>1. \E i \in DOMAIN Components : Components[i] = "STDOUT"
    BY ParametersAssumption DEF ToSet
  <2> QED
    BY <1>1, <2>1
<1>3. AllButStdout =
         SubSeq(Components, 1, k - 1) \o SubSeq(Components, k + 1, n)
  BY DEF AllButStdout, RemoveAt
<1> HIDE DEF k, n, C
<1> DEFINE before == SubSeq(Components, 1, k - 1)
           after == SubSeq(Components, k + 1, n)
<1>4. /\ before \in Seq(C) /\ Len(before) = k - 1
      /\ \A i \in 1..(k - 1) : before[i] = Components[i]
  BY <1>1, <1>2
<1>5. /\ after \in Seq(C) /\ Len(after) = n - k
      /\ \A i \in 1..(n - k) : after[i] = Components[k + i]
  BY <1>1, <1>2
<1> HIDE DEF before, after
<1>6. /\ AllButStdout \in Seq(C) /\ Len(AllButStdout) = n - 1
      /\ \A i \in 1..(n - 1) : AllButStdout[i] =
            IF i < k THEN before[i] ELSE after[i - k + 1]
  <2>1. AllButStdout = before \o after
    BY <1>3 DEF before, after
  <2>2. Len(before) + Len(after) = n - 1 /\ n - 1 \in Nat
    BY <1>1, <1>2, <1>4, <1>5
  <2>3. /\ before \o after \in Seq(C)
        /\ Len(before \o after) = Len(before) + Len(after)
        /\ \A i \in 1..(Len(before) + Len(after)) : (before \o after)[i] =
              IF i <= Len(before) THEN before[i] ELSE after[i - Len(before)]
    BY <1>4, <1>5, ConcatProperties
  <2>4. ASSUME NEW i \in 1..(n - 1)
        PROVE  AllButStdout[i] =
                  IF i < k THEN before[i] ELSE after[i - k + 1]
    <3>1. (i <= Len(before)) = (i < k) /\ i - Len(before) = i - k + 1
      BY <1>1, <1>2, <1>4
    <3> QED
      BY <2>1, <2>2, <2>3, <3>1
  <2> QED
    BY <2>1, <2>2, <2>3, <2>4
<1>7. ASSUME NEW c \in C \ {"STDOUT"}
      PROVE  \E i \in 1..Len(AllButStdout) : AllButStdout[i] = c
  <2>1. PICK i \in 1..n : Components[i] = c
    BY ComponentsTyped DEF C, n
  <2>2. i # k
    BY <1>2, <2>1
  <2>3. CASE i < k
    <3>1. i \in 1..(n - 1) /\ i \in 1..(k - 1)
      BY <1>1, <1>2, <2>1, <2>3
    <3> QED
      BY <1>4, <1>6, <2>1, <2>3, <3>1
  <2>4. CASE i > k
    <3>1. /\ i - 1 \in 1..(n - 1) /\ i - k \in 1..(n - k) /\ ~(i - 1 < k)
          /\ (i - 1) - k + 1 = i - k /\ k + (i - k) = i
      BY <1>1, <1>2, <2>1, <2>4
    <3> QED
      BY <1>5, <1>6, <2>1, <3>1
  <2> QED
    BY <1>2, <2>1, <2>2, <2>3, <2>4
<1> QED
  BY <1>6, <1>7 DEF C

\* What the invariant says of one thread.
LEMMA OutputTyped ==
    ASSUME OutputInv, NEW t \in Threads
    PROVE  /\ ValuesTyped /\ StackInStep(t) /\ ContextInStep(t)
           /\ CallsInStep(t) /\ stack[t] \in Seq(Frames)
           /\ Len(stack[t]) \in Nat
<1>1. ValuesTyped /\ StackInStep(t) /\ ContextInStep(t) /\ CallsInStep(t)
  BY DEF OutputInv
<1>2. stack[t] \in Seq(Frames)
  BY <1>1 DEF ValuesTyped
<1> QED
  BY <1>1, <1>2, LenProperties

\* A call that begins.
LEMMA FrameIs ==
    ASSUME ValuesTyped, NEW kind \in {"message", "name"}, NEW c \in Comps,
           NEW name \in Texts
    PROVE  /\ Frame(kind, c, name) \in Frames
           /\ Frame(kind, c, name).kind = kind
           /\ Frame(kind, c, name).c = c /\ Frame(kind, c, name).name = name
           /\ kind = "message" => Frame(kind, c, name).pc = "type"
           /\ kind = "name" => Frame(kind, c, name).pc = "once"
           /\ Frame(kind, c, name).to = chosen[c]
           /\ Frame(kind, c, name).torn <=> HalfChanged(c)
<1> DEFINE pc == IF kind = "message" THEN "type" ELSE "once"
           Begun(torn) ==
              [kind |-> kind, c |-> c, name |-> name, pc |-> pc,
               type |-> "SYSLOG", to |-> chosen[c], torn |-> torn]
<1>1. chosen[c] \in Chosen
  BY DEF ValuesTyped
<1>2. pc \in FramePcs /\ "SYSLOG" \in Types
  BY DEF FramePcs, Types
<1>3. ASSUME NEW torn \in BOOLEAN
      PROVE  /\ Begun(torn) \in Frames /\ Begun(torn).torn = torn
             /\ Begun(torn).kind = kind /\ Begun(torn).c = c
             /\ Begun(torn).name = name /\ Begun(torn).pc = pc
             /\ Begun(torn).to = chosen[c]
  <2> HIDE DEF pc
  <2> QED
    BY <1>1, <1>2 DEF Frames
<1>4. Frame(kind, c, name) = Begun(HalfChanged(c))
  BY DEF Frame
<1>5. CASE HalfChanged(c)
  <2>1. Frame(kind, c, name) = Begun(TRUE)
    BY <1>4, <1>5 DEF HalfChanged
  <2> QED
    BY <1>3, <1>5, <2>1
<1>6. CASE ~HalfChanged(c)
  <2>1. Frame(kind, c, name) = Begun(FALSE)
    BY <1>4, <1>6 DEF HalfChanged
  <2> QED
    BY <1>3, <1>6, <2>1
<1> QED
  BY <1>5, <1>6

\* The innermost call of a thread is replaced by another.
LEMMA TopIs ==
    ASSUME ValuesTyped, NEW t \in Threads, stack[t] # << >>,
           NEW frame \in Frames, stack' = Top(t, frame)
    PROVE  /\ stack' \in [Threads -> Seq(Frames)]
           /\ \A u \in Threads : u # t => stack'[u] = stack[u]
           /\ Len(stack'[t]) = Len(stack[t]) /\ stack'[t][1] = frame
           /\ \A i \in 2..Len(stack[t]) : stack'[t][i] = stack[t][i]
<1> DEFINE s == stack[t]
           rest == Tail(s)
<1>1. s \in Seq(Frames) /\ s # << >>
  BY DEF ValuesTyped
<1>2. /\ rest \in Seq(Frames) /\ Len(rest) = Len(s) - 1 /\ Len(s) \in Nat
      /\ \A i \in 1..Len(rest) : rest[i] = s[i + 1]
  BY <1>1, HeadTailProperties, LenProperties
<1>3. stack' = [stack EXCEPT ![t] = <<frame>> \o rest]
  BY DEF Top
<1> HIDE DEF s, rest
<1> DEFINE new == <<frame>> \o rest
<1>4. <<frame>> \in Seq(Frames) /\ Len(<<frame>>) = 1
  OBVIOUS
<1>5. /\ new \in Seq(Frames) /\ Len(new) = 1 + Len(rest)
      /\ \A i \in 1..(1 + Len(rest)) :
            new[i] = IF i <= 1 THEN <<frame>>[i] ELSE rest[i - 1]
  <2>1. /\ new \in Seq(Frames) /\ Len(new) = Len(<<frame>>) + Len(rest)
        /\ \A i \in 1..(Len(<<frame>>) + Len(rest)) : new[i] =
              IF i <= Len(<<frame>>) THEN <<frame>>[i]
              ELSE rest[i - Len(<<frame>>)]
    BY <1>2, <1>4, ConcatProperties
  <2> QED
    BY <1>4, <2>1
<1> HIDE DEF new
<1>6. Len(new) = Len(s) /\ new[1] = frame
  BY <1>2, <1>5
<1>7. ASSUME NEW i \in 2..Len(s) PROVE new[i] = s[i]
  <2>1. i \in 1..(1 + Len(rest)) /\ ~(i <= 1) /\ i - 1 \in 1..Len(rest)
        /\ (i - 1) + 1 = i
    BY <1>2
  <2> QED
    BY <1>2, <1>5, <2>1
<1>8. stack' = [stack EXCEPT ![t] = new]
  BY <1>3 DEF new
<1>9. stack \in [Threads -> Seq(Frames)]
  BY DEF ValuesTyped
<1> QED
  BY <1>5, <1>6, <1>7, <1>8, <1>9 DEF s

\* A call begins in a thread that has none, or logs before it goes on.
LEMMA PushIs ==
    ASSUME ValuesTyped, NEW t \in Threads, NEW s \in Seq(Frames),
           stack' = [stack EXCEPT ![t] = s]
    PROVE  /\ stack' \in [Threads -> Seq(Frames)] /\ stack'[t] = s
           /\ \A u \in Threads : u # t => stack'[u] = stack[u]
BY DEF ValuesTyped

\* The calls of a thread are in step when each of them is.
LEMMA ThreadInStep ==
    ASSUME ValuesTyped', NEW t \in Threads
    PROVE  /\ Len(stack'[t]) \in Nat
           /\ stack'[t] # << >> => 1 \in 1..Len(stack'[t])
           /\ \A i \in 1..Len(stack'[t]) : stack'[t][i] \in Frames
<1>1. stack'[t] \in Seq(Frames)
  BY DEF ValuesTyped
<1> QED
  BY <1>1, LenProperties, ElementOfSeq

\* All that is said of one thread.
InStep(t) == StackInStep(t) /\ ContextInStep(t) /\ CallsInStep(t)

\* A thread that does not move stays in step while the tables stay.
LEMMA OthersInStep ==
    ASSUME OutputInv, UNCHANGED <<change, chosen, comp_log_type>>,
           NEW t \in Threads, stack'[t] = stack[t], named'[t] = named[t],
           specific'[t] = specific[t], failed'[t] = failed[t]
    PROVE  InStep(t)'
<1>1. InStep(t)
  BY DEF OutputInv, InStep
<1>2. StackInStep(t)' /\ ContextInStep(t)'
  BY <1>1 DEF InStep, StackInStep, ContextInStep, CallInStep, Naming
<1>3. CallsInStep(t)'
  BY <1>1 DEF InStep, CallsInStep, OnItsWay, HalfChanged
<1> QED
  BY <1>2, <1>3 DEF InStep

\* So do the tables while nobody changes them.
LEMMA TablesStay ==
    ASSUME OutputInv, UNCHANGED <<tables, changing>>
    PROVE  DefaultInStep' /\ \A c \in Comps : TablesInStep(c)'
BY DEF OutputInv, tables, changing, DefaultInStep, DefaultReachesAll, Has,
       TablesInStep, HalfChanged, Comps
-----------------------------------------------------------------------------
(* The steps of a call                                                     *)

\* Only thread t moves, and the tables stay.
LEMMA ThreadMoves ==
    ASSUME OutputInv, ValuesTyped', UNCHANGED <<tables, changing>>,
           NEW t \in Threads, InStep(t)',
           \A u \in Threads \ {t} :
              /\ stack'[u] = stack[u] /\ specific'[u] = specific[u]
              /\ named'[u] = named[u] /\ failed'[u] = failed[u]
    PROVE  OutputInv'
<1>1. \A u \in Threads \ {t} : InStep(u)'
  BY OthersInStep DEF tables, changing
<1>2. DefaultInStep' /\ \A c \in Comps : TablesInStep(c)'
  BY TablesStay
<1> QED
  BY <1>1, <1>2 DEF OutputInv, InStep, Comps

\* So do the types of the variables.
LEMMA ValuesStay ==
    ASSUME ValuesTyped, stack' \in [Threads -> Seq(Frames)],
           UNCHANGED <<tables, change, chosen>>,
           once_key' \in {"new", "done"} \cup Threads,
           specific' \in [Threads -> Names \cup {Empty, NULL}],
           named' \in [Threads -> Names \cup {Empty}],
           failed' \in [Threads -> BOOLEAN]
    PROVE  ValuesTyped'
BY DEF ValuesTyped, Comps, Chosen, Frames, Changing, Buffering, Texts, tables

\* The innermost call goes on.
LEMMA GoesOn ==
    ASSUME OutputInv, NEW t \in Threads, stack[t] # << >>,
           NEW frame \in Frames, stack' = Top(t, frame),
           UNCHANGED <<tables, specific, changing, named, failed>>,
           once_key' \in {once_key, "done", t},
           frame.kind = stack[t][1].kind, frame.c = stack[t][1].c,
           frame.name = stack[t][1].name, frame.to = stack[t][1].to,
           frame.torn = stack[t][1].torn, CallInStep(frame),
           frame.pc # "copy", NameShown(frame, named[t], failed[t]),
           OnItsWay(frame)
    PROVE  OutputInv'
<1>1. /\ ValuesTyped /\ StackInStep(t) /\ ContextInStep(t) /\ CallsInStep(t)
      /\ Len(stack[t]) \in Nat
  BY OutputTyped
<1>2. /\ stack' \in [Threads -> Seq(Frames)]
      /\ \A u \in Threads : u # t => stack'[u] = stack[u]
      /\ Len(stack'[t]) = Len(stack[t]) /\ stack'[t][1] = frame
      /\ \A i \in 2..Len(stack[t]) : stack'[t][i] = stack[t][i]
  BY <1>1, TopIs
<1>3. /\ UNCHANGED <<specific, named, failed>>
      /\ UNCHANGED <<tables, change, chosen>>
  BY DEF tables, changing
<1>4. ValuesTyped'
  <2>1. once_key' \in {"new", "done"} \cup Threads
    BY <1>1 DEF ValuesTyped
  <2> QED
    BY <1>1, <1>2, <1>3, <2>1, ValuesStay DEF ValuesTyped
<1>5. StackInStep(t)'
  <2>1. \A i \in 1..Len(stack'[t]) : i = 1 \/ i \in 2..Len(stack[t])
    BY <1>1, <1>2
  <2>2. \A i \in 1..Len(stack'[t]) : CallInStep(stack'[t][i])
    BY <1>1, <1>2, <2>1 DEF StackInStep
  <2>3. Len(stack[t]) = 2 => stack'[t][2] = stack[t][2]
    BY <1>2
  <2> QED
    BY <1>1, <1>2, <2>2, <2>3 DEF StackInStep, CallInStep
<1>6. ContextInStep(t)'
  <2>1. stack'[t] # << >>
    <3>1. Len(stack[t]) # 0
      BY <1>1, EmptySeq DEF ValuesTyped
    <3> QED
      BY <1>2, <3>1, EmptySeq
  <2> QED
    BY <1>1, <1>2, <1>3, <2>1 DEF ContextInStep, Naming
<1>7. CallsInStep(t)'
  <2>1. \A i \in 1..Len(stack'[t]) : i = 1 \/ i \in 2..Len(stack[t])
    BY <1>1, <1>2
  <2>2. \A i \in 1..Len(stack'[t]) :
           /\ NameShown(stack'[t][i], named[t], failed[t])
           /\ OnItsWay(stack'[t][i])
    BY <1>1, <1>2, <2>1 DEF CallsInStep
  <2> QED
    BY <1>3, <2>2 DEF CallsInStep, OnItsWay, HalfChanged, tables
<1> QED
  BY <1>2, <1>3, <1>4, <1>5, <1>6, <1>7, ThreadMoves DEF InStep

\* The innermost call of a thread.
LEMMA HeadIs ==
    ASSUME OutputInv, NEW t \in Threads, stack[t] # << >>
    PROVE  /\ Head(stack[t]) = stack[t][1] /\ stack[t][1] \in Frames
           /\ CallInStep(stack[t][1])
           /\ NameShown(stack[t][1], named[t], failed[t])
           /\ OnItsWay(stack[t][1]) /\ 1 \in 1..Len(stack[t])
<1>1. stack[t] \in Seq(Frames) /\ Len(stack[t]) \in Nat
  BY OutputTyped
<1>2. 1 \in 1..Len(stack[t]) /\ Head(stack[t]) = stack[t][1]
  BY <1>1
<1> QED
  BY <1>1, <1>2, ElementOfSeq, OutputTyped DEF StackInStep, CallsInStep

\* pthread_once and init_keys keep the invariant.
LEMMA OnceInStep ==
    ASSUME OutputInv, NEW t \in Threads, Once(t) \/ InitKeys(t)
    PROVE  OutputInv'
<1> DEFINE old == stack[t][1]
           new(pc) == [old EXCEPT !.pc = pc]
<1>1. stack[t] # << >> /\ old.pc \in {"once", "init"}
  BY HeadIs DEF Once, InitKeys, At
<1>2. /\ Head(stack[t]) = old /\ old \in Frames /\ CallInStep(old)
      /\ OnItsWay(old)
  BY <1>1, HeadIs
<1>3. PICK pc \in {"specific", "init"} :
         /\ stack' = Top(t, new(pc)) /\ once_key' \in {once_key, "done", t}
         /\ UNCHANGED <<tables, specific, changing, named, failed>>
  BY <1>2 DEF Once, InitKeys
<1>4. /\ new(pc) \in Frames /\ new(pc).kind = old.kind /\ new(pc).c = old.c
      /\ new(pc).name = old.name /\ new(pc).to = old.to
      /\ new(pc).torn = old.torn /\ new(pc).type = old.type
      /\ new(pc).pc = pc
  <2>1. pc \in FramePcs
    BY DEF FramePcs
  <2> QED
    BY <1>2, <2>1 DEF Frames
<1>5. /\ CallInStep(new(pc)) /\ OnItsWay(new(pc))
      /\ NameShown(new(pc), named[t], failed[t])
  <2> HIDE DEF new, old
  <2> QED
    BY <1>1, <1>2, <1>4 DEF CallInStep, NameShown, OnItsWay
<1>6. pc # "copy"
  OBVIOUS
<1>7. new(pc).pc # "copy"
  BY <1>4, <1>6
<1> HIDE DEF new
<1> QED
  BY <1>1, <1>3, <1>4, <1>5, <1>7, GoesOn

\* The switch of DisplayLogComponentLevel reads a type that is that of the
\* message's destination.
LEMMA ReadTypeInStep ==
    ASSUME OutputInv, NEW t \in Threads, ReadType(t)
    PROVE  OutputInv'
<1> DEFINE old == stack[t][1]
           type == comp_log_type[old.c]
           pc == IF type \in {"TESTLOG", "BUFFLOG"} THEN "emit" ELSE "once"
           new == [old EXCEPT !.type = type, !.pc = pc]
<1>1. stack[t] # << >> /\ old.pc = "type"
  BY HeadIs DEF ReadType, At
<1>2. /\ Head(stack[t]) = old /\ old \in Frames /\ CallInStep(old)
      /\ OnItsWay(old)
  BY <1>1, HeadIs
<1>3. /\ stack' = Top(t, new)
      /\ UNCHANGED <<tables, once_key, specific, changing, named, failed>>
  BY <1>2 DEF ReadType
<1>4. old.c \in Comps /\ type \in Types /\ pc \in FramePcs
  BY <1>2 DEF Frames, OutputInv, ValuesTyped, FramePcs
<1>5. /\ pc \in {"emit", "once"}
      /\ pc = "emit" => type \in {"TESTLOG", "BUFFLOG"}
  OBVIOUS
<1>6. /\ new \in Frames /\ new.kind = old.kind /\ new.c = old.c
      /\ new.name = old.name /\ new.to = old.to
      /\ new.torn = old.torn /\ new.type = type /\ new.pc = pc
  <2> HIDE DEF pc, type
  <2> QED
    BY <1>2, <1>4 DEF Frames
<1> HIDE DEF new
<1>7. CallInStep(new) /\ NameShown(new, named[t], failed[t]) /\ OnItsWay(new)
  <2>1. old.kind # "name"
    BY <1>1, <1>2 DEF CallInStep
  <2>2. type = comp_log_type[new.c]
    BY <1>6
  <2> HIDE DEF old, pc, type
  <2> QED
    BY <1>1, <1>2, <1>5, <1>6, <2>1, <2>2 DEF CallInStep, NameShown, OnItsWay
<1> HIDE DEF pc
<1>8. new.pc # "copy" /\ once_key' = once_key
  BY <1>3, <1>5, <1>6
<1> QED
  BY <1>1, <1>3, <1>6, <1>7, <1>8, GoesOn

\* A call logs before it goes on.
Pushed(t, more, onward) ==
    [stack EXCEPT ![t] = (<<more>> \o <<onward>>) \o Tail(@)]

\* After that the thread has two calls.
LEMMA PairIs ==
    ASSUME ValuesTyped, NEW t \in Threads, stack[t] # << >>,
           Len(stack[t]) = 1, NEW more \in Frames, NEW onward \in Frames,
           stack' = Pushed(t, more, onward)
    PROVE  /\ stack' \in [Threads -> Seq(Frames)] /\ stack'[t] # << >>
           /\ \A u \in Threads : u # t => stack'[u] = stack[u]
           /\ Len(stack'[t]) = 2
           /\ stack'[t][1] = more /\ stack'[t][2] = onward
<1>1. stack[t] \in Seq(Frames)
  BY DEF ValuesTyped
<1>2. Tail(stack[t]) \in Seq(Frames) /\ Len(Tail(stack[t])) = 0
  <2>1. /\ Tail(stack[t]) \in Seq(Frames)
        /\ Len(Tail(stack[t])) = Len(stack[t]) - 1
    BY <1>1, HeadTailProperties
  <2>2. Len(stack[t]) - 1 = 0
    OBVIOUS
  <2> QED
    BY <2>1, <2>2
<1>3. Tail(stack[t]) = << >>
  BY <1>2, EmptySeq
<1> DEFINE pair == <<more>> \o <<onward>>
<1>4. /\ <<more>> \in Seq(Frames) /\ Len(<<more>>) = 1
      /\ <<onward>> \in Seq(Frames) /\ Len(<<onward>>) = 1
      /\ <<more>>[1] = more /\ <<onward>>[1] = onward
  OBVIOUS
<1>5. /\ pair \in Seq(Frames) /\ Len(pair) = 2
      /\ pair[1] = more /\ pair[2] = onward
  <2>1. /\ pair \in Seq(Frames)
        /\ Len(pair) = Len(<<more>>) + Len(<<onward>>)
        /\ \A i \in 1..(Len(<<more>>) + Len(<<onward>>)) : pair[i] =
              IF i <= Len(<<more>>) THEN <<more>>[i]
              ELSE <<onward>>[i - Len(<<more>>)]
    BY <1>4, ConcatProperties
  <2> HIDE DEF pair
  <2>2. Len(pair) = 2 /\ 1 \in 1..2 /\ 2 \in 1..2
    BY <1>4, <2>1
  <2> QED
    BY <1>4, <2>1, <2>2
<1> HIDE DEF pair
<1>6. pair \o << >> = pair
  BY <1>5, ConcatEmptySeq
<1>7. stack' = [stack EXCEPT ![t] = pair]
  BY <1>3, <1>6 DEF pair, Pushed
<1>8. stack'[t] = pair /\ \A u \in Threads : u # t => stack'[u] = stack[u]
  BY <1>7 DEF ValuesTyped
<1>9. stack' \in [Threads -> Seq(Frames)]
  BY <1>5, <1>7 DEF ValuesTyped
<1>10. pair # << >>
  BY <1>5, EmptySeq
<1> QED
  BY <1>5, <1>8, <1>9, <1>10

\* A number up to two that is neither none nor two is one.
LEMMA OneIs ==
    ASSUME NEW n \in Nat, n # 0, n # 2, n <= 2
    PROVE  n = 1
OBVIOUS

\* Log_GetThreadContext has a name to return: one that may be shown, and the
\* thread's name is kept unless memory failed.
Found(t, name) ==
    /\ specific' \in [Threads -> Names \cup {Empty, NULL}]
    /\ failed' \in [Threads -> BOOLEAN]
    /\ \A u \in Threads \ {t} :
          specific'[u] = specific[u] /\ failed'[u] = failed[u]
    /\ failed[t] => failed'[t]
    /\ IF stack[t][1].kind = "name"
       THEN specific'[t] # NULL \/ failed'[t]
       ELSE /\ Shows(name, named[t], failed'[t])
            /\ IF specific'[t] = NULL THEN named[t] = Empty \/ failed'[t]
               ELSE \/ specific'[t] = named[t]
                    \/ (failed'[t] /\ specific'[t] = Empty)

\* The call that asked for the context goes on, or logs before.
LEMMA FoundInStep ==
    ASSUME OutputInv, NEW t \in Threads, NEW name, Found(t, name),
           UNCHANGED <<tables, once_key, changing, named>>,
           stack[t] # << >>, stack[t][1].pc = "specific",
           stack' \in [Threads -> Seq(Frames)],
           \A u \in Threads : u # t => stack'[u] = stack[u],
           stack'[t] # << >>, StackInStep(t)',
           stack'[t][1].kind = stack[t][1].kind,
           stack[t][1].kind = "name" =>
              stack'[t][1].name = stack[t][1].name,
           \A i \in 1..Len(stack'[t]) :
              /\ NameShown(stack'[t][i], named[t], failed'[t])
              /\ OnItsWay(stack'[t][i])
    PROVE  OutputInv'
<1>1. ValuesTyped /\ ContextInStep(t)
  BY OutputTyped
<1>2. /\ UNCHANGED <<tables, change, chosen>>
      /\ UNCHANGED <<once_key, named>>
  BY DEF tables, changing
<1>3. ValuesTyped'
  <2>1. /\ specific' \in [Threads -> Names \cup {Empty, NULL}]
        /\ failed' \in [Threads -> BOOLEAN]
    BY DEF Found
  <2>2. /\ named' \in [Threads -> Names \cup {Empty}]
        /\ once_key' \in {"new", "done"} \cup Threads
    BY <1>1, <1>2 DEF ValuesTyped
  <2> QED
    BY <1>1, <1>2, <2>1, <2>2, ValuesStay
<1>4. ContextInStep(t)'
  <2>1. Naming(t) /\ Naming(t)' <=> stack[t][1].kind = "name"
    BY DEF Naming
  <2>2. Naming(t)' <=> Naming(t)
    BY DEF Naming
  <2>3. CASE Naming(t)
    BY <1>1, <1>2, <2>1, <2>2, <2>3 DEF ContextInStep, Found
  <2>4. CASE ~Naming(t)
    BY <1>2, <2>1, <2>2, <2>4 DEF ContextInStep, Found
  <2> QED
    BY <2>3, <2>4
<1>5. CallsInStep(t)'
  BY <1>2 DEF CallsInStep, OnItsWay, HalfChanged, tables
<1>6. \A u \in Threads \ {t} :
         /\ stack'[u] = stack[u] /\ specific'[u] = specific[u]
         /\ named'[u] = named[u] /\ failed'[u] = failed[u]
  BY <1>2 DEF Found
<1> QED
  BY <1>3, <1>4, <1>5, <1>6, ThreadMoves DEF InStep

\* The call that has its context.
Onward(old, name) ==
    [old EXCEPT !.pc = IF old.kind = "message" THEN "emit" ELSE "copy",
                !.name = IF old.kind = "message" THEN name ELSE @]

\* It has a name that may be shown.
LEMMA OnwardIs ==
    ASSUME OutputInv, NEW t \in Threads, NEW old \in Frames,
           stack[t] # << >>, old = stack[t][1], old.pc = "specific",
           NEW name \in Texts, Found(t, name),
           NEW onward, onward = Onward(old, name)
    PROVE  /\ onward \in Frames /\ onward.kind = old.kind
           /\ onward.kind = "message" => onward.pc = "emit"
           /\ onward.kind = "name" => onward.name = old.name
           /\ CallInStep(onward) /\ OnItsWay(onward)
           /\ NameShown(onward, named[t], failed'[t])
<1> DEFINE pc == IF old.kind = "message" THEN "emit" ELSE "copy"
           shown == IF old.kind = "message" THEN name ELSE old.name
<1>1. CallInStep(old) /\ OnItsWay(old)
  BY HeadIs
<1>2. pc \in FramePcs /\ shown \in Texts
  BY DEF FramePcs, Frames
<1>3. onward = [old EXCEPT !.pc = pc, !.name = shown]
  BY DEF Onward
<1>4. old.kind \in {"message", "name"}
  BY DEF Frames
<1>5. /\ old.kind = "message" => pc = "emit" /\ shown = name
      /\ old.kind = "name" => pc = "copy" /\ shown = old.name
  BY <1>4
<1> HIDE DEF pc, shown
<1>6. /\ onward \in Frames /\ onward.kind = old.kind /\ onward.c = old.c
      /\ onward.name = shown /\ onward.to = old.to
      /\ onward.torn = old.torn /\ onward.type = old.type /\ onward.pc = pc
  BY <1>2, <1>3 DEF Frames
<1>7. CallInStep(onward) /\ OnItsWay(onward)
  BY <1>1, <1>4, <1>5, <1>6 DEF CallInStep, OnItsWay
<1>8. NameShown(onward, named[t], failed'[t])
  BY <1>4, <1>5, <1>6 DEF NameShown, Found
<1> QED
  BY <1>4, <1>5, <1>6, <1>7, <1>8

\* Log_GetThreadContext returns, with a message before or without.
LEMMA ContextReturns ==
    ASSUME OutputInv, NEW t \in Threads, At(t, "specific"),
           NEW name \in Texts, NEW logs,
           HasContext(t, name, logs), Found(t, name),
           UNCHANGED <<tables, once_key, changing, named>>
    PROVE  OutputInv'
<1>1. stack[t] # << >> /\ stack[t][1].pc = "specific"
  BY HeadIs DEF At
<1>2. PICK old \in Frames : old = stack[t][1] /\ old = Head(stack[t])
  BY <1>1, HeadIs
<1>3. /\ ValuesTyped /\ StackInStep(t) /\ CallsInStep(t)
      /\ stack[t] \in Seq(Frames) /\ Len(stack[t]) \in Nat
  BY OutputTyped
<1>4. PICK onward : onward = Onward(old, name)
  OBVIOUS
<1>5. stack' = [stack EXCEPT ![t] =
         ((IF logs /\ OkErrors(old)
           THEN <<Frame("message", "LOG_EMERG", Empty)>> ELSE << >>)
             \o <<onward>>) \o Tail(stack[t])]
  BY <1>2, <1>4 DEF HasContext, Onward
<1>6. /\ onward \in Frames /\ onward.kind = old.kind
      /\ onward.kind = "message" => onward.pc = "emit"
      /\ onward.kind = "name" => onward.name = old.name
      /\ CallInStep(onward) /\ OnItsWay(onward)
      /\ NameShown(onward, named[t], failed'[t])
  <2>1. old = stack[t][1] /\ old.pc = "specific"
    BY <1>1, <1>2
  <2> QED
    BY <1>1, <1>4, <2>1, OnwardIs
<1>7. CASE logs /\ OkErrors(old)
  <2>1. old.kind = "message" /\ old.c # "LOG_EMERG"
    BY <1>7 DEF OkErrors
  <2>2. PICK more \in Frames :
           /\ more = Frame("message", "LOG_EMERG", Empty)
           /\ more.kind = "message" /\ more.c = "LOG_EMERG"
           /\ more.pc = "type" /\ more.to = chosen["LOG_EMERG"]
           /\ (more.torn <=> HalfChanged("LOG_EMERG"))
    <3>1. "LOG_EMERG" \in Comps /\ Empty \in Texts
      BY ComponentsTyped DEF Comps, Texts
    <3>2. "message" \in {"message", "name"}
      OBVIOUS
    <3> DEFINE new == Frame("message", "LOG_EMERG", Empty)
    <3>3. /\ new \in Frames /\ new.kind = "message" /\ new.c = "LOG_EMERG"
          /\ new.pc = "type"
          /\ new.to = chosen["LOG_EMERG"]
          /\ (new.torn <=> HalfChanged("LOG_EMERG"))
      BY <1>3, <3>1, <3>2, FrameIs
    <3> HIDE DEF new
    <3> QED
      BY <3>3 DEF new
  <2>3. CallInStep(more) /\ OnItsWay(more)
        /\ NameShown(more, named[t], failed'[t])
    BY <2>2 DEF CallInStep, OnItsWay, NameShown
  <2>4. Len(stack[t]) = 1
    <3>1. Len(stack[t]) # 2 /\ Len(stack[t]) <= 2
      BY <1>2, <1>3, <2>1 DEF StackInStep
    <3>2. Len(stack[t]) # 0
      BY <1>1, <1>3, EmptySeq
    <3>3. Len(stack[t]) \in Nat
      BY <1>3
    <3> QED
      BY <3>1, <3>2, <3>3, OneIs
  <2>5. stack' = Pushed(t, more, onward)
    BY <1>5, <1>7, <2>2 DEF Pushed
  <2>6. /\ stack' \in [Threads -> Seq(Frames)] /\ stack'[t] # << >>
        /\ \A u \in Threads : u # t => stack'[u] = stack[u]
        /\ Len(stack'[t]) = 2
        /\ stack'[t][1] = more /\ stack'[t][2] = onward
    <3>1. ValuesTyped /\ onward \in Frames
      BY <1>3, <1>6
    <3> QED
      BY <1>1, <2>4, <2>5, <3>1, PairIs
  <2>7. \A i \in 1..Len(stack'[t]) : i = 1 \/ i = 2
    <3>1. \A i \in 1..2 : i = 1 \/ i = 2
      OBVIOUS
    <3>2. Len(stack'[t]) = 2
      BY <2>6
    <3> QED
      BY <3>1, <3>2
  <2>8. StackInStep(t)'
    BY <1>6, <2>1, <2>2, <2>3, <2>6, <2>7 DEF StackInStep, CallInStep
  <2>9. \A i \in 1..Len(stack'[t]) :
           /\ NameShown(stack'[t][i], named[t], failed'[t])
           /\ OnItsWay(stack'[t][i])
    BY <1>6, <2>3, <2>6, <2>7
  <2>10. /\ stack'[t][1].kind = stack[t][1].kind
         /\ stack[t][1].kind # "name"
    BY <1>2, <2>1, <2>2, <2>6
  <2> QED
    BY <1>1, <2>6, <2>8, <2>9, <2>10, FoundInStep
<1>8. CASE ~(logs /\ OkErrors(old))
  <2>1. << >> \o <<onward>> = <<onward>>
    BY <1>6
  <2>2. stack' = Top(t, onward)
    BY <1>5, <1>8, <2>1 DEF Top
  <2>3. /\ stack' \in [Threads -> Seq(Frames)]
        /\ \A u \in Threads : u # t => stack'[u] = stack[u]
        /\ Len(stack'[t]) = Len(stack[t]) /\ stack'[t][1] = onward
        /\ \A i \in 2..Len(stack[t]) : stack'[t][i] = stack[t][i]
    BY <1>1, <1>3, <1>6, <2>2, TopIs
  <2>4. \A i \in 1..Len(stack'[t]) : i = 1 \/ i \in 2..Len(stack[t])
    BY <1>3, <2>3
  <2>5. \A i \in 2..Len(stack[t]) : i \in 1..Len(stack[t])
    BY <1>3
  <2>6. \A i \in 1..Len(stack'[t]) : CallInStep(stack'[t][i])
    BY <1>3, <1>6, <2>3, <2>4, <2>5 DEF StackInStep
  <2>7. StackInStep(t)'
    <3>1. Len(stack[t]) = 2 =>
             /\ stack'[t][2] = stack[t][2]
             /\ stack[t][1].kind = "message" /\ stack[t][1].c = "LOG_EMERG"
             /\ stack[t][2].kind = "message" /\ stack[t][2].pc = "emit"
      BY <1>3, <2>3 DEF StackInStep
    <3>2. onward.c = old.c
      BY <1>4 DEF Frames, Onward
    <3>3. Len(stack[t]) <= 2
      BY <1>3 DEF StackInStep
    <3> QED
      BY <1>2, <1>6, <2>3, <2>6, <3>1, <3>2, <3>3
         DEF StackInStep, CallInStep
  <2>8. ASSUME NEW i \in 1..Len(stack'[t])
        PROVE  /\ NameShown(stack'[t][i], named[t], failed'[t])
               /\ OnItsWay(stack'[t][i])
    <3>1. CASE i = 1
      BY <1>6, <2>3, <3>1
    <3>2. CASE i \in 2..Len(stack[t])
      <4>1. stack'[t][i] = stack[t][i] /\ i \in 1..Len(stack[t])
        BY <2>3, <2>5, <3>2
      <4>2. /\ NameShown(stack[t][i], named[t], failed[t])
            /\ OnItsWay(stack[t][i])
        BY <1>3, <4>1 DEF CallsInStep
      <4>3. failed[t] => failed'[t]
        BY DEF Found
      <4> QED
        BY <4>1, <4>2, <4>3 DEF NameShown, Shows
    <3> QED
      BY <2>4, <3>1, <3>2
  <2>9. stack'[t] # << >>
    <3>1. Len(stack[t]) # 0
      BY <1>1, <1>3, EmptySeq
    <3> QED
      BY <2>3, <3>1, EmptySeq
  <2>10. /\ stack'[t][1].kind = stack[t][1].kind
         /\ stack[t][1].kind = "name" =>
               stack'[t][1].name = stack[t][1].name
    BY <1>2, <1>6, <2>3
  <2> QED
    BY <1>1, <2>3, <2>7, <2>8, <2>9, <2>10, FoundInStep
<1> QED
  BY <1>7, <1>8

\* The empty name is neither of the two others that are no names.
LEMMA EmptyIsNot == Empty # NULL /\ Empty # EMERGENCY
BY Zenon DEF Empty, NULL, EMERGENCY

\* Log_GetThreadContext, found, made or not.
LEMMA ContextStepInStep ==
    ASSUME OutputInv, NEW t \in Threads,
           FoundContext(t) \/ MadeContext(t) \/ NoContext(t)
    PROVE  OutputInv'
<1>1. At(t, "specific") /\ stack[t] # << >>
  BY DEF FoundContext, MadeContext, NoContext, At
<1>2. /\ ValuesTyped /\ ContextInStep(t) /\ stack[t][1] \in Frames
      /\ Empty \in Texts /\ EMERGENCY \in Texts
  BY <1>1, HeadIs, OutputTyped DEF Texts
<1>3. /\ specific \in [Threads -> Names \cup {Empty, NULL}]
      /\ failed \in [Threads -> BOOLEAN]
  BY <1>2 DEF ValuesTyped
<1>4. stack[t][1].kind = "name" <=> Naming(t)
  BY <1>1 DEF Naming
<1>5. CASE FoundContext(t)
  <2>1. /\ specific[t] # NULL /\ HasContext(t, specific[t], FALSE)
        /\ UNCHANGED <<tables, once_key, specific, changing, named, failed>>
    BY <1>5 DEF FoundContext
  <2>2. specific[t] \in Texts
    BY <1>3, <2>1 DEF Texts
  <2>3. Found(t, specific[t])
    BY <1>2, <1>3, <1>4, <2>1 DEF Found, ContextInStep, Shows
  <2> QED
    BY <1>1, <2>1, <2>2, <2>3, ContextReturns
<1>6. CASE MadeContext(t)
  <2>1. /\ specific[t] = NULL /\ HasContext(t, Empty, EmergDebug)
        /\ UNCHANGED <<tables, once_key, changing, named>>
        /\ \/ /\ specific' = [specific EXCEPT ![t] = Empty]
              /\ UNCHANGED failed
           \/ /\ failed' = [failed EXCEPT ![t] = TRUE]
              /\ UNCHANGED specific
    BY <1>6 DEF MadeContext
  <2>2. Found(t, Empty)
    BY <1>2, <1>3, <1>4, <2>1, EmptyIsNot DEF Found, ContextInStep, Shows
  <2> QED
    BY <1>1, <1>2, <2>1, <2>2, ContextReturns
<1>7. CASE NoContext(t)
  <2>1. /\ specific[t] = NULL /\ HasContext(t, EMERGENCY, TRUE)
        /\ UNCHANGED <<tables, once_key, specific, changing, named>>
        /\ failed' = [failed EXCEPT ![t] = TRUE]
    BY <1>7 DEF NoContext
  <2>2. Found(t, EMERGENCY)
    BY <1>2, <1>3, <1>4, <2>1 DEF Found, ContextInStep, Shows
  <2> QED
    BY <1>1, <1>2, <2>1, <2>2, ContextReturns
<1> QED
  BY <1>5, <1>6, <1>7

\* One less than a number up to two.
LEMMA ShorterIs ==
    ASSUME NEW m \in Nat, NEW n \in Nat, n = m - 1, m <= 2
    PROVE  n = 0 \/ (n = 1 /\ m = 2)
OBVIOUS

\* What is within one, or within none, is one.
LEMMA UpToOne ==
    ASSUME NEW n, n = 0 \/ n = 1, NEW i \in 1..n
    PROVE  i = 1 /\ n = 1
OBVIOUS

\* CopyName and Emit: a call returns.
LEMMA ReturnInStep ==
    ASSUME OutputInv, NEW t \in Threads, CopyName(t) \/ Emit(t)
    PROVE  OutputInv'
<1>1. stack[t] # << >> /\ stack[t][1].pc \in {"copy", "emit"}
  BY HeadIs DEF CopyName, Emit, At
<1>2. /\ Head(stack[t]) = stack[t][1] /\ stack[t][1] \in Frames
      /\ CallInStep(stack[t][1])
  BY <1>1, HeadIs
<1>3. /\ ValuesTyped /\ StackInStep(t) /\ ContextInStep(t) /\ CallsInStep(t)
      /\ stack[t] \in Seq(Frames) /\ Len(stack[t]) \in Nat
  BY OutputTyped
<1>4. /\ UNCHANGED <<tables, once_key, changing, named, failed>>
      /\ \A u \in Threads : u # t => UNCHANGED <<stack[u], specific[u]>>
  BY <1>3 DEF CopyName, Emit, ValuesTyped
<1>5. /\ UNCHANGED <<tables, change, chosen>>
      /\ UNCHANGED <<once_key, named, failed>>
  BY <1>4 DEF tables, changing
<1>6. CASE CopyName(t)
  <2>1. /\ specific' = [specific EXCEPT
                           ![t] = IF @ = NULL THEN NULL ELSE stack[t][1].name]
        /\ stack' = [stack EXCEPT ![t] = << >>]
        /\ stack[t][1].pc = "copy"
    BY <1>1, <1>2, <1>6, HeadIs DEF CopyName, At
  <2>2. Naming(t) /\ stack[t][1].name \in Names
    BY <1>1, <1>2, <2>1 DEF CallInStep, Naming
  <2>3. << >> \in Seq(Frames) /\ Len(<< >>) = 0
    BY EmptySeq
  <2>4. /\ stack' \in [Threads -> Seq(Frames)] /\ stack'[t] = << >>
        /\ specific' \in [Threads -> Names \cup {Empty, NULL}]
    BY <1>3, <2>1, <2>2, <2>3 DEF ValuesTyped
  <2>5. ValuesTyped'
    BY <1>3, <1>5, <2>4, ValuesStay DEF ValuesTyped
  <2>6. specific'[t] = IF specific[t] = NULL THEN NULL ELSE stack[t][1].name
    BY <1>3, <2>1 DEF ValuesTyped
  <2>7. /\ stack[t][1].name = named[t] /\ stack[t][1].name # NULL
        /\ specific[t] = NULL => failed[t]
    BY <1>3, <2>1, <2>2, ParametersAssumption DEF ContextInStep
  <2>8. ContextInStep(t)'
    BY <1>5, <2>4, <2>6, <2>7 DEF ContextInStep, Naming
  <2>9. StackInStep(t)' /\ CallsInStep(t)'
    BY <2>3, <2>4 DEF StackInStep, CallsInStep
  <2> QED
    BY <1>4, <1>5, <2>5, <2>8, <2>9, ThreadMoves DEF InStep
<1>7. CASE Emit(t)
  <2>1. /\ stack' = [stack EXCEPT ![t] = Tail(stack[t])]
        /\ stack[t][1].pc = "emit" /\ UNCHANGED specific
    BY <1>1, <1>2, <1>7, HeadIs DEF Emit, At
  <2>2. ~Naming(t)
    BY <1>2, <2>1 DEF CallInStep, Naming
  <2>3. /\ Tail(stack[t]) \in Seq(Frames)
        /\ Len(Tail(stack[t])) = Len(stack[t]) - 1
        /\ \A i \in 1..Len(Tail(stack[t])) :
              Tail(stack[t])[i] = stack[t][i + 1]
    BY <1>1, <1>3, HeadTailProperties
  <2>4. /\ stack' \in [Threads -> Seq(Frames)]
        /\ stack'[t] = Tail(stack[t])
    BY <1>3, <2>1, <2>3 DEF ValuesTyped
  <2>5. ValuesTyped'
    BY <1>3, <1>5, <2>1, <2>4, ValuesStay DEF ValuesTyped
  <2>6. \/ Len(stack'[t]) = 0
        \/ (Len(stack'[t]) = 1 /\ Len(stack[t]) = 2)
    <3>1. /\ Len(stack'[t]) = Len(stack[t]) - 1 /\ Len(stack[t]) <= 2
          /\ Len(stack'[t]) \in Nat /\ Len(stack[t]) \in Nat
      BY <1>3, <2>3, <2>4, LenProperties DEF StackInStep
    <3> QED
      BY <3>1, ShorterIs
  <2>7. ASSUME NEW i \in 1..Len(stack'[t])
        PROVE  /\ i = 1 /\ Len(stack[t]) = 2 /\ 2 \in 1..Len(stack[t])
               /\ stack'[t][i] = stack[t][2]
    <3>1. i = 1 /\ Len(stack[t]) = 2 /\ i + 1 = 2
      <4>1. i = 1 /\ Len(stack'[t]) = 1
        BY <2>6, UpToOne
      <4> QED
        BY <2>6, <4>1
    <3>2. stack'[t][i] = stack[t][i + 1]
      BY <2>3, <2>4
    <3>3. 2 \in 1..Len(stack[t])
      BY <3>1
    <3> QED
      BY <3>1, <3>2, <3>3
  <2>8. StackInStep(t)'
    BY <1>3, <2>6, <2>7 DEF StackInStep
  <2>9. CallsInStep(t)'
    BY <1>3, <1>5, <2>7 DEF CallsInStep, OnItsWay, HalfChanged, tables
  <2>10. ~Naming(t)'
    <3>1. CASE Len(stack'[t]) = 0
      BY <2>4, <2>3, <3>1, EmptySeq DEF Naming
    <3>2. CASE Len(stack'[t]) = 1
      <4>1. 1 \in 1..Len(stack'[t])
        BY <3>2
      <4>2. stack'[t][1].kind = "message"
        BY <1>3, <2>7, <4>1 DEF StackInStep
      <4> QED
        BY <4>2 DEF Naming
    <3> QED
      BY <2>6, <3>1, <3>2
  <2>11. ContextInStep(t)'
    BY <1>3, <1>5, <2>1, <2>2, <2>10 DEF ContextInStep
  <2> QED
    BY <1>4, <1>5, <2>5, <2>8, <2>9, <2>11, ThreadMoves DEF InStep
<1> QED
  BY <1>6, <1>7

\* SetNameFunction and DisplayLogComponentLevel: a call begins.
LEMMA CallInStepBegins ==
    ASSUME OutputInv, NEW t \in Threads,
           \/ \E name \in Names : SetNameFunction(t, name)
           \/ \E c \in Comps : Message(t, c)
    PROVE  OutputInv'
<1>1. PICK kind \in {"message", "name"}, c \in Comps, name \in Texts :
         /\ kind = "name" => name \in Names
         /\ named' = IF kind = "name" THEN [named EXCEPT ![t] = name]
                     ELSE named
         /\ stack' = [stack EXCEPT ![t] = <<Frame(kind, c, name)>>]
         /\ stack[t] = << >>
         /\ UNCHANGED <<tables, once_key, specific, changing, failed>>
  <2>1. CASE \E name \in Names : SetNameFunction(t, name)
    <3>1. PICK name \in Names : SetNameFunction(t, name)
      BY <2>1
    <3>2. name \in Texts /\ "LOG" \in Comps
      BY ComponentsTyped DEF Texts, Comps
    <3> QED
      BY <3>1, <3>2 DEF SetNameFunction
  <2>2. CASE \E c \in Comps : Message(t, c)
    <3>1. PICK c \in Comps : Message(t, c)
      BY <2>2
    <3>2. Empty \in Texts
      BY DEF Texts
    <3> QED
      BY <3>1, <3>2 DEF Message
  <2> QED
    BY <2>1, <2>2
<1>2. ValuesTyped /\ ContextInStep(t)
  BY OutputTyped
<1>3. PICK frame \in Frames :
         /\ frame = Frame(kind, c, name) /\ frame.kind = kind /\ frame.c = c
         /\ frame.name = name /\ frame.to = chosen[c]
         /\ kind = "message" => frame.pc = "type"
         /\ kind = "name" => frame.pc = "once"
         /\ (frame.torn <=> HalfChanged(c))
  BY <1>2, FrameIs
<1>4. /\ UNCHANGED <<tables, change, chosen>>
      /\ UNCHANGED <<once_key, specific, failed>>
  BY <1>1 DEF tables, changing
<1>5. /\ <<frame>> \in Seq(Frames) /\ Len(<<frame>>) = 1
      /\ <<frame>>[1] = frame
  OBVIOUS
<1>6. /\ stack' \in [Threads -> Seq(Frames)]
      /\ stack'[t] = <<frame>>
      /\ \A u \in Threads : u # t => stack'[u] = stack[u]
  BY <1>1, <1>2, <1>3, <1>5 DEF ValuesTyped
<1>7. /\ named' \in [Threads -> Names \cup {Empty}]
      /\ \A u \in Threads : u # t => named'[u] = named[u]
      /\ named'[t] = IF kind = "name" THEN name ELSE named[t]
  BY <1>1, <1>2 DEF ValuesTyped
<1>8. ValuesTyped'
  BY <1>2, <1>4, <1>6, <1>7, ValuesStay DEF ValuesTyped
<1>9. CallInStep(frame) /\ OnItsWay(frame)
  BY <1>1, <1>3 DEF CallInStep, OnItsWay
<1>10. /\ Len(stack'[t]) = 1 /\ stack'[t][1] = frame
       /\ stack'[t] # << >>
  BY <1>5, <1>6, EmptySeq
<1>11. \A i \in 1..Len(stack'[t]) : i = 1
  BY <1>10
<1>12. StackInStep(t)'
  BY <1>9, <1>10, <1>11 DEF StackInStep
<1>13. NameShown(frame, named'[t], failed'[t])
  BY <1>1, <1>3 DEF NameShown
<1>14. CallsInStep(t)'
  BY <1>4, <1>9, <1>10, <1>11, <1>13 DEF CallsInStep, OnItsWay, HalfChanged,
                                                 tables
<1>15. ContextInStep(t)'
  <2>1. ~Naming(t)
    BY <1>1 DEF Naming
  <2>2. Naming(t)' <=> kind = "name"
    BY <1>3, <1>10 DEF Naming
  <2> QED
    BY <1>2, <1>3, <1>4, <1>7, <1>10, <2>1, <2>2 DEF ContextInStep
<1>16. \A u \in Threads \ {t} :
          /\ stack'[u] = stack[u] /\ specific'[u] = specific[u]
          /\ named'[u] = named[u] /\ failed'[u] = failed[u]
  BY <1>4, <1>6, <1>7
<1>17. UNCHANGED <<tables, changing>>
  BY <1>1
<1> QED
  BY <1>8, <1>12, <1>14, <1>15, <1>16, <1>17, ThreadMoves DEF InStep
-----------------------------------------------------------------------------
(* The steps of a change                                                   *)

\* SetComponentLogFile's types.
LEMMA TypesOf ==
    /\ \A name : TypeOf(name) \in Types
    /\ TypeOf("SYSLOG") = "SYSLOG"
    /\ \A name \in Destinations : TypeOf(name) # "BUFFLOG"
    /\ \A name \in Buffers : TypeOf(name) = "BUFFLOG"
<1>1. DOMAIN Word = {"SYSLOG", "STDERR", "STDOUT", "TEST"}
  BY DEF Word
<1>2. /\ Word["SYSLOG"] = "SYSLOG" /\ Word["STDERR"] = "STDERRLOG"
      /\ Word["STDOUT"] = "STDOUTLOG" /\ Word["TEST"] = "TESTLOG"
  BY DEF Word
<1>3. /\ "SYSLOG" \notin Buffers
      /\ \A name \in Destinations : name \notin Buffers
  BY <1>1, ParametersAssumption
<1> QED
  BY <1>1, <1>2, <1>3 DEF TypeOf, Types

\* A function on 1..n is a sequence of length n.
LEMMA FunctionIsSeq ==
    ASSUME NEW S, NEW n \in Nat, NEW f \in [1..n -> S]
    PROVE  f \in Seq(S) /\ Len(f) = n
<1>1. f \in Seq(S)
  BY SeqDef
<1>2. Len(f) \in Nat /\ 1..Len(f) = 1..n
  BY <1>1, LenProperties
<1> QED
  BY <1>1, <1>2

\* What becomes of a call when component c is changed.
TornBy(frame, c) == [frame EXCEPT !.torn = @ \/ frame.c = c]

\* Nothing else becomes of it.
LEMMA TornIs ==
    ASSUME NEW frame \in Frames, NEW c, NEW new, new = TornBy(frame, c)
    PROVE  /\ new \in Frames /\ new.kind = frame.kind /\ new.c = frame.c
           /\ new.name = frame.name /\ new.pc = frame.pc
           /\ new.type = frame.type /\ new.to = frame.to
           /\ (new.torn <=> frame.torn \/ frame.c = c)
<1>1. frame.torn \in BOOLEAN
  BY DEF Frames
<1>2. CASE frame.torn \/ frame.c = c
  <2>1. new = [frame EXCEPT !.torn = TRUE]
    BY <1>1, <1>2 DEF TornBy
  <2>2. /\ new \in Frames /\ new.kind = frame.kind /\ new.c = frame.c
        /\ new.name = frame.name /\ new.pc = frame.pc
        /\ new.type = frame.type /\ new.to = frame.to /\ new.torn = TRUE
    BY ONLY frame \in Frames, <2>1 DEF Frames
  <2> QED
    BY <1>2, <2>2
<1>3. CASE ~(frame.torn \/ frame.c = c)
  <2>1. new = [frame EXCEPT !.torn = FALSE]
    BY <1>1, <1>3 DEF TornBy
  <2>2. /\ new \in Frames /\ new.kind = frame.kind /\ new.c = frame.c
        /\ new.name = frame.name /\ new.pc = frame.pc
        /\ new.type = frame.type /\ new.to = frame.to /\ new.torn = FALSE
    BY ONLY frame \in Frames, <2>1 DEF Frames
  <2> QED
    BY <1>3, <2>2
<1> QED
  BY <1>2, <1>3

\* The calls of a thread when component c is changed.
LEMMA TearIs ==
    ASSUME OutputInv, NEW c, Tear(c), NEW t \in Threads
    PROVE  /\ stack'[t] \in Seq(Frames) /\ Len(stack'[t]) = Len(stack[t])
           /\ \A i \in 1..Len(stack[t]) :
                 /\ stack'[t][i].kind = stack[t][i].kind
                 /\ stack'[t][i].c = stack[t][i].c
                 /\ stack'[t][i].name = stack[t][i].name
                 /\ stack'[t][i].pc = stack[t][i].pc
                 /\ stack'[t][i].type = stack[t][i].type
                 /\ stack'[t][i].to = stack[t][i].to
                 /\ (stack'[t][i].torn <=>
                       stack[t][i].torn \/ stack[t][i].c = c)
<1> DEFINE Torn(i) == TornBy(stack[t][i], c)
<1>1. stack[t] \in Seq(Frames) /\ Len(stack[t]) \in Nat
  BY OutputTyped
<1>2. ASSUME NEW i \in 1..Len(stack[t])
      PROVE  /\ Torn(i) \in Frames /\ Torn(i).kind = stack[t][i].kind
             /\ Torn(i).c = stack[t][i].c /\ Torn(i).name = stack[t][i].name
             /\ Torn(i).pc = stack[t][i].pc
             /\ Torn(i).type = stack[t][i].type
             /\ Torn(i).to = stack[t][i].to
             /\ (Torn(i).torn <=> stack[t][i].torn \/ stack[t][i].c = c)
  <2>1. stack[t][i] \in Frames
    BY <1>1, ElementOfSeq
  <2> QED
    BY <2>1, TornIs
<1>3. stack' = [u \in Threads |-> [i \in 1..Len(stack[u]) |->
                  TornBy(stack[u][i], c)]]
  BY DEF Tear, TornBy
<1>4. stack'[t] = [i \in 1..Len(stack[t]) |-> Torn(i)]
  BY <1>3
<1> HIDE DEF Torn
<1>5. stack'[t] \in [1..Len(stack[t]) -> Frames]
  BY <1>2, <1>4
<1>6. stack'[t] \in Seq(Frames) /\ Len(stack'[t]) = Len(stack[t])
  BY <1>1, <1>5, FunctionIsSeq
<1>7. \A i \in 1..Len(stack[t]) : stack'[t][i] = Torn(i)
  BY <1>4
<1> QED
  BY <1>2, <1>6, <1>7

\* The calls of all threads when the destination of c changes: those of c are
\* torn.
LEMMA TearInStep ==
    ASSUME OutputInv, NEW c \in Comps, Tear(c),
           UNCHANGED <<once_key, specific, named, failed>>,
           \A d \in Comps \ {c} :
              /\ comp_log_type'[d] = comp_log_type[d]
              /\ chosen'[d] = chosen[d] /\ ~HalfChanged(d)',
           NEW t \in Threads
    PROVE  InStep(t)'
<1>1. /\ ValuesTyped /\ StackInStep(t) /\ ContextInStep(t) /\ CallsInStep(t)
      /\ stack[t] \in Seq(Frames) /\ Len(stack[t]) \in Nat
  BY OutputTyped
<1>2. /\ stack'[t] \in Seq(Frames) /\ Len(stack'[t]) = Len(stack[t])
      /\ \A i \in 1..Len(stack[t]) :
            /\ stack'[t][i].kind = stack[t][i].kind
            /\ stack'[t][i].c = stack[t][i].c
            /\ stack'[t][i].name = stack[t][i].name
            /\ stack'[t][i].pc = stack[t][i].pc
            /\ stack'[t][i].type = stack[t][i].type
            /\ stack'[t][i].to = stack[t][i].to
            /\ (stack'[t][i].torn <=> stack[t][i].torn \/ stack[t][i].c = c)
  BY TearIs
<1>3. Len(stack[t]) = 2 => 1 \in 1..Len(stack[t]) /\ 2 \in 1..Len(stack[t])
  BY <1>1
<1>4. StackInStep(t)'
  BY <1>1, <1>2, <1>3 DEF StackInStep, CallInStep
<1>5. ContextInStep(t)'
  <2>1. stack[t] # << >> => 1 \in 1..Len(stack[t])
    BY <1>1
  <2>2. stack'[t] # << >> <=> stack[t] # << >>
    BY <1>1, <1>2, EmptySeq
  <2> QED
    BY <1>1, <1>2, <2>1, <2>2 DEF ContextInStep, Naming
<1>6. ASSUME NEW i \in 1..Len(stack[t])
      PROVE  /\ NameShown(stack'[t][i], named'[t], failed'[t])
             /\ OnItsWay(stack[t][i])'
  <2>1. stack[t][i].c \in Comps
    <3>1. stack[t][i] \in Frames
      BY <1>1, ElementOfSeq
    <3> QED
      BY <3>1 DEF Frames
  <2>2. /\ NameShown(stack[t][i], named[t], failed[t])
        /\ OnItsWay(stack[t][i])
    BY <1>1 DEF CallsInStep
  <2>3. NameShown(stack'[t][i], named'[t], failed'[t])
    BY <1>2, <2>2 DEF NameShown
  <2> QED
    BY <1>2, <2>1, <2>2, <2>3 DEF OnItsWay
<1>7. CallsInStep(t)'
  BY <1>2, <1>6 DEF CallsInStep
<1> QED
  BY <1>4, <1>5, <1>7 DEF InStep

\* Where a change is, by the kind of change it is.
LEMMA ChangePcs ==
    /\ \A r \in Changing :
          r.pc \in {"check", "type", "file", "report", "announce"}
    /\ \A r \in Buffering : r.pc = "buffer"
    /\ [pc |-> Idle].pc = Idle
BY DEF Changing, Buffering

\* A change under way.
LEMMA ChangeIs ==
    ASSUME OutputInv, change.pc \notin {Idle, "buffer"}
    PROVE  /\ change \in Changing /\ change.thread \in Threads
           /\ change.todo \in Seq(Comps) /\ change.todo # << >>
           /\ change.todo[1] \in Comps /\ Len(change.todo) \in Nat
           /\ 1 \in 1..Len(change.todo)
           /\ change.name \in Destinations
           /\ change.all \in BOOLEAN
<1>1. change = [pc |-> Idle] \/ change \in Changing \/ change \in Buffering
  BY DEF OutputInv, ValuesTyped
<1>2. change \in Changing
  BY <1>1, ChangePcs
<1>3. change.todo \in Seq(Comps) /\ change.todo # << >>
  BY <1>2 DEF Changing
<1>4. Len(change.todo) \in Nat /\ 1 \in 1..Len(change.todo)
  BY <1>3, LenProperties, EmptySeq
<1>5. change.todo[1] \in Comps
  BY <1>3, <1>4, ElementOfSeq
<1> QED
  BY <1>2, <1>3, <1>4, <1>5 DEF Changing

\* A thread that does not move stays in step while nothing its messages
\* depend on is changed, half or whole.
LEMMA SameInStep ==
    ASSUME OutputInv, UNCHANGED <<comp_log_type, chosen>>,
           \A c \in Comps : HalfChanged(c) \/ ~HalfChanged(c)',
           NEW t \in Threads, stack'[t] = stack[t], named'[t] = named[t],
           specific'[t] = specific[t], failed'[t] = failed[t]
    PROVE  InStep(t)'
<1>1. /\ StackInStep(t) /\ ContextInStep(t) /\ CallsInStep(t)
      /\ stack[t] \in Seq(Frames)
  BY OutputTyped
<1>2. StackInStep(t)' /\ ContextInStep(t)'
  BY <1>1 DEF StackInStep, ContextInStep, CallInStep, Naming
<1>3. \A i \in 1..Len(stack[t]) : stack[t][i].c \in Comps
  <2>1. \A i \in 1..Len(stack[t]) : stack[t][i] \in Frames
    BY <1>1, ElementOfSeq
  <2> QED
    BY <2>1 DEF Frames
<1>4. CallsInStep(t)'
  BY <1>1, <1>3 DEF CallsInStep, OnItsWay
<1> QED
  BY <1>2, <1>4 DEF InStep

\* The functions that change a destination say so, or do not.
LEMMA LogChangesInStep ==
    ASSUME OutputInv, NEW says, LogChanges(says),
           change.pc \notin {Idle, "file", "buffer"},
           stack[change.thread] = << >>, change'.pc \notin {"file", "buffer"},
           UNCHANGED <<comp_log_type, chosen, specific, named, failed>>
    PROVE  /\ stack' \in [Threads -> Seq(Frames)]
           /\ \A t \in Threads : InStep(t)'
<1>1. PICK s \in Threads : s = change.thread
  BY ChangeIs
<1>2. ValuesTyped /\ stack[s] = << >>
  BY <1>1 DEF OutputInv
<1>3. \A c \in Comps : ~HalfChanged(c) /\ ~HalfChanged(c)'
  BY DEF HalfChanged
<1>4. ASSUME NEW t \in Threads, stack'[t] = stack[t]
      PROVE  InStep(t)'
  BY <1>3, <1>4, SameInStep
<1>5. CASE UNCHANGED stack
  BY <1>2, <1>4, <1>5 DEF ValuesTyped
<1>6. CASE stack' = [stack EXCEPT ![s] = <<Frame("message", "LOG", Empty)>>]
  <2>1. "LOG" \in Comps /\ Empty \in Texts /\ "message" \in {"message", "name"}
    BY ComponentsTyped DEF Comps, Texts
  <2>2. PICK frame \in Frames :
           /\ frame = Frame("message", "LOG", Empty)
           /\ frame.kind = "message" /\ frame.c = "LOG"
           /\ frame.pc = "type" /\ frame.to = chosen["LOG"]
           /\ (frame.torn <=> HalfChanged("LOG"))
    BY <1>2, <2>1, FrameIs
  <2>3. /\ <<frame>> \in Seq(Frames) /\ Len(<<frame>>) = 1
        /\ <<frame>>[1] = frame
    OBVIOUS
  <2>4. /\ stack' \in [Threads -> Seq(Frames)] /\ stack'[s] = <<frame>>
        /\ \A u \in Threads : u # s => stack'[u] = stack[u]
    BY <1>2, <1>6, <2>2, <2>3, PushIs
  <2>5. /\ Len(stack'[s]) = 1 /\ stack'[s][1] = frame
    BY <2>3, <2>4
  <2>6. ASSUME NEW i \in 1..Len(stack'[s]) PROVE i = 1
    BY <2>5, UpToOne
  <2>7. StackInStep(s)'
    BY <2>2, <2>5, <2>6 DEF StackInStep, CallInStep
  <2>8. CallsInStep(s)'
    BY <1>3, <2>1, <2>2, <2>5, <2>6 DEF CallsInStep, NameShown, OnItsWay
  <2>9. ContextInStep(s)'
    <3>1. ContextInStep(s)
      BY OutputTyped
    <3>2. ~Naming(s) /\ ~Naming(s)'
      BY <1>2, <2>2, <2>5 DEF Naming
    <3> QED
      BY <3>1, <3>2 DEF ContextInStep
  <2> QED
    BY <1>4, <2>4, <2>7, <2>8, <2>9 DEF InStep
<1> QED
  BY <1>1, <1>5, <1>6 DEF LogChanges

\* The types of the tables and of the change itself.
LEMMA ChangeTyped ==
    ASSUME ValuesTyped, stack' \in [Threads -> Seq(Frames)],
           UNCHANGED <<once_key, specific, named, failed>>,
           comp_log_type' \in [Comps -> Types],
           comp_log_file' \in [Comps -> Destinations \cup {Empty, "SYSLOG"}],
           comp_buffer' \in [Comps -> Buffers \cup {NULL}],
           chosen' \in [Comps -> Chosen],
           \/ change' = [pc |-> Idle]
           \/ change' \in Changing \/ change' \in Buffering
    PROVE  ValuesTyped'
BY DEF ValuesTyped, Comps, Chosen, Frames, Changing, Buffering, Texts

\* Neither the comparison nor SetDefaultLogging's own message changes a
\* table.
LEMMA CompareInStep ==
    ASSUME OutputInv, Compare \/ Announce
    PROVE  OutputInv'
<1>1. /\ change.pc \in {"check", "announce"}
      /\ stack[change.thread] = << >>
      /\ UNCHANGED <<tables, once_key, specific, changes, chosen, default,
                     named, failed>>
      /\ \E says : LogChanges(says)
  BY DEF Compare, Announce, Changes
<1>2. /\ change \in Changing /\ ValuesTyped /\ DefaultInStep
      /\ \A c \in Comps : TablesInStep(c)
  BY <1>1, ChangeIs DEF OutputInv, Idle
<1>3. /\ change' \in Changing /\ change'.pc \in {"type", "check"}
      /\ change'.todo = change.todo /\ change'.name = change.name
      /\ change'.all = change.all
  <2>1. CASE Announce
    BY <1>2, <2>1 DEF Announce, Changing
  <2>2. CASE Compare
    <3>1. PICK changed \in BOOLEAN :
             change' = [change EXCEPT !.pc = "type", !.changed = changed]
      BY <2>2 DEF Compare
    <3> QED
      BY <1>2, <3>1 DEF Changing
  <2> QED
    BY <2>1, <2>2
<1>4. /\ UNCHANGED <<comp_log_type, comp_log_file, comp_buffer>>
      /\ UNCHANGED <<once_key, chosen>>
      /\ UNCHANGED <<specific, named, failed, default>>
  BY <1>1 DEF tables
<1>5. /\ stack' \in [Threads -> Seq(Frames)]
      /\ \A t \in Threads : InStep(t)'
  BY <1>1, <1>3, <1>4, LogChangesInStep DEF Idle
<1>6. ValuesTyped'
  BY <1>2, <1>3, <1>4, <1>5, ChangeTyped DEF ValuesTyped
<1>7. DefaultInStep'
  BY <1>1, <1>2, <1>3, <1>4 DEF DefaultInStep, DefaultReachesAll, Has, Comps,
     Idle
<1>8. \A c \in Comps : TablesInStep(c)'
  BY <1>1, <1>2, <1>3, <1>4 DEF TablesInStep, HalfChanged
<1> QED
  BY <1>5, <1>6, <1>7, <1>8 DEF OutputInv, InStep, Comps

\* The component whose type has been stored is the first to visit.
LEMMA StoreTypeInStep ==
    ASSUME OutputInv, StoreType
    PROVE  OutputInv'
<1>1. /\ change.pc = "type" /\ change' = [change EXCEPT !.pc = "file"]
      /\ UNCHANGED <<comp_log_file, comp_buffer, once_key, specific, changes,
                     chosen, default, named, failed>>
  BY DEF StoreType, Changes
<1>2. /\ change \in Changing /\ ValuesTyped /\ DefaultInStep
      /\ \A c \in Comps : TablesInStep(c)
      /\ change.name \in Destinations
  BY <1>1, ChangeIs DEF OutputInv, Idle
<1>3. PICK c \in Comps, name \in Destinations :
         c = change.todo[1] /\ name = change.name
  BY <1>1, ChangeIs DEF Idle
<1>4. /\ comp_log_type' = [comp_log_type EXCEPT ![c] = TypeOf(change.name)]
      /\ Tear(c)
  BY <1>3 DEF StoreType
<1>5. /\ change' \in Changing /\ change'.pc = "file"
      /\ change'.todo = change.todo /\ change'.name = change.name
      /\ change'.all = change.all
  BY <1>1, <1>2 DEF Changing
<1>6. /\ comp_log_type' \in [Comps -> Types]
      /\ comp_log_type'[c] = TypeOf(change.name)
      /\ \A d \in Comps \ {c} : comp_log_type'[d] = comp_log_type[d]
  BY <1>2, <1>4, TypesOf DEF ValuesTyped
<1>7. /\ HalfChanged(c)' /\ \A d \in Comps \ {c} : ~HalfChanged(d)'
      /\ \A d \in Comps : ~HalfChanged(d)
  BY <1>1, <1>3, <1>5 DEF HalfChanged
<1>8. \A t \in Threads : InStep(t)'
  BY <1>1, <1>4, <1>6, <1>7, TearInStep
<1>9. stack' \in [Threads -> Seq(Frames)]
  <2>1. \A t \in Threads : stack'[t] \in Seq(Frames)
    BY <1>4, TearIs
  <2> QED
    BY <1>4, <2>1 DEF Tear
<1>10. ValuesTyped'
  BY <1>1, <1>2, <1>5, <1>6, <1>9, ChangeTyped DEF ValuesTyped
<1>11. ASSUME NEW d \in Comps PROVE TablesInStep(d)'
  <2>1. CASE d = c
    BY <1>5, <1>6, <1>7, <2>1 DEF TablesInStep
  <2>2. CASE d # c
    BY <1>1, <1>2, <1>6, <1>7, <2>2 DEF TablesInStep
  <2> QED
    BY <2>1, <2>2
<1>12. DefaultInStep'
  <2>1. default' = Idle
    BY <1>1, <1>2 DEF DefaultInStep, Idle
  <2>2. ASSUME change.all, NEW d \in Comps \ {"STDOUT"}
        PROVE  \/ Has(d, name)'
               \/ \E i \in 1..Len(change.todo) : change.todo[i] = d
    <3>1. CASE d = c
      BY <1>1, <1>3, <3>1, ChangeIs DEF Idle
    <3>2. CASE d # c
      BY <1>1, <1>2, <1>3, <1>6, <2>2, <3>2 DEF DefaultInStep, Has, Idle
    <3> QED
      BY <3>1, <3>2
  <2>3. \A d \in Comps \ {"STDOUT"} : change'.all =>
           \/ Has(d, name)'
           \/ \E i \in 1..Len(change'.todo) : change'.todo[i] = d
    BY <1>3, <1>5, <2>2
  <2> QED
    BY <1>3, <1>5, <2>1, <2>3 DEF DefaultInStep, DefaultReachesAll, Has, Comps
<1> QED
  BY <1>8, <1>10, <1>11, <1>12 DEF OutputInv, InStep, Comps

\* With the second store the destination is the one that is asked for; no
\* message that is not torn is of that component.
LEMMA StoreFileInStep ==
    ASSUME OutputInv, StoreFile
    PROVE  OutputInv'
<1>1. /\ change.pc = "file" /\ change' = [change EXCEPT !.pc = "report"]
      /\ UNCHANGED <<comp_log_type, comp_buffer, once_key, specific, stack,
                     changes, default, named, failed>>
  BY DEF StoreFile, Changes
<1>2. /\ change \in Changing /\ ValuesTyped /\ DefaultInStep
      /\ \A c \in Comps : TablesInStep(c)
      /\ change.name \in Destinations
  BY <1>1, ChangeIs DEF OutputInv, Idle
<1>3. PICK c \in Comps, name \in Destinations :
         c = change.todo[1] /\ name = change.name
  BY <1>1, ChangeIs DEF Idle
<1>4. /\ comp_log_file' = [comp_log_file EXCEPT ![c] = change.name]
      /\ chosen' = [chosen EXCEPT ![c] = change.name]
  BY <1>3 DEF StoreFile
<1>5. /\ change' \in Changing /\ change'.pc = "report"
      /\ change'.todo = change.todo /\ change'.name = change.name
      /\ change'.all = change.all
  BY <1>1, <1>2 DEF Changing
<1>6. /\ comp_log_file' \in [Comps -> Destinations \cup {Empty, "SYSLOG"}]
      /\ chosen' \in [Comps -> Chosen]
      /\ comp_log_file'[c] = change.name /\ chosen'[c] = change.name
      /\ \A d \in Comps \ {c} : /\ comp_log_file'[d] = comp_log_file[d]
                                /\ chosen'[d] = chosen[d]
  BY <1>2, <1>4 DEF ValuesTyped, Chosen
<1>7. /\ HalfChanged(c) /\ \A d \in Comps \ {c} : ~HalfChanged(d)
      /\ \A d \in Comps : ~HalfChanged(d)'
  BY <1>1, <1>3, <1>5 DEF HalfChanged
<1>8. ValuesTyped'
  BY <1>1, <1>2, <1>5, <1>6, ChangeTyped DEF ValuesTyped
<1>9. ASSUME NEW t \in Threads PROVE InStep(t)'
  <2>1. /\ StackInStep(t) /\ ContextInStep(t) /\ CallsInStep(t)
        /\ stack[t] \in Seq(Frames)
    BY OutputTyped
  <2>2. StackInStep(t)' /\ ContextInStep(t)'
    BY <1>1, <2>1 DEF StackInStep, ContextInStep, CallInStep, Naming
  <2>3. ASSUME NEW i \in 1..Len(stack[t])
        PROVE  OnItsWay(stack[t][i])'
    <3>1. stack[t][i].c \in Comps
      <4>1. stack[t][i] \in Frames
        BY <2>1, ElementOfSeq
      <4> QED
        BY <4>1 DEF Frames
    <3>2. OnItsWay(stack[t][i])
      BY <2>1 DEF CallsInStep
    <3> QED
      BY <1>1, <1>6, <1>7, <3>1, <3>2 DEF OnItsWay
  <2>4. CallsInStep(t)'
    BY <1>1, <2>1, <2>3 DEF CallsInStep
  <2> QED
    BY <2>2, <2>4 DEF InStep
<1>10. Has(c, name)'
  BY <1>1, <1>2, <1>3, <1>6, <1>7 DEF Has, TablesInStep
<1>11. ASSUME NEW d \in Comps PROVE TablesInStep(d)'
  <2>1. CASE d = c
    BY <1>1, <1>2, <1>6, <1>7, <2>1, TypesOf DEF TablesInStep
  <2>2. CASE d # c
    BY <1>1, <1>2, <1>6, <1>7, <2>2 DEF TablesInStep
  <2> QED
    BY <2>1, <2>2
<1>12. DefaultInStep'
  <2>1. default' = Idle
    BY <1>1, <1>2 DEF DefaultInStep, Idle
  <2>2. ASSUME change.all, NEW d \in Comps \ {"STDOUT"}
        PROVE  \/ Has(d, name)'
               \/ \E i \in 1..Len(change.todo) : change.todo[i] = d
    <3>1. CASE d = c
      BY <1>1, <1>3, <3>1, ChangeIs DEF Idle
    <3>2. CASE d # c
      BY <1>1, <1>2, <1>3, <1>6, <2>2, <3>2 DEF DefaultInStep, Has, Idle
    <3> QED
      BY <3>1, <3>2
  <2>3. \A d \in Comps \ {"STDOUT"} : change'.all =>
           \/ Has(d, name)'
           \/ \E i \in 1..Len(change'.todo) : change'.todo[i] = d
    BY <1>3, <1>5, <2>2
  <2>4. Has(c, name)'
    BY <1>10
  <2> QED
    BY <1>3, <1>5, <2>1, <2>3, <2>4
       DEF DefaultInStep, DefaultReachesAll, Has, Comps
<1> QED
  BY <1>8, <1>9, <1>11, <1>12 DEF OutputInv, InStep, Comps

\* What is left to visit when the first has been visited.
LEMMA LeftIs ==
    ASSUME NEW S, NEW todo \in Seq(S), todo # << >>, NEW left,
           left = Tail(todo)
    PROVE  /\ left \in Seq(S)
           /\ \A d : (\E i \in 1..Len(todo) : todo[i] = d) =>
                 \/ d = todo[1]
                 \/ \E i \in 1..Len(left) : left[i] = d
<1>1. /\ left \in Seq(S) /\ Len(left) = Len(todo) - 1
      /\ \A i \in 1..Len(left) : left[i] = todo[i + 1]
  BY HeadTailProperties
<1>2. Len(todo) \in Nat
  BY LenProperties
<1>3. ASSUME NEW i \in 1..Len(todo)
      PROVE  \/ i = 1
             \/ i - 1 \in 1..Len(left) /\ (i - 1) + 1 = i
  BY <1>1, <1>2
<1>4. ASSUME NEW i \in 1..Len(todo)
      PROVE  \/ todo[i] = todo[1]
             \/ \E j \in 1..Len(left) : left[j] = todo[i]
  BY <1>1, <1>3
<1> QED
  BY <1>1, <1>4

\* A component has been changed: the next one's turn, or the end.
LEMMA ReportInStep ==
    ASSUME OutputInv, Report
    PROVE  OutputInv'
<1>1. /\ change.pc = "report" /\ stack[change.thread] = << >>
      /\ UNCHANGED <<tables, once_key, specific, changes, chosen, named,
                     failed>>
      /\ \E says : LogChanges(says)
  BY DEF Report, Changes
<1>2. /\ change \in Changing /\ ValuesTyped /\ DefaultInStep
      /\ \A c \in Comps : TablesInStep(c)
      /\ change.todo \in Seq(Comps) /\ change.todo # << >>
  BY <1>1, ChangeIs DEF OutputInv, Idle
<1>3. PICK name \in Destinations, todo \in Seq(Comps) \ {<< >>},
           left \in Seq(Comps) :
         /\ name = change.name /\ todo = change.todo
         /\ left = Tail(todo)
  BY <1>1, <1>2, ChangeIs, LeftIs DEF Idle
<1>4. /\ Has(todo[1], name)
      /\ change.all =>
            \A d \in Comps \ {"STDOUT"} :
               Has(d, name) \/ \E i \in 1..Len(left) : left[i] = d
  <2>1. Has(todo[1], name)
    BY <1>1, <1>2, <1>3 DEF DefaultInStep, Idle
  <2>2. ASSUME change.all, NEW d \in Comps \ {"STDOUT"}
        PROVE  Has(d, name) \/ \E i \in 1..Len(left) : left[i] = d
    <3>1. \/ Has(d, name)
          \/ \E i \in 1..Len(todo) : todo[i] = d
      BY <1>1, <1>2, <1>3, <2>2 DEF DefaultInStep, Idle
    <3>2. \A e : (\E i \in 1..Len(todo) : todo[i] = e) =>
             e = todo[1] \/ \E i \in 1..Len(left) : left[i] = e
      <4>1. todo \in Seq(Comps) /\ todo # << >> /\ left = Tail(todo)
        BY <1>3
      <4> QED
        BY <4>1, LeftIs
    <3> QED
      BY <2>1, <3>1, <3>2
  <2> QED
    BY <2>1, <2>2
<1>5. /\ UNCHANGED <<comp_log_type, comp_log_file, comp_buffer>>
      /\ UNCHANGED <<once_key, chosen>>
      /\ UNCHANGED <<specific, named, failed>>
  BY <1>1 DEF tables
<1>6. \A d : Has(d, name)' <=> Has(d, name)
  BY <1>5 DEF Has
<1>7. /\ change' = [pc |-> Idle] \/ change' \in Changing
      /\ change'.pc \in {Idle, "announce", "check"} /\ DefaultInStep'
  <2>1. CASE left = << >>
    <3>1. /\ change' = [pc |-> Idle]
          /\ default' = IF change.all THEN name ELSE Idle
      BY <1>3, <2>1 DEF Report
    <3>2. Len(left) = 0
      BY <2>1, EmptySeq
    <3>3. change.all => \A d \in Comps \ {"STDOUT"} : Has(d, name)'
      BY <1>4, <1>6, <3>2
    <3>4. change'.pc = Idle
      BY <3>1
    <3>5. DefaultReachesAll'
      BY <3>1, <3>3 DEF DefaultReachesAll, Has, Comps
    <3> QED
      BY <3>1, <3>4, <3>5 DEF DefaultInStep
  <2>2. CASE left # << >>
    <3>1. PICK pc \in {"announce", "check"} :
             /\ change' = [change EXCEPT !.pc = pc, !.todo = left]
             /\ default' = default
      BY <1>3, <2>2 DEF Report
    <3>2. /\ change' \in Changing /\ change'.pc = pc /\ change'.todo = left
          /\ change'.name = name /\ change'.all = change.all
      BY <1>2, <1>3, <2>2, <3>1 DEF Changing
    <3>3. default' = Idle
      BY <1>1, <1>2, <3>1 DEF DefaultInStep, Idle
    <3>4. change'.all => \A d \in Comps \ {"STDOUT"} :
             Has(d, name)' \/ \E i \in 1..Len(change'.todo) :
                                 change'.todo[i] = d
      BY <1>4, <1>6, <3>2
    <3>5. DefaultInStep'
      BY <3>2, <3>3, <3>4 DEF DefaultInStep, DefaultReachesAll, Has, Comps
    <3> QED
      BY <3>2, <3>5
  <2> QED
    BY <2>1, <2>2
<1>8. /\ stack' \in [Threads -> Seq(Frames)]
      /\ \A t \in Threads : InStep(t)'
  BY <1>1, <1>5, <1>7, LogChangesInStep DEF Idle
<1>9. ValuesTyped'
  BY <1>2, <1>5, <1>7, <1>8, ChangeTyped DEF ValuesTyped
<1>10. \A c \in Comps : TablesInStep(c)'
  BY <1>1, <1>2, <1>5, <1>7 DEF TablesInStep, HalfChanged, Idle
<1> QED
  BY <1>7, <1>8, <1>9, <1>10 DEF OutputInv, InStep, Comps

\* A change begins: if it is of all components, each of them but one is still
\* to visit.
LEMMA BeginInStep ==
    ASSUME OutputInv, NEW t \in Threads, NEW name \in Destinations,
           NEW todo \in Seq(Comps), todo # << >>, NEW all \in BOOLEAN,
           Begin(t, todo, name, all),
           all => \A d \in Comps \ {"STDOUT"} :
                     \E i \in 1..Len(todo) : todo[i] = d
    PROVE  OutputInv'
<1>1. /\ change.pc = Idle /\ default' = Idle
      /\ change' = [pc |-> "check", thread |-> t, todo |-> todo,
                    name |-> name, all |-> all, changed |-> FALSE]
      /\ UNCHANGED <<tables, once_key, specific, stack, chosen, named, failed>>
  BY DEF Begin
<1>2. /\ change' \in Changing /\ change'.pc = "check" /\ change'.todo = todo
      /\ change'.name = name /\ change'.all = all
  BY <1>1 DEF Changing
<1>3. /\ UNCHANGED <<comp_log_type, comp_log_file, comp_buffer>>
      /\ UNCHANGED <<once_key, chosen>>
      /\ UNCHANGED <<specific, stack, named, failed>>
  BY <1>1 DEF tables
<1>4. \A d \in Comps : ~HalfChanged(d) /\ ~HalfChanged(d)'
  BY <1>1, <1>2 DEF HalfChanged, Idle
<1>5. ASSUME NEW u \in Threads PROVE InStep(u)'
  BY <1>3, <1>4, SameInStep
<1>6. ValuesTyped'
  BY <1>2, <1>3, ChangeTyped DEF OutputInv, ValuesTyped
<1>7. \A d \in Comps : TablesInStep(d)'
  BY <1>3, <1>4 DEF OutputInv, TablesInStep
<1>8. DefaultInStep'
  BY <1>1, <1>2 DEF DefaultInStep, DefaultReachesAll
<1> QED
  BY <1>5, <1>6, <1>7, <1>8 DEF OutputInv, InStep, Comps

\* SetDefaultLogging begins: COMPONENT_LOG, then its loop.
LEMMA SetDefaultInStep ==
    ASSUME OutputInv, NEW t \in Threads, NEW name \in Destinations,
           SetDefaultLogging(t, name)
    PROVE  OutputInv'
<1> DEFINE head == <<"LOG">>
           todo == head \o AllButStdout
<1>1. /\ AllButStdout \in Seq(Comps) /\ head \in Seq(Comps)
      /\ Len(head) = 1 /\ Len(AllButStdout) \in Nat
  <2>1. "LOG" \in Comps /\ AllButStdout \in Seq(Comps)
    BY ComponentsTyped, AllButStdoutVisits DEF Comps
  <2> QED
    BY <2>1, LenProperties
<1> HIDE DEF head
<1>2. /\ todo \in Seq(Comps) /\ Len(todo) = 1 + Len(AllButStdout)
      /\ \A i \in 1..(1 + Len(AllButStdout)) : todo[i] =
            IF i <= 1 THEN head[i] ELSE AllButStdout[i - 1]
  <2>1. /\ todo \in Seq(Comps)
        /\ Len(todo) = Len(head) + Len(AllButStdout)
        /\ \A i \in 1..(Len(head) + Len(AllButStdout)) : todo[i] =
              IF i <= Len(head) THEN head[i]
              ELSE AllButStdout[i - Len(head)]
    BY <1>1, ConcatProperties
  <2> QED
    BY <1>1, <2>1
<1> HIDE DEF todo
<1>3. todo # << >>
  BY <1>1, <1>2, EmptySeq
<1>4. ASSUME NEW i \in 1..Len(AllButStdout)
      PROVE  i + 1 \in 1..Len(todo) /\ todo[i + 1] = AllButStdout[i]
  <2>1. i + 1 \in 1..(1 + Len(AllButStdout)) /\ ~(i + 1 <= 1)
        /\ (i + 1) - 1 = i
    BY <1>1
  <2> QED
    BY <1>2, <2>1
<1>5. ASSUME NEW d \in Comps \ {"STDOUT"}
      PROVE  \E i \in 1..Len(todo) : todo[i] = d
  <2>1. PICK i \in 1..Len(AllButStdout) : AllButStdout[i] = d
    BY AllButStdoutVisits DEF Comps
  <2> QED
    BY <1>4, <2>1
<1>6. Begin(t, todo, name, TRUE)
  BY DEF SetDefaultLogging, todo, head
<1>7. TRUE \in BOOLEAN
  OBVIOUS
<1> QED
  BY <1>2, <1>3, <1>5, <1>6, <1>7, BeginInStep

\* SetComponentLogFile begins.
LEMMA SetFileInStep ==
    ASSUME OutputInv, NEW t \in Threads, NEW name \in Destinations,
           NEW c \in Comps, SetComponentLogFile(t, c, name)
    PROVE  OutputInv'
<1>1. Begin(t, <<c>>, name, FALSE)
  BY DEF SetComponentLogFile
<1>2. <<c>> \in Seq(Comps) /\ Len(<<c>>) = 1
  OBVIOUS
<1>3. <<c>> # << >> /\ FALSE \in BOOLEAN
  BY <1>2, EmptySeq
<1> QED
  BY <1>1, <1>2, <1>3, BeginInStep

\* SetComponentLogBuffer stores the type, of the one component it is about.
LEMMA SetBufferInStep ==
    ASSUME OutputInv, NEW u \in Threads, NEW c \in Comps,
           NEW buffer \in Buffers, SetComponentLogBuffer(u, c, buffer)
    PROVE  OutputInv'
<1>1. /\ change.pc = Idle /\ default' = Idle /\ Tear(c)
      /\ comp_log_type' = [comp_log_type EXCEPT ![c] = "BUFFLOG"]
      /\ change' = [pc |-> "buffer", thread |-> u, todo |-> <<c>>,
                    name |-> buffer, all |-> FALSE, changed |-> FALSE]
      /\ UNCHANGED <<comp_log_file, comp_buffer, once_key, specific, chosen,
                     named, failed>>
  BY DEF SetComponentLogBuffer
<1>2. ValuesTyped /\ \A d \in Comps : TablesInStep(d)
  BY DEF OutputInv
<1>3. "BUFFLOG" \in Types
  BY DEF Types
<1>4. /\ comp_log_type' \in [Comps -> Types] /\ comp_log_type'[c] = "BUFFLOG"
      /\ \A d \in Comps \ {c} : comp_log_type'[d] = comp_log_type[d]
  BY <1>1, <1>2, <1>3 DEF ValuesTyped
<1>5. change' \in Buffering /\ change'.pc = "buffer" /\ change'.todo[1] = c
      /\ change'.name = buffer /\ change'.all = FALSE
  <2>1. <<c>> \in Seq(Comps) /\ Len(<<c>>) = 1 /\ <<c>>[1] = c
    OBVIOUS
  <2>2. <<c>> # << >>
    BY <2>1, EmptySeq
  <2> QED
    BY <1>1, <2>1, <2>2 DEF Buffering
<1>6. /\ \A d \in Comps : ~HalfChanged(d)
      /\ HalfChanged(c)' /\ \A d \in Comps \ {c} : ~HalfChanged(d)'
  BY <1>1, <1>5 DEF HalfChanged, Idle
<1>7. \A t \in Threads : InStep(t)'
  BY <1>1, <1>4, <1>6, TearInStep
<1>8. stack' \in [Threads -> Seq(Frames)]
  <2>1. \A t \in Threads : stack'[t] \in Seq(Frames)
    BY <1>1, TearIs
  <2> QED
    BY <1>1, <2>1 DEF Tear
<1>9. ValuesTyped'
  BY <1>1, <1>2, <1>4, <1>5, <1>8, ChangeTyped DEF ValuesTyped
<1>10. ASSUME NEW d \in Comps PROVE TablesInStep(d)'
  <2>1. CASE d = c
    BY <1>4, <1>5, <1>6, <2>1, TypesOf DEF TablesInStep
  <2>2. CASE d # c
    BY <1>1, <1>2, <1>4, <1>6, <2>2 DEF TablesInStep
  <2> QED
    BY <2>1, <2>2
<1>11. DefaultInStep'
  BY <1>1, <1>5 DEF DefaultInStep, DefaultReachesAll
<1> QED
  BY <1>7, <1>9, <1>10, <1>11 DEF OutputInv, InStep, Comps

\* Then it stores the buffer; no message that is not torn is of that
\* component.
LEMMA StoreBufferInStep ==
    ASSUME OutputInv, StoreBuffer
    PROVE  OutputInv'
<1>1. /\ change.pc = "buffer" /\ change' = [pc |-> Idle]
      /\ UNCHANGED <<comp_log_type, comp_log_file, once_key, specific, stack,
                     changes, default, named, failed>>
  BY DEF StoreBuffer, Changes
<1>2. /\ ValuesTyped /\ DefaultInStep
      /\ \A c \in Comps : TablesInStep(c)
  BY DEF OutputInv
<1>3. change \in Buffering
  BY <1>1, <1>2 DEF ValuesTyped, Changing, Idle
<1>4. PICK c \in Comps, buffer \in Buffers :
         c = change.todo[1] /\ buffer = change.name
  <2>1. change.todo \in Seq(Comps) /\ change.todo # << >>
    BY <1>3 DEF Buffering
  <2>2. 1 \in 1..Len(change.todo)
    BY <2>1, LenProperties, EmptySeq
  <2>3. change.todo[1] \in Comps
    BY <2>1, <2>2, ElementOfSeq
  <2> QED
    BY <1>3, <2>3 DEF Buffering
<1>5. /\ comp_buffer' = [comp_buffer EXCEPT ![c] = buffer]
      /\ chosen' = [chosen EXCEPT ![c] = buffer]
  BY <1>4 DEF StoreBuffer
<1>6. /\ comp_buffer' \in [Comps -> Buffers \cup {NULL}]
      /\ chosen' \in [Comps -> Chosen]
      /\ comp_buffer'[c] = buffer /\ chosen'[c] = buffer
      /\ \A d \in Comps \ {c} : /\ comp_buffer'[d] = comp_buffer[d]
                                /\ chosen'[d] = chosen[d]
  BY <1>2, <1>5 DEF ValuesTyped, Chosen
<1>7. /\ HalfChanged(c) /\ \A d \in Comps \ {c} : ~HalfChanged(d)
      /\ \A d \in Comps : ~HalfChanged(d)'
  BY <1>1, <1>4 DEF HalfChanged, Idle
<1>8. ValuesTyped'
  BY <1>1, <1>2, <1>6, ChangeTyped DEF ValuesTyped
<1>9. ASSUME NEW t \in Threads PROVE InStep(t)'
  <2>1. /\ StackInStep(t) /\ ContextInStep(t) /\ CallsInStep(t)
        /\ stack[t] \in Seq(Frames)
    BY OutputTyped
  <2>2. StackInStep(t)' /\ ContextInStep(t)'
    BY <1>1, <2>1 DEF StackInStep, ContextInStep, CallInStep, Naming
  <2>3. ASSUME NEW i \in 1..Len(stack[t])
        PROVE  OnItsWay(stack[t][i])'
    <3>1. stack[t][i].c \in Comps
      <4>1. stack[t][i] \in Frames
        BY <2>1, ElementOfSeq
      <4> QED
        BY <4>1 DEF Frames
    <3>2. OnItsWay(stack[t][i])
      BY <2>1 DEF CallsInStep
    <3> QED
      BY <1>1, <1>6, <1>7, <3>1, <3>2 DEF OnItsWay
  <2>4. CallsInStep(t)'
    BY <1>1, <2>1, <2>3 DEF CallsInStep
  <2> QED
    BY <2>2, <2>4 DEF InStep
<1>10. ASSUME NEW d \in Comps PROVE TablesInStep(d)'
  <2>1. CASE d = c
    BY <1>1, <1>2, <1>4, <1>6, <1>7, <2>1, TypesOf DEF TablesInStep
  <2>2. CASE d # c
    BY <1>1, <1>2, <1>6, <1>7, <2>2 DEF TablesInStep
  <2> QED
    BY <2>1, <2>2
<1>11. DefaultInStep'
  <2>1. default' = Idle /\ change'.pc = Idle
    BY <1>1, <1>2 DEF DefaultInStep, Idle
  <2> QED
    BY <2>1 DEF DefaultInStep, DefaultReachesAll
<1> QED
  BY <1>8, <1>9, <1>10, <1>11 DEF OutputInv, InStep, Comps
-----------------------------------------------------------------------------
(* The theorems                                                            *)

\* The tables, contexts and calls at first.
LEMMA InitOutputInv == Init => OutputInv
<1> SUFFICES ASSUME Init PROVE OutputInv
  OBVIOUS
<1>1. /\ comp_log_type = [c \in Comps |-> "SYSLOG"]
      /\ comp_log_file =
            [c \in Comps |-> IF c = "ALL" THEN Empty ELSE "SYSLOG"]
      /\ comp_buffer = [c \in Comps |-> NULL]
      /\ once_key = "new" /\ specific = [t \in Threads |-> NULL]
      /\ stack = [t \in Threads |-> << >>]
      /\ change = [pc |-> Idle]
      /\ chosen = [c \in Comps |-> "SYSLOG"] /\ default = Idle
      /\ named = [t \in Threads |-> Empty]
      /\ failed = [t \in Threads |-> FALSE]
  BY DEF Init, Comps
<1>2. << >> \in Seq(Frames) /\ Len(<< >>) = 0
  BY EmptySeq
<1>3. change.pc = Idle
  BY <1>1
<1>4. ValuesTyped
  BY <1>1, <1>2 DEF ValuesTyped, Types, Chosen
<1>5. DefaultInStep
  BY <1>1, <1>3 DEF DefaultInStep, DefaultReachesAll
<1>6. ASSUME NEW t \in Threads
      PROVE  StackInStep(t) /\ ContextInStep(t) /\ CallsInStep(t)
  BY <1>1, <1>2 DEF StackInStep, ContextInStep, CallsInStep, Naming
<1>7. ASSUME NEW c \in Comps PROVE TablesInStep(c)
  BY <1>1, <1>3, TypesOf DEF TablesInStep, HalfChanged, Idle
<1> QED
  BY <1>4, <1>5, <1>6, <1>7 DEF OutputInv

\* A step that changes nothing.
LEMMA StutterInStep ==
    ASSUME OutputInv, UNCHANGED vars
    PROVE  OutputInv'
<1>1. /\ UNCHANGED <<tables, change, chosen, default>>
      /\ UNCHANGED <<once_key, specific, stack, named, failed>>
      /\ UNCHANGED <<tables, changing>>
  BY DEF vars, tables, changing
<1>2. ValuesTyped'
  BY <1>1, ValuesStay DEF OutputInv, ValuesTyped
<1>3. \A t \in Threads : InStep(t)'
  BY <1>1, OthersInStep DEF tables
<1>4. DefaultInStep' /\ \A c \in Comps : TablesInStep(c)'
  BY <1>1, TablesStay
<1> QED
  BY <1>2, <1>3, <1>4 DEF OutputInv, InStep, Comps

\* Every step keeps the invariant.
LEMMA StepKeepsOutputInv == OutputInv /\ [Next]_vars => OutputInv'
<1> SUFFICES ASSUME OutputInv, [Next]_vars PROVE OutputInv'
  OBVIOUS
<1>1. ASSUME NEW t \in Threads, Step(t) PROVE OutputInv'
  <2>1. CASE Once(t) \/ InitKeys(t)
    BY <2>1, OnceInStep
  <2>2. CASE FoundContext(t) \/ MadeContext(t) \/ NoContext(t)
    BY <2>2, ContextStepInStep
  <2>3. CASE CopyName(t) \/ Emit(t)
    BY <2>3, ReturnInStep
  <2>4. CASE ReadType(t)
    BY <2>4, ReadTypeInStep
  <2> QED
    BY <1>1, <2>1, <2>2, <2>3, <2>4 DEF Step
<1>2. ASSUME NEW t \in Threads,
             \/ \E name \in Names : SetNameFunction(t, name)
             \/ \E c \in Comps : Message(t, c)
      PROVE  OutputInv'
  BY <1>2, CallInStepBegins
<1>3. ASSUME NEW t \in Threads, NEW name \in Destinations,
             \/ SetDefaultLogging(t, name)
             \/ \E c \in Comps : SetComponentLogFile(t, c, name)
      PROVE  OutputInv'
  BY <1>3, SetDefaultInStep, SetFileInStep
<1>4. CASE ChangeStep
  <2>1. CASE Compare \/ Announce
    BY <2>1, CompareInStep
  <2>2. CASE StoreType
    BY <2>2, StoreTypeInStep
  <2>3. CASE StoreFile
    BY <2>3, StoreFileInStep
  <2>4. CASE Report
    BY <2>4, ReportInStep
  <2>5. CASE StoreBuffer
    BY <2>5, StoreBufferInStep
  <2> QED
    BY <1>4, <2>1, <2>2, <2>3, <2>4, <2>5 DEF ChangeStep
<1>5. ASSUME NEW t \in Threads, NEW c \in Comps, NEW buffer \in Buffers,
             SetComponentLogBuffer(t, c, buffer)
      PROVE  OutputInv'
  BY <1>5, SetBufferInStep
<1>6. CASE UNCHANGED vars
  BY <1>6, StutterInStep
<1> QED
  BY <1>1, <1>2, <1>3, <1>4, <1>5, <1>6 DEF Next, Comps

\* What the parts of the module say of each other holds in every state: the
\* calls of each thread, the names in the contexts, the tables half changed or
\* whole, and what SetDefaultLogging has still to visit.
THEOREM OutputInvariant == Spec => []OutputInv
<1>1. Init => OutputInv
  BY InitOutputInv
<1>2. OutputInv /\ [Next]_vars => OutputInv'
  BY StepKeepsOutputInv
<1> QED
  BY <1>1, <1>2, PTL DEF Spec

\* What is beyond one, within two, is two.
LEMMA SecondIs ==
    ASSUME NEW n \in Nat, n <= 2, NEW i \in 1..n, i > 1
    PROVE  n = 2 /\ i = 2
OBVIOUS

\* The invariant implies the types.
LEMMA TypesFollow == OutputInv => TypeOK
<1> SUFFICES ASSUME OutputInv PROVE TypeOK
  OBVIOUS
<1>1. ValuesTyped
  BY DEF OutputInv
<1>2. ASSUME NEW t \in Threads, NEW i \in 1..Len(stack[t])
      PROVE  /\ stack[t][i].pc \in {"type", "once", "init", "specific",
                                    "emit", "copy"}
             /\ stack[t][i].c \in ToSet(Components)
             /\ i > 1 => stack[t][i].pc = "emit"
  <2>1. StackInStep(t) /\ stack[t] \in Seq(Frames) /\ Len(stack[t]) \in Nat
    BY OutputTyped
  <2>2. stack[t][i] \in Frames
    BY <2>1, ElementOfSeq
  <2>3. i > 1 => stack[t][i].pc = "emit"
    <3>1. Len(stack[t]) \in Nat /\ Len(stack[t]) <= 2
      BY <2>1 DEF StackInStep
    <3>2. i > 1 => Len(stack[t]) = 2 /\ i = 2
      BY <3>1, SecondIs
    <3> QED
      BY <2>1, <3>2 DEF StackInStep
  <2> QED
    BY <2>2, <2>3 DEF Frames, FramePcs, Comps
<1>3. change.pc \in {Idle, "check", "type", "file", "report", "announce",
                    "buffer"}
  BY <1>1, ChangePcs DEF ValuesTyped
<1> QED
  BY <1>1, <1>2, <1>3 DEF TypeOK, ValuesTyped, Comps

\* Every variable has its type, and only the innermost of a thread's calls
\* runs: the others wait to be written.
THEOREM TypeCorrect == Spec => []TypeOK
BY OutputInvariant, TypesFollow, PTL

\* Logging inside logging ends: a message causes one more at most, whatever
\* fails on the way and whatever the levels of the components.
THEOREM RecursionIsBounded == Spec => []RecursionBounded
<1>1. OutputInv => RecursionBounded
  BY DEF OutputInv, StackInStep, RecursionBounded
<1> QED
  BY <1>1, OutputInvariant, PTL

\* It implies the names that messages show.
LEMMA NamesFollow == OutputInv => NamesKept
<1> SUFFICES ASSUME OutputInv, NEW t \in Threads, At(t, "emit"),
                    Head(stack[t]).type \notin {"TESTLOG", "BUFFLOG"}
             PROVE  \/ Head(stack[t]).name = named[t]
                    \/ /\ failed[t]
                       /\ Head(stack[t]).name \in {Empty, EMERGENCY}
  BY DEF NamesKept
<1>1. stack[t] # << >> /\ Head(stack[t]).pc = "emit"
  BY DEF At
<1>2. /\ Head(stack[t]) = stack[t][1]
      /\ NameShown(stack[t][1], named[t], failed[t])
  BY <1>1, HeadIs
<1> QED
  BY <1>1, <1>2 DEF NameShown, Shows

\* A message shows the name its thread gave itself last; only once an
\* allocation of the thread has failed may it show none, or the text for
\* emergencies.
THEOREM NamesCorrect == Spec => []NamesKept
BY OutputInvariant, NamesFollow, PTL

\* It implies the destinations where they end.
LEMMA DestinationsFollow == OutputInv => MessagesArrive
<1> SUFFICES ASSUME OutputInv, NEW t \in Threads, At(t, "emit"),
                    ~Head(stack[t]).torn
             PROVE  SinksOf(t) = Sinks(TypeOf(Head(stack[t]).to),
                                       Head(stack[t]).to)
  BY DEF MessagesArrive
<1>1. stack[t] # << >> /\ Head(stack[t]).pc = "emit"
  BY DEF At
<1>2. PICK message \in Frames :
         /\ message = Head(stack[t]) /\ message = stack[t][1]
         /\ CallInStep(message) /\ OnItsWay(message)
  BY <1>1, HeadIs
<1>3. /\ message.kind = "message" /\ message.pc = "emit" /\ ~message.torn
      /\ message.c \in Comps
  BY <1>1, <1>2 DEF CallInStep, Frames
<1>4. /\ message.to = chosen[message.c] /\ ~HalfChanged(message.c)
      /\ message.type = comp_log_type[message.c]
  BY <1>2, <1>3 DEF OnItsWay
<1>5. /\ message.type = TypeOf(message.to)
      /\ message.type = "FILELOG" =>
            comp_log_file[message.c] = message.to
      /\ message.type = "BUFFLOG" =>
            comp_buffer[message.c] = message.to
  BY <1>3, <1>4 DEF OutputInv, TablesInStep
<1>6. SinksOf(t) = Sinks(message.type, Place(message.type, message.c))
  BY <1>2 DEF SinksOf
<1> QED
  BY <1>2, <1>5, <1>6 DEF Sinks, Place

\* A message during which its component is not changed goes where that
\* component was last told to go, although the type and the path, or the
\* buffer, are stored, and read, one after the other.
THEOREM DestinationsCorrect == Spec => []MessagesArrive
BY OutputInvariant, DestinationsFollow, PTL

\* When SetDefaultLogging has returned, every component but COMPONENT_STDOUT
\* has the destination it was given.
THEOREM DefaultCorrect == Spec => []DefaultReachesAll
<1>1. OutputInv => DefaultReachesAll
  BY DEF OutputInv, DefaultInStep
<1> QED
  BY <1>1, OutputInvariant, PTL
=============================================================================
