----------------------------- MODULE LogFamilies -----------------------------
(***************************************************************************)
(* log_functions.c: the table of the families of errors.  One thread       *)
(* registers families (AddFamilyError takes no lock, and two registrars    *)
(* would claim one slot); meanwhile others ask for a family's name or      *)
(* write its errors.  A step is one access to the table.  A name is copied *)
(* into its slot by strcpy, in the order strcpy likes, and read there in   *)
(* order, up to the first NUL: both take a step for each of its parts.     *)
(*                                                                         *)
(* A registration is told apart by its rank: the first passes table 2 and  *)
(* a name of parts 2, and so on; 1 is the table and the name of the        *)
(* system, 0 no table (or a part that is not copied yet, a NUL).           *)
(***************************************************************************)
EXTENDS Integers, FiniteSets

CONSTANTS
    MAX_NUM_FAMILY,
    NameParts,    \* abstraction: the parts a name is copied and read in
    Readers,      \* the threads that look families up
    NumbersAdded, NumbersAsked,
    MaxAdds       \* bound: the calls of AddFamilyError

ASSUME ParametersAssumption ==
    /\ MAX_NUM_FAMILY \in Nat \ {0}
    /\ NameParts \in Nat \ {0}
    /\ -1 \in NumbersAdded /\ NumbersAdded \subseteq Int
    /\ 0 \in NumbersAsked /\ NumbersAsked \subseteq Nat
    /\ MaxAdds \in Nat

UNUSED_SLOT == -1
Slots == 0..(MAX_NUM_FAMILY - 1)
Tables == 0..(MaxAdds + 1)
Fields == {"tab_err", "name_family"}
Parts == 1..NameParts

\* A name whose first k parts are t's, followed by a NUL.
Beginning(k, t) == [p \in Parts |-> IF p <= k THEN t ELSE 0]
Whole(t) == [p \in Parts |-> t]

VARIABLES
    tab_family,  \* slot -> [num_family, tab_err, name_family]
    initialised, \* InitLogging has run
    adding,      \* the call of AddFamilyError: pc, num_family, slot i, the
                 \* parts of the name that are copied
    adds,        \* how many such calls have begun
    looking,     \* reader -> its lookup: pc, field, num_family, slot i, part,
                 \* answer (a name, or a table instead of all its parts)
    added,       \* history: the slots filled, each with its registration
    sure         \* history: reader -> what its lookup must answer, 0 if open

vars == <<tab_family, initialised, adding, adds, looking, added, sure>>

Families == [num_family : Slots \cup {UNUSED_SLOT}, tab_err : Tables,
             name_family : [Parts -> Tables]]
Adding == [pc : {"idle", "scan", "claim", "tab_err", "name"},
           num_family : NumbersAdded, i : 0..MAX_NUM_FAMILY,
           copied : SUBSET Parts]
Lookups == [pc : {"idle", "scan", "fetch", "answered"}, field : Fields,
            num_family : NumbersAsked, i : 0..MAX_NUM_FAMILY, part : Parts,
            answer : [Parts -> Tables]]

TypeOK ==
    /\ tab_family \in [Slots -> Families]
    /\ initialised \in BOOLEAN
    /\ adding \in Adding
    /\ adds \in 0..MaxAdds
    /\ looking \in [Readers -> Lookups]
    /\ added \in [Slots -> Tables]
    /\ sure \in [Readers -> Tables]

Init ==
    /\ tab_family = [i \in Slots |-> [num_family |-> 0, tab_err |-> 0,
                                      name_family |-> Whole(0)]]
    /\ initialised = FALSE
    /\ adding = [pc |-> "idle", num_family |-> -1, i |-> 0, copied |-> {}]
    /\ adds = 0
    /\ looking = [r \in Readers |->
          [pc |-> "idle", field |-> "tab_err", num_family |-> 0, i |-> 0,
           part |-> 1, answer |-> Whole(0)]]
    /\ added = [i \in Slots |-> 0]
    /\ sure = [r \in Readers |-> 0]

-----------------------------------------------------------------------------
(* Registering                                                             *)

\* It is not thread safe: nobody else is in the table.
InitLogging ==
    /\ ~initialised
    /\ adding.pc = "idle"
    /\ \A r \in Readers : looking[r].pc \in {"idle", "answered"}
    /\ initialised' = TRUE
    /\ tab_family' = [i \in Slots |->
          IF i = 0
          THEN [num_family |-> 0, tab_err |-> 1, name_family |-> Whole(1)]
          ELSE [tab_family[i] EXCEPT !.num_family = UNUSED_SLOT]]
    /\ added' = [added EXCEPT ![0] = 1]
    /\ UNCHANGED <<adding, adds, looking, sure>>

\* The numbers a family may be given; -1 leaves the choice to the function.
Accepted(n) == n >= -1 /\ n < MAX_NUM_FAMILY /\ n # 0

\* A call with a number that is refused returns -1 at once.
AddFamilyError(n) ==
    /\ adding.pc = "idle"
    /\ adds < MaxAdds
    /\ adds' = adds + 1
    /\ adding' = [pc |-> IF Accepted(n) THEN "scan" ELSE "idle",
                  num_family |-> n, i |-> 0, copied |-> {}]
    /\ UNCHANGED <<tab_family, initialised, looking, added, sure>>

\* Mutant of FindSlot: a family of the same number is replaced.
FindSlotReplaces ==
    /\ adding.pc = "scan"
    /\ adding' =
          IF adding.i = MAX_NUM_FAMILY THEN [adding EXCEPT !.pc = "idle"]
          ELSE IF tab_family[adding.i].num_family
                      \in {UNUSED_SLOT, adding.num_family}
          THEN [adding EXCEPT !.pc = "claim"]
          ELSE [adding EXCEPT !.i = @ + 1]
    /\ UNCHANGED <<tab_family, initialised, adds, looking, added, sure>>

\* The first slot that is not in use; -1 is returned when there is none.
FindSlot ==
    /\ adding.pc = "scan"
    /\ adding' =
          IF adding.i = MAX_NUM_FAMILY THEN [adding EXCEPT !.pc = "idle"]
          ELSE IF tab_family[adding.i].num_family = UNUSED_SLOT
          THEN [adding EXCEPT !.pc = "claim"]
          ELSE [adding EXCEPT !.i = @ + 1]
    /\ UNCHANGED <<tab_family, initialised, adds, looking, added, sure>>

Store(from, to, field, value) ==
    /\ adding.pc = from
    /\ tab_family' = [tab_family EXCEPT ![adding.i][field] = value]
    /\ adding' = [adding EXCEPT !.pc = to]
    /\ UNCHANGED <<initialised, adds, looking, added, sure>>

Claim ==
    Store("claim", "tab_err", "num_family",
          IF adding.num_family # -1 THEN adding.num_family ELSE adding.i)

StoreTable == Store("tab_err", "name", "tab_err", adds + 1)

\* strcpy stores one part; after the last one the number that the slot now
\* holds is returned.
StoreName(p) ==
    LET i == adding.i
        copied == adding.copied \cup {p}
        last == copied = Parts
    IN  /\ adding.pc = "name"
        /\ p \notin adding.copied
        /\ tab_family' = [tab_family EXCEPT ![i].name_family[p] = adds + 1]
        /\ adding' = [adding EXCEPT !.copied = copied,
                                    !.pc = IF last THEN "idle" ELSE "name"]
        /\ added' = IF last THEN [added EXCEPT ![i] = adds + 1] ELSE added
        /\ UNCHANGED <<initialised, adds, looking, sure>>

-----------------------------------------------------------------------------
(* Looking up                                                              *)

Move(r, new) ==
    /\ looking' = [looking EXCEPT ![r] = new]
    /\ UNCHANGED <<tab_family, initialised, adding, adds, added>>

\* The first slot whose registration is complete and has the number.
Registered(n) == {i \in Slots : added[i] # 0 /\ tab_family[i].num_family = n}
Answer(n) == IF Registered(n) = {} THEN 0
             ELSE added[CHOOSE i \in Registered(n) :
                            \A j \in Registered(n) : i <= j]

\* ReturnNameFamilyError (name_family), which returns a pointer into the slot
\* behind which its caller reads the name; MakeLogError's TrouveTabErr
\* (tab_err), with which the error is written, or nothing at all when there
\* is no table.
Ask(r, field, n) ==
    /\ looking[r].pc \in {"idle", "answered"}
    /\ Move(r, [pc |-> "scan", field |-> field, num_family |-> n, i |-> 0,
                part |-> 1, answer |-> Whole(0)])
    /\ sure' = [sure EXCEPT ![r] = Answer(n)]

\* Mutant of LookAt: the scan goes on to the last slot with the number.
LookAtLast(r) ==
    /\ looking[r].pc = "scan"
    /\ UNCHANGED sure
    /\ LET l == looking[r]
           rest == {i \in Slots : i >= l.i
                                  /\ tab_family[i].num_family = l.num_family}
       IN  Move(r, IF rest = {} THEN [l EXCEPT !.pc = "answered"]
                   ELSE [l EXCEPT !.pc = "fetch",
                            !.i = CHOOSE i \in rest : \A j \in rest : j <= i])

LookAt(r) ==
    /\ looking[r].pc = "scan"
    /\ UNCHANGED sure
    /\ LET l == looking[r]
       IN  Move(r, IF l.i = MAX_NUM_FAMILY THEN [l EXCEPT !.pc = "answered"]
                   ELSE IF tab_family[l.i].num_family = l.num_family
                   THEN [l EXCEPT !.pc = "fetch"]
                   ELSE [l EXCEPT !.i = @ + 1])

Fetch(r) ==
    /\ looking[r].pc = "fetch" /\ looking[r].field = "tab_err"
    /\ UNCHANGED sure
    /\ LET l == looking[r]
       IN  Move(r, [l EXCEPT !.pc = "answered",
                             !.answer = Whole(tab_family[l.i].tab_err)])

\* The caller reads the next part of the name, up to a NUL.
ReadName(r) ==
    /\ looking[r].pc = "fetch" /\ looking[r].field = "name_family"
    /\ UNCHANGED sure
    /\ LET l == looking[r]
           c == tab_family[l.i].name_family[l.part]
           read == [l EXCEPT !.answer = [@ EXCEPT ![l.part] = c]]
       IN  Move(r, IF c = 0 \/ l.part = NameParts
                   THEN [read EXCEPT !.pc = "answered"]
                   ELSE [read EXCEPT !.part = @ + 1])

Next ==
    \/ InitLogging
    \/ \E n \in NumbersAdded : AddFamilyError(n)
    \/ FindSlot \/ Claim \/ StoreTable \/ \E p \in Parts : StoreName(p)
    \/ \E r \in Readers :
          \/ \E field \in Fields, n \in NumbersAsked : Ask(r, field, n)
          \/ LookAt(r)
          \/ Fetch(r) \/ ReadName(r)

Spec == Init /\ [][Next]_vars

-----------------------------------------------------------------------------
(* Properties                                                              *)

\* A lookup may race a registration.  It answers with the oldest family of
\* that number, its table or the whole of its name, if one was registered
\* when it began.  If not, it answers with nothing, or from a family that got
\* the number meanwhile: with its table, or with its name as far as that is
\* copied, a beginning of it and never parts of two names.  Number -1 is the
\* mark of a free slot and is not asked for.
LookupsFindFamilies ==
    \A r \in Readers :
        LET l == looking[r]
        IN  l.pc = "answered" =>
               IF sure[r] # 0 THEN l.answer = Whole(sure[r])
               ELSE \/ l.answer = Whole(0)
                    \/ \E i \in Slots, k \in Parts :
                          /\ tab_family[i].num_family = l.num_family
                          /\ l.answer = Beginning(k, tab_family[i].tab_err)
                          /\ l.field = "tab_err" => k = NameParts

\* A number that stands for a family goes on standing for it, whatever is
\* registered later: under the same number, with a number of the function's
\* own choice, or in a table that is full.
FamiliesStay ==
    [][\A n \in NumbersAsked : Answer(n) # 0 => Answer(n)' = Answer(n)]_vars
=============================================================================
