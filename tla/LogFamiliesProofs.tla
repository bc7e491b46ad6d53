-------------------------- MODULE LogFamiliesProofs --------------------------
(***************************************************************************)
(* Proofs about LogFamilies, for a table of any size and any readers: a    *)
(* registered number goes on standing for its family, and a lookup that    *)
(* races a registration finds a family or nothing.                         *)
(***************************************************************************)
EXTENDS LogFamilies, TLAPS, FiniteSetTheorems, WellFoundedInduction

Used(i) == tab_family[i].num_family # UNUSED_SLOT

\* Until InitLogging has run no slot is free, so that none is filled.
EmptyBefore ==
    ~initialised =>
        /\ \A i \in Slots : tab_family[i].num_family = 0 /\ added[i] = 0
        /\ adding.pc \in {"idle", "scan"}

\* Slots are taken from the first on, and are not given back.
FilledInOrder == \A i, j \in Slots : j < i /\ Used(i) => Used(j)
AddedAreUsed == \A i \in Slots : added[i] # 0 => Used(i)

\* What the call of AddFamilyError under way has found out.
AddingInStep ==
    /\ adding.pc # "idle" => Accepted(adding.num_family)
    /\ adding.pc \in {"scan", "claim"} =>
          \A j \in Slots : j < adding.i => Used(j)
    /\ adding.pc = "claim" => adding.i \in Slots /\ ~Used(adding.i)
    /\ adding.pc \in {"tab_err", "name"} =>
          /\ adding.i \in Slots /\ Used(adding.i)
          /\ added[adding.i] = 0
          /\ \A j \in Slots : j > adding.i => ~Used(j)

\* A lookup reads the fields of a slot of the table.
FetchInRange ==
    \A r \in Readers : looking[r].pc = "fetch" => looking[r].i \in Slots

TableInv ==
    /\ TypeOK /\ FetchInRange
    /\ EmptyBefore /\ FilledInOrder /\ AddedAreUsed /\ AddingInStep

-----------------------------------------------------------------------------
\* A set of slots has a first one: the intervals up to its elements are well
\* founded by inclusion.
LEMMA LeastSlot ==
    ASSUME NEW S \in SUBSET Slots, S # {}
    PROVE  \E i \in S : \A j \in S : i <= j
<1> DEFINE Below == {0..i : i \in S}
<1>1. IsFiniteSet(Slots)
  BY FS_Interval, ParametersAssumption DEF Slots
<1>2. Below \subseteq FiniteSubsetsOf(Slots) /\ Below # {}
  <2>1. ASSUME NEW i \in S PROVE 0..i \in FiniteSubsetsOf(Slots)
    <3>1. i \in Nat /\ 0..i \subseteq Slots
      BY ParametersAssumption DEF Slots
    <3> QED
      BY <3>1, FS_Interval DEF FiniteSubsetsOf
  <2> QED
    BY <2>1
<1>3. PICK X \in Below :
         \A Y \in Below : <<Y, X>> \notin StrictSubsetOrdering(Slots)
  <2> HIDE DEF Below
  <2> QED
  BY <1>2, WFMin, FS_StrictSubsetOrderingWellFounded
<1>4. PICK i \in S : X = 0..i
  OBVIOUS
<1>5. ASSUME NEW j \in S, j < i PROVE FALSE
  <2>1. i \in Nat /\ j \in Nat /\ 0..i \subseteq Slots /\ 0..j \subseteq Slots
    BY ParametersAssumption DEF Slots
  <2>2. 0..j \subseteq 0..i /\ i \in 0..i /\ i \notin 0..j
    BY <2>1, <1>5
  <2>3. 0..j # 0..i
    BY <2>2
  <2>4. <<0..j, 0..i>> \in StrictSubsetOrdering(Slots)
    BY <2>1, <2>2, <2>3, ZenonT(30) DEF StrictSubsetOrdering
  <2>5. 0..j \in Below
    OBVIOUS
  <2> QED
    BY <1>3, <1>4, <2>4, <2>5
<1> QED
  BY <1>5, ParametersAssumption DEF Slots

\* The first slot of a set is the one that Answer chooses.
LEMMA LeastIsChosen ==
    ASSUME NEW S \in SUBSET Slots, NEW i \in S, \A j \in S : i <= j
    PROVE  (CHOOSE k \in S : \A j \in S : k <= j) = i
<1> DEFINE c == CHOOSE k \in S : \A j \in S : k <= j
<1>1. c \in S /\ \A j \in S : c <= j
  OBVIOUS
<1> HIDE DEF c
<1>2. c = i
  <2>1. c <= i /\ i <= c /\ i \in Int /\ c \in Int
    BY <1>1, ParametersAssumption DEF Slots
  <2> QED
    BY <2>1
<1> QED
  BY <1>2 DEF c

\* What Answer is, of the table's size and with the first registration.
LEMMA AnswerType ==
    ASSUME TypeOK, NEW n
    PROVE  Answer(n) \in Tables
<1>1. CASE Registered(n) = {}
  BY <1>1, ParametersAssumption DEF Answer, Tables
<1>2. CASE Registered(n) # {}
  <2>1. Registered(n) \in SUBSET Slots
    BY DEF Registered
  <2>2. PICK i \in Registered(n) : \A j \in Registered(n) : i <= j
    BY <1>2, <2>1, LeastSlot
  <2>3. Answer(n) = added[i]
    BY <1>2, <2>1, <2>2, LeastIsChosen DEF Answer
  <2> QED
    BY <2>1, <2>2, <2>3 DEF TypeOK
<1> QED
  BY <1>1, <1>2

-----------------------------------------------------------------------------
(* Type correctness                                                        *)

LEMMA TypeInit == Init => TypeOK
<1> SUFFICES ASSUME Init PROVE TypeOK
  OBVIOUS
<1> USE ParametersAssumption
<1>1. /\ 0 \in Tables /\ 0 \in 0..MAX_NUM_FAMILY /\ 0 \in Slots
      /\ 0 \in 0..MaxAdds /\ "tab_err" \in Fields /\ 1 \in Parts
      /\ Whole(0) \in [Parts -> Tables]
  BY DEF Tables, Slots, Fields, Parts, Whole
<1>2. tab_family \in [Slots -> Families]
  BY <1>1 DEF Init, Families
<1>3. looking \in [Readers -> Lookups]
  BY <1>1 DEF Init, Lookups
<1>4. adding \in Adding
  BY <1>1 DEF Init, Adding
<1> QED
  BY <1>1, <1>2, <1>3, <1>4 DEF Init, TypeOK

\* A part of the name is stored, and nothing else; with the last one the
\* registration is complete.
LEMMA StoreNameStep ==
    ASSUME TypeOK, adding.i \in Slots, NEW p \in Parts, StoreName(p)
    PROVE  /\ adding.pc = "name"
           /\ tab_family' \in [Slots -> Families]
           /\ \A i \in Slots :
                 /\ tab_family'[i].num_family = tab_family[i].num_family
                 /\ tab_family'[i].tab_err = tab_family[i].tab_err
                 /\ \A q \in Parts :
                       tab_family'[i].name_family[q] =
                          IF i = adding.i /\ q = p THEN adds + 1
                          ELSE tab_family[i].name_family[q]
           /\ adding' \in Adding /\ adding'.i = adding.i
           /\ adding'.num_family = adding.num_family
           /\ adding'.copied = adding.copied \cup {p}
           /\ IF adding'.copied = Parts
              THEN /\ adding'.pc = "idle"
                   /\ added' = [added EXCEPT ![adding.i] = adds + 1]
              ELSE adding'.pc = "name" /\ added' = added
           /\ UNCHANGED <<initialised, adds, looking, sure>>
<1>1. adding.pc = "name" /\ UNCHANGED <<initialised, adds, looking, sure>>
  BY DEF StoreName
<1>2. adds + 1 \in Tables
  BY ParametersAssumption DEF TypeOK, Tables
<1>3. tab_family' =
         [tab_family EXCEPT ![adding.i].name_family[p] = adds + 1]
  BY DEF StoreName
<1>4. /\ tab_family' \in [Slots -> Families]
      /\ \A i \in Slots :
            /\ tab_family'[i].num_family = tab_family[i].num_family
            /\ tab_family'[i].tab_err = tab_family[i].tab_err
            /\ \A q \in Parts :
                  tab_family'[i].name_family[q] =
                     IF i = adding.i /\ q = p THEN adds + 1
                     ELSE tab_family[i].name_family[q]
  BY <1>2, <1>3 DEF TypeOK, Families
<1>5. adding' = [adding EXCEPT !.copied = adding.copied \cup {p},
                    !.pc = IF adding.copied \cup {p} = Parts THEN "idle"
                           ELSE "name"]
  BY DEF StoreName
<1>6. /\ adding' \in Adding /\ adding'.i = adding.i
      /\ adding'.num_family = adding.num_family
      /\ adding'.copied = adding.copied \cup {p}
      /\ adding'.pc = IF adding'.copied = Parts THEN "idle" ELSE "name"
  BY <1>5 DEF TypeOK, Adding
<1>7. IF adding'.copied = Parts
      THEN added' = [added EXCEPT ![adding.i] = adds + 1]
      ELSE added' = added
  BY <1>6 DEF StoreName
<1> QED
  BY <1>1, <1>4, <1>6, <1>7

\* Each step leaves the variables within their types, provided that the call
\* of AddFamilyError is in step.
LEMMA TypeStep == TableInv /\ [Next]_vars => TypeOK'
<1> SUFFICES ASSUME TypeOK, AddingInStep, FetchInRange, [Next]_vars
             PROVE  TypeOK'
  BY DEF TableInv
<1> USE ParametersAssumption
<1>0. /\ 0 \in Tables /\ 1 \in Tables /\ 0 \in 0..MAX_NUM_FAMILY
      /\ 0 \in Slots /\ UNUSED_SLOT \in Slots \cup {UNUSED_SLOT}
      /\ 1 \in Parts /\ Whole(0) \in [Parts -> Tables]
      /\ Whole(1) \in [Parts -> Tables]
  BY DEF Tables, Slots, Parts, Whole
<1>1. CASE InitLogging
  <2>1. tab_family' \in [Slots -> Families]
    BY <1>0, <1>1 DEF InitLogging, TypeOK, Families
  <2> QED
    BY <1>0, <1>1, <2>1 DEF InitLogging, TypeOK
<1>2. ASSUME NEW n \in NumbersAdded, AddFamilyError(n) PROVE TypeOK'
  <2>1. adds' \in 0..MaxAdds
    BY <1>2 DEF AddFamilyError, TypeOK
  <2>2. adding' \in Adding
    BY <1>0, <1>2 DEF AddFamilyError, Adding
  <2> QED
    BY <1>2, <2>1, <2>2 DEF AddFamilyError, TypeOK
<1>3. CASE FindSlot
  <2>1. adding' \in Adding
    BY <1>3 DEF FindSlot, TypeOK, Adding
  <2> QED
    BY <1>3, <2>1 DEF FindSlot, TypeOK
<1>5. adds + 1 \in Tables
  BY DEF TypeOK, Tables
<1>4. ASSUME NEW from, NEW to \in {"tab_err", "name"},
             NEW field \in {"num_family", "tab_err"}, NEW value,
             Store(from, to, field, value), adding.i \in Slots,
             field = "num_family" => value \in Slots,
             field = "tab_err" => value \in Tables
      PROVE  TypeOK'
  <2>1. adding' \in Adding
    BY <1>4 DEF Store, TypeOK, Adding
  <2>2. tab_family' = [tab_family EXCEPT ![adding.i][field] = value]
    BY <1>4 DEF Store
  <2>3. CASE field = "num_family"
    <3>1. tab_family' \in [Slots -> Families]
      BY <1>4, <2>2, <2>3 DEF TypeOK, Families
    <3> QED
      BY <1>4, <2>1, <3>1 DEF Store, TypeOK
  <2>4. CASE field = "tab_err"
    <3>1. tab_family' \in [Slots -> Families]
      BY <1>4, <2>2, <2>4 DEF TypeOK, Families
    <3> QED
      BY <1>4, <2>1, <3>1 DEF Store, TypeOK
  <2> QED
    BY <2>3, <2>4
<1>6. CASE Claim
  <2>1. adding.pc = "claim" /\ adding \in Adding
    BY <1>6 DEF Claim, Store, TypeOK
  <2>2. /\ adding.i \in Slots
        /\ adding.num_family # -1 => adding.num_family \in Slots
    <3>1. adding.i \in Slots /\ Accepted(adding.num_family)
      BY <2>1 DEF AddingInStep
    <3>2. adding.num_family \in Int
      BY <2>1 DEF Adding
    <3> QED
      BY <3>1, <3>2 DEF Accepted, Slots
  <2> QED
    BY <1>4, <1>6, <2>2 DEF Claim
<1>7. CASE StoreTable
  <2>1. adding.pc = "tab_err"
    BY <1>7 DEF StoreTable, Store
  <2> QED
    BY <1>4, <1>5, <1>7, <2>1 DEF StoreTable, AddingInStep
<1>12. ASSUME NEW p \in Parts, StoreName(p) PROVE TypeOK'
  <2>1. adding.i \in Slots
    BY <1>12 DEF StoreName, AddingInStep
  <2>2. added' \in [Slots -> Tables]
    BY <1>5, <1>12, <2>1, StoreNameStep DEF TypeOK
  <2> QED
    BY <1>12, <2>1, <2>2, StoreNameStep DEF TypeOK
<1>8. ASSUME NEW r \in Readers, NEW field \in Fields, NEW n \in NumbersAsked,
             Ask(r, field, n)
      PROVE  TypeOK'
  <2>1. Answer(n) \in Tables
    BY AnswerType
  <2>2. PICK new \in Lookups : Move(r, new)
    BY <1>0, <1>8 DEF Ask, Lookups
  <2> QED
    BY <1>8, <2>1, <2>2 DEF Ask, Move, TypeOK
<1>9. ASSUME NEW r \in Readers, LookAt(r) PROVE TypeOK'
  <2>1. looking[r] \in Lookups
    BY DEF TypeOK
  <2>2. looking[r].i # MAX_NUM_FAMILY => looking[r].i + 1 \in 0..MAX_NUM_FAMILY
    BY <2>1 DEF Lookups
  <2>3. PICK new \in Lookups : Move(r, new)
    BY <1>9, <2>1, <2>2 DEF LookAt, Lookups
  <2> QED
    BY <1>9, <2>3 DEF LookAt, Move, TypeOK
<1>10. ASSUME NEW r \in Readers, Fetch(r) \/ ReadName(r) PROVE TypeOK'
  <2>1. looking[r] \in Lookups /\ looking[r].i \in Slots
    BY <1>10 DEF Fetch, ReadName, FetchInRange, TypeOK
  <2>2. tab_family[looking[r].i] \in Families
    BY <2>1 DEF TypeOK
  <2>3. CASE Fetch(r)
    <3>1. Whole(tab_family[looking[r].i].tab_err) \in [Parts -> Tables]
      BY <2>2 DEF Families, Whole
    <3>2. PICK new \in Lookups : Move(r, new)
      BY <2>1, <2>3, <3>1 DEF Fetch, Lookups
    <3> QED
      BY <2>3, <3>2 DEF Fetch, Move, TypeOK
  <2>4. CASE ReadName(r)
    <3>1. looking[r].part \in Parts
      BY <2>1 DEF Lookups
    <3>2. tab_family[looking[r].i].name_family[looking[r].part] \in Tables
      BY <2>2, <3>1 DEF Families
    <3>3. looking[r].part # NameParts => looking[r].part + 1 \in Parts
      BY <3>1 DEF Parts
    <3>4. PICK new \in Lookups : Move(r, new)
      BY <2>1, <2>4, <3>2, <3>3 DEF ReadName, Lookups
    <3> QED
      BY <2>4, <3>4 DEF ReadName, Move, TypeOK
  <2> QED
    BY <1>10, <2>3, <2>4
<1>11. CASE UNCHANGED vars
  BY <1>11 DEF vars, TypeOK
<1> QED
  BY <1>1, <1>2, <1>3, <1>6, <1>7, <1>8, <1>9, <1>10, <1>11, <1>12 DEF Next

-----------------------------------------------------------------------------
(* The table in step                                                       *)

LEMMA TableInit == Init => TableInv
<1> SUFFICES ASSUME Init PROVE TableInv
  OBVIOUS
<1>1. TypeOK
  BY TypeInit
<1>2. FetchInRange
  BY DEF Init, FetchInRange
<1>3. \A i \in Slots : tab_family[i].num_family = 0 /\ added[i] = 0
  BY DEF Init
<1>4. adding.pc = "idle"
  BY DEF Init
<1>5. EmptyBefore /\ AddedAreUsed /\ AddingInStep
  BY <1>3, <1>4 DEF EmptyBefore, AddedAreUsed, AddingInStep
<1>6. FilledInOrder
  BY <1>3 DEF FilledInOrder, Used, UNUSED_SLOT
<1> QED
  BY <1>1, <1>2, <1>5, <1>6 DEF TableInv

\* A lookup that goes on to fetch has found a slot.
LEMMA FetchStep == TypeOK /\ FetchInRange /\ [Next]_vars => FetchInRange'
<1> SUFFICES ASSUME TypeOK, FetchInRange, [Next]_vars, NEW r \in Readers,
                    looking'[r].pc = "fetch"
             PROVE  looking'[r].i \in Slots
  BY DEF FetchInRange
<1>0. looking \in [Readers -> Lookups]
  BY DEF TypeOK
<1>1. CASE UNCHANGED looking
  BY <1>1 DEF FetchInRange
<1>2. ASSUME NEW q \in Readers, NEW field \in Fields, NEW n \in NumbersAsked,
             Ask(q, field, n)
      PROVE  looking'[r].i \in Slots
  BY <1>0, <1>2 DEF Ask, Move, FetchInRange
<1>3. ASSUME NEW q \in Readers, LookAt(q) PROVE looking'[r].i \in Slots
  <2>1. looking[q] \in Lookups
    BY <1>0
  <2>2. looking[q].i # MAX_NUM_FAMILY => looking[q].i \in Slots
    BY <2>1, ParametersAssumption DEF Lookups, Slots
  <2> DEFINE l == looking[q]
             new == IF l.i = MAX_NUM_FAMILY THEN [l EXCEPT !.pc = "answered"]
                    ELSE IF tab_family[l.i].num_family = l.num_family
                    THEN [l EXCEPT !.pc = "fetch"]
                    ELSE [l EXCEPT !.i = @ + 1]
  <2>3. looking' = [looking EXCEPT ![q] = new] /\ l.pc = "scan"
    BY <1>3 DEF LookAt, Move
  <2>4. new.pc = "fetch" => new.i \in Slots
    BY <2>1, <2>2, <2>3 DEF Lookups
  <2> HIDE DEF new
  <2> QED
    BY <1>0, <2>3, <2>4 DEF FetchInRange
<1>4. ASSUME NEW q \in Readers, Fetch(q) \/ ReadName(q)
      PROVE  looking'[r].i \in Slots
  <2>1. looking[q] \in Lookups /\ looking[q].i \in Slots
    BY <1>0, <1>4 DEF Fetch, ReadName, FetchInRange
  <2>2. PICK new : /\ looking' = [looking EXCEPT ![q] = new]
                   /\ new.pc = "fetch" => new.i \in Slots
    BY <1>4, <2>1 DEF Fetch, ReadName, Move, Lookups
  <2> QED
    BY <1>0, <2>2 DEF FetchInRange
<1>5. CASE \E p \in Parts : StoreName(p)
  BY <1>1, <1>5 DEF StoreName
<1> QED
  BY <1>1, <1>2, <1>3, <1>4, <1>5 DEF Next, vars, InitLogging,
     AddFamilyError, FindSlot, Claim, StoreTable, Store

\* A store into a slot that leaves the numbers as they are.
LEMMA NumbersStay ==
    ASSUME TypeOK, NEW from, NEW to, NEW field \in Fields, NEW value,
           Store(from, to, field, value)
    PROVE  \A i \in Slots :
              tab_family'[i].num_family = tab_family[i].num_family
<1>1. field # "num_family"
  BY DEF Fields
<1> QED
  BY <1>1 DEF Store, TypeOK, Families

\* The slots whose registration a step completes.
Completes(i) == /\ i = adding.i
                /\ \E p \in Parts :
                      StoreName(p) /\ adding.copied \cup {p} = Parts

LEMMA NameAt == AddingInStep /\ adding.pc = "name" => adding.i \in Slots
BY DEF AddingInStep

\* The number is stored in the free slot that was found, and in no other.
LEMMA ClaimNumber ==
    ASSUME TableInv, Claim
    PROVE  /\ adding.pc = "claim" /\ adding.i \in Slots /\ ~Used(adding.i)
           /\ added[adding.i] = 0
           /\ Used(adding.i)'
           /\ \A i \in Slots : i # adding.i => tab_family'[i] = tab_family[i]
           /\ \A j \in Slots : j < adding.i => Used(j)
<1>1. adding.pc = "claim" /\ adding.i \in Slots /\ ~Used(adding.i)
  BY DEF Claim, Store, TableInv, AddingInStep
<1>2. added[adding.i] = 0
  BY <1>1 DEF TableInv, AddedAreUsed
<1>3. Used(adding.i)'
  <2>1. /\ tab_family'[adding.i].num_family =
              IF adding.num_family # -1 THEN adding.num_family ELSE adding.i
        /\ adding'.i = adding.i
    BY <1>1 DEF Claim, Store, TableInv, TypeOK, Families, Adding
  <2>2. adding.i # -1
    BY <1>1, ParametersAssumption DEF Slots
  <2> QED
    BY <2>1, <2>2 DEF Used, UNUSED_SLOT
<1>4. \A i \in Slots : i # adding.i => tab_family'[i] = tab_family[i]
  BY <1>1 DEF Claim, Store, TableInv, TypeOK
<1>5. \A j \in Slots : j < adding.i => Used(j)
  BY <1>1 DEF TableInv, AddingInStep
<1> QED
  BY <1>1, <1>2, <1>3, <1>4, <1>5

LEMMA EmptyBeforeStep == TableInv /\ [Next]_vars => EmptyBefore'
<1> SUFFICES ASSUME TableInv, [Next]_vars, ~initialised'
             PROVE  /\ \A i \in Slots :
                          tab_family'[i].num_family = 0 /\ added'[i] = 0
                    /\ adding'.pc \in {"idle", "scan"}
  BY DEF EmptyBefore
<1>1. ~initialised
  BY DEF Next, vars, InitLogging, AddFamilyError, FindSlot, Claim, StoreTable,
     StoreName, Store, Ask, LookAt, Fetch, ReadName, Move
<1>2. /\ \A i \in Slots : tab_family[i].num_family = 0 /\ added[i] = 0
      /\ adding.pc \in {"idle", "scan"}
  BY <1>1 DEF TableInv, EmptyBefore
<1>3. /\ ~InitLogging /\ ~Claim /\ ~StoreTable
      /\ \A p \in Parts : ~StoreName(p)
  BY <1>2 DEF InitLogging, Claim, StoreTable, StoreName, Store
<1>4. UNCHANGED <<tab_family, added>>
  BY <1>3 DEF Next, vars, AddFamilyError, FindSlot, Ask, LookAt, Fetch,
     ReadName, Move
<1>5. adding'.pc \in {"idle", "scan"}
  <2>1. ASSUME NEW n \in NumbersAdded, AddFamilyError(n)
        PROVE  adding'.pc \in {"idle", "scan"}
    BY <2>1 DEF AddFamilyError
  <2>2. CASE FindSlot
    <3>1. /\ adding.i # MAX_NUM_FAMILY => adding.i \in Slots
          /\ adding \in [pc : {"idle", "scan", "claim", "tab_err", "name"},
                         num_family : NumbersAdded, i : 0..MAX_NUM_FAMILY,
                         copied : SUBSET Parts]
      BY ParametersAssumption DEF TableInv, TypeOK, Slots, Adding
    <3> QED
      BY <1>2, <2>2, <3>1 DEF FindSlot, UNUSED_SLOT
  <2>3. CASE UNCHANGED adding
    BY <1>2, <2>3
  <2> QED
    BY <1>3, <2>1, <2>2, <2>3 DEF Next, vars, Ask, LookAt, Fetch, ReadName,
       Move
<1> QED
  BY <1>2, <1>4, <1>5

\* InitLogging fills slot 0 and frees the others.
LEMMA FilledByInit ==
    ASSUME TableInv, InitLogging
    PROVE  /\ \A i \in Slots : Used(i)' <=> i = 0
           /\ \A i \in Slots : added'[i] # 0 => i = 0
<1>1. \A i \in Slots : added[i] = 0
  BY DEF InitLogging, TableInv, EmptyBefore
<1>2. \A i \in Slots : added'[i] # 0 => i = 0
  BY <1>1 DEF InitLogging, TableInv, TypeOK
<1>3. \A i \in Slots : tab_family'[i].num_family = IF i = 0 THEN 0 ELSE -1
  BY DEF InitLogging, TableInv, TypeOK, UNUSED_SLOT
<1> QED
  BY <1>2, <1>3 DEF Used, UNUSED_SLOT

\* Which steps leave every slot's number, and so what is in use, as it is.
LEMMA UsedStays ==
    ASSUME TableInv, [Next]_vars, ~InitLogging, ~Claim
    PROVE  \A i \in Slots : /\ tab_family'[i].num_family
                                   = tab_family[i].num_family
                            /\ Used(i)' <=> Used(i)
<1>1. CASE StoreTable
  BY <1>1, NumbersStay DEF StoreTable, TableInv, Fields, Used
<1>2. ASSUME NEW p \in Parts, StoreName(p)
      PROVE  \A i \in Slots : /\ tab_family'[i].num_family
                                     = tab_family[i].num_family
                              /\ Used(i)' <=> Used(i)
  <2>1. adding.i \in Slots
    BY <1>2, NameAt DEF StoreName, TableInv
  <2> QED
    BY <1>2, <2>1, StoreNameStep DEF TableInv, Used
<1>3. CASE UNCHANGED tab_family
  BY <1>3 DEF Used
<1> QED
  BY <1>1, <1>2, <1>3 DEF Next, vars, AddFamilyError, FindSlot, Ask, LookAt,
     Fetch, ReadName, Move

LEMMA FilledInOrderStep == TableInv /\ [Next]_vars => FilledInOrder'
<1> SUFFICES ASSUME TableInv, [Next]_vars,
                    NEW i \in Slots, NEW j \in Slots, j < i, Used(i)'
             PROVE  Used(j)'
  BY DEF FilledInOrder
<1>1. CASE InitLogging
  <2>1. i = 0
    BY <1>1, FilledByInit
  <2> QED
    BY <2>1, ParametersAssumption DEF Slots
<1>2. CASE Claim
  <2>1. CASE i = adding.i
    BY <1>2, <2>1, ClaimNumber DEF Used
  <2>2. CASE i # adding.i
    <3>1. Used(i)
      BY <1>2, <2>2, ClaimNumber DEF Used
    <3>2. Used(j)
      BY <3>1 DEF TableInv, FilledInOrder
    <3> QED
      BY <1>2, <3>2, ClaimNumber DEF Used
  <2> QED
    BY <2>1, <2>2
<1>3. CASE ~InitLogging /\ ~Claim
  BY <1>3, UsedStays DEF TableInv, FilledInOrder
<1> QED
  BY <1>1, <1>2, <1>3

\* A registration is completed in a slot that is in use, the last one.
LEMMA CompletesInStep ==
    ASSUME TableInv, NEW i, Completes(i)
    PROVE  /\ i \in Slots /\ Used(i) /\ added[i] = 0
           /\ \A j \in Slots : j > i => ~Used(j)
<1>1. adding.pc = "name" /\ i = adding.i
  BY DEF Completes, StoreName
<1> QED
  BY <1>1 DEF TableInv, AddingInStep

\* What was added before a step is added after it; only the last part of a
\* name adds.
LEMMA AddedStep ==
    ASSUME TableInv, [Next]_vars, ~InitLogging, NEW i \in Slots
    PROVE  added'[i] = IF Completes(i) THEN adds + 1 ELSE added[i]
<1>1. ASSUME NEW p \in Parts, StoreName(p)
      PROVE  added'[i] = IF Completes(i) THEN adds + 1 ELSE added[i]
  <2>1. adding.pc = "name" /\ adding.i \in Slots
    BY <1>1, NameAt DEF StoreName, TableInv
  <2>2. /\ adding'.copied = adding.copied \cup {p}
        /\ IF adding'.copied = Parts
           THEN added' = [added EXCEPT ![adding.i] = adds + 1]
           ELSE added' = added
    BY <1>1, <2>1, StoreNameStep DEF TableInv
  <2>3. added \in [Slots -> Tables]
    BY DEF TableInv, TypeOK
  <2>4. CASE adding'.copied = Parts
    <3>1. Completes(i) <=> i = adding.i
      BY <1>1, <2>2, <2>4 DEF Completes
    <3> QED
      BY <2>1, <2>2, <2>3, <2>4, <3>1
  <2>5. CASE adding'.copied # Parts
    <3>1. ~Completes(i)
      <4> SUFFICES ASSUME NEW q \in Parts, StoreName(q),
                          adding.copied \cup {q} = Parts
                   PROVE  FALSE
        BY DEF Completes
      <4> QED
        BY <2>1, <2>5, StoreNameStep DEF TableInv
    <3> QED
      BY <2>2, <2>5, <3>1
  <2> QED
    BY <2>4, <2>5
<1>2. CASE \A p \in Parts : ~StoreName(p)
  <2>1. UNCHANGED added
    BY <1>2 DEF Next, vars, AddFamilyError, FindSlot, Claim, StoreTable,
       Store, Ask, LookAt, Fetch, ReadName, Move
  <2> QED
    BY <1>2, <2>1 DEF Completes
<1> QED
  BY <1>1, <1>2

LEMMA AddedAreUsedStep == TableInv /\ [Next]_vars => AddedAreUsed'
<1> SUFFICES ASSUME TableInv, [Next]_vars, NEW i \in Slots, added'[i] # 0
             PROVE  Used(i)'
  BY DEF AddedAreUsed
<1>1. CASE InitLogging
  BY <1>1, FilledByInit
<1>2. CASE ~InitLogging
  <2>1. Used(i)
    <3>1. CASE Completes(i)
      BY <3>1, CompletesInStep
    <3>2. CASE ~Completes(i)
      BY <1>2, <3>2, AddedStep DEF TableInv, AddedAreUsed
    <3> QED
      BY <3>1, <3>2
  <2>2. CASE Claim
    BY <2>1, <2>2, ClaimNumber DEF Used
  <2>3. CASE ~Claim
    BY <1>2, <2>1, <2>3, UsedStays
  <2> QED
    BY <2>2, <2>3
<1> QED
  BY <1>1, <1>2

LEMMA AddingInStepStep == TableInv /\ [Next]_vars => AddingInStep'
<1> SUFFICES ASSUME TableInv, [Next]_vars PROVE AddingInStep'
  OBVIOUS
<1>0. /\ adding \in [pc : {"idle", "scan", "claim", "tab_err", "name"},
                     num_family : NumbersAdded, i : 0..MAX_NUM_FAMILY,
                     copied : SUBSET Parts]
      /\ AddingInStep
  BY DEF TableInv, TypeOK, Adding
<1>1. CASE adding'.pc = "idle"
  BY <1>1 DEF AddingInStep
<1>2. ASSUME NEW n \in NumbersAdded, AddFamilyError(n), Accepted(n)
      PROVE  AddingInStep'
  <2>1. adding'.pc = "scan" /\ adding'.num_family = n /\ adding'.i = 0
    BY <1>2 DEF AddFamilyError
  <2>2. \A j \in Slots : ~(j < 0)
    BY ParametersAssumption DEF Slots
  <2> QED
    BY <1>2, <2>1, <2>2 DEF AddingInStep, Accepted
<1>3. CASE FindSlot
  <2> USE <1>3 DEF FindSlot
  <2>1. UNCHANGED tab_family /\ adding'.num_family = adding.num_family
    BY <1>0
  <2>2. CASE adding.i = MAX_NUM_FAMILY
    BY <1>0, <1>1, <2>2
  <2>3. CASE adding.i # MAX_NUM_FAMILY /\ ~Used(adding.i)
    <3>1. adding.i \in Slots
      BY <1>0, <2>3, ParametersAssumption DEF Slots
    <3>2. adding' = [adding EXCEPT !.pc = "claim"]
      BY <2>3 DEF Used
    <3> QED
      BY <1>0, <2>1, <2>3, <3>1, <3>2 DEF AddingInStep, Accepted, Used
  <2>4. CASE adding.i # MAX_NUM_FAMILY /\ Used(adding.i)
    <3>1. adding' = [adding EXCEPT !.i = @ + 1]
      BY <2>4 DEF Used
    <3>2. adding'.pc = "scan" /\ adding'.i = adding.i + 1
      BY <1>0, <3>1
    <3>3. ASSUME NEW j \in Slots, j < adding'.i PROVE Used(j)
      <4>1. j < adding.i \/ j = adding.i
        BY <1>0, <3>2, <3>3, ParametersAssumption DEF Slots
      <4> QED
        BY <1>0, <2>4, <4>1 DEF AddingInStep
    <3> QED
      BY <1>0, <2>1, <3>2, <3>3 DEF AddingInStep, Accepted, Used
  <2> QED
    BY <2>2, <2>3, <2>4
<1>4. CASE Claim
  <2>1. adding' = [adding EXCEPT !.pc = "tab_err"] /\ UNCHANGED added
    BY <1>4 DEF Claim, Store
  <2>2. /\ adding'.pc = "tab_err" /\ adding'.i = adding.i
        /\ adding'.num_family = adding.num_family
    BY <1>0, <2>1
  <2>3. ASSUME NEW j \in Slots, j > adding.i PROVE ~Used(j)'
    <3>1. adding.i < j /\ j # adding.i
      BY <1>0, <2>3, ParametersAssumption DEF Slots
    <3>2. ~Used(j)
      BY <1>4, <3>1, ClaimNumber DEF TableInv, FilledInOrder
    <3> QED
      BY <1>4, <3>1, <3>2, ClaimNumber DEF Used
  <2>4. Accepted(adding.num_family)
    BY <1>0, <1>4, ClaimNumber DEF AddingInStep
  <2>5. adding'.i \in Slots /\ Used(adding.i)' /\ added'[adding'.i] = 0
    BY <1>4, <2>1, <2>2, ClaimNumber
  <2> QED
    BY <2>2, <2>3, <2>4, <2>5 DEF AddingInStep, Accepted, Used
<1>5. CASE StoreTable
  <2>1. adding.pc = "tab_err" /\ adding' = [adding EXCEPT !.pc = "name"]
        /\ UNCHANGED added /\ ~InitLogging /\ ~Claim
    BY <1>5 DEF StoreTable, Store, InitLogging, Claim
  <2>2. \A i \in Slots : Used(i)' <=> Used(i)
    BY <2>1, UsedStays
  <2>3. /\ adding'.pc = "name" /\ adding'.i = adding.i
        /\ adding'.num_family = adding.num_family
    BY <1>0, <2>1
  <2> QED
    BY <1>0, <2>1, <2>2, <2>3 DEF AddingInStep, Accepted, Used
<1>6. CASE UNCHANGED <<adding, tab_family, added>>
  BY <1>0, <1>6 DEF AddingInStep, Accepted, Used
<1>7. ASSUME NEW n \in NumbersAdded, AddFamilyError(n), ~Accepted(n)
      PROVE  adding'.pc = "idle"
  BY <1>7 DEF AddFamilyError
<1>8. CASE InitLogging
  BY <1>0, <1>1, <1>8 DEF InitLogging
<1>9. ASSUME NEW p \in Parts, StoreName(p) PROVE AddingInStep'
  <2>1. adding.pc = "name" /\ adding.i \in Slots
    BY <1>9, NameAt DEF StoreName, TableInv
  <2>2. /\ \A i \in Slots : Used(i)' <=> Used(i)
        /\ adding'.i = adding.i /\ adding'.num_family = adding.num_family
        /\ \/ adding'.pc = "idle"
           \/ adding'.pc = "name" /\ added' = added
    BY <1>9, <2>1, StoreNameStep DEF TableInv, Used
  <2> QED
    BY <1>0, <1>1, <2>1, <2>2 DEF AddingInStep, Accepted, Used
<1> QED
  BY <1>1, <1>2, <1>3, <1>4, <1>5, <1>6, <1>7, <1>8, <1>9
  DEF Next, vars, Ask, LookAt, Fetch, ReadName, Move

LEMMA TableStep == TableInv /\ [Next]_vars => TableInv'
<1> SUFFICES ASSUME TableInv, [Next]_vars PROVE TableInv'
  OBVIOUS
<1>1. TypeOK' /\ FetchInRange'
  BY TypeStep, FetchStep DEF TableInv
<1> QED
  BY <1>1, EmptyBeforeStep, FilledInOrderStep, AddedAreUsedStep,
     AddingInStepStep DEF TableInv

\* The table is in step in every reachable state.
LEMMA TableInvariant == Spec => []TableInv
BY TableInit, TableStep, PTL DEF Spec

-----------------------------------------------------------------------------
(* What a number stands for                                                *)

\* The first slot registered under a number stays the first one.
LEMMA FirstStays ==
    ASSUME TableInv, [Next]_vars, NEW n \in NumbersAsked,
           NEW m \in Registered(n), \A i \in Registered(n) : m <= i
    PROVE  /\ m \in Registered(n)' /\ added'[m] = added[m]
           /\ \A i \in Registered(n)' : m <= i
<1>1. m \in Slots /\ added[m] # 0 /\ tab_family[m].num_family = n /\ Used(m)
  BY DEF Registered, TableInv, AddedAreUsed
<1>2. ~InitLogging
  BY <1>1 DEF InitLogging, TableInv, EmptyBefore
<1>3. added'[m] = added[m]
  <2>1. ~Completes(m)
    BY <1>1, CompletesInStep
  <2> QED
    BY <1>1, <1>2, <2>1, AddedStep
<1>4. tab_family'[m].num_family = n
  <2>1. CASE Claim
    BY <1>1, <2>1, ClaimNumber
  <2>2. CASE ~Claim
    BY <1>1, <1>2, <2>2, UsedStays
  <2> QED
    BY <2>1, <2>2
<1>5. ASSUME NEW i \in Slots, added'[i] # 0, tab_family'[i].num_family = n
      PROVE  m <= i
  <2>1. CASE Completes(i)
    <3>1. \A j \in Slots : j > i => ~Used(j)
      BY <2>1, CompletesInStep
    <3> QED
      BY <1>1, <3>1, ParametersAssumption DEF Slots
  <2>2. CASE ~Completes(i)
    <3>1. added[i] # 0
      BY <1>2, <1>5, <2>2, AddedStep
    <3>2. tab_family[i].num_family = n
      <4>1. CASE Claim
        BY <1>5, <3>1, <4>1, ClaimNumber
      <4>2. CASE ~Claim
        BY <1>2, <1>5, <4>2, UsedStays
      <4> QED
        BY <4>1, <4>2
    <3> QED
      BY <3>1, <3>2 DEF Registered
  <2> QED
    BY <2>1, <2>2
<1> QED
  BY <1>1, <1>3, <1>4, <1>5 DEF Registered

\* In a step, a number that stands for a family keeps it.
LEMMA AnswerStays ==
    ASSUME TableInv, [Next]_vars, NEW n \in NumbersAsked, Answer(n) # 0
    PROVE  Answer(n)' = Answer(n)
<1>1. Registered(n) # {} /\ Registered(n) \in SUBSET Slots
  BY DEF Answer, Registered
<1>2. PICK m \in Registered(n) : \A i \in Registered(n) : m <= i
  BY <1>1, LeastSlot
<1>3. /\ m \in Registered(n)' /\ added'[m] = added[m]
      /\ \A i \in Registered(n)' : m <= i
  BY <1>2, FirstStays
<1>4. Answer(n) = added[m]
  BY <1>1, <1>2, LeastIsChosen DEF Answer
<1>5. Answer(n)' = added'[m]
  <2>1. Registered(n)' \in SUBSET Slots
    BY DEF Registered
  <2>2. (CHOOSE i \in Registered(n)' : \A j \in Registered(n)' : i <= j) = m
    <3> DEFINE S == Registered(n)'
    <3>1. S \in SUBSET Slots /\ m \in S /\ \A i \in S : m <= i
      BY <1>3, <2>1
    <3> HIDE DEF S
    <3>2. (CHOOSE i \in S : \A j \in S : i <= j) = m
      BY <3>1, LeastIsChosen
    <3> QED
      BY <3>2 DEF S
  <2> QED
    BY <1>3, <2>2 DEF Answer
<1> QED
  BY <1>3, <1>4, <1>5

\* A number that stands for a family goes on standing for it (AddFamilyError
\* with any numbers, in a table of any size, full or not).
THEOREM FamiliesCorrect == Spec => FamiliesStay
<1>1. TableInv /\ [Next]_vars =>
         [\A n \in NumbersAsked : Answer(n) # 0 => Answer(n)' = Answer(n)]_vars
  BY AnswerStays
<1> QED
  BY <1>1, TableInvariant, PTL DEF Spec, FamiliesStay

\* Type correctness, with no bound on the table, the readers or the calls.
THEOREM TypeCorrect == Spec => []TypeOK
<1>1. TableInv => TypeOK
  BY DEF TableInv
<1> QED
  BY <1>1, TableInvariant, PTL

-----------------------------------------------------------------------------
(* What a lookup finds                                                     *)

\* Once InitLogging has run, a slot that is in use is registered, but for
\* the one that is being filled.
FilledAreAdded ==
    initialised =>
        \A i \in Slots : Used(i) /\ added[i] = 0 =>
            adding.pc \in {"tab_err", "name"} /\ i = adding.i

\* A slot holds its registration, its table and some parts of its name while
\* they are stored, or nothing.
Stored(i) ==
    IF added[i] # 0
    THEN /\ tab_family[i].tab_err = added[i]
         /\ \A p \in Parts : tab_family[i].name_family[p] = added[i]
    ELSE IF adding.pc = "name" /\ i = adding.i
    THEN /\ tab_family[i].tab_err = adds + 1
         /\ \A p \in Parts : tab_family[i].name_family[p] =
                                IF p \in adding.copied THEN adds + 1 ELSE 0
    ELSE /\ tab_family[i].tab_err = 0
         /\ \A p \in Parts : tab_family[i].name_family[p] = 0

FieldsInStep ==
    /\ \A i \in Slots : Stored(i)
    /\ adding.pc \in {"scan", "claim", "tab_err"} => adding.copied = {}

\* Slot m is the first with the number n, and its registration is complete.
First(n, m) ==
    /\ m \in Slots /\ added[m] # 0 /\ tab_family[m].num_family = n
    /\ \A i \in Slots : tab_family[i].num_family = n => m <= i

\* A lookup that must answer s has not passed the slot that holds it; a
\* lookup that goes on to fetch is at it, or at a slot with its number.
Ahead(n, i, s) ==
    s # 0 => \E m \in Slots : First(n, m) /\ added[m] = s /\ i <= m
Found(n, i, s) ==
    /\ tab_family[i].num_family = n
    /\ s # 0 => First(n, i) /\ added[i] = s

\* What lookup l has of slot i: the parts of the name that it has read.
HasRead(l, i) ==
    /\ l.part > 1 => l.field = "name_family" /\ tab_family[i].tab_err # 0
    /\ \A p \in Parts :
          l.answer[p] = IF p < l.part THEN tab_family[i].tab_err ELSE 0

LookingInStep ==
    \A r \in Readers :
        LET l == looking[r]
        IN  /\ l.pc = "scan" => /\ l.part = 1 /\ l.answer = Whole(0)
                                /\ Ahead(l.num_family, l.i, sure[r])
            /\ l.pc = "fetch" => /\ HasRead(l, l.i)
                                 /\ Found(l.num_family, l.i, sure[r])

LookupInv ==
    /\ TableInv /\ FilledAreAdded /\ FieldsInStep
    /\ LookingInStep /\ LookupsFindFamilies

LEMMA FilledAreAddedStep ==
    TableInv /\ FilledAreAdded /\ [Next]_vars => FilledAreAdded'
<1> SUFFICES ASSUME TableInv, FilledAreAdded, [Next]_vars, initialised',
                    NEW i \in Slots, Used(i)', added'[i] = 0
             PROVE  adding'.pc \in {"tab_err", "name"} /\ i = adding'.i
  BY DEF FilledAreAdded
<1>0. adding \in [pc : {"idle", "scan", "claim", "tab_err", "name"},
                  num_family : NumbersAdded, i : 0..MAX_NUM_FAMILY,
                  copied : SUBSET Parts]
  BY DEF TableInv, TypeOK, Adding
<1>1. ~InitLogging
  <2>1. InitLogging => i = 0 /\ added'[0] = 1
    BY FilledByInit, ParametersAssumption
    DEF InitLogging, TableInv, TypeOK, Slots
  <2> QED
    BY <2>1
<1>2. initialised
  BY <1>1 DEF Next, vars, AddFamilyError, FindSlot, Claim, StoreTable,
     StoreName, Store, Ask, LookAt, Fetch, ReadName, Move
<1>3. CASE Claim
  <2>1. i = adding.i
    <3>1. added[i] = 0 /\ adding.pc = "claim"
      BY <1>3 DEF Claim, Store
    <3>2. i # adding.i => Used(i)
      BY <1>3, ClaimNumber DEF Used
    <3> QED
      BY <1>2, <3>1, <3>2 DEF FilledAreAdded
  <2> QED
    BY <1>0, <1>3, <2>1 DEF Claim, Store
<1>4. CASE ~Claim
  <2>1. Used(i)
    BY <1>1, <1>4, UsedStays
  <2>2. added[i] = 0 /\ ~Completes(i)
    <3>1. adds + 1 # 0
      BY ParametersAssumption DEF TableInv, TypeOK
    <3> QED
      BY <1>1, <3>1, AddedStep
  <2>3. adding.pc \in {"tab_err", "name"} /\ i = adding.i
    BY <1>2, <2>1, <2>2 DEF FilledAreAdded
  <2>4. StoreTable => adding'.pc = "name" /\ adding'.i = adding.i
    BY <1>0 DEF StoreTable, Store
  <2>5. ASSUME NEW p \in Parts, StoreName(p)
        PROVE  adding'.pc = "name" /\ adding'.i = adding.i
    <3>1. adding.pc = "name" /\ adding.i \in Slots
      BY <2>5, NameAt DEF StoreName, TableInv
    <3>2. adding'.copied # Parts
      BY <2>2, <2>3, <2>5, <3>1, StoreNameStep DEF Completes, TableInv
    <3> QED
      BY <2>5, <3>1, <3>2, StoreNameStep DEF TableInv
  <2> QED
    BY <1>1, <1>4, <2>2, <2>3, <2>4, <2>5 DEF Next, vars, AddFamilyError,
       FindSlot, Ask, LookAt, Fetch, ReadName, Move
<1> QED
  BY <1>3, <1>4

LEMMA FieldsStep == TableInv /\ FieldsInStep /\ [Next]_vars => FieldsInStep'
<1> SUFFICES ASSUME TableInv, FieldsInStep, [Next]_vars
             PROVE  FieldsInStep'
  OBVIOUS
<1>0. /\ adding \in [pc : {"idle", "scan", "claim", "tab_err", "name"},
                     num_family : NumbersAdded, i : 0..MAX_NUM_FAMILY,
                     copied : SUBSET Parts]
      /\ tab_family \in [Slots -> [num_family : Slots \cup {UNUSED_SLOT},
                                   tab_err : Tables,
                                   name_family : [Parts -> Tables]]]
      /\ added \in [Slots -> Tables] /\ adds \in Nat
  BY ParametersAssumption DEF TableInv, TypeOK, Adding, Families
<1>1. CASE InitLogging
  <2>1. ASSUME NEW i \in Slots PROVE Stored(i)'
    <3>1. added[i] = 0 /\ adding.pc = "idle" /\ adding' = adding
      BY <1>1 DEF InitLogging, TableInv, EmptyBefore
    <3>2. /\ tab_family[i].tab_err = 0
          /\ \A p \in Parts : tab_family[i].name_family[p] = 0
      BY <3>1 DEF FieldsInStep, Stored
    <3>3. CASE i = 0
      <4>1. /\ added'[i] = 1 /\ tab_family'[i].tab_err = 1
            /\ tab_family'[i].name_family = Whole(1)
        BY <1>0, <1>1, <3>3 DEF InitLogging
      <4> QED
        BY <4>1 DEF Stored, Whole
    <3>4. CASE i # 0
      <4>1. /\ added'[i] = 0 /\ tab_family'[i].tab_err = 0
            /\ tab_family'[i].name_family = tab_family[i].name_family
        BY <1>0, <1>1, <3>1, <3>2, <3>4 DEF InitLogging
      <4> QED
        BY <3>1, <3>2, <4>1 DEF Stored
    <3> QED
      BY <3>3, <3>4
  <2>2. adding' = adding
    BY <1>1 DEF InitLogging
  <2> QED
    BY <2>1, <2>2 DEF FieldsInStep
<1>2. CASE StoreTable
  <2>1. adding.i \in Slots /\ added[adding.i] = 0 /\ adding.pc = "tab_err"
    BY <1>2 DEF StoreTable, Store, TableInv, AddingInStep
  <2>2. /\ adding'.pc = "name" /\ adding'.i = adding.i
        /\ adding'.copied = adding.copied /\ adding.copied = {}
    BY <1>0, <1>2, <2>1 DEF StoreTable, Store, FieldsInStep
  <2>3. adds' = adds /\ added' = added
    BY <1>2 DEF StoreTable, Store
  <2>4. \A i \in Slots :
           /\ tab_family'[i].tab_err = IF i = adding.i THEN adds + 1
                                       ELSE tab_family[i].tab_err
           /\ tab_family'[i].name_family = tab_family[i].name_family
    BY <1>0, <1>2, <2>1 DEF StoreTable, Store
  <2>5. ASSUME NEW i \in Slots PROVE Stored(i)'
    BY <2>1, <2>2, <2>3, <2>4 DEF FieldsInStep, Stored
  <2> QED
    BY <2>2, <2>5 DEF FieldsInStep
<1>3. ASSUME NEW q \in Parts, StoreName(q) PROVE FieldsInStep'
  <2>1. adding.i \in Slots /\ added[adding.i] = 0 /\ adding.pc = "name"
    BY <1>3 DEF StoreName, TableInv, AddingInStep
  <2>2. /\ \A i \in Slots :
              /\ tab_family'[i].tab_err = tab_family[i].tab_err
              /\ \A p \in Parts :
                    tab_family'[i].name_family[p] =
                       IF i = adding.i /\ p = q THEN adds + 1
                       ELSE tab_family[i].name_family[p]
        /\ adding'.i = adding.i
        /\ adding'.copied = adding.copied \cup {q}
        /\ IF adding'.copied = Parts
           THEN /\ adding'.pc = "idle"
                /\ added' = [added EXCEPT ![adding.i] = adds + 1]
           ELSE adding'.pc = "name" /\ added' = added
        /\ adds' = adds
    BY <1>3, <2>1, StoreNameStep DEF TableInv
  <2>3. ASSUME NEW i \in Slots PROVE Stored(i)'
    <3>1. CASE i # adding.i
      <4>1. added'[i] = added[i]
        BY <1>0, <2>2, <3>1
      <4> QED
        BY <2>1, <2>2, <3>1, <4>1 DEF FieldsInStep, Stored
    <3>2. CASE i = adding.i
      <4>1. /\ tab_family'[i].tab_err = adds + 1
            /\ \A p \in Parts :
                  tab_family'[i].name_family[p] =
                     IF p \in adding'.copied THEN adds + 1 ELSE 0
        BY <2>1, <2>2, <3>2 DEF FieldsInStep, Stored
      <4>2. CASE adding'.copied = Parts
        <5>1. added'[i] = adds + 1 /\ adds + 1 # 0
          BY <1>0, <2>1, <2>2, <3>2, <4>2
        <5> QED
          BY <4>1, <4>2, <5>1 DEF Stored
      <4>3. CASE adding'.copied # Parts
        <5>1. added'[i] = 0 /\ adding'.pc = "name" /\ i = adding'.i
          BY <2>1, <2>2, <3>2, <4>3
        <5> QED
          BY <2>2, <4>1, <5>1 DEF Stored
      <4> QED
        BY <4>2, <4>3
    <3> QED
      BY <3>1, <3>2
  <2> QED
    BY <2>2, <2>3 DEF FieldsInStep
<1>4. ASSUME UNCHANGED added, adding.pc # "name", adding'.pc # "name",
             \A i \in Slots :
                /\ tab_family'[i].tab_err = tab_family[i].tab_err
                /\ tab_family'[i].name_family = tab_family[i].name_family,
             adding'.pc \in {"scan", "claim", "tab_err"} =>
                adding'.copied = {}
      PROVE  FieldsInStep'
  BY <1>4 DEF FieldsInStep, Stored
<1>5. CASE Claim
  <2>1. /\ adding.pc = "claim" /\ adding'.pc = "tab_err"
        /\ adding'.copied = adding.copied /\ UNCHANGED added
    BY <1>0, <1>5 DEF Claim, Store
  <2>2. \A i \in Slots :
           /\ tab_family'[i].tab_err = tab_family[i].tab_err
           /\ tab_family'[i].name_family = tab_family[i].name_family
    BY <1>0, <1>5 DEF Claim, Store
  <2> QED
    BY <1>4, <2>1, <2>2 DEF FieldsInStep
<1>6. ASSUME NEW n \in NumbersAdded, AddFamilyError(n)
      PROVE  /\ UNCHANGED <<tab_family, added>>
             /\ adding.pc # "name" /\ adding'.pc # "name"
             /\ adding'.copied = {}
  BY <1>6 DEF AddFamilyError
<1>7. CASE FindSlot
  <2>1. UNCHANGED <<tab_family, added>> /\ adding.pc = "scan"
    BY <1>7 DEF FindSlot
  <2>2. adding'.pc # "name" /\ adding'.copied = {}
    BY <1>0, <1>7, <2>1 DEF FindSlot, FieldsInStep
  <2> QED
    BY <1>4, <2>1, <2>2
<1>8. CASE UNCHANGED <<tab_family, added, adding, adds>>
  BY <1>8 DEF FieldsInStep, Stored
<1> QED
  BY <1>1, <1>2, <1>3, <1>4, <1>5, <1>6, <1>7, <1>8
  DEF Next, vars, Ask, LookAt, Fetch, ReadName, Move

\* What a slot's name is made of.
LEMMA PartsOfName ==
    ASSUME FieldsInStep, NEW i \in Slots, NEW p \in Parts
    PROVE  /\ tab_family[i].name_family[p] \in {0, tab_family[i].tab_err}
           /\ added[i] # 0 => /\ tab_family[i].tab_err = added[i]
                              /\ tab_family[i].name_family[p] = added[i]
BY DEF FieldsInStep, Stored

\* A slot in use keeps its number.
LEMMA NumberStays ==
    ASSUME TableInv, [Next]_vars, ~InitLogging, NEW i \in Slots, Used(i)
    PROVE  tab_family'[i].num_family = tab_family[i].num_family
<1>1. CASE Claim
  BY <1>1, ClaimNumber
<1>2. CASE ~Claim
  BY <1>2, UsedStays
<1> QED
  BY <1>1, <1>2

\* The first slot of a number stays the first: what is claimed later is
\* behind it.
LEMMA FirstKept ==
    ASSUME TableInv, [Next]_vars, NEW n \in NumbersAsked, NEW m, First(n, m)
    PROVE  First(n, m)' /\ added'[m] = added[m]
<1>1. m \in Slots /\ added[m] # 0 /\ tab_family[m].num_family = n /\ Used(m)
  BY DEF First, TableInv, AddedAreUsed
<1>2. ~InitLogging
  BY <1>1 DEF InitLogging, TableInv, EmptyBefore
<1>3. added'[m] = added[m]
  <2>1. ~Completes(m)
    BY <1>1, CompletesInStep
  <2> QED
    BY <1>1, <1>2, <2>1, AddedStep
<1>4. tab_family'[m].num_family = n
  BY <1>1, <1>2, NumberStays
<1>5. ASSUME NEW i \in Slots, tab_family'[i].num_family = n PROVE m <= i
  <2>1. CASE Used(i)
    BY <1>2, <1>5, <2>1, NumberStays DEF First
  <2>2. CASE ~Used(i)
    <3>1. ~(i < m)
      BY <1>1, <2>2 DEF TableInv, FilledInOrder
    <3> QED
      BY <1>1, <3>1, ParametersAssumption DEF Slots
  <2> QED
    BY <2>1, <2>2
<1> QED
  BY <1>1, <1>3, <1>4, <1>5 DEF First

\* A number that stands for a family has a first slot, which is registered.
LEMMA FirstRegistered ==
    ASSUME TableInv, FilledAreAdded, NEW n \in NumbersAsked, Answer(n) # 0
    PROVE  \E m \in Slots : First(n, m) /\ added[m] = Answer(n)
<1>1. Registered(n) # {} /\ Registered(n) \in SUBSET Slots
  BY DEF Answer, Registered
<1>2. PICK m \in Registered(n) : \A i \in Registered(n) : m <= i
  BY <1>1, LeastSlot
<1>3. Answer(n) = added[m]
  BY <1>1, <1>2, LeastIsChosen DEF Answer
<1>4. m \in Slots /\ added[m] # 0 /\ tab_family[m].num_family = n
  BY DEF Registered
<1>5. initialised /\ Used(m)
  BY <1>4 DEF TableInv, EmptyBefore, AddedAreUsed
<1>6. ASSUME NEW i \in Slots, tab_family[i].num_family = n PROVE m <= i
  <2>1. CASE added[i] # 0
    BY <1>2, <1>6, <2>1 DEF Registered
  <2>2. CASE added[i] = 0
    <3>1. Used(i)
      BY <1>6, ParametersAssumption DEF Used, UNUSED_SLOT
    <3>2. adding.pc \in {"tab_err", "name"} /\ i = adding.i
      BY <1>5, <2>2, <3>1 DEF FilledAreAdded
    <3>3. ~(m > i)
      BY <1>4, <1>5, <3>2 DEF TableInv, AddingInStep
    <3> QED
      BY <1>4, <3>3, ParametersAssumption DEF Slots
  <2> QED
    BY <2>1, <2>2
<1> QED
  BY <1>3, <1>4, <1>6 DEF First

LEMMA AheadKept ==
    ASSUME TableInv, [Next]_vars, NEW n \in NumbersAsked, NEW i, NEW s,
           Ahead(n, i, s)
    PROVE  Ahead(n, i, s)'
<1> SUFFICES ASSUME s # 0
             PROVE  \E m \in Slots : First(n, m)' /\ added'[m] = s /\ i <= m
  BY DEF Ahead
<1>1. PICK m \in Slots : First(n, m) /\ added[m] = s /\ i <= m
  BY DEF Ahead
<1>2. First(n, m)' /\ added'[m] = added[m]
  BY <1>1, FirstKept
<1> QED
  BY <1>1, <1>2

LEMMA FoundKept ==
    ASSUME TableInv, [Next]_vars, ~InitLogging, NEW n \in NumbersAsked,
           NEW i \in Slots, NEW s, Found(n, i, s)
    PROVE  Found(n, i, s)'
<1>1. Used(i)
  BY ParametersAssumption DEF Found, Used, UNUSED_SLOT
<1>2. tab_family'[i].num_family = n
  BY <1>1, NumberStays DEF Found
<1>3. ASSUME s # 0 PROVE First(n, i)' /\ added'[i] = s
  BY <1>3, FirstKept DEF Found
<1> QED
  BY <1>2, <1>3 DEF Found

\* A table that is stored in a slot with a number stays there.
LEMMA TableStays ==
    ASSUME TableInv, FieldsInStep, [Next]_vars, NEW i \in Slots,
           NEW n \in NumbersAsked, tab_family[i].num_family = n,
           tab_family[i].tab_err # 0
    PROVE  /\ tab_family'[i].num_family = n
           /\ tab_family'[i].tab_err = tab_family[i].tab_err
<1>0. /\ tab_family \in [Slots -> [num_family : Slots \cup {UNUSED_SLOT},
                                   tab_err : Tables,
                                   name_family : [Parts -> Tables]]]
  BY DEF TableInv, TypeOK, Families
<1>1. Used(i)
  BY ParametersAssumption DEF Used, UNUSED_SLOT
<1>2. ~InitLogging
  <2>1. ASSUME InitLogging PROVE FALSE
    <3>1. added[i] = 0 /\ adding.pc = "idle"
      BY <2>1 DEF InitLogging, TableInv, EmptyBefore
    <3> QED
      BY <3>1 DEF FieldsInStep, Stored
  <2> QED
    BY <2>1
<1>3. tab_family'[i].num_family = n
  BY <1>1, <1>2, NumberStays
<1>4. CASE StoreTable
  <2>1. adding.i \in Slots /\ added[adding.i] = 0 /\ adding.pc = "tab_err"
    BY <1>4 DEF StoreTable, Store, TableInv, AddingInStep
  <2>2. tab_family[adding.i].tab_err = 0
    BY <2>1 DEF FieldsInStep, Stored
  <2> QED
    BY <1>0, <1>3, <1>4, <2>2 DEF StoreTable, Store
<1>5. ASSUME NEW p \in Parts, StoreName(p)
      PROVE  tab_family'[i].tab_err = tab_family[i].tab_err
  <2>1. adding.i \in Slots
    BY <1>5 DEF StoreName, TableInv, AddingInStep
  <2> QED
    BY <1>5, <2>1, StoreNameStep DEF TableInv
<1>6. CASE Claim
  BY <1>1, <1>3, <1>6, ClaimNumber
<1>7. CASE UNCHANGED tab_family
  BY <1>3, <1>7
<1> QED
  BY <1>2, <1>3, <1>4, <1>5, <1>6, <1>7 DEF Next, vars, AddFamilyError,
     FindSlot, Ask, LookAt, Fetch, ReadName, Move

\* So a lookup goes on having what it has read.
LEMMA HasReadKept ==
    ASSUME TableInv, FieldsInStep, [Next]_vars, NEW l, NEW i \in Slots,
           l.num_family \in NumbersAsked, l.part \in Parts,
           tab_family[i].num_family = l.num_family, HasRead(l, i)
    PROVE  HasRead(l, i)'
<1>1. CASE l.part > 1
  <2>1. tab_family'[i].tab_err = tab_family[i].tab_err
    BY <1>1, TableStays DEF HasRead
  <2> QED
    BY <2>1 DEF HasRead
<1>2. CASE l.part = 1
  BY <1>2 DEF HasRead, Parts
<1> QED
  BY <1>1, <1>2, ParametersAssumption DEF Parts

\* Lookup l, which found nothing when it began, answers from slot i.
Answers(l, i, k) ==
    /\ tab_family[i].num_family = l.num_family
    /\ l.answer = Beginning(k, tab_family[i].tab_err)
    /\ l.field = "tab_err" => k = NameParts

LEMMA LookingStep ==
    ASSUME TableInv, FilledAreAdded, FieldsInStep, LookingInStep, [Next]_vars
    PROVE  LookingInStep'
<1> SUFFICES ASSUME NEW r \in Readers, NEW l, l = looking'[r],
                    NEW s, s = sure'[r]
             PROVE  /\ l.pc = "scan" => /\ l.part = 1 /\ l.answer = Whole(0)
                                        /\ Ahead(l.num_family, l.i, s)'
                    /\ l.pc = "fetch" => /\ HasRead(l, l.i)'
                                         /\ Found(l.num_family, l.i, s)'
  BY DEF LookingInStep, HasRead, Ahead, Found, First
<1>0. /\ looking \in [Readers -> Lookups]
      /\ looking[r] \in Lookups
      /\ looking[r].pc = "scan" =>
            /\ looking[r].part = 1 /\ looking[r].answer = Whole(0)
            /\ Ahead(looking[r].num_family, looking[r].i, sure[r])
      /\ looking[r].pc = "fetch" =>
            /\ HasRead(looking[r], looking[r].i)
            /\ Found(looking[r].num_family, looking[r].i, sure[r])
            /\ looking[r].i \in Slots
      /\ sure \in [Readers -> Tables]
  BY DEF TableInv, TypeOK, LookingInStep, FetchInRange
<1>1. CASE looking'[r] = looking[r] /\ sure'[r] = sure[r]
  <2>1. /\ l \in Lookups /\ l.num_family \in NumbersAsked
        /\ l = looking[r] /\ s = sure[r]
    BY <1>0, <1>1 DEF Lookups
  <2>2. l.pc = "scan" => Ahead(l.num_family, l.i, s)'
    BY <1>0, <2>1, AheadKept
  <2>3. ASSUME l.pc = "fetch"
        PROVE  HasRead(l, l.i)' /\ Found(l.num_family, l.i, s)'
    <3>1. ~InitLogging
      BY <2>1, <2>3 DEF InitLogging
    <3>2. Found(l.num_family, l.i, s) /\ HasRead(l, l.i) /\ l.i \in Slots
      BY <1>0, <2>1, <2>3
    <3>3. l.part \in Parts
      BY <2>1 DEF Lookups
    <3>4. HasRead(l, l.i)'
      BY <2>1, <3>2, <3>3, HasReadKept DEF Found
    <3> QED
      BY <2>1, <3>1, <3>2, <3>4, FoundKept
  <2> QED
    BY <1>0, <2>1, <2>2, <2>3
<1>2. ASSUME NEW field \in Fields, NEW n \in NumbersAsked, Ask(r, field, n)
      PROVE  /\ l.pc = "scan" /\ l.part = 1 /\ l.answer = Whole(0)
             /\ Ahead(l.num_family, l.i, s)'
  <2>1. /\ l = [pc |-> "scan", field |-> field, num_family |-> n, i |-> 0,
                part |-> 1, answer |-> Whole(0)]
        /\ s = Answer(n)
        /\ UNCHANGED <<tab_family, added>>
    BY <1>0, <1>2 DEF Ask, Move
  <2>2. s # 0 => \E m \in Slots : First(n, m) /\ added[m] = s /\ 0 <= m
    BY <2>1, FirstRegistered, ParametersAssumption DEF Slots
  <2> QED
    BY <2>1, <2>2 DEF Ahead, First
<1>3. ASSUME LookAt(r)
      PROVE  /\ l.pc = "scan" => /\ l.part = 1 /\ l.answer = Whole(0)
                                 /\ Ahead(l.num_family, l.i, s)'
             /\ l.pc = "fetch" => /\ HasRead(l, l.i)'
                                  /\ Found(l.num_family, l.i, s)'
  <2> DEFINE k == looking[r]
  <2>1. /\ k.pc = "scan" /\ k.part = 1 /\ k.answer = Whole(0)
        /\ Ahead(k.num_family, k.i, s)
        /\ s = sure[r] /\ UNCHANGED <<tab_family, added>>
        /\ l = IF k.i = MAX_NUM_FAMILY THEN [k EXCEPT !.pc = "answered"]
               ELSE IF tab_family[k.i].num_family = k.num_family
               THEN [k EXCEPT !.pc = "fetch"]
               ELSE [k EXCEPT !.i = @ + 1]
    BY <1>0, <1>3 DEF LookAt, Move
  <2>2. k \in Lookups /\ k.i \in 0..MAX_NUM_FAMILY
    BY <1>0 DEF Lookups
  <2> HIDE DEF k
  <2>3. CASE k.i = MAX_NUM_FAMILY
    BY <2>1, <2>2, <2>3 DEF Lookups
  <2>4. CASE k.i # MAX_NUM_FAMILY
             /\ tab_family[k.i].num_family = k.num_family
    <3>1. /\ l.pc = "fetch" /\ l.num_family = k.num_family /\ l.i = k.i
          /\ l.part = 1 /\ l.answer = Whole(0)
      BY <2>1, <2>2, <2>4 DEF Lookups
    <3>2. k.i \in Slots
      BY <2>1, <2>2, <2>4, ParametersAssumption DEF Slots
    <3>3. ASSUME s # 0 PROVE First(k.num_family, k.i) /\ added[k.i] = s
      <4>1. PICK m \in Slots : First(k.num_family, m) /\ added[m] = s
                               /\ k.i <= m
        BY <2>1, <3>3 DEF Ahead
      <4>2. m <= k.i
        BY <2>4, <3>2, <4>1 DEF First
      <4>3. m = k.i
        BY <2>1, <2>2, <4>1, <4>2, ParametersAssumption DEF Slots
      <4> QED
        BY <4>1, <4>3
    <3>4. Found(k.num_family, k.i, s)
      BY <2>4, <3>3 DEF Found
    <3>5. HasRead(l, l.i)'
      BY <3>1, ParametersAssumption DEF HasRead, Whole, Parts
    <3> QED
      BY <2>1, <3>1, <3>4, <3>5 DEF Found, First
  <2>5. CASE k.i # MAX_NUM_FAMILY
             /\ tab_family[k.i].num_family # k.num_family
    <3>1. /\ l.pc = "scan" /\ l.num_family = k.num_family
          /\ l.part = 1 /\ l.answer = Whole(0) /\ l.i = k.i + 1
      BY <2>1, <2>2, <2>5 DEF Lookups
    <3>2. ASSUME s # 0
          PROVE  \E m \in Slots : /\ First(k.num_family, m) /\ added[m] = s
                                  /\ k.i + 1 <= m
      <4>1. PICK m \in Slots : First(k.num_family, m) /\ added[m] = s
                               /\ k.i <= m
        BY <2>1, <3>2 DEF Ahead
      <4>2. m # k.i
        BY <2>5, <4>1 DEF First
      <4>3. k.i + 1 <= m
        BY <2>1, <2>2, <4>1, <4>2, ParametersAssumption DEF Slots
      <4> QED
        BY <4>1, <4>3
    <3> QED
      BY <2>1, <3>1, <3>2 DEF Ahead, First
  <2> QED
    BY <2>3, <2>4, <2>5
<1>4. CASE Fetch(r)
  <2>1. l.pc = "answered"
    BY <1>0, <1>4 DEF Fetch, Move, Lookups
  <2> QED
    BY <2>1
<1>7. ASSUME ReadName(r)
      PROVE  /\ l.pc = "fetch" \/ l.pc = "answered"
             /\ l.pc = "fetch" => /\ HasRead(l, l.i)'
                                  /\ Found(l.num_family, l.i, s)'
  <2>1. PICK k, c :
          /\ k \in Lookups
          /\ k = looking[r] /\ k.pc = "fetch" /\ k.field = "name_family"
          /\ k.part \in Parts /\ k.i \in Slots
          /\ c = tab_family[k.i].name_family[k.part]
          /\ HasRead(k, k.i) /\ Found(k.num_family, k.i, s)
          /\ UNCHANGED <<tab_family, added>>
          /\ l.pc = IF c = 0 \/ k.part = NameParts THEN "answered"
                    ELSE "fetch"
          /\ l.pc = "fetch" =>
                l = [k EXCEPT !.answer = [k.answer EXCEPT ![k.part] = c],
                              !.part = k.part + 1]
    BY <1>0, <1>7 DEF ReadName, Move, Lookups
  <2>2. ASSUME l.pc = "fetch"
        PROVE  HasRead(l, l.i)' /\ Found(l.num_family, l.i, s)'
    <3>1. /\ l.field = "name_family" /\ l.i = k.i /\ l.part = k.part + 1
          /\ l.num_family = k.num_family
          /\ l.answer = [k.answer EXCEPT ![k.part] = c]
          /\ k.answer \in [Parts -> Tables] /\ c # 0
      BY <2>1, <2>2 DEF Lookups
    <3>2. c = tab_family[k.i].tab_err
      BY <2>1, <3>1, PartsOfName
    <3>3. \A p \in Parts : (p < k.part + 1 <=> p < k.part \/ p = k.part)
      BY <2>1, ParametersAssumption DEF Parts
    <3>4. \A p \in Parts :
             l.answer[p] = IF p < l.part THEN tab_family[k.i].tab_err ELSE 0
      BY <2>1, <3>1, <3>2, <3>3 DEF HasRead
    <3>5. HasRead(l, l.i)'
      BY <2>1, <3>1, <3>2, <3>4 DEF HasRead
    <3> QED
      BY <2>1, <3>1, <3>5 DEF Found, First
  <2> QED
    BY <2>1, <2>2
<1>5. ASSUME NEW q \in Readers, q # r,
             \/ \E field \in Fields, n \in NumbersAsked : Ask(q, field, n)
             \/ LookAt(q) \/ Fetch(q) \/ ReadName(q)
      PROVE  looking'[r] = looking[r] /\ sure'[r] = sure[r]
  BY <1>0, <1>5 DEF Ask, LookAt, Fetch, ReadName, Move
<1>6. CASE UNCHANGED <<looking, sure>>
  BY <1>1, <1>6
<1>8. ASSUME NEW p \in Parts, StoreName(p)
      PROVE  UNCHANGED <<looking, sure>>
  BY <1>8 DEF StoreName
<1> QED
  BY <1>1, <1>2, <1>3, <1>4, <1>5, <1>6, <1>7, <1>8 DEF Next, vars,
     InitLogging, AddFamilyError, FindSlot, Claim, StoreTable, Store

LEMMA FindStep ==
    ASSUME LookupInv, [Next]_vars
    PROVE  LookupsFindFamilies'
<1> SUFFICES ASSUME NEW r \in Readers, NEW l, l = looking'[r],
                    l.pc = "answered"
             PROVE  IF sure'[r] # 0 THEN l.answer = Whole(sure'[r])
                    ELSE \/ l.answer = Whole(0)
                         \/ \E i \in Slots, k \in Parts : Answers(l, i, k)'
  BY DEF LookupsFindFamilies, Answers
<1>0. /\ looking \in [Readers -> Lookups] /\ looking[r] \in Lookups
      /\ sure \in [Readers -> Tables]
      /\ looking[r].pc = "scan" =>
            /\ looking[r].answer = Whole(0)
            /\ Ahead(looking[r].num_family, looking[r].i, sure[r])
      /\ looking[r].pc = "fetch" =>
            /\ HasRead(looking[r], looking[r].i)
            /\ Found(looking[r].num_family, looking[r].i, sure[r])
            /\ looking[r].i \in Slots
      /\ FieldsInStep
  BY DEF LookupInv, TableInv, TypeOK, LookingInStep, FetchInRange
<1>1. CASE looking'[r] = looking[r] /\ sure'[r] = sure[r]
  <2>1. IF sure[r] # 0 THEN l.answer = Whole(sure[r])
        ELSE \/ l.answer = Whole(0)
             \/ \E i \in Slots, k \in Parts : Answers(l, i, k)
    BY <1>1 DEF LookupInv, LookupsFindFamilies, Answers
  <2>2. l.num_family \in NumbersAsked
    BY <1>0, <1>1 DEF Lookups
  <2>3. ASSUME NEW i \in Slots, NEW k \in Parts, Answers(l, i, k),
               l.answer # Whole(0)
        PROVE  Answers(l, i, k)'
    <3>1. tab_family[i].tab_err # 0
      BY <2>3 DEF Answers, Beginning, Whole
    <3> QED
      BY <2>2, <2>3, <3>1, TableStays DEF LookupInv, Answers
  <2> QED
    BY <1>1, <2>1, <2>3
<1>2. CASE LookAt(r)
  <2> DEFINE k == looking[r]
  <2>1. /\ k.pc = "scan" /\ k.answer = Whole(0)
        /\ Ahead(k.num_family, k.i, sure[r])
        /\ sure' = sure
        /\ l = IF k.i = MAX_NUM_FAMILY THEN [k EXCEPT !.pc = "answered"]
               ELSE IF tab_family[k.i].num_family = k.num_family
               THEN [k EXCEPT !.pc = "fetch"]
               ELSE [k EXCEPT !.i = @ + 1]
    BY <1>0, <1>2 DEF LookAt, Move
  <2>2. k \in Lookups
    BY <1>0
  <2> HIDE DEF k
  <2>3. k.i = MAX_NUM_FAMILY /\ l.answer = Whole(0)
    BY <2>1, <2>2 DEF Lookups
  <2>4. sure[r] = 0
    <3>1. \A m \in Slots : ~(k.i <= m)
      BY <2>3, ParametersAssumption DEF Slots
    <3> QED
      BY <2>1, <3>1 DEF Ahead
  <2> QED
    BY <2>1, <2>3, <2>4
<1>3. CASE Fetch(r)
  <2>1. PICK k \in Lookups :
          /\ k = looking[r] /\ k.pc = "fetch" /\ k.field = "tab_err"
          /\ k.i \in Slots /\ Found(k.num_family, k.i, sure[r])
          /\ sure' = sure /\ tab_family' = tab_family
          /\ l.num_family = k.num_family
          /\ l.answer = Whole(tab_family[k.i].tab_err)
    BY <1>0, <1>3 DEF Fetch, Move, Lookups
  <2>2. CASE sure[r] # 0
    <3>1. added[k.i] = sure[r]
      BY <2>1, <2>2 DEF Found
    <3>2. tab_family[k.i].tab_err = sure[r]
      BY <1>0, <2>1, <2>2, <3>1 DEF FieldsInStep, Stored
    <3> QED
      BY <2>1, <2>2, <3>2
  <2>3. CASE sure[r] = 0
    <3>1. NameParts \in Parts
      BY ParametersAssumption DEF Parts
    <3>2. Whole(tab_family[k.i].tab_err)
              = Beginning(NameParts, tab_family[k.i].tab_err)
      BY ParametersAssumption DEF Whole, Beginning, Parts
    <3>3. tab_family[k.i].num_family = k.num_family
      BY <2>1 DEF Found
    <3>4. Answers(l, k.i, NameParts)'
      BY <2>1, <3>2, <3>3 DEF Answers
    <3> QED
      BY <2>1, <2>3, <3>1, <3>4
  <2> QED
    BY <2>2, <2>3
<1>7. CASE ReadName(r)
  <2>1. PICK k, c :
          /\ k \in Lookups
          /\ k = looking[r] /\ k.pc = "fetch" /\ k.field = "name_family"
          /\ k.part \in Parts /\ k.i \in Slots
          /\ c = tab_family[k.i].name_family[k.part]
          /\ HasRead(k, k.i) /\ Found(k.num_family, k.i, sure[r])
          /\ sure' = sure /\ tab_family' = tab_family
          /\ c = 0 \/ k.part = NameParts
          /\ l.num_family = k.num_family /\ l.field = k.field
          /\ l.answer = [k.answer EXCEPT ![k.part] = c]
          /\ k.answer \in [Parts -> Tables]
    BY <1>0, <1>7 DEF ReadName, Move, Lookups
  <2>2. PICK e : e = tab_family[k.i].tab_err
    OBVIOUS
  <2>3. /\ c \in {0, e}
        /\ sure[r] # 0 => e = sure[r] /\ c = sure[r]
    <3>1. sure[r] # 0 => added[k.i] = sure[r]
      BY <2>1 DEF Found
    <3> QED
      BY <1>0, <2>1, <2>2, <3>1, PartsOfName
  <2>4. \A p \in Parts : l.answer[p] = IF p = k.part THEN c
                                       ELSE IF p < k.part THEN e ELSE 0
    BY <2>1, <2>2 DEF HasRead
  <2>5. l.answer = [p \in Parts |-> l.answer[p]]
    BY <2>1
  <2>6. CASE c = e /\ k.part = NameParts
    <3>1. \A p \in Parts : l.answer[p] = e
      BY <2>4, <2>6, ParametersAssumption DEF Parts
    <3>2. l.answer = Whole(e) /\ l.answer = Beginning(NameParts, e)
      BY <2>5, <3>1, ParametersAssumption DEF Whole, Beginning, Parts
    <3>3. Answers(l, k.i, NameParts)'
      BY <2>1, <2>2, <3>2 DEF Answers, Found
    <3> QED
      BY <2>1, <2>3, <2>6, <3>2, <3>3
  <2>7. CASE c = 0 /\ k.part = 1
    <3>1. \A p \in Parts : l.answer[p] = 0
      BY <2>4, <2>7 DEF Parts
    <3>2. l.answer = Whole(0)
      BY <2>5, <3>1 DEF Whole
    <3> QED
      BY <2>1, <2>3, <2>7, <3>2
  <2>8. CASE c = 0 /\ k.part # 1
    <3>1. k.part - 1 \in Parts
      <4>1. k.part \in Parts /\ k.part # 1
        BY <2>1, <2>8
      <4> QED
        BY <4>1, ParametersAssumption DEF Parts
    <3>2. \A p \in Parts : l.answer[p] = IF p <= k.part - 1 THEN e ELSE 0
      BY <2>1, <2>4, <2>8 DEF Parts
    <3>3. l.answer = Beginning(k.part - 1, e)
      BY <2>5, <3>2 DEF Beginning
    <3>4. Answers(l, k.i, k.part - 1)'
      BY <2>1, <2>2, <3>3 DEF Answers, Found
    <3> QED
      BY <2>1, <2>3, <2>8, <3>1, <3>4
  <2> QED
    BY <2>1, <2>3, <2>6, <2>7, <2>8
<1>4. ASSUME NEW field \in Fields, NEW n \in NumbersAsked, Ask(r, field, n)
      PROVE  FALSE
  BY <1>0, <1>4 DEF Ask, Move
<1>5. ASSUME NEW q \in Readers, q # r,
             \/ \E field \in Fields, n \in NumbersAsked : Ask(q, field, n)
             \/ LookAt(q) \/ Fetch(q) \/ ReadName(q)
      PROVE  looking'[r] = looking[r] /\ sure'[r] = sure[r]
  BY <1>0, <1>5 DEF Ask, LookAt, Fetch, ReadName, Move
<1>6. CASE UNCHANGED <<looking, sure>>
  BY <1>1, <1>6
<1>8. ASSUME NEW p \in Parts, StoreName(p)
      PROVE  UNCHANGED <<looking, sure>>
  BY <1>8 DEF StoreName
<1> QED
  BY <1>1, <1>2, <1>3, <1>4, <1>5, <1>6, <1>7, <1>8 DEF Next, vars,
     InitLogging, AddFamilyError, FindSlot, Claim, StoreTable, Store

\* ReturnNameFamilyError's caller and MakeLogError read the table while
\* AddFamilyError stores into it, a name part by part: a lookup answers with
\* the whole registration that it must find, else with nothing, the table of
\* a family with that number or a beginning of its name.
THEOREM LookupsCorrect == Spec => []LookupsFindFamilies
<1>1. Init => LookupInv
  <2> SUFFICES ASSUME Init PROVE LookupInv
    OBVIOUS
  <2>1. TableInv
    BY TableInit
  <2>2. FilledAreAdded /\ LookingInStep /\ LookupsFindFamilies
    BY DEF Init, FilledAreAdded, LookingInStep, LookupsFindFamilies
  <2>3. FieldsInStep
    BY DEF Init, FieldsInStep, Stored, Whole
  <2> QED
    BY <2>1, <2>2, <2>3 DEF LookupInv
<1>2. LookupInv /\ [Next]_vars => LookupInv'
  <2> SUFFICES ASSUME LookupInv, [Next]_vars PROVE LookupInv'
    OBVIOUS
  <2>1. TableInv'
    BY TableStep DEF LookupInv
  <2> QED
    BY <2>1, FilledAreAddedStep, FieldsStep, LookingStep, FindStep
    DEF LookupInv
<1>3. LookupInv => LookupsFindFamilies
  BY DEF LookupInv
<1> QED
  BY <1>1, <1>2, <1>3, PTL DEF Spec

=============================================================================
