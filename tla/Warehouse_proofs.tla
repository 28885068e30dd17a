------------------------- MODULE Warehouse_proofs -------------------------
(***************************************************************************)
(* Proofs about the pick module, for every number of pickers, phones,      *)
(* dates, orders, units and plans: its types, who holds what, and that it  *)
(* implements the ledger.                                                  *)
(*                                                                         *)
(* The inductive invariant is IInv.  HoldersMatch is not inductive without *)
(* the types, and the types are not without BuildInProgress: a commit      *)
(* writes what the plan has, so a build that is under way has one.         *)
(***************************************************************************)
EXTENDS Warehouse, FiniteSetTheorems, TLAPS

BuildInProgress ==
  /\ build.pc # "idle" => build.plan \in Plans
  /\ build.pc \notin {"upsert", "write"} => locked = {}

IInv == TypeOK /\ HoldersMatch /\ BuildInProgress

----------------------------------------------------------------------------
(***************************************************************************)
(* The table.                                                              *)
(***************************************************************************)

\* There are finitely many slots: the deliveries, and one will-call for each unit.
LEMMA SlotsFinite == IsFiniteSet(Slots)
<1>1. IsFiniteSet(WillCalls)
  <2> DEFINE f == [u \in Units |-> [unit |-> u]]
  <2>1. f \in Surjection(Units, WillCalls)
    BY DEF WillCalls, Surjection
  <2> QED BY <2>1, FS_Surjection, TableAssumption DEF TableAssumption
<1> QED BY <1>1, FS_Union, TableAssumption DEF Slots, TableAssumption

\* The absent row and a fresh queued row are rows.
LEMMA RowsMade ==
  /\ Absent \in Rows
  /\ \A d \in Dates, q \in Nat, r \in Routes : QueuedRow(d, q, r) \in Rows
  BY DEF Absent, Rows, QueuedRow, Statuses, Routes, NoRoute

\* The statements of pick_db keep the table well typed.
LEMMA AssignTyped ==
  ASSUME TableTypeOK, NEW s \in Slots, NEW p \in Pickers, Assign(s, p)
  PROVE  row' \in [Slots -> Rows]
<1>1. \A T \in SUBSET Slots : Cardinality(T) \in Nat
  BY SlotsFinite, FS_Subset, FS_CardinalityType
<1>2. Cardinality({u \in Slots : HeldBy(u, p)}) + 1 \in Nat
  BY <1>1
<1>3. ASSUME NEW t \in Slots PROVE Cardinality(HeldBySince(t, p)) \in Nat
  BY <1>1, <1>3 DEF HeldBySince
<1> QED BY ZenonT(40), <1>2, <1>3 DEF Assign, TableTypeOK, Rows, Statuses

\* Confirming a row keeps the table well typed.
LEMMA MarkPickedTyped ==
  ASSUME TableTypeOK, NEW s \in Slots, MarkPicked(s)
  PROVE  row' \in [Slots -> Rows]
  BY ZenonT(40) DEF MarkPicked, TableTypeOK, Rows, Statuses

\* Releasing a row keeps the table well typed.
LEMMA RequeueTyped ==
  ASSUME TableTypeOK, NEW s \in Slots, Requeue(s)
  PROVE  row' \in [Slots -> Rows]
<1>1. [row[s] EXCEPT !.status = "queued", !.holder = None, !.at = 0] \in Rows
  <2>1. row[s] \in Rows
    BY DEF TableTypeOK
  <2> QED BY <2>1 DEF Rows, Statuses
<1>2. row' = [row EXCEPT ![s] = [row[s] EXCEPT !.status = "queued", !.holder = None, !.at = 0]]
  BY DEF Requeue, TableTypeOK
<1> QED BY <1>1, <1>2 DEF TableTypeOK

\* What each of them does to the status and the holder of every row.
LEMMA AssignEffect ==
  ASSUME TableTypeOK, NEW s \in Slots, NEW p \in Pickers, Assign(s, p)
  PROVE  /\ row'[s].status = "assigned" /\ row'[s].holder = p
         /\ \A t \in Slots : t # s =>
              row'[t].status = row[t].status /\ row'[t].holder = row[t].holder
<1> DEFINE n == Cardinality({u \in Slots : HeldBy(u, p)}) + 1
           m(t) == Cardinality(HeldBySince(t, p))
<1> HIDE DEF n, m
<1>1. row' = [t \in Slots |->
                IF t = s
                THEN [row[t] EXCEPT !.status = "assigned", !.holder = p, !.at = n]
                ELSE IF HeldBy(t, p) THEN [row[t] EXCEPT !.at = m(t)] ELSE row[t]]
  BY DEF Assign, n, m
<1>2. \A t \in Slots : row[t] \in Rows
  BY DEF TableTypeOK
<1>3. row'[s].status = "assigned" /\ row'[s].holder = p
  BY <1>1, <1>2 DEF Rows
<1>4. ASSUME NEW t \in Slots, t # s
      PROVE  row'[t].status = row[t].status /\ row'[t].holder = row[t].holder
  BY <1>1, <1>2, <1>4 DEF Rows
<1> QED BY <1>3, <1>4

\* _CONFIRM sets the status of one row and keeps its assigned_to and every other row.
LEMMA MarkPickedEffect ==
  ASSUME TableTypeOK, NEW s \in Slots, MarkPicked(s)
  PROVE  /\ row'[s].status = "picked" /\ row'[s].holder = row[s].holder
         /\ \A t \in Slots : t # s => row'[t] = row[t]
  BY DEF MarkPicked, TableTypeOK, Rows

\* _RELEASE clears the assigned_to of one row and keeps every other row.
LEMMA RequeueEffect ==
  ASSUME TableTypeOK, NEW s \in Slots, Requeue(s)
  PROVE  /\ row'[s].status = "queued" /\ row'[s].holder = None
         /\ \A t \in Slots : t # s => row'[t] = row[t]
  BY DEF Requeue, TableTypeOK, Rows

----------------------------------------------------------------------------
(***************************************************************************)
(* Types.                                                                  *)
(***************************************************************************)

\* A phone showing a pick, a lost pick or nothing is well typed.
LEMMA IdlePhoneTyped ==
  \A s \in Slots \cup {None, Lost} : IdlePhone(s) \in PhoneStates
  BY DEF IdlePhone, PhoneStates

\* A request of a phone keeps the types.
LEMMA ServingTyped ==
  ASSUME TypeOK, NEW ph \in Phones, ServingStep(ph), UNCHANGED <<stop, flags, inv, build>>
  PROVE  TypeOK'
<1> USE DEF TypeOK, ServingTypeOK
<1>0. BuildTypeOK'
  BY DEF BuildTypeOK
<1>1. Owner[ph] \in Pickers /\ phone[ph] \in PhoneStates /\ phone \in [Phones -> PhoneStates]
  BY ServingAssumption DEF ServingAssumption
<1>2. \A s \in Slots \cup {None, Lost} :
        [phone EXCEPT ![ph] = IdlePhone(s)] \in [Phones -> PhoneStates]
  BY <1>1, IdlePhoneTyped
<1>3. ASSUME NEW d \in Dates, ClaimRead(ph, d) PROVE ServingTypeOK'
  <2>1. UNCHANGED tableVars
    BY <1>3 DEF ClaimRead
  <2>2. TableTypeOK'
    BY <2>1 DEF TableTypeOK, tableVars
  <2>3. [phone[ph] EXCEPT !.pc = "claiming", !.date = d] \in PhoneStates
    BY <1>1 DEF PhoneStates
  <2>4. [phone EXCEPT ![ph].pc = "claiming", ![ph].date = d] \in [Phones -> PhoneStates]
    BY <1>1, <2>3
  <2> QED BY ZenonT(40), <1>2, <1>3, <2>2, <2>4 DEF ClaimRead, OpenAssignments
<1>4. ASSUME ClaimTake(ph) PROVE ServingTypeOK'
  <2>1. PICK s \in NextClaims(phone[ph].date) :
          Assign(s, Owner[ph]) /\ phone' = [phone EXCEPT ![ph] = IdlePhone(s)]
    BY <1>4 DEF ClaimTake
  <2>2. s \in Slots
    BY DEF NextClaims, Claimable
  <2>3. TableTypeOK'
    BY <1>1, <1>4, <2>1, <2>2, AssignTyped DEF ClaimTake, TableTypeOK
  <2> QED BY <1>2, <2>1, <2>2, <2>3
<1>5. ASSUME ClaimNothing(ph) PROVE ServingTypeOK'
  BY <1>2, <1>5 DEF ClaimNothing, TableTypeOK, tableVars
<1>6. ASSUME NEW d \in Dates, Current(ph, d) PROVE ServingTypeOK'
  BY <1>2, <1>6 DEF Current, TableTypeOK, tableVars, OpenAssignments
<1>7. ASSUME NEW text \in Scans \cup {None}, ConfirmRead(ph, text) PROVE ServingTypeOK'
  <2>1. TableTypeOK'
    BY <1>7 DEF ConfirmRead, TableTypeOK, tableVars
  <2>2. [phone[ph] EXCEPT !.pc = "confirming", !.scan = text] \in PhoneStates
    BY <1>1, <1>7 DEF PhoneStates
  <2> QED BY <1>1, <1>7, <2>1, <2>2 DEF ConfirmRead
<1>8. ASSUME ConfirmWrite(ph) PROVE ServingTypeOK'
  <2>1. row' \in [Slots -> Rows]
    BY <1>8, MarkPickedTyped DEF ConfirmWrite, TableTypeOK
  <2> QED BY <1>2, <1>8, <2>1 DEF ConfirmWrite, TableTypeOK
<1>9. ASSUME Release(ph) PROVE ServingTypeOK'
  <2>1. row' \in [Slots -> Rows]
    BY <1>9, RequeueTyped DEF Release, TableTypeOK
  <2> QED BY <1>2, <1>9, <2>1 DEF Release, TableTypeOK
<1> QED BY <1>0, <1>3, <1>4, <1>5, <1>6, <1>7, <1>8, <1>9 DEF ServingStep

\* Forgetting deleted picks keeps the phones well typed.
LEMMA ForgetTyped ==
  ASSUME phone \in [Phones -> PhoneStates], NEW gone, Forget(gone)
  PROVE  phone' \in [Phones -> PhoneStates]
<1>1. ASSUME NEW ph \in Phones
      PROVE  [phone[ph] EXCEPT !.shows = IF @ \in gone THEN Lost ELSE @] \in PhoneStates
  BY DEF PhoneStates
<1> QED BY <1>1 DEF Forget

\* A build under way has a plan, and a plan is well typed.
LEMMA PlanTyped ==
  ASSUME BuildInProgress, build.pc # "idle"
  PROVE  /\ build.plan \in PlanTypes
         /\ BuildDate \in Dates
         /\ build.plan.rows \subseteq [order : Orders, unit : Units, route : Routes,
                                       status : {"queued", "in_transit"}]
         /\ build.plan.stops \subseteq [order : Orders, truck : Trucks]
         /\ build.plan.short \subseteq Orders
<1>1. build.plan \in PlanTypes
  BY BuildAssumption DEF BuildInProgress, BuildAssumption
<1> QED BY <1>1 DEF PlanTypes, BuildDate

\* What is written is among the slots, and its row of the plan is well typed.
LEMMA WrittenTyped ==
  ASSUME BuildInProgress, build.pc # "idle"
  PROVE  /\ Written \subseteq Deliveries
         /\ \A s \in Written : /\ PlanRow(s).status \in {"queued", "in_transit"}
                               /\ PlanRow(s).route \in Routes
<1>1. Remapped \subseteq build.plan.rows
  BY DEF Remapped
<1>2. \A r \in build.plan.rows : SlotOf(build.plan, r) \in Deliveries
  BY BuildAssumption DEF BuildInProgress, BuildAssumption
<1>3. ASSUME NEW s \in Written PROVE PlanRow(s) \in build.plan.rows
  BY <1>1 DEF Written, PlanRow
<1> QED BY <1>1, <1>2, <1>3, PlanTyped DEF Written

\* The rows of a stop are rows of the table.
LEMMA RowsAtSlots ==
  \A d, o : RowsAt(d, o) \subseteq Slots
  BY DEF RowsAt, Slots

\* A statement of the build keeps the types.
LEMMA BuildTyped ==
  ASSUME TypeOK, BuildInProgress, BuildStep
  PROVE  TypeOK'
<1> USE DEF TypeOK, ServingTypeOK, TableTypeOK
<1>1. build.pc # "idle"
  BY DEF BuildStep, ReadVanished, DropVanished, CommitStops, ClearQueue, CommitQueue,
         CommitFlags, BuildRefused, BuildCrash
<1>2. IdleBuild \in BuildTypes
  BY DEF IdleBuild, BuildTypes
<1>3. CASE ReadVanished
  BY <1>3 DEF ReadVanished, BuildTypeOK, BuildTypes, BuildSteps, servingVars
<1>4. CASE DropVanished
  <2>1. locked' \subseteq Slots
    BY <1>4, RowsAtSlots DEF DropVanished
  <2> QED BY <1>4, <2>1 DEF DropVanished, BuildTypeOK, BuildTypes, BuildSteps
<1>5. CASE CommitStops
  <2>1. row' \in [Slots -> Rows] /\ locked' = {}
    BY <1>5, RowsMade DEF CommitStops
  <2>2. phone' \in [Phones -> PhoneStates]
    BY <1>5, ForgetTyped DEF CommitStops
  <2>3. ASSUME NEW o \in PlanOrders
        PROVE  (CHOOSE p \in build.plan.stops : p.order = o).truck \in Trucks
    <3>1. \E p \in build.plan.stops : p.order = o
      BY DEF PlanOrders
    <3>2. (CHOOSE p \in build.plan.stops : p.order = o) \in build.plan.stops
      BY <3>1
    <3> QED BY <1>1, <3>2, PlanTyped
  <2>4. stop' \in [Stops -> Trucks \cup {None}]
    BY <1>5, <2>3 DEF CommitStops, BuildTypeOK
  <2>5. build' \in BuildTypes
    BY <1>5 DEF CommitStops, BuildTypeOK, BuildTypes, BuildSteps
  <2> QED BY <1>5, <2>1, <2>2, <2>4, <2>5 DEF CommitStops, BuildTypeOK
<1>6. CASE ClearQueue
  BY <1>6 DEF ClearQueue, BuildTypeOK, BuildTypes, BuildSteps
<1>7. CASE CommitQueue
  <2>1. ASSUME NEW s \in Written
        PROVE  /\ [Absent EXCEPT !.status = PlanRow(s).status, !.date = BuildDate,
                                 !.route = PlanRow(s).route] \in Rows
               /\ s \in Slots => [row[s] EXCEPT !.route = PlanRow(s).route] \in Rows
    <3>1. /\ PlanRow(s).status \in {"queued", "in_transit"} /\ PlanRow(s).route \in Routes
          /\ BuildDate \in Dates
      BY <1>1, PlanTyped, WrittenTyped
    <3>2. s \in Slots => row[s] \in Rows
      OBVIOUS
    <3> QED BY <3>1, <3>2 DEF Absent, Rows, Statuses
  <2>2. Inserted \subseteq Written
    BY DEF Inserted
  <2>3. row' \in [Slots -> Rows] /\ locked' = {}
    BY <1>7, <2>1, <2>2, RowsMade DEF CommitQueue
  <2>4. phone' \in [Phones -> PhoneStates]
    BY <1>7, ForgetTyped DEF CommitQueue
  <2>5. build' \in BuildTypes
    BY <1>7 DEF CommitQueue, BuildTypeOK, BuildTypes, BuildSteps
  <2> QED BY <1>7, <2>3, <2>4, <2>5 DEF CommitQueue, BuildTypeOK
<1>8. CASE CommitFlags
  <2>1. ASSUME NEW o \in build.plan.short
        PROVE  [order |-> o, stop |-> IF Fetched(BuildDate, o) THEN <<BuildDate, o>> ELSE None]
                 \in Flags
    BY <1>1, PlanTyped DEF Flags, Stops
  <2>2. flags' \subseteq Flags
    BY <1>8, <2>1 DEF CommitFlags, BuildTypeOK
  <2> QED BY <1>2, <1>8, <2>2 DEF CommitFlags, BuildTypeOK, servingVars
<1>9. CASE Rollback
  BY <1>2, <1>9 DEF Rollback, BuildTypeOK
<1> QED BY <1>3, <1>4, <1>5, <1>6, <1>7, <1>8, <1>9 DEF BuildStep, BuildRefused, BuildCrash

\* Starting a build keeps the types.
LEMMA StartTyped ==
  ASSUME TypeOK, NEW plan \in Plans, StartBuild(plan)
  PROVE  TypeOK'
  BY DEF TypeOK, ServingTypeOK, TableTypeOK, BuildTypeOK, StartBuild, BuildTypes, BuildSteps,
         IdleBuild, servingVars

\* add_will_call_order keeps the types: the numbers it hands out are naturals.
LEMMA WillCallTyped ==
  ASSUME TypeOK, NEW o \in Orders, NEW d \in Dates, AddWillCallOrder(o, d)
  PROVE  TypeOK'
<1> DEFINE new == {u \in PickableOf(o) : ~ Live(CallSlot(u))}
           place(base, u) == base + Cardinality({v \in new : ItemPos[v] <= ItemPos[u]})
<1>1. ASSUME NEW base \in 0..MaxSeq, NEW u \in Units
      PROVE  QueuedRow(d, place(base, u), NoRoute) \in Rows
  <2>1. Cardinality({v \in new : ItemPos[v] <= ItemPos[u]}) \in Nat
    BY TableAssumption, FS_Subset, FS_CardinalityType DEF TableAssumption, PickableOf
  <2>2. place(base, u) \in Nat
    BY <2>1, WillCallAssumption DEF WillCallAssumption
  <2> QED BY <2>2, RowsMade DEF NoRoute, Routes
<1>2. PICK base \in 0..MaxSeq :
        row' = [s \in Slots |->
                  IF s \in WillCalls /\ s.unit \in new
                  THEN QueuedRow(d, place(base, s.unit), NoRoute) ELSE row[s]]
  BY DEF AddWillCallOrder
<1>3. \A s \in WillCalls : s.unit \in Units
  BY DEF WillCalls
<1>4. row' \in [Slots -> Rows]
  <2> HIDE DEF new, place
  <2> QED BY <1>1, <1>2, <1>3 DEF TypeOK, ServingTypeOK, TableTypeOK
<1> QED BY <1>4 DEF AddWillCallOrder, TypeOK, ServingTypeOK, TableTypeOK, BuildTypeOK

\* The inventory sync keeps the types.
LEMMA SyncTyped ==
  ASSUME TypeOK, NEW u \in Units, NEW item \in Items[u] \cup {None}, SyncUnit(u, item)
  PROVE  TypeOK'
<1>1. item \in ItemTypes \cup {None}
  BY BuildAssumption DEF BuildAssumption
<1> QED BY <1>1 DEF SyncUnit, TypeOK, ServingTypeOK, TableTypeOK, BuildTypeOK, servingVars

----------------------------------------------------------------------------
(***************************************************************************)
(* Who holds what.                                                         *)
(***************************************************************************)

\* What a phone does to the rows: it claims an unlocked queued row for its owner, gives one
\* back or finishes one its owner holds, or changes none of their statuses.
LEMMA ServingEffect ==
  ASSUME TypeOK, NEW ph \in Phones, ServingStep(ph)
  PROVE  /\ locked' = locked
         /\ \/ \A t \in Slots :
                 row'[t].status = row[t].status /\ row'[t].holder = row[t].holder
            \/ \E s \in Slots :
                 /\ \A t \in Slots : t # s =>
                      row'[t].status = row[t].status /\ row'[t].holder = row[t].holder
                 /\ \/ /\ row[s].status = "queued" /\ s \notin locked
                       /\ row'[s].status = "assigned" /\ row'[s].holder = Owner[ph]
                    \/ /\ row[s].status = "assigned" /\ row[s].holder = Owner[ph]
                       /\ row'[s].status = "queued" /\ row'[s].holder = None
                    \/ /\ row[s].status = "assigned" /\ row[s].holder = Owner[ph]
                       /\ row'[s].status = "picked" /\ row'[s].holder = row[s].holder
<1>1. TableTypeOK /\ Owner[ph] \in Pickers
  BY ServingAssumption DEF TypeOK, ServingTypeOK, ServingAssumption
<1>2. CASE ClaimTake(ph)
  <2>1. PICK s \in NextClaims(phone[ph].date) : Assign(s, Owner[ph])
    BY <1>2 DEF ClaimTake
  <2>2. s \in Slots /\ row[s].status = "queued" /\ s \notin locked
    BY DEF NextClaims, Claimable
  <2> QED BY <1>1, <1>2, <2>1, <2>2, AssignEffect DEF ClaimTake
<1>3. CASE ConfirmWrite(ph)
  <2>1. CASE UNCHANGED row
    BY <1>3, <2>1 DEF ConfirmWrite
  <2>2. CASE ~ UNCHANGED row
    <3>1. PICK s \in Slots : HeldBy(s, Owner[ph]) /\ MarkPicked(s)
      BY <1>3, <2>2 DEF ConfirmWrite
    <3> QED BY <1>1, <1>3, <3>1, MarkPickedEffect DEF ConfirmWrite, HeldBy
  <2> QED BY <2>1, <2>2
<1>4. CASE Release(ph)
  <2>1. CASE UNCHANGED row
    BY <1>4, <2>1 DEF Release
  <2>2. CASE ~ UNCHANGED row
    <3>1. PICK s \in Slots : HeldBy(s, Owner[ph]) /\ Requeue(s)
      BY <1>4, <2>2 DEF Release
    <3> QED BY <1>1, <1>4, <3>1, RequeueEffect DEF Release, HeldBy
  <2> QED BY <2>1, <2>2
<1>5. CASE UNCHANGED tableVars
  BY <1>5 DEF tableVars
<1> QED
  BY <1>2, <1>3, <1>4, <1>5 DEF ServingStep, ClaimRead, ClaimNothing, Current, ConfirmRead

\* What the build, the office and the sync do to the rows: they delete queued rows and make
\* queued or finished ones that nobody holds, and touch no row someone has acted on.
LEMMA RevisionEffect ==
  ASSUME TypeOK, HoldersMatch, BuildInProgress,
         \/ \E plan \in Plans : StartBuild(plan)
         \/ BuildStep
         \/ \E o \in Orders, d \in Dates : AddWillCallOrder(o, d)
         \/ \E u \in Units : \E item \in Items[u] \cup {None} : SyncUnit(u, item)
  PROVE  /\ \A s \in Slots :
              \/ row'[s].status = row[s].status /\ row'[s].holder = row[s].holder
              \/ /\ row[s].status \in {"absent", "queued"}
                 /\ row'[s].status \in {"absent", "queued", "in_transit"}
                 /\ row[s].holder = None /\ row'[s].holder = None
         /\ \A s \in locked' : row'[s].status = "queued"
<1>1. \A s \in Slots : row[s] \in Rows
  BY DEF TypeOK, ServingTypeOK, TableTypeOK
<1>2. \A s \in locked : s \in Slots /\ row[s].status = "queued" /\ row[s].holder = None
  BY DEF HoldersMatch, TypeOK, ServingTypeOK, TableTypeOK
<1>3. Absent.status = "absent" /\ Absent.holder = None
  BY DEF Absent
<1>4. CASE CommitStops
  BY <1>2, <1>3, <1>4 DEF CommitStops
<1>5. CASE CommitQueue
  <2>1. build.pc # "idle"
    BY <1>5 DEF CommitQueue
  <2>2. \A s \in Written : PlanRow(s).status \in {"queued", "in_transit"}
    BY <2>1, WrittenTyped
  <2>3. \A s \in Inserted :
          LET r == [Absent EXCEPT !.status = PlanRow(s).status, !.date = BuildDate,
                                  !.route = PlanRow(s).route]
          IN r.status \in {"queued", "in_transit"} /\ r.holder = None
    BY <2>2 DEF Inserted, Absent
  <2>4. \A s \in Slots :
          LET r == [row[s] EXCEPT !.route = PlanRow(s).route]
          IN r.status = row[s].status /\ r.holder = row[s].holder
    BY <1>1 DEF Rows
  <2>5. \A s \in Inserted \cap Slots : row[s].status \in {"absent", "queued"} /\ row[s].holder = None
    BY <1>2 DEF Inserted, Live, HoldersMatch
  <2> QED BY <1>2, <1>3, <1>5, <2>3, <2>4, <2>5 DEF CommitQueue
<1>6. CASE \E o \in Orders, d \in Dates : AddWillCallOrder(o, d)
  <2>1. PICK o \in Orders, d \in Dates : AddWillCallOrder(o, d)
    BY <1>6
  <2>2. \A q : QueuedRow(d, q, NoRoute).status = "queued" /\ QueuedRow(d, q, NoRoute).holder = None
    BY DEF QueuedRow, Absent
  <2>3. \A s \in WillCalls : s = CallSlot(s.unit)
    BY DEF WillCalls, CallSlot
  <2>4. ASSUME NEW s \in Slots
        PROVE  \/ row'[s] = row[s]
               \/ /\ row[s].status = "absent"
                  /\ row'[s].status = "queued" /\ row'[s].holder = None
    BY <2>1, <2>2, <2>3 DEF AddWillCallOrder, Live
  <2>5. locked' = locked
    BY <2>1 DEF AddWillCallOrder
  <2> QED BY <1>2, <2>4, <2>5 DEF HoldersMatch
<1>7. CASE DropVanished
  BY <1>7, RowsAtSlots DEF DropVanished
<1>8. CASE ClearQueue
  BY <1>8 DEF ClearQueue
<1>9. CASE UNCHANGED row /\ locked' \subseteq locked
  BY <1>2, <1>9
<1> QED
  BY <1>4, <1>5, <1>6, <1>7, <1>8, <1>9
     DEF StartBuild, BuildStep, ReadVanished, CommitFlags, BuildRefused, BuildCrash, Rollback,
         SyncUnit, servingVars

\* A build keeps its plan until it ends, and holds locks only inside a transaction.
LEMMA BuildInProgressKept ==
  ASSUME TypeOK, BuildInProgress, [Next]_vars
  PROVE  BuildInProgress'
<1> USE DEF BuildInProgress
<1>1. CASE \E ph \in Phones : ServingStep(ph) /\ UNCHANGED <<stop, flags, inv, build>>
  BY <1>1, ServingEffect
<1>2. CASE \E plan \in Plans : StartBuild(plan)
  BY <1>2 DEF StartBuild, IdleBuild, servingVars
<1>3. CASE BuildStep
  <2>1. build \in BuildTypes
    BY DEF TypeOK, BuildTypeOK
  <2>2. CASE ReadVanished
    BY <2>1, <2>2 DEF ReadVanished, BuildTypes, servingVars
  <2>3. CASE DropVanished
    BY <2>1, <2>3 DEF DropVanished, BuildTypes
  <2>4. CASE CommitStops
    BY <2>1, <2>4 DEF CommitStops, BuildTypes
  <2>5. CASE ClearQueue
    BY <2>1, <2>5 DEF ClearQueue, BuildTypes
  <2>6. CASE CommitQueue
    BY <2>1, <2>6 DEF CommitQueue, BuildTypes
  <2>7. CASE CommitFlags
    BY <2>7 DEF CommitFlags, IdleBuild, servingVars
  <2>8. CASE Rollback
    BY <2>8 DEF Rollback, IdleBuild
  <2> QED
    BY <1>3, <2>2, <2>3, <2>4, <2>5, <2>6, <2>7, <2>8 DEF BuildStep, BuildRefused, BuildCrash
<1>4. CASE \E o \in Orders, d \in Dates : AddWillCallOrder(o, d)
  BY <1>4 DEF AddWillCallOrder
<1>5. CASE \E u \in Units : \E item \in Items[u] \cup {None} : SyncUnit(u, item)
  BY <1>5 DEF SyncUnit, servingVars
<1>6. CASE UNCHANGED vars
  BY <1>6 DEF vars
<1> QED BY <1>1, <1>2, <1>3, <1>4, <1>5, <1>6 DEF Next

\* HoldersMatch is kept by every step.
LEMMA HoldersKept ==
  ASSUME IInv, [Next]_vars
  PROVE  HoldersMatch'
<1> USE DEF IInv
<1>1. CASE \E ph \in Phones : ServingStep(ph) /\ UNCHANGED <<stop, flags, inv, build>>
  <2>1. PICK ph \in Phones : ServingStep(ph)
    BY <1>1
  <2>2. Owner[ph] # None
    BY ServingAssumption, TableAssumption DEF ServingAssumption, TableAssumption
  <2> QED
    BY <2>1, <2>2, ServingEffect
       DEF HoldersMatch, TypeOK, ServingTypeOK, TableTypeOK
<1>2. CASE \/ \E plan \in Plans : StartBuild(plan)
           \/ BuildStep
           \/ \E o \in Orders, d \in Dates : AddWillCallOrder(o, d)
           \/ \E u \in Units : \E item \in Items[u] \cup {None} : SyncUnit(u, item)
  BY <1>2, RevisionEffect DEF HoldersMatch
<1>3. CASE UNCHANGED vars
  BY <1>3 DEF vars, HoldersMatch
<1> QED BY <1>1, <1>2, <1>3 DEF Next

\* Every step keeps the types, given that a build under way has a plan.
LEMMA TypesKept ==
  ASSUME IInv, [Next]_vars
  PROVE  TypeOK'
<1> USE DEF IInv
<1>1. CASE UNCHANGED vars
  BY <1>1 DEF vars, TypeOK, ServingTypeOK, TableTypeOK, BuildTypeOK
<1>2. CASE Next
  BY <1>2, ServingTyped, StartTyped, BuildTyped, WillCallTyped, SyncTyped DEF Next
<1> QED BY <1>1, <1>2

\* The invariant holds of the empty database.
LEMMA InitHolds == Init => IInv
<1> SUFFICES ASSUME Init PROVE IInv
  OBVIOUS
<1> USE DEF Init, BuildInit, PhoneInit
<1>1. ServingTypeOK
  BY RowsMade, IdlePhoneTyped DEF ServingTypeOK, TableTypeOK
<1>2. BuildTypeOK
  BY DEF BuildTypeOK, BuildTypes, IdleBuild
<1>3. HoldersMatch
  BY DEF HoldersMatch, Absent
<1>4. BuildInProgress
  BY DEF BuildInProgress, IdleBuild
<1> QED BY <1>1, <1>2, <1>3, <1>4 DEF IInv, TypeOK

\* The inductive invariant: the rows, the phones and the build are well typed, holders
\* match, and a build under way has a plan.
THEOREM Invariance == Spec => []IInv
<1>1. IInv /\ [Next]_vars => IInv'
  BY HoldersKept, TypesKept, BuildInProgressKept DEF IInv
<1> QED BY InitHolds, <1>1, PTL DEF Spec

\* Every reachable state is well typed.
THEOREM TypeCorrect == Spec => []TypeOK
  BY Invariance, PTL DEF IInv

\* An assigned or picked row names its picker, any other names nobody, and what an open
\* build transaction has deleted was queued.
THEOREM HoldersCorrect == Spec => []HoldersMatch
  BY Invariance, PTL DEF IInv

----------------------------------------------------------------------------
(***************************************************************************)
(* The ledger.                                                             *)
(***************************************************************************)

\* The pick module as the ledger sees it.
LedgerState ==
  <<[s \in Slots |-> row[s].status], [s \in Slots |-> row[s].holder],
    [ph \in Phones |-> phone[ph].shows]>>

\* What a request of a phone is to the ledger: the claim, return or finish of a pick by its
\* owner, on the screen that shows it, a look at an open pick or at none, or nothing.
LEMMA ServingLedger ==
  ASSUME TypeOK, NEW ph \in Phones, ServingStep(ph)
  PROVE  [Ledger!Next]_LedgerState
<1> DEFINE st == [s \in Slots |-> row[s].status]
           ho == [s \in Slots |-> row[s].holder]
           sc == [p \in Phones |-> phone[p].shows]
<1>1. /\ TableTypeOK /\ Owner[ph] \in Pickers /\ phone \in [Phones -> PhoneStates]
      /\ phone[ph] \in PhoneStates
  BY ServingAssumption DEF TypeOK, ServingTypeOK, ServingAssumption
<1>2. ASSUME NEW x, phone' = [phone EXCEPT ![ph] = IdlePhone(x)]
      PROVE  sc' = [sc EXCEPT ![ph] = x]
  BY <1>1, <1>2 DEF IdlePhone
<1>3. ASSUME UNCHANGED row PROVE UNCHANGED st /\ UNCHANGED ho
  BY <1>3
<1>4. ASSUME UNCHANGED row, NEW x \in Slots \cup {None}, x \in Slots => HeldBy(x, Owner[ph]),
             phone' = [phone EXCEPT ![ph] = IdlePhone(x)]
      PROVE  Ledger!Look(ph, x)
  BY <1>2, <1>3, <1>4 DEF Ledger!Look, Ledger!Mine, HeldBy
<1>5. ASSUME NEW d \in Dates, ClaimRead(ph, d) \/ Current(ph, d) PROVE [Ledger!Next]_LedgerState
  <2>1. UNCHANGED row
    BY <1>5 DEF ClaimRead, Current, tableVars
  <2>2. \A x \in OpenAssignments(Owner[ph], d) : x \in Slots /\ HeldBy(x, Owner[ph])
    BY DEF OpenAssignments
  <2>3. CASE \E x \in Slots \cup {None} :
               /\ x \in Slots => HeldBy(x, Owner[ph])
               /\ phone' = [phone EXCEPT ![ph] = IdlePhone(x)]
    BY <1>4, <2>1, <2>3 DEF Ledger!Next
  <2>4. CASE phone' = [phone EXCEPT ![ph].pc = "claiming", ![ph].date = d]
    <3>1. UNCHANGED sc
      BY <1>1, <2>4 DEF PhoneStates
    <3> QED BY <1>3, <2>1, <3>1 DEF LedgerState
  <2> QED BY <1>5, <2>2, <2>3, <2>4, SlotAssumption DEF ClaimRead, Current, SlotAssumption
<1>6. CASE ClaimTake(ph)
  <2>1. PICK s \in NextClaims(phone[ph].date) :
          Assign(s, Owner[ph]) /\ phone' = [phone EXCEPT ![ph] = IdlePhone(s)]
    BY <1>6 DEF ClaimTake
  <2>2. s \in Slots /\ row[s].status = "queued"
    BY DEF NextClaims, Claimable
  <2>3. /\ st' = [st EXCEPT ![s] = "assigned"]
        /\ ho' = [ho EXCEPT ![s] = Owner[ph]]
    BY <1>1, <2>1, <2>2, AssignEffect
  <2>4. Ledger!Claim(ph, s)
    BY <1>2, <2>1, <2>2, <2>3 DEF Ledger!Claim
  <2> QED BY <2>2, <2>4 DEF Ledger!Next
<1>7. CASE ClaimNothing(ph)
  BY <1>4, <1>7, SlotAssumption DEF ClaimNothing, tableVars, Ledger!Next, SlotAssumption
<1>8. ASSUME NEW text \in Scans \cup {None}, ConfirmRead(ph, text) PROVE [Ledger!Next]_LedgerState
  <2>1. UNCHANGED row /\ UNCHANGED sc
    BY <1>1, <1>8 DEF ConfirmRead, tableVars, PhoneStates
  <2> QED BY <1>3, <2>1 DEF LedgerState
<1>9. CASE ConfirmWrite(ph) \/ Release(ph)
  <2>1. phone' = [phone EXCEPT ![ph] = IdlePhone(None)]
    BY <1>9 DEF ConfirmWrite, Release
  <2>2. CASE UNCHANGED row
    BY <1>4, <2>1, <2>2, SlotAssumption DEF Ledger!Next, SlotAssumption
  <2>3. CASE ~ UNCHANGED row
    <3>1. PICK s \in Slots :
            s = phone[ph].shows /\ HeldBy(s, Owner[ph]) /\ (MarkPicked(s) \/ Requeue(s))
      BY <1>9, <2>3 DEF ConfirmWrite, Release
    <3>2. CASE MarkPicked(s)
      <4>1. st' = [st EXCEPT ![s] = "picked"] /\ ho' = ho
        BY <1>1, <3>1, <3>2, MarkPickedEffect
      <4>2. Ledger!Finish(ph, s)
        BY <1>2, <2>1, <3>1, <4>1 DEF Ledger!Finish, Ledger!Mine, HeldBy
      <4> QED BY <3>1, <4>2 DEF Ledger!Next
    <3>3. CASE Requeue(s)
      <4>1. st' = [st EXCEPT ![s] = "queued"] /\ ho' = [ho EXCEPT ![s] = None]
        BY <1>1, <3>1, <3>3, RequeueEffect
      <4>2. Ledger!Return(ph, s)
        BY <1>2, <2>1, <3>1, <4>1 DEF Ledger!Return, Ledger!Mine, HeldBy
      <4> QED BY <3>1, <4>2 DEF Ledger!Next
    <3> QED BY <3>1, <3>2, <3>3
  <2> QED BY <2>2, <2>3
<1> QED BY <1>5, <1>6, <1>7, <1>8, <1>9 DEF ServingStep

\* What the build, the office and the sync change of the statuses and the screens: they
\* withdraw some of the queued rows, make rows of those and of absent ones, and the screens
\* that showed a withdrawn row show a lost one.
LEMMA Withdrawal ==
  ASSUME TypeOK, HoldersMatch, BuildInProgress,
         \/ \E plan \in Plans : StartBuild(plan)
         \/ BuildStep
         \/ \E o \in Orders, d \in Dates : AddWillCallOrder(o, d)
         \/ \E u \in Units : \E item \in Items[u] \cup {None} : SyncUnit(u, item)
  PROVE  \E gone \in SUBSET {s \in Slots : row[s].status = "queued"} :
           /\ \A s \in Slots : \/ row'[s].status = row[s].status
                               \/ row[s].status = "absent" \/ s \in gone
           /\ \A ph \in Phones :
                phone'[ph].shows = IF phone[ph].shows \in gone THEN Lost ELSE phone[ph].shows
<1>1. \A ph \in Phones : phone[ph] \in PhoneStates
  BY DEF TypeOK, ServingTypeOK
<1>2. CASE CommitStops \/ CommitQueue
  <2>1. locked \in SUBSET {s \in Slots : row[s].status = "queued"}
    BY DEF HoldersMatch, TypeOK, ServingTypeOK, TableTypeOK
  <2>2. \A s \in Slots : \/ row'[s].status = row[s].status
                         \/ row[s].status = "absent" \/ s \in locked
    <3>1. \A s \in Slots : row[s] \in Rows
      BY DEF TypeOK, ServingTypeOK, TableTypeOK
    <3>2. \A s \in Slots : [row[s] EXCEPT !.route = PlanRow(s).route].status = row[s].status
      BY <3>1 DEF Rows
    <3> QED BY <1>2, <3>2 DEF CommitStops, CommitQueue, Inserted, Live
  <2>3. \A ph \in Phones :
          phone'[ph].shows = IF phone[ph].shows \in locked THEN Lost ELSE phone[ph].shows
    <3>1. Forget(locked)
      BY <1>2 DEF CommitStops, CommitQueue
    <3> QED BY <1>1, <3>1 DEF Forget, PhoneStates
  <2> QED BY <2>1, <2>2, <2>3
<1>3. CASE UNCHANGED phone /\ \A s \in Slots : row'[s] = row[s] \/ row[s].status = "absent"
  <2>1. {} \in SUBSET {s \in Slots : row[s].status = "queued"}
    OBVIOUS
  <2> QED BY <1>3, <2>1
<1>4. CASE \E o \in Orders, d \in Dates : AddWillCallOrder(o, d)
  <2>1. \A s \in WillCalls : s = CallSlot(s.unit)
    BY DEF WillCalls, CallSlot
  <2> QED BY <1>3, <1>4, <2>1 DEF AddWillCallOrder, Live
<1>5. CASE UNCHANGED <<row, phone>>
  BY <1>3, <1>5
<1> QED
  BY <1>2, <1>4, <1>5
     DEF StartBuild, BuildStep, ReadVanished, DropVanished, ClearQueue, CommitFlags,
         BuildRefused, BuildCrash, Rollback, SyncUnit, servingVars

\* Every step of the pick module is a step of the ledger or leaves it alone.
LEMMA LedgerStep ==
  ASSUME IInv, [Next]_vars
  PROVE  [Ledger!Next]_LedgerState
<1> USE DEF IInv
<1>1. CASE \E ph \in Phones : ServingStep(ph) /\ UNCHANGED <<stop, flags, inv, build>>
  BY <1>1, ServingLedger
<1>2. CASE \/ \E plan \in Plans : StartBuild(plan)
           \/ BuildStep
           \/ \E o \in Orders, d \in Dates : AddWillCallOrder(o, d)
           \/ \E u \in Units : \E item \in Items[u] \cup {None} : SyncUnit(u, item)
  <2>1. \A s \in Slots :
          \/ row'[s].status = row[s].status /\ row'[s].holder = row[s].holder
          \/ /\ row[s].status \in {"absent", "queued"}
             /\ row'[s].status \in {"absent", "queued", "in_transit"}
             /\ row[s].holder = None /\ row'[s].holder = None
    BY <1>2, RevisionEffect
  <2>2. PICK gone \in SUBSET {s \in Slots : row[s].status = "queued"} :
          /\ \A s \in Slots : \/ row'[s].status = row[s].status
                              \/ row[s].status = "absent" \/ s \in gone
          /\ \A ph \in Phones :
               phone'[ph].shows = IF phone[ph].shows \in gone THEN Lost ELSE phone[ph].shows
    BY <1>2, Withdrawal
  <2>3. \A s \in Slots : row'[s].status \in {"absent", "queued", "assigned", "picked", "in_transit"}
    BY TypesKept DEF TypeOK, ServingTypeOK, TableTypeOK, Rows, Statuses
  <2> DEFINE st == [s \in Slots |-> row[s].status]
             ho == [s \in Slots |-> row[s].holder]
             sc == [ph \in Phones |-> phone[ph].shows]
  <2>4. /\ gone \in SUBSET {s \in Slots : st[s] = "queued"}
        /\ st' \in [Slots -> {"absent", "queued", "assigned", "picked", "in_transit"}]
        /\ \A s \in Slots : \/ st'[s] = st[s]
                            \/ /\ st[s] = "absent" \/ s \in gone
                               /\ st'[s] \in {"absent", "queued", "in_transit"}
    BY <2>1, <2>2, <2>3
  <2>5. sc' = [ph \in Phones |-> IF sc[ph] \in gone THEN Lost ELSE sc[ph]]
    BY <2>2
  <2>6. ho' = ho
    BY <2>1
  <2>7. Ledger!Revise
    BY <2>4, <2>5, <2>6 DEF Ledger!Revise
  <2> QED BY <2>7 DEF Ledger!Next
<1>3. CASE UNCHANGED vars
  BY <1>3 DEF vars, LedgerState
<1> QED BY <1>1, <1>2, <1>3 DEF Next

\* The pick module implements the ledger: from a claim on, only the picker's own confirm or
\* release, on a phone of his that shows the pick, moves it, and a finished pick is never
\* touched again.
THEOREM ImplementsTheLedger == Spec => KeepsTheLedger
<1>1. Init => Ledger!Init
  BY DEF Init, PhoneInit, IdlePhone, Ledger!Init, Absent
<1>2. IInv /\ [Next]_vars => [Ledger!Next]_LedgerState
  BY LedgerStep
<1> QED
  BY Invariance, <1>1, <1>2, PTL
     DEF Spec, KeepsTheLedger, Ledger!Spec, Ledger!ledgerVars, LedgerState

----------------------------------------------------------------------------
(***************************************************************************)
(* Foreign keys.  Between the deletes of upsert_stops and its commit, the  *)
(* rows of a stop being dropped are all locked and no flag refers to it;   *)
(* that is what makes the references inductive.                            *)
(***************************************************************************)
DropIsLocked ==
  build.pc = "upsert" =>
    \A o \in build.drop :
      /\ RowsAt(BuildDate, o) \subseteq locked
      /\ \A f \in flags : f.stop # <<BuildDate, o>>

RefsInv == StopsResolve /\ DropIsLocked

\* No slot is both a delivery and a will-call.
LEMMA NotBoth == Deliveries \cap WillCalls = {}
<1>1. \A s \in Deliveries : DOMAIN s = {"date", "order", "unit"}
  BY TableAssumption DEF TableAssumption
<1>2. \A s \in WillCalls : DOMAIN s = {"unit"}
  BY DEF WillCalls
<1> QED BY <1>1, <1>2

\* A step that leaves every row where it is, or deletes locked rows, and does not touch stops
\* and flags, keeps the references to stops.
LEMMA StopsKeptByFewerRows ==
  ASSUME StopsResolve, \A s \in Deliveries : Live(s)' => Live(s), UNCHANGED <<stop, flags>>
  PROVE  StopsResolve'
  BY DEF StopsResolve

\* A request of a phone creates and deletes no row.
LEMMA ServingKeepsRows ==
  ASSUME TypeOK, NEW ph \in Phones, ServingStep(ph)
  PROVE  locked' = locked /\ \A s \in Slots : Live(s)' <=> Live(s)
  BY ServingEffect DEF Live

\* The references to stops are kept by the build.
LEMMA StopsKeptByBuild ==
  ASSUME IInv, RefsInv, BuildStep
  PROVE  StopsResolve'
<1> USE DEF IInv, RefsInv
<1>1. CASE CommitStops
  <2>1. \A s \in Deliveries : Live(s)' => Live(s) /\ s \notin locked
    BY <1>1 DEF CommitStops, Live, Absent, Slots
  <2>2. \A st \in Stops :
          stop[st] # None =>
            \/ stop'[st] # None
            \/ st[1] = BuildDate /\ st[2] \in build.drop
    <3>1. ASSUME NEW o \in PlanOrders
          PROVE  (CHOOSE p \in build.plan.stops : p.order = o).truck # None
      <4>1. build.pc # "idle"
        BY <1>1 DEF CommitStops
      <4>2. (CHOOSE p \in build.plan.stops : p.order = o) \in build.plan.stops
        BY DEF PlanOrders
      <4> QED BY <4>1, <4>2, PlanTyped, BuildAssumption DEF BuildAssumption
    <3> QED BY <1>1, <3>1 DEF CommitStops
  <2>3. ASSUME NEW s \in Deliveries, Live(s)'
        PROVE  stop'[<<s.date, s.order>>] # None
    <3>1. <<s.date, s.order>> \in Stops /\ stop[<<s.date, s.order>>] # None
      BY <2>1, <2>3, TableAssumption DEF TableAssumption, Stops, StopsResolve
    <3>2. ~ (s.date = BuildDate /\ s.order \in build.drop)
      BY <1>1, <2>1, <2>3 DEF DropIsLocked, RowsAt, CommitStops
    <3> QED BY <2>2, <3>1, <3>2
  <2>4. ASSUME NEW f \in flags, f.stop # None
        PROVE  stop'[f.stop] # None
    <3>1. f.stop \in Stops /\ stop[f.stop] # None
      BY <2>4 DEF StopsResolve, TypeOK, BuildTypeOK, Flags
    <3>2. ~ (f.stop[1] = BuildDate /\ f.stop[2] \in build.drop)
      BY <1>1, <3>1 DEF DropIsLocked, CommitStops, Stops
    <3> QED BY <2>2, <3>1, <3>2
  <2> QED BY <1>1, <2>3, <2>4 DEF StopsResolve, CommitStops
<1>2. CASE CommitQueue
  <2>1. ASSUME NEW s \in Inserted PROVE stop[<<s.date, s.order>>] # None
    <3>1. PICK r \in Remapped : s = SlotOf(build.plan, r)
      BY DEF Inserted, Written
    <3>2. stop[<<BuildDate, r.order>>] # None
      BY DEF Remapped, Fetched
    <3> QED BY <3>1, <3>2 DEF SlotOf, BuildDate
  <2>2. \A s \in Deliveries : Live(s)' => s \in Inserted \/ Live(s)
    BY <1>2 DEF CommitQueue, Live, Slots, Absent
  <2> QED BY <1>2, <2>1, <2>2 DEF CommitQueue, StopsResolve
<1>3. CASE CommitFlags
  <2>1. ASSUME NEW f \in flags', f \notin flags, f.stop # None
        PROVE  stop[f.stop] # None
    <3>1. PICK o \in build.plan.short :
            f = [order |-> o, stop |-> IF Fetched(BuildDate, o) THEN <<BuildDate, o>> ELSE None]
      BY <1>3, <2>1 DEF CommitFlags
    <3>2. Fetched(BuildDate, o) /\ f.stop = <<BuildDate, o>>
      BY <2>1, <3>1
    <3> QED BY <3>2 DEF Fetched
  <2>2. UNCHANGED <<row, stop>>
    BY <1>3 DEF CommitFlags, servingVars
  <2> QED BY <2>1, <2>2 DEF StopsResolve, Live
<1>4. CASE UNCHANGED <<row, stop, flags>>
  BY <1>4 DEF StopsResolve, Live
<1> QED
  BY <1>1, <1>2, <1>3, <1>4 DEF BuildStep, ReadVanished, DropVanished, ClearQueue, BuildRefused,
     BuildCrash, Rollback, servingVars

\* A build that has passed the deletes of upsert_stops holds the rows of every stop it drops,
\* and no flag refers to one, up to the commit.
LEMMA DropKeptByBuild ==
  ASSUME IInv, RefsInv, BuildStep
  PROVE  DropIsLocked'
<1> USE DEF IInv, RefsInv
<1>1. CASE DropVanished
  <2>1. build'.drop = build.drop /\ build'.plan = build.plan /\ UNCHANGED <<row, flags>>
    BY <1>1 DEF DropVanished, TypeOK, BuildTypeOK, BuildTypes
  <2>2. ASSUME NEW o \in build.drop PROVE RowsAt(BuildDate, o) \subseteq locked'
    BY <1>1 DEF DropVanished, DropRefused
  <2>3. \A o \in build.drop : \A f \in flags : f.stop # <<BuildDate, o>>
    BY <1>1 DEF DropVanished, DropRefused
  <2> QED BY <2>1, <2>2, <2>3 DEF DropIsLocked, RowsAt, Live, BuildDate
<1>2. CASE ~ DropVanished
  <2>1. build \in BuildTypes
    BY DEF TypeOK, BuildTypeOK
  <2>2. ReadVanished \/ CommitStops \/ ClearQueue \/ CommitQueue => build'.pc # "upsert"
    BY <2>1 DEF ReadVanished, CommitStops, ClearQueue, CommitQueue, BuildTypes
  <2>3. CommitFlags \/ Rollback => build'.pc # "upsert"
    BY DEF CommitFlags, Rollback, IdleBuild
  <2>4. build'.pc # "upsert"
    BY <1>2, <2>2, <2>3 DEF BuildStep, BuildRefused, BuildCrash
  <2> QED BY <2>4 DEF DropIsLocked
<1> QED BY <1>1, <1>2

\* Every step keeps the foreign keys to stops satisfied.
LEMMA RefsKept ==
  ASSUME IInv, RefsInv, [Next]_vars
  PROVE  RefsInv'
<1> USE DEF IInv, RefsInv
<1>1. CASE \E ph \in Phones : ServingStep(ph) /\ UNCHANGED <<stop, flags, inv, build>>
  <2>1. locked' = locked /\ \A s \in Slots : Live(s)' <=> Live(s)
    BY <1>1, ServingKeepsRows
  <2>2. DropIsLocked'
    BY <1>1, <2>1 DEF DropIsLocked, RowsAt, BuildDate, Slots
  <2>3. StopsResolve'
    BY <1>1, <2>1, StopsKeptByFewerRows DEF Slots
  <2> QED BY <2>2, <2>3
<1>2. CASE \E plan \in Plans : StartBuild(plan)
  <2>1. UNCHANGED <<row, stop, flags>> /\ build'.pc # "upsert"
    BY <1>2 DEF StartBuild, IdleBuild, servingVars
  <2> QED BY <2>1 DEF StopsResolve, DropIsLocked, Live
<1>3. CASE BuildStep
  BY <1>3, StopsKeptByBuild, DropKeptByBuild
<1>4. CASE \E o \in Orders, d \in Dates : AddWillCallOrder(o, d)
  <2>1. PICK o \in Orders, d \in Dates : AddWillCallOrder(o, d)
    BY <1>4
  <2>2. UNCHANGED <<locked, stop, flags, inv, build>>
    BY <2>1 DEF AddWillCallOrder
  <2>3. \A s \in Deliveries : row'[s] = row[s]
    BY <2>1, NotBoth DEF AddWillCallOrder, Slots
  <2> QED BY <2>2, <2>3 DEF StopsResolve, DropIsLocked, RowsAt, BuildDate, Live
<1>5. CASE \E u \in Units : \E item \in Items[u] \cup {None} : SyncUnit(u, item)
  <2>1. PICK u \in Units : \E item \in Items[u] \cup {None} : SyncUnit(u, item)
    BY <1>5
  <2>2. UNCHANGED <<row, locked, stop, flags, build>>
    BY <2>1 DEF SyncUnit, servingVars
  <2> QED BY <2>2 DEF StopsResolve, DropIsLocked, RowsAt, BuildDate, Live
<1>6. CASE UNCHANGED vars
  BY <1>6 DEF vars, StopsResolve, DropIsLocked, RowsAt, BuildDate, Live
<1> QED BY <1>1, <1>2, <1>3, <1>4, <1>5, <1>6 DEF Next

\* The stops that rows and flags refer to are there at all times, through claims, crashes and
\* refusals between the statements of a build.
THEOREM ReferencesResolve == Spec => []RefsInv
<1>1. Init => RefsInv
  BY DEF Init, BuildInit, IdleBuild, RefsInv, StopsResolve, DropIsLocked, Live,
     Absent, Slots
<1>2. IInv /\ RefsInv /\ [Next]_vars => RefsInv'
  BY RefsKept
<1> QED BY Invariance, <1>1, <1>2, PTL DEF Spec

\* pick_queue.stop_id and flags.stop_id always resolve.
THEOREM StopsAlwaysResolve == Spec => []StopsResolve
  BY ReferencesResolve, PTL DEF RefsInv

----------------------------------------------------------------------------
(***************************************************************************)
(* Confirming.  While a confirm is between its two statements, the scan it *)
(* carries is one that verify_scan accepted for the pick on the screen.    *)
(***************************************************************************)
ScanVerified ==
  \A ph \in Phones : phone[ph].pc = "confirming" /\ phone[ph].shows \in Slots =>
    ScanAccepted(Serial[phone[ph].shows.unit], phone[ph].scan)

\* Whoever writes the phones back to idle, or makes them forget, leaves the scans verified.
LEMMA ForgetKeepsScans ==
  ASSUME TypeOK, ScanVerified, NEW gone, Forget(gone)
  PROVE  ScanVerified'
<1>1. ASSUME NEW ph \in Phones
      PROVE  /\ phone'[ph].pc = phone[ph].pc /\ phone'[ph].scan = phone[ph].scan
             /\ phone'[ph].shows = phone[ph].shows \/ phone'[ph].shows = Lost
  <2>1. phone[ph] \in PhoneStates
    BY DEF TypeOK, ServingTypeOK
  <2> QED BY <2>1 DEF Forget, PhoneStates
<1> QED BY <1>1, SlotAssumption DEF ScanVerified, SlotAssumption

\* A request of a phone keeps ScanVerified: a phone confirms only with a scan that passed.
LEMMA ServingKeepsScans ==
  ASSUME TypeOK, ScanVerified, NEW ph \in Phones, ServingStep(ph)
  PROVE  ScanVerified'
<1>1. /\ phone \in [Phones -> PhoneStates] /\ phone[ph] \in PhoneStates
  BY DEF TypeOK, ServingTypeOK
<1>2. CASE \E s : phone' = [phone EXCEPT ![ph] = IdlePhone(s)]
  BY <1>1, <1>2 DEF ScanVerified, IdlePhone
<1>3. CASE \E d \in Dates : phone' = [phone EXCEPT ![ph].pc = "claiming", ![ph].date = d]
  BY <1>1, <1>3 DEF ScanVerified, PhoneStates
<1>4. CASE \E text \in Scans \cup {None} : ConfirmRead(ph, text)
  <2>1. PICK text \in Scans \cup {None} : ConfirmRead(ph, text)
    BY <1>4
  <2>2. PICK s \in Slots : phone[ph].shows = s /\ ScanAccepted(Serial[s.unit], text)
    BY <2>1 DEF ConfirmRead
  <2>3. /\ phone'[ph].shows = s /\ phone'[ph].scan = text
        /\ \A other \in Phones : other # ph => phone'[other] = phone[other]
    BY <1>1, <2>1, <2>2 DEF ConfirmRead, PhoneStates
  <2> QED BY <2>2, <2>3 DEF ScanVerified
<1> QED
  BY <1>2, <1>3, <1>4 DEF ServingStep, ClaimRead, ClaimTake, ClaimNothing, Current,
     ConfirmWrite, Release

\* Every step keeps ScanVerified.
LEMMA ScansKept ==
  ASSUME IInv, ScanVerified, [Next]_vars
  PROVE  ScanVerified'
<1> USE DEF IInv
<1>1. CASE \E ph \in Phones : ServingStep(ph) /\ UNCHANGED <<stop, flags, inv, build>>
  BY <1>1, ServingKeepsScans
<1>2. CASE CommitStops \/ CommitQueue
  BY <1>2, ForgetKeepsScans DEF CommitStops, CommitQueue
<1>3. CASE UNCHANGED phone
  BY <1>3 DEF ScanVerified
<1> QED
  BY <1>1, <1>2, <1>3 DEF Next, StartBuild, BuildStep, ReadVanished, DropVanished, ClearQueue,
     CommitFlags, BuildRefused, BuildCrash, Rollback, AddWillCallOrder, SyncUnit, servingVars,
     vars

\* A row becomes picked only by the second statement of a confirm, on a row the phone's
\* owner holds at that moment.
LEMMA PickedByConfirm ==
  ASSUME IInv, [Next]_vars,
         NEW s \in Slots, row[s].status # "picked", row'[s].status = "picked"
  PROVE  \E ph \in Phones :
           ConfirmWrite(ph) /\ phone[ph].shows = s /\ HeldBy(s, Owner[ph])
<1> USE DEF IInv
<1>1. ~ UNCHANGED vars
  BY DEF vars
<1>2. ~ (\/ \E plan \in Plans : StartBuild(plan)
         \/ BuildStep
         \/ \E o \in Orders, d \in Dates : AddWillCallOrder(o, d)
         \/ \E u \in Units : \E item \in Items[u] \cup {None} : SyncUnit(u, item))
  BY RevisionEffect
<1>3. PICK ph \in Phones : ServingStep(ph)
  BY <1>1, <1>2 DEF Next
<1>4. TableTypeOK /\ Owner[ph] \in Pickers
  BY ServingAssumption DEF TypeOK, ServingTypeOK, ServingAssumption
<1>5. ~ ClaimTake(ph)
  BY <1>4, AssignEffect DEF ClaimTake, NextClaims, Claimable
<1>6. ~ Release(ph)
  BY <1>4, RequeueEffect DEF Release
<1>7. ConfirmWrite(ph)
  BY <1>3, <1>5, <1>6 DEF ServingStep, ClaimRead, ClaimNothing, Current, ConfirmRead, tableVars
<1>8. phone[ph].shows = s /\ HeldBy(s, Owner[ph])
  BY <1>4, <1>7, MarkPickedEffect DEF ConfirmWrite
<1> QED BY <1>7, <1>8

\* Confirm fails closed: a row becomes picked only in the name of its holder and only after a
\* scan of its unit's serial.
THEOREM ConfirmFailsClosed == Spec => OnlyTheHolderConfirms
<1>1. Init => ScanVerified
  BY DEF Init, PhoneInit, IdlePhone, ScanVerified
<1>2. IInv /\ ScanVerified /\ [Next]_vars => ScanVerified'
  BY ScansKept
<1>3. ASSUME IInv, ScanVerified, [Next]_vars,
             NEW s \in Slots, row[s].status # "picked", row'[s].status = "picked"
      PROVE  /\ row[s].status = "assigned"
             /\ \E ph \in Phones :
                  /\ phone[ph].pc = "confirming" /\ phone'[ph].pc = "idle"
                  /\ phone[ph].shows = s /\ Owner[ph] = row[s].holder
                  /\ Normalise(Serial[s.unit]) # None =>
                       Normalise(phone[ph].scan) = Normalise(Serial[s.unit])
  <2>1. PICK ph \in Phones : ConfirmWrite(ph) /\ phone[ph].shows = s /\ HeldBy(s, Owner[ph])
    BY <1>3, PickedByConfirm
  <2>2. phone[ph].pc = "confirming" /\ phone'[ph].pc = "idle"
    BY <1>3, <2>1 DEF ConfirmWrite, IdlePhone, IInv, TypeOK, ServingTypeOK
  <2>3. ScanAccepted(Serial[s.unit], phone[ph].scan)
    BY <1>3, <2>1, <2>2 DEF ScanVerified
  <2> QED BY <2>1, <2>2, <2>3 DEF HeldBy, ScanAccepted
<1>4. IInv /\ ScanVerified /\ [Next]_vars =>
        [\A s \in Slots : row[s].status # "picked" /\ row'[s].status = "picked" =>
           /\ row[s].status = "assigned"
           /\ \E ph \in Phones :
                /\ phone[ph].pc = "confirming" /\ phone'[ph].pc = "idle"
                /\ phone[ph].shows = s /\ Owner[ph] = row[s].holder
                /\ Normalise(Serial[s.unit]) # None =>
                     Normalise(phone[ph].scan) = Normalise(Serial[s.unit])]_servingVars
  BY <1>3
<1> QED BY Invariance, <1>1, <1>2, <1>4, PTL DEF Spec, OnlyTheHolderConfirms

----------------------------------------------------------------------------
(***************************************************************************)
(* Completeness of a build.  Nothing deletes a row between the commit of   *)
(* the queue and the end of the build: the phones never do, and no other   *)
(* build runs.                                                             *)
(***************************************************************************)
LEMMA CompleteKept ==
  ASSUME IInv, BuildIsComplete, [Next]_vars
  PROVE  BuildIsComplete'
<1> USE DEF IInv
<1>1. CASE CommitQueue
  <2>1. Written \subseteq Slots
    BY <1>1, WrittenTyped DEF CommitQueue, Slots
  <2>2. ASSUME NEW s \in Written PROVE row'[s].status # "absent"
    <3>1. CASE s \in Inserted
      <4>1. PlanRow(s).status \in {"queued", "in_transit"}
        BY <1>1, WrittenTyped DEF CommitQueue
      <4> QED BY <1>1, <2>1, <3>1, <4>1 DEF CommitQueue, Absent
    <3>2. CASE s \notin Inserted
      <4>1. row[s] \in Rows /\ row[s].status # "absent" /\ s \notin locked
        BY <2>1, <3>2 DEF Inserted, Live, TypeOK, ServingTypeOK, TableTypeOK
      <4> QED BY <1>1, <2>1, <3>2, <4>1 DEF CommitQueue, Rows
    <3> QED BY <3>1, <3>2
  <2>3. build'.plan = build.plan /\ stop' = stop
    BY <1>1 DEF CommitQueue, TypeOK, BuildTypeOK, BuildTypes
  <2>4. Written' = Written
    BY <2>3 DEF Written, Remapped, Fetched, BuildDate
  <2> QED BY <2>2, <2>4 DEF BuildIsComplete, Live
<1>2. CASE BuildStep /\ ~ CommitQueue
  <2>1. build \in BuildTypes
    BY DEF TypeOK, BuildTypeOK
  <2>2. ReadVanished \/ DropVanished \/ CommitStops \/ ClearQueue => build'.pc # "flags"
    BY <2>1 DEF ReadVanished, DropVanished, CommitStops, ClearQueue, BuildTypes
  <2>3. CommitFlags \/ Rollback => build'.pc # "flags"
    BY DEF CommitFlags, Rollback, IdleBuild
  <2>4. build'.pc # "flags"
    BY <1>2, <2>2, <2>3 DEF BuildStep, BuildRefused, BuildCrash
  <2> QED BY <2>4 DEF BuildIsComplete
<1>3. CASE UNCHANGED <<stop, build>> /\ \A s \in Slots : Live(s) => Live(s)'
  <2>1. Written' = Written
    BY <1>3 DEF Written, Remapped, Fetched, BuildDate
  <2>2. build.pc = "flags" => Written \subseteq Slots
    BY WrittenTyped DEF Slots
  <2> QED BY <1>3, <2>1, <2>2 DEF BuildIsComplete
<1>4. CASE \E ph \in Phones : ServingStep(ph) /\ UNCHANGED <<stop, flags, inv, build>>
  BY <1>3, <1>4, ServingKeepsRows
<1>5. CASE \E plan \in Plans : StartBuild(plan)
  BY <1>5 DEF StartBuild, IdleBuild, BuildIsComplete
<1>6. CASE \E o \in Orders, d \in Dates : AddWillCallOrder(o, d)
  <2>1. \A d, q : QueuedRow(d, q, NoRoute).status # "absent"
    BY DEF QueuedRow, Absent
  <2> QED BY <1>3, <1>6, <2>1 DEF AddWillCallOrder, Live
<1>7. CASE \E u \in Units : \E item \in Items[u] \cup {None} : SyncUnit(u, item)
  BY <1>3, <1>7 DEF SyncUnit, servingVars, Live
<1>8. CASE UNCHANGED vars
  BY <1>3, <1>8 DEF vars, Live
<1> QED BY <1>1, <1>2, <1>4, <1>5, <1>6, <1>7, <1>8 DEF Next

\* write_pick_queue drops no pickable piece, whatever the pickers do while it runs.
THEOREM BuildsAreComplete == Spec => []BuildIsComplete
<1>1. Init => BuildIsComplete
  BY DEF Init, BuildInit, IdleBuild, BuildIsComplete
<1>2. IInv /\ BuildIsComplete /\ [Next]_vars => BuildIsComplete'
  BY CompleteKept
<1> QED BY Invariance, <1>1, <1>2, PTL DEF Spec
=============================================================================
