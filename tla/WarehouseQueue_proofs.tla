----------------------- MODULE WarehouseQueue_proofs -----------------------
(***************************************************************************)
(* More proofs about the pick module, for every number of pickers, phones, *)
(* dates, orders, units and plans: what a build leaves of the stops that   *)
(* left the route sheet, and when a picker is told there is nothing to do. *)
(*                                                                         *)
(* Both are about what a transaction decided in an earlier statement, so   *)
(* their invariants say what is still true of that decision later on.      *)
(***************************************************************************)
EXTENDS Warehouse_proofs, WarehouseHistory

\* A stop upsert_stops has decided to keep has a row; what it deletes are rows of the others.
DropIsDecided ==
  /\ build.pc \in {"drop", "upsert", "clear"} /\ PlanOrders # {} =>
       \A o \in Orders :
         stop[<<BuildDate, o>>] # None /\ o \notin PlanOrders \cup build.drop =>
           RowsAt(BuildDate, o) # {}
  /\ build.pc = "upsert" => \A s \in locked : s \in Deliveries => s.order \in build.drop
  /\ build.pc = "clear" => build.drop = {}

\* A row has the date of its stop, and what a build has deleted is of the build's date.
LocksAreDated ==
  /\ \A s \in Deliveries : Live(s) => row[s].date = s.date
  /\ \A s \in locked : row[s].date = BuildDate

\* No request of a phone changes a date.
LEMMA ServingKeepsDates ==
  ASSUME TypeOK, NEW ph \in Phones, ServingStep(ph)
  PROVE  \A t \in Slots : row'[t].date = row[t].date
<1>1. row \in [Slots -> Rows] /\ \A t \in Slots : row[t] \in Rows
  BY DEF TypeOK, ServingTypeOK, TableTypeOK
<1>2. CASE ClaimTake(ph)
  <2>1. PICK s \in Slots : Assign(s, Owner[ph])
    BY <1>2 DEF ClaimTake, NextClaims, Claimable
  <2> DEFINE n == Cardinality({u \in Slots : HeldBy(u, Owner[ph])}) + 1
             m(t) == Cardinality(HeldBySince(t, Owner[ph]))
  <2> HIDE DEF n, m
  <2>2. row' = [t \in Slots |->
                  IF t = s
                  THEN [row[t] EXCEPT !.status = "assigned", !.holder = Owner[ph], !.at = n]
                  ELSE IF HeldBy(t, Owner[ph]) THEN [row[t] EXCEPT !.at = m(t)] ELSE row[t]]
    BY <2>1 DEF Assign, n, m
  <2> QED BY <1>1, <2>2 DEF Rows
<1>3. CASE \E s \in Slots : MarkPicked(s)
  BY <1>1, <1>3 DEF MarkPicked, Rows
<1>4. CASE \E s \in Slots : Requeue(s)
  BY <1>1, <1>4 DEF Requeue, Rows
<1>5. CASE UNCHANGED row
  BY <1>5
<1> QED
  BY <1>2, <1>3, <1>4, <1>5 DEF ServingStep, ClaimRead, ClaimNothing, Current, ConfirmRead,
     ConfirmWrite, Release, tableVars

\* The office adds a row where there is none.
LEMMA WillCallAdds ==
  ASSUME IInv, NEW o \in Orders, NEW d \in Dates, AddWillCallOrder(o, d)
  PROVE  \A s \in Slots : Live(s) \/ s \in Deliveries => row'[s] = row[s]
<1>1. \A s \in WillCalls : s = CallSlot(s.unit)
  BY DEF WillCalls, CallSlot
<1> QED BY <1>1, NotBoth DEF AddWillCallOrder

----------------------------------------------------------------------------
LEMMA DropKeptDecided ==
  ASSUME IInv, DropIsDecided, [Next]_vars
  PROVE  DropIsDecided'
<1> USE DEF IInv, DropIsDecided
<1>1. build \in BuildTypes /\ stop \in [Stops -> Trucks \cup {None}]
  BY DEF TypeOK, BuildTypeOK
<1>2. CASE UNCHANGED <<stop, build, locked>> /\ \A s \in Deliveries : Live(s) => Live(s)'
  BY <1>2 DEF RowsAt, BuildDate, PlanOrders
<1>3. CASE \E ph \in Phones : ServingStep(ph) /\ UNCHANGED <<stop, flags, inv, build>>
  BY <1>2, <1>3, ServingKeepsRows DEF Slots
<1>4. CASE \E plan \in Plans : StartBuild(plan)
  BY <1>4 DEF StartBuild, IdleBuild, PlanOrders
<1>5. CASE BuildStep
  <2>1. CASE ReadVanished
    <3>1. build'.plan = build.plan /\ build'.pc = "drop" /\ UNCHANGED <<row, stop>>
          /\ build'.drop = {o \in Orders : /\ stop[<<BuildDate, o>>] # None
                                           /\ o \notin PlanOrders
                                           /\ \A s \in RowsAt(BuildDate, o) : ~ InProgress(s)}
      BY <1>1, <2>1 DEF ReadVanished, BuildTypes, servingVars
    <3>2. UNCHANGED <<BuildDate, PlanOrders>> /\ \A d, o : RowsAt(d, o)' = RowsAt(d, o)
      BY <3>1 DEF BuildDate, PlanOrders, RowsAt, Live
    <3> QED BY <3>1, <3>2
  <2>2. CASE DropVanished
    <3>1. /\ build'.plan = build.plan /\ build'.pc = "upsert" /\ build'.drop = build.drop
          /\ UNCHANGED <<row, stop>> /\ build.pc = "drop"
      BY <1>1, <2>2 DEF DropVanished, BuildTypes
    <3>2. UNCHANGED <<BuildDate, PlanOrders>> /\ \A d, o : RowsAt(d, o)' = RowsAt(d, o)
      BY <3>1 DEF BuildDate, PlanOrders, RowsAt, Live
    <3>3. \A s \in locked' : s.order \in build.drop
      BY <2>2 DEF DropVanished, RowsAt
    <3> QED BY <3>1, <3>2, <3>3
  <2>3. CASE CommitStops
    <3>1. /\ build'.plan = build.plan /\ build'.pc = "clear" /\ build'.drop = {}
          /\ build.pc = "upsert" /\ locked' = {}
      BY <1>1, <2>3 DEF CommitStops, BuildTypes
    <3>2. UNCHANGED <<BuildDate, PlanOrders>>
      BY <3>1 DEF BuildDate, PlanOrders
    <3>3. ASSUME NEW o \in Orders, PlanOrders # {}, stop'[<<BuildDate, o>>] # None, o \notin PlanOrders
          PROVE  RowsAt(BuildDate, o)' # {}
      <4>1. BuildDate \in Dates
        BY <3>1, PlanTyped, BuildAssumption DEF BuildDate, BuildAssumption
      <4>2. <<BuildDate, o>> \in Stops
        BY <4>1 DEF Stops
      <4>3. o \notin build.drop /\ stop[<<BuildDate, o>>] # None
        BY <2>3, <3>3, <4>2 DEF CommitStops
      <4>4. PICK s \in RowsAt(BuildDate, o) : s \notin locked
        BY <3>1, <3>3, <4>3 DEF RowsAt
      <4>5. row'[s] = row[s] /\ s \in Slots
        BY <2>3, <4>4 DEF CommitStops, RowsAt, Slots
      <4> QED BY <3>2, <4>4, <4>5 DEF RowsAt, Live
    <3> QED BY <3>1, <3>2, <3>3
  <2>4. CASE ClearQueue \/ CommitQueue
    BY <1>1, <2>4 DEF ClearQueue, CommitQueue, BuildTypes
  <2>5. CASE CommitFlags \/ Rollback
    BY <2>5 DEF CommitFlags, Rollback, IdleBuild
  <2> QED
    BY <1>5, <2>1, <2>2, <2>3, <2>4, <2>5 DEF BuildStep, BuildRefused, BuildCrash
<1>6. CASE \E o \in Orders, d \in Dates : AddWillCallOrder(o, d)
  <2>1. UNCHANGED <<stop, build, locked>>
    BY <1>6 DEF AddWillCallOrder
  <2>2. \A s \in Deliveries : row'[s] = row[s]
    BY <1>6, WillCallAdds DEF Slots
  <2> QED BY <1>2, <2>1, <2>2 DEF Live
<1>7. CASE \E u \in Units : \E item \in Items[u] \cup {None} : SyncUnit(u, item)
  BY <1>2, <1>7 DEF SyncUnit, servingVars, Live
<1>8. CASE UNCHANGED vars
  BY <1>2, <1>8 DEF vars, Live
<1> QED BY <1>3, <1>4, <1>5, <1>6, <1>7, <1>8 DEF Next

\* upsert_stops keeps a stop that left the route sheet only for work someone acted on, though
\* phones release and confirm between its SELECT, its DELETEs and its commit.
THEOREM KeptStopsAlwaysHaveWork == Spec => []KeptStopsHaveWork
<1>1. Init => DropIsDecided
  BY DEF Init, BuildInit, IdleBuild, DropIsDecided
<1>2. IInv /\ DropIsDecided /\ [Next]_vars => DropIsDecided'
  BY DropKeptDecided
<1>3. DropIsDecided => KeptStopsHaveWork
  BY DEF DropIsDecided, KeptStopsHaveWork
<1> QED BY Invariance, <1>1, <1>2, <1>3, PTL DEF Spec

----------------------------------------------------------------------------
LEMMA DatesKept ==
  ASSUME IInv, LocksAreDated, [Next]_vars
  PROVE  LocksAreDated'
<1> USE DEF IInv, LocksAreDated
<1>1. build \in BuildTypes /\ locked \subseteq Slots /\ \A s \in Slots : row[s] \in Rows
  BY DEF TypeOK, BuildTypeOK, ServingTypeOK, TableTypeOK
<1>2. \A s \in locked : Live(s)
  BY DEF HoldersMatch, Live
<1>3. CASE \E ph \in Phones : ServingStep(ph) /\ UNCHANGED <<stop, flags, inv, build>>
  BY <1>1, <1>3, ServingKeepsRows, ServingKeepsDates DEF Slots, BuildDate
<1>4. CASE \E plan \in Plans : StartBuild(plan)
  <2>1. UNCHANGED <<row, locked>> /\ locked = {}
    BY <1>4 DEF StartBuild, servingVars, BuildInProgress
  <2> QED BY <2>1 DEF Live
<1>5. CASE BuildStep
  <2>1. CASE DropVanished
    <3>1. build'.plan = build.plan /\ UNCHANGED row
      BY <1>1, <2>1 DEF DropVanished, BuildTypes
    <3>2. \A s \in locked' : s \in Deliveries /\ s.date = BuildDate /\ Live(s)
      BY <2>1 DEF DropVanished, RowsAt
    <3> QED BY <3>1, <3>2 DEF BuildDate, Live
  <2>2. CASE ClearQueue
    <3>1. build'.plan = build.plan /\ UNCHANGED row
      BY <1>1, <2>2 DEF ClearQueue, BuildTypes
    <3> QED BY <2>2, <3>1 DEF ClearQueue, BuildDate, Live
  <2>3. CASE CommitStops
    BY <2>3 DEF CommitStops, Live, Absent, Slots
  <2>4. CASE CommitQueue
    <3>1. \A s \in Inserted : s.date = BuildDate
      BY DEF Inserted, Written, SlotOf, BuildDate
    <3>2. ASSUME NEW s \in Deliveries, Live(s)' PROVE row'[s].date = s.date
      <4>1. s \in Slots
        BY DEF Slots
      <4>2. CASE s \in Inserted
        BY <2>4, <3>1, <4>1, <4>2 DEF CommitQueue, Absent
      <4>3. CASE s \notin Inserted
        <5>1. row'[s] \in {Absent, row[s], [row[s] EXCEPT !.route = PlanRow(s).route]}
          BY <2>4, <4>1, <4>3 DEF CommitQueue
        <5>2. Live(s) /\ row'[s].date = row[s].date
          BY <1>1, <3>2, <4>1, <5>1 DEF Live, Absent, Rows
        <5> QED BY <5>2
      <4> QED BY <4>2, <4>3
    <3> QED BY <2>4, <3>2 DEF CommitQueue
  <2>5. CASE ReadVanished
    <3>1. build'.plan = build.plan /\ UNCHANGED <<row, locked>>
      BY <1>1, <2>5 DEF ReadVanished, BuildTypes, servingVars
    <3> QED BY <3>1 DEF BuildDate, Live
  <2>6. CASE CommitFlags
    <3>1. UNCHANGED <<row, locked>> /\ locked = {}
      BY <2>6 DEF CommitFlags, servingVars, BuildInProgress
    <3> QED BY <3>1 DEF Live
  <2>7. CASE Rollback
    BY <2>7 DEF Rollback, Live
  <2> QED
    BY <1>5, <2>1, <2>2, <2>3, <2>4, <2>5, <2>6, <2>7 DEF BuildStep, BuildRefused, BuildCrash
<1>6. CASE \E o \in Orders, d \in Dates : AddWillCallOrder(o, d)
  <2>1. UNCHANGED <<locked, build>>
    BY <1>6 DEF AddWillCallOrder
  <2>2. \A s \in Slots : Live(s) \/ s \in Deliveries => row'[s] = row[s]
    BY <1>6, WillCallAdds
  <2> QED BY <1>1, <1>2, <2>1, <2>2 DEF Live, Slots, BuildDate
<1>7. CASE \E u \in Units : \E item \in Items[u] \cup {None} : SyncUnit(u, item)
  BY <1>7 DEF SyncUnit, servingVars, Live, BuildDate
<1>8. CASE UNCHANGED vars
  BY <1>8 DEF vars, Live, BuildDate
<1> QED BY <1>3, <1>4, <1>5, <1>6, <1>7, <1>8 DEF Next

\* claim_next answers None only when nothing the picker may see is queued, or a build has
\* just deleted it and not committed (FOR UPDATE SKIP LOCKED).
THEOREM NothingAlwaysMeansNothing == Spec => NothingMeansNothing
<1>1. Init => LocksAreDated
  BY DEF Init, LocksAreDated, Live, Absent, Slots
<1>2. IInv /\ LocksAreDated /\ [Next]_vars => LocksAreDated'
  BY DatesKept
<1>3. ASSUME IInv, LocksAreDated, Next, NEW ph \in Phones,
             phone[ph].pc = "claiming", phone'[ph].pc = "idle", phone'[ph].shows = None,
             NEW s \in Slots, row[s].status = "queued", Visible(s, phone[ph].date)
      PROVE  build.pc \in {"upsert", "write"} /\ row[s].date = BuildDate
  <2>1. phone \in [Phones -> PhoneStates]
    BY <1>3 DEF IInv, TypeOK, ServingTypeOK
  <2>2. CASE \E other \in Phones : ServingStep(other)
    <3>1. PICK other \in Phones : ServingStep(other)
      BY <2>2
    <3>2. other = ph
      BY <1>3, <2>1, <3>1 DEF ServingStep, ClaimRead, ClaimTake, ClaimNothing, Current, ConfirmRead,
         ConfirmWrite, Release
    <3>3. ClaimTake(ph) \/ ClaimNothing(ph)
      BY <1>3, <3>1, <3>2 DEF ServingStep, ClaimRead, Current, ConfirmRead, ConfirmWrite, Release
    <3>4. ~ ClaimTake(ph)
      <4> SUFFICES ASSUME ClaimTake(ph) PROVE FALSE
        OBVIOUS
      <4>1. PICK t \in Slots : phone' = [phone EXCEPT ![ph] = IdlePhone(t)]
        BY DEF ClaimTake, NextClaims, Claimable
      <4>2. phone'[ph].shows = t
        BY <2>1, <4>1 DEF IdlePhone
      <4> QED BY <1>3, <4>2, SlotAssumption DEF SlotAssumption
    <3>5. s \in locked
      BY <1>3, <3>3, <3>4 DEF ClaimNothing, Claimable
    <3> QED BY <1>3, <3>5 DEF IInv, BuildInProgress, LocksAreDated
  <2>3. CASE \E gone : Forget(gone)
    <3>1. phone'[ph].pc = phone[ph].pc
      BY <2>1, <2>3 DEF Forget, PhoneStates
    <3> QED BY <1>3, <3>1
  <2>4. CASE UNCHANGED phone
    BY <1>3, <2>4
  <2> QED
    BY <1>3, <2>2, <2>3, <2>4 DEF Next, StartBuild, BuildStep, ReadVanished, DropVanished,
       CommitStops, ClearQueue, CommitQueue, CommitFlags, BuildRefused, BuildCrash, Rollback,
       AddWillCallOrder, SyncUnit, servingVars
<1>4. IInv /\ LocksAreDated /\ [Next]_vars =>
        [\A ph \in Phones :
           phone[ph].pc = "claiming" /\ phone'[ph].pc = "idle" /\ phone'[ph].shows = None =>
             \A s \in Slots : row[s].status = "queued" /\ Visible(s, phone[ph].date) =>
               build.pc \in {"upsert", "write"} /\ row[s].date = BuildDate]_vars
  BY <1>3
<1> QED BY Invariance, <1>1, <1>2, <1>4, PTL DEF Spec, NothingMeansNothing

----------------------------------------------------------------------------
(***************************************************************************)
(* The order of the claims.                                                *)
(***************************************************************************)

\* No two will-calls in the table have one number: nextval is greater than every number
\* there, and the places of one order's units differ.
SeqsApart ==
  \A b, c \in WillCalls : Live(b) /\ Live(c) /\ b # c => row[b].seq # row[c].seq

\* No request of a phone changes a number.
LEMMA ServingKeepsSeqs ==
  ASSUME TypeOK, NEW ph \in Phones, ServingStep(ph)
  PROVE  \A t \in Slots : row'[t].seq = row[t].seq
<1>1. row \in [Slots -> Rows] /\ \A t \in Slots : row[t] \in Rows
  BY DEF TypeOK, ServingTypeOK, TableTypeOK
<1>2. CASE ClaimTake(ph)
  <2>1. PICK s \in Slots : Assign(s, Owner[ph])
    BY <1>2 DEF ClaimTake, NextClaims, Claimable
  <2> DEFINE n == Cardinality({u \in Slots : HeldBy(u, Owner[ph])}) + 1
             m(t) == Cardinality(HeldBySince(t, Owner[ph]))
  <2> HIDE DEF n, m
  <2>2. row' = [t \in Slots |->
                  IF t = s
                  THEN [row[t] EXCEPT !.status = "assigned", !.holder = Owner[ph], !.at = n]
                  ELSE IF HeldBy(t, Owner[ph]) THEN [row[t] EXCEPT !.at = m(t)] ELSE row[t]]
    BY <2>1 DEF Assign, n, m
  <2> QED BY <1>1, <2>2 DEF Rows
<1>3. CASE \E s \in Slots : MarkPicked(s)
  BY <1>1, <1>3 DEF MarkPicked, Rows
<1>4. CASE \E s \in Slots : Requeue(s)
  BY <1>1, <1>4 DEF Requeue, Rows
<1>5. CASE UNCHANGED row
  BY <1>5
<1> QED
  BY <1>2, <1>3, <1>4, <1>5 DEF ServingStep, ClaimRead, ClaimNothing, Current, ConfirmRead,
     ConfirmWrite, Release, tableVars

\* Two units of an order get places that differ, and every place is above 0.
LEMMA PlacesDiffer ==
  ASSUME NEW new \in SUBSET Units, NEW u \in new
  PROVE  LET place(v) == Cardinality({w \in new : ItemPos[w] <= ItemPos[v]})
         IN  /\ place(u) \in Nat /\ place(u) > 0
             /\ \A v \in new : u # v => place(u) # place(v)
<1> DEFINE upTo(v) == {w \in new : ItemPos[w] <= ItemPos[v]}
<1>1. /\ \A v \in new : ItemPos[v] \in Nat
      /\ \A v, w \in new : v # w => ItemPos[v] # ItemPos[w]
  BY WillCallAssumption DEF WillCallAssumption
<1>2. \A v \in new : IsFiniteSet(upTo(v)) /\ Cardinality(upTo(v)) \in Nat
  BY FS_Subset, FS_CardinalityType, TableAssumption DEF TableAssumption
<1>3. Cardinality(upTo(u)) > 0
  <2>1. u \in upTo(u)
    BY <1>1
  <2> QED BY <1>2, <2>1, FS_EmptySet
<1>4. ASSUME NEW v \in new, NEW w \in new, ItemPos[v] < ItemPos[w]
      PROVE  Cardinality(upTo(v)) # Cardinality(upTo(w))
  <2>1. upTo(v) \in SUBSET upTo(w)
    BY <1>1, <1>4
  <2>2. w \in upTo(w) /\ w \notin upTo(v)
    BY <1>1, <1>4
  <2> HIDE DEF upTo
  <2> QED BY <1>2, <2>1, <2>2, FS_Subset
<1>5. ASSUME NEW v \in new, u # v
      PROVE  Cardinality(upTo(u)) # Cardinality(upTo(v))
  <2>1. ItemPos[u] < ItemPos[v] \/ ItemPos[v] < ItemPos[u]
    BY <1>1, <1>5
  <2> QED BY <1>4, <2>1
<1> QED BY <1>2, <1>3, <1>5

\* What the office adds is numbered after every will-call there is.
LEMMA WillCallKeepsSeqs ==
  ASSUME IInv, SeqsApart, NEW o \in Orders, NEW d \in Dates, AddWillCallOrder(o, d)
  PROVE  SeqsApart'
<1> DEFINE new == {u \in PickableOf(o) : ~ Live(CallSlot(u))}
           place(u) == Cardinality({v \in new : ItemPos[v] <= ItemPos[u]})
<1>1. PICK base \in 0..MaxSeq :
        /\ IsTopSeq(base)
        /\ row' = [s \in Slots |-> IF s \in WillCalls /\ s.unit \in new
                                   THEN QueuedRow(d, base + place(s.unit), NoRoute)
                                   ELSE row[s]]
  BY DEF AddWillCallOrder
<1>2. new \in SUBSET Units
  BY DEF PickableOf
<1>3. \A u, v \in new : place(u) \in Nat /\ place(u) > 0 /\ (u # v => place(u) # place(v))
  <2> HIDE DEF new
  <2> QED BY <1>2, PlacesDiffer
<1> HIDE DEF new, place
<1>4. base \in Nat /\ \A s \in WillCalls : row[s].seq <= base
  BY <1>1, WillCallAssumption DEF IsTopSeq, WillCallAssumption
<1>5. \A s \in WillCalls : row[s].seq \in Nat
  BY DEF IInv, TypeOK, ServingTypeOK, TableTypeOK, Rows, Slots
<1>6. \A s \in WillCalls :
        IF s.unit \in new THEN row'[s].seq = base + place(s.unit) ELSE row'[s] = row[s]
  BY <1>1 DEF Slots, QueuedRow, Absent
<1>7. \A b, c \in WillCalls : b # c => b.unit # c.unit
  BY DEF WillCalls
<1> SUFFICES ASSUME NEW b \in WillCalls, NEW c \in WillCalls, Live(b)', Live(c)', b # c
             PROVE  row'[b].seq # row'[c].seq
  BY DEF SeqsApart
<1>8. CASE b.unit \in new /\ c.unit \in new
  BY <1>3, <1>4, <1>6, <1>7, <1>8
<1>9. CASE b.unit \in new /\ c.unit \notin new
  BY <1>3, <1>4, <1>5, <1>6, <1>9
<1>10. CASE b.unit \notin new /\ c.unit \in new
  BY <1>3, <1>4, <1>5, <1>6, <1>10
<1>11. CASE b.unit \notin new /\ c.unit \notin new
  BY <1>6, <1>11 DEF SeqsApart, Live
<1> QED BY <1>8, <1>9, <1>10, <1>11

LEMMA SeqsKept ==
  ASSUME IInv, SeqsApart, [Next]_vars
  PROVE  SeqsApart'
<1> USE DEF IInv
<1>1. WillCalls \subseteq Slots /\ row \in [Slots -> Rows]
  BY DEF Slots, TypeOK, ServingTypeOK, TableTypeOK
<1>2. CASE \A c \in WillCalls : Live(c)' => Live(c) /\ row'[c].seq = row[c].seq
  BY <1>2 DEF SeqsApart
<1>3. CASE \E ph \in Phones : ServingStep(ph) /\ UNCHANGED <<stop, flags, inv, build>>
  BY <1>1, <1>2, <1>3, ServingKeepsRows, ServingKeepsSeqs
<1>4. CASE UNCHANGED row
  BY <1>2, <1>4 DEF Live
<1>5. CASE BuildStep
  <2>1. CASE CommitStops
    BY <1>1, <1>2, <2>1 DEF CommitStops, Live, Absent
  <2>2. CASE CommitQueue
    <3>1. build.pc # "idle" /\ Inserted \subseteq Deliveries /\ Written \subseteq Deliveries
      BY <2>2, WrittenTyped DEF CommitQueue, Inserted
    <3>2. \A c \in WillCalls : row'[c] \in {Absent, row[c]}
      BY <1>1, <2>2, <3>1, NotBoth DEF CommitQueue
    <3> QED BY <1>2, <3>2 DEF Live, Absent
  <2> QED
    BY <1>4, <1>5, <2>1, <2>2 DEF BuildStep, ReadVanished, DropVanished, ClearQueue, CommitFlags,
       BuildRefused, BuildCrash, Rollback, servingVars
<1>6. CASE \E o \in Orders, d \in Dates : AddWillCallOrder(o, d)
  BY <1>6, WillCallKeepsSeqs
<1> QED
  BY <1>3, <1>4, <1>5, <1>6 DEF Next, StartBuild, SyncUnit, servingVars, vars

\* The only step that turns a queued row into an assigned one is a claim, of the first row
\* in the claim order among those it may take; every will-call is one it may take.
LEMMA ClaimsAreFirst ==
  ASSUME IInv, Next, NEW s \in Slots, row[s].status = "queued", row'[s].status = "assigned"
  PROVE  \E d : s \in NextClaims(d)
<1> USE DEF IInv
<1>1. row \in [Slots -> Rows]
  BY DEF TypeOK, ServingTypeOK, TableTypeOK
<1>2. CASE \E ph \in Phones : ServingStep(ph)
  <2>1. PICK ph \in Phones : ServingStep(ph)
    BY <1>2
  <2>2. ASSUME NEW t \in Slots, MarkPicked(t) \/ Requeue(t) PROVE FALSE
    BY <1>1, <2>2 DEF MarkPicked, Requeue, Rows
  <2>3. ClaimTake(ph)
    BY <2>1, <2>2 DEF ServingStep, ClaimRead, ClaimNothing, Current, ConfirmRead,
       ConfirmWrite, Release, tableVars
  <2>4. PICK t \in NextClaims(phone[ph].date) : Assign(t, Owner[ph])
    BY <2>3 DEF ClaimTake
  <2>5. t \in Slots /\ Owner[ph] \in Pickers
    BY <2>4, ServingAssumption DEF NextClaims, Claimable, ServingAssumption
  <2>6. s = t
    BY <2>4, <2>5, AssignEffect DEF TypeOK, ServingTypeOK
  <2> QED BY <2>4, <2>6
<1>3. CASE UNCHANGED row
  BY <1>3
<1>4. CASE BuildStep
  <2>1. CASE CommitStops
    BY <2>1 DEF CommitStops, Absent
  <2>2. CASE CommitQueue
    <3>1. \A w \in Written : PlanRow(w).status # "assigned"
      BY <2>2, WrittenTyped DEF CommitQueue
    <3>2. Inserted \subseteq Written
      BY DEF Inserted
    <3> QED BY <2>2, <3>1, <3>2 DEF CommitQueue, Absent
  <2> QED
    BY <1>3, <1>4, <2>1, <2>2 DEF BuildStep, ReadVanished, DropVanished, ClearQueue, CommitFlags,
       BuildRefused, BuildCrash, Rollback, servingVars
<1>5. CASE \E o \in Orders, d \in Dates : AddWillCallOrder(o, d)
  <2>1. Live(s)
    BY DEF Live
  <2> QED BY <1>5, <2>1, WillCallAdds
<1> QED
  BY <1>2, <1>3, <1>4, <1>5 DEF Next, StartBuild, SyncUnit, servingVars

\* A claim overtakes no will-call it could have taken, and among will-calls none that was
\* added earlier, whatever builds, releases and re-adding have made of the table.
THEOREM WillCallsAlwaysGoFirst == Spec => WillCallsGoFirst
<1>1. Init => SeqsApart
  BY DEF Init, SeqsApart, Live, Absent, Slots
<1>2. IInv /\ SeqsApart /\ [Next]_vars => SeqsApart'
  BY SeqsKept
<1>3. ASSUME IInv, SeqsApart, Next, NEW s \in Slots, NEW c \in Slots,
             row[s].status = "queued", row'[s].status = "assigned",
             c \in WillCalls, row[c].status = "queued", c \notin locked, c # s
      PROVE  s \in WillCalls /\ row[s].seq < row[c].seq
  <2>1. PICK d : s \in NextClaims(d)
    BY <1>3, ClaimsAreFirst
  <2>2. c \in Claimable(d)
    BY <1>3 DEF Claimable, Visible
  <2>3. ~ Before(c, s)
    BY <2>1, <2>2 DEF NextClaims
  <2>4. s \in WillCalls
    BY <1>3, <2>3 DEF Before
  <2>5. row[s].seq # row[c].seq
    BY <1>3, <2>4 DEF SeqsApart, Live
  <2>6. row[s].seq \in Nat /\ row[c].seq \in Nat
    BY <1>3 DEF IInv, TypeOK, ServingTypeOK, TableTypeOK, Rows
  <2>7. ~ (row[c].seq < row[s].seq)
    BY <1>3, <2>3, <2>4 DEF Before
  <2> QED BY <2>4, <2>5, <2>6, <2>7
<1>4. IInv /\ SeqsApart /\ [Next]_vars =>
        [\A s, c \in Slots :
           /\ row[s].status = "queued" /\ row'[s].status = "assigned"
           /\ c \in WillCalls /\ row[c].status = "queued" /\ c \notin locked /\ c # s
           => s \in WillCalls /\ row[s].seq < row[c].seq]_servingVars
  BY <1>3 DEF vars, servingVars
<1> QED BY Invariance, <1>1, <1>2, <1>4, PTL DEF Spec, WillCallsGoFirst

----------------------------------------------------------------------------
(***************************************************************************)
(* What a rebuild leaves in the queue.                                     *)
(***************************************************************************)

\* Between the clear of write_pick_queue and its commit, a queued delivery row of the date
\* is one the clear has deleted or one that was released since.
RestIsReleased ==
  build.pc = "write" =>
    \A s \in Deliveries : row[s].status = "queued" /\ s.date = BuildDate =>
      s \in locked \cup released

\* The memory restricts nothing.
LEMMA HistoryIsASpec == HistorySpec => Spec
<1>1. HistoryInit => Init
  BY DEF HistoryInit
<1>2. [HistoryNext]_historyVars => [Next]_vars
  BY DEF HistoryNext, historyVars
<1> QED BY <1>1, <1>2, PTL DEF HistorySpec, Spec

\* Who moves a build into write_pick_queue's transaction, out of it, and acts during it.
LEMMA WriteSteps ==
  ASSUME BuildTypeOK, Next
  PROVE  /\ build.pc # "write" /\ build'.pc = "write" => ClearQueue
         /\ build.pc = "write" /\ build'.pc = "flags" => CommitQueue
         /\ build.pc = "write" /\ build'.pc = "write" =>
              \/ \E ph \in Phones : ServingStep(ph) /\ UNCHANGED build
              \/ \E o \in Orders, d \in Dates : AddWillCallOrder(o, d)
              \/ \E u \in Units : \E item \in Items[u] \cup {None} : SyncUnit(u, item)
<1>1. build \in BuildTypes
  BY DEF BuildTypeOK
<1>2. CASE \E ph \in Phones : ServingStep(ph) /\ UNCHANGED <<stop, flags, inv, build>>
  BY <1>2
<1>3. CASE \E plan \in Plans : StartBuild(plan)
  BY <1>3 DEF StartBuild, IdleBuild
<1>4. CASE BuildStep
  <2>1. CASE ReadVanished
    BY <1>1, <2>1 DEF ReadVanished, BuildTypes
  <2>2. CASE DropVanished \/ CommitStops
    BY <1>1, <2>2 DEF DropVanished, CommitStops, BuildTypes
  <2>3. CASE ClearQueue \/ CommitQueue
    BY <1>1, <2>3 DEF ClearQueue, CommitQueue, BuildTypes
  <2>4. CASE CommitFlags \/ Rollback
    BY <2>4 DEF CommitFlags, Rollback, IdleBuild
  <2> QED BY <1>4, <2>1, <2>2, <2>3, <2>4 DEF BuildStep, BuildRefused, BuildCrash
<1>5. CASE \E o \in Orders, d \in Dates : AddWillCallOrder(o, d)
  BY <1>5 DEF AddWillCallOrder
<1>6. CASE \E u \in Units : \E item \in Items[u] \cup {None} : SyncUnit(u, item)
  BY <1>6 DEF SyncUnit
<1> QED BY <1>2, <1>3, <1>4, <1>5, <1>6 DEF Next

LEMMA RestKept ==
  ASSUME IInv, LocksAreDated, RestIsReleased, [HistoryNext]_historyVars
  PROVE  RestIsReleased'
<1> USE DEF IInv, LocksAreDated, RestIsReleased
<1>1. build \in BuildTypes
  BY DEF TypeOK, BuildTypeOK
<1>2. CASE UNCHANGED historyVars
  BY <1>2 DEF historyVars, vars, BuildDate
<1>3. CASE build.pc # "write" /\ HistoryNext
  <2> SUFFICES ASSUME build'.pc = "write" PROVE RestIsReleased'
    OBVIOUS
  <2>1. ClearQueue
    BY <1>3, WriteSteps DEF HistoryNext, TypeOK
  <2>2. build'.plan = build.plan /\ UNCHANGED row
    BY <1>1, <2>1 DEF ClearQueue, BuildTypes
  <2> QED BY <2>1, <2>2 DEF ClearQueue, BuildDate, Live, Slots
<1>4. CASE build.pc = "write" /\ HistoryNext
  <2> SUFFICES ASSUME build'.pc = "write", NEW s \in Deliveries, row'[s].status = "queued",
                      s.date = BuildDate'
               PROVE  s \in (locked \cup released)'
    OBVIOUS
  <2>1. s \in Slots
    BY DEF Slots
  <2>2. released' = released \cup {t \in Deliveries : row[t].status = "assigned"
                                                     /\ row'[t].status = "queued"}
    BY <1>4 DEF HistoryNext
  <2>3. \/ \E ph \in Phones : ServingStep(ph) /\ UNCHANGED build
        \/ \E o \in Orders, d \in Dates : AddWillCallOrder(o, d)
        \/ \E u \in Units : \E item \in Items[u] \cup {None} : SyncUnit(u, item)
    BY <1>4, WriteSteps DEF HistoryNext, TypeOK
  <2>4. UNCHANGED <<build, locked>>
    BY <2>3, ServingKeepsRows DEF AddWillCallOrder, SyncUnit, servingVars
  <2>5. row[s].status \in {"queued", "assigned"}
    <3>1. CASE \E ph \in Phones : ServingStep(ph)
      BY <2>1, <3>1, ServingEffect
    <3>2. CASE \E o \in Orders, d \in Dates : AddWillCallOrder(o, d)
      BY <2>1, <3>2, WillCallAdds
    <3>3. CASE UNCHANGED row
      BY <3>3
    <3> QED BY <2>3, <3>1, <3>2, <3>3 DEF SyncUnit, servingVars
  <2> QED BY <1>4, <2>2, <2>4, <2>5 DEF BuildDate
<1> QED BY <1>2, <1>3, <1>4

\* A rebuild strands no stale work: what is queued for the date once write_pick_queue has
\* committed is routed as the plan has it, or was released while the transaction ran.
THEOREM QueueIsAlwaysThePlan == HistorySpec => QueueIsThePlan
<1>1. Init => LocksAreDated
  BY DEF Init, LocksAreDated, Live, Absent, Slots
<1>2. HistoryInit => RestIsReleased
  BY DEF HistoryInit, Init, BuildInit, IdleBuild, RestIsReleased
<1>3. IInv /\ LocksAreDated /\ [Next]_vars => LocksAreDated'
  BY DatesKept
<1>4. IInv /\ LocksAreDated /\ RestIsReleased /\ [HistoryNext]_historyVars => RestIsReleased'
  BY RestKept
<1>5. ASSUME IInv, RestIsReleased, [Next]_vars, build.pc = "write", build'.pc = "flags",
             NEW s \in Deliveries, row'[s].status = "queued", s.date = BuildDate
      PROVE  s \in released \/ (s \in Written /\ row'[s].route = PlanRow(s).route)
  <2>1. build \in BuildTypes /\ s \in Slots
    BY <1>5 DEF IInv, TypeOK, BuildTypeOK, Slots
  <2>2. CommitQueue
    BY <1>5, WriteSteps DEF IInv, TypeOK, vars
  <2>3. CASE s \in Inserted
    BY <2>1, <2>2, <2>3 DEF CommitQueue, Inserted, Absent
  <2>4. CASE s \notin Inserted
    <3>1. s \notin locked
      BY <1>5, <2>1, <2>2, <2>4 DEF CommitQueue, Absent
    <3>2. row'[s].status = row[s].status
      <4>1. row[s] \in Rows
        BY <1>5, <2>1 DEF IInv, TypeOK, ServingTypeOK, TableTypeOK
      <4> QED BY <2>1, <2>2, <2>4, <3>1, <4>1 DEF CommitQueue, Rows
    <3> QED BY <1>5, <3>1, <3>2 DEF RestIsReleased
  <2> QED BY <2>3, <2>4
<1>6. IInv /\ RestIsReleased /\ [Next]_vars =>
        [build.pc = "write" /\ build'.pc = "flags" =>
           \A s \in Deliveries : row'[s].status = "queued" /\ s.date = BuildDate =>
             s \in released \/ (s \in Written /\ row'[s].route = PlanRow(s).route)]_vars
  BY <1>5
<1>7. HistoryInit => Init
  BY DEF HistoryInit
<1> QED
  BY Invariance, HistoryIsASpec, <1>1, <1>2, <1>3, <1>4, <1>6, <1>7, PTL
     DEF Spec, HistorySpec, QueueIsThePlan
=============================================================================
