---------------------------- MODULE ScannerBuild ----------------------------
(***************************************************************************)
(* The scanner pick build (services/scanner_pick_builder.run), the writer  *)
(* that rebuilds a date's stops and queue while pickers work.  It reads    *)
(* the day from the ERP first and then makes three transactions:           *)
(* upsert_stops, write_pick_queue and write_shortfall_flags.  Each commits *)
(* on its own, a foreign key that refuses a statement ends the build, and  *)
(* so does a crash.                                                        *)
(*                                                                         *)
(* A statement of a transaction is a step where another process can act    *)
(* between it and the next one with an effect; what is written becomes     *)
(* visible with the commit, and until then the rows it deletes are locked. *)
(*                                                                         *)
(* One build runs at a time: the workflow serialises them.                 *)
(***************************************************************************)
EXTENDS PickServing

CONSTANTS
  Trucks,
  Unrouted,     \* the truck buckets fetch_stops leaves out
  Plans,        \* what a day in the ERP can come to: stops, pick rows and shortfalls
  Items,        \* Items[u]: what inventory_items can say of unit u, its order and pickability
  CanCrash      \* whether the build's process can die

Stops == Dates \X Orders

\* A plan is what build_units and build_scanner_pick_rows return for a date.  A unit is
\* allocated to one line, so a plan has one row per (order, unit).
PlanTypes ==
  [date : Dates, stops : SUBSET [order : Orders, truck : Trucks],
   rows : SUBSET [order : Orders, unit : Units, route : Routes,
                  status : {"queued", "in_transit"}],
   short : SUBSET Orders]

ItemTypes == [order : Orders, pickable : BOOLEAN]

SlotOf(plan, r) == [date |-> plan.date, order |-> r.order, unit |-> r.unit]

ASSUME BuildAssumption ==
  /\ None \notin Trucks /\ None \notin Plans /\ None \notin Stops
  /\ Plans \subseteq PlanTypes
  /\ \A plan \in Plans :
       /\ \A r \in plan.rows : SlotOf(plan, r) \in Deliveries
       /\ \A r1, r2 \in plan.rows : SlotOf(plan, r1) = SlotOf(plan, r2) => r1 = r2
       /\ \A r \in plan.rows : \E st \in plan.stops : st.order = r.order
  /\ \A u \in Units : None \notin Items[u] /\ Items[u] \subseteq ItemTypes
  /\ CanCrash \in BOOLEAN

VARIABLES
  stop,       \* delivery_stops: stop[<<d, o>>] is the stop's truck, or None
  flags,      \* unresolved shortfall flags: the order, and the stop they refer to
  inv,        \* inventory_items: inv[u] is what is recorded of unit u, or None
  build       \* the running build: its next statement, its plan, the stops it will drop

buildVars == <<stop, flags, build>>

IdleBuild == [pc |-> "idle", plan |-> None, drop |-> {}]

BuildSteps == {"vanished", "drop", "upsert", "clear", "write", "flags"}
BuildTypes == [pc : BuildSteps \cup {"idle"}, plan : Plans \cup {None}, drop : SUBSET Orders]
Flags == [order : Orders, stop : Stops \cup {None}]

BuildDate == build.plan.date
PlanOrders == {st.order : st \in build.plan.stops}
RowsAt(d, o) == {s \in Deliveries : s.date = d /\ s.order = o /\ Live(s)}

\* fetch_stops: the stops of a date a pick can be attached to.
Fetched(d, o) == stop[<<d, o>>] \notin Unrouted \cup {None}

BuildInit ==
  /\ stop = [st \in Stops |-> None]
  /\ flags = {}
  /\ build = IdleBuild

----------------------------------------------------------------------------
\* _guard_no_split_orders: one order on two trucks is refused before any write.
NoSplitOrders(plan) ==
  \A a, b \in plan.stops : a.order = b.order => a.truck = b.truck

\* The reads of the ERP are done, the connection is opened.
StartBuild(plan) ==
  /\ build.pc = "idle"
  /\ NoSplitOrders(plan)
  /\ build' = [IdleBuild EXCEPT !.pc = IF plan.stops = {} THEN "clear" ELSE "vanished",
                                !.plan = plan]
  /\ UNCHANGED <<servingVars, stop, flags, inv>>

\* Slip: the vanished stops are found through their picks, so one without picks stays.
ReadVanishedByPicks ==
  /\ build.pc = "vanished"
  /\ build' = [build EXCEPT
       !.pc = "drop",
       !.drop = {o \in Orders : /\ stop[<<BuildDate, o>>] # None
                                /\ o \notin PlanOrders
                                /\ RowsAt(BuildDate, o) # {}
                                /\ \A s \in RowsAt(BuildDate, o) : ~ InProgress(s)}]
  /\ UNCHANGED <<servingVars, stop, flags, inv>>

\* upsert_stops, the SELECT of the stops that left the route sheet: those nobody has
\* acted on will be dropped.
ReadVanished ==
  /\ build.pc = "vanished"
  /\ build' = [build EXCEPT
       !.pc = "drop",
       !.drop = {o \in Orders : /\ stop[<<BuildDate, o>>] # None
                                /\ o \notin PlanOrders
                                /\ \A s \in RowsAt(BuildDate, o) : ~ InProgress(s)}]
  /\ UNCHANGED <<servingVars, stop, flags, inv>>

\* Slip: pick_queue.stop_id without its foreign key.
DropRefusedByFlags == \E o \in build.drop : \E f \in flags : f.stop = <<BuildDate, o>>

\* The foreign keys of pick_queue and flags: a stop they refer to cannot be deleted.
DropRefused ==
  \E o \in build.drop :
    \/ \E s \in RowsAt(BuildDate, o) : row[s].status # "queued"
    \/ \E f \in flags : f.stop = <<BuildDate, o>>

\* upsert_stops, the DELETEs of the queued rows and of the stops.
DropVanished ==
  /\ build.pc = "drop"
  /\ ~ DropRefused
  /\ locked' = UNION {{s \in RowsAt(BuildDate, o) : row[s].status = "queued"} : o \in build.drop}
  /\ build' = [build EXCEPT !.pc = "upsert"]
  /\ UNCHANGED <<row, phone, stop, flags, inv>>

\* upsert_stops, the upserts and the commit.
CommitStops ==
  /\ build.pc = "upsert"
  /\ row' = [s \in Slots |-> IF s \in locked THEN Absent ELSE row[s]]
  /\ Forget(locked)
  /\ locked' = {}
  /\ stop' = [st \in Stops |->
       IF st[1] = BuildDate /\ st[2] \in PlanOrders
       THEN (CHOOSE p \in build.plan.stops : p.order = st[2]).truck
       ELSE IF st[1] = BuildDate /\ st[2] \in build.drop THEN None ELSE stop[st]]
  /\ build' = [build EXCEPT !.pc = "clear", !.drop = {}]
  /\ UNCHANGED <<flags, inv>>

----------------------------------------------------------------------------
\* _remap_rows: the rows whose order has a fetched stop; the others are dropped.
Remapped == {r \in build.plan.rows : Fetched(BuildDate, r.order)}
Written == {SlotOf(build.plan, r) : r \in Remapped}
PlanRow(s) == CHOOSE r \in Remapped : SlotOf(build.plan, r) = s

\* Slip: only the rows about to be written again are cleared.
ClearWritten ==
  /\ build.pc = "clear"
  /\ locked' = {s \in Written : row[s].status = "queued" /\ row[s].date = BuildDate}
  /\ build' = [build EXCEPT !.pc = "write"]
  /\ UNCHANGED <<row, phone, stop, flags, inv>>

\* Slip: the clear as it once was, claimed rows included.
ClearClaimed ==
  /\ build.pc = "clear"
  /\ locked' = {s \in Slots : row[s].status \in {"queued", "assigned"} /\ row[s].date = BuildDate}
  /\ build' = [build EXCEPT !.pc = "write"]
  /\ UNCHANGED <<row, phone, stop, flags, inv>>

\* write_pick_queue, the clear: every queued row of the date.
ClearQueue ==
  /\ build.pc = "clear"
  /\ locked' = {s \in Slots : row[s].status = "queued" /\ row[s].date = BuildDate}
  /\ build' = [build EXCEPT !.pc = "write"]
  /\ UNCHANGED <<row, phone, stop, flags, inv>>

\* Slip: the upserts before the clear, so that every row in the table is a conflict.
InsertedFirst == {s \in Written : ~ Live(s)}

\* A row still in the table is a conflict; one the clear deleted is not.
Inserted == {s \in Written : ~ Live(s) \/ s \in locked}

\* The foreign key of pick_queue.source_inventory_id.
WriteRefused == \E s \in Inserted : inv[s.unit] = None

\* write_pick_queue, the upserts and the commit: an assigned row is re-routed, any other
\* row that is still there is left alone.
CommitQueue ==
  /\ build.pc = "write"
  /\ ~ WriteRefused
  /\ row' = [s \in Slots |->
       IF s \in Inserted
       THEN [Absent EXCEPT !.status = PlanRow(s).status, !.date = BuildDate,
                           !.route = PlanRow(s).route]
       ELSE IF s \in locked THEN Absent
       ELSE IF s \in Written /\ row[s].status = "assigned"
       THEN [row[s] EXCEPT !.route = PlanRow(s).route]
       ELSE row[s]]
  /\ Forget(locked)
  /\ locked' = {}
  /\ build' = [build EXCEPT !.pc = "flags"]
  /\ UNCHANGED <<stop, flags, inv>>

\* write_shortfall_flags: the flags of every order of this build are cleared and the
\* current shortfalls flagged again.
CommitFlags ==
  /\ build.pc = "flags"
  /\ flags' = {f \in flags : f.order \notin PlanOrders \cup build.plan.short}
              \cup {[order |-> o,
                     stop |-> IF Fetched(BuildDate, o) THEN <<BuildDate, o>> ELSE None]
                      : o \in build.plan.short}
  /\ build' = IdleBuild
  /\ UNCHANGED <<servingVars, stop, inv>>

----------------------------------------------------------------------------
\* The open transaction is rolled back; what was committed before it stays.
Rollback ==
  /\ locked' = {}
  /\ build' = IdleBuild
  /\ UNCHANGED <<row, phone, stop, flags, inv>>

\* A statement a foreign key refuses raises, and the build ends.
BuildRefused ==
  /\ \/ build.pc = "drop" /\ DropRefused
     \/ build.pc = "write" /\ WriteRefused
  /\ Rollback

BuildCrash == CanCrash /\ build.pc # "idle" /\ Rollback

BuildStep ==
  \/ ReadVanished
  \/ DropVanished
  \/ CommitStops
  \/ ClearQueue
  \/ CommitQueue
  \/ CommitFlags
  \/ BuildRefused
  \/ BuildCrash

\* Type invariant of the build's own state.
BuildTypeOK ==
  /\ stop \in [Stops -> Trucks \cup {None}]
  /\ flags \subseteq Flags
  /\ inv \in [Units -> ItemTypes \cup {None}]
  /\ build \in BuildTypes
=============================================================================
