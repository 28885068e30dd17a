----------------------------- MODULE PickTable -----------------------------
(***************************************************************************)
(* The pick_queue table, the work list every picker's phone and every      *)
(* queue build share.                                                      *)
(*                                                                         *)
(* A row is found by its slot, the columns its unique index covers: a      *)
(* delivery row by (stop, unit), where a stop is a (date, order) pair, and *)
(* a will-call row by its unit.  pick_id is a fresh uuid on every insert   *)
(* and is never reused, so nothing but "is this still the row I saw" can   *)
(* be asked of it; the modules that hold on to a pick_id keep the slot,    *)
(* and replace it by Lost when the row is deleted.                         *)
(***************************************************************************)
EXTENDS Integers, FiniteSets

CONSTANTS
  Pickers,      \* operator identities, pick_queue.assigned_to
  Dates,        \* delivery dates
  Orders,       \* source_order_id
  Units,        \* source_inventory_id: one serialized appliance each
  Deliveries,   \* the (date, order, unit) slots the builds of the instance can fill
  None,         \* SQL NULL
  Lost          \* a pick_id whose row has been deleted

ASSUME TableAssumption ==
  /\ Deliveries \subseteq [date : Dates, order : Orders, unit : Units]
  /\ IsFiniteSet(Units) /\ IsFiniteSet(Deliveries)
  /\ None \notin Pickers \cup Dates

WillCalls == [unit : Units]
Slots == Deliveries \cup WillCalls

ASSUME SlotAssumption == None \notin Slots /\ Lost \notin Slots /\ None # Lost

VARIABLES
  row,      \* row[s]: the live row of slot s, or Absent
  locked    \* slots whose row an open build transaction has deleted but not committed

tableVars == <<row, locked>>

Statuses == {"queued", "assigned", "picked", "in_transit"}

\* routing: truck_sort_order, stop_order and piece_order; a will-call has none of its
\* own (its seq is unique, so the claim never compares them).
Routes == Nat \X Nat \X Nat
NoRoute == <<0, 0, 0>>

Absent == [status |-> "absent", holder |-> None, at |-> 0,
           date |-> None, seq |-> 0, route |-> NoRoute]

Rows == [status : Statuses \cup {"absent"}, holder : Pickers \cup {None}, at : Nat,
         date : Dates \cup {None}, seq : Nat, route : Routes]

QueuedRow(d, q, r) ==
  [Absent EXCEPT !.status = "queued", !.date = d, !.seq = q, !.route = r]

Live(s) == row[s].status # "absent"
InProgress(s) == row[s].status \in {"assigned", "picked", "in_transit"}
HeldBy(s, p) == row[s].status = "assigned" /\ row[s].holder = p

----------------------------------------------------------------------------
\* The claim order: is_will_call DESC, will_call_seq, truck_sort_order, stop_order,
\* piece_order.
RouteBefore(a, b) ==
  \/ a[1] < b[1]
  \/ a[1] = b[1] /\ a[2] < b[2]
  \/ a[1] = b[1] /\ a[2] = b[2] /\ a[3] < b[3]

\* Slip: the order of before migration 0006, by routing alone: the truck_sort_order of a
\* will-call is NULL, which sorts last.
BeforeByRouteOnly(s, t) ==
  \/ s \notin WillCalls /\ t \in WillCalls
  \/ s \notin WillCalls /\ t \notin WillCalls /\ RouteBefore(row[s].route, row[t].route)

\* Slip: will-calls before everything else, in no order of their own.
BeforeNotFifo(s, t) ==
  \/ s \in WillCalls /\ t \notin WillCalls
  \/ s \notin WillCalls /\ t \notin WillCalls /\ RouteBefore(row[s].route, row[t].route)

Before(s, t) ==
  \/ s \in WillCalls /\ t \notin WillCalls
  \/ s \in WillCalls /\ t \in WillCalls /\ row[s].seq < row[t].seq
  \/ s \notin WillCalls /\ t \notin WillCalls /\ RouteBefore(row[s].route, row[t].route)

\* A picker working date d sees that date's rows and every will-call.
Visible(s, d) == s \in WillCalls \/ row[s].date = d

\* Slip: the filter of before migration 0006, the requested date's rows only.
ClaimableOfDate(d) ==
  {s \in Slots \ WillCalls : row[s].status = "queued" /\ row[s].date = d /\ s \notin locked}

\* FOR UPDATE SKIP LOCKED passes over a row an open transaction holds.
Claimable(d) == {s \in Slots : row[s].status = "queued" /\ Visible(s, d) /\ s \notin locked}
NextClaims(d) == {s \in Claimable(d) : \A t \in Claimable(d) : ~ Before(t, s)}

HeldBySince(t, p) == {s \in Slots : HeldBy(s, p) /\ row[s].at <= row[t].at}

OpenAssignments(p, d) ==
  {s \in Slots : HeldBy(s, p) /\ Visible(s, d)
     /\ \A t \in Slots : HeldBy(t, p) /\ Visible(t, d) => row[s].at <= row[t].at}

----------------------------------------------------------------------------
\* The single-statement writes of pick_db, each one transaction.
\* assigned_at is kept as a rank among the picker's open picks: now() is later than every
\* assigned_at before it, and only the order of those of assigned rows is ever read.
Assign(s, p) ==
  row' = [t \in Slots |->
    IF t = s
    THEN [row[t] EXCEPT !.status = "assigned", !.holder = p,
                        !.at = Cardinality({u \in Slots : HeldBy(u, p)}) + 1]
    ELSE IF HeldBy(t, p)
    THEN [row[t] EXCEPT !.at = Cardinality(HeldBySince(t, p))]
    ELSE row[t]]

\* Slip: a status the CHECK constraint of 0001 allowed and the lifecycle no longer has.
MarkStaged(s) == row' = [row EXCEPT ![s].status = "staged", ![s].at = 0]

\* assigned_to stays on the picked row.
MarkPicked(s) == row' = [row EXCEPT ![s].status = "picked", ![s].at = 0]

\* Slip: the released row keeps its assigned_to.
RequeueKeepingHolder(s) == row' = [row EXCEPT ![s].status = "queued", ![s].at = 0]

Requeue(s) ==
  row' = [row EXCEPT ![s].status = "queued", ![s].holder = None, ![s].at = 0]

\* Type invariant of the table: every slot holds a row of the columns' types, and the
\* locked slots are slots.
TableTypeOK ==
  /\ row \in [Slots -> Rows]
  /\ locked \subseteq Slots
=============================================================================
