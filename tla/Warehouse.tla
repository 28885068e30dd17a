------------------------------ MODULE Warehouse ------------------------------
(***************************************************************************)
(* The whole pick module around its one database: pickers' phones, the     *)
(* scanner build, the office's will-calls and the inventory sync, all at   *)
(* once.                                                                   *)
(***************************************************************************)
EXTENDS WillCall

vars == <<row, locked, phone, stop, flags, inv, build>>

\* The inventory sync, as one unit meets it: the upsert records what the ERP says of it,
\* the prune deletes it when the ERP no longer returns it, unless a pick row, even one
\* whose deletion is not committed, still refers to it.
SyncUnit(u, item) ==
  /\ inv[u] # item
  /\ item = None => \A s \in Slots : s.unit = u => ~ Live(s)
  /\ inv' = [inv EXCEPT ![u] = item]
  /\ UNCHANGED <<servingVars, stop, flags, build>>

Init ==
  /\ row = [s \in Slots |-> Absent]
  /\ locked = {}
  /\ PhoneInit
  /\ BuildInit
  /\ inv = [u \in Units |-> None]

Next ==
  \/ \E ph \in Phones : ServingStep(ph) /\ UNCHANGED <<stop, flags, inv, build>>
  \/ \E plan \in Plans : StartBuild(plan)
  \/ BuildStep
  \/ \E o \in Orders, d \in Dates : AddWillCallOrder(o, d)
  \/ \E u \in Units : \E item \in Items[u] \cup {None} : SyncUnit(u, item)

Spec == Init /\ [][Next]_vars

----------------------------------------------------------------------------
\* Type invariant of the pick module.
TypeOK == ServingTypeOK /\ BuildTypeOK

\* pick_queue.stop_id and flags.stop_id always resolve (0001_init.sql, both foreign keys):
\* upsert_stops decides what to drop in one statement and drops it in a later one, with
\* claims in between, and its crashes leave every row it did not commit.
StopsResolve ==
  /\ \A s \in Deliveries : Live(s) => stop[<<s.date, s.order>>] # None
  /\ \A f \in flags : f.stop # None => stop[f.stop] # None

\* write_pick_queue drops no pickable piece: when the queue has been committed, every
\* row of the plan that had a stop is in the table, whatever the pickers did meanwhile.
BuildIsComplete == build.pc = "flags" => \A s \in Written : Live(s)

\* upsert_stops keeps a stop that left the route sheet only for work someone acted on.
KeptStopsHaveWork ==
  build.pc = "clear" /\ PlanOrders # {} =>
    \A o \in Orders : stop[<<BuildDate, o>>] # None /\ o \notin PlanOrders =>
                        RowsAt(BuildDate, o) # {}

\* claim_next answers None only when the picker's queue is empty or every row of it is
\* inside an open build transaction (the exception that CONTRACT.md:17 does not make).
NothingMeansNothing ==
  [][\A ph \in Phones :
       phone[ph].pc = "claiming" /\ phone'[ph].pc = "idle" /\ phone'[ph].shows = None =>
         \A s \in Slots : row[s].status = "queued" /\ Visible(s, phone[ph].date) =>
           build.pc \in {"upsert", "write"} /\ row[s].date = BuildDate]_vars

----------------------------------------------------------------------------
\* What the repository says and the code does not do; each is refuted by a run.

\* A will-call's "pieces must be picked ahead of everything" (0006_will_call_interrupt.sql:6):
\* once queued it leaves the queue only by being claimed.
WillCallsStayQueued ==
  [][\A c \in WillCalls : row[c].status = "queued" =>
       row'[c].status \in {"queued", "assigned"}]_vars

\* "A stop that has dropped off the route sheet has its still-'queued' picks removed and
\* the stop deleted" (neon.py:192): the build gets past the deletion of stops nobody has
\* acted on.
UntouchedStopsAreDropped ==
  [][build.pc = "drop" /\ build'.pc = "idle" =>
       \E o \in build.drop : \E s \in RowsAt(BuildDate, o) : InProgress(s)]_vars
=============================================================================
