-------------------------- MODULE WarehouseHistory --------------------------
(***************************************************************************)
(* The pick module with a memory of what pickers give back while a build   *)
(* writes its queue.  The memory is read by nothing but the property below *)
(* and restricts no step: it is what tells the one queued row a rebuild    *)
(* may leave behind from the ones it may not.                              *)
(***************************************************************************)
EXTENDS Warehouse

\* The delivery rows released since the clear of the running write_pick_queue.
VARIABLE released

historyVars == <<vars, released>>

HistoryInit == Init /\ released = {}

HistoryNext ==
  /\ Next
  /\ released' =
       IF build.pc # "write" \/ build'.pc # "write" THEN {}
       ELSE released \cup {s \in Deliveries : row[s].status = "assigned" /\ row'[s].status = "queued"}

HistorySpec == HistoryInit /\ [][HistoryNext]_historyVars

----------------------------------------------------------------------------
\* A rebuild strands no stale work: once write_pick_queue commits, every queued delivery
\* row of the date is routed as the plan has it, unless it was claimed when the clear ran
\* and has been released since.
QueueIsThePlan ==
  [][build.pc = "write" /\ build'.pc = "flags" =>
       \A s \in Deliveries : row'[s].status = "queued" /\ s.date = BuildDate =>
         s \in released \/ (s \in Written /\ row'[s].route = PlanRow(s).route)]_vars
=============================================================================
