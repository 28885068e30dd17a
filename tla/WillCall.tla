------------------------------ MODULE WillCall ------------------------------
(***************************************************************************)
(* add_will_call_order (services/will_call over adapters/db/will_call_db): *)
(* the office queues the pieces of a customer at the counter, to be picked *)
(* before everything else.                                                 *)
(***************************************************************************)
EXTENDS ScannerBuild

CONSTANTS
  ItemPos,    \* ItemPos[u]: the place of u in the order by model number and unit id
  MaxSeq      \* bound on pick_queue_will_call_seq

ASSUME WillCallAssumption ==
  /\ ItemPos \in [Units -> Nat] /\ \A u, v \in Units : u # v => ItemPos[u] # ItemPos[v]
  /\ MaxSeq \in Nat

\* fetch_allocated_by_order: allocated to the order, in a pickable location and OPEN in
\* the ERP, as far as inventory_items knows.
PickableOf(o) == {u \in Units : inv[u] # None /\ inv[u].order = o /\ inv[u].pickable}

CallSlot(u) == [unit |-> u]

\* nextval: greater than every will_call_seq in the table.  Only the order of the numbers
\* is ever read, so the ones of rows no longer there are used again.
IsTopSeq(base) ==
  /\ \A s \in WillCalls : row[s].seq <= base
  /\ base > 0 => \E s \in WillCalls : row[s].seq = base

\* The INSERT waits for an open transaction that has deleted a row it conflicts with, so
\* the office proceeds when no row of the order's will-calls is locked.  A unit that has
\* a will-call row, whatever its status, is skipped; an order with no pickable piece is
\* refused, and one whose pieces all have rows changes nothing.
AddWillCallOrder(o, d) ==
  LET items == PickableOf(o)
      new == {u \in items : ~ Live(CallSlot(u))}
  IN /\ new # {}
     /\ \A u \in items : CallSlot(u) \notin locked
     /\ \E base \in 0..MaxSeq :
          /\ IsTopSeq(base)
          /\ base + Cardinality(new) <= MaxSeq
          /\ row' = [s \in Slots |->
               IF s \in WillCalls /\ s.unit \in new
               THEN QueuedRow(d, base + Cardinality({v \in new : ItemPos[v] <= ItemPos[s.unit]}),
                              NoRoute)
               ELSE row[s]]
     /\ UNCHANGED <<locked, phone, stop, flags, inv, build>>
=============================================================================
