---------------------------- MODULE MCWarehouse ----------------------------
(* A small warehouse for TLC: one delivery date, two orders of one unit each, the days a   *)
(* rebuild can meet (both orders, one gone, one picked and the other off its truck and     *)
(* short, nothing allocated, an order on two trucks), and two pickers with a phone each.   *)
EXTENDS WarehouseHistory, TLC

CONSTANTS p1, p2, f1, f2, d1, o1, o2

u1 == 1
u2 == 2

Slot(d, o, u) == [date |-> d, order |-> o, unit |-> u]

MCDeliveries == {Slot(d1, o1, u1), Slot(d1, o2, u2)}
MCOwner == (f1 :> p1) @@ (f2 :> p2)
Text(b, untidy) == [body |-> b, untidy |-> untidy]
MCScans == {Text("A", FALSE), Text("B", FALSE)}
MCSerial == (u1 :> Text("A", TRUE)) @@ (u2 :> Text("B", FALSE))
MCItemPos == (u1 :> 1) @@ (u2 :> 2)
MCItems == (u1 :> {[order |-> o1, pickable |-> TRUE]}) @@ (u2 :> {[order |-> o2, pickable |-> FALSE]})

\* The plans of the days.
Row(o, u, stopOrder, st) == [order |-> o, unit |-> u, route |-> <<0, stopOrder, 1>>, status |-> st]
At(o, t) == [order |-> o, truck |-> t]
Plan(stops, rows, short) == [date |-> d1, stops |-> stops, rows |-> rows, short |-> short]

Both == Plan({At(o1, "T1"), At(o2, "T1")}, {Row(o1, u1, 1, "queued"), Row(o2, u2, 2, "queued")}, {})
OneGone == Plan({At(o2, "T1")}, {Row(o2, u2, 1, "queued")}, {})
Moved == Plan({At(o1, "T1"), At(o2, "UNROUTED")},
              {Row(o1, u1, 1, "in_transit"), [Row(o2, u2, 1, "queued") EXCEPT !.route[1] = 1]}, {o2})
NoneAllocated == Plan({}, {}, {o1})
Split == Plan({At(o1, "T1"), At(o1, "T2")}, {Row(o1, u1, 1, "queued")}, {})
MCPlans == {Both, OneGone, Moved, NoneAllocated, Split}

\* The same as the ERP lists them, and what PickOrder makes of that.
Order == INSTANCE PickOrder WITH
  NoTruck <- "no truck", Owned <- {"T1", "T2"},
  Label <- ("T1" :> 1) @@ ("T2" :> 2) @@ ("UNROUTED" :> 3)

Line(o, t, qty, units) ==
  [order |-> o, truck |-> t, type |-> 2, qty |-> qty, listed |-> TRUE, allocated |-> units]
Unit(u, erp) == [unit |-> u, model |-> 1, erp |-> erp]

Days == {
  <<Line(o1, "T1", 1, <<Unit(u1, 1)>>), Line(o2, "T1", 1, <<Unit(u2, 1)>>)>>,
  <<Line(o2, "T1", 1, <<Unit(u2, 1)>>)>>,
  <<Line(o1, "T1", 1, <<Unit(u1, 3)>>), Line(o2, "no truck", 2, <<Unit(u2, 1)>>)>>,
  <<Line(o1, "T1", 1, <<>>)>>,
  <<Line(o1, "T1", 1, <<Unit(u1, 1)>>), Line(o1, "T2", 1, <<Unit(u2, 2)>>)>>}

ASSUME PlansOfTheDays == MCPlans = {Order!PlanOf(d1, day) : day \in Days}
=============================================================================
