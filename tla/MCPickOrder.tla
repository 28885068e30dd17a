---------------------------- MODULE MCPickOrder ----------------------------
(* The pick order of every day of up to MaxLines lines, read line by line. *)
EXTENDS PickOrderDays, TLC

MCLabel ==
  ("5" :> 1) @@ ("10" :> 2) @@ ("ACME" :> 2) @@ ("PICKUP" :> 3) @@ ("3RD PARTY" :> 1)
  @@ ("DROP SHIP" :> 4) @@ ("UNROUTED" :> 5)

Line(o, t, type, qty, erps, listed) ==
  [order |-> o, truck |-> t, type |-> type, qty |-> qty, erps |-> erps, listed |-> listed]

\* Owned and third-party trucks, orders of several lines and on two trucks, a morning line
\* on a delivery truck, pickups without a truck, partly and wholly unallocated lines, units
\* of every kind of status.
MCTemplates == {
  Line(1, "10", 2, 2, <<1, 3>>, TRUE),
  Line(2, "10", 2, 1, <<1>>, TRUE),
  Line(1, "5", 2, 2, <<1>>, TRUE),
  Line(3, "ACME", 2, 1, <<1>>, TRUE),
  Line(4, "ACME", 5, 1, <<2, 1>>, TRUE),
  Line(5, NoTruck, 1, 2, <<11, 1>>, TRUE),
  Line(6, NoTruck, 2, 1, <<>>, TRUE),
  Line(7, NoTruck, 8, 1, <<1>>, TRUE),
  Line(7, "5", 1, 1, <<1>>, FALSE)}

\* The units of a line are its own; later lines hold older units, of alternating models.
WithUnits(tmpl, i) ==
  [order |-> tmpl.order, truck |-> tmpl.truck, type |-> tmpl.type, qty |-> tmpl.qty,
   listed |-> tmpl.listed,
   allocated |-> [j \in DOMAIN tmpl.erps |->
                    [unit |-> 100 - 10 * i + j, model |-> (i + j) % 2, erp |-> tmpl.erps[j]]]]

MCLines == [i \in 1..MaxLines |-> {WithUnits(tmpl, i) : tmpl \in MCTemplates}]
=============================================================================
