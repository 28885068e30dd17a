------------------------------ MODULE MCScanner ------------------------------
(* Builds that read their day while two operators work and units are reallocated. *)
EXTENDS ScannerWrite, TLC

MCLabel == ("5" :> 1) @@ ("PICKUP" :> 2) @@ ("UNROUTED" :> 3)

Line(item, order, truck, listed, qty) ==
  [item |-> item, order |-> order, truck |-> truck, type |-> 2, listed |-> listed,
   qty |-> qty, model |-> item]

\* An order of two lines beside a line of another date, or no line at all.
MCManifests == {
  <<Line(11, 10, "5", TRUE, 1), Line(13, 20, "5", FALSE, 1), Line(12, 10, "5", TRUE, 1)>>,
  <<Line(13, 20, NoTruck, FALSE, 1)>>}

\* A line with both units, one of a status that is none of the ERP's ten, and one with none.
MCFirstUnits == {(1 :> [item |-> 12, erp |-> 1]) @@ (2 :> [item |-> 12, erp |-> 11])}

\* The loader scans the unit that is ordered while another puts the other one away.
MCJobs == {<<"intransit", 1>>, <<"receive", 2>>}
=============================================================================
