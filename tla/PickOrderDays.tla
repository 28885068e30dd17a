--------------------------- MODULE PickOrderDays ---------------------------
(***************************************************************************)
(* The days PickOrder is about, read line by line as build_units goes      *)
(* through them, and what the order of their picks has to be.              *)
(***************************************************************************)
EXTENDS PickOrder

CONSTANTS
  MaxLines,   \* bound on the lines of a day
  Lines       \* Lines[i]: what line i of a day can be

\* A unit is allocated to one line of a day, and once.
ASSUME DaysAssumption ==
  /\ MaxLines \in Nat
  /\ \A t \in DOMAIN Label : Label[t] \in Nat
  /\ \A i \in 1..MaxLines : \A line \in Lines[i] :
       /\ TruckOf(line) \in DOMAIN Label
       /\ line.qty \in Nat
       /\ line.allocated \in Seq([unit : Nat, model : Nat, erp : Nat])
  /\ \A i, k \in 1..MaxLines : \A a \in Lines[i], b \in Lines[k] :
       \A j \in DOMAIN a.allocated, m \in DOMAIN b.allocated :
         a.allocated[j].unit = b.allocated[m].unit => i = k /\ (a = b => j = m)

VARIABLE day

Init == day = <<>>
ReadLine ==
  /\ Len(day) < MaxLines
  /\ \E line \in Lines[Len(day) + 1] : day' = Append(day, line)
Next == ReadLine
Spec == Init /\ [][Next]_day

----------------------------------------------------------------------------
\* The claim order by its definition: the tier of the most urgent unit on the truck, the
\* owned fleet, the label, where the order's stop first appears, model, unit.
Picks(d) == {u \in UnitsOf(d) : IsPick(u)}
Urgency(u) == IF \E i \in Scheduled(day) : TruckOf(day[i]) = u.truck /\ Known(day[i]) # {}
                                           /\ day[i].type \in {1, 4, 5} THEN 0 ELSE 1
Appearance(u) ==
  CHOOSE i \in Scheduled(day) :
    /\ day[i].order = u.order /\ TruckOf(day[i]) = u.truck /\ Known(day[i]) # {}
    /\ \A k \in 1..(i - 1) : ~ (k \in Scheduled(day) /\ day[k].order = u.order
                                /\ TruckOf(day[k]) = u.truck /\ Known(day[k]) # {})
ClaimKey(u) ==
  <<Urgency(u), IF u.truck \in Owned THEN 0 ELSE 1, Label[u.truck], Appearance(u), u.model, u.unit>>

\* The three small numbers the claim query sorts by give exactly that order, and never tie:
\* the rank says nothing of labels and the stop number nothing of trucks, yet together they
\* do.
ClaimsFollowTheDay ==
  \A u, v \in Picks(day) :
    Lex(RouteOf(UnitsOf(day), u), RouteOf(UnitsOf(day), v)) <=> Lex(ClaimKey(u), ClaimKey(v))

\* Reading one line more never swaps two stops of a truck: a rebuild after the office adds
\* a line at the end keeps the order the pickers have begun.
StopsKeepTheirPlace ==
  [][\A s, t \in StopsIn(UnitsOf(day)) :
       s.truck = t.truck /\ StopOrder(UnitsOf(day), s) < StopOrder(UnitsOf(day), t) =>
         StopOrder(UnitsOf(day'), s) < StopOrder(UnitsOf(day'), t)]_day

\* Rule 4, nothing scheduled is silently dropped: every piece of a scheduled line is a pick
\* row, or a unit the ERP says cannot be picked, or makes its order a shortfall.
EveryPieceIsAccountedFor ==
  \A i \in Scheduled(day) :
    \/ day[i].order \in PlanOf("today", day).short
    \/ Cardinality({r \in PlanOf("today", day).rows :
                      \E j \in DOMAIN day[i].allocated : r.unit = day[i].allocated[j].unit})
       + Cardinality({j \in DOMAIN day[i].allocated : day[i].allocated[j].erp \notin {1, 3}})
       >= day[i].qty
=============================================================================
