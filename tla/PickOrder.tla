----------------------------- MODULE PickOrder -----------------------------
(***************************************************************************)
(* The order of a day's picks: what build_units makes of the delivery      *)
(* orders of the ERP and what build_scanner_pick_rows makes of that, the   *)
(* stops, the rows with their place in the claim order, and the orders     *)
(* with a shortfall.  Both are functions of the day; nothing is stored.    *)
(*                                                                         *)
(* A day is the sequence of its order lines as the ERP returns them, each  *)
(* with the units allocated to it.                                         *)
(***************************************************************************)
EXTENDS Integers, Sequences, FiniteSets

CONSTANTS
  NoTruck,    \* a line without a TruckName
  Owned,      \* the owned fleet (OWNED_FLEET_TRUCKS)
  Label       \* Label[t]: the place of truck t among the labels as they are compared,
              \* those of the owned fleet padded with zeros to four places

ASSUME LabelAssumption ==
  \A s, t \in DOMAIN Label : s # t /\ (s \in Owned <=> t \in Owned) => Label[s] # Label[t]

\* a comes before b as Python compares tuples.
Lex(a, b) ==
  \E k \in DOMAIN a : a[k] < b[k] /\ \A m \in 1..(k - 1) : a[m] = b[m]

----------------------------------------------------------------------------
\* build_units.  MorningTypes: Pickup, 3rd Party, Drop Ship.
MorningTypes == {1, 4, 5}
BucketOf(type) ==
  CASE type = 1 -> "PICKUP" [] type = 4 -> "3RD PARTY" [] type = 5 -> "DROP SHIP"
    [] OTHER -> "UNROUTED"

\* Lines of canceled orders, of other dates and without a serial number are no picks.
Scheduled(day) == {i \in DOMAIN day : day[i].listed}

TruckOf(line) == IF line.truck # NoTruck THEN line.truck ELSE BucketOf(line.type)
TierOf(line) == IF line.type \in MorningTypes THEN 0 ELSE 1

\* The allocated units whose InventoryStatus is one of the ERP's ten.
Known(line) == {j \in DOMAIN line.allocated : line.allocated[j].erp \in 0..9}

UnitAt(line, i, j) ==
  [order |-> line.order, truck |-> TruckOf(line), tier |-> TierOf(line),
   unit |-> line.allocated[j].unit, model |-> line.allocated[j].model,
   erp |-> line.allocated[j].erp, at |-> <<i, j>>]

UnitsOf(day) == UNION {{UnitAt(day[i], i, j) : j \in Known(day[i])} : i \in Scheduled(day)}

\* Slip: only a line with nothing allocated is short.
ShortIfNone(day) ==
  {day[i].order : i \in {k \in Scheduled(day) : day[k].qty > 0 /\ day[k].allocated = <<>>}}

\* Every allocated unit counts, whatever its status.
Short(day) ==
  {day[i].order : i \in {k \in Scheduled(day) : Len(day[k].allocated) < day[k].qty}}

----------------------------------------------------------------------------
\* build_scanner_pick_rows, over the units of the day.  Open stock is queued, a unit the
\* ERP has in transit is done, and no other unit becomes a row.
IsPick(u) == u.erp \in {1, 3}
PickStatus(u) == IF u.erp = 1 THEN "queued" ELSE "in_transit"

StopsIn(units) == {[order |-> u.order, truck |-> u.truck] : u \in units}
GroupOf(units, st) == {u \in units : u.order = st.order /\ u.truck = st.truck}

\* Slip: the tier of the truck's last unit stands for the truck.
TruckKeyOfLast(units, t) ==
  LET last == CHOOSE u \in units :
                u.truck = t /\ \A v \in units : v.truck = t => ~ Lex(u.at, v.at)
  IN <<last.tier, IF t \in Owned THEN 0 ELSE 1, Label[t]>>

\* truck_sort_key below the priority tier of the truck's most urgent unit.
TruckKey(units, t) ==
  LET tier == IF \E u \in units : u.truck = t /\ u.tier = 0 THEN 0 ELSE 1
  IN <<tier, IF t \in Owned THEN 0 ELSE 1, Label[t]>>

\* assign_truck_ranks: dense, from 0.
TruckRank(units, t) ==
  Cardinality({s \in {u.truck : u \in units} : Lex(TruckKey(units, s), TruckKey(units, t))})

\* Slip: where the stop was seen last.
LastSeen(units, st) ==
  (CHOOSE u \in GroupOf(units, st) : \A v \in GroupOf(units, st) : ~ Lex(u.at, v.at)).at

FirstSeen(units, st) ==
  (CHOOSE u \in GroupOf(units, st) : \A v \in GroupOf(units, st) : ~ Lex(v.at, u.at)).at

\* Stops of a truck are numbered from 1 as they appear, pieces of a stop by model and unit.
StopOrder(units, st) ==
  Cardinality({s \in StopsIn(units) :
    s.truck = st.truck /\ ~ Lex(FirstSeen(units, st), FirstSeen(units, s))})

PieceKey(u) == <<u.model, u.unit>>

PieceOrder(units, u) ==
  Cardinality({v \in GroupOf(units, u) : IsPick(v) /\ ~ Lex(PieceKey(u), PieceKey(v))})

RouteOf(units, u) == <<TruckRank(units, u.truck), StopOrder(units, u), PieceOrder(units, u)>>

\* What the build of the date will write.
PlanOf(date, day) ==
  LET units == UnitsOf(day)
  IN [date  |-> date,
      stops |-> StopsIn(units),
      rows  |-> {[order |-> u.order, unit |-> u.unit, route |-> RouteOf(units, u),
                  status |-> PickStatus(u)] : u \in {v \in units : IsPick(v)}},
      short |-> Short(day)]
=============================================================================
