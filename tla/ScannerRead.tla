----------------------------- MODULE ScannerRead -----------------------------
(***************************************************************************)
(* How a build reads its day: build_units over HttpScannerReader.  The     *)
(* manifest of the date is read first, then the units allocated to each of *)
(* its lines, a few lines at a time on a thread pool, while the office     *)
(* moves units from line to line and the floor changes their status.       *)
(* Requests may be refused for now (429), fail or time out.                *)
(***************************************************************************)
EXTENDS PickOrder, SequencesExt

CONSTANTS
  Units,
  Items,       \* order lines (OrderItemId)
  NoItem,
  Manifests,   \* what delivery/orders can answer: sequences of lines without their units
  FirstUnits,  \* what the ERP can hold of the units at first
  Workers,     \* concurrency
  MaxRetries,  \* max_retries
  MaxMoves     \* bound on the reallocations

ASSUME ReadAssumption ==
  /\ Workers \in Nat \ {0} /\ MaxRetries \in Nat /\ MaxMoves \in Nat
  /\ NoItem \notin Items /\ IsFiniteSet(Units)
  /\ FirstUnits \subseteq [Units -> [item : Items \cup {NoItem}, erp : Nat]]
  /\ \A manifest \in Manifests :
       \A i, j \in DOMAIN manifest : manifest[i].item = manifest[j].item => i = j

VARIABLES
  erp,         \* the ERP: the line each unit is allocated to and its InventoryStatus
  moves,       \* the number of reallocations so far
  build,       \* [step, tries, manifest, touched]: touched are the units that have changed
               \* since it began, with the lines they came from and went to
  ask          \* the request for each scheduled line: [state, tries, units]

readVars == <<erp, moves, build, ask>>

AllocatedTo(item) == {u \in Units : erp[u].item = item}

\* What the ERP answers of a line: its units in some order.
Allocation(line) ==
  LET units == SetToSeq(AllocatedTo(line.item))
  IN [k \in DOMAIN units |->
        [unit |-> units[k], model |-> line.model, erp |-> erp[units[k]].erp]]

Touch(things) ==
  IF build.step \in {"orders", "lines", "done"} THEN [build EXCEPT !.touched = @ \cup things] ELSE build

\* The office allocates a unit elsewhere.
Reallocate(u, item) ==
  /\ moves < MaxMoves /\ erp[u].item # item
  /\ erp' = [erp EXCEPT ![u].item = item]
  /\ moves' = moves + 1
  /\ build' = Touch({u, erp[u].item, item})
  /\ UNCHANGED ask

----------------------------------------------------------------------------
BuildIdle == [step |-> "idle", tries |-> 0, manifest |-> <<>>, touched |-> {}]
BuildFailed == [BuildIdle EXCEPT !.step = "failed"]

ReadStart ==
  /\ build.step = "idle"
  /\ build' = [BuildIdle EXCEPT !.step = "orders"]
  /\ UNCHANGED <<erp, moves, ask>>

NotAsked == [state |-> "waiting", tries |-> 0, units |-> <<>>]
NothingAsked == [i \in {} |-> NotAsked]
Failed == [NotAsked EXCEPT !.state = "failed"]

\* fetch_delivery_orders: an answer that is a list of orders.  Without a line to resolve
\* nothing more is asked.
OrdersAnswered ==
  /\ build.step = "orders"
  /\ \E manifest \in Manifests :
       /\ build' = [build EXCEPT !.manifest = manifest, !.tries = 0,
                                 !.step = IF Scheduled(manifest) = {} THEN "done" ELSE "lines"]
       /\ ask' = [i \in Scheduled(manifest) |-> NotAsked]
  /\ UNCHANGED <<erp, moves>>

\* Slip: a busy ERP is asked again and again.
AlwaysAgain(tries) == TRUE

\* A 429 is worth another try.
Again(tries) == tries < MaxRetries

\* Slip: the back-off begins anew instead of giving up.
OrdersBusyAnew ==
  /\ build.step = "orders"
  /\ build' = [build EXCEPT !.tries = IF Again(@) THEN @ + 1 ELSE 0]
  /\ UNCHANGED <<erp, moves, ask>>

OrdersBusy ==
  /\ build.step = "orders"
  /\ build' = IF Again(build.tries) THEN [build EXCEPT !.tries = @ + 1] ELSE BuildFailed
  /\ UNCHANGED <<erp, moves, ask>>

\* No connection, a timeout, another status, no JSON or no list.
OrdersBroken ==
  /\ build.step = "orders"
  /\ build' = BuildFailed
  /\ UNCHANGED <<erp, moves, ask>>

----------------------------------------------------------------------------
In(state) == {i \in DOMAIN ask : ask[i].state = state}

\* A worker that is free takes the next line.
LineStart(i) ==
  /\ build.step = "lines"
  /\ i \in In("waiting") /\ \A j \in In("waiting") : i <= j
  /\ Cardinality(In("asking")) < Workers
  /\ ask' = [ask EXCEPT ![i].state = "asking"]
  /\ UNCHANGED <<erp, moves, build>>

\* _fetch_allocated_units
LineAnswered(i) ==
  /\ build.step = "lines" /\ i \in In("asking")
  /\ ask' = [ask EXCEPT ![i] = [state |-> "answered", tries |-> 0,
                               units |-> Allocation(build.manifest[i])]]
  /\ UNCHANGED <<erp, moves, build>>

\* Slip: a line that stays busy is taken to have no units.
LineBusyEmpty(i) ==
  /\ build.step = "lines" /\ i \in In("asking")
  /\ ask' = IF Again(ask[i].tries) THEN [ask EXCEPT ![i].tries = @ + 1]
            ELSE [ask EXCEPT ![i] = [NotAsked EXCEPT !.state = "answered"]]
  /\ UNCHANGED <<erp, moves, build>>

LineBusy(i) ==
  /\ build.step = "lines" /\ i \in In("asking")
  /\ ask' = IF Again(ask[i].tries) THEN [ask EXCEPT ![i].tries = @ + 1]
            ELSE [ask EXCEPT ![i] = Failed]
  /\ UNCHANGED <<erp, moves, build>>

LineBroken(i) ==
  /\ build.step = "lines" /\ i \in In("asking")
  /\ ask' = [ask EXCEPT ![i] = Failed]
  /\ UNCHANGED <<erp, moves, build>>

\* The results are taken in the order of the lines; the first failure among them cancels
\* what has not begun.
Cancel ==
  /\ build.step = "lines" /\ In("waiting") # {}
  /\ \E i \in In("failed") : \A j \in DOMAIN ask : j < i => ask[j].state = "answered"
  /\ ask' = [i \in DOMAIN ask |->
               IF ask[i].state = "waiting" THEN [ask[i] EXCEPT !.state = "cancelled"] ELSE ask[i]]
  /\ UNCHANGED <<erp, moves, build>>

\* The pool is left when nobody works any more; a failure is raised then.
ReadEnd ==
  /\ build.step = "lines"
  /\ In("waiting") = {} /\ In("asking") = {}
  /\ IF In("answered") = DOMAIN ask
     THEN build' = [build EXCEPT !.step = "done"] /\ UNCHANGED ask
     ELSE build' = BuildFailed /\ ask' = NothingAsked
  /\ UNCHANGED <<erp, moves>>

LineStep(i) == LineStart(i) \/ LineAnswered(i) \/ LineBusy(i) \/ LineBroken(i)

ReadStep ==
  \/ OrdersAnswered \/ OrdersBusy \/ OrdersBroken
  \/ \E i \in DOMAIN ask : LineStep(i)
  \/ Cancel \/ ReadEnd

ReadInit ==
  /\ erp \in FirstUnits
  /\ moves = 0
  /\ build = BuildIdle
  /\ ask = NothingAsked

\* The day the build goes on with.
Day ==
  [i \in DOMAIN build.manifest |->
     [order |-> build.manifest[i].order, truck |-> build.manifest[i].truck,
      type |-> build.manifest[i].type, listed |-> build.manifest[i].listed,
      qty |-> build.manifest[i].qty,
      allocated |-> IF i \in DOMAIN ask THEN ask[i].units ELSE <<>>]]

----------------------------------------------------------------------------
\* Type invariant of a reading build.
ReadTypeOK ==
  /\ erp \in [Units -> [item : Items \cup {NoItem}, erp : Nat]]
  /\ moves \in 0..MaxMoves
  /\ build.step \in {"idle", "orders", "lines", "done", "failed"}
  /\ build.tries \in 0..MaxRetries
  /\ build.touched \subseteq Units \cup Items \cup {NoItem}
  /\ DOMAIN ask \subseteq Scheduled(build.manifest)
  /\ \A i \in DOMAIN ask :
       /\ ask[i].state \in {"waiting", "asking", "answered", "failed", "cancelled"}
       /\ ask[i].tries \in 0..MaxRetries
       /\ {ask[i].units[k].unit : k \in DOMAIN ask[i].units} \subseteq Units

LinesOf(u) == {i \in Scheduled(build.manifest) : build.manifest[i].item = erp[u].item}

\* "a dropped unit would silently shrink the pick list" (scanner_read.py:134): whatever fails
\* and however slowly the lines are read, a build that goes on plans every unit that stayed
\* where it was, once, under the order of its line, with its status, and no unit that is not on a line.
\* Only a unit that moved meanwhile can be planned twice or not at all.
StillUnitsArePlannedOnce ==
  build.step = "done" =>
    \A u \in Units \ build.touched :
      {<<p.order, p.erp>> : p \in {q \in UnitsOf(Day) : q.unit = u}}
        = {<<build.manifest[i].order, erp[u].erp>> : i \in {k \in LinesOf(u) : erp[u].erp \in 0..9}}
      /\ Cardinality({p \in UnitsOf(Day) : p.unit = u}) <= 1

\* An order is flagged short exactly if one of its lines is, as long as no unit comes to them
\* or leaves them.
StillOrdersAreFlagged ==
  build.step = "done" =>
    \A i \in Scheduled(build.manifest) :
      LET order == build.manifest[i].order
          lines == {k \in Scheduled(build.manifest) : build.manifest[k].order = order}
      IN {build.manifest[k].item : k \in lines} \cap build.touched = {} =>
           (order \in Short(Day) <=>
              \E k \in lines :
                Cardinality(AllocatedTo(build.manifest[k].item)) < build.manifest[k].qty)

\* A reading build ends, with its day or with an error, whatever the ERP answers: a request
\* that is under way is answered or times out.
BuildsEnd == build.step = "orders" ~> build.step \in {"done", "failed"}
=============================================================================
