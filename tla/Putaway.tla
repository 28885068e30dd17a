------------------------------- MODULE Putaway -------------------------------
(***************************************************************************)
(* rank_putaway_bins (services/putaway over adapters/db/routing_db) and    *)
(* find_void: which free bins to put a received unit in, the ones nearest  *)
(* to the next pick first.                                                 *)
(*                                                                         *)
(* Straight-line distances come as a table, Gap, in place of coordinates.  *)
(* The node nearest to a bin is the first of the nearest ones as the       *)
(* database lists them, that is any of them.                               *)
(***************************************************************************)
EXTENDS ShortestPath, FiniteSets, Sequences, Functions

CONSTANTS
  Bins,
  Eligible,   \* the bins with coordinates that are eligible_for_void
  Gap,        \* Gap[b][n]: from bin b to node n
  Height,     \* Height[b]: height_m of b, as inches
  Width,      \* Width[b]: the width limit of b's rack type, or Unknown
  Cartons,    \* what model_size_catalog can say of a model: [h, w], each may be Unknown
  Occupancies,\* the sets of bins in-warehouse items can be recorded in
  Unknown,    \* NULL
  Limit

ASSUME PutawayAssumption ==
  /\ Eligible \subseteq Bins /\ IsFiniteSet(Bins) /\ IsFiniteSet(Nodes)
  /\ Gap \in [Bins -> [Nodes -> Nat]]
  /\ Height \in [Bins -> Nat] /\ Width \in [Bins -> Nat \cup {Unknown}]
  /\ Cartons \subseteq [h : Nat \cup {Unknown}, w : Nat \cup {Unknown}]
  /\ Occupancies \subseteq SUBSET Bins
  /\ Limit \in Nat

VARIABLES
  ask,        \* the request: [reference, carton, occupied, snap]
  answer      \* the ranked bins, or Unknown before the answer

putawayVars == <<graph, origin, dist, heap, ask, answer>>

\* _snap_to_node
Nearest(b) == {n \in Nodes : \A m \in Nodes : Gap[b][n] <= Gap[b][m]}
Snaps == {snap \in [Bins -> Nodes] : \A b \in Bins : snap[b] \in Nearest(b)}

\* _fits: unknown dimensions fit, and height and width each have their say.
FitsIn(carton, b) ==
  /\ carton.h # Unknown => carton.h <= Height[b]
  /\ carton.w # Unknown /\ Width[b] # Unknown => carton.w <= Width[b]

OpenFor(carton, occupied) == {b \in Eligible \ occupied : FitsIn(carton, b)}

Score(b) == Gap[b][ask.snap[b]] + dist[ask.snap[b]] + Gap[ask.reference][origin]

\* Bins whose node cannot be reached are left out.
Scored == {b \in OpenFor(ask.carton, ask.occupied) : ask.snap[b] \in DOMAIN dist}

Sorted(bins) ==
  {q \in Bijection(1..Cardinality(bins), bins) :
     \A i, j \in 1..Cardinality(bins) : i < j => Score(q[i]) <= Score(q[j])}

AtMost(n, m) == IF n < m THEN n ELSE m

\* Slip: cut to the limit first, sort then.
CutThenSorted ==
  UNION {Sorted(bins) : bins \in
    {s \in SUBSET Scored : Cardinality(s) = AtMost(Limit, Cardinality(Scored))}}

Ranked == {SubSeq(q, 1, AtMost(Limit, Len(q))) : q \in Sorted(Scored)}

----------------------------------------------------------------------------
\* What rank_putaway_bins has read: the next pick's bin, if any, the carton, the occupied
\* bins and the graph.
Asked ==
  /\ \E snap \in Snaps, carton \in Cartons, occupied \in Occupancies :
       \E reference \in Bins \cup {Unknown}, o \in Nodes :
         /\ ask = [carton |-> carton, occupied |-> occupied, reference |-> reference,
                   snap |-> snap]
         /\ reference # Unknown => o = snap[reference]
         /\ SearchFrom(o)
  /\ answer = Unknown

\* Without a reference pick or an open bin the answer is empty, and nothing is searched.
NothingToRank == ask.reference = Unknown \/ OpenFor(ask.carton, ask.occupied) = {}

AnswerNothing ==
  /\ answer = Unknown /\ NothingToRank
  /\ answer' = <<>>
  /\ UNCHANGED <<routeVars, ask>>

Route ==
  /\ answer = Unknown /\ ~ NothingToRank
  /\ Pop
  /\ UNCHANGED <<ask, answer>>

Rank ==
  /\ answer = Unknown /\ ~ NothingToRank
  /\ heap = {}
  /\ answer' \in Ranked
  /\ UNCHANGED <<routeVars, ask>>

PutawayInit == Asked /\ graph \in Graphs
PutawayNext == AnswerNothing \/ Route \/ Rank
PutawaySpec == PutawayInit /\ [][PutawayNext]_putawayVars

----------------------------------------------------------------------------
\* Type invariant of a putaway request.
PutawayTypeOK == RouteTypeOK /\ (answer # Unknown => answer \in Seq(Bins))

\* The lengths of the walks of at most k edges from the node next to the reference pick.
NoEdgeYet == [n \in Nodes |-> IF n = ask.snap[ask.reference] THEN {0} ELSE {}]
OneEdgeMore(lengths) ==
  [n \in Nodes |->
     lengths[n] \cup UNION {{Via(len, m, n) : len \in lengths[m]} : m \in Neighbours(n)}]
Walks[k \in 0..Cardinality(Nodes)] ==
  IF k = 0 THEN NoEdgeYet ELSE OneEdgeMore(Walks[k - 1])

Shortest(lengths) == CHOOSE len \in lengths : \A other \in lengths : len <= other

Travel(walks, b) ==
  Gap[b][ask.snap[b]] + Gap[ask.reference][ask.snap[ask.reference]] + Shortest(walks[ask.snap[b]])

\* The answer is Limit free, fitting bins in the order of the way to the reference pick, or
\* all there are, and no bin left out is nearer than one in it.
AnswerIsTheNearest ==
  answer # Unknown /\ ask.reference # Unknown =>
    LET walks == Walks[Cardinality(Nodes)]
        suitable == {b \in Eligible : /\ b \notin ask.occupied /\ FitsIn(ask.carton, b)
                                     /\ walks[ask.snap[b]] # {}}
        listed == Range(answer)
        travel == [b \in suitable |-> Travel(walks, b)]
    IN /\ listed \subseteq suitable
       /\ Len(answer) = Cardinality(listed)
       /\ Len(answer) = Limit \/ listed = suitable
       /\ \A i, j \in DOMAIN answer : i < j => travel[answer[i]] <= travel[answer[j]]
       /\ \A b \in suitable \ listed, i \in DOMAIN answer : travel[answer[i]] <= travel[b]
=============================================================================
