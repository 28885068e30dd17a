--------------------------- MODULE Putaway_proofs ---------------------------
(***************************************************************************)
(* Proofs about the search for the ways through the warehouse and about    *)
(* the putaway requests that make it, for any path graph, bins, cartons    *)
(* and occupancies.                                                        *)
(*                                                                         *)
(* A shortest distance is the greatest length that grows along every edge  *)
(* by no more than the edge is long, which needs no talk of walks: every   *)
(* potential bounds dist from below at all times (Bounded), and a node     *)
(* that is not waiting in the heap has passed its distance on (Passed), so *)
(* dist is a potential itself when the heap is empty.  That it settles in  *)
(* order (Ordered) is what the heap adds.                                  *)
(*                                                                         *)
(* A request steps the search or leaves it alone, so that what holds of    *)
(* the search holds of the request.  That the distances are lengths of     *)
(* walks, of no more edges than there are nodes, is kept along with how    *)
(* many nodes are settled (Walked).                                        *)
(***************************************************************************)
EXTENDS Putaway, FiniteSetTheorems, SequenceTheorems, TLAPS

HeapIsDated == \A e \in heap : e[2] \in DOMAIN dist /\ dist[e[2]] <= e[1]

OriginFound == origin \in DOMAIN dist /\ dist[origin] = 0

Passed ==
  \A u \in Nodes : Settled(u) =>
    \A v \in Neighbours(u) : v \in DOMAIN dist /\ dist[v] <= Via(dist[u], u, v)

Bounded == \A f \in Potentials : \A u \in DOMAIN dist : f[u] <= dist[u]

Ordered == \A u \in Nodes : Settled(u) => \A e \in heap : dist[u] <= e[1]

SearchInv == RouteTypeOK /\ HeapIsDated /\ OriginFound /\ Passed /\ Bounded /\ Ordered

----------------------------------------------------------------------------
\* The length of an edge is a natural number.
LEMMA EdgeLength ==
  ASSUME RouteTypeOK, NEW u \in Nodes, NEW v \in Neighbours(u), NEW c \in Nat
  PROVE  v \in Nodes /\ graph[<<u, v>>] \in Nat /\ Via(c, u, v) \in Nat /\ c <= Via(c, u, v)
<1>1. v \in Nodes /\ graph[<<u, v>>] # NoEdge
  BY DEF Neighbours
<1>2. graph \in [Nodes \X Nodes -> Nat \cup {NoEdge}]
  BY GraphAssumption DEF RouteTypeOK, GraphAssumption
<1>3. <<u, v>> \in Nodes \X Nodes
  BY <1>1
<1>4. graph[<<u, v>>] \in Nat
  BY <1>1, <1>2, <1>3
<1> QED BY <1>1, <1>4 DEF Via

\* The invariant holds when the search begins.
LEMMA SearchBegins == Init => SearchInv
<1> SUFFICES ASSUME Init PROVE SearchInv
  OBVIOUS
<1>1. PICK o \in Nodes : origin = o /\ dist = [n \in {o} |-> 0] /\ heap = {<<0, o>>}
  BY DEF Init, SearchFrom
<1>2. DOMAIN dist = {o} /\ dist[o] = 0 /\ graph \in Graphs
  BY <1>1 DEF Init
<1>3. RouteTypeOK
  <2>1. dist = [n \in DOMAIN dist |-> dist[n]]
    BY <1>1
  <2>2. \A n \in DOMAIN dist : dist[n] \in Nat
    BY <1>2
  <2>3. heap \subseteq Nat \X Nodes
    BY <1>1
  <2> QED BY <1>1, <1>2, <2>1, <2>2, <2>3 DEF RouteTypeOK
<1>4. \A u \in Nodes : ~ Settled(u)
  BY <1>1, <1>2 DEF Settled
<1>5. HeapIsDated /\ OriginFound
  BY <1>1, <1>2 DEF HeapIsDated, OriginFound
<1>6. Bounded
  <2> SUFFICES ASSUME NEW f \in Potentials, NEW u \in DOMAIN dist PROVE f[u] <= dist[u]
    BY DEF Bounded
  <2>1. u = o /\ dist[u] = 0 /\ origin = o
    BY <1>1, <1>2
  <2>2. f[origin] = 0
    BY DEF Potentials
  <2> QED BY <2>1, <2>2
<1> QED BY <1>3, <1>4, <1>5, <1>6 DEF SearchInv, Passed, Ordered

\* Dropping an outdated entry keeps the invariant: it is nobody's current one.
LEMMA SkipKeeps ==
  ASSUME SearchInv, NEW e \in heap, Skip(e[1], e[2])
  PROVE  SearchInv'
<1> USE DEF SearchInv
<1>1. e = <<e[1], e[2]>> /\ e[1] \in Nat /\ e[2] \in Nodes
  BY DEF RouteTypeOK
<1>2. heap' = heap \ {e} /\ UNCHANGED <<graph, origin, dist>> /\ dist[e[2]] < e[1]
  BY <1>1 DEF Skip
<1>3. \A u \in Nodes : Settled(u)' <=> Settled(u)
  <2>1. ASSUME NEW u \in DOMAIN dist PROVE <<dist[u], u>> # e
    <3>1. dist[e[2]] # e[1]
      <4>1. e[2] \in DOMAIN dist /\ dist[e[2]] \in Nat
        BY DEF HeapIsDated, RouteTypeOK
      <4> QED BY <1>1, <1>2, <4>1
    <3> QED BY <3>1, <1>1
  <2> QED BY <2>1, <1>2 DEF Settled
<1>4. RouteTypeOK'
  BY <1>2 DEF RouteTypeOK
<1>5. HeapIsDated' /\ OriginFound'
  BY <1>2 DEF HeapIsDated, OriginFound
<1>6. Passed'
  BY <1>2, <1>3 DEF Passed, Neighbours, Via
<1>7. Bounded'
  BY <1>2 DEF Bounded, Potentials, Neighbours, Via
<1>8. Ordered'
  BY <1>2, <1>3 DEF Ordered
<1> QED BY <1>4, <1>5, <1>6, <1>7, <1>8

\* Settling a node keeps the invariant.  The entry is the least one, so what it leads to is
\* no nearer than it, and no nearer than any node settled before.
LEMMA SettleKeeps ==
  ASSUME SearchInv, NEW e \in heap, Settle(e[1], e[2])
  PROVE  SearchInv' /\ \A u \in Nodes : Settled(u) => u \in DOMAIN dist' /\ dist'[u] = dist[u]
<1> USE DEF SearchInv
<1> DEFINE c == e[1]
           w == e[2]
           new == Improves(c, w)
<1>1. e = <<c, w>> /\ c \in Nat /\ w \in Nodes /\ w \in DOMAIN dist /\ dist[w] = c
  <2>1. e = <<c, w>> /\ c \in Nat /\ w \in Nodes
    BY DEF RouteTypeOK
  <2>2. w \in DOMAIN dist /\ dist[w] <= c /\ dist[w] >= c /\ dist[w] \in Nat
    BY DEF HeapIsDated, Settle, RouteTypeOK
  <2> QED BY <2>1, <2>2
<1>2. \A f \in heap : c <= f[1]
  BY <1>1 DEF Settle, Least
<1>3. UNCHANGED <<graph, origin>>
  BY DEF Settle
<1>4. ASSUME NEW v \in new
      PROVE  /\ v \in Nodes /\ v \in Neighbours(w) /\ Via(c, w, v) \in Nat /\ c <= Via(c, w, v)
             /\ v \in DOMAIN dist => Via(c, w, v) < dist[v]
  BY <1>1, <1>4, EdgeLength DEF Improves
<1>5. /\ DOMAIN dist' = DOMAIN dist \cup new
      /\ dist' = [v \in DOMAIN dist' |-> dist'[v]]
      /\ \A v \in new : dist'[v] = Via(c, w, v)
      /\ \A v \in DOMAIN dist \ new : dist'[v] = dist[v]
  BY DEF Settle
<1>6. heap' = (heap \ {<<c, w>>}) \cup {<<Via(c, w, v), v>> : v \in new}
  BY DEF Settle, Pushed
<1>7. \A v \in DOMAIN dist : dist'[v] <= dist[v]
  <2> TAKE v \in DOMAIN dist
  <2>1. dist[v] \in Nat
    BY DEF RouteTypeOK
  <2> QED BY <2>1, <1>4, <1>5
<1>8. w \notin new /\ dist'[w] = c
  <2>1. w \notin new
    BY <1>1, <1>4
  <2> QED BY <2>1, <1>1, <1>5
<1>9. ASSUME NEW u \in Nodes, Settled(u)
      PROVE  u \in DOMAIN dist /\ u \notin new /\ dist[u] <= c
  <2>1. u \in DOMAIN dist /\ dist[u] <= c /\ dist[u] \in Nat
    BY <1>9 DEF Settled, Ordered, RouteTypeOK
  <2> QED BY <2>1, <1>1, <1>4
<1>10. ASSUME NEW u \in Nodes, Settled(u)'
       PROVE  u = w \/ Settled(u)
  <2>1. u \in DOMAIN dist' /\ <<dist'[u], u>> \notin heap'
    BY <1>10 DEF Settled
  <2>2. u \notin new
    BY <2>1, <1>5, <1>6
  <2>3. u \in DOMAIN dist /\ dist'[u] = dist[u]
    BY <2>1, <2>2, <1>5
  <2> QED BY <2>1, <2>3, <1>6 DEF Settled
<1>11. RouteTypeOK'
  <2>1. DOMAIN dist' \subseteq Nodes
    BY <1>4, <1>5 DEF RouteTypeOK
  <2>2. \A n \in DOMAIN dist' : dist'[n] \in Nat
    BY <1>4, <1>5 DEF RouteTypeOK
  <2>3. heap' \subseteq Nat \X Nodes
    BY <1>4, <1>6 DEF RouteTypeOK
  <2> QED BY <1>3, <1>5, <2>1, <2>2, <2>3 DEF RouteTypeOK
<1>12. HeapIsDated'
  <2>1. ASSUME NEW f \in heap PROVE f[2] \in DOMAIN dist' /\ dist'[f[2]] <= f[1]
    <3>1. f[2] \in DOMAIN dist /\ dist[f[2]] <= f[1] /\ dist[f[2]] \in Nat /\ f[1] \in Nat
      BY DEF HeapIsDated, RouteTypeOK
    <3>2. dist'[f[2]] \in Nat
      BY <3>1, <1>5, <1>11 DEF RouteTypeOK
    <3> QED BY <3>1, <3>2, <1>5, <1>7
  <2>2. ASSUME NEW v \in new
        PROVE  v \in DOMAIN dist' /\ dist'[v] <= Via(c, w, v)
    BY <1>4, <1>5
  <2> QED BY <2>1, <2>2, <1>6 DEF HeapIsDated
<1>13. OriginFound'
  <2>1. origin \notin new
    BY <1>4 DEF OriginFound
  <2> QED BY <2>1, <1>3, <1>5 DEF OriginFound
<1>14. Passed'
  <2> SUFFICES ASSUME NEW u \in Nodes, Settled(u)', NEW v \in Neighbours(u)
               PROVE  v \in DOMAIN dist' /\ dist'[v] <= Via(dist'[u], u, v)
    BY <1>3 DEF Passed, Neighbours, Via
  <2>1. CASE u = w
    <3>1. CASE v \in new
      BY <3>1, <2>1, <1>4, <1>5, <1>8
    <3>2. CASE v \notin new
      <4>1. v \in DOMAIN dist /\ ~ (Via(c, w, v) < dist[v])
        BY <3>2, <2>1 DEF Improves
      <4>2. Via(c, w, v) \in Nat /\ dist[v] \in Nat
        BY <4>1, <2>1, <1>1, EdgeLength DEF RouteTypeOK
      <4> QED BY <4>1, <4>2, <3>2, <2>1, <1>5, <1>8
    <3> QED BY <3>1, <3>2
  <2>2. CASE Settled(u)
    <3>1. u \in DOMAIN dist /\ dist'[u] = dist[u]
      BY <2>2, <1>5, <1>9
    <3>2. v \in DOMAIN dist /\ dist[v] <= Via(dist[u], u, v)
      BY <2>2 DEF Passed
    <3>3. dist[v] \in Nat /\ dist'[v] \in Nat /\ Via(dist[u], u, v) \in Nat
      BY <3>1, <3>2, <1>5, <1>11, EdgeLength DEF RouteTypeOK
    <3> QED BY <3>1, <3>2, <3>3, <1>5, <1>7
  <2> QED BY <2>1, <2>2, <1>10
<1>15. Bounded'
  <2> SUFFICES ASSUME NEW f \in Potentials, NEW u \in DOMAIN dist'
               PROVE  f[u] <= dist'[u]
    BY <1>3 DEF Bounded, Potentials, Neighbours, Via
  <2>1. CASE u \in new
    <3>1. f[w] <= c /\ f[w] \in Nat
      BY <1>1 DEF Bounded, Potentials
    <3>2. f[u] <= Via(f[w], w, u) /\ f[u] \in Nat
      BY <2>1, <1>1, <1>4 DEF Potentials
    <3>3. graph[<<w, u>>] \in Nat
      BY <2>1, <1>1, <1>4, EdgeLength
    <3>4. Via(f[w], w, u) <= Via(c, w, u)
      BY <3>1, <3>3, <1>1 DEF Via
    <3> QED BY <3>1, <3>2, <3>3, <3>4, <2>1, <1>1, <1>5 DEF Via
  <2>2. CASE u \notin new
    BY <2>2, <1>5 DEF Bounded
  <2> QED BY <2>1, <2>2
<1>16. Ordered'
  <2> SUFFICES ASSUME NEW u \in Nodes, Settled(u)', NEW f \in heap'
               PROVE  dist'[u] <= f[1]
    BY DEF Ordered
  <2>1. dist'[u] <= c
    <3>1. CASE u = w
      BY <3>1, <1>1, <1>8
    <3>2. CASE Settled(u)
      BY <3>2, <1>5, <1>9
    <3> QED BY <3>1, <3>2, <1>10
  <2>2. c <= f[1]
    BY <1>2, <1>4, <1>6
  <2>3. dist'[u] \in Nat /\ f[1] \in Nat
    BY <1>11 DEF RouteTypeOK, Settled
  <2> QED BY <2>1, <2>2, <2>3, <1>1
<1>17. \A u \in Nodes : Settled(u) => u \in DOMAIN dist' /\ dist'[u] = dist[u]
  BY <1>5, <1>9
<1> QED BY <1>11, <1>12, <1>13, <1>14, <1>15, <1>16, <1>17

\* Every step keeps the invariant, and every settled node's distance.
LEMMA SearchSteps ==
  ASSUME SearchInv, [Next]_routeVars
  PROVE  SearchInv' /\ \A u \in Nodes : Settled(u) => u \in DOMAIN dist' /\ dist'[u] = dist[u]
<1>1. CASE UNCHANGED routeVars
  BY <1>1 DEF routeVars, SearchInv, RouteTypeOK, HeapIsDated, OriginFound, Passed, Bounded, Ordered,
     Settled, Neighbours, Via, Potentials
<1>2. CASE \E e \in heap : Skip(e[1], e[2])
  <2>1. SearchInv'
    BY <1>2, SkipKeeps
  <2>2. UNCHANGED dist
    BY <1>2 DEF Skip
  <2> QED BY <2>1, <2>2 DEF Settled
<1>3. CASE \E e \in heap : Settle(e[1], e[2])
  BY <1>3, SettleKeeps
<1> QED BY <1>1, <1>2, <1>3 DEF Next, Pop

----------------------------------------------------------------------------
\* The search keeps its invariant.
THEOREM SearchInvariant == Spec => []SearchInv
<1>1. SearchInv /\ [Next]_routeVars => SearchInv'
  BY SearchSteps
<1> QED BY SearchBegins, <1>1, PTL DEF Spec

\* When the search ends it has found every node that can be reached, and its shortest
\* distance: _dijkstra is right on every graph.
THEOREM ShortestDistances == Spec => []SearchIsRight
<1>1. SearchInv => SearchIsRight
  <2> SUFFICES ASSUME SearchInv, heap = {} PROVE SearchIsRight
    BY DEF SearchIsRight
  <2>1. \A u \in DOMAIN dist : u \in Nodes /\ Settled(u)
    BY DEF SearchInv, RouteTypeOK, Settled
  <2> QED BY <2>1 DEF SearchInv, SearchIsRight, OriginFound, Passed, Bounded
<1> QED BY SearchInvariant, <1>1, PTL

\* A node whose current entry has come up keeps its distance for the rest of the search.
THEOREM SettledForGood == Spec => SettledStaysSettled
<1>1. SearchInv /\ [Next]_routeVars =>
        [\A u \in Nodes : Settled(u) => u \in DOMAIN dist' /\ dist'[u] = dist[u]]_routeVars
  BY SearchSteps
<1> QED BY SearchInvariant, <1>1, PTL DEF Spec, SettledStaysSettled

----------------------------------------------------------------------------
\* A request refines the search: whatever it does is a step of the search or none.
THEOREM RequestsSearch == PutawaySpec => Spec
<1>1. PutawayInit => Init
  <2> SUFFICES ASSUME PutawayInit PROVE Init
    OBVIOUS
  <2>1. graph \in Graphs /\ \E o \in Nodes : SearchFrom(o)
    BY DEF PutawayInit, Asked
  <2> QED BY <2>1 DEF Init
<1>2. [PutawayNext]_putawayVars => [Next]_routeVars
  BY DEF PutawayNext, putawayVars, AnswerNothing, Route, Rank, Next, routeVars
<1> QED BY <1>1, <1>2, PTL DEF PutawaySpec, Spec

\* A node that is settled for a request keeps its distance.
THEOREM SettledInARequest == PutawaySpec => SettledStaysSettled
  BY RequestsSearch, SettledForGood, PTL

----------------------------------------------------------------------------
\* A list cut to the limit.
LEMMA RankedLists ==
  ASSUME NEW list \in Ranked
  PROVE  LET n == Cardinality(Scored)
             m == AtMost(Limit, n)
         IN \E q \in Sorted(Scored) :
              /\ n \in Nat /\ m \in Nat /\ m <= n
              /\ q \in Seq(Scored) /\ Len(q) = n
              /\ list \in Seq(Scored) /\ Len(list) = m /\ \A i \in 1..m : list[i] = q[i]
<1> DEFINE n == Cardinality(Scored)
           m == AtMost(Limit, n)
<1>1. IsFiniteSet(Scored)
  <2>1. Scored \subseteq Bins
    BY PutawayAssumption DEF PutawayAssumption, Scored, OpenFor
  <2> QED BY <2>1, PutawayAssumption, FS_Subset DEF PutawayAssumption
<1>2. n \in Nat /\ Limit \in Nat
  BY <1>1, PutawayAssumption, FS_CardinalityType DEF PutawayAssumption
<1> HIDE DEF n
<1>3. m \in Nat /\ m <= n
  BY <1>2 DEF AtMost
<1>4. PICK q \in Sorted(Scored) : list = SubSeq(q, 1, AtMost(Limit, Len(q)))
  BY DEF Ranked
<1>5. q \in [1..n -> Scored]
  BY DEF Sorted, Bijection, Injection, n
<1>6. q \in Seq(Scored) /\ Len(q) = n
  BY <1>2, <1>5
<1> HIDE DEF m
<1>7. list = SubSeq(q, 1, m)
  BY <1>4, <1>6 DEF m
<1>8. list \in Seq(Scored) /\ Len(list) = m /\ \A i \in 1..m : list[i] = q[i]
  BY <1>2, <1>3, <1>6, <1>7, SubSeqProperties
<1> QED BY <1>2, <1>3, <1>6, <1>8 DEF n, m

Answered == answer # Unknown /\ ~ NothingToRank => heap = {} /\ answer \in Ranked

\* What the answer is made of stands when the search is over.
LEMMA RankedStands ==
  ASSUME UNCHANGED <<dist, origin, ask>>
  PROVE  Ranked' = Ranked /\ NothingToRank' = NothingToRank
<1>1. Scored' = Scored
  BY DEF Scored, OpenFor, FitsIn
<1>2. (Sorted(Scored))' = Sorted(Scored)
  BY <1>1 DEF Sorted, Score
<1>3. Ranked' = Ranked
  BY <1>2 DEF Ranked
<1> QED BY <1>3 DEF NothingToRank, OpenFor, FitsIn

LEMMA AnswerStands == PutawaySpec => []Answered
<1>1. PutawayInit => Answered
  BY DEF PutawayInit, Asked, Answered
<1>2. Answered /\ [PutawayNext]_putawayVars => Answered'
  <2> SUFFICES ASSUME Answered, [PutawayNext]_putawayVars PROVE Answered'
    OBVIOUS
  <2>1. CASE UNCHANGED <<dist, origin, heap, ask, answer>>
    BY <2>1, RankedStands DEF Answered
  <2>2. CASE AnswerNothing
    <3>1. UNCHANGED <<dist, origin, ask>> /\ NothingToRank
      BY <2>2 DEF AnswerNothing, routeVars
    <3> QED BY <3>1, RankedStands DEF Answered
  <2>3. CASE Route
    BY <2>3 DEF Route, Answered
  <2>4. CASE Rank
    <3>1. UNCHANGED <<dist, origin, ask, heap>> /\ heap = {} /\ answer' \in Ranked
      BY <2>4 DEF Rank, routeVars
    <3> QED BY <3>1, RankedStands DEF Answered
  <2> QED BY <2>1, <2>2, <2>3, <2>4 DEF PutawayNext, putawayVars
<1> QED BY <1>1, <1>2, PTL DEF PutawaySpec

\* An answer is a list of bins, and the search is typed.
THEOREM PutawayTypeCorrect == PutawaySpec => []PutawayTypeOK
<1> DEFINE Listed == answer # Unknown => answer \in Seq(Bins)
<1>1. PutawayInit => Listed
  BY DEF PutawayInit, Asked
<1>2. Listed /\ [PutawayNext]_putawayVars => Listed'
  <2> SUFFICES ASSUME Listed, [PutawayNext]_putawayVars PROVE Listed'
    OBVIOUS
  <2>1. CASE AnswerNothing
    BY <2>1 DEF AnswerNothing
  <2>2. CASE Rank
    <3>1. answer' \in Seq(Scored)
      BY <2>2, RankedLists DEF Rank
    <3>2. Scored \subseteq Bins
      BY PutawayAssumption DEF PutawayAssumption, Scored, OpenFor
    <3> QED BY <3>1, <3>2
  <2>3. CASE UNCHANGED answer
    BY <2>3
  <2> QED BY <2>1, <2>2, <2>3 DEF PutawayNext, putawayVars, Route
<1>3. Listed /\ SearchInv => PutawayTypeOK
  BY DEF SearchInv, PutawayTypeOK
<1> QED BY <1>1, <1>2, <1>3, RequestsSearch, SearchInvariant, PTL DEF PutawaySpec

----------------------------------------------------------------------------
\* The bins of an answer are open ones in the order of their scores, as many as are asked for
\* or all there are, and none that is left out scores less.
AnswerIsRanked ==
  answer # Unknown /\ ~ NothingToRank =>
    /\ heap = {}
    /\ Len(answer) = AtMost(Limit, Cardinality(Scored))
    /\ \A i \in 1..Len(answer) : answer[i] \in Scored
    /\ \A i, j \in 1..Len(answer) :
         i < j => answer[i] # answer[j] /\ Score(answer[i]) <= Score(answer[j])
    /\ \A b \in Scored : (\A i \in 1..Len(answer) : answer[i] # b) =>
         \A i \in 1..Len(answer) : Score(answer[i]) <= Score(b)

\* rank_putaway_bins answers with the bins nearest to the next pick, on the shortest ways.
THEOREM NearestAreRanked == PutawaySpec => [](AnswerIsRanked /\ SearchIsRight)
<1>1. Answered => AnswerIsRanked
  <2> SUFFICES ASSUME heap = {}, answer \in Ranked, ~ NothingToRank PROVE AnswerIsRanked
    BY DEF Answered, AnswerIsRanked
  <2> DEFINE n == Cardinality(Scored)
             m == AtMost(Limit, n)
  <2>1. PICK q \in Sorted(Scored) :
          /\ n \in Nat /\ m \in Nat /\ m <= n
          /\ q \in Seq(Scored) /\ Len(q) = n
          /\ answer \in Seq(Scored) /\ Len(answer) = m /\ \A i \in 1..m : answer[i] = q[i]
    BY RankedLists
  <2>2. /\ q \in [1..n -> Scored]
        /\ \A i, j \in 1..n : q[i] = q[j] => i = j
        /\ \A b \in Scored : \E i \in 1..n : q[i] = b
        /\ \A i, j \in 1..n : i < j => Score(q[i]) <= Score(q[j])
    BY DEF Sorted, Bijection, Injection, Surjection, IsInjective
  <2> HIDE DEF n, m
  <2>3. \A i \in 1..m : i \in 1..n /\ answer[i] = q[i] /\ answer[i] \in Scored
    BY <2>1, <2>2
  <2>4. ASSUME NEW i \in 1..m, NEW j \in 1..m, i < j
        PROVE  answer[i] # answer[j] /\ Score(answer[i]) <= Score(answer[j])
    BY <2>2, <2>3, <2>4
  <2>5. ASSUME NEW b \in Scored, \A i \in 1..m : answer[i] # b, NEW i \in 1..m
        PROVE  Score(answer[i]) <= Score(b)
    <3>1. PICK j \in 1..n : q[j] = b
      BY <2>2
    <3>2. i < j
      BY <2>1, <2>3, <2>5, <3>1
    <3> QED BY <2>2, <2>3, <3>1, <3>2
  <2> QED BY <2>1, <2>3, <2>4, <2>5 DEF AnswerIsRanked, n, m
<1> QED BY <1>1, AnswerStands, RequestsSearch, ShortestDistances, PTL

----------------------------------------------------------------------------
(***************************************************************************)
(* Distances and walks.                                                    *)
(***************************************************************************)

NodeCount == Cardinality(Nodes)

LEMMA NodesCounted == NodeCount \in Nat
BY PutawayAssumption, FS_CardinalityType DEF PutawayAssumption, NodeCount

LEMMA LeastIsThere ==
  ASSUME NEW T \in SUBSET Nat, T # {}
  PROVE  \E x \in T : \A y \in T : x <= y
<1> DEFINE less == {p \in Nat \X Nat : p[1] < p[2]}
<1>1. OpToRel(<, Nat) = less
  BY DEF OpToRel
<1>2. IsWellFoundedOn(less, Nat)
  BY <1>1, NatLessThanWellFounded
<1> HIDE DEF less
<1>3. PICK x \in T : \A y \in T : ~ (<<y, x>> \in less)
  BY <1>2, WFMin
<1>4. \A y \in T : ~ (y < x)
  BY <1>3 DEF less
<1> QED BY <1>4

\* w counts walks of up to n edges.
WalksUpTo(w, n) ==
  w = [k \in 0..n |-> IF k = 0 THEN NoEdgeYet ELSE OneEdgeMore(w[k - 1])]

\* There is such a function for every number of edges: for the least number without one there
\* would be the one before, and one step more.
LEMMA WalksExist ==
  ASSUME NEW n \in Nat
  PROVE  \E w : WalksUpTo(w, n)
<1> SUFFICES ASSUME ~ \E w : WalksUpTo(w, n) PROVE FALSE
  OBVIOUS
<1> DEFINE missing == {k \in Nat : ~ \E w : WalksUpTo(w, k)}
<1>1. PICK k \in missing : \A j \in missing : k <= j
  <2>1. missing \in SUBSET Nat /\ missing # {}
    OBVIOUS
  <2> HIDE DEF missing
  <2> QED BY <2>1, LeastIsThere
<1>2. CASE k = 0
  <2> DEFINE w == [j \in 0..0 |-> NoEdgeYet]
  <2>1. WalksUpTo(w, 0)
    BY DEF WalksUpTo
  <2> QED BY <1>1, <1>2, <2>1
<1>3. CASE k # 0
  <2>1. k \in Nat /\ k - 1 \in Nat /\ k - 1 \notin missing
    BY <1>1, <1>3
  <2>2. PICK v : WalksUpTo(v, k - 1)
    BY <2>1
  <2> DEFINE w == [j \in 0..k |-> IF j = k THEN OneEdgeMore(v[k - 1]) ELSE v[j]]
  <2>3. \A j \in 0..(k - 1) : w[j] = v[j]
    BY <2>1
  <2>4. \A j \in 0..k : w[j] = IF j = 0 THEN NoEdgeYet ELSE OneEdgeMore(w[j - 1])
    <3> SUFFICES ASSUME NEW j \in 0..k
                 PROVE  w[j] = IF j = 0 THEN NoEdgeYet ELSE OneEdgeMore(w[j - 1])
      OBVIOUS
    <3>1. CASE j = k
      <4>1. w[j - 1] = v[k - 1]
        BY <1>3, <2>1, <2>3, <3>1
      <4>2. w[j] = OneEdgeMore(v[k - 1])
        BY <3>1
      <4> HIDE DEF w
      <4> QED BY <1>3, <3>1, <4>1, <4>2
    <3>2. CASE j # k
      <4>1. j \in 0..(k - 1) /\ (j # 0 => j - 1 \in 0..(k - 1))
        BY <2>1, <3>2
      <4>2. v[j] = IF j = 0 THEN NoEdgeYet ELSE OneEdgeMore(v[j - 1])
        BY <2>2, <4>1 DEF WalksUpTo
      <4> HIDE DEF w
      <4> QED BY <2>3, <4>1, <4>2
    <3> QED BY <3>1, <3>2
  <2>5. w = [j \in 0..k |-> w[j]]
    OBVIOUS
  <2> HIDE DEF w
  <2>6. WalksUpTo(w, k)
    BY <2>4, <2>5 DEF WalksUpTo
  <2> QED BY <1>1, <2>6
<1> QED BY <1>2, <1>3

LEMMA WalksAre == WalksUpTo(Walks, NodeCount)
<1>1. \E w : WalksUpTo(w, NodeCount)
  BY NodesCounted, WalksExist
<1>2. Walks = CHOOSE w : WalksUpTo(w, NodeCount)
  BY DEF Walks, WalksUpTo, NodeCount
<1> QED BY <1>1, <1>2

LEMMA WalkLengths ==
  ASSUME NEW u \in Nodes
  PROVE  /\ Walks[0][u] = IF u = ask.snap[ask.reference] THEN {0} ELSE {}
         /\ \A k \in 1..NodeCount :
              Walks[k][u] = Walks[k - 1][u]
                \cup UNION {{Via(len, m, u) : len \in Walks[k - 1][m]} : m \in Neighbours(u)}
<1>1. /\ Walks[0] = NoEdgeYet
      /\ \A k \in 1..NodeCount : Walks[k] = OneEdgeMore(Walks[k - 1])
  <2> DEFINE w == Walks
  <2>1. w = [k \in 0..NodeCount |-> IF k = 0 THEN NoEdgeYet ELSE OneEdgeMore(w[k - 1])]
    BY WalksAre DEF WalksUpTo
  <2>2. \A k \in 0..NodeCount : w[k] = IF k = 0 THEN NoEdgeYet ELSE OneEdgeMore(w[k - 1])
    <3> HIDE DEF w
    <3> QED BY <2>1
  <2>3. 0 \in 0..NodeCount /\ \A k \in 1..NodeCount : k \in 0..NodeCount /\ k # 0
    BY NodesCounted
  <2> QED BY <2>2, <2>3
<1>2. \A lengths : OneEdgeMore(lengths)[u] =
        lengths[u] \cup UNION {{Via(len, m, u) : len \in lengths[m]} : m \in Neighbours(u)}
  BY DEF OneEdgeMore
<1> QED BY <1>1, <1>2 DEF NoEdgeYet

\* What is walked with few edges is walked with more.
LEMMA WalksGrow ==
  ASSUME NEW u \in Nodes, NEW j \in 0..NodeCount, NEW k \in j..NodeCount
  PROVE  Walks[j][u] \subseteq Walks[k][u]
<1> SUFFICES ASSUME ~ (Walks[j][u] \subseteq Walks[k][u]) PROVE FALSE
  OBVIOUS
<1> DEFINE lost == {i \in j..NodeCount : ~ (Walks[j][u] \subseteq Walks[i][u])}
<1>1. PICK i \in lost : \A l \in lost : i <= l
  <2>1. lost \in SUBSET Nat /\ lost # {}
    BY NodesCounted
  <2> HIDE DEF lost
  <2> QED BY <2>1, LeastIsThere
<1>2. i \in j..NodeCount /\ j \in Nat /\ i # j
  OBVIOUS
<1>3. i \in 1..NodeCount /\ i - 1 \in j..NodeCount /\ i - 1 \notin lost
  BY <1>1, <1>2, NodesCounted
<1>4. Walks[j][u] \subseteq Walks[i - 1][u]
  BY <1>3
<1>5. Walks[i - 1][u] \subseteq Walks[i][u]
  BY <1>3, WalkLengths
<1> QED BY <1>1, <1>4, <1>5

\* The search of a request starts next to its reference pick.
StartsAtReference ==
  /\ ask.snap \in [Bins -> Nodes] /\ ask.reference \in Bins \cup {Unknown}
  /\ ask.reference # Unknown => origin = ask.snap[ask.reference]

LEMMA SearchStartsAtReference == PutawaySpec => []StartsAtReference
<1>1. PutawayInit => StartsAtReference
  BY DEF PutawayInit, Asked, SearchFrom, Snaps, StartsAtReference
<1>2. StartsAtReference /\ [PutawayNext]_putawayVars => StartsAtReference'
  BY DEF PutawayNext, putawayVars, AnswerNothing, Route, Rank, Pop, Skip, Settle, routeVars,
     StartsAtReference
<1> QED BY <1>1, <1>2, PTL DEF PutawaySpec

SettledNodes == {u \in Nodes : Settled(u)}

\* A distance is the length of a walk of as many edges as there are settled nodes.
Walked ==
  ask.reference # Unknown => \A u \in DOMAIN dist : dist[u] \in Walks[Cardinality(SettledNodes)][u]

LEMMA SettledCounted ==
  /\ IsFiniteSet(SettledNodes) /\ Cardinality(SettledNodes) \in 0..NodeCount
  /\ IsFiniteSet(SettledNodes') /\ Cardinality(SettledNodes') \in 0..NodeCount
<1>1. \A T \in SUBSET Nodes : IsFiniteSet(T) /\ Cardinality(T) \in Nat /\ Cardinality(T) <= NodeCount
  BY PutawayAssumption, FS_Subset, FS_CardinalityType DEF PutawayAssumption, NodeCount
<1>2. SettledNodes \in SUBSET Nodes /\ SettledNodes' \in SUBSET Nodes
  BY DEF SettledNodes
<1> QED BY <1>1, <1>2, NodesCounted

LEMMA WalksStand ==
  ASSUME UNCHANGED <<graph, ask>>
  PROVE  Walks' = Walks
BY DEF Walks, NoEdgeYet, OneEdgeMore, Neighbours, Via

LEMMA SkipSettlesNone ==
  ASSUME SearchInv, NEW e \in heap, Skip(e[1], e[2])
  PROVE  SettledNodes' = SettledNodes /\ UNCHANGED <<dist, graph>>
<1>1. e = <<e[1], e[2]>> /\ e[1] \in Nat
  BY DEF SearchInv, RouteTypeOK
<1>2. heap' = heap \ {e} /\ UNCHANGED <<graph, dist>> /\ dist[e[2]] < e[1]
  BY <1>1 DEF Skip
<1>3. \A u \in DOMAIN dist : <<dist[u], u>> # e
  <2>1. e[2] \in DOMAIN dist => dist[e[2]] # e[1]
    BY <1>1, <1>2 DEF SearchInv, RouteTypeOK
  <2> QED BY <1>1, <2>1
<1> QED BY <1>2, <1>3 DEF SettledNodes, Settled

LEMMA SettleSettlesOne ==
  ASSUME SearchInv, NEW e \in heap, Settle(e[1], e[2])
  PROVE  /\ e[2] \in DOMAIN dist /\ e[2] \in Nodes /\ e[2] \notin SettledNodes /\ graph' = graph
         /\ SettledNodes' = SettledNodes \cup {e[2]}
         /\ \A v \in DOMAIN dist' :
              \/ v \in DOMAIN dist /\ dist'[v] = dist[v]
              \/ v \in Neighbours(e[2]) /\ dist'[v] = Via(dist[e[2]], e[2], v)
<1> DEFINE c == e[1]
           w == e[2]
           new == Improves(c, w)
<1>1. e = <<c, w>> /\ c \in Nat /\ w \in Nodes /\ w \in DOMAIN dist /\ dist[w] = c
  <2>1. e = <<c, w>> /\ c \in Nat /\ w \in Nodes
    BY DEF SearchInv, RouteTypeOK
  <2>2. w \in DOMAIN dist /\ dist[w] <= c /\ dist[w] >= c /\ dist[w] \in Nat
    BY DEF SearchInv, HeapIsDated, Settle, RouteTypeOK
  <2> QED BY <2>1, <2>2
<1>2. /\ DOMAIN dist' = DOMAIN dist \cup new
      /\ \A v \in new : dist'[v] = Via(c, w, v) /\ v \in Neighbours(w)
      /\ \A v \in DOMAIN dist \ new : dist'[v] = dist[v]
      /\ heap' = (heap \ {<<c, w>>}) \cup {<<Via(c, w, v), v>> : v \in new}
      /\ graph' = graph
  BY DEF Settle, Pushed, Improves
<1>3. \A u \in Nodes : Settled(u) => u \in DOMAIN dist' /\ dist'[u] = dist[u]
  BY SettleKeeps
<1>4. \A u \in SettledNodes \cup {w} : u \notin new
  <2>1. SearchInv'
    BY SettleKeeps
  <2>2. ASSUME NEW v \in new PROVE v \in DOMAIN dist => dist'[v] < dist[v]
    BY <1>2, <2>2 DEF Improves
  <2>3. w \notin new
    <3>1. \A v \in Neighbours(w) : c <= Via(c, w, v) /\ Via(c, w, v) \in Nat
      BY <1>1, EdgeLength DEF SearchInv
    <3> QED BY <1>1, <1>2, <2>2, <3>1
  <2>4. ASSUME NEW u \in SettledNodes PROVE u \notin new
    <3>1. u \in DOMAIN dist /\ dist'[u] = dist[u] /\ dist[u] \in Nat
      BY <1>3 DEF SettledNodes, Settled, SearchInv, RouteTypeOK
    <3> QED BY <2>2, <3>1
  <2> QED BY <2>3, <2>4
<1>5. w \notin SettledNodes
  BY <1>1 DEF SettledNodes, Settled
<1>6. SettledNodes \cup {w} \subseteq SettledNodes'
  <2> SUFFICES ASSUME NEW u \in SettledNodes \cup {w} PROVE u \in SettledNodes'
    OBVIOUS
  <2>1. u \in Nodes /\ u \in DOMAIN dist /\ u \notin new /\ dist'[u] = dist[u]
    BY <1>1, <1>2, <1>4 DEF SettledNodes, Settled
  <2>2. <<dist[u], u>> \notin heap \ {<<c, w>>}
    BY <1>1 DEF SettledNodes, Settled
  <2> QED BY <1>2, <2>1, <2>2 DEF SettledNodes, Settled
<1>7. SettledNodes' \subseteq SettledNodes \cup {w}
  <2> SUFFICES ASSUME NEW u \in SettledNodes', u # w PROVE u \in SettledNodes
    OBVIOUS
  <2>1. u \in Nodes /\ u \in DOMAIN dist' /\ <<dist'[u], u>> \notin heap'
    BY DEF SettledNodes, Settled
  <2>2. u \notin new
    BY <1>2, <2>1
  <2>3. u \in DOMAIN dist /\ dist'[u] = dist[u]
    BY <1>2, <2>1, <2>2
  <2> QED BY <1>2, <2>1, <2>3 DEF SettledNodes, Settled
<1>8. \A v \in DOMAIN dist' :
        \/ v \in DOMAIN dist /\ dist'[v] = dist[v]
        \/ v \in Neighbours(w) /\ dist'[v] = Via(dist[w], w, v)
  BY <1>1, <1>2
<1> QED BY <1>1, <1>2, <1>5, <1>6, <1>7, <1>8

LEMMA NeighboursAre ==
  ASSUME RouteTypeOK, NEW u \in Nodes, NEW v \in Neighbours(u)
  PROVE  v \in Nodes /\ u \in Neighbours(v)
BY GraphAssumption DEF RouteTypeOK, GraphAssumption, Neighbours

LEMMA WalkedKept ==
  ASSUME SearchInv, SearchInv', Walked, [PutawayNext]_putawayVars
  PROVE  Walked'
<1> SUFFICES ASSUME ask'.reference # Unknown, NEW u \in DOMAIN dist'
             PROVE  dist'[u] \in (Walks')[Cardinality(SettledNodes')][u]
  BY DEF Walked
<1>1. UNCHANGED <<graph, ask>>
  BY DEF PutawayNext, putawayVars, AnswerNothing, Route, Rank, Pop, Skip, Settle, routeVars
<1>2. Walks' = Walks /\ ask.reference # Unknown
  BY <1>1, WalksStand
<1>3. CASE SettledNodes' = SettledNodes /\ dist' = dist
  BY <1>2, <1>3 DEF Walked
<1>4. CASE \E e \in heap : Settle(e[1], e[2])
  <2>1. PICK e \in heap : Settle(e[1], e[2])
    BY <1>4
  <2> DEFINE w == e[2]
             n == Cardinality(SettledNodes)
  <2>2. /\ w \in DOMAIN dist /\ w \in Nodes /\ w \notin SettledNodes
        /\ SettledNodes' = SettledNodes \cup {w}
        /\ \/ u \in DOMAIN dist /\ dist'[u] = dist[u]
           \/ u \in Neighbours(w) /\ dist'[u] = Via(dist[w], w, u)
    BY <2>1, SettleSettlesOne
  <2>3. n \in 0..NodeCount /\ Cardinality(SettledNodes') \in 0..NodeCount
    BY SettledCounted
  <2>4. Cardinality(SettledNodes') = n + 1
    BY <2>2, SettledCounted, FS_AddElement
  <2>5. u \in Nodes
    BY DEF SearchInv, RouteTypeOK
  <2> HIDE DEF n
  <2>6. n + 1 \in 1..NodeCount /\ (n + 1) - 1 = n
    BY <2>3, <2>4, NodesCounted
  <2>7. Walks[n + 1][u] =
          Walks[n][u] \cup UNION {{Via(len, m, u) : len \in Walks[n][m]} : m \in Neighbours(u)}
    BY <2>5, <2>6, WalkLengths
  <2>8. CASE u \in DOMAIN dist /\ dist'[u] = dist[u]
    BY <1>2, <2>4, <2>7, <2>8 DEF Walked, n
  <2>9. CASE u \in Neighbours(w) /\ dist'[u] = Via(dist[w], w, u)
    <3>1. w \in Neighbours(u)
      BY <2>2, <2>9, NeighboursAre DEF SearchInv
    <3>2. dist[w] \in Walks[n][w]
      BY <1>2, <2>2 DEF Walked, n
    <3>3. dist'[u] \in {Via(len, w, u) : len \in Walks[n][w]}
      BY <2>9, <3>2
    <3>4. dist'[u] \in UNION {{Via(len, m, u) : len \in Walks[n][m]} : m \in Neighbours(u)}
      BY <3>1, <3>3
    <3> QED BY <1>2, <2>4, <2>7, <3>4
  <2> QED BY <2>2, <2>8, <2>9
<1>5. CASE \E e \in heap : Skip(e[1], e[2])
  BY <1>3, <1>5, SkipSettlesNone
<1>6. CASE UNCHANGED routeVars
  <2>1. SettledNodes' = SettledNodes /\ dist' = dist
    BY <1>6 DEF routeVars, SettledNodes, Settled
  <2> QED BY <1>3, <2>1
<1> QED
  BY <1>4, <1>5, <1>6 DEF PutawayNext, putawayVars, AnswerNothing, Route, Rank, Pop, routeVars

LEMMA DistancesAreWalked == PutawaySpec => []Walked
<1>1. PutawayInit => Walked
  <2> SUFFICES ASSUME PutawayInit, ask.reference # Unknown, NEW u \in DOMAIN dist
               PROVE  dist[u] \in Walks[Cardinality(SettledNodes)][u]
    BY DEF Walked
  <2>1. PICK o \in Nodes : SearchFrom(o) /\ o = ask.snap[ask.reference]
    BY DEF PutawayInit, Asked
  <2>2. u = o /\ dist[u] = 0 /\ DOMAIN dist = {o} /\ heap = {<<0, o>>}
    BY <2>1 DEF SearchFrom
  <2>3. SettledNodes = {}
    BY <2>2 DEF SettledNodes, Settled
  <2>4. Walks[0][u] = {0}
    BY <2>1, <2>2, WalkLengths
  <2> QED BY <2>2, <2>3, <2>4, FS_EmptySet
<1>2. SearchInv /\ SearchInv' /\ Walked /\ [PutawayNext]_putawayVars => Walked'
  BY WalkedKept
<1> QED BY <1>1, <1>2, RequestsSearch, SearchInvariant, PTL DEF PutawaySpec

\* No walk is shorter than the distance, and walks lead to no other nodes.
LEMMA NoWalkIsShorter ==
  ASSUME RouteTypeOK, SearchIsRight, heap = {}, origin = ask.snap[ask.reference],
         NEW u \in Nodes, NEW k \in 0..NodeCount, NEW len \in Walks[k][u]
  PROVE  len \in Nat /\ u \in DOMAIN dist /\ dist[u] <= len
<1> DEFINE Long(i) == \A v \in Nodes : \A l \in Walks[i][v] :
                        l \in Nat /\ v \in DOMAIN dist /\ dist[v] <= l
           short == {i \in 0..NodeCount : ~ Long(i)}
<1>1. SUFFICES ASSUME short # {} PROVE FALSE
  OBVIOUS
<1>2. PICK i \in short : \A j \in short : i <= j
  <2>1. short \in SUBSET Nat
    OBVIOUS
  <2> HIDE DEF short
  <2> QED BY <1>1, <2>1, LeastIsThere
<1>3. i \in 0..NodeCount /\ ~ Long(i)
  OBVIOUS
<1> HIDE DEF short
<1>4. Long(i)
  <2>1. CASE i = 0
    <3> SUFFICES ASSUME NEW v \in Nodes, NEW l \in Walks[0][v]
                 PROVE  l \in Nat /\ v \in DOMAIN dist /\ dist[v] <= l
      BY <2>1
    <3>1. l = 0 /\ v = origin
      BY WalkLengths
    <3> QED BY <3>1 DEF SearchIsRight
  <2>2. CASE i # 0
    <3>1. i \in 1..NodeCount /\ i - 1 \in 0..NodeCount
      BY <1>3, <2>2, NodesCounted
    <3>2. Long(i - 1)
      BY <1>2, <3>1 DEF short
    <3> SUFFICES ASSUME NEW v \in Nodes, NEW l \in Walks[i][v]
                 PROVE  l \in Nat /\ v \in DOMAIN dist /\ dist[v] <= l
      OBVIOUS
    <3>3. l \in Walks[i - 1][v]
            \cup UNION {{Via(c, m, v) : c \in Walks[i - 1][m]} : m \in Neighbours(v)}
      BY <3>1, WalkLengths
    <3>4. CASE l \in Walks[i - 1][v]
      BY <3>2, <3>4
    <3>5. CASE l \in UNION {{Via(c, m, v) : c \in Walks[i - 1][m]} : m \in Neighbours(v)}
      <4>1. PICK m \in Neighbours(v) : l \in {Via(c, m, v) : c \in Walks[i - 1][m]}
        BY <3>5
      <4>2. PICK c \in Walks[i - 1][m] : l = Via(c, m, v)
        BY <4>1
      <4>3. m \in Nodes /\ v \in Neighbours(m)
        BY NeighboursAre
      <4>4. c \in Nat /\ m \in DOMAIN dist /\ dist[m] <= c /\ dist[m] \in Nat
        BY <3>2, <4>3 DEF RouteTypeOK
      <4>5. v \in DOMAIN dist /\ dist[v] <= Via(dist[m], m, v)
        BY <4>3, <4>4 DEF SearchIsRight
      <4>6. graph[<<m, v>>] \in Nat /\ dist[v] \in Nat
        BY <4>3, <4>5, EdgeLength DEF RouteTypeOK
      <4> QED BY <4>2, <4>4, <4>5, <4>6 DEF Via
    <3> QED BY <3>3, <3>4, <3>5
  <2> QED BY <2>1, <2>2
<1> QED BY <1>3, <1>4

\* When the search is over a node's distance is the shortest walk to it.
LEMMA WalksAgree ==
  ASSUME RouteTypeOK, SearchIsRight, Walked, heap = {},
         ask.reference # Unknown, origin = ask.snap[ask.reference], NEW u \in Nodes
  PROVE  /\ Walks[NodeCount][u] # {} <=> u \in DOMAIN dist
         /\ u \in DOMAIN dist => Shortest(Walks[NodeCount][u]) = dist[u]
<1> DEFINE lengths == Walks[NodeCount][u]
<1>1. NodeCount \in 0..NodeCount
  BY NodesCounted
<1>2. \A len \in lengths : len \in Nat /\ u \in DOMAIN dist /\ dist[u] <= len
  BY <1>1, NoWalkIsShorter
<1>3. u \in DOMAIN dist => dist[u] \in lengths /\ dist[u] \in Nat
  <2> DEFINE n == Cardinality(SettledNodes)
  <2>1. n \in 0..NodeCount /\ NodeCount \in n..NodeCount
    BY SettledCounted, NodesCounted
  <2>2. Walks[n][u] \subseteq lengths
    BY <2>1, WalksGrow
  <2> QED BY <2>2 DEF Walked, RouteTypeOK
<1> HIDE DEF lengths
<1>4. u \in DOMAIN dist => Shortest(lengths) = dist[u]
  <2> SUFFICES ASSUME u \in DOMAIN dist PROVE Shortest(lengths) = dist[u]
    OBVIOUS
  <2>1. \A len \in lengths : (\A other \in lengths : len <= other) => len = dist[u]
    BY <1>2, <1>3
  <2>2. dist[u] \in lengths /\ \A other \in lengths : dist[u] <= other
    BY <1>2, <1>3
  <2> QED BY <2>1, <2>2 DEF Shortest
<1> QED BY <1>2, <1>3, <1>4 DEF lengths

\* A request with nothing to rank is answered with nothing.
NothingStands == answer # Unknown /\ NothingToRank => answer = <<>>

LEMMA NothingIsAnswered == PutawaySpec => []NothingStands
<1>1. PutawayInit => NothingStands
  BY DEF PutawayInit, Asked, NothingStands
<1>2. NothingStands /\ [PutawayNext]_putawayVars => NothingStands'
  BY DEF PutawayNext, putawayVars, AnswerNothing, Route, Rank, Pop, NothingStands, NothingToRank,
     OpenFor, FitsIn, routeVars
<1> QED BY <1>1, <1>2, PTL DEF PutawaySpec

LEMMA NearestByWalks ==
  ASSUME PutawayTypeOK, SearchIsRight, Walked, StartsAtReference, AnswerIsRanked, NothingStands
  PROVE  AnswerIsTheNearest
<1> SUFFICES ASSUME answer # Unknown, ask.reference # Unknown PROVE AnswerIsTheNearest
  BY DEF AnswerIsTheNearest
<1> DEFINE walks == Walks[NodeCount]
           suitable == {b \in Eligible : /\ b \notin ask.occupied /\ FitsIn(ask.carton, b)
                                         /\ walks[ask.snap[b]] # {}}
           listed == Range(answer)
           travel == [b \in suitable |-> Travel(walks, b)]
           Nearest1 == /\ listed \subseteq suitable
                       /\ Len(answer) = Cardinality(listed)
                       /\ Len(answer) = Limit \/ listed = suitable
                       /\ \A i, j \in DOMAIN answer : i < j => travel[answer[i]] <= travel[answer[j]]
                       /\ \A b \in suitable \ listed, i \in DOMAIN answer : travel[answer[i]] <= travel[b]
<1>1. AnswerIsTheNearest <=> Nearest1
  BY DEF AnswerIsTheNearest, NodeCount
<1>2. answer \in Seq(Bins) /\ Len(answer) \in Nat /\ DOMAIN answer = 1..Len(answer)
  BY DEF PutawayTypeOK
<1>3. listed = {answer[i] : i \in 1..Len(answer)}
  BY <1>2 DEF Range
<1>4. suitable = {b \in OpenFor(ask.carton, ask.occupied) : walks[ask.snap[b]] # {}}
  BY DEF OpenFor
<1>5. CASE NothingToRank
  <2>1. answer = <<>> /\ OpenFor(ask.carton, ask.occupied) = {}
    BY <1>5 DEF NothingStands, NothingToRank
  <2>2. Len(answer) = 0 /\ listed = {} /\ suitable = {}
    BY <1>3, <1>4, <2>1
  <2> HIDE DEF listed, suitable, travel
  <2> QED BY <1>1, <1>2, <2>2, FS_EmptySet
<1>6. CASE ~ NothingToRank
  <2>1. /\ heap = {} /\ RouteTypeOK /\ origin = ask.snap[ask.reference]
        /\ ask.snap \in [Bins -> Nodes] /\ ask.reference \in Bins /\ Eligible \subseteq Bins
    BY <1>6, PutawayAssumption
       DEF AnswerIsRanked, PutawayTypeOK, StartsAtReference, PutawayAssumption
  <2>2. \A b \in Eligible : b \in Bins /\ ask.snap[b] \in Nodes
    BY <2>1
  <2>3. \A u \in Nodes : /\ walks[u] # {} <=> u \in DOMAIN dist
                         /\ u \in DOMAIN dist => Shortest(walks[u]) = dist[u]
    BY <2>1, WalksAgree
  <2>4. suitable = Scored
    <3>1. \A b \in OpenFor(ask.carton, ask.occupied) : b \in Eligible
      BY DEF OpenFor
    <3>2. \A b \in OpenFor(ask.carton, ask.occupied) :
            walks[ask.snap[b]] # {} <=> ask.snap[b] \in DOMAIN dist
      <4> HIDE DEF walks
      <4> QED BY <2>2, <2>3, <3>1
    <3> HIDE DEF walks, suitable
    <3> QED BY <1>4, <3>2 DEF Scored
  <2>5. \A b \in suitable : travel[b] = Score(b)
    <3> SUFFICES ASSUME NEW b \in suitable PROVE Travel(walks, b) = Score(b)
      OBVIOUS
    <3>1. b \in Bins /\ ask.snap[b] \in Nodes /\ ask.snap[b] \in DOMAIN dist
      <4>1. b \in Eligible /\ b \in Scored
        BY <2>4
      <4> QED BY <2>2, <4>1 DEF Scored
    <3>2. /\ Gap[b][ask.snap[b]] \in Nat /\ Gap[ask.reference][origin] \in Nat
          /\ dist[ask.snap[b]] \in Nat
      <4>1. origin \in Nodes /\ Gap \in [Bins -> [Nodes -> Nat]]
        BY <2>1, PutawayAssumption DEF RouteTypeOK, PutawayAssumption
      <4> QED BY <2>1, <3>1, <4>1 DEF RouteTypeOK
    <3>3. Shortest(walks[ask.snap[b]]) = dist[ask.snap[b]]
      BY <2>3, <3>1
    <3> HIDE DEF walks, suitable
    <3> QED BY <2>1, <3>2, <3>3 DEF Travel, Score
  <2>6. /\ Len(answer) = AtMost(Limit, Cardinality(Scored))
        /\ \A i \in 1..Len(answer) : answer[i] \in Scored
        /\ \A i, j \in 1..Len(answer) :
             i < j => answer[i] # answer[j] /\ Score(answer[i]) <= Score(answer[j])
        /\ \A b \in Scored : (\A i \in 1..Len(answer) : answer[i] # b) =>
             \A i \in 1..Len(answer) : Score(answer[i]) <= Score(b)
    BY <1>6 DEF AnswerIsRanked
  <2>7. Len(answer) = Cardinality(listed)
    <3> DEFINE n == Len(answer)
    <3>1. \A i, j \in 1..n : answer[i] = answer[j] => i = j
      <4> SUFFICES ASSUME NEW i \in 1..n, NEW j \in 1..n, answer[i] = answer[j] PROVE i = j
        OBVIOUS
      <4>1. i \in Nat /\ j \in Nat /\ ~ (i < j) /\ ~ (j < i)
        BY <1>2, <2>6
      <4> QED BY <4>1
    <3>2. answer \in Bijection(1..n, listed)
      <4>1. answer \in [1..n -> listed]
        BY <1>2, <1>3
      <4>2. answer \in Injection(1..n, listed)
        BY <3>1, <4>1 DEF Injection, IsInjective
      <4>3. answer \in Surjection(1..n, listed)
        BY <1>3, <4>1 DEF Surjection
      <4> QED BY <4>2, <4>3 DEF Bijection
    <3>3. ExistsBijection(1..n, listed)
      BY <3>2 DEF ExistsBijection
    <3> HIDE DEF n, listed
    <3>4. n \in Nat
      BY <1>2 DEF n
    <3> QED BY <3>3, <3>4, FS_CountingElements DEF n
  <2>8. listed \subseteq suitable
    BY <1>3, <2>4, <2>6
  <2>9. IsFiniteSet(suitable) /\ Limit \in Nat
    <3>1. suitable \in SUBSET Bins
      BY <2>2
    <3> QED BY <3>1, PutawayAssumption, FS_Subset DEF PutawayAssumption
  <2>10. Len(answer) = Limit \/ listed = suitable
    <3>1. CASE Len(answer) = Limit
      BY <3>1
    <3>2. CASE Len(answer) # Limit
      <4>1. Cardinality(listed) = Cardinality(suitable)
        BY <2>4, <2>6, <2>7, <3>2 DEF AtMost
      <4> HIDE DEF listed, suitable
      <4> QED BY <2>8, <2>9, <4>1, FS_Subset
    <3> QED BY <3>1, <3>2
  <2>11. \A i \in 1..Len(answer) : answer[i] \in suitable /\ travel[answer[i]] = Score(answer[i])
    BY <2>4, <2>5, <2>6
  <2>12. ASSUME NEW b \in suitable \ listed, NEW i \in 1..Len(answer)
         PROVE  travel[answer[i]] <= travel[b]
    <3>1. b \in suitable /\ \A j \in 1..Len(answer) : answer[j] # b
      BY <1>3, <2>12
    <3>2. Score(answer[i]) <= Score(b) /\ travel[b] = Score(b)
      BY <2>4, <2>5, <2>6, <3>1
    <3> QED BY <2>11, <3>2
  <2>13. \A i, j \in 1..Len(answer) : i < j => travel[answer[i]] <= travel[answer[j]]
    BY <2>6, <2>11
  <2> HIDE DEF listed, suitable, travel
  <2> QED BY <1>1, <1>2, <2>7, <2>8, <2>10, <2>12, <2>13
<1> QED BY <1>5, <1>6

\* rank_putaway_bins answers with free bins that fit, in the order of the way from there to
\* the next pick, and with the nearest of them, the ways being the shortest of all walks.
THEOREM AnswersAreTheNearest == PutawaySpec => []AnswerIsTheNearest
BY NearestByWalks, PutawayTypeCorrect, NearestAreRanked, DistancesAreWalked,
   SearchStartsAtReference, NothingIsAnswered, PTL
=============================================================================
