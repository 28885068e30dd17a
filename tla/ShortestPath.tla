---------------------------- MODULE ShortestPath ----------------------------
(***************************************************************************)
(* _dijkstra of core/void_finder: the travel distance from the node next   *)
(* to the reference pick to every node of the warehouse's path graph, with *)
(* a heap whose outdated entries are left in it and skipped when they come *)
(* up.                                                                     *)
(*                                                                         *)
(* A distance not found yet is a node outside DOMAIN dist.  layout_sync    *)
(* keeps one edge per pair of nodes, and adjacency lists hold it both      *)
(* ways.                                                                   *)
(***************************************************************************)
EXTENDS Integers

CONSTANTS
  Nodes,
  NoEdge,
  Graphs      \* the path graphs of the instance

ASSUME GraphAssumption ==
  /\ Graphs \subseteq [Nodes \X Nodes -> Nat \cup {NoEdge}]
  /\ \A g \in Graphs : \A u, v \in Nodes : g[<<u, v>>] = g[<<v, u>>]
  /\ NoEdge \notin Nat

VARIABLES
  graph,      \* graph[<<u, v>>]: distance_m of the edge between u and v, or NoEdge
  origin,     \* the node of the reference pick
  dist,       \* the distances found so far
  heap        \* the (distance, node) entries still to come up

routeVars == <<graph, origin, dist, heap>>

Neighbours(u) == {v \in Nodes : graph[<<u, v>>] # NoEdge}
Via(cost, u, v) == cost + graph[<<u, v>>]

Improves(cost, u) ==
  {v \in Neighbours(u) : v \notin DOMAIN dist \/ Via(cost, u, v) < dist[v]}

\* Slip: a plain list for the heap.
AnyEntry(entry) == entry \in heap

\* heappop; entries of one distance come up in any order.
Least(entry) == entry \in heap /\ \A other \in heap : entry[1] <= other[1]

\* An entry that has been outdated by a shorter way is dropped.
Skip(cost, u) ==
  /\ Least(<<cost, u>>)
  /\ dist[u] < cost
  /\ heap' = heap \ {<<cost, u>>}
  /\ UNCHANGED <<graph, origin, dist>>

\* Slip: pushed the wrong way round.
PushedSwapped(cost, u) == {<<v, Via(cost, u, v)>> : v \in Improves(cost, u)}

Pushed(cost, u) == {<<Via(cost, u, v), v>> : v \in Improves(cost, u)}

\* Any other settles its node: every edge that leads on to a shorter way is taken.
Settle(cost, u) ==
  /\ Least(<<cost, u>>)
  /\ dist[u] >= cost
  /\ dist' = [v \in DOMAIN dist \cup Improves(cost, u) |->
                IF v \in Improves(cost, u) THEN Via(cost, u, v) ELSE dist[v]]
  /\ heap' = (heap \ {<<cost, u>>}) \cup Pushed(cost, u)
  /\ UNCHANGED <<graph, origin>>

Pop == \E entry \in heap : Skip(entry[1], entry[2]) \/ Settle(entry[1], entry[2])

SearchFrom(o) == origin = o /\ dist = [n \in {o} |-> 0] /\ heap = {<<0, o>>}

Init == graph \in Graphs /\ \E o \in Nodes : SearchFrom(o)
Next == Pop
Spec == Init /\ [][Next]_routeVars

----------------------------------------------------------------------------
\* Type invariant of the search.
RouteTypeOK ==
  /\ graph \in Graphs /\ origin \in Nodes
  /\ DOMAIN dist \subseteq Nodes /\ dist = [n \in DOMAIN dist |-> dist[n]]
  /\ \A n \in DOMAIN dist : dist[n] \in Nat
  /\ heap \subseteq Nat \X Nodes

Settled(u) == u \in DOMAIN dist /\ <<dist[u], u>> \notin heap

\* A node whose entry has come up keeps its distance: no later entry, outdated ones
\* included, leads to a shorter way.
SettledStaysSettled ==
  [][\A u \in Nodes : Settled(u) => u \in DOMAIN dist' /\ dist'[u] = dist[u]]_routeVars

\* What can be known of the distances without finding them: f grows along an edge by no
\* more than the edge is long.
Potentials ==
  {f \in [Nodes -> Nat] :
     /\ f[origin] = 0
     /\ \A u \in Nodes : \A v \in Neighbours(u) : f[v] <= Via(f[u], u, v)}

\* The search ends with the shortest distances, of all the nodes that can be reached and of
\* no others: they grow along an edge by no more than the edge is long, and nothing that
\* does so is greater.
SearchIsRight ==
  heap = {} =>
    /\ origin \in DOMAIN dist /\ dist[origin] = 0
    /\ \A u \in DOMAIN dist : \A v \in Neighbours(u) :
         v \in DOMAIN dist /\ dist[v] <= Via(dist[u], u, v)
    /\ \A f \in Potentials : \A u \in DOMAIN dist : f[u] <= dist[u]
=============================================================================
