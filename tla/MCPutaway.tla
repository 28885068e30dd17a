----------------------------- MODULE MCPutaway -----------------------------
(* Path graphs on four nodes with edges of two lengths, and four bins around it.  The first *)
(* bin hangs off two nodes alike; the last is not eligible; the second is the tall one.      *)
EXTENDS Putaway, TLC

CONSTANTS n1, n2, n3, n4, b1, b2, b3, b4

Pairs == {<<n1, n2>>, <<n1, n3>>, <<n2, n3>>, <<n2, n4>>, <<n3, n4>>}

Undirected(lengths) ==
  [e \in {n1, n2, n3, n4} \X {n1, n2, n3, n4} |->
     IF e \in Pairs THEN lengths[e]
     ELSE IF <<e[2], e[1]>> \in Pairs THEN lengths[<<e[2], e[1]>>] ELSE NoEdge]

MCGraphs == {Undirected(lengths) : lengths \in [Pairs -> {1, 3, NoEdge}]}

Gaps(a, b, c, d) == (n1 :> a) @@ (n2 :> b) @@ (n3 :> c) @@ (n4 :> d)
MCGap == (b1 :> Gaps(1, 1, 2, 4)) @@ (b2 :> Gaps(9, 9, 0, 9)) @@ (b3 :> Gaps(9, 9, 9, 1))
         @@ (b4 :> Gaps(2, 3, 4, 5))

MCHeight == (b1 :> 98) @@ (b2 :> 200) @@ (b3 :> 98) @@ (b4 :> 98)
MCWidth == (b1 :> 36) @@ (b2 :> 36) @@ (b3 :> Unknown) @@ (b4 :> 36)
MCCartons == {[h |-> Unknown, w |-> 36], [h |-> 98, w |-> 37]}
MCOccupancies == {{}, {b2}}
=============================================================================
