------------------------------ MODULE MCCatalog ------------------------------
(* Three models: one whose page has no height, one of which the page and the feed say       *)
(* different things and whose number has a width, one known to its page only.               *)
EXTENDS Catalog, TLC

CONSTANTS a1

Says(w, h, c) == {[width |-> w, height |-> h, carton |-> c]}

MCNameWidth == (1 :> Unknown) @@ (2 :> 36) @@ (3 :> Unknown)
MCPageSays == (1 :> Says(Unknown, Unknown, Unknown)) @@ (2 :> Says(35, 12, Unknown))
              @@ (3 :> Says(Unknown, 70, Unknown))
MCFeedSays == (1 :> {}) @@ (2 :> Says(Unknown, 30, 40)) @@ (3 :> Says(Unknown, 0, Unknown))
MCFirstList == <<Nameless, 2, 3>>
=============================================================================
