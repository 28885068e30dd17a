------------------------------ MODULE MCMigrate ------------------------------
(* Three runs of four checkouts: two files, a third added at the end, another added before   *)
(* the second on a branch, and the second edited.                                            *)
EXTENDS Migrate

CONSTANTS a, b

MCCheckouts ==
  { (2 :> a) @@ (4 :> a),
    (2 :> a) @@ (4 :> a) @@ (5 :> a),
    (2 :> a) @@ (3 :> a) @@ (4 :> a),
    (2 :> a) @@ (4 :> b) }
=============================================================================
