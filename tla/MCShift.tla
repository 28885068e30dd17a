------------------------------ MODULE MCShift ------------------------------
(* A shift for TLC: a delivery row of one date and two will-calls of the other, queued,  *)
(* and the phones that race for them: two of one picker and one of another, or just two. *)
EXTENDS Shift, TLC

CONSTANTS p1, p2, f1, f2, f3, d1, d2, o1, u1, u2, u3

Text(b, untidy) == [body |-> b, untidy |-> untidy]

MCDeliveries == {[date |-> d1, order |-> o1, unit |-> u1]}
TwoPhones == (f1 :> p1) @@ (f2 :> p1)
ThreePhones == (f1 :> p1) @@ (f2 :> p1) @@ (f3 :> p2)
MCScans == {Text("A", FALSE)}
MCSerial == (u1 :> Text("A", TRUE)) @@ (u2 :> Text("", TRUE)) @@ (u3 :> None)

\* u3 was called for before u2.
MCStart ==
  [s \in Slots |->
     CASE s \notin WillCalls -> QueuedRow(s.date, 0, <<0, 1, 1>>)
       [] s = [unit |-> u2] -> QueuedRow(d2, 2, NoRoute)
       [] s = [unit |-> u3] -> QueuedRow(d2, 1, NoRoute)
       [] OTHER -> Absent]
=============================================================================
