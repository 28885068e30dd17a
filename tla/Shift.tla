------------------------------- MODULE Shift -------------------------------
(***************************************************************************)
(* The serving API by itself: pickers work off a queue no build touches,   *)
(* with the fairness of a floor at work.                                   *)
(***************************************************************************)
EXTENDS PickServing

CONSTANT Start    \* the table the shift starts with

ASSUME ShiftAssumption == Start \in [Slots -> Rows]

Init ==
  /\ row = Start
  /\ locked = {}
  /\ PhoneInit

Next == \E ph \in Phones : ServingStep(ph)

PhonesOf(p) == {ph \in Phones : Owner[ph] = p}

\* A pick gets picked: the write of a confirm that still holds its row.
Confirmed(ph) == ConfirmWrite(ph) /\ row' # row

\* The floor is at work: every picker keeps asking for work on every date, on some phone, and
\* requests under way are answered.  Where picks can be scanned again and again, some time one
\* is scanned; where confirms can succeed again and again, some time one does.
Fairness ==
  /\ \A p \in Pickers, d \in Dates : SF_servingVars(\E ph \in PhonesOf(p) : ClaimRead(ph, d))
  /\ \A ph \in Phones : WF_servingVars(ClaimTake(ph) \/ ClaimNothing(ph) \/ ConfirmWrite(ph))
  /\ SF_servingVars(\E ph \in Phones, text \in Scans : ConfirmRead(ph, text))
  /\ SF_servingVars(\E ph \in Phones : Confirmed(ph))

Spec == Init /\ [][Next]_servingVars /\ Fairness

\* The queue is worked off: some time every pick is picked.  Being released, claimed by a
\* second phone of the same picker, held on a date that picker is not looking at or left on a
\* stale screen loses no work.
QueueDrains ==
  (\E s \in Slots : row[s].status = "queued")
    ~> \A s \in Slots : row[s].status \in {"absent", "picked"}
=============================================================================
