----------------------------- MODULE PickLedger -----------------------------
(***************************************************************************)
(* What the pick queue promises the floor, whatever rebuilds it and        *)
(* whoever asks: queued work may be offered, withdrawn and offered again,  *)
(* but from the moment a picker has claimed a pick only that picker moves  *)
(* it, by a confirm or a release made on a screen that shows it, and a     *)
(* pick that is done stays done, in the name of the picker who did it.     *)
(*                                                                         *)
(* Every action but Revise is one phone's, on behalf of its owner, and     *)
(* moves the one pick it names and the one screen it acts on.              *)
(***************************************************************************)
CONSTANTS
  Slots,
  Phones,
  Owner,      \* Owner[ph]: the picker signed in on phone ph
  None,
  Lost        \* on a screen: a pick that has been withdrawn

VARIABLES
  status,     \* status[s]: where the pick of slot s stands
  holder,     \* holder[s]: whose pick it is, or was when it was done
  screen      \* screen[ph]: the pick phone ph shows, None or Lost

ledgerVars == <<status, holder, screen>>

Init ==
  /\ status \in [Slots -> {"absent", "queued"}]
  /\ holder = [s \in Slots |-> None]
  /\ screen = [ph \in Phones |-> None]

\* The work list is revised: it may change only what nobody has acted on, and a screen
\* that showed a pick it withdraws shows none.
Revise ==
  \E withdrawn \in SUBSET {s \in Slots : status[s] = "queued"} :
    /\ status' \in [Slots -> {"absent", "queued", "assigned", "picked", "in_transit"}]
    /\ \A s \in Slots :
         \/ status'[s] = status[s]
         \/ /\ status[s] = "absent" \/ s \in withdrawn
            /\ status'[s] \in {"absent", "queued", "in_transit"}
    /\ screen' = [ph \in Phones |-> IF screen[ph] \in withdrawn THEN Lost ELSE screen[ph]]
    /\ UNCHANGED holder

Mine(ph, s) == status[s] = "assigned" /\ holder[s] = Owner[ph]

\* A phone looks at a pick its owner has open, or at none.
Look(ph, s) ==
  /\ s \in Slots => Mine(ph, s)
  /\ screen' = [screen EXCEPT ![ph] = s]
  /\ UNCHANGED <<status, holder>>

Claim(ph, s) ==
  /\ status[s] = "queued"
  /\ status' = [status EXCEPT ![s] = "assigned"]
  /\ holder' = [holder EXCEPT ![s] = Owner[ph]]
  /\ screen' = [screen EXCEPT ![ph] = s]

Return(ph, s) ==
  /\ screen[ph] = s /\ Mine(ph, s)
  /\ status' = [status EXCEPT ![s] = "queued"]
  /\ holder' = [holder EXCEPT ![s] = None]
  /\ screen' = [screen EXCEPT ![ph] = None]

Finish(ph, s) ==
  /\ screen[ph] = s /\ Mine(ph, s)
  /\ status' = [status EXCEPT ![s] = "picked"]
  /\ screen' = [screen EXCEPT ![ph] = None]
  /\ UNCHANGED holder

Next ==
  \/ Revise
  \/ \E ph \in Phones :
       \/ Look(ph, None)
       \/ \E s \in Slots : Look(ph, s) \/ Claim(ph, s) \/ Return(ph, s) \/ Finish(ph, s)

Spec == Init /\ [][Next]_ledgerVars
=============================================================================
