---------------------------- MODULE PickServing ----------------------------
(***************************************************************************)
(* The pick-serving API (services/pick_claim over adapters/db/pick_db) as  *)
(* the pickers' phones call it: claim_next, current, confirm, release.     *)
(*                                                                         *)
(* A phone is one line of requests; two phones with one owner are a picker *)
(* with a second device, or a double-tapped button whose two requests run  *)
(* side by side.  claim_next and confirm each read in one statement and    *)
(* write in a later one, so each is two steps, and everything else may     *)
(* happen in between.                                                      *)
(***************************************************************************)
EXTENDS PickTable

CONSTANTS
  Phones,
  Owner,      \* Owner[ph]: the picker signed in on phone ph
  Scans,      \* the texts a scanner can deliver
  Serial      \* Serial[u]: serial_number of unit u as stored, or None

\* A serial as text: its characters, and whether case or blanks differ from the norm.
Texts == [body : STRING, untidy : BOOLEAN]

ASSUME ServingAssumption ==
  /\ Owner \in [Phones -> Pickers]
  /\ Scans \subseteq Texts
  /\ Serial \in [Units -> Texts \cup {None}]

VARIABLES phone

servingVars == <<row, locked, phone>>

\* shows: the pick_id on the screen, the one confirm and release are called with.  A
\* request in flight has pc "claiming" (the read of claim_next found nothing for its
\* date) or "confirming" (the read of confirm and verify_scan of its scan passed).
PhoneStates == [pc : {"idle", "claiming", "confirming"}, date : Dates \cup {None},
                shows : Slots \cup {None, Lost}, scan : Scans \cup {None}]

IdlePhone(s) == [pc |-> "idle", date |-> None, shows |-> s, scan |-> None]

\* A deleted row's pick_id finds nothing ever again.
Forget(gone) ==
  phone' = [ph \in Phones |->
    [phone[ph] EXCEPT !.shows = IF @ \in gone THEN Lost ELSE @]]

----------------------------------------------------------------------------
\* normalise_serial: strip and upper-case; a blank serial is no serial.
Normalise(text) ==
  IF text = None \/ text.body = "" THEN None ELSE [text EXCEPT !.untidy = FALSE]

\* Slip: any scan at all confirms.
ScanPresent(expected, scanned) == Normalise(expected) = None \/ Normalise(scanned) # None

\* verify_scan: accepted when there is no serial on record, or the scan equals it.
ScanAccepted(expected, scanned) ==
  \/ Normalise(expected) = None
  \/ /\ Normalise(scanned) # None
     /\ Normalise(scanned) = Normalise(expected)

----------------------------------------------------------------------------
\* claim_next, the read: a picker who holds an open pick is shown that one again.
ClaimRead(ph, d) ==
  /\ phone[ph].pc = "idle"
  /\ LET open == OpenAssignments(Owner[ph], d)
     IN \/ \E s \in open : phone' = [phone EXCEPT ![ph] = IdlePhone(s)]
        \/ /\ open = {}
           /\ phone' = [phone EXCEPT ![ph].pc = "claiming", ![ph].date = d]
  /\ UNCHANGED tableVars

\* claim_next, the claim: one statement takes the next unlocked queued row.
ClaimTake(ph) ==
  /\ phone[ph].pc = "claiming"
  /\ \E s \in NextClaims(phone[ph].date) :
       /\ Assign(s, Owner[ph])
       /\ phone' = [phone EXCEPT ![ph] = IdlePhone(s)]
  /\ UNCHANGED locked

\* claim_next, the claim: no row to take, the answer is None.
ClaimNothing(ph) ==
  /\ phone[ph].pc = "claiming"
  /\ Claimable(phone[ph].date) = {}
  /\ phone' = [phone EXCEPT ![ph] = IdlePhone(None)]
  /\ UNCHANGED tableVars

\* current: the screen of a reloaded phone.
Current(ph, d) ==
  /\ phone[ph].pc = "idle"
  /\ LET open == OpenAssignments(Owner[ph], d)
     IN \/ \E s \in open : phone' = [phone EXCEPT ![ph] = IdlePhone(s)]
        \/ open = {} /\ phone' = [phone EXCEPT ![ph] = IdlePhone(None)]
  /\ UNCHANGED tableVars

\* confirm, the read and verify_scan: refused unless the pick is this picker's and the
\* scan verifies.  A refusal changes nothing, so only the passing case is a step.
ConfirmRead(ph, text) ==
  /\ phone[ph].pc = "idle"
  /\ \E s \in Slots :
       /\ phone[ph].shows = s
       /\ HeldBy(s, Owner[ph])
       /\ ScanAccepted(Serial[s.unit], text)
       /\ phone' = [phone EXCEPT ![ph].pc = "confirming", ![ph].scan = text]
  /\ UNCHANGED tableVars

\* Slip: the UPDATE trusts the read before it, WHERE pick_id alone.
ConfirmWriteUnguarded(ph) ==
  /\ phone[ph].pc = "confirming"
  /\ phone[ph].shows \in Slots /\ MarkPicked(phone[ph].shows)
  /\ phone' = [phone EXCEPT ![ph] = IdlePhone(None)]
  /\ UNCHANGED locked

\* confirm, the guarded UPDATE: it matches the row, or the claim has evaporated.  Either
\* answer sends the picker on to the next pick.
ConfirmWrite(ph) ==
  /\ phone[ph].pc = "confirming"
  /\ LET s == phone[ph].shows
     IN \/ s \in Slots /\ HeldBy(s, Owner[ph]) /\ MarkPicked(s)
        \/ ~ (s \in Slots /\ HeldBy(s, Owner[ph])) /\ UNCHANGED row
  /\ phone' = [phone EXCEPT ![ph] = IdlePhone(None)]
  /\ UNCHANGED locked

\* Slip: the release UPDATE finds the row by its pick_id alone.
ReleaseUnguarded(ph) ==
  /\ phone[ph].pc = "idle" /\ phone[ph].shows # None
  /\ LET s == phone[ph].shows
     IN \/ s \in Slots /\ row[s].status = "assigned" /\ Requeue(s)
        \/ ~ (s \in Slots /\ row[s].status = "assigned") /\ UNCHANGED row
  /\ phone' = [phone EXCEPT ![ph] = IdlePhone(None)]
  /\ UNCHANGED locked

\* release: the guarded UPDATE; it matches the row, or the pick was not this picker's.
Release(ph) ==
  /\ phone[ph].pc = "idle" /\ phone[ph].shows # None
  /\ LET s == phone[ph].shows
     IN \/ s \in Slots /\ HeldBy(s, Owner[ph]) /\ Requeue(s)
        \/ ~ (s \in Slots /\ HeldBy(s, Owner[ph])) /\ UNCHANGED row
  /\ phone' = [phone EXCEPT ![ph] = IdlePhone(None)]
  /\ UNCHANGED locked

ServingStep(ph) ==
  \/ \E d \in Dates : ClaimRead(ph, d)
  \/ ClaimTake(ph)
  \/ ClaimNothing(ph)
  \/ \E d \in Dates : Current(ph, d)
  \/ \E text \in Scans \cup {None} : ConfirmRead(ph, text)
  \/ ConfirmWrite(ph)
  \/ Release(ph)

PhoneInit == phone = [ph \in Phones |-> IdlePhone(None)]

\* Type invariant of the serving side.
ServingTypeOK ==
  /\ TableTypeOK
  /\ phone \in [Phones -> PhoneStates]

----------------------------------------------------------------------------
\* An assigned row names its holder and a queued one names nobody, so a released pick can
\* be claimed by anyone; what an open build transaction has deleted is still queued.
HoldersMatch ==
  /\ \A s \in Slots :
       /\ row[s].status \in {"absent", "queued", "in_transit"} => row[s].holder = None
       /\ row[s].status \in {"assigned", "picked"} => row[s].holder # None
  /\ \A s \in locked : row[s].status = "queued"

\* confirm fails closed across its two statements: a row becomes picked only in the name
\* of the picker who holds it at that moment, by a phone of that picker that has scanned
\* that unit's serial, if it has one.
OnlyTheHolderConfirms ==
  [][\A s \in Slots : row[s].status # "picked" /\ row'[s].status = "picked" =>
       /\ row[s].status = "assigned"
       /\ \E ph \in Phones :
            /\ phone[ph].pc = "confirming" /\ phone'[ph].pc = "idle"
            /\ phone[ph].shows = s /\ Owner[ph] = row[s].holder
            /\ Normalise(Serial[s.unit]) # None =>
                 Normalise(phone[ph].scan) = Normalise(Serial[s.unit])]_servingVars

\* A claim overtakes no will-call it could have taken, and among will-calls none that was
\* added earlier, however builds, releases and re-adding have shuffled the table.
WillCallsGoFirst ==
  [][\A s, c \in Slots :
       /\ row[s].status = "queued" /\ row'[s].status = "assigned"
       /\ c \in WillCalls /\ row[c].status = "queued" /\ c \notin locked /\ c # s
       => s \in WillCalls /\ row[s].seq < row[c].seq]_servingVars

\* The pick queue keeps the promises of the ledger: from a claim on, only a phone of the
\* picker who claimed it, showing that pick, moves it, though a screen goes on showing a
\* pick that the picker's other phone has released, that someone else has claimed since,
\* or that a build has deleted and written again.
Ledger == INSTANCE PickLedger WITH
  status <- [s \in Slots |-> row[s].status],
  holder <- [s \in Slots |-> row[s].holder],
  screen <- [ph \in Phones |-> phone[ph].shows]
KeepsTheLedger == Ledger!Spec

\* "A picker holds at most one assignment" (pick_db.py:86), which the code does not keep:
\* a run refutes it.
OneAssignmentEach ==
  \A p \in Pickers : Cardinality({s \in Slots : HeldBy(s, p)}) <= 1
=============================================================================
