---------------------------- MODULE ScannerWrite ----------------------------
(***************************************************************************)
(* HttpScannerWriter: the operators' calls that mark a unit in transit or  *)
(* receive it, one adapter shared by all.  Each call is one request in the *)
(* operator's own name; the ERP stamps the movement with that name.        *)
(*                                                                         *)
(* An answer can be lost, and a request that timed out can reach the ERP   *)
(* long after.  Nothing in src/ calls the adapter yet: the callers are     *)
(* whoever holds an operator's login.                                      *)
(***************************************************************************)
EXTENDS ScannerRead

CONSTANTS
  Operators,
  Jobs,        \* the writes the operators have to do: pairs of a kind and a unit
  Anonymous,   \* those without a user name or a password
  MaxCalls     \* bound on the calls

Kinds == {"intransit", "receive"}

ASSUME WriteAssumption ==
  /\ Jobs \subseteq Kinds \X Units
  /\ Anonymous \subseteq Operators
  /\ MaxCalls \in Nat

VARIABLES
  calls,       \* the calls made so far: [by, kind, unit, state]
  wire,        \* the requests on their way: [call, name]
  trail        \* the ERP's audit trail: [call, name] of each movement

writeVars == <<calls, wire, trail>>
scannerVars == <<readVars, writeVars>>

\* The InventoryStatus each of the two writes leaves.
StatusAfter(kind) == IF kind = "intransit" THEN 3 ELSE 1

\* mark_in_transit or receive_serial is called.
Call(op, kind, u) ==
  /\ Len(calls) < MaxCalls
  /\ \A c \in DOMAIN calls : calls[c].by = op => calls[c].state \in {"ok", "error"}
  /\ calls' = Append(calls, [by |-> op, kind |-> kind, unit |-> u, state |-> "called"])
  /\ UNCHANGED <<readVars, wire, trail>>

\* Slip: the adapter has the login of the call it got last.
NameOfLast(c) == calls[Len(calls)].by

\* The login is injected per call.
NameOn(c) == calls[c].by

\* _send fails closed without a login.
Refuse(c) ==
  /\ calls[c].state = "called" /\ NameOn(c) \in Anonymous
  /\ calls' = [calls EXCEPT ![c].state = "error"]
  /\ UNCHANGED <<readVars, wire, trail>>

Send(c) ==
  /\ calls[c].state = "called" /\ NameOn(c) \notin Anonymous
  /\ calls' = [calls EXCEPT ![c].state = "sent"]
  /\ wire' = wire \cup {[call |-> c, name |-> NameOn(c)]}
  /\ UNCHANGED <<readVars, trail>>

\* The ERP carries out a request, whether or not anyone still waits for the answer.
Apply(request) ==
  LET c == request.call
  IN /\ erp' = [erp EXCEPT ![calls[c].unit].erp = StatusAfter(calls[c].kind)]
     /\ build' = Touch({calls[c].unit})
     /\ trail' = Append(trail, [call |-> c, name |-> request.name])
     /\ wire' = wire \ {request}
     /\ UNCHANGED <<moves, ask, calls>>

Lose(request) ==
  /\ wire' = wire \ {request}
  /\ UNCHANGED <<readVars, calls, trail>>

\* The answer, 200 and JSON, arrives.
Acknowledge(c) ==
  /\ calls[c].state = "sent" /\ \E k \in DOMAIN trail : trail[k].call = c
  /\ calls' = [calls EXCEPT ![c].state = "ok"]
  /\ UNCHANGED <<readVars, wire, trail>>

\* Slip: a write that failed is sent again once.
RaiseOrRetry(c) ==
  /\ calls[c].state = "sent"
  /\ \/ /\ calls' = [calls EXCEPT ![c].state = "error"] /\ UNCHANGED wire
     \/ /\ wire' = wire \cup {[call |-> c, name |-> NameOn(c)]} /\ UNCHANGED calls
  /\ UNCHANGED <<readVars, trail>>

\* ScannerWriteError: no connection, a timeout, another status or no JSON.
Raise(c) ==
  /\ calls[c].state = "sent"
  /\ calls' = [calls EXCEPT ![c].state = "error"]
  /\ UNCHANGED <<readVars, wire, trail>>

CallStep(c) == Refuse(c) \/ Send(c) \/ Acknowledge(c) \/ Raise(c)

ScannerInit ==
  /\ ReadInit
  /\ calls = <<>> /\ wire = {} /\ trail = <<>>

ScannerNext ==
  \/ ReadStart /\ UNCHANGED writeVars
  \/ ReadStep /\ UNCHANGED writeVars
  \/ \E u \in Units, item \in Items \cup {NoItem} : Reallocate(u, item) /\ UNCHANGED writeVars
  \/ \E op \in Operators, job \in Jobs : Call(op, job[1], job[2])
  \/ \E c \in DOMAIN calls : CallStep(c)
  \/ \E request \in wire : Apply(request) \/ Lose(request)

ScannerSpec ==
  /\ ScannerInit /\ [][ScannerNext]_scannerVars
  /\ WF_scannerVars(ReadStep /\ UNCHANGED writeVars)

----------------------------------------------------------------------------
\* Type invariant of a reading build and of the operators' calls.
ScannerTypeOK ==
  /\ ReadTypeOK
  /\ calls \in Seq([by : Operators, kind : Kinds, unit : Units,
                    state : {"called", "sent", "ok", "error"}])
  /\ wire \subseteq [call : DOMAIN calls, name : Operators]
  /\ trail \in Seq([call : DOMAIN calls, name : Operators])

\* "the ERP's own audit trail stays accurate" (scanner_write.py:9), though calls of several
\* operators are under way in one adapter and requests given up arrive late: a movement bears
\* the name of the operator whose call it is, none is anonymous, no call moves its unit twice,
\* since the adapter does not repeat a request of which it does not know whether it was carried
\* out, and a call that returned has moved it.
TrailIsAccurate ==
  /\ \A k \in DOMAIN trail :
       trail[k].name = calls[trail[k].call].by /\ trail[k].name \notin Anonymous
  /\ \A k, l \in DOMAIN trail : trail[k].call = trail[l].call => k = l
  /\ \A c \in DOMAIN calls :
       calls[c].state = "ok" => \E k \in DOMAIN trail : trail[k].call = c
=============================================================================
