--------------------------- MODULE Scanner_proofs ---------------------------
(***************************************************************************)
(* Proofs about the ERP's scanner interface, for any operators, units,     *)
(* manifests and writes, whatever is lost or late: that the ERP's audit    *)
(* trail is accurate, and what a build that has read its day goes on with. *)
(*                                                                         *)
(* Neither is inductive.  The trail says nothing of the requests that are  *)
(* still on their way; WireInv does: each is in the name of its caller,    *)
(* has been sent, and has moved nothing yet.  What the day has of a line   *)
(* was true when that line was answered; AnswersStand says how much of it  *)
(* is true still, while other lines are read and units move.               *)
(***************************************************************************)
EXTENDS ScannerWrite, FiniteSetTheorems, TLAPS

CallRecords ==
  [by : Operators, kind : Kinds, unit : Units, state : {"called", "sent", "ok", "error"}]

Movements == [call : Nat, name : Operators]

CallsTyped ==
  /\ calls \in Seq(CallRecords)
  /\ wire \subseteq Movements /\ trail \in Seq(Movements)
  /\ \A request \in wire : request.call \in DOMAIN calls
  /\ \A k \in DOMAIN trail : trail[k].call \in DOMAIN calls

WireInv ==
  \A request \in wire :
    /\ request.name = calls[request.call].by /\ request.name \notin Anonymous
    /\ calls[request.call].state # "called"
    /\ \A k \in DOMAIN trail : trail[k].call # request.call

\* What has moved a unit was sent.
MovedWasSent == \A k \in DOMAIN trail : calls[trail[k].call].state # "called"

CallsInv == CallsTyped /\ WireInv /\ MovedWasSent /\ TrailIsAccurate

----------------------------------------------------------------------------
\* A sequence one longer has the elements it had and the new one.
LEMMA Appended ==
  ASSUME NEW S, NEW seq \in Seq(S), NEW e \in S
  PROVE  /\ Append(seq, e) \in Seq(S)
         /\ DOMAIN Append(seq, e) = DOMAIN seq \cup {Len(seq) + 1}
         /\ Len(seq) + 1 \notin DOMAIN seq
         /\ \A k \in DOMAIN seq : Append(seq, e)[k] = seq[k]
         /\ Append(seq, e)[Len(seq) + 1] = e
  OBVIOUS

\* mark_in_transit or receive_serial is called: earlier calls keep their numbers.
LEMMA CallKeeps ==
  ASSUME CallsInv, NEW op \in Operators, NEW job \in Jobs, Call(op, job[1], job[2])
  PROVE  CallsInv'
<1> USE DEF CallsInv, CallsTyped
<1> DEFINE new == [by |-> op, kind |-> job[1], unit |-> job[2], state |-> "called"]
<1>1. calls' = Append(calls, new) /\ UNCHANGED <<wire, trail>>
  BY DEF Call
<1>2. new \in CallRecords
  BY WriteAssumption DEF WriteAssumption, CallRecords
<1> HIDE DEF new
<1>3. /\ calls' \in Seq(CallRecords)
      /\ DOMAIN calls' = DOMAIN calls \cup {Len(calls) + 1}
      /\ \A c \in DOMAIN calls : calls'[c] = calls[c]
      /\ calls'[Len(calls) + 1] = new
  BY <1>1, <1>2, Appended
<1>4. CallsTyped'
  BY <1>1, <1>3
<1>5. WireInv'
  BY <1>1, <1>3 DEF WireInv
<1>6. MovedWasSent'
  BY <1>1, <1>3 DEF MovedWasSent
<1>7. TrailIsAccurate'
  <2>1. new.state # "ok"
    BY DEF new
  <2> QED BY <1>1, <1>3, <2>1 DEF TrailIsAccurate
<1> QED BY <1>4, <1>5, <1>6, <1>7

\* A call changes its state, but neither back to "called" nor to a return it has not earned.
LEMMA StateChanges ==
  ASSUME CallsInv, NEW c \in DOMAIN calls, NEW s \in {"sent", "ok", "error"},
         calls' = [calls EXCEPT ![c].state = s], UNCHANGED trail,
         wire' \subseteq Movements,
         \A request \in wire' : request.call \in DOMAIN calls,
         \A request \in wire' \ wire :
           /\ request.call = c /\ request.name = calls[c].by /\ request.name \notin Anonymous
           /\ \A k \in DOMAIN trail : trail[k].call # c,
         s = "ok" => \E k \in DOMAIN trail : trail[k].call = c
  PROVE  CallsInv'
<1> USE DEF CallsInv, CallsTyped
<1>1. /\ calls' \in Seq(CallRecords) /\ DOMAIN calls' = DOMAIN calls
      /\ \A d \in DOMAIN calls : calls'[d].by = calls[d].by
      /\ \A d \in DOMAIN calls : d # c => calls'[d].state = calls[d].state
      /\ calls'[c].state = s
  <2>1. calls[c] \in CallRecords
    OBVIOUS
  <2>2. [calls[c] EXCEPT !.state = s] \in CallRecords
    BY <2>1 DEF CallRecords
  <2>3. calls' = [calls EXCEPT ![c] = [calls[c] EXCEPT !.state = s]]
    OBVIOUS
  <2>4. calls' \in Seq(CallRecords) /\ DOMAIN calls' = DOMAIN calls
    BY <2>2, <2>3
  <2>5. calls'[c] = [calls[c] EXCEPT !.state = s]
        /\ \A d \in DOMAIN calls : d # c => calls'[d] = calls[d]
    BY <2>3
  <2> QED BY <2>1, <2>4, <2>5 DEF CallRecords
<1>2. CallsTyped'
  BY <1>1
<1>3. WireInv'
  <2>1. ASSUME NEW request \in wire'
        PROVE  /\ request.name = calls'[request.call].by /\ request.name \notin Anonymous
               /\ calls'[request.call].state # "called"
               /\ \A k \in DOMAIN trail : trail[k].call # request.call
    <3>1. CASE request \in wire
      BY <1>1, <3>1 DEF WireInv
    <3>2. CASE request \in wire' \ wire
      BY <1>1, <3>2
    <3> QED BY <2>1, <3>1, <3>2
  <2> QED BY <2>1 DEF WireInv
<1>4. MovedWasSent'
  BY <1>1 DEF MovedWasSent
<1>5. TrailIsAccurate'
  BY <1>1 DEF TrailIsAccurate
<1> QED BY <1>2, <1>3, <1>4, <1>5

\* A call refuses, sends, returns or raises.
LEMMA CallStepKeeps ==
  ASSUME CallsInv, NEW c \in DOMAIN calls, CallStep(c)
  PROVE  CallsInv'
<1>1. CASE Refuse(c)
  BY <1>1, StateChanges DEF Refuse, CallsInv, CallsTyped
<1>2. CASE Send(c)
  <2> DEFINE request == [call |-> c, name |-> calls[c].by]
  <2>1. /\ calls[c].state = "called" /\ calls[c].by \notin Anonymous
        /\ calls' = [calls EXCEPT ![c].state = "sent"]
        /\ wire' = wire \cup {request} /\ UNCHANGED trail
    BY <1>2 DEF Send, NameOn
  <2>2. request \in Movements
    <3>1. calls[c] \in CallRecords /\ c \in Nat
      BY DEF CallsInv, CallsTyped
    <3> QED BY <3>1 DEF CallRecords, Movements
  <2>3. \A k \in DOMAIN trail : trail[k].call # c
    BY <2>1 DEF CallsInv, MovedWasSent
  <2>4. wire' \subseteq Movements /\ \A other \in wire' : other.call \in DOMAIN calls
    BY <2>1, <2>2 DEF CallsInv, CallsTyped
  <2>5. \A other \in wire' \ wire : other = request
    BY <2>1
  <2> HIDE DEF request
  <2>6. request.call = c /\ request.name = calls[c].by
    BY DEF request
  <2> QED BY <2>1, <2>3, <2>4, <2>5, <2>6, StateChanges
<1>3. CASE Acknowledge(c)
  BY <1>3, StateChanges DEF Acknowledge, CallsInv, CallsTyped
<1>4. CASE Raise(c)
  BY <1>4, StateChanges DEF Raise, CallsInv, CallsTyped
<1> QED BY <1>1, <1>2, <1>3, <1>4 DEF CallStep

\* The ERP carries out a request, once: it leaves the wire, where it was the only one of its
\* call.
LEMMA ApplyKeeps ==
  ASSUME CallsInv, NEW request \in wire, Apply(request)
  PROVE  CallsInv'
<1> USE DEF CallsInv, CallsTyped
<1> DEFINE new == [call |-> request.call, name |-> request.name]
<1>1. trail' = Append(trail, new) /\ wire' = wire \ {request} /\ UNCHANGED calls
  BY DEF Apply
<1>2. new \in Movements /\ new = request
  BY DEF Movements
<1>3. /\ trail' \in Seq(Movements)
      /\ DOMAIN trail' = DOMAIN trail \cup {Len(trail) + 1}
      /\ Len(trail) + 1 \notin DOMAIN trail
      /\ \A k \in DOMAIN trail : trail'[k] = trail[k]
      /\ trail'[Len(trail) + 1] = request
  BY <1>1, <1>2, Appended
<1>4. CallsTyped'
  BY <1>1, <1>3
<1>5. \A other \in wire' : other.call # request.call
  <2> SUFFICES ASSUME NEW other \in wire', other.call = request.call PROVE FALSE
    OBVIOUS
  <2>1. other.name = request.name
    BY <1>1 DEF WireInv
  <2>2. other = request
    BY <1>1, <2>1 DEF Movements
  <2> QED BY <1>1, <2>2
<1>6. WireInv'
  BY <1>1, <1>3, <1>5 DEF WireInv
<1>7. MovedWasSent'
  BY <1>1, <1>3 DEF MovedWasSent, WireInv
<1>8. TrailIsAccurate'
  BY <1>1, <1>3 DEF TrailIsAccurate, WireInv
<1> QED BY <1>4, <1>6, <1>7, <1>8

\* Every step keeps the invariant; a reading build and the office leave the calls alone.
LEMMA CallsKept ==
  ASSUME CallsInv, [ScannerNext]_scannerVars
  PROVE  CallsInv'
<1>1. ASSUME UNCHANGED writeVars PROVE CallsInv'
  BY <1>1 DEF CallsInv, CallsTyped, WireInv, MovedWasSent, TrailIsAccurate, writeVars
<1>2. ASSUME NEW request \in wire, Lose(request) PROVE CallsInv'
  <2>1. wire' \subseteq wire /\ UNCHANGED <<calls, trail>>
    BY <1>2 DEF Lose
  <2> QED BY <2>1 DEF CallsInv, CallsTyped, WireInv, MovedWasSent, TrailIsAccurate
<1> QED BY <1>1, <1>2, CallKeeps, CallStepKeeps, ApplyKeeps DEF ScannerNext, scannerVars

\* "the ERP's own audit trail stays accurate" (scanner_write.py:9): whatever is lost or late,
\* every movement is in the name of its caller, and no call moves its unit twice.
THEOREM TrailAlwaysAccurate == ScannerSpec => []TrailIsAccurate
<1>1. ScannerInit => CallsInv
  BY DEF ScannerInit, CallsInv, CallsTyped, WireInv, MovedWasSent, TrailIsAccurate
<1>2. CallsInv /\ [ScannerNext]_scannerVars => CallsInv'
  BY CallsKept
<1>3. CallsInv => TrailIsAccurate
  BY DEF CallsInv
<1> QED BY <1>1, <1>2, <1>3, PTL DEF ScannerSpec

----------------------------------------------------------------------------
(***************************************************************************)
(* The reading build.                                                      *)
(***************************************************************************)

Models == UNION {{manifest[i].model : i \in DOMAIN manifest} : manifest \in Manifests}

Listed == [unit : Units, model : Models, erp : Nat]

Requests ==
  [state : {"waiting", "asking", "answered", "failed", "cancelled"}, tries : 0..MaxRetries,
   units : Seq(Listed)]

Builds ==
  [step : {"idle", "orders", "lines", "done", "failed"}, tries : 0..MaxRetries,
   manifest : Manifests \cup {<<>>}, touched : SUBSET (Units \cup Items \cup {NoItem})]

ReadTyped ==
  /\ erp \in [Units -> [item : Items \cup {NoItem}, erp : Nat]]
  /\ moves \in 0..MaxMoves
  /\ build \in Builds
  /\ ask \in [Scheduled(build.manifest) -> Requests]

\* A build that has no manifest yet, or has given up, has nothing to ask; one that is done
\* has an answer to everything.
StepsTell ==
  /\ build.step \in {"idle", "orders", "failed"} => build.manifest = <<>>
  /\ build.step = "done" => \A i \in DOMAIN ask : ask[i].state = "answered"

\* What was answered of a line, once for each unit, is still so for the units that have not
\* been touched, and in number if none has come or gone.
Stands(units, item) ==
  /\ \A k, l \in DOMAIN units : units[k].unit = units[l].unit => k = l
  /\ \A u \in Units \ build.touched :
       /\ erp[u].item = item <=> \E k \in DOMAIN units : units[k].unit = u
       /\ \A k \in DOMAIN units : units[k].unit = u => units[k].erp = erp[u].erp
  /\ item \notin build.touched => Len(units) = Cardinality(AllocatedTo(item))

AnswersStand ==
  \A i \in DOMAIN ask :
    ask[i].state = "answered" => Stands(ask[i].units, build.manifest[i].item)

ReadInv == ReadTyped /\ StepsTell /\ AnswersStand

\* A finite set as a sequence: every element at exactly one place.
LEMMA SequenceOfSet ==
  ASSUME NEW S, IsFiniteSet(S)
  PROVE  /\ Cardinality(S) \in Nat
         /\ SetToSeq(S) \in [1..Cardinality(S) -> S]
         /\ \A k, l \in 1..Cardinality(S) : SetToSeq(S)[k] = SetToSeq(S)[l] => k = l
         /\ \A x \in S : \E k \in 1..Cardinality(S) : SetToSeq(S)[k] = x
<1> DEFINE n == Cardinality(S)
<1>1. n \in Nat /\ ExistsBijection(1..n, S)
  BY FS_CardinalityType
<1>2. \E f \in [1..n -> S] : IsInjective(f)
  BY <1>1 DEF ExistsBijection, Bijection, Injection
<1>3. SetToSeq(S) \in [1..n -> S] /\ IsInjective(SetToSeq(S))
  BY <1>2 DEF SetToSeq
<1>4. SetToSeq(S) \in Injection(1..n, S)
  BY <1>3 DEF Injection
<1>5. Cardinality(1..n) = n
  BY <1>1, FS_Interval
<1> HIDE DEF n
<1>6. SetToSeq(S) \in Surjection(1..n, S)
  BY <1>4, <1>5, FS_Injection DEF n
<1> QED BY <1>1, <1>3, <1>6 DEF IsInjective, Surjection, n

LEMMA FunctionIsSequence ==
  ASSUME NEW S, NEW n \in Nat, NEW f \in [1..n -> S]
  PROVE  f \in Seq(S) /\ Len(f) = n /\ DOMAIN f = 1..n
  OBVIOUS

\* What the ERP answers of a line stands.
LEMMA AllocationStands ==
  ASSUME ReadTyped, NEW i \in Scheduled(build.manifest)
  PROVE  /\ Allocation(build.manifest[i]) \in Seq(Listed)
         /\ Stands(Allocation(build.manifest[i]), build.manifest[i].item)
<1> DEFINE line == build.manifest[i]
           held == AllocatedTo(line.item)
           n == Cardinality(held)
           units == SetToSeq(held)
<1>1. held \subseteq Units /\ IsFiniteSet(held)
  BY FS_Subset, ReadAssumption DEF ReadAssumption, AllocatedTo
<1>2. /\ n \in Nat /\ units \in [1..n -> held]
      /\ \A k, l \in 1..n : units[k] = units[l] => k = l
      /\ \A u \in held : \E k \in 1..n : units[k] = u
  <2> HIDE DEF held
  <2> QED BY <1>1, SequenceOfSet
<1>3. Allocation(line) = [k \in DOMAIN units |->
                            [unit |-> units[k], model |-> line.model, erp |-> erp[units[k]].erp]]
  BY DEF Allocation
<1>4. line.model \in Models
  BY DEF ReadTyped, Builds, Models, Scheduled
<1> HIDE DEF units, n, line
<1>5. DOMAIN units = 1..n
  BY <1>2
<1>6. \A k \in 1..n :
        /\ Allocation(line)[k].unit = units[k] /\ Allocation(line)[k].erp = erp[units[k]].erp
        /\ Allocation(line)[k] \in
             [unit : {units[k]}, model : {line.model}, erp : {erp[units[k]].erp}]
  BY <1>3, <1>5
<1>7. \A k \in 1..n : Allocation(line)[k] \in Listed
  <2> SUFFICES ASSUME NEW k \in 1..n PROVE Allocation(line)[k] \in Listed
    OBVIOUS
  <2>1. units[k] \in Units
    <3> HIDE DEF held
    <3> QED BY <1>1, <1>2
  <2>2. erp[units[k]].erp \in Nat
    BY <2>1 DEF ReadTyped
  <2> QED BY <1>4, <1>6, <2>1, <2>2 DEF Listed
<1>8. Allocation(line) \in Seq(Listed) /\ Len(Allocation(line)) = n
      /\ DOMAIN Allocation(line) = 1..n
  <2>1. Allocation(line) \in [1..n -> Listed]
    BY <1>3, <1>5, <1>7
  <2> HIDE DEF held
  <2>2. n \in Nat
    BY <1>2
  <2> QED BY <2>1, <2>2, FunctionIsSequence
<1>9. Stands(Allocation(line), line.item)
  <2>1. \A u \in Units : erp[u].item = line.item <=> u \in held
    BY DEF AllocatedTo
  <2>2. n = Cardinality(AllocatedTo(line.item))
    BY DEF n
  <2> HIDE DEF held
  <2> QED BY <1>2, <1>6, <1>8, <2>1, <2>2 DEF Stands
<1> QED BY <1>8, <1>9 DEF line

\* A build without a manifest has nothing to ask.
LEMMA NothingScheduled == Scheduled(<<>>) = {}
  BY DEF Scheduled

\* A request that has not begun, and one that failed.
LEMMA FreshRequests ==
  /\ NotAsked \in Requests /\ NotAsked.state = "waiting"
  /\ Failed \in Requests /\ Failed.state = "failed"
<1>1. <<>> \in Seq(Listed) /\ 0 \in 0..MaxRetries
  BY ReadAssumption DEF ReadAssumption
<1>2. /\ NotAsked = [state |-> "waiting", tries |-> 0, units |-> <<>>]
      /\ Failed = [state |-> "failed", tries |-> 0, units |-> <<>>]
  BY DEF NotAsked, Failed
<1> QED BY <1>1, <1>2 DEF Requests

\* The requests move on, and what is answered stands.
LEMMA AsksKeep ==
  ASSUME ReadInv, build.step = "lines", UNCHANGED <<erp, moves, build>>,
         ask' \in [DOMAIN ask -> Requests],
         \A i \in DOMAIN ask :
           ask'[i].state = "answered" => Stands(ask'[i].units, build.manifest[i].item)
  PROVE  ReadInv'
<1>1. \A units, item : Stands(units, item)' <=> Stands(units, item)
  BY DEF Stands, AllocatedTo
<1>2. DOMAIN ask = Scheduled(build.manifest)
  BY DEF ReadInv, ReadTyped
<1>3. AnswersStand'
  <2> SUFFICES ASSUME NEW i \in DOMAIN ask', ask'[i].state = "answered"
               PROVE  Stands(ask[i].units, build.manifest[i].item)'
    BY DEF AnswersStand
  <2>1. Stands(ask'[i].units, build.manifest[i].item)
    BY <1>2
  <2> QED BY <2>1 DEF Stands, AllocatedTo
<1>4. ReadTyped'
  BY <1>2 DEF ReadInv, ReadTyped
<1>5. StepsTell'
  BY DEF ReadInv, StepsTell
<1> QED BY <1>3, <1>4, <1>5 DEF ReadInv

LEMMA LinesKeep ==
  ASSUME ReadInv, NEW i \in DOMAIN ask, LineStep(i)
  PROVE  ReadInv'
<1>1. /\ build.step = "lines" /\ UNCHANGED <<erp, moves, build>>
      /\ DOMAIN ask = Scheduled(build.manifest) /\ ask \in [DOMAIN ask -> Requests]
      /\ MaxRetries \in Nat
  BY ReadAssumption DEF LineStep, LineStart, LineAnswered, LineBusy, LineBroken, ReadInv, ReadTyped,
     ReadAssumption
<1>2. ASSUME NEW new \in Requests, ask' = [ask EXCEPT ![i] = new],
             new.state = "answered" => Stands(new.units, build.manifest[i].item)
      PROVE  ReadInv'
  <2>1. ask' \in [DOMAIN ask -> Requests]
    BY <1>1, <1>2
  <2>2. \A j \in DOMAIN ask : ask'[j] = IF j = i THEN new ELSE ask[j]
    BY <1>1, <1>2
  <2> QED BY <1>1, <1>2, <2>1, <2>2, AsksKeep DEF ReadInv, AnswersStand
<1>3. Failed \in Requests /\ Failed.state # "answered"
  BY FreshRequests
<1>4. ask[i] \in Requests
  BY <1>1
<1>5. CASE LineStart(i)
  <2> DEFINE new == [ask[i] EXCEPT !.state = "asking"]
  <2>1. new \in Requests /\ new.state # "answered"
    BY <1>4 DEF Requests
  <2>2. ask' = [ask EXCEPT ![i] = new]
    BY <1>5 DEF LineStart
  <2> HIDE DEF new
  <2> QED BY <1>2, <2>1, <2>2
<1>6. CASE LineAnswered(i)
  <2> DEFINE units == Allocation(build.manifest[i])
             new == [state |-> "answered", tries |-> 0, units |-> units]
  <2>1. units \in Seq(Listed) /\ Stands(units, build.manifest[i].item)
    BY <1>1, AllocationStands DEF ReadInv
  <2>2. ask' = [ask EXCEPT ![i] = new]
    BY <1>6 DEF LineAnswered
  <2> HIDE DEF units
  <2>3. new \in Requests /\ new.units = units
    BY <1>1, <2>1 DEF Requests
  <2> HIDE DEF new
  <2> QED BY <1>2, <2>1, <2>2, <2>3
<1>7. CASE LineBusy(i)
  <2>1. CASE Again(ask[i].tries)
    <3> DEFINE new == [ask[i] EXCEPT !.tries = @ + 1]
    <3>1. ask[i].tries + 1 \in 0..MaxRetries /\ ask[i].state = "asking"
      BY <1>1, <1>4, <1>7, <2>1 DEF Requests, Again, LineBusy, In
    <3>2. new \in Requests /\ new.state = "asking"
      BY <1>4, <3>1 DEF Requests
    <3>3. ask' = [ask EXCEPT ![i] = new]
      BY <1>7, <2>1 DEF LineBusy
    <3> HIDE DEF new
    <3> QED BY <1>2, <3>2, <3>3
  <2>2. CASE ~ Again(ask[i].tries)
    BY <1>2, <1>3, <1>7, <2>2 DEF LineBusy
  <2> QED BY <2>1, <2>2
<1>8. CASE LineBroken(i)
  BY <1>2, <1>3, <1>8 DEF LineBroken
<1> QED BY <1>5, <1>6, <1>7, <1>8 DEF LineStep

LEMMA CancelKeeps ==
  ASSUME ReadInv, Cancel
  PROVE  ReadInv'
<1>1. ask \in [DOMAIN ask -> Requests]
  BY DEF ReadInv, ReadTyped
<1>2. /\ ask' \in [DOMAIN ask -> Requests]
      /\ \A i \in DOMAIN ask : ask'[i].state = "answered" => ask'[i] = ask[i]
  <2>1. ask' = [i \in DOMAIN ask |-> IF ask[i].state = "waiting"
                                    THEN [ask[i] EXCEPT !.state = "cancelled"] ELSE ask[i]]
    BY DEF Cancel
  <2>2. \A i \in DOMAIN ask : /\ [ask[i] EXCEPT !.state = "cancelled"] \in Requests
                              /\ [ask[i] EXCEPT !.state = "cancelled"].state # "answered"
    BY <1>1 DEF Requests
  <2> QED BY <1>1, <2>1, <2>2
<1>3. build.step = "lines" /\ UNCHANGED <<erp, moves, build>>
  BY DEF Cancel
<1> QED BY <1>2, <1>3, AsksKeep DEF ReadInv, AnswersStand

\* The first request, the end of the pool and the start of a build.
LEMMA BuildMovesKeep ==
  ASSUME ReadInv, ReadStart \/ OrdersAnswered \/ OrdersBusy \/ OrdersBroken \/ ReadEnd
  PROVE  ReadInv'
<1> USE DEF ReadInv
<1>1. build \in Builds /\ MaxRetries \in Nat /\ UNCHANGED <<erp, moves>>
  BY ReadAssumption DEF ReadTyped, ReadAssumption, ReadStart, OrdersAnswered, OrdersBusy, OrdersBroken,
     ReadEnd
<1>2. ASSUME build' \in Builds, build'.manifest = <<>>, build'.step \in {"orders", "failed"},
             DOMAIN ask' = {}, ask' = [i \in DOMAIN ask' |-> ask'[i]]
      PROVE  ReadInv'
  <2>1. ask' \in [Scheduled(build'.manifest) -> Requests]
    BY <1>2, NothingScheduled
  <2> QED BY <1>1, <1>2, <2>1 DEF ReadTyped, StepsTell, AnswersStand
<1>3. ASSUME build.manifest = <<>> PROVE DOMAIN ask = {} /\ ask = [i \in DOMAIN ask |-> ask[i]]
  BY <1>3, NothingScheduled DEF ReadTyped
<1>4. /\ BuildFailed \in Builds /\ BuildFailed.manifest = <<>> /\ BuildFailed.step = "failed"
      /\ [BuildIdle EXCEPT !.step = "orders"] \in Builds
      /\ [BuildIdle EXCEPT !.step = "orders"].manifest = <<>>
      /\ [BuildIdle EXCEPT !.step = "orders"].step = "orders"
  BY <1>1 DEF BuildFailed, BuildIdle, Builds
<1>5. DOMAIN NothingAsked = {} /\ NothingAsked = [i \in DOMAIN NothingAsked |-> NothingAsked[i]]
  BY DEF NothingAsked
<1>6. CASE ReadStart
  BY <1>2, <1>3, <1>4, <1>6 DEF ReadStart, StepsTell
<1>7. CASE OrdersAnswered
  <2>1. PICK manifest \in Manifests :
          /\ build' = [build EXCEPT !.manifest = manifest, !.tries = 0,
                         !.step = IF Scheduled(manifest) = {} THEN "done" ELSE "lines"]
          /\ ask' = [i \in Scheduled(manifest) |-> NotAsked]
    BY <1>7 DEF OrdersAnswered
  <2>2. NotAsked \in Requests /\ NotAsked.state # "answered"
    BY FreshRequests
  <2>3. /\ build' \in Builds /\ build'.manifest = manifest
        /\ build'.step = IF Scheduled(manifest) = {} THEN "done" ELSE "lines"
    <3> DEFINE step == IF Scheduled(manifest) = {} THEN "done" ELSE "lines"
    <3>1. step \in {"lines", "done"} /\ 0 \in 0..MaxRetries
      BY <1>1
    <3>2. build' = [build EXCEPT !.manifest = manifest, !.tries = 0, !.step = step]
      BY <2>1
    <3> HIDE DEF step
    <3>3. build' \in Builds /\ build'.manifest = manifest /\ build'.step = step
      BY <1>1, <3>1, <3>2 DEF Builds
    <3> QED BY <3>3 DEF step
  <2>4. ask' \in [Scheduled(build'.manifest) -> Requests]
        /\ \A i \in DOMAIN ask' : ask'[i].state # "answered"
    BY <2>1, <2>2, <2>3
  <2>5. build'.step = "done" => DOMAIN ask' = {}
    BY <2>1, <2>3
  <2> QED BY <1>1, <2>3, <2>4, <2>5 DEF ReadTyped, StepsTell, AnswersStand
<1>8. CASE OrdersBusy
  <2>1. CASE Again(build.tries)
    <3>1. /\ build' \in Builds /\ build'.manifest = build.manifest /\ build'.step = "orders"
          /\ UNCHANGED ask
      BY <1>1, <1>8, <2>1 DEF OrdersBusy, Again, Builds
    <3> QED BY <1>2, <1>3, <1>8, <3>1 DEF OrdersBusy, StepsTell
  <2>2. CASE ~ Again(build.tries)
    BY <1>2, <1>3, <1>4, <1>8, <2>2 DEF OrdersBusy, StepsTell
  <2> QED BY <2>1, <2>2
<1>9. CASE OrdersBroken
  BY <1>2, <1>3, <1>4, <1>9 DEF OrdersBroken, StepsTell
<1>10. CASE ReadEnd
  <2>1. CASE In("answered") = DOMAIN ask
    <3>1. /\ build' \in Builds /\ build'.manifest = build.manifest /\ build'.step = "done"
          /\ build'.touched = build.touched /\ UNCHANGED ask
      BY <1>1, <1>10, <2>1 DEF ReadEnd, Builds
    <3>2. \A i \in DOMAIN ask : ask[i].state = "answered"
      BY <2>1 DEF In
    <3>3. ReadTyped' /\ StepsTell'
      BY <1>1, <3>1, <3>2 DEF ReadTyped, StepsTell
    <3>4. AnswersStand'
      BY <1>1, <3>1 DEF AnswersStand, Stands, AllocatedTo
    <3> QED BY <3>3, <3>4
  <2>2. CASE In("answered") # DOMAIN ask
    BY <1>2, <1>4, <1>5, <1>10, <2>2 DEF ReadEnd
  <2> QED BY <2>1, <2>2
<1> QED BY <1>6, <1>7, <1>8, <1>9, <1>10

\* The ERP changes under the build: what changed is touched.
LEMMA TouchKeeps ==
  ASSUME ReadInv, NEW things \in SUBSET (Units \cup Items \cup {NoItem}),
         build' = Touch(things), UNCHANGED ask, moves' \in 0..MaxMoves,
         erp' \in [Units -> [item : Items \cup {NoItem}, erp : Nat]],
         \A u \in Units \ things : erp'[u] = erp[u],
         \A item : item \notin things => AllocatedTo(item)' = AllocatedTo(item)
  PROVE  ReadInv'
<1> USE DEF ReadInv
<1>1. build \in Builds /\ ask \in [Scheduled(build.manifest) -> Requests]
  BY DEF ReadTyped
<1>2. CASE build.step \in {"orders", "lines", "done"}
  <2>1. build' = [build EXCEPT !.touched = @ \cup things]
    BY <1>2 DEF Touch
  <2>2. /\ build' \in Builds /\ build'.manifest = build.manifest /\ build'.step = build.step
        /\ build'.touched = build.touched \cup things
    BY <1>1, <2>1 DEF Builds
  <2>3. ReadTyped' /\ StepsTell'
    BY <1>1, <2>2 DEF ReadTyped, StepsTell
  <2>4. ASSUME NEW i \in DOMAIN ask, ask[i].state = "answered"
        PROVE  Stands(ask[i].units, build.manifest[i].item)'
    <3>1. Stands(ask[i].units, build.manifest[i].item)
      BY <2>4 DEF AnswersStand
    <3>2. /\ \A u \in Units \ build'.touched : u \in Units \ build.touched /\ erp'[u] = erp[u]
          /\ build'.manifest[i].item \notin build'.touched =>
               AllocatedTo(build.manifest[i].item)' = AllocatedTo(build.manifest[i].item)
      BY <2>2
    <3> QED BY <2>2, <3>1, <3>2 DEF Stands
  <2>5. AnswersStand'
    BY <2>4 DEF AnswersStand
  <2> QED BY <2>3, <2>5
<1>3. CASE build.step \in {"idle", "failed"}
  <2>1. UNCHANGED build /\ build.manifest = <<>>
    BY <1>3 DEF Touch, StepsTell
  <2>2. DOMAIN ask = {}
    BY <1>1, <2>1, NothingScheduled
  <2> QED BY <1>1, <2>1, <2>2 DEF ReadTyped, StepsTell, AnswersStand
<1> QED BY <1>1, <1>2, <1>3 DEF Builds

\* The office allocates a unit elsewhere.
LEMMA ReallocateKeeps ==
  ASSUME ReadInv, NEW u \in Units, NEW item \in Items \cup {NoItem}, Reallocate(u, item)
  PROVE  ReadInv'
<1>1. erp \in [Units -> [item : Items \cup {NoItem}, erp : Nat]] /\ moves \in 0..MaxMoves
      /\ MaxMoves \in Nat
  BY ReadAssumption DEF ReadInv, ReadTyped, ReadAssumption
<1>2. /\ erp' = [erp EXCEPT ![u].item = item] /\ moves' = moves + 1 /\ moves < MaxMoves
      /\ build' = Touch({u, erp[u].item, item}) /\ UNCHANGED ask
  BY DEF Reallocate
<1> DEFINE things == {u, erp[u].item, item}
<1>3. things \in SUBSET (Units \cup Items \cup {NoItem})
  BY <1>1
<1>4. /\ \A v \in Units : v # u => erp'[v] = erp[v]
      /\ erp'[u] = [erp[u] EXCEPT !.item = item] /\ erp' = [v \in Units |-> erp'[v]]
  BY <1>1, <1>2
<1>5. erp'[u] \in [item : Items \cup {NoItem}, erp : Nat] /\ erp'[u].item = item
  BY <1>1, <1>4
<1>6. erp' \in [Units -> [item : Items \cup {NoItem}, erp : Nat]]
  BY <1>1, <1>4, <1>5
<1>7. ASSUME NEW other, other \notin things PROVE AllocatedTo(other)' = AllocatedTo(other)
  BY <1>4, <1>5, <1>7 DEF AllocatedTo
<1>8. moves' \in 0..MaxMoves
  BY <1>1, <1>2
<1>9. \A v \in Units \ things : erp'[v] = erp[v]
  BY <1>4
<1>10. build' = Touch(things)
  BY <1>2
<1> HIDE DEF things
<1> QED BY <1>2, <1>3, <1>6, <1>7, <1>8, <1>9, <1>10, TouchKeeps

\* A write reaches the ERP: the unit keeps its line.
LEMMA ApplyKeepsReads ==
  ASSUME ReadInv, CallsInv, NEW request \in wire, Apply(request)
  PROVE  ReadInv'
<1> DEFINE u == calls[request.call].unit
           s == StatusAfter(calls[request.call].kind)
<1>1. u \in Units /\ s \in Nat
  <2>1. calls[request.call] \in CallRecords
    BY DEF CallsInv, CallsTyped
  <2> QED BY <2>1 DEF CallRecords, StatusAfter
<1>2. erp \in [Units -> [item : Items \cup {NoItem}, erp : Nat]]
  BY DEF ReadInv, ReadTyped
<1>3. erp' = [erp EXCEPT ![u].erp = s] /\ build' = Touch({u}) /\ UNCHANGED <<moves, ask>>
  BY DEF Apply
<1> HIDE DEF u, s
<1>4. /\ \A v \in Units : v # u => erp'[v] = erp[v]
      /\ erp'[u] = [erp[u] EXCEPT !.erp = s] /\ erp' = [v \in Units |-> erp'[v]]
  BY <1>1, <1>2, <1>3
<1>5. erp'[u] \in [item : Items \cup {NoItem}, erp : Nat] /\ erp'[u].item = erp[u].item
  BY <1>1, <1>2, <1>4
<1>6. erp' \in [Units -> [item : Items \cup {NoItem}, erp : Nat]]
  BY <1>2, <1>4, <1>5
<1>7. \A item : AllocatedTo(item)' = AllocatedTo(item)
  BY <1>4, <1>5 DEF AllocatedTo
<1>8. moves' \in 0..MaxMoves
  BY <1>3 DEF ReadInv, ReadTyped
<1> QED BY <1>1, <1>3, <1>4, <1>6, <1>7, <1>8, TouchKeeps

LEMMA ReadsKept ==
  ASSUME ReadInv, CallsInv, [ScannerNext]_scannerVars
  PROVE  ReadInv'
<1>1. ASSUME UNCHANGED readVars PROVE ReadInv'
  <2>1. ReadTyped' /\ StepsTell'
    BY <1>1 DEF ReadInv, ReadTyped, StepsTell, readVars
  <2>2. \A units, item : Stands(units, item)' <=> Stands(units, item)
    BY <1>1 DEF Stands, AllocatedTo, readVars
  <2>3. AnswersStand'
    BY <1>1, <2>2 DEF ReadInv, AnswersStand, readVars
  <2> QED BY <2>1, <2>3 DEF ReadInv
<1>2. CASE ReadStep
  BY <1>2, LinesKeep, CancelKeeps, BuildMovesKeep DEF ReadStep
<1>3. CASE \E op \in Operators, job \in Jobs : Call(op, job[1], job[2])
  BY <1>1, <1>3 DEF Call
<1>4. CASE \E c \in DOMAIN calls : CallStep(c)
  BY <1>1, <1>4 DEF CallStep, Refuse, Send, Acknowledge, Raise
<1>5. CASE \E request \in wire : Lose(request)
  BY <1>1, <1>5 DEF Lose
<1> QED
  BY <1>1, <1>2, <1>3, <1>4, <1>5, BuildMovesKeep, ReallocateKeeps, ApplyKeepsReads
     DEF ScannerNext, scannerVars

THEOREM ScannerInvariance == ScannerSpec => [](CallsInv /\ ReadInv)
<1>1. ScannerInit => CallsInv
  BY DEF ScannerInit, CallsInv, CallsTyped, WireInv, MovedWasSent, TrailIsAccurate
<1>2. ScannerInit => ReadInv
  <2> SUFFICES ASSUME ScannerInit PROVE ReadInv
    OBVIOUS
  <2>1. /\ erp \in FirstUnits /\ moves = 0 /\ build = BuildIdle /\ ask = NothingAsked
        /\ MaxMoves \in Nat /\ MaxRetries \in Nat
    BY ReadAssumption DEF ScannerInit, ReadInit, ReadAssumption
  <2>2. build \in Builds /\ build.manifest = <<>> /\ build.step = "idle"
    BY <2>1 DEF BuildIdle, Builds
  <2>3. DOMAIN ask = {} /\ ask \in [Scheduled(build.manifest) -> Requests]
    BY <2>1, <2>2, NothingScheduled DEF NothingAsked
  <2> QED
    BY <2>1, <2>2, <2>3, ReadAssumption DEF ReadInv, ReadTyped, StepsTell, AnswersStand,
       ReadAssumption
<1>3. CallsInv /\ ReadInv /\ [ScannerNext]_scannerVars => (CallsInv /\ ReadInv)'
  BY CallsKept, ReadsKept
<1> QED BY <1>1, <1>2, <1>3, PTL DEF ScannerSpec

\* The ERP, the build, its requests, the operators' calls and the trail keep their types.
THEOREM ScannerTypeCorrect == ScannerSpec => []ScannerTypeOK
<1>1. ReadInv => ReadTypeOK
  <2> SUFFICES ASSUME ReadInv PROVE ReadTypeOK
    OBVIOUS
  <2> USE DEF ReadInv, ReadTyped
  <2>1. DOMAIN ask = Scheduled(build.manifest) /\ \A i \in DOMAIN ask : ask[i] \in Requests
    OBVIOUS
  <2>2. ASSUME NEW i \in DOMAIN ask
        PROVE  {ask[i].units[k].unit : k \in DOMAIN ask[i].units} \subseteq Units
    <3>1. ask[i].units \in Seq(Listed)
      BY <2>1 DEF Requests
    <3>2. \A k \in DOMAIN ask[i].units : ask[i].units[k] \in Listed
      BY <3>1
    <3> QED BY <3>2 DEF Listed
  <2> QED BY <2>1, <2>2 DEF ReadTypeOK, Builds, Requests
<1>2. CallsInv => /\ calls \in Seq(CallRecords)
                  /\ wire \subseteq [call : DOMAIN calls, name : Operators]
                  /\ trail \in Seq([call : DOMAIN calls, name : Operators])
  <2> SUFFICES ASSUME CallsInv
               PROVE  /\ wire \subseteq [call : DOMAIN calls, name : Operators]
                      /\ trail \in Seq([call : DOMAIN calls, name : Operators])
    BY DEF CallsInv, CallsTyped
  <2> USE DEF CallsInv, CallsTyped
  <2>1. \A m \in Movements : m.call \in DOMAIN calls => m \in [call : DOMAIN calls, name : Operators]
    BY DEF Movements
  <2>2. \A k \in DOMAIN trail : trail[k] \in Movements
    OBVIOUS
  <2> DEFINE Moved == [call : DOMAIN calls, name : Operators]
  <2>3. trail \in [1..Len(trail) -> Movements] /\ Len(trail) \in Nat /\ DOMAIN trail = 1..Len(trail)
    OBVIOUS
  <2>4. \A k \in 1..Len(trail) : trail[k] \in Moved
    BY <2>1, <2>2, <2>3
  <2> HIDE DEF Moved
  <2>5. trail \in [1..Len(trail) -> Moved]
    BY <2>3, <2>4
  <2>6. trail \in Seq(Moved)
    BY <2>3, <2>5, FunctionIsSequence
  <2> QED BY <2>1, <2>6 DEF Moved
<1>3. CallsInv /\ ReadInv => ScannerTypeOK
  BY <1>1, <1>2 DEF ScannerTypeOK, CallRecords
<1> QED BY ScannerInvariance, <1>3, PTL

\* The units of the day of a build that is done.
LEMMA DayRead ==
  ASSUME ReadInv, build.step = "done"
  PROVE  /\ Scheduled(Day) = Scheduled(build.manifest)
         /\ \A i \in Scheduled(build.manifest) :
              /\ Day[i].allocated = ask[i].units /\ Day[i].order = build.manifest[i].order
              /\ Day[i].qty = build.manifest[i].qty
              /\ Stands(ask[i].units, build.manifest[i].item)
<1>1. DOMAIN ask = Scheduled(build.manifest)
  BY DEF ReadInv, ReadTyped
<1>2. Scheduled(build.manifest) \subseteq DOMAIN build.manifest
  BY DEF Scheduled
<1>3. DOMAIN Day = DOMAIN build.manifest
  BY DEF Day
<1>4. \A i \in DOMAIN build.manifest : Day[i].listed = build.manifest[i].listed
  BY DEF Day
<1>5. \A i \in Scheduled(build.manifest) :
        /\ Day[i].allocated = ask[i].units /\ Day[i].order = build.manifest[i].order
        /\ Day[i].qty = build.manifest[i].qty
  BY <1>1, <1>2 DEF Day
<1>6. Scheduled(Day) = Scheduled(build.manifest)
  BY <1>3, <1>4 DEF Scheduled
<1> QED BY <1>1, <1>5, <1>6 DEF ReadInv, StepsTell, AnswersStand

\* A build that goes on plans every unit that stayed where it was, once, under the order of its line and
\* with its status, and no unit that is not on a line.
THEOREM StillUnitsAlwaysPlannedOnce == ScannerSpec => []StillUnitsArePlannedOnce
<1>1. ASSUME ReadInv, build.step = "done", NEW u \in Units \ build.touched
      PROVE  /\ {<<p.order, p.erp>> : p \in {q \in UnitsOf(Day) : q.unit = u}}
                  = {<<build.manifest[i].order, erp[u].erp>> :
                       i \in {k \in LinesOf(u) : erp[u].erp \in 0..9}}
             /\ Cardinality({p \in UnitsOf(Day) : p.unit = u}) <= 1
  <2> DEFINE lines == Scheduled(build.manifest)
             planned == {p \in UnitsOf(Day) : p.unit = u}
  <2>1. /\ Scheduled(Day) = lines
        /\ \A i \in lines : /\ Day[i].allocated = ask[i].units
                            /\ Day[i].order = build.manifest[i].order
                            /\ Stands(ask[i].units, build.manifest[i].item)
    BY <1>1, DayRead
  <2>2. \A i \in lines :
          /\ build.manifest[i].item = erp[u].item <=> \E k \in DOMAIN ask[i].units : ask[i].units[k].unit = u
          /\ \A k \in DOMAIN ask[i].units : ask[i].units[k].unit = u => ask[i].units[k].erp = erp[u].erp
          /\ \A k, l \in DOMAIN ask[i].units : ask[i].units[k].unit = ask[i].units[l].unit => k = l
    BY <1>1, <2>1 DEF Stands
  <2>3. \A i, j \in lines : build.manifest[i].item = build.manifest[j].item => i = j
    <3>1. build.manifest \in Manifests \cup {<<>>}
      BY <1>1 DEF ReadInv, ReadTyped, Builds
    <3> QED BY <3>1, ReadAssumption DEF ReadAssumption, Scheduled
  <2> HIDE DEF lines
  <2>4. ASSUME NEW p \in planned
        PROVE  \E i \in lines : \E k \in DOMAIN ask[i].units :
                 /\ p = UnitAt(Day[i], i, k) /\ ask[i].units[k].unit = u
                 /\ p.order = build.manifest[i].order /\ p.erp = erp[u].erp /\ erp[u].erp \in 0..9
                 /\ build.manifest[i].item = erp[u].item
    <3>1. PICK i \in lines : \E k \in Known(Day[i]) : p = UnitAt(Day[i], i, k)
      BY <2>1 DEF UnitsOf
    <3>2. PICK k \in Known(Day[i]) : p = UnitAt(Day[i], i, k)
      BY <3>1
    <3>3. k \in DOMAIN ask[i].units /\ ask[i].units[k].erp \in 0..9
      BY <2>1, <3>2 DEF Known
    <3>4. p.unit = ask[i].units[k].unit /\ p.erp = ask[i].units[k].erp
          /\ p.order = build.manifest[i].order
      BY <2>1, <3>2 DEF UnitAt
    <3> QED BY <2>2, <3>2, <3>3, <3>4
  <2>5. ASSUME NEW i \in lines, build.manifest[i].item = erp[u].item, erp[u].erp \in 0..9
        PROVE  \E p \in planned : p.order = build.manifest[i].order /\ p.erp = erp[u].erp
    <3>1. PICK k \in DOMAIN ask[i].units : ask[i].units[k].unit = u
      BY <2>2, <2>5
    <3>2. k \in Known(Day[i])
      BY <2>1, <2>2, <2>5, <3>1 DEF Known
    <3>3. UnitAt(Day[i], i, k) \in UnitsOf(Day)
      BY <2>1, <3>2 DEF UnitsOf
    <3>4. /\ UnitAt(Day[i], i, k).unit = u /\ UnitAt(Day[i], i, k).erp = erp[u].erp
          /\ UnitAt(Day[i], i, k).order = build.manifest[i].order
      BY <2>1, <2>2, <3>1 DEF UnitAt
    <3> QED BY <3>3, <3>4
  <2>6. LinesOf(u) = {i \in lines : build.manifest[i].item = erp[u].item}
    BY DEF LinesOf, lines
  <2>7. {<<p.order, p.erp>> : p \in planned}
          = {<<build.manifest[i].order, erp[u].erp>> : i \in {k \in LinesOf(u) : erp[u].erp \in 0..9}}
    <3> HIDE DEF planned
    <3>1. ASSUME NEW p \in planned
          PROVE  \E i \in {k \in LinesOf(u) : erp[u].erp \in 0..9} :
                   <<p.order, p.erp>> = <<build.manifest[i].order, erp[u].erp>>
      BY <2>4, <2>6
    <3>2. ASSUME NEW i \in {k \in LinesOf(u) : erp[u].erp \in 0..9}
          PROVE  \E p \in planned :
                   <<p.order, p.erp>> = <<build.manifest[i].order, erp[u].erp>>
      BY <2>5, <2>6
    <3> QED BY <3>1, <3>2
  <2>8. ASSUME NEW p \in planned, NEW q \in planned PROVE p = q
    <3>1. PICK i \in lines : \E k \in DOMAIN ask[i].units :
            p = UnitAt(Day[i], i, k) /\ ask[i].units[k].unit = u /\ build.manifest[i].item = erp[u].item
      BY <2>4
    <3>2. PICK j \in lines : \E k \in DOMAIN ask[j].units :
            q = UnitAt(Day[j], j, k) /\ ask[j].units[k].unit = u /\ build.manifest[j].item = erp[u].item
      BY <2>4
    <3>3. i = j
      BY <2>3, <3>1, <3>2
    <3> QED BY <2>2, <3>1, <3>2, <3>3
  <2>9. Cardinality(planned) <= 1
    <3> HIDE DEF planned
    <3>1. planned = {} \/ \E p : planned = {p}
      BY <2>8
    <3> QED BY <3>1, FS_EmptySet, FS_Singleton
  <2> QED BY <2>7, <2>9
<1>2. ReadInv => StillUnitsArePlannedOnce
  BY <1>1 DEF StillUnitsArePlannedOnce
<1> QED BY ScannerInvariance, <1>2, PTL

\* An order is flagged short exactly if one of its lines is, as long as no unit comes to
\* them or leaves them.
THEOREM StillOrdersAlwaysFlagged == ScannerSpec => []StillOrdersAreFlagged
<1> DEFINE lines(order) == {k \in Scheduled(build.manifest) : build.manifest[k].order = order}
           short(k) == Cardinality(AllocatedTo(build.manifest[k].item)) < build.manifest[k].qty
<1>1. ASSUME ReadInv, build.step = "done", NEW order,
             {build.manifest[k].item : k \in lines(order)} \cap build.touched = {}
      PROVE  order \in Short(Day) <=> \E k \in lines(order) : short(k)
  <2>1. /\ Scheduled(Day) = Scheduled(build.manifest)
        /\ \A i \in Scheduled(build.manifest) :
             /\ Day[i].allocated = ask[i].units /\ Day[i].order = build.manifest[i].order
             /\ Day[i].qty = build.manifest[i].qty
             /\ Stands(ask[i].units, build.manifest[i].item)
    BY <1>1, DayRead
  <2>2. \A k \in lines(order) : Len(ask[k].units) = Cardinality(AllocatedTo(build.manifest[k].item))
    BY <1>1, <2>1 DEF Stands
  <2>3. order \in Short(Day) <=>
          \E k \in lines(order) : Len(Day[k].allocated) < Day[k].qty
    BY <2>1 DEF Short
  <2> QED BY <2>1, <2>2, <2>3
<1>2. ReadInv => StillOrdersAreFlagged
  BY <1>1 DEF StillOrdersAreFlagged
<1> QED BY ScannerInvariance, <1>2, PTL
=============================================================================
