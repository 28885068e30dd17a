--------------------------- MODULE Migrate_proofs ---------------------------
(***************************************************************************)
(* Proofs about the migrations, for any checkouts and any number of runs,  *)
(* overlapping, failing and dying anywhere: the order of the files and the *)
(* truth of the ledger.                                                    *)
(*                                                                         *)
(* The inductive invariant is MigrateInv: what a run under way does not    *)
(* have before it any more is recorded as its checkout has it, and what is *)
(* recorded has been executed.  The second part is about the other runs,   *)
(* whose entries a run compares with its files and then relies on.         *)
(***************************************************************************)
EXTENDS Migrate, FiniteSetTheorems, SequenceTheorems, TLAPS

\* Version v is recorded as run r has it, and executed.
InPlace(r, v) ==
  v \in DOMAIN ledger /\ ledger[v] = run[r].files[v] /\ <<v, run[r].files[v]>> \in Range(executed)

Ordered(s) == \A i, j \in 1..Len(s) : i < j => s[i] < s[j]

DataTyped ==
  /\ executed \in Seq(Nat \X Contents)
  /\ DOMAIN ledger \subseteq Nat
  /\ \A v \in DOMAIN ledger : ledger[v] \in Contents
  /\ run \in [Runs -> [step : RunSteps, files : Checkouts \cup {<<>>}, pending : Seq(Nat)]]

LedgerIsTrue == \A v \in DOMAIN ledger : <<v, ledger[v]>> \in Range(executed)

RunInv(r) ==
  /\ run[r].pending \in Seq(DOMAIN run[r].files)
  /\ run[r].step \in RunSteps \ {"waiting", "failed"} => run[r].files \in Checkouts
  /\ run[r].step \in {"applying", "recording"} =>
       /\ run[r].pending # <<>> /\ Ordered(run[r].pending)
       /\ \A v \in DOMAIN run[r].files : v \in Range(run[r].pending) \/ InPlace(r, v)
  /\ run[r].step = "recording" => <<Upcoming(r), run[r].files[Upcoming(r)]>> \in Range(executed)
  /\ run[r].step = "done" => \A v \in DOMAIN run[r].files : InPlace(r, v)

MigrateInv == DataTyped /\ LedgerIsTrue /\ \A r \in Runs : RunInv(r)

----------------------------------------------------------------------------
\* SetToSeqs: sequences of a finite set that hold all its elements.
LEMMA SeqsOfASet ==
  ASSUME NEW S, IsFiniteSet(S), NEW q \in SetToSeqs(S)
  PROVE  q \in Seq(S) /\ Range(q) = S
<1>1. Cardinality(S) \in Nat
  BY FS_CardinalityType
<1>2. q \in [1..Cardinality(S) -> S] /\ q \in Injection(1..Cardinality(S), S)
  BY DEF SetToSeqs, Injection, IsInjective
<1>3. q \in Seq(S)
  BY <1>1, <1>2
<1>4. IsFiniteSet(1..Cardinality(S)) /\ Cardinality(1..Cardinality(S)) = Cardinality(S)
  BY <1>1, FS_Interval
<1>5. q \in Surjection(1..Cardinality(S), S)
  BY <1>2, <1>4, FS_Injection
<1> QED BY <1>3, <1>5, <1>2 DEF Surjection, Range

LEMMA RangeOfAppend ==
  ASSUME NEW S, NEW s \in Seq(S), NEW e \in S
  PROVE  Range(Append(s, e)) = Range(s) \cup {e}
<1>1. DOMAIN s = 1..Len(s) /\ DOMAIN Append(s, e) = 1..Len(s) + 1
  BY LenProperties, AppendProperties
<1>2. \A i \in 1..Len(s) : Append(s, e)[i] = s[i]
  BY AppendProperties
<1>3. Append(s, e)[Len(s) + 1] = e
  BY AppendProperties
<1>4. Len(s) \in Nat
  BY LenProperties
<1>5. 1..Len(s) + 1 = 1..Len(s) \cup {Len(s) + 1}
  BY <1>4
<1> QED BY <1>1, <1>2, <1>3, <1>5 DEF Range

\* A queue is its head and its tail, and its order is kept in the tail.
LEMMA HeadAndTail ==
  ASSUME NEW S, NEW s \in Seq(S), s # <<>>
  PROVE  /\ Head(s) \in S /\ Tail(s) \in Seq(S)
         /\ Range(s) = Range(Tail(s)) \cup {Head(s)}
         /\ Ordered(s) => Ordered(Tail(s))
         /\ Len(s) = 1 => Range(Tail(s)) = {}
         /\ Len(s) # 1 => Tail(s) # <<>>
<1>1. /\ Head(s) \in S /\ Tail(s) \in Seq(S) /\ Len(Tail(s)) = Len(s) - 1
      /\ \A i \in 1..Len(Tail(s)) : Tail(s)[i] = s[i + 1]
  BY HeadTailProperties
<1>2. Len(s) \in Nat \ {0} /\ Head(s) = s[1]
  OBVIOUS
<1>3. DOMAIN s = 1..Len(s) /\ DOMAIN Tail(s) = 1..Len(s) - 1
  BY <1>1, LenProperties
<1>4. \A i \in 1..Len(s) : i = 1 \/ i - 1 \in 1..Len(s) - 1
  BY <1>2
<1>5. Range(s) \subseteq Range(Tail(s)) \cup {Head(s)}
  <2>1. ASSUME NEW i \in 1..Len(s), i # 1 PROVE s[i] \in Range(Tail(s))
    <3>1. i - 1 \in DOMAIN Tail(s) /\ Tail(s)[i - 1] = s[i]
      BY <1>1, <1>2, <1>3, <1>4, <2>1
    <3> QED BY <3>1 DEF Range
  <2> QED BY <1>2, <1>3, <2>1 DEF Range
<1>6. Range(Tail(s)) \cup {Head(s)} \subseteq Range(s)
  <2>1. \A i \in 1..Len(s) - 1 : i + 1 \in 1..Len(s) /\ Tail(s)[i] = s[i + 1]
    BY <1>1, <1>2
  <2>2. 1 \in DOMAIN s
    BY <1>2, <1>3
  <2> QED BY <1>2, <1>3, <2>1, <2>2 DEF Range
<1>7. Ordered(s) => Ordered(Tail(s))
  BY <1>1, <1>2 DEF Ordered
<1>8. Len(s) = 1 => Range(Tail(s)) = {}
  BY <1>3 DEF Range
<1>9. Len(s) # 1 => Tail(s) # <<>>
  <2>1. Len(<<>>) = 0
    OBVIOUS
  <2>2. Len(s) # 1 => Len(Tail(s)) # 0
    BY <1>1, <1>2
  <2> QED BY <2>1, <2>2
<1> QED BY <1>1, <1>5, <1>6, <1>7, <1>8, <1>9

----------------------------------------------------------------------------
LEMMA MigrateStarts == MigrateInit => MigrateInv
<1> SUFFICES ASSUME MigrateInit PROVE MigrateInv
  OBVIOUS
<1>1. DataTyped
  <2>1. <<>> \in Seq(Nat \X Contents) /\ <<>> \in Seq(Nat) /\ DOMAIN <<>> = {}
    OBVIOUS
  <2>2. executed = <<>> /\ ledger = <<>>
        /\ run = [r \in Runs |-> [step |-> "waiting", files |-> <<>>, pending |-> <<>>]]
    BY DEF MigrateInit
  <2>3. run \in [Runs -> [step : RunSteps, files : Checkouts \cup {<<>>}, pending : Seq(Nat)]]
    BY <2>1, <2>2 DEF RunSteps
  <2> QED BY <2>1, <2>2, <2>3 DEF DataTyped
<1>2. \A r \in Runs : run[r].step = "waiting" /\ run[r].pending = <<>>
  BY DEF MigrateInit
<1>3. \A r \in Runs : RunInv(r)
  <2>1. \A S : <<>> \in Seq(S)
    OBVIOUS
  <2> QED BY <1>2, <2>1 DEF RunInv
<1>4. DOMAIN ledger = {}
  BY DEF MigrateInit
<1> QED BY <1>1, <1>3, <1>4 DEF MigrateInv, LedgerIsTrue

\* What is executed and recorded stays so: the runs that do not move lose nothing.
LEMMA OthersKept ==
  ASSUME MigrateInv, NEW r \in Runs, run'[r] = run[r],
         Range(executed) \subseteq Range(executed'),
         \A v \in DOMAIN ledger : v \in DOMAIN ledger' /\ ledger'[v] = ledger[v]
  PROVE  RunInv(r)'
<1>1. \A v : InPlace(r, v) => InPlace(r, v)'
  BY DEF InPlace
<1>2. Upcoming(r)' = Upcoming(r)
  BY DEF Upcoming
<1>3. RunInv(r)
  BY DEF MigrateInv
<1>4. Ordered(run[r].pending) => Ordered(run'[r].pending)
  OBVIOUS
<1>5. <<Upcoming(r), run[r].files[Upcoming(r)]>> \in Range(executed) =>
        <<Upcoming(r)', run'[r].files[Upcoming(r)']>> \in Range(executed')
  BY <1>2
<1> QED BY <1>1, <1>3, <1>4, <1>5 DEF RunInv

\* The steps of one run that leave database and ledger alone.
LEMMA StartKeeps ==
  ASSUME MigrateInv, NEW r \in Runs, Start(r)
  PROVE  MigrateInv'
<1>1. PICK files \in Checkouts :
        run' = [run EXCEPT ![r] = [step |-> "started", files |-> files, pending |-> <<>>]]
  BY DEF Start
<1>2. run'[r] = [step |-> "started", files |-> files, pending |-> <<>>]
      /\ \A s \in Runs \ {r} : run'[s] = run[s]
  BY <1>1 DEF MigrateInv, DataTyped
<1>3. DataTyped' /\ LedgerIsTrue'
  BY <1>1 DEF Start, MigrateInv, DataTyped, LedgerIsTrue, RunSteps
<1>4. RunInv(r)'
  BY <1>2 DEF RunInv
<1>5. \A s \in Runs \ {r} : RunInv(s)'
  BY <1>2, OthersKept DEF Start
<1> QED BY <1>3, <1>4, <1>5 DEF MigrateInv

LEMMA CompareKeeps ==
  ASSUME MigrateInv, NEW r \in Runs, Compare(r)
  PROVE  MigrateInv'
<1>1. UNCHANGED <<executed, ledger>> /\ run[r].step = "started" /\ run[r].files \in Checkouts
      /\ run[r].pending \in Seq(DOMAIN run[r].files)
  BY DEF Compare, MigrateInv, RunInv, RunSteps
<1>2. CASE Edited(run[r].files) # {}
  <2>1. run' = [run EXCEPT ![r].step = "failed"]
    BY <1>2 DEF Compare
  <2>2. /\ run'[r].step = "failed" /\ run'[r].files = run[r].files /\ run'[r].pending = run[r].pending
        /\ \A s \in Runs \ {r} : run'[s] = run[s]
    BY <2>1 DEF MigrateInv, DataTyped
  <2>3. DataTyped' /\ LedgerIsTrue'
    BY <1>1, <2>1 DEF MigrateInv, DataTyped, LedgerIsTrue, RunSteps
  <2>4. RunInv(r)'
    BY <1>1, <2>2 DEF RunInv
  <2>5. \A s \in Runs \ {r} : RunInv(s)'
    BY <1>1, <2>2, OthersKept
  <2> QED BY <2>3, <2>4, <2>5 DEF MigrateInv
<1>3. CASE Edited(run[r].files) = {}
  <2>1. PICK pending \in InFileOrder(run[r].files) :
          run' = [run EXCEPT ![r].pending = pending,
                             ![r].step = IF pending = <<>> THEN "done" ELSE "applying"]
    BY <1>3 DEF Compare
  <2>2. DOMAIN run[r].files \subseteq Nat /\ IsFiniteSet(DOMAIN run[r].files)
    BY <1>1, CheckoutAssumption DEF CheckoutAssumption
  <2>3. IsFiniteSet(Unrecorded(run[r].files)) /\ Unrecorded(run[r].files) \subseteq DOMAIN run[r].files
    BY <2>2, FS_Subset DEF Unrecorded
  <2>4. /\ pending \in Seq(Unrecorded(run[r].files)) /\ Range(pending) = Unrecorded(run[r].files)
        /\ \A i, j \in DOMAIN pending : i < j => pending[i] < pending[j]
    BY <2>3, SeqsOfASet DEF InFileOrder
  <2>5. pending \in Seq(DOMAIN run[r].files) /\ pending \in Seq(Nat) /\ Ordered(pending)
    BY <2>2, <2>3, <2>4, LenProperties DEF Ordered
  <2>6. /\ run'[r].files = run[r].files /\ run'[r].pending = pending
        /\ run'[r].step = IF pending = <<>> THEN "done" ELSE "applying"
        /\ \A s \in Runs \ {r} : run'[s] = run[s]
    BY <2>1 DEF MigrateInv, DataTyped
  <2>7. ASSUME NEW v \in DOMAIN run[r].files, v \notin Range(pending)
        PROVE  InPlace(r, v)'
    BY <1>1, <1>3, <2>4, <2>6, <2>7 DEF Unrecorded, Edited, InPlace, MigrateInv, LedgerIsTrue
  <2>8. DataTyped' /\ LedgerIsTrue'
    BY ZenonT(40), <1>1, <2>1, <2>5 DEF MigrateInv, DataTyped, LedgerIsTrue, RunSteps
  <2>9. RunInv(r)'
    <3>1. CASE pending = <<>>
      <4>1. Range(pending) = {}
        BY <3>1 DEF Range
      <4> QED BY <1>1, <2>5, <2>6, <2>7, <3>1, <4>1 DEF RunInv
    <3>2. CASE pending # <<>>
      BY <1>1, <2>5, <2>6, <2>7, <3>2 DEF RunInv
    <3> QED BY <3>1, <3>2
  <2>10. \A s \in Runs \ {r} : RunInv(s)'
    BY <1>1, <2>6, OthersKept
  <2> QED BY <2>8, <2>9, <2>10 DEF MigrateInv
<1> QED BY <1>2, <1>3

\* What a run is about to execute is a file of its checkout.
LEMMA UpcomingIsAFile ==
  ASSUME MigrateInv, NEW r \in Runs, run[r].step \in {"applying", "recording"}
  PROVE  /\ run[r].files \in Checkouts
         /\ Upcoming(r) \in DOMAIN run[r].files
         /\ <<Upcoming(r), run[r].files[Upcoming(r)]>> \in Nat \X Contents
<1>1. run[r].files \in Checkouts /\ run[r].pending \in Seq(DOMAIN run[r].files) /\ run[r].pending # <<>>
  BY DEF MigrateInv, RunInv, RunSteps
<1>2. Upcoming(r) \in DOMAIN run[r].files
  BY <1>1, HeadAndTail DEF Upcoming
<1> QED BY <1>1, <1>2, CheckoutAssumption DEF CheckoutAssumption

LEMMA ExecuteKeeps ==
  ASSUME MigrateInv, NEW r \in Runs, Execute(r)
  PROVE  MigrateInv'
<1> DEFINE file == <<Upcoming(r), run[r].files[Upcoming(r)]>>
<1>1. /\ executed' = Append(executed, file) /\ ledger' = ledger /\ run[r].step = "applying"
      /\ run' = [run EXCEPT ![r].step = "recording"]
  BY DEF Execute
<1>2. file \in Nat \X Contents /\ executed \in Seq(Nat \X Contents)
  BY <1>1, UpcomingIsAFile DEF MigrateInv, DataTyped
<1>3. executed' \in Seq(Nat \X Contents) /\ Range(executed') = Range(executed) \cup {file}
  BY ZenonT(40), <1>1, <1>2, RangeOfAppend, AppendProperties
<1>4. /\ run'[r].step = "recording" /\ run'[r].files = run[r].files /\ run'[r].pending = run[r].pending
      /\ \A s \in Runs \ {r} : run'[s] = run[s]
  BY <1>1 DEF MigrateInv, DataTyped
<1>5. DataTyped' /\ LedgerIsTrue'
  BY <1>1, <1>3 DEF MigrateInv, DataTyped, LedgerIsTrue, RunSteps
<1>6. \A v : InPlace(r, v) => InPlace(r, v)'
  BY <1>1, <1>3, <1>4 DEF InPlace
<1>7. <<Upcoming(r), run[r].files[Upcoming(r)]>>' \in Range(executed')
  BY <1>3, <1>4 DEF Upcoming
<1>8. RunInv(r)'
  BY <1>1, <1>4, <1>6, <1>7 DEF MigrateInv, RunInv, RunSteps, Ordered
<1>9. \A s \in Runs \ {r} : RunInv(s)'
  BY <1>1, <1>3, <1>4, OthersKept
<1> QED BY <1>5, <1>8, <1>9 DEF MigrateInv

LEMMA FailKeeps ==
  ASSUME MigrateInv, NEW r \in Runs, UNCHANGED <<executed, ledger>>,
         run' = [run EXCEPT ![r].step = "failed"]
  PROVE  MigrateInv'
<1>1. /\ run'[r].step = "failed" /\ run'[r].files = run[r].files /\ run'[r].pending = run[r].pending
      /\ \A s \in Runs \ {r} : run'[s] = run[s]
  BY DEF MigrateInv, DataTyped
<1>2. DataTyped' /\ LedgerIsTrue'
  BY DEF MigrateInv, DataTyped, LedgerIsTrue, RunSteps
<1>3. RunInv(r)'
  BY <1>1 DEF MigrateInv, RunInv
<1>4. \A s \in Runs \ {r} : RunInv(s)'
  BY <1>1, OthersKept
<1> QED BY <1>2, <1>3, <1>4 DEF MigrateInv

\* The entry a run adds is of what it has executed; what it leaves in its queue is still ordered.
LEMMA RecordKeeps ==
  ASSUME MigrateInv, NEW r \in Runs, Record(r)
  PROVE  MigrateInv'
<1> DEFINE up == Upcoming(r)
<1>1. run[r].step = "recording" /\ executed' = executed
  BY DEF Record
<1>2. CASE up \in DOMAIN ledger
  BY <1>1, <1>2, FailKeeps DEF Record
<1>3. CASE up \notin DOMAIN ledger
  <2>1. Advanced(r) /\ ledger' = Extended(Entry(r))
    BY <1>3 DEF Record
  <2>2. /\ run[r].files \in Checkouts /\ up \in DOMAIN run[r].files
        /\ <<up, run[r].files[up]>> \in Nat \X Contents
    BY <1>1, UpcomingIsAFile
  <2>3. /\ DOMAIN ledger' = DOMAIN ledger \cup {up} /\ ledger'[up] = run[r].files[up]
        /\ \A v \in DOMAIN ledger : ledger'[v] = ledger[v]
    BY <1>3, <2>1 DEF Extended, Entry
  <2>4. /\ run[r].pending \in Seq(DOMAIN run[r].files) /\ run[r].pending \in Seq(Nat)
        /\ run[r].pending # <<>> /\ Ordered(run[r].pending)
        /\ \A v \in DOMAIN run[r].files : v \in Range(run[r].pending) \/ InPlace(r, v)
        /\ <<up, run[r].files[up]>> \in Range(executed)
    BY <1>1 DEF MigrateInv, DataTyped, RunInv
  <2>5. /\ Tail(run[r].pending) \in Seq(DOMAIN run[r].files)
        /\ Range(run[r].pending) = Range(Tail(run[r].pending)) \cup {up}
        /\ Ordered(Tail(run[r].pending))
        /\ Len(run[r].pending) = 1 => Range(Tail(run[r].pending)) = {}
        /\ Len(run[r].pending) # 1 => Tail(run[r].pending) # <<>>
    BY <2>4, HeadAndTail DEF Upcoming
  <2>6. Tail(run[r].pending) \in Seq(Nat)
    BY <2>4, HeadAndTail
  <2>7. /\ run'[r].files = run[r].files /\ run'[r].pending = Tail(run[r].pending)
        /\ run'[r].step = IF Len(run[r].pending) = 1 THEN "done" ELSE "applying"
        /\ \A s \in Runs \ {r} : run'[s] = run[s]
    BY <2>1 DEF Advanced, MigrateInv, DataTyped
  <2>8. run' \in [Runs -> [step : RunSteps, files : Checkouts \cup {<<>>}, pending : Seq(Nat)]]
    BY ZenonT(40), <2>1, <2>6 DEF Advanced, MigrateInv, DataTyped, RunSteps
  <2>9. DataTyped' /\ LedgerIsTrue'
    BY <1>1, <2>2, <2>3, <2>4, <2>8 DEF MigrateInv, DataTyped, LedgerIsTrue
  <2>10. ASSUME NEW v \in DOMAIN run[r].files, v \notin Range(Tail(run[r].pending))
         PROVE  InPlace(r, v)'
    BY <1>1, <2>3, <2>4, <2>5, <2>7, <2>10 DEF InPlace
  <2>11. RunInv(r)'
    <3>1. CASE Len(run[r].pending) = 1
      BY <2>2, <2>5, <2>7, <2>10, <3>1 DEF RunInv
    <3>2. CASE Len(run[r].pending) # 1
      BY <2>2, <2>5, <2>7, <2>10, <3>2 DEF RunInv
    <3> QED BY <3>1, <3>2
  <2>12. \A s \in Runs \ {r} : RunInv(s)'
    BY <1>1, <2>3, <2>7, OthersKept
  <2> QED BY <2>9, <2>11, <2>12 DEF MigrateInv
<1> QED BY <1>2, <1>3

LEMMA MigrateKept == MigrateInv /\ [MigrateNext]_migrateVars => MigrateInv'
<1> SUFFICES ASSUME MigrateInv, [MigrateNext]_migrateVars PROVE MigrateInv'
  OBVIOUS
<1>1. CASE UNCHANGED migrateVars
  <2>1. DataTyped' /\ LedgerIsTrue'
    BY <1>1 DEF migrateVars, MigrateInv, DataTyped, LedgerIsTrue
  <2>2. \A r \in Runs : RunInv(r)'
    BY <1>1, OthersKept DEF migrateVars
  <2> QED BY <2>1, <2>2 DEF MigrateInv
<1>2. ASSUME NEW r \in Runs, Start(r) \/ Compare(r) \/ Execute(r) \/ Record(r) \/ Fail(r)
      PROVE  MigrateInv'
  BY <1>2, StartKeeps, CompareKeeps, ExecuteKeeps, RecordKeeps, FailKeeps DEF Fail
<1> QED BY <1>1, <1>2 DEF MigrateNext

LEMMA MigrateStaysInv == MigrateSpec => []MigrateInv
  BY MigrateStarts, MigrateKept, PTL DEF MigrateSpec

----------------------------------------------------------------------------
\* What is executed and recorded, and what the runs have before them, is typed, for any
\* checkouts and runs.
THEOREM MigrateTypeCorrect == MigrateSpec => []MigrateTypeOK
<1>1. MigrateInv => MigrateTypeOK
  BY DEF MigrateInv, DataTyped, RunInv, MigrateTypeOK
<1> QED BY <1>1, MigrateStaysInv, PTL

\* discover's order is kept by runs that overlap: a file is executed when every earlier one of
\* its checkout is recorded.
THEOREM FilesInOrder == MigrateSpec => EarlierFilesFirst
<1>1. ASSUME MigrateInv, MigrateNext, NEW r \in Runs,
             run[r].step = "applying", run'[r].step = "recording",
             NEW v \in DOMAIN run[r].files, v < Upcoming(r)
      PROVE  v \in DOMAIN ledger
  <2>1. /\ run[r].pending \in Seq(DOMAIN run[r].files) /\ run[r].files \in Checkouts
        /\ run[r].pending # <<>> /\ Ordered(run[r].pending)
        /\ v \in Range(run[r].pending) \/ InPlace(r, v)
    BY <1>1 DEF MigrateInv, RunInv, RunSteps
  <2>2. ASSUME NEW i \in DOMAIN run[r].pending, run[r].pending[i] = v PROVE FALSE
    <3>1. DOMAIN run[r].pending = 1..Len(run[r].pending) /\ Len(run[r].pending) \in Nat
          /\ Upcoming(r) = run[r].pending[1]
      BY <2>1, LenProperties DEF Upcoming
    <3>2. DOMAIN run[r].files \subseteq Nat
      BY <2>1, CheckoutAssumption DEF CheckoutAssumption
    <3>3. Upcoming(r) \in DOMAIN run[r].files
      BY <1>1, UpcomingIsAFile
    <3> QED BY <1>1, <2>1, <2>2, <3>1, <3>2, <3>3 DEF Ordered
  <2> QED BY <2>1, <2>2 DEF Range, InPlace
<1>2. MigrateInv /\ [MigrateNext]_migrateVars =>
        [\A r \in Runs :
           run[r].step = "applying" /\ run'[r].step = "recording" =>
             \A v \in DOMAIN run[r].files : v < Upcoming(r) => v \in DOMAIN ledger]_migrateVars
  BY <1>1
<1> QED BY <1>2, MigrateStaysInv, PTL DEF MigrateSpec, EarlierFilesFirst

\* A run_migrations that returns leaves its checkout's files executed and recorded as they
\* stand, whatever the other runs did meanwhile.
THEOREM DoneIsApplied == MigrateSpec => DoneMeansApplied
<1>1. ASSUME MigrateInv, MigrateInv', MigrateNext, NEW r \in Runs,
             run[r].step # "done", run'[r].step = "done", NEW v \in DOMAIN run[r].files
      PROVE  /\ v \in DOMAIN ledger' /\ ledger'[v] = run[r].files[v]
             /\ <<v, run[r].files[v]>> \in Range(executed)
  <2>1. PICK s \in Runs : Start(s) \/ Compare(s) \/ Execute(s) \/ Record(s) \/ Fail(s)
    BY <1>1 DEF MigrateNext
  <2>2. run \in [Runs -> [step : RunSteps, files : Checkouts \cup {<<>>}, pending : Seq(Nat)]]
    BY <1>1 DEF MigrateInv, DataTyped
  <2>3. CASE Start(s) \/ Execute(s) \/ Fail(s)
    <3>1. CASE Start(s)
      <4>1. PICK files \in Checkouts :
              run' = [run EXCEPT ![s] = [step |-> "started", files |-> files, pending |-> <<>>]]
        BY <3>1 DEF Start
      <4>2. run'[s].step = "started" /\ (r # s => run'[r] = run[r])
        BY <2>2, <4>1
      <4> QED BY <1>1, <4>2
    <3>2. CASE Execute(s) \/ Fail(s)
      <4>1. PICK step \in {"recording", "failed"} : run' = [run EXCEPT ![s].step = step]
        BY <3>2 DEF Execute, Fail
      <4>2. run'[s].step = step /\ (r # s => run'[r] = run[r])
        BY <2>2, <4>1
      <4> QED BY <1>1, <4>2
    <3> QED BY <2>3, <3>1, <3>2
  <2>4. CASE Compare(s) \/ Record(s)
    <3>1. executed' = executed /\ run'[r].files = run[r].files
      <4>1. CASE run' = [run EXCEPT ![s].step = "failed"]
        BY <2>2, <2>4, <4>1 DEF Compare, Record
      <4>2. CASE \E pending \in InFileOrder(run[s].files) :
                   run' = [run EXCEPT ![s].pending = pending,
                                      ![s].step = IF pending = <<>> THEN "done" ELSE "applying"]
        <5>1. PICK pending \in InFileOrder(run[s].files) :
                run' = [run EXCEPT ![s].pending = pending,
                                   ![s].step = IF pending = <<>> THEN "done" ELSE "applying"]
          BY <4>2
        <5>2. run'[r].files = run[r].files
          BY <2>2, <5>1
        <5> QED BY <2>4, <5>2 DEF Compare, Record
      <4>3. CASE Advanced(s)
        BY <2>2, <2>4, <4>3 DEF Compare, Record, Advanced
      <4> QED BY <2>4, <4>1, <4>2, <4>3 DEF Compare, Record
    <3>2. InPlace(r, v)'
      BY <1>1, <3>1 DEF MigrateInv, RunInv
    <3> QED BY <3>1, <3>2 DEF InPlace
  <2> QED BY <2>1, <2>3, <2>4
<1>2. MigrateInv /\ MigrateInv' /\ [MigrateNext]_migrateVars =>
        [\A r \in Runs :
           run[r].step # "done" /\ run'[r].step = "done" =>
             \A v \in DOMAIN run[r].files :
               /\ v \in DOMAIN ledger' /\ ledger'[v] = run[r].files[v]
               /\ <<v, run[r].files[v]>> \in Range(executed)]_migrateVars
  BY <1>1
<1> QED BY <1>2, MigrateStaysInv, PTL DEF MigrateSpec, DoneMeansApplied

----------------------------------------------------------------------------
(***************************************************************************)
(* How often a file is executed.                                           *)
(***************************************************************************)

\* The runs that account for one execution of v each.
Charged(v) ==
  {r \in Runs : run[r].step = "failed" \/ (run[r].step = "recording" /\ Upcoming(r) = v)}

Within(v) == Times(v) <= Cardinality(Charged(v)) + (IF v \in DOMAIN ledger THEN 1 ELSE 0)

LEMMA CountsAreNumbers ==
  ASSUME DataTyped, NEW v
  PROVE  Times(v) \in Nat /\ IsFiniteSet(Charged(v)) /\ Cardinality(Charged(v)) \in Nat
<1>1. DOMAIN executed = 1..Len(executed) /\ Len(executed) \in Nat
  BY LenProperties DEF DataTyped
<1>2. IsFiniteSet(1..Len(executed))
  BY <1>1, FS_Interval
<1>3. Times(v) \in Nat
  BY <1>1, <1>2, FS_Subset, FS_CardinalityType DEF Times
<1>4. IsFiniteSet(Charged(v))
  BY RunsAssumption, FS_Subset DEF Charged
<1> QED BY <1>3, <1>4, FS_CardinalityType

\* One more execution counts for its version, and for no other.
LEMMA TimesOfOneMore ==
  ASSUME DataTyped, NEW file \in Nat \X Contents, executed' = Append(executed, file), NEW v
  PROVE  Times(v)' = IF file[1] = v THEN Times(v) + 1 ELSE Times(v)
<1> DEFINE at == {i \in DOMAIN executed : executed[i][1] = v}
           next == Len(executed) + 1
<1>1. DOMAIN executed = 1..Len(executed) /\ Len(executed) \in Nat /\ executed \in Seq(Nat \X Contents)
  BY LenProperties DEF DataTyped
<1>2. /\ DOMAIN executed' = 1..next
      /\ \A i \in 1..Len(executed) : executed'[i] = executed[i]
      /\ executed'[next] = file
  BY <1>1, AppendProperties, LenProperties
<1>3. 1..next = 1..Len(executed) \cup {next} /\ next \notin 1..Len(executed)
  BY <1>1
<1>4. at' = IF file[1] = v THEN at \cup {next} ELSE at
  BY <1>1, <1>2, <1>3
<1>5. IsFiniteSet(at) /\ next \notin at
  <2>1. at \subseteq 1..Len(executed)
    BY <1>1
  <2>2. IsFiniteSet(1..Len(executed))
    BY <1>1, FS_Interval
  <2> HIDE DEF at, next
  <2> QED BY <1>3, <2>1, <2>2, FS_Subset
<1> HIDE DEF next
<1>6. Cardinality(at \cup {next}) = Cardinality(at) + 1
  BY <1>5, FS_AddElement
<1> QED BY <1>4, <1>6 DEF Times

\* A step that adds no entry and executes nothing charges no fewer runs.
LEMMA ChargedToMore ==
  ASSUME DataTyped, NEW v, Within(v), DataTyped', executed' = executed, ledger' = ledger,
         Charged(v) \subseteq Charged(v)'
  PROVE  Within(v)'
<1>1. /\ Times(v)' = Times(v) /\ Times(v) \in Nat /\ IsFiniteSet(Charged(v)')
      /\ Cardinality(Charged(v)) \in Nat /\ Cardinality(Charged(v)') \in Nat
  <2>1. IsFiniteSet(Charged(v)')
    BY RunsAssumption, FS_Subset DEF Charged
  <2> QED BY <2>1, CountsAreNumbers, FS_CardinalityType DEF Times
<1>2. Cardinality(Charged(v)) <= Cardinality(Charged(v)')
  BY <1>1, FS_Subset
<1> QED BY <1>1, <1>2 DEF Within

LEMMA WithinKept ==
  ASSUME MigrateInv, MigrateInv', [MigrateNext]_migrateVars, NEW v \in Nat, Within(v)
  PROVE  Within(v)'
<1>1. DataTyped /\ DataTyped'
  BY DEF MigrateInv
<1>2. run \in [Runs -> [step : RunSteps, files : Checkouts \cup {<<>>}, pending : Seq(Nat)]]
  BY <1>1 DEF DataTyped
<1>3. CASE UNCHANGED migrateVars
  BY <1>1, <1>3, ChargedToMore DEF migrateVars, Charged, Upcoming
<1>4. ASSUME NEW r \in Runs, run[r].step \notin {"failed", "recording"},
             \A s \in Runs \ {r} : run'[s] = run[s], UNCHANGED <<executed, ledger>>
      PROVE  Within(v)'
  <2>1. Charged(v) \subseteq Charged(v)'
    BY <1>4 DEF Charged, Upcoming
  <2> QED BY <1>1, <1>4, <2>1, ChargedToMore
<1>5. ASSUME NEW r \in Runs, run' = [run EXCEPT ![r].step = "failed"], UNCHANGED <<executed, ledger>>
      PROVE  Within(v)'
  <2>1. run'[r].step = "failed" /\ \A s \in Runs \ {r} : run'[s] = run[s]
    BY <1>2, <1>5
  <2>2. Charged(v) \subseteq Charged(v)'
    BY <2>1 DEF Charged, Upcoming
  <2> QED BY <1>1, <1>5, <2>2, ChargedToMore
<1>6. ASSUME NEW r \in Runs, Start(r) \/ Compare(r) PROVE Within(v)'
  <2>1. run[r].step \in {"waiting", "started"} /\ UNCHANGED <<executed, ledger>>
    BY <1>6 DEF Start, Compare
  <2>2. \A s \in Runs \ {r} : run'[s] = run[s]
    BY <1>2, <1>6 DEF Start, Compare
  <2> QED BY <1>4, <2>1, <2>2
<1>7. ASSUME NEW r \in Runs, Execute(r) PROVE Within(v)'
  <2> DEFINE file == <<Upcoming(r), run[r].files[Upcoming(r)]>>
  <2>1. /\ executed' = Append(executed, file) /\ ledger' = ledger /\ run[r].step = "applying"
        /\ run' = [run EXCEPT ![r].step = "recording"]
    BY <1>7 DEF Execute
  <2>2. file \in Nat \X Contents /\ file[1] = Upcoming(r)
    BY <2>1, UpcomingIsAFile
  <2>3. /\ run'[r].step = "recording" /\ run'[r].pending = run[r].pending
        /\ \A s \in Runs \ {r} : run'[s] = run[s]
    BY <1>2, <2>1
  <2>4. Times(v)' = IF Upcoming(r) = v THEN Times(v) + 1 ELSE Times(v)
    BY <1>1, <2>1, <2>2, TimesOfOneMore
  <2>5. Charged(v)' = IF Upcoming(r) = v THEN Charged(v) \cup {r} ELSE Charged(v)
    BY <2>1, <2>3 DEF Charged, Upcoming
  <2>6. r \notin Charged(v)
    BY <2>1 DEF Charged
  <2>7. Times(v) \in Nat /\ IsFiniteSet(Charged(v)) /\ Cardinality(Charged(v)) \in Nat
    BY <1>1, CountsAreNumbers
  <2>8. Cardinality(Charged(v) \cup {r}) = Cardinality(Charged(v)) + 1
    BY <2>6, <2>7, FS_AddElement
  <2> QED BY <2>1, <2>4, <2>5, <2>7, <2>8 DEF Within
<1>8. ASSUME NEW r \in Runs, Record(r), Upcoming(r) \notin DOMAIN ledger PROVE Within(v)'
  <2>1. /\ run[r].step = "recording" /\ executed' = executed
        /\ Advanced(r) /\ ledger' = Extended(Entry(r))
    BY <1>8 DEF Record
  <2>2. run'[r].step \in {"done", "applying"} /\ \A s \in Runs \ {r} : run'[s] = run[s]
    BY <1>2, <2>1 DEF Advanced
  <2>3. DOMAIN ledger' = DOMAIN ledger \cup {Upcoming(r)}
    BY <2>1 DEF Extended, Entry
  <2>4. Charged(v)' = IF Upcoming(r) = v THEN Charged(v) \ {r} ELSE Charged(v)
    BY <2>1, <2>2 DEF Charged, Upcoming
  <2>5. Upcoming(r) = v => r \in Charged(v)
    BY <2>1 DEF Charged
  <2>6. /\ Times(v)' = Times(v) /\ Times(v) \in Nat
        /\ IsFiniteSet(Charged(v)) /\ Cardinality(Charged(v)) \in Nat
    BY <1>1, <2>1, CountsAreNumbers DEF Times
  <2>7. Upcoming(r) = v => Cardinality(Charged(v) \ {r}) = Cardinality(Charged(v)) - 1
    BY <2>5, <2>6, FS_RemoveElement
  <2> QED BY <1>8, <2>3, <2>4, <2>6, <2>7 DEF Within
<1>9. ASSUME NEW r \in Runs, Record(r) \/ Fail(r) PROVE Within(v)'
  <2>1. CASE Fail(r)
    BY <1>5, <2>1 DEF Fail
  <2>2. CASE Record(r) /\ Upcoming(r) \in DOMAIN ledger
    BY <1>5, <2>2 DEF Record
  <2>3. CASE Record(r) /\ Upcoming(r) \notin DOMAIN ledger
    BY <1>8, <2>3
  <2> QED BY <1>9, <2>1, <2>2, <2>3
<1> QED BY <1>3, <1>6, <1>7, <1>9 DEF MigrateNext

\* A file is executed again only for a run that failed: however the runs overlap, an execution
\* is recorded, about to be, or the work of a failed run.
THEOREM ExecutedOncePerFailure == MigrateSpec => []OncePerFailure
<1> DEFINE CountInv == MigrateInv /\ \A v \in Nat : Within(v)
<1>1. MigrateInit => CountInv
  <2> SUFFICES ASSUME MigrateInit, NEW v \in Nat PROVE Within(v)
    BY MigrateStarts
  <2>1. DataTyped
    BY MigrateStarts DEF MigrateInv
  <2>2. {i \in DOMAIN executed : executed[i][1] = v} = {}
    BY DEF MigrateInit
  <2>3. Times(v) = 0
    BY <2>2, FS_EmptySet DEF Times
  <2>4. Cardinality(Charged(v)) \in Nat
    BY <2>1, CountsAreNumbers
  <2> QED BY <2>3, <2>4 DEF Within
<1>2. CountInv /\ [MigrateNext]_migrateVars => CountInv'
  <2> SUFFICES ASSUME CountInv, [MigrateNext]_migrateVars PROVE CountInv'
    OBVIOUS
  <2>1. MigrateInv'
    BY MigrateKept
  <2> QED BY <2>1, WithinKept
<1>3. CountInv => OncePerFailure
  <2> SUFFICES ASSUME CountInv, NEW i \in DOMAIN executed
               PROVE  LET v == executed[i][1]
                      IN Times(v) <= Cardinality({r \in Runs : run[r].step = "failed"})
                           + Cardinality({r \in Runs : run[r].step = "recording" /\ Upcoming(r) = v})
                           + (IF v \in DOMAIN ledger THEN 1 ELSE 0)
    BY DEF OncePerFailure
  <2> DEFINE v == executed[i][1]
             failed == {r \in Runs : run[r].step = "failed"}
             recording == {r \in Runs : run[r].step = "recording" /\ Upcoming(r) = v}
  <2>1. DataTyped
    BY DEF MigrateInv
  <2>2. v \in Nat
    <3>1. executed[i] \in Nat \X Contents
      BY <2>1, ElementOfSeq, LenProperties DEF DataTyped
    <3> QED BY <3>1
  <2>3. Charged(v) = failed \cup recording /\ failed \cap recording = {}
    BY DEF Charged
  <2>4. IsFiniteSet(failed) /\ IsFiniteSet(recording)
    BY RunsAssumption, FS_Subset
  <2>5. Cardinality(failed) \in Nat /\ Cardinality(recording) \in Nat
    BY <2>4, FS_CardinalityType
  <2>6. Cardinality(Charged(v)) = Cardinality(failed) + Cardinality(recording)
    <3> HIDE DEF failed, recording, v
    <3>1. Cardinality(failed \cap recording) = 0
      BY <2>3, FS_EmptySet
    <3>2. Cardinality(failed \cup recording) =
            Cardinality(failed) + Cardinality(recording) - Cardinality(failed \cap recording)
      BY <2>4, FS_Union
    <3> QED BY <2>3, <2>5, <3>1, <3>2
  <2>7. Within(v)
    BY <2>2
  <2> QED BY <2>6, <2>7 DEF Within
<1> HIDE DEF CountInv
<1> QED BY <1>1, <1>2, <1>3, PTL DEF MigrateSpec
=============================================================================
