------------------------------- MODULE Migrate -------------------------------
(***************************************************************************)
(* run_migrations of adapters/db/migrate: the files of schema/migrations   *)
(* that schema_version does not know are executed in the order of their    *)
(* names, each then recorded with its checksum.                            *)
(*                                                                         *)
(* Every migration file has its own BEGIN and COMMIT, so executing one     *)
(* commits it before it is recorded.  A run starts from a checkout, and    *)
(* the checkouts of two runs may differ: files added on a branch, or       *)
(* edited.  Runs may overlap, as nothing locks the ledger, and die.  A     *)
(* file stands for what it executes, and for its checksum.                 *)
(***************************************************************************)
EXTENDS Integers, FiniteSets, Sequences, SequencesExt, Functions

CONSTANTS
  Contents,   \* what a migration file can execute
  Checkouts,  \* the migrations directories: Contents by version, versions in file order
  Runs        \* the runs of scripts/migrate

ASSUME CheckoutAssumption ==
  \A files \in Checkouts :
    /\ DOMAIN files \subseteq Nat /\ IsFiniteSet(DOMAIN files)
    /\ \A v \in DOMAIN files : files[v] \in Contents

ASSUME RunsAssumption == IsFiniteSet(Runs)

VARIABLES
  executed,   \* the <<version, content>> executed, in order
  ledger,     \* schema_version: the recorded content of each version in it
  run         \* run[r]: [step, files, pending]

migrateVars == <<executed, ledger, run>>

RunSteps == {"waiting", "started", "applying", "recording", "done", "failed"}
Running(r) == run[r].step \in {"started", "applying", "recording"}
Upcoming(r) == Head(run[r].pending)

----------------------------------------------------------------------------
Start(r) ==
  /\ run[r].step = "waiting"
  /\ \E files \in Checkouts :
       run' = [run EXCEPT ![r] = [step |-> "started", files |-> files, pending |-> <<>>]]
  /\ UNCHANGED <<executed, ledger>>

Unrecorded(files) == DOMAIN files \ DOMAIN ledger

\* Slip: as the directory lists them.
AsListed(files) == SetToSeqs(Unrecorded(files))

InFileOrder(files) ==
  {q \in SetToSeqs(Unrecorded(files)) : \A i, j \in DOMAIN q : i < j => q[i] < q[j]}

\* Slip: an edited file is nobody's concern.
NoneEdited(files) == {}

\* The recorded versions whose files have changed.
Edited(files) == {v \in DOMAIN files \cap DOMAIN ledger : ledger[v] # files[v]}

\* The ledger is read once; a recorded file that has changed stops the run.
Compare(r) ==
  /\ run[r].step = "started"
  /\ IF Edited(run[r].files) # {}
       THEN run' = [run EXCEPT ![r].step = "failed"]
       ELSE \E pending \in InFileOrder(run[r].files) :
              run' = [run EXCEPT ![r].pending = pending,
                                 ![r].step = IF pending = <<>> THEN "done" ELSE "applying"]
  /\ UNCHANGED <<executed, ledger>>

\* The file's own COMMIT ends its transaction.
Execute(r) ==
  /\ run[r].step = "applying"
  /\ executed' = Append(executed, <<Upcoming(r), run[r].files[Upcoming(r)]>>)
  /\ run' = [run EXCEPT ![r].step = "recording"]
  /\ UNCHANGED ledger

\* Slip: version and checksum change places.
EntrySwapped(r) == <<run[r].files[Upcoming(r)], Upcoming(r)>>

Entry(r) == <<Upcoming(r), run[r].files[Upcoming(r)]>>

Extended(entry) ==
  [v \in DOMAIN ledger \cup {entry[1]} |-> IF v \in DOMAIN ledger THEN ledger[v] ELSE entry[2]]

Advanced(r) ==
  run' = [run EXCEPT ![r].pending = Tail(@),
                     ![r].step = IF Len(run[r].pending) = 1 THEN "done" ELSE "applying"]

\* Slip: ON CONFLICT DO NOTHING.
RecordUnlessThere(r) ==
  /\ run[r].step = "recording"
  /\ Advanced(r)
  /\ ledger' = Extended(Entry(r))
  /\ UNCHANGED executed

\* A version that another run has recorded meanwhile breaks the primary key.
Record(r) ==
  /\ run[r].step = "recording"
  /\ IF Upcoming(r) \in DOMAIN ledger
       THEN run' = [run EXCEPT ![r].step = "failed"] /\ UNCHANGED ledger
       ELSE Advanced(r) /\ ledger' = Extended(Entry(r))
  /\ UNCHANGED executed

\* A file fails and is rolled back, or the process dies.
Fail(r) ==
  /\ Running(r)
  /\ run' = [run EXCEPT ![r].step = "failed"]
  /\ UNCHANGED <<executed, ledger>>

MigrateInit ==
  /\ executed = <<>> /\ ledger = <<>>
  /\ run = [r \in Runs |-> [step |-> "waiting", files |-> <<>>, pending |-> <<>>]]

MigrateNext == \E r \in Runs : Start(r) \/ Compare(r) \/ Execute(r) \/ Record(r) \/ Fail(r)
MigrateSpec == MigrateInit /\ [][MigrateNext]_migrateVars

----------------------------------------------------------------------------
\* Type invariant of the migrations.
MigrateTypeOK ==
  /\ executed \in Seq(Nat \X Contents)
  /\ DOMAIN ledger \subseteq Nat /\ \A v \in DOMAIN ledger : ledger[v] \in Contents
  /\ \A r \in Runs : /\ run[r].step \in RunSteps /\ run[r].files \in Checkouts \cup {<<>>}
                     /\ run[r].pending \in Seq(DOMAIN run[r].files)

Times(v) == Cardinality({i \in DOMAIN executed : executed[i][1] = v})

\* A file is executed again only for a run that failed: what has been executed of a version
\* is recorded, about to be, or the work of a failed run.
OncePerFailure ==
  \A v \in {executed[i][1] : i \in DOMAIN executed} :
    Times(v) <= Cardinality({r \in Runs : run[r].step = "failed"})
                + Cardinality({r \in Runs : run[r].step = "recording" /\ Upcoming(r) = v})
                + (IF v \in DOMAIN ledger THEN 1 ELSE 0)

\* A file is executed only once the earlier ones of its checkout are recorded, whatever the
\* other runs do.
EarlierFilesFirst ==
  [][\A r \in Runs :
       run[r].step = "applying" /\ run'[r].step = "recording" =>
         \A v \in DOMAIN run[r].files : v < Upcoming(r) => v \in DOMAIN ledger]_migrateVars

\* A run that ends well leaves every file of its checkout executed, and recorded as it
\* stands there: the ledger speaks the truth of the database and of the repository.
DoneMeansApplied ==
  [][\A r \in Runs :
       run[r].step # "done" /\ run'[r].step = "done" =>
         \A v \in DOMAIN run[r].files :
           /\ v \in DOMAIN ledger' /\ ledger'[v] = run[r].files[v]
           /\ <<v, run[r].files[v]>> \in Range(executed)]_migrateVars
=============================================================================
