---------------------------- MODULE InventorySync ----------------------------
(***************************************************************************)
(* sync_inventory: the ERP's list of units is fetched page by page, while  *)
(* it goes on changing, and written to inventory_items in one transaction  *)
(* that also prunes what the fetch did not see.  Any number of syncs may   *)
(* overlap, and the pick queue takes units up and lets go of them.         *)
(*                                                                         *)
(* past is the history of the ERP's list, one entry per tick of the clock; *)
(* the last is what the ERP lists now.  The columns of a unit are one      *)
(* value of Data.  The upserts of two syncs meet in a row they share, so   *)
(* their transactions are one step each.                                   *)
(***************************************************************************)
EXTENDS Integers, SequencesExt

CONSTANTS
  Units,
  Data,         \* what the ERP can say of a unit
  Uncatalogued, \* the Data naming a model or location that has no row here
  Syncs,        \* the runs of sync_inventory
  PageSize,     \* _PAGE_SIZE
  First,        \* the ERP's list as the last sync saw it
  Limits,       \* what --limit can be: numbers, or NoLimit
  NoLimit,
  MaxTicks      \* bound on Len(past)

ASSUME SyncAssumption ==
  /\ Uncatalogued \subseteq Data
  /\ First \in Seq([unit : Units, data : Data \ Uncatalogued])
  /\ \A i, j \in DOMAIN First : First[i].unit = First[j].unit => i = j
  /\ PageSize \in Nat \ {0} /\ MaxTicks \in Nat
  /\ Limits \ {NoLimit} \subseteq Nat \ {0} /\ NoLimit \notin Nat

VARIABLES
  past,         \* past[t]: the ERP's list at time t
  inv,          \* inventory_items: [data, stamp] of each unit that has a row
  held,         \* the units of pick_queue
  sync          \* sync[s]: [step, limit, stamp, total, records]

syncVars == <<past, inv, held, sync>>

Now == Len(past)
erp == Last(past)
UnitsIn(list) == {list[i].unit : i \in DOMAIN list}

\* What a list says of a unit, the last word where it names it twice.
DataOf(list, u) == list[Max({i \in DOMAIN list : list[i].unit = u})].data

SyncSteps == {"waiting", "counting", "paging", "fetched", "done", "refused", "failed"}
Active(s) == sync[s].step \notin {"waiting", "done", "refused", "failed"}

AtMost(n, m) == IF n < m THEN n ELSE m

----------------------------------------------------------------------------
\* The ERP: a unit comes, leaves or changes.
Comes == \E u \in Units \ UnitsIn(erp), d \in Data, i \in 1..Len(erp) + 1 :
           past' = Append(past, InsertAt(erp, i, [unit |-> u, data |-> d]))
Leaves == \E i \in DOMAIN erp : past' = Append(past, RemoveAt(erp, i))
Changes == \E i \in DOMAIN erp : \E d \in Data \ {erp[i].data} :
             past' = Append(past, [erp EXCEPT ![i].data = d])

ErpMoves == Now < MaxTicks /\ (Comes \/ Leaves \/ Changes) /\ UNCHANGED <<inv, held, sync>>

\* The pick queue: a build, or the office, queues a unit; a build clears one.
TakeUp == \E u \in DOMAIN inv \ held : held' = held \cup {u} /\ UNCHANGED <<past, inv, sync>>
LetGo == \E u \in held : held' = held \ {u} /\ UNCHANGED <<past, inv, sync>>

----------------------------------------------------------------------------
\* sync_start is taken before anything is fetched.
Start(s) ==
  /\ sync[s].step = "waiting" /\ Now < MaxTicks
  /\ past' = Append(past, erp)
  /\ \E limit \in Limits :
       sync' = [sync EXCEPT ![s].step = "counting", ![s].limit = limit, ![s].stamp = Now + 1]
  /\ UNCHANGED <<inv, held>>

Paged(s, records, total, batch) ==
  sync' = [sync EXCEPT ![s].records = records, ![s].total = total,
                       ![s].step = IF batch = <<>> \/ Len(records) >= total THEN "fetched"
                                   ELSE "paging"]

\* fetch_inventory asks for the number of units first.
Count(s) ==
  /\ sync[s].step = "counting"
  /\ LET limit == sync[s].limit
         total == IF limit = NoLimit THEN Len(erp) ELSE AtMost(Len(erp), limit)
     IN Paged(s, <<>>, total, erp)
  /\ UNCHANGED <<past, inv, held>>

PageOf(s) ==
  LET skip == Len(sync[s].records)
      take == AtMost(PageSize, sync[s].total - skip)
  IN SubSeq(erp, skip + 1, AtMost(skip + take, Len(erp)))

\* skip is the number of records fetched so far; an empty page ends the fetch.
FetchPage(s) ==
  /\ sync[s].step = "paging"
  /\ Paged(s, sync[s].records \o PageOf(s), sync[s].total, PageOf(s))
  /\ UNCHANGED <<past, inv, held>>

----------------------------------------------------------------------------
Seen(s) == UnitsIn(sync[s].records)

\* Slip: the rows are stamped when they are written.
StampedNow(s) ==
  [u \in DOMAIN inv \cup Seen(s) |->
     IF u \in Seen(s) THEN [data |-> DataOf(sync[s].records, u), stamp |-> Now] ELSE inv[u]]

Upserted(s) ==
  [u \in DOMAIN inv \cup Seen(s) |->
     IF u \in Seen(s) THEN [data |-> DataOf(sync[s].records, u), stamp |-> sync[s].stamp]
     ELSE inv[u]]

\* Slip: a row of this very sync counts as outdated.
OutdatedOrNew(s) == {u \in DOMAIN Upserted(s) : Upserted(s)[u].stamp <= sync[s].stamp}

Outdated(s) == {u \in DOMAIN Upserted(s) : Upserted(s)[u].stamp < sync[s].stamp}

\* Slip: held units are pruned too.
DoomAll(s) == Outdated(s)

\* The rows _PRUNE_INVENTORY_SQL finds.
Doomed(s) == Outdated(s) \ held

\* Slip: no foreign keys to the catalogue and the locations.
Unchecked(s) == sync[s].step = "fetched"

\* A record without its catalogue or location row is refused.
Writable(s) ==
  /\ sync[s].step = "fetched"
  /\ \A i \in DOMAIN sync[s].records : sync[s].records[i].data \notin Uncatalogued

\* upsert_inventory.
Write(s) ==
  /\ Writable(s)
  /\ Doomed(s) \cap held = {}
  /\ inv' = Restrict(Upserted(s), DOMAIN Upserted(s) \ Doomed(s))
  /\ sync' = [sync EXCEPT ![s].step = "done"]
  /\ UNCHANGED <<past, held>>

\* The foreign key of pick_queue refuses the prune of a held unit, and with it the whole sync;
\* one of the units found may be taken up by a pick before it is deleted.
Refuse(s) ==
  /\ Writable(s)
  /\ held' \in {held} \cup {held \cup {u} : u \in Doomed(s)}
  /\ Doomed(s) \cap held' # {}
  /\ sync' = [sync EXCEPT ![s].step = "refused"]
  /\ UNCHANGED <<past, inv>>

\* A request or a record fails, or the process dies: nothing has been written.
Fail(s) ==
  /\ Active(s)
  /\ sync' = [sync EXCEPT ![s].step = "failed"]
  /\ UNCHANGED <<past, inv, held>>

SyncStep(s) == Count(s) \/ FetchPage(s) \/ Write(s) \/ Refuse(s)
SyncNext == ErpMoves \/ TakeUp \/ LetGo \/ \E s \in Syncs : Start(s) \/ SyncStep(s) \/ Fail(s)

NotStarted ==
  [step |-> "waiting", limit |-> NoLimit, stamp |-> 0, total |-> 0, records |-> <<>>]

\* The table as the last sync left it.
SyncInit ==
  /\ past = <<First>>
  /\ inv = [u \in UnitsIn(First) |-> [data |-> DataOf(First, u), stamp |-> 1]]
  /\ held \in SUBSET UnitsIn(First)
  /\ sync = [s \in Syncs |-> NotStarted]

SyncSpec == SyncInit /\ [][SyncNext]_syncVars

----------------------------------------------------------------------------
\* Type invariant of the inventory and its syncs.
SyncTypeOK ==
  /\ \A t \in DOMAIN past : /\ past[t] \in Seq([unit : Units, data : Data])
                            /\ IsInjective([i \in DOMAIN past[t] |-> past[t][i].unit])
  /\ DOMAIN inv \subseteq Units
  /\ \A u \in DOMAIN inv : inv[u] \in [data : Data \ Uncatalogued, stamp : 1..Now]
  /\ held \subseteq DOMAIN inv
  /\ sync \in [Syncs -> [step : SyncSteps, limit : Limits \cup {NoLimit}, stamp : 0..Now,
                         total : Nat, records : Seq([unit : Units, data : Data])]]

\* A row is as fresh as its source_synced_at says, however the syncs overlap: the ERP said
\* this of the unit at that time or later.
FreshAsStamped ==
  \A u \in DOMAIN inv : \E t \in inv[u].stamp..Now :
    u \in UnitsIn(past[t]) /\ DataOf(past[t], u) = inv[u].data

QuietSince(t) == \A later \in t..Now : past[later] = erp

\* A sync of everything, while nothing moves in the ERP, leaves its list: each unit with what
\* the ERP says of it, and no other but those held and those a later sync has written.
MirrorsAQuietERP ==
  [][\A s \in Syncs :
       /\ sync[s].step # "done" /\ sync'[s].step = "done"
       /\ sync[s].limit = NoLimit /\ QuietSince(sync[s].stamp)
       => /\ \A u \in UnitsIn(erp) : u \in DOMAIN inv' /\ inv'[u].data = DataOf(erp, u)
          /\ \A u \in DOMAIN inv' \ UnitsIn(erp) :
               u \in held \/ inv'[u].stamp > sync[s].stamp]_syncVars

\* A sync is refused only by a pick that takes up a unit at that very time: the units held
\* before are no reason.
HeldUnitsStopNoSync ==
  [][\A s \in Syncs :
       sync[s].step # "refused" /\ sync'[s].step = "refused" => held' # held]_syncVars

\* neon.py:86, "Prune inventory the ERP no longer returns": a unit that is pruned was missing
\* from the ERP's list at some time of the sync.
PrunedUnitsHadLeft ==
  [][\A s \in Syncs :
       sync[s].step # "done" /\ sync'[s].step = "done" =>
         \A u \in DOMAIN inv \ DOMAIN inv' :
           \E t \in sync[s].stamp..Now : u \notin UnitsIn(past[t])]_syncVars
=============================================================================
