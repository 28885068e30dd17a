----------------------- MODULE InventorySync_proofs -----------------------
(***************************************************************************)
(* Proofs about the inventory sync, for any units, lists of the ERP, pages *)
(* and limits and any number of syncs, overlapping and failing anywhere:   *)
(* how fresh the rows are, and what a sync of a quiet ERP leaves.          *)
(*                                                                         *)
(* The inductive invariant is SyncInv: each record a sync has fetched the  *)
(* ERP said at a time since the sync began, which a row takes over with    *)
(* the sync's stamp; and no row has the stamp of a sync that has not       *)
(* written yet.                                                            *)
(***************************************************************************)
EXTENDS InventorySync, FiniteSetTheorems, SequenceTheorems, WellFoundedInduction, TLAPS

Records == [unit : Units, data : Data]

\* A list names each unit once.
OneEach(list) == \A i, j \in 1..Len(list) : list[i].unit = list[j].unit => i = j

\* The ERP has listed a record since a time.
Said(record, since) == \E t \in since..Now : \E k \in 1..Len(past[t]) : past[t][k] = record

SyncTypes ==
  [step : SyncSteps, limit : Limits \cup {NoLimit}, stamp : Nat, total : Nat,
   records : Seq(Records)]

PastTyped ==
  /\ past \in Seq(Seq(Records)) /\ Now >= 1
  /\ \A t \in 1..Now : OneEach(past[t])

RowsFresh ==
  \A u \in DOMAIN inv :
    /\ u \in Units
    /\ inv[u] \in [data : Data \ Uncatalogued, stamp : 1..Now]
    /\ Said([unit |-> u, data |-> inv[u].data], inv[u].stamp)

FetchFresh(s) ==
  /\ sync[s].stamp \in 0..Now
  /\ sync[s].step = "waiting" <=> sync[s].stamp = 0
  /\ sync[s].step \in {"waiting", "counting"} => sync[s].records = <<>>
  /\ sync[s].step = "paging" => Len(sync[s].records) < sync[s].total
  /\ \A i \in 1..Len(sync[s].records) : Said(sync[s].records[i], sync[s].stamp)

StampsApart ==
  /\ \A s, t \in Syncs : s # t /\ sync[s].step # "waiting" => sync[s].stamp # sync[t].stamp
  /\ \A u \in DOMAIN inv, s \in Syncs : sync[s].step # "done" => inv[u].stamp # sync[s].stamp

SyncInv ==
  /\ PastTyped /\ RowsFresh /\ held \subseteq DOMAIN inv
  /\ sync \in [Syncs -> SyncTypes] /\ \A s \in Syncs : FetchFresh(s)
  /\ StampsApart

----------------------------------------------------------------------------
(***************************************************************************)
(* Lists.                                                                  *)
(***************************************************************************)

\* Indices have a greatest one.
LEMMA MaxIsThere ==
  ASSUME NEW n \in Nat, NEW T \in SUBSET (1..n), T # {}
  PROVE  Max(T) \in T
<1> DEFINE less == {p \in Nat \X Nat : p[1] < p[2]}
           gaps == {n - k : k \in T}
<1>1. OpToRel(<, Nat) = less
  BY DEF OpToRel
<1>2. IsWellFoundedOn(less, Nat)
  BY <1>1, NatLessThanWellFounded
<1>3. gaps \subseteq Nat
  OBVIOUS
<1>4. gaps # {}
  <2>1. PICK k \in T : TRUE
    OBVIOUS
  <2>2. n - k \in gaps
    BY <2>1
  <2> QED BY <2>2
<1> HIDE DEF less
<1>5. PICK g \in gaps : \A h \in gaps : ~ (<<h, g>> \in less)
  BY <1>2, <1>3, <1>4, WFMin
<1>6. \A h \in gaps : ~ (h < g)
  BY <1>3, <1>5 DEF less
<1>7. PICK k \in T : g = n - k
  OBVIOUS
<1>8. \A l \in T : n - l \in gaps /\ l \in Int
  OBVIOUS
<1>9. \A l \in T : k >= l
  BY <1>6, <1>7, <1>8
<1> QED BY <1>9 DEF Max

\* What a list says of a unit is one of its records.
LEMMA DataIsARecords ==
  ASSUME NEW list \in Seq(Records), NEW u \in UnitsIn(list)
  PROVE  \E i \in 1..Len(list) : list[i].unit = u /\ list[i].data = DataOf(list, u)
<1> DEFINE at == {i \in DOMAIN list : list[i].unit = u}
<1>1. Len(list) \in Nat /\ DOMAIN list = 1..Len(list)
  BY LenProperties
<1>2. at \in SUBSET (1..Len(list)) /\ at # {}
  BY <1>1 DEF UnitsIn
<1>3. Max(at) \in at
  BY <1>1, <1>2, MaxIsThere
<1> QED BY <1>1, <1>3 DEF DataOf

LEMMA InsertedList ==
  ASSUME NEW list \in Seq(Records), NEW i \in 1..Len(list) + 1, NEW e \in Records
  PROVE  /\ InsertAt(list, i, e) \in Seq(Records)
         /\ Len(InsertAt(list, i, e)) = Len(list) + 1
         /\ \A k \in 1..Len(list) + 1 :
              InsertAt(list, i, e)[k] = IF k < i THEN list[k] ELSE IF k = i THEN e ELSE list[k - 1]
<1> DEFINE front == SubSeq(list, 1, i - 1)
           back == SubSeq(list, i, Len(list))
<1>1. Len(list) \in Nat /\ \A k \in 1..Len(list) : list[k] \in Records
  BY LenProperties, ElementOfSeq
<1>2. /\ front \in Seq(Records) /\ Len(front) = i - 1
      /\ \A k \in 1..i - 1 : front[k] = list[k]
  BY <1>1, SubSeqProperties
<1>3. /\ back \in Seq(Records) /\ Len(back) = Len(list) - i + 1
      /\ \A k \in 1..Len(list) - i + 1 : back[k] = list[k + i - 1]
  <2>1. /\ back \in Seq(Records) /\ Len(back) = IF i <= Len(list) THEN Len(list) - i + 1 ELSE 0
        /\ \A k \in 1..Len(list) - i + 1 : back[k] = list[i + k - 1]
    BY <1>1, SubSeqProperties
  <2> QED BY <1>1, <2>1
<1>4. <<e>> \in Seq(Records) /\ Len(<<e>>) = 1 /\ <<e>>[1] = e
  OBVIOUS
<1> HIDE DEF front, back
<1>5. /\ front \o <<e>> \in Seq(Records) /\ Len(front \o <<e>>) = i
      /\ \A k \in 1..i : (front \o <<e>>)[k] = IF k < i THEN list[k] ELSE e
  <2>1. /\ front \o <<e>> \in Seq(Records) /\ Len(front \o <<e>>) = i - 1 + 1
        /\ \A k \in 1..i - 1 + 1 :
             (front \o <<e>>)[k] = IF k <= i - 1 THEN front[k] ELSE <<e>>[k - (i - 1)]
    BY <1>2, <1>4, ConcatProperties
  <2> QED BY <1>2, <1>4, <2>1
<1> DEFINE joined == front \o <<e>>
<1>6. InsertAt(list, i, e) = joined \o back
  BY DEF InsertAt, front, back
<1>7. /\ joined \in Seq(Records) /\ Len(joined) = i
      /\ \A k \in 1..i : joined[k] = IF k < i THEN list[k] ELSE e
  BY <1>5
<1> HIDE DEF joined
<1>8. /\ joined \o back \in Seq(Records) /\ Len(joined \o back) = i + (Len(list) - i + 1)
      /\ \A k \in 1..i + (Len(list) - i + 1) :
           (joined \o back)[k] = IF k <= i THEN joined[k] ELSE back[k - i]
  <2>1. /\ joined \o back \in Seq(Records) /\ Len(joined \o back) = Len(joined) + Len(back)
        /\ \A k \in 1..Len(joined) + Len(back) :
             (joined \o back)[k] = IF k <= Len(joined) THEN joined[k] ELSE back[k - Len(joined)]
    BY <1>3, <1>7, ConcatProperties
  <2>2. Len(joined) = i /\ Len(back) = Len(list) - i + 1
    BY <1>3, <1>7
  <2> QED BY ONLY <2>1, <2>2
<1>9. ASSUME NEW k \in 1..Len(list) + 1
      PROVE  InsertAt(list, i, e)[k] = IF k < i THEN list[k] ELSE IF k = i THEN e ELSE list[k - 1]
  <2>1. CASE k <= i
    BY <1>1, <1>6, <1>7, <1>8, <2>1
  <2>2. CASE k > i
    <3>1. k - i \in 1..Len(list) - i + 1
      BY <1>1, <2>2
    <3>2. back[k - i] = list[k - 1]
      BY <1>1, <1>3, <3>1
    <3>3. k \in 1..i + (Len(list) - i + 1)
      BY <1>1
    <3>4. InsertAt(list, i, e)[k] = back[k - i]
      BY <1>6, <1>8, <2>2, <3>3
    <3> QED BY <2>2, <3>2, <3>4
  <2> QED BY <2>1, <2>2
<1> QED BY <1>1, <1>6, <1>8, <1>9

LEMMA RemovedList ==
  ASSUME NEW list \in Seq(Records), NEW i \in 1..Len(list)
  PROVE  /\ RemoveAt(list, i) \in Seq(Records)
         /\ Len(RemoveAt(list, i)) = Len(list) - 1
         /\ \A k \in 1..Len(list) - 1 : RemoveAt(list, i)[k] = IF k < i THEN list[k] ELSE list[k + 1]
<1> DEFINE front == SubSeq(list, 1, i - 1)
           back == SubSeq(list, i + 1, Len(list))
<1>1. Len(list) \in Nat /\ \A k \in 1..Len(list) : list[k] \in Records
  BY LenProperties, ElementOfSeq
<1>2. /\ front \in Seq(Records) /\ Len(front) = i - 1
      /\ \A k \in 1..i - 1 : front[k] = list[k]
  BY <1>1, SubSeqProperties
<1>3. /\ back \in Seq(Records) /\ Len(back) = Len(list) - i
      /\ \A k \in 1..Len(list) - i : back[k] = list[k + i]
  <2>1. /\ back \in Seq(Records)
        /\ Len(back) = IF i + 1 <= Len(list) THEN Len(list) - (i + 1) + 1 ELSE 0
        /\ \A k \in 1..Len(list) - (i + 1) + 1 : back[k] = list[(i + 1) + k - 1]
    BY <1>1, SubSeqProperties
  <2> QED BY <1>1, <2>1
<1> HIDE DEF front, back
<1>4. /\ front \o back \in Seq(Records) /\ Len(front \o back) = i - 1 + (Len(list) - i)
      /\ \A k \in 1..i - 1 + (Len(list) - i) :
           (front \o back)[k] = IF k <= i - 1 THEN front[k] ELSE back[k - (i - 1)]
  <2>1. /\ front \o back \in Seq(Records) /\ Len(front \o back) = Len(front) + Len(back)
        /\ \A k \in 1..Len(front) + Len(back) :
             (front \o back)[k] = IF k <= Len(front) THEN front[k] ELSE back[k - Len(front)]
    BY <1>2, <1>3, ConcatProperties
  <2>2. Len(front) = i - 1 /\ Len(back) = Len(list) - i
    BY <1>2, <1>3
  <2> QED BY ONLY <2>1, <2>2
<1>5. RemoveAt(list, i) = front \o back
  BY DEF RemoveAt, front, back
<1>6. ASSUME NEW k \in 1..Len(list) - 1
      PROVE  RemoveAt(list, i)[k] = IF k < i THEN list[k] ELSE list[k + 1]
  <2>1. CASE k < i
    BY <1>1, <1>2, <1>4, <1>5, <2>1
  <2>2. CASE k >= i
    <3>1. k - (i - 1) \in 1..Len(list) - i
      BY <1>1, <2>2
    <3>2. back[k - (i - 1)] = list[k + 1]
      BY <1>1, <1>3, <3>1
    <3>3. k \in 1..i - 1 + (Len(list) - i)
      BY <1>1
    <3>4. RemoveAt(list, i)[k] = back[k - (i - 1)]
      BY <1>4, <1>5, <2>2, <3>3
    <3> QED BY <2>2, <3>2, <3>4
  <2> QED BY <2>1, <2>2
<1> QED BY <1>1, <1>4, <1>5, <1>6

----------------------------------------------------------------------------
(***************************************************************************)
(* The ERP.                                                                *)
(***************************************************************************)

\* The ERP's list of now is typed.
LEMMA ErpTyped ==
  ASSUME PastTyped
  PROVE  Now \in Nat \ {0} /\ erp = past[Now] /\ erp \in Seq(Records) /\ OneEach(erp)
<1>1. past \in Seq(Seq(Records)) /\ Now \in Nat \ {0}
  BY LenProperties DEF PastTyped, Now
<1>2. erp = past[Now]
  BY DEF erp, Last, Now
<1>3. past[Now] \in Seq(Records)
  BY <1>1, ElementOfSeq DEF Now
<1> QED BY <1>1, <1>2, <1>3 DEF PastTyped

\* A list the ERP comes to is added to its past, and nothing it has said is taken back.
LEMMA PastGrows ==
  ASSUME PastTyped, NEW list \in Seq(Records), OneEach(list), past' = Append(past, list)
  PROVE  /\ PastTyped' /\ Now' = Now + 1 /\ past'[Now + 1] = list
         /\ \A t \in 1..Now : past'[t] = past[t]
         /\ \A record : \A since \in 1..Now : Said(record, since) => Said(record, since)'
<1>1. past \in Seq(Seq(Records)) /\ Now \in Nat \ {0}
  BY ErpTyped DEF PastTyped
<1>2. /\ past' \in Seq(Seq(Records)) /\ Now' = Now + 1 /\ past'[Now + 1] = list
      /\ \A t \in 1..Now : past'[t] = past[t]
  BY <1>1, AppendProperties DEF Now
<1>3. ASSUME NEW t \in 1..Now + 1 PROVE OneEach(past'[t])
  <2>1. CASE t = Now + 1
    BY <1>2, <2>1
  <2>2. CASE t # Now + 1
    <3>1. t \in 1..Now
      BY <1>1, <2>2
    <3> QED BY <1>2, <3>1 DEF PastTyped
  <2> QED BY <2>1, <2>2
<1>4. ASSUME NEW record, NEW since \in 1..Now, Said(record, since) PROVE Said(record, since)'
  <2>1. PICK t \in since..Now : \E k \in 1..Len(past[t]) : past[t][k] = record
    BY <1>4 DEF Said
  <2>2. t \in 1..Now /\ t \in since..Now + 1
    BY <1>1, <2>1
  <2>3. past'[t] = past[t]
    BY <1>2, <2>2
  <2>4. \E k \in 1..Len(past'[t]) : past'[t][k] = record
    BY <2>1, <2>3
  <2> QED BY <1>2, <2>2, <2>4 DEF Said
<1>5. PastTyped'
  <2>1. (past \in Seq(Seq(Records)))'
    BY <1>2 DEF Records
  <2>2. (Now >= 1)'
    BY <1>1, <1>2
  <2>3. (\A t \in 1..Now : OneEach(past[t]))'
    BY <1>2, <1>3 DEF OneEach
  <2> QED BY <2>1, <2>2, <2>3 DEF PastTyped
<1>6. \A record : \A since \in 1..Now : Said(record, since) => Said(record, since)'
  BY <1>4
<1> QED BY <1>2, <1>5, <1>6

LEMMA MovesList ==
  ASSUME PastTyped, Comes \/ Leaves \/ Changes
  PROVE  \E list \in Seq(Records) : OneEach(list) /\ past' = Append(past, list)
<1>1. erp \in Seq(Records) /\ OneEach(erp)
  BY ErpTyped
<1>2. Len(erp) \in Nat /\ DOMAIN erp = 1..Len(erp)
  BY <1>1, LenProperties
<1>3. CASE Comes
  <2>1. PICK u \in Units \ UnitsIn(erp), d \in Data, i \in 1..Len(erp) + 1 :
          past' = Append(past, InsertAt(erp, i, [unit |-> u, data |-> d]))
    BY <1>3 DEF Comes
  <2> DEFINE new == [unit |-> u, data |-> d]
             list == InsertAt(erp, i, new)
  <2>2. new \in Records /\ new.unit = u
    BY DEF Records
  <2>3. /\ list \in Seq(Records) /\ Len(list) = Len(erp) + 1
        /\ \A k \in 1..Len(erp) + 1 :
             list[k] = IF k < i THEN erp[k] ELSE IF k = i THEN new ELSE erp[k - 1]
    BY <1>1, <2>2, InsertedList
  <2>4. \A k \in 1..Len(erp) : erp[k].unit # u
    BY <1>2, <2>1 DEF UnitsIn
  <2> HIDE DEF list, new
  <2>5. ASSUME NEW k \in 1..Len(list), NEW l \in 1..Len(list), list[k].unit = list[l].unit
        PROVE  k = l
    <3>1. \A m \in 1..Len(erp) + 1 :
            \/ m < i /\ m \in 1..Len(erp) /\ list[m] = erp[m]
            \/ m = i /\ list[m].unit = u
            \/ m > i /\ m - 1 \in 1..Len(erp) /\ list[m] = erp[m - 1]
      BY <1>2, <2>2, <2>3
    <3> QED BY <1>1, <1>2, <2>3, <2>4, <2>5, <3>1 DEF OneEach
  <2> QED BY <2>1, <2>3, <2>5 DEF OneEach, list, new
<1>4. CASE Leaves
  <2>1. PICK i \in 1..Len(erp) : past' = Append(past, RemoveAt(erp, i))
    BY <1>2, <1>4 DEF Leaves
  <2> DEFINE list == RemoveAt(erp, i)
  <2>2. /\ list \in Seq(Records) /\ Len(list) = Len(erp) - 1
        /\ \A k \in 1..Len(erp) - 1 : list[k] = IF k < i THEN erp[k] ELSE erp[k + 1]
    BY <1>1, RemovedList
  <2> HIDE DEF list
  <2>3. ASSUME NEW k \in 1..Len(list), NEW l \in 1..Len(list), list[k].unit = list[l].unit
        PROVE  k = l
    <3>1. \A m \in 1..Len(erp) - 1 :
            \/ m < i /\ m \in 1..Len(erp) /\ list[m] = erp[m]
            \/ m >= i /\ m + 1 \in 1..Len(erp) /\ list[m] = erp[m + 1]
      BY SMTT(20), <1>2, <2>2
    <3> QED BY <1>1, <1>2, <2>2, <2>3, <3>1 DEF OneEach
  <2> QED BY <2>1, <2>2, <2>3 DEF list, OneEach
<1>5. CASE Changes
  <2>1. PICK i \in 1..Len(erp), d \in Data : past' = Append(past, [erp EXCEPT ![i].data = d])
    BY <1>2, <1>5 DEF Changes
  <2> DEFINE new == [erp[i] EXCEPT !.data = d]
             list == [erp EXCEPT ![i] = new]
  <2>2. erp[i] \in Records
    BY <1>1, ElementOfSeq
  <2>3. new \in Records /\ new.unit = erp[i].unit
    BY <2>2 DEF Records
  <2> HIDE DEF new
  <2>4. /\ list \in Seq(Records) /\ Len(list) = Len(erp)
        /\ \A k \in 1..Len(erp) : list[k] = IF k = i THEN new ELSE erp[k]
    BY <1>1, <2>3, ExceptSeq
  <2>5. list = [erp EXCEPT ![i].data = d]
    BY DEF new
  <2> HIDE DEF list
  <2>6. OneEach(list)
    BY <1>1, <2>3, <2>4 DEF OneEach
  <2> QED BY <2>1, <2>4, <2>5, <2>6
<1> QED BY <1>3, <1>4, <1>5

----------------------------------------------------------------------------
(***************************************************************************)
(* The invariant.                                                          *)
(***************************************************************************)
LEMMA SyncStarts == SyncInit => SyncInv
<1> SUFFICES ASSUME SyncInit PROVE SyncInv
  OBVIOUS
<1>1. First \in Seq(Records) /\ OneEach(First)
      /\ \A k \in 1..Len(First) : First[k] \in Records /\ First[k].data \in Data \ Uncatalogued
  <2>1. First \in Seq([unit : Units, data : Data \ Uncatalogued])
    BY SyncAssumption DEF SyncAssumption
  <2>2. DOMAIN First = 1..Len(First) /\ Len(First) \in Nat
        /\ \A k \in 1..Len(First) : First[k] \in [unit : Units, data : Data \ Uncatalogued]
    BY <2>1, LenProperties, ElementOfSeq
  <2>3. \A k \in 1..Len(First) : First[k] \in Records /\ First[k].data \in Data \ Uncatalogued
    BY <2>2 DEF Records
  <2>4. First \in Seq(Records)
    BY <2>1, <2>2, <2>3
  <2> QED BY <2>2, <2>3, <2>4, SyncAssumption DEF SyncAssumption, OneEach
<1>2. past = <<First>> /\ past \in Seq(Seq(Records)) /\ Now = 1 /\ past[1] = First
  BY <1>1 DEF SyncInit, Now
<1>3. PastTyped
  BY <1>1, <1>2 DEF PastTyped
<1>4. RowsFresh /\ held \subseteq DOMAIN inv /\ \A u \in DOMAIN inv : inv[u].stamp = 1
  <2>1. inv = [u \in UnitsIn(First) |-> [data |-> DataOf(First, u), stamp |-> 1]]
        /\ held \subseteq UnitsIn(First)
    BY DEF SyncInit
  <2>2. ASSUME NEW u \in DOMAIN inv
        PROVE  /\ u \in Units /\ inv[u] \in [data : Data \ Uncatalogued, stamp : 1..Now]
               /\ Said([unit |-> u, data |-> inv[u].data], inv[u].stamp) /\ inv[u].stamp = 1
    <3>1. PICK k \in 1..Len(First) : First[k].unit = u /\ First[k].data = DataOf(First, u)
      BY <1>1, <2>1, DataIsARecords
    <3>2. First[k] = [unit |-> u, data |-> DataOf(First, u)] /\ u \in Units
      BY <1>1, <3>1 DEF Records
    <3>3. Said(First[k], 1)
      BY <1>2 DEF Said
    <3> QED BY <1>1, <1>2, <2>1, <3>1, <3>2, <3>3
  <2> QED BY <2>1, <2>2 DEF RowsFresh
<1>5. sync \in [Syncs -> SyncTypes] /\ \A s \in Syncs : sync[s] = NotStarted
  <2>1. NotStarted \in SyncTypes
    BY EmptySeq DEF NotStarted, SyncTypes, SyncSteps
  <2> QED BY <2>1 DEF SyncInit
<1>6. \A s \in Syncs : FetchFresh(s)
  BY <1>2, <1>5 DEF NotStarted, FetchFresh
<1>7. StampsApart
  BY <1>4, <1>5 DEF NotStarted, StampsApart
<1> QED BY <1>3, <1>4, <1>5, <1>6, <1>7 DEF SyncInv

\* As the clock goes on, what has been fetched and written stays as fresh as it was.
LEMMA TimePasses ==
  ASSUME SyncInv, NEW list \in Seq(Records), OneEach(list), past' = Append(past, list)
  PROVE  /\ PastTyped' /\ Now' = Now + 1
         /\ inv' = inv => RowsFresh'
         /\ \A s \in Syncs : sync'[s] = sync[s] => FetchFresh(s)'
<1>1. /\ PastTyped' /\ Now' = Now + 1 /\ Now \in Nat
      /\ \A record : \A since \in 1..Now : Said(record, since) => Said(record, since)'
  BY PastGrows, ErpTyped DEF SyncInv
<1>2. ASSUME inv' = inv PROVE RowsFresh'
  BY <1>1, <1>2 DEF SyncInv, RowsFresh
<1>3. ASSUME NEW s \in Syncs, sync'[s] = sync[s] PROVE FetchFresh(s)'
  <2>1. FetchFresh(s)
    BY DEF SyncInv
  <2>2. ASSUME NEW i \in 1..Len(sync[s].records) PROVE Said(sync[s].records[i], sync[s].stamp)'
    <3>1. sync[s].records # <<>>
      BY <2>2
    <3>2. sync[s].stamp \in 1..Now
      BY <1>1, <2>1, <3>1 DEF FetchFresh
    <3>3. Said(sync[s].records[i], sync[s].stamp)
      BY <2>1 DEF FetchFresh
    <3>4. \A record : Said(record, sync[s].stamp) => Said(record, sync[s].stamp)'
      BY <1>1, <3>2, <1>3
    <3> QED BY <3>3, <3>4, <1>3
  <2> QED BY <1>1, <1>3, <2>1, <2>2 DEF FetchFresh
<1> QED BY <1>1, <1>2, <1>3

\* The ERP moves on, and nobody else.
LEMMA ErpMovesKeeps == SyncInv /\ ErpMoves => SyncInv'
<1> SUFFICES ASSUME SyncInv, ErpMoves PROVE SyncInv'
  OBVIOUS
<1>1. PICK list \in Seq(Records) : OneEach(list) /\ past' = Append(past, list)
  BY MovesList DEF ErpMoves, SyncInv
<1>2. UNCHANGED <<inv, held, sync>>
  BY DEF ErpMoves
<1>3. PastTyped' /\ RowsFresh' /\ \A s \in Syncs : FetchFresh(s)'
  BY <1>1, <1>2, TimePasses
<1>4. StampsApart' /\ held' \subseteq DOMAIN inv' /\ sync' \in [Syncs -> SyncTypes]
  BY <1>2 DEF SyncInv, StampsApart
<1> QED BY <1>3, <1>4 DEF SyncInv, SyncTypes, Records, SyncSteps

\* The pick queue takes a unit up or lets go of it.
LEMMA HeldKeeps ==
  ASSUME SyncInv, UNCHANGED <<past, inv, sync>>, held' \subseteq DOMAIN inv
  PROVE  SyncInv'
<1>1. PastTyped' /\ RowsFresh' /\ StampsApart' /\ \A s \in Syncs : FetchFresh(s)'
  BY DEF SyncInv, PastTyped, OneEach, Records, Now, RowsFresh, FetchFresh, Said, StampsApart
<1> QED BY <1>1 DEF SyncInv, SyncTypes, Records, SyncSteps

\* A sync starts with a stamp that no row and no other sync has.
LEMMA StartKeeps ==
  ASSUME SyncInv, NEW s \in Syncs, Start(s)
  PROVE  SyncInv'
<1>1. PastTyped /\ Now \in Nat \ {0} /\ erp \in Seq(Records) /\ OneEach(erp)
  BY ErpTyped DEF SyncInv
<1>2. PICK limit \in Limits :
        sync' = [sync EXCEPT ![s].step = "counting", ![s].limit = limit, ![s].stamp = Now + 1]
  BY DEF Start
<1>3. past' = Append(past, erp) /\ UNCHANGED <<inv, held>> /\ sync[s].step = "waiting"
  BY DEF Start
<1>4. /\ PastTyped' /\ Now' = Now + 1 /\ RowsFresh'
      /\ \A t \in Syncs : sync'[t] = sync[t] => FetchFresh(t)'
  BY <1>1, <1>3, TimePasses
<1>5. /\ sync' \in [Syncs -> SyncTypes]
      /\ sync'[s].step = "counting" /\ sync'[s].stamp = Now + 1
      /\ sync'[s].records = sync[s].records
      /\ \A t \in Syncs \ {s} : sync'[t] = sync[t]
  <2>1. sync \in [Syncs -> SyncTypes]
    BY DEF SyncInv
  <2> DEFINE started == [sync[s] EXCEPT !.step = "counting", !.limit = limit, !.stamp = Now + 1]
  <2>2. started \in SyncTypes
    <3>1. sync[s] \in SyncTypes /\ "counting" \in SyncSteps /\ Now + 1 \in Nat
      BY <1>1, <2>1 DEF SyncSteps
    <3>2. limit \in Limits \cup {NoLimit}
      OBVIOUS
    <3> QED BY <3>1, <3>2 DEF SyncTypes
  <2>3. sync' = [sync EXCEPT ![s] = started]
    BY <1>2, <2>1 DEF SyncTypes
  <2>4. started.step = "counting" /\ started.stamp = Now + 1 /\ started.records = sync[s].records
    BY <2>1 DEF SyncTypes
  <2> HIDE DEF started
  <2> QED BY <2>1, <2>2, <2>3, <2>4
<1>6. FetchFresh(s)'
  <2>1. sync[s].records = <<>>
    BY <1>3 DEF SyncInv, FetchFresh
  <2>2. sync'[s].records = <<>> /\ sync'[s].stamp \in 0..Now'
    BY <1>1, <1>4, <1>5, <2>1
  <2>3. Len(sync'[s].records) = 0
    BY <2>2
  <2> QED BY <1>1, <1>5, <2>2, <2>3 DEF FetchFresh
<1>7. StampsApart'
  <2>1. \A t \in Syncs : sync[t].stamp # Now + 1
    BY <1>1 DEF SyncInv, FetchFresh
  <2>2. \A u \in DOMAIN inv : inv[u].stamp # Now + 1
    <3>1. \A u \in DOMAIN inv : inv[u].stamp \in 1..Now
      BY DEF SyncInv, RowsFresh
    <3> QED BY <1>1, <3>1
  <2>3. StampsApart
    BY DEF SyncInv
  <2>4. ASSUME NEW t \in Syncs, NEW r \in Syncs, t # r, sync'[t].step # "waiting"
        PROVE  sync'[t].stamp # sync'[r].stamp
    BY <1>5, <2>1, <2>3, <2>4 DEF StampsApart
  <2>5. ASSUME NEW u \in DOMAIN inv, NEW t \in Syncs, sync'[t].step # "done"
        PROVE  inv[u].stamp # sync'[t].stamp
    BY <1>5, <2>2, <2>3, <2>5 DEF StampsApart
  <2> QED BY <1>3, <2>4, <2>5 DEF StampsApart
<1> QED BY <1>3, <1>4, <1>5, <1>6, <1>7 DEF SyncInv, SyncTypes, Records, SyncSteps

\* A step of one sync on the way, which writes no rows.
LEMMA OnTheWayKeeps ==
  ASSUME SyncInv, NEW s \in Syncs, UNCHANGED <<past, inv>>, held' \subseteq DOMAIN inv,
         sync' \in [Syncs -> SyncTypes], \A t \in Syncs \ {s} : sync'[t] = sync[t],
         Active(s), sync'[s].step \notin {"waiting", "counting", "done"},
         sync'[s].stamp = sync[s].stamp,
         sync'[s].step = "paging" => Len(sync'[s].records) < sync'[s].total,
         \A i \in 1..Len(sync'[s].records) : Said(sync'[s].records[i], sync[s].stamp)
  PROVE  SyncInv'
<1>1. PastTyped' /\ RowsFresh' /\ Now' = Now
  <2>1. PastTyped'
    BY DEF SyncInv, PastTyped, OneEach, Records, Now
  <2>2. RowsFresh'
    BY DEF SyncInv, RowsFresh, Said, Now
  <2> QED BY <2>1, <2>2 DEF Now
<1>2. ASSUME NEW t \in Syncs PROVE FetchFresh(t)'
  <2>1. FetchFresh(t)
    BY DEF SyncInv
  <2>2. CASE t = s
    <3>1. (\A i \in 1..Len(sync[t].records) : Said(sync[t].records[i], sync[t].stamp))'
      <4>1. sync'[t].records = sync'[s].records /\ sync'[t].stamp = sync[s].stamp
        BY <2>2
      <4>2. ASSUME NEW i \in 1..Len(sync'[t].records)
            PROVE  Said(sync[t].records[i], sync[t].stamp)'
        <5>1. Said(sync'[s].records[i], sync[s].stamp)
          BY <4>1, <4>2
        <5>2. PICK at \in sync[s].stamp..Now :
                \E k \in 1..Len(past[at]) : past[at][k] = sync'[s].records[i]
          BY <5>1 DEF Said
        <5> QED BY <1>1, <4>1, <5>2 DEF Said
      <4> QED BY <4>2
    <3> QED BY <1>1, <2>1, <2>2, <3>1 DEF FetchFresh, Active
  <2>3. CASE t # s
    <3>1. (\A i \in 1..Len(sync[t].records) : Said(sync[t].records[i], sync[t].stamp))'
      BY <1>1, <2>1, <2>3 DEF FetchFresh, Said
    <3> QED BY <1>1, <2>1, <2>3, <3>1 DEF FetchFresh
  <2> QED BY <2>2, <2>3
<1>3. StampsApart'
  BY DEF SyncInv, StampsApart, Active
<1> QED BY <1>1, <1>2, <1>3 DEF SyncInv, SyncTypes, Records, SyncSteps

\* What Paged makes of a sync.
LEMMA WhatPagedDoes ==
  ASSUME SyncInv, NEW s \in Syncs, NEW records \in Seq(Records), NEW total \in Nat, NEW batch,
         Paged(s, records, total, batch)
  PROVE  /\ sync' \in [Syncs -> SyncTypes] /\ \A t \in Syncs \ {s} : sync'[t] = sync[t]
         /\ sync'[s].stamp = sync[s].stamp /\ sync'[s].limit = sync[s].limit
         /\ sync'[s].records = records /\ sync'[s].total = total
         /\ sync'[s].step = IF batch = <<>> \/ Len(records) >= total THEN "fetched" ELSE "paging"
<1>1. sync \in [Syncs -> SyncTypes]
  BY DEF SyncInv
<1> DEFINE step == IF batch = <<>> \/ Len(records) >= total THEN "fetched" ELSE "paging"
           paged == [sync[s] EXCEPT !.records = records, !.total = total, !.step = step]
<1>2. step \in SyncSteps
  BY DEF SyncSteps
<1>3. sync' = [sync EXCEPT ![s].records = records, ![s].total = total, ![s].step = step]
  BY DEF Paged
<1> HIDE DEF step
<1>4. sync[s] \in SyncTypes
  BY <1>1
<1>5. paged \in SyncTypes
  BY <1>2, <1>4 DEF SyncTypes
<1>6. sync' = [sync EXCEPT ![s] = paged]
  BY <1>1, <1>3 DEF SyncTypes
<1>7. /\ paged.records = records /\ paged.total = total /\ paged.step = step
      /\ paged.stamp = sync[s].stamp /\ paged.limit = sync[s].limit
  BY <1>4 DEF SyncTypes
<1> HIDE DEF paged
<1>8. /\ sync' \in [Syncs -> SyncTypes] /\ \A t \in Syncs \ {s} : sync'[t] = sync[t]
      /\ sync'[s] = paged
  BY <1>1, <1>5, <1>6
<1> QED BY <1>7, <1>8 DEF step

LEMMA PagedKeeps ==
  ASSUME SyncInv, NEW s \in Syncs, NEW records \in Seq(Records), NEW total \in Nat, NEW batch,
         Paged(s, records, total, batch), Active(s), UNCHANGED <<past, inv, held>>,
         \A i \in 1..Len(records) : Said(records[i], sync[s].stamp)
  PROVE  SyncInv'
<1>1. /\ sync' \in [Syncs -> SyncTypes] /\ \A t \in Syncs \ {s} : sync'[t] = sync[t]
      /\ sync'[s].stamp = sync[s].stamp
      /\ sync'[s].records = records /\ sync'[s].total = total
      /\ sync'[s].step = IF batch = <<>> \/ Len(records) >= total THEN "fetched" ELSE "paging"
  BY WhatPagedDoes
<1>2. Len(records) \in Nat
  BY LenProperties
<1>3. sync'[s].step \in {"paging", "fetched"}
      /\ (sync'[s].step = "paging" => Len(sync'[s].records) < sync'[s].total)
  BY <1>1, <1>2
<1>4. held' \subseteq DOMAIN inv
  BY DEF SyncInv
<1> QED BY <1>1, <1>3, <1>4, OnTheWayKeeps

\* The number the ERP answers with, or the limit.
LEMMA CountKeeps ==
  ASSUME SyncInv, NEW s \in Syncs, Count(s)
  PROVE  SyncInv'
<1> DEFINE limit == sync[s].limit
           total == IF limit = NoLimit THEN Len(erp) ELSE AtMost(Len(erp), limit)
<1>1. Paged(s, <<>>, total, erp) /\ UNCHANGED <<past, inv, held>> /\ sync[s].step = "counting"
  BY DEF Count
<1>2. erp \in Seq(Records)
  BY ErpTyped DEF SyncInv
<1>3. Len(erp) \in Nat
  BY <1>2, LenProperties
<1>4. limit \in Limits \cup {NoLimit}
  BY DEF SyncInv, SyncTypes
<1>5. total \in Nat
  <2>1. limit = NoLimit \/ limit \in Nat
    BY <1>4, SyncAssumption DEF SyncAssumption
  <2> QED BY <1>3, <2>1 DEF AtMost
<1>6. <<>> \in Seq(Records) /\ \A i \in 1..Len(<<>>) : Said(<<>>[i], sync[s].stamp)
  BY EmptySeq
<1> HIDE DEF total
<1>7. Active(s)
  BY <1>1 DEF Active
<1> QED BY <1>1, <1>5, <1>6, <1>7, PagedKeeps

\* The page a sync fetches is a part of the ERP's list.
LEMMA PageOfErp ==
  ASSUME SyncInv, NEW s \in Syncs, sync[s].step = "paging"
  PROVE  LET skip == Len(sync[s].records)
             take == AtMost(PageSize, sync[s].total - skip)
             end == AtMost(skip + take, Len(erp))
         IN /\ skip \in Nat /\ end \in Nat
            /\ take \in Nat \ {0} /\ skip + take <= sync[s].total
            /\ PageOf(s) \in Seq(Records)
            /\ Len(PageOf(s)) = IF skip < end THEN end - skip ELSE 0
            /\ \A k \in 1..Len(PageOf(s)) : skip + k \in 1..Len(erp) /\ PageOf(s)[k] = erp[skip + k]
<1> DEFINE skip == Len(sync[s].records)
           take == AtMost(PageSize, sync[s].total - skip)
           end == AtMost(skip + take, Len(erp))
<1>1. erp \in Seq(Records)
  BY ErpTyped DEF SyncInv
<1>2. Len(erp) \in Nat /\ \A k \in 1..Len(erp) : erp[k] \in Records
  BY <1>1, LenProperties, ElementOfSeq
<1>3. sync[s].records \in Seq(Records) /\ sync[s].total \in Nat
  BY DEF SyncInv, SyncTypes
<1>4. skip \in Nat /\ skip < sync[s].total
  BY <1>3, LenProperties DEF SyncInv, FetchFresh
<1> HIDE DEF skip
<1>5. take \in Nat \ {0} /\ skip + take <= sync[s].total
  <2>1. PageSize \in Nat \ {0}
    BY SyncAssumption DEF SyncAssumption
  <2>2. take = IF PageSize < sync[s].total - skip THEN PageSize ELSE sync[s].total - skip
    BY DEF AtMost
  <2> QED BY <1>3, <1>4, <2>1, <2>2
<1> HIDE DEF take
<1>6. end \in Nat /\ end <= Len(erp)
  BY <1>2, <1>4, <1>5 DEF AtMost
<1> HIDE DEF end
<1>7. PageOf(s) = SubSeq(erp, skip + 1, end)
  BY DEF PageOf, skip, take, end
<1>8. /\ PageOf(s) \in Seq(Records)
      /\ Len(PageOf(s)) = IF skip + 1 <= end THEN end - (skip + 1) + 1 ELSE 0
      /\ \A k \in 1..end - (skip + 1) + 1 : PageOf(s)[k] = erp[(skip + 1) + k - 1]
  BY <1>1, <1>2, <1>4, <1>6, <1>7, SubSeqProperties
<1>9. Len(PageOf(s)) = IF skip < end THEN end - skip ELSE 0
  BY <1>4, <1>6, <1>8
<1>10. ASSUME NEW k \in 1..Len(PageOf(s))
       PROVE  skip + k \in 1..Len(erp) /\ PageOf(s)[k] = erp[skip + k]
  BY <1>2, <1>4, <1>6, <1>8, <1>9
<1> QED BY <1>4, <1>5, <1>6, <1>8, <1>9, <1>10 DEF skip, take, end

LEMMA FetchPageKeeps ==
  ASSUME SyncInv, NEW s \in Syncs, FetchPage(s)
  PROVE  SyncInv'
<1> DEFINE old == sync[s].records
           page == PageOf(s)
           new == old \o page
<1>1. /\ Paged(s, new, sync[s].total, page) /\ UNCHANGED <<past, inv, held>>
      /\ sync[s].step = "paging"
  BY DEF FetchPage
<1>2. /\ page \in Seq(Records)
      /\ \A k \in 1..Len(page) : Len(old) + k \in 1..Len(erp) /\ page[k] = erp[Len(old) + k]
  BY <1>1, PageOfErp
<1>3. old \in Seq(Records) /\ sync[s].total \in Nat /\ Len(old) \in Nat /\ Len(page) \in Nat
  BY <1>2, LenProperties DEF SyncInv, SyncTypes
<1>4. /\ new \in Seq(Records) /\ Len(new) = Len(old) + Len(page)
      /\ \A i \in 1..Len(old) + Len(page) :
           new[i] = IF i <= Len(old) THEN old[i] ELSE page[i - Len(old)]
  BY <1>2, <1>3, ConcatProperties
<1>5. /\ \A i \in 1..Len(old) : Said(old[i], sync[s].stamp)
      /\ sync[s].stamp \in 0..Now /\ Now \in Nat /\ erp = past[Now]
  BY ErpTyped DEF SyncInv, FetchFresh
<1> HIDE DEF old, page, new
<1>6. ASSUME NEW i \in 1..Len(new) PROVE Said(new[i], sync[s].stamp)
  <2>1. CASE i <= Len(old)
    <3>1. new[i] = old[i] /\ i \in 1..Len(old)
      BY <1>3, <1>4, <2>1
    <3> QED BY <1>5, <3>1
  <2>2. CASE i > Len(old)
    <3>1. new[i] = page[i - Len(old)] /\ i - Len(old) \in 1..Len(page)
      BY <1>3, <1>4, <2>2
    <3>2. i \in 1..Len(erp) /\ new[i] = erp[i]
      BY <1>2, <1>3, <1>4, <3>1
    <3>3. Now \in sync[s].stamp..Now
      BY <1>5
    <3> QED BY <1>5, <3>2, <3>3 DEF Said
  <2> QED BY <1>3, <2>1, <2>2
<1>7. Active(s)
  BY <1>1 DEF Active
<1> QED BY <1>1, <1>3, <1>4, <1>6, <1>7, PagedKeeps

\* The transaction writes what was fetched, with the sync's stamp, and prunes what it did not see.
LEMMA WriteKeeps ==
  ASSUME SyncInv, NEW s \in Syncs, Write(s)
  PROVE  SyncInv'
<1> DEFINE kept == DOMAIN Upserted(s) \ Doomed(s)
<1>1. /\ inv' = Restrict(Upserted(s), kept) /\ Doomed(s) \cap held = {}
      /\ UNCHANGED <<past, held>> /\ sync' = [sync EXCEPT ![s].step = "done"]
      /\ Writable(s) /\ sync[s].step = "fetched"
  BY DEF Write, Writable
<1>2. DOMAIN Upserted(s) = DOMAIN inv \cup Seen(s)
  BY DEF Upserted
<1>3. /\ DOMAIN inv' = kept /\ kept \subseteq DOMAIN inv \cup Seen(s)
      /\ \A u \in kept : inv'[u] = IF u \in Seen(s)
           THEN [data |-> DataOf(sync[s].records, u), stamp |-> sync[s].stamp] ELSE inv[u]
  <2>1. inv' = [u \in kept |-> Upserted(s)[u]]
    BY <1>1 DEF Restrict
  <2>2. \A u \in DOMAIN inv \cup Seen(s) : Upserted(s)[u] = IF u \in Seen(s)
          THEN [data |-> DataOf(sync[s].records, u), stamp |-> sync[s].stamp] ELSE inv[u]
    BY DEF Upserted
  <2> QED BY <1>2, <2>1, <2>2
<1>4. held' \subseteq DOMAIN inv'
  BY <1>1, <1>2, <1>3 DEF SyncInv
<1>5. /\ sync' \in [Syncs -> SyncTypes] /\ \A t \in Syncs \ {s} : sync'[t] = sync[t]
      /\ sync'[s].step = "done" /\ sync'[s].stamp = sync[s].stamp
      /\ sync'[s].records = sync[s].records
  BY <1>1 DEF SyncInv, SyncTypes, SyncSteps
<1>6. PastTyped' /\ Now' = Now
  BY <1>1 DEF SyncInv, PastTyped, OneEach, Records, Now
<1>7. FetchFresh(s) /\ Now \in Nat /\ sync[s].stamp \in 1..Now
  BY <1>1, ErpTyped DEF SyncInv, FetchFresh
<1>8. ASSUME NEW u \in kept
      PROVE  /\ u \in Units
             /\ inv'[u] \in [data : Data \ Uncatalogued, stamp : 1..Now]
             /\ Said([unit |-> u, data |-> inv'[u].data], inv'[u].stamp)
  <2>1. CASE u \in Seen(s)
    <3>1. sync[s].records \in Seq(Records)
      BY DEF SyncInv, SyncTypes
    <3>2. PICK i \in 1..Len(sync[s].records) :
            sync[s].records[i].unit = u /\ sync[s].records[i].data = DataOf(sync[s].records, u)
      BY <2>1, <3>1, DataIsARecords DEF Seen
    <3>3. sync[s].records[i] \in Records /\ i \in DOMAIN sync[s].records
      BY <3>1, ElementOfSeq, LenProperties
    <3>4. sync[s].records[i].data \notin Uncatalogued
      BY <1>1, <3>3 DEF Writable
    <3>5. sync[s].records[i] = [unit |-> u, data |-> DataOf(sync[s].records, u)]
          /\ u \in Units /\ DataOf(sync[s].records, u) \in Data \ Uncatalogued
      BY <3>2, <3>3, <3>4 DEF Records
    <3>6. Said(sync[s].records[i], sync[s].stamp)
      BY <1>7 DEF FetchFresh
    <3>7. inv'[u] = [data |-> DataOf(sync[s].records, u), stamp |-> sync[s].stamp]
      BY <1>3, <2>1
    <3> QED BY <1>7, <3>5, <3>6, <3>7
  <2>2. CASE u \notin Seen(s)
    BY <1>3, <2>2 DEF SyncInv, RowsFresh
  <2> QED BY <2>1, <2>2
<1>9. RowsFresh'
  <2>1. ASSUME NEW u \in DOMAIN inv'
        PROVE  Said([unit |-> u, data |-> inv[u].data], inv[u].stamp)'
    <3>1. Said([unit |-> u, data |-> inv'[u].data], inv'[u].stamp)
      BY <1>3, <1>8
    <3>2. PICK at \in inv'[u].stamp..Now :
            \E k \in 1..Len(past[at]) : past[at][k] = [unit |-> u, data |-> inv'[u].data]
      BY <3>1 DEF Said
    <3> QED BY <1>1, <1>6, <3>2 DEF Said
  <2> QED BY <1>3, <1>6, <1>8, <2>1 DEF RowsFresh
<1>10. ASSUME NEW t \in Syncs PROVE FetchFresh(t)'
  <2>1. FetchFresh(t)
    BY DEF SyncInv
  <2>2. sync'[t].records = sync[t].records /\ sync'[t].stamp = sync[t].stamp
    BY <1>5
  <2>3. (\A i \in 1..Len(sync[t].records) : Said(sync[t].records[i], sync[t].stamp))'
    BY <1>1, <1>6, <2>1, <2>2 DEF FetchFresh, Said
  <2>4. CASE t = s
    BY <1>5, <1>6, <1>7, <2>3, <2>4 DEF FetchFresh
  <2>5. CASE t # s
    BY <1>5, <1>6, <2>1, <2>3, <2>5 DEF FetchFresh
  <2> QED BY <2>4, <2>5
<1>11. StampsApart'
  <2>1. StampsApart /\ sync[s].step # "waiting"
    BY <1>1 DEF SyncInv
  <2>2. ASSUME NEW t \in Syncs, NEW r \in Syncs, t # r, sync'[t].step # "waiting"
        PROVE  sync'[t].stamp # sync'[r].stamp
    BY <1>5, <2>1, <2>2 DEF StampsApart
  <2>3. ASSUME NEW u \in DOMAIN inv', NEW t \in Syncs, sync'[t].step # "done"
        PROVE  inv'[u].stamp # sync'[t].stamp
    <3>1. t # s /\ sync'[t] = sync[t]
      BY <1>5, <2>3
    <3> QED BY <1>3, <2>1, <2>3, <3>1 DEF StampsApart
  <2> QED BY <2>2, <2>3 DEF StampsApart
<1> QED BY <1>4, <1>5, <1>6, <1>9, <1>10, <1>11 DEF SyncInv, SyncTypes, Records, SyncSteps

LEMMA RefuseKeeps ==
  ASSUME SyncInv, NEW s \in Syncs, Refuse(s)
  PROVE  SyncInv'
<1>1. /\ held' \in {held} \cup {held \cup {u} : u \in Doomed(s)}
      /\ sync' = [sync EXCEPT ![s].step = "refused"] /\ UNCHANGED <<past, inv>>
      /\ sync[s].step = "fetched"
  BY DEF Refuse, Writable
<1>2. Doomed(s) \subseteq DOMAIN inv
  <2>1. ASSUME NEW u \in Doomed(s) PROVE u \in DOMAIN inv
    <3>1. u \in DOMAIN Upserted(s) /\ Upserted(s)[u].stamp < sync[s].stamp
      BY DEF Doomed, Outdated
    <3>2. u \in DOMAIN inv \cup Seen(s)
      BY <3>1 DEF Upserted
    <3>3. CASE u \in Seen(s)
      <4>1. Upserted(s)[u].stamp = sync[s].stamp
        BY <3>2, <3>3 DEF Upserted
      <4>2. sync[s].stamp \in Nat
        BY DEF SyncInv, SyncTypes
      <4> QED BY <3>1, <4>1, <4>2
    <3> QED BY <3>2, <3>3
  <2> QED BY <2>1
<1>3. held' \subseteq DOMAIN inv
  BY <1>1, <1>2 DEF SyncInv
<1>4. /\ sync' \in [Syncs -> SyncTypes] /\ \A t \in Syncs \ {s} : sync'[t] = sync[t]
      /\ sync'[s].step = "refused" /\ sync'[s].stamp = sync[s].stamp
      /\ sync'[s].records = sync[s].records
  BY <1>1 DEF SyncInv, SyncTypes, SyncSteps
<1>5. \A i \in 1..Len(sync[s].records) : Said(sync[s].records[i], sync[s].stamp)
  BY DEF SyncInv, FetchFresh
<1> QED BY <1>1, <1>3, <1>4, <1>5, OnTheWayKeeps DEF Active

LEMMA FailKeeps ==
  ASSUME SyncInv, NEW s \in Syncs, Fail(s)
  PROVE  SyncInv'
<1>1. sync' = [sync EXCEPT ![s].step = "failed"] /\ UNCHANGED <<past, inv, held>> /\ Active(s)
  BY DEF Fail
<1>2. /\ sync' \in [Syncs -> SyncTypes] /\ \A t \in Syncs \ {s} : sync'[t] = sync[t]
      /\ sync'[s].step = "failed" /\ sync'[s].stamp = sync[s].stamp
      /\ sync'[s].records = sync[s].records
  BY <1>1 DEF SyncInv, SyncTypes, SyncSteps
<1>3. held' \subseteq DOMAIN inv
  BY <1>1 DEF SyncInv
<1>4. \A i \in 1..Len(sync[s].records) : Said(sync[s].records[i], sync[s].stamp)
  BY DEF SyncInv, FetchFresh
<1> QED BY <1>1, <1>2, <1>3, <1>4, OnTheWayKeeps

LEMMA SyncKeeps == SyncInv /\ [SyncNext]_syncVars => SyncInv'
<1> SUFFICES ASSUME SyncInv, [SyncNext]_syncVars PROVE SyncInv'
  OBVIOUS
<1>1. CASE ErpMoves
  BY <1>1, ErpMovesKeeps
<1>2. CASE TakeUp
  <2>1. UNCHANGED <<past, inv, sync>> /\ held' \subseteq DOMAIN inv
    BY <1>2 DEF TakeUp, SyncInv
  <2> QED BY <2>1, HeldKeeps
<1>3. CASE LetGo
  <2>1. UNCHANGED <<past, inv, sync>> /\ held' \subseteq DOMAIN inv
    BY <1>3 DEF LetGo, SyncInv
  <2> QED BY <2>1, HeldKeeps
<1>4. CASE \E s \in Syncs : Start(s)
  BY <1>4, StartKeeps
<1>5. CASE \E s \in Syncs : Count(s)
  BY <1>5, CountKeeps
<1>6. CASE \E s \in Syncs : FetchPage(s)
  BY <1>6, FetchPageKeeps
<1>7. CASE \E s \in Syncs : Write(s)
  BY <1>7, WriteKeeps
<1>8. CASE \E s \in Syncs : Refuse(s)
  BY <1>8, RefuseKeeps
<1>9. CASE \E s \in Syncs : Fail(s)
  BY <1>9, FailKeeps
<1>10. CASE UNCHANGED syncVars
  <2>1. UNCHANGED <<past, inv, sync>> /\ held' \subseteq DOMAIN inv
    BY <1>10 DEF syncVars, SyncInv
  <2> QED BY <2>1, HeldKeeps
<1> QED
  BY <1>1, <1>2, <1>3, <1>4, <1>5, <1>6, <1>7, <1>8, <1>9, <1>10 DEF SyncNext, SyncStep

\* In every state of a sync: what has been fetched is what the ERP said since the sync began.
THEOREM SyncHolds == SyncSpec => []SyncInv
<1>1. SyncInit => SyncInv
  BY SyncStarts
<1>2. SyncInv /\ [SyncNext]_syncVars => SyncInv'
  BY SyncKeeps
<1> QED BY <1>1, <1>2, PTL DEF SyncSpec

----------------------------------------------------------------------------
(***************************************************************************)
(* What the invariant gives.                                               *)
(***************************************************************************)

\* The variables of the inventory and its syncs keep their types.
THEOREM SyncTypeCorrect == SyncSpec => []SyncTypeOK
<1>1. SyncInv => SyncTypeOK
  <2> SUFFICES ASSUME SyncInv PROVE SyncTypeOK
    OBVIOUS
  <2>1. past \in Seq(Seq(Records)) /\ Now \in Nat /\ DOMAIN past = 1..Now
    BY LenProperties DEF SyncInv, PastTyped, Now
  <2>2. ASSUME NEW t \in DOMAIN past
        PROVE  /\ past[t] \in Seq(Records)
               /\ IsInjective([i \in DOMAIN past[t] |-> past[t][i].unit])
    <3>1. past[t] \in Seq(Records) /\ OneEach(past[t])
      BY <2>1, ElementOfSeq DEF SyncInv, PastTyped, Now
    <3>2. DOMAIN past[t] = 1..Len(past[t])
      BY <3>1, LenProperties
    <3> QED BY <3>1, <3>2 DEF OneEach, IsInjective
  <2>3. /\ DOMAIN inv \subseteq Units
        /\ \A u \in DOMAIN inv : inv[u] \in [data : Data \ Uncatalogued, stamp : 1..Now]
        /\ held \subseteq DOMAIN inv
    BY DEF SyncInv, RowsFresh
  <2>4. sync \in [Syncs -> [step : SyncSteps, limit : Limits \cup {NoLimit}, stamp : 0..Now,
                            total : Nat, records : Seq(Records)]]
    <3>1. sync \in [Syncs -> SyncTypes] /\ \A s \in Syncs : sync[s].stamp \in 0..Now
      BY DEF SyncInv, FetchFresh
    <3>2. ASSUME NEW s \in Syncs
          PROVE  sync[s] \in [step : SyncSteps, limit : Limits \cup {NoLimit}, stamp : 0..Now,
                              total : Nat, records : Seq(Records)]
      <4>1. sync[s] \in SyncTypes /\ sync[s].stamp \in 0..Now
        BY <3>1
      <4> QED BY <4>1 DEF SyncTypes
    <3> QED BY <3>1, <3>2
  <2> QED BY <2>2, <2>3, <2>4 DEF SyncTypeOK, Records
<1> QED BY <1>1, SyncHolds, PTL

\* A row is as fresh as its source_synced_at says, however many syncs overlap, fail or are
\* refused, and however the ERP's list shifts under their pages.
THEOREM RowsAreFresh == SyncSpec => []FreshAsStamped
<1>1. SyncInv => FreshAsStamped
  <2> SUFFICES ASSUME SyncInv, NEW u \in DOMAIN inv
               PROVE  \E t \in inv[u].stamp..Now :
                        u \in UnitsIn(past[t]) /\ DataOf(past[t], u) = inv[u].data
    BY DEF FreshAsStamped
  <2>1. past \in Seq(Seq(Records)) /\ Now \in Nat /\ inv[u].stamp \in 1..Now
    BY LenProperties DEF SyncInv, PastTyped, Now, RowsFresh
  <2>2. PICK t \in inv[u].stamp..Now :
          \E k \in 1..Len(past[t]) : past[t][k] = [unit |-> u, data |-> inv[u].data]
    BY DEF SyncInv, RowsFresh, Said
  <2>3. PICK k \in 1..Len(past[t]) : past[t][k] = [unit |-> u, data |-> inv[u].data]
    BY <2>2
  <2>4. t \in 1..Now /\ past[t] \in Seq(Records) /\ OneEach(past[t])
    <3>1. t \in 1..Now
      BY <2>1
    <3> QED BY <2>1, <3>1, ElementOfSeq DEF SyncInv, PastTyped, Now
  <2>5. u \in UnitsIn(past[t])
    BY <2>3, <2>4, LenProperties DEF UnitsIn
  <2>6. PICK i \in 1..Len(past[t]) :
          past[t][i].unit = u /\ past[t][i].data = DataOf(past[t], u)
    BY <2>4, <2>5, DataIsARecords
  <2>7. i = k
    BY <2>3, <2>4, <2>6 DEF OneEach
  <2> QED BY <2>2, <2>3, <2>5, <2>6, <2>7
<1> QED BY <1>1, SyncHolds, PTL

\* No unit that was held when a sync went to prune stops the sync.
THEOREM HeldStopNone == SyncSpec => HeldUnitsStopNoSync
<1> DEFINE Stopped == \A s \in Syncs :
      sync[s].step # "refused" /\ sync'[s].step = "refused" => held' # held
<1>1. SyncInv /\ [SyncNext]_syncVars => [Stopped]_syncVars
  <2> SUFFICES ASSUME SyncInv, SyncNext, NEW s \in Syncs,
                      sync[s].step # "refused", sync'[s].step = "refused"
               PROVE  held' # held
    BY DEF syncVars
  <2>1. sync \in [Syncs -> SyncTypes]
    BY DEF SyncInv
  <2>2. ~ UNCHANGED sync
    OBVIOUS
  <2>3. PICK r \in Syncs : Start(r) \/ SyncStep(r) \/ Fail(r)
    BY <2>2 DEF SyncNext, ErpMoves, TakeUp, LetGo
  <2>4. ASSUME NEW step \in SyncSteps \ {"refused"}, sync'[r].step = step,
               \A t \in Syncs \ {r} : sync'[t] = sync[t]
        PROVE  FALSE
    BY <2>4
  <2>5. ~ Start(r)
    BY ZenonT(40), <2>1, <2>4 DEF Start, SyncTypes, SyncSteps
  <2>6. ~ Count(r) /\ ~ FetchPage(r)
    BY <2>1, <2>4 DEF Count, FetchPage, Paged, SyncTypes, SyncSteps
  <2>7. ~ Write(r)
    BY <2>1, <2>4 DEF Write, SyncTypes, SyncSteps
  <2>8. ~ Fail(r)
    BY <2>1, <2>4 DEF Fail, SyncTypes, SyncSteps
  <2>9. Refuse(r)
    BY <2>3, <2>5, <2>6, <2>7, <2>8 DEF SyncStep
  <2> QED BY <2>9 DEF Refuse, Doomed
<1>2. SyncSpec => [][Stopped]_syncVars
  BY <1>1, SyncHolds, PTL DEF SyncSpec
<1> QED BY <1>2 DEF HeldUnitsStopNoSync

----------------------------------------------------------------------------
(***************************************************************************)
(* A quiet ERP.                                                            *)
(***************************************************************************)

\* While the ERP has been quiet, a sync of everything has fetched the start of its list.
QuietSoFar(s) ==
  /\ sync[s].step \in {"paging", "fetched"} /\ sync[s].limit = NoLimit /\ QuietSince(sync[s].stamp)
  => /\ sync[s].total = Len(erp) /\ Len(sync[s].records) <= Len(erp)
     /\ \A i \in 1..Len(sync[s].records) : sync[s].records[i] = erp[i]
     /\ sync[s].step = "fetched" => Len(sync[s].records) = Len(erp)

\* The ERP has been quiet before it is quiet now.
LEMMA QuietBefore ==
  ASSUME SyncInv, NEW list \in Seq(Records), past' = Append(past, list), NEW t \in 1..Now,
         QuietSince(t)'
  PROVE  erp' = erp /\ QuietSince(t)
<1>1. past \in Seq(Seq(Records)) /\ Now \in Nat \ {0} /\ erp = past[Now]
  BY ErpTyped DEF SyncInv, PastTyped
<1>2. Now' = Now + 1 /\ \A at \in 1..Now : past'[at] = past[at]
  BY <1>1, AppendProperties DEF Now
<1>3. \A later \in t..Now' : past'[later] = erp'
  BY DEF QuietSince, Now, erp
<1>4. past'[Now] = erp'
  <2>1. Now \in t..Now'
    BY <1>1, <1>2
  <2> QED BY <1>3, <2>1
<1>5. erp' = erp
  <2>1. Now \in 1..Now
    BY <1>1
  <2> QED BY <1>1, <1>2, <1>4, <2>1
<1>6. ASSUME NEW later \in t..Now PROVE past[later] = erp
  <2>1. later \in 1..Now /\ later \in t..Now'
    BY <1>1, <1>2
  <2> QED BY <1>2, <1>3, <1>5, <2>1
<1> QED BY <1>5, <1>6 DEF QuietSince

\* A sync that does not step keeps what it has fetched of a quiet ERP.
LEMMA QuietWaits ==
  ASSUME SyncInv, NEW s \in Syncs, QuietSoFar(s), sync'[s] = sync[s],
         \/ past' = past
         \/ \E list \in Seq(Records) : past' = Append(past, list)
  PROVE  QuietSoFar(s)'
<1>1. CASE past' = past
  BY <1>1 DEF QuietSoFar, QuietSince, Now, erp
<1>2. CASE \E list \in Seq(Records) : past' = Append(past, list)
  <2> SUFFICES ASSUME sync[s].step \in {"paging", "fetched"}, sync[s].limit = NoLimit,
                      (QuietSince(sync[s].stamp))'
               PROVE  (/\ sync[s].total = Len(erp) /\ Len(sync[s].records) <= Len(erp)
                       /\ \A i \in 1..Len(sync[s].records) : sync[s].records[i] = erp[i]
                       /\ sync[s].step = "fetched" => Len(sync[s].records) = Len(erp))'
    BY DEF QuietSoFar
  <2>1. sync[s].stamp \in 1..Now
    BY ErpTyped DEF SyncInv, FetchFresh
  <2> DEFINE stamp == sync[s].stamp
  <2>2. (QuietSince(stamp))' <=> \A later \in stamp..Now' : past'[later] = erp'
    BY DEF QuietSince
  <2>3. \A t \in 1..Now : (\A later \in t..Now' : past'[later] = erp') =>
          erp' = erp /\ QuietSince(t)
    BY <1>2, QuietBefore DEF QuietSince
  <2>4. erp' = erp /\ QuietSince(stamp)
    BY <2>1, <2>2, <2>3
  <2> QED BY <2>4 DEF QuietSoFar
<1> QED BY <1>1, <1>2

\* A sync that counts or fetches a page.
LEMMA QuietPaged ==
  ASSUME SyncInv, NEW s \in Syncs, NEW records \in Seq(Records), NEW total \in Nat, NEW batch,
         Paged(s, records, total, batch), UNCHANGED past,
         sync[s].limit = NoLimit /\ QuietSince(sync[s].stamp) =>
           /\ total = Len(erp) /\ Len(records) <= Len(erp)
           /\ \A i \in 1..Len(records) : records[i] = erp[i]
           /\ batch = <<>> => Len(records) = Len(erp)
  PROVE  QuietSoFar(s)'
<1>1. /\ sync'[s].stamp = sync[s].stamp /\ sync'[s].limit = sync[s].limit
      /\ sync'[s].records = records /\ sync'[s].total = total
      /\ sync'[s].step = IF batch = <<>> \/ Len(records) >= total THEN "fetched" ELSE "paging"
  BY WhatPagedDoes
<1>2. erp' = erp /\ (QuietSince(sync[s].stamp))' = QuietSince(sync[s].stamp)
  BY <1>1 DEF erp, QuietSince, Now
<1>3. Len(records) \in Nat /\ Len(erp) \in Nat
  <2>1. erp \in Seq(Records)
    BY ErpTyped DEF SyncInv
  <2> QED BY <2>1, LenProperties
<1> QED BY <1>1, <1>2, <1>3 DEF QuietSoFar

LEMMA QuietKeeps ==
  SyncInv /\ (\A s \in Syncs : QuietSoFar(s)) /\ [SyncNext]_syncVars
    => (\A s \in Syncs : QuietSoFar(s))'
<1> SUFFICES ASSUME SyncInv, NEW s \in Syncs, QuietSoFar(s), [SyncNext]_syncVars
             PROVE  QuietSoFar(s)'
  OBVIOUS
<1>1. sync \in [Syncs -> SyncTypes]
  BY DEF SyncInv
<1>2. erp \in Seq(Records) /\ Len(erp) \in Nat
  BY ErpTyped, LenProperties DEF SyncInv
<1>3. CASE sync'[s] = sync[s]
  <2>1. past' = past \/ \E list \in Seq(Records) : past' = Append(past, list)
    <3>1. CASE ErpMoves
      BY <3>1, MovesList DEF ErpMoves, SyncInv
    <3>2. CASE \E r \in Syncs : Start(r)
      BY <1>2, <3>2 DEF Start
    <3>3. CASE ~ ErpMoves /\ ~ \E r \in Syncs : Start(r)
      BY <3>3 DEF SyncNext, TakeUp, LetGo, SyncStep, Count, FetchPage, Write, Refuse, Fail, syncVars
    <3> QED BY <3>1, <3>2, <3>3
  <2> QED BY <1>3, <2>1, QuietWaits
<1>4. CASE Count(s)
  <2> DEFINE limit == sync[s].limit
             total == IF limit = NoLimit THEN Len(erp) ELSE AtMost(Len(erp), limit)
  <2>1. Paged(s, <<>>, total, erp) /\ UNCHANGED past
    BY <1>4 DEF Count
  <2>2. total \in Nat
    <3>1. limit \in Limits \cup {NoLimit}
      BY <1>1 DEF SyncTypes
    <3>2. limit = NoLimit \/ limit \in Nat
      BY <3>1, SyncAssumption DEF SyncAssumption
    <3> QED BY <1>2, <3>2 DEF AtMost
  <2>3. <<>> \in Seq(Records) /\ Len(<<>>) = 0
    BY EmptySeq
  <2>4. limit = NoLimit => total = Len(erp)
    OBVIOUS
  <2> HIDE DEF total
  <2>5. sync[s].limit = NoLimit /\ QuietSince(sync[s].stamp) =>
           /\ total = Len(erp) /\ Len(<<>>) <= Len(erp)
           /\ \A i \in 1..Len(<<>>) : <<>>[i] = erp[i]
           /\ erp = <<>> => Len(<<>>) = Len(erp)
    BY <1>2, <2>3, <2>4
  <2> QED BY <2>1, <2>2, <2>3, <2>5, QuietPaged
<1>5. CASE FetchPage(s)
  <2> DEFINE old == sync[s].records
             page == PageOf(s)
             new == old \o page
             skip == Len(old)
             take == AtMost(PageSize, sync[s].total - skip)
             end == AtMost(skip + take, Len(erp))
  <2>1. /\ Paged(s, new, sync[s].total, page) /\ UNCHANGED past /\ sync[s].step = "paging"
    BY <1>5 DEF FetchPage
  <2>2. /\ skip \in Nat /\ take \in Nat \ {0} /\ skip + take <= sync[s].total
        /\ page \in Seq(Records) /\ Len(page) = IF skip < end THEN end - skip ELSE 0
        /\ \A k \in 1..Len(page) : skip + k \in 1..Len(erp) /\ page[k] = erp[skip + k]
    BY <2>1, PageOfErp
  <2>3. old \in Seq(Records) /\ sync[s].total \in Nat /\ Len(page) \in Nat
    BY <1>1, <2>2, LenProperties DEF SyncTypes
  <2>4. /\ new \in Seq(Records) /\ Len(new) = skip + Len(page)
        /\ \A i \in 1..skip + Len(page) : new[i] = IF i <= skip THEN old[i] ELSE page[i - skip]
    BY ZenonT(40), <2>2, <2>3, ConcatProperties
  <2>5. ASSUME sync[s].limit = NoLimit, QuietSince(sync[s].stamp)
        PROVE  /\ sync[s].total = Len(erp)
               /\ \A i \in 1..skip : old[i] = erp[i]
    BY <2>1, <2>5 DEF QuietSoFar
  <2> HIDE DEF old, page, new, skip, take
  <2>6. ASSUME sync[s].limit = NoLimit, QuietSince(sync[s].stamp)
        PROVE  /\ sync[s].total = Len(erp) /\ Len(new) <= Len(erp)
               /\ \A i \in 1..Len(new) : new[i] = erp[i]
               /\ page = <<>> => Len(new) = Len(erp)
    <3>1. end = skip + take
      <4>1. end = IF skip + take < Len(erp) THEN skip + take ELSE Len(erp)
        BY DEF AtMost
      <4>2. sync[s].total = Len(erp)
        BY <2>5, <2>6
      <4> HIDE DEF end
      <4>3. skip + take \in Nat /\ skip + take <= sync[s].total
        BY <2>2
      <4> QED BY <1>2, <4>1, <4>2, <4>3
    <3> HIDE DEF end
    <3>2. Len(page) = take /\ page # <<>>
      BY <2>2, <3>1
    <3>3. ASSUME NEW i \in 1..Len(new) PROVE new[i] = erp[i]
      <4>1. CASE i <= skip
        <5>1. new[i] = old[i] /\ i \in 1..skip
          BY <2>2, <2>3, <2>4, <4>1
        <5> QED BY <2>5, <2>6, <5>1
      <4>2. CASE i > skip
        <5>1. new[i] = page[i - skip] /\ i - skip \in 1..Len(page) /\ skip + (i - skip) = i
          BY <2>2, <2>3, <2>4, <4>2
        <5> QED BY <2>2, <5>1
      <4> QED BY <2>2, <2>3, <2>4, <4>1, <4>2
    <3> QED BY <2>2, <2>4, <2>5, <2>6, <3>2, <3>3
  <2> QED BY <2>1, <2>3, <2>4, <2>6, QuietPaged
<1>6. ASSUME sync'[s].step \notin {"paging", "fetched"} PROVE QuietSoFar(s)'
  BY <1>6 DEF QuietSoFar
<1>7. Start(s) \/ Write(s) \/ Refuse(s) \/ Fail(s) => sync'[s].step \notin {"paging", "fetched"}
  <2>1. Start(s) => sync'[s].step = "counting"
    BY <1>1 DEF Start, SyncTypes
  <2>2. Write(s) => sync'[s].step = "done"
    BY <1>1 DEF Write, SyncTypes
  <2>3. Refuse(s) => sync'[s].step = "refused"
    BY <1>1 DEF Refuse, SyncTypes
  <2>4. Fail(s) => sync'[s].step = "failed"
    BY <1>1 DEF Fail, SyncTypes
  <2> QED BY <2>1, <2>2, <2>3, <2>4
<1>8. \/ sync'[s] = sync[s] \/ Count(s) \/ FetchPage(s)
      \/ Start(s) \/ Write(s) \/ Refuse(s) \/ Fail(s)
  <2>1. CASE \E r \in Syncs : Start(r) \/ SyncStep(r) \/ Fail(r)
    <3>1. PICK r \in Syncs : Start(r) \/ SyncStep(r) \/ Fail(r)
      BY <2>1
    <3>2. r # s => sync'[s] = sync[s]
      BY <1>1, <3>1 DEF Start, SyncStep, Count, FetchPage, Paged, Write, Refuse, Fail
    <3> QED BY <3>1, <3>2 DEF SyncStep
  <2>2. CASE ~ \E r \in Syncs : Start(r) \/ SyncStep(r) \/ Fail(r)
    BY <2>2 DEF SyncNext, ErpMoves, TakeUp, LetGo, syncVars
  <2> QED BY <2>1, <2>2
<1> QED BY <1>3, <1>4, <1>5, <1>6, <1>7, <1>8

\* A sync of everything, while nothing moves in the ERP, leaves the ERP's list: each unit with
\* what the ERP says of it, and no other but those held and those a later sync has written.
THEOREM QuietIsMirrored == SyncSpec => MirrorsAQuietERP
<1> DEFINE QuietInv == SyncInv /\ \A s \in Syncs : QuietSoFar(s)
           Mirrored == \A s \in Syncs :
             /\ sync[s].step # "done" /\ sync'[s].step = "done"
             /\ sync[s].limit = NoLimit /\ QuietSince(sync[s].stamp)
             => /\ \A u \in UnitsIn(erp) : u \in DOMAIN inv' /\ inv'[u].data = DataOf(erp, u)
                /\ \A u \in DOMAIN inv' \ UnitsIn(erp) :
                     u \in held \/ inv'[u].stamp > sync[s].stamp
<1>1. SyncInit => QuietInv
  <2>1. SyncInit => \A s \in Syncs : sync[s].step = "waiting"
    BY DEF SyncInit, NotStarted
  <2> QED BY <2>1, SyncStarts DEF QuietSoFar
<1>2. QuietInv /\ [SyncNext]_syncVars => QuietInv'
  BY SyncKeeps, QuietKeeps
<1>3. QuietInv /\ [SyncNext]_syncVars => [Mirrored]_syncVars
  <2> SUFFICES ASSUME SyncInv, NEW s \in Syncs, QuietSoFar(s), SyncNext,
                      sync[s].step # "done", sync'[s].step = "done",
                      sync[s].limit = NoLimit, QuietSince(sync[s].stamp)
               PROVE  /\ \A u \in UnitsIn(erp) : u \in DOMAIN inv' /\ inv'[u].data = DataOf(erp, u)
                      /\ \A u \in DOMAIN inv' \ UnitsIn(erp) :
                           u \in held \/ inv'[u].stamp > sync[s].stamp
    OBVIOUS
  <2>1. sync \in [Syncs -> SyncTypes]
    BY DEF SyncInv
  <2>2. Write(s)
    <3>1. PICK r \in Syncs : Start(r) \/ SyncStep(r) \/ Fail(r)
      BY DEF SyncNext, ErpMoves, TakeUp, LetGo
    <3>2. r = s
      BY <2>1, <3>1 DEF Start, SyncStep, Count, FetchPage, Paged, Write, Refuse, Fail
    <3>3. ~ Start(s) /\ ~ Fail(s) /\ ~ Refuse(s)
      <4>1. Start(s) => sync'[s].step = "counting"
        BY <2>1 DEF Start, SyncTypes
      <4>2. Refuse(s) => sync'[s].step = "refused"
        BY <2>1 DEF Refuse, SyncTypes
      <4>3. Fail(s) => sync'[s].step = "failed"
        BY <2>1 DEF Fail, SyncTypes
      <4> QED BY <4>1, <4>2, <4>3
    <3>4. ~ Count(s) /\ ~ FetchPage(s)
      BY <2>1 DEF Count, FetchPage, Paged, SyncTypes
    <3> QED BY <3>1, <3>2, <3>3, <3>4 DEF SyncStep
  <2>3. sync[s].step = "fetched" /\ UNCHANGED held
    BY <2>2 DEF Write, Writable
  <2>4. sync[s].records = erp
    <3>1. sync[s].records \in Seq(Records) /\ erp \in Seq(Records)
      BY <2>1, ErpTyped DEF SyncInv, SyncTypes
    <3>2. /\ Len(sync[s].records) = Len(erp)
          /\ \A i \in 1..Len(sync[s].records) : sync[s].records[i] = erp[i]
      BY <2>3 DEF QuietSoFar
    <3> QED BY <3>1, <3>2, SeqEqual
  <2>5. Seen(s) = UnitsIn(erp)
    BY <2>4 DEF Seen
  <2>6. /\ DOMAIN Upserted(s) = DOMAIN inv \cup UnitsIn(erp)
        /\ \A u \in DOMAIN inv \cup UnitsIn(erp) : Upserted(s)[u] =
             IF u \in UnitsIn(erp) THEN [data |-> DataOf(erp, u), stamp |-> sync[s].stamp]
             ELSE inv[u]
    BY <2>4, <2>5 DEF Upserted
  <2>7. /\ DOMAIN inv' = DOMAIN Upserted(s) \ Doomed(s)
        /\ \A u \in DOMAIN inv' : inv'[u] = Upserted(s)[u]
    BY <2>2 DEF Write, Restrict
  <2>8. sync[s].stamp \in Nat
    BY <2>1 DEF SyncTypes
  <2>9. ASSUME NEW u \in UnitsIn(erp)
        PROVE  u \in DOMAIN inv' /\ inv'[u].data = DataOf(erp, u)
    <3>1. Upserted(s)[u].stamp = sync[s].stamp /\ Upserted(s)[u].data = DataOf(erp, u)
      <4>1. Upserted(s)[u] = [data |-> DataOf(erp, u), stamp |-> sync[s].stamp]
        BY <2>6
      <4> QED BY <4>1
    <3>2. u \notin Doomed(s)
      BY <2>8, <3>1 DEF Doomed, Outdated
    <3> QED BY <2>6, <2>7, <3>1, <3>2
  <2>10. ASSUME NEW u \in DOMAIN inv' \ UnitsIn(erp), u \notin held
         PROVE  inv'[u].stamp > sync[s].stamp
    <3>1. u \in DOMAIN inv /\ inv'[u] = inv[u] /\ Upserted(s)[u] = inv[u]
      BY <2>6, <2>7
    <3>2. u \notin Doomed(s) /\ u \in DOMAIN Upserted(s)
      BY <2>7
    <3>3. ~ (inv[u].stamp < sync[s].stamp)
      BY <2>10, <3>1, <3>2 DEF Doomed, Outdated
    <3>4. inv[u].stamp \in 1..Now
      BY <3>1 DEF SyncInv, RowsFresh
    <3>5. inv[u].stamp # sync[s].stamp
      BY <3>1 DEF SyncInv, StampsApart
    <3>6. Now \in Nat
      BY ErpTyped DEF SyncInv
    <3> QED BY <2>8, <3>1, <3>3, <3>4, <3>5, <3>6
  <2> QED BY <2>9, <2>10
<1> HIDE DEF QuietInv
<1>4. SyncSpec => [][Mirrored]_syncVars
  BY <1>1, <1>2, <1>3, PTL DEF SyncSpec
<1> QED BY <1>4 DEF MirrorsAQuietERP
=============================================================================
