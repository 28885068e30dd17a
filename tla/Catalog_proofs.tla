--------------------------- MODULE Catalog_proofs ---------------------------
(***************************************************************************)
(* Proofs about model_size_catalog, for any models, sources and numbers of *)
(* rows, pages and limits: what a row holds is its model's own, what is    *)
(* once known stays known, and a campaign of feed runs misses no model.    *)
(*                                                                         *)
(* The inductive invariant is CatalogInv.  That rows hold their own is not *)
(* inductive: size_tiers writes tiers of heights it has read before, so    *)
(* those must be the models' own as well.  CampaignIsAhead says where in   *)
(* the order of model numbers the models are that a campaign has yet to    *)
(* ask for.                                                                *)
(***************************************************************************)
EXTENDS Catalog, FiniteSetTheorems, SequenceTheorems, WellFoundedInduction, TLAPS

\* What the columns of model m can be.
OwnRow(m) ==
  [width  : {NameWidth[m], Unknown} \cup {d.width : d \in PageSays[m] \cup FeedSays[m]},
   height : Heights(m) \cup {Unknown},
   carton : {d.carton : d \in FeedSays[m]} \cup {Unknown},
   tier   : {TierOf(h) : h \in Heights(m)} \cup {Unknown},
   row    : Places \cup {Unknown},
   count  : Places \cup {Unknown}]

RowsAreOwn == \A m \in DOMAIN catalog : catalog[m] \in OwnRow(m)

MetaTyped ==
  /\ meta.step \in {"idle", "paging", "fetched", "rows", "counts"}
  /\ meta.total \in Nat
  /\ meta.records \in Seq(Models \cup {Nameless})
  /\ \A m \in DOMAIN meta.stats : meta.stats[m] \in Places
  /\ DOMAIN meta = {"step", "limit", "total", "records", "stats"}

FetchesTyped ==
  /\ pages \in [refetch : BOOLEAN, asked : SUBSET DOMAIN catalog]
  /\ feed \in [asked : SUBSET DOMAIN catalog, offset : Nat, met : SUBSET DOMAIN catalog,
               since : SUBSET DOMAIN catalog]
  /\ DOMAIN tiers \subseteq DOMAIN catalog
  /\ \A m \in DOMAIN tiers : tiers[m] \in Heights(m)

CatalogInv ==
  /\ listed \in Seq(Models \cup {Nameless})
  /\ DOMAIN catalog \subseteq Models
  /\ RowsAreOwn /\ MetaTyped /\ FetchesTyped

----------------------------------------------------------------------------
\* There are five tiers.
LEMMA TierTyped == \A h : TierOf(h) \in 1..5
<1> DEFINE limits(h) == {limit \in {12, 24, 52, 68} : h >= limit}
<1>1. IsFiniteSet({12, 24, 52, 68}) /\ Cardinality({12, 24, 52, 68}) = 4
  <2>1. IsFiniteSet({12}) /\ Cardinality({12}) = 1
    BY FS_Singleton
  <2>2. IsFiniteSet({12} \cup {24}) /\ Cardinality({12} \cup {24}) = 2
    BY <2>1, FS_AddElement
  <2>3. IsFiniteSet({12} \cup {24} \cup {52}) /\ Cardinality({12} \cup {24} \cup {52}) = 3
    BY <2>2, FS_AddElement
  <2>4. /\ IsFiniteSet({12} \cup {24} \cup {52} \cup {68})
        /\ Cardinality({12} \cup {24} \cup {52} \cup {68}) = 4
    BY <2>3, FS_AddElement
  <2>5. {12, 24, 52, 68} = {12} \cup {24} \cup {52} \cup {68}
    OBVIOUS
  <2> QED BY <2>4, <2>5
<1>2. TAKE h
<1>3. limits(h) \in SUBSET {12, 24, 52, 68}
  OBVIOUS
<1>4. IsFiniteSet(limits(h)) /\ Cardinality(limits(h)) <= 4
  BY <1>1, <1>3, FS_Subset
<1>5. Cardinality(limits(h)) \in Nat
  BY <1>4, FS_CardinalityType
<1> QED BY <1>4, <1>5 DEF TierOf

\* The sources say numbers or nothing.
LEMMA SourcesTyped ==
  ASSUME NEW m \in Models
  PROVE  /\ NameWidth[m] \in Nat \cup {Unknown}
         /\ \A d \in PageSays[m] : d \in Dims /\ d.carton = Unknown
         /\ \A d \in FeedSays[m] : d \in Dims
         /\ Heights(m) \subseteq Nat
<1>1. PageSays[m] \subseteq Dims /\ FeedSays[m] \subseteq Dims /\ NameWidth[m] \in Nat \cup {Unknown}
      /\ \A d \in PageSays[m] : d.carton = Unknown
  BY CatalogAssumption DEF CatalogAssumption
<1>2. \A d \in Dims : d.height \in Nat \cup {Unknown}
  BY DEF Dims
<1> QED BY <1>1, <1>2 DEF Heights

\* A row that holds its model's own is well typed.
LEMMA OwnRowTyped ==
  ASSUME NEW m \in Models, NEW r \in OwnRow(m)
  PROVE  r \in [width : Nat \cup {Unknown}, height : Nat \cup {Unknown},
                carton : Nat \cup {Unknown}, tier : 1..5 \cup {Unknown},
                row : Places \cup {Unknown}, count : Places \cup {Unknown}]
<1>1. r.width \in Nat \cup {Unknown}
  BY SourcesTyped DEF OwnRow, Dims
<1>2. r.height \in Nat \cup {Unknown}
  BY SourcesTyped DEF OwnRow
<1>3. r.carton \in Nat \cup {Unknown}
  BY SourcesTyped DEF OwnRow, Dims
<1>4. r.tier \in 1..5 \cup {Unknown}
  BY TierTyped DEF OwnRow
<1> QED BY <1>1, <1>2, <1>3, <1>4 DEF OwnRow

\* An answer is of a model that was asked for, and says what the source says of it.
LEMMA RepliesAreTheirOwn ==
  ASSUME NEW asked, NEW said, NEW got \in Replies(asked, said)
  PROVE  DOMAIN got \subseteq asked /\ \A m \in DOMAIN got : got[m] \in said[m]
  BY DEF Replies

\* update_dims writes the models' own on their own.
LEMMA UpdateKeepsOwn ==
  ASSUME CatalogInv, NEW got, catalog' = UpdateDims(got),
         \A m \in DOMAIN got \cap Models : got[m] \in PageSays[m] \cup FeedSays[m]
  PROVE  DOMAIN catalog' = DOMAIN catalog /\ RowsAreOwn'
<1>1. DOMAIN catalog' = DOMAIN catalog
  BY DEF UpdateDims
<1>2. ASSUME NEW m \in DOMAIN catalog PROVE catalog'[m] \in OwnRow(m)
  <2>1. catalog[m] \in OwnRow(m) /\ m \in Models
    BY DEF CatalogInv, RowsAreOwn
  <2>2. CASE m \notin DOMAIN got
    BY <2>1, <2>2 DEF UpdateDims
  <2>3. CASE m \in DOMAIN got
    <3>1. catalog'[m] = [catalog[m] EXCEPT !.width = Else(got[m].width, catalog[m].width),
                                          !.height = Else(got[m].height, catalog[m].height),
                                          !.carton = Else(got[m].carton, catalog[m].carton)]
      BY <2>3 DEF UpdateDims
    <3>2. got[m] \in PageSays[m] \cup FeedSays[m]
      BY <2>1, <2>3
    <3>3. Else(got[m].width, catalog[m].width)
            \in {NameWidth[m], Unknown} \cup {d.width : d \in PageSays[m] \cup FeedSays[m]}
      BY <2>1, <3>2 DEF Else, OwnRow
    <3>4. Else(got[m].height, catalog[m].height) \in Heights(m) \cup {Unknown}
      BY <2>1, <3>2 DEF Else, OwnRow, Heights
    <3>5. Else(got[m].carton, catalog[m].carton)
            \in {d.carton : d \in FeedSays[m]} \cup {Unknown}
      BY <2>1, <3>2, SourcesTyped DEF Else, OwnRow
    <3> QED BY <2>1, <3>1, <3>3, <3>4, <3>5 DEF OwnRow
  <2> QED BY <2>2, <2>3
<1> QED BY <1>1, <1>2 DEF RowsAreOwn

\* The fetches ask for models that have a row; rows are never deleted.
LEMMA FetchesKept ==
  ASSUME FetchesTyped, DOMAIN catalog \subseteq DOMAIN catalog', UNCHANGED <<pages, feed, tiers>>
  PROVE  FetchesTyped'
  BY DEF FetchesTyped

LEMMA CatalogStarts == CatalogInit => CatalogInv
<1> SUFFICES ASSUME CatalogInit PROVE CatalogInv
  OBVIOUS
<1>1. listed \in Seq(Models \cup {Nameless})
  BY CatalogAssumption DEF CatalogInit, CatalogAssumption
<1>2. DOMAIN catalog = {}
  BY DEF CatalogInit
<1>3. MetaTyped
  BY DEF CatalogInit, MetaIdle, MetaTyped
<1>4. FetchesTyped
  BY <1>2 DEF CatalogInit, PagesIdle, FeedIdle, NoHeights, FetchesTyped
<1> QED BY <1>1, <1>2, <1>3, <1>4 DEF CatalogInv, RowsAreOwn

----------------------------------------------------------------------------
LEMMA ModelComesKeeps == CatalogInv /\ ModelComes => CatalogInv'
<1> SUFFICES ASSUME CatalogInv, ModelComes PROVE CatalogInv'
  OBVIOUS
<1>1. PICK m \in Models \ Range(listed), i \in 1..Len(listed) + 1 : listed' = InsertAt(listed, i, m)
  BY DEF ModelComes
<1>2. listed \in Seq(Models \cup {Nameless})
  BY DEF CatalogInv
<1>3. SubSeq(listed, 1, i - 1) \in Seq(Models \cup {Nameless})
  BY <1>2, SubSeqProperties, LenProperties
<1>4. SubSeq(listed, i, Len(listed)) \in Seq(Models \cup {Nameless})
  BY <1>2, SubSeqProperties, LenProperties
<1>5. <<m>> \in Seq(Models \cup {Nameless})
  OBVIOUS
<1>6. listed' \in Seq(Models \cup {Nameless})
  BY <1>1, <1>3, <1>4, <1>5, ConcatProperties DEF InsertAt
<1> QED BY <1>6 DEF ModelComes, CatalogInv, RowsAreOwn, OwnRow, MetaTyped, FetchesTyped

\* A page is a piece of the list.
LEMMA PageTyped ==
  ASSUME CatalogInv
  PROVE  ModelPage \in Seq(Models \cup {Nameless})
<1> DEFINE skip == Len(meta.records)
           last == AtMost(skip + AtMost(PageSize, meta.total - skip), Len(listed))
<1>1. listed \in Seq(Models \cup {Nameless}) /\ Len(listed) \in Nat
  BY LenProperties DEF CatalogInv
<1>2. skip \in Nat /\ meta.total \in Nat /\ PageSize \in Nat
  BY LenProperties, CatalogAssumption DEF CatalogInv, MetaTyped, CatalogAssumption
<1>3. last \in Int /\ last <= Len(listed)
  BY <1>1, <1>2 DEF AtMost
<1>4. \A i \in skip + 1..last : listed[i] \in Models \cup {Nameless}
  BY <1>1, <1>2, <1>3, ElementOfSeq
<1>5. SubSeq(listed, skip + 1, last) \in Seq(Models \cup {Nameless})
  BY <1>1, <1>2, <1>3, <1>4, SubSeqProperties
<1> QED BY <1>5 DEF ModelPage

\* Between two runs model_sync remembers nothing.
LEMMA IdleTyped == meta' = MetaIdle => MetaTyped'
<1> SUFFICES ASSUME meta' = MetaIdle PROVE MetaTyped'
  OBVIOUS
<1>1. meta'.step = "idle" /\ meta'.total = 0 /\ meta'.records = <<>> /\ meta'.stats = <<>>
      /\ DOMAIN meta' = {"step", "limit", "total", "records", "stats"}
  BY DEF MetaIdle
<1>2. <<>> \in Seq(Models \cup {Nameless}) /\ DOMAIN <<>> = {}
  OBVIOUS
<1> QED BY <1>1, <1>2 DEF MetaTyped

LEMMA MetaFetchKeeps ==
  ASSUME CatalogInv, \/ \E limit \in SyncLimits : MetaCount(limit)
                     \/ MetaPage \/ MetaFail
  PROVE  CatalogInv'
<1>1. /\ UNCHANGED <<listed, catalog, pages, feed, tiers>>
      /\ RowsAreOwn' /\ FetchesTyped'
  BY DEF MetaCount, MetaPage, MetaFail, CatalogInv, RowsAreOwn, OwnRow, FetchesTyped
<1>2. ASSUME NEW limit \in SyncLimits, MetaCount(limit) PROVE MetaTyped'
  <2>1. Len(listed) \in Nat
    BY LenProperties DEF CatalogInv
  <2>2. limit # NoLimit => limit \in Nat
    BY CatalogAssumption DEF CatalogAssumption
  <2>3. (IF limit = NoLimit THEN Len(listed) ELSE AtMost(Len(listed), limit)) \in Nat
    BY <2>1, <2>2 DEF AtMost
  <2>4. PICK total \in Nat, step \in {"fetched", "paging"} :
          meta' = [MetaIdle EXCEPT !.limit = limit, !.total = total, !.step = step]
    BY <1>2, <2>3 DEF MetaCount
  <2>5. /\ meta'.step = step /\ meta'.total = total /\ meta'.records = <<>> /\ meta'.stats = <<>>
        /\ DOMAIN meta' = {"step", "limit", "total", "records", "stats"}
    BY <2>4 DEF MetaIdle
  <2>6. <<>> \in Seq(Models \cup {Nameless}) /\ DOMAIN <<>> = {}
    OBVIOUS
  <2> QED BY <2>5, <2>6 DEF MetaTyped
<1>3. ASSUME MetaPage PROVE MetaTyped'
  <2>1. meta.records \o ModelPage \in Seq(Models \cup {Nameless})
    BY PageTyped, ConcatProperties DEF CatalogInv, MetaTyped
  <2>2. PICK step \in {"fetched", "paging"} :
          meta' = [meta EXCEPT !.records = meta.records \o ModelPage, !.step = step]
    BY <1>3 DEF MetaPage
  <2> QED BY <2>1, <2>2 DEF CatalogInv, MetaTyped
<1>4. ASSUME MetaFail PROVE MetaTyped'
  BY <1>4, IdleTyped DEF MetaFail
<1> QED BY <1>1, <1>2, <1>3, <1>4 DEF CatalogInv

\* The upsert adds rows of the sync's own, and of the others it touches the width alone.
LEMMA MetaUpsertKeeps == CatalogInv /\ MetaUpsert => CatalogInv'
<1> SUFFICES ASSUME CatalogInv, MetaUpsert PROVE CatalogInv'
  OBVIOUS
<1> DEFINE models == Range(meta.records) \ {Nameless}
<1>1. models \subseteq Models
  BY ElementOfSeq DEF CatalogInv, MetaTyped, Range
<1>2. catalog' = Upsert(models)
  BY DEF MetaUpsert
<1> HIDE DEF models
<1>3. DOMAIN catalog' = DOMAIN catalog \cup models
  BY <1>2 DEF Upsert
<1>4. ASSUME NEW m \in DOMAIN catalog' PROVE catalog'[m] \in OwnRow(m)
  <2>1. CASE m \notin DOMAIN catalog
    <3>1. catalog'[m] = NewRow(m)
      BY <1>2, <1>3, <2>1 DEF Upsert
    <3> QED BY <3>1 DEF NewRow, OwnRow
  <2>2. CASE m \in DOMAIN catalog
    <3>1. catalog[m] \in OwnRow(m)
      BY <2>2 DEF CatalogInv, RowsAreOwn
    <3>2. catalog'[m] \in {catalog[m],
                           [catalog[m] EXCEPT !.width = Else(NameWidth[m], catalog[m].width)]}
      BY <1>2, <1>3, <2>2 DEF Upsert
    <3> QED BY <3>1, <3>2 DEF OwnRow, Else
  <2> QED BY <2>1, <2>2
<1>5. MetaTyped'
  BY EmptySeq DEF MetaUpsert, CatalogInv, MetaTyped
<1> QED BY <1>1, <1>3, <1>4, <1>5, FetchesKept DEF MetaUpsert, CatalogInv, RowsAreOwn

LEMMA MetaStatsKeep == CatalogInv /\ (MetaRows \/ MetaCounts) => CatalogInv'
<1> SUFFICES ASSUME CatalogInv, MetaRows \/ MetaCounts PROVE CatalogInv'
  OBVIOUS
<1>1. CASE MetaRows
  <2>1. PICK found \in SUBSET (Stocked \cap DOMAIN catalog) : \E stats \in [found -> Places] :
          /\ catalog' = [m \in DOMAIN catalog |->
                           IF m \in found THEN [catalog[m] EXCEPT !.row = stats[m]] ELSE catalog[m]]
          /\ meta' = [meta EXCEPT !.step = "counts", !.stats = stats]
    BY <1>1 DEF MetaRows
  <2>2. PICK stats \in [found -> Places] :
          /\ catalog' = [m \in DOMAIN catalog |->
                           IF m \in found THEN [catalog[m] EXCEPT !.row = stats[m]] ELSE catalog[m]]
          /\ meta' = [meta EXCEPT !.step = "counts", !.stats = stats]
    BY <2>1
  <2>3. DOMAIN catalog' = DOMAIN catalog
    BY <2>2
  <2>4. RowsAreOwn'
    BY SMTT(20), <2>2 DEF CatalogInv, RowsAreOwn, OwnRow
  <2>5. MetaTyped'
    BY <2>2 DEF CatalogInv, MetaTyped
  <2> QED BY <1>1, <2>3, <2>4, <2>5, FetchesKept DEF MetaRows, CatalogInv
<1>2. CASE MetaCounts
  <2>1. DOMAIN catalog' = DOMAIN catalog
    BY <1>2 DEF MetaCounts
  <2>2. RowsAreOwn'
    <3>1. \A m \in DOMAIN catalog :
            \/ catalog'[m] = catalog[m]
            \/ \E place \in Places : catalog'[m] = [catalog[m] EXCEPT !.count = place]
      BY <1>2 DEF MetaCounts, CatalogInv, MetaTyped
    <3>2. ASSUME NEW m \in DOMAIN catalog PROVE catalog'[m] \in OwnRow(m)
      <4>1. catalog[m] \in OwnRow(m)
        BY DEF CatalogInv, RowsAreOwn
      <4> QED BY <3>1, <4>1 DEF OwnRow
    <3> QED BY <2>1, <3>2 DEF RowsAreOwn
  <2>3. MetaTyped'
    BY <1>2, IdleTyped DEF MetaCounts
  <2> QED BY <1>2, <2>1, <2>2, <2>3, FetchesKept DEF MetaCounts, CatalogInv
<1> QED BY <1>1, <1>2

----------------------------------------------------------------------------
LEMMA InOrderWithin == \A models, k, n : InOrder(models, k, n) \subseteq models
  BY DEF InOrder

LEMMA PagesKeep ==
  ASSUME CatalogInv, \/ \E refetch \in BOOLEAN, limit \in Limits : PagesStart(refetch, limit)
                     \/ \E got \in Replies(pages.asked, PageReply) : PagesWrite(got)
                     \/ PagesFail
  PROVE  CatalogInv'
<1>1. ASSUME NEW refetch \in BOOLEAN, NEW limit \in Limits, PagesStart(refetch, limit)
      PROVE  CatalogInv'
  <2>1. pages'.asked \subseteq DOMAIN catalog /\ pages' \in [refetch : BOOLEAN, asked : SUBSET DOMAIN catalog]
    BY <1>1, InOrderWithin DEF PagesStart, Candidates
  <2> QED BY <1>1, <2>1
          DEF PagesStart, CatalogInv, RowsAreOwn, OwnRow, MetaTyped, FetchesTyped
<1>2. ASSUME NEW got \in Replies(pages.asked, PageReply), PagesWrite(got)
      PROVE  CatalogInv'
  <2>1. \A m \in DOMAIN got \cap Models : got[m] \in PageSays[m] \cup FeedSays[m]
    <3>1. \A m \in DOMAIN got : got[m] \in PageReply[m]
      BY RepliesAreTheirOwn
    <3> QED BY <3>1 DEF PageReply, OfUse
  <2>2. catalog' = UpdateDims(got)
    BY <1>2 DEF PagesWrite
  <2>3. DOMAIN catalog' = DOMAIN catalog /\ RowsAreOwn'
    BY <2>1, <2>2, UpdateKeepsOwn
  <2> QED BY <1>2, <2>3 DEF PagesWrite, PagesIdle, CatalogInv, MetaTyped, FetchesTyped
<1>3. CASE PagesFail
  BY <1>3 DEF PagesFail, PagesIdle, CatalogInv, RowsAreOwn, OwnRow, MetaTyped, FetchesTyped
<1> QED BY <1>1, <1>2, <1>3

LEMMA FeedKeeps ==
  ASSUME CatalogInv, FeedStart \/ FeedWrite \/ FeedFail \/ FeedEnd
  PROVE  CatalogInv'
<1>1. CASE FeedStart
  <2>1. FeedSlice \subseteq DOMAIN catalog
    BY InOrderWithin DEF FeedSlice, AllModelNumbers
  <2>2. FetchesTyped'
    BY <1>1, <2>1 DEF FeedStart, CatalogInv, FetchesTyped
  <2> QED BY <1>1, <2>2 DEF FeedStart, CatalogInv, RowsAreOwn, OwnRow, MetaTyped
<1>2. CASE FeedWrite
  <2>1. PICK got \in Replies(feed.asked, FeedReply) : catalog' = UpdateDims(got)
    BY <1>2 DEF FeedWrite
  <2>2. \A m \in DOMAIN got \cap Models : got[m] \in PageSays[m] \cup FeedSays[m]
    <3>1. \A m \in DOMAIN got : got[m] \in FeedReply[m]
      BY RepliesAreTheirOwn
    <3> QED BY <3>1 DEF FeedReply
  <2>3. DOMAIN catalog' = DOMAIN catalog /\ RowsAreOwn'
    BY <2>1, <2>2, UpdateKeepsOwn
  <2>4. FeedLimit \in Nat
    BY CatalogAssumption DEF CatalogAssumption
  <2>5. FetchesTyped'
    <3>1. feed.offset + FeedLimit \in Nat
      BY <2>4 DEF CatalogInv, FetchesTyped
    <3>2. feed' \in [asked : SUBSET DOMAIN catalog, offset : Nat, met : SUBSET DOMAIN catalog,
                    since : SUBSET DOMAIN catalog]
      BY <1>2, <3>1 DEF FeedWrite, CatalogInv, FetchesTyped
    <3> QED BY <1>2, <2>3, <3>2 DEF FeedWrite, CatalogInv, FetchesTyped
  <2> QED BY <1>2, <2>3, <2>5 DEF FeedWrite, CatalogInv, MetaTyped
<1>3. CASE FeedFail \/ FeedEnd
  <2>1. FetchesTyped'
    BY <1>3 DEF FeedFail, FeedEnd, FeedIdle, CatalogInv, FetchesTyped
  <2> QED BY <1>3, <2>1 DEF FeedFail, FeedEnd, CatalogInv, RowsAreOwn, OwnRow, MetaTyped
<1> QED BY <1>1, <1>2, <1>3

\* The heights size_tiers reads are the models' own, whatever is written until it writes.
LEMMA TiersKeep ==
  ASSUME CatalogInv, TiersStart \/ TiersWrite \/ TiersFail
  PROVE  CatalogInv'
<1>1. CASE TiersStart
  <2>1. \A m \in TierCandidates : m \in DOMAIN catalog /\ catalog[m].height \in Heights(m)
    BY DEF TierCandidates, CatalogInv, RowsAreOwn, OwnRow
  <2>2. FetchesTyped'
    BY <1>1, <2>1 DEF TiersStart, CatalogInv, FetchesTyped, Heights
  <2> QED BY <1>1, <2>2 DEF TiersStart, CatalogInv, RowsAreOwn, OwnRow, MetaTyped
<1>2. CASE TiersWrite
  <2>1. DOMAIN catalog' = DOMAIN catalog
    BY <1>2 DEF TiersWrite
  <2>2. ASSUME NEW m \in DOMAIN catalog PROVE catalog'[m] \in OwnRow(m)
    <3>1. catalog[m] \in OwnRow(m)
      BY DEF CatalogInv, RowsAreOwn
    <3>2. CASE m \notin DOMAIN tiers
      BY <1>2, <3>1, <3>2 DEF TiersWrite
    <3>3. CASE m \in DOMAIN tiers
      <4>1. catalog'[m] = [catalog[m] EXCEPT !.tier = TierOf(tiers[m])]
        BY <1>2, <3>3 DEF TiersWrite
      <4>2. TierOf(tiers[m]) \in {TierOf(h) : h \in Heights(m)}
        BY <3>3 DEF CatalogInv, FetchesTyped
      <4> QED BY <3>1, <4>1, <4>2 DEF OwnRow
    <3> QED BY <3>2, <3>3
  <2>3. FetchesTyped'
    BY <1>2, <2>1 DEF TiersWrite, NoHeights, CatalogInv, FetchesTyped
  <2> QED BY <1>2, <2>1, <2>2, <2>3 DEF TiersWrite, CatalogInv, RowsAreOwn, MetaTyped
<1>3. CASE TiersFail
  BY <1>3 DEF TiersFail, NoHeights, CatalogInv, RowsAreOwn, OwnRow, MetaTyped, FetchesTyped
<1> QED BY <1>1, <1>2, <1>3

LEMMA CatalogKept == CatalogInv /\ [CatalogNext]_catalogVars => CatalogInv'
<1> SUFFICES ASSUME CatalogInv, [CatalogNext]_catalogVars PROVE CatalogInv'
  OBVIOUS
<1>1. CASE UNCHANGED catalogVars
  BY <1>1 DEF catalogVars, CatalogInv, RowsAreOwn, OwnRow, MetaTyped, FetchesTyped
<1>2. CASE CatalogNext
  BY <1>2, ModelComesKeeps, MetaFetchKeeps, MetaUpsertKeeps, MetaStatsKeep, PagesKeep, FeedKeeps,
     TiersKeep DEF CatalogNext
<1> QED BY <1>1, <1>2

----------------------------------------------------------------------------
\* The invariant holds of every state the commands can lead to.
LEMMA CatalogStaysInv == CatalogSpec => []CatalogInv
  BY CatalogStarts, CatalogKept, PTL DEF CatalogSpec

\* The catalog and what the commands remember are typed, whatever the sources say and in
\* whatever order the commands run.
THEOREM CatalogTypeCorrect == CatalogSpec => []CatalogTypeOK
<1>1. CatalogInv => CatalogTypeOK
  <2> SUFFICES ASSUME CatalogInv PROVE CatalogTypeOK
    OBVIOUS
  <2>1. \A m \in DOMAIN catalog : m \in Models /\ catalog[m] \in OwnRow(m)
    BY DEF CatalogInv, RowsAreOwn
  <2>2. \A m \in DOMAIN catalog :
          catalog[m] \in [width : Nat \cup {Unknown}, height : Nat \cup {Unknown},
                          carton : Nat \cup {Unknown}, tier : 1..5 \cup {Unknown},
                          row : Places \cup {Unknown}, count : Places \cup {Unknown}]
    BY <2>1, OwnRowTyped
  <2> QED BY <2>2 DEF CatalogInv, CatalogTypeOK, MetaTyped, FetchesTyped
<1> QED BY <1>1, CatalogStaysInv, PTL

\* Whatever order the four commands' fetches, answers and failures come in, what a row says
\* some source has said of that model (update_dims, update_size_tiers).
THEOREM RowsHoldTheirOwn == CatalogSpec => []DimsAreTheirOwn
<1>1. CatalogInv => DimsAreTheirOwn
  BY DEF CatalogInv, RowsAreOwn, OwnRow, DimsAreTheirOwn
<1> QED BY <1>1, CatalogStaysInv, PTL

----------------------------------------------------------------------------
\* An update of any answers, useful or not, makes no known dimension unknown.
LEMMA UpdateForgetsNothing ==
  ASSUME NEW got, NEW m \in DOMAIN catalog, CatalogInv, catalog' = UpdateDims(got)
  PROVE  /\ catalog[m].width # Unknown => catalog'[m].width # Unknown
         /\ catalog[m].height # Unknown => catalog'[m].height # Unknown
         /\ catalog[m].carton # Unknown => catalog'[m].carton # Unknown
<1>1. catalog[m] \in OwnRow(m)
  BY DEF CatalogInv, RowsAreOwn
<1>2. CASE m \notin DOMAIN got
  BY <1>2 DEF UpdateDims
<1>3. CASE m \in DOMAIN got
  BY <1>1, <1>3 DEF UpdateDims, Else, OwnRow
<1> QED BY <1>2, <1>3

\* update_dims and upsert_models write through COALESCE, and nothing else writes dimensions:
\* what is once known of a model stays known.
THEOREM KnownForGood == CatalogSpec => KnownStaysKnown
<1> DEFINE Kept(m) == /\ catalog[m].width # Unknown => catalog'[m].width # Unknown
                      /\ catalog[m].height # Unknown => catalog'[m].height # Unknown
                      /\ catalog[m].carton # Unknown => catalog'[m].carton # Unknown
<1>1. ASSUME CatalogInv, CatalogNext, NEW m \in DOMAIN catalog PROVE Kept(m)
  <2>1. catalog[m] \in OwnRow(m)
    BY <1>1 DEF CatalogInv, RowsAreOwn
  <2>2. CASE catalog' = catalog
    BY <2>2
  <2>3. CASE MetaUpsert
    <3>1. catalog'[m] \in {catalog[m],
                           [catalog[m] EXCEPT !.width = Else(NameWidth[m], catalog[m].width)]}
      BY <2>3, <1>1 DEF MetaUpsert, Upsert
    <3> QED BY <2>1, <3>1 DEF OwnRow, Else
  <2>4. CASE MetaRows
    BY <2>1, <2>4, <1>1 DEF MetaRows, OwnRow
  <2>5. CASE MetaCounts
    BY <2>1, <2>5, <1>1 DEF MetaCounts, OwnRow
  <2>6. ASSUME NEW got, catalog' = UpdateDims(got) PROVE Kept(m)
    BY <1>1, <2>6, UpdateForgetsNothing
  <2>7. CASE TiersWrite
    BY <2>1, <2>7, <1>1 DEF TiersWrite, OwnRow
  <2>8. \/ catalog' = catalog \/ MetaUpsert \/ MetaRows \/ MetaCounts \/ TiersWrite
        \/ \E got : catalog' = UpdateDims(got)
    BY <1>1 DEF CatalogNext, ModelComes, MetaCount, MetaPage, MetaFail, PagesStart, PagesWrite,
                PagesFail, FeedStart, FeedWrite, FeedFail, FeedEnd, TiersStart, TiersFail
  <2> QED BY <2>2, <2>3, <2>4, <2>5, <2>6, <2>7, <2>8
<1>2. CatalogInv /\ [CatalogNext]_catalogVars => [\A m \in DOMAIN catalog : Kept(m)]_catalogVars
  BY <1>1
<1> QED BY <1>2, CatalogStaysInv, PTL DEF CatalogSpec, KnownStaysKnown

----------------------------------------------------------------------------
(***************************************************************************)
(* The campaigns of dim_feed_fetch.                                        *)
(***************************************************************************)

\* The place of a model in the order of model numbers, by which --offset counts.
Place(m) == Cardinality({l \in DOMAIN catalog : l <= m})

\* What a campaign has yet to ask for stands behind its offset, and behind the run's slice
\* if the run has not asked for it either.
CampaignIsAhead ==
  /\ \A m \in feed.since \ feed.met : Place(m) > feed.offset
  /\ feed.asked # {} =>
       \A m \in feed.since \ (feed.met \cup feed.asked) : Place(m) > feed.offset + FeedLimit

LEMMA LeastIsThere ==
  ASSUME NEW T \in SUBSET Nat, T # {}
  PROVE  \E x \in T : \A y \in T : x <= y
<1> DEFINE less == {p \in Nat \X Nat : p[1] < p[2]}
<1>1. OpToRel(<, Nat) = less
  BY DEF OpToRel
<1>2. IsWellFoundedOn(less, Nat)
  BY <1>1, NatLessThanWellFounded
<1> HIDE DEF less
<1>3. PICK x \in T : \A y \in T : ~ (<<y, x>> \in less)
  BY <1>2, WFMin
<1>4. \A y \in T : ~ (y < x)
  BY <1>3 DEF less
<1> QED BY <1>4

LEMMA GreatestIsThere ==
  ASSUME NEW n \in Nat, NEW T \in SUBSET (0..n), T # {}
  PROVE  \E x \in T : \A y \in T : y <= x
<1> DEFINE gaps == {n - y : y \in T}
<1>1. gaps \in SUBSET Nat /\ gaps # {}
  <2>1. \A y \in T : y \in Int /\ n - y \in Nat
    OBVIOUS
  <2> QED BY <2>1
<1>2. \A y \in T : n - y \in gaps /\ y \in Int
  OBVIOUS
<1>3. PICK g \in gaps : \A h \in gaps : g <= h
  <2> HIDE DEF gaps
  <2> QED BY <1>1, LeastIsThere
<1>4. PICK x \in T : g = n - x
  OBVIOUS
<1> HIDE DEF gaps
<1>5. \A y \in T : y <= x
  BY <1>2, <1>3, <1>4
<1> QED BY <1>5

\* Behind a place that is passed there is a number at exactly the next one.
LEMMA NextPlaceIsThere ==
  ASSUME NEW S \in SUBSET Nat, IsFiniteSet(S), NEW k \in Nat,
         NEW m \in S, Cardinality({l \in S : l <= m}) > k
  PROVE  \E x \in S : Cardinality({l \in S : l <= x}) = k + 1
<1> DEFINE upTo(x) == {l \in S : l <= x}
           behind == {x \in S : Cardinality(upTo(x)) > k}
<1>1. \A x \in S : upTo(x) \in SUBSET S /\ IsFiniteSet(upTo(x)) /\ Cardinality(upTo(x)) \in Nat
  BY FS_Subset, FS_CardinalityType
<1>2. behind \in SUBSET Nat /\ behind # {}
  OBVIOUS
<1>3. PICK x \in behind : \A y \in behind : x <= y
  <2> HIDE DEF behind
  <2> QED BY <1>2, LeastIsThere
<1> DEFINE before == {l \in S : l < x}
<1>4. x \in S /\ x \in Nat /\ Cardinality(upTo(x)) > k
  OBVIOUS
<1>5. \A y \in before : y \in S /\ y \in Nat /\ y < x /\ ~ (Cardinality(upTo(y)) > k)
  BY <1>3
<1>6. upTo(x) = before \cup {x} /\ x \notin before
  <2>1. \A y \in S : y \in Nat /\ (y <= x <=> (y < x \/ y = x)) /\ ~ (x < x)
    BY <1>4
  <2> QED BY <1>4, <2>1, Zenon
<1>7. IsFiniteSet(before) /\ Cardinality(before) \in Nat
  <2>1. before \in SUBSET S
    OBVIOUS
  <2> HIDE DEF before
  <2> QED BY <2>1, FS_Subset, FS_CardinalityType
<1>8. Cardinality(upTo(x)) = Cardinality(before) + 1
  <2> HIDE DEF before, upTo
  <2> QED BY <1>6, <1>7, FS_AddElement
<1>9. Cardinality(before) <= k
  <2>1. CASE before = {}
    BY <2>1, FS_EmptySet
  <2>2. CASE before # {}
    <3>1. before \in SUBSET (0..x)
      <4>1. \A y \in before : y \in 0..x
        <5> HIDE DEF before, upTo
        <5> QED BY <1>4, <1>5
      <4> QED BY <4>1
    <3>2. PICK y \in before : \A z \in before : z <= y
      <4> HIDE DEF before
      <4> QED BY <1>4, <2>2, <3>1, GreatestIsThere
    <3>3. upTo(y) = before
      <4>1. y \in Nat /\ y < x
        <5> HIDE DEF before, upTo
        <5> QED BY <1>5, <3>2
      <4>2. \A z \in S : z < x => z <= y
        BY <3>2 DEF before
      <4>3. \A z \in S : z \in Nat /\ (z <= y => z < x)
        BY <1>4, <4>1
      <4> QED BY <4>2, <4>3, Zenon
    <3>4. y \in S /\ Cardinality(upTo(y)) \in Nat /\ ~ (Cardinality(upTo(y)) > k)
      BY <1>1, <1>5
    <3> HIDE DEF before, upTo
    <3> QED BY <3>3, <3>4
  <2> QED BY <2>1, <2>2
<1> HIDE DEF before, upTo
<1>10. Cardinality(upTo(x)) = k + 1
  BY <1>4, <1>7, <1>8, <1>9
<1> QED BY <1>4, <1>10 DEF upTo

\* Places are numbers from 1, and rows that are added only make them greater.
LEMMA PlacesGrow ==
  ASSUME CatalogInv, CatalogInv', DOMAIN catalog \subseteq DOMAIN catalog', NEW m \in DOMAIN catalog
  PROVE  Place(m) \in Nat /\ Place(m) > 0 /\ Place(m)' \in Nat /\ Place(m) <= Place(m)'
<1> DEFINE old == {l \in DOMAIN catalog : l <= m}
           new == {l \in DOMAIN catalog' : l <= m}
<1>1. /\ Models \subseteq Nat /\ IsFiniteSet(Models)
      /\ DOMAIN catalog \subseteq Models /\ DOMAIN catalog' \subseteq Models
  BY CatalogAssumption DEF CatalogAssumption, CatalogInv
<1>2. old \in SUBSET new /\ new \in SUBSET Models /\ m \in old
  <2>1. m <= m
    <3>1. m \in Nat
      BY <1>1
    <3> HIDE DEF old, new
    <3> QED BY <3>1
  <2> QED BY <1>1, <2>1
<1>3. Place(m) = Cardinality(old) /\ Place(m)' = Cardinality(new)
  BY DEF Place
<1> HIDE DEF old, new
<1>4. IsFiniteSet(new) /\ IsFiniteSet(old) /\ Cardinality(old) <= Cardinality(new)
  BY <1>1, <1>2, FS_Subset
<1>5. Cardinality(old) \in Nat /\ Cardinality(new) \in Nat /\ Cardinality(old) # 0
  BY <1>2, <1>4, FS_CardinalityType, FS_EmptySet
<1> QED BY <1>3, <1>4, <1>5

\* No command deletes a row.
LEMMA RowsStay == CatalogNext => DOMAIN catalog \subseteq DOMAIN catalog'
<1> SUFFICES ASSUME CatalogNext PROVE DOMAIN catalog \subseteq DOMAIN catalog'
  OBVIOUS
<1>1. CASE MetaUpsert
  BY <1>1 DEF MetaUpsert, Upsert
<1>2. CASE MetaRows \/ MetaCounts \/ TiersWrite
  BY <1>2 DEF MetaRows, MetaCounts, TiersWrite
<1>3. CASE \E got : catalog' = UpdateDims(got)
  BY <1>3 DEF UpdateDims
<1> QED
  BY <1>1, <1>2, <1>3 DEF CatalogNext, ModelComes, MetaCount, MetaPage, MetaFail, PagesStart,
     PagesWrite, PagesFail, FeedStart, FeedWrite, FeedFail, FeedEnd, TiersStart, TiersFail

LEMMA CampaignKept ==
  ASSUME CatalogInv, CatalogInv', CampaignIsAhead, [CatalogNext]_catalogVars
  PROVE  CampaignIsAhead'
<1>1. /\ feed \in [asked : SUBSET DOMAIN catalog, offset : Nat, met : SUBSET DOMAIN catalog,
                  since : SUBSET DOMAIN catalog]
      /\ FeedLimit \in Nat \ {0}
  BY CatalogAssumption DEF CatalogInv, FetchesTyped, CatalogAssumption
<1>2. CASE UNCHANGED catalogVars
  BY <1>2 DEF catalogVars, CampaignIsAhead, Place
<1>3. CASE CatalogNext
  <2>1. \A m \in DOMAIN catalog :
          Place(m) \in Nat /\ Place(m) > 0 /\ Place(m)' \in Nat /\ Place(m) <= Place(m)'
    BY <1>3, PlacesGrow, RowsStay
  <2>2. CASE UNCHANGED feed
    BY <1>1, <2>1, <2>2 DEF CampaignIsAhead
  <2>3. CASE FeedStart
    <3>1. /\ feed'.asked = FeedSlice /\ feed'.offset = feed.offset /\ feed'.met = feed.met
          /\ feed'.since = IF feed.offset = 0 THEN DOMAIN catalog ELSE feed.since
      BY <1>1, <2>3 DEF FeedStart
    <3>2. \A m \in feed'.since \ feed.met : m \in DOMAIN catalog /\ Place(m) > feed.offset
      BY <1>1, <2>1, <3>1 DEF CampaignIsAhead
    <3>3. \A m \in DOMAIN catalog :
            Place(m) > feed.offset /\ m \notin FeedSlice => Place(m) > feed.offset + FeedLimit
      <4>1. \A m \in DOMAIN catalog :
              m \in FeedSlice <=> Place(m) \in feed.offset + 1..feed.offset + FeedLimit
        BY Zenon DEF FeedSlice, AllModelNumbers, InOrder, Place
      <4> QED BY <1>1, <2>1, <4>1
    <3> QED BY <1>1, <2>1, <3>1, <3>2, <3>3 DEF CampaignIsAhead
  <2>4. CASE FeedWrite
    <3>1. /\ feed'.asked = {} /\ feed'.offset = feed.offset + FeedLimit
          /\ feed'.met = feed.met \cup feed.asked /\ feed'.since = feed.since /\ feed.asked # {}
      BY <1>1, <2>4 DEF FeedWrite
    <3> QED BY <1>1, <2>1, <3>1 DEF CampaignIsAhead
  <2>5. CASE FeedFail
    <3>1. feed'.asked = {} /\ feed'.offset = feed.offset /\ feed'.met = feed.met
          /\ feed'.since = feed.since
      BY <1>1, <2>5 DEF FeedFail
    <3> QED BY <1>1, <2>1, <3>1 DEF CampaignIsAhead
  <2>6. CASE FeedEnd
    BY <2>6 DEF FeedEnd, FeedIdle, CampaignIsAhead
  <2> QED
    BY <1>3, <2>2, <2>3, <2>4, <2>5, <2>6 DEF CatalogNext, ModelComes, MetaCount, MetaPage,
       MetaUpsert, MetaRows, MetaCounts, MetaFail, PagesStart, PagesWrite, PagesFail, TiersStart,
       TiersWrite, TiersFail
<1> QED BY <1>2, <1>3

\* "for resumable runs" (dim_feed_fetch.py:59): when a campaign finds nothing more to ask for,
\* it has asked for every model that was there when it began, though rows were added before
\* and behind it, runs failed and were repeated, and answers were missing.
THEOREM CampaignMissesNone == CatalogSpec => EveryModelIsAsked
<1>1. CatalogInit => CampaignIsAhead
  BY DEF CatalogInit, FeedIdle, CampaignIsAhead
<1>2. CatalogInv /\ CatalogInv' /\ CampaignIsAhead /\ [CatalogNext]_catalogVars => CampaignIsAhead'
  BY CampaignKept
<1>3. ASSUME CatalogInv, CampaignIsAhead, FeedEnd PROVE feed.since \subseteq feed.met
  <2> SUFFICES ASSUME NEW m \in feed.since \ feed.met PROVE FALSE
    OBVIOUS
  <2>1. /\ m \in DOMAIN catalog /\ feed.offset \in Nat /\ FeedLimit \in Nat \ {0}
        /\ DOMAIN catalog \subseteq Models /\ Models \subseteq Nat /\ IsFiniteSet(Models)
    BY <1>3, CatalogAssumption DEF CatalogInv, FetchesTyped, CatalogAssumption
  <2>2. IsFiniteSet(DOMAIN catalog) /\ DOMAIN catalog \in SUBSET Nat
    BY <2>1, FS_Subset
  <2>3. Cardinality({l \in DOMAIN catalog : l <= m}) > feed.offset
    BY <1>3 DEF CampaignIsAhead, Place
  <2>4. PICK x \in DOMAIN catalog : Cardinality({l \in DOMAIN catalog : l <= x}) = feed.offset + 1
    BY <2>1, <2>2, <2>3, NextPlaceIsThere
  <2>5. x \in FeedSlice
    BY <2>1, <2>4 DEF FeedSlice, AllModelNumbers, InOrder
  <2> QED BY <1>3, <2>5 DEF FeedEnd
<1>4. CatalogInv /\ CampaignIsAhead /\ [CatalogNext]_catalogVars =>
        [FeedEnd => feed.since \subseteq feed.met]_catalogVars
  BY <1>3
<1> QED BY <1>1, <1>2, <1>4, CatalogStaysInv, PTL DEF CatalogSpec, EveryModelIsAsked
=============================================================================
