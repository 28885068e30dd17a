------------------------------- MODULE Catalog -------------------------------
(***************************************************************************)
(* model_size_catalog and the four commands that write it, each started by *)
(* hand, at any time and beside one another: model_sync (the ERP's list of *)
(* models), source_dim_fetch (their product pages), dim_feed_fetch (the    *)
(* external feed, in resumable runs) and size_tiers.                       *)
(*                                                                         *)
(* A model is a number, its place in the order of the model numbers.  Of   *)
(* its columns, width stands for width_in and depth_in, carton for the     *)
(* carton dimensions and the weight.  A fetch keeps nothing of the table   *)
(* but which models it asks for, so what the pages answer is chosen when   *)
(* the answers are written.                                                *)
(***************************************************************************)
EXTENDS Integers, SequencesExt, FiniteSets

CONSTANTS
  Models,
  Linked,     \* the models whose records have a ProductId, that is a page
  NameWidth,  \* NameWidth[m]: the width in the model number of m, or Unknown
  PageSays,   \* PageSays[m]: what the product page of m can say
  FeedSays,   \* FeedSays[m]: what the feed can say of m
  Stocked,    \* the models that can have units at a warehouse location
  Places,     \* what a primary_row with its serial_count can be
  Unknown,    \* NULL
  Nameless,   \* a record of the ERP without a ModelNumber
  FirstList,  \* the ERP's list at the start
  PageSize,   \* _PAGE_SIZE
  SyncLimits, \* what --limit of model_sync can be: numbers, or NoLimit
  Limits,     \* what --limit of source_dim_fetch can be
  NoLimit,
  FeedLimit,  \* the --limit of a campaign of dim_feed_fetch
  MaxAtOnce   \* bound on the commands under way

Dims == [width : Nat \cup {Unknown}, height : Nat \cup {Unknown}, carton : Nat \cup {Unknown}]

ASSUME CatalogAssumption ==
  /\ Models \subseteq Nat /\ IsFiniteSet(Models)
  /\ Linked \subseteq Models /\ Stocked \subseteq Models
  /\ Unknown \notin Nat /\ Unknown \notin Places
  /\ Nameless \notin Models
  /\ NameWidth \in [Models -> Nat \cup {Unknown}]
  /\ PageSays \in [Models -> SUBSET {d \in Dims : d.carton = Unknown}]
  /\ FeedSays \in [Models -> SUBSET Dims]
  /\ FirstList \in Seq(Models \cup {Nameless})
  /\ PageSize \in Nat \ {0} /\ FeedLimit \in Nat \ {0}
  /\ (SyncLimits \cup Limits) \ {NoLimit} \subseteq Nat \ {0} /\ NoLimit \notin Nat

VARIABLES
  listed,     \* the ERP's list of models
  catalog,    \* model_size_catalog: the columns of each model that has a row
  meta,       \* model_sync: [step, limit, total, records, stats]
  pages,      \* source_dim_fetch: [refetch, asked]
  feed,       \* dim_feed_fetch: [asked], and its campaign: [offset, met, since]
  tiers       \* size_tiers: the heights it has read

catalogVars == <<listed, catalog, meta, pages, feed, tiers>>

AtMost(n, m) == IF n < m THEN n ELSE m

\* COALESCE
Else(new, old) == IF new = Unknown THEN old ELSE new

\* The models of a set from place k to place n of the order of model numbers.
InOrder(models, k, n) ==
  {m \in models : Cardinality({l \in models : l <= m}) \in k..n}

NoHeights == [m \in {} |-> 0]

\* No more commands are under way than MaxAtOnce allows.
MayStart ==
  (IF meta.step = "idle" THEN 0 ELSE 1) + (IF pages.asked = {} THEN 0 ELSE 1)
  + (IF feed.asked = {} THEN 0 ELSE 1) + (IF tiers = NoHeights THEN 0 ELSE 1) < MaxAtOnce

----------------------------------------------------------------------------
\* The ERP takes a model into its list, anywhere.
ModelComes ==
  /\ \E m \in Models \ Range(listed), i \in 1..Len(listed) + 1 : listed' = InsertAt(listed, i, m)
  /\ UNCHANGED <<catalog, meta, pages, feed, tiers>>

----------------------------------------------------------------------------
\* model_sync.
MetaIdle == [step |-> "idle", limit |-> NoLimit, total |-> 0, records |-> <<>>, stats |-> <<>>]

\* fetch_models asks for the number of models first.
MetaCount(limit) ==
  /\ meta.step = "idle" /\ MayStart
  /\ LET total == IF limit = NoLimit THEN Len(listed) ELSE AtMost(Len(listed), limit)
     IN meta' = [MetaIdle EXCEPT !.limit = limit, !.total = total,
                                 !.step = IF total = 0 THEN "fetched" ELSE "paging"]
  /\ UNCHANGED <<listed, catalog, pages, feed, tiers>>

\* Slip: what is in the catalog is skipped.
PageFromCatalog ==
  LET skip == Cardinality(DOMAIN catalog)
      take == AtMost(PageSize, meta.total - Len(meta.records))
  IN SubSeq(listed, skip + 1, AtMost(skip + take, Len(listed)))

ModelPage ==
  LET skip == Len(meta.records)
      take == AtMost(PageSize, meta.total - skip)
  IN SubSeq(listed, skip + 1, AtMost(skip + take, Len(listed)))

MetaPage ==
  /\ meta.step = "paging"
  /\ LET records == meta.records \o ModelPage
     IN meta' = [meta EXCEPT !.records = records,
                             !.step = IF ModelPage = <<>> \/ Len(records) >= meta.total
                                      THEN "fetched" ELSE "paging"]
  /\ UNCHANGED <<listed, catalog, pages, feed, tiers>>

\* A model new to the catalog; its width is the one in its number.
NewRow(m) ==
  [width |-> NameWidth[m], height |-> Unknown, carton |-> Unknown, tier |-> Unknown,
   row |-> Unknown, count |-> Unknown]

\* upsert_models.  The width in the number goes before the width that was measured.
Upsert(models) ==
  [m \in DOMAIN catalog \cup models |->
     IF m \notin DOMAIN catalog THEN NewRow(m)
     ELSE IF m \in models
     THEN [catalog[m] EXCEPT !.width = Else(NameWidth[m], catalog[m].width)]
     ELSE catalog[m]]

\* Records without a model number are left out.
MetaUpsert ==
  /\ meta.step = "fetched"
  /\ catalog' = Upsert(Range(meta.records) \ {Nameless})
  /\ meta' = [meta EXCEPT !.step = "rows", !.records = <<>>]
  /\ UNCHANGED <<listed, pages, feed, tiers>>

\* fetch_model_location_stats and batch_update_primary_rows: models without a located unit
\* are not in the statistics, and the inventory says of the others what it will.
MetaRows ==
  /\ meta.step = "rows"
  /\ \E found \in SUBSET (Stocked \cap DOMAIN catalog) : \E stats \in [found -> Places] :
       /\ catalog' = [m \in DOMAIN catalog |->
                        IF m \in found THEN [catalog[m] EXCEPT !.row = stats[m]] ELSE catalog[m]]
       /\ meta' = [meta EXCEPT !.step = "counts", !.stats = stats]
  /\ UNCHANGED <<listed, pages, feed, tiers>>

\* batch_update_serial_counts, of the same statistics.
MetaCounts ==
  /\ meta.step = "counts"
  /\ catalog' = [m \in DOMAIN catalog |->
                   IF m \in DOMAIN meta.stats THEN [catalog[m] EXCEPT !.count = meta.stats[m]]
                   ELSE catalog[m]]
  /\ meta' = MetaIdle
  /\ UNCHANGED <<listed, pages, feed, tiers>>

\* A request or a statement fails, or the process dies; what it has committed stays.
MetaFail ==
  /\ meta.step # "idle"
  /\ meta' = MetaIdle
  /\ UNCHANGED <<listed, catalog, pages, feed, tiers>>

----------------------------------------------------------------------------
\* Slip: update_dims writes what it is given, NULLs included.
UpdateDimsAll(got) ==
  [m \in DOMAIN catalog |->
     IF m \in DOMAIN got
     THEN [catalog[m] EXCEPT !.width = got[m].width, !.height = got[m].height,
                             !.carton = got[m].carton]
     ELSE catalog[m]]

\* update_dims keeps what it is not told.
UpdateDims(got) ==
  [m \in DOMAIN catalog |->
     IF m \in DOMAIN got
     THEN [catalog[m] EXCEPT !.width = Else(got[m].width, catalog[m].width),
                             !.height = Else(got[m].height, catalog[m].height),
                             !.carton = Else(got[m].carton, catalog[m].carton)]
     ELSE catalog[m]]

\* Slip: the answers that arrived are paired with the models asked, in order.
RepliesInOrder(asked, said) ==
  UNION {{[m \in InOrder(asked, 1, Cardinality(answering)) |->
             got[CHOOSE l \in answering :
                   Cardinality({k \in answering : k <= l}) = Cardinality({k \in asked : k <= m})]]
          : got \in {g \in [answering -> UNION {said[m] : m \in answering}] :
                       \A m \in answering : g[m] \in said[m]}}
         : answering \in SUBSET asked}

\* What the answers to a fetch can be: any of them may be missing.
Replies(asked, said) ==
  UNION {{got \in [answering -> UNION {said[m] : m \in answering}] :
            \A m \in answering : got[m] \in said[m]} : answering \in SUBSET asked}

\* source_dim_fetch drops a page without a height, dim_feed_fetch an answer whose
\* height and carton are both missing or zero.
OfUse(page) == {d \in page : d.height # Unknown}
PageReply == [m \in Models |-> OfUse(PageSays[m])]
FeedReply ==
  [m \in Models |-> {d \in FeedSays[m] : {d.height, d.carton} \ {Unknown, 0} # {}}]

\* Slip: --refetch is taken for granted.
CandidatesAll(refetch) == Linked \cap DOMAIN catalog

\* fetch_source_dim_candidates
Candidates(refetch) ==
  {m \in Linked \cap DOMAIN catalog : refetch \/ catalog[m].height = Unknown}

PagesIdle == [refetch |-> FALSE, asked |-> {}]

PagesStart(refetch, limit) ==
  /\ pages = PagesIdle /\ MayStart
  /\ Candidates(refetch) # {}
  /\ pages' = [refetch |-> refetch,
               asked |-> IF limit = NoLimit THEN Candidates(refetch)
                         ELSE InOrder(Candidates(refetch), 1, limit)]
  /\ UNCHANGED <<listed, catalog, meta, feed, tiers>>

PagesWrite(got) ==
  /\ pages.asked # {}
  /\ got \in Replies(pages.asked, PageReply)
  /\ catalog' = UpdateDims(got)
  /\ pages' = PagesIdle
  /\ UNCHANGED <<listed, meta, feed, tiers>>

PagesFail ==
  /\ pages.asked # {}
  /\ pages' = PagesIdle
  /\ UNCHANGED <<listed, catalog, meta, feed, tiers>>

----------------------------------------------------------------------------
FeedIdle == [asked |-> {}, offset |-> 0, met |-> {}, since |-> {}]

\* Slip: only the models whose carton is not known are listed.
ListMissing == {m \in DOMAIN catalog : catalog[m].carton = Unknown}

\* fetch_all_model_numbers
AllModelNumbers == DOMAIN catalog

FeedSlice == InOrder(AllModelNumbers, feed.offset + 1, feed.offset + FeedLimit)

\* A run of dim_feed_fetch where the campaign stands.
FeedStart ==
  /\ feed.asked = {} /\ MayStart
  /\ FeedSlice # {}
  /\ feed' = [feed EXCEPT !.asked = FeedSlice,
                          !.since = IF feed.offset = 0 THEN DOMAIN catalog ELSE feed.since]
  /\ UNCHANGED <<listed, catalog, meta, pages, tiers>>

\* The next run of the campaign will go on behind this one.
FeedWrite ==
  /\ feed.asked # {}
  /\ \E got \in Replies(feed.asked, FeedReply) : catalog' = UpdateDims(got)
  /\ feed' = [feed EXCEPT !.asked = {}, !.offset = feed.offset + FeedLimit,
                          !.met = feed.met \cup feed.asked]
  /\ UNCHANGED <<listed, meta, pages, tiers>>

\* A run that failed will be repeated from where it started.
FeedFail ==
  /\ feed.asked # {}
  /\ feed' = [feed EXCEPT !.asked = {}]
  /\ UNCHANGED <<listed, catalog, meta, pages, tiers>>

\* "no model numbers to process": the campaign is over.
FeedEnd ==
  /\ feed.asked = {} /\ feed.offset > 0 /\ FeedSlice = {}
  /\ feed' = FeedIdle
  /\ UNCHANGED <<listed, catalog, meta, pages, tiers>>

----------------------------------------------------------------------------
\* Slip: tiers counted from 2.
TierOfFromTwo(height) == 2 + Cardinality({limit \in {12, 24, 52, 68} : height >= limit})

\* tier_from_product_height_in, of inches.
TierOf(height) == 1 + Cardinality({limit \in {12, 24, 52, 68} : height >= limit})

\* Slip: "models with height_in but no tier", as the log line has it.
TierCandidatesUntiered ==
  {m \in DOMAIN catalog : catalog[m].height # Unknown /\ catalog[m].tier = Unknown}

\* fetch_tier_candidates
TierCandidates == {m \in DOMAIN catalog : catalog[m].height # Unknown}

TiersStart ==
  /\ tiers = NoHeights /\ MayStart
  /\ tiers' = [m \in TierCandidates |-> catalog[m].height]
  /\ UNCHANGED <<listed, catalog, meta, pages, feed>>

\* update_size_tiers
TiersWrite ==
  /\ tiers # NoHeights
  /\ catalog' = [m \in DOMAIN catalog |->
                   IF m \in DOMAIN tiers THEN [catalog[m] EXCEPT !.tier = TierOf(tiers[m])]
                   ELSE catalog[m]]
  /\ tiers' = NoHeights
  /\ UNCHANGED <<listed, meta, pages, feed>>

TiersFail ==
  /\ tiers # NoHeights
  /\ tiers' = NoHeights
  /\ UNCHANGED <<listed, catalog, meta, pages, feed>>

----------------------------------------------------------------------------
CatalogInit ==
  /\ listed = FirstList
  /\ catalog = [m \in {} |-> NewRow(m)]
  /\ meta = MetaIdle
  /\ pages = PagesIdle
  /\ feed = FeedIdle
  /\ tiers = NoHeights

CatalogNext ==
  \/ ModelComes
  \/ \E limit \in SyncLimits : MetaCount(limit)
  \/ MetaPage \/ MetaUpsert \/ MetaRows \/ MetaCounts \/ MetaFail
  \/ \E refetch \in BOOLEAN, limit \in Limits : PagesStart(refetch, limit)
  \/ \E got \in Replies(pages.asked, PageReply) : PagesWrite(got)
  \/ PagesFail
  \/ FeedStart \/ FeedWrite \/ FeedFail \/ FeedEnd
  \/ TiersStart \/ TiersWrite \/ TiersFail

CatalogSpec == CatalogInit /\ [][CatalogNext]_catalogVars

----------------------------------------------------------------------------
\* Type invariant of the catalog and its commands.
CatalogTypeOK ==
  /\ listed \in Seq(Models \cup {Nameless})
  /\ DOMAIN catalog \subseteq Models
  /\ \A m \in DOMAIN catalog :
       catalog[m] \in [width : Nat \cup {Unknown}, height : Nat \cup {Unknown},
                      carton : Nat \cup {Unknown}, tier : 1..5 \cup {Unknown},
                      row : Places \cup {Unknown}, count : Places \cup {Unknown}]
  /\ meta.step \in {"idle", "paging", "fetched", "rows", "counts"}
  /\ meta.records \in Seq(Models \cup {Nameless})
  /\ pages \in [refetch : BOOLEAN, asked : SUBSET DOMAIN catalog]
  /\ feed \in [asked : SUBSET DOMAIN catalog, offset : Nat, met : SUBSET DOMAIN catalog,
              since : SUBSET DOMAIN catalog]
  /\ DOMAIN tiers \subseteq DOMAIN catalog

Heights(m) == {d.height : d \in PageSays[m] \cup FeedSays[m]} \ {Unknown}

\* What the catalog has of a model some source has said of that model, and its tier is that
\* of such a height: answers arrive in any order, some not at all, and four commands write.
DimsAreTheirOwn ==
  \A m \in DOMAIN catalog :
    /\ catalog[m].height \in Heights(m) \cup {Unknown}
    /\ catalog[m].width \in {NameWidth[m], Unknown}
                            \cup {d.width : d \in PageSays[m] \cup FeedSays[m]}
    /\ catalog[m].carton \in {d.carton : d \in FeedSays[m]} \cup {Unknown}
    /\ catalog[m].tier \in {TierOf(h) : h \in Heights(m)} \cup {Unknown}

\* A dimension once known stays known, through syncs, fetches and refetches: "Only updates
\* non-None values" (catalog.py:221).
KnownStaysKnown ==
  [][\A m \in DOMAIN catalog :
       /\ catalog[m].width # Unknown => catalog'[m].width # Unknown
       /\ catalog[m].height # Unknown => catalog'[m].height # Unknown
       /\ catalog[m].carton # Unknown => catalog'[m].carton # Unknown]_catalogVars

\* dim_feed_fetch.py:59, "for resumable runs": a campaign of runs, each starting where the
\* last one ended, asks for every model that was there when it began, though others come
\* into the list behind and before it.
EveryModelIsAsked ==
  [][FeedEnd => feed.since \subseteq feed.met]_catalogVars

\* A run of source_dim_fetch, without --refetch, in which every page that has a height
\* answers.
GoodPagesRun ==
  /\ ~ pages.refetch
  /\ \E got \in Replies(pages.asked, PageReply) :
       /\ DOMAIN got = {m \in pages.asked : PageReply[m] # {}}
       /\ PagesWrite(got)

\* A page without a height is asked for again by every run and takes a place of --limit; as
\* long as there are fewer such pages than the limit, runs that succeed get to all others.
PagesAreRead ==
  \A m \in Models :
    []<><<GoodPagesRun>>_catalogVars =>
      [](m \in Linked \cap DOMAIN catalog /\ PageReply[m] # {} =>
           <>(m \in DOMAIN catalog /\ catalog[m].height # Unknown))

HeightStays(m) == m \in DOMAIN catalog => catalog'[m].height = catalog[m].height

\* size_tiers writes what it computed of heights it read before, beside the fetches; once no
\* height changes any more, its runs, as long as they have something to do, leave every tier
\* that of the height.
TiersCatchUp ==
  []<><<TiersWrite>>_catalogVars \/ <>[](TierCandidates = {}) =>
    \A m \in Models :
      <>[][HeightStays(m)]_catalogVars =>
        <>[](m \in DOMAIN catalog /\ catalog[m].height # Unknown =>
               catalog[m].tier = TierOf(catalog[m].height))

\* inventory_items refers to the catalog (0001_init.sql:79), so a model that is missing stops
\* the inventory sync and the nightly build with it.  A fetch that pages through a growing
\* list can miss a model; full syncs that are repeated miss none for good.
ModelsGetCataloged ==
  []<><<meta.limit = NoLimit /\ MetaUpsert>>_catalogVars =>
    \A m \in Models : [](m \in Range(listed) => <>(m \in DOMAIN catalog))
=============================================================================
