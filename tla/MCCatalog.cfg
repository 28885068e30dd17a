SPECIFICATION CatalogSpec
CONSTANTS
  Models = {1, 2, 3}
  Linked = {1, 2, 3}
  Unknown = Unknown
  Nameless = Nameless
  NoLimit = NoLimit
  a1 = a1
  Stocked = {1}
  Places = {a1}
  NameWidth <- MCNameWidth
  PageSays <- MCPageSays
  FeedSays <- MCFeedSays
  FirstList <- MCFirstList
  PageSize = 2
  SyncLimits = {NoLimit}
  Limits = {2}
  FeedLimit = 2
  MaxAtOnce = 2
INVARIANTS
  CatalogTypeOK
  DimsAreTheirOwn
PROPERTIES
  KnownStaysKnown
  EveryModelIsAsked
  PagesAreRead
  TiersCatchUp
  ModelsGetCataloged
