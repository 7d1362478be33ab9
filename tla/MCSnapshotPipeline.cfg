CONSTANTS
  i1 = i1
  t1 = t1
  t2 = t2
  feed = feed
  page = page
  Feeds <- MCFeeds
  Pages <- MCPages
  Importers <- MCImporters
  Schedulers <- MCSchedulers
  Fresh <- MCFresh
  MaxNews = 1
  MaxSec = 1
  Nobody = Nobody
  MaxTroubles = 1
SPECIFICATION Spec
INVARIANTS
  PointerTells
PROPERTIES
  CopiedIsCurrent
  ReclaimedIsShown
  LatestGetsActive
