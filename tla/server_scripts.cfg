SPECIFICATION FairSpec
CONSTANTS
  router = router
  page = page
  other = other
  worker = worker
  None = None
  Parent = Parent
  Scripts = {router, page, other}
  Workers = {worker}
  CacheSize = 2
  Setups <- Started
  MaxEdits = 1
  MaxTime = 1
INVARIANTS TypeOK CacheFresh OnePerScript RunsCleanVm
PROPERTIES RouterStays Stops
