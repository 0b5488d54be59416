SPECIFICATION FairSpec
CONSTANTS
  v = v
  w = w
  p = p
  q = q
  NoPage = NoPage
  Vpage <- TwoVpages
  Page <- TwoPages
  PageOf <- MCPageOf
  MSHR_SIZE = 2
  TagChecks = 2
  MaxAccesses = 4
INVARIANT StashInOrder
PROPERTIES EveryAccessGetsItsPage EveryAccessIsChecked
