CONSTANTS
  hii = hii
  old = old
  PinnedRoots <- MCPinnedRoots
  RootKeys = {hii, old, stranger}
  SignerKeys = {k}
  Creators = {alice, bob}
  Times = {1, 2}
  MaxLog = 2
SPECIFICATION Spec
INVARIANTS IncludedIsCommitted ResolvedIsVouched HonestMeansComplete
