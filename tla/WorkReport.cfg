\* Every forest over three leaves of one work, loaded in every order; and every
\* command line over two leaves, six bindings and a file that cannot be used, up to
\* three of them.
SPECIFICATION MCSpec
CONSTANTS
  Hashes = {1, 2, 3}
  Works = {"v", "w"}
  Seqs = {0, 1}
  MaxLoads = 3
  RootKeys = {"root", "other"}
  SignerKeys = {"k1", "k2"}
  Creators = {"ann", "bob"}
  Times = {1, 2}
  Claims <- MCClaims
  Files <- MCFiles
  Flags <- MCFlags
  MaxFiles = 3
INVARIANTS
  LinearMeansHistory OrderFree VerifiedMeansCleared VerdictIsWorst
  PrintedIsComplete IdentityIsRootSigned PrintedOrderFree
CHECK_DEADLOCK FALSE
