\* Every kind of leaf, edited by a byte; three withdrawals in every order; tool
\* traces of up to three members; texts of four words and pictures of four
\* coefficients.
SPECIFICATION FormatsSpec
CONSTANTS
  Kinds = {"attestation", "binding", "anchor"}
  Bytes = {0, 1, 2, 3}
  Values = {0, 2}
  MaxLen = 1
  Spellings = {2, 3, 4}
  Details = {"spam", "fraud"}
  Garbled = {"fraud"}
  Replaced = "?"
  MaxListed = 3
  MaxVersion = 2
  LeafHashes = {"a", "b"}
  MaxMembers = 3
  Words = {1, 2}
  MaxWords = 4
  Coefficients = {0, 1}
  Bits = 4
  Feature <- MCFeature
  Noise <- MCNoise
  Tolerance <- MCTolerance
INVARIANTS
  RoundTrip TamperEvident Strict FindTellsRecords ProducedIsUnderstood
  MatchNamesTheLeaf OwnMediaMatches MatchIsEarned
PROPERTY RepublishedMeansChanged
CHECK_DEADLOCK FALSE
