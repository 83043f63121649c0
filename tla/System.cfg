\* Publisher, log and verifier, one call at a time, harmless failures, fairness.
CONSTANTS
  Subjects = {a}
  Stamps = {s1}
  Keys = {hii, stranger}
  Issuer = hii
  Roots = {hii}
  BundleSize = 2
  Reconcilers = {r1}
  Faults = {"artifactGet", "logSize", "artifactPut", "artifactPutLost", "append", "hintPutLost", "crash"}
  MaxFaults = 1
  MaxChanges = 2
  MaxOthers = 1
  ReadFaults = {"bundle", "artifact"}
SPECIFICATION FairSystemSpec
INVARIANTS NoFalseAlarm VersionsIncrease AnchorsMatchArtifacts
PROPERTIES KeepsPromise SuccessIsCommitted NoRedundantAnchor RecordsEventuallyShown WithdrawalTakesEffect
