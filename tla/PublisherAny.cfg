CONSTANTS
  Subjects = {a}
  Stamps = {s1}
  Keys = {hii, stranger}
  Issuer = hii
  Roots = {hii}
  BundleSize = 2
  Reconcilers = {r1, r2}
  Faults = {"hintGet", "artifactGet", "logSize", "artifactPut", "artifactPutLost", "append", "appendLost", "hintPut", "hintPutLost", "crash", "crashAnchored"}
  MaxFaults = 1
  MaxChanges = 1
  MaxOthers = 1
SPECIFICATION Spec
INVARIANTS AnchorsNameArtifacts HintNamesAnchor
SYMMETRY CallSymmetry
