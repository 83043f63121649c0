CONSTANTS
  Subjects = {a}
  Stamps = {s1, s2}
  Keys = {hii, stranger}
  Issuer = hii
  Roots = {hii}
  BundleSize = 2
  Reconcilers = {r1}
  Faults = {"hintPut"}
  MaxFaults = 1
  MaxChanges = 1
  MaxOthers = 0
SPECIFICATION Spec
INVARIANTS AnchorsMatchArtifacts
