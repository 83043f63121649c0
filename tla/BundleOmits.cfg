\* An entry bundle served without its anchor.
CONSTANTS
  Subjects = {a}
  Stamps = {s1}
  Keys = {hii, stranger}
  Issuer = hii
  Roots = {hii}
  BundleSize = 2
  ReadFaults = {"altered"}
  MaxLog = 2
  MaxVersion = 1
SPECIFICATION MCSpec
INVARIANT AnchorBarsVerified
