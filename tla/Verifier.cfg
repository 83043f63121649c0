CONSTANTS
  Subjects = {a}
  Stamps = {s1}
  Keys = {hii, stranger}
  Issuer = hii
  Roots = {hii}
  BundleSize = 2
  ReadFaults = {"bundle", "altered", "artifact", "malformed", "substituted"}
  MaxLog = 3
  MaxVersion = 2
SPECIFICATION MCSpec
INVARIANTS ReasonIsGiven VerdictIsNewest FailsClosed UntrustedMeansNone
