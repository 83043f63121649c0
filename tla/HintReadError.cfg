CONSTANTS
  Subjects = {a}
  Stamps = {s1}
  Keys = {hii, stranger}
  Issuer = hii
  Roots = {hii}
  BundleSize = 2
  Reconcilers = {r1}
  Faults = {"hintGet"}
  MaxFaults = 1
  MaxChanges = 3
  MaxOthers = 0
CONSTANT ReadFaults = {}
SPECIFICATION FairSystemSpec
PROPERTIES WithdrawalTakesEffect
