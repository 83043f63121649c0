\* Two presses of the button that may overlap.
SPECIFICATION Spec
CONSTANTS
  c1 = c1
  c2 = c2
  Clicks = {c1, c2}
  Fingerprints = {"text", "blank", "missing"}
  Forms <- MCForms
  MaxChanges = 1
INVARIANTS VerifiedMeansVerified SettlesOnAnswer CopyIsConsistent
CHECK_DEADLOCK FALSE
