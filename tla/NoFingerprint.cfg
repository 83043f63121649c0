\* A record without the fingerprint of a text, and the title that calls files copies.
SPECIFICATION Spec
CONSTANTS
  c1 = c1
  c2 = c2
  Clicks = {c1, c2}
  Fingerprints = {"missing", "blank"}
  Forms <- MCForms
  MaxChanges = 1
INVARIANT CopyHasEvidence
CHECK_DEADLOCK FALSE
