CONSTANTS
  RootKeys = {hii, old}
  SignerKeys = {k}
  Creators = {alice, bob}
  Times = {1, 2, 3}
  MaxRoots = 2
  MaxBindings = 3
SPECIFICATION Spec
INVARIANTS BindingsStayVouched OrderFree
PROPERTIES CutoffShieldsResolution PastStands
