SPECIFICATION Spec
CONSTANTS
  Agent = {a1}
  User = {u1}
  Protocol = {p1, p2}
  Handler = {h1, h2}
  None = None
  MaxFaults = 1
SYMMETRY Symmetry
INVARIANTS
  TypeOK
  OwnerIsFixed
  RoutedIsRegistered
  SpokenIsRouted
PROPERTIES
  DeletedStaysDeleted
  PrivateUntilChanged
  SilentGoesAway
