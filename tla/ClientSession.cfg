SPECIFICATION Spec
CONSTANTS
  s1 = s1
  s2 = s2
  Sockets = {s1, s2}
  MaxLinks = 3
INVARIANTS
  LiveIsRegistered
  NoOrphanAttachment
  EntryHasOwner
  AttachedIsShown
PROPERTIES
  ImplementsBroker
SYMMETRY SocketSymmetry
CHECK_DEADLOCK FALSE
