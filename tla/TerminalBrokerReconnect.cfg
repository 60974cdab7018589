SPECIFICATION FairSpec
CONSTANTS
  s1 = s1
  s2 = s2
  Sockets = {s1, s2}
  MaxLinks = 1
PROPERTIES
  ReconnectAttaches
CHECK_DEADLOCK FALSE
