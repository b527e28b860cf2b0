SPECIFICATION FollowSpec
CONSTANTS
  s1 = s1
  s2 = s2
  a = a
  b = b
  Sessions = {s1, s2}
  IDs = {a, b}
  IdOf <- MCIdOf
  Clients = {c1, c2}
  MaxBuffer = 2
  ChannelSize = 2
  MaxSessions = 1
  MaxLines <- MCMaxLines
INVARIANTS TypeOK Accounted
PROPERTIES InOrder StreamEnds
CHECK_DEADLOCK FALSE
