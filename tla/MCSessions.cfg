SPECIFICATION FairSpec
CONSTANTS
  Session = {h1}
  Sub = {u1}
  Closer = {c1}
  Cap = 1
  MaxChunks = 2
INVARIANTS
  NoPanic
  CloseWaits
  SecretsWiped
PROPERTIES
  SubscriptionsEnd
  ClosedSessionsEnd
CHECK_DEADLOCK FALSE
