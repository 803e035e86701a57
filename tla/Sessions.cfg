\* The session of a user, its idle expiry six ticks and its cap nine, with two
\* requests in flight; a request and a slide may take a tick.
SPECIFICATION FairSpec
CONSTANTS
  Null = Null
  Session = {s1}
  Request = {r1, r2}
  Idle = 6
  Absolute = 9
  Slack = 2
  MaxRequest = 1
  MaxWrite = 1
  LastStart = 0
  MaxTime = 10
INVARIANTS
  SessionsTypeOK
  AcceptedIsFresh
  ActiveKeepsSession
  TombstoneForces
PROPERTIES
  ImplementsLife
  EveryDocumentGoes
