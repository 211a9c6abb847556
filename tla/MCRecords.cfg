\* Two connections on one document, two updates, two saves between compactions
\* and revisions; three sign-ins; a connection with three consents.
SPECIFICATION RecordsSpec
CONSTANTS
  Client = {c1, c2}
  MaxUpdates = 2
  MaxSnapshots = 2
  MaxOps = 2
  Nobody = Nobody
  SignIn = {s1, s2, s3}
  MaxRequests = 4
  MaxDrops = 1
  Caller = {r1, r2}
  MaxConsents = 3
SYMMETRY Interchangeable
INVARIANTS
  RoomsSound
  RevisionsInOrder
  LostOnlyOverlooked
  JoinedReaderMissesNothing
  SignInsSound
  ConnectorSound
CHECK_DEADLOCK FALSE
