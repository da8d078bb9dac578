CONSTANTS
  f1 = f1  f2 = f2
  r1 = r1  r2 = r2
  a1 = a1  a2 = a2  h1 = h1  h2 = h2
  Fetches = {f1, f2}
  Requests = {r1, r2}
  Owner <- Owners
  Hosts = {h1, h2}
  Site <- Sites
  Answers <- Zone
  Addresses = {a1, a2}
  Public <- Internet
  NoPeer = NoPeer
  MaxRedirects = 1
  MaxBytes = 2
  MaxChunk = 2
  PoolSize = 1
  DbSize = 1
  OpenFence = FALSE
SPECIFICATION LoadingFairSpec
INVARIANTS LoadingTypeOK PeerWasValidated LostOnlyInRedirect CutOnlyAtCeiling RequestsKeepTheirDownloads
PROPERTIES EveryCallerIsAnswered
CHECK_DEADLOCK FALSE
