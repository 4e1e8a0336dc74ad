SPECIFICATION FairSpec
CONSTANTS
  f1 = f1
  f2 = f2
  d1 = d1
  g1 = g1
  g2 = g2
  x = x
  r1 = r1
  r2 = r2
  Entry = {f1, f2, d1, x}
  SubDir = {d1}
  Files <- MCFiles
  MigrateWorker = {m1, m2}
  Request = {r1, r2}
  Proto <- MCProto
  Grpc = TRUE
  IdleTimer = TRUE
  MaxStarts = 2
INVARIANTS MigrationKeepsFiles GrpcCallsFinish
PROPERTY ShutdownEnds
CHECK_DEADLOCK FALSE
