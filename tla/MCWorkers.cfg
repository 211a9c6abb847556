\* A ticket with a follow-up and two faults; a thread named twice; two
\* exports, three downloads of each and a limit of two.
SPECIFICATION WorkersFairSpec
CONSTANTS
  Worker = {w1, w2}
  Ticket = {t1}
  Job = {j1, j2}
  MaxAttempts = 2
  MaxAsks = 2
  MaxFaults = 2
  None = None
  TitleJob = {n1, n2}
  TitleWorker = {v1, v2}
  Listener = {i1, i2}
  MaxRenames = 2
  MaxTitleFaults = 1
  Exporter = {x1, x2}
  Export = {e1, e2}
  DownloadLimit = 2
  MaxClicks = 3
  MaxBreaks = 1
  NoExport = NoExport
INVARIANTS
  SupportSound
  FollowUpsAnswered
  TitlesSound
  ExportsSound
PROPERTIES
  ImplementsPromise
  WorkSettles
CHECK_DEADLOCK FALSE
