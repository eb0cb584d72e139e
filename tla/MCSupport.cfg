SPECIFICATION Spec
CONSTANTS
  Resolvers = {"ra", "rb"}
  Gaters = {"g"}
  Posters = {"pa", "pb"}
  Chats = {"anthropic", "openai", "second"}
  ChatFormat <- MCChatFormat
  Fingerprints = {f1, f2, f3}
  ConvMapMax = 1
  ConvMapEvictTarget = 0
  Askers = {a1}
  Reports <- MCReports
  Overrides = {0, 1}
  ManualLimits = {0, 5}
  MaxChanges = 2
  Readers = {r1, r2}
  Keys = {k1, k2}
  MaxWindow = 2
  MaxThrottled = 1
  Submitters = {s1, s2}
  Savers = {t1, t2}
  MaxVersion = 2
  Callers = {c1, c2}
  Validators = {v1}
  MaxCatalog = 2
  x = x
  y = y
  Images = {x, y}
  Viewers = {h1}
  Payloads <- MCPayloads
  ImageLimits = {0,2}
  FallbackLimit = 3
  SemSize = 2
  CacheSize = 1
  Requests = {q1, q2}
  Gates = {1}
  MaxQueueSize = 2
INVARIANTS
  SupportTypeOK
  OneVoice TimeoutIsAnswered
  WriterIsAlone StuckOnlyByRecursion
  ListWellFormed SessionsAreNotShared
  EffectiveRespectsReport GateKeepsTheHardCap
  ServedItsOwn
  TornOnlyByOverlap ConfigPostsSaveInOrder
  NeverOlderThanCached
  ImagesAreReplaced CacheIsSound
PROPERTIES
  ClaimIsFinal ServeHTTPReturns HandlerIsReleased
  GateSettles
  ForgottenOnlyByTwoFetches
  DiskNeverGoesBack AcceptedIsSaved
  ModelsGoBackOnlyByOverlap
  HandoffEnds
  QueuedIsServed ShutdownTerminates
CHECK_DEADLOCK FALSE
