\* Libraries of ten titles; 240 files asked for by four players of six boxes, in three
\* tastes of language; three subtitle tracks, one request over the tunnel, five bytes
\* of stream, four settings writers.
SPECIFICATION DaemonSpec
CONSTANTS
  Parts = {"new profile", "profile", "feed", "playback", "subtitles", "tunnel", "read-ahead",
           "limiter", "settings", "update", "tools"}
  Feature <- MCFeature
  BroadGenre <- MCBroad
  RowItems = 5
  HourBucket = "evening"
  ForYouItems = 4
  RewatchFloor = 100
  RowsShown = 5
  MaxSameStrategy = 2
  Histories <- MCHistories
  WarmLibraries <- MCLibraries
  Offers <- MCOffers
  Render = {h1, h2}
  RetireServed = 2
  Registries <- MCRegistries
  FeedBudgets <- MCBudgets
  u1 = u1
  u2 = u2
  u3 = u3
  Track = {u1, u2, u3}
  OcrWorker = {o1, o2}
  Kind <- MCTrackKind
  Capacity = 1
  MaxRow = 2
  MaxCalls = 3
  MediaFile <- MCMediaFile
  Client <- MCClient
  Machine <- MCMachine
  Taste <- MCTaste
  Envelope = {"good", "bad_url", "not_json"}
  Status = {200, 404}
  MaxChunks = 2
  MaxBytes = 5
  ChunkBytes = 2
  Chunks = 2
  LimitKey = {"a", "b"}
  Window = 2
  MaxHits = 2
  MaxTicks = 4
  Folder = {f1}
  TmdbKey = {k1}
  NoKey = NoKey
  NoFile = NoFile
  MaxAtOnce = 2
  MaxCodes = 2
  MaxBoots = 2
  MaxVersion = 2
  MaxStreams = 1
  Signed = TRUE
  Installer = {daemon, cli}
  MaxBuild = 2
INVARIANTS SlateSound ScreenCurrent TracksKept SettingsHold Installed PlanHolds HandedOn
PROPERTIES RestEarned OcrSettles
CHECK_DEADLOCK FALSE
