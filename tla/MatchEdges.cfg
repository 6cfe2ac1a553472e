\* Packets of two players, datagrams of three endpoints, a result, a replay,
\* reports, and the first 910 frames of a race.
CONSTANTS
  g1 = g1
  g2 = g2
  Edges = {"packets", "datagrams", "result", "replay", "reports", "timeline"}
  Catalog = {"lance", "bell"}
  HandMost = 1
  DeckMost = 2
  EnergyMost = 1
  SeedMost = 15
  Clock = 5
  Gamers = {g1, g2}
  Headers <- MCHeaders
  Hellos <- MCHellos
  Remotes = {"here", "elsewhere"}
  Jump = 1
  InputAhead = 1
  MaxNo = 2
  TopTick = 2
  TopClock = 1
  Peers = {"r1", "r2", "r3"}
  ConvCount = 4
  FirstOwn = 2
  MaxSessions = 3
  Modes = {"world_boss", "instance_boss", "duel"}
  Rosters = {{"ann", "bob"}, {"grantham"}}
  Reserved = {"grantham"}
  Health = 2
  LastTick = 2
  ClockKnown = TRUE
  Forged = Forged
  Speakers = {"ann", "bob"}
  Payloads = {"up", "down", "long"}
  TooLong = {"long"}
  Users = {"", "u1"}
  MaxEntries = 3
  ChunkSize = 2
  Collectors = {"host", "battle"}
  RowLimit = 3
  PerSubmit = 2
  Cooldown = 1
  Backoff = 2
  MaxRows = 5
  MaxPosts = 4
  Battles <- MCBattles
  TopFrame = 910
SPECIFICATION EdgesSpec
INVARIANTS EdgesTypeOK OneAcceptancePerNumber IndexIsTrue OnlyTheTruthSettles
  AcceptedReplayIsTheRecorded ReportsInOrder NothingScheduledIsSkipped
PROPERTIES RemoteMovesWhileAway SilenceDeafens
CHECK_DEADLOCK FALSE
