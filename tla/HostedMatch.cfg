\* One hosted match, a race under either ruleset or a co-op match.
CONSTANTS
  a = a
  b = b
  c = c
  Modes = {"race", "coop"}
  Cards = {"lance", "bell", "ward", "arc"}
  Definition <- MCDefinition
  HandLimit = 4
  MaxEnergy = 3
  First = p1
  Second = p2
  Rulesets = {"classic", "danmaku"}
  Decks <- MCDecks
  DealtSize = 4
  StartEnergy = 2
  Seeds = {1}
  Flaky = {p1}
  BossMaxHp = 3
  ShotDamage = 2
  BombDamage = 1
  ShotPause = 2
  Lives = 2
  Bombs = 1
  Mercy = 1
  Phases = 3
  BulletCap = 1
  Burst = 1
  ReportEvery = 2
  Window = 2
  Intents <- MCIntents
  MaxSeq = 1
  MaxTick = 4
  Crew <- MCCrew
  MaxSeats = 3
  MinSeats = 2
  SetHp = 0
  HpPerSeat = 1
  Rolls <- MCRolls
  Powers = {2}
  Cycle = 4
  ShieldFrom = 1
  ShieldFor = 2
  CannonFrom = 2
  CannonFor = 2
  SpiralFor = 1
  FanEvery = 2
  FanSize = 2
  SpiralEvery = 2
  ShowerCap = 2
  Ahead = 1
  LastSeq = 1
  LastTick = 5
SPECIFICATION HostedSpec
INVARIANTS HostedTypeOK DamageAddsUp CapturesAreEarned HeldInputPlaysNothing WinnerIsFair
           SharedDamageAddsUp ShowerIsBounded
PROPERTIES MercyIsKept StalemateLasts BlockedSeatsDealNothing
CHECK_DEADLOCK FALSE
