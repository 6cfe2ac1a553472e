CONSTANTS
  Players = {1, 2}
  BossMode = TRUE
  MinPlayers = 1
  MaxPlayers = 2
  InputAhead = 1
  SeqAhead = 2
  InputTimeout = 0
  BossHp = 1
  CardDamage = 1
  Cards = {c1}
  Intents = {"ready", "reconnect", "cast_card"}
  Buttons = {"shoot"}
  MaxSeq = 2
  Tickets <- MCTickets
  BossModes = {"world_boss", "instance_boss"}
  Capacity = 2
SPECIFICATION ServerSpec
INVARIANTS ServerTypeOK SettledIsFrozen SessionsAreTheRoster LockedBeforeTheFight
PROPERTIES NobodyJoinsAFight ImplementsMatchLifecycle
CHECK_DEADLOCK FALSE
