CONSTANTS
  Players = {1, 2}
  BossMode = TRUE
  MinPlayers = 1
  MaxPlayers = 2
  InputAhead = 1
  SeqAhead = 2
  InputTimeout = 0
  BossHp = 1
  CardDamage = 1
  Cards = {}
  Intents = {"cast_card"}
  Buttons = {}
  MaxSeq = 1
  Tickets <- MCTickets
  BossModes = {"world_boss", "instance_boss"}
  Capacity = 2
SPECIFICATION ServerSpec
INVARIANT BeatenBossCanBeSettled
CHECK_DEADLOCK FALSE
