\* A queued reconnect brings a player back with the input they held.
CONSTANTS
  Players = {1, 2}
  BossMode = TRUE
  MinPlayers = 2
  MaxPlayers = 2
  InputAhead = 1
  SeqAhead = 2
  InputTimeout = 2
  BossHp = 2
  CardDamage = 2
  Cards = {}
  Intents = {"ready", "reconnect"}
  Buttons = {"shoot"}
  MaxSeq = 3
SPECIFICATION Spec
PROPERTY RejoinFromNeutral
