\* No boss: the fight always takes input.  Silence, abandonment and reconnects.
CONSTANTS
  Players = {1, 2}
  BossMode = FALSE
  MinPlayers = 2
  MaxPlayers = 2
  InputAhead = 2
  SeqAhead = 2
  InputTimeout = 2
  BossHp = 1
  CardDamage = 0
  Cards = {}
  Intents = {"reconnect", "select_round_card"}
  Buttons = {}
  MaxSeq = 2
SPECIFICATION Spec
INVARIANT SilenceIsFresh
PROPERTIES SilenceIsNoticed AbandonmentIsReported ReconnectIsResolved
