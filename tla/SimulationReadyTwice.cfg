\* A dropped player queues ready a second time.
CONSTANTS
  Players = {1, 2}
  BossMode = TRUE
  MinPlayers = 2
  MaxPlayers = 2
  InputAhead = 1
  SeqAhead = 2
  InputTimeout = 2
  BossHp = 2
  CardDamage = 2
  Cards = {}
  Intents = {"ready"}
  Buttons = {}
  MaxSeq = 2
SPECIFICATION Spec
INVARIANT QueuedReadyIsUnique
