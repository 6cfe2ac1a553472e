\* Two players are the whole room; a boss falls to two shots or to one card.
CONSTANTS
  Players = {1, 2}
  BossMode = TRUE
  MinPlayers = 2
  MaxPlayers = 2
  InputAhead = 1
  SeqAhead = 2
  InputTimeout = 2
  BossHp = 2
  CardDamage = 2
  Cards = {c1}
  Intents = {"ready", "reconnect", "transfer_card", "cast_card"}
  Buttons = {"shoot", "cast"}
  MaxSeq = 2
SPECIFICATION Spec
INVARIANTS TypeOK ReservationsBacked CustodyIsExclusive
PROPERTY ImplementsBossRaid
