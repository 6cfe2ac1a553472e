\* Tickets are asked for but not enforced; a tick limit ends what does not end itself.
CONSTANTS
  p1 = p1
  p2 = p2
  p3 = p3
  Seats = {p1, p2}
  Strangers = {p3}
  Convs = {c1, c2}
  Tickets <- MCFewTickets
  Requirement = "warn"
  Coop = FALSE
  LobbyConfigured = TRUE
  SubmitEnabled = TRUE
  Outcomes = {"ok", "failed"}
  Silence = 2
  Cooldown = 2
  Backoff = 2
  MaxTicks = 4
  MinPlayers = 2
SPECIFICATION Spec
INVARIANTS OneLobbySeed FinishedMatchLeavesItsRecord
PROPERTY ConversationKeepsItsPlayer
CHECK_DEADLOCK FALSE
