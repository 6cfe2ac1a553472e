\* A lobby that always answers.
CONSTANTS
  p1 = p1
  p2 = p2
  p3 = p3
  Seats = {p1, p2}
  Strangers = {p3}
  Convs = {c1}
  Tickets = {}
  Requirement = "off"
  Coop = FALSE
  LobbyConfigured = TRUE
  SubmitEnabled = TRUE
  Outcomes = {"ok"}
  Silence = 3
  Cooldown = 10
  Backoff = 4
  MaxTicks = 0
  MinPlayers = 2
SPECIFICATION Spec
INVARIANT NothingLeftAtTheEnd
CHECK_DEADLOCK FALSE
