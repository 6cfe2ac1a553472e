\* Tickets are enforced; no tick limit, and a lobby whose answers may be lost.
CONSTANTS
  p1 = p1
  p2 = p2
  p3 = p3
  Seats = {p1, p2}
  Strangers = {p3}
  Convs = {c1, c2, c3}
  Tickets <- MCTickets
  Requirement = "on"
  Coop = FALSE
  LobbyConfigured = TRUE
  SubmitEnabled = TRUE
  Outcomes = {"ok", "failed", "lost"}
  Silence = 3
  Cooldown = 2
  Backoff = 2
  MaxTicks = 0
  MinPlayers = 2
SPECIFICATION Spec
INVARIANTS HostTypeOK ReportIsKept TicketsPayOnce
PROPERTY LobbyHearsOfAbandonment
CHECK_DEADLOCK FALSE
