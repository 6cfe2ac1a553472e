--------------------------- MODULE MCBattleServer ---------------------------
(* Two players, two tickets for one of them, one ticket of the other mode.  *)
EXTENDS BattleServer

Ticket(i, p, m) == [id |-> i, player |-> p, mode |-> m]

MCTickets ==
  { Ticket(1, 1, "instance_boss"),
    Ticket(2, 2, "instance_boss"),
    Ticket(3, 1, "instance_boss"),
    Ticket(4, 1, "world_boss") }
=============================================================================
