---------------------------- MODULE MCMatchServer ----------------------------
(* Tickets in circulation: two for one player, one of another player under  *)
(* a second lobby seed, one that does not verify, and a valid one of        *)
(* somebody the match was not configured with.                              *)
EXTENDS MatchServer

CONSTANTS p1, p2, p3

Ticket(i, p, ok, cards, seed) ==
  [id |-> i, player |-> p, genuine |-> ok, cards |-> cards, seed |-> seed]

MCTickets ==
  { Ticket(1, p1, TRUE, TRUE, 1),
    Ticket(2, p1, TRUE, TRUE, 0),
    Ticket(3, p2, TRUE, TRUE, 2),
    Ticket(4, p2, FALSE, TRUE, 1),
    Ticket(6, p3, TRUE, TRUE, 1) }

(* One ticket for each player, under different lobby seeds, and one without *)
(* cards.                                                                   *)
MCFewTickets ==
  { Ticket(1, p1, TRUE, TRUE, 1), Ticket(3, p2, TRUE, TRUE, 2), Ticket(5, p2, TRUE, FALSE, 0) }
=============================================================================
