---------------------------- MODULE MCMatchEdges ----------------------------
(* Two players with a good ticket each; the first may shake hands under    *)
(* two random numbers.  Hellos that fail: an expired ticket, a hand that   *)
(* is not the front of its deck, a seed that does not fit its integer or   *)
(* has a leading zero, no common cipher.                                   *)
EXTENDS MatchEdges

CONSTANTS g1, g2

Ticket(deck, expires, digits) ==
  [hand |-> <<"lance">>, deck |-> deck, energy |-> 1, issued |-> 1, expires |-> expires,
   seed |-> [negative |-> TRUE, digits |-> digits], faults |-> {}]

Hello(p, ticket, random, aeads) ==
  [player |-> p, ticket |-> ticket, hasKey |-> TRUE, random |-> random, aeads |-> aeads]

Good == Ticket(<<"lance", "bell">>, 9, <<1, 6>>)

MCHellos ==
  { Hello(g1, Good, 1, Aeads), Hello(g1, Good, 2, {"XCHACHA20_POLY1305"}),
    Hello(g2, Ticket(<<>>, 9, <<0>>), 1, Aeads),
    Hello(g2, Ticket(<<"bell">>, 9, <<0>>), 1, Aeads), Hello(g1, Ticket(<<>>, 4, <<0>>), 1, Aeads),
    Hello(g2, Ticket(<<>>, 9, <<1, 7>>), 1, Aeads), Hello(g2, Ticket(<<>>, 9, <<0, 1>>), 2, Aeads),
    Hello(g1, Good, 1, {"AES_256_GCM"}) }

(* The first player has two numbers, the second only one, for a ping.      *)
MCHeaders ==
  {h \in AllHeaders :
     /\ h.key[1] = h.player
     /\ h.player = g1 => h.type \in (IF h.no = 1 THEN {"input"} ELSE {"mode_action", "ping", "reconnect"})
     /\ h.player = g2 => h.no = 1 /\ h.type = "ping" /\ h.tick = TopTick}

(* The fights of the timeline: each ruleset, each Boss, each difficulty.    *)
Fight(ruleset, boss, difficulty) ==
  [ruleset |-> ruleset, boss |-> boss, difficulty |-> difficulty]

MCBattles ==
  {Fight("synthetic", "none", 1), Fight("plain", "none", 1), Fight("plain", "tian", 0), Fight("plain", "hui", 1)}
    \cup {Fight("mechanics", b, d) : b \in {"none", "boss21_tna"} , d \in 0..3}
    \cup {Fight("mechanics", "tian", 0), Fight("mechanics", "hui", 2), Fight("mechanics", "boss21", 3)}
=============================================================================
