--------------------------- MODULE MCHostedMatch ----------------------------
(* A race with a deck on one side: a finisher strong enough to end two     *)
(* phases at once, a ward shorter than the mercy time, a pattern.  A crew  *)
(* of three around a Boss that one shot can hurt more than it has left.    *)
EXTENDS HostedMatch

CONSTANTS a, b, c

Card(kind, cost, cooldown, duration, damage, count) ==
  [kind |-> kind, cost |-> cost, cooldown |-> cooldown, duration |-> duration,
   damage |-> damage, count |-> count]

MCDefinition ==
  [card \in Cards |->
     CASE card = "lance" -> Card("opponent_pattern", 1, 1, 1, 1, 2)
       [] card = "bell" -> Card("bullet_purge", 1, 1, 1, 0, 1)
       [] card = "ward" -> Card("invulnerable", 1, 2, 1, 0, 0)
       [] card = "arc" -> Card("finisher", 2, 3, 1, 2, 0)]

MCDecks == [p \in Players |-> IF p = First THEN <<"arc", "ward", "lance", "bell", "arc">> ELSE <<>>]

(* One player shoots and bombs, or plays the first card and draws; the     *)
(* other holds the trigger.                                                *)
MCIntents ==
  [p \in Players |->
     IF p = First
     THEN {[Rest EXCEPT !.shoot = TRUE, !.bomb = TRUE], [Rest EXCEPT !.slot = 0, !.draw = TRUE], [Rest EXCEPT !.slot = 1], [Rest EXCEPT !.slot = 2], [Rest EXCEPT !.slot = 3]}
     ELSE {[Rest EXCEPT !.shoot = TRUE]}]

MCCrew == <<a, b, c>>

MCRolls ==
  { [want |-> 1, rank |-> [s \in Seating |-> s], die |-> 0],
    [want |-> 3, rank |-> [s \in Seating |-> s], die |-> 2],
    [want |-> 3, rank |-> [s \in Seating |-> 2 - s], die |-> 1] }
=============================================================================
