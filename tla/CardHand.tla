------------------------------ MODULE CardHand ------------------------------
(***************************************************************************)
(* The ledger of one player's hand: src/src/card_hand.cpp, and what the    *)
(* effect of a card does to the bullets of a match, src/src/               *)
(* card_effects.cpp.  Both are pure; the simulations call them in a tick.  *)
(*                                                                         *)
(* Energy is counted in the steps it is regained by (kCardEnergyPerTick),  *)
(* of which every cost is a whole number, so the tolerance of 0.0001 in    *)
(* the code, which only absorbs the rounding of doubles, has nothing to    *)
(* do here.  A bullet is one of a number of like bullets of its owner.     *)
(***************************************************************************)
EXTENDS Integers, Sequences, FiniteSets, SequencesExt

CONSTANTS
  Cards,       \* card ids of the catalog
  Definition,  \* card -> [kind, cost, cooldown, duration, damage, count]
  HandLimit,   \* kCardHandLimit
  MaxEnergy    \* kCardMaxEnergy

Kinds == {"opponent_pattern", "bullet_purge", "invulnerable", "finisher", "other"}

ASSUME CatalogAssumption ==
  /\ Definition \in [Cards -> [kind : Kinds, cost : Nat, cooldown : Nat,
                               duration : Nat, damage : Nat, count : Nat]]
  /\ HandLimit \in Nat \ {0}
  /\ MaxEnergy \in Nat

NoSlot == -1

(* SeedHand: the dealt cards are the front of the deck, and the cursor     *)
(* goes on behind them; a ticket without a deck leaves it at 0.            *)
DealtHand(dealt, deck, energy) ==
  [cards |-> dealt, deck |-> deck, cursor |-> IF deck = <<>> THEN 0 ELSE Len(dealt),
   energy |-> energy, cooling |-> [c \in Cards |-> 0]]

(* Before a deal the hand is empty and its pipeline off.                   *)
NoHand == DealtHand(<<>>, <<>>, 0)

Regain(hand) ==
  [hand EXCEPT !.energy = IF @ + 1 <= MaxEnergy THEN @ + 1 ELSE MaxEnergy]

CastAccepted(hand, slot, tick) ==
  /\ slot \in 0 .. Len(hand.cards) - 1
  /\ LET card == hand.cards[slot + 1]
     IN  /\ tick >= hand.cooling[card]
         /\ hand.energy >= Definition[card].cost

CardAt(hand, slot) == hand.cards[slot + 1]

\* mutant: a hand at its limit draws one more card
CanDrawAtLimit(hand) == Len(hand.cards) <= HandLimit /\ hand.deck # <<>>

CanDraw(hand) == Len(hand.cards) < HandLimit /\ hand.deck # <<>>

(* The deck is dealt over and over: the cursor never stops.                *)
DrawServerCard(hand) ==
  IF CanDraw(hand)
  THEN [hand EXCEPT !.cards = Append(@, hand.deck[(hand.cursor % Len(hand.deck)) + 1]),
                    !.cursor = @ + 1]
  ELSE hand

(* An accepted cast: pay, cool down, leave the hand, draw one.             *)
ApplyCast(hand, slot, tick) ==
  LET card == CardAt(hand, slot)
  IN  DrawServerCard([hand EXCEPT !.energy = @ - Definition[card].cost,
                                  !.cooling[card] = tick + Definition[card].cooldown,
                                  !.cards = RemoveAt(@, slot + 1)])
-----------------------------------------------------------------------------
(* ApplyOpponentPattern: as many as the field has room for.                *)
PatternSize(count, existing, fieldLimit) ==
  IF existing >= fieldLimit THEN 0
  ELSE IF count <= fieldLimit - existing THEN count ELSE fieldLimit - existing

(* BuildCardActivation, ApplyInvulnerable: protection ends with the card.  *)
ExpiresTick(card, tick) == tick + Definition[card].duration
=============================================================================
