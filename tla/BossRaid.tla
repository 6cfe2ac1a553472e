------------------------------ MODULE BossRaid ------------------------------
(***************************************************************************)
(* What a boss match promises the lobby and its players, whatever queues,  *)
(* ticks and connection events produce it.                                 *)
(*                                                                         *)
(*  - The roster only grows.  The fight begins at one instant, at which    *)
(*    every registered player is online and the roster has a legal size.   *)
(*  - The fight is never called off, and a win is final.                   *)
(*  - A transferable card is free, or promised to one transfer, or moved.  *)
(*    It moves only after it was promised, between two different players   *)
(*    that are both online, and it never moves again.  After the win the   *)
(*    cards stay where they are.                                           *)
(***************************************************************************)
EXTENDS Integers, FiniteSets

CONSTANTS
  Players,      \* player ids
  Cards,        \* transferable card instances
  NoPlayer,     \* not a player
  MinPlayers,   \* the fewest players a fight begins with
  MaxPlayers    \* the most

VARIABLES
  roster,   \* registered players
  online,   \* the ones connected now
  phase,    \* "gathering", "fighting", "won"
  custody   \* per card: its stage and, once moved, who gave it to whom

vars == <<roster, online, phase, custody>>

Free == [stage |-> "free", from |-> NoPlayer, to |-> NoPlayer]
Promised == [stage |-> "promised", from |-> NoPlayer, to |-> NoPlayer]
Moved(p, q) == [stage |-> "moved", from |-> p, to |-> q]

Init ==
  /\ roster = {}
  /\ online = {}
  /\ phase = "gathering"
  /\ custody = [c \in Cards |-> Free]

(* Players register, drop and come back in any phase.                      *)
Presence ==
  /\ roster \subseteq roster'
  /\ roster' \subseteq Players
  /\ online' \subseteq roster'

Begin ==
  /\ phase = "gathering"
  /\ phase' = "fighting"
  /\ roster' = roster
  /\ Cardinality(roster) \in MinPlayers..MaxPlayers
  /\ online' = roster

Win ==
  /\ phase # "won"
  /\ phase' = "won"

Progress == UNCHANGED phase \/ Begin \/ Win

Handover(c) ==
  \/ UNCHANGED custody[c]
  \/ custody[c] = Free /\ custody'[c] = Promised
  \/ custody[c] = Promised /\ custody'[c] = Free
  \/ /\ custody[c] = Promised
     /\ \E p, q \in online' : p # q /\ custody'[c] = Moved(p, q)

Next ==
  /\ Presence
  /\ Progress
  /\ \A c \in Cards : Handover(c)
  /\ phase = "won" => UNCHANGED custody

Spec == Init /\ [][Next]_vars
=============================================================================
