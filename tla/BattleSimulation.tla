-------------------------- MODULE BattleSimulation --------------------------
(***************************************************************************)
(* The authoritative simulation of one match, src/src/simulation.cpp:      *)
(* roster, connection state, the input and mode-action queues, readiness,  *)
(* card transfers, the boss and the silence timeout.                       *)
(*                                                                         *)
(* The code keys both queues by absolute tick and only ever looks at the   *)
(* distance to current_tick_, so a queued item carries `due', the number   *)
(* of Tick() calls until it is applied.  Time is therefore unbounded here. *)
(* Positions, bullets, hands and the hash/trace material are left out: a   *)
(* cast either lands (and then does CardDamage) or is rejected by the hand.*)
(***************************************************************************)
EXTENDS Integers, FiniteSets

CONSTANTS
  Players,        \* player ids; numbers, because std::map and the action sort order them
  BossMode,       \* IsBossMode(config_.mode_id); the other mode modelled is battle_royale
  MinPlayers,     \* kBossModeMinPlayers
  MaxPlayers,     \* kBossModeMaxPlayers
  InputAhead,     \* config_.max_input_ahead_ticks
  SeqAhead,       \* config_.max_seq_ahead
  InputTimeout,   \* config_.input_timeout_ticks, 0 when silence is not detected
  BossHp,         \* config_.boss_max_hp, in shots (10 hp each)
  CardDamage,     \* damage of a card that lands, in shots
  Cards,          \* transferable card instances
  Intents,        \* the mode-action types clients send
  Buttons,        \* what an input may ask for besides moving: "shoot", "cast"
  MaxSeq          \* bound: sequence numbers a client may use

NoPlayer == 0

ASSUME PlayersAssumption == Players \subseteq Nat \ {NoPlayer} /\ IsFiniteSet(Players)
ASSUME ModeAssumption == BossMode \in BOOLEAN
ASSUME RosterAssumption == MinPlayers \in Nat \ {0} /\ MaxPlayers \in Nat
ASSUME WindowAssumption == InputAhead \in Nat \ {0} /\ SeqAhead \in Nat \ {0} /\ MaxSeq \in Nat
(* 1 would drop a player inside the very tick that starts the fight; the  *)
(* two values in use are 0 and three seconds of ticks.                     *)
ASSUME TimeoutAssumption == InputTimeout \in Nat \ {1}
ASSUME BossAssumption == BossHp \in Nat \ {0} /\ CardDamage \in Nat
ASSUME IntentAssumption ==
  /\ Intents \subseteq {"ready", "reconnect", "cast_card", "transfer_card", "select_round_card"}
  /\ Buttons \subseteq {"shoot", "cast"}

VARIABLES
  players,          \* ids in players_
  connected,        \* PlayerState::connected
  lastSeq,          \* PlayerState::last_seq
  held,             \* PlayerState::last_input: does it hold the shoot button?
  idle,             \* PlayerState::ticks_without_input
  inputs,           \* pending_inputs_by_tick_
  actions,          \* pending_mode_actions_by_tick_
  ready,            \* ready_player_ids_
  pendingReady,     \* pending_ready_player_ids_
  pendingReconnect, \* pending_reconnect_player_ids_
  cards,            \* transferable_cards_
  reserved,         \* reserved_transfer_card_instance_ids_
  edges,            \* transferred_card_edges_
  bossHp,           \* boss_current_hp_
  combatStarted,    \* boss_combat_started_
  allReported       \* all_players_disconnected_emitted_

roomVars == <<players, ready, pendingReady, pendingReconnect>>
presenceVars == <<connected, held, idle>>
playerVars == <<presenceVars, lastSeq>>
cardVars == <<cards, reserved, edges>>
bossVars == <<bossHp, combatStarted, allReported>>
vars == <<roomVars, playerVars, inputs, actions, cardVars, bossVars>>

Delays == 1..InputAhead
Seqs == 1..MaxSeq

Input == [player : Players, due : Delays, buttons : SUBSET Buttons]

ModeAction == [player : Players, due : Delays, seq : Seqs, type : Intents,
               target : Players \cup {NoPlayer}, card : SUBSET Cards]

CardState == [owner : Players \cup {NoPlayer}, usable : BOOLEAN]
Edge == [from : Players \cup {NoPlayer}, to : Players \cup {NoPlayer}]

Unconfigured == [owner |-> NoPlayer, usable |-> FALSE]
NoEdge == [from |-> NoPlayer, to |-> NoPlayer]

TypeOK ==
  /\ players \subseteq Players
  /\ connected \in [Players -> BOOLEAN]
  /\ lastSeq \in [Players -> 0..MaxSeq]
  /\ held \in [Players -> BOOLEAN]
  /\ idle \in [Players -> 0..InputTimeout]
  /\ inputs \subseteq Input
  /\ actions \subseteq ModeAction
  /\ \A q \in inputs \cup actions : q.player \in players
  /\ \A a \in actions : a.card # {} => a.type = "transfer_card"
  /\ ready \subseteq players
  /\ pendingReady \subseteq players
  /\ pendingReconnect \subseteq players
  /\ cards \in [Cards -> CardState]
  /\ reserved \subseteq Cards
  /\ edges \in [Cards -> Edge]
  /\ bossHp \in 0..BossHp
  /\ combatStarted \in BOOLEAN
  /\ allReported \in BOOLEAN

Init ==
  /\ players = {}
  /\ connected = [p \in Players |-> TRUE]
  /\ lastSeq = [p \in Players |-> 0]
  /\ held = [p \in Players |-> FALSE]
  /\ idle = [p \in Players |-> 0]
  /\ inputs = {}
  /\ actions = {}
  /\ ready = {}
  /\ pendingReady = {}
  /\ pendingReconnect = {}
  /\ cards = [c \in Cards |-> Unconfigured]
  /\ reserved = {}
  /\ edges = [c \in Cards |-> NoEdge]
  /\ bossHp = BossHp
  /\ combatStarted = FALSE
  /\ allReported = FALSE

-----------------------------------------------------------------------------
(* Readiness of the room.                                                  *)

Defeated == BossMode /\ bossHp = 0

DueInputs == {i \in inputs : i.due = 1}
DueActions == {a \in actions : a.due = 1}

DueActors(type) == {a.player : a \in {b \in DueActions : b.type = type}}

ReadyWhoeverIsOnline(readyIds, online) ==   \* mutant: dropped players are not waited for
  /\ BossMode
  /\ Cardinality(players) \in MinPlayers..MaxPlayers
  /\ \A p \in players : online[p] => p \in readyIds

EveryoneIsReady(readyIds, online) ==
  /\ BossMode
  /\ Cardinality(players) \in MinPlayers..MaxPlayers
  /\ \A p \in players : online[p] /\ p \in readyIds

(* A ready action queued for the coming tick already counts.               *)
BossReadyToStart == EveryoneIsReady(ready \cup DueActors("ready"), connected)

InputEnabled == ~Defeated /\ (~BossMode \/ combatStarted \/ BossReadyToStart)

BossRosterReadyToLock == BossMode /\ (combatStarted \/ BossReadyToStart)

-----------------------------------------------------------------------------
(* Operations of the room.                                                 *)

AddPlayer(p) ==
  /\ p \in Players \ players
  /\ BossMode => Cardinality(players) < MaxPlayers
  /\ players' = players \cup {p}
  /\ UNCHANGED <<ready, pendingReady, pendingReconnect, playerVars, inputs,
                 actions, cardVars, bossVars>>

ConfigureTransferableCard(c, p, usable) ==
  /\ BossMode
  /\ p \in players
  /\ cards' = [cards EXCEPT ![c] = [owner |-> p, usable |-> usable]]
  /\ UNCHANGED <<roomVars, playerVars, inputs, actions, reserved, edges, bossVars>>

(* A rejoining player restarts from neutral input and gives up a reconnect *)
(* that is still queued; a leaving player gives up readiness.              *)
Rejoin(p) ==
  /\ p \in players
  /\ ~connected[p]
  /\ connected' = [connected EXCEPT ![p] = TRUE]
  /\ idle' = [idle EXCEPT ![p] = 0]
  /\ held' = [held EXCEPT ![p] = FALSE]
  /\ pendingReconnect' = pendingReconnect \ {p}
  /\ UNCHANGED <<players, ready, pendingReady, lastSeq, inputs, actions, cardVars, bossVars>>

LeaveKeepsCount(p) ==   \* mutant: the silence counter survives the drop
  /\ p \in players
  /\ connected[p]
  /\ connected' = [connected EXCEPT ![p] = FALSE]
  /\ ready' = ready \ {p}
  /\ pendingReady' = pendingReady \ {p}
  /\ UNCHANGED <<players, pendingReconnect, lastSeq, held, idle, inputs, actions, cardVars, bossVars>>

Leave(p) ==
  /\ p \in players
  /\ connected[p]
  /\ connected' = [connected EXCEPT ![p] = FALSE]
  /\ idle' = [idle EXCEPT ![p] = 0]
  /\ ready' = ready \ {p}
  /\ pendingReady' = pendingReady \ {p}
  /\ UNCHANGED <<players, pendingReconnect, lastSeq, held, inputs, actions, cardVars, bossVars>>

FreshSeq(p, s) == s > lastSeq[p] /\ s - lastSeq[p] <= SeqAhead

AcceptInput(p, s, d, buttons) ==
  /\ ~Defeated
  /\ p \in players
  /\ BossMode => Cardinality(players) >= MinPlayers
  /\ connected[p]
  /\ FreshSeq(p, s)
  /\ ~ \E i \in inputs : i.player = p /\ i.due = d
  /\ lastSeq' = [lastSeq EXCEPT ![p] = s]
  /\ inputs' = inputs \cup {[player |-> p, due |-> d, buttons |-> buttons]}
  /\ UNCHANGED <<roomVars, connected, held, idle, actions, cardVars, bossVars>>

(* What every accepted mode action goes through.  Clients draw a fresh     *)
(* action id, so the duplicate-id rejection never bites here.              *)
Enqueue(p, s, d, type, target, card) ==
  /\ ~Defeated
  /\ p \in players
  /\ type \in Intents
  /\ FreshSeq(p, s)
  /\ lastSeq' = [lastSeq EXCEPT ![p] = s]
  /\ actions' = actions \cup {[player |-> p, due |-> d, seq |-> s, type |-> type,
                               target |-> target, card |-> card]}
  /\ UNCHANGED <<players, ready, inputs, cards, edges, bossVars>>

AcceptReconnect(p, s, d) ==
  /\ ~connected[p]
  /\ p \notin pendingReconnect
  /\ Enqueue(p, s, d, "reconnect", NoPlayer, {})
  /\ pendingReconnect' = pendingReconnect \cup {p}
  /\ UNCHANGED <<presenceVars, pendingReady, reserved>>

AcceptReady(p, s, d) ==
  /\ connected[p]
  /\ BossMode
  /\ p \notin ready \cup pendingReady
  /\ Enqueue(p, s, d, "ready", NoPlayer, {})
  /\ pendingReady' = pendingReady \cup {p}
  /\ UNCHANGED <<presenceVars, pendingReconnect, reserved>>

AcceptCastCard(p, s, d) ==
  /\ connected[p]
  /\ Enqueue(p, s, d, "cast_card", NoPlayer, {})
  /\ UNCHANGED <<presenceVars, pendingReady, pendingReconnect, reserved>>

AcceptSelectRoundCard(p, s, d) ==
  /\ connected[p]
  /\ ~BossMode
  /\ Enqueue(p, s, d, "select_round_card", NoPlayer, {})
  /\ UNCHANGED <<presenceVars, pendingReady, pendingReconnect, reserved>>

MayTransfer(p, c) == cards[c].owner = p /\ cards[c].usable

AcceptTransferTwice(p, s, d, target, c) ==   \* mutant: the reservation is not consulted
  /\ connected[p]
  /\ BossMode
  /\ target \in players \ {p}
  /\ connected[target]
  /\ MayTransfer(p, c)
  /\ Enqueue(p, s, d, "transfer_card", target, {c})
  /\ reserved' = reserved \cup {c}
  /\ UNCHANGED <<presenceVars, pendingReady, pendingReconnect>>

AcceptTransferCard(p, s, d, target, c) ==
  /\ connected[p]
  /\ BossMode
  /\ target \in players \ {p}
  /\ connected[target]
  /\ c \notin reserved
  /\ MayTransfer(p, c)
  /\ Enqueue(p, s, d, "transfer_card", target, {c})
  /\ reserved' = reserved \cup {c}
  /\ UNCHANGED <<presenceVars, pendingReady, pendingReconnect>>

AcceptModeAction(p, s, d) ==
  \/ AcceptReconnect(p, s, d)
  \/ AcceptReady(p, s, d)
  \/ AcceptCastCard(p, s, d)
  \/ AcceptSelectRoundCard(p, s, d)
  \/ \E target \in Players, c \in Cards : AcceptTransferCard(p, s, d, target, c)

-----------------------------------------------------------------------------
(* One authoritative tick.  Players are visited in id order, then the due  *)
(* mode actions in (seq, player) order; each operator below is the outcome *)
(* of one part of that pass.                                               *)

HasInput(p) == \E i \in DueInputs : i.player = p

TimedOutTooLate ==   \* mutant: ">" for ">=" against a counter that stops at the timeout
  {p \in players : /\ connected[p] /\ InputEnabled /\ ~HasInput(p)
                   /\ InputTimeout > 0 /\ idle[p] > InputTimeout}

(* Silence counts only while the fight takes input.                        *)
TimedOut ==
  {p \in players : /\ connected[p] /\ InputEnabled /\ ~HasInput(p)
                   /\ InputTimeout > 0 /\ idle[p] + 1 >= InputTimeout}

Acting == {p \in players : connected[p] /\ InputEnabled} \ TimedOut

(* A missing input is replaced by the held one.                            *)
Shoots(p) ==
  IF HasInput(p) THEN \E i \in DueInputs : i.player = p /\ "shoot" \in i.buttons ELSE held[p]

Shooters == {p \in Acting : Shoots(p)}

(* Only a real input casts; a queued cast_card action needs no live player.*)
CastAttempts ==
  Cardinality({i \in DueInputs : "cast" \in i.buttons /\ i.player \in Acting})
    + Cardinality({a \in DueActions : a.type = "cast_card"})

OnlineAfterInputs == [p \in Players |-> connected[p] /\ p \notin TimedOut]

Precedes(a, b) == a.seq < b.seq \/ (a.seq = b.seq /\ a.player < b.player)

OnlineWhen(p, a) ==
  \/ OnlineAfterInputs[p]
  \/ \E r \in DueActions : r.type = "reconnect" /\ r.player = p /\ Precedes(r, a)

DueTransfers == {a \in DueActions : a.type = "transfer_card"}

TransferSucceeds(a) ==
  /\ OnlineWhen(a.player, a)
  /\ OnlineWhen(a.target, a)
  /\ \A c \in a.card : MayTransfer(a.player, c)

EdgeAfter(c) ==
  IF \E a \in DueTransfers : c \in a.card /\ TransferSucceeds(a)
  THEN LET a == CHOOSE a \in DueTransfers : c \in a.card /\ TransferSucceeds(a)
       IN [from |-> a.player, to |-> a.target]
  ELSE edges[c]

FreedNever == {}   \* mutant: a rejected transfer keeps its reservation

(* A rejected transfer frees the card; an applied one keeps it reserved.   *)
FreedCards == UNION {a.card : a \in {b \in DueTransfers : ~TransferSucceeds(b)}}

IdleAfter(p) ==
  IF p \notin players \/ ~connected[p] \/ ~InputEnabled THEN idle[p]
  ELSE IF HasInput(p) \/ p \in TimedOut THEN 0
  ELSE IF idle[p] < InputTimeout THEN idle[p] + 1
  ELSE idle[p]

HeldAfter(p) ==
  IF p \in players /\ connected[p] /\ InputEnabled /\ HasInput(p) THEN Shoots(p) ELSE held[p]

HpAfterUnclamped(landed) ==   \* mutant: damage is not clamped to what is left
  bossHp - Cardinality(Shooters) - CardDamage * landed

HpAfter(landed) ==
  LET damage == Cardinality(Shooters) + CardDamage * landed
  IN IF damage < bossHp THEN bossHp - damage ELSE 0

Remaining(queue) == {[q EXCEPT !.due = @ - 1] : q \in {r \in queue : r.due > 1}}

ApplyPlayers ==
  /\ idle' = [p \in Players |-> IdleAfter(p)]
  /\ held' = [p \in Players |-> HeldAfter(p)]

ReconnectKeepsReservation ==   \* mutant: an applied reconnect stays pending
  /\ connected' = [p \in Players |-> OnlineAfterInputs[p] \/ p \in DueActors("reconnect")]
  /\ ready' = (ready \ TimedOut) \cup DueActors("ready")
  /\ pendingReady' = pendingReady \ (TimedOut \cup DueActors("ready"))
  /\ reserved' = reserved \ FreedCards
  /\ edges' = [c \in Cards |-> EdgeAfter(c)]
  /\ UNCHANGED pendingReconnect

ApplyModeActions ==
  /\ connected' = [p \in Players |-> OnlineAfterInputs[p] \/ p \in DueActors("reconnect")]
  /\ ready' = (ready \ TimedOut) \cup DueActors("ready")
  /\ pendingReady' = pendingReady \ (TimedOut \cup DueActors("ready"))
  /\ pendingReconnect' = pendingReconnect \ DueActors("reconnect")
  /\ reserved' = reserved \ FreedCards
  /\ edges' = [c \in Cards |-> EdgeAfter(c)]

ApplyDamage ==
  IF BossMode
  THEN \E landed \in 0..CastAttempts : bossHp' = HpAfter(landed)
  ELSE UNCHANGED bossHp

StartCombat ==
  combatStarted' = \/ combatStarted
                   \/ BossMode /\ Shooters # {}
                   \/ EveryoneIsReady(ready', connected')

EmitOnTimeoutOnly ==   \* mutant: only a silent drop is looked at
  allReported' = \/ allReported
                 \/ TimedOut # {} /\ \A p \in players : ~connected'[p]

MaybeEmitAllPlayersDisconnected ==
  allReported' = \/ allReported
                 \/ players # {} /\ \A p \in players : ~connected'[p]

Tick ==
  /\ ~Defeated
  /\ ApplyPlayers
  /\ ApplyModeActions
  /\ ApplyDamage
  /\ StartCombat
  /\ MaybeEmitAllPlayersDisconnected
  /\ inputs' = Remaining(inputs)
  /\ actions' = Remaining(actions)
  /\ UNCHANGED <<players, lastSeq, cards>>

(* Once the boss is down a tick only empties the queues.                   *)
TickAfterDefeat ==
  /\ Defeated
  /\ inputs' = {}
  /\ actions' = {}
  /\ UNCHANGED <<roomVars, playerVars, cardVars, bossVars>>

-----------------------------------------------------------------------------
Client(p) ==
  \E s \in Seqs, d \in Delays :
    \/ \E buttons \in SUBSET Buttons : AcceptInput(p, s, d, buttons)
    \/ AcceptModeAction(p, s, d)

Host ==
  \/ \E p \in Players : AddPlayer(p) \/ Rejoin(p) \/ Leave(p)
  \/ \E c \in Cards, p \in Players, usable \in BOOLEAN : ConfigureTransferableCard(c, p, usable)

Next == (\E p \in Players : Client(p)) \/ Host \/ Tick \/ TickAfterDefeat

(* The host calls Tick() at a fixed rate whatever the clients do.          *)
Fairness == WF_vars(Tick) /\ WF_vars(TickAfterDefeat)

Spec == Init /\ [][Next]_vars /\ Fairness

-----------------------------------------------------------------------------
(* Properties.                                                             *)

(* Nobody is locked out by a leaked reservation: while the fight is not    *)
(* over, a pending ready or reconnect still has its queued action, and a   *)
(* reserved card has its queued transfer or has really changed hands.      *)
ReservationsBacked ==
  ~Defeated =>
    /\ \A p \in pendingReady : \E a \in actions : a.type = "ready" /\ a.player = p
    /\ \A p \in pendingReconnect : \E a \in actions : a.type = "reconnect" /\ a.player = p
    /\ \A c \in reserved : edges[c] # NoEdge \/ \E a \in actions : c \in a.card

(* A card is in at most one queued transfer, that transfer holds its       *)
(* reservation, and a card that has changed hands is never released, so no *)
(* later transfer of it can be queued.                                     *)
CustodyIsExclusive ==
  /\ \A a \in actions : \A c \in a.card : c \in reserved /\ edges[c] = NoEdge
  /\ \A a, b \in actions : a.card \cap b.card # {} => a = b
  /\ \A c \in Cards : edges[c] # NoEdge => c \in reserved

(* Silence is measured afresh: a connected player is always below the      *)
(* timeout, and no count is carried over a disconnection or from the       *)
(* waiting room into the fight.                                            *)
SilenceIsFresh ==
  \A p \in Players :
    /\ InputTimeout > 0 => idle[p] < InputTimeout
    /\ connected[p] \/ idle[p] = 0
    /\ BossMode /\ ~combatStarted => idle[p] = 0

(* The queues, ticks and connection events of this module deliver what     *)
(* BossRaid promises: one start with everyone online, a final win, and     *)
(* cards that change hands once.                                           *)
Raid == INSTANCE BossRaid WITH
  roster <- players,
  online <- {p \in players : connected[p]},
  phase <- IF Defeated THEN "won" ELSE IF combatStarted THEN "fighting" ELSE "gathering",
  custody <- [c \in Cards |->
    [stage |-> IF edges[c] # NoEdge THEN "moved"
               ELSE IF c \in reserved THEN "promised" ELSE "free",
     from |-> edges[c].from, to |-> edges[c].to]]

ImplementsBossRaid == Raid!Spec

(* Whoever stays connected keeps sending: a player cannot stay connected   *)
(* for ever in a fight that takes input without an input of theirs.        *)
SilenceIsNoticed ==
  \A p \in Players :
    []<>(p \notin players \/ ~connected[p] \/ HasInput(p) \/ ~InputEnabled)

EverybodyGone == players # {} /\ \A p \in players : ~connected[p]

(* An abandoned match is reported, however the last player was lost.       *)
AbandonmentIsReported == EverybodyGone ~> (allReported \/ ~EverybodyGone \/ Defeated)

(* A pending reconnect is resolved: the player is let in, or may ask again.*)
ReconnectIsResolved ==
  \A p \in Players : p \in pendingReconnect ~> (p \notin pendingReconnect \/ Defeated)

(* docs/architecture.md:52: the pending-ready slot keeps a player from     *)
(* queueing a second ready action before the first is applied.             *)
QueuedReadyIsUnique ==
  \A a, b \in actions : a.type = "ready" /\ b.type = "ready" /\ a.player = b.player => a = b

(* The comment at simulation.cpp:637: a player comes back with neutral     *)
(* input, never with a stale held one.                                     *)
RejoinFromNeutral ==
  [][\A p \in Players : ~connected[p] /\ connected'[p] => ~held'[p]]_vars
=============================================================================
