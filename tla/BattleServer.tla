---------------------------- MODULE BattleServer ----------------------------
(***************************************************************************)
(* The server facade, src/src/server.cpp, for one match id: Boss           *)
(* configuration, ticket registration, handshake, the roster lock, the     *)
(* settlement and the clean-up of the match, around the BattleSimulation   *)
(* the first ticket creates.  The maps of the code are keyed by match id   *)
(* and no operation touches two matches, so one match shows them all.      *)
(*                                                                         *)
(* A closed match id is never opened again, so the variables of an erased  *)
(* simulation keep their last values: mode = NoMode says it is gone.       *)
(***************************************************************************)
EXTENDS BattleSimulation

CONSTANTS
  Tickets,      \* verified tickets for this match: [id, player, mode]
  BossModes,    \* "world_boss", "instance_boss"
  Capacity      \* MatchMaxPlayersForMode

NoMode == "no mode"

ASSUME TicketAssumption ==
  /\ Tickets \subseteq [id : Nat, player : Players, mode : STRING \ {NoMode}]
  /\ BossModes \subseteq {"world_boss", "instance_boss"}
  /\ \A t \in Tickets : BossMode <=> t.mode \in BossModes
(* kBossModeMaxPlayers also bounds the capacity of a Boss match, so the    *)
(* simulation never refuses a player the facade has let through.           *)
ASSUME CapacityAssumption == Capacity \in Nat /\ (BossMode => Capacity <= MaxPlayers)

VARIABLES
  bossConfig,   \* mode in pending_boss_config_by_match_, or NoMode
  mode,         \* mode of the simulation in simulations_by_match_, or NoMode
  sessions,     \* tickets in sessions_by_ticket_
  negotiated,   \* the sessions with handshake_accepted
  locked,       \* boss_roster_locked_match_ids_
  cancelled,    \* cancelled_match_ids_
  result,       \* result_hash_by_match_: how it compares with the live replay
  draft         \* the signed result last built, compared likewise

simVars == vars
accountVars == <<bossConfig, mode, sessions, negotiated, cancelled>>
serverVars == <<accountVars, locked, result, draft>>
allVars == <<simVars, serverVars>>

(* A hash over the replay is absent, equal to the hash of the replay as it *)
(* stands, or that of an earlier state of it.                              *)
Hash == {"none", "current", "stale"}
Outdated(hash) == IF hash = "current" THEN "stale" ELSE hash

HasSimulation == mode # NoMode
Settled == result # "none"

ServerTypeOK ==
  /\ bossConfig \in BossModes \cup {NoMode}
  /\ mode \in {t.mode : t \in Tickets} \cup {NoMode}
  /\ sessions \subseteq Tickets
  /\ negotiated \subseteq sessions
  /\ locked \in BOOLEAN
  /\ cancelled \in BOOLEAN
  /\ result \in Hash
  /\ draft \in Hash

ServerInit ==
  /\ Init
  /\ bossConfig = NoMode
  /\ mode = NoMode
  /\ sessions = {}
  /\ negotiated = {}
  /\ locked = FALSE
  /\ cancelled = FALSE
  /\ result = "none"
  /\ draft = "none"

MatchLifecycleStatus ==
  IF cancelled THEN "cancelled"
  ELSE IF HasSimulation THEN (IF Settled THEN "settled" ELSE "active")
  ELSE IF Settled THEN "retired"
  ELSE IF bossConfig # NoMode THEN "pending_boss_config"
  ELSE "unknown"

-----------------------------------------------------------------------------
(* Opening the match.                                                      *)

ConfigureBossMatch(m) ==
  /\ ~HasSimulation
  /\ ~Settled
  /\ ~cancelled
  /\ bossConfig = NoMode
  /\ bossConfig' = m
  /\ UNCHANGED <<simVars, mode, sessions, negotiated, locked, cancelled, result, draft>>

MayRegister(t) ==
  /\ ~Settled
  /\ ~cancelled
  /\ \A s \in sessions : s.id # t.id /\ s.player # t.player
  /\ Cardinality(sessions) < Capacity
  /\ bossConfig \in {NoMode, t.mode}
  /\ mode \in {NoMode, t.mode}

RegisterIntoLockedRoster(t) ==   \* mutant: the roster lock is not consulted
  /\ MayRegister(t)
  /\ AddPlayer(t.player)
  /\ sessions' = sessions \cup {t}
  /\ mode' = t.mode
  /\ bossConfig' = IF HasSimulation THEN bossConfig ELSE NoMode
  /\ draft' = Outdated(draft)
  /\ result' = Outdated(result)
  /\ UNCHANGED <<negotiated, locked, cancelled>>

(* The first ticket creates the simulation and consumes the Boss           *)
(* configuration; every ticket adds its player.                            *)
RegisterTicket(t) ==
  /\ MayRegister(t)
  /\ ~locked
  /\ AddPlayer(t.player)
  /\ sessions' = sessions \cup {t}
  /\ mode' = t.mode
  /\ bossConfig' = IF HasSimulation THEN bossConfig ELSE NoMode
  /\ draft' = Outdated(draft)
  /\ result' = Outdated(result)
  /\ UNCHANGED <<negotiated, locked, cancelled>>

AcceptHandshake(t) ==
  /\ t \in sessions
  /\ ~Settled
  /\ ~cancelled
  /\ negotiated' = negotiated \cup {t}
  /\ UNCHANGED <<simVars, bossConfig, mode, sessions, locked, cancelled, result, draft>>

-----------------------------------------------------------------------------
(* Playing it.  Every entry point that changes the simulation is closed by *)
(* a result, and changes the replay a result is compared with.             *)

OpenThoughSettled == HasSimulation   \* mutant: a result does not close the match

Open == HasSimulation /\ ~Settled

ReplayMovesOn ==
  /\ draft' = Outdated(draft)
  /\ result' = Outdated(result)
  /\ UNCHANGED accountVars

LockOnceFighting ==   \* mutant: the roster is locked only by the fight itself
  locked' = (locked \/ combatStarted')

UpdateBossRosterLock == locked' = (locked \/ BossRosterReadyToLock')

HasSession(p) == \E t \in negotiated : t.player = p

AcceptDecodedInput(p, s, d, buttons) ==
  /\ Open
  /\ HasSession(p)
  /\ AcceptInput(p, s, d, buttons)
  /\ ReplayMovesOn
  /\ UNCHANGED locked

(* The dispatcher turns away mode-action packets of a disconnected player, *)
(* a reconnect intent among them: that one has a packet type of its own.   *)
AcceptDecodedModeAction(p, s, d) ==
  /\ Open
  /\ HasSession(p)
  /\ connected[p]
  /\ AcceptModeAction(p, s, d)
  /\ ReplayMovesOn
  /\ UpdateBossRosterLock

(* The reconnect action is queued like any other, and the player is marked *)
(* connected at once, which also clears the pending reconnect just made.   *)
AcceptDecodedReconnectModeAction(p, s, d) ==
  /\ Open
  /\ HasSession(p)
  /\ ~connected[p]
  /\ p \notin pendingReconnect
  /\ Enqueue(p, s, d, "reconnect", NoPlayer, {})
  /\ connected' = [connected EXCEPT ![p] = TRUE]
  /\ held' = [held EXCEPT ![p] = FALSE]
  /\ idle' = [idle EXCEPT ![p] = 0]
  /\ UNCHANGED <<pendingReady, pendingReconnect, reserved>>
  /\ ReplayMovesOn
  /\ UpdateBossRosterLock

ConfigureCard(c, p, usable) ==
  /\ Open
  /\ ConfigureTransferableCard(c, p, usable)
  /\ UNCHANGED serverVars

SetPlayerConnected(p) ==
  /\ Open
  /\ Rejoin(p) \/ Leave(p)
  /\ ReplayMovesOn
  /\ UpdateBossRosterLock

(* After the boss has fallen a tick that finds the queues empty leaves the *)
(* replay as it is.                                                        *)
TickMatch ==
  /\ Open
  /\ Tick \/ (TickAfterDefeat /\ inputs \cup actions # {})
  /\ ReplayMovesOn
  /\ UpdateBossRosterLock

-----------------------------------------------------------------------------
(* Closing it.                                                             *)

(* BossMatchResultBlockReason is empty.                                    *)
ResultAllowed ==
  mode \in BossModes =>
    /\ combatStarted
    /\ mode = "instance_boss" => Defeated \/ \A p \in players : ~connected[p]

BuildSignedBattleResult ==
  /\ HasSimulation
  /\ ResultAllowed
  /\ sessions # {}
  /\ draft' = "current"
  /\ UNCHANGED <<simVars, accountVars, locked, result>>

(* A draft verifies only against the replay it was built from; submitting  *)
(* it again is an idempotent duplicate.                                    *)
SubmitBattleResult ==
  /\ HasSimulation
  /\ ResultAllowed
  /\ draft = "current"
  /\ result = "none"
  /\ result' = "current"
  /\ UNCHANGED <<simVars, accountVars, locked, draft>>

CloseRoomsKeepsHandshakes ==   \* mutant: the handshakes of erased sessions stay
  /\ bossConfig' = NoMode
  /\ mode' = NoMode
  /\ sessions' = {}
  /\ locked' = FALSE
  /\ UNCHANGED <<simVars, negotiated, result, draft>>

CloseRooms ==
  /\ bossConfig' = NoMode
  /\ mode' = NoMode
  /\ sessions' = {}
  /\ negotiated' = {}
  /\ locked' = FALSE
  /\ UNCHANGED <<simVars, result, draft>>

CancelThoughSettled ==   \* mutant: a settled match can still be cancelled
  /\ bossConfig # NoMode \/ sessions # {} \/ HasSimulation
  /\ CloseRooms
  /\ cancelled' = TRUE

CancelKeepsSessions ==   \* mutant: the sessions outlive the match
  /\ ~Settled
  /\ bossConfig # NoMode \/ HasSimulation
  /\ bossConfig' = NoMode
  /\ mode' = NoMode
  /\ locked' = FALSE
  /\ cancelled' = TRUE
  /\ UNCHANGED <<simVars, sessions, negotiated, result, draft>>

CancelMatch ==
  /\ ~Settled
  /\ bossConfig # NoMode \/ sessions # {} \/ HasSimulation
  /\ CloseRooms
  /\ cancelled' = TRUE

RetireMatch ==
  /\ Settled
  /\ CloseRooms
  /\ UNCHANGED cancelled

-----------------------------------------------------------------------------
Allocation ==
  \/ \E m \in BossModes : ConfigureBossMatch(m)
  \/ \E t \in Tickets : RegisterTicket(t) \/ AcceptHandshake(t)
  \/ BuildSignedBattleResult
  \/ SubmitBattleResult
  \/ CancelMatch
  \/ RetireMatch

Packets ==
  \E p \in Players, s \in Seqs, d \in Delays :
    \/ \E buttons \in SUBSET Buttons : AcceptDecodedInput(p, s, d, buttons)
    \/ AcceptDecodedModeAction(p, s, d)
    \/ AcceptDecodedReconnectModeAction(p, s, d)

RoomHost ==
  \/ \E p \in Players : SetPlayerConnected(p)
  \/ \E c \in Cards, p \in Players, usable \in BOOLEAN : ConfigureCard(c, p, usable)
  \/ TickMatch

ServerNext == Allocation \/ Packets \/ RoomHost

ServerSpec == ServerInit /\ [][ServerNext]_allVars

-----------------------------------------------------------------------------
(* Properties.                                                             *)

(* A recorded result always describes the replay that is still there: no   *)
(* packet, tick or connection event changes a settled match.               *)
SettledIsFrozen == result # "stale"

(* The sessions of a match are exactly its simulation's roster, one per    *)
(* player and all of its mode, and none outlives the simulation.           *)
SessionsAreTheRoster ==
  IF HasSimulation
  THEN /\ {t.player : t \in sessions} = players
       /\ Cardinality(sessions) = Cardinality(players)
       /\ \A t \in sessions : t.mode = mode
  ELSE sessions = {}

(* The roster is locked from the moment the next tick would start the      *)
(* fight, whichever call made it so, and as long as the fight lasts.       *)
LockedBeforeTheFight == HasSimulation /\ BossRosterReadyToLock => locked

(* Nobody is let into a fight: while one is on, registrations are refused. *)
NobodyJoinsAFight ==
  [][HasSimulation /\ combatStarted => players' = players]_allVars

(* What MatchLifecycleStatus tells its callers moves as MatchLifecycle     *)
(* allows: settled once, never cancelled after that, never reopened.       *)
Lifecycle == INSTANCE MatchLifecycle WITH status <- MatchLifecycleStatus

ImplementsMatchLifecycle == Lifecycle!Spec

(* docs/architecture.md:55: the outcome of a Boss match is not stranded in *)
(* a waiting-room state, so a beaten boss can be settled.                  *)
BeatenBossCanBeSettled == HasSimulation /\ Defeated => ResultAllowed
=============================================================================
