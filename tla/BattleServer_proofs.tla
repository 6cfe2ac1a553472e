-------------------------- MODULE BattleServer_proofs --------------------------
(***************************************************************************)
(* What holds of one match of the facade, for every set of tickets, every  *)
(* capacity and every simulation.                                          *)
(***************************************************************************)
EXTENDS BattleServer, BattleSimulation_proofs

(* Every call of the facade makes one step of the simulation at most, but  *)
(* for the reconnect packet, which queues an action and rejoins at once.   *)
LEMMA ServerStepsAreSteps ==
  ASSUME [ServerNext]_allVars
  PROVE  \/ [Next]_vars
         \/ \E p \in Players, s \in Seqs, d \in Delays : AcceptDecodedReconnectModeAction(p, s, d)
<1>1. ASSUME Allocation
      PROVE  [Next]_vars
  <2>1. ASSUME NEW t \in Tickets, RegisterTicket(t)
        PROVE  [Next]_vars
    <3>1. t.player \in Players
      BY TicketAssumption
    <3> QED  BY <2>1, <3>1 DEF RegisterTicket, Next, Host
  <2> QED  BY <1>1, <2>1 DEF Allocation, ConfigureBossMatch, AcceptHandshake, BuildSignedBattleResult,
                             SubmitBattleResult, CancelMatch, RetireMatch, CloseRooms, simVars
<1>2. ASSUME NEW p \in Players, NEW s \in Seqs, NEW d \in Delays,
             AcceptDecodedModeAction(p, s, d)
             \/ \E buttons \in SUBSET Buttons : AcceptDecodedInput(p, s, d, buttons)
      PROVE  Next
  BY <1>2 DEF AcceptDecodedModeAction, AcceptDecodedInput, Next, Client
<1>3. ASSUME RoomHost
      PROVE  [Next]_vars
  BY <1>3 DEF RoomHost, SetPlayerConnected, ConfigureCard, TickMatch, Next, Host
<1>4. UNCHANGED allVars => UNCHANGED vars
  BY DEF allVars, simVars
<1> QED  BY <1>1, <1>2, <1>3, <1>4 DEF ServerNext, Packets

LEMMA ReconnectPacketType ==
  ASSUME TypeOK, NEW p \in Players, NEW s \in Seqs, NEW d \in Delays,
         AcceptDecodedReconnectModeAction(p, s, d)
  PROVE  TypeOK'
<1> DEFINE new == [player |-> p, due |-> d, seq |-> s, type |-> "reconnect",
                   target |-> NoPlayer, card |-> {}]
<1>1. /\ actions' = actions \cup {new} /\ p \in players /\ "reconnect" \in Intents
      /\ lastSeq' = [lastSeq EXCEPT ![p] = s]
      /\ connected' = [connected EXCEPT ![p] = TRUE]
      /\ held' = [held EXCEPT ![p] = FALSE]
      /\ idle' = [idle EXCEPT ![p] = 0]
      /\ UNCHANGED <<players, ready, inputs, cards, edges, bossHp, combatStarted, allReported,
                     pendingReady, pendingReconnect, reserved>>
  BY DEF AcceptDecodedReconnectModeAction, Enqueue, bossVars
<1>2. new \in ModeAction /\ new.player = p /\ new.card = {}
  BY <1>1 DEF ModeAction
<1>3. lastSeq' \in [Players -> 0..MaxSeq] /\ idle' \in [Players -> 0..InputTimeout]
  BY <1>1, WindowAssumption, TimeoutAssumption DEF TypeOK, Seqs
<1> HIDE DEF new
<1> QED  BY <1>1, <1>2, <1>3 DEF TypeOK, Input, ModeAction

LEMMA ServerKeepsTypes == TypeOK /\ [ServerNext]_allVars => TypeOK'
BY ServerStepsAreSteps, NextType, ReconnectPacketType

(* The simulation inside the facade keeps its types, whatever the facade   *)
(* does with it, the reconnect packet included.                            *)
THEOREM SimulationTypesInServer == ServerSpec => []TypeOK
BY InitType, ServerKeepsTypes, PTL DEF ServerSpec, ServerInit

-----------------------------------------------------------------------------
(* The books of the match.  A match that was never opened has an untouched *)
(* simulation; a closed one keeps nothing that could open it again; and    *)
(* only a Boss fight is ever started.                                      *)
Books ==
  /\ HasSimulation => bossConfig = NoMode
  /\ cancelled => ~HasSimulation /\ bossConfig = NoMode /\ ~Settled
  /\ Settled => bossConfig = NoMode
  /\ sessions # {} => HasSimulation
  /\ ~HasSimulation /\ ~Settled /\ ~cancelled => players = {} /\ ~combatStarted
  /\ combatStarted => BossMode

LEMMA CombatNeedsABoss ==
  ASSUME combatStarted => BossMode, [ServerNext]_allVars
  PROVE  combatStarted' => BossMode
<1>1. CASE UNCHANGED combatStarted
  BY <1>1
<1>2. CASE Tick
  BY <1>2 DEF Tick, StartCombat, EveryoneIsReady
<1>3. CASE Next /\ ~Tick
  <2>1. ASSUME NEW p \in Players, Client(p)
        PROVE  UNCHANGED combatStarted
    BY <2>1 DEF Client, AcceptInput, AcceptModeAction, AcceptReconnect, AcceptReady, AcceptCastCard,
                AcceptSelectRoundCard, AcceptTransferCard, Enqueue, bossVars
  <2>2. ASSUME Host
        PROVE  UNCHANGED combatStarted
    BY <2>2 DEF Host, AddPlayer, Rejoin, Leave, ConfigureTransferableCard, bossVars
  <2>3. ASSUME TickAfterDefeat
        PROVE  UNCHANGED combatStarted
    BY <2>3 DEF TickAfterDefeat, bossVars
  <2> QED  BY <1>1, <1>3, <2>1, <2>2, <2>3 DEF Next
<1>4. CASE \E p \in Players, s \in Seqs, d \in Delays : AcceptDecodedReconnectModeAction(p, s, d)
  BY <1>1, <1>4 DEF AcceptDecodedReconnectModeAction, Enqueue, bossVars
<1>5. CASE UNCHANGED vars
  BY <1>1, <1>5 DEF vars, bossVars
<1>6. [Next]_vars
      \/ \E p \in Players, s \in Seqs, d \in Delays : AcceptDecodedReconnectModeAction(p, s, d)
  BY ServerStepsAreSteps
<1> QED  BY <1>2, <1>3, <1>4, <1>5, <1>6

LEMMA BooksStep == Books /\ [ServerNext]_allVars => Books'
<1> SUFFICES ASSUME Books, [ServerNext]_allVars PROVE Books'
  OBVIOUS
<1>1. combatStarted' => BossMode
  BY CombatNeedsABoss DEF Books
<1>2. ASSUME NEW m \in BossModes, ConfigureBossMatch(m)
      PROVE  Books'
  BY <1>2 DEF ConfigureBossMatch, simVars, vars, roomVars, bossVars, Books, HasSimulation, Settled
<1>3. ASSUME NEW t \in Tickets, RegisterTicket(t)
      PROVE  Books'
  <2>1. t.mode # NoMode
    BY TicketAssumption
  <2> QED  BY <1>1, <1>3, <2>1 DEF RegisterTicket, MayRegister, Books, HasSimulation, Settled, Outdated
<1>4. ASSUME NEW t \in Tickets, AcceptHandshake(t)
      PROVE  Books'
  BY <1>4 DEF AcceptHandshake, simVars, vars, roomVars, bossVars, Books, HasSimulation, Settled
<1>5. CASE BuildSignedBattleResult
  BY <1>5 DEF BuildSignedBattleResult, simVars, vars, roomVars, bossVars, accountVars, Books,
              HasSimulation, Settled
<1>6. CASE SubmitBattleResult
  BY <1>6 DEF SubmitBattleResult, simVars, vars, roomVars, bossVars, accountVars, Books,
              HasSimulation, Settled
<1>7. CASE CancelMatch \/ RetireMatch
  BY <1>1, <1>7 DEF CancelMatch, RetireMatch, CloseRooms, simVars, vars, roomVars, bossVars, Books,
                    HasSimulation, Settled
<1>8. ASSUME Open, ReplayMovesOn \/ UNCHANGED serverVars
      PROVE  Books'
  BY <1>1, <1>8 DEF Open, ReplayMovesOn, serverVars, accountVars, Books, HasSimulation, Settled, Outdated
<1>9. CASE Packets \/ RoomHost
  BY <1>8, <1>9 DEF Packets, RoomHost, AcceptDecodedInput, AcceptDecodedModeAction,
     AcceptDecodedReconnectModeAction, ConfigureCard, SetPlayerConnected, TickMatch
<1>10. CASE UNCHANGED allVars
  BY <1>10 DEF allVars, simVars, vars, roomVars, bossVars, serverVars, accountVars, Books,
               HasSimulation, Settled
<1> QED  BY <1>2, <1>3, <1>4, <1>5, <1>6, <1>7, <1>9, <1>10 DEF ServerNext, Allocation

LEMMA BooksAlways == ServerSpec => []Books
<1>1. ServerInit => Books
  BY DEF ServerInit, Init, Books, HasSimulation, Settled
<1> QED  BY <1>1, BooksStep, PTL DEF ServerSpec

-----------------------------------------------------------------------------
(* Settlement.                                                             *)

(* A recorded result always describes the replay that is still there: no   *)
(* packet, tick, connection event or late ticket changes a settled match.  *)
THEOREM SettledStaysFrozen == ServerSpec => []SettledIsFrozen
<1>1. ServerInit => SettledIsFrozen
  BY DEF ServerInit, SettledIsFrozen
<1>2. SettledIsFrozen /\ [ServerNext]_allVars => SettledIsFrozen'
  <2> SUFFICES ASSUME SettledIsFrozen, [ServerNext]_allVars PROVE SettledIsFrozen'
    OBVIOUS
  <2>1. CASE Allocation
    BY <2>1 DEF Allocation, ConfigureBossMatch, RegisterTicket, MayRegister, AcceptHandshake,
       BuildSignedBattleResult, SubmitBattleResult, CancelMatch, RetireMatch, CloseRooms,
       SettledIsFrozen, Settled, Outdated
  <2>2. ASSUME Open, ReplayMovesOn \/ UNCHANGED serverVars
        PROVE  SettledIsFrozen'
    BY <2>2 DEF Open, ReplayMovesOn, serverVars, SettledIsFrozen, Settled, Outdated
  <2>3. CASE Packets \/ RoomHost
    BY <2>2, <2>3 DEF Packets, RoomHost, AcceptDecodedInput, AcceptDecodedModeAction,
       AcceptDecodedReconnectModeAction, ConfigureCard, SetPlayerConnected, TickMatch
  <2> QED  BY <2>1, <2>2, <2>3 DEF ServerNext, allVars, serverVars, SettledIsFrozen
<1> QED  BY <1>1, <1>2, PTL DEF ServerSpec

-----------------------------------------------------------------------------
(* The status that allocation callers see.                                 *)

LEMMA StatusStep == Books /\ [ServerNext]_allVars => [Lifecycle!Next]_MatchLifecycleStatus
<1> SUFFICES ASSUME Books, [ServerNext]_allVars
             PROVE  Lifecycle!Next \/ UNCHANGED MatchLifecycleStatus
  OBVIOUS
<1>1. ASSUME NEW m \in BossModes, ConfigureBossMatch(m)
      PROVE  Lifecycle!Next
  <2>1. m # NoMode
    BY TicketAssumption DEF NoMode
  <2> QED  BY <1>1, <2>1 DEF ConfigureBossMatch, MatchLifecycleStatus, HasSimulation, Settled,
                             Lifecycle!Next, Lifecycle!Moves
<1>2. ASSUME NEW t \in Tickets, RegisterTicket(t)
      PROVE  Lifecycle!Next \/ UNCHANGED MatchLifecycleStatus
  <2>1. t.mode # NoMode
    BY TicketAssumption
  <2> QED  BY <1>2, <2>1 DEF RegisterTicket, MayRegister, Outdated, MatchLifecycleStatus, HasSimulation,
                             Settled, Lifecycle!Next, Lifecycle!Moves
<1>3. ASSUME NEW t \in Tickets, AcceptHandshake(t)
      PROVE  UNCHANGED MatchLifecycleStatus
  BY <1>3 DEF AcceptHandshake, MatchLifecycleStatus, HasSimulation, Settled
<1>4. CASE BuildSignedBattleResult
  BY <1>4 DEF BuildSignedBattleResult, accountVars, MatchLifecycleStatus, HasSimulation, Settled
<1>5. CASE SubmitBattleResult
  BY <1>5 DEF SubmitBattleResult, accountVars, Books, MatchLifecycleStatus, HasSimulation, Settled,
              Lifecycle!Next, Lifecycle!Moves
<1>6. CASE CancelMatch
  BY <1>6 DEF CancelMatch, CloseRooms, Books, MatchLifecycleStatus, HasSimulation, Settled,
              Lifecycle!Next, Lifecycle!Moves
<1>7. CASE RetireMatch
  BY <1>7 DEF RetireMatch, CloseRooms, Books, MatchLifecycleStatus, HasSimulation, Settled,
              Lifecycle!Next, Lifecycle!Moves
<1>8. ASSUME Open, ReplayMovesOn \/ UNCHANGED serverVars
      PROVE  UNCHANGED MatchLifecycleStatus
  BY <1>8 DEF Open, ReplayMovesOn, serverVars, accountVars, Outdated, MatchLifecycleStatus,
              HasSimulation, Settled
<1>9. CASE Packets \/ RoomHost
  BY <1>8, <1>9 DEF Packets, RoomHost, AcceptDecodedInput, AcceptDecodedModeAction,
     AcceptDecodedReconnectModeAction, ConfigureCard, SetPlayerConnected, TickMatch
<1>10. CASE UNCHANGED allVars
  BY <1>10 DEF allVars, serverVars, accountVars, MatchLifecycleStatus, HasSimulation, Settled
<1> QED  BY <1>1, <1>2, <1>3, <1>4, <1>5, <1>6, <1>7, <1>9, <1>10 DEF ServerNext, Allocation

(* What MatchLifecycleStatus reports moves only as MatchLifecycle allows:  *)
(* settled once, never cancelled after that, and never reopened.           *)
THEOREM ServerImplementsLifecycle == ServerSpec => ImplementsMatchLifecycle
<1>1. ServerInit => Lifecycle!Init
  BY DEF ServerInit, Lifecycle!Init, MatchLifecycleStatus, HasSimulation, Settled
<1>2. ServerSpec => Lifecycle!Spec
  BY <1>1, BooksAlways, StatusStep, PTL DEF ServerSpec, Lifecycle!Spec
<1> QED  BY <1>2 DEF ImplementsMatchLifecycle

-----------------------------------------------------------------------------
(* The roster lock.                                                        *)

(* A newcomer is not ready, so a room they join cannot start in the next   *)
(* tick.                                                                   *)
LEMMA NewcomerNotReady ==
  ASSUME TypeOK, Books, LockedBeforeTheFight, NEW t \in Tickets, RegisterTicket(t)
  PROVE  ~BossRosterReadyToLock'
<1>1. /\ t.player \in players' /\ t.player \notin players
      /\ UNCHANGED <<ready, actions, combatStarted>>
  BY DEF RegisterTicket, AddPlayer, bossVars
<1>2. DueActors("ready")' = DueActors("ready")
  BY <1>1 DEF DueActors, DueActions
<1>3. t.player \notin ready' \cup DueActors("ready")'
  BY <1>1, <1>2, DueActorsRegistered DEF TypeOK
<1>4. ~BossReadyToStart'
  BY <1>1, <1>3 DEF BossReadyToStart, EveryoneIsReady
<1>5. ~(BossMode /\ combatStarted)
  BY DEF RegisterTicket, MayRegister, LockedBeforeTheFight, BossRosterReadyToLock, Books
<1> QED  BY <1>1, <1>4, <1>5 DEF BossRosterReadyToLock

LEMMA LockStep == TypeOK /\ Books /\ LockedBeforeTheFight /\ [ServerNext]_allVars => LockedBeforeTheFight'
<1> SUFFICES ASSUME TypeOK, Books, LockedBeforeTheFight, [ServerNext]_allVars
             PROVE  LockedBeforeTheFight'
  OBVIOUS
<1>1. ASSUME UpdateBossRosterLock
      PROVE  LockedBeforeTheFight'
  BY <1>1 DEF UpdateBossRosterLock, LockedBeforeTheFight
<1>2. ASSUME UNCHANGED <<players, connected, ready, actions, combatStarted>>
      PROVE  BossRosterReadyToLock' = BossRosterReadyToLock
  BY <1>2 DEF BossRosterReadyToLock, BossReadyToStart, EveryoneIsReady, DueActors, DueActions
<1>3. ASSUME UNCHANGED <<players, connected, ready, actions, combatStarted>>, UNCHANGED <<mode, locked>>
      PROVE  LockedBeforeTheFight'
  BY <1>2, <1>3 DEF LockedBeforeTheFight, HasSimulation
<1>4. CASE UNCHANGED simVars /\ UNCHANGED <<mode, locked>>
  BY <1>3, <1>4 DEF simVars, vars, roomVars, playerVars, presenceVars, bossVars
<1>5. ASSUME NEW t \in Tickets, RegisterTicket(t)
      PROVE  LockedBeforeTheFight'
  BY <1>5, NewcomerNotReady DEF LockedBeforeTheFight
<1>6. CASE CancelMatch \/ RetireMatch
  BY <1>6 DEF CancelMatch, RetireMatch, CloseRooms, LockedBeforeTheFight, HasSimulation
<1>7. CASE Allocation
  BY <1>4, <1>5, <1>6, <1>7 DEF Allocation, ConfigureBossMatch, AcceptHandshake, BuildSignedBattleResult,
     SubmitBattleResult, accountVars
<1>8. ASSUME NEW p \in Players, NEW s \in Seqs, NEW d \in Delays, NEW buttons \in SUBSET Buttons,
             AcceptDecodedInput(p, s, d, buttons)
      PROVE  LockedBeforeTheFight'
  BY <1>3, <1>8 DEF AcceptDecodedInput, AcceptInput, ReplayMovesOn, accountVars, roomVars, bossVars
<1>9. ASSUME NEW c \in Cards, NEW p \in Players, NEW usable \in BOOLEAN, ConfigureCard(c, p, usable)
      PROVE  LockedBeforeTheFight'
  BY <1>3, <1>9 DEF ConfigureCard, ConfigureTransferableCard, serverVars, accountVars, roomVars,
                    playerVars, presenceVars, bossVars
<1>10. CASE Packets
  BY <1>1, <1>8, <1>10 DEF Packets, AcceptDecodedModeAction, AcceptDecodedReconnectModeAction
<1>11. CASE RoomHost
  BY <1>1, <1>9, <1>11 DEF RoomHost, SetPlayerConnected, TickMatch
<1>12. CASE UNCHANGED allVars
  BY <1>4, <1>12 DEF allVars, serverVars, accountVars
<1> QED  BY <1>7, <1>10, <1>11, <1>12 DEF ServerNext

(* The roster is locked from the moment the next tick would start the      *)
(* fight, whichever call made it so, and as long as the fight lasts.       *)
THEOREM RosterLockedInTime == ServerSpec => []LockedBeforeTheFight
<1>1. ServerInit => LockedBeforeTheFight
  BY DEF ServerInit, LockedBeforeTheFight, HasSimulation
<1> QED  BY <1>1, LockStep, BooksAlways, SimulationTypesInServer, PTL DEF ServerSpec

(* Nobody is let into a fight: while one is on, registrations are refused, *)
(* and nothing else touches the roster.                                    *)
THEOREM FightIsClosed == ServerSpec => NobodyJoinsAFight
<1>1. Books /\ LockedBeforeTheFight /\ [ServerNext]_allVars
        => (HasSimulation /\ combatStarted => players' = players)
  <2> SUFFICES ASSUME Books, LockedBeforeTheFight, [ServerNext]_allVars, HasSimulation, combatStarted
               PROVE  players' = players
    OBVIOUS
  <2>1. locked
    BY DEF Books, LockedBeforeTheFight, BossRosterReadyToLock
  <2>2. CASE Allocation
    BY <2>1, <2>2 DEF Allocation, ConfigureBossMatch, RegisterTicket, AcceptHandshake,
       BuildSignedBattleResult, SubmitBattleResult, CancelMatch, RetireMatch, CloseRooms, simVars, vars,
       roomVars
  <2>3. CASE Packets
    BY <2>3 DEF Packets, AcceptDecodedInput, AcceptDecodedModeAction, AcceptDecodedReconnectModeAction,
       AcceptInput, AcceptModeAction, AcceptReconnect, AcceptReady, AcceptCastCard,
       AcceptSelectRoundCard, AcceptTransferCard, Enqueue, roomVars
  <2>4. CASE RoomHost
    BY <2>4 DEF RoomHost, SetPlayerConnected, ConfigureCard, TickMatch, Rejoin, Leave,
       ConfigureTransferableCard, Tick, TickAfterDefeat, roomVars
  <2> QED  BY <2>2, <2>3, <2>4 DEF ServerNext, allVars, simVars, vars, roomVars
<1> QED  BY <1>1, BooksAlways, RosterLockedInTime, PTL DEF ServerSpec, NobodyJoinsAFight

-----------------------------------------------------------------------------
(* Sessions and roster.                                                    *)

LEMMA ServerTypeStep == ServerTypeOK /\ [ServerNext]_allVars => ServerTypeOK'
<1> SUFFICES ASSUME ServerTypeOK, [ServerNext]_allVars PROVE ServerTypeOK'
  OBVIOUS
<1>1. CASE Allocation
  BY <1>1 DEF Allocation, ConfigureBossMatch, RegisterTicket, AcceptHandshake, BuildSignedBattleResult,
     SubmitBattleResult, CancelMatch, RetireMatch, CloseRooms, accountVars, ServerTypeOK, Hash, Outdated
<1>2. ASSUME ReplayMovesOn, UNCHANGED locked \/ UpdateBossRosterLock
      PROVE  ServerTypeOK'
  <2>1. BossRosterReadyToLock' \in BOOLEAN
    BY DEF BossRosterReadyToLock
  <2> QED  BY <1>2, <2>1 DEF ReplayMovesOn, UpdateBossRosterLock, accountVars, ServerTypeOK, Hash, Outdated
<1>3. CASE UNCHANGED serverVars
  BY <1>3 DEF serverVars, accountVars, ServerTypeOK
<1>4. CASE Packets \/ RoomHost
  BY <1>2, <1>3, <1>4 DEF Packets, RoomHost, AcceptDecodedInput, AcceptDecodedModeAction,
     AcceptDecodedReconnectModeAction, ConfigureCard, SetPlayerConnected, TickMatch
<1> QED  BY <1>1, <1>3, <1>4 DEF ServerNext, allVars

(* The facade's own state stays well formed: in particular handshakes are  *)
(* kept only for sessions that exist.                                      *)
THEOREM ServerTypeCorrect == ServerSpec => []ServerTypeOK
<1>1. ServerInit => ServerTypeOK
  BY DEF ServerInit, ServerTypeOK, Hash
<1> QED  BY <1>1, ServerTypeStep, PTL DEF ServerSpec

LEMMA RosterKept ==
  ASSUME ServerNext, Packets \/ RoomHost
  PROVE  UNCHANGED <<players, sessions, mode>>
<1>1. CASE Packets
  BY <1>1 DEF Packets, AcceptDecodedInput, AcceptDecodedModeAction, AcceptDecodedReconnectModeAction,
     AcceptInput, AcceptModeAction, AcceptReconnect, AcceptReady, AcceptCastCard, AcceptSelectRoundCard,
     AcceptTransferCard, Enqueue, roomVars, ReplayMovesOn, accountVars
<1>2. CASE RoomHost
  BY <1>2 DEF RoomHost, SetPlayerConnected, ConfigureCard, TickMatch, Rejoin, Leave,
     ConfigureTransferableCard, Tick, TickAfterDefeat, roomVars, ReplayMovesOn, serverVars, accountVars
<1> QED  BY <1>1, <1>2

(* A ticket adds one session and one player, neither of which was there.   *)
LEMMA SessionsRegister ==
  ASSUME TypeOK, Books, SessionsAreTheRoster, IsFiniteSet(sessions),
         NEW t \in Tickets, RegisterTicket(t)
  PROVE  SessionsAreTheRoster' /\ IsFiniteSet(sessions')
<1>1. /\ sessions' = sessions \cup {t} /\ t \notin sessions
      /\ players' = players \cup {t.player} /\ t.player \notin players
      /\ mode' = t.mode /\ (HasSimulation => mode = t.mode)
  BY DEF RegisterTicket, MayRegister, AddPlayer, HasSimulation
<1>2. IsFiniteSet(players)
  BY PlayersAssumption, FS_Subset DEF TypeOK
<1>3. /\ IsFiniteSet(sessions') /\ Cardinality(sessions') = Cardinality(sessions) + 1
      /\ Cardinality(players') = Cardinality(players) + 1
  BY <1>1, <1>2, FS_AddElement
<1>4. CASE HasSimulation
  BY <1>1, <1>3, <1>4 DEF SessionsAreTheRoster, HasSimulation
<1>5. CASE ~HasSimulation
  <2>1. sessions = {} /\ players = {}
    BY <1>5 DEF SessionsAreTheRoster, RegisterTicket, MayRegister, Books
  <2>2. HasSimulation'
    BY <1>1, TicketAssumption DEF HasSimulation
  <2> QED  BY <1>1, <1>3, <2>1, <2>2 DEF SessionsAreTheRoster
<1> QED  BY <1>4, <1>5

LEMMA SessionsStep ==
  TypeOK /\ Books /\ (SessionsAreTheRoster /\ IsFiniteSet(sessions)) /\ [ServerNext]_allVars
    => (SessionsAreTheRoster /\ IsFiniteSet(sessions))'
<1> SUFFICES ASSUME TypeOK, Books, SessionsAreTheRoster, IsFiniteSet(sessions), [ServerNext]_allVars
             PROVE  SessionsAreTheRoster' /\ IsFiniteSet(sessions')
  OBVIOUS
<1>1. ASSUME UNCHANGED <<players, sessions, mode>>
      PROVE  SessionsAreTheRoster' /\ IsFiniteSet(sessions')
  BY <1>1 DEF SessionsAreTheRoster, HasSimulation
<1>2. ASSUME NEW t \in Tickets, RegisterTicket(t)
      PROVE  SessionsAreTheRoster' /\ IsFiniteSet(sessions')
  BY <1>2, SessionsRegister
<1>3. CASE CancelMatch \/ RetireMatch
  <2>1. sessions' = {} /\ mode' = NoMode
    BY <1>3 DEF CancelMatch, RetireMatch, CloseRooms
  <2> QED  BY <2>1, FS_EmptySet DEF SessionsAreTheRoster, HasSimulation
<1>4. CASE Allocation
  BY <1>1, <1>2, <1>3, <1>4 DEF Allocation, ConfigureBossMatch, AcceptHandshake, BuildSignedBattleResult,
     SubmitBattleResult, accountVars, simVars, vars, roomVars
<1>5. CASE ServerNext /\ (Packets \/ RoomHost)
  BY <1>1, <1>5, RosterKept
<1>6. CASE UNCHANGED allVars
  BY <1>1, <1>6 DEF allVars, serverVars, accountVars, simVars, vars, roomVars
<1> QED  BY <1>4, <1>5, <1>6 DEF ServerNext

(* The sessions of a match are exactly its simulation's roster, one per    *)
(* player and all of its mode, and none outlives the simulation.           *)
THEOREM SessionsMatchRoster == ServerSpec => []SessionsAreTheRoster
<1>1. ServerInit => SessionsAreTheRoster /\ IsFiniteSet(sessions)
  BY FS_EmptySet DEF ServerInit, SessionsAreTheRoster, HasSimulation
<1> QED  BY <1>1, SessionsStep, SimulationTypesInServer, BooksAlways, PTL DEF ServerSpec
=============================================================================
