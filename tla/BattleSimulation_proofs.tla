---------------------- MODULE BattleSimulation_proofs ----------------------
(***************************************************************************)
(* What holds of BattleSimulation for every roster, mode, window, timeout  *)
(* and Boss.                                                               *)
(***************************************************************************)
EXTENDS BattleSimulation, FiniteSetTheorems, TLAPS

-----------------------------------------------------------------------------
(* Types.                                                                  *)

LEMMA InitType == Init => TypeOK
<1> SUFFICES ASSUME Init PROVE TypeOK
  OBVIOUS
<1>1. lastSeq \in [Players -> 0..MaxSeq] /\ idle \in [Players -> 0..InputTimeout] /\ bossHp \in 0..BossHp
  BY TimeoutAssumption, BossAssumption, WindowAssumption DEF Init
<1>2. cards \in [Cards -> CardState] /\ edges \in [Cards -> Edge]
  BY DEF Init, CardState, Edge, Unconfigured, NoEdge
<1> QED  BY <1>1, <1>2 DEF Init, TypeOK

(* A queued action keeps the types, whatever else its acceptance reserves. *)
LEMMA EnqueueType ==
  ASSUME TypeOK,
         NEW p \in Players, NEW s \in Seqs, NEW d \in Delays, NEW type,
         NEW target \in Players \cup {NoPlayer}, NEW card \in SUBSET Cards,
         card # {} => type = "transfer_card",
         Enqueue(p, s, d, type, target, card),
         UNCHANGED presenceVars,
         pendingReady' \in {pendingReady, pendingReady \cup {p}},
         pendingReconnect' \in {pendingReconnect, pendingReconnect \cup {p}},
         reserved' \subseteq Cards
  PROVE  TypeOK'
<1> DEFINE new == [player |-> p, due |-> d, seq |-> s, type |-> type,
                   target |-> target, card |-> card]
<1>1. new \in ModeAction /\ new.player = p /\ new.card = card /\ new.type = type
  BY DEF Enqueue, ModeAction
<1>2. actions' = actions \cup {new} /\ UNCHANGED <<players, ready, inputs, cards, edges, bossVars>>
      /\ p \in players
  BY DEF Enqueue
<1>3. lastSeq' \in [Players -> 0..MaxSeq]
  BY WindowAssumption DEF Enqueue, TypeOK, Seqs
<1> HIDE DEF new
<1>4. \A q \in inputs' \cup actions' : q.player \in players'
  BY <1>1, <1>2 DEF TypeOK
<1>5. \A a \in actions' : a.card # {} => a.type = "transfer_card"
  BY <1>1, <1>2 DEF TypeOK
<1>6. /\ ready' \subseteq players' /\ pendingReady' \subseteq players'
      /\ pendingReconnect' \subseteq players'
  BY <1>2 DEF TypeOK
<1> QED  BY <1>1, <1>2, <1>3, <1>4, <1>5, <1>6 DEF TypeOK, presenceVars, bossVars, Input, ModeAction

LEMMA ModeActionType ==
  ASSUME TypeOK, NEW p \in Players, NEW s \in Seqs, NEW d \in Delays,
         AcceptModeAction(p, s, d)
  PROVE  TypeOK'
<1>1. CASE AcceptReconnect(p, s, d)
  <2>1. Enqueue(p, s, d, "reconnect", NoPlayer, {}) /\ reserved' \subseteq Cards
    BY <1>1 DEF AcceptReconnect, TypeOK
  <2> QED  BY <1>1, <2>1, EnqueueType DEF AcceptReconnect
<1>2. CASE AcceptReady(p, s, d)
  <2>1. Enqueue(p, s, d, "ready", NoPlayer, {}) /\ reserved' \subseteq Cards
    BY <1>2 DEF AcceptReady, TypeOK
  <2> QED  BY <1>2, <2>1, EnqueueType DEF AcceptReady
<1>3. CASE AcceptCastCard(p, s, d)
  <2>1. Enqueue(p, s, d, "cast_card", NoPlayer, {}) /\ reserved' \subseteq Cards
    BY <1>3 DEF AcceptCastCard, TypeOK
  <2> QED  BY <1>3, <2>1, EnqueueType DEF AcceptCastCard
<1>4. CASE AcceptSelectRoundCard(p, s, d)
  <2>1. Enqueue(p, s, d, "select_round_card", NoPlayer, {}) /\ reserved' \subseteq Cards
    BY <1>4 DEF AcceptSelectRoundCard, TypeOK
  <2> QED  BY <1>4, <2>1, EnqueueType DEF AcceptSelectRoundCard
<1>5. ASSUME NEW target \in Players, NEW c \in Cards, AcceptTransferCard(p, s, d, target, c)
      PROVE  TypeOK'
  <2>1. Enqueue(p, s, d, "transfer_card", target, {c}) /\ reserved' \subseteq Cards
    BY <1>5 DEF AcceptTransferCard, TypeOK
  <2> QED  BY <1>5, <2>1, EnqueueType DEF AcceptTransferCard
<1> QED  BY <1>1, <1>2, <1>3, <1>4, <1>5 DEF AcceptModeAction

LEMMA InputType ==
  ASSUME TypeOK, NEW p \in Players, NEW s \in Seqs, NEW d \in Delays,
         NEW buttons \in SUBSET Buttons, AcceptInput(p, s, d, buttons)
  PROVE  TypeOK'
<1> DEFINE new == [player |-> p, due |-> d, buttons |-> buttons]
<1>1. new \in Input /\ new.player = p
  BY DEF Input
<1>2. lastSeq' \in [Players -> 0..MaxSeq]
  BY WindowAssumption DEF AcceptInput, TypeOK, Seqs
<1>3. inputs' = inputs \cup {new} /\ p \in players
      /\ UNCHANGED <<roomVars, connected, held, idle, actions, cardVars, bossVars>>
  BY DEF AcceptInput
<1> HIDE DEF new
<1>4. \A q \in inputs' \cup actions' : q.player \in players'
  BY <1>1, <1>3 DEF TypeOK, roomVars
<1> QED  BY <1>1, <1>2, <1>3, <1>4
         DEF TypeOK, roomVars, cardVars, bossVars, Input, ModeAction

LEMMA HostType ==
  ASSUME TypeOK, Host
  PROVE  TypeOK'
<1>1. ASSUME NEW p \in Players, AddPlayer(p)
      PROVE  TypeOK'
  BY <1>1 DEF AddPlayer, TypeOK, playerVars, presenceVars, cardVars, bossVars, Input, ModeAction
<1>2. ASSUME NEW p \in Players, Rejoin(p)
      PROVE  TypeOK'
  BY <1>2, TimeoutAssumption DEF Rejoin, TypeOK, cardVars, bossVars, Input, ModeAction
<1>3. ASSUME NEW p \in Players, Leave(p)
      PROVE  TypeOK'
  BY <1>3, TimeoutAssumption DEF Leave, TypeOK, cardVars, bossVars, Input, ModeAction
<1>4. ASSUME NEW c \in Cards, NEW p \in Players, NEW usable \in BOOLEAN,
             ConfigureTransferableCard(c, p, usable)
      PROVE  TypeOK'
  BY <1>4 DEF ConfigureTransferableCard, TypeOK, CardState, roomVars, playerVars, presenceVars,
              bossVars, Input, ModeAction
<1> QED  BY <1>1, <1>2, <1>3, <1>4 DEF Host

(* What is left in a queue keeps its type and comes from the queue.        *)
LEMMA RemainingOrigin ==
  ASSUME NEW queue, NEW q \in Remaining(queue)
  PROVE  \E r \in queue : r.due > 1 /\ q = [r EXCEPT !.due = @ - 1]
BY DEF Remaining

LEMMA RemainingInputs ==
  ASSUME inputs \subseteq Input, NEW q \in Remaining(inputs)
  PROVE  q \in Input /\ \E i \in inputs : i.due > 1 /\ i.player = q.player
<1>1. PICK i \in inputs : i.due > 1 /\ q = [i EXCEPT !.due = @ - 1]
  BY RemainingOrigin
<1>2. i \in Input
  BY <1>1
<1> QED  BY <1>1, <1>2, WindowAssumption DEF Input, Delays

LEMMA RemainingActions ==
  ASSUME actions \subseteq ModeAction, NEW q \in Remaining(actions)
  PROVE  /\ q \in ModeAction
         /\ \E a \in actions : /\ a.due > 1
                              /\ a.player = q.player /\ a.card = q.card /\ a.type = q.type
                              /\ q = [a EXCEPT !.due = @ - 1]
<1>1. PICK a \in actions : a.due > 1 /\ q = [a EXCEPT !.due = @ - 1]
  BY RemainingOrigin
<1>2. a \in ModeAction
  BY <1>1
<1> QED  BY <1>1, <1>2, WindowAssumption DEF ModeAction, Delays

LEMMA EdgeAfterType ==
  ASSUME TypeOK, NEW c \in Cards
  PROVE  EdgeAfter(c) \in Edge
<1>1. CASE \E a \in DueTransfers : c \in a.card /\ TransferSucceeds(a)
  <2> DEFINE a == CHOOSE a \in DueTransfers : c \in a.card /\ TransferSucceeds(a)
  <2>1. a \in DueTransfers
    BY <1>1
  <2>2. a \in ModeAction
    BY <2>1 DEF DueTransfers, DueActions, TypeOK
  <2>3. EdgeAfter(c) = [from |-> a.player, to |-> a.target]
    BY <1>1 DEF EdgeAfter
  <2> HIDE DEF a
  <2> QED  BY <2>2, <2>3 DEF ModeAction, Edge
<1>2. CASE ~ \E a \in DueTransfers : c \in a.card /\ TransferSucceeds(a)
  BY <1>2 DEF EdgeAfter, TypeOK
<1> QED  BY <1>1, <1>2

LEMMA DueActorsRegistered ==
  ASSUME TypeOK, NEW type
  PROVE  DueActors(type) \subseteq players
BY DEF DueActors, DueActions, TypeOK

LEMMA DamageType ==
  ASSUME TypeOK, ApplyDamage
  PROVE  bossHp' \in 0..BossHp
<1>1. CASE BossMode
  <2>1. PICK landed \in 0..CastAttempts : bossHp' = HpAfter(landed)
    BY <1>1 DEF ApplyDamage
  <2>2. Cardinality(Shooters) \in Nat
    <3>1. Shooters \subseteq Players
      BY DEF Shooters, Acting, TypeOK
    <3> QED  BY <3>1, PlayersAssumption, FS_Subset, FS_CardinalityType
  <2>3. landed \in Nat
    BY <2>1
  <2>4. CardDamage * landed \in Nat
    BY <2>3, BossAssumption
  <2> QED  BY <2>1, <2>2, <2>4, BossAssumption DEF HpAfter, TypeOK
<1>2. CASE ~BossMode
  BY <1>2 DEF ApplyDamage, TypeOK
<1> QED  BY <1>1, <1>2

LEMMA TickType ==
  ASSUME TypeOK, Tick
  PROVE  TypeOK'
<1>1. held' \in [Players -> BOOLEAN]
  BY DEF Tick, ApplyPlayers, HeldAfter, Shoots, TypeOK
<1>2. idle' \in [Players -> 0..InputTimeout]
  <2>1. \A p \in Players : IdleAfter(p) \in 0..InputTimeout
    BY TimeoutAssumption DEF IdleAfter, TypeOK
  <2> QED  BY <2>1 DEF Tick, ApplyPlayers
<1>3. /\ inputs' \subseteq Input
      /\ actions' \subseteq ModeAction
      /\ \A q \in inputs' \cup actions' : q.player \in players'
      /\ \A a \in actions' : a.card # {} => a.type = "transfer_card"
  BY RemainingInputs, RemainingActions DEF Tick, TypeOK
<1>4. /\ connected' \in [Players -> BOOLEAN]
      /\ ready' \subseteq players'
      /\ pendingReady' \subseteq players'
      /\ pendingReconnect' \subseteq players'
      /\ reserved' \subseteq Cards
  BY DueActorsRegistered DEF Tick, ApplyModeActions, OnlineAfterInputs, TypeOK
<1>5. edges' \in [Cards -> Edge]
  BY EdgeAfterType DEF Tick, ApplyModeActions
<1>6. bossHp' \in 0..BossHp
  BY DamageType DEF Tick
<1>7. combatStarted' \in BOOLEAN /\ allReported' \in BOOLEAN
  BY ModeAssumption DEF Tick, StartCombat, MaybeEmitAllPlayersDisconnected, TypeOK, EveryoneIsReady
<1>8. UNCHANGED <<players, lastSeq, cards>>
  BY DEF Tick
<1> QED  BY <1>1, <1>2, <1>3, <1>4, <1>5, <1>6, <1>7, <1>8 DEF TypeOK

LEMMA NextType == TypeOK /\ [Next]_vars => TypeOK'
<1> SUFFICES ASSUME TypeOK, [Next]_vars PROVE TypeOK'
  OBVIOUS
<1>1. ASSUME NEW p \in Players, Client(p)
      PROVE  TypeOK'
  BY <1>1, InputType, ModeActionType DEF Client
<1>2. CASE Host
  BY <1>2, HostType
<1>3. CASE Tick
  BY <1>3, TickType
<1>4. CASE TickAfterDefeat
  BY <1>4 DEF TickAfterDefeat, TypeOK, roomVars, playerVars, presenceVars, cardVars, bossVars,
              Input, ModeAction
<1>5. CASE UNCHANGED vars
  BY <1>5 DEF vars, TypeOK, roomVars, playerVars, presenceVars, cardVars, bossVars, Input, ModeAction
<1> QED  BY <1>1, <1>2, <1>3, <1>4, <1>5 DEF Next

(* The state of the simulation is well formed: what is queued was queued   *)
(* by a registered player, readiness belongs to registered players, and    *)
(* the Boss never has more than its full or less than no health.           *)
THEOREM TypeCorrect == Spec => []TypeOK
BY InitType, NextType, PTL DEF Spec

-----------------------------------------------------------------------------
(* Custody of the transferable cards.                                      *)

(* The due transfer of a card is the only queued action with that card, so *)
(* it alone decides between freeing the card and moving it.                *)
LEMMA CustodyTick ==
  ASSUME TypeOK, CustodyIsExclusive, Tick
  PROVE  CustodyIsExclusive'
<1>1. /\ actions' = Remaining(actions)
      /\ reserved' = reserved \ FreedCards
      /\ edges' = [c \in Cards |-> EdgeAfter(c)]
  BY DEF Tick, ApplyModeActions
<1>2. ASSUME NEW q \in actions', NEW c \in q.card
      PROVE  c \in reserved' /\ edges'[c] = NoEdge
  <2>1. PICK a \in actions : a.due > 1 /\ a.card = q.card
    BY <1>1, <1>2, RemainingActions DEF TypeOK
  <2>2. c \in Cards /\ c \in a.card /\ c \in reserved /\ edges[c] = NoEdge
    BY <2>1 DEF TypeOK, CustodyIsExclusive, ModeAction
  <2>3. \A b \in DueTransfers : c \notin b.card
    BY <2>1, <2>2 DEF CustodyIsExclusive, DueTransfers, DueActions
  <2>4. c \notin FreedCards
    BY <2>3 DEF FreedCards
  <2>5. EdgeAfter(c) = NoEdge
    BY <2>2, <2>3 DEF EdgeAfter
  <2> QED  BY <1>1, <2>2, <2>4, <2>5
<1>3. ASSUME NEW q \in actions', NEW r \in actions', q.card \cap r.card # {}
      PROVE  q = r
  <2>1. PICK a \in actions : a.card = q.card /\ q = [a EXCEPT !.due = @ - 1]
    BY <1>1, RemainingActions DEF TypeOK
  <2>2. PICK b \in actions : b.card = r.card /\ r = [b EXCEPT !.due = @ - 1]
    BY <1>1, RemainingActions DEF TypeOK
  <2>3. a = b
    BY <1>3, <2>1, <2>2 DEF CustodyIsExclusive
  <2> QED  BY <2>1, <2>2, <2>3
<1>4. ASSUME NEW c \in Cards, edges'[c] # NoEdge
      PROVE  c \in reserved'
  <2>1. CASE edges[c] # NoEdge
    <3>1. c \in reserved /\ \A a \in actions : c \notin a.card
      BY <2>1 DEF CustodyIsExclusive
    <3>2. c \notin FreedCards
      BY <3>1 DEF FreedCards, DueTransfers, DueActions
    <3> QED  BY <1>1, <3>1, <3>2
  <2>2. CASE edges[c] = NoEdge
    <3>1. PICK a \in DueTransfers : c \in a.card /\ TransferSucceeds(a)
      BY <1>1, <1>4, <2>2 DEF EdgeAfter
    <3>2. c \in reserved
      BY <3>1 DEF CustodyIsExclusive, DueTransfers, DueActions
    <3>3. \A b \in DueTransfers : c \in b.card => b = a
      BY <3>1 DEF CustodyIsExclusive, DueTransfers, DueActions
    <3>4. c \notin FreedCards
      BY <3>1, <3>3 DEF FreedCards
    <3> QED  BY <1>1, <3>2, <3>4
  <2> QED  BY <2>1, <2>2
<1> QED  BY <1>2, <1>3, <1>4 DEF CustodyIsExclusive

LEMMA CustodyWithoutACard ==
  ASSUME CustodyIsExclusive,
         NEW p \in Players, NEW s \in Seqs, NEW d \in Delays, NEW type, NEW target,
         Enqueue(p, s, d, type, target, {}),
         UNCHANGED reserved
  PROVE  CustodyIsExclusive'
<1> DEFINE new == [player |-> p, due |-> d, seq |-> s, type |-> type,
                   target |-> target, card |-> {}]
<1>1. actions' = actions \cup {new} /\ UNCHANGED <<reserved, edges>> /\ new.card = {}
  BY DEF Enqueue
<1> HIDE DEF new
<1> QED  BY <1>1 DEF CustodyIsExclusive

LEMMA CustodyOfATransfer ==
  ASSUME TypeOK, CustodyIsExclusive,
         NEW p \in Players, NEW s \in Seqs, NEW d \in Delays, NEW target \in Players, NEW c \in Cards,
         AcceptTransferCard(p, s, d, target, c)
  PROVE  CustodyIsExclusive'
<1> DEFINE new == [player |-> p, due |-> d, seq |-> s, type |-> "transfer_card",
                   target |-> target, card |-> {c}]
<1>1. /\ actions' = actions \cup {new} /\ new.card = {c}
      /\ reserved' = reserved \cup {c} /\ c \notin reserved /\ UNCHANGED edges
  BY DEF AcceptTransferCard, Enqueue
<1> HIDE DEF new
<1>2. edges[c] = NoEdge /\ \A a \in actions : c \notin a.card
  BY <1>1 DEF CustodyIsExclusive
<1> QED  BY <1>1, <1>2 DEF CustodyIsExclusive

LEMMA CustodyStep == TypeOK /\ CustodyIsExclusive /\ [Next]_vars => CustodyIsExclusive'
<1> SUFFICES ASSUME TypeOK, CustodyIsExclusive, [Next]_vars PROVE CustodyIsExclusive'
  OBVIOUS
<1>1. ASSUME NEW p \in Players, NEW s \in Seqs, NEW d \in Delays, AcceptModeAction(p, s, d)
      PROVE  CustodyIsExclusive'
  <2>1. CASE AcceptReconnect(p, s, d)
    BY <2>1, CustodyWithoutACard DEF AcceptReconnect
  <2>2. CASE AcceptReady(p, s, d)
    BY <2>2, CustodyWithoutACard DEF AcceptReady
  <2>3. CASE AcceptCastCard(p, s, d)
    BY <2>3, CustodyWithoutACard DEF AcceptCastCard
  <2>4. CASE AcceptSelectRoundCard(p, s, d)
    BY <2>4, CustodyWithoutACard DEF AcceptSelectRoundCard
  <2>5. ASSUME NEW target \in Players, NEW c \in Cards, AcceptTransferCard(p, s, d, target, c)
        PROVE  CustodyIsExclusive'
    BY <2>5, CustodyOfATransfer
  <2> QED  BY <1>1, <2>1, <2>2, <2>3, <2>4, <2>5 DEF AcceptModeAction
<1>2. ASSUME NEW p \in Players, NEW s \in Seqs, NEW d \in Delays, NEW buttons \in SUBSET Buttons,
             AcceptInput(p, s, d, buttons)
      PROVE  CustodyIsExclusive'
  BY <1>2 DEF AcceptInput, cardVars, CustodyIsExclusive
<1>3. CASE Host
  BY <1>3 DEF Host, AddPlayer, Rejoin, Leave, ConfigureTransferableCard, cardVars, CustodyIsExclusive
<1>4. CASE Tick
  BY <1>4, CustodyTick
<1>5. CASE TickAfterDefeat
  BY <1>5 DEF TickAfterDefeat, cardVars, CustodyIsExclusive
<1>6. CASE UNCHANGED vars
  BY <1>6 DEF vars, cardVars, CustodyIsExclusive
<1> QED  BY <1>1, <1>2, <1>3, <1>4, <1>5, <1>6 DEF Next, Client

(* No transferable card is ever in two queued transfers, or given away     *)
(* again after it changed hands.                                           *)
THEOREM CustodyExclusive == Spec => []CustodyIsExclusive
<1>1. Init => CustodyIsExclusive
  BY DEF Init, CustodyIsExclusive
<1> QED  BY <1>1, CustodyStep, TypeCorrect, PTL DEF Spec

-----------------------------------------------------------------------------
(* Reservations.                                                           *)

(* A queued action is either still queued after a tick or was due in it.   *)
LEMMA QueuedOrDue ==
  ASSUME TypeOK, Tick, NEW a \in actions
  PROVE  \/ a \in DueActions
         \/ \E q \in actions' : q.player = a.player /\ q.type = a.type /\ q.card = a.card
<1>1. a \in ModeAction /\ a.due \in Delays
  BY DEF TypeOK, ModeAction
<1>2. CASE a.due = 1
  BY <1>2 DEF DueActions
<1>3. CASE a.due # 1
  <2> DEFINE q == [a EXCEPT !.due = @ - 1]
  <2>1. a.due > 1
    BY <1>1, <1>3, WindowAssumption DEF Delays
  <2>2. q \in actions'
    BY <2>1 DEF Tick, Remaining
  <2>3. q.player = a.player /\ q.type = a.type /\ q.card = a.card
    BY <1>1 DEF ModeAction
  <2> QED  BY <2>2, <2>3
<1> QED  BY <1>2, <1>3

LEMMA ReservationsTick ==
  ASSUME TypeOK, ReservationsBacked, Tick
  PROVE  ReservationsBacked'
<1>0. ~Defeated
  BY DEF Tick
<1>1. ASSUME NEW p \in pendingReady'
      PROVE  \E a \in actions' : a.type = "ready" /\ a.player = p
  <2>1. p \in pendingReady /\ p \notin DueActors("ready")
    BY <1>1 DEF Tick, ApplyModeActions
  <2>2. PICK a \in actions : a.type = "ready" /\ a.player = p
    BY <1>0, <2>1 DEF ReservationsBacked
  <2>3. a \notin DueActions
    BY <2>1, <2>2 DEF DueActors
  <2> QED  BY <2>2, <2>3, QueuedOrDue
<1>2. ASSUME NEW p \in pendingReconnect'
      PROVE  \E a \in actions' : a.type = "reconnect" /\ a.player = p
  <2>1. p \in pendingReconnect /\ p \notin DueActors("reconnect")
    BY <1>2 DEF Tick, ApplyModeActions
  <2>2. PICK a \in actions : a.type = "reconnect" /\ a.player = p
    BY <1>0, <2>1 DEF ReservationsBacked
  <2>3. a \notin DueActions
    BY <2>1, <2>2 DEF DueActors
  <2> QED  BY <2>2, <2>3, QueuedOrDue
<1>3. ASSUME NEW c \in reserved'
      PROVE  edges'[c] # NoEdge \/ \E a \in actions' : c \in a.card
  <2>1. c \in reserved /\ c \notin FreedCards /\ c \in Cards /\ edges'[c] = EdgeAfter(c)
    BY <1>3 DEF Tick, ApplyModeActions, TypeOK
  <2>2. ASSUME NEW a \in DueTransfers, c \in a.card, TransferSucceeds(a)
        PROVE  EdgeAfter(c) # NoEdge
    <3> DEFINE b == CHOOSE b \in DueTransfers : c \in b.card /\ TransferSucceeds(b)
    <3>1. b \in DueTransfers
      BY <2>2
    <3>2. b \in ModeAction
      BY <3>1 DEF DueTransfers, DueActions, TypeOK
    <3>3. EdgeAfter(c) = [from |-> b.player, to |-> b.target]
      BY <2>2 DEF EdgeAfter
    <3> HIDE DEF b
    <3>4. b.player # NoPlayer
      BY <3>2, PlayersAssumption DEF ModeAction
    <3> QED  BY <3>3, <3>4 DEF NoEdge
  <2>3. CASE \E a \in DueTransfers : c \in a.card /\ TransferSucceeds(a)
    BY <2>1, <2>2, <2>3
  <2>4. CASE ~ \E a \in DueTransfers : c \in a.card /\ TransferSucceeds(a)
    <3>1. EdgeAfter(c) = edges[c]
      BY <2>4 DEF EdgeAfter
    <3>2. CASE edges[c] # NoEdge
      BY <2>1, <3>1, <3>2
    <3>3. CASE edges[c] = NoEdge
      <4>1. PICK a \in actions : c \in a.card
        BY <1>0, <2>1, <3>3 DEF ReservationsBacked
      <4>2. a.type = "transfer_card"
        BY <4>1 DEF TypeOK
      <4>3. a \notin DueActions
        BY <2>1, <2>4, <4>1, <4>2 DEF DueTransfers, FreedCards
      <4> QED  BY <4>1, <4>3, QueuedOrDue
    <3> QED  BY <3>2, <3>3
  <2> QED  BY <2>3, <2>4
<1> QED  BY <1>1, <1>2, <1>3 DEF ReservationsBacked

(* An accepted action backs whatever its acceptance reserves.              *)
LEMMA ReservationsEnqueue ==
  ASSUME ReservationsBacked,
         NEW p \in Players, NEW s \in Seqs, NEW d \in Delays, NEW type, NEW target, NEW card,
         Enqueue(p, s, d, type, target, card),
         \A q \in pendingReady' : q \in pendingReady \/ (q = p /\ type = "ready"),
         \A q \in pendingReconnect' : q \in pendingReconnect \/ (q = p /\ type = "reconnect"),
         \A c \in reserved' : c \in reserved \cup card
  PROVE  ReservationsBacked'
<1> DEFINE new == [player |-> p, due |-> d, seq |-> s, type |-> type,
                   target |-> target, card |-> card]
<1>1. /\ actions' = actions \cup {new}
      /\ new.player = p /\ new.type = type /\ new.card = card
      /\ ~Defeated /\ UNCHANGED edges
  BY DEF Enqueue
<1> HIDE DEF new
<1> QED  BY <1>1 DEF ReservationsBacked

LEMMA ReservationsStep == TypeOK /\ ReservationsBacked /\ [Next]_vars => ReservationsBacked'
<1> SUFFICES ASSUME TypeOK, ReservationsBacked, [Next]_vars PROVE ReservationsBacked'
  OBVIOUS
<1>1. ASSUME NEW p \in Players, NEW s \in Seqs, NEW d \in Delays, AcceptModeAction(p, s, d)
      PROVE  ReservationsBacked'
  <2>1. CASE AcceptReconnect(p, s, d)
    BY <2>1, ReservationsEnqueue DEF AcceptReconnect
  <2>2. CASE AcceptReady(p, s, d)
    BY <2>2, ReservationsEnqueue DEF AcceptReady
  <2>3. CASE AcceptCastCard(p, s, d)
    BY <2>3, ReservationsEnqueue DEF AcceptCastCard
  <2>4. CASE AcceptSelectRoundCard(p, s, d)
    BY <2>4, ReservationsEnqueue DEF AcceptSelectRoundCard
  <2>5. ASSUME NEW target \in Players, NEW c \in Cards, AcceptTransferCard(p, s, d, target, c)
        PROVE  ReservationsBacked'
    BY <2>5, ReservationsEnqueue DEF AcceptTransferCard
  <2> QED  BY <1>1, <2>1, <2>2, <2>3, <2>4, <2>5 DEF AcceptModeAction
<1>2. ASSUME NEW p \in Players, NEW s \in Seqs, NEW d \in Delays, NEW buttons \in SUBSET Buttons,
             AcceptInput(p, s, d, buttons)
      PROVE  ReservationsBacked'
  BY <1>2 DEF AcceptInput, roomVars, cardVars, bossVars, Defeated, ReservationsBacked
<1>3. CASE Host
  BY <1>3 DEF Host, AddPlayer, Rejoin, Leave, ConfigureTransferableCard, roomVars, cardVars, bossVars,
              Defeated, ReservationsBacked
<1>4. CASE Tick
  BY <1>4, ReservationsTick
<1>5. CASE TickAfterDefeat
  BY <1>5 DEF TickAfterDefeat, bossVars, Defeated, ReservationsBacked
<1>6. CASE UNCHANGED vars
  BY <1>6 DEF vars, roomVars, cardVars, bossVars, Defeated, ReservationsBacked
<1> QED  BY <1>1, <1>2, <1>3, <1>4, <1>5, <1>6 DEF Next, Client

(* No reservation outlives the queued action it was made for: nobody is    *)
(* kept from being ready, from rejoining or from giving a card away by a   *)
(* slot that nothing will ever clear.                                      *)
THEOREM ReservationsAlwaysBacked == Spec => []ReservationsBacked
<1>1. Init => ReservationsBacked
  BY DEF Init, ReservationsBacked
<1> QED  BY <1>1, ReservationsStep, TypeCorrect, PTL DEF Spec

-----------------------------------------------------------------------------
(* Silence.                                                                *)

LEMMA SilenceTick ==
  ASSUME TypeOK, SilenceIsFresh, Tick, NEW p \in Players
  PROVE  /\ InputTimeout > 0 => idle'[p] < InputTimeout
         /\ connected'[p] \/ idle'[p] = 0
         /\ BossMode /\ ~combatStarted' => idle'[p] = 0
<1>1. /\ idle'[p] = IdleAfter(p)
      /\ connected'[p] = (OnlineAfterInputs[p] \/ p \in DueActors("reconnect"))
  BY DEF Tick, ApplyPlayers, ApplyModeActions
<1>2. idle[p] \in 0..InputTimeout /\ InputTimeout \in Nat /\ InputTimeout # 1
  BY TimeoutAssumption DEF TypeOK
<1>3. InputTimeout > 0 => IdleAfter(p) < InputTimeout
  BY <1>2 DEF SilenceIsFresh, IdleAfter, TimedOut
<1>4. connected'[p] \/ IdleAfter(p) = 0
  <2>1. CASE connected[p] /\ p \notin TimedOut
    BY <1>1, <2>1, Zenon DEF OnlineAfterInputs
  <2>2. CASE ~connected[p]
    BY <2>2, Zenon DEF SilenceIsFresh, IdleAfter
  <2>3. CASE connected[p] /\ p \in TimedOut
    <3>1. p \in players /\ InputEnabled
      BY <2>3, Zenon DEF TimedOut
    <3> QED  BY <2>3, <3>1, Zenon DEF IdleAfter
  <2> QED  BY <2>1, <2>2, <2>3
<1>5. ASSUME BossMode, ~combatStarted'
      PROVE  IdleAfter(p) = 0
  <2>1. ~combatStarted /\ ~EveryoneIsReady(ready', connected')
    BY <1>5 DEF Tick, StartCombat
  <2>2. \A q \in Players : idle[q] = 0
    BY <1>5, <2>1 DEF SilenceIsFresh
  <2>3. TimedOut = {}
    BY <1>2, <2>2 DEF TimedOut, TypeOK
  <2>4. ~BossReadyToStart
    <3>1. /\ ready' = ready \cup DueActors("ready")
          /\ \A q \in players : connected[q] => connected'[q]
          /\ players' = players
      BY <2>3 DEF Tick, ApplyModeActions, OnlineAfterInputs, TypeOK
    <3> QED  BY <2>1, <3>1 DEF BossReadyToStart, EveryoneIsReady
  <2>5. ~InputEnabled
    BY <1>5, <2>1, <2>4 DEF InputEnabled
  <2> QED  BY <2>2, <2>5 DEF IdleAfter
<1> QED  BY <1>1, <1>3, <1>4, <1>5

LEMMA SilenceStep == TypeOK /\ SilenceIsFresh /\ [Next]_vars => SilenceIsFresh'
<1> SUFFICES ASSUME TypeOK, SilenceIsFresh, [Next]_vars PROVE SilenceIsFresh'
  OBVIOUS
<1>1. ASSUME NEW p \in Players, Client(p)
      PROVE  UNCHANGED <<presenceVars, bossVars>>
  BY <1>1 DEF Client, AcceptInput, AcceptModeAction, AcceptReconnect, AcceptReady, AcceptCastCard,
              AcceptSelectRoundCard, AcceptTransferCard, Enqueue, presenceVars
<1>2. CASE UNCHANGED <<presenceVars, bossVars>>
  BY <1>2 DEF presenceVars, bossVars, SilenceIsFresh
<1>3. ASSUME NEW p \in Players, AddPlayer(p)
      PROVE  SilenceIsFresh'
  BY <1>3 DEF AddPlayer, playerVars, presenceVars, bossVars, SilenceIsFresh
<1>4. ASSUME NEW p \in Players, Rejoin(p) \/ Leave(p)
      PROVE  SilenceIsFresh'
  BY <1>4, TimeoutAssumption DEF Rejoin, Leave, bossVars, SilenceIsFresh, TypeOK
<1>5. ASSUME NEW c \in Cards, NEW p \in Players, NEW usable \in BOOLEAN,
             ConfigureTransferableCard(c, p, usable)
      PROVE  SilenceIsFresh'
  BY <1>5 DEF ConfigureTransferableCard, playerVars, presenceVars, bossVars, SilenceIsFresh
<1>6. CASE Tick
  BY <1>6, SilenceTick DEF SilenceIsFresh
<1>7. CASE TickAfterDefeat
  BY <1>7 DEF TickAfterDefeat, playerVars, presenceVars, bossVars, SilenceIsFresh
<1>8. CASE UNCHANGED vars
  BY <1>8 DEF vars, playerVars, presenceVars, bossVars, SilenceIsFresh
<1> QED  BY <1>1, <1>2, <1>3, <1>4, <1>5, <1>6, <1>7, <1>8 DEF Next, Host

(* Nobody is dropped for silence that was not theirs to break: the count   *)
(* is below the timeout, and zero while away or in the waiting room.       *)
THEOREM SilenceFresh == Spec => []SilenceIsFresh
<1>1. Init => SilenceIsFresh
  BY TimeoutAssumption DEF Init, SilenceIsFresh
<1> QED  BY <1>1, SilenceStep, TypeCorrect, PTL DEF Spec
-----------------------------------------------------------------------------
(***************************************************************************)
(* BattleSimulation implements BossRaid, for every roster, mode, window,   *)
(* timeout and Boss: its steps are steps of BossRaid under the refinement  *)
(* mapping Raid.  Every step of the simulation is shown to be a whole      *)
(* Raid!Next step (which allows all of its parts to stay as they are).     *)
(***************************************************************************)
(* A queued transfer goes from one registered player to another one.       *)
TransfersBetweenTwo ==
  \A a \in actions : a.card # {} => a.target \in players /\ a.target # a.player

LEMMA EnqueueBetweenTwo ==
  ASSUME TransfersBetweenTwo,
         NEW p \in Players, NEW s \in Seqs, NEW d \in Delays, NEW type, NEW target, NEW card,
         Enqueue(p, s, d, type, target, card),
         card # {} => target \in players \ {p}
  PROVE  TransfersBetweenTwo'
<1> DEFINE new == [player |-> p, due |-> d, seq |-> s, type |-> type,
                   target |-> target, card |-> card]
<1>1. /\ actions' = actions \cup {new} /\ players' = players
      /\ new.player = p /\ new.target = target /\ new.card = card
  BY DEF Enqueue
<1> HIDE DEF new
<1> QED  BY <1>1 DEF TransfersBetweenTwo

LEMMA TransfersStep == TypeOK /\ TransfersBetweenTwo /\ [Next]_vars => TransfersBetweenTwo'
<1> SUFFICES ASSUME TypeOK, TransfersBetweenTwo, [Next]_vars PROVE TransfersBetweenTwo'
  OBVIOUS
<1>1. ASSUME NEW p \in Players, NEW s \in Seqs, NEW d \in Delays, AcceptModeAction(p, s, d)
      PROVE  TransfersBetweenTwo'
  <2>1. CASE AcceptReconnect(p, s, d)
    BY <2>1, EnqueueBetweenTwo DEF AcceptReconnect
  <2>2. CASE AcceptReady(p, s, d)
    BY <2>2, EnqueueBetweenTwo DEF AcceptReady
  <2>3. CASE AcceptCastCard(p, s, d)
    BY <2>3, EnqueueBetweenTwo DEF AcceptCastCard
  <2>4. CASE AcceptSelectRoundCard(p, s, d)
    BY <2>4, EnqueueBetweenTwo DEF AcceptSelectRoundCard
  <2>5. ASSUME NEW target \in Players, NEW c \in Cards, AcceptTransferCard(p, s, d, target, c)
        PROVE  TransfersBetweenTwo'
    BY <2>5, EnqueueBetweenTwo DEF AcceptTransferCard
  <2> QED  BY <1>1, <2>1, <2>2, <2>3, <2>4, <2>5 DEF AcceptModeAction
<1>2. ASSUME NEW p \in Players, NEW s \in Seqs, NEW d \in Delays, NEW buttons \in SUBSET Buttons,
             AcceptInput(p, s, d, buttons)
      PROVE  TransfersBetweenTwo'
  BY <1>2 DEF AcceptInput, roomVars, TransfersBetweenTwo
<1>3. CASE Host
  BY <1>3 DEF Host, AddPlayer, Rejoin, Leave, ConfigureTransferableCard, roomVars, TransfersBetweenTwo
<1>4. CASE Tick
  <2>1. ASSUME NEW q \in actions', q.card # {}
        PROVE  q.target \in players' /\ q.target # q.player
    <3>1. q \in Remaining(actions) /\ players' = players
      BY <1>4 DEF Tick
    <3>2. PICK a \in actions : a.due > 1 /\ q = [a EXCEPT !.due = @ - 1]
      BY <3>1, RemainingOrigin
    <3>3. a \in ModeAction
      BY DEF TypeOK
    <3>4. q.target = a.target /\ q.player = a.player /\ q.card = a.card
      BY <3>2, <3>3 DEF ModeAction
    <3> QED  BY <2>1, <3>1, <3>4 DEF TransfersBetweenTwo
  <2> QED  BY <2>1 DEF TransfersBetweenTwo
<1>5. CASE TickAfterDefeat
  BY <1>5 DEF TickAfterDefeat, TransfersBetweenTwo
<1>6. CASE UNCHANGED vars
  BY <1>6 DEF vars, roomVars, TransfersBetweenTwo
<1> QED  BY <1>1, <1>2, <1>3, <1>4, <1>5, <1>6 DEF Next, Client

-----------------------------------------------------------------------------
(* The parts of a step of BossRaid.                                        *)

LEMMA PresenceStep == TypeOK /\ TypeOK' /\ [Next]_vars => Raid!Presence
<1> SUFFICES ASSUME TypeOK, TypeOK', [Next]_vars PROVE players \subseteq players'
  BY DEF Raid!Presence, TypeOK
<1>1. ASSUME NEW p \in Players, Client(p)
      PROVE  players' = players
  BY <1>1 DEF Client, AcceptInput, AcceptModeAction, AcceptReconnect, AcceptReady, AcceptCastCard,
              AcceptSelectRoundCard, AcceptTransferCard, Enqueue, roomVars
<1>2. CASE Host
  BY <1>2 DEF Host, AddPlayer, Rejoin, Leave, ConfigureTransferableCard, roomVars
<1>3. CASE Tick \/ TickAfterDefeat \/ UNCHANGED vars
  BY <1>3 DEF Tick, TickAfterDefeat, vars, roomVars
<1> QED  BY <1>1, <1>2, <1>3 DEF Next

(* The fight begins with everybody online: a tick that starts it saw a     *)
(* complete and ready room either before the actions or after them, and    *)
(* no silence is punished in it.                                           *)
LEMMA BeginTick ==
  ASSUME TypeOK, TypeOK', SilenceIsFresh, Tick, ~combatStarted, combatStarted'
  PROVE  /\ Cardinality(players) \in MinPlayers..MaxPlayers
         /\ players' = players
         /\ \A p \in players : connected'[p]
<1>1. players' = players
  BY DEF Tick
<1>2. BossMode
  BY DEF Tick, StartCombat, EveryoneIsReady
<1>3. CASE EveryoneIsReady(ready', connected')
  BY <1>1, <1>3 DEF EveryoneIsReady
<1>4. CASE Shooters # {}
  <2>1. BossReadyToStart
    BY <1>2, <1>4 DEF Shooters, Acting, InputEnabled
  <2>2. TimedOut = {}
    <3>1. \A p \in players : idle[p] = 0
      BY <1>2 DEF SilenceIsFresh, TypeOK
    <3> QED  BY <3>1, TimeoutAssumption DEF TimedOut
  <2>3. \A p \in players : connected'[p]
    BY <2>1, <2>2 DEF BossReadyToStart, EveryoneIsReady, Tick, ApplyModeActions, OnlineAfterInputs, TypeOK
  <2> QED  BY <1>1, <2>1, <2>3 DEF BossReadyToStart, EveryoneIsReady
<1> QED  BY <1>3, <1>4 DEF Tick, StartCombat

LEMMA ProgressStep == TypeOK /\ TypeOK' /\ SilenceIsFresh /\ [Next]_vars => Raid!Progress
<1> SUFFICES ASSUME TypeOK, TypeOK', SilenceIsFresh, [Next]_vars PROVE Raid!Progress
  OBVIOUS
<1>1. CASE UNCHANGED bossVars
  BY <1>1 DEF bossVars, Raid!Progress, Defeated
<1>2. CASE Tick
  <2>1. ~Defeated /\ (combatStarted => combatStarted')
    BY <1>2 DEF Tick, StartCombat
  <2>2. CASE Defeated'
    BY <2>1, <2>2 DEF Raid!Progress, Raid!Win
  <2>3. CASE ~Defeated' /\ (combatStarted \/ ~combatStarted')
    BY <2>1, <2>3 DEF Raid!Progress
  <2>4. CASE ~Defeated' /\ ~combatStarted /\ combatStarted'
    <3>1. Raid!Cardinality(players) = Cardinality(players)
      BY DEF Raid!Cardinality, Cardinality
    <3> QED  BY <1>2, <2>1, <2>4, <3>1, BeginTick DEF Raid!Progress, Raid!Begin
  <2> QED  BY <2>2, <2>3, <2>4
<1>3. ASSUME NEW p \in Players, Client(p)
      PROVE  UNCHANGED bossVars
  BY <1>3 DEF Client, AcceptInput, AcceptModeAction, AcceptReconnect, AcceptReady, AcceptCastCard,
              AcceptSelectRoundCard, AcceptTransferCard, Enqueue, bossVars
<1>4. CASE Host
  BY <1>1, <1>4 DEF Host, AddPlayer, Rejoin, Leave, ConfigureTransferableCard, bossVars
<1>5. CASE TickAfterDefeat \/ UNCHANGED vars
  BY <1>1, <1>5 DEF TickAfterDefeat, vars
<1> QED  BY <1>1, <1>2, <1>3, <1>4, <1>5 DEF Next

(* A card without an edge is free or promised, one with an edge has moved. *)
LEMMA HandoverKept ==
  ASSUME NEW c \in Cards, UNCHANGED <<reserved, edges>>
  PROVE  Raid!Handover(c)
BY DEF Raid!Handover

LEMMA HandoverReserved ==
  ASSUME NEW c \in Cards, CustodyIsExclusive, UNCHANGED edges,
         NEW fresh \in SUBSET Cards, fresh \cap reserved = {}, reserved' = reserved \cup fresh
  PROVE  Raid!Handover(c)
<1>1. CASE c \notin fresh
  BY <1>1 DEF Raid!Handover
<1>2. CASE c \in fresh
  <2>1. edges[c] = NoEdge /\ c \notin reserved /\ c \in reserved'
    BY <1>2 DEF CustodyIsExclusive
  <2> QED  BY <2>1 DEF Raid!Handover, Raid!Free, Raid!Promised, NoEdge
<1> QED  BY <1>1, <1>2

(* A due transfer that succeeds had the reservation of a card that had not *)
(* moved, and both its players are online when the tick is over.           *)
LEMMA HandoverTick ==
  ASSUME TypeOK, CustodyIsExclusive, TransfersBetweenTwo, Tick, NEW c \in Cards
  PROVE  Raid!Handover(c)
<1>1. /\ reserved' = reserved \ FreedCards
      /\ edges'[c] = EdgeAfter(c)
      /\ players' = players
      /\ \A p \in Players : connected'[p] = (OnlineAfterInputs[p] \/ p \in DueActors("reconnect"))
  BY DEF Tick, ApplyModeActions
<1>2. CASE \E a \in DueTransfers : c \in a.card /\ TransferSucceeds(a)
  <2> DEFINE a == CHOOSE a \in DueTransfers : c \in a.card /\ TransferSucceeds(a)
  <2>1. a \in DueTransfers /\ c \in a.card /\ TransferSucceeds(a)
    BY <1>2
  <2>2. edges'[c] = [from |-> a.player, to |-> a.target]
    BY <1>1, <1>2 DEF EdgeAfter
  <2> HIDE DEF a
  <2>3. a \in actions /\ a.player \in Players
    BY <2>1 DEF DueTransfers, DueActions, TypeOK, ModeAction
  <2>4. c \in reserved /\ edges[c] = NoEdge
    BY <2>1, <2>3 DEF CustodyIsExclusive
  <2>5. a.player \in players /\ a.target \in players /\ a.player # a.target
    BY <2>1, <2>3 DEF TypeOK, TransfersBetweenTwo
  <2>6. a.target \in Players
    BY <2>5 DEF TypeOK
  <2>7. \A p \in Players : OnlineWhen(p, a) => connected'[p]
    BY <1>1 DEF OnlineWhen, DueActors
  <2>8. connected'[a.player] /\ connected'[a.target]
    BY <2>1, <2>3, <2>6, <2>7 DEF TransferSucceeds
  <2>9. edges'[c] # NoEdge
    <3>1. a.player # NoPlayer
      BY <2>3, PlayersAssumption
    <3> QED  BY <2>2, <3>1 DEF NoEdge
  <2> QED  BY <1>1, <2>2, <2>4, <2>5, <2>8, <2>9
           DEF Raid!Handover, Raid!Promised, Raid!Moved, NoEdge
<1>3. CASE ~ \E a \in DueTransfers : c \in a.card /\ TransferSucceeds(a)
  <2>1. edges'[c] = edges[c]
    BY <1>1, <1>3 DEF EdgeAfter
  <2>2. CASE (c \in reserved') = (c \in reserved)
    BY <2>1, <2>2 DEF Raid!Handover
  <2>3. CASE c \in reserved /\ c \notin reserved'
    <3>1. c \in FreedCards
      BY <1>1, <2>3
    <3>2. PICK a \in DueTransfers : c \in a.card
      BY <3>1 DEF FreedCards
    <3>3. edges[c] = NoEdge
      BY <3>2 DEF CustodyIsExclusive, DueTransfers, DueActions
    <3> QED  BY <2>1, <2>3, <3>3 DEF Raid!Handover, Raid!Free, Raid!Promised, NoEdge
  <2> QED  BY <1>1, <2>2, <2>3
<1> QED  BY <1>2, <1>3

LEMMA HandoverStep ==
  ASSUME TypeOK, CustodyIsExclusive, TransfersBetweenTwo, [Next]_vars, NEW c \in Cards
  PROVE  Raid!Handover(c) /\ (Defeated => UNCHANGED <<reserved, edges>>)
<1>1. ASSUME NEW p \in Players, NEW s \in Seqs, NEW d \in Delays, AcceptModeAction(p, s, d)
      PROVE  ~Defeated /\ Raid!Handover(c)
  <2>1. ~Defeated /\ UNCHANGED edges
    BY <1>1 DEF AcceptModeAction, AcceptReconnect, AcceptReady, AcceptCastCard, AcceptSelectRoundCard,
                AcceptTransferCard, Enqueue
  <2>2. CASE UNCHANGED reserved
    BY <2>1, <2>2, HandoverKept
  <2>3. ASSUME NEW target \in Players, NEW e \in Cards, AcceptTransferCard(p, s, d, target, e)
        PROVE  Raid!Handover(c)
    <3>1. {e} \cap reserved = {} /\ reserved' = reserved \cup {e}
      BY <2>3 DEF AcceptTransferCard
    <3> QED  BY <2>1, <3>1, HandoverReserved
  <2> QED  BY <1>1, <2>1, <2>2, <2>3
           DEF AcceptModeAction, AcceptReconnect, AcceptReady, AcceptCastCard, AcceptSelectRoundCard
<1>2. CASE UNCHANGED <<reserved, edges>>
  BY <1>2, HandoverKept
<1>3. CASE Tick
  <2>1. ~Defeated
    BY <1>3 DEF Tick
  <2> QED  BY <1>3, <2>1, HandoverTick
<1>4. ASSUME NEW p \in Players, NEW s \in Seqs, NEW d \in Delays, NEW buttons \in SUBSET Buttons,
             AcceptInput(p, s, d, buttons)
      PROVE  UNCHANGED <<reserved, edges>>
  BY <1>4 DEF AcceptInput, cardVars
<1>5. CASE Host
  BY <1>2, <1>5 DEF Host, AddPlayer, Rejoin, Leave, ConfigureTransferableCard, cardVars
<1>6. CASE TickAfterDefeat \/ UNCHANGED vars
  BY <1>2, <1>6 DEF TickAfterDefeat, vars, cardVars
<1> QED  BY <1>1, <1>2, <1>3, <1>4, <1>5, <1>6 DEF Next, Client

-----------------------------------------------------------------------------
LEMMA RaidInit == Init => Raid!Init
BY BossAssumption DEF Init, Raid!Init, Raid!Free, Defeated, NoEdge

LEMMA RaidStep ==
  TypeOK /\ TypeOK' /\ CustodyIsExclusive /\ SilenceIsFresh /\ TransfersBetweenTwo /\ [Next]_vars
    => Raid!Next
<1> SUFFICES ASSUME TypeOK, TypeOK', CustodyIsExclusive, SilenceIsFresh, TransfersBetweenTwo, [Next]_vars
             PROVE  Raid!Next
  OBVIOUS
<1>1. Raid!Presence /\ Raid!Progress
  BY PresenceStep, ProgressStep
<1>2. \A c \in Cards : Raid!Handover(c)
  BY HandoverStep
<1>3. ASSUME Defeated
      PROVE  \A c \in Cards : reserved' \cap {c} = reserved \cap {c} /\ edges'[c] = edges[c]
  BY <1>3, HandoverStep
<1>4. (IF Defeated THEN "won" ELSE IF combatStarted THEN "fighting" ELSE "gathering") = "won" => Defeated
  OBVIOUS
<1> QED  BY <1>1, <1>2, <1>3, <1>4 DEF Raid!Next

(* The queues, ticks and connection events of the simulation deliver what  *)
(* BossRaid promises: one start with everyone online, a final win, and     *)
(* cards that change hands once, between two players who are online.       *)
THEOREM SimulationImplementsBossRaid == Spec => ImplementsBossRaid
<1>1. Init => TransfersBetweenTwo
  BY DEF Init, TransfersBetweenTwo
<1>2. Spec => []TransfersBetweenTwo
  BY <1>1, TransfersStep, TypeCorrect, PTL DEF Spec
<1>3. Spec => Raid!Spec
  BY <1>2, RaidInit, RaidStep, TypeCorrect, CustodyExclusive, SilenceFresh, PTL DEF Spec, Raid!Spec
<1> QED  BY <1>3 DEF ImplementsBossRaid
=============================================================================
