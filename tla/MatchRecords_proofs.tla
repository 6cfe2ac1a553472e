------------------------ MODULE MatchRecords_proofs ------------------------
(* What a match leaves behind: the signed result, the replay container and *)
(* the reports for the lobby.                                              *)
EXTENDS Results, DemContainer, EventReports, FiniteInduction, SequenceTheorems

(***************************************************************************)
(* The result.                                                             *)
(***************************************************************************)
LEMMA JoinedFields ==
  ASSUME NEW A, NEW B
  PROVE  /\ DOMAIN Joined(A, B) = DOMAIN A \cup DOMAIN B
         /\ \A f \in DOMAIN A : Joined(A, B)[f] = A[f]
         /\ \A f \in DOMAIN B : f \notin DOMAIN A => Joined(A, B)[f] = B[f]
BY DEF Joined

OwnerOK(owner) == owner = "" \/ (IsBossMode(battle) /\ owner \in battle.roster)

BattleOK ==
  /\ battle \in [mode : Modes, roster : Rosters, tick : Nat, events : Nat, here : SUBSET (UNION Rosters),
                 started : BOOLEAN, dealt : UNION {[r -> Nat] : r \in Rosters},
                 owner : {""} \cup (UNION Rosters)]
  /\ battle.here \subseteq battle.roster /\ battle.dealt \in [battle.roster -> Nat]
  /\ OwnerOK(battle.owner)

LEMMA BattleStarts == ResultInit => BattleOK
<1> SUFFICES ASSUME ResultInit PROVE BattleOK
  OBVIOUS
<1>1. PICK mode \in Modes, roster \in Rosters : battle = FreshBattle(mode, roster)
  BY DEF ResultInit
<1> DEFINE none == [p \in roster |-> 0]
<1>2. none \in [roster -> Nat] /\ none \in UNION {[r -> Nat] : r \in Rosters}
  OBVIOUS
<1>3. battle = [mode |-> mode, roster |-> roster, tick |-> 0, events |-> 0, here |-> roster,
                started |-> FALSE, dealt |-> none, owner |-> ""]
  BY <1>1 DEF FreshBattle
<1> HIDE DEF none
<1>4. OwnerOK("")
  BY DEF OwnerOK
<1> QED  BY <1>2, <1>3, <1>4 DEF BattleOK

(* A battle whose mode and roster stay and whose other fields keep their   *)
(* types is one again.                                                     *)
LEMMA BattleKept ==
  ASSUME BattleOK, NEW tick \in Nat, NEW events \in Nat, NEW here, here \subseteq battle.roster, NEW started \in BOOLEAN,
         NEW dealt \in [battle.roster -> Nat], NEW owner, OwnerOK(owner),
         battle' = [mode |-> battle.mode, roster |-> battle.roster, tick |-> tick, events |-> events,
                    here |-> here, started |-> started, dealt |-> dealt, owner |-> owner]
  PROVE  BattleOK'
<1>0. battle.mode \in Modes /\ battle.roster \in Rosters
  BY DEF BattleOK
<1>1. here \in SUBSET (UNION Rosters) /\ dealt \in UNION {[r -> Nat] : r \in Rosters}
  BY <1>0
<1>2. owner \in {""} \cup (UNION Rosters)
  BY <1>0 DEF OwnerOK
<1>3. battle'.mode = battle.mode /\ battle'.roster = battle.roster /\ battle'.here = here
      /\ battle'.dealt = dealt /\ battle'.owner = owner
  OBVIOUS
<1>4. OwnerOK(owner)'
  BY <1>3 DEF IsBossMode, OwnerOK
<1>5. battle' \in [mode : Modes, roster : Rosters, tick : Nat, events : Nat, here : SUBSET (UNION Rosters),
                   started : BOOLEAN, dealt : UNION {[r -> Nat] : r \in Rosters},
                   owner : {""} \cup (UNION Rosters)]
  BY <1>0, <1>1, <1>2
<1> QED  BY <1>3, <1>4, <1>5 DEF BattleOK

LEMMA BattleFields ==
  ASSUME BattleOK
  PROVE  /\ battle.mode \in Modes /\ battle.roster \in Rosters /\ battle.tick \in Nat /\ battle.events \in Nat
         /\ battle.here \subseteq battle.roster /\ battle.started \in BOOLEAN
         /\ battle.dealt \in [battle.roster -> Nat]
         /\ OwnerOK(battle.owner)
BY DEF BattleOK

LEMMA BattleRecord ==
  ASSUME BattleOK
  PROVE  battle = [mode |-> battle.mode, roster |-> battle.roster, tick |-> battle.tick, events |-> battle.events,
                   here |-> battle.here, started |-> battle.started, dealt |-> battle.dealt, owner |-> battle.owner]
BY DEF BattleOK

LEMMA BattleGoesOn == BattleOK /\ [ResultNext]_resultVars => BattleOK'
<1> SUFFICES ASSUME BattleOK, [ResultNext]_resultVars PROVE BattleOK'
  OBVIOUS
<1>2. ASSUME NEW p \in battle.roster, NEW hits \in BOOLEAN, Play(p, hits) PROVE BattleOK'
  <2> DEFINE dealt == [battle.dealt EXCEPT ![p] = IF hits THEN @ + 1 ELSE @]
  <2>1. battle' = [battle EXCEPT !.tick = @ + 1, !.started = TRUE, !.dealt[p] = IF hits THEN @ + 1 ELSE @]
    BY <1>2 DEF Play, Changes
  <2>2. dealt \in [battle.roster -> Nat]
    BY BattleFields
  <2>3. battle' = [battle EXCEPT !.tick = @ + 1, !.started = TRUE, !.dealt = dealt]
    BY <2>1, BattleRecord
  <2> HIDE DEF dealt
  <2>4. battle' = [mode |-> battle.mode, roster |-> battle.roster, tick |-> battle.tick + 1, events |-> battle.events,
                   here |-> battle.here, started |-> TRUE, dealt |-> dealt, owner |-> battle.owner]
    BY <2>3, BattleRecord
  <2>5. battle.tick + 1 \in Nat
    BY BattleFields
  <2> QED  BY <2>2, <2>4, <2>5, BattleFields, BattleKept
<1>3. ASSUME NEW p \in battle.roster, Transfer(p) PROVE BattleOK'
  <2>1. IsBossMode(battle)
        /\ battle' = [battle EXCEPT !.tick = @ + 1, !.started = TRUE, !.events = @ + 1, !.owner = p]
    BY <1>3 DEF Transfer, Changes
  <2>2. battle' = [mode |-> battle.mode, roster |-> battle.roster, tick |-> battle.tick + 1,
                   events |-> battle.events + 1, here |-> battle.here, started |-> TRUE,
                   dealt |-> battle.dealt, owner |-> p]
    BY <2>1, BattleRecord
  <2>3. battle.tick + 1 \in Nat /\ battle.events + 1 \in Nat
    BY BattleFields
  <2>4. OwnerOK(p)
    BY <2>1 DEF OwnerOK
  <2> QED  BY <2>2, <2>3, <2>4, BattleFields, BattleKept
<1>4. ASSUME NEW p \in battle.roster, Leave(p) PROVE BattleOK'
  <2>1. battle' = [battle EXCEPT !.here = @ \ {p}, !.events = @ + 1]
    BY <1>4 DEF Leave, Changes
  <2>2. battle' = [mode |-> battle.mode, roster |-> battle.roster, tick |-> battle.tick,
                   events |-> battle.events + 1, here |-> battle.here \ {p}, started |-> battle.started,
                   dealt |-> battle.dealt, owner |-> battle.owner]
    BY <2>1, BattleRecord
  <2>3. battle.here \ {p} \subseteq battle.roster /\ battle.events + 1 \in Nat
    BY BattleFields
  <2> QED  BY <2>2, <2>3, BattleFields, BattleKept
<1>5. ASSUME battle' = battle PROVE BattleOK'
  BY <1>5 DEF BattleOK, OwnerOK, IsBossMode
<1> QED
  BY <1>2, <1>3, <1>4, <1>5 DEF ResultNext, BuildSignedBattleResult, Alter, SubmitBattleResult, resultVars
-----------------------------------------------------------------------------
PartsOf(b) ==
  IF IsBossMode(b) THEN {ReplayPart(b), BossPart(b), DamagePart(b), ScopePart(b), TransferPart(b)}
  ELSE {ReplayPart(b), TransferPart(b)}

(* The names of a fixed part, and of the part that names players.          *)
LEMMA PartNames ==
  ASSUME NEW b
  PROVE  /\ DOMAIN ReplayPart(b) = {"event_cursor", "final_tick", "final_state_hash", "replay_fixture_hash"}
         /\ DOMAIN BossPart(b) = {"boss_current_hp", "boss_roster_locked", "connected_player_count", "boss_clear_status"}
         /\ DOMAIN DamagePart(b) = {DamageOf(p) : p \in b.roster}
         /\ DOMAIN WorldPart(b) = {"boss_world_persistent_damage_delta", "boss_world_defeat_announcement_key"}
         /\ DOMAIN InstancePart(b) = {"boss_instance_clear_credit", "boss_instance_result_state"}
         /\ DOMAIN TransferPart(b) = IF b.owner = "" THEN {} ELSE {"transfer_card_count", "last_transfer_to_player_id"}
<1>1. DOMAIN ReplayPart(b) = {"event_cursor", "final_tick", "final_state_hash", "replay_fixture_hash"}
  BY DEF ReplayPart
<1>2. DOMAIN BossPart(b) = {"boss_current_hp", "boss_roster_locked", "connected_player_count", "boss_clear_status"}
  BY DEF BossPart
<1>3. DOMAIN DamagePart(b) = {DamageOf(p) : p \in b.roster}
  BY DEF DamagePart
<1>4. DOMAIN WorldPart(b) = {"boss_world_persistent_damage_delta", "boss_world_defeat_announcement_key"}
  BY DEF WorldPart
<1>5. DOMAIN InstancePart(b) = {"boss_instance_clear_credit", "boss_instance_result_state"}
  BY DEF InstancePart
<1>6. DOMAIN TransferPart(b) = IF b.owner = "" THEN {} ELSE {"transfer_card_count", "last_transfer_to_player_id"}
  <2>1. DOMAIN << >> = {}
    OBVIOUS
  <2> QED  BY <2>1 DEF TransferPart
<1> QED  BY <1>1, <1>2, <1>3, <1>4, <1>5, <1>6

(* A final snapshot has the fields of its parts and no other, and each     *)
(* field the value its part gives it.                                      *)
Explained(g, b) == \A f \in DOMAIN g : \E P \in PartsOf(b) : f \in DOMAIN P /\ g[f] = P[f]

LEMMA JoinedIsExplained ==
  ASSUME NEW b, NEW g, NEW Q \in PartsOf(b), Explained(g, b)
  PROVE  Explained(Joined(g, Q), b)
<1> SUFFICES ASSUME NEW f \in DOMAIN Joined(g, Q)
             PROVE  \E P \in PartsOf(b) : f \in DOMAIN P /\ Joined(g, Q)[f] = P[f]
  BY DEF Explained
<1>0. f \in DOMAIN g \cup DOMAIN Q /\ Joined(g, Q)[f] = IF f \in DOMAIN g THEN g[f] ELSE Q[f]
  BY DEF Joined
<1>1. CASE f \in DOMAIN g
  <2>1. PICK P \in PartsOf(b) : f \in DOMAIN P /\ g[f] = P[f]
    BY <1>1 DEF Explained
  <2> QED  BY <1>0, <1>1, <2>1
<1>2. CASE f \in DOMAIN Q /\ f \notin DOMAIN g
  BY <1>0, <1>2
<1> QED  BY <1>0, <1>1, <1>2

LEMMA SnapshotFields ==
  ASSUME NEW b, IsBossMode(b)
  PROVE  /\ DOMAIN FinalSnapshot(b) = DOMAIN ReplayPart(b) \cup DOMAIN BossPart(b) \cup DOMAIN DamagePart(b)
                                        \cup DOMAIN ScopePart(b) \cup DOMAIN TransferPart(b)
         /\ Explained(FinalSnapshot(b), b)
<1> DEFINE RB == Joined(ReplayPart(b), BossPart(b))
           RBD == Joined(RB, DamagePart(b))
           RBDS == Joined(RBD, ScopePart(b))
           all == Joined(RBDS, TransferPart(b))
<1>1. FinalSnapshot(b) = all
  BY DEF FinalSnapshot
<1>2. Explained(ReplayPart(b), b)
  BY DEF Explained, PartsOf
<1>3. BossPart(b) \in PartsOf(b) /\ DamagePart(b) \in PartsOf(b) /\ ScopePart(b) \in PartsOf(b) /\ TransferPart(b) \in PartsOf(b)
  BY DEF PartsOf
<1>4. Explained(RB, b) /\ DOMAIN RB = DOMAIN ReplayPart(b) \cup DOMAIN BossPart(b)
  BY <1>2, <1>3, JoinedIsExplained, JoinedFields
<1> HIDE DEF RB
<1>5. Explained(RBD, b) /\ DOMAIN RBD = DOMAIN RB \cup DOMAIN DamagePart(b)
  BY <1>4, <1>3, JoinedIsExplained, JoinedFields
<1> HIDE DEF RBD
<1>6. Explained(RBDS, b) /\ DOMAIN RBDS = DOMAIN RBD \cup DOMAIN ScopePart(b)
  BY <1>5, <1>3, JoinedIsExplained, JoinedFields
<1> HIDE DEF RBDS
<1>7. Explained(all, b) /\ DOMAIN all = DOMAIN RBDS \cup DOMAIN TransferPart(b)
  BY <1>6, <1>3, JoinedIsExplained, JoinedFields
<1> HIDE DEF all
<1> QED  BY <1>1, <1>4, <1>5, <1>6, <1>7

-----------------------------------------------------------------------------
LEMMA OfTwoKinds ==
  ASSUME NEW b, IsBossMode(b)
  PROVE  \/ b.mode = "world_boss" /\ ScopePart(b) = WorldPart(b) /\ b.mode # "instance_boss"
         \/ b.mode = "instance_boss" /\ ScopePart(b) = InstancePart(b) /\ b.mode # "world_boss"
BY DEF IsBossMode, ScopePart

LEMMA NobodysCard ==
  ASSUME BattleOK, ~IsBossMode(battle)
  PROVE  DOMAIN TransferPart(battle) = {}
<1>1. battle.owner = ""
  BY DEF BattleOK, OwnerOK
<1> QED  BY <1>1, PartNames

(* What the verifier lets through agrees with every part of the snapshot   *)
(* the match itself would make, and with nothing else.                     *)
LEMMA VerifiedIsTruthful ==
  ASSUME BattleOK, NEW s, VerifyResult(s, battle)
  PROVE  Truthful(s)
<1> DEFINE json == s.result.json
           truth == FinalSnapshot(battle)
<1>1. /\ IdentityHolds(s.result, battle) /\ DOMAIN json \subseteq KnownFields(battle)
      /\ ReplayCountersHold(json, battle) /\ BossFieldsHold(json, battle) /\ DamageHolds(json, battle)
      /\ ScopeHolds(json, battle) /\ TransferHolds(json, battle)
  BY DEF VerifyResult
<1>2. s.result.hash = SummaryHash(battle) /\ s.result.players = battle.roster
  BY <1>1 DEF IdentityHolds
<1>3. DOMAIN json \subseteq DOMAIN truth /\ Agrees(json, truth)
  <2>1. CASE ~IsBossMode(battle)
    <3>1. truth = ReplayPart(battle)
      BY <2>1 DEF FinalSnapshot
    <3>2. KnownFields(battle) = DOMAIN ReplayPart(battle)
      BY <2>1, NobodysCard DEF KnownFields
    <3> HIDE DEF json, truth
    <3> QED  BY <1>1, <3>1, <3>2 DEF ReplayCountersHold
  <2>2. CASE IsBossMode(battle)
    <3>1. Agrees(json, ScopePart(battle))
      BY <1>1, <2>2, OfTwoKinds DEF ScopeHolds
    <3>2. \A P \in PartsOf(battle) : Agrees(json, P)
      BY <1>1, <2>2, <3>1 DEF PartsOf, ReplayCountersHold, BossFieldsHold, DamageHolds, TransferHolds
    <3>3. DOMAIN json \subseteq DOMAIN truth
      <4>1. CASE battle.mode = "world_boss"
        <5>1. DOMAIN json \cap DOMAIN InstancePart(battle) = {} /\ ScopePart(battle) = WorldPart(battle)
          BY <1>1, <4>1 DEF ScopeHolds, ScopePart
        <5> HIDE DEF json
        <5> QED  BY <1>1, <2>2, <5>1, SnapshotFields DEF KnownFields
      <4>2. CASE battle.mode = "instance_boss"
        <5>1. DOMAIN json \cap DOMAIN WorldPart(battle) = {} /\ ScopePart(battle) = InstancePart(battle)
          BY <1>1, <2>2, <4>2, OfTwoKinds DEF ScopeHolds
        <5> HIDE DEF json
        <5> QED  BY <1>1, <2>2, <5>1, SnapshotFields DEF KnownFields
      <4> QED  BY <2>2, <4>1, <4>2 DEF IsBossMode
    <3>4. Explained(truth, battle)
      BY <2>2, SnapshotFields
    <3> HIDE DEF json, truth
    <3>5. ASSUME NEW f \in DOMAIN truth PROVE Unsaid(truth, f) \/ (f \in DOMAIN json /\ ValueRead(json, f) = truth[f])
      <4>1. PICK P \in PartsOf(battle) : f \in DOMAIN P /\ truth[f] = P[f]
        BY <3>4 DEF Explained
      <4>2. Unsaid(P, f) \/ (f \in DOMAIN json /\ ValueRead(json, f) = P[f])
        BY <3>2, <4>1 DEF Agrees
      <4> QED  BY <4>1, <4>2 DEF Unsaid
    <3> QED  BY <3>3, <3>5 DEF Agrees
  <2> QED  BY <2>1, <2>2
<1> QED  BY <1>2, <1>3 DEF Truthful, Agrees

(* The fields about single players have names of their own.                *)
LEMMA OwnNames ==
  ASSUME BattleOK
  PROVE  DOMAIN DamagePart(battle) \cap FixedFields = {}
<1> SUFFICES ASSUME NEW f \in DOMAIN DamagePart(battle) PROVE f \notin FixedFields
  OBVIOUS
<1>1. PICK p \in battle.roster : f = DamageOf(p)
  BY DEF DamagePart
<1>2. p \in (UNION Rosters) \cup Reserved
  BY <1>1, BattleFields
<1> QED  BY <1>1, <1>2, NamesAssumption

Granted == FixedFields \ {"inventory_grant"}

LEMMA FixedNames ==
  ASSUME NEW b
  PROVE  /\ DOMAIN ReplayPart(b) \subseteq Granted /\ DOMAIN BossPart(b) \subseteq Granted
         /\ DOMAIN WorldPart(b) \subseteq Granted /\ DOMAIN InstancePart(b) \subseteq Granted
         /\ DOMAIN TransferPart(b) \subseteq Granted
<1>1. DOMAIN ReplayPart(b) \subseteq Granted
  BY DEF ReplayPart, Granted, FixedFields
<1>2. DOMAIN BossPart(b) \subseteq Granted
  BY DEF BossPart, Granted, FixedFields
<1>3. DOMAIN WorldPart(b) \subseteq Granted
  BY DEF WorldPart, Granted, FixedFields
<1>4. DOMAIN InstancePart(b) \subseteq Granted
  BY DEF InstancePart, Granted, FixedFields
<1>5. DOMAIN TransferPart(b) \subseteq Granted
  <2>1. DOMAIN TransferPart(b) \subseteq {"transfer_card_count", "last_transfer_to_player_id"}
    BY PartNames
  <2> QED  BY <2>1 DEF Granted, FixedFields
<1> QED  BY <1>1, <1>2, <1>3, <1>4, <1>5

(* No two parts name the same field.                                       *)
LEMMA PartsAreApart ==
  ASSUME BattleOK, IsBossMode(battle)
  PROVE  \A P, Q \in PartsOf(battle) : DOMAIN P \cap DOMAIN Q # {} => P = Q
<1> DEFINE R == ReplayPart(battle)
           B == BossPart(battle)
           D == DamagePart(battle)
           S == ScopePart(battle)
           T == TransferPart(battle)
<1>1. DOMAIN D \cap FixedFields = {}
  BY OwnNames
<1>a. /\ DOMAIN R = {"event_cursor", "final_tick", "final_state_hash", "replay_fixture_hash"}
      /\ DOMAIN B = {"boss_current_hp", "boss_roster_locked", "connected_player_count", "boss_clear_status"}
  BY PartNames
<1>b. \/ DOMAIN S = {"boss_world_persistent_damage_delta", "boss_world_defeat_announcement_key"}
      \/ DOMAIN S = {"boss_instance_clear_credit", "boss_instance_result_state"}
  BY PartNames, OfTwoKinds
<1>c. DOMAIN T \subseteq {"transfer_card_count", "last_transfer_to_player_id"}
  BY PartNames
<1> HIDE DEF R, B, S, T
<1>2. DOMAIN R \cup DOMAIN B \cup DOMAIN S \cup DOMAIN T \subseteq FixedFields
  BY <1>a, <1>b, <1>c DEF FixedFields
<1>3. DOMAIN R \cap (DOMAIN B \cup DOMAIN S \cup DOMAIN T) = {}
  BY <1>a, <1>b, <1>c
<1>4. DOMAIN B \cap (DOMAIN S \cup DOMAIN T) = {}
  BY <1>a, <1>b, <1>c
<1>5. DOMAIN S \cap DOMAIN T = {}
  BY <1>b, <1>c
<1>6. PartsOf(battle) = {R, B, D, S, T}
  BY DEF PartsOf, R, B, D, S, T
<1> HIDE DEF R, B, D, S, T
<1> QED  BY <1>1, <1>2, <1>3, <1>4, <1>5, <1>6

(* Of what is written once, the first value is the only one.               *)
LEMMA WrittenIsRead ==
  ASSUME NEW g
  PROVE  /\ DOMAIN Written(g) = DOMAIN g
         /\ \A f \in DOMAIN g : ValueRead(Written(g), f) = g[f]
<1>1. DOMAIN Written(g) = DOMAIN g
  BY DEF Written
<1>2. ASSUME NEW f \in DOMAIN g PROVE ValueRead(Written(g), f) = g[f]
  <2>1. Written(g)[f] = <<g[f]>>
    BY DEF Written
  <2>2. Head(<<g[f]>>) = g[f]
    OBVIOUS
  <2> QED  BY <2>1, <2>2 DEF ValueRead
<1> QED  BY <1>1, <1>2

LEMMA OwnAgrees ==
  ASSUME BattleOK, IsBossMode(battle), NEW P \in PartsOf(battle)
  PROVE  Agrees(Written(FinalSnapshot(battle)), P)
<1> DEFINE truth == FinalSnapshot(battle)
<1>1. Explained(truth, battle)
  BY SnapshotFields
<1>2. DOMAIN P \subseteq DOMAIN truth
  BY SnapshotFields DEF PartsOf
<1> HIDE DEF truth
<1>3. ASSUME NEW f \in DOMAIN P PROVE f \in DOMAIN truth /\ truth[f] = P[f]
  <2>1. PICK Q \in PartsOf(battle) : f \in DOMAIN Q /\ truth[f] = Q[f]
    BY <1>1, <1>2 DEF Explained
  <2>2. Q = P
    BY <2>1, PartsAreApart
  <2> QED  BY <1>2, <2>1, <2>2
<1>4. Agrees(Written(truth), P)
  BY <1>3, WrittenIsRead DEF Agrees
<1> QED  BY <1>4 DEF truth

(* What the server builds from a match, it accepts of that match.          *)
LEMMA OwnResultVerifies ==
  ASSUME BattleOK, IsBossMode(battle) => battle.roster \cap Reserved = {}
  PROVE  VerifyResult(Sign(ResultOf(battle), "this server"), battle)
<1> DEFINE truth == FinalSnapshot(battle)
           json == Written(truth)
           s == Sign(ResultOf(battle), "this server")
<1>1. /\ s.result = ResultOf(battle) /\ s.result.json = json
      /\ s.result.reward = "projection" /\ s.result.settledAt = "now"
      /\ IdentityHolds(s.result, battle) /\ SignatureHolds(s)
  BY DEF Sign, ResultOf, IdentityHolds, SignatureHolds
<1>w. DOMAIN json = DOMAIN truth /\ \A f \in DOMAIN truth : ValueRead(json, f) = truth[f]
  BY WrittenIsRead
<1>2. /\ DOMAIN json \subseteq KnownFields(battle) /\ NoReservedWord(json)
      /\ ReplayCountersHold(json, battle) /\ BossFieldsHold(json, battle) /\ DamageHolds(json, battle)
      /\ ScopeHolds(json, battle) /\ TransferHolds(json, battle)
  <2>1. CASE ~IsBossMode(battle)
    <3>1. truth = ReplayPart(battle)
      BY <2>1 DEF FinalSnapshot
    <3> HIDE DEF truth, json
    <3>2. DOMAIN json \subseteq KnownFields(battle)
      BY <1>w, <3>1 DEF KnownFields
    <3>3. NoReservedWord(json)
      <4>1. DOMAIN truth \subseteq FixedFields /\ "inventory_grant" \notin DOMAIN truth
        BY <3>1, FixedNames DEF Granted
      <4> QED  BY <1>w, <4>1, NamesAssumption DEF NoReservedWord
    <3>4. ReplayCountersHold(json, battle)
      BY <1>w, <3>1 DEF ReplayCountersHold, Agrees
    <3>5. TransferHolds(json, battle)
      BY <2>1, NobodysCard DEF TransferHolds, Agrees
    <3>6. BossFieldsHold(json, battle) /\ DamageHolds(json, battle) /\ ScopeHolds(json, battle)
      BY <2>1 DEF BossFieldsHold, DamageHolds, ScopeHolds, IsBossMode
    <3> QED  BY <3>2, <3>3, <3>4, <3>5, <3>6
  <2>2. CASE IsBossMode(battle)
    <3>1. \A P \in PartsOf(battle) : Agrees(json, P)
      BY <2>2, OwnAgrees
    <3>2. DOMAIN truth = DOMAIN ReplayPart(battle) \cup DOMAIN BossPart(battle) \cup DOMAIN DamagePart(battle)
                           \cup DOMAIN ScopePart(battle) \cup DOMAIN TransferPart(battle)
      BY <2>2, SnapshotFields
    <3> HIDE DEF truth, json
    <3>3. DOMAIN json \subseteq KnownFields(battle)
      BY <1>w, <2>2, <3>2, OfTwoKinds DEF KnownFields
    <3>4. NoReservedWord(json)
      <4>1. DOMAIN truth \ DOMAIN DamagePart(battle) \subseteq Granted
        BY <2>2, <3>2, FixedNames, OfTwoKinds
      <4>2. \A p \in battle.roster : p \in UNION Rosters /\ p \notin Reserved
        BY <2>2, BattleFields
      <4>3. "inventory_grant" \in FixedFields
        BY DEF FixedFields
      <4>4. DOMAIN DamagePart(battle) = {DamageOf(p) : p \in battle.roster}
        BY PartNames
      <4>5. "inventory_grant" \notin DOMAIN truth
        BY <2>2, <4>1, <4>3, OwnNames DEF Granted
      <4>6. ASSUME NEW p \in Reserved PROVE DamageOf(p) \notin DOMAIN truth
        <5>1. DamageOf(p) \notin FixedFields
          BY NamesAssumption
        <5>2. ASSUME NEW q \in battle.roster PROVE DamageOf(p) # DamageOf(q)
          BY <4>2, NamesAssumption
        <5> QED  BY <4>1, <4>4, <5>1, <5>2 DEF Granted
      <4> QED  BY <1>w, <4>5, <4>6 DEF NoReservedWord
    <3>5. ReplayCountersHold(json, battle) /\ BossFieldsHold(json, battle) /\ DamageHolds(json, battle)
          /\ TransferHolds(json, battle) /\ Agrees(json, ScopePart(battle))
      <4>1. /\ ReplayPart(battle) \in PartsOf(battle) /\ BossPart(battle) \in PartsOf(battle)
            /\ DamagePart(battle) \in PartsOf(battle) /\ ScopePart(battle) \in PartsOf(battle)
            /\ TransferPart(battle) \in PartsOf(battle)
        BY <2>2 DEF PartsOf
      <4> QED  BY <3>1, <4>1 DEF ReplayCountersHold, BossFieldsHold, DamageHolds, TransferHolds
    <3>6. DOMAIN truth \ DOMAIN ScopePart(battle) \subseteq
            DOMAIN DamagePart(battle) \cup
              {"event_cursor", "final_tick", "final_state_hash", "replay_fixture_hash", "boss_current_hp",
               "boss_roster_locked", "connected_player_count", "boss_clear_status",
               "transfer_card_count", "last_transfer_to_player_id"}
      <4>1. /\ DOMAIN ReplayPart(battle) = {"event_cursor", "final_tick", "final_state_hash", "replay_fixture_hash"}
            /\ DOMAIN BossPart(battle) = {"boss_current_hp", "boss_roster_locked", "connected_player_count", "boss_clear_status"}
            /\ DOMAIN TransferPart(battle) \subseteq {"transfer_card_count", "last_transfer_to_player_id"}
        BY PartNames
      <4>2. ASSUME NEW f \in DOMAIN truth, f \notin DOMAIN ScopePart(battle), f \notin DOMAIN DamagePart(battle)
            PROVE  f \in DOMAIN ReplayPart(battle) \cup DOMAIN BossPart(battle) \cup DOMAIN TransferPart(battle)
        BY <3>2, <4>2
      <4> QED  BY <4>1, <4>2
    <3>7. DOMAIN DamagePart(battle) \cap FixedFields = {}
      BY OwnNames
    <3>8. DOMAIN WorldPart(battle) \cup DOMAIN InstancePart(battle) \subseteq FixedFields
      BY FixedNames DEF Granted
    <3>9. battle.mode = "world_boss" => DOMAIN json \cap DOMAIN InstancePart(battle) = {}
      <4> SUFFICES ASSUME battle.mode = "world_boss" PROVE DOMAIN json \cap DOMAIN InstancePart(battle) = {}
        OBVIOUS
      <4>1. DOMAIN ScopePart(battle) = {"boss_world_persistent_damage_delta", "boss_world_defeat_announcement_key"}
        BY <2>2, OfTwoKinds, PartNames
      <4>2. DOMAIN InstancePart(battle) = {"boss_instance_clear_credit", "boss_instance_result_state"}
        BY PartNames
      <4>3. DOMAIN DamagePart(battle) \cap {"boss_instance_clear_credit", "boss_instance_result_state"} = {}
        BY <3>7, <3>8, <4>2
      <4> QED  BY <1>w, <3>6, <4>1, <4>2, <4>3
    <3>10. battle.mode = "instance_boss" => DOMAIN json \cap DOMAIN WorldPart(battle) = {}
      <4> SUFFICES ASSUME battle.mode = "instance_boss" PROVE DOMAIN json \cap DOMAIN WorldPart(battle) = {}
        OBVIOUS
      <4>1. DOMAIN WorldPart(battle) = {"boss_world_persistent_damage_delta", "boss_world_defeat_announcement_key"}
        BY PartNames
      <4>2. DOMAIN ScopePart(battle) = {"boss_instance_clear_credit", "boss_instance_result_state"}
        BY <2>2, OfTwoKinds, PartNames
      <4>3. DOMAIN DamagePart(battle)
              \cap {"boss_world_persistent_damage_delta", "boss_world_defeat_announcement_key"} = {}
        BY <3>7, <3>8, <4>1
      <4> QED  BY <1>w, <3>6, <4>1, <4>2, <4>3
    <3>11. ScopeHolds(json, battle)
      BY <2>2, <3>5, <3>9, <3>10, OfTwoKinds DEF ScopeHolds
    <3> QED  BY <3>3, <3>4, <3>5, <3>11
  <2> QED  BY <2>1, <2>2
<1>3. RewardHolds(s.result.reward) /\ SettledInTime(s.result.settledAt)
  BY <1>1 DEF RewardHolds, SettledInTime
<1> QED  BY <1>1, <1>2, <1>3 DEF VerifyResult

(* Whatever happened to a result on its way, also when fields are given    *)
(* more than once: what is accepted names the fields of the match, and the *)
(* first value of each is the match's own, which is all that               *)
(* BattleResultVerifier::Verify reads.  And the server takes what          *)
(* BuildSignedBattleResult builds.                                         *)
THEOREM TheTruthSettles == ResultSpec => []OnlyTheTruthSettles
<1>1. BattleOK => OnlyTheTruthSettles
  BY VerifiedIsTruthful, OwnResultVerifies DEF OnlyTheTruthSettles
<1> QED  BY <1>1, BattleStarts, BattleGoesOn, PTL DEF ResultSpec
-----------------------------------------------------------------------------
(***************************************************************************)
(* The replay container: what a chain head commits to.                     *)
(***************************************************************************)
IsLinked(d, body, n) ==
  d = [i \in 0..n |-> IF i = 0 THEN Genesis ELSE EntryDigest(d[i - 1], body[i])]

Chained(d, body, n) == d[0] = Genesis /\ \A i \in 1..n : d[i] = EntryDigest(d[i - 1], body[i])

LEMMA LinkedDigests ==
  ASSUME NEW d, NEW body, NEW n \in Nat, IsLinked(d, body, n)
  PROVE  Chained(d, body, n)
<1>1. ASSUME NEW j \in 0..n PROVE d[j] = IF j = 0 THEN Genesis ELSE EntryDigest(d[j - 1], body[j])
  BY DEF IsLinked
<1> QED  BY <1>1 DEF Chained

LEMMA DigestsExist ==
  ASSUME NEW body, NEW n \in Nat
  PROVE  \E d : IsLinked(d, body, n)
<1> DEFINE K == {m \in 0..n : \E d : IsLinked(d, body, m)}
<1>1. 0 \in K
  <2> DEFINE d == [i \in 0..0 |-> Genesis]
  <2>1. d = [i \in 0..0 |-> IF i = 0 THEN Genesis ELSE EntryDigest(d[i - 1], body[i])]
    OBVIOUS
  <2>2. IsLinked(d, body, 0)
    BY <2>1 DEF IsLinked
  <2> QED  BY <2>2
<1>2. ASSUME NEW m \in 0 .. n - 1, m \in K PROVE m + 1 \in K
  <2>1. PICK d : IsLinked(d, body, m)
    BY <1>2
  <2> DEFINE g == [i \in 0 .. m + 1 |-> IF i = m + 1 THEN EntryDigest(d[m], body[m + 1]) ELSE d[i]]
  <2>2. d[0] = Genesis /\ \A i \in 1..m : d[i] = EntryDigest(d[i - 1], body[i])
    BY <2>1, LinkedDigests DEF Chained
  <2>3. (\A i \in 0..m : g[i] = d[i]) /\ g[m + 1] = EntryDigest(d[m], body[m + 1])
    OBVIOUS
  <2>4. g = [i \in DOMAIN g |-> g[i]] /\ DOMAIN g = 0 .. m + 1
    OBVIOUS
  <2> HIDE DEF g
  <2>5. ASSUME NEW i \in 0 .. m + 1 PROVE g[i] = IF i = 0 THEN Genesis ELSE EntryDigest(g[i - 1], body[i])
    <3>1. CASE i = m + 1
      BY <2>3, <3>1
    <3>2. CASE i = 0
      BY <2>2, <2>3, <3>2
    <3>3. CASE i \in 1..m
      <4>1. g[i - 1] = d[i - 1] /\ g[i] = d[i]
        BY <2>3, <3>3
      <4> QED  BY <2>2, <3>3, <4>1
    <3> QED  BY <3>1, <3>2, <3>3
  <2>6. IsLinked(g, body, m + 1)
    BY <2>4, <2>5 DEF IsLinked
  <2> QED  BY <2>6
<1> HIDE DEF K
<1>3. 0..n \subseteq K
  BY <1>1, <1>2, IntervalInduction
<1>4. n \in K
  BY <1>3
<1> QED  BY <1>4 DEF K

LEMMA ChainHeadIsLast ==
  ASSUME NEW body, Len(body) \in Nat
  PROVE  \E d : Chained(d, body, Len(body)) /\ ChainHead(body) = d[Len(body)]
<1> DEFINE n == Len(body)
           Eq(d) == d = [i \in 0..n |-> IF i = 0 THEN Genesis ELSE EntryDigest(d[i - 1], body[i])]
           chosen == CHOOSE d : Eq(d)
<1>1. \E d : Eq(d)
  BY DigestsExist DEF IsLinked
<1>2. Digests(body) = chosen
  BY DEF Digests
<1> HIDE DEF Eq
<1>3. Eq(chosen)
  BY <1>1
<1>4. Chained(chosen, body, n)
  <2>1. IsLinked(chosen, body, n)
    BY <1>3 DEF Eq, IsLinked
  <2> QED  BY <2>1, LinkedDigests
<1>5. ChainHead(body) = chosen[n]
  BY <1>2 DEF ChainHead
<1> HIDE DEF chosen
<1> QED  BY <1>4, <1>5

(* The digests of the same entries are the same.                           *)
LEMMA LinksAgree ==
  ASSUME NEW d, NEW e, NEW A, NEW B, NEW n \in Nat, Chained(d, A, n), Chained(e, B, n),
         \A i \in 1..n : A[i] = B[i]
  PROVE  d[n] = e[n]
<1> DEFINE K == {m \in 0..n : d[m] = e[m]}
<1>1. d[0] = Genesis /\ \A i \in 1..n : d[i] = EntryDigest(d[i - 1], A[i])
  BY DEF Chained
<1>2. e[0] = Genesis /\ \A i \in 1..n : e[i] = EntryDigest(e[i - 1], B[i])
  BY DEF Chained
<1>3. 0 \in K
  BY <1>1, <1>2
<1>4. ASSUME NEW m \in 0 .. n - 1, m \in K PROVE m + 1 \in K
  <2>1. m + 1 \in 1..n /\ (m + 1) - 1 = m
    OBVIOUS
  <2>2. d[m + 1] = EntryDigest(d[m], A[m + 1]) /\ e[m + 1] = EntryDigest(e[m], B[m + 1])
    BY <1>1, <1>2, <2>1
  <2>3. d[m] = e[m] /\ A[m + 1] = B[m + 1]
    BY <1>4, <2>1
  <2> QED  BY <2>1, <2>2, <2>3
<1> HIDE DEF K
<1>5. 0..n \subseteq K
  BY <1>3, <1>4, IntervalInduction
<1>6. n \in K
  BY <1>5
<1> QED  BY <1>6 DEF K

(* And entries with the same last digest are the same.                     *)
LEMMA HeadCommits ==
  ASSUME NEW d, NEW e, NEW A, NEW B, NEW n \in Nat, Chained(d, A, n), Chained(e, B, n), d[n] = e[n]
  PROVE  \A i \in 1..n : A[i] = B[i]
<1> DEFINE K == {m \in 0..n : d[n - m] = e[n - m]}
<1>1. \A i \in 1..n : d[i] = EntryDigest(d[i - 1], A[i])
  BY DEF Chained
<1>2. \A i \in 1..n : e[i] = EntryDigest(e[i - 1], B[i])
  BY DEF Chained
<1>3. ASSUME NEW i \in 1..n, d[i] = e[i] PROVE d[i - 1] = e[i - 1] /\ A[i] = B[i]
  <2>1. <<d[i - 1], A[i]>> = <<e[i - 1], B[i]>>
    BY <1>1, <1>2, <1>3 DEF EntryDigest
  <2> QED  BY <2>1
<1>4. 0 \in K
  OBVIOUS
<1>5. ASSUME NEW m \in 0 .. n - 1, m \in K PROVE m + 1 \in K
  <2>1. n - m \in 1..n /\ d[n - m] = e[n - m] /\ (n - m) - 1 = n - (m + 1) /\ m + 1 \in 0..n
    BY <1>5
  <2>2. d[(n - m) - 1] = e[(n - m) - 1]
    BY <1>3, <2>1
  <2> QED  BY <2>1, <2>2
<1> HIDE DEF K
<1>6. 0..n \subseteq K
  BY <1>4, <1>5, IntervalInduction
<1>7. ASSUME NEW i \in 1..n PROVE A[i] = B[i]
  <2>1. n - i \in 0..n /\ n - (n - i) = i
    OBVIOUS
  <2>2. d[i] = e[i]
    BY <1>6, <2>1 DEF K
  <2> QED  BY <1>3, <2>2
<1> QED  BY <1>7

LEMMA HeadOfLonger ==
  ASSUME NEW S, NEW body \in Seq(S), NEW e \in S
  PROVE  ChainHead(Append(body, e)) = EntryDigest(ChainHead(body), e)
<1> DEFINE n == Len(body)
           longer == Append(body, e)
<1>1. longer \in Seq(S) /\ Len(longer) = n + 1 /\ n \in Nat /\ longer[n + 1] = e
      /\ \A i \in 1..n : longer[i] = body[i]
  OBVIOUS
<1> HIDE DEF longer
<1>2. PICK d : Chained(d, body, n) /\ ChainHead(body) = d[n]
  BY <1>1, ChainHeadIsLast
<1>3. PICK c : Chained(c, longer, n + 1) /\ ChainHead(longer) = c[n + 1]
  BY <1>1, ChainHeadIsLast
<1> HIDE DEF n
<1>4. Chained(c, longer, n) /\ c[n + 1] = EntryDigest(c[n], e)
  <2>1. n + 1 \in 1 .. n + 1 /\ (n + 1) - 1 = n /\ 1..n \subseteq 1 .. n + 1
    BY <1>1
  <2> QED  BY <1>1, <1>3, <2>1 DEF Chained
<1>5. c[n] = d[n]
  BY <1>1, <1>2, <1>4, LinksAgree
<1> QED  BY <1>2, <1>3, <1>4, <1>5 DEF longer

LEMMA HeadOfOne ==
  ASSUME NEW S, NEW e \in S
  PROVE  ChainHead(<<e>>) = EntryDigest(Genesis, e)
<1> DEFINE one == <<e>>
<1>1. Len(one) = 1 /\ one[1] = e
  OBVIOUS
<1> HIDE DEF one
<1>2. PICK d : Chained(d, one, 1) /\ ChainHead(one) = d[1]
  <2>1. \E d : Chained(d, one, Len(one)) /\ ChainHead(one) = d[Len(one)]
    <3>1. Len(one) \in Nat
      BY <1>1
    <3> QED  BY <3>1, ChainHeadIsLast
  <2> QED  BY <1>1, <2>1
<1>3. d[1] = EntryDigest(d[1 - 1], e) /\ d[0] = Genesis
  BY <1>1, <1>2 DEF Chained
<1> QED  BY <1>2, <1>3 DEF one

(* Two recordings of one length and one head are one recording.            *)
LEMMA SameHeadSameBody ==
  ASSUME NEW S, NEW A \in Seq(S), NEW B \in Seq(S), Len(A) = Len(B), ChainHead(A) = ChainHead(B)
  PROVE  A = B
<1>1. PICK d : Chained(d, A, Len(A)) /\ ChainHead(A) = d[Len(A)]
  BY ChainHeadIsLast
<1>2. PICK e : Chained(e, B, Len(B)) /\ ChainHead(B) = e[Len(B)]
  BY ChainHeadIsLast
<1> DEFINE n == Len(A)
<1>3. \A i \in 1..n : A[i] = B[i]
  <2>0. n \in Nat /\ Len(B) = n
    OBVIOUS
  <2>1. Chained(d, A, n) /\ ChainHead(A) = d[n]
    BY <1>1
  <2>2. Chained(e, B, n) /\ ChainHead(B) = e[n]
    BY <1>2, <2>0
  <2>3. d[n] = e[n]
    BY <2>1, <2>2
  <2> HIDE DEF n
  <2> QED  BY <2>0, <2>1, <2>2, <2>3, HeadCommits
<1> QED  BY <1>3
-----------------------------------------------------------------------------
(* What the chunks put together make.                                      *)
LEMMA FlattenUnfolds ==
  ASSUME NEW S, NEW seqs \in Seq(Seq(S)), NEW f \in [0..Len(seqs) -> Seq(S)], f[0] = << >>,
         \A i \in 1..Len(seqs) : f[i] = f[i - 1] \o seqs[i]
  PROVE  FlattenSeq(seqs) = f[Len(seqs)]
<1> DEFINE n == Len(seqs)
<1>0. n \in Nat
  OBVIOUS
<1>1. ASSUME NEW i \in 1..n, i = 1 PROVE f[i] = seqs[i]
  <2>1. i - 1 = 0
    BY <1>1
  <2>2. f[i] = f[0] \o seqs[i]
    BY <2>1
  <2>3. seqs[i] \in Seq(S)
    OBVIOUS
  <2> QED  BY <2>2, <2>3, ConcatEmptySeq
<1>2. CASE n = 0
  <2>1. seqs = << >>
    BY <1>2
  <2> QED  BY <1>2, <2>1 DEF FlattenSeq
<1>3. CASE n # 0
  <2> DEFINE Eq(h) == h = [i \in 1..n |-> IF i = 1 THEN seqs[i] ELSE h[i - 1] \o seqs[i]]
             flat == CHOOSE h : Eq(h)
  <2>1. FlattenSeq(seqs) = flat[n]
    BY <1>3 DEF FlattenSeq
  <2>2. \E h : Eq(h)
    <3> DEFINE h == [i \in 1..n |-> f[i]]
    <3>1. ASSUME NEW i \in 1..n PROVE h[i] = IF i = 1 THEN seqs[i] ELSE h[i - 1] \o seqs[i]
      <4>1. CASE i = 1
        <5>1. f[i] = seqs[i]
          BY <1>1, <4>1
        <5> QED  BY <4>1, <5>1
      <4>2. CASE i # 1
        <5>1. i - 1 \in 1..n
          BY <4>2
        <5> QED  BY <4>2, <5>1
      <4> QED  BY <4>1, <4>2
    <3>2. h = [i \in 1..n |-> h[i]]
      OBVIOUS
    <3> HIDE DEF h
    <3>3. h = [i \in 1..n |-> IF i = 1 THEN seqs[i] ELSE h[i - 1] \o seqs[i]]
      BY <3>1, <3>2
    <3> QED  BY <3>3
  <2> HIDE DEF Eq
  <2>3. Eq(flat)
    BY <2>2
  <2> HIDE DEF flat
  <2>4. ASSUME NEW i \in 1..n PROVE flat[i] = IF i = 1 THEN seqs[i] ELSE flat[i - 1] \o seqs[i]
    BY <2>3 DEF Eq
  <2> DEFINE K == {m \in 0..n : m = 0 \/ flat[m] = f[m]}
  <2>5. ASSUME NEW m \in K, m # 0 PROVE m \in 1..n /\ flat[m] = f[m]
    BY <2>5
  <2>6. 0 \in K
    BY <1>0
  <2>7. ASSUME NEW m \in 0 .. n - 1, m \in K PROVE m + 1 \in K
    <3>1. m + 1 \in 1..n /\ m + 1 \in 0..n /\ (m + 1) - 1 = m
      BY <1>0
    <3>2. f[m + 1] = f[m] \o seqs[m + 1]
      BY <3>1
    <3>3. CASE m = 0
      <4>1. m + 1 = 1
        BY <3>3
      <4>2. f[m + 1] = seqs[m + 1]
        BY <1>1, <3>1, <4>1
      <4>3. flat[m + 1] = seqs[m + 1]
        BY <2>4, <3>1, <4>1
      <4> QED  BY <3>1, <4>2, <4>3
    <3>4. CASE m # 0
      <4>1. flat[m] = f[m]
        BY <2>5, <2>7, <3>4
      <4>2. m + 1 # 1
        BY <2>7, <3>4
      <4>3. flat[m + 1] = flat[(m + 1) - 1] \o seqs[m + 1]
        BY <2>4, <3>1, <4>2
      <4>4. flat[m + 1] = f[m + 1]
        BY <3>1, <3>2, <4>1, <4>3
      <4> QED  BY <3>1, <4>4
    <3> QED  BY <3>3, <3>4
  <2> HIDE DEF K
  <2>8. 0..n \subseteq K
    BY <1>0, <2>6, <2>7, IntervalInduction
  <2>9. n \in K
    BY <1>0, <2>8
  <2> QED  BY <1>3, <2>1, <2>9 DEF K
<1> QED  BY <1>2, <1>3

(* The chunks so far, one more at a time.                                  *)
Partials(f, seqs) == f[0] = << >> /\ \A i \in 1..Len(seqs) : f[i] = f[i - 1] \o seqs[i]

LEMMA PartialsExist ==
  ASSUME NEW S, NEW seqs \in Seq(Seq(S))
  PROVE  \E f \in [0..Len(seqs) -> Seq(S)] : Partials(f, seqs)
<1> DEFINE n == Len(seqs)
           V == Seq(S)
           step == [z \in (1..n) \X V |-> z[2] \o seqs[z[1]]]
<1>1. seqs \in Seq(V) /\ n \in Nat /\ << >> \in V
  OBVIOUS
<1>2. step \in [(1..n) \X V -> V]
  <2>1. ASSUME NEW i \in 1..n, NEW v \in V PROVE v \o seqs[i] \in V
    <3>1. seqs[i] \in V
      OBVIOUS
    <3> QED  BY <3>1
  <2> QED  BY <2>1
<1> HIDE DEF V
<1>3. \A i \in 1..n, v \in V : step[<<i, v>>] = v \o seqs[i]
  OBVIOUS
<1> HIDE DEF step
<1>4. PICK f \in [0..n -> V] : Counts(n, f, << >>, step)
  BY <1>1, <1>2, IntervalRecursion
<1>5. ASSUME NEW i \in 1..n PROVE f[i] = f[i - 1] \o seqs[i]
  <2>1. f[i - 1] \in V
    <3>1. i - 1 \in 0..n
      BY <1>1
    <3> HIDE DEF n
    <3> QED  BY <1>4, <3>1
  <2>2. f[i] = step[<<i, f[i - 1]>>]
    BY <1>4 DEF Counts
  <2> QED  BY <1>3, <2>1, <2>2
<1> QED  BY <1>4, <1>5 DEF Counts, Partials, V

LEMMA FlattenOfLonger ==
  ASSUME NEW S, NEW seqs \in Seq(Seq(S)), NEW x \in Seq(S)
  PROVE  FlattenSeq(Append(seqs, x)) = FlattenSeq(seqs) \o x
<1> DEFINE n == Len(seqs)
           longer == Append(seqs, x)
<1>1. longer \in Seq(Seq(S)) /\ Len(longer) = n + 1 /\ n \in Nat /\ longer[n + 1] = x
      /\ \A i \in 1..n : longer[i] = seqs[i]
  OBVIOUS
<1> HIDE DEF longer, n
<1>2. PICK f \in [0 .. n + 1 -> Seq(S)] : Partials(f, longer)
  BY <1>1, PartialsExist
<1>3. f[0] = << >> /\ \A i \in 1 .. n + 1 : f[i] = f[i - 1] \o longer[i]
  BY <1>1, <1>2 DEF Partials
<1>4. FlattenSeq(longer) = f[n + 1]
  BY <1>1, <1>3, FlattenUnfolds
<1> DEFINE g == [i \in 0..n |-> f[i]]
<1>5. g \in [0..n -> Seq(S)] /\ g[0] = << >> /\ g[n] = f[n]
  BY <1>1, <1>3
<1>6. ASSUME NEW i \in 1..n PROVE g[i] = g[i - 1] \o seqs[i]
  <2>1. i \in 1 .. n + 1 /\ i \in 0..n /\ i - 1 \in 0..n
    BY <1>1
  <2>2. g[i] = f[i] /\ g[i - 1] = f[i - 1]
    BY <2>1
  <2> HIDE DEF g
  <2> QED  BY <1>1, <1>3, <2>1, <2>2
<1> HIDE DEF g
<1>7. FlattenSeq(seqs) = g[n]
  BY <1>5, <1>6, FlattenUnfolds DEF n
<1>8. f[n + 1] = f[n] \o x
  <2>1. n + 1 \in 1 .. n + 1 /\ (n + 1) - 1 = n
    BY <1>1
  <2> QED  BY <1>1, <1>3, <2>1
<1> QED  BY <1>4, <1>5, <1>7, <1>8 DEF longer

LEMMA FlattenIsTyped ==
  ASSUME NEW S, NEW seqs \in Seq(Seq(S)), seqs # << >>, seqs[Len(seqs)] # << >>
  PROVE  FlattenSeq(seqs) \in Seq(S) /\ FlattenSeq(seqs) # << >>
<1> DEFINE n == Len(seqs)
<1>1. PICK f \in [0..n -> Seq(S)] : Partials(f, seqs)
  BY PartialsExist
<1>2. FlattenSeq(seqs) = f[n]
  BY <1>1, FlattenUnfolds DEF Partials
<1>3. n \in 1..n /\ n - 1 \in 0..n /\ n \in 0..n
  OBVIOUS
<1>4. f[n] = f[n - 1] \o seqs[n] /\ f[n] \in Seq(S) /\ f[n - 1] \in Seq(S) /\ seqs[n] \in Seq(S)
  <2>1. f[n] = f[n - 1] \o seqs[n]
    BY <1>1, <1>3 DEF Partials
  <2>2. seqs[n] \in Seq(S)
    BY <1>3
  <2> HIDE DEF n
  <2>3. f[n] \in Seq(S) /\ f[n - 1] \in Seq(S)
    BY <1>1, <1>3
  <2> QED  BY <2>1, <2>2, <2>3
<1> HIDE DEF n
<1>5. f[n] # << >>
  BY <1>4 DEF n
<1> QED  BY <1>2, <1>4, <1>5
-----------------------------------------------------------------------------
(* The recorder and the upload.                                            *)
Entries == [seq : Nat, speaker : Speakers \cup {"match"}, payload : Payloads \cup {"seed"}]
Pieces(c) == Entries \cup {c.header, c.trailer}

UploadOK ==
  /\ upload = "not yet" => dem = NoDem /\ sent = 0 /\ stored = << >>
  /\ upload \in {"going", "ok"} => dem # NoDem
  /\ upload = "going" =>
       /\ stored \in Seq(Seq(Pieces(dem)))
       /\ sent * ChunkSize < Len(Bytes(dem))
       /\ FlattenSeq(stored) = SubSeq(Bytes(dem), 1, sent * ChunkSize)
  /\ upload = "ok" => FlattenSeq(stored) = Bytes(dem)

DemInv ==
  /\ DemTypeOK
  /\ Len(log) >= 1 /\ VerifyChain(log) /\ head = ChainHead(log)
  /\ dem = NoDem \/ dem = Container(DemHeader, log)
  /\ UploadOK

LEMMA DemStarts == DemInit => DemInv
<1> SUFFICES ASSUME DemInit PROVE DemInv
  OBVIOUS
<1>0. /\ log = <<SeedEntry>> /\ head = EntryDigest(Genesis, SeedEntry) /\ userOf = [p \in Speakers |-> ""]
      /\ dem = NoDem /\ upload = "not yet" /\ sent = 0 /\ stored = << >>
  BY DEF DemInit
<1>1. SeedEntry \in Entries /\ SeedEntry.seq = 1
  BY DEF SeedEntry, Entry, Entries
<1> DEFINE one == <<SeedEntry>>
<1>2. one \in Seq(Entries) /\ Len(one) = 1 /\ \A i \in 1..1 : one[i] = SeedEntry
  <2> HIDE DEF Entries
  <2> QED  BY <1>1
<1> HIDE DEF one
<1>3. DemTypeOK
  BY <1>0, <1>2 DEF DemTypeOK, Entries, one
<1>4. VerifyChain(log)
  <2>1. VerifyChain(one)
    BY <1>1, <1>2 DEF VerifyChain
  <2> QED  BY <1>0, <2>1 DEF one
<1>5. head = ChainHead(log)
  BY <1>0, <1>1, HeadOfOne
<1>6. UploadOK
  BY <1>0 DEF UploadOK
<1>7. Len(log) >= 1
  <2>1. log = one
    BY <1>0 DEF one
  <2> QED  BY <1>2, <2>1
<1>8. dem = NoDem
  BY <1>0
<1> QED  BY <1>3, <1>4, <1>5, <1>6, <1>7, <1>8 DEF DemInv

LEMMA LogIsTyped ==
  ASSUME DemInv
  PROVE  /\ log \in Seq(Entries) /\ Len(log) \in Nat /\ Len(log) >= 1
         /\ \A i \in 1..Len(log) : log[i].seq = i
<1>1. log \in Seq(Entries)
  BY DEF DemInv, DemTypeOK, Entries
<1>2. Len(log) \in Nat
  BY <1>1
<1>3. Len(log) >= 1 /\ \A i \in 1..Len(log) : log[i].seq = i
  BY DEF DemInv, VerifyChain
<1> QED  BY <1>1, <1>2, <1>3

LEMMA BytesOfContainer ==
  ASSUME DemInv, dem # NoDem
  PROVE  /\ Bytes(dem) \in Seq(Pieces(dem)) /\ Len(Bytes(dem)) = Len(log) + 2
         /\ dem.header = DemHeader /\ dem.body = log /\ dem.trailer = Trailer(DemHeader, log)
<1> DEFINE P == Pieces(dem)
<1>1. dem.header = DemHeader /\ dem.body = log /\ dem.trailer = Trailer(DemHeader, log)
  BY DEF DemInv, Container
<1>2. log \in Seq(Entries)
  BY DEF DemInv, DemTypeOK, Entries
<1>3. log \in Seq(P) /\ dem.header \in P /\ dem.trailer \in P
  BY <1>2 DEF Pieces
<1> HIDE DEF P
<1>4. /\ <<dem.header>> \o log \o <<dem.trailer>> \in Seq(P)
      /\ Len(<<dem.header>> \o log \o <<dem.trailer>>) = Len(log) + 2
  BY <1>3
<1>5. Bytes(dem) = <<dem.header>> \o log \o <<dem.trailer>>
  BY <1>1 DEF Bytes
<1> QED  BY <1>1, <1>4, <1>5 DEF P

LEMMA Rounding ==
  ASSUME NEW n \in Nat, NEW c \in Nat \ {0}, NEW k \in Nat
  PROVE  /\ (n + c - 1) \div c \in Nat
         /\ k = (n + c - 1) \div c => n <= k * c
         /\ k < (n + c - 1) \div c => k * c < n
<1> DEFINE q == (n + c - 1) \div c
           r == (n + c - 1) % c
<1>1. q \in Nat /\ r \in 0 .. c - 1 /\ n + c - 1 = c * q + r
  OBVIOUS
<1> HIDE DEF q, r
<1>2. n <= q * c /\ q * c < n + c
  BY <1>1
<1>3. ASSUME k < q PROVE k * c < n
  <2>1. k + 1 <= q
    BY <1>1, <1>3
  <2>2. (k + 1) * c <= q * c
    BY <1>1, <2>1
  <2>3. (k + 1) * c = k * c + c
    OBVIOUS
  <2>4. k * c \in Int /\ q * c \in Int
    BY <1>1
  <2> QED  BY <1>2, <2>2, <2>3, <2>4
<1> QED  BY <1>1, <1>2, <1>3 DEF q

LEMMA RecordKeeps ==
  ASSUME DemInv, NEW p \in Speakers, NEW w \in Payloads, Record(p, w)
  PROVE  DemInv'
<1> DEFINE e == Entry(log[Len(log)].seq + 1, p, w)
           n == Len(log)
<1>1. /\ dem = NoDem /\ upload = "not yet" /\ log' = Append(log, e) /\ head' = EntryDigest(head, e)
      /\ userOf' = userOf /\ dem' = dem /\ upload' = upload /\ sent' = sent /\ stored' = stored
  BY DEF Record, Recording
<1>2. log \in Seq(Entries) /\ n \in Nat /\ n >= 1 /\ \A i \in 1..n : log[i].seq = i
  BY LogIsTyped
<1>3. e = [seq |-> n + 1, speaker |-> p, payload |-> w]
  BY <1>2 DEF Entry
<1>4. e \in Entries /\ e.seq = n + 1
  BY <1>2, <1>3 DEF Entries
<1> HIDE DEF e
<1>5. log' \in Seq(Entries) /\ Len(log') = n + 1 /\ \A i \in 1 .. n + 1 : log'[i] = IF i = n + 1 THEN e ELSE log[i]
  <2> DEFINE longer == Append(log, e)
  <2>1. longer \in Seq(Entries) /\ Len(longer) = n + 1
        /\ \A i \in 1 .. n + 1 : longer[i] = IF i = n + 1 THEN e ELSE log[i]
    BY <1>2, <1>4
  <2>2. log' = longer
    BY <1>1
  <2> HIDE DEF longer, n
  <2> QED  BY <2>1, <2>2
<1>6. VerifyChain(log)'
  BY <1>2, <1>4, <1>5 DEF VerifyChain
<1>7. head' = ChainHead(log')
  <2>1. head = ChainHead(log)
    BY DEF DemInv
  <2> QED  BY <1>1, <1>2, <1>4, <2>1, HeadOfLonger
<1>8. DemTypeOK'
  BY <1>1, <1>5 DEF DemInv, DemTypeOK, Entries
<1>9. UploadOK'
  BY <1>1 DEF DemInv, UploadOK
<1>10. Len(log') >= 1
  BY <1>2, <1>5
<1>11. dem' = NoDem
  BY <1>1
<1>12. NoDem' = NoDem
  BY DEF NoDem
<1>13. (head = ChainHead(log))' /\ (Len(log) >= 1)' /\ (dem = NoDem)'
  BY <1>7, <1>10, <1>11, <1>12
<1> QED  BY <1>6, <1>8, <1>9, <1>13 DEF DemInv

LEMMA NoteKeeps ==
  ASSUME DemInv, NEW p \in Speakers, NEW u \in Users, NoteUserId(p, u)
  PROVE  DemInv'
<1>1. /\ dem = NoDem /\ upload = "not yet" /\ userOf' = [userOf EXCEPT ![p] = u]
      /\ log' = log /\ head' = head /\ dem' = dem /\ upload' = upload /\ sent' = sent /\ stored' = stored
  BY DEF NoteUserId, Recording
<1>2. userOf' \in [Speakers -> Users \cup {""}]
  BY <1>1 DEF DemInv, DemTypeOK
<1>3. DemTypeOK'
  BY <1>1, <1>2 DEF DemInv, DemTypeOK
<1>4. UploadOK' /\ VerifyChain(log)' /\ (head = ChainHead(log))' /\ (Len(log) >= 1)' /\ (dem = NoDem)'
  BY <1>1 DEF DemInv, UploadOK
<1> QED  BY <1>3, <1>4 DEF DemInv

LEMMA FinalizeKeeps ==
  ASSUME DemInv, Finalize
  PROVE  DemInv'
<1>1. /\ dem' = WriteDemDocument /\ upload' = IF dem' = NoDem THEN "failed" ELSE "going"
      /\ log' = log /\ head' = head /\ userOf' = userOf /\ sent' = sent /\ stored' = stored
      /\ upload = "not yet"
  BY DEF Finalize, Recording
<1>2. DemTypeOK'
  BY <1>1 DEF DemInv, DemTypeOK
<1>3. VerifyChain(log)' /\ (head = ChainHead(log))' /\ (Len(log) >= 1)'
  BY <1>1 DEF DemInv
<1>4. DemHeader' = DemHeader /\ (dem' = NoDem \/ dem' = Container(DemHeader, log))
  BY <1>1 DEF DemHeader, WriteDemDocument
<1>5. (dem = NoDem \/ dem = Container(DemHeader, log))'
  BY <1>1, <1>4
<1>6. CASE dem' = NoDem
  <2>1. UploadOK'
    BY <1>1, <1>6 DEF UploadOK
  <2> QED  BY <1>2, <1>3, <1>5, <2>1 DEF DemInv
<1>7. CASE dem' # NoDem
  <2>1. upload' = "going" /\ sent' = 0 /\ stored' = << >>
    BY <1>1, <1>7 DEF DemInv, UploadOK
  <2> DEFINE b == Bytes(dem')
  <2>2. b \in Seq(Pieces(dem')) /\ Len(b) = Len(log) + 2 /\ Len(log) \in Nat
    <3>1. log \in Seq(Entries)
      BY DEF DemInv, DemTypeOK, Entries
    <3>2. dem' = Container(DemHeader, log)
      BY <1>4, <1>7
    <3>3. dem'.body = log
      BY <3>2 DEF Container
    <3> DEFINE P == Pieces(dem')
    <3>4. log \in Seq(P) /\ dem'.header \in P /\ dem'.trailer \in P
      BY <3>1 DEF Pieces
    <3>5. b = <<dem'.header>> \o log \o <<dem'.trailer>>
      BY <3>3 DEF Bytes
    <3> HIDE DEF P, b
    <3>6. b \in Seq(P) /\ Len(b) = Len(log) + 2
      BY <3>4, <3>5
    <3> QED  BY <3>1, <3>6 DEF P
  <2> HIDE DEF b
  <2>3. 0 * ChunkSize = 0
    BY DemAssumption
  <2>4. SubSeq(b, 1, 0) = << >>
    BY <2>2, SubSeqEmpty
  <2>5. FlattenSeq(<< >>) = << >>
    BY DEF FlattenSeq
  <2>6. << >> \in Seq(Seq(Pieces(dem')))
    OBVIOUS
  <2>7. 0 * ChunkSize < Len(b)
    BY <2>2, <2>3
  <2>8. FlattenSeq(<< >>) = SubSeq(b, 1, 0 * ChunkSize)
    BY <2>3, <2>4, <2>5
  <2>9. UploadOK'
    BY <1>7, <2>1, <2>6, <2>7, <2>8 DEF UploadOK, b
  <2> QED  BY <1>2, <1>3, <1>5, <2>9 DEF DemInv
<1> QED  BY <1>6, <1>7

LEMMA PostKeeps ==
  ASSUME DemInv, NEW answer \in {"stored", "lost", "refused"}, PostChunk(answer)
  PROVE  DemInv'
<1> DEFINE b == Bytes(dem)
           N == Len(Bytes(dem))
           C == ChunkSize
           begin == sent * C
<1>1. /\ upload = "going" /\ sent' = sent + 1
      /\ stored' = IF answer = "refused" THEN stored ELSE Append(stored, Chunk(sent))
      /\ upload' = IF answer # "stored" THEN "failed" ELSE IF sent' = ChunkCount THEN "ok" ELSE "going"
      /\ log' = log /\ head' = head /\ userOf' = userOf /\ dem' = dem
  BY DEF PostChunk
<1>2. DemTypeOK'
  <2>1. sent' \in Nat
    <3>1. sent \in Nat
      BY DEF DemInv, DemTypeOK
    <3>2. sent' = sent + 1
      BY <1>1
    <3> QED  BY <3>1, <3>2
  <2>2. upload' \in {"failed", "ok", "going"}
    BY <1>1
  <2> QED  BY <1>1, <2>1, <2>2 DEF DemInv, DemTypeOK
<1>3. VerifyChain(log)' /\ (head = ChainHead(log))' /\ (Len(log) >= 1)'
  BY <1>1 DEF DemInv
<1>4. (dem = NoDem \/ dem = Container(DemHeader, log))'
  BY <1>1 DEF DemInv, DemHeader
<1>5. CASE answer # "stored"
  <2>1. upload' = "failed"
    BY <1>1, <1>5
  <2>2. UploadOK'
    BY <2>1 DEF UploadOK
  <2> QED  BY <1>2, <1>3, <1>4, <2>2 DEF DemInv
<1>6. CASE answer = "stored"
  <2>1. dem # NoDem
    BY <1>1 DEF DemInv, UploadOK
  <2>2. b \in Seq(Pieces(dem)) /\ N = Len(log) + 2 /\ Len(log) \in Nat /\ N \in Nat
    <3>1. Len(log) \in Nat
      BY LogIsTyped
    <3> QED  BY <2>1, <3>1, BytesOfContainer
  <2>3. /\ stored \in Seq(Seq(Pieces(dem))) /\ sent * C < N
        /\ FlattenSeq(stored) = SubSeq(b, 1, begin)
    BY <1>1 DEF DemInv, UploadOK
  <2>4. C \in Nat \ {0} /\ sent \in Nat
    BY DemAssumption DEF DemInv, DemTypeOK
  <2> DEFINE end == IF begin + C < N THEN begin + C ELSE N
  <2>5. Chunk(sent) = SubSeq(b, begin + 1, end)
    BY DEF Chunk
  <2>6. (sent + 1) * C = begin + C /\ begin \in Nat
    BY <2>4
  <2>7. ChunkCount = (N + C - 1) \div C
    BY <2>2 DEF ChunkCount
  <2>8. /\ ChunkCount \in Nat
        /\ sent + 1 = ChunkCount => N <= begin + C
        /\ sent + 1 < ChunkCount => begin + C < N
    <3>1. sent + 1 \in Nat
      BY <2>4
    <3> DEFINE k == sent + 1
               q == (N + C - 1) \div C
    <3> HIDE DEF N, C, begin
    <3>2. q \in Nat /\ (k = q => N <= k * C) /\ (k < q => k * C < N)
      BY <2>2, <2>4, <3>1, Rounding
    <3> HIDE DEF q
    <3>3. ChunkCount = q
      BY <2>7 DEF q
    <3> QED  BY <2>6, <3>2, <3>3
  <2>9. sent + 1 <= ChunkCount
    <3> DEFINE q == (N + C - 1) \div C
    <3>1. begin < N /\ begin = sent * C
      BY <2>3
    <3> HIDE DEF N, C, begin
    <3>2. q \in Nat /\ (sent = q => N <= sent * C) /\ (sent + 1 = q => N <= (sent + 1) * C)
          /\ N <= q * C
      BY <2>2, <2>4, Rounding
    <3> HIDE DEF q
    <3>3. CASE q <= sent
      <4>1. (sent - q) * C \in Nat /\ sent * C = q * C + (sent - q) * C
        BY <2>4, <3>2, <3>3
      <4> QED  BY <2>2, <2>4, <3>1, <3>2, <4>1
    <3>4. CASE sent < q
      BY <2>4, <2>7, <3>2, <3>4 DEF q
    <3> QED  BY <2>4, <3>2, <3>3, <3>4
  <2> DEFINE P == Pieces(dem)
  <2> HIDE DEF b, begin, P
  <2>10. b \in Seq(P) /\ Len(b) = N /\ begin \in 0..N /\ end \in begin..N
    BY <2>2, <2>3, <2>4, <2>6 DEF b, begin, P
  <2>11. Chunk(sent) \in Seq(P) /\ SubSeq(b, 1, begin) \o SubSeq(b, begin + 1, end) = SubSeq(b, 1, end)
    <3> HIDE DEF N, end
    <3>1. SubSeq(b, begin + 1, end) \in Seq(P)
      BY <2>2, <2>10, SubSeqProperties
    <3>2. SubSeq(b, 1, begin) \o SubSeq(b, begin + 1, end) = SubSeq(b, 1, end)
      <4>1. begin \in 1 - 1 .. Len(b) /\ end \in begin..Len(b) /\ 1 \in 1 .. Len(b) + 1
        BY <2>2, <2>10
      <4> QED  BY <2>10, <4>1, ConcatAdjacentSubSeq
    <3> QED  BY <2>5, <3>1, <3>2
  <2>14. stored' = Append(stored, Chunk(sent)) /\ stored \in Seq(Seq(P)) /\ FlattenSeq(stored) = SubSeq(b, 1, begin)
    BY <1>1, <1>6, <2>3 DEF P
  <2>15. stored' \in Seq(Seq(P)) /\ FlattenSeq(stored') = SubSeq(b, 1, end)
    <3>1. FlattenSeq(Append(stored, Chunk(sent))) = FlattenSeq(stored) \o Chunk(sent)
      BY <2>11, <2>14, FlattenOfLonger
    <3>2. Append(stored, Chunk(sent)) \in Seq(Seq(P))
      BY <2>11, <2>14
    <3> QED  BY <2>5, <2>11, <2>14, <3>1, <3>2
  <2>12. CASE sent + 1 = ChunkCount
    <3>1. upload' = "ok" /\ FlattenSeq(stored') = b
      <4>1. end = N
        BY <2>2, <2>6, <2>8, <2>10, <2>12
      <4>2. SubSeq(b, 1, N) = b
        BY <2>10, SubSeqFull
      <4>3. upload' = "ok"
        BY <1>1, <1>6, <2>12
      <4> QED  BY <2>15, <4>1, <4>2, <4>3
    <3>2. UploadOK'
      BY <1>1, <2>1, <3>1 DEF UploadOK, b
    <3> QED  BY <1>2, <1>3, <1>4, <3>2 DEF DemInv
  <2>13. CASE sent + 1 # ChunkCount
    <3>1. upload' = "going" /\ sent' * C < N /\ FlattenSeq(stored') = SubSeq(b, 1, sent' * C)
      <4>1. sent + 1 < ChunkCount
        BY <2>4, <2>8, <2>9, <2>13
      <4>2. begin + C < N
        BY <2>8, <4>1
      <4>3. sent' * C = begin + C
        BY <1>1, <2>6
      <4>4. upload' = "going"
        BY <1>1, <1>6, <2>13
      <4> QED  BY <2>15, <4>2, <4>3, <4>4
    <3>2. UploadOK'
      BY <1>1, <2>1, <2>15, <3>1 DEF UploadOK, b, N, P
    <3> QED  BY <1>2, <1>3, <1>4, <3>2 DEF DemInv
  <2> QED  BY <2>12, <2>13
<1> QED  BY <1>5, <1>6

LEMMA DemGoesOn == DemInv /\ [DemNext]_demVars => DemInv'
<1>1. ASSUME DemInv, UNCHANGED demVars PROVE DemInv'
  BY <1>1 DEF demVars, DemInv, DemTypeOK, DemHeader, UploadOK
<1> QED  BY <1>1, RecordKeeps, NoteKeeps, FinalizeKeeps, PostKeeps DEF DemNext

(* Every body that somebody makes of the recorded one is a body.           *)
LEMMA ReworkedIsABody ==
  ASSUME DemInv, NEW other \in Reworked(log)
  PROVE  other \in Seq(Entries) /\ Renumbered(other) \in Seq(Entries)
<1> DEFINE n == Len(log)
<1>0. log \in Seq(Entries) /\ n \in Nat /\ \A i \in 1..n : log[i] \in Entries
  BY LogIsTyped
<1>1. other \in Seq(Entries)
  <2>1. ASSUME NEW i \in 1..n, NEW w \in Payloads, other = [log EXCEPT ![i].payload = w]
        PROVE  other \in Seq(Entries)
    <3>1. [log[i] EXCEPT !.payload = w] \in Entries
      BY <1>0 DEF Entries
    <3>2. other = [log EXCEPT ![i] = [log[i] EXCEPT !.payload = w]]
      BY <1>0, <2>1
    <3> DEFINE e == [log[i] EXCEPT !.payload = w]
    <3> HIDE DEF e
    <3> QED  BY <1>0, <3>1, <3>2 DEF e
  <2>2. ASSUME NEW i \in 1..n, NEW p \in Speakers, other = [log EXCEPT ![i].speaker = p]
        PROVE  other \in Seq(Entries)
    <3>1. [log[i] EXCEPT !.speaker = p] \in Entries
      BY <1>0 DEF Entries
    <3>2. other = [log EXCEPT ![i] = [log[i] EXCEPT !.speaker = p]]
      BY <1>0, <2>2
    <3> QED  BY <1>0, <3>1, <3>2
  <2>3. ASSUME NEW i \in 1..n, other = RemoveAt(log, i) PROVE other \in Seq(Entries)
    <3>1. SubSeq(log, 1, i - 1) \in Seq(Entries) /\ SubSeq(log, i + 1, n) \in Seq(Entries)
      BY <1>0, SubSeqProperties
    <3> QED  BY <2>3, <3>1 DEF RemoveAt
  <2>4. ASSUME NEW i \in 1..n, other = InsertAt(log, i, log[i]) PROVE other \in Seq(Entries)
    <3>1. SubSeq(log, 1, i - 1) \in Seq(Entries) /\ SubSeq(log, i, n) \in Seq(Entries) /\ <<log[i]>> \in Seq(Entries)
      BY <1>0, SubSeqProperties
    <3> QED  BY <2>4, <3>1 DEF InsertAt
  <2>5. ASSUME NEW i \in 1..(n - 1), other = [log EXCEPT ![i] = log[i + 1], ![i + 1] = log[i]]
        PROVE  other \in Seq(Entries)
    <3>1. i \in 1..n /\ i + 1 \in 1..n
      BY <1>0
    <3>2. log[i] \in Entries /\ log[i + 1] \in Entries
      BY <1>0, <3>1
    <3> HIDE DEF Entries
    <3> QED  BY <1>0, <2>5, <3>1, <3>2
  <2> QED  BY <2>1, <2>2, <2>3, <2>4, <2>5 DEF Reworked
<1>2. Renumbered(other) \in Seq(Entries)
  <2>1. Len(other) \in Nat /\ \A i \in 1..Len(other) : other[i] \in Entries
    BY <1>1
  <2>2. ASSUME NEW i \in 1..Len(other) PROVE [other[i] EXCEPT !.seq = i] \in Entries
    BY <2>1 DEF Entries
  <2> HIDE DEF Entries
  <2> QED  BY <2>1, <2>2 DEF Renumbered
<1> QED  BY <1>1, <1>2

(* Under the header of a written document nothing but the recorded body    *)
(* can be read.                                                            *)
LEMMA HeaderCommits ==
  ASSUME DemInv, dem # NoDem, NEW body \in Seq(Entries), Parses(Container(dem.header, body))
  PROVE  body = log
<1> DEFINE c == Container(dem.header, body)
<1>1. c.header = dem.header /\ c.body = body
  BY DEF Container
<1>2. dem.header = DemHeader
  BY BytesOfContainer
<1>3. Len(body) = Len(log) /\ ChainHead(body) = ChainHead(log)
  <2>1. c.header.entryCount = Len(body) /\ c.header.chainHead = ChainHead(body)
    BY <1>1 DEF Parses
  <2>2. c.header.entryCount = Len(log) /\ c.header.chainHead = head
    BY <1>1, <1>2 DEF DemHeader
  <2>3. head = ChainHead(log)
    BY DEF DemInv
  <2> QED  BY <2>1, <2>2, <2>3
<1> QED  BY <1>3, LogIsTyped, SameHeadSameBody

LEMMA WhatIsAcceptedWasRecorded == DemInv => AcceptedReplayIsTheRecorded
<1> SUFFICES ASSUME DemInv PROVE AcceptedReplayIsTheRecorded
  OBVIOUS
<1>1. ASSUME dem # NoDem PROVE Parses(dem) /\ dem.body = log
  <2>1. /\ dem.header = DemHeader /\ dem.body = log /\ dem.trailer = Trailer(DemHeader, log)
    BY <1>1, BytesOfContainer
  <2>2. VerifyChain(log) /\ head = ChainHead(log)
    BY DEF DemInv
  <2>3. DemHeader.entryCount = Len(log) /\ DemHeader.chainHead = head
    BY DEF DemHeader
  <2> QED  BY <2>1, <2>2, <2>3 DEF Parses
<1>2. ASSUME dem # NoDem, NEW other \in Reworked(log), NEW body \in {other, Renumbered(other)},
             Parses(Container(dem.header, body))
      PROVE  body = log
  BY <1>2, ReworkedIsABody, HeaderCommits
<1>3. upload = "ok" => FlattenSeq(stored) = Bytes(dem)
  BY DEF DemInv, UploadOK
<1> QED  BY <1>1, <1>2, <1>3 DEF AcceptedReplayIsTheRecorded

LEMMA DemHolds == DemSpec => []DemInv
BY DemStarts, DemGoesOn, PTL DEF DemSpec

(* A written document can be read, under its header nothing but the        *)
(* recorded operations can be read, and an upload reported complete left   *)
(* the whole document at the lobby: DemRecorder, UploadDemBytes and the    *)
(* reader of src/src/dem.cpp, for recordings and chunks of every size.     *)
THEOREM OnlyTheRecordedIsAccepted == DemSpec => []AcceptedReplayIsTheRecorded
BY DemHolds, WhatIsAcceptedWasRecorded, PTL

(* Log, users and upload keep their types.                                 *)
THEOREM DemTypes == DemSpec => []DemTypeOK
<1>1. DemInv => DemTypeOK
  BY DEF DemInv
<1> QED  BY <1>1, DemHolds, PTL
-----------------------------------------------------------------------------
(***************************************************************************)
(* The reports for the lobby, for any limit of rows, any size of a batch   *)
(* and any run of failed posts and lost answers: nothing is reordered,     *)
(* nothing vanishes, the collector stays bounded.                          *)
(***************************************************************************)
(* A row that waits is only ever younger than what the lobby heard, or the *)
(* lobby heard it before.                                                  *)
WaitingWasHeard ==
  \A r \in 1..Len(rows), i \in 1..Len(heard) :
    heard[i] > rows[r] => \E k \in 1..(i - 1) : heard[k] = rows[r]

OrderInv == ReportTypeOK /\ ReportsInOrder /\ WaitingWasHeard

LEMMA Pauses ==
  /\ Cooldown \in Nat \ {0} /\ Backoff \in Nat \ {0}
  /\ Cooldown * Backoff \in Nat /\ Cooldown <= Cooldown * Backoff
<1>1. Cooldown \in Nat \ {0} /\ Backoff \in Nat \ {0}
  BY ReportAssumption
<1> QED  BY <1>1, Z3

LEMMA Limits == RowLimit \in Nat \ {0} /\ PerSubmit \in Nat \ {0} /\ MaxRows \in Nat /\ MaxPosts \in Nat
BY ReportAssumption

LEMMA MembersPrimed == Members(rows)' = Members(rows') /\ Members(heard)' = Members(heard')
BY DEF Members

LEMMA OrderInit == ReportInit => OrderInv
<1> SUFFICES ASSUME ReportInit PROVE OrderInv
  OBVIOUS
<1>1. rows = << >> /\ heard = << >> /\ Len(rows) = 0 /\ Len(heard) = 0
      /\ rows \in Seq(1..made) /\ heard \in Seq(1..made)
  BY EmptySeq DEF ReportInit
<1>2. wait \in 0..(Cooldown * Backoff)
  BY Pauses DEF ReportInit
<1>3. ReportTypeOK
  <2>1. collector \in Collectors /\ made \in 0..MaxRows /\ posts \in 0..MaxPosts
        /\ dropped \subseteq 1..made
    BY Limits DEF ReportInit
  <2>2. flushed \in BOOLEAN
    BY DEF ReportInit
  <2> QED  BY <1>1, <1>2, <2>1, <2>2 DEF ReportTypeOK
<1>4. ReportsInOrder
  BY <1>1, Limits
  DEF ReportInit, ReportsInOrder, QueueInOrder, HeardInOrder, NothingVanishes, Members
<1> QED  BY <1>1, <1>3, <1>4 DEF OrderInv, WaitingWasHeard

-----------------------------------------------------------------------------
(* A new row is younger than everything there is.                          *)
LEMMA NewRowIsYoungest ==
  ASSUME OrderInv, RowHappens
  PROVE  OrderInv'
<1> DEFINE n == made + 1
<1>1. /\ made \in Nat /\ n \in 1..MaxRows /\ made' = n /\ heard' = heard
      /\ 1..made \subseteq 1..n /\ Len(rows) <= RowLimit
      /\ rows \in Seq(1..made) /\ heard \in Seq(1..made)
  BY Limits DEF OrderInv, ReportTypeOK, ReportsInOrder, RowHappens
<1>2. rows \in Seq(1..n) /\ heard \in Seq(1..n) /\ Len(rows) \in Nat /\ Len(heard) \in Nat
  BY <1>1, SeqMonotonic, LenProperties
<1>3. /\ \A r \in 1..Len(rows) : rows[r] \in 1..made
      /\ \A i \in 1..Len(heard) : heard[i] \in 1..made
  BY <1>1, ElementOfSeq
<1>a. 1..n = (1..made) \cup {n} /\ 1..made = Members(rows) \cup Members(heard) \cup dropped
  BY <1>1 DEF OrderInv, ReportsInOrder, NothingVanishes
<1> DEFINE s == Append(rows, n)
           t == Append(Tail(rows), n)
<1>4. /\ s \in Seq(1..n) /\ Len(s) = Len(rows) + 1
      /\ \A i \in 1..Len(rows) : s[i] = rows[i]
      /\ s[Len(rows) + 1] = n
  BY <1>1, <1>2, AppendProperties
<1>5. CASE rows' = rows /\ Full /\ dropped' = dropped \cup {n}
  <2>1. ReportTypeOK'
    BY <1>1, <1>2, <1>5 DEF OrderInv, ReportTypeOK, RowHappens
  <2>2. NothingVanishes'
    BY <1>1, <1>a, <1>5, MembersPrimed DEF NothingVanishes
  <2>3. QueueInOrder' /\ HeardInOrder' /\ Len(rows') <= RowLimit
    BY <1>1, <1>5 DEF OrderInv, ReportsInOrder, QueueInOrder, HeardInOrder
  <2>4. WaitingWasHeard'
    BY <1>1, <1>5 DEF OrderInv, WaitingWasHeard
  <2> QED  BY <2>1, <2>2, <2>3, <2>4 DEF OrderInv, ReportsInOrder
<1>6. CASE rows' = s /\ ~Full /\ dropped' = dropped
  <2>1. ReportTypeOK'
    BY <1>1, <1>2, <1>4, <1>6 DEF OrderInv, ReportTypeOK, RowHappens
  <2>2. NothingVanishes'
    <3>1. Members(s) = Members(rows) \cup {n}
      BY <1>2, <1>4 DEF Members
    <3> QED  BY <1>1, <1>a, <1>6, <3>1, MembersPrimed DEF NothingVanishes
  <2>3. QueueInOrder' /\ HeardInOrder' /\ Len(rows') <= RowLimit
    BY <1>1, <1>2, <1>3, <1>4, <1>6, Limits DEF OrderInv, ReportsInOrder, QueueInOrder, HeardInOrder, Full
  <2>4. WaitingWasHeard'
    BY <1>1, <1>2, <1>3, <1>4, <1>6 DEF OrderInv, WaitingWasHeard
  <2> QED  BY <2>1, <2>2, <2>3, <2>4 DEF OrderInv, ReportsInOrder
<1>7. CASE rows' = t /\ Full /\ dropped' = dropped \cup {Head(rows)}
  <2>1. Len(rows) = RowLimit /\ rows # << >>
    BY <1>1, <1>2, <1>7, Limits, EmptySeq DEF Full
  <2>2. /\ Tail(rows) \in Seq(1..n) /\ Len(Tail(rows)) = Len(rows) - 1
        /\ \A i \in 1..Len(Tail(rows)) : Tail(rows)[i] = rows[i + 1]
        /\ Head(rows) = rows[1] /\ Head(rows) \in 1..made
    BY <1>1, <1>2, <2>1, HeadTailProperties
  <2>3. /\ t \in Seq(1..n) /\ Len(t) = Len(rows) /\ t[Len(rows)] = n
        /\ \A i \in 1..(Len(rows) - 1) : t[i] = rows[i + 1]
    BY <1>1, <1>2, <2>1, <2>2, AppendProperties
  <2> HIDE DEF t
  <2>4. ReportTypeOK'
    <3>1. dropped' \subseteq 1..n
      BY <1>1, <1>7, <2>2 DEF OrderInv, ReportTypeOK
    <3> QED  BY <1>1, <1>2, <1>7, <2>3, <3>1 DEF OrderInv, ReportTypeOK, RowHappens
  <2>5. NothingVanishes'
    <3>1. ASSUME NEW x \in Members(rows) PROVE x \in Members(t) \cup {Head(rows)}
      <4>1. PICK i \in 1..Len(rows) : x = rows[i]
        BY <3>1 DEF Members
      <4>2. CASE i = 1
        BY <4>1, <4>2, <2>2
      <4>3. CASE i # 1
        <5>1. i - 1 \in 1..(Len(rows) - 1) /\ (i - 1) + 1 = i
          BY <1>2, <4>1, <4>3
        <5>2. t[i - 1] = x /\ i - 1 \in 1..Len(t)
          BY <1>2, <2>3, <4>1, <5>1
        <5> QED  BY <5>2 DEF Members
      <4> QED  BY <4>2, <4>3
    <3>2. Members(t) \subseteq 1..n /\ n \in Members(t)
      <4>1. \A i \in 1..Len(t) : t[i] \in 1..n
        BY <2>3, ElementOfSeq
      <4>2. Len(rows) \in 1..Len(t)
        <5>1. Len(rows) \in Nat \ {0}
          BY <1>2, <2>1, Limits
        <5> QED  BY <2>3, <5>1
      <4> QED  BY <2>3, <4>1, <4>2 DEF Members
    <3>3. 1..n = Members(t) \cup Members(heard) \cup dropped \cup {Head(rows)}
      BY <1>1, <1>a, <2>2, <3>1, <3>2
    <3> QED  BY <1>1, <1>7, <3>3, MembersPrimed DEF NothingVanishes
  <2>6. QueueInOrder' /\ HeardInOrder' /\ Len(rows') <= RowLimit
    <3>1. ASSUME NEW i \in 1..Len(t), NEW j \in 1..Len(t), i < j PROVE t[i] < t[j]
      <4>1. /\ i \in 1..(Len(rows) - 1) /\ t[i] = rows[i + 1] /\ i + 1 \in 1..Len(rows)
            /\ rows[i + 1] \in 1..made
        BY <1>2, <1>3, <2>3, <3>1
      <4>2. CASE j = Len(rows)
        BY <1>1, <2>3, <4>1, <4>2
      <4>3. CASE j # Len(rows)
        <5>1. t[j] = rows[j + 1] /\ j + 1 \in 1..Len(rows) /\ i + 1 < j + 1
          BY <1>2, <2>3, <3>1, <4>3
        <5> QED  BY <4>1, <5>1 DEF OrderInv, ReportsInOrder, QueueInOrder
      <4> QED  BY <4>2, <4>3
    <3>2. QueueInOrder'
      BY <1>7, <3>1 DEF QueueInOrder
    <3>3. HeardInOrder'
      BY <1>1 DEF OrderInv, ReportsInOrder, HeardInOrder
    <3> QED  BY <1>7, <2>1, <2>3, <3>2, <3>3, Limits
  <2>7. WaitingWasHeard'
    <3>1. ASSUME NEW r \in 1..Len(t), NEW i \in 1..Len(heard), heard[i] > t[r]
          PROVE  \E k \in 1..(i - 1) : heard[k] = t[r]
      <4>1. r # Len(rows)
        <5>1. heard[i] \in 1..made
          BY <1>3, <3>1
        <5>2. ASSUME r = Len(rows) PROVE t[r] = made + 1
          BY <2>3, <5>2
        <5> QED  BY <1>1, <3>1, <5>1, <5>2
      <4>2. r + 1 \in 1..Len(rows) /\ t[r] = rows[r + 1]
        <5>1. r \in 1..(Len(rows) - 1) /\ r + 1 \in 1..Len(rows)
          BY <1>2, <2>3, <3>1, <4>1
        <5> QED  BY <2>3, <5>1
      <4> QED  BY <3>1, <4>2 DEF OrderInv, WaitingWasHeard
    <3> QED  BY <1>1, <1>7, <3>1 DEF WaitingWasHeard
  <2> QED  BY <2>4, <2>5, <2>6, <2>7 DEF OrderInv, ReportsInOrder
<1> QED
  BY <1>5, <1>6, <1>7 DEF RowHappens, PushEvent, PushCardCastEvent

-----------------------------------------------------------------------------
(* What a post takes and what it leaves are the two parts of the queue,    *)
(* and rows that are put back make it what it was: nobody pushed meanwhile.*)
LEMMA QueueParts ==
  ASSUME OrderInv, rows # << >>
  PROVE  /\ Batch \in 1..Len(rows)
         /\ TakeEvents \in Seq(1..made) /\ Len(TakeEvents) = Batch
         /\ \A i \in 1..Batch : TakeEvents[i] = rows[i]
         /\ Left \in Seq(1..made) /\ Len(Left) = Len(rows) - Batch
         /\ \A i \in 1..Len(Left) : Left[i] = rows[i + Batch]
         /\ TakeEvents \o Left = rows
<1>1. rows \in Seq(1..made) /\ Len(rows) \in Nat \ {0} /\ PerSubmit \in Nat \ {0}
  <2>1. rows \in Seq(1..made)
    BY DEF OrderInv, ReportTypeOK
  <2> QED  BY <2>1, LenProperties, EmptySeq, Limits
<1>2. Batch \in 1..Len(rows)
  BY <1>1 DEF Batch
<1>3. /\ \A i \in 1..Batch : rows[i] \in 1..made
      /\ \A i \in (Batch + 1)..Len(rows) : rows[i] \in 1..made
  <2>1. \A i \in 1..Len(rows) : rows[i] \in 1..made
    BY <1>1, ElementOfSeq
  <2> QED  BY <1>1, <1>2, <2>1
<1>4. /\ SubSeq(rows, 1, Batch) \in Seq(1..made) /\ Len(SubSeq(rows, 1, Batch)) = Batch
      /\ \A i \in 1..Batch : SubSeq(rows, 1, Batch)[i] = rows[i]
  <2>1. 1 \in Int /\ Batch \in Int /\ 1 <= Batch /\ Batch - 1 + 1 = Batch
        /\ \A i \in 1..Batch : 1 + i - 1 = i
    BY <1>1, <1>2
  <2> QED  BY <1>3, <2>1, SubSeqProperties
<1>5. /\ SubSeq(rows, Batch + 1, Len(rows)) \in Seq(1..made)
      /\ Len(SubSeq(rows, Batch + 1, Len(rows))) = Len(rows) - Batch
      /\ \A i \in 1..(Len(rows) - Batch) : SubSeq(rows, Batch + 1, Len(rows))[i] = rows[i + Batch]
  <2>1. /\ Batch + 1 \in Int /\ Len(rows) \in Int
        /\ Len(rows) - Batch = IF Batch + 1 <= Len(rows) THEN Len(rows) - (Batch + 1) + 1 ELSE 0
        /\ Len(rows) - (Batch + 1) + 1 = Len(rows) - Batch
        /\ \A i \in 1..(Len(rows) - Batch) : (Batch + 1) + i - 1 = i + Batch
    BY <1>1, <1>2
  <2> QED  BY <1>3, <2>1, SubSeqProperties
<1>6. SubSeq(rows, 1, Batch) \o SubSeq(rows, Batch + 1, Len(rows)) = rows
  <2>1. /\ 1 \in 1..(Len(rows) + 1) /\ Batch \in (1 - 1)..Len(rows) /\ Len(rows) \in Batch..Len(rows)
    BY <1>1, <1>2
  <2> QED  BY <1>1, <2>1, ConcatAdjacentSubSeq, SubSeqFull
<1> QED  BY <1>2, <1>4, <1>5, <1>6 DEF TakeEvents, Left

LEMMA PutBack ==
  ASSUME OrderInv, rows # << >>
  PROVE  Restored(TakeEvents) = rows
<1>1. rows \in Seq(1..made) /\ Len(rows) <= RowLimit /\ Len(rows) \in Nat /\ RowLimit \in Nat
  BY LenProperties, Limits DEF OrderInv, ReportTypeOK, ReportsInOrder
<1>2. TakeEvents \o Left = rows
  BY QueueParts
<1>3. RestoreEvents(TakeEvents) = rows
  BY <1>2 DEF RestoreEvents
<1>4. RestoreCardCastEvents(TakeEvents) = rows
  <2>1. ~(Len(rows) > RowLimit)
    BY <1>1
  <2>2. RestoreCardCastEvents(TakeEvents) = SubSeq(rows, 0 + 1, Len(rows))
    BY <1>2, <2>1 DEF RestoreCardCastEvents
  <2> QED  BY <1>1, <2>2, SubSeqFull
<1> QED  BY <1>3, <1>4 DEF Restored

(* What the lobby has heard after a post that reached it.                  *)
LEMMA Heard ==
  ASSUME OrderInv, rows # << >>, heard' = heard \o TakeEvents
  PROVE  /\ heard' \in Seq(1..made) /\ Len(heard) \in Nat /\ Len(heard') = Len(heard) + Batch
         /\ \A i \in 1..Len(heard) : heard'[i] = heard[i] /\ heard[i] \in 1..made
         /\ \A i \in 1..Batch : heard'[Len(heard) + i] = rows[i]
<1>1. heard \in Seq(1..made) /\ Len(heard) \in Nat
  BY LenProperties DEF OrderInv, ReportTypeOK
<1>2. Batch \in Nat /\ Len(TakeEvents) = Batch /\ TakeEvents \in Seq(1..made)
      /\ \A i \in 1..Batch : TakeEvents[i] = rows[i]
  <2>1. Len(rows) \in Nat
    BY LenProperties DEF OrderInv, ReportTypeOK
  <2> QED  BY <2>1, QueueParts
<1>3. /\ heard' \in Seq(1..made) /\ Len(heard') = Len(heard) + Batch
      /\ \A i \in 1..(Len(heard) + Batch) :
           heard'[i] = IF i <= Len(heard) THEN heard[i] ELSE TakeEvents[i - Len(heard)]
  <2>1. /\ heard \o TakeEvents \in Seq(1..made)
        /\ Len(heard \o TakeEvents) = Len(heard) + Len(TakeEvents)
        /\ \A i \in 1..(Len(heard) + Len(TakeEvents)) :
             (heard \o TakeEvents)[i] = IF i <= Len(heard) THEN heard[i] ELSE TakeEvents[i - Len(heard)]
    BY <1>1, <1>2, ConcatProperties
  <2> QED  BY <1>2, <2>1
<1>4. \A i \in 1..Len(heard) : heard'[i] = heard[i] /\ heard[i] \in 1..made
  <2>1. \A i \in 1..Len(heard) : heard[i] \in 1..made
    BY <1>1, ElementOfSeq
  <2> QED  BY <1>1, <1>2, <1>3, <2>1
<1>5. \A i \in 1..Batch : heard'[Len(heard) + i] = rows[i]
  BY <1>1, <1>2, <1>3
<1> QED  BY <1>1, <1>3, <1>4, <1>5

LEMMA RowFacts ==
  ASSUME OrderInv
  PROVE  /\ Len(rows) \in Nat /\ made \in Nat /\ \A r \in 1..Len(rows) : rows[r] \in 1..made
         /\ \A i, j \in 1..Len(rows) : i < j => rows[i] < rows[j]
<1>1. rows \in Seq(1..made) /\ made \in Nat
  BY Limits DEF OrderInv, ReportTypeOK
<1>2. Len(rows) \in Nat /\ \A r \in 1..Len(rows) : rows[r] \in 1..made
  BY <1>1, LenProperties, ElementOfSeq
<1> QED  BY <1>1, <1>2 DEF OrderInv, ReportsInOrder, QueueInOrder

(* The lobby hears a batch: a row it hears out of order it heard before.   *)
LEMMA HeardStaysInOrder ==
  ASSUME OrderInv, rows # << >>, heard' = heard \o TakeEvents
  PROVE  HeardInOrder'
<1>1. SUFFICES ASSUME NEW i \in 1..Len(heard'), NEW j \in 1..Len(heard'), i < j, heard'[i] > heard'[j]
               PROVE  \E k \in 1..(i - 1) : heard'[k] = heard'[j]
  BY DEF HeardInOrder
<1>2. Batch \in 1..Len(rows)
  BY QueueParts
<1>3. CASE j <= Len(heard)
  <2>1. i \in 1..Len(heard) /\ j \in 1..Len(heard)
    BY <1>1, <1>2, <1>3, Heard, RowFacts
  <2>2. heard[i] > heard[j] /\ heard'[j] = heard[j]
    BY <1>1, <2>1, Heard
  <2>3. PICK k \in 1..(i - 1) : heard[k] = heard[j]
    BY <1>1, <2>1, <2>2 DEF OrderInv, ReportsInOrder, HeardInOrder
  <2>4. k \in 1..Len(heard)
    BY <2>1, <2>3, Heard
  <2> QED  BY <2>2, <2>3, <2>4, Heard
<1>4. CASE i <= Len(heard) /\ j > Len(heard)
  <2> DEFINE r == j - Len(heard)
  <2>1. i \in 1..Len(heard) /\ r \in 1..Batch /\ r \in 1..Len(rows) /\ Len(heard) + r = j
    BY <1>1, <1>2, <1>4, Heard, RowFacts
  <2>2. heard'[j] = rows[r] /\ heard'[i] = heard[i]
    BY <2>1, Heard
  <2>3. PICK k \in 1..(i - 1) : heard[k] = rows[r]
    BY <1>1, <2>1, <2>2 DEF OrderInv, WaitingWasHeard
  <2>4. k \in 1..Len(heard)
    BY <2>1, <2>3, Heard
  <2> QED  BY <2>2, <2>3, <2>4, Heard
<1>5. CASE i > Len(heard)
  <2> DEFINE q == i - Len(heard)
             r == j - Len(heard)
  <2>1. /\ q \in 1..Batch /\ r \in 1..Batch /\ q < r /\ q \in 1..Len(rows) /\ r \in 1..Len(rows)
        /\ Len(heard) + q = i /\ Len(heard) + r = j
    <3>1. Len(heard) \in Nat /\ Len(rows) \in Nat /\ i \in 1..(Len(heard) + Batch) /\ j \in 1..(Len(heard) + Batch)
      BY <1>1, Heard, RowFacts
    <3> QED  BY <1>1, <1>2, <1>5, <3>1
  <2> HIDE DEF q, r
  <2>2. heard'[i] = rows[q] /\ heard'[j] = rows[r]
    BY <2>1, Heard
  <2>3. rows[q] < rows[r] /\ rows[q] \in 1..made /\ rows[r] \in 1..made /\ made \in Nat
    BY <2>1, RowFacts
  <2> QED  BY <1>1, <2>2, <2>3
<1> QED  BY <1>1, <1>3, <1>4, <1>5, Heard

(* ... and so is what still waits, if the answer was lost: its first part  *)
(* was heard in full.                                                      *)
LEMMA WaitingStaysHeard ==
  ASSUME OrderInv, rows # << >>, heard' = heard \o TakeEvents, rows' \in {rows, Left}
  PROVE  WaitingWasHeard'
<1>1. SUFFICES ASSUME NEW r \in 1..Len(rows'), NEW i \in 1..Len(heard'), heard'[i] > rows'[r]
               PROVE  \E k \in 1..(i - 1) : heard'[k] = rows'[r]
  BY DEF WaitingWasHeard
<1>2. Batch \in 1..Len(rows)
  BY QueueParts
<1>3. PICK x \in 1..Len(rows) : rows'[r] = rows[x] /\ (rows' = Left => x > Batch)
  <2>1. CASE rows' = rows
    <3>1. CASE rows = Left
      BY <1>1, <1>2, <2>1, <3>1, QueueParts, RowFacts
    <3>2. CASE rows # Left
      BY <1>1, <2>1, <3>2
    <3> QED  BY <3>1, <3>2
  <2>2. CASE rows' = Left
    <3>1. r + Batch \in 1..Len(rows) /\ r + Batch > Batch /\ rows'[r] = rows[r + Batch]
      BY <1>1, <1>2, <2>2, QueueParts, RowFacts
    <3> QED  BY <3>1
  <2> QED  BY <2>1, <2>2
<1>4. CASE i <= Len(heard)
  <2>1. i \in 1..Len(heard) /\ heard'[i] = heard[i]
    BY <1>1, <1>2, <1>4, Heard, RowFacts
  <2>2. PICK k \in 1..(i - 1) : heard[k] = rows[x]
    BY <1>1, <1>3, <2>1 DEF OrderInv, WaitingWasHeard
  <2>3. k \in 1..Len(heard)
    BY <2>1, <2>2, Heard
  <2> QED  BY <1>3, <2>2, <2>3, Heard
<1>5. CASE i > Len(heard)
  <2> DEFINE q == i - Len(heard)
  <2>1. q \in 1..Batch /\ q \in 1..Len(rows) /\ Len(heard) + q = i
    BY <1>1, <1>2, <1>5, Heard, RowFacts
  <2>2. heard'[i] = rows[q]
    BY <2>1, Heard
  <2> HIDE DEF q
  <2>3. x < q
    <3>1. rows[q] > rows[x]
      BY <1>1, <1>3, <2>2
    <3>2. x \in Nat /\ q \in Nat /\ rows[x] \in 1..made /\ rows[q] \in 1..made /\ made \in Nat
      BY <2>1, RowFacts
    <3>3. ~(q < x) /\ q # x
      BY <2>1, <3>1, <3>2, RowFacts
    <3> QED  BY <3>2, <3>3
  <2>4. x \in 1..Batch /\ Len(heard) + x \in 1..(i - 1)
    <3>1. Len(heard) \in Nat /\ Len(rows) \in Nat
      BY Heard, RowFacts
    <3> QED  BY <1>2, <2>1, <2>3, <3>1
  <2>5. heard'[Len(heard) + x] = rows[x]
    BY <2>4, Heard
  <2> QED  BY <1>3, <2>4, <2>5
<1> QED  BY <1>1, <1>4, <1>5, Heard

-----------------------------------------------------------------------------
(* A post takes rows to the lobby, or leaves all as it was.                *)
LEMMA PostKeepsOrder ==
  ASSUME OrderInv, NEW answer \in {"ok", "lost", "failed"}, Post(answer),
         wait' \in 0..(Cooldown * Backoff), flushed' \in BOOLEAN
  PROVE  OrderInv'
<1>1. /\ rows # << >> /\ collector' = collector /\ made' = made /\ dropped' = dropped
      /\ posts' \in 0..MaxPosts
  BY Limits DEF Post, OrderInv, ReportTypeOK
<1>2. Batch \in 1..Len(rows) /\ Len(rows) \in Nat /\ RowLimit \in Nat /\ Len(rows) <= RowLimit
  BY <1>1, QueueParts, RowFacts, Limits DEF OrderInv, ReportsInOrder
<1>3. CASE rows' = rows /\ heard' = heard
  <2>1. ReportTypeOK'
    BY <1>1, <1>3 DEF OrderInv, ReportTypeOK
  <2>2. NothingVanishes'
    BY <1>1, <1>3, MembersPrimed DEF OrderInv, ReportsInOrder, NothingVanishes
  <2> QED
    BY <1>3, <2>1, <2>2 DEF OrderInv, ReportsInOrder, QueueInOrder, HeardInOrder, WaitingWasHeard
<1>4. CASE heard' = heard \o TakeEvents /\ rows' \in {rows, Left}
  <2>1. rows' \in Seq(1..made) /\ heard' \in Seq(1..made)
    BY <1>1, <1>4, QueueParts, Heard DEF OrderInv, ReportTypeOK
  <2>2. ReportTypeOK'
    BY <1>1, <2>1 DEF OrderInv, ReportTypeOK
  <2>3. QueueInOrder' /\ Len(rows') <= RowLimit
    <3>1. CASE rows' = rows
      BY <1>2, <3>1 DEF OrderInv, ReportsInOrder, QueueInOrder
    <3>2. CASE rows' = Left
      <4>1. /\ Len(Left) \in Nat /\ Len(Left) <= RowLimit
            /\ \A i \in 1..Len(Left) : i + Batch \in 1..Len(rows) /\ Left[i] = rows[i + Batch]
        BY <1>1, <1>2, QueueParts
      <4>2. \A i, j \in 1..Len(Left) : i < j => Left[i] < Left[j]
        BY <1>2, <4>1, RowFacts
      <4> QED  BY <3>2, <4>1, <4>2 DEF QueueInOrder
    <3> QED  BY <1>4, <3>1, <3>2
  <2>4. NothingVanishes'
    <3>1. ASSUME NEW x \in Members(rows') PROVE x \in 1..made
      BY <2>1, <3>1, ElementOfSeq DEF Members
    <3>2. ASSUME NEW x \in Members(heard') PROVE x \in 1..made
      BY <2>1, <3>2, ElementOfSeq DEF Members
    <3>3. ASSUME NEW x \in Members(heard) PROVE x \in Members(heard')
      <4>1. PICK i \in 1..Len(heard) : x = heard[i]
        BY <3>3 DEF Members
      <4>2. i \in 1..Len(heard') /\ heard'[i] = x
        BY <1>1, <1>2, <1>4, <4>1, Heard
      <4> QED  BY <4>2 DEF Members
    <3>4. ASSUME NEW x \in Members(rows) PROVE x \in Members(rows') \cup Members(heard')
      <4>1. PICK i \in 1..Len(rows) : x = rows[i]
        BY <3>4 DEF Members
      <4>2. CASE i <= Batch
        <5>1. Len(heard) + i \in 1..Len(heard') /\ heard'[Len(heard) + i] = x
          BY <1>1, <1>2, <1>4, <4>1, <4>2, Heard
        <5> QED  BY <5>1 DEF Members
      <4>3. CASE i > Batch
        <5>1. i - Batch \in 1..Len(Left) /\ (i - Batch) + Batch = i
          BY <1>1, <1>2, <4>1, <4>3, QueueParts
        <5>2. Left[i - Batch] = x
          BY <1>1, <4>1, <5>1, QueueParts
        <5> QED  BY <1>4, <3>4, <5>1, <5>2 DEF Members
      <4> QED  BY <1>2, <4>1, <4>2, <4>3
    <3>5. dropped \subseteq 1..made /\ 1..made = Members(rows) \cup Members(heard) \cup dropped
      BY DEF OrderInv, ReportTypeOK, ReportsInOrder, NothingVanishes
    <3>6. 1..made = Members(rows') \cup Members(heard') \cup dropped
      BY <3>1, <3>2, <3>3, <3>4, <3>5
    <3> QED  BY <1>1, <3>6, MembersPrimed DEF NothingVanishes
  <2> QED
    BY <1>1, <1>4, <2>2, <2>3, <2>4, HeardStaysInOrder, WaitingStaysHeard DEF OrderInv, ReportsInOrder
<1> QED
  BY <1>1, <1>3, <1>4, PutBack DEF Post

LEMMA OrderStep == OrderInv /\ [ReportNext]_reportVars => OrderInv'
<1> SUFFICES ASSUME OrderInv, [ReportNext]_reportVars PROVE OrderInv'
  OBVIOUS
<1>1. ASSUME UNCHANGED <<collector, rows, made, dropped, heard, posts>>,
             wait' \in 0..(Cooldown * Backoff), flushed' \in BOOLEAN
      PROVE  OrderInv'
  <2>1. ReportTypeOK'
    BY <1>1 DEF OrderInv, ReportTypeOK
  <2>2. NothingVanishes'
    BY <1>1, MembersPrimed DEF OrderInv, ReportsInOrder, NothingVanishes
  <2> QED
    BY <1>1, <2>1, <2>2 DEF OrderInv, ReportsInOrder, QueueInOrder, HeardInOrder, WaitingWasHeard
<1>2. wait \in 0..(Cooldown * Backoff) /\ flushed \in BOOLEAN
  BY DEF OrderInv, ReportTypeOK
<1>3. CASE RowHappens
  BY <1>3, NewRowIsYoungest
<1>4. ASSUME NEW answer \in {"ok", "lost", "failed"}, SubmitCardEvents(answer) PROVE OrderInv'
  BY <1>2, <1>4, PostKeepsOrder DEF SubmitCardEvents
<1>5. ASSUME NEW answer \in {"ok", "lost", "failed"}, NEW force \in BOOLEAN,
             FlushEventsIfNeeded(answer, force)
      PROVE  OrderInv'
  <2>1. flushed' \in BOOLEAN
    BY <1>5 DEF FlushEventsIfNeeded
  <2>2. CASE wait > 1 /\ ~force
    <3>1. wait' = wait - 1 /\ UNCHANGED <<collector, rows, made, dropped, heard, posts>>
      BY <1>5, <2>2 DEF FlushEventsIfNeeded
    <3>2. wait' \in 0..(Cooldown * Backoff)
      BY <1>2, <2>2, <3>1, Pauses
    <3> QED  BY <1>1, <2>1, <3>1, <3>2
  <2>3. CASE ~(wait > 1 /\ ~force)
    <3>1. wait' \in {wait, Cooldown, Cooldown * Backoff}
      BY <1>5, <2>3 DEF FlushEventsIfNeeded
    <3>2. wait' \in 0..(Cooldown * Backoff)
      BY <1>2, <3>1, Pauses
    <3>3. Post(answer) \/ UNCHANGED <<collector, rows, made, dropped, heard, posts>>
      BY <1>5, <2>3 DEF FlushEventsIfNeeded
    <3> QED  BY <1>1, <2>1, <3>2, <3>3, PostKeepsOrder
  <2> QED  BY <2>2, <2>3
<1>6. CASE UNCHANGED reportVars
  BY <1>1, <1>2, <1>6 DEF reportVars
<1> QED  BY <1>3, <1>4, <1>5, <1>6 DEF ReportNext

(* Whatever posts fail and whatever answers are lost, the lobby hears the  *)
(* rows in the order they were made, apart from repetitions; only a full   *)
(* collector loses rows; and it never holds more than its limit.           *)
THEOREM ReportsReachInOrder == ReportSpec => []ReportsInOrder
<1>1. OrderInv => ReportsInOrder
  BY DEF OrderInv
<1> QED  BY <1>1, OrderInit, OrderStep, PTL DEF ReportSpec

(* The queue, its bounds and the pauses keep their types.                  *)
THEOREM ReportTypes == ReportSpec => []ReportTypeOK
<1>1. OrderInv => ReportTypeOK
  BY DEF OrderInv
<1> QED  BY <1>1, OrderInit, OrderStep, PTL DEF ReportSpec
=============================================================================
