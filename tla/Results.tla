------------------------------- MODULE Results -------------------------------
(***************************************************************************)
(* The signed result of a match and the verifier that stands between it    *)
(* and the settlement: BuildSignedBattleResult and SubmitBattleResult of   *)
(* src/src/server.cpp, BattleResultVerifier::Verify of src/src/result.cpp, *)
(* and the final snapshot both are built from.                             *)
(*                                                                         *)
(* mode_result_json is a text, which may give a field more than once: it   *)
(* is a function from the names it gives to the values each is given, in   *)
(* the order of the text.  How fields of different names are ordered does  *)
(* not matter to the verifier.  Each family of fields (replay, Boss, world *)
(* Boss, instance Boss, per player, transfer) keeps one counter and one    *)
(* text of those the code lists: the members of a family are written and   *)
(* verified alike.  Hashes are the values they are taken of.               *)
(***************************************************************************)
EXTENDS Integers, Sequences, FiniteSets, TLC

CONSTANTS
  Modes,        \* "world_boss", "instance_boss", others
  Rosters,      \* sets of registered player ids
  Reserved,     \* the ids that contain a word such as "grant" or "balance"
  Health,       \* boss_max_hp_
  LastTick,     \* bound on the ticks played
  ClockKnown,   \* config_.now_ms > 0
  Forged        \* a value no match ever has

ASSUME ResultAssumption ==
  /\ \A roster \in Rosters : roster # {} /\ IsFiniteSet(roster)
  /\ Health \in Nat \ {0} /\ LastTick \in Nat /\ ClockKnown \in BOOLEAN

VARIABLES
  battle,    \* the live match
  offered,   \* a signed result on its way to SubmitBattleResult
  settled    \* result_hash_by_match_, NoResult until there is one

resultVars == <<battle, offered, settled>>

NoResult == [none |-> TRUE]
IsBossMode(b) == b.mode \in {"world_boss", "instance_boss"}

FreshBattle(mode, roster) ==
  [mode |-> mode, roster |-> roster, tick |-> 0, events |-> 0, here |-> roster,
   started |-> FALSE, dealt |-> [p \in roster |-> 0], owner |-> ""]

-----------------------------------------------------------------------------
(* What the final snapshot says of a match.                                *)

Dealt(b) == Cardinality({x \in b.roster \X (1..Health) : x[2] <= b.dealt[x[1]]})
Hp(b) == Health - Dealt(b)
Cleared(b) == Hp(b) = 0 /\ (b.mode = "instance_boss" => b.here # {})

StateHash(b) == [b EXCEPT !.events = 0]
SummaryHash(b) == b

ReplayPart(b) ==
  [event_cursor |-> b.events, final_tick |-> b.tick,
   final_state_hash |-> StateHash(b), replay_fixture_hash |-> SummaryHash(b)]

BossPart(b) ==
  [boss_current_hp |-> Hp(b), boss_roster_locked |-> IF b.started THEN 1 ELSE 0,
   connected_player_count |-> Cardinality(b.here),
   boss_clear_status |-> IF Cleared(b) THEN "cleared"
                         ELSE IF b.mode = "instance_boss" THEN "failed" ELSE "running"]

DamageOf(p) == "boss_damage_" \o p

(* What a name of that form can be: another name for another player, and   *)
(* none of the fields that are not about one player.                       *)
FixedFields ==
  {"event_cursor", "final_tick", "final_state_hash", "replay_fixture_hash", "boss_current_hp",
   "boss_roster_locked", "connected_player_count", "boss_clear_status",
   "boss_world_persistent_damage_delta", "boss_world_defeat_announcement_key",
   "boss_instance_clear_credit", "boss_instance_result_state",
   "transfer_card_count", "last_transfer_to_player_id", "inventory_grant"}
ASSUME NamesAssumption ==
  \A p \in (UNION Rosters) \cup Reserved :
    /\ DamageOf(p) \notin FixedFields
    /\ \A q \in (UNION Rosters) \cup Reserved : DamageOf(p) = DamageOf(q) => p = q

DamagePart(b) == [f \in {DamageOf(p) : p \in b.roster} |-> b.dealt[CHOOSE p \in b.roster : f = DamageOf(p)]]

WorldPart(b) ==
  [boss_world_persistent_damage_delta |-> Dealt(b),
   boss_world_defeat_announcement_key |-> IF Hp(b) = 0 THEN "announced" ELSE ""]

InstancePart(b) ==
  [boss_instance_clear_credit |-> IF Cleared(b) THEN 1 ELSE 0,
   boss_instance_result_state |-> IF Cleared(b) THEN "cleared" ELSE "failed"]

TransferPart(b) ==
  IF b.owner = "" THEN << >> ELSE [transfer_card_count |-> 1, last_transfer_to_player_id |-> b.owner]

ScopePart(b) == IF b.mode = "world_boss" THEN WorldPart(b) ELSE InstancePart(b)

(* The parts follow one another in one object; no two name the same field. *)
Joined(f, g) == [x \in DOMAIN f \cup DOMAIN g |-> IF x \in DOMAIN f THEN f[x] ELSE g[x]]

FinalSnapshot(b) ==
  IF IsBossMode(b)
  THEN Joined(Joined(Joined(Joined(ReplayPart(b), BossPart(b)), DamagePart(b)), ScopePart(b)), TransferPart(b))
  ELSE ReplayPart(b)

-----------------------------------------------------------------------------
(* Building a result.  The server writes every field once.                 *)

Written(fields) == [f \in DOMAIN fields |-> <<fields[f]>>]

Sign(r, key) == [result |-> r, key |-> key, authoritative |-> TRUE, signature |-> <<r, key>>]

ResultOf(b) ==
  [match |-> "this", mode |-> b.mode, hash |-> SummaryHash(b), replay |-> b.tick,
   players |-> b.roster, reward |-> "projection", json |-> Written(FinalSnapshot(b)), settledAt |-> "now"]

(* BossMatchResultBlockReason is empty.                                    *)
MayEnd(b) ==
  IsBossMode(b) => b.started /\ (b.mode = "instance_boss" => Hp(b) = 0 \/ b.here = {})

-----------------------------------------------------------------------------
(* Verifying one against the match as it stands.                           *)

Texts == {"boss_clear_status", "boss_world_defeat_announcement_key",
          "boss_instance_result_state", "last_transfer_to_player_id"}
Unsaid(truth, f) == f \in Texts /\ truth[f] = ""

(* JsonFieldValueStart ends at the first place where the field is given;   *)
(* what a repeated name says further on is never looked at.                *)
ValueRead(json, f) == Head(json[f])

(* ContainsJsonStringField does not look for an empty text.                *)
Agrees(json, truth) ==
  \A f \in DOMAIN truth : Unsaid(truth, f) \/ (f \in DOMAIN json /\ ValueRead(json, f) = truth[f])

IdentityHolds(r, b) ==
  /\ r.match = "this" /\ r.mode = b.mode
  /\ r.hash = SummaryHash(b) /\ r.replay = b.tick
  /\ r.players = b.roster

KnownFields(b) ==
  DOMAIN ReplayPart(b) \cup DOMAIN TransferPart(b) \cup
    IF IsBossMode(b)
    THEN DOMAIN BossPart(b) \cup DOMAIN DamagePart(b) \cup DOMAIN WorldPart(b) \cup DOMAIN InstancePart(b)
    ELSE {}

ReplayCountersHold(json, b) == Agrees(json, ReplayPart(b))

BossFieldsHold(json, b) == IsBossMode(b) => Agrees(json, BossPart(b))

ScopeUnchecked(json, b) ==   \* mutant: fields of the other kind of Boss are let through
  /\ b.mode = "world_boss" => Agrees(json, WorldPart(b))
  /\ b.mode = "instance_boss" => Agrees(json, InstancePart(b))

(* A result of one kind of Boss has no field of the other.                 *)
ScopeHolds(json, b) ==
  /\ b.mode = "world_boss" =>
       Agrees(json, WorldPart(b)) /\ DOMAIN json \cap DOMAIN InstancePart(b) = {}
  /\ b.mode = "instance_boss" =>
       Agrees(json, InstancePart(b)) /\ DOMAIN json \cap DOMAIN WorldPart(b) = {}

DamageHolds(json, b) == IsBossMode(b) => Agrees(json, DamagePart(b))

TransferHolds(json, b) == Agrees(json, TransferPart(b))

(* ContainsForbiddenModeResultMutation looks for the reserved words in the *)
(* whole text, so a player id that contains one is enough to find it.      *)
NoReservedWord(json) ==
  /\ "inventory_grant" \notin DOMAIN json
  /\ \A p \in Reserved : DamageOf(p) \notin DOMAIN json

RewardHolds(reward) == reward \in {"projection", "projection of another source"}

SettledInTime(when) == when # "missing" /\ (when = "future" => ~ClockKnown)

SignatureHolds(s) ==
  s.key = "this server" /\ s.signature = <<s.result, s.key>> /\ s.authoritative

(* JsonObjectFieldNames lists the names, and every one of them must be     *)
(* known; that none comes twice is not asked.                              *)
VerifyResult(s, b) ==
  LET json == s.result.json IN
  /\ IdentityHolds(s.result, b)
  /\ DOMAIN json \subseteq KnownFields(b)
  /\ NoReservedWord(json)
  /\ ReplayCountersHold(json, b)
  /\ BossFieldsHold(json, b) /\ DamageHolds(json, b) /\ ScopeHolds(json, b) /\ TransferHolds(json, b)
  /\ RewardHolds(s.result.reward)
  /\ SettledInTime(s.result.settledAt)
  /\ SignatureHolds(s)

-----------------------------------------------------------------------------
ResultInit ==
  /\ \E mode \in Modes, roster \in Rosters : battle = FreshBattle(mode, roster)
  /\ offered = NoResult
  /\ settled = NoResult

(* The match goes on until it is settled.                                  *)
Changes(b) == settled = NoResult /\ battle' = b /\ UNCHANGED <<offered, settled>>

Going == battle.tick < LastTick /\ (IsBossMode(battle) => Hp(battle) > 0)

Play(p, hits) ==
  /\ Going
  /\ hits => IsBossMode(battle) /\ p \in battle.here
  /\ Changes([battle EXCEPT !.tick = @ + 1, !.started = TRUE,
                            !.dealt[p] = IF hits THEN @ + 1 ELSE @])

Transfer(p) ==
  /\ Going /\ IsBossMode(battle) /\ battle.owner = ""
  /\ Changes([battle EXCEPT !.tick = @ + 1, !.started = TRUE, !.events = @ + 1, !.owner = p])

Leave(p) ==
  /\ p \in battle.here
  /\ Changes([battle EXCEPT !.here = @ \ {p}, !.events = @ + 1])

BuildSignedBattleResult ==
  /\ settled = NoResult
  /\ MayEnd(battle)
  /\ offered' = Sign(ResultOf(battle), "this server")
  /\ UNCHANGED <<battle, settled>>

(* Somebody on the way changes one thing, and signs anew or not: the       *)
(* development signature takes no secret.  A field may be given another    *)
(* value, or a further one before or behind its own.                       *)
Altered(r) ==
  {[r EXCEPT !.json[f] = <<Forged>>] : f \in DOMAIN r.json} \cup
  {[r EXCEPT !.json[f] = <<Forged>> \o @] : f \in DOMAIN r.json} \cup
  {[r EXCEPT !.json[f] = Append(@, Forged)] : f \in DOMAIN r.json} \cup
  {[r EXCEPT !.json = [g \in DOMAIN @ \ {f} |-> @[g]]] : f \in DOMAIN r.json} \cup
  {[r EXCEPT !.json = (f :> <<Forged>>) @@ @] :
     f \in {"comment", "inventory_grant", "boss_instance_clear_credit",
            "boss_world_persistent_damage_delta", "transfer_card_count"}} \cup
  {[r EXCEPT !.reward = x] : x \in {"missing", "mutation", "unknown field", "projection of another source"}} \cup
  {[r EXCEPT !.settledAt = x] : x \in {"missing", "future"}} \cup
  {[r EXCEPT !.players = @ \ {p}] : p \in r.players}

(* The result on its way is still what the server would build.             *)
Untouched == offered # NoResult /\ offered.result = ResultOf(battle)

Alter(r, resigned) ==
  /\ settled = NoResult
  /\ offered' = IF resigned THEN Sign(r, "this server") ELSE [offered EXCEPT !.result = r]
  /\ UNCHANGED <<battle, settled>>

(* The first accepted result settles the match.                            *)
SubmitBattleResult ==
  /\ offered # NoResult /\ settled = NoResult
  /\ MayEnd(battle)
  /\ VerifyResult(offered, battle)
  /\ settled' = offered.result.hash
  /\ UNCHANGED <<battle, offered>>

ResultNext ==
  \/ \E p \in battle.roster : (\E hits \in BOOLEAN : Play(p, hits)) \/ Transfer(p) \/ Leave(p)
  \/ BuildSignedBattleResult
  \/ Untouched /\ \E r \in Altered(offered.result), resigned \in BOOLEAN : Alter(r, resigned)
  \/ SubmitBattleResult

ResultSpec == ResultInit /\ [][ResultNext]_resultVars
-----------------------------------------------------------------------------
(* True to whoever reads the first value of a field, as the verifier does. *)
(* Of a further value of a repeated field it says nothing.                 *)
Truthful(s) ==
  LET json == s.result.json
      truth == FinalSnapshot(battle) IN
  /\ s.result.hash = SummaryHash(battle) /\ s.result.players = battle.roster
  /\ DOMAIN json \subseteq DOMAIN truth
  /\ \A f \in DOMAIN truth : Unsaid(truth, f) \/ (f \in DOMAIN json /\ ValueRead(json, f) = truth[f])

(* Whatever happened to a result between the server that built it and the  *)
(* one that takes it, and however the match went on meanwhile: what would  *)
(* be accepted names no field the match would not name, and the first      *)
(* value it gives each field is the one the match itself gives it, except  *)
(* in a text field the match leaves empty.  A field may be given again     *)
(* behind that, with any value: BattleResultVerifier::Verify reads the     *)
(* first only.  And the server takes what it builds, unless an id holds a  *)
(* reserved word.                                                          *)
OnlyTheTruthSettles ==
  /\ offered # NoResult /\ settled = NoResult /\ VerifyResult(offered, battle) => Truthful(offered)
  /\ MayEnd(battle) /\ (IsBossMode(battle) => battle.roster \cap Reserved = {}) =>
       VerifyResult(Sign(ResultOf(battle), "this server"), battle)
=============================================================================
