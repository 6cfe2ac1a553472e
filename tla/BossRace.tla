------------------------------ MODULE BossRace ------------------------------
(***************************************************************************)
(* The Boss race: BossRaceSimulation of src/src/boss_race.cpp.  Two        *)
(* players each fight a Boss of their own under the server's clock; who    *)
(* brings it to 0 first has won.  SubmitInput files an input under a later *)
(* tick, SeedHand deals a hand, Tick does everything else.                 *)
(*                                                                         *)
(* Where things are is abstracted: how many bullets a pattern emits, which *)
(* leave the field and which touch a ship, and how many shots reach the    *)
(* Boss, is a choice within what the code bounds.  Score, grazing and the  *)
(* wording of the event rows are left out.  Which rules hold is chosen     *)
(* with the match: only "danmaku" (kRulesetDanmakuMechanics) judges hits,  *)
(* spends bombs and fires shots that fly; under "classic" holding the      *)
(* trigger damages the Boss directly.                                      *)
(***************************************************************************)
EXTENDS CardHand

CONSTANTS
  First, Second,   \* the two player ids, in the order of the map
  Rulesets,        \* of {"classic", "danmaku"}
  Decks,           \* player -> the deck of its ticket
  DealtSize,       \* cards dealt at once
  StartEnergy,     \* initial_energy of the tickets
  Seeds,           \* server_seed_decimal of the tickets, 0 when empty
  Flaky,           \* the players a run may disconnect
  BossMaxHp,       \* config_.boss_max_hp
  ShotDamage,      \* of a trigger tick, or of a shot that hits
  BombDamage,      \* of the loadout's bomb, 0 without one
  ShotPause,       \* cooldown_frames of the shot
  Lives, Bombs,    \* kDanmakuDefaultLives, kDanmakuDefaultBombs
  Mercy,           \* kDanmakuInvulnerableTicks
  Phases,          \* kSpellPhaseCount
  BulletCap,       \* kBossRaceMaxBulletsPerPlayer, kMaxBullets
  Burst,           \* the most bullets a pattern or a split adds in a tick
  ReportEvery,     \* kBossDamageEventIntervalTicks
  Window,          \* 8: how far ahead an input may lie
  Intents,         \* player -> what its inputs may ask for
  MaxSeq, MaxTick  \* bounds of the runs

Players == {First, Second}
Nobody == "nobody"

ASSUME RaceAssumption ==
  /\ First # Second /\ Nobody \notin Players
  /\ Rulesets \subseteq {"classic", "danmaku"}
  /\ Decks \in [Players -> Seq(Cards)]
  /\ DealtSize \in 0..HandLimit /\ StartEnergy \in 0..MaxEnergy /\ Seeds \subseteq Nat
  /\ Flaky \subseteq Players
ASSUME NumbersAssumption ==
  /\ BossMaxHp \in Nat \ {0} /\ Phases \in Nat \ {0} /\ ReportEvery \in Nat \ {0}
  /\ {ShotDamage, BombDamage, ShotPause, Lives, Bombs, Mercy} \subseteq Nat
  /\ {BulletCap, Burst, Window, MaxSeq, MaxTick} \subseteq Nat
ASSUME IntentsAssumption ==
  Intents \in [Players -> SUBSET [shoot : BOOLEAN, bomb : BOOLEAN, draw : BOOLEAN,
                                  slot : 0..HandLimit \cup {NoSlot}]]

VARIABLES
  ruleset,     \* config_.ruleset_version
  state,       \* state_
  tick,        \* current_tick_
  winner,      \* winner_player_id_
  joined,      \* the keys of players_
  online,      \* PlayerState::connected
  lastSeq,     \* PlayerState::last_seq
  pending,     \* pending_inputs_by_tick_, as tick, player and intent
  held,        \* PlayerState::last_input
  boss,        \* a player's copy of the Boss and its spell phase
  ship,        \* lives, bombs, invulnerability and the last volley
  shots,       \* my_bullets_, per owner
  bullets,     \* live_bullets_, per owner: live, and with a vanish_tick
  hand,        \* PlayerState::hand
  seeded,      \* PlayerState::card_seeded
  purgeSeed,   \* card_purge_seed_, 0 when not set
  told,        \* sum of the boss_damage rows so far
  played       \* card_accepted rows so far

rosterVars == <<joined, online>>
inputVars == <<lastSeq, pending, held>>
fightVars == <<boss, ship, shots, bullets, told>>
cardVars == <<hand, seeded, purgeSeed, played>>
raceVars == <<ruleset, state, tick, winner, rosterVars, inputVars, fightVars, cardVars>>

Mechanics == ruleset = "danmaku"
Rest == [shoot |-> FALSE, bomb |-> FALSE, draw |-> FALSE, slot |-> NoSlot]
-----------------------------------------------------------------------------
(* Damage to a copy of the Boss.  PhaseFor: the phases whose threshold the *)
(* health has fallen to; a phase once entered is not left.                 *)
Least(a, b) == IF a <= b THEN a ELSE b

PhaseFor(phase, hp) ==
  LET entered == Cardinality({k \in 1 .. Phases - 1 : hp * Phases <= BossMaxHp * (Phases - k)})
  IN  IF entered > phase THEN entered ELSE phase

FreshBoss ==
  [hp |-> BossMaxHp, dealt |-> 0, owed |-> 0, phase |-> 0, got |-> 0,
   total |-> IF Mechanics THEN 1 ELSE 0, touched |-> FALSE]

\* mutant: phase_hit_taken is not reset when a new phase begins
WoundStaysTouched(copy, applied) ==
  LET hp == copy.hp - applied
      passed == PhaseFor(copy.phase, hp) - copy.phase
  IN  [copy EXCEPT !.hp = hp, !.dealt = @ + applied, !.phase = @ + passed, !.total = @ + passed,
                   !.got = @ + (IF copy.touched THEN 0 ELSE passed + (IF hp = 0 THEN 1 ELSE 0))]

(* ApplyBossDamage and CheckSpellPhase: each phase left untouched is       *)
(* captured when it is left, the last one when the Boss falls.             *)
Wound(copy, applied) ==
  LET hp == copy.hp - applied
      phase == PhaseFor(copy.phase, hp)
      passed == phase - copy.phase
      spoiled == copy.touched /\ passed = 0
  IN  [copy EXCEPT !.hp = hp, !.dealt = @ + applied,
                   !.phase = phase, !.total = @ + passed, !.touched = spoiled,
                   !.got = @ + (IF copy.touched /\ passed > 0 THEN passed - 1 ELSE passed)
                             + (IF hp = 0 /\ ~spoiled THEN 1 ELSE 0)]

\* mutant: the whole damage is entered, also what the Boss did not have left
StrikeOverkill(copy, damage) ==
  LET applied == Least(damage, copy.hp)
  IN  IF applied = 0 THEN copy ELSE [Wound(copy, applied) EXCEPT !.owed = @ + damage]

Strike(copy, damage) ==
  LET applied == Least(damage, copy.hp)
  IN  IF applied = 0 THEN copy ELSE [Wound(copy, applied) EXCEPT !.owed = @ + applied]

(* Under "classic" the trigger wears the Boss down past the phases.        *)
Chip(copy, damage) ==
  [copy EXCEPT !.hp = @ - Least(damage, copy.hp), !.dealt = @ + Least(damage, copy.hp)]
-----------------------------------------------------------------------------
(* What one player does in the tick.                                       *)
Due(p) == {i \in pending : i.tick = tick + 1 /\ i.player = p}
Real(p) == Due(p) # {}
\* ApplyPlayerTick falls back on the last input where none is due
Intent(p) == IF Real(p) THEN (CHOOSE i \in Due(p) : TRUE).intent ELSE held[p]

Alive(p) == ship[p].lives > 0

Drops(p) == Mechanics /\ Intent(p).bomb /\ ship[p].bombs > 0 /\ Alive(p)

\* mutant: a dead ship keeps its trigger
FiresDead(p) ==
  /\ Mechanics /\ Intent(p).shoot
  /\ ship[p].fired = 0 \/ tick + 1 - ship[p].fired >= ShotPause

Fires(p) ==
  /\ Mechanics /\ Intent(p).shoot /\ Alive(p)
  /\ ship[p].fired = 0 \/ tick + 1 - ship[p].fired >= ShotPause

(* ExecuteCastCard: only an input of this very tick plays a card.          *)
CastSlot(p) == Intent(p).slot

\* mutant: the input that is held plays its card again
CastsHeld(p) == seeded[p] /\ CastAccepted(Regain(hand[p]), CastSlot(p), tick + 1)

Casts(p) ==
  seeded[p] /\ Real(p) /\ CastAccepted(Regain(hand[p]), CastSlot(p), tick + 1)

CardPlayed(p) == Definition[CardAt(hand[p], CastSlot(p))]

HandAfterTurn(p) ==
  LET regained == IF seeded[p] THEN Regain(hand[p]) ELSE hand[p]
      cast == IF Casts(p) THEN ApplyCast(regained, CastSlot(p), tick + 1) ELSE regained
  IN  IF ~online[p] THEN hand[p]
      ELSE IF seeded[p] /\ Real(p) /\ Intent(p).draw THEN DrawServerCard(cast) ELSE cast

TriggerDamage(p) ==
  (IF Intent(p).shoot THEN ShotDamage ELSE 0) + (IF Intent(p).bomb THEN BombDamage ELSE 0)

BossAfterTurn(p) ==
  LET bombed == IF Drops(p) THEN Strike(boss[p], BombDamage) ELSE boss[p]
      worn == IF ~Mechanics /\ Alive(p) THEN Chip(bombed, TriggerDamage(p)) ELSE bombed
  IN  IF ~online[p] THEN boss[p]
      ELSE IF Casts(p) THEN Strike(worn, CardPlayed(p).damage) ELSE worn

(* A ward replaces whatever invulnerability was left.                      *)
ShipAfterTurn(p) ==
  LET t == tick + 1
      bombed == IF Drops(p) THEN [ship[p] EXCEPT !.bombs = @ - 1, !.safe = t + Mercy] ELSE ship[p]
      fired == IF Fires(p) THEN [bombed EXCEPT !.fired = t] ELSE bombed
  IN  IF ~online[p] THEN ship[p]
      ELSE IF Casts(p) /\ CardPlayed(p).kind = "invulnerable"
      THEN [fired EXCEPT !.safe = ExpiresTick(CardAt(hand[p], CastSlot(p)), t)]
      ELSE fired
-----------------------------------------------------------------------------
(* The bullets within a tick, per owner: live, faded in an earlier tick    *)
(* and faded in this one.                                                  *)
Field == [p \in Players |-> [live |-> bullets[p].live, old |-> bullets[p].fading, new |-> 0]]
Own(field, p) == field[p].live + field[p].old + field[p].new
Total(field) == Own(field, First) + Own(field, Second)

(* CheckSpellPhase clears the player's bullets with the phase.             *)
Cleared(field, p, before, after) ==
  IF after.phase = before.phase THEN field
  ELSE [field EXCEPT ![p].live = 0, ![p].new = @ + field[p].live]

Fewer(field, count) ==
  LET Part(r) == [live : 0..r.live, old : 0..r.old, new : 0..r.new]
  IN  {[p \in Players |-> IF p = First THEN a ELSE b] : a \in Part(field[First]), b \in Part(field[Second])}
        \cap {f \in [Players -> [live : 0..BulletCap, old : 0..BulletCap, new : 0..BulletCap]] :
                Total(field) - Total(f) <= count}

(* RunCardEffect: the pattern belongs to the one who cast it.              *)
Effects(field, p) ==
  IF ~(online[p] /\ Casts(p)) THEN {field}
  ELSE CASE CardPlayed(p).kind = "opponent_pattern" ->
              {[field EXCEPT ![p].live = @ + PatternSize(CardPlayed(p).count, Total(field), BulletCap)]}
         [] CardPlayed(p).kind = "bullet_purge" -> Fewer(field, CardPlayed(p).count)
         [] CardPlayed(p).kind = "finisher" ->
              {[q \in Players |-> [live |-> 0, old |-> 0, new |-> 0]]}
         [] OTHER -> {field}

(* ApplyPlayerTick takes the players in the order of the map.              *)
AfterTurn(field, p) == Effects(Cleared(field, p, boss[p], BossAfterTurn(p)), p)
AfterTurns == UNION {AfterTurn(field, Second) : field \in AfterTurn(Field, First)}

Room(n) == IF n >= BulletCap THEN 0 ELSE BulletCap - n

(* SpawnBulletsForTick: the most a pattern leaves live.                    *)
Spawned(field, p) ==
  IF online[p] /\ BossAfterTurn(p).hp > 0
  THEN field[p].live + Least(Burst, Room(Own(field, p))) ELSE field[p].live

(* AdvanceBullets: what faded before is gone, hosts split within the cap,  *)
(* and what has left the field is removed.                                 *)
Advanced(field, p) ==
  LET live == Spawned(field, p)
      split == IF live = 0 THEN 0 ELSE live + Least(Burst, Room(live + field[p].new))
  IN  [live : 0..split, fading : 0..field[p].new]
-----------------------------------------------------------------------------
(* JudgeMyBullets: of the shots in flight some hit and some leave; those   *)
(* at a fallen Boss are removed.                                           *)
InFlight(p) ==
  LET fresh == IF online[p] /\ Fires(p) /\ shots[First] + shots[Second] < 2 * BulletCap THEN 1 ELSE 0
  IN  IF BossAfterTurn(p).hp = 0 THEN 0 ELSE shots[p] + fresh

(* JudgePlayerContacts looks at bullets that are neither gone nor fading.  *)
\* mutant: the tick the protection ends in is not protected
MayBeHitEarly(p, live) ==
  Mechanics /\ online[p] /\ Alive(p) /\ live > 0 /\ tick + 1 >= ShipAfterTurn(p).safe

MayBeHit(p, live) ==
  Mechanics /\ online[p] /\ Alive(p) /\ live > 0 /\ tick + 1 > ShipAfterTurn(p).safe

(* What the rest of the tick may do to one player: a phase that ends here  *)
(* clears the bullets before any of them touches the ship.                 *)
Outcomes(p, field) ==
  UNION {
    LET copy == Strike(BossAfterTurn(p), hits * ShotDamage)
        moved == IF copy.phase = BossAfterTurn(p).phase THEN b
                 ELSE [live |-> 0, fading |-> b.fading + b.live]
    IN  {[copy |-> IF struck THEN [copy EXCEPT !.touched = TRUE] ELSE copy,
          bullets |-> moved, struck |-> struck, shots |-> left] :
           struck \in {s \in BOOLEAN : s => MayBeHit(p, moved.live)},
           left \in 0 .. InFlight(p) - hits} :
    hits \in 0..InFlight(p), b \in Advanced(field, p) }

(* The aggregated boss_damage row: every few ticks, and when it falls.     *)
Tells(copy) == Mechanics /\ copy.owed > 0 /\ ((tick + 1) % ReportEvery = 0 \/ copy.hp = 0)

Fight ==
  \E field \in AfterTurns :
    \E a \in Outcomes(First, field), b \in Outcomes(Second, field) :
      LET of(p) == IF p = First THEN a ELSE b
          copy(p) == of(p).copy
      IN  /\ shots' = [p \in Players |-> of(p).shots]
          /\ bullets' = [p \in Players |-> of(p).bullets]
          /\ boss' = [p \in Players |-> IF Tells(copy(p)) THEN [copy(p) EXCEPT !.owed = 0] ELSE copy(p)]
          /\ told' = [p \in Players |-> told[p] + (IF Tells(copy(p)) THEN copy(p).owed ELSE 0)]
          /\ ship' = [p \in Players |->
                        IF of(p).struck
                        THEN [ShipAfterTurn(p) EXCEPT !.lives = @ - 1, !.safe = tick + 1 + Mercy]
                        ELSE ShipAfterTurn(p)]
-----------------------------------------------------------------------------
\* mutant: the later player in the order of the map wins a tie
WinnerLast == IF boss'[Second].hp = 0 THEN Second ELSE IF boss'[First].hp = 0 THEN First ELSE Nobody

(* CheckRaceWinner: the first in the order of the map.                     *)
Winner == IF boss'[First].hp = 0 THEN First ELSE IF boss'[Second].hp = 0 THEN Second ELSE Nobody

Init ==
  /\ ruleset \in Rulesets
  /\ state = "waiting" /\ tick = 0 /\ winner = Nobody
  /\ joined = {} /\ online = [p \in Players |-> FALSE]
  /\ lastSeq = [p \in Players |-> 0] /\ pending = {} /\ held = [p \in Players |-> Rest]
  /\ boss = [p \in Players |-> FreshBoss]
  /\ ship = [p \in Players |-> [lives |-> Lives, bombs |-> Bombs, safe |-> 0, fired |-> 0]]
  /\ shots = [p \in Players |-> 0]
  /\ bullets = [p \in Players |-> [live |-> 0, fading |-> 0]]
  /\ hand = [p \in Players |-> NoHand] /\ seeded = [p \in Players |-> FALSE]
  /\ purgeSeed = 0
  /\ told = [p \in Players |-> 0] /\ played = [p \in Players |-> 0]

AddPlayer(p) ==
  /\ p \notin joined
  /\ joined' = joined \cup {p} /\ online' = [online EXCEPT ![p] = TRUE]
  /\ UNCHANGED <<ruleset, state, tick, winner, inputVars, fightVars, cardVars>>

SetPlayerConnected(p, connected) ==
  /\ p \in joined \cap Flaky /\ online[p] # connected
  /\ online' = [online EXCEPT ![p] = connected]
  /\ UNCHANGED <<ruleset, state, tick, winner, joined, inputVars, fightVars, cardVars>>

Dealt(p) == SubSeq(Decks[p], 1, Least(DealtSize, Len(Decks[p])))

(* A deal replaces the hand and its cooldowns and ends any protection; a   *)
(* second seed in one match is refused.                                    *)
SeedHand(p, seed) ==
  /\ p \in joined
  /\ seed = 0 \/ purgeSeed \in {0, seed}
  /\ purgeSeed' = IF seed = 0 THEN purgeSeed ELSE seed
  /\ hand' = [hand EXCEPT ![p] = DealtHand(Dealt(p), Decks[p], StartEnergy)]
  /\ ship' = [ship EXCEPT ![p].safe = 0]
  /\ seeded' = [seeded EXCEPT ![p] = TRUE]
  /\ UNCHANGED <<ruleset, state, tick, winner, rosterVars, inputVars, boss, shots, bullets, told, played>>

(* Only a larger sequence number, for one of the next ticks; a second      *)
(* input for the same tick replaces the first.                             *)
SubmitInput(p, seq, at, intent) ==
  /\ state # "finished" /\ p \in joined /\ online[p]
  /\ seq > lastSeq[p]
  /\ at \in tick + 1 .. tick + Window
  /\ lastSeq' = [lastSeq EXCEPT ![p] = seq]
  /\ pending' = {i \in pending : i.tick # at \/ i.player # p}
                  \cup {[tick |-> at, player |-> p, intent |-> intent]}
  /\ UNCHANGED <<ruleset, state, tick, winner, rosterVars, held, fightVars, cardVars>>

(* Two players, connected or not, start the race.                          *)
StartIfReady == state = "waiting" /\ joined = Players

(* A tick with the race running.  What was filed for it is used up, also   *)
(* for a player who is not connected.                                      *)
Step ==
  /\ tick < MaxTick
  /\ state = "running" \/ StartIfReady
  /\ Fight
  /\ held' = [p \in Players |-> IF online[p] THEN Intent(p) ELSE held[p]]
  /\ pending' = {i \in pending : i.tick # tick + 1}
  /\ hand' = [p \in Players |-> HandAfterTurn(p)]
  /\ played' = [p \in Players |-> played[p] + (IF online[p] /\ Casts(p) THEN 1 ELSE 0)]
  /\ winner' = Winner
  /\ state' = IF winner' = Nobody THEN "running" ELSE "finished"
  /\ tick' = tick + 1
  /\ UNCHANGED <<ruleset, rosterVars, lastSeq, seeded, purgeSeed>>

(* The clock runs before the race does; once it is decided it stands.      *)
Wait ==
  /\ tick < MaxTick
  /\ state = "waiting" /\ ~StartIfReady
  /\ tick' = tick + 1
  /\ UNCHANGED <<ruleset, state, winner, rosterVars, inputVars, fightVars, cardVars>>

Tick == Step \/ Wait

(* The host deals to a player whose ticket carries cards.                  *)
Next ==
  \/ \E p \in Players : \/ AddPlayer(p)
                        \/ \E c \in BOOLEAN : SetPlayerConnected(p, c)
                        \/ Decks[p] # << >> /\ \E s \in Seeds : SeedHand(p, s)
                        \/ \E seq \in 1..MaxSeq, at \in 1..MaxTick, i \in Intents[p] : SubmitInput(p, seq, at, i)
  \/ Tick

Spec == Init /\ [][Next]_raceVars
-----------------------------------------------------------------------------
Shares == [hp : 0..BossMaxHp, dealt : 0..BossMaxHp, owed : Nat, phase : 0 .. Phases - 1,
           got : Nat, total : Nat, touched : BOOLEAN]
Ships == [lives : 0..Lives, bombs : 0..Bombs, safe : Nat, fired : 0..MaxTick]

(* The bullets of one player's Boss, those fading from the screen          *)
(* included, never exceed the cap: patterns, splits and cards share it.    *)
BulletsWithinCap ==
  \A p \in Players : bullets[p].live + bullets[p].fading <= BulletCap

RaceTypeOK ==
  /\ ruleset \in Rulesets /\ state \in {"waiting", "running", "finished"}
  /\ tick \in 0..MaxTick /\ winner \in Players \cup {Nobody}
  /\ joined \subseteq Players /\ online \in [Players -> BOOLEAN]
  /\ lastSeq \in [Players -> 0..MaxSeq]
  /\ \A i \in pending : i.tick \in 1..MaxTick /\ i.player \in Players /\ i.intent \in Intents[i.player]
  /\ \A p \in Players : held[p] \in Intents[p] \cup {Rest}
  /\ boss \in [Players -> Shares] /\ ship \in [Players -> Ships]
  /\ shots \in [Players -> 0 .. 2 * BulletCap]
  /\ bullets \in [Players -> [live : 0..BulletCap, fading : 0..BulletCap]]
  /\ \A p \in Players : Len(hand[p].cards) <= HandLimit /\ hand[p].energy \in 0..MaxEnergy
  /\ BulletsWithinCap
  /\ seeded \in [Players -> BOOLEAN] /\ purgeSeed \in Seeds \cup {0}
  /\ told \in [Players -> Nat] /\ played \in [Players -> Nat]

(* What a copy of the Boss has lost is what its player is credited with,   *)
(* and under "danmaku" what clients were told of in boss_damage rows plus  *)
(* what the next row will hold: overkill, clears and the row sent at the   *)
(* fall lose and invent nothing.                                           *)
DamageAddsUp ==
  \A p \in Players :
    /\ boss[p].hp + boss[p].dealt = BossMaxHp
    /\ Mechanics => told[p] + boss[p].owed = boss[p].dealt
    /\ Mechanics /\ boss[p].hp = 0 => boss[p].owed = 0

(* Under "danmaku" a spell phase is captured once, and only if its player  *)
(* was not hit in it: every phase that ended without a capture cost a      *)
(* life.                                                                   *)
CapturesAreEarned ==
  Mechanics => \A p \in Players :
    LET ended == boss[p].phase + (IF boss[p].hp = 0 THEN 1 ELSE 0)
    IN  /\ boss[p].total = boss[p].phase + 1
        /\ boss[p].got <= ended
        /\ ended <= boss[p].got + Lives - ship[p].lives

(* No player casts more cards than inputs were accepted from that player:  *)
(* an input that is held over the ticks without one never plays again.     *)
HeldInputPlaysNothing == \A p \in Players : played[p] <= lastSeq[p]

(* A finished race has a winner whose Boss is beaten, and of two Bosses    *)
(* that fall in the same tick the first in the order of the map counts.    *)
WinnerIsFair ==
  /\ state = "finished" <=> winner # Nobody
  /\ winner # Nobody => /\ boss[winner].hp = 0
                        /\ winner = Second => boss[First].hp > 0
  /\ winner = Nobody => \A p \in Players : boss[p].hp > 0

(* A hit costs one life, and no life is lost again before the mercy time   *)
(* is over, unless a card or a new deal replaced it.                       *)
MercyIsKept ==
  [][\A p \in Players : ship'[p].lives # ship[p].lives =>
        /\ ship'[p].lives = ship[p].lives - 1
        /\ tick' > ship[p].safe
        /\ ship'[p].safe = tick' + Mercy]_raceVars

(* Two players out of lives, with no shot in flight and no hand, cannot    *)
(* finish the race any more: nothing they send wounds a Boss.              *)
Stalemate ==
  /\ Mechanics /\ state = "running"
  /\ \A p \in Players : ship[p].lives = 0 /\ shots[p] = 0 /\ ~seeded[p]
StalemateLasts ==
  [][Stalemate => (\A p \in Players : boss'[p].hp = boss[p].hp) /\ state' = "running"]_raceVars
=============================================================================
