------------------------------ MODULE CoopBoss ------------------------------
(***************************************************************************)
(* The co-op Boss: CoopBossSimulation of src/src/coop_boss.cpp.  Two to    *)
(* four players sit around one Boss whose health they share.  On a cycle   *)
(* of kCoopCannonIntervalTicks the Boss shields some seats, freezes one    *)
(* with its cannon and fills the arena with bullets.                       *)
(*                                                                         *)
(* Positions are abstracted: a bullet leaves the arena at some tick.  The  *)
(* draws from the match seed (coop_shield_count, coop_shield_rank,         *)
(* coop_cannon_dir) are a choice made when a cycle begins, since they only *)
(* depend on the number of the cycle.                                      *)
(***************************************************************************)
EXTENDS Integers, Sequences, FiniteSets, FiniteSetsExt

CONSTANTS
  Crew,            \* player ids in the order of the map, a sequence
  MaxSeats,        \* kCoopMaxPlayers
  MinSeats,        \* kCoopMinPlayers
  SetHp,           \* config.boss_max_hp, 0 when it depends on the players
  HpPerSeat,       \* kCoopBossHpPerPlayer
  Rolls,           \* what may be drawn for a cycle
  Powers,          \* damage an input may ask for, 0 without the trigger
  Cycle,           \* kCoopCannonIntervalTicks
  ShieldFrom, ShieldFor,   \* 300, kCoopShieldWindowTicks
  CannonFrom, CannonFor,   \* kCoopCannonStartOffset, kCoopCannonDurationTicks
  SpiralFor,       \* kCoopSpiralWindowTicks
  FanEvery, FanSize,       \* kCoopFanIntervalTicks, kCoopFanBulletsPerDir
  SpiralEvery,     \* kCoopSpiralEveryTicks
  ShowerCap,       \* kCoopMaxBullets
  Ahead,           \* 8: how far ahead an input may lie
  LastSeq, LastTick        \* bounds of the runs

Members == {Crew[i] : i \in 1..Len(Crew)}
SpiralSize == 4
NoSeat == -1
Seating == 0 .. MaxSeats - 1

ASSUME CrewAssumption ==
  /\ Crew \in Seq(Members) /\ \A i, j \in 1..Len(Crew) : Crew[i] = Crew[j] => i = j
  /\ MaxSeats \in Nat \ {0} /\ MinSeats \in 1..MaxSeats
ASSUME CoopNumbersAssumption ==
  /\ {SetHp, ShieldFrom, ShieldFor, CannonFrom, CannonFor, SpiralFor, Ahead, LastSeq, LastTick} \subseteq Nat
  /\ {HpPerSeat, Cycle, FanEvery, FanSize, SpiralEvery, ShowerCap} \subseteq Nat \ {0}
  /\ Powers \subseteq Nat

(* want: the seats to shield; rank: the order they are taken in; die: the  *)
(* part of the circle the cannon picks.                                    *)
ASSUME RollAssumption ==
  /\ Rolls \subseteq [want : {1, 3}, rank : [Seating -> Seating], die : Seating]
  /\ \A r \in Rolls, s, t \in Seating : r.rank[s] = r.rank[t] => s = t

VARIABLES
  match,      \* state_
  clock,      \* current_tick_
  aboard,     \* the keys of players_
  present,    \* PlayerState::connected
  numbered,   \* PlayerState::last_seq
  filed,      \* pending_inputs_by_tick_
  keeps,      \* PlayerState::last_input: the damage it asks for
  sharedHp,   \* boss_hp_
  fullHp,     \* config_.boss_max_hp
  share,      \* PlayerState::damage_dealt
  roll,       \* the draws of the cycle
  shield,     \* shield_dir_mask_, the seats in it
  lock,       \* lock_dir_
  shower      \* live_bullets_.size()

coopVars == <<match, clock, aboard, present, numbered, filed, keeps, sharedHp, fullHp,
              share, roll, shield, lock, shower>>

(* A player sits where the order of the map puts it.                       *)
Place(p) == CHOOSE i \in 1..Len(Crew) : Crew[i] = p
Seat(p) == Cardinality({q \in aboard : Place(q) < Place(p)})
Seats == Cardinality(aboard)
-----------------------------------------------------------------------------
(* RecomputeMechanics for the tick to come.                                *)
Phase(t) == t % Cycle

ShieldCount(r) ==
  LET most == IF Seats > 1 THEN Seats - 1 ELSE 1
  IN  IF r.want <= most THEN r.want ELSE most

Shielded(t, r) ==
  IF Phase(t) \in ShieldFrom .. ShieldFrom + ShieldFor - 1
  THEN {s \in 0 .. Seats - 1 :
          Cardinality({x \in 0 .. Seats - 1 : r.rank[x] < r.rank[s]}) < ShieldCount(r)}
  ELSE {}

Locked(t, r) ==
  IF Phase(t) \in CannonFrom .. CannonFrom + CannonFor - 1 THEN (r.die * Seats) \div MaxSeats
  ELSE NoSeat

Spiral(t) == t >= Cycle /\ Phase(t) < SpiralFor
-----------------------------------------------------------------------------
(* ApplyPlayerTick: the players shoot in the order of their seats, so the  *)
(* last of the health goes to the earlier seats.                           *)
Filed(p) == {i \in filed : i.tick = clock + 1 /\ i.player = p}
Wanted(p) == IF Filed(p) # {} THEN (CHOOSE i \in Filed(p) : TRUE).power ELSE keeps[p]

\* mutant: the mechanics are recomputed after the players have shot
ShotStale(p, hp, sh, lk) ==
  IF present[p] /\ Seat(p) \notin shield /\ Seat(p) # lock
  THEN IF Wanted(p) <= hp THEN Wanted(p) ELSE hp
  ELSE 0

Shot(p, hp, sh, lk) ==
  IF present[p] /\ Seat(p) \notin sh /\ Seat(p) # lk
  THEN IF Wanted(p) <= hp THEN Wanted(p) ELSE hp
  ELSE 0

(* The health that is left before the player in place i shoots.            *)
LeftBefore(hp, sh, lk) ==
  LET left[i \in 1 .. Len(Crew) + 1] ==
        IF i = 1 THEN hp
        ELSE left[i - 1] - (IF Crew[i - 1] \in aboard THEN Shot(Crew[i - 1], left[i - 1], sh, lk) ELSE 0)
  IN  left

\* mutant: fans do not look at the cap
FansUnchecked(t, lk) ==
  IF t % FanEvery = 0 THEN shower + FanSize * Cardinality({p \in aboard : present[p]}) ELSE shower

(* SpawnBulletsForTick looks at the cap before a volley, not within it.    *)
Volley(n, size) == IF n < ShowerCap THEN n + size ELSE n

AfterFans(t, lk) ==
  LET after[i \in 0..Len(Crew)] ==
        IF i = 0 THEN shower
        ELSE IF Crew[i] \notin aboard \/ ~present[Crew[i]] THEN after[i - 1]
        ELSE LET fan == IF t % FanEvery = 0 THEN Volley(after[i - 1], FanSize) ELSE after[i - 1]
             IN  IF Seat(Crew[i]) = lk THEN Volley(fan, 1) ELSE fan
  IN  after[Len(Crew)]

Showered(t, lk) ==
  IF Spiral(t) /\ t % SpiralEvery = 0 THEN Volley(AfterFans(t, lk), SpiralSize) ELSE AfterFans(t, lk)
-----------------------------------------------------------------------------
CoopInit ==
  /\ match = "waiting" /\ clock = 0
  /\ aboard = {} /\ present = [p \in Members |-> FALSE]
  /\ numbered = [p \in Members |-> 0] /\ filed = {} /\ keeps = [p \in Members |-> 0]
  /\ sharedHp = 0 /\ fullHp = SetHp /\ share = [p \in Members |-> 0]
  /\ roll \in Rolls /\ shield = {} /\ lock = NoSeat /\ shower = 0

CoopAddPlayer(p) ==
  /\ p \notin aboard /\ Seats < MaxSeats
  /\ aboard' = aboard \cup {p} /\ present' = [present EXCEPT ![p] = TRUE]
  /\ UNCHANGED <<match, clock, numbered, filed, keeps, sharedHp, fullHp, share, roll, shield, lock, shower>>

CoopSetConnected(p, connected) ==
  /\ p \in aboard /\ present[p] # connected
  /\ present' = [present EXCEPT ![p] = connected]
  /\ UNCHANGED <<match, clock, aboard, numbered, filed, keeps, sharedHp, fullHp, share, roll, shield, lock, shower>>

CoopSubmitInput(p, seq, at, power) ==
  /\ match # "finished" /\ p \in aboard /\ present[p]
  /\ seq > numbered[p] /\ at \in clock + 1 .. clock + Ahead
  /\ numbered' = [numbered EXCEPT ![p] = seq]
  /\ filed' = {i \in filed : i.tick # at \/ i.player # p}
                \cup {[tick |-> at, player |-> p, power |-> power]}
  /\ UNCHANGED <<match, clock, aboard, present, keeps, sharedHp, fullHp, share, roll, shield, lock, shower>>

(* A player who comes after the start changes the seats, not the health.   *)
Starting == match = "waiting" /\ Seats >= MinSeats

\* mutant: the health is set again in every tick of a running match
HpResets == IF fullHp = 0 THEN HpPerSeat * Seats ELSE fullHp

HpAtTick ==
  IF Starting THEN IF fullHp = 0 THEN HpPerSeat * Seats ELSE fullHp ELSE sharedHp

CoopStep ==
  /\ clock < LastTick
  /\ Starting \/ match = "running"
  /\ clock' = clock + 1
  /\ roll' \in IF Phase(clock') = 0 THEN Rolls ELSE {roll}
  /\ shield' = Shielded(clock', roll') /\ lock' = Locked(clock', roll')
  /\ fullHp' = IF Starting THEN HpAtTick ELSE fullHp
  /\ LET left == LeftBefore(HpAtTick, shield', lock')
     IN  /\ sharedHp' = left[Len(Crew) + 1]
         /\ share' = [p \in Members |->
                        IF p \in aboard THEN share[p] + Shot(p, left[Place(p)], shield', lock') ELSE share[p]]
  /\ keeps' = [p \in Members |-> IF p \in aboard /\ present[p] THEN Wanted(p) ELSE keeps[p]]
  /\ filed' = {i \in filed : i.tick # clock'}
  /\ shower' \in 0 .. Showered(clock', lock')
  /\ match' = IF sharedHp' = 0 /\ fullHp' > 0 THEN "finished" ELSE "running"
  /\ UNCHANGED <<aboard, present, numbered>>

CoopWait ==
  /\ clock < LastTick
  /\ match = "waiting" /\ ~Starting
  /\ clock' = clock + 1
  /\ roll' \in IF Phase(clock') = 0 THEN Rolls ELSE {roll}
  /\ UNCHANGED <<match, aboard, present, numbered, filed, keeps, sharedHp, fullHp, share, shield, lock, shower>>

CoopTick == CoopStep \/ CoopWait

CoopNext ==
  \/ \E p \in Members : \/ CoopAddPlayer(p)
                        \/ \E c \in BOOLEAN : CoopSetConnected(p, c)
                        \/ \E seq \in 1..LastSeq, at \in 1..LastTick, w \in Powers : CoopSubmitInput(p, seq, at, w)
  \/ CoopTick

CoopSpec == CoopInit /\ [][CoopNext]_coopVars
-----------------------------------------------------------------------------
CoopTypeOK ==
  /\ match \in {"waiting", "running", "finished"} /\ clock \in 0..LastTick
  /\ aboard \subseteq Members /\ present \in [Members -> BOOLEAN]
  /\ numbered \in [Members -> 0..LastSeq]
  /\ filed \subseteq [tick : 1..LastTick, player : Members, power : Powers]
  /\ keeps \in [Members -> Powers \cup {0}]
  /\ sharedHp \in Nat /\ fullHp \in Nat /\ share \in [Members -> Nat]
  /\ roll \in Rolls /\ shield \subseteq Seating /\ lock \in Seating \cup {NoSeat} /\ shower \in Nat

(* The shared health and the damage credited to the players are the health *)
(* the Boss started with: a shot that finds less than it asks for is       *)
(* credited with what it found, and a late player adds nothing.            *)
SharedDamageAddsUp ==
  match # "waiting" => sharedHp + MapThenSumSet(LAMBDA p : share[p], Members) = fullHp

(* A volley may start one bullet below the cap, so the arena holds at most *)
(* a volley less one more than the cap.                                    *)
ShowerIsBounded ==
  shower <= ShowerCap + (IF FanSize >= SpiralSize THEN FanSize ELSE SpiralSize) - 1

(* A seat that the snapshot of a tick shows shielded or locked dealt no    *)
(* damage in that tick.                                                    *)
BlockedSeatsDealNothing ==
  [][\A p \in aboard : share'[p] # share[p] => Seat(p) \notin shield' /\ Seat(p) # lock']_coopVars

=============================================================================
