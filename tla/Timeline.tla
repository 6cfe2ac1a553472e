------------------------------ MODULE Timeline ------------------------------
(* What the race fires at its players and when: ten patterns in rotation,   *)
(* the timeline of a Boss of the catalog, or the node tables of a Boss      *)
(* rewritten frame by frame, each under the scale of the difficulty; and    *)
(* the machines of the iron fist and the black curtain beside them.  Seen   *)
(* for one player who is there, with a Boss alive and room for bullets.     *)
(* Angles, speeds and kinds of bullet are left out.                         *)
EXTENDS Integers, Sequences, FiniteSetsExt, SequencesExt

CONSTANTS Battles,   \* records of a ruleset, a Boss and a difficulty
          TopFrame   \* bound of the model

Rulesets == {"synthetic", "plain", "mechanics"}
Tabled == {"boss21", "boss21_tna"}
Sways == {"tian", "hui"}

ASSUME TimelineAssumption ==
  /\ Battles \subseteq [ruleset : Rulesets, boss : Tabled \cup Sways \cup {"none"}, difficulty : 0..3]
  /\ TopFrame \in Nat

VARIABLES fight,    \* the battle
          frame,    \* current_tick_
          spell,    \* the spell phase of the player's Boss
          volley,   \* what the last frame fired
          lastWave, \* of each pattern, the wave it fired last
          lastFired,\* of each node of the table in use, the frame it fired last
          fist, curtain

timelineVars == <<fight, frame, spell, volley, lastWave, lastFired, fist, curtain>>
-----------------------------------------------------------------------------
(* The scale of the difficulty, in percent; only the mechanics ruleset      *)
(* reads it.  llround of a positive number.                                 *)
Scale(b) == IF b.ruleset = "mechanics" THEN b.difficulty ELSE 1
Rounded(n, percent) == (n * percent + 50) \div 100
ScalePeriod(b, n) == Rounded(n, <<115, 100, 90, 80>>[Scale(b) + 1])
ScaleCount(b, n) == Rounded(n, <<80, 100, 115, 135>>[Scale(b) + 1])

(* The library: a pattern of two waves, half a cycle apart, or of one.      *)
Grid == 45
Alternating(n) == [cycle |-> 2 * Grid, counts |-> [phase \in {0, Grid} |-> n]]
Steady(n) == [cycle |-> Grid, counts |-> [phase \in {0} |-> n]]
Library ==
  <<Alternating(16), Alternating(12), Steady(7), Alternating(4), Alternating(2),
    Alternating(8), Alternating(6), Alternating(5), Alternating(10), Steady(4)>>
SyntheticCounts == <<16, 12, 5, 1, 8, 4, 3, 2, 1, 18>>

(* The timelines of the catalog, a pattern for each wave.                   *)
Waves(phases) == FlattenSeq([i \in DOMAIN phases |-> [j \in 1..phases[i][2] |-> phases[i][1]]])
Tian == Waves(<< <<1, 4>>, <<3, 3>>, <<4, 4>>, <<5, 3>>, <<10, 4>> >>)
Hui == Waves(<< <<2, 3>>, <<8, 4>>, <<7, 3>>, <<6, 4>>, <<9, 3>> >>)
Rotation(b) ==
  CASE b.ruleset # "synthetic" /\ b.boss = "tian" -> Tian
    [] b.ruleset # "synthetic" /\ b.boss = "hui" -> Hui
    [] OTHER -> [i \in DOMAIN Library |-> i]

(* The integer triangle the Boss sways on; the others stand still.          *)
Amplitude(b) == IF b.boss = "tian" THEN 60000 ELSE 30000
Half(b) == IF b.boss = "tian" THEN 300 ELSE 240
EmitterOffset(b, f) ==
  LET at == f % (2 * Half(b))
      tri == IF at > Half(b) THEN 2 * Half(b) - at ELSE at
  IN  IF b.boss \in Sways /\ b.ruleset # "synthetic"
      THEN ((2 * Amplitude(b)) \div Half(b)) * tri - Amplitude(b)
      ELSE 0

(* The node tables: the period and phase of nodes alike, how many they are  *)
(* and what each fires.  Nodes that were not decoded fire nothing.          *)
Node(period, phase, nodes, each) ==
  [period |-> period, phase |-> phase, nodes |-> nodes, each |-> each]
Boss21 ==
  <<Node(300, 0, 1, 0), Node(300, 0, 1, 1), Node(200, 0, 1, 0), Node(200, 16, 1, 0),
    Node(200, 32, 1, 0), Node(200, 48, 1, 0)>>
State14 ==
  [i \in 1..4 |-> Node(400, 1, 9, 1)] \o
  <<Node(18, 1, 1, 6), Node(18, 1, 1, 8), Node(18, 1, 1, 12), Node(18, 1, 1, 12), Node(20, 1, 1, 30)>>
State20 ==
  LET gates == << <<10, 12>>, <<36, 30>>, <<26, 30>>, <<18, 30>>, <<12, 18>>, <<10, 20>>, <<12, 8>>,
                  <<10, 12>>, <<20, 10>>, <<10, 15>>, <<20, 10>>, <<14, 10>>, <<10, 10>>, <<20, 18>>,
                  <<14, 20>>, <<10, 24>> >>
  IN  [i \in DOMAIN gates |-> Node(gates[i][1], 0, 1, gates[i][2])]

ChainTablesActive(b) == b.ruleset = "mechanics" /\ b.boss \in Tabled
TableAt(b, phase) ==
  IF ~ChainTablesActive(b) THEN <<>>
  ELSE IF b.boss = "boss21" THEN Boss21
  ELSE IF phase >= 2 THEN State20 ELSE State14
-----------------------------------------------------------------------------
SchedulePeriod(b) == ScalePeriod(b, Grid)
IsSlot(b, f) == ~ChainTablesActive(b) /\ f % SchedulePeriod(b) = 0
PatternIndex(b, f) ==
  LET r == Rotation(b) IN r[((f \div SchedulePeriod(b)) % Len(r)) + 1]

\* mutant: the frame is not folded back onto the grid of the library
PatternTickUnfolded(b, f) == f

(* The library knows frames of the unscaled grid only.                      *)
PatternTick(b, f) == (f \div SchedulePeriod(b)) * Grid

Silence == [pattern |-> 0, wave |-> 0, shots |-> 0, at |-> 0, nodes |-> {}]

SyntheticVolley(b, f) ==
  LET p == PatternIndex(b, f) IN [Silence EXCEPT !.pattern = p, !.shots = SyntheticCounts[p]]

RealVolley(b, f) ==
  LET p == PatternIndex(b, f)
      phase == PatternTick(b, f) % Library[p].cycle
      shots == IF phase \in DOMAIN Library[p].counts
               THEN ScaleCount(b, Library[p].counts[phase]) ELSE 0
  IN  [Silence EXCEPT !.pattern = p, !.wave = phase, !.shots = shots, !.at = EmitterOffset(b, f)]

Fires(b, node, f) == f % ScalePeriod(b, node.period) = node.phase
ChainVolley(b, phase, f) ==
  LET table == TableAt(b, phase)
      due == {i \in DOMAIN table : Fires(b, table[i], f)}
      bullets == [i \in due |-> table[i].nodes * ScaleCount(b, table[i].each)]
  IN  [Silence EXCEPT !.shots = MapThenSumSet(LAMBDA i : bullets[i], due), !.nodes = due]

VolleyAt(b, phase, f) ==
  IF ChainTablesActive(b) THEN ChainVolley(b, phase, f)
  ELSE IF ~IsSlot(b, f) THEN Silence
  ELSE IF b.ruleset = "synthetic" THEN SyntheticVolley(b, f)
  ELSE RealVolley(b, f)

(* A machine idles until it is due and then goes through its stages.        *)
Fist == [interval |-> 600, offset |-> 300, ticks |-> <<45, 15, 30>>]
Curtain == [interval |-> 900, offset |-> 600, ticks |-> <<45, 60, 45>>]
Idle == [stage |-> 0, left |-> 0]
Due(m, f) == f % m.interval = m.offset
Continued(m, s) ==
  CASE s.left > 1 -> [s EXCEPT !.left = @ - 1]
    [] s.left <= 1 /\ s.stage = Len(m.ticks) -> Idle
    [] s.left <= 1 /\ s.stage < Len(m.ticks) -> [stage |-> s.stage + 1, left |-> m.ticks[s.stage + 1]]
Advanced(m, s, f) ==
  IF s # Idle THEN Continued(m, s)
  ELSE IF Due(m, f) THEN [stage |-> 1, left |-> m.ticks[1]] ELSE Idle

TimelineInit ==
  /\ fight \in Battles /\ frame = 0 /\ spell = 0
  /\ volley = Silence /\ lastWave = [p \in DOMAIN Library |-> -1]
  /\ lastFired = [i \in DOMAIN TableAt(fight, 0) |-> 0]
  /\ fist = Idle /\ curtain = Idle

(* One frame.  Shots of the player may end the phase of the spell, after    *)
(* the frame has fired; a new table is used from the next frame on.         *)
Frame ==
  /\ frame < TopFrame /\ frame' = frame + 1
  /\ volley' = VolleyAt(fight, spell, frame')
  /\ lastWave' = IF volley'.pattern = 0 THEN lastWave
                 ELSE [lastWave EXCEPT ![volley'.pattern] = volley'.wave]
  /\ spell' \in IF fight.ruleset = "mechanics" /\ spell < 2 THEN {spell, spell + 1} ELSE {spell}
  /\ LET now == TableAt(fight, spell')
     IN  lastFired' = [i \in DOMAIN now |->
           IF now # TableAt(fight, spell) \/ i \in volley'.nodes THEN frame' ELSE lastFired[i]]
  /\ fist' = IF fight.ruleset = "mechanics" THEN Advanced(Fist, fist, frame') ELSE fist
  /\ curtain' = IF fight.ruleset = "mechanics" THEN Advanced(Curtain, curtain, frame') ELSE curtain
  /\ UNCHANGED fight

TimelineNext == Frame
TimelineSpec == TimelineInit /\ [][TimelineNext]_timelineVars
-----------------------------------------------------------------------------
TimelineTypeOK ==
  /\ fight \in Battles /\ frame \in 0..TopFrame /\ spell \in 0..2
  /\ volley.pattern \in 0..Len(Library) /\ volley.wave \in 0..(2 * Grid - 1) /\ volley.shots \in Nat
  /\ volley.at \in -Amplitude(fight)..Amplitude(fight) /\ volley.nodes \subseteq DOMAIN lastFired \cup 1..9
  /\ \A m \in {fist, curtain} : m.stage \in 0..3 /\ m.left \in 0..60

(* Whatever the difficulty does to the periods, nothing that is scheduled   *)
(* falls through the grid: every slot of the rotation fires bullets, every  *)
(* node that has bullets fires once in each of its scaled periods, and a    *)
(* machine that is due is idle and starts.                                  *)
NothingScheduledIsSkipped ==
  /\ frame > 0 /\ IsSlot(fight, frame) => volley.shots > 0
  /\ LET table == TableAt(fight, spell)
     IN  \A i \in DOMAIN table :
           table[i].each > 0 => frame - lastFired[i] < ScalePeriod(fight, table[i].period)
  /\ fight.ruleset = "mechanics" =>
       /\ Due(Fist, frame) => fist = [stage |-> 1, left |-> Fist.ticks[1]]
       /\ Due(Curtain, frame) => curtain = [stage |-> 1, left |-> Curtain.ticks[1]]

(* What the comments of the library say of a pattern with two waves: they   *)
(* alternate, a volley is never the wave of the volley before.              *)
WavesAlternate ==
  [][volley'.pattern # 0 /\ Library[volley'.pattern].cycle > Grid
       => volley'.wave # lastWave[volley'.pattern]]_timelineVars
=============================================================================
