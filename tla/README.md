# Verification of the PhK battle server

TLA+ models of the authoritative battle server of Phantasm-Klash: what they
model, what TLC checks of them and what the TLA+ proof system proves of them.
Line numbers are those of the C++ sources under `src/`.

## 1. The system

The repository holds two servers built on one set of libraries.

* The **match-id keyed facade** (`BattleServer`, `src/server.cpp`) is the
  embedded server of Boss rooms and battle royale. The lobby allocates matches
  on it, clients send it encrypted packets, a host ticks it, and a signed result
  settles a match. It owns one `BattleSimulation` for each match.
* The **match host process** (`MatchServer`, `src/match_lifecycle.cpp`, run by
  `apps/phk_battle_server/main.cpp`) hosts exactly one race or co-op match over
  KCP and ends with it.

| Component | State | Operations | Talks to | Hard parts |
|---|---|---|---|---|
| Battle simulation `simulation.cpp` | roster, connections, last sequence number and held input per player, input queue, mode-action queue, ready set, three reservation sets, transferable cards, Boss health, combat flag | `AddPlayer`, `SetPlayerConnected`, `ConfigureTransferableCard`, `AcceptInput`, `AcceptModeAction`, `Tick` | called by the facade; emits replay and hash material | an action is validated when queued and applied ticks later; reservations must be freed exactly once; silence; a fight begins in the middle of a tick |
| Server facade `server.cpp` | six maps keyed by match or ticket: pending Boss configuration, simulations, sessions, locked rosters, cancelled ids, result hashes | configure, register, handshake, decoded packets, tick, build and submit a result, cancel, retire | lobby above, simulation below | the roster lock must follow every call; a result is built at one time and submitted at another; cancellation against settlement; clean-up of all the maps |
| Match host `match_lifecycle.cpp`, `main.cpp` | bindings of conversations, consumed tickets, last input per player, event collector and its cooldown, submission, replay | session payload, tick, flush, submit, write replay, signal | KCP endpoint, race or co-op simulation, lobby over HTTP | failed and lost POSTs, the last flush at exit, tickets used twice, abandonment |
| Race simulation `boss_race.cpp` | per player: input filed and held, hand, copy of the Boss with its spell phase, lives, bombs, protection, shots, bullets; purge seed, winner, event rows | `AddPlayer`, `SetPlayerConnected`, `SeedHand`, `SubmitInput`, `Tick` | called by the match host; casts through the card hand | four sources of damage clamped one after the other; a hit that passes several phases; protection overwritten from three sides; held inputs; two Bosses falling at once; both players out of lives |
| Co-op simulation `coop_boss.cpp` | seats, inputs, shared health, damage per player, shield mask, locked seat, bullets | `AddPlayer`, `SetPlayerConnected`, `SubmitInput`, `Tick` | called by the match host | health fixed at the start while players still join and seats move; overlapping windows; a cap looked at between volleys |
| Card hand, card effects | cards, deck, draw cursor, energy, cooldowns | cast, draw, effect on the bullets of a match | simulations | cursor and limit, a card that is cast and drawn in one tick |
| Dispatcher and wire formats `protocol.cpp`, `aead.cpp` | last number per player and last tick per match, nonces seen | decode and replay check | in front of the facade | its window against the simulation's; numbers spent by packets refused later; numbers that survive a new handshake |
| Tickets, handshake | none | verify a signed record; answer a hello | facade, host | expiry, 64-bit seeds, which failure is named |
| KCP endpoints | sessions by conversation, conversation by address, counter of own numbers; in the adapter the address a session is bound to | poll, open, close | sockets, vendored `ikcp.c` | sessions that wander between addresses, a counter meeting a number in use |
| Results and replays `result.cpp`, `dem.cpp`, `chain_log.cpp` | operation chain of a match | format, hash, sign, verify, write, upload, read | facade, host, lobby | what moment a hash describes; fields that are pinned and fields that are not; uploads that stop half way |
| Event collectors | rows waiting, cooldown | push, take, restore | simulations, facade, host | full collectors, restored rows, lost answers |
| Bullet patterns and motion `danmaku/` | per-bullet motion, per-race timelines | what is fired when; step | simulations | difficulty scales against a grid of slots; floating point |
| Trace tools, vendored code | - | - | - | - |

Everything runs on one thread per process: the concurrency is that of packets,
host calls, ticks and lobby answers in any order, each handled to completion. So
every handler is one atomic action.

What makes each component correct:

* **Simulation.** No reservation outlives its queued action; a card is given
  away at most once, between players who are online; a fight begins once, with
  everyone online and ready; silence is always measured afresh and in the end
  noticed; an abandoned match is reported; a win is final.
* **Facade.** The roster is locked before the fight, whichever call makes it
  startable; a recorded result stays the truth about its match; sessions and
  roster agree, and neither outlives the other; the published status moves only
  forward.
* **Race.** Health lost, damage credited and damage told agree; a captured phase
  was one without a hit; a life is lost at most once per mercy time; a held input
  plays no card; the winner is the one whose Boss fell first; a lost race stays lost.
* **Co-op.** Shared health and credited damage add up whoever joins when; a seat
  shown blocked deals nothing; the arena is bounded.
* **Ways in.** A number is accepted once over every packet type, key and handshake;
  a session leaves its address only while its player is away; the index of
  conversations never names another's session.
* **Ways out.** What settles a match says, where it first gives a field, what is true
  of the match, and what the server builds is accepted; a replay that is read is the one that was recorded; rows
  reach the lobby in order and are lost only to a full collector.
* **Timelines.** No difficulty makes a scheduled slot, node or stage fall through.
* **Match host.** A ticket pays once; a conversation speaks for one player; all
  hands come from one lobby seed; the abandonment report survives failing POSTs;
  a match played to its end leaves one submission and one replay.

## 2. The modules

| Module | Models | Code it stands for |
|---|---|---|
| `BossRaid` | abstract: what a Boss match promises | - |
| `BattleSimulation` | `BattleSimulation`, for a Boss mode or battle royale | `simulation.cpp` 489-1199, 1533-1566, 2168-2239, 2338-2447, 2568-2657 |
| `MatchLifecycle` | abstract: the status of a match as allocation callers see it | - |
| `BattleServer` | the facade for one match id, EXTENDS `BattleSimulation` | `server.cpp` 134-155, 419-1080, 1132-1178, 1228-1412, 1470-1585, 1697-1704 |
| `MatchServer` | the host process around a match | `match_lifecycle.cpp` 1127-1604, `main.cpp` 286-328, parts of `boss_race.cpp` |
| `CardHand` | the ledger of a hand, what a card does to bullets | `card_hand.cpp` 22-149, `card_effects.cpp` 104-181, `boss_race.cpp` 326-455 |
| `BossRace` | the race simulation, EXTENDS `CardHand` | `boss_race.cpp` 152-1660, `card_effects.cpp` 183-260 |
| `CoopBoss` | the co-op simulation | `coop_boss.cpp` 89-445 |
| `HostedMatch` | composes them: a host holds one or the other | `match_lifecycle.cpp` 1030-1143 |
| `Admission` | ticket verifier and handshake answer | `ticket.cpp` 33-236, `handshake.cpp` 58-144 |
| `Packets` | the way of a packet into a match, EXTENDS `Admission` | `server.cpp` 70-1668, `protocol.cpp` 356-439, `kcp_endpoint.cpp` 11-123 |
| `KcpSessions` | the session table of an endpoint | `kcp_server_endpoint.cpp` 61-380 |
| `Results` | the signed result and its verifier | `result.cpp` 63-1325, the final snapshot in `simulation.cpp`, building and submitting in `server.cpp` |
| `DemContainer` | operation chain, `.dem` document, upload, reader | `chain_log.cpp` 52-193, `dem.cpp` 538-1289, `match_lifecycle.cpp` 1524-1604 |
| `EventReports` | the two collectors of lobby rows | `boss_race.cpp` 365-387, `simulation.cpp` 2330-2385, `match_lifecycle.cpp` 924-1467, `server.cpp` 1414-1460 |
| `Timeline` | what a race fires when | `pattern_timeline.cpp` 10-203, `boss_catalog.cpp` 41-162, `chain_node.cpp` 51-379, `judgment.cpp` 123-163, `boss_race.cpp`, `difficulty_table.hpp`, `tna_boss21.hpp` |
| `MatchEdges` | puts the six modules above side by side | - |
| `MCBattleServer`, `MCMatchServer`, `MCHostedMatch`, `MCMatchEdges`, `MCTimeline` | constants for TLC | - |
| `BattleSimulation_proofs`, `BattleServer_proofs`, `MatchServer_proofs`, `CoopBoss_proofs`, `HostedMatch_proofs` | theorems about the module they are named after | - |
| `MatchRecords_proofs` | theorems about `Results`, `DemContainer` and `EventReports` | - |
| `MatchEdges_proofs` | theorems about `Packets`, `KcpSessions`, `Timeline` and `MatchEdges` | - |
| `FiniteInduction` | lemmas: induction over intervals and finite sets, sums | - |

Of a range only the functions that the map of `PROJECT.json` names are modelled.
Definitions commented `mutant` are plausible bugs of the definition that follows
them. No specification uses them; each shows, put in its place, that some
property notices the bug.

### BattleSimulation

The code keys both queues by absolute tick and looks only at the distance to
`current_tick_`. A queued item of the model carries `due`, the number of `Tick()`
calls until it is applied: `current_tick_` disappears and time is unbounded.
`Tick` is one action made of named parts, in the order of the code: players in id
order (timeout, input, shooting), the due mode actions in `(seq, player)` order,
damage, the start of combat, the abandonment report. Because the actions of one
tick are ordered, whether a player is online *for* a given transfer depends on
the reconnects that precede it: `OnlineWhen`.

Abstracted: positions and bullets; hands (a cast lands and does `CardDamage`, or
is rejected, nondeterministically); the event and hash material; client action
ids, which are fresh. Boss health counts shots instead of points.

### BattleServer

One match id: no operation touches two. A hash over the replay is absent,
`current` or `stale`, that is, compared with the replay as it stands; every call
that changes the replay turns `current` into `stale`. The recorded `result` and
the last built `draft` are both tracked, so building, playing on and submitting
late is a behaviour of the model. A match id that was closed is never opened
again, hence the erased simulation keeps its last values and `mode = NoMode` says
that it is gone. AEAD, dispatcher and signatures in front of these handlers are
abstracted: what reaches an action is a packet they let through, and a mode
action packet of a disconnected player is one they do not.

### MatchServer

One action for a KCP message, one (`Round`) for a pass of main's loop, one for a
signal. A lobby POST comes to `ok`, `failed` or `lost`: the lobby took it and the
host does not know. The simulation below is what the host looks at: waiting,
running or finished, and whether it takes an input. Of the collected rows only
the abandonment report is kept, because only that one is put in by the host.

### CardHand

A hand is one record; `DealtHand`, `Regain`, `ApplyCast` and `DrawServerCard` are
the calls on it. Energy is counted in the steps in which it comes back, so costs
are whole numbers. Effects on bullets (`Effects` in `BossRace`) are bounds on how
many are added or taken; which ones a purge takes is drawn from the lobby seed.

### BossRace

`SubmitInput` files an input under a later tick, `SeedHand` deals, `Tick` is one
action with the parts of the code's tick in their order: turn of each player
(bomb, trigger, cast, draw), pattern, bullets by number, shots that arrive, hits,
phase changes, damage rows, winner. A shot in flight is a whole volley
(`boss_race.cpp:1203`), which hits or misses as one. A Boss copy carries `hp`, `dealt`, `owed`
(damage no row has told yet), `phase`, `hit`, `got`, `total`. What depends on
where things are is a choice within what the code bounds: how many bullets a
pattern adds, which leave, which touch, how many shots reach the Boss. Both
rulesets are there: under "classic" a held trigger damages the Boss directly,
under "danmaku" lives, bombs and shots in flight exist. `Step` is a tick that
fights; `Wait` one before both players are there. After the finish the code
returns at once, and the race has no step left.

### CoopBoss

A seat is the place of a player in the order of the map (`Seat`), so it moves when
somebody joins. Shield and lock are recomputed for the tick before the players
shoot. `LeftBefore` is the health each player finds, in map order. What is drawn
from the match seed depends only on the number of the cycle: it is a choice,
`roll`, made as a cycle begins. A bullet of the shower leaves at any later tick.

### Admission and Packets

`Verify` names the first failure in the order of the code, `Answer` the verdict on
a hello; the checks of hand, deck, energy, seed and time are spelled out, the
others are names of what a ticket fails. In `Packets` a refused packet changes
nothing but counters, so the actions are the accepted ones and their guards are
the checks: `Dispatch` (plain), `ProcessEncryptedDatagram` (acknowledged, not
applied; binds the address) and `ProcessDecodedPacket` (applied; the simulation
may still refuse, and the number is spent). The simulation is seen only through
its clock, who is connected, and the last number it took. Players leave and come back
by `SetPlayerConnected`, and in a tick by a reconnect that was still queued
(`simulation.cpp:2588`).

### KcpSessions

`sessions` maps a conversation to the address it last spoke from, `index` an
address to a conversation. `PollNew`, `PollMove` and `OpenSession` are the three
ways in which they change, `Close` forgets both and keeps the counter.

### Results, DemContainer, EventReports

`Results` has `mode_result_json` as the text it is: a field may stand in it more than
once, so it is a function from names to the sequences of values they are given. One
counter and one text field stand for each family of fields the code writes and
verifies alike. The server writes every field once (`Written`). The verifier lists
the names, without asking whether one comes twice, and compares the first value
(`ValueRead`). A result may be altered on its way (a field changed, dropped, added,
or given again before or behind its own value) and signed anew, since the
development signature takes no secret; the match goes on meanwhile. `DemContainer` records
operations into the chain, writes the document once, sends its chunks, and has the
reader (`Parses`) of `dem.cpp`. `EventReports` has both collectors: the host's drops
the newest row when it is full, the battle's the oldest. Digests, hashes and
signatures are injective: the value stands for its hash. For `EntryDigest` that goes
further than the code: `chain_log.cpp:52-59` joins the fields of an entry with `|` and
does not escape it, so entries whose ids contain one may share a digest, and the
`action_type`, which is among them, is left out of the model.

### Timeline

The slots of the rotation, the timelines of the catalog Bosses and the node
tables of the rewritten ones, with the tables' own numbers, each scaled by the
difficulty, and the stages of iron fist and black curtain. It follows one player,
with room for bullets and a Boss alive. `spell` may move at any frame.

## 3. What the runs show

| Run | Shows | Distinct states |
|---|---|---|
| `SimulationRaid` | two players, a transferable card, a Boss of two shots: no leaked reservation, no card given twice, and `BattleSimulation` implements `BossRaid` | 328,899 |
| `SimulationRoyale` | the fight always takes input, actions are queued up to two ticks ahead: silence is measured afresh and noticed, abandonment reported, reconnects resolved | 46,207 |
| `ServerMatch` | one match from configuration to retirement or cancellation, four tickets: a settled match is frozen, the roster is the sessions, locked before the fight, nobody joins a fight, status moves as `MatchLifecycle` says | 311,400 |
| `HostEnforced` | tickets enforced, lossy lobby: tickets pay once, the report of an abandoned match is kept and, while the process lives, delivered | 42,978 |
| `HostFallback` | tickets optional, a stranger, a tick limit: one lobby seed, one submission and replay exactly for a match played to its end | 10,027 |
| `HostedMatch` | a race under either ruleset or a co-op match: damage adds up, captures are earned, a held input plays nothing, the winner is fair, mercy is kept, a stalemate lasts; shared damage adds up, blocked seats deal nothing, the shower is bounded | 928,590 |
| `MatchEdges` | the ways in and out: one acceptance per number, addresses move while away, silence deafens the dispatcher, the index is true, only the truth settles, an accepted replay is the recorded one, reports in order, nothing scheduled is skipped | 276,421 |
| `SimulationReadyTwice`, `SimulationStaleInput`, `ServerStranded`, `HostFinalFlush`, `TimelineSameWave` | the code disagrees with its documents, see section 6 | violations |

**Bounds.** Players are two and named by numbers (the code's maps order them; a
symmetry set would be unsound). Two are enough for every relation between an
actor and a target, and `MinPlayers = MaxPlayers = 2` in the raid makes both
roster bounds bite; `ServerMatch` uses one and two so that a fight may start with
half of the room and the lock matters. `MaxSeq = 2` gives each player two
accepted packets: enough for an action and a conflicting second one.
Sequence numbers never wrap, so the bound only ends a player's speech; ticks,
drops and rejoins go on for ever. `InputAhead = 2` in `SimulationRoyale` lets two
actions of a player be queued for different ticks; in the raid it is 1, since
what the properties need is that queueing and applying are separate steps. Boss
health of two shots, or one card, has states hurt but alive. `InputTimeout = 2`
is the smallest value at which a silent tick is survived. `ServerMatch` sets it
to 0, because drops are already free there. Three conversations and two tickets
of one player suffice for a stolen, a repeated and a second ticket; a valid ticket of
somebody who is not on the roster tests the roster itself. `Silence`,
`Cooldown` and `Backoff` keep the order of the real values; the tick counter of the
host is counted only under a limit.

`HostedMatch`, race: one player is dealt a hand of four, one card of each kind, with a
finisher left in the deck, and may shoot and bomb at once, play the first card and
draw at once, or play one of the others; the other player holds the trigger. A Boss
of 3 with shots of 2 makes damage larger than what is left; three phases of one
point each and a finisher of two make one hit pass two phases. Two lives, one bomb,
`Mercy = 1`, a ward that ends sooner, one bullet and four ticks let a ship be hit,
be hit again when its mercy is over (or at once, when a new deal took it), and let
both ships be lost with a tick to follow. `MaxSeq = 1` still files an input ahead,
holds it afterwards and lets cards be dealt late. `Flaky = {p1}`: one of the two may
leave and return, which is enough for a race in which one is away; cards are dealt
to players whose tickets carry any, as the host does (`match_lifecycle.cpp:1289`).
Co-op: a crew of three with `MinSeats = 2` has a late
joiner; in a cycle of 4 shield and cannon overlap for a tick; a power of 2 against
one point for each seat is more than what is left; a shower cap of one fan.

`MatchEdges`: two players, one of whom may shake hands under two keys and has a
number for an input and one for anything else; `Jump = 1` makes one silent tick a
leap within `TopClock = 1`; two remotes. Three addresses, four conversations and
three sessions make an endpoint full while a counter starting at 2 meets numbers
in use and wraps. Results: two rosters, one of which holds a reserved word, the
three kinds of mode, two points of health and two ticks; every field may be
altered, dropped, added, or given twice with the forged value before or behind. Replays of three entries in chunks of two, one payload
too long to write. A collector of three rows, two to a batch, five rows and four
heard posts: it overflows, both before and after rows were put back. The timeline
runs 910 frames, past a black curtain and two rounds of the ten patterns (900),
at every difficulty. The parts share no state in the code, so a behaviour of the
run is one of the parts.

**Deadlock** is checked in the simulation runs, where a tick is always possible.
It is not in the others, where a retired or cancelled match and an ended process
really stop, a finished race takes nothing more, and the bounds on ticks and
numbers end a part.

**Fairness.** `BattleSimulation`: weak fairness of `Tick` and `TickAfterDefeat`,
since the host calls `Tick()` at a fixed rate. Clients, drops and rejoins owe
nothing. `MatchServer`: weak fairness of `Round`, main's loop; and strong
fairness of the round in which the lobby takes the row. The second is an
assumption about the lobby, not about this code: a POST that is repeated for ever
succeeds some time. What the code contributes, that the row is put back and
asked again, is what the liveness property tests. The other specifications have
no fairness, and no liveness property is checked of them.

## 4. What is proved

The theorems hold for every value of the constants that the modules' ASSUMEs
allow. All proofs of invariants have the same shape:
`Init => I`, `I /\ [Next]_vars => I'` from one lemma per group of actions, and a
temporal step. Nothing is assumed beyond the ASSUMEs. Every invariant and every
action property of the passing runs is proved.

`FiniteInduction`: the library states induction over a predicate that is a parameter,
which the provers cannot instantiate. Here the predicate is the set of the cases
where it holds: if one is missing there is a smallest one (`LeastElement`, and the
like for the subsets of a finite set), which a proof refutes. From this follow that
a recursive function over an interval or over subsets exists and obeys its
equation, that a sum over a finite set gains what an element of it gains, and the
results below about sums, chains and flattened sequences.

`BattleSimulation_proofs`:

* `TypeCorrect`: `TypeOK` is inductive as it stands. It says more than types:
  every queued item belongs to a registered player and only transfers carry a
  card, which is what makes the actors of a tick registered
  (`DueActorsRegistered`) and `ready` a subset of the roster. Boss health needs
  that damage is clamped (`DamageType`).
* `CustodyExclusive`: inductive relative to `TypeOK`. A queued transfer holds the
  reservation of its card, which bars a second one; in a tick the card either
  moves, and then stays reserved, or was in that transfer only, so freeing it
  strands nobody (`CustodyTick`).
* `ReservationsAlwaysBacked`: relative to `TypeOK`. A tick that removes the queued
  action of a reservation also removes the reservation or moves the card
  (`QueuedOrDue`, `ReservationsTick`).
* `SilenceFresh`: uses `TimeoutAssumption`. A timeout of one tick would drop
  players in the tick that starts the fight; the values in use are 0 and three
  seconds of ticks.
* `SimulationImplementsBossRaid`: each simulation step is a whole `Raid!Next` step,
  shown part by part. `ProgressStep` needs `SilenceIsFresh`: combat that begins
  because somebody shoots saw a complete room before the tick, and nobody is timed
  out in it because every count is still zero. `HandoverTick` needs
  `CustodyIsExclusive` and that a queued transfer goes between two registered
  players (`TransfersBetweenTwo`).

`BattleServer_proofs`:

* `SimulationTypesInServer`: the facade's steps are simulation steps, save the
  reconnect packet, which queues an action and rejoins at once and has a lemma
  of its own.
* `SettledStaysFrozen`, `ServerTypeCorrect`: inductive as they stand.
* `ServerImplementsLifecycle`: from `Books`, the strengthening that ties the maps
  together (an opened match has no pending configuration, a cancelled one has
  neither simulation nor result, one never opened has an untouched simulation).
* `RosterLockedInTime`: relative to `TypeOK` and `Books`. The one step without a
  lock update after it is registration, and a newcomer is not ready
  (`NewcomerNotReady`). `FightIsClosed` follows.
* `SessionsMatchRoster`: a ticket adds one session and one player.

`MatchServer_proofs`:

* `HostTypeCorrect`: needs that a serving process has rounds left.
* `ReportAlwaysKept`: a flush leaves a row with the lobby or in the collector,
  whatever its POST came to (`FlushKeepsTheRow`).
* `RecordIsLeft`: with "a finished race means the process has ended".
* `ConversationKept`, `OneSeed`: only `BindSession` touches these (`BindingSteps`).
* `TicketsPaidOnce`: from `Ledger`, which counts the conversations of a player
  against the tickets of theirs that were consumed; both grow together.

`CoopBoss_proofs`: what a co-op tick keeps; `HostedMatch_proofs` makes theorems of it.
The invariant is `CoopInv`: the types, no more seats than the limit, no damage
before the start, health plus the sum of the shares is full health, and
`ShowerIsBounded`.

* A tick hurts the Boss seat by seat, and a seat can take no more than the seats
  before it left. `HealthLeft` and `SharesGain` follow the recursive function of the
  model over the seats: what health loses in a tick, the shares together gain.
* `FansAreBounded` does the same for the volleys of a shower: the cap is tested
  before each fan, so it is passed by less than one fan.
* `ShieldedSeats` and `LockedSeat`: a seat behind the shield or under the cannon adds
  nothing to its share in that tick, whoever else fires.

`HostedMatch_proofs`:

* `HostedTypes`, `CoopIsSound`, `SharedDamageIsAccounted`, `TheShowerIsBounded`,
  `BlockedSeatsAreSilent`: the above, in a host that may hold a race instead.
* `RaceIsSound`: the inductive invariant `RaceInv`, of four parts. `RaceTypes`: what
  ranges over what, without the bullets. `HandsOK`: a hand is within its limit, of
  cards of the catalog, and energy in bounds. `BooksOK`: for every copy of the Boss
  health plus credit is full health, told plus owed is credit, and it is
  `Honest`. `Honest` is the strengthening captures need: the property counts the
  phases that ended, but a phase that is touched and goes on has cost a life
  already, so the count includes it (`Spoiled`). The fourth part is the winner.
* The Boss is hit by `Strike` or `Chip`, a hit on the ship touches the phase, a row
  tells what is owed; one lemma for each says it keeps the books (`StrikeHonest`, `ChipHonest`,
  `TouchHonest`, `TellHonest`), and `FightShape` cuts a tick into these pieces.
* `DamageIsAccounted`, `CapturesAreHonest`, `TheWinnerIsFair` and `HandsStayLegal`
  follow from `RaceInv`; `MercyAlwaysKept` and `StalemateStands` are action
  properties proved from it. Trying to prove the second corrected the property:
  in a stalemate a damage row that is still owed is told, so health stands still
  and not the whole record.
* `HeldInputsPlayNothing`: from `InputsPay`: the cards a player played and the
  inputs of theirs still filed are together no more than the numbers accepted.
  An input that is applied leaves the files, which is what pays for the card.

`MatchRecords_proofs`:

* `TheTruthSettles`: the server's own draft passes the verifier
  (`OwnResultVerifies`), and what passes names the fields of the snapshot and no other,
  with the snapshot's value as the first each is given (`VerifiedIsTruthful`). Texts
  that repeat a field are among those it speaks of, and it promises nothing about the
  further values: a reader that takes the last one may read another. The first holds only because the parts of a snapshot have
  names of their own (`PartsAreApart`); that no fixed field is a player's damage
  field and that different players have different ones is `NamesAssumption`, a fact
  about strings, which the provers do not know and TLC evaluates.
* `OnlyTheRecordedIsAccepted`: the inductive invariant `DemInv` ties what three places
  hold: the recorder's log is a chain that verifies and ends in its head, a finished
  document is that log under its header, and while the upload goes on the chunks at
  the lobby flatten to the beginning of the document that was sent. Two chains with
  one head have one body (`SameHeadSameBody`), because digests are taken as
  injective: the head in the header commits to every entry.
* `ReportsReachInOrder`: order alone is not inductive. The strengthening
  `WaitingWasHeard` says that a waiting row smaller than one the lobby heard was
  itself heard earlier: it waits again because an answer was lost. `PutBack` shows
  that rows taken and restored make the queue what it was.
* `DemTypes`, `ReportTypes`.

`MatchEdges_proofs`:

* `PacketTypeCorrect`; `NumbersAcceptedOnce`, relative to it: the dispatcher's number
  of a player grows with each acceptance, and a nonce or a simulation number is
  never ahead. `RemotesMoveWhileAway` and `SilentMatchIsDeaf` are about one step: an
  encrypted input must be in the simulation's window and within a jump of the
  dispatcher's clock, and the two have parted.
* `KcpTypeCorrect`, `IndexAlwaysTrue` (a session that moves takes its entry along,
  whoever else used the address) and `SessionsStayBounded`, by cardinality.
* `NothingIsSkipped`, from `TimelineInv`, for matches of any length (the run stops at
  frame 910). Its part `Kept` says that on every frame since a node fired last, or
  since its table came into use, the node was not due; of the frames of one scaled
  period one is due (`DueWithinAPeriod`), so the gap stays below a period.
  `EveryFrameFires` says it of the slots of the rotation, and `Clockwork` makes the
  stage of the two machines a function of the frame (`FistAt`, `CurtainAt`). The tables are those of the code, read as numbers (`Boss21Nodes` and
  its like); the rotation and the sway are arithmetic for every frame.
* `EachEdgeIsItself`: a step of `MatchEdges` is a step of one part, and the others
  stand still, so the theorems about the parts hold of the whole; `EdgesTypes`.

The proofs corrected the models in three places. In a stalemate a damage row that
is still owed is told, so `StalemateStands` speaks of health and not of the whole
record. `Timeline` chose between overlapping guards with CASE, which leaves the
choice open; it now uses IF, in the order of the code. And `NothingScheduledIsSkipped`
allowed a gap of a whole period, one frame more than the code needs.

Model-checked only: liveness, which is beyond the prover with its fairness and
`ENABLED`. These are `SilenceIsNoticed`, `AbandonmentIsReported`,
`ReconnectIsResolved` and `LobbyHearsOfAbandonment`.

## 5. What is not modelled

* **Motion.** Bullet motion (`bullet_motion.cpp`), the geometry of patterns, hit
  tests and grazing are floating-point, covered by the golden traces of
  `tools/danmaku_regression`. The models choose among all outcomes the code
  bounds. Loadout data (`player_loadout.cpp`) are numbers the constants stand for.
* **Codecs and ciphers.** Byte and JSON formats, HTTP, the cipher, hashes and
  signatures are pure functions; hashes and signatures are taken as injective.
* **Transport.** KCP itself is vendored (`ikcp.c`); sends and receives on a session
  have no state of this code.
* **Queries and bridges.** Snapshots, the read-only queries and the replay record
  bridge of the facade, the argument parser, logging, score and wording of rows.
* **Tools.** Trace and sheet tools, vendored code, generated protocol headers.
* **The second abandonment.** The host reports an abandoned match once for the
  life of the process (`match_lifecycle.cpp:1367`). A second abandonment after a
  return is not reported. The code states the latch as its intent, so no property
  is asked of it.
* **The host with its simulation inside.** `MatchServer` sees the simulation as
  waiting, running or finished; `HostedMatch` is the inside. Their product was not
  checked: the host looks at nothing else.

## 6. Disagreements met

* **Ready twice** (`SimulationReadyTwice`). `docs/architecture.md:52` says that
  the pending-ready slot keeps a player from queueing a second ready action. A
  drop clears the slot and leaves the queued action (`simulation.cpp:648`), so
  drop, rejoin and ready again queues two. Both are applied; readiness is a set,
  so the harm is a duplicate in the event stream.
* **Stale input** (`SimulationStaleInput`). The comment at `simulation.cpp:637`
  wants a rejoin from neutral input. The reconnect branch of
  `ApplyModeActionsForTick` (`:2588`) only sets `connected`, so the player comes
  back with the shoot button held. The facade's reconnect handler resets input
  itself, before the tick; the queued path through the simulation does not.
* **Stranded outcome** (`ServerStranded`). `docs/architecture.md:55` says an
  outcome cannot be stranded in a waiting-room state. A card cast in the waiting
  room deals its damage (`simulation.cpp:2425`); if it takes the last health,
  combat never starts and the result is blocked for ever.
* **Final flush** (`HostFinalFlush`). The comment at `match_lifecycle.cpp:1133`
  says that a finished match flushes every row left. That branch runs in the tick
  after the finishing one, and main leaves the loop before it (`main.cpp:292`).
* **Same wave** (`TimelineSameWave`). The comment at `pattern_timeline.cpp:60` says
  that the two rings of a pattern alternate. The default rotation
  (`boss_race.cpp:247`) takes pattern `wave_index % 10`; ten is even, so a pattern
  comes back at slots of one parity and always fires the same wave. Under the
  catalog Bosses the waves do alternate.

Met while modelling, stated here without a run of their own; each is what the
models do:

* `boss_race.hpp:265-267` says that the spell counters grow only under the
  judging ruleset; card damage under "classic" moves phases and grows them too.
* `coop_boss.cpp:211-212` says that the shields never block everybody; together
  with the cannon they can.
* The shower exceeds `kCoopMaxBullets` by a volley less one (`coop_boss.cpp:334`).
* A held bomb button drops a bomb in every tick it may. A ward can shorten the
  protection of a hit, and a new deal ends it.
* A disconnected player's due input is lost, and inputs filed for ticks that pass
  while the race waits stay filed.
* A match silent for more than 600 ticks is deaf to connected players until a
  ping or a reconnect (`protocol.cpp:358`). A new handshake changes the key and
  lets the session bind anew, while the numbers go on.
* `OpenSession` may hand out a client's session, when the client chose the number
  the server's counter arrives at (`kcp_server_endpoint.cpp:144`).
* A replay does not hold card draws, selections, hands or connections, so it is a
  record of the operations and cannot replay the match. One payload over the limit
  makes the whole document unwritable. A failed chunk is not sent again.
* The seed text may be empty for `SeedHand` and not for the ticket verifier.
  `config_.now_ms` is fixed when the server starts, so tickets do not expire while
  it runs (`server.cpp:545`).
* A result text may give a field more than once. The verifier compares the first value
  (`result.cpp:63-91`) and lists names without asking whether they are unique
  (`result.cpp:217-278`), so it accepts a signed text that says the match's value first
  and another behind it. `docs/architecture.md:74` has `SubmitBattleResult` bind the Boss
  fields to the final snapshot: that holds for a reader of first values, which is what
  `OnlyTheTruthSettles` says and no more. No reader of the text other than the
  verifier is in this repository.
* The result verifier takes any value for a text field that the match leaves empty
  (`result.cpp:496`), and refuses an honest result whose ids contain a reserved
  word (`result.cpp:567-586`): such a match is never settled. The settlement time
  and the public key are not compared with anything.
* A player whose id is `total` shares the snapshot field `boss_damage_total` with the
  sum of all damage (`simulation.cpp:1302` and `:1330`). The model has no total;
  `NamesAssumption` is about the fields it has.
* A full host collector drops the abandonment row although the latch says that it
  was made.

## 7. Plan

What is left, in the order of its worth:

1. `MatchServer` with `HostedMatch` inside, on an instance of its own: the finish of
   a race, the last flush and the submission in one state space.
2. Liveness of a hosted race: with weak fairness of `Tick` and a player who keeps
   shooting, a race that is not in a stalemate ends; needs tick bounds that do not
   cut behaviours.
3. An abstract race ("the first health at zero wins, once") refined by `BossRace`.
4. `Packets` in front of `BattleServer`, instead of its reduced simulation.
