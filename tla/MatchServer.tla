----------------------------- MODULE MatchServer -----------------------------
(***************************************************************************)
(* The process that hosts one race or co-op match: MatchServer of          *)
(* src/src/match_lifecycle.cpp inside the main loop of                     *)
(* src/apps/phk_battle_server/main.cpp.  One thread alternates between     *)
(* delivering KCP messages and AdvanceTick(), so a message is one step and *)
(* a tick with the exit test that follows it is one step.                  *)
(*                                                                         *)
(* The simulation is reduced to what the host looks at: whether it waits,  *)
(* runs or is finished, and whether it takes an input.  The only row the   *)
(* host puts in the event collector is the one that reports an abandoned   *)
(* match, so the collector holds it or is empty.                           *)
(***************************************************************************)
EXTENDS Integers, FiniteSets

CONSTANTS
  Seats,             \* config.player_ids
  Strangers,         \* other player ids a message may carry
  Convs,             \* KCP conversations
  Tickets,           \* signed tickets in circulation
  Requirement,       \* config.require_ticket: "off", "warn", "on"
  Coop,              \* coop_mode_: tickets deal no cards
  LobbyConfigured,   \* config.lobby_endpoint is not empty
  SubmitEnabled,     \* config.submit_result
  Outcomes,          \* what a POST to the lobby may come to
  Silence,           \* ticks of kPlayerDisconnectSilenceSeconds
  Cooldown,          \* kEventsFlushCooldownTicks
  Backoff,           \* kEventsFlushFailureBackoff
  MaxTicks,          \* config.max_ticks, 0 when unlimited
  MinPlayers         \* kBossRaceMinPlayers, kCoopMinPlayers

Nobody == "nobody"
NoTicket == [id |-> 0, player |-> Nobody, genuine |-> FALSE, cards |-> FALSE, seed |-> 0]
Never == -1

(* "failed": the lobby did not take it.  "lost": it did, and the answer    *)
(* did not come back in time, which the host cannot tell from "failed".    *)
ASSUME OutcomesAssumption == Outcomes \subseteq {"ok", "failed", "lost"}
ASSUME NamesAssumption == Seats # {} /\ IsFiniteSet(Seats) /\ Nobody \notin Seats \cup Strangers
(* genuine: verified, and issued for this match; seed 0: the ticket has no *)
(* lobby seed.                                                             *)
ASSUME TicketAssumption ==
  Tickets \subseteq [id : Nat \ {0}, player : Seats \cup Strangers,
                     genuine : BOOLEAN, cards : BOOLEAN, seed : Nat]
ASSUME TimingAssumption ==
  /\ Silence \in Nat \ {0} /\ Cooldown \in Nat \ {0} /\ Backoff \in Nat \ {0}
  /\ MaxTicks \in Nat /\ MinPlayers \in Nat
ASSUME ConfigAssumption ==
  /\ Requirement \in {"off", "warn", "on"}
  /\ {Coop, LobbyConfigured, SubmitEnabled} \subseteq BOOLEAN

VARIABLES
  process,      \* "serving", or how it ended: "result", "timeout", "signal"
  race,         \* State(): "waiting", "running", "finished"
  ticks,        \* main's loop counter, kept only under max_ticks
  playerOf,     \* player_by_conv_
  consumed,     \* consumed_ticket_ids_
  dealt,        \* tickets whose cards were dealt by SeedHand
  lobbySeed,    \* card_purge_seed_, 0 when unset
  quiet,        \* ticks since last_input_tick_, up to Silence; Never
  reported,     \* all_players_disconnected_emitted_
  collected,    \* the row is in the collector
  told,         \* the lobby has the row
  cooldown,     \* ticks to next_events_flush_tick_
  submission,   \* last_submission_, "none" until result_submitted_
  replay        \* what became of the .dem, "none" until dem_written_

bindingVars == <<playerOf, consumed, dealt, lobbySeed>>
lobbyVars == <<reported, collected, told, cooldown, submission, replay>>
vars == <<process, race, ticks, bindingVars, quiet, lobbyVars>>

HostTypeOK ==
  /\ process \in {"serving", "result", "timeout", "signal"}
  /\ race \in {"waiting", "running", "finished"}
  /\ ticks \in 0..MaxTicks
  /\ playerOf \in [Convs -> Seats \cup {Nobody}]
  /\ consumed \subseteq {t.id : t \in Tickets}
  /\ dealt \subseteq Tickets
  /\ lobbySeed \in {t.seed : t \in Tickets} \cup {0}
  /\ quiet \in [Seats -> 0..Silence \cup {Never}]
  /\ {reported, collected, told} \subseteq BOOLEAN
  /\ cooldown \in 0..(Cooldown * Backoff)
  /\ submission \in {"none", "ok", "failed"}
  /\ replay \in {"none", "broken", "local", "uploaded"}

Init ==
  /\ process = "serving"
  /\ race = "waiting"
  /\ ticks = 0
  /\ playerOf = [c \in Convs |-> Nobody]
  /\ consumed = {}
  /\ dealt = {}
  /\ lobbySeed = 0
  /\ quiet = [p \in Seats |-> Never]
  /\ reported = FALSE
  /\ collected = FALSE
  /\ told = FALSE
  /\ cooldown = 0
  /\ submission = "none"
  /\ replay = "none"

-----------------------------------------------------------------------------
(* Messages: a conversation is bound to the player of its first message.   *)

AcceptableReplayed(t, p) ==   \* mutant: consumed_ticket_ids_ is not consulted
  t.genuine /\ t.player = p

Acceptable(t, p) == t.genuine /\ t.player = p /\ t.id \notin consumed

BindAnybody(c, p) ==   \* mutant: a valid ticket is enough, the roster is not consulted
  playerOf' = [playerOf EXCEPT ![c] = p]

BindPlayerByRoster(c, p) ==
  /\ p \in Seats
  /\ playerOf' = [playerOf EXCEPT ![c] = p]

SeedAlways(t) ==   \* mutant: a second lobby seed replaces the first
  /\ dealt' = dealt \cup {t}
  /\ lobbySeed' = IF t.seed = 0 THEN lobbySeed ELSE t.seed

(* Every hand of the match is dealt under one lobby seed; a ticket with    *)
(* another one is consumed all the same and deals nothing.                 *)
SeedHand(t) ==
  IF t.seed # 0 /\ lobbySeed \notin {0, t.seed} THEN UNCHANGED <<dealt, lobbySeed>>
  ELSE /\ dealt' = dealt \cup {t}
       /\ lobbySeed' = IF t.seed = 0 THEN lobbySeed ELSE t.seed

(* Without an acceptable ticket "off" and "warn" fall back on the roster.  *)
BindSession(c, p, t) ==
  /\ BindPlayerByRoster(c, p)
  /\ IF Requirement # "off" /\ Acceptable(t, p)
     THEN /\ consumed' = consumed \cup {t.id}
          /\ IF t.cards /\ ~Coop THEN SeedHand(t) ELSE UNCHANGED <<dealt, lobbySeed>>
     ELSE Requirement # "on" /\ UNCHANGED <<consumed, dealt, lobbySeed>>

SpeakerUnchecked(c, p, t) ==   \* mutant: every message may bind its conversation
  BindSession(c, p, t)

Speaker(c, p, t) ==
  IF playerOf[c] = Nobody THEN BindSession(c, p, t)
  ELSE playerOf[c] = p /\ UNCHANGED bindingVars

(* timely: fresh sequence number, and a tick 1 to 8 ahead.                 *)
SubmitInput(p, timely) ==
  quiet' = IF timely /\ race # "finished" THEN [quiet EXCEPT ![p] = 0] ELSE quiet

HandleSessionPayload(c, p, t, timely) ==
  /\ process = "serving"
  /\ Speaker(c, p, t)
  /\ SubmitInput(p, timely)
  /\ UNCHANGED <<process, race, ticks, lobbyVars>>

-----------------------------------------------------------------------------
(* Talking to the lobby.                                                   *)

Waited == IF cooldown > 0 THEN cooldown - 1 ELSE 0

KeepRow(row, wait) ==
  /\ collected' = row
  /\ cooldown' = wait
  /\ UNCHANGED told

PostAndForget(o) ==   \* mutant: the rows of a failed POST are not restored
  /\ collected' = FALSE
  /\ told' = (told \/ o \in {"ok", "lost"})
  /\ cooldown' = IF o = "ok" THEN Cooldown ELSE Cooldown * Backoff

(* TakeEvents, the POST, and RestoreEvents unless it succeeded.            *)
PostRow(o) ==
  /\ collected' = (o # "ok")
  /\ told' = (told \/ o \in {"ok", "lost"})
  /\ cooldown' = IF o = "ok" THEN Cooldown ELSE Cooldown * Backoff

FlushEventsIfNeeded(row, force, wait) ==
  IF ~LobbyConfigured \/ (~force /\ wait > 0) THEN KeepRow(row, wait)
  ELSE IF row THEN \E o \in Outcomes : PostRow(o)
  ELSE KeepRow(FALSE, IF force THEN wait ELSE Cooldown)

Submit ==
  IF SubmitEnabled /\ LobbyConfigured
  THEN \E o \in Outcomes : submission' = IF o = "ok" THEN "ok" ELSE "failed"
  ELSE submission' = "ok"

(* Finalising, writing and uploading may each fail; none is tried again.   *)
WriteAndUploadDem == replay' \in {"broken", "local", "uploaded"}

DemOfASubmittedResult ==   \* mutant: no replay for a result the lobby did not take
  IF submission' = "ok" THEN replay' \in {"broken", "local", "uploaded"} ELSE UNCHANGED replay

SubmitAfterSuccess ==   \* mutant: the replay waits for a successful submission
  IF submission # "none" \/ race' # "finished" THEN UNCHANGED <<submission, replay>>
  ELSE Submit /\ DemOfASubmittedResult

SubmitResultIfNeeded ==
  IF submission # "none" \/ race' # "finished" THEN UNCHANGED <<submission, replay>>
  ELSE Submit /\ WriteAndUploadDem

-----------------------------------------------------------------------------
(* The tick and the main loop.                                             *)

QuietAfter(p) ==
  IF quiet[p] = Never THEN Never
  ELSE IF quiet[p] < Silence THEN quiet[p] + 1 ELSE Silence

SilentOnly == \A p \in Seats : quiet'[p] = Silence   \* mutant: an empty seat is waited for

(* Somebody played, and nobody does any more: a seat that was never taken  *)
(* counts as left.                                                         *)
AllPlayersDisconnected ==
  /\ \E p \in Seats : quiet'[p] # Never
  /\ \A p \in Seats : quiet'[p] \in {Never, Silence}

SimulationTick ==
  /\ race' \in IF race = "waiting" /\ Cardinality(Seats) < MinPlayers
               THEN {"waiting"} ELSE {"running", "finished"}
  /\ quiet' = [p \in Seats |-> QuietAfter(p)]

AdvanceTick ==
  IF race = "finished"
  THEN /\ FlushEventsIfNeeded(collected, TRUE, cooldown)
       /\ SubmitResultIfNeeded
       /\ UNCHANGED <<race, quiet, reported>>
  ELSE /\ SimulationTick
       /\ reported' = (reported \/ AllPlayersDisconnected)
       /\ FlushEventsIfNeeded(collected \/ (reported' /\ ~reported), FALSE, Waited)
       /\ SubmitResultIfNeeded

(* One round of main's loop: the process ends in the round that finishes   *)
(* the match, or in the last round it is allowed.                          *)
Round ==
  /\ process = "serving"
  /\ AdvanceTick
  /\ ticks' = IF MaxTicks = 0 THEN 0 ELSE ticks + 1
  /\ process' = IF race' = "finished" THEN "result"
                ELSE IF MaxTicks # 0 /\ ticks' >= MaxTicks THEN "timeout"
                ELSE "serving"
  /\ UNCHANGED bindingVars

HandleSignal ==
  /\ process = "serving"
  /\ process' = "signal"
  /\ UNCHANGED <<race, ticks, bindingVars, quiet, lobbyVars>>

Messages ==
  \E c \in Convs, p \in Seats \cup Strangers, t \in Tickets \cup {NoTicket}, timely \in BOOLEAN :
    HandleSessionPayload(c, p, t, timely)

Next == Messages \/ Round \/ HandleSignal

(* The loop keeps going, and a lobby that is asked again and again takes   *)
(* the row some time.                                                      *)
RowTaken == Round /\ collected /\ ~collected'

Fairness == WF_vars(Round) /\ SF_vars(RowTaken)

Spec == Init /\ [][Next]_vars /\ Fairness

-----------------------------------------------------------------------------
(* Properties.                                                             *)

(* The report of an abandoned match is never dropped by a failed, late or  *)
(* postponed POST: it is at the lobby or still in the collector.           *)
ReportIsKept == reported => collected \/ told

(* Where tickets are enforced every conversation of a player was paid for  *)
(* with a ticket of that player, and every hand with a ticket of its own.  *)
TicketsPayOnce ==
  Requirement = "on" =>
    /\ \A p \in Seats :
         Cardinality({c \in Convs : playerOf[c] = p}) <=
           Cardinality({id \in consumed : \E t \in Tickets : t.id = id /\ t.player = p})
    /\ \A t, u \in dealt : t.id = u.id => t = u

(* All hands of a match were dealt under the same lobby seed.              *)
OneLobbySeed == \A t \in dealt : t.seed \in {0, lobbySeed}

(* However the POST of the result ended, a match that was played to its    *)
(* end has made its one submission and its one replay before the process   *)
(* goes away, and no other match has.                                      *)
FinishedMatchLeavesItsRecord ==
  /\ submission # "none" <=> process = "result"
  /\ replay # "none" <=> process = "result"

(* A conversation speaks for one player as long as the process lives.      *)
ConversationKeepsItsPlayer ==
  [][\A c \in Convs : playerOf[c] # Nobody => playerOf'[c] = playerOf[c]]_vars

(* If the last active player falls silent for good, the lobby is told, as  *)
(* long as the process lives.                                              *)
LobbyHearsOfAbandonment ==
  (\E p \in Seats : quiet[p] # Never)
    ~> (told \/ process # "serving" \/ ~LobbyConfigured \/ \E p \in Seats : quiet[p] = 0)

(* The comment at match_lifecycle.cpp:1133: when the match ends the rows   *)
(* left in the collector are all sent.                                     *)
NothingLeftAtTheEnd == process = "result" => ~collected
=============================================================================
