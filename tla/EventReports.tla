----------------------------- MODULE EventReports -----------------------------
(***************************************************************************)
(* Rows for the lobby: hits, card casts, an abandoned match.  They wait in *)
(* a bounded collector and are posted in batches.  Two collectors do this: *)
(* "host", of a race or co-op simulation, flushed by MatchServer every few *)
(* ticks (src/src/boss_race.cpp, coop_boss.cpp, match_lifecycle.cpp), and  *)
(* "battle", of a BattleSimulation, flushed by whoever calls               *)
(* SubmitCardEvents (src/src/simulation.cpp, server.cpp).                  *)
(*                                                                         *)
(* A row is its number.  Taking rows, posting them and putting them back   *)
(* is one call of one thread, so no row is pushed meanwhile.               *)
(***************************************************************************)
EXTENDS Integers, Sequences

CONSTANTS
  Collectors,   \* "host", "battle", or both
  RowLimit,     \* kCardCastEventRowLimit
  PerSubmit,    \* kMaxBattleEventsPerSubmit
  Cooldown,     \* kEventsFlushCooldownTicks
  Backoff,      \* kEventsFlushFailureBackoff
  MaxRows,      \* bound on the rows made
  MaxPosts      \* bound on the posts that reach the lobby

ASSUME ReportAssumption ==
  /\ Collectors \subseteq {"host", "battle"}
  /\ {RowLimit, PerSubmit, Cooldown, Backoff} \subseteq Nat \ {0}
  /\ {MaxRows, MaxPosts} \subseteq Nat

VARIABLES
  collector,   \* which of the two
  rows,        \* events_, card_cast_events_
  made,        \* rows made so far
  dropped,     \* rows the full collector lost
  heard,       \* rows the lobby received, in the order it did
  posts,       \* posts it received
  wait,        \* ticks to next_events_flush_tick_
  flushed      \* the forced flush at the end of the match was made

reportVars == <<collector, rows, made, dropped, heard, posts, wait, flushed>>

ReportInit ==
  /\ collector \in Collectors
  /\ rows = << >> /\ made = 0 /\ dropped = {}
  /\ heard = << >> /\ posts = 0
  /\ wait = 0 /\ flushed = FALSE

-----------------------------------------------------------------------------
Full == Len(rows) >= RowLimit

(* BossRaceSimulation::PushEvent and CoopBossSimulation::PushEvent turn    *)
(* the new row away.                                                       *)
PushEvent ==
  /\ collector = "host"
  /\ rows' = IF Full THEN rows ELSE Append(rows, made + 1)
  /\ dropped' = IF Full THEN dropped \cup {made + 1} ELSE dropped

(* BattleSimulation::PushCardCastEvent drops the oldest one.               *)
PushCardCastEvent ==
  /\ collector = "battle"
  /\ rows' = IF Full THEN Append(Tail(rows), made + 1) ELSE Append(rows, made + 1)
  /\ dropped' = IF Full THEN dropped \cup {Head(rows)} ELSE dropped

RowHappens ==
  /\ made < MaxRows /\ ~flushed
  /\ PushEvent \/ PushCardCastEvent
  /\ made' = made + 1
  /\ UNCHANGED <<collector, heard, posts, wait, flushed>>

-----------------------------------------------------------------------------
Batch == IF Len(rows) < PerSubmit THEN Len(rows) ELSE PerSubmit

TakeEvents == SubSeq(rows, 1, Batch)
Left == SubSeq(rows, Batch + 1, Len(rows))

RestoreBehind(taken) ==   \* mutant: the rows go to the end of the queue
  Left \o taken

RestoreEvents(taken) == taken \o Left

RestoreCardCastEvents(taken) ==
  LET all == taken \o Left
      over == IF Len(all) > RowLimit THEN Len(all) - RowLimit ELSE 0
  IN SubSeq(all, over + 1, Len(all))

Restored(taken) == IF collector = "host" THEN RestoreEvents(taken) ELSE RestoreCardCastEvents(taken)

(* "ok": a 2xx answer.  "lost": the lobby took the rows, the answer got    *)
(* lost.  "failed": it never had them, or there is no endpoint.            *)
Post(answer) ==
  /\ rows # << >>
  /\ answer # "failed" => posts < MaxPosts
  /\ rows' = IF answer = "ok" THEN Left ELSE Restored(TakeEvents)
  /\ heard' = IF answer = "failed" THEN heard ELSE heard \o TakeEvents
  /\ posts' = IF answer = "failed" THEN posts ELSE posts + 1
  /\ UNCHANGED <<collector, made, dropped>>

SubmitCardEvents(answer) ==
  /\ collector = "battle"
  /\ Post(answer)
  /\ UNCHANGED <<wait, flushed>>

(* A tick of the host, or with force its last one.                         *)
FlushEventsIfNeeded(answer, force) ==
  /\ collector = "host" /\ ~flushed
  /\ flushed' = force
  /\ IF wait > 1 /\ ~force
     THEN wait' = wait - 1 /\ UNCHANGED <<collector, rows, made, dropped, heard, posts>>
     ELSE \/ /\ Post(answer)
             /\ wait' = IF answer = "ok" THEN Cooldown ELSE Cooldown * Backoff
          \/ /\ rows = << >>
             /\ wait' = IF force THEN wait ELSE Cooldown
             /\ UNCHANGED <<collector, rows, made, dropped, heard, posts>>

ReportNext ==
  \/ RowHappens
  \/ \E answer \in {"ok", "lost", "failed"} :
       SubmitCardEvents(answer) \/ \E force \in BOOLEAN : FlushEventsIfNeeded(answer, force)

ReportSpec == ReportInit /\ [][ReportNext]_reportVars
-----------------------------------------------------------------------------
ReportTypeOK ==
  /\ collector \in Collectors /\ made \in 0..MaxRows /\ posts \in 0..MaxPosts
  /\ rows \in Seq(1..made) /\ heard \in Seq(1..made) /\ dropped \subseteq 1..made
  /\ wait \in 0..(Cooldown * Backoff) /\ flushed \in BOOLEAN

Members(s) == {s[i] : i \in 1..Len(s)}

QueueInOrder == \A i, j \in 1..Len(rows) : i < j => rows[i] < rows[j]

NothingVanishes == 1..made = Members(rows) \cup Members(heard) \cup dropped

(* A row the lobby hears after a younger one is a row it hears again.      *)
HeardInOrder ==
  \A i, j \in 1..Len(heard) :
    i < j /\ heard[i] > heard[j] => \E k \in 1..(i - 1) : heard[k] = heard[j]

(* Failed posts and lost answers reorder nothing: the lobby hears the rows *)
(* in the order they were made, apart from repetitions, a row is never     *)
(* lost but to a full collector, and the collector stays bounded though    *)
(* rows are put back into it.                                              *)
ReportsInOrder == QueueInOrder /\ HeardInOrder /\ NothingVanishes /\ Len(rows) <= RowLimit
=============================================================================
