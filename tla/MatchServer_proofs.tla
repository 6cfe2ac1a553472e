--------------------------- MODULE MatchServer_proofs ---------------------------
(***************************************************************************)
(* What holds of the match host for every set of seats, conversations and  *)
(* tickets, every timing, and whatever the lobby answers.                  *)
(***************************************************************************)
EXTENDS MatchServer, FiniteSetTheorems, TLAPS

-----------------------------------------------------------------------------
(* Types.                                                                  *)

LEMMA BindType ==
  ASSUME HostTypeOK, NEW c \in Convs, NEW p \in Seats \cup Strangers, NEW t \in Tickets \cup {NoTicket},
         Speaker(c, p, t)
  PROVE  /\ playerOf' \in [Convs -> Seats \cup {Nobody}]
         /\ consumed' \subseteq {u.id : u \in Tickets}
         /\ dealt' \subseteq Tickets
         /\ lobbySeed' \in {u.seed : u \in Tickets} \cup {0}
<1>1. Acceptable(t, p) => t \in Tickets
  BY DEF Acceptable, NoTicket
<1>2. CASE UNCHANGED bindingVars
  BY <1>2 DEF bindingVars, HostTypeOK
<1>3. CASE BindSession(c, p, t)
  <2>1. playerOf' \in [Convs -> Seats \cup {Nobody}]
    BY <1>3 DEF BindSession, BindPlayerByRoster, HostTypeOK
  <2> QED  BY <1>1, <1>3, <2>1 DEF BindSession, SeedHand, HostTypeOK
<1> QED  BY <1>2, <1>3 DEF Speaker

LEMMA FlushType ==
  ASSUME HostTypeOK, NEW row \in BOOLEAN, NEW force \in BOOLEAN, NEW wait \in 0..(Cooldown * Backoff),
         FlushEventsIfNeeded(row, force, wait)
  PROVE  {collected', told'} \subseteq BOOLEAN /\ cooldown' \in 0..(Cooldown * Backoff)
<1>1. Cooldown * Backoff \in Nat /\ Cooldown \in 0..(Cooldown * Backoff)
  BY TimingAssumption
<1>2. Cooldown * Backoff \in 0..(Cooldown * Backoff)
  BY <1>1
<1> DEFINE longest == Cooldown * Backoff
<1>3. longest = Cooldown * Backoff
  OBVIOUS
<1> HIDE DEF longest
<1>4. ASSUME NEW o \in Outcomes, PostRow(o)
      PROVE  {collected', told'} \subseteq BOOLEAN /\ cooldown' \in 0..longest
  BY <1>1, <1>2, <1>3, <1>4 DEF PostRow, HostTypeOK
<1>5. ASSUME NEW kept \in BOOLEAN, NEW later \in 0..longest, KeepRow(kept, later)
      PROVE  {collected', told'} \subseteq BOOLEAN /\ cooldown' \in 0..longest
  BY <1>5 DEF KeepRow, HostTypeOK
<1> QED  BY <1>1, <1>3, <1>4, <1>5 DEF FlushEventsIfNeeded

(* A process that still serves has rounds left.                            *)
RoundsLeft == process = "serving" /\ MaxTicks # 0 => ticks < MaxTicks

LEMMA SubmissionType ==
  ASSUME HostTypeOK, SubmitResultIfNeeded
  PROVE  submission' \in {"none", "ok", "failed"} /\ replay' \in {"none", "broken", "local", "uploaded"}
BY DEF SubmitResultIfNeeded, Submit, WriteAndUploadDem, HostTypeOK

LEMMA AdvanceType ==
  ASSUME HostTypeOK, AdvanceTick
  PROVE  /\ race' \in {"waiting", "running", "finished"}
         /\ quiet' \in [Seats -> 0..Silence \cup {Never}]
         /\ {reported', collected', told'} \subseteq BOOLEAN
         /\ cooldown' \in 0..(Cooldown * Backoff)
         /\ submission' \in {"none", "ok", "failed"}
         /\ replay' \in {"none", "broken", "local", "uploaded"}
<1>1. SubmitResultIfNeeded
  BY DEF AdvanceTick
<1>2. CASE race = "finished"
  <2>1. FlushEventsIfNeeded(collected, TRUE, cooldown) /\ UNCHANGED <<race, quiet, reported>>
    BY <1>2 DEF AdvanceTick
  <2>2. {collected', told'} \subseteq BOOLEAN /\ cooldown' \in 0..(Cooldown * Backoff)
    BY <2>1, FlushType DEF HostTypeOK
  <2> QED  BY <1>1, <2>1, <2>2, SubmissionType DEF HostTypeOK
<1>3. CASE race # "finished"
  <2>1. /\ SimulationTick
        /\ reported' = (reported \/ AllPlayersDisconnected)
        /\ FlushEventsIfNeeded(collected \/ (reported' /\ ~reported), FALSE, Waited)
    BY <1>3 DEF AdvanceTick
  <2>2. Waited \in 0..(Cooldown * Backoff)
    <3> DEFINE longest == Cooldown * Backoff
    <3>1. longest \in Nat /\ cooldown \in 0..longest
      BY TimingAssumption DEF HostTypeOK
    <3> HIDE DEF longest
    <3>2. Waited \in 0..longest
      BY <3>1 DEF Waited
    <3> QED  BY <3>2 DEF longest
  <2>3. reported' \in BOOLEAN
    BY <2>1 DEF HostTypeOK, AllPlayersDisconnected
  <2>4. {collected', told'} \subseteq BOOLEAN /\ cooldown' \in 0..(Cooldown * Backoff)
    <3> DEFINE row == collected \/ (reported' /\ ~reported)
    <3>1. row \in BOOLEAN
      OBVIOUS
    <3> HIDE DEF row
    <3>2. FlushEventsIfNeeded(row, FALSE, Waited)
      BY <2>1 DEF row
    <3> QED  BY <2>2, <3>1, <3>2, FlushType
  <2>5. quiet' \in [Seats -> 0..Silence \cup {Never}]
    BY <2>1, TimingAssumption DEF SimulationTick, QuietAfter, Never, HostTypeOK
  <2>6. race' \in {"waiting", "running", "finished"}
    BY <2>1 DEF SimulationTick
  <2> QED  BY <1>1, <2>3, <2>4, <2>5, <2>6, SubmissionType
<1> QED  BY <1>2, <1>3

LEMMA RoundType ==
  ASSUME HostTypeOK, RoundsLeft, Round
  PROVE  HostTypeOK' /\ RoundsLeft'
<1>1. ticks' \in 0..MaxTicks /\ RoundsLeft'
  BY TimingAssumption DEF Round, RoundsLeft, HostTypeOK
<1>2. process' \in {"serving", "result", "timeout", "signal"} /\ AdvanceTick /\ UNCHANGED bindingVars
  BY DEF Round
<1> QED  BY <1>1, <1>2, AdvanceType DEF HostTypeOK, bindingVars

LEMMA HostTypeStep == HostTypeOK /\ RoundsLeft /\ [Next]_vars => HostTypeOK' /\ RoundsLeft'
<1> SUFFICES ASSUME HostTypeOK, RoundsLeft, [Next]_vars PROVE HostTypeOK' /\ RoundsLeft'
  OBVIOUS
<1>1. ASSUME NEW c \in Convs, NEW p \in Seats \cup Strangers, NEW t \in Tickets \cup {NoTicket},
             NEW timely \in BOOLEAN, HandleSessionPayload(c, p, t, timely)
      PROVE  HostTypeOK' /\ RoundsLeft'
  <2>1. quiet' \in [Seats -> 0..Silence \cup {Never}]
    <3>1. 0 \in 0..Silence
      BY TimingAssumption
    <3>2. quiet' = quiet \/ quiet' = [quiet EXCEPT ![p] = 0]
      BY <1>1 DEF HandleSessionPayload, SubmitInput
    <3> QED  BY <3>1, <3>2 DEF HostTypeOK
  <2>2. Speaker(c, p, t) /\ UNCHANGED <<process, race, ticks, lobbyVars>>
    BY <1>1 DEF HandleSessionPayload
  <2> QED  BY <2>1, <2>2, BindType DEF HostTypeOK, RoundsLeft, lobbyVars
<1>2. CASE Round
  BY <1>2, RoundType
<1>3. CASE HandleSignal
  BY <1>3 DEF HandleSignal, bindingVars, lobbyVars, HostTypeOK, RoundsLeft
<1>4. CASE UNCHANGED vars
  BY <1>4 DEF vars, bindingVars, lobbyVars, HostTypeOK, RoundsLeft
<1> QED  BY <1>1, <1>2, <1>3, <1>4 DEF Next, Messages

(* The host's state stays well formed: silence is counted no further than  *)
(* the limit, and the flush waits no longer than the back-off.             *)
THEOREM HostTypeCorrect == Spec => []HostTypeOK
<1>1. Init => HostTypeOK /\ RoundsLeft
  <2> DEFINE longest == Cooldown * Backoff
  <2>1. longest \in Nat
    BY TimingAssumption
  <2> HIDE DEF longest
  <2>2. 0 \in 0..longest
    BY <2>1
  <2>3. 0 \in 0..(Cooldown * Backoff)
    BY <2>2 DEF longest
  <2>4. 0 \in 0..MaxTicks /\ (MaxTicks # 0 => 0 < MaxTicks)
    BY TimingAssumption
  <2>5. ASSUME Init
        PROVE  /\ playerOf \in [Convs -> Seats \cup {Nobody}]
               /\ quiet \in [Seats -> 0..Silence \cup {Never}]
               /\ consumed \subseteq {t.id : t \in Tickets}
    BY <2>5 DEF Init
  <2> QED  BY <2>3, <2>4, <2>5 DEF Init, HostTypeOK, RoundsLeft
<1> QED  BY <1>1, HostTypeStep, PTL DEF Spec

-----------------------------------------------------------------------------
(* The report of an abandoned match.                                       *)

(* A row that is to be sent is with the lobby or in the collector after    *)
(* the flush, whatever came of the POST.                                   *)
LEMMA FlushKeepsTheRow ==
  ASSUME NEW row \in BOOLEAN, NEW force, NEW wait, FlushEventsIfNeeded(row, force, wait), row \/ told
  PROVE  collected' \/ told'
<1>1. ASSUME NEW o \in Outcomes, PostRow(o)
      PROVE  collected' \/ told'
  BY <1>1 DEF PostRow
<1>2. ASSUME NEW later, KeepRow(row, later)
      PROVE  collected' \/ told'
  BY <1>2 DEF KeepRow
<1>3. CASE ~row
  BY <1>2, <1>3 DEF FlushEventsIfNeeded, KeepRow
<1>4. CASE row
  BY <1>1, <1>2, <1>4 DEF FlushEventsIfNeeded
<1> QED  BY <1>3, <1>4

LEMMA ReportStep == HostTypeOK /\ ReportIsKept /\ [Next]_vars => ReportIsKept'
<1> SUFFICES ASSUME HostTypeOK, ReportIsKept, [Next]_vars PROVE ReportIsKept'
  OBVIOUS
<1>1. ASSUME Round, reported'
      PROVE  collected' \/ told'
  <2>1. AdvanceTick
    BY <1>1 DEF Round
  <2>2. CASE race = "finished"
    <3>1. FlushEventsIfNeeded(collected, TRUE, cooldown) /\ reported
      BY <1>1, <2>1, <2>2 DEF AdvanceTick
    <3> QED  BY <3>1, FlushKeepsTheRow DEF ReportIsKept, HostTypeOK
  <2>3. CASE race # "finished"
    <3> DEFINE row == collected \/ (reported' /\ ~reported)
    <3>1. row \in BOOLEAN /\ (row \/ told)
      BY <1>1 DEF ReportIsKept
    <3>2. FlushEventsIfNeeded(row, FALSE, Waited)
      BY <2>1, <2>3 DEF AdvanceTick
    <3> HIDE DEF row
    <3> QED  BY <3>1, <3>2, FlushKeepsTheRow
  <2> QED  BY <2>2, <2>3
<1>2. CASE Messages \/ HandleSignal \/ UNCHANGED vars
  BY <1>2 DEF Messages, HandleSessionPayload, HandleSignal, vars, lobbyVars, ReportIsKept
<1> QED  BY <1>1, <1>2 DEF Next, ReportIsKept

(* The report of an abandoned match is never dropped by a failed, late or  *)
(* postponed POST.                                                         *)
THEOREM ReportAlwaysKept == Spec => []ReportIsKept
<1>1. Init => ReportIsKept
  BY DEF Init, ReportIsKept
<1> QED  BY <1>1, ReportStep, HostTypeCorrect, PTL DEF Spec

-----------------------------------------------------------------------------
(* What a finished match leaves behind.                                    *)

RecordInv ==
  /\ FinishedMatchLeavesItsRecord
  /\ race = "finished" => process = "result"

LEMMA RecordStep == RecordInv /\ [Next]_vars => RecordInv'
<1> SUFFICES ASSUME RecordInv, [Next]_vars PROVE RecordInv'
  OBVIOUS
<1>1. CASE Round
  <2>1. race # "finished" /\ submission = "none" /\ replay = "none" /\ SubmitResultIfNeeded
    BY <1>1 DEF Round, AdvanceTick, RecordInv, FinishedMatchLeavesItsRecord
  <2>2. CASE race' = "finished"
    BY <1>1, <2>1, <2>2 DEF Round, SubmitResultIfNeeded, Submit, WriteAndUploadDem, RecordInv,
                            FinishedMatchLeavesItsRecord
  <2>3. CASE race' # "finished"
    BY <1>1, <2>1, <2>3 DEF Round, SubmitResultIfNeeded, RecordInv, FinishedMatchLeavesItsRecord
  <2> QED  BY <2>2, <2>3
<1>2. CASE Messages \/ UNCHANGED vars
  BY <1>2 DEF Messages, HandleSessionPayload, vars, lobbyVars, RecordInv, FinishedMatchLeavesItsRecord
<1>3. CASE HandleSignal
  BY <1>3 DEF HandleSignal, lobbyVars, RecordInv, FinishedMatchLeavesItsRecord
<1> QED  BY <1>1, <1>2, <1>3 DEF Next

(* A match that was played to its end has made its submission and its      *)
(* replay before the process goes away, and no other match has.            *)
THEOREM RecordIsLeft == Spec => []FinishedMatchLeavesItsRecord
<1>1. Init => RecordInv
  BY DEF Init, RecordInv, FinishedMatchLeavesItsRecord
<1>2. RecordInv => FinishedMatchLeavesItsRecord
  BY DEF RecordInv
<1> QED  BY <1>1, <1>2, RecordStep, PTL DEF Spec

-----------------------------------------------------------------------------
(* Bindings, tickets and hands.                                            *)

(* Only a message changes a binding, and every message obeys Speaker.      *)
LEMMA BindingSteps ==
  ASSUME [Next]_vars
  PROVE  \/ UNCHANGED bindingVars
         \/ \E c \in Convs, p \in Seats \cup Strangers, t \in Tickets \cup {NoTicket} :
              playerOf[c] = Nobody /\ BindSession(c, p, t)
BY DEF Next, Messages, HandleSessionPayload, Speaker, Round, HandleSignal, vars

(* A conversation speaks for one player as long as the process lives.      *)
THEOREM ConversationKept == Spec => ConversationKeepsItsPlayer
<1>1. HostTypeOK /\ [Next]_vars
        => \A c \in Convs : playerOf[c] # Nobody => playerOf'[c] = playerOf[c]
  <2> SUFFICES ASSUME HostTypeOK, [Next]_vars, NEW c \in Convs, playerOf[c] # Nobody
               PROVE  playerOf'[c] = playerOf[c]
    OBVIOUS
  <2>1. ASSUME NEW d \in Convs, NEW p \in Seats \cup Strangers, NEW t \in Tickets \cup {NoTicket},
               playerOf[d] = Nobody, BindSession(d, p, t)
        PROVE  playerOf'[c] = playerOf[c]
    BY <2>1 DEF BindSession, BindPlayerByRoster, HostTypeOK
  <2> QED  BY <2>1, BindingSteps DEF bindingVars
<1> QED  BY <1>1, HostTypeCorrect, PTL DEF Spec, ConversationKeepsItsPlayer

(* All hands of a match were dealt under the same lobby seed.              *)
THEOREM OneSeed == Spec => []OneLobbySeed
<1>1. Init => OneLobbySeed
  BY DEF Init, OneLobbySeed
<1>2. OneLobbySeed /\ [Next]_vars => OneLobbySeed'
  <2> SUFFICES ASSUME OneLobbySeed, [Next]_vars PROVE OneLobbySeed'
    OBVIOUS
  <2>1. CASE UNCHANGED <<dealt, lobbySeed>>
    BY <2>1 DEF OneLobbySeed
  <2>2. ASSUME NEW t \in Tickets \cup {NoTicket}, SeedHand(t)
        PROVE  OneLobbySeed'
    <3>1. CASE t.seed # 0 /\ lobbySeed \notin {0, t.seed}
      BY <2>1, <2>2, <3>1 DEF SeedHand
    <3>2. CASE t.seed = 0
      BY <2>2, <3>2 DEF SeedHand, OneLobbySeed
    <3>3. CASE t.seed # 0 /\ lobbySeed \in {0, t.seed}
      BY <2>2, <3>3 DEF SeedHand, OneLobbySeed
    <3> QED  BY <3>1, <3>2, <3>3
  <2>3. ASSUME NEW c \in Convs, NEW p \in Seats \cup Strangers, NEW t \in Tickets \cup {NoTicket},
               BindSession(c, p, t)
        PROVE  OneLobbySeed'
    BY <2>1, <2>2, <2>3 DEF BindSession
  <2> QED  BY <2>1, <2>3, BindingSteps DEF bindingVars
<1> QED  BY <1>1, <1>2, PTL DEF Spec

(* Where tickets are enforced, whoever binds a conversation has paid with  *)
(* a ticket of their own that nobody used before.                          *)
Bound(p) == {c \in Convs : playerOf[c] = p}
Paid(p) == {id \in consumed : \E t \in Tickets : t.id = id /\ t.player = p}

Ledger ==
  Requirement = "on" =>
    /\ \A p \in Seats : /\ IsFiniteSet(Bound(p)) /\ IsFiniteSet(Paid(p))
                        /\ Cardinality(Bound(p)) <= Cardinality(Paid(p))
    /\ \A t \in dealt : t.id \in consumed
    /\ \A t, u \in dealt : t.id = u.id => t = u

LEMMA PaidBinding ==
  ASSUME HostTypeOK, Ledger, Requirement = "on",
         NEW c \in Convs, NEW q \in Seats \cup Strangers, NEW u \in Tickets \cup {NoTicket},
         playerOf[c] = Nobody, BindSession(c, q, u),
         NEW p \in Seats
  PROVE  /\ IsFiniteSet(Bound(p)') /\ IsFiniteSet(Paid(p)')
         /\ Cardinality(Bound(p)') <= Cardinality(Paid(p)')
<1>1. /\ q \in Seats /\ playerOf' = [playerOf EXCEPT ![c] = q]
      /\ Acceptable(u, q) /\ consumed' = consumed \cup {u.id}
  BY DEF BindSession, BindPlayerByRoster
<1>2. u \in Tickets /\ u.player = q /\ u.id \notin consumed
  BY <1>1 DEF Acceptable, NoTicket
<1>3. /\ IsFiniteSet(Bound(p)) /\ IsFiniteSet(Paid(p))
      /\ Cardinality(Bound(p)) <= Cardinality(Paid(p))
      /\ Cardinality(Bound(p)) \in Nat /\ Cardinality(Paid(p)) \in Nat
  BY FS_CardinalityType DEF Ledger
<1>4. CASE p = q
  <2>1. Bound(p)' = Bound(p) \cup {c} /\ c \notin Bound(p)
    BY <1>1, <1>4, NamesAssumption DEF Bound, HostTypeOK
  <2>2. Paid(p)' = Paid(p) \cup {u.id} /\ u.id \notin Paid(p)
    BY <1>1, <1>2, <1>4 DEF Paid
  <2>3. /\ IsFiniteSet(Bound(p)') /\ Cardinality(Bound(p)') = Cardinality(Bound(p)) + 1
        /\ IsFiniteSet(Paid(p)') /\ Cardinality(Paid(p)') = Cardinality(Paid(p)) + 1
    <3>1. IsFiniteSet(Bound(p) \cup {c}) /\ Cardinality(Bound(p) \cup {c}) = Cardinality(Bound(p)) + 1
      BY <1>3, <2>1, FS_AddElement
    <3>2. IsFiniteSet(Paid(p) \cup {u.id}) /\ Cardinality(Paid(p) \cup {u.id}) = Cardinality(Paid(p)) + 1
      BY <1>3, <2>2, FS_AddElement
    <3> QED  BY <2>1, <2>2, <3>1, <3>2
  <2> QED  BY <1>3, <2>3
<1>5. CASE p # q
  <2>1. Bound(p)' = Bound(p)
    BY <1>1, <1>5, NamesAssumption DEF Bound, HostTypeOK
  <2>2. Paid(p)' = Paid(p) \/ (Paid(p)' = Paid(p) \cup {u.id} /\ u.id \notin Paid(p))
    BY <1>1, <1>2 DEF Paid
  <2>3. CASE Paid(p)' = Paid(p)
    <3>1. /\ IsFiniteSet(Bound(p)') = IsFiniteSet(Bound(p)) /\ IsFiniteSet(Paid(p)') = IsFiniteSet(Paid(p))
          /\ Cardinality(Bound(p)') = Cardinality(Bound(p))
          /\ Cardinality(Paid(p)') = Cardinality(Paid(p))
      BY <2>1, <2>3
    <3> QED  BY <1>3, <3>1
  <2>4. CASE Paid(p)' = Paid(p) \cup {u.id} /\ u.id \notin Paid(p)
    <3>1. IsFiniteSet(Paid(p)') /\ Cardinality(Paid(p)') = Cardinality(Paid(p)) + 1
      BY <1>3, <2>4, FS_AddElement
    <3> QED  BY <1>3, <2>1, <3>1
  <2> QED  BY <2>2, <2>3, <2>4
<1> QED  BY <1>4, <1>5

LEMMA LedgerStep == HostTypeOK /\ Ledger /\ [Next]_vars => Ledger'
<1> SUFFICES ASSUME HostTypeOK, Ledger, [Next]_vars, Requirement = "on"
             PROVE  /\ \A p \in Seats : /\ IsFiniteSet(Bound(p)') /\ IsFiniteSet(Paid(p)')
                                        /\ Cardinality(Bound(p)') <= Cardinality(Paid(p)')
                    /\ \A t \in dealt' : t.id \in consumed'
                    /\ \A t, u \in dealt' : t.id = u.id => t = u
  BY DEF Ledger
<1>1. CASE UNCHANGED bindingVars
  BY <1>1 DEF bindingVars, Ledger, Bound, Paid
<1>2. ASSUME NEW c \in Convs, NEW q \in Seats \cup Strangers, NEW u \in Tickets \cup {NoTicket},
             playerOf[c] = Nobody, BindSession(c, q, u)
      PROVE  /\ \A p \in Seats : /\ IsFiniteSet(Bound(p)') /\ IsFiniteSet(Paid(p)')
                                 /\ Cardinality(Bound(p)') <= Cardinality(Paid(p)')
             /\ \A t \in dealt' : t.id \in consumed'
             /\ \A t, v \in dealt' : t.id = v.id => t = v
  <2>1. /\ u.id \notin consumed /\ consumed' = consumed \cup {u.id}
        /\ dealt' \in {dealt, dealt \cup {u}}
    BY <1>2 DEF BindSession, Acceptable, SeedHand
  <2>2. /\ \A t \in dealt' : t.id \in consumed'
        /\ \A t, v \in dealt' : t.id = v.id => t = v
    BY <2>1 DEF Ledger
  <2> QED  BY <1>2, <2>2, PaidBinding
<1> QED  BY <1>1, <1>2, BindingSteps

(* Where tickets are enforced every conversation of a player was paid for  *)
(* with a ticket of that player, and every hand with a ticket of its own.  *)
THEOREM TicketsPaidOnce == Spec => []TicketsPayOnce
<1>1. Init => Ledger
  <2> SUFFICES ASSUME Init PROVE Ledger
    OBVIOUS
  <2>1. ASSUME NEW p \in Seats
        PROVE  Bound(p) = {} /\ Paid(p) = {}
    BY <2>1, NamesAssumption DEF Init, Bound, Paid
  <2>2. IsFiniteSet({}) /\ Cardinality({}) <= Cardinality({})
    BY FS_EmptySet
  <2>3. dealt = {}
    BY DEF Init
  <2> QED  BY <2>1, <2>2, <2>3 DEF Ledger
<1>2. Ledger => TicketsPayOnce
  BY DEF Ledger, TicketsPayOnce, Bound, Paid
<1> QED  BY <1>1, <1>2, LedgerStep, HostTypeCorrect, PTL DEF Spec
=============================================================================
