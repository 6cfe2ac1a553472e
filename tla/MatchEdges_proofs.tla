------------------------- MODULE MatchEdges_proofs --------------------------
(* What stands around a match, for any players, packets, remotes, results, *)
(* replays, reports and fights: the way of a packet into a match, the table*)
(* of sessions of an endpoint, the timeline a race is fired by; and that a *)
(* behaviour of all of them is one of each part.                           *)
EXTENDS MatchEdges, MatchRecords_proofs, FiniteSetTheorems, TLAPS

(***************************************************************************)
(* The way of a packet into a match: types, the single use of a number, the*)
(* binding of a session to its remote, and the deafness of a silent match. *)
(***************************************************************************)
LEMMA HeaderFacts ==
  ASSUME NEW h \in Headers
  PROVE  h.player \in Gamers /\ h.key \in Keys /\ h.no \in 1..MaxNo /\ h.tick \in 0..TopTick
BY PacketsAssumption DEF AllHeaders

LEMMA HelloFacts ==
  ASSUME NEW hello \in Verified
  PROVE  hello.player \in Gamers /\ KeyRef(hello) \in Keys
BY PacketsAssumption DEF Verified, Keys

LEMMA NotedTypes ==
  ASSUME PacketTypeOK, NEW h \in Headers, Noted(h)
  PROVE  lastNo' \in [Gamers -> 0..MaxNo] /\ lastTick' \in 0..TopTick \cup {Unknown}
BY HeaderFacts DEF PacketTypeOK, Noted, Unknown

LEMMA PacketTypeInit == PacketInit => PacketTypeOK
BY PacketsAssumption DEF PacketInit, PacketTypeOK, Unknown

LEMMA PacketTypeStep == PacketTypeOK /\ [PacketNext]_packetVars => PacketTypeOK'
<1> SUFFICES ASSUME PacketTypeOK, [PacketNext]_packetVars PROVE PacketTypeOK'
  OBVIOUS
<1> USE DEF PacketTypeOK, simulationVars
<1>1. ASSUME NEW h \in Headers, Dispatch(h) PROVE PacketTypeOK'
  BY <1>1, NotedTypes DEF Dispatch
<1>2. ASSUME NEW h \in Headers, ProcessDecodedPacket(h) PROVE PacketTypeOK'
  <2>1. /\ nonces' \subseteq Headers
        /\ lastNo' \in [Gamers -> 0..MaxNo] /\ lastTick' \in 0..TopTick \cup {Unknown}
    BY <1>2, NotedTypes DEF ProcessDecodedPacket, DispatchEncrypted
  <2>2. h.player \in Gamers /\ h.no \in 0..MaxNo
    BY HeaderFacts, PacketsAssumption
  <2>3. taken' \in [Gamers -> 0..MaxNo]
    BY <1>2, <2>2 DEF ProcessDecodedPacket
  <2>4. there' = there \/ there' = [there EXCEPT ![h.player] = TRUE]
    BY <1>2 DEF ProcessDecodedPacket
  <2>5. there' \in [Gamers -> BOOLEAN]
    BY <2>2, <2>4
  <2> QED  BY <1>2, <2>1, <2>3, <2>5 DEF ProcessDecodedPacket
<1>3. ASSUME NEW h \in Headers, NEW r \in Remotes, ProcessEncryptedDatagram(h, r) PROVE PacketTypeOK'
  <2>1. /\ nonces' \subseteq Headers
        /\ lastNo' \in [Gamers -> 0..MaxNo] /\ lastTick' \in 0..TopTick \cup {Unknown}
    BY <1>3, NotedTypes DEF ProcessEncryptedDatagram, DispatchEncrypted
  <2>2. home' \in [Gamers -> [Keys -> Remotes \cup {Nowhere}]]
    BY <1>3, HeaderFacts DEF ProcessEncryptedDatagram
  <2> QED  BY <1>3, <2>1, <2>2 DEF ProcessEncryptedDatagram
<1>4. ASSUME NEW hello \in Hellos, Handshake(hello) PROVE PacketTypeOK'
  BY <1>4, HelloFacts DEF Handshake, dispatcherVars
<1>5. ASSUME NEW p \in Gamers, NEW connected \in BOOLEAN, SetPlayerConnected(p, connected) PROVE PacketTypeOK'
  BY <1>5 DEF SetPlayerConnected, dispatcherVars
<1>6. CASE SimulationTicks
  BY <1>6, PacketsAssumption DEF SimulationTicks, dispatcherVars
<1>7. CASE Settles
  BY <1>7 DEF Settles, dispatcherVars
<1>8. CASE UNCHANGED packetVars
  BY <1>8 DEF packetVars, dispatcherVars
<1> QED  BY <1>1, <1>2, <1>3, <1>4, <1>5, <1>6, <1>7, <1>8 DEF PacketNext

(* What the dispatcher, the sessions and the adapter remember stays well   *)
(* formed.                                                                 *)
THEOREM PacketTypeCorrect == PacketSpec => []PacketTypeOK
BY PacketTypeInit, PacketTypeStep, PTL DEF PacketSpec

-----------------------------------------------------------------------------
(* Every accepted encrypted packet has a number above all that were        *)
(* accepted before it.                                                     *)
LEMMA AcceptedOnce ==
  ASSUME PacketTypeOK, OneAcceptancePerNumber, NEW h \in Headers, DispatchEncrypted(h),
         \A p \in Gamers : taken'[p] \in {taken[p], lastNo'[p]}
  PROVE  OneAcceptancePerNumber'
<1>1. /\ h.player \in Gamers /\ h.no \in Nat /\ lastNo \in [Gamers -> Nat] /\ nonces \subseteq Headers
      /\ h.no > lastNo[h.player] /\ lastNo' = [lastNo EXCEPT ![h.player] = h.no]
      /\ nonces' = nonces \cup {h} /\ taken \in [Gamers -> Nat]
  BY HeaderFacts DEF DispatchEncrypted, Newer, Noted, PacketTypeOK
<1>2. ASSUME NEW n \in nonces PROVE n.player \in Gamers /\ n.no \in Nat
  BY <1>1, <1>2, HeaderFacts
<1>3. \A p \in Gamers : lastNo[p] <= lastNo'[p]
  BY <1>1
<1>4. ASSUME NEW m \in nonces', NEW n \in nonces', m.player = n.player, m.no = n.no PROVE m = n
  BY <1>1, <1>2, <1>4 DEF OneAcceptancePerNumber
<1>5. ASSUME NEW n \in nonces' PROVE n.no <= lastNo'[n.player]
  BY <1>1, <1>2, <1>3, <1>5 DEF OneAcceptancePerNumber
<1>6. ASSUME NEW p \in Gamers PROVE taken'[p] <= lastNo'[p]
  BY <1>1, <1>3, <1>6 DEF OneAcceptancePerNumber
<1> QED  BY <1>4, <1>5, <1>6 DEF OneAcceptancePerNumber

LEMMA AcceptanceStep ==
  PacketTypeOK /\ OneAcceptancePerNumber /\ [PacketNext]_packetVars => OneAcceptancePerNumber'
<1> SUFFICES ASSUME PacketTypeOK, OneAcceptancePerNumber, [PacketNext]_packetVars
             PROVE  OneAcceptancePerNumber'
  OBVIOUS
<1>1. ASSUME NEW h \in Headers, Dispatch(h) PROVE OneAcceptancePerNumber'
  <2>1. /\ h.player \in Gamers /\ h.no \in Nat /\ lastNo \in [Gamers -> Nat] /\ taken \in [Gamers -> Nat]
        /\ h.no > lastNo[h.player] /\ lastNo' = [lastNo EXCEPT ![h.player] = h.no]
        /\ nonces' = nonces /\ taken' = taken
    BY <1>1, HeaderFacts DEF Dispatch, Newer, Noted, PacketTypeOK, simulationVars
  <2>2. \A n \in nonces : n.player \in Gamers /\ n.no \in Nat
    BY HeaderFacts DEF PacketTypeOK
  <2> QED  BY <2>1, <2>2 DEF OneAcceptancePerNumber
<1>2. ASSUME NEW h \in Headers, ProcessDecodedPacket(h) PROVE OneAcceptancePerNumber'
  <2>1. h.player \in Gamers /\ lastNo' = [lastNo EXCEPT ![h.player] = h.no]
    BY <1>2, HeaderFacts DEF ProcessDecodedPacket, DispatchEncrypted, Noted
  <2>2. \A p \in Gamers : taken'[p] \in {taken[p], lastNo'[p]}
    BY <1>2, <2>1 DEF ProcessDecodedPacket, PacketTypeOK
  <2> QED  BY <1>2, <2>2, AcceptedOnce DEF ProcessDecodedPacket
<1>3. ASSUME NEW h \in Headers, NEW r \in Remotes, ProcessEncryptedDatagram(h, r)
      PROVE  OneAcceptancePerNumber'
  BY <1>3, AcceptedOnce DEF ProcessEncryptedDatagram, simulationVars
<1>4. ASSUME UNCHANGED <<nonces, lastNo, taken>> PROVE OneAcceptancePerNumber'
  BY <1>4 DEF OneAcceptancePerNumber
<1> QED
  BY <1>1, <1>2, <1>3, <1>4
  DEF PacketNext, Handshake, SetPlayerConnected, SimulationTicks, Settles, packetVars, simulationVars, dispatcherVars

(* A number of a player is accepted once, across types and keys and across *)
(* handshakes, and nobody remembers a larger one than the dispatcher.      *)
THEOREM NumbersAcceptedOnce == PacketSpec => []OneAcceptancePerNumber
<1>1. PacketInit => OneAcceptancePerNumber
  BY DEF PacketInit, OneAcceptancePerNumber
<1> QED  BY <1>1, PacketTypeInit, PacketTypeStep, AcceptanceStep, PTL DEF PacketSpec

-----------------------------------------------------------------------------
(* A session's remote is replaced only while its player is disconnected.   *)
THEOREM RemotesMoveWhileAway == PacketSpec => RemoteMovesWhileAway
<1>1. ASSUME PacketTypeOK, [PacketNext]_packetVars, NEW p \in Gamers, NEW k \in Keys,
             home[p][k] # Nowhere, home'[p][k] # home[p][k]
      PROVE  ~there[p] /\ ~there'[p]
  <2>1. PICK h \in Headers, r \in Remotes : ProcessEncryptedDatagram(h, r)
    BY <1>1 DEF PacketNext, Dispatch, ProcessDecodedPacket, Handshake, SetPlayerConnected, SimulationTicks, Settles,
       packetVars
  <2>2. h.player \in Gamers /\ h.key \in Keys
    BY HeaderFacts
  <2>3. h.player = p /\ h.key = k /\ home'[p][k] = r
    BY <1>1, <2>1, <2>2 DEF ProcessEncryptedDatagram, PacketTypeOK
  <2>4. ~there[p] /\ there' = there
    BY <1>1, <2>1, <2>3 DEF ProcessEncryptedDatagram, AtHome, Home, simulationVars
  <2> QED  BY <2>4
<1>2. PacketTypeOK /\ [PacketNext]_packetVars =>
        [\A p \in Gamers, k \in Keys :
           home[p][k] # Nowhere /\ home'[p][k] # home[p][k] => ~there[p] /\ ~there'[p]]_packetVars
  BY <1>1
<1> QED  BY <1>2, PacketTypeCorrect, PTL DEF PacketSpec, RemoteMovesWhileAway

(* After more than Jump ticks without a packet nothing a connected player  *)
(* does reaches the simulation.                                            *)
THEOREM SilentMatchIsDeaf == PacketSpec => SilenceDeafens
<1>1. ASSUME PacketTypeOK, [PacketNext]_packetVars, Deaf, NEW p \in Gamers, there[p]
      PROVE  taken'[p] = taken[p]
  <2>1. ASSUME NEW h \in Headers, ProcessDecodedPacket(h), taken'[p] # taken[p] PROVE FALSE
    <3>1. h.player = p /\ DispatchEncrypted(h) /\ h.type # "ping"
      BY <1>1, <2>1, HeaderFacts DEF ProcessDecodedPacket, PacketTypeOK
    <3>2. h.type \in Types
      BY PacketsAssumption DEF AllHeaders
    <3>3. h.type \in Windowed
      BY <1>1, <3>1, <3>2 DEF DispatchEncrypted, Admits, Types
    <3>4. h.tick \in now + 1 .. now + InputAhead /\ now \in Nat /\ InputAhead \in Nat
      BY <1>1, <3>1, <3>3, PacketsAssumption DEF DispatchEncrypted, Admits, PacketTypeOK
    <3>5. lastTick # Unknown /\ h.tick <= lastTick + Jump /\ lastTick + Jump < now + 1
      BY <1>1, <3>1, <3>4, PacketsAssumption DEF DispatchEncrypted, WithinJump, Deaf, PacketTypeOK, Unknown
    <3> QED  BY <1>1, <3>4, <3>5, PacketsAssumption DEF PacketTypeOK, Unknown
  <2> QED
    BY <1>1, <2>1
    DEF PacketNext, Dispatch, ProcessEncryptedDatagram, Handshake, SetPlayerConnected, SimulationTicks, Settles,
        packetVars, simulationVars
<1>2. PacketTypeOK /\ [PacketNext]_packetVars =>
        [Deaf => \A p \in Gamers : there[p] => taken'[p] = taken[p]]_packetVars
  BY <1>1
<1> QED  BY <1>2, PacketTypeCorrect, PTL DEF PacketSpec, SilenceDeafens

(***************************************************************************)
(* The table of sessions of an endpoint: its types, its bound, and the     *)
(* truth of its index.                                                     *)
(***************************************************************************)
LEMMA KcpTypeStep == KcpTypeOK /\ [KcpNext]_kcpVars => KcpTypeOK'
<1> SUFFICES ASSUME KcpTypeOK, [KcpNext]_kcpVars PROVE KcpTypeOK'
  OBVIOUS
<1> USE DEF KcpTypeOK
<1>1. CASE Bind
  BY <1>1 DEF Bind
<1>2. CASE Close
  BY <1>2 DEF Close
<1>3. ASSUME NEW c \in Convs, NEW r \in Peers, PollNew(c, r) \/ PollMove(c, r) PROVE KcpTypeOK'
  BY <1>3 DEF PollNew, PollMove, Moved
<1>4. ASSUME NEW r \in Peers, OpenSession(r) PROVE KcpTypeOK'
  <2>1. ownConv' \in Convs
    BY <1>4, KcpAssumption DEF OpenSession, Convs
  <2> QED  BY <1>4, <2>1 DEF OpenSession
<1>5. CASE UNCHANGED kcpVars
  BY <1>5 DEF kcpVars
<1> QED  BY <1>1, <1>2, <1>3, <1>4, <1>5 DEF KcpNext

LEMMA KcpTypeInit == KcpInit => KcpTypeOK
BY KcpAssumption DEF KcpInit, KcpTypeOK

(* The table of sessions and its index stay well formed.                   *)
THEOREM KcpTypeCorrect == KcpSpec => []KcpTypeOK
BY KcpTypeInit, KcpTypeStep, PTL DEF KcpSpec

LEMMA IndexStep == KcpTypeOK /\ IndexIsTrue /\ [KcpNext]_kcpVars => IndexIsTrue'
<1> SUFFICES ASSUME KcpTypeOK, IndexIsTrue, [KcpNext]_kcpVars,
                    NEW q \in Peers, index'[q] # NoConv
             PROVE  sessions'[index'[q]] = q
  BY DEF IndexIsTrue
<1> USE DEF KcpTypeOK
<1>1. CASE Bind \/ UNCHANGED kcpVars
  BY <1>1 DEF Bind, kcpVars, IndexIsTrue
<1>2. CASE Close
  BY <1>2 DEF Close
<1>3. ASSUME NEW c \in Convs, NEW r \in Peers, PollNew(c, r) PROVE sessions'[index'[q]] = q
  <2>1. CASE q = r
    BY <1>3, <2>1 DEF PollNew
  <2>2. CASE q # r
    <3>1. index'[q] = index[q] /\ sessions[index[q]] = q
      BY <1>3, <2>2 DEF PollNew, IndexIsTrue
    <3>2. index[q] # c
      BY <1>3, <3>1, KcpAssumption DEF PollNew
    <3> QED  BY <1>3, <3>1, <3>2 DEF PollNew
  <2> QED  BY <2>1, <2>2
\* The session that moves may be the one the entry of q names: then q is
\* where it left, and the entry is gone.
<1>4. ASSUME NEW c \in Convs, NEW r \in Peers, PollMove(c, r) PROVE sessions'[index'[q]] = q
  <2>1. CASE q = r
    BY <1>4, <2>1 DEF PollMove, Moved
  <2>2. CASE q # r
    <3>1. q # sessions[c] /\ index'[q] = index[q] /\ sessions[index[q]] = q
      BY <1>4, <2>2 DEF PollMove, Moved, IndexIsTrue
    <3> QED  BY <1>4, <3>1 DEF PollMove
  <2> QED  BY <2>1, <2>2
<1>5. ASSUME NEW r \in Peers, OpenSession(r) PROVE sessions'[index'[q]] = q
  <2>1. CASE UNCHANGED <<sessions, index>>
    BY <2>1 DEF IndexIsTrue
  <2>2. CASE ~UNCHANGED <<sessions, index>>
    <3>1. /\ sessions[ownConv] = NoPeer
          /\ sessions' = [sessions EXCEPT ![ownConv] = r]
          /\ index' = [index EXCEPT ![r] = ownConv]
      BY <1>5, <2>2 DEF OpenSession
    <3>2. CASE q = r
      BY <3>1, <3>2
    <3>3. CASE q # r
      <4>1. index'[q] = index[q] /\ sessions[index[q]] = q
        BY <3>1, <3>3 DEF IndexIsTrue
      <4>2. index[q] # ownConv
        BY <3>1, <4>1, KcpAssumption
      <4> QED  BY <3>1, <4>1, <4>2
    <3> QED  BY <3>2, <3>3
  <2> QED  BY <2>1, <2>2
<1> QED  BY <1>1, <1>2, <1>3, <1>4, <1>5 DEF KcpNext

(* What the index hands out for an endpoint is a session that talks to it. *)
THEOREM IndexAlwaysTrue == KcpSpec => []IndexIsTrue
<1>1. KcpInit => IndexIsTrue
  BY DEF KcpInit, IndexIsTrue
<1> QED  BY <1>1, KcpTypeInit, KcpTypeStep, IndexStep, PTL DEF KcpSpec

-----------------------------------------------------------------------------
Used == {c \in Convs : sessions[c] # NoPeer}

LEMMA UsedIsFinite == KcpTypeOK => IsFiniteSet(Used) /\ Cardinality(Used) \in Nat
<1>1. IsFiniteSet(Convs)
  BY KcpAssumption, FS_Interval DEF Convs
<1> QED  BY <1>1, FS_Subset, FS_CardinalityType DEF Used

LEMMA BoundStep == KcpTypeOK /\ SessionsAreBounded /\ [KcpNext]_kcpVars => SessionsAreBounded'
<1> SUFFICES ASSUME KcpTypeOK, SessionsAreBounded, [KcpNext]_kcpVars
             PROVE  Cardinality(Used') <= MaxSessions
  BY DEF SessionsAreBounded, Count, Used
<1>1. /\ IsFiniteSet(Used) /\ Cardinality(Used) \in Nat /\ Cardinality(Used) <= MaxSessions
      /\ MaxSessions \in Nat
  BY UsedIsFinite, KcpAssumption DEF SessionsAreBounded, Count, Used
<1>2. ASSUME NEW c \in Convs, NEW r \in Peers,
             HasRoom, sessions[c] = NoPeer, sessions' = [sessions EXCEPT ![c] = r]
      PROVE  Cardinality(Used') <= MaxSessions
  <2>1. Used' = Used \cup {c} /\ c \notin Used
    BY <1>2, KcpAssumption DEF Used, KcpTypeOK
  <2>2. Cardinality(Used') = Cardinality(Used) + 1
    BY <1>1, <2>1, FS_AddElement
  <2>3. Cardinality(Used) < MaxSessions
    BY <1>2 DEF HasRoom, Count, Used
  <2> QED  BY <1>1, <2>2, <2>3
<1>3. CASE Used' = Used
  BY <1>1, <1>3
<1>4. CASE Bind \/ UNCHANGED kcpVars
  BY <1>3, <1>4 DEF Bind, kcpVars, Used
<1>5. CASE Close
  <2>1. Used' = {}
    BY <1>5 DEF Close, Used
  <2> QED  BY <1>1, <2>1, FS_EmptySet
<1>6. ASSUME NEW c \in Convs, NEW r \in Peers, PollNew(c, r) PROVE Cardinality(Used') <= MaxSessions
  BY <1>2, <1>6 DEF PollNew
<1>7. ASSUME NEW c \in Convs, NEW r \in Peers, PollMove(c, r) PROVE Cardinality(Used') <= MaxSessions
  <2>1. Used' = Used
    BY <1>7, KcpAssumption DEF PollMove, Used, KcpTypeOK
  <2> QED  BY <1>3, <2>1
<1>8. ASSUME NEW r \in Peers, OpenSession(r) PROVE Cardinality(Used') <= MaxSessions
  <2>1. CASE HasRoom /\ sessions[ownConv] = NoPeer
    BY <1>2, <1>8, <2>1 DEF OpenSession, KcpTypeOK
  <2>2. CASE ~(HasRoom /\ sessions[ownConv] = NoPeer)
    <3>1. Used' = Used
      BY <1>8, <2>2 DEF OpenSession, Used
    <3> QED  BY <1>3, <3>1
  <2> QED  BY <2>1, <2>2
<1> QED  BY <1>4, <1>5, <1>6, <1>7, <1>8 DEF KcpNext

(* An endpoint never holds more sessions than max_sessions, whoever opens  *)
(* them and however they wander.                                           *)
THEOREM SessionsStayBounded == KcpSpec => []SessionsAreBounded
<1>1. KcpInit => SessionsAreBounded
  <2> SUFFICES ASSUME KcpInit PROVE SessionsAreBounded
    OBVIOUS
  <2>1. Used = {}
    BY DEF KcpInit, Used
  <2> QED  BY <2>1, FS_EmptySet, KcpAssumption DEF SessionsAreBounded, Count, Used
<1> QED  BY <1>1, KcpTypeInit, KcpTypeStep, BoundStep, PTL DEF KcpSpec

(***************************************************************************)
(* The timeline: what is scheduled is fired, at every difficulty and on    *)
(* every frame there will ever be.                                         *)
(***************************************************************************)
LEMMA DueWithinAPeriod ==
  ASSUME NEW p \in Nat \ {0}, NEW phase \in 0 .. p - 1, NEW a \in Nat
  PROVE  \E g \in a + 1 .. a + p : g % p = phase
<1> DEFINE q == a \div p
           r == a % p
<1>1. q \in Nat /\ r \in 0 .. p - 1 /\ a = p * q + r
  OBVIOUS
<1> HIDE DEF q, r
<1>2. ASSUME NEW k \in Nat PROVE (p * k + phase) % p = phase
  <2> DEFINE x == p * k + phase
             k2 == x \div p
             r2 == x % p
  <2>1. x \in Nat /\ p * k \in Nat
    OBVIOUS
  <2>2. k2 \in Nat /\ r2 \in 0 .. p - 1 /\ x = p * k2 + r2
    <3> HIDE DEF x
    <3> QED  BY <2>1
  <2>3. p * k + phase = p * k2 + r2
    BY <2>2
  <2> HIDE DEF k2, r2, x
  <2>4. p * (k - k2) = r2 - phase
    BY <2>2, <2>3
  <2>5. k = k2
    <3>1. CASE k - k2 >= 1
      <4>1. p * (k - k2) >= p
        BY <2>2, <3>1
      <4> QED  BY <2>2, <2>4, <4>1
    <3>2. CASE k - k2 <= -1
      <4>1. p * (k - k2) <= -p
        BY <2>2, <3>2
      <4> QED  BY <2>2, <2>4, <4>1
    <3> QED  BY <2>2, <3>1, <3>2
  <2>6. r2 = phase
    BY <2>2, <2>4, <2>5
  <2> QED  BY <2>6 DEF r2, x
<1>3. p * q \in Nat /\ p * (q + 1) = p * q + p
  BY <1>1
<1>4. CASE phase > r
  <2>1. p * q + phase \in a + 1 .. a + p
    BY <1>1, <1>3, <1>4
  <2> QED  BY <1>1, <1>2, <2>1
<1>5. CASE phase <= r
  <2>1. p * (q + 1) + phase \in a + 1 .. a + p
    BY <1>1, <1>3, <1>5
  <2>2. q + 1 \in Nat
    BY <1>1
  <2> QED  BY <1>2, <2>1, <2>2
<1> QED  BY <1>1, <1>4, <1>5

-----------------------------------------------------------------------------
(* The scale.                                                              *)
LEMMA FightIs ==
  ASSUME NEW b \in Battles
  PROVE  b.ruleset \in Rulesets /\ b.boss \in Tabled \cup Sways \cup {"none"} /\ b.difficulty \in 0..3
BY TimelineAssumption

LEMMA Scales ==
  ASSUME NEW b \in Battles
  PROVE  Scale(b) \in 0..3
BY FightIs DEF Scale

LEMMA ScaledPeriods ==
  ASSUME NEW b \in Battles, NEW n \in Nat, n >= 10
  PROVE  ScalePeriod(b, n) \in Nat /\ ScalePeriod(b, n) >= 8
<1>1. <<115, 100, 90, 80>>[Scale(b) + 1] \in {115, 100, 90, 80}
  <2>1. Scale(b) \in {0, 1, 2, 3}
    BY Scales
  <2> QED  BY <2>1
<1>2. ASSUME NEW c \in {115, 100, 90, 80} PROVE Rounded(n, c) \in Nat /\ Rounded(n, c) >= 8
  <2>1. (n * c + 50) \in Nat /\ n * c + 50 >= 850
    BY <1>2
  <2> QED  BY <2>1 DEF Rounded
<1> QED  BY <1>1, <1>2 DEF ScalePeriod

LEMMA ScaledCounts ==
  ASSUME NEW b \in Battles, NEW n \in Nat
  PROVE  ScaleCount(b, n) \in Nat /\ (n > 0 => ScaleCount(b, n) > 0)
<1>1. <<80, 100, 115, 135>>[Scale(b) + 1] \in {80, 100, 115, 135}
  <2>1. Scale(b) \in {0, 1, 2, 3}
    BY Scales
  <2> QED  BY <2>1
<1>2. ASSUME NEW c \in {80, 100, 115, 135} PROVE Rounded(n, c) \in Nat /\ (n > 0 => Rounded(n, c) > 0)
  <2>1. (n * c + 50) \in Nat /\ (n > 0 => n * c + 50 >= 100)
    BY <1>2
  <2> QED  BY <2>1 DEF Rounded
<1> QED  BY <1>1, <1>2 DEF ScaleCount

-----------------------------------------------------------------------------
(* The tables.                                                             *)
Nodes == {n \in [period : Nat, phase : Nat, nodes : Nat, each : Nat] : n.period >= 10 /\ (n.each > 0 => n.phase <= 1)}

LEMMA NodesAre ==
  ASSUME NEW period \in Nat, NEW phase \in Nat, NEW nodes \in Nat, NEW each \in Nat,
         period >= 10, phase <= 1 \/ each = 0
  PROVE  Node(period, phase, nodes, each) \in Nodes
BY DEF Node, Nodes

IsTable(t, n) == DOMAIN t = 1..n /\ \A i \in 1..n : t[i] \in Nodes

LEMMA Boss21Nodes == IsTable(Boss21, 6)
<1>1. /\ Node(300, 0, 1, 0) \in Nodes /\ Node(300, 0, 1, 1) \in Nodes /\ Node(200, 0, 1, 0) \in Nodes
      /\ Node(200, 16, 1, 0) \in Nodes /\ Node(200, 32, 1, 0) \in Nodes /\ Node(200, 48, 1, 0) \in Nodes
  BY NodesAre
<1> QED  BY <1>1 DEF Boss21, IsTable

LEMMA State14Nodes == IsTable(State14, 9)
<1> DEFINE A == [i \in 1..4 |-> Node(400, 1, 9, 1)]
           B == <<Node(18, 1, 1, 6), Node(18, 1, 1, 8), Node(18, 1, 1, 12), Node(18, 1, 1, 12), Node(20, 1, 1, 30)>>
           C == A \o B
<1>1. /\ Node(400, 1, 9, 1) \in Nodes /\ Node(18, 1, 1, 6) \in Nodes /\ Node(18, 1, 1, 8) \in Nodes
      /\ Node(18, 1, 1, 12) \in Nodes /\ Node(20, 1, 1, 30) \in Nodes
  BY NodesAre
<1>2. A \in Seq(Nodes) /\ Len(A) = 4
  BY <1>1
<1>3. B \in Seq(Nodes) /\ Len(B) = 5
  BY <1>1
<1> HIDE DEF A, B
<1>4. C \in Seq(Nodes) /\ Len(C) = Len(A) + Len(B)
  BY <1>2, <1>3, ConcatProperties
<1> HIDE DEF C
<1>5. Len(C) = 9
  BY <1>2, <1>3, <1>4
<1>6. IsTable(C, 9)
  <2>1. DOMAIN C = 1..Len(C)
    BY <1>4
  <2>2. \A i \in 1..Len(C) : C[i] \in Nodes
    BY <1>4
  <2> QED  BY <1>5, <2>1, <2>2 DEF IsTable
<1>7. State14 = C
  BY DEF State14, A, B, C
<1> QED  BY <1>6, <1>7

LEMMA State20Nodes == IsTable(State20, 16)
<1> DEFINE gates == << <<10, 12>>, <<36, 30>>, <<26, 30>>, <<18, 30>>, <<12, 18>>, <<10, 20>>, <<12, 8>>,
                       <<10, 12>>, <<20, 10>>, <<10, 15>>, <<20, 10>>, <<14, 10>>, <<10, 10>>, <<20, 18>>,
                       <<14, 20>>, <<10, 24>> >>
<1>1. DOMAIN gates = 1..16
  OBVIOUS
<1>2. ASSUME NEW i \in 1..16 PROVE gates[i][1] \in Nat /\ gates[i][1] >= 10 /\ gates[i][2] \in Nat
  BY <1>2
<1>3. State20 = [i \in DOMAIN gates |-> Node(gates[i][1], 0, 1, gates[i][2])]
  BY DEF State20
<1> HIDE DEF gates
<1>4. ASSUME NEW i \in 1..16 PROVE Node(gates[i][1], 0, 1, gates[i][2]) \in Nodes
  <2> DEFINE period == gates[i][1]
             each == gates[i][2]
  <2>1. period \in Nat /\ period >= 10 /\ each \in Nat
    BY <1>2
  <2> HIDE DEF period, each
  <2>2. Node(period, 0, 1, each) \in Nodes
    BY <2>1, NodesAre
  <2> QED  BY <2>2 DEF period, each
<1> QED  BY <1>1, <1>3, <1>4 DEF IsTable

LEMMA TableNodes ==
  ASSUME NEW b \in Battles, NEW phase
  PROVE  \/ TableAt(b, phase) = << >> /\ ~ChainTablesActive(b)
         \/ TableAt(b, phase) = Boss21 /\ b.boss = "boss21" /\ ChainTablesActive(b)
         \/ TableAt(b, phase) = State20 /\ phase >= 2 /\ b.boss # "boss21" /\ ChainTablesActive(b)
         \/ TableAt(b, phase) = State14 /\ ~(phase >= 2) /\ b.boss # "boss21" /\ ChainTablesActive(b)
<1>1. ASSUME ~ChainTablesActive(b) PROVE TableAt(b, phase) = << >>
  BY <1>1 DEF TableAt
<1>2. ASSUME ChainTablesActive(b), b.boss = "boss21" PROVE TableAt(b, phase) = Boss21
  BY <1>2 DEF TableAt
<1>3. ASSUME ChainTablesActive(b), b.boss # "boss21"
      PROVE  TableAt(b, phase) = IF phase >= 2 THEN State20 ELSE State14
  BY <1>3 DEF TableAt
<1> QED  BY <1>1, <1>2, <1>3

LEMMA TablesAre ==
  ASSUME NEW b \in Battles, NEW phase
  PROVE  \E n \in Nat : IsTable(TableAt(b, phase), n)
<1>1. IsTable(<< >>, 0)
  BY DEF IsTable
<1> QED  BY <1>1, TableNodes, Boss21Nodes, State14Nodes, State20Nodes

LEMMA NodeFacts ==
  ASSUME NEW b \in Battles, NEW phase, NEW i \in DOMAIN TableAt(b, phase)
  PROVE  LET node == TableAt(b, phase)[i] IN
         /\ node \in Nodes
         /\ ScalePeriod(b, node.period) \in Nat \ {0}
         /\ node.each > 0 => node.phase \in 0 .. ScalePeriod(b, node.period) - 1
<1> DEFINE node == TableAt(b, phase)[i]
           p == ScalePeriod(b, node.period)
<1>1. node \in Nodes
  BY TablesAre DEF IsTable
<1> HIDE DEF node
<1>2. node.period \in Nat /\ node.period >= 10 /\ node.phase \in Nat /\ node.each \in Nat
      /\ (node.each > 0 => node.phase <= 1)
  BY <1>1 DEF Nodes
<1>3. p \in Nat /\ p >= 8
  BY <1>2, ScaledPeriods
<1> HIDE DEF p
<1>4. p \in Nat \ {0} /\ (node.each > 0 => node.phase \in 0 .. p - 1)
  BY <1>2, <1>3
<1> QED  BY <1>1, <1>4 DEF node, p

(* The rotation names patterns of the library.                             *)
Phased(phases, n) == DOMAIN phases = 1..n /\ \A i \in 1..n : phases[i][1] \in 1..10 /\ phases[i][2] \in Nat \ {0}

LEMMA WavesAreNamed ==
  ASSUME NEW n \in Nat \ {0}, NEW phases, Phased(phases, n)
  PROVE  Waves(phases) \in Seq(1..10) /\ Waves(phases) # << >>
<1> DEFINE each == [i \in DOMAIN phases |-> [j \in 1..phases[i][2] |-> phases[i][1]]]
<1>0. DOMAIN phases = 1..n /\ \A i \in 1..n : phases[i][1] \in 1..10 /\ phases[i][2] \in Nat \ {0}
  BY DEF Phased
<1>1. Waves(phases) = FlattenSeq(each)
  BY DEF Waves
<1>2. ASSUME NEW i \in 1..n
      PROVE  each[i] \in Seq(1..10) /\ each[i] # << >>
  <2>1. each[i] = [j \in 1..phases[i][2] |-> phases[i][1]]
    BY <1>0
  <2> DEFINE k == phases[i][2]
             x == phases[i][1]
             s == [j \in 1..k |-> x]
  <2>2. k \in Nat \ {0} /\ x \in 1..10
    BY <1>0
  <2> HIDE DEF k, x
  <2>3. s \in Seq(1..10) /\ Len(s) = k
    BY <2>2
  <2>4. s # << >>
    BY <2>2, <2>3
  <2> QED  BY <2>1, <2>3, <2>4 DEF k, x
<1>3. each = [i \in 1..n |-> each[i]]
  BY <1>0
<1> HIDE DEF each
<1>4. each \in Seq(Seq(1..10)) /\ Len(each) = n
  BY <1>2, <1>3
<1>5. each # << >> /\ each[Len(each)] # << >>
  BY <1>2, <1>4
<1> QED  BY <1>1, <1>4, <1>5, FlattenIsTyped

LEMMA RotationIsNamed ==
  ASSUME NEW b
  PROVE  Rotation(b) \in Seq(1..10) /\ Rotation(b) # << >>
<1>1. Tian \in Seq(1..10) /\ Tian # << >>
  <2> DEFINE phases == << <<1, 4>>, <<3, 3>>, <<4, 4>>, <<5, 3>>, <<10, 4>> >>
  <2>1. Phased(phases, 5)
    BY DEF Phased
  <2>2. Tian = Waves(phases)
    BY DEF Tian
  <2> HIDE DEF phases
  <2> QED  BY <2>1, <2>2, WavesAreNamed
<1>2. Hui \in Seq(1..10) /\ Hui # << >>
  <2> DEFINE phases == << <<2, 3>>, <<8, 4>>, <<7, 3>>, <<6, 4>>, <<9, 3>> >>
  <2>1. Phased(phases, 5)
    BY DEF Phased
  <2>2. Hui = Waves(phases)
    BY DEF Hui
  <2> HIDE DEF phases
  <2> QED  BY <2>1, <2>2, WavesAreNamed
<1> DEFINE all == [i \in DOMAIN Library |-> i]
<1>3. all \in Seq(1..10) /\ all # << >>
  <2>1. DOMAIN Library = 1..10
    BY DEF Library
  <2>2. all = [i \in 1..10 |-> i]
    BY <2>1
  <2>3. [i \in 1..10 |-> i] \in Seq(1..10) /\ Len([i \in 1..10 |-> i]) = 10
    OBVIOUS
  <2> HIDE DEF all
  <2>4. all # << >>
    BY <2>2, <2>3
  <2> QED  BY <2>2, <2>3, <2>4
<1>4. Rotation(b) \in {Tian, Hui, all}
  BY DEF Rotation
<1> HIDE DEF all
<1> QED  BY <1>1, <1>2, <1>3, <1>4

LEMMA PatternIsNamed ==
  ASSUME NEW b \in Battles, NEW f \in Nat
  PROVE  PatternIndex(b, f) \in 1..10
<1> DEFINE r == Rotation(b)
           k == f \div SchedulePeriod(b)
<1>1. r \in Seq(1..10) /\ Len(r) \in Nat \ {0}
  BY RotationIsNamed
<1>2. SchedulePeriod(b) \in Nat \ {0}
  BY ScaledPeriods DEF SchedulePeriod, Grid
<1>3. k \in Nat
  BY <1>2
<1> HIDE DEF k, r
<1>4. k % Len(r) \in 0 .. Len(r) - 1
  BY <1>1, <1>3
<1>5. (k % Len(r)) + 1 \in 1..Len(r)
  BY <1>1, <1>4
<1>6. r[(k % Len(r)) + 1] \in 1..10
  BY <1>1, <1>5
<1> QED  BY <1>6 DEF PatternIndex, k, r

(* Each pattern is one wave on the grid, or two.                           *)
LEMMA LibraryFacts ==
  ASSUME NEW p \in 1..10
  PROVE  /\ SyntheticCounts[p] \in Nat \ {0}
         /\ \E n \in Nat \ {0} : Library[p] = Alternating(n) \/ Library[p] = Steady(n)
<1>1. SyntheticCounts[p] \in Nat \ {0}
  BY DEF SyntheticCounts
<1>2. Library[p] \in {Alternating(16), Alternating(12), Steady(7), Alternating(4), Alternating(2),
                      Alternating(8), Alternating(6), Alternating(5), Alternating(10), Steady(4)}
  BY DEF Library
<1> QED  BY <1>1, <1>2

LEMMA TianSways ==
  ASSUME NEW t \in 0..300
  PROVE  400 * t - 60000 \in Int /\ 400 * t - 60000 >= -60000 /\ 400 * t - 60000 <= 60000
OBVIOUS

LEMMA HuiSways ==
  ASSUME NEW t \in 0..240
  PROVE  250 * t - 30000 \in Int /\ 250 * t - 30000 >= -30000 /\ 250 * t - 30000 <= 30000
OBVIOUS

LEMMA SwayIsBounded ==
  ASSUME NEW b \in Battles, NEW f \in Nat
  PROVE  EmitterOffset(b, f) \in -Amplitude(b)..Amplitude(b) /\ 0 \in -Amplitude(b)..Amplitude(b)
<1> DEFINE A == Amplitude(b)
           H == Half(b)
<1>1. A \in Nat
  BY DEF Amplitude
<1>2. CASE ~(b.boss \in Sways /\ b.ruleset # "synthetic")
  <2>1. EmitterOffset(b, f) = 0
    BY <1>2 DEF EmitterOffset
  <2> QED  BY <1>1, <2>1
<1>3. CASE b.boss = "tian" /\ b.ruleset # "synthetic"
  <2> DEFINE at == f % 600
             tri == IF at > 300 THEN 600 - at ELSE at
  <2>1. A = 60000 /\ H = 300 /\ b.boss \in Sways
    BY <1>3 DEF Amplitude, Half, Sways
  <2>2. EmitterOffset(b, f) = ((2 * 60000) \div 300) * tri - 60000
    BY <1>3, <2>1 DEF EmitterOffset
  <2>3. at \in 0..599
    OBVIOUS
  <2>4. tri \in 0..300
    BY <2>3
  <2>5. (2 * 60000) \div 300 = 400
    OBVIOUS
  <2> HIDE DEF tri, A
  <2>6. EmitterOffset(b, f) = 400 * tri - 60000
    BY <2>2, <2>5
  <2>7. EmitterOffset(b, f) \in Int /\ EmitterOffset(b, f) >= -A /\ EmitterOffset(b, f) <= A
    BY <2>1, <2>4, <2>6, TianSways
  <2>8. EmitterOffset(b, f) \in -A..A /\ 0 \in -A..A
    BY <1>1, <2>7
  <2> QED  BY <2>8 DEF A
<1>4. CASE b.boss = "hui" /\ b.ruleset # "synthetic"
  <2> DEFINE at == f % 480
             tri == IF at > 240 THEN 480 - at ELSE at
  <2>1. A = 30000 /\ H = 240 /\ b.boss \in Sways
    BY <1>4 DEF Amplitude, Half, Sways
  <2>2. EmitterOffset(b, f) = ((2 * 30000) \div 240) * tri - 30000
    BY <1>4, <2>1 DEF EmitterOffset
  <2>3. at \in 0..479
    OBVIOUS
  <2>4. tri \in 0..240
    BY <2>3
  <2>5. (2 * 30000) \div 240 = 250
    OBVIOUS
  <2> HIDE DEF tri, A
  <2>6. EmitterOffset(b, f) = 250 * tri - 30000
    BY <2>2, <2>5
  <2>7. EmitterOffset(b, f) \in Int /\ EmitterOffset(b, f) >= -A /\ EmitterOffset(b, f) <= A
    BY <2>1, <2>4, <2>6, HuiSways
  <2>8. EmitterOffset(b, f) \in -A..A /\ 0 \in -A..A
    BY <1>1, <2>7
  <2> QED  BY <2>8 DEF A
<1> QED  BY <1>2, <1>3, <1>4 DEF Sways

-----------------------------------------------------------------------------
(* A frame fires a pattern in range, with bullets if it is one of the      *)
(* slots, or exactly the nodes of the table that are due.                  *)
VolleyOK(v, b, phase, f) ==
  /\ v.pattern \in 0..10 /\ v.wave \in 0..89 /\ v.shots \in Nat
  /\ v.at \in -Amplitude(b)..Amplitude(b)
  /\ v.nodes = {i \in DOMAIN TableAt(b, phase) : Fires(b, TableAt(b, phase)[i], f)}
  /\ f > 0 /\ IsSlot(b, f) => v.shots > 0

LEMMA SlotFires ==
  ASSUME NEW b \in Battles, NEW phase, NEW f \in Nat, ~ChainTablesActive(b), NEW v,
         v.pattern \in 0..10, v.wave \in 0..89, v.shots \in Nat, v.at \in {0, EmitterOffset(b, f)}, v.nodes = {},
         IsSlot(b, f) => v.shots > 0
  PROVE  VolleyOK(v, b, phase, f)
<1>1. TableAt(b, phase) = << >>
  BY TableNodes
<1>2. v.at \in -Amplitude(b)..Amplitude(b)
  BY SwayIsBounded
<1> QED  BY <1>1, <1>2 DEF VolleyOK

LEMMA SilenceIsInRange ==
  ASSUME NEW b \in Battles, NEW phase, NEW f \in Nat, ~ChainTablesActive(b), ~IsSlot(b, f)
  PROVE  VolleyOK(Silence, b, phase, f)
<1>1. Silence.pattern = 0 /\ Silence.wave = 0 /\ Silence.shots = 0 /\ Silence.at = 0 /\ Silence.nodes = {}
  BY DEF Silence
<1> QED  BY <1>1, SlotFires

LEMMA SyntheticFires ==
  ASSUME NEW b \in Battles, NEW phase, NEW f \in Nat, ~ChainTablesActive(b)
  PROVE  VolleyOK(SyntheticVolley(b, f), b, phase, f)
<1> DEFINE p == PatternIndex(b, f)
           v == SyntheticVolley(b, f)
<1>1. p \in 1..10 /\ SyntheticCounts[p] \in Nat \ {0}
  BY PatternIsNamed, LibraryFacts
<1>2. v.pattern = p /\ v.wave = 0 /\ v.shots = SyntheticCounts[p] /\ v.at = 0 /\ v.nodes = {}
  BY DEF SyntheticVolley, Silence
<1> HIDE DEF p, v
<1>3. v.shots \in Nat /\ v.shots > 0
  BY <1>1, <1>2
<1> QED  BY <1>1, <1>2, <1>3, SlotFires DEF v

LEMMA RealFires ==
  ASSUME NEW b \in Battles, NEW phase, NEW f \in Nat, ~ChainTablesActive(b)
  PROVE  VolleyOK(RealVolley(b, f), b, phase, f)
<1> DEFINE p == PatternIndex(b, f)
           v == RealVolley(b, f)
           L == Library[p]
           at == PatternTick(b, f) % L.cycle
           k == f \div SchedulePeriod(b)
<1>1. p \in 1..10
  BY PatternIsNamed
<1>2. k \in Nat
  <2>1. SchedulePeriod(b) \in Nat \ {0}
    BY ScaledPeriods DEF SchedulePeriod, Grid
  <2> QED  BY <2>1
<1>3. PatternTick(b, f) = k * 45
  BY DEF PatternTick, Grid
<1>4. v.pattern = p /\ v.wave = at /\ v.at = EmitterOffset(b, f) /\ v.nodes = {}
      /\ v.shots = IF at \in DOMAIN L.counts THEN ScaleCount(b, L.counts[at]) ELSE 0
  BY DEF RealVolley, Silence
<1> HIDE DEF p, v, L, k
<1>5. at \in DOMAIN L.counts /\ at \in 0..89 /\ L.counts[at] \in Nat \ {0}
  <2>1. PICK n \in Nat \ {0} : L = Alternating(n) \/ L = Steady(n)
    BY <1>1, LibraryFacts DEF L
  <2>2. CASE L = Alternating(n)
    <3>1. L.cycle = 90 /\ L.counts = [t \in {0, 45} |-> n]
      BY <2>2 DEF Alternating, Grid
    <3>2. at = (k * 45) % 90
      BY <1>3, <3>1
    <3>3. (k * 45) % 90 \in {0, 45}
      BY <1>2
    <3> HIDE DEF at
    <3> QED  BY <3>1, <3>2, <3>3
  <2>3. CASE L = Steady(n)
    <3>1. L.cycle = 45 /\ L.counts = [t \in {0} |-> n]
      BY <2>3 DEF Steady, Grid
    <3>2. at = (k * 45) % 45
      BY <1>3, <3>1
    <3>3. (k * 45) % 45 = 0
      BY <1>2
    <3> HIDE DEF at
    <3> QED  BY <3>1, <3>2, <3>3
  <2> QED  BY <2>1, <2>2, <2>3
<1> HIDE DEF at
<1>6. v.shots \in Nat /\ v.shots > 0
  BY <1>4, <1>5, ScaledCounts
<1> QED  BY <1>1, <1>4, <1>5, <1>6, SlotFires DEF v

LEMMA ChainFires ==
  ASSUME NEW b \in Battles, NEW phase, NEW f \in Nat, ChainTablesActive(b)
  PROVE  VolleyOK(ChainVolley(b, phase, f), b, phase, f)
<1> DEFINE table == TableAt(b, phase)
           due == {i \in DOMAIN table : Fires(b, table[i], f)}
           bullets == [i \in due |-> table[i].nodes * ScaleCount(b, table[i].each)]
           v == ChainVolley(b, phase, f)
<1>1. v.pattern = 0 /\ v.wave = 0 /\ v.at = 0 /\ v.nodes = due
      /\ v.shots = MapThenSumSet(LAMBDA i : bullets[i], due)
  BY DEF ChainVolley, Silence
<1>2. ASSUME NEW i \in due PROVE bullets[i] \in Nat
  <2>1. table[i].nodes \in Nat /\ table[i].each \in Nat
    BY NodeFacts DEF Nodes
  <2>2. ScaleCount(b, table[i].each) \in Nat
    BY <2>1, ScaledCounts
  <2> DEFINE x == table[i].nodes
             y == ScaleCount(b, table[i].each)
  <2>3. bullets[i] = x * y
    OBVIOUS
  <2> HIDE DEF x, y, bullets
  <2> QED  BY <2>1, <2>2, <2>3 DEF x, y
<1>3. IsFiniteSet(due)
  <2>1. PICK n \in Nat : DOMAIN table = 1..n
    BY TablesAre DEF IsTable
  <2>2. IsFiniteSet(1..n)
    BY FS_Interval
  <2> QED  BY <2>1, <2>2, FS_Subset
<1>4. bullets \in [due -> Nat]
  BY <1>2
<1> HIDE DEF bullets, due, v
<1>5. SumOf(bullets, due) \in Nat
  BY <1>3, <1>4, SumIsNat
<1>6. v.shots \in Nat
  BY <1>1, <1>5 DEF SumOf
<1>7. v.at \in -Amplitude(b)..Amplitude(b)
  BY <1>1, SwayIsBounded
<1>8. ~IsSlot(b, f)
  BY DEF IsSlot
<1> QED  BY <1>1, <1>6, <1>7, <1>8 DEF VolleyOK, v, due

LEMMA EveryFrameFires ==
  ASSUME NEW b \in Battles, NEW phase, NEW f \in Nat
  PROVE  VolleyOK(VolleyAt(b, phase, f), b, phase, f)
<1>1. CASE ChainTablesActive(b)
  BY <1>1, ChainFires DEF VolleyAt
<1>2. CASE ~ChainTablesActive(b) /\ ~IsSlot(b, f)
  BY <1>2, SilenceIsInRange DEF VolleyAt
<1>3. CASE ~ChainTablesActive(b) /\ IsSlot(b, f)
  BY <1>3, SyntheticFires, RealFires DEF VolleyAt
<1> QED  BY <1>1, <1>2, <1>3

-----------------------------------------------------------------------------
(* The machines.  Which stage a machine is in is told by the frame alone:   *)
(* it goes through its stages after each due frame and idles until the next.*)
StageAt(a, b, c, t) ==
  IF t < a THEN [stage |-> 1, left |-> a - t]
  ELSE IF t < a + b THEN [stage |-> 2, left |-> (a + b) - t]
  ELSE IF t < a + b + c THEN [stage |-> 3, left |-> (a + b + c) - t]
  ELSE Idle

TicksAre(m, a, b, c) == m.ticks = <<a, b, c>>

GoesOn(m, a, b, c, t) ==
  t < a + b + c =>
    StageAt(a, b, c, t) # Idle /\ Continued(m, StageAt(a, b, c, t)) = StageAt(a, b, c, t + 1)

LEMMA AStageIsContinued ==
  ASSUME NEW m, NEW a \in 1..60, NEW b \in 1..60, NEW c \in 1..60, TicksAre(m, a, b, c), NEW t \in Nat
  PROVE  GoesOn(m, a, b, c, t)
<1> SUFFICES ASSUME t < a + b + c
             PROVE  StageAt(a, b, c, t) # Idle
                    /\ Continued(m, StageAt(a, b, c, t)) = StageAt(a, b, c, t + 1)
  BY DEF GoesOn
<1> DEFINE s == StageAt(a, b, c, t)
<1>1. Len(m.ticks) = 3 /\ m.ticks[2] = b /\ m.ticks[3] = c
  BY DEF TicksAre
<1>2. s = IF t < a THEN [stage |-> 1, left |-> a - t]
          ELSE IF t < a + b THEN [stage |-> 2, left |-> (a + b) - t]
          ELSE [stage |-> 3, left |-> (a + b + c) - t]
  BY DEF StageAt
<1>3. StageAt(a, b, c, t + 1) =
        IF t + 1 < a THEN [stage |-> 1, left |-> a - (t + 1)]
        ELSE IF t + 1 < a + b THEN [stage |-> 2, left |-> (a + b) - (t + 1)]
        ELSE IF t + 1 < a + b + c THEN [stage |-> 3, left |-> (a + b + c) - (t + 1)]
        ELSE Idle
  BY DEF StageAt
<1>4. Continued(m, s) =
        IF s.left > 1 THEN [s EXCEPT !.left = @ - 1]
        ELSE IF s.stage = 3 THEN Idle
        ELSE [stage |-> s.stage + 1, left |-> m.ticks[s.stage + 1]]
  <2> HIDE DEF s
  <2>1. s.stage \in 1..3 /\ s.left \in Nat
    <3>1. CASE t < a
      BY <1>2, <3>1
    <3>2. CASE ~(t < a) /\ t < a + b
      BY <1>2, <3>2
    <3>3. CASE ~(t < a) /\ ~(t < a + b)
      BY <1>2, <3>3
    <3> QED  BY <3>1, <3>2, <3>3
  <2>2. s.left > 1 <=> ~(s.left <= 1)
    BY <2>1
  <2>3. s.stage < 3 <=> ~(s.stage = 3)
    BY <2>1
  <2> QED  BY <1>1, <2>2, <2>3 DEF Continued
<1> HIDE DEF s
<1>5. CASE t < a
  <2>1. s = [stage |-> 1, left |-> a - t]
    BY <1>2, <1>5
  <2>2. CASE t + 1 < a
    <3>1. s.left > 1
      BY <2>1, <2>2
    <3>2. Continued(m, s) = [stage |-> 1, left |-> (a - t) - 1]
      BY <1>4, <2>1, <3>1
    <3>3. StageAt(a, b, c, t + 1) = [stage |-> 1, left |-> a - (t + 1)]
      BY <1>3, <2>2
    <3>4. (a - t) - 1 = a - (t + 1)
      OBVIOUS
    <3> QED  BY <2>1, <3>2, <3>3, <3>4 DEF Idle, s
  <2>3. CASE ~(t + 1 < a)
    <3>1. a - t = 1 /\ (a + b) - (t + 1) = b /\ t + 1 < a + b
      BY <1>5, <2>3
    <3>2. s = [stage |-> 1, left |-> 1]
      BY <2>1, <3>1
    <3>3. StageAt(a, b, c, t + 1) = [stage |-> 2, left |-> b]
      BY <1>3, <2>3, <3>1
    <3>4. Continued(m, s) = [stage |-> 2, left |-> m.ticks[2]]
      BY <1>4, <3>2
    <3> QED  BY <1>1, <3>2, <3>3, <3>4 DEF Idle, s
  <2> QED  BY <2>2, <2>3
<1>6. CASE ~(t < a) /\ t < a + b
  <2>1. s = [stage |-> 2, left |-> (a + b) - t]
    BY <1>2, <1>6
  <2>2. CASE t + 1 < a + b
    <3>1. s.left > 1 /\ ~(t + 1 < a)
      BY <1>6, <2>1, <2>2
    <3>2. Continued(m, s) = [stage |-> 2, left |-> ((a + b) - t) - 1]
      BY <1>4, <2>1, <3>1
    <3>3. StageAt(a, b, c, t + 1) = [stage |-> 2, left |-> (a + b) - (t + 1)]
      BY <1>3, <2>2, <3>1
    <3>4. ((a + b) - t) - 1 = (a + b) - (t + 1)
      OBVIOUS
    <3> QED  BY <2>1, <3>2, <3>3, <3>4 DEF Idle, s
  <2>3. CASE ~(t + 1 < a + b)
    <3>1. (a + b) - t = 1 /\ (a + b + c) - (t + 1) = c /\ t + 1 < a + b + c /\ ~(t + 1 < a)
      BY <1>6, <2>3
    <3>2. s = [stage |-> 2, left |-> 1]
      BY <2>1, <3>1
    <3>3. StageAt(a, b, c, t + 1) = [stage |-> 3, left |-> c]
      BY <1>3, <2>3, <3>1
    <3>4. Continued(m, s) = [stage |-> 3, left |-> m.ticks[3]]
      BY <1>4, <3>2
    <3> QED  BY <1>1, <3>2, <3>3, <3>4 DEF Idle, s
  <2> QED  BY <2>2, <2>3
<1>7. CASE ~(t < a) /\ ~(t < a + b)
  <2>1. s = [stage |-> 3, left |-> (a + b + c) - t]
    BY <1>2, <1>7
  <2>2. CASE t + 1 < a + b + c
    <3>1. s.left > 1 /\ ~(t + 1 < a) /\ ~(t + 1 < a + b)
      BY <1>7, <2>1, <2>2
    <3>2. Continued(m, s) = [stage |-> 3, left |-> ((a + b + c) - t) - 1]
      BY <1>4, <2>1, <3>1
    <3>3. StageAt(a, b, c, t + 1) = [stage |-> 3, left |-> (a + b + c) - (t + 1)]
      BY <1>3, <2>2, <3>1
    <3>4. ((a + b + c) - t) - 1 = (a + b + c) - (t + 1)
      OBVIOUS
    <3> QED  BY <2>1, <3>2, <3>3, <3>4 DEF Idle, s
  <2>3. CASE ~(t + 1 < a + b + c)
    <3>1. (a + b + c) - t = 1 /\ ~(t + 1 < a) /\ ~(t + 1 < a + b)
      BY <1>7, <2>3
    <3>2. s = [stage |-> 3, left |-> 1]
      BY <2>1, <3>1
    <3>3. StageAt(a, b, c, t + 1) = Idle
      BY <1>3, <2>3, <3>1
    <3>4. Continued(m, s) = Idle
      BY <1>4, <3>2
    <3> QED  BY <3>2, <3>3, <3>4 DEF Idle, s
  <2> QED  BY <2>2, <2>3
<1> QED  BY <1>5, <1>6, <1>7

LEMMA StagesAre ==
  ASSUME NEW a \in 1..60, NEW b \in 1..60, NEW c \in 1..60, NEW t \in Nat
  PROVE  /\ StageAt(a, b, c, 0) = [stage |-> 1, left |-> a]
         /\ StageAt(a, b, c, t).stage \in 0..3 /\ StageAt(a, b, c, t).left \in 0..60
<1>1. StageAt(a, b, c, 0) = [stage |-> 1, left |-> a]
  <2>1. 0 < a /\ a - 0 = a
    OBVIOUS
  <2> QED  BY <2>1 DEF StageAt
<1>2. StageAt(a, b, c, t).stage \in 0..3 /\ StageAt(a, b, c, t).left \in 0..60
  BY DEF StageAt, Idle
<1> QED  BY <1>1, <1>2

(* What a frame does to the clock of a machine.                            *)
ClockAt(n, f) == (f + 300) % n
IsDue(n, o, f) == f % n = o
Turns(n, o) ==
  \A f \in Nat :
    /\ ClockAt(n, f) \in Nat /\ (IsDue(n, o, f) <=> ClockAt(n, f) = 0)
    /\ ClockAt(n, f + 1) = IF ClockAt(n, f) + 1 = n THEN 0 ELSE ClockAt(n, f) + 1

FistAt(f) == StageAt(45, 15, 30, ClockAt(600, f))
CurtainAt(f) == StageAt(45, 60, 45, ClockAt(900, f))

Advances(m, n, a, b, c, f) ==
  LET s == StageAt(a, b, c, ClockAt(n, f)) IN
  /\ Advanced(m, s, f + 1) = StageAt(a, b, c, ClockAt(n, f + 1))
  /\ Due(m, f) => s = [stage |-> 1, left |-> a]
  /\ s.stage \in 0..3 /\ s.left \in 0..60

LEMMA AMachineAdvances ==
  ASSUME NEW m, NEW n \in Nat, NEW o \in Nat, NEW a \in 1..60, NEW b \in 1..60, NEW c \in 1..60,
         m.interval = n, m.offset = o, TicksAre(m, a, b, c), a + b + c < n, Turns(n, o), NEW f \in Nat
  PROVE  Advances(m, n, a, b, c, f)
<1> DEFINE t == ClockAt(n, f)
           u == ClockAt(n, f + 1)
<1>1. /\ t \in Nat /\ (IsDue(n, o, f) <=> t = 0)
      /\ u = IF t + 1 = n THEN 0 ELSE t + 1
  BY DEF Turns
<1>2. IsDue(n, o, f + 1) <=> u = 0
  <2>1. f + 1 \in Nat
    OBVIOUS
  <2> QED  BY <2>1 DEF Turns
<1>3. (Due(m, f) <=> t = 0) /\ (Due(m, f + 1) <=> u = 0)
  BY <1>1, <1>2 DEF Due, IsDue
<1> HIDE DEF t, u
<1>4. u \in Nat
  BY <1>1
<1>5. m.ticks[1] = a
  BY DEF TicksAre
<1>6. Advanced(m, StageAt(a, b, c, t), f + 1) = StageAt(a, b, c, u)
  <2>1. CASE t < a + b + c
    <3>1. StageAt(a, b, c, t) # Idle /\ Continued(m, StageAt(a, b, c, t)) = StageAt(a, b, c, t + 1)
      <4>1. GoesOn(m, a, b, c, t)
        BY <1>1, AStageIsContinued
      <4> QED  BY <2>1, <4>1 DEF GoesOn
    <3>2. u = t + 1
      BY <1>1, <2>1
    <3> QED  BY <3>1, <3>2 DEF Advanced
  <2>2. CASE ~(t < a + b + c)
    <3>1. StageAt(a, b, c, t) = Idle
      <4>1. ~(t < a) /\ ~(t < a + b)
        BY <1>1, <2>2
      <4> QED  BY <2>2, <4>1 DEF StageAt
    <3>2. CASE u = 0
      <4>1. Advanced(m, Idle, f + 1) = [stage |-> 1, left |-> a]
        BY <1>3, <1>5, <3>2 DEF Advanced
      <4> QED  BY <1>4, <3>1, <3>2, <4>1, StagesAre
    <3>3. CASE u # 0
      <4>1. ~(u < a) /\ ~(u < a + b) /\ ~(u < a + b + c)
        BY <1>1, <2>2, <3>3
      <4>2. StageAt(a, b, c, u) = Idle
        BY <4>1 DEF StageAt
      <4>3. Advanced(m, Idle, f + 1) = Idle
        BY <1>3, <3>3 DEF Advanced
      <4> QED  BY <3>1, <4>2, <4>3
    <3> QED  BY <3>2, <3>3
  <2> QED  BY <2>1, <2>2
<1>7. Due(m, f) => StageAt(a, b, c, t) = [stage |-> 1, left |-> a]
  BY <1>1, <1>3, StagesAre
<1>8. StageAt(a, b, c, t).stage \in 0..3 /\ StageAt(a, b, c, t).left \in 0..60
  BY <1>1, StagesAre
<1> QED  BY <1>6, <1>7, <1>8 DEF Advances, t, u

Shaped(m, n, o, a, b, c) ==
  /\ n \in Nat /\ o \in Nat /\ a \in 1..60 /\ b \in 1..60 /\ c \in 1..60 /\ a + b + c < n
  /\ m.interval = n /\ m.offset = o /\ TicksAre(m, a, b, c)

LEMMA ShapedAdvances ==
  ASSUME NEW m, NEW n, NEW o, NEW a, NEW b, NEW c, Shaped(m, n, o, a, b, c), Turns(n, o), NEW f \in Nat
  PROVE  Advances(m, n, a, b, c, f)
BY AMachineAdvances DEF Shaped

LEMMA TheFistAdvances ==
  ASSUME NEW f \in Nat
  PROVE  /\ FistAt(0) = Idle
         /\ Advanced(Fist, FistAt(f), f + 1) = FistAt(f + 1)
         /\ Due(Fist, f) => FistAt(f) = [stage |-> 1, left |-> Fist.ticks[1]]
         /\ FistAt(f).stage \in 0..3 /\ FistAt(f).left \in 0..60
<1>1. Fist.interval = 600 /\ Fist.offset = 300 /\ Fist.ticks = <<45, 15, 30>> /\ Fist.ticks[1] = 45
  BY DEF Fist
<1>2. Turns(600, 300)
  BY DEF Turns, ClockAt, IsDue
<1>3. FistAt(0) = Idle
  <2>1. (0 + 300) % 600 = 300
    OBVIOUS
  <2> QED  BY <2>1 DEF FistAt, StageAt, ClockAt
<1>4. Shaped(Fist, 600, 300, 45, 15, 30)
  BY <1>1 DEF Shaped, TicksAre
<1>5. Advances(Fist, 600, 45, 15, 30, f)
  BY <1>2, <1>4, ShapedAdvances
<1> QED  BY <1>1, <1>3, <1>5 DEF Advances, FistAt

LEMMA TheCurtainAdvances ==
  ASSUME NEW f \in Nat
  PROVE  /\ CurtainAt(0) = Idle
         /\ Advanced(Curtain, CurtainAt(f), f + 1) = CurtainAt(f + 1)
         /\ Due(Curtain, f) => CurtainAt(f) = [stage |-> 1, left |-> Curtain.ticks[1]]
         /\ CurtainAt(f).stage \in 0..3 /\ CurtainAt(f).left \in 0..60
<1>1. /\ Curtain.interval = 900 /\ Curtain.offset = 600 /\ Curtain.ticks = <<45, 60, 45>>
      /\ Curtain.ticks[1] = 45
  BY DEF Curtain
<1>2. Turns(900, 600)
  BY DEF Turns, ClockAt, IsDue
<1>3. CurtainAt(0) = Idle
  <2>1. (0 + 300) % 900 = 300
    OBVIOUS
  <2> QED  BY <2>1 DEF CurtainAt, StageAt, ClockAt
<1>4. Shaped(Curtain, 900, 600, 45, 60, 45)
  BY <1>1 DEF Shaped, TicksAre
<1>5. Advances(Curtain, 900, 45, 60, 45, f)
  BY <1>2, <1>4, ShapedAdvances
<1> QED  BY <1>1, <1>3, <1>5 DEF Advances, CurtainAt

-----------------------------------------------------------------------------
(* The inductive invariant.  Since a node fired last, or the table came    *)
(* into use, it was due on no frame.                                       *)
Kept(b, phase, last, f) ==
  LET table == TableAt(b, phase) IN
  /\ DOMAIN last = DOMAIN table
  /\ \A i \in DOMAIN table :
       /\ last[i] \in Nat /\ last[i] <= f
       /\ \A g \in last[i] + 1 .. f : ~Fires(b, table[i], g)

InRange(v, b, f) ==
  /\ v.pattern \in 0..10 /\ v.wave \in 0..89 /\ v.shots \in Nat
  /\ v.at \in -Amplitude(b)..Amplitude(b)
  /\ f > 0 /\ IsSlot(b, f) => v.shots > 0

Clockwork ==
  IF fight.ruleset = "mechanics" THEN fist = FistAt(frame) /\ curtain = CurtainAt(frame)
  ELSE fist = Idle /\ curtain = Idle

TimelineInv ==
  /\ fight \in Battles /\ frame \in Nat /\ frame <= TopFrame /\ spell \in {0, 1, 2}
  /\ InRange(volley, fight, frame) /\ volley.nodes \subseteq DOMAIN lastFired \cup 1..9
  /\ Kept(fight, spell, lastFired, frame)
  /\ Clockwork

LEMMA TheTimelineStarts == TimelineInit => TimelineInv
<1> SUFFICES ASSUME TimelineInit PROVE TimelineInv
  OBVIOUS
<1> USE TimelineAssumption
<1>1. fight \in Battles /\ frame = 0 /\ spell = 0 /\ volley = Silence /\ fist = Idle /\ curtain = Idle
      /\ lastFired = [i \in DOMAIN TableAt(fight, 0) |-> 0]
  BY DEF TimelineInit
<1>2. volley.pattern = 0 /\ volley.wave = 0 /\ volley.shots = 0 /\ volley.at = 0 /\ volley.nodes = {}
  BY <1>1 DEF Silence
<1>3. 0 \in -Amplitude(fight)..Amplitude(fight)
  BY <1>1, SwayIsBounded
<1>4. InRange(volley, fight, frame)
  BY <1>1, <1>2, <1>3 DEF InRange
<1>5. Kept(fight, spell, lastFired, frame)
  BY <1>1 DEF Kept
<1>6. Clockwork
  BY <1>1, TheFistAdvances, TheCurtainAdvances DEF Clockwork
<1> QED  BY <1>1, <1>2, <1>4, <1>5, <1>6 DEF TimelineInv

LEMMA TablesOfAStep ==
  ASSUME NEW b \in Battles, NEW s \in {0, 1, 2}, NEW t \in {0, 1, 2}, s = t \/ s < 2
  PROVE  DOMAIN TableAt(b, s) \subseteq DOMAIN TableAt(b, t) \cup 1..9
<1>1. CASE s = t
  BY <1>1
<1>2. CASE s < 2
  <2>1. ~(s >= 2)
    BY <1>2
  <2>2. TableAt(b, s) = << >> \/ TableAt(b, s) = Boss21 \/ TableAt(b, s) = State14
    BY <2>1, TableNodes
  <2>3. DOMAIN << >> = 1..0 /\ DOMAIN Boss21 = 1..6 /\ DOMAIN State14 = 1..9
    BY Boss21Nodes, State14Nodes DEF IsTable
  <2> QED  BY <2>2, <2>3
<1> QED  BY <1>1, <1>2

LEMMA WhatIsDueIsKept ==
  ASSUME NEW b \in Battles, NEW s, NEW t, NEW f \in Nat, NEW last, NEW after, NEW nodes,
         Kept(b, s, last, f),
         nodes = {i \in DOMAIN TableAt(b, s) : Fires(b, TableAt(b, s)[i], f + 1)},
         after = [i \in DOMAIN TableAt(b, t) |->
                    IF TableAt(b, t) # TableAt(b, s) \/ i \in nodes THEN f + 1 ELSE last[i]]
  PROVE  Kept(b, t, after, f + 1)
<1> DEFINE new == TableAt(b, t)
           old == TableAt(b, s)
<1>1. DOMAIN after = DOMAIN new
  OBVIOUS
<1>2. ASSUME NEW i \in DOMAIN new
      PROVE  /\ after[i] \in Nat /\ after[i] <= f + 1
             /\ \A g \in after[i] + 1 .. f + 1 : ~Fires(b, new[i], g)
  <2>1. CASE new # old \/ i \in nodes
    <3>1. after[i] = f + 1
      BY <2>1
    <3> HIDE DEF new, old
    <3> QED  BY <3>1
  <2>2. CASE ~(new # old \/ i \in nodes)
    <3>1. after[i] = last[i] /\ new = old /\ ~Fires(b, new[i], f + 1)
      BY <2>2
    <3>2. last[i] \in Nat /\ last[i] <= f /\ \A g \in last[i] + 1 .. f : ~Fires(b, old[i], g)
      BY <3>1 DEF Kept
    <3> HIDE DEF new, old
    <3>3. ASSUME NEW g \in last[i] + 1 .. f + 1 PROVE ~Fires(b, new[i], g)
      <4>1. g \in last[i] + 1 .. f \/ g = f + 1
        BY <3>2
      <4> QED  BY <3>1, <3>2, <4>1
    <3> QED  BY <3>1, <3>2, <3>3
  <2> QED  BY <2>1, <2>2
<1> QED  BY <1>1, <1>2 DEF Kept

LEMMA TheTimelineRuns == TimelineInv /\ [TimelineNext]_timelineVars => TimelineInv'
<1> SUFFICES ASSUME TimelineInv, [TimelineNext]_timelineVars PROVE TimelineInv'
  OBVIOUS
<1>0. /\ fight \in Battles /\ frame \in Nat /\ frame <= TopFrame /\ spell \in {0, 1, 2}
      /\ InRange(volley, fight, frame) /\ volley.nodes \subseteq DOMAIN lastFired \cup 1..9
      /\ Kept(fight, spell, lastFired, frame)
      /\ Clockwork
  BY DEF TimelineInv
<1>1. CASE UNCHANGED timelineVars
  BY <1>0, <1>1 DEF timelineVars, TimelineInv, Clockwork
<1>2. CASE Frame
  <2>1. /\ fight' = fight /\ frame' = frame + 1 /\ frame < TopFrame
        /\ volley' = VolleyAt(fight, spell, frame')
        /\ spell' \in IF fight.ruleset = "mechanics" /\ spell < 2 THEN {spell, spell + 1} ELSE {spell}
        /\ fist' = IF fight.ruleset = "mechanics" THEN Advanced(Fist, fist, frame') ELSE fist
        /\ curtain' = IF fight.ruleset = "mechanics" THEN Advanced(Curtain, curtain, frame') ELSE curtain
        /\ lastFired' = [i \in DOMAIN TableAt(fight, spell') |->
              IF TableAt(fight, spell') # TableAt(fight, spell) \/ i \in volley'.nodes
              THEN frame' ELSE lastFired[i]]
    BY <1>2 DEF Frame
  <2>2. frame' \in Nat /\ frame' <= TopFrame
    BY <1>0, <2>1, TimelineAssumption
  <2>3. spell' \in {0, 1, 2} /\ (spell = spell' \/ spell < 2)
    BY <1>0, <2>1
  <2>4. VolleyOK(volley', fight, spell, frame')
    BY <1>0, <2>1, <2>2, EveryFrameFires
  <2>5. InRange(volley', fight', frame')
    BY <2>1, <2>4 DEF VolleyOK, InRange
  <2>6. volley'.nodes = {i \in DOMAIN TableAt(fight, spell) : Fires(fight, TableAt(fight, spell)[i], frame + 1)}
    BY <2>1, <2>4 DEF VolleyOK
  <2>7. Kept(fight', spell', lastFired', frame')
    <3> DEFINE t == spell'
               after == lastFired'
               nodes == volley'.nodes
    <3>1. nodes = {i \in DOMAIN TableAt(fight, spell) : Fires(fight, TableAt(fight, spell)[i], frame + 1)}
      BY <2>6
    <3>2. after = [i \in DOMAIN TableAt(fight, t) |->
                     IF TableAt(fight, t) # TableAt(fight, spell) \/ i \in nodes THEN frame + 1 ELSE lastFired[i]]
      BY <2>1
    <3> HIDE DEF t, after, nodes
    <3>3. Kept(fight, t, after, frame + 1)
      BY <1>0, <3>1, <3>2, WhatIsDueIsKept
    <3>4. Kept(fight, spell', lastFired', frame + 1)
      BY <3>3 DEF t, after
    <3> QED  BY <2>1, <3>4
  <2>8. volley'.nodes \subseteq DOMAIN lastFired' \cup 1..9
    <3>1. DOMAIN TableAt(fight, spell) \subseteq DOMAIN TableAt(fight, spell') \cup 1..9
      BY <1>0, <2>3, TablesOfAStep
    <3>2. DOMAIN lastFired' = DOMAIN TableAt(fight, spell')
      BY <2>1
    <3> QED  BY <2>6, <3>1, <3>2
  <2>9. Clockwork'
    BY <1>0, <2>1, TheFistAdvances, TheCurtainAdvances DEF Clockwork
  <2> QED  BY <1>0, <2>1, <2>2, <2>3, <2>5, <2>7, <2>8, <2>9 DEF TimelineInv
<1> QED  BY <1>1, <1>2 DEF TimelineNext

LEMMA ANodeIsNotForgotten ==
  ASSUME NEW b \in Battles, NEW phase, NEW f \in Nat, NEW last, Kept(b, phase, last, f),
         NEW i \in DOMAIN TableAt(b, phase), TableAt(b, phase)[i].each > 0
  PROVE  f - last[i] < ScalePeriod(b, TableAt(b, phase)[i].period)
<1> DEFINE node == TableAt(b, phase)[i]
           p == ScalePeriod(b, node.period)
           a == last[i]
           ph == node.phase
<1>1. p \in Nat \ {0} /\ ph \in 0 .. p - 1
  BY NodeFacts
<1>2. a \in Nat /\ a <= f /\ \A g \in a + 1 .. f : ~Fires(b, node, g)
  BY DEF Kept
<1>3. \A g : Fires(b, node, g) <=> g % p = ph
  BY DEF Fires
<1> HIDE DEF node, p, a, ph
<1>4. PICK g \in a + 1 .. a + p : g % p = ph
  BY <1>1, <1>2, DueWithinAPeriod
<1>5. ~(g \in a + 1 .. f)
  BY <1>2, <1>3, <1>4
<1>6. f - a < p
  BY <1>1, <1>2, <1>4, <1>5
<1> QED  BY <1>6 DEF node, p, a

LEMMA TheTimelineIsTyped == TimelineInv => TimelineTypeOK
<1> SUFFICES ASSUME TimelineInv PROVE TimelineTypeOK
  OBVIOUS
<1>1. /\ fight \in Battles /\ frame \in Nat /\ frame <= TopFrame /\ spell \in {0, 1, 2}
      /\ InRange(volley, fight, frame) /\ volley.nodes \subseteq DOMAIN lastFired \cup 1..9 /\ Clockwork
  BY DEF TimelineInv
<1>2. frame \in 0..TopFrame /\ spell \in 0..2
  BY <1>1, TimelineAssumption
<1>3. Len(Library) = 10 /\ 2 * Grid - 1 = 89
  BY DEF Library, Grid
<1>4. /\ volley.pattern \in 0..Len(Library) /\ volley.wave \in 0..(2 * Grid - 1) /\ volley.shots \in Nat
      /\ volley.at \in -Amplitude(fight)..Amplitude(fight)
  BY <1>1, <1>3 DEF InRange
<1>5. Idle.stage \in 0..3 /\ Idle.left \in 0..60
  BY DEF Idle
<1>6. \A m \in {fist, curtain} : m.stage \in 0..3 /\ m.left \in 0..60
  BY <1>1, <1>5, TheFistAdvances, TheCurtainAdvances DEF Clockwork
<1> QED  BY <1>1, <1>2, <1>4, <1>6 DEF TimelineTypeOK

LEMMA TheTimelineSkipsNothing == TimelineInv => NothingScheduledIsSkipped
<1> SUFFICES ASSUME TimelineInv PROVE NothingScheduledIsSkipped
  OBVIOUS
<1>1. /\ fight \in Battles /\ frame \in Nat /\ InRange(volley, fight, frame)
      /\ Kept(fight, spell, lastFired, frame) /\ Clockwork
  BY DEF TimelineInv
<1>2. frame > 0 /\ IsSlot(fight, frame) => volley.shots > 0
  BY <1>1 DEF InRange
<1>3. ASSUME NEW i \in DOMAIN TableAt(fight, spell), TableAt(fight, spell)[i].each > 0
      PROVE  frame - lastFired[i] < ScalePeriod(fight, TableAt(fight, spell)[i].period)
  BY <1>1, <1>3, ANodeIsNotForgotten
<1>4. ASSUME fight.ruleset = "mechanics"
      PROVE  /\ Due(Fist, frame) => fist = [stage |-> 1, left |-> Fist.ticks[1]]
             /\ Due(Curtain, frame) => curtain = [stage |-> 1, left |-> Curtain.ticks[1]]
  BY <1>1, <1>4, TheFistAdvances, TheCurtainAdvances DEF Clockwork
<1> QED  BY <1>2, <1>3, <1>4 DEF NothingScheduledIsSkipped

(* Every slot of the rotation fires bullets, every node that has bullets   *)
(* fires within each of its periods, and a machine that is due starts, at  *)
(* each difficulty and on every frame.                                     *)
THEOREM NothingIsSkipped == TimelineSpec => []NothingScheduledIsSkipped
<1>1. TimelineSpec => []TimelineInv
  BY TheTimelineStarts, TheTimelineRuns, PTL DEF TimelineSpec
<1> QED  BY <1>1, TheTimelineSkipsNothing, PTL

(* The timeline keeps its types.                                           *)
THEOREM TimelineTypes == TimelineSpec => []TimelineTypeOK
<1>1. TimelineSpec => []TimelineInv
  BY TheTimelineStarts, TheTimelineRuns, PTL DEF TimelineSpec
<1> QED  BY <1>1, TheTimelineIsTyped, PTL

(***************************************************************************)
(* The parts together.  A step of one leaves the others alone.             *)
(***************************************************************************)
LEMMA EveryEdgeStarts ==
  EdgesInit => PacketInit /\ KcpInit /\ ResultInit /\ DemInit /\ ReportInit /\ TimelineInit /\ edge \in Edges
BY DEF EdgesInit

LEMMA EveryEdgeSteps ==
  [EdgesNext]_edgeVars =>
    /\ [PacketNext]_packetVars /\ [KcpNext]_kcpVars /\ [ResultNext]_resultVars
    /\ [DemNext]_demVars /\ [ReportNext]_reportVars /\ [TimelineNext]_timelineVars
    /\ edge' = edge
BY DEF EdgesNext, Packeting, Polling, Settling, Replaying, Reporting, Firing, edgeVars, waysVars, recordVars

(* A behaviour around a match is a behaviour of each of its parts: what is  *)
(* proved of a part holds of it.                                           *)
THEOREM EachEdgeIsItself ==
  EdgesSpec => PacketSpec /\ KcpSpec /\ ResultSpec /\ DemSpec /\ ReportSpec /\ TimelineSpec
BY EveryEdgeStarts, EveryEdgeSteps, PTL
   DEF EdgesSpec, PacketSpec, KcpSpec, ResultSpec, DemSpec, ReportSpec, TimelineSpec

(* Everything around a match stays in its range.                           *)
THEOREM EdgesTypes == EdgesSpec => []EdgesTypeOK
<1>1. EdgesSpec => [](edge \in Edges)
  <2>1. EdgesInit => edge \in Edges
    BY EveryEdgeStarts
  <2>2. edge \in Edges /\ [EdgesNext]_edgeVars => (edge \in Edges)'
    BY EveryEdgeSteps
  <2> QED  BY <2>1, <2>2, PTL DEF EdgesSpec
<1>2. /\ edge \in Edges /\ PacketTypeOK /\ KcpTypeOK /\ SessionsAreBounded
      /\ DemTypeOK /\ ReportTypeOK /\ TimelineTypeOK
      => EdgesTypeOK
  BY DEF EdgesTypeOK
<1> QED
  BY <1>1, <1>2, EachEdgeIsItself, PacketTypeCorrect, KcpTypeCorrect, SessionsStayBounded, DemTypes,
     ReportTypes, TimelineTypes, PTL
=============================================================================
