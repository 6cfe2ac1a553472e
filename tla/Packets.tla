------------------------------ MODULE Packets -------------------------------
(***************************************************************************)
(* The way of a packet into a match: KcpAeadPacketAdapter (src/src/        *)
(* kcp_endpoint.cpp), BattleServer::Dispatch, DispatchEncrypted and the    *)
(* decoded pipeline (src/src/server.cpp), and BattleDispatcher             *)
(* (src/src/protocol.cpp), which remembers numbers, ticks and nonces.      *)
(*                                                                         *)
(* A refused packet changes nothing but counters, so the actions are the   *)
(* accepted ones and their guards the checks.  The checks of form (empty   *)
(* fields, the shape of nonce and tag, the JSON of a mode action, the ack  *)
(* not being ahead) are passed by every packet here.  A nonce is a hash of *)
(* the header, so the header stands for it.  The simulation is only seen   *)
(* through its clock, who is connected, and the last number it took.       *)
(***************************************************************************)
EXTENDS Admission

CONSTANTS
  Gamers,      \* player ids of the match
  Hellos,      \* handshakes that may be said, with ticket and player
  Headers,     \* headers of the packets that may be sent
  Remotes,     \* remote endpoints "ip:port"
  Jump,        \* 600: the most ticks a match may leap
  InputAhead,  \* max_input_ahead_ticks
  MaxNo, TopTick, TopClock   \* bounds of the runs

Windowed == {"input", "mode_action"}
Types == Windowed \cup {"ping", "reconnect"}
NoKey == <<>>
Nowhere == "nowhere"
Unknown == -1

Verified == {h \in Hellos : Verify(h.ticket) = "ok" /\ Answer(h) = "ok"}
Keys == {KeyRef(h) : h \in Verified}
AllHeaders == [player : Gamers, key : Keys, type : Types, tick : 0..TopTick, no : 1..MaxNo]

ASSUME PacketsAssumption ==
  /\ {Jump, InputAhead, MaxNo, TopTick, TopClock} \subseteq Nat
  /\ Headers \subseteq AllHeaders /\ NoKey \notin Keys /\ Nowhere \notin Remotes
  /\ \A h \in Hellos : h.player \in Gamers

VARIABLES
  open,       \* the match has a simulation and is not settled
  now,        \* CurrentTick of the simulation
  there,      \* IsPlayerConnected
  taken,      \* the simulation's PlayerState::last_seq
  keyOf,      \* BattleSessionRecord::key_id, NoKey before a handshake
  lastNo,     \* last_seq_by_player_, 0 when absent
  lastTick,   \* last_tick_by_match_, Unknown when absent
  nonces,     \* seen_encrypted_nonces_
  home        \* remote_endpoint_by_session_, Nowhere when absent

simulationVars == <<open, now, there, taken>>
dispatcherVars == <<lastNo, lastTick, nonces>>
packetVars == <<simulationVars, keyOf, dispatcherVars, home>>

PacketInit ==
  /\ open = TRUE /\ now = 0 /\ there = [p \in Gamers |-> TRUE] /\ taken = [p \in Gamers |-> 0]
  /\ keyOf = [p \in Gamers |-> NoKey]
  /\ lastNo = [p \in Gamers |-> 0] /\ lastTick = Unknown /\ nonces = {}
  /\ home = [p \in Gamers |-> [k \in Keys |-> Nowhere]]
-----------------------------------------------------------------------------
(* BattleDispatcher::Dispatch.                                             *)
\* mutant: the number last used is accepted again
NewerOrSame(h) == h.no >= lastNo[h.player]

Newer(h) == h.no > lastNo[h.player]

\* mutant: the tick is compared after it has been taken over
WithinJumpLate(h) == TRUE

WithinJump(h) == lastTick = Unknown \/ h.tick <= lastTick + Jump

(* The entry of a match is created at 0, so the first tick is kept as the  *)
(* larger of the two.                                                      *)
Noted(h) ==
  /\ lastNo' = [lastNo EXCEPT ![h.player] = h.no]
  /\ lastTick' = IF h.tick > lastTick THEN h.tick ELSE lastTick

(* ValidateEncryptedSession.                                               *)
InSession(h) == keyOf[h.player] # NoKey /\ h.key = keyOf[h.player]

(* BattleServer::DispatchEncrypted before it asks the dispatcher.          *)
Admits(h) ==
  /\ open /\ InSession(h)
  /\ h.type \in Windowed => there[h.player] /\ h.tick \in now + 1 .. now + InputAhead
  /\ h.type = "reconnect" => ~there[h.player]

(* BattleDispatcher::DispatchEncrypted.                                    *)
DispatchEncrypted(h) ==
  /\ Admits(h)
  /\ h \notin nonces /\ Newer(h) /\ WithinJump(h)
  /\ Noted(h)
  /\ nonces' = nonces \cup {h}

(* BattleServer::Dispatch: in plain text neither key nor window nor nonce  *)
(* is looked at.                                                           *)
Dispatch(h) ==
  /\ open /\ Newer(h) /\ WithinJump(h)
  /\ Noted(h)
  /\ UNCHANGED <<simulationVars, keyOf, nonces, home>>
-----------------------------------------------------------------------------
Home(h) == home[h.player][h.key]

\* mutant: a ping is not compared with the remote the session is bound to
AtHomeUnlessPing(h, r) ==
  IF h.type = "reconnect" THEN Home(h) \in {Nowhere, r} \/ ~there[h.player]
  ELSE h.type = "ping" \/ Home(h) \in {Nowhere, r}

AtHome(h, r) ==
  IF h.type = "reconnect" THEN Home(h) \in {Nowhere, r} \/ ~there[h.player]
  ELSE Home(h) \in {Nowhere, r}

(* ProcessEncryptedDatagram: the packet is acknowledged, not applied.      *)
ProcessEncryptedDatagram(h, r) ==
  /\ AtHome(h, r)
  /\ DispatchEncrypted(h)
  /\ home' = [home EXCEPT ![h.player][h.key] = r]
  /\ UNCHANGED <<simulationVars, keyOf>>

(* ProcessDecodedPacket: what the dispatcher took goes to the simulation,  *)
(* which may still refuse an input; the number is then spent.  A reconnect *)
(* is a mode action first: refused as one, it does not reconnect.          *)
ProcessDecodedPacket(h) ==
  /\ h.type # "ping"
  /\ DispatchEncrypted(h)
  /\ \/ UNCHANGED <<taken, there>>
     \/ /\ h.no > taken[h.player]
        /\ taken' = [taken EXCEPT ![h.player] = h.no]
        /\ there' = [there EXCEPT ![h.player] = TRUE]
  /\ UNCHANGED <<open, now, keyOf, home>>

(* AcceptHandshake: said again, it replaces the key; the numbers go on.    *)
Handshake(hello) ==
  /\ open
  /\ hello \in Verified
  /\ keyOf' = [keyOf EXCEPT ![hello.player] = KeyRef(hello)]
  /\ UNCHANGED <<simulationVars, dispatcherVars, home>>

(* What the server does to the simulation meanwhile.                       *)
SetPlayerConnected(p, connected) ==
  /\ open /\ there' = [there EXCEPT ![p] = connected]
  /\ UNCHANGED <<open, now, taken, keyOf, dispatcherVars, home>>

(* A tick brings back those whose reconnect was still queued, which are    *)
(* players the simulation has taken a packet of.                           *)
SimulationTicks ==
  /\ open /\ now < TopClock /\ now' = now + 1
  /\ \E back \in SUBSET {p \in Gamers : taken[p] > 0} :
       there' = [p \in Gamers |-> there[p] \/ p \in back]
  /\ UNCHANGED <<open, taken, keyOf, dispatcherVars, home>>

Settles ==
  /\ open /\ open' = FALSE
  /\ UNCHANGED <<now, there, taken, keyOf, dispatcherVars, home>>

PacketNext ==
  \/ \E h \in Headers :
       \/ Dispatch(h) \/ ProcessDecodedPacket(h)
       \/ \E r \in Remotes : ProcessEncryptedDatagram(h, r)
  \/ \E hello \in Hellos : Handshake(hello)
  \/ \E p \in Gamers, connected \in BOOLEAN : SetPlayerConnected(p, connected)
  \/ SimulationTicks \/ Settles

PacketSpec == PacketInit /\ [][PacketNext]_packetVars
-----------------------------------------------------------------------------
PacketTypeOK ==
  /\ open \in BOOLEAN /\ now \in 0..TopClock /\ there \in [Gamers -> BOOLEAN]
  /\ taken \in [Gamers -> 0..MaxNo] /\ keyOf \in [Gamers -> Keys \cup {NoKey}]
  /\ lastNo \in [Gamers -> 0..MaxNo] /\ lastTick \in 0..TopTick \cup {Unknown}
  /\ nonces \subseteq Headers
  /\ home \in [Gamers -> [Keys -> Remotes \cup {Nowhere}]]

(* A number of a player opens the door once, whatever type of packet it    *)
(* stands on and under whichever key: no two packets that were accepted    *)
(* share it, and neither the simulation nor a nonce is ahead of what the   *)
(* dispatcher remembers, also across a new handshake.                      *)
OneAcceptancePerNumber ==
  /\ \A m, n \in nonces : m.player = n.player /\ m.no = n.no => m = n
  /\ \A n \in nonces : n.no <= lastNo[n.player]
  /\ \A p \in Gamers : taken[p] <= lastNo[p]

(* The remote endpoint a session is bound to is only ever replaced while   *)
(* its player is disconnected.                                             *)
RemoteMovesWhileAway ==
  [][\A p \in Gamers, k \in Keys :
       home[p][k] # Nowhere /\ home'[p][k] # home[p][k] => ~there[p] /\ ~there'[p]]_packetVars

(* A match nobody spoke to for more than Jump ticks is deaf: its           *)
(* simulation asks for a tick the dispatcher takes for a leap, so what a   *)
(* connected player does reaches it no more until a ping or a reconnect    *)
(* has brought the dispatcher's clock along.                               *)
Deaf == lastTick # Unknown /\ now + 1 > lastTick + Jump
SilenceDeafens ==
  [][Deaf => \A p \in Gamers : there[p] => taken'[p] = taken[p]]_packetVars
=============================================================================
