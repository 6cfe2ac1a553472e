---------------------------- MODULE KcpSessions -----------------------------
(***************************************************************************)
(* The KCP endpoint of a match server: KcpServerEndpoint of src/src/       *)
(* kcp_server_endpoint.cpp.  Whoever sends a datagram picks the number of  *)
(* the conversation; the server picks one itself when it speaks first.     *)
(* Sessions are not destroyed before the endpoint is closed.               *)
(***************************************************************************)
EXTENDS Integers, FiniteSets

CONSTANTS
  Peers,        \* remote endpoints, as "ip:port"
  ConvCount,    \* 2^32: conversation numbers are below it
  FirstOwn,     \* 0x80000001
  MaxSessions   \* config.max_sessions

Convs == 0 .. ConvCount - 1
NoPeer == "no peer"
NoConv == -1

ASSUME KcpAssumption ==
  /\ ConvCount \in Nat \ {0} /\ FirstOwn \in Convs /\ MaxSessions \in Nat
  /\ NoPeer \notin Peers

VARIABLES
  bound,      \* fd >= 0
  sessions,   \* sessions_by_conv: its remote_key, NoPeer without a session
  index,      \* conv_by_remote, NoConv when absent
  ownConv     \* next_server_conv

kcpVars == <<bound, sessions, index, ownConv>>

Count == Cardinality({c \in Convs : sessions[c] # NoPeer})

\* mutant: the limit is exceeded by one
HasRoomForOneMore == Count <= MaxSessions

HasRoom == Count < MaxSessions

KcpInit ==
  /\ bound = FALSE /\ ownConv = FirstOwn
  /\ sessions = [c \in Convs |-> NoPeer] /\ index = [r \in Peers |-> NoConv]

Bind == ~bound /\ bound' = TRUE /\ UNCHANGED <<sessions, index, ownConv>>

(* The counter of own numbers goes on where it was.                        *)
Close ==
  /\ bound' = FALSE
  /\ sessions' = [c \in Convs |-> NoPeer] /\ index' = [r \in Peers |-> NoConv]
  /\ UNCHANGED ownConv

\* mutant: the entry of the endpoint the session left is kept
MovedKeepsOld(c, r) == [index EXCEPT ![r] = c]

Moved(c, r) == [index EXCEPT ![sessions[c]] = NoConv, ![r] = c]

(* Poll, for one datagram.  A full endpoint drops those of new numbers.    *)
PollNew(c, r) ==
  /\ bound /\ sessions[c] = NoPeer
  /\ HasRoom
  /\ sessions' = [sessions EXCEPT ![c] = r] /\ index' = [index EXCEPT ![r] = c]
  /\ UNCHANGED <<bound, ownConv>>

(* A session follows its number to whichever endpoint uses it.             *)
PollMove(c, r) ==
  /\ bound /\ sessions[c] \notin {NoPeer, r}
  /\ sessions' = [sessions EXCEPT ![c] = r] /\ index' = Moved(c, r)
  /\ UNCHANGED <<bound, ownConv>>

(* OpenSession to an endpoint without an entry; to one with an entry it    *)
(* changes nothing.  The number is spent also when there is no room, and   *)
(* when a client already uses it, that client's session is handed out.     *)
OpenSession(r) ==
  /\ index[r] = NoConv
  /\ ownConv' = (ownConv + 1) % ConvCount
  /\ IF HasRoom /\ sessions[ownConv] = NoPeer
     THEN /\ sessions' = [sessions EXCEPT ![ownConv] = r]
          /\ index' = [index EXCEPT ![r] = ownConv]
     ELSE UNCHANGED <<sessions, index>>
  /\ UNCHANGED bound

KcpNext ==
  \/ Bind \/ Close
  \/ \E c \in Convs, r \in Peers : PollNew(c, r) \/ PollMove(c, r)
  \/ \E r \in Peers : OpenSession(r)

KcpSpec == KcpInit /\ [][KcpNext]_kcpVars
-----------------------------------------------------------------------------
KcpTypeOK ==
  /\ bound \in BOOLEAN /\ ownConv \in Convs
  /\ sessions \in [Convs -> Peers \cup {NoPeer}] /\ index \in [Peers -> Convs \cup {NoConv}]

SessionsAreBounded == Count <= MaxSessions

(* An entry of the index always names a session that talks to just that    *)
(* endpoint, although sessions wander between endpoints, share them, and   *)
(* are opened from both sides: what OpenSession hands out from the index   *)
(* is never somebody else's.                                               *)
IndexIsTrue ==
  \A r \in Peers : index[r] # NoConv => sessions[index[r]] = r
=============================================================================
