----------------------------- MODULE MatchEdges -----------------------------
(* What stands around a match, one part at a time: the two ways in         *)
(* (packets dispatched to the battle server, datagrams at the endpoint of  *)
(* a match host), what leaves it (the signed result, the replay container, *)
(* the reports for the lobby), and the timeline it is fired by.  These     *)
(* parts share no state in the code, so a behaviour is one of them.        *)
EXTENDS Packets, KcpSessions, Results, DemContainer, EventReports, Timeline

CONSTANT Edges

ASSUME EdgesAssumption ==
  Edges \subseteq {"packets", "datagrams", "result", "replay", "reports", "timeline"}

VARIABLE edge

waysVars == <<packetVars, kcpVars>>
recordVars == <<resultVars, demVars, reportVars>>
edgeVars == <<edge, waysVars, recordVars, timelineVars>>

(* A part that is not the one in play has a single beginning.              *)
EdgesInit ==
  /\ edge \in Edges
  /\ PacketInit /\ KcpInit /\ ResultInit /\ DemInit /\ ReportInit /\ TimelineInit
  /\ edge # "result" =>
       battle = FreshBattle(CHOOSE m \in Modes : TRUE, CHOOSE roster \in Rosters : TRUE)
  /\ edge # "reports" => collector = CHOOSE c \in Collectors : TRUE
  /\ edge # "timeline" => fight = CHOOSE b \in Battles : TRUE

Packeting == edge = "packets" /\ PacketNext /\ UNCHANGED <<edge, kcpVars, recordVars, timelineVars>>
Polling == edge = "datagrams" /\ KcpNext /\ UNCHANGED <<edge, packetVars, recordVars, timelineVars>>
Settling ==
  edge = "result" /\ ResultNext /\ UNCHANGED <<edge, waysVars, demVars, reportVars, timelineVars>>
Replaying ==
  edge = "replay" /\ DemNext /\ UNCHANGED <<edge, waysVars, resultVars, reportVars, timelineVars>>
Reporting ==
  edge = "reports" /\ ReportNext /\ UNCHANGED <<edge, waysVars, resultVars, demVars, timelineVars>>
Firing == edge = "timeline" /\ TimelineNext /\ UNCHANGED <<edge, waysVars, recordVars>>

EdgesNext == Packeting \/ Polling \/ Settling \/ Replaying \/ Reporting \/ Firing
EdgesSpec == EdgesInit /\ [][EdgesNext]_edgeVars
-----------------------------------------------------------------------------
(* Everything stays in its range; in particular an endpoint never holds    *)
(* more sessions than it may.                                              *)
EdgesTypeOK ==
  /\ edge \in Edges
  /\ PacketTypeOK /\ KcpTypeOK /\ SessionsAreBounded
  /\ DemTypeOK /\ ReportTypeOK /\ TimelineTypeOK
=============================================================================
