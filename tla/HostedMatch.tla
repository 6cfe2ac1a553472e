---------------------------- MODULE HostedMatch -----------------------------
(***************************************************************************)
(* The simulation a match server holds (src/src/match_lifecycle.cpp): a    *)
(* race or a co-op match, by coop_mode_, which never changes.  The server  *)
(* also owns a race in co-op mode; it is never ticked.                     *)
(***************************************************************************)
EXTENDS BossRace, CoopBoss

CONSTANT Modes   \* of {"race", "coop"}: what the hosted matches may be

ASSUME ModesAssumption == Modes \subseteq {"race", "coop"}

VARIABLE mode    \* coop_mode_

hostedVars == <<mode, raceVars, coopVars>>

(* What the simulation that is not played would draw does not matter.      *)
HostedInit ==
  /\ mode \in Modes /\ Init /\ CoopInit
  /\ mode = "race" => roll = CHOOSE r \in Rolls : TRUE
  /\ mode = "coop" => ruleset = CHOOSE r \in Rulesets : TRUE

HostedRace == mode = "race" /\ Next /\ UNCHANGED <<mode, coopVars>>

HostedCoop == mode = "coop" /\ CoopNext /\ UNCHANGED <<mode, raceVars>>

HostedNext == HostedRace \/ HostedCoop

HostedSpec == HostedInit /\ [][HostedNext]_hostedVars
-----------------------------------------------------------------------------
(* Both simulations keep their state in range; in particular a hand never  *)
(* exceeds its limit, energy, health and lives never leave theirs.         *)
HostedTypeOK == mode \in Modes /\ RaceTypeOK /\ CoopTypeOK
=============================================================================
