--------------------------- MODULE MatchLifecycle ---------------------------
(***************************************************************************)
(* The life of one match as allocation and cleanup callers see it through  *)
(* MatchLifecycleStatus: it is prepared, played, settled once and retired, *)
(* or it is cancelled before it is settled.  Nothing leaves "retired" or   *)
(* "cancelled", and a settled match can no longer be cancelled.            *)
(***************************************************************************)
VARIABLE status

Moves ==
  { <<"unknown", "pending_boss_config">>,
    <<"unknown", "active">>,
    <<"pending_boss_config", "active">>,
    <<"pending_boss_config", "cancelled">>,
    <<"active", "settled">>,
    <<"active", "cancelled">>,
    <<"settled", "retired">> }

Init == status = "unknown"

Next == <<status, status'>> \in Moves

Spec == Init /\ [][Next]_status
=============================================================================
