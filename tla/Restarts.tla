------------------------------ MODULE Restarts ------------------------------
(***************************************************************************)
(* Which endpoints the next start of the bridge publishes again.           *)
(*                                                                         *)
(* The device manager with a history variable: the endpoints that lived    *)
(* when the last life of the process ended, if the file was left alone at  *)
(* that moment (no write() cut short, no power cycle).                     *)
(***************************************************************************)
EXTENDS DeviceManager

VARIABLE kept      \* history: what DeviceManager::Init has to bring back

restartVars == <<vars, kept>>

RestartInit == Init /\ kept = {}

Remember ==
  kept' = IF phase' # "down" THEN kept
          ELSE IF file' # file THEN {}
          ELSE IF phase = "down" THEN kept
          ELSE LiveEndpoints

RestartNext == Next /\ Remember

RestartSpec == RestartInit /\ [][RestartNext]_restartVars

\* Init is straight-line code on the main thread: it keeps running.  Nobody
\* has to start the process, type commands or crash it.
FairRestartSpec == RestartSpec /\ WF_vars(RestoreSection) /\ WF_vars(RestoreEnds)

-----------------------------------------------------------------------------
(* Properties.                                                             *)

\* The kept endpoints without a gap below them.  Init goes through the
\* numbers from the first one up, to Count + 3, and stops at the first one
\* that has no section: what lies behind a deleted device stays in the file
\* and is not published.
Reached ==
  {e \in kept : /\ e.id < Count + 3 + 1
                /\ \A i \in First .. e.id : \E d \in kept : d.id = i}

\* When Init leaves its loop, every endpoint that lived when the process was
\* ended, up to the first gap in the ids, lives again with its id, its kind
\* and its name, whatever was generated, deleted and overwritten before.
RestartBringsBack == phase = "init" /\ ~MoreSections => Reached \subseteq LiveEndpoints

=============================================================================
