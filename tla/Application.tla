---------------------------- MODULE Application -----------------------------
(***************************************************************************)
(* A process of an application that uses psychic-workers, composed of      *)
(* PsychicAppWorkers (App), what its code backgrounds (Backgrounding) and  *)
(* the sync command (TypesDeprecation).  A server or a test makes calls, a *)
(* CLI process syncs.  Its restart loses what is in memory; jobs and files *)
(* remain.                                                                 *)
(***************************************************************************)
EXTENDS Backgrounding, TypesDeprecation

vars == <<appVars, callVars, syncVars>>

Init == AppInit /\ CallsInit /\ SyncInit

TypeOK == AppTypeOK /\ CallsTypeOK /\ SyncTypeOK

(* A deploy, a crash, or a kill in the middle of a sync. *)
Restart ==
  /\ RestartApp
  /\ sync' = NoSync
  /\ UNCHANGED <<callVars, files, types>>

Next ==
  \/ AppStep /\ UNCHANGED <<callVars, syncVars>>
  \/ role # "cli" /\ (\E r \in Requests : Call(r)) /\ UNCHANGED syncVars
  \/ QueueStep /\ UNCHANGED <<appVars, syncVars>>
  \/ SyncStep /\ UNCHANGED callVars
  \/ Restart

Spec == Init /\ [][Next]_vars

IInv == AppIInv /\ CallIInv /\ SyncIInv
=============================================================================
