---------------------------- MODULE JobContract ----------------------------
(***************************************************************************)
(* What backgrounding a call promises, without queues, attempts, locks and *)
(* processes: every job is settled, once and for good, and one that is     *)
(* reported as completed has had its method return, unless there was       *)
(* nothing to run.  A method may return any number of times, also after    *)
(* its job was settled.                                                    *)
(*                                                                         *)
(* Jobs implements this specification.                                     *)
(***************************************************************************)
CONSTANT Jobs

VARIABLES
  outcome,    \* "pending", "completed" or "failed"
  returned,   \* the jobs whose method has returned
  void        \* the jobs there is nothing to run for

vars == <<outcome, returned, void>>

TypeOK ==
  /\ outcome \in [Jobs -> {"pending", "completed", "failed"}]
  /\ returned \subseteq Jobs
  /\ void \subseteq Jobs

Init ==
  /\ outcome = [j \in Jobs |-> "pending"]
  /\ returned = {}
  /\ void \in SUBSET Jobs

Return(j) ==
  /\ returned' = returned \cup {j}
  /\ UNCHANGED <<outcome, void>>

(* What the job was about ceases to exist. *)
Void(j) ==
  /\ void' = void \cup {j}
  /\ UNCHANGED <<outcome, returned>>

Complete(j) ==
  /\ outcome[j] = "pending"
  /\ j \in returned \cup void
  /\ outcome' = [outcome EXCEPT ![j] = "completed"]
  /\ UNCHANGED <<returned, void>>

Fail(j) ==
  /\ outcome[j] = "pending"
  /\ outcome' = [outcome EXCEPT ![j] = "failed"]
  /\ UNCHANGED <<returned, void>>

Settle(j) == Complete(j) \/ Fail(j)

Next == \E j \in Jobs : Return(j) \/ Void(j) \/ Settle(j)

Spec     == Init /\ [][Next]_vars
FairSpec == Spec /\ \A j \in Jobs : WF_vars(Settle(j))
=============================================================================
