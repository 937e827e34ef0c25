---------------------------- MODULE ExitContract ----------------------------
(***************************************************************************)
(* What a worker process promises to the orchestrator that started it,     *)
(* without the means: shutdown hooks, database and redis connections,      *)
(* timers and overlapping shutdown flows do not appear here.               *)
(*                                                                         *)
(* The process works jobs until it has a reason to stop.  From then on it  *)
(* retires its workers, one by one and for good, and it certainly exits:   *)
(* with code 0 only when it was asked to stop by a signal and no worker    *)
(* is still taking or draining jobs, and with code 1 otherwise.            *)
(*                                                                         *)
(* WorkerProcess implements this specification.                            *)
(***************************************************************************)
CONSTANT Workers          \* the BullMQ workers of the process

VARIABLES
  reasons,    \* why the process must stop: a subset of {"signal", "fatal"}
  exitCode,   \* "none" while the process is up, then "0" or "1"
  worker,     \* the life of each worker
  busy        \* the workers with at least one job in flight

vars == <<reasons, exitCode, worker, busy>>

WorkerStates == {"running", "closing", "closed", "closeFailed"}
Retired      == {"closed", "closeFailed"}

TypeOK ==
  /\ reasons \in SUBSET {"signal", "fatal"}
  /\ exitCode \in {"none", "0", "1"}
  /\ worker \in [Workers -> WorkerStates]
  /\ busy \in SUBSET Workers

Init ==
  /\ reasons = {}
  /\ exitCode = "none"
  /\ worker = [w \in Workers |-> "running"]
  /\ busy = {}

Up == exitCode = "none"
-----------------------------------------------------------------------------
(* A signal arrives, or an error nobody caught. *)
Receive(why) ==
  /\ Up
  /\ reasons' = reasons \cup {why}
  /\ UNCHANGED <<exitCode, worker, busy>>

(* Only a worker that has not been told to close starts a job ... *)
StartJob(w) ==
  /\ Up
  /\ worker[w] = "running"
  /\ busy' = busy \cup {w}
  /\ UNCHANGED <<reasons, exitCode, worker>>

(* ... and any worker may end the last of its jobs. *)
EndJob(w) ==
  /\ Up
  /\ busy' = busy \ {w}
  /\ UNCHANGED <<reasons, exitCode, worker>>

(* A worker is told to close only when the process has a reason to stop. *)
Close(w) ==
  /\ Up
  /\ reasons # {}
  /\ worker[w] = "running"
  /\ worker' = [worker EXCEPT ![w] = "closing"]
  /\ UNCHANGED <<reasons, exitCode, busy>>

(* A closing worker is closed once idle; or its closing fails. *)
Retire(w) ==
  /\ Up
  /\ worker[w] = "closing"
  /\ \/ w \notin busy /\ worker' = [worker EXCEPT ![w] = "closed"]
     \/ worker' = [worker EXCEPT ![w] = "closeFailed"]
  /\ UNCHANGED <<reasons, exitCode, busy>>

ExitClean ==
  /\ Up
  /\ "signal" \in reasons
  /\ \A w \in Workers : worker[w] \in Retired
  /\ exitCode' = "0"
  /\ UNCHANGED <<reasons, worker, busy>>

ExitFailed ==
  /\ Up
  /\ reasons # {}
  /\ exitCode' = "1"
  /\ UNCHANGED <<reasons, worker, busy>>

Exit == ExitClean \/ ExitFailed
-----------------------------------------------------------------------------
Next ==
  \/ \E why \in {"signal", "fatal"} : Receive(why)
  \/ \E w \in Workers : StartJob(w) \/ EndJob(w) \/ Close(w) \/ Retire(w)
  \/ Exit

Spec     == Init /\ [][Next]_vars
FairSpec == Spec /\ WF_vars(Exit)
=============================================================================
