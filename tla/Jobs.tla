-------------------------------- MODULE Jobs --------------------------------
(***************************************************************************)
(* The life of jobs between the queue and doWork (src/background/index.ts) *)
(* in worker processes that are deployed anew, crash, are killed by their  *)
(* shutdown's timeout or lose the lock of a job they still work on.        *)
(*                                                                         *)
(* doWork looks up the class, finds the record of a model's job, which it  *)
(* awaits, and calls the method, which it awaits.  Around it is BullMQ: a  *)
(* job that throws waits for another attempt, until MaxAttempts; a job     *)
(* whose lock expires is stalled and waits again, until MaxStalls.         *)
(***************************************************************************)
EXTENDS Integers, FiniteSets

CONSTANTS
  Jobs,         \* jobs waiting in one queue
  Kinds,        \* what the names of the jobs may say: "static", "model", or else
                \* "unknown", a job type of another version of the library
  OldClass,     \* jobs whose class the deploy removes or renames
  NewClass,     \* jobs whose class comes with the deploy
  Processes,    \* what works one job at a time: a slot of a worker's concurrency
  None,         \* no process, no job
  MaxAttempts,  \* attempts of a job (defaultBullMQQueueOptions)
  MaxStalls     \* maxStalledCount of the workers

ASSUME JobsAssumption ==
  /\ Kinds \subseteq [Jobs -> {"static", "model", "unknown"}]
  /\ OldClass \subseteq Jobs
  /\ NewClass \subseteq Jobs
  /\ None \notin Processes \cup Jobs
  /\ IsFiniteSet(Processes)
  /\ MaxAttempts \in Nat \ {0}
  /\ MaxStalls \in Nat

VARIABLES
  kind,       \* the job type each job's name says
  state,      \* where BullMQ keeps each job
  lock,       \* the process that holds its lock
  attempts,   \* its failed attempts
  stalls,     \* how often it was found stalled
  record,     \* whether the record of a model's job exists
  deployed,   \* the processes that run the new code
  job,        \* the job each process works on
  at,         \* the await its doWork is at, or how it ended
  begun,      \* how often the method of a job was called
  returned,   \* the jobs whose method has returned
  faults      \* how often its class was missing, its find rejected or its method threw

queue   == <<state, lock, attempts, stalls>>
work    == <<job, at>>
calls   == <<begun, returned>>
history == <<calls, faults>>
vars    == <<kind, queue, record, deployed, work, history>>

TypeOK ==
  /\ kind \in Kinds
  /\ state \in [Jobs -> {"waiting", "active", "backoff", "completed", "failed"}]
  /\ lock \in [Jobs -> Processes \cup {None}]
  /\ attempts \in [Jobs -> 0 .. MaxAttempts]
  /\ stalls \in [Jobs -> 0 .. MaxStalls + 1]
  /\ record \in [Jobs -> BOOLEAN]
  /\ deployed \subseteq Processes
  /\ job \in [Processes -> Jobs \cup {None}]
  /\ at \in [Processes -> {"idle", "find", "method", "returned", "threw"}]
  /\ begun \in [Jobs -> Nat]
  /\ returned \subseteq Jobs
  /\ faults \in [Jobs -> Nat]

Init ==
  /\ kind \in Kinds
  /\ state = [j \in Jobs |-> "waiting"]
  /\ lock = [j \in Jobs |-> None]
  /\ attempts = [j \in Jobs |-> 0]
  /\ stalls = [j \in Jobs |-> 0]
  /\ record = [j \in Jobs |-> kind[j] = "model"]
  /\ deployed = {}
  /\ job = [p \in Processes |-> None]
  /\ at = [p \in Processes |-> "idle"]
  /\ begun = [j \in Jobs |-> 0]
  /\ returned = {}
  /\ faults = [j \in Jobs |-> 0]

-----------------------------------------------------------------------------
(* doWork: each action goes up to the next await or the end. *)

(* PsychicApp.lookupClassByGlobalName *)
ClassFound(p, j) == IF p \in deployed THEN j \notin OldClass ELSE j \notin NewClass

GoesTo(p, where) == at' = [at EXCEPT ![p] = where]

Throws(p) == GoesTo(p, "threw") /\ UNCHANGED calls

(* Mutant: the method is called and not awaited. *)
CallsMethodUnawaited(p) ==
  /\ GoesTo(p, "returned")
  /\ begun' = [begun EXCEPT ![job'[p]] = @ + 1]
  /\ UNCHANGED returned

CallsMethod(p) ==
  /\ GoesTo(p, "method")
  /\ begun' = [begun EXCEPT ![job'[p]] = @ + 1]
  /\ UNCHANGED returned

(* Mutant: a class that is not found is taken like a record that is not.   *)
DoWorkWithoutClass(p, j) ==
  \/ /\ kind[j] = "unknown" \/ ~ClassFound(p, j)
     /\ GoesTo(p, "returned")
     /\ UNCHANGED calls
  \/ kind[j] = "static" /\ ClassFound(p, j) /\ CallsMethod(p)
  \/ kind[j] = "model" /\ ClassFound(p, j) /\ GoesTo(p, "find") /\ UNCHANGED calls

DoWork(p, j) ==
  \/ kind[j] = "unknown" /\ GoesTo(p, "returned") /\ UNCHANGED calls
  \/ kind[j] # "unknown" /\ ~ClassFound(p, j) /\ Throws(p)
  \/ kind[j] = "static" /\ ClassFound(p, j) /\ CallsMethod(p)
  \/ kind[j] = "model" /\ ClassFound(p, j) /\ GoesTo(p, "find") /\ UNCHANGED calls

(* Mutant: a record that is gone makes the call throw a TypeError. *)
FindResolvesUnchecked(p) ==
  /\ at[p] = "find"
  /\ \/ record[job[p]] /\ UNCHANGED job /\ CallsMethod(p)
     \/ ~record[job[p]] /\ UNCHANGED job /\ Throws(p)
  /\ UNCHANGED <<kind, queue, record, deployed, faults>>

(* A record that is gone: if (!modelInstance) return *)
FindResolves(p) ==
  /\ at[p] = "find"
  /\ \/ record[job[p]] /\ UNCHANGED job /\ CallsMethod(p)
     \/ ~record[job[p]] /\ GoesTo(p, "returned") /\ UNCHANGED <<job, calls>>
  /\ UNCHANGED <<kind, queue, record, deployed, faults>>

Faults(j) == faults' = [faults EXCEPT ![j] = @ + 1]

FindRejects(p) ==
  /\ at[p] = "find"
  /\ Faults(job[p])
  /\ Throws(p)
  /\ UNCHANGED <<kind, queue, record, deployed, job>>

MethodReturns(p) ==
  /\ at[p] = "method"
  /\ GoesTo(p, "returned")
  /\ returned' = returned \cup {job[p]}
  /\ UNCHANGED <<kind, queue, record, deployed, job, begun, faults>>

(* Mutant: doWork calls the method again itself. *)
MethodThrowsCalledAgain(p) ==
  /\ at[p] = "method"
  /\ Faults(job[p])
  /\ UNCHANGED job
  /\ \/ Throws(p)
     \/ CallsMethod(p)
  /\ UNCHANGED <<kind, queue, record, deployed>>

MethodThrows(p) ==
  /\ at[p] = "method"
  /\ Faults(job[p])
  /\ Throws(p)
  /\ UNCHANGED <<kind, queue, record, deployed, job>>

-----------------------------------------------------------------------------
(* BullMQ: the worker around doWork. *)

(* The worker fetches a job, takes its lock and calls doWork. *)
Start(p, j) ==
  /\ job[p] = None
  /\ state[j] = "waiting"
  /\ state' = [state EXCEPT ![j] = "active"]
  /\ lock' = [lock EXCEPT ![j] = p]
  /\ job' = [job EXCEPT ![p] = j]
  /\ DoWork(p, j)
  /\ IF ClassFound(p, j) THEN UNCHANGED faults ELSE Faults(j)
  /\ UNCHANGED <<kind, attempts, stalls, record, deployed>>

BecomesIdle(p) ==
  /\ job' = [job EXCEPT ![p] = None]
  /\ GoesTo(p, "idle")

HoldsLock(p) == lock[job[p]] = p

(* doWork ended, and so does the job if the process still has its lock. *)
Complete(p) ==
  /\ at[p] = "returned"
  /\ HoldsLock(p)
  /\ state' = [state EXCEPT ![job[p]] = "completed"]
  /\ lock' = [lock EXCEPT ![job[p]] = None]
  /\ BecomesIdle(p)
  /\ UNCHANGED <<kind, attempts, stalls, record, deployed, history>>

(* Mutant: one attempt more than MaxAttempts. *)
FailAttemptOnceMore(p) ==
  LET j == job[p] IN
  /\ at[p] = "threw"
  /\ HoldsLock(p)
  /\ attempts' = [attempts EXCEPT ![j] = @ + 1]
  /\ state' = [state EXCEPT ![j] = IF attempts'[j] <= MaxAttempts THEN "backoff" ELSE "failed"]
  /\ lock' = [lock EXCEPT ![j] = None]
  /\ BecomesIdle(p)
  /\ UNCHANGED <<kind, stalls, record, deployed, history>>

FailAttempt(p) ==
  LET j == job[p] IN
  /\ at[p] = "threw"
  /\ HoldsLock(p)
  /\ attempts' = [attempts EXCEPT ![j] = @ + 1]
  /\ state' = [state EXCEPT ![j] = IF attempts'[j] < MaxAttempts THEN "backoff" ELSE "failed"]
  /\ lock' = [lock EXCEPT ![j] = None]
  /\ BecomesIdle(p)
  /\ UNCHANGED <<kind, stalls, record, deployed, history>>

(* The lock was lost: the outcome is dropped. *)
MissingLock(p) ==
  /\ at[p] \in {"returned", "threw"}
  /\ ~HoldsLock(p)
  /\ BecomesIdle(p)
  /\ UNCHANGED <<kind, queue, record, deployed, history>>

RetryDue(j) ==
  /\ state[j] = "backoff"
  /\ state' = [state EXCEPT ![j] = "waiting"]
  /\ UNCHANGED <<kind, lock, attempts, stalls, record, deployed, work, history>>

(* The lock expired: its process is gone, or did not renew it in time.     *)
Stalled(j) ==
  /\ state[j] = "active"
  /\ stalls' = [stalls EXCEPT ![j] = @ + 1]
  /\ state' = [state EXCEPT ![j] = IF stalls'[j] > MaxStalls THEN "failed" ELSE "waiting"]
  /\ lock' = [lock EXCEPT ![j] = None]
  /\ UNCHANGED <<kind, attempts, record, deployed, work, history>>

-----------------------------------------------------------------------------
(* The world around. *)

(* The process ends with what it worked on, and another takes its place,   *)
(* with the new code or, before the deploy reached it, the old.            *)
Restart(p) ==
  /\ BecomesIdle(p)
  /\ deployed' \in {deployed, deployed \cup {p}}
  /\ UNCHANGED <<kind, queue, record, history>>

DeleteRecord(j) ==
  /\ record[j]
  /\ record' = [record EXCEPT ![j] = FALSE]
  /\ UNCHANGED <<kind, queue, deployed, work, history>>

-----------------------------------------------------------------------------
Execute(p) ==
  \/ FindResolves(p) \/ FindRejects(p)
  \/ MethodReturns(p) \/ MethodThrows(p)
  \/ Complete(p) \/ FailAttempt(p) \/ MissingLock(p)

Next ==
  \/ \E p \in Processes :
       \/ \E j \in Jobs : Start(p, j)
       \/ Execute(p)
       \/ Restart(p)
  \/ \E j \in Jobs : RetryDue(j) \/ Stalled(j) \/ DeleteRecord(j)

Spec == Init /\ [][Next]_vars

(* The process that took the job is not working on it any more. *)
Abandoned(j) == state[j] = "active" /\ job[lock[j]] # j

(***************************************************************************)
(* Workers take what waits, locks of dead processes expire, and what doWork *)
(* awaits settles: finds and methods end.  Processes may be restarted as   *)
(* often as one likes.                                                     *)
(***************************************************************************)
FairSpec ==
  /\ Spec
  /\ \A p \in Processes : WF_vars(Execute(p))
  /\ \A j \in Jobs : /\ WF_vars(\E p \in Processes : Start(p, j))
                     /\ WF_vars(RetryDue(j))
                     /\ WF_vars(Abandoned(j) /\ Stalled(j))

-----------------------------------------------------------------------------
(***************************************************************************)
(* A completed job has had its method return at least once, whichever      *)
(* process reported it, unless there was nothing to run: the record is     *)
(* gone, or the job is of no type doWork knows (doWork awaits the method,  *)
(* and throws for a class it does not find).                               *)
(***************************************************************************)
NothingToRun(j) == kind[j] = "unknown" \/ (kind[j] = "model" /\ ~record[j])

CompletedHasRun ==
  \A j \in Jobs : state[j] = "completed" => j \in returned \/ NothingToRun(j)

(***************************************************************************)
(* A failed job has failures to show for all its attempts: as often, its   *)
(* class was missing, its find rejected or its method threw; or else its   *)
(* processes were lost too often.  That a record was deleted is no failure *)
(* (doWork: if (!modelInstance) return), nor that a type is unknown.       *)
(***************************************************************************)
FailedForAReason ==
  \A j \in Jobs : state[j] = "failed" =>
    \/ faults[j] >= MaxAttempts
    \/ stalls[j] > MaxStalls

(***************************************************************************)
(* The method of a settled job is called no more, except by a process that *)
(* lost its lock while it awaited the find of a model's record: doWork     *)
(* calls a method once, and nothing else that it awaits comes before.      *)
(***************************************************************************)
SettledNotCalledAgain ==
  [][\A j \in Jobs : begun'[j] # begun[j] /\ state[j] \in {"completed", "failed"} =>
       kind[j] = "model" /\ stalls[j] > 0]_vars

(***************************************************************************)
(* However often processes are lost or restarted, a method is called at    *)
(* most MaxAttempts + MaxStalls times (doWork calls it once per attempt).  *)
(***************************************************************************)
CallsBounded == \A j \in Jobs : begun[j] <= MaxAttempts + MaxStalls

(***************************************************************************)
(* Jobs keep the contract of JobContract: queue, locks and processes are   *)
(* hidden, and deleting a record leaves nothing to run.  Every job settles *)
(* although processes may be restarted at any time.                        *)
(***************************************************************************)
Outcome(j) == IF state[j] \in {"completed", "failed"} THEN state[j] ELSE "pending"

Contract == INSTANCE JobContract WITH
  outcome <- [j \in Jobs |-> Outcome(j)],
  void    <- {j \in Jobs : NothingToRun(j)}

ImplementsContract == Contract!FairSpec

(***************************************************************************)
(* The inductive strengthening the proofs use.  OncePerAttempt is what     *)
(* CallsBounded rests on: calls made and calls a pending find may still    *)
(* make are paid for by attempts, stalls and the run in progress.          *)
(***************************************************************************)
WorksOnJob ==
  \A p \in Processes :
    /\ job[p] = None <=> at[p] = "idle"
    /\ at[p] = "find" => kind[job[p]] = "model"
    /\ at[p] = "returned" => job[p] \in returned \/ NothingToRun(job[p])

LockedWhileActive == \A j \in Jobs : state[j] = "active" <=> lock[j] # None

LockOrStalled ==
  \A p \in Processes : job[p] # None => lock[job[p]] = p \/ stalls[job[p]] > 0

CountersInRange ==
  \A j \in Jobs :
    /\ state[j] # "failed" => attempts[j] < MaxAttempts /\ stalls[j] <= MaxStalls
    /\ attempts[j] + stalls[j] <= MaxAttempts + MaxStalls

FaultPerAttempt ==
  /\ \A j \in Jobs : attempts[j] <= faults[j]
  /\ \A p \in Processes :
       at[p] = "threw" /\ HoldsLock(p) => attempts[job[p]] < faults[job[p]]

FailedIsSpent ==
  \A j \in Jobs : state[j] = "failed" => attempts[j] = MaxAttempts \/ stalls[j] > MaxStalls

Finding(j) == {p \in Processes : at[p] = "find" /\ job[p] = j}

Runs(j) == IF state[j] \in {"active", "completed"} THEN 1 ELSE 0

OncePerAttempt ==
  \A j \in Jobs : begun[j] + Cardinality(Finding(j)) <= attempts[j] + stalls[j] + Runs(j)

IInv ==
  /\ TypeOK
  /\ WorksOnJob
  /\ LockedWhileActive
  /\ LockOrStalled
  /\ CountersInRange
  /\ OncePerAttempt
  /\ CompletedHasRun
  /\ FaultPerAttempt
  /\ FailedIsSpent
=============================================================================
