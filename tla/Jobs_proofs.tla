---------------------------- MODULE Jobs_proofs ----------------------------
(***************************************************************************)
(* Proofs about Jobs, for any number of jobs and processes and any bounds  *)
(* on attempts and stalls.  Each action is shown to keep IInv; the         *)
(* properties and the refinement of JobContract follow.                    *)
(***************************************************************************)
EXTENDS Jobs, FiniteSetTheorems, TLAPS

(* A process that is not idle works on a job. *)
LEMMA Busy ==
  ASSUME IInv, NEW p \in Processes, at[p] # "idle"
  PROVE  job[p] \in Jobs
  BY DEF IInv, TypeOK, WorksOnJob

(* Only an active job is locked, and then by whom holds its lock. *)
LEMMA Locked ==
  ASSUME IInv, NEW p \in Processes, job[p] \in Jobs, HoldsLock(p)
  PROVE  state[job[p]] = "active"
  BY JobsAssumption DEF IInv, LockedWhileActive, HoldsLock, JobsAssumption

-----------------------------------------------------------------------------
(* Counting the processes that look for the record of a job. *)

LEMMA FindingIsFinite ==
  ASSUME NEW j
  PROVE  /\ IsFiniteSet(Finding(j)) /\ Cardinality(Finding(j)) \in Nat
         /\ IsFiniteSet(Finding(j)') /\ Cardinality(Finding(j)') \in Nat
  <1>1. /\ Finding(j) \in SUBSET Processes
        /\ Finding(j)' \in SUBSET Processes
    BY DEF Finding
  <1>2. IsFiniteSet(Processes)
    BY JobsAssumption DEF JobsAssumption
  <1>3. IsFiniteSet(Finding(j)) /\ IsFiniteSet(Finding(j)')
    BY <1>1, <1>2, FS_Subset
  <1> QED
    BY <1>3, FS_CardinalityType

(* Nobody begins to look: the count does not grow. *)
LEMMA FindingShrinks ==
  ASSUME NEW j, Finding(j)' \subseteq Finding(j)
  PROVE  Cardinality(Finding(j)') <= Cardinality(Finding(j))
  BY FindingIsFinite, FS_Subset

(* One process begins to look. *)
LEMMA FindingGrows ==
  ASSUME NEW j, NEW p, Finding(j)' \subseteq Finding(j) \cup {p}
  PROVE  Cardinality(Finding(j)') <= Cardinality(Finding(j)) + 1
  <1>1. /\ IsFiniteSet(Finding(j) \cup {p})
        /\ \/ Cardinality(Finding(j) \cup {p}) = Cardinality(Finding(j))
           \/ Cardinality(Finding(j) \cup {p}) = Cardinality(Finding(j)) + 1
    BY FindingIsFinite, FS_AddElement
  <1>2. Cardinality(Finding(j)') <= Cardinality(Finding(j) \cup {p})
    BY <1>1, FS_Subset
  <1> QED
    BY <1>1, <1>2, FindingIsFinite

(* One process has found it. *)
LEMMA FindingEnds ==
  ASSUME NEW j, NEW p \in Finding(j), Finding(j)' \subseteq Finding(j) \ {p}
  PROVE  Cardinality(Finding(j)') + 1 <= Cardinality(Finding(j))
  <1>1. /\ IsFiniteSet(Finding(j) \ {p})
        /\ Cardinality(Finding(j) \ {p}) = Cardinality(Finding(j)) - 1
    BY FindingIsFinite, FS_RemoveElement
  <1>2. Cardinality(Finding(j)') <= Cardinality(Finding(j) \ {p})
    BY <1>1, FS_Subset
  <1> QED
    BY <1>1, <1>2, FindingIsFinite

(* The bound follows from the queue's variables when no call is made and   *)
(* nobody begins to look.                                                  *)
LEMMA NoCallKeepsCount ==
  ASSUME IInv, TypeOK', UNCHANGED begun,
         \A j \in Jobs : Finding(j)' \subseteq Finding(j),
         \A j \in Jobs : attempts[j] + stalls[j] + Runs(j) <= attempts'[j] + stalls'[j] + Runs(j)'
  PROVE  OncePerAttempt'
  <1> SUFFICES ASSUME NEW j \in Jobs
               PROVE  begun'[j] + Cardinality(Finding(j)') <= attempts'[j] + stalls'[j] + Runs(j)'
    BY DEF OncePerAttempt
  <1>1. Cardinality(Finding(j)') <= Cardinality(Finding(j))
    BY FindingShrinks
  <1>2. /\ begun[j] \in Nat /\ attempts[j] \in Nat /\ stalls[j] \in Nat
        /\ attempts'[j] \in Nat /\ stalls'[j] \in Nat
        /\ Runs(j) \in Nat /\ Runs(j)' \in Nat
    BY JobsAssumption DEF IInv, TypeOK, Runs, JobsAssumption
  <1>3. begun[j] + Cardinality(Finding(j)) <= attempts[j] + stalls[j] + Runs(j)
    BY DEF IInv, OncePerAttempt
  <1> QED
    BY <1>1, <1>2, <1>3, FindingIsFinite

(* Failures keep up with attempts in a step that counts no attempt, when a *)
(* process that comes to throw while it has the lock has its failure       *)
(* counted.                                                                *)
LEMMA NoAttemptKeepsFaults ==
  ASSUME IInv, TypeOK', WorksOnJob', UNCHANGED attempts,
         \A j \in Jobs : faults[j] <= faults'[j],
         \A p \in Processes : at'[p] = "threw" /\ HoldsLock(p)' =>
           \/ at[p] = "threw" /\ job'[p] = job[p] /\ HoldsLock(p)
           \/ faults'[job'[p]] = faults[job'[p]] + 1
  PROVE  FaultPerAttempt'
<1>1. \A j \in Jobs : attempts[j] \in Nat /\ faults[j] \in Nat /\ faults'[j] \in Nat
  BY JobsAssumption DEF IInv, TypeOK, JobsAssumption
<1>2. ASSUME NEW j \in Jobs PROVE attempts'[j] <= faults'[j]
  BY <1>1 DEF IInv, FaultPerAttempt
<1>3. ASSUME NEW p \in Processes, at'[p] = "threw", HoldsLock(p)'
      PROVE  attempts'[job'[p]] < faults'[job'[p]]
  <2>1. job'[p] \in Jobs
    BY <1>3 DEF TypeOK, WorksOnJob
  <2>2. CASE at[p] = "threw" /\ job'[p] = job[p] /\ HoldsLock(p)
    BY <1>1, <2>1, <2>2 DEF IInv, FaultPerAttempt
  <2>3. CASE faults'[job'[p]] = faults[job'[p]] + 1
    BY <1>1, <2>1, <2>3 DEF IInv, FaultPerAttempt
  <2> QED
    BY <1>3, <2>2, <2>3
<1> QED
  BY <1>2, <1>3 DEF FaultPerAttempt

-----------------------------------------------------------------------------
LEMMA InitHolds == Init => IInv
<1> SUFFICES ASSUME Init PROVE IInv
  OBVIOUS
<1>1. TypeOK
  BY JobsAssumption DEF Init, TypeOK, JobsAssumption
<1>2. WorksOnJob /\ LockedWhileActive /\ LockOrStalled /\ CompletedHasRun /\ FailedIsSpent
  BY JobsAssumption DEF Init, WorksOnJob, LockedWhileActive, LockOrStalled, CompletedHasRun,
     FailedIsSpent, JobsAssumption
<1>3. CountersInRange
  BY JobsAssumption DEF Init, CountersInRange, JobsAssumption
<1>4. FaultPerAttempt
  BY DEF Init, FaultPerAttempt
<1>5. OncePerAttempt
  <2> SUFFICES ASSUME NEW j \in Jobs
               PROVE  begun[j] + Cardinality(Finding(j)) <= attempts[j] + stalls[j] + Runs(j)
    BY DEF OncePerAttempt
  <2>1. Finding(j) = {}
    BY DEF Init, Finding
  <2> QED
    BY <2>1, FS_EmptySet DEF Init, Runs
<1> QED
  BY <1>1, <1>2, <1>3, <1>4, <1>5 DEF IInv

-----------------------------------------------------------------------------
(* A worker takes a job: the run in progress pays for the call, or for the *)
(* find that precedes it.                                                  *)
LEMMA StartKeeps ==
  ASSUME IInv, NEW p \in Processes, NEW j \in Jobs, Start(p, j)
  PROVE  IInv'
<1> USE DEF GoesTo, Throws, CallsMethod, calls
<1>1. p # None /\ j # None
  BY JobsAssumption DEF JobsAssumption
<1>2. at[p] = "idle" /\ lock[j] = None
  BY DEF IInv, TypeOK, WorksOnJob, LockedWhileActive, Start
<1>3. /\ state' = [state EXCEPT ![j] = "active"]
      /\ lock' = [lock EXCEPT ![j] = p]
      /\ job' = [job EXCEPT ![p] = j] /\ job'[p] = j
      /\ state[j] = "waiting"
      /\ UNCHANGED <<kind, attempts, stalls, record, deployed, returned>>
  BY DEF Start, DoWork, IInv, TypeOK
<1>4. \/ at' = [at EXCEPT ![p] = "returned"] /\ kind[j] = "unknown" /\ UNCHANGED begun
      \/ at' = [at EXCEPT ![p] = "threw"] /\ ~ClassFound(p, j) /\ UNCHANGED begun
      \/ at' = [at EXCEPT ![p] = "method"] /\ begun' = [begun EXCEPT ![j] = @ + 1]
      \/ at' = [at EXCEPT ![p] = "find"] /\ kind[j] = "model" /\ UNCHANGED begun
  BY <1>3 DEF Start, DoWork
<1>5. faults' = IF ClassFound(p, j) THEN faults ELSE [faults EXCEPT ![j] = @ + 1]
  BY DEF Start, Faults
<1>6. TypeOK'
  BY <1>3, <1>4, <1>5 DEF IInv, TypeOK
<1>7. WorksOnJob'
  BY <1>1, <1>2, <1>3, <1>4 DEF IInv, TypeOK, WorksOnJob, NothingToRun
<1>8. LockedWhileActive'
  BY <1>1, <1>3 DEF IInv, TypeOK, LockedWhileActive
<1>9. LockOrStalled'
  BY <1>1, <1>2, <1>3, JobsAssumption DEF IInv, TypeOK, LockOrStalled, JobsAssumption
<1>10. CountersInRange'
  BY <1>3 DEF IInv, TypeOK, CountersInRange
<1>11. CompletedHasRun' /\ FailedIsSpent'
  BY <1>3 DEF IInv, TypeOK, CompletedHasRun, FailedIsSpent, NothingToRun
<1>12. FaultPerAttempt'
  <2>1. faults[j] \in Nat /\ \A k \in Jobs : faults[k] \in Nat
    BY DEF IInv, TypeOK
  <2>2. \A k \in Jobs : faults[k] <= faults'[k]
    BY <1>5, <2>1 DEF IInv, TypeOK
  <2>3. ASSUME at'[p] = "threw" PROVE faults'[job'[p]] = faults[job'[p]] + 1
    BY <1>2, <1>3, <1>4, <1>5, <2>3 DEF IInv, TypeOK
  <2>4. ASSUME NEW q \in Processes, q # p, at'[q] = "threw", HoldsLock(q)'
        PROVE  at[q] = "threw" /\ job'[q] = job[q] /\ HoldsLock(q)
    BY <1>3, <1>4, <2>4 DEF IInv, TypeOK, WorksOnJob, HoldsLock
  <2> QED
    BY <1>3, <1>6, <1>7, <2>2, <2>3, <2>4, NoAttemptKeepsFaults
<1>13. ASSUME NEW k \in Jobs
       PROVE  begun'[k] + Cardinality(Finding(k)') <= attempts'[k] + stalls'[k] + Runs(k)'
  <2>1. /\ begun[k] \in Nat /\ begun'[k] \in Nat /\ attempts[k] \in Nat /\ stalls[k] \in Nat
        /\ begun[k] + Cardinality(Finding(k)) <= attempts[k] + stalls[k] + Runs(k)
    BY <1>6, JobsAssumption DEF IInv, TypeOK, OncePerAttempt, JobsAssumption
  <2>2. CASE k # j
    <3>1. Finding(k)' \subseteq Finding(k)
      BY <1>3, <1>4, <2>2 DEF IInv, TypeOK, Finding
    <3>2. begun'[k] = begun[k] /\ Runs(k)' = Runs(k) /\ Runs(k) \in Nat
      BY <1>3, <1>4, <2>2 DEF IInv, TypeOK, Runs
    <3> QED
      BY <1>3, <2>1, <3>1, <3>2, FindingShrinks, FindingIsFinite
  <2>3. CASE k = j /\ at'[p] = "find"
    <3>1. Finding(k)' \subseteq Finding(k) \cup {p}
      BY <1>3, <1>4 DEF IInv, TypeOK, Finding
    <3>2. begun'[k] = begun[k] /\ Runs(k)' = 1 /\ Runs(k) = 0
      BY <1>3, <1>4, <2>3 DEF IInv, TypeOK, Runs
    <3>3. Cardinality(Finding(k)') <= Cardinality(Finding(k)) + 1
      BY <3>1, FindingGrows
    <3>4. Cardinality(Finding(k)) \in Nat /\ Cardinality(Finding(k)') \in Nat
      BY FindingIsFinite
    <3> QED
      BY <1>3, <2>1, <3>2, <3>3, <3>4
  <2>4. CASE k = j /\ at'[p] # "find"
    <3>1. Finding(k)' \subseteq Finding(k)
      BY <1>3, <1>4, <2>4 DEF IInv, TypeOK, Finding
    <3>2. begun'[k] <= begun[k] + 1 /\ Runs(k)' = 1 /\ Runs(k) = 0
      BY <1>3, <1>4, <2>1, <2>4 DEF IInv, TypeOK, Runs
    <3> QED
      BY <1>3, <2>1, <3>1, <3>2, FindingShrinks, FindingIsFinite
  <2> QED
    BY <2>2, <2>3, <2>4
<1> QED
  BY <1>6, <1>7, <1>8, <1>9, <1>10, <1>11, <1>13, <1>12 DEF IInv, OncePerAttempt

-----------------------------------------------------------------------------
(* The steps of doWork: the queue stays as it is.  The call replaces the   *)
(* find that paid for it.                                                  *)
LEMMA ExecutionKeeps ==
  ASSUME IInv, NEW p \in Processes,
         FindResolves(p) \/ FindRejects(p) \/ MethodReturns(p) \/ MethodThrows(p)
  PROVE  IInv'
<1> DEFINE j == job[p]
<1>1. /\ UNCHANGED <<kind, state, lock, attempts, stalls, record, deployed, job>>
      /\ at[p] \in {"find", "method"}
  BY DEF FindResolves, FindRejects, MethodReturns, MethodThrows, queue
<1>2. j \in Jobs
  BY <1>1, Busy
<1>3. \/ /\ at[p] = "find" /\ at' = [at EXCEPT ![p] = "method"]
         /\ begun' = [begun EXCEPT ![j] = @ + 1] /\ UNCHANGED <<returned, faults>>
      \/ /\ at[p] = "find" /\ ~record[j] /\ at' = [at EXCEPT ![p] = "returned"]
         /\ UNCHANGED <<begun, returned, faults>>
      \/ /\ at' = [at EXCEPT ![p] = "threw"] /\ faults' = [faults EXCEPT ![j] = @ + 1]
         /\ UNCHANGED <<begun, returned>>
      \/ /\ at' = [at EXCEPT ![p] = "returned"] /\ returned' = returned \cup {j}
         /\ UNCHANGED <<begun, faults>>
  BY <1>1 DEF FindResolves, FindRejects, MethodReturns, MethodThrows, Throws, CallsMethod, GoesTo,
              Faults, calls
<1>4. TypeOK'
  BY <1>1, <1>2, <1>3 DEF IInv, TypeOK
<1>5. WorksOnJob'
  BY <1>1, <1>2, <1>3 DEF IInv, TypeOK, WorksOnJob, NothingToRun
<1>6. LockedWhileActive' /\ LockOrStalled' /\ CountersInRange'
  BY <1>1 DEF IInv, LockedWhileActive, LockOrStalled, CountersInRange
<1>7. CompletedHasRun' /\ FailedIsSpent'
  BY <1>1, <1>3 DEF IInv, CompletedHasRun, FailedIsSpent, NothingToRun
<1>8. FaultPerAttempt'
  <2>1. \A k \in Jobs : faults[k] \in Nat
    BY DEF IInv, TypeOK
  <2>2. \A k \in Jobs : faults[k] <= faults'[k]
    BY <1>2, <1>3, <2>1 DEF IInv, TypeOK
  <2>3. ASSUME at'[p] = "threw" PROVE faults'[job'[p]] = faults[job'[p]] + 1
    BY <1>1, <1>2, <1>3, <2>3 DEF IInv, TypeOK
  <2>4. ASSUME NEW q \in Processes, q # p, at'[q] = "threw", HoldsLock(q)'
        PROVE  at[q] = "threw" /\ job'[q] = job[q] /\ HoldsLock(q)
    BY <1>1, <1>3, <2>4 DEF IInv, TypeOK, HoldsLock
  <2> QED
    BY <1>1, <1>4, <1>5, <2>2, <2>3, <2>4, NoAttemptKeepsFaults
<1>9. OncePerAttempt'
  <2> SUFFICES ASSUME NEW k \in Jobs
               PROVE  begun'[k] + Cardinality(Finding(k)') <= attempts'[k] + stalls'[k] + Runs(k)'
    BY DEF OncePerAttempt
  <2>1. /\ begun[k] \in Nat /\ attempts[k] \in Nat /\ stalls[k] \in Nat /\ Runs(k) \in Nat
        /\ begun[k] + Cardinality(Finding(k)) <= attempts[k] + stalls[k] + Runs(k)
    BY JobsAssumption DEF IInv, TypeOK, OncePerAttempt, Runs, JobsAssumption
  <2>2. Runs(k)' = Runs(k)
    BY <1>1 DEF Runs
  <2>3. Finding(k)' \subseteq Finding(k)
    BY <1>1, <1>3 DEF IInv, TypeOK, Finding
  <2>4. CASE begun'[k] = begun[k]
    BY <1>1, <2>1, <2>2, <2>3, <2>4, FindingShrinks, FindingIsFinite
  <2>5. CASE begun'[k] # begun[k]
    <3>1. k = j /\ at[p] = "find" /\ at'[p] = "method" /\ begun'[k] = begun[k] + 1
      BY <1>2, <1>3, <2>5 DEF IInv, TypeOK
    <3>2. p \in Finding(k) /\ p \notin Finding(k)'
      BY <3>1 DEF Finding
    <3>3. Cardinality(Finding(k)') + 1 <= Cardinality(Finding(k))
      BY <2>3, <3>2, FindingEnds
    <3> QED
      BY <1>1, <2>1, <2>2, <3>1, <3>3, FindingIsFinite
  <2> QED
    BY <2>4, <2>5
<1> QED
  BY <1>4, <1>5, <1>6, <1>7, <1>9, <1>8 DEF IInv

-----------------------------------------------------------------------------
(* A process lets go of its job and the queue stays as it is: the lock was *)
(* lost, or the process is gone.                                           *)
LEMMA LettingGoKeeps ==
  ASSUME IInv, NEW p \in Processes, MissingLock(p) \/ Restart(p)
  PROVE  IInv'
<1>1. /\ UNCHANGED <<kind, state, lock, attempts, stalls, record, begun, returned, faults>>
      /\ job' = [job EXCEPT ![p] = None] /\ at' = [at EXCEPT ![p] = "idle"]
      /\ deployed' \in {deployed, deployed \cup {p}}
  BY DEF MissingLock, Restart, BecomesIdle, GoesTo, queue, history, calls
<1>2. TypeOK'
  BY <1>1 DEF IInv, TypeOK
<1>3. WorksOnJob'
  BY <1>1 DEF IInv, TypeOK, WorksOnJob, NothingToRun
<1>4. LockedWhileActive' /\ LockOrStalled' /\ CountersInRange'
  BY <1>1 DEF IInv, TypeOK, LockedWhileActive, LockOrStalled, CountersInRange
<1>5. CompletedHasRun' /\ FailedIsSpent'
  BY <1>1 DEF IInv, CompletedHasRun, FailedIsSpent, NothingToRun
<1>6. FaultPerAttempt'
  <2>1. \A q \in Processes : at'[q] = "threw" => at[q] = "threw" /\ job'[q] = job[q] /\ lock' = lock
    BY <1>1 DEF IInv, TypeOK
  <2>2. \A k \in Jobs : faults[k] <= faults'[k]
    BY <1>1 DEF IInv, TypeOK
  <2> QED
    BY <1>1, <1>2, <1>3, <2>1, <2>2, NoAttemptKeepsFaults DEF HoldsLock
<1>7. OncePerAttempt'
  <2>1. \A k \in Jobs : Finding(k)' \subseteq Finding(k)
    BY <1>1 DEF IInv, TypeOK, Finding
  <2>2. \A k \in Jobs : Runs(k) \in Nat /\ Runs(k)' = Runs(k)
    BY <1>1 DEF Runs
  <2>3. \A k \in Jobs : attempts[k] \in Nat /\ stalls[k] \in Nat
    BY JobsAssumption DEF IInv, TypeOK, JobsAssumption
  <2> QED
    BY <1>1, <1>2, <2>1, <2>2, <2>3, NoCallKeepsCount
<1> QED
  BY <1>2, <1>3, <1>4, <1>5, <1>7, <1>6 DEF IInv

-----------------------------------------------------------------------------
(* The outcome of doWork is what the job's state says from now on. *)
LEMMA SettlingKeeps ==
  ASSUME IInv, NEW p \in Processes, Complete(p) \/ FailAttempt(p)
  PROVE  IInv'
<1> DEFINE j == job[p]
<1> USE DEF BecomesIdle, GoesTo
<1>1. /\ lock' = [lock EXCEPT ![j] = None]
      /\ job' = [job EXCEPT ![p] = None] /\ at' = [at EXCEPT ![p] = "idle"]
      /\ UNCHANGED <<kind, stalls, record, deployed, begun, returned, faults>>
      /\ at[p] \in {"returned", "threw"} /\ HoldsLock(p)
  BY DEF Complete, FailAttempt, history, calls
<1>2. j \in Jobs /\ state[j] = "active"
  BY <1>1, Busy, Locked
<1>3. \/ /\ state' = [state EXCEPT ![j] = "completed"] /\ UNCHANGED attempts
         /\ j \in returned \/ NothingToRun(j)
      \/ /\ attempts' = [attempts EXCEPT ![j] = @ + 1] /\ at[p] = "threw"
         /\ \/ state' = [state EXCEPT ![j] = "backoff"] /\ attempts[j] + 1 < MaxAttempts
            \/ state' = [state EXCEPT ![j] = "failed"] /\ ~(attempts[j] + 1 < MaxAttempts)
  BY <1>2 DEF Complete, FailAttempt, IInv, TypeOK, WorksOnJob
<1>4. /\ MaxAttempts \in Nat /\ MaxStalls \in Nat
      /\ attempts[j] \in Nat /\ attempts[j] < MaxAttempts /\ stalls[j] \in Nat /\ stalls[j] <= MaxStalls
  BY <1>2, JobsAssumption DEF IInv, TypeOK, CountersInRange, JobsAssumption
<1>5. TypeOK'
  BY <1>1, <1>2, <1>3, <1>4 DEF IInv, TypeOK
<1>6. WorksOnJob'
  BY <1>1 DEF IInv, TypeOK, WorksOnJob, NothingToRun
<1>7. LockedWhileActive'
  BY <1>1, <1>2, <1>3 DEF IInv, TypeOK, LockedWhileActive
<1>8. LockOrStalled'
  BY <1>1, <1>2 DEF IInv, TypeOK, LockOrStalled, HoldsLock
<1>9. CountersInRange'
  BY <1>1, <1>2, <1>3, <1>4 DEF IInv, TypeOK, CountersInRange
<1>10. CompletedHasRun'
  BY <1>1, <1>2, <1>3 DEF IInv, TypeOK, CompletedHasRun, NothingToRun
<1>11. FailedIsSpent'
  BY <1>1, <1>2, <1>3, <1>4 DEF IInv, TypeOK, FailedIsSpent
<1>12. FaultPerAttempt'
  <2>1. \A k \in Jobs : attempts[k] \in Nat /\ faults[k] \in Nat
    BY JobsAssumption DEF IInv, TypeOK, JobsAssumption
  <2>2. \A k \in Jobs : \/ attempts'[k] = attempts[k]
                        \/ k = j /\ at[p] = "threw" /\ attempts'[k] = attempts[k] + 1
    BY <1>2, <1>3 DEF IInv, TypeOK
  <2>3. at[p] = "threw" => attempts[j] < faults[j]
    BY <1>1 DEF IInv, FaultPerAttempt
  <2>4. ASSUME NEW k \in Jobs PROVE attempts'[k] <= faults'[k]
    BY <1>1, <2>1, <2>2, <2>3 DEF IInv, FaultPerAttempt
  <2>5. ASSUME NEW q \in Processes, at'[q] = "threw", HoldsLock(q)'
        PROVE  attempts'[job'[q]] < faults'[job'[q]]
    <3>1. q # p /\ at[q] = "threw" /\ job'[q] = job[q] /\ job[q] \in Jobs
      BY <1>1, <1>5, <1>6, <2>5 DEF IInv, TypeOK, WorksOnJob
    <3>2. job[q] # j /\ HoldsLock(q)
      BY <1>1, <1>2, <2>5, <3>1, JobsAssumption DEF IInv, TypeOK, HoldsLock, JobsAssumption
    <3> QED
      BY <1>1, <2>1, <2>2, <3>1, <3>2 DEF IInv, FaultPerAttempt
  <2> QED
    BY <2>4, <2>5 DEF FaultPerAttempt
<1>13. OncePerAttempt'
  <2>1. \A k \in Jobs : Finding(k)' \subseteq Finding(k)
    BY <1>1 DEF IInv, TypeOK, Finding
  <2>2. \A k \in Jobs : attempts[k] + stalls[k] + Runs(k) <= attempts'[k] + stalls'[k] + Runs(k)'
    BY <1>1, <1>2, <1>3, <1>4 DEF IInv, TypeOK, Runs
  <2> QED
    BY <1>1, <1>5, <2>1, <2>2, NoCallKeepsCount
<1> QED
  BY <1>5, <1>6, <1>7, <1>8, <1>9, <1>10, <1>13, <1>11, <1>12 DEF IInv

-----------------------------------------------------------------------------
(* The queue by itself, and the deletion of a record. *)
LEMMA WorldKeeps ==
  ASSUME IInv, NEW j \in Jobs, RetryDue(j) \/ Stalled(j) \/ DeleteRecord(j)
  PROVE  IInv'
<1>1. /\ UNCHANGED <<kind, attempts, deployed, job, at, begun, returned, faults>>
      /\ \/ /\ state[j] = "backoff" /\ state' = [state EXCEPT ![j] = "waiting"]
            /\ UNCHANGED <<lock, stalls, record>>
         \/ /\ state[j] = "active" /\ stalls' = [stalls EXCEPT ![j] = @ + 1]
            /\ \/ state' = [state EXCEPT ![j] = "failed"] /\ stalls[j] + 1 > MaxStalls
               \/ state' = [state EXCEPT ![j] = "waiting"] /\ stalls[j] + 1 <= MaxStalls
            /\ lock' = [lock EXCEPT ![j] = None] /\ UNCHANGED record
         \/ /\ record' = [record EXCEPT ![j] = FALSE] /\ UNCHANGED <<state, lock, stalls>>
  <2>1. MaxStalls \in Nat /\ stalls \in [Jobs -> Nat]
    BY JobsAssumption DEF IInv, TypeOK, JobsAssumption
  <2> QED
    BY <2>1 DEF RetryDue, Stalled, DeleteRecord, queue, work, history, calls
<1>2. /\ MaxAttempts \in Nat /\ MaxStalls \in Nat
      /\ attempts[j] \in Nat /\ stalls[j] \in Nat
      /\ state[j] # "failed" => attempts[j] < MaxAttempts /\ stalls[j] <= MaxStalls
  BY JobsAssumption DEF IInv, TypeOK, CountersInRange, JobsAssumption
<1>3. TypeOK'
  <2>1. state[j] = "active" => stalls[j] + 1 \in 0 .. MaxStalls + 1
    BY <1>2
  <2>2. stalls' \in [Jobs -> 0 .. MaxStalls + 1]
    BY <1>1, <2>1 DEF IInv, TypeOK
  <2>3. /\ state' \in [Jobs -> {"waiting", "active", "backoff", "completed", "failed"}]
        /\ lock' \in [Jobs -> Processes \cup {None}]
        /\ record' \in [Jobs -> BOOLEAN]
    BY <1>1 DEF IInv, TypeOK
  <2> QED
    BY <1>1, <2>2, <2>3 DEF IInv, TypeOK
<1>4. WorksOnJob'
  BY <1>1 DEF IInv, TypeOK, WorksOnJob, NothingToRun
<1>5. LockedWhileActive'
  BY <1>1 DEF IInv, TypeOK, LockedWhileActive
<1>6. LockOrStalled'
  BY <1>1, <1>2 DEF IInv, TypeOK, LockOrStalled
<1>7. CountersInRange'
  BY <1>1, <1>2 DEF IInv, TypeOK, CountersInRange
<1>8. CompletedHasRun' /\ FailedIsSpent'
  BY <1>1, <1>2 DEF IInv, TypeOK, CompletedHasRun, FailedIsSpent, NothingToRun
<1>9. FaultPerAttempt'
  <2>1. \A p \in Processes : at[p] = "threw" /\ HoldsLock(p)' => HoldsLock(p)
    BY <1>1, JobsAssumption DEF IInv, TypeOK, WorksOnJob, HoldsLock, JobsAssumption
  <2>2. \A k \in Jobs : faults[k] <= faults'[k]
    BY <1>1 DEF IInv, TypeOK
  <2> QED
    BY <1>1, <1>3, <1>4, <2>1, <2>2, NoAttemptKeepsFaults
<1>10. OncePerAttempt'
  <2>1. \A k \in Jobs : Finding(k)' \subseteq Finding(k)
    BY <1>1 DEF Finding
  <2>2. \A k \in Jobs : attempts[k] + stalls[k] + Runs(k) <= attempts'[k] + stalls'[k] + Runs(k)'
    BY <1>1, <1>2 DEF IInv, TypeOK, Runs
  <2> QED
    BY <1>1, <1>3, <2>1, <2>2, NoCallKeepsCount
<1> QED
  BY <1>3, <1>4, <1>5, <1>6, <1>7, <1>8, <1>10, <1>9 DEF IInv

(* Every step keeps the invariant. *)
LEMMA StepKeeps == IInv /\ [Next]_vars => IInv'
<1> SUFFICES ASSUME IInv, [Next]_vars PROVE IInv'
  OBVIOUS
<1>1. CASE UNCHANGED vars
  BY <1>1 DEF vars, queue, work, history, calls, IInv, TypeOK, WorksOnJob, LockedWhileActive,
     LockOrStalled, CountersInRange, OncePerAttempt, Finding, Runs, CompletedHasRun, FaultPerAttempt,
     HoldsLock, FailedIsSpent, NothingToRun
<1>2. CASE Next
  BY <1>2, StartKeeps, ExecutionKeeps, LettingGoKeeps, SettlingKeeps, WorldKeeps DEF Next, Execute
<1> QED
  BY <1>1, <1>2

(***************************************************************************)
(* The inductive invariant.                                                *)
(***************************************************************************)
THEOREM Invariant == Spec => []IInv
<1> QED
  BY InitHolds, StepKeeps, PTL DEF Spec

(***************************************************************************)
(* Type correctness; in particular attempts and stalls stay within their   *)
(* limits.                                                                 *)
(***************************************************************************)
THEOREM TypeCorrect == Spec => []TypeOK
<1>1. IInv => TypeOK
  BY DEF IInv
<1> QED
  BY <1>1, Invariant, PTL

(***************************************************************************)
(* A completed job has had its method return, or there was nothing to run  *)
(* (doWork awaits the method and throws for a class it does not find).     *)
(***************************************************************************)
THEOREM CompletedJobsHaveRun == Spec => []CompletedHasRun
<1>1. IInv => CompletedHasRun
  BY DEF IInv
<1> QED
  BY <1>1, Invariant, PTL

(***************************************************************************)
(* A failed job has as many failures as attempts, or was stalled too       *)
(* often: each attempt that is counted was one in which the class was      *)
(* missing, the find rejected or the method threw.                         *)
(***************************************************************************)
THEOREM FailedJobsHaveAReason == Spec => []FailedForAReason
<1>1. IInv => FailedForAReason
  <2> SUFFICES ASSUME IInv, NEW j \in Jobs, state[j] = "failed"
               PROVE  faults[j] >= MaxAttempts \/ stalls[j] > MaxStalls
    BY DEF FailedForAReason
  <2>1. attempts[j] = MaxAttempts \/ stalls[j] > MaxStalls
    BY DEF IInv, FailedIsSpent
  <2>2. attempts[j] <= faults[j] /\ attempts[j] \in Nat /\ faults[j] \in Nat
    BY JobsAssumption DEF IInv, TypeOK, FaultPerAttempt, JobsAssumption
  <2> QED
    BY <2>1, <2>2
<1> QED
  BY <1>1, Invariant, PTL

(***************************************************************************)
(* A call made for a settled job comes from a find: Start only takes jobs  *)
(* that wait, and a settled job has no lock, so that the process that      *)
(* awaited the find has lost it.                                           *)
(***************************************************************************)
THEOREM SettledJobsAreNotCalledAgain == Spec => SettledNotCalledAgain
<1>1. ASSUME IInv, [Next]_vars, NEW j \in Jobs, begun'[j] # begun[j],
             state[j] \in {"completed", "failed"}
      PROVE  kind[j] = "model" /\ stalls[j] > 0
  <2>1. begun' # begun
    BY <1>1
  <2>2. ~(\E p \in Processes, k \in Jobs : Start(p, k))
    <3> SUFFICES ASSUME NEW p \in Processes, NEW k \in Jobs, Start(p, k) PROVE FALSE
      OBVIOUS
    <3>1. state[k] = "waiting" /\ job' = [job EXCEPT ![p] = k] /\ job \in [Processes -> Jobs \cup {None}]
      BY <1>1 DEF Start, IInv, TypeOK
    <3>2. \/ begun' = begun
          \/ begun' = [begun EXCEPT ![k] = @ + 1]
      BY <3>1 DEF Start, DoWork, Throws, CallsMethod, calls
    <3> QED
      BY <1>1, <3>1, <3>2 DEF IInv, TypeOK
  <2>3. PICK p \in Processes : FindResolves(p)
    BY <1>1, <2>1, <2>2 DEF Next, Execute, FindRejects, MethodReturns, MethodThrows, Throws,
       Complete, FailAttempt, MissingLock, Restart, RetryDue, Stalled, DeleteRecord, vars, history, calls
  <2>4. at[p] = "find" /\ job' = job
    BY <2>3 DEF FindResolves
  <2>5. j = job[p]
    BY <1>1, <2>3, <2>4, Busy DEF FindResolves, CallsMethod, calls, IInv, TypeOK
  <2>6. lock[j] = None
    BY <1>1 DEF IInv, LockedWhileActive
  <2> QED
    BY <1>1, <2>4, <2>5, <2>6, JobsAssumption DEF IInv, WorksOnJob, LockOrStalled, JobsAssumption
<1>2. IInv /\ [Next]_vars =>
        [\A j \in Jobs : begun'[j] # begun[j] /\ state[j] \in {"completed", "failed"} =>
           kind[j] = "model" /\ stalls[j] > 0]_vars
  BY <1>1
<1> QED
  BY <1>2, Invariant, PTL DEF Spec, SettledNotCalledAgain

(***************************************************************************)
(* However often processes are lost, a method is called at most            *)
(* MaxAttempts + MaxStalls times.                                          *)
(***************************************************************************)
THEOREM CallsAreBounded == Spec => []CallsBounded
<1>1. IInv => CallsBounded
  <2> SUFFICES ASSUME IInv, NEW j \in Jobs PROVE begun[j] <= MaxAttempts + MaxStalls
    BY DEF CallsBounded
  <2>1. /\ begun[j] \in Nat /\ attempts[j] \in Nat /\ stalls[j] \in Nat
        /\ MaxAttempts \in Nat /\ MaxStalls \in Nat
    BY JobsAssumption DEF IInv, TypeOK, JobsAssumption
  <2>2. begun[j] + Cardinality(Finding(j)) <= attempts[j] + stalls[j] + Runs(j)
    BY DEF IInv, OncePerAttempt
  <2>3. attempts[j] + stalls[j] + Runs(j) <= MaxAttempts + MaxStalls
    BY <2>1 DEF IInv, CountersInRange, Runs
  <2> QED
    BY <2>1, <2>2, <2>3, FindingIsFinite DEF Runs
<1> QED
  BY <1>1, Invariant, PTL

-----------------------------------------------------------------------------
(* Jobs implements JobContract: lemmas about the abstract state. *)

LEMMA PendingOutcome ==
  ASSUME NEW j \in Jobs, state[j] = "active"
  PROVE  Outcome(j) = "pending"
  BY DEF Outcome

(* Only what a step does to the states of jobs shows in their outcomes. *)
LEMMA OutcomeSame ==
  ASSUME UNCHANGED state
  PROVE  UNCHANGED [j \in Jobs |-> Outcome(j)]
  BY DEF Outcome

LEMMA VoidSame ==
  ASSUME UNCHANGED <<kind, record>>
  PROVE  UNCHANGED {j \in Jobs : NothingToRun(j)}
  BY DEF NothingToRun

(* A job that ends settles in the abstract state. *)
LEMMA OutcomeSettles ==
  ASSUME IInv, NEW j \in Jobs, NEW o \in {"completed", "failed"}, state' = [state EXCEPT ![j] = o]
  PROVE  [k \in Jobs |-> Outcome(k)]' = [[k \in Jobs |-> Outcome(k)] EXCEPT ![j] = o]
  BY DEF IInv, TypeOK, Outcome

(* A job that goes on waiting does not. *)
LEMMA OutcomeWaits ==
  ASSUME IInv, NEW j \in Jobs, NEW s \in {"waiting", "active", "backoff"},
         state[j] \in {"waiting", "active", "backoff"}, state' = [state EXCEPT ![j] = s]
  PROVE  UNCHANGED [k \in Jobs |-> Outcome(k)]
  BY DEF IInv, TypeOK, Outcome

LEMMA InitRefines == Init => Contract!Init
<1> SUFFICES ASSUME Init PROVE Contract!Init
  OBVIOUS
<1>1. [j \in Jobs |-> Outcome(j)] = [j \in Jobs |-> "pending"]
  BY DEF Init, Outcome
<1> QED
  BY <1>1 DEF Contract!Init, Init

LEMMA StepRefines == IInv /\ [Next]_vars => [Contract!Next]_(Contract!vars)
<1> SUFFICES ASSUME IInv, [Next]_vars PROVE [Contract!Next]_(Contract!vars)
  OBVIOUS
<1> USE DEF Contract!Next, Contract!vars
<1>1. ASSUME NEW p \in Processes, NEW j \in Jobs, Start(p, j) PROVE UNCHANGED Contract!vars
  <2>1. state[j] = "waiting" /\ state' = [state EXCEPT ![j] = "active"] /\ UNCHANGED <<kind, record, returned>>
    BY <1>1 DEF Start, DoWork, Throws, CallsMethod, calls
  <2> QED
    BY <2>1, OutcomeWaits, VoidSame
<1>2. ASSUME NEW p \in Processes,
             FindResolves(p) \/ FindRejects(p) \/ MethodThrows(p) \/ MissingLock(p) \/ Restart(p)
      PROVE  UNCHANGED Contract!vars
  <2>1. UNCHANGED <<kind, state, record, returned>>
    BY <1>2 DEF FindResolves, FindRejects, MethodThrows, MissingLock, Restart, Throws, CallsMethod,
       queue, history, calls
  <2> QED
    BY <2>1, OutcomeSame, VoidSame
<1>3. ASSUME NEW p \in Processes, MethodReturns(p) PROVE Contract!Next
  <2>1. /\ job[p] \in Jobs /\ returned' = returned \cup {job[p]}
        /\ UNCHANGED <<kind, state, record>>
    BY <1>3, Busy DEF MethodReturns, queue
  <2>2. Contract!Return(job[p])
    BY <2>1, OutcomeSame, VoidSame DEF Contract!Return
  <2> QED
    BY <2>1, <2>2
<1>4. ASSUME NEW p \in Processes, Complete(p) PROVE Contract!Next
  <2>1. /\ at[p] = "returned" /\ HoldsLock(p)
        /\ state' = [state EXCEPT ![job[p]] = "completed"] /\ UNCHANGED <<kind, record, returned>>
    BY <1>4 DEF Complete, history, calls
  <2>2. job[p] \in Jobs /\ state[job[p]] = "active"
    BY <2>1, Busy, Locked
  <2>3. job[p] \in returned \cup {j \in Jobs : NothingToRun(j)}
    BY <2>1, <2>2 DEF IInv, WorksOnJob
  <2>4. Contract!Complete(job[p])
    BY <2>1, <2>2, <2>3, OutcomeSettles, PendingOutcome, VoidSame DEF Contract!Complete
  <2> QED
    BY <2>2, <2>4 DEF Contract!Settle
<1>5. ASSUME NEW j \in Jobs, state[j] = "active", UNCHANGED <<kind, record, returned>>,
             NEW s \in {"failed", "backoff", "waiting"}, state' = [state EXCEPT ![j] = s]
      PROVE  Contract!Next \/ UNCHANGED Contract!vars
  <2>1. CASE s = "failed"
    <3>1. Contract!Fail(j)
      BY <1>5, <2>1, OutcomeSettles, PendingOutcome, VoidSame DEF Contract!Fail
    <3> QED
      BY <3>1 DEF Contract!Settle
  <2>2. CASE s # "failed"
    BY <1>5, <2>2, OutcomeWaits, VoidSame
  <2> QED
    BY <2>1, <2>2
<1>6. ASSUME NEW p \in Processes, FailAttempt(p) PROVE Contract!Next \/ UNCHANGED Contract!vars
  <2>1. /\ at[p] = "threw" /\ HoldsLock(p) /\ UNCHANGED <<kind, record, returned>>
        /\ \E s \in {"failed", "backoff", "waiting"} : state' = [state EXCEPT ![job[p]] = s]
    BY <1>6 DEF FailAttempt, history, calls
  <2>2. job[p] \in Jobs /\ state[job[p]] = "active"
    BY <2>1, Busy, Locked
  <2> QED
    BY <1>5, <2>1, <2>2
<1>7. ASSUME NEW j \in Jobs, Stalled(j) PROVE Contract!Next \/ UNCHANGED Contract!vars
  <2>1. /\ state[j] = "active" /\ UNCHANGED <<kind, record, returned>>
        /\ \E s \in {"failed", "backoff", "waiting"} : state' = [state EXCEPT ![j] = s]
    BY <1>7 DEF Stalled, history, calls
  <2> QED
    BY <1>5, <2>1
<1>8. ASSUME NEW j \in Jobs, RetryDue(j) PROVE UNCHANGED Contract!vars
  <2>1. state[j] = "backoff" /\ state' = [state EXCEPT ![j] = "waiting"] /\ UNCHANGED <<kind, record, returned>>
    BY <1>8 DEF RetryDue, history, calls
  <2> QED
    BY <2>1, OutcomeWaits, VoidSame
<1>9. ASSUME NEW j \in Jobs, DeleteRecord(j) PROVE Contract!Next \/ UNCHANGED Contract!vars
  <2>1. record' = [record EXCEPT ![j] = FALSE] /\ UNCHANGED <<kind, state, returned>>
    BY <1>9 DEF DeleteRecord, queue, history, calls
  <2>2. CASE kind[j] = "model"
    <3>1. {k \in Jobs : NothingToRun(k)}' = {k \in Jobs : NothingToRun(k)} \cup {j}
      BY <2>1, <2>2 DEF IInv, TypeOK, NothingToRun
    <3>2. Contract!Void(j)
      BY <2>1, <3>1, OutcomeSame DEF Contract!Void
    <3> QED
      BY <3>2
  <2>3. CASE kind[j] # "model"
    <3>1. UNCHANGED {k \in Jobs : NothingToRun(k)}
      BY <2>1, <2>3 DEF IInv, TypeOK, NothingToRun
    <3> QED
      BY <2>1, <3>1, OutcomeSame
  <2> QED
    BY <2>2, <2>3
<1>10. CASE UNCHANGED vars
  BY <1>10, OutcomeSame, VoidSame DEF vars, queue, history, calls
<1> QED
  BY <1>1, <1>2, <1>3, <1>4, <1>6, <1>7, <1>8, <1>9, <1>10 DEF Next, Execute

(***************************************************************************)
(* Jobs implements the safety part of JobContract: whatever is restarted,  *)
(* stalled or deleted, a job settles once and for good, and completes only *)
(* after its method returned or when there was nothing to run.             *)
(***************************************************************************)
THEOREM RefinesContract == Spec => Contract!Spec
<1> QED
  BY InitRefines, StepRefines, Invariant, PTL DEF Spec, Contract!Spec
=============================================================================
