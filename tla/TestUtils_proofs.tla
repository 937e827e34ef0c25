-------------------------- MODULE TestUtils_proofs --------------------------
(***************************************************************************)
(* Proofs about TestUtils, for any queues and jobs, whatever these enqueue *)
(* and however often they fail.                                            *)
(***************************************************************************)
EXTENDS TestUtils, TLAPS

Statuses == {"none", "waiting", "active", "delayed", "completed", "failed", "removed"}

LEMMA EachJobHasAQueue ==
  /\ Len(Order) \in Nat
  /\ \A i \in 1 .. Len(Order) : Order[i] \in Queues
  /\ \A j \in Jobs : QueueOf[j] \in Queues /\ \E i \in 1 .. Len(Order) : QueueOf[j] = Order[i]
  BY TestUtilsAssumption DEF TestUtilsAssumption, Queues

(* Once the loop is through, every queue is passed. *)
LEMMA AllPassed ==
  ASSUME pos \in Nat, pos > Len(Order), NEW j \in Jobs
  PROVE  QueueOf[j] \in Passed
<1>1. PICK i \in 1 .. Len(Order) : QueueOf[j] = Order[i]
  BY EachJobHasAQueue
<1>2. i \in 1 .. (pos - 1)
  BY EachJobHasAQueue
<1> QED
  BY <1>1, <1>2 DEF Passed

(* A step of the loop passes the queue it was at, and no other. *)
LEMMA OneMorePassed ==
  ASSUME pos \in Nat \ {0}, pos' = pos + 1
  PROVE  Passed' = Passed \cup {Order[pos]}
  BY DEF Passed

LEMMA NothingPassed == pos = 1 => Passed = {}
  BY DEF Passed

(* A method that enqueues jobs changes no job that exists already. *)
LEMMA SpawnedAreNew ==
  ASSUME TypeOK, NEW j \in Jobs, NEW S
  PROVE  /\ WithSpawned(j, S) \in [Jobs -> Statuses]
         /\ \A k \in Jobs : \/ WithSpawned(j, S)[k] = status[k]
                            \/ status[k] = "none" /\ WithSpawned(j, S)[k] = "waiting"
  BY DEF TypeOK, WithSpawned, Statuses

(* On plain redis, work({ queue }) selects the jobs it was asked for. *)
LEMMA AskedAreSelected ==
  ASSUME NEW name \in Names
  PROVE  Unclustered(InQueues(AskedFor(name))) \subseteq InQueues({q \in Queues : QueueNamesMatch(q, name)})
<1> SUFFICES ASSUME NEW q \in AskedFor(name), q \notin clustered
             PROVE  q \in Queues /\ QueueNamesMatch(q, name)
  BY DEF InQueues, Unclustered
<1>1. q \in Queues /\ name = Name(q, "", 0)
  BY DEF Names, Name, AskedFor
<1> QED
  BY <1>1 DEF QueueNamesMatch, NameToRedisQueueName

LEMMA InitHolds == Init => IInv
<1> SUFFICES ASSUME Init PROVE IInv
  OBVIOUS
<1>1. TypeOK
  <2>1. turn \in [queue : Queues \cup {None}, behind : SUBSET Queues]
    BY DEF Init, NoTurn
  <2>2. pos \in 1 .. Len(Order) + 1
    BY EachJobHasAQueue DEF Init
  <2>3. workWasDone \in BOOLEAN
    BY DEF Init
  <2>4. status \in [Jobs -> Statuses] /\ attempts \in [Jobs -> 0 .. MaxAttempts]
    BY TestUtilsAssumption DEF TestUtilsAssumption, Init, Statuses
  <2>5. op \in {"none"} /\ clustered \in Clusterings /\ asked \subseteq Jobs /\ scope \subseteq Jobs
        /\ current \in Jobs \cup {None} /\ listed \subseteq Jobs /\ fellDue \subseteq Jobs
        /\ ranAhead \subseteq Jobs
    BY DEF Init
  <2> QED
    BY <2>1, <2>2, <2>3, <2>4, <2>5 DEF TypeOK, Statuses
<1>2. AttemptsLeft
  BY TestUtilsAssumption DEF TestUtilsAssumption, Init, AttemptsLeft
<1>3. LocalState
  BY DEF Init, LocalState, Unclustered
<1> QED
  BY <1>1, <1>2, <1>3 DEF Init, IInv, WorkPosition, WorkScheduledPosition, CleanPosition

LEMMA Unchanged == IInv /\ UNCHANGED vars => IInv'
  BY DEF vars, queues, locals, IInv, TypeOK, AttemptsLeft, LocalState, Unclustered, WorkPosition,
         WorkScheduledPosition, CleanPosition, Cleaned, Passed

(***************************************************************************)
(* The test and the time.                                                  *)
(***************************************************************************)

LEMMA EnqueueKeeps ==
  ASSUME IInv, NEW j \in Jobs, Enqueue(j)
  PROVE  IInv'
<1>1. PICK s \in {"waiting", "delayed"} : status' = [status EXCEPT ![j] = s]
  BY DEF Enqueue
<1> QED
  BY <1>1 DEF Enqueue, locals, IInv, TypeOK, AttemptsLeft, LocalState, Unclustered, WorkPosition,
              WorkScheduledPosition, CleanPosition, Cleaned, Passed

LEMMA FallDueKeeps ==
  ASSUME IInv, NEW j \in Jobs, FallDue(j)
  PROVE  IInv'
<1> USE DEF IInv
<1>1. /\ status[j] = "delayed" /\ status' = [status EXCEPT ![j] = "waiting"]
      /\ fellDue' = IF op = "none" THEN {} ELSE fellDue \cup {j}
      /\ UNCHANGED <<clustered, attempts, op, asked, scope, pos, workWasDone, current, listed, ranAhead, turn>>
  BY DEF FallDue, locals
<1>2. TypeOK'
  BY <1>1 DEF TypeOK
<1>3. \A k \in Jobs : status'[k] = IF k = j THEN "waiting" ELSE status[k]
  BY <1>1 DEF TypeOK
<1>4. AttemptsLeft' /\ LocalState'
  BY <1>1, <1>3 DEF AttemptsLeft, LocalState, Unclustered, TypeOK
<1>5. Passed' = Passed
  BY <1>1 DEF Passed
<1>6. WorkPosition' /\ WorkScheduledPosition'
  BY <1>1, <1>3, <1>5 DEF WorkPosition, WorkScheduledPosition, TypeOK
<1>7. CleanPosition'
  BY <1>1, <1>3, <1>5 DEF CleanPosition, Cleaned, TypeOK
<1> QED
  BY <1>2, <1>4, <1>6, <1>7

LEMMA BeginKeeps ==
  ASSUME IInv, NEW what \in {"work", "workScheduled", "drain"},
         NEW wanted \in SUBSET Jobs, NEW jobs \in SUBSET Jobs, Unclustered(wanted) \subseteq jobs,
         Begin(what, wanted, jobs)
  PROVE  IInv'
<1>1. pos = 1 /\ pos' = 1
  BY DEF Begin, IInv, LocalState
<1>2. Passed' = {}
  BY <1>1 DEF Passed
<1>3. TypeOK' /\ AttemptsLeft' /\ LocalState'
  BY DEF Begin, queues, IInv, TypeOK, AttemptsLeft, LocalState, Unclustered
<1>4. WorkPosition' /\ WorkScheduledPosition'
  BY <1>2 DEF WorkPosition, WorkScheduledPosition
<1>5. CleanPosition'
  BY <1>2 DEF CleanPosition, Begin
<1> QED
  BY <1>3, <1>4, <1>5 DEF IInv

LEMMA CallKeeps ==
  ASSUME IInv, Work \/ WorkScheduled \/ Clean
  PROVE  IInv'
<1>1. ASSUME NEW jobs \in SUBSET Jobs, NEW what \in {"work", "workScheduled", "drain"},
             Begin(what, jobs, jobs)
      PROVE  IInv'
  BY <1>1, BeginKeeps DEF Unclustered
<1>2. ASSUME NEW name \in Names,
             Begin("work", InQueues(AskedFor(name)), InQueues({q \in Queues : QueueNamesMatch(q, name)}))
      PROVE  IInv'
  BY <1>2, AskedAreSelected, BeginKeeps DEF InQueues
<1>3. ASSUME NEW Q, WorkScheduledIn(Q) PROVE IInv'
  <2>1. PICK C \in {Classes} \cup {{c} : c \in Classes} :
          Begin("workScheduled", {j \in InQueues(Q) : ClassOf[j] \in C}, {j \in InQueues(Q) : ClassOf[j] \in C})
    BY <1>3 DEF WorkScheduledIn
  <2>2. {j \in InQueues(Q) : ClassOf[j] \in C} \subseteq Jobs
    BY DEF InQueues
  <2> QED
    BY <1>1, <2>1, <2>2
<1> QED
  BY <1>1, <1>2, <1>3 DEF Work, WorkScheduled, Clean

(***************************************************************************)
(* work().                                                                 *)
(***************************************************************************)

LEMMA PassQueueKeeps ==
  ASSUME IInv, PassQueue
  PROVE  IInv'
  BY DEF PassQueue, AtQueue, queues, IInv, TypeOK, AttemptsLeft, LocalState, Unclustered,
         WorkPosition, WorkScheduledPosition, CleanPosition

LEMMA FindNoJobKeeps ==
  ASSUME IInv, FindNoJob
  PROVE  IInv'
<1> USE DEF IInv
<1>1. /\ op = "work" /\ current = None /\ pos <= Len(Order) /\ ~workWasDone
      /\ Waiting(Order[pos]) = {} /\ pos' = pos + 1
      /\ UNCHANGED <<clustered, status, attempts, op, asked, scope, workWasDone, current, listed, fellDue, ranAhead, turn>>
  BY DEF FindNoJob, AtQueue, queues
<1>2. TypeOK' /\ AttemptsLeft' /\ LocalState'
  BY <1>1, EachJobHasAQueue DEF TypeOK, AttemptsLeft, LocalState, Unclustered
<1>3. Passed' = Passed \cup {Order[pos]}
  BY <1>1, OneMorePassed DEF TypeOK
<1>4. WorkPosition'
  BY <1>1, <1>3 DEF WorkPosition, Waiting
<1> QED
  BY <1>1, <1>2, <1>4 DEF WorkScheduledPosition, CleanPosition

LEMMA FindJobKeeps ==
  ASSUME IInv, NEW j \in Jobs, FindJob(j)
  PROVE  IInv'
<1> USE DEF IInv
<1>1. /\ op = "work" /\ current = None /\ pos <= Len(Order) /\ ~workWasDone
      /\ status[j] = "waiting" /\ status' = [status EXCEPT ![j] = "active"] /\ current' = j
      /\ turn' = [queue |-> QueueOf[j], behind |-> {q \in Queues \ {QueueOf[j]} : Waiting(q) # {}}]
      /\ UNCHANGED <<clustered, attempts, op, asked, scope, pos, workWasDone, listed, fellDue, ranAhead>>
  BY DEF FindJob, AtQueue, Waiting
<1>2. turn' \in [queue : Queues \cup {None}, behind : SUBSET Queues]
  BY <1>1, EachJobHasAQueue
<1>3. TypeOK'
  BY <1>1, <1>2 DEF TypeOK
<1>4. \A k \in Jobs : status'[k] = IF k = j THEN "active" ELSE status[k]
  BY <1>1 DEF TypeOK
<1>5. AttemptsLeft' /\ LocalState'
  BY <1>1, <1>4, TestUtilsAssumption DEF TestUtilsAssumption, AttemptsLeft, LocalState, Unclustered
<1>6. current' # None
  BY <1>1, TestUtilsAssumption DEF TestUtilsAssumption
<1> QED
  BY <1>1, <1>3, <1>5, <1>6 DEF WorkPosition, WorkScheduledPosition, CleanPosition

(* What becomes of the job, and the jobs it has enqueued. *)
LEMMA JobDoneKeeps ==
  ASSUME IInv, NEW j \in Jobs, current = j, NEW S, NEW s \in Statuses \ {"none", "active"},
         status' = [WithSpawned(j, S) EXCEPT ![j] = s],
         attempts' \in [Jobs -> 0 .. MaxAttempts], \A k \in Jobs : k # j => attempts'[k] = attempts[k],
         s \in {"waiting", "delayed"} => attempts'[j] < MaxAttempts,
         JobDone
  PROVE  IInv'
<1> USE DEF IInv
<1>1. current # None
  BY TestUtilsAssumption DEF TestUtilsAssumption
<1>2. op = "work" /\ pos <= Len(Order) /\ status[j] = "active"
  BY <1>1 DEF LocalState
<1>3. /\ current' = None /\ workWasDone' = TRUE /\ pos' = pos + 1
      /\ UNCHANGED <<clustered, op, asked, scope, listed, fellDue, ranAhead, turn>>
  BY DEF JobDone
<1>4. /\ WithSpawned(j, S) \in [Jobs -> Statuses]
      /\ \A k \in Jobs : \/ WithSpawned(j, S)[k] = status[k]
                         \/ status[k] = "none" /\ WithSpawned(j, S)[k] = "waiting"
  BY SpawnedAreNew
<1>5. /\ status' \in [Jobs -> Statuses] /\ status'[j] = s
      /\ \A k \in Jobs : k # j => \/ status'[k] = status[k]
                                  \/ status[k] = "none" /\ status'[k] = "waiting"
  BY <1>4
<1>6. TypeOK'
  BY <1>2, <1>3, <1>5, EachJobHasAQueue DEF TypeOK, Statuses
<1>7. AttemptsLeft'
  <2> SUFFICES ASSUME NEW k \in Jobs, status'[k] \in {"none", "waiting", "active", "delayed"}
               PROVE  attempts'[k] < MaxAttempts
    BY DEF AttemptsLeft
  <2>1. CASE k = j
    BY <1>5, <2>1 DEF Statuses
  <2>2. CASE k # j
    BY <1>5, <2>2 DEF AttemptsLeft
  <2> QED
    BY <2>1, <2>2
<1>8. LocalState'
  BY <1>2, <1>3 DEF LocalState, Unclustered
<1> QED
  BY <1>2, <1>3, <1>6, <1>7, <1>8 DEF WorkPosition, WorkScheduledPosition, CleanPosition

LEMMA JobResolvesKeeps ==
  ASSUME IInv, NEW j \in Jobs, JobResolves(j)
  PROVE  IInv'
<1>1. /\ current = j /\ status' = [WithSpawned(j, Jobs) EXCEPT ![j] = "completed"]
      /\ JobDone /\ attempts' = attempts
  BY DEF JobResolves
<1>2. attempts' \in [Jobs -> 0 .. MaxAttempts]
  BY <1>1 DEF IInv, TypeOK
<1> QED
  BY <1>1, <1>2, JobDoneKeeps DEF Statuses

LEMMA JobThrowsKeeps ==
  ASSUME IInv, NEW j \in Jobs, JobThrows(j)
  PROVE  IInv'
<1>1. current = j /\ attempts' = [attempts EXCEPT ![j] = @ + 1] /\ JobDone
  BY DEF JobThrows
<1>2. PICK S \in SUBSET Spawns[j], s \in AfterFailure(attempts'[j]) :
        status' = [WithSpawned(j, S) EXCEPT ![j] = s]
  BY DEF JobThrows
<1>3. attempts[j] < MaxAttempts /\ attempts[j] \in Nat /\ MaxAttempts \in Nat
  <2>1. status[j] = "active"
    BY <1>1, TestUtilsAssumption DEF TestUtilsAssumption, IInv, LocalState
  <2> QED
    BY <2>1, TestUtilsAssumption DEF TestUtilsAssumption, IInv, AttemptsLeft, TypeOK
<1>4. /\ attempts' \in [Jobs -> 0 .. MaxAttempts] /\ attempts'[j] = attempts[j] + 1
      /\ \A k \in Jobs : k # j => attempts'[k] = attempts[k]
  BY <1>1, <1>3 DEF IInv, TypeOK
<1>5. s \in Statuses \ {"none", "active"} /\ (s \in {"waiting", "delayed"} => attempts'[j] < MaxAttempts)
  BY <1>2, <1>4 DEF AfterFailure, Statuses
<1> QED
  BY <1>1, <1>2, <1>4, <1>5, JobDoneKeeps

(* A call that ends leaves nothing of its local state behind. *)
LEMMA EndsKeeps ==
  ASSUME IInv, Ends, status' \in [Jobs -> Statuses], attempts' = attempts,
         \A k \in Jobs : \/ status'[k] \in {status[k], "removed"}
                         \/ status[k] = "none" /\ status'[k] = "waiting"
  PROVE  IInv'
<1> USE DEF IInv
<1>1. /\ op' = "none" /\ asked' = Jobs /\ scope' = Jobs /\ pos' = 1 /\ workWasDone' = FALSE
      /\ listed' = {} /\ fellDue' = {} /\ ranAhead' = {} /\ turn' = NoTurn
      /\ clustered' = clustered /\ current' = None
  BY DEF Ends
<1>2. turn' \in [queue : Queues \cup {None}, behind : SUBSET Queues]
  BY <1>1 DEF NoTurn
<1>3. TypeOK'
  <2>1. workWasDone' \in BOOLEAN
    BY <1>1
  <2>2. pos' \in 1 .. Len(Order) + 1
    BY <1>1, EachJobHasAQueue
  <2>3. /\ attempts' \in [Jobs -> 0 .. MaxAttempts] /\ clustered' \in Clusterings
        /\ current' \in Jobs \cup {None} /\ asked' \subseteq Jobs /\ scope' \subseteq Jobs
        /\ listed' \subseteq Jobs /\ fellDue' \subseteq Jobs /\ ranAhead' \subseteq Jobs
    BY <1>1 DEF TypeOK
  <2> QED
    BY <1>1, <1>2, <2>1, <2>2, <2>3 DEF TypeOK, Statuses
<1>4. AttemptsLeft'
  BY DEF AttemptsLeft
<1>5. LocalState'
  BY <1>1 DEF LocalState, Unclustered
<1> QED
  BY <1>1, <1>3, <1>4, <1>5 DEF WorkPosition, WorkScheduledPosition, CleanPosition

LEMMA MoveToFailedRejectsKeeps ==
  ASSUME IInv, NEW j \in Jobs, MoveToFailedRejects(j)
  PROVE  IInv'
<1>1. PICK S \in SUBSET Spawns[j] : status' = WithSpawned(j, S)
  BY DEF MoveToFailedRejects
<1>2. Ends /\ attempts' = attempts
  BY DEF MoveToFailedRejects
<1>3. /\ status' \in [Jobs -> Statuses]
      /\ \A k \in Jobs : \/ status'[k] \in {status[k], "removed"}
                         \/ status[k] = "none" /\ status'[k] = "waiting"
  BY <1>1, SpawnedAreNew DEF IInv
<1> QED
  BY <1>2, <1>3, EndsKeeps

LEMMA EndPassKeeps ==
  ASSUME IInv, EndPass
  PROVE  IInv'
<1>1. CASE Ends
  <2>1. current = None /\ status' = status /\ attempts' = attempts
    BY DEF EndPass, queues
  <2>2. status' \in [Jobs -> Statuses]
    BY <2>1 DEF IInv, TypeOK, Statuses
  <2>3. \A k \in Jobs : \/ status'[k] \in {status[k], "removed"}
                        \/ status[k] = "none" /\ status'[k] = "waiting"
    BY <2>1
  <2> QED
    BY <1>1, <2>1, <2>2, <2>3, EndsKeeps
<1>2. CASE ~Ends
  <2>1. /\ op = "work" /\ current = None /\ pos' = 1 /\ workWasDone' = FALSE
        /\ UNCHANGED <<clustered, status, attempts, op, asked, scope, current, listed, fellDue, ranAhead, turn>>
    BY <1>2 DEF EndPass, queues
  <2>2. Passed' = {}
    BY <2>1 DEF Passed
  <2>3. pos' \in 1 .. Len(Order) + 1
    <3>1. pos' = 1
      BY <2>1
    <3> QED
      BY <3>1, EachJobHasAQueue
  <2>4. TypeOK'
    BY <2>1, <2>3 DEF IInv, TypeOK
  <2>5. AttemptsLeft' /\ LocalState'
    BY <2>1 DEF IInv, AttemptsLeft, LocalState, Unclustered
  <2> QED
    BY <2>1, <2>2, <2>4, <2>5 DEF IInv, WorkPosition, WorkScheduledPosition, CleanPosition
<1> QED
  BY <1>1, <1>2

(***************************************************************************)
(* workScheduled().                                                        *)
(***************************************************************************)

LEMMA ListDelayedKeeps ==
  ASSUME IInv, ListDelayed
  PROVE  IInv'
<1> USE DEF IInv
<1>1. /\ op = "workScheduled" /\ current = None /\ pos <= Len(Order) /\ listed = {}
      /\ listed' = Delayed(Order[pos]) /\ pos' = pos + 1
      /\ UNCHANGED <<clustered, status, attempts, op, asked, scope, workWasDone, current, fellDue, ranAhead, turn>>
  BY DEF ListDelayed, AtQueue, queues
<1>2. pos' \in 1 .. Len(Order) + 1
  BY <1>1, EachJobHasAQueue DEF TypeOK
<1>3. TypeOK'
  BY <1>1, <1>2 DEF TypeOK, Delayed
<1>4. AttemptsLeft' /\ LocalState'
  BY <1>1 DEF AttemptsLeft, LocalState, Unclustered
<1>5. Passed' = Passed \cup {Order[pos]}
  BY <1>1, OneMorePassed DEF TypeOK
<1>6. WorkScheduledPosition'
  BY <1>1, <1>5 DEF WorkScheduledPosition, Delayed
<1> QED
  BY <1>1, <1>3, <1>4, <1>6 DEF WorkPosition, CleanPosition

LEMMA RunListedKeeps ==
  ASSUME IInv, NEW j \in Jobs, RunListed(j)
  PROVE  IInv'
<1> USE DEF IInv
<1>1. /\ op = "workScheduled" /\ current = None
      /\ listed' = listed \ {j} /\ ranAhead' = ranAhead \cup {j} /\ status' = WithSpawned(j, Jobs)
      /\ UNCHANGED <<clustered, attempts, op, asked, scope, pos, workWasDone, current, fellDue, turn>>
  BY DEF RunListed, LocalState
<1>2. /\ status' \in [Jobs -> Statuses]
      /\ \A k \in Jobs : \/ status'[k] = status[k]
                         \/ status[k] = "none" /\ status'[k] = "waiting"
  BY <1>1, SpawnedAreNew
<1>3. TypeOK'
  BY <1>1, <1>2 DEF TypeOK, Statuses
<1>4. AttemptsLeft' /\ LocalState'
  BY <1>1, <1>2 DEF AttemptsLeft, LocalState, Unclustered
<1>5. Passed' = Passed
  BY <1>1 DEF Passed
<1>6. WorkScheduledPosition'
  BY <1>1, <1>2, <1>5 DEF WorkScheduledPosition, TypeOK
<1> QED
  BY <1>1, <1>3, <1>4, <1>6 DEF WorkPosition, CleanPosition

LEMMA ListedThrowsKeeps ==
  ASSUME IInv, NEW j \in Jobs, ListedThrows(j)
  PROVE  IInv'
<1>1. PICK S \in SUBSET Spawns[j] : status' = WithSpawned(j, S)
  BY DEF ListedThrows
<1>2. Ends /\ attempts' = attempts
  BY DEF ListedThrows
<1>3. /\ status' \in [Jobs -> Statuses]
      /\ \A k \in Jobs : \/ status'[k] \in {status[k], "removed"}
                         \/ status[k] = "none" /\ status'[k] = "waiting"
  BY <1>1, SpawnedAreNew DEF IInv
<1> QED
  BY <1>2, <1>3, EndsKeeps

LEMMA EndWorkScheduledKeeps ==
  ASSUME IInv, EndWorkScheduled
  PROVE  IInv'
<1>1. Ends /\ current = None /\ status' = status /\ attempts' = attempts
  BY DEF EndWorkScheduled, queues, IInv, LocalState
<1>2. status' \in [Jobs -> Statuses]
  BY <1>1 DEF IInv, TypeOK, Statuses
<1>3. \A k \in Jobs : \/ status'[k] \in {status[k], "removed"}
                      \/ status[k] = "none" /\ status'[k] = "waiting"
  BY <1>1
<1> QED
  BY <1>1, <1>2, <1>3, EndsKeeps

(***************************************************************************)
(* clean().                                                                *)
(***************************************************************************)

LEMMA RemovedOrUnchanged ==
  ASSUME TypeOK, NEW statuses, NEW jobs, Remove(statuses, jobs)
  PROVE  /\ status' \in [Jobs -> Statuses] /\ attempts' = attempts
         /\ \A k \in Jobs : status'[k] \in {status[k], "removed"}
         /\ \A k \in Jobs : QueueOf[k] = Order[pos] /\ k \in jobs => status'[k] \notin statuses \ {"removed"}
  BY DEF Remove, TypeOK, Statuses

(* The two steps of clean() that stay at their queue. *)
LEMMA CleanStepKeeps ==
  ASSUME IInv, NEW statuses, Remove(statuses, Jobs),
         \/ op = "drain" /\ "waiting" \in statuses /\ GoesOn("finished", pos)
         \/ op = "finished" /\ {"completed", "failed"} \subseteq statuses /\ GoesOn("schedulers", pos)
  PROVE  IInv'
<1> USE DEF IInv
<1>1. /\ op \in {"drain", "finished"} /\ op' = (IF op = "drain" THEN "finished" ELSE "schedulers")
      /\ pos' = pos
      /\ UNCHANGED <<clustered, asked, scope, workWasDone, current, listed, fellDue, ranAhead, turn>>
  BY DEF GoesOn
<1>2. /\ status' \in [Jobs -> Statuses] /\ attempts' = attempts
      /\ \A k \in Jobs : status'[k] \in {status[k], "removed"}
      /\ \A k \in Jobs : QueueOf[k] = Order[pos] => status'[k] \notin statuses \ {"removed"}
  BY RemovedOrUnchanged
<1>3. TypeOK'
  BY <1>1, <1>2 DEF TypeOK, Statuses
<1>4. AttemptsLeft' /\ LocalState'
  BY <1>1, <1>2 DEF AttemptsLeft, LocalState, Unclustered
<1>5. Passed' = Passed
  BY <1>1 DEF Passed
<1>6. CleanPosition'
  BY <1>1, <1>2, <1>5 DEF CleanPosition, Cleaned
<1> QED
  BY <1>1, <1>3, <1>4, <1>6 DEF WorkPosition, WorkScheduledPosition

(* After the last step at a queue, what is left of its jobs may stay. *)
LEMMA SchedulersRemoved ==
  ASSUME IInv, RemoveSchedulers, NEW k \in Jobs, QueueOf[k] \in Passed \cup {Order[pos]}
  PROVE  \/ status'[k] \in {"none", "removed", "active"}
         \/ status'[k] = "delayed" /\ k \notin Scheduled
         \/ status'[k] = "waiting" /\ k \in fellDue
<1>1. op = "schedulers" /\ Remove({"delayed"}, Scheduled)
  BY DEF RemoveSchedulers
<1>2. /\ status'[k] \in {status[k], "removed"}
      /\ QueueOf[k] = Order[pos] /\ k \in Scheduled => status'[k] # "delayed"
  BY <1>1, RemovedOrUnchanged DEF IInv
<1>3. CASE QueueOf[k] \in Passed
  BY <1>1, <1>2, <1>3 DEF IInv, CleanPosition, Cleaned
<1>4. CASE QueueOf[k] = Order[pos]
  <2>1. status[k] \in Statuses
    BY DEF IInv, TypeOK, Statuses
  <2> QED
    BY <1>1, <1>2, <1>4, <2>1 DEF IInv, CleanPosition, Statuses
<1> QED
  BY <1>3, <1>4

LEMMA RemoveSchedulersKeeps ==
  ASSUME IInv, RemoveSchedulers
  PROVE  IInv'
<1>1. op = "schedulers" /\ current = None
  BY DEF RemoveSchedulers, IInv, LocalState
<1>2. /\ status' \in [Jobs -> Statuses] /\ attempts' = attempts
      /\ \A k \in Jobs : status'[k] \in {status[k], "removed"}
  BY RemovedOrUnchanged DEF RemoveSchedulers, IInv
<1>3. CASE pos < Len(Order)
  <2> USE DEF IInv
  <2>1. /\ op' = "drain" /\ pos' = pos + 1
        /\ UNCHANGED <<clustered, asked, scope, workWasDone, current, listed, fellDue, ranAhead, turn>>
    BY <1>3 DEF RemoveSchedulers, GoesOn
  <2>2. pos' \in 1 .. Len(Order) + 1
    BY <1>3, <2>1, EachJobHasAQueue DEF TypeOK
  <2>3. TypeOK'
    BY <1>2, <2>1, <2>2 DEF TypeOK, Statuses
  <2>4. AttemptsLeft' /\ LocalState'
    BY <1>1, <1>2, <2>1 DEF AttemptsLeft, LocalState, Unclustered
  <2>5. Passed' = Passed \cup {Order[pos]}
    BY <2>1, OneMorePassed DEF TypeOK
  <2>6. CleanPosition'
    BY <2>1, <2>5, SchedulersRemoved DEF CleanPosition, Cleaned
  <2> QED
    BY <1>1, <2>1, <2>3, <2>4, <2>6 DEF WorkPosition, WorkScheduledPosition
<1>4. CASE ~(pos < Len(Order))
  <2>1. Ends
    BY <1>4 DEF RemoveSchedulers
  <2>2. \A k \in Jobs : \/ status'[k] \in {status[k], "removed"}
                        \/ status[k] = "none" /\ status'[k] = "waiting"
    BY <1>2
  <2> QED
    BY <1>1, <1>2, <2>1, <2>2, EndsKeeps
<1> QED
  BY <1>3, <1>4

-----------------------------------------------------------------------------
LEMMA NextKeeps == IInv /\ [Next]_vars => IInv'
<1> SUFFICES ASSUME IInv, [Next]_vars PROVE IInv'
  OBVIOUS
<1>1. CASE Work \/ WorkScheduled \/ Clean
  BY <1>1, CallKeeps
<1>2. ASSUME NEW j \in Jobs, JobStep(j) PROVE IInv'
  BY <1>2, FindJobKeeps, JobResolvesKeeps, JobThrowsKeeps, MoveToFailedRejectsKeeps,
     RunListedKeeps, ListedThrowsKeeps DEF JobStep
<1>3. CASE LoopStep
  <2>1. CASE Drain \/ CleanFinished
    <3>1. CASE Drain
      BY <3>1, CleanStepKeeps DEF Drain
    <3>2. CASE CleanFinished
      BY <3>2, CleanStepKeeps DEF CleanFinished
    <3> QED
      BY <2>1, <3>1, <3>2
  <2> QED
    BY <1>3, <2>1, PassQueueKeeps, FindNoJobKeeps, EndPassKeeps, ListDelayedKeeps,
       EndWorkScheduledKeeps, RemoveSchedulersKeeps DEF LoopStep
<1>4. ASSUME NEW j \in Jobs, Enqueue(j) \/ FallDue(j) PROVE IInv'
  BY <1>4, EnqueueKeeps, FallDueKeeps
<1>5. CASE UNCHANGED vars
  BY <1>5, Unchanged
<1> QED
  BY <1>1, <1>2, <1>3, <1>4, <1>5 DEF Next, Step

(***************************************************************************)
(* The position of each loop says what it has left behind in the queues it *)
(* has passed, whatever is enqueued, fails and falls due in between.       *)
(***************************************************************************)
THEOREM Inductive == Spec => []IInv
  BY InitHolds, NextKeeps, PTL DEF Spec

(***************************************************************************)
(* Every job is in one state, with no more attempts than it has, and the   *)
(* loops stay within the queues.                                           *)
(***************************************************************************)
THEOREM TypeCorrect == Spec => []TypeOK
<1>1. IInv => TypeOK
  BY DEF IInv
<1> QED
  BY <1>1, Inductive, PTL

(* The call that resolves or rejects is the one in progress, and only its  *)
(* loop's last step ends it, or what it awaits.                            *)
LEMMA OnlyLastStepEnds ==
  ASSUME IInv, [Next]_vars, op # "none", op' = "none"
  PROVE  \/ EndPass /\ ~workWasDone /\ op = "work"
         \/ EndWorkScheduled /\ op = "workScheduled"
         \/ \E j \in Jobs : MoveToFailedRejects(j) /\ current # None /\ op = "work"
         \/ \E j \in Jobs : ListedThrows(j) /\ listed # {} /\ op = "workScheduled"
         \/ RemoveSchedulers /\ pos >= Len(Order) /\ op = "schedulers"
<1>1. ~(Work \/ WorkScheduled \/ Clean)
  BY DEF Work, WorkScheduled, WorkScheduledIn, Clean, Begin
<1>2. \A j \in Jobs : ~(Enqueue(j) \/ FallDue(j) \/ FindJob(j) \/ JobResolves(j) \/ JobThrows(j) \/ RunListed(j))
  BY DEF Enqueue, FallDue, FindJob, JobResolves, JobThrows, JobDone, RunListed, locals
<1>3. ~(PassQueue \/ FindNoJob \/ ListDelayed \/ Drain \/ CleanFinished \/ UNCHANGED vars)
  BY DEF PassQueue, FindNoJob, ListDelayed, Drain, CleanFinished, GoesOn, vars, locals
<1>4. \A j \in Jobs : ListedThrows(j) => listed # {} /\ op = "workScheduled"
  BY DEF ListedThrows, IInv, LocalState
<1>5. \A j \in Jobs : MoveToFailedRejects(j) => current # None /\ op = "work"
  BY TestUtilsAssumption DEF TestUtilsAssumption, MoveToFailedRejects, IInv, LocalState
<1>6. EndPass => ~workWasDone /\ op = "work"
  BY DEF EndPass
<1>7. EndWorkScheduled => op = "workScheduled"
  BY DEF EndWorkScheduled
<1>8. RemoveSchedulers => pos >= Len(Order) /\ op = "schedulers"
  <2>1. Len(Order) \in Nat /\ pos \in Nat
    BY EachJobHasAQueue DEF IInv, TypeOK
  <2> QED
    BY <2>1 DEF RemoveSchedulers, GoesOn
<1> QED
  BY <1>1, <1>2, <1>3, <1>4, <1>6, <1>7, <1>8, <1>5 DEF Next, Step, LoopStep, JobStep

(***************************************************************************)
(* work() resolves only when its last pass has found no job in any queue   *)
(* it selects, and it passes all: what waits there has fallen due during   *)
(* the call.  On plain redis it selects the queue it was asked for; on a   *)
(* cluster it does not, and nothing is said of the jobs there.             *)
(***************************************************************************)
THEOREM QueuesAreWorkedOff == Spec => WorkedOff
<1>1. ASSUME IInv, [Next]_vars, Resolves("work"), NEW j \in scope \cup Unclustered(asked),
             status[j] = "waiting"
      PROVE  j \in fellDue
  <2>1. EndPass /\ ~workWasDone /\ op = "work"
    BY <1>1, OnlyLastStepEnds DEF Resolves
  <2>2. current = None /\ pos > Len(Order) /\ pos \in Nat
    BY <1>1, <2>1, EachJobHasAQueue DEF EndPass, IInv, TypeOK
  <2>3. j \in Jobs /\ j \in scope
    BY <1>1 DEF IInv, TypeOK, LocalState, Unclustered
  <2>4. QueueOf[j] \in Passed
    BY <2>2, <2>3, AllPassed
  <2> QED
    BY <1>1, <2>1, <2>2, <2>3, <2>4 DEF IInv, WorkPosition
<1>2. IInv /\ [Next]_vars =>
        [Resolves("work") =>
           \A j \in scope \cup Unclustered(asked) : status[j] = "waiting" => j \in fellDue]_vars
  BY <1>1
<1> QED
  BY <1>2, Inductive, PTL DEF Spec, WorkedOff

(***************************************************************************)
(* workScheduled() resolves only when it has listed the delayed jobs of    *)
(* every queue and run all it has listed.                                  *)
(***************************************************************************)
THEOREM DelayedJobsAreRun == Spec => DelayedJobsRun
<1>1. ASSUME IInv, [Next]_vars, Resolves("workScheduled"), listed = {},
             NEW j \in scope, status[j] = "delayed"
      PROVE  j \in ranAhead
  <2>1. EndWorkScheduled /\ op = "workScheduled"
    BY <1>1, OnlyLastStepEnds DEF Resolves
  <2>2. pos > Len(Order) /\ pos \in Nat
    BY <1>1, <2>1, EachJobHasAQueue DEF EndWorkScheduled, IInv, TypeOK
  <2>3. j \in Jobs
    BY <1>1 DEF IInv, TypeOK
  <2>4. QueueOf[j] \in Passed
    BY <2>2, <2>3, AllPassed
  <2> QED
    BY <1>1, <2>1, <2>3, <2>4 DEF IInv, WorkScheduledPosition
<1>2. IInv /\ [Next]_vars =>
        [Resolves("workScheduled") /\ listed = {} =>
           \A j \in scope : status[j] = "delayed" => j \in ranAhead]_vars
  BY <1>1
<1> QED
  BY <1>2, Inductive, PTL DEF Spec, DelayedJobsRun

(***************************************************************************)
(* clean() leaves delayed and active jobs, and those that fell due behind  *)
(* its back: at the last queue every other one is passed.                  *)
(***************************************************************************)
THEOREM OnlyDelayedJobsAreLeft == Spec => CleanLeavesDelayed
<1>1. ASSUME IInv, [Next]_vars, Resolves("schedulers"), NEW j \in Jobs
      PROVE  \/ status'[j] \in {"none", "removed", "active"}
             \/ status'[j] = "delayed" /\ j \notin Scheduled
             \/ status'[j] = "waiting" /\ j \in fellDue
  <2>1. RemoveSchedulers /\ pos >= Len(Order)
    BY <1>1, OnlyLastStepEnds DEF Resolves
  <2>2. PICK i \in 1 .. Len(Order) : QueueOf[j] = Order[i]
    BY EachJobHasAQueue
  <2>3. i = pos \/ i \in 1 .. (pos - 1)
    BY <1>1, <2>1, EachJobHasAQueue DEF IInv, TypeOK
  <2>4. QueueOf[j] \in Passed \cup {Order[pos]}
    BY <2>2, <2>3 DEF Passed
  <2> QED
    BY <1>1, <2>1, <2>4, SchedulersRemoved
<1>2. IInv /\ [Next]_vars =>
        [Resolves("schedulers") =>
           \A j \in Jobs : \/ status'[j] \in {"none", "removed", "active"}
                           \/ status'[j] = "delayed" /\ j \notin Scheduled
                           \/ status'[j] = "waiting" /\ j \in fellDue]_vars
  BY <1>1
<1> QED
  BY <1>2, Inductive, PTL DEF Spec, CleanLeavesDelayed
=============================================================================
