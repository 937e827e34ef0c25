------------------------ MODULE WorkerProcess_proofs ------------------------
(***************************************************************************)
(* Proofs about WorkerProcess, for any number of deliveries, hooks,        *)
(* workers, connections and any concurrency.  TypeCorrect comes first,     *)
(* then each conjunct of IInv that is inductive relative to the ones       *)
(* before it, then the safety properties and the step simulation of        *)
(* ExitContract.                                                           *)
(***************************************************************************)
EXTENDS WorkerProcess, TLAPS

USE DEF Workers, Connections, Hooks, DbStep, WorkerStep, QuitStep, EndStep,
        Settled, Begun, Resolved, Rejected, Done

(* Initially every variable is in its type. *)
LEMMA TypeInit == Init => TypeOK
<1>1. 0 \in 0 .. EndStep /\ 0 \in 0 .. Concurrency
  BY CountsAssumption DEF CountsAssumption
<1>2. Init => step \in [Deliveries -> 0 .. EndStep]
  BY <1>1 DEF Init
<1>3. Init => active \in [Workers -> 0 .. Concurrency]
  BY <1>1 DEF Init
<1>4. Init => worker \in [Workers -> {"running", "closing"} \cup Settled]
  BY DEF Init
<1>5. Init => fatalErrorShutdownBegun \in BOOLEAN
  BY Zenon DEF Init
<1>6. Init => /\ exitCode \in {"none", "0", "1"}
                /\ cause \in [Deliveries -> {"none", "signal", "fatal"}]
                /\ failure \in [Deliveries -> {"none", "rejected", "timedOut"}]
                /\ db \in {"open", "closed"}
                /\ connection \in [Connections -> {"open", "quit"}]
  BY DEF Init
<1> QED
  BY <1>2, <1>3, <1>4, <1>5, <1>6, Zenon DEF TypeOK

(* Every action leaves the variables in their types. *)
LEMMA TypeStep == TypeOK /\ [Next]_vars => TypeOK'
<1> SUFFICES ASSUME TypeOK, [Next]_vars PROVE TypeOK'
  OBVIOUS
<1> USE CountsAssumption DEF CountsAssumption, TypeOK
<1>1. ASSUME NEW d \in Deliveries, Signal(d) PROVE TypeOK'
  BY <1>1 DEF Signal, BeginShutdown
<1>2. ASSUME NEW d \in Deliveries, FirstFatalError(d) PROVE TypeOK'
  BY <1>2 DEF FirstFatalError, BeginShutdown
<1>3. ASSUME NEW d \in Deliveries, FurtherFatalError(d) PROVE TypeOK'
  BY <1>3 DEF FurtherFatalError
<1>4. ASSUME NEW d \in Deliveries, Advance(d), step[d] < EndStep,
             db' \in {"open", "closed"}
      PROVE  TypeOK'
  BY <1>4 DEF Advance
<1>5. ASSUME NEW d \in Deliveries, HookResolves(d) PROVE TypeOK'
  BY <1>4, <1>5 DEF HookResolves
<1>6. ASSUME NEW d \in Deliveries, HookRejects(d) PROVE TypeOK'
  BY <1>6 DEF HookRejects, Fail
<1>7. ASSUME NEW d \in Deliveries, DbCloses(d) PROVE TypeOK'
  BY <1>4, <1>7 DEF DbCloses
<1>8. ASSUME NEW d \in Deliveries, DbRejects(d) PROVE TypeOK'
  BY <1>8 DEF DbRejects, Fail
<1>9. ASSUME NEW d \in Deliveries, WorkerSettles(d) PROVE TypeOK'
  BY <1>4, <1>9 DEF WorkerSettles
<1>10. ASSUME NEW d \in Deliveries, QuitSettles(d) PROVE TypeOK'
  BY <1>4, <1>10 DEF QuitSettles
<1>11. ASSUME NEW d \in Deliveries, TimesOut(d) PROVE TypeOK'
  BY <1>11 DEF TimesOut, Fail
<1>12. ASSUME NEW d \in Deliveries, Exit(d) PROVE TypeOK'
  BY <1>12 DEF Exit, ExitStatus
<1>13. ASSUME NEW w \in Workers, TakeJob(w) PROVE TypeOK'
  BY <1>13 DEF TakeJob
<1>14. ASSUME NEW w \in Workers, FinishJob(w) PROVE TypeOK'
  BY <1>14 DEF FinishJob
<1>15. ASSUME NEW w \in Workers, WorkerDrains(w) PROVE TypeOK'
  BY <1>15 DEF WorkerDrains, SettleClose
<1>16. ASSUME NEW w \in Workers, WorkerCloseRejects(w) PROVE TypeOK'
  BY <1>16 DEF WorkerCloseRejects, SettleClose
<1>17. CASE UNCHANGED vars
  BY <1>17 DEF vars
<1> QED
  BY <1>1, <1>2, <1>3, <1>5, <1>6, <1>7, <1>8, <1>9, <1>10, <1>11, <1>12,
     <1>13, <1>14, <1>15, <1>16, <1>17
  DEF Next, Deliver, Shutdown, BullMQ

(***************************************************************************)
(* Type correctness of the shutdown of a worker process.                   *)
(***************************************************************************)
THEOREM TypeCorrect == Spec => []TypeOK
<1> QED
  BY TypeInit, TypeStep, PTL DEF Spec

-----------------------------------------------------------------------------
(***************************************************************************)
(* What a flow has left behind it is not undone: FlowPosition of a flow    *)
(* that does not move survives every step that keeps closed databases      *)
(* closed, settled workers settled and quit connections quit.              *)
(***************************************************************************)
LEMMA PositionKept ==
  ASSUME NEW d \in Deliveries, FlowPosition(d),
         cause'[d] = "none" => cause[d] = "none",
         step'[d] = step[d], failure'[d] = failure[d],
         db = "closed" => db' = "closed",
         \A w \in Workers : /\ worker[w] # "running" => worker'[w] # "running"
                            /\ worker[w] \in Settled => worker'[w] \in Settled,
         \A c \in Connections : connection[c] = "quit" => connection'[c] = "quit"
  PROVE  FlowPosition(d)'
  BY DEF FlowPosition

(***************************************************************************)
(* The heart of the argument: a flow that moves on, having waited for what *)
(* its step calls for, keeps the invariant.  Awaiting a settled worker     *)
(* before going past it is what makes the teardown order hold.             *)
(***************************************************************************)
LEMMA AdvanceKeeps ==
  ASSUME IInv, TypeOK', NEW d \in Deliveries, Advance(d),
         0 < step[d], step[d] < EndStep, failure[d] = "none",
         exitCode = "none",
         \/ step[d] = DbStep /\ db' = "closed"
         \/ step[d] # DbStep /\ db' = db,
         \A w \in Workers : step[d] = WorkerStep(w) => worker[w] \in Settled
  PROVE  IInv'
  <1> USE CountsAssumption DEF CountsAssumption
  <1>0. step[d] \in Int
    BY DEF IInv, TypeOK
  <1>1. /\ step'[d] = step[d] + 1
        /\ \A e \in Deliveries : e # d => step'[e] = step[e]
        /\ UNCHANGED <<exitCode, fatalErrorShutdownBegun, cause, failure, active>>
    BY DEF IInv, TypeOK, Advance
  <1>2. \A w \in Workers :
          /\ worker[w] # "running" => worker'[w] = worker[w]
          /\ worker'[w] = "closed" => worker[w] = "closed"
          /\ step'[d] = WorkerStep(w) => worker'[w] # "running"
          /\ worker'[w] # worker[w] => step'[d] = WorkerStep(w)
    BY DEF IInv, TypeOK, Advance
  <1>3. \A c \in Connections :
          /\ connection[c] = "quit" => connection'[c] = "quit"
          /\ step'[d] = QuitStep(c) => connection'[c] = "quit"
          /\ connection'[c] # connection[c] => step'[d] = QuitStep(c)
    BY DEF IInv, TypeOK, Advance
  <1>4. FlowPosition(d)'
    <2>1. FlowPosition(d)
      BY DEF IInv
    <2>2. step'[d] > DbStep => db' = "closed"
      BY <1>1, <2>1 DEF IInv, TypeOK, FlowPosition
    <2>3. ASSUME NEW w \in Workers
          PROVE  /\ step'[d] >= WorkerStep(w) => worker'[w] # "running"
                 /\ step'[d] > WorkerStep(w) => worker'[w] \in Settled
      <3>1. CASE step[d] >= WorkerStep(w)
        <4>1. worker[w] # "running"
          BY <2>1, <3>1 DEF FlowPosition
        <4>2. step[d] = WorkerStep(w) \/ step[d] > WorkerStep(w)
          BY <1>0, <3>1
        <4>3. worker[w] \in Settled
          BY <2>1, <4>2 DEF FlowPosition
        <4> QED
          BY <1>2, <4>1, <4>3
      <3>2. CASE step'[d] = WorkerStep(w)
        BY <1>2, <3>2
      <3>3. CASE step'[d] < WorkerStep(w)
        BY <1>0, <1>1, <3>3
      <3> QED
        BY <1>0, <1>1, <3>1, <3>2, <3>3
    <2>4. ASSUME NEW c \in Connections, step'[d] >= QuitStep(c)
          PROVE  connection'[c] = "quit"
      <3>1. CASE step[d] >= QuitStep(c)
        BY <1>3, <2>1, <3>1 DEF FlowPosition
      <3>2. CASE step'[d] = QuitStep(c)
        BY <1>3, <3>2
      <3> QED
        BY <1>0, <1>1, <2>4, <3>1, <3>2
    <2>5. cause'[d] # "none" /\ step'[d] # 0
      BY <1>0, <1>1, <2>1 DEF FlowPosition
    <2> QED
      BY <2>2, <2>3, <2>4, <2>5 DEF FlowPosition
  <1>5. ASSUME NEW e \in Deliveries, e # d PROVE FlowPosition(e)'
    <2>1. FlowPosition(e) /\ step'[e] = step[e]
      BY <1>1, <1>5 DEF IInv
    <2>2. db = "closed" => db' = "closed"
      OBVIOUS
    <2> QED
      BY <1>1, <1>2, <1>3, <2>1, <2>2, PositionKept
  <1>6. TeardownOrder'
    <2>1. (\E w \in Workers : worker'[w] # "running") => db' = "closed"
      <3>1. CASE step'[d] > DbStep
        BY <1>4, <3>1 DEF FlowPosition
      <3>2. CASE ~(step'[d] > DbStep)
        BY <1>1, <1>2, <3>2 DEF IInv, TypeOK, TeardownOrder
      <3> QED
        BY <3>1, <3>2
    <2>2. ASSUME NEW c \in Connections, connection'[c] # "open",
                 NEW w \in Workers
          PROVE  worker'[w] \in Settled
      <3>1. CASE connection[c] # "open"
        BY <1>2, <3>1 DEF IInv, TeardownOrder
      <3>2. CASE connection[c] = "open"
        <4>1. step'[d] = QuitStep(c)
          BY <1>3, <2>2, <3>2
        <4> QED
          BY <1>4, <4>1 DEF FlowPosition
      <3> QED
        BY <3>1, <3>2
    <2>3. Begun(d)'
      BY <1>1 DEF IInv, TypeOK
    <2> QED
      BY <2>1, <2>2, <2>3 DEF TeardownOrder
  <1>7. FatalRecorded' /\ FatalCleanupOnce'
    BY <1>1 DEF IInv, FatalRecorded, FatalCleanupOnce
  <1>8. ClosedIsDrained'
    BY <1>1, <1>2 DEF IInv, ClosedIsDrained
  <1>9. ExitCodeMeaning'
    BY <1>1 DEF ExitCodeMeaning
  <1>10. RejectsBeforeWorkers'
    BY <1>1 DEF IInv, RejectsBeforeWorkers
  <1> QED
    BY <1>4, <1>5, <1>6, <1>7, <1>8, <1>9, <1>10 DEF IInv

(* The four steps of a flow that move it on. *)
LEMMA MovingOn ==
  ASSUME IInv, TypeOK', NEW d \in Deliveries,
         HookResolves(d) \/ DbCloses(d) \/ WorkerSettles(d) \/ QuitSettles(d)
  PROVE  IInv'
  <1> USE CountsAssumption DEF CountsAssumption
  <1>1. failure[d] = "none" /\ exitCode = "none"
    BY DEF HookResolves, DbCloses, WorkerSettles, QuitSettles, Responsive
  <1>2. Advance(d)
    BY DEF HookResolves, DbCloses, WorkerSettles, QuitSettles
  <1>3. CASE HookResolves(d)
    <2>1. 0 < step[d] /\ step[d] < DbStep /\ db' = db
      BY <1>3 DEF HookResolves
    <2>2. \A w \in Workers : step[d] # WorkerStep(w)
      BY <2>1
    <2>3. step[d] < EndStep /\ step[d] # DbStep
      BY <1>3 DEF HookResolves
    <2> QED
      BY <1>1, <1>2, <2>1, <2>2, <2>3, AdvanceKeeps
  <1>4. CASE DbCloses(d)
    <2>1. step[d] = DbStep /\ db' = "closed"
      BY <1>4 DEF DbCloses
    <2>2. \A w \in Workers : step[d] # WorkerStep(w)
      BY <2>1
    <2> QED
      BY <1>1, <1>2, <2>1, <2>2, AdvanceKeeps
  <1>5. CASE WorkerSettles(d)
    <2>1. PICK w \in Workers : step[d] = WorkerStep(w) /\ worker[w] \in Settled
      BY <1>5 DEF WorkerSettles
    <2>2. \A v \in Workers : step[d] = WorkerStep(v) => v = w
      BY <2>1
    <2>3. db' = db
      BY <1>5 DEF WorkerSettles
    <2>4. DbStep < step[d] /\ step[d] < EndStep
      BY <2>1
    <2> QED
      BY <1>1, <1>2, <2>1, <2>2, <2>3, <2>4, AdvanceKeeps
  <1>6. CASE QuitSettles(d)
    <2>1. PICK c \in Connections : step[d] = QuitStep(c)
      BY <1>6 DEF QuitSettles
    <2>2. \A w \in Workers : step[d] # WorkerStep(w)
      BY <2>1
    <2>3. db' = db
      BY <1>6 DEF QuitSettles
    <2>4. 0 < step[d] /\ step[d] # DbStep /\ step[d] < EndStep
      BY <2>1
    <2> QED
      BY <1>1, <1>2, <2>2, <2>3, <2>4, AdvanceKeeps
  <1> QED
    BY <1>3, <1>4, <1>5, <1>6

(* The steps that begin or end a flow, and BullMQ's. *)
LEMMA OtherSteps ==
  ASSUME IInv, TypeOK'
  PROVE  \/ \E d \in Deliveries :
              \/ Signal(d) \/ FirstFatalError(d) \/ FurtherFatalError(d)
              \/ HookRejects(d) \/ DbRejects(d) \/ TimesOut(d) \/ Exit(d)
         \/ \E w \in Workers : BullMQ(w)
         \/ UNCHANGED vars
         => IInv'
  <1> USE CountsAssumption
      DEF CountsAssumption, IInv, TypeOK, FlowPosition, FatalRecorded,
          ClosedIsDrained, TeardownOrder, ExitCodeMeaning,
          RejectsBeforeWorkers, FatalCleanupOnce
  <1>1. ASSUME NEW d \in Deliveries, Signal(d) PROVE IInv'
    BY <1>1 DEF Signal, BeginShutdown
  <1>2. ASSUME NEW d \in Deliveries, FirstFatalError(d) PROVE IInv'
    BY <1>2 DEF FirstFatalError, BeginShutdown
  <1>3. ASSUME NEW d \in Deliveries, FurtherFatalError(d) PROVE IInv'
    BY <1>3 DEF FurtherFatalError
  <1>4. ASSUME NEW d \in Deliveries, HookRejects(d) PROVE IInv'
    BY <1>4 DEF HookRejects, Fail
  <1>5. ASSUME NEW d \in Deliveries, DbRejects(d) PROVE IInv'
    BY <1>5 DEF DbRejects, Fail
  <1>6. ASSUME NEW d \in Deliveries, TimesOut(d) PROVE IInv'
    BY <1>6 DEF TimesOut, Fail
  <1>7. ASSUME NEW d \in Deliveries, Exit(d) PROVE IInv'
    BY <1>7 DEF Exit, ExitStatus
  <1>8. ASSUME NEW w \in Workers, TakeJob(w) PROVE IInv'
    BY <1>8 DEF TakeJob
  <1>9. ASSUME NEW w \in Workers, FinishJob(w) PROVE IInv'
    BY <1>9 DEF FinishJob
  <1>10. ASSUME NEW w \in Workers, WorkerDrains(w) PROVE IInv'
    BY <1>10 DEF WorkerDrains, SettleClose
  <1>11. ASSUME NEW w \in Workers, WorkerCloseRejects(w) PROVE IInv'
    BY <1>11 DEF WorkerCloseRejects, SettleClose
  <1>12. CASE UNCHANGED vars
    BY <1>12 DEF vars
  <1> QED
    BY <1>1, <1>2, <1>3, <1>4, <1>5, <1>6, <1>7, <1>8, <1>9, <1>10, <1>11,
       <1>12 DEF BullMQ

(***************************************************************************)
(* The invariant holds in every reachable state.                           *)
(***************************************************************************)
THEOREM Invariant == Spec => []IInv
<1>1. Init => IInv
  <2> SUFFICES ASSUME Init PROVE IInv
    OBVIOUS
  <2>1. TypeOK
    BY TypeInit
  <2>2. ASSUME NEW d \in Deliveries PROVE FlowPosition(d)
    <3>1. step[d] = 0 /\ failure[d] = "none"
      BY DEF Init
    <3> QED
      BY <3>1, CountsAssumption DEF CountsAssumption, FlowPosition
  <2>3. FatalRecorded
    BY DEF Init, FatalRecorded
  <2>4. ClosedIsDrained /\ TeardownOrder
    BY DEF Init, ClosedIsDrained, TeardownOrder
  <2>5. ExitCodeMeaning /\ RejectsBeforeWorkers /\ FatalCleanupOnce
    BY DEF Init, ExitCodeMeaning, RejectsBeforeWorkers, FatalCleanupOnce
  <2> QED
    BY <2>1, <2>2, <2>3, <2>4, <2>5 DEF IInv
<1>2. IInv /\ [Next]_vars => IInv'
  <2> SUFFICES ASSUME IInv, [Next]_vars PROVE IInv'
    OBVIOUS
  <2>1. TypeOK'
    BY TypeStep DEF IInv
  <2> QED
    BY <2>1, MovingOn, OtherSteps DEF Next, Deliver, Shutdown
<1> QED
  BY <1>1, <1>2, PTL DEF Spec

(***************************************************************************)
(* However many signals, errors and shutdown flows overlap, connections    *)
(* outlive the workers, and workers outlive nothing but the database.      *)
(***************************************************************************)
THEOREM TeardownIsOrdered == Spec => []TeardownOrder
<1>1. IInv => TeardownOrder
  BY DEF IInv
<1> QED
  BY <1>1, Invariant, PTL

(***************************************************************************)
(* Exit code 0 is only ever given to a complete and drained shutdown.      *)
(***************************************************************************)
THEOREM CleanExitIsDrained == Spec => []CleanExitDrains
<1>1. IInv => CleanExitDrains
  <2> SUFFICES ASSUME IInv, exitCode = "0"
               PROVE  /\ db = "closed"
                      /\ \A c \in Connections : connection[c] = "quit"
                      /\ \A w \in Workers : \/ worker[w] = "closed" /\ active[w] = 0
                                            \/ worker[w] = "closeFailed"
    BY DEF CleanExitDrains
  <2> USE CountsAssumption DEF CountsAssumption
  <2>1. PICK d \in Deliveries : step[d] = EndStep
    BY DEF IInv, ExitCodeMeaning
  <2>2. FlowPosition(d)
    BY DEF IInv
  <2>3. db = "closed"
    BY <2>1, <2>2 DEF FlowPosition
  <2>4. \A c \in Connections : connection[c] = "quit"
    BY <2>1, <2>2 DEF FlowPosition
  <2>5. \A w \in Workers : worker[w] \in Settled
    BY <2>1, <2>2 DEF FlowPosition
  <2>6. \A w \in Workers : worker[w] = "closed" => active[w] = 0
    BY DEF IInv, ClosedIsDrained
  <2> QED
    BY <2>3, <2>4, <2>5, <2>6
<1> QED
  BY <1>1, Invariant, PTL

(***************************************************************************)
(* What an exit code says of the events and flows that led to it.          *)
(***************************************************************************)
THEOREM ExitCodesMeanWhatTheySay == Spec => []ExitCodeMeaning
<1>1. IInv => ExitCodeMeaning
  BY DEF IInv
<1> QED
  BY <1>1, Invariant, PTL

(***************************************************************************)
(* No failure of worker.close() or quit() ever rejects a shutdown.         *)
(***************************************************************************)
THEOREM CloseFailuresAreTolerated == Spec => []RejectsBeforeWorkers
<1>1. IInv => RejectsBeforeWorkers
  BY DEF IInv
<1> QED
  BY <1>1, Invariant, PTL

(***************************************************************************)
(* All uncaught errors of a process together begin one cleanup.            *)
(***************************************************************************)
THEOREM OneCleanupForAllErrors == Spec => []FatalCleanupOnce
<1>1. IInv => FatalCleanupOnce
  BY DEF IInv
<1> QED
  BY <1>1, Invariant, PTL

-----------------------------------------------------------------------------
(* Refinement: the abstract state of ExitContract. *)
reasonsSeen == {cause[d] : d \in Deliveries} \ {"none"}
busyWorkers == {w \in Workers : active[w] > 0}

(***************************************************************************)
(* A flow that moves on tells at most one more worker to close, and only a *)
(* process with a reason to stop has a flow.                               *)
(***************************************************************************)
LEMMA AdvanceRefines ==
  ASSUME IInv, NEW d \in Deliveries, Responsive, step[d] # 0, Advance(d)
  PROVE  [Contract!Next]_(Contract!vars)
  <1> USE CountsAssumption DEF CountsAssumption
  <1>1. UNCHANGED <<exitCode, cause, active>> /\ exitCode = "none"
    BY DEF Advance, Responsive
  <1>2. UNCHANGED <<reasonsSeen, busyWorkers>>
    BY <1>1 DEF reasonsSeen, busyWorkers
  <1>3. reasonsSeen # {}
    <2>1. cause[d] # "none"
      BY DEF IInv, FlowPosition
    <2> QED
      BY <2>1 DEF reasonsSeen
  <1>4. CASE \E w \in Workers : step[d] + 1 = WorkerStep(w) /\ worker[w] = "running"
    <2>1. PICK w \in Workers : step[d] + 1 = WorkerStep(w) /\ worker[w] = "running"
      BY <1>4
    <2>2. worker' = [worker EXCEPT ![w] = "closing"]
      <3>1. \A v \in Workers : step[d] + 1 = WorkerStep(v) <=> v = w
        BY <2>1
      <3>2. worker' = [v \in Workers |-> IF v = w THEN "closing" ELSE worker[v]]
        BY <2>1, <3>1 DEF Advance
      <3>3. worker \in [Workers -> {"running", "closing"} \cup Settled]
        BY DEF IInv, TypeOK
      <3> QED
        BY <3>2, <3>3
    <2>3. Contract!Close(w)
      BY <1>1, <1>2, <1>3, <2>1, <2>2
      DEF Contract!Close, Contract!Up, reasonsSeen, busyWorkers
    <2> QED
      BY <2>3 DEF Contract!Next
  <1>5. CASE ~\E w \in Workers : step[d] + 1 = WorkerStep(w) /\ worker[w] = "running"
    <2>1. worker' = worker
      BY <1>5 DEF Advance, IInv, TypeOK
    <2> QED
      BY <1>1, <1>2, <2>1 DEF Contract!vars, reasonsSeen, busyWorkers
  <1> QED
    BY <1>4, <1>5

(* The events that reach the process. *)
LEMMA DeliverRefines ==
  ASSUME IInv, NEW d \in Deliveries, Deliver(d)
  PROVE  [Contract!Next]_(Contract!vars)
  <1>1. ASSUME NEW why \in {"signal", "fatal"}, Responsive,
               cause' = [cause EXCEPT ![d] = why], cause[d] = "none",
               UNCHANGED <<exitCode, worker, active>>
        PROVE  Contract!Receive(why)
    <2>1. reasonsSeen' = reasonsSeen \cup {why}
      BY <1>1 DEF reasonsSeen, IInv, TypeOK
    <2> QED
      BY <1>1, <2>1
      DEF Contract!Receive, Contract!Up, Responsive, reasonsSeen, busyWorkers
  <1>2. CASE Signal(d)
    BY <1>1, <1>2 DEF Signal, BeginShutdown, Contract!Next
  <1>3. CASE FirstFatalError(d)
    BY <1>1, <1>3 DEF FirstFatalError, BeginShutdown, Contract!Next
  <1>4. CASE FurtherFatalError(d)
    <2>1. "fatal" \in reasonsSeen
      BY <1>4 DEF FurtherFatalError, IInv, FatalRecorded, reasonsSeen
    <2>2. reasonsSeen' = reasonsSeen
      BY <1>4, <2>1 DEF FurtherFatalError, reasonsSeen, IInv, TypeOK
    <2>3. Contract!ExitFailed
      BY <1>4, <2>1, <2>2
      DEF FurtherFatalError, Responsive, Contract!ExitFailed, Contract!Up,
          reasonsSeen, busyWorkers
    <2> QED
      BY <2>3 DEF Contract!Next, Contract!Exit
  <1> QED
    BY <1>2, <1>3, <1>4 DEF Deliver

(* The process leaves. *)
LEMMA ExitRefines ==
  ASSUME IInv, NEW d \in Deliveries, Exit(d)
  PROVE  [Contract!Next]_(Contract!vars)
  <1> USE CountsAssumption DEF CountsAssumption
  <1>1. UNCHANGED <<reasonsSeen, worker, busyWorkers>> /\ exitCode = "none"
    BY DEF Exit, reasonsSeen, busyWorkers
  <1>2. CASE cause[d] = "signal" /\ Resolved(d)
    <2>1. \A w \in Workers : worker[w] \in Settled
      BY <1>2 DEF IInv, FlowPosition
    <2>2. exitCode' = "0" /\ "signal" \in reasonsSeen
      BY <1>2 DEF Exit, ExitStatus, reasonsSeen
    <2>3. Contract!ExitClean
      BY <1>1, <2>1, <2>2
      DEF Contract!ExitClean, Contract!Up, Contract!Retired, reasonsSeen, busyWorkers
    <2> QED
      BY <2>3 DEF Contract!Next, Contract!Exit
  <1>3. CASE ~(cause[d] = "signal" /\ Resolved(d))
    <2>1. exitCode' = "1"
      BY <1>3 DEF Exit, ExitStatus
    <2>2. cause[d] # "none"
      BY DEF Exit, IInv, FlowPosition, TypeOK
    <2>3. Contract!ExitFailed
      BY <1>1, <2>1, <2>2
      DEF Contract!ExitFailed, Contract!Up, reasonsSeen, busyWorkers
    <2> QED
      BY <2>3 DEF Contract!Next, Contract!Exit
  <1> QED
    BY <1>2, <1>3

(* Workers and their jobs. *)
LEMMA BullMQRefines ==
  ASSUME IInv, NEW w \in Workers, BullMQ(w)
  PROVE  [Contract!Next]_(Contract!vars)
  <1> USE CountsAssumption DEF CountsAssumption
  <1>1. UNCHANGED <<exitCode, reasonsSeen>> /\ exitCode = "none"
    BY DEF BullMQ, TakeJob, FinishJob, WorkerDrains, WorkerCloseRejects,
           SettleClose, Responsive, reasonsSeen
  <1>2. CASE TakeJob(w)
    <2>1. busyWorkers' = busyWorkers \cup {w}
      BY <1>2 DEF TakeJob, busyWorkers, IInv, TypeOK
    <2>2. Contract!StartJob(w)
      BY <1>1, <1>2, <2>1
      DEF TakeJob, Contract!StartJob, Contract!Up, reasonsSeen, busyWorkers
    <2> QED
      BY <2>2 DEF Contract!Next
  <1>3. CASE FinishJob(w)
    <2>1. CASE active[w] = 1
      <3>1. busyWorkers' = busyWorkers \ {w}
        BY <1>3, <2>1 DEF FinishJob, busyWorkers, IInv, TypeOK
      <3>2. Contract!EndJob(w)
        BY <1>1, <1>3, <3>1
        DEF FinishJob, Contract!EndJob, Contract!Up, reasonsSeen, busyWorkers
      <3> QED
        BY <3>2 DEF Contract!Next
    <2>2. CASE active[w] # 1
      <3>1. busyWorkers' = busyWorkers
        BY <1>3, <2>2 DEF FinishJob, busyWorkers, IInv, TypeOK
      <3> QED
        BY <1>1, <1>3, <3>1 DEF FinishJob, Contract!vars, reasonsSeen, busyWorkers
    <2> QED
      BY <2>1, <2>2
  <1>4. CASE WorkerDrains(w) \/ WorkerCloseRejects(w)
    <2>1. busyWorkers' = busyWorkers
      BY <1>4 DEF WorkerDrains, WorkerCloseRejects, SettleClose, busyWorkers
    <2>2. Contract!Retire(w)
      BY <1>1, <1>4, <2>1
      DEF WorkerDrains, WorkerCloseRejects, SettleClose, Contract!Retire,
          Contract!Up, reasonsSeen, busyWorkers
    <2> QED
      BY <2>2 DEF Contract!Next
  <1> QED
    BY <1>2, <1>3, <1>4 DEF BullMQ

(***************************************************************************)
(* The shutdown of a worker process keeps the safety part of ExitContract, *)
(* for any numbers of events, hooks, workers, connections and jobs.        *)
(***************************************************************************)
THEOREM RefinesContract == Spec => Contract!Spec
<1>1. Init => Contract!Init
  <2> SUFFICES ASSUME Init PROVE Contract!Init
    OBVIOUS
  <2>1. reasonsSeen = {}
    BY DEF Init, reasonsSeen
  <2>2. busyWorkers = {}
    BY CountsAssumption DEF CountsAssumption, Init, busyWorkers
  <2> QED
    BY <2>1, <2>2 DEF Init, Contract!Init, reasonsSeen, busyWorkers
<1>2. IInv /\ [Next]_vars => [Contract!Next]_(Contract!vars)
  <2> SUFFICES ASSUME IInv, [Next]_vars PROVE [Contract!Next]_(Contract!vars)
    OBVIOUS
  <2>1. ASSUME NEW d \in Deliveries,
               HookResolves(d) \/ DbCloses(d) \/ WorkerSettles(d) \/ QuitSettles(d)
        PROVE  [Contract!Next]_(Contract!vars)
    <3>1. Advance(d) /\ Responsive
      BY <2>1 DEF HookResolves, DbCloses, WorkerSettles, QuitSettles
    <3>2. step[d] # 0
      BY <2>1, CountsAssumption
      DEF CountsAssumption, HookResolves, DbCloses, WorkerSettles, QuitSettles
    <3> QED
      BY <3>1, <3>2, AdvanceRefines
  <2>2. ASSUME NEW d \in Deliveries,
               HookRejects(d) \/ DbRejects(d) \/ TimesOut(d)
        PROVE  UNCHANGED Contract!vars
    BY <2>2 DEF HookRejects, DbRejects, TimesOut, Fail, Contract!vars
  <2>3. CASE UNCHANGED vars
    BY <2>3 DEF vars, Contract!vars
  <2> QED
    BY <2>1, <2>2, <2>3, DeliverRefines, ExitRefines, BullMQRefines
    DEF Next, Shutdown
<1> QED
  BY <1>1, <1>2, Invariant, PTL DEF Spec, Contract!Spec
=============================================================================
