------------------------- MODULE Schedulers_proofs -------------------------
(***************************************************************************)
(* Proofs about Schedulers, for any number of processes and versions and   *)
(* whatever the versions declare.                                          *)
(***************************************************************************)
EXTENDS Schedulers, TLAPS

LEMMA DeclaredSchedules ==
  ASSUME NEW v \in Versions, NEW s \in Declared[v]
  PROVE  /\ s \in Schedules
         /\ s.method \in Methods /\ s.queue \in Queues /\ s.pattern \in Patterns
  BY SchedulersAssumption DEF SchedulersAssumption, Schedules, Methods, Queues, Patterns

LEMMA LastVersion == NumVersions \in Versions /\ 1 \in Versions
  BY SchedulersAssumption DEF SchedulersAssumption, Versions

LEMMA InitHolds == Init => IInv
<1> SUFFICES ASSUME Init PROVE IInv
  OBVIOUS
<1>1. Declared[1] \subseteq Schedules
  BY LastVersion, DeclaredSchedules
<1>2. TypeOK
  BY <1>1, LastVersion DEF Init, TypeOK
<1>3. ASSUME NEW s \in Declared[NumVersions] PROVE \E p \in Processes : Covers(p, s)
  <2>1. PICK p \in Processes : TRUE
    BY SchedulersAssumption DEF SchedulersAssumption
  <2>2. Covers(p, s)
    BY <1>3 DEF Init, Covers, SameScheduler
  <2> QED
    BY <2>2
<1> QED
  BY <1>2, <1>3 DEF IInv, Init

(* A schedule that is set is in force, or its process is to be deployed.   *)
(* Others are not touched.                                                 *)
LEMMA ScheduledMethodKeeps ==
  ASSUME IInv, NEW p \in Processes, NEW s \in Schedules, ScheduledMethod(p, s)
  PROVE  IInv'
<1>1. /\ s \in todo[p] /\ s \in Declared[version[p]] /\ version[p] \in Versions
      /\ todo' = [todo EXCEPT ![p] = @ \ {s}] /\ UNCHANGED version
      /\ scheduler' = [scheduler EXCEPT ![s.queue][s.method] = s.pattern]
  BY DEF ScheduledMethod, UpsertJobScheduler, SchedulerId, IInv, TypeOK
<1>2. s.method \in Methods /\ s.queue \in Queues /\ s.pattern \in Patterns
  BY <1>1, DeclaredSchedules
<1>3. TypeOK'
  BY <1>1, <1>2 DEF IInv, TypeOK
<1>4. \A q \in Processes : todo'[q] \subseteq Declared[version'[q]]
  BY <1>1 DEF IInv, TypeOK
<1>5. ASSUME NEW r \in Declared[NumVersions]
      PROVE  IsScheduled(r)' \/ \E q \in Processes : Covers(q, r)'
  <2>1. r.method \in Methods /\ r.queue \in Queues
    BY LastVersion, DeclaredSchedules
  <2>2. CASE version[p] # NumVersions
    <3>1. Covers(p, r)'
      BY <1>1, <2>2 DEF Covers
    <3> QED
      BY <3>1
  <2>3. CASE version[p] = NumVersions /\ SameScheduler(r, s)
    <3>1. scheduler'[r.queue][r.method] = s.pattern
      BY <1>1, <1>2, <2>3 DEF SameScheduler, SchedulerId, IInv, TypeOK
    <3>2. IsScheduled(r)'
      BY <1>1, <2>3, <3>1 DEF IsScheduled, SameScheduler, SchedulerId
    <3> QED
      BY <3>2
  <2>4. CASE ~SameScheduler(r, s)
    <3>1. scheduler'[r.queue][r.method] = scheduler[r.queue][r.method]
      BY <1>1, <1>2, <2>1, <2>4 DEF SameScheduler, SchedulerId, IInv, TypeOK
    <3>2. IsScheduled(r) => IsScheduled(r)'
      BY <3>1 DEF IsScheduled, SameScheduler, SchedulerId
    <3>3. ASSUME NEW q \in Processes, Covers(q, r) PROVE Covers(q, r)'
      BY <1>1, <2>4, <3>3 DEF Covers, SameScheduler, SchedulerId, IInv, TypeOK
    <3> QED
      BY <3>2, <3>3 DEF IInv
  <2> QED
    BY <2>2, <2>3, <2>4
<1> QED
  BY <1>3, <1>4, <1>5 DEF IInv

(* A boot begins: everything its version declares is to do. *)
LEMMA BootKeeps ==
  ASSUME IInv, NEW p \in Processes, NEW v \in Versions, UNCHANGED scheduler,
         version' = [version EXCEPT ![p] = v], todo' = [todo EXCEPT ![p] = Declared[v]],
         v = version[p] \/ version[p] # NumVersions
  PROVE  IInv'
<1>1. Declared[v] \subseteq Schedules
  BY DeclaredSchedules
<1>2. TypeOK'
  BY <1>1 DEF IInv, TypeOK
<1>3. \A q \in Processes : todo'[q] \subseteq Declared[version'[q]]
  BY DEF IInv, TypeOK
<1>4. ASSUME NEW r \in Declared[NumVersions]
      PROVE  IsScheduled(r)' \/ \E q \in Processes : Covers(q, r)'
  <2>1. IsScheduled(r) => IsScheduled(r)'
    BY DEF IsScheduled, SameScheduler
  <2>2. ASSUME NEW q \in Processes, q # p, Covers(q, r) PROVE Covers(q, r)'
    BY <2>2 DEF Covers, SameScheduler, IInv, TypeOK
  <2>3. Covers(p, r)'
    <3>1. version'[p] = v /\ todo'[p] = Declared[v]
      BY DEF IInv, TypeOK
    <3>2. CASE v = NumVersions
      BY <1>4, <3>1, <3>2 DEF Covers, SameScheduler
    <3>3. CASE v # NumVersions
      BY <3>1, <3>3 DEF Covers
    <3> QED
      BY <3>2, <3>3
  <2> QED
    BY <2>3
<1> QED
  BY <1>2, <1>3, <1>4 DEF IInv

LEMMA StepKeeps == IInv /\ [Next]_vars => IInv'
<1> SUFFICES ASSUME IInv, [Next]_vars PROVE IInv'
  OBVIOUS
<1>1. ASSUME NEW p \in Processes, Reboot(p) PROVE IInv'
  <2>1. version[p] \in Versions /\ version' = [version EXCEPT ![p] = version[p]]
    BY <1>1 DEF Reboot, IInv, TypeOK
  <2> QED
    BY <1>1, <2>1, BootKeeps DEF Reboot
<1>2. ASSUME NEW p \in Processes, Deploy(p) PROVE IInv'
  <2>1. PICK v \in Versions : /\ v > version[p]
                              /\ version' = [version EXCEPT ![p] = v]
                              /\ todo' = [todo EXCEPT ![p] = Declared[v]]
    BY <1>2 DEF Deploy
  <2>2. version[p] # NumVersions
    BY <2>1, SchedulersAssumption DEF Versions, SchedulersAssumption, IInv, TypeOK
  <2> QED
    BY <1>2, <2>1, <2>2, BootKeeps DEF Deploy
<1>3. CASE UNCHANGED vars
  BY <1>3 DEF vars, IInv, TypeOK, IsScheduled, Covers, SameScheduler
<1> QED
  BY <1>1, <1>2, <1>3, ScheduledMethodKeeps DEF Next

(***************************************************************************)
(* The inductive invariant.                                                *)
(***************************************************************************)
THEOREM Invariant == Spec => []IInv
<1> QED
  BY InitHolds, StepKeeps, PTL DEF Spec

(***************************************************************************)
(* When every process has booted the last version, its schedules are in    *)
(* force, whatever processes of older versions upserted during the deploy. *)
(***************************************************************************)
THEOREM LastVersionIsScheduled == Spec => []LastVersionScheduled
<1>1. IInv => LastVersionScheduled
  BY DEF IInv, LastVersionScheduled, Deployed, Covers
<1> QED
  BY <1>1, Invariant, PTL
=============================================================================
