----------------------------- MODULE Schedulers -----------------------------
(***************************************************************************)
(* Cron schedules (scheduledMethod in src/background/index.ts, called by   *)
(* BaseScheduledService.schedule).  Every process of the application       *)
(* schedules what its version declares when it boots.  The schedulers in   *)
(* redis outlive processes and versions; processes crash, and are deployed *)
(* one by one.                                                             *)
(***************************************************************************)
EXTENDS Integers

CONSTANTS
  Processes,
  NumVersions,  \* versions of the application that are deployed
  Declared,     \* the schedules of each version: [method, pattern, queue],
                \* a method being that of a class
  None          \* no pattern

Versions == 1 .. NumVersions

Schedules == UNION {Declared[v] : v \in Versions}
Methods   == {s.method : s \in Schedules}
Queues    == {s.queue : s \in Schedules}
Patterns  == {s.pattern : s \in Schedules}

ASSUME SchedulersAssumption ==
  /\ Processes # {}
  /\ NumVersions \in Nat \ {0}
  /\ \A v \in Versions : Declared[v] \subseteq [method : Methods, pattern : Patterns, queue : Queues]
  /\ None \notin Patterns

VARIABLES
  scheduler,    \* in redis: the pattern of each scheduler id of each queue
  version,      \* what each process runs
  todo          \* the schedules its boot has not set yet

vars == <<scheduler, version, todo>>

TypeOK ==
  /\ scheduler \in [Queues -> [Methods -> Patterns \cup {None}]]
  /\ version \in [Processes -> Versions]
  /\ todo \in [Processes -> SUBSET Schedules]

Init ==
  /\ scheduler = [q \in Queues |-> [m \in Methods |-> None]]
  /\ version = [p \in Processes |-> 1]
  /\ todo = [p \in Processes |-> Declared[1]]

-----------------------------------------------------------------------------
(* schedulerId = `${globalName}:${method}`: the pattern is no part of it. *)
SchedulerId(s) == s.method

(* Mutant: a scheduler that exists is left as it is. *)
AddJobScheduler(s) ==
  IF scheduler[s.queue][SchedulerId(s)] = None
  THEN [scheduler EXCEPT ![s.queue][SchedulerId(s)] = s.pattern]
  ELSE scheduler

(* queueInstance.upsertJobScheduler(schedulerId, { pattern }, ...) *)
UpsertJobScheduler(s) == [scheduler EXCEPT ![s.queue][SchedulerId(s)] = s.pattern]

(* One of the calls of schedule(pattern, methodName) in the boot of p. *)
ScheduledMethod(p, s) ==
  /\ s \in todo[p]
  /\ scheduler' = UpsertJobScheduler(s)
  /\ todo' = [todo EXCEPT ![p] = @ \ {s}]
  /\ UNCHANGED version

(* The process crashes or is scaled, and boots with the version it had. *)
Reboot(p) ==
  /\ todo' = [todo EXCEPT ![p] = Declared[version[p]]]
  /\ UNCHANGED <<scheduler, version>>

(* It may not have finished its boot, and versions may be skipped. *)
Deploy(p) ==
  /\ \E v \in Versions :
       /\ v > version[p]
       /\ version' = [version EXCEPT ![p] = v]
       /\ todo' = [todo EXCEPT ![p] = Declared[v]]
  /\ UNCHANGED scheduler

Next ==
  \E p \in Processes :
    \/ \E s \in Schedules : ScheduledMethod(p, s)
    \/ Reboot(p)
    \/ Deploy(p)

Spec == Init /\ [][Next]_vars

-----------------------------------------------------------------------------
SameScheduler(s, t) == s.queue = t.queue /\ SchedulerId(s) = SchedulerId(t)

IsScheduled(s) ==
  \E t \in Declared[NumVersions] :
    SameScheduler(s, t) /\ scheduler[s.queue][SchedulerId(s)] = t.pattern

Deployed == \A p \in Processes : version[p] = NumVersions /\ todo[p] = {}

(***************************************************************************)
(* Once every process has booted the last version, each of its schedules   *)
(* has a scheduler that runs by a pattern this version declares for it:    *)
(* what processes of older versions set in between, as they crashed and    *)
(* booted again during the deploy, is overwritten (upsertJobScheduler).    *)
(***************************************************************************)
LastVersionScheduled ==
  Deployed => \A s \in Declared[NumVersions] : IsScheduled(s)

(***************************************************************************)
(* "Uniqueness will now be enforced by combining class name, method name,  *)
(* and cron repeat pattern" (comment in scheduledMethod): a method may be  *)
(* scheduled by two patterns, and each of them is in force.                *)
(***************************************************************************)
EveryPatternScheduled ==
  Deployed =>
    \A s \in Declared[NumVersions] : scheduler[s.queue][s.method] = s.pattern

(***************************************************************************)
(* The inductive strengthening the proofs use: what is not scheduled yet   *)
(* will be, by a process that has it to do or that is still to be deployed. *)
(***************************************************************************)
Covers(p, s) ==
  \/ version[p] # NumVersions
  \/ \E t \in todo[p] : SameScheduler(s, t)

IInv ==
  /\ TypeOK
  /\ \A p \in Processes : todo[p] \subseteq Declared[version[p]]
  /\ \A s \in Declared[NumVersions] : IsScheduled(s) \/ \E p \in Processes : Covers(p, s)
=============================================================================
