-------------------------- MODULE Debounce_proofs --------------------------
(***************************************************************************)
(* Proofs about Debounce, for any number of calls, jobIds, delays and any  *)
(* bound on the latency.  Type correctness is proved on its own; then each *)
(* action is shown to keep IInv, and the properties follow.                *)
(***************************************************************************)
EXTENDS Debounce, TLAPS

(* A delay in ticks is a natural number, and so is the time a job is due.  *)
LEMMA Times ==
  ASSUME NEW c \in Calls, delay[c] \in Nat, created[c] \in Nat
  PROVE  DelayTicks(c) \in Nat /\ Ttl(c) = DelayTicks(c) /\ DueTime(c) \in Nat
  <1>1. \A m, n \in Nat : m * n \in Nat
    OBVIOUS
  <1>2. DelayTicks(c) \in Nat
    BY <1>1, DebounceAssumption DEF DelayTicks, DebounceAssumption
  <1> QED
    BY <1>2 DEF Ttl, DueTime

(* What a call asked for stays as it is once the call was made.            *)
LEMMA Asked ==
  ASSUME UNCHANGED <<id, delay, created>>
  PROVE  \A c \in Calls : /\ DueTime(c)' = DueTime(c)
                          /\ Debounced(c)' = Debounced(c)
                          /\ Plain(c)' = Plain(c)
  BY DEF DueTime, DelayTicks, Debounced, Plain

-----------------------------------------------------------------------------
(* Initially every variable is in its type. *)
LEMMA TypeInit == Init => TypeOK
  BY DEF Init, TypeOK, NoKey, Statuses, Calls

(* Every action leaves the variables in their types. *)
LEMMA TypeStep == TypeOK /\ [Next]_vars => TypeOK'
<1> SUFFICES ASSUME TypeOK, [Next]_vars PROVE TypeOK'
  OBVIOUS
<1> USE DEF TypeOK, Statuses
<1>1. CASE Tick
  BY <1>1 DEF Tick
<1>2. ASSUME NEW c \in Calls, Call(c) PROVE TypeOK'
  <2>1. PICK r \in Requests : id' = [id EXCEPT ![c] = r.id] /\ delay' = [delay EXCEPT ![c] = r.delay]
    BY <1>2 DEF Call
  <2>2. r.id \in Ids \cup {None} /\ r.delay \in Nat
    BY DebounceAssumption DEF DebounceAssumption
  <2> QED
    BY <1>2, <2>1, <2>2 DEF Call
<1>3. ASSUME NEW c \in Calls, AddPlain(c) PROVE TypeOK'
  BY <1>3 DEF AddPlain, Arrived
<1>4. ASSUME NEW c \in Calls, Debounced(c), SetKey(c) PROVE key' \in [Ids -> [job : Calls \cup {0}, expires : Nat]]
  <2>1. now + Ttl(c) \in Nat
    BY Times
  <2> QED
    BY <1>4, <2>1 DEF SetKey
<1>5. ASSUME NEW c \in Calls, AddFirst(c) PROVE TypeOK'
  BY <1>4, <1>5 DEF AddFirst, Arrived
<1>6. ASSUME NEW c \in Calls, AddReplacing(c) PROVE TypeOK'
  BY <1>4, <1>6 DEF AddReplacing, Arrived
<1>7. ASSUME NEW c \in Calls, Join(c) PROVE TypeOK'
  BY <1>7 DEF Join
<1>8. ASSUME NEW c \in Calls, Promote(c) PROVE TypeOK'
  BY <1>8 DEF Promote
<1>9. ASSUME NEW c \in Calls, Start(c) PROVE TypeOK'
  BY <1>9 DEF Start
<1>10. CASE UNCHANGED vars
  BY <1>10 DEF vars
<1> QED
  BY <1>1, <1>2, <1>3, <1>5, <1>6, <1>7, <1>8, <1>9, <1>10 DEF Next, Arrive, Run

(***************************************************************************)
(* Type correctness of the debouncing of calls.                            *)
(***************************************************************************)
THEOREM TypeCorrect == Spec => []TypeOK
<1> QED
  BY TypeInit, TypeStep, PTL DEF Spec

-----------------------------------------------------------------------------
(* Time passes: fewer jobs are undue, and no call in transit is overdue.   *)
LEMMA TickKeeps == IInv /\ TypeOK' /\ Tick => IInv'
<1> SUFFICES ASSUME IInv, TypeOK', Tick PROVE IInv'
  OBVIOUS
<1> USE DEF IInv, Tick, TypeOK
<1>0. /\ \A c \in Calls : DueTime(c) \in Nat
      /\ \A c \in Calls : DueTime(c)' = DueTime(c) /\ Debounced(c)' = Debounced(c)
  BY Times, Asked
<1>1. KeyGuards'
  BY <1>0 DEF KeyGuards
<1>2. InTransit'
  BY DebounceAssumption DEF InTransit, DebounceAssumption
<1>3. RunsWhenDue'
  BY <1>0 DEF RunsWhenDue
<1>4. JoinedAreDue'
  BY <1>0 DEF JoinedAreDue
<1>5. PlainCallsKept'
  BY DEF PlainCallsKept, Plain
<1> QED
  BY <1>1, <1>2, <1>3, <1>4, <1>5

(* A new call is nobody's key and nobody's answer.                         *)
LEMMA CallKeeps ==
  ASSUME IInv, TypeOK', NEW c \in Calls, Call(c)
  PROVE  IInv'
<1> USE DEF IInv, TypeOK
<1>0. /\ status[c] = "none" /\ status' = [status EXCEPT ![c] = "sent"]
      /\ created' = [created EXCEPT ![c] = now]
      /\ UNCHANGED <<now, started, key>>
  BY DEF Call
<1>1. \A d \in Calls : d # c => /\ id'[d] = id[d] /\ delay'[d] = delay[d]
                                /\ created'[d] = created[d] /\ status'[d] = status[d]
                                /\ DueTime(d)' = DueTime(d)
                                /\ Debounced(d)' = Debounced(d) /\ Plain(d)' = Plain(d)
  <2>1. \A d \in Calls : d # c => /\ id'[d] = id[d] /\ delay'[d] = delay[d]
                                  /\ created'[d] = created[d] /\ status'[d] = status[d]
    BY DEF Call
  <2> QED
    BY <2>1 DEF DueTime, DelayTicks, Debounced, Plain
<1>2. KeyGuards'
  BY <1>0, <1>1 DEF KeyGuards
<1>3. InTransit'
  BY <1>0, <1>1, DebounceAssumption DEF InTransit, DebounceAssumption
<1>4. RunsWhenDue'
  BY <1>0, <1>1 DEF RunsWhenDue
<1>5. JoinedAreDue'
  <2> SUFFICES ASSUME NEW d \in Calls, status'[d] = "joined"
               PROVE  \E j \in Calls : /\ id'[j] = id'[d]
                                       /\ status'[j] = "waiting" \/ started'[j] # Never
                                       /\ created'[d] < DueTime(j)' + Latency
    BY DEF JoinedAreDue
  <2>1. d # c /\ status[d] = "joined"
    BY <1>0, <1>1
  <2>2. PICK j \in Calls : /\ id[j] = id[d]
                           /\ status[j] = "waiting" \/ started[j] # Never
                           /\ created[d] < DueTime(j) + Latency
    BY <2>1 DEF JoinedAreDue
  <2>3. j # c
    BY <1>0, <2>2 DEF RunsWhenDue
  <2> QED
    BY <1>0, <1>1, <2>1, <2>2, <2>3
<1>6. PlainCallsKept'
  BY <1>0, <1>1 DEF PlainCallsKept
<1> QED
  BY <1>2, <1>3, <1>4, <1>5, <1>6

(* A plain call gets its job and leaves the keys to others.                *)
LEMMA AddPlainKeeps ==
  ASSUME IInv, TypeOK', NEW c \in Calls, AddPlain(c)
  PROVE  IInv'
<1> USE DEF IInv, TypeOK, AddPlain
<1>0. /\ \A d \in Calls : DueTime(d)' = DueTime(d) /\ Debounced(d)' = Debounced(d)
                          /\ Plain(d)' = Plain(d)
      /\ \A d \in Calls : d # c => status'[d] = status[d]
      /\ status'[c] \in {"waiting", "delayed"}
  BY Asked DEF Arrived
<1>1. KeyGuards'
  BY <1>0 DEF KeyGuards
<1>2. InTransit'
  BY <1>0 DEF InTransit
<1>3. RunsWhenDue'
  <2>1. status'[c] = "waiting" => DueTime(c) <= now
    <3>1. delay[c] = 0 => DelayTicks(c) = 0
      BY DebounceAssumption DEF DelayTicks, DebounceAssumption
    <3> QED
      BY <3>1 DEF Arrived, DueTime, InTransit
  <2> QED
    BY <1>0, <2>1 DEF RunsWhenDue
<1>4. JoinedAreDue'
  BY <1>0 DEF JoinedAreDue
<1>5. PlainCallsKept'
  BY <1>0 DEF PlainCallsKept
<1> QED
  BY <1>1, <1>2, <1>3, <1>4, <1>5

(***************************************************************************)
(* The heart of the argument.  A call that takes the key, from nobody or   *)
(* from the job it replaces, leaves no other undue job behind: the key was *)
(* free only if its last job was due, and otherwise that job is removed.   *)
(***************************************************************************)
LEMMA TakingKeyKeeps ==
  ASSUME IInv, TypeOK', NEW c \in Calls, status[c] = "sent", Debounced(c),
         UNCHANGED <<now, id, delay, created, started>>, SetKey(c),
         NEW replaced \in SUBSET Calls,
         replaced \subseteq {key[id[c]].job},
         \A d \in replaced : status[d] \in {"delayed", "started"},
         Alive(id[c]) => key[id[c]].job \in replaced,
         status' = [d \in Calls |-> IF d = c THEN "delayed"
                                    ELSE IF d \in replaced THEN "replaced" ELSE status[d]]
  PROVE  IInv'
<1> USE DEF IInv, TypeOK
<1>0. \A d \in Calls : /\ DueTime(d) \in Nat
                       /\ DueTime(d)' = DueTime(d) /\ Debounced(d)' = Debounced(d)
                       /\ Plain(d)' = Plain(d)
  BY Times, Asked
<1>1. id[c] \in Ids /\ key' = [key EXCEPT ![id[c]] = [job |-> c, expires |-> now + Ttl(c)]]
  BY DEF Debounced, SetKey
<1>2. c \notin replaced
  OBVIOUS
<1>3. DueTime(c) <= now + Ttl(c) /\ now + Ttl(c) <= DueTime(c) + Latency
  BY Times, DebounceAssumption DEF DueTime, InTransit, DebounceAssumption
<1>4. \A d \in replaced : d = key[id[c]].job /\ id[d] = id[c] /\ Debounced(d)
  BY <1>1 DEF KeyGuards
<1>5. KeyGuards'
  <2>1. ASSUME NEW i \in Ids, NEW j \in Calls, key'[i].job = j
        PROVE  /\ id[j] = i
               /\ Debounced(j)
               /\ status'[j] \in {"delayed", "waiting", "started"}
               /\ DueTime(j) <= key'[i].expires
               /\ key'[i].expires <= DueTime(j) + Latency
    <3>1. CASE i = id[c]
      <4>1. key'[i] = [job |-> c, expires |-> now + Ttl(c)]
        BY <1>1, <3>1
      <4> QED
        BY <1>3, <2>1, <3>1, <4>1
    <3>2. CASE i # id[c]
      <4>1. key'[i] = key[i] /\ key[i].job = j
        BY <1>1, <2>1, <3>2
      <4>2. id[j] = i
        BY <4>1 DEF KeyGuards
      <4>3. j # c /\ j \notin replaced
        BY <1>4, <3>2, <4>2
      <4> QED
        BY <4>1, <4>3 DEF KeyGuards
    <3> QED
      BY <3>1, <3>2
  <2>2. ASSUME NEW d \in Calls, Debounced(d), status'[d] = "delayed", now < DueTime(d)
        PROVE  key'[id[d]].job = d
    <3>1. CASE d = c
      BY <1>1, <3>1
    <3>2. CASE d # c
      <4>1. d \notin replaced /\ status[d] = "delayed"
        BY <2>2, <3>2
      <4>2. key[id[d]].job = d /\ id[d] \in Ids /\ d # 0
        BY <2>2, <4>1 DEF KeyGuards, Debounced, Calls
      <4>3. DueTime(d) <= key[id[d]].expires
        BY <4>2 DEF KeyGuards
      <4>4. id[d] # id[c]
        BY <2>2, <4>1, <4>2, <4>3, <1>0 DEF Alive
      <4> QED
        BY <1>1, <4>2, <4>4
    <3> QED
      BY <3>1, <3>2
  <2>3. \A i \in Ids, j \in Calls : key'[i].job = j =>
          /\ id'[j] = i
          /\ Debounced(j)'
          /\ status'[j] \in {"delayed", "waiting", "started"}
          /\ DueTime(j)' <= key'[i].expires
          /\ key'[i].expires <= DueTime(j)' + Latency
    BY <1>0, <2>1
  <2>4. \A d \in Calls :
          Debounced(d)' /\ status'[d] = "delayed" /\ now' < DueTime(d)' => key'[id'[d]].job = d
    BY <1>0, <2>2
  <2> QED
    BY <2>3, <2>4 DEF KeyGuards
<1>6. InTransit'
  BY <1>0 DEF InTransit
<1>7. RunsWhenDue'
  BY <1>0 DEF RunsWhenDue
<1>8. JoinedAreDue'
  BY <1>0 DEF JoinedAreDue
<1>9. PlainCallsKept'
  BY <1>0, <1>2, <1>4 DEF PlainCallsKept, Plain, Debounced
<1> QED
  BY <1>5, <1>6, <1>7, <1>8, <1>9

(* A free key is taken without removing anything.                          *)
LEMMA AddFirstKeeps ==
  ASSUME IInv, TypeOK', NEW c \in Calls, AddFirst(c)
  PROVE  IInv'
<1>1. delay[c] # 0 /\ status' = [status EXCEPT ![c] = "delayed"]
  BY DEF AddFirst, Arrived, Debounced
<1>2. status' = [d \in Calls |-> IF d = c THEN "delayed"
                                 ELSE IF d \in {} THEN "replaced" ELSE status[d]]
  BY <1>1 DEF IInv, TypeOK
<1>3. /\ status[c] = "sent" /\ Debounced(c) /\ SetKey(c) /\ ~Alive(id[c])
      /\ UNCHANGED <<now, id, delay, created, started>>
  BY DEF AddFirst
<1>4. {} \in SUBSET Calls /\ {} \subseteq {key[id[c]].job}
  OBVIOUS
<1> QED
  BY <1>2, <1>3, <1>4, TakingKeyKeeps

(* The job the key names is removed, if it is delayed.                     *)
LEMMA AddReplacingKeeps ==
  ASSUME IInv, TypeOK', NEW c \in Calls, AddReplacing(c)
  PROVE  IInv'
<1> DEFINE j == key[id[c]].job
<1>1. id[c] \in Ids /\ j \in Calls /\ j # c
  BY DEF IInv, TypeOK, AddReplacing, Debounced, Alive, Replaceable
<1>2. status' = [d \in Calls |-> IF d = c THEN "delayed"
                                 ELSE IF d \in {j} THEN "replaced" ELSE status[d]]
  BY <1>1 DEF IInv, TypeOK, AddReplacing, Arrived, Debounced
<1>3. /\ {j} \in SUBSET Calls
      /\ {j} \subseteq {key[id[c]].job}
      /\ \A d \in {j} : status[d] \in {"delayed", "started"}
      /\ Alive(id[c]) => key[id[c]].job \in {j}
  BY <1>1 DEF AddReplacing, Replaceable
<1>4. /\ status[c] = "sent" /\ Debounced(c) /\ SetKey(c)
      /\ UNCHANGED <<now, id, delay, created, started>>
  BY DEF AddReplacing
<1> HIDE DEF j
<1> QED
  BY <1>2, <1>3, <1>4, TakingKeyKeeps

(* The job a call joins is due, and its key not older than the latency.    *)
LEMMA JoinMeetsDueJob ==
  ASSUME IInv, NEW c \in Calls, Join(c)
  PROVE  LET j == key[id[c]].job IN
         /\ j \in Calls /\ j # c /\ id[j] = id[c]
         /\ status[j] \in {"waiting", "started"}
         /\ DueTime(j) <= now /\ now < DueTime(j) + Latency
<1> DEFINE j == key[id[c]].job
<1>1. id[c] \in Ids /\ j \in Calls /\ now < key[id[c]].expires
  BY DEF IInv, TypeOK, Join, Debounced, Alive
<1>2. /\ id[j] = id[c] /\ status[j] \in {"waiting", "started"}
      /\ key[id[c]].expires <= DueTime(j) + Latency
  BY <1>1 DEF IInv, KeyGuards, Join, Joinable
<1>3. DueTime(j) \in Nat /\ now \in Nat /\ key[id[c]].expires \in Nat
  BY <1>1, Times DEF IInv, TypeOK
<1>4. DueTime(j) <= now
  <2>1. CASE status[j] = "waiting"
    BY <1>1, <2>1 DEF IInv, RunsWhenDue
  <2>2. CASE status[j] = "started"
    <3>1. started[j] # Never /\ DueTime(j) <= started[j] /\ started[j] <= now
      BY <1>1, <2>2 DEF IInv, RunsWhenDue
    <3>2. started[j] \in Nat
      BY <1>1, <3>1 DEF IInv, TypeOK
    <3> QED
      BY <1>3, <3>1, <3>2
  <2> QED
    BY <1>2, <2>1, <2>2
<1> QED
  BY <1>1, <1>2, <1>3, <1>4, DebounceAssumption DEF DebounceAssumption, Join

(* A call that joins is answered by the job its key names.                 *)
LEMMA JoinKeeps ==
  ASSUME IInv, TypeOK', NEW c \in Calls, Join(c)
  PROVE  IInv'
<1> USE DEF IInv, TypeOK
<1> DEFINE j == key[id[c]].job
<1>0. /\ \A d \in Calls : DueTime(d)' = DueTime(d) /\ Debounced(d)' = Debounced(d)
                          /\ Plain(d)' = Plain(d)
      /\ \A d \in Calls : d # c => status'[d] = status[d]
      /\ status[c] = "sent" /\ status'[c] = "joined"
      /\ UNCHANGED <<now, id, created, started, key>>
  BY Asked DEF Join
<1>1. KeyGuards'
  BY <1>0 DEF KeyGuards
<1>2. InTransit'
  BY <1>0 DEF InTransit
<1>3. RunsWhenDue'
  BY <1>0 DEF RunsWhenDue
<1>4. JoinedAreDue'
  <2>1. /\ j \in Calls /\ j # c /\ id[j] = id[c]
        /\ status[j] = "waiting" \/ started[j] # Never
        /\ created[c] < DueTime(j) + Latency
    <3>1. created[c] <= now
      BY <1>0 DEF InTransit
    <3>2. /\ j \in Calls /\ j # c /\ id[j] = id[c]
          /\ status[j] \in {"waiting", "started"}
          /\ now < DueTime(j) + Latency
      BY JoinMeetsDueJob
    <3>3. DueTime(j) \in Nat
      BY <3>2, Times
    <3> QED
      BY <3>1, <3>2, <3>3, DebounceAssumption DEF RunsWhenDue, DebounceAssumption
  <2> QED
    BY <1>0, <2>1 DEF JoinedAreDue
<1>5. PlainCallsKept'
  BY <1>0 DEF PlainCallsKept, Join, Plain, Debounced
<1> QED
  BY <1>1, <1>2, <1>3, <1>4, <1>5

(* A job becomes due, and starts, no earlier than it should.               *)
LEMMA RunKeeps ==
  ASSUME IInv, TypeOK', NEW c \in Calls, Run(c)
  PROVE  IInv'
<1> USE DEF IInv, TypeOK
<1>0. /\ \A d \in Calls : /\ DueTime(d) \in Nat
                          /\ DueTime(d)' = DueTime(d) /\ Debounced(d)' = Debounced(d)
                          /\ Plain(d)' = Plain(d)
      /\ \A d \in Calls : d # c => status'[d] = status[d] /\ started'[d] = started[d]
      /\ UNCHANGED <<now, id, created, key>>
      /\ \/ /\ status[c] = "delayed" /\ DueTime(c) <= now
            /\ status'[c] = "waiting" /\ started' = started
         \/ /\ status[c] = "waiting"
            /\ status'[c] = "started" /\ started'[c] = now
  BY Asked, Times DEF Run, Promote, Start
<1>1. KeyGuards'
  BY <1>0 DEF KeyGuards
<1>2. InTransit'
  BY <1>0 DEF InTransit
<1>3. RunsWhenDue'
  BY <1>0 DEF RunsWhenDue, Never
<1>4. JoinedAreDue'
  BY <1>0 DEF JoinedAreDue, Never
<1>5. PlainCallsKept'
  BY <1>0 DEF PlainCallsKept
<1> QED
  BY <1>1, <1>2, <1>3, <1>4, <1>5

-----------------------------------------------------------------------------
LEMMA InvInit == Init => IInv
<1> SUFFICES ASSUME Init PROVE IInv
  OBVIOUS
<1>1. KeyGuards
  BY DEF Init, KeyGuards, NoKey, Calls
<1> QED
  BY <1>1, TypeInit DEF Init, IInv, InTransit, RunsWhenDue, JoinedAreDue, PlainCallsKept

LEMMA InvStep == IInv /\ [Next]_vars => IInv'
<1> SUFFICES ASSUME IInv, [Next]_vars PROVE IInv'
  OBVIOUS
<1>0. TypeOK'
  BY TypeStep DEF IInv
<1>1. CASE Tick
  BY <1>0, <1>1, TickKeeps
<1>2. ASSUME NEW c \in Calls, Call(c) PROVE IInv'
  BY <1>0, <1>2, CallKeeps
<1>3. ASSUME NEW c \in Calls, Arrive(c) PROVE IInv'
  BY <1>0, <1>3, AddPlainKeeps, AddFirstKeeps, AddReplacingKeeps, JoinKeeps DEF Arrive
<1>4. ASSUME NEW c \in Calls, Run(c) PROVE IInv'
  BY <1>0, <1>4, RunKeeps
<1>5. CASE UNCHANGED vars
  BY <1>0, <1>5, Asked
  DEF vars, IInv, KeyGuards, InTransit, RunsWhenDue, JoinedAreDue, PlainCallsKept
<1> QED
  BY <1>1, <1>2, <1>3, <1>4, <1>5 DEF Next

(***************************************************************************)
(* The inductive invariant of debouncing: a key guards its job for as long *)
(* as the job may still be replaced, and not much longer.                  *)
(***************************************************************************)
THEOREM Invariant == Spec => []IInv
<1> QED
  BY InvInit, InvStep, PTL DEF Spec

(***************************************************************************)
(* At most one job of a jobId is still to fall due (ttl: delay).           *)
(***************************************************************************)
THEOREM OneJobToComeDue == Spec => []OneUndueJob
<1>1. IInv => OneUndueJob
  BY DEF IInv, KeyGuards, OneUndueJob
<1> QED
  BY <1>1, Invariant, PTL

(***************************************************************************)
(* A call without a jobId or a delay keeps its job (if (delay && jobId)).  *)
(***************************************************************************)
THEOREM PlainCallsAreKept == Spec => []PlainCallsKept
<1>1. IInv => PlainCallsKept
  BY DEF IInv
<1> QED
  BY <1>1, Invariant, PTL

(***************************************************************************)
(* A call that went without a job is answered: by a job of its jobId that  *)
(* is about to start or started less than Latency before the call.         *)
(***************************************************************************)
THEOREM JoinedCallsAreAnswered == Spec => []JoinedAreAnswered
<1>1. IInv => JoinedAreAnswered
  <2> SUFFICES ASSUME IInv, NEW c \in Calls, status[c] = "joined"
               PROVE  \E j \in Calls : AnsweredBy(c, j)
    BY DEF JoinedAreAnswered
  <2>1. PICK j \in Calls : /\ id[j] = id[c]
                           /\ status[j] = "waiting" \/ started[j] # Never
                           /\ created[c] < DueTime(j) + Latency
    BY DEF IInv, JoinedAreDue
  <2>2. started[j] # Never => DueTime(j) <= started[j]
    BY DEF IInv, RunsWhenDue
  <2>3. DueTime(j) \in Nat /\ created[c] \in Nat /\ started[j] \in Nat \cup {Never}
    BY Times DEF IInv, TypeOK
  <2> QED
    BY <2>1, <2>2, <2>3, DebounceAssumption DEF AnsweredBy, DebounceAssumption, Never
<1> QED
  BY <1>1, Invariant, PTL

(***************************************************************************)
(* Calls are debounced, not throttled: only a job that fell due less than  *)
(* Latency ago makes a call go without one (replace: true, ttl: delay).    *)
(***************************************************************************)
THEOREM CallsJoinInWindow == Spec => JoinWindow
<1> DEFINE Window ==
      \A c \in Calls : status[c] = "sent" /\ status'[c] = "joined" =>
        LET due == DueTime(key[id[c]].job) IN due <= now /\ now < due + Latency
<1>1. IInv /\ [Next]_vars => [Window]_vars
  <2> SUFFICES ASSUME IInv, Next, NEW c \in Calls, status[c] = "sent", status'[c] = "joined"
               PROVE  LET due == DueTime(key[id[c]].job) IN due <= now /\ now < due + Latency
    OBVIOUS
  <2>1. Join(c)
    BY DEF IInv, TypeOK, Next, Tick, Call, Arrive, AddPlain, AddFirst, AddReplacing, Join,
           Run, Promote, Start, Arrived
  <2> QED
    BY <2>1, JoinMeetsDueJob
<1> QED
  BY <1>1, Invariant, PTL DEF Spec, JoinWindow

=============================================================================
