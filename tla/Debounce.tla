------------------------------ MODULE Debounce ------------------------------
(***************************************************************************)
(* Delayed calls under a jobId: backgroundWithDelay and _addToQueue of     *)
(* src/background/index.ts, with the deduplication of BullMQ they rely on. *)
(*                                                                         *)
(* A call takes the time of its client's clock and travels to redis.  The  *)
(* job it adds is due "delay" after the call was made; the deduplication   *)
(* key expires "ttl" after the call arrived.  In between, jobs fall due,   *)
(* are promoted, start, fail and wait for another attempt, while further   *)
(* calls under the same jobId arrive.                                      *)
(*                                                                         *)
(* Time is counted in ticks.  The clocks of clients and of redis agree.    *)
(***************************************************************************)
EXTENDS Integers

CONSTANTS
  NumCalls,     \* calls made in a behaviour
  Ids,          \* the jobIds calls may be given
  None,         \* no jobId was given
  Requests,     \* what calls may ask for: [id, delay], the delay in seconds,
                \* 0 if none was given
  Second,       \* ticks of a second
  Latency,      \* ticks from the making of a call to its arrival, at most
  LastCall,     \* no call is made after this time
  MaxTime       \* time stops here

ASSUME DebounceAssumption ==
  /\ NumCalls \in Nat
  /\ None \notin Ids
  /\ Requests \subseteq [id : Ids \cup {None}, delay : Nat]
  /\ Second \in Nat \ {0}
  /\ Latency \in Nat
  /\ LastCall \in Nat
  /\ MaxTime \in Nat

Calls == 1 .. NumCalls      \* in the order in which they are made

VARIABLES
  now,       \* the time
  status,    \* where each call, or the job it added, is
  id,        \* its jobId
  delay,     \* its delaySeconds
  created,   \* when it was made: the timestamp of its job
  started,   \* when its job first started
  key        \* the deduplication key of each jobId in redis

vars == <<now, status, id, delay, created, started, key>>

Never == -1

NoKey == [job |-> 0, expires |-> 0]

Statuses == {"none", "sent", "delayed", "waiting", "started", "replaced", "joined"}

TypeOK ==
  /\ now \in Nat
  /\ status \in [Calls -> Statuses]
  /\ id \in [Calls -> Ids \cup {None}]
  /\ delay \in [Calls -> Nat]
  /\ created \in [Calls -> Nat]
  /\ started \in [Calls -> Nat \cup {Never}]
  /\ key \in [Ids -> [job : Calls \cup {0}, expires : Nat]]

Init ==
  /\ now = 0
  /\ status = [c \in Calls |-> "none"]
  /\ id = [c \in Calls |-> None]
  /\ delay = [c \in Calls |-> 0]
  /\ created = [c \in Calls |-> 0]
  /\ started = [c \in Calls |-> Never]
  /\ key = [i \in Ids |-> NoKey]

-----------------------------------------------------------------------------
(* The options _addToQueue gives the job. *)

(* Mutant: deduplication also without a delay. *)
DebouncedById(c) == id[c] # None

(* if (delay && jobId) *)
Debounced(c) == id[c] # None /\ delay[c] # 0

DelayTicks(c) == delay[c] * Second              \* delaySeconds * 1000

(* Mutant: the ttl in seconds. *)
TtlSeconds(c) == delay[c]

(* Mutant: a ttl that outlives the delay. *)
TtlTooLong(c) == DelayTicks(c) + Second

Ttl(c) == DelayTicks(c)                         \* ttl: delay

DueTime(c) == created[c] + DelayTicks(c)

-----------------------------------------------------------------------------
(* BullMQ's addition of a job. *)

(* The key exists until its ttl has passed.  Finishing a job leaves it be. *)
Alive(i) == key[i].job # 0 /\ now < key[i].expires

(* replace: true removes the job the key names if it is delayed.  A job    *)
(* that has started may be: its method threw and it waits for another      *)
(* attempt.                                                                *)
Replaceable(j) == status[j] \in {"delayed", "started"}

(* Mutant: replace: false. *)
AnyJoinable(j) == TRUE

(* Not delayed: waiting, running or done. *)
Joinable(j) == status[j] # "delayed"

Arrived(c) == IF delay[c] = 0 THEN "waiting" ELSE "delayed"

(* SET with the ttl; extend: true does the same for a key that exists. *)
SetKey(c) == key' = [key EXCEPT ![id[c]] = [job |-> c, expires |-> now + Ttl(c)]]

(* backgroundWithDelay(delay, ...) reaches Queue.add in some process. *)
Call(c) ==
  /\ now <= LastCall
  /\ status[c] = "none"
  /\ \A d \in 1 .. c - 1 : status[d] # "none"
  /\ status' = [status EXCEPT ![c] = "sent"]
  /\ created' = [created EXCEPT ![c] = now]
  /\ \E r \in Requests :
       /\ id' = [id EXCEPT ![c] = r.id]
       /\ delay' = [delay EXCEPT ![c] = r.delay]
  /\ UNCHANGED <<now, started, key>>

AddPlain(c) ==
  /\ status[c] = "sent"
  /\ ~Debounced(c)
  /\ status' = [status EXCEPT ![c] = Arrived(c)]
  /\ UNCHANGED <<now, id, delay, created, started, key>>

(* Nobody holds the key. *)
AddFirst(c) ==
  /\ status[c] = "sent"
  /\ Debounced(c)
  /\ ~Alive(id[c])
  /\ status' = [status EXCEPT ![c] = Arrived(c)]
  /\ SetKey(c)
  /\ UNCHANGED <<now, id, delay, created, started>>

AddReplacing(c) ==
  /\ status[c] = "sent"
  /\ Debounced(c)
  /\ Alive(id[c])
  /\ Replaceable(key[id[c]].job)
  /\ status' = [status EXCEPT ![key[id[c]].job] = "replaced", ![c] = Arrived(c)]
  /\ SetKey(c)
  /\ UNCHANGED <<now, id, delay, created, started>>

(* The job the key names is not delayed: nothing is added. *)
Join(c) ==
  /\ status[c] = "sent"
  /\ Debounced(c)
  /\ Alive(id[c])
  /\ Joinable(key[id[c]].job)
  /\ status' = [status EXCEPT ![c] = "joined"]
  /\ UNCHANGED <<now, id, delay, created, started, key>>

Arrive(c) == AddPlain(c) \/ AddFirst(c) \/ AddReplacing(c) \/ Join(c)

-----------------------------------------------------------------------------
(* BullMQ's workers. *)

Promote(c) ==
  /\ status[c] = "delayed"
  /\ DueTime(c) <= now
  /\ status' = [status EXCEPT ![c] = "waiting"]
  /\ UNCHANGED <<now, id, delay, created, started, key>>

Start(c) ==
  /\ status[c] = "waiting"
  /\ status' = [status EXCEPT ![c] = "started"]
  /\ started' = [started EXCEPT ![c] = now]
  /\ UNCHANGED <<now, id, delay, created, key>>

Run(c) == Promote(c) \/ Start(c)

(* No call travels for longer than Latency. *)
Tick ==
  /\ now < MaxTime
  /\ \A c \in Calls : status[c] = "sent" => now < created[c] + Latency
  /\ now' = now + 1
  /\ UNCHANGED <<status, id, delay, created, started, key>>

Next == Tick \/ \E c \in Calls : Call(c) \/ Arrive(c) \/ Run(c)

Spec == Init /\ [][Next]_vars

(* Calls arrive, and workers take what waits; calls need not be made. *)
FairSpec ==
  /\ Spec
  /\ WF_vars(Tick)
  /\ \A c \in Calls : WF_vars(Arrive(c)) /\ WF_vars(Run(c))

-----------------------------------------------------------------------------
(***************************************************************************)
(* However calls under one jobId overtake each other on their way, at most *)
(* one of the jobs they added is still to fall due: the key lives as long  *)
(* as the delay it guards (ttl: delay, extend and replace).                *)
(***************************************************************************)
OneUndueJob ==
  \A c, d \in Calls :
    /\ id[c] = id[d]
    /\ Debounced(c) /\ status[c] = "delayed" /\ now < DueTime(c)
    /\ Debounced(d) /\ status[d] = "delayed" /\ now < DueTime(d)
    => c = d

(***************************************************************************)
(* A call is debounced, not throttled: it goes without a job of its own    *)
(* only if the job it meets has fallen due, and that less than Latency     *)
(* ago (replace: true, ttl: delay).                                        *)
(***************************************************************************)
JoinWindow ==
  [][\A c \in Calls : status[c] = "sent" /\ status'[c] = "joined" =>
       LET due == DueTime(key[id[c]].job) IN due <= now /\ now < due + Latency]_vars

(***************************************************************************)
(* A call that went without a job is answered by one of the same jobId     *)
(* that is about to start, or that started less than Latency before the    *)
(* call was made.                                                          *)
(***************************************************************************)
AnsweredBy(c, j) ==
  /\ id[j] = id[c]
  /\ \/ status[j] = "waiting"
     \/ started[j] # Never /\ created[c] < started[j] + Latency

JoinedAreAnswered ==
  \A c \in Calls : status[c] = "joined" => \E j \in Calls : AnsweredBy(c, j)

(***************************************************************************)
(* A call without a jobId or without a delay neither goes without a job    *)
(* nor loses it to a call under the same jobId ("if delaySeconds is 0, we  *)
(* will intentionally treat this as undefined", _addToQueue).              *)
(***************************************************************************)
Plain(c) == id[c] = None \/ delay[c] = 0

PlainCallsKept ==
  \A c \in Calls : Plain(c) => status[c] \notin {"joined", "replaced"}

(***************************************************************************)
(* Every call is followed by a run: its own if it was plain, or else one   *)
(* under the same jobId that started no earlier than Latency before the    *)
(* call.  Debouncing may merge calls and loses none of them.               *)
(***************************************************************************)
Ran(c) == started[c] # Never

EveryCallRuns ==
  \A c \in Calls : status[c] = "sent" ~>
    \/ Ran(c)
    \/ /\ ~Plain(c)
       /\ \E j \in Calls : id[j] = id[c] /\ Ran(j) /\ created[c] < started[j] + Latency

(***************************************************************************)
(* The inductive strengthening the proofs use.  KeyGuards is its heart: a  *)
(* key names a job of its jobId and expires no earlier than that job falls *)
(* due, and less than Latency later; a job that is not due yet is the one  *)
(* its key names.                                                          *)
(***************************************************************************)
KeyGuards ==
  /\ \A i \in Ids, j \in Calls : key[i].job = j =>
       /\ id[j] = i
       /\ Debounced(j)
       /\ status[j] \in {"delayed", "waiting", "started"}
       /\ DueTime(j) <= key[i].expires
       /\ key[i].expires <= DueTime(j) + Latency
  /\ \A c \in Calls :
       Debounced(c) /\ status[c] = "delayed" /\ now < DueTime(c) => key[id[c]].job = c

InTransit ==
  \A c \in Calls : status[c] = "sent" => created[c] <= now /\ now <= created[c] + Latency

RunsWhenDue ==
  \A c \in Calls :
    /\ status[c] = "waiting" => DueTime(c) <= now
    /\ status[c] = "started" => started[c] # Never
    /\ started[c] # Never => /\ status[c] \in {"started", "replaced"}
                             /\ DueTime(c) <= started[c] /\ started[c] <= now

JoinedAreDue ==
  \A c \in Calls : status[c] = "joined" =>
    \E j \in Calls :
      /\ id[j] = id[c]
      /\ status[j] = "waiting" \/ started[j] # Never
      /\ created[c] < DueTime(j) + Latency

IInv ==
  /\ TypeOK
  /\ KeyGuards
  /\ InTransit
  /\ RunsWhenDue
  /\ JoinedAreDue
  /\ PlainCallsKept
=============================================================================
