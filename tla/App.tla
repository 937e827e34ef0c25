-------------------------------- MODULE App --------------------------------
(***************************************************************************)
(* PsychicAppWorkers in one process (src/psychic-app-workers): init, which *)
(* awaits the application's callback, the cache getOrFail reads, and the   *)
(* event handlers init registers.  Code of the same process runs while     *)
(* init awaits the callback, tests call init again and again, and a        *)
(* process may be restarted at any time.                                   *)
(*                                                                         *)
(* Inits do not overlap.  Of the Background singleton only the app it has  *)
(* connected with is seen here; Registry has the rest.                     *)
(***************************************************************************)
EXTENDS Integers, Sequences

CONSTANTS
  Roles,      \* what the process may be: "server", "test" (NODE_ENV), "cli"
  Confs,      \* what callbacks may do: sequences of [option, value]
  MaxInits,   \* inits of a process
  None        \* not set

Settings == UNION {{c[i] : i \in DOMAIN c} : c \in Confs}

(* A callback passes set and on what their types allow. *)
ASSUME ConfsAssumption ==
  /\ Confs \subseteq Seq(Settings)
  /\ \A s \in Settings :
       /\ s.option \in {"background", "testInvocation", "bypassDeprecationChecks", "workers:shutdown"}
       /\ s.option = "testInvocation" => s.value \in {"automatic", "manual"}
       /\ s.option = "bypassDeprecationChecks" => s.value \in BOOLEAN
  /\ MaxInits \in Nat
  /\ None # <<>>

VARIABLES
  role,       \* what the process is
  apps,       \* the PsychicAppWorkers it has made
  conf,       \* what the callback init awaits has still to do; None without init
  cached,     \* the app in the cache, by its number, or 0
  registry    \* the app the singleton has connected with, or 0

appVars == <<role, apps, conf, cached, registry>>

NewApp ==
  [backgroundOptions       |-> None,
   testInvocation          |-> "automatic",
   bypassDeprecationChecks |-> FALSE,
   workerShutdown          |-> 0,        \* how many hooks
   complete                |-> FALSE]    \* the callback has returned

AppInit ==
  /\ role \in Roles
  /\ apps = <<>>
  /\ conf = None
  /\ cached = 0
  /\ registry = 0

-----------------------------------------------------------------------------
(* Options. *)

(* The providers default to those of BullMQ. *)
WithProviders(options) ==
  [options EXCEPT !.providers = IF @ = None THEN "bullmq" ELSE @]

Set(app, option, value) ==
  CASE option = "background"              -> [app EXCEPT !.backgroundOptions = WithProviders(value)]
    [] option = "testInvocation"          -> [app EXCEPT !.testInvocation = value]
    [] option = "bypassDeprecationChecks" -> [app EXCEPT !.bypassDeprecationChecks = value]

(* on("workers:shutdown", ...) *)
On(app) == [app EXCEPT !.workerShutdown = @ + 1]

Apply(app, setting) ==
  IF setting.option = "workers:shutdown" THEN On(app) ELSE Set(app, setting.option, setting.value)

(* The options the callbacks give. *)
BackgroundOptions == {WithProviders(s.value) : s \in {t \in Settings : t.option = "background"}}

Apps ==
  [backgroundOptions : BackgroundOptions \cup {None}, testInvocation : {"automatic", "manual"},
   bypassDeprecationChecks : BOOLEAN, workerShutdown : Nat, complete : BOOLEAN]

AppTypeOK ==
  /\ role \in Roles
  /\ apps \in Seq(Apps)
  /\ Len(apps) <= MaxInits
  /\ conf # None => conf \in Seq(Settings)
  /\ cached \in 0 .. Len(apps)
  /\ registry \in 0 .. Len(apps)

-----------------------------------------------------------------------------
(* init: up to the await of the callback, the callback, and the rest. *)

(* Mutant: the app is cached before the callback has configured it. *)
BeginInitCached(c) ==
  /\ conf = None
  /\ Len(apps) < MaxInits
  /\ apps' = Append(apps, NewApp)
  /\ cached' = Len(apps) + 1
  /\ conf' = c
  /\ UNCHANGED <<role, registry>>

BeginInit(c) ==
  /\ conf = None
  /\ Len(apps) < MaxInits
  /\ apps' = Append(apps, NewApp)
  /\ conf' = c
  /\ UNCHANGED <<role, cached, registry>>

CallbackSets ==
  /\ conf # None
  /\ conf # <<>>
  /\ apps' = [apps EXCEPT ![Len(apps)] = Apply(@, Head(conf))]
  /\ conf' = Tail(conf)
  /\ UNCHANGED <<role, cached, registry>>

(* init rejects: the app is forgotten, and the cache keeps what it has. *)
CallbackThrows ==
  /\ conf # None
  /\ conf' = None
  /\ apps' = [apps EXCEPT ![Len(apps)] = NewApp]
  /\ UNCHANGED <<role, cached, registry>>

(* The event handlers are registered, and the app is cached. *)
FinishInit ==
  /\ conf = <<>>
  /\ conf' = None
  /\ apps' = [apps EXCEPT ![Len(apps)].complete = TRUE]
  /\ cached' = Len(apps)
  /\ UNCHANGED <<role, registry>>

(* A test changes how the cached app invokes jobs. *)
TestSets(value) ==
  /\ role = "test"
  /\ cached # 0
  /\ apps' = [apps EXCEPT ![cached] = Set(@, "testInvocation", value)]
  /\ UNCHANGED <<role, conf, cached, registry>>

-----------------------------------------------------------------------------
(* connect() takes the options of the cached app, once: it throws while    *)
(* there is no app, or one without background options.                     *)

GetOrFail == cached # 0

CanConnect == registry # 0 \/ (GetOrFail /\ apps[cached].backgroundOptions # None)

Connected == IF registry # 0 THEN registry ELSE cached

(* server:init:after-routes, registered by init *)
AfterRoutes ==
  /\ role = "server"
  /\ cached # 0
  /\ CanConnect
  /\ registry' = Connected
  /\ UNCHANGED <<role, apps, conf, cached>>

(* The process is gone, and what replaces it begins anew. *)
RestartApp ==
  /\ apps' = <<>>
  /\ conf' = None
  /\ cached' = 0
  /\ registry' = 0
  /\ UNCHANGED role

AppStep ==
  \/ \E c \in Confs : BeginInit(c)
  \/ CallbackSets \/ CallbackThrows \/ FinishInit
  \/ \E value \in {"automatic", "manual"} : TestSets(value)
  \/ AfterRoutes

(***************************************************************************)
(* Nothing in the process ever works with an app whose callback has not    *)
(* returned: neither the queues the singleton has made nor what getOrFail  *)
(* answers, however calls, inits that fail and further inits overlap       *)
(* (init caches after the callback).                                       *)
(***************************************************************************)
NeverHalfConfigured ==
  /\ cached # 0 => apps[cached].complete
  /\ registry # 0 => apps[registry].complete /\ apps[registry].backgroundOptions # None

(* Inductive with it: the app init works on is the last, and not complete. *)
InitAtWork == conf # None => Len(apps) > 0 /\ ~apps[Len(apps)].complete

AppIInv == AppTypeOK /\ NeverHalfConfigured /\ InitAtWork
=============================================================================
