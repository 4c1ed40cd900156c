----------------------------- MODULE TransformPool -----------------------------
(***************************************************************************)
(* The worker-thread pool that runs transforms off the main thread         *)
(* (src/unplugin/pool.ts) and the worker at the other end of each message  *)
(* channel (src/unplugin/pool-worker.ts).                                  *)
(*                                                                         *)
(* The main thread runs one handler at a time.  drain(), which ends both   *)
(* of the pool's message handlers, is a loop, so it is modelled iteration  *)
(* by iteration under the flag `draining': while it is set the main thread *)
(* can do nothing but drain, and only the worker threads move.             *)
(*                                                                         *)
(* Ghost state, read by no action's guard and by no real assignment:       *)
(* stale, current, tainted.                                                *)
(***************************************************************************)
EXTENDS Integers, FiniteSets, SequencesExt

CONSTANTS
  Tasks,                  \* run() calls; the element stands for its `seq'
  NoTask,                 \* busy: null
  Workers,                \* identities of worker threads
  Size,                   \* this.size
  MaxConsecutiveFailures, \* MAX_CONSECUTIVE_FAILURES
  Modules,                \* first-party modules discovery may execute
  Needs,                  \* the modules a task's discovery executes
  TracksModules,          \* can this runtime enumerate its module cache?
  MaxInvalidations        \* bound: watch events in one behaviour

ASSUME TasksAssumption == NoTask \notin Tasks
ASSUME WorkersAssumption == IsFiniteSet(Workers)
ASSUME SizeAssumption == Size \in Nat \ {0}
ASSUME BreakerAssumption == MaxConsecutiveFailures \in Nat \ {0}
ASSUME NeedsAssumption == Needs \in [Tasks -> SUBSET Modules]
ASSUME TracksAssumption == TracksModules \in BOOLEAN
ASSUME InvalidationsAssumption == MaxInvalidations \in Nat

VARIABLES
  \* the main thread: the TransformPool object
  pool,           \* this.workers
  queue,          \* this.queue
  busy,           \* PoolWorker.busy
  inflight,       \* keys of this.inflight
  refd,           \* workers that are ref()'d: they hold the process open
  failures,       \* this.consecutiveFailures
  broken,         \* this.brokenPool
  disposed,       \* this.disposed
  draining,       \* the main thread is inside drain()
  executed,       \* this.executedModules
  untracked,      \* this.moduleTrackingUnavailable
  outcome,        \* the promise run() gave its caller
  invalidations,  \* calls of invalidate() so far
  \* the worker threads and the channels to them
  life,           \* "none", "live" or "dead"
  inbox,          \* requests posted to the worker and not yet handled
  outbox,         \* replies posted by the worker and not yet delivered
  events,         \* 'error' and 'exit' events Node still has to emit
  jobs,           \* transforms the worker is running
  touched,        \* modules each task's transform has executed or reused
  cache,          \* first-party modules in the worker's loader
  reported,       \* the worker's `reported' set
  \* ghosts
  stale,          \* cached modules evaluated before the last invalidate()
  current,        \* tasks sent to a worker since the last invalidate()
  tainted         \* tasks of `current' that were served a stale module

scheduler == <<pool, queue, busy, inflight, refd, failures, broken, disposed,
               draining, outcome>>
tracking  == <<executed, untracked, invalidations>>
channels  == <<life, inbox, outbox, events>>
loaders   == <<jobs, touched, cache, reported>>
ghosts    == <<stale, current, tainted>>
vars      == <<scheduler, tracking, channels, loaders, ghosts>>

-----------------------------------------------------------------------------
(* Messages. *)

TransformRequest(t) == [type |-> "transform", task |-> t]
InvalidateRequest   == [type |-> "invalidate", task |-> NoTask]
Requests == [type : {"transform"}, task : Tasks] \cup {InvalidateRequest}

(* newModulePaths is `delta', or null when `tracked' is FALSE. *)
ResultReply(t, delta) == [type |-> "result", task |-> t,
                          delta |-> delta, tracked |-> TracksModules]
ErrorReply(t)    == [type |-> "error", task |-> t, delta |-> {}, tracked |-> TRUE]
InvalidatedReply == [type |-> "invalidated", task |-> NoTask,
                     delta |-> {}, tracked |-> TRUE]
Replies == [type : {"result", "error"}, task : Tasks,
            delta : SUBSET Modules, tracked : BOOLEAN] \cup {InvalidatedReply}

Idle_ForgetsBusy == pool
Idle == {w \in pool : busy[w] = NoTask}

(* What run() looks at before it takes a task. *)
Refusing_NoBreaker == disposed
Refusing == disposed \/ broken

(* Who is told of an invalidation, and whom dispose() rejects. *)
Notified_IdleOnly == Idle
Notified == pool

Abandoned_QueueOnly == ToSet(queue)
Abandoned == ToSet(queue) \cup inflight

(* worker.postMessage: nothing reaches a thread that has ended, even if the  *)
(* pool has not heard of its end yet.                                        *)
Post(w, request) == IF life[w] = "live" THEN Append(inbox[w], request) ELSE inbox[w]

(* Node can start another thread under an identity once nothing of the last *)
(* one can still arrive.                                                    *)
Spawnable(w) == /\ w \notin pool
                /\ life[w] # "live"
                /\ events[w] = <<>>
                /\ outbox[w] = <<>>

(* worker.ref(), in send(). *)
Ref_Forgotten(w) == refd' = refd
Ref(w) == refd' = refd \cup {w}

-----------------------------------------------------------------------------

Init ==
  /\ pool = {} /\ queue = <<>> /\ inflight = {} /\ refd = {}
  /\ busy = [w \in Workers |-> NoTask]
  /\ failures = 0 /\ broken = FALSE /\ disposed = FALSE /\ draining = FALSE
  /\ outcome = [t \in Tasks |-> "idle"]
  /\ executed = {} /\ untracked = FALSE /\ invalidations = 0
  /\ life = [w \in Workers |-> "none"]
  /\ inbox = [w \in Workers |-> <<>>]
  /\ outbox = [w \in Workers |-> <<>>]
  /\ events = [w \in Workers |-> <<>>]
  /\ jobs = [w \in Workers |-> {}]
  /\ touched = [t \in Tasks |-> {}]
  /\ cache = [w \in Workers |-> {}]
  /\ reported = [w \in Workers |-> {}]
  /\ stale = [w \in Workers |-> {}]
  /\ current = {} /\ tainted = {}

-----------------------------------------------------------------------------
(* dispatch() and send(). Each says what becomes of the pool, the worker and *)
(* the channel; the caller says what becomes of queue, outcome and draining. *)

SendToIdle(t) ==
  \E w \in Idle :
    /\ busy' = [busy EXCEPT ![w] = t]
    /\ inflight' = inflight \cup {t}
    /\ Ref(w)
    /\ inbox' = [inbox EXCEPT ![w] = Post(w, TransformRequest(t))]
    /\ current' = current \cup {t}
    /\ UNCHANGED <<pool, life, outbox, events, loaders, stale>>

CanGrow == Idle = {} /\ Cardinality(pool) < Size

SendToNew(t) ==
  /\ CanGrow
  /\ \E w \in Workers :
       /\ Spawnable(w)
       /\ pool' = pool \cup {w}
       /\ busy' = [busy EXCEPT ![w] = t]
       /\ inflight' = inflight \cup {t}
       /\ Ref(w)
       /\ life' = [life EXCEPT ![w] = "live"]
       /\ inbox' = [inbox EXCEPT ![w] = <<TransformRequest(t)>>]
       /\ cache' = [cache EXCEPT ![w] = {}]
       /\ reported' = [reported EXCEPT ![w] = {}]
       /\ stale' = [stale EXCEPT ![w] = {}]
       /\ current' = current \cup {t}
       /\ UNCHANGED <<outbox, events, jobs, touched>>

(* new Worker() threw: the task is refused, and the breaker is not told. *)
SpawnFails ==
  /\ CanGrow
  /\ UNCHANGED <<pool, busy, inflight, refd, channels, loaders, stale, current>>

-----------------------------------------------------------------------------
(* The main thread: the pool's methods. *)

Run(t) ==
  /\ ~draining
  /\ outcome[t] = "idle"
  /\ \/ /\ Refusing
        /\ outcome' = [outcome EXCEPT ![t] = "unavailable"]
        /\ UNCHANGED <<pool, busy, inflight, refd, queue, channels, loaders,
                       stale, current>>
     \/ /\ ~Refusing
        /\ \/ /\ SendToIdle(t) \/ SendToNew(t)
              /\ outcome' = [outcome EXCEPT ![t] = "pending"]
              /\ UNCHANGED queue
           \/ /\ SpawnFails
              /\ outcome' = [outcome EXCEPT ![t] = "unavailable"]
              /\ UNCHANGED queue
           \/ /\ Idle = {} /\ Cardinality(pool) >= Size
              /\ outcome' = [outcome EXCEPT ![t] = "pending"]
              /\ queue' = Append(queue, t)
              /\ UNCHANGED <<pool, busy, inflight, refd, channels, loaders,
                             stale, current>>
  /\ UNCHANGED <<failures, broken, disposed, draining, tracking, tainted>>

Invalidate ==
  /\ ~draining /\ ~disposed
  /\ invalidations < MaxInvalidations
  /\ invalidations' = invalidations + 1
  /\ executed' = {}
  /\ untracked' = FALSE
  /\ inbox' = [w \in Workers |->
                 IF w \in Notified THEN Post(w, InvalidateRequest) ELSE inbox[w]]
  /\ stale' = cache /\ current' = {}
  /\ UNCHANGED <<scheduler, life, outbox, events, loaders, tainted>>

Dispose ==
  /\ ~draining /\ ~disposed
  /\ disposed' = TRUE
  /\ outcome' = [t \in Tasks |-> IF t \in Abandoned
                                 THEN "unavailable" ELSE outcome[t]]
  /\ queue' = <<>> /\ inflight' = {} /\ pool' = {}
  /\ UNCHANGED <<busy, refd, failures, broken, draining, tracking, channels,
                 loaders, ghosts>>

(* recordModulePaths *)
Record_NullAsPath(reply) ==
  /\ executed' = executed \cup (IF reply.tracked THEN reply.delta ELSE {NoTask})
  /\ UNCHANGED untracked
Record(reply) == IF reply.tracked
                 THEN executed' = executed \cup reply.delta /\ UNCHANGED untracked
                 ELSE untracked' = TRUE /\ UNCHANGED executed

OnMessage(w) ==
  /\ ~draining
  /\ outbox[w] # <<>>
  /\ outbox' = [outbox EXCEPT ![w] = Tail(@)]
  /\ LET reply == Head(outbox[w])
         t     == reply.task
         owns  == busy[w] = t
     IN \/ /\ reply.type = "invalidated"
           /\ UNCHANGED <<scheduler, tracking>>
        \/ /\ reply.type \in {"result", "error"}
           /\ inflight' = inflight \ {t}
           /\ busy' = IF owns THEN [busy EXCEPT ![w] = NoTask] ELSE busy
           /\ refd' = IF owns THEN refd \ {w} ELSE refd
           /\ \/ /\ reply.type = "result" /\ t \in inflight
                 /\ failures' = 0
                 /\ Record(reply)
                 /\ outcome' = [outcome EXCEPT ![t] = "resolved"]
              \/ /\ reply.type = "error" /\ t \in inflight
                 /\ outcome' = [outcome EXCEPT ![t] = "rejected"]
                 /\ UNCHANGED <<failures, executed, untracked>>
              \/ /\ t \notin inflight
                 /\ UNCHANGED <<failures, executed, untracked, outcome>>
           /\ draining' = TRUE
           /\ UNCHANGED <<pool, queue, broken, disposed, invalidations>>
  /\ UNCHANGED <<life, inbox, events, loaders, stale, current, tainted>>

(* 'error' may overtake replies already posted; 'exit' comes after them. *)
OnWorkerGone(w) ==
  /\ ~draining
  /\ events[w] # <<>>
  /\ Head(events[w]) = "exit" => outbox[w] = <<>>
  /\ events' = [events EXCEPT ![w] = Tail(@)]
  /\ \/ /\ w \notin pool
        /\ UNCHANGED scheduler
     \/ /\ w \in pool
        /\ pool' = pool \ {w}
        /\ failures' = failures + 1
        /\ broken' = (broken \/ failures' >= MaxConsecutiveFailures)
        /\ busy' = [busy EXCEPT ![w] = NoTask]
        /\ inflight' = inflight \ {busy[w]}
        /\ outcome' = IF busy[w] \in inflight
                      THEN [outcome EXCEPT ![busy[w]] = "unavailable"]
                      ELSE outcome
        /\ draining' = TRUE
        /\ UNCHANGED <<queue, refd, disposed>>
  /\ UNCHANGED <<tracking, life, inbox, outbox, loaders, ghosts>>

(* One iteration of drain(), or its end. *)
DrainBroken ==
  /\ broken
  /\ outcome' = [t \in Tasks |-> IF t \in ToSet(queue)
                                 THEN "unavailable" ELSE outcome[t]]
  /\ queue' = <<>>
  /\ draining' = FALSE
  /\ UNCHANGED <<pool, busy, inflight, refd, channels, loaders, stale, current>>

DrainEnds_NeverGrows ==
  /\ ~broken
  /\ queue = <<>> \/ Idle = {}
  /\ draining' = FALSE
  /\ UNCHANGED <<queue, outcome, pool, busy, inflight, refd, channels, loaders,
                 stale, current>>
DrainEnds ==
  /\ ~broken
  /\ queue = <<>> \/ (Idle = {} /\ Cardinality(pool) >= Size)
  /\ draining' = FALSE
  /\ UNCHANGED <<queue, outcome, pool, busy, inflight, refd, channels, loaders,
                 stale, current>>

DrainShift ==
  /\ ~broken
  /\ queue # <<>>
  /\ queue' = Tail(queue)
  /\ \/ /\ SendToIdle(Head(queue)) \/ SendToNew(Head(queue))
        /\ UNCHANGED outcome
     \/ /\ SpawnFails
        /\ outcome' = [outcome EXCEPT ![Head(queue)] = "unavailable"]
  /\ UNCHANGED draining

Drain == /\ draining
         /\ DrainBroken \/ DrainEnds \/ DrainShift
         /\ UNCHANGED <<failures, broken, disposed, tracking, tainted>>

-----------------------------------------------------------------------------
(* The worker threads. *)

(* port.on("message"): a transform starts ... *)
WorkerTransform(w) ==
  /\ life[w] = "live"
  /\ inbox[w] # <<>>
  /\ Head(inbox[w]).type = "transform"
  /\ inbox' = [inbox EXCEPT ![w] = Tail(@)]
  /\ jobs' = [jobs EXCEPT ![w] = @ \cup {Head(inbox[w]).task}]
  /\ UNCHANGED <<scheduler, tracking, life, outbox, events, touched, cache,
                 reported, ghosts>>

(* ... or the loader is invalidated, at any await of a transform under way. *)
WorkerInvalidate_KeepsReported(w) ==
  /\ life[w] = "live"
  /\ inbox[w] # <<>>
  /\ Head(inbox[w]).type = "invalidate"
  /\ inbox' = [inbox EXCEPT ![w] = Tail(@)]
  /\ cache' = [cache EXCEPT ![w] = {}]
  /\ stale' = [stale EXCEPT ![w] = {}]
  /\ outbox' = [outbox EXCEPT ![w] = Append(@, InvalidatedReply)]
  /\ UNCHANGED <<scheduler, tracking, life, events, jobs, touched, reported,
                 current, tainted>>
WorkerInvalidate(w) ==
  /\ life[w] = "live"
  /\ inbox[w] # <<>>
  /\ Head(inbox[w]).type = "invalidate"
  /\ inbox' = [inbox EXCEPT ![w] = Tail(@)]
  /\ cache' = [cache EXCEPT ![w] = {}]
  /\ reported' = [reported EXCEPT ![w] = {}]
  /\ stale' = [stale EXCEPT ![w] = {}]
  /\ outbox' = [outbox EXCEPT ![w] = Append(@, InvalidatedReply)]
  /\ UNCHANGED <<scheduler, tracking, life, events, jobs, touched,
                 current, tainted>>

(* Discovery reaches module m: it is executed, unless the loader has it. *)
WorkerLoad(w, t, m) ==
  /\ life[w] = "live"
  /\ t \in jobs[w]
  /\ m \in Needs[t] \ touched[t]
  /\ touched' = [touched EXCEPT ![t] = @ \cup {m}]
  /\ cache' = [cache EXCEPT ![w] = @ \cup {m}]
  /\ tainted' = IF m \in stale[w] /\ t \in current THEN tainted \cup {t} ELSE tainted
  /\ UNCHANGED <<scheduler, tracking, channels, jobs, reported, stale, current>>

(* handleTransform settles; only a result carries moduleDelta(). *)
WorkerFinish(w, t) ==
  /\ life[w] = "live"
  /\ t \in jobs[w]
  /\ jobs' = [jobs EXCEPT ![w] = @ \ {t}]
  /\ \/ /\ touched[t] = Needs[t]
        /\ LET delta == IF TracksModules THEN cache[w] \ reported[w] ELSE {}
           IN /\ outbox' = [outbox EXCEPT ![w] = Append(@, ResultReply(t, delta))]
              /\ reported' = [reported EXCEPT ![w] = @ \cup delta]
     \/ /\ outbox' = [outbox EXCEPT ![w] = Append(@, ErrorReply(t))]
        /\ UNCHANGED reported
  /\ UNCHANGED <<scheduler, tracking, life, inbox, events, touched, cache, ghosts>>

(* The thread ends: an uncaught error or an out-of-memory abort emits 'error' *)
(* and then 'exit', process.exit() or terminate() only 'exit'.                *)
Die(w) ==
  /\ life[w] = "live"
  /\ life' = [life EXCEPT ![w] = "dead"]
  /\ \E e \in {<<"exit">>, <<"error", "exit">>} : events' = [events EXCEPT ![w] = e]
  /\ inbox' = [inbox EXCEPT ![w] = <<>>]
  /\ jobs' = [jobs EXCEPT ![w] = {}]
  /\ UNCHANGED <<scheduler, tracking, outbox, touched, cache, reported, ghosts>>

WorkerStep(w) == \/ WorkerTransform(w)
                 \/ WorkerInvalidate(w)
                 \/ \E t \in Tasks, m \in Modules : WorkerLoad(w, t, m)
                 \/ \E t \in Tasks : WorkerFinish(w, t)

Next == \/ \E t \in Tasks : Run(t)
        \/ Invalidate
        \/ Dispose
        \/ Drain
        \/ \E w \in Workers : OnMessage(w) \/ OnWorkerGone(w)
                              \/ WorkerStep(w) \/ Die(w)

Spec == Init /\ [][Next]_vars

(* The main thread returns to its event loop and Node delivers what has been *)
(* posted; a worker handles its messages, and a transform comes to its end.  *)
Fairness == /\ WF_vars(Drain)
            /\ \A w \in Workers : /\ WF_vars(OnMessage(w))
                                  /\ WF_vars(OnWorkerGone(w))
                                  /\ WF_vars(WorkerStep(w))

FairSpec == Spec /\ Fairness

-----------------------------------------------------------------------------
(* Properties. *)

TypeOK ==
  /\ pool \subseteq Workers
  /\ queue \in Seq(Tasks)
  /\ busy \in [Workers -> Tasks \cup {NoTask}]
  /\ inflight \subseteq Tasks
  /\ refd \subseteq Workers
  /\ failures \in Nat
  /\ broken \in BOOLEAN /\ disposed \in BOOLEAN /\ draining \in BOOLEAN
  /\ outcome \in [Tasks -> {"idle", "pending", "resolved", "rejected", "unavailable"}]
  /\ executed \subseteq Modules
  /\ untracked \in BOOLEAN
  /\ invalidations \in 0 .. MaxInvalidations
  /\ life \in [Workers -> {"none", "live", "dead"}]
  /\ inbox \in [Workers -> Seq(Requests)]
  /\ outbox \in [Workers -> Seq(Replies)]
  /\ events \in [Workers -> Seq({"error", "exit"})]
  /\ jobs \in [Workers -> SUBSET Tasks]
  /\ touched \in [Tasks -> SUBSET Modules]
  /\ cache \in [Workers -> SUBSET Modules]
  /\ reported \in [Workers -> SUBSET Modules]
  /\ stale \in [Workers -> SUBSET Modules]
  /\ current \subseteq Tasks /\ tainted \subseteq Tasks

Pending == {t \in Tasks : outcome[t] = "pending"}

(* A call whose promise is open is owned exactly once: it waits in the queue  *)
(* or it is in flight, and then exactly one worker of the pool is busy with   *)
(* it. A double entry would settle somebody else's promise; a lost one would  *)
(* hang the bundler (inflight's comment: "so a worker exit can reject exactly *)
(* its own").                                                                 *)
PendingIsOwned ==
  /\ Pending = ToSet(queue) \cup inflight
  /\ ToSet(queue) \cap inflight = {}
  /\ IsInjective(queue)
  /\ inflight = {busy[w] : w \in pool} \ {NoTask}
  /\ \A v, w \in pool : busy[v] = busy[w] /\ busy[v] # NoTask => v = w

(* Between two handlers, a call waits only because every worker is taken and *)
(* the pool may not grow: no wakeup is lost by dispatch, onMessage,          *)
(* onWorkerGone or the breaker.                                              *)
NoIdleWhileQueued ==
  ~draining /\ queue # <<>> => /\ Idle = {}
                               /\ Cardinality(pool) = Size
                               /\ ~broken /\ ~disposed

(* The process is held open by a referenced worker thread exactly while a    *)
(* caller awaits a promise: neither may it exit under the caller, nor hang   *)
(* at the end of a build (send()'s comment on ref and unref).                *)
ProcessHeldIffPending ==
  ~draining => (Pending # {} <=> refd \cap pool # {})

(* A worker runs one transform at a time, on its own module graph: the header *)
(* of pool-worker.ts, which nothing in the worker enforces.                   *)
OneTransformPerWorker == \A w \in Workers : Cardinality(jobs[w]) <= 1

(* A task sent after a watch event never sees a module its worker executed    *)
(* before the event: channel order makes the worker drop its cache first.     *)
FreshAfterInvalidate == tainted = {}

(* firstPartyModulePaths() covers every module used by a task that was sent   *)
(* and resolved since the last invalidate(), or admits it cannot.             *)
CoveredIfSentSince ==
  \A t \in current : outcome[t] = "resolved" => untracked \/ touched[t] \subseteq executed

(* Once the breaker has tripped or the pool is disposed, no thread is started *)
(* and no task is sent; tasks already in flight may still be answered.        *)
NoWorkAfterBreaker ==
  [][broken \/ disposed => pool' \subseteq pool /\ inflight' \subseteq inflight]_vars

(* Every promise run() gives is settled, whatever workers die, provided that *)
(* transforms end.                                                           *)
EverySettles == \A t \in Tasks : outcome[t] = "pending" ~> outcome[t] # "pending"

-----------------------------------------------------------------------------
(* The pool implements the service its caller relies on. *)

Service == INSTANCE TransformService
             WITH stage <- IF disposed THEN "closed"
                           ELSE IF broken THEN "refusing" ELSE "serving"

ImplementsService == Service!Safety

=============================================================================
