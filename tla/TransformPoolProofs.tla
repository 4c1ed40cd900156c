--------------------------- MODULE TransformPoolProofs ---------------------------
(* Machine-checked proofs about TransformPool, for every set of calls, every *)
(* pool size and every breaker threshold.                                    *)
EXTENDS TransformPool, FiniteSetTheorems, TLAPS

-----------------------------------------------------------------------------
(* Sequences *)

(* What a FIFO channel yields and what it still holds are of its type. *)
LEMMA HeadTailType ==
  ASSUME NEW S, NEW s \in Seq(S), s # <<>>
  PROVE  Head(s) \in S /\ Tail(s) \in Seq(S)
BY SMT

(* What is posted to a channel is of the channel's type. *)
LEMMA AppendType ==
  ASSUME NEW S, NEW s \in Seq(S), NEW e \in S
  PROVE  Append(s, e) \in Seq(S)
BY SMT

(* Posting a request keeps a worker's inbox a channel of requests. *)
LEMMA PostType ==
  ASSUME TypeOK, NEW w \in Workers, NEW r \in Requests
  PROVE  Post(w, r) \in Seq(Requests)
BY AppendType DEF TypeOK, Post

(* The messages both sides build are messages of the protocol. *)
LEMMA MessageTypes ==
  /\ InvalidateRequest \in Requests
  /\ InvalidatedReply \in Replies
  /\ \A t \in Tasks : /\ TransformRequest(t) \in Requests
                      /\ ErrorReply(t) \in Replies
                      /\ \A d \in SUBSET Modules : ResultReply(t, d) \in Replies
BY TracksAssumption DEF Requests, Replies, InvalidateRequest, InvalidatedReply,
     TransformRequest, ErrorReply, ResultReply

-----------------------------------------------------------------------------
(* Type correctness *)

(* The part of TypeOK that dispatch() and send() can disturb. *)
DispatchType ==
  /\ pool \subseteq Workers
  /\ busy \in [Workers -> Tasks \cup {NoTask}]
  /\ inflight \subseteq Tasks
  /\ refd \subseteq Workers
  /\ life \in [Workers -> {"none", "live", "dead"}]
  /\ inbox \in [Workers -> Seq(Requests)]
  /\ outbox \in [Workers -> Seq(Replies)]
  /\ events \in [Workers -> Seq({"error", "exit"})]
  /\ jobs \in [Workers -> SUBSET Tasks]
  /\ touched \in [Tasks -> SUBSET Modules]
  /\ cache \in [Workers -> SUBSET Modules]
  /\ reported \in [Workers -> SUBSET Modules]
  /\ stale \in [Workers -> SUBSET Modules]
  /\ current \subseteq Tasks

(* Handing a task to an idle worker or to a new one keeps every type. *)
LEMMA DispatchKeepsType ==
  ASSUME TypeOK, NEW t \in Tasks, SendToIdle(t) \/ SendToNew(t) \/ SpawnFails
  PROVE  DispatchType'
<1>1. CASE SendToIdle(t)
  <2>1. PICK w \in Workers : /\ busy' = [busy EXCEPT ![w] = t]
                             /\ refd' = refd \cup {w}
                             /\ inbox' = [inbox EXCEPT ![w] = Post(w, TransformRequest(t))]
    BY <1>1 DEF SendToIdle, Ref, Idle, TypeOK
  <2>2. Post(w, TransformRequest(t)) \in Seq(Requests)
    BY PostType, MessageTypes
  <2> QED BY <1>1, <2>1, <2>2 DEF SendToIdle, DispatchType, TypeOK, loaders
<1>2. CASE SendToNew(t)
  <2>1. <<TransformRequest(t)>> \in Seq(Requests)
    BY MessageTypes
  <2> QED BY <1>2, <2>1 DEF SendToNew, Ref, DispatchType, TypeOK
<1>3. CASE SpawnFails
  BY <1>3 DEF SpawnFails, DispatchType, TypeOK, channels, loaders
<1> QED BY <1>1, <1>2, <1>3

(* run(): accepting, queueing or refusing a task keeps the types. *)
LEMMA RunType ==
  ASSUME TypeOK, NEW t \in Tasks, Run(t)
  PROVE  TypeOK'
<1>1. DispatchType'
  <2>1. CASE SendToIdle(t) \/ SendToNew(t) \/ SpawnFails
    BY <2>1, DispatchKeepsType
  <2>2. CASE UNCHANGED <<pool, busy, inflight, refd, channels, loaders, stale, current>>
    BY <2>2 DEF DispatchType, TypeOK, channels, loaders
  <2> QED BY <2>1, <2>2 DEF Run
<1>2. queue' \in Seq(Tasks)
  <2>1. Append(queue, t) \in Seq(Tasks)
    BY AppendType DEF TypeOK
  <2> QED BY <2>1 DEF Run, TypeOK
<1>3. outcome' \in [Tasks -> {"idle", "pending", "resolved", "rejected", "unavailable"}]
  BY DEF Run, TypeOK
<1> QED BY <1>1, <1>2, <1>3 DEF Run, DispatchType, TypeOK, tracking

(* drain(): an iteration, or its end, keeps the types. *)
LEMMA DrainType ==
  ASSUME TypeOK, Drain
  PROVE  TypeOK'
<1>1. CASE DrainBroken
  <2>1. queue' \in Seq(Tasks)
    BY <1>1 DEF DrainBroken
  <2> QED BY <1>1, <2>1 DEF Drain, DrainBroken, TypeOK, tracking, channels, loaders
<1>2. CASE DrainEnds
  BY <1>2 DEF Drain, DrainEnds, TypeOK, tracking, channels, loaders
<1>3. CASE DrainShift
  <2>1. Head(queue) \in Tasks /\ queue' \in Seq(Tasks)
    BY <1>3, HeadTailType DEF DrainShift, TypeOK
  <2>2. DispatchType'
    BY <1>3, <2>1, DispatchKeepsType DEF DrainShift
  <2> QED BY <1>3, <2>1, <2>2 DEF Drain, DrainShift, DispatchType, TypeOK, tracking
<1> QED BY <1>1, <1>2, <1>3 DEF Drain

(* onMessage(): a delivered reply keeps the types. *)
LEMMA OnMessageType ==
  ASSUME TypeOK, NEW w \in Workers, OnMessage(w)
  PROVE  TypeOK'
<1> DEFINE reply == Head(outbox[w])
<1>1. reply \in Replies /\ outbox' \in [Workers -> Seq(Replies)]
  <2>1. outbox[w] \in Seq(Replies) /\ outbox[w] # <<>>
    BY DEF TypeOK, OnMessage
  <2>2. Head(outbox[w]) \in Replies /\ Tail(outbox[w]) \in Seq(Replies)
    BY <2>1, HeadTailType
  <2> QED BY <2>2 DEF OnMessage, TypeOK
<1>2. CASE reply.type = "invalidated"
  BY <1>1, <1>2 DEF OnMessage, TypeOK, scheduler, tracking, loaders
<1>3. CASE reply.type \in {"result", "error"}
  <2>1. reply.task \in Tasks /\ reply.delta \subseteq Modules
    BY <1>1, <1>3 DEF Replies, InvalidatedReply
  <2>2. reply.type # "invalidated"
    BY <1>3
  <2> HIDE DEF reply
  <2>3. executed' \subseteq Modules /\ untracked' \in BOOLEAN
    BY <2>1, <2>2 DEF OnMessage, Record, TypeOK, reply, tracking
  <2>4. failures' \in Nat
    BY <2>1, <2>2 DEF OnMessage, TypeOK, reply
  <2>5. outcome' \in [Tasks -> {"idle", "pending", "resolved", "rejected", "unavailable"}]
    BY <2>1, <2>2 DEF OnMessage, TypeOK, reply
  <2> QED BY <1>1, <2>1, <2>2, <2>3, <2>4, <2>5 DEF OnMessage, TypeOK, reply, loaders
<1> QED BY <1>1, <1>2, <1>3 DEF OnMessage

(* onWorkerGone(): an error or exit event keeps the types. *)
LEMMA OnWorkerGoneType ==
  ASSUME TypeOK, NEW w \in Workers, OnWorkerGone(w)
  PROVE  TypeOK'
<1>1. events' \in [Workers -> Seq({"error", "exit"})]
  BY HeadTailType DEF OnWorkerGone, TypeOK
<1>2. CASE w \in pool
  <2>1. outcome' \in [Tasks -> {"idle", "pending", "resolved", "rejected", "unavailable"}]
    BY <1>2 DEF OnWorkerGone, TypeOK
  <2>2. busy' \in [Workers -> Tasks \cup {NoTask}] /\ inflight' \subseteq Tasks
    BY <1>2 DEF OnWorkerGone, TypeOK
  <2>3. failures' \in Nat
    BY <1>2 DEF OnWorkerGone, TypeOK
  <2>4. broken' \in BOOLEAN
    <3>1. broken' = (broken \/ failures' >= MaxConsecutiveFailures)
      BY <1>2 DEF OnWorkerGone
    <3> QED BY <3>1, Zenon
  <2> QED BY <1>1, <1>2, <2>1, <2>2, <2>3, <2>4
          DEF OnWorkerGone, TypeOK, tracking, loaders, ghosts
<1>3. CASE w \notin pool
  BY <1>1, <1>3 DEF OnWorkerGone, TypeOK, scheduler, tracking, loaders, ghosts
<1> QED BY <1>2, <1>3

(* invalidate(): the broadcast keeps the types. *)
LEMMA InvalidateType ==
  ASSUME TypeOK, Invalidate
  PROVE  TypeOK'
<1>1. inbox' \in [Workers -> Seq(Requests)]
  BY PostType, MessageTypes DEF Invalidate, TypeOK
<1>2. invalidations' \in 0 .. MaxInvalidations
  BY InvalidationsAssumption DEF Invalidate, TypeOK
<1> QED BY <1>1, <1>2 DEF Invalidate, TypeOK, scheduler, loaders

(* dispose() keeps the types. *)
LEMMA DisposeType ==
  ASSUME TypeOK, Dispose
  PROVE  TypeOK'
<1>1. queue' \in Seq(Tasks)
  BY DEF Dispose
<1> QED BY <1>1 DEF Dispose, TypeOK, tracking, channels, loaders, ghosts

(* Whatever a worker thread does keeps the types. *)
LEMMA WorkerType ==
  ASSUME TypeOK, NEW w \in Workers, WorkerStep(w) \/ Die(w)
  PROVE  TypeOK'
<1>1. CASE WorkerTransform(w)
  <2>1. Head(inbox[w]) \in Requests /\ Tail(inbox[w]) \in Seq(Requests)
    BY <1>1, HeadTailType DEF WorkerTransform, TypeOK
  <2>2. Head(inbox[w]).task \in Tasks
    BY <1>1, <2>1 DEF WorkerTransform, Requests, InvalidateRequest
  <2> QED BY <1>1, <2>1, <2>2 DEF WorkerTransform, TypeOK, scheduler, tracking, ghosts
<1>2. CASE WorkerInvalidate(w)
  <2>1. Tail(inbox[w]) \in Seq(Requests)
    BY <1>2, HeadTailType DEF WorkerInvalidate, TypeOK
  <2>2. Append(outbox[w], InvalidatedReply) \in Seq(Replies)
    BY AppendType, MessageTypes DEF TypeOK
  <2> QED BY <1>2, <2>1, <2>2 DEF WorkerInvalidate, TypeOK, scheduler, tracking
<1>3. ASSUME NEW t \in Tasks, NEW m \in Modules, WorkerLoad(w, t, m)
      PROVE  TypeOK'
  BY <1>3 DEF WorkerLoad, TypeOK, scheduler, tracking, channels
<1>4. ASSUME NEW t \in Tasks, WorkerFinish(w, t)
      PROVE  TypeOK'
  <2> DEFINE delta == IF TracksModules THEN cache[w] \ reported[w] ELSE {}
  <2>1. delta \in SUBSET Modules
    BY DEF TypeOK
  <2>2. PICK r \in Replies : outbox' = [outbox EXCEPT ![w] = Append(@, r)]
    <3>1. ResultReply(t, delta) \in Replies /\ ErrorReply(t) \in Replies
      BY <2>1, MessageTypes
    <3> QED BY <1>4, <3>1 DEF WorkerFinish
  <2>3. Append(outbox[w], r) \in Seq(Replies)
    BY AppendType DEF TypeOK
  <2>4. reported' \in [Workers -> SUBSET Modules]
    <3>1. PICK d \in SUBSET Modules : \/ reported' = [reported EXCEPT ![w] = @ \cup d]
                                      \/ reported' = reported
      BY <1>4, <2>1 DEF WorkerFinish
    <3>2. reported[w] \cup d \in SUBSET Modules
      BY DEF TypeOK
    <3> QED BY <3>1, <3>2 DEF TypeOK
  <2>5. outbox' \in [Workers -> Seq(Replies)]
    BY <2>2, <2>3 DEF TypeOK
  <2>6. jobs' \in [Workers -> SUBSET Tasks]
    BY <1>4 DEF WorkerFinish, TypeOK
  <2>7. UNCHANGED <<scheduler, tracking, life, inbox, events, touched, cache, ghosts>>
    BY <1>4 DEF WorkerFinish
  <2> QED BY <2>4, <2>5, <2>6, <2>7 DEF TypeOK, scheduler, tracking, ghosts
<1>5. CASE Die(w)
  <2>1. PICK e \in Seq({"error", "exit"}) : events' = [events EXCEPT ![w] = e]
    <3>1. <<"exit">> \in Seq({"error", "exit"}) /\ <<"error", "exit">> \in Seq({"error", "exit"})
      OBVIOUS
    <3> QED BY <1>5, <3>1 DEF Die
  <2>2. events' \in [Workers -> Seq({"error", "exit"})]
    BY <2>1 DEF TypeOK
  <2>3. inbox' \in [Workers -> Seq(Requests)]
    BY <1>5 DEF Die, TypeOK
  <2>4. /\ life' \in [Workers -> {"none", "live", "dead"}]
        /\ jobs' \in [Workers -> SUBSET Tasks]
    BY <1>5 DEF Die, TypeOK
  <2>5. UNCHANGED <<scheduler, tracking, outbox, touched, cache, reported, ghosts>>
    BY <1>5 DEF Die
  <2> QED BY <2>2, <2>3, <2>4, <2>5 DEF TypeOK, scheduler, tracking, ghosts
<1> QED BY <1>1, <1>2, <1>3, <1>4, <1>5 DEF WorkerStep

(* A pool just created has the right types. *)
LEMMA TypeInit == Init => TypeOK
<1> SUFFICES ASSUME Init PROVE TypeOK
  OBVIOUS
<1>1. /\ queue \in Seq(Tasks)
      /\ inbox \in [Workers -> Seq(Requests)]
      /\ outbox \in [Workers -> Seq(Replies)]
      /\ events \in [Workers -> Seq({"error", "exit"})]
  BY DEF Init
<1>2. /\ busy \in [Workers -> Tasks \cup {NoTask}]
      /\ outcome \in [Tasks -> {"idle", "pending", "resolved", "rejected", "unavailable"}]
      /\ life \in [Workers -> {"none", "live", "dead"}]
      /\ jobs \in [Workers -> SUBSET Tasks]
      /\ touched \in [Tasks -> SUBSET Modules]
      /\ cache \in [Workers -> SUBSET Modules]
      /\ reported \in [Workers -> SUBSET Modules]
      /\ stale \in [Workers -> SUBSET Modules]
  BY DEF Init
<1>3. invalidations \in 0 .. MaxInvalidations /\ failures \in Nat
  BY InvalidationsAssumption DEF Init
<1> QED BY <1>1, <1>2, <1>3 DEF Init, TypeOK

(* The type invariant is inductive. *)
LEMMA TypeStep == TypeOK /\ [Next]_vars => TypeOK'
<1> SUFFICES ASSUME TypeOK, [Next]_vars PROVE TypeOK'
  OBVIOUS
<1>1. CASE UNCHANGED vars
  BY <1>1 DEF TypeOK, vars, scheduler, tracking, channels, loaders, ghosts
<1>2. CASE Next
  BY <1>2, RunType, InvalidateType, DisposeType, DrainType, OnMessageType,
     OnWorkerGoneType, WorkerType DEF Next
<1> QED BY <1>1, <1>2

(* Every variable keeps its type, for every value of the constants. *)
THEOREM TypeCorrect == Spec => []TypeOK
BY TypeInit, TypeStep, PTL DEF Spec

-----------------------------------------------------------------------------
(* Ownership: a call is waiting in the queue, or in flight on one worker. *)

(* A task's trail at a worker: a request not yet handled, a transform under *)
(* way, or a reply not yet delivered.                                       *)
Trail(w, t) ==
  \/ t \in jobs[w]
  \/ \E i \in DOMAIN inbox[w] : inbox[w][i] = TransformRequest(t)
  \/ \E i \in DOMAIN outbox[w] : /\ outbox[w][i].type # "invalidated"
                                 /\ outbox[w][i].task = t

(* A task leaves a trail only at a worker it was sent to, and while it is in *)
(* flight that worker is busy with it. Without this, a reply that arrives    *)
(* late could take another worker's task out of flight.                      *)
TrailInv ==
  \A w \in Workers, t \in Tasks :
    Trail(w, t) => /\ outcome[t] # "idle"
                   /\ t \notin ToSet(queue)
                   /\ t \in inflight => w \in pool /\ busy[w] = t

OwnershipInv == TypeOK /\ PendingIsOwned /\ TrailInv

(* The elements of a queue after a push and after a shift. *)
LEMMA QueueAppend ==
  ASSUME NEW S, NEW q \in Seq(S), NEW e \in S
  PROVE  /\ ToSet(Append(q, e)) = ToSet(q) \cup {e}
         /\ IsInjective(q) /\ e \notin ToSet(q) => IsInjective(Append(q, e))
<1> DEFINE p == Append(q, e)
<1>1. /\ Len(q) \in Nat /\ DOMAIN q = 1 .. Len(q)
      /\ DOMAIN p = 1 .. (Len(q) + 1)
      /\ \A i \in 1 .. Len(q) : p[i] = q[i]
      /\ p[Len(q) + 1] = e
  OBVIOUS
<1> HIDE DEF p
<1>2. ToSet(p) = ToSet(q) \cup {e}
  <2>1. ToSet(p) \subseteq ToSet(q) \cup {e}
    BY <1>1 DEF ToSet
  <2>2. ToSet(q) \cup {e} \subseteq ToSet(p)
    BY <1>1 DEF ToSet
  <2> QED BY <2>1, <2>2
<1>3. IsInjective(q) /\ e \notin ToSet(q) => IsInjective(p)
  BY <1>1 DEF ToSet, IsInjective
<1> QED BY <1>2, <1>3 DEF p

(* What drain() leaves in the queue once it has shifted the head. *)
LEMMA QueueShift ==
  ASSUME NEW S, NEW q \in Seq(S), q # <<>>
  PROVE  /\ ToSet(q) = {Head(q)} \cup ToSet(Tail(q))
         /\ IsInjective(q) => /\ Head(q) \notin ToSet(Tail(q))
                              /\ IsInjective(Tail(q))
<1>1. /\ Len(q) \in Nat /\ Len(q) > 0 /\ DOMAIN q = 1 .. Len(q)
      /\ DOMAIN Tail(q) = 1 .. (Len(q) - 1)
      /\ \A i \in 1 .. (Len(q) - 1) : Tail(q)[i] = q[i + 1]
      /\ Head(q) = q[1]
  OBVIOUS
<1>2. ToSet(q) \subseteq {Head(q)} \cup ToSet(Tail(q))
  <2>1. \A i \in 1 .. Len(q) : i # 1 => i - 1 \in 1 .. (Len(q) - 1)
    BY <1>1
  <2>2. \A i \in 1 .. Len(q) : i # 1 => q[i] \in ToSet(Tail(q))
    <3> SUFFICES ASSUME NEW i \in 1 .. Len(q), i # 1
                 PROVE  \E j \in DOMAIN Tail(q) : q[i] = Tail(q)[j]
      BY DEF ToSet
    <3>1. i - 1 \in DOMAIN Tail(q) /\ q[i] = Tail(q)[i - 1]
      BY <1>1, <2>1
    <3> QED BY <3>1
  <2> QED BY <1>1, <2>2 DEF ToSet
<1>3. {Head(q)} \cup ToSet(Tail(q)) \subseteq ToSet(q)
  BY <1>1 DEF ToSet
<1>4. ASSUME IsInjective(q)
      PROVE  Head(q) \notin ToSet(Tail(q)) /\ IsInjective(Tail(q))
  BY <1>1, <1>4 DEF ToSet, IsInjective
<1> QED BY <1>2, <1>3, <1>4

(* A request posted to a worker lengthens only that task's trail there. *)
LEMMA PostTrail ==
  ASSUME TypeOK, NEW w \in Workers, NEW r \in Requests, NEW t \in Tasks,
         NEW i \in DOMAIN Post(w, r), Post(w, r)[i] = TransformRequest(t)
  PROVE  r = TransformRequest(t) \/ \E j \in DOMAIN inbox[w] : inbox[w][j] = TransformRequest(t)
<1>1. CASE life[w] = "live"
  <2>1. inbox[w] \in Seq(Requests)
    BY DEF TypeOK
  <2>2. Post(w, r) = Append(inbox[w], r)
    BY <1>1 DEF Post
  <2>3. /\ Len(inbox[w]) \in Nat /\ DOMAIN inbox[w] = 1 .. Len(inbox[w])
        /\ i \in 1 .. (Len(inbox[w]) + 1)
        /\ \A j \in 1 .. Len(inbox[w]) : Append(inbox[w], r)[j] = inbox[w][j]
        /\ Append(inbox[w], r)[Len(inbox[w]) + 1] = r
    BY <2>1, <2>2
  <2> QED BY <2>2, <2>3
<1>2. CASE life[w] # "live"
  BY <1>2 DEF Post
<1> QED BY <1>1, <1>2

(* What send() does, to an idle worker or to a new one: one worker that was *)
(* not busy is now busy with the task, and the only new trail is there.     *)
LEMMA SendEffect ==
  ASSUME TypeOK, NEW t \in Tasks, SendToIdle(t) \/ SendToNew(t)
  PROVE  \E w \in Workers :
           /\ w \in pool => busy[w] = NoTask
           /\ pool' = pool \cup {w}
           /\ busy' = [busy EXCEPT ![w] = t]
           /\ inflight' = inflight \cup {t}
           /\ \A v \in Workers, s \in Tasks :
                Trail(v, s)' => Trail(v, s) \/ (v = w /\ s = t)
<1>1. \A a, b \in Tasks : TransformRequest(a) = TransformRequest(b) => a = b
  BY DEF TransformRequest
<1>2. CASE SendToIdle(t)
  <2>1. PICK w \in Workers : /\ w \in pool /\ busy[w] = NoTask
                             /\ busy' = [busy EXCEPT ![w] = t]
                             /\ inbox' = [inbox EXCEPT ![w] = Post(w, TransformRequest(t))]
    BY <1>2 DEF SendToIdle, Idle, TypeOK
  <2>2. /\ inflight' = inflight \cup {t} /\ pool' = pool \cup {w}
        /\ jobs' = jobs /\ outbox' = outbox
    BY <1>2, <2>1 DEF SendToIdle, loaders
  <2>3. ASSUME NEW v \in Workers, NEW s \in Tasks, Trail(v, s)'
        PROVE  Trail(v, s) \/ (v = w /\ s = t)
    <3>1. CASE \E i \in DOMAIN inbox'[v] : inbox'[v][i] = TransformRequest(s)
      <4>1. CASE v = w
        <5>1. inbox'[v] = Post(w, TransformRequest(t))
          BY <2>1, <4>1 DEF TypeOK
        <5>2. TransformRequest(t) \in Requests
          BY MessageTypes
        <5> QED BY <1>1, <3>1, <4>1, <5>1, <5>2, PostTrail DEF Trail
      <4>2. CASE v # w
        BY <2>1, <3>1, <4>2 DEF Trail, TypeOK
      <4> QED BY <4>1, <4>2
    <3>2. CASE s \in jobs'[v] \/ \E i \in DOMAIN outbox'[v] :
                                   outbox'[v][i].type # "invalidated" /\ outbox'[v][i].task = s
      BY <2>2, <3>2 DEF Trail
    <3> QED BY <2>3, <3>1, <3>2 DEF Trail
  <2> QED BY <2>1, <2>2, <2>3
<1>3. CASE SendToNew(t)
  <2>1. PICK w \in Workers : /\ w \notin pool /\ pool' = pool \cup {w}
                             /\ busy' = [busy EXCEPT ![w] = t]
                             /\ inflight' = inflight \cup {t}
                             /\ inbox' = [inbox EXCEPT ![w] = <<TransformRequest(t)>>]
    BY <1>3 DEF SendToNew, Spawnable
  <2>2. jobs' = jobs /\ outbox' = outbox
    BY <1>3 DEF SendToNew
  <2>3. ASSUME NEW v \in Workers, NEW s \in Tasks, Trail(v, s)'
        PROVE  Trail(v, s) \/ (v = w /\ s = t)
    <3>1. inbox'[w] = <<TransformRequest(t)>> /\ (v # w => inbox'[v] = inbox[v])
      BY <2>1 DEF TypeOK
    <3>2. \A i \in DOMAIN inbox'[w] : inbox'[w][i] = TransformRequest(t)
      BY <3>1
    <3> QED BY <1>1, <2>2, <2>3, <3>1, <3>2 DEF Trail
  <2> QED BY <2>1, <2>2, <2>3
<1> QED BY <1>2, <1>3

(* After send(), ownership holds again, wherever the task came from: the call *)
(* itself (it was idle) or the head of the queue.                             *)
LEMMA SendOwned ==
  ASSUME OwnershipInv, NEW t \in Tasks, SendToIdle(t) \/ SendToNew(t),
         queue' \in Seq(Tasks), IsInjective(queue'),
         \/ /\ outcome[t] = "idle" /\ queue' = queue
            /\ outcome' = [outcome EXCEPT ![t] = "pending"]
         \/ /\ t \in ToSet(queue) /\ ToSet(queue') = ToSet(queue) \ {t}
            /\ outcome' = outcome
  PROVE  PendingIsOwned' /\ TrailInv'
<1>1. PICK w \in Workers :
           /\ w \in pool => busy[w] = NoTask
           /\ pool' = pool \cup {w}
           /\ busy' = [busy EXCEPT ![w] = t]
           /\ inflight' = inflight \cup {t}
           /\ \A v \in Workers, s \in Tasks :
                Trail(v, s)' => Trail(v, s) \/ (v = w /\ s = t)
  BY SendEffect DEF OwnershipInv
<1>2. /\ TypeOK /\ PendingIsOwned /\ TrailInv /\ t # NoTask
      /\ pool \subseteq Workers /\ DOMAIN busy = Workers
  BY TasksAssumption DEF OwnershipInv, TypeOK
<1>3. /\ t \notin inflight /\ outcome'[t] = "pending" /\ t \notin ToSet(queue')
      /\ \A v \in Workers : ~Trail(v, t)
  BY <1>2 DEF PendingIsOwned, TrailInv, Pending, TypeOK
<1>4. \A v \in pool' : busy'[v] = IF v = w THEN t ELSE busy[v]
  BY <1>1, <1>2
<1>5. Pending' = Pending \cup {t}
  BY <1>3 DEF Pending, TypeOK, OwnershipInv
<1>6. Pending' = ToSet(queue)' \cup inflight' /\ ToSet(queue)' \cap inflight' = {}
  BY <1>1, <1>2, <1>3, <1>5 DEF PendingIsOwned
<1>7. inflight' = {busy'[v] : v \in pool'} \ {NoTask}
  <2>1. \A s \in inflight : \E v \in pool : busy[v] = s /\ s # NoTask
    BY <1>2 DEF PendingIsOwned
  <2>2. \A v \in pool : busy[v] # NoTask => busy[v] \in inflight
    BY <1>2 DEF PendingIsOwned
  <2>3. inflight' \subseteq {busy'[v] : v \in pool'} \ {NoTask}
    BY <1>1, <1>2, <1>4, <2>1
  <2>4. {busy'[v] : v \in pool'} \ {NoTask} \subseteq inflight'
    BY <1>1, <1>2, <1>4, <2>2
  <2> QED BY <2>3, <2>4
<1>8. \A u, v \in pool' : busy'[u] = busy'[v] /\ busy'[u] # NoTask => u = v
  <2>1. \A v \in pool : busy[v] # t
    BY <1>2, <1>3 DEF PendingIsOwned
  <2> QED BY <1>1, <1>2, <1>4, <2>1 DEF PendingIsOwned
<1>9. PendingIsOwned'
  BY <1>6, <1>7, <1>8 DEF PendingIsOwned
<1>10. TrailInv'
  <2> SUFFICES ASSUME NEW v \in Workers, NEW s \in Tasks, Trail(v, s)'
               PROVE  /\ outcome'[s] # "idle" /\ s \notin ToSet(queue')
                      /\ s \in inflight' => v \in pool' /\ busy'[v] = s
    BY DEF TrailInv
  <2>1. CASE v = w /\ s = t
    BY <1>1, <1>2, <1>3, <2>1
  <2>2. CASE Trail(v, s)
    <3>1. s # t
      BY <1>3, <2>2
    <3>2. outcome'[s] # "idle" /\ s \notin ToSet(queue')
      BY <1>2, <2>2, <3>1 DEF TrailInv, TypeOK
    <3>3. s \in inflight' => v \in pool /\ busy[v] = s /\ v # w
      BY <1>1, <1>2, <2>2, <3>1, TasksAssumption DEF TrailInv
    <3> QED BY <1>1, <1>4, <3>2, <3>3
  <2> QED BY <1>1, <2>1, <2>2
<1> QED BY <1>9, <1>10


(* Steps that leave the main thread's books alone and lengthen no trail. *)
LEMMA QuietStepOwned ==
  ASSUME OwnershipInv, UNCHANGED <<pool, queue, busy, inflight, outcome>>,
         \A v \in Workers, s \in Tasks : Trail(v, s)' => Trail(v, s)
  PROVE  PendingIsOwned' /\ TrailInv'
<1>1. PendingIsOwned'
  BY DEF OwnershipInv, PendingIsOwned, Pending
<1>2. TrailInv'
  BY DEF OwnershipInv, TrailInv
<1> QED BY <1>1, <1>2

(* run() gives the call to one owner: the queue or one worker. *)
LEMMA RunOwned ==
  ASSUME OwnershipInv, NEW t \in Tasks, Run(t)
  PROVE  PendingIsOwned' /\ TrailInv'
<1> USE DEF OwnershipInv
<1>1. outcome[t] = "idle" /\ t \notin Pending
  BY DEF Run, Pending
<1>2. CASE /\ outcome' = [outcome EXCEPT ![t] = "unavailable"]
           /\ UNCHANGED <<pool, busy, inflight, queue, channels, loaders>>
  <2>1. Pending' = Pending
    BY <1>1, <1>2 DEF Pending, TypeOK
  <2>2. \A v \in Workers, s \in Tasks : Trail(v, s)' => Trail(v, s)
    BY <1>2 DEF Trail, channels, loaders
  <2>3. PendingIsOwned'
    BY <1>2, <2>1 DEF PendingIsOwned
  <2>4. TrailInv'
    BY <1>2, <2>2 DEF TrailInv, TypeOK
  <2> QED BY <2>3, <2>4
<1>3. CASE /\ SendToIdle(t) \/ SendToNew(t)
           /\ outcome' = [outcome EXCEPT ![t] = "pending"] /\ queue' = queue
  BY <1>1, <1>3, SendOwned DEF TypeOK, PendingIsOwned
<1>4. CASE /\ outcome' = [outcome EXCEPT ![t] = "pending"]
           /\ queue' = Append(queue, t)
           /\ UNCHANGED <<pool, busy, inflight, channels, loaders>>
  <2>1. /\ Pending' = Pending \cup {t} /\ t \notin ToSet(queue) /\ t \notin inflight
    BY <1>1, <1>4 DEF Pending, PendingIsOwned, TypeOK
  <2>2. ToSet(queue') = ToSet(queue) \cup {t} /\ IsInjective(queue')
    BY <1>4, <2>1, QueueAppend DEF PendingIsOwned, TypeOK
  <2>3. PendingIsOwned'
    BY <1>4, <2>1, <2>2 DEF PendingIsOwned
  <2>4. \A v \in Workers, s \in Tasks : Trail(v, s)' => Trail(v, s)
    BY <1>4 DEF Trail, channels, loaders
  <2>5. TrailInv'
    BY <1>1, <1>4, <2>2, <2>4 DEF TrailInv, TypeOK
  <2> QED BY <2>3, <2>5
<1> QED BY <1>2, <1>3, <1>4 DEF Run, SpawnFails

(* drain() moves a call from the queue to one worker, or settles it. *)
LEMMA DrainOwned ==
  ASSUME OwnershipInv, Drain
  PROVE  PendingIsOwned' /\ TrailInv'
<1> USE DEF OwnershipInv
<1>1. CASE DrainBroken
  <2>1. /\ ToSet(queue') = {} /\ IsInjective(queue')
        /\ UNCHANGED <<pool, busy, inflight>>
    BY <1>1 DEF DrainBroken, ToSet, IsInjective
  <2>2. Pending' = Pending \ ToSet(queue)
    BY <1>1 DEF DrainBroken, Pending, TypeOK
  <2>3. PendingIsOwned'
    BY <2>1, <2>2 DEF PendingIsOwned
  <2>4. \A v \in Workers, s \in Tasks : Trail(v, s)' => Trail(v, s)
    BY <1>1 DEF DrainBroken, Trail, channels, loaders
  <2>5. \A s \in Tasks : outcome[s] # "idle" => outcome'[s] # "idle"
    BY <1>1 DEF DrainBroken, TypeOK
  <2>6. TrailInv'
    BY <2>1, <2>4, <2>5 DEF TrailInv
  <2> QED BY <2>3, <2>6
<1>2. CASE DrainEnds
  <2>1. \A v \in Workers, s \in Tasks : Trail(v, s)' => Trail(v, s)
    BY <1>2 DEF DrainEnds, Trail, channels, loaders
  <2> QED BY <1>2, <2>1, QuietStepOwned DEF DrainEnds
<1>3. CASE DrainShift
  <2> DEFINE t == Head(queue)
  <2>1. /\ queue \in Seq(Tasks) /\ queue # <<>> /\ IsInjective(queue) /\ queue' = Tail(queue)
    BY <1>3 DEF DrainShift, TypeOK, PendingIsOwned
  <2>2. t \in Tasks /\ queue' \in Seq(Tasks)
    BY <2>1, HeadTailType
  <2>3. /\ t \in ToSet(queue) /\ ToSet(queue') = ToSet(queue) \ {t} /\ IsInjective(queue')
    BY <2>1, QueueShift
  <2> HIDE DEF t
  <2>4. CASE (SendToIdle(t) \/ SendToNew(t)) /\ outcome' = outcome
    BY <2>2, <2>3, <2>4, SendOwned
  <2>5. CASE SpawnFails /\ outcome' = [outcome EXCEPT ![t] = "unavailable"]
    <3>1. Pending' = Pending \ {t}
      BY <2>2, <2>5 DEF Pending, TypeOK
    <3>2. UNCHANGED <<pool, busy, inflight>>
      BY <2>5 DEF SpawnFails
    <3>3. PendingIsOwned'
      BY <2>3, <3>1, <3>2 DEF PendingIsOwned
    <3>4. \A v \in Workers, s \in Tasks : Trail(v, s)' => Trail(v, s)
      BY <2>5 DEF SpawnFails, Trail, channels, loaders
    <3>5. \A s \in Tasks : outcome[s] # "idle" => outcome'[s] # "idle"
      BY <2>2, <2>5 DEF TypeOK
    <3>6. TrailInv'
      BY <2>3, <3>2, <3>4, <3>5 DEF TrailInv
    <3> QED BY <3>3, <3>6
  <2> QED BY <1>3, <2>4, <2>5 DEF DrainShift, t
<1> QED BY <1>1, <1>2, <1>3 DEF Drain


(* The books after a worker gives task t back: nothing else is disturbed. *)
LEMMA ReleaseOwned ==
  ASSUME OwnershipInv, NEW w \in Workers, NEW t \in Tasks \cup {NoTask},
         w \in pool, busy[w] = t,
         queue' = queue, busy' = [busy EXCEPT ![w] = NoTask],
         pool' = pool \/ pool' = pool \ {w},
         inflight' = inflight \ {t},
         Pending' = Pending \ {t}
  PROVE  PendingIsOwned'
<1>1. PendingIsOwned /\ TypeOK
  BY DEF OwnershipInv
<1>2. t \notin ToSet(queue)
  BY <1>1, TasksAssumption DEF PendingIsOwned, Pending
<1>3. Pending' = ToSet(queue)' \cup inflight' /\ ToSet(queue)' \cap inflight' = {}
  BY <1>1, <1>2 DEF PendingIsOwned
<1>4. \A v \in pool : busy'[v] = IF v = w THEN NoTask ELSE busy[v]
  BY <1>1 DEF TypeOK
<1>5. inflight' = {busy'[v] : v \in pool'} \ {NoTask}
  <2>1. \A s \in inflight : \E v \in pool : busy[v] = s /\ s # NoTask
    BY <1>1 DEF PendingIsOwned
  <2>2. \A v \in pool : busy[v] # NoTask => busy[v] \in inflight
    BY <1>1 DEF PendingIsOwned
  <2>3. \A v \in pool : busy[v] = t /\ t # NoTask => v = w
    BY <1>1 DEF PendingIsOwned
  <2>4. ASSUME NEW s \in inflight'
        PROVE  s \in {busy'[v] : v \in pool'} \ {NoTask}
    <3>1. PICK v \in pool : busy[v] = s /\ s # NoTask
      BY <2>1
    <3>2. v # w
      BY <3>1
    <3> QED BY <1>4, <3>1, <3>2
  <2>5. ASSUME NEW v \in pool', busy'[v] # NoTask
        PROVE  busy'[v] \in inflight'
    BY <1>4, <2>2, <2>3, <2>5
  <2> QED BY <2>4, <2>5
<1>6. \A u, v \in pool' : busy'[u] = busy'[v] /\ busy'[u] # NoTask => u = v
  BY <1>1, <1>4 DEF PendingIsOwned
<1> QED BY <1>1, <1>3, <1>5, <1>6 DEF PendingIsOwned

(* A delivered reply shortens its worker's trail. *)
LEMMA DeliverTrail ==
  ASSUME TypeOK, NEW w \in Workers, outbox[w] # <<>>,
         outbox' = [outbox EXCEPT ![w] = Tail(@)], UNCHANGED <<inbox, jobs>>
  PROVE  \A v \in Workers, s \in Tasks : Trail(v, s)' => Trail(v, s)
<1>1. outbox[w] \in Seq(Replies)
  BY DEF TypeOK
<1>2. \A i \in DOMAIN Tail(outbox[w]) : /\ i + 1 \in DOMAIN outbox[w]
                                        /\ Tail(outbox[w])[i] = outbox[w][i + 1]
  BY <1>1
<1>3. outbox'[w] = Tail(outbox[w]) /\ \A v \in Workers : v # w => outbox'[v] = outbox[v]
  BY DEF TypeOK
<1> QED BY <1>2, <1>3 DEF Trail

(* onMessage() takes the call from the worker that answered it. *)
LEMMA OnMessageOwned ==
  ASSUME OwnershipInv, NEW w \in Workers, OnMessage(w)
  PROVE  PendingIsOwned' /\ TrailInv'
<1> USE DEF OwnershipInv
<1> DEFINE reply == Head(outbox[w])
           t     == reply.task
<1>1. \A v \in Workers, s \in Tasks : Trail(v, s)' => Trail(v, s)
  BY DeliverTrail DEF OnMessage, loaders
<1>2. CASE reply.type = "invalidated"
  BY <1>1, <1>2, QuietStepOwned DEF OnMessage, scheduler
<1>3. CASE reply.type \in {"result", "error"}
  <2>1. outbox[w] \in Seq(Replies) /\ outbox[w] # <<>> /\ reply.type # "invalidated"
    BY <1>3 DEF TypeOK, OnMessage
  <2>2. reply \in Replies /\ 1 \in DOMAIN outbox[w] /\ outbox[w][1] = reply
    BY <2>1, HeadTailType
  <2>3. t \in Tasks /\ t # NoTask
    BY <2>1, <2>2, TasksAssumption DEF Replies, InvalidatedReply
  <2>4. Trail(w, t)
    BY <2>1, <2>2 DEF Trail
  <2> HIDE DEF t
  <2>5. /\ pool' = pool /\ queue' = queue /\ inflight' = inflight \ {t}
        /\ busy' = IF busy[w] = t THEN [busy EXCEPT ![w] = NoTask] ELSE busy
    BY <2>1 DEF OnMessage, t
  <2>6. \/ /\ t \in inflight
           /\ \E o \in {"resolved", "rejected"} : outcome' = [outcome EXCEPT ![t] = o]
        \/ t \notin inflight /\ outcome' = outcome
    BY <2>1 DEF OnMessage, t
  <2>7. \A s \in Tasks : outcome[s] # "idle" => outcome'[s] # "idle"
    BY <2>3, <2>6 DEF TypeOK
  <2>8. CASE t \in inflight
    <3>1. w \in pool /\ busy[w] = t
      BY <2>3, <2>4, <2>8 DEF TrailInv
    <3>2. Pending' = Pending \ {t}
      BY <2>3, <2>6, <2>8 DEF Pending, TypeOK
    <3>3. PendingIsOwned'
      BY <2>3, <2>5, <3>1, <3>2, ReleaseOwned
    <3>4. TrailInv'
      BY <1>1, <2>5, <2>7, <3>1 DEF TrailInv, TypeOK
    <3> QED BY <3>3, <3>4
  <2>9. CASE t \notin inflight
    <3>1. w \in pool => busy[w] # t
      BY <2>3, <2>9 DEF PendingIsOwned
    <3>2. \A v \in pool : busy'[v] = busy[v]
      BY <2>5, <3>1 DEF TypeOK
    <3>3. inflight' = inflight /\ Pending' = Pending
      BY <2>5, <2>6, <2>9 DEF Pending
    <3>4. {busy'[v] : v \in pool'} = {busy[v] : v \in pool}
      BY <2>5, <3>2
    <3>5. PendingIsOwned'
      BY <2>5, <3>2, <3>3, <3>4 DEF PendingIsOwned
    <3>6. TrailInv'
      BY <1>1, <2>5, <2>7, <3>2, <3>3 DEF TrailInv
    <3> QED BY <3>5, <3>6
  <2> QED BY <2>8, <2>9
<1> QED BY <1>2, <1>3 DEF OnMessage

(* onWorkerGone() settles the call of the worker that died, and no other. *)
LEMMA OnWorkerGoneOwned ==
  ASSUME OwnershipInv, NEW w \in Workers, OnWorkerGone(w)
  PROVE  PendingIsOwned' /\ TrailInv'
<1> USE DEF OwnershipInv
<1>1. \A v \in Workers, s \in Tasks : Trail(v, s)' => Trail(v, s)
  BY DEF OnWorkerGone, Trail, loaders
<1>2. CASE w \notin pool
  BY <1>1, <1>2, QuietStepOwned DEF OnWorkerGone, scheduler
<1>3. CASE w \in pool
  <2> DEFINE t == busy[w]
  <2>1. /\ pool' = pool \ {w} /\ queue' = queue /\ inflight' = inflight \ {t}
        /\ busy' = [busy EXCEPT ![w] = NoTask]
        /\ outcome' = IF t \in inflight THEN [outcome EXCEPT ![t] = "unavailable"]
                                        ELSE outcome
    BY <1>3 DEF OnWorkerGone
  <2>2. t \in Tasks \cup {NoTask} /\ (t \in inflight <=> t # NoTask)
    BY <1>3, TasksAssumption DEF TypeOK, PendingIsOwned
  <2>3. NoTask \notin Pending
    BY TasksAssumption DEF Pending
  <2>4. Pending' = Pending \ {t}
    <3> HIDE DEF t
    <3>1. CASE t = NoTask
      BY <2>1, <2>2, <2>3, <3>1 DEF Pending
    <3>2. CASE t # NoTask
      BY <2>1, <2>2, <3>2 DEF Pending, TypeOK
    <3> QED BY <3>1, <3>2
  <2>5. PendingIsOwned'
    BY <1>3, <2>1, <2>2, <2>4, ReleaseOwned
  <2>6. \A s \in Tasks : outcome[s] # "idle" => outcome'[s] # "idle"
    BY <2>1, <2>2 DEF TypeOK
  <2>7. TrailInv'
    <3> SUFFICES ASSUME NEW v \in Workers, NEW s \in Tasks, Trail(v, s)'
                 PROVE  /\ outcome'[s] # "idle" /\ s \notin ToSet(queue')
                        /\ s \in inflight' => v \in pool' /\ busy'[v] = s
      BY DEF TrailInv
    <3>1. /\ outcome[s] # "idle" /\ s \notin ToSet(queue)
          /\ s \in inflight => v \in pool /\ busy[v] = s
      BY <1>1 DEF TrailInv
    <3> QED BY <2>1, <2>6, <3>1 DEF TypeOK
  <2> QED BY <2>5, <2>7
<1> QED BY <1>2, <1>3


(* dispose() settles every call, and nobody owns any. *)
LEMMA DisposeOwned ==
  ASSUME OwnershipInv, Dispose
  PROVE  PendingIsOwned' /\ TrailInv'
<1> USE DEF OwnershipInv
<1>1. \A v \in Workers, s \in Tasks : Trail(v, s)' => Trail(v, s)
  BY DEF Dispose, Trail, channels, loaders
<1>2. \A t \in Tasks : outcome'[t] = IF t \in Pending THEN "unavailable" ELSE outcome[t]
  BY DEF Dispose, Abandoned, PendingIsOwned
<1>3. Pending' = {}
  BY <1>2 DEF Pending
<1>4. /\ ToSet(queue') = {} /\ inflight' = {} /\ pool' = {} /\ IsInjective(queue')
  BY DEF Dispose, ToSet, IsInjective
<1>5. PendingIsOwned'
  BY <1>3, <1>4 DEF PendingIsOwned
<1>6. TrailInv'
  BY <1>1, <1>2, <1>4 DEF TrailInv
<1> QED BY <1>5, <1>6

(* invalidate() posts to every worker and touches no call. *)
LEMMA InvalidateOwned ==
  ASSUME OwnershipInv, Invalidate
  PROVE  PendingIsOwned' /\ TrailInv'
<1> USE DEF OwnershipInv
<1>1. \A t \in Tasks : InvalidateRequest # TransformRequest(t)
  BY DEF InvalidateRequest, TransformRequest
<1>2. ASSUME NEW v \in Workers, NEW s \in Tasks, Trail(v, s)'
      PROVE  Trail(v, s)
  <2>1. jobs' = jobs /\ outbox' = outbox
    BY DEF Invalidate, loaders
  <2>2. inbox'[v] = Post(v, InvalidateRequest) \/ inbox'[v] = inbox[v]
    BY DEF Invalidate
  <2>3. InvalidateRequest \in Requests
    BY MessageTypes
  <2>4. CASE \E i \in DOMAIN inbox'[v] : inbox'[v][i] = TransformRequest(s)
    BY <1>1, <2>2, <2>3, <2>4, PostTrail DEF Trail
  <2> QED BY <1>2, <2>1, <2>4 DEF Trail
<1> QED BY <1>2, QuietStepOwned DEF Invalidate, scheduler

(* A worker moves a task along its trail, and never duplicates it. *)
LEMMA WorkerTrail ==
  ASSUME TypeOK, NEW w \in Workers, WorkerStep(w) \/ Die(w)
  PROVE  \A v \in Workers, s \in Tasks : Trail(v, s)' => Trail(v, s)
<1> SUFFICES ASSUME NEW v \in Workers, NEW s \in Tasks, Trail(v, s)'
             PROVE  Trail(v, s)
  OBVIOUS
<1>1. /\ inbox[w] \in Seq(Requests) /\ outbox[w] \in Seq(Replies)
      /\ DOMAIN inbox = Workers /\ DOMAIN outbox = Workers /\ DOMAIN jobs = Workers
  BY DEF TypeOK
<1>2. inbox[w] # <<>> => \A i \in DOMAIN Tail(inbox[w]) :
        i + 1 \in DOMAIN inbox[w] /\ Tail(inbox[w])[i] = inbox[w][i + 1]
  BY <1>1
<1>3. \A r : \A i \in DOMAIN Append(outbox[w], r) :
        \/ i \in DOMAIN outbox[w] /\ Append(outbox[w], r)[i] = outbox[w][i]
        \/ Append(outbox[w], r)[i] = r
  BY <1>1
<1>4. CASE WorkerTransform(w)
  <2>1. /\ outbox' = outbox /\ inbox[w] # <<>>
        /\ inbox' = [inbox EXCEPT ![w] = Tail(@)]
        /\ jobs' = [jobs EXCEPT ![w] = @ \cup {Head(inbox[w]).task}]
        /\ Head(inbox[w]).type = "transform"
    BY <1>4 DEF WorkerTransform
  <2>2. /\ 1 \in DOMAIN inbox[w] /\ Head(inbox[w]) = inbox[w][1]
        /\ Head(inbox[w]) \in Requests
    BY <1>1, <2>1, HeadTailType
  <2>3. inbox[w][1] = TransformRequest(Head(inbox[w]).task)
    BY <2>1, <2>2 DEF Requests, InvalidateRequest, TransformRequest
  <2>4. s \in jobs'[v] => Trail(v, s)
    BY <1>1, <2>1, <2>2, <2>3 DEF Trail
  <2>5. \A i \in DOMAIN inbox'[v] : inbox'[v][i] = TransformRequest(s) => Trail(v, s)
    BY <1>1, <1>2, <2>1 DEF Trail
  <2> QED BY <2>1, <2>4, <2>5 DEF Trail
<1>5. CASE WorkerInvalidate(w)
  <2>1. /\ jobs' = jobs /\ inbox[w] # <<>>
        /\ inbox' = [inbox EXCEPT ![w] = Tail(@)]
        /\ outbox' = [outbox EXCEPT ![w] = Append(@, InvalidatedReply)]
    BY <1>5 DEF WorkerInvalidate
  <2>2. InvalidatedReply.type = "invalidated"
    BY DEF InvalidatedReply
  <2>3. \A i \in DOMAIN inbox'[v] : inbox'[v][i] = TransformRequest(s) => Trail(v, s)
    BY <1>1, <1>2, <2>1 DEF Trail
  <2>4. \A i \in DOMAIN outbox'[v] :
          outbox'[v][i].type # "invalidated" /\ outbox'[v][i].task = s => Trail(v, s)
    BY <1>1, <1>3, <2>1, <2>2 DEF Trail
  <2> QED BY <2>1, <2>3, <2>4 DEF Trail
<1>6. CASE \E t \in Tasks, m \in Modules : WorkerLoad(w, t, m)
  BY <1>6 DEF WorkerLoad, Trail, channels
<1>7. CASE \E t \in Tasks : WorkerFinish(w, t)
  <2>1. PICK t \in Tasks : WorkerFinish(w, t)
    BY <1>7
  <2>2. PICK r : /\ outbox' = [outbox EXCEPT ![w] = Append(@, r)]
                 /\ r.task = t
    BY <2>1 DEF WorkerFinish, ResultReply, ErrorReply
  <2>3. /\ t \in jobs[w] /\ inbox' = inbox
        /\ jobs' = [jobs EXCEPT ![w] = @ \ {t}]
    BY <2>1 DEF WorkerFinish
  <2>4. \A i \in DOMAIN outbox'[v] :
          outbox'[v][i].type # "invalidated" /\ outbox'[v][i].task = s => Trail(v, s)
    BY <1>1, <1>3, <2>2, <2>3 DEF Trail
  <2> QED BY <1>1, <2>3, <2>4 DEF Trail
<1>8. CASE Die(w)
  <2>1. /\ outbox' = outbox
        /\ inbox' = [inbox EXCEPT ![w] = <<>>]
        /\ jobs' = [jobs EXCEPT ![w] = {}]
    BY <1>8 DEF Die
  <2> QED BY <1>1, <2>1 DEF Trail
<1> QED BY <1>4, <1>5, <1>6, <1>7, <1>8 DEF WorkerStep

(* What a worker does takes no call from anyone. *)
LEMMA WorkerOwned ==
  ASSUME OwnershipInv, NEW w \in Workers, WorkerStep(w) \/ Die(w)
  PROVE  PendingIsOwned' /\ TrailInv'
<1>1. UNCHANGED <<pool, queue, busy, inflight, outcome>>
  BY DEF WorkerStep, WorkerTransform, WorkerInvalidate, WorkerLoad, WorkerFinish,
     Die, scheduler
<1>2. \A v \in Workers, s \in Tasks : Trail(v, s)' => Trail(v, s)
  BY WorkerTrail DEF OwnershipInv
<1> QED BY <1>1, <1>2, QuietStepOwned

(* The ownership invariant is inductive. *)
LEMMA OwnershipStep == OwnershipInv /\ [Next]_vars => OwnershipInv'
<1> SUFFICES ASSUME OwnershipInv, [Next]_vars PROVE OwnershipInv'
  OBVIOUS
<1>1. TypeOK'
  BY TypeStep DEF OwnershipInv
<1>2. CASE UNCHANGED vars
  <2>1. \A v \in Workers, s \in Tasks : Trail(v, s)' => Trail(v, s)
    BY <1>2 DEF Trail, vars, channels, loaders
  <2> QED BY <1>1, <1>2, <2>1, QuietStepOwned DEF OwnershipInv, vars, scheduler
<1>3. CASE Next
  <2>1. PendingIsOwned' /\ TrailInv'
    BY <1>3, RunOwned, InvalidateOwned, DisposeOwned, DrainOwned, OnMessageOwned,
       OnWorkerGoneOwned, WorkerOwned DEF Next
  <2> QED BY <1>1, <2>1 DEF OwnershipInv
<1> QED BY <1>2, <1>3

(* A pool just created owes nothing. *)
LEMMA OwnershipInit == Init => OwnershipInv
<1> SUFFICES ASSUME Init PROVE OwnershipInv
  OBVIOUS
<1>1. TypeOK
  BY TypeInit
<1>2. PendingIsOwned
  BY DEF Init, PendingIsOwned, Pending, ToSet, IsInjective
<1>3. TrailInv
  BY DEF Init, TrailInv, Trail
<1> QED BY <1>1, <1>2, <1>3 DEF OwnershipInv

(* Every promise run() has given and not settled is owned exactly once: by a  *)
(* place in the queue or by one busy worker of the pool.                      *)
THEOREM OwnershipCorrect == Spec => []PendingIsOwned
<1>1. OwnershipInv => PendingIsOwned
  BY DEF OwnershipInv
<1> QED BY <1>1, OwnershipInit, OwnershipStep, PTL DEF Spec


-----------------------------------------------------------------------------
(* Scheduling: no call waits beside an idle worker, and the process is held *)
(* open exactly while it must be.                                           *)

RefdIffBusy == \A w \in pool : w \in refd <=> busy[w] # NoTask

SchedulingInv ==
  /\ OwnershipInv
  /\ Cardinality(pool) <= Size
  /\ disposed => queue = <<>> /\ pool = {}
  /\ NoIdleWhileQueued
  /\ RefdIffBusy

(* Cardinalities of the pool are numbers. *)
LEMMA PoolFinite ==
  ASSUME TypeOK
  PROVE  IsFiniteSet(pool) /\ Cardinality(pool) \in Nat
BY WorkersAssumption, FS_Subset, FS_CardinalityType DEF TypeOK

(* send() keeps the pool within its size and references the worker it uses. *)
LEMMA SendScheduled ==
  ASSUME SchedulingInv, NEW t \in Tasks, SendToIdle(t) \/ SendToNew(t)
  PROVE  Cardinality(pool') <= Size /\ RefdIffBusy'
<1>1. TypeOK /\ t # NoTask
  BY TasksAssumption DEF SchedulingInv, OwnershipInv
<1>2. CASE SendToIdle(t)
  <2>1. PICK w \in Idle : /\ busy' = [busy EXCEPT ![w] = t]
                          /\ refd' = refd \cup {w} /\ pool' = pool
    BY <1>2 DEF SendToIdle, Ref
  <2>2. \A v \in pool : busy'[v] = IF v = w THEN t ELSE busy[v]
    BY <1>1, <2>1 DEF TypeOK
  <2> QED BY <1>1, <2>1, <2>2 DEF SchedulingInv, RefdIffBusy
<1>3. CASE SendToNew(t)
  <2>1. PICK w \in Workers : /\ busy' = [busy EXCEPT ![w] = t]
                             /\ refd' = refd \cup {w}
                             /\ w \notin pool /\ pool' = pool \cup {w}
    BY <1>3 DEF SendToNew, Ref, Spawnable
  <2>2. Cardinality(pool) < Size /\ IsFiniteSet(pool) /\ Cardinality(pool) \in Nat
    BY <1>1, <1>3, PoolFinite DEF SendToNew, CanGrow
  <2>3. Cardinality(pool') = Cardinality(pool) + 1
    BY <2>1, <2>2, FS_AddElement
  <2>4. \A v \in pool' : busy'[v] = IF v = w THEN t ELSE busy[v]
    BY <1>1, <2>1 DEF TypeOK
  <2>5. RefdIffBusy'
    BY <1>1, <2>1, <2>4 DEF SchedulingInv, RefdIffBusy
  <2> QED BY <2>2, <2>3, <2>5, SizeAssumption
<1> QED BY <1>2, <1>3

(* run() queues a call only when no worker is idle and none can be added. *)
LEMMA RunScheduled ==
  ASSUME SchedulingInv, NEW t \in Tasks, Run(t)
  PROVE  SchedulingInv'
<1>1. OwnershipInv'
  <2>1. Next
    BY DEF Next
  <2> QED BY <2>1, OwnershipStep DEF SchedulingInv
<1>2. TypeOK /\ Cardinality(pool) \in Nat /\ ~draining /\ UNCHANGED <<draining, disposed, broken>>
  BY PoolFinite DEF SchedulingInv, OwnershipInv, Run
<1>3. CASE /\ SendToIdle(t) \/ SendToNew(t) \/ SpawnFails
           /\ queue' = queue /\ ~Refusing
  <2>1. queue = <<>>
    <3>1. Idle # {} \/ Cardinality(pool) < Size
      BY <1>3 DEF SendToIdle, SendToNew, SpawnFails, CanGrow
    <3> QED BY <1>2, <3>1, SizeAssumption DEF SchedulingInv, NoIdleWhileQueued
  <2>2. NoIdleWhileQueued'
    BY <1>3, <2>1 DEF NoIdleWhileQueued
  <2>3. Cardinality(pool') <= Size /\ RefdIffBusy'
    <3>1. CASE SpawnFails
      BY <3>1 DEF SpawnFails, SchedulingInv, RefdIffBusy
    <3> QED BY <1>3, <3>1, SendScheduled
  <2> QED BY <1>1, <1>2, <1>3, <2>1, <2>2, <2>3 DEF SchedulingInv, Refusing
<1>4. CASE UNCHANGED <<pool, busy, refd, queue>>
  BY <1>1, <1>2, <1>4 DEF SchedulingInv, NoIdleWhileQueued, RefdIffBusy, Idle
<1>5. CASE /\ Idle = {} /\ Cardinality(pool) >= Size /\ ~Refusing
           /\ UNCHANGED <<pool, busy, refd>>
  <2>1. Cardinality(pool) = Size
    BY <1>2, <1>5, SizeAssumption DEF SchedulingInv
  <2>2. NoIdleWhileQueued'
    BY <1>2, <1>5, <2>1 DEF NoIdleWhileQueued, Idle, Refusing
  <2> QED BY <1>1, <1>2, <1>5, <2>2 DEF SchedulingInv, RefdIffBusy, Refusing
<1> QED BY <1>3, <1>4, <1>5 DEF Run

(* drain() ends only when the queue is empty or nothing can take its head. *)
LEMMA DrainScheduled ==
  ASSUME SchedulingInv, Drain
  PROVE  SchedulingInv'
<1>1. OwnershipInv'
  <2>1. Next
    BY DEF Next
  <2> QED BY <2>1, OwnershipStep DEF SchedulingInv
<1>2. TypeOK /\ Cardinality(pool) \in Nat /\ draining /\ UNCHANGED <<disposed, broken>>
  BY PoolFinite DEF SchedulingInv, OwnershipInv, Drain
<1>3. CASE DrainBroken
  BY <1>1, <1>2, <1>3 DEF DrainBroken, SchedulingInv, NoIdleWhileQueued, RefdIffBusy
<1>4. CASE DrainEnds
  <2>1. queue # <<>> => Idle = {} /\ Cardinality(pool) = Size /\ ~disposed /\ ~broken
    BY <1>2, <1>4, SizeAssumption DEF DrainEnds, SchedulingInv
  <2> QED BY <1>1, <1>2, <1>4, <2>1
          DEF DrainEnds, SchedulingInv, NoIdleWhileQueued, RefdIffBusy, Idle
<1>5. CASE DrainShift
  <2>1. Head(queue) \in Tasks /\ queue # <<>>
    BY <1>2, <1>5, HeadTailType DEF DrainShift, TypeOK
  <2>2. ~disposed /\ draining'
    BY <1>2, <1>5, <2>1 DEF DrainShift, SchedulingInv
  <2>3. Cardinality(pool') <= Size /\ RefdIffBusy'
    <3>1. CASE SpawnFails
      BY <3>1 DEF SpawnFails, SchedulingInv, RefdIffBusy
    <3> QED BY <1>5, <2>1, <3>1, SendScheduled DEF DrainShift
  <2> QED BY <1>1, <1>2, <2>2, <2>3 DEF SchedulingInv, NoIdleWhileQueued
<1> QED BY <1>3, <1>4, <1>5 DEF Drain

(* onMessage() leaves the freed worker to the drain() it ends with. *)
LEMMA OnMessageScheduled ==
  ASSUME SchedulingInv, NEW w \in Workers, OnMessage(w)
  PROVE  SchedulingInv'
<1>1. OwnershipInv'
  <2>1. Next
    BY DEF Next
  <2> QED BY <2>1, OwnershipStep DEF SchedulingInv
<1>2. TypeOK
  BY DEF SchedulingInv, OwnershipInv
<1>3. CASE UNCHANGED scheduler
  BY <1>1, <1>3 DEF SchedulingInv, NoIdleWhileQueued, RefdIffBusy, Idle, scheduler
<1>4. CASE /\ draining' = TRUE /\ UNCHANGED <<pool, queue, disposed>>
           /\ \/ UNCHANGED <<busy, refd>>
              \/ busy' = [busy EXCEPT ![w] = NoTask] /\ refd' = refd \ {w}
  <2>1. RefdIffBusy'
    BY <1>2, <1>4 DEF SchedulingInv, RefdIffBusy, TypeOK
  <2> QED BY <1>1, <1>4, <2>1 DEF SchedulingInv, NoIdleWhileQueued
<1> QED BY <1>3, <1>4 DEF OnMessage

(* onWorkerGone() leaves the freed place to the drain() it ends with. *)
LEMMA OnWorkerGoneScheduled ==
  ASSUME SchedulingInv, NEW w \in Workers, OnWorkerGone(w)
  PROVE  SchedulingInv'
<1>1. OwnershipInv'
  <2>1. Next
    BY DEF Next
  <2> QED BY <2>1, OwnershipStep DEF SchedulingInv
<1>2. TypeOK /\ IsFiniteSet(pool) /\ Cardinality(pool) \in Nat
  BY PoolFinite DEF SchedulingInv, OwnershipInv
<1>3. CASE w \notin pool
  BY <1>1, <1>3 DEF OnWorkerGone, SchedulingInv, NoIdleWhileQueued, RefdIffBusy, Idle,
     scheduler
<1>4. CASE w \in pool
  <2>1. Cardinality(pool') <= Size
    <3>1. Cardinality(pool \ {w}) = Cardinality(pool) - 1
      BY <1>2, <1>4, FS_RemoveElement
    <3>2. pool' = pool \ {w} /\ Cardinality(pool) <= Size
      BY <1>4 DEF OnWorkerGone, SchedulingInv
    <3> QED BY <1>2, <3>1, <3>2, SizeAssumption
  <2>2. RefdIffBusy'
    BY <1>2, <1>4 DEF OnWorkerGone, SchedulingInv, RefdIffBusy, TypeOK
  <2> QED BY <1>1, <1>4, <2>1, <2>2 DEF OnWorkerGone, SchedulingInv, NoIdleWhileQueued
<1> QED BY <1>3, <1>4

(* The scheduling invariant is inductive. *)
LEMMA SchedulingStep == SchedulingInv /\ [Next]_vars => SchedulingInv'
<1> SUFFICES ASSUME SchedulingInv, [Next]_vars PROVE SchedulingInv'
  OBVIOUS
<1>1. OwnershipInv'
  BY OwnershipStep DEF SchedulingInv
<1>2. CASE UNCHANGED scheduler
  BY <1>1, <1>2 DEF SchedulingInv, NoIdleWhileQueued, RefdIffBusy, Idle, scheduler
<1>3. CASE Dispose
  <2>1. Cardinality(pool') = 0
    BY <1>3, FS_EmptySet DEF Dispose
  <2> QED BY <1>1, <1>3, <2>1, SizeAssumption
          DEF Dispose, SchedulingInv, NoIdleWhileQueued, RefdIffBusy
<1>4. ASSUME Next, ~Dispose, ~UNCHANGED scheduler
      PROVE  SchedulingInv'
  <2>1. ~Invalidate
    BY <1>4 DEF Invalidate
  <2>2. \A w \in Workers : ~WorkerStep(w) /\ ~Die(w)
    BY <1>4 DEF WorkerStep, WorkerTransform, WorkerInvalidate, WorkerLoad, WorkerFinish, Die
  <2> QED BY <1>4, <2>1, <2>2, RunScheduled, DrainScheduled, OnMessageScheduled,
             OnWorkerGoneScheduled DEF Next
<1> QED BY <1>2, <1>3, <1>4 DEF vars

(* A pool just created has no queue and holds no process. *)
LEMMA SchedulingInit == Init => SchedulingInv
<1> SUFFICES ASSUME Init PROVE SchedulingInv
  OBVIOUS
<1>1. Cardinality(pool) = 0
  BY FS_EmptySet DEF Init
<1> QED BY <1>1, OwnershipInit, SizeAssumption
        DEF Init, SchedulingInv, NoIdleWhileQueued, RefdIffBusy

(* No wakeup is lost: between two handlers a call waits in the queue only if *)
(* every worker is taken and the pool has its full size.                     *)
THEOREM NoLostWakeup == Spec => []NoIdleWhileQueued
<1>1. SchedulingInv => NoIdleWhileQueued
  BY DEF SchedulingInv
<1> QED BY <1>1, SchedulingInit, SchedulingStep, PTL DEF Spec

(* Between two handlers the pool holds the process open exactly while some  *)
(* caller awaits a promise.                                                 *)
THEOREM ProcessHeldCorrect == Spec => []ProcessHeldIffPending
<1>1. SchedulingInv => ProcessHeldIffPending
  <2> SUFFICES ASSUME SchedulingInv, ~draining
               PROVE  Pending # {} <=> refd \cap pool # {}
    BY DEF ProcessHeldIffPending
  <2>1. TypeOK /\ PendingIsOwned /\ RefdIffBusy /\ NoIdleWhileQueued
    BY DEF SchedulingInv, OwnershipInv
  <2>2. inflight # {} => refd \cap pool # {}
    BY <2>1 DEF PendingIsOwned, RefdIffBusy
  <2>3. queue # <<>> => refd \cap pool # {}
    <3> SUFFICES ASSUME queue # <<>> PROVE refd \cap pool # {}
      OBVIOUS
    <3>1. Idle = {} /\ Cardinality(pool) = Size
      BY <2>1 DEF NoIdleWhileQueued
    <3>2. pool # {}
      BY <3>1, SizeAssumption, FS_EmptySet
    <3> QED BY <2>1, <3>1, <3>2 DEF RefdIffBusy, Idle
  <2>4. queue = <<>> => ToSet(queue) = {}
    BY DEF ToSet
  <2>5. refd \cap pool # {} => inflight # {}
    BY <2>1 DEF PendingIsOwned, RefdIffBusy
  <2> QED BY <2>1, <2>2, <2>3, <2>4, <2>5 DEF PendingIsOwned
<1> QED BY <1>1, SchedulingInit, SchedulingStep, PTL DEF Spec

(* A pool whose breaker has tripped, or that is disposed, starts no thread  *)
(* and sends no task.                                                       *)
THEOREM BreakerCorrect == Spec => NoWorkAfterBreaker
<1>1. SchedulingInv /\ [Next]_vars =>
        (broken \/ disposed => pool' \subseteq pool /\ inflight' \subseteq inflight)
  <2> SUFFICES ASSUME SchedulingInv, [Next]_vars, broken \/ disposed
               PROVE  pool' \subseteq pool /\ inflight' \subseteq inflight
    OBVIOUS
  <2>1. CASE UNCHANGED scheduler
    BY <2>1 DEF scheduler
  <2>2. ASSUME NEW t \in Tasks, Run(t)
        PROVE  pool' = pool /\ inflight' = inflight
    BY <2>2 DEF Run, Refusing
  <2>3. CASE Drain
    BY <2>3 DEF Drain, DrainBroken, DrainEnds, DrainShift, SchedulingInv
  <2>4. CASE Dispose
    BY <2>4 DEF Dispose
  <2>5. ASSUME NEW w \in Workers, OnMessage(w) \/ OnWorkerGone(w)
        PROVE  pool' \subseteq pool /\ inflight' \subseteq inflight
    BY <2>5 DEF OnMessage, OnWorkerGone, scheduler
  <2>6. Invalidate => UNCHANGED scheduler
    BY DEF Invalidate
  <2>7. \A w \in Workers : WorkerStep(w) \/ Die(w) => UNCHANGED scheduler
    BY DEF WorkerStep, WorkerTransform, WorkerInvalidate, WorkerLoad, WorkerFinish, Die
  <2> QED BY <2>1, <2>2, <2>3, <2>4, <2>5, <2>6, <2>7 DEF Next, vars
<1> QED BY <1>1, SchedulingInit, SchedulingStep, PTL DEF Spec, NoWorkAfterBreaker


-----------------------------------------------------------------------------
(* Refinement: the pool implements TransformService. *)

stageBar == IF disposed THEN "closed" ELSE IF broken THEN "refusing" ELSE "serving"

(* Every step of the pool is a step of the service or leaves it unchanged.  *)
LEMMA ServiceStep ==
  ASSUME SchedulingInv, [Next]_vars
  PROVE  Service!Next \/ UNCHANGED <<outcome, stageBar>>
<1> USE DEF stageBar
<1>1. TypeOK /\ PendingIsOwned /\ Pending = Service!Pending
  BY DEF SchedulingInv, OwnershipInv, Pending, Service!Pending
<1>2. ASSUME NEW t \in Tasks, Run(t)
      PROVE  Service!Next
  <2>1. outcome[t] = "idle" /\ UNCHANGED stageBar
    BY <1>2 DEF Run
  <2>2. CASE outcome' = [outcome EXCEPT ![t] = "unavailable"]
    <3>1. Service!Settle({t}, "unavailable")
      BY <1>1, <2>2 DEF Service!Settle, TypeOK
    <3> QED BY <2>1, <3>1 DEF Service!Next, Service!Call
  <2>3. CASE outcome' = [outcome EXCEPT ![t] = "pending"] /\ ~Refusing
    <3>1. Service!Settle({t}, "pending")
      BY <1>1, <2>3 DEF Service!Settle, TypeOK
    <3>2. stageBar = "serving"
      BY <2>3 DEF Refusing
    <3> QED BY <2>1, <3>1, <3>2 DEF Service!Next, Service!Call
  <2> QED BY <1>2, <2>2, <2>3 DEF Run
<1>3. CASE Dispose
  <2>1. Service!Settle(Service!Pending, "unavailable")
    BY <1>1, <1>3 DEF Dispose, Abandoned, PendingIsOwned, Service!Settle
  <2> QED BY <1>3, <2>1 DEF Dispose, Service!Next, Service!Close
<1>4. ASSUME ~disposed, UNCHANGED <<broken, disposed>> \/ (broken' = TRUE /\ disposed' = disposed),
             NEW S \in SUBSET Pending,
             outcome' = [t \in Tasks |-> IF t \in S THEN "unavailable" ELSE outcome[t]]
      PROVE  Service!Next
  <2>1. stageBar # "closed" /\ stageBar' \in {stageBar, "refusing"}
    BY <1>4
  <2>2. Service!Settle(S, "unavailable")
    BY <1>4 DEF Service!Settle
  <2>3. Service!GiveUp
    BY <1>1, <2>1, <2>2 DEF Service!GiveUp
  <2> QED BY <2>3 DEF Service!Next
<1>5. CASE Drain
  <2>1. UNCHANGED <<broken, disposed>>
    BY <1>5 DEF Drain
  <2>2. CASE outcome' = outcome
    BY <2>1, <2>2
  <2>3. CASE outcome' # outcome
    <3>1. queue # <<>> /\ ~disposed
      <4>1. outcome' # [t \in Tasks |-> outcome[t]]
        BY <1>1, <2>3 DEF TypeOK
      <4>2. queue = <<>> => ToSet(queue) = {}
        BY DEF ToSet
      <4>3. queue # <<>>
        BY <1>5, <2>3, <4>1, <4>2 DEF Drain, DrainBroken, DrainEnds, DrainShift
      <4> QED BY <4>3 DEF SchedulingInv
    <3>2. Head(queue) \in ToSet(queue) /\ Head(queue) \in Tasks
      BY <1>1, <3>1, QueueShift, HeadTailType DEF TypeOK
    <3>3. \E S \in SUBSET Pending :
            outcome' = [t \in Tasks |-> IF t \in S THEN "unavailable" ELSE outcome[t]]
      <4>1. CASE DrainBroken
        <5>1. ToSet(queue) \subseteq Pending
          BY <1>1 DEF PendingIsOwned
        <5> QED BY <4>1, <5>1 DEF DrainBroken
      <4>2. CASE outcome' = [outcome EXCEPT ![Head(queue)] = "unavailable"]
        <5>1. {Head(queue)} \subseteq Pending
          BY <1>1, <3>2 DEF PendingIsOwned
        <5>2. outcome' = [t \in Tasks |-> IF t \in {Head(queue)} THEN "unavailable"
                                                                ELSE outcome[t]]
          BY <1>1, <3>2, <4>2 DEF TypeOK
        <5> QED BY <5>1, <5>2
      <4> QED BY <1>5, <2>3, <4>1, <4>2 DEF Drain, DrainEnds, DrainShift
    <3> QED BY <1>4, <2>1, <3>1, <3>3
  <2> QED BY <2>2, <2>3
<1>6. ASSUME NEW w \in Workers, OnMessage(w)
      PROVE  Service!Next \/ UNCHANGED <<outcome, stageBar>>
  <2>1. UNCHANGED <<broken, disposed>>
    BY <1>6 DEF OnMessage, scheduler
  <2>2. CASE outcome' = outcome
    BY <2>1, <2>2
  <2>3. CASE outcome' # outcome
    <3>1. PICK t \in inflight, o \in {"resolved", "rejected"} :
             outcome' = [outcome EXCEPT ![t] = o]
      BY <1>6, <2>3 DEF OnMessage, scheduler
    <3>2. ~disposed
      BY <1>1, <3>1 DEF SchedulingInv, PendingIsOwned
    <3>3. t \in Tasks /\ outcome[t] = "pending"
      BY <1>1, <3>1 DEF TypeOK, PendingIsOwned, Pending
    <3>4. Service!Settle({t}, o)
      BY <1>1, <3>1, <3>3 DEF Service!Settle, TypeOK
    <3> QED BY <2>1, <3>2, <3>3, <3>4 DEF Service!Next, Service!Answer
  <2> QED BY <2>2, <2>3
<1>7. ASSUME NEW w \in Workers, OnWorkerGone(w)
      PROVE  Service!Next \/ UNCHANGED <<outcome, stageBar>>
  <2>1. CASE UNCHANGED scheduler
    BY <2>1 DEF scheduler
  <2>2. CASE w \in pool
    <3>1. ~disposed /\ disposed' = disposed /\ broken' \in {broken, TRUE}
      BY <1>1, <1>7, <2>2 DEF SchedulingInv, OnWorkerGone, TypeOK
    <3>2. PICK S \in SUBSET Pending :
            outcome' = [t \in Tasks |-> IF t \in S THEN "unavailable" ELSE outcome[t]]
      <4>1. CASE busy[w] \in inflight
        <5>1. {busy[w]} \subseteq Pending /\ busy[w] \in Tasks
          BY <1>1, <4>1 DEF PendingIsOwned, TypeOK
        <5>2. outcome' = [t \in Tasks |-> IF t \in {busy[w]} THEN "unavailable"
                                                            ELSE outcome[t]]
          BY <1>1, <1>7, <2>2, <4>1, <5>1 DEF OnWorkerGone, TypeOK
        <5> QED BY <5>1, <5>2
      <4>2. CASE busy[w] \notin inflight
        <5>1. outcome' = [t \in Tasks |-> outcome[t]]
          BY <1>1, <1>7, <2>2, <4>2 DEF OnWorkerGone, TypeOK
        <5>2. {} \in SUBSET Pending
          OBVIOUS
        <5> QED BY <5>1, <5>2
      <4> QED BY <4>1, <4>2
    <3> QED BY <1>4, <3>1, <3>2
  <2> QED BY <1>7, <2>1, <2>2 DEF OnWorkerGone
<1>8. CASE UNCHANGED scheduler
  BY <1>8 DEF scheduler
<1>9. Invalidate => UNCHANGED scheduler
  BY DEF Invalidate
<1>10. \A w \in Workers : WorkerStep(w) \/ Die(w) => UNCHANGED scheduler
  BY DEF WorkerStep, WorkerTransform, WorkerInvalidate, WorkerLoad, WorkerFinish, Die
<1> QED BY <1>2, <1>3, <1>5, <1>6, <1>7, <1>8, <1>9, <1>10 DEF Next, vars

(* The pool implements the service the bundler plugin relies on: each call is *)
(* settled at most once and by one of the three answers, no call is taken on  *)
(* once the breaker has tripped, and disposal leaves no call open.            *)
THEOREM PoolImplementsService == Spec => ImplementsService
<1>1. Init => Service!Init
  BY DEF Init, Service!Init
<1>2. SchedulingInv /\ [Next]_vars => [Service!Next]_(Service!vars)
  BY ServiceStep DEF stageBar, Service!vars
<1> QED BY <1>1, <1>2, SchedulingInit, SchedulingStep, PTL
        DEF Spec, ImplementsService, Service!Safety

=============================================================================
