------------------------ MODULE TransformPoolThreadProofs ------------------------
(* Machine-checked proofs about the worker threads of TransformPool: one     *)
(* transform at a time in each, none of them on modules executed before an   *)
(* invalidation that preceded it, and what they report covers what was used. *)
EXTENDS TransformPoolProofs

-----------------------------------------------------------------------------
(* Channels *)

(* Where a request for a transform waits, and where an answer does. *)
Requested(w) == {i \in DOMAIN inbox[w] : inbox[w][i].type = "transform"}
Answered(w)  == {i \in DOMAIN outbox[w] : outbox[w][i].type # "invalidated"}

(* What is appended to a channel comes last. *)
LEMMA AppendAt ==
  ASSUME NEW S, NEW s \in Seq(S), NEW e, NEW i \in DOMAIN Append(s, e)
  PROVE  \/ i \in DOMAIN s /\ i < Len(s) + 1 /\ Append(s, e)[i] = s[i]
         \/ i = Len(s) + 1 /\ i \notin DOMAIN s /\ Append(s, e)[i] = e
OBVIOUS

(* ... and is there, behind what was. *)
LEMMA AppendKeeps ==
  ASSUME NEW S, NEW s \in Seq(S), NEW e
  PROVE  /\ Len(s) + 1 \in DOMAIN Append(s, e) /\ Append(s, e)[Len(s) + 1] = e
         /\ \A i \in DOMAIN s : i \in DOMAIN Append(s, e) /\ Append(s, e)[i] = s[i]
OBVIOUS

(* What is taken from a channel was first in it. *)
LEMMA TailAt ==
  ASSUME NEW S, NEW s \in Seq(S), s # <<>>
  PROVE  /\ 1 \in DOMAIN s /\ Head(s) = s[1]
         /\ \A i \in DOMAIN Tail(s) :
              /\ i \in Nat /\ i + 1 \in DOMAIN s /\ i + 1 # 1 /\ Tail(s)[i] = s[i + 1]
         /\ \A i \in DOMAIN s : /\ i \in Nat
                                /\ i # 1 => /\ i - 1 \in DOMAIN Tail(s) /\ Tail(s)[i - 1] = s[i]
                                            /\ 1 < i
<1>1. /\ Len(s) \in Nat /\ Len(s) > 0 /\ DOMAIN s = 1 .. Len(s)
      /\ DOMAIN Tail(s) = 1 .. (Len(s) - 1)
      /\ \A i \in 1 .. (Len(s) - 1) : Tail(s)[i] = s[i + 1]
      /\ Head(s) = s[1]
  OBVIOUS
<1>2. \A i \in 1 .. Len(s) : i # 1 => i - 1 \in 1 .. (Len(s) - 1) /\ (i - 1) + 1 = i /\ 1 < i
  BY <1>1
<1> QED BY <1>1, <1>2

(* A request for a transform is for some task. *)
LEMMA RequestIs ==
  ASSUME NEW r \in Requests
  PROVE  \/ r.type = "transform" /\ r.task \in Tasks /\ r = TransformRequest(r.task)
         \/ r.type = "invalidate" /\ r = InvalidateRequest
BY DEF Requests, InvalidateRequest, TransformRequest

-----------------------------------------------------------------------------
(* One transform per worker *)

(* A worker holds at most one task, as a request, a transform under way or   *)
(* an answer; a thread that has ended holds neither of the first two; and a  *)
(* worker of the pool holds only the task it is busy with.                   *)
Solo(w) ==
  /\ \A i, j \in Requested(w) : i = j
  /\ \A s, t \in jobs[w] : s = t
  /\ \A i, j \in Answered(w) : i = j
  /\ Requested(w) # {} => jobs[w] = {} /\ Answered(w) = {}
  /\ jobs[w] # {} => Answered(w) = {}
  /\ life[w] # "live" => jobs[w] = {} /\ inbox[w] = <<>>
  /\ w \in pool => \A t \in Tasks : Trail(w, t) => busy[w] = t

SoloInv == TypeOK /\ \A w \in Workers : Solo(w)

(* A worker whose channels, transforms and books are left alone. *)
LEMMA SoloFrame ==
  ASSUME NEW w \in Workers, Solo(w),
         inbox'[w] = inbox[w], outbox'[w] = outbox[w], jobs'[w] = jobs[w], life'[w] = life[w],
         w \in pool' => w \in pool /\ busy'[w] = busy[w]
  PROVE  Solo(w)'
BY DEF Solo, Requested, Answered, Trail

(* A trail is a request, a transform or an answer. *)
LEMMA TrailIs ==
  ASSUME TypeOK, NEW w \in Workers, NEW t \in Tasks
  PROVE  /\ Trail(w, t) <=> \/ t \in jobs[w]
                            \/ \E i \in Requested(w) : inbox[w][i].task = t
                            \/ \E i \in Answered(w) : outbox[w][i].task = t
<1>1. \A i \in DOMAIN inbox[w] : inbox[w][i] \in Requests
  BY DEF TypeOK
<1>2. \A i \in DOMAIN inbox[w] :
        inbox[w][i] = TransformRequest(t) <=> inbox[w][i].type = "transform" /\ inbox[w][i].task = t
  BY <1>1, RequestIs DEF TransformRequest, InvalidateRequest
<1> QED BY <1>2 DEF Trail, Requested, Answered

(* send(): a worker that was not busy has no task, and is given one. *)
LEMMA SendSolo ==
  ASSUME SoloInv, NEW t \in Tasks, SendToIdle(t) \/ SendToNew(t)
  PROVE  \A w \in Workers : Solo(w)'
<1> USE DEF SoloInv
<1>1. ASSUME NEW w \in Workers, inbox[w] \in Seq(Requests),
             jobs[w] = {}, Requested(w) = {}, Answered(w) = {},
             inbox'[w] = Append(inbox[w], TransformRequest(t)),
             outbox'[w] = outbox[w], jobs'[w] = jobs[w], life'[w] = "live", busy'[w] = t
      PROVE  Solo(w)'
  <2>1. Requested(w)' = {Len(inbox[w]) + 1} /\ inbox'[w][Len(inbox[w]) + 1] = TransformRequest(t)
    BY <1>1, AppendAt, AppendKeeps DEF Requested, TransformRequest
  <2>2. Answered(w)' = {}
    BY <1>1 DEF Answered
  <2>3. \A s \in Tasks : Trail(w, s)' => s = t
    <3>1. \A i \in DOMAIN inbox'[w] : \A s \in Tasks : inbox'[w][i] = TransformRequest(s) => s = t
      BY <2>1 DEF Requested, TransformRequest
    <3> QED BY <1>1, <2>2, <3>1 DEF Trail, Answered
  <2> QED BY <1>1, <2>1, <2>2, <2>3 DEF Solo
<1>2. CASE SendToIdle(t)
  <2>1. PICK w \in Workers : /\ w \in pool /\ busy[w] = NoTask
                             /\ busy' = [busy EXCEPT ![w] = t]
                             /\ inbox' = [inbox EXCEPT ![w] = Post(w, TransformRequest(t))]
    BY <1>2 DEF SendToIdle, Idle, TypeOK
  <2>2. UNCHANGED <<pool, life, outbox, jobs>>
    BY <1>2 DEF SendToIdle, loaders
  <2>3. \A s \in Tasks : ~Trail(w, s)
    BY <2>1, TasksAssumption DEF Solo
  <2>4. jobs[w] = {} /\ Requested(w) = {} /\ Answered(w) = {}
    <3>1. \A i \in Requested(w) : inbox[w][i].task \in Tasks
      BY RequestIs DEF Requested, TypeOK, InvalidateRequest
    <3>2. \A i \in Answered(w) : outbox[w][i].task \in Tasks
      BY DEF Answered, TypeOK, Replies, InvalidatedReply
    <3>3. jobs[w] \subseteq Tasks
      BY DEF TypeOK
    <3> QED BY <2>3, <3>1, <3>2, <3>3, TrailIs
  <2>5. Solo(w)'
    <3>1. CASE life[w] = "live"
      BY <1>1, <2>1, <2>2, <2>4, <3>1 DEF Post, TypeOK
    <3>2. CASE life[w] # "live"
      <4>1. inbox'[w] = inbox[w]
        BY <2>1, <3>2 DEF Post, TypeOK
      <4>2. \A s \in Tasks : ~Trail(w, s)'
        BY <2>2, <2>3, <4>1 DEF Trail
      <4> QED BY <2>2, <4>1, <4>2 DEF Solo, Requested, Answered
    <3> QED BY <3>1, <3>2
  <2>6. \A v \in Workers : v # w => Solo(v)'
    BY <2>1, <2>2, SoloFrame DEF TypeOK
  <2> QED BY <2>5, <2>6
<1>3. CASE SendToNew(t)
  <2>1. PICK w \in Workers : /\ w \notin pool /\ life[w] # "live" /\ outbox[w] = <<>>
                             /\ pool' = pool \cup {w}
                             /\ busy' = [busy EXCEPT ![w] = t]
                             /\ life' = [life EXCEPT ![w] = "live"]
                             /\ inbox' = [inbox EXCEPT ![w] = <<TransformRequest(t)>>]
    BY <1>3 DEF SendToNew, Spawnable
  <2>2. UNCHANGED <<outbox, jobs>>
    BY <1>3 DEF SendToNew
  <2>3. jobs[w] = {} /\ inbox[w] = <<>> /\ Requested(w) = {} /\ Answered(w) = {}
    BY <2>1 DEF Solo, Requested, Answered
  <2>4. /\ <<TransformRequest(t)>> = Append(<<>>, TransformRequest(t)) /\ <<>> \in Seq(Requests)
        /\ inbox'[w] = <<TransformRequest(t)>> /\ life'[w] = "live" /\ busy'[w] = t
    BY <2>1 DEF TypeOK
  <2>5. Solo(w)'
    BY <1>1, <2>2, <2>3, <2>4
  <2>6. \A v \in Workers : v # w => Solo(v)'
    BY <2>1, <2>2, SoloFrame DEF TypeOK
  <2> QED BY <2>5, <2>6
<1> QED BY <1>2, <1>3

(* Steps of the main thread that send nothing. *)
LEMMA QuietSolo ==
  ASSUME SoloInv, UNCHANGED <<inbox, outbox, jobs, life>>,
         \A w \in pool' : w \in pool /\ busy'[w] = busy[w]
  PROVE  \A w \in Workers : Solo(w)'
BY SoloFrame DEF SoloInv

(* run(). *)
LEMMA RunSolo ==
  ASSUME SoloInv, NEW t \in Tasks, Run(t)
  PROVE  \A w \in Workers : Solo(w)'
<1>1. CASE SendToIdle(t) \/ SendToNew(t)
  BY <1>1, SendSolo
<1>2. CASE UNCHANGED <<pool, busy, channels, loaders>>
  BY <1>2, QuietSolo DEF channels, loaders
<1> QED BY <1>1, <1>2 DEF Run, SpawnFails

(* drain(). *)
LEMMA DrainSolo ==
  ASSUME SoloInv, Drain
  PROVE  \A w \in Workers : Solo(w)'
<1>1. CASE DrainShift /\ (SendToIdle(Head(queue)) \/ SendToNew(Head(queue)))
  BY <1>1, SendSolo, HeadTailType DEF DrainShift, SoloInv, TypeOK
<1>2. CASE UNCHANGED <<pool, busy, channels, loaders>>
  BY <1>2, QuietSolo DEF channels, loaders
<1> QED BY <1>1, <1>2 DEF Drain, DrainBroken, DrainEnds, DrainShift, SpawnFails

(* onWorkerGone() and dispose() let go of workers. *)
LEMMA GoneSolo ==
  ASSUME SoloInv, Dispose \/ \E w \in Workers : OnWorkerGone(w)
  PROVE  \A w \in Workers : Solo(w)'
<1>1. UNCHANGED <<inbox, outbox, jobs, life>>
  BY DEF Dispose, OnWorkerGone, channels, loaders
<1>2. CASE Dispose
  BY <1>1, <1>2, QuietSolo DEF Dispose
<1>3. CASE \E w \in Workers : OnWorkerGone(w)
  BY <1>1, <1>3, QuietSolo DEF OnWorkerGone, scheduler, SoloInv, TypeOK
<1> QED BY <1>2, <1>3

(* onMessage(): the worker that has answered holds nothing any more. *)
LEMMA OnMessageSolo ==
  ASSUME SoloInv, NEW w \in Workers, OnMessage(w)
  PROVE  \A v \in Workers : Solo(v)'
<1> USE DEF SoloInv
<1> DEFINE reply == Head(outbox[w])
<1>1. /\ outbox[w] \in Seq(Replies) /\ outbox[w] # <<>>
      /\ outbox' = [outbox EXCEPT ![w] = Tail(@)] /\ UNCHANGED <<inbox, jobs, life, pool>>
  BY DEF OnMessage, TypeOK, loaders, scheduler
<1>2. /\ outbox'[w] = Tail(outbox[w]) /\ reply = outbox[w][1] /\ reply \in Replies
      /\ \A i \in Answered(w)' : i + 1 \in Answered(w) /\ i + 1 # 1
                                 /\ outbox'[w][i] = outbox[w][i + 1] /\ i \in Nat
  BY <1>1, TailAt, HeadTailType DEF Answered, TypeOK
<1>3. /\ \A i, j \in Answered(w)' : i = j
      /\ Answered(w) = {} => Answered(w)' = {}
      /\ reply.type # "invalidated" => 1 \in Answered(w) /\ Answered(w)' = {}
  BY <1>1, <1>2, TailAt DEF Solo, Answered
<1>4. \A v \in Workers, s \in Tasks : Trail(v, s)' => Trail(v, s)
  BY <1>1, DeliverTrail
<1>5. /\ reply.type = "invalidated" => busy' = busy
      /\ \A v \in Workers : v # w => busy'[v] = busy[v]
      /\ busy'[w] # busy[w] => reply.type # "invalidated"
  BY DEF OnMessage, scheduler, TypeOK
<1>6. Solo(w)'
  <2>1. Requested(w)' = Requested(w)
    BY <1>1 DEF Requested
  <2>2. ASSUME w \in pool', NEW s \in Tasks, Trail(w, s)'
        PROVE  busy'[w] = s
    <3>1. CASE reply.type = "invalidated"
      BY <1>1, <1>4, <1>5, <2>2, <3>1 DEF Solo
    <3>2. CASE reply.type # "invalidated"
      <4>1. jobs[w] = {} /\ Requested(w) = {} /\ Answered(w)' = {}
        BY <1>3, <3>2 DEF Solo
      <4>2. \A i \in DOMAIN inbox[w] : inbox[w][i] # TransformRequest(s)
        BY <4>1 DEF Requested, TransformRequest
      <4> QED BY <1>1, <2>2, <4>1, <4>2 DEF Trail, Answered
    <3> QED BY <3>1, <3>2
  <2> QED BY <1>1, <1>3, <2>1, <2>2 DEF Solo
<1>7. \A v \in Workers : v # w => Solo(v)'
  BY <1>1, <1>5, SoloFrame DEF TypeOK
<1> QED BY <1>6, <1>7

(* invalidate() hands no task to anyone. *)
LEMMA InvalidateSolo ==
  ASSUME SoloInv, Invalidate
  PROVE  \A w \in Workers : Solo(w)'
<1> USE DEF SoloInv
<1>1. UNCHANGED <<outbox, jobs, life, pool, busy>>
  BY DEF Invalidate, loaders, scheduler
<1> SUFFICES ASSUME NEW w \in Workers PROVE Solo(w)'
  OBVIOUS
<1>2. CASE inbox'[w] = inbox[w]
  BY <1>1, <1>2, SoloFrame
<1>3. CASE inbox'[w] = Append(inbox[w], InvalidateRequest) /\ life[w] = "live"
  <2>1. inbox[w] \in Seq(Requests) /\ InvalidateRequest.type # "transform"
    BY DEF TypeOK, InvalidateRequest
  <2>2. Requested(w)' = Requested(w)
    BY <1>3, <2>1, AppendAt, AppendKeeps DEF Requested
  <2>3. \A s \in Tasks : Trail(w, s)' => Trail(w, s)
    <3>1. \A s \in Tasks : InvalidateRequest # TransformRequest(s)
      BY <2>1 DEF TransformRequest
    <3>2. \A s \in Tasks : \A i \in DOMAIN inbox'[w] :
             inbox'[w][i] = TransformRequest(s) => i \in DOMAIN inbox[w] /\ inbox[w][i] = inbox'[w][i]
      BY <1>3, <2>1, <3>1, AppendAt
    <3> QED BY <1>1, <3>2 DEF Trail
  <2>4. Answered(w)' = Answered(w) /\ jobs'[w] = jobs[w] /\ life'[w] = "live"
    BY <1>1, <1>3 DEF Answered
  <2> QED BY <1>1, <2>2, <2>3, <2>4 DEF Solo
<1> QED BY <1>2, <1>3 DEF Invalidate, Post

(* A worker moves its task along: from the request to the transform, from the *)
(* transform to the answer.                                                   *)
LEMMA WorkerSolo ==
  ASSUME SoloInv, NEW w \in Workers, WorkerStep(w) \/ Die(w)
  PROVE  \A v \in Workers : Solo(v)'
<1> USE DEF SoloInv
<1>1. UNCHANGED <<pool, busy>>
  BY DEF WorkerStep, WorkerTransform, WorkerInvalidate, WorkerLoad, WorkerFinish, Die, scheduler
<1>2. \A v \in Workers : v # w => Solo(v)'
  <2>1. \A v \in Workers : v # w => /\ inbox'[v] = inbox[v] /\ outbox'[v] = outbox[v]
                                    /\ jobs'[v] = jobs[v] /\ life'[v] = life[v]
    BY DEF TypeOK, WorkerStep, WorkerTransform, WorkerInvalidate, WorkerLoad, WorkerFinish,
       Die, channels
  <2> QED BY <1>1, <2>1, SoloFrame
<1>3. /\ inbox[w] \in Seq(Requests) /\ outbox[w] \in Seq(Replies)
      /\ DOMAIN inbox = Workers /\ DOMAIN outbox = Workers /\ DOMAIN jobs = Workers
      /\ DOMAIN life = Workers
  BY DEF TypeOK
<1>4. \A t \in Tasks : Trail(w, t)' => Trail(w, t)
  BY WorkerTrail
<1>5. CASE WorkerTransform(w)
  <2>1. /\ inbox[w] # <<>> /\ inbox[w][1].type = "transform" /\ inbox'[w] = Tail(inbox[w])
        /\ jobs'[w] = jobs[w] \cup {Head(inbox[w]).task}
        /\ outbox'[w] = outbox[w] /\ life'[w] = life[w] /\ life[w] = "live"
    BY <1>3, <1>5, TailAt DEF WorkerTransform
  <2>2. 1 \in Requested(w) /\ \A i \in Requested(w)' : i + 1 \in Requested(w) /\ i + 1 # 1
    BY <1>3, <2>1, TailAt DEF Requested
  <2>3. jobs[w] = {} /\ Answered(w) = {} /\ Requested(w)' = {}
    BY <2>2 DEF Solo
  <2>4. Answered(w)' = {}
    BY <2>1, <2>3 DEF Answered
  <2> QED BY <1>1, <1>2, <1>4, <2>1, <2>3, <2>4 DEF Solo
<1>6. CASE WorkerInvalidate(w)
  <2>1. /\ inbox[w] # <<>> /\ inbox[w][1].type = "invalidate" /\ inbox'[w] = Tail(inbox[w])
        /\ jobs'[w] = jobs[w] /\ outbox'[w] = Append(outbox[w], InvalidatedReply)
        /\ life'[w] = life[w] /\ life[w] = "live" /\ InvalidatedReply.type = "invalidated"
    BY <1>3, <1>6, TailAt DEF WorkerInvalidate, InvalidatedReply
  <2>2. \A i \in Requested(w)' : i + 1 \in Requested(w) /\ i \in Nat
    BY <1>3, <2>1, TailAt DEF Requested
  <2>3. Answered(w)' = Answered(w)
    BY <1>3, <2>1, AppendAt, AppendKeeps DEF Answered
  <2>4. /\ \A i, j \in Requested(w)' : i = j
        /\ Requested(w)' # {} => Requested(w) # {}
    BY <2>2 DEF Solo
  <2> QED BY <1>1, <1>2, <1>4, <2>1, <2>3, <2>4 DEF Solo
<1>7. CASE \E t \in Tasks, m \in Modules : WorkerLoad(w, t, m)
  BY <1>1, <1>7, QuietSolo DEF WorkerLoad, channels
<1>8. ASSUME NEW t \in Tasks, WorkerFinish(w, t)
      PROVE  Solo(w)'
  <2>1. PICK r : outbox' = [outbox EXCEPT ![w] = Append(@, r)] /\ r.type # "invalidated"
    BY <1>8 DEF WorkerFinish, ResultReply, ErrorReply
  <2>2. /\ t \in jobs[w] /\ jobs'[w] = jobs[w] \ {t}
        /\ inbox'[w] = inbox[w] /\ life'[w] = life[w] /\ life[w] = "live"
    BY <1>3, <1>8 DEF WorkerFinish
  <2>3. jobs'[w] = {} /\ Answered(w) = {} /\ Requested(w) = {}
    BY <2>2 DEF Solo
  <2>4. outbox'[w] = Append(outbox[w], r)
    BY <1>3, <2>1
  <2>5. \A i \in Answered(w)' : i = Len(outbox[w]) + 1
    BY <1>3, <2>3, <2>4, AppendAt DEF Answered
  <2>6. Requested(w)' = {}
    BY <2>2, <2>3 DEF Requested
  <2> QED BY <1>1, <1>4, <2>2, <2>3, <2>5, <2>6 DEF Solo
<1>9. CASE Die(w)
  <2>1. inbox'[w] = <<>> /\ jobs'[w] = {} /\ outbox'[w] = outbox[w]
    BY <1>3, <1>9 DEF Die
  <2>2. Requested(w)' = {} /\ Answered(w)' = Answered(w)
    BY <2>1 DEF Requested, Answered
  <2> QED BY <1>1, <1>2, <1>4, <2>1, <2>2 DEF Solo
<1> QED BY <1>2, <1>5, <1>6, <1>7, <1>8, <1>9 DEF WorkerStep

(* The invariant is inductive. *)
LEMMA SoloStep == SoloInv /\ [Next]_vars => SoloInv'
<1> SUFFICES ASSUME SoloInv, [Next]_vars PROVE SoloInv'
  OBVIOUS
<1>1. TypeOK'
  BY TypeStep DEF SoloInv
<1>2. CASE UNCHANGED vars
  BY <1>1, <1>2, QuietSolo DEF vars, scheduler, channels, loaders, SoloInv
<1>3. CASE Next
  BY <1>1, <1>3, RunSolo, DrainSolo, GoneSolo, OnMessageSolo, InvalidateSolo, WorkerSolo
     DEF Next, SoloInv
<1> QED BY <1>2, <1>3

(* To begin with no worker holds anything. *)
LEMMA SoloInit == Init => SoloInv
<1> SUFFICES ASSUME Init PROVE SoloInv
  OBVIOUS
<1>1. TypeOK
  BY TypeInit
<1>2. \A w \in Workers : Solo(w)
  BY DEF Init, Solo, Requested, Answered, Trail
<1> QED BY <1>1, <1>2 DEF SoloInv

(* No worker thread ever runs two transforms at once, so that they never      *)
(* share the state of its loader: the main thread sends a worker nothing      *)
(* before it has answered or ended (the header of pool-worker.ts).            *)
THEOREM OneTransformCorrect == Spec => []OneTransformPerWorker
<1>1. SoloInv => OneTransformPerWorker
  <2> SUFFICES ASSUME SoloInv, NEW w \in Workers PROVE Cardinality(jobs[w]) <= 1
    BY DEF OneTransformPerWorker
  <2>1. \A s, t \in jobs[w] : s = t
    BY DEF SoloInv, Solo
  <2>2. CASE jobs[w] = {}
    BY <2>2, FS_EmptySet
  <2>3. CASE \E t : jobs[w] = {t}
    BY <2>3, FS_Singleton
  <2> QED BY <2>1, <2>2, <2>3
<1> QED BY <1>1, SoloInit, SoloStep, PTL DEF Spec

-----------------------------------------------------------------------------
(* Fresh modules *)

(* Where a request to invalidate waits. *)
Due(w) == {i \in DOMAIN inbox[w] : inbox[w][i].type = "invalidate"}

(* A stale module is dropped before the worker comes to a task sent since:   *)
(* the order of the channel is what makes the worker safe to send to.        *)
Fresh(w) ==
  /\ jobs[w] \cap current # {} => stale[w] = {}
  /\ \A i \in Requested(w) :
       inbox[w][i].task \in current => stale[w] = {} \/ \E j \in Due(w) : j < i
  /\ w \in pool /\ life[w] = "live" => stale[w] = {} \/ Due(w) # {}

FreshInv == OwnershipInv /\ FreshAfterInvalidate /\ \A w \in Workers : Fresh(w)

(* A task that was never sent has left no trail. *)
LEMMA UnsentHasNoTrail ==
  ASSUME OwnershipInv, NEW t \in Tasks, outcome[t] = "idle" \/ t \in ToSet(queue)
  PROVE  \A w \in Workers : ~Trail(w, t)
BY DEF OwnershipInv, TrailInv

(* A worker whose channel and cache are left alone. *)
LEMMA FreshFrame ==
  ASSUME TypeOK, NEW w \in Workers, Fresh(w),
         inbox'[w] = inbox[w], jobs'[w] = jobs[w], life'[w] = life[w], stale'[w] = stale[w],
         w \in pool' => w \in pool,
         \A t \in Tasks : Trail(w, t) /\ t \in current' => t \in current
  PROVE  Fresh(w)'
<1>1. \A t \in jobs[w] : t \in Tasks /\ Trail(w, t)
  BY DEF TypeOK, Trail
<1>2. \A i \in Requested(w) : inbox[w][i].task \in Tasks /\ Trail(w, inbox[w][i].task)
  <2>1. \A i \in Requested(w) : inbox[w][i].task \in Tasks
    BY RequestIs DEF Requested, TypeOK, InvalidateRequest
  <2> QED BY <2>1, TrailIs
<1> QED BY <1>1, <1>2 DEF Fresh, Requested, Due

(* Steps that touch neither requests, transforms nor caches. *)
LEMMA QuietFresh ==
  ASSUME FreshInv, UNCHANGED <<inbox, jobs, life, stale, tainted>>,
         pool' \subseteq pool, current' \subseteq current
  PROVE  FreshAfterInvalidate' /\ \A w \in Workers : Fresh(w)'
BY FreshFrame DEF FreshInv, FreshAfterInvalidate, OwnershipInv

(* send(): the task queues up behind the invalidation, if there is one. *)
LEMMA SendFresh ==
  ASSUME FreshInv, NEW t \in Tasks, SendToIdle(t) \/ SendToNew(t),
         \A w \in Workers : ~Trail(w, t)
  PROVE  \A w \in Workers : Fresh(w)'
<1> USE DEF FreshInv, OwnershipInv
<1>1. current' = current \cup {t} /\ jobs' = jobs
  BY DEF SendToIdle, SendToNew, loaders
<1>2. \A v \in Workers : \A s \in Tasks : Trail(v, s) /\ s \in current' => s \in current
  BY <1>1
<1>3. \A v \in Workers : t \notin jobs[v] /\ \A i \in Requested(v) : inbox[v][i].task # t
  BY TrailIs
<1>4. CASE SendToIdle(t)
  <2>1. PICK w \in Workers :
           w \in pool /\ inbox' = [inbox EXCEPT ![w] = Post(w, TransformRequest(t))]
    BY <1>4 DEF SendToIdle, Idle, TypeOK
  <2>2. UNCHANGED <<pool, life, stale>>
    BY <1>4 DEF SendToIdle
  <2>3. \A v \in Workers : v # w => Fresh(v)'
    BY <1>1, <1>2, <2>1, <2>2, FreshFrame DEF TypeOK
  <2>4. CASE life[w] # "live"
    BY <1>1, <1>2, <2>1, <2>2, <2>3, <2>4, FreshFrame DEF TypeOK, Post
  <2>5. CASE life[w] = "live"
    <3> DEFINE n == Len(inbox[w]) + 1
    <3>1. /\ inbox[w] \in Seq(Requests)
          /\ inbox'[w] = Append(inbox[w], TransformRequest(t))
      BY <2>1, <2>5 DEF TypeOK, Post
    <3>2. /\ \A i \in Requested(w)' : \/ i \in Requested(w) /\ inbox'[w][i] = inbox[w][i]
                                      \/ i = n
          /\ \A j \in Due(w) : j \in Due(w)' /\ j < n
      BY <3>1, AppendAt, AppendKeeps DEF Requested, Due
    <3> HIDE DEF n
    <3>3. jobs'[w] \cap current' # {} => stale'[w] = {}
      BY <1>1, <1>3, <2>2 DEF Fresh
    <3>4. \A i \in Requested(w)' :
            inbox'[w][i].task \in current' => stale'[w] = {} \/ \E j \in Due(w)' : j < i
      BY <1>1, <1>3, <2>1, <2>2, <2>5, <3>2 DEF Fresh
    <3>5. stale'[w] = {} \/ Due(w)' # {}
      BY <2>1, <2>2, <2>5, <3>2 DEF Fresh
    <3>6. Fresh(w)'
      BY <3>3, <3>4, <3>5 DEF Fresh
    <3> QED BY <2>3, <3>6
  <2> QED BY <2>4, <2>5
<1>5. CASE SendToNew(t)
  <2>1. PICK w \in Workers : /\ pool' = pool \cup {w}
                             /\ life' = [life EXCEPT ![w] = "live"]
                             /\ inbox' = [inbox EXCEPT ![w] = <<TransformRequest(t)>>]
                             /\ stale' = [stale EXCEPT ![w] = {}]
    BY <1>5 DEF SendToNew
  <2>2. \A v \in Workers : v # w => Fresh(v)'
    BY <1>1, <1>2, <2>1, FreshFrame DEF TypeOK
  <2>3. stale'[w] = {}
    BY <2>1 DEF TypeOK
  <2> QED BY <2>2, <2>3 DEF Fresh
<1> QED BY <1>4, <1>5

(* What the main thread does. *)
LEMMA MainFresh ==
  ASSUME FreshInv,
         \/ \E t \in Tasks : Run(t)
         \/ Drain \/ Dispose
         \/ \E w \in Workers : OnMessage(w) \/ OnWorkerGone(w)
  PROVE  FreshAfterInvalidate' /\ \A w \in Workers : Fresh(w)'
<1> USE DEF FreshInv
<1>1. CASE UNCHANGED <<inbox, jobs, life, stale, tainted, current>> /\ pool' \subseteq pool
  BY <1>1, QuietFresh
<1>2. ASSUME NEW t \in Tasks, Run(t)
      PROVE  FreshAfterInvalidate' /\ \A w \in Workers : Fresh(w)'
  <2>1. CASE SendToIdle(t) \/ SendToNew(t)
    BY <1>2, <2>1, SendFresh, UnsentHasNoTrail DEF Run, FreshAfterInvalidate
  <2> QED BY <1>1, <1>2, <2>1 DEF Run, SpawnFails, channels, loaders
<1>3. CASE Drain
  <2>1. CASE DrainShift /\ (SendToIdle(Head(queue)) \/ SendToNew(Head(queue)))
    <3>1. Head(queue) \in Tasks /\ Head(queue) \in ToSet(queue)
      BY <2>1, HeadTailType, QueueShift DEF DrainShift, OwnershipInv, TypeOK
    <3> QED BY <1>3, <2>1, <3>1, SendFresh, UnsentHasNoTrail DEF Drain, FreshAfterInvalidate
  <2> QED BY <1>1, <1>3, <2>1
          DEF Drain, DrainBroken, DrainEnds, DrainShift, SpawnFails, channels, loaders
<1>4. CASE Dispose
  BY <1>1, <1>4 DEF Dispose, channels, loaders, ghosts
<1>5. ASSUME NEW w \in Workers, OnMessage(w) \/ OnWorkerGone(w)
      PROVE  FreshAfterInvalidate' /\ \A v \in Workers : Fresh(v)'
  BY <1>1, <1>5 DEF OnMessage, OnWorkerGone, loaders, ghosts, scheduler
<1> QED BY <1>2, <1>3, <1>4, <1>5

(* invalidate(): everything is stale, and every worker of the pool is told. *)
LEMMA InvalidateFresh ==
  ASSUME FreshInv, Invalidate
  PROVE  FreshAfterInvalidate' /\ \A w \in Workers : Fresh(w)'
<1> USE DEF FreshInv, OwnershipInv
<1>1. current' = {} /\ tainted' = tainted /\ UNCHANGED <<pool, life>>
  BY DEF Invalidate, scheduler
<1>2. ASSUME NEW w \in pool, life[w] = "live"
      PROVE  Due(w)' # {}
  <2>1. /\ w \in Workers /\ inbox[w] \in Seq(Requests)
        /\ inbox'[w] = Append(inbox[w], InvalidateRequest)
    BY <1>2 DEF Invalidate, Notified, Post, TypeOK
  <2>2. InvalidateRequest.type = "invalidate"
    BY DEF InvalidateRequest
  <2> QED BY <2>1, <2>2, AppendKeeps DEF Due
<1> QED BY <1>1, <1>2 DEF Fresh, FreshAfterInvalidate

(* A worker drops what is stale when it comes to the invalidation. *)
LEMMA WorkerFresh ==
  ASSUME FreshInv, NEW w \in Workers, WorkerStep(w) \/ Die(w)
  PROVE  FreshAfterInvalidate' /\ \A v \in Workers : Fresh(v)'
<1> USE DEF FreshInv, OwnershipInv
<1>1. UNCHANGED <<pool, current>>
  BY DEF WorkerStep, WorkerTransform, WorkerInvalidate, WorkerLoad, WorkerFinish, Die,
     scheduler, ghosts
<1>2. \A v \in Workers : v # w => Fresh(v)'
  <2>1. \A v \in Workers : v # w => /\ inbox'[v] = inbox[v] /\ jobs'[v] = jobs[v]
                                    /\ life'[v] = life[v] /\ stale'[v] = stale[v]
    BY DEF TypeOK, WorkerStep, WorkerTransform, WorkerInvalidate, WorkerLoad, WorkerFinish,
       Die, channels, ghosts
  <2> QED BY <1>1, <2>1, FreshFrame
<1>3. /\ inbox[w] \in Seq(Requests)
      /\ DOMAIN inbox = Workers /\ DOMAIN jobs = Workers /\ DOMAIN stale = Workers
      /\ DOMAIN life = Workers
  BY DEF TypeOK
<1>4. CASE WorkerTransform(w)
  <2>1. /\ inbox[w] # <<>> /\ inbox[w][1].type = "transform" /\ inbox'[w] = Tail(inbox[w])
        /\ jobs'[w] = jobs[w] \cup {inbox[w][1].task}
        /\ UNCHANGED <<life, stale, tainted>>
    BY <1>3, <1>4, TailAt DEF WorkerTransform, ghosts
  <2>2. 1 \in Requested(w) /\ 1 \notin Due(w) /\ \A j \in Due(w) : ~(j < 1)
    BY <1>3, <2>1, TailAt DEF Requested, Due
  <2>3. jobs'[w] \cap current' # {} => stale'[w] = {}
    BY <1>1, <2>1, <2>2 DEF Fresh
  <2>4. /\ \A i \in Requested(w)' : i + 1 \in Requested(w) /\ inbox'[w][i] = inbox[w][i + 1]
                                    /\ i \in Nat
        /\ \A j \in Due(w) : j - 1 \in Due(w)' /\ j \in Nat
    BY <1>3, <2>1, TailAt DEF Requested, Due
  <2>5. \A i \in Requested(w)' :
          inbox'[w][i].task \in current' => stale'[w] = {} \/ \E j \in Due(w)' : j < i
    <3> SUFFICES ASSUME NEW i \in Requested(w)', inbox'[w][i].task \in current', stale'[w] # {}
                 PROVE  \E j \in Due(w)' : j < i
      OBVIOUS
    <3>1. PICK j \in Due(w) : j < i + 1
      BY <1>1, <2>1, <2>4 DEF Fresh
    <3>2. j - 1 \in Due(w)' /\ j - 1 < i
      BY <2>4, <3>1
    <3> QED BY <3>2
  <2>6. Due(w) # {} => Due(w)' # {}
    BY <2>4
  <2>7. Fresh(w)'
    BY <1>1, <2>1, <2>3, <2>5, <2>6 DEF Fresh
  <2> QED BY <1>2, <2>1, <2>7 DEF FreshAfterInvalidate
<1>5. CASE WorkerInvalidate(w)
  <2>1. stale'[w] = {} /\ tainted' = tainted
    BY <1>3, <1>5 DEF WorkerInvalidate
  <2> QED BY <1>2, <2>1 DEF Fresh, FreshAfterInvalidate
<1>6. ASSUME NEW t \in Tasks, NEW m \in Modules, WorkerLoad(w, t, m)
      PROVE  FreshAfterInvalidate' /\ \A v \in Workers : Fresh(v)'
  <2>1. tainted' = tainted
    BY <1>6 DEF WorkerLoad, Fresh
  <2> QED BY <1>1, <1>6, <2>1, QuietFresh DEF WorkerLoad, channels
<1>7. ASSUME NEW t \in Tasks, WorkerFinish(w, t)
      PROVE  FreshAfterInvalidate' /\ \A v \in Workers : Fresh(v)'
  <2>1. /\ inbox'[w] = inbox[w] /\ life'[w] = life[w] /\ stale'[w] = stale[w]
        /\ jobs'[w] \subseteq jobs[w] /\ tainted' = tainted
    BY <1>3, <1>7 DEF WorkerFinish, ghosts
  <2>2. Requested(w)' = Requested(w) /\ Due(w)' = Due(w)
    BY <2>1 DEF Requested, Due
  <2>3. Fresh(w)'
    BY <1>1, <2>1, <2>2 DEF Fresh
  <2> QED BY <1>2, <2>1, <2>3 DEF FreshAfterInvalidate
<1>8. CASE Die(w)
  <2>1. inbox'[w] = <<>> /\ jobs'[w] = {} /\ life'[w] = "dead" /\ tainted' = tainted
    BY <1>3, <1>8 DEF Die, ghosts
  <2> QED BY <1>2, <2>1 DEF Fresh, FreshAfterInvalidate, Requested
<1> QED BY <1>4, <1>5, <1>6, <1>7, <1>8 DEF WorkerStep

(* The invariant is inductive. *)
LEMMA FreshStep == FreshInv /\ [Next]_vars => FreshInv'
<1> SUFFICES ASSUME FreshInv, [Next]_vars PROVE FreshInv'
  OBVIOUS
<1>1. OwnershipInv'
  BY OwnershipStep DEF FreshInv
<1>2. CASE UNCHANGED vars
  BY <1>1, <1>2, QuietFresh DEF vars, scheduler, channels, loaders, ghosts, FreshInv
<1>3. CASE Next
  BY <1>1, <1>3, MainFresh, InvalidateFresh, WorkerFresh DEF Next, FreshInv
<1> QED BY <1>2, <1>3

(* To begin with nothing was executed. *)
LEMMA FreshInit == Init => FreshInv
<1> SUFFICES ASSUME Init PROVE FreshInv
  OBVIOUS
<1>1. \A w \in Workers : Fresh(w)
  BY DEF Init, Fresh, Requested
<1> QED BY <1>1, OwnershipInit DEF Init, FreshInv, FreshAfterInvalidate

(* A task sent after an invalidation never runs on a module its worker        *)
(* executed before it (invalidate() and send() in pool.ts, and the order in    *)
(* which Node delivers messages).                                             *)
THEOREM FreshCorrect == Spec => []FreshAfterInvalidate
<1>1. FreshInv => FreshAfterInvalidate
  BY DEF FreshInv
<1> QED BY <1>1, FreshInit, FreshStep, PTL DEF Spec

-----------------------------------------------------------------------------
(* What the workers have reported covers what was used *)

(* A task has used nothing before a worker takes it up, is in the hands of    *)
(* one worker at most, and of none once it is resolved.                       *)
Waiting(t) == \/ outcome[t] = "idle"
              \/ t \in ToSet(queue)
              \/ \E w \in Workers : \E i \in Requested(w) : inbox[w][i].task = t

TaskInv ==
  /\ \A t \in Tasks : Waiting(t) => touched[t] = {}
  /\ \A t \in Tasks : outcome[t] = "resolved" => \A w \in Workers : ~Trail(w, t)
  /\ \A v, w \in Workers, t \in Tasks : Trail(v, t) /\ Trail(w, t) => v = w

(* What the answers under way from a worker report. *)
Deltas(w) == UNION {outbox[w][i].delta : i \in Answered(w)}

(* A task sent since the last invalidation comes behind it in the channel, so *)
(* that all it uses is in its worker's cache; what the worker has already     *)
(* reported has reached the main thread or is about to, unless another        *)
(* invalidation is due, which makes the worker forget what it reported; and   *)
(* an answer completes what the main thread knows of its task.                *)
Covered(w) ==
  /\ \A t \in jobs[w] \cap current : touched[t] \subseteq cache[w] /\ Due(w) = {}
  /\ \A i \in Requested(w) : inbox[w][i].task \in current => \A j \in Due(w) : j < i
  /\ \A i \in Answered(w) :
       LET reply == outbox[w][i]
       IN /\ reply.delta # {} => reply.type = "result" /\ reply.tracked
          /\ reply.type = "result" /\ reply.task \in current \cap inflight =>
               ~reply.tracked \/ touched[reply.task] \subseteq executed \cup reply.delta
  /\ w \in pool /\ life[w] = "live" /\ Due(w) = {} => reported[w] \subseteq executed \cup Deltas(w)

CoverInv == /\ OwnershipInv
            /\ SoloInv
            /\ TaskInv
            /\ \A w \in Workers : Covered(w)
            /\ CoveredIfSentSince

(* The tasks named in a worker's channels are tasks it has a trail of. *)
LEMMA NamedIsTrail ==
  ASSUME TypeOK, NEW w \in Workers
  PROVE  /\ \A t \in jobs[w] : t \in Tasks /\ Trail(w, t)
         /\ \A i \in Requested(w) : inbox[w][i].task \in Tasks /\ Trail(w, inbox[w][i].task)
         /\ \A i \in Answered(w) : outbox[w][i].task \in Tasks /\ Trail(w, outbox[w][i].task)
<1>1. \A t \in jobs[w] : t \in Tasks
  BY DEF TypeOK
<1>2. \A i \in Requested(w) : inbox[w][i].task \in Tasks
  BY RequestIs DEF Requested, TypeOK, InvalidateRequest
<1>3. \A i \in Answered(w) : outbox[w][i].task \in Tasks
  BY DEF Answered, TypeOK, Replies, InvalidatedReply
<1> QED BY <1>1, <1>2, <1>3, TrailIs

(* A worker whose channels and loader are left alone. *)
LEMMA CoverFrame ==
  ASSUME TypeOK, NEW w \in Workers, Covered(w),
         inbox'[w] = inbox[w], outbox'[w] = outbox[w], jobs'[w] = jobs[w], life'[w] = life[w],
         cache'[w] = cache[w], reported'[w] = reported[w],
         w \in pool' => w \in pool, executed \subseteq executed',
         \A t \in Tasks : Trail(w, t) => /\ touched'[t] = touched[t]
                                         /\ t \in current' => t \in current
                                         /\ t \in inflight' => t \in inflight
  PROVE  Covered(w)'
<1>1. Requested(w)' = Requested(w) /\ Answered(w)' = Answered(w) /\ Due(w)' = Due(w)
      /\ Deltas(w)' = Deltas(w)
  BY DEF Requested, Answered, Due, Deltas
<1>2. \A t \in jobs'[w] \cap current' : touched'[t] \subseteq cache'[w] /\ Due(w)' = {}
  BY <1>1, NamedIsTrail DEF Covered
<1>3. \A i \in Requested(w)' : inbox'[w][i].task \in current' => \A j \in Due(w)' : j < i
  BY <1>1, NamedIsTrail DEF Covered
<1>4. ASSUME NEW i \in Answered(w)'
      PROVE  LET reply == outbox'[w][i]
             IN /\ reply.delta # {} => reply.type = "result" /\ reply.tracked
                /\ reply.type = "result" /\ reply.task \in current' \cap inflight' =>
                     ~reply.tracked \/ touched'[reply.task] \subseteq executed' \cup reply.delta
  BY <1>1, <1>4, NamedIsTrail DEF Covered
<1>5. w \in pool' /\ life'[w] = "live" /\ Due(w)' = {} => reported'[w] \subseteq executed' \cup Deltas(w)'
  BY <1>1 DEF Covered
<1> QED BY <1>2, <1>3, <1>4, <1>5 DEF Covered

(* Steps that touch no channel and no loader. *)
LEMMA QuietCover ==
  ASSUME CoverInv, UNCHANGED <<inbox, outbox, jobs, life, cache, reported, touched,
                               executed, untracked>>,
         current' \subseteq current, pool' \subseteq pool, inflight' \subseteq inflight,
         \A t \in Tasks : /\ outcome'[t] = "resolved" => outcome[t] = "resolved"
                          /\ outcome'[t] = "idle" \/ t \in ToSet(queue)' =>
                               outcome[t] = "idle" \/ t \in ToSet(queue)
  PROVE  TaskInv' /\ (\A w \in Workers : Covered(w)') /\ CoveredIfSentSince'
<1>1. \A w \in Workers : Requested(w)' = Requested(w) /\ \A t \in Tasks : Trail(w, t)' <=> Trail(w, t)
  BY DEF Requested, Trail
<1>2. TaskInv'
  <2>1. \A t \in Tasks : Waiting(t)' => Waiting(t)
    BY <1>1 DEF Waiting
  <2> QED BY <1>1, <2>1 DEF CoverInv, TaskInv
<1>3. \A w \in Workers : Covered(w)'
  BY CoverFrame DEF CoverInv, OwnershipInv
<1>4. CoveredIfSentSince'
  BY DEF CoverInv, CoveredIfSentSince, OwnershipInv, TypeOK
<1> QED BY <1>2, <1>3, <1>4

(* send(): the task is put behind what is due, and has used nothing yet. *)
LEMMA SendCover ==
  ASSUME CoverInv, NEW t \in Tasks, SendToIdle(t) \/ SendToNew(t),
         outcome[t] = "idle" \/ t \in ToSet(queue), executed' = executed
  PROVE  /\ \A w \in Workers : Covered(w)'
         /\ \A v \in Workers : \A i \in Requested(v)' :
              \/ i \in Requested(v) /\ inbox'[v][i].task = inbox[v][i].task
              \/ inbox'[v][i].task = t
<1> USE DEF CoverInv, OwnershipInv
<1> DEFINE NoneBut(v) == \A i \in Requested(v)' :
                           \/ i \in Requested(v) /\ inbox'[v][i].task = inbox[v][i].task
                           \/ inbox'[v][i].task = t
<1>1. current' = current \cup {t} /\ inflight' = inflight \cup {t} /\ touched' = touched
      /\ jobs' = jobs /\ outbox' = outbox
  BY DEF SendToIdle, SendToNew, loaders
<1>2. \A v \in Workers : ~Trail(v, t)
  BY UnsentHasNoTrail
<1>3. \A v \in Workers : \A s \in Tasks :
        Trail(v, s) => (s \in current' => s \in current) /\ (s \in inflight' => s \in inflight)
  BY <1>1, <1>2
<1>4. \A v \in Workers : t \notin jobs[v] /\ (\A i \in Requested(v) : inbox[v][i].task # t)
                         /\ \A i \in Answered(v) : outbox[v][i].task # t
  BY <1>2, TrailIs
<1>5. ASSUME NEW v \in Workers, inbox'[v] = inbox[v], UNCHANGED <<life[v], cache[v], reported[v]>>,
             v \in pool' => v \in pool
      PROVE  Covered(v)' /\ NoneBut(v)
  <2>1. Covered(v)'
    BY <1>1, <1>3, <1>5, CoverFrame
  <2>2. Requested(v)' = Requested(v)
    BY <1>5 DEF Requested
  <2> QED BY <1>5, <2>1, <2>2
<1>6. CASE SendToIdle(t)
  <2>1. PICK w \in Workers :
           w \in pool /\ inbox' = [inbox EXCEPT ![w] = Post(w, TransformRequest(t))]
    BY <1>6 DEF SendToIdle, Idle, TypeOK
  <2>2. UNCHANGED <<pool, life, cache, reported>>
    BY <1>6 DEF SendToIdle, loaders
  <2>3. \A v \in Workers : v # w \/ life[w] # "live" => Covered(v)' /\ NoneBut(v)
    BY <1>5, <2>1, <2>2 DEF TypeOK, Post
  <2>4. CASE life[w] = "live"
    <3> DEFINE n == Len(inbox[w]) + 1
    <3>1. /\ inbox[w] \in Seq(Requests)
          /\ inbox'[w] = Append(inbox[w], TransformRequest(t))
          /\ TransformRequest(t).type = "transform" /\ TransformRequest(t).task = t
      BY <2>1, <2>4 DEF TypeOK, Post, TransformRequest
    <3>2. /\ \A i \in Requested(w)' : \/ i \in Requested(w) /\ inbox'[w][i] = inbox[w][i]
                                      \/ i = n /\ inbox'[w][i].task = t
          /\ Due(w)' = Due(w)
          /\ \A j \in Due(w) : j < n
      <4>1. \A i \in DOMAIN inbox'[w] : \/ i \in DOMAIN inbox[w] /\ inbox'[w][i] = inbox[w][i]
                                        \/ i = n /\ inbox'[w][i] = TransformRequest(t)
        BY <3>1, AppendAt
      <4>2. \A i \in DOMAIN inbox[w] : i \in DOMAIN inbox'[w] /\ inbox'[w][i] = inbox[w][i] /\ i < n
        BY <3>1, AppendKeeps
      <4> HIDE DEF n
      <4> QED BY <3>1, <4>1, <4>2 DEF Requested, Due
    <3> HIDE DEF n
    <3>3. Answered(w)' = Answered(w) /\ Deltas(w)' = Deltas(w)
      BY <1>1 DEF Answered, Deltas
    <3>4. \A s \in jobs'[w] \cap current' : touched'[s] \subseteq cache'[w] /\ Due(w)' = {}
      BY <1>1, <1>4, <2>2, <3>2 DEF Covered
    <3>5. \A i \in Requested(w)' : inbox'[w][i].task \in current' => \A j \in Due(w)' : j < i
      BY <1>1, <1>4, <3>2 DEF Covered
    <3>6. ASSUME NEW i \in Answered(w)'
          PROVE  LET reply == outbox'[w][i]
                 IN /\ reply.delta # {} => reply.type = "result" /\ reply.tracked
                    /\ reply.type = "result" /\ reply.task \in current' \cap inflight' =>
                         ~reply.tracked \/ touched'[reply.task] \subseteq executed' \cup reply.delta
      BY <1>1, <1>4, <3>3 DEF Covered
    <3>7. Covered(w)'
      BY <2>2, <3>2, <3>3, <3>4, <3>5, <3>6 DEF Covered
    <3> QED BY <2>3, <3>2, <3>7
  <2> QED BY <2>3, <2>4
<1>7. CASE SendToNew(t)
  <2>1. PICK w \in Workers : /\ life[w] # "live" /\ outbox[w] = <<>>
                             /\ pool' = pool \cup {w}
                             /\ life' = [life EXCEPT ![w] = "live"]
                             /\ inbox' = [inbox EXCEPT ![w] = <<TransformRequest(t)>>]
                             /\ cache' = [cache EXCEPT ![w] = {}]
                             /\ reported' = [reported EXCEPT ![w] = {}]
    BY <1>7 DEF SendToNew, Spawnable
  <2>2. \A v \in Workers : v # w => Covered(v)' /\ NoneBut(v)
    BY <1>5, <2>1 DEF TypeOK
  <2>3. /\ inbox'[w] = <<TransformRequest(t)>> /\ jobs'[w] = {} /\ outbox'[w] = <<>>
        /\ reported'[w] = {}
    BY <1>1, <2>1 DEF TypeOK, SoloInv, Solo
  <2>4. /\ TransformRequest(t).task = t /\ TransformRequest(t).type # "invalidate"
        /\ \A i \in DOMAIN inbox'[w] : inbox'[w][i] = TransformRequest(t)
    BY <2>3 DEF TransformRequest
  <2>5. Due(w)' = {} /\ Answered(w)' = {} /\ NoneBut(w)
    BY <2>3, <2>4 DEF Due, Answered, Requested
  <2>6. Covered(w)'
    BY <2>3, <2>5 DEF Covered
  <2> QED BY <2>2, <2>5, <2>6
<1> QED BY <1>6, <1>7

(* ... so that it is waiting for one worker, and has a trail at that one only. *)
LEMMA SendTasks ==
  ASSUME CoverInv, NEW t \in Tasks, SendToIdle(t) \/ SendToNew(t),
         outcome[t] = "idle" \/ t \in ToSet(queue), executed' = executed, untracked' = untracked,
         outcome'[t] # "resolved", \A s \in Tasks : s # t => outcome'[s] = outcome[s],
         ToSet(queue)' \subseteq ToSet(queue)
  PROVE  TaskInv' /\ (\A w \in Workers : Covered(w)') /\ CoveredIfSentSince'
<1> USE DEF CoverInv, OwnershipInv
<1>1. touched' = touched /\ current' = current \cup {t} /\ \A v \in Workers : ~Trail(v, t)
  BY UnsentHasNoTrail DEF SendToIdle, SendToNew, loaders
<1>2. PICK w \in Workers :
        \A v \in Workers, s \in Tasks : Trail(v, s)' => Trail(v, s) \/ (v = w /\ s = t)
  BY SendEffect
<1>3. \A s \in Tasks : Waiting(s)' => Waiting(s) \/ s = t
  BY SendCover DEF Waiting
<1>4. TaskInv'
  BY <1>1, <1>2, <1>3 DEF TaskInv, Waiting
<1>5. CoveredIfSentSince'
  BY <1>1 DEF CoveredIfSentSince, TypeOK
<1> QED BY <1>4, <1>5, SendCover

(* run(), drain(), dispose() and the end of a worker. *)
LEMMA MainCover ==
  ASSUME CoverInv,
         \/ \E t \in Tasks : Run(t)
         \/ Drain \/ Dispose
         \/ \E w \in Workers : OnWorkerGone(w)
  PROVE  TaskInv' /\ (\A w \in Workers : Covered(w)') /\ CoveredIfSentSince'
<1> USE DEF CoverInv, OwnershipInv
<1> DEFINE Quiet == /\ UNCHANGED <<inbox, outbox, jobs, life, cache, reported, touched,
                                   executed, untracked>>
                    /\ current' \subseteq current /\ pool' \subseteq pool
                    /\ inflight' \subseteq inflight
                    /\ \A t \in Tasks :
                         /\ outcome'[t] = "resolved" => outcome[t] = "resolved"
                         /\ outcome'[t] = "idle" \/ t \in ToSet(queue)' =>
                              outcome[t] = "idle" \/ t \in ToSet(queue)
<1>1. CASE Quiet
  BY <1>1, QuietCover
<1>2. ASSUME NEW t \in Tasks, Run(t)
      PROVE  Quiet \/ (TaskInv' /\ (\A w \in Workers : Covered(w)') /\ CoveredIfSentSince')
  <2>1. outcome[t] = "idle" /\ UNCHANGED <<executed, untracked>>
    BY <1>2 DEF Run, tracking
  <2>2. CASE /\ UNCHANGED <<pool, busy, inflight, queue, channels, loaders, current>>
             /\ outcome' = [outcome EXCEPT ![t] = "unavailable"]
    BY <2>1, <2>2 DEF channels, loaders, TypeOK
  <2>3. CASE /\ SendToIdle(t) \/ SendToNew(t)
             /\ outcome' = [outcome EXCEPT ![t] = "pending"] /\ queue' = queue
    BY <2>1, <2>3, SendTasks DEF TypeOK
  <2>4. CASE /\ UNCHANGED <<pool, busy, inflight, channels, loaders, current>>
             /\ outcome' = [outcome EXCEPT ![t] = "pending"] /\ queue' = Append(queue, t)
    <3>1. ToSet(queue)' = ToSet(queue) \cup {t}
      BY <2>4, QueueAppend DEF TypeOK
    <3> QED BY <2>1, <2>4, <3>1 DEF channels, loaders, TypeOK
  <2> QED BY <1>2, <2>2, <2>3, <2>4 DEF Run, SpawnFails
<1>3. ASSUME Drain
      PROVE  Quiet \/ (TaskInv' /\ (\A w \in Workers : Covered(w)') /\ CoveredIfSentSince')
  <2>1. UNCHANGED <<executed, untracked>>
    BY <1>3 DEF Drain, tracking
  <2>2. CASE DrainBroken
    <3>1. ToSet(queue)' = {}
      BY <2>2 DEF DrainBroken, ToSet
    <3>2. \A t \in Tasks : outcome'[t] \in {"unavailable", outcome[t]}
      BY <2>2 DEF DrainBroken
    <3> QED BY <2>1, <2>2, <3>1, <3>2 DEF DrainBroken, channels, loaders
  <2>3. CASE DrainEnds
    BY <2>1, <2>3 DEF DrainEnds, channels, loaders
  <2>4. CASE DrainShift
    <3>1. Head(queue) \in Tasks /\ ToSet(queue)' \subseteq ToSet(queue) /\ Head(queue) \in ToSet(queue)
      BY <2>4, HeadTailType, QueueShift DEF DrainShift, TypeOK
    <3>2. CASE (SendToIdle(Head(queue)) \/ SendToNew(Head(queue))) /\ outcome' = outcome
      <4>1. outcome[Head(queue)] = "pending"
        BY <3>1 DEF PendingIsOwned, Pending
      <4> QED BY <2>1, <3>1, <3>2, <4>1, SendTasks
    <3>3. CASE SpawnFails /\ outcome' = [outcome EXCEPT ![Head(queue)] = "unavailable"]
      BY <2>1, <3>1, <3>3 DEF SpawnFails, channels, loaders, TypeOK
    <3> QED BY <2>4, <3>2, <3>3 DEF DrainShift
  <2> QED BY <1>3, <2>2, <2>3, <2>4 DEF Drain
<1>4. ASSUME Dispose
      PROVE  Quiet
  <2>1. ToSet(queue)' = {}
    BY <1>4 DEF Dispose, ToSet
  <2>2. \A t \in Tasks : outcome'[t] \in {"unavailable", outcome[t]}
    BY <1>4 DEF Dispose
  <2> QED BY <1>4, <2>1, <2>2 DEF Dispose, tracking, channels, loaders, ghosts
<1>5. ASSUME NEW w \in Workers, OnWorkerGone(w)
      PROVE  Quiet
  <2>1. UNCHANGED <<inbox, outbox, jobs, life, cache, reported, touched, executed, untracked, current, queue>>
    BY <1>5 DEF OnWorkerGone, tracking, loaders, ghosts, scheduler
  <2>2. /\ pool' \subseteq pool /\ inflight' \subseteq inflight
        /\ \A t \in Tasks : outcome'[t] \in {"unavailable", outcome[t]}
    BY <1>5 DEF OnWorkerGone, scheduler, TypeOK
  <2> QED BY <2>1, <2>2
<1> QED BY <1>1, <1>2, <1>3, <1>4, <1>5

(* invalidate(): nothing is current, and every live worker of the pool is told. *)
LEMMA InvalidateCover ==
  ASSUME CoverInv, Invalidate
  PROVE  TaskInv' /\ (\A w \in Workers : Covered(w)') /\ CoveredIfSentSince'
<1> USE DEF CoverInv, OwnershipInv
<1>1. /\ current' = {}
      /\ UNCHANGED <<pool, queue, outcome, life, outbox, jobs, touched, cache, reported>>
  BY DEF Invalidate, scheduler, loaders
<1>2. ASSUME NEW w \in Workers
      PROVE  /\ \A i \in Requested(w)' : i \in Requested(w) /\ inbox'[w][i] = inbox[w][i]
             /\ w \in pool /\ life[w] = "live" => Due(w)' # {}
  <2>1. CASE inbox'[w] = inbox[w] /\ (w \notin pool \/ life[w] # "live")
    BY <2>1 DEF Requested
  <2>2. CASE inbox'[w] = Append(inbox[w], InvalidateRequest)
    <3>1. inbox[w] \in Seq(Requests) /\ InvalidateRequest.type = "invalidate"
      BY DEF TypeOK, InvalidateRequest
    <3> QED BY <2>2, <3>1, AppendAt, AppendKeeps DEF Requested, Due
  <2> QED BY <2>1, <2>2 DEF Invalidate, Notified, Post
<1>3. \A w \in Workers : Answered(w)' = Answered(w)
  BY <1>1 DEF Answered
<1>4. \A w \in Workers : Covered(w)'
  BY <1>1, <1>2, <1>3 DEF Covered
<1>5. \A w \in Workers, t \in Tasks : Trail(w, t)' => Trail(w, t)
  <2>1. ASSUME NEW w \in Workers, NEW t \in Tasks,
               NEW i \in DOMAIN inbox'[w], inbox'[w][i] = TransformRequest(t)
        PROVE  i \in DOMAIN inbox[w] /\ inbox[w][i] = TransformRequest(t)
    BY <1>2, <2>1 DEF Requested, TransformRequest
  <2> QED BY <1>1, <2>1 DEF Trail
<1>6. \A t \in Tasks : Waiting(t)' => Waiting(t)
  BY <1>1, <1>2 DEF Waiting
<1>7. TaskInv'
  BY <1>1, <1>5, <1>6 DEF TaskInv
<1> QED BY <1>1, <1>4, <1>7 DEF CoveredIfSentSince

(* onMessage(): what the worker reported becomes known, at the latest when the *)
(* task that used it is resolved.                                              *)
LEMMA OnMessageCover ==
  ASSUME CoverInv, NEW w \in Workers, OnMessage(w)
  PROVE  TaskInv' /\ (\A v \in Workers : Covered(v)') /\ CoveredIfSentSince'
<1> USE DEF CoverInv, OwnershipInv
<1> DEFINE reply == Head(outbox[w])
<1>1. /\ outbox[w] \in Seq(Replies) /\ outbox[w] # <<>>
      /\ outbox' = [outbox EXCEPT ![w] = Tail(@)]
      /\ UNCHANGED <<inbox, jobs, life, pool, queue, current, touched, cache, reported>>
  BY DEF OnMessage, TypeOK, loaders, scheduler
<1>2. /\ outbox'[w] = Tail(outbox[w]) /\ reply = outbox[w][1] /\ 1 \in DOMAIN outbox[w]
      /\ \A i \in Answered(w)' : i + 1 \in Answered(w) /\ i + 1 # 1
                                 /\ outbox'[w][i] = outbox[w][i + 1]
      /\ \A i \in Answered(w) : i # 1 => i - 1 \in Answered(w)' /\ outbox'[w][i - 1] = outbox[w][i]
  BY <1>1, TailAt DEF Answered, TypeOK
<1>3. \A v \in Workers, s \in Tasks : Trail(v, s)' => Trail(v, s)
  BY <1>1, DeliverTrail
<1>4. \A t \in Tasks : Waiting(t)' => outcome'[t] = "idle" \/ Waiting(t)
  BY <1>1 DEF Waiting, Requested
<1>5. \A v \in Workers : v # w => outbox'[v] = outbox[v]
  BY <1>1 DEF TypeOK
<1>6. \A i \in Answered(w) : outbox[w][i].delta # {} => outbox[w][i].type = "result" /\ outbox[w][i].tracked
  BY DEF Covered
<1>7. CASE reply.type = "invalidated"
  <2>1. UNCHANGED <<inflight, outcome, executed, untracked>>
    BY <1>7 DEF OnMessage, scheduler, tracking
  <2>2. /\ \A i \in Answered(w)' : \E j \in Answered(w) : outbox'[w][i] = outbox[w][j]
        /\ \A i \in Answered(w) : \E j \in Answered(w)' : outbox'[w][j] = outbox[w][i]
    <3>1. \A i \in Answered(w) : i # 1
      BY <1>2, <1>7 DEF Answered
    <3> QED BY <1>2, <3>1
  <2>3. Deltas(w)' = Deltas(w)
    <3>1. Deltas(w)' \subseteq Deltas(w)
      BY <2>2 DEF Deltas
    <3>2. Deltas(w) \subseteq Deltas(w)'
      BY <2>2 DEF Deltas
    <3> QED BY <3>1, <3>2
  <2>4. Requested(w)' = Requested(w) /\ Due(w)' = Due(w)
    BY <1>1 DEF Requested, Due
  <2>5. ASSUME NEW i \in Answered(w)'
        PROVE  LET answer == outbox'[w][i]
               IN /\ answer.delta # {} => answer.type = "result" /\ answer.tracked
                  /\ answer.type = "result" /\ answer.task \in current' \cap inflight' =>
                       ~answer.tracked \/ touched'[answer.task] \subseteq executed' \cup answer.delta
    <3>1. PICK j \in Answered(w) : outbox'[w][i] = outbox[w][j]
      BY <2>2
    <3>2. LET answer == outbox[w][j]
          IN /\ answer.delta # {} => answer.type = "result" /\ answer.tracked
             /\ answer.type = "result" /\ answer.task \in current \cap inflight =>
                  ~answer.tracked \/ touched[answer.task] \subseteq executed \cup answer.delta
      BY DEF Covered
    <3>3. UNCHANGED <<current, inflight, touched, executed>>
      BY <1>1, <2>1
    <3> QED BY <3>1, <3>2, <3>3
  <2>6. Covered(w)'
    BY <1>1, <2>1, <2>3, <2>4, <2>5 DEF Covered
  <2>7. \A v \in Workers : v # w => Covered(v)'
    BY <1>1, <1>5, <2>1, CoverFrame
  <2>8. \A t \in Tasks : Waiting(t)' => Waiting(t)
    BY <1>4, <2>1 DEF Waiting
  <2> QED BY <1>1, <1>3, <2>1, <2>6, <2>7, <2>8 DEF TaskInv, CoveredIfSentSince
<1>8. CASE reply.type # "invalidated"
  <2> PICK t : t = reply.task
    OBVIOUS
  <2>1. 1 \in Answered(w) /\ t \in Tasks /\ Trail(w, t)
    BY <1>2, <1>8, NamedIsTrail DEF Answered
  <2>2. jobs[w] = {} /\ Requested(w) = {} /\ Answered(w) = {1}
    BY <2>1 DEF SoloInv, Solo
  <2>3. /\ Answered(w)' = {}
        /\ jobs'[w] = {} /\ Requested(w)' = {} /\ Due(w)' = Due(w)
    <3>1. Answered(w)' = {}
      BY <1>2, <2>2
    <3> QED BY <1>1, <2>2, <3>1 DEF Requested, Due
  <2>4. /\ inflight' = inflight \ {t} /\ executed \subseteq executed' /\ (untracked => untracked')
        /\ \A s \in Tasks : s # t => outcome'[s] = outcome[s]
        /\ t \in inflight /\ reply.type = "result" =>
             IF reply.tracked THEN executed' = executed \cup reply.delta ELSE untracked'
        /\ outcome'[t] = "idle" => outcome[t] = "idle"
        /\ outcome'[t] = "resolved" => outcome[t] = "resolved" \/ (t \in inflight /\ reply.type = "result")
    BY <1>8, <2>1 DEF OnMessage, Record, TypeOK
  <2>5. outcome[t] # "resolved"
    BY <2>1 DEF TaskInv
  <2>6. Covered(w)'
    <3>1. ASSUME w \in pool, life[w] = "live", Due(w) = {}
          PROVE  reported[w] \subseteq executed'
      <4>1. t \in inflight
        BY <2>1, <3>1, TasksAssumption DEF SoloInv, Solo, PendingIsOwned
      <4>2. reported[w] \subseteq executed \cup reply.delta
        BY <1>2, <2>2, <3>1 DEF Covered, Deltas
      <4>3. reply.delta # {} => executed' = executed \cup reply.delta
        BY <1>2, <1>6, <2>1, <2>4, <4>1
      <4> QED BY <2>4, <4>2, <4>3
    <3> QED BY <1>1, <2>3, <3>1 DEF Covered
  <2>7. \A v \in Workers : v # w => Covered(v)'
    BY <1>1, <1>5, <2>4, CoverFrame
  <2>8. TaskInv'
    <3>1. ~Trail(w, t)'
      BY <2>1, <2>3, <1>1 DEF Trail, Answered, Requested, TransformRequest
    <3>2. \A s \in Tasks : Waiting(s)' => Waiting(s)
      BY <1>4, <2>1, <2>4 DEF Waiting
    <3>3. \A v \in Workers : ~Trail(v, t)'
      <4>1. \A u, v \in Workers, s \in Tasks : Trail(u, s) /\ Trail(v, s) => u = v
        BY DEF TaskInv
      <4> QED BY <1>3, <2>1, <3>1, <4>1
    <3>4. \A s \in Tasks : outcome'[s] = "resolved" => s = t \/ outcome[s] = "resolved"
      BY <2>4
    <3>5. \A s \in Tasks : outcome'[s] = "resolved" => \A v \in Workers : ~Trail(v, s)'
      BY <1>3, <3>3, <3>4 DEF TaskInv
    <3>6. \A s \in Tasks : Waiting(s)' => touched'[s] = {}
      BY <1>1, <3>2 DEF TaskInv
    <3>7. \A u, v \in Workers, s \in Tasks : Trail(u, s)' /\ Trail(v, s)' => u = v
      BY <1>3 DEF TaskInv
    <3> QED BY <3>5, <3>6, <3>7 DEF TaskInv
  <2>9. CoveredIfSentSince'
    <3>1. t \in current /\ outcome'[t] = "resolved" => untracked' \/ touched[t] \subseteq executed'
      <4>1. t \in current /\ t \in inflight /\ reply.type = "result" =>
              ~reply.tracked \/ touched[t] \subseteq executed \cup reply.delta
        BY <1>2, <2>1 DEF Covered
      <4> QED BY <2>4, <2>5, <4>1
    <3> QED BY <1>1, <2>1, <2>4, <3>1 DEF CoveredIfSentSince, TypeOK
  <2> QED BY <2>6, <2>7, <2>8, <2>9
<1> QED BY <1>7, <1>8

(* What a worker does to its own task. *)
LEMMA WorkerCovered ==
  ASSUME CoverInv, NEW w \in Workers, WorkerStep(w) \/ Die(w)
  PROVE  Covered(w)'
<1> USE DEF CoverInv, OwnershipInv
<1>1. UNCHANGED <<pool, inflight, current, executed>>
  BY DEF WorkerStep, WorkerTransform, WorkerInvalidate, WorkerLoad, WorkerFinish, Die,
     scheduler, tracking, ghosts
<1>2. /\ inbox[w] \in Seq(Requests) /\ outbox[w] \in Seq(Replies)
      /\ DOMAIN inbox = Workers /\ DOMAIN outbox = Workers /\ DOMAIN jobs = Workers
      /\ DOMAIN life = Workers /\ DOMAIN cache = Workers /\ DOMAIN reported = Workers
      /\ DOMAIN touched = Tasks
  BY DEF TypeOK
<1>3. \A i \in Answered(w) :
        LET reply == outbox[w][i]
        IN /\ reply.delta # {} => reply.type = "result" /\ reply.tracked
           /\ reply.type = "result" /\ reply.task \in current \cap inflight =>
                ~reply.tracked \/ touched[reply.task] \subseteq executed \cup reply.delta
  BY DEF Covered
<1>4. CASE WorkerTransform(w)
  <2>1. /\ inbox[w] # <<>> /\ inbox[w][1].type = "transform" /\ inbox'[w] = Tail(inbox[w])
        /\ jobs'[w] = jobs[w] \cup {inbox[w][1].task}
        /\ UNCHANGED <<life, outbox, touched, cache, reported>>
    BY <1>2, <1>4, TailAt DEF WorkerTransform
  <2>2. 1 \in Requested(w) /\ inbox[w][1].task \in Tasks
    BY <1>2, <2>1, TailAt, NamedIsTrail DEF Requested
  <2>3. jobs[w] = {} /\ Requested(w)' = {}
    <3>1. \A i \in Requested(w)' : i + 1 \in Requested(w) /\ i + 1 # 1
      BY <1>2, <2>1, TailAt DEF Requested
    <3> QED BY <2>2, <3>1 DEF SoloInv, Solo
  <2>4. /\ \A j \in Due(w)' : j + 1 \in Due(w)
        /\ \A j \in Due(w) : j \in Nat /\ j >= 1 /\ j - 1 \in Due(w)'
    BY <1>2, <2>1, TailAt DEF Due
  <2>5. ASSUME NEW t \in jobs'[w] \cap current'
        PROVE  touched'[t] \subseteq cache'[w] /\ Due(w)' = {}
    <3>1. t = inbox[w][1].task /\ t \in current
      BY <1>1, <2>1, <2>3, <2>5
    <3>2. touched[t] = {}
      BY <2>2, <3>1 DEF TaskInv, Waiting
    <3>3. \A j \in Due(w) : j < 1
      BY <2>2, <3>1 DEF Covered
    <3> QED BY <2>1, <2>4, <3>2, <3>3
  <2>6. Answered(w)' = Answered(w) /\ Deltas(w)' = Deltas(w)
    BY <2>1 DEF Answered, Deltas
  <2>7. Due(w)' = {} => Due(w) = {}
    BY <2>4
  <2>8. w \in pool' /\ life'[w] = "live" /\ Due(w)' = {} => reported'[w] \subseteq executed' \cup Deltas(w)'
    BY <1>1, <2>1, <2>6, <2>7 DEF Covered
  <2> QED BY <1>1, <1>3, <2>1, <2>3, <2>5, <2>6, <2>8 DEF Covered
<1>5. CASE WorkerInvalidate(w)
  <2>1. /\ inbox[w] # <<>> /\ inbox[w][1].type = "invalidate" /\ inbox'[w] = Tail(inbox[w])
        /\ outbox'[w] = Append(outbox[w], InvalidatedReply) /\ InvalidatedReply.type = "invalidated"
        /\ reported'[w] = {} /\ UNCHANGED <<jobs, life, touched>>
    BY <1>2, <1>5, TailAt DEF WorkerInvalidate, InvalidatedReply
  <2>2. 1 \in Due(w)
    BY <1>2, <2>1, TailAt DEF Due
  <2>3. jobs'[w] \cap current' = {}
    BY <1>1, <2>1, <2>2 DEF Covered
  <2>4. /\ \A i \in Requested(w)' : i + 1 \in Requested(w) /\ inbox'[w][i] = inbox[w][i + 1] /\ i \in Nat
        /\ \A j \in Due(w)' : j + 1 \in Due(w) /\ j \in Nat
    BY <1>2, <2>1, TailAt DEF Requested, Due
  <2>5. ASSUME NEW i \in Requested(w)', inbox'[w][i].task \in current', NEW j \in Due(w)'
        PROVE  j < i
    <3>1. j + 1 < i + 1
      BY <1>1, <2>4, <2>5 DEF Covered
    <3> QED BY <2>4, <3>1
  <2>6. \A i \in Answered(w)' : i \in Answered(w) /\ outbox'[w][i] = outbox[w][i]
    BY <1>2, <2>1, AppendAt DEF Answered
  <2>7. \A i \in Answered(w)' :
          LET reply == outbox'[w][i]
          IN /\ reply.delta # {} => reply.type = "result" /\ reply.tracked
             /\ reply.type = "result" /\ reply.task \in current' \cap inflight' =>
                  ~reply.tracked \/ touched'[reply.task] \subseteq executed' \cup reply.delta
    BY <1>1, <1>3, <2>1, <2>6
  <2> QED BY <2>1, <2>3, <2>5, <2>7 DEF Covered
<1>6. ASSUME NEW t \in Tasks, NEW m \in Modules, WorkerLoad(w, t, m)
      PROVE  Covered(w)'
  <2>1. /\ t \in jobs[w] /\ UNCHANGED <<inbox, outbox, life, jobs, reported>>
        /\ touched' = [touched EXCEPT ![t] = @ \cup {m}]
        /\ cache'[w] = cache[w] \cup {m}
    BY <1>2, <1>6 DEF WorkerLoad, channels
  <2>2. Requested(w) = {} /\ Answered(w) = {} /\ \A s \in jobs[w] : s = t
    BY <2>1 DEF SoloInv, Solo
  <2>3. Requested(w)' = {} /\ Answered(w)' = {} /\ Due(w)' = Due(w) /\ Deltas(w)' = Deltas(w)
    BY <2>1, <2>2 DEF Requested, Answered, Due, Deltas
  <2>4. \A s \in jobs'[w] \cap current' : touched'[s] \subseteq cache'[w] /\ Due(w)' = {}
    BY <1>1, <1>2, <2>1, <2>2, <2>3 DEF Covered
  <2> QED BY <1>1, <2>1, <2>3, <2>4 DEF Covered
<1>7. ASSUME NEW t \in Tasks, WorkerFinish(w, t)
      PROVE  Covered(w)'
  <2>1. /\ t \in jobs[w] /\ UNCHANGED <<inbox, life, touched, cache>>
        /\ jobs'[w] = jobs[w] \ {t}
    BY <1>2, <1>7 DEF WorkerFinish
  <2>2. jobs'[w] = {} /\ Requested(w) = {} /\ Answered(w) = {}
    BY <2>1 DEF SoloInv, Solo
  <2>3. Requested(w)' = {} /\ Due(w)' = Due(w)
    BY <2>1, <2>2 DEF Requested, Due
  <2>4. ASSUME NEW r, outbox' = [outbox EXCEPT ![w] = Append(@, r)], r.type # "invalidated"
        PROVE  (\A i \in Answered(w)' : outbox'[w][i] = r) /\ Deltas(w)' = r.delta
    <3>1. outbox'[w] = Append(outbox[w], r)
      BY <1>2, <2>4
    <3>2. \A i \in Answered(w)' : i = Len(outbox[w]) + 1 /\ outbox'[w][i] = r
      BY <1>2, <2>2, <3>1, AppendAt DEF Answered
    <3>3. Len(outbox[w]) + 1 \in Answered(w)'
      BY <1>2, <2>4, <3>1, AppendKeeps DEF Answered
    <3> QED BY <3>2, <3>3 DEF Deltas
  <2>5. CASE outbox' = [outbox EXCEPT ![w] = Append(@, ErrorReply(t))] /\ reported' = reported
    <3>1. ErrorReply(t).type = "error" /\ ErrorReply(t).delta = {}
      BY DEF ErrorReply
    <3>2. Deltas(w) = {}
      BY <2>2 DEF Deltas
    <3>3. \A i \in Answered(w)' : outbox'[w][i].type = "error" /\ outbox'[w][i].delta = {}
      BY <2>4, <2>5, <3>1
    <3>4. w \in pool' /\ life'[w] = "live" /\ Due(w)' = {} => reported'[w] \subseteq executed'
      BY <1>1, <2>1, <2>3, <2>5, <3>2 DEF Covered
    <3> QED BY <2>2, <2>3, <3>3, <3>4 DEF Covered
  <2>6. ASSUME touched[t] = Needs[t],
               NEW delta, delta = (IF TracksModules THEN cache[w] \ reported[w] ELSE {}),
               outbox' = [outbox EXCEPT ![w] = Append(@, ResultReply(t, delta))],
               reported' = [reported EXCEPT ![w] = @ \cup delta]
        PROVE  Covered(w)'
    <3>1. LET r == ResultReply(t, delta)
          IN r.type = "result" /\ r.task = t /\ r.delta = delta /\ r.tracked = TracksModules
      BY DEF ResultReply
    <3>2. (\A i \in Answered(w)' : outbox'[w][i] = ResultReply(t, delta)) /\ Deltas(w)' = delta
      BY <2>4, <2>6, <3>1
    <3>3. reported'[w] = reported[w] \cup delta
      BY <1>2, <2>6
    <3>4. w \in pool /\ life[w] = "live" /\ Due(w) = {} => reported[w] \subseteq executed
      BY <2>2 DEF Covered, Deltas
    <3>5. ASSUME t \in current \cap inflight, TracksModules
          PROVE  touched[t] \subseteq executed \cup delta
      <4>1. w \in pool /\ life[w] = "live"
        BY <2>1, <3>5, TrailIs DEF TrailInv, SoloInv, Solo
      <4>2. Due(w) = {} /\ touched[t] \subseteq cache[w]
        BY <2>1, <3>5 DEF Covered
      <4> QED BY <2>6, <3>4, <3>5, <4>1, <4>2
    <3>6. \A i \in Answered(w)' :
            LET reply == outbox'[w][i]
            IN /\ reply.delta # {} => reply.type = "result" /\ reply.tracked
               /\ reply.type = "result" /\ reply.task \in current' \cap inflight' =>
                    ~reply.tracked \/ touched'[reply.task] \subseteq executed' \cup reply.delta
      BY <1>1, <2>1, <2>6, <3>1, <3>2, <3>5, TracksAssumption
    <3> QED BY <1>1, <2>1, <2>2, <2>3, <3>2, <3>3, <3>4, <3>6 DEF Covered
  <2> QED BY <1>7, <2>5, <2>6 DEF WorkerFinish
<1>8. CASE Die(w)
  <2>1. inbox'[w] = <<>> /\ jobs'[w] = {} /\ life'[w] = "dead" /\ outbox' = outbox /\ touched' = touched
    BY <1>2, <1>8 DEF Die
  <2>2. Requested(w)' = {} /\ Answered(w)' = Answered(w)
    BY <2>1 DEF Requested, Answered
  <2> QED BY <1>1, <1>3, <2>1, <2>2 DEF Covered
<1> QED BY <1>4, <1>5, <1>6, <1>7, <1>8 DEF WorkerStep

(* ... leaves the other workers alone, and is of no task that is settled. *)
LEMMA WorkerCover ==
  ASSUME CoverInv, NEW w \in Workers, WorkerStep(w) \/ Die(w)
  PROVE  TaskInv' /\ (\A v \in Workers : Covered(v)') /\ CoveredIfSentSince'
<1> USE DEF CoverInv, OwnershipInv
<1>1. UNCHANGED <<pool, queue, inflight, outcome, current, executed, untracked>>
  BY DEF WorkerStep, WorkerTransform, WorkerInvalidate, WorkerLoad, WorkerFinish, Die,
     scheduler, tracking, ghosts
<1>2. \A v \in Workers : v # w => /\ inbox'[v] = inbox[v] /\ outbox'[v] = outbox[v]
                                  /\ jobs'[v] = jobs[v] /\ life'[v] = life[v]
                                  /\ cache'[v] = cache[v] /\ reported'[v] = reported[v]
  BY DEF TypeOK, WorkerStep, WorkerTransform, WorkerInvalidate, WorkerLoad, WorkerFinish,
     Die, channels
<1>3. \A v \in Workers, s \in Tasks : Trail(v, s)' => Trail(v, s)
  BY WorkerTrail
<1>4. \A t \in Tasks : touched'[t] # touched[t] =>
        t \in jobs[w] /\ Requested(w) = {} /\ Trail(w, t)
  <2>1. ASSUME NEW s \in Tasks, NEW m \in Modules, WorkerLoad(w, s, m)
        PROVE  s \in jobs[w] /\ \A t \in Tasks : t # s => touched'[t] = touched[t]
    BY <2>1 DEF WorkerLoad, TypeOK
  <2>2. CASE touched' = touched
    BY <2>2
  <2>3. CASE \E s \in Tasks, m \in Modules : WorkerLoad(w, s, m)
    BY <2>1, <2>3, TrailIs DEF SoloInv, Solo
  <2> QED BY <2>2, <2>3 DEF WorkerStep, WorkerTransform, WorkerInvalidate, WorkerFinish, Die
<1>5. \A v \in Workers, t \in Tasks : v # w /\ Trail(v, t) => touched'[t] = touched[t]
  BY <1>4 DEF TaskInv
<1>6. \A v \in Workers : Covered(v)'
  BY <1>1, <1>2, <1>5, CoverFrame, WorkerCovered
<1>7. \A v \in Workers : \A i \in Requested(v)' :
        \E j \in Requested(v) : inbox'[v][i].task = inbox[v][j].task
  <2>1. ASSUME inbox[w] # <<>>, inbox'[w] = Tail(inbox[w])
        PROVE  \A i \in Requested(w)' : i + 1 \in Requested(w) /\ inbox'[w][i] = inbox[w][i + 1]
    BY <2>1, TailAt DEF Requested, TypeOK
  <2>2. \A v \in Workers : inbox'[v] = inbox[v] => Requested(v)' = Requested(v)
    BY DEF Requested
  <2>3. inbox'[w] = <<>> => Requested(w)' = {}
    BY DEF Requested
  <2>4. \/ inbox'[w] = inbox[w] \/ inbox'[w] = <<>>
        \/ inbox[w] # <<>> /\ inbox'[w] = Tail(inbox[w])
    BY DEF WorkerStep, WorkerTransform, WorkerInvalidate, WorkerLoad, WorkerFinish,
       Die, channels, TypeOK
  <2> QED BY <1>2, <2>1, <2>2, <2>3, <2>4
<1>8. \A t \in Tasks : Waiting(t)' => Waiting(t)
  BY <1>1, <1>7 DEF Waiting
<1>9. \A t \in Tasks : Waiting(t) => touched'[t] = touched[t]
  <2> SUFFICES ASSUME NEW t \in Tasks, Waiting(t), touched'[t] # touched[t]
               PROVE  FALSE
    OBVIOUS
  <2>1. outcome[t] # "idle" /\ t \notin ToSet(queue)
    BY <1>4 DEF TrailInv
  <2>2. PICK v \in Workers : \E i \in Requested(v) : inbox[v][i].task = t
    BY <2>1 DEF Waiting
  <2>3. v = w
    BY <1>4, <2>2, NamedIsTrail DEF TaskInv
  <2> QED BY <1>4, <2>2, <2>3
<1>10. TaskInv'
  BY <1>1, <1>3, <1>8, <1>9 DEF TaskInv
<1>11. CoveredIfSentSince'
  BY <1>1, <1>4 DEF CoveredIfSentSince, TaskInv, TypeOK
<1> QED BY <1>6, <1>10, <1>11

(* The invariant is inductive. *)
LEMMA CoverStep == CoverInv /\ [Next]_vars => CoverInv'
<1> SUFFICES ASSUME CoverInv, [Next]_vars PROVE CoverInv'
  OBVIOUS
<1>1. OwnershipInv' /\ SoloInv'
  BY OwnershipStep, SoloStep DEF CoverInv
<1>2. CASE UNCHANGED vars
  BY <1>1, <1>2, QuietCover
     DEF vars, scheduler, tracking, channels, loaders, ghosts, CoverInv
<1>3. CASE Next
  BY <1>1, <1>3, MainCover, InvalidateCover, OnMessageCover, WorkerCover DEF Next, CoverInv
<1> QED BY <1>2, <1>3

(* To begin with nothing was sent and nothing was used. *)
LEMMA CoverInit == Init => CoverInv
<1> SUFFICES ASSUME Init PROVE CoverInv
  OBVIOUS
<1>1. \A w \in Workers, t \in Tasks : ~Trail(w, t)
  BY DEF Init, Trail
<1>2. TaskInv
  BY <1>1 DEF Init, TaskInv
<1>3. \A w \in Workers : Covered(w)
  BY DEF Init, Covered, Requested, Answered
<1> QED BY <1>2, <1>3, OwnershipInit, SoloInit DEF Init, CoverInv, CoveredIfSentSince

(* firstPartyModulePaths() names every module used by a task that was sent   *)
(* and resolved since the last invalidation, or says that it cannot (the      *)
(* deltas of pool-worker.ts, which send a module once, and recordModulePaths  *)
(* and invalidate() of pool.ts).                                              *)
THEOREM CoveredCorrect == Spec => []CoveredIfSentSince
<1>1. CoverInv => CoveredIfSentSince
  BY DEF CoverInv
<1> QED BY <1>1, CoverInit, CoverStep, PTL DEF Spec
==================================================================================
