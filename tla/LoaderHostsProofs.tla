---------------------------- MODULE LoaderHostsProofs ----------------------------
(* Machine-checked proofs about the module loader under its hosts.            *)
EXTENDS MCLoaderHosts, FiniteSetTheorems, TLAPS

-----------------------------------------------------------------------------
(* The guard *)

(* The guard counts the loads whose module runs, and holds what was there     *)
(* before the first of them.                                                  *)
GuardInv ==
  /\ DOMAIN load = Loads
  /\ \A l \in Loads : "stage" \in DOMAIN load[l]
  /\ alive
  /\ guardDepth = Cardinality(Running)
  /\ guardDepth = 0 => exit = "real" /\ marker = userMarker
  /\ guardDepth # 0 => /\ exit = "throws" /\ marker = "1"
                       /\ savedExit = "real" /\ savedMarker = userMarker

(* The loads under way are finitely many. *)
LEMMA RunningFinite == IsFiniteSet(Running) /\ Cardinality(Running) \in Nat
<1>1. Running \subseteq Loads
  BY DEF Running
<1> QED BY <1>1, LoadsAssumption, FS_Subset, FS_CardinalityType

(* A load enters ... *)
LEMMA EnterGuard ==
  ASSUME GuardInv, EnterGuarded, NEW l \in Loads, l \notin Running,
         Running' = Running \cup {l}, userMarker' = userMarker
  PROVE  /\ guardDepth' = Cardinality(Running') /\ guardDepth' # 0
         /\ exit' = "throws" /\ marker' = "1" /\ savedExit' = "real" /\ savedMarker' = userMarker
<1>1. Cardinality(Running') = Cardinality(Running) + 1 /\ Cardinality(Running) \in Nat
  BY RunningFinite, FS_AddElement
<1> QED BY <1>1 DEF GuardInv, EnterGuarded, InstallGuard

(* ... and leaves. *)
LEMMA LeaveGuard ==
  ASSUME GuardInv, LeaveGuarded, NEW l \in Running, Running' = Running \ {l},
         userMarker' = userMarker
  PROVE  /\ guardDepth' = Cardinality(Running')
         /\ guardDepth' = 0 => exit' = "real" /\ marker' = userMarker
         /\ guardDepth' # 0 => /\ exit' = "throws" /\ marker' = "1"
                               /\ savedExit' = "real" /\ savedMarker' = userMarker
<1>1. Cardinality(Running') = Cardinality(Running) - 1 /\ Cardinality(Running) \in Nat
  BY RunningFinite, FS_RemoveElement
<1>2. Cardinality(Running) # 0
  BY RunningFinite, FS_EmptySet
<1> QED BY <1>1, <1>2 DEF GuardInv, LeaveGuarded, RestoreGuard

(* A step that leaves the guard alone and starts and ends no load. *)
LEMMA QuietGuard ==
  ASSUME GuardInv, UNCHANGED <<guard, alive, userMarker>>, DOMAIN load' = Loads,
         \A l \in Loads : /\ "stage" \in DOMAIN load'[l]
                          /\ load'[l].stage = "running" <=> load[l].stage = "running"
  PROVE  GuardInv'
<1>1. Running' = Running
  BY DEF Running
<1> QED BY <1>1 DEF GuardInv, guard

(* A load that was not running becomes another that is not. *)
LEMMA PlaceGuard ==
  ASSUME GuardInv, NEW l \in Loads, NEW r, load' = [load EXCEPT ![l] = r],
         load[l].stage # "running", r.stage # "running", "stage" \in DOMAIN r,
         UNCHANGED <<guard, alive, userMarker>>
  PROVE  GuardInv'
<1>1. DOMAIN load' = Loads /\ \A k \in Loads : load'[k] = IF k = l THEN r ELSE load[k]
  BY DEF GuardInv
<1>2. \A k \in Loads : /\ "stage" \in DOMAIN load'[k]
                       /\ load'[k].stage = "running" <=> load[k].stage = "running"
  BY <1>1 DEF GuardInv
<1> QED BY <1>1, <1>2, QuietGuard

(* The record of a load that has not begun. *)
LEMMA IdleLoadRecord ==
  /\ {"stage", "file", "seen", "suffix", "old"} \subseteq DOMAIN IdleLoad
  /\ IdleLoad.stage = "idle" /\ DOMAIN IdleLoad.seen = {}
BY DEF IdleLoad

(* A load settles, with or without its module. *)
LEMMA SettledGuard ==
  ASSUME GuardInv, NEW l \in Running, NEW stage, stage # "running", Settled(l, stage),
         UNCHANGED <<alive, userMarker>>
  PROVE  GuardInv'
<1>1. l \in Loads /\ load' = [load EXCEPT ![l].stage = stage] /\ LeaveGuarded
  BY DEF Running, Settled
<1>2. DOMAIN load' = Loads /\ \A k \in Loads : "stage" \in DOMAIN load'[k]
  BY <1>1 DEF GuardInv
<1>3. Running' = Running \ {l}
  BY <1>1 DEF GuardInv, Running
<1> QED BY <1>1, <1>2, <1>3, LeaveGuard DEF GuardInv

(* What a load does by itself. *)
LEMMA LoaderStepGuard ==
  ASSUME GuardInv, NEW l \in Loads, LoaderStep(l)
  PROVE  GuardInv'
<1>1. CASE Dequeue(l)
  <2>1. load' = [load EXCEPT ![l].stage = "running"] /\ EnterGuarded /\ l \notin Running
        /\ UNCHANGED <<alive, userMarker>>
    BY <1>1 DEF Dequeue, Running
  <2>2. DOMAIN load' = Loads /\ \A k \in Loads : "stage" \in DOMAIN load'[k]
    BY <2>1 DEF GuardInv
  <2>3. Running' = Running \cup {l}
    BY <2>1 DEF GuardInv, Running
  <2> QED BY <2>1, <2>2, <2>3, EnterGuard DEF GuardInv
<1>2. CASE Settle(l)
  BY <1>2, SettledGuard DEF Settle, Running
<1>3. ASSUME NEW m \in Files, Execute(l, m)
      PROVE  GuardInv'
  <2>1. \E seen, old : load' = [load EXCEPT ![l] = [load[l] EXCEPT !.seen = seen, !.old = old]]
    BY <1>3 DEF Execute
  <2> QED BY <1>3, <2>1, QuietGuard DEF Execute, GuardInv
<1>4. ASSUME NEW m \in Files, ProcessExit(l, m)
      PROVE  GuardInv'
  <2>1. l \in Running /\ guardDepth # 0
    <3>1. l \in Running
      BY <1>4 DEF ProcessExit, Running
    <3> QED BY <3>1, RunningFinite, FS_EmptySet DEF GuardInv
  <2>2. Settled(l, "failed") /\ UNCHANGED <<alive, userMarker>>
    BY <1>4, <2>1 DEF ProcessExit, GuardInv
  <2> QED BY <2>1, <2>2, SettledGuard
<1> QED BY <1>1, <1>2, <1>3, <1>4 DEF LoaderStep

(* A client asks for a load: a native one starts at once. *)
LEMMA RequestGuard ==
  ASSUME GuardInv, NEW l \in Loads, NEW f, Request(l, f)
  PROVE  GuardInv'
<1>1. l \notin Running /\ UNCHANGED <<alive, userMarker>>
  BY DEF Request, Running
<1>2. CASE f \in Native
  <2> DEFINE r == [IdleLoad EXCEPT !.stage = "running", !.file = f, !.suffix = cacheGeneration]
  <2>0. r.stage = "running" /\ "stage" \in DOMAIN r
    BY IdleLoadRecord
  <2>1. load' = [load EXCEPT ![l] = r] /\ r.stage = "running" /\ "stage" \in DOMAIN r
    BY <1>2, <2>0 DEF Request
  <2> HIDE DEF r
  <2>2. EnterGuarded
    BY <1>2 DEF Request
  <2>3. DOMAIN load' = Loads /\ \A k \in Loads : "stage" \in DOMAIN load'[k]
    BY <2>1 DEF GuardInv
  <2>4. Running' = Running \cup {l}
    BY <2>1 DEF GuardInv, Running
  <2> QED BY <1>1, <2>2, <2>3, <2>4, EnterGuard DEF GuardInv
<1>3. CASE f \notin Native
  <2> DEFINE r == [IdleLoad EXCEPT !.stage = "queued", !.file = f]
  <2>1. load' = [load EXCEPT ![l] = r] /\ UNCHANGED guard
    BY <1>3 DEF Request
  <2>2. r.stage = "queued" /\ "stage" \in DOMAIN r
    BY IdleLoadRecord
  <2> HIDE DEF r
  <2> QED BY <1>1, <2>1, <2>2, PlaceGuard DEF Running
<1> QED BY <1>2, <1>3

(* ... takes what it led to ... *)
LEMMA TakeGuard ==
  ASSUME GuardInv, NEW l \in Loads, Take(l)
  PROVE  GuardInv'
BY IdleLoadRecord, PlaceGuard DEF Take

(* ... or empties the cache. *)
LEMMA StraddleGuard ==
  ASSUME GuardInv, Straddle, UNCHANGED <<guard, alive, userMarker>>
  PROVE  GuardInv'
BY QuietGuard DEF GuardInv, Straddle

(* Whatever the hosts do, the guard is as it should be. *)
LEMMA GuardStep == GuardInv /\ [Next]_vars => GuardInv'
<1> SUFFICES ASSUME GuardInv, [Next]_vars PROVE GuardInv'
  OBVIOUS
<1>1. CASE UNCHANGED <<guard, load, alive, userMarker>>
  BY <1>1, QuietGuard DEF GuardInv
<1>2. CASE WatchNext
  <2>1. CASE \E i \in Loads : LoaderStep(i)
    BY <2>1, LoaderStepGuard
  <2>2. CASE \E i \in Loads : Flush(i)
    BY <2>2, StraddleGuard DEF Flush, InvalidateModuleCache
  <2>3. ASSUME NEW i \in Loads, WatchTask(i)
        PROVE  GuardInv'
    BY <1>1, <2>3, RequestGuard, TakeGuard
       DEF WatchTask, Generate, Discover, Discovered, Write, Finish, loaderVars
  <2> QED BY <1>1, <1>2, <2>1, <2>2, <2>3
          DEF WatchNext, WatchTimer, WatchLoad, WatchEdit, Edit, Notice, loaderVars
<1>3. CASE SwcNext
  <2>1. CASE \E l \in Loads : LoaderStep(l)
    BY <2>1, LoaderStepGuard
  <2>2. ASSUME NEW l \in Loads, SwcAnswering(l)
        PROVE  GuardInv'
    BY <1>1, <2>2, RequestGuard, TakeGuard, StraddleGuard
       DEF SwcAnswering, Transform, SwcDiscover, Answer, InvalidateOnContentChange,
           InvalidateModuleCache
  <2> QED BY <1>1, <1>3, <2>1, <2>2 DEF SwcNext, SwcLoad, SwcEdit, Edit, Read, loaderVars
<1> QED BY <1>1, <1>2, <1>3 DEF Next, Watch, Swc, vars, loaderVars

(* To begin with nothing runs. *)
LEMMA GuardInit == Init => GuardInv
<1> SUFFICES ASSUME Init PROVE GuardInv
  OBVIOUS
<1>1. load = [l \in Loads |-> IdleLoad] /\ IdleLoad.stage = "idle" /\ "stage" \in DOMAIN IdleLoad
  BY DEF Init, LoaderInit, IdleLoad
<1>2. Running = {}
  BY <1>1 DEF Running
<1>3. Cardinality({}) = 0
  BY FS_EmptySet
<1> QED BY <1>1, <1>2, <1>3 DEF Init, LoaderInit, GuardInv

(* However many loads overlap, in whatever order they enter, fail and settle,  *)
(* process.exit() throws and the marker is set while a module runs, and both    *)
(* are what they were while none does (runGuarded() in loader.ts).             *)
THEOREM GuardCorrect == Spec => []GuardIsSound
<1>1. GuardInv => GuardIsSound
  <2> SUFFICES ASSUME GuardInv PROVE GuardIsSound
    OBVIOUS
  <2>1. Running = {} <=> guardDepth = 0
    BY RunningFinite, FS_EmptySet DEF GuardInv
  <2> QED BY <2>1 DEF GuardInv, GuardIsSound, GuardHolds, GuardIsRestored
<1> QED BY <1>1, GuardInit, GuardStep, PTL DEF Spec

-----------------------------------------------------------------------------
(* A behaviour is of one host. *)
LEMMA HostKept ==
  /\ Next => host' = host
  /\ UNCHANGED vars => host' = host
  /\ Init => host \in {"watch", "swc"}
BY ScenariosAssumption DEF Next, vars, Init, host

-----------------------------------------------------------------------------
(* The cache under the SWC bridge *)

(* An execution that is as the host was told, up to what ran ahead of it. *)
AsFed(e, m) == /\ m \in Files
               /\ \A d \in Imports[m] \ (ahead \cup Native) :
                    e[d] = lastSeenCode[d] /\ lastSeenCode[d] # None

(* Loads and calls are records of the fields their updates name. *)
Records ==
  /\ DOMAIN load = Loads
  /\ \A l \in Loads : /\ {"stage", "file", "seen", "suffix", "old"} \subseteq DOMAIN load[l]
                      /\ load[l].stage = "idle" => DOMAIN load[l].seen = {}
  /\ DOMAIN cache \subseteq Files /\ host \in {"watch", "swc"}
  /\ content \in [Files -> Contents]
  /\ lastSeenCode \in [Files -> Contents \cup {None}]
  /\ call \in [Loads -> [file : Files \cup {None}, code : Contents \cup {None},
                         stage : {"idle", "read", "load", "wait"}]]
  /\ \A l \in Loads : call[l].stage = "read" => call[l].code \in Contents
  /\ host = "watch" => lastSeenCode = [f \in Files |-> None]

(* The cache holds what the host handed in last; so does what a load has seen *)
(* since the cache was emptied, of which it makes what it adds to the cache.  *)
CacheIsFed == \A m \in DOMAIN cache \ straddled : AsFed(cache[m], m)
LoadIsFed(l) == ~load[l].old => \A m \in DOMAIN load[l].seen : AsFed(load[l].seen[m], m)

FedInv == Records /\ (host = "swc" => CacheIsFed /\ \A l \in Loads : LoadIsFed(l))

(* A load changes its stage only. *)
LEMMA StageRecord ==
  ASSUME Records, NEW l \in Loads, NEW stage, stage # "idle",
         load' = [load EXCEPT ![l].stage = stage]
  PROVE  /\ DOMAIN load' = Loads
         /\ \A k \in Loads : /\ {"stage", "file", "seen", "suffix", "old"} \subseteq DOMAIN load'[k]
                             /\ load'[k].stage = "idle" => DOMAIN load'[k].seen = {}
                             /\ load'[k].seen = load[k].seen /\ load'[k].old = load[k].old
BY DEF Records

(* A load is replaced by one that has seen nothing. *)
LEMMA NewRecord ==
  ASSUME Records, NEW l \in Loads, NEW r, load' = [load EXCEPT ![l] = r],
         {"stage", "file", "seen", "suffix", "old"} \subseteq DOMAIN r, DOMAIN r.seen = {}
  PROVE  /\ DOMAIN load' = Loads
         /\ \A k \in Loads : /\ {"stage", "file", "seen", "suffix", "old"} \subseteq DOMAIN load'[k]
                             /\ load'[k].stage = "idle" => DOMAIN load'[k].seen = {}
                             /\ \/ load'[k].seen = load[k].seen /\ load'[k].old = load[k].old
                                \/ DOMAIN load'[k].seen = {}
BY DEF Records

(* A step that executes nothing and hands nothing in. *)
LEMMA QuietFed ==
  ASSUME FedInv, UNCHANGED <<cache, straddled, ahead, lastSeenCode, host>>,
         \A k \in Loads : \/ load'[k].seen = load[k].seen /\ load'[k].old = load[k].old
                          \/ DOMAIN load'[k].seen = {},
         Records'
  PROVE  FedInv'
<1>1. CacheIsFed => CacheIsFed'
  BY DEF CacheIsFed, AsFed
<1>2. \A l \in Loads : LoadIsFed(l) => LoadIsFed(l)'
  BY DEF LoadIsFed, AsFed
<1> QED BY <1>1, <1>2 DEF FedInv

(* The cache is emptied: no load can add to what is fed. *)
LEMMA EmptiedFed ==
  ASSUME FedInv, InvalidateModuleCache, Records', host' = host
  PROVE  FedInv'
<1>1. DOMAIN cache' = {}
  BY DEF InvalidateModuleCache
<1>2. \A l \in Loads : load'[l].old \/ DOMAIN load'[l].seen = {}
  BY DEF InvalidateModuleCache, Straddle, FedInv, Records
<1> QED BY <1>1, <1>2 DEF FedInv, CacheIsFed, LoadIsFed

(* A load reaches a module. *)
LEMMA ExecuteFed ==
  ASSUME FedInv, NEW l \in Loads, NEW m \in Files, Execute(l, m), host = "swc", Records',
         ahead' = ahead \cup {k \in DOMAIN cache' \ DOMAIN cache : lastSeenCode[k] # content[k]},
         UNCHANGED <<lastSeenCode, host>>
  PROVE  FedInv'
<1>1. Imports[m] \subseteq Files /\ m \in Imports[m] /\ \A d \in Imports[m] : d \in Imports[d]
  BY ImportsAssumption
<1>2. PICK e : e = Sight(l, m)
  OBVIOUS
<1>3. load' = [load EXCEPT ![l].seen = WithEntry(@, m, e), ![l].old = @ \/ m \in straddled]
  BY <1>2 DEF Execute
<1>4. /\ \A k \in Loads : k # l => load'[k] = load[k]
      /\ load'[l].seen = WithEntry(load[l].seen, m, e)
      /\ load'[l].old = (load[l].old \/ m \in straddled)
  BY <1>3 DEF FedInv, Records
<1>5. \A x, k : AsFed(x, k) => AsFed(x, k)'
  BY DEF AsFed
<1>6. ASSUME ~load[l].old, m \notin straddled
      PROVE  AsFed(e, m)'
  <2>1. CASE m \in Native
    BY <2>1, ImportsAssumption DEF AsFed
  <2>2. CASE m \notin Native /\ m \in DOMAIN cache
    <3>1. e = cache[m]
      BY <1>2, <2>2 DEF Sight, Cached
    <3> QED BY <1>5, <1>6, <2>2, <3>1 DEF FedInv, CacheIsFed
  <2>3. CASE m \notin Native /\ m \notin DOMAIN cache
    <3>1. e = Fresh(l, m)
      BY <1>2, <2>3 DEF Sight, Cached
    <3>2. m \in DOMAIN cache' \ DOMAIN cache
      BY <2>3 DEF Execute, WithEntry
    <3>3. \A d \in Imports[m] : e[d] = IF d = m THEN content[m] ELSE load[l].seen[d][d]
      BY <3>1 DEF Fresh
    <3>4. m \notin ahead' => e[m] = lastSeenCode[m] /\ lastSeenCode[m] # None
      BY <1>1, <3>2, <3>3, NoneAssumption DEF FedInv, Records
    <3>5. \A d \in Imports[m] \ (ahead' \cup Native) :
            d # m => e[d] = lastSeenCode[d] /\ lastSeenCode[d] # None
      <4>1. \A d \in Imports[m] : d # m => AsFed(load[l].seen[d], d)
        BY <1>6 DEF Execute, FedInv, LoadIsFed
      <4> QED BY <1>1, <3>3, <4>1 DEF AsFed
    <3> QED BY <3>4, <3>5 DEF AsFed
  <2> QED BY <2>1, <2>2, <2>3
<1>7. \A k \in Loads : LoadIsFed(k)'
  <2>1. \A k \in Loads : k # l => LoadIsFed(k)'
    BY <1>4, <1>5 DEF FedInv, LoadIsFed
  <2>2. ASSUME ~load'[l].old, NEW k \in DOMAIN load'[l].seen
        PROVE  AsFed(load[l].seen[k], k)'
    <3>1. ~load[l].old /\ m \notin straddled
      BY <1>4, <2>2
    <3>2. CASE k \in DOMAIN load[l].seen
      <4>1. load'[l].seen[k] = load[l].seen[k]
        BY <1>4, <3>2 DEF WithEntry
      <4>2. AsFed(load[l].seen[k], k)
        BY <3>1, <3>2 DEF FedInv, LoadIsFed
      <4> QED BY <4>1, <4>2 DEF AsFed
    <3>3. CASE k \notin DOMAIN load[l].seen
      <4>1. k = m /\ load'[l].seen[k] = e
        BY <1>4, <2>2, <3>3 DEF WithEntry
      <4> QED BY <1>6, <3>1, <4>1 DEF AsFed
    <3> QED BY <3>2, <3>3
  <2> QED BY <2>1, <2>2 DEF LoadIsFed
<1>8. CacheIsFed'
  <2>1. CASE UNCHANGED <<cache, straddled>>
    BY <1>5, <2>1 DEF FedInv, CacheIsFed
  <2>2. CASE /\ cache' = WithEntry(cache, m, e)
             /\ straddled' = IF load[l].old /\ m \notin DOMAIN cache THEN straddled \cup {m}
                                                                     ELSE straddled
    <3> SUFFICES ASSUME NEW k \in DOMAIN cache' \ straddled'
                 PROVE  AsFed(cache[k], k)'
      BY DEF CacheIsFed
    <3>1. CASE k \in DOMAIN cache
      <4>1. cache'[k] = cache[k] /\ AsFed(cache[k], k)
        BY <2>2, <3>1 DEF WithEntry, FedInv, CacheIsFed
      <4> QED BY <4>1 DEF AsFed
    <3>2. CASE k \notin DOMAIN cache
      <4>1. k = m /\ cache'[k] = e /\ ~load[l].old /\ m \notin straddled
        BY <2>2, <3>2 DEF WithEntry
      <4> QED BY <1>6, <4>1 DEF AsFed
    <3> QED BY <3>1, <3>2
  <2> QED BY <1>2, <2>1, <2>2 DEF Execute, Cached
<1> QED BY <1>7, <1>8 DEF FedInv

(* The records stay records: a load by itself, ... *)
LEMMA LoaderStepRecords ==
  ASSUME Records, NEW l \in Loads, LoaderStep(l), UNCHANGED <<lastSeenCode, call, host>>
  PROVE  Records'
<1>1. content' = content
  BY DEF LoaderStep, Dequeue, Settle, Execute, ProcessExit, disk
<1>2. CASE load' = load /\ cache' = cache
  BY <1>1, <1>2 DEF Records
<1>3. CASE /\ \E stage \in {"running", "done", "failed"} : load' = [load EXCEPT ![l].stage = stage]
           /\ cache' = cache
  BY <1>1, <1>3, StageRecord DEF Records
<1>4. ASSUME NEW m \in Files, Execute(l, m)
      PROVE  Records'
  <2>1. load[l].stage = "running"
    BY <1>4 DEF Execute
  <2>2. \E seen, old : load' = [load EXCEPT ![l] = [load[l] EXCEPT !.seen = seen, !.old = old]]
    BY <1>4 DEF Execute
  <2>3. DOMAIN cache' \subseteq DOMAIN cache \cup {m}
    BY <1>4 DEF Execute, WithEntry
  <2> QED BY <1>1, <2>1, <2>2, <2>3 DEF Records
<1> QED BY <1>2, <1>3, <1>4 DEF LoaderStep, Dequeue, Settle, ProcessExit, Settled, caches

(* ... and its clients, who ask for a load or take what it led to. *)
LEMMA ClientRecord ==
  ASSUME NEW l \in Loads, Take(l) \/ \E f : Request(l, f)
  PROVE  \E r : /\ load' = [load EXCEPT ![l] = r] /\ DOMAIN r.seen = {}
                /\ {"stage", "file", "seen", "suffix", "old"} \subseteq DOMAIN r
<1>1. CASE Take(l)
  BY <1>1, IdleLoadRecord DEF Take
<1>2. ASSUME NEW f, Request(l, f), f \in Native
      PROVE  \E r : /\ load' = [load EXCEPT ![l] = r] /\ DOMAIN r.seen = {}
                    /\ {"stage", "file", "seen", "suffix", "old"} \subseteq DOMAIN r
  <2> DEFINE r == [IdleLoad EXCEPT !.stage = "running", !.file = f, !.suffix = cacheGeneration]
  <2>1. DOMAIN r = DOMAIN IdleLoad /\ r.seen = IdleLoad.seen
    BY IdleLoadRecord
  <2>2. load' = [load EXCEPT ![l] = r]
    BY <1>2 DEF Request
  <2> HIDE DEF r
  <2> QED BY <2>1, <2>2, IdleLoadRecord
<1>3. ASSUME NEW f, Request(l, f), f \notin Native
      PROVE  \E r : /\ load' = [load EXCEPT ![l] = r] /\ DOMAIN r.seen = {}
                    /\ {"stage", "file", "seen", "suffix", "old"} \subseteq DOMAIN r
  <2> DEFINE r == [IdleLoad EXCEPT !.stage = "queued", !.file = f]
  <2>1. DOMAIN r = DOMAIN IdleLoad /\ r.seen = IdleLoad.seen
    BY IdleLoadRecord
  <2>2. load' = [load EXCEPT ![l] = r]
    BY <1>3 DEF Request
  <2> HIDE DEF r
  <2> QED BY <2>1, <2>2, IdleLoadRecord
<1> QED BY <1>1, <1>2, <1>3

(* The types of what a call is made of. *)
CallRecords == [file : Files \cup {None}, code : Contents \cup {None},
                stage : {"idle", "read", "load", "wait"}]

(* Neither executes anything. *)
LEMMA ClientFed ==
  ASSUME FedInv, NEW l \in Loads, Take(l) \/ \E f : Request(l, f),
         UNCHANGED <<lastSeenCode, ahead, host>>, call' \in [Loads -> CallRecords],
         \A k \in Loads : call'[k].stage = "read" => call'[k] = call[k]
  PROVE  FedInv'
<1>1. UNCHANGED <<cache, straddled, content>>
  BY DEF Take, Request, caches, disk
<1>2. PICK r : /\ load' = [load EXCEPT ![l] = r] /\ DOMAIN r.seen = {}
               /\ {"stage", "file", "seen", "suffix", "old"} \subseteq DOMAIN r
  BY ClientRecord
<1>3. Records'
  BY <1>1, <1>2, NewRecord DEF FedInv, Records, CallRecords
<1> QED BY <1>1, <1>2, <1>3, NewRecord, QuietFed DEF FedInv

(* A load by itself executes a module or only moves on. *)
LEMMA LoadFed ==
  ASSUME FedInv, NEW l \in Loads, SwcLoad(l), host = "swc", host' = host
  PROVE  FedInv'
<1>1. LoaderStep(l) /\ UNCHANGED <<lastSeenCode, call>>
      /\ ahead' = ahead \cup {m \in DOMAIN cache' \ DOMAIN cache : lastSeenCode[m] # content[m]}
  BY DEF SwcLoad
<1>2. Records'
  BY <1>1, LoaderStepRecords DEF FedInv
<1>3. ASSUME UNCHANGED <<cache, straddled>>, NEW stage \in {"running", "done", "failed"},
             load' = [load EXCEPT ![l].stage = stage] \/ load' = load
      PROVE  FedInv'
  BY <1>1, <1>2, <1>3, QuietFed, StageRecord DEF FedInv
<1>4. ASSUME NEW m \in Files, Execute(l, m)
      PROVE  FedInv'
  BY <1>1, <1>2, <1>4, ExecuteFed
<1> QED BY <1>1, <1>3, <1>4 DEF LoaderStep, Dequeue, Settle, ProcessExit, Settled, caches

(* invalidateOnContentChange(): a text that is not the last one empties the   *)
(* cache, and the first one of a file is no news.                             *)
LEMMA TransformFed ==
  ASSUME FedInv, NEW l \in Loads, Transform(l), host = "swc", host' = host
  PROVE  FedInv'
<1> DEFINE f == call[l].file
           code == call[l].code
<1>1. /\ code \in Contents /\ content' = content
      /\ lastSeenCode' = [lastSeenCode EXCEPT ![f] = code]
      /\ call' = [call EXCEPT ![l] = IF f \in Included THEN [call[l] EXCEPT !.stage = "load"]
                                                       ELSE IdleCall]
  BY DEF Transform, InvalidateOnContentChange, disk, FedInv, Records
<1>2. /\ call' \in [Loads -> CallRecords]
      /\ \A k \in Loads : call'[k].stage = "read" => call'[k] = call[k]
  <2>1. call \in [Loads -> CallRecords] /\ IdleCall \in CallRecords /\ IdleCall.stage = "idle"
    BY DEF FedInv, Records, CallRecords, IdleCall
  <2>2. /\ [call[l] EXCEPT !.stage = "load"] \in CallRecords
        /\ [call[l] EXCEPT !.stage = "load"].stage = "load"
    BY <2>1 DEF CallRecords
  <2> QED BY <1>1, <2>1, <2>2
<1>3. lastSeenCode' \in [Files -> Contents \cup {None}]
  BY <1>1 DEF FedInv, Records
<1>4. ASSUME /\ DOMAIN load' = Loads
             /\ \A k \in Loads : /\ {"stage", "file", "seen", "suffix", "old"} \subseteq DOMAIN load'[k]
                                 /\ load'[k].stage = "idle" => DOMAIN load'[k].seen = {},
             DOMAIN cache' \subseteq DOMAIN cache
      PROVE  Records'
  BY <1>1, <1>2, <1>3, <1>4 DEF FedInv, Records, CallRecords
<1>5. CASE lastSeenCode[f] \notin {None, code}
  <2>1. InvalidateModuleCache
    BY <1>5 DEF Transform, InvalidateOnContentChange
  <2>2. Records'
    BY <1>4, <2>1 DEF InvalidateModuleCache, Straddle, FedInv, Records
  <2> QED BY <2>1, <2>2, EmptiedFed
<1>6. CASE lastSeenCode[f] \in {None, code}
  <2>1. UNCHANGED <<caches, load, ahead>>
    BY <1>6 DEF Transform, InvalidateOnContentChange
  <2>2. Records'
    BY <1>4, <2>1 DEF FedInv, Records, caches
  <2>3. \A d \in Files : lastSeenCode[d] # None => lastSeenCode'[d] = lastSeenCode[d]
    BY <1>1, <1>6 DEF FedInv, Records
  <2>4. \A e, m : AsFed(e, m) => AsFed(e, m)'
    BY <2>1, <2>3, ImportsAssumption DEF AsFed
  <2>5. CacheIsFed'
    BY <2>1, <2>4 DEF FedInv, CacheIsFed, caches
  <2>6. \A k \in Loads : LoadIsFed(k)'
    BY <2>1, <2>4 DEF FedInv, LoadIsFed
  <2> QED BY <2>2, <2>5, <2>6 DEF FedInv
<1> QED BY <1>5, <1>6

(* Watch mode hands nothing in. *)
LEMMA WatchRecords ==
  ASSUME Records, Watch, host' = host
  PROVE  Records'
<1>1. UNCHANGED <<lastSeenCode, call, host>>
  BY DEF Watch, swcVars
<1>2. CASE \E i \in Loads : LoaderStep(i)
  BY <1>1, <1>2, LoaderStepRecords
<1>3. CASE UNCHANGED <<cache, load>> /\ content' \in [Files -> Contents]
  BY <1>1, <1>3 DEF Records
<1>4. ASSUME NEW i \in Loads, Take(i) \/ \E f : Request(i, f)
      PROVE  Records'
  <2>1. UNCHANGED <<cache, content>>
    BY <1>4 DEF Take, Request, caches, disk
  <2> QED BY <1>1, <1>4, <2>1, ClientRecord, NewRecord DEF Records
<1>5. ASSUME NEW i \in Loads, Flush(i)
      PROVE  Records'
  BY <1>1, <1>5 DEF Flush, InvalidateModuleCache, Straddle, disk, Records
<1>6. ASSUME NEW f \in Files, NEW c \in Contents, WatchEdit(f, c)
      PROVE  Records'
  BY <1>3, <1>6 DEF WatchEdit, Edit, caches, Records
<1>7. CASE UNCHANGED loaderVars
  BY <1>3, <1>7 DEF loaderVars, caches, disk, Records
<1>8. ASSUME NEW i \in Loads, WatchTask(i)
      PROVE  Records'
  BY <1>4, <1>7, <1>8 DEF WatchTask, Generate, Discover, Discovered, Write, Finish
<1> QED BY <1>2, <1>5, <1>6, <1>7, <1>8 DEF Watch, WatchNext, WatchTimer, WatchLoad, Notice

(* The other things either host does. *)
LEMMA FedStep == FedInv /\ [Next]_vars => FedInv'
<1> SUFFICES ASSUME FedInv, [Next]_vars PROVE FedInv'
  OBVIOUS
<1>0. host' = host
  BY HostKept
<1>1. CASE UNCHANGED vars
  BY <1>0, <1>1, QuietFed DEF FedInv, Records, vars, loaderVars, caches, disk, swcVars
<1>2. CASE Watch
  <2>1. host = "watch" /\ host' = host /\ UNCHANGED swcVars
    BY <1>0, <1>2 DEF Watch
  <2>2. Records'
    BY <1>0, <1>2, WatchRecords DEF FedInv
  <2> QED BY <2>1, <2>2 DEF FedInv
<1>3. CASE Swc
  <2>1. host = "swc" /\ host' = host
    BY <1>0, <1>3 DEF Swc
  <2>2. CASE \E f \in Files, c \in Contents : SwcEdit(f, c)
    <3>1. UNCHANGED <<cache, straddled, load, swcVars>> /\ content' \in [Files -> Contents]
      BY <2>2 DEF SwcEdit, Edit, caches, FedInv, Records
    <3>2. Records'
      BY <2>1, <3>1 DEF FedInv, Records, swcVars
    <3> QED BY <2>1, <3>1, <3>2, QuietFed DEF swcVars
  <2>3. ASSUME NEW l \in Loads, NEW f \in Fed, Read(l, f)
        PROVE  FedInv'
    <3>1. UNCHANGED <<cache, straddled, load, content, lastSeenCode, ahead>>
      BY <2>3 DEF Read, loaderVars, caches, disk
    <3>2. f \in Files /\ content[f] \in Contents
      BY SwcAssumption DEF FedInv, Records
    <3>3. call' = [call EXCEPT ![l] = [file |-> f, code |-> content[f], stage |-> "read"]]
      BY <2>3 DEF Read
    <3>4. Records'
      BY <2>1, <3>1, <3>2, <3>3 DEF FedInv, Records
    <3> QED BY <2>1, <3>1, <3>4, QuietFed
  <2>4. ASSUME NEW l \in Loads, Transform(l)
        PROVE  FedInv'
    BY <2>1, <2>4, TransformFed
  <2>5. ASSUME NEW l \in Loads, SwcDiscover(l) \/ Answer(l)
        PROVE  FedInv'
    <3>1. \E r : /\ call' = [call EXCEPT ![l] = r] /\ r.stage \in {"wait", "idle"} /\ r \in CallRecords
      <4>1. CASE SwcDiscover(l)
        <5>1. call' = [call EXCEPT ![l] = [call[l] EXCEPT !.stage = "wait"]]
          BY <2>5, <4>1 DEF SwcDiscover
        <5>2. [call[l] EXCEPT !.stage = "wait"] \in CallRecords /\ [call[l] EXCEPT !.stage = "wait"].stage = "wait"
          BY DEF FedInv, Records, CallRecords
        <5> QED BY <5>1, <5>2
      <4>2. CASE Answer(l)
        <5>1. IdleCall \in CallRecords /\ IdleCall.stage = "idle"
          BY DEF IdleCall, CallRecords
        <5> QED BY <4>2, <5>1 DEF Answer
      <4> QED BY <2>5, <4>1, <4>2
    <3>2. /\ call' \in [Loads -> CallRecords]
          /\ \A k \in Loads : call'[k].stage = "read" => call'[k] = call[k]
      BY <3>1 DEF FedInv, Records, CallRecords
    <3> QED BY <2>1, <2>5, <3>2, ClientFed DEF SwcDiscover, Answer
  <2>6. ASSUME NEW l \in Loads, SwcLoad(l)
        PROVE  FedInv'
    BY <2>1, <2>6, LoadFed
  <2> QED BY <1>3, <2>2, <2>3, <2>4, <2>5, <2>6 DEF Swc, SwcNext, SwcAnswering
<1> QED BY <1>1, <1>2, <1>3 DEF Next

(* To begin with nothing was handed in and nothing executed. *)
LEMMA FedInit == Init => FedInv
<1> SUFFICES ASSUME Init PROVE FedInv
  OBVIOUS
<1>1. Records
  BY IdleLoadRecord, HostKept DEF Init, LoaderInit, SwcInit, Records, IdleCall
<1>2. CacheIsFed /\ \A l \in Loads : LoadIsFed(l)
  BY IdleLoadRecord DEF Init, LoaderInit, CacheIsFed, LoadIsFed
<1> QED BY <1>1, <1>2 DEF FedInv

(* What is cached and no longer what the files say was edited and not handed   *)
(* in since, or is accounted for by what ran ahead of the host or across an     *)
(* invalidation (invalidateOnContentChange() in swc.ts, and loader.ts).        *)
THEOREM StaleCorrect == Spec => []StaleIsUnfed
<1>1. FedInv => StaleIsUnfed
  <2> SUFFICES ASSUME FedInv, NEW m \in DOMAIN cache \ straddled,
                      NEW d \in Imports[m] \ (ahead \cup Native), cache[m][d] # content[d]
               PROVE  lastSeenCode[d] # content[d]
    BY DEF StaleIsUnfed
  <2>1. CASE host = "swc"
    BY <2>1 DEF FedInv, CacheIsFed, AsFed
  <2>2. CASE host = "watch"
    <3>1. d \in Files
      BY ImportsAssumption DEF FedInv, Records
    <3> QED BY <2>2, <3>1, NoneAssumption DEF FedInv, Records
  <2> QED BY <2>1, <2>2 DEF FedInv, Records
<1> QED BY <1>1, FedInit, FedStep, PTL DEF Spec

-----------------------------------------------------------------------------
(* Types of the loader and its hosts *)

(* What a module is executed to, and what a load or the cache holds of them.  *)
Executions == UNION {[Imports[f] -> Contents] : f \in Files}
Sights == UNION {[D -> Executions] : D \in SUBSET Files}

LoadRecords == [stage : {"idle", "queued", "running", "done", "failed"},
                file : Files \cup {None}, seen : Sights, suffix : Nat, old : BOOLEAN]
TaskRecords == [on : BOOLEAN, todo : SUBSET Files, stage : {"next", "load", "wait", "write"},
                file : Schemas \cup {None}, made : Executions \cup {None}]

(* The loader's variables; the guard's are GuardInv's.                        *)
LoaderTypes ==
  /\ content \in [Files -> Contents] /\ edits \in 0 .. MaxEdits
  /\ cache \in Sights /\ DOMAIN cache \subseteq Files \ Native /\ AreExecutions(cache)
  /\ cacheGeneration \in Nat /\ DOMAIN native \subseteq Native \X (0 .. cacheGeneration)
  /\ \A k \in DOMAIN native : native[k] \in [Imports[k[1]] -> Contents]
  /\ load \in [Loads -> LoadRecords]
  /\ \A l \in Loads : /\ load[l].suffix <= cacheGeneration /\ AreExecutions(load[l].seen)
                      /\ load[l].stage = "idle" => load[l].seen = << >>
                      /\ load[l].stage # "idle" => load[l].file \in Files

(* A module is executed to something. *)
LEMMA ExecutionTypes ==
  /\ \A m \in Files : [Imports[m] -> Contents] \subseteq Executions
  /\ \A s \in Sights : DOMAIN s \subseteq Files /\ \A m \in DOMAIN s : s[m] \in Executions
  /\ << >> \in Sights /\ AreExecutions(<< >>) /\ DOMAIN << >> = {}
  /\ None \notin Executions
<1>1. \A m \in Files : [Imports[m] -> Contents] \subseteq Executions
  BY DEF Executions
<1>2. \A s \in Sights : DOMAIN s \subseteq Files /\ \A m \in DOMAIN s : s[m] \in Executions
  BY DEF Sights
<1>3. << >> = [x \in {} |-> None]
  OBVIOUS
<1>4. << >> \in [{} -> Executions] /\ DOMAIN << >> = {}
  BY <1>3
<1>5. << >> \in Sights
  BY <1>4 DEF Sights
<1> QED BY <1>1, <1>2, <1>4, <1>5, NoneAssumption DEF AreExecutions, Executions

(* One more module is in it. *)
LEMMA WithEntryTypes ==
  ASSUME NEW s \in Sights, AreExecutions(s), NEW m \in Files, NEW e \in [Imports[m] -> Contents]
  PROVE  /\ WithEntry(s, m, e) \in Sights /\ AreExecutions(WithEntry(s, m, e))
         /\ DOMAIN WithEntry(s, m, e) = DOMAIN s \cup {m}
         /\ \A x \in DOMAIN s : WithEntry(s, m, e)[x] = s[x]
         /\ m \notin DOMAIN s => WithEntry(s, m, e)[m] = e
<1>1. DOMAIN s \cup {m} \subseteq Files /\ e \in Executions /\ \A x \in DOMAIN s : s[x] \in Executions
  BY ExecutionTypes
<1>2. WithEntry(s, m, e) \in [DOMAIN s \cup {m} -> Executions]
  BY <1>1 DEF WithEntry
<1>3. WithEntry(s, m, e) \in Sights
  BY <1>1, <1>2 DEF Sights
<1> QED BY <1>3 DEF WithEntry, AreExecutions

(* What a load sees of a module is an execution of it. *)
LEMMA SightTypes ==
  ASSUME LoaderTypes, NEW l \in Loads, NEW m \in Files, Imports[m] \ {m} \subseteq DOMAIN load[l].seen
  PROVE  Sight(l, m) \in [Imports[m] -> Contents]
<1>1. CASE ~Cached(l, m)
  <2>1. \A d \in Imports[m] : d \in Files /\ d \in Imports[d]
    BY ImportsAssumption
  <2>2. \A d \in Imports[m] : d # m => load[l].seen[d][d] \in Contents
    BY <2>1 DEF LoaderTypes, AreExecutions
  <2>3. content[m] \in Contents
    BY DEF LoaderTypes
  <2>4. Fresh(l, m) \in [Imports[m] -> Contents]
    BY <2>2, <2>3 DEF Fresh
  <2> QED BY <1>1, <2>4 DEF Sight
<1>2. CASE Cached(l, m) /\ m \in Native
  <2>1. Sight(l, m) = native[Key(l, m)] /\ Key(l, m) \in DOMAIN native
    BY <1>2 DEF Sight, Cached
  <2>2. Key(l, m)[1] = m
    BY DEF Key
  <2> QED BY <2>1, <2>2 DEF LoaderTypes
<1>3. CASE Cached(l, m) /\ m \notin Native
  <2>1. Sight(l, m) = cache[m] /\ m \in DOMAIN cache
    BY <1>3 DEF Sight, Cached
  <2> QED BY <2>1 DEF LoaderTypes, AreExecutions
<1> QED BY <1>1, <1>2, <1>3

(* What a load does, one field at a time. *)
LEMMA ExecuteEffect ==
  ASSUME LoaderTypes, NEW l \in Loads, NEW m \in Files, Execute(l, m)
  PROVE  /\ load[l].stage = "running" /\ m \notin DOMAIN load[l].seen
         /\ Imports[m] \ {m} \subseteq DOMAIN load[l].seen /\ m \in Imports[load[l].file]
         /\ load' \in [Loads -> LoadRecords]
         /\ \A k \in Loads : k # l => load'[k] = load[k]
         /\ load'[l].stage = load[l].stage /\ load'[l].file = load[l].file
         /\ load'[l].suffix = load[l].suffix
         /\ load'[l].old <=> (load[l].old \/ m \in straddled)
         /\ AreExecutions(load'[l].seen)
         /\ DOMAIN load'[l].seen = DOMAIN load[l].seen \cup {m}
         /\ \A x \in DOMAIN load[l].seen : load'[l].seen[x] = load[l].seen[x]
         /\ load'[l].seen[m] = Sight(l, m)
         /\ Sight(l, m) \in [Imports[m] -> Contents]
<1>1. /\ load[l].stage = "running" /\ m \notin DOMAIN load[l].seen
      /\ Imports[m] \ {m} \subseteq DOMAIN load[l].seen /\ m \in Imports[load[l].file]
  BY DEF Execute
<1>2. Sight(l, m) \in [Imports[m] -> Contents]
  BY <1>1, SightTypes
<1> DEFINE s == WithEntry(load[l].seen, m, Sight(l, m))
           b == load[l].old \/ m \in straddled
<1>3. /\ load[l] \in LoadRecords /\ load[l].seen \in Sights /\ AreExecutions(load[l].seen)
      /\ load \in [Loads -> LoadRecords]
  BY DEF LoaderTypes, LoadRecords
<1>4. /\ s \in Sights /\ AreExecutions(s) /\ DOMAIN s = DOMAIN load[l].seen \cup {m}
      /\ \A x \in DOMAIN load[l].seen : s[x] = load[l].seen[x]
      /\ s[m] = Sight(l, m)
  BY <1>1, <1>2, <1>3, WithEntryTypes
<1>5. load' = [load EXCEPT ![l] = [load[l] EXCEPT !.seen = s, !.old = b]]
  BY <1>3 DEF Execute, LoadRecords
<1>6. b \in BOOLEAN /\ (b <=> (load[l].old \/ m \in straddled))
  OBVIOUS
<1> HIDE DEF s, b
<1> DEFINE r == [load[l] EXCEPT !.seen = s, !.old = b]
<1>7. /\ r \in LoadRecords /\ r.stage = load[l].stage /\ r.file = load[l].file
      /\ r.suffix = load[l].suffix /\ r.seen = s /\ r.old = b
  BY <1>3, <1>4, <1>6 DEF LoadRecords
<1> HIDE DEF r
<1>8. load' = [load EXCEPT ![l] = r]
  BY <1>5 DEF r
<1>9. load' \in [Loads -> LoadRecords] /\ load'[l] = r /\ \A k \in Loads : k # l => load'[k] = load[k]
  BY <1>3, <1>7, <1>8
<1> QED BY <1>1, <1>2, <1>4, <1>6, <1>7, <1>9

(* A load's stage alone changes, ... *)
LEMMA StageTypes ==
  ASSUME LoaderTypes, NEW l \in Loads, NEW stage \in {"running", "done", "failed"},
         load[l].stage # "idle", load' = [load EXCEPT ![l].stage = stage]
  PROVE  /\ load' \in [Loads -> LoadRecords]
         /\ \A k \in Loads : k # l => load'[k] = load[k]
         /\ load'[l].stage = stage /\ load'[l].file = load[l].file
         /\ load'[l].seen = load[l].seen /\ load'[l].suffix = load[l].suffix
         /\ load'[l].old = load[l].old
BY DEF LoaderTypes, LoadRecords

(* ... it is replaced, ... *)
LEMMA RequestEffect ==
  ASSUME LoaderTypes, NEW l \in Loads, NEW f \in Files, Request(l, f)
  PROVE  /\ load' \in [Loads -> LoadRecords] /\ load[l].stage = "idle"
         /\ \A k \in Loads : k # l => load'[k] = load[k]
         /\ load'[l].stage \in {"running", "queued"} /\ load'[l].file = f
         /\ load'[l].seen = << >> /\ ~load'[l].old
         /\ load'[l].suffix = IF f \in Native THEN cacheGeneration ELSE 0
<1>1. CASE f \in Native
  <2> DEFINE r == [IdleLoad EXCEPT !.stage = "running", !.file = f, !.suffix = cacheGeneration]
  <2>1. /\ r \in LoadRecords /\ r.stage = "running" /\ r.file = f /\ r.seen = << >>
        /\ r.suffix = cacheGeneration /\ ~r.old
    BY ExecutionTypes DEF IdleLoad, LoadRecords, LoaderTypes
  <2>2. load' = [load EXCEPT ![l] = r] /\ load[l].stage = "idle"
    BY <1>1 DEF Request
  <2> HIDE DEF r
  <2> QED BY <1>1, <2>1, <2>2 DEF LoaderTypes
<1>2. CASE f \notin Native
  <2> DEFINE r == [IdleLoad EXCEPT !.stage = "queued", !.file = f]
  <2>1. /\ r \in LoadRecords /\ r.stage = "queued" /\ r.file = f /\ r.seen = << >>
        /\ r.suffix = 0 /\ ~r.old
    BY ExecutionTypes DEF IdleLoad, LoadRecords
  <2>2. load' = [load EXCEPT ![l] = r] /\ load[l].stage = "idle"
    BY <1>2 DEF Request
  <2> HIDE DEF r
  <2> QED BY <1>2, <2>1, <2>2 DEF LoaderTypes
<1> QED BY <1>1, <1>2

(* ... becomes one that has not begun, ... *)
LEMMA TakeEffect ==
  ASSUME LoaderTypes, NEW l \in Loads, Take(l)
  PROVE  /\ load' \in [Loads -> LoadRecords] /\ load[l].stage \in {"done", "failed"}
         /\ \A k \in Loads : k # l => load'[k] = load[k]
         /\ load'[l] = IdleLoad
<1>1. IdleLoad \in LoadRecords
  BY ExecutionTypes DEF IdleLoad, LoadRecords
<1>2. load' = [load EXCEPT ![l] = IdleLoad] /\ load[l].stage \in {"done", "failed"}
  BY DEF Take
<1> QED BY <1>1, <1>2 DEF LoaderTypes

(* ... or all of them are old. *)
LEMMA StraddleEffect ==
  ASSUME LoaderTypes, Straddle
  PROVE  /\ load' \in [Loads -> LoadRecords]
         /\ \A l \in Loads : /\ load'[l].stage = load[l].stage /\ load'[l].file = load[l].file
                             /\ load'[l].seen = load[l].seen /\ load'[l].suffix = load[l].suffix
                             /\ load'[l].old <=> load[l].stage # "idle"
<1> DEFINE b(l) == load[l].stage # "idle"
           r(l) == [load[l] EXCEPT !.old = b(l)]
<1>1. ASSUME NEW l \in Loads
      PROVE  /\ r(l) \in LoadRecords /\ r(l).stage = load[l].stage /\ r(l).file = load[l].file
             /\ r(l).seen = load[l].seen /\ r(l).suffix = load[l].suffix /\ r(l).old = b(l)
  <2>1. load[l] \in LoadRecords /\ b(l) \in BOOLEAN
    BY DEF LoaderTypes
  <2> HIDE DEF b
  <2> QED BY <2>1 DEF LoadRecords
<1>2. load' = [l \in Loads |-> r(l)]
  BY DEF Straddle
<1> HIDE DEF r
<1>3. load' \in [Loads -> LoadRecords] /\ \A l \in Loads : load'[l] = r(l)
  BY <1>1, <1>2
<1> QED BY <1>1, <1>3

(* The ghosts and the guard beside them. *)
LEMMA LoaderStepCases ==
  ASSUME LoaderTypes, NEW l \in Loads, LoaderStep(l)
  PROVE  \/ /\ \E m \in Files : Execute(l, m)
         \/ /\ UNCHANGED caches
            /\ \/ load' = load
               \/ \E stage \in {"running", "done", "failed"} :
                    /\ load' = [load EXCEPT ![l].stage = stage] /\ load[l].stage # "idle"
                    /\ stage = "done" => DOMAIN load[l].seen = Imports[load[l].file]
                    /\ stage = "failed" => Imports[load[l].file] \cap Exiting # {}
<1>1. ASSUME NEW m \in Files, ProcessExit(l, m)
      PROVE  /\ UNCHANGED caches
             /\ \/ load' = load
                \/ /\ load' = [load EXCEPT ![l].stage = "failed"] /\ load[l].stage # "idle"
                   /\ Imports[load[l].file] \cap Exiting # {}
  BY <1>1 DEF ProcessExit, Settled
<1>2. CASE Dequeue(l)
  BY <1>2 DEF Dequeue
<1>3. CASE Settle(l)
  BY <1>3 DEF Settle, Settled
<1> QED BY <1>1, <1>2, <1>3 DEF LoaderStep

(* A load goes on. *)
LEMMA LoaderStepTypes ==
  ASSUME LoaderTypes, NEW l \in Loads, LoaderStep(l)
  PROVE  LoaderTypes'
<1>1. UNCHANGED <<disk, cacheGeneration>>
  BY DEF LoaderStep, Dequeue, Settle, ProcessExit, Execute, caches
<1>2. CASE UNCHANGED <<caches, load>>
  BY <1>1, <1>2 DEF LoaderTypes, caches, disk, AreExecutions
<1>3. ASSUME UNCHANGED caches, NEW stage \in {"running", "done", "failed"},
             load' = [load EXCEPT ![l].stage = stage], load[l].stage # "idle"
      PROVE  LoaderTypes'
  <2>1. \A k \in Loads : /\ load'[k].suffix <= cacheGeneration' /\ AreExecutions(load'[k].seen)
                         /\ load'[k].stage = "idle" => load'[k].seen = << >>
                         /\ load'[k].stage # "idle" => load'[k].file \in Files
    BY <1>1, <1>3, StageTypes DEF LoaderTypes
  <2>2. load' \in [Loads -> LoadRecords]
    BY <1>3, StageTypes
  <2> QED BY <1>1, <1>3, <2>1, <2>2 DEF LoaderTypes, caches, disk
<1>4. ASSUME NEW m \in Files, Execute(l, m)
      PROVE  LoaderTypes'
  <2>1. /\ load[l].stage = "running" /\ load' \in [Loads -> LoadRecords]
        /\ \A k \in Loads : k # l => load'[k] = load[k]
        /\ load'[l].stage = load[l].stage /\ load'[l].file = load[l].file
        /\ load'[l].suffix = load[l].suffix
        /\ AreExecutions(load'[l].seen)
        /\ Sight(l, m) \in [Imports[m] -> Contents]
    BY <1>4, ExecuteEffect
  <2>2. \A k \in Loads : /\ load'[k].suffix <= cacheGeneration' /\ AreExecutions(load'[k].seen)
                         /\ load'[k].stage = "idle" => load'[k].seen = << >>
                         /\ load'[k].stage # "idle" => load'[k].file \in Files
    BY <1>1, <2>1 DEF LoaderTypes
  <2>3. CASE m \in Native
    <3>1. native' = WithEntry(native, Key(l, m), Sight(l, m)) /\ cache' = cache
      BY <1>4, <2>3 DEF Execute
    <3>2. Key(l, m) \in Native \X (0 .. cacheGeneration) /\ Key(l, m)[1] = m
      BY <2>3 DEF Key, LoaderTypes, LoadRecords
    <3>3. DOMAIN native' \subseteq Native \X (0 .. cacheGeneration)
      BY <3>1, <3>2 DEF WithEntry, LoaderTypes
    <3>4. \A k \in DOMAIN native' : native'[k] \in [Imports[k[1]] -> Contents]
      BY <2>1, <3>1, <3>2 DEF WithEntry, LoaderTypes
    <3> QED BY <1>1, <2>1, <2>2, <3>1, <3>3, <3>4 DEF LoaderTypes, disk, AreExecutions
  <2>4. CASE m \notin Native
    <3>1. cache' = WithEntry(cache, m, Sight(l, m)) /\ native' = native
      BY <1>4, <2>4 DEF Execute
    <3>2. cache' \in Sights /\ AreExecutions(cache') /\ DOMAIN cache' = DOMAIN cache \cup {m}
      <4>1. cache \in Sights /\ AreExecutions(cache)
        BY DEF LoaderTypes
      <4> QED BY <2>1, <3>1, <4>1, WithEntryTypes
    <3> QED BY <1>1, <2>1, <2>2, <2>4, <3>1, <3>2 DEF LoaderTypes, disk
  <2> QED BY <2>3, <2>4
<1> QED BY <1>2, <1>3, <1>4, LoaderStepCases DEF caches

(* A host asks for a load, ... *)
LEMMA RequestTypes ==
  ASSUME LoaderTypes, NEW l \in Loads, NEW f \in Files, Request(l, f)
  PROVE  LoaderTypes'
<1>1. UNCHANGED <<disk, caches>>
  BY DEF Request
<1>2. AreExecutions(<< >>)
  BY ExecutionTypes
<1> QED BY <1>1, <1>2, RequestEffect DEF LoaderTypes, disk, caches, AreExecutions

(* ... takes what it led to, ... *)
LEMMA TakeTypes ==
  ASSUME LoaderTypes, NEW l \in Loads, Take(l)
  PROVE  LoaderTypes'
<1>1. UNCHANGED <<disk, caches>>
  BY DEF Take
<1>2. AreExecutions(IdleLoad.seen) /\ IdleLoad.seen = << >> /\ IdleLoad.stage = "idle" /\ IdleLoad.suffix = 0
  BY ExecutionTypes DEF IdleLoad
<1> QED BY <1>1, <1>2, TakeEffect DEF LoaderTypes, disk, caches, AreExecutions

(* ... empties the cache ... *)
LEMMA InvalidateTypes ==
  ASSUME LoaderTypes, InvalidateModuleCache, UNCHANGED disk
  PROVE  LoaderTypes'
<1>1. Straddle /\ cacheGeneration' = cacheGeneration + 1 /\ cache' = << >> /\ native' = native
  BY DEF InvalidateModuleCache
<1>2. \A l \in Loads : load'[l].suffix <= cacheGeneration'
  BY <1>1, StraddleEffect DEF LoaderTypes, LoadRecords
<1>3. DOMAIN native' \subseteq Native \X (0 .. cacheGeneration')
  BY <1>1 DEF LoaderTypes
<1> QED BY <1>1, <1>2, <1>3, StraddleEffect, ExecutionTypes DEF LoaderTypes, disk, AreExecutions

(* ... or a file is edited. *)
LEMMA EditTypes ==
  ASSUME LoaderTypes, NEW f \in Files, NEW c \in Contents, Edit(f, c)
  PROVE  LoaderTypes'
BY EditsAssumption DEF Edit, LoaderTypes, caches, AreExecutions

(* A load holds what its module imports before the module, ends with all of   *)
(* it or at an exit, and names a native file by the generation it began in.   *)
LoadShape ==
  \A l \in Loads : load[l].stage # "idle" =>
    /\ \A m \in DOMAIN load[l].seen : Imports[m] \subseteq DOMAIN load[l].seen
    /\ load[l].stage = "done" => DOMAIN load[l].seen = Imports[load[l].file]
    /\ load[l].stage = "failed" => Imports[load[l].file] \cap Exiting # {}
    /\ load[l].file \in Native /\ ~load[l].old => load[l].suffix = cacheGeneration

(* So it is whatever a load does, ... *)
LEMMA LoaderStepShape ==
  ASSUME LoaderTypes, LoadShape, NEW l \in Loads, LoaderStep(l)
  PROVE  LoadShape'
<1>1. CASE UNCHANGED <<caches, load>>
  BY <1>1 DEF LoadShape, caches
<1>2. ASSUME UNCHANGED caches, NEW stage \in {"running", "done", "failed"},
             load' = [load EXCEPT ![l].stage = stage], load[l].stage # "idle",
             stage = "done" => DOMAIN load[l].seen = Imports[load[l].file],
             stage = "failed" => Imports[load[l].file] \cap Exiting # {}
      PROVE  LoadShape'
  BY <1>2, StageTypes DEF LoadShape, caches
<1>3. ASSUME NEW m \in Files, Execute(l, m)
      PROVE  LoadShape'
  <2>1. cacheGeneration' = cacheGeneration
    BY <1>3 DEF Execute
  <2>2. /\ load[l].stage = "running" /\ load'[l].stage = load[l].stage
        /\ \A k \in Loads : k # l => load'[k] = load[k]
        /\ load'[l].file = load[l].file /\ load'[l].suffix = load[l].suffix
        /\ load'[l].old <=> (load[l].old \/ m \in straddled)
        /\ DOMAIN load'[l].seen = DOMAIN load[l].seen \cup {m}
        /\ Imports[m] \ {m} \subseteq DOMAIN load[l].seen
    BY <1>3, ExecuteEffect
  <2>3. \A x \in DOMAIN load'[l].seen : Imports[x] \subseteq DOMAIN load'[l].seen
    BY <2>2 DEF LoadShape
  <2>4. load[l].file \in Native /\ ~load'[l].old => load[l].suffix = cacheGeneration
    BY <2>2 DEF LoadShape
  <2> QED BY <2>1, <2>2, <2>3, <2>4 DEF LoadShape
<1> QED BY <1>1, <1>2, <1>3, LoaderStepCases DEF caches

(* ... and whatever the hosts do with it. *)
LEMMA RequestShape ==
  ASSUME LoaderTypes, LoadShape, NEW l \in Loads, NEW f \in Files, Request(l, f)
  PROVE  LoadShape'
<1>1. cacheGeneration' = cacheGeneration
  BY DEF Request, caches
<1>2. DOMAIN << >> = {}
  BY ExecutionTypes
<1> QED BY <1>1, <1>2, RequestEffect DEF LoadShape

(* A load that has been taken has none. *)
LEMMA TakeShape ==
  ASSUME LoaderTypes, LoadShape, NEW l \in Loads, Take(l)
  PROVE  LoadShape'
<1>1. cacheGeneration' = cacheGeneration
  BY DEF Take, caches
<1>2. IdleLoad.stage = "idle"
  BY DEF IdleLoad
<1> QED BY <1>1, <1>2, TakeEffect DEF LoadShape

(* All loads are old once the cache is emptied. *)
LEMMA InvalidateShape ==
  ASSUME LoaderTypes, LoadShape, InvalidateModuleCache
  PROVE  LoadShape'
<1>1. Straddle
  BY DEF InvalidateModuleCache
<1> QED BY <1>1, StraddleEffect DEF LoadShape

-----------------------------------------------------------------------------
(* Watch mode's variables, and its generations' loads. *)

WatchTypes ==
  /\ notices \subseteq Files /\ pendingFiles \subseteq Files /\ unflushed \subseteq Files
  /\ lost \subseteq Files
  /\ pendingFiles # {} => timer
  /\ task \in [Loads -> TaskRecords]
  /\ \A i \in Loads : /\ task[i].made = None <=> task[i].stage # "write"
                      /\ task[i].file = None <=> task[i].stage = "next"
                      /\ ~task[i].on => task[i].stage = "next" /\ task[i].todo = {}
                      /\ i \in late => task[i].stage # "next"
  /\ late \subseteq Loads /\ overtaken \subseteq Schemas /\ output \in [Schemas -> Executions \cup {None}]

TaskLoads ==
  \A i \in Loads : IF task[i].stage = "wait" THEN load[i].stage # "idle" /\ load[i].file = task[i].file
                                             ELSE load[i].stage = "idle"

(* What each step of a generation makes of it. *)
LEMMA GenerateEffect ==
  ASSUME WatchTypes, NEW i \in Loads, NEW f \in Files, Generate(i, f)
  PROVE  /\ task' \in [Loads -> TaskRecords] /\ \A k \in Loads : k # i => task'[k] = task[k]
         /\ f \in task[i].todo /\ task'[i].todo = task[i].todo \ {f}
         /\ task[i].stage = "next" /\ task[i].on /\ task'[i].on = task[i].on
         /\ task'[i].made = task[i].made
         /\ f \in Schemas => task'[i].stage = "load" /\ task'[i].file = f
         /\ f \notin Schemas => task'[i].stage = "next" /\ task'[i].file = None
<1> DEFINE stage == IF f \in Schemas THEN "load" ELSE "next"
           file == IF f \in Schemas THEN f ELSE None
           r == [task[i] EXCEPT !.todo = task[i].todo \ {f}, !.stage = stage, !.file = file]
<1>1. task[i] \in TaskRecords /\ stage \in {"load", "next"} /\ file \in Schemas \cup {None}
  BY DEF WatchTypes
<1>2. task' = [task EXCEPT ![i] = r]
  BY <1>1 DEF Generate, TaskRecords, WatchTypes
<1> HIDE DEF stage, file
<1>3. /\ r \in TaskRecords /\ r.stage = stage /\ r.file = file /\ r.todo = task[i].todo \ {f}
      /\ r.on = task[i].on /\ r.made = task[i].made
  BY <1>1 DEF TaskRecords
<1> HIDE DEF r
<1>4. task' \in [Loads -> TaskRecords] /\ task'[i] = r /\ \A k \in Loads : k # i => task'[k] = task[k]
  BY <1>2, <1>3 DEF WatchTypes
<1> QED BY <1>3, <1>4 DEF stage, file, Generate

(* ... the load is asked for, ... *)
LEMMA DiscoverEffect ==
  ASSUME WatchTypes, NEW i \in Loads, Discover(i)
  PROVE  /\ task' \in [Loads -> TaskRecords] /\ \A k \in Loads : k # i => task'[k] = task[k]
         /\ task[i].stage = "load" /\ task'[i].stage = "wait" /\ task'[i].file = task[i].file
         /\ task'[i].on = task[i].on /\ task'[i].todo = task[i].todo /\ task'[i].made = task[i].made
BY DEF Discover, WatchTypes, TaskRecords

(* ... and has settled, with the file in it if it is done, ... *)
LEMMA DiscoveredEffect ==
  ASSUME WatchTypes, TaskLoads, LoaderTypes, LoadShape, NEW i \in Loads, Discovered(i)
  PROVE  /\ task' \in [Loads -> TaskRecords] /\ \A k \in Loads : k # i => task'[k] = task[k]
         /\ task[i].stage = "wait" /\ task'[i].on = task[i].on /\ task'[i].todo = task[i].todo
         /\ load[i].stage \in {"done", "failed"} /\ task[i].file \in Files
         /\ load[i].stage = "done" =>
              /\ task'[i].stage = "write" /\ task'[i].file = task[i].file
              /\ task'[i].made = load[i].seen[task[i].file] /\ task'[i].made \in Executions
              /\ task[i].file \in DOMAIN load[i].seen
         /\ load[i].stage = "failed" =>
              /\ task'[i].stage = "next" /\ task'[i].file = None /\ task'[i].made = task[i].made
              /\ Imports[task[i].file] \cap Exiting # {}
<1>1. /\ task[i].stage = "wait" /\ load[i].stage \in {"done", "failed"} /\ load[i].file = task[i].file
      /\ load[i].file \in Files
  BY DEF Discovered, Take, TaskLoads, LoaderTypes
<1>2. task[i] \in TaskRecords /\ task[i].file \in Schemas
  BY <1>1, NoneAssumption DEF WatchTypes, TaskRecords
<1>3. CASE load[i].stage = "done"
  <2> DEFINE e == load[i].seen[task[i].file]
             r == [task[i] EXCEPT !.stage = "write", !.made = e]
  <2>1. task[i].file \in DOMAIN load[i].seen
    BY <1>1, <1>3, ImportsAssumption DEF LoadShape
  <2>2. load[i].seen \in Sights
    BY DEF LoaderTypes, LoadRecords
  <2>3. e \in Executions
    BY <2>1, <2>2, ExecutionTypes
  <2>4. task' = [task EXCEPT ![i] = r]
    BY <1>3 DEF Discovered
  <2> HIDE DEF e
  <2>5. /\ r \in TaskRecords /\ r.stage = "write" /\ r.made = e /\ r.file = task[i].file
        /\ r.on = task[i].on /\ r.todo = task[i].todo
    BY <1>2, <2>3 DEF TaskRecords
  <2> HIDE DEF r
  <2>6. task' \in [Loads -> TaskRecords] /\ task'[i] = r /\ \A k \in Loads : k # i => task'[k] = task[k]
    BY <2>4, <2>5 DEF WatchTypes
  <2> QED BY <1>1, <1>3, <2>1, <2>3, <2>5, <2>6 DEF e
<1>4. CASE load[i].stage = "failed"
  <2> DEFINE r == [task[i] EXCEPT !.stage = "next", !.file = None]
  <2>1. task' = [task EXCEPT ![i] = r]
    BY <1>4 DEF Discovered
  <2>2. /\ r \in TaskRecords /\ r.stage = "next" /\ r.made = task[i].made /\ r.file = None
        /\ r.on = task[i].on /\ r.todo = task[i].todo
    BY <1>2 DEF TaskRecords
  <2> HIDE DEF r
  <2>3. task' \in [Loads -> TaskRecords] /\ task'[i] = r /\ \A k \in Loads : k # i => task'[k] = task[k]
    BY <2>1, <2>2 DEF WatchTypes
  <2>4. Imports[task[i].file] \cap Exiting # {}
    BY <1>1, <1>4 DEF LoadShape
  <2> QED BY <1>1, <1>4, <2>2, <2>3, <2>4
<1> QED BY <1>1, <1>3, <1>4

(* ... the output is written, ... *)
LEMMA WriteEffect ==
  ASSUME WatchTypes, NEW i \in Loads, Write(i)
  PROVE  /\ task' \in [Loads -> TaskRecords] /\ \A k \in Loads : k # i => task'[k] = task[k]
         /\ task[i].stage = "write" /\ task[i].file \in Schemas /\ task[i].made \in Executions
         /\ task'[i].stage = "next" /\ task'[i].file = None /\ task'[i].made = None
         /\ task'[i].on = task[i].on /\ task'[i].todo = task[i].todo
         /\ output' \in [Schemas -> Executions \cup {None}]
         /\ \A f \in Schemas : output'[f] = IF f = task[i].file THEN task[i].made ELSE output[f]
<1>1. task[i] \in TaskRecords /\ task[i].stage = "write"
  BY DEF WatchTypes, Write
<1>2. task[i].file \in Schemas /\ task[i].made \in Executions
  BY <1>1 DEF WatchTypes, TaskRecords
<1> DEFINE r == [task[i] EXCEPT !.stage = "next", !.file = None, !.made = None]
<1>3. task' = [task EXCEPT ![i] = r]
  BY <1>1 DEF Write, TaskRecords, WatchTypes
<1>4. /\ r \in TaskRecords /\ r.stage = "next" /\ r.made = None /\ r.file = None
      /\ r.on = task[i].on /\ r.todo = task[i].todo
  BY <1>1 DEF TaskRecords
<1> HIDE DEF r
<1>5. task' \in [Loads -> TaskRecords] /\ task'[i] = r /\ \A k \in Loads : k # i => task'[k] = task[k]
  BY <1>3, <1>4 DEF WatchTypes
<1>6. /\ output' \in [Schemas -> Executions \cup {None}]
      /\ \A f \in Schemas : output'[f] = IF f = task[i].file THEN task[i].made ELSE output[f]
  BY <1>2 DEF Write, WatchTypes
<1> QED BY <1>1, <1>2, <1>4, <1>5, <1>6

(* ... and nothing is left to do, until the next flush. *)
LEMMA FinishEffect ==
  ASSUME WatchTypes, NEW i \in Loads, Finish(i)
  PROVE  /\ task' \in [Loads -> TaskRecords] /\ \A k \in Loads : k # i => task'[k] = task[k]
         /\ task[i].stage = "next" /\ task[i].todo = {} /\ ~task'[i].on
         /\ task'[i].stage = task[i].stage /\ task'[i].file = task[i].file
         /\ task'[i].todo = task[i].todo /\ task'[i].made = task[i].made
BY DEF Finish, WatchTypes, TaskRecords

(* ... which begins with the batch. *)
LEMMA FlushEffect ==
  ASSUME WatchTypes, NEW i \in Loads, Flush(i)
  PROVE  /\ task' \in [Loads -> TaskRecords] /\ \A k \in Loads : k # i => task'[k] = task[k]
         /\ ~task[i].on /\ task'[i].on /\ task'[i].todo = pendingFiles
         /\ task'[i].stage = "next" /\ task'[i].file = None /\ task'[i].made = None
<1> DEFINE r == [IdleTask EXCEPT !.on = TRUE, !.todo = pendingFiles]
<1>1. /\ r \in TaskRecords /\ r.stage = "next" /\ r.file = None /\ r.made = None
      /\ r.on /\ r.todo = pendingFiles
  BY DEF IdleTask, TaskRecords, WatchTypes
<1>2. task' = [task EXCEPT ![i] = r] /\ ~task[i].on
  BY DEF Flush
<1> HIDE DEF r
<1> QED BY <1>1, <1>2 DEF WatchTypes

(* A call that is under way is for a file. *)
SwcTypes ==
  /\ lastSeenCode \in [Files -> Contents \cup {None}]
  /\ call \in [Loads -> CallRecords]
  /\ \A l \in Loads : call[l].stage # "idle" => call[l].file \in Files /\ call[l].code \in Contents
  /\ ahead \subseteq DOMAIN cache

HostTypes ==
  /\ host = "watch" => TaskLoads /\ ahead = {}
  /\ host \in {"watch", "swc"}
  /\ LoaderTypes /\ LoadShape /\ WatchTypes /\ SwcTypes

(* A generation and its load move together. *)
LEMMA TaskLoadsStep ==
  ASSUME TaskLoads, NEW i \in Loads,
         \A k \in Loads : k # i => /\ task'[k] = task[k]
                                   /\ load'[k].stage = load[k].stage /\ load'[k].file = load[k].file,
         IF task'[i].stage = "wait" THEN load'[i].stage # "idle" /\ load'[i].file = task'[i].file
                                    ELSE load'[i].stage = "idle"
  PROVE  TaskLoads'
BY DEF TaskLoads

(* A generation's step. *)
LEMMA WatchTaskTypes ==
  ASSUME HostTypes, host = "watch", NEW i \in Loads, WatchTask(i), UNCHANGED <<swcVars, host>>
  PROVE  HostTypes'
<1>1. TaskLoads /\ LoaderTypes /\ LoadShape /\ WatchTypes /\ SwcTypes /\ ahead = {}
  BY DEF HostTypes
<1>2. SwcTypes' /\ ahead' = {}
  BY <1>1 DEF SwcTypes, swcVars
<1>3. CASE (\E f \in Files : Generate(i, f)) \/ Write(i) \/ Finish(i)
  <2>0. UNCHANGED loaderVars
    BY <1>3 DEF Generate, Write, Finish
  <2>1. LoaderTypes' /\ LoadShape'
    BY <1>1, <2>0 DEF LoaderTypes, LoadShape, loaderVars, caches, disk
  <2>2. load' = load
    BY <2>0 DEF loaderVars
  <2>3. ASSUME NEW f \in Files, Generate(i, f)
        PROVE  WatchTypes' /\ TaskLoads'
    <3>1. WatchTypes'
      <4>1. None \notin Schemas
        BY NoneAssumption, WatchAssumption
      <4>2. \A k \in Loads : /\ task'[k].made = None <=> task'[k].stage # "write"
                             /\ task'[k].file = None <=> task'[k].stage = "next"
                             /\ ~task'[k].on => task'[k].stage = "next" /\ task'[k].todo = {}
        BY <1>1, <2>3, <4>1, GenerateEffect DEF WatchTypes
      <4>3. late' \subseteq Loads /\ \A k \in Loads : k \in late' => task'[k].stage # "next"
        <5>1. \A k \in late' : k \in late \/ (k \in Working(f) /\ f \in Schemas)
          BY <2>3 DEF Generate
        <5>2. i \notin late /\ task[i].file = None
          BY <1>1, <2>3, GenerateEffect DEF WatchTypes
        <5>3. \A k \in Loads : k \in Working(f) /\ f \in Schemas => k # i /\ task[k].stage # "next"
          BY <1>1, <4>1, <5>2 DEF Working, WatchTypes
        <5>4. Working(f) \subseteq Loads /\ late \subseteq Loads
          BY <1>1 DEF Working, WatchTypes
        <5>5. \A k \in Loads : k # i => task'[k] = task[k]
          BY <1>1, <2>3, GenerateEffect
        <5> QED BY <1>1, <5>1, <5>2, <5>3, <5>4, <5>5 DEF WatchTypes
      <4>4. UNCHANGED <<notices, pendingFiles, timer, output, unflushed, lost, overtaken>>
        BY <2>3 DEF Generate
      <4>5. task' \in [Loads -> TaskRecords]
        BY <1>1, <2>3, GenerateEffect
      <4> QED BY <1>1, <4>2, <4>3, <4>4, <4>5 DEF WatchTypes
    <3>2. TaskLoads'
      BY <1>1, <2>2, <2>3, GenerateEffect, TaskLoadsStep DEF TaskLoads
    <3> QED BY <3>1, <3>2
  <2>4. ASSUME Write(i)
        PROVE  WatchTypes' /\ TaskLoads'
    <3>1. WatchTypes'
      <4>1. /\ task[i].file \in Schemas /\ late' = late \ {i}
            /\ overtaken' = overtaken \cup {task[i].file} \/ overtaken' = overtaken \ {task[i].file}
            /\ UNCHANGED <<notices, pendingFiles, timer, unflushed, lost>>
        BY <1>1, <2>4, WriteEffect DEF Write
      <4>2. late' \subseteq Loads /\ overtaken' \subseteq Schemas
        BY <1>1, <4>1 DEF WatchTypes
      <4>3. \A k \in Loads : /\ task'[k].made = None <=> task'[k].stage # "write"
                             /\ task'[k].file = None <=> task'[k].stage = "next"
                             /\ ~task'[k].on => task'[k].stage = "next" /\ task'[k].todo = {}
                             /\ k \in late' => task'[k].stage # "next"
        BY <1>1, <2>4, <4>1, WriteEffect DEF WatchTypes
      <4> QED BY <1>1, <2>4, <4>1, <4>2, <4>3, WriteEffect DEF WatchTypes
    <3>2. TaskLoads'
      BY <1>1, <2>2, <2>4, WriteEffect, TaskLoadsStep DEF TaskLoads
    <3> QED BY <3>1, <3>2
  <2>5. ASSUME Finish(i)
        PROVE  WatchTypes' /\ TaskLoads'
    <3>1. WatchTypes'
      BY <1>1, <2>5, FinishEffect DEF WatchTypes, Finish, watchGhosts
    <3>2. TaskLoads'
      BY <1>1, <2>2, <2>5, FinishEffect, TaskLoadsStep DEF TaskLoads
    <3> QED BY <3>1, <3>2
  <2>7. WatchTypes' /\ TaskLoads'
    BY <1>3, <2>3, <2>4, <2>5
  <2> QED BY <1>1, <1>2, <2>1, <2>7 DEF HostTypes
<1>4. CASE Discover(i)
  <2>1. Request(i, task[i].file) /\ task[i].stage = "load" /\ task[i].file \in Files
    BY <1>1, <1>4, WatchAssumption, NoneAssumption DEF Discover, WatchTypes, TaskRecords
  <2>2. LoaderTypes' /\ LoadShape'
    BY <1>1, <2>1, RequestTypes, RequestShape
  <2>3. WatchTypes'
    <3>1. \A k \in Loads : /\ task'[k].made = None <=> task'[k].stage # "write"
                           /\ task'[k].file = None <=> task'[k].stage = "next"
                           /\ ~task'[k].on => task'[k].stage = "next" /\ task'[k].todo = {}
                           /\ k \in late => task'[k].stage # "next"
      BY <1>1, <1>4, DiscoverEffect DEF WatchTypes
    <3> QED BY <1>1, <1>4, <3>1, DiscoverEffect DEF WatchTypes, Discover, watchGhosts
  <2>4. TaskLoads'
    BY <1>1, <1>4, <2>1, DiscoverEffect, RequestEffect, TaskLoadsStep
  <2> QED BY <1>1, <1>2, <2>2, <2>3, <2>4 DEF HostTypes
<1>5. CASE Discovered(i)
  <2>1. Take(i)
    BY <1>5 DEF Discovered
  <2>2. LoaderTypes' /\ LoadShape'
    BY <1>1, <2>1, TakeTypes, TakeShape
  <2>3. /\ task' \in [Loads -> TaskRecords] /\ \A k \in Loads : k # i => task'[k] = task[k]
        /\ task'[i].stage \in {"write", "next"} /\ task[i].stage = "wait"
        /\ task'[i].on = task[i].on
        /\ task'[i].made = None <=> task'[i].stage # "write"
        /\ task'[i].file = None <=> task'[i].stage = "next"
    <3>1. task[i].made = None /\ task[i].file # None /\ task[i].stage = "wait"
      BY <1>1, <1>5, DiscoveredEffect DEF WatchTypes
    <3>2. None \notin Executions
      BY ExecutionTypes
    <3> QED BY <1>1, <1>5, <3>1, <3>2, DiscoveredEffect
  <2>4. WatchTypes'
    <3>1. task'[i].stage = "next" => late' = late \ {i}
      BY <1>1, <1>5, DiscoveredEffect DEF Discovered
    <3>2. late' = late \/ late' = late \ {i}
      BY <1>5 DEF Discovered
    <3>3. UNCHANGED <<notices, pendingFiles, timer, output, unflushed, lost, overtaken>>
      BY <1>5 DEF Discovered
    <3> QED BY <1>1, <2>3, <3>1, <3>2, <3>3 DEF WatchTypes
  <2>5. IdleLoad.stage = "idle"
    BY DEF IdleLoad
  <2>6. TaskLoads'
    BY <1>1, <2>1, <2>3, <2>5, TakeEffect, TaskLoadsStep
  <2> QED BY <1>1, <1>2, <2>2, <2>4, <2>6 DEF HostTypes
<1> QED BY <1>3, <1>4, <1>5 DEF WatchTask

(* Everything else watch mode does. *)
LEMMA WatchHostTypes ==
  ASSUME HostTypes, Watch, host' = host
  PROVE  HostTypes'
<1>1. /\ TaskLoads /\ LoaderTypes /\ LoadShape /\ WatchTypes /\ SwcTypes /\ ahead = {} 
      /\ host = "watch" /\ UNCHANGED <<swcVars, host>>
  BY DEF HostTypes, Watch
<1>2. SwcTypes' /\ ahead' = {}
  BY <1>1 DEF SwcTypes, swcVars
<1>3. ASSUME NEW i \in Loads, WatchTask(i)
      PROVE  HostTypes'
  BY <1>1, <1>3, WatchTaskTypes
<1>4. ASSUME NEW i \in Loads, WatchLoad(i)
      PROVE  HostTypes'
  <2>1. LoaderStep(i) /\ UNCHANGED watchVars
    BY <1>4 DEF WatchLoad
  <2>2. LoaderTypes' /\ LoadShape'
    BY <1>1, <2>1, LoaderStepTypes, LoaderStepShape
  <2>3. WatchTypes'
    BY <1>1, <2>1 DEF WatchTypes, watchVars, watchGhosts
  <2>4. /\ \A k \in Loads : k # i => load'[k] = load[k]
        /\ load'[i].stage # "idle" <=> load[i].stage # "idle"
        /\ load'[i].file = load[i].file
    <3>1. ASSUME NEW m \in Files, Execute(i, m)
          PROVE  <2>4!1 /\ <2>4!2 /\ <2>4!3
      BY <1>1, <3>1, ExecuteEffect
    <3>2. ASSUME NEW stage \in {"running", "done", "failed"}, load[i].stage # "idle",
                 load' = [load EXCEPT ![i].stage = stage]
          PROVE  <2>4!1 /\ <2>4!2 /\ <2>4!3
      BY <1>1, <3>2, StageTypes
    <3> QED BY <1>1, <2>1, <3>1, <3>2, LoaderStepCases
  <2>5. TaskLoads'
    BY <1>1, <2>1, <2>4 DEF TaskLoads, watchVars
  <2> QED BY <1>1, <1>2, <2>2, <2>3, <2>5 DEF HostTypes
<1>5. ASSUME NEW i \in Loads, Flush(i)
      PROVE  HostTypes'
  <2>1. InvalidateModuleCache /\ UNCHANGED disk
    BY <1>5 DEF Flush
  <2>2. LoaderTypes' /\ LoadShape'
    BY <1>1, <2>1, InvalidateTypes, InvalidateShape
  <2>3. WatchTypes'
    BY <1>1, <1>5, FlushEffect DEF WatchTypes, Flush
  <2>4. task[i].stage = "next"
    BY <1>1, <1>5, FlushEffect DEF WatchTypes
  <2>5. TaskLoads'
    BY <1>1, <1>5, <2>1, <2>4, FlushEffect, StraddleEffect, TaskLoadsStep DEF InvalidateModuleCache, TaskLoads
  <2> QED BY <1>1, <1>2, <2>2, <2>3, <2>5 DEF HostTypes
<1>6. ASSUME NEW f \in Files, NEW c \in Contents, WatchEdit(f, c)
      PROVE  HostTypes'
  <2>1. Edit(f, c)
    BY <1>6 DEF WatchEdit
  <2>2. LoaderTypes'
    BY <1>1, <2>1, EditTypes
  <2>3. LoadShape' /\ TaskLoads' /\ WatchTypes'
    BY <1>1, <1>6, <2>1 DEF LoadShape, TaskLoads, WatchTypes, WatchEdit, Edit, caches
  <2> QED BY <1>1, <1>2, <2>2, <2>3 DEF HostTypes
<1>7. ASSUME NEW f \in Files, Notice(f)
      PROVE  HostTypes'
  <2>1. LoaderTypes' /\ LoadShape' /\ TaskLoads'
    BY <1>1, <1>7 DEF LoaderTypes, LoadShape, TaskLoads, Notice, loaderVars, caches, disk
  <2>2. WatchTypes'
    BY <1>1, <1>7 DEF WatchTypes, Notice, watchGhosts
  <2> QED BY <1>1, <1>2, <2>1, <2>2 DEF HostTypes
<1> QED BY <1>3, <1>4, <1>5, <1>6, <1>7 DEF Watch, WatchNext, WatchTimer

(* A call of the SWC bridge, whose tasks are left as they are. *)
LEMMA SwcHostTypes ==
  ASSUME HostTypes, Swc, host' = host
  PROVE  HostTypes'
<1>1. /\ LoaderTypes /\ LoadShape /\ WatchTypes /\ SwcTypes /\ host = "swc"
      /\ UNCHANGED <<watchVars, host>>
  BY DEF HostTypes, Swc
<1>2. WatchTypes'
  BY <1>1 DEF WatchTypes, watchVars, watchGhosts
<1>3. \A r : r \in CallRecords <=> /\ r = [file |-> r.file, code |-> r.code, stage |-> r.stage]
                                   /\ r.file \in Files \cup {None} /\ r.code \in Contents \cup {None}
                                   /\ r.stage \in {"idle", "read", "load", "wait"}
  BY DEF CallRecords
<1>4. IdleCall \in CallRecords /\ IdleCall.stage = "idle"
  BY DEF CallRecords, IdleCall
<1>5. ASSUME NEW l \in Loads, NEW r \in CallRecords, call' = [call EXCEPT ![l] = r],
             r.stage = "idle" \/ (r.file \in Files /\ r.code \in Contents),
             lastSeenCode' \in [Files -> Contents \cup {None}], ahead' \subseteq DOMAIN cache'
      PROVE  SwcTypes'
  BY <1>1, <1>5 DEF SwcTypes
<1>6. ASSUME NEW f \in Files, NEW c \in Contents, SwcEdit(f, c)
      PROVE  HostTypes'
  <2>1. Edit(f, c) /\ UNCHANGED swcVars
    BY <1>6 DEF SwcEdit
  <2>2. LoaderTypes'
    BY <1>1, <2>1, EditTypes
  <2>3. LoadShape' /\ SwcTypes'
    BY <1>1, <2>1 DEF LoadShape, SwcTypes, swcVars, Edit, caches
  <2> QED BY <1>1, <1>2, <2>2, <2>3 DEF HostTypes
<1>7. ASSUME NEW l \in Loads, NEW f \in Fed, Read(l, f)
      PROVE  HostTypes'
  <2>1. LoaderTypes' /\ LoadShape' /\ UNCHANGED cache
    BY <1>1, <1>7 DEF LoaderTypes, LoadShape, Read, loaderVars, caches, disk
  <2>2. f \in Files /\ content[f] \in Contents
    BY <1>1, SwcAssumption DEF LoaderTypes
  <2>3. [file |-> f, code |-> content[f], stage |-> "read"] \in CallRecords
    BY <2>2 DEF CallRecords
  <2>4. SwcTypes'
    BY <1>1, <1>5, <1>7, <2>1, <2>2, <2>3 DEF Read, SwcTypes
  <2> QED BY <1>1, <1>2, <2>1, <2>4 DEF HostTypes
<1>8. ASSUME NEW l \in Loads, Transform(l)
      PROVE  HostTypes'
  <2> DEFINE f == call[l].file
             code == call[l].code
             r == IF f \in Included THEN [call[l] EXCEPT !.stage = "load"] ELSE IdleCall
  <2>1. /\ f \in Files /\ code \in Contents /\ call[l] \in CallRecords /\ call[l].stage = "read"
        /\ call' = [call EXCEPT ![l] = r]
        /\ lastSeenCode' = [lastSeenCode EXCEPT ![f] = code] /\ UNCHANGED disk
    BY <1>1, <1>8 DEF SwcTypes, Transform, InvalidateOnContentChange
  <2>2. r \in CallRecords /\ (r.stage = "idle" \/ (r.file \in Files /\ r.code \in Contents))
    <3>1. /\ [call[l] EXCEPT !.stage = "load"] \in CallRecords
          /\ [call[l] EXCEPT !.stage = "load"].file = f
          /\ [call[l] EXCEPT !.stage = "load"].code = code
      BY <2>1 DEF CallRecords
    <3> QED BY <1>4, <2>1, <3>1
  <2>3. lastSeenCode' \in [Files -> Contents \cup {None}]
    BY <1>1, <2>1 DEF SwcTypes
  <2>4. LoaderTypes' /\ LoadShape' /\ ahead' \subseteq DOMAIN cache'
    <3>1. CASE InvalidateModuleCache /\ ahead' = {}
      BY <1>1, <2>1, <3>1, InvalidateTypes, InvalidateShape
    <3>2. CASE UNCHANGED <<caches, load, ahead>>
      BY <1>1, <2>1, <3>2 DEF LoaderTypes, LoadShape, SwcTypes, caches, disk
    <3> QED BY <1>8, <3>1, <3>2 DEF Transform, InvalidateOnContentChange
  <2> HIDE DEF r, f, code
  <2>5. SwcTypes'
    BY <1>5, <2>1, <2>2, <2>3, <2>4
  <2> QED BY <1>1, <1>2, <2>4, <2>5 DEF HostTypes
<1>9. ASSUME NEW l \in Loads, SwcDiscover(l)
      PROVE  HostTypes'
  <2>1. /\ Request(l, call[l].file) /\ call[l] \in CallRecords /\ call[l].file \in Files
        /\ call[l].code \in Contents /\ call' = [call EXCEPT ![l] = [call[l] EXCEPT !.stage = "wait"]]
    BY <1>1, <1>9 DEF SwcDiscover, SwcTypes
  <2>2. LoaderTypes' /\ LoadShape' /\ UNCHANGED cache
    BY <1>1, <2>1, RequestTypes, RequestShape DEF Request, caches
  <2>3. /\ [call[l] EXCEPT !.stage = "wait"] \in CallRecords
        /\ [call[l] EXCEPT !.stage = "wait"].file = call[l].file
        /\ [call[l] EXCEPT !.stage = "wait"].code = call[l].code
    BY <2>1 DEF CallRecords
  <2>4. SwcTypes'
    BY <1>1, <1>5, <1>9, <2>1, <2>2, <2>3 DEF SwcDiscover, SwcTypes
  <2> QED BY <1>1, <1>2, <2>2, <2>4 DEF HostTypes
<1>10. ASSUME NEW l \in Loads, Answer(l)
      PROVE  HostTypes'
  <2>1. Take(l) /\ UNCHANGED cache
    BY <1>10 DEF Answer, Take, caches
  <2>2. LoaderTypes' /\ LoadShape'
    BY <1>1, <2>1, TakeTypes, TakeShape
  <2>3. SwcTypes'
    BY <1>1, <1>4, <1>5, <1>10, <2>1 DEF Answer, SwcTypes
  <2> QED BY <1>1, <1>2, <2>2, <2>3 DEF HostTypes
<1>11. ASSUME NEW l \in Loads, SwcLoad(l)
      PROVE  HostTypes'
  <2>1. LoaderStep(l) /\ UNCHANGED <<lastSeenCode, call>>
        /\ ahead' = ahead \cup {m \in DOMAIN cache' \ DOMAIN cache : lastSeenCode[m] # content[m]}
    BY <1>11 DEF SwcLoad
  <2>2. LoaderTypes' /\ LoadShape'
    BY <1>1, <2>1, LoaderStepTypes, LoaderStepShape
  <2>3. DOMAIN cache \subseteq DOMAIN cache'
    <3>1. ASSUME NEW m \in Files, Execute(l, m)
          PROVE  DOMAIN cache \subseteq DOMAIN cache'
      BY <3>1 DEF Execute, WithEntry
    <3> QED BY <1>1, <2>1, <3>1, LoaderStepCases DEF caches
  <2>4. SwcTypes'
    BY <1>1, <2>1, <2>3 DEF SwcTypes
  <2> QED BY <1>1, <1>2, <2>2, <2>4 DEF HostTypes
<1> QED BY <1>6, <1>7, <1>8, <1>9, <1>10, <1>11 DEF Swc, SwcNext, SwcAnswering

(* Both together. *)
LEMMA HostTypesStep == HostTypes /\ [Next]_vars => HostTypes'
<1> SUFFICES ASSUME HostTypes, [Next]_vars PROVE HostTypes'
  OBVIOUS
<1>1. CASE UNCHANGED vars
  <2>1. LoaderTypes /\ LoadShape /\ UNCHANGED loaderVars => LoaderTypes' /\ LoadShape'
    BY DEF LoaderTypes, LoadShape, loaderVars, caches, disk
  <2>2. WatchTypes /\ SwcTypes /\ TaskLoads /\ UNCHANGED vars => WatchTypes' /\ SwcTypes' /\ TaskLoads'
    BY DEF WatchTypes, SwcTypes, TaskLoads, vars, watchVars, watchGhosts, swcVars, loaderVars, caches
  <2>3. WatchTypes /\ SwcTypes /\ UNCHANGED vars => WatchTypes' /\ SwcTypes' /\ UNCHANGED <<loaderVars, host, ahead>>
    BY HostKept DEF WatchTypes, SwcTypes, vars, watchVars, watchGhosts, swcVars, loaderVars, caches
  <2> QED BY <1>1, <2>1, <2>2, <2>3 DEF HostTypes
<1> QED BY <1>1, HostKept, WatchHostTypes, SwcHostTypes DEF Next

(* To begin with one generation has all files to do. *)
LEMMA HostTypesInit == Init => HostTypes
<1> SUFFICES ASSUME Init PROVE HostTypes
  OBVIOUS
<1>1. LoaderTypes
  <2>1. load = [l \in Loads |-> IdleLoad] /\ cache = << >> /\ native = << >>
        /\ cacheGeneration = 0 /\ edits = 0 /\ \E c \in Contents : content = [f \in Files |-> c]
    BY DEF Init, LoaderInit
  <2>2. IdleLoad \in LoadRecords /\ IdleLoad.seen = << >> /\ IdleLoad.suffix = 0 /\ IdleLoad.stage = "idle"
    BY ExecutionTypes DEF IdleLoad, LoadRecords
  <2> QED BY <2>1, <2>2, ExecutionTypes, EditsAssumption DEF LoaderTypes
<1>2. LoadShape /\ \A l \in Loads : load[l].stage = "idle"
  BY DEF Init, LoaderInit, IdleLoad, LoadShape
<1>3. WatchTypes /\ \A i \in Loads : task[i].stage = "next"
  <2> DEFINE r(i) == IF i = Initial THEN [IdleTask EXCEPT !.on = TRUE, !.todo = Files] ELSE IdleTask
  <2>1. ASSUME NEW i \in Loads
        PROVE  /\ r(i) \in TaskRecords /\ r(i).stage = "next" /\ r(i).file = None /\ r(i).made = None
               /\ ~r(i).on => r(i).todo = {}
    BY DEF IdleTask, TaskRecords
  <2>2. task = [i \in Loads |-> r(i)]
    BY DEF Init, WatchInit
  <2> HIDE DEF r
  <2>3. /\ task \in [Loads -> TaskRecords]
        /\ \A i \in Loads : task[i].stage = "next" /\ task[i].file = None /\ task[i].made = None
                            /\ (~task[i].on => task[i].todo = {})
    BY <2>1, <2>2
  <2>4. /\ notices = {} /\ pendingFiles = {} /\ unflushed = {} /\ lost = {}
        /\ late = {} /\ overtaken = {}
        /\ output = [f \in Schemas |-> None]
    BY DEF Init, WatchInit
  <2> QED BY <2>3, <2>4 DEF WatchTypes
<1>4. SwcTypes /\ ahead = {}
  BY DEF Init, SwcInit, SwcTypes, IdleCall, CallRecords
<1>5. TaskLoads
  BY <1>2, <1>3 DEF TaskLoads
<1> QED BY <1>1, <1>2, <1>3, <1>4, <1>5, HostKept DEF HostTypes

(* What the guard saved. *)
SavedTypes == savedExit \in {"none", "real", "throws"} /\ userMarker \in {"unset", "user"}

(* Loads enter and leave the guard, and nothing else touches it. *)
LEMMA GuardUse ==
  ASSUME NEW l \in Loads, LoaderStep(l) \/ Take(l) \/ \E f : Request(l, f)
  PROVE  userMarker' = userMarker /\ (EnterGuarded \/ LeaveGuarded \/ UNCHANGED guard)
BY DEF LoaderStep, Dequeue, Settle, Execute, ProcessExit, Settled, Take, Request

(* So what was saved keeps its type. *)
LEMMA SavedStep ==
  ASSUME GuardInv, SavedTypes, [Next]_vars
  PROVE  SavedTypes'
<1>1. exit \in {"real", "throws"}
  BY DEF GuardInv
<1>2. CASE userMarker' = userMarker /\ (EnterGuarded \/ LeaveGuarded \/ UNCHANGED guard)
  BY <1>1, <1>2 DEF SavedTypes, EnterGuarded, InstallGuard, LeaveGuarded, RestoreGuard, guard
<1>3. CASE Watch
  <2>1. CASE UNCHANGED <<guard, userMarker>>
    BY <1>2, <2>1
  <2>2. ASSUME NEW i \in Loads, WatchTask(i) \/ WatchLoad(i)
        PROVE  SavedTypes'
    BY <1>2, <2>1, <2>2, GuardUse
       DEF WatchTask, WatchLoad, Generate, Discover, Discovered, Write, Finish, loaderVars
  <2> QED BY <1>3, <2>1, <2>2 DEF Watch, WatchNext, WatchTimer, WatchEdit, Edit, Notice, Flush, loaderVars
<1>4. CASE Swc
  <2>1. CASE UNCHANGED <<guard, userMarker>>
    BY <1>2, <2>1
  <2>2. ASSUME NEW l \in Loads, SwcAnswering(l) \/ SwcLoad(l)
        PROVE  SavedTypes'
    BY <1>2, <2>1, <2>2, GuardUse DEF SwcAnswering, SwcLoad, Transform, SwcDiscover, Answer
  <2> QED BY <1>4, <2>1, <2>2 DEF Swc, SwcNext, SwcEdit, Edit, Read, loaderVars
<1> QED BY <1>2, <1>3, <1>4 DEF Next, vars, loaderVars

(* Whatever the hosts do, every variable keeps its type; an execution is one    *)
(* of the module and of all it imports, the guard counts no more than the loads *)
(* there are (getJiti(), runGuarded() and loadSourceFile() in loader.ts).      *)
THEOREM HostsTyped == Spec => []TypeOK
<1>1. GuardInv /\ SavedTypes /\ HostTypes => TypeOK
  <2> SUFFICES ASSUME GuardInv, SavedTypes, HostTypes PROVE TypeOK
    OBVIOUS
  <2>1. guardDepth \in 0 .. Cardinality(Loads)
    <3>1. Running \subseteq Loads
      BY DEF Running
    <3>2. Cardinality(Running) <= Cardinality(Loads) /\ Cardinality(Loads) \in Nat
      BY <3>1, LoadsAssumption, FS_Subset, FS_CardinalityType
    <3> QED BY <3>2, RunningFinite DEF GuardInv
  <2>2. LoaderTypeOK
    BY <2>1 DEF GuardInv, SavedTypes, HostTypes, LoaderTypes, LoadRecords, LoaderTypeOK
  <2>3. WatchTypeOK
    BY DEF HostTypes, WatchTypes, TaskRecords, WatchTypeOK
  <2>4. SwcTypeOK
    BY DEF HostTypes, SwcTypes, CallRecords, SwcTypeOK
  <2> QED BY <2>2, <2>3, <2>4 DEF TypeOK
<1>2. Init => SavedTypes
  BY DEF Init, LoaderInit, SavedTypes
<1> QED BY <1>1, <1>2, SavedStep, GuardInit, GuardStep, HostTypesInit, HostTypesStep, PTL DEF Spec

-----------------------------------------------------------------------------
(* Watch mode *)

(* A file's own content is what it was executed from, or the edit is still to *)
(* be flushed: whatever is cached is emptied by the flush, and what is native *)
(* is asked for by another name. So with what else a load sees, unless it was *)
(* straddled.                                                                 *)
CacheFlushed ==
  \A m \in DOMAIN cache :
    /\ cache[m][m] = content[m] \/ m \in unflushed
    /\ m \notin straddled => \A d \in Imports[m] \ Native : cache[m][d] = content[d] \/ d \in unflushed
NativeFlushed ==
  \A m \in Native : <<m, cacheGeneration>> \in DOMAIN native
    => native[<<m, cacheGeneration>>][m] = content[m] \/ m \in unflushed
LoadFlushed(l) ==
  ~load[l].old => \A m \in DOMAIN load[l].seen : \A d \in Imports[m] :
    load[l].seen[m][d] = content[d] \/ d \in unflushed \/ (d \in Native /\ d # load[l].file)
Flushed == CacheFlushed /\ NativeFlushed /\ \A l \in Loads : LoadFlushed(l)

(* An edit of the file is still to be generated. *)
Owed(f) == f \in unflushed \/ \E j \in Loads : f \in task[j].todo
Noticed == unflushed \subseteq notices \cup pendingFiles \cup lost

(* What a generation that none has overtaken writes will be its file as it is, ... *)
Brings(i) ==
  LET f == task[i].file IN
  /\ task[i].stage = "wait" =>
       /\ f \in DOMAIN load[i].seen => load[i].seen[f][f] = content[f]
       /\ <<f, load[i].suffix>> \in DOMAIN native => native[<<f, load[i].suffix>>][f] = content[f]
  /\ task[i].stage = "write" => task[i].made[f] = content[f]
TasksBring ==
  \A i \in Loads \ late : task[i].file # None => Owed(task[i].file) \/ Brings(i)

(* ... and what none of those generates now is. *)
OutputBrought ==
  \A f \in Schemas \ overtaken : Imports[f] \cap Exiting = {} =>
    Owed(f) \/ Working(f) \ late # {} \/ (output[f] # None /\ output[f][f] = content[f])

WatchInv == host = "watch" => Flushed /\ Noticed /\ TasksBring /\ OutputBrought

(* A module a load reaches is as its file, ... *)
LEMMA SightOwn ==
  ASSUME LoaderTypes, Flushed, NEW l \in Loads, NEW m \in Files, ~Cached(l, m) \/ m \notin Native
  PROVE  Sight(l, m)[m] = content[m] \/ (m \in unflushed /\ Cached(l, m))
<1>1. CASE ~Cached(l, m)
  <2>1. Sight(l, m) = Fresh(l, m) /\ m \in Imports[m]
    BY <1>1, ImportsAssumption DEF Sight
  <2> QED BY <2>1 DEF Fresh
<1>2. CASE Cached(l, m) /\ m \notin Native
  BY <1>2 DEF Sight, Cached, Flushed, CacheFlushed
<1> QED BY <1>1, <1>2

(* ... and so is what it imports, as the load was told. *)
LEMMA SightFlushed ==
  ASSUME LoaderTypes, LoadShape, Flushed, NEW l \in Loads, NEW m \in Files, Execute(l, m),
         ~load[l].old, m \notin straddled, NEW d \in Imports[m]
  PROVE  \/ Sight(l, m)[d] = content[d] \/ d \in unflushed
         \/ d \in Native /\ d # load[l].file
<1>1. /\ load[l].stage = "running" /\ m \notin DOMAIN load[l].seen /\ load[l].file \in Files
      /\ Imports[m] \ {m} \subseteq DOMAIN load[l].seen /\ m \in Imports[load[l].file]
  BY ExecuteEffect DEF LoaderTypes
<1>2. d \in Files /\ d \in Imports[d] /\ (d # m => d \in DOMAIN load[l].seen)
  BY <1>1, ImportsAssumption
<1>3. CASE ~Cached(l, m)
  <2>1. Sight(l, m)[d] = IF d = m THEN content[m] ELSE load[l].seen[d][d]
    BY <1>3 DEF Sight, Fresh
  <2> QED BY <1>2, <2>1 DEF Flushed, LoadFlushed
<1>4. CASE Cached(l, m) /\ m \in Native
  <2>1. d \in Native
    BY <1>4, ImportsAssumption
  <2>2. d = load[l].file => d = m
    BY <1>1, <1>2 DEF LoadShape
  <2>3. CASE m = load[l].file /\ d = m
    <3>1. Key(l, m) = <<m, cacheGeneration>>
      BY <1>1, <1>4, <2>3 DEF Key, LoadShape
    <3>2. Sight(l, m) = native[<<m, cacheGeneration>>] /\ <<m, cacheGeneration>> \in DOMAIN native
      BY <1>4, <3>1 DEF Sight, Cached
    <3> QED BY <1>4, <2>3, <3>2 DEF Flushed, NativeFlushed
  <2> QED BY <2>1, <2>2, <2>3
<1>5. CASE Cached(l, m) /\ m \notin Native
  <2>1. Sight(l, m) = cache[m] /\ m \in DOMAIN cache
    BY <1>5 DEF Sight, Cached
  <2>2. d # load[l].file \/ d \notin Native
    BY <1>1, <1>5, ImportsAssumption
  <2> QED BY <2>1, <2>2 DEF Flushed, CacheFlushed
<1> QED BY <1>3, <1>4, <1>5

(* Executing a module leaves everything flushed, ... *)
LEMMA ExecuteFlushed ==
  ASSUME LoaderTypes, LoadShape, Flushed, NEW l \in Loads, NEW m \in Files, Execute(l, m),
         unflushed' = unflushed
  PROVE  Flushed'
<1> DEFINE e == Sight(l, m)
<1>1. UNCHANGED <<content, cacheGeneration, unflushed>>
  BY DEF Execute, disk
<1>2. /\ \A k \in Loads : k # l => load'[k] = load[k]
      /\ load'[l].file = load[l].file
      /\ load'[l].old <=> (load[l].old \/ m \in straddled)
      /\ DOMAIN load'[l].seen = DOMAIN load[l].seen \cup {m}
      /\ \A x \in DOMAIN load[l].seen : load'[l].seen[x] = load[l].seen[x]
      /\ load'[l].seen[m] = e
  BY ExecuteEffect
<1>3. ~load[l].old /\ m \notin straddled =>
        \A d \in Imports[m] : e[d] = content[d] \/ d \in unflushed \/ (d \in Native /\ d # load[l].file)
  BY SightFlushed
<1>4. ~Cached(l, m) => e[m] = content[m]
  BY SightOwn
<1> HIDE DEF e
<1>5. \A k \in Loads : LoadFlushed(k)'
  <2>1. \A k \in Loads : k # l => LoadFlushed(k)'
    BY <1>1, <1>2 DEF Flushed, LoadFlushed
  <2>2. ASSUME ~load'[l].old, NEW x \in DOMAIN load'[l].seen, NEW d \in Imports[x]
        PROVE  load'[l].seen[x][d] = content[d] \/ d \in unflushed \/ (d \in Native /\ d # load[l].file)
    <3>1. ~load[l].old /\ m \notin straddled
      BY <1>2, <2>2
    <3>2. CASE x \in DOMAIN load[l].seen
      BY <1>2, <2>2, <3>1, <3>2 DEF Flushed, LoadFlushed
    <3>3. CASE x \notin DOMAIN load[l].seen
      <4>1. x = m /\ load'[l].seen[x] = e
        BY <1>2, <2>2, <3>3
      <4> QED BY <1>3, <2>2, <3>1, <4>1
    <3> QED BY <3>2, <3>3
  <2>3. LoadFlushed(l)'
    BY <1>1, <1>2, <2>2 DEF LoadFlushed
  <2> QED BY <2>1, <2>3
<1>6. CASE m \in Native
  <2>1. UNCHANGED <<cache, straddled>> /\ native' = WithEntry(native, Key(l, m), e)
    BY <1>6 DEF Execute, e
  <2>2. CacheFlushed'
    BY <1>1, <2>1 DEF Flushed, CacheFlushed
  <2>3. ASSUME NEW n \in Native, <<n, cacheGeneration>> \in DOMAIN native'
        PROVE  native'[<<n, cacheGeneration>>][n] = content[n] \/ n \in unflushed
    <3>1. CASE <<n, cacheGeneration>> \in DOMAIN native
      BY <2>1, <3>1 DEF WithEntry, Flushed, NativeFlushed
    <3>2. CASE <<n, cacheGeneration>> \notin DOMAIN native
      <4>1. Key(l, m) = <<n, cacheGeneration>> /\ native'[<<n, cacheGeneration>>] = e
        BY <2>1, <2>3, <3>2 DEF WithEntry
      <4>2. n = m /\ ~Cached(l, m)
        BY <1>6, <3>2, <4>1 DEF Key, Cached
      <4> QED BY <1>4, <4>1, <4>2
    <3> QED BY <3>1, <3>2
  <2> QED BY <1>1, <1>5, <2>2, <2>3 DEF Flushed, NativeFlushed
<1>7. CASE m \notin Native
  <2>1. /\ native' = native /\ cache' = WithEntry(cache, m, e) /\ straddled \subseteq straddled'
        /\ load[l].old /\ ~Cached(l, m) => m \in straddled'
    BY <1>7 DEF Execute, e
  <2>2. NativeFlushed'
    BY <1>1, <2>1 DEF Flushed, NativeFlushed
  <2>3. ASSUME NEW k \in DOMAIN cache'
        PROVE  /\ cache'[k][k] = content[k] \/ k \in unflushed
               /\ k \notin straddled' =>
                    \A d \in Imports[k] \ Native : cache'[k][d] = content[d] \/ d \in unflushed
    <3>1. CASE k \in DOMAIN cache
      <4>1. cache'[k] = cache[k]
        BY <2>1, <3>1 DEF WithEntry
      <4> QED BY <2>1, <3>1, <4>1 DEF Flushed, CacheFlushed
    <3>2. CASE k \notin DOMAIN cache
      <4>1. k = m /\ cache'[k] = e /\ ~Cached(l, m)
        BY <1>7, <2>1, <2>3, <3>2 DEF WithEntry, Cached
      <4> QED BY <1>3, <1>4, <2>1, <4>1
    <3> QED BY <3>1, <3>2
  <2> QED BY <1>1, <1>5, <2>2, <2>3 DEF Flushed, CacheFlushed
<1> QED BY <1>6, <1>7

(* ... and a generation under way to bring its file as it is. *)
LEMMA ExecuteBrings ==
  ASSUME LoaderTypes, LoadShape, TaskLoads, WatchTypes, Flushed, TasksBring,
         NEW l \in Loads, NEW m \in Files, Execute(l, m), UNCHANGED watchVars
  PROVE  TasksBring'
<1>1. UNCHANGED <<content, unflushed, task, late>>
  BY DEF Execute, disk, watchVars, watchGhosts
<1>2. /\ \A k \in Loads : k # l => load'[k] = load[k]
      /\ load[l].stage = "running"
      /\ load'[l].file = load[l].file /\ load'[l].suffix = load[l].suffix
      /\ DOMAIN load'[l].seen = DOMAIN load[l].seen \cup {m}
      /\ \A x \in DOMAIN load[l].seen : load'[l].seen[x] = load[l].seen[x]
      /\ load'[l].seen[m] = Sight(l, m)
  BY ExecuteEffect
<1>3. ASSUME NEW f \in Native, NEW g, <<f, g>> \in DOMAIN native',
             <<f, g>> \in DOMAIN native => native[<<f, g>>][f] = content[f]
      PROVE  native'[<<f, g>>][f] = content[f]
  <2>1. CASE <<f, g>> \in DOMAIN native
    BY <1>3, <2>1 DEF Execute, WithEntry
  <2>2. CASE <<f, g>> \notin DOMAIN native
    <3>1. m \in Native /\ Key(l, m) = <<f, g>> /\ native'[<<f, g>>] = Sight(l, m)
      BY <1>3, <2>2 DEF Execute, WithEntry
    <3>2. f = m /\ ~Cached(l, m)
      BY <2>2, <3>1 DEF Key, Cached
    <3> QED BY <3>1, <3>2, SightOwn
  <2> QED BY <2>1, <2>2
<1>4. DOMAIN native' \subseteq Native \X (0 .. cacheGeneration')
  BY LoaderStepTypes DEF LoaderStep, LoaderTypes
<1>5. ASSUME NEW i \in Loads \ late, task[i].file # None, ~Owed(task[i].file)
      PROVE  Brings(i)'
  <2> DEFINE f == task[i].file
  <2>1. Brings(i) /\ f \notin unflushed
    BY <1>5 DEF TasksBring, Owed
  <2>2. ASSUME task[i].stage = "wait", <<f, load[i].suffix>> \in DOMAIN native'
        PROVE  native'[<<f, load[i].suffix>>][f] = content[f]
    BY <1>3, <1>4, <2>1, <2>2 DEF Brings
  <2>3. ASSUME task[i].stage = "wait", f \in DOMAIN load'[i].seen
        PROVE  load'[i].seen[f][f] = content[f]
    <3>1. CASE i # l \/ f \in DOMAIN load[i].seen
      BY <1>2, <2>1, <2>3, <3>1 DEF Brings
    <3>2. CASE i = l /\ f \notin DOMAIN load[l].seen
      <4>1. f = m /\ load'[i].seen[f] = Sight(l, m) /\ load[l].file = m
        BY <1>2, <2>3, <3>2 DEF TaskLoads
      <4>2. CASE ~Cached(l, m) \/ m \notin Native
        BY <2>1, <4>1, <4>2, SightOwn
      <4>3. CASE Cached(l, m) /\ m \in Native
        <5>1. Sight(l, m) = native[<<f, load[i].suffix>>] /\ <<f, load[i].suffix>> \in DOMAIN native
          BY <3>2, <4>1, <4>3 DEF Sight, Cached, Key
        <5> QED BY <2>1, <2>3, <4>1, <5>1 DEF Brings
      <4> QED BY <4>2, <4>3
    <3> QED BY <3>1, <3>2
  <2>4. load'[i].suffix = load[i].suffix
    BY <1>2
  <2> QED BY <1>1, <2>1, <2>2, <2>3, <2>4 DEF Brings
<1> QED BY <1>1, <1>5 DEF TasksBring, Owed

(* A load goes on. *)
LEMMA WatchLoadStep ==
  ASSUME HostTypes, host = "watch", WatchInv, NEW i \in Loads, WatchLoad(i), host' = host
  PROVE  WatchInv'
<1>1. /\ LoaderStep(i) /\ UNCHANGED watchVars /\ Flushed /\ Noticed /\ TasksBring /\ OutputBrought
      /\ LoaderTypes /\ LoadShape /\ TaskLoads /\ WatchTypes
  BY DEF WatchLoad, HostTypes, WatchInv
<1>2. content' = content
  BY <1>1 DEF LoaderStep, Dequeue, Settle, ProcessExit, Execute, disk
<1>3. Noticed' /\ OutputBrought'
  BY <1>1, <1>2 DEF Noticed, OutputBrought, Owed, Working, watchVars, watchGhosts
<1>4. ASSUME NEW m \in Files, Execute(i, m)
      PROVE  Flushed' /\ TasksBring'
  BY <1>1, <1>4, ExecuteFlushed, ExecuteBrings DEF watchVars, watchGhosts
<1>5. ASSUME UNCHANGED caches,
             \A k \in Loads : /\ load'[k].seen = load[k].seen /\ load'[k].old = load[k].old
                              /\ load'[k].suffix = load[k].suffix /\ load'[k].file = load[k].file
      PROVE  Flushed' /\ TasksBring'
  <2>1. Flushed'
    BY <1>1, <1>2, <1>5 DEF Flushed, CacheFlushed, NativeFlushed, LoadFlushed, caches, watchVars, watchGhosts
  <2>2. TasksBring'
    BY <1>1, <1>2, <1>5 DEF TasksBring, Owed, Brings, caches, watchVars, watchGhosts
  <2> QED BY <2>1, <2>2
<1>6. ASSUME UNCHANGED caches, load[i].stage # "idle", NEW stage \in {"running", "done", "failed"},
             load' = [load EXCEPT ![i].stage = stage]
      PROVE  Flushed' /\ TasksBring'
  BY <1>1, <1>5, <1>6, StageTypes
<1>7. Flushed' /\ TasksBring'
  BY <1>1, <1>4, <1>5, <1>6, LoaderStepCases
<1> QED BY <1>3, <1>7 DEF WatchInv

(* A file is edited. *)
LEMMA WatchEditStep ==
  ASSUME HostTypes, host = "watch", WatchInv, NEW f \in Files, NEW c \in Contents, WatchEdit(f, c),
         host' = host
  PROVE  WatchInv'
<1>1. /\ Flushed /\ Noticed /\ TasksBring /\ OutputBrought
      /\ LoaderTypes /\ LoadShape /\ TaskLoads /\ WatchTypes
  BY DEF HostTypes, WatchInv
<1>2. /\ unflushed' = unflushed \cup {f} /\ UNCHANGED <<caches, load, pendingFiles, task, output, late, overtaken>>
      /\ \A d : d # f => content'[d] = content[d]
  BY <1>1 DEF WatchEdit, Edit, LoaderTypes
<1>3. Noticed'
  BY <1>1, <1>2 DEF Noticed, WatchEdit
<1>4. Flushed'
  BY <1>1, <1>2 DEF Flushed, CacheFlushed, NativeFlushed, LoadFlushed, caches
<1>5. \A d : Owed(d)' <=> Owed(d) \/ d = f
  BY <1>2 DEF Owed
<1>6. TasksBring'
  BY <1>1, <1>2, <1>5 DEF TasksBring, Brings, caches
<1>7. OutputBrought'
  BY <1>1, <1>2, <1>5 DEF OutputBrought, Working
<1> QED BY <1>3, <1>4, <1>6, <1>7 DEF WatchInv

(* The watcher notices it. *)
LEMMA NoticeStep ==
  ASSUME WatchInv, host = "watch", NEW f \in Files, Notice(f), host' = host
  PROVE  WatchInv'
<1>1. UNCHANGED <<content, caches, load, task, output, unflushed, late, overtaken, lost>>
      /\ notices \cup pendingFiles \subseteq notices' \cup pendingFiles'
  BY DEF Notice, loaderVars, disk, watchGhosts
<1>2. Flushed'
  BY <1>1 DEF WatchInv, Flushed, CacheFlushed, NativeFlushed, LoadFlushed, caches
<1>3. Noticed'
  BY <1>1 DEF WatchInv, Noticed
<1>4. TasksBring' /\ OutputBrought'
  BY <1>1 DEF WatchInv, TasksBring, OutputBrought, Owed, Brings, Working, caches
<1> QED BY <1>2, <1>3, <1>4 DEF WatchInv

(* The batch is flushed. *)
LEMMA FlushStep ==
  ASSUME HostTypes, host = "watch", WatchInv, NEW i \in Loads, Flush(i), host' = host
  PROVE  WatchInv'
<1>1. /\ Flushed /\ Noticed /\ TasksBring /\ OutputBrought
      /\ LoaderTypes /\ LoadShape /\ TaskLoads /\ WatchTypes
  BY DEF HostTypes, WatchInv
<1>2. /\ UNCHANGED <<content, native, notices, output, late, overtaken>> /\ pendingFiles' = {}
      /\ lost' = lost \ pendingFiles /\ unflushed' = unflushed \ pendingFiles /\ cache' = << >>
      /\ cacheGeneration' = cacheGeneration + 1 /\ Straddle
  BY DEF Flush, InvalidateModuleCache, disk
<1>3. /\ \A k \in Loads : k # i => task'[k] = task[k]
      /\ task[i].todo = {} /\ task'[i].todo = pendingFiles
      /\ task[i].file = None /\ task'[i].file = None
  BY <1>1, FlushEffect DEF WatchTypes
<1>4. /\ \A l \in Loads : /\ load'[l].stage = load[l].stage /\ load'[l].file = load[l].file
                          /\ load'[l].seen = load[l].seen /\ load'[l].suffix = load[l].suffix
      /\ \A l \in Loads : load'[l].old \/ load'[l].seen = << >>
  BY <1>1, <1>2, StraddleEffect DEF LoaderTypes
<1>5. Flushed'
  <2>1. CacheFlushed'
    BY <1>2, ExecutionTypes DEF CacheFlushed
  <2>2. NativeFlushed'
    BY <1>1, <1>2 DEF NativeFlushed, LoaderTypes
  <2>3. \A l \in Loads : LoadFlushed(l)'
    BY <1>4, ExecutionTypes DEF LoadFlushed
  <2> QED BY <2>1, <2>2, <2>3 DEF Flushed
<1>6. Noticed'
  BY <1>1, <1>2 DEF Noticed
<1>7. \A d : Owed(d) => Owed(d)'
  BY <1>2, <1>3 DEF Owed
<1>8. TasksBring'
  <2>1. ASSUME NEW k \in Loads \ late, task'[k].file # None, ~Owed(task[k].file)'
        PROVE  Brings(k)'
    <3>1. task'[k] = task[k] /\ Brings(k)
      BY <1>1, <1>3, <1>7, <2>1 DEF TasksBring
    <3> QED BY <1>2, <1>4, <3>1 DEF Brings
  <2> QED BY <1>2, <2>1 DEF TasksBring
<1>9. \A d : d # None => Working(d) \subseteq Working(d)'
  BY <1>3 DEF Working
<1>10. OutputBrought'
  BY <1>1, <1>2, <1>7, <1>9, WatchAssumption, NoneAssumption DEF OutputBrought
<1> QED BY <1>5, <1>6, <1>8, <1>10 DEF WatchInv

(* A step of generation i that leaves everything flushed, and other files    *)
(* than the one it is about as they are.                                     *)
LEMMA TaskStep ==
  ASSUME HostTypes, host = "watch", WatchInv, NEW i \in Loads, host' = host,
         UNCHANGED <<content, caches, notices, pendingFiles, unflushed, lost>>,
         \A k \in Loads : k # i => task'[k] = task[k] /\ load'[k] = load[k],
         \/ load'[i].seen = << >>
         \/ load'[i].seen = load[i].seen /\ load'[i].old = load[i].old /\ load'[i].file = load[i].file,
         TasksBring', OutputBrought'
  PROVE  WatchInv'
<1>1. Flushed /\ Noticed
  BY DEF WatchInv
<1>2. \A l \in Loads : LoadFlushed(l)'
  BY <1>1, ExecutionTypes DEF Flushed, LoadFlushed
<1>3. Flushed' /\ Noticed'
  BY <1>1, <1>2 DEF Flushed, CacheFlushed, NativeFlushed, Noticed, caches
<1> QED BY <1>3 DEF WatchInv

(* The next file's turn: it is owed no more, and is generated now. *)
LEMMA GenerateStep ==
  ASSUME HostTypes, host = "watch", WatchInv, NEW i \in Loads, NEW f \in Files, Generate(i, f),
         host' = host
  PROVE  WatchInv'
<1>1. /\ TasksBring /\ OutputBrought /\ LoaderTypes /\ WatchTypes /\ None \notin Schemas
  BY NoneAssumption, WatchAssumption DEF HostTypes, WatchInv
<1>2. /\ \A k \in Loads : k # i => task'[k] = task[k]
      /\ f \in task[i].todo /\ task'[i].todo = task[i].todo \ {f}
      /\ task[i].file = None
      /\ f \in Schemas => task'[i].stage = "load" /\ task'[i].file = f
      /\ f \notin Schemas => task'[i].stage = "next" /\ task'[i].file = None
  BY <1>1, GenerateEffect DEF WatchTypes
<1>3. /\ UNCHANGED <<content, caches, notices, pendingFiles, unflushed, lost, load, output>>
      /\ overtaken' = overtaken /\ late' = IF f \in Schemas THEN late \cup Working(f) ELSE late
      /\ i \notin late
  BY <1>1, GenerateEffect DEF Generate, loaderVars, disk, WatchTypes
<1>4. \A d : d # f => (Owed(d) => Owed(d)')
  BY <1>2, <1>3 DEF Owed
<1>5. TasksBring'
  <2>1. ASSUME NEW k \in Loads \ late', task'[k].file # None, ~Owed(task[k].file)'
        PROVE  Brings(k)'
    <3>1. CASE k = i
      BY <1>2, <2>1, <3>1 DEF Brings
    <3>2. CASE k # i
      <4>1. task'[k] = task[k] /\ task[k].file \in Schemas
        BY <1>1, <1>2, <2>1, <3>2 DEF WatchTypes, TaskRecords
      <4>2. task[k].file # f
        BY <1>3, <2>1, <4>1 DEF Working
      <4>3. Brings(k)
        BY <1>1, <1>3, <1>4, <2>1, <4>1, <4>2 DEF TasksBring
      <4> QED BY <1>3, <4>1, <4>3 DEF Brings, caches
    <3> QED BY <3>1, <3>2
  <2> QED BY <2>1 DEF TasksBring
<1>6. OutputBrought'
  <2>1. \A d \in Schemas : d # f => Working(d) \ late \subseteq Working(d)' \ late'
    BY <1>1, <1>2, <1>3 DEF Working
  <2>2. f \in Schemas => Working(f)' \ late' # {}
    <3>1. i \notin Working(f) \/ f \notin Schemas
      BY <1>1, <1>2 DEF Working
    <3> QED BY <1>2, <1>3, <3>1 DEF Working
  <2> QED BY <1>1, <1>3, <1>4, <2>1, <2>2 DEF OutputBrought
<1> QED BY <1>2, <1>3, <1>5, <1>6, TaskStep

(* Its load begins with nothing seen. *)
LEMMA DiscoverStep ==
  ASSUME HostTypes, host = "watch", WatchInv, NEW i \in Loads, Discover(i), host' = host
  PROVE  WatchInv'
<1>1. /\ TasksBring /\ OutputBrought /\ LoaderTypes /\ WatchTypes /\ Flushed
  BY DEF HostTypes, WatchInv
<1> DEFINE f == task[i].file
<1>2. /\ \A k \in Loads : k # i => task'[k] = task[k]
      /\ task'[i].stage = "wait" /\ task'[i].file = f /\ task'[i].todo = task[i].todo
      /\ f \in Files /\ Request(i, f)
  BY <1>1, DiscoverEffect, WatchAssumption DEF WatchTypes, TaskRecords, Discover
<1>3. UNCHANGED <<content, caches, notices, pendingFiles, unflushed, lost, late, overtaken, output>>
  BY <1>2 DEF Discover, Request, disk, watchGhosts
<1>4. /\ \A k \in Loads : k # i => load'[k] = load[k]
      /\ load'[i].seen = << >> /\ load'[i].suffix = IF f \in Native THEN cacheGeneration ELSE 0
  BY <1>1, <1>2, RequestEffect
<1>5. \A d : Owed(d)' <=> Owed(d)
  BY <1>2, <1>3 DEF Owed
<1>6. TasksBring'
  <2>1. ASSUME NEW k \in Loads \ late, task'[k].file # None, ~Owed(task'[k].file)
        PROVE  Brings(k)'
    <3>1. CASE k # i
      <4>1. Brings(k)
        BY <1>1, <1>2, <2>1, <3>1 DEF TasksBring
      <4> QED BY <1>2, <1>3, <1>4, <3>1, <4>1 DEF Brings, caches
    <3>2. CASE k = i
      <4>1. f \notin unflushed
        BY <1>2, <2>1, <3>2 DEF Owed
      <4>2. <<f, load'[i].suffix>> \in DOMAIN native => f \in Native
        BY <1>1 DEF LoaderTypes
      <4>3. <<f, load'[i].suffix>> \in DOMAIN native => native[<<f, load'[i].suffix>>][f] = content[f]
        BY <1>1, <1>4, <4>1, <4>2 DEF Flushed, NativeFlushed
      <4>4. f \notin DOMAIN load'[i].seen
        BY <1>4, ExecutionTypes
      <4> QED BY <1>2, <1>3, <3>2, <4>3, <4>4 DEF Brings, caches
    <3> QED BY <3>1, <3>2
  <2> QED BY <1>3, <1>5, <2>1 DEF TasksBring
<1>7. OutputBrought'
  <2>1. \A d \in Schemas : Working(d)' = Working(d)
    BY <1>2 DEF Working
  <2> QED BY <1>1, <1>3, <1>5, <2>1 DEF OutputBrought
<1> QED BY <1>2, <1>3, <1>4, <1>6, <1>7, TaskStep

(* What the load saw of it is what will be written; a load that failed wrote *)
(* nothing, of a file that exits.                                            *)
LEMMA DiscoveredStep ==
  ASSUME HostTypes, host = "watch", WatchInv, NEW i \in Loads, Discovered(i), host' = host
  PROVE  WatchInv'
<1>1. /\ TasksBring /\ OutputBrought /\ LoaderTypes /\ LoadShape /\ WatchTypes /\ TaskLoads /\ Flushed
  BY DEF HostTypes, WatchInv
<1> DEFINE f == task[i].file
<1>2. /\ \A k \in Loads : k # i => task'[k] = task[k]
      /\ task[i].stage = "wait" /\ task'[i].todo = task[i].todo /\ f \in Files
      /\ load[i].stage \in {"done", "failed"}
      /\ load[i].stage = "done" =>
           /\ task'[i].stage = "write" /\ task'[i].file = f
           /\ task'[i].made = load[i].seen[f] /\ f \in DOMAIN load[i].seen
      /\ load[i].stage = "failed" =>
           task'[i].stage = "next" /\ task'[i].file = None /\ Imports[f] \cap Exiting # {}
  BY <1>1, DiscoveredEffect
<1>3. /\ UNCHANGED <<content, caches, notices, pendingFiles, unflushed, lost, overtaken, output>>
      /\ late' \subseteq late /\ late \subseteq late' \cup {i}
      /\ load[i].stage = "done" => late' = late
  BY DEF Discovered, Take, disk
<1>4. (\A k \in Loads : k # i => load'[k] = load[k]) /\ load'[i].seen = << >>
  BY <1>1, TakeEffect DEF Discovered, IdleLoad
<1>5. \A d : Owed(d)' <=> Owed(d)
  BY <1>2, <1>3 DEF Owed
<1>6. TasksBring'
  <2>1. ASSUME NEW k \in Loads \ late', task'[k].file # None, ~Owed(task'[k].file)
        PROVE  Brings(k)'
    <3>1. CASE k # i
      <4>1. Brings(k)
        BY <1>1, <1>2, <1>3, <2>1, <3>1 DEF TasksBring
      <4> QED BY <1>2, <1>3, <1>4, <3>1, <4>1 DEF Brings, caches
    <3>2. CASE k = i
      <4>1. load[i].stage = "done"
        BY <1>2, <2>1, <3>2
      <4>2. Brings(i)
        BY <1>1, <1>2, <1>3, <2>1, <3>2, <4>1 DEF TasksBring
      <4> QED BY <1>2, <1>3, <3>2, <4>1, <4>2 DEF Brings
    <3> QED BY <3>1, <3>2
  <2> QED BY <1>3, <1>5, <2>1 DEF TasksBring
<1>7. OutputBrought'
  <2>1. \A d \in Schemas : Imports[d] \cap Exiting = {} => Working(d) \ late \subseteq Working(d)' \ late'
    BY <1>2, <1>3 DEF Working
  <2> QED BY <1>1, <1>3, <1>5, <2>1 DEF OutputBrought
<1> QED BY <1>2, <1>3, <1>4, <1>6, <1>7, TaskStep

(* It is written. *)
LEMMA WriteStep ==
  ASSUME HostTypes, host = "watch", WatchInv, NEW i \in Loads, Write(i), host' = host
  PROVE  WatchInv'
<1>1. /\ TasksBring /\ OutputBrought /\ LoaderTypes /\ WatchTypes /\ None \notin Executions
  BY ExecutionTypes DEF HostTypes, WatchInv
<1> DEFINE f == task[i].file
<1>2. /\ \A k \in Loads : k # i => task'[k] = task[k]
      /\ task[i].stage = "write" /\ f \in Schemas /\ task[i].made \in Executions
      /\ task'[i].stage = "next" /\ task'[i].file = None /\ task'[i].todo = task[i].todo
      /\ \A d \in Schemas : output'[d] = IF d = f THEN task[i].made ELSE output[d]
  BY <1>1, WriteEffect
<1>3. /\ UNCHANGED <<content, caches, notices, pendingFiles, unflushed, lost, load>>
      /\ late' = late \ {i}
      /\ overtaken' = IF i \in late THEN overtaken \cup {f} ELSE overtaken \ {f}
  BY DEF Write, loaderVars, disk
<1>4. \A d : Owed(d)' <=> Owed(d)
  BY <1>2, <1>3 DEF Owed
<1>5. TasksBring'
  <2>1. ASSUME NEW k \in Loads \ late', task'[k].file # None, ~Owed(task'[k].file)
        PROVE  Brings(k)'
    <3>1. k # i /\ Brings(k)
      BY <1>1, <1>2, <1>3, <2>1 DEF TasksBring
    <3> QED BY <1>2, <1>3, <3>1 DEF Brings, caches
  <2> QED BY <1>3, <1>4, <2>1 DEF TasksBring
<1>6. OutputBrought'
  <2>1. ASSUME NEW d \in Schemas \ overtaken', Imports[d] \cap Exiting = {}, ~Owed(d),
               (Working(d) \ late)' = {}
        PROVE  output'[d] # None /\ output'[d][d] = content[d]
    <3>1. CASE d = f
      <4>1. f # None /\ i \notin late
        BY <1>2, <1>3, <2>1, <3>1, WatchAssumption, NoneAssumption
      <4>2. Brings(i)
        BY <1>1, <2>1, <3>1, <4>1 DEF TasksBring
      <4> QED BY <1>1, <1>2, <3>1, <4>2 DEF Brings
    <3>2. CASE d # f
      <4>1. Working(d) \ late = {} /\ d \notin overtaken
        BY <1>2, <1>3, <2>1, <3>2 DEF Working
      <4> QED BY <1>1, <1>2, <2>1, <3>2, <4>1 DEF OutputBrought
    <3> QED BY <3>1, <3>2
  <2> QED BY <1>3, <1>4, <2>1 DEF OutputBrought
<1> QED BY <1>2, <1>3, <1>5, <1>6, TaskStep

(* Nothing is left to generate. *)
LEMMA FinishStep ==
  ASSUME HostTypes, host = "watch", WatchInv, NEW i \in Loads, Finish(i), host' = host
  PROVE  WatchInv'
<1>1. TasksBring /\ OutputBrought /\ WatchTypes
  BY DEF HostTypes, WatchInv
<1>2. /\ \A k \in Loads : k # i => task'[k] = task[k]
      /\ task'[i].stage = task[i].stage /\ task'[i].file = task[i].file /\ task'[i].made = task[i].made
      /\ task'[i].todo = task[i].todo
  BY <1>1, FinishEffect
<1>3. UNCHANGED <<content, caches, notices, pendingFiles, unflushed, lost, late, overtaken, load, output>>
  BY DEF Finish, loaderVars, disk, watchGhosts
<1>4. \A d : Owed(d)' <=> Owed(d)
  BY <1>2, <1>3 DEF Owed
<1>5. \A k \in Loads : /\ task'[k].stage = task[k].stage /\ task'[k].file = task[k].file
                       /\ task'[k].made = task[k].made
  BY <1>2
<1>6. \A k \in Loads : Brings(k) => Brings(k)'
  BY <1>3, <1>5 DEF Brings, caches
<1>7. TasksBring'
  BY <1>1, <1>3, <1>4, <1>5, <1>6 DEF TasksBring
<1>8. \A d : Working(d)' = Working(d)
  BY <1>5 DEF Working
<1>9. OutputBrought'
  BY <1>1, <1>3, <1>4, <1>8 DEF OutputBrought
<1> QED BY <1>2, <1>3, <1>7, <1>9, TaskStep

(* Whatever watch mode does. *)
LEMMA WatchStep ==
  ASSUME HostTypes, WatchInv, [Next]_vars
  PROVE  WatchInv'
<1>0. host' = host
  BY HostKept
<1>1. CASE host = "watch" /\ Watch
  <2>1. WatchNext /\ host' = host
    BY <1>0, <1>1 DEF Watch
  <2>2. ASSUME NEW i \in Loads, WatchTask(i)
        PROVE  WatchInv'
    BY <1>1, <2>1, <2>2, GenerateStep, DiscoverStep, DiscoveredStep, WriteStep, FinishStep DEF WatchTask
  <2> QED BY <1>1, <2>1, <2>2, WatchLoadStep, WatchEditStep, NoticeStep, FlushStep
          DEF WatchNext, WatchTimer
<1>2. CASE host = "swc"
  BY <1>0, <1>2 DEF WatchInv
<1>3. CASE UNCHANGED vars
  <2>1. /\ UNCHANGED <<content, caches, load, host>>
        /\ UNCHANGED <<task, output, unflushed, late, overtaken, notices, pendingFiles, lost>>
    BY <1>0, <1>3 DEF vars, loaderVars, disk, watchVars, watchGhosts
  <2>2. Flushed => Flushed'
    BY <2>1 DEF Flushed, CacheFlushed, NativeFlushed, LoadFlushed, caches
  <2>3. Noticed /\ TasksBring /\ OutputBrought => Noticed' /\ TasksBring' /\ OutputBrought'
    BY <2>1 DEF Noticed, TasksBring, OutputBrought, Owed, Brings, Working, caches
  <2> QED BY <2>1, <2>2, <2>3 DEF WatchInv
<1> QED BY <1>1, <1>2, <1>3 DEF Next, Watch, Swc, HostTypes

(* To begin with everything is owed. *)
LEMMA WatchInvInit == Init => WatchInv
<1> SUFFICES ASSUME Init PROVE WatchInv
  OBVIOUS
<1>1. /\ cache = << >> /\ native = << >> /\ unflushed = {}
      /\ \A l \in Loads : load[l].seen = << >>
      /\ task = [i \in Loads |-> IF i = Initial THEN [IdleTask EXCEPT !.on = TRUE, !.todo = Files]
                                                ELSE IdleTask]
  BY DEF Init, LoaderInit, WatchInit, IdleLoad
<1>2. Flushed
  BY <1>1, ExecutionTypes DEF Flushed, CacheFlushed, NativeFlushed, LoadFlushed
<1>3. Noticed
  BY <1>1 DEF Noticed
<1>4. \A i \in Loads : task[i].file = None
  BY <1>1 DEF IdleTask
<1>5. task[Initial].todo = Files
  BY <1>1, WatchAssumption DEF IdleTask
<1>6. TasksBring
  BY <1>4 DEF TasksBring
<1>7. OutputBrought
  BY <1>5, WatchAssumption DEF OutputBrought, Owed
<1> QED BY <1>2, <1>3, <1>6, <1>7 DEF WatchInv

(* In watch mode, however flushes, edits and loads overlap, at rest what was    *)
(* written for a file is made from the file as it is, except in the cases        *)
(* OutputIsCurrent names, and what a load sees is what is on disk or has still   *)
(* to be flushed (runWatch() in watch.ts, generateFile() in generate.ts and      *)
(* invalidateModuleCache() in loader.ts).                                       *)
THEOREM WatchCorrect == Spec => []WatchIsCurrent
<1>1. HostTypes /\ WatchInv => WatchIsCurrent
  <2> SUFFICES ASSUME HostTypes, WatchInv, host = "watch" PROVE OutputIsCurrent /\ LoadSeesFlushed
    BY DEF WatchIsCurrent
  <2>1. LoadSeesFlushed
    BY DEF WatchInv, Flushed, LoadFlushed, LoadSeesFlushed
  <2>2. ASSUME Quiet, NEW f \in Schemas, f \notin lost \cup overtaken, Imports[f] \cap Exiting = {}
        PROVE  output[f] # None /\ output[f][f] = content[f]
    <3>1. \A i \in Loads : task[i].todo = {} /\ task[i].file = None
      BY <2>2 DEF Quiet, HostTypes, WatchTypes
    <3>2. f # None
      BY WatchAssumption, NoneAssumption
    <3>3. Working(f) \ late = {}
      BY <3>1, <3>2 DEF Working
    <3>4. ~Owed(f)
      BY <2>2, <3>1 DEF Quiet, Owed, WatchInv, Noticed
    <3> QED BY <2>2, <3>3, <3>4 DEF WatchInv, OutputBrought
  <2> QED BY <2>1, <2>2 DEF OutputIsCurrent
<1> QED BY <1>1, WatchInvInit, WatchStep, HostTypesInit, HostTypesStep, PTL DEF Spec
=============================================================================
