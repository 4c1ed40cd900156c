----------------------------- MODULE ModuleLoader -----------------------------
(***************************************************************************)
(* The shared module loader (src/loader.ts): build-time execution of       *)
(* source files, one jiti load at a time, native imports beside it, under  *)
(* a reference-counted guard on process.exit and an environment marker.    *)
(*                                                                         *)
(* A load is split at its awaits: it is requested, waits its turn, runs    *)
(* module by module and settles. Its clients (CliWatch, SwcBridge) request *)
(* loads, take their results and invalidate the cache. An executed module  *)
(* is what it was executed from: the contents of itself and its imports.   *)
(*                                                                         *)
(* Ghost state: userMarker, straddled and the field old.                   *)
(***************************************************************************)
EXTENDS Naturals, Sequences, FiniteSets, TLC

CONSTANTS
  Files,      \* first-party source files
  Native,     \* those that are imported natively: .mjs files, or every file of Bun and Deno;
              \* what they import is too
  Imports,    \* the modules executed when a file is loaded, itself included
  Exiting,    \* files whose evaluation calls process.exit() whatever the marker says
  Contents,   \* what a file may contain
  Loads,      \* loads that may be under way together
  None,       \* undefined
  MaxEdits    \* bound: edits of files in one behaviour

ASSUME FilesAssumption   == Native \subseteq Files /\ Exiting \subseteq Files
ASSUME ImportsAssumption ==
  /\ Imports \in [Files -> SUBSET Files]
  /\ \A f \in Files : f \in Imports[f] /\ \A g \in Imports[f] : Imports[g] \subseteq Imports[f]
  /\ \A f \in Native : Imports[f] \subseteq Native
ASSUME LoadsAssumption  == IsFiniteSet(Loads)
ASSUME NoneAssumption    ==
  None \notin Files \cup Contents /\ \A f \in Files : None \notin [Imports[f] -> Contents]
ASSUME EditsAssumption   == MaxEdits \in Nat

VARIABLES
  content, edits,
  cache,            \* jiti.cache: module -> its execution
  native,           \* the runtime's own: <<module, suffix>> -> its execution
  cacheGeneration,
  loadQueue,        \* jiti loads requested and not settled, the first may run
  load,             \* the loads under way
  guardDepth, savedExit, savedMarker,
  exit, marker,     \* process.exit and process.env.ZOD_COMPILER
  alive,            \* the process has not exited
  userMarker,       \* ghost: what the marker was set to to begin with
  straddled         \* ghost: cached modules of a load that began before the cache was emptied

disk       == <<content, edits>>
guard      == <<guardDepth, savedExit, savedMarker, exit, marker>>
caches     == <<cache, native, cacheGeneration, straddled>>
loaderVars == <<disk, caches, loadQueue, load, guard, alive, userMarker>>

(* old: the cache was emptied during the load, or what it saw was straddled.  *)
IdleLoad == [stage |-> "idle", file |-> None, seen |-> << >>, suffix |-> 0, old |-> FALSE]
Running  == {l \in Loads : load[l].stage = "running"}

LoaderInit ==
  /\ \E c \in Contents : content = [f \in Files |-> c]
  /\ edits = 0
  /\ cache = << >> /\ native = << >> /\ cacheGeneration = 0
  /\ loadQueue = << >> /\ load = [l \in Loads |-> IdleLoad]
  /\ guardDepth = 0 /\ savedExit = "none" /\ savedMarker = "unset"
  /\ userMarker \in {"unset", "user"} /\ exit = "real" /\ marker = userMarker
  /\ alive = TRUE /\ straddled = {}

-----------------------------------------------------------------------------
(* The guard, as runGuarded() leaves it on entering and leaving.             *)

InstallGuard ==
  /\ savedExit' = exit /\ savedMarker' = marker
  /\ exit' = "throws" /\ marker' = "1"
RestoreGuard ==
  /\ exit' = IF savedExit = "none" THEN exit ELSE savedExit
  /\ savedExit' = "none"
  /\ marker' = savedMarker /\ UNCHANGED savedMarker

EnterGuarded_EachTime == guardDepth' = guardDepth + 1 /\ InstallGuard
EnterGuarded ==
  /\ guardDepth' = guardDepth + 1
  /\ IF guardDepth = 0 THEN InstallGuard ELSE UNCHANGED <<savedExit, savedMarker, exit, marker>>
LeaveGuarded_EachTime == guardDepth' = guardDepth - 1 /\ RestoreGuard
LeaveGuarded ==
  /\ guardDepth' = guardDepth - 1
  /\ IF guardDepth = 1 THEN RestoreGuard ELSE UNCHANGED <<savedExit, savedMarker, exit, marker>>

-----------------------------------------------------------------------------

Edit(f, c) ==
  /\ alive /\ edits < MaxEdits /\ edits' = edits + 1
  /\ content[f] # c /\ content' = [content EXCEPT ![f] = c]
  /\ UNCHANGED <<caches, loadQueue, load, guard, alive, userMarker>>

(* What invalidateModuleCache() empties.                                     *)
Straddle == load' = [l \in Loads |-> [load[l] EXCEPT !.old = load[l].stage # "idle"]]

InvalidateModuleCache_Suffix ==
  /\ cacheGeneration' = cacheGeneration + 1 /\ UNCHANGED <<cache, native>>
  /\ Straddle /\ straddled' = {}
InvalidateModuleCache ==
  /\ cacheGeneration' = cacheGeneration + 1 /\ cache' = << >> /\ UNCHANGED native
  /\ Straddle /\ straddled' = {}

(* loadSourceFile(): a native import starts at once, a jiti load queues.     *)
Request(l, f) ==
  /\ load[l].stage = "idle"
  /\ IF f \in Native
     THEN /\ load' = [load EXCEPT ![l] = [IdleLoad EXCEPT !.stage = "running", !.file = f,
                                                          !.suffix = cacheGeneration]]
          /\ EnterGuarded /\ UNCHANGED loadQueue
     ELSE /\ load' = [load EXCEPT ![l] = [IdleLoad EXCEPT !.stage = "queued", !.file = f]]
          /\ loadQueue' = Append(loadQueue, l) /\ UNCHANGED guard
  /\ UNCHANGED <<disk, caches, alive, userMarker>>

Dequeue(l) ==
  /\ alive /\ load[l].stage = "queued" /\ Head(loadQueue) = l
  /\ load' = [load EXCEPT ![l].stage = "running"]
  /\ EnterGuarded
  /\ UNCHANGED <<disk, caches, loadQueue, alive, userMarker>>

(* The next load does not start once one has failed.                         *)
Settled_Chained(l, stage) ==
  /\ load' = [load EXCEPT ![l].stage = stage]
  /\ loadQueue' = IF load[l].file \in Native \/ stage = "failed" THEN loadQueue ELSE Tail(loadQueue)
  /\ LeaveGuarded
Settled_WhenDone(l, stage) ==
  /\ load' = [load EXCEPT ![l].stage = stage]
  /\ loadQueue' = IF load[l].file \in Native THEN loadQueue ELSE Tail(loadQueue)
  /\ IF stage = "failed" THEN UNCHANGED guard ELSE LeaveGuarded
Settled(l, stage) ==
  /\ load' = [load EXCEPT ![l].stage = stage]
  /\ loadQueue' = IF load[l].file \in Native THEN loadQueue ELSE Tail(loadQueue)
  /\ LeaveGuarded

Key(l, m) == <<m, IF m = load[l].file THEN load[l].suffix ELSE 0>>
Cached(l, m) == IF m \in Native THEN Key(l, m) \in DOMAIN native ELSE m \in DOMAIN cache
Fresh(l, m)  == [d \in Imports[m] |-> IF d = m THEN content[m] ELSE load[l].seen[d][d]]
Sight(l, m)  == IF ~Cached(l, m) THEN Fresh(l, m)
                ELSE IF m \in Native THEN native[Key(l, m)] ELSE cache[m]

(* An entry is added where there was none.                                   *)
WithEntry(f, k, e) == [x \in DOMAIN f \cup {k} |-> IF x \in DOMAIN f THEN f[x] ELSE e]

(* A load reaches module m, its imports first. Only the module it was asked  *)
(* for carries the generation in its URL.                                    *)
Execute(l, m) ==
  /\ alive /\ load[l].stage = "running"
  /\ m \in Imports[load[l].file] \ DOMAIN load[l].seen
  /\ Imports[m] \ {m} \subseteq DOMAIN load[l].seen
  /\ m \in Exiting => Cached(l, m)
  /\ load' = [load EXCEPT ![l].seen = WithEntry(@, m, Sight(l, m)), ![l].old = @ \/ m \in straddled]
  /\ IF m \in Native
     THEN native' = WithEntry(native, Key(l, m), Sight(l, m)) /\ UNCHANGED <<cache, straddled>>
     ELSE /\ cache' = WithEntry(cache, m, Sight(l, m)) /\ UNCHANGED native
          /\ straddled' = IF load[l].old /\ ~Cached(l, m) THEN straddled \cup {m} ELSE straddled
  /\ UNCHANGED <<disk, cacheGeneration, loadQueue, guard, alive, userMarker>>

(* ... and it calls process.exit().                                          *)
ProcessExit(l, m) ==
  /\ alive /\ load[l].stage = "running"
  /\ m \in (Imports[load[l].file] \cap Exiting) \ DOMAIN load[l].seen
  /\ Imports[m] \ {m} \subseteq DOMAIN load[l].seen
  /\ IF exit = "throws" THEN Settled(l, "failed") /\ UNCHANGED alive
                        ELSE alive' = FALSE /\ UNCHANGED <<load, loadQueue, guard>>
  /\ UNCHANGED <<disk, caches, userMarker>>

Settle(l) ==
  /\ alive /\ load[l].stage = "running"
  /\ DOMAIN load[l].seen = Imports[load[l].file]
  /\ Settled(l, "done")
  /\ UNCHANGED <<disk, caches, alive, userMarker>>

(* The client that awaited it goes on.                                       *)
Take(l) ==
  /\ load[l].stage \in {"done", "failed"}
  /\ load' = [load EXCEPT ![l] = IdleLoad]
  /\ UNCHANGED <<disk, caches, loadQueue, guard, alive, userMarker>>

LoaderStep(l) == \/ Dequeue(l) \/ Settle(l)
                 \/ \E m \in Files : Execute(l, m) \/ ProcessExit(l, m)

-----------------------------------------------------------------------------
(* Properties. *)

AreExecutions(s) == \A m \in DOMAIN s : s[m] \in [Imports[m] -> Contents]

LoaderTypeOK ==
  /\ content \in [Files -> Contents] /\ edits \in 0 .. MaxEdits
  /\ DOMAIN cache \subseteq Files \ Native /\ AreExecutions(cache)
  /\ DOMAIN native \subseteq Native \X (0 .. cacheGeneration)
  /\ \A l \in Loads :
       /\ load[l].stage \in {"idle", "queued", "running", "done", "failed"}
       /\ load[l].file \in Files \cup {None} /\ load[l].suffix \in 0 .. cacheGeneration
       /\ AreExecutions(load[l].seen) /\ load[l].old \in BOOLEAN
  /\ guardDepth \in 0 .. Cardinality(Loads)
  /\ exit \in {"real", "throws"} /\ savedExit \in {"none", "real", "throws"}
  /\ marker \in {"unset", "user", "1"}

(* Whenever a module runs, process.exit() throws and the marker is set, also   *)
(* when another load, native or of another client, has just settled: no        *)
(* module's exit ends the process.                                            *)
GuardHolds == alive /\ (Running # {} => exit = "throws" /\ marker = "1")

(* While none runs both are what they were, however the loads overlapped and  *)
(* whichever failed.                                                          *)
GuardIsRestored == Running = {} => exit = "real" /\ marker = userMarker

(* The guard is up exactly while modules run.                                  *)
GuardIsSound == GuardHolds /\ GuardIsRestored

(* Every load that is requested gets its turn and settles, also after one      *)
(* that failed.                                                               *)
LoadsSettle == \A l \in Loads : (load[l].stage = "queued") ~> (load[l].stage \in {"done", "failed"})

===============================================================================
