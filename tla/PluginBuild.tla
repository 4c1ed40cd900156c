------------------------------ MODULE PluginBuild ------------------------------
(***************************************************************************)
(* The bundler plugin (src/unplugin/index.ts) with its two caches: the     *)
(* results in memory and the disk cache (src/unplugin/disk-cache.ts). Both *)
(* rest on what the module loaders (src/loader.ts, one in the plugin's     *)
(* process, one behind a pool of one worker) have executed.                *)
(*                                                                         *)
(* A transform() call is split at its await: Begin runs up to the await,   *)
(* Execute and Fallback happen during it, Finish or Fail is what follows.  *)
(* Everything else a handler does is synchronous, hence one step.          *)
(*                                                                         *)
(* A file is its content and its mtime; a transform's result is what its   *)
(* discovery saw of each module it executed. Ghost state, which no guard   *)
(* reads: the fields raced and evicted.                                    *)
(***************************************************************************)
EXTENDS Naturals, FiniteSets, Tables

CONSTANTS
  Files,          \* first-party source files
  Entries,        \* those the bundler asks the plugin to transform
  Reads,          \* the modules discovery executes for an entry; {}: none runs
  Complete,       \* entries whose static crawl is complete, or not needed
  Contents,       \* what a file may contain
  None,           \* undefined
  Calls,          \* transform() calls that may be under way together
  MaxEdits,       \* bound: edits of files in one behaviour
  MaxRestarts,    \* bound: restarts of the process in one behaviour
  MaxFaults       \* bound: writes to the cache directory that fail, and files others remove

ASSUME FilesAssumption == Entries \subseteq Files /\ Complete \subseteq Entries
ASSUME ReadsAssumption ==
  /\ Reads \in [Entries -> SUBSET Files]
  /\ \A e \in Entries : IF Reads[e] = {} THEN e \in Complete ELSE e \in Reads[e]
ASSUME NoneAssumption == None \notin Contents
ASSUME BoundsAssumption == {MaxEdits, MaxRestarts, MaxFaults} \subseteq Nat

VARIABLES
  \* the file system, and the watcher's undelivered events
  content, mtime, edits, unannounced,
  \* the plugin's process
  parallel,     \* its `parallel' option: transforms run in the pool
  cache,        \* index.ts `cache': entry -> [code, result]
  call,         \* the transform() calls under way
  loaded,       \* each loader's executed modules, with the content executed
  executed,     \* the pool's executedModules
  statMemo,     \* depStatMemo
  verdictMemo,  \* depsetVerdictMemo
  pending,      \* DiskCache.pending
  \* the cache directory
  entries, depsets, faults,
  restarts

files == <<content, mtime, edits, unannounced>>
memos == <<statMemo, verdictMemo>>
disk  == <<entries, depsets, faults>>
vars  == <<files, cache, call, loaded, executed, memos, pending, disk, restarts, parallel>>

Loaders == {"local", "pool"}
Keys    == Entries \X Contents

(* What a discovery saw: a content for each module it executed. *)
IsSight(s) == DOMAIN s \subseteq Files /\ \A f \in DOMAIN s : s[f] \in Contents

(* raced: a file it depends on changed under it, or before the watcher said *)
(* so. evicted: the loader dropped its modules before they were recorded.   *)
IsResult(r) == IsSight(r.seen) /\ {r.raced, r.evicted} \subseteq BOOLEAN

(* at: the loader that executes.                                             *)
IdleCall == [phase |-> "idle", entry |-> None, code |-> None, at |-> "local",
             seen |-> << >>, raced |-> FALSE, evicted |-> FALSE]

Running == {c \in Calls : call[c].phase = "running"}

Unloaded == [l \in Loaders |-> << >>]

-----------------------------------------------------------------------------
(* The disk cache: stat memo, dependency sets, validation. *)

(* statDep and hashDep: one stat per file, one read per stat. *)
StatOf(f) == IF statMemo[f] # None THEN statMemo[f]
             ELSE [mtime |-> mtime[f], hash |-> None]
HashOf_Unread(f) == StatOf(f).hash
HashOf(f) == IF StatOf(f).hash # None THEN StatOf(f).hash ELSE content[f]
Hashed(f) == [mtime |-> StatOf(f).mtime, hash |-> HashOf(f)]

(* The mtime fast path of validateDepset, then the content hash. *)
SameMtime(f, id) == StatOf(f).mtime = depsets[id][f]
DepMatches(f, id) == SameMtime(f, id) \/ HashOf(f) = id[f]

(* Examining the files of D leaves their stats, and hashes where needed. *)
Examine(D, id) ==
  statMemo' = [f \in Files |-> IF f \notin D THEN statMemo[f]
                               ELSE IF SameMtime(f, id) THEN StatOf(f) ELSE Hashed(f)]

(* validateDepset: the verdict of this process if there is one, otherwise    *)
(* every file up to the first mismatch. A set that is gone validates nothing. *)
Matches_Vacuously(id) == id \in DOMAIN depsets => \A f \in DOMAIN id : DepMatches(f, id)
Matches(id) == id \in DOMAIN depsets /\ \A f \in DOMAIN id : DepMatches(f, id)

Validate(id, ok) ==
  \/ /\ id \in DOMAIN verdictMemo
     /\ ok = verdictMemo[id]
     /\ UNCHANGED memos
  \/ /\ id \notin DOMAIN verdictMemo
     /\ ok = Matches(id)
     /\ verdictMemo' = Over(Just(id, ok), verdictMemo)
     /\ IF id \notin DOMAIN depsets
        THEN UNCHANGED statMemo
        ELSE \E D \in SUBSET DOMAIN id :
               /\ IF ok THEN D = DOMAIN id
                        ELSE Cardinality({f \in D : ~DepMatches(f, id)}) = 1
               /\ Examine(D, id)

(* resetDepValidationMemo *)
ResetDepValidationMemo_VerdictsOnly ==
  verdictMemo' = << >> /\ UNCHANGED statMemo
ResetDepValidationMemo ==
  statMemo' = [f \in Files |-> None] /\ verdictMemo' = << >>

(* buildDepset: the dependency set's name is its (path, hash) pairs, ...     *)
DepsetId(D) == [f \in D |-> HashOf(f)]
Remember(D) ==
  /\ statMemo' = [f \in Files |-> IF f \in D THEN Hashed(f) ELSE statMemo[f]]
  /\ UNCHANGED verdictMemo

(* ... so writeDepset keeps the mtimes of whoever wrote that name first.     *)
WriteDepset_Restats(D) ==
  depsets' = Over(depsets, Just(DepsetId(D), [f \in D |-> mtime[f]]))
WriteDepset(D) ==
  depsets' = Over(depsets, Just(DepsetId(D), [f \in D |-> StatOf(f).mtime]))

Entry(result, D) == [result |-> result, depset |-> DepsetId(D)]

(* A write that fails, or a file that another process removes.              *)
Fault == faults < MaxFaults /\ faults' = faults + 1

(* save(): either write may fail, and no entry is written without its set.   *)
Save(key, result, D) ==
  /\ Remember(D)
  /\ \/ Fault /\ UNCHANGED <<entries, depsets>>
     \/ Fault /\ WriteDepset(D) /\ UNCHANGED entries
     \/ WriteDepset(D) /\ entries' = Over(Just(key, Entry(result, D)), entries) /\ UNCHANGED faults
  /\ UNCHANGED pending

(* saveDeferred(): flushDeferred writes in order, so the last of a key wins. *)
SaveDeferred(key, result) ==
  /\ pending' = {p \in pending : p.key # key} \cup {[key |-> key, result |-> result]}
  /\ UNCHANGED <<memos, disk>>

ExecutedModuleSuperset_LocalOnly == DOMAIN loaded["local"]
ExecutedModuleSuperset ==
  DOMAIN loaded["local"] \cup (IF parallel THEN executed ELSE {})

(* flushDeferred(): one dependency set for all that is pending, or nothing. *)
Flushable == pending # {} /\ ExecutedModuleSuperset # {}

(* Ghost: what is flushed before the watcher has announced its files. *)
AtFlush(p) == [p.result EXCEPT !.raced = @ \/ unannounced \cap Reads[p.key[1]] # {}]

Keyed == {p.key : p \in pending}
WriteDeferred ==
  IF ~Flushable THEN UNCHANGED disk
  ELSE \/ Fault /\ UNCHANGED <<entries, depsets>>
       \/ /\ WriteDepset(ExecutedModuleSuperset)
          /\ \E K \in SUBSET Keyed :
               /\ IF K = Keyed THEN UNCHANGED faults ELSE Fault
               /\ entries' = Over([k \in K |-> Entry(AtFlush(CHOOSE p \in pending : p.key = k),
                                                     ExecutedModuleSuperset)], entries)

-----------------------------------------------------------------------------

(* Contents of different files are never compared: they may all start alike. *)
Init ==
  /\ \E c \in Contents : content = [f \in Files |-> c]
  /\ mtime = [f \in Files |-> 0] /\ edits = 0 /\ unannounced = {}
  /\ cache = [e \in Entries |-> None]
  /\ call = [c \in Calls |-> IdleCall]
  /\ loaded = Unloaded /\ executed = {}
  /\ statMemo = [f \in Files |-> None] /\ verdictMemo = << >>
  /\ pending = {}
  /\ entries = << >> /\ depsets = << >> /\ faults = 0
  /\ restarts = 0
  /\ parallel \in BOOLEAN

-----------------------------------------------------------------------------
(* The user and the bundler's watcher. *)

(* Ghost: what an edit of f does to a call under way. *)
Taint(i, f) == [call[i] EXCEPT !.raced = @ \/ f \in Reads[call[i].entry]]

Edit(f, c) ==
  /\ edits < MaxEdits
  /\ edits' = edits + 1
  /\ content' = [content EXCEPT ![f] = c]
  /\ mtime' = [mtime EXCEPT ![f] = edits']
  /\ unannounced' = unannounced \cup {f}
  /\ call' = [i \in Calls |-> IF i \in Running THEN Taint(i, f) ELSE call[i]]
  /\ UNCHANGED <<cache, loaded, executed, memos, pending, disk, restarts>>

(* Ghost: calls that have executed modules in a loader of L lose them. *)
Evicted(i, L) == [call[i] EXCEPT !.evicted = @ \/ (call[i].at \in L /\ call[i].seen # << >>)]

(* invalidateModuleCache(), of this process. *)
InvalidateModuleCache_Nothing(l) == l
InvalidateModuleCache(l) == [l EXCEPT !["local"] = << >>]

(* pool.invalidate() *)
InvalidatePool_KeepsModules(l) == l
InvalidatePool(l) == [l EXCEPT !["pool"] = << >>]

(* dropDeferred() *)
DropDeferred_Forgotten == pending
DropDeferred == {}

(* watchChange(): both loaders, both memos, what is deferred and the results *)
(* in memory all go. A call under way keeps what it has seen.                *)
WatchChange(f) ==
  /\ f \in unannounced
  /\ unannounced' = unannounced \ {f}
  /\ loaded' = InvalidatePool(InvalidateModuleCache(loaded))
  /\ executed' = {}
  /\ ResetDepValidationMemo
  /\ pending' = DropDeferred
  /\ cache' = [e \in Entries |-> None]
  /\ call' = [i \in Calls |-> Evicted(i, Loaders)]
  /\ UNCHANGED <<content, mtime, edits, disk, restarts>>

-----------------------------------------------------------------------------
(* transform() *)

Start(c, e) ==
  [IdleCall EXCEPT !.phase = "running", !.entry = e, !.code = content[e],
                   !.at = IF parallel THEN "pool" ELSE "local",
                   !.raced = unannounced \cap Reads[e] # {}]

Changed(e) == cache[e] # None /\ cache[e].code # content[e]

(* Up to the await. A result in memory for this content is returned, with no *)
(* effect; one for another content empties this process's loader. Then it is *)
(* the disk entry, if it validates, or the work.                             *)
Begin(c, e) ==
  /\ call[c].phase = "idle"
  /\ cache[e] = None \/ Changed(e)
  /\ loaded' = IF Changed(e) THEN InvalidateModuleCache(loaded) ELSE loaded
  /\ pending' = IF Changed(e)
                THEN {[p EXCEPT !.result.evicted = TRUE] : p \in pending} ELSE pending
  /\ LET key     == <<e, content[e]>>
         others  == [i \in Calls |-> IF Changed(e) THEN Evicted(i, {"local"}) ELSE call[i]]
         started == [others EXCEPT ![c] = Start(c, e)]
     IN \/ /\ key \in DOMAIN entries
           /\ Validate(entries[key].depset, TRUE)
           /\ cache' = [cache EXCEPT ![e] = [code |-> content[e],
                                             result |-> entries[key].result]]
           /\ call' = others
        \/ /\ key \in DOMAIN entries
           /\ Validate(entries[key].depset, FALSE)
           /\ call' = started
           /\ UNCHANGED cache
        \/ /\ key \notin DOMAIN entries
           /\ call' = started
           /\ UNCHANGED <<memos, cache>>
  /\ UNCHANGED <<files, executed, disk, restarts>>

(* One load at a time in this process (loadQueue), one task at a time in the *)
(* worker.                                                                   *)
HasLoader(c) == \A i \in Running \ {c} : call[i].at = call[c].at => call[i].seen = << >>

(* Discovery reaches module f: the loader has it, or executes what is there. *)
Execute(c, f) ==
  /\ c \in Running
  /\ HasLoader(c)
  /\ f \in Reads[call[c].entry] \ DOMAIN call[c].seen
  /\ LET l    == call[c].at
         sees == IF f \in DOMAIN loaded[l] THEN loaded[l][f] ELSE content[f]
     IN /\ loaded' = [loaded EXCEPT ![l] = Over(@, Just(f, sees))]
        /\ call' = [call EXCEPT ![c].seen = Over(@, Just(f, sees))]
  /\ UNCHANGED <<files, cache, executed, memos, pending, disk, restarts>>

(* PoolUnavailableError: the worker died with the task, which starts again   *)
(* in this process.                                                          *)
Fallback(c) ==
  /\ c \in Running
  /\ call[c].at = "pool"
  /\ HasLoader(c)
  /\ call' = [call EXCEPT ![c].at = "local", ![c].seen = << >>, ![c].evicted = FALSE]
  /\ loaded' = [loaded EXCEPT !["pool"] = << >>]
  /\ UNCHANGED <<files, cache, executed, memos, pending, disk, restarts>>

(* The transform's own error propagates: nothing is cached. *)
Fail(c) ==
  /\ c \in Running
  /\ call' = [call EXCEPT ![c] = IdleCall]
  /\ UNCHANGED <<files, cache, loaded, executed, memos, pending, disk, restarts>>

(* collectStaticDeps of a complete crawl, with the entry itself; nothing when *)
(* no discovery ran.                                                         *)
StaticDeps(e) == Reads[e]

(* After the await. *)
Finish(c) ==
  /\ c \in Running
  /\ LET e      == call[c].entry
         key    == <<e, call[c].code>>
         result == [seen |-> call[c].seen, raced |-> call[c].raced, evicted |-> FALSE]
     IN /\ DOMAIN call[c].seen = Reads[e]
        /\ cache' = [cache EXCEPT ![e] = [code |-> call[c].code, result |-> result]]
        /\ executed' = IF call[c].at = "pool" THEN executed \cup DOMAIN loaded["pool"]
                                              ELSE executed
        /\ \/ UNCHANGED <<memos, pending, disk>>  \* uncacheable, or no real work
           \/ /\ e \in Complete
              /\ Save(key, result, StaticDeps(e))
           \/ /\ e \notin Complete
              /\ SaveDeferred(key, [result EXCEPT !.evicted = call[c].evicted])
  /\ call' = [call EXCEPT ![c] = IdleCall]
  /\ UNCHANGED <<files, loaded, restarts>>

-----------------------------------------------------------------------------
(* The end of a build, and of the process. *)

BuildEnd ==
  /\ pending # {}
  /\ WriteDeferred
  /\ IF Flushable THEN Remember(ExecutedModuleSuperset) ELSE UNCHANGED memos
  /\ pending' = {}
  /\ UNCHANGED <<files, cache, call, loaded, executed, restarts>>

(* The next process knows only what is on disk. *)
NextProcess ==
  /\ restarts < MaxRestarts
  /\ restarts' = restarts + 1
  /\ unannounced' = {}
  /\ cache' = [e \in Entries |-> None]
  /\ call' = [c \in Calls |-> IdleCall]
  /\ loaded' = Unloaded /\ executed' = {}
  /\ ResetDepValidationMemo
  /\ pending' = {}
  /\ UNCHANGED <<content, mtime, edits>>

(* process.once("exit") flushes; a killed process loses what is pending. *)
Exit  == NextProcess /\ WriteDeferred
Crash == NextProcess /\ UNCHANGED disk

(* A process that shares the directory wipes or sweeps it (ensureDir, maybeGc): *)
(* file by file, while others read and write. It may remove a set that an    *)
(* entry written since it looked refers to.                                  *)
Others ==
  /\ Fault
  /\ \/ \E k \in DOMAIN entries :
          entries' = [x \in DOMAIN entries \ {k} |-> entries[x]] /\ UNCHANGED depsets
     \/ \E id \in DOMAIN depsets :
          depsets' = [x \in DOMAIN depsets \ {id} |-> depsets[x]] /\ UNCHANGED entries
  /\ UNCHANGED <<files, cache, call, loaded, executed, memos, pending, restarts>>

Next ==
  /\ \/ \E f \in Files, c \in Contents : Edit(f, c)
     \/ \E f \in Files : WatchChange(f)
     \/ \E c \in Calls : \/ \E e \in Entries : Begin(c, e)
                         \/ \E f \in Files : Execute(c, f)
                         \/ Fallback(c)
                         \/ Fail(c)
                         \/ Finish(c)
     \/ BuildEnd
     \/ Exit
     \/ Crash
     \/ Others
  /\ UNCHANGED parallel

Spec == Init /\ [][Next]_vars

-----------------------------------------------------------------------------
(* Properties. *)

TypeOK ==
  /\ content \in [Files -> Contents]
  /\ mtime \in [Files -> 0 .. edits]
  /\ edits \in 0 .. MaxEdits /\ restarts \in 0 .. MaxRestarts /\ faults \in 0 .. MaxFaults
  /\ parallel \in BOOLEAN
  /\ unannounced \cup executed \subseteq Files
  /\ \A e \in Entries : cache[e] # None => cache[e].code \in Contents /\ IsResult(cache[e].result)
  /\ \A c \in Calls :
       /\ c \in Running => call[c].entry \in Entries /\ call[c].code \in Contents
       /\ IsSight(call[c].seen)
  /\ \A l \in Loaders : IsSight(loaded[l])
  /\ \A f \in Files : statMemo[f] # None =>
       statMemo[f].mtime \in 0 .. MaxEdits /\ statMemo[f].hash \in Contents \cup {None}
  /\ \A p \in pending : p.key \in Keys /\ IsResult(p.result)
  /\ \A k \in DOMAIN entries :
       k \in Keys /\ IsResult(entries[k].result) /\ IsSight(entries[k].depset)
  /\ \A id \in DOMAIN depsets : IsSight(id) /\ depsets[id] \in [DOMAIN id -> 0 .. edits]
  /\ \A id \in DOMAIN verdictMemo : IsSight(id) /\ verdictMemo[id] \in BOOLEAN

Sound(r) == ~r.raced /\ ~r.evicted

(* What the plugin would return for an entry from memory is what discovery   *)
(* would see now, once the changes of the files the entry reads have been    *)
(* announced: whichever of memory, disk and loaders it came through, in this *)
(* process or an earlier one.                                                *)
MemoryIsFresh ==
  \A e \in Entries :
    LET r == cache[e].result
    IN cache[e] # None /\ Sound(r) /\ unannounced \cap Reads[e] = {}
         => \A f \in Reads[e] : r.seen[f] = content[f]

(* A result on disk is paired with the contents it was made from, never with *)
(* later ones: "the one combination that can serve stale output".            *)
HashesMatchResult ==
  \A k \in DOMAIN entries :
    LET r == entries[k].result   id == entries[k].depset
    IN Sound(r) => \A f \in Reads[k[1]] \cap DOMAIN id : id[f] = r.seen[f]

(* The dependency set recorded with a result has every module it came from.  *)
DepsetCovers ==
  \A k \in DOMAIN entries :
    Sound(entries[k].result) => Reads[k[1]] \subseteq DOMAIN entries[k].depset

(* The stats, hashes and verdicts a process remembers are those of the files *)
(* as they are, except where a change is unannounced.                        *)
MemosAreCurrent ==
  /\ \A f \in Files \ unannounced :
       statMemo[f] # None => /\ statMemo[f].mtime = mtime[f]
                             /\ statMemo[f].hash \in {None, content[f]}
  /\ \A id \in DOMAIN verdictMemo :
       verdictMemo[id] => \A f \in DOMAIN id \ unannounced : id[f] = content[f]

(* Trusting an equal mtime is sound: no dependency set records a file's       *)
(* present mtime with another content, although mtime and hash are taken at  *)
(* different moments and the first writer's mtimes stay.                     *)
FastPathIsSound ==
  \A id \in DOMAIN depsets : \A f \in DOMAIN id :
    depsets[id][f] = mtime[f] => id[f] = content[f]

(* The same of every result in memory that the next transform of its file is  *)
(* given, as the code it was made for is the file's, one whose transform was  *)
(* under way at the time of the change included: "the file is recomputed      *)
(* either way".                                                               *)
AnnouncedIsFresh ==
  \A e \in Entries :
    cache[e] # None /\ cache[e].code = content[e] /\ unannounced = {}
      => \A f \in Reads[e] : cache[e].result.seen[f] = content[f]

=============================================================================
