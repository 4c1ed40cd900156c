------------------------------- MODULE DepGraph -------------------------------
(***************************************************************************)
(* The static crawl of a file's imports (src/unplugin/dep-graph.ts). What  *)
(* it returns as complete is recorded with a cached transform, or declared *)
(* to the bundler, in place of everything that was executed; nothing is    *)
(* executed for it. Scans and resolutions are memoized across crawls: a    *)
(* scan for as long as the file's mtime stays, a resolution until the      *)
(* watcher reports a change.                                               *)
(***************************************************************************)
EXTENDS Naturals, Sequences, FiniteSets

CONSTANTS
  Sources,     \* paths
  Specifiers,  \* what imports name, each seen from one directory
  Probes,      \* the paths that probing a specifier tries, in order
  Strict,      \* specifiers a miss of which cannot be third-party: relative,
               \* a tsconfig path, #
  Hidden,      \* specifiers execution follows and the crawl does not
  Unknown,     \* not memoized
  OutOfScope,  \* a module that is not the project's
  Unresolved,
  Texts,       \* what a file may contain: the specifiers it imports, and
               \* whether it imports an expression (import(x)) too
  MaxFiles,    \* MAX_FILES
  MaxChanges   \* bound: changes to the file system

ASSUME DepGraphAssumption ==
  /\ Probes \in [Specifiers -> Seq(Sources)] /\ Strict \cup Hidden \subseteq Specifiers
  /\ {Unknown, OutOfScope, Unresolved} \cap Sources = {} /\ IsFiniteSet(Sources)
  /\ Unknown \notin {OutOfScope, Unresolved} /\ OutOfScope # Unresolved
  /\ Texts \subseteq [imports : SUBSET Specifiers, dynamic : BOOLEAN]
  /\ MaxFiles \in Nat \ {0} /\ MaxChanges \in Nat

VARIABLES
  disk,         \* path -> what is there
  changes,      \* changes so far, which also serve as mtimes
  nodeMemo, resolveMemo,
  unannounced,  \* paths changed since the watcher spoke
  appeared,     \* those where there was no file
  crawl         \* the last answer

memoVars  == <<nodeMemo, resolveMemo>>
graphVars == <<disk, changes, memoVars, unannounced, appeared, crawl>>

Absent == [exists |-> FALSE, mtime |-> 0, imports |-> {}, dynamic |-> FALSE]
At(text, time) == [exists |-> TRUE, mtime |-> time, imports |-> text.imports, dynamic |-> text.dynamic]

NoNode == [known |-> FALSE, mtime |-> 0, edges |-> {}, incomplete |-> TRUE]
NoCrawl == [entry |-> Unknown, deps |-> {}, complete |-> FALSE]

Forget == nodeMemo' = [f \in Sources |-> NoNode] /\ resolveMemo' = [s \in Specifiers |-> Unknown]

FreshGraph ==
  /\ changes = 0 /\ unannounced = {} /\ appeared = {} /\ crawl = NoCrawl
  /\ nodeMemo = [f \in Sources |-> NoNode] /\ resolveMemo = [s \in Specifiers |-> Unknown]

EmptyGraph == FreshGraph /\ disk = [f \in Sources |-> Absent]
GraphInit  == FreshGraph /\ disk \in [Sources -> {Absent} \cup {At(t, 0) : t \in Texts}]

-----------------------------------------------------------------------------
(* Resolution and scanning.                                                  *)

(* resolveSpecifierUncached(): the first path that is there. A bare          *)
(* specifier that node does not resolve either is third-party.               *)
Hit(s) == {i \in DOMAIN Probes[s] : disk[Probes[s][i]].exists}
ResolveUncached_Lenient(s) ==
  IF Hit(s) # {} THEN Probes[s][CHOOSE i \in Hit(s) : \A j \in Hit(s) : i <= j] ELSE OutOfScope
ResolveUncached(s) ==
  IF Hit(s) # {} THEN Probes[s][CHOOSE i \in Hit(s) : \A j \in Hit(s) : i <= j]
  ELSE IF s \in Strict THEN Unresolved ELSE OutOfScope
Resolve(s) == IF resolveMemo[s] # Unknown THEN resolveMemo[s] ELSE ResolveUncached(s)

(* fileNode(): the scan of a file, from memory if it is of this mtime.       *)
Specs(f) == disk[f].imports \ Hidden
Memoized(f) == disk[f].exists /\ nodeMemo[f].known /\ nodeMemo[f].mtime = disk[f].mtime
FileNode(f) ==
  IF ~disk[f].exists THEN NoNode
  ELSE IF Memoized(f) THEN nodeMemo[f]
  ELSE [known |-> TRUE, mtime |-> disk[f].mtime,
        edges |-> {Resolve(s) : s \in Specs(f)} \cap Sources,
        incomplete |-> disk[f].dynamic \/ \E s \in Specs(f) : Resolve(s) = Unresolved]

(* The files an entry leads to, each file leading to those in next[f]: the   *)
(* entry, and what a file among them leads to, and no others.                *)
Closure(entry, next) ==
  {f \in Sources : \A T \in SUBSET Sources : entry \in T /\ (\A g \in T : next[g] \subseteq T) => f \in T}

-----------------------------------------------------------------------------
(* Operations.                                                               *)

(* collectStaticDeps(): a depth-first walk, given up at the first file that  *)
(* cannot be analysed, or when there are too many. D is what it visited. The *)
(* entry is no dependency of its own.                                        *)
Answer_WithEntry(entry, all, poison) ==
  [entry |-> entry, complete |-> ~poison, deps |-> IF poison THEN {} ELSE all]
Answer(entry, all, poison) ==
  [entry |-> entry, complete |-> ~poison, deps |-> IF poison THEN {} ELSE all \ {entry}]

CollectStaticDeps(entry) ==
  LET nodes  == [f \in Sources |-> FileNode(f)]
      edges  == [f \in Sources |-> nodes[f].edges]
      bad    == {f \in Sources : nodes[f].incomplete}
      all    == Closure(entry, edges)
      poison == all \cap bad # {} \/ Cardinality(all) > MaxFiles
  IN \E D \in SUBSET all :
       /\ D = Closure(entry, [f \in Sources |-> edges[f] \cap D])
       /\ IF poison THEN \A f \in D \cap bad : D \cap bad = {f} ELSE D = all
       /\ nodeMemo' = [f \in Sources |-> IF f \in D THEN nodes[f] ELSE nodeMemo[f]]
       /\ resolveMemo' = [s \in Specifiers |->
            IF \E f \in D : disk[f].exists /\ ~Memoized(f) /\ s \in Specs(f)
            THEN Resolve(s) ELSE resolveMemo[s]]
       /\ crawl' = Answer(entry, all, poison)
  /\ UNCHANGED <<disk, changes, unannounced, appeared>>

(* watchChange()                                                             *)
ResetDepGraphMemo_NodesOnly ==
  nodeMemo' = [f \in Sources |-> NoNode] /\ UNCHANGED resolveMemo
ResetDepGraphMemo == Forget

WatchChange(f) ==
  /\ f \in unannounced
  /\ unannounced' = unannounced \ {f} /\ appeared' = appeared \ {f}
  /\ ResetDepGraphMemo
  /\ crawl' = NoCrawl
  /\ UNCHANGED <<disk, changes>>

(* A file is written, created or removed.                                    *)
Change(f, there) ==
  /\ changes < MaxChanges
  /\ changes' = changes + 1
  /\ disk' = [disk EXCEPT ![f] = there]
  /\ unannounced' = unannounced \cup {f}
  /\ appeared' = IF disk[f].exists THEN appeared ELSE appeared \cup {f}
  /\ crawl' = NoCrawl
  /\ UNCHANGED memoVars

GraphNext ==
  \E f \in Sources : \/ CollectStaticDeps(f)
                     \/ WatchChange(f)
                     \/ \E t \in Texts : Change(f, At(t, changes + 1))
                     \/ disk[f].exists /\ Change(f, Absent)

-----------------------------------------------------------------------------
(* Properties.                                                               *)

GraphTypeOK ==
  /\ \A f \in Sources : /\ disk[f] = Absent \/ disk[f] \in {At(t, m) : t \in Texts, m \in 0 .. changes}
                        /\ nodeMemo[f].edges \subseteq Sources /\ nodeMemo[f].mtime \in 0 .. changes
  /\ resolveMemo \in [Specifiers -> Sources \cup {Unknown, OutOfScope, Unresolved}]
  /\ appeared \subseteq unannounced /\ unannounced \subseteq Sources
  /\ crawl.deps \subseteq Sources \ {crawl.entry}

(* What executing a file loads, and whether that can be told: an import that *)
(* may be of the project's own must be found.                                *)
Found(s) == {Probes[s][i] : i \in {i \in Hit(s) : \A j \in Hit(s) : i <= j}}
Loads(entry) == Closure(entry, [f \in Sources |-> UNION {Found(s) : s \in disk[f].imports}])
Analysable(loads) ==
  /\ Cardinality(loads) <= MaxFiles
  /\ \A f \in loads : /\ disk[f].exists /\ ~disk[f].dynamic
                       /\ \A s \in disk[f].imports : s \in Strict => Found(s) # {}

(* A crawl that says it is complete covers every module execution can load,  *)
(* whatever has been edited or removed since the memos were made, and        *)
(* whatever has been created that the watcher has reported. When it has      *)
(* reported everything the crawl is exact, so that no file is left out of    *)
(* the cache for good by what an earlier crawl could not resolve.            *)
CrawlCovers ==
  crawl # NoCrawl =>
    LET loads == Loads(crawl.entry)
    IN /\ crawl.complete /\ appeared = {} =>
            loads \subseteq crawl.deps \cup {crawl.entry} /\ Analysable(loads)
       /\ unannounced = {} => /\ crawl.complete <=> Analysable(loads)
                              /\ crawl.complete => crawl.deps = loads \ {crawl.entry}

=============================================================================
