-------------------------- MODULE FileTransformProofs --------------------------
(* Machine-checked proofs about what the transform makes of one file.          *)
EXTENDS MCFileTransform, FiniteSetTheorems, WellFoundedInduction, TLAPS

-----------------------------------------------------------------------------
(* The crawl of a file's imports *)

(* What an entry leads to leads nowhere else, ... *)
LEMMA ClosureClosed ==
  ASSUME NEW entry \in Sources, NEW next, \A g \in Sources : next[g] \subseteq Sources
  PROVE  /\ Closure(entry, next) \subseteq Sources /\ entry \in Closure(entry, next)
         /\ \A g \in Closure(entry, next) : next[g] \subseteq Closure(entry, next)
BY DEF Closure

(* ... and is no more than that. *)
LEMMA ClosureLeast ==
  ASSUME NEW entry \in Sources, NEW next, NEW T \in SUBSET Sources, entry \in T,
         \A g \in T : next[g] \subseteq T
  PROVE  Closure(entry, next) \subseteq T
BY DEF Closure

(* Of the resolutions that have been made since the watcher last spoke: what  *)
(* came before it in the probing was not there, and it was.                   *)
Could(s, r) ==
  /\ r \in Sources =>
       /\ \E i \in DOMAIN Probes[s] :
            Probes[s][i] = r /\ \A j \in DOMAIN Probes[s] :
                                  j < i /\ disk[Probes[s][j]].exists => Probes[s][j] \in appeared
       /\ disk[r].exists \/ r \in unannounced
  /\ r \notin Sources =>
       /\ r = (IF s \in Strict THEN Unresolved ELSE OutOfScope)
       /\ \A j \in DOMAIN Probes[s] : disk[Probes[s][j]].exists => Probes[s][j] \in appeared

(* The scan of a file that is what it was, resolved then. *)
Scanned(f, n) ==
  /\ n.edges \subseteq Sources
  /\ \A s \in Specs(f) : \E r : /\ Could(s, r) /\ (r \in Sources => r \in n.edges)
                                /\ (r = Unresolved => n.incomplete)
  /\ \A r \in n.edges : \E s \in Specs(f) : Could(s, r)
  /\ disk[f].dynamic => n.incomplete
  /\ n.incomplete => disk[f].dynamic \/ \E s \in Specs(f) : Could(s, Unresolved)

NodeRecords == [known : BOOLEAN, mtime : Nat, edges : SUBSET Sources, incomplete : BOOLEAN]
FileRecords == [exists : BOOLEAN, mtime : Nat, imports : SUBSET Specifiers, dynamic : BOOLEAN]

GraphTypes ==
  /\ disk \in [Sources -> {Absent} \cup {At(t, m) : t \in Texts, m \in 0 .. changes}]
  /\ changes \in 0 .. MaxChanges
  /\ nodeMemo \in [Sources -> NodeRecords] /\ \A f \in Sources : nodeMemo[f].mtime \in 0 .. changes
  /\ resolveMemo \in [Specifiers -> Sources \cup {Unknown, OutOfScope, Unresolved}]
  /\ appeared \subseteq unannounced /\ unannounced \subseteq Sources
  /\ crawl.deps \subseteq Sources \ {crawl.entry}

MemoInv ==
  /\ \A s \in Specifiers : resolveMemo[s] # Unknown => Could(s, resolveMemo[s])
  /\ \A f \in Sources : Memoized(f) => Scanned(f, nodeMemo[f])

(* What is on disk is a file or none. *)
LEMMA DiskTypes ==
  ASSUME GraphTypes
  PROVE  disk \in [Sources -> FileRecords] /\ \A f \in Sources : disk[f].mtime <= changes
<1>1. Absent \in FileRecords /\ Absent.mtime = 0
  BY DEF Absent, FileRecords
<1>2. ASSUME NEW t \in Texts, NEW m \in Nat
      PROVE  At(t, m) \in FileRecords /\ At(t, m).mtime = m
  <2>1. t \in [imports : SUBSET Specifiers, dynamic : BOOLEAN]
    BY DepGraphAssumption
  <2> QED BY <2>1 DEF At, FileRecords
<1>3. \A f \in Sources : \/ disk[f] = Absent
                         \/ \E t \in Texts, m \in 0 .. changes : disk[f] = At(t, m)
  BY DEF GraphTypes
<1> HIDE DEF FileRecords, Absent, At
<1>4. \A f \in Sources : disk[f] \in FileRecords /\ disk[f].mtime <= changes
  BY <1>1, <1>2, <1>3, DepGraphAssumption DEF GraphTypes
<1> QED BY <1>4 DEF GraphTypes

(* Probes are paths. *)
LEMMA ProbeTypes ==
  ASSUME NEW s \in Specifiers
  PROVE  /\ DOMAIN Probes[s] \subseteq Nat /\ \A i \in DOMAIN Probes[s] : Probes[s][i] \in Sources
         /\ IsFiniteSet(DOMAIN Probes[s])
<1>1. Probes[s] \in Seq(Sources)
  BY DepGraphAssumption
<1>2. DOMAIN Probes[s] = 1 .. Len(Probes[s]) /\ Len(Probes[s]) \in Nat
  BY <1>1
<1>3. IsFiniteSet(1 .. Len(Probes[s]))
  BY <1>2, FS_Interval
<1> QED BY <1>1, <1>2, <1>3

(* Among some numbers one is the least. *)
LEMMA Least ==
  ASSUME NEW S, S \subseteq Nat, S # {}
  PROVE  \E i \in S : \A j \in S : i <= j
<1> DEFINE Less == {ss \in Nat \X Nat : ss[1] < ss[2]}
<1>1. IsWellFoundedOn(Less, Nat)
  BY NatLessThanWellFounded, Zenon DEF OpToRel
<1>2. \A x, y \in Nat : y < x => <<y, x>> \in Less
  OBVIOUS
<1> HIDE DEF Less
<1>3. PICK x \in S : \A y \in S : ~ (<<y, x>> \in Less)
  BY <1>1, WFMin
<1>4. x \in Nat /\ \A y \in S : y \in Nat /\ ~ (y < x)
  BY <1>2, <1>3
<1> QED BY <1>4

(* What probing finds is the first path that is there. *)
LEMMA FoundFirst ==
  ASSUME NEW s \in Specifiers, GraphTypes
  PROVE  /\ \A r \in Found(s) : /\ r \in Sources /\ disk[r].exists
                                /\ ResolveUncached(s) = r
         /\ \A i \in DOMAIN Probes[s] :
              /\ disk[Probes[s][i]].exists
              /\ \A j \in DOMAIN Probes[s] : j < i => ~disk[Probes[s][j]].exists
              => Found(s) = {Probes[s][i]}
         /\ Hit(s) = {} => Found(s) = {} /\ ResolveUncached(s) = IF s \in Strict THEN Unresolved ELSE OutOfScope
         /\ Hit(s) # {} => \E i \in Hit(s) : /\ \A j \in Hit(s) : i <= j
                                             /\ ResolveUncached(s) = Probes[s][i] /\ Found(s) = {Probes[s][i]}
<1>1. /\ DOMAIN Probes[s] \subseteq Nat /\ \A i \in DOMAIN Probes[s] : Probes[s][i] \in Sources
      /\ Hit(s) \subseteq DOMAIN Probes[s]
  BY ProbeTypes DEF Hit
<1>2. \A i, k \in Hit(s) : (\A j \in Hit(s) : i <= j) /\ (\A j \in Hit(s) : k <= j) => i = k
  BY <1>1
<1>3. ASSUME NEW i \in Hit(s), \A j \in Hit(s) : i <= j
      PROVE  Found(s) = {Probes[s][i]} /\ ResolveUncached(s) = Probes[s][i]
  <2>1. \A k \in Hit(s) : (\A j \in Hit(s) : k <= j) <=> k = i
    BY <1>2, <1>3
  <2>2. (CHOOSE k \in Hit(s) : \A j \in Hit(s) : k <= j) = i
    BY <2>1, <1>3
  <2>3. Found(s) = {Probes[s][i]}
    BY <2>1, <1>1 DEF Found, Hit
  <2> QED BY <2>2, <2>3 DEF ResolveUncached
<1>4. Hit(s) # {} => \E i \in Hit(s) : \A j \in Hit(s) : i <= j
  BY <1>1, Least
<1>5. Hit(s) = {} => Found(s) = {} /\ ResolveUncached(s) = IF s \in Strict THEN Unresolved ELSE OutOfScope
  BY DEF Found, ResolveUncached
<1>6. \A r \in Found(s) : r \in Sources /\ disk[r].exists /\ ResolveUncached(s) = r
  BY <1>1, <1>3, <1>4, <1>5 DEF Hit
<1>7. ASSUME NEW i \in DOMAIN Probes[s], disk[Probes[s][i]].exists,
             \A j \in DOMAIN Probes[s] : j < i => ~disk[Probes[s][j]].exists
      PROVE  Found(s) = {Probes[s][i]}
  <2>1. i \in Hit(s) /\ \A j \in Hit(s) : i <= j
    BY <1>7, <1>1 DEF Hit
  <2> QED BY <2>1, <1>3
<1> QED BY <1>3, <1>4, <1>5, <1>6, <1>7

(* A resolution made now, or remembered, is one that could have been made. *)
LEMMA ResolveCould ==
  ASSUME NEW s \in Specifiers, GraphTypes, MemoInv
  PROVE  /\ Could(s, Resolve(s))
         /\ Resolve(s) \in Sources \cup {OutOfScope, Unresolved}
<1>1. CASE resolveMemo[s] # Unknown
  BY <1>1 DEF Resolve, MemoInv, GraphTypes
<1>2. CASE resolveMemo[s] = Unknown
  <2>1. Resolve(s) = ResolveUncached(s)
    BY <1>2 DEF Resolve
  <2>2. /\ DOMAIN Probes[s] \subseteq Nat /\ \A i \in DOMAIN Probes[s] : Probes[s][i] \in Sources
    BY ProbeTypes
  <2>3. CASE Hit(s) = {}
    BY <2>1, <2>2, <2>3, FoundFirst, DepGraphAssumption DEF Could, Hit
  <2>4. CASE Hit(s) # {}
    <3>1. PICK i \in Hit(s) : (\A j \in Hit(s) : i <= j) /\ ResolveUncached(s) = Probes[s][i]
      BY <2>4, FoundFirst
    <3>2. i \in DOMAIN Probes[s] /\ disk[Probes[s][i]].exists
      BY <3>1 DEF Hit
    <3>3. \A j \in DOMAIN Probes[s] : ~ (j < i /\ disk[Probes[s][j]].exists)
      BY <3>1, <3>2, <2>2 DEF Hit
    <3> QED BY <3>1, <3>2, <3>3, <2>1, <2>2 DEF Could
  <2> QED BY <2>3, <2>4
<1> QED BY <1>1, <1>2

(* The scan of a file that is there, remembered or not. *)
LEMMA NodeScanned ==
  ASSUME NEW f \in Sources, GraphTypes, MemoInv
  PROVE  /\ FileNode(f) \in NodeRecords /\ FileNode(f).mtime \in 0 .. changes
         /\ FileNode(f).edges \subseteq Sources
         /\ ~disk[f].exists => FileNode(f).incomplete /\ FileNode(f).edges = {} /\ ~FileNode(f).known
         /\ disk[f].exists => Scanned(f, FileNode(f))
<1>0. disk[f] \in FileRecords /\ disk[f].mtime <= changes /\ disk[f].exists \in BOOLEAN
      /\ changes \in Nat /\ disk[f].mtime \in Nat /\ disk[f].dynamic \in BOOLEAN /\ Specs(f) \subseteq Specifiers
  BY DiskTypes, DepGraphAssumption DEF FileRecords, GraphTypes, Specs
<1>1. CASE ~disk[f].exists
  <2>1. FileNode(f) = NoNode
    BY <1>1 DEF FileNode
  <2> QED BY <2>1, <1>1, <1>0 DEF NoNode, NodeRecords
<1>2. CASE disk[f].exists /\ Memoized(f)
  <2>1. FileNode(f) = nodeMemo[f]
    BY <1>2 DEF FileNode
  <2> QED BY <2>1, <1>2 DEF MemoInv, GraphTypes, NodeRecords
<1>3. CASE disk[f].exists /\ ~Memoized(f)
  <2> DEFINE n == FileNode(f)
             inc == disk[f].dynamic \/ \E s \in Specs(f) : Resolve(s) = Unresolved
             ed == {Resolve(s) : s \in Specs(f)} \cap Sources
  <2>1. n = [known |-> TRUE, mtime |-> disk[f].mtime, edges |-> ed, incomplete |-> inc]
    BY <1>3 DEF FileNode
  <2>2. inc \in BOOLEAN
    BY <1>0
  <2>3. n.known = TRUE /\ n.mtime = disk[f].mtime /\ n.edges = ed /\ n.incomplete = inc
    <3> HIDE DEF inc, ed, n
    <3> QED BY <2>1
  <2>4. n \in NodeRecords
    <3>1. ed \in SUBSET Sources
      OBVIOUS
    <3> HIDE DEF inc, ed, n
    <3> QED BY <2>1, <2>2, <3>1, <1>0 DEF NodeRecords
  <2>5. \A s \in Specs(f) : Could(s, Resolve(s))
    BY <1>0, ResolveCould
  <2>6. Scanned(f, n)
    <3>1. n.edges \subseteq Sources
      BY <2>3
    <3>2. \A s \in Specs(f) : /\ Could(s, Resolve(s)) /\ (Resolve(s) \in Sources => Resolve(s) \in n.edges)
                              /\ (Resolve(s) = Unresolved => n.incomplete)
      BY <2>3, <2>5
    <3>3. \A r \in n.edges : \E s \in Specs(f) : Could(s, r)
      BY <2>3, <2>5
    <3>4. disk[f].dynamic => n.incomplete
      BY <2>3
    <3>5. n.incomplete => disk[f].dynamic \/ \E s \in Specs(f) : Could(s, Unresolved)
      BY <2>3, <2>5
    <3> HIDE DEF n
    <3> QED BY <3>1, <3>2, <3>3, <3>4, <3>5 DEF Scanned
  <2> HIDE DEF inc, ed
  <2> QED BY <1>3, <2>2, <2>3, <2>4, <2>6, <1>0 DEF NodeRecords
<1> QED BY <1>1, <1>2, <1>3

(* Nothing has appeared unseen: then what could have been resolved to is found, *)
(* if it is there still.                                                        *)
LEMMA CouldFound ==
  ASSUME NEW s \in Specifiers, NEW r, GraphTypes, Could(s, r), appeared = {}
  PROVE  /\ r \in Sources /\ disk[r].exists => Found(s) = {r}
         /\ r \in Sources => disk[r].exists \/ r \in unannounced
         /\ r \notin Sources => Found(s) = {} /\ r = IF s \in Strict THEN Unresolved ELSE OutOfScope
<1>1. CASE r \in Sources
  <2>1. PICK i \in DOMAIN Probes[s] :
             Probes[s][i] = r /\ \A j \in DOMAIN Probes[s] : ~(j < i /\ disk[Probes[s][j]].exists)
    BY <1>1 DEF Could
  <2> QED BY <2>1, <1>1, FoundFirst DEF Could
<1>2. CASE r \notin Sources
  <2>1. Hit(s) = {}
    BY <1>2 DEF Could, Hit
  <2> QED BY <2>1, <1>2, FoundFirst DEF Could
<1> QED BY <1>1, <1>2

(* A walk that met nothing it cannot analyse has met all that execution loads,  *)
(* and when the watcher has reported everything it has met nothing else.        *)
LEMMA CollectCovers ==
  ASSUME NEW entry \in Sources, GraphTypes, MemoInv, Hidden = {}, appeared = {},
         NEW edges, edges = [f \in Sources |-> FileNode(f).edges],
         NEW bad, bad = {f \in Sources : FileNode(f).incomplete},
         NEW all, all = Closure(entry, edges)
  PROVE  /\ all \cap bad = {} /\ Cardinality(all) <= MaxFiles =>
              Loads(entry) \subseteq all /\ Analysable(Loads(entry))
         /\ unannounced = {} /\ Analysable(Loads(entry)) =>
              all = Loads(entry) /\ all \cap bad = {} /\ Cardinality(all) <= MaxFiles
<1> DEFINE founds == [f \in Sources |-> UNION {Found(s) : s \in disk[f].imports}]
           loads == Loads(entry)
<1>1. \A f \in Sources : /\ disk[f] \in FileRecords /\ disk[f].imports \subseteq Specifiers
                         /\ Specs(f) = disk[f].imports /\ disk[f].exists \in BOOLEAN /\ disk[f].dynamic \in BOOLEAN
                         /\ FileNode(f).incomplete \in BOOLEAN
                         /\ edges[f] = FileNode(f).edges /\ edges[f] \subseteq Sources
  BY DiskTypes, NodeScanned DEF FileRecords, Specs, NodeRecords
<1>2. /\ all \subseteq Sources /\ entry \in all /\ \A g \in all : edges[g] \subseteq all
      /\ IsFiniteSet(all) /\ Cardinality(all) \in Nat
  BY <1>1, ClosureClosed, FS_Subset, FS_CardinalityType, DepGraphAssumption
<1>3. \A f \in Sources : founds[f] \subseteq Sources
  BY <1>1, FoundFirst
<1>4. loads = Closure(entry, founds)
  BY DEF Loads
<1>5. /\ loads \subseteq Sources /\ entry \in loads /\ \A g \in loads : founds[g] \subseteq loads
      /\ IsFiniteSet(loads) /\ Cardinality(loads) \in Nat
  <2> HIDE DEF loads, founds
  <2> QED BY <1>3, <1>4, ClosureClosed, FS_Subset, FS_CardinalityType, DepGraphAssumption
<1>6. ASSUME all \cap bad = {}, Cardinality(all) <= MaxFiles
      PROVE  loads \subseteq all /\ Analysable(loads)
  <2>1. ASSUME NEW f \in all
        PROVE  /\ disk[f].exists /\ ~disk[f].dynamic /\ Scanned(f, FileNode(f)) /\ ~FileNode(f).incomplete
    BY <1>6, <1>1, <1>2, NodeScanned DEF Scanned
  <2>2. ASSUME NEW f \in all, NEW s \in disk[f].imports
        PROVE  Found(s) \subseteq edges[f] /\ (s \in Strict => Found(s) # {})
    <3>1. PICK r : Could(s, r) /\ (r \in Sources => r \in FileNode(f).edges) /\ r # Unresolved
      BY <2>1, <1>1, <1>2 DEF Scanned
    <3>2. r \in Sources => r \in all
      BY <3>1, <1>1, <1>2
    <3>3. r \in Sources => Found(s) = {r}
      BY <3>1, <3>2, <2>1, <1>1, <1>2, CouldFound
    <3>4. r \notin Sources => Found(s) = {} /\ s \notin Strict
      BY <3>1, <1>1, <1>2, CouldFound
    <3> QED BY <3>1, <3>3, <3>4, <1>1, <1>2
  <2>3. ASSUME NEW f \in all, NEW r \in founds[f] PROVE r \in all
    <3>1. PICK s \in disk[f].imports : r \in Found(s)
      BY <1>2
    <3> QED BY <3>1, <2>2, <1>2
  <2>4. loads \subseteq all
    <3> HIDE DEF loads, founds
    <3> QED BY <2>3, <1>2, <1>4, ClosureLeast
  <2>5. Cardinality(loads) <= MaxFiles
    <3>1. Cardinality(loads) <= Cardinality(all)
      BY <2>4, <1>2, FS_Subset
    <3> QED BY <3>1, <1>2, <1>5, <1>6, DepGraphAssumption
  <2> HIDE DEF loads, founds
  <2> QED BY <2>1, <2>2, <2>4, <2>5 DEF Analysable
<1>7. ASSUME unannounced = {}, Analysable(loads)
      PROVE  all = loads /\ all \cap bad = {} /\ Cardinality(all) <= MaxFiles
  <2>1. \A f \in loads : /\ disk[f].exists /\ ~disk[f].dynamic /\ Scanned(f, FileNode(f))
                         /\ \A s \in disk[f].imports : s \in Strict => Found(s) # {}
    BY <1>7, <1>5, NodeScanned DEF Analysable
  <2>2. ASSUME NEW f \in loads, NEW r \in edges[f]
        PROVE  r \in loads
    <3>1. PICK s \in disk[f].imports : Could(s, r)
      BY <2>1, <1>1, <1>5 DEF Scanned
    <3>2. r \in Found(s)
      BY <3>1, <1>1, <1>5, <1>7, CouldFound
    <3>3. r \in founds[f]
      BY <3>2, <1>5
    <3> QED BY <3>3, <1>5
  <2>3. all \subseteq loads
    <3> HIDE DEF loads, founds
    <3> QED BY <2>2, <1>5, ClosureLeast
  <2>4. ASSUME NEW f \in all PROVE ~FileNode(f).incomplete
    <3>1. SUFFICES ASSUME FileNode(f).incomplete PROVE FALSE
      OBVIOUS
    <3>2. PICK s \in disk[f].imports : Could(s, Unresolved)
      BY <2>1, <2>3, <1>1, <1>5, <3>1 DEF Scanned
    <3>3. Found(s) = {} /\ s \in Strict
      BY <3>2, <2>3, <1>1, <1>5, CouldFound, DepGraphAssumption
    <3> QED BY <3>3, <2>1, <2>3
  <2>5. all \cap bad = {}
    BY <2>4
  <2>6. Cardinality(loads) <= MaxFiles /\ Cardinality(all) <= Cardinality(loads)
    BY <2>3, <1>5, <1>7, FS_Subset DEF Analysable
  <2>7. Cardinality(all) <= MaxFiles
    <3> HIDE DEF loads
    <3> QED BY <2>6, <1>2, <1>5, DepGraphAssumption
  <2>8. loads \subseteq all
    <3> HIDE DEF loads
    <3> QED BY <1>6, <2>5, <2>7
  <2> QED BY <2>3, <2>5, <2>7, <2>8
<1> QED BY <1>6, <1>7

(* What could have been resolved before the file system changed could have been. *)
LEMMA ChangeCould ==
  ASSUME GraphTypes, NEW f \in Sources, NEW there, Change(f, there),
         NEW s \in Specifiers, NEW r, Could(s, r)
  PROVE  Could(s, r)'
<1>1. /\ \A g \in Sources : g # f => disk'[g] = disk[g]
      /\ unannounced' = unannounced \cup {f} /\ appeared \subseteq appeared'
      /\ ~disk[f].exists => f \in appeared'
      /\ \A j \in DOMAIN Probes[s] : Probes[s][j] \in Sources
  BY ProbeTypes DEF Change, GraphTypes
<1>2. \A g \in Sources : disk'[g].exists => disk[g].exists \/ g \in appeared'
  BY <1>1
<1>3. CASE r \in Sources
  <2>1. PICK i \in DOMAIN Probes[s] :
             Probes[s][i] = r /\ \A j \in DOMAIN Probes[s] :
                                   j < i /\ disk[Probes[s][j]].exists => Probes[s][j] \in appeared
    BY <1>3 DEF Could
  <2>2. \A j \in DOMAIN Probes[s] : j < i /\ disk'[Probes[s][j]].exists => Probes[s][j] \in appeared'
    BY <2>1, <1>1, <1>2
  <2>3. disk'[r].exists \/ r \in unannounced'
    BY <1>1, <1>3 DEF Could
  <2> QED BY <2>1, <2>2, <2>3, <1>3 DEF Could
<1>4. CASE r \notin Sources
  <2>1. \A j \in DOMAIN Probes[s] : disk'[Probes[s][j]].exists => Probes[s][j] \in appeared'
    BY <1>1, <1>2, <1>4 DEF Could
  <2> QED BY <2>1, <1>4 DEF Could
<1> QED BY <1>3, <1>4

MemosCould == \A s \in Specifiers : resolveMemo[s] # Unknown => Could(s, resolveMemo[s])
MemosScanned == \A f \in Sources : Memoized(f) => Scanned(f, nodeMemo[f])

(* The types of the crawl's state are kept, ... *)
LEMMA ForgetTypes == Forget => /\ nodeMemo' \in [Sources -> NodeRecords]
                               /\ \A f \in Sources : nodeMemo'[f].mtime = 0 /\ ~nodeMemo'[f].known
                               /\ resolveMemo' \in [Specifiers -> Sources \cup {Unknown, OutOfScope, Unresolved}]
                               /\ \A s \in Specifiers : resolveMemo'[s] = Unknown
BY DEF Forget, NoNode, NodeRecords

(* There is no crawl to begin with. *)
LEMMA NoCrawlTypes == NoCrawl.deps = {}
BY DEF NoCrawl

(* A crawl leaves memos and results of their types. *)
LEMMA CollectTypes ==
  ASSUME GraphTypes, MemoInv, NEW entry \in Sources, CollectStaticDeps(entry)
  PROVE  GraphTypes'
<1>1. UNCHANGED <<disk, changes, unannounced, appeared>>
  BY DEF CollectStaticDeps
<1>2. /\ \E D \in SUBSET Sources : nodeMemo' = [f \in Sources |-> IF f \in D THEN FileNode(f) ELSE nodeMemo[f]]
      /\ \E S \in SUBSET Specifiers : resolveMemo' = [s \in Specifiers |-> IF s \in S THEN Resolve(s) ELSE resolveMemo[s]]
      /\ \E all \in SUBSET Sources, poison \in BOOLEAN : crawl' = Answer(entry, all, poison)
  <2> DEFINE nodes  == [f \in Sources |-> FileNode(f)]
             edges  == [f \in Sources |-> nodes[f].edges]
             bad    == {f \in Sources : nodes[f].incomplete}
             all    == Closure(entry, edges)
             poison == all \cap bad # {} \/ Cardinality(all) > MaxFiles
  <2>1. PICK D \in SUBSET all :
       /\ nodeMemo' = [f \in Sources |-> IF f \in D THEN nodes[f] ELSE nodeMemo[f]]
       /\ resolveMemo' = [s \in Specifiers |->
            IF \E f \in D : disk[f].exists /\ ~Memoized(f) /\ s \in Specs(f)
            THEN Resolve(s) ELSE resolveMemo[s]]
       /\ crawl' = Answer(entry, all, poison)
    BY DEF CollectStaticDeps
  <2>2. all \subseteq Sources /\ poison \in BOOLEAN
    BY DEF Closure
  <2>3. nodeMemo' = [f \in Sources |-> IF f \in D THEN FileNode(f) ELSE nodeMemo[f]]
    BY <2>1
  <2>4. crawl' = Answer(entry, all, poison)
    BY <2>1
  <2> DEFINE S == {s \in Specifiers : \E f \in D : disk[f].exists /\ ~Memoized(f) /\ s \in Specs(f)}
  <2>5. resolveMemo' = [s \in Specifiers |-> IF s \in S THEN Resolve(s) ELSE resolveMemo[s]]
    BY <2>1
  <2> HIDE DEF all, poison, S
  <2> QED BY <2>2, <2>3, <2>4, <2>5 DEF S
<1>3. nodeMemo' \in [Sources -> NodeRecords] /\ \A f \in Sources : nodeMemo'[f].mtime \in 0 .. changes
  BY <1>2, NodeScanned DEF GraphTypes
<1>4. resolveMemo' \in [Specifiers -> Sources \cup {Unknown, OutOfScope, Unresolved}]
  BY <1>2, ResolveCould DEF GraphTypes
<1>5. crawl'.deps \subseteq Sources \ {crawl'.entry}
  BY <1>2 DEF Answer
<1> QED BY <1>1, <1>3, <1>4, <1>5 DEF GraphTypes

(* An edit leaves files of their type on the disk. *)
LEMMA ChangeTypes ==
  ASSUME GraphTypes, NEW f \in Sources,
         NEW there, there = Absent \/ \E t \in Texts : there = At(t, changes + 1), Change(f, there)
  PROVE  GraphTypes'
<1>1. changes \in Nat /\ changes' = changes + 1 /\ changes' \in 0 .. MaxChanges /\ 0 .. changes \subseteq 0 .. changes'
  BY DepGraphAssumption DEF Change, GraphTypes
<1>2. there \in {Absent} \cup {At(t, m) : t \in Texts, m \in 0 .. changes'}
  BY <1>1
<1>3. {Absent} \cup {At(t, m) : t \in Texts, m \in 0 .. changes}
         \subseteq {Absent} \cup {At(t, m) : t \in Texts, m \in 0 .. changes'}
  BY <1>1
<1>4. disk' \in [Sources -> {Absent} \cup {At(t, m) : t \in Texts, m \in 0 .. changes'}]
  <2> HIDE DEF Absent, At
  <2> QED BY <1>2, <1>3 DEF Change, GraphTypes
<1>5. UNCHANGED memoVars /\ crawl' = NoCrawl
      /\ unannounced' = unannounced \cup {f} /\ appeared' \subseteq appeared \cup {f}
  BY DEF Change
<1> QED BY <1>1, <1>4, <1>5, NoCrawlTypes DEF GraphTypes, memoVars

(* Every step of the crawl and of the disk keeps the types. *)
LEMMA GraphStepTypes == GraphTypes /\ MemoInv /\ GraphNext => GraphTypes'
<1> SUFFICES ASSUME GraphTypes, MemoInv, GraphNext PROVE GraphTypes'
  OBVIOUS
<1>1. ASSUME NEW f \in Sources, WatchChange(f) PROVE GraphTypes'
  <2>1. /\ nodeMemo' \in [Sources -> NodeRecords] /\ \A g \in Sources : nodeMemo'[g].mtime \in 0 .. changes
        /\ resolveMemo' \in [Specifiers -> Sources \cup {Unknown, OutOfScope, Unresolved}]
    BY <1>1, ForgetTypes, DepGraphAssumption DEF WatchChange, ResetDepGraphMemo, GraphTypes
  <2> QED BY <1>1, <2>1, NoCrawlTypes DEF WatchChange, GraphTypes
<1> QED BY <1>1, CollectTypes, ChangeTypes DEF GraphNext

(* ... and so is what the memos are known to be. *)
LEMMA ScannedAgain ==
  ASSUME NEW f \in Sources, NEW n, Scanned(f, n), disk'[f] = disk[f], Specs(f) \subseteq Specifiers,
         \A s \in Specifiers : \A r : Could(s, r) => Could(s, r)'
  PROVE  Scanned(f, n)'
<1>1. Specs(f)' = Specs(f) /\ disk'[f].dynamic = disk[f].dynamic
  BY DEF Specs
<1> QED BY <1>1 DEF Scanned

(* Every step leaves in the memos only what could have been found. *)
LEMMA MemoStep == GraphTypes /\ MemoInv /\ GraphNext => MemoInv'
<1> SUFFICES ASSUME GraphTypes, MemoInv, GraphNext PROVE MemoInv'
  OBVIOUS
<1>0. \A f \in Sources : Specs(f) \subseteq Specifiers /\ disk[f].mtime \in Nat
  BY DiskTypes DEF FileRecords, Specs
<1>1. ASSUME NEW f \in Sources, WatchChange(f) PROVE MemoInv'
  BY <1>1, ForgetTypes DEF WatchChange, ResetDepGraphMemo, MemoInv, Memoized
<1>2. ASSUME NEW entry \in Sources, CollectStaticDeps(entry) PROVE MemoInv'
  <2>1. UNCHANGED <<disk, changes, unannounced, appeared>>
    BY <1>2 DEF CollectStaticDeps
  <2>2. \A f \in Sources : nodeMemo'[f] = FileNode(f) \/ nodeMemo'[f] = nodeMemo[f]
    BY <1>2 DEF CollectStaticDeps
  <2>3. \A s \in Specifiers : resolveMemo'[s] = Resolve(s) \/ resolveMemo'[s] = resolveMemo[s]
    BY <1>2 DEF CollectStaticDeps
  <2>4. \A s \in Specifiers : \A r : Could(s, r)' <=> Could(s, r)
    BY <2>1 DEF Could
  <2>5. \A s \in Specifiers : resolveMemo'[s] # Unknown => Could(s, resolveMemo[s])'
    <3>1. \A s \in Specifiers : resolveMemo'[s] # Unknown => Could(s, resolveMemo'[s])
      BY <2>3, ResolveCould DEF MemoInv
    <3> QED BY <3>1, <2>1 DEF Could
  <2>6. ASSUME NEW f \in Sources, Memoized(f)' PROVE Scanned(f, nodeMemo'[f])
    <3>1. disk[f].exists /\ (nodeMemo'[f] = nodeMemo[f] => Memoized(f))
      BY <2>1, <2>6 DEF Memoized
    <3> QED BY <2>2, <3>1, NodeScanned DEF MemoInv
  <2>7. ASSUME NEW f \in Sources, Memoized(f)' PROVE Scanned(f, nodeMemo[f])'
    <3>1. Scanned(f, nodeMemo'[f]) /\ disk'[f] = disk[f]
      BY <2>6, <2>7, <2>1
    <3> QED BY <3>1, <2>1 DEF Scanned, Specs, Could
  <2>8. \A f \in Sources : Memoized(f)' => Scanned(f, nodeMemo[f])'
    BY <2>7
  <2> QED BY <2>5, <2>8 DEF MemoInv
<1>3. ASSUME NEW f \in Sources, NEW there, Change(f, there),
             there = Absent \/ \E t \in Texts : there = At(t, changes + 1)
      PROVE  MemoInv'
  <2>1. \A s \in Specifiers : \A r : Could(s, r) => Could(s, r)'
    BY <1>3, ChangeCould
  <2>2. UNCHANGED memoVars /\ disk'[f] = there /\ \A g \in Sources : g # f => disk'[g] = disk[g]
    BY <1>3 DEF Change, GraphTypes
  <2>3. ~Memoized(f)'
    <3>1. CASE there = Absent
      BY <3>1, <2>2 DEF Memoized, Absent
    <3>2. CASE there # Absent
      <4>1. there.mtime = changes + 1
        BY <3>2, <1>3 DEF At
      <4>2. nodeMemo[f].mtime \in 0 .. changes /\ changes \in Nat
        BY DepGraphAssumption DEF GraphTypes
      <4> QED BY <4>1, <4>2, <2>2 DEF Memoized, memoVars
    <3> QED BY <3>1, <3>2
  <2>4. ASSUME NEW g \in Sources, Memoized(g)' PROVE Scanned(g, nodeMemo[g])'
    <3>1. g # f
      BY <2>3, <2>4
    <3>2. Memoized(g) /\ nodeMemo'[g] = nodeMemo[g] /\ disk'[g] = disk[g]
      BY <3>1, <2>2, <2>4 DEF Memoized, memoVars
    <3>3. Scanned(g, nodeMemo[g])
      BY <3>2 DEF MemoInv
    <3> DEFINE n == nodeMemo[g]
    <3>4. \A m : m = nodeMemo[g] => Scanned(g, m)'
      BY <3>2, <3>3, <2>1, <1>0, ScannedAgain
    <3> QED BY <3>2, <3>4 DEF Scanned
  <2>5. \A s \in Specifiers : resolveMemo'[s] # Unknown => Could(s, resolveMemo[s])'
    BY <2>1, <2>2 DEF MemoInv, memoVars, Could
  <2> QED BY <2>4, <2>5 DEF MemoInv
<1> QED BY <1>1, <1>2, <1>3 DEF GraphNext

(* What a step of the crawl returns covers what execution loads. *)
LEMMA CrawlStep == GraphTypes /\ MemoInv /\ Hidden = {} /\ GraphNext => CrawlCovers'
<1> SUFFICES ASSUME GraphTypes, MemoInv, Hidden = {}, GraphNext PROVE CrawlCovers'
  OBVIOUS
<1>1. CASE crawl' = NoCrawl
  BY <1>1 DEF CrawlCovers
<1>2. ASSUME NEW entry \in Sources, CollectStaticDeps(entry) PROVE CrawlCovers'
  <2> DEFINE nodes  == [f \in Sources |-> FileNode(f)]
             edges  == [f \in Sources |-> nodes[f].edges]
             bad    == {f \in Sources : nodes[f].incomplete}
             all    == Closure(entry, edges)
             poison == all \cap bad # {} \/ Cardinality(all) > MaxFiles
             loads  == Loads(entry)
  <2>1. crawl' = Answer(entry, all, poison) /\ UNCHANGED <<disk, changes, unannounced, appeared>>
    BY <1>2 DEF CollectStaticDeps
  <2>2. edges = [f \in Sources |-> FileNode(f).edges] /\ bad = {f \in Sources : FileNode(f).incomplete}
    OBVIOUS
  <2>3. appeared = {} => /\ all \cap bad = {} /\ Cardinality(all) <= MaxFiles => loads \subseteq all /\ Analysable(loads)
                         /\ unannounced = {} /\ Analysable(loads) =>
                              all = loads /\ all \cap bad = {} /\ Cardinality(all) <= MaxFiles
    <3> HIDE DEF edges, bad
    <3> QED BY <2>2, CollectCovers
  <2>4. poison \in BOOLEAN /\ (~poison <=> all \cap bad = {} /\ Cardinality(all) <= MaxFiles)
    <3>1. \A f \in Sources : edges[f] \subseteq Sources
      BY NodeScanned
    <3>2. all \subseteq Sources
      <4> HIDE DEF edges
      <4> QED BY DEF Closure
    <3>3. Cardinality(all) \in Nat
      <4> HIDE DEF all
      <4> QED BY <3>2, FS_Subset, FS_CardinalityType, DepGraphAssumption
    <3> HIDE DEF all, bad
    <3> QED BY <3>3, DepGraphAssumption
  <2>5. crawl'.entry = entry /\ crawl'.complete = ~poison /\ (~poison => crawl'.deps = all \ {entry})
    <3> HIDE DEF all, poison
    <3> QED BY <2>1 DEF Answer
  <2>6. Loads(crawl.entry)' = loads
    <3>1. crawl'.entry = entry /\ UNCHANGED disk
      BY <2>1, <2>5
    <3> HIDE DEF all, poison, edges, bad, nodes
    <3> QED BY <3>1 DEF Loads, Found, Hit
  <2>7. \A L : Analysable(L)' <=> Analysable(L)
    BY <2>1 DEF Analysable, Found, Hit
  <2>8. unannounced = {} => appeared = {}
    BY DEF GraphTypes
  <2> HIDE DEF all, poison, loads, edges, bad, nodes
  <2>9. ASSUME appeared = {}, ~poison PROVE loads \subseteq crawl'.deps \cup {entry} /\ Analysable(loads)
    BY <2>3, <2>4, <2>5, <2>9
  <2>10. ASSUME unannounced = {} PROVE /\ crawl'.complete <=> Analysable(loads)
                                       /\ crawl'.complete => crawl'.deps = loads \ {entry}
    <3>1. ~poison <=> Analysable(loads)
      BY <2>3, <2>4, <2>8, <2>10
    <3>2. ~poison => all = loads
      BY <2>3, <2>4, <2>8, <2>10, <3>1
    <3>3. crawl'.complete <=> Analysable(loads)
      BY <2>4, <2>5, <3>1
    <3>4. crawl'.complete => ~poison
      BY <2>4, <2>5
    <3> QED BY <3>2, <3>3, <3>4, <2>5
  <2> QED BY <2>1, <2>5, <2>6, <2>7, <2>9, <2>10 DEF CrawlCovers
<1> QED BY <1>1, <1>2 DEF GraphNext, Change, WatchChange

(* It starts with nothing remembered. *)
LEMMA GraphStart == EmptyGraph \/ GraphInit => GraphTypes /\ MemoInv /\ CrawlCovers
<1> SUFFICES ASSUME EmptyGraph \/ GraphInit PROVE GraphTypes /\ MemoInv /\ CrawlCovers
  OBVIOUS
<1>1. FreshGraph /\ disk \in [Sources -> {Absent} \cup {At(t, m) : t \in Texts, m \in 0 .. 0}]
  <2> HIDE DEF Absent, At
  <2>1. EmptyGraph => disk \in [Sources -> {Absent} \cup {At(t, m) : t \in Texts, m \in 0 .. 0}]
    BY DEF EmptyGraph
  <2>2. {Absent} \cup {At(t, 0) : t \in Texts} \subseteq {Absent} \cup {At(t, m) : t \in Texts, m \in 0 .. 0}
    OBVIOUS
  <2>3. GraphInit => disk \in [Sources -> {Absent} \cup {At(t, m) : t \in Texts, m \in 0 .. 0}]
    BY <2>2 DEF GraphInit
  <2> QED BY <2>1, <2>3 DEF EmptyGraph, GraphInit
<1>2. changes = 0 /\ changes \in 0 .. MaxChanges
  BY <1>1, DepGraphAssumption DEF FreshGraph
<1>3. /\ nodeMemo \in [Sources -> NodeRecords] /\ \A f \in Sources : nodeMemo[f].mtime = 0 /\ ~nodeMemo[f].known
      /\ resolveMemo \in [Specifiers -> Sources \cup {Unknown, OutOfScope, Unresolved}]
      /\ \A s \in Specifiers : resolveMemo[s] = Unknown
  BY <1>1 DEF FreshGraph, NoNode, NodeRecords
<1>4. GraphTypes
  <2> HIDE DEF Absent, At
  <2> QED BY <1>1, <1>2, <1>3, NoCrawlTypes DEF FreshGraph, GraphTypes
<1>5. MemoInv
  BY <1>3 DEF MemoInv, Memoized
<1>6. CrawlCovers
  BY <1>1 DEF FreshGraph, CrawlCovers
<1> QED BY <1>4, <1>5, <1>6

GraphInv == GraphTypes /\ MemoInv

(* A step of another part leaves it alone. *)
LEMMA GraphStutter == UNCHANGED graphVars => (GraphInv => GraphInv') /\ (CrawlCovers => CrawlCovers')
<1> SUFFICES ASSUME UNCHANGED graphVars PROVE (GraphInv => GraphInv') /\ (CrawlCovers => CrawlCovers')
  OBVIOUS
<1>0. UNCHANGED <<disk, changes, nodeMemo, resolveMemo, unannounced, appeared, crawl>>
  BY DEF graphVars, memoVars
<1>1. GraphTypes => GraphTypes'
  BY <1>0 DEF GraphTypes
<1>2. ASSUME MemoInv PROVE MemoInv'
  <2>1. \A s \in Specifiers : resolveMemo'[s] # Unknown => Could(s, resolveMemo[s])'
    BY <1>0, <1>2 DEF MemoInv, Could
  <2>2. ASSUME NEW f \in Sources, Memoized(f)' PROVE Scanned(f, nodeMemo[f])'
    <3>1. Memoized(f)
      BY <2>2, <1>0 DEF Memoized
    <3>2. Scanned(f, nodeMemo[f])
      BY <3>1, <1>2 DEF MemoInv
    <3> QED BY <3>2, <1>0 DEF Scanned, Could, Specs
  <2>3. \A f \in Sources : Memoized(f)' => Scanned(f, nodeMemo[f])'
    BY <2>2
  <2> QED BY <2>1, <2>3 DEF MemoInv
<1>3. ASSUME CrawlCovers PROVE CrawlCovers'
  <2>1. Loads(crawl.entry)' = Loads(crawl.entry)
    BY <1>0 DEF Loads, Found, Hit
  <2>2. \A L : Analysable(L)' <=> Analysable(L)
    BY <1>0 DEF Analysable, Found, Hit
  <2> QED BY <1>0, <1>3, <2>1, <2>2 DEF CrawlCovers
<1> QED BY <1>1, <1>2, <1>3 DEF GraphInv

(* The crawl's state is of its type whatever the transform is at. *)
LEMMA GraphTypesHold == GraphTypes => GraphTypeOK
<1> SUFFICES ASSUME GraphTypes PROVE GraphTypeOK
  OBVIOUS
<1>1. ASSUME NEW f \in Sources
      PROVE  /\ disk[f] = Absent \/ disk[f] \in {At(t, m) : t \in Texts, m \in 0 .. changes}
             /\ nodeMemo[f].edges \subseteq Sources /\ nodeMemo[f].mtime \in 0 .. changes
  <2> HIDE DEF Absent, At
  <2> QED BY DEF GraphTypes, NodeRecords
<1> QED BY <1>1 DEF GraphTypes, GraphTypeOK

(* No step of the transform disturbs the memos. *)
LEMMA GraphInvStep == GraphInv /\ [NextMC]_varsMC => GraphInv'
<1> SUFFICES ASSUME GraphInv, [NextMC]_varsMC PROVE GraphInv'
  OBVIOUS
<1>1. CASE GraphNext
  BY <1>1, GraphStepTypes, MemoStep DEF GraphInv
<1>2. CASE UNCHANGED graphVars
  BY <1>2, GraphStutter
<1> QED BY <1>1, <1>2 DEF NextMC, varsMC

(* A crawl that says it is complete covers every module execution can load, and *)
(* is exact once the watcher has reported everything: collectStaticDeps() over  *)
(* memos of any age, where it follows every specifier that execution does.      *)
THEOREM CompleteCrawlCovers == Hidden = {} => (SpecMC => []CrawlCovers)
<1> SUFFICES ASSUME Hidden = {} PROVE SpecMC => []CrawlCovers
  OBVIOUS
<1>1. InitMC => GraphInv /\ CrawlCovers
  BY GraphStart DEF InitMC, GraphInv
<1>2. GraphInv /\ CrawlCovers /\ [NextMC]_varsMC => GraphInv' /\ CrawlCovers'
  <2> SUFFICES ASSUME GraphInv, CrawlCovers, [NextMC]_varsMC PROVE GraphInv' /\ CrawlCovers'
    OBVIOUS
  <2>1. CASE GraphNext
    BY <2>1, GraphInvStep, CrawlStep DEF GraphInv
  <2>2. CASE UNCHANGED graphVars
    BY <2>2, GraphStutter, GraphInvStep DEF GraphInv
  <2> QED BY <2>1, <2>2 DEF NextMC, varsMC
<1> QED BY <1>1, <1>2, PTL DEF SpecMC

-----------------------------------------------------------------------------
(* The static filter *)

RowRecords ==
  {s \in [form : Forms, declares : Locals \cup {Anonymous}, targets : SUBSET (Locals \cup Exported),
          kind : ValueKinds, names : SUBSET Locals, exports : BOOLEAN] : s.form = "function" => s.kind = "code"}
Values == [is : {"plain", "schema", "container"}, made : Nat]
Programs == [statements : Seq(RowRecords), holds : [Locals \cup Exported -> Values],
             reached : SUBSET Locals, shaped : SUBSET Nat]

Lines == DOMAIN program.statements
Line(i) == program.statements[i]

FilterTypes ==
  /\ program \in Programs
  /\ Len(program.statements) <= MaxStatements
  /\ \A t \in Locals \cup Exported : program.holds[t].made <= Len(program.statements)
  /\ program.shaped \subseteq 1 .. Len(program.statements)

(* Names are declared once, before they are used. *)
DeclaredOnce ==
  /\ \A i, j \in Lines : Line(i).declares = Line(j).declares => i = j \/ Line(i).declares = Anonymous
  /\ \A i \in Lines : \A n \in Line(i).names : \E k \in Lines : k < i /\ Line(k).declares = n
  /\ \A i \in Lines : \A n \in Line(i).targets \cap Locals : \E k \in Lines : Line(k).declares = n

(* What is assigned has no initialiser; nothing is overlooked. *)
NoneOverlooked ==
  \A i \in Lines :
    /\ \A n \in Line(i).targets \cap Locals : \A k \in Lines : Line(k).declares = n => Line(k).kind = "none"
    /\ Line(i).kind = "name" /\ Line(i).targets \cap Exported # {} =>
         Line(i).declares = Anonymous /\ Line(i).targets \cap Locals = {}
    /\ Line(i).kind = "container" /\ Line(i).declares # Anonymous => Line(i).targets \cap Locals = {}

(* What a name with an initialiser holds is what it got there. *)
Fixed(n) == \A i \in Lines : Line(i).declares = n => Line(i).kind # "none"
From(i, v) ==
  /\ Line(i).kind = "container" => v = Made(i)
  /\ Line(i).kind = "name" => \E n \in Line(i).names : Fixed(n) => v = program.holds[n]
  /\ Line(i).kind \notin {"call", "container", "name"} => v = Plain

LocalsHeld == \A i \in Lines : Line(i).declares \in Locals /\ Line(i).kind # "none" =>
                               From(i, program.holds[Line(i).declares])
ExportsHeld == \A t \in Exported : \/ program.holds[t] = Plain
                                   \/ \E i \in Lines : Line(i).exports
                                   \/ \E i \in Lines : t \in Line(i).targets /\ From(i, program.holds[t])

(* A container that code can have got hold of is referred to by a name it was *)
(* given where it was made.                                                   *)
Own(i) == (({Line(i).declares} \ {Anonymous}) \cup Line(i).targets) \cap Locals
Tainted(i) == Own(i) \cap ReferencedNames # {}
Contained ==
  /\ program.reached \subseteq ReferencedNames
  /\ \A n \in Locals : program.holds[n].made # 0 =>
       n \in Own(program.holds[n].made) \/ Tainted(program.holds[n].made)
  /\ \A i \in program.shaped : Tainted(i)

FilterInv == FilterTypes /\ DeclaredOnce /\ NoneOverlooked /\ LocalsHeld /\ ExportsHeld /\ Contained

(* What is written are statements. *)
LEMMA FilterRuns == FilterNext => \E s \in RowRecords : Run(s) /\ Len(program.statements) < MaxStatements
<1> SUFFICES ASSUME FilterNext PROVE \E s \in RowRecords : Run(s)
  BY DEF FilterNext
<1>1. ASSUME NEW form \in Forms, NEW d \in Locals \cup {Anonymous}, NEW T \in SUBSET (Locals \cup Exported),
             NEW kind \in ValueKinds, NEW S \in SUBSET Locals, NEW e \in BOOLEAN,
             form = "function" => kind = "code"
      PROVE  Row(form, d, T, kind, S, e) \in RowRecords /\ Row(form, d, T, kind, S, e).declares = d
  BY <1>1 DEF Row, RowRecords
<1>2. /\ {"var", "function", "run"} \subseteq Forms
      /\ {"none", "code", "literal", "container", "call", "name"} \subseteq ValueKinds
      /\ \A n : \A S \in Few(n) : S \subseteq Locals
      /\ \A T \in FewTargets : T \subseteq Locals \cup Exported
  BY DEF Forms, ValueKinds, Few, FewTargets
<1>10. ASSUME NEW form \in Forms, NEW d \in Locals \cup {Anonymous}, NEW T \in SUBSET (Locals \cup Exported),
              NEW kind \in ValueKinds, NEW S \in SUBSET Locals, form # "function"
       PROVE  Row(form, d, T, kind, S, FALSE) \in RowRecords /\ Row(form, d, T, kind, S, FALSE).declares = d
  <2> DEFINE no == FALSE
  <2>1. no \in BOOLEAN
    OBVIOUS
  <2> HIDE DEF no
  <2>2. Row(form, d, T, kind, S, no) \in RowRecords /\ Row(form, d, T, kind, S, no).declares = d
    BY <1>1, <1>10, <2>1
  <2> QED BY <2>2 DEF no
<1>12. ASSUME NEW form \in Forms, NEW d \in Locals \cup {Anonymous}, NEW T \in SUBSET (Locals \cup Exported),
              NEW kind \in ValueKinds, form # "function"
       PROVE  Row(form, d, T, kind, {}, FALSE) \in RowRecords /\ Row(form, d, T, kind, {}, FALSE).declares = d
  <2> DEFINE none == {}
  <2>1. none \in SUBSET Locals
    OBVIOUS
  <2> HIDE DEF none
  <2>2. Row(form, d, T, kind, none, FALSE) \in RowRecords /\ Row(form, d, T, kind, none, FALSE).declares = d
    BY <1>10, <1>12, <2>1
  <2> QED BY <2>2 DEF none
<1>11. ASSUME NEW d \in Locals
      PROVE  Row("var", d, {}, "none", {}, FALSE) \in RowRecords /\ Row("var", d, {}, "none", {}, FALSE).declares = d
  <2> DEFINE none == {}
  <2>1. none \in SUBSET (Locals \cup Exported)
    OBVIOUS
  <2> HIDE DEF none
  <2>2. Row("var", d, none, "none", {}, FALSE) \in RowRecords /\ Row("var", d, none, "none", {}, FALSE).declares = d
    BY <1>2, <1>12, <2>1
  <2> QED BY <2>2 DEF none
<1> HIDE DEF Row, RowRecords, Forms, ValueKinds, Few, FewTargets
<1>3. ASSUME NEW form \in Forms \ {"function"}, NEW d \in Locals \cup {Anonymous},
             NEW T \in SUBSET (Locals \cup Exported), Assign(form, d, T)
      PROVE  \E s \in RowRecords : Run(s)
  BY <1>2, <1>3, <1>10, <1>12 DEF Assign
<1>4. ASSUME NEW d \in Locals, NEW T \in FewTargets, Assign("var", d, T)
      PROVE  \E s \in RowRecords : Run(s)
  BY <1>2, <1>3, <1>4
<1>5. ASSUME NEW T \in FewTargets, Assign("run", Anonymous, T)
      PROVE  \E s \in RowRecords : Run(s)
  BY <1>2, <1>3, <1>5
<1>6. ASSUME NEW form \in Forms, NEW d \in Locals \cup {Anonymous}, NEW S \in Few(1), NEW e \in BOOLEAN
      PROVE  Row(form, d, {}, "code", S, e) \in RowRecords
  <2> DEFINE none == {}
  <2>1. none \in SUBSET (Locals \cup Exported)
    OBVIOUS
  <2> HIDE DEF none
  <2>2. Row(form, d, none, "code", S, e) \in RowRecords
    BY <1>1, <1>2, <2>1
  <2> QED BY <2>2 DEF none
<1> QED BY <1>2, <1>4, <1>5, <1>6, <1>11 DEF FilterNext

(* What running a statement does. *)
Ran(s, v) ==
  /\ v = Plain \/ v = ASchema \/ v = Made(Len(program.statements) + 1) \/ \E n \in s.names : v = program.holds[n]
  /\ s.kind = "container" => v = Made(Len(program.statements) + 1)
  /\ s.kind = "name" => \E n \in s.names : v = program.holds[n]
  /\ s.kind \notin {"call", "container", "name"} => v = Plain
  /\ s.kind \notin {"container", "name"} => v.made = 0
  /\ \A t \in Locals \cup Exported :
       program'.holds[t] = IF s.exports /\ t \in Exported THEN ASchema
                           ELSE IF t \in s.targets \cup {s.declares} THEN v ELSE program.holds[t]

(* What running one more statement does to the program. *)
LEMMA RunRan ==
  ASSUME FilterTypes, NEW s \in RowRecords, Run(s)
  PROVE  /\ program' = [statements |-> Append(program.statements, s), holds |-> program'.holds,
                        reached |-> program'.reached, shaped |-> program'.shaped]
         /\ program'.statements = Append(program.statements, s)
         /\ DOMAIN program'.holds = Locals \cup Exported
         /\ program'.holds = [t \in Locals \cup Exported |-> program'.holds[t]]
         /\ program'.reached = program.reached \cup IF s.kind \in {"call", "code"} THEN s.names ELSE {}
         /\ program'.shaped = program.shaped \cup ({program'.holds[n].made : n \in program'.reached} \ {0})
         /\ \E v \in Values : v.made <= Len(program.statements) + 1 /\ Ran(s, v)
<1>1. PICK v \in Evaluate(s) :
        LET holds == [t \in Locals \cup Exported |->
                          IF s.exports /\ t \in Exported THEN ASchema
                          ELSE IF t \in s.targets \cup {s.declares} THEN v
                          ELSE program.holds[t]]
            reached  == program.reached \cup IF s.kind \in {"call", "code"} THEN s.names ELSE {}
        IN program' = [statements |-> Append(program.statements, s), holds |-> holds,
                         reached |-> reached,
                         shaped |-> program.shaped \cup ({holds[n].made : n \in reached} \ {0})]
  BY DEF Run
<1>2. /\ program.holds \in [Locals \cup Exported -> Values] /\ Len(program.statements) \in Nat
      /\ \A t \in Locals \cup Exported : program.holds[t].made <= Len(program.statements)
      /\ s.names \subseteq Locals
  BY DEF FilterTypes, Programs, RowRecords
<1>3. /\ Plain \in Values /\ ASchema \in Values /\ Made(Len(program.statements) + 1) \in Values
      /\ Plain.made = 0 /\ ASchema.made = 0 /\ Made(Len(program.statements) + 1).made = Len(program.statements) + 1
  BY <1>2 DEF Plain, ASchema, Made, Values
<1>4. \A n \in Locals : program.holds[n] \in Values /\ program.holds[n].made \in Nat
                        /\ program.holds[n].made <= Len(program.statements)
  BY <1>2 DEF Values
<1>5. /\ s.kind = "name" => \E n \in s.names : v = program.holds[n]
      /\ s.kind = "call" => v = ASchema
      /\ s.kind = "container" => v = Made(Len(program.statements) + 1)
      /\ s.kind \notin {"call", "container", "name"} => v = Plain
  BY DEF Evaluate
<1> HIDE DEF Plain, ASchema, Made, Values
<1>6. v \in Values /\ v.made <= Len(program.statements) + 1
  BY <1>2, <1>3, <1>4, <1>5
<1>7. \A t \in Locals \cup Exported :
       program'.holds[t] = IF s.exports /\ t \in Exported THEN ASchema
                           ELSE IF t \in s.targets \cup {s.declares} THEN v ELSE program.holds[t]
  BY <1>1
<1>8. s.kind \notin {"container", "name"} => v.made = 0
  BY <1>2, <1>3, <1>4, <1>5
<1>9. Ran(s, v)
  BY <1>5, <1>7, <1>8 DEF Ran
<1>10. /\ program'.statements = Append(program.statements, s)
       /\ program'.reached = program.reached \cup IF s.kind \in {"call", "code"} THEN s.names ELSE {}
       /\ DOMAIN program'.holds = Locals \cup Exported
       /\ program'.holds = [t \in Locals \cup Exported |-> program'.holds[t]]
  BY <1>1
<1>11. program'.shaped = program.shaped \cup ({program'.holds[n].made : n \in program'.reached} \ {0})
  BY <1>1
<1>12. program' = [statements |-> Append(program.statements, s), holds |-> program'.holds,
                   reached |-> program'.reached, shaped |-> program'.shaped]
  BY <1>1
<1> QED BY <1>6, <1>9, <1>10, <1>11, <1>12

(* The types are kept. *)
LEMMA FilterStepTypes == FilterTypes /\ FilterNext => FilterTypes'
<1> SUFFICES ASSUME FilterTypes, Len(program.statements) < MaxStatements, NEW s \in RowRecords, Run(s)
             PROVE  FilterTypes'
  BY FilterRuns
<1>0. s \in RowRecords
  OBVIOUS
<1>1. PICK v \in Values : v.made <= Len(program.statements) + 1 /\ Ran(s, v)
  BY <1>0, RunRan
<1>2. /\ program.statements \in Seq(RowRecords) /\ program.holds \in [Locals \cup Exported -> Values]
      /\ program.reached \subseteq Locals /\ program.shaped \subseteq 1 .. Len(program.statements)
      /\ \A t \in Locals \cup Exported : program.holds[t].made <= Len(program.statements)
      /\ Len(program.statements) \in Nat /\ MaxStatements \in Nat
  BY FilterAssumption DEF FilterTypes, Programs
<1>3. /\ Append(program.statements, s) \in Seq(RowRecords)
      /\ Len(Append(program.statements, s)) = Len(program.statements) + 1
  BY <1>0, <1>2
<1>4. program'.statements = Append(program.statements, s)
  BY <1>0, RunRan
<1>5. ASSUME NEW t \in Locals \cup Exported
      PROVE  /\ program'.holds[t] \in Values /\ program'.holds[t].made \in Nat
             /\ program'.holds[t].made <= Len(program.statements) + 1
  <2>1. ASchema \in Values /\ ASchema.made = 0 /\ \A w \in Values : w.made \in Nat
    BY DEF ASchema, Values
  <2>2. program'.holds[t] \in {ASchema, v, program.holds[t]}
    BY <1>1 DEF Ran
  <2> HIDE DEF ASchema, Values
  <2> QED BY <2>1, <2>2, <1>1, <1>2
<1>6. program'.holds \in [Locals \cup Exported -> Values]
  <2>1. program'.holds = [t \in Locals \cup Exported |-> program'.holds[t]]
    BY <1>0, RunRan
  <2> QED BY <2>1, <1>5
<1>7. program'.reached \subseteq Locals
  <2>1. program'.reached = program.reached \cup IF s.kind \in {"call", "code"} THEN s.names ELSE {}
    BY <1>0, RunRan
  <2> QED BY <2>1, <1>0, <1>2 DEF RowRecords
<1>8. program'.shaped \subseteq 1 .. Len(program.statements) + 1
  <2>1. program'.shaped = program.shaped \cup ({program'.holds[n].made : n \in program'.reached} \ {0})
    BY <1>0, RunRan
  <2> QED BY <2>1, <1>2, <1>5, <1>7
<1>9. program' = [statements |-> Append(program.statements, s), holds |-> program'.holds,
                  reached |-> program'.reached, shaped |-> program'.shaped]
  BY <1>0, RunRan
<1>10. program' \in Programs
  <2>1. program'.shaped \in SUBSET Nat
    BY <1>2, <1>8
  <2> HIDE DEF RowRecords, Values
  <2>2. \A S \in Seq(RowRecords), h \in [Locals \cup Exported -> Values], r \in SUBSET Locals, c \in SUBSET Nat :
          [statements |-> S, holds |-> h, reached |-> r, shaped |-> c] \in Programs
    BY DEF Programs
  <2>3. program'.reached \in SUBSET Locals
    BY <1>7
  <2> HIDE DEF Programs
  <2> QED BY <2>1, <2>2, <2>3, <1>3, <1>6, <1>9
<1> QED BY <1>2, <1>3, <1>4, <1>5, <1>8, <1>10 DEF FilterTypes

(* A file has no statements at first. *)
LEMMA FilterStart == FilterInit => FilterInv
<1> SUFFICES ASSUME FilterInit PROVE FilterInv
  OBVIOUS
<1>1. Plain \in Values /\ Plain.made = 0 /\ << >> \in Seq(RowRecords)
  BY DEF Plain, Values
<1>2. /\ program.statements = << >> /\ program.holds = [t \in Locals \cup Exported |-> Plain]
      /\ program.reached = {} /\ program.shaped = {}
  BY DEF FilterInit
<1>3. Lines = {} /\ Len(program.statements) = 0
  BY <1>2 DEF Lines
<1>4. program \in Programs
  <2> HIDE DEF Plain, Values, RowRecords
  <2> QED BY <1>1 DEF Programs, FilterInit
<1>5. FilterTypes
  <2>1. \A t \in Locals \cup Exported : program.holds[t].made = 0
    <3> HIDE DEF Plain
    <3> QED BY <1>1, <1>2
  <2> QED BY <2>1, <1>2, <1>3, <1>4, FilterAssumption DEF FilterTypes
<1>6. DeclaredOnce /\ NoneOverlooked /\ LocalsHeld
  BY <1>3 DEF DeclaredOnce, NoneOverlooked, LocalsHeld
<1>7. ExportsHeld
  BY <1>2 DEF ExportsHeld
<1>8. Contained
  <2>1. \A t \in Locals : program.holds[t].made = 0
    <3> HIDE DEF Plain
    <3> QED BY <1>1, <1>2
  <2> QED BY <2>1, <1>2 DEF Contained
<1> QED BY <1>5, <1>6, <1>7, <1>8 DEF FilterInv

(* A step adds a line and leaves the others; what was referred to stays so. *)
LEMMA LinesAfter ==
  ASSUME FilterTypes, NEW s \in RowRecords, Run(s), NEW N, N = Len(program.statements) + 1
  PROVE  /\ N \in Nat /\ Lines = 1 .. N - 1 /\ N \notin Lines /\ DOMAIN program'.statements = Lines \cup {N}
         /\ \A i \in Lines : program'.statements[i] = Line(i) /\ i < N /\ i \in Nat
         /\ \A i \in Lines : Line(i) \in RowRecords
         /\ program'.statements[N] = s
         /\ ReferencedNames \subseteq ReferencedNames'
         /\ ~(s.kind = "name" /\ s.targets \cap Exported # {}) => s.names \subseteq ReferencedNames'
         /\ \A n \in Locals : Declaring(n) = {Line(i) : i \in {i \in Lines : Line(i).declares = n}}
<1>1. program.statements \in Seq(RowRecords) /\ Len(program.statements) \in Nat
  BY DEF FilterTypes, Programs
<1>2. program'.statements = Append(program.statements, s)
  BY RunRan
<1>3. Lines = 1 .. N - 1 /\ N \in Nat /\ N \notin Lines /\ \A i \in Lines : i < N /\ i \in Nat
  BY <1>1 DEF Lines
<1>4. DOMAIN program'.statements = Lines \cup {N} /\ \A i \in Lines : program'.statements[i] = program.statements[i]
  BY <1>1, <1>2, <1>3 DEF Lines
<1>5. program'.statements[N] = s
  BY <1>1, <1>2
<1>6. \A i \in Lines : Line(i) \in RowRecords
  BY <1>1 DEF Line, Lines
<1>7. Rows = {Line(i) : i \in Lines} /\ Rows' = Rows \cup {s}
  BY <1>4, <1>5 DEF Rows, Line, Lines
<1>8. ReferencedNames \subseteq ReferencedNames'
  BY <1>7 DEF ReferencedNames
<1>9. ~(s.kind = "name" /\ s.targets \cap Exported # {}) => s.names \subseteq ReferencedNames'
  BY <1>7 DEF ReferencedNames
<1>10. \A n \in Locals : Declaring(n) = {Line(i) : i \in {i \in Lines : Line(i).declares = n}}
  BY <1>7 DEF Declaring
<1> QED BY <1>3, <1>4, <1>5, <1>6, <1>8, <1>9, <1>10 DEF Line

(* What the author may write, in terms of the lines there are. *)
LEMMA Allowed ==
  ASSUME FilterTypes, NEW s \in RowRecords, Run(s), Unnoticed = {}
  PROVE  /\ s.declares = Anonymous \/ \A i \in Lines : Line(i).declares # s.declares
         /\ \A n \in s.names \cup (s.targets \cap Locals) : \E k \in Lines : Line(k).declares = n
         /\ \A n \in s.targets \cap Locals : \A k \in Lines : Line(k).declares = n => Line(k).kind = "none"
         /\ s.kind = "name" /\ s.targets \cap Exported # {} => s.declares = Anonymous /\ s.targets \cap Locals = {}
         /\ s.kind = "container" /\ s.declares # Anonymous => s.targets \cap Locals = {}
<1>1. Rows = {Line(i) : i \in Lines}
  BY DEF Rows, Line, Lines
<1>2. \A i \in Lines : Line(i) \in Rows
  BY <1>1
<1>3. /\ s.declares \notin {r.declares : r \in Rows} \ {Anonymous}
      /\ s.names \cup (s.targets \cap Locals) \subseteq {r.declares : r \in Rows}
      /\ \A n \in s.targets \cap Locals : \A r \in Declaring(n) : r.kind = "none"
      /\ s.kind = "name" /\ s.targets \cap Exported # {} => s.declares = Anonymous /\ s.targets \cap Locals = {}
      /\ s.kind = "container" /\ s.declares # Anonymous => s.targets \cap Locals = {}
  BY DEF Run
<1>4. \A n \in s.targets \cap Locals : \A k \in Lines : Line(k).declares = n => Line(k).kind = "none"
  BY <1>2, <1>3 DEF Declaring
<1>5. s.declares = Anonymous \/ \A i \in Lines : Line(i).declares # s.declares
  BY <1>2, <1>3
<1>6. \A n \in s.names \cup (s.targets \cap Locals) : \E k \in Lines : Line(k).declares = n
  BY <1>1, <1>3
<1> QED BY <1>3, <1>4, <1>5, <1>6

(* The author declares a name once, before its uses, and overlooks nothing. *)
LEMMA DeclaredStep ==
  ASSUME FilterInv, NEW s \in RowRecords, Run(s), Unnoticed = {}
  PROVE  DeclaredOnce' /\ NoneOverlooked'
<1> DEFINE N == Len(program.statements) + 1
<1>0. FilterTypes /\ DeclaredOnce /\ NoneOverlooked
  BY DEF FilterInv
<1>1. /\ N \in Nat /\ N \notin Lines /\ DOMAIN program'.statements = Lines \cup {N}
      /\ \A i \in Lines : program'.statements[i] = Line(i) /\ i < N /\ Line(i) \in RowRecords
      /\ program'.statements[N] = s
  BY <1>0, LinesAfter
<1>2. /\ s.declares = Anonymous \/ \A i \in Lines : Line(i).declares # s.declares
      /\ \A n \in s.names \cup (s.targets \cap Locals) : \E k \in Lines : Line(k).declares = n
      /\ \A n \in s.targets \cap Locals : \A k \in Lines : Line(k).declares = n => Line(k).kind = "none"
      /\ s.kind = "name" /\ s.targets \cap Exported # {} => s.declares = Anonymous /\ s.targets \cap Locals = {}
      /\ s.kind = "container" /\ s.declares # Anonymous => s.targets \cap Locals = {}
  BY <1>0, Allowed
<1>3. Anonymous \notin Locals
  BY FilterAssumption
<1> HIDE DEF N
<1>4. \A i, j \in DOMAIN program'.statements : program'.statements[i].declares = program'.statements[j].declares => i = j \/ program'.statements[i].declares = Anonymous
  BY <1>0, <1>1, <1>2 DEF DeclaredOnce
<1>5. \A i \in DOMAIN program'.statements : \A n \in program'.statements[i].names : \E k \in DOMAIN program'.statements : k < i /\ program'.statements[k].declares = n
  BY <1>0, <1>1, <1>2 DEF DeclaredOnce
<1>6. \A i \in DOMAIN program'.statements : \A n \in program'.statements[i].targets \cap Locals : \E k \in DOMAIN program'.statements : program'.statements[k].declares = n
  BY <1>0, <1>1, <1>2 DEF DeclaredOnce
<1>7. \A i \in DOMAIN program'.statements : \A n \in program'.statements[i].targets \cap Locals :
        \A k \in DOMAIN program'.statements : program'.statements[k].declares = n => program'.statements[k].kind = "none"
  <2> SUFFICES ASSUME NEW i \in DOMAIN program'.statements, NEW n \in program'.statements[i].targets \cap Locals, NEW k \in DOMAIN program'.statements,
                      program'.statements[k].declares = n
               PROVE  program'.statements[k].kind = "none"
    OBVIOUS
  <2>1. PICK j \in Lines : Line(j).declares = n
    BY <1>0, <1>1, <1>2 DEF DeclaredOnce
  <2>2. k \in Lines
    BY <2>1, <1>1, <1>2, <1>3
  <2> QED BY <2>2, <1>0, <1>1, <1>2 DEF NoneOverlooked
<1>8. \A i \in DOMAIN program'.statements :
        /\ program'.statements[i].kind = "name" /\ program'.statements[i].targets \cap Exported # {} =>
             program'.statements[i].declares = Anonymous /\ program'.statements[i].targets \cap Locals = {}
        /\ program'.statements[i].kind = "container" /\ program'.statements[i].declares # Anonymous => program'.statements[i].targets \cap Locals = {}
  BY <1>0, <1>1, <1>2 DEF NoneOverlooked
<1>9. DeclaredOnce'
  BY <1>4, <1>5, <1>6 DEF DeclaredOnce, Lines, Line
<1>10. NoneOverlooked'
  BY <1>7, <1>8 DEF NoneOverlooked, Lines, Line
<1> QED BY <1>9, <1>10

(* What names with an initialiser hold is left to them, and what exports were *)
(* given is known.                                                            *)
LEMMA HeldStep ==
  ASSUME FilterInv, NEW s \in RowRecords, Run(s), Unnoticed = {}
  PROVE  LocalsHeld' /\ ExportsHeld'
<1> DEFINE N == Len(program.statements) + 1
           after(n) == \A i \in DOMAIN program'.statements :
                         program'.statements[i].declares = n => program'.statements[i].kind # "none"
           from(i, v) ==
             /\ program'.statements[i].kind = "container" => v = Made(i)
             /\ program'.statements[i].kind = "name" =>
                  \E n \in program'.statements[i].names : after(n) => v = program'.holds[n]
             /\ program'.statements[i].kind \notin {"call", "container", "name"} => v = Plain
<1>0. /\ FilterTypes /\ DeclaredOnce /\ LocalsHeld /\ ExportsHeld
      /\ Anonymous \notin Locals \cup Exported /\ Locals \cap Exported = {}
  BY FilterAssumption DEF FilterInv
<1>1. /\ N \in Nat /\ N \notin Lines /\ DOMAIN program'.statements = Lines \cup {N}
      /\ \A i \in Lines : program'.statements[i] = Line(i) /\ Line(i) \in RowRecords
      /\ program'.statements[N] = s
  BY <1>0, LinesAfter
<1>2. /\ s.declares = Anonymous \/ \A i \in Lines : Line(i).declares # s.declares
      /\ \A n \in s.names \cup (s.targets \cap Locals) : \E k \in Lines : Line(k).declares = n
      /\ \A n \in s.targets \cap Locals : \A k \in Lines : Line(k).declares = n => Line(k).kind = "none"
  BY <1>0, Allowed
<1>3. PICK v : Ran(s, v)
  BY <1>0, RunRan
<1>4. s.names \subseteq Locals /\ s.declares \in Locals \cup {Anonymous} /\ s.exports \in BOOLEAN
      /\ \A i \in Lines : Line(i).names \subseteq Locals
  BY <1>1 DEF RowRecords
<1>5. \A t \in Locals \cup Exported :
       program'.holds[t] = IF s.exports /\ t \in Exported THEN ASchema
                           ELSE IF t \in s.targets \cup {s.declares} THEN v ELSE program.holds[t]
  BY <1>3 DEF Ran
<1>6. /\ s.kind = "container" => v = Made(N)
      /\ s.kind = "name" => \E n \in s.names : v = program.holds[n]
      /\ s.kind \notin {"call", "container", "name"} => v = Plain
  BY <1>3 DEF Ran
<1> HIDE DEF N
<1>7. ASSUME NEW n \in Locals, \E k \in Lines : Line(k).declares = n
      PROVE  /\ after(n) => Fixed(n)
             /\ Fixed(n) => program'.holds[n] = program.holds[n]
  <2>1. after(n) => Fixed(n)
    BY <1>1 DEF Fixed
  <2>2. Fixed(n) => n \notin s.targets \cup {s.declares}
    BY <1>0, <1>2, <1>7 DEF Fixed
  <2> QED BY <2>1, <2>2, <1>0, <1>5
<1>8. ASSUME NEW i \in Lines, NEW w, From(i, w) PROVE from(i, w)
  <2>1. Line(i).kind = "name" => \E n \in Line(i).names : after(n) => w = program'.holds[n]
    <3> SUFFICES ASSUME Line(i).kind = "name" PROVE \E n \in Line(i).names : after(n) => w = program'.holds[n]
      OBVIOUS
    <3>1. PICK n \in Line(i).names : Fixed(n) => w = program.holds[n]
      BY <1>8 DEF From
    <3>2. n \in Locals /\ \E k \in Lines : Line(k).declares = n
      BY <1>0, <1>4 DEF DeclaredOnce
    <3>3. after(n) => w = program'.holds[n]
      BY <1>7, <3>1, <3>2
    <3> HIDE DEF after
    <3> QED BY <3>3
  <2> HIDE DEF after
  <2> QED BY <2>1, <1>1, <1>8 DEF From
<1>9. from(N, v)
  <2>1. s.kind = "name" => \E n \in s.names : after(n) => v = program'.holds[n]
    <3> SUFFICES ASSUME s.kind = "name" PROVE \E n \in s.names : after(n) => v = program'.holds[n]
      OBVIOUS
    <3>1. PICK n \in s.names : v = program.holds[n]
      BY <1>6
    <3>2. after(n) => v = program'.holds[n]
      BY <1>7, <3>1, <1>2, <1>4
    <3> HIDE DEF after
    <3> QED BY <3>2
  <2> HIDE DEF after
  <2> QED BY <2>1, <1>1, <1>6
<1>10. ASSUME NEW i \in DOMAIN program'.statements, program'.statements[i].declares \in Locals,
              program'.statements[i].kind # "none"
       PROVE  from(i, program'.holds[program'.statements[i].declares])
  <2> HIDE DEF from, after
  <2>1. CASE i = N
    BY <2>1, <1>0, <1>1, <1>5, <1>9, <1>10
  <2>2. CASE i \in Lines
    <3> DEFINE d == Line(i).declares
    <3>1. d \in Locals /\ From(i, program.holds[d])
      BY <2>2, <1>0, <1>1, <1>10 DEF LocalsHeld
    <3>2. Fixed(d)
      BY <2>2, <1>0, <1>1, <1>10 DEF DeclaredOnce, Fixed
    <3>3. program'.holds[d] = program.holds[d]
      BY <2>2, <3>1, <3>2, <1>7
    <3> QED BY <2>2, <3>1, <3>3, <1>1, <1>8
  <2> QED BY <2>1, <2>2, <1>1
<1>11. ASSUME NEW t \in Exported
       PROVE  \/ program'.holds[t] = Plain
              \/ \E i \in DOMAIN program'.statements : program'.statements[i].exports
              \/ \E i \in DOMAIN program'.statements :
                   t \in program'.statements[i].targets /\ from(i, program'.holds[t])
  <2> HIDE DEF from, after
  <2>1. CASE s.exports
    BY <2>1, <1>1
  <2>2. CASE ~s.exports /\ t \in s.targets
    BY <2>2, <1>1, <1>5, <1>9
  <2>3. CASE ~s.exports /\ t \notin s.targets
    <3>1. program'.holds[t] = program.holds[t]
      BY <2>3, <1>0, <1>4, <1>5
    <3> QED BY <3>1, <1>0, <1>1, <1>8 DEF ExportsHeld
  <2> QED BY <2>1, <2>2, <2>3
<1>12. LocalsHeld'
  BY <1>10 DEF LocalsHeld, Lines, Line, From, Fixed
<1>13. ExportsHeld'
  BY <1>11 DEF ExportsHeld, Lines, Line, From, Fixed
<1> QED BY <1>12, <1>13

(* A container stays known by a name of its own. *)
LEMMA ContainedStep ==
  ASSUME FilterInv, NEW s \in RowRecords, Run(s), Unnoticed = {}
  PROVE  Contained'
<1> DEFINE N == Len(program.statements) + 1
           own(i) == (({program'.statements[i].declares} \ {Anonymous}) \cup program'.statements[i].targets) \cap Locals
           tainted(i) == own(i) \cap ReferencedNames' # {}
<1>0. /\ FilterTypes /\ Contained
      /\ Anonymous \notin Locals \cup Exported /\ Locals \cap Exported = {}
  BY FilterAssumption DEF FilterInv
<1>1. /\ N \in Nat /\ Lines = 1 .. N - 1 /\ N \notin Lines /\ DOMAIN program'.statements = Lines \cup {N}
      /\ \A i \in Lines : program'.statements[i] = Line(i)
      /\ program'.statements[N] = s
      /\ ReferencedNames \subseteq ReferencedNames'
      /\ ~(s.kind = "name" /\ s.targets \cap Exported # {}) => s.names \subseteq ReferencedNames'
  BY <1>0, LinesAfter
<1>2. s.kind = "name" /\ s.targets \cap Exported # {} => s.declares = Anonymous /\ s.targets \cap Locals = {}
  BY <1>0, Allowed
<1>3. PICK v : Ran(s, v)
  BY <1>0, RunRan
<1>4. /\ \A t \in Locals \cup Exported :
           program'.holds[t] = IF s.exports /\ t \in Exported THEN ASchema
                               ELSE IF t \in s.targets \cup {s.declares} THEN v ELSE program.holds[t]
      /\ s.kind = "container" => v = Made(N)
      /\ s.kind = "name" => \E n \in s.names : v = program.holds[n]
      /\ s.kind \notin {"container", "name"} => v.made = 0
  BY <1>3 DEF Ran
<1>5. /\ program'.reached = program.reached \cup IF s.kind \in {"call", "code"} THEN s.names ELSE {}
      /\ program'.shaped = program.shaped \cup ({program'.holds[n].made : n \in program'.reached} \ {0})
  BY <1>0, RunRan
<1>6. /\ \A t \in Locals \cup Exported : program.holds[t].made \in Nat /\ program.holds[t].made <= N - 1
      /\ program.shaped \subseteq 1 .. N - 1 /\ program.reached \subseteq Locals
      /\ s.names \subseteq Locals /\ s.declares \in Locals \cup {Anonymous}
  BY <1>0, <1>1 DEF FilterTypes, Programs, Values, RowRecords
<1>7. Made(N).made = N
  BY DEF Made
<1> HIDE DEF N
<1>8. \A i \in Lines : own(i) = Own(i) /\ (Tainted(i) => tainted(i))
  BY <1>1 DEF Own, Tainted
<1>9. \A n \in Locals : program.holds[n].made # 0 =>
        /\ program.holds[n].made \in Lines
        /\ n \in own(program.holds[n].made) \/ tainted(program.holds[n].made)
  <2> SUFFICES ASSUME NEW n \in Locals, program.holds[n].made # 0
               PROVE  /\ program.holds[n].made \in Lines
                      /\ n \in own(program.holds[n].made) \/ tainted(program.holds[n].made)
    OBVIOUS
  <2>1. program.holds[n].made \in Lines
    BY <1>1, <1>6
  <2> HIDE DEF own, tainted
  <2> QED BY <2>1, <1>0, <1>8 DEF Contained
<1>10. ASSUME NEW n \in Locals, program'.holds[n].made # 0
       PROVE  n \in own(program'.holds[n].made) \/ tainted(program'.holds[n].made)
  <2>1. CASE n \notin s.targets \cup {s.declares}
    <3>1. program'.holds[n] = program.holds[n]
      BY <2>1, <1>0, <1>4
    <3> HIDE DEF own, tainted
    <3> QED BY <3>1, <1>9, <1>10
  <2>2. CASE n \in s.targets \cup {s.declares} /\ s.kind = "container"
    <3>1. program'.holds[n].made = N
      BY <2>2, <1>0, <1>4, <1>7
    <3>2. n \in own(N)
      BY <2>2, <1>0, <1>1
    <3> HIDE DEF own, tainted
    <3> QED BY <3>1, <3>2
  <2>3. CASE n \in s.targets \cup {s.declares} /\ s.kind = "name"
    <3>1. PICK m \in s.names : v = program.holds[m]
      BY <2>3, <1>4
    <3>2. program'.holds[n] = program.holds[m]
      BY <2>3, <3>1, <1>0, <1>4
    <3>3. m \in ReferencedNames'
      BY <2>3, <3>1, <1>0, <1>1, <1>2
    <3>4. m \in own(program.holds[m].made) \/ tainted(program.holds[m].made)
      <4> HIDE DEF own, tainted
      <4> QED BY <3>1, <3>2, <1>6, <1>9, <1>10
    <3>5. tainted(program.holds[m].made)
      <4> HIDE DEF own
      <4> QED BY <3>3, <3>4
    <3> HIDE DEF own, tainted
    <3> QED BY <3>2, <3>5
  <2>4. CASE n \in s.targets \cup {s.declares} /\ s.kind \notin {"container", "name"}
    BY <2>4, <1>0, <1>4, <1>10
  <2> QED BY <2>1, <2>2, <2>3, <2>4
<1>11. program'.reached \subseteq ReferencedNames' /\ program'.reached \subseteq Locals
  BY <1>0, <1>1, <1>5, <1>6 DEF Contained
<1>12. ASSUME NEW i \in program'.shaped PROVE tainted(i)
  <2>1. CASE i \in program.shaped
    <3>1. i \in Lines /\ Tainted(i)
      BY <2>1, <1>0, <1>1, <1>6 DEF Contained
    <3> HIDE DEF tainted
    <3> QED BY <3>1, <1>8
  <2>2. CASE i \notin program.shaped
    <3>1. PICK n \in program'.reached : i = program'.holds[n].made /\ i # 0
      BY <2>2, <1>5, <1>12
    <3>2. n \in Locals /\ n \in ReferencedNames' /\ (n \in own(i) \/ tainted(i))
      <4> HIDE DEF own, tainted
      <4> QED BY <3>1, <1>10, <1>11
    <3> HIDE DEF own
    <3> QED BY <3>2
  <2> QED BY <2>1, <2>2
<1>13. \A n \in Locals : program'.holds[n].made # 0 =>
         n \in own(program'.holds[n].made) \/ tainted(program'.holds[n].made)
  <2> HIDE DEF own, tainted
  <2> QED BY <1>10
<1>14. \A i \in program'.shaped : tainted(i)
  <2> HIDE DEF tainted
  <2> QED BY <1>12
<1> QED BY <1>11, <1>13, <1>14 DEF Contained, Own, Tainted, Line

(* Where nothing is overlooked, no step disturbs the invariant of the filter. *)
LEMMA FilterStep == Unnoticed = {} /\ FilterInv /\ FilterNext => FilterInv'
<1> SUFFICES ASSUME Unnoticed = {}, FilterInv, FilterNext PROVE FilterInv'
  OBVIOUS
<1>1. PICK s \in RowRecords : Run(s)
  BY FilterRuns
<1>2. FilterTypes'
  BY FilterStepTypes DEF FilterInv
<1> QED BY <1>1, <1>2, DeclaredStep, HeldStep, ContainedStep DEF FilterInv

(* Following names by their initialisers leads to no others. *)
LEMMA ResolvedClosed ==
  ASSUME NEW S, S \subseteq Locals, \A s \in Rows : s.names \subseteq Locals
  PROVE  /\ S \subseteq Resolved(S) /\ Resolved(S) \subseteq Locals
         /\ \A n \in Resolved(S) : \A s \in Inits(n) : s.kind = "name" => s.names \subseteq Resolved(S)
<1>1. S \subseteq Resolved(S) /\ Resolved(S) \subseteq Locals
  BY DEF Resolved
<1>2. ASSUME NEW n \in Resolved(S), NEW s \in Inits(n), s.kind = "name", NEW m \in s.names
      PROVE  m \in Resolved(S)
  <2>1. m \in Locals
    BY DEF Inits, Declaring
  <2>2. ASSUME NEW T \in SUBSET Locals, S \subseteq T, LeadsTo(T) \subseteq T PROVE m \in T
    <3>1. n \in T
      BY <2>2 DEF Resolved
    <3>2. m \in LeadsTo(T)
      BY <3>1, <1>2 DEF LeadsTo
    <3> QED BY <3>2, <2>2
  <2> QED BY <2>1, <2>2 DEF Resolved
<1> QED BY <1>1, <1>2

(* Where every name a value leads to is safe, each of them holds what it was *)
(* initialised with, and no container that code could have got hold of.      *)
LEMMA SafeNames ==
  ASSUME FilterInv, NEW S, S \subseteq Locals, NEW defaultish \in BOOLEAN,
         \A n \in Resolved(S) : NameIsSafe(n, defaultish)
  PROVE  \A n \in Resolved(S) :
           /\ Fixed(n)
           /\ \/ program.holds[n] = Plain
              \/ ~defaultish /\ \E k \in Lines : program.holds[n] = Made(k) /\ k \notin program.shaped
<1> DEFINE R == Resolved(S)
           Good(n) == /\ Fixed(n)
                      /\ \/ program.holds[n] = Plain
                         \/ ~defaultish /\ \E k \in Lines : program.holds[n] = Made(k) /\ k \notin program.shaped
           bad == {k \in Lines : Line(k).declares \in R /\ ~Good(Line(k).declares)}
<1>0. FilterTypes /\ DeclaredOnce /\ NoneOverlooked /\ LocalsHeld /\ Contained /\ Anonymous \notin Locals
  BY FilterAssumption DEF FilterInv
<1>1. /\ Lines \subseteq Nat /\ Rows = {Line(i) : i \in Lines} /\ \A i \in Lines : Line(i) \in RowRecords
      /\ \A s \in Rows : s.names \subseteq Locals
  BY <1>0 DEF Lines, Rows, Line, FilterTypes, Programs, RowRecords
<1>2. /\ S \subseteq R /\ R \subseteq Locals
      /\ \A n \in R : \A s \in Inits(n) : s.kind = "name" => s.names \subseteq R
  BY <1>1, ResolvedClosed
<1>3. ASSUME NEW n \in R
      PROVE  \E k \in Lines : /\ Line(k).declares = n
                              /\ \/ Line(k).form = "function" /\ Line(k).kind = "code"
                                 \/ Line(k).kind = "literal"
                                 \/ Line(k).kind = "container" /\ ContainerIsSafe(defaultish, {n})
                                 \/ Line(k).kind = "name" /\ Line(k).names \subseteq R
  <2>1. NameIsSafe(n, defaultish)
    OBVIOUS
  <2>2. CASE n \in SafeDecls
    <3>1. PICK k \in Lines : Line(k).declares = n /\ Line(k).form = "function"
      BY <2>2, <1>1 DEF SafeDecls
    <3> QED BY <3>1, <1>1 DEF RowRecords
  <2>3. ASSUME NEW s \in Inits(n), \/ s.kind \in {"literal", "name"}
                                   \/ s.kind = "container" /\ ContainerIsSafe(defaultish, {n})
        PROVE  \E k \in Lines : /\ Line(k).declares = n
                                /\ \/ Line(k).kind = "literal"
                                   \/ Line(k).kind = "container" /\ ContainerIsSafe(defaultish, {n})
                                   \/ Line(k).kind = "name" /\ Line(k).names \subseteq R
    <3>1. PICK k \in Lines : s = Line(k) /\ Line(k).declares = n
      BY <1>1 DEF Inits, Declaring
    <3> HIDE DEF R
    <3> QED BY <3>1, <2>3, <1>2
  <2> HIDE DEF R
  <2> QED BY <2>1, <2>2, <2>3 DEF NameIsSafe
<1>4. SUFFICES bad = {}
  <2>1. ASSUME NEW n \in R PROVE Good(n)
    <3>1. PICK k \in Lines : Line(k).declares = n
      BY <1>3
    <3>2. k \notin bad
      BY <1>4
    <3> HIDE DEF R, Good
    <3> QED BY <3>1, <3>2
  <2> QED BY <2>1
<1>5. SUFFICES ASSUME bad # {} PROVE FALSE
  OBVIOUS
<1>6. PICK i \in bad : \A j \in bad : i <= j
  <2>1. bad \subseteq Nat
    BY <1>1
  <2> HIDE DEF bad
  <2> QED BY <2>1, <1>5, Least
<1> DEFINE n == Line(i).declares
<1>7. i \in Lines /\ n \in R /\ n \in Locals /\ n # Anonymous /\ ~Good(n) /\ i \in Nat
  BY <1>0, <1>1, <1>2, <1>6
<1>8. \A k \in Lines : Line(k).declares = n => k = i
  BY <1>0, <1>7 DEF DeclaredOnce
<1>9. /\ \/ Line(i).form = "function" /\ Line(i).kind = "code"
         \/ Line(i).kind = "literal"
         \/ Line(i).kind = "container" /\ ContainerIsSafe(defaultish, {n})
         \/ Line(i).kind = "name" /\ Line(i).names \subseteq R
  <2> HIDE DEF R, n
  <2> QED BY <1>3, <1>7, <1>8
<1>10. Fixed(n)
  BY <1>8, <1>9 DEF Fixed
<1>11. From(i, program.holds[n])
  BY <1>0, <1>7, <1>9 DEF LocalsHeld
<1>12. CASE Line(i).kind \in {"code", "literal"}
  BY <1>7, <1>10, <1>11, <1>12 DEF From
<1>13. CASE Line(i).kind = "container"
  <2>1. ~defaultish /\ n \notin ReferencedNames
    BY <1>9, <1>13 DEF ContainerIsSafe
  <2>2. Own(i) = {n}
    BY <1>0, <1>7, <1>13 DEF NoneOverlooked, Own
  <2>3. ~Tainted(i)
    BY <2>1, <2>2 DEF Tainted
  <2>4. i \notin program.shaped
    BY <2>3, <1>0 DEF Contained
  <2>5. program.holds[n] = Made(i)
    BY <1>11, <1>13 DEF From
  <2> QED BY <2>1, <2>4, <2>5, <1>7, <1>10
<1>14. CASE Line(i).kind = "name"
  <2>1. PICK m \in Line(i).names : Fixed(m) => program.holds[n] = program.holds[m]
    BY <1>11, <1>14 DEF From
  <2>2. m \in R
    BY <1>9, <1>14, <2>1
  <2>3. PICK j \in Lines : j < i /\ Line(j).declares = m
    BY <1>0, <1>7, <2>1 DEF DeclaredOnce
  <2>4. j \notin bad
    <3>1. j \in Nat /\ ~(i <= j)
      BY <1>1, <1>7, <2>3
    <3> HIDE DEF bad
    <3> QED BY <3>1, <1>6
  <2>5. Good(m)
    <3> HIDE DEF Good, R
    <3> QED BY <2>2, <2>3, <2>4
  <2>6. Good(n)
    BY <2>1, <2>5, <1>10
  <2> HIDE DEF Good
  <2> QED BY <2>6, <1>7
<1> QED BY <1>9, <1>12, <1>13, <1>14

(* What the filter says nothing of exports nothing discovery would find. *)
LEMMA FilterSound == FilterInv => FilterIsSound
<1> SUFFICES ASSUME FilterInv, NEW t \in Exported, Discoverable(t), ~MayExportSchemas PROVE FALSE
  BY DEF FilterIsSound
<1>0. FilterTypes /\ ExportsHeld /\ Contained /\ Anonymous \notin Locals
  BY FilterAssumption DEF FilterInv
<1>1. /\ Rows = {Line(i) : i \in Lines} /\ \A i \in Lines : Line(i) \in RowRecords /\ Line(i) \in Rows
  BY <1>0 DEF Lines, Rows, Line, FilterTypes, Programs
<1>2. \A i \in Lines : /\ ~Line(i).exports
                       /\ t \in Line(i).targets => ValueIsSafe(Line(i), t = Default)
  BY <1>1 DEF MayExportSchemas, IsSafe
<1> DEFINE defaultish == (t = Default)
<1>3. program.holds[t] # Plain
  BY DEF Discoverable, Plain
<1>4. PICK i \in Lines : t \in Line(i).targets /\ From(i, program.holds[t])
  BY <1>0, <1>2, <1>3 DEF ExportsHeld
<1>5. ValueIsSafe(Line(i), defaultish) /\ defaultish \in BOOLEAN
  BY <1>2, <1>4
<1>6. \A k : program.holds[t] = Made(k) => defaultish \/ k \in program.shaped
  BY DEF Discoverable, Made
<1> HIDE DEF defaultish
<1>7. CASE Line(i).kind = "literal"
  BY <1>3, <1>4, <1>7 DEF From
<1>8. CASE Line(i).kind = "container"
  <2>1. ~defaultish /\ (({Line(i).declares} \ {Anonymous}) \cup (Line(i).targets \cap Locals)) \cap ReferencedNames = {}
    BY <1>5, <1>8 DEF ValueIsSafe, ContainerIsSafe
  <2>2. ~Tainted(i)
    BY <2>1 DEF Tainted, Own
  <2>3. program.holds[t] = Made(i)
    BY <1>4, <1>8 DEF From
  <2> QED BY <2>1, <2>2, <2>3, <1>0, <1>6 DEF Contained
<1>9. CASE Line(i).kind = "name"
  <2>1. \A n \in Resolved(Line(i).names) : NameIsSafe(n, defaultish)
    BY <1>5, <1>9 DEF ValueIsSafe
  <2>2. Line(i).names \subseteq Locals /\ \A s \in Rows : s.names \subseteq Locals
    BY <1>1 DEF RowRecords
  <2>3. PICK n \in Line(i).names : Fixed(n) => program.holds[t] = program.holds[n]
    BY <1>4, <1>9 DEF From
  <2>4. n \in Resolved(Line(i).names)
    BY <2>2, <2>3, ResolvedClosed
  <2>5. /\ Fixed(n)
        /\ \/ program.holds[n] = Plain
           \/ ~defaultish /\ \E k \in Lines : program.holds[n] = Made(k) /\ k \notin program.shaped
    BY <2>1, <2>2, <2>4, <1>5, SafeNames
  <2> QED BY <2>3, <2>5, <1>3, <1>6
<1> QED BY <1>5, <1>7, <1>8, <1>9 DEF ValueIsSafe

(* Steps of the other parts leave the program as it is. *)
LEMMA FilterStutter == UNCHANGED program /\ FilterInv => FilterInv'
<1> SUFFICES ASSUME UNCHANGED program, FilterInv PROVE FilterInv'
  OBVIOUS
<1>1. FilterTypes' /\ DeclaredOnce' /\ NoneOverlooked'
  BY DEF FilterInv, FilterTypes, DeclaredOnce, NoneOverlooked, Lines, Line
<1>2. LocalsHeld' /\ ExportsHeld'
  BY DEF FilterInv, LocalsHeld, ExportsHeld, From, Fixed, Lines, Line
<1>3. Contained'
  BY DEF FilterInv, Contained, Tainted, Own, ReferencedNames, Rows, Line
<1> QED BY <1>1, <1>2, <1>3 DEF FilterInv

(* A file that would have exported a schema is never skipped by                *)
(* mayExportSchemas(), whatever its length and the names in it, where it does  *)
(* nothing that the analysis overlooks.                                        *)
THEOREM FilterNeverMisses == Unnoticed = {} => (SpecMC => []FilterIsSound)
<1> SUFFICES ASSUME Unnoticed = {} PROVE SpecMC => []FilterIsSound
  OBVIOUS
<1>1. InitMC => FilterInv
  BY FilterStart DEF InitMC
<1>2. FilterInv /\ [NextMC]_varsMC => FilterInv'
  BY FilterStep, FilterStutter DEF NextMC, varsMC
<1> QED BY <1>1, <1>2, FilterSound, PTL DEF SpecMC

-----------------------------------------------------------------------------
(* Hoisting *)

(* Chains in an argument are plain: their own arguments hold no chain. *)
PlainLinks == [method : Methods, kind : {"none", "eager"}, name : Names \cup {NoName},
               param : {NoName}, inner : {<< >>}]
PlainChains == [root : Imports, links : Seq(PlainLinks)]
Links == [method : Methods, kind : Kinds, name : Names \cup {NoName}, param : Names \cup {NoName},
          inner : {<< >>} \cup {<<c>> : c \in PlainChains}]
HoistBindings == [name : Names, how : {"var", "param", "function"}, scope : {"module", "function"}]
Files == [imports : SUBSET Imports, place : Places, root : Imports \cup {NoName}, links : Seq(Links),
          bindings : SUBSET HoistBindings]

(* A module does not declare what it imports; nothing is overlooked. *)
WellScoped == \A b \in file.bindings : b.scope = "module" => b.name \notin file.imports
NotBlind == /\ \A j \in DOMAIN file.links : file.links[j].kind # "default"
            /\ \A b \in file.bindings : ~(b.scope = "function" /\ b.how = "function")
HoistInv == file \in Files /\ WellScoped /\ (Blind = {} => NotBlind)

(* A link as it is first written. *)
LEMMA LinkTypes ==
  /\ \A m \in Methods : /\ Link(m) \in Links /\ Link(m) \in PlainLinks
                        /\ \A x \in Names : [Link(m) EXCEPT !.kind = "eager", !.name = x] \in PlainLinks
  /\ \A m \in Methods : Link(m).kind = "none"
<1> SUFFICES ASSUME NEW m \in Methods
             PROVE  /\ Link(m) \in Links /\ Link(m) \in PlainLinks /\ Link(m).kind = "none"
                    /\ \A x \in Names : [Link(m) EXCEPT !.kind = "eager", !.name = x] \in PlainLinks
  OBVIOUS
<1> DEFINE nothing == << >>
<1>1. Link(m) = [method |-> m, kind |-> "none", name |-> NoName, param |-> NoName, inner |-> nothing]
  BY DEF Link
<1>2. PlainLinks = [method : Methods, kind : {"none", "eager"}, name : Names \cup {NoName},
                    param : {NoName}, inner : {nothing}]
  BY DEF PlainLinks
<1>3. Links = [method : Methods, kind : Kinds, name : Names \cup {NoName}, param : Names \cup {NoName},
               inner : {nothing} \cup {<<c>> : c \in PlainChains}]
  BY DEF Links
<1>4. "none" \in Kinds
  BY DEF Kinds
<1> HIDE DEF nothing
<1>5. Link(m) \in Links
  BY <1>1, <1>3, <1>4
<1>6. Link(m).kind = "none"
  BY <1>1
<1>7. Link(m) \in PlainLinks
  BY <1>1, <1>2
<1>8. ASSUME NEW x \in Names PROVE [Link(m) EXCEPT !.kind = "eager", !.name = x] \in PlainLinks
  BY <1>2, <1>7
<1> QED BY <1>5, <1>6, <1>7, <1>8

(* The chains the author writes in arguments are plain. *)
LEMMA InnerTypes == Inner \subseteq PlainChains
<1> SUFFICES ASSUME NEW c \in Inner PROVE c \in PlainChains
  OBVIOUS
<1>1. PICK r \in Imports, l \in InnerLinks : c = [root |-> r, links |-> l]
  BY DEF Inner
<1>2. l \in Seq(PlainLinks)
  <2>1. "combinator" \in Methods /\ "build" \in Methods /\ "parse" \in Methods
    BY DEF Methods
  <2>2. \/ l = <<Link("combinator")>> \/ l = <<Link("build")>> \/ l = <<Link("build"), Link("parse")>>
        \/ \E x \in Names : l = <<[Link("build") EXCEPT !.kind = "eager", !.name = x]>>
    BY DEF InnerLinks
  <2> HIDE DEF PlainLinks, Link, Methods
  <2>3. \A y \in PlainLinks : <<y>> \in Seq(PlainLinks)
    OBVIOUS
  <2>4. \A y, z \in PlainLinks : <<y, z>> \in Seq(PlainLinks)
    OBVIOUS
  <2> QED BY <2>1, <2>2, <2>3, <2>4, LinkTypes
<1> QED BY <1>1, <1>2 DEF PlainChains

(* A link's argument is of its type and, where nothing is overlooked, seen. *)
LEMMA ArgumentTypes ==
  ASSUME HoistInv, Arguments
  PROVE  \E kind \in Kinds, name \in Names \cup {NoName}, param \in Names \cup {NoName},
            inner \in {<< >>} \cup {<<c>> : c \in PlainChains} :
           Argue(kind, name, param, inner)
<1> DEFINE nothing == << >>
           T == {nothing} \cup {<<c>> : c \in PlainChains}
<1>1. {"impure", "eager", "default", "callback"} \subseteq Kinds
  BY DEF Kinds
<1>2. \A c \in Inner : <<c>> \in T /\ c.root \in Names /\ c.links[1].name \in Names \cup {NoName}
  <2> SUFFICES ASSUME NEW c \in Inner PROVE <<c>> \in T /\ c.root \in Names /\ c.links[1].name \in Names \cup {NoName}
    OBVIOUS
  <2>1. c \in PlainChains /\ Imports \subseteq Names
    BY InnerTypes, HoistAssumption
  <2>2. c.links \in Seq(PlainLinks) /\ c.root \in Imports
    BY <2>1 DEF PlainChains
  <2>3. PICK r \in Imports, l \in InnerLinks : c = [root |-> r, links |-> l]
    BY DEF Inner
  <2>4. l[1] = Link("combinator") \/ l[1] = Link("build")
        \/ \E x \in Names : l[1] = [Link("build") EXCEPT !.kind = "eager", !.name = x]
    <3>1. \/ l = <<Link("combinator")>> \/ l = <<Link("build")>> \/ l = <<Link("build"), Link("parse")>>
          \/ \E x \in Names : l = <<[Link("build") EXCEPT !.kind = "eager", !.name = x]>>
      BY <2>3 DEF InnerLinks
    <3>2. ASSUME NEW y, l = <<y>> PROVE l[1] = y
      BY <3>2
    <3>3. ASSUME NEW y, NEW z, l = <<y, z>> PROVE l[1] = y
      BY <3>3
    <3>4. ASSUME NEW x \in Names, l = <<[Link("build") EXCEPT !.kind = "eager", !.name = x]>>
          PROVE  l[1] = [Link("build") EXCEPT !.kind = "eager", !.name = x]
      BY <3>4, <3>2
    <3>5. l = <<Link("combinator")>> => l[1] = Link("combinator")
      BY <3>2
    <3>6. l = <<Link("build")>> \/ l = <<Link("build"), Link("parse")>> => l[1] = Link("build")
      BY <3>2, <3>3
    <3> QED BY <3>1, <3>4, <3>5, <3>6
  <2>5. Link("combinator") \in PlainLinks /\ Link("build") \in PlainLinks
        /\ \A x \in Names : [Link("build") EXCEPT !.kind = "eager", !.name = x] \in PlainLinks
    BY LinkTypes DEF Methods
  <2>6. c.links[1] \in PlainLinks
    BY <2>3, <2>4, <2>5
  <2>7. c.links[1].name \in Names \cup {NoName}
    BY <2>6 DEF PlainLinks
  <2> QED BY <2>1, <2>2, <2>7
<1>3. nothing \in T
  OBVIOUS
<1>4. \/ Argue("impure", NoName, NoName, nothing)
      \/ \E x \in Names : Argue("eager", x, NoName, nothing)
      \/ \E x \in Names : Argue("default", x, NoName, nothing)
      \/ \E x \in Names : \E y \in Names \cup {NoName} : Argue("callback", x, y, nothing)
      \/ \E c \in Inner : Argue("eager", NoName, NoName, <<c>>)
      \/ \E c \in Inner : \E y \in {NoName, c.root, c.links[1].name} : Argue("callback", NoName, y, <<c>>)
  BY DEF Arguments
<1> HIDE DEF nothing, T
<1>5. \E kind \in Kinds, name \in Names \cup {NoName}, param \in Names \cup {NoName}, inner \in T :
        Argue(kind, name, param, inner)
  <2>1. CASE Argue("impure", NoName, NoName, nothing)
    BY <2>1, <1>1, <1>3
  <2>2. CASE \E x \in Names : Argue("eager", x, NoName, nothing)
    BY <2>2, <1>1, <1>3
  <2>3. CASE \E x \in Names : Argue("default", x, NoName, nothing)
    BY <2>3, <1>1, <1>3
  <2>4. CASE \E x \in Names : \E y \in Names \cup {NoName} : Argue("callback", x, y, nothing)
    BY <2>4, <1>1, <1>3
  <2>5. CASE \E c \in Inner : Argue("eager", NoName, NoName, <<c>>)
    BY <2>5, <1>1, <1>2
  <2>6. CASE \E c \in Inner : \E y \in {NoName, c.root, c.links[1].name} : Argue("callback", NoName, y, <<c>>)
    BY <2>6, <1>1, <1>2
  <2> QED BY <1>4, <2>1, <2>2, <2>3, <2>4, <2>5, <2>6
<1> QED BY <1>5 DEF T, nothing

(* A file not yet written. *)
LEMMA HoistStart == HoistInit \/ file = Unwritten({}) => HoistInv
<1> SUFFICES ASSUME NEW imports \in SUBSET Imports, file = Unwritten(imports) PROVE HoistInv
  BY DEF HoistInit
<1>1. /\ file.imports = imports /\ file.place = "top" /\ file.root = NoName /\ file.bindings = {}
      /\ file.links = << >>
  BY DEF Unwritten
<1>2. "top" \in Places /\ << >> \in Seq(Links)
  BY DEF Places
<1>3. file \in Files
  <2> HIDE DEF Places, Links, HoistBindings
  <2> QED BY <1>2 DEF Unwritten, Files
<1>4. DOMAIN file.links = {}
  BY <1>1
<1> QED BY <1>1, <1>3, <1>4 DEF HoistInv, WellScoped, NotBlind

(* No step of the author disturbs the invariant of a file. *)
LEMMA HoistStep == HoistInv /\ HoistNext => HoistInv'
<1> SUFFICES ASSUME HoistInv, HoistNext PROVE HoistInv'
  OBVIOUS
<1>0. /\ file \in Files /\ WellScoped /\ (Blind = {} => NotBlind)
      /\ file.links \in Seq(Links) /\ file.bindings \subseteq HoistBindings
  BY DEF HoistInv, Files
<1>1. ASSUME NEW place \in Places, NEW root \in Imports, Write(place, root) PROVE HoistInv'
  <2>1. file' = [file EXCEPT !.place = place, !.root = root]
    BY <1>1 DEF Write
  <2>2. file' \in Files /\ file'.links = file.links /\ file'.bindings = file.bindings /\ file'.imports = file.imports
    BY <2>1, <1>0 DEF Files
  <2> QED BY <2>2, <1>0 DEF HoistInv, WellScoped, NotBlind
<1>2. ASSUME NEW method \in Methods, Call(method) PROVE HoistInv'
  <2>1. file' = [file EXCEPT !.links = Append(file.links, Link(method))]
    BY <1>2 DEF Call
  <2>0. Link(method) \in Links /\ Link(method).kind = "none"
    BY LinkTypes
  <2>2. Append(file.links, Link(method)) \in Seq(Links) /\ Link(method).kind = "none"
    BY <2>0, <1>0
  <2>3. file' \in Files /\ file'.links = Append(file.links, Link(method)) /\ file'.bindings = file.bindings
        /\ file'.imports = file.imports
    BY <2>1, <2>2, <1>0 DEF Files
  <2>4. \A j \in DOMAIN file'.links : file'.links[j] = Link(method) \/ (j \in DOMAIN file.links /\ file'.links[j] = file.links[j])
    BY <2>3, <1>0
  <2> QED BY <2>2, <2>3, <2>4, <1>0 DEF HoistInv, WellScoped, NotBlind
<1>3. ASSUME NEW kind \in Kinds, NEW name \in Names \cup {NoName}, NEW param \in Names \cup {NoName},
             NEW inner \in {<< >>} \cup {<<c>> : c \in PlainChains}, Argue(kind, name, param, inner)
      PROVE  HoistInv'
  <2> DEFINE n == Len(file.links)
             l == [file.links[n] EXCEPT !.kind = kind, !.name = name, !.param = param, !.inner = inner]
  <2>1. file' = [file EXCEPT !.links[n] = l] /\ file.links # << >> /\ (kind = "default" => "default" \in Blind)
    BY <1>3 DEF Argue
  <2>2. n \in DOMAIN file.links /\ file.links[n] \in Links
    BY <2>1, <1>0
  <2>3. l \in Links /\ l.kind = kind
    <3> DEFINE T == {<< >>} \cup {<<c>> : c \in PlainChains}
    <3>1. inner \in T /\ Links = [method : Methods, kind : Kinds, name : Names \cup {NoName},
                                  param : Names \cup {NoName}, inner : T]
      BY DEF Links
    <3> HIDE DEF T
    <3> QED BY <3>1, <2>2
  <2> HIDE DEF l
  <2>4. [file.links EXCEPT ![n] = l] \in Seq(Links)
    BY <2>2, <2>3, <1>0
  <2>5. file' \in Files /\ file'.links = [file.links EXCEPT ![n] = l] /\ file'.bindings = file.bindings
        /\ file'.imports = file.imports
    BY <2>1, <2>4, <1>0 DEF Files
  <2>6. \A j \in DOMAIN file'.links : j \in DOMAIN file.links /\ (file'.links[j] = l \/ file'.links[j] = file.links[j])
    BY <2>2, <2>5, <1>0
  <2>7. Blind = {} => NotBlind'
    BY <2>1, <2>3, <2>5, <2>6, <1>0 DEF NotBlind
  <2> QED BY <2>5, <2>7, <1>0 DEF HoistInv, WellScoped
<1>4. ASSUME NEW name \in Names, NEW how \in {"var", "param", "function"}, NEW scope \in {"module", "function"},
             Bind(name, how, scope)
      PROVE  HoistInv'
  <2> DEFINE b == [name |-> name, how |-> how, scope |-> scope]
  <2>1. /\ file' = [file EXCEPT !.bindings = file.bindings \cup {b}]
        /\ scope = "module" => name \notin file.imports
        /\ scope = "function" /\ how = "function" => "function" \in Blind
    BY <1>4 DEF Bind
  <2>2. b \in HoistBindings /\ b.name = name /\ b.how = how /\ b.scope = scope
    BY DEF HoistBindings
  <2> HIDE DEF b
  <2>3. file' \in Files /\ file'.links = file.links /\ file'.bindings = file.bindings \cup {b}
        /\ file'.imports = file.imports
    BY <2>1, <2>2, <1>0 DEF Files
  <2> QED BY <2>1, <2>2, <2>3, <1>0 DEF HoistInv, WellScoped, NotBlind
<1> QED BY <1>1, <1>2, <1>3, <1>4, ArgumentTypes DEF HoistNext, Declarations

(* The types, as they are stated. *)
LEMMA HoistTypes == HoistInv => HoistTypeOK
<1> SUFFICES ASSUME HoistInv PROVE HoistTypeOK
  OBVIOUS
<1>0. file \in Files
  BY DEF HoistInv
<1>1. /\ file.imports \in SUBSET Imports /\ file.place \in Places /\ file.root \in Imports \cup {NoName}
      /\ file.links \in Seq(Links) /\ file.bindings \subseteq HoistBindings
  BY <1>0 DEF Files
<1>2. ASSUME NEW j \in DOMAIN file.links
      PROVE  LET l == file.links[j]
             IN /\ l.method \in Methods /\ l.kind \in Kinds
                /\ l.name \in Names \cup {NoName} /\ l.param \in Names \cup {NoName}
                /\ \A k \in DOMAIN l.inner : k = 1 /\ l.inner[k].root \in Imports
  <2> DEFINE l == file.links[j]
  <2>1. l \in Links
    BY <1>1
  <2>2. l.inner = << >> \/ \E c \in PlainChains : l.inner = <<c>>
    BY <2>1 DEF Links
  <2>3. ASSUME NEW k \in DOMAIN l.inner PROVE k = 1 /\ l.inner[k].root \in Imports
    <3>1. l.inner # << >>
      OBVIOUS
    <3>2. PICK c \in PlainChains : l.inner = <<c>>
      BY <2>2, <3>1
    <3>3. c.root \in Imports
      BY DEF PlainChains
    <3> HIDE DEF l
    <3> QED BY <3>2, <3>3, <2>3
  <2> QED BY <2>1, <2>3 DEF Links
<1> QED BY <1>1, <1>2 DEF HoistTypeOK, HoistBindings

(* How far a chain is a call chain, and how far it builds. *)
LEMMA ParsedBounds ==
  ASSUME NEW c, NEW L, c.links \in Seq(L)
  PROVE  ParsedLinks(c) \in 0 .. Len(c.links)
<1> DEFINE S == {n \in 0 .. Len(c.links) : n = Len(c.links) \/ c.links[n + 1].method = "typed"}
           P(n) == /\ \A j \in 1 .. n : c.links[j].method # "typed"
                   /\ n = Len(c.links) \/ c.links[n + 1].method = "typed"
<1>1. Len(c.links) \in Nat /\ S \subseteq Nat /\ Len(c.links) \in S
  OBVIOUS
<1>2. PICK m \in S : \A n \in S : m <= n
  <2> HIDE DEF S
  <2> QED BY <1>1, Least
<1>3. m \in 0 .. Len(c.links) /\ P(m)
  <2>1. ASSUME NEW j \in 1 .. m, c.links[j].method = "typed" PROVE FALSE
    <3>1. j - 1 \in 0 .. Len(c.links) /\ (j - 1) + 1 = j
      BY <1>1
    <3>2. j - 1 \in S
      BY <3>1, <2>1
    <3>3. m <= j - 1 /\ m \in Nat
      <4> HIDE DEF S
      <4> QED BY <3>2, <1>1, <1>2
    <3> HIDE DEF S
    <3> QED BY <3>3, <2>1
  <2> QED BY <2>1
<1>4. ParsedLinks(c) = CHOOSE n \in 0 .. Len(c.links) : P(n)
  BY DEF ParsedLinks
<1> HIDE DEF P, S
<1> QED BY <1>3, <1>4

(* What is left once the calls that parse are peeled off is a part of it. *)
LEMMA ConstructionBounds ==
  ASSUME NEW c, NEW L, c.links \in Seq(L)
  PROVE  Construction(c) \in 0 .. ParsedLinks(c) /\ Construction(c) \in 0 .. Len(c.links)
<1> DEFINE m == ParsedLinks(c)
           P(n) == /\ \A j \in n + 1 .. m : c.links[j].method = "parse"
                   /\ n = 0 \/ c.links[n].method # "parse"
           S == {n \in 0 .. m : \A j \in n + 1 .. m : c.links[j].method = "parse"}
<1>1. m \in 0 .. Len(c.links) /\ Len(c.links) \in Nat
  BY ParsedBounds
<1> HIDE DEF m
<1>2. S \subseteq Nat /\ m \in S
  BY <1>1
<1>3. PICK n \in S : \A k \in S : n <= k
  <2> HIDE DEF S
  <2> QED BY <1>2, Least
<1>4. n \in 0 .. m /\ P(n)
  <2>1. ASSUME n # 0, c.links[n].method = "parse" PROVE FALSE
    <3>1. n - 1 \in 0 .. m /\ \A j \in (n - 1) + 1 .. m : j = n \/ j \in n + 1 .. m
      BY <2>1, <1>1
    <3>2. n - 1 \in S
      BY <3>1, <2>1
    <3>3. n <= n - 1 /\ n \in Nat
      <4> HIDE DEF S
      <4> QED BY <3>2, <1>2, <1>3
    <3> HIDE DEF S
    <3> QED BY <3>3
  <2> QED BY <2>1
<1>5. Construction(c) = CHOOSE k \in 0 .. m : P(k)
  BY DEF Construction, m
<1>6. Construction(c) \in 0 .. m
  <2> HIDE DEF P, S
  <2> QED BY <1>4, <1>5
<1> QED BY <1>1, <1>6 DEF m

(* The chain a replacement is of. *)
LEMMA HoistedChain ==
  ASSUME HoistInv, NEW h \in Hoists
  PROVE  /\ Hoistable(Chain(h))
         /\ (h = 0 /\ file.place # "top") \/ h \in Consumed(file) + 1 .. Len(file.links)
         /\ h # 0 => h \in DOMAIN file.links
         /\ \E L : Chain(h).links \in Seq(L)
         /\ h # 0 => Chain(h) \in PlainChains
<1>0. file.links \in Seq(Links) /\ DOMAIN file.links = 1 .. Len(file.links) /\ Len(file.links) \in Nat
  BY DEF HoistInv, Files
<1>1. CASE h = 0 /\ file.place # "top" /\ Hoistable(file)
  <2>1. Chain(h) = file
    BY <1>1 DEF Chain
  <2> QED BY <2>1, <1>0, <1>1
<1>2. ASSUME h \in Consumed(file) + 1 .. Len(file.links), NEW k \in DOMAIN file.links[h].inner,
             Hoistable(file.links[h].inner[k])
      PROVE  /\ Hoistable(Chain(h)) /\ h \in DOMAIN file.links /\ h # 0 /\ Chain(h) \in PlainChains
             /\ \E L : Chain(h).links \in Seq(L)
  <2>1. Consumed(file) \in Nat
    BY <1>0, ParsedBounds, ConstructionBounds DEF Consumed
  <2>2. h \in DOMAIN file.links /\ h # 0
    BY <2>1, <1>0, <1>2
  <2>3. file.links[h] \in Links
    BY <2>2, <1>0
  <2>4. file.links[h].inner = << >> \/ \E c \in PlainChains : file.links[h].inner = <<c>>
    BY <2>3 DEF Links
  <2>5. file.links[h].inner # << >>
    BY <1>2
  <2>6. PICK c \in PlainChains : file.links[h].inner = <<c>>
    BY <2>4, <2>5
  <2>7. k = 1 /\ file.links[h].inner[1] = c
    BY <2>6, <1>2
  <2>8. Chain(h) = c
    BY <2>2, <2>7 DEF Chain
  <2>9. c.links \in Seq(PlainLinks)
    BY DEF PlainChains
  <2> QED BY <1>2, <2>2, <2>7, <2>8, <2>9
<1>3. \/ h = 0 /\ file.place # "top" /\ Hoistable(file)
      \/ h \in Consumed(file) + 1 .. Len(file.links) /\ \E k \in DOMAIN file.links[h].inner : Hoistable(file.links[h].inner[k])
  BY DEF Hoists
<1> QED BY <1>1, <1>2, <1>3

(* Chains without a default parameter, in whose arguments the chains have    *)
(* none either: analyzeCaptures() visits every name they use.                *)
Seen(c) ==
  \A j \in DOMAIN c.links :
    /\ c.links[j].kind # "default"
    /\ \A k \in DOMAIN c.links[j].inner :
         \A i \in 1 .. Len(c.links[j].inner[k].links) : c.links[j].inner[k].links[i].kind # "default"

(* What such a chain uses. *)
LEMMA UsesSeen ==
  ASSUME NEW c, NEW L, c.links \in Seq(L), Seen(c), NEW n \in 0 .. Len(c.links), NEW u \in Uses(c, n)
  PROVE  u.seen
<1>1. ASSUME NEW d, NEW m, \A i \in 1 .. m : d.links[i].kind # "default", NEW v \in FlatUses(d, m)
      PROVE  /\ v.seen = TRUE
             /\ \A b : [v EXCEPT !.eager = b].seen = TRUE
  <2>1. v = Use(d.root, TRUE, TRUE) \/ \E i \in 1 .. m : v \in ArgumentUses(d.links[i])
    BY DEF FlatUses
  <2>2. ASSUME NEW l, l.kind # "default", v \in ArgumentUses(l)
        PROVE  v = Use(l.name, TRUE, TRUE) \/ v = Use(l.name, FALSE, TRUE)
    BY <2>2 DEF ArgumentUses
  <2>3. \E x, e : v = Use(x, e, TRUE)
    BY <1>1, <2>1, <2>2
  <2>4. PICK x, e : v = [name |-> x, eager |-> e, seen |-> TRUE]
    BY <2>3 DEF Use
  <2> QED BY <2>4
<1>2. \A i \in 1 .. n : i \in DOMAIN c.links
  OBVIOUS
<1>3. CASE u \in FlatUses(c, n)
  BY <1>1, <1>2, <1>3 DEF Seen
<1>4. ASSUME NEW i \in 1 .. n, u \in InnerUses(c.links[i]) PROVE u.seen
  <2> DEFINE l == c.links[i]
  <2>1. PICK k \in DOMAIN l.inner : \E v \in FlatUses(l.inner[k], Len(l.inner[k].links)) :
          u = [v EXCEPT !.eager = v.eager /\ l.kind # "callback"]
    BY <1>4 DEF InnerUses
  <2>2. PICK v \in FlatUses(l.inner[k], Len(l.inner[k].links)) : u = [v EXCEPT !.eager = v.eager /\ l.kind # "callback"]
    BY <2>1
  <2>3. \A j \in 1 .. Len(l.inner[k].links) : l.inner[k].links[j].kind # "default"
    BY <1>2 DEF Seen
  <2>4. \A b : [v EXCEPT !.eager = b].seen = TRUE
    BY <2>3, <1>1
  <2> QED BY <2>2, <2>4
<1> QED BY <1>3, <1>4 DEF Uses

(* Where nothing is overlooked, that holds of every chain that is moved. *)
LEMMA ChainSeen ==
  ASSUME HoistInv, NotBlind, NEW h \in Hoists
  PROVE  Seen(Chain(h))
<1>0. file.links \in Seq(Links)
  BY DEF HoistInv, Files
<1>1. ASSUME NEW c \in PlainChains
      PROVE  /\ c.links \in Seq(PlainLinks)
             /\ \A i \in 1 .. Len(c.links) : c.links[i].kind # "default" /\ c.links[i].inner = << >>
  <2>1. c.links \in Seq(PlainLinks)
    BY DEF PlainChains
  <2>2. ASSUME NEW i \in 1 .. Len(c.links) PROVE c.links[i].kind # "default" /\ c.links[i].inner = << >>
    <3>1. c.links[i] \in PlainLinks
      BY <2>1
    <3> QED BY <3>1 DEF PlainLinks
  <2> QED BY <2>1, <2>2
<1>2. CASE h = 0
  <2>1. Chain(h) = file
    BY <1>2 DEF Chain
  <2>2. ASSUME NEW j \in DOMAIN file.links, NEW k \in DOMAIN file.links[j].inner,
               NEW i \in 1 .. Len(file.links[j].inner[k].links)
        PROVE  file.links[j].inner[k].links[i].kind # "default"
    <3>1. file.links[j] \in Links
      BY <1>0
    <3>2. file.links[j].inner = << >> \/ \E c \in PlainChains : file.links[j].inner = <<c>>
      BY <3>1 DEF Links
    <3>3. file.links[j].inner # << >>
      OBVIOUS
    <3>4. PICK c \in PlainChains : file.links[j].inner = <<c>>
      BY <3>2, <3>3
    <3>5. k = 1 /\ file.links[j].inner[k] = c
      BY <3>4
    <3> QED BY <3>5, <1>1
  <2> QED BY <2>1, <2>2 DEF Seen, NotBlind
<1>3. CASE h # 0
  <2>1. Chain(h) \in PlainChains
    BY <1>3, HoistedChain
  <2>2. \A j \in DOMAIN Chain(h).links :
          Chain(h).links[j].kind # "default" /\ DOMAIN Chain(h).links[j].inner = {}
    <3>1. Chain(h).links \in Seq(PlainLinks)
      BY <2>1, <1>1
    <3>2. ASSUME NEW j \in DOMAIN Chain(h).links
          PROVE  Chain(h).links[j].kind # "default" /\ DOMAIN Chain(h).links[j].inner = {}
      <4>1. j \in 1 .. Len(Chain(h).links)
        BY <3>1
      <4> QED BY <4>1, <2>1, <1>1
    <3> QED BY <3>2
  <2> QED BY <2>2 DEF Seen
<1> QED BY <1>2, <1>3

(* Every name of a moved expression is one that nothing between it and the   *)
(* head of the module binds, and that is there already at the head.          *)
LEMMA NamesKept == HoistInv /\ NotBlind => NamesKeepMeaning
<1> SUFFICES ASSUME HoistInv, NotBlind, NEW h \in Hoists, NEW u \in Text(h)
             PROVE  /\ Meaning(u.name, Param(h)) = ModuleMeaning(u.name)
                    /\ ReadyAtHead(u.name)
                    /\ u.eager /\ Compiles(h) => ModuleMeaning(u.name) = "import" /\ u.name \in Zod
  BY DEF NamesKeepMeaning
<1> DEFINE c == Chain(h)
           n == Construction(Chain(h))
<1>0. file \in Files /\ WellScoped /\ file.links \in Seq(Links) /\ file.bindings \subseteq HoistBindings
  BY DEF HoistInv, Files
<1>1. PICK L : c.links \in Seq(L)
  BY HoistedChain
<1>2. n \in 0 .. Len(c.links)
  BY <1>1, ConstructionBounds
<1>3. u \in Uses(c, n) /\ u.seen
  BY <1>1, <1>2, ChainSeen, UsesSeen DEF Text
<1>4. u \in Captures(c, n)
  BY <1>3 DEF Captures
<1>5. u.name \in file.imports \cup Globals /\ u.name \notin BoundNames
  <2>1. Hoistable(c)
    BY HoistedChain
  <2> QED BY <1>4, <2>1 DEF Hoistable
<1>6. u.name \in Names /\ u.name # NoName
  BY <1>0, <1>5, HoistAssumption DEF Files
<1>7. \A b \in file.bindings : b.name = u.name => b.how = "function" /\ b.scope = "module"
  <2>1. ASSUME NEW b \in file.bindings, b.name = u.name PROVE b.how = "function"
    BY <2>1, <1>5 DEF BoundNames
  <2>2. \A b \in file.bindings : b.scope \in {"module", "function"}
    BY <1>0 DEF HoistBindings
  <2> QED BY <2>1, <2>2 DEF NotBlind
<1>8. u.name # Param(h)
  <2>1. CASE h = 0
    BY <2>1, <1>6 DEF Param
  <2>2. CASE h # 0
    <3>1. h \in DOMAIN file.links /\ Param(h) = file.links[h].param
      BY <2>2, HoistedChain DEF Param
    <3> QED BY <3>1, <1>5, <1>6 DEF BoundNames
  <2> QED BY <2>1, <2>2
<1>9. Meaning(u.name, Param(h)) = ModuleMeaning(u.name)
  <2>1. Bound(u.name, "function") = {}
    BY <1>7 DEF Bound
  <2> QED BY <1>8, <2>1 DEF Meaning
<1>10. ModuleMeaning(u.name) \in {"import", "global", "function"}
  <2>1. CASE Bound(u.name, "module") # {}
    <3> DEFINE b == CHOOSE b \in Bound(u.name, "module") : TRUE
    <3>1. b \in Bound(u.name, "module")
      BY <2>1
    <3>2. b.how = "function"
      BY <3>1, <1>7 DEF Bound
    <3>3. ModuleMeaning(u.name) = b.how
      BY <2>1 DEF ModuleMeaning
    <3> QED BY <3>2, <3>3
  <2>2. CASE Bound(u.name, "module") = {}
    BY <2>2, <1>5 DEF ModuleMeaning
  <2> QED BY <2>1, <2>2
<1>11. ASSUME u.eager, Compiles(h) PROVE ModuleMeaning(u.name) = "import" /\ u.name \in Zod
  <2>1. u.name \in file.imports \cap Zod
    BY <1>11, <1>4 DEF Compiles
  <2>2. Bound(u.name, "module") = {}
    BY <2>1, <1>0 DEF Bound, WellScoped
  <2> QED BY <2>1, <2>2 DEF ModuleMeaning
<1> QED BY <1>9, <1>10, <1>11 DEF ReadyAtHead

(* What is consumed reaches at least to the end of a construction that is    *)
(* moved, or that is rooted in zod.                                          *)
LEMMA HoistsApart == HoistInv => HoistsAreApart
<1> SUFFICES ASSUME HoistInv, NEW h \in Hoists, h # 0,
                    0 \in Hoists \/ file.root \in file.imports \cap Zod
             PROVE  h > Construction(file)
  BY DEF HoistsAreApart
<1>0. file.links \in Seq(Links) /\ file.imports \subseteq Imports
  BY DEF HoistInv, Files
<1>1. /\ Construction(file) \in 0 .. ParsedLinks(file) /\ ParsedLinks(file) \in 0 .. Len(file.links)
      /\ Len(file.links) \in Nat
  BY <1>0, ParsedBounds, ConstructionBounds
<1>2. h \in Consumed(file) + 1 .. Len(file.links)
  BY HoistedChain
<1>3. Chain(0) = file
  BY DEF Chain
<1>4. ASSUME 0 \in Hoists PROVE file.place # "top" /\ Hoistable(file)
  <2>1. Hoistable(file)
    BY <1>3, <1>4, HoistedChain
  <2>2. Consumed(file) \in Nat
    BY <1>1 DEF Consumed
  <2>3. ~(0 \in Consumed(file) + 1 .. Len(file.links))
    BY <2>2, <1>1
  <2> QED BY <1>4, <2>1, <2>3 DEF Hoists
<1>5. file.root \in Roots
  BY <1>4 DEF Hoistable, Roots
<1>6. Consumed(file) = ParsedLinks(file) \/ Consumed(file) = Construction(file)
  BY <1>4, <1>5 DEF Consumed
<1> QED BY <1>1, <1>2, <1>6

(* Steps of the other parts leave the file as it is. *)
LEMMA HoistStutter == UNCHANGED file /\ HoistInv => HoistInv'
  BY DEF HoistInv, WellScoped, NotBlind

(* Whatever the names in a file and however many calls, arguments and        *)
(* bindings it is made of: where it uses nothing that the analysis           *)
(* overlooks, an expression moved to the head of the module reads there what *)
(* it read where it stood, finds it initialised, and is moved once.          *)
THEOREM HoistingIsSafe == Blind = {} => (SpecMC => []HoistIsSafe)
<1> SUFFICES ASSUME Blind = {} PROVE SpecMC => []HoistIsSafe
  OBVIOUS
<1>1. InitMC => HoistInv
  BY HoistStart DEF InitMC
<1>2. HoistInv /\ [NextMC]_varsMC => HoistInv'
  BY HoistStep, HoistStutter DEF NextMC, varsMC
<1>3. HoistInv => HoistIsSafe
  BY NamesKept, HoistsApart DEF HoistInv, HoistIsSafe
<1> QED BY <1>1, <1>2, <1>3, PTL DEF SpecMC

-----------------------------------------------------------------------------
(* The rewrite *)

DeclRecords ==
  [name : Bindings, form : {"plain", "compile"}, joined : BOOLEAN, local : BOOLEAN,
   export : Bindings \cup {NotExported}, refs : SUBSET [to : Bindings, how : Hows],
   delegates : BOOLEAN, fails : BOOLEAN]
Modules == [decls : Seq(DeclRecords), autoDiscover : BOOLEAN, bag : BOOLEAN]

RewriteTypes == module \in Modules

(* What is not overlooked: a statement declares one binding, at the top, and *)
(* exports it under its own name if at all.                                  *)
OneEach == \A i \in Decls : /\ ~Decl(i).joined /\ ~Decl(i).local
                            /\ Decl(i).export \in {Decl(i).name, NotExported}
DistinctNames == \A i, j \in Decls : Decl(i).name = Decl(j).name => i = j
RefsResolve == \A i \in Decls : \A r \in Decl(i).refs :
                 /\ r.how # "catchall"
                 /\ \E j \in Decls : Decl(j).name = r.to
(* Once a part of a schema is left to Zod, none is built from a later one.   *)
NoneForward == \A i, k, j \in Decls : \A r \in Decl(k).refs :
                 Decl(i).delegates /\ Decl(j).name = r.to => j <= k

RewriteInv ==
  /\ RewriteTypes
  /\ Overlooked = {} => OneEach /\ DistinctNames /\ RefsResolve /\ NoneForward

(* The declarations of a module, and what a revision of one leaves.          *)
LEMMA DeclTypes ==
  ASSUME RewriteTypes
  PROVE  /\ module.decls \in Seq(DeclRecords) /\ Decls = DOMAIN module.decls
         /\ Len(module.decls) \in Nat /\ Decls \subseteq Nat \ {0}
         /\ \A i \in Decls : Decl(i) \in DeclRecords
<1>1. module.decls \in Seq(DeclRecords)
  BY DEF RewriteTypes, Modules
<1> HIDE DEF DeclRecords
<1> QED BY <1>1 DEF Decls, Decl

(* Revising a declaration leaves the others. *)
LEMMA Revised ==
  ASSUME RewriteTypes, NEW i \in Decls, NEW d \in DeclRecords, Revise(i, d)
  PROVE  /\ RewriteTypes' /\ Decls' = Decls
         /\ module'.decls[i] = d
         /\ \A k \in Decls : k # i => module'.decls[k] = module.decls[k]
<1>1. module.decls \in Seq(DeclRecords) /\ Decls = DOMAIN module.decls
  BY DeclTypes
<1> HIDE DEF DeclRecords
<1>2. module' = [module EXCEPT !.decls = [module.decls EXCEPT ![i] = d]]
  BY DEF Revise
<1>3. [module.decls EXCEPT ![i] = d] \in Seq(DeclRecords)
  BY <1>1
<1>4. module'.decls = [module.decls EXCEPT ![i] = d] /\ module' \in Modules
  BY <1>2, <1>3 DEF RewriteTypes, Modules
<1> QED BY <1>1, <1>4 DEF RewriteTypes, Decls

(* Declaring one leaves those before it. *)
LEMMA Appended ==
  ASSUME RewriteTypes, NEW name \in Bindings, NEW form \in {"plain", "compile"},
         NEW joined \in BOOLEAN, NEW local \in BOOLEAN, Declare(name, form, joined, local)
  PROVE  /\ RewriteTypes' /\ Decls' = 1 .. Len(module.decls) + 1
         /\ module'.decls[Len(module.decls) + 1] = Blank(name, form, joined, local)
         /\ \A k \in Decls : module'.decls[k] = module.decls[k]
<1>1. module.decls \in Seq(DeclRecords) /\ Decls = DOMAIN module.decls /\ Len(module.decls) \in Nat
  BY DeclTypes
<1> DEFINE d == Blank(name, form, joined, local)
<1>2. d \in DeclRecords
  <2> DEFINE no == FALSE
             none == {}
  <2>1. d = [name |-> name, form |-> form, joined |-> joined, local |-> local,
             export |-> NotExported, refs |-> none, delegates |-> no, fails |-> no]
    BY DEF Blank
  <2>2. no \in BOOLEAN /\ none \in SUBSET [to : Bindings, how : Hows]
    OBVIOUS
  <2> HIDE DEF no, none, d
  <2> QED BY <2>1, <2>2 DEF DeclRecords
<1>3. module' = [module EXCEPT !.decls = Append(module.decls, d)]
  BY DEF Declare
<1> HIDE DEF d, DeclRecords
<1>4. Append(module.decls, d) \in Seq(DeclRecords)
  BY <1>1, <1>2
<1>5. module'.decls = Append(module.decls, d) /\ module' \in Modules
  BY <1>3, <1>4 DEF RewriteTypes, Modules
<1>6. Len(Append(module.decls, d)) = Len(module.decls) + 1
  BY <1>1
<1> QED BY <1>1, <1>5, <1>6 DEF RewriteTypes, Decls, d

(* What each of the author's steps revises.                                  *)
LEMMA Revisions ==
  ASSUME RewriteTypes, NEW i \in Decls
  PROVE  /\ \A name \in Bindings : [Decl(i) EXCEPT !.export = name] \in DeclRecords
         /\ \A j \in Decls, how \in Hows :
              [Decl(i) EXCEPT !.refs = @ \cup {[to |-> Decl(j).name, how |-> how]}] \in DeclRecords
         /\ [Decl(i) EXCEPT !.delegates = TRUE] \in DeclRecords
         /\ [Decl(i) EXCEPT !.fails = TRUE] \in DeclRecords
<1>1. Decl(i) \in DeclRecords /\ \A j \in Decls : Decl(j) \in DeclRecords
  BY DeclTypes
<1>2. ASSUME NEW name \in Bindings PROVE [Decl(i) EXCEPT !.export = name] \in DeclRecords
  BY <1>1 DEF DeclRecords
<1>3. ASSUME NEW j \in Decls, NEW how \in Hows
      PROVE  [Decl(i) EXCEPT !.refs = @ \cup {[to |-> Decl(j).name, how |-> how]}] \in DeclRecords
  <2>1. Decl(j).name \in Bindings
    BY <1>1 DEF DeclRecords
  <2>2. Decl(i).refs \cup {[to |-> Decl(j).name, how |-> how]} \in SUBSET [to : Bindings, how : Hows]
    <3>1. Decl(i).refs \subseteq [to : Bindings, how : Hows]
      BY <1>1 DEF DeclRecords
    <3> QED BY <2>1, <3>1
  <2> QED BY <1>1, <2>2 DEF DeclRecords
<1>4. [Decl(i) EXCEPT !.delegates = TRUE] \in DeclRecords /\ [Decl(i) EXCEPT !.fails = TRUE] \in DeclRecords
  <2>1. \A b \in BOOLEAN : [Decl(i) EXCEPT !.delegates = b] \in DeclRecords /\ [Decl(i) EXCEPT !.fails = b] \in DeclRecords
    BY <1>1 DEF DeclRecords
  <2> DEFINE yes == TRUE
  <2>2. yes \in BOOLEAN
    OBVIOUS
  <2> HIDE DEF yes
  <2>3. [Decl(i) EXCEPT !.delegates = yes] \in DeclRecords /\ [Decl(i) EXCEPT !.fails = yes] \in DeclRecords
    BY <2>1, <2>2
  <2> QED BY <2>3 DEF yes
<1> QED BY <1>2, <1>3, <1>4

(* Every step keeps the types, whatever is overlooked.                       *)
LEMMA RewriteStepTypes == RewriteTypes /\ RewriteNext => RewriteTypes'
  BY Revised, Appended, Revisions DEF RewriteNext, Export, Refer, Delegate, Fail

(* A name refers to the one declaration of it.                               *)
LEMMA RefersTo ==
  ASSUME RewriteTypes, OneEach, DistinctNames
  PROVE  /\ \A j \in Decls : Refers(Decl(j).name) = j
         /\ \A name : Refers(name) = 0 => \A j \in Decls : Decl(j).name # name
<1>1. ASSUME NEW j \in Decls PROVE Refers(Decl(j).name) = j
  <2> DEFINE found == CHOOSE i \in Decls : Decl(i).name = Decl(j).name /\ ~Decl(i).local
  <2>1. Decl(j).name = Decl(j).name /\ ~Decl(j).local
    BY DEF OneEach
  <2>2. found \in Decls /\ Decl(found).name = Decl(j).name
    BY <2>1
  <2>3. found = j
    BY <2>2 DEF DistinctNames
  <2> QED BY <2>1, <2>3 DEF Refers
<1>2. ASSUME NEW name, Refers(name) = 0, NEW j \in Decls PROVE Decl(j).name # name
  <2>1. 0 \notin Decls
    BY DeclTypes
  <2> QED BY <1>1, <1>2, <2>1
<1> QED BY <1>1, <1>2

(* A module of no declarations. *)
LEMMA RewriteStart ==
  RewriteInit \/ module = [decls |-> << >>, autoDiscover |-> FALSE, bag |-> FALSE] => RewriteInv
<1> SUFFICES ASSUME RewriteInit \/ module = [decls |-> << >>, autoDiscover |-> FALSE, bag |-> FALSE]
             PROVE  RewriteInv
  OBVIOUS
<1>1. module \in [decls : {<< >>}, autoDiscover : BOOLEAN, bag : BOOLEAN]
  <2> DEFINE no == FALSE
  <2>1. no \in BOOLEAN
    OBVIOUS
  <2>2. RewriteInit \/ module = [decls |-> << >>, autoDiscover |-> no, bag |-> no]
    OBVIOUS
  <2> HIDE DEF no
  <2> QED BY <2>1, <2>2 DEF RewriteInit
<1>2. RewriteTypes
  <2>1. << >> \in Seq(DeclRecords)
    OBVIOUS
  <2> HIDE DEF DeclRecords
  <2> QED BY <1>1, <2>1 DEF RewriteTypes, Modules
<1>3. Decls = {}
  BY <1>1 DEF Decls
<1> QED BY <1>2, <1>3 DEF RewriteInv, OneEach, DistinctNames, RefsResolve, NoneForward

(* What a revision that keeps the name, the form and the place of a          *)
(* declaration must be for the invariant to hold after it.                   *)
Backward(refs, k) == \A r \in refs : \A j \in Decls : Decl(j).name = r.to => j <= k

(* Such a revision keeps the invariant. *)
LEMMA RevisedInv ==
  ASSUME RewriteInv, Overlooked = {}, NEW i \in Decls, NEW d \in DeclRecords, Revise(i, d),
         d.name = Decl(i).name, d.form = Decl(i).form, d.joined = Decl(i).joined, d.local = Decl(i).local,
         d.export \in {d.name, NotExported},
         \A r \in d.refs : r.how # "catchall" /\ \E j \in Decls : Decl(j).name = r.to,
         d.delegates \/ (\E k \in Decls : Decl(k).delegates) =>
           Backward(d.refs, i) /\ \A k \in Decls : Backward(Decl(k).refs, k)
  PROVE  RewriteInv'
<1>0. RewriteTypes /\ OneEach /\ DistinctNames /\ RefsResolve /\ NoneForward
  BY DEF RewriteInv
<1> DEFINE D(k) == module'.decls[k]
<1>1. /\ RewriteTypes' /\ Decls' = Decls /\ D(i) = d
      /\ \A k \in Decls : k # i => D(k) = Decl(k)
  BY <1>0, Revised DEF Decl
<1>2. \A k \in Decls : /\ D(k).name = Decl(k).name /\ D(k).form = Decl(k).form
                       /\ D(k).joined = Decl(k).joined /\ D(k).local = Decl(k).local
  BY <1>1
<1>3. \A k \in Decls : (D(k) = d /\ k = i) \/ D(k) = Decl(k)
  BY <1>1
<1> HIDE DEF D
<1>4. \A k \in Decls : ~D(k).joined /\ ~D(k).local /\ D(k).export \in {D(k).name, NotExported}
  BY <1>0, <1>2, <1>3 DEF OneEach
<1>5. \A j, k \in Decls : D(j).name = D(k).name => j = k
  BY <1>0, <1>2 DEF DistinctNames
<1>6. \A k \in Decls : \A r \in D(k).refs :
        /\ r.how # "catchall"
        /\ \E j \in Decls : D(j).name = r.to
  BY <1>0, <1>2, <1>3 DEF RefsResolve
<1>7. \A h, k, j \in Decls : \A r \in D(k).refs : D(h).delegates /\ D(j).name = r.to => j <= k
  BY <1>2, <1>3 DEF Backward
<1>8. OneEach'
  BY <1>1, <1>4 DEF OneEach, Decl, D
<1>9. DistinctNames'
  BY <1>1, <1>5 DEF DistinctNames, Decl, D
<1>10. RefsResolve'
  BY <1>1, <1>6 DEF RefsResolve, Decl, D
<1>11. NoneForward'
  BY <1>1, <1>7 DEF NoneForward, Decl, D
<1> QED BY <1>1, <1>8, <1>9, <1>10, <1>11 DEF RewriteInv

(* Declaring a name that is not declared.                                    *)
LEMMA DeclareInv ==
  ASSUME RewriteInv, Overlooked = {}, NEW name \in Bindings, NEW form \in {"plain", "compile"},
         NEW joined \in BOOLEAN, NEW local \in BOOLEAN, Declare(name, form, joined, local)
  PROVE  RewriteInv'
<1>0. RewriteTypes /\ OneEach /\ DistinctNames /\ RefsResolve /\ NoneForward
  BY DEF RewriteInv
<1>1. joined = FALSE /\ local = FALSE /\ Refers(name) = 0
  BY DEF Declare
<1> DEFINE n == Len(module.decls) + 1
           d == Blank(name, form, joined, local)
           D(k) == module'.decls[k]
<1>2. /\ RewriteTypes' /\ Decls' = 1 .. n /\ D(n) = d
      /\ \A k \in Decls : D(k) = Decl(k)
  BY <1>0, Appended DEF Decl
<1>3. n \notin Decls /\ Decls' = Decls \cup {n}
  BY <1>0, <1>2, DeclTypes DEF Decls
<1>4. \A j \in Decls : Decl(j).name # name
  BY <1>0, <1>1, RefersTo
<1>5. /\ d.name = name /\ d.joined = FALSE /\ d.local = FALSE /\ d.export = NotExported
      /\ d.refs = {} /\ d.delegates = FALSE
  BY <1>1 DEF Blank
<1> HIDE DEF n, d, D
<1>6. \A k \in Decls' : (k \in Decls /\ D(k) = Decl(k)) \/ (k = n /\ D(k) = d)
  BY <1>2, <1>3
<1>7. \A k \in Decls' : ~D(k).joined /\ ~D(k).local /\ D(k).export \in {D(k).name, NotExported}
  BY <1>0, <1>5, <1>6 DEF OneEach
<1>8. \A j, k \in Decls' : D(j).name = D(k).name => j = k
  BY <1>0, <1>4, <1>5, <1>6 DEF DistinctNames
<1>9. \A k \in Decls' : \A r \in D(k).refs : k \in Decls /\ r \in Decl(k).refs
  BY <1>5, <1>6
<1>10. \A k \in Decls' : \A r \in D(k).refs :
        /\ r.how # "catchall"
        /\ \E j \in Decls' : D(j).name = r.to
  BY <1>0, <1>2, <1>3, <1>9 DEF RefsResolve
<1>11. \A h, k, j \in Decls' : \A r \in D(k).refs : D(h).delegates /\ D(j).name = r.to => j <= k
  <2> SUFFICES ASSUME NEW h \in Decls', NEW k \in Decls', NEW j \in Decls', NEW r \in D(k).refs,
                      D(h).delegates, D(j).name = r.to
               PROVE  j <= k
    OBVIOUS
  <2>1. h \in Decls /\ Decl(h).delegates /\ k \in Decls /\ r \in Decl(k).refs
    BY <1>5, <1>6, <1>9
  <2>2. j \in Decls /\ Decl(j).name = r.to
    <3>1. \E m \in Decls : Decl(m).name = r.to
      BY <2>1, <1>0 DEF RefsResolve
    <3> QED BY <3>1, <1>4, <1>5, <1>6
  <2> QED BY <2>1, <2>2, <1>0 DEF NoneForward
<1>12. OneEach' /\ DistinctNames'
  BY <1>7, <1>8 DEF OneEach, DistinctNames, Decl, D
<1>13. RefsResolve'
  BY <1>10 DEF RefsResolve, Decl, D
<1>14. NoneForward'
  BY <1>11 DEF NoneForward, Decl, D
<1> QED BY <1>2, <1>12, <1>13, <1>14 DEF RewriteInv

(* Where nothing is overlooked, no step disturbs the invariant.              *)
LEMMA RewriteStep == RewriteInv /\ RewriteNext => RewriteInv'
<1> SUFFICES ASSUME RewriteInv, RewriteNext PROVE RewriteInv'
  OBVIOUS
<1>0. RewriteTypes' /\ RewriteTypes
  BY RewriteStepTypes DEF RewriteInv
<1>1. CASE Overlooked # {}
  BY <1>0, <1>1 DEF RewriteInv
<1>2. CASE Overlooked = {}
  <2>0. OneEach /\ DistinctNames /\ RefsResolve /\ NoneForward
    BY <1>2 DEF RewriteInv
  <2>1. ASSUME NEW name \in Bindings, NEW form \in {"plain", "compile"}, NEW joined \in BOOLEAN,
               NEW local \in BOOLEAN, Declare(name, form, joined, local)
        PROVE  RewriteInv'
    BY <2>1, <1>2, DeclareInv
  <2>2. \A i \in Decls : /\ Decl(i).export \in {Decl(i).name, NotExported}
                         /\ \A r \in Decl(i).refs : r.how # "catchall" /\ \E j \in Decls : Decl(j).name = r.to
                         /\ Decl(i) \in DeclRecords
    BY <2>0, <1>0, DeclTypes DEF OneEach, RefsResolve
  <2>3. (\E k \in Decls : Decl(k).delegates) => \A k \in Decls : Backward(Decl(k).refs, k)
    BY <2>0 DEF NoneForward, Backward
  <2>4. ASSUME NEW i \in Decls, NEW name \in Bindings, Export(i, name) PROVE RewriteInv'
    <3> DEFINE d == [Decl(i) EXCEPT !.export = name]
    <3>1. Revise(i, d) /\ d \in DeclRecords /\ name = Decl(i).name
      BY <2>4, <1>0, <1>2, Revisions DEF Export
    <3>2. /\ d.name = Decl(i).name /\ d.form = Decl(i).form /\ d.joined = Decl(i).joined /\ d.local = Decl(i).local
          /\ d.export = name /\ d.refs = Decl(i).refs /\ d.delegates = Decl(i).delegates
      BY <2>2 DEF DeclRecords
    <3> HIDE DEF d
    <3> QED BY <3>1, <3>2, <2>2, <2>3, <1>2, RevisedInv
  <2>5. ASSUME NEW i \in Decls, NEW j \in Decls, NEW how \in Hows, Refer(i, j, how) PROVE RewriteInv'
    <3> DEFINE s == [to |-> Decl(j).name, how |-> how]
               d == [Decl(i) EXCEPT !.refs = @ \cup {s}]
    <3>1. /\ Revise(i, d) /\ d \in DeclRecords /\ how # "catchall"
          /\ j > i => \A k \in Decls : ~Decl(k).delegates
      BY <2>5, <1>0, <1>2, Revisions DEF Refer
    <3>2. /\ d.name = Decl(i).name /\ d.form = Decl(i).form /\ d.joined = Decl(i).joined /\ d.local = Decl(i).local
          /\ d.export = Decl(i).export /\ d.refs = Decl(i).refs \cup {s} /\ d.delegates = Decl(i).delegates
      BY <2>2 DEF DeclRecords
    <3>3. s.to = Decl(j).name /\ s.how = how
      OBVIOUS
    <3> HIDE DEF d, s
    <3>4. \A r \in d.refs : r.how # "catchall" /\ \E k \in Decls : Decl(k).name = r.to
      BY <3>1, <3>2, <3>3, <2>2
    <3>5. (\E k \in Decls : Decl(k).delegates) => Backward(d.refs, i)
      <4> SUFFICES ASSUME \E k \in Decls : Decl(k).delegates, NEW r \in d.refs, NEW k \in Decls, Decl(k).name = r.to
                   PROVE  k <= i
        BY DEF Backward
      <4>1. CASE r \in Decl(i).refs
        BY <4>1, <2>3 DEF Backward
      <4>2. CASE r = s
        <5>1. k = j
          BY <4>2, <3>3, <2>0 DEF DistinctNames
        <5>2. ~(j > i) /\ i \in Nat /\ j \in Nat
          BY <3>1, <1>0, DeclTypes
        <5> QED BY <5>1, <5>2
      <4> QED BY <4>1, <4>2, <3>2
    <3> QED BY <3>1, <3>2, <3>4, <3>5, <2>2, <2>3, <1>2, RevisedInv
  <2>6. ASSUME NEW i \in Decls, Delegate(i) PROVE RewriteInv'
    <3> DEFINE yes == TRUE
               d == [Decl(i) EXCEPT !.delegates = yes]
    <3>1. Revise(i, d) /\ d \in DeclRecords /\ ~Forward
      BY <2>6, <1>0, <1>2, Revisions DEF Delegate
    <3> HIDE DEF yes
    <3>2. /\ d.name = Decl(i).name /\ d.form = Decl(i).form /\ d.joined = Decl(i).joined /\ d.local = Decl(i).local
          /\ d.export = Decl(i).export /\ d.refs = Decl(i).refs
      BY <2>2 DEF DeclRecords
    <3>3. \A k \in Decls : Backward(Decl(k).refs, k)
      <4> SUFFICES ASSUME NEW k \in Decls, NEW r \in Decl(k).refs, NEW j \in Decls, Decl(j).name = r.to PROVE j <= k
        BY DEF Backward
      <4>1. Refers(r.to) = j
        BY <2>0, <1>0, RefersTo
      <4>2. ~(j > k) /\ j \in Nat /\ k \in Nat
        BY <4>1, <3>1, <1>0, DeclTypes DEF Forward
      <4> QED BY <4>2
    <3> HIDE DEF d
    <3> QED BY <3>1, <3>2, <3>3, <2>2, <1>2, RevisedInv
  <2>7. ASSUME NEW i \in Decls, Fail(i) PROVE RewriteInv'
    <3> DEFINE yes == TRUE
               d == [Decl(i) EXCEPT !.fails = yes]
    <3>1. Revise(i, d) /\ d \in DeclRecords
      BY <2>7, <1>0, Revisions DEF Fail
    <3> HIDE DEF yes
    <3>2. /\ d.name = Decl(i).name /\ d.form = Decl(i).form /\ d.joined = Decl(i).joined /\ d.local = Decl(i).local
          /\ d.export = Decl(i).export /\ d.refs = Decl(i).refs /\ d.delegates = Decl(i).delegates
      BY <2>2 DEF DeclRecords
    <3> HIDE DEF d
    <3> QED BY <3>1, <3>2, <2>2, <2>3, <1>2, RevisedInv
  <2> QED BY <2>1, <2>4, <2>5, <2>6, <2>7 DEF RewriteNext
<1> QED BY <1>1, <1>2

(* Steps of the other parts leave the module as it is. *)
LEMMA RewriteStutter == UNCHANGED module /\ RewriteInv => RewriteInv'
  BY DEF RewriteInv, RewriteTypes, OneEach, DistinctNames, RefsResolve, NoneForward, Decls, Decl

(* Where that is not overlooked either, no compile() call names its own      *)
(* binding in a getter with a part left to Zod.                              *)
NoneSelfReferring == Overlooked = {} => ~SelfReferring

LEMMA NoneSelfReferringInv ==
  /\ RewriteInit \/ module = [decls |-> << >>, autoDiscover |-> FALSE, bag |-> FALSE] => NoneSelfReferring
  /\ RewriteNext => NoneSelfReferring'
  /\ UNCHANGED module /\ NoneSelfReferring => NoneSelfReferring'
<1>1. ASSUME RewriteInit \/ module = [decls |-> << >>, autoDiscover |-> FALSE, bag |-> FALSE]
      PROVE  NoneSelfReferring
  <2>1. module.decls = << >>
    BY <1>1 DEF RewriteInit
  <2>2. Decls = {}
    BY <2>1 DEF Decls
  <2> QED BY <2>2 DEF NoneSelfReferring, SelfReferring
<1>2. RewriteNext => NoneSelfReferring'
  BY DEF RewriteNext, NoneSelfReferring
<1>3. ASSUME UNCHANGED module PROVE SelfReferring' = SelfReferring
  BY <1>3 DEF SelfReferring, RefEntries, Walks, WalksBy, Targets, Reads, Refers, Decls, Decl
<1> QED BY <1>1, <1>2, <1>3 DEF NoneSelfReferring

-----------------------------------------------------------------------------
(* What the rewrite makes of such a module *)

Clean == RewriteInv /\ Overlooked = {} /\ ~SelfReferring

(* What a schema is built from are declarations, none of them a catchall.    *)
LEMMA ReadsWhat ==
  ASSUME Clean, NEW i \in Decls
  PROVE  /\ \A hows : \A j \in Reads(i, hows) :
              /\ j \in Decls
              /\ \E r \in Decl(i).refs : r.how \in hows /\ r.to = Decl(j).name
         /\ ChildSchemas(i) = Targets(i)
<1>0. RewriteTypes /\ OneEach /\ DistinctNames /\ RefsResolve
  BY DEF Clean, RewriteInv
<1>1. ASSUME NEW hows, NEW j \in Reads(i, hows)
      PROVE  /\ j \in Decls
             /\ \E r \in Decl(i).refs : r.how \in hows /\ r.to = Decl(j).name
  <2>1. PICK r \in Decl(i).refs : r.how \in hows /\ j = Refers(r.to)
    BY DEF Reads
  <2>2. PICK k \in Decls : Decl(k).name = r.to
    BY <1>0 DEF RefsResolve
  <2>3. j = k
    BY <1>0, <2>1, <2>2, RefersTo
  <2> QED BY <2>1, <2>2, <2>3
<1>2. {r \in Decl(i).refs : r.how \in Hows \ {"catchall"}} = {r \in Decl(i).refs : r.how \in Hows}
  BY <1>0 DEF RefsResolve
<1>3. ChildSchemas(i) = Targets(i)
  BY <1>2 DEF ChildSchemas, Targets, Reads
<1> QED BY <1>1, <1>3

(* A walk is a sequence of declarations, none twice, each read by the last.  *)
LEMMA WalkIs ==
  ASSUME NEW i, NEW next, NEW w
  PROVE  w \in WalksBy(i, next) <=>
           /\ Len(w) \in Decls /\ w \in [1 .. Len(w) -> Decls] /\ w[1] = i
           /\ \A k \in 1 .. Len(w) - 1 : w[k + 1] \in next[w[k]]
           /\ \A a, b \in 1 .. Len(w) : w[a] = w[b] => a = b
<1>1. ASSUME NEW n \in Decls, w \in [1 .. n -> Decls] PROVE Len(w) = n /\ DOMAIN w = 1 .. Len(w)
  <2>1. n \in Nat
    BY DEF Decls
  <2> QED BY <2>1, <1>1
<1>2. IsInjective(w) <=> \A a, b \in DOMAIN w : w[a] = w[b] => a = b
  BY DEF IsInjective
<1>3. ASSUME w \in WalksBy(i, next)
      PROVE  /\ Len(w) \in Decls /\ w \in [1 .. Len(w) -> Decls] /\ w[1] = i
             /\ \A k \in 1 .. Len(w) - 1 : w[k + 1] \in next[w[k]]
             /\ \A a, b \in 1 .. Len(w) : w[a] = w[b] => a = b
  <2>1. PICK n \in Decls : w \in [1 .. n -> Decls]
    BY <1>3 DEF WalksBy
  <2> QED BY <1>1, <1>2, <1>3, <2>1 DEF WalksBy
<1>4. ASSUME Len(w) \in Decls, w \in [1 .. Len(w) -> Decls], w[1] = i,
             \A k \in 1 .. Len(w) - 1 : w[k + 1] \in next[w[k]],
             \A a, b \in 1 .. Len(w) : w[a] = w[b] => a = b
      PROVE  w \in WalksBy(i, next)
  <2>1. w \in UNION {[1 .. n -> Decls] : n \in Decls}
    BY <1>4
  <2>2. DOMAIN w = 1 .. Len(w)
    BY <1>4
  <2> QED BY <1>2, <1>4, <2>1, <2>2 DEF WalksBy
<1> QED BY <1>3, <1>4

(* Sharing walks as extraction does, and each walk is of declarations. *)
LEMMA WalksAre ==
  ASSUME Clean
  PROVE  /\ \A i : Walks(i) = Subtree(i)
         /\ \A i, w : w \in Walks(i) <=>
              /\ Len(w) \in Decls /\ w \in [1 .. Len(w) -> Decls] /\ w[1] = i
              /\ \A k \in 1 .. Len(w) - 1 : w[k + 1] \in Targets(w[k])
              /\ \A a, b \in 1 .. Len(w) : w[a] = w[b] => a = b
<1> DEFINE next == [j \in Decls |-> Targets(j)]
<1>1. next = [j \in Decls |-> ChildSchemas(j)]
  BY ReadsWhat
<1>2. \A i : Walks(i) = WalksBy(i, next) /\ Subtree(i) = WalksBy(i, next)
  BY <1>1 DEF Walks, Subtree
<1>3. ASSUME NEW w, Len(w) \in Decls, w \in [1 .. Len(w) -> Decls], NEW k \in 1 .. Len(w) - 1
      PROVE  next[w[k]] = Targets(w[k])
  <2>1. k \in 1 .. Len(w)
    BY <1>3 DEF Decls
  <2>2. w[k] \in Decls
    BY <1>3, <2>1
  <2> QED BY <2>2
<1> HIDE DEF next
<1> QED BY <1>2, <1>3, WalkIs

(* The part of a walk from its m-th schema on, and what it led from there    *)
(* back to, from the l-th, is a walk.                                        *)
LEMMA Turned ==
  ASSUME Clean, NEW root, NEW w \in Walks(root), NEW m \in 1 .. Len(w), NEW l \in 1 .. m,
         l < m => w[l] \in Targets(Last(w))
  PROVE  \E q \in Walks(w[m]) :
           /\ Last(q) = IF l < m THEN w[m - 1] ELSE Last(w)
           /\ \A x \in m .. Len(w) : w[x] \in Range(q)
<1> DEFINE n == Len(w)
           a == n - m + 1
           at(x) == IF x <= a THEN m + x - 1 ELSE l + x - a - 1
           len == n - l + 1
           q == [x \in 1 .. len |-> w[at(x)]]
<1>1. /\ n \in Decls /\ n \in Nat /\ w \in [1 .. n -> Decls]
      /\ \A k \in 1 .. n - 1 : w[k + 1] \in Targets(w[k])
      /\ \A x, y \in 1 .. n : w[x] = w[y] => x = y
  BY WalksAre DEF Decls
<1>2. /\ len \in 1 .. n /\ a \in 1 .. len /\ m \in 1 .. n /\ l \in 1 .. m
      /\ l <= m /\ m <= n /\ l \in Nat /\ m \in Nat
  BY <1>1
<1>3. len \in Decls
  BY <1>1, <1>2 DEF Decls
<1>4. \A x \in 1 .. len : at(x) \in 1 .. n
  BY <1>1, <1>2
<1>5. \A x, y \in 1 .. len : at(x) = at(y) => x = y
  BY <1>1, <1>2
<1>6. \A x \in 1 .. len - 1 : at(x + 1) = at(x) + 1 \/ (at(x) = n /\ at(x + 1) = l /\ l < m)
  <2> SUFFICES ASSUME NEW x \in 1 .. len - 1
               PROVE  at(x + 1) = at(x) + 1 \/ (at(x) = n /\ at(x + 1) = l /\ l < m)
    OBVIOUS
  <2> HIDE DEF n
  <2>1. CASE x < a
    BY <2>1, <1>1, <1>2
  <2>2. CASE x = a
    BY <2>2, <1>1, <1>2
  <2>3. CASE x > a
    BY <2>3, <1>1, <1>2
  <2> QED BY <2>1, <2>2, <2>3, <1>1, <1>2
<1>7. at(1) = m /\ at(len) = IF l < m THEN m - 1 ELSE n
  <2> HIDE DEF n
  <2>1. at(1) = m
    BY <1>1, <1>2
  <2>2. CASE l < m
    BY <2>2, <1>1, <1>2
  <2>3. CASE l = m
    BY <2>3, <1>1, <1>2
  <2> QED BY <2>1, <2>2, <2>3, <1>2
<1>8. \A x \in m .. n : x - m + 1 \in 1 .. len /\ at(x - m + 1) = x
  BY <1>1, <1>2
<1> HIDE DEF n, a, at, len
<1>9. q \in [1 .. len -> Decls] /\ Len(q) = len /\ \A x \in 1 .. len : q[x] = w[at(x)]
  BY <1>1, <1>2, <1>3, <1>4
<1>10. q \in Seq(Decls) /\ DOMAIN q = 1 .. len
  BY <1>9, <1>2, <1>1
<1>11. 1 \in 1 .. len /\ len \in 1 .. len
  BY <1>1, <1>2
<1> HIDE DEF q
<1>12. q[1] = w[m] /\ Last(q) = IF l < m THEN w[m - 1] ELSE Last(w)
  BY <1>7, <1>9, <1>11 DEF Last, n
<1>13. ASSUME NEW x \in 1 .. len - 1 PROVE q[x + 1] \in Targets(q[x])
  <2>1. x \in 1 .. len /\ x + 1 \in 1 .. len
    BY <1>1, <1>2
  <2>2. q[x] = w[at(x)] /\ q[x + 1] = w[at(x + 1)] /\ at(x) \in 1 .. n /\ at(x + 1) \in 1 .. n
    BY <2>1, <1>4, <1>9
  <2>3. CASE at(x + 1) = at(x) + 1
    <3>1. at(x) \in 1 .. n - 1
      BY <2>2, <2>3, <1>1
    <3> QED BY <3>1, <2>2, <2>3, <1>1
  <2>4. CASE at(x) = n /\ at(x + 1) = l /\ l < m
    BY <2>2, <2>4 DEF Last, n
  <2> QED BY <2>3, <2>4, <1>6
<1>14. \A x, y \in 1 .. len : q[x] = q[y] => x = y
  BY <1>1, <1>4, <1>5, <1>9
<1>15. q \in Walks(w[m])
  BY <1>3, <1>9, <1>12, <1>13, <1>14, WalksAre
<1>16. \A x \in m .. Len(w) : w[x] \in Range(q)
  BY <1>8, <1>9, <1>10 DEF Range, n
<1> QED BY <1>12, <1>15, <1>16

(* Nothing below a schema that is shared is left to Zod or leads back, to    *)
(* it or to what leads to it.                                                *)
LEMMA SharedReadsNothing ==
  ASSUME Clean, NEW i \in Shared
  PROVE  ExportReads(i) = {}
<1> SUFFICES ASSUME NEW root, NEW w \in Walks(root), i \in Range(w),
                    Decl(Last(w)).delegates \/ Targets(Last(w)) \cap Range(w) # {}
             PROVE  FALSE
  BY DEF ExportReads
<1>1. /\ \A q \in Walks(i) : ~Decl(Last(q)).delegates
      /\ \A q \in Walks(i) : ChildSchemas(Last(q)) \cap Range(q) = {}
  BY WalksAre DEF Shared, ContainsRecursiveRef, ReferencesExportRefs
<1>2. Len(w) \in Nat /\ Len(w) >= 1 /\ w \in [1 .. Len(w) -> Decls]
  BY WalksAre DEF Decls
<1>3. PICK m \in 1 .. Len(w) : w[m] = i
  BY <1>2 DEF Range
<1>4. m \in 1 .. m
  BY <1>2
<1>5. PICK q \in Walks(i) : Last(q) = Last(w) /\ \A x \in m .. Len(w) : w[x] \in Range(q)
  <2>1. \E q \in Walks(w[m]) : /\ Last(q) = IF m < m THEN w[m - 1] ELSE Last(w)
                               /\ \A x \in m .. Len(w) : w[x] \in Range(q)
    BY <1>2, <1>4, Turned
  <2> QED BY <2>1, <1>2, <1>3
<1>6. Last(w) \in Decls
  BY <1>2 DEF Last
<1>7. PICK l \in 1 .. Len(w) : w[l] \in Targets(Last(w))
  BY <1>1, <1>2, <1>5 DEF Range
<1>8. CASE l \in m .. Len(w)
  <2>1. w[l] \in Range(q) /\ w[l] \in ChildSchemas(Last(q))
    BY <1>5, <1>6, <1>7, <1>8, ReadsWhat
  <2> QED BY <2>1, <1>1
<1>9. CASE l < m
  <2>1. l \in 1 .. m
    BY <1>2, <1>9
  <2>2. PICK r \in Walks(w[m]) : Last(r) = w[m - 1] /\ \A x \in m .. Len(w) : w[x] \in Range(r)
    BY <1>7, <1>9, <2>1, Turned
  <2>3. m - 1 \in 1 .. Len(w) - 1 /\ (m - 1) + 1 = m /\ m \in m .. Len(w) /\ m - 1 \in 1 .. Len(w)
    BY <1>2, <1>9
  <2>4. w[m] \in Targets(w[m - 1])
    <3>1. \A k \in 1 .. Len(w) - 1 : w[k + 1] \in Targets(w[k])
      BY WalksAre
    <3> QED BY <2>3, <3>1
  <2>5. w[m - 1] \in Decls
    BY <2>3, <1>2
  <2>6. i \in ChildSchemas(Last(r)) /\ i \in Range(r) /\ r \in Walks(i)
    BY <2>2, <2>3, <2>4, <2>5, <1>3, ReadsWhat
  <2> QED BY <2>6, <1>1
<1> QED BY <1>2, <1>8, <1>9

(* Once a part is left to Zod, extraction leads only to schemas declared     *)
(* earlier.                                                                  *)
LEMMA WalksDescend ==
  ASSUME Clean, \E d \in Decls : Decl(d).delegates, NEW i, NEW w \in Walks(i), NEW k \in 1 .. Len(w)
  PROVE  w[k] <= i
<1>1. /\ Len(w) \in Nat /\ w \in [1 .. Len(w) -> Decls] /\ w[1] = i
      /\ \A x \in 1 .. Len(w) - 1 : w[x + 1] \in Targets(w[x])
      /\ Decls \subseteq Nat
  BY WalksAre DEF Decls
<1> DEFINE bad == {x \in 1 .. Len(w) : ~(w[x] <= i)}
<1>2. SUFFICES ASSUME bad # {} PROVE FALSE
  <2>1. bad = {} => k \notin bad
    OBVIOUS
  <2>2. k \notin bad => w[k] <= i
    OBVIOUS
  <2> HIDE DEF bad
  <2> QED BY <2>1, <2>2
<1>3. PICK x \in bad : \A y \in bad : x <= y
  <2>1. bad \subseteq Nat
    OBVIOUS
  <2> HIDE DEF bad
  <2> QED BY <2>1, <1>2, Least
<1>4. x \in 1 .. Len(w) /\ ~(w[x] <= i) /\ i \in Nat
  <2>1. 1 \in 1 .. Len(w)
    BY <1>1
  <2>2. i \in Nat
    <3> HIDE DEF bad
    <3> QED BY <2>1, <1>1
  <2>3. x \in 1 .. Len(w) /\ ~(w[x] <= i)
    OBVIOUS
  <2> QED BY <2>2, <2>3
<1>5. x # 1
  BY <1>1, <1>4
<1>6. x - 1 \in 1 .. Len(w) - 1 /\ (x - 1) + 1 = x /\ x - 1 \in 1 .. Len(w) /\ ~(x <= x - 1)
  BY <1>1, <1>4, <1>5
<1>7. w[x - 1] <= i
  <2>1. x - 1 \notin bad
    <3> HIDE DEF bad
    <3> QED BY <1>3, <1>6
  <2> QED BY <2>1, <1>6
<1>8. w[x] \in Targets(w[x - 1]) /\ w[x - 1] \in Decls /\ w[x] \in Decls
  BY <1>1, <1>4, <1>6
<1>9. w[x] <= w[x - 1]
  <2>1. PICK r \in Decl(w[x - 1]).refs : r.to = Decl(w[x]).name
    BY <1>8, ReadsWhat DEF Targets
  <2>2. NoneForward
    BY DEF Clean, RewriteInv
  <2> QED BY <2>1, <2>2, <1>8 DEF NoneForward
<1>10. w[x] \in Nat /\ w[x - 1] \in Nat
  BY <1>1, <1>8
<1> HIDE DEF bad
<1> QED BY <1>4, <1>7, <1>9, <1>10

(* Each edit replaces the initialiser of its own schema, which is all of its *)
(* statement.                                                                *)
LEMMA EditsOwn ==
  ASSUME Clean, NEW e \in Edits
  PROVE  /\ e.of \in Compiled /\ e.at = e.of /\ e.span = {e.at}
         /\ Decl(e.of).export = Decl(e.of).name
         /\ \/ /\ e.of \in CompilePass /\ Decl(e.of).form = "compile"
               /\ e = Edit("compile", e.of, e.of, "initialiser", {e.of})
            \/ /\ e.of \in PlainPass
               /\ e = Edit("plain", e.of, e.of, IF Follows(e.of, e.of) THEN "after" ELSE "initialiser", {e.of})
<1>0. OneEach /\ DistinctNames
  BY DEF Clean, RewriteInv
<1>1. CompilePass \subseteq Compiled /\ PlainPass \subseteq Compiled /\ Compiled \subseteq Decls
  BY DEF CompilePass, PlainPass, Compiled, Discovered
<1>2. ASSUME NEW i \in Compiled
      PROVE  /\ Decl(i).export = Decl(i).name
             /\ \A k \in AssignMatch(Decl(i).export) : k = i
             /\ \A k \in CompileMatch(Decl(i).export) : k = i /\ Decl(i).form = "compile"
  <2>1. i \in Decls /\ Decl(i).export # NotExported
    BY DEF Compiled, Discovered
  <2>2. Decl(i).export = Decl(i).name
    BY <2>1, <1>0 DEF OneEach
  <2>3. \A k \in Decls : Decl(k).name = Decl(i).export => k = i
    BY <2>1, <2>2, <1>0 DEF DistinctNames
  <2> QED BY <2>2, <2>3 DEF AssignMatch, CompileMatch, FirstOf
<1>3. ASSUME NEW k \in Decls PROVE Statement(k) = {k}
  <2>1. ASSUME NEW j \in Decls, j > k, \A x \in k + 1 .. j : Decl(x).joined PROVE FALSE
    <3>1. j \in k + 1 .. j
      BY <2>1 DEF Decls
    <3> QED BY <3>1, <2>1, <1>0 DEF OneEach
  <2> QED BY <2>1 DEF Statement
<1>4. ASSUME e \in CompileEdits(CompilePass)
      PROVE  \E i \in CompilePass : Decl(i).form = "compile" /\ e = Edit("compile", i, i, "initialiser", {i})
  <2>1. PICK i \in CompilePass : \E k \in CompileMatch(Decl(i).export) : e = Edit("compile", i, k, "initialiser", {k})
    BY <1>4 DEF CompileEdits
  <2> QED BY <2>1, <1>1, <1>2
<1>5. ASSUME e \in AutoDiscoverEdits(PlainPass)
      PROVE  \E i \in PlainPass :
               e = Edit("plain", i, i, IF Follows(i, i) THEN "after" ELSE "initialiser", {i})
  <2>1. PICK i \in PlainPass : \E k \in AssignMatch(Decl(i).export) :
               e = Edit("plain", i, k, IF Follows(i, k) THEN "after" ELSE "initialiser", Statement(k))
    BY <1>5 DEF AutoDiscoverEdits
  <2>2. i \in Decls /\ \A k \in AssignMatch(Decl(i).export) : k = i
    BY <1>1, <1>2
  <2> QED BY <2>1, <2>2, <1>3
<1>6. PICK i \in Compiled :
        \/ i \in CompilePass /\ Decl(i).form = "compile" /\ e = Edit("compile", i, i, "initialiser", {i})
        \/ i \in PlainPass /\ e = Edit("plain", i, i, IF Follows(i, i) THEN "after" ELSE "initialiser", {i})
  BY <1>1, <1>4, <1>5 DEF Edits
<1>7. e.of = i /\ e.at = i /\ e.span = {i}
  BY <1>6 DEF Edit
<1> QED BY <1>2, <1>6, <1>7

(* No declaration is given another's validator, and none is given two.       *)
LEMMA ValidatorsOwn == Clean => OwnValidator
<1> SUFFICES ASSUME Clean, NEW e \in Edits PROVE e.of = e.at /\ \A f \in Edits \ {e} : e.span \cap f.span = {}
  BY DEF OwnValidator
<1>1. e.of = e.at
  BY EditsOwn
<1>2. ASSUME NEW f \in Edits, f # e PROVE e.span \cap f.span = {}
  <2>1. e.span = {e.of} /\ f.span = {f.of}
    BY EditsOwn
  <2>2. PlainPass \cap CompilePass = {}
    BY DEF PlainPass
  <2>3. e.of # f.of
    BY <1>2, <2>2, EditsOwn
  <2> QED BY <2>1, <2>3
<1> QED BY <1>1, <1>2

(* What a validator reads has been initialised by the time it is evaluated.  *)
LEMMA Initialises == Clean => OutputInitialises
<1> SUFFICES ASSUME Clean PROVE OutputInitialises
  OBVIOUS
<1>1. \A e \in Edits : e.of = e.at /\ e.span = {e.at} /\ e.of \in Compiled
  BY EditsOwn
<1>2. Declared = Decls
  BY <1>1 DEF Declared
<1>3. ASSUME NEW e \in Edits, NEW j \in Fired(e.of) PROVE Initialised(e, j)
  <2> DEFINE i == e.of
  <2>1. PICK w \in RefEntries(i) : j \in UNION {Reads(w[k], {"getter"}) : k \in 1 .. Len(w)}
    BY DEF Fired
  <2>2. PICK k \in 1 .. Len(w) : j \in Reads(w[k], {"getter"})
    BY <2>1
  <2> HIDE DEF i
  <2>3. w \in Walks(i) /\ Decl(Last(w)).delegates
    BY <2>1 DEF RefEntries
  <2>4. Len(w) \in Nat /\ Len(w) \in Decls /\ w \in [1 .. Len(w) -> Decls] /\ Decls \subseteq Nat
    BY <2>3, WalksAre DEF Decls
  <2>5. Last(w) \in Decls /\ w[k] \in Decls
    <3>1. Len(w) \in 1 .. Len(w)
      BY <2>4
    <3> QED BY <3>1, <2>4 DEF Last
  <2>6. w[k] <= i
    BY <2>3, <2>5, WalksDescend
  <2>7. PICK r \in Decl(w[k]).refs : r.how \in {"getter"} /\ r.to = Decl(j).name
    BY <2>2, <2>5, ReadsWhat
  <2>8. j \in Decls
    BY <2>2, <2>5, ReadsWhat
  <2>9. j <= w[k]
    <3>1. NoneForward
      BY DEF Clean, RewriteInv
    <3> QED BY <3>1, <2>3, <2>5, <2>7, <2>8 DEF NoneForward
  <2>10. i \in Decls
    BY <1>1 DEF Compiled, Discovered, i
  <2>11. j <= i
    <3>1. j \in Nat /\ w[k] \in Nat /\ i \in Nat
      BY <2>4, <2>5, <2>8, <2>10
    <3> QED BY <3>1, <2>6, <2>9
  <2>12. CASE j < i
    BY <2>8, <2>12, <1>1, <1>2 DEF Initialised, i
  <2>13. CASE j = i
    <3>1. w[k] = i
      <4>1. w[k] \in Nat /\ i \in Nat
        BY <2>4, <2>5, <2>10
      <4> QED BY <4>1, <2>6, <2>9, <2>13
    <3>2. Decl(i).form # "compile"
      <4>1. i \in Reads(i, {"getter"})
        BY <2>2, <2>13, <3>1
      <4>2. RefEntries(i) # {}
        BY <2>1
      <4> QED BY <4>1, <4>2, <2>10 DEF Clean, SelfReferring
    <3>3. e = Edit("plain", i, i, IF Follows(i, i) THEN "after" ELSE "initialiser", {i})
          /\ Decl(i).export = Decl(i).name
      BY <3>2, EditsOwn DEF i
    <3>4. MentionsIdentifier(i, Decl(i).export)
      <4>1. i \in Statement(i)
        BY DEF Statement
      <4> QED BY <4>1, <3>1, <3>3, <2>7, <2>13 DEF MentionsIdentifier
    <3>5. Follows(i, i)
      BY <2>1, <3>4 DEF Follows, DerefsSchema
    <3>6. e.place = "after"
      BY <3>3, <3>5 DEF Edit
    <3> QED BY <3>6, <2>8, <2>13, <1>1, <1>2 DEF Initialised, i
  <2>14. j < i \/ j = i
    <3>1. j \in Nat /\ i \in Nat
      BY <2>4, <2>8, <2>10
    <3> QED BY <3>1, <2>11
  <2> QED BY <2>12, <2>13, <2>14
<1> QED BY <1>2, <1>3, SharedReadsNothing DEF OutputInitialises

(* In a module of any length that does nothing the rewrite overlooks: every  *)
(* binding that an inserted validator reads is initialised by then, no       *)
(* declaration is lost, and what several schemas share has nothing that only *)
(* the validator of one of them could give it.                               *)
THEOREM RewriteInitialises == Overlooked = {} => (SpecMC => []OutputInitialises)
<1> SUFFICES ASSUME Overlooked = {} PROVE SpecMC => []OutputInitialises
  OBVIOUS
<1>1. InitMC => RewriteInv /\ NoneSelfReferring
  BY RewriteStart, NoneSelfReferringInv DEF InitMC
<1>2. RewriteInv /\ NoneSelfReferring /\ [NextMC]_varsMC => (RewriteInv /\ NoneSelfReferring)'
  BY RewriteStep, RewriteStutter, NoneSelfReferringInv DEF NextMC, varsMC
<1>3. RewriteInv /\ NoneSelfReferring => OutputInitialises
  BY Initialises DEF Clean, NoneSelfReferring
<1> QED BY <1>1, <1>2, <1>3, PTL DEF SpecMC

(* In such a module every declaration that is rewritten is given the         *)
(* validator compiled from its own schema, once.                             *)
THEOREM RewriteIsOwn == Overlooked = {} => (SpecMC => []OwnValidator)
<1> SUFFICES ASSUME Overlooked = {} PROVE SpecMC => []OwnValidator
  OBVIOUS
<1>1. InitMC => RewriteInv /\ NoneSelfReferring
  BY RewriteStart, NoneSelfReferringInv DEF InitMC
<1>2. RewriteInv /\ NoneSelfReferring /\ [NextMC]_varsMC => (RewriteInv /\ NoneSelfReferring)'
  BY RewriteStep, RewriteStutter, NoneSelfReferringInv DEF NextMC, varsMC
<1>3. RewriteInv /\ NoneSelfReferring => OwnValidator
  BY ValidatorsOwn DEF Clean, NoneSelfReferring
<1> QED BY <1>1, <1>2, <1>3, PTL DEF SpecMC

-----------------------------------------------------------------------------
(* The types of all parts *)

(* The rewrite's types, as they are stated.                                  *)
LEMMA RewriteTypesHold == RewriteTypes => RewriteTypeOK
  BY DeclTypes DEF RewriteTypeOK, DeclRecords

(* The filter's, as they are stated. *)
LEMMA FilterTypesHold == FilterTypes => FilterTypeOK
<1> SUFFICES ASSUME FilterTypes PROVE FilterTypeOK
  OBVIOUS
<1>1. /\ program.statements \in Seq(RowRecords) /\ program.holds \in [Locals \cup Exported -> Values]
      /\ program.reached \subseteq Locals /\ program.shaped \subseteq 1 .. Len(program.statements)
  BY DEF FilterTypes, Programs
<1> DEFINE T == Locals \cup Exported
           V == [is : {"plain", "schema", "container"}, made : 0 .. MaxStatements]
<1>2. ASSUME NEW t \in T PROVE program.holds[t] \in V
  <2>1. program.holds[t] \in Values /\ program.holds[t].made <= MaxStatements
    <3>1. program.holds[t].made \in Nat /\ Len(program.statements) \in Nat
      BY <1>1 DEF Values
    <3>2. program.holds[t].made <= Len(program.statements) /\ Len(program.statements) <= MaxStatements
      BY DEF FilterTypes
    <3> QED BY <3>1, <3>2, <1>1, FilterAssumption
  <2>2. program.holds[t].made \in 0 .. MaxStatements
    BY <2>1, FilterAssumption DEF Values
  <2> QED BY <2>1, <2>2 DEF Values
<1>3. program.holds \in [T -> V]
  <2>1. program.holds \in [T -> Values]
    BY <1>1
  <2> HIDE DEF T, V
  <2> QED BY <2>1, <1>2
<1>4. ASSUME NEW s \in Rows
      PROVE  /\ s.form \in Forms /\ s.declares \in Locals \cup {Anonymous}
             /\ s.targets \subseteq Locals \cup Exported /\ s.kind \in ValueKinds
             /\ s.names \subseteq Locals /\ s.exports \in BOOLEAN
  <2>1. s \in RowRecords
    BY <1>1 DEF Rows
  <2> QED BY <2>1 DEF RowRecords
<1> QED BY <1>1, <1>3, <1>4 DEF FilterTypeOK

(* Steps of the other parts keep the types of the module. *)
LEMMA RewriteTypesStutter == UNCHANGED module /\ RewriteTypes => RewriteTypes'
  BY DEF RewriteTypes

(* Steps of the other parts keep the types of the program. *)
LEMMA FilterTypesStutter == UNCHANGED program /\ FilterTypes => FilterTypes'
  BY DEF FilterTypes

(* Whatever the sets of names, specifiers and files and the bounds are, and  *)
(* whatever is overlooked, the state of each part is of its type.            *)
THEOREM FileTyped == SpecMC => []FileTypeOK
<1> DEFINE Types == FilterTypes /\ RewriteTypes /\ HoistInv /\ GraphInv
<1>1. InitMC => Types
  BY FilterStart, RewriteStart, HoistStart, GraphStart DEF InitMC, FilterInv, RewriteInv, GraphInv
<1>2. Types /\ [NextMC]_varsMC => Types'
  <2> SUFFICES ASSUME Types, [NextMC]_varsMC PROVE Types'
    OBVIOUS
  <2>1. FilterTypes'
    BY FilterStepTypes, FilterTypesStutter DEF NextMC, varsMC
  <2>2. RewriteTypes'
    BY RewriteStepTypes, RewriteTypesStutter DEF NextMC, varsMC
  <2>3. HoistInv'
    BY HoistStep, HoistStutter DEF NextMC, varsMC
  <2>4. GraphInv'
    BY GraphInvStep
  <2> QED BY <2>1, <2>2, <2>3, <2>4
<1>3. Types => FileTypeOK
  BY FilterTypesHold, RewriteTypesHold, HoistTypes, GraphTypesHold DEF FileTypeOK, GraphInv
<1> HIDE DEF Types
<1> QED BY <1>1, <1>2, <1>3, PTL DEF SpecMC
=============================================================================
