--------------------------- MODULE PluginBuildProofs ---------------------------
(***************************************************************************)
(* What the plugin's caches serve is fresh, for every set of files, every  *)
(* import graph and any number of edits, calls, processes and faults.      *)
(***************************************************************************)
EXTENDS PluginBuild, TLAPS

-----------------------------------------------------------------------------
(* The inductive invariant *)

Sights  == UNION {[D -> Contents] : D \in SUBSET Files}
Results == [seen : Sights, raced : BOOLEAN, evicted : BOOLEAN]

(* The shape of what is remembered, as far as the argument needs it.          *)
FilesTyped ==
  /\ edits \in Nat /\ content \in [Files -> Contents] /\ mtime \in [Files -> Nat]
  /\ \A f \in Files : mtime[f] <= edits
  /\ unannounced \subseteq Files /\ executed \subseteq Files
  /\ parallel \in BOOLEAN

MemosTyped ==
  /\ statMemo \in [Files -> {None} \cup [mtime : Nat, hash : Contents \cup {None}]]
  /\ \A f \in Files : statMemo[f] # None => statMemo[f].mtime <= edits
  /\ DOMAIN verdictMemo \subseteq Sights

DepsetsTyped ==
  /\ DOMAIN depsets \subseteq Sights
  /\ \A id \in DOMAIN depsets : /\ depsets[id] \in [DOMAIN id -> Nat]
                                /\ \A f \in DOMAIN id : depsets[id][f] <= edits

CallRecords == [phase : {"idle", "running"}, entry : Entries \cup {None},
                code : Contents \cup {None}, at : Loaders, seen : Sights,
                raced : BOOLEAN, evicted : BOOLEAN]
CallsTyped ==
  /\ loaded \in [Loaders -> Sights]
  /\ call \in [Calls -> CallRecords]
  /\ \A c \in Running : call[c].entry \in Entries /\ call[c].code \in Contents

StoresTyped ==
  /\ DOMAIN cache = Entries
  /\ \A e \in Entries : cache[e] # None => cache[e].result \in Results
  /\ pending \subseteq [key : Keys, result : Results]
  /\ DOMAIN entries \subseteq Keys
  /\ \A k \in DOMAIN entries : entries[k] \in [result : Results, depset : Sights]

Typed == FilesTyped /\ MemosTyped /\ DepsetsTyped /\ CallsTyped /\ StoresTyped

(* A remembered stat is the file's own unless its change is unannounced, and  *)
(* a hash remembered with the file's present mtime is of its present content. *)
StatsAreTrue ==
  \A f \in Files : statMemo[f] # None =>
    /\ f \notin unannounced => statMemo[f].mtime = mtime[f]
    /\ statMemo[f].mtime = mtime[f] => statMemo[f].hash \in {None, content[f]}

VerdictsAreTrue ==
  \A id \in DOMAIN verdictMemo :
    verdictMemo[id] => \A f \in DOMAIN id \ unannounced : id[f] = content[f]

MemoInv == StatsAreTrue /\ VerdictsAreTrue /\ FastPathIsSound

(* The loaders hold files as they are, and a call sees them so unless it says *)
(* otherwise, by modules its loader still has unless it says otherwise.       *)
LoadedIsCurrent ==
  \A l \in Loaders : \A f \in DOMAIN loaded[l] \ unannounced : loaded[l][f] = content[f]

CallSees(c) ==
  /\ DOMAIN call[c].seen \subseteq Reads[call[c].entry]
  /\ call[c].at = "pool" => parallel
  /\ ~call[c].raced => /\ unannounced \cap Reads[call[c].entry] = {}
                       /\ \A f \in DOMAIN call[c].seen : call[c].seen[f] = content[f]
  /\ ~call[c].evicted => DOMAIN call[c].seen \subseteq DOMAIN loaded[call[c].at]

CallInv == LoadedIsCurrent /\ \A c \in Running : CallSees(c)

(* A result of an entry is what its files say, once their changes have been   *)
(* announced.                                                                 *)
SeesNow(r, e) ==
  unannounced \cap Reads[e] = {} => \A f \in Reads[e] : f \in DOMAIN r.seen /\ r.seen[f] = content[f]

CacheInv == \A e \in Entries : cache[e] # None /\ Sound(cache[e].result) => SeesNow(cache[e].result, e)

(* What is deferred is covered by the set it will be written with.            *)
PendingInv ==
  \A p \in pending :
    /\ ~p.result.raced => SeesNow(p.result, p.key[1])
    /\ ~p.result.evicted => Reads[p.key[1]] \subseteq ExecutedModuleSuperset

(* An entry on disk is paired with the hashes of what its result was made of. *)
Paired(k, x) ==
  Sound(x.result) => \A f \in Reads[k[1]] : /\ f \in DOMAIN x.depset /\ f \in DOMAIN x.result.seen
                                            /\ x.depset[f] = x.result.seen[f]
EntryInv == \A k \in DOMAIN entries : Paired(k, entries[k])

BuildInv == Typed /\ MemoInv /\ CallInv /\ CacheInv /\ PendingInv /\ EntryInv

LEMMA InvImplies ==
  ASSUME BuildInv
  PROVE  MemoryIsFresh /\ HashesMatchResult /\ DepsetCovers /\ MemosAreCurrent /\ FastPathIsSound
<1>1. MemoryIsFresh
  BY DEF BuildInv, CacheInv, SeesNow, MemoryIsFresh
<1>2. HashesMatchResult
  BY DEF BuildInv, EntryInv, Paired, HashesMatchResult
<1>3. DepsetCovers
  BY DEF BuildInv, EntryInv, Paired, DepsetCovers
<1>4. MemosAreCurrent
  BY DEF BuildInv, MemoInv, StatsAreTrue, VerdictsAreTrue, MemosAreCurrent
<1> QED
  BY <1>1, <1>2, <1>3, <1>4 DEF BuildInv, MemoInv

-----------------------------------------------------------------------------
(* Sights *)

LEMMA EmptySight == << >> \in Sights /\ DOMAIN << >> = {}
<1>1. << >> = [f \in {} |-> None]
  OBVIOUS
<1> QED
  BY <1>1 DEF Sights

LEMMA SightIs ==
  ASSUME NEW s \in Sights
  PROVE  DOMAIN s \subseteq Files /\ \A f \in DOMAIN s : s[f] \in Contents
BY DEF Sights

LEMMA SightGrows ==
  ASSUME NEW s \in Sights, NEW f \in Files, NEW c \in Contents
  PROVE  Over(s, Just(f, c)) \in Sights
<1> DEFINE t == Over(s, Just(f, c))
<1>1. DOMAIN t = DOMAIN s \cup {f} /\ \A g \in DOMAIN t : t[g] = IF g \in DOMAIN s THEN s[g] ELSE c
  BY DEF Over, Just
<1>2. t \in [DOMAIN t -> Contents]
  BY <1>1, SightIs DEF Over
<1> QED
  BY <1>1, <1>2, SightIs DEF Sights

-----------------------------------------------------------------------------
(* The memos *)

(* A hash that is taken now is of the content of now, except perhaps where a  *)
(* stat was remembered and the file has changed since.                        *)
LEMMA HashIsContent ==
  ASSUME Typed, StatsAreTrue, NEW f \in Files
  PROVE  /\ StatOf(f) \in [mtime : Nat, hash : Contents \cup {None}]
         /\ StatOf(f).mtime <= edits
         /\ HashOf(f) \in Contents
         /\ f \notin unannounced => StatOf(f).mtime = mtime[f]
         /\ StatOf(f).mtime = mtime[f] => HashOf(f) = content[f]
<1>1. CASE statMemo[f] = None
  BY <1>1 DEF Typed, FilesTyped, StatOf, HashOf
<1>2. CASE statMemo[f] # None
  <2>1. statMemo[f] \in [mtime : Nat, hash : Contents \cup {None}]
    BY <1>2 DEF Typed, MemosTyped
  <2> QED
    BY <1>2, <2>1 DEF Typed, FilesTyped, MemosTyped, StatsAreTrue, StatOf, HashOf
<1> QED
  BY <1>1, <1>2

(* Examining or remembering files leaves their stats, with or without hash.   *)
LEMMA StatsStayTrue ==
  ASSUME Typed, StatsAreTrue,
         statMemo' = [f \in Files |-> statMemo'[f]],
         \A f \in Files : statMemo'[f] \in {statMemo[f], StatOf(f), Hashed(f)},
         UNCHANGED <<content, mtime, edits, unannounced>>
  PROVE  /\ StatsAreTrue'
         /\ statMemo' \in [Files -> {None} \cup [mtime : Nat, hash : Contents \cup {None}]]
         /\ \A f \in Files : statMemo'[f] # None => statMemo'[f].mtime <= edits
<1>1. \A f \in Files : statMemo'[f] \in {None} \cup [mtime : Nat, hash : Contents \cup {None}]
  BY HashIsContent DEF Hashed, Typed, MemosTyped
<1>2. \A f \in Files : statMemo'[f] # None => statMemo'[f].mtime <= edits
  BY HashIsContent DEF Hashed, Typed, MemosTyped
<1>3. ASSUME NEW f \in Files, statMemo'[f] # None
      PROVE  /\ f \notin unannounced => statMemo'[f].mtime = mtime[f]
             /\ statMemo'[f].mtime = mtime[f] => statMemo'[f].hash \in {None, content[f]}
  <2>1. CASE statMemo'[f] = statMemo[f]
    BY <1>3, <2>1 DEF StatsAreTrue
  <2>2. CASE statMemo'[f] = Hashed(f)
    BY <2>2, HashIsContent DEF Hashed
  <2>3. CASE statMemo'[f] = StatOf(f) /\ statMemo[f] = None
    BY <2>3 DEF StatOf
  <2>4. CASE statMemo'[f] = StatOf(f) /\ statMemo[f] # None
    BY <1>3, <2>1, <2>4 DEF StatOf
  <2> QED
    BY <2>1, <2>2, <2>3, <2>4
<1> QED
  BY <1>1, <1>2, <1>3 DEF StatsAreTrue

LEMMA ExamineKeeps ==
  ASSUME Typed, StatsAreTrue, NEW id, NEW D, Examine(D, id), UNCHANGED files
  PROVE  /\ StatsAreTrue'
         /\ statMemo' \in [Files -> {None} \cup [mtime : Nat, hash : Contents \cup {None}]]
         /\ \A f \in Files : statMemo'[f] # None => statMemo'[f].mtime <= edits
<1>1. statMemo' = [f \in Files |-> statMemo'[f]]
  BY DEF Examine
<1>2. \A f \in Files : statMemo'[f] \in {statMemo[f], StatOf(f), Hashed(f)}
  BY DEF Examine
<1> QED
  BY <1>1, <1>2, StatsStayTrue DEF files

LEMMA RememberKeeps ==
  ASSUME Typed, MemoInv, NEW D, Remember(D), UNCHANGED files
  PROVE  MemosTyped' /\ StatsAreTrue' /\ VerdictsAreTrue'
<1>1. statMemo' = [f \in Files |-> statMemo'[f]]
  BY DEF Remember
<1>2. \A f \in Files : statMemo'[f] \in {statMemo[f], StatOf(f), Hashed(f)}
  BY DEF Remember
<1>3. /\ StatsAreTrue'
      /\ statMemo' \in [Files -> {None} \cup [mtime : Nat, hash : Contents \cup {None}]]
      /\ \A f \in Files : statMemo'[f] # None => statMemo'[f].mtime <= edits
  BY <1>1, <1>2, StatsStayTrue DEF MemoInv, files
<1> QED
  BY <1>3 DEF Remember, MemoInv, Typed, MemosTyped, VerdictsAreTrue, files

(* A set that validates is of the contents there are, except where a change   *)
(* is unannounced.                                                            *)
LEMMA ValidateKeeps ==
  ASSUME Typed, MemoInv, NEW id \in Sights, NEW ok \in BOOLEAN, Validate(id, ok),
         UNCHANGED files
  PROVE  /\ MemosTyped' /\ StatsAreTrue' /\ VerdictsAreTrue'
         /\ ok => \A f \in DOMAIN id \ unannounced : id[f] = content[f]
<1>1. CASE id \in DOMAIN verdictMemo
  BY <1>1 DEF Validate, memos, files, Typed, MemosTyped, MemoInv, StatsAreTrue, VerdictsAreTrue
<1>2. CASE id \notin DOMAIN verdictMemo
  <2>1. /\ ok = Matches(id)
        /\ verdictMemo' = Over(Just(id, ok), verdictMemo)
        /\ \/ statMemo' = statMemo
           \/ \E D \in SUBSET DOMAIN id : Examine(D, id)
    BY <1>2 DEF Validate
  <2>2. /\ StatsAreTrue'
        /\ statMemo' \in [Files -> {None} \cup [mtime : Nat, hash : Contents \cup {None}]]
        /\ \A f \in Files : statMemo'[f] # None => statMemo'[f].mtime <= edits
    <3>1. CASE statMemo' = statMemo
      BY <3>1 DEF Typed, MemosTyped, MemoInv, StatsAreTrue, files
    <3> QED
      BY <2>1, <3>1, ExamineKeeps DEF MemoInv
  <2>3. ASSUME ok, NEW f \in DOMAIN id \ unannounced
        PROVE  id[f] = content[f]
    <3>1. id \in DOMAIN depsets /\ (SameMtime(f, id) \/ HashOf(f) = id[f])
      BY <2>1, <2>3 DEF Matches, DepMatches
    <3>2. f \in Files /\ StatOf(f).mtime = mtime[f] /\ HashOf(f) = content[f]
      BY <2>3, SightIs, HashIsContent DEF MemoInv
    <3> QED
      BY <2>3, <3>1, <3>2 DEF SameMtime, MemoInv, FastPathIsSound
  <2>4. /\ DOMAIN verdictMemo' = DOMAIN verdictMemo \cup {id}
        /\ \A x \in DOMAIN verdictMemo' : verdictMemo'[x] = IF x = id THEN ok ELSE verdictMemo[x]
    BY <2>1 DEF Over, Just
  <2>5. VerdictsAreTrue'
    BY <2>3, <2>4 DEF MemoInv, VerdictsAreTrue, files
  <2> QED
    BY <2>2, <2>3, <2>4, <2>5 DEF MemosTyped, Typed, files
<1> QED
  BY <1>1, <1>2

(* A set that is written pairs a file's present mtime with its content only.  *)
LEMMA WriteKeeps ==
  ASSUME Typed, MemoInv, NEW D \in SUBSET Files, WriteDepset(D),
         UNCHANGED <<content, mtime, edits>>
  PROVE  DepsetsTyped' /\ FastPathIsSound'
<1> DEFINE new == DepsetId(D)
<1>1. new \in Sights /\ DOMAIN new = D
  <2>1. new \in [D -> Contents]
    BY HashIsContent DEF DepsetId, MemoInv
  <2> QED
    BY <2>1 DEF Sights
<1>2. /\ DOMAIN depsets' = DOMAIN depsets \cup {new}
      /\ \A id \in DOMAIN depsets : depsets'[id] = depsets[id]
      /\ new \notin DOMAIN depsets => depsets'[new] = [f \in D |-> StatOf(f).mtime]
  BY DEF WriteDepset, Over, Just
<1>3. DepsetsTyped'
  <2>1. \A id \in DOMAIN depsets : /\ depsets'[id] \in [DOMAIN id -> Nat]
                                   /\ \A f \in DOMAIN id : depsets'[id][f] <= edits
    BY <1>2 DEF Typed, DepsetsTyped
  <2>2. ASSUME new \notin DOMAIN depsets
        PROVE  /\ depsets'[new] \in [DOMAIN new -> Nat]
               /\ \A f \in DOMAIN new : depsets'[new][f] <= edits
    BY <1>1, <1>2, <2>2, HashIsContent DEF MemoInv
  <2> QED
    BY <1>1, <1>2, <2>1, <2>2 DEF Typed, DepsetsTyped
<1>4. FastPathIsSound'
  <2>1. ASSUME new \notin DOMAIN depsets, NEW f \in D, depsets'[new][f] = mtime[f]
        PROVE  new[f] = content[f]
    BY <1>2, <2>1, HashIsContent DEF MemoInv, DepsetId
  <2> QED
    BY <1>1, <1>2, <2>1 DEF MemoInv, FastPathIsSound
<1> QED
  BY <1>3, <1>4

(* What is written with a result is what the result was made of.              *)
LEMMA EntryIsPaired ==
  ASSUME Typed, MemoInv, NEW e \in Entries, NEW c \in Contents, NEW r \in Results, NEW D \in SUBSET Files,
         Sound(r) => Reads[e] \subseteq D /\ unannounced \cap Reads[e] = {},
         Sound(r) => \A f \in Reads[e] : f \in DOMAIN r.seen /\ r.seen[f] = content[f]
  PROVE  Paired(<<e, c>>, Entry(r, D)) /\ Entry(r, D) \in [result : Results, depset : Sights]
<1>1. DepsetId(D) \in [D -> Contents]
  BY HashIsContent DEF DepsetId, MemoInv
<1>2. \A f \in D \ unannounced : DepsetId(D)[f] = content[f]
  BY HashIsContent DEF DepsetId, MemoInv
<1>3. Paired(<<e, c>>, Entry(r, D))
  BY <1>1, <1>2 DEF Paired, Entry
<1> QED
  BY <1>1, <1>3 DEF Entry, Sights

-----------------------------------------------------------------------------
(* Frames *)

LEMMA MemosFrame ==
  ASSUME Typed, MemoInv, UNCHANGED <<files, memos, depsets>>
  PROVE  MemosTyped' /\ DepsetsTyped' /\ MemoInv'
BY DEF Typed, MemosTyped, DepsetsTyped, MemoInv, StatsAreTrue, VerdictsAreTrue, FastPathIsSound,
       files, memos

LEMMA EntriesFrame ==
  ASSUME BuildInv, UNCHANGED entries
  PROVE  /\ EntryInv' /\ DOMAIN entries' \subseteq Keys
         /\ \A k \in DOMAIN entries' : entries'[k] \in [result : Results, depset : Sights]
BY DEF BuildInv, Typed, StoresTyped, EntryInv

LEMMA CacheFrame ==
  ASSUME BuildInv, UNCHANGED <<files, cache>>
  PROVE  CacheInv'
BY DEF BuildInv, CacheInv, SeesNow, files

(* A call under way, field by field. *)
LEMMA CallIs ==
  ASSUME Typed, NEW c \in Calls
  PROVE  /\ DOMAIN call[c] = {"phase", "entry", "code", "at", "seen", "raced", "evicted"}
         /\ call[c].at \in Loaders /\ call[c].seen \in Sights
         /\ call[c].raced \in BOOLEAN /\ call[c].evicted \in BOOLEAN
         /\ c \in Running => call[c].entry \in Entries /\ call[c].code \in Contents
BY DEF Typed, CallsTyped, CallRecords

-----------------------------------------------------------------------------
(* The user and the watcher *)

LEMMA EditKeeps ==
  ASSUME BuildInv, NEW f \in Files, NEW c \in Contents, Edit(f, c), UNCHANGED parallel
  PROVE  BuildInv'
<1> USE DEF BuildInv
<1>1. /\ edits' = edits + 1 /\ edits \in Nat
      /\ content' = [content EXCEPT ![f] = c] /\ mtime' = [mtime EXCEPT ![f] = edits + 1]
      /\ unannounced' = unannounced \cup {f}
      /\ call' = [i \in Calls |-> IF i \in Running THEN Taint(i, f) ELSE call[i]]
      /\ UNCHANGED <<cache, loaded, executed, statMemo, verdictMemo, pending, entries, depsets>>
  BY DEF Edit, Typed, FilesTyped, memos, disk
<1>2. FilesTyped'
  BY <1>1 DEF Typed, FilesTyped
<1>3. MemosTyped' /\ DepsetsTyped' /\ StoresTyped'
  BY <1>1 DEF Typed, MemosTyped, DepsetsTyped, StoresTyped
<1>4. ASSUME NEW i \in Calls
      PROVE  /\ call'[i] \in CallRecords
             /\ call'[i].phase = call[i].phase /\ call'[i].entry = call[i].entry
             /\ call'[i].code = call[i].code /\ call'[i].at = call[i].at
             /\ call'[i].seen = call[i].seen /\ call'[i].evicted = call[i].evicted
             /\ i \in Running /\ ~call'[i].raced => ~call[i].raced /\ f \notin Reads[call[i].entry]
  BY <1>1 DEF Typed, CallsTyped, CallRecords, Taint
<1>5. Running' = Running
  BY <1>4 DEF Running
<1>6. CallsTyped'
  BY <1>1, <1>4, <1>5 DEF Typed, CallsTyped, Running
<1>7. \A g \in Files \ unannounced' : g # f /\ g \notin unannounced /\ content'[g] = content[g]
                                        /\ mtime'[g] = mtime[g]
  BY <1>1 DEF Typed, FilesTyped
<1>8. MemoInv'
  <2>1. StatsAreTrue'
    <3>1. mtime'[f] = edits + 1 /\ \A g \in Files \ {f} : mtime'[g] = mtime[g] /\ content'[g] = content[g]
      BY <1>1 DEF Typed, FilesTyped
    <3>2. statMemo[f] # None => statMemo[f].mtime \in Nat /\ statMemo[f].mtime <= edits
      BY DEF Typed, MemosTyped
    <3> QED
      BY <1>1, <3>1, <3>2 DEF MemoInv, StatsAreTrue
  <2>2. VerdictsAreTrue'
    BY <1>1, <1>7, SightIs DEF MemoInv, VerdictsAreTrue, Typed, MemosTyped
  <2>3. FastPathIsSound'
    <3> SUFFICES ASSUME NEW id \in DOMAIN depsets, NEW g \in DOMAIN id, depsets[id][g] = mtime'[g]
                 PROVE  id[g] = content'[g]
      BY <1>1 DEF FastPathIsSound
    <3>1. g \in Files /\ depsets[id][g] \in Nat /\ depsets[id][g] <= edits
      BY SightIs DEF Typed, DepsetsTyped
    <3>2. g # f
      BY <1>1, <3>1 DEF Typed, FilesTyped
    <3> QED
      BY <1>1, <3>1, <3>2 DEF MemoInv, FastPathIsSound, Typed, FilesTyped
  <2> QED
    BY <2>1, <2>2, <2>3 DEF MemoInv
<1>9. CallInv'
  <2>1. LoadedIsCurrent'
    BY <1>1, <1>7, SightIs DEF CallInv, LoadedIsCurrent, Typed, CallsTyped
  <2>2. ASSUME NEW i \in Running
        PROVE  CallSees(i)'
    <3>1. CallSees(i) /\ i \in Calls /\ Reads[call[i].entry] \subseteq Files
      BY CallIs, ReadsAssumption DEF CallInv, Running
    <3>2. ~call'[i].raced => /\ unannounced' \cap Reads[call[i].entry] = {}
                             /\ \A g \in DOMAIN call[i].seen : call[i].seen[g] = content'[g]
      BY <1>1, <1>4, <1>7, <3>1 DEF CallSees
    <3> QED
      BY <1>1, <1>4, <3>1, <3>2 DEF CallSees
  <2> QED
    BY <1>5, <2>1, <2>2 DEF CallInv
<1>10. \A r, e : e \in Entries /\ SeesNow(r, e) => SeesNow(r, e)'
  BY <1>1, <1>7, ReadsAssumption DEF SeesNow
<1>11. CacheInv'
  BY <1>1, <1>10 DEF CacheInv
<1>12. PendingInv'
  <2>1. ExecutedModuleSuperset' = ExecutedModuleSuperset
    BY <1>1 DEF ExecutedModuleSuperset
  <2> QED
    BY <1>1, <1>10, <2>1 DEF PendingInv, Typed, StoresTyped, Keys
<1> QED
  BY <1>1, <1>2, <1>3, <1>6, <1>8, <1>9, <1>11, <1>12, EntriesFrame DEF Typed

LEMMA WatchChangeKeeps ==
  ASSUME BuildInv, NEW f \in Files, WatchChange(f), UNCHANGED parallel
  PROVE  BuildInv'
<1> USE DEF BuildInv
<1>1. /\ unannounced' \subseteq unannounced /\ executed' = {} /\ pending' = {}
      /\ loaded' = [l \in Loaders |-> << >>]
      /\ statMemo' = [g \in Files |-> None] /\ verdictMemo' = << >>
      /\ cache' = [e \in Entries |-> None]
      /\ call' = [i \in Calls |-> Evicted(i, Loaders)]
      /\ UNCHANGED <<content, mtime, edits, entries, depsets>>
  BY DEF WatchChange, InvalidatePool, InvalidateModuleCache, ResetDepValidationMemo, DropDeferred, disk,
         Typed, CallsTyped, Loaders
<1>2. FilesTyped' /\ DepsetsTyped'
  BY <1>1 DEF Typed, FilesTyped, DepsetsTyped
<1>3. MemosTyped' /\ StoresTyped'
  BY <1>1, EmptySight DEF Typed, MemosTyped, StoresTyped
<1>4. MemoInv'
  BY <1>1, EmptySight DEF MemoInv, StatsAreTrue, VerdictsAreTrue, FastPathIsSound
<1>5. ASSUME NEW i \in Calls
      PROVE  /\ call'[i] \in CallRecords
             /\ call'[i].phase = call[i].phase /\ call'[i].entry = call[i].entry
             /\ call'[i].code = call[i].code /\ call'[i].at = call[i].at
             /\ call'[i].seen = call[i].seen /\ call'[i].raced = call[i].raced
             /\ ~call'[i].evicted => call[i].seen = << >>
  BY <1>1 DEF Typed, CallsTyped, CallRecords, Evicted
<1>6. Running' = Running
  BY <1>5 DEF Running
<1>7. CallsTyped'
  BY <1>1, <1>5, <1>6, EmptySight DEF Typed, CallsTyped, Running
<1>8. CallInv'
  <2>1. LoadedIsCurrent'
    BY <1>1, EmptySight DEF LoadedIsCurrent
  <2>2. ASSUME NEW i \in Running
        PROVE  CallSees(i)'
    <3>1. CallSees(i) /\ i \in Calls
      BY DEF CallInv, Running
    <3>2. ~call'[i].evicted => DOMAIN call'[i].seen = {}
      BY <1>5, <3>1, EmptySight
    <3> QED
      BY <1>1, <1>5, <3>1, <3>2 DEF CallSees
  <2> QED
    BY <1>6, <2>1, <2>2 DEF CallInv
<1>9. CacheInv' /\ PendingInv'
  BY <1>1 DEF CacheInv, PendingInv
<1> QED
  BY <1>1, <1>2, <1>3, <1>4, <1>7, <1>8, <1>9, EntriesFrame DEF Typed

-----------------------------------------------------------------------------
(* During a transform *)

(* What a call does to the loaders and to itself leaves the rest as it was.   *)
LEMMA RestFrame ==
  ASSUME BuildInv, UNCHANGED <<files, cache, executed, memos, pending, entries, depsets, parallel>>,
         \A f \in DOMAIN loaded["local"] : f \in DOMAIN loaded'["local"]
  PROVE  /\ FilesTyped' /\ MemosTyped' /\ DepsetsTyped' /\ StoresTyped'
         /\ MemoInv' /\ CacheInv' /\ PendingInv' /\ EntryInv'
<1> USE DEF BuildInv
<1>1. FilesTyped' /\ StoresTyped'
  BY DEF Typed, FilesTyped, StoresTyped, files
<1>2. PendingInv'
  <2>1. ExecutedModuleSuperset \subseteq ExecutedModuleSuperset'
    BY DEF ExecutedModuleSuperset
  <2> QED
    BY <2>1 DEF PendingInv, SeesNow, files
<1> QED
  BY <1>1, <1>2, MemosFrame, CacheFrame, EntriesFrame DEF Typed

LEMMA ExecuteKeeps ==
  ASSUME BuildInv, NEW c \in Calls, NEW f \in Files, Execute(c, f), UNCHANGED parallel
  PROVE  BuildInv'
<1> USE DEF BuildInv
<1> DEFINE l    == call[c].at
           sees == IF f \in DOMAIN loaded[l] THEN loaded[l][f] ELSE content[f]
<1>1. /\ c \in Running /\ f \in Reads[call[c].entry]
      /\ loaded' = [loaded EXCEPT ![l] = Over(@, Just(f, sees))]
      /\ call' = [call EXCEPT ![c].seen = Over(@, Just(f, sees))]
      /\ UNCHANGED <<files, cache, executed, memos, pending, entries, depsets>>
  BY DEF Execute, disk
<1>2. /\ loaded \in [Loaders -> Sights] /\ l \in Loaders /\ loaded[l] \in Sights /\ call[c].seen \in Sights
  BY CallIs DEF Typed, CallsTyped
<1>3. sees \in Contents /\ (f \notin unannounced => sees = content[f])
  <2>1. content[f] \in Contents
    BY DEF Typed, FilesTyped
  <2> QED
    BY <1>2, <2>1, SightIs DEF CallInv, LoadedIsCurrent
<1> HIDE DEF sees
<1>4. Over(loaded[l], Just(f, sees)) \in Sights /\ Over(call[c].seen, Just(f, sees)) \in Sights
  BY <1>2, <1>3, SightGrows
<1>5. \A s : /\ DOMAIN Over(s, Just(f, sees)) = DOMAIN s \cup {f}
             /\ \A g \in DOMAIN s : Over(s, Just(f, sees))[g] = s[g]
             /\ f \notin DOMAIN s => Over(s, Just(f, sees))[f] = sees
  BY DEF Over, Just
<1>6. /\ loaded' \in [Loaders -> Sights]
      /\ loaded'[l] = Over(loaded[l], Just(f, sees))
      /\ \A k \in Loaders \ {l} : loaded'[k] = loaded[k]
  BY <1>1, <1>2, <1>4
<1>7. ASSUME NEW i \in Calls
      PROVE  /\ call'[i] \in CallRecords
             /\ call'[i].phase = call[i].phase /\ call'[i].entry = call[i].entry
             /\ call'[i].code = call[i].code /\ call'[i].at = call[i].at
             /\ call'[i].raced = call[i].raced /\ call'[i].evicted = call[i].evicted
             /\ call'[i].seen = IF i = c THEN Over(call[c].seen, Just(f, sees)) ELSE call[i].seen
  BY <1>1, <1>4 DEF Typed, CallsTyped, CallRecords
<1>8. Running' = Running
  BY <1>7 DEF Running
<1>9. CallsTyped'
  BY <1>1, <1>6, <1>7, <1>8 DEF Typed, CallsTyped, Running
<1>10. LoadedIsCurrent'
  <2> SUFFICES ASSUME NEW k \in Loaders, NEW g \in DOMAIN loaded'[k] \ unannounced
               PROVE  loaded'[k][g] = content[g]
    BY <1>1 DEF LoadedIsCurrent, files
  <2>1. CASE k # l
    BY <1>6, <2>1 DEF CallInv, LoadedIsCurrent
  <2>2. CASE k = l /\ g \in DOMAIN loaded[l]
    BY <1>2, <1>5, <1>6, <2>2 DEF CallInv, LoadedIsCurrent
  <2>3. CASE k = l /\ g \notin DOMAIN loaded[l]
    <3>1. loaded'[k] = Over(loaded[l], Just(f, sees))
      BY <1>6, <2>3
    <3>2. g \in DOMAIN loaded[l] \cup {f}
      BY <1>5, <3>1
    <3>3. g = f /\ f \notin unannounced
      BY <2>3, <3>2
    <3>4. Over(loaded[l], Just(f, sees))[f] = sees
      BY <1>5, <2>3, <3>3
    <3> QED
      BY <1>3, <3>1, <3>3, <3>4
  <2> QED
    BY <2>1, <2>2, <2>3
<1>11. ASSUME NEW i \in Running
       PROVE  CallSees(i)'
  <2>1. CallSees(i) /\ i \in Calls /\ call[i].at \in Loaders
    BY CallIs DEF CallInv, Running
  <2>2. DOMAIN loaded[call[i].at] \subseteq DOMAIN loaded'[call[i].at]
    BY <1>5, <1>6, <2>1
  <2>3. CASE i # c
    BY <1>1, <1>7, <2>1, <2>2, <2>3 DEF CallSees, files
  <2>4. CASE i = c
    <3>1. ~call[c].raced => f \notin unannounced
      BY <1>1, <2>1, <2>4 DEF CallSees
    <3> DEFINE seen == call[c].seen
               new  == Over(seen, Just(f, sees))
    <3>2. call'[c].seen = new /\ DOMAIN new = DOMAIN seen \cup {f}
      BY <1>5, <1>7
    <3>3. ASSUME ~call[c].raced, NEW g \in DOMAIN new
          PROVE  new[g] = content[g]
      <4>1. CASE g \in DOMAIN seen
        <5>1. new[g] = seen[g]
          BY <1>5, <4>1
        <5> QED
          BY <2>1, <2>4, <3>3, <4>1, <5>1 DEF CallSees
      <4>2. CASE g \notin DOMAIN seen
        <5>1. g = f
          BY <3>2, <3>3, <4>2
        <5>2. new[f] = sees
          BY <1>5, <4>2, <5>1
        <5> QED
          BY <1>3, <3>1, <3>3, <5>1, <5>2
      <4> QED
        BY <4>1, <4>2
    <3>4. ~call[c].evicted => DOMAIN new \subseteq DOMAIN loaded'[l]
      <4>1. DOMAIN loaded'[l] = DOMAIN loaded[l] \cup {f}
        BY <1>5, <1>6
      <4>2. ~call[c].evicted => DOMAIN seen \subseteq DOMAIN loaded[l]
        BY <2>1, <2>4 DEF CallSees
      <4> QED
        BY <3>2, <4>1, <4>2
    <3>5. DOMAIN seen \subseteq Reads[call[c].entry] /\ (call[c].at = "pool" => parallel)
          /\ (~call[c].raced => unannounced \cap Reads[call[c].entry] = {})
      BY <2>1, <2>4 DEF CallSees
    <3>6. UNCHANGED <<content, unannounced>>
      BY <1>1 DEF files
    <3> HIDE DEF new
    <3> QED
      BY <1>1, <1>7, <2>4, <3>2, <3>3, <3>4, <3>5, <3>6 DEF CallSees
  <2> QED
    BY <2>3, <2>4
<1>12. CallInv'
  BY <1>8, <1>10, <1>11 DEF CallInv
<1>13. \A g \in DOMAIN loaded["local"] : g \in DOMAIN loaded'["local"]
  BY <1>5, <1>6 DEF Loaders
<1> QED
  BY <1>1, <1>9, <1>12, <1>13, RestFrame DEF Typed

LEMMA FallbackKeeps ==
  ASSUME BuildInv, NEW c \in Calls, Fallback(c), UNCHANGED parallel
  PROVE  BuildInv'
<1> USE DEF BuildInv
<1>1. /\ c \in Running /\ call[c].at = "pool" /\ HasLoader(c)
      /\ call' = [call EXCEPT ![c].at = "local", ![c].seen = << >>, ![c].evicted = FALSE]
      /\ loaded' = [loaded EXCEPT !["pool"] = << >>]
      /\ UNCHANGED <<files, cache, executed, memos, pending, entries, depsets>>
  BY DEF Fallback, disk
<1>2. /\ loaded' \in [Loaders -> Sights] /\ loaded'["local"] = loaded["local"] /\ loaded'["pool"] = << >>
  BY <1>1, EmptySight DEF Typed, CallsTyped, Loaders
<1>3. ASSUME NEW i \in Calls
      PROVE  /\ call'[i] \in CallRecords
             /\ call'[i].phase = call[i].phase /\ call'[i].entry = call[i].entry
             /\ call'[i].code = call[i].code /\ call'[i].raced = call[i].raced
             /\ i # c => call'[i] = call[i]
             /\ i = c => call'[i].at = "local" /\ call'[i].seen = << >>
  <2>1. call[i] \in CallRecords
    BY DEF Typed, CallsTyped
  <2>2. CASE i # c
    BY <1>1, <2>1, <2>2 DEF Typed, CallsTyped
  <2>3. CASE i = c
    <3>1. call'[i] = [call[i] EXCEPT !.at = "local", !.seen = << >>, !.evicted = FALSE]
      BY <1>1, <2>3 DEF Typed, CallsTyped
    <3> QED
      BY <2>1, <2>3, <3>1, EmptySight DEF CallRecords, Loaders
  <2> QED
    BY <2>2, <2>3
<1>4. Running' = Running
  BY <1>3 DEF Running
<1>5. CallsTyped'
  BY <1>1, <1>2, <1>3, <1>4 DEF Typed, CallsTyped, Running
<1>6. LoadedIsCurrent'
  BY <1>1, <1>2, EmptySight DEF CallInv, LoadedIsCurrent, Loaders, files
<1>7. ASSUME NEW i \in Running
      PROVE  CallSees(i)'
  <2>1. CallSees(i) /\ i \in Calls /\ call[i].at \in {"local", "pool"}
    BY CallIs DEF CallInv, Running, Loaders
  <2>2. CASE i = c
    BY <1>1, <1>3, <2>1, <2>2, EmptySight DEF CallSees, files
  <2>3. CASE i # c /\ call[i].at = "local"
    <3>1. call'[i] = call[i] /\ loaded'[call[i].at] = loaded[call[i].at]
      BY <1>2, <1>3, <2>1, <2>3
    <3> QED
      BY <1>1, <2>1, <3>1 DEF CallSees, files
  <2>4. CASE i # c /\ call[i].at = "pool"
    <3>1. call[i].seen = << >>
      BY <1>1, <2>4 DEF HasLoader
    <3> QED
      BY <1>1, <1>3, <2>1, <2>4, <3>1, EmptySight DEF CallSees, files
  <2> QED
    BY <2>1, <2>2, <2>3, <2>4
<1>8. CallInv'
  BY <1>4, <1>6, <1>7 DEF CallInv
<1> QED
  BY <1>1, <1>2, <1>5, <1>8, RestFrame DEF Typed

(* A call that ends leaves the others as they are. *)
LEMMA CallEnds ==
  ASSUME BuildInv, NEW c \in Calls, call' = [call EXCEPT ![c] = IdleCall],
         UNCHANGED <<files, loaded, parallel>>
  PROVE  CallsTyped' /\ CallInv'
<1> USE DEF BuildInv
<1>1. IdleCall \in CallRecords /\ IdleCall.phase = "idle"
  BY EmptySight DEF IdleCall, CallRecords, Loaders
<1>2. \A i \in Calls : call'[i] = IF i = c THEN IdleCall ELSE call[i]
  BY DEF Typed, CallsTyped
<1>3. Running' \subseteq Running /\ \A i \in Running' : i \in Calls /\ call'[i] = call[i]
  BY <1>1, <1>2 DEF Running
<1>4. CallsTyped'
  BY <1>1, <1>2, <1>3 DEF Typed, CallsTyped
<1>5. LoadedIsCurrent'
  BY DEF CallInv, LoadedIsCurrent, files
<1>6. \A i \in Running' : CallSees(i)'
  BY <1>3 DEF CallInv, CallSees, files
<1> QED
  BY <1>4, <1>5, <1>6 DEF CallInv

LEMMA FailKeeps ==
  ASSUME BuildInv, NEW c \in Calls, Fail(c), UNCHANGED parallel
  PROVE  BuildInv'
<1>1. /\ call' = [call EXCEPT ![c] = IdleCall]
      /\ UNCHANGED <<files, cache, loaded, executed, memos, pending, entries, depsets>>
  BY DEF Fail, disk
<1>2. CallsTyped' /\ CallInv'
  BY <1>1, CallEnds
<1> QED
  BY <1>1, <1>2, RestFrame DEF BuildInv, Typed

-----------------------------------------------------------------------------
(* The start of a transform *)

(* A result another content was made of empties this process's loader, and    *)
(* the calls and the deferred results that rest on it say so.                 *)
LEMMA BeginKeeps ==
  ASSUME BuildInv, NEW c \in Calls, NEW e \in Entries, Begin(c, e), UNCHANGED parallel
  PROVE  BuildInv'
<1> USE DEF BuildInv
<1> DEFINE key    == <<e, content[e]>>
           id     == entries[key].depset
           others == [i \in Calls |-> IF Changed(e) THEN Evicted(i, {"local"}) ELSE call[i]]
<1>1. /\ call[c].phase = "idle"
      /\ loaded' = IF Changed(e) THEN InvalidateModuleCache(loaded) ELSE loaded
      /\ pending' = IF Changed(e) THEN {[p EXCEPT !.result.evicted = TRUE] : p \in pending} ELSE pending
      /\ UNCHANGED <<files, executed, entries, depsets>>
  BY DEF Begin, disk
<1>2. \/ /\ key \in DOMAIN entries /\ Validate(id, TRUE)
         /\ cache' = [cache EXCEPT ![e] = [code |-> content[e], result |-> entries[key].result]]
         /\ call' = others
      \/ /\ key \in DOMAIN entries /\ Validate(id, FALSE)
         /\ call' = [others EXCEPT ![c] = Start(c, e)]
         /\ UNCHANGED cache
      \/ /\ call' = [others EXCEPT ![c] = Start(c, e)]
         /\ UNCHANGED <<memos, cache>>
  BY DEF Begin
<1>3. e \in Files /\ content[e] \in Contents /\ Reads[e] \subseteq Files
  BY FilesAssumption, ReadsAssumption DEF Typed, FilesTyped
<1>4. key \in DOMAIN entries => entries[key].result \in Results /\ id \in Sights
  BY DEF Typed, StoresTyped
<1> HIDE DEF others
<1>5. /\ MemosTyped' /\ DepsetsTyped' /\ MemoInv'
      /\ \/ /\ key \in DOMAIN entries /\ \A f \in DOMAIN id \ unannounced : id[f] = content[f]
            /\ cache' = [cache EXCEPT ![e] = [code |-> content[e], result |-> entries[key].result]]
            /\ call' = others
         \/ call' = [others EXCEPT ![c] = Start(c, e)] /\ UNCHANGED cache
  <2>1. ASSUME NEW ok \in BOOLEAN, key \in DOMAIN entries, Validate(id, ok)
        PROVE  /\ MemosTyped' /\ DepsetsTyped' /\ MemoInv'
               /\ ok => \A f \in DOMAIN id \ unannounced : id[f] = content[f]
    <3>1. /\ MemosTyped' /\ StatsAreTrue' /\ VerdictsAreTrue'
          /\ ok => \A f \in DOMAIN id \ unannounced : id[f] = content[f]
      BY <1>1, <1>4, <2>1, ValidateKeeps
    <3>2. DepsetsTyped' /\ FastPathIsSound'
      BY <1>1 DEF Typed, DepsetsTyped, MemoInv, FastPathIsSound, files
    <3> QED
      BY <3>1, <3>2 DEF MemoInv
  <2>2. UNCHANGED memos => MemosTyped' /\ DepsetsTyped' /\ MemoInv'
    BY <1>1, MemosFrame
  <2> QED
    BY <1>2, <2>1, <2>2
<1>6. CacheInv' /\ DOMAIN cache' = Entries /\ (\A x \in Entries : cache'[x] # None => cache'[x].result \in Results)
  <2>1. CASE UNCHANGED cache
    BY <1>1, <2>1, CacheFrame DEF Typed, StoresTyped
  <2>2. CASE /\ key \in DOMAIN entries /\ \A f \in DOMAIN id \ unannounced : id[f] = content[f]
             /\ cache' = [cache EXCEPT ![e] = [code |-> content[e], result |-> entries[key].result]]
    <3>1. /\ DOMAIN cache' = Entries
          /\ cache'[e] = [code |-> content[e], result |-> entries[key].result]
          /\ \A x \in Entries \ {e} : cache'[x] = cache[x]
      BY <2>2 DEF Typed, StoresTyped
    <3>2. Sound(entries[key].result) => SeesNow(entries[key].result, e)
      BY <1>3, <2>2 DEF EntryInv, Paired, SeesNow
    <3>3. ASSUME NEW x \in Entries, cache'[x] # None, Sound(cache'[x].result)
          PROVE  SeesNow(cache'[x].result, x)
      BY <3>1, <3>2, <3>3 DEF CacheInv
    <3>4. CacheInv'
      BY <1>1, <3>3 DEF CacheInv, SeesNow, Sound, files
    <3> QED
      BY <1>4, <2>2, <3>1, <3>4 DEF Typed, StoresTyped
  <2> QED
    BY <1>5, <2>1, <2>2
<1>7. /\ loaded' \in [Loaders -> Sights] /\ loaded'["pool"] = loaded["pool"]
      /\ loaded'["local"] \in {loaded["local"], << >>}
      /\ ~Changed(e) => loaded' = loaded
  BY <1>1, EmptySight DEF InvalidateModuleCache, Typed, CallsTyped, Loaders
<1>8. PendingInv' /\ pending' \subseteq [key : Keys, result : Results]
  <2>1. CASE ~Changed(e)
    <3>1. UNCHANGED <<pending, loaded, executed, parallel, content, unannounced>>
      BY <1>1, <1>7, <2>1 DEF files
    <3> QED
      BY <3>1 DEF PendingInv, SeesNow, ExecutedModuleSuperset, Typed, StoresTyped
  <2>2. CASE Changed(e)
    <3>1. ASSUME NEW q \in pending'
          PROVE  /\ q \in [key : Keys, result : Results] /\ q.result.evicted
                 /\ ~q.result.raced => SeesNow(q.result, q.key[1])
      <4>1. PICK p \in pending : q = [p EXCEPT !.result.evicted = TRUE]
        BY <1>1, <2>2
      <4>2. p \in [key : Keys, result : Results]
        BY DEF Typed, StoresTyped
      <4>3. /\ q \in [key : Keys, result : Results] /\ q.key = p.key
            /\ q.result.raced = p.result.raced /\ q.result.seen = p.result.seen /\ q.result.evicted
        BY <4>1, <4>2 DEF Results
      <4> QED
        BY <4>3 DEF PendingInv, SeesNow
    <3> QED
      BY <1>1, <3>1 DEF PendingInv, SeesNow, files
  <2> QED
    BY <2>1, <2>2
<1>9. ASSUME NEW i \in Calls
      PROVE  /\ others[i] \in CallRecords
             /\ others[i].phase = call[i].phase /\ others[i].entry = call[i].entry
             /\ others[i].code = call[i].code /\ others[i].at = call[i].at
             /\ others[i].seen = call[i].seen /\ others[i].raced = call[i].raced
             /\ ~others[i].evicted => /\ ~call[i].evicted
                                      /\ Changed(e) => call[i].at # "local" \/ call[i].seen = << >>
  BY DEF Typed, CallsTyped, CallRecords, Evicted, others
<1>10. /\ Start(c, e) \in CallRecords /\ Start(c, e).entry = e /\ Start(c, e).code = content[e]
       /\ Start(c, e).seen = << >> /\ (Start(c, e).at = "pool" => parallel)
       /\ ~Start(c, e).raced => unannounced \cap Reads[e] = {}
  BY <1>3, EmptySight DEF Start, IdleCall, CallRecords, Loaders, Typed, FilesTyped
<1>11. call' = [i \in Calls |-> call'[i]] /\ \A i \in Calls : call'[i] \in {others[i], Start(c, e)}
  BY <1>5 DEF others
<1>12. CallsTyped'
  <2>1. call' \in [Calls -> CallRecords]
    BY <1>9, <1>10, <1>11
  <2>2. ASSUME NEW i \in Running'
        PROVE  call'[i].entry \in Entries /\ call'[i].code \in Contents
    BY <1>3, <1>9, <1>10, <1>11 DEF Running, Typed, CallsTyped
  <2> QED
    BY <1>7, <2>1, <2>2 DEF CallsTyped
<1>13. LoadedIsCurrent'
  BY <1>1, <1>7, EmptySight DEF CallInv, LoadedIsCurrent, Loaders, files
<1>14. ASSUME NEW i \in Running'
       PROVE  CallSees(i)'
  <2>1. i \in Calls /\ UNCHANGED <<content, unannounced>>
    BY <1>1 DEF Running, files
  <2>2. CASE call'[i] = Start(c, e)
    BY <1>10, <2>1, <2>2, EmptySight DEF CallSees
  <2>3. CASE call'[i] = others[i]
    <3>1. i \in Running /\ CallSees(i) /\ call[i].at \in {"local", "pool"}
      BY <1>9, <2>1, <2>3, CallIs DEF Running, CallInv, Loaders
    <3>2. ~others[i].evicted => DOMAIN call[i].seen \subseteq DOMAIN loaded'[call[i].at]
      BY <1>7, <1>9, <2>1, <3>1, EmptySight DEF CallSees
    <3> QED
      BY <1>9, <2>1, <2>3, <3>1, <3>2 DEF CallSees
  <2> QED
    BY <1>11, <2>1, <2>2, <2>3
<1>15. FilesTyped'
  BY <1>1 DEF Typed, FilesTyped, files
<1>16. StoresTyped'
  BY <1>1, <1>6, <1>8 DEF Typed, StoresTyped
<1> QED
  BY <1>1, <1>5, <1>6, <1>8, <1>12, <1>13, <1>14, <1>15, <1>16, EntriesFrame DEF Typed, CallInv

-----------------------------------------------------------------------------
(* The end of a transform *)

LEMMA FinishKeeps ==
  ASSUME BuildInv, NEW c \in Calls, Finish(c), UNCHANGED parallel
  PROVE  BuildInv'
<1> USE DEF BuildInv
<1> DEFINE e      == call[c].entry
           key    == <<e, call[c].code>>
           result == [seen |-> call[c].seen, raced |-> call[c].raced, evicted |-> FALSE]
           late   == [result EXCEPT !.evicted = call[c].evicted]
<1>1. /\ c \in Running /\ DOMAIN call[c].seen = Reads[e]
      /\ cache' = [cache EXCEPT ![e] = [code |-> call[c].code, result |-> result]]
      /\ executed' = IF call[c].at = "pool" THEN executed \cup DOMAIN loaded["pool"] ELSE executed
      /\ \/ UNCHANGED <<memos, pending, disk>>
         \/ Save(key, result, Reads[e])
         \/ SaveDeferred(key, late)
      /\ call' = [call EXCEPT ![c] = IdleCall]
      /\ UNCHANGED <<files, loaded>>
  BY DEF Finish, StaticDeps
<1>2. /\ e \in Entries /\ call[c].code \in Contents /\ call[c].at \in {"local", "pool"}
      /\ key \in Keys /\ Reads[e] \in SUBSET Files /\ CallSees(c)
      /\ result \in Results /\ late \in Results /\ late.seen = call[c].seen
      /\ late.raced = call[c].raced /\ late.evicted = call[c].evicted
  <2>1. e \in Entries /\ call[c].code \in Contents /\ call[c].at \in {"local", "pool"} /\ CallSees(c)
    BY <1>1, CallIs DEF CallInv, Loaders
  <2>2. result \in Results /\ late \in Results
    BY CallIs DEF Results
  <2> QED
    BY <2>1, <2>2, ReadsAssumption DEF Keys
<1>3. ~call[c].raced => /\ unannounced \cap Reads[e] = {}
                        /\ \A f \in Reads[e] : f \in DOMAIN call[c].seen /\ call[c].seen[f] = content[f]
  BY <1>1, <1>2 DEF CallSees
<1>4. CallsTyped' /\ CallInv'
  BY <1>1, CallEnds
<1>5. FilesTyped'
  <2>1. DOMAIN loaded["pool"] \subseteq Files
    BY SightIs DEF Typed, CallsTyped, Loaders
  <2> QED
    BY <1>1, <2>1 DEF Typed, FilesTyped, files
<1> HIDE DEF late
<1>6. CacheInv' /\ DOMAIN cache' = Entries /\ (\A x \in Entries : cache'[x] # None => cache'[x].result \in Results)
  <2>1. /\ DOMAIN cache' = Entries
        /\ cache'[e] = [code |-> call[c].code, result |-> result]
        /\ \A x \in Entries \ {e} : cache'[x] = cache[x]
    BY <1>1, <1>2 DEF Typed, StoresTyped
  <2>2. Sound(result) => SeesNow(result, e)
    BY <1>3 DEF Sound, SeesNow
  <2> HIDE DEF e, result
  <2>3. ASSUME NEW x \in Entries, cache'[x] # None, Sound(cache'[x].result)
        PROVE  SeesNow(cache'[x].result, x)
    <3>1. CASE x # e
      BY <2>1, <2>3, <3>1 DEF CacheInv
    <3>2. CASE x = e
      <4>1. cache'[x].result = result
        BY <2>1, <3>2
      <4> QED
        BY <2>2, <2>3, <3>2, <4>1
    <3> QED
      BY <3>1, <3>2
  <2>4. CacheInv'
    <3>1. UNCHANGED <<content, unannounced>>
      BY <1>1 DEF files
    <3> QED
      BY <2>3, <3>1 DEF CacheInv, SeesNow, Sound
  <2> QED
    BY <1>2, <2>1, <2>4 DEF Typed, StoresTyped
<1>7. ExecutedModuleSuperset \subseteq ExecutedModuleSuperset'
  BY <1>1 DEF ExecutedModuleSuperset
<1>8. pending' = pending => PendingInv' /\ pending' \subseteq [key : Keys, result : Results]
  BY <1>1, <1>7 DEF PendingInv, SeesNow, Typed, StoresTyped, files
<1>9. CASE UNCHANGED <<memos, pending, disk>>
  <2>1. MemosTyped' /\ DepsetsTyped' /\ MemoInv'
    BY <1>1, <1>9, MemosFrame DEF disk
  <2> QED
    BY <1>4, <1>5, <1>6, <1>8, <1>9, <2>1, EntriesFrame DEF Typed, StoresTyped, disk
<1>10. CASE Save(key, result, Reads[e])
  <2>1. /\ Remember(Reads[e]) /\ pending' = pending
        /\ depsets' = depsets \/ WriteDepset(Reads[e])
        /\ entries' = entries \/ entries' = Over(Just(key, Entry(result, Reads[e])), entries)
    BY <1>10 DEF Save
  <2>2. MemosTyped' /\ StatsAreTrue' /\ VerdictsAreTrue'
    BY <1>1, <1>2, <2>1, RememberKeeps
  <2>3. DepsetsTyped' /\ FastPathIsSound'
    <3>1. WriteDepset(Reads[e]) => DepsetsTyped' /\ FastPathIsSound'
      BY <1>1, <1>2, WriteKeeps DEF files
    <3>2. depsets' = depsets => DepsetsTyped' /\ FastPathIsSound'
      BY <1>1 DEF Typed, DepsetsTyped, MemoInv, FastPathIsSound, files
    <3> QED
      BY <2>1, <3>1, <3>2
  <2>4. /\ Paired(key, Entry(result, Reads[e]))
        /\ Entry(result, Reads[e]) \in [result : Results, depset : Sights]
    <3>1. Sound(result) => /\ unannounced \cap Reads[e] = {}
                           /\ \A f \in Reads[e] : f \in DOMAIN result.seen /\ result.seen[f] = content[f]
      BY <1>3 DEF Sound
    <3> HIDE DEF result
    <3> QED
      BY <1>2, <3>1, EntryIsPaired
  <2>5. /\ EntryInv' /\ DOMAIN entries' \subseteq Keys
        /\ \A k \in DOMAIN entries' : entries'[k] \in [result : Results, depset : Sights]
    <3>1. CASE entries' = entries
      BY <3>1, EntriesFrame
    <3>2. CASE entries' = Over(Just(key, Entry(result, Reads[e])), entries)
      <4> DEFINE new == Entry(result, Reads[e])
      <4> HIDE DEF new
      <4>1. /\ DOMAIN entries' = DOMAIN entries \cup {key}
            /\ \A k \in DOMAIN entries' : entries'[k] = IF k = key THEN new ELSE entries[k]
        BY <3>2 DEF Over, Just, new
      <4>2. Paired(key, new) /\ new \in [result : Results, depset : Sights]
        BY <2>4 DEF new
      <4>3. \A k \in DOMAIN entries' : /\ Paired(k, entries'[k])
                                       /\ entries'[k] \in [result : Results, depset : Sights]
        BY <4>1, <4>2 DEF EntryInv, Typed, StoresTyped
      <4> QED
        BY <1>2, <4>1, <4>3 DEF EntryInv, Paired, Sound, Typed, StoresTyped
    <3> QED
      BY <2>1, <3>1, <3>2
  <2> QED
    BY <1>4, <1>5, <1>6, <1>8, <2>1, <2>2, <2>3, <2>5 DEF Typed, StoresTyped, MemoInv
<1>11. CASE SaveDeferred(key, late)
  <2>1. /\ pending' = {p \in pending : p.key # key} \cup {[key |-> key, result |-> late]}
        /\ UNCHANGED <<memos, entries, depsets>>
    BY <1>11 DEF SaveDeferred, disk
  <2>2. ~late.raced => SeesNow(late, e)
    BY <1>2, <1>3 DEF SeesNow
  <2>3. ~late.evicted => Reads[e] \subseteq ExecutedModuleSuperset'
    <3>1. ~late.evicted => Reads[e] \subseteq DOMAIN loaded[call[c].at]
      BY <1>1, <1>2 DEF CallSees
    <3>2. call[c].at = "pool" => parallel
      BY <1>2 DEF CallSees
    <3> QED
      BY <1>1, <1>2, <3>1, <3>2 DEF ExecutedModuleSuperset
  <2>4. PendingInv'
    <3>1. ASSUME NEW p \in pending'
          PROVE  /\ ~p.result.raced => SeesNow(p.result, p.key[1])
                 /\ ~p.result.evicted => Reads[p.key[1]] \subseteq ExecutedModuleSuperset'
      <4>1. CASE p \in pending
        <5>1. /\ ~p.result.raced => SeesNow(p.result, p.key[1])
              /\ ~p.result.evicted => Reads[p.key[1]] \subseteq ExecutedModuleSuperset
          BY <4>1 DEF PendingInv
        <5> QED
          BY <1>7, <5>1
      <4>2. CASE p = [key |-> key, result |-> late]
        <5>1. p.result = late /\ p.key[1] = e
          BY <4>2
        <5> QED
          BY <2>2, <2>3, <5>1
      <4> QED
        BY <2>1, <4>1, <4>2
    <3>2. ASSUME NEW p \in pending', ~p.result.raced
          PROVE  SeesNow(p.result, p.key[1])'
      BY <1>1, <3>1, <3>2 DEF SeesNow, files
    <3> QED
      BY <3>1, <3>2 DEF PendingInv
  <2>5. pending' \subseteq [key : Keys, result : Results]
    BY <1>2, <2>1 DEF Typed, StoresTyped
  <2>6. MemosTyped' /\ DepsetsTyped' /\ MemoInv'
    BY <1>1, <2>1, MemosFrame
  <2> QED
    BY <1>4, <1>5, <1>6, <2>1, <2>4, <2>5, <2>6, EntriesFrame DEF Typed, StoresTyped
<1> QED
  BY <1>1, <1>9, <1>10, <1>11

-----------------------------------------------------------------------------
(* The end of a build, and of the process *)

(* What is flushed is paired with the hashes of the whole superset. *)
LEMMA WriteDeferredKeeps ==
  ASSUME BuildInv, WriteDeferred, UNCHANGED <<content, mtime, edits>>
  PROVE  /\ DepsetsTyped' /\ FastPathIsSound'
         /\ EntryInv' /\ DOMAIN entries' \subseteq Keys
         /\ \A k \in DOMAIN entries' : entries'[k] \in [result : Results, depset : Sights]
<1> USE DEF BuildInv
<1> DEFINE D     == ExecutedModuleSuperset
           P(k)  == CHOOSE p \in pending : p.key = k
           E(k)  == Entry(AtFlush(P(k)), D)
<1>1. D \in SUBSET Files
  BY SightIs DEF ExecutedModuleSuperset, Typed, FilesTyped, CallsTyped, Loaders
<1>2. /\ depsets' = depsets \/ WriteDepset(D)
      /\ \/ entries' = entries
         \/ \E K \in SUBSET Keyed : entries' = Over([k \in K |-> E(k)], entries)
  BY DEF WriteDeferred, disk
<1>3. DepsetsTyped' /\ FastPathIsSound'
  <2>1. depsets' = depsets => DepsetsTyped' /\ FastPathIsSound'
    BY DEF Typed, DepsetsTyped, MemoInv, FastPathIsSound
  <2> QED
    BY <1>1, <1>2, <2>1, WriteKeeps
<1>4. ASSUME NEW k \in Keyed
      PROVE  /\ k \in Keys /\ Paired(k, E(k))
             /\ E(k) \in [result : Results, depset : Sights]
  <2>1. P(k) \in pending /\ P(k).key = k
    BY <1>4 DEF Keyed
  <2> DEFINE p == P(k)
             r == AtFlush(p)
  <2> HIDE DEF p
  <2>2. p \in [key : Keys, result : Results] /\ p \in pending /\ p.key = k
    BY <2>1 DEF p, Typed, StoresTyped
  <2>3. PICK e \in Entries, c \in Contents : k = <<e, c>>
    BY <2>2 DEF Keys
  <2>4. /\ r \in Results /\ r.seen = p.result.seen
        /\ Sound(r) => ~p.result.raced /\ ~p.result.evicted /\ unannounced \cap Reads[e] = {}
    <3> DEFINE late == p.result.raced \/ unannounced \cap Reads[p.key[1]] # {}
    <3>1. r = [p.result EXCEPT !.raced = late]
      BY <2>2 DEF AtFlush, Results
    <3>2. late \in BOOLEAN /\ (~late => ~p.result.raced /\ unannounced \cap Reads[e] = {})
      BY <2>2, <2>3
    <3> HIDE DEF late, r
    <3>3. p.result \in [seen : Sights, raced : BOOLEAN, evicted : BOOLEAN]
      BY <2>2 DEF Results
    <3>4. /\ r \in [seen : Sights, raced : BOOLEAN, evicted : BOOLEAN]
          /\ r.seen = p.result.seen /\ r.raced = late /\ r.evicted = p.result.evicted
      BY <3>1, <3>2, <3>3
    <3> QED
      BY <3>2, <3>4 DEF Results, Sound
  <2>5. /\ ~p.result.raced => SeesNow(p.result, e)
        /\ ~p.result.evicted => Reads[e] \subseteq D
    BY <2>2, <2>3 DEF PendingInv
  <2> HIDE DEF r
  <2>6. /\ Sound(r) => Reads[e] \subseteq D /\ unannounced \cap Reads[e] = {}
        /\ Sound(r) => \A f \in Reads[e] : f \in DOMAIN r.seen /\ r.seen[f] = content[f]
    BY <2>4, <2>5 DEF SeesNow
  <2>7. Paired(<<e, c>>, Entry(r, D)) /\ Entry(r, D) \in [result : Results, depset : Sights]
    BY <1>1, <2>4, <2>6, EntryIsPaired
  <2> QED
    BY <2>2, <2>3, <2>7 DEF p, r
<1> HIDE DEF E
<1>5. CASE entries' = entries
  BY <1>3, <1>5, EntriesFrame
<1>6. CASE \E K \in SUBSET Keyed : entries' = Over([k \in K |-> E(k)], entries)
  <2>1. PICK K \in SUBSET Keyed : entries' = Over([k \in K |-> E(k)], entries)
    BY <1>6
  <2>2. /\ DOMAIN entries' = K \cup DOMAIN entries
        /\ \A k \in DOMAIN entries' : entries'[k] = IF k \in K THEN E(k) ELSE entries[k]
    BY <2>1 DEF Over
  <2>3. ASSUME NEW k \in DOMAIN entries'
        PROVE  k \in Keys /\ Paired(k, entries'[k]) /\ entries'[k] \in [result : Results, depset : Sights]
    BY <1>4, <2>2 DEF EntryInv, Typed, StoresTyped
  <2>4. EntryInv'
    BY <2>3 DEF EntryInv, Paired, Sound
  <2> QED
    BY <1>3, <2>3, <2>4
<1> QED
  BY <1>2, <1>5, <1>6

LEMMA BuildEndKeeps ==
  ASSUME BuildInv, BuildEnd, UNCHANGED parallel
  PROVE  BuildInv'
<1> USE DEF BuildInv
<1>1. /\ WriteDeferred /\ pending' = {}
      /\ Remember(ExecutedModuleSuperset) \/ UNCHANGED memos
      /\ UNCHANGED <<files, cache, call, loaded, executed>>
  BY DEF BuildEnd
<1>2. /\ DepsetsTyped' /\ FastPathIsSound'
      /\ EntryInv' /\ DOMAIN entries' \subseteq Keys
      /\ \A k \in DOMAIN entries' : entries'[k] \in [result : Results, depset : Sights]
  BY <1>1, WriteDeferredKeeps DEF files
<1>3. MemosTyped' /\ StatsAreTrue' /\ VerdictsAreTrue'
  <2>1. UNCHANGED memos => MemosTyped' /\ StatsAreTrue' /\ VerdictsAreTrue'
    BY <1>1 DEF Typed, MemosTyped, MemoInv, StatsAreTrue, VerdictsAreTrue, files, memos
  <2> QED
    BY <1>1, <2>1, RememberKeeps
<1>4. FilesTyped' /\ CallsTyped' /\ CallInv' /\ PendingInv'
  BY <1>1 DEF Typed, FilesTyped, CallsTyped, Running, CallInv, LoadedIsCurrent, CallSees, PendingInv, files
<1>5. StoresTyped'
  BY <1>1, <1>2 DEF Typed, StoresTyped
<1> QED
  BY <1>1, <1>2, <1>3, <1>4, <1>5, CacheFrame DEF Typed, MemoInv

LEMMA NextProcessKeeps ==
  ASSUME BuildInv, NextProcess, WriteDeferred \/ UNCHANGED disk, UNCHANGED parallel
  PROVE  BuildInv'
<1> USE DEF BuildInv
<1>1. /\ unannounced' = {} /\ executed' = {} /\ pending' = {}
      /\ cache' = [e \in Entries |-> None] /\ call' = [c \in Calls |-> IdleCall]
      /\ loaded' = [l \in Loaders |-> << >>]
      /\ statMemo' = [f \in Files |-> None] /\ verdictMemo' = << >>
      /\ UNCHANGED <<content, mtime, edits>>
  BY DEF NextProcess, ResetDepValidationMemo, Unloaded
<1>2. /\ DepsetsTyped' /\ FastPathIsSound'
      /\ EntryInv' /\ DOMAIN entries' \subseteq Keys
      /\ \A k \in DOMAIN entries' : entries'[k] \in [result : Results, depset : Sights]
  <2>1. CASE WriteDeferred
    BY <1>1, <2>1, WriteDeferredKeeps
  <2>2. CASE UNCHANGED disk
    BY <1>1, <2>2, EntriesFrame DEF disk, Typed, DepsetsTyped, MemoInv, FastPathIsSound
  <2> QED
    BY <2>1, <2>2
<1>3. FilesTyped' /\ MemosTyped' /\ StatsAreTrue' /\ VerdictsAreTrue'
  BY <1>1, EmptySight DEF Typed, FilesTyped, MemosTyped, StatsAreTrue, VerdictsAreTrue
<1>4. IdleCall \in CallRecords /\ IdleCall.phase = "idle"
  BY EmptySight DEF IdleCall, CallRecords, Loaders
<1>5. Running' = {}
  BY <1>1, <1>4 DEF Running
<1>6. CallsTyped' /\ CallInv'
  BY <1>1, <1>4, <1>5, EmptySight DEF CallsTyped, CallInv, LoadedIsCurrent
<1>7. StoresTyped' /\ CacheInv' /\ PendingInv'
  BY <1>1, <1>2 DEF StoresTyped, CacheInv, PendingInv
<1> QED
  BY <1>2, <1>3, <1>6, <1>7 DEF Typed, MemoInv

LEMMA OthersKeeps ==
  ASSUME BuildInv, Others, UNCHANGED parallel
  PROVE  BuildInv'
<1> USE DEF BuildInv
<1>1. /\ DOMAIN entries' \subseteq DOMAIN entries /\ \A k \in DOMAIN entries' : entries'[k] = entries[k]
      /\ DOMAIN depsets' \subseteq DOMAIN depsets /\ \A id \in DOMAIN depsets' : depsets'[id] = depsets[id]
      /\ UNCHANGED <<files, cache, call, loaded, executed, memos, pending>>
  BY DEF Others
<1>2. EntryInv' /\ DOMAIN entries' \subseteq Keys
      /\ \A k \in DOMAIN entries' : entries'[k] \in [result : Results, depset : Sights]
  BY <1>1 DEF EntryInv, Paired, Sound, Typed, StoresTyped
<1>3. DepsetsTyped' /\ MemosTyped' /\ MemoInv'
  BY <1>1 DEF Typed, DepsetsTyped, MemosTyped, MemoInv, StatsAreTrue, VerdictsAreTrue, FastPathIsSound,
              files, memos
<1>4. FilesTyped' /\ CallsTyped' /\ CallInv'
  BY <1>1 DEF Typed, FilesTyped, CallsTyped, Running, CallInv, LoadedIsCurrent, CallSees, files
<1>5. StoresTyped' /\ PendingInv'
  BY <1>1, <1>2 DEF Typed, StoresTyped, PendingInv, SeesNow, ExecutedModuleSuperset, files
<1> QED
  BY <1>1, <1>2, <1>3, <1>4, <1>5, CacheFrame DEF Typed

-----------------------------------------------------------------------------
(* The theorems *)

LEMMA InitInv == Init => BuildInv
<1> SUFFICES ASSUME Init PROVE BuildInv
  OBVIOUS
<1>1. FilesTyped /\ MemosTyped /\ DepsetsTyped /\ StoresTyped
  BY EmptySight DEF Init, FilesTyped, MemosTyped, DepsetsTyped, StoresTyped
<1>2. IdleCall \in CallRecords /\ IdleCall.phase = "idle"
  BY EmptySight DEF IdleCall, CallRecords, Loaders
<1>3. Running = {}
  BY <1>2 DEF Init, Running
<1>4. CallsTyped /\ CallInv
  BY <1>2, <1>3, EmptySight DEF Init, CallsTyped, CallInv, LoadedIsCurrent, Unloaded
<1>5. MemoInv
  BY EmptySight DEF Init, MemoInv, StatsAreTrue, VerdictsAreTrue, FastPathIsSound
<1>6. CacheInv /\ PendingInv /\ EntryInv
  BY EmptySight DEF Init, CacheInv, PendingInv, EntryInv
<1> QED
  BY <1>1, <1>4, <1>5, <1>6 DEF BuildInv, Typed

LEMMA NextKeeps == BuildInv /\ [Next]_vars => BuildInv'
<1> SUFFICES ASSUME BuildInv, [Next]_vars PROVE BuildInv'
  OBVIOUS
<1>1. ASSUME NEW f \in Files, NEW c \in Contents, Edit(f, c), UNCHANGED parallel PROVE BuildInv'
  BY <1>1, EditKeeps
<1>2. ASSUME NEW f \in Files, WatchChange(f), UNCHANGED parallel PROVE BuildInv'
  BY <1>2, WatchChangeKeeps
<1>3. ASSUME NEW c \in Calls, NEW e \in Entries, Begin(c, e), UNCHANGED parallel PROVE BuildInv'
  BY <1>3, BeginKeeps
<1>4. ASSUME NEW c \in Calls, NEW f \in Files, Execute(c, f), UNCHANGED parallel PROVE BuildInv'
  BY <1>4, ExecuteKeeps
<1>5. ASSUME NEW c \in Calls, Fallback(c), UNCHANGED parallel PROVE BuildInv'
  BY <1>5, FallbackKeeps
<1>6. ASSUME NEW c \in Calls, Fail(c), UNCHANGED parallel PROVE BuildInv'
  BY <1>6, FailKeeps
<1>7. ASSUME NEW c \in Calls, Finish(c), UNCHANGED parallel PROVE BuildInv'
  BY <1>7, FinishKeeps
<1>8. CASE BuildEnd /\ UNCHANGED parallel
  BY <1>8, BuildEndKeeps
<1>9. CASE (Exit \/ Crash) /\ UNCHANGED parallel
  BY <1>9, NextProcessKeeps DEF Exit, Crash
<1>10. CASE Others /\ UNCHANGED parallel
  BY <1>10, OthersKeeps
<1>11. CASE UNCHANGED vars
  <2>1. UNCHANGED <<files, cache, call, loaded, executed, memos, pending, entries, depsets, parallel>>
    BY <1>11 DEF vars, disk
  <2>2. CallsTyped' /\ CallInv'
    BY <2>1 DEF BuildInv, Typed, CallsTyped, Running, CallInv, LoadedIsCurrent, CallSees, files
  <2> QED
    BY <2>1, <2>2, RestFrame DEF BuildInv, Typed
<1> QED
  BY <1>1, <1>2, <1>3, <1>4, <1>5, <1>6, <1>7, <1>8, <1>9, <1>10, <1>11 DEF Next

LEMMA InvHolds == Spec => []BuildInv
BY InitInv, NextKeeps, PTL DEF Spec

(* What the argument above does not need of the types. *)
Counts  == edits <= MaxEdits /\ restarts \in 0 .. MaxRestarts /\ faults \in 0 .. MaxFaults
Values  == /\ \A e \in Entries : cache[e] # None => cache[e].code \in Contents
           /\ \A id \in DOMAIN verdictMemo : verdictMemo[id] \in BOOLEAN

LEMMA CountsKept == Typed /\ Counts /\ [Next]_vars => Counts'
<1> SUFFICES ASSUME Typed, Counts, [Next]_vars PROVE Counts'
  OBVIOUS
<1>1. /\ edits' = edits \/ (edits < MaxEdits /\ edits' = edits + 1)
      /\ restarts' = restarts \/ (restarts < MaxRestarts /\ restarts' = restarts + 1)
      /\ faults' = faults \/ (faults < MaxFaults /\ faults' = faults + 1)
  BY DEF Next, Edit, WatchChange, Begin, Execute, Fallback, Fail, Finish, BuildEnd, Exit, Crash, Others,
         NextProcess, WriteDeferred, Save, SaveDeferred, Fault, files, disk, vars
<1>2. edits \in Nat
  BY DEF Typed, FilesTyped
<1> QED
  BY <1>1, <1>2, BoundsAssumption DEF Counts

LEMMA ValuesKept == Typed /\ Values /\ [Next]_vars => Values'
<1> SUFFICES ASSUME Typed, Values, [Next]_vars PROVE Values'
  OBVIOUS
<1>1. \A id, ok : ok \in BOOLEAN /\ Validate(id, ok)
                    => \A x \in DOMAIN verdictMemo' : verdictMemo'[x] \in BOOLEAN
  BY DEF Validate, Over, Just, Values, memos
<1>2. DOMAIN cache = Entries /\ \A e \in Entries : content[e] \in Contents
  BY FilesAssumption DEF Typed, StoresTyped, FilesTyped
<1>3. \/ UNCHANGED cache \/ cache' = [e \in Entries |-> None]
      \/ \E r : \E e \in Entries, code \in Contents :
           cache' = [cache EXCEPT ![e] = [code |-> code, result |-> r]]
  <2>1. ASSUME NEW c \in Calls, NEW e \in Entries, Begin(c, e)
        PROVE  \/ UNCHANGED cache
               \/ \E r : \E code \in Contents : cache' = [cache EXCEPT ![e] = [code |-> code, result |-> r]]
    BY <1>2, <2>1 DEF Begin
  <2>2. ASSUME NEW c \in Calls, Finish(c)
        PROVE  \E r : \E e \in Entries, code \in Contents :
                 cache' = [cache EXCEPT ![e] = [code |-> code, result |-> r]]
    BY <2>2, CallIs DEF Finish
  <2>3. ASSUME NEW c \in Calls, NEW f \in Files, Execute(c, f) PROVE UNCHANGED cache
    BY <2>3 DEF Execute
  <2>4. ASSUME NEW c \in Calls, Fallback(c) \/ Fail(c) PROVE UNCHANGED cache
    BY <2>4 DEF Fallback, Fail
  <2>5. ASSUME NEW f \in Files, NEW c \in Contents, Edit(f, c) PROVE UNCHANGED cache
    BY <2>5 DEF Edit
  <2>6. ASSUME NEW f \in Files, WatchChange(f) PROVE cache' = [e \in Entries |-> None]
    BY <2>6 DEF WatchChange
  <2>7. BuildEnd \/ Others => UNCHANGED cache
    BY DEF BuildEnd, Others
  <2>8. Exit \/ Crash => cache' = [e \in Entries |-> None]
    BY DEF Exit, Crash, NextProcess
  <2> QED
    BY <2>1, <2>2, <2>3, <2>4, <2>5, <2>6, <2>7, <2>8 DEF Next, vars
<1>4. \A x \in DOMAIN verdictMemo' : verdictMemo'[x] \in BOOLEAN
  <2>1. ASSUME NEW c \in Calls, NEW e \in Entries, Begin(c, e)
        PROVE  (\E id, ok : ok \in BOOLEAN /\ Validate(id, ok)) \/ UNCHANGED memos
    BY <2>1 DEF Begin
  <2>2. UNCHANGED verdictMemo \/ verdictMemo' = << >> \/ \E c \in Calls, e \in Entries : Begin(c, e)
    BY DEF Next, Edit, WatchChange, Execute, Fallback, Fail, Finish, BuildEnd, Exit, Crash, Others,
           NextProcess, Save, SaveDeferred, Remember, ResetDepValidationMemo, memos, vars
  <2> QED
    BY <1>1, <2>1, <2>2, EmptySight DEF Values, memos
<1> QED
  BY <1>2, <1>3, <1>4 DEF Values

(* What the plugin and its disk cache remember has the shape it is read with. *)
THEOREM BuildTypeCorrect == Spec => []TypeOK
<1>1. Init => Counts /\ Values
  BY BoundsAssumption, EmptySight DEF Init, Counts, Values
<1>2. BuildInv /\ Counts /\ Values => TypeOK
  <2> SUFFICES ASSUME BuildInv, Counts, Values PROVE TypeOK
    OBVIOUS
  <2>1. \A s \in Sights : IsSight(s)
    BY SightIs DEF IsSight
  <2>2. \A r \in Results : IsResult(r)
    BY <2>1 DEF IsResult, Results
  <2>3. /\ content \in [Files -> Contents] /\ mtime \in [Files -> 0 .. edits]
        /\ edits \in 0 .. MaxEdits /\ restarts \in 0 .. MaxRestarts /\ faults \in 0 .. MaxFaults
        /\ parallel \in BOOLEAN /\ unannounced \cup executed \subseteq Files
    BY BoundsAssumption DEF BuildInv, Typed, FilesTyped, Counts
  <2>4. \A e \in Entries : cache[e] # None => cache[e].code \in Contents /\ IsResult(cache[e].result)
    BY <2>2 DEF BuildInv, Typed, StoresTyped, Values
  <2>5. \A c \in Calls : /\ c \in Running => call[c].entry \in Entries /\ call[c].code \in Contents
                         /\ IsSight(call[c].seen)
    BY <2>1, CallIs DEF BuildInv
  <2>6. \A l \in Loaders : IsSight(loaded[l])
    BY <2>1 DEF BuildInv, Typed, CallsTyped
  <2>7. ASSUME NEW f \in Files, statMemo[f] # None
        PROVE  statMemo[f].mtime \in 0 .. MaxEdits /\ statMemo[f].hash \in Contents \cup {None}
    <3>1. statMemo[f] \in [mtime : Nat, hash : Contents \cup {None}] /\ statMemo[f].mtime <= edits
      BY <2>7 DEF BuildInv, Typed, MemosTyped
    <3> QED
      BY <2>3, <3>1, BoundsAssumption
  <2>8. \A p \in pending : p.key \in Keys /\ IsResult(p.result)
    BY <2>2 DEF BuildInv, Typed, StoresTyped
  <2>9. \A k \in DOMAIN entries :
          k \in Keys /\ IsResult(entries[k].result) /\ IsSight(entries[k].depset)
    BY <2>1, <2>2 DEF BuildInv, Typed, StoresTyped
  <2>10. \A id \in DOMAIN depsets : IsSight(id) /\ depsets[id] \in [DOMAIN id -> 0 .. edits]
    BY <2>1, <2>3 DEF BuildInv, Typed, DepsetsTyped
  <2>11. \A id \in DOMAIN verdictMemo : IsSight(id) /\ verdictMemo[id] \in BOOLEAN
    BY <2>1 DEF BuildInv, Typed, MemosTyped, Values
  <2> QED
    BY <2>3, <2>4, <2>5, <2>6, <2>7, <2>8, <2>9, <2>10, <2>11 DEF TypeOK
<1>3. BuildInv => Typed
  BY DEF BuildInv
<1> QED
  BY <1>1, <1>2, <1>3, InvHolds, CountsKept, ValuesKept, PTL DEF Spec

(* What transform() returns from `cache' is what discovery would see now,     *)
(* whichever of memory, disk and loaders it came through, in whichever        *)
(* process: index.ts's watchChange and disk-cache.ts's validation suffice.    *)
THEOREM MemoryCorrect == Spec => []MemoryIsFresh
<1>1. BuildInv => MemoryIsFresh
  BY InvImplies
<1> QED
  BY <1>1, InvHolds, PTL

(* save() and flushDeferred() never pair a result with hashes of contents     *)
(* it was not made from, whatever is edited or fails between.                 *)
THEOREM HashesCorrect == Spec => []HashesMatchResult
<1>1. BuildInv => HashesMatchResult
  BY InvImplies
<1> QED
  BY <1>1, InvHolds, PTL

(* Both the static crawl of save() and the executed superset of               *)
(* flushDeferred() record every module the result came from.                  *)
THEOREM CoversCorrect == Spec => []DepsetCovers
<1>1. BuildInv => DepsetCovers
  BY InvImplies
<1> QED
  BY <1>1, InvHolds, PTL

(* depStatMemo and depsetVerdictMemo never answer for a file as it was before *)
(* a change that the watcher has announced.                                   *)
THEOREM MemosCorrect == Spec => []MemosAreCurrent
<1>1. BuildInv => MemosAreCurrent
  BY InvImplies
<1> QED
  BY <1>1, InvHolds, PTL

(* validateDepset may take an equal mtime for an equal content.               *)
THEOREM FastPathCorrect == Spec => []FastPathIsSound
<1>1. BuildInv => FastPathIsSound
  BY InvImplies
<1> QED
  BY <1>1, InvHolds, PTL

===============================================================================
