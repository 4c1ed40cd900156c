---------------------------- MODULE TurbopackLoader ----------------------------
(***************************************************************************)
(* The webpack-style loader for hosts that have no watch hook              *)
(* (src/turbopack.ts): it stamps every module its process has executed,    *)
(* empties the module cache once a stamp no longer matches, and declares   *)
(* to the host what each output depends on.                                *)
(*                                                                         *)
(* Calls run concurrently over one module cache. A call is split at its    *)
(* await: Call runs up to it, Execute during it, Finish, Skip or Fail is   *)
(* what follows. The host calls the loader whenever it likes; what it may  *)
(* keep is stated by OutputIsFresh.                                        *)
(*                                                                         *)
(* Ghost state: pinned, and the field raced.                               *)
(***************************************************************************)
EXTENDS Naturals, Tables

CONSTANTS
  Files,          \* first-party source files
  Entries,        \* those the host passes through the loader
  Reads,          \* the modules discovery executes for an entry; {}: none runs
  Complete,       \* entries whose static dependency crawl is complete
  Contents,       \* what a file may contain
  None,           \* undefined
  Calls,          \* loader calls that may be under way together
  Explicit,       \* entries of a rule with schemas: "explicit", not "auto"
  MaxEdits        \* bound: edits of files in one behaviour

ASSUME FilesAssumption ==
  Entries \subseteq Files /\ Complete \subseteq Entries /\ Explicit \subseteq Entries
ASSUME ReadsAssumption ==
  /\ Reads \in [Entries -> SUBSET Files]
  /\ \A e \in Entries : Reads[e] # {} => e \in Reads[e]
ASSUME NoneAssumption == None \notin Entries
ASSUME BoundAssumption == MaxEdits \in Nat

VARIABLES
  content, mtime, edits,
  loaded,       \* the module cache: module -> the content executed
  stamps,       \* executedModuleStamps: module -> mtime
  call,         \* the loader calls under way
  output,       \* what the host holds of each entry
  pinned        \* ghost: modules edited after they were executed, before a stamp

files == <<content, mtime, edits>>
vars  == <<files, loaded, stamps, call, output, pinned>>

Sights == UNION {[D -> Contents] : D \in SUBSET Files}
Stamps == UNION {[D -> 0 .. MaxEdits] : D \in SUBSET Files}

IdleCall == [entry |-> None, seen |-> << >>, raced |-> FALSE]
Running  == {c \in Calls : call[c].entry # None}

Init ==
  /\ \E c \in Contents : content = [f \in Files |-> c]
  /\ mtime = [f \in Files |-> 0] /\ edits = 0
  /\ loaded = << >> /\ stamps = << >>
  /\ call = [c \in Calls |-> IdleCall]
  /\ output = [e \in Entries |-> None]
  /\ pinned = {}

-----------------------------------------------------------------------------

(* Ghost: an edit of f under a call that reads it. *)
Taint(i, f) == [call[i] EXCEPT !.raced = @ \/ f \in Reads[call[i].entry]]

Edit(f, c) ==
  /\ edits < MaxEdits
  /\ edits' = edits + 1
  /\ content' = [content EXCEPT ![f] = c]
  /\ mtime' = [mtime EXCEPT ![f] = edits']
  /\ call' = [i \in Calls |-> IF i \in Running THEN Taint(i, f) ELSE call[i]]
  /\ pinned' = IF f \in DOMAIN loaded \ DOMAIN stamps THEN pinned \cup {f} ELSE pinned
  /\ UNCHANGED <<loaded, stamps, output>>

(* invalidateStaleExecutions(): one changed stamp empties the whole cache.   *)
Stale_EntryOnly(e) == e \in DOMAIN stamps /\ stamps[e] # mtime[e]
Stale(e) == \E f \in DOMAIN stamps : stamps[f] # mtime[f]

InvalidateStaleExecutions_KeepsStamps(e) ==
  IF Stale(e)
  THEN loaded' = << >> /\ pinned' = {} /\ UNCHANGED stamps
  ELSE UNCHANGED <<loaded, stamps, pinned>>
InvalidateStaleExecutions(e) ==
  IF Stale(e)
  THEN loaded' = << >> /\ stamps' = << >> /\ pinned' = {}
  ELSE UNCHANGED <<loaded, stamps, pinned>>

Call(c, e) ==
  /\ c \notin Running
  /\ InvalidateStaleExecutions(e)
  /\ call' = [call EXCEPT ![c] = [IdleCall EXCEPT !.entry = e]]
  /\ UNCHANGED <<files, output>>

(* The loader runs one load at a time (loadQueue). *)
Loading(c) == call[c].seen # << >> /\ DOMAIN call[c].seen # Reads[call[c].entry]

(* Discovery reaches module f: it is cached, or executed as it is. *)
Execute(c, f) ==
  /\ c \in Running
  /\ \A i \in Running \ {c} : ~Loading(i)
  /\ f \in Reads[call[c].entry] \ DOMAIN call[c].seen
  /\ LET sees == IF f \in DOMAIN loaded THEN loaded[f] ELSE content[f]
     IN /\ loaded' = Over(loaded, Just(f, sees))
        /\ call' = [call EXCEPT ![c].seen = Over(@, Just(f, sees)),
                                ![c].raced = @ \/ f \in pinned]
  /\ UNCHANGED <<files, stamps, output, pinned>>

(* recordExecutedModules(): the first stamp of a module stays. *)
RecordExecutedModules_Refreshes ==
  stamps' = Over([f \in DOMAIN loaded |-> mtime[f]], stamps)
RecordExecutedModules ==
  stamps' = Over(stamps, [f \in DOMAIN loaded |-> mtime[f]])

(* declareDependencies(): the closure of a complete crawl, otherwise the     *)
(* entry alone and an output the host may not keep.                          *)
Declared_EntryOnly(e) == {e}
Declared(e) == IF e \in Complete THEN Reads[e] ELSE {e}

(* What the host holds: the output and the declared files as they are, or    *)
(* nothing if it may not keep it.                                            *)
Held(c, deps, cacheable) ==
  IF cacheable
  THEN [seen |-> call[c].seen, deps |-> [f \in deps |-> mtime[f]], raced |-> call[c].raced]
  ELSE None

Answer(c, deps, cacheable) ==
  /\ output' = [output EXCEPT ![call[c].entry] = Held(c, deps, cacheable)]
  /\ call' = [call EXCEPT ![c] = IdleCall]
  /\ UNCHANGED <<files, loaded, pinned>>

(* No discovery: a function of the file's own content. *)
FinishPlain(c) ==
  /\ c \in Running
  /\ Reads[call[c].entry] = {}
  /\ Answer(c, {call[c].entry}, TRUE)
  /\ UNCHANGED stamps

Finish(c) ==
  /\ c \in Running
  /\ Reads[call[c].entry] # {}
  /\ DOMAIN call[c].seen = Reads[call[c].entry]
  /\ RecordExecutedModules
  /\ LET e == call[c].entry IN Answer(c, Declared(e), e \in Complete)

(* A file that cannot be loaded, with "auto", or whose imports exit the      *)
(* process (onUncacheableResult), is left as it is; what was executed is     *)
(* recorded and declared all the same, onDiscovery having been called. With  *)
(* "explicit" a file that cannot be loaded throws, and nothing is.           *)
Skip(c, exits) ==
  /\ c \in Running
  /\ call[c].entry \in Explicit => exits
  /\ Reads[call[c].entry] # {}
  /\ RecordExecutedModules
  /\ LET e == call[c].entry IN Answer(c, Declared(e), e \in Complete /\ ~exits)

Fail(c) ==
  /\ c \in Running
  /\ call[c].entry \in Explicit
  /\ Reads[call[c].entry] # {}
  /\ call' = [call EXCEPT ![c] = IdleCall]
  /\ UNCHANGED <<files, loaded, stamps, output, pinned>>

Next == \/ \E f \in Files, c \in Contents : Edit(f, c)
        \/ \E c \in Calls : \/ \E e \in Entries : Call(c, e)
                            \/ \E f \in Files : Execute(c, f)
                            \/ FinishPlain(c)
                            \/ Finish(c)
                            \/ \E exits \in BOOLEAN : Skip(c, exits)
                            \/ Fail(c)

Spec == Init /\ [][Next]_vars

-----------------------------------------------------------------------------
(* Properties. *)

TypeOK ==
  /\ content \in [Files -> Contents]
  /\ edits \in 0 .. MaxEdits
  /\ mtime \in [Files -> 0 .. edits]
  /\ loaded \in Sights /\ stamps \in Stamps
  /\ call \in [Calls -> [entry : Entries \cup {None}, seen : Sights, raced : BOOLEAN]]
  /\ \A e \in Entries :
       output[e] # None => output[e] \in [seen : Sights, deps : Stamps, raced : BOOLEAN]
  /\ pinned \subseteq DOMAIN loaded
  /\ DOMAIN stamps \subseteq DOMAIN loaded

(* A module that is cached and no longer what its file says is found out by  *)
(* the next call, or was edited before it could be stamped: recording after   *)
(* another call's execution, or again, never makes a stale one look fresh.    *)
StaleIsDetected ==
  \A f \in DOMAIN loaded \ pinned :
    loaded[f] # content[f] => f \in DOMAIN stamps /\ stamps[f] # mtime[f]

(* A call sees every file as it is, if none is edited under it: also the      *)
(* files the host never passes through the loader, and those first executed  *)
(* by another call.                                                           *)
CallIsFresh ==
  \A c \in Running : ~call[c].raced
    => \A f \in DOMAIN call[c].seen : call[c].seen[f] = content[f]

(* An output the host may keep, none of whose declared dependencies has       *)
(* changed since, is what the loader would make now.                         *)
OutputIsFresh ==
  \A e \in Entries :
    LET o == output[e]
    IN o # None /\ ~o.raced /\ (\A f \in DOMAIN o.deps : mtime[f] = o.deps[f])
         => \A f \in DOMAIN o.seen : o.seen[f] = content[f]

=============================================================================
