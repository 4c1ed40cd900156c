------------------------------ MODULE SwcBridge ------------------------------
(***************************************************************************)
(* The SWC bridge (src/swc.ts): a host hands it source text, discovery     *)
(* executes the file from disk through the shared loader, and a change of  *)
(* the text handed in for a file empties the loader's cache. Calls run     *)
(* concurrently.                                                           *)
(*                                                                         *)
(* Ghost state: ahead.                                                     *)
(***************************************************************************)
EXTENDS ModuleLoader

CONSTANTS
  Fed,        \* files whose text the host hands in
  Included    \* files shouldTransform() accepts

ASSUME SwcAssumption == Included \subseteq Fed /\ Fed \subseteq Files

VARIABLES
  lastSeenCode,  \* file -> the text last handed in
  call,          \* the calls under way
  ahead          \* ghost: cached modules executed from a text never handed in yet

swcVars == <<lastSeenCode, call, ahead>>

IdleCall == [file |-> None, code |-> None, stage |-> "idle"]

SwcInit ==
  /\ lastSeenCode = [f \in Files |-> None]
  /\ call = [l \in Loads |-> IdleCall]
  /\ ahead = {}

SwcEdit(f, c) == Edit(f, c) /\ UNCHANGED swcVars

(* transformFile(), or a host that reads the file itself: the text is that   *)
(* of the moment, and swc is still to be imported.                           *)
Read(l, f) ==
  /\ alive /\ call[l].stage = "idle"
  /\ call' = [call EXCEPT ![l] = [file |-> f, code |-> content[f], stage |-> "read"]]
  /\ UNCHANGED <<loaderVars, lastSeenCode, ahead>>

(* invalidateOnContentChange()                                               *)
InvalidateOnContentChange_Itself(f, code) ==
  /\ lastSeenCode' = [lastSeenCode EXCEPT ![f] = code]
  /\ IF lastSeenCode[f] \notin {None, code}
     THEN /\ cache' = [m \in DOMAIN cache \ {f} |-> cache[m]] /\ ahead' = ahead \ {f}
          /\ cacheGeneration' = cacheGeneration + 1 /\ UNCHANGED native
          /\ Straddle /\ straddled' = straddled \ {f}
     ELSE UNCHANGED <<caches, load, ahead>>
InvalidateOnContentChange_Never(f, code) ==
  /\ lastSeenCode' = [lastSeenCode EXCEPT ![f] = code]
  /\ UNCHANGED <<caches, load, ahead>>
InvalidateOnContentChange(f, code) ==
  /\ lastSeenCode' = [lastSeenCode EXCEPT ![f] = code]
  /\ IF lastSeenCode[f] \notin {None, code}
     THEN InvalidateModuleCache /\ ahead' = {}
     ELSE UNCHANGED <<caches, load, ahead>>

(* transformWith(), up to the discovery it awaits, if there is one.          *)
Transform(l) ==
  /\ alive /\ call[l].stage = "read"
  /\ InvalidateOnContentChange(call[l].file, call[l].code)
  /\ call' = [call EXCEPT ![l] = IF call[l].file \in Included THEN [@ EXCEPT !.stage = "load"]
                                                              ELSE IdleCall]
  /\ UNCHANGED <<disk, loadQueue, guard, alive, userMarker>>

SwcDiscover(l) ==
  /\ call[l].stage = "load" /\ Request(l, call[l].file)
  /\ call' = [call EXCEPT ![l].stage = "wait"]
  /\ UNCHANGED <<lastSeenCode, ahead>>

(* Discovery is done, or failed and the text goes to SWC as it is.           *)
Answer(l) ==
  /\ call[l].stage = "wait" /\ Take(l)
  /\ call' = [call EXCEPT ![l] = IdleCall]
  /\ UNCHANGED <<lastSeenCode, ahead>>

SwcLoad(l) ==
  /\ LoaderStep(l)
  /\ ahead' = ahead \cup {m \in DOMAIN cache' \ DOMAIN cache : lastSeenCode[m] # content[m]}
  /\ UNCHANGED <<lastSeenCode, call>>

SwcAnswering(l) == Transform(l) \/ SwcDiscover(l) \/ Answer(l)
SwcNext    == \/ \E f \in Files, c \in Contents : SwcEdit(f, c)
              \/ \E l \in Loads : \/ \E f \in Fed : Read(l, f)
                              \/ SwcAnswering(l) \/ SwcLoad(l)

-----------------------------------------------------------------------------
(* Properties. *)

SwcTypeOK ==
  /\ lastSeenCode \in [Files -> Contents \cup {None}]
  /\ \A l \in Loads : call[l] \in [file : Files \cup {None}, code : Contents \cup {None},
                                   stage : {"idle", "read", "load", "wait"}]
  /\ ahead \subseteq DOMAIN cache

(* A cached module that is no longer what its file, or one it imports, says has *)
(* an edit that was not handed in yet, or was executed, as the import of        *)
(* another, from a text that had not been handed in, or by a load during which  *)
(* the cache was emptied: with concurrent calls, hand-ins in any order and      *)
(* excluded files among them. Native modules are not the cache's.              *)
StaleIsUnfed ==
  \A m \in DOMAIN cache \ straddled : \A d \in Imports[m] \ (ahead \cup Native) :
    cache[m][d] # content[d] => lastSeenCode[d] # content[d]

===============================================================================
