------------------------------- MODULE CliWatch -------------------------------
(***************************************************************************)
(* The CLI's watch mode (src/cli/commands/watch.ts) over generateFile()    *)
(* (src/cli/commands/generate.ts): an initial generation, then a debounced *)
(* flush per burst of file events. A flush that takes longer than the      *)
(* debounce overlaps the next one.                                         *)
(*                                                                         *)
(* A generation is split at its awaits: the source is read and filtered,   *)
(* the file is loaded, the output is written.                              *)
(*                                                                         *)
(* Ghost state: unflushed, lost, late, overtaken.                          *)
(***************************************************************************)
EXTENDS ModuleLoader

CONSTANTS
  Schemas,    \* files that export schemas; the filter drops the others
  Initial     \* the generation that runs before anything is watched, one of Loads

ASSUME WatchAssumption == Schemas \subseteq Files /\ Initial \in Loads

VARIABLES
  watching,      \* the watchers exist
  notices,       \* file events the system has still to deliver
  pendingFiles, timer,
  task,          \* the flushes under way: files still to generate, and the one at hand
  output,        \* what the .compiled.ts of a file was made from
  unflushed,     \* ghost: files edited, and not in a flush's batch since
  lost,          \* ghost: those of them that were edited before they were watched
  late,          \* ghost: flushes whose generation another of the same file overtook
  overtaken      \* ghost: files that such a generation was the last to write

watchGhosts == <<unflushed, lost, late, overtaken>>
watchVars   == <<watching, notices, pendingFiles, timer, task, output, watchGhosts>>

IdleTask == [on |-> FALSE, todo |-> {}, stage |-> "next", file |-> None, made |-> None]
Working(f) == {i \in Loads : task[i].file = f}

WatchInit ==
  /\ watching = FALSE /\ notices = {} /\ pendingFiles = {} /\ timer = FALSE
  /\ task = [i \in Loads |-> IF i = Initial THEN [IdleTask EXCEPT !.on = TRUE, !.todo = Files]
                                            ELSE IdleTask]
  /\ output = [f \in Schemas |-> None]
  /\ unflushed = {} /\ lost = {} /\ late = {} /\ overtaken = {}

-----------------------------------------------------------------------------

WatchEdit(f, c) ==
  /\ Edit(f, c)
  /\ IF watching THEN notices' = notices \cup {f} /\ UNCHANGED lost
                 ELSE lost' = lost \cup {f} /\ UNCHANGED notices
  /\ unflushed' = unflushed \cup {f}
  /\ UNCHANGED <<watching, pendingFiles, timer, task, output, late, overtaken>>

(* The watcher's callback: note the file, restart the timer.                 *)
Notice(f) ==
  /\ f \in notices
  /\ notices' = notices \ {f}
  /\ pendingFiles' = pendingFiles \cup {f} /\ timer' = TRUE
  /\ UNCHANGED <<loaderVars, watching, task, output, watchGhosts>>

(* The timer fires: the batch is taken and the cache emptied before the      *)
(* first await.                                                              *)
Flush_ChangedOnly(i) ==
  /\ timer /\ ~task[i].on /\ i # Initial
  /\ timer' = FALSE /\ pendingFiles' = {}
  /\ task' = [task EXCEPT ![i] = [IdleTask EXCEPT !.on = TRUE, !.todo = pendingFiles]]
  /\ cache' = [m \in DOMAIN cache \ pendingFiles |-> cache[m]]
  /\ cacheGeneration' = cacheGeneration + 1 /\ UNCHANGED native
  /\ unflushed' = unflushed \ pendingFiles /\ lost' = lost \ pendingFiles
  /\ Straddle /\ straddled' = straddled \ pendingFiles
  /\ UNCHANGED <<disk, loadQueue, guard, alive, userMarker,
                 watching, notices, output, late, overtaken>>
Flush(i) ==
  /\ timer /\ ~task[i].on /\ i # Initial
  /\ timer' = FALSE /\ pendingFiles' = {}
  /\ task' = [task EXCEPT ![i] = [IdleTask EXCEPT !.on = TRUE, !.todo = pendingFiles]]
  /\ InvalidateModuleCache
  /\ unflushed' = unflushed \ pendingFiles /\ lost' = lost \ pendingFiles
  /\ UNCHANGED <<disk, loadQueue, guard, alive, userMarker,
                 watching, notices, output, late, overtaken>>

(* generateFile(), up to the filter's answer.                                *)
Generate_OneAtATime(i, f) ==
  /\ alive /\ task[i].on /\ task[i].stage = "next" /\ f \in task[i].todo
  /\ LET turn == f \in Schemas /\ Working(f) = {}
     IN  task' = [task EXCEPT ![i].todo = @ \ {f},
                              ![i].stage = IF turn THEN "load" ELSE "next",
                              ![i].file = IF turn THEN f ELSE None]
  /\ UNCHANGED <<loaderVars, watching, notices, pendingFiles, timer, output, watchGhosts>>
Generate(i, f) ==
  /\ alive /\ task[i].on /\ task[i].stage = "next" /\ f \in task[i].todo
  /\ task' = [task EXCEPT ![i].todo = @ \ {f},
                          ![i].stage = IF f \in Schemas THEN "load" ELSE "next",
                          ![i].file = IF f \in Schemas THEN f ELSE None]
  /\ late' = IF f \in Schemas THEN late \cup Working(f) ELSE late
  /\ UNCHANGED <<loaderVars, watching, notices, pendingFiles, timer, output,
                 unflushed, lost, overtaken>>

Discover(i) ==
  /\ task[i].stage = "load" /\ Request(i, task[i].file)
  /\ task' = [task EXCEPT ![i].stage = "wait"]
  /\ UNCHANGED <<watching, notices, pendingFiles, timer, output, watchGhosts>>

(* The load settled. One that failed is reported and the next file begins.   *)
Discovered(i) ==
  /\ task[i].stage = "wait" /\ Take(i)
  /\ task' = [task EXCEPT ![i] =
       IF load[i].stage = "done" THEN [@ EXCEPT !.stage = "write", !.made = load[i].seen[task[i].file]]
                                 ELSE [@ EXCEPT !.stage = "next", !.file = None]]
  /\ late' = IF load[i].stage = "done" THEN late ELSE late \ {i}
  /\ UNCHANGED <<watching, notices, pendingFiles, timer, output, unflushed, lost, overtaken>>

Write(i) ==
  /\ task[i].stage = "write"
  /\ output' = [output EXCEPT ![task[i].file] = task[i].made]
  /\ task' = [task EXCEPT ![i].stage = "next", ![i].file = None, ![i].made = None]
  /\ overtaken' = IF i \in late THEN overtaken \cup {task[i].file} ELSE overtaken \ {task[i].file}
  /\ late' = late \ {i}
  /\ UNCHANGED <<loaderVars, watching, notices, pendingFiles, timer, unflushed, lost>>

(* A flush is done; after the initial generation the watchers are created.   *)
Finish(i) ==
  /\ alive /\ task[i].on /\ task[i].stage = "next" /\ task[i].todo = {}
  /\ task' = [task EXCEPT ![i].on = FALSE]
  /\ watching' = TRUE
  /\ UNCHANGED <<loaderVars, notices, pendingFiles, timer, output, watchGhosts>>

WatchTask(i) == \/ \E f \in Files : Generate(i, f)
                \/ Discover(i) \/ Discovered(i) \/ Write(i) \/ Finish(i)
WatchLoad(i) == LoaderStep(i) /\ UNCHANGED watchVars
WatchTimer   == (\E f \in Files : Notice(f)) \/ (\E i \in Loads : Flush(i))
WatchNext    == \/ \E f \in Files, c \in Contents : WatchEdit(f, c)
                \/ WatchTimer
                \/ \E i \in Loads : WatchTask(i) \/ WatchLoad(i)

-----------------------------------------------------------------------------
(* Properties. *)

WatchTypeOK ==
  /\ notices \cup pendingFiles \cup unflushed \cup lost \subseteq Files
  /\ pendingFiles # {} => timer
  /\ \A i \in Loads :
       /\ task[i].on \in BOOLEAN /\ task[i].todo \subseteq Files
       /\ task[i].stage \in {"next", "load", "wait", "write"} /\ task[i].file \in Schemas \cup {None}
       /\ (task[i].made = None) = (task[i].stage # "write")
  /\ late \subseteq {i \in Loads : task[i].stage # "next"} /\ overtaken \subseteq Schemas

Quiet == watching /\ notices \cup pendingFiles = {} /\ ~timer /\ \A i \in Loads : ~task[i].on

(* When everything has settled an output is made from its file as it is: an    *)
(* edit made while a flush was running is not lost to the next one, also where *)
(* both generate the file at once. Unless the file was edited before it was    *)
(* watched, cannot be loaded, or the last to write was a generation that a     *)
(* newer one had overtaken: until the next one of that file has written.       *)
OutputIsCurrent ==
  Quiet => \A f \in Schemas :
             f \notin lost \cup overtaken /\ Imports[f] \cap Exiting = {}
               => output[f] # None /\ output[f][f] = content[f]

(* Every module a load sees was executed from the contents, its own and its    *)
(* imports', that are on disk, unless an edit is still to be flushed. Excepted  *)
(* are a load during which the cache was emptied, what it leaves in the cache,  *)
(* and what another module imports natively: only the file a native import      *)
(* names carries the generation.                                              *)
LoadSeesFlushed ==
  \A l \in Loads : ~load[l].old => \A m \in DOMAIN load[l].seen : \A d \in Imports[m] :
    load[l].seen[m][d] = content[d] \/ d \in unflushed \/ (d \in Native /\ d # load[l].file)

(* An edit made while its file is watched is flushed and everything it set off   *)
(* comes to rest, where OutputIsCurrent holds: no notice is left behind by the  *)
(* restarted timer, no flush waits on a load for ever.                         *)
EditIsGenerated == (watching /\ unflushed # {}) ~> Quiet

===============================================================================
