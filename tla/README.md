# A verification of zod-compiler

zod-compiler turns Zod schemas into generated validators at build time. To do
so it *executes* the schema files (discovery), which makes the bundler plugin a
cache of executions: of modules, of transforms, of their results on disk, in
one process, in worker threads, and from one process to the next. Three things
can go wrong that a test hardly reaches: a call is lost or answered twice; a
validator made from what a file used to say is served for what it says now; and
the several programs generated for one schema do not agree. This project models
the parts where one of them could happen.

Source paths below are relative to the repository; the library is in `src/`.

## 1. Inventory

| Component | State it keeps | Operations | What is hard |
|---|---|---|---|
| Transform pool, `src/unplugin/pool.ts` | workers and what each is busy with, queue, in-flight tasks, failure counter, breaker, union of executed modules | `run`, `invalidate`, `dispose`, `onMessage`, `onWorkerGone`, `drain` | threads die at any moment, spawning may throw, replies and death events race, the breaker trips while tasks wait |
| Pool worker, `src/unplugin/pool-worker.ts` | the loader's module cache, `reported` | transform, invalidate | an invalidation is handled between two awaits of a transform |
| Plugin, `src/unplugin/index.ts` | result cache | `transform`, `watchChange`, `buildEnd` | everything after the await of `transform` acts on state from before it |
| Disk cache, `src/unplugin/disk-cache.ts` | entries and dependency sets on disk; stat memo, verdict memo, deferred entries | `load`, `save`, `saveDeferred`, `flushDeferred`, `dropDeferred`, memo reset, GC | stat, hash and execution of a file happen at different times; processes stop and share the directory |
| Module loader, `src/loader.ts` | executed modules per tsconfig, load queue, guard depth, saved `process.exit` | `loadSourceFile`, `loadModule`, `invalidateModuleCache` | process-wide guard shared by overlapping loads |
| Static crawl, `src/unplugin/dep-graph.ts` | node memo | `collectStaticDeps`, `transformDependencies` | completeness: one unanalysable node poisons a closure |
| Loader hosts, `src/turbopack.ts`, `src/swc.ts` | stamps of executed modules; last content seen per file | loader call, `transform` | no watch event at all; concurrent calls over one module cache |
| CLI, `src/cli/` | pending files, debounce timer | `generate`, `check`, `watch` | a flush may overlap the next |
| JIT, `src/jit.ts` | accessors and snapshots on the schema object | read, write, materialize, cancel | re-entrant reads, frozen targets, a second copy of the module |
| Register hooks, `src/register/` | configuration of the running process | `load` | none of its own: hoisting and `jit()` per file |
| Static filter, `src/static-filter.ts` | none across files | classification of exports | aliases, reassignments and mutation, seen only as text |
| Transform, `src/unplugin/transform.ts` | none across files | staged edits | two passes edit one text; source order |
| Hoisting, `src/unplugin/hoist.ts`, `hoist-compile.ts` | none across files | capture analysis, masking, moves | names that mean something else at the head of the module |
| Compile pipeline, `src/core/pipeline.ts`, `codegen/dedupe.ts`, `iife.ts` | what a file's schemas share | two passes | what a validator reads when it is made |
| Extraction and code generation, `src/core/extract/`, `src/core/codegen/` | none across schemas | schema to IR, IR to three programs, choice of the program per entry point | fast check, slow walk and build pass must agree wherever one stands in for another |

How they interact. The bundler calls the plugin's `transform`. The plugin asks
its result cache, then the disk cache, then runs the transform in-process or
through the pool. Discovery reads files through the loader of whichever thread
it runs on and leaves modules in that loader's cache. When it is done the plugin
stores the result in memory, and on disk with a *dependency set*: at once if the
static crawl was complete, otherwise deferred until `buildEnd` or process exit,
when one set is made of all modules any loader has executed. The bundler's
`watchChange` empties everything that could be stale: both kinds of loader, the
memos, the deferred entries and the result cache. The other hosts (Turbopack,
SWC, the CLI) use the same loader with other ways to notice a change.

Inside one transform the static filter may drop a file unread; otherwise it is
executed, its exported schemas are extracted, compiled and written over their
initialisers, and schemas inside its functions are moved to the head of the
module. The JIT needs none of this: it puts accessors in front of a schema's
methods in the running program.

## 2. Modules

| Module | What it is |
|---|---|
| `TransformService` | what a pool promises its caller: every call is answered once |
| `TransformPool` | the pool, its message channels and its worker threads |
| `TransformPoolProofs`, `TransformPoolThreadProofs` | its theorems, the second building on the first |
| `MCTransformPool` | instances for TLC |
| `PluginBuild` | the plugin with result cache, loaders and disk cache, across processes |
| `PluginBuildProofs` | its theorems |
| `MCPluginBuild` | instances for TLC |
| `TurbopackLoader`, `MCTurbopackLoader` | the loader of hosts without a watch hook |
| `TurbopackLoaderProofs` | its theorems |
| `Tables` | the tables both are written with |
| `ModuleLoader` | the module loader: queue, cache, native imports, the guard on `process.exit` |
| `CliWatch`, `SwcBridge` | two of its hosts; both extend `ModuleLoader` |
| `MCLoaderHosts` | composes the three; one host per behaviour |
| `LoaderHostsProofs` | theorems about that composition |
| `JitSlots`, `MCJitSlots` | the accessors of `jit()`, and the factory a compiled validator installs itself with |
| `JitSlotsProofs` | theorems about them, for any number of copies of `jit()` |
| `StaticFilter`, `ModuleRewrite`, `Hoist`, `DepGraph` | what the transform makes of one file: skip it, rewrite its exports, move its expressions, crawl its imports |
| `MCFileTransform` | composes those four; one view of the file per behaviour |
| `FileTransformProofs` | theorems about each of the four, of files of any size |
| `Codegen` | what the generated programs compute and which of them a validator runs |
| `MCCodegen` | the inputs they are compared on |
| `CodegenProofs` | theorems about them, for schemas of any depth and width |

The order in which they were written is the order of the table. `ModuleLoader`
is the detailed loader; `PluginBuild` and `TurbopackLoader` abstract from its
queue and guard (one load at a time, what has been executed) and add what their
hosts keep.

### TransformPool

The main thread runs one handler at a time, so each method of `TransformPool` is
one action: `Run`, `Invalidate`, `Dispose`, `OnMessage(w)`, `OnWorkerGone(w)`.
The two message handlers end with `drain()`, a loop; it is an action per
iteration, `Drain`, and while the flag `draining` is set the main thread does
nothing else, but the worker threads go on. `dispatch`, `send` and `spawn` are
the helpers `SendToIdle`, `SendToNew` and `SpawnFails`.

Each worker has an `inbox` and an `outbox`, FIFO as Node's channels are, and a
list of `events` (`error`, `exit`) still to be emitted. `Die` may happen to a
live worker at any time, so also while it holds a task, while its reply is under
way, or before its bootstrap has loaded. A request posted to a thread that has
ended is lost. `WorkerTransform`, `WorkerLoad` and `WorkerFinish` take a
transform apart at its awaits; `WorkerInvalidate` may come between them.
A task is the set of modules its discovery executes (`Needs`); whether a module
was executed before the last invalidation is ghost state (`stale`, `tainted`).

Names follow the code, except `refd` (which workers are `ref()`ed), `outcome`
(the promise `run()` returned) and the ghosts.

### PluginBuild

A `transform()` call is split at its await. `Begin` is everything before it: the
result in memory, the eviction on changed content, the disk cache. `Execute`
and `Fallback` happen during it, `Finish` (or `Fail`) is everything after it:
the result cache, what the worker reported, `save` or `saveDeferred`.
`WatchChange`, `BuildEnd` and `Exit` are the other handlers; `Edit` is the user,
`Crash` a killed process. A process that ends is followed by another, which
knows only what is on disk.

A file is a content and an mtime, every edit giving a new mtime; an edit may
restore a former content. The result of a transform is `seen`: the content it
saw of each module it executed. A hash is the content. A dependency set is
named by its (path, hash) pairs and holds mtimes, as on disk. `statMemo` and
`verdictMemo` are the two memos, filled by validation and by saving, lazily as
in the code: a stat may be remembered without its hash.

`faults` counts what the cache directory loses: a write that fails (`save` and
`flushDeferred` are best-effort, and an entry is never written without its
dependency set), or a file that another process removes while it wipes or
sweeps the directory (`Others`, for `ensureDir` and `maybeGc`). A directory that
loses files costs misses only; that is what `MemoryIsFresh` says of it. What
another process *writes* is left out: across restarts the directory already
holds what a former process wrote, at any moment of a later one.

The pool is one worker here, holding one task at a time, which is what
`TransformPool` shows of each worker. `Reads`, what an entry's discovery
executes, is a constant: an edit changes what a module says, not what it
imports. That the crawl of a `Complete` entry lists all of `Reads` is assumed.

### TurbopackLoader

A loader call is split at its await too. `Call` is what precedes it
(`invalidateStaleExecutions`: one stamp that no longer matches empties the whole
module cache), `Execute` one module of its discovery, `Finish`, `FinishPlain`,
`Skip` and `Fail` the ways it ends: with discovery, without, with a file left as
it is (it cannot be loaded, or exits the process), with an error. The loader runs one load
at a time (`Loading`); between two loads other calls come and go. `output` is what
the host holds: the sight the output was made from, the declared dependencies as they were, and
whether it may keep it. When the host calls is left open.

A stamp is the mtime, every edit giving a new one. `pinned` is ghost state:
modules edited after their execution and before their stamp, which the code
cannot find out (see below).

### ModuleLoader and its hosts

A load is split at its awaits. `Request` is `loadSourceFile` up to its first
await: a native import (`.mjs`, or any file of Bun and Deno) starts at once, a
jiti load queues; `Dequeue`, `Execute` per module, `ProcessExit`, `Settle`
follow. `EnterGuarded` and `LeaveGuarded` are the two halves of `runGuarded`.
An executed module is the contents it was executed from, its own and its
imports'; `native` is the runtime's own cache, which is never emptied, keyed with
the generation suffix that only the requested file carries.

`CliWatch` is `runWatch`: an initial generation, then `Notice` (the watcher's
callback), `Flush` (the debounce timer) and the stages of `generateFile`. A
flush that takes longer than the debounce overlaps the next. `SwcBridge` is
`transformWith` around its await (`Read`, `Transform`, `SwcDiscover`, `Answer`)
with `InvalidateOnContentChange`. `MCLoaderHosts` runs one host per behaviour
over a schema file that imports a helper and a native module, and one that
exits the process.

A behaviour of `MCLoaderHosts` is of one of its `Scenarios`: a host, how many
edits there are and of which files, and which of the SWC bridge's calls are made.
They are bounds for TLC; the theorems are for every set of scenarios.

Ghosts: `straddled` are cached modules left by a load that began before the
cache was emptied; `ahead` those executed, as imports, from a text that had not
been handed in; `lost` the files edited before they were watched and not flushed
since. When two flushes generate one file at once, `late` is the flush whose
generation a newer one has overtaken, and `overtaken` are the files that such
a generation was the last to write: only of those `watch` does not
promise the output, and only until the next generation of the file has written.

### JitSlots

A property read can run an accessor, which compiles, which reads and assigns
slots, which can run accessors again. It is a machine with a call stack
(`stack`), one action per stage: `ReadEnter` .. `ReadGive` for an accessor's
read, `SetCancel` and `SetWrite` for its write, `MkvStep` for the statements of the
factory `__zcMkv` that a validator installs itself with. `Jit`, `JitEager`,
reads, writes, a build's own install and the freezing, sealing or locking of the
target begin on an empty stack. There are two copies of the module, as two
versions of the package give. A wrapper around the target may refuse one kind
of operation (`refused`), always the same. Beside the schema runs its twin
(`plain`), the same schema under the same operations never given to `jit()`:
the properties compare the two.

### StaticFilter, ModuleRewrite, Hoist, DepGraph

Each is about one file, and none reads what another leaves, so
`MCFileTransform` runs them side by side. The state is the file; a step is the author
writing another part of it, and what the code makes of the file is derived.
What a file *means* is defined apart from what the code *concludes*. What is
reached from a file or a name (`Closure`, `Resolved`) is the smallest closed set
rather than a loop that collects it.

- `StaticFilter`: the statements of the file's CommonJS form. `Run` says what
  executing one may do to the values of locals and exports, `MayExportSchemas`
  what the analysis concludes from the statements alone.
- `ModuleRewrite`: declarations, exports, and what schemas are built from.
  `Compiled`, `Shared` and `Edits` are discovery, the shared walks and the
  edits of the two passes; `Fired` and `Initialised` are what evaluating the result
  reads, and whether it is there yet. A declaration is a schema of its own: that
  `compile(A)` of another name gives that schema itself is left out, and so is that
  with `output: "bag"` a schema built from a rewritten one contains a bag.
- `Hoist`: a chain of calls with its arguments, in a place with bindings around
  it. `Hoists` are the chains that are moved, `Captures` and `BoundNames` the
  analysis; `Meaning` and `ModuleMeaning` what a name means here and there.
- `DepGraph`: the crawl with its resolution and node memos, while files change,
  come and go and the watcher reports it or does not yet.

Four constants name what the code overlooks and a file may do: `Unnoticed`,
`Overlooked`, `Blind` and `Hidden`. They are empty in the run, so that it shows
that nothing else goes wrong; each of their members makes the property fail
(see *Divergences*).

### Codegen

`generateValidator` emits up to three programs for a schema. The *slow walk*
reproduces zod, issues included. The *fast check* is a boolean expression, in
two forms: by reference, where TRUE promises that the output is the input, and
acceptance, a verdict only. The *build pass* validates and rebuilds at once.
Static analyses of the schema (`HasMutation`, `Rebuilds`, `RejectsUndefined`, ...)
then decide which program `safeParse`, `parse` and `is()` run
(`SafeParse`, `Parse`, `Is`, following `BuildBranch`, `DeferredBranch` and
`FastResultIsInput`).

Emitted code is modelled by what it computes: a program is a table over
`Values`. `Compile` makes a record of a node: the answers of the analyses, the
tables, and, for objects, the tables of the same object as an option of a switch
on one of its properties (`at`), which omit that property's check. The tables
of a node are made from those of its children, as the generators call
`visit` on children. The state is one compiled schema; a step is the author
wrapping it in another constructor, with siblings from the leaves and from
`Tagged`, objects that pin a key to a literal.

Inputs are strings, null, undefined, arrays, sets and maps of up to two items and objects over
two keys, with keys that are absent or hold undefined, and own `__proto__` keys
(`proto`), which no output may have. The leaves stand for what leaf kinds differ
in: a literal, `any` (accepts undefined), a string with an overwrite
(rewrites), a delegated `z.exactOptional()` (no fast check, mutates beyond what
the build pass knows). Each table entry is a value or `Fail`; an object also says whether it is frozen, which is what
`readonly` adds. The list of issues is left out, and so are the order of keys
and aliasing, except that a frozen input shows in `Freeze`. `Optin`, `Optout` and
`PropValues` are what zod itself tells the extractors.

`ValuesAssumption` and `PrimsAssumption` say what inputs are: what a program reads
of an input is an input, no map has a key twice, nobody has frozen an input,
`z.literal()` lists primitives, trimming a string leaves a string. `Scrub` makes a copy only of
an object that has an own `__proto__`, as `__zcPs` does; `Keyed` is what `new
Map(entries)` keeps of entries of one key.

Of a schema that does not rewrite, `PartsAgree` asks an exact by-reference check
only where nothing *inside* it is scrubbed either (`~nested`), which is where
`DeferredBranch` relies on it. The check could not be exact elsewhere: in a pipe of a loose
into a strict object the walk scrubs an own `__proto__` before the strict half
can see it, and the check, which reads the input, refuses it.

`AnyRefine` and `AnyTag` open the two cases in which the programs disagree (see
below). Without them a refine sits on strict objects of parts that do not rewrite, and a tag
that may be undefined may also be absent.

## 3. What is checked

| Run | Shows | Size |
|---|---|---|
| `PoolScheduling` | ownership of calls, no lost wakeup, process held open exactly while a call is open, one transform per worker, nothing sent after the breaker, refinement of `TransformService` | 3 calls, a pool of 2 over 3 threads, breaker at 2 |
| `PoolTracking` | every promise settles, under fairness; what is sent after an invalidation is fresh, and covered by the reported deltas | 2 calls, a pool of 1 over 2 threads, 1 invalidation, 2 modules |
| `BuildConcurrent` | memory and disk agree with what results were made from, with two transforms under way | 2 files, 2 calls, 1 edit; 0.6 million states |
| `BuildRestart` | the same across processes; memos and mtime fast path are sound | 1.4 million states in four scenarios: 2 edits around a restart; a pool with fallback and a restart; the same with a file that needs no discovery; a restart and one file lost from the cache directory, or one failing write |
| `BuildStraddler` (violated) | a result stored after the caches were cleared, of a file whose import was edited | |
| `HostLoader` | stale executions are detected, calls and kept outputs are fresh, with two calls | 3 entries and a helper, 2 calls, 1 edit |
| `LoaderHosts` | the guard is up exactly while modules run; watch mode's outputs catch up; what the SWC bridge leaves stale is still to be handed in; everything comes to rest | 4 files, 3 loads (one the initial generation), in four scenarios: `watch` with 2 edits, or 3 of the schema file; SWC with 2 concurrent calls and 1 edit, or one call at a time and 2 edits; 179 582 states |
| `JitSlots` | reads and writes of a schema under `jit()` are those of one that is not, accessors compile or serve, no call recurses for ever | 2 copies, 4 slots, 2 operations, 1 limit; 374 480 states |
| `FileTransform` | no schema file is skipped; the rewritten module initialises and gives each schema its own validator; hoisting keeps the meaning of names; the crawl covers what execution loads | 1 140 859 states: files of 4 statements over 2 locals, of 7 parts of declarations, chains of 3 parts, 3 paths and 1 change |
| `CodegenPaths` | `safeParse`, `parse` and `is()` agree with the slow walk on every input, and the analyses hold | two constructors of 17 kinds around a leaf or tagged object: 11 587 schemas, 33 inputs |
| `CodegenGuard` (violated) | `is()` disagrees with `safeParse` on a refined object | |
| `CodegenTag` (violated) | a switched option is accepted without its tag | |

Properties, in words, are at their definitions. Those of `PluginBuild` speak of
*sound* results (`Sound`): not of one whose files changed under its own
transform before the watcher could say so (`raced`), nor of one whose modules
were evicted before they were recorded (`evicted`). That such results exist and
are served is what `BuildStraddler` shows; that nothing else can be stale is
what the passing runs show. The exceptions of `WatchIsCurrent` and
`StaleIsUnfed` are of the same kind and are told under *Limits*.

### The bounds

A thread that has ended is replaced by another identity, hence one more
thread than the pool's size. A pool of two workers and three calls has a queue, a worker that
frees itself for the queue, a pool that grows again after a death, and the breaker
at two tripping while the third call waits; in a pool of one a call waits for a
worker that dies, which is what `EverySettles` needs.

One edit is enough to make anything stale; two restore a former content, which
is the only way the mtimes of an old dependency set come back into play. One
restart separates what is on disk from what is in memory. One fault
removes a dependency set that an entry names, or the entry, or fails one of the
two writes.

Three loads let two flushes overlap besides the initial generation; with
two edits a file is edited again while its flush is under way, so that two generations
of it write in either order, and with three it is edited once more after that: a file
that was overtaken is held current again. For SWC one edit makes a module stale under
two calls, and two undo one between two calls. In `JitSlots` a
trigger is spent by the first operation and met again by the second; in between the
target can be frozen once. safeParse stands for both synchronous methods and
safeParseAsync for both asynchronous ones. Four statements are what it takes to declare two names, give
both one value and export it; seven parts of a module, two declarations that refer to each other and are
exported, one with a delegated part.

Of schemas, two constructors put every kind inside every other; what a node
needs to know of its children it reads off their records, so a disagreement
shows where the two meet. The runs set `MinAutoDiscriminate` to 2, so that a union of the
two options there are is dispatched; the code has 5, and the theorems are of any value.

Larger instances have been run once without a violation: `JitSlots` with
`MaxOps = 3` (1.63 million states), `FileTransform` with `MaxChanges = 2`,
crawl only (302 013 states), `LoaderHosts`, its invariants only, with 2 edits of
any file and three calls in either host (1.49 million states).

`MaxInvalidations`, `MaxEdits`, the `edits`, `edited` and `calls` of a scenario, `MaxRestarts`, `MaxFaults`, `MaxOps`,
`MaxLimits`, `MaxDepth` (of `JitSlots` a stack that code which recurses for ever
outgrows, so that it stops there and `CallsReturn` fails), `MaxStatements`,
`MaxWords`, `MaxParts`, `MaxChanges`, `MaxDepth` of `Codegen` and `Feeds` (the
first schema of a pipe produces values among `Values`) are the only bounds in
guards. Deadlock is not checked where what users do is finite
and the system stops when it is answered; it is checked in `HostLoader`.

### Fairness

`FairSpec` of `TransformPool`: the event loop gets back to a loop it
has begun and delivers what has been posted (weak fairness of `Drain`,
`OnMessage`, `OnWorkerGone`), which Node guarantees; and a live worker handles
its messages and ends its transforms (weak fairness of `WorkerStep`). The latter
is an assumption: a schema file that never stops executing hangs its worker,
the code has no timeout. Nothing is assumed of `Die`.

`MCLoaderHosts`: timers fire and file events are delivered (`Timer`), and a load
or a call that can go on does (`Proceed(l)`, each by itself), with the same
assumption about files that never stop executing. Nothing is assumed of edits.

`JitSlots`: weak fairness of `Step`. A call that has begun runs on, since the
code is synchronous; nothing is assumed of the user.

### What the violated runs say

1. `BuildStraddler`: "the file is recomputed either way" is said of a transform
   under way during `watchChange`. It stores its result after the cache was
   cleared. If what was edited is a module the file *imports*, the file's own code is
   still the same, and the next call is given the result made from the old import.
   (An edit of the file itself is found at `index.ts:202`, which compares the code;
   the property asks nothing of that case.)
2. `CodegenGuard`: an object's `.refine()` runs on the raw input in the fast
   check and on the rebuilt object in the two other programs. With
   `z.object({a: z.string()}).refine(o => Object.keys(o).length === 1)` and an
   input with a second key, `safeParse` succeeds and `is()` is false.
3. `CodegenTag`: an option of a switch omits all checks of its tag. A tag of
   `z.undefined()` or `z.literal(undefined)` is a required key all the same, and
   an input without it is accepted by the fast check and the build pass.

### Divergences

Where the code does not do what its documentation says, beside the three runs.
Those in the table are members of the constants of `MCFileTransform` or one step
away from a model; adding the member to the run's configuration gives the
counterexample.

| Where | What happens | What is said |
|---|---|---|
| `Overlooked` "list", `transform.ts:762-775` | `export const A = z.object(..), B = z.string();` A's initialiser is taken to reach to the end of the statement, so B is no longer declared | `transform.ts:857-862` |
| `Overlooked` "forward", `iife.ts:376-398` | a validator with a delegated part reads the schema's structure when it is made; a getter on the way names a binding that is declared later, and the module throws when it is loaded. `transform.ts:846` looks for the schema's own name only | `README.md:541` |
| `Overlooked` "self", `transform.ts:729-761` | `const Node = compile(z.object({ .., get children() { return z.array(Node) } }))` with a part left to Zod: the validator that replaces the call reads the shape, and with it `Node`, inside Node's own initialiser. Only the pass over the other exports asks whether an expression mentions the binding it initialises | `transform.ts:826-845`, of the other pass |
| `Overlooked` "alias", "local" | a declaration is looked for by its exported name, the first `const Name =` in the text: with `export { A as B }`, or a local of that name in an earlier function, another expression is replaced | |
| `Overlooked` "catchall" (with `MaxWords = 8`), `dedupe.ts:242` | the children of an object omit its catchall, so one that is left to Zod goes unseen: the shared walk names `__rf`, which only exists inside the validator of one export | `dedupe.ts:16-22` "No per-export references" |
| `Blind` "default" | the default of a parameter is not visited: `(x = local) => ..` captures a local unseen | `hoist.ts:22-24` |
| `Blind` "function" | function declarations inside a function are not collected as names bound there | `hoist.ts:22-28` |
| `Unnoticed` "reassigned" | `let s = null; s = z.string(); export const b = s;` is skipped: only the initialiser is looked at | `static-filter.ts:27-31` |
| `Unnoticed` "chained" | `let a; const n = a = {}; mutate(a); export { n as x }` is skipped: once an alias is resolved only the last name is looked up among the references, not the other one the container was given (`static-filter.ts:170-177`). The attempt to prove `FilterIsSound` found this; it needs four statements, and the run had three | `static-filter.ts:26-27` "a filter miss costs one execution, never a schema" |
| `Unnoticed` "aliased" | `const o = {}; export const a = o; mutate(a)` is skipped: the alias is replaced by what it leads to before references are looked up | `static-filter.ts:181-184` |

`Hidden` is of another kind: specifiers that the crawl does not see and
execution follows. There are three: a workspace package that is ESM only,
`import("./dir/" + x)` and `import"./x"` without a space.

Found while reading, with no run of their own:

- The import of `compile()` is removed whatever becomes of the calls
  (`transform.ts:759`). A call whose extraction failed, or that is not exported,
  stays in the text and throws a ReferenceError, where `transform.ts:500` warns
  "Keeping original compile() call."
- The static filter does not end on the value of a compound assignment, as in
  `export const db = (globalThis.db ??= create())` (`static-filter.ts:225`):
  the RangeError is not caught at `transform.ts:421`.
- `createSharedSchemaPlan` stands outside the try that each schema has
  (`pipeline.ts:182`): code generation that throws in a shared schema fails
  the whole file.
- With `parallel`, the eviction on changed content (`index.ts:210`) reaches the
  loader of the plugin's process and not the workers', although it is said to
  drop stale executions (`index.ts:208`).
- With `schemas: "explicit"`, a transform that throws skips the stamping of the
  modules it executed (`turbopack.ts:280`, against `turbopack.ts:110`), and an
  edit of one of them is not noticed by the next call.
- `firstPartyModulePaths()` misses what a transform executed before an
  `invalidate()` that fell into it, although it is documented as a superset:
  `CoveredIfSentSince` is restricted to tasks sent since.

### Limits

What the code does not promise, and the properties except by name.

- Plugin: the transform of `BuildStraddler` also reaches `saveDeferred` after
  `dropDeferred`. A module edited between its execution and its *first* stamp
  gets the post-edit stamp (`pinned`); `StaleIsDetected` and `CallIsFresh` show
  that this and the explicit mode above are the only ways to a stale execution
  in a loader host.
- `watch`: an edit made before the watchers exist is not seen (`lost`). Only
  changed files are regenerated, not those that import them. When two overlapping flushes generate the same
  file, the older may write last (`overtaken`): its output stays as it is until the file is generated again. A file that stops exporting
  schemas keeps its old output. What a native entry imports carries no generation
  (`loader.ts:136-140`) and is never executed again.
- SWC bridge: the first text handed in for a file that was executed before, as
  an import, from another text invalidates nothing (`ahead`); neither does an
  edit that is undone before it is handed in. A load under way when the cache is
  emptied leaves stale modules in it (`straddled`), so the claim of
  `swc.ts:108-116` does not hold of those.
- JIT: `refused` is fixed from the start. A wrapper that begins to refuse
  accessors after two copies are installed can undo a user's write.

## 4. What is proved

Theorems hold for every value of the constants: every number of calls, workers,
modules, files and loads, every import graph, every bound and, of `MCLoaderHosts`,
every set of scenarios.

`TransformPoolProofs`:

- `TypeCorrect`: the type invariant.
- `OwnershipCorrect`: `PendingIsOwned`.
- `NoLostWakeup` and `ProcessHeldCorrect`: `NoIdleWhileQueued`,
  `ProcessHeldIffPending`.
- `BreakerCorrect`: the action property `NoWorkAfterBreaker`.
- `PoolImplementsService`: `TransformPool` implements `TransformService`.

`TransformPoolThreadProofs`:

- `OneTransformCorrect`: `OneTransformPerWorker`.
- `FreshCorrect`: `FreshAfterInvalidate`.
- `CoveredCorrect`: `CoveredIfSentSince`.

`PluginBuildProofs`:

- `BuildTypeCorrect`: the type invariant.
- `MemoryCorrect`: `MemoryIsFresh`.
- `HashesCorrect` and `CoversCorrect`: `HashesMatchResult`, `DepsetCovers`.
- `MemosCorrect` and `FastPathCorrect`: `MemosAreCurrent`, `FastPathIsSound`.

`TurbopackLoaderProofs`:

- `HostTypeCorrect`: the type invariant.
- `StampsCorrect`, `CallCorrect`, `OutputCorrect`: `StaleIsDetected`,
  `CallIsFresh`, `OutputIsFresh`.

`LoaderHostsProofs`:

- `HostsTyped`: the type invariant.
- `GuardCorrect`: `GuardIsSound`.
- `StaleCorrect`: `StaleIsUnfed`.
- `WatchCorrect`: `WatchIsCurrent`.

`JitSlotsProofs`:

- `JitTyped`: the type invariant.
- `JitSlotsArePlain`: `SlotsArePlain`.
- `JitAccessorsServe`: `AccessorsServe`.

All three are read off `JitIsFaithful`, the inductive invariant.

`FileTransformProofs`, the last five for files that do nothing the code
overlooks (`Hidden`, `Unnoticed`, `Blind`, `Overlooked` empty). That condition
cannot be dropped: each of their members makes the property fail.

- `FileTyped`: the type invariant, whatever a file may do.
- `CompleteCrawlCovers`: `CrawlCovers`.
- `FilterNeverMisses`: `FilterIsSound`.
- `HoistingIsSafe`: `HoistIsSafe`.
- `RewriteInitialises` and `RewriteIsOwn`: `OutputInitialises`, `OwnValidator`.

None of them is inductive as it stands.

`PendingIsOwned` speaks of the main thread's books, and a
reply could free a call it has nothing to do with. `OwnershipInv` adds the
*trail* of a task at its worker: its request in the inbox, its job, its reply in
the outbox, at most one of them, and only where the books say the worker is busy
with it. `SchedulingInv` adds that the pool never exceeds its size and that the
referenced workers of the pool are the busy ones. Both are preserved action by
action (`RunOwned`, `DrainOwned`, ..., `RunScheduled`, ...). The refinement
needs `OwnershipInv`, because `Dispose` settles what is queued and in flight
while the service's `Close` settles what is pending.

`SoloInv` bounds the trail: request, job and reply of a worker together are at
most one, and those of a worker of the pool are of the task it is busy with. The
worker does not see to that; only the main thread's busy flag does. `FreshInv`
relates the order of an inbox to what is stale: a task that was sent
after the last invalidation has its worker's invalidation request before it in
the inbox, or the worker has nothing stale left. `CoverInv` follows a module
from its execution to the main thread's `executed`: it is reported, or in a
reply under way, or will be in the delta of the job that has it; the
hard step is the reply of a transform that began before an invalidation.

`BuildInv` has a part for each thing that is remembered. `MemoInv`: a remembered
hash goes with a remembered mtime, and with the file's *present* mtime it is of
the present content. That is stronger than `MemosAreCurrent`, which is silent
about files whose change is unannounced, and it is what makes a dependency set
written meanwhile harmless: its mtime no longer matches. `FastPathIsSound` is
part of it, because a verdict rests on it. `CallInv`: the loaders
hold files as they are, but for unannounced changes, and a call sees them so
unless it was raced, with its modules still in its loader unless they were
evicted. `PendingInv`: what is deferred is covered by the superset it will be
written with. `EntryInv` pairs a result on disk with its hashes; a set that
validates is of the present contents (`ValidateKeeps`), so the result is. Nothing
is assumed of what the directory loses. `BuildInv` says nothing of bounds; the
type invariant adds them (`CountsKept`, `ValuesKept`).

`LoaderInv` adds to the properties of `TurbopackLoader` that no stamp is of a
later mtime than there has been, so that an edit always shows; that nothing a call
reads is stamped as it was before the call; and that an output declares all it
was made of, which for an entry with an incomplete crawl only its being
uncacheable ensures.

`GuardInv`: `guardDepth` is the number of running loads, and what the guard
saved is what was there before the first. It needs `Loads` to be finite, hence
that assumption. `FedInv`: a cached execution that is not excepted equals the
text last handed in for each module it saw, and so does what a load has seen
that did not straddle an invalidation; the property follows, since an execution
that differs from the file then differs in what was last handed in.
`WatchInv`: an edit not yet flushed is still to be noticed, is pending, or was
`lost`; every content that a cached module or a load under way was executed from is
the present one or its file's edit is still to be flushed, but for what straddled
a flush; and a file's output is of its present content, or its edit is still owed, or
the newest generation under way will bring it, unless one that it overtook wrote last.
`WatchIsCurrent` is that invariant where nothing is owed.

Of a file's transform, each property follows from an invariant that says what
the code does not write down:

- The crawl (`GraphInv`): a memo says what *could* have been found since the
  watcher last spoke. `Could` is a weaker statement than the memo being right, it is
  what an edit, a removal or an unreported creation preserves, and where
  nothing is unreported it is what execution finds.
- The filter (`FilterInv`): a local whose initialiser is still what it holds was
  made where it was declared; a container that code has got hold of was made by
  a statement one of whose names is referenced (`Contained`). A value is followed back to a
  statement by a least counterexample among the lines (`SafeNames`).
- Hoisting (`HoistInv`): what a name in a hoisted chain means is decided by the
  bindings around it. None of them is a parameter or a local, since
  `collectBoundNames()` has those, nor one `analyzeCaptures()` does not visit
  (`ChainSeen`, `UsesSeen`). What is consumed of the text reaches the end of each
  construction (`HoistsApart`).
- The rewrite (`RewriteInv`): names are declared once, references lead to
  declarations, and none to a later one once a part is left to Zod
  (`NoneForward`), so extraction descends in the text (`WalksDescend`) and a getter on the
  way can name no later schema than the one compiled. Where it names that one, the validator is
  put after it; a `compile()` call has no such place, and one that names itself has nothing
  left to Zod (`NoneSelfReferring`). For what is
  shared, the part of a walk below a shared schema, and the way back round to it, are walks
  themselves (`Turned`): the code looks at the walks from the schema only,
  and would have seen either.

`JitInv` relates three things that the code of `jit()` never compares: the calls
under way, the snapshots that copies of `jit()` hold of one another, and the
twin. The copies a read of a slot can come to form a *chain* (`Chain`): the copy whose
accessor is on the slot, the one whose accessor that copy's snapshot holds, and
so on, stated as the smallest closed set so that no recursion is needed.

- `Fronts`: a pending copy is in the chain of *every* slot (`Fronting`), which is why
  one trigger is enough for all of them and cancelling it for one slot only would
  not be. What a pending copy holds of another is in no other place (`Layered`), so
  that putting a snapshot back neither loses an accessor nor makes a cycle. A copy
  that is spent and still fronts a slot is the last of its chain, on a target
  that refuses an operation (`Spent`); `AccessorsServe` is that where nothing is
  under way.
- `Faithful`: what a slot holds, and what any snapshot in its chain would put back, is
  what the twin has there, or was made by a copy that was given the schema since
  (`Matches`, `Fits`). It is suspended for a slot whose twin has been written while
  the write is under way (`Judged`), and for all of them while a build installs.
- `Calls`, `OnTop`, `Deep`: who may call whom, that the operation of the user is at
  the bottom of the stack, what holds of the call on top at each stage, and what
  every call below still needs when it goes on: a read past its trigger belongs to
  a copy that is not pending, a validator past its first reads installs itself while
  nothing is pending (`Quiet`).
- `Operations`: what is left to be done of a write and of a build's install.

`SlotsArePlain` is `Answer`, what a read has come to when it gives its answer, carried
down the stack to the user's read. The proof goes by action; for each there is
a lemma per part of `JitInv` that the action disturbs, and the lemmas about chains
(what `Restored`, `Installed` and a change of one slot make of them) are shared. To
be proved the invariant asks nothing of which slots there are but that
`safeParse` is one, nor of the order in which they are given.

`CodegenProofs`:

- `TypeCorrect`: the type invariant.
- `NodesCompose`: a node whose children are good is compiled to a good schema.
- `GoodAlways`: every schema that the author composes is good.
- `ResultsMatchWalkAlways`, `GuardIsExactAlways`, `ChildrenAreKnownAlways`:
  `ResultsMatchWalk`, `GuardIsExact`, `ChildrenAreKnown`.

A program of a node is made of its children's programs, so what is proved is an
induction over the construction of schemas; each step of a behaviour is one step of
it. `ChildrenAreKnown` is not inductive. It says nothing of what the *parent's*
analyses conclude from several answers at once, nor of the tables that a switch
uses. `Good` adds what is missing:

- `Flags`: the analyses agree with one another. What rewrites is rebuilt or is
  beyond the build pass, what is scrubbed is rebuilt, a schema that makes something of an
  absent key is not optional on both sides. Without the last, an object passed by reference
  might owe its reader a key that the input does not have.
- `Returns`: a schema that does not rewrite, but scrubs inside, returns primitives
  as they are and anything else as something of its kind. An intersection that
  rejects undefined because one side does needs it of the other side.
- `Decides`: when a form of the fast check has the last word. A parent never asks a
  form of its children where they do not decide (`KidVerdicts`), nor trusts a
  by-reference pass that they do not earn (`KidByReference`).
- `Pinned` and `Options`: the values a literal stands for are what it accepts, and
  an object entered from a switch with a dispatched value is checked and rebuilt as
  it would be outside. This is where a tag that must be present and accepts
  undefined breaks the proof.
- `Defaults`: what applies a default accepts undefined, and what is fresh stands for
  no set of values.

`NodeIsGood` reduces a node to six statements about its kind (`Node`), and there is a
lemma per kind (`OptionalNode`, `UnionNode`, `ObjectGood`, ...). `WellFormed` says
what a node of each kind is. `NodesCompose` takes children of *any* kind, while a
step of `Spec` puts the schema next to leaves and tagged objects only; objects,
tuples and unions of any width are covered by it too. `StepComposes` shows
that every step of `Spec` compiles a well-formed node.

The last four theorems assume `~AnyRefine` and `~AnyTag`. Neither can be dropped: the runs
`CodegenGuard` and `CodegenTag` refute two of them with one of the two constants
set. `NodesCompose` carries the same conditions in `WellFormed`, as what a
refined object and a tag must be.

An induction over data (lines, walks, closures) is done with `Least`: a
nonempty set of naturals has a least element, and the least counterexample
contradicts the step; so are the two places in `CodegenProofs` that need one, that `Keyed` of
entries with different keys changes nothing and that a chosen option is the first.

The assumptions are those declared in the modules: `NoTask` is no task, names
that stand for nothing are none of the others, workers, sources
and loads are finite, size and threshold are positive, slots are among those of
`jit.ts`, `Imports` is reflexive and transitive, the inputs of the generated
programs are closed under what is read of them (above), and constants have their types.

Only model-checked: `EverySettles`, `ComesToRest` and `CallsReturn`, which are
liveness under fairness; the prover does not do that. Of the violated runs there is
nothing to prove.

## 5. Not modelled, and why

- Register hooks: `jit()` and hoisting per file; the hooks keep nothing between
  two files.
- Diagnostics, argument parsing, `check`, the text of outputs, source maps,
  the layout of generated code and type-level code: no state, no decision
  another part depends on.
- Of code generation: the other leaf kinds and their format checks, sizes of strings,
  recursion, superRefine, compact output, intersections of objects compiled around a delegate, lists
  of issues, the order of keys, the size gate that splits functions. Values are
  compared by what the programs return; these differ in how much text is emitted
  or in checks that all programs take from one place.
- Of shared walks: how much a schema must weigh, and the same schema twice under one
  object.
- Of hoisting and of the filter: the scanner and the parser. Where a chain ends is
  given; destructuring and sequences, which the filter does not follow, make a
  file a candidate.
- Of the disk cache: what a concurrent process writes, and the ages after which
  the sweep removes a file.
- Of the loader: one tsconfig instead of several, path-alias candidates.

Worth doing next: the kinds of schema that `Codegen` leaves out, a lemma of
`CodegenProofs` each, and recursive schemas, whose tables are a fixed point
instead of a construction.
