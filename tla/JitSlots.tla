------------------------------- MODULE JitSlots -------------------------------
(***************************************************************************)
(* Runtime compilation (src/jit.ts): the accessors jit() puts in front of  *)
(* a schema's methods, what they do when they are read or written, and the *)
(* factory __zcMkv (src/core/iife.ts) that a compiled validator installs   *)
(* itself with.                                                            *)
(*                                                                         *)
(* A property read can run an accessor, which compiles, which reads and    *)
(* assigns slots, which can run accessors again: the code is sequential    *)
(* but re-entrant. It is modelled as a machine with a call stack, one      *)
(* action per stage of a call; user operations begin on an empty stack.    *)
(* A module may be loaded twice, so there are several copies of jit().     *)
(* The target may be frozen, have a slot locked, or be a wrapper that      *)
(* refuses a kind of operation, always the same.                           *)
(*                                                                         *)
(* Beside the schema runs its twin (plain, plainThrew): the same schema    *)
(* under the same operations, never given to jit().                        *)
(***************************************************************************)
EXTENDS Naturals, Sequences, FiniteSets, SequencesExt

CONSTANTS
  Copies,      \* instances of this module in one process
  Slots,       \* the slots modelled, in the order jit() installs accessors
  MaxOps,      \* bound: reads, writes, builds and switches in one behaviour
  MaxLimits,   \* bound: operations that make the target accept less
  MaxDepth     \* bound: the stack a machine with a finite one has

AllSlots == <<"parse", "safeParse", "parseAsync", "safeParseAsync", "is", "~standard">>

ASSUME SlotsAssumption  == Slots \in Seq(ToSet(AllSlots)) /\ "safeParse" \in ToSet(Slots)
ASSUME CopiesAssumption == Copies \cap {"zod", "user", "aot", "undefined", "none"} = {}
ASSUME BoundsAssumption == MaxOps \in Nat /\ MaxLimits \in Nat /\ MaxDepth \in Nat

VARIABLES
  own,         \* the target's own property per slot
  extensible, frozen, locked,
  refused,     \* the kind of operation a wrapper around the target refuses
  jitless,     \* z.config({ jitless }), or no runtime evaluation at all
  compilable,  \* the pipeline yields a validator for this schema
  copy,        \* what each copy of jit() keeps of this schema
  stack, ret,  \* the calls under way, and what the last one came to
  op, ops,     \* the user operation under way or last finished; how many count
  plain, plainThrew,  \* ghost: the twin's slots; its answer to op
  after        \* ghost: who may have replaced a slot's value since the twin's was set:
               \* copies given the schema, or a write that only the twin refuses

target == <<own, extensible, frozen, locked, refused>>
ghosts == <<plain, plainThrew, after>>
vars   == <<target, jitless, compilable, copy, stack, ret, op, ops, ghosts>>

SlotSet == ToSet(Slots)
Methods == {"parse", "safeParse", "parseAsync", "safeParseAsync"}  \* on Zod's prototype
Makers  == {"zod", "user", "aot"} \cup Copies

(* A property descriptor. A value is named by who made it.                   *)
Absent     == [k |-> "absent", v |-> "undefined", w |-> FALSE]
Data(v, w) == [k |-> "data", v |-> v, w |-> w]
Lazy       == [k |-> "lazy", v |-> "zod", w |-> FALSE]   \* Zod's own accessor
Acc(c)     == [k |-> "acc", v |-> c, w |-> FALSE]

Fresh == [seen |-> FALSE, pending |-> FALSE, snap |-> [s \in SlotSet |-> Absent],
          reading |-> {}, stranded |-> [s \in SlotSet |-> "none"]]

Pristine == [s \in SlotSet |-> IF s = "~standard" THEN Lazy ELSE Absent]

Init ==
  /\ own = Pristine /\ plain = Pristine
  /\ extensible = TRUE /\ frozen = FALSE /\ locked = {}
  /\ refused \in {{}, {"data"}, {"accessor"}, {"delete"}}
  /\ jitless \in BOOLEAN /\ compilable \in BOOLEAN
  /\ copy = [c \in Copies |-> Fresh]
  /\ stack = << >> /\ ret = [threw |-> FALSE, v |-> "undefined"]
  /\ op = [kind |-> "none", s |-> Slots[1]] /\ ops = 0
  /\ plainThrew = FALSE /\ after = [s \in SlotSet |-> {}]

-----------------------------------------------------------------------------
(* What the target accepts, o being its own properties.                      *)

Accepts(kind, s, o) ==
  /\ kind \notin refused /\ ~frozen /\ s \notin locked
  /\ o[s] # Absent \/ extensible
MayDelete(s) == "delete" \notin refused /\ ~frozen /\ s \notin locked
KindOf(d)    == IF d.k = "data" THEN "data" ELSE "accessor"

(* restore(): slot by slot, what the snapshot holds, where it is accepted.   *)
Restored_ValueOnly(snap, o) ==
  [s \in SlotSet |->
     CASE snap[s] = Absent /\ MayDelete(s)                         -> Absent
       [] snap[s] # Absent /\ Accepts(KindOf(snap[s]), s, o)        -> [snap[s] EXCEPT !.w = FALSE]
       [] OTHER                                                    -> o[s]]
Restored(snap, o) ==
  [s \in SlotSet |->
     CASE snap[s] = Absent /\ MayDelete(s)                         -> Absent
       [] snap[s] # Absent /\ Accepts(KindOf(snap[s]), s, o)        -> snap[s]
       [] OTHER                                                    -> o[s]]

Return(v, rest) == ret' = [threw |-> FALSE, v |-> v] /\ stack' = rest
Throw(rest)     == ret' = [threw |-> TRUE, v |-> "undefined"] /\ stack' = rest

ReadFrame(c, s)        == [f |-> "read", c |-> c, s |-> s, pc |-> "enter", nested |-> FALSE]
SetFrame(c, s, v)      == [f |-> "set", c |-> c, s |-> s, pc |-> "cancel", v |-> v]
MkvFrame(by)           == [f |-> "mkv", by |-> by, pc |-> 1]

(* Zod's prototype getter binds the method and installs the copy.            *)
ProtoGet(s, rest) ==
  IF s \notin Methods THEN Return("undefined", rest) /\ UNCHANGED own
  ELSE IF Accepts("data", s, own)
       THEN own' = [own EXCEPT ![s] = Data("zod", TRUE)] /\ Return("zod", rest)
       ELSE Throw(rest) /\ UNCHANGED own

(* target[s], what it comes to being left to the calls in rest.              *)
Get(s, rest) ==
  CASE own[s].k \in {"data", "lazy"} -> Return(own[s].v, rest) /\ UNCHANGED own
    [] own[s].k = "acc"    -> /\ stack' = Append(rest, ReadFrame(own[s].v, s))
                              /\ UNCHANGED <<own, ret>>
    [] own[s].k = "absent" -> ProtoGet(s, rest)

(* Does an assignment to property d of slot s succeed, and leave it writable? *)
Assignable(d, s, o) == Accepts("data", s, o) /\ (d.k = "data" => d.w)

(* target[s] = v. Only sloppy code gets away with writing what is read-only. *)
Assign(s, v, strict, rest) ==
  IF own[s].k = "acc"
  THEN stack' = Append(rest, SetFrame(own[s].v, s, v)) /\ UNCHANGED <<own, ret>>
  ELSE IF Assignable(own[s], s, own)
       THEN own' = [own EXCEPT ![s] = Data(v, own[s].k # "lazy")] /\ Return(v, rest)
       ELSE /\ UNCHANGED own
            /\ IF strict \/ "data" \in refused \/ own[s].k = "lazy" \/ (s \in Methods /\ own[s] = Absent)
               THEN Throw(rest) ELSE Return(v, rest)

Top  == Last(stack)
Rest == Front(stack)
At(f, pc) == stack # << >> /\ Len(stack) <= MaxDepth /\ Top.f = f /\ Top.pc = pc
Goto(pc)  == Append(Rest, [Top EXCEPT !.pc = pc])

-----------------------------------------------------------------------------
(* A validator that installs itself: the statements of the IIFE that touch   *)
(* the target, as far as its slots are modelled; extract, which is of no slot *)
(* in particular, is what the pipeline does before there is a validator.     *)

Statements ==
  <<[o |-> "extract", s |-> "safeParse"],
    [o |-> "read", s |-> "safeParse"],        \* what compact output retains
    [o |-> "read", s |-> "parseAsync"], [o |-> "read", s |-> "safeParseAsync"],
    [o |-> "assign", s |-> "parse"], [o |-> "assign", s |-> "safeParse"],
    [o |-> "assign", s |-> "safeParseAsync"], [o |-> "assign", s |-> "parseAsync"],
    [o |-> "assign", s |-> "is"], [o |-> "define", s |-> "~standard"]>>

CodegenAllowed == ~jitless /\ compilable

(* jit() swallows what compiling throws; a build's module lets it through.   *)
Swallowed_Never(by) == FALSE
Swallowed(by)       == by # "aot"

MkvStep ==
  /\ stack # << >> /\ Len(stack) <= MaxDepth /\ Top.f = "mkv"
  /\ UNCHANGED copy
  /\ LET by   == Top.by
         i    == Statements[Top.pc]
         next == Goto(Top.pc + 1)
     IN IF ret.threw
        THEN ret' = [ret EXCEPT !.threw = ~Swallowed(by)] /\ stack' = Rest /\ UNCHANGED own
        ELSE IF Top.pc > Len(Statements) THEN Return("undefined", Rest) /\ UNCHANGED own
        ELSE IF i.s \notin SlotSet THEN stack' = next /\ UNCHANGED <<own, ret>>
        ELSE CASE i.o = "extract" ->       \* a getter of the schema may run user code
                    \/ Return("undefined", next) /\ UNCHANGED own
                    \/ by # "aot" /\ \E s \in SlotSet : Get(s, next)
               [] i.o = "read"   -> Get(i.s, next)
               [] i.o = "assign" -> Assign(i.s, by, by = "aot", next)
               [] i.o = "define" ->
                    IF Accepts("data", i.s, own)
                    THEN own' = [own EXCEPT ![i.s] = Data(by, own[i.s].w)] /\ Return(by, next)
                    ELSE Throw(next) /\ UNCHANGED own

-----------------------------------------------------------------------------
(* The accessors.                                                            *)

(* trigger(): the first read of any slot puts every slot back and compiles.  *)
Trigger(c) ==
  IF copy[c].pending
  THEN /\ own' = Restored(copy[c].snap, own)
       /\ stack' = Goto("look") \o (IF CodegenAllowed THEN <<MkvFrame(c)>> ELSE << >>)
  ELSE stack' = Goto("look") /\ UNCHANGED own

Serving == stack' = Append(Rest, [Top EXCEPT !.pc = "serve", !.nested = TRUE])

ReadEnter_Always(c, s) ==
  /\ At("read", "enter") /\ Top.c = c /\ Top.s = s
  /\ copy' = [copy EXCEPT ![c].reading = @ \cup {s}, ![c].pending = FALSE]
  /\ Trigger(c) /\ ret' = [ret EXCEPT !.threw = FALSE]

(* read(): a read that finds itself under way serves Zod's method.           *)
ReadEnter(c, s) ==
  /\ At("read", "enter") /\ Top.c = c /\ Top.s = s
  /\ ret' = [ret EXCEPT !.threw = FALSE]
  /\ IF s \in copy[c].reading
     THEN Serving /\ UNCHANGED <<own, copy>>
     ELSE /\ copy' = [copy EXCEPT ![c].reading = @ \cup {s}, ![c].pending = FALSE]
          /\ Trigger(c)

(* stillFrontedBy(): the handover did not take, or the slot is read again.   *)
ReadLook(c, s) ==
  /\ At("read", "look") /\ Top.c = c /\ Top.s = s
  /\ UNCHANGED copy
  /\ IF own[s] = Acc(c) THEN stack' = Goto("serve") /\ UNCHANGED <<own, ret>>
                        ELSE Get(s, Goto("give"))

(* fromZod(): what the snapshot holds, or the prototype's method, through a  *)
(* stand-in where the target refuses the bound copy.                         *)
FromZod_Direct(d, s) ==
  CASE d.k \in {"data", "lazy"} -> Return(d.v, Goto("strand")) /\ UNCHANGED own
    [] d.k = "acc"    -> /\ stack' = Append(Goto("strand"), ReadFrame(d.v, s))
                         /\ UNCHANGED <<own, ret>>
    [] d.k = "absent" -> ProtoGet(s, Goto("strand"))
FromZod(d, s) ==
  IF d.k = "absent" /\ s \in Methods /\ ~Accepts("data", s, own)
  THEN Return("zod", Goto("strand")) /\ UNCHANGED own
  ELSE FromZod_Direct(d, s)

(* serveZod(): what a stranded accessor serves is resolved once.             *)
ReadServe(c, s) ==
  /\ At("read", "serve") /\ Top.c = c /\ Top.s = s
  /\ UNCHANGED copy
  /\ IF copy[c].stranded[s] # "none"
     THEN Return(copy[c].stranded[s], Goto("give")) /\ UNCHANGED own
     ELSE FromZod(copy[c].snap[s], s)

ReadStrand(c, s) ==
  /\ At("read", "strand") /\ Top.c = c /\ Top.s = s
  /\ stack' = Goto("give")
  /\ copy' = IF ret.threw THEN copy ELSE [copy EXCEPT ![c].stranded[s] = ret.v]
  /\ UNCHANGED <<own, ret>>

(* The finally block, and the answer to whoever read.                        *)
ReadGive_KeepsReading(c, s) ==
  /\ At("read", "give") /\ Top.c = c /\ Top.s = s
  /\ stack' = Rest /\ UNCHANGED <<copy, own, ret>>
ReadGive(c, s) ==
  /\ At("read", "give") /\ Top.c = c /\ Top.s = s
  /\ stack' = Rest
  /\ copy' = IF Top.nested THEN copy ELSE [copy EXCEPT ![c].reading = @ \ {s}]
  /\ UNCHANGED <<own, ret>>

(* cancel(): a write before any read ends it, for every slot.                *)
SetCancel_StillPending(c, s) ==
  /\ At("set", "cancel") /\ Top.c = c /\ Top.s = s
  /\ own' = IF copy[c].pending THEN [own EXCEPT ![s] = Restored(copy[c].snap, own)[s]] ELSE own
  /\ stack' = Goto("write") /\ UNCHANGED <<copy, ret>>
SetCancel_OneSlot(c, s) ==
  /\ At("set", "cancel") /\ Top.c = c /\ Top.s = s
  /\ own' = IF copy[c].pending THEN [own EXCEPT ![s] = Restored(copy[c].snap, own)[s]] ELSE own
  /\ copy' = [copy EXCEPT ![c].pending = FALSE]
  /\ stack' = Goto("write") /\ UNCHANGED ret
SetCancel(c, s) ==
  /\ At("set", "cancel") /\ Top.c = c /\ Top.s = s
  /\ own' = IF copy[c].pending THEN Restored(copy[c].snap, own) ELSE own
  /\ copy' = [copy EXCEPT ![c].pending = FALSE]
  /\ stack' = Goto("write") /\ UNCHANGED ret

(* The setter's write: an assignment, or a define over the accessor.         *)
SetWrite(c, s) ==
  /\ At("set", "write") /\ Top.c = c /\ Top.s = s
  /\ UNCHANGED copy
  /\ IF own[s] # Acc(c) THEN Assign(s, Top.v, TRUE, Rest)
     ELSE IF Accepts("data", s, own)
          THEN own' = [own EXCEPT ![s] = Data(Top.v, TRUE)] /\ Return(Top.v, Rest)
          ELSE Throw(Rest) /\ UNCHANGED own

Step ==
  /\ \/ MkvStep
     \/ \E c \in Copies, s \in SlotSet :
          \/ ReadEnter(c, s) \/ ReadLook(c, s) \/ ReadServe(c, s)
          \/ ReadStrand(c, s) \/ ReadGive(c, s)
          \/ SetCancel(c, s) \/ SetWrite(c, s)
  /\ UNCHANGED <<extensible, frozen, locked, refused, jitless, compilable, op, ops, ghosts>>

-----------------------------------------------------------------------------
(* What the user does.                                                       *)

Begin(kind, s) ==
  /\ stack = << >> /\ op' = [kind |-> kind, s |-> s]
  /\ IF kind \in {"jit", "limit"} THEN UNCHANGED ops ELSE ops < MaxOps /\ ops' = ops + 1

(* jit(): snapshot, then an accessor per slot; the first that is refused     *)
(* rolls all of them back.                                                   *)
Fronted(i) == \A j \in 1 .. i : Accepts("accessor", Slots[j], own)
Installed(c) ==
  [s \in SlotSet |->
     IF \E i \in DOMAIN Slots : Slots[i] = s /\ Fronted(i) THEN Acc(c) ELSE own[s]]
Snapshot(c) == [copy EXCEPT ![c] = [Fresh EXCEPT !.seen = TRUE, !.snap = own]]

Jit(c) ==
  /\ Begin("jit", Slots[1]) /\ ~copy[c].seen
  /\ IF Fronted(Len(Slots))
     THEN own' = Installed(c) /\ copy' = [Snapshot(c) EXCEPT ![c].pending = TRUE]
     ELSE /\ copy' = Snapshot(c)
          /\ own' = Restored(own, Installed(c))
  /\ after' = [s \in SlotSet |-> after[s] \cup {c}]
  /\ plainThrew' = FALSE /\ ret' = [threw |-> FALSE, v |-> "undefined"]
  /\ UNCHANGED <<stack, plain, extensible, frozen, locked, refused, jitless, compilable>>

JitEager(c) ==
  /\ Begin("jit", Slots[1]) /\ ~copy[c].seen
  /\ copy' = [copy EXCEPT ![c].seen = TRUE]
  /\ stack' = IF CodegenAllowed THEN <<MkvFrame(c)>> ELSE << >>
  /\ after' = [s \in SlotSet |-> after[s] \cup {c}]
  /\ plainThrew' = FALSE /\ ret' = [threw |-> FALSE, v |-> "undefined"]
  /\ UNCHANGED <<target, plain, jitless, compilable>>

(* What the twin does with a read and with a write.                          *)
PlainRead(s) ==
  LET binds == plain[s] = Absent /\ s \in Methods
  IN /\ plainThrew' = (binds /\ ~Accepts("data", s, plain))
     /\ plain' = IF binds /\ Accepts("data", s, plain)
                 THEN [plain EXCEPT ![s] = Data("zod", TRUE)] ELSE plain
PlainWrite(s) ==
  LET ok == Assignable(plain[s], s, plain)
  IN /\ plainThrew' = ~ok
     /\ plain' = IF ok THEN [plain EXCEPT ![s] = Data("user", plain[s].k # "lazy")] ELSE plain

UserRead(s) ==
  /\ Begin("read", s) /\ Get(s, << >>) /\ PlainRead(s)
  /\ UNCHANGED <<extensible, frozen, locked, refused, jitless, compilable, copy, after>>

(* A method: ~standard can be written once in Zod and never once compiled.    *)
UserWrite(s) ==
  /\ s # "~standard"
  /\ Begin("write", s) /\ Assign(s, "user", TRUE, << >>) /\ PlainWrite(s)
  /\ after' = [after EXCEPT ![s] = IF plainThrew' THEN @ \cup {"user"} ELSE {}]
  /\ UNCHANGED <<extensible, frozen, locked, refused, jitless, compilable, copy>>

(* The build's own __zcMkv runs where the schema is declared: nothing has    *)
(* been frozen, locked or wrapped yet.                                       *)
AotInstall ==
  /\ Begin("aot", Slots[1]) /\ extensible /\ ~frozen /\ locked = {} /\ refused = {}
  /\ \A s \in SlotSet : plain[s].k = "data" => plain[s].w \/ s = "~standard"
  /\ stack' = <<MkvFrame("aot")>> /\ ret' = [threw |-> FALSE, v |-> "undefined"]
  /\ plain' = [s \in SlotSet |-> Data("aot", s # "~standard" \/ plain[s].w)]
  /\ plainThrew' = FALSE /\ after' = [s \in SlotSet |-> {}]
  /\ UNCHANGED <<target, jitless, compilable, copy>>

Limits == Cardinality(locked) + Cardinality(refused)
          + (IF frozen THEN 1 ELSE 0) + (IF extensible THEN 0 ELSE 1)

Limit(kind) ==
  /\ Begin(kind, Slots[1]) /\ (kind = "limit" => Limits < MaxLimits)
  /\ ret' = [threw |-> FALSE, v |-> "undefined"]
  /\ plainThrew' = FALSE
  /\ UNCHANGED <<own, plain, after, stack, copy, compilable>>

Freeze == /\ Limit("limit") /\ ~frozen /\ frozen' = TRUE /\ extensible' = FALSE
          /\ UNCHANGED <<locked, refused, jitless>>
PreventExtensions == /\ Limit("limit") /\ extensible /\ extensible' = FALSE
                     /\ UNCHANGED <<frozen, locked, refused, jitless>>
(* Someone defines a slot that holds a value as it is, for good.             *)
Lock(s) == /\ Limit("limit") /\ s \notin locked /\ own[s].k = "data" /\ plain[s] = own[s]
           /\ locked' = locked \cup {s}
           /\ UNCHANGED <<extensible, frozen, refused, jitless>>
ToggleJitless == /\ Limit("config") /\ jitless' = ~jitless
                 /\ UNCHANGED <<extensible, frozen, locked, refused>>

User == \/ \E c \in Copies : Jit(c) \/ JitEager(c)
        \/ \E s \in SlotSet : UserRead(s) \/ UserWrite(s) \/ Lock(s)
        \/ AotInstall \/ Freeze \/ PreventExtensions \/ ToggleJitless

Next == Step \/ User

(* A synchronous call runs on until it returns.                              *)
Spec == Init /\ [][Next]_vars /\ WF_vars(Step)

-----------------------------------------------------------------------------
(* Properties. *)

Descriptors == {Absent, Lazy} \cup {Acc(c) : c \in Copies}
               \cup {Data(v, w) : v \in Makers, w \in BOOLEAN}

TypeOK ==
  /\ own \in [SlotSet -> Descriptors] /\ plain \in [SlotSet -> Descriptors]
  /\ copy \in [Copies -> [seen : BOOLEAN, pending : BOOLEAN, snap : [SlotSet -> Descriptors],
                          reading : SUBSET SlotSet,
                          stranded : [SlotSet -> {"zod", "user", "aot", "undefined", "none"} \cup Copies]]]
  /\ \A c \in Copies : stack = << >> => copy[c].reading = {}
  /\ after \in [SlotSet -> SUBSET (Copies \cup {"user"})] /\ ops \in 0 .. MaxOps

Idle == stack = << >>

(* A read of a slot gives what it would give had the schema never been handed *)
(* to jit(), or the method of a copy that was given the schema after the slot *)
(* was last set: an assignment is never undone by a compilation that was       *)
(* pending, no accessor, stub or undefined is ever handed out for a method,    *)
(* and a read throws only where Zod's own would.                               *)
ReadIsPlain ==
  op.kind = "read" /\ Idle
    => IF ret.threw THEN plainThrew
       ELSE \/ ret.v \in after[op.s]
            \/ ret.v = IF plainThrew THEN "zod" ELSE plain[op.s].v

(* A write is refused only where it would have been without jit().             *)
WriteIsPlain == op.kind = "write" /\ Idle /\ ret.threw => plainThrew

(* jit() itself never throws, though it runs at module scope.                  *)
JitDoesNotThrow == op.kind = "jit" /\ Idle => ~ret.threw

(* To a program that uses the schema, the slots are as Zod left them: they     *)
(* read, take an assignment and are handed to jit() without a difference but   *)
(* in who answers.                                                             *)
SlotsArePlain == ReadIsPlain /\ WriteIsPlain /\ JitDoesNotThrow

(* An accessor whose compilation is spent stays on a slot only where the       *)
(* target refused to have it replaced.                                         *)
AccessorsAreLive ==
  Idle /\ ~frozen /\ refused = {}
    => \A c \in Copies, s \in SlotSet \ locked : own[s] = Acc(c) => copy[c].pending

(* An accessor that is left where the target refuses to give it up serves      *)
(* Zod's method, also where Zod's own getter could not.                        *)
StrandedStillServe ==
  op.kind = "read" /\ Idle /\ own[op.s].k = "acc"
    => ~ret.threw /\ (op.s \in Methods => ret.v # "undefined")

(* An accessor that is still there either compiles or serves.                  *)
AccessorsServe == AccessorsAreLive /\ StrandedStillServe

(* Every read and write of a slot returns: accessors of several copies that    *)
(* serve one another never recurse without end.                                *)
CallsReturn == stack # << >> ~> stack = << >>

===============================================================================
