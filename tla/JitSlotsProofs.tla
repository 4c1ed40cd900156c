---------------------------- MODULE JitSlotsProofs ----------------------------
(* Machine-checked proofs about the accessors of jit(). The invariant relates  *)
(* the calls under way to the snapshots that copies of jit() hold of one       *)
(* another, and both to the schema's twin.                                     *)
EXTENDS JitSlots, SequenceTheorems, TLAPS

-----------------------------------------------------------------------------
(* The invariant *)

(* What calls return, and the frames a stack is made of. *)
Values     == Makers \cup {"undefined"}
ReadFrames == [f : {"read"}, c : Copies, s : SlotSet, nested : BOOLEAN,
               pc : {"enter", "look", "serve", "strand", "give"}]
SetFrames  == [f : {"set"}, c : Copies, s : SlotSet, pc : {"cancel", "write"}, v : Makers]
MkvFrames  == [f : {"mkv"}, by : Copies \cup {"aot"}, pc : 1 .. 11]
Frames     == ReadFrames \cup SetFrames \cup MkvFrames

Kinds == {"none", "read", "write", "jit", "aot", "limit", "config"}

(* Only ~standard is ever Zod's own accessor, or a value that is read-only. *)
Plainly(d, s) == s # "~standard" => d.k # "lazy" /\ (d.k = "data" => d.w)

Typed ==
  /\ own \in [SlotSet -> Descriptors] /\ plain \in [SlotSet -> Descriptors]
  /\ copy \in [Copies -> [seen : BOOLEAN, pending : BOOLEAN, snap : [SlotSet -> Descriptors],
                          reading : SUBSET SlotSet,
                          stranded : [SlotSet -> Values \cup {"none"}]]]
  /\ after \in [SlotSet -> SUBSET (Copies \cup {"user"})] /\ ops \in 0 .. MaxOps
  /\ ret \in [threw : BOOLEAN, v : Values]
  /\ stack \in Seq(Frames)
  /\ extensible \in BOOLEAN /\ frozen \in BOOLEAN /\ jitless \in BOOLEAN /\ compilable \in BOOLEAN
  /\ locked \subseteq SlotSet /\ refused \subseteq {"data", "accessor", "delete"}
  /\ plainThrew \in BOOLEAN /\ op \in [kind : Kinds, s : SlotSet]
  /\ \A s \in SlotSet : /\ Plainly(own[s], s) /\ Plainly(plain[s], s) /\ plain[s].k # "acc"
                        /\ \A c \in Copies : Plainly(copy[c].snap[s], s)

(* A slot a copy remembers to be reading is being read. *)
IsReading(x, c, s) == x.f = "read" /\ x.c = c /\ x.s = s /\ x.pc # "enter" /\ ~x.nested
Reading ==
  \A c \in Copies, s \in SlotSet :
     s \in copy[c].reading => \E i \in 1 .. Len(stack) : IsReading(stack[i], c, s)

(* Who may call whom: a read of a slot another read of it, or a compilation;  *)
(* a validator that installs itself a read or an assignment of its own value. *)
Linked(a, b) ==
  \/ a.f = "read" /\ b.f = "read" /\ b.s = a.s /\ a.pc \in {"strand", "give"}
  \/ a.f = "read" /\ b.f = "mkv" /\ b.by \in Copies /\ a.pc = "look"
  \/ a.f = "mkv" /\ b.f = "read"
  \/ a.f = "mkv" /\ b.f = "set" /\ b.v = a.by /\ a.pc >= 4

(* The operation under way is at the bottom of the stack. *)
Bottom ==
  \/ op.kind = "read" /\ stack[1].f = "read" /\ stack[1].s = op.s
  \/ /\ op.kind = "write" /\ stack[1].f = "set" /\ stack[1].s = op.s /\ stack[1].v = "user"
     /\ Len(stack) = 1
  \/ op.kind = "jit" /\ stack[1].f = "mkv" /\ stack[1].by \in Copies
  \/ op.kind = "aot" /\ stack[1].f = "mkv" /\ stack[1].by = "aot"

Calls == /\ \A i \in 1 .. Len(stack) - 1 : Linked(stack[i], stack[i + 1])
         /\ stack # << >> => Bottom

(* The copies whose accessor a read of slot s comes to, through the snapshots *)
(* they hold of one another: the smallest set that is closed.                 *)
Pending == {c \in Copies : copy[c].pending}
Closed(cp, d, s, R) ==
  /\ d.k = "acc" => d.v \in R
  /\ \A c \in R : cp[c].snap[s].k = "acc" => cp[c].snap[s].v \in R
Chain(cp, d, s) == {c \in Copies : \A R \in SUBSET Copies : Closed(cp, d, s, R) => c \in R}
Live(s) == Chain(copy, own[s], s)

(* A copy that has not been handed the schema is nowhere. *)
Unseen == \A c \in Copies : ~copy[c].seen =>
  /\ ~copy[c].pending
  /\ \A s \in SlotSet : own[s] # Acc(c) /\ \A b \in Copies : copy[b].snap[s] # Acc(c)

(* A compilation that is pending is met on every slot. *)
Fronting ==
  \A s \in SlotSet : /\ own[s].k = "acc" => s \notin locked /\ "accessor" \notin refused
                     /\ Pending \subseteq Live(s)

(* What a pending copy holds of another is nowhere else. *)
Layered ==
  /\ \A c \in Copies, s \in SlotSet : copy[c].snap[s] # Acc(c)
  /\ \A b \in Pending, c \in Copies, s, t \in SlotSet : copy[b].snap[s] = Acc(c) =>
       own[t] # Acc(c) /\ \A a \in Pending \ {b} : copy[a].snap[t] # Acc(c)

(* An accessor whose compilation is spent is the last of its chain, and the  *)
(* target refuses an operation.                                              *)
Spent ==
  ~frozen => \A c \in Copies, s \in SlotSet :
     /\ ~copy[c].pending
     /\ own[s] = Acc(c) \/ \E b \in Pending : copy[b].snap[s] = Acc(c)
     => copy[c].snap[s].k # "acc" /\ refused # {}

Fronts == Unseen /\ Fronting /\ Layered /\ Spent

(* Nothing is going to be put back. *)
Quiet == frozen \/ Pending = {}

(* What the twin reads, and what a read of slot s may give. *)
Bindable(s)   == "data" \notin refused /\ ~frozen /\ s \notin locked /\ extensible
PlainValue(s) == IF plain[s] = Absent /\ s \in Methods THEN "zod" ELSE plain[s].v
Fits(v, s)    == v \in after[s] \/ v = PlainValue(s)
Binding(s)    == /\ op.kind = "read" /\ op.s = s /\ s \in Methods
                 /\ plain[s] = Data("zod", TRUE) /\ Bindable(s)
Matches(d, s) == /\ d.k = "absent" => plain[s] = Absent \/ Binding(s)
                 /\ d.k \in {"data", "lazy"} => Fits(d.v, s)

(* Zod's getter has bound the method where it could. *)
Bound(s) == Bindable(s) /\ s \in Methods =>
              own[s] # Absent /\ \A c \in Live(s) : copy[c].snap[s] # Absent

(* The twin is ahead of a slot while a build installs its validator, or a    *)
(* write is under way.                                                       *)
Judged(s) ==
  stack # << >> => op.kind # "aot" /\ ~(op.kind = "write" /\ op.s = s /\ ~plainThrew)

(* What a slot holds, or will be put back to, is what the twin has. *)
FaithfulAt(s) ==
  /\ Matches(own[s], s)
  /\ \A c \in Live(s) : /\ Matches(copy[c].snap[s], s)
                        /\ copy[c].stranded[s] = "none" \/ Fits(copy[c].stranded[s], s)
  /\ \A c \in Pending : c \in after[s]
Once(s) ==
  \A c \in Live(s) : copy[c].stranded[s] # "none" /\ copy[c].snap[s] = Absent /\ s \in Methods
                       => ~Bindable(s)
Faithful == \A s \in SlotSet : Once(s) /\ (Judged(s) => FaithfulAt(s))

(* What a read that is about to return has come to. *)
Answer(s) ==
  /\ Quiet
  /\ ret.threw => own[s] = Absent /\ s \in Methods /\ ~Bindable(s)
  /\ ~ret.threw /\ op.kind # "aot" => Fits(ret.v, s)
  /\ Bound(s)

(* The call on top of the stack. *)
ReadTop(x) ==
  /\ x.pc = "enter" => ~x.nested
  /\ x.pc \in {"enter", "serve"} => x.c \in Live(x.s) /\ (frozen \/ own[x.s] = Acc(x.c))
  /\ x.pc \in {"strand", "give"} => Answer(x.s)
SetTop(x) ==
  /\ x.s # "~standard" /\ op.kind # "aot"
  /\ x.pc = "cancel" => own[x.s] = Acc(x.c)
  /\ x.pc = "write" => ~copy[x.c].pending
MkvTop(x) ==
  /\ x.pc >= 3 => Quiet
  /\ x.by = "aot" => ~ret.threw
OnTop ==
  stack # << >> => /\ Top.f = "read" => ReadTop(Top)
                   /\ Top.f = "set"  => SetTop(Top)
                   /\ Top.f = "mkv"  => MkvTop(Top)

(* Every call on the stack. *)
Sound(x) ==
  /\ x.f = "read" /\ x.pc # "enter" => ~copy[x.c].pending
  /\ x.f = "mkv" /\ x.by \in Copies /\ op.kind # "aot" => \A s \in SlotSet : x.by \in after[s]
Deep ==
  /\ \A i \in 1 .. Len(stack) : Sound(stack[i])
  /\ \A i \in 1 .. Len(stack) - 1 : stack[i].f = "mkv" /\ stack[i].pc >= 4 => Quiet
  /\ \A c \in Copies : copy[c].reading # {} => ~copy[c].pending

(* The operations of the program. *)
Pos(s) == CASE s = "parse" -> 5 [] s = "safeParse" -> 6 [] s = "safeParseAsync" -> 7
            [] s = "parseAsync" -> 8 [] s = "is" -> 9 [] s = "~standard" -> 10

Writes ==
  op.kind = "write" /\ stack # << >> =>
    /\ plainThrew => "user" \in after[op.s]
    /\ ~plainThrew =>
       /\ "data" \notin refused /\ ~frozen /\ op.s \notin locked
       /\ plain[op.s] = Data("user", TRUE)
       /\ own[op.s] = Absent \/ (\E c \in Live(op.s) : copy[c].snap[op.s] = Absent) => extensible
Builds ==
  op.kind = "aot" /\ stack # << >> =>
    /\ extensible /\ ~frozen /\ locked = {} /\ refused = {}
    /\ stack[1].pc >= 4 => Len(stack) = 1
    /\ \A s \in SlotSet : /\ plain[s].k = "data" /\ plain[s].v = "aot"
                          /\ stack[1].pc > Pos(s) => own[s].k = "data" /\ own[s].v = "aot"
Rests == stack = << >> => SlotsArePlain /\ StrandedStillServe /\ (op.kind = "read" => Bound(op.s))

Operations ==
  /\ op.kind = "read" => (plainThrew <=> plain[op.s] = Absent /\ op.s \in Methods)
  /\ Writes /\ Builds /\ Rests

JitInv == Typed /\ Reading /\ Calls /\ Fronts /\ Faithful /\ OnTop /\ Deep /\ Operations

-----------------------------------------------------------------------------
(* Descriptors *)

(* What kinds of property descriptors there are. *)
LEMMA DescriptorKinds ==
  ASSUME NEW d \in Descriptors
  PROVE  /\ d.k \in {"absent", "lazy", "acc", "data"} /\ d.v \in Values /\ d.w \in BOOLEAN
         /\ d.k = "acc" => d.v \in Copies /\ d = Acc(d.v)
         /\ d.k = "absent" <=> d = Absent
         /\ d.k = "data" => d.v \in Makers /\ d = Data(d.v, d.w)
         /\ d.k = "lazy" <=> d = Lazy
<1>1. CASE d = Absent
  BY <1>1 DEF Absent, Lazy, Values
<1>2. CASE d = Lazy
  BY <1>2 DEF Absent, Lazy, Values, Makers
<1>3. CASE \E c \in Copies : d = Acc(c)
  BY <1>3 DEF Absent, Lazy, Acc, Values, Makers
<1>4. CASE \E v \in Makers, w \in BOOLEAN : d = Data(v, w)
  BY <1>4 DEF Absent, Lazy, Data, Values
<1> QED BY <1>1, <1>2, <1>3, <1>4 DEF Descriptors

(* The four kinds are descriptors, and what their fields are. *)
LEMMA DescriptorFields ==
  /\ Absent \in Descriptors /\ Absent.k = "absent" /\ Absent.v = "undefined"
  /\ Lazy \in Descriptors /\ Lazy.k = "lazy" /\ Lazy.v = "zod"
  /\ \A c \in Copies : Acc(c) \in Descriptors /\ Acc(c).k = "acc" /\ Acc(c).v = c
  /\ \A v \in Makers, w \in BOOLEAN :
       Data(v, w) \in Descriptors /\ Data(v, w).k = "data" /\ Data(v, w).v = v /\ Data(v, w).w = w
<1>1. \A v \in Makers, w \in BOOLEAN : Data(v, w) \in Descriptors
  BY DEF Descriptors
<1>2. Absent \in Descriptors /\ Lazy \in Descriptors /\ \A c \in Copies : Acc(c) \in Descriptors
  BY DEF Descriptors
<1> QED BY <1>1, <1>2 DEF Absent, Lazy, Acc, Data

(* A validator is by a copy or by a build, and neither is Zod or the user. *)
LEMMA MakersAre ==
  /\ {"zod", "user", "aot"} \subseteq Makers /\ Copies \subseteq Makers
  /\ Copies \cup {"aot"} \subseteq Makers /\ Makers \subseteq Values
  /\ "undefined" \in Values /\ "undefined" \notin Makers /\ "none" \notin Values
  /\ Copies \cap {"zod", "user", "aot", "undefined", "none"} = {}
BY CopiesAssumption DEF Makers, Values

(* The slots that are modelled. *)
LEMMA SlotsAre ==
  /\ "safeParse" \in SlotSet
  /\ SlotSet \subseteq {"parse", "safeParse", "parseAsync", "safeParseAsync", "is", "~standard"}
  /\ Len(Slots) \in Nat /\ DOMAIN Slots = 1 .. Len(Slots)
  /\ \A i \in DOMAIN Slots : Slots[i] \in SlotSet
  /\ \A s \in SlotSet : \E i \in DOMAIN Slots : Slots[i] = s
  /\ Slots[1] \in SlotSet
<1>1. ToSet(AllSlots) = {"parse", "safeParse", "parseAsync", "safeParseAsync", "is", "~standard"}
  <2> DEFINE n == 1 .. 6
  <2>1. DOMAIN AllSlots = n
    BY DEF AllSlots
  <2>2. n = {1, 2, 3, 4, 5, 6}
    OBVIOUS
  <2> QED BY <2>1, <2>2 DEF ToSet, AllSlots
<1>2. Len(Slots) \in Nat /\ DOMAIN Slots = 1 .. Len(Slots) /\ "safeParse" \in SlotSet
  BY SlotsAssumption DEF SlotSet
<1>3. /\ \A i \in DOMAIN Slots : Slots[i] \in SlotSet /\ Slots[i] \in ToSet(AllSlots)
      /\ \A s \in SlotSet : \E i \in DOMAIN Slots : Slots[i] = s
  BY SlotsAssumption, <1>2 DEF SlotSet, ToSet
<1>4. 1 \in DOMAIN Slots
  BY <1>2, <1>3
<1> QED BY <1>1, <1>2, <1>3, <1>4

-----------------------------------------------------------------------------
(* Chains of snapshots *)

(* A chain contains no more than any closed set does. *)
LEMMA ChainLeast ==
  ASSUME NEW cp, NEW d, NEW s, NEW R \in SUBSET Copies, Closed(cp, d, s, R)
  PROVE  Chain(cp, d, s) \subseteq R
BY DEF Chain

(* It begins with the accessor ... *)
LEMMA ChainHead ==
  ASSUME NEW cp, NEW d, NEW s, d.k = "acc", d.v \in Copies
  PROVE  d.v \in Chain(cp, d, s)
BY DEF Chain, Closed

(* ... and goes on with what its members hold. *)
LEMMA ChainStep ==
  ASSUME NEW cp, NEW d, NEW s, NEW c \in Chain(cp, d, s),
         cp[c].snap[s].k = "acc", cp[c].snap[s].v \in Copies
  PROVE  cp[c].snap[s].v \in Chain(cp, d, s)
BY DEF Chain, Closed

(* What is not an accessor has no chain. *)
LEMMA ChainEmpty ==
  ASSUME NEW cp, NEW d, NEW s, d.k # "acc"
  PROVE  Chain(cp, d, s) = {}
<1> DEFINE R == {}
<1>1. R \in SUBSET Copies /\ \A c \in R : FALSE
  OBVIOUS
<1> HIDE DEF R
<1>2. Closed(cp, d, s, R)
  BY <1>1 DEF Closed
<1> QED BY <1>1, <1>2, ChainLeast

(* Only the snapshots matter. *)
LEMMA ChainSame ==
  ASSUME NEW cp, NEW cq, NEW d, NEW s, \A c \in Copies : cp[c].snap[s] = cq[c].snap[s]
  PROVE  Chain(cp, d, s) = Chain(cq, d, s)
<1>1. \A R \in SUBSET Copies : Closed(cp, d, s, R) <=> Closed(cq, d, s, R)
  BY DEF Closed
<1> QED BY <1>1 DEF Chain

(* The chain of what a member holds is part of the chain ... *)
LEMMA ChainOf ==
  ASSUME NEW cp, NEW d, NEW s, NEW c \in Chain(cp, d, s)
  PROVE  Chain(cp, cp[c].snap[s], s) \subseteq Chain(cp, d, s)
<1>1. \A R \in SUBSET Copies : Closed(cp, d, s, R) => Closed(cp, cp[c].snap[s], s, R)
  BY DEF Closed, Chain
<1> QED BY <1>1 DEF Chain

(* ... and all of it but the first. *)
LEMMA ChainRest ==
  ASSUME NEW cp, NEW d, NEW s, d.k = "acc", d.v \in Copies,
         cp[d.v].snap[s].k = "acc" => cp[d.v].snap[s].v \in Copies
  PROVE  Chain(cp, d, s) \subseteq {d.v} \cup Chain(cp, cp[d.v].snap[s], s)
<1> DEFINE c == d.v
           R == {c} \cup Chain(cp, cp[c].snap[s], s)
<1>1. \A x \in Copies : (\A Q \in SUBSET Copies : Closed(cp, cp[c].snap[s], s, Q) => x \in Q)
                           => x \in R
  BY DEF Chain
<1>2. SUFFICES ASSUME NEW x \in Chain(cp, d, s), x # c,
                      NEW Q \in SUBSET Copies, Closed(cp, cp[c].snap[s], s, Q)
               PROVE  x \in Q
  BY DEF Chain
<1>3. Closed(cp, d, s, Q \cup {c})
  BY <1>2 DEF Closed
<1>4. Q \cup {c} \in SUBSET Copies
  OBVIOUS
<1> QED BY <1>2, <1>3, <1>4 DEF Chain

-----------------------------------------------------------------------------
(* Accessors and snapshots *)

(* What a call leaves alone. *)
Calm == UNCHANGED <<extensible, frozen, locked, refused, jitless, compilable, op, ops, ghosts>>

(* The types, slot by slot. *)
LEMMA TypedSlots ==
  ASSUME Typed
  PROVE  /\ \A s \in SlotSet : own[s] \in Descriptors /\ plain[s] \in Descriptors
         /\ \A c \in Copies : /\ copy[c].seen \in BOOLEAN /\ copy[c].pending \in BOOLEAN
                              /\ copy[c].reading \subseteq SlotSet
                              /\ \A s \in SlotSet : /\ copy[c].snap[s] \in Descriptors
                                                    /\ copy[c].stranded[s] \in Values \cup {"none"}
         /\ Pending \subseteq Copies /\ \A c \in Copies : c \in Pending <=> copy[c].pending
         /\ \A s \in SlotSet : Live(s) \subseteq Copies
         /\ ret.threw \in BOOLEAN /\ ret.v \in Values
BY DEF Typed, Pending, Live, Chain

(* The chain of a slot, and of what its accessor puts back. *)
LEMMA LiveOf ==
  ASSUME Typed, NEW s \in SlotSet
  PROVE  /\ own[s].k # "acc" => Live(s) = {}
         /\ \A c \in Copies : own[s] = Acc(c) =>
              c \in Live(s) /\ Live(s) \subseteq {c} \cup Chain(copy, copy[c].snap[s], s)
         /\ \A c \in Live(s) : /\ Chain(copy, copy[c].snap[s], s) \subseteq Live(s)
                               /\ copy[c].snap[s].k = "acc" => copy[c].snap[s].v \in Live(s)
<1>1. \A c \in Copies : copy[c].snap[s].k = "acc" => copy[c].snap[s].v \in Copies
  BY TypedSlots, DescriptorKinds
<1>2. \A c \in Copies : own[s] = Acc(c) => own[s].k = "acc" /\ own[s].v = c
  BY DescriptorFields
<1>3. ASSUME NEW c \in Copies, own[s] = Acc(c)
      PROVE  c \in Live(s) /\ Live(s) \subseteq {c} \cup Chain(copy, copy[c].snap[s], s)
  <2> DEFINE d == own[s]
  <2>1. d.k = "acc" /\ d.v = c
    BY <1>2, <1>3
  <2>2. d.v \in Chain(copy, d, s) /\ Chain(copy, d, s) \subseteq {d.v} \cup Chain(copy, copy[d.v].snap[s], s)
    <3> HIDE DEF d
    <3> QED BY <2>1, <1>1, ChainHead, ChainRest
  <2> QED BY <2>1, <2>2 DEF Live
<1>4. ASSUME NEW c \in Live(s)
      PROVE  /\ Chain(copy, copy[c].snap[s], s) \subseteq Live(s)
             /\ copy[c].snap[s].k = "acc" => copy[c].snap[s].v \in Live(s)
  <2>1. c \in Copies
    BY TypedSlots
  <2> QED BY <2>1, <1>1, <1>4, ChainOf, ChainStep DEF Live
<1> QED BY <1>3, <1>4, ChainEmpty DEF Live

(* A slot that is left alone keeps its chain; one that is put back keeps what *)
(* is left of it; one that is set has none.                                   *)
LEMMA LiveKept ==
  ASSUME Typed, NEW s \in SlotSet, \A c \in Copies : copy'[c].snap[s] = copy[c].snap[s]
  PROVE  /\ own'[s] = own[s] => Live(s)' = Live(s)
         /\ \A c \in Live(s) : own'[s] = copy[c].snap[s] =>
              Live(s)' = Chain(copy, copy[c].snap[s], s) /\ Live(s)' \subseteq Live(s)
         /\ own'[s].k # "acc" => Live(s)' = {}
<1>1. \A d : Chain(copy', d, s) = Chain(copy, d, s)
  <2> SUFFICES ASSUME NEW d PROVE Chain(copy', d, s) = Chain(copy, d, s)
    OBVIOUS
  <2> QED BY ChainSame
<1>2. Live(s)' = Chain(copy, own'[s], s)
  <2>1. Live(s)' = Chain(copy', own'[s], s)
    BY DEF Live, Chain, Closed
  <2> QED BY <1>1, <2>1
<1>3. \A d : d.k # "acc" => Chain(copy, d, s) = {}
  BY ChainEmpty
<1> QED BY <1>2, <1>3, LiveOf DEF Live

(* A pending accessor that is met is met on every slot. *)
LEMMA FrontsAll ==
  ASSUME Typed, Fronts, ~frozen, NEW c \in Pending, NEW t \in SlotSet, own[t] = Acc(c),
         NEW s \in SlotSet
  PROVE  own[s] = Acc(c)
<1> DEFINE R == {x \in Live(s) : x # c /\ (own[s] = Acc(x) \/ \E b \in Pending : copy[b].snap[s] = Acc(x))}
<1>1. SUFFICES ASSUME own[s] # Acc(c)
               PROVE  FALSE
  OBVIOUS
<1>2. Live(s) \subseteq Copies /\ c \in Copies /\ own[s] \in Descriptors
      /\ \A b \in Copies : copy[b].snap[s] \in Descriptors /\ copy[b].pending \in BOOLEAN
  BY TypedSlots
<1>3. own[s].k = "acc" => own[s].v \in R
  BY <1>1, <1>2, LiveOf, DescriptorKinds
<1>4. ASSUME NEW x \in R, copy[x].snap[s].k = "acc"
      PROVE  copy[x].snap[s].v \in R
  <2>1. x \in Copies /\ x \in Live(s) /\ copy[x].snap[s] = Acc(copy[x].snap[s].v)
        /\ copy[x].snap[s].v \in Copies
    BY <1>2, <1>4, DescriptorKinds
  <2>2. x \in Pending
    BY <2>1, <1>2, <1>4 DEF Fronts, Spent, Pending
  <2>3. copy[x].snap[s].v # c
    BY <2>1, <2>2, <1>2 DEF Fronts, Layered
  <2> QED BY <2>1, <2>2, <2>3, <1>4, LiveOf
<1>5. Closed(copy, own[s], s, R) /\ R \in SUBSET Copies
  <2> HIDE DEF R
  <2>1. R \in SUBSET Copies
    BY <1>2 DEF R
  <2> QED BY <1>3, <1>4, <2>1 DEF Closed
<1>6. Live(s) \subseteq R
  <2> HIDE DEF R
  <2> QED BY <1>5, ChainLeast DEF Live
<1>7. c \in Live(s)
  BY DEF Fronts, Fronting
<1> QED BY <1>6, <1>7

(* What a call leaves alone keeps its meaning. *)
LEMMA CalmFacts ==
  ASSUME Calm
  PROVE  /\ \A s : Bindable(s)' = Bindable(s) /\ PlainValue(s)' = PlainValue(s)
         /\ \A v, s : Fits(v, s)' <=> Fits(v, s)
         /\ \A d, s : Matches(d, s)' <=> Matches(d, s)
         /\ \A s : stack # << >> /\ stack' # << >> => (Judged(s)' <=> Judged(s))
BY DEF Calm, ghosts, Bindable, PlainValue, Fits, Matches, Binding, Judged

(* A slot is accepted unless the target refuses. *)
LEMMA Accepting ==
  ASSUME Typed, NEW s \in SlotSet, NEW kind
  PROVE  Accepts(kind, s, own) <=> /\ kind \notin refused /\ ~frozen /\ s \notin locked
                                   /\ own[s].k # "absent" \/ extensible
BY TypedSlots, DescriptorKinds DEF Accepts

(* What restoring comes to: nothing on a frozen target; elsewhere a slot that *)
(* an accessor fronts is put back unless the target refuses.                  *)
LEMMA Restoring ==
  ASSUME Typed, NEW snap, \A s \in SlotSet : snap[s] \in Descriptors /\ Plainly(snap[s], s)
  PROVE  /\ Restored(snap, own) \in [SlotSet -> Descriptors]
         /\ \A s \in SlotSet : /\ Restored(snap, own)[s] \in {own[s], snap[s]}
                               /\ Plainly(Restored(snap, own)[s], s)
         /\ frozen => Restored(snap, own) = own
         /\ \A s \in SlotSet :
              ~frozen /\ s \notin locked /\ "accessor" \notin refused /\ own[s].k = "acc" =>
                \/ Restored(snap, own)[s] = snap[s]
                \/ snap[s].k # "acc" /\ refused # {}
         /\ \A s \in SlotSet : Restored(snap, own)[s].k = "acc" /\ Restored(snap, own)[s] # own[s]
              => s \notin locked /\ "accessor" \notin refused
<1> DEFINE r == Restored(snap, own)
<1>1. /\ DOMAIN r = SlotSet
      /\ \A s \in SlotSet :
           /\ snap[s].k = "absent" => r[s] = IF MayDelete(s) THEN snap[s] ELSE own[s]
           /\ snap[s].k # "absent" =>
                r[s] = IF Accepts(KindOf(snap[s]), s, own) THEN snap[s] ELSE own[s]
  <2>1. DOMAIN r = SlotSet
    BY DEF Restored
  <2>2. ASSUME NEW s \in SlotSet, snap[s] = Absent
        PROVE  r[s] = IF MayDelete(s) THEN snap[s] ELSE own[s]
    BY <2>2 DEF Restored
  <2>3. ASSUME NEW s \in SlotSet, snap[s] # Absent
        PROVE  r[s] = IF Accepts(KindOf(snap[s]), s, own) THEN snap[s] ELSE own[s]
    BY <2>3 DEF Restored
  <2> QED BY <2>1, <2>2, <2>3, DescriptorKinds
<1> HIDE DEF r
<1>2. \A s \in SlotSet : r[s] \in {own[s], snap[s]}
  BY <1>1
<1>3. \A s \in SlotSet : r[s] \in Descriptors /\ Plainly(r[s], s)
  BY <1>2 DEF Typed
<1>4. r \in [SlotSet -> Descriptors]
  <2>1. r = [s \in SlotSet |-> r[s]]
    BY DEF Restored, r
  <2> QED BY <2>1, <1>3
<1>5. frozen => r = own
  <2>1. frozen => \A s \in SlotSet : r[s] = own[s]
    BY <1>1, Accepting DEF MayDelete
  <2>2. own \in [SlotSet -> Descriptors]
    BY DEF Typed
  <2> QED BY <2>1, <2>2, <1>4
<1>6. ASSUME NEW s \in SlotSet, ~frozen, s \notin locked, "accessor" \notin refused, own[s].k = "acc"
      PROVE  r[s] = snap[s] \/ (snap[s].k # "acc" /\ refused # {})
  <2>1. \A kind : Accepts(kind, s, own) <=> kind \notin refused
    BY <1>6, Accepting
  <2> QED BY <2>1, <1>1, <1>6 DEF KindOf, MayDelete
<1>7. ASSUME NEW s \in SlotSet, r[s].k = "acc", r[s] # own[s]
      PROVE  s \notin locked /\ "accessor" \notin refused
  <2>1. r[s] = snap[s] /\ snap[s].k # "absent" /\ Accepts(KindOf(snap[s]), s, own)
    BY <1>1, <1>2, <1>7
  <2> QED BY <2>1, <1>7, Accepting DEF KindOf
<1> QED BY <1>2, <1>3, <1>4, <1>5, <1>6, <1>7 DEF r

(* Nothing that fronts a slot changes, except that on a frozen target a       *)
(* compilation may be spent.                                                  *)
LEMMA FrontsKept ==
  ASSUME Typed, Fronts, UNCHANGED <<frozen, locked, refused>>, own' = own,
         \A c \in Copies : /\ copy'[c].snap = copy[c].snap /\ (copy[c].seen => copy'[c].seen)
                           /\ copy'[c].pending => copy[c].pending
                           /\ ~frozen => copy'[c].pending = copy[c].pending
  PROVE  /\ Fronts' /\ \A s \in SlotSet : Live(s)' = Live(s)
         /\ Pending' \subseteq Pending /\ (Quiet => Quiet')
<1>1. \A s \in SlotSet : Live(s)' = Live(s)
  BY LiveKept
<1>2. Pending' \subseteq Pending /\ (~frozen => Pending' = Pending)
  BY DEF Pending
<1>0. \A c \in Copies, s \in SlotSet : copy'[c].snap[s] = copy[c].snap[s] /\ own'[s] = own[s]
  OBVIOUS
<1>3. Unseen'
  <2> SUFFICES ASSUME NEW c \in Copies, ~copy'[c].seen
               PROVE  /\ ~copy'[c].pending
                      /\ \A s \in SlotSet : own'[s] # Acc(c) /\ \A b \in Copies : copy'[b].snap[s] # Acc(c)
    BY DEF Unseen, Acc
  <2>1. ~copy[c].seen
    OBVIOUS
  <2> QED BY <1>0, <2>1 DEF Fronts, Unseen
<1>4. Fronting'
  BY <1>1, <1>2 DEF Fronts, Fronting
<1>5. Layered'
  <2> SUFFICES /\ \A c \in Copies, s \in SlotSet : copy'[c].snap[s] # Acc(c)
               /\ \A b \in Pending', c \in Copies, s, t \in SlotSet : copy'[b].snap[s] = Acc(c) =>
                    own'[t] # Acc(c) /\ \A a \in Pending' \ {b} : copy'[a].snap[t] # Acc(c)
    BY DEF Layered, Acc
  <2>1. Pending \subseteq Copies
    BY DEF Pending
  <2>2. Layered
    BY DEF Fronts
  <2> QED BY <1>0, <1>2, <2>1, <2>2 DEF Layered
<1>6. Spent'
  <2> SUFFICES ASSUME ~frozen, NEW c \in Copies, NEW s \in SlotSet, ~copy'[c].pending,
                      own'[s] = Acc(c) \/ \E b \in Pending' : copy'[b].snap[s] = Acc(c)
               PROVE  copy'[c].snap[s].k # "acc" /\ refused # {}
    BY DEF Spent, Acc
  <2>1. Pending \subseteq Copies /\ ~copy[c].pending
    BY DEF Pending
  <2>2. own[s] = Acc(c) \/ \E b \in Pending : copy[b].snap[s] = Acc(c)
    BY <1>0, <1>2, <2>1
  <2> QED BY <1>0, <2>1, <2>2 DEF Fronts, Spent
<1> QED BY <1>1, <1>2, <1>3, <1>4, <1>5, <1>6 DEF Fronts, Quiet

(* A slot is set to a value, when nothing is pending. *)
LEMMA FrontsSet ==
  ASSUME Typed, Fronts, UNCHANGED <<frozen, locked, refused>>, Pending = {}, copy' = copy, NEW s \in SlotSet,
         own' = [own EXCEPT ![s] = own'[s]], own'[s].k = "data"
  PROVE  /\ Fronts' /\ Live(s)' = {} /\ Pending' = {}
         /\ \A t \in SlotSet : Live(t)' \subseteq Live(t)
<1>1. \A t \in SlotSet : t # s => own'[t] = own[t]
  BY DEF Typed
<1>2. Live(s)' = {} /\ \A t \in SlotSet : Live(t)' \subseteq Live(t)
  BY <1>1, LiveKept
<1>3. Pending' = {}
  BY DEF Pending
<1>4. Unseen'
  <2> SUFFICES ASSUME NEW c \in Copies, ~copy[c].seen
               PROVE  /\ ~copy[c].pending
                      /\ \A t \in SlotSet : own'[t] # Acc(c) /\ \A b \in Copies : copy[b].snap[t] # Acc(c)
    BY DEF Unseen, Acc
  <2> QED BY <1>1, DescriptorFields DEF Fronts, Unseen
<1>5. Fronting'
  BY <1>1, <1>3 DEF Fronts, Fronting
<1>6. Layered'
  BY <1>3 DEF Fronts, Layered
<1>7. Spent'
  BY <1>1, <1>3, DescriptorFields DEF Fronts, Spent, Pending
<1> QED BY <1>2, <1>3, <1>4, <1>5, <1>6, <1>7 DEF Fronts

(* A pending compilation is spent, and what the copy holds is put back. *)
LEMMA FrontsSpend ==
  ASSUME Typed, Fronts, Calm, ~frozen, NEW c \in Pending, NEW t \in SlotSet, own[t] = Acc(c),
         own' = Restored(copy[c].snap, own),
         \A x \in Copies : /\ copy'[x].snap = copy[x].snap /\ copy'[x].seen = copy[x].seen
                           /\ copy'[x].pending = (copy[x].pending /\ x # c)
  PROVE  /\ Fronts' /\ Pending' = Pending \ {c}
         /\ \A s \in SlotSet : /\ own'[s] \in {own[s], copy[c].snap[s]} /\ c \in Live(s)
                               /\ Live(s)' \subseteq Live(s)
                               /\ own'[s] = own[s] => own[s] = Acc(c)
<1>0. /\ c \in Copies /\ Pending \subseteq Copies
      /\ \A x \in Copies, s \in SlotSet : copy'[x].snap[s] = copy[x].snap[s]
  BY DEF Pending
<1>1. \A s \in SlotSet : own[s] = Acc(c) /\ own[s].k = "acc" /\ c \in Live(s)
  BY <1>0, FrontsAll, LiveOf, DescriptorFields
<1>2. Pending' = Pending \ {c}
  BY DEF Pending
<1>3. \A s \in SlotSet : s \notin locked /\ "accessor" \notin refused
  BY <1>1 DEF Fronts, Fronting
<1>4. \A s \in SlotSet : /\ copy[c].snap[s] \in Descriptors /\ Plainly(copy[c].snap[s], s)
  BY <1>0 DEF Typed
<1>5. \A s \in SlotSet : /\ own'[s] \in {own[s], copy[c].snap[s]}
                         /\ own'[s] = copy[c].snap[s] \/ (copy[c].snap[s].k # "acc" /\ refused # {})
  <2> DEFINE snap == copy[c].snap
  <2>1. own' = Restored(snap, own) /\ \A s \in SlotSet : snap[s] \in Descriptors /\ Plainly(snap[s], s)
    BY <1>4
  <2> SUFFICES \A s \in SlotSet : /\ own'[s] \in {own[s], snap[s]}
                                  /\ own'[s] = snap[s] \/ (snap[s].k # "acc" /\ refused # {})
    OBVIOUS
  <2> HIDE DEF snap
  <2> QED BY <2>1, <1>1, <1>3, Restoring
<1>6. \A s \in SlotSet : Live(s)' \subseteq Live(s)
  BY <1>0, <1>1, <1>5, LiveKept
<1>7. Unseen'
  <2> SUFFICES ASSUME NEW x \in Copies, ~copy[x].seen
               PROVE  /\ ~copy'[x].pending
                      /\ \A s \in SlotSet : own'[s] # Acc(x) /\ \A b \in Copies : copy'[b].snap[s] # Acc(x)
    BY DEF Unseen, Acc
  <2>1. ~copy[x].pending /\ \A s \in SlotSet : own[s] # Acc(x) /\ \A b \in Copies : copy[b].snap[s] # Acc(x)
    BY DEF Fronts, Unseen
  <2>2. ~copy'[x].pending
    BY <2>1
  <2> QED BY <2>1, <2>2, <1>0, <1>5
<1>8. Fronting'
  <2>1. ASSUME NEW s \in SlotSet PROVE Pending' \subseteq Live(s)'
    <3>1. Pending \subseteq Live(s) /\ Live(s) \subseteq {c} \cup Chain(copy, copy[c].snap[s], s)
      BY <1>0, <1>1, LiveOf DEF Fronts, Fronting
    <3>2. CASE own'[s] = own[s]
      <4>1. Live(s)' = Live(s)
        BY <3>2, <1>0, LiveKept
      <4> QED BY <3>1, <4>1, <1>2
    <3>3. CASE own'[s] = copy[c].snap[s]
      <4>1. Live(s)' = Chain(copy, copy[c].snap[s], s)
        BY <3>3, <1>0, <1>1, LiveKept
      <4> QED BY <3>1, <4>1, <1>2
    <3> QED BY <3>2, <3>3, <1>5
  <2> QED BY <2>1, <1>3 DEF Fronting, Calm
<1>9. Layered'
  <2> SUFFICES /\ \A x \in Copies, s \in SlotSet : copy'[x].snap[s] # Acc(x)
               /\ \A b \in Pending', x \in Copies, s, u \in SlotSet : copy'[b].snap[s] = Acc(x) =>
                    own'[u] # Acc(x) /\ \A a \in Pending' \ {b} : copy'[a].snap[u] # Acc(x)
    BY DEF Layered, Acc
  <2>2. Layered
    BY DEF Fronts
  <2>3. \A x \in Copies, s \in SlotSet : copy'[x].snap[s] # Acc(x)
    BY <1>0, <2>2 DEF Layered
  <2>4. ASSUME NEW b \in Pending', NEW x \in Copies, NEW s \in SlotSet, NEW u \in SlotSet,
               copy'[b].snap[s] = Acc(x)
        PROVE  own'[u] # Acc(x) /\ \A a \in Pending' \ {b} : copy'[a].snap[u] # Acc(x)
    <3>1. b \in Pending /\ b # c /\ copy[b].snap[s] = Acc(x)
      BY <1>0, <1>2, <2>4
    <3>2. own[u] # Acc(x) /\ \A a \in Pending \ {b} : copy[a].snap[u] # Acc(x)
      BY <3>1, <2>2 DEF Layered
    <3> QED BY <3>1, <3>2, <1>0, <1>2, <1>5
  <2> QED BY <2>3, <2>4
<1>10. Spent'
  <2> SUFFICES ASSUME NEW x \in Copies, NEW s \in SlotSet, ~copy'[x].pending,
                      own'[s] = Acc(x) \/ \E b \in Pending' : copy'[b].snap[s] = Acc(x)
               PROVE  copy'[x].snap[s].k # "acc" /\ refused # {}
    BY DEF Spent, Acc, Calm
  <2>1. ~copy[x].pending /\ x # c => copy[x].snap[s].k # "acc" /\ refused # {}
    <3>1. own[s] = Acc(x) \/ \E b \in Pending : copy[b].snap[s] = Acc(x)
      BY <1>0, <1>2, <1>5
    <3> QED BY <3>1 DEF Fronts, Spent
  <2>2. CASE x = c
    <3>1. \A b \in Pending : copy[b].snap[s] # Acc(c)
      BY <1>0, <1>1 DEF Fronts, Layered
    <3>2. own'[s] = Acc(c) /\ copy[c].snap[s] # Acc(c)
      BY <3>1, <2>2, <1>0, <1>2 DEF Fronts, Layered
    <3> QED BY <3>2, <2>2, <1>0, <1>5
  <2>3. CASE x # c
    BY <2>1, <2>3, <1>0
  <2> QED BY <2>2, <2>3
<1>11. \A s \in SlotSet : own'[s] = own[s] => own[s] = Acc(c)
  BY <1>1
<1> QED BY <1>1, <1>2, <1>5, <1>6, <1>7, <1>8, <1>9, <1>10, <1>11 DEF Fronts

(* What holds of the slots when one is left alone, put back or set. *)
LEMMA FaithfulKept ==
  ASSUME Typed, Calm, NEW s \in SlotSet, Once(s), Judged(s) => FaithfulAt(s),
         Judged(s)' => Judged(s),
         Pending' \subseteq Pending, Live(s)' \subseteq Live(s),
         \A c \in Live(s) :
            /\ copy'[c].snap[s] = copy[c].snap[s]
            /\ \/ copy'[c].stranded[s] = copy[c].stranded[s]
               \/ /\ Judged(s) => Fits(copy'[c].stranded[s], s)
                  /\ copy[c].snap[s] = Absent /\ s \in Methods => ~Bindable(s),
         \/ own'[s] = own[s]
         \/ \E c \in Live(s) : own'[s] = copy[c].snap[s]
         \/ own'[s].k = "data" /\ (Judged(s) => Fits(own'[s].v, s))
  PROVE  Once(s)' /\ (Judged(s)' => FaithfulAt(s)')
<1>1. Once(s)'
  <2> SUFFICES ASSUME NEW c \in Live(s)', copy'[c].stranded[s] # "none", copy'[c].snap[s] = Absent,
                      s \in Methods
               PROVE  ~Bindable(s)'
    BY DEF Once, Absent
  <2>1. c \in Live(s)
    OBVIOUS
  <2> QED BY <2>1, CalmFacts DEF Once
<1>2. ASSUME Judged(s)'
      PROVE  FaithfulAt(s)'
  <2>1. FaithfulAt(s) /\ Judged(s)
    BY <1>2
  <2>2. Matches(own'[s], s)
    <3>1. CASE own'[s] = own[s]
      BY <3>1, <2>1 DEF FaithfulAt
    <3>2. CASE \E c \in Live(s) : own'[s] = copy[c].snap[s]
      BY <3>2, <2>1 DEF FaithfulAt
    <3>3. CASE own'[s].k = "data" /\ Fits(own'[s].v, s)
      BY <3>3 DEF Matches
    <3> QED BY <2>1, <3>1, <3>2, <3>3
  <2>3. \A c \in Live(s)' : /\ Matches(copy'[c].snap[s], s)
                            /\ copy'[c].stranded[s] = "none" \/ Fits(copy'[c].stranded[s], s)
    BY <2>1 DEF FaithfulAt
  <2>4. \A c \in Pending' : c \in after'[s]
    BY <2>1 DEF FaithfulAt, Calm, ghosts
  <2>5. Matches(own[s], s)' <=> Matches(own'[s], s)
    BY DEF Matches, Fits, Binding, PlainValue, Bindable, Calm, ghosts
  <2>6. \A c \in Live(s)' : /\ Matches(copy[c].snap[s], s)' <=> Matches(copy'[c].snap[s], s)
                            /\ Fits(copy[c].stranded[s], s)' <=> Fits(copy'[c].stranded[s], s)
    BY DEF Matches, Fits, Binding, PlainValue, Bindable, Calm, ghosts
  <2> QED BY <2>2, <2>3, <2>4, <2>5, <2>6 DEF FaithfulAt
<1> QED BY <1>1, <1>2

(* A slot that holds a value, with nothing behind it, when nothing is pending. *)
LEMMA FaithfulSet ==
  ASSUME NEW s \in SlotSet, Live(s)' = {}, Pending' = {}, own'[s].k = "data",
         Judged(s)' => Fits(own[s].v, s)'
  PROVE  Once(s)' /\ (Judged(s)' => FaithfulAt(s)')
<1>1. Matches(own[s], s)' <=> (own'[s].k \in {"data", "lazy"} => Fits(own[s].v, s)')
  BY DEF Matches
<1>2. \A c : c \notin Live(s)' /\ c \notin Pending'
  OBVIOUS
<1>3. Once(s)'
  BY <1>2 DEF Once
<1> QED BY <1>1, <1>2, <1>3 DEF FaithfulAt

-----------------------------------------------------------------------------
(* What a call may do to the slots *)

(* The slots keep their types and stay as the copies have them; and where    *)
(* the twin was not ahead, they are what it has.                             *)
DataTyped ==
  /\ own \in [SlotSet -> Descriptors]
  /\ copy \in [Copies -> [seen : BOOLEAN, pending : BOOLEAN, snap : [SlotSet -> Descriptors],
                          reading : SUBSET SlotSet,
                          stranded : [SlotSet -> Values \cup {"none"}]]]
  /\ \A s \in SlotSet : Plainly(own[s], s) /\ \A c \in Copies : Plainly(copy[c].snap[s], s)
Follows ==
  /\ DataTyped' /\ Fronts' /\ Pending' \subseteq Pending /\ (Quiet => Quiet')
  /\ \A s \in SlotSet : /\ Live(s)' \subseteq Live(s)
                        /\ \A c \in Copies : copy'[c].snap[s] = copy[c].snap[s]
                        /\ \/ own'[s] = own[s]
                           \/ \E c \in Live(s) : own'[s] = copy[c].snap[s]
                           \/ own'[s].k = "data"
  /\ \A s \in SlotSet : (Judged(s)' => Judged(s)) => Once(s)' /\ (Judged(s)' => FaithfulAt(s)')

(* The slots are left alone. *)
LEMMA FollowsKept ==
  ASSUME JitInv, Calm, own' = own, copy' = copy
  PROVE  Follows /\ \A s \in SlotSet : Live(s)' = Live(s)
<1>1. Fronts' /\ (\A s \in SlotSet : Live(s)' = Live(s)) /\ Pending' \subseteq Pending /\ (Quiet => Quiet')
  BY FrontsKept DEF JitInv, Calm
<1>2. DataTyped'
  BY DEF JitInv, Typed, DataTyped, Plainly
<1>3. ASSUME NEW s \in SlotSet, Judged(s)' => Judged(s)
      PROVE  Once(s)' /\ (Judged(s)' => FaithfulAt(s)')
  <2>1. Once(s) /\ (Judged(s) => FaithfulAt(s)) /\ Live(s) \subseteq Copies
    BY TypedSlots DEF JitInv, Faithful
  <2>2. own'[s] = own[s] /\ \A c \in Live(s) : copy'[c].snap[s] = copy[c].snap[s] /\ copy'[c].stranded[s] = copy[c].stranded[s]
    OBVIOUS
  <2> QED BY <1>1, <1>3, <2>1, <2>2, FaithfulKept DEF JitInv
<1> QED BY <1>1, <1>2, <1>3 DEF Follows

(* A slot is set to a value, when nothing is pending. *)
LEMMA FollowsSet ==
  ASSUME JitInv, Calm, copy' = copy, Pending = {}, NEW s \in SlotSet, NEW v \in Makers,
         NEW w \in BOOLEAN, own' = [own EXCEPT ![s] = Data(v, w)], s # "~standard" => w,
         Judged(s) => Fits(v, s)
  PROVE  Follows /\ Live(s)' = {} /\ Pending' = {} /\ own'[s] = Data(v, w)
<1> DEFINE d == Data(v, w)
<1>1. d \in Descriptors /\ d.k = "data" /\ d.v = v /\ d.w = w /\ own' = [own EXCEPT ![s] = d]
  BY DescriptorFields
<1> HIDE DEF d
<1>2. own'[s] = d /\ own' = [own EXCEPT ![s] = own'[s]] /\ \A t \in SlotSet : t # s => own'[t] = own[t]
  BY <1>1 DEF JitInv, Typed
<1>3. Fronts' /\ Live(s)' = {} /\ Pending' = {} /\ \A t \in SlotSet : Live(t)' \subseteq Live(t)
  BY <1>1, <1>2, FrontsSet DEF JitInv, Calm
<1>4. DataTyped'
  <2>1. own' \in [SlotSet -> Descriptors]
    BY <1>1 DEF JitInv, Typed
  <2>2. \A t \in SlotSet : Plainly(own'[t], t)
    BY <1>1, <1>2 DEF JitInv, Typed, Plainly
  <2> QED BY <2>1, <2>2 DEF JitInv, Typed, DataTyped, Plainly
<1>5. ASSUME NEW t \in SlotSet, Judged(t)' => Judged(t)
      PROVE  Once(t)' /\ (Judged(t)' => FaithfulAt(t)')
  <2>1. Once(t) /\ (Judged(t) => FaithfulAt(t)) /\ Live(t) \subseteq Copies
    BY TypedSlots DEF JitInv, Faithful
  <2>2. \A c \in Live(t) : copy'[c].snap[t] = copy[c].snap[t] /\ copy'[c].stranded[t] = copy[c].stranded[t]
    OBVIOUS
  <2>3. own'[t] = own[t] \/ (own'[t].k = "data" /\ (Judged(t) => Fits(own'[t].v, t)))
    <3>1. CASE t = s
      <4>1. own'[t].k = "data" /\ own'[t].v = v
        BY <3>1, <1>1, <1>2
      <4>2. Judged(t) => Fits(v, t)
        BY <3>1
      <4> QED BY <4>1, <4>2
    <3> QED BY <3>1, <1>2
  <2> QED BY <1>3, <1>5, <2>1, <2>2, <2>3, FaithfulKept DEF JitInv
<1> QED BY <1>1, <1>2, <1>3, <1>4, <1>5 DEF Follows, Quiet, d

(* A compilation that was pending is spent, or none was. *)
LEMMA FollowsSpend ==
  ASSUME JitInv, Calm, NEW c \in Copies, NEW t \in SlotSet, frozen \/ own[t] = Acc(c), c \in Live(t),
         own' = IF copy[c].pending THEN Restored(copy[c].snap, own) ELSE own,
         \A x \in Copies : /\ copy'[x].snap = copy[x].snap /\ copy'[x].seen = copy[x].seen
                           /\ copy'[x].stranded = copy[x].stranded
                           /\ copy'[x].pending = (copy[x].pending /\ x # c),
         copy' \in [Copies -> [seen : BOOLEAN, pending : BOOLEAN, snap : [SlotSet -> Descriptors],
                               reading : SUBSET SlotSet, stranded : [SlotSet -> Values \cup {"none"}]]]
  PROVE  Follows
<1>0. Typed /\ Fronts /\ copy[c].pending \in BOOLEAN
  BY TypedSlots DEF JitInv
<1>1. \A s \in SlotSet : /\ copy[c].snap[s] \in Descriptors /\ Plainly(copy[c].snap[s], s)
  BY <1>0 DEF Typed
<1>2. own' = own \/ own' = Restored(copy[c].snap, own)
  OBVIOUS
<1>3. own' \in [SlotSet -> Descriptors] /\ \A s \in SlotSet : Plainly(own'[s], s)
  <2> DEFINE snap == copy[c].snap
  <2>1. \A s \in SlotSet : snap[s] \in Descriptors /\ Plainly(snap[s], s)
    BY <1>1
  <2>2. own' = own \/ own' = Restored(snap, own)
    BY <1>2
  <2> HIDE DEF snap
  <2>3. CASE own' = Restored(snap, own)
    BY <2>3, <1>0, <2>1, Restoring
  <2>4. CASE own' = own
    BY <2>4, <1>0 DEF Typed
  <2> QED BY <2>2, <2>3, <2>4
<1>4. DataTyped'
  BY <1>0, <1>3 DEF Typed, DataTyped, Plainly
<1>5. /\ Fronts' /\ Pending' \subseteq Pending /\ (Quiet => Quiet')
      /\ \A s \in SlotSet : Live(s)' \subseteq Live(s) /\ (own'[s] = own[s] \/ (c \in Live(s) /\ own'[s] = copy[c].snap[s]))
  <2>1. CASE copy[c].pending /\ ~frozen
    <3>1. c \in Pending /\ own[t] = Acc(c)
      BY <2>1 DEF Pending
    <3>2. own' = Restored(copy[c].snap, own)
      BY <2>1
    <3>3. /\ Fronts' /\ Pending' = Pending \ {c}
          /\ \A s \in SlotSet : /\ own'[s] \in {own[s], copy[c].snap[s]} /\ c \in Live(s)
                                /\ Live(s)' \subseteq Live(s)
      BY <3>1, <3>2, <2>1, <1>0, FrontsSpend
    <3> QED BY <3>3, <2>1 DEF Quiet, Calm
  <2>2. CASE frozen \/ ~copy[c].pending
    <3>1. own' = own
      <4> DEFINE snap == copy[c].snap
      <4>1. \A s \in SlotSet : snap[s] \in Descriptors /\ Plainly(snap[s], s)
        BY <1>1
      <4>2. own' = own \/ (frozen /\ own' = Restored(snap, own))
        BY <1>2, <2>2
      <4> HIDE DEF snap
      <4> QED BY <4>1, <4>2, <1>0, Restoring
    <3>2. \A x \in Copies : /\ copy'[x].snap = copy[x].snap /\ copy'[x].seen = copy[x].seen
                            /\ copy'[x].pending => copy[x].pending
                            /\ ~frozen => copy'[x].pending = copy[x].pending
      BY <2>2, TypedSlots, <1>0
    <3> QED BY <3>1, <3>2, <1>0, FrontsKept DEF Calm
  <2> QED BY <2>1, <2>2, <1>0
<1>6. ASSUME NEW s \in SlotSet, Judged(s)' => Judged(s)
      PROVE  Once(s)' /\ (Judged(s)' => FaithfulAt(s)')
  <2>1. Once(s) /\ (Judged(s) => FaithfulAt(s)) /\ Live(s) \subseteq Copies
    BY TypedSlots DEF JitInv, Faithful
  <2>2. \A x \in Live(s) : copy'[x].snap[s] = copy[x].snap[s] /\ copy'[x].stranded[s] = copy[x].stranded[s]
    BY <2>1
  <2>3. own'[s] = own[s] \/ \E x \in Live(s) : own'[s] = copy[x].snap[s]
    BY <1>5
  <2> QED BY <1>0, <1>5, <1>6, <2>1, <2>2, <2>3, FaithfulKept
<1> QED BY <1>4, <1>5, <1>6 DEF Follows

(* What it is for a read to be answered, after the step. *)
LEMMA AnswerAfter ==
  ASSUME Calm, NEW s \in SlotSet
  PROVE  /\ Answer(s)' <=>
            /\ Quiet'
            /\ ret'.threw => own'[s] = Absent /\ s \in Methods /\ ~Bindable(s)
            /\ ~ret'.threw /\ op.kind # "aot" => Fits(ret'.v, s)
            /\ Bindable(s) /\ s \in Methods =>
                 own'[s] # Absent /\ \A c \in Live(s)' : copy'[c].snap[s] # Absent
BY CalmFacts DEF Answer, Bound, Fits, PlainValue, Bindable, Calm, ghosts, Absent, Methods

(* A slot without an accessor has nothing behind it. *)
LEMMA NoneBehind ==
  ASSUME JitInv, NEW s \in SlotSet, own[s].k # "acc"
  PROVE  Live(s) = {} /\ Pending = {} /\ Quiet
BY LiveOf DEF JitInv, Fronts, Fronting, Quiet

(* Zod's getter, where the slot is absent. *)
LEMMA AfterProtoGet ==
  ASSUME JitInv, Calm, copy' = copy, NEW s \in SlotSet, NEW rest, ProtoGet(s, rest),
         Quiet,
         Judged(s) => Fits(IF s \in Methods THEN "zod" ELSE "undefined", s),
         s \in Methods /\ ~Accepts("data", s, own) => own[s] = Absent,
         Judged(s) \/ op.kind = "aot"
  PROVE  /\ Follows /\ stack' = rest /\ Answer(s)'
         /\ ret' \in [threw : BOOLEAN, v : Values]
<1>1. CASE s \notin Methods
  <2>1. ret' = [threw |-> FALSE, v |-> "undefined"] /\ stack' = rest /\ own' = own
    BY <1>1 DEF ProtoGet, Return
  <2>2. Follows
    BY <2>1, FollowsKept
  <2>3. Answer(s)'
    BY <1>1, <2>1, <2>2, AnswerAfter DEF Follows, Quiet
  <2> QED BY <2>1, <2>2, <2>3, MakersAre
<1>2. CASE s \in Methods /\ Accepts("data", s, own)
  <2>1. /\ ret' = [threw |-> FALSE, v |-> "zod"] /\ stack' = rest
        /\ own' = [own EXCEPT ![s] = Data("zod", TRUE)]
    BY <1>2 DEF ProtoGet, Return
  <2>2. Judged(s) => Fits("zod", s)
    BY <1>2
  <2> DEFINE z == "zod"
             t == TRUE
  <2>3. z \in Makers /\ t \in BOOLEAN /\ (s # "~standard" => t)
    BY MakersAre
  <2>4. own' = [own EXCEPT ![s] = Data(z, t)] /\ (Judged(s) => Fits(z, s))
    BY <2>1, <2>2
  <2>8. Pending = {}
    BY <1>2, Accepting DEF JitInv, Quiet
  <2>5. Follows /\ Live(s)' = {} /\ Pending' = {} /\ own'[s] = Data(z, t)
    <3> HIDE DEF z, t
    <3> QED BY <2>3, <2>4, <2>8, FollowsSet
  <2>6. own'[s] # Absent
    <3> HIDE DEF z, t
    <3> QED BY <2>5, <2>3, DescriptorFields
  <2>7. Answer(s)'
    BY <2>1, <2>2, <2>5, <2>6, AnswerAfter DEF Quiet
  <2> QED BY <2>1, <2>5, <2>7, MakersAre
<1>3. CASE s \in Methods /\ ~Accepts("data", s, own)
  <2>1. ret' = [threw |-> TRUE, v |-> "undefined"] /\ stack' = rest /\ own' = own /\ own[s] = Absent
    BY <1>3 DEF ProtoGet, Throw
  <2>2. Follows
    BY <2>1, FollowsKept
  <2>3. ~Bindable(s)
    BY <1>3, Accepting DEF JitInv, Bindable
  <2>4. Quiet'
    BY <2>2 DEF Follows, Quiet
  <2>5. ret'.threw /\ own'[s] = Absent
    BY <2>1
  <2>6. Answer(s)'
    BY <2>3, <2>4, <2>5, <1>3, AnswerAfter
  <2> QED BY <2>1, <2>2, <2>6, MakersAre
<1> QED BY <1>1, <1>2, <1>3

(* What is absent, where the twin is not ahead, reads as it does on the twin. *)
LEMMA AbsentFits ==
  ASSUME Typed, NEW s \in SlotSet, Matches(Absent, s)
  PROVE  Fits(IF s \in Methods THEN "zod" ELSE "undefined", s)
<1>1. Absent.k = "absent" /\ Absent.v = "undefined"
  BY DescriptorFields
<1>2. CASE plain[s] = Absent
  BY <1>1, <1>2 DEF Fits, PlainValue
<1>3. CASE Binding(s)
  <2>1. plain[s] = Data("zod", TRUE) /\ s \in Methods
    BY <1>3 DEF Binding
  <2>2. plain[s].v = "zod"
    BY <2>1, DescriptorFields, MakersAre
  <2> QED BY <2>1, <2>2 DEF Fits, PlainValue
<1> QED BY <1>1, <1>2, <1>3 DEF Matches

(* A property read runs the accessor, or is answered. *)
LEMMA AfterGet ==
  ASSUME JitInv, Calm, copy' = copy, NEW s \in SlotSet, NEW rest, Get(s, rest),
         Judged(s) \/ op.kind = "aot"
  PROVE  /\ Follows /\ ret' \in [threw : BOOLEAN, v : Values]
         /\ \/ /\ own[s].k = "acc" /\ own[s] = Acc(own[s].v) /\ own[s].v \in Copies
               /\ own' = own /\ ret' = ret /\ (\A t \in SlotSet : Live(t)' = Live(t))
               /\ stack' = Append(rest, ReadFrame(own[s].v, s))
            \/ own[s].k # "acc" /\ stack' = rest /\ Answer(s)'
<1>0. own[s] \in Descriptors /\ (Judged(s) => FaithfulAt(s)) /\ ret \in [threw : BOOLEAN, v : Values]
  BY TypedSlots DEF JitInv, Faithful, Typed
<1>1. CASE own[s].k \in {"data", "lazy"}
  <2>1. ret' = [threw |-> FALSE, v |-> own[s].v] /\ stack' = rest /\ own' = own
    <3>1. Return(own[s].v, rest) /\ UNCHANGED own
      BY <1>1 DEF Get
    <3> QED BY <3>1 DEF Return
  <2>2. Follows
    BY <2>1, FollowsKept
  <2>3. Judged(s) => Fits(own[s].v, s)
    BY <1>0, <1>1 DEF FaithfulAt, Matches
  <2>4. Live(s)' = {} /\ Quiet
    BY <1>1, <2>2, NoneBehind DEF Follows
  <2>5. own[s] # Absent
    BY <1>1, DescriptorFields
  <2>6. Answer(s)'
    BY <2>1, <2>2, <2>3, <2>4, <2>5, AnswerAfter DEF Follows
  <2> QED BY <2>1, <2>2, <2>6, <1>1, <1>0, DescriptorKinds
<1>2. CASE own[s].k = "acc"
  <2>1. stack' = Append(rest, ReadFrame(own[s].v, s)) /\ own' = own /\ ret' = ret
    BY <1>2 DEF Get
  <2> QED BY <1>0, <1>2, <2>1, FollowsKept, DescriptorKinds
<1>3. CASE own[s].k = "absent"
  <2>1. ProtoGet(s, rest)
    BY <1>3 DEF Get
  <2>2. Quiet
    BY <1>3, NoneBehind
  <2>3. own[s] = Absent
    BY <1>0, <1>3, DescriptorKinds
  <2>4. Judged(s) => Fits(IF s \in Methods THEN "zod" ELSE "undefined", s)
    BY <1>0, <2>3, AbsentFits DEF JitInv, FaithfulAt
  <2> QED BY <1>3, <2>1, <2>2, <2>3, <2>4, AfterProtoGet
<1> QED BY <1>0, <1>1, <1>2, <1>3, DescriptorKinds

(* A property assignment runs the accessor, writes the slot or leaves it be. *)
LEMMA AfterAssign ==
  ASSUME JitInv, Calm, copy' = copy, NEW s \in SlotSet, NEW v \in Makers, NEW strict, NEW rest,
         Assign(s, v, strict, rest), s # "~standard", Judged(s) => Fits(v, s)
  PROVE  /\ Follows /\ ret' \in [threw : BOOLEAN, v : Values]
         /\ \/ /\ own[s] = Acc(own[s].v) /\ own[s].v \in Copies /\ own' = own /\ ret' = ret
               /\ (\A t \in SlotSet : Live(t)' = Live(t))
               /\ stack' = Append(rest, SetFrame(own[s].v, s, v))
            \/ /\ own[s].k # "acc" /\ Accepts("data", s, own) /\ stack' = rest
               /\ own' = [own EXCEPT ![s] = Data(v, TRUE)] /\ own'[s] = Data(v, TRUE) /\ ~ret'.threw
               /\ Live(s)' = {} /\ Pending' = {}
            \/ own[s].k # "acc" /\ ~Accepts("data", s, own) /\ stack' = rest /\ own' = own
<1>0. own[s] \in Descriptors /\ ret \in [threw : BOOLEAN, v : Values] /\ own[s].k # "lazy"
      /\ (own[s].k = "data" => own[s].w)
  BY TypedSlots DEF JitInv, Typed, Plainly
<1>1. CASE own[s].k = "acc"
  <2>1. stack' = Append(rest, SetFrame(own[s].v, s, v)) /\ own' = own /\ ret' = ret
    BY <1>1 DEF Assign
  <2> QED BY <1>0, <1>1, <2>1, FollowsKept, DescriptorKinds
<1>2. CASE own[s].k # "acc" /\ Accepts("data", s, own)
  <2>1. Assignable(own[s], s, own)
    BY <1>0, <1>2 DEF Assignable
  <2> DEFINE w == (own[s].k # "lazy")
             t == TRUE
  <2>2. own' = [own EXCEPT ![s] = Data(v, w)] /\ Return(v, rest)
    BY <1>2, <2>1 DEF Assign
  <2>3. w = t
    BY <1>0
  <2>4. ret' = [threw |-> FALSE, v |-> v] /\ stack' = rest /\ own' = [own EXCEPT ![s] = Data(v, t)]
    <3> HIDE DEF w, t
    <3> QED BY <2>2, <2>3 DEF Return
  <2>5. t \in BOOLEAN /\ (s # "~standard" => t)
    OBVIOUS
  <2>6. Pending = {}
    BY <1>2, NoneBehind
  <2>7. Follows /\ Live(s)' = {} /\ Pending' = {} /\ own'[s] = Data(v, t)
    <3> HIDE DEF t
    <3> QED BY <2>4, <2>5, <2>6, FollowsSet
  <2> QED BY <1>2, <2>4, <2>7, MakersAre
<1>3. CASE own[s].k # "acc" /\ ~Accepts("data", s, own)
  <2>1. ~Assignable(own[s], s, own)
    BY <1>3 DEF Assignable
  <2>2. /\ own' = own /\ stack' = rest /\ ret' \in [threw : BOOLEAN, v : Values]
    <3>1. UNCHANGED own /\ (Throw(rest) \/ Return(v, rest))
      BY <1>3, <2>1 DEF Assign
    <3>2. CASE Throw(rest)
      BY <3>1, <3>2, MakersAre DEF Throw
    <3>3. CASE Return(v, rest)
      BY <3>1, <3>3, MakersAre DEF Return
    <3> QED BY <3>1, <3>2, <3>3
  <2> QED BY <1>3, <2>2, FollowsKept
<1> QED BY <1>1, <1>2, <1>3

-----------------------------------------------------------------------------
(* The stack *)

(* The frames, by what is called. *)
LEMMA FrameKinds ==
  ASSUME NEW x \in Frames
  PROVE  /\ x.f \in {"read", "set", "mkv"}
         /\ x.f = "read" => /\ x \in ReadFrames /\ x.c \in Copies /\ x.s \in SlotSet /\ x.nested \in BOOLEAN
                            /\ x.pc \in {"enter", "look", "serve", "strand", "give"}
         /\ x.f = "set"  => /\ x \in SetFrames /\ x.c \in Copies /\ x.s \in SlotSet /\ x.v \in Makers
                            /\ x.pc \in {"cancel", "write"}
         /\ x.f = "mkv"  => x \in MkvFrames /\ x.by \in Copies \cup {"aot"} /\ x.pc \in 1 .. 11
BY DEF Frames, ReadFrames, SetFrames, MkvFrames

(* A call goes on to its next stage. *)
LEMMA FrameMoves ==
  /\ \A x \in ReadFrames, pc \in {"enter", "look", "serve", "strand", "give"} :
       LET y == [x EXCEPT !.pc = pc]
       IN y \in Frames /\ y.f = "read" /\ y.c = x.c /\ y.s = x.s /\ y.nested = x.nested /\ y.pc = pc
  /\ \A x \in SetFrames, pc \in {"cancel", "write"} :
       LET y == [x EXCEPT !.pc = pc]
       IN y \in Frames /\ y.f = "set" /\ y.c = x.c /\ y.s = x.s /\ y.v = x.v /\ y.pc = pc
  /\ \A x \in MkvFrames, pc \in 1 .. 11 :
       LET y == [x EXCEPT !.pc = pc]
       IN y \in Frames /\ y.f = "mkv" /\ y.by = x.by /\ y.pc = pc
BY DEF Frames, ReadFrames, SetFrames, MkvFrames

(* A call begins. *)
LEMMA FramesBegin ==
  /\ \A c \in Copies, s \in SlotSet :
       LET z == ReadFrame(c, s)
       IN z \in Frames /\ z.f = "read" /\ z.c = c /\ z.s = s /\ z.pc = "enter" /\ ~z.nested
  /\ \A c \in Copies, s \in SlotSet, v \in Makers :
       LET z == SetFrame(c, s, v)
       IN z \in Frames /\ z.f = "set" /\ z.c = c /\ z.s = s /\ z.v = v /\ z.pc = "cancel"
  /\ \A by \in Copies \cup {"aot"} :
       LET z == MkvFrame(by)
       IN z \in Frames /\ z.f = "mkv" /\ z.by = by /\ z.pc = 1
BY DEF ReadFrame, SetFrame, MkvFrame, Frames, ReadFrames, SetFrames, MkvFrames

(* A stack that goes on from the calls below the top. *)
Below(q) == /\ q \in Seq(Frames) /\ Len(q) >= Len(stack) - 1
            /\ \A i \in 1 .. Len(stack) - 1 : q[i] = stack[i]

(* The top of the stack, and the calls below it. *)
LEMMA RestIs ==
  ASSUME Typed, stack # << >>
  PROVE  /\ Below(Rest) /\ Len(Rest) = Len(stack) - 1
         /\ Len(stack) \in Nat /\ Len(stack) >= 1
         /\ Top = stack[Len(stack)] /\ Top \in Frames
         /\ \A i \in 1 .. Len(stack) : stack[i] \in Frames
         /\ Rest = << >> <=> Len(stack) = 1
<1>1. stack \in Seq(Frames) /\ Len(stack) \in Nat
  BY DEF Typed
<1>2. Len(stack) >= 1 /\ \A i \in 1 .. Len(stack) : stack[i] \in Frames
  BY <1>1
<1>3. Rest \in Seq(Frames) /\ Len(Rest) = Len(stack) - 1 /\ \A i \in 1 .. Len(stack) - 1 : Rest[i] = stack[i]
  <2> DEFINE n == Len(stack) - 1
             m == 1
  <2>1. n \in Int /\ m \in Int /\ n - m + 1 = n /\ (IF m <= n THEN n - m + 1 ELSE 0) = n
    <3>1. n \in Nat
      BY <1>1, <1>2
    <3> HIDE DEF n
    <3> QED BY <3>1
  <2>4. \A i \in m .. n : stack[i] \in Frames /\ m + i - 1 = i
    BY <1>1, <1>2
  <2>2. Rest = SubSeq(stack, m, n)
    BY DEF Rest, Front
  <2>3. Rest \in Seq(Frames) /\ Len(Rest) = n /\ \A i \in 1 .. n : Rest[i] = stack[m + i - 1]
    <3> HIDE DEF n, m
    <3> QED BY <2>1, <2>2, <2>4, SubSeqProperties
  <2> QED BY <2>3, <2>4
<1> QED BY <1>1, <1>2, <1>3 DEF Below, Top, Last

(* The stack after the call on top has gone on ... *)
LEMMA TurnIs ==
  ASSUME Typed, stack # << >>, NEW y \in Frames
  PROVE  LET q == Append(Rest, y)
         IN /\ Below(q) /\ Len(q) = Len(stack) /\ q[Len(stack)] = y /\ q # << >>
            /\ \A i \in 1 .. Len(q) : q[i] \in Frames
<1>1. Rest \in Seq(Frames) /\ Len(Rest) = Len(stack) - 1 /\ Len(stack) \in Nat /\ Len(stack) >= 1
      /\ \A i \in 1 .. Len(stack) - 1 : Rest[i] = stack[i]
  BY RestIs DEF Below
<1> HIDE DEF Rest
<1>2. /\ Append(Rest, y) \in Seq(Frames) /\ Len(Append(Rest, y)) = Len(stack)
      /\ Append(Rest, y)[Len(stack)] = y
      /\ \A i \in 1 .. Len(stack) - 1 : Append(Rest, y)[i] = stack[i]
  BY <1>1
<1> QED BY <1>1, <1>2 DEF Below

(* ... and after it has called. *)
LEMMA CallIs ==
  ASSUME Typed, stack # << >>, NEW y \in Frames, NEW z \in Frames
  PROVE  LET q == Append(Append(Rest, y), z)
         IN /\ Below(q) /\ Len(q) = Len(stack) + 1 /\ q[Len(stack)] = y /\ q[Len(stack) + 1] = z
            /\ q # << >>
<1> DEFINE r == Append(Rest, y)
<1>1. /\ r \in Seq(Frames) /\ Len(r) = Len(stack) /\ r[Len(stack)] = y /\ Len(stack) \in Nat /\ Len(stack) >= 1
      /\ \A i \in 1 .. Len(stack) - 1 : r[i] = stack[i]
  BY TurnIs, RestIs DEF Below
<1> HIDE DEF r
<1>2. /\ Append(r, z) \in Seq(Frames) /\ Len(Append(r, z)) = Len(stack) + 1
      /\ Append(r, z)[Len(stack)] = y /\ Append(r, z)[Len(stack) + 1] = z
      /\ \A i \in 1 .. Len(stack) - 1 : Append(r, z)[i] = stack[i]
  BY <1>1
<1> QED BY <1>1, <1>2 DEF Below, r

(* How a step leaves the stack: the call on top returns, goes on, or calls.  *)
Returns     == stack' = Rest
Goes(y)     == stack' = Append(Rest, y)
GoesOn(y, z) == stack' = Append(Append(Rest, y), z)

(* The call that goes on stays the same call. *)
SameCall(y) ==
  /\ y.f = Top.f
  /\ y.f \in {"read", "set"} => y.s = Top.s
  /\ y.f = "set" => y.v = Top.v
  /\ y.f = "mkv" => y.by = Top.by

(* Who calls whom, after a return ... *)
LEMMA CallsReturning ==
  ASSUME Typed, Calls, Calm, stack # << >>, Returns
  PROVE  Calls'
<1>1. /\ Len(stack') = Len(stack) - 1 /\ Len(stack) \in Nat /\ Len(stack) >= 1
      /\ \A i \in 1 .. Len(stack) - 1 : stack'[i] = stack[i]
      /\ stack' = << >> <=> Len(stack) = 1
  BY RestIs DEF Below, Returns
<1>2. \A i \in 1 .. Len(stack') - 1 : Linked(stack'[i], stack'[i + 1])
  BY <1>1 DEF Calls
<1>3. stack' # << >> => Bottom'
  BY <1>1 DEF Calls, Bottom, Calm
<1>4. (\A i \in 1 .. Len(stack) - 1 : Linked(stack[i], stack[i + 1]))'
        <=> \A i \in 1 .. Len(stack') - 1 : Linked(stack'[i], stack'[i + 1])
  BY DEF Linked
<1> QED BY <1>2, <1>3, <1>4 DEF Calls

(* ... when the call on top goes on ... *)
LEMMA CallsGo ==
  ASSUME Typed, Calls, Calm, stack # << >>, NEW y \in Frames, Goes(y), SameCall(y)
  PROVE  Calls'
<1>1. /\ Len(stack') = Len(stack) /\ Len(stack) \in Nat /\ Len(stack) >= 1 /\ Top = stack[Len(stack)]
      /\ \A i \in 1 .. Len(stack) - 1 : stack'[i] = stack[i]
      /\ stack'[Len(stack)] = y
  BY RestIs, TurnIs DEF Below, Goes
<1>2. \A a : Linked(a, Top) => Linked(a, y)
  <2>1. Top.f \in {"read", "set", "mkv"}
    BY RestIs, FrameKinds
  <2> QED BY <2>1 DEF SameCall, Linked
<1>3. ASSUME NEW i \in 1 .. Len(stack') - 1
      PROVE  Linked(stack'[i], stack'[i + 1])
  <2>1. Linked(stack[i], stack[i + 1]) /\ stack'[i] = stack[i]
    BY <1>1 DEF Calls
  <2>2. CASE i + 1 = Len(stack)
    BY <1>1, <1>2, <2>1, <2>2
  <2>3. CASE i + 1 # Len(stack)
    BY <1>1, <2>1, <2>3
  <2> QED BY <2>2, <2>3
<1>4. Bottom'
  <2>1. CASE Len(stack) = 1
    BY <1>1, <2>1 DEF Calls, Bottom, SameCall, Calm
  <2>2. CASE Len(stack) # 1
    <3>1. stack'[1] = stack[1]
      BY <1>1, <2>2
    <3> QED BY <1>1, <3>1 DEF Calls, Bottom, Calm
  <2> QED BY <2>1, <2>2
<1>5. (\A i \in 1 .. Len(stack) - 1 : Linked(stack[i], stack[i + 1]))'
        <=> \A i \in 1 .. Len(stack') - 1 : Linked(stack'[i], stack'[i + 1])
  BY DEF Linked
<1> QED BY <1>3, <1>4, <1>5 DEF Calls

(* ... and when it calls. *)
LEMMA CallsGoOn ==
  ASSUME Typed, Calls, Calm, stack # << >>, NEW y \in Frames, NEW z \in Frames, GoesOn(y, z),
         SameCall(y), Linked(y, z)
  PROVE  Calls'
<1>1. /\ Len(stack') = Len(stack) + 1 /\ Len(stack) \in Nat /\ Len(stack) >= 1 /\ Top = stack[Len(stack)]
      /\ \A i \in 1 .. Len(stack) - 1 : stack'[i] = stack[i]
      /\ stack'[Len(stack)] = y /\ stack'[Len(stack) + 1] = z
  BY RestIs, CallIs DEF Below, GoesOn
<1>2. \A a : Linked(a, Top) => Linked(a, y)
  <2>1. Top.f \in {"read", "set", "mkv"}
    BY RestIs, FrameKinds
  <2> QED BY <2>1 DEF SameCall, Linked
<1>3. ASSUME NEW i \in 1 .. Len(stack') - 1
      PROVE  Linked(stack'[i], stack'[i + 1])
  <2>1. CASE i = Len(stack)
    BY <1>1, <2>1
  <2>2. CASE i + 1 = Len(stack)
    <3>1. Linked(stack[i], Top) /\ stack'[i] = stack[i]
      BY <1>1, <2>2 DEF Calls
    <3> QED BY <1>1, <1>2, <2>2, <3>1
  <2>3. CASE i + 1 < Len(stack)
    <3>1. i \in 1 .. Len(stack) - 1 /\ i + 1 \in 1 .. Len(stack) - 1
      BY <1>1, <2>3
    <3>2. Linked(stack[i], stack[i + 1]) /\ stack'[i] = stack[i] /\ stack'[i + 1] = stack[i + 1]
      BY <1>1, <3>1 DEF Calls
    <3> QED BY <3>2
  <2> QED BY <1>1, <2>1, <2>2, <2>3
<1>4. Bottom'
  <2>1. y.f # "set"
    BY DEF Linked
  <2>2. CASE Len(stack) = 1
    BY <1>1, <2>1, <2>2 DEF Calls, Bottom, SameCall, Calm
  <2>3. CASE Len(stack) # 1
    <3>2. 1 \in 1 .. Len(stack) - 1
      <4> DEFINE k == Len(stack)
      <4>1. k \in Nat /\ k >= 1 /\ k # 1
        BY <1>1, <2>3
      <4> HIDE DEF k
      <4>2. 1 \in 1 .. k - 1
        BY <4>1
      <4> QED BY <4>2 DEF k
    <3>1. stack'[1] = stack[1]
      BY <1>1, <3>2
    <3> QED BY <1>1, <2>3, <3>1 DEF Calls, Bottom, Calm
  <2> QED BY <2>2, <2>3
<1>5. (\A i \in 1 .. Len(stack) - 1 : Linked(stack[i], stack[i + 1]))'
        <=> \A i \in 1 .. Len(stack') - 1 : Linked(stack'[i], stack'[i + 1])
  BY DEF Linked
<1> QED BY <1>3, <1>4, <1>5 DEF Calls

(* A slot that is being read still is, unless its read returns. *)
LEMMA ReadingStep ==
  ASSUME Typed, Reading, stack # << >>, Below(stack'),
         \A c \in Copies, s \in SlotSet : s \in copy'[c].reading =>
            \/ s \in copy[c].reading /\ ~IsReading(Top, c, s)
            \/ Len(stack') >= Len(stack) /\ IsReading(stack'[Len(stack)], c, s)
  PROVE  Reading'
<1> DEFINE n == Len(stack)
           m == Len(stack')
<1>1. n \in Nat /\ m \in Nat /\ m >= n - 1 /\ n >= 1 /\ Top = stack[n]
      /\ \A i \in 1 .. n - 1 : stack'[i] = stack[i]
  BY RestIs DEF Below
<1>2. ASSUME NEW c \in Copies, NEW s \in SlotSet, s \in copy'[c].reading
      PROVE  \E i \in 1 .. m : IsReading(stack'[i], c, s)
  <2>1. CASE s \in copy[c].reading /\ ~IsReading(Top, c, s)
    <3>1. PICK i \in 1 .. n : IsReading(stack[i], c, s)
      BY <2>1 DEF Reading
    <3>2. i # n
      BY <1>1, <2>1, <3>1
    <3> HIDE DEF n, m
    <3>3. i \in 1 .. n - 1 /\ i \in 1 .. m
      BY <1>1, <3>2
    <3> QED BY <1>1, <3>1, <3>3
  <2>2. CASE m >= n /\ IsReading(stack'[n], c, s)
    <3>1. n \in 1 .. m
      <4> HIDE DEF n, m
      <4> QED BY <1>1, <2>2
    <3> QED BY <2>2, <3>1
  <2> QED BY <1>2, <2>1, <2>2
<1> QED BY <1>2 DEF Reading, IsReading

(* What holds of every call below the top still does. *)
LEMMA DeepStep ==
  ASSUME Typed, Deep, Calm, stack # << >>, Below(stack'), Quiet => Quiet',
         \A c \in Copies : copy'[c].pending => copy[c].pending,
         \A c \in Copies : copy'[c].reading # {} => ~copy'[c].pending,
         \A i \in Len(stack) .. Len(stack') : Sound(stack[i])',
         \A i \in Len(stack) .. Len(stack') - 1 : stack'[i].f = "mkv" /\ stack'[i].pc >= 4 => Quiet'
  PROVE  Deep'
<1> DEFINE n == Len(stack)
           m == Len(stack')
<1>1. n \in Nat /\ m \in Nat /\ m >= n - 1 /\ n >= 1
      /\ \A i \in 1 .. n - 1 : stack'[i] = stack[i] /\ stack[i] \in Frames
  BY RestIs DEF Below
<1>2. ASSUME NEW i \in 1 .. m
      PROVE  Sound(stack[i])'
  <2>1. CASE i \in n .. m
    BY <2>1
  <2>2. CASE i \in 1 .. n - 1
    <3>1. Sound(stack[i]) /\ stack'[i] = stack[i] /\ stack[i] \in Frames
      <4>1. i \in 1 .. n
        <5> HIDE DEF n
        <5> QED BY <1>1, <2>2
      <4> QED BY <1>1, <2>2, <4>1 DEF Deep
    <3> QED BY <3>1, FrameKinds DEF Sound, Calm, ghosts
  <2> HIDE DEF n, m
  <2> QED BY <1>1, <2>1, <2>2
<1>3. ASSUME NEW i \in 1 .. m - 1, stack'[i].f = "mkv" /\ stack'[i].pc >= 4
      PROVE  Quiet'
  <2>1. CASE i \in n .. m - 1
    BY <1>3, <2>1
  <2>2. CASE i \in 1 .. n - 1
    BY <1>1, <1>3, <2>2 DEF Deep
  <2> HIDE DEF n, m
  <2> QED BY <1>1, <2>1, <2>2
<1> QED BY <1>2, <1>3 DEF Deep

(* The places of the slots among the statements. *)
LEMMA PosIs ==
  \A s \in SlotSet : Pos(s) \in 5 .. 10
<1>1. /\ Pos("parse") = 5 /\ Pos("safeParse") = 6 /\ Pos("safeParseAsync") = 7
      /\ Pos("parseAsync") = 8 /\ Pos("is") = 9 /\ Pos("~standard") = 10
  BY DEF Pos
<1> QED BY <1>1, SlotsAre

(* An operation goes on as long as there are calls. *)
LEMMA OperationsStep ==
  ASSUME JitInv, Calm, Follows, stack # << >>, stack' # << >>, Below(stack'),
         op.kind = "aot" /\ Len(stack) = 1 =>
            /\ stack'[1].pc >= 4 => Len(stack') = 1
            /\ \A s \in SlotSet : stack'[1].pc > Pos(s) => own'[s].k = "data" /\ own'[s].v = "aot"
  PROVE  Operations'
<1>1. Operations /\ Typed
  BY DEF JitInv
<1>2. (op.kind = "read" => (plainThrew <=> plain[op.s] = Absent /\ op.s \in Methods))'
  BY <1>1 DEF Operations, Calm, ghosts, Absent, Methods
<1>3. Writes'
  <2>1. PICK s \in SlotSet : s = op.s /\ s = op'.s
    BY <1>1 DEF Typed, Calm
  <2> SUFFICES ASSUME op.kind = "write"
               PROVE  /\ plainThrew => "user" \in after[s]
                      /\ ~plainThrew =>
                         /\ "data" \notin refused /\ ~frozen /\ s \notin locked
                         /\ plain[s] = Data("user", TRUE)
                         /\ own'[s] = Absent \/ (\E c \in Live(s)' : copy'[c].snap[s] = Absent) => extensible
    BY <2>1 DEF Writes, Calm, ghosts, Absent, Data, Live, Chain, Closed
  <2>2. Writes
    BY <1>1 DEF Operations
  <2>3. ASSUME ~plainThrew, own'[s] = Absent \/ (\E c \in Live(s)' : copy'[c].snap[s] = Absent)
        PROVE  extensible
    <3>1. /\ Live(s)' \subseteq Live(s) /\ Live(s) \subseteq Copies
          /\ \A c \in Copies : copy'[c].snap[s] = copy[c].snap[s]
          /\ own'[s] = own[s] \/ (\E c \in Live(s) : own'[s] = copy[c].snap[s]) \/ own'[s].k = "data"
      BY <1>1, TypedSlots DEF Follows
    <3>2. own[s] = Absent \/ (\E c \in Live(s) : copy[c].snap[s] = Absent)
      BY <2>3, <3>1, DescriptorFields
    <3> QED BY <2>1, <2>2, <2>3, <3>2 DEF Writes
  <2> QED BY <2>1, <2>2, <2>3 DEF Writes
<1>4. Builds'
  <2> SUFFICES ASSUME op.kind = "aot"
               PROVE  /\ extensible /\ ~frozen /\ locked = {} /\ refused = {}
                      /\ stack'[1].pc >= 4 => Len(stack') = 1
                      /\ \A s \in SlotSet : /\ plain[s].k = "data" /\ plain[s].v = "aot"
                                            /\ stack'[1].pc > Pos(s) => own'[s].k = "data" /\ own'[s].v = "aot"
    BY DEF Builds, Calm, ghosts, Pos
  <2>1. Builds
    BY <1>1 DEF Operations
  <2>2. CASE Len(stack) = 1
    BY <2>1, <2>2 DEF Builds
  <2>3. CASE Len(stack) # 1
    <3>1. stack'[1] = stack[1]
      <4> DEFINE n == Len(stack)
      <4>1. n \in Nat /\ n >= 1 /\ n # 1 /\ \A i \in 1 .. n - 1 : stack'[i] = stack[i]
        BY <1>1, <2>3, RestIs DEF Below
      <4> HIDE DEF n
      <4>2. 1 \in 1 .. n - 1
        BY <4>1
      <4> QED BY <4>1, <4>2
    <3>2. ~(stack[1].pc >= 4)
      BY <2>1, <2>3 DEF Builds
    <3>3. stack[1].f = "mkv" /\ stack[1].pc \in 1 .. 11
      <4>1. stack[1] \in Frames
        BY <1>1, RestIs
      <4>2. stack[1].f = "mkv"
        BY DEF JitInv, Calls, Bottom
      <4> QED BY <4>1, <4>2, FrameKinds
    <3>4. \A s \in SlotSet : ~(stack[1].pc > Pos(s))
      BY <3>2, <3>3, PosIs
    <3> QED BY <2>1, <3>1, <3>2, <3>4 DEF Builds
  <2> QED BY <2>2, <2>3
<1> QED BY <1>2, <1>3, <1>4 DEF Operations, Rests

(* A step that leaves calls on the stack. *)
LEMMA Assemble ==
  ASSUME JitInv, Calm, Follows, stack # << >>, stack' # << >>, Below(stack'),
         ret' \in [threw : BOOLEAN, v : Values],
         Reading', Calls', OnTop', Deep', Operations'
  PROVE  JitInv'
<1>1. Typed'
  BY DEF JitInv, Typed, Follows, DataTyped, Below, Calm, ghosts, Plainly
<1>2. Faithful'
  BY CalmFacts DEF Follows, Faithful
<1> QED BY <1>1, <1>2 DEF JitInv, Follows

(* What the call on top of the stack has to satisfy, by its kind. *)
LEMMA ReadTopAfter ==
  ASSUME NEW c, NEW s, NEW z, stack' # << >>, stack'[Len(stack')] = z,
         z.f = "read", z.c = c, z.s = s, z.pc = "enter" => ~z.nested,
         z.pc \in {"enter", "serve"} => c \in Live(s)' /\ (frozen' \/ own'[s] = Acc(c)),
         z.pc \in {"strand", "give"} => Answer(s)'
  PROVE  OnTop'
<1>1. Top' = z
  BY DEF Top, Last
<1> HIDE DEF Top
<1>2. ReadTop(Top)'
  BY <1>1 DEF ReadTop, Live, Chain, Closed, Answer, Bound, Quiet, Pending, Fits, PlainValue, Bindable,
             Acc, Absent, Methods
<1> QED BY <1>1, <1>2 DEF OnTop

(* ... where it is a write ... *)
LEMMA SetTopAfter ==
  ASSUME NEW c, NEW s, NEW z, stack' # << >>, stack'[Len(stack')] = z,
         z.f = "set", z.c = c, z.s = s, s # "~standard", op'.kind # "aot",
         z.pc = "cancel" => own'[s] = Acc(c),
         z.pc = "write" => ~copy'[c].pending
  PROVE  OnTop'
<1>1. Top' = z
  BY DEF Top, Last
<1> HIDE DEF Top
<1>2. SetTop(Top)'
  BY <1>1 DEF SetTop, Acc
<1> QED BY <1>1, <1>2 DEF OnTop

(* ... where it is a validator that installs itself. *)
LEMMA MkvTopAfter ==
  ASSUME NEW z, stack' # << >>, stack'[Len(stack')] = z, z.f = "mkv",
         z.pc >= 3 => Quiet', z.by = "aot" => ~ret'.threw
  PROVE  OnTop'
<1>1. Top' = z
  BY DEF Top, Last
<1> HIDE DEF Top
<1>2. MkvTop(Top)'
  BY <1>1 DEF MkvTop, Quiet
<1> QED BY <1>1, <1>2 DEF OnTop

(* What is under way, seen from the top of the stack. *)
LEMMA Underway ==
  ASSUME JitInv, stack # << >>
  PROVE  /\ op.kind \in {"read", "write", "jit", "aot"}
         /\ Top.f # "set" \/ Len(stack) > 1 => op.kind # "write"
         /\ op.kind \notin {"write", "aot"} => \A s : Judged(s)
         /\ Top.f = "read" /\ Len(stack) = 1 => op.kind = "read" /\ op.s = Top.s
         /\ Top.f = "set" /\ Len(stack) = 1 => op.kind = "write" /\ op.s = Top.s /\ Top.v = "user"
         /\ Top.f = "mkv" /\ Len(stack) = 1 =>
              \/ op.kind = "aot" /\ Top.by = "aot"
              \/ op.kind = "jit" /\ Top.by \in Copies
         /\ op.kind = "aot" => \A s \in SlotSet : Bindable(s) /\ ~Judged(s) /\ refused = {}
<1>1. Len(stack) \in Nat /\ Len(stack) >= 1 /\ Top = stack[Len(stack)] /\ Typed
  BY RestIs DEF JitInv
<1>2. Bottom
  BY DEF JitInv, Calls
<1>3. op.kind \in {"read", "write", "jit", "aot"}
  BY <1>2 DEF Bottom
<1>4. Top.f # "set" \/ Len(stack) > 1 => op.kind # "write"
  BY <1>1, <1>2 DEF Bottom
<1>5. op.kind = "aot" => \A s \in SlotSet : Bindable(s) /\ ~Judged(s) /\ refused = {}
  BY DEF JitInv, Operations, Builds, Bindable, Judged
<1>6. Len(stack) = 1 => Top = stack[1]
  BY <1>1
<1>7. stack[1].f = "mkv" => stack[1].by \in Copies \cup {"aot"}
  BY <1>1, RestIs, FrameKinds
<1> QED BY <1>2, <1>3, <1>4, <1>5, <1>6, <1>7 DEF Bottom, Judged

(* The call below the top. *)
LEMMA Caller ==
  ASSUME JitInv, stack # << >>, Len(stack) # 1
  PROVE  LET b == stack[Len(stack) - 1]
         IN /\ b \in Frames /\ Linked(b, Top) /\ Sound(b)
            /\ b.f = "mkv" /\ b.pc >= 4 => Quiet
            /\ b.f = "mkv" /\ b.by = "aot" => op.kind = "aot"
<1> DEFINE n == Len(stack)
<1>1. n \in Nat /\ n >= 1 /\ n # 1 /\ Top = stack[n] /\ \A i \in 1 .. n : stack[i] \in Frames
  BY RestIs DEF JitInv
<1>2. /\ \A i \in 1 .. n - 1 : Linked(stack[i], stack[i + 1])
      /\ \A i \in 1 .. n : Sound(stack[i])
      /\ \A i \in 1 .. n - 1 : stack[i].f = "mkv" /\ stack[i].pc >= 4 => Quiet
      /\ Bottom
  BY DEF JitInv, Calls, Deep
<1> HIDE DEF n
<1>3. n - 1 \in 1 .. n - 1 /\ n - 1 \in 1 .. n /\ (n - 1) + 1 = n
  BY <1>1
<1>4. stack[n - 1] \in Frames /\ Linked(stack[n - 1], Top) /\ Sound(stack[n - 1])
      /\ (stack[n - 1].f = "mkv" /\ stack[n - 1].pc >= 4 => Quiet)
  <2>1. Linked(stack[n - 1], stack[(n - 1) + 1])
    BY <1>2, <1>3
  <2> QED BY <1>1, <1>2, <1>3, <2>1
<1>5. ASSUME stack[n - 1].f = "mkv", stack[n - 1].by = "aot"
      PROVE  op.kind = "aot"
  <2>1. CASE n - 1 = 1
    <3>1. stack[1].f = "mkv" /\ stack[1].by = "aot" /\ "aot" \notin Copies
      BY <1>5, <2>1, MakersAre
    <3> QED BY <1>2, <3>1 DEF Bottom
  <2>2. CASE n - 1 # 1
    <3>1. n - 2 \in 1 .. n - 1 /\ (n - 2) + 1 = n - 1
      BY <1>1, <2>2
    <3>2. Linked(stack[n - 2], stack[(n - 2) + 1])
      BY <1>2, <3>1
    <3>3. Linked(stack[n - 2], stack[n - 1])
      BY <3>1, <3>2
    <3> QED BY <1>5, <3>3, MakersAre DEF Linked
  <2> QED BY <2>1, <2>2
<1> QED BY <1>4, <1>5 DEF n

(* The parts of the invariant that a call reads. *)
LEMMA Parts ==
  ASSUME JitInv
  PROVE  /\ Typed /\ Reading /\ Calls /\ Fronts /\ Faithful /\ OnTop /\ Deep /\ Operations
         /\ ret \in [threw : BOOLEAN, v : Values] /\ copy \in [Copies -> [seen : BOOLEAN, pending : BOOLEAN,
              snap : [SlotSet -> Descriptors], reading : SUBSET SlotSet,
              stranded : [SlotSet -> Values \cup {"none"}]]]
BY DEF JitInv, Typed

(* The call on top goes on. *)
LEMMA GoStep ==
  ASSUME JitInv, Calm, Follows, stack # << >>, NEW y \in Frames, Goes(y), SameCall(y),
         ret' \in [threw : BOOLEAN, v : Values],
         \A d \in Copies : copy'[d].reading # {} => ~copy'[d].pending,
         \A d \in Copies, t \in SlotSet : t \in copy'[d].reading =>
            (t \in copy[d].reading /\ ~IsReading(Top, d, t)) \/ IsReading(y, d, t),
         Sound(y)', OnTop',
         op.kind = "aot" /\ Len(stack) = 1 =>
            \A t \in SlotSet : y.pc > Pos(t) => own'[t].k = "data" /\ own'[t].v = "aot"
  PROVE  JitInv'
<1>1. /\ Below(stack') /\ Len(stack') = Len(stack) /\ stack'[Len(stack)] = y /\ stack' # << >>
      /\ Len(stack) \in Nat /\ Len(stack) >= 1
  BY TurnIs, RestIs, Parts DEF Goes
<1>2. Reading'
  BY <1>1, ReadingStep, Parts
<1>3. Calls'
  BY CallsGo, Parts
<1>4. Deep'
  <2>1. \A i \in Len(stack) .. Len(stack') : Sound(stack[i])'
    BY <1>1 DEF Sound
  <2>2. \A i \in Len(stack) .. Len(stack') - 1 : FALSE
    BY <1>1
  <2>3. \A d \in Copies : copy'[d].pending => copy[d].pending
    BY DEF Follows, Pending
  <2> QED BY <1>1, <2>1, <2>2, <2>3, DeepStep, Parts DEF Follows
<1>5. Operations'
  BY <1>1, OperationsStep
<1> QED BY <1>1, <1>2, <1>3, <1>4, <1>5, Assemble

(* It calls. *)
LEMMA GoOnStep ==
  ASSUME JitInv, Calm, Follows, stack # << >>, NEW y \in Frames, NEW z \in Frames, GoesOn(y, z),
         SameCall(y), Linked(y, z), ret' \in [threw : BOOLEAN, v : Values],
         \A d \in Copies : copy'[d].reading # {} => ~copy'[d].pending,
         \A d \in Copies, t \in SlotSet : t \in copy'[d].reading =>
            (t \in copy[d].reading /\ ~IsReading(Top, d, t)) \/ IsReading(y, d, t),
         Sound(y)', Sound(z)', y.f = "mkv" /\ y.pc >= 4 => Quiet', OnTop',
         op.kind = "aot" /\ Len(stack) = 1 => y.f = "mkv" /\ y.pc <= 3
  PROVE  JitInv'
<1>1. /\ Below(stack') /\ Len(stack') = Len(stack) + 1 /\ stack'[Len(stack)] = y /\ stack' # << >>
      /\ stack'[Len(stack) + 1] = z /\ Len(stack) \in Nat /\ Len(stack) >= 1
  BY CallIs, RestIs, Parts DEF GoesOn
<1>2. Reading'
  BY <1>1, ReadingStep, Parts
<1>3. Calls'
  BY CallsGoOn, Parts
<1>4. Deep'
  <2>1. \A i \in Len(stack) .. Len(stack') : Sound(stack[i])'
    <3>1. \A i \in Len(stack) .. Len(stack') : i = Len(stack) \/ i = Len(stack) + 1
      BY <1>1
    <3> QED BY <1>1, <3>1 DEF Sound
  <2>2. \A i \in Len(stack) .. Len(stack') - 1 : i = Len(stack)
    BY <1>1
  <2>3. \A d \in Copies : copy'[d].pending => copy[d].pending
    BY DEF Follows, Pending
  <2> QED BY <1>1, <2>1, <2>2, <2>3, DeepStep, Parts DEF Follows
<1>5. Operations'
  <2>1. op.kind = "aot" /\ Len(stack) = 1 =>
          ~(stack'[1].pc >= 4) /\ \A t \in SlotSet : ~(stack'[1].pc > Pos(t))
    <3> SUFFICES ASSUME op.kind = "aot", Len(stack) = 1
                 PROVE  ~(y.pc >= 4) /\ \A t \in SlotSet : ~(y.pc > Pos(t))
      BY <1>1
    <3>1. y.pc \in 1 .. 11 /\ y.pc <= 3
      BY FrameKinds
    <3> QED BY <3>1, PosIs
  <2> QED BY <1>1, <2>1, OperationsStep
<1> QED BY <1>1, <1>2, <1>3, <1>4, <1>5, Assemble

(* It returns to its caller. *)
LEMMA ReturnStep ==
  ASSUME JitInv, Calm, Follows, stack # << >>, Len(stack) # 1, Returns,
         ret' \in [threw : BOOLEAN, v : Values],
         \A d \in Copies : copy'[d].reading # {} => ~copy'[d].pending,
         \A d \in Copies, t \in SlotSet : t \in copy'[d].reading =>
            t \in copy[d].reading /\ ~IsReading(Top, d, t),
         OnTop'
  PROVE  JitInv'
<1>1. /\ Below(stack') /\ Len(stack') = Len(stack) - 1 /\ stack' # << >>
      /\ Len(stack) \in Nat /\ Len(stack) >= 1
  BY RestIs, Parts DEF Returns
<1>2. Reading'
  BY <1>1, ReadingStep, Parts
<1>3. Calls'
  BY CallsReturning, Parts
<1>4. Deep'
  <2> DEFINE n == Len(stack)
             m == Len(stack')
  <2>1. \A i \in n .. m : FALSE
    <3>1. n \in Nat /\ m = n - 1
      BY <1>1
    <3> HIDE DEF n, m
    <3> QED BY <3>1
  <2>2. \A i \in n .. m - 1 : FALSE
    <3>1. n \in Nat /\ m = n - 1
      BY <1>1
    <3> HIDE DEF n, m
    <3> QED BY <3>1
  <2>3. \A d \in Copies : copy'[d].pending => copy[d].pending
    BY DEF Follows, Pending
  <2> QED BY <1>1, <2>1, <2>2, <2>3, DeepStep, Parts DEF Follows
<1>5. Operations'
  BY <1>1, OperationsStep
<1> QED BY <1>1, <1>2, <1>3, <1>4, <1>5, Assemble

-----------------------------------------------------------------------------
(* An accessor is read *)

(* A call is on top. *)
LEMMA IsAt ==
  ASSUME JitInv, NEW f, NEW pc, At(f, pc)
  PROVE  /\ stack # << >> /\ Top.f = f /\ Top.pc = pc /\ Top \in Frames
         /\ Len(stack) \in Nat /\ Len(stack) >= 1
BY RestIs DEF JitInv, At

(* A read that finds itself under way will serve. *)
LEMMA EnterNested ==
  ASSUME JitInv, Calm, NEW c \in Copies, NEW s \in SlotSet, ReadEnter(c, s), s \in copy[c].reading
  PROVE  JitInv'
<1>1. stack # << >> /\ Top.f = "read" /\ Top.pc = "enter" /\ Top.c = c /\ Top.s = s /\ Top \in Frames
      /\ Len(stack) \in Nat
  BY IsAt DEF ReadEnter
<1> DEFINE w == [Top EXCEPT !.pc = "serve", !.nested = TRUE]
<1>2. w \in Frames /\ w.f = "read" /\ w.c = c /\ w.s = s /\ w.pc = "serve" /\ w.nested
  <2>1. Top \in ReadFrames
    BY <1>1, FrameKinds
  <2> HIDE DEF Top
  <2> QED BY <1>1, <2>1 DEF ReadFrames, Frames
<1>3. stack' = Append(Rest, w) /\ own' = own /\ copy' = copy /\ ret' = [ret EXCEPT !.threw = FALSE]
  BY DEF ReadEnter, Serving
<1> PICK y \in Frames : y = w
  BY <1>2
<1> HIDE DEF w
<1>4. /\ Goes(y) /\ Len(stack') = Len(stack) /\ stack'[Len(stack)] = y /\ stack' # << >>
  BY <1>1, <1>3, TurnIs, Parts DEF Goes
<1>5. Follows /\ (\A t \in SlotSet : Live(t)' = Live(t)) /\ ret' \in [threw : BOOLEAN, v : Values]
  BY <1>3, FollowsKept, Parts
<1>6. (\A d \in Copies : copy'[d].reading # {} => ~copy'[d].pending) /\ ~copy[c].pending
  BY <1>3, Parts DEF Deep
<1>7. Sound(y)'
  BY <1>2, <1>3, <1>6 DEF Sound
<1>8. OnTop'
  <2>1. c \in Live(s) /\ (frozen \/ own[s] = Acc(c))
    BY <1>1, Parts DEF OnTop, ReadTop
  <2> QED BY <1>2, <1>3, <1>4, <1>5, <2>1, ReadTopAfter DEF Calm
<1>9. ~(op.kind = "aot" /\ Len(stack) = 1)
  BY <1>1, Underway
<1> QED BY <1>1, <1>2, <1>3, <1>4, <1>5, <1>6, <1>7, <1>8, <1>9, GoStep DEF IsReading, SameCall

(* Any other read spends the compilation, and runs it if it was pending. *)
LEMMA EnterFirst ==
  ASSUME JitInv, Calm, NEW c \in Copies, NEW s \in SlotSet, ReadEnter(c, s), s \notin copy[c].reading
  PROVE  JitInv'
<1>1. stack # << >> /\ Top.f = "read" /\ Top.pc = "enter" /\ Top.c = c /\ Top.s = s /\ Top \in Frames
      /\ Len(stack) \in Nat
  BY IsAt DEF ReadEnter
<1>2. /\ copy' = [copy EXCEPT ![c].reading = @ \cup {s}, ![c].pending = FALSE]
      /\ ret' = [ret EXCEPT !.threw = FALSE]
      /\ own' = IF copy[c].pending THEN Restored(copy[c].snap, own) ELSE own
  BY DEF ReadEnter, Trigger
<1>3. /\ \A x \in Copies : /\ copy'[x].snap = copy[x].snap /\ copy'[x].seen = copy[x].seen
                           /\ copy'[x].stranded = copy[x].stranded
                           /\ copy'[x].pending = (copy[x].pending /\ x # c)
                           /\ copy'[x].reading = IF x = c THEN copy[x].reading \cup {s} ELSE copy[x].reading
                           /\ x # c => copy'[x] = copy[x]
      /\ copy' \in [Copies -> [seen : BOOLEAN, pending : BOOLEAN, snap : [SlotSet -> Descriptors],
                               reading : SUBSET SlotSet, stranded : [SlotSet -> Values \cup {"none"}]]]
  <2> DEFINE K == [seen : BOOLEAN, pending : BOOLEAN, snap : [SlotSet -> Descriptors],
                   reading : SUBSET SlotSet, stranded : [SlotSet -> Values \cup {"none"}]]
             r == [copy[c] EXCEPT !.reading = @ \cup {s}, !.pending = FALSE]
  <2>1. copy' = [copy EXCEPT ![c] = r]
    BY <1>2
  <2>2. copy \in [Copies -> K]
    BY Parts
  <2>3. /\ r \in K /\ r.snap = copy[c].snap /\ r.seen = copy[c].seen /\ r.stranded = copy[c].stranded
        /\ r.pending = FALSE /\ r.reading = copy[c].reading \cup {s}
    BY <2>2
  <2> HIDE DEF r
  <2>4. copy' \in [Copies -> K] /\ copy'[c] = r /\ \A x \in Copies : x # c => copy'[x] = copy[x]
    <3> HIDE DEF K
    <3> QED BY <2>1, <2>2, <2>3
  <2>5. \A x \in Copies : copy[x].pending \in BOOLEAN
    BY <2>2
  <2> HIDE DEF K
  <2>6. ASSUME NEW x \in Copies
        PROVE  /\ copy'[x].snap = copy[x].snap /\ copy'[x].seen = copy[x].seen
               /\ copy'[x].stranded = copy[x].stranded
               /\ copy'[x].pending = (copy[x].pending /\ x # c)
               /\ copy'[x].reading = IF x = c THEN copy[x].reading \cup {s} ELSE copy[x].reading
    <3>1. CASE x = c
      BY <3>1, <2>3, <2>4
    <3>2. CASE x # c
      BY <3>2, <2>4, <2>5
    <3> QED BY <3>1, <3>2
  <2> QED BY <2>4, <2>6 DEF K
<1>4. c \in Live(s) /\ (frozen \/ own[s] = Acc(c))
  BY <1>1, Parts DEF OnTop, ReadTop
<1>5. Follows
  BY <1>2, <1>3, <1>4, FollowsSpend
<1>6. ~Top.nested
  BY <1>1, Parts DEF OnTop, ReadTop
<1> DEFINE w == [Top EXCEPT !.pc = "look"]
<1>7. w \in Frames /\ w.f = "read" /\ w.c = c /\ w.s = s /\ ~w.nested /\ w.pc = "look"
  <2>1. Top \in ReadFrames
    BY <1>1, FrameKinds
  <2> HIDE DEF Top
  <2> QED BY <1>1, <1>6, <2>1 DEF ReadFrames, Frames
<1>8. \/ stack' = Append(Rest, w)
      \/ copy[c].pending /\ stack' = Append(Rest, w) \o <<MkvFrame(c)>>
  <2>1. Trigger(c)
    BY DEF ReadEnter
  <2>2. Append(Rest, w) \o << >> = Append(Rest, w)
    <3>1. Append(Rest, w) \in Seq(Frames)
      BY <1>1, <1>7, TurnIs, Parts DEF Below
    <3> QED BY <3>1
  <2>3. CASE ~copy[c].pending
    BY <2>1, <2>3 DEF Trigger, Goto
  <2>4. CASE copy[c].pending
    BY <2>1, <2>2, <2>4 DEF Trigger, Goto
  <2> QED BY <2>3, <2>4
<1> PICK y \in Frames : y = w
  BY <1>7
<1> HIDE DEF w
<1>9. /\ \A d \in Copies : copy'[d].reading # {} => ~copy'[d].pending
      /\ \A d \in Copies, t \in SlotSet : t \in copy'[d].reading =>
            (t \in copy[d].reading /\ ~IsReading(Top, d, t)) \/ IsReading(y, d, t)
  <2>1. \A d \in Copies : copy'[d].reading # {} => ~copy'[d].pending
    BY <1>3, Parts DEF Deep
  <2>2. \A d \in Copies, t \in SlotSet : ~IsReading(Top, d, t)
    BY <1>1 DEF IsReading
  <2>3. ASSUME NEW d \in Copies, NEW t \in SlotSet, t \in copy'[d].reading
        PROVE  t \in copy[d].reading \/ IsReading(y, d, t)
    BY <1>3, <1>7, <2>3 DEF IsReading
  <2> QED BY <2>1, <2>2, <2>3
<1>10. /\ ret' \in [threw : BOOLEAN, v : Values] /\ ~ret'.threw
  BY <1>2, Parts
<1>11. SameCall(y) /\ Sound(y)'
  BY <1>1, <1>3, <1>7 DEF SameCall, Sound
<1>12. ~(op.kind = "aot" /\ Len(stack) = 1)
  BY <1>1, Underway
<1>13. CASE stack' = Append(Rest, y)
  <2>1. Goes(y) /\ Len(stack') = Len(stack) /\ stack'[Len(stack)] = y /\ stack' # << >>
    BY <1>1, <1>13, TurnIs, Parts DEF Goes
  <2>2. OnTop'
    BY <1>7, <2>1, ReadTopAfter
  <2> QED BY <1>1, <1>5, <1>9, <1>10, <1>11, <1>12, <2>1, <2>2, GoStep
<1>14. CASE copy[c].pending /\ stack' = Append(Rest, y) \o <<MkvFrame(c)>>
  <2> DEFINE u == MkvFrame(c)
  <2>1. u \in Frames /\ u.f = "mkv" /\ u.by = c /\ u.pc = 1
    BY FramesBegin
  <2> PICK z \in Frames : z = u
    BY <2>1
  <2> HIDE DEF u
  <2>2. Append(Rest, y) \o <<z>> = Append(Append(Rest, y), z)
    <3>1. Append(Rest, y) \in Seq(Frames)
      BY <1>1, TurnIs, Parts DEF Below
    <3> QED BY <3>1
  <2>3. GoesOn(y, z)
    BY <1>14, <2>2 DEF GoesOn, u
  <2>4. Len(stack') = Len(stack) + 1 /\ stack'[Len(stack) + 1] = z /\ stack' # << >>
    BY <1>1, <2>3, CallIs, Parts DEF GoesOn
  <2>5. stack'[Len(stack')] = z
    BY <2>4
  <2>6. OnTop'
    BY <1>10, <2>1, <2>4, <2>5, MkvTopAfter, MakersAre
  <2>7. Linked(y, z)
    BY <1>7, <2>1 DEF Linked
  <2>8. Sound(z)'
    <3>1. op.kind # "aot" => \A t \in SlotSet : c \in after[t]
      <4> SUFFICES ASSUME op.kind # "aot", NEW t \in SlotSet
                   PROVE  c \in after[t]
        OBVIOUS
      <4>1. Judged(t)
        BY <1>1, Underway
      <4>2. FaithfulAt(t) /\ c \in Pending
        BY <1>14, <4>1, Parts DEF Faithful, Pending
      <4> QED BY <4>2 DEF FaithfulAt
    <3> QED BY <2>1, <3>1 DEF Sound, Calm, ghosts
  <2> QED BY <1>1, <1>5, <1>7, <1>9, <1>10, <1>11, <1>12, <2>1, <2>3, <2>6, <2>7, <2>8, GoOnStep
<1> QED BY <1>8, <1>13, <1>14

(* The calls that an accessor makes on its own behalf. *)
LEMMA ReadGoes ==
  ASSUME JitInv, Calm, Follows, stack # << >>, Top.f = "read", Top.pc # "enter",
         NEW y \in Frames, y.f = "read", y.c = Top.c, y.s = Top.s, y.nested = Top.nested,
         y.pc # "enter", Goes(y), ret' \in [threw : BOOLEAN, v : Values],
         \A d \in Copies : copy'[d].reading = copy[d].reading /\ copy'[d].pending = copy[d].pending,
         NEW s \in SlotSet, s = Top.s,
         y.pc = "serve" => Top.c \in Live(s) /\ own' = own /\ (frozen \/ own[s] = Acc(Top.c)),
         y.pc \in {"strand", "give"} => Answer(s)'
  PROVE  JitInv'
<1>1. Top \in Frames /\ Len(stack) \in Nat /\ Len(stack) >= 1
  BY RestIs, Parts
<1> PICK c \in Copies : c = Top.c
  BY <1>1, FrameKinds
<1>2. Len(stack') = Len(stack) /\ stack'[Len(stack)] = y /\ stack' # << >>
  BY <1>1, TurnIs, Parts DEF Goes
<1>3. y.pc = "serve" => c \in Live(s)' /\ (frozen' \/ own'[s] = Acc(c))
  <2>1. y.pc = "serve" => /\ c \in Live(s) /\ (frozen \/ own[s] = Acc(c))
                          /\ own' = own /\ \A t \in SlotSet : Live(t)' = Live(t)
    <3> SUFFICES ASSUME y.pc = "serve"
                 PROVE  own' = own /\ c \in Live(s) /\ (frozen \/ own[s] = Acc(c))
                        /\ \A t \in SlotSet : Live(t)' = Live(t)
      OBVIOUS
    <3>1. own' = own /\ c \in Live(s) /\ (frozen \/ own[s] = Acc(c))
      OBVIOUS
    <3>2. \A d \in Copies, t \in SlotSet : copy'[d].snap[t] = copy[d].snap[t]
      BY DEF Follows
    <3>3. ASSUME NEW t \in SlotSet PROVE Live(t)' = Live(t)
      BY <3>1, <3>2, LiveKept, Parts
    <3> QED BY <3>1, <3>3
  <2> QED BY <2>1 DEF Calm
<1>4. OnTop'
  BY <1>2, <1>3, ReadTopAfter
<1>5. ~copy[c].pending
  <2>1. Sound(Top)
    BY <1>1, RestIs, Parts DEF Deep
  <2> QED BY <2>1 DEF Sound
<1>6. Sound(y)' /\ SameCall(y)
  BY <1>5 DEF Sound, SameCall
<1>7. /\ \A d \in Copies : copy'[d].reading # {} => ~copy'[d].pending
      /\ \A d \in Copies, t \in SlotSet : t \in copy'[d].reading =>
            (t \in copy[d].reading /\ ~IsReading(Top, d, t)) \/ IsReading(y, d, t)
  BY Parts DEF Deep, IsReading
<1>8. ~(op.kind = "aot" /\ Len(stack) = 1)
  BY Underway
<1> QED BY <1>1, <1>4, <1>6, <1>7, <1>8, GoStep

(* An accessor reads another. *)
LEMMA ReadCalls ==
  ASSUME JitInv, Calm, Follows, stack # << >>, Top.f = "read", Top.pc # "enter",
         NEW y \in Frames, y.f = "read", y.c = Top.c, y.s = Top.s, y.nested = Top.nested,
         y.pc \in {"strand", "give"}, NEW s \in SlotSet, s = Top.s, NEW v \in Copies,
         stack' = Append(Append(Rest, y), ReadFrame(v, s)), ret' \in [threw : BOOLEAN, v : Values],
         \A d \in Copies : copy'[d].reading = copy[d].reading /\ copy'[d].pending = copy[d].pending,
         v \in Live(s)' /\ (frozen \/ own'[s] = Acc(v))
  PROVE  JitInv'
<1>1. Top \in Frames /\ Len(stack) \in Nat /\ Len(stack) >= 1
  BY RestIs, Parts
<1> PICK c \in Copies : c = Top.c
  BY <1>1, FrameKinds
<1> DEFINE w == ReadFrame(v, s)
<1>2. w \in Frames /\ w.f = "read" /\ w.c = v /\ w.s = s /\ w.pc = "enter" /\ ~w.nested
  BY FramesBegin
<1> PICK z \in Frames : z = w
  BY <1>2
<1> HIDE DEF w
<1>3. GoesOn(y, z)
  BY DEF GoesOn, w
<1>4. Len(stack') = Len(stack) + 1 /\ stack'[Len(stack) + 1] = z /\ stack' # << >>
  BY <1>1, <1>3, CallIs, Parts DEF GoesOn
<1>5. OnTop'
  <2>1. stack'[Len(stack')] = z
    BY <1>4
  <2>2. v \in Live(s)' /\ (frozen' \/ own'[s] = Acc(v))
    BY DEF Calm
  <2> QED BY <1>2, <1>4, <2>1, <2>2, ReadTopAfter
<1>6. ~copy[c].pending
  <2>1. Sound(Top)
    BY <1>1, RestIs, Parts DEF Deep
  <2> QED BY <2>1 DEF Sound
<1>7. Sound(y)' /\ SameCall(y) /\ Sound(z)' /\ Linked(y, z)
  BY <1>2, <1>6 DEF Sound, SameCall, Linked
<1>8. /\ \A d \in Copies : copy'[d].reading # {} => ~copy'[d].pending
      /\ \A d \in Copies, t \in SlotSet : t \in copy'[d].reading =>
            (t \in copy[d].reading /\ ~IsReading(Top, d, t)) \/ IsReading(y, d, t)
  BY Parts DEF Deep, IsReading
<1>9. ~(op.kind = "aot" /\ Len(stack) = 1)
  BY Underway
<1> QED BY <1>1, <1>3, <1>5, <1>7, <1>8, <1>9, GoOnStep

(* What an accessor on top of the stack knows. *)
LEMMA ReadAt ==
  ASSUME JitInv, NEW c \in Copies, NEW s \in SlotSet, NEW pc, At("read", pc), pc # "enter",
         Top.c = c, Top.s = s
  PROVE  /\ stack # << >> /\ Top.f = "read" /\ Top.pc = pc /\ Top \in ReadFrames
         /\ Len(stack) \in Nat /\ Len(stack) >= 1
         /\ ~copy[c].pending /\ (Judged(s) \/ op.kind = "aot")
<1>1. stack # << >> /\ Top.f = "read" /\ Top.pc = pc /\ Top \in Frames
      /\ Len(stack) \in Nat /\ Len(stack) >= 1
  BY IsAt
<1>2. Sound(Top)
  BY <1>1, RestIs, Parts DEF Deep
<1>3. Judged(s) \/ op.kind = "aot"
  BY <1>1, Underway
<1> QED BY <1>1, <1>2, <1>3, FrameKinds DEF Sound

(* A read goes on. *)
LEMMA TurnRead ==
  ASSUME JitInv, stack # << >>, Top \in ReadFrames,
         NEW pc \in {"enter", "look", "serve", "strand", "give"}
  PROVE  \E y \in Frames : /\ y.f = "read" /\ y.c = Top.c /\ y.s = Top.s /\ y.nested = Top.nested
                           /\ y.pc = pc /\ Goto(pc) = Append(Rest, y)
<1> DEFINE w == [Top EXCEPT !.pc = pc]
<1>1. w \in Frames /\ w.f = "read" /\ w.c = Top.c /\ w.s = Top.s /\ w.nested = Top.nested /\ w.pc = pc
  <2> HIDE DEF Top
  <2> QED BY DEF ReadFrames, Frames
<1>2. Goto(pc) = Append(Rest, w)
  BY DEF Goto
<1> QED BY <1>1, <1>2

(* After the compilation, the slot is read again. *)
LEMMA LookStep ==
  ASSUME JitInv, Calm, NEW c \in Copies, NEW s \in SlotSet, ReadLook(c, s)
  PROVE  JitInv'
<1> DEFINE look == "look"
<1>1. /\ stack # << >> /\ Top.f = "read" /\ Top.pc = look /\ Top \in ReadFrames
      /\ ~copy[c].pending /\ (Judged(s) \/ op.kind = "aot") /\ Top.c = c /\ Top.s = s
  <2>1. At("read", look) /\ Top.c = c /\ Top.s = s /\ look # "enter"
    BY DEF ReadLook
  <2> HIDE DEF look
  <2> QED BY <2>1, ReadAt
<1>2. copy' = copy
  BY DEF ReadLook
<1>3. CASE own[s] = Acc(c)
  <2> PICK y \in Frames : /\ y.f = "read" /\ y.c = c /\ y.s = s /\ y.nested = Top.nested
                          /\ y.pc = "serve" /\ Goto("serve") = Append(Rest, y)
    <3> DEFINE pc == "serve"
    <3>1. pc \in {"enter", "look", "serve", "strand", "give"}
      OBVIOUS
    <3> HIDE DEF pc
    <3>2. \E y \in Frames : /\ y.f = "read" /\ y.c = Top.c /\ y.s = Top.s /\ y.nested = Top.nested
                            /\ y.pc = pc /\ Goto(pc) = Append(Rest, y)
      BY <1>1, <3>1, TurnRead
    <3> QED BY <1>1, <3>2 DEF pc
  <2>1. Goes(y) /\ own' = own /\ ret' = ret
    BY <1>3 DEF ReadLook, Goes
  <2>2. Follows /\ \A t \in SlotSet : Live(t)' = Live(t)
    BY <1>2, <2>1, FollowsKept
  <2>3. c \in Live(s)
    BY <1>3, LiveOf, Parts
  <2> QED BY <1>1, <1>2, <1>3, <2>1, <2>2, <2>3, ReadGoes, Parts
<1>4. CASE own[s] # Acc(c)
  <2> PICK y \in Frames : /\ y.f = "read" /\ y.c = c /\ y.s = s /\ y.nested = Top.nested
                          /\ y.pc = "give" /\ Goto("give") = Append(Rest, y)
    <3> DEFINE pc == "give"
    <3>1. pc \in {"enter", "look", "serve", "strand", "give"}
      OBVIOUS
    <3> HIDE DEF pc
    <3>2. \E y \in Frames : /\ y.f = "read" /\ y.c = Top.c /\ y.s = Top.s /\ y.nested = Top.nested
                            /\ y.pc = pc /\ Goto(pc) = Append(Rest, y)
      BY <1>1, <3>1, TurnRead
    <3> QED BY <1>1, <3>2 DEF pc
  <2> DEFINE rest == Append(Rest, y)
  <2>1. Get(s, rest)
    BY <1>4 DEF ReadLook
  <2>2. /\ Follows /\ ret' \in [threw : BOOLEAN, v : Values]
        /\ \/ /\ own[s] = Acc(own[s].v) /\ own[s].v \in Copies
              /\ own' = own /\ (\A t \in SlotSet : Live(t)' = Live(t))
              /\ stack' = Append(rest, ReadFrame(own[s].v, s))
           \/ stack' = rest /\ Answer(s)'
    <3> HIDE DEF rest
    <3> QED BY <1>1, <1>2, <2>1, AfterGet
  <2>3. CASE stack' = rest /\ Answer(s)'
    <3>1. Goes(y)
      BY <2>3 DEF Goes
    <3> QED BY <1>1, <1>2, <2>2, <2>3, <3>1, ReadGoes
  <2>4. CASE /\ own[s] = Acc(own[s].v) /\ own[s].v \in Copies
             /\ own' = own /\ (\A t \in SlotSet : Live(t)' = Live(t))
             /\ stack' = Append(rest, ReadFrame(own[s].v, s))
    <3> PICK v \in Copies : v = own[s].v
      BY <2>4
    <3>1. own[s] = Acc(v) /\ own' = own /\ Live(s)' = Live(s) /\ v \in Live(s)
      BY <2>4, LiveOf, Parts
    <3>2. stack' = Append(Append(Rest, y), ReadFrame(v, s))
      BY <2>4
    <3> QED BY <1>1, <1>2, <2>2, <3>1, <3>2, ReadCalls
  <2> QED BY <2>2, <2>3, <2>4
<1> QED BY <1>3, <1>4

-----------------------------------------------------------------------------
(* An accessor serves what Zod had *)

(* An accessor that serves is spent: it is the only one, or the target is frozen. *)
LEMMA NothingBehindIt ==
  ASSUME JitInv, NEW c \in Copies, NEW s \in SlotSet, c \in Live(s), frozen \/ own[s] = Acc(c),
         ~copy[c].pending, op.kind # "aot" => Judged(s), op.kind = "aot" => ~frozen /\ refused = {}
  PROVE  /\ Quiet /\ own[s].k = "acc" /\ op.kind # "aot" /\ FaithfulAt(s) /\ Once(s)
         /\ ~frozen => copy[c].snap[s].k # "acc" /\ \A d \in Live(s) : d = c
<1>1. own[s].k = "acc" /\ own[s] \in Descriptors
  BY LiveOf, TypedSlots, Parts
<1>2. ASSUME ~frozen
      PROVE  /\ Pending = {} /\ refused # {} /\ copy[c].snap[s].k # "acc"
             /\ \A d \in Live(s) : d = c
  <2>1. own[s] = Acc(c)
    BY <1>2
  <2>2. copy[c].snap[s].k # "acc" /\ refused # {}
    BY <1>2, <2>1, Parts DEF Fronts, Spent
  <2>3. Live(s) \subseteq {c} \cup Chain(copy, copy[c].snap[s], s)
    BY <2>1, LiveOf, Parts
  <2>4. Chain(copy, copy[c].snap[s], s) = {}
    BY <2>2, ChainEmpty
  <2>5. Pending \subseteq Live(s) /\ c \notin Pending
    BY Parts DEF Fronts, Fronting, Pending
  <2>6. \A d \in Live(s) : d = c
    BY <2>3, <2>4
  <2> QED BY <2>2, <2>5, <2>6
<1>3. op.kind # "aot"
  BY <1>2
<1>4. FaithfulAt(s) /\ Once(s)
  BY <1>3, Parts DEF Faithful
<1> QED BY <1>1, <1>2, <1>3, <1>4 DEF Quiet

(* What a spent accessor comes to. *)
LEMMA AfterFromZod ==
  ASSUME JitInv, Calm, copy' = copy, NEW c \in Copies, NEW s \in SlotSet, c \in Live(s),
         Quiet, own[s].k = "acc", op.kind # "aot", FaithfulAt(s), Judged(s),
         ~frozen => copy[c].snap[s].k # "acc" /\ \A d \in Live(s) : d = c,
         FromZod(copy[c].snap[s], s)
  PROVE  /\ Follows /\ ret' \in [threw : BOOLEAN, v : Values]
         /\ \/ stack' = Goto("strand") /\ Answer(s)'
            \/ /\ frozen /\ own' = own /\ ret' = ret /\ copy[c].snap[s].v \in Copies
               /\ copy[c].snap[s].v \in Live(s) /\ (\A t \in SlotSet : Live(t)' = Live(t))
               /\ stack' = Append(Goto("strand"), ReadFrame(copy[c].snap[s].v, s))
<1> DEFINE d == copy[c].snap[s]
           rest == Goto("strand")
<1>0. d \in Descriptors /\ Matches(d, s) /\ Typed
  BY TypedSlots, Parts DEF FaithfulAt
<1>1. CASE d.k = "absent" /\ s \in Methods /\ ~Accepts("data", s, own)
  <2>1. ret' = [threw |-> FALSE, v |-> "zod"] /\ stack' = rest /\ own' = own
    BY <1>1 DEF FromZod, Return
  <2>2. d = Absent
    BY <1>0, <1>1, DescriptorKinds
  <2>3. Fits("zod", s)
    BY <1>0, <1>1, <2>2, AbsentFits
  <2>4. ~Bindable(s)
    BY <1>0, <1>1, Accepting DEF Bindable
  <2>5. Follows
    BY <2>1, FollowsKept
  <2>6. Answer(s)'
    BY <2>1, <2>3, <2>4, <2>5, AnswerAfter DEF Follows
  <2> QED BY <2>1, <2>5, <2>6, MakersAre
<1>2. CASE ~(d.k = "absent" /\ s \in Methods /\ ~Accepts("data", s, own))
  <2>0. FromZod_Direct(d, s)
    BY <1>2 DEF FromZod
  <2>1. CASE d.k \in {"data", "lazy"}
    <3>1. ret' = [threw |-> FALSE, v |-> d.v] /\ stack' = rest /\ own' = own
      <4>1. Return(d.v, Goto("strand")) /\ UNCHANGED own
        BY <2>0, <2>1 DEF FromZod_Direct
      <4> QED BY <4>1 DEF Return
    <3>2. Fits(d.v, s) /\ d # Absent
      BY <1>0, <2>1, DescriptorFields DEF Matches
    <3>3. Follows /\ Live(s)' = Live(s)
      BY <3>1, FollowsKept
    <3>4. own'[s] # Absent /\ (Bindable(s) => \A x \in Live(s) : copy'[x].snap[s] # Absent)
      <4>1. own[s] # Absent
        BY DescriptorFields
      <4>2. ASSUME Bindable(s), NEW x \in Live(s)
            PROVE  copy[x].snap[s] # Absent
        BY <3>2, <4>2 DEF Bindable
      <4> QED BY <3>1, <4>1, <4>2
    <3>5. Answer(s)'
      BY <3>1, <3>2, <3>3, <3>4, AnswerAfter DEF Follows
    <3> QED BY <1>0, <3>1, <3>3, <3>5, DescriptorKinds
  <2>2. CASE d.k = "acc"
    <3>1. frozen /\ d.v \in Copies /\ d.v \in Live(s)
      BY <1>0, <2>2, LiveOf, DescriptorKinds
    <3>2. stack' = Append(rest, ReadFrame(d.v, s)) /\ own' = own /\ ret' = ret
      BY <2>0, <2>2 DEF FromZod_Direct
    <3>3. Follows /\ \A t \in SlotSet : Live(t)' = Live(t)
      BY <3>2, FollowsKept
    <3> QED BY <3>1, <3>2, <3>3, Parts
  <2>3. CASE d.k = "absent"
    <3>1. ProtoGet(s, rest)
      BY <2>0, <2>3 DEF FromZod_Direct
    <3>2. d = Absent
      BY <1>0, <2>3, DescriptorKinds
    <3>3. Fits(IF s \in Methods THEN "zod" ELSE "undefined", s)
      BY <1>0, <3>2, AbsentFits
    <3>4. s \in Methods /\ ~Accepts("data", s, own) => own[s] = Absent
      BY <1>2, <2>3
    <3> HIDE DEF d, rest
    <3>5. Follows /\ stack' = rest /\ Answer(s)' /\ ret' \in [threw : BOOLEAN, v : Values]
      BY <3>1, <3>3, <3>4, AfterProtoGet
    <3> QED BY <3>5 DEF rest
  <2> QED BY <1>0, <2>1, <2>2, <2>3, DescriptorKinds
<1> QED BY <1>1, <1>2

(* The handover did not take, and the accessor serves. *)
LEMMA ServeStep ==
  ASSUME JitInv, Calm, NEW c \in Copies, NEW s \in SlotSet, ReadServe(c, s)
  PROVE  JitInv'
<1> DEFINE serve == "serve"
<1>1. /\ stack # << >> /\ Top.f = "read" /\ Top.pc = serve /\ Top \in ReadFrames
      /\ ~copy[c].pending /\ (Judged(s) \/ op.kind = "aot") /\ Top.c = c /\ Top.s = s
  <2>1. At("read", serve) /\ Top.c = c /\ Top.s = s /\ serve # "enter"
    BY DEF ReadServe
  <2> HIDE DEF serve
  <2> QED BY <2>1, ReadAt
<1>2. copy' = copy
  BY DEF ReadServe
<1>3. c \in Live(s) /\ (frozen \/ own[s] = Acc(c))
  BY <1>1, Parts DEF OnTop, ReadTop
<1>4. /\ Quiet /\ own[s].k = "acc" /\ op.kind # "aot" /\ FaithfulAt(s) /\ Once(s) /\ Judged(s)
      /\ ~frozen => copy[c].snap[s].k # "acc" /\ \A d \in Live(s) : d = c
  <2>1. op.kind = "aot" => ~frozen /\ refused = {}
    BY <1>1, Parts DEF Operations, Builds
  <2> QED BY <1>1, <1>3, <2>1, NothingBehindIt
<1>5. CASE copy[c].stranded[s] # "none"
  <2> DEFINE v == copy[c].stranded[s]
  <2> PICK y \in Frames : /\ y.f = "read" /\ y.c = c /\ y.s = s /\ y.nested = Top.nested
                          /\ y.pc = "give" /\ Goto("give") = Append(Rest, y)
    <3> DEFINE pc == "give"
    <3>1. pc \in {"enter", "look", "serve", "strand", "give"}
      OBVIOUS
    <3> HIDE DEF pc
    <3>2. \E y \in Frames : /\ y.f = "read" /\ y.c = Top.c /\ y.s = Top.s /\ y.nested = Top.nested
                            /\ y.pc = pc /\ Goto(pc) = Append(Rest, y)
      BY <1>1, <3>1, TurnRead
    <3> QED BY <1>1, <3>2 DEF pc
  <2>1. Goes(y) /\ own' = own /\ ret' = [threw |-> FALSE, v |-> v]
    BY <1>5 DEF ReadServe, Goes, Return
  <2>2. v \in Values /\ Fits(v, s)
    BY <1>3, <1>4, <1>5, TypedSlots, Parts DEF FaithfulAt
  <2>3. Follows /\ Live(s)' = Live(s)
    BY <1>2, <2>1, FollowsKept
  <2>4. Bindable(s) /\ s \in Methods => own'[s] # Absent /\ \A d \in Live(s) : copy'[d].snap[s] # Absent
    <3>1. own[s] # Absent
      BY <1>4, DescriptorFields
    <3>2. ASSUME Bindable(s), s \in Methods, NEW d \in Live(s)
          PROVE  copy[d].snap[s] # Absent
      BY <1>4, <1>5, <3>2 DEF Bindable, Once
    <3> QED BY <1>2, <2>1, <3>1, <3>2
  <2>5. Answer(s)'
    BY <1>4, <2>1, <2>2, <2>3, <2>4, AnswerAfter DEF Follows
  <2> HIDE DEF v
  <2> QED BY <1>1, <1>2, <2>1, <2>2, <2>3, <2>5, ReadGoes
<1>6. CASE copy[c].stranded[s] = "none"
  <2>1. FromZod(copy[c].snap[s], s)
    BY <1>6 DEF ReadServe
  <2>2. /\ Follows /\ ret' \in [threw : BOOLEAN, v : Values]
        /\ \/ stack' = Goto("strand") /\ Answer(s)'
           \/ /\ frozen /\ own' = own /\ ret' = ret /\ copy[c].snap[s].v \in Copies
              /\ copy[c].snap[s].v \in Live(s) /\ (\A t \in SlotSet : Live(t)' = Live(t))
              /\ stack' = Append(Goto("strand"), ReadFrame(copy[c].snap[s].v, s))
    BY <1>2, <1>3, <1>4, <2>1, AfterFromZod
  <2> PICK y \in Frames : /\ y.f = "read" /\ y.c = c /\ y.s = s /\ y.nested = Top.nested
                          /\ y.pc = "strand" /\ Goto("strand") = Append(Rest, y)
    <3> DEFINE pc == "strand"
    <3>1. pc \in {"enter", "look", "serve", "strand", "give"}
      OBVIOUS
    <3> HIDE DEF pc
    <3>2. \E y \in Frames : /\ y.f = "read" /\ y.c = Top.c /\ y.s = Top.s /\ y.nested = Top.nested
                            /\ y.pc = pc /\ Goto(pc) = Append(Rest, y)
      BY <1>1, <3>1, TurnRead
    <3> QED BY <1>1, <3>2 DEF pc
  <2>3. CASE stack' = Goto("strand") /\ Answer(s)'
    <3>1. Goes(y)
      BY <2>3 DEF Goes
    <3> QED BY <1>1, <1>2, <2>2, <2>3, <3>1, ReadGoes
  <2>4. CASE /\ frozen /\ own' = own /\ ret' = ret /\ copy[c].snap[s].v \in Copies
             /\ copy[c].snap[s].v \in Live(s) /\ (\A t \in SlotSet : Live(t)' = Live(t))
             /\ stack' = Append(Goto("strand"), ReadFrame(copy[c].snap[s].v, s))
    <3> PICK v \in Copies : v = copy[c].snap[s].v
      BY <2>4
    <3>1. v \in Live(s)' /\ frozen /\ stack' = Append(Append(Rest, y), ReadFrame(v, s))
      BY <2>4
    <3> QED BY <1>1, <1>2, <2>2, <3>1, ReadCalls
  <2> QED BY <2>2, <2>3, <2>4
<1> QED BY <1>5, <1>6

-----------------------------------------------------------------------------
(* An accessor returns *)

(* Copies change what they keep about calls, not what they hold of the slots. *)
LEMMA FollowsServed ==
  ASSUME JitInv, Calm, own' = own,
         copy' \in [Copies -> [seen : BOOLEAN, pending : BOOLEAN, snap : [SlotSet -> Descriptors],
                               reading : SUBSET SlotSet, stranded : [SlotSet -> Values \cup {"none"}]]],
         \A x \in Copies : /\ copy'[x].snap = copy[x].snap /\ copy'[x].seen = copy[x].seen
                           /\ copy'[x].pending = copy[x].pending,
         \A x \in Copies, s \in SlotSet :
            \/ copy'[x].stranded[s] = copy[x].stranded[s]
            \/ x \in Live(s) => /\ Judged(s) => Fits(copy'[x].stranded[s], s)
                                /\ copy[x].snap[s] = Absent /\ s \in Methods => ~Bindable(s)
  PROVE  Follows /\ \A s \in SlotSet : Live(s)' = Live(s)
<1>1. Fronts' /\ (\A s \in SlotSet : Live(s)' = Live(s)) /\ Pending' \subseteq Pending /\ (Quiet => Quiet')
  BY FrontsKept, Parts DEF Calm
<1>2. DataTyped'
  <2>1. \A x \in Copies, s \in SlotSet : Plainly(copy'[x].snap[s], s)
    BY Parts DEF Typed
  <2>2. own' \in [SlotSet -> Descriptors] /\ \A s \in SlotSet : Plainly(own'[s], s)
    BY Parts DEF Typed
  <2> QED BY <2>1, <2>2 DEF DataTyped, Plainly
<1>3. ASSUME NEW s \in SlotSet, Judged(s)' => Judged(s)
      PROVE  Once(s)' /\ (Judged(s)' => FaithfulAt(s)')
  <2>1. Once(s) /\ (Judged(s) => FaithfulAt(s)) /\ Live(s) \subseteq Copies
    BY TypedSlots, Parts DEF Faithful
  <2>2. \A c \in Live(s) :
            /\ copy'[c].snap[s] = copy[c].snap[s]
            /\ \/ copy'[c].stranded[s] = copy[c].stranded[s]
               \/ /\ Judged(s) => Fits(copy'[c].stranded[s], s)
                  /\ copy[c].snap[s] = Absent /\ s \in Methods => ~Bindable(s)
    BY <2>1
  <2>3. own'[s] = own[s]
    OBVIOUS
  <2> QED BY <1>1, <1>3, <2>1, <2>2, <2>3, FaithfulKept, Parts
<1> QED BY <1>1, <1>2, <1>3 DEF Follows

(* What is answered stays answered. *)
LEMMA AnswerKept ==
  ASSUME Calm, Follows, NEW s \in SlotSet, own' = own, ret' = ret, Live(s)' = Live(s), Answer(s),
         Typed, \A x \in Copies : copy'[x].snap = copy[x].snap
  PROVE  Answer(s)'
<1>1. /\ Quiet
      /\ ret.threw => own[s] = Absent /\ s \in Methods /\ ~Bindable(s)
      /\ ~ret.threw /\ op.kind # "aot" => Fits(ret.v, s)
      /\ Bindable(s) /\ s \in Methods => own[s] # Absent /\ \A x \in Live(s) : copy[x].snap[s] # Absent
  BY DEF Answer, Bound
<1>2. Live(s) \subseteq Copies /\ Quiet'
  BY <1>1, TypedSlots DEF Follows
<1>3. Bindable(s) /\ s \in Methods => own[s] # Absent /\ \A x \in Live(s)' : copy'[x].snap[s] # Absent
  BY <1>1, <1>2
<1> QED BY <1>1, <1>2, <1>3, AnswerAfter

(* What was served is kept for the next read. *)
LEMMA StrandStep ==
  ASSUME JitInv, Calm, NEW c \in Copies, NEW s \in SlotSet, ReadStrand(c, s)
  PROVE  JitInv'
<1> DEFINE strand == "strand"
           K == [seen : BOOLEAN, pending : BOOLEAN, snap : [SlotSet -> Descriptors],
                 reading : SUBSET SlotSet, stranded : [SlotSet -> Values \cup {"none"}]]
<1>1. /\ stack # << >> /\ Top.f = "read" /\ Top.pc = strand /\ Top \in ReadFrames
      /\ ~copy[c].pending /\ (Judged(s) \/ op.kind = "aot") /\ Top.c = c /\ Top.s = s
  <2>1. At("read", strand) /\ Top.c = c /\ Top.s = s /\ strand # "enter"
    BY DEF ReadStrand
  <2> HIDE DEF strand
  <2> QED BY <2>1, ReadAt
<1>2. Answer(s)
  BY <1>1, Parts DEF OnTop, ReadTop
<1>3. own' = own /\ ret' = ret /\ stack' = Goto("give")
      /\ copy' = IF ret.threw THEN copy ELSE [copy EXCEPT ![c].stranded[s] = ret.v]
  BY DEF ReadStrand
<1>4. copy \in [Copies -> K] /\ ret.v \in Values
  BY Parts
<1>5. /\ copy' \in [Copies -> K]
      /\ \A x \in Copies : /\ copy'[x].snap = copy[x].snap /\ copy'[x].seen = copy[x].seen
                           /\ copy'[x].pending = copy[x].pending /\ copy'[x].reading = copy[x].reading
      /\ \A x \in Copies, t \in SlotSet :
           copy'[x].stranded[t] = copy[x].stranded[t] \/ (~ret.threw /\ x = c /\ t = s /\ copy'[x].stranded[t] = ret.v)
  <2>1. CASE ret.threw
    BY <1>3, <1>4, <2>1
  <2>2. CASE ~ret.threw
    <3> DEFINE g == [copy[c].stranded EXCEPT ![s] = ret.v]
               r == [copy[c] EXCEPT !.stranded = g]
    <3>1. copy' = [copy EXCEPT ![c] = r]
      BY <1>3, <2>2
    <3>2. g \in [SlotSet -> Values \cup {"none"}] /\ \A t \in SlotSet : g[t] = IF t = s THEN ret.v ELSE copy[c].stranded[t]
      BY <1>4
    <3>3. /\ r \in K /\ r.snap = copy[c].snap /\ r.seen = copy[c].seen /\ r.stranded = g
          /\ r.pending = copy[c].pending /\ r.reading = copy[c].reading
      <4> HIDE DEF g
      <4> QED BY <1>4, <3>2
    <3> HIDE DEF r, g
    <3>4. copy' \in [Copies -> K] /\ copy'[c] = r /\ \A x \in Copies : x # c => copy'[x] = copy[x]
      <4> HIDE DEF K
      <4> QED BY <3>1, <1>4, <3>3
    <3> HIDE DEF K
    <3>5. ASSUME NEW x \in Copies
          PROVE  /\ copy'[x].snap = copy[x].snap /\ copy'[x].seen = copy[x].seen
                 /\ copy'[x].pending = copy[x].pending /\ copy'[x].reading = copy[x].reading
                 /\ \A t \in SlotSet :
                      copy'[x].stranded[t] = copy[x].stranded[t] \/ (x = c /\ t = s /\ copy'[x].stranded[t] = ret.v)
      <4>1. CASE x = c
        BY <4>1, <3>2, <3>3, <3>4
      <4>2. CASE x # c
        BY <4>2, <3>4
      <4> QED BY <4>1, <4>2
    <3> QED BY <2>2, <3>4, <3>5
  <2> QED BY <2>1, <2>2
<1>6. Follows /\ \A t \in SlotSet : Live(t)' = Live(t)
  <2>1. ASSUME ~ret.threw
        PROVE  /\ Judged(s) => Fits(ret.v, s)
               /\ c \in Live(s) /\ copy[c].snap[s] = Absent /\ s \in Methods => ~Bindable(s)
    <3>1. Judged(s) => op.kind # "aot"
      BY <1>1 DEF Judged
    <3> QED BY <1>2, <2>1, <3>1 DEF Answer, Bound
  <2>2. \A x \in Copies, t \in SlotSet :
            \/ copy'[x].stranded[t] = copy[x].stranded[t]
            \/ x \in Live(t) => /\ Judged(t) => Fits(copy'[x].stranded[t], t)
                                /\ copy[x].snap[t] = Absent /\ t \in Methods => ~Bindable(t)
    <3> SUFFICES ASSUME NEW x \in Copies, NEW t \in SlotSet,
                        copy'[x].stranded[t] # copy[x].stranded[t], x \in Live(t)
                 PROVE  /\ Judged(t) => Fits(copy'[x].stranded[t], t)
                        /\ copy[x].snap[t] = Absent /\ t \in Methods => ~Bindable(t)
      OBVIOUS
    <3>1. ~ret.threw /\ x = c /\ t = s /\ copy'[x].stranded[t] = ret.v
      BY <1>5
    <3> QED BY <2>1, <3>1
  <2> QED BY <1>3, <1>5, <2>2, FollowsServed
<1>7. Answer(s)'
  BY <1>2, <1>3, <1>5, <1>6, AnswerKept, Parts
<1> PICK y \in Frames : /\ y.f = "read" /\ y.c = c /\ y.s = s /\ y.nested = Top.nested
                        /\ y.pc = "give" /\ Goto("give") = Append(Rest, y)
  <2> DEFINE pc == "give"
  <2>1. pc \in {"enter", "look", "serve", "strand", "give"}
    OBVIOUS
  <2> HIDE DEF pc
  <2>2. \E y \in Frames : /\ y.f = "read" /\ y.c = Top.c /\ y.s = Top.s /\ y.nested = Top.nested
                          /\ y.pc = pc /\ Goto(pc) = Append(Rest, y)
    BY <1>1, <2>1, TurnRead
  <2> QED BY <1>1, <2>2 DEF pc
<1>8. Goes(y) /\ ret' \in [threw : BOOLEAN, v : Values]
  BY <1>3, Parts DEF Goes
<1> QED BY <1>1, <1>5, <1>6, <1>7, <1>8, ReadGoes

(* The last call returns to the program. *)
LEMMA IdleStep ==
  ASSUME JitInv, Calm, Follows, stack # << >>, Len(stack) = 1, Returns,
         ret' \in [threw : BOOLEAN, v : Values],
         \A d \in Copies : copy'[d].reading # {} => ~copy'[d].pending,
         \A d \in Copies, t \in SlotSet : t \in copy'[d].reading =>
            t \in copy[d].reading /\ ~IsReading(Top, d, t),
         \A t \in SlotSet : Once(t)' /\ FaithfulAt(t)',
         SlotsArePlain', StrandedStillServe', (op.kind = "read" => Bound(op.s))'
  PROVE  JitInv'
<1>1. Below(stack') /\ Len(stack') = 0 /\ stack' = << >> /\ Len(stack) \in Nat
  BY RestIs, Parts DEF Returns
<1>2. Typed'
  BY <1>1 DEF JitInv, Typed, Follows, DataTyped, Below, Calm, ghosts, Plainly
<1>3. Reading'
  BY <1>1, ReadingStep, Parts
<1>4. Calls' /\ OnTop'
  BY <1>1 DEF Calls, OnTop
<1>5. Deep'
  <2>1. \A i \in Len(stack) .. Len(stack') : FALSE
    BY <1>1
  <2>2. \A i \in Len(stack) .. Len(stack') - 1 : FALSE
    BY <1>1
  <2>3. \A d \in Copies : copy'[d].pending => copy[d].pending
    BY DEF Follows, Pending
  <2> QED BY <1>1, <2>1, <2>2, <2>3, DeepStep, Parts DEF Follows
<1>6. Faithful'
  BY DEF Faithful
<1>7. Operations'
  <2>1. (op.kind = "read" => (plainThrew <=> plain[op.s] = Absent /\ op.s \in Methods))'
    BY Parts DEF Operations, Calm, ghosts, Absent, Methods
  <2>2. Writes' /\ Builds'
    BY <1>1 DEF Writes, Builds
  <2> QED BY <2>1, <2>2 DEF Operations, Rests
<1> QED BY <1>2, <1>3, <1>4, <1>5, <1>6, <1>7 DEF JitInv, Follows

(* What an answer means to the program. *)
LEMMA AnswerIsPlain ==
  ASSUME JitInv, NEW s \in SlotSet, op.kind = "read", op.s = s, Answer(s), FaithfulAt(s)
  PROVE  /\ ret.threw => plainThrew /\ own[s].k # "acc"
         /\ ~ret.threw => \/ ret.v \in after[s]
                          \/ ret.v = IF plainThrew THEN "zod" ELSE plain[s].v
         /\ s \in Methods => ret.v # "undefined" \/ ret.threw
<1>1. plainThrew <=> plain[s] = Absent /\ s \in Methods
  BY Parts DEF Operations
<1>2. ASSUME ret.threw
      PROVE  plainThrew /\ own[s].k # "acc"
  <2>1. own[s] = Absent /\ s \in Methods /\ ~Bindable(s)
    BY <1>2 DEF Answer
  <2>2. own[s].k = "absent"
    BY <2>1, DescriptorFields
  <2>3. plain[s] = Absent
    BY <2>1, <2>2 DEF FaithfulAt, Matches, Binding
  <2> QED BY <1>1, <2>1, <2>2, <2>3
<1>3. ASSUME ~ret.threw
      PROVE  ret.v \in after[s] \/ ret.v = IF plainThrew THEN "zod" ELSE plain[s].v
  BY <1>1, <1>3 DEF Answer, Fits, PlainValue
<1>4. ASSUME ~ret.threw, s \in Methods
      PROVE  ret.v # "undefined"
  <2>1. CASE ret.v \in after[s]
    <3>1. after[s] \subseteq Copies \cup {"user"}
      BY Parts DEF Typed
    <3> QED BY <2>1, <3>1, MakersAre
  <2>2. CASE plainThrew /\ ret.v = "zod"
    BY <2>2
  <2>3. CASE ~plainThrew /\ ret.v = plain[s].v
    <3>1. plain[s] \in Descriptors /\ plain[s] # Absent /\ plain[s].k # "acc"
      BY <1>1, <1>4, <2>3, TypedSlots, Parts DEF Typed
    <3>2. plain[s].k = "lazy" \/ plain[s].k = "data"
      BY <3>1, DescriptorKinds
    <3>3. plain[s].v \in Makers
      <4>1. CASE plain[s].k = "lazy"
        <5>1. plain[s] = Lazy
          BY <3>1, <4>1, DescriptorKinds
        <5> QED BY <5>1, DescriptorFields, MakersAre
      <4>2. CASE plain[s].k = "data"
        BY <3>1, <4>2, DescriptorKinds
      <4> QED BY <3>2, <4>1, <4>2
    <3> QED BY <2>3, <3>3, MakersAre
  <2> QED BY <1>3, <1>4, <2>1, <2>2, <2>3
<1> QED BY <1>2, <1>3, <1>4

(* A read gives its answer to whoever asked. *)
LEMMA GiveStep ==
  ASSUME JitInv, Calm, NEW c \in Copies, NEW s \in SlotSet, ReadGive(c, s)
  PROVE  JitInv'
<1> DEFINE give == "give"
           K == [seen : BOOLEAN, pending : BOOLEAN, snap : [SlotSet -> Descriptors],
                 reading : SUBSET SlotSet, stranded : [SlotSet -> Values \cup {"none"}]]
<1>1. /\ stack # << >> /\ Top.f = "read" /\ Top.pc = give /\ Top \in ReadFrames
      /\ Len(stack) \in Nat /\ Len(stack) >= 1
      /\ ~copy[c].pending /\ (Judged(s) \/ op.kind = "aot") /\ Top.c = c /\ Top.s = s
  <2>1. At("read", give) /\ Top.c = c /\ Top.s = s /\ give # "enter"
    BY DEF ReadGive
  <2> HIDE DEF give
  <2> QED BY <2>1, ReadAt
<1>2. Answer(s)
  BY <1>1, Parts DEF OnTop, ReadTop
<1>3. /\ own' = own /\ ret' = ret /\ Returns
      /\ copy' = IF Top.nested THEN copy ELSE [copy EXCEPT ![c].reading = @ \ {s}]
  BY DEF ReadGive, Returns
<1>4. /\ copy' \in [Copies -> K]
      /\ \A x \in Copies : /\ copy'[x].snap = copy[x].snap /\ copy'[x].seen = copy[x].seen
                           /\ copy'[x].pending = copy[x].pending /\ copy'[x].stranded = copy[x].stranded
                           /\ copy'[x].reading \subseteq copy[x].reading
                           /\ \A t \in copy'[x].reading : ~IsReading(Top, x, t)
  <2>0. copy \in [Copies -> K]
    BY Parts
  <2>1. CASE Top.nested
    BY <1>3, <2>0, <2>1 DEF IsReading
  <2>2. CASE ~Top.nested
    <3> DEFINE r == [copy[c] EXCEPT !.reading = @ \ {s}]
    <3>1. copy' = [copy EXCEPT ![c] = r]
      BY <1>3, <2>2
    <3>2. /\ r \in K /\ r.snap = copy[c].snap /\ r.seen = copy[c].seen /\ r.stranded = copy[c].stranded
          /\ r.pending = copy[c].pending /\ r.reading = copy[c].reading \ {s}
      BY <2>0
    <3> HIDE DEF r
    <3>3. copy' \in [Copies -> K] /\ copy'[c] = r /\ \A x \in Copies : x # c => copy'[x] = copy[x]
      <4> HIDE DEF K
      <4> QED BY <3>1, <2>0, <3>2
    <3> HIDE DEF K
    <3>4. ASSUME NEW x \in Copies
          PROVE  /\ copy'[x].snap = copy[x].snap /\ copy'[x].seen = copy[x].seen
                 /\ copy'[x].pending = copy[x].pending /\ copy'[x].stranded = copy[x].stranded
                 /\ copy'[x].reading \subseteq copy[x].reading
                 /\ \A t \in copy'[x].reading : ~IsReading(Top, x, t)
      <4>1. CASE x = c
        BY <4>1, <1>1, <3>2, <3>3 DEF IsReading
      <4>2. CASE x # c
        BY <4>2, <1>1, <3>3 DEF IsReading
      <4> QED BY <4>1, <4>2
    <3> QED BY <3>3, <3>4
  <2> QED BY <2>1, <2>2
<1>5. Follows /\ \A t \in SlotSet : Live(t)' = Live(t)
  BY <1>3, <1>4, FollowsServed
<1>6. Answer(s)'
  BY <1>2, <1>3, <1>4, <1>5, AnswerKept, Parts
<1>7. /\ \A d \in Copies : copy'[d].reading # {} => ~copy'[d].pending
      /\ \A d \in Copies, t \in SlotSet : t \in copy'[d].reading =>
            t \in copy[d].reading /\ ~IsReading(Top, d, t)
      /\ ret' \in [threw : BOOLEAN, v : Values]
  BY <1>3, <1>4, Parts DEF Deep
<1>8. CASE Len(stack) # 1
  <2> DEFINE n == Len(stack)
  <2> PICK b \in Frames : b = stack[n - 1]
    BY <1>1, <1>8, Caller
  <2>1. Linked(b, Top) /\ (b.f = "mkv" /\ b.by = "aot" => op.kind = "aot")
    BY <1>1, <1>8, Caller
  <2>2. Len(stack') = n - 1 /\ stack' # << >> /\ stack'[Len(stack')] = b
    <3>1. /\ stack' \in Seq(Frames) /\ Len(stack') = n - 1
          /\ \A i \in 1 .. n - 1 : stack'[i] = stack[i]
      BY <1>1, <1>3, RestIs, Parts DEF Below, Returns
    <3>2. n - 1 \in 1 .. n - 1
      <4>1. n \in Nat /\ n >= 1 /\ n # 1
        BY <1>1, <1>8
      <4> HIDE DEF n
      <4> QED BY <4>1
    <3> QED BY <3>1, <3>2
  <2>3. OnTop'
    <3>1. CASE b.f = "read"
      <4>1. b.s = s /\ b.pc \in {"strand", "give"} /\ b.c \in Copies
        BY <1>1, <2>1, <3>1, FrameKinds DEF Linked
      <4> QED BY <1>6, <2>2, <3>1, <4>1, ReadTopAfter
    <3>2. CASE b.f = "mkv"
      <4>1. Quiet'
        BY <1>6, AnswerAfter
      <4>2. b.by = "aot" => ~ret'.threw
        <5>1. ASSUME b.by = "aot" PROVE ~ret.threw
          <6>1. Bindable(s)
            BY <1>1, <2>1, <3>2, <5>1, Underway
          <6> QED BY <1>2, <6>1 DEF Answer
        <5> QED BY <1>3, <5>1
      <4> QED BY <2>2, <3>2, <4>1, <4>2, MkvTopAfter
    <3> QED BY <2>1, <3>1, <3>2 DEF Linked
  <2> QED BY <1>1, <1>3, <1>5, <1>7, <1>8, <2>3, ReturnStep
<1>9. CASE Len(stack) = 1
  <2>1. op.kind = "read" /\ op.s = s /\ Judged(s)
    BY <1>1, <1>9, Underway DEF Judged
  <2>2. stack' = << >>
    BY <1>1, <1>3, <1>9, RestIs, Parts DEF Returns
  <2>3. \A t \in SlotSet : Judged(t) /\ Judged(t)'
    BY <2>1, <2>2 DEF Judged
  <2>4. \A t \in SlotSet : Once(t)' /\ FaithfulAt(t)'
    BY <1>5, <2>3 DEF Follows
  <2>5. FaithfulAt(s)
    BY <2>3, Parts DEF Faithful
  <2>6. /\ ret.threw => plainThrew /\ own[s].k # "acc"
        /\ ~ret.threw => \/ ret.v \in after[s]
                         \/ ret.v = IF plainThrew THEN "zod" ELSE plain[s].v
        /\ s \in Methods => ret.v # "undefined" \/ ret.threw
    BY <1>2, <2>1, <2>5, AnswerIsPlain
  <2>7. SlotsArePlain'
    BY <1>3, <2>1, <2>6 DEF SlotsArePlain, ReadIsPlain, WriteIsPlain, JitDoesNotThrow, Calm, ghosts, Idle
  <2>8. StrandedStillServe'
    BY <1>3, <2>1, <2>6 DEF StrandedStillServe, Calm, Idle, Methods
  <2>9. (op.kind = "read" => Bound(op.s))'
    <3>1. op'.s = s
      BY <2>1 DEF Calm
    <3>2. Bound(s)'
      BY <1>6 DEF Answer
    <3> QED BY <3>1, <3>2 DEF Bound, Bindable, Absent, Methods, Live, Chain, Closed
  <2> QED BY <1>1, <1>3, <1>5, <1>7, <1>9, <2>4, <2>7, <2>8, <2>9, IdleStep
<1> QED BY <1>8, <1>9

-----------------------------------------------------------------------------
(* An accessor is assigned to *)

(* A write on top of the stack, and whose value it writes. *)
LEMMA SetAt ==
  ASSUME JitInv, NEW c \in Copies, NEW s \in SlotSet, NEW pc, At("set", pc), Top.c = c, Top.s = s
  PROVE  /\ stack # << >> /\ Top.f = "set" /\ Top.pc = pc /\ Top \in SetFrames /\ Top.v \in Makers
         /\ Len(stack) \in Nat /\ Len(stack) >= 1
         /\ s # "~standard" /\ op.kind # "aot"
         /\ Judged(s) => Fits(Top.v, s)
         /\ Len(stack) = 1 => op.kind = "write" /\ op.s = s /\ Top.v = "user"
         /\ Len(stack) # 1 => LET b == stack[Len(stack) - 1]
                              IN b.f = "mkv" /\ b.by # "aot" /\ Quiet
<1>1. stack # << >> /\ Top.f = "set" /\ Top.pc = pc /\ Top \in Frames
      /\ Len(stack) \in Nat /\ Len(stack) >= 1
  BY IsAt
<1>2. s # "~standard" /\ op.kind # "aot"
  BY <1>1, Parts DEF OnTop, SetTop
<1>3. Top \in SetFrames /\ Top.v \in Makers
  BY <1>1, FrameKinds
<1>4. CASE Len(stack) = 1
  <2>1. op.kind = "write" /\ op.s = s /\ Top.v = "user"
    BY <1>1, <1>4, Underway
  <2>2. Judged(s) => Fits(Top.v, s)
    <3>1. Judged(s) => plainThrew
      BY <1>1, <2>1 DEF Judged
    <3>2. plainThrew => "user" \in after[s]
      BY <1>1, <2>1, Parts DEF Operations, Writes
    <3> QED BY <2>1, <3>1, <3>2 DEF Fits
  <2> QED BY <1>1, <1>2, <1>3, <1>4, <2>1, <2>2
<1>5. CASE Len(stack) # 1
  <2> DEFINE n == Len(stack)
  <2> PICK b \in Frames : b = stack[n - 1]
    BY <1>1, <1>5, Caller
  <2>1. /\ Linked(b, Top) /\ Sound(b) /\ (b.f = "mkv" /\ b.pc >= 4 => Quiet)
        /\ (b.f = "mkv" /\ b.by = "aot" => op.kind = "aot")
    BY <1>1, <1>5, Caller
  <2>2. b.f = "mkv" /\ Top.v = b.by /\ b.pc >= 4
    BY <1>1, <2>1 DEF Linked
  <2>3. b.by # "aot" /\ b.by \in Copies
    BY <1>2, <2>1, <2>2, FrameKinds
  <2>4. Fits(Top.v, s)
    BY <1>2, <2>1, <2>2, <2>3 DEF Sound, Fits
  <2> QED BY <1>1, <1>2, <1>3, <1>5, <2>1, <2>2, <2>3, <2>4
<1> QED BY <1>4, <1>5

(* A write ends a compilation that is pending, on every slot. *)
LEMMA CancelStep ==
  ASSUME JitInv, Calm, NEW c \in Copies, NEW s \in SlotSet, SetCancel(c, s)
  PROVE  JitInv'
<1> DEFINE cancel == "cancel"
           K == [seen : BOOLEAN, pending : BOOLEAN, snap : [SlotSet -> Descriptors],
                 reading : SUBSET SlotSet, stranded : [SlotSet -> Values \cup {"none"}]]
<1>1. /\ stack # << >> /\ Top.f = "set" /\ Top.pc = cancel /\ Top \in SetFrames
      /\ Len(stack) \in Nat /\ Len(stack) >= 1 /\ Top.c = c /\ Top.s = s
      /\ s # "~standard" /\ op.kind # "aot"
  <2>1. At("set", cancel) /\ Top.c = c /\ Top.s = s
    BY DEF SetCancel
  <2> HIDE DEF cancel
  <2> QED BY <2>1, SetAt
<1>2. own[s] = Acc(c) /\ c \in Live(s)
  <2>1. own[s] = Acc(c)
    BY <1>1, Parts DEF OnTop, SetTop
  <2> QED BY <2>1, LiveOf, Parts
<1>3. /\ copy' = [copy EXCEPT ![c].pending = FALSE] /\ ret' = ret /\ stack' = Goto("write")
      /\ own' = IF copy[c].pending THEN Restored(copy[c].snap, own) ELSE own
  BY DEF SetCancel
<1>4. /\ copy' \in [Copies -> K]
      /\ \A x \in Copies : /\ copy'[x].snap = copy[x].snap /\ copy'[x].seen = copy[x].seen
                           /\ copy'[x].stranded = copy[x].stranded /\ copy'[x].reading = copy[x].reading
                           /\ copy'[x].pending = (copy[x].pending /\ x # c)
  <2> DEFINE r == [copy[c] EXCEPT !.pending = FALSE]
  <2>1. copy' = [copy EXCEPT ![c] = r]
    BY <1>3
  <2>2. copy \in [Copies -> K]
    BY Parts
  <2>3. /\ r \in K /\ r.snap = copy[c].snap /\ r.seen = copy[c].seen /\ r.stranded = copy[c].stranded
        /\ r.pending = FALSE /\ r.reading = copy[c].reading
    BY <2>2
  <2> HIDE DEF r
  <2>4. copy' \in [Copies -> K] /\ copy'[c] = r /\ \A x \in Copies : x # c => copy'[x] = copy[x]
    <3> HIDE DEF K
    <3> QED BY <2>1, <2>2, <2>3
  <2>5. \A x \in Copies : copy[x].pending \in BOOLEAN
    BY <2>2
  <2> HIDE DEF K
  <2>6. ASSUME NEW x \in Copies
        PROVE  /\ copy'[x].snap = copy[x].snap /\ copy'[x].seen = copy[x].seen
               /\ copy'[x].stranded = copy[x].stranded /\ copy'[x].reading = copy[x].reading
               /\ copy'[x].pending = (copy[x].pending /\ x # c)
    <3>1. CASE x = c
      BY <3>1, <2>3, <2>4
    <3>2. CASE x # c
      BY <3>2, <2>4, <2>5
    <3> QED BY <3>1, <3>2
  <2> QED BY <2>4, <2>6 DEF K
<1>5. Follows
  BY <1>2, <1>3, <1>4, FollowsSpend
<1> DEFINE w == [Top EXCEPT !.pc = "write"]
<1>6. w \in Frames /\ w.f = "set" /\ w.c = c /\ w.s = s /\ w.v = Top.v /\ w.pc = "write"
  <2> HIDE DEF Top
  <2> QED BY <1>1 DEF SetFrames, Frames
<1>7. stack' = Append(Rest, w)
  BY <1>3 DEF Goto
<1> PICK y \in Frames : y = w
  BY <1>6
<1> HIDE DEF w
<1>8. Goes(y) /\ Len(stack') = Len(stack) /\ stack'[Len(stack)] = y /\ stack' # << >>
  BY <1>1, <1>7, TurnIs, Parts DEF Goes
<1>9. OnTop'
  <2>1. op'.kind # "aot" /\ ~copy'[c].pending /\ stack'[Len(stack')] = y
    BY <1>1, <1>4, <1>8 DEF Calm
  <2> QED BY <1>1, <1>6, <1>8, <2>1, SetTopAfter
<1>10. /\ \A d \in Copies : copy'[d].reading # {} => ~copy'[d].pending
       /\ \A d \in Copies, t \in SlotSet : t \in copy'[d].reading =>
             t \in copy[d].reading /\ ~IsReading(Top, d, t)
  BY <1>1, <1>4, Parts DEF Deep, IsReading
<1>11. SameCall(y) /\ Sound(y)' /\ ret' \in [threw : BOOLEAN, v : Values]
  BY <1>1, <1>3, <1>6, Parts DEF SameCall, Sound
<1> QED BY <1>1, <1>5, <1>8, <1>9, <1>10, <1>11, GoStep

(* A write returns: it is done, unless the target refuses it. *)
LEMMA SetReturns ==
  ASSUME JitInv, Calm, Follows, NEW c \in Copies, NEW s \in SlotSet, SetWrite(c, s),
         Returns, copy' = copy, ret' \in [threw : BOOLEAN, v : Values],
         \/ /\ \E v \in Makers : v = Top.v /\ own'[s] = Data(v, TRUE)
            /\ Live(s)' = {} /\ Pending' = {} /\ ~ret'.threw
         \/ ~Accepts("data", s, own)
  PROVE  JitInv'
<1> DEFINE write == "write"
<1>1. /\ stack # << >> /\ Top.f = "set" /\ Top.s = s /\ op.kind # "aot"
      /\ Len(stack) \in Nat /\ Len(stack) >= 1
      /\ Len(stack) = 1 => op.kind = "write" /\ op.s = s /\ Top.v = "user"
      /\ Len(stack) # 1 => LET b == stack[Len(stack) - 1]
                           IN b.f = "mkv" /\ b.by # "aot" /\ Quiet
  <2>1. At("set", write) /\ Top.c = c /\ Top.s = s
    BY DEF SetWrite
  <2> HIDE DEF write
  <2> QED BY <2>1, SetAt
<1>2. /\ \A d \in Copies : copy'[d].reading # {} => ~copy'[d].pending
      /\ \A d \in Copies, t \in SlotSet : t \in copy'[d].reading =>
            t \in copy[d].reading /\ ~IsReading(Top, d, t)
  BY <1>1, Parts DEF Deep, IsReading
<1>3. CASE Len(stack) # 1
  <2> DEFINE n == Len(stack)
  <2> PICK b \in Frames : b = stack[n - 1]
    BY <1>1, <1>3, Caller
  <2>1. b.f = "mkv" /\ b.by # "aot" /\ Quiet'
    BY <1>1, <1>3 DEF Follows
  <2>2. stack' # << >> /\ stack'[Len(stack')] = b
    <3>1. /\ stack' \in Seq(Frames) /\ Len(stack') = n - 1
          /\ \A i \in 1 .. n - 1 : stack'[i] = stack[i]
      BY <1>1, RestIs, Parts DEF Below, Returns
    <3>2. n - 1 \in 1 .. n - 1
      <4>1. n \in Nat /\ n >= 1 /\ n # 1
        BY <1>1, <1>3
      <4> HIDE DEF n
      <4> QED BY <4>1
    <3> QED BY <3>1, <3>2
  <2>3. OnTop'
    BY <2>1, <2>2, MkvTopAfter
  <2> QED BY <1>1, <1>2, <1>3, <2>3, ReturnStep
<1>4. CASE Len(stack) = 1
  <2>1. op.kind = "write" /\ op.s = s /\ Top.v = "user"
    BY <1>1, <1>4
  <2>2. stack' = << >>
    BY <1>1, <1>4, RestIs, Parts DEF Returns
  <2>3. ~plainThrew => /\ Accepts("data", s, own) /\ plain[s] = Data("user", TRUE)
    <3>1. ASSUME ~plainThrew
          PROVE  /\ "data" \notin refused /\ ~frozen /\ s \notin locked
                 /\ plain[s] = Data("user", TRUE) /\ (own[s] = Absent => extensible)
      BY <1>1, <2>1, <3>1, Parts DEF Operations, Writes
    <3> QED BY <3>1 DEF Accepts
  <2>4. \A t \in SlotSet : Judged(t)'
    BY <2>2 DEF Judged
  <2>5. \A t \in SlotSet : t # s \/ plainThrew => Judged(t)
    BY <2>1 DEF Judged
  <2>6. ASSUME NEW t \in SlotSet
        PROVE  Once(t)' /\ FaithfulAt(t)'
    <3>1. CASE t # s \/ plainThrew
      BY <2>4, <2>5, <3>1 DEF Follows
    <3>2. CASE t = s /\ ~plainThrew
      <4> DEFINE u == "user"
                 yes == TRUE
      <4>1. u \in Makers /\ yes \in BOOLEAN /\ plain[s] = Data(u, yes) /\ own'[s] = Data(u, yes)
            /\ Live(s)' = {} /\ Pending' = {}
        BY <2>1, <2>3, <3>2, MakersAre
      <4> HIDE DEF u, yes
      <4>2. own'[s].k = "data" /\ own'[s].v = u /\ plain[s].v = u /\ plain[s] # Absent
        BY <4>1, DescriptorFields
      <4>3. Fits(u, s)
        BY <4>2 DEF Fits, PlainValue
      <4>4. Fits(own[s].v, s)'
        BY <4>2, <4>3 DEF Fits, PlainValue, Calm, ghosts, Absent, Methods
      <4> QED BY <2>4, <3>2, <4>1, <4>2, <4>4, FaithfulSet
    <3> QED BY <3>1, <3>2
  <2>7. SlotsArePlain'
    <3>1. ret'.threw => plainThrew
      BY <2>3
    <3> QED BY <2>1, <3>1 DEF SlotsArePlain, ReadIsPlain, WriteIsPlain, JitDoesNotThrow, Calm, ghosts
  <2>8. StrandedStillServe' /\ (op.kind = "read" => Bound(op.s))'
    BY <2>1 DEF StrandedStillServe, Calm
  <2> QED BY <1>1, <1>2, <1>4, <2>6, <2>7, <2>8, IdleStep
<1> QED BY <1>3, <1>4

(* The setter writes. *)
LEMMA WriteStep ==
  ASSUME JitInv, Calm, NEW c \in Copies, NEW s \in SlotSet, SetWrite(c, s)
  PROVE  JitInv'
<1> DEFINE write == "write"
<1>1. /\ stack # << >> /\ Top.f = "set" /\ Top.pc = write /\ Top \in SetFrames
      /\ Len(stack) \in Nat /\ Len(stack) >= 1 /\ Top.c = c /\ Top.s = s /\ Top.v \in Makers
      /\ s # "~standard" /\ op.kind # "aot" /\ (Judged(s) => Fits(Top.v, s))
  <2>1. At("set", write) /\ Top.c = c /\ Top.s = s
    BY DEF SetWrite
  <2> HIDE DEF write
  <2> QED BY <2>1, SetAt
<1>2. copy' = copy /\ ~copy[c].pending
  BY <1>1, Parts DEF SetWrite, OnTop, SetTop
<1> PICK v \in Makers : v = Top.v
  BY <1>1
<1>3. CASE own[s] # Acc(c)
  <2> DEFINE rest == Rest
             yes == TRUE
  <2>1. Assign(s, v, yes, rest)
    BY <1>3 DEF SetWrite
  <2>2. /\ Follows /\ ret' \in [threw : BOOLEAN, v : Values]
        /\ \/ /\ own[s] = Acc(own[s].v) /\ own[s].v \in Copies /\ own' = own /\ ret' = ret
              /\ stack' = Append(rest, SetFrame(own[s].v, s, v))
           \/ /\ stack' = rest /\ own'[s] = Data(v, TRUE) /\ ~ret'.threw
              /\ Live(s)' = {} /\ Pending' = {}
           \/ ~Accepts("data", s, own) /\ stack' = rest
    <3> HIDE DEF rest, yes
    <3>1. s # "~standard" /\ (Judged(s) => Fits(v, s))
      BY <1>1
    <3> QED BY <3>1, <1>2, <2>1, AfterAssign
  <2>3. CASE /\ own[s] = Acc(own[s].v) /\ own[s].v \in Copies /\ own' = own /\ ret' = ret
             /\ stack' = Append(rest, SetFrame(own[s].v, s, v))
    <3> PICK d \in Copies : d = own[s].v
      BY <2>3
    <3> DEFINE w == SetFrame(d, s, v)
    <3>1. w \in Frames /\ w.f = "set" /\ w.c = d /\ w.s = s /\ w.v = v /\ w.pc = "cancel"
      BY FramesBegin
    <3> PICK y \in Frames : y = w
      BY <3>1
    <3> HIDE DEF w
    <3>2. Goes(y)
      BY <2>3 DEF Goes, w
    <3>3. Len(stack') = Len(stack) /\ stack'[Len(stack)] = y /\ stack' # << >>
      BY <1>1, <3>2, TurnIs, Parts DEF Goes
    <3>4. OnTop'
      <4>1. op'.kind # "aot" /\ own'[s] = Acc(d) /\ stack'[Len(stack')] = y
        BY <1>1, <2>3, <3>3 DEF Calm
      <4> QED BY <1>1, <3>1, <3>3, <4>1, SetTopAfter
    <3>5. /\ \A e \in Copies : copy'[e].reading # {} => ~copy'[e].pending
          /\ \A e \in Copies, t \in SlotSet : t \in copy'[e].reading =>
                t \in copy[e].reading /\ ~IsReading(Top, e, t)
      BY <1>1, <1>2, Parts DEF Deep, IsReading
    <3>6. SameCall(y) /\ Sound(y)'
      BY <1>1, <3>1 DEF SameCall, Sound
    <3> QED BY <1>1, <2>2, <3>2, <3>4, <3>5, <3>6, GoStep
  <2>4. CASE \/ /\ stack' = rest /\ own'[s] = Data(v, TRUE) /\ ~ret'.threw
                /\ Live(s)' = {} /\ Pending' = {}
             \/ ~Accepts("data", s, own) /\ stack' = rest
    <3>1. Returns
      BY <2>4 DEF Returns
    <3> QED BY <1>2, <2>2, <2>4, <3>1, SetReturns
  <2> QED BY <2>2, <2>3, <2>4
<1>4. CASE own[s] = Acc(c) /\ Accepts("data", s, own)
  <2> DEFINE yes == TRUE
  <2>1. own' = [own EXCEPT ![s] = Data(v, yes)] /\ ret' = [threw |-> FALSE, v |-> v] /\ Returns
    BY <1>4 DEF SetWrite, Return, Returns
  <2>2. Pending = {}
    <3>1. c \in Live(s) /\ ~frozen
      BY <1>4, LiveOf, Accepting, Parts
    <3>2. op.kind # "aot" => Quiet
      <4>1. copy[c].snap[s].k # "acc"
        BY <1>2, <1>4, <3>1, Parts DEF Fronts, Spent
      <4>2. Live(s) \subseteq {c} \cup Chain(copy, copy[c].snap[s], s)
        BY <1>4, LiveOf, Parts
      <4>3. Chain(copy, copy[c].snap[s], s) = {}
        BY <4>1, ChainEmpty
      <4>4. Pending \subseteq Live(s) /\ c \notin Pending
        BY <1>2, Parts DEF Fronts, Fronting, Pending
      <4> QED BY <4>2, <4>3, <4>4 DEF Quiet
    <3> QED BY <1>1, <3>1, <3>2 DEF Quiet
  <2>3. yes \in BOOLEAN /\ (s # "~standard" => yes) /\ (Judged(s) => Fits(v, s))
    BY <1>1
  <2>4. Follows /\ Live(s)' = {} /\ Pending' = {} /\ own'[s] = Data(v, yes)
    <3> HIDE DEF yes
    <3> QED BY <1>2, <2>1, <2>2, <2>3, FollowsSet
  <2>5. ret' \in [threw : BOOLEAN, v : Values] /\ ~ret'.threw
    BY <2>1, MakersAre
  <2> QED BY <1>2, <2>1, <2>4, <2>5, SetReturns
<1>5. CASE own[s] = Acc(c) /\ ~Accepts("data", s, own)
  <2>1. own' = own /\ Returns /\ ret' = [threw |-> TRUE, v |-> "undefined"]
    BY <1>5 DEF SetWrite, Throw, Returns
  <2>2. Follows
    BY <1>2, <2>1, FollowsKept
  <2>3. ret' \in [threw : BOOLEAN, v : Values]
    BY <2>1, MakersAre
  <2> QED BY <1>2, <1>5, <2>1, <2>2, <2>3, SetReturns
<1> QED BY <1>3, <1>4, <1>5

-----------------------------------------------------------------------------
(* A validator installs itself *)

(* The statements, by their place. *)
LEMMA StatementsAre ==
  /\ Len(Statements) = 10
  /\ \A pc \in 1 .. 10 :
       /\ Statements[pc].o = "extract" => pc = 1
       /\ pc = 1 => Statements[pc].o = "extract"
       /\ pc = 2 => Statements[pc].s = "safeParse"
       /\ Statements[pc].o = "read" => pc \in 2 .. 4
       /\ Statements[pc].o = "assign" => pc \in 5 .. 9 /\ Statements[pc].s # "~standard"
       /\ Statements[pc].o = "define" => pc = 10 /\ Statements[pc].s = "~standard"
       /\ Statements[pc].o \in {"extract", "read", "assign", "define"}
       /\ \A s \in SlotSet : Pos(s) = pc => Statements[pc].s = s
<1>1. /\ Pos("parse") = 5 /\ Pos("safeParse") = 6 /\ Pos("safeParseAsync") = 7
      /\ Pos("parseAsync") = 8 /\ Pos("is") = 9 /\ Pos("~standard") = 10
  BY DEF Pos
<1>2. Len(Statements) = 10
  BY DEF Statements
<1>3. /\ Statements[1].o = "extract" /\ Statements[1].s = "safeParse"
      /\ Statements[2].o = "read" /\ Statements[2].s = "safeParse"
      /\ Statements[3].o = "read" /\ Statements[3].s = "parseAsync"
      /\ Statements[4].o = "read" /\ Statements[4].s = "safeParseAsync"
      /\ Statements[5].o = "assign" /\ Statements[5].s = "parse"
      /\ Statements[6].o = "assign" /\ Statements[6].s = "safeParse"
      /\ Statements[7].o = "assign" /\ Statements[7].s = "safeParseAsync"
      /\ Statements[8].o = "assign" /\ Statements[8].s = "parseAsync"
      /\ Statements[9].o = "assign" /\ Statements[9].s = "is"
      /\ Statements[10].o = "define" /\ Statements[10].s = "~standard"
  BY DEF Statements
<1>4. \A s \in SlotSet, pc \in 1 .. 10 : Pos(s) = pc => Statements[pc].s = s
  BY <1>1, <1>3, SlotsAre
<1>5. \A pc \in 1 .. 10 : \/ pc = 1 \/ pc = 2 \/ pc = 3 \/ pc = 4 \/ pc = 5
                          \/ pc = 6 \/ pc = 7 \/ pc = 8 \/ pc = 9 \/ pc = 10
  OBVIOUS
<1> HIDE DEF Statements
<1> QED BY <1>2, <1>3, <1>4, <1>5

(* While a build installs its validator, nothing refuses it. *)
LEMMA BuildAccepts ==
  ASSUME JitInv, stack # << >>, op.kind = "aot", NEW s \in SlotSet
  PROVE  /\ Accepts("data", s, own) /\ Bindable(s) /\ ~Judged(s)
         /\ Quiet => own[s].k # "acc"
<1>1. extensible /\ ~frozen /\ locked = {} /\ refused = {}
  BY Parts DEF Operations, Builds
<1>2. ASSUME Quiet, own[s].k = "acc"
      PROVE  FALSE
  <2>1. own[s] = Acc(own[s].v) /\ own[s].v \in Copies
    BY <1>2, TypedSlots, DescriptorKinds, Parts
  <2>2. ~copy[own[s].v].pending
    BY <1>1, <1>2, <2>1 DEF Quiet, Pending
  <2> QED BY <1>1, <2>1, <2>2, Parts DEF Fronts, Spent
<1> QED BY <1>1, <1>2, Underway DEF Accepts

(* A validator on top of the stack. *)
LEMMA MkvAt ==
  ASSUME JitInv, stack # << >>, Top.f = "mkv"
  PROVE  /\ Top \in MkvFrames /\ Top.by \in Copies \cup {"aot"} /\ Top.pc \in 1 .. 11
         /\ Len(stack) \in Nat /\ Len(stack) >= 1
         /\ Top.pc >= 3 => Quiet
         /\ Top.by = "aot" => ~ret.threw /\ op.kind = "aot" /\ Len(stack) = 1
         /\ op.kind = "aot" /\ Len(stack) = 1 =>
              /\ Top.by = "aot"
              /\ \A s \in SlotSet : Top.pc > Pos(s) => own[s].k = "data" /\ own[s].v = "aot"
         /\ Top.by \in Copies /\ op.kind # "aot" => \A s \in SlotSet : Top.by \in after[s]
         /\ op.kind # "write" /\ (op.kind # "aot" => \A s : Judged(s))
         /\ Len(stack) # 1 => /\ Linked(stack[Len(stack) - 1], Top)
                              /\ stack[Len(stack) - 1] \in Frames /\ stack[Len(stack) - 1].f = "read"
                              /\ stack[Len(stack) - 1].pc = "look" /\ Top.by \in Copies
         /\ Len(stack) = 1 => op.kind = "aot" \/ op.kind = "jit"
<1>1. Top \in Frames /\ Len(stack) \in Nat /\ Len(stack) >= 1 /\ Top = stack[Len(stack)]
  BY RestIs, Parts
<1>2. Top \in MkvFrames /\ Top.by \in Copies \cup {"aot"} /\ Top.pc \in 1 .. 11
  BY <1>1, FrameKinds
<1>3. (Top.pc >= 3 => Quiet) /\ (Top.by = "aot" => ~ret.threw)
  BY Parts DEF OnTop, MkvTop
<1>4. Top.by \in Copies /\ op.kind # "aot" => \A s \in SlotSet : Top.by \in after[s]
  BY <1>1, Parts DEF Deep, Sound
<1>5. op.kind # "write" /\ (op.kind # "aot" => \A s : Judged(s))
  BY Underway
<1>6. ASSUME Len(stack) # 1
      PROVE  /\ Linked(stack[Len(stack) - 1], Top)
             /\ stack[Len(stack) - 1] \in Frames /\ stack[Len(stack) - 1].f = "read"
             /\ stack[Len(stack) - 1].pc = "look" /\ Top.by \in Copies
  BY <1>6, Caller DEF Linked
<1>7. Len(stack) = 1 => \/ op.kind = "aot" /\ Top.by = "aot"
                        \/ op.kind = "jit" /\ Top.by \in Copies
  BY Underway
<1>8. "aot" \notin Copies
  BY MakersAre
<1>9. op.kind = "aot" /\ Len(stack) = 1 =>
        \A s \in SlotSet : Top.pc > Pos(s) => own[s].k = "data" /\ own[s].v = "aot"
  <2>1. Len(stack) = 1 => stack[1] = Top
    BY <1>1
  <2> QED BY <2>1, Parts DEF Operations, Builds
<1> QED BY <1>1, <1>2, <1>3, <1>4, <1>5, <1>6, <1>7, <1>8, <1>9

(* It goes on to its next statement. *)
LEMMA MkvGoes ==
  ASSUME JitInv, Calm, Follows, copy' = copy, stack # << >>, Top.f = "mkv", Top.pc <= 10,
         stack' = Goto(Top.pc + 1), ret' \in [threw : BOOLEAN, v : Values],
         Top.pc >= 2 => Quiet', Top.by = "aot" => ~ret'.threw,
         op.kind = "aot" /\ Len(stack) = 1 =>
            \A s \in SlotSet : Top.pc >= Pos(s) => own'[s].k = "data" /\ own'[s].v = "aot"
  PROVE  JitInv'
<1>1. /\ Top \in MkvFrames /\ Top.by \in Copies \cup {"aot"} /\ Top.pc \in 1 .. 11
      /\ Len(stack) \in Nat /\ Len(stack) >= 1
      /\ Top.by \in Copies /\ op.kind # "aot" => \A s \in SlotSet : Top.by \in after[s]
  BY MkvAt
<1> DEFINE w == [Top EXCEPT !.pc = Top.pc + 1]
<1>2. w \in Frames /\ w.f = "mkv" /\ w.by = Top.by /\ w.pc = Top.pc + 1
  <2>1. Top.pc + 1 \in 1 .. 11
    BY <1>1
  <2> HIDE DEF Top
  <2> QED BY <1>1, <2>1 DEF MkvFrames, Frames
<1>3. stack' = Append(Rest, w)
  BY DEF Goto
<1> PICK y \in Frames : y = w
  BY <1>2
<1> HIDE DEF w
<1>4. Goes(y) /\ Len(stack') = Len(stack) /\ stack'[Len(stack)] = y /\ stack' # << >>
  BY <1>1, <1>3, TurnIs, Parts DEF Goes
<1>5. OnTop'
  <2>1. (y.pc >= 3 => Quiet') /\ (y.by = "aot" => ~ret'.threw) /\ stack'[Len(stack')] = y
    BY <1>1, <1>2, <1>4
  <2> QED BY <1>2, <1>4, <2>1, MkvTopAfter
<1>6. SameCall(y) /\ Sound(y)'
  BY <1>1, <1>2 DEF SameCall, Sound, Calm, ghosts
<1>7. /\ \A d \in Copies : copy'[d].reading # {} => ~copy'[d].pending
      /\ \A d \in Copies, t \in SlotSet : t \in copy'[d].reading =>
            t \in copy[d].reading /\ ~IsReading(Top, d, t)
  BY Parts DEF Deep, IsReading
<1>8. op.kind = "aot" /\ Len(stack) = 1 =>
        \A t \in SlotSet : y.pc > Pos(t) => own'[t].k = "data" /\ own'[t].v = "aot"
  <2>1. \A t \in SlotSet : y.pc > Pos(t) => Top.pc >= Pos(t)
    BY <1>1, <1>2, PosIs
  <2> QED BY <2>1
<1> QED BY <1>4, <1>5, <1>6, <1>7, <1>8, GoStep

(* It calls an accessor. *)
LEMMA MkvCalls ==
  ASSUME JitInv, Calm, Follows, copy' = copy, stack # << >>, Top.f = "mkv", Top.pc <= 10,
         NEW z \in Frames, stack' = Append(Goto(Top.pc + 1), z),
         ret' \in [threw : BOOLEAN, v : Values],
         z.f = "read" \/ (z.f = "set" /\ z.v = Top.by /\ Top.pc >= 3), Sound(z)', OnTop',
         op.kind = "aot" /\ Len(stack) = 1 => Top.pc <= 2
  PROVE  JitInv'
<1>1. /\ Top \in MkvFrames /\ Top.by \in Copies \cup {"aot"} /\ Top.pc \in 1 .. 11
      /\ Len(stack) \in Nat /\ Len(stack) >= 1 /\ (Top.pc >= 3 => Quiet)
      /\ Top.by \in Copies /\ op.kind # "aot" => \A s \in SlotSet : Top.by \in after[s]
  BY MkvAt
<1> DEFINE w == [Top EXCEPT !.pc = Top.pc + 1]
<1>2. w \in Frames /\ w.f = "mkv" /\ w.by = Top.by /\ w.pc = Top.pc + 1
  <2>1. Top.pc + 1 \in 1 .. 11
    BY <1>1
  <2> HIDE DEF Top
  <2> QED BY <1>1, <2>1 DEF MkvFrames, Frames
<1>3. stack' = Append(Append(Rest, w), z)
  BY DEF Goto
<1> PICK y \in Frames : y = w
  BY <1>2
<1> HIDE DEF w
<1>4. GoesOn(y, z)
  BY <1>3 DEF GoesOn
<1>5. Linked(y, z) /\ (y.f = "mkv" /\ y.pc >= 4 => Quiet')
      /\ (op.kind = "aot" /\ Len(stack) = 1 => y.f = "mkv" /\ y.pc <= 3)
  BY <1>1, <1>2 DEF Linked, Follows
<1>6. SameCall(y) /\ Sound(y)'
  BY <1>1, <1>2 DEF SameCall, Sound, Calm, ghosts
<1>7. /\ \A d \in Copies : copy'[d].reading # {} => ~copy'[d].pending
      /\ \A d \in Copies, t \in SlotSet : t \in copy'[d].reading =>
            t \in copy[d].reading /\ ~IsReading(Top, d, t)
  BY Parts DEF Deep, IsReading
<1> QED BY <1>4, <1>5, <1>6, <1>7, GoOnStep

(* It returns: to the read that compiled, to jit() or to the build's module. *)
LEMMA MkvReturns ==
  ASSUME JitInv, Calm, copy' = copy, own' = own, stack # << >>, Top.f = "mkv", Returns,
         ret' \in [threw : BOOLEAN, v : Values], ~ret'.threw, Top.by = "aot" => Top.pc = 11
  PROVE  JitInv'
<1>1. /\ Len(stack) \in Nat /\ Len(stack) >= 1
      /\ op.kind = "aot" /\ Len(stack) = 1 =>
              /\ Top.by = "aot"
              /\ \A s \in SlotSet : Top.pc > Pos(s) => own[s].k = "data" /\ own[s].v = "aot"
      /\ op.kind # "aot" => \A s : Judged(s)
      /\ Len(stack) # 1 => /\ stack[Len(stack) - 1] \in Frames /\ stack[Len(stack) - 1].f = "read"
                           /\ stack[Len(stack) - 1].pc = "look"
      /\ Len(stack) = 1 => op.kind = "aot" \/ op.kind = "jit"
  BY MkvAt
<1>2. Follows
  BY FollowsKept
<1>3. /\ \A d \in Copies : copy'[d].reading # {} => ~copy'[d].pending
      /\ \A d \in Copies, t \in SlotSet : t \in copy'[d].reading =>
            t \in copy[d].reading /\ ~IsReading(Top, d, t)
  BY Parts DEF Deep, IsReading
<1>4. CASE Len(stack) # 1
  <2> DEFINE n == Len(stack)
  <2> PICK b \in Frames : b = stack[n - 1]
    BY <1>1, <1>4
  <2>1. b.f = "read" /\ b.pc = "look" /\ b.c \in Copies /\ b.s \in SlotSet
    BY <1>1, <1>4, FrameKinds
  <2>2. stack' # << >> /\ stack'[Len(stack')] = b
    <3>1. /\ stack' \in Seq(Frames) /\ Len(stack') = n - 1
          /\ \A i \in 1 .. n - 1 : stack'[i] = stack[i]
      BY <1>1, RestIs, Parts DEF Below, Returns
    <3>2. n - 1 \in 1 .. n - 1
      <4>1. n \in Nat /\ n >= 1 /\ n # 1
        BY <1>1, <1>4
      <4> HIDE DEF n
      <4> QED BY <4>1
    <3> QED BY <3>1, <3>2
  <2>3. OnTop'
    BY <2>1, <2>2, ReadTopAfter
  <2> QED BY <1>2, <1>3, <1>4, <2>3, ReturnStep
<1>5. CASE Len(stack) = 1
  <2>1. stack' = << >>
    BY <1>1, <1>5, RestIs, Parts DEF Returns
  <2>2. \A t \in SlotSet : Judged(t)'
    BY <2>1 DEF Judged
  <2>3. ASSUME NEW t \in SlotSet
        PROVE  Once(t)' /\ FaithfulAt(t)'
    <3>1. CASE op.kind # "aot"
      BY <1>1, <1>2, <2>2, <3>1 DEF Follows
    <3>2. CASE op.kind = "aot"
      <4>1. Top.pc > Pos(t)
        BY <1>1, <1>5, <3>2, PosIs
      <4>2. own[t].k = "data" /\ own[t].v = "aot" /\ own[t].k # "acc"
        BY <1>1, <1>5, <3>2, <4>1
      <4>3. plain[t].k = "data" /\ plain[t].v = "aot"
        BY <3>2, Parts DEF Operations, Builds
      <4>4. Live(t) = {} /\ Pending = {}
        BY <4>2, NoneBehind
      <4>5. Live(t)' = {} /\ Pending' = {}
        BY <1>2, <4>4 DEF Follows
      <4>6. plain[t] # Absent
        BY <4>3, DescriptorFields
      <4>7. Fits(own[t].v, t)
        BY <4>2, <4>3, <4>6 DEF Fits, PlainValue
      <4>8. Fits(own[t].v, t)'
        BY <4>7 DEF Fits, PlainValue, Calm, ghosts, Absent, Methods
      <4> QED BY <2>2, <4>2, <4>5, <4>8, FaithfulSet
    <3> QED BY <3>1, <3>2
  <2>4. op.kind = "aot" \/ op.kind = "jit"
    BY <1>1, <1>5
  <2>5. SlotsArePlain'
    BY <2>4 DEF SlotsArePlain, ReadIsPlain, WriteIsPlain, JitDoesNotThrow, Calm
  <2>6. StrandedStillServe' /\ (op.kind = "read" => Bound(op.s))'
    BY <2>4 DEF StrandedStillServe, Calm
  <2> QED BY <1>2, <1>3, <1>5, <2>3, <2>5, <2>6, IdleStep
<1> QED BY <1>4, <1>5

(* It reads a slot. *)
LEMMA MkvGets ==
  ASSUME JitInv, Calm, copy' = copy, stack # << >>, Top.f = "mkv", Top.pc <= 4,
         NEW s \in SlotSet, Get(s, Goto(Top.pc + 1))
  PROVE  JitInv'
<1>1. /\ Top.pc \in 1 .. 11 /\ Top.pc <= 10 /\ Len(stack) \in Nat /\ Len(stack) >= 1
      /\ Top.pc >= 3 => Quiet
      /\ Top.by = "aot" => op.kind = "aot" /\ Len(stack) = 1
      /\ op.kind # "aot" => \A t : Judged(t)
  BY MkvAt
<1> DEFINE rest == Goto(Top.pc + 1)
<1>2. /\ Follows /\ ret' \in [threw : BOOLEAN, v : Values]
      /\ \/ /\ own[s].k = "acc" /\ own[s] = Acc(own[s].v) /\ own[s].v \in Copies
            /\ own' = own /\ ret' = ret /\ (\A t \in SlotSet : Live(t)' = Live(t))
            /\ stack' = Append(rest, ReadFrame(own[s].v, s))
         \/ stack' = rest /\ Answer(s)'
  <2>1. Judged(s) \/ op.kind = "aot"
    BY <1>1
  <2> HIDE DEF rest
  <2>2. Get(s, rest)
    BY DEF rest
  <2> QED BY <2>1, <2>2, AfterGet
<1>3. CASE stack' = rest /\ Answer(s)'
  <2>1. Quiet'
    BY <1>3, AnswerAfter
  <2>2. Top.by = "aot" => ~ret'.threw
    <3>1. op.kind = "aot" => Bindable(s)
      BY BuildAccepts
    <3>2. ret'.threw => ~Bindable(s)
      BY <1>3, AnswerAfter
    <3> QED BY <1>1, <3>1, <3>2
  <2>3. \A t \in SlotSet : ~(Top.pc >= Pos(t))
    <3> DEFINE p == Top.pc
    <3>1. p \in 1 .. 11 /\ p <= 4
      BY <1>1
    <3> HIDE DEF p
    <3>2. \A t \in SlotSet : ~(p >= Pos(t))
      BY <3>1, PosIs
    <3> QED BY <3>2 DEF p
  <2> QED BY <1>1, <1>2, <1>3, <2>1, <2>2, <2>3, MkvGoes
<1>4. CASE /\ own[s].k = "acc" /\ own[s] = Acc(own[s].v) /\ own[s].v \in Copies
           /\ own' = own /\ ret' = ret /\ (\A t \in SlotSet : Live(t)' = Live(t))
           /\ stack' = Append(rest, ReadFrame(own[s].v, s))
  <2> PICK v \in Copies : v = own[s].v
    BY <1>4
  <2>1. own[s] = Acc(v) /\ own' = own /\ Live(s)' = Live(s) /\ v \in Live(s)
    BY <1>4, LiveOf, Parts
  <2> DEFINE w == ReadFrame(v, s)
  <2>2. w \in Frames /\ w.f = "read" /\ w.c = v /\ w.s = s /\ w.pc = "enter" /\ ~w.nested
    BY FramesBegin
  <2> PICK z \in Frames : z = w
    BY <2>2
  <2> HIDE DEF w
  <2>3. stack' = Append(Goto(Top.pc + 1), z)
    BY <1>4 DEF w
  <2>4. stack' # << >> /\ stack'[Len(stack')] = z
    <3> DEFINE x == [Top EXCEPT !.pc = Top.pc + 1]
    <3>1. x \in Frames
      <4>1. Top \in MkvFrames /\ Top.pc + 1 \in 1 .. 11
        <5> DEFINE p == Top.pc
        <5>1. p \in 1 .. 11 /\ p <= 10
          BY <1>1
        <5>2. Top \in MkvFrames
          BY MkvAt
        <5> HIDE DEF p
        <5>3. p + 1 \in 1 .. 11
          BY <5>1
        <5> QED BY <5>2, <5>3 DEF p
      <4> HIDE DEF Top
      <4> QED BY <4>1 DEF MkvFrames, Frames
    <3>2. stack' = Append(Append(Rest, x), z)
      BY <2>3 DEF Goto
    <3> HIDE DEF x
    <3> QED BY <1>1, <3>1, <3>2, CallIs, Parts
  <2>5. OnTop'
    <3>1. v \in Live(s)' /\ own'[s] = Acc(v)
      BY <2>1
    <3> QED BY <2>2, <2>4, <3>1, ReadTopAfter
  <2>6. Sound(z)'
    BY <2>2 DEF Sound
  <2>7. op.kind = "aot" /\ Len(stack) = 1 => Top.pc <= 2
    <3>1. op.kind = "aot" => ~Quiet
      BY <1>4, BuildAccepts
    <3> QED BY <1>1, <3>1
  <2> QED BY <1>1, <1>2, <2>2, <2>3, <2>5, <2>6, <2>7, MkvCalls
<1> QED BY <1>2, <1>3, <1>4

(* It assigns itself to a slot. *)
LEMMA MkvAssigns ==
  ASSUME JitInv, Calm, copy' = copy, stack # << >>, Top.f = "mkv", Top.pc \in 5 .. 9,
         NEW s \in SlotSet, s # "~standard", \A t \in SlotSet : Pos(t) = Top.pc => t = s,
         NEW strict, Assign(s, Top.by, strict, Goto(Top.pc + 1)), ~ret.threw
  PROVE  JitInv'
<1>1. /\ Top.pc \in 1 .. 11 /\ Top.pc <= 10 /\ Top.pc >= 3 /\ Len(stack) \in Nat /\ Len(stack) >= 1
      /\ Quiet /\ Top.by \in Copies \cup {"aot"} /\ Top \in MkvFrames
      /\ Top.by = "aot" => op.kind = "aot" /\ Len(stack) = 1
      /\ op.kind = "aot" /\ Len(stack) = 1 =>
              /\ Top.by = "aot"
              /\ \A t \in SlotSet : Top.pc > Pos(t) => own[t].k = "data" /\ own[t].v = "aot"
      /\ Top.by \in Copies /\ op.kind # "aot" => \A t \in SlotSet : Top.by \in after[t]
  BY MkvAt
<1> PICK v \in Makers : v = Top.by
  BY <1>1, MakersAre
<1>2. Judged(s) => Fits(v, s)
  <2>1. Judged(s) => op.kind # "aot"
    BY DEF Judged
  <2> QED BY <1>1, <2>1 DEF Fits
<1> DEFINE rest == Goto(Top.pc + 1)
<1>3. /\ Follows /\ ret' \in [threw : BOOLEAN, v : Values]
      /\ \/ /\ own[s] = Acc(own[s].v) /\ own[s].v \in Copies /\ own' = own /\ ret' = ret
            /\ stack' = Append(rest, SetFrame(own[s].v, s, v))
         \/ /\ stack' = rest /\ own' = [own EXCEPT ![s] = Data(v, TRUE)] /\ own'[s] = Data(v, TRUE)
            /\ ~ret'.threw
         \/ ~Accepts("data", s, own) /\ stack' = rest
  <2> HIDE DEF rest
  <2>1. Assign(s, v, strict, rest)
    BY DEF rest
  <2> QED BY <1>2, <2>1, AfterAssign
<1>4. Quiet'
  BY <1>1, <1>3 DEF Follows
<1>5. CASE /\ stack' = rest /\ own' = [own EXCEPT ![s] = Data(v, TRUE)] /\ own'[s] = Data(v, TRUE)
           /\ ~ret'.threw
  <2>1. ASSUME op.kind = "aot", Len(stack) = 1, NEW t \in SlotSet, Top.pc >= Pos(t)
        PROVE  own'[t].k = "data" /\ own'[t].v = "aot"
    <3>1. CASE t = s
      <4> DEFINE yes == TRUE
      <4>1. yes \in BOOLEAN /\ own'[s] = Data(v, yes) /\ v = "aot"
        BY <1>1, <1>5, <2>1
      <4> HIDE DEF yes
      <4>2. own'[s].k = "data" /\ own'[s].v = v
        BY <4>1, DescriptorFields
      <4> QED BY <3>1, <4>1, <4>2
    <3>2. CASE t # s
      <4>1. Top.pc > Pos(t)
        BY <1>1, <2>1, <3>2, PosIs
      <4>2. own'[t] = own[t]
        <5> DEFINE d == Data(v, TRUE)
        <5>1. own' = [own EXCEPT ![s] = d] /\ own \in [SlotSet -> Descriptors]
          BY <1>5, Parts DEF Typed
        <5> HIDE DEF d
        <5> QED BY <3>2, <5>1
      <4> QED BY <1>1, <2>1, <4>1, <4>2
    <3> QED BY <3>1, <3>2
  <2> QED BY <1>1, <1>3, <1>4, <1>5, <2>1, MkvGoes
<1>6. CASE ~Accepts("data", s, own) /\ stack' = rest
  <2>1. op.kind # "aot"
    BY <1>6, BuildAccepts
  <2> QED BY <1>1, <1>3, <1>4, <1>6, <2>1, MkvGoes
<1>7. CASE /\ own[s] = Acc(own[s].v) /\ own[s].v \in Copies /\ own' = own /\ ret' = ret
           /\ stack' = Append(rest, SetFrame(own[s].v, s, v))
  <2> PICK c \in Copies : c = own[s].v
    BY <1>7
  <2>1. op.kind # "aot"
    <3>1. own[s].k = "acc"
      BY <1>7, DescriptorFields
    <3> QED BY <1>1, <3>1, BuildAccepts
  <2> DEFINE w == SetFrame(c, s, v)
  <2>2. w \in Frames /\ w.f = "set" /\ w.c = c /\ w.s = s /\ w.v = v /\ w.pc = "cancel"
    BY FramesBegin
  <2> PICK z \in Frames : z = w
    BY <2>2
  <2> HIDE DEF w
  <2>3. stack' = Append(Goto(Top.pc + 1), z)
    BY <1>7 DEF w
  <2>4. stack' # << >> /\ stack'[Len(stack')] = z
    <3> DEFINE x == [Top EXCEPT !.pc = Top.pc + 1]
    <3>1. x \in Frames
      <4>1. Top.pc + 1 \in 1 .. 11
        BY <1>1
      <4> HIDE DEF Top
      <4> QED BY <1>1, <4>1 DEF MkvFrames, Frames
    <3>2. stack' = Append(Append(Rest, x), z)
      BY <2>3 DEF Goto
    <3> HIDE DEF x
    <3> QED BY <1>1, <3>1, <3>2, CallIs, Parts
  <2>5. OnTop'
    <3>1. op'.kind # "aot" /\ own'[s] = Acc(c)
      BY <1>7, <2>1 DEF Calm
    <3> QED BY <2>2, <2>4, <3>1, SetTopAfter
  <2>6. Sound(z)'
    BY <2>2 DEF Sound
  <2> QED BY <1>1, <1>3, <2>1, <2>2, <2>3, <2>5, <2>6, MkvCalls
<1> QED BY <1>3, <1>5, <1>6, <1>7

(* It defines ~standard. *)
LEMMA MkvDefines ==
  ASSUME JitInv, Calm, copy' = copy, stack # << >>, Top.f = "mkv", Top.pc = 10,
         NEW s \in SlotSet, s = "~standard", \A t \in SlotSet : Pos(t) = Top.pc => t = s, ~ret.threw,
         IF Accepts("data", s, own)
         THEN own' = [own EXCEPT ![s] = Data(Top.by, own[s].w)] /\ Return(Top.by, Goto(Top.pc + 1))
         ELSE Throw(Goto(Top.pc + 1)) /\ UNCHANGED own
  PROVE  JitInv'
<1>1. /\ Top.pc \in 1 .. 11 /\ Top.pc <= 10 /\ Top.pc >= 3 /\ Len(stack) \in Nat /\ Len(stack) >= 1
      /\ Quiet /\ Top.by \in Copies \cup {"aot"}
      /\ Top.by = "aot" => op.kind = "aot" /\ Len(stack) = 1
      /\ op.kind = "aot" /\ Len(stack) = 1 =>
              /\ Top.by = "aot"
              /\ \A t \in SlotSet : Top.pc > Pos(t) => own[t].k = "data" /\ own[t].v = "aot"
      /\ Top.by \in Copies /\ op.kind # "aot" => \A t \in SlotSet : Top.by \in after[t]
  BY MkvAt
<1> PICK v \in Makers : v = Top.by
  BY <1>1, MakersAre
<1>2. Judged(s) => Fits(v, s)
  <2>1. Judged(s) => op.kind # "aot"
    BY DEF Judged
  <2> QED BY <1>1, <2>1 DEF Fits
<1>3. CASE Accepts("data", s, own)
  <2> PICK w \in BOOLEAN : w = own[s].w
    BY TypedSlots, DescriptorKinds, Parts
  <2>1. /\ own' = [own EXCEPT ![s] = Data(v, w)] /\ ret' = [threw |-> FALSE, v |-> v]
        /\ stack' = Goto(Top.pc + 1)
    BY <1>3 DEF Return
  <2>2. Pending = {}
    BY <1>1, <1>3, Accepting, Parts DEF Quiet
  <2>3. Follows /\ own'[s] = Data(v, w)
    BY <1>2, <2>1, <2>2, FollowsSet
  <2>4. Quiet' /\ ret' \in [threw : BOOLEAN, v : Values] /\ ~ret'.threw
    BY <1>1, <2>1, <2>3, MakersAre DEF Follows
  <2>5. ASSUME op.kind = "aot", Len(stack) = 1, NEW t \in SlotSet, Top.pc >= Pos(t)
        PROVE  own'[t].k = "data" /\ own'[t].v = "aot"
    <3>1. CASE t = s
      <4>1. v = "aot"
        BY <1>1, <2>5
      <4>2. own'[s].k = "data" /\ own'[s].v = v
        BY <2>3, DescriptorFields
      <4> QED BY <3>1, <4>1, <4>2
    <3>2. CASE t # s
      <4>1. Top.pc > Pos(t)
        <5>1. Pos(t) # Top.pc
          BY <3>2
        <5>2. Pos(t) \in 5 .. 10
          BY PosIs
        <5> QED BY <2>5, <5>1, <5>2
      <4>2. own'[t] = own[t]
        <5> DEFINE d == Data(v, w)
        <5>1. own' = [own EXCEPT ![s] = d] /\ own \in [SlotSet -> Descriptors]
          BY <2>1, Parts DEF Typed
        <5> HIDE DEF d
        <5> QED BY <3>2, <5>1
      <4> QED BY <1>1, <2>5, <4>1, <4>2
    <3> QED BY <3>1, <3>2
  <2> QED BY <1>1, <2>1, <2>3, <2>4, <2>5, MkvGoes
<1>4. CASE ~Accepts("data", s, own)
  <2>1. own' = own /\ ret' = [threw |-> TRUE, v |-> "undefined"] /\ stack' = Goto(Top.pc + 1)
    BY <1>4 DEF Throw
  <2>2. Follows
    BY <2>1, FollowsKept
  <2>3. op.kind # "aot"
    BY <1>4, BuildAccepts
  <2>4. Quiet' /\ ret' \in [threw : BOOLEAN, v : Values]
    BY <1>1, <2>1, <2>2, MakersAre DEF Follows
  <2> QED BY <1>1, <2>1, <2>2, <2>3, <2>4, MkvGoes
<1> QED BY <1>3, <1>4

(* Every step of a validator that installs itself. *)
LEMMA MkvKeeps ==
  ASSUME JitInv, Calm, MkvStep
  PROVE  JitInv'
<1> DEFINE i == Statements[Top.pc]
           next == Goto(Top.pc + 1)
<1>1. stack # << >> /\ Top.f = "mkv" /\ copy' = copy
  BY DEF MkvStep
<1>2. /\ Top.by \in Copies \cup {"aot"} /\ Top.pc \in 1 .. 11
      /\ Top.by = "aot" => ~ret.threw
      /\ Top.pc >= 3 => Quiet
      /\ op.kind = "aot" /\ Len(stack) = 1 =>
              \A t \in SlotSet : Top.pc > Pos(t) => own[t].k = "data" /\ own[t].v = "aot"
  BY <1>1, MkvAt
<1>3. IF ret.threw
        THEN ret' = [ret EXCEPT !.threw = ~Swallowed(Top.by)] /\ stack' = Rest /\ UNCHANGED own
        ELSE IF Top.pc > Len(Statements) THEN Return("undefined", Rest) /\ UNCHANGED own
        ELSE IF i.s \notin SlotSet THEN stack' = next /\ UNCHANGED <<own, ret>>
        ELSE CASE i.o = "extract" ->
                    \/ Return("undefined", next) /\ UNCHANGED own
                    \/ Top.by # "aot" /\ \E s \in SlotSet : Get(s, next)
               [] i.o = "read"   -> Get(i.s, next)
               [] i.o = "assign" -> Assign(i.s, Top.by, Top.by = "aot", next)
               [] i.o = "define" ->
                    IF Accepts("data", i.s, own)
                    THEN own' = [own EXCEPT ![i.s] = Data(Top.by, own[i.s].w)] /\ Return(Top.by, next)
                    ELSE Throw(next) /\ UNCHANGED own
  BY DEF MkvStep
<1>4. CASE ret.threw
  <2>1. Top.by # "aot"
    BY <1>2, <1>4
  <2>2. Returns /\ own' = own /\ ret' = [ret EXCEPT !.threw = FALSE]
    BY <1>3, <1>4, <2>1 DEF Returns, Swallowed
  <2>3. ret' \in [threw : BOOLEAN, v : Values] /\ ~ret'.threw
    BY <2>2, Parts
  <2> QED BY <1>1, <2>1, <2>2, <2>3, MkvReturns
<1>5. CASE ~ret.threw /\ Top.pc = 11
  <2>1. Returns /\ own' = own /\ ret' = [threw |-> FALSE, v |-> "undefined"]
    BY <1>3, <1>5, StatementsAre DEF Returns, Return
  <2>2. ret' \in [threw : BOOLEAN, v : Values] /\ ~ret'.threw
    BY <2>1, MakersAre
  <2> QED BY <1>1, <1>5, <2>1, <2>2, MkvReturns
<1>6. CASE ~ret.threw /\ Top.pc # 11
  <2>1. /\ Top.pc \in 1 .. 10 /\ Top.pc <= 10 /\ ~(Top.pc > Len(Statements))
    BY <1>2, <1>6, StatementsAre
  <2> PICK pc \in 1 .. 10 : pc = Top.pc
    BY <2>1
  <2>2. /\ i.o = "extract" => pc = 1
        /\ pc = 1 => i.o = "extract"
        /\ pc = 2 => i.s = "safeParse"
        /\ i.o = "read" => pc \in 2 .. 4
        /\ i.o = "assign" => pc \in 5 .. 9 /\ i.s # "~standard"
        /\ i.o = "define" => pc = 10 /\ i.s = "~standard"
        /\ i.o \in {"extract", "read", "assign", "define"}
        /\ \A s \in SlotSet : Pos(s) = pc => i.s = s
    BY StatementsAre
  <2> HIDE DEF i
  <2>3. CASE i.s \notin SlotSet
    <3>1. stack' = next /\ own' = own /\ ret' = ret
      BY <1>3, <1>6, <2>1, <2>3
    <3>2. Follows
      BY <1>1, <3>1, FollowsKept
    <3>3. Top.pc >= 2 => Quiet'
      <4>1. pc # 2
        BY <2>2, <2>3, SlotsAre
      <4> QED BY <1>2, <2>1, <3>2, <4>1 DEF Follows
    <3>4. \A t \in SlotSet : Top.pc >= Pos(t) => Top.pc > Pos(t)
      BY <1>2, <2>2, <2>3, PosIs
    <3> QED BY <1>1, <1>2, <1>6, <2>1, <3>1, <3>2, <3>3, <3>4, MkvGoes, Parts
  <2>4. CASE i.s \in SlotSet /\ i.o = "extract"
    <3>1. \/ Return("undefined", next) /\ own' = own
          \/ \E s \in SlotSet : Get(s, next)
      BY <1>3, <1>6, <2>1, <2>4
    <3>2. CASE Return("undefined", next) /\ own' = own
      <4>1. stack' = next /\ ret' = [threw |-> FALSE, v |-> "undefined"]
        BY <3>2 DEF Return
      <4>2. Follows
        BY <1>1, <3>2, FollowsKept
      <4>3. ret' \in [threw : BOOLEAN, v : Values] /\ ~ret'.threw
        BY <4>1, MakersAre
      <4>4. Top.pc = 1 /\ \A t \in SlotSet : ~(Top.pc >= Pos(t))
        BY <2>2, <2>4, PosIs
      <4> QED BY <1>1, <2>1, <4>1, <4>2, <4>3, <4>4, MkvGoes
    <3>3. CASE \E s \in SlotSet : Get(s, next)
      BY <1>1, <2>2, <2>4, <3>3, MkvGets
    <3> QED BY <3>1, <3>2, <3>3
  <2>5. CASE i.s \in SlotSet /\ i.o = "read"
    <3>1. Get(i.s, next)
      BY <1>3, <1>6, <2>1, <2>5
    <3> QED BY <1>1, <2>2, <2>5, <3>1, MkvGets
  <2>6. CASE i.s \in SlotSet /\ i.o = "assign"
    <3> DEFINE strict == (Top.by = "aot")
    <3>1. Assign(i.s, Top.by, strict, next)
      BY <1>3, <1>6, <2>1, <2>6
    <3> PICK s \in SlotSet : s = i.s
      BY <2>6
    <3>2. s # "~standard" /\ (\A t \in SlotSet : Pos(t) = Top.pc => t = s) /\ Top.pc \in 5 .. 9
      BY <2>2, <2>6
    <3> HIDE DEF strict
    <3> QED BY <1>1, <1>6, <3>1, <3>2, MkvAssigns
  <2>7. CASE i.s \in SlotSet /\ i.o = "define"
    <3> PICK s \in SlotSet : s = i.s
      BY <2>7
    <3>1. s = "~standard" /\ (\A t \in SlotSet : Pos(t) = Top.pc => t = s) /\ Top.pc = 10
      BY <2>2, <2>7
    <3>2. IF Accepts("data", s, own)
          THEN own' = [own EXCEPT ![s] = Data(Top.by, own[s].w)] /\ Return(Top.by, Goto(Top.pc + 1))
          ELSE Throw(Goto(Top.pc + 1)) /\ UNCHANGED own
      BY <1>3, <1>6, <2>1, <2>7
    <3> QED BY <1>1, <1>6, <3>1, <3>2, MkvDefines
  <2> QED BY <2>2, <2>3, <2>4, <2>5, <2>6, <2>7
<1> QED BY <1>2, <1>4, <1>5, <1>6

(* Every step of a call that is under way. *)
LEMMA StepKeeps ==
  ASSUME JitInv, Step
  PROVE  JitInv'
<1>1. Calm
  BY DEF Step, Calm
<1>2. CASE MkvStep
  BY <1>1, <1>2, MkvKeeps
<1>3. ASSUME NEW c \in Copies, NEW s \in SlotSet,
             \/ ReadEnter(c, s) \/ ReadLook(c, s) \/ ReadServe(c, s)
             \/ ReadStrand(c, s) \/ ReadGive(c, s)
             \/ SetCancel(c, s) \/ SetWrite(c, s)
      PROVE  JitInv'
  BY <1>1, <1>3, EnterNested, EnterFirst, LookStep, ServeStep, StrandStep, GiveStep, CancelStep, WriteStep
<1> QED BY <1>2, <1>3 DEF Step

-----------------------------------------------------------------------------
(* The program begins an operation *)

(* Between operations every slot holds, or will be put back to, what the twin *)
(* has: a read that bound the method for the twin has bound it here.          *)
SameAs(d, s) == /\ d.k = "absent" => plain[s] = Absent
                /\ d.k \in {"data", "lazy"} => Fits(d.v, s)
AtRest(s) ==
  /\ SameAs(own[s], s)
  /\ \A c \in Live(s) : /\ SameAs(copy[c].snap[s], s)
                        /\ copy[c].stranded[s] = "none" \/ Fits(copy[c].stranded[s], s)
  /\ \A c \in Pending : c \in after[s]
  /\ Once(s)

(* Nothing is under way between operations. *)
LEMMA Resting ==
  ASSUME JitInv, stack = << >>
  PROVE  /\ \A s \in SlotSet : AtRest(s)
         /\ \A c \in Copies : copy[c].reading = {}
<1>1. ASSUME NEW s \in SlotSet
      PROVE  AtRest(s)
  <2>1. Judged(s)
    BY DEF Judged
  <2>2. FaithfulAt(s) /\ Once(s)
    BY <2>1, Parts DEF Faithful
  <2>3. Binding(s) => own[s] # Absent /\ \A c \in Live(s) : copy[c].snap[s] # Absent
    <3>1. Binding(s) => Bound(s)
      BY Parts DEF Operations, Rests, Binding
    <3> QED BY <3>1 DEF Binding, Bound
  <2>4. \A d \in Descriptors : Matches(d, s) /\ (Binding(s) => d # Absent) => SameAs(d, s)
    BY DescriptorKinds DEF Matches, SameAs
  <2>5. own[s] \in Descriptors /\ \A c \in Live(s) : copy[c].snap[s] \in Descriptors
    BY TypedSlots, Parts
  <2> QED BY <2>2, <2>3, <2>4, <2>5 DEF FaithfulAt, AtRest
<1>2. ASSUME NEW c \in Copies
      PROVE  copy[c].reading = {}
  <2>1. copy[c].reading \subseteq SlotSet
    BY TypedSlots, Parts
  <2>2. \A s \in SlotSet : s \notin copy[c].reading
    BY Parts DEF Reading
  <2> QED BY <2>1, <2>2
<1> QED BY <1>1, <1>2

(* What fits the twin still does, or it has bound its method. *)
LEMMA StillFaithful ==
  ASSUME Typed, NEW s \in SlotSet, AtRest(s), own'[s] = own[s], Live(s)' \subseteq Live(s),
         \A c \in Copies : /\ copy'[c].snap[s] = copy[c].snap[s]
                           /\ copy'[c].stranded[s] = copy[c].stranded[s],
         \A c \in Pending' : c \in after'[s],
         \A v \in Values : Fits(v, s) => Fits(v, s)',
         plain[s] = Absent => plain'[s] = Absent \/ Binding(s)',
         Bindable(s)' => Bindable(s)
  PROVE  FaithfulAt(s)' /\ Once(s)'
<1>1. Live(s) \subseteq Copies /\ own[s].v \in Values
      /\ \A c \in Copies : copy[c].snap[s].v \in Values /\ copy[c].stranded[s] \in Values \cup {"none"}
  BY TypedSlots, DescriptorKinds
<1>2. Matches(own[s], s)'
  <2>1. SameAs(own[s], s)
    BY DEF AtRest
  <2>2. /\ own'[s].k = "absent" => plain'[s] = Absent \/ Binding(s)'
        /\ own'[s].k \in {"data", "lazy"} => Fits(own[s].v, s)'
    <3>1. own[s].k = "absent" => plain'[s] = Absent \/ Binding(s)'
      BY <2>1 DEF SameAs
    <3>2. own[s].k \in {"data", "lazy"} => Fits(own[s].v, s)'
      <4> PICK v \in Values : v = own[s].v
        BY <1>1
      <4>1. own[s].k \in {"data", "lazy"} => Fits(v, s)'
        BY <2>1 DEF SameAs
      <4>2. v = own'[s].v
        OBVIOUS
      <4> QED BY <4>1, <4>2 DEF Fits
    <3> QED BY <3>1, <3>2
  <2> QED BY <2>2 DEF Matches, Absent
<1>3. ASSUME NEW c \in Live(s)'
      PROVE  /\ Matches(copy[c].snap[s], s)'
             /\ copy'[c].stranded[s] = "none" \/ Fits(copy[c].stranded[s], s)'
             /\ copy'[c].stranded[s] # "none" /\ copy'[c].snap[s] = Absent /\ s \in Methods => ~Bindable(s)'
  <2>1. c \in Live(s) /\ c \in Copies
    BY <1>1
  <2>2. /\ SameAs(copy[c].snap[s], s)
        /\ copy[c].stranded[s] = "none" \/ Fits(copy[c].stranded[s], s)
        /\ copy[c].stranded[s] # "none" /\ copy[c].snap[s] = Absent /\ s \in Methods => ~Bindable(s)
    BY <2>1 DEF AtRest, Once
  <2>3. copy'[c].snap[s] = copy[c].snap[s] /\ copy'[c].stranded[s] = copy[c].stranded[s]
    BY <2>1
  <2>4. Matches(copy[c].snap[s], s)'
    <3> PICK v \in Values : v = copy[c].snap[s].v
      BY <1>1, <2>1
    <3>1. copy[c].snap[s].k \in {"data", "lazy"} => Fits(v, s)'
      BY <2>2 DEF SameAs
    <3>2. v = copy'[c].snap[s].v
      BY <2>3
    <3>3. copy[c].snap[s].k = "absent" => plain'[s] = Absent \/ Binding(s)'
      BY <2>2 DEF SameAs
    <3>4. copy'[c].snap[s].k \in {"data", "lazy"} => Fits(copy[c].snap[s].v, s)'
      BY <2>3, <3>1, <3>2 DEF Fits
    <3> QED BY <2>3, <3>3, <3>4 DEF Matches, Absent
  <2>5. copy'[c].stranded[s] = "none" \/ Fits(copy[c].stranded[s], s)'
    <3>1. CASE copy[c].stranded[s] = "none"
      BY <2>3, <3>1
    <3>2. CASE copy[c].stranded[s] # "none"
      <4> PICK v \in Values : v = copy[c].stranded[s]
        BY <1>1, <2>1, <3>2
      <4>1. Fits(v, s)'
        BY <2>2, <3>2
      <4>2. v = copy'[c].stranded[s]
        BY <2>3
      <4> QED BY <4>1, <4>2 DEF Fits
    <3> QED BY <3>1, <3>2
  <2> QED BY <2>2, <2>3, <2>4, <2>5
<1>4. Once(s)'
  BY <1>3 DEF Once, Absent, Methods
<1>5. FaithfulAt(s)'
  BY <1>2, <1>3 DEF FaithfulAt
<1> QED BY <1>4, <1>5

(* An operation that is done at once. *)
LEMMA DoneAtOnce ==
  ASSUME JitInv, stack = << >>, stack' = << >>, Typed', Fronts',
         \A c \in Copies : copy'[c].reading = {},
         \A s \in SlotSet : FaithfulAt(s)' /\ Once(s)',
         NEW o \in SlotSet, o = op'.s,
         op'.kind = "read" => (plainThrew' <=> plain'[o] = Absent /\ o \in Methods) /\ Bound(o)',
         SlotsArePlain', StrandedStillServe'
  PROVE  JitInv'
<1>1. Reading' /\ Calls' /\ OnTop'
  BY DEF Reading, Calls, OnTop
<1>2. Faithful'
  BY DEF Faithful
<1>3. Deep'
  <2>1. \A c \in Copies : ~(copy'[c].reading # {})
    OBVIOUS
  <2> QED BY <2>1 DEF Deep
<1>4. Operations'
  <2>1. Writes' /\ Builds'
    BY DEF Writes, Builds
  <2>2. (op.kind = "read" => (plainThrew <=> plain[op.s] = Absent /\ op.s \in Methods))'
    BY DEF Absent, Methods
  <2>3. (op.kind = "read" => Bound(op.s))'
    BY DEF Bound, Bindable, Absent, Methods, Live, Chain, Closed
  <2> QED BY <2>1, <2>2, <2>3 DEF Operations, Rests
<1> QED BY <1>1, <1>2, <1>3, <1>4 DEF JitInv

(* An operation that calls. *)
LEMMA CallsFirst ==
  ASSUME JitInv, stack = << >>, NEW z \in Frames, stack' = <<z>>, Typed', Fronts',
         \A c \in Copies : copy'[c].reading = {},
         \A s \in SlotSet : Once(s)' /\ (Judged(s)' => FaithfulAt(s)'),
         Bottom', OnTop', Sound(z)', Operations'
  PROVE  JitInv'
<1>0. Len(stack') = 1 /\ stack'[1] = z /\ stack' # << >>
  OBVIOUS
<1>1. Reading' /\ Calls'
  <2>1. \A i \in 1 .. Len(stack') - 1 : FALSE
    BY <1>0
  <2> QED BY <1>0, <2>1 DEF Reading, Calls
<1>2. Faithful'
  BY DEF Faithful
<1>3. Deep'
  <2>1. \A c \in Copies : ~(copy'[c].reading # {})
    OBVIOUS
  <2>2. \A i \in 1 .. Len(stack') - 1 : FALSE
    BY <1>0
  <2>3. \A i \in 1 .. Len(stack') : Sound(stack[i])'
    <3>1. \A i \in 1 .. Len(stack') : i = 1
      BY <1>0
    <3> QED BY <1>0, <3>1 DEF Sound
  <2> QED BY <2>1, <2>2, <2>3 DEF Deep
<1> QED BY <1>1, <1>2, <1>3 DEF JitInv

(* The target comes to accept less, or code generation is switched. *)
LEMMA LimitKeeps ==
  ASSUME JitInv, NEW kind \in {"limit", "config"}, Limit(kind),
         extensible' \in BOOLEAN, frozen' \in BOOLEAN, jitless' \in BOOLEAN, refused' = refused,
         extensible' => extensible, frozen => frozen', locked \subseteq locked',
         \A s \in locked' : s \in locked \/ (s \in SlotSet /\ own[s].k = "data")
  PROVE  JitInv'
<1>1. /\ stack = << >> /\ stack' = << >> /\ op' = [kind |-> kind, s |-> Slots[1]]
      /\ ops' \in 0 .. MaxOps
      /\ ret' = [threw |-> FALSE, v |-> "undefined"] /\ plainThrew' = FALSE
      /\ own' = own /\ plain' = plain /\ after' = after /\ copy' = copy /\ compilable' = compilable
  <2>1. ops \in 0 .. MaxOps /\ (ops' = ops \/ (ops < MaxOps /\ ops' = ops + 1))
    BY Parts DEF Typed, Limit, Begin
  <2>2. ops' \in 0 .. MaxOps
    BY <2>1, BoundsAssumption
  <2> QED BY <2>2 DEF Limit, Begin
<1>2. /\ \A s \in SlotSet : AtRest(s)
      /\ \A c \in Copies : copy'[c].reading = {}
  BY <1>1, Resting
<1>3. Typed'
  <2>1. op' \in [kind : Kinds, s : SlotSet] /\ ret' \in [threw : BOOLEAN, v : Values]
    BY <1>1, SlotsAre, MakersAre DEF Kinds
  <2>2. locked' \subseteq SlotSet
    BY Parts DEF Typed
  <2> QED BY <1>1, <2>1, <2>2, Parts DEF Typed, Plainly
<1>4. (\A s \in SlotSet : Live(s)' = Live(s)) /\ Pending' = Pending
  BY <1>1, LiveKept, Parts DEF Pending
<1>5. Fronts'
  <2>1. Unseen' /\ Layered'
    BY <1>1, Parts DEF Fronts, Unseen, Layered, Pending, Acc
  <2>2. Fronting'
    BY <1>1, <1>4, Parts DEF Fronts, Fronting
  <2>3. Spent'
    BY <1>1, Parts DEF Fronts, Spent, Pending, Acc
  <2> QED BY <2>1, <2>2, <2>3 DEF Fronts
<1>6. ASSUME NEW s \in SlotSet
      PROVE  FaithfulAt(s)' /\ Once(s)'
  <2>1. \A v \in Values : Fits(v, s) => Fits(v, s)'
    BY <1>1 DEF Fits, PlainValue, Absent, Methods
  <2>2. Bindable(s)' => Bindable(s)
    BY DEF Bindable
  <2>3. \A c \in Pending' : c \in after'[s]
    BY <1>1, <1>2, <1>4 DEF AtRest
  <2> QED BY <1>1, <1>2, <1>4, <2>1, <2>2, <2>3, StillFaithful, Parts
<1>7. SlotsArePlain' /\ StrandedStillServe'
  <2>1. op'.kind = "limit" \/ op'.kind = "config"
    BY <1>1
  <2> QED BY <2>1 DEF SlotsArePlain, ReadIsPlain, WriteIsPlain, JitDoesNotThrow, StrandedStillServe
<1> QED BY <1>1, <1>2, <1>3, <1>5, <1>6, <1>7, SlotsAre, DoneAtOnce

(* Freezing, preventing extensions, locking and switching. *)
LEMMA LimitsKeep ==
  ASSUME JitInv, Freeze \/ PreventExtensions \/ ToggleJitless \/ \E s \in SlotSet : Lock(s)
  PROVE  JitInv'
<1> DEFINE l == "limit"
           g == "config"
<1>0. l \in {"limit", "config"} /\ g \in {"limit", "config"}
  OBVIOUS
<1>1. extensible \in BOOLEAN /\ frozen \in BOOLEAN /\ jitless \in BOOLEAN
  BY Parts DEF Typed
<1>2. CASE Freeze
  <2>1. Limit(l) /\ frozen' = TRUE /\ extensible' = FALSE /\ locked' = locked /\ refused' = refused /\ jitless' = jitless
    BY <1>2 DEF Freeze
  <2> HIDE DEF l
  <2> QED BY <1>0, <1>1, <2>1, LimitKeeps
<1>3. CASE PreventExtensions
  <2>1. Limit(l) /\ frozen' = frozen /\ extensible' = FALSE /\ locked' = locked /\ refused' = refused /\ jitless' = jitless
    BY <1>3 DEF PreventExtensions
  <2> HIDE DEF l
  <2> QED BY <1>0, <1>1, <2>1, LimitKeeps
<1>4. CASE ToggleJitless
  <2>1. Limit(g) /\ frozen' = frozen /\ extensible' = extensible /\ locked' = locked /\ refused' = refused
        /\ jitless' = ~jitless
    BY <1>4 DEF ToggleJitless
  <2>2. jitless' \in BOOLEAN
    BY <2>1
  <2> HIDE DEF g
  <2> QED BY <1>0, <1>1, <2>1, <2>2, LimitKeeps
<1>5. ASSUME NEW s \in SlotSet, Lock(s)
      PROVE  JitInv'
  <2>1. Limit(l) /\ frozen' = frozen /\ extensible' = extensible /\ refused' = refused /\ jitless' = jitless
        /\ own[s].k = "data" /\ locked' = locked \cup {s}
    BY <1>5 DEF Lock
  <2>2. /\ locked \subseteq locked'
        /\ \A t \in locked' : t \in locked \/ (t \in SlotSet /\ own[t].k = "data")
    BY <2>1
  <2> HIDE DEF l
  <2> QED BY <1>0, <1>1, <2>1, <2>2, LimitKeeps
<1> QED BY <1>2, <1>3, <1>4, <1>5

(* A build's module installs its validator. *)
LEMMA AotKeeps ==
  ASSUME JitInv, AotInstall
  PROVE  JitInv'
<1> DEFINE u == MkvFrame("aot")
<1>1. /\ stack = << >> /\ stack' = <<u>> /\ op' = [kind |-> "aot", s |-> Slots[1]]
      /\ ops' \in 0 .. MaxOps
      /\ ret' = [threw |-> FALSE, v |-> "undefined"] /\ plainThrew' = FALSE
      /\ own' = own /\ copy' = copy /\ UNCHANGED <<extensible, frozen, locked, refused, jitless, compilable>>
      /\ extensible /\ ~frozen /\ locked = {} /\ refused = {}
      /\ plain' = [s \in SlotSet |-> Data("aot", s # "~standard" \/ plain[s].w)]
      /\ after' = [s \in SlotSet |-> {}]
  <2>1. ops \in 0 .. MaxOps /\ ops < MaxOps /\ ops' = ops + 1
    BY Parts DEF Typed, AotInstall, Begin
  <2>2. ops' \in 0 .. MaxOps
    BY <2>1, BoundsAssumption
  <2> QED BY <2>2 DEF AotInstall, Begin, target
<1>2. /\ \A s \in SlotSet : AtRest(s)
      /\ \A c \in Copies : copy'[c].reading = {}
  BY <1>1, Resting
<1>3. u \in Frames /\ u.f = "mkv" /\ u.by = "aot" /\ u.pc = 1
  <2> DEFINE a == "aot"
  <2>1. a \in Copies \cup {"aot"}
    OBVIOUS
  <2>2. MkvFrame(a) \in Frames /\ MkvFrame(a).f = "mkv" /\ MkvFrame(a).by = a /\ MkvFrame(a).pc = 1
    <3> HIDE DEF a
    <3> QED BY <2>1, FramesBegin
  <2> QED BY <2>2
<1> PICK z \in Frames : z = u
  BY <1>3
<1> HIDE DEF u
<1>4. \A s \in SlotSet : /\ plain'[s] \in Descriptors /\ plain'[s].k = "data" /\ plain'[s].v = "aot"
                         /\ Plainly(plain'[s], s)
  <2> SUFFICES ASSUME NEW s \in SlotSet
               PROVE  /\ plain'[s] \in Descriptors /\ plain'[s].k = "data" /\ plain'[s].v = "aot"
                      /\ Plainly(plain'[s], s)
    OBVIOUS
  <2> DEFINE a == "aot"
             w == (s # "~standard" \/ plain[s].w)
  <2>1. a \in Makers /\ w \in BOOLEAN /\ plain'[s] = Data(a, w) /\ (s # "~standard" => w)
    <3>1. plain[s].w \in BOOLEAN
      BY TypedSlots, DescriptorKinds, Parts
    <3> QED BY <1>1, <3>1, MakersAre
  <2>2. plain'[s] \in Descriptors /\ plain'[s].k = "data" /\ plain'[s].v = a /\ plain'[s].w = w
    <3> HIDE DEF a, w
    <3> QED BY <2>1, DescriptorFields
  <2> QED BY <2>1, <2>2 DEF Plainly
<1>5. Typed'
  <2>1. op' \in [kind : Kinds, s : SlotSet] /\ ret' \in [threw : BOOLEAN, v : Values]
    BY <1>1, SlotsAre, MakersAre DEF Kinds
  <2>2. stack' \in Seq(Frames)
    BY <1>1
  <2>3. plain' \in [SlotSet -> Descriptors] /\ \A s \in SlotSet : plain'[s].k # "acc"
    BY <1>1, <1>4
  <2>4. after' \in [SlotSet -> SUBSET (Copies \cup {"user"})]
    BY <1>1
  <2>5. own' = own /\ copy' = copy /\ ops' \in 0 .. MaxOps /\ plainThrew' \in BOOLEAN
        /\ UNCHANGED <<extensible, frozen, locked, refused, jitless, compilable>>
    BY <1>1
  <2>6. \A s \in SlotSet : Plainly(own[s], s) /\ \A c \in Copies : Plainly(copy[c].snap[s], s)
    BY Parts DEF Typed
  <2>7. \A s \in SlotSet : /\ Plainly(own[s], s)' /\ Plainly(plain[s], s)' /\ plain'[s].k # "acc"
                           /\ \A c \in Copies : Plainly(copy[c].snap[s], s)'
    BY <1>4, <2>3, <2>5, <2>6 DEF Plainly
  <2>8. /\ own \in [SlotSet -> Descriptors]
        /\ copy \in [Copies -> [seen : BOOLEAN, pending : BOOLEAN, snap : [SlotSet -> Descriptors],
                          reading : SUBSET SlotSet,
                          stranded : [SlotSet -> Values \cup {"none"}]]]
        /\ extensible \in BOOLEAN /\ frozen \in BOOLEAN /\ jitless \in BOOLEAN /\ compilable \in BOOLEAN
        /\ locked \subseteq SlotSet /\ refused \subseteq {"data", "accessor", "delete"}
    BY Parts DEF Typed
  <2> QED BY <2>1, <2>2, <2>3, <2>4, <2>5, <2>7, <2>8 DEF Typed
<1>6. Fronts' /\ \A s \in SlotSet : Live(s)' = Live(s)
  BY <1>1, FrontsKept, Parts
<1>7. \A s \in SlotSet : Once(s)' /\ ~Judged(s)'
  <2> SUFFICES ASSUME NEW s \in SlotSet
               PROVE  Once(s)' /\ ~Judged(s)'
    OBVIOUS
  <2>1. ~Judged(s)'
    BY <1>1 DEF Judged
  <2>2. Once(s)
    BY <1>2 DEF AtRest
  <2> QED BY <1>1, <1>6, <2>1, <2>2 DEF Once, Bindable, Absent, Methods
<1>8. Len(stack') = 1 /\ stack'[1] = z /\ stack' # << >> /\ op'.kind = "aot" /\ ~ret'.threw
  BY <1>1
<1>9. Bottom' /\ OnTop' /\ Sound(z)'
  <2>1. Bottom'
    BY <1>3, <1>8 DEF Bottom
  <2>2. OnTop'
    BY <1>3, <1>8, MkvTopAfter
  <2>3. "aot" \notin Copies
    BY MakersAre
  <2> QED BY <1>3, <2>1, <2>2, <2>3 DEF Sound
<1>10. Operations'
  <2>1. Builds'
    <3>1. \A s \in SlotSet : ~(stack'[1].pc > Pos(s))
      BY <1>3, <1>8, PosIs
    <3>2. ~(stack'[1].pc >= 4)
      BY <1>3, <1>8
    <3>3. extensible' /\ ~frozen' /\ locked' = {} /\ refused' = {}
      BY <1>1
    <3> QED BY <1>4, <3>1, <3>2, <3>3 DEF Builds, Pos
  <2> QED BY <1>8, <2>1 DEF Operations, Writes, Rests
<1> QED BY <1>1, <1>2, <1>5, <1>6, <1>7, <1>9, <1>10, CallsFirst

-----------------------------------------------------------------------------
(* jit() *)

(* A copy that is not on a chain makes no difference to it ... *)
LEMMA ChainWithin ==
  ASSUME NEW cp, NEW cq, NEW d, NEW s, NEW c, c \notin Chain(cp, d, s),
         \A x \in Copies : x # c => cq[x].snap[s] = cp[x].snap[s],
         d.k = "acc" => d.v \in Copies,
         \A x \in Copies : cp[x].snap[s].k = "acc" => cp[x].snap[s].v \in Copies
  PROVE  Chain(cq, d, s) \subseteq Chain(cp, d, s)
<1> DEFINE R == Chain(cp, d, s)
<1>1. R \in SUBSET Copies /\ c \notin R
  BY DEF Chain
<1>2. d.k = "acc" => d.v \in R
  BY ChainHead
<1>3. \A x \in R : cp[x].snap[s].k = "acc" => cp[x].snap[s].v \in R
  BY <1>1, ChainStep
<1> HIDE DEF R
<1>4. Closed(cq, d, s, R)
  BY <1>1, <1>2, <1>3 DEF Closed
<1>5. Chain(cq, d, s) \subseteq R
  BY <1>1, <1>4, ChainLeast
<1> QED BY <1>5 DEF R

(* ... whatever it comes to hold. *)
LEMMA ChainWithout ==
  ASSUME NEW cp, NEW cq, NEW d, NEW s, NEW c, c \notin Chain(cp, d, s),
         \A x \in Copies : x # c => cq[x].snap[s] = cp[x].snap[s],
         d.k = "acc" => d.v \in Copies,
         \A x \in Copies : /\ cp[x].snap[s].k = "acc" => cp[x].snap[s].v \in Copies
                           /\ cq[x].snap[s].k = "acc" => cq[x].snap[s].v \in Copies
  PROVE  Chain(cq, d, s) = Chain(cp, d, s)
<1>1. Chain(cq, d, s) \subseteq Chain(cp, d, s)
  BY ChainWithin
<1>2. c \notin Chain(cq, d, s)
  BY <1>1
<1>3. Chain(cp, d, s) \subseteq Chain(cq, d, s)
  BY <1>2, ChainWithin
<1> QED BY <1>1, <1>3

(* A copy that has not been handed the schema is on no chain. *)
LEMMA UnseenIsNowhere ==
  ASSUME Typed, Unseen, NEW c \in Copies, ~copy[c].seen, NEW s \in SlotSet
  PROVE  c \notin Live(s)
<1> DEFINE R == Copies \ {c}
<1>1. /\ own[s].k = "acc" => own[s].v \in Copies /\ own[s] = Acc(own[s].v)
      /\ \A x \in Copies : copy[x].snap[s].k = "acc" =>
           copy[x].snap[s].v \in Copies /\ copy[x].snap[s] = Acc(copy[x].snap[s].v)
  BY TypedSlots, DescriptorKinds
<1>2. own[s] # Acc(c) /\ \A x \in Copies : copy[x].snap[s] # Acc(c)
  BY DEF Unseen
<1>3. R \in SUBSET Copies /\ Closed(copy, own[s], s, R)
  BY <1>1, <1>2 DEF Closed
<1> HIDE DEF R
<1>4. Live(s) \subseteq R
  BY <1>3, ChainLeast DEF Live
<1> QED BY <1>4 DEF R

(* What jit() makes of a slot: an accessor, or what it was. An accessor that *)
(* could not be taken back is not in front of another.                       *)
LEMMA JitSlot ==
  ASSUME JitInv, NEW c \in Copies, Jit(c), NEW s \in SlotSet
  PROVE  /\ own'[s] = own[s] \/ own'[s] = Acc(c)
         /\ own'[s] = Acc(c) =>
              /\ ~frozen /\ s \notin locked /\ "accessor" \notin refused
              /\ Fronted(Len(Slots)) \/ (own[s].k # "acc" /\ refused # {})
         /\ Fronted(Len(Slots)) => own'[s] = Acc(c)
<1> DEFINE I == Installed(c)
<1>1. own[s] # Acc(c)
  BY Parts DEF Jit, Fronts, Unseen
<1>2. Acc(c) # Absent
  BY DEF Acc, Absent
<1>3. PICK i \in DOMAIN Slots : Slots[i] = s
  BY SlotsAre
<1>4. i \in 1 .. Len(Slots) /\ Len(Slots) \in Nat
  BY <1>3, SlotsAre
<1>5. /\ I[s] = own[s] \/ I[s] = Acc(c)
      /\ I[s] = Acc(c) => \E j \in DOMAIN Slots : Slots[j] = s /\ Fronted(j)
      /\ Fronted(i) => I[s] = Acc(c)
  BY <1>1, <1>3 DEF Installed
<1>6. I[s] = Acc(c) => Accepts("accessor", s, own)
  <2> SUFFICES ASSUME I[s] = Acc(c) PROVE Accepts("accessor", s, own)
    OBVIOUS
  <2>1. PICK j \in DOMAIN Slots : Slots[j] = s /\ Fronted(j)
    BY <1>5
  <2>2. j \in 1 .. j
    BY <2>1, SlotsAre
  <2> QED BY <2>1, <2>2 DEF Fronted
<1>7. I[s] = Acc(c) => ~frozen /\ s \notin locked /\ "accessor" \notin refused
  BY <1>6 DEF Accepts
<1>8. Fronted(Len(Slots)) => Fronted(i)
  BY <1>4 DEF Fronted
<1> HIDE DEF I
<1>9. CASE Fronted(Len(Slots))
  <2>1. own' = I
    BY <1>9 DEF Jit, I
  <2> QED BY <1>5, <1>7, <1>8, <1>9, <2>1
<1>10. CASE ~Fronted(Len(Slots))
  <2>1. own' = Restored(own, I)
    BY <1>10 DEF Jit, I
  <2>2. own'[s] = CASE own[s] = Absent /\ MayDelete(s)                   -> Absent
                    [] own[s] # Absent /\ Accepts(KindOf(own[s]), s, I) -> own[s]
                    [] OTHER                                            -> I[s]
    BY <2>1 DEF Restored
  <2>3. own'[s] = own[s] \/ own'[s] = I[s]
    BY <2>2
  <2>4. ASSUME own'[s] = Acc(c)
        PROVE  own[s].k # "acc" /\ refused # {}
    <3>1. I[s] = Acc(c)
      BY <1>1, <2>3, <2>4
    <3>2. ~(own[s] = Absent /\ MayDelete(s))
      BY <1>2, <2>2, <2>4
    <3>3. ~(own[s] # Absent /\ Accepts(KindOf(own[s]), s, I))
      BY <1>1, <2>2, <2>4, <3>2
    <3>4. CASE own[s] = Absent
      BY <1>7, <3>1, <3>2, <3>4 DEF MayDelete, Absent
    <3>5. CASE own[s] # Absent
      BY <1>2, <1>7, <3>1, <3>3, <3>5 DEF Accepts, KindOf
    <3> QED BY <3>4, <3>5
  <2> QED BY <1>1, <1>5, <1>7, <1>10, <2>3, <2>4
<1> QED BY <1>9, <1>10

(* What the copy comes to keep. *)
LEMMA JitCopy ==
  ASSUME JitInv, NEW c \in Copies, Jit(c)
  PROVE  /\ copy' \in [Copies -> [seen : BOOLEAN, pending : BOOLEAN, snap : [SlotSet -> Descriptors],
                          reading : SUBSET SlotSet,
                          stranded : [SlotSet -> Values \cup {"none"}]]]
         /\ copy'[c].seen /\ copy'[c].snap = own /\ copy'[c].reading = {}
         /\ (copy'[c].pending <=> Fronted(Len(Slots)))
         /\ \A s \in SlotSet : copy'[c].stranded[s] = "none"
         /\ \A d \in Copies : d # c => copy'[d] = copy[d]
<1> DEFINE none == [s \in SlotSet |-> "none"]
           a    == [s \in SlotSet |-> Absent]
           p    == Fronted(Len(Slots))
           q    == [Fresh EXCEPT !.seen = TRUE, !.snap = own]
           k    == [copy EXCEPT ![c] = q]
           K    == [seen : BOOLEAN, pending : BOOLEAN, snap : [SlotSet -> Descriptors],
                    reading : SUBSET SlotSet, stranded : [SlotSet -> Values \cup {"none"}]]
<1>1. /\ none \in [SlotSet -> Values \cup {"none"}] /\ \A s \in SlotSet : none[s] = "none"
      /\ a \in [SlotSet -> Descriptors]
  BY DescriptorFields
<1>2. p \in BOOLEAN
  BY DEF Fronted
<1>3. copy \in [Copies -> K] /\ own \in [SlotSet -> Descriptors]
  BY Parts DEF Typed
<1>4. q \in K /\ q.seen /\ q.snap = own /\ q.reading = {} /\ ~q.pending /\ q.stranded = none
  <2>1. Fresh = [seen |-> FALSE, pending |-> FALSE, snap |-> a, reading |-> {}, stranded |-> none]
    BY DEF Fresh
  <2> HIDE DEF a, none
  <2> QED BY <1>1, <1>3, <2>1
<1>5. [q EXCEPT !.pending = TRUE] \in K /\ [q EXCEPT !.pending = TRUE].seen
      /\ [q EXCEPT !.pending = TRUE].snap = own /\ [q EXCEPT !.pending = TRUE].reading = {}
      /\ [q EXCEPT !.pending = TRUE].pending /\ [q EXCEPT !.pending = TRUE].stranded = none
  <2> HIDE DEF q, none
  <2> QED BY <1>4
<1>6. PICK r \in K : /\ copy' = [copy EXCEPT ![c] = r]
                     /\ r.seen /\ r.snap = own /\ r.reading = {} /\ (r.pending <=> p) /\ r.stranded = none
  <2>1. Snapshot(c) = k
    BY DEF Snapshot
  <2>2. DOMAIN copy = Copies
    BY <1>3
  <2>3. CASE p
    <3>1. copy' = [Snapshot(c) EXCEPT ![c].pending = TRUE]
      BY <2>3 DEF Jit
    <3> HIDE DEF q, p, none, K
    <3>2. copy' = [copy EXCEPT ![c] = [q EXCEPT !.pending = TRUE]]
      <4>1. k[c] = q
        BY <2>2
      <4>2. [k EXCEPT ![c].pending = TRUE] = [copy EXCEPT ![c] = [q EXCEPT !.pending = TRUE]]
        BY <2>2, <4>1
      <4> HIDE DEF k
      <4> QED BY <2>1, <3>1, <4>2
    <3> QED BY <1>5, <2>3, <3>2
  <2>4. CASE ~p
    <3>1. copy' = k
      BY <2>1, <2>4 DEF Jit
    <3> HIDE DEF q, p, none, K
    <3> QED BY <1>4, <2>4, <3>1
  <2> QED BY <2>3, <2>4
<1> HIDE DEF K, none
<1>7. copy' \in [Copies -> K] /\ copy'[c] = r /\ \A d \in Copies : d # c => copy'[d] = copy[d]
  BY <1>3, <1>6
<1>8. \A s \in SlotSet : copy'[c].stranded[s] = "none"
  BY <1>1, <1>6, <1>7
<1> QED BY <1>6, <1>7, <1>8 DEF K

(* The copy is now the first of every chain it could be put in front of. *)
LEMMA JitFronts ==
  ASSUME JitInv, NEW c \in Copies, Jit(c)
  PROVE  /\ Fronts' /\ Pending' \subseteq Pending \cup {c}
         /\ \A s \in SlotSet : Live(s)' \subseteq Live(s) \cup {c}
<1>1. /\ Typed /\ Fronts /\ ~copy[c].seen /\ UNCHANGED <<frozen, locked, refused>>
      /\ c \notin Pending
  BY Parts DEF Jit, Fronts, Unseen, Pending
<1>2. \A s \in SlotSet : /\ own[s] \in Descriptors /\ Live(s) \subseteq Copies /\ c \notin Live(s)
                         /\ own[s] # Acc(c) /\ \A b \in Copies : copy[b].snap[s] # Acc(c)
  BY <1>1, TypedSlots, UnseenIsNowhere DEF Fronts, Unseen
<1>3. \A s \in SlotSet : /\ own'[s] = own[s] \/ own'[s] = Acc(c)
                         /\ own'[s] = Acc(c) =>
                              /\ ~frozen /\ s \notin locked /\ "accessor" \notin refused
                              /\ copy'[c].pending \/ (own[s].k # "acc" /\ refused # {})
                         /\ copy'[c].pending => own'[s] = Acc(c)
  BY JitSlot, JitCopy
<1>4. /\ copy'[c].seen /\ \A s \in SlotSet : copy'[c].snap[s] = own[s]
      /\ \A d \in Copies : d # c => copy'[d] = copy[d]
  BY JitCopy
<1>5. /\ Pending' \subseteq Copies /\ \A d \in Copies : d # c => (d \in Pending' <=> d \in Pending)
      /\ c \in Pending' <=> copy'[c].pending
  BY <1>4 DEF Pending
<1>6. \A d \in Copies : d # c => Acc(d) # Acc(c)
  BY DEF Acc
<1>7. ASSUME NEW s \in SlotSet
      PROVE  /\ Live(s)' \subseteq Live(s) \cup {c} /\ Live(s) \subseteq Live(s)'
             /\ own'[s] = Acc(c) => c \in Live(s)'
  <2>1. Live(s)' = Chain(copy', own'[s], s)
    BY DEF Live, Chain, Closed
  <2>2. /\ own[s].k = "acc" => own[s].v \in Copies
        /\ \A x \in Copies : /\ copy[x].snap[s].k = "acc" => copy[x].snap[s].v \in Copies
                             /\ copy'[x].snap[s].k = "acc" => copy'[x].snap[s].v \in Copies
    <3>1. \A d \in Descriptors : d.k = "acc" => d.v \in Copies
      BY DescriptorKinds
    <3>2. \A x \in Copies : copy[x].snap[s] \in Descriptors
      BY <1>1, TypedSlots
    <3>3. \A x \in Copies : copy'[x].snap[s] \in Descriptors
      BY <1>2, <1>4, <3>2
    <3> QED BY <1>2, <3>1, <3>2, <3>3
  <2>3. Chain(copy', own[s], s) = Live(s)
    <3>1. Live(s) = Chain(copy, own[s], s)
      BY DEF Live
    <3> DEFINE d == own[s]
    <3>2. c \notin Chain(copy, d, s) /\ (d.k = "acc" => d.v \in Copies)
      BY <1>2, <2>2, <3>1
    <3>3. \A x \in Copies : x # c => copy'[x].snap[s] = copy[x].snap[s]
      BY <1>4
    <3> HIDE DEF d
    <3>4. Chain(copy', d, s) = Chain(copy, d, s)
      BY <2>2, <3>2, <3>3, ChainWithout
    <3> QED BY <3>1, <3>4 DEF d
  <2>4. CASE own'[s] = own[s]
    BY <1>2, <2>1, <2>3, <2>4
  <2>5. CASE own'[s] = Acc(c)
    <3> DEFINE d == Acc(c)
    <3>1. d.k = "acc" /\ d.v = c
      BY DescriptorFields
    <3> HIDE DEF d
    <3>2. c \in Chain(copy', d, s) /\ Chain(copy', d, s) \subseteq {c} \cup Chain(copy', copy'[c].snap[s], s)
      BY <2>2, <3>1, ChainHead, ChainRest
    <3>3. Chain(copy', copy'[c].snap[s], s) \subseteq Chain(copy', d, s)
      BY <3>2, ChainOf
    <3>4. Chain(copy', copy'[c].snap[s], s) = Live(s)
      BY <1>4, <2>3
    <3>5. Live(s)' = Chain(copy', d, s)
      BY <2>1, <2>5 DEF d
    <3> QED BY <3>2, <3>3, <3>4, <3>5
  <2> QED BY <1>3, <2>4, <2>5
<1>8. Unseen'
  <2> SUFFICES ASSUME NEW d \in Copies, ~copy'[d].seen
               PROVE  /\ ~copy'[d].pending
                      /\ \A s \in SlotSet : own'[s] # Acc(d) /\ \A b \in Copies : copy'[b].snap[s] # Acc(d)
    BY DEF Unseen, Acc
  <2>1. d # c /\ ~copy[d].seen /\ copy'[d] = copy[d]
    BY <1>4
  <2>2. /\ ~copy[d].pending
        /\ \A s \in SlotSet : own[s] # Acc(d) /\ \A b \in Copies : copy[b].snap[s] # Acc(d)
    BY <1>1, <2>1 DEF Fronts, Unseen
  <2> QED BY <1>3, <1>4, <1>6, <2>1, <2>2
<1>9. Fronting'
  <2> SUFFICES ASSUME NEW s \in SlotSet
               PROVE  /\ own'[s].k = "acc" => s \notin locked' /\ "accessor" \notin refused'
                      /\ Pending' \subseteq Live(s)'
    BY DEF Fronting
  <2>1. own[s].k = "acc" => s \notin locked /\ "accessor" \notin refused
    BY <1>1 DEF Fronts, Fronting
  <2>2. Pending \subseteq Live(s)
    BY <1>1 DEF Fronts, Fronting
  <2>3. Pending' \subseteq Live(s)'
    BY <1>3, <1>5, <1>7, <2>2
  <2> QED BY <1>1, <1>3, <2>1, <2>3
<1>10. Layered'
  <2>1. \A d \in Copies, s \in SlotSet : copy'[d].snap[s] # Acc(d)
    BY <1>1, <1>2, <1>4 DEF Fronts, Layered
  <2>2. ASSUME NEW b \in Pending', NEW d \in Copies, NEW s \in SlotSet, NEW t \in SlotSet,
               copy'[b].snap[s] = Acc(d)
        PROVE  own'[t] # Acc(d) /\ \A a \in Pending' \ {b} : copy'[a].snap[t] # Acc(d)
    <3>1. d # c
      BY <1>2, <1>4, <1>5, <2>2
    <3>2. CASE b = c
      <4>1. own[s] = Acc(d) /\ own'[t] = Acc(c)
        BY <1>3, <1>4, <1>5, <2>2, <3>2
      <4>2. ASSUME NEW a \in Pending' \ {b}
            PROVE  copy'[a].snap[t] # Acc(d)
        <5>1. a \in Pending /\ a \in Copies /\ copy'[a] = copy[a]
          BY <1>4, <1>5, <3>2
        <5> QED BY <1>1, <4>1, <5>1 DEF Fronts, Layered
      <4> QED BY <1>6, <3>1, <4>1, <4>2
    <3>3. CASE b # c
      <4>1. b \in Pending /\ b \in Copies /\ copy[b].snap[s] = Acc(d)
        BY <1>4, <1>5, <2>2, <3>3
      <4>2. /\ \A x \in SlotSet : own[x] # Acc(d)
            /\ \A a \in Pending \ {b}, x \in SlotSet : copy[a].snap[x] # Acc(d)
        BY <1>1, <4>1 DEF Fronts, Layered
      <4>3. ASSUME NEW a \in Pending' \ {b}
            PROVE  copy'[a].snap[t] # Acc(d)
        BY <1>4, <1>5, <4>2
      <4> QED BY <1>3, <1>6, <3>1, <4>2, <4>3
    <3> QED BY <3>2, <3>3
  <2> QED BY <2>1, <2>2 DEF Layered, Acc
<1>11. Spent'
  <2> SUFFICES ASSUME ~frozen, NEW d \in Copies, NEW s \in SlotSet, ~copy'[d].pending,
                      own'[s] = Acc(d) \/ \E b \in Pending' : copy'[b].snap[s] = Acc(d)
               PROVE  copy'[d].snap[s].k # "acc" /\ refused # {}
    BY <1>1 DEF Spent, Acc
  <2>1. CASE d = c
    <3>1. own'[s] = Acc(c)
      BY <1>2, <1>4, <1>5, <2>1
    <3> QED BY <1>3, <1>4, <2>1, <3>1
  <2>2. CASE d # c
    <3>1. own[s] = Acc(d) \/ \E b \in Pending : copy[b].snap[s] = Acc(d)
      BY <1>3, <1>4, <1>5, <1>6, <2>2
    <3>2. ~copy[d].pending /\ copy'[d] = copy[d]
      BY <1>4, <2>2
    <3> QED BY <1>1, <3>1, <3>2 DEF Fronts, Spent
  <2> QED BY <2>1, <2>2
<1> QED BY <1>5, <1>7, <1>8, <1>9, <1>10, <1>11 DEF Fronts

(* What a descriptor held fits the twin still. *)
LEMMA StaysFit ==
  ASSUME NEW s \in SlotSet, NEW d \in Descriptors, SameAs(d, s),
         \A v \in Values : Fits(v, s) => Fits(v, s)',
         plain[s] = Absent => plain'[s] = Absent \/ Binding(s)'
  PROVE  Matches(d, s)'
<1> PICK v \in Values : v = d.v
  BY DescriptorKinds
<1>1. d.k \in {"data", "lazy"} => Fits(v, s)'
  BY DEF SameAs
<1>2. d.k \in {"data", "lazy"} => Fits(d.v, s)'
  BY <1>1 DEF Fits
<1>3. d.k = "absent" => plain'[s] = Absent \/ Binding(s)'
  BY DEF SameAs
<1> QED BY <1>2, <1>3 DEF Matches, Absent

(* A copy of jit() is given the schema. *)
LEMMA JitKeeps ==
  ASSUME JitInv, NEW c \in Copies, Jit(c)
  PROVE  JitInv'
<1>1. /\ stack = << >> /\ stack' = << >> /\ op' = [kind |-> "jit", s |-> Slots[1]] /\ ops' = ops
      /\ ret' = [threw |-> FALSE, v |-> "undefined"] /\ plainThrew' = FALSE
      /\ UNCHANGED <<plain, extensible, frozen, locked, refused, jitless, compilable>>
      /\ after' = [s \in SlotSet |-> after[s] \cup {c}] /\ Typed
  BY Parts DEF Jit, Begin
<1>2. /\ \A s \in SlotSet : AtRest(s)
      /\ \A d \in Copies : copy[d].reading = {}
  BY <1>1, Resting
<1>3. /\ copy' \in [Copies -> [seen : BOOLEAN, pending : BOOLEAN, snap : [SlotSet -> Descriptors],
                          reading : SUBSET SlotSet,
                          stranded : [SlotSet -> Values \cup {"none"}]]]
      /\ copy'[c].snap = own /\ copy'[c].reading = {}
      /\ \A s \in SlotSet : copy'[c].stranded[s] = "none"
      /\ \A d \in Copies : d # c => copy'[d] = copy[d]
  BY JitCopy
<1>4. \A d \in Copies : copy'[d].reading = {}
  BY <1>2, <1>3
<1>5. own' \in [SlotSet -> Descriptors] /\ \A s \in SlotSet : own'[s] = own[s] \/ own'[s] = Acc(c)
  <2>1. \A s \in SlotSet : own'[s] = own[s] \/ own'[s] = Acc(c)
    BY JitSlot
  <2>2. \A s \in SlotSet : own[s] \in Descriptors /\ Acc(c) \in Descriptors
    BY <1>1, TypedSlots, DescriptorFields
  <2>3. DOMAIN own' = SlotSet /\ own' = [s \in SlotSet |-> own'[s]]
    BY DEF Jit, Installed, Restored
  <2> QED BY <2>1, <2>2, <2>3
<1>6. Typed'
  <2>1. op' \in [kind : Kinds, s : SlotSet] /\ ret' \in [threw : BOOLEAN, v : Values]
    BY <1>1, SlotsAre, MakersAre DEF Kinds
  <2>2. stack' \in Seq(Frames) /\ plainThrew' \in BOOLEAN
    <3>1. stack' = stack /\ plainThrew' = FALSE /\ stack \in Seq(Frames)
      BY <1>1 DEF Typed
    <3> QED BY <3>1
  <2>3. after' \in [SlotSet -> SUBSET (Copies \cup {"user"})]
    BY <1>1 DEF Typed
  <2>4. \A s \in SlotSet : /\ Plainly(own[s], s)' /\ Plainly(plain[s], s)' /\ plain'[s].k # "acc"
                           /\ \A d \in Copies : Plainly(copy[d].snap[s], s)'
    <3>1. \A s \in SlotSet : /\ Plainly(own[s], s) /\ Plainly(plain[s], s) /\ plain[s].k # "acc"
                             /\ Plainly(Acc(c), s)
                             /\ \A d \in Copies : Plainly(copy[d].snap[s], s)
      BY <1>1, DescriptorFields DEF Typed, Plainly
    <3>2. \A s \in SlotSet : /\ Plainly(own'[s], s) /\ Plainly(plain'[s], s) /\ plain'[s].k # "acc"
                             /\ \A d \in Copies : Plainly(copy'[d].snap[s], s)
      BY <1>1, <1>3, <1>5, <3>1
    <3> QED BY <3>2 DEF Plainly
  <2>5. /\ plain' \in [SlotSet -> Descriptors] /\ ops' \in 0 .. MaxOps
        /\ extensible' \in BOOLEAN /\ frozen' \in BOOLEAN /\ jitless' \in BOOLEAN /\ compilable' \in BOOLEAN
        /\ locked' \subseteq SlotSet /\ refused' \subseteq {"data", "accessor", "delete"}
    BY <1>1 DEF Typed
  <2> QED BY <1>3, <1>5, <2>1, <2>2, <2>3, <2>4, <2>5 DEF Typed
<1>7. /\ Fronts' /\ Pending' \subseteq Pending \cup {c}
      /\ \A s \in SlotSet : Live(s)' \subseteq Live(s) \cup {c}
  BY JitFronts
<1>8. ASSUME NEW s \in SlotSet
      PROVE  FaithfulAt(s)' /\ Once(s)'
  <2>1. \A v \in Values : Fits(v, s) => Fits(v, s)'
    BY <1>1 DEF Fits, PlainValue, Absent, Methods
  <2>2. \A d \in Descriptors : SameAs(d, s) => Matches(d, s)'
    BY <1>1, <2>1, StaysFit
  <2>3. /\ SameAs(own[s], s) /\ own[s] \in Descriptors /\ Live(s) \subseteq Copies
        /\ \A d \in Live(s) : /\ SameAs(copy[d].snap[s], s)
                              /\ copy[d].snap[s] \in Descriptors
                              /\ copy[d].stranded[s] \in Values \cup {"none"}
                              /\ copy[d].stranded[s] = "none" \/ Fits(copy[d].stranded[s], s)
                              /\ copy[d].stranded[s] # "none" /\ copy[d].snap[s] = Absent /\ s \in Methods
                                   => ~Bindable(s)
        /\ \A d \in Pending : d \in after[s]
    BY <1>1, <1>2, TypedSlots DEF AtRest, Once
  <2>4. Matches(own[s], s)'
    <3>1. PICK d \in Descriptors : d = own'[s]
      BY <1>5
    <3>2. CASE d = own[s]
      <4>1. Matches(d, s)'
        BY <2>2, <2>3, <3>2
      <4> QED BY <3>1, <4>1 DEF Matches
    <3>3. CASE d = Acc(c)
      <4>1. d.k = "acc"
        BY <3>3, DescriptorFields
      <4> QED BY <3>1, <4>1 DEF Matches
    <3> QED BY <1>5, <3>1, <3>2, <3>3
  <2>5. ASSUME NEW d \in Live(s)'
        PROVE  /\ Matches(copy[d].snap[s], s)'
               /\ copy'[d].stranded[s] = "none" \/ Fits(copy[d].stranded[s], s)'
               /\ copy'[d].stranded[s] # "none" /\ copy'[d].snap[s] = Absent /\ s \in Methods => ~Bindable(s)'
    <3>1. CASE d = c
      <4>1. copy'[d].stranded[s] = "none" /\ copy'[d].snap[s] = own[s]
        BY <1>3, <3>1
      <4>2. PICK x \in Descriptors : x = copy'[d].snap[s]
        BY <2>3, <4>1
      <4>3. Matches(x, s)'
        BY <2>2, <2>3, <4>1, <4>2
      <4>4. Matches(copy[d].snap[s], s)'
        BY <4>2, <4>3 DEF Matches
      <4> QED BY <4>1, <4>4
    <3>2. CASE d # c
      <4>1. d \in Live(s) /\ d \in Copies
        BY <1>7, <2>3, <3>2
      <4>2. copy'[d] = copy[d]
        BY <1>3, <3>2, <4>1
      <4>3. Matches(copy[d].snap[s], s)'
        <5> PICK x \in Descriptors : x = copy[d].snap[s]
          BY <2>3, <4>1
        <5>1. Matches(x, s)'
          BY <2>2, <2>3, <4>1
        <5>2. x = copy'[d].snap[s]
          BY <4>2
        <5> QED BY <5>1, <5>2 DEF Matches
      <4>4. copy'[d].stranded[s] = "none" \/ Fits(copy[d].stranded[s], s)'
        <5> PICK x \in Values \cup {"none"} : x = copy[d].stranded[s]
          BY <2>3, <4>1
        <5>1. x = "none" \/ (x \in Values /\ Fits(x, s)')
          BY <2>1, <2>3, <4>1
        <5>2. x = copy'[d].stranded[s]
          BY <4>2
        <5> QED BY <5>1, <5>2 DEF Fits
      <4>5. Bindable(s)' => Bindable(s)
        BY <1>1 DEF Bindable
      <4> QED BY <2>3, <4>1, <4>2, <4>3, <4>4, <4>5
    <3> QED BY <3>1, <3>2
  <2>6. \A d \in Pending' : d \in after'[s]
    BY <1>1, <1>7, <2>3
  <2> QED BY <2>4, <2>5, <2>6 DEF FaithfulAt, Once, Absent, Methods
<1>9. SlotsArePlain' /\ StrandedStillServe'
  BY <1>1 DEF SlotsArePlain, ReadIsPlain, WriteIsPlain, JitDoesNotThrow, StrandedStillServe
<1> QED BY <1>1, <1>4, <1>6, <1>7, <1>8, <1>9, SlotsAre, DoneAtOnce

(* jit() compiles a schema it was given at once. *)
LEMMA EagerKeeps ==
  ASSUME JitInv, NEW c \in Copies, JitEager(c)
  PROVE  JitInv'
<1> DEFINE u == MkvFrame(c)
           K == [seen : BOOLEAN, pending : BOOLEAN, snap : [SlotSet -> Descriptors],
                 reading : SUBSET SlotSet, stranded : [SlotSet -> Values \cup {"none"}]]
<1>1. /\ stack = << >> /\ op' = [kind |-> "jit", s |-> Slots[1]] /\ ops' = ops
      /\ stack' = IF CodegenAllowed THEN <<u>> ELSE << >>
      /\ ret' = [threw |-> FALSE, v |-> "undefined"] /\ plainThrew' = FALSE
      /\ own' = own /\ UNCHANGED <<plain, extensible, frozen, locked, refused, jitless, compilable>>
      /\ copy' = [copy EXCEPT ![c].seen = TRUE]
      /\ after' = [s \in SlotSet |-> after[s] \cup {c}] /\ Typed
  BY Parts DEF JitEager, Begin, target
<1>2. /\ \A s \in SlotSet : AtRest(s)
      /\ \A d \in Copies : copy[d].reading = {}
  BY <1>1, Resting
<1>3. /\ copy' \in [Copies -> K]
      /\ \A x \in Copies : /\ copy'[x].snap = copy[x].snap /\ copy[x].seen => copy'[x].seen
                           /\ copy'[x].stranded = copy[x].stranded /\ copy'[x].reading = copy[x].reading
                           /\ copy'[x].pending = copy[x].pending
  <2> DEFINE r == [copy[c] EXCEPT !.seen = TRUE]
  <2>1. copy' = [copy EXCEPT ![c] = r]
    BY <1>1
  <2>2. copy \in [Copies -> K]
    BY Parts
  <2>3. /\ r \in K /\ r.snap = copy[c].snap /\ r.seen = TRUE /\ r.stranded = copy[c].stranded
        /\ r.pending = copy[c].pending /\ r.reading = copy[c].reading
    BY <2>2
  <2> HIDE DEF r
  <2>4. copy' \in [Copies -> K] /\ copy'[c] = r /\ \A x \in Copies : x # c => copy'[x] = copy[x]
    <3> HIDE DEF K
    <3> QED BY <2>1, <2>2, <2>3
  <2> HIDE DEF K
  <2>5. ASSUME NEW x \in Copies
        PROVE  /\ copy'[x].snap = copy[x].snap /\ copy[x].seen => copy'[x].seen
               /\ copy'[x].stranded = copy[x].stranded /\ copy'[x].reading = copy[x].reading
               /\ copy'[x].pending = copy[x].pending
    <3>1. CASE x = c
      BY <3>1, <2>3, <2>4
    <3>2. CASE x # c
      BY <3>2, <2>4
    <3> QED BY <3>1, <3>2
  <2> QED BY <2>4, <2>5
<1>4. u \in Frames /\ u.f = "mkv" /\ u.by = c /\ u.pc = 1
  BY FramesBegin
<1> PICK z \in Frames : z = u
  BY <1>4
<1> HIDE DEF u, K
<1>5. Typed'
  <2>1. op' \in [kind : Kinds, s : SlotSet] /\ ret' \in [threw : BOOLEAN, v : Values]
    BY <1>1, SlotsAre, MakersAre DEF Kinds
  <2>2. stack' \in Seq(Frames)
    <3>1. stack \in Seq(Frames) /\ <<z>> \in Seq(Frames)
      BY <1>1 DEF Typed
    <3>2. stack' = stack \/ stack' = <<z>>
      BY <1>1
    <3> QED BY <3>1, <3>2
  <2>3. after' \in [SlotSet -> SUBSET (Copies \cup {"user"})]
    BY <1>1 DEF Typed
  <2>4. \A s \in SlotSet : /\ Plainly(own[s], s)' /\ Plainly(plain[s], s)' /\ plain'[s].k # "acc"
                           /\ \A d \in Copies : Plainly(copy[d].snap[s], s)'
    <3>1. \A s \in SlotSet : /\ Plainly(own[s], s) /\ Plainly(plain[s], s) /\ plain[s].k # "acc"
                             /\ \A d \in Copies : Plainly(copy[d].snap[s], s)
      BY <1>1 DEF Typed
    <3> QED BY <1>1, <1>3, <3>1 DEF Plainly
  <2>5. /\ own' \in [SlotSet -> Descriptors] /\ plain' \in [SlotSet -> Descriptors] /\ ops' \in 0 .. MaxOps
        /\ extensible' \in BOOLEAN /\ frozen' \in BOOLEAN /\ jitless' \in BOOLEAN /\ compilable' \in BOOLEAN
        /\ locked' \subseteq SlotSet /\ refused' \subseteq {"data", "accessor", "delete"}
        /\ plainThrew' \in BOOLEAN
    BY <1>1 DEF Typed
  <2> QED BY <1>3, <2>1, <2>2, <2>3, <2>4, <2>5 DEF Typed, K
<1>6. Fronts' /\ (\A s \in SlotSet : Live(s)' = Live(s)) /\ Pending' \subseteq Pending
  BY <1>1, <1>3, FrontsKept, Parts
<1>7. ASSUME NEW s \in SlotSet
      PROVE  FaithfulAt(s)' /\ Once(s)'
  <2>1. \A v \in Values : Fits(v, s) => Fits(v, s)'
    BY <1>1 DEF Fits, PlainValue, Absent, Methods
  <2>2. Bindable(s)' => Bindable(s)
    BY <1>1 DEF Bindable
  <2>3. \A d \in Pending' : d \in after'[s]
    BY <1>1, <1>2, <1>6 DEF AtRest
  <2> QED BY <1>1, <1>2, <1>3, <1>6, <2>1, <2>2, <2>3, StillFaithful
<1>8. \A d \in Copies : copy'[d].reading = {}
  BY <1>2, <1>3
<1>9. CASE ~CodegenAllowed
  <2>1. stack' = << >>
    BY <1>1, <1>9
  <2>2. SlotsArePlain' /\ StrandedStillServe'
    BY <1>1 DEF SlotsArePlain, ReadIsPlain, WriteIsPlain, JitDoesNotThrow, StrandedStillServe
  <2> QED BY <1>1, <1>5, <1>6, <1>7, <1>8, <2>1, <2>2, SlotsAre, DoneAtOnce
<1>10. CASE CodegenAllowed
  <2>1. stack' = <<z>>
    BY <1>1, <1>10
  <2>2. Len(stack') = 1 /\ stack'[1] = z /\ stack' # << >>
    BY <2>1
  <2>3. op'.kind = "jit" /\ "aot" \notin Copies /\ \A s \in SlotSet : c \in after'[s]
    BY <1>1, MakersAre
  <2>4. Bottom'
    BY <1>4, <2>2, <2>3 DEF Bottom
  <2>5. OnTop'
    BY <1>4, <2>2, <2>3, MkvTopAfter
  <2>6. Sound(z)'
    BY <1>4, <2>3 DEF Sound
  <2>7. Operations'
    BY <2>2, <2>3 DEF Operations, Writes, Builds, Rests
  <2> QED BY <1>1, <1>5, <1>6, <1>7, <1>8, <2>1, <2>4, <2>5, <2>6, <2>7, CallsFirst
<1> QED BY <1>9, <1>10

-----------------------------------------------------------------------------
(* The program reads and writes *)

(* The types, of an operation that changes slots and calls. *)
LEMMA TypedAgain ==
  ASSUME Typed, UNCHANGED <<copy, extensible, frozen, locked, refused, jitless, compilable>>,
         ops' \in 0 .. MaxOps, op' \in [kind : Kinds, s : SlotSet],
         ret' \in [threw : BOOLEAN, v : Values], stack' \in Seq(Frames), plainThrew' \in BOOLEAN,
         own' \in [SlotSet -> Descriptors], plain' \in [SlotSet -> Descriptors],
         after' \in [SlotSet -> SUBSET (Copies \cup {"user"})],
         \A s \in SlotSet : Plainly(own'[s], s) /\ Plainly(plain'[s], s) /\ plain'[s].k # "acc"
  PROVE  Typed'
<1>1. \A s \in SlotSet, c \in Copies : Plainly(copy[c].snap[s], s)
  BY DEF Typed
<1>2. \A s \in SlotSet : /\ Plainly(own[s], s)' /\ Plainly(plain[s], s)' /\ plain'[s].k # "acc"
                         /\ \A c \in Copies : Plainly(copy[c].snap[s], s)'
  BY <1>1 DEF Plainly
<1>3. /\ copy \in [Copies -> [seen : BOOLEAN, pending : BOOLEAN, snap : [SlotSet -> Descriptors],
                          reading : SUBSET SlotSet,
                          stranded : [SlotSet -> Values \cup {"none"}]]]
      /\ extensible \in BOOLEAN /\ frozen \in BOOLEAN /\ jitless \in BOOLEAN /\ compilable \in BOOLEAN
      /\ locked \subseteq SlotSet /\ refused \subseteq {"data", "accessor", "delete"}
  BY DEF Typed
<1> QED BY <1>2, <1>3 DEF Typed

(* A slot that is set to a value for good. *)
LEMMA TypedSet ==
  ASSUME NEW f \in [SlotSet -> Descriptors], NEW s \in SlotSet, NEW v \in Makers, NEW w \in BOOLEAN,
         s # "~standard" => w, NEW g, g = [f EXCEPT ![s] = Data(v, w)]
  PROVE  /\ g \in [SlotSet -> Descriptors] /\ g[s] = Data(v, w) /\ g[s].k = "data" /\ g[s].v = v
         /\ Plainly(g[s], s) /\ \A t \in SlotSet : t # s => g[t] = f[t]
<1> DEFINE d == Data(v, w)
<1>1. d \in Descriptors /\ d.k = "data" /\ d.v = v /\ d.w = w
  BY DescriptorFields
<1> HIDE DEF d
<1>2. g = [f EXCEPT ![s] = d]
  BY DEF d
<1>3. g \in [SlotSet -> Descriptors] /\ g[s] = d /\ \A t \in SlotSet : t # s => g[t] = f[t]
  BY <1>1, <1>2
<1> QED BY <1>1, <1>3 DEF d, Plainly

(* What the twin does with a read: it binds the method where it can. *)
LEMMA TwinReads ==
  ASSUME Typed, NEW s \in SlotSet, PlainRead(s), op'.kind = "read", op'.s = s, after' = after,
         UNCHANGED <<extensible, frozen, locked, refused>>
  PROVE  /\ plain' \in [SlotSet -> Descriptors] /\ plainThrew' \in BOOLEAN
         /\ \A t \in SlotSet : /\ Plainly(plain'[t], t) /\ plain'[t].k # "acc"
                               /\ \A v \in Values : Fits(v, t) => Fits(v, t)'
                               /\ plain[t] = Absent => plain'[t] = Absent \/ Binding(t)'
                               /\ Bindable(t)' => Bindable(t)
                               /\ t # s => plain'[t] = plain[t]
         /\ plainThrew' <=> plain'[s] = Absent /\ s \in Methods
         /\ plain[s] = Absent /\ s \in Methods =>
              /\ plainThrew' <=> ~Bindable(s)
              /\ Bindable(s) => plain'[s].v = "zod"
<1> DEFINE z == "zod"
           yes == TRUE
           binds == plain[s] = Absent /\ s \in Methods
<1>1. plain \in [SlotSet -> Descriptors] /\ \A t \in SlotSet : Plainly(plain[t], t) /\ plain[t].k # "acc"
  BY DEF Typed
<1>2. \A t \in SlotSet : Bindable(t)' = Bindable(t)
  BY DEF Bindable
<1>3. binds => (Accepts("data", s, plain) <=> Bindable(s))
  BY DEF Accepts, Bindable
<1>4. z \in Makers /\ yes \in BOOLEAN /\ (s # "~standard" => yes)
  BY MakersAre
<1>5. CASE binds /\ Bindable(s)
  <2>1. plain' = [plain EXCEPT ![s] = Data(z, yes)] /\ ~plainThrew' /\ plainThrew' \in BOOLEAN
    BY <1>3, <1>5 DEF PlainRead
  <2>2. /\ plain' \in [SlotSet -> Descriptors] /\ plain'[s] = Data(z, yes) /\ plain'[s].k = "data" /\ plain'[s].v = z
        /\ Plainly(plain'[s], s) /\ \A t \in SlotSet : t # s => plain'[t] = plain[t]
    <3> HIDE DEF z, yes
    <3> QED BY <1>1, <1>4, <2>1, TypedSet
  <2>3. plain'[s] # Absent
    BY <2>2, DescriptorFields
  <2>4. Binding(s)'
    BY <1>2, <1>5, <2>2 DEF Binding, Data, Methods
  <2>5. ASSUME NEW t \in SlotSet
        PROVE  \A v \in Values : Fits(v, t) => Fits(v, t)'
    <3>1. CASE t = s
      <4>1. PlainValue(s) = "zod" /\ PlainValue(s)' = "zod"
        BY <1>5, <2>2, <2>3 DEF PlainValue, Absent, Methods
      <4> QED BY <3>1, <4>1 DEF Fits
    <3>2. CASE t # s
      BY <2>2, <3>2 DEF Fits, PlainValue, Absent, Methods
    <3> QED BY <3>1, <3>2
  <2>6. \A t \in SlotSet : plain[t] = Absent => plain'[t] = Absent \/ Binding(t)'
    <3> SUFFICES ASSUME NEW t \in SlotSet, plain[t] = Absent PROVE plain'[t] = Absent \/ Binding(t)'
      OBVIOUS
    <3>1. CASE t = s
      BY <2>4, <3>1 DEF Binding, Data, Methods, Bindable
    <3>2. CASE t # s
      BY <2>2, <3>2
    <3> QED BY <3>1, <3>2
  <2>7. \A t \in SlotSet : Plainly(plain'[t], t) /\ plain'[t].k # "acc"
    BY <1>1, <2>2
  <2> QED BY <1>2, <1>5, <2>1, <2>2, <2>3, <2>5, <2>6, <2>7
<1>6. CASE ~(binds /\ Bindable(s))
  <2>1. plain' = plain /\ plainThrew' = binds /\ plainThrew' \in BOOLEAN
    BY <1>3, <1>6 DEF PlainRead
  <2>2. \A t \in SlotSet : \A v \in Values : Fits(v, t) => Fits(v, t)'
    BY <2>1 DEF Fits, PlainValue, Absent, Methods
  <2>3. plainThrew' <=> plain'[s] = Absent /\ s \in Methods
    BY <2>1
  <2> QED BY <1>1, <1>2, <1>6, <2>1, <2>2, <2>3
<1> QED BY <1>5, <1>6

(* The program reads a slot. *)
LEMMA ReadKeeps ==
  ASSUME JitInv, NEW s \in SlotSet, UserRead(s)
  PROVE  JitInv'
<1>1. /\ stack = << >> /\ op' = [kind |-> "read", s |-> s] /\ ops' \in 0 .. MaxOps
      /\ Get(s, << >>) /\ PlainRead(s) /\ copy' = copy /\ after' = after
      /\ UNCHANGED <<extensible, frozen, locked, refused, jitless, compilable>> /\ Typed
  <2>1. ops \in 0 .. MaxOps /\ ops < MaxOps /\ ops' = ops + 1
    BY Parts DEF Typed, UserRead, Begin
  <2>2. ops' \in 0 .. MaxOps
    BY <2>1, BoundsAssumption
  <2> QED BY <2>2, Parts DEF UserRead, Begin
<1>2. op'.kind = "read" /\ op'.s = s /\ op' \in [kind : Kinds, s : SlotSet]
  BY <1>1 DEF Kinds
<1>3. /\ plain' \in [SlotSet -> Descriptors] /\ plainThrew' \in BOOLEAN
      /\ \A t \in SlotSet : /\ Plainly(plain'[t], t) /\ plain'[t].k # "acc"
                            /\ \A v \in Values : Fits(v, t) => Fits(v, t)'
                            /\ plain[t] = Absent => plain'[t] = Absent \/ Binding(t)'
                            /\ Bindable(t)' => Bindable(t)
      /\ plainThrew' <=> plain'[s] = Absent /\ s \in Methods
      /\ plain[s] = Absent /\ s \in Methods =>
           /\ plainThrew' <=> ~Bindable(s)
           /\ Bindable(s) => plain'[s].v = "zod"
  BY <1>1, <1>2, TwinReads
<1>4. /\ \A t \in SlotSet : AtRest(t)
      /\ \A d \in Copies : copy'[d].reading = {}
  BY <1>1, Resting
<1>5. /\ own \in [SlotSet -> Descriptors] /\ \A t \in SlotSet : Plainly(own[t], t)
      /\ after' \in [SlotSet -> SUBSET (Copies \cup {"user"})]
      /\ \A t \in SlotSet : own[t] \in Descriptors /\ own[t].v \in Values
  BY <1>1, TypedSlots, DescriptorKinds DEF Typed
<1>6. SameAs(own[s], s)
  BY <1>4 DEF AtRest
<1>7. ASSUME NEW t \in SlotSet, own'[t] = own[t], Live(t)' \subseteq Live(t), Pending' \subseteq Pending
      PROVE  FaithfulAt(t)' /\ Once(t)'
  <2>1. \A c \in Pending' : c \in after'[t]
    BY <1>1, <1>4, <1>7 DEF AtRest
  <2> QED BY <1>1, <1>3, <1>4, <1>7, <2>1, StillFaithful
<1>8. ASSUME NEW v \in Values, Fits(v, s)
      PROVE  v \in after'[s] \/ v = IF plainThrew' THEN "zod" ELSE plain'[s].v
  <2>1. Fits(v, s)'
    BY <1>3, <1>8
  <2> QED BY <1>3, <2>1 DEF Fits, PlainValue, Absent, Methods
<1>9. CASE own[s].k = "acc"
  <2> DEFINE c == own[s].v
             u == ReadFrame(c, s)
  <2>1. c \in Copies /\ own[s] = Acc(c)
    BY <1>5, <1>9, DescriptorKinds
  <2>2. own' = own /\ ret' = ret /\ stack' = Append(<< >>, u)
    BY <1>1, <1>9 DEF Get
  <2>3. u \in Frames /\ u.f = "read" /\ u.c = c /\ u.s = s /\ u.pc = "enter" /\ ~u.nested
    BY <2>1, FramesBegin
  <2> PICK z \in Frames : z = u
    BY <2>3
  <2> HIDE DEF u
  <2>4. stack' = <<z>>
    BY <2>2
  <2>5. Len(stack') = 1 /\ stack'[1] = z /\ stack' # << >>
    BY <2>4
  <2>6. Typed'
    <3>1. stack' \in Seq(Frames)
      BY <2>4
    <3>2. ret' \in [threw : BOOLEAN, v : Values]
      BY <2>2, Parts
    <3> QED BY <1>1, <1>2, <1>3, <1>5, <2>2, <3>1, <3>2, TypedAgain
  <2>7. Fronts' /\ (\A t \in SlotSet : Live(t)' = Live(t)) /\ Pending' \subseteq Pending
    BY <1>1, <2>2, FrontsKept, Parts
  <2>8. \A t \in SlotSet : FaithfulAt(t)' /\ Once(t)'
    BY <1>7, <2>2, <2>7
  <2>9. Bottom'
    BY <1>2, <2>3, <2>5 DEF Bottom
  <2>10. c \in Live(s)' /\ own'[s] = Acc(c)
    BY <1>1, <2>1, <2>2, <2>7, LiveOf
  <2>11. OnTop'
    <3> HIDE DEF c
    <3> QED BY <2>3, <2>5, <2>10, ReadTopAfter
  <2>12. Sound(z)'
    BY <2>3 DEF Sound
  <2>13. Operations'
    <3>1. (op.kind = "read" => (plainThrew <=> plain[op.s] = Absent /\ op.s \in Methods))'
      BY <1>2, <1>3 DEF Absent, Methods
    <3> QED BY <1>2, <2>5, <3>1 DEF Operations, Writes, Builds, Rests
  <2> QED BY <1>1, <1>4, <2>4, <2>6, <2>7, <2>8, <2>9, <2>11, <2>12, <2>13, CallsFirst
<1>10. CASE own[s].k # "acc"
  <2>1. Live(s) = {} /\ Pending = {}
    BY <1>10, NoneBehind
  <2>2. ASSUME stack' = << >>, ret' \in [threw : BOOLEAN, v : Values], Fronts', Pending' = {}, Live(s)' = {},
               own' \in [SlotSet -> Descriptors], \A t \in SlotSet : Plainly(own'[t], t),
               \A t \in SlotSet : FaithfulAt(t)' /\ Once(t)',
               own'[s].k # "acc",
               Bindable(s) /\ s \in Methods => own'[s] # Absent,
               ret'.threw => plainThrew',
               ~ret'.threw => ret'.v \in after'[s] \/ ret'.v = IF plainThrew' THEN "zod" ELSE plain'[s].v
        PROVE  JitInv'
    <3>1. Typed'
      <4>1. stack' \in Seq(Frames)
        BY <1>1, <2>2 DEF Typed
      <4> QED BY <1>1, <1>2, <1>3, <1>5, <2>2, <4>1, TypedAgain
    <3>2. Bound(s)'
      <4>1. Bindable(s)' = Bindable(s)
        BY <1>1 DEF Bindable
      <4> QED BY <2>2, <4>1 DEF Bound, Absent, Methods
    <3>3. SlotsArePlain'
      BY <1>2, <2>2 DEF SlotsArePlain, ReadIsPlain, WriteIsPlain, JitDoesNotThrow
    <3>4. StrandedStillServe'
      BY <1>2, <2>2 DEF StrandedStillServe
    <3> QED BY <1>1, <1>2, <1>3, <1>4, <2>2, <3>1, <3>2, <3>3, <3>4, DoneAtOnce
  <2>3. ASSUME own' = own
        PROVE  /\ Fronts' /\ Pending' = {} /\ Live(s)' = {}
               /\ \A t \in SlotSet : FaithfulAt(t)' /\ Once(t)'
    <3>1. Fronts' /\ (\A t \in SlotSet : Live(t)' = Live(t)) /\ Pending' \subseteq Pending
      BY <1>1, <2>3, FrontsKept, Parts
    <3> QED BY <1>7, <2>1, <2>3, <3>1
  <2>4. CASE own[s].k \in {"data", "lazy"}
    <3>1. ret' = [threw |-> FALSE, v |-> own[s].v] /\ stack' = << >> /\ own' = own
      BY <1>1, <2>4 DEF Get, Return
    <3>2. ret'.v = own[s].v /\ ~ret'.threw /\ ret' \in [threw : BOOLEAN, v : Values]
      BY <1>5, <3>1
    <3>3. Fits(own[s].v, s) /\ own[s] # Absent
      BY <1>6, <2>4, DescriptorFields DEF SameAs
    <3>4. ret'.v \in after'[s] \/ ret'.v = IF plainThrew' THEN "zod" ELSE plain'[s].v
      BY <1>5, <1>8, <3>2, <3>3
    <3> QED BY <1>5, <1>10, <2>2, <2>3, <3>1, <3>2, <3>3, <3>4
  <2>5. CASE own[s].k = "absent"
    <3>1. own[s] = Absent /\ plain[s] = Absent /\ ProtoGet(s, << >>)
      BY <1>1, <1>5, <1>6, <2>5, DescriptorKinds DEF Get, SameAs
    <3>2. Accepts("data", s, own) <=> Bindable(s)
      BY <3>1 DEF Accepts, Bindable
    <3>3. CASE s \notin Methods
      <4>1. ret' = [threw |-> FALSE, v |-> "undefined"] /\ stack' = << >> /\ own' = own
        BY <3>1, <3>3 DEF ProtoGet, Return
      <4>2. ret'.v = "undefined" /\ ~ret'.threw /\ ret' \in [threw : BOOLEAN, v : Values]
            /\ "undefined" \in Values
        BY <4>1, MakersAre
      <4>3. Fits("undefined", s)
        BY <3>1, <3>3, DescriptorFields DEF Fits, PlainValue
      <4>4. ret'.v \in after'[s] \/ ret'.v = IF plainThrew' THEN "zod" ELSE plain'[s].v
        BY <1>8, <4>2, <4>3
      <4> QED BY <1>5, <1>10, <2>2, <2>3, <3>3, <4>1, <4>2, <4>4
    <3>4. CASE s \in Methods /\ Bindable(s)
      <4> DEFINE z == "zod"
                 yes == TRUE
      <4>1. /\ ret' = [threw |-> FALSE, v |-> z] /\ stack' = << >>
            /\ own' = [own EXCEPT ![s] = Data(z, yes)] /\ z \in Makers /\ yes \in BOOLEAN
            /\ (s # "~standard" => yes)
        BY <3>1, <3>2, <3>4, MakersAre DEF ProtoGet, Return
      <4>2. /\ own' \in [SlotSet -> Descriptors] /\ own'[s] = Data(z, yes) /\ own'[s].k = "data" /\ own'[s].v = z
            /\ Plainly(own'[s], s) /\ \A t \in SlotSet : t # s => own'[t] = own[t]
        <5> HIDE DEF z, yes
        <5> QED BY <1>5, <4>1, TypedSet
      <4>3. own' = [own EXCEPT ![s] = own'[s]]
        <5> HIDE DEF z, yes
        <5> QED BY <4>1, <4>2
      <4>4. /\ Fronts' /\ Live(s)' = {} /\ Pending' = {}
            /\ \A t \in SlotSet : Live(t)' \subseteq Live(t)
        BY <1>1, <2>1, <4>2, <4>3, FrontsSet, Parts
      <4>5. ~plainThrew' /\ plain'[s].v = "zod"
        BY <1>3, <3>1, <3>4
      <4>6. Fits(z, s)' /\ own'[s] # Absent
        <5>1. PlainValue(s)' = "zod"
          BY <4>5 DEF PlainValue
        <5> QED BY <4>2, <5>1, DescriptorFields DEF Fits
      <4>7. ASSUME NEW t \in SlotSet
            PROVE  FaithfulAt(t)' /\ Once(t)'
        <5>1. CASE t = s
          <6>1. Fits(own[s].v, s)'
            BY <4>2, <4>6 DEF Fits
          <6>2. Judged(s)'
            BY <4>1 DEF Judged
          <6>3. Once(s)' /\ FaithfulAt(s)'
            BY <4>2, <4>4, <6>1, <6>2, FaithfulSet
          <6> QED BY <5>1, <6>3
        <5>2. CASE t # s
          BY <1>7, <4>2, <4>4, <5>2
        <5> QED BY <5>1, <5>2
      <4>8. \A t \in SlotSet : Plainly(own'[t], t)
        BY <1>5, <4>2
      <4>9. ret'.v = "zod" /\ ~ret'.threw /\ ret' \in [threw : BOOLEAN, v : Values]
        BY <4>1, MakersAre
      <4> QED BY <2>2, <4>1, <4>2, <4>4, <4>5, <4>6, <4>7, <4>8, <4>9
    <3>5. CASE s \in Methods /\ ~Bindable(s)
      <4>1. ret' = [threw |-> TRUE, v |-> "undefined"] /\ stack' = << >> /\ own' = own
        BY <3>1, <3>2, <3>5 DEF ProtoGet, Throw
      <4>2. ret'.threw /\ ret' \in [threw : BOOLEAN, v : Values]
        BY <4>1, MakersAre
      <4>3. plainThrew'
        BY <1>3, <3>1, <3>5
      <4> QED BY <1>5, <1>10, <2>2, <2>3, <3>5, <4>1, <4>2, <4>3
    <3> QED BY <3>3, <3>4, <3>5
  <2> QED BY <1>5, <1>10, <2>4, <2>5, DescriptorKinds
<1> QED BY <1>9, <1>10

(* What the twin does with a write of a method: it is set, unless refused. *)
LEMMA TwinWrites ==
  ASSUME Typed, NEW s \in SlotSet \ {"~standard"}, PlainWrite(s)
  PROVE  /\ plain' \in [SlotSet -> Descriptors] /\ plainThrew' \in BOOLEAN
         /\ \A t \in SlotSet : /\ Plainly(plain'[t], t) /\ plain'[t].k # "acc"
                               /\ t # s \/ plainThrew' => plain'[t] = plain[t]
         /\ plainThrew' <=> ~Accepts("data", s, plain)
         /\ ~plainThrew' => plain'[s] = Data("user", TRUE) /\ plain'[s].v = "user"
                            /\ plain'[s].k = "data"
<1> DEFINE u == "user"
           w == (plain[s].k # "lazy")
<1>1. plain \in [SlotSet -> Descriptors] /\ \A t \in SlotSet : Plainly(plain[t], t) /\ plain[t].k # "acc"
  BY DEF Typed
<1>2. Assignable(plain[s], s, plain) <=> Accepts("data", s, plain)
  BY <1>1 DEF Assignable, Plainly
<1>3. w \in BOOLEAN /\ u \in Makers /\ (s # "~standard" => w)
  BY <1>1, MakersAre DEF Plainly
<1>4. CASE Accepts("data", s, plain)
  <2>1. plain' = [plain EXCEPT ![s] = Data(u, w)] /\ ~plainThrew' /\ plainThrew' \in BOOLEAN
    BY <1>2, <1>4 DEF PlainWrite
  <2>2. /\ plain' \in [SlotSet -> Descriptors] /\ plain'[s] = Data(u, w) /\ plain'[s].k = "data" /\ plain'[s].v = u
        /\ Plainly(plain'[s], s) /\ \A t \in SlotSet : t # s => plain'[t] = plain[t]
    <3> DEFINE d == Data(u, w)
    <3>1. d \in Descriptors /\ d.k = "data" /\ d.v = u /\ d.w = w
      <4> HIDE DEF u, w
      <4> QED BY <1>3, DescriptorFields
    <3>2. Plainly(d, s)
      <4> HIDE DEF d, w
      <4> QED BY <1>3, <3>1 DEF Plainly
    <3>3. plain' = [plain EXCEPT ![s] = d]
      BY <2>1
    <3> HIDE DEF d
    <3>4. plain' \in [SlotSet -> Descriptors] /\ plain'[s] = d /\ \A t \in SlotSet : t # s => plain'[t] = plain[t]
      BY <1>1, <3>1, <3>3
    <3>5. d = Data(u, w)
      BY DEF d
    <3> HIDE DEF u, w
    <3> QED BY <3>1, <3>2, <3>4, <3>5
  <2>3. plain'[s] = Data("user", TRUE)
    <3>1. w = TRUE
      BY <1>1 DEF Plainly
    <3> HIDE DEF w
    <3> QED BY <2>2, <3>1
  <2> QED BY <1>1, <1>4, <2>1, <2>2, <2>3
<1>5. CASE ~Accepts("data", s, plain)
  BY <1>1, <1>2, <1>5 DEF PlainWrite
<1> QED BY <1>4, <1>5

(* The program writes a slot. *)
LEMMA WriteKeeps ==
  ASSUME JitInv, NEW s \in SlotSet, UserWrite(s)
  PROVE  JitInv'
<1> DEFINE v == "user"
<1>1. /\ stack = << >> /\ op' = [kind |-> "write", s |-> s] /\ ops' \in 0 .. MaxOps /\ s # "~standard"
      /\ Assign(s, v, TRUE, << >>) /\ PlainWrite(s) /\ copy' = copy
      /\ after' = [after EXCEPT ![s] = IF plainThrew' THEN @ \cup {"user"} ELSE {}]
      /\ UNCHANGED <<extensible, frozen, locked, refused, jitless, compilable>> /\ Typed
  <2>1. ops \in 0 .. MaxOps /\ ops < MaxOps /\ ops' = ops + 1
    BY Parts DEF Typed, UserWrite, Begin
  <2>2. ops' \in 0 .. MaxOps
    BY <2>1, BoundsAssumption
  <2> QED BY <2>2, Parts DEF UserWrite, Begin
<1>2. op'.kind = "write" /\ op'.s = s /\ op' \in [kind : Kinds, s : SlotSet]
  BY <1>1 DEF Kinds
<1>3. /\ plain' \in [SlotSet -> Descriptors] /\ plainThrew' \in BOOLEAN
      /\ \A t \in SlotSet : /\ Plainly(plain'[t], t) /\ plain'[t].k # "acc"
                            /\ t # s \/ plainThrew' => plain'[t] = plain[t]
      /\ plainThrew' <=> ~Accepts("data", s, plain)
      /\ ~plainThrew' => plain'[s] = Data("user", TRUE) /\ plain'[s].v = "user" /\ plain'[s].k = "data"
  BY <1>1, TwinWrites
<1>4. /\ \A t \in SlotSet : AtRest(t)
      /\ \A d \in Copies : copy'[d].reading = {}
  BY <1>1, Resting
<1>5. /\ own \in [SlotSet -> Descriptors] /\ \A t \in SlotSet : Plainly(own[t], t)
      /\ \A t \in SlotSet : own[t] \in Descriptors
  BY <1>1, TypedSlots DEF Typed
<1>6. /\ after' \in [SlotSet -> SUBSET (Copies \cup {"user"})]
      /\ \A t \in SlotSet : t # s \/ plainThrew' => after[t] \subseteq after'[t]
      /\ plainThrew' => "user" \in after'[s]
  <2>1. after \in [SlotSet -> SUBSET (Copies \cup {"user"})]
    BY <1>1 DEF Typed
  <2> DEFINE a == IF plainThrew' THEN after[s] \cup {"user"} ELSE {}
  <2>2. after' = [after EXCEPT ![s] = a]
    BY <1>1
  <2>3. a \in SUBSET (Copies \cup {"user"}) /\ (plainThrew' => a = after[s] \cup {"user"})
    BY <2>1
  <2> HIDE DEF a
  <2>4. /\ after' \in [SlotSet -> SUBSET (Copies \cup {"user"})]
        /\ after'[s] = a /\ \A t \in SlotSet : t # s => after'[t] = after[t]
    BY <2>1, <2>2, <2>3
  <2> QED BY <2>3, <2>4
<1> DEFINE kept(t) == t # s \/ plainThrew'
<1>7. ASSUME NEW t \in SlotSet, own'[t] = own[t], Live(t)' \subseteq Live(t), Pending' \subseteq Pending
      PROVE  Once(t)' /\ (kept(t) => FaithfulAt(t)')
  <2>1. Bindable(t)' => Bindable(t)
    BY <1>1 DEF Bindable
  <2>2. CASE kept(t)
    <3>1. plain'[t] = plain[t] /\ after[t] \subseteq after'[t]
      BY <1>3, <1>6, <2>2
    <3>2. \A x \in Values : Fits(x, t) => Fits(x, t)'
      BY <3>1 DEF Fits, PlainValue, Absent, Methods
    <3>3. \A c \in Pending' : c \in after'[t]
      BY <1>4, <1>7, <3>1 DEF AtRest
    <3> QED BY <1>1, <1>4, <1>7, <2>1, <3>1, <3>2, <3>3, StillFaithful
  <2>3. CASE ~kept(t)
    <3>1. Once(t) /\ Live(t) \subseteq Copies
      BY <1>1, <1>4, TypedSlots DEF AtRest
    <3>2. Once(t)'
      BY <1>1, <1>7, <2>1, <3>1 DEF Once, Absent, Methods
    <3> QED BY <2>3, <3>2
  <2> QED BY <2>2, <2>3
<1>8. /\ SameAs(own[s], s) /\ \A c \in Live(s) : SameAs(copy[c].snap[s], s)
      /\ v \in Makers
  BY <1>4, MakersAre DEF AtRest
<1>9. ~plainThrew' => /\ "data" \notin refused /\ ~frozen /\ s \notin locked
                      /\ plain[s] = Absent => extensible
  BY <1>3 DEF Accepts
<1>10. CASE own[s].k = "acc"
  <2> DEFINE c == own[s].v
             u == SetFrame(c, s, v)
  <2>1. c \in Copies /\ own[s] = Acc(c)
    BY <1>5, <1>10, DescriptorKinds
  <2>2. own' = own /\ ret' = ret /\ stack' = Append(<< >>, u)
    BY <1>1, <1>10 DEF Assign
  <2>3. u \in Frames /\ u.f = "set" /\ u.c = c /\ u.s = s /\ u.v = "user" /\ u.pc = "cancel"
    <3>1. u \in Frames /\ u.f = "set" /\ u.c = c /\ u.s = s /\ u.v = v /\ u.pc = "cancel"
      <4> HIDE DEF v
      <4> QED BY <1>8, <2>1, FramesBegin
    <3> QED BY <3>1
  <2> PICK z \in Frames : z = u
    BY <2>3
  <2> HIDE DEF u
  <2>4. stack' = <<z>>
    BY <2>2
  <2>5. Len(stack') = 1 /\ stack'[1] = z /\ stack' # << >>
    BY <2>4
  <2>6. Typed'
    <3>1. stack' \in Seq(Frames)
      BY <2>4
    <3>2. ret' \in [threw : BOOLEAN, v : Values]
      BY <2>2, Parts
    <3> QED BY <1>1, <1>2, <1>3, <1>5, <1>6, <2>2, <3>1, <3>2, TypedAgain
  <2>7. Fronts' /\ (\A t \in SlotSet : Live(t)' = Live(t)) /\ Pending' \subseteq Pending
    BY <1>1, <2>2, FrontsKept, Parts
  <2>8. \A t \in SlotSet : Once(t)' /\ (Judged(t)' => FaithfulAt(t)')
    <3> SUFFICES ASSUME NEW t \in SlotSet PROVE Once(t)' /\ (Judged(t)' => FaithfulAt(t)')
      OBVIOUS
    <3>1. Once(t)' /\ (kept(t) => FaithfulAt(t)')
      BY <1>7, <2>2, <2>7
    <3>2. Judged(t)' => kept(t)
      BY <1>2, <2>5 DEF Judged
    <3> QED BY <3>1, <3>2
  <2>9. Bottom'
    BY <1>2, <2>3, <2>5 DEF Bottom
  <2>10. own'[s] = Acc(c)
    BY <2>1, <2>2
  <2>11. OnTop'
    <3> HIDE DEF c
    <3>1. z.pc = "cancel" /\ z.f = "set" /\ z.c = c /\ z.s = s /\ op'.kind # "aot"
      BY <1>2, <2>3
    <3> QED BY <1>1, <2>5, <2>10, <3>1, SetTopAfter
  <2>12. Sound(z)'
    BY <2>3 DEF Sound
  <2>13. Writes'
    <3>1. own'[s] # Absent
      BY <2>10, <2>1, DescriptorFields
    <3>2. ~plainThrew' => ((\E d \in Live(s)' : copy'[d].snap[s] = Absent) => extensible)
      <4> SUFFICES ASSUME ~plainThrew', NEW d \in Live(s)', copy'[d].snap[s] = Absent PROVE extensible
        OBVIOUS
      <4>1. d \in Live(s) /\ copy[d].snap[s] = Absent
        BY <1>1, <2>7
      <4>2. plain[s] = Absent
        BY <1>8, <4>1, DescriptorFields DEF SameAs
      <4> QED BY <1>9, <4>2
    <3>3. /\ plainThrew' => "user" \in after'[s]
          /\ ~plainThrew' => /\ "data" \notin refused' /\ ~frozen' /\ s \notin locked'
                             /\ plain'[s] = Data("user", TRUE)
                             /\ own'[s] = Absent \/ (\E d \in Live(s)' : copy'[d].snap[s] = Absent) => extensible'
      BY <1>1, <1>3, <1>6, <1>9, <3>1, <3>2
    <3> QED BY <1>2, <3>3 DEF Writes, Live, Chain, Closed, Absent, Data
  <2>14. Operations'
    BY <1>2, <2>5, <2>13 DEF Operations, Builds, Rests
  <2> QED BY <1>1, <1>4, <2>4, <2>6, <2>7, <2>8, <2>9, <2>11, <2>12, <2>14, CallsFirst
<1>11. CASE own[s].k # "acc"
  <2>1. Live(s) = {} /\ Pending = {}
    BY <1>11, NoneBehind
  <2>2. ASSUME stack' = << >>, ret' \in [threw : BOOLEAN, v : Values], Fronts',
               own' \in [SlotSet -> Descriptors], \A t \in SlotSet : Plainly(own'[t], t),
               \A t \in SlotSet : FaithfulAt(t)' /\ Once(t)',
               ret'.threw => plainThrew'
        PROVE  JitInv'
    <3>1. Typed'
      <4>1. stack' \in Seq(Frames)
        BY <1>1, <2>2 DEF Typed
      <4> QED BY <1>1, <1>2, <1>3, <1>5, <1>6, <2>2, <4>1, TypedAgain
    <3>2. SlotsArePlain' /\ StrandedStillServe'
      BY <1>2, <2>2 DEF SlotsArePlain, ReadIsPlain, WriteIsPlain, JitDoesNotThrow, StrandedStillServe
    <3> QED BY <1>1, <1>2, <1>4, <2>2, <3>1, <3>2, DoneAtOnce
  <2>3. Assignable(own[s], s, own) <=> Accepts("data", s, own)
    BY <1>1, <1>5 DEF Assignable, Plainly
  <2>4. CASE Accepts("data", s, own)
    <3> DEFINE w == (own[s].k # "lazy")
    <3>1. /\ own' = [own EXCEPT ![s] = Data(v, w)] /\ ret' = [threw |-> FALSE, v |-> v] /\ stack' = << >>
          /\ w \in BOOLEAN /\ (s # "~standard" => w)
      BY <1>1, <1>5, <1>11, <2>3, <2>4 DEF Assign, Return, Plainly
    <3>2. /\ own' \in [SlotSet -> Descriptors] /\ own'[s] = Data(v, w) /\ own'[s].k = "data" /\ own'[s].v = v
          /\ Plainly(own'[s], s) /\ \A t \in SlotSet : t # s => own'[t] = own[t]
      <4> HIDE DEF v, w
      <4> QED BY <1>5, <1>8, <3>1, TypedSet
    <3>3. own' = [own EXCEPT ![s] = own'[s]]
      <4> HIDE DEF v, w
      <4> QED BY <3>1, <3>2
    <3>4. /\ Fronts' /\ Live(s)' = {} /\ Pending' = {}
          /\ \A t \in SlotSet : Live(t)' \subseteq Live(t)
      BY <1>1, <2>1, <3>2, <3>3, FrontsSet, Parts
    <3>5. Fits(own[s].v, s)'
      <4>1. ~plainThrew' => PlainValue(s)' = "user"
        BY <1>3, DescriptorFields DEF PlainValue, Absent
      <4> QED BY <1>6, <3>2, <4>1 DEF Fits
    <3>6. ASSUME NEW t \in SlotSet
          PROVE  FaithfulAt(t)' /\ Once(t)'
      <4>1. CASE t = s
        <5>1. Judged(s)'
          BY <3>1 DEF Judged
        <5>2. Once(s)' /\ FaithfulAt(s)'
          BY <3>2, <3>4, <3>5, <5>1, FaithfulSet
        <5> QED BY <4>1, <5>2
      <4>2. CASE t # s
        BY <1>7, <3>2, <3>4, <4>2
      <4> QED BY <4>1, <4>2
    <3>7. \A t \in SlotSet : Plainly(own'[t], t)
      BY <1>5, <3>2
    <3>8. ~ret'.threw /\ ret' \in [threw : BOOLEAN, v : Values]
      BY <1>8, <3>1, MakersAre
    <3> QED BY <2>2, <3>1, <3>2, <3>4, <3>6, <3>7, <3>8
  <2>5. CASE ~Accepts("data", s, own)
    <3>1. ret' = [threw |-> TRUE, v |-> "undefined"] /\ stack' = << >> /\ own' = own
      BY <1>1, <1>11, <2>3, <2>5 DEF Assign, Throw
    <3>2. plainThrew'
      <4>1. own[s] = Absent => plain[s] = Absent
        BY <1>8, DescriptorFields DEF SameAs
      <4> QED BY <1>3, <2>5, <4>1 DEF Accepts
    <3>3. Fronts' /\ (\A t \in SlotSet : Live(t)' = Live(t)) /\ Pending' \subseteq Pending
      BY <1>1, <3>1, FrontsKept, Parts
    <3>4. \A t \in SlotSet : FaithfulAt(t)' /\ Once(t)'
      BY <1>7, <3>1, <3>2, <3>3
    <3>5. ret' \in [threw : BOOLEAN, v : Values]
      BY <3>1, MakersAre
    <3> QED BY <1>5, <2>2, <3>1, <3>2, <3>3, <3>4, <3>5
  <2> QED BY <2>4, <2>5
<1> QED BY <1>10, <1>11

-----------------------------------------------------------------------------
(* The theorems *)

(* A schema that no copy has been given. *)
LEMMA JitInit ==
  ASSUME Init
  PROVE  JitInv
<1>1. /\ own = Pristine /\ plain = Pristine /\ extensible = TRUE /\ frozen = FALSE /\ locked = {}
      /\ refused \in {{}, {"data"}, {"accessor"}, {"delete"}}
      /\ jitless \in BOOLEAN /\ compilable \in BOOLEAN /\ copy = [c \in Copies |-> Fresh]
      /\ stack = << >> /\ ret = [threw |-> FALSE, v |-> "undefined"]
      /\ op = [kind |-> "none", s |-> Slots[1]] /\ ops = 0
      /\ plainThrew = FALSE /\ after = [s \in SlotSet |-> {}]
  BY DEF Init
<1>2. /\ Absent \in Descriptors /\ Absent.k = "absent" /\ Lazy \in Descriptors /\ Lazy.k = "lazy" /\ Lazy.v = "zod"
      /\ \A c \in Copies : Acc(c).k = "acc" /\ Acc(c) # Absent
  BY DescriptorFields
<1>3. /\ Pristine \in [SlotSet -> Descriptors]
      /\ \A s \in SlotSet : own[s] = plain[s] /\ own[s].k # "acc" /\ Plainly(own[s], s)
                            /\ (own[s].k = "data" => FALSE)
                            /\ \A c \in Copies : own[s] # Acc(c)
  BY <1>1, <1>2 DEF Pristine, Plainly
<1>4. /\ copy \in [Copies -> [seen : BOOLEAN, pending : BOOLEAN, snap : [SlotSet -> Descriptors],
                          reading : SUBSET SlotSet,
                          stranded : [SlotSet -> Values \cup {"none"}]]]
      /\ \A c \in Copies : /\ ~copy[c].pending /\ copy[c].reading = {}
                           /\ \A s \in SlotSet : copy[c].snap[s] = Absent
  <2> DEFINE a == [s \in SlotSet |-> Absent]
             none == [s \in SlotSet |-> "none"]
             K == [seen : BOOLEAN, pending : BOOLEAN, snap : [SlotSet -> Descriptors],
                   reading : SUBSET SlotSet, stranded : [SlotSet -> Values \cup {"none"}]]
  <2>1. a \in [SlotSet -> Descriptors] /\ none \in [SlotSet -> Values \cup {"none"}]
        /\ \A s \in SlotSet : a[s] = Absent
    BY <1>2
  <2>2. Fresh = [seen |-> FALSE, pending |-> FALSE, snap |-> a, reading |-> {}, stranded |-> none]
    BY DEF Fresh
  <2> HIDE DEF a, none
  <2>3. Fresh \in K /\ ~Fresh.pending /\ Fresh.reading = {} /\ Fresh.snap = a
    BY <2>1, <2>2
  <2> HIDE DEF K
  <2>4. copy \in [Copies -> K] /\ \A c \in Copies : copy[c] = Fresh
    BY <1>1, <2>3
  <2> QED BY <2>1, <2>3, <2>4 DEF K
<1>5. Typed
  <2>1. op \in [kind : Kinds, s : SlotSet] /\ ret \in [threw : BOOLEAN, v : Values]
    BY <1>1, SlotsAre, MakersAre DEF Kinds
  <2>2. stack \in Seq(Frames)
    BY <1>1
  <2>3. after \in [SlotSet -> SUBSET (Copies \cup {"user"})] /\ ops \in 0 .. MaxOps
    BY <1>1, BoundsAssumption
  <2>4. \A s \in SlotSet : /\ Plainly(own[s], s) /\ Plainly(plain[s], s) /\ plain[s].k # "acc"
                           /\ \A c \in Copies : Plainly(copy[c].snap[s], s)
    BY <1>2, <1>3, <1>4 DEF Plainly
  <2>5. /\ own \in [SlotSet -> Descriptors] /\ plain \in [SlotSet -> Descriptors]
        /\ extensible \in BOOLEAN /\ frozen \in BOOLEAN /\ jitless \in BOOLEAN /\ compilable \in BOOLEAN
        /\ locked \subseteq SlotSet /\ refused \subseteq {"data", "accessor", "delete"}
        /\ plainThrew \in BOOLEAN
    BY <1>1, <1>3
  <2> QED BY <1>4, <2>1, <2>2, <2>3, <2>4, <2>5 DEF Typed
<1>6. Pending = {} /\ \A s \in SlotSet : Live(s) = {}
  <2>1. Pending = {}
    BY <1>4 DEF Pending
  <2>2. \A s \in SlotSet : Live(s) = {}
    BY <1>3, ChainEmpty DEF Live
  <2> QED BY <2>1, <2>2
<1>7. Fronts
  <2>1. Unseen
    BY <1>2, <1>3, <1>4 DEF Unseen
  <2>2. Fronting
    BY <1>3, <1>6 DEF Fronting
  <2>3. Layered
    BY <1>2, <1>4, <1>6 DEF Layered
  <2>4. Spent
    BY <1>3, <1>6 DEF Spent
  <2> QED BY <2>1, <2>2, <2>3, <2>4 DEF Fronts
<1>8. Faithful
  <2> SUFFICES ASSUME NEW s \in SlotSet PROVE Once(s) /\ FaithfulAt(s)
    BY DEF Faithful
  <2>1. Matches(own[s], s)
    <3>1. own[s] \in Descriptors
      BY <1>1, <1>3
    <3>2. own[s].k = "absent" => plain[s] = Absent
      BY <1>3, <3>1, DescriptorKinds
    <3>3. own[s].k # "absent" => plain[s] # Absent
      BY <1>2, <1>3
    <3>4. own[s].k \in {"data", "lazy"} => PlainValue(s) = own[s].v
      BY <1>3, <3>3 DEF PlainValue
    <3> QED BY <3>2, <3>4 DEF Matches, Fits
  <2> QED BY <1>6, <2>1 DEF Once, FaithfulAt
<1>9. Reading /\ Calls /\ OnTop /\ Deep
  <2>1. Reading
    BY <1>4 DEF Reading
  <2>2. Calls /\ OnTop
    BY <1>1 DEF Calls, OnTop
  <2>3. Deep
    BY <1>1, <1>4 DEF Deep
  <2> QED BY <2>1, <2>2, <2>3
<1>10. Operations
  <2>1. op.kind = "none"
    BY <1>1
  <2> QED BY <2>1 DEF Operations, Writes, Builds, Rests, SlotsArePlain, ReadIsPlain, WriteIsPlain,
             JitDoesNotThrow, StrandedStillServe
<1> QED BY <1>5, <1>7, <1>8, <1>9, <1>10 DEF JitInv

(* Nothing happens. *)
LEMMA JitStutters ==
  ASSUME JitInv, UNCHANGED vars
  PROVE  JitInv'
<1>1. /\ own' = own /\ extensible' = extensible /\ frozen' = frozen /\ locked' = locked /\ refused' = refused
      /\ jitless' = jitless /\ compilable' = compilable /\ copy' = copy /\ stack' = stack /\ ret' = ret
      /\ op' = op /\ ops' = ops /\ plain' = plain /\ plainThrew' = plainThrew /\ after' = after
  BY DEF vars, target, ghosts
<1>2. Typed'
  BY <1>1, Parts DEF Typed, Plainly
<1>3. Reading' /\ Calls'
  BY <1>1, Parts DEF Reading, Calls, Bottom, Linked, IsReading
<1>4. Fronts'
  BY <1>1, FrontsKept, Parts
<1>5. Pending' = Pending /\ Quiet' = Quiet /\ \A s \in SlotSet : Live(s)' = Live(s)
  BY <1>1, LiveKept, Parts DEF Pending, Quiet
<1>6. Faithful'
  <2> SUFFICES ASSUME NEW s \in SlotSet PROVE Once(s)' /\ (Judged(s)' => FaithfulAt(s)')
    BY DEF Faithful
  <2>1. Once(s) /\ (Judged(s) => FaithfulAt(s))
    BY Parts DEF Faithful
  <2>2. Once(s)'
    BY <1>1, <1>5, <2>1 DEF Once, Bindable, Absent, Methods
  <2>3. Judged(s)' = Judged(s)
    BY <1>1 DEF Judged
  <2>4. FaithfulAt(s) => FaithfulAt(s)'
    BY <1>1, <1>5 DEF FaithfulAt, Matches, Fits, PlainValue, Binding, Bindable, Absent, Methods, Data
  <2> QED BY <2>1, <2>2, <2>3, <2>4
<1>7. OnTop'
  <2> SUFFICES ASSUME stack # << >> PROVE OnTop'
    BY <1>1 DEF OnTop
  <2> PICK z \in Frames : z = Top
    BY RestIs, Parts
  <2>1. stack' # << >> /\ stack'[Len(stack')] = z
    BY <1>1, RestIs, Parts
  <2>2. CASE z.f = "read"
    <3> DEFINE c == z.c
               s == z.s
    <3>1. c \in Copies /\ s \in SlotSet /\ ReadTop(z)
      BY <2>2, FrameKinds, Parts DEF OnTop
    <3>2. z.pc \in {"enter", "serve"} => c \in Live(s)' /\ (frozen' \/ own'[s] = Acc(c))
      BY <1>1, <1>5, <3>1 DEF ReadTop
    <3>3. z.pc \in {"strand", "give"} => Answer(s)'
      <4> SUFFICES ASSUME Answer(s) PROVE Answer(s)'
        BY <3>1 DEF ReadTop
      <4> HIDE DEF s
      <4>1. Live(s)' = Live(s)
        BY <1>5, <3>1
      <4> QED BY <1>1, <1>5, <4>1 DEF Answer, Bound, Bindable, Fits, PlainValue, Absent, Methods
    <3>4. z.pc = "enter" => ~z.nested
      BY <3>1 DEF ReadTop
    <3> HIDE DEF c, s
    <3>5. z.c = c /\ z.s = s
      BY DEF c, s
    <3> QED BY <2>1, <2>2, <3>2, <3>3, <3>4, <3>5, ReadTopAfter
  <2>3. CASE z.f = "set"
    <3> DEFINE c == z.c
               s == z.s
    <3>1. SetTop(z) /\ z.c = c /\ z.s = s
      BY <2>3, Parts DEF OnTop
    <3>2. /\ s # "~standard" /\ op'.kind # "aot" /\ (z.pc = "cancel" => own'[s] = Acc(c))
          /\ (z.pc = "write" => ~copy'[c].pending)
      BY <1>1, <3>1 DEF SetTop
    <3> HIDE DEF c, s
    <3> QED BY <2>1, <2>3, <3>1, <3>2, SetTopAfter
  <2>4. CASE z.f = "mkv"
    <3>1. MkvTop(z)
      BY <2>4, Parts DEF OnTop
    <3>2. (z.pc >= 3 => Quiet') /\ (z.by = "aot" => ~ret'.threw)
      BY <1>1, <1>5, <3>1 DEF MkvTop
    <3> QED BY <2>1, <2>4, <3>2, MkvTopAfter
  <2> QED BY <2>2, <2>3, <2>4, FrameKinds
<1>8. Deep'
  BY <1>1, <1>5, Parts DEF Deep, Sound
<1>9. Operations'
  <2> PICK o \in SlotSet : o = op.s
    BY Parts DEF Typed
  <2>1. Live(o)' = Live(o) /\ op'.s = o
    BY <1>1, <1>5
  <2>2. Writes'
    <3>1. op.kind = "write" /\ stack # << >> =>
            /\ plainThrew => "user" \in after[o]
            /\ ~plainThrew =>
               /\ "data" \notin refused /\ ~frozen /\ o \notin locked
               /\ plain[o] = Data("user", TRUE)
               /\ own[o] = Absent \/ (\E c \in Live(o) : copy[c].snap[o] = Absent) => extensible
      BY Parts DEF Operations, Writes
    <3>2. op'.kind = "write" /\ stack' # << >> =>
            /\ plainThrew' => "user" \in after'[o]
            /\ ~plainThrew' =>
               /\ "data" \notin refused' /\ ~frozen' /\ o \notin locked'
               /\ plain'[o] = Data("user", TRUE)
               /\ own'[o] = Absent \/ (\E c \in Live(o)' : copy'[c].snap[o] = Absent) => extensible'
      BY <1>1, <2>1, <3>1
    <3> QED BY <2>1, <3>2 DEF Writes, Live, Chain, Closed, Absent, Data
  <2>3. Builds'
    BY <1>1, Parts DEF Operations, Builds, Pos
  <2>4. Rests'
    <3>1. stack = << >> => SlotsArePlain /\ StrandedStillServe /\ (op.kind = "read" => Bound(o))
      BY Parts DEF Operations, Rests
    <3>2. SlotsArePlain => SlotsArePlain'
      BY <1>1 DEF SlotsArePlain, ReadIsPlain, WriteIsPlain, JitDoesNotThrow, Idle
    <3>3. StrandedStillServe => StrandedStillServe'
      BY <1>1 DEF StrandedStillServe, Idle, Methods
    <3>4. Bound(o) => Bound(o)'
      BY <1>1, <2>1 DEF Bound, Bindable, Absent, Methods
    <3>5. Bound(o)' => Bound(op.s)'
      BY <2>1 DEF Bound, Bindable, Absent, Methods, Live, Chain, Closed
    <3> QED BY <1>1, <3>1, <3>2, <3>3, <3>4, <3>5 DEF Rests
  <2>5. (op.kind = "read" => (plainThrew <=> plain[op.s] = Absent /\ op.s \in Methods))'
    BY <1>1, Parts DEF Operations, Absent, Methods
  <2> QED BY <2>2, <2>3, <2>4, <2>5 DEF Operations
<1> QED BY <1>2, <1>3, <1>4, <1>6, <1>7, <1>8, <1>9 DEF JitInv

(* Every step keeps the invariant. *)
LEMMA JitNext ==
  ASSUME JitInv, [Next]_vars
  PROVE  JitInv'
<1>1. CASE Step
  BY <1>1, StepKeeps
<1>2. ASSUME NEW c \in Copies, Jit(c)
      PROVE  JitInv'
  BY <1>2, JitKeeps
<1>3. ASSUME NEW c \in Copies, JitEager(c)
      PROVE  JitInv'
  BY <1>3, EagerKeeps
<1>4. ASSUME NEW s \in SlotSet, UserRead(s)
      PROVE  JitInv'
  BY <1>4, ReadKeeps
<1>5. ASSUME NEW s \in SlotSet, UserWrite(s)
      PROVE  JitInv'
  BY <1>5, WriteKeeps
<1>6. CASE Freeze \/ PreventExtensions \/ ToggleJitless \/ \E s \in SlotSet : Lock(s)
  BY <1>6, LimitsKeep
<1>7. CASE AotInstall
  BY <1>7, AotKeeps
<1>8. CASE UNCHANGED vars
  BY <1>8, JitStutters
<1> QED BY <1>1, <1>2, <1>3, <1>4, <1>5, <1>6, <1>7, <1>8 DEF Next, User

(* The invariant: the calls under way and the snapshots that copies hold of   *)
(* one another lead, on every slot, to what the schema's twin has.            *)
THEOREM JitIsFaithful == Spec => []JitInv
<1>1. Init => JitInv
  BY JitInit
<1>2. JitInv /\ [Next]_vars => JitInv'
  BY JitNext
<1> QED BY <1>1, <1>2, PTL DEF Spec

(* The descriptors of the slots, what copies keep, and that none of them is   *)
(* reading between operations: src/jit.ts takes a slot off reading in the     *)
(* finally block of every read that put it on.                                *)
THEOREM JitTyped == Spec => []TypeOK
<1>1. JitInv => TypeOK
  <2> SUFFICES ASSUME JitInv PROVE TypeOK
    OBVIOUS
  <2>1. Values \cup {"none"} = {"zod", "user", "aot", "undefined", "none"} \cup Copies
    BY DEF Values, Makers
  <2>2. \A c \in Copies : stack = << >> => copy[c].reading = {}
    BY Resting
  <2> QED BY <2>1, <2>2, Parts DEF TypeOK, Typed
<1> QED BY <1>1, JitIsFaithful, PTL

(* A program cannot tell a schema given to jit(), however often it was and    *)
(* whatever the target refuses, from one that was not, but by who answers:    *)
(* reads and writes (the accessors of src/jit.ts and what they put back)      *)
(* come to what they come to on the twin, and jit() never throws.             *)
THEOREM JitSlotsArePlain == Spec => []SlotsArePlain
<1>1. JitInv => SlotsArePlain
  <2> SUFFICES ASSUME JitInv PROVE SlotsArePlain
    OBVIOUS
  <2>1. CASE stack = << >>
    BY <2>1, Parts DEF Operations, Rests
  <2>2. CASE stack # << >>
    BY <2>2 DEF SlotsArePlain, ReadIsPlain, WriteIsPlain, JitDoesNotThrow, Idle
  <2> QED BY <2>1, <2>2
<1> QED BY <1>1, JitIsFaithful, PTL

(* An accessor that is still there compiles, or serves Zod's method where the *)
(* target refused to let go of it (stillFrontedBy and serveZod, src/jit.ts).  *)
THEOREM JitAccessorsServe == Spec => []AccessorsServe
<1>1. JitInv => AccessorsServe
  <2> SUFFICES ASSUME JitInv PROVE AccessorsServe
    OBVIOUS
  <2>1. AccessorsAreLive
    BY Parts DEF AccessorsAreLive, Fronts, Spent
  <2>2. CASE stack = << >>
    BY <2>1, <2>2, Parts DEF Operations, Rests, AccessorsServe
  <2>3. CASE stack # << >>
    BY <2>1, <2>3 DEF AccessorsServe, StrandedStillServe, Idle
  <2> QED BY <2>2, <2>3
<1> QED BY <1>1, JitIsFaithful, PTL

===============================================================================
