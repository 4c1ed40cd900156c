------------------------------ MODULE Codegen ------------------------------
(***************************************************************************)
(* The code generator of src/core/codegen.  A schema is compiled into up   *)
(* to three programs: a slow walk that reproduces Zod, a fast boolean      *)
(* check in two forms, and a build pass that validates and rebuilds in one *)
(* go.  generateValidator then decides, from static analyses of the        *)
(* schema, which of them safeParse, parse and is() run.  The question of   *)
(* this module is whether that choice is ever observable.                  *)
(*                                                                         *)
(* A compiled schema is a record: what the analyses answer about it, and a *)
(* table over Values for each emitted program.  A step of the specifica-   *)
(* tion is one call of the schema author's API: it puts the current schema *)
(* inside a new node, next to already compiled siblings, and compiles that *)
(* node from its children alone, as the recursive generators do.           *)
(***************************************************************************)
EXTENDS Naturals, Sequences, FiniteSets

CONSTANTS
    Keys,           \* property names
    Values,         \* the inputs the programs are run on, closed under reads
    Undefined, Null,
    Text,           \* the values z.string() accepts
    Literals,       \* sets of values a z.literal() may list
    Substitute,     \* the value of every .default() and .catch()
    Overwrite(_),   \* what .trim(), .toLowerCase() make of a string
    Callback(_),    \* a .transform() or preprocess callback
    Predicate(_),   \* an object-level .refine() predicate
    Delegate(_),    \* zod's answer for a delegated z.exactOptional()
    MinAutoDiscriminate,    \* options from which a plain union is switched
    AnyRefine,      \* refine objects whose output is not their input too
    AnyTag,         \* allow tags that accept undefined but must be present
    MaxDepth        \* bound: how deep the schemas of a run nest

ASSUME ConstantsAssumption ==
    /\ \A x \in Values : Callback(x) \in Values
    /\ MinAutoDiscriminate \in Nat \ {0, 1}
    /\ MaxDepth \in Nat
    /\ {AnyRefine, AnyTag} \subseteq BOOLEAN

VARIABLES
    schema,     \* the compiled schema
    depth       \* how many times it has been wrapped

vars == <<schema, depth>>

-----------------------------------------------------------------------------
(* Values.  proto marks an own __proto__ key, as JSON.parse creates.  A map *)
(* is its entries in order, pairs of a key and a value, no key twice; a set *)
(* is a map of its elements to themselves.                                 *)

Obj(at, proto) == [kind |-> "object", at |-> at, proto |-> proto, frozen |-> FALSE]
Arr(items) == [kind |-> "array", items |-> items]
Fail == [kind |-> "fail"]   \* issues were reported, or the FAIL sentinel

IsObject(x) == x.kind = "object"
IsArray(x) == x.kind = "array"
IsSet(x) == x.kind = "set"
IsMap(x) == x.kind = "map"
Present(x, k) == k \in DOMAIN x.at
Member(x, k) == IF Present(x, k) THEN x.at[k] ELSE Undefined
Item(x, i) == IF i <= Len(x.items) THEN x.items[i] ELSE Undefined

(* What the programs read of an input is an input; nobody has frozen one.   *)
ASSUME ValuesAssumption ==
    \A x \in Values :
        /\ x.kind \in {"prim", "object", "array", "set", "map"}
        /\ IsObject(x) => /\ x = Obj(x.at, x.proto) /\ x.proto \in BOOLEAN
                          /\ x.at \in [DOMAIN x.at -> Values]
        /\ IsArray(x) => x = Arr(x.items) /\ x.items \in Seq(Values)
        /\ IsSet(x) \/ IsMap(x) =>
                /\ x = [kind |-> x.kind, entries |-> x.entries]
                /\ x.entries \in Seq(Values \X Values)
                /\ \A i, j \in DOMAIN x.entries :
                        x.entries[i][1] = x.entries[j][1] => i = j

Prims == {x \in Values : x.kind = "prim"}

(* z.literal() lists primitives; trimming a string leaves a string.         *)
ASSUME PrimsAssumption ==
    /\ {Undefined, Null} \cup Text \cup UNION Literals \subseteq Prims
    /\ Undefined # Null /\ Text \cap {Undefined, Null} = {}
    /\ \A x \in Text : Overwrite(x) \in Text
    /\ Substitute # Fail

(* __zcPs: the value without its own __proto__, a copy only if it had one. *)
Scrub(x) == IF IsObject(x) /\ x.proto THEN Obj(x.at, FALSE) ELSE x

-----------------------------------------------------------------------------
(* Object nodes: [shape, unknown, catchall, refine].  The absent-key rules *)
(* follow the property's rungs optin and optout.                           *)

Unknown(ir, x) == DOMAIN x.at \ DOMAIN ir.shape

SkipAbsent(ir) ==
    {k \in DOMAIN ir.shape : /\ ir.shape[k].optin = "optional"
                             /\ ir.shape[k].optout = "optional"
                             /\ ir.shape[k].reports}
SuppressAbsent(ir) ==
    {k \in DOMAIN ir.shape : /\ ir.shape[k].optin = "defaulted"
                             /\ ir.shape[k].optout = "optional"
                             /\ ir.shape[k].reports}
Nonoptional(ir) ==
    {k \in DOMAIN ir.shape : ir.shape[k].optin = "none" /\ ~ir.shape[k].rejects}

(* Does slowObject assemble a fresh object?                                *)
Assembles(ir) == ir.unknown = "strip" \/ \E kid \in ir.kids : kid.mutates

(* Object.freeze()                                                         *)
Freeze(x) ==
    IF ~IsObject(x) THEN x
    ELSE [kind |-> "object", at |-> x.at, proto |-> x.proto, frozen |-> TRUE]

(* Is freezing what the node yields of no effect, or is it an object the   *)
(* compiled code made?                                                     *)
FreezeIsNoop(ir) ==
    \/ ir.type = "literal"
    \/ ir.type \in {"optional", "nullable", "readonly"} /\ ir.inner.noop
    \/ ir.type = "union" /\ \A kid \in ir.kids : kid.noop
FreezeTargetIsFresh(ir) ==
    \/ ir.type = "object" /\ ir.unknown = "strip"
    \/ ir.type = "readonly" /\ ir.inner.fresh

(* Tuple nodes: [items, rest], rest a sequence of at most one schema.      *)
LastOf(slots) == CHOOSE n \in slots \cup {0} : \A i \in slots : i <= n

OptStart(ir) == LastOf({i \in DOMAIN ir.items : ir.items[i].optin = "none"})
OptoutStart(ir) == LastOf({i \in DOMAIN ir.items : ir.items[i].optout # "optional"})
(* new Map(entries): a key keeps its first place and its last value.       *)
Keyed(entries) ==
    LET same(i) == {j \in DOMAIN entries : entries[j][1] = entries[i][1]}
        firsts == {i \in DOMAIN entries : \A j \in same(i) : i <= j}
        order == CHOOSE f \in [1 .. Cardinality(firsts) -> firsts] :
                    \A m, n \in DOMAIN f : m < n => f[m] < f[n]
    IN  [n \in DOMAIN order |-> <<entries[order[n]][1], entries[LastOf(same(order[n]))][2]>>]

AbsentFrom(ir) == IF ir.rest = <<>> THEN OptStart(ir) ELSE 0

SlotKind(ir, i) ==
    IF i <= AbsentFrom(ir) THEN "present"
    ELSE IF i <= OptoutStart(ir) THEN "pad"
    ELSE IF ir.items[i].optin = "optional" THEN "skip" ELSE "tail"

TupleRewritesShortInput(ir) ==
    \E i \in AbsentFrom(ir) + 1 .. Len(ir.items) :
        i <= OptoutStart(ir) \/ ir.items[i].optin # "optional"

-----------------------------------------------------------------------------
(* Static analyses: each answers from the node and its children's answers. *)

HasMutation(ir) ==
    \/ ir.type \in {"default", "catch", "effect", "fallback"}
    \/ ir.type = "string" /\ ir.overwrites
    \/ ir.type = "object" /\ ir.unknown = "strip"
    \/ ir.type = "readonly" /\ ir.freeze
    \/ ir.type = "tuple" /\ TupleRewritesShortInput(ir)
    \/ \E kid \in ir.kids : kid.mutates

NeedsProtoScrub(ir) ==
    \/ ir.type = "record"
    \/ ir.type = "object" /\ ir.unknown \in {"loose", "catchall"}

(* rebuildSet with and without the clause for an own __proto__.            *)
RebuildsHere(ir) ==
    \/ ir.type \in {"default", "effect"}
    \/ ir.type = "readonly" /\ ir.freeze
    \/ ir.type = "string" /\ ir.overwrites
    \/ ir.type = "object" /\ ir.unknown = "strip"
    \/ ir.type = "tuple" /\ TupleRewritesShortInput(ir)
RebuildsBare(ir) == RebuildsHere(ir) \/ \E kid \in ir.kids : kid.bare
Rebuilds(ir) ==
    \/ RebuildsHere(ir)
    \/ NeedsProtoScrub(ir)
    \/ \E kid \in ir.kids : kid.rebuilds

MutatesBeyondStrip(ir) ==
    ir.type \in {"catch", "fallback"} \/ \E kid \in ir.kids : kid.beyond

NestedNeedsProtoScrub(ir) == \E kid \in ir.kids : kid.scrubs \/ kid.nested

(* Can an earlier union option claim and rewrite the input?                *)
Ordered(ir) ==
    \/ ir.type = "union" /\ \E kid \in ir.kids : kid.mutates
    \/ \E kid \in ir.kids : kid.ordered

RejectsUndefined_AnyOption(ir) ==
    \/ ir.type \in {"string", "object", "array", "tuple", "record", "set", "map",
                    "discriminatedUnion"}
    \/ ir.type = "literal" /\ Undefined \notin ir.values
    \/ ir.type \in {"union", "intersection"} /\ \E kid \in ir.kids : kid.rejects
    \/ ir.type \in {"nullable", "readonly"} /\ ir.inner.rejects
RejectsUndefined(ir) ==
    \/ ir.type \in {"string", "object", "array", "tuple", "record", "set", "map",
                    "discriminatedUnion"}
    \/ ir.type = "literal" /\ Undefined \notin ir.values
    \/ ir.type = "union" /\ \A kid \in ir.kids : kid.rejects
    \/ ir.type = "intersection" /\ \E kid \in ir.kids : kid.rejects
    \/ ir.type \in {"nullable", "readonly"} /\ ir.inner.rejects

OutputAlwaysDefined(ir) ==
    IF ir.type = "default" THEN Substitute # Undefined ELSE RejectsUndefined(ir)

InnerAppliesDefaultOnUndefined(ir) ==
    \/ ir.type = "default"
    \/ ir.type \in {"optional", "nullable"} /\ ir.inner.applies

ReportsOnAbsentKey(ir) ==
    IF ir.type \in {"nullable", "readonly"} THEN ir.inner.reports ELSE ir.type # "optional"

CanReportUnrecognizedKeys(ir) ==
    \/ ir.type = "fallback"
    \/ ir.type = "object" /\ ir.unknown = "strict"
    \/ \E kid \in ir.kids : kid.unrecognized

-----------------------------------------------------------------------------
(* What zod itself says of the schema (external): the rungs of optin and   *)
(* optout, and the values that dispatch a discriminated union.             *)

Optin_Unranked(ir) ==
    IF ir.type = "optional" THEN ir.inner.type
    ELSE IF ir.type \in {"nullable", "readonly", "effect"} THEN ir.inner.optin ELSE "none"
Optin(ir) ==
    CASE ir.type = "default" -> "defaulted"
      [] ir.type \in {"optional", "catch"} ->
            IF ir.inner.optin = "defaulted" THEN "defaulted" ELSE "optional"
      [] ir.type = "fallback" -> "optional"
      [] ir.type \in {"nullable", "readonly"} -> ir.inner.optin
      [] ir.type = "union" ->
            CASE \E kid \in ir.kids : kid.optin = "defaulted" -> "defaulted"
              [] \A kid \in ir.kids : kid.optin = "none" -> "none"
              [] OTHER -> "optional"
      [] ir.type = "pipe" -> ir.in.optin
      [] ir.type = "effect" -> IF ir.preprocess THEN ir.rung ELSE ir.inner.optin
      [] OTHER -> "none"

Optout(ir) ==
    CASE ir.type \in {"optional", "fallback"} -> "optional"
      [] ir.type \in {"nullable", "readonly", "catch"} -> ir.inner.optout
      [] ir.type = "union" /\ \E kid \in ir.kids : kid.optout = "optional" -> "optional"
      [] ir.type = "pipe" -> ir.out.optout
      [] ir.type = "effect" /\ ir.preprocess -> ir.inner.optout
      [] OTHER -> "none"

PropValues(ir) ==
    CASE ir.type = "literal" -> ir.values
      [] ir.type = "optional" /\ ir.inner.values # {} -> ir.inner.values \cup {Undefined}
      [] ir.type = "nullable" /\ ir.inner.values # {} -> ir.inner.values \cup {Null}
      [] ir.type \in {"default", "catch", "readonly"} -> ir.inner.values
      [] OTHER -> {}

-----------------------------------------------------------------------------
(* The slow walk: the parsed value, or Fail if issues were pushed.         *)

(* One property: the three absent-key rules around its walk.               *)
Parsed(ir, x, k) ==
    LET r == ir.shape[k].slow[Member(x, k)]
    IN  IF Present(x, k) THEN r
        ELSE IF k \in SkipAbsent(ir) THEN Undefined
        ELSE IF k \in SuppressAbsent(ir) THEN (IF r = Fail THEN Undefined ELSE r)
        ELSE IF k \in Nonoptional(ir) THEN Fail ELSE r

(* Declared keys of a fresh object: defined, certain, or in the input.     *)
KeptKeys(ir, x, value) ==
    {k \in DOMAIN ir.shape : \/ ir.shape[k].always
                             \/ value[k] # Undefined
                             \/ Present(x, k)}

SlowObject(ir, x) ==
    LET value == [k \in DOMAIN ir.shape |-> Parsed(ir, x, k)]
        extra == [k \in Unknown(ir, x) |->
                    IF ir.unknown = "catchall" THEN ir.catchall.slow[Member(x, k)]
                                               ELSE Member(x, k)]
        kept == IF Assembles(ir)
                THEN KeptKeys(ir, x, value)
                        \cup (IF ir.unknown = "strip" THEN {} ELSE DOMAIN extra)
                ELSE DOMAIN x.at \cup {k \in DOMAIN value : value[k] # Member(x, k)}
        out == Obj([k \in kept |-> IF k \in DOMAIN value THEN value[k] ELSE extra[k]], FALSE)
    IN  IF \/ \E k \in DOMAIN value : value[k] = Fail
           \/ \E k \in DOMAIN extra : extra[k] = Fail
           \/ ir.unknown = "strict" /\ (DOMAIN extra # {} \/ x.proto)
           \/ ir.refine /\ ~Predicate(out)
        THEN Fail ELSE out

SlowRecord(ir, x) ==
    LET value == [k \in DOMAIN x.at |-> ir.inner.slow[x.at[k]]]
    IN  IF \E k \in DOMAIN value : value[k] = Fail THEN Fail ELSE Obj(value, FALSE)

HasSize(ir, n) == n \in ir.size.least .. ir.size.most

SlowArray(ir, x) ==
    LET value == [i \in 1 .. Len(x.items) |-> ir.inner.slow[x.items[i]]]
    IN  IF ~HasSize(ir, Len(value)) \/ \E i \in DOMAIN value : value[i] = Fail
        THEN Fail ELSE Arr(value)

(* The output of a tuple grows slot by slot from the input's length.  It   *)
(* ends at the first absent slot that is skipped, or that is in the tail   *)
(* and fails; afterwards trailing undefineds of the tail are trimmed.      *)
SlowTuple(ir, x) ==
    LET n == Len(ir.items)
        len == Len(x.items)
        value == [i \in 1 .. (IF len > n THEN len ELSE n) |->
                    IF i <= n THEN ir.items[i].slow[Item(x, i)]
                              ELSE ir.rest[1].slow[Item(x, i)]]
        ends(i) == \/ SlotKind(ir, i) = "skip"
                   \/ SlotKind(ir, i) = "tail" /\ value[i] = Fail
        grown == CHOOSE m \in len .. (IF len > n THEN len ELSE n) :
                    /\ \A i \in len + 1 .. m : ~ends(i)
                    /\ m < n => ends(m + 1)
        trims == \E i \in 1 .. n : SlotKind(ir, i) = "tail" /\ ~ir.items[i].always
        last == CHOOSE m \in 0 .. grown :
                    /\ \A i \in m + 1 .. grown :
                        trims /\ i > OptoutStart(ir) /\ i > len /\ value[i] = Undefined
                    /\ ~(trims /\ m > OptoutStart(ir) /\ m > len /\ value[m] = Undefined)
    IN  IF \/ ir.rest = <<>> /\ (len > n \/ len < OptStart(ir))
           \/ \E i \in 1 .. grown : value[i] = Fail
        THEN Fail ELSE Arr(SubSeq(value, 1, last))

(* Every entry of a map, every element of a set.                           *)
SlowMap(ir, x) ==
    LET value == [i \in DOMAIN x.entries |->
                    <<ir.key.slow[x.entries[i][1]], ir.value.slow[x.entries[i][2]]>>]
    IN  IF \E i \in DOMAIN value : Fail \in {value[i][1], value[i][2]} THEN Fail
        ELSE [kind |-> x.kind, entries |-> Keyed(value)]

SlowSet(ir, x) ==
    LET out == SlowMap(ir, x) IN IF out = Fail THEN Fail
                              ELSE IF HasSize(ir, Len(out.entries)) THEN out ELSE Fail

SlowReadonly(ir, x) == IF ir.freeze THEN Freeze(ir.inner.slow[x]) ELSE ir.inner.slow[x]

(* The option whose cases list the discriminator's value, if any.          *)
Selected(ir, disc, x) ==
    {i \in DOMAIN ir.options :
        Member(x, disc) \in ir.options[i].props[disc].values}

SlowUnion(ir, x) ==
    LET hits == {i \in DOMAIN ir.options : ir.options[i].slow[x] # Fail}
    IN  IF hits = {} THEN Fail
        ELSE ir.options[CHOOSE i \in hits : \A j \in hits : i <= j].slow[x]

SlowDiscriminatedUnion(ir, x) ==
    IF ~IsObject(x) \/ Selected(ir, ir.disc, x) = {} THEN Fail
    ELSE ir.options[CHOOSE i \in Selected(ir, ir.disc, x) : TRUE].slow[x]

SlowDefault(ir, x) ==
    IF x = Undefined THEN Substitute
    ELSE IF ir.inner.slow[x] = Undefined /\ ~ir.inner.rejects THEN Substitute
    ELSE ir.inner.slow[x]

SlowLiteral(ir, x) == IF x \in ir.values THEN x ELSE Fail

SlowOptional(ir, x) == IF x = Undefined /\ ~ir.inner.applies THEN x ELSE ir.inner.slow[x]

SlowNullable(ir, x) == IF x = Null THEN x ELSE ir.inner.slow[x]

SlowCatch(ir, x) == IF ir.inner.slow[x] = Fail THEN Substitute ELSE ir.inner.slow[x]

SlowEffect(ir, x) ==
    IF ir.preprocess THEN ir.inner.slow[Callback(x)]
    ELSE IF ir.inner.slow[x] = Fail THEN Fail ELSE Callback(ir.inner.slow[x])

SlowPipe(first, second, x) ==
    IF first.slow[x] = Fail THEN Fail ELSE second.slow[first.slow[x]]

GenerateSlow(ir, x) ==
    CASE ir.type = "any" -> x
      [] ir.type = "literal" -> SlowLiteral(ir, x)
      [] ir.type = "string" ->
            IF x \notin Text THEN Fail
            ELSE IF ir.overwrites THEN Overwrite(x) ELSE x
      [] ir.type = "fallback" -> Delegate(x)
      [] ir.type = "optional" -> SlowOptional(ir, x)
      [] ir.type = "nullable" -> SlowNullable(ir, x)
      [] ir.type = "default" -> SlowDefault(ir, x)
      [] ir.type = "catch" -> SlowCatch(ir, x)
      [] ir.type = "effect" -> SlowEffect(ir, x)
      [] ir.type = "pipe" -> SlowPipe(ir.in, ir.out, x)
      [] ir.type = "intersection" -> SlowPipe(ir.left, ir.right, x)
      [] ir.type = "object" -> IF IsObject(x) THEN SlowObject(ir, x) ELSE Fail
      [] ir.type = "record" -> IF IsObject(x) THEN SlowRecord(ir, x) ELSE Fail
      [] ir.type = "array" -> IF IsArray(x) THEN SlowArray(ir, x) ELSE Fail
      [] ir.type = "tuple" -> IF IsArray(x) THEN SlowTuple(ir, x) ELSE Fail
      [] ir.type = "set" -> IF IsSet(x) THEN SlowSet(ir, x) ELSE Fail
      [] ir.type = "map" -> IF IsMap(x) THEN SlowMap(ir, x) ELSE Fail
      [] ir.type = "readonly" -> SlowReadonly(ir, x)
      [] ir.type = "union" -> SlowUnion(ir, x)
      [] ir.type = "discriminatedUnion" -> SlowDiscriminatedUnion(ir, x)

-----------------------------------------------------------------------------
(* The fast check.  form is "ref", whose TRUE promises that the output is  *)
(* the input, or "accept", which only reports the verdict.  An object may  *)
(* be compiled inside a switch on its property skip, already matched.      *)

HasFast(ir) ==
    /\ ir.type \notin {"effect", "fallback"}
    /\ ~(ir.type = "string" /\ ir.overwrites)
    /\ \A kid \in ir.kids : kid.fast.has

FastProperty(ir, form, k, x) ==
    LET check == ir.shape[k].fast[form][Member(x, k)]
    IN  IF k \in Nonoptional(ir) THEN Present(x, k) /\ check
        ELSE IF k \in SkipAbsent(ir) \cup SuppressAbsent(ir)
             THEN ~Present(x, k) \/ check
             ELSE check

FastObjectBody(ir, form, x, skip) ==
    /\ \A k \in DOMAIN ir.shape \ skip : FastProperty(ir, form, k, x)
    /\ ir.unknown = "strict" => Unknown(ir, x) = {} /\ ~x.proto
    /\ ir.unknown = "catchall" =>
            \A k \in Unknown(ir, x) : ir.catchall.fast[form][Member(x, k)]
    /\ ir.refine => Predicate(x)

FastSlot(ir, form, i, x) ==
    LET check == ir.items[i].fast[form][Item(x, i)]
    IN  CASE SlotKind(ir, i) = "present" -> check
          [] SlotKind(ir, i) = "skip" -> Len(x.items) < i \/ check
          [] OTHER -> Len(x.items) >= i /\ check

FastTuple(ir, form, x) ==
    /\ ir.rest = <<>> => Len(x.items) \in OptStart(ir) .. Len(ir.items)
    /\ \A i \in 1 .. Len(ir.items) : FastSlot(ir, form, i, x)
    /\ \A i \in Len(ir.items) + 1 .. Len(x.items) :
            ir.rest[1].fast[form][x.items[i]]

FastOptional(ir, form, x) == (x = Undefined /\ ~ir.inner.applies) \/ ir.inner.fast[form][x]

FastDefault(ir, form, x) ==
    IF form = "accept" THEN x = Undefined \/ ir.inner.fast[form][x]
                       ELSE x # Undefined /\ ir.inner.fast[form][x]

FastRecord(ir, form, x) == \A k \in DOMAIN x.at : ir.inner.fast[form][x.at[k]]

FastArray(ir, form, x) ==
    HasSize(ir, Len(x.items)) /\ \A i \in DOMAIN x.items : ir.inner.fast[form][x.items[i]]

FastMap_ValuesOnly(ir, form, x) ==
    \A i \in DOMAIN x.entries : ir.value.fast[form][x.entries[i][2]]
FastMap(ir, form, x) ==
    \A i \in DOMAIN x.entries : /\ ir.key.fast[form][x.entries[i][1]]
                                /\ ir.value.fast[form][x.entries[i][2]]

FastSet(ir, form, x) == HasSize(ir, Len(x.entries)) /\ FastMap(ir, form, x)

(* The keys on which detectUnionDiscriminator may switch a plain union: a  *)
(* literal in every option, the values disjoint and none undefined.        *)
Discriminators(options) ==
    IF \E i \in DOMAIN options : options[i].type # "object" THEN {}
    ELSE {k \in DOMAIN options[1].props :
            /\ \A i \in DOMAIN options :
                /\ k \in DOMAIN options[i].props
                /\ options[i].props[k].literal
                /\ Undefined \notin options[i].props[k].values
            /\ \A i, j \in DOMAIN options :
                i # j => options[i].props[k].values \cap options[j].props[k].values = {}}

FastSwitch(ir, disc, form, x) ==
    /\ IsObject(x)
    /\ \E i \in Selected(ir, disc, x) : ir.options[i].fast.at[disc][form][x]

Switched(ir, minOptions) == ir.via # {} /\ Len(ir.options) >= minOptions

FastUnion(ir, form, x) ==
    IF Switched(ir, MinAutoDiscriminate)
    THEN \E disc \in ir.via : FastSwitch(ir, disc, form, x)
    ELSE \E kid \in ir.kids : kid.fast[form][x]

GenerateFast(ir, form, x) ==
    CASE ir.type = "any" -> TRUE
      [] ir.type = "literal" -> x \in ir.values
      [] ir.type = "string" -> x \in Text
      [] ir.type = "optional" -> FastOptional(ir, form, x)
      [] ir.type = "nullable" -> x = Null \/ ir.inner.fast[form][x]
      [] ir.type = "default" -> FastDefault(ir, form, x)
      [] ir.type \in {"catch", "readonly"} -> ir.inner.fast[form][x]
      [] ir.type \in {"pipe", "intersection"} -> \A kid \in ir.kids : kid.fast[form][x]
      [] ir.type = "object" -> IsObject(x) /\ FastObjectBody(ir, form, x, {})
      [] ir.type = "record" -> IsObject(x) /\ FastRecord(ir, form, x)
      [] ir.type = "array" -> IsArray(x) /\ FastArray(ir, form, x)
      [] ir.type = "tuple" -> IsArray(x) /\ FastTuple(ir, form, x)
      [] ir.type = "set" -> IsSet(x) /\ FastSet(ir, form, x)
      [] ir.type = "map" -> IsMap(x) /\ FastMap(ir, form, x)
      [] ir.type = "union" -> FastUnion(ir, form, x)
      [] ir.type = "discriminatedUnion" -> FastSwitch(ir, ir.disc, form, x)

(* As an option of a switch on k: no object guard, no check of k.  What    *)
(* wraps an object does not hand this down.                                *)
FastOption(ir, k, form, x) ==
    IF ir.type = "object" THEN IsObject(x) /\ FastObjectBody(ir, form, x, {k})
                          ELSE GenerateFast(ir, form, x)

-----------------------------------------------------------------------------
(* The build pass: validates and rebuilds at once, the value or Fail.      *)

(* A node that does not rebuild, or only to drop its own __proto__, is     *)
(* checked in place and handed through.                                    *)
PassesThrough(ir) ==
    \/ ~Rebuilds(ir)
    \/ NeedsProtoScrub(ir) /\ \A kid \in ir.kids : ~kid.rebuilds

HasBuild(ir) ==
    IF PassesThrough(ir) THEN HasFast(ir)
    ELSE /\ \A kid \in ir.kids : kid.build.has
         /\ CASE ir.type = "object" ->
                    /\ ir.unknown \in {"strip", "strict"}
                    /\ SkipAbsent(ir) \cup SuppressAbsent(ir) = {}
              [] ir.type = "tuple" ->
                    /\ ir.rest = <<>>
                    /\ OptStart(ir) = Len(ir.items)
                    /\ \A kid \in ir.kids : kid.rejects
              [] OTHER -> ir.type \notin {"pipe", "intersection", "set", "map", "catch", "fallback"}

BuildObject_AbsentPasses(ir, x, skip) ==
    LET value == [k \in DOMAIN ir.shape |-> ir.shape[k].build.of[Member(x, k)]]
        out == Obj([k \in KeptKeys(ir, x, value) |-> value[k]], FALSE)
    IN  IF \/ ir.unknown = "strict" /\ (Unknown(ir, x) # {} \/ x.proto)
           \/ \E k \in DOMAIN value : value[k] = Fail
           \/ ir.refine /\ ~Predicate(out)
        THEN Fail ELSE out
BuildObject(ir, x, skip) ==
    LET matched == {k \in skip : ~ir.shape[k].rebuilds}
        value == [k \in DOMAIN ir.shape |->
                    IF k \in matched THEN Member(x, k)
                                    ELSE ir.shape[k].build.of[Member(x, k)]]
        out == Obj([k \in KeptKeys(ir, x, value) |-> value[k]], FALSE)
    IN  IF \/ ir.unknown = "strict" /\ (Unknown(ir, x) # {} \/ x.proto)
           \/ \E k \in Nonoptional(ir) \ matched : ~Present(x, k)
           \/ \E k \in DOMAIN value : value[k] = Fail
           \/ ir.refine /\ ~Predicate(out)
        THEN Fail ELSE out

BuildArray(ir, x) ==
    LET value == [i \in 1 .. Len(x.items) |-> ir.inner.build.of[x.items[i]]]
    IN  IF ~HasSize(ir, Len(value)) \/ \E i \in DOMAIN value : value[i] = Fail
        THEN Fail ELSE Arr(value)

BuildTuple(ir, x) ==
    LET value == [i \in 1 .. Len(ir.items) |-> ir.items[i].build.of[Item(x, i)]]
    IN  IF Len(x.items) # Len(ir.items) \/ \E i \in DOMAIN value : value[i] = Fail
        THEN Fail ELSE Arr(value)

BuildRecord(ir, x) ==
    LET value == [k \in DOMAIN x.at |-> ir.inner.build.of[x.at[k]]]
    IN  IF \E k \in DOMAIN value : value[k] = Fail THEN Fail ELSE Obj(value, FALSE)

BuildDispatch(ir, disc, x) ==
    IF ~IsObject(x) \/ Selected(ir, disc, x) = {} THEN Fail
    ELSE ir.options[CHOOSE i \in Selected(ir, disc, x) : TRUE].build.at[disc][x]

BuildUnion(ir, x) ==
    LET hits == {i \in DOMAIN ir.options : ir.options[i].build.of[x] # Fail}
    IN  IF Switched(ir, 2) THEN BuildDispatch(ir, CHOOSE k \in ir.via : TRUE, x)
        ELSE IF hits = {} THEN Fail
        ELSE ir.options[CHOOSE i \in hits : \A j \in hits : i <= j].build.of[x]

BuildDefault(ir, x) ==
    IF x = Undefined THEN Substitute
    ELSE IF ir.inner.build.of[x] = Undefined /\ ~ir.inner.rejects THEN Substitute
    ELSE ir.inner.build.of[x]

BuildEffect(ir, x) ==
    IF ir.preprocess THEN ir.inner.build.of[Callback(x)]
    ELSE IF ir.inner.build.of[x] = Fail THEN Fail ELSE Callback(ir.inner.build.of[x])

BuildReadonly_Unfrozen(ir, value) == value
BuildReadonly(ir, value) == IF ir.freeze THEN Freeze(value) ELSE value

BuildInline(ir, x) ==
    CASE ir.type = "string" -> IF x \in Text THEN Overwrite(x) ELSE Fail
      [] ir.type = "optional" ->
            IF x = Undefined /\ ~ir.inner.applies THEN x ELSE ir.inner.build.of[x]
      [] ir.type = "nullable" -> IF x = Null THEN x ELSE ir.inner.build.of[x]
      [] ir.type = "default" -> BuildDefault(ir, x)
      [] ir.type = "effect" -> BuildEffect(ir, x)
      [] ir.type = "readonly" -> BuildReadonly(ir, ir.inner.build.of[x])
      [] ir.type = "object" -> IF IsObject(x) THEN BuildObject(ir, x, {}) ELSE Fail
      [] ir.type = "record" -> IF IsObject(x) THEN BuildRecord(ir, x) ELSE Fail
      [] ir.type = "array" -> IF IsArray(x) THEN BuildArray(ir, x) ELSE Fail
      [] ir.type = "tuple" -> IF IsArray(x) THEN BuildTuple(ir, x) ELSE Fail
      [] ir.type = "union" -> BuildUnion(ir, x)
      [] ir.type = "discriminatedUnion" -> BuildDispatch(ir, ir.disc, x)

PassThrough(ir, valid, x) ==
    IF ~valid THEN Fail ELSE IF NeedsProtoScrub(ir) THEN Scrub(x) ELSE x

Build(ir, x) ==
    IF PassesThrough(ir) THEN PassThrough(ir, GenerateFast(ir, "ref", x), x)
                         ELSE BuildInline(ir, x)

(* As an option of a switch on k.                                          *)
BuildOption(ir, k, x) ==
    IF ~IsObject(x) THEN Fail
    ELSE IF PassesThrough(ir) THEN PassThrough(ir, FastOption(ir, k, "ref", x), x)
    ELSE IF ir.type = "readonly" THEN BuildReadonly(ir, ir.inner.build.at[k][x])
    ELSE BuildObject(ir, x, {k})

-----------------------------------------------------------------------------
(* A compiled node.                                                        *)

Compile(ir) ==
    LET props == IF ir.type = "readonly" THEN ir.inner.props
                 ELSE IF ir.type # "object" THEN <<>>
                 ELSE [k \in DOMAIN ir.shape |->
                        [literal |-> ir.shape[k].type = "literal",
                         values |-> ir.shape[k].values,
                         required |-> k \in Nonoptional(ir)]]
    IN  [type |-> ir.type,
         mutates |-> HasMutation(ir),
         rebuilds |-> Rebuilds(ir),
         bare |-> RebuildsBare(ir),
         scrubs |-> NeedsProtoScrub(ir),
         nested |-> NestedNeedsProtoScrub(ir),
         beyond |-> MutatesBeyondStrip(ir),
         ordered |-> Ordered(ir),
         rejects |-> RejectsUndefined(ir),
         always |-> OutputAlwaysDefined(ir),
         noop |-> FreezeIsNoop(ir),
         fresh |-> FreezeTargetIsFresh(ir),
         applies |-> InnerAppliesDefaultOnUndefined(ir),
         reports |-> ReportsOnAbsentKey(ir),
         unrecognized |-> CanReportUnrecognizedKeys(ir),
         optin |-> Optin(ir),
         optout |-> Optout(ir),
         values |-> PropValues(ir),
         props |-> props,
         slow |-> [x \in Values |-> GenerateSlow(ir, x)],
         fast |-> [has |-> HasFast(ir),
                   ref |-> [x \in Values |-> HasFast(ir) /\ GenerateFast(ir, "ref", x)],
                   accept |-> [x \in Values |-> HasFast(ir) /\ GenerateFast(ir, "accept", x)],
                   at |-> [k \in DOMAIN props |->
                            [ref |-> [x \in Values |->
                                HasFast(ir) /\ FastOption(ir, k, "ref", x)],
                             accept |-> [x \in Values |->
                                HasFast(ir) /\ FastOption(ir, k, "accept", x)]]]],
         build |-> [has |-> HasBuild(ir),
                    of |-> [x \in Values |-> IF HasBuild(ir) THEN Build(ir, x) ELSE Fail],
                    at |-> [k \in DOMAIN props |-> [x \in Values |->
                                IF HasBuild(ir) THEN BuildOption(ir, k, x) ELSE Fail]]]]

-----------------------------------------------------------------------------
(* generateValidator: which program each entry point of the validator runs.*)

FastExpr_ByReference(s, x) == s.fast.ref[x]
FastExpr(s, x) == IF s.rebuilds THEN s.fast.accept[x] ELSE s.fast.ref[x]

(* Does a passing fast check prove that the output is the input?           *)
FastResultIsInput_Unordered(s) == ~s.rebuilds /\ ~s.scrubs
FastResultIsInput(s) == ~s.rebuilds /\ ~s.scrubs /\ ~s.ordered

BuildBranch(s) ==
    /\ s.rebuilds /\ ~s.beyond /\ s.build.has
    /\ s.scrubs => s.bare

DeferredBranch(s) == ~BuildBranch(s) /\ s.fast.has /\ ~s.mutates /\ ~s.nested

SafeParse(s, x) ==
    CASE BuildBranch(s) -> s.build.of[x]
      [] DeferredBranch(s) ->
            IF ~FastExpr(s, x) THEN Fail ELSE IF s.scrubs THEN Scrub(x) ELSE x
      [] OTHER ->
            IF s.fast.has /\ FastResultIsInput(s) /\ FastExpr(s, x) THEN x ELSE s.slow[x]

(* fc, which lets parse() return its input, is withheld from build passes. *)
Published_Always(s) == s.fast.has /\ ~BuildBranch(s)
Published(s) == s.fast.has /\ FastResultIsInput(s) /\ ~BuildBranch(s)

Parse(s, x) == IF Published(s) /\ FastExpr(s, x) THEN x ELSE SafeParse(s, x)

(* is() runs the fast check where it is total, and safeParse elsewhere.    *)
Is(s, x) ==
    IF s.fast.has /\ (BuildBranch(s) \/ DeferredBranch(s)) THEN FastExpr(s, x)
    ELSE SafeParse(s, x) # Fail

-----------------------------------------------------------------------------
(* The schema author.                                                      *)

LeafIRs ==
    {[type |-> "literal", kids |-> {}, values |-> l] : l \in Literals}
        \cup {[type |-> "any", kids |-> {}], [type |-> "fallback", kids |-> {}],
              [type |-> "string", kids |-> {}, overwrites |-> TRUE]}

Leaves == {Compile(ir) : ir \in LeafIRs}

ObjectIR(shape, unknown, refine) ==
    [type |-> "object", kids |-> {shape[k] : k \in DOMAIN shape},
     shape |-> shape, unknown |-> unknown, refine |-> refine]

(* Objects that pin one key to a literal: the siblings a union is made of. *)
Tagged ==
    {Compile(ObjectIR([k \in {tag} |-> leaf], unknown, FALSE)) :
        tag \in Keys, leaf \in {l \in Leaves : l.type = "literal"},
        unknown \in {"strip", "loose"}}

Wrap(ir) ==
    /\ schema' = Compile(ir)
    /\ depth' = depth + 1

Unary(type, inner) == [type |-> type, kids |-> {inner}, inner |-> inner]

(* zod keeps an optional whose inner is otherwise defaulted to itself.     *)
Optional ==
    /\ schema.optin = "defaulted" => schema.applies
    /\ Wrap(Unary("optional", schema))

Nullable == Wrap(Unary("nullable", schema))

Default == Wrap(Unary("default", schema))

Catch == schema.type # "fallback" /\ Wrap(Unary("catch", schema))

(* Sizes that checks allow. Bound: no array or set of Values is longer.    *)
Sizes == {size \in [least : {0, 2}, most : {1, 2}] : size.least <= size.most}

Array ==
    \E size \in Sizes :
        Wrap([type |-> "array", kids |-> {schema}, inner |-> schema, size |-> size])

Record == Wrap(Unary("record", schema))

Transform ==
    Wrap([type |-> "effect", kids |-> {schema}, inner |-> schema, preprocess |-> FALSE])

(* The rung of a preprocess is its transform's, which is up to zod.        *)
Preprocess ==
    \E rung \in {"none", "optional"} :
        Wrap([type |-> "effect", kids |-> {schema}, inner |-> schema,
              preprocess |-> TRUE, rung |-> rung])

(* Both orders of the schema and one of the siblings.                      *)
Pairs(siblings) ==
    {<<schema, sibling>> : sibling \in siblings} \cup {<<sibling, schema>> : sibling \in siblings}

(* An object all of whose properties delegate is delegated as a whole.     *)
WrapObject(ir) ==
    /\ \E k \in DOMAIN ir.shape : ir.shape[k].type # "fallback"
    /\ ir.refine /\ ~AnyRefine =>
            /\ ir.unknown = "strict"
            /\ \A kid \in ir.kids : ~kid.mutates /\ ~kid.scrubs /\ ~kid.nested
    /\ Wrap(ir)

Object ==
    \E k \in Keys, unknown \in {"strip", "strict", "loose"}, refine \in BOOLEAN :
        \E others \in SUBSET (Keys \ {k}) : \E leaf \in [others -> Leaves] :
            WrapObject(ObjectIR([j \in {k} \cup others |-> IF j = k THEN schema ELSE leaf[j]],
                                unknown, refine))

(* catchall(z.any()) is a loose object, and one that delegates delegates.  *)
Catchall ==
    \E k \in Keys, pair \in Pairs(Leaves) :
        LET ir == ObjectIR([j \in {k} |-> pair[1]], "catchall", FALSE)
        IN  /\ pair[2].type \notin {"fallback", "any"}
            /\ WrapObject([type |-> "object", kids |-> {pair[1], pair[2]},
                           shape |-> ir.shape, unknown |-> ir.unknown,
                           refine |-> FALSE, catchall |-> pair[2]])

TupleIR(items, rest) ==
    [type |-> "tuple", items |-> items, rest |-> rest,
     kids |-> {items[i] : i \in DOMAIN items} \cup {rest[i] : i \in DOMAIN rest}]

Tuple ==
    \/ \E items \in {<<schema>>} \cup Pairs(Leaves) : Wrap(TupleIR(items, <<>>))
    \/ \E pair \in Pairs(Leaves) : Wrap(TupleIR(<<pair[1]>>, <<pair[2]>>))

Set ==
    \E size \in Sizes :
        Wrap([type |-> "set", kids |-> {schema}, key |-> schema, value |-> schema, size |-> size])

Map ==
    \E pair \in Pairs(Leaves) :
        Wrap([type |-> "map", kids |-> {pair[1], pair[2]}, key |-> pair[1], value |-> pair[2]])

(* What else would have to be frozen is left to zod.                       *)
Readonly ==
    /\ schema.noop \/ schema.fresh
    /\ Wrap([type |-> "readonly", kids |-> {schema}, inner |-> schema, freeze |-> ~schema.noop])

(* Bound: what the first schema hands to the second is one of Values.      *)
Feeds(first) == \A x \in Values : first.slow[x] \in Values \cup {Fail}

Pipe ==
    \E pair \in Pairs(Leaves) :
        /\ Feeds(pair[1])
        /\ Wrap([type |-> "pipe", kids |-> {pair[1], pair[2]},
                 in |-> pair[1], out |-> pair[2]])

(* Sides that rewrite or can report unrecognized keys are left to zod.     *)
Intersection ==
    \E pair \in Pairs(Leaves \cup Tagged) :
        /\ \A i \in DOMAIN pair : ~pair[i].mutates /\ ~pair[i].unrecognized
        /\ Feeds(pair[1])
        /\ Wrap([type |-> "intersection", kids |-> {pair[1], pair[2]},
                 left |-> pair[1], right |-> pair[2]])

(* Which of several possible keys is detected depends on their order.      *)
Union ==
    \E pair \in Pairs(Leaves \cup Tagged) :
        \E via \in IF Discriminators(pair) = {} THEN {{}}
                   ELSE {{k} : k \in Discriminators(pair)} :
            Wrap([type |-> "union", kids |-> {pair[1], pair[2]},
                  options |-> pair, via |-> via])

(* Every option dispatches on disc, no value twice.                        *)
DiscriminatedUnion ==
    \E pair \in Pairs(Tagged) : \E disc \in DOMAIN pair[1].props \cap DOMAIN pair[2].props :
        LET tag == [i \in 1 .. 2 |-> pair[i].props[disc]]
        IN  /\ tag[1].values # {} /\ tag[2].values # {}
            /\ tag[1].values \cap tag[2].values = {}
            /\ AnyTag \/ \A i \in 1 .. 2 : ~tag[i].required
            /\ Wrap([type |-> "discriminatedUnion", kids |-> {pair[1], pair[2]},
                     options |-> pair, disc |-> disc])

Init == schema \in Leaves \cup Tagged /\ depth = 0

Next ==
    /\ depth < MaxDepth
    /\ \/ Optional \/ Nullable \/ Default \/ Catch \/ Transform \/ Preprocess
       \/ Array \/ Record \/ Object \/ Catchall \/ Tuple
       \/ Set \/ Map \/ Readonly
       \/ Pipe \/ Intersection \/ Union \/ DiscriminatedUnion

Spec == Init /\ [][Next]_vars

-----------------------------------------------------------------------------
(* Properties.                                                             *)

(* Type correctness.                                                       *)
TypeOK ==
    /\ depth \in 0 .. MaxDepth
    /\ DOMAIN schema.slow = Values
    /\ schema.optin \in {"none", "optional", "defaulted"}
    /\ \A x \in Values : {schema.fast.ref[x], schema.fast.accept[x]} \subseteq BOOLEAN

(* Whatever branch generateValidator took, safeParse gives the answer of   *)
(* the slow walk that reproduces zod: same verdict, same parsed value.     *)
SafeParseMatchesWalk == \A x \in Values : SafeParse(schema, x) = schema.slow[x]

(* parse() hands back its own input only where zod would return that value.*)
ParseByReference == \A x \in Values : Parse(schema, x) = schema.slow[x]

(* Both entry points, whatever they run, are the walk.                     *)
ResultsMatchWalk == SafeParseMatchesWalk /\ ParseByReference

(* is() is true of exactly the inputs that parse.                          *)
GuardIsExact == \A x \in Values : Is(schema, x) <=> schema.slow[x] # Fail

(* The analyses the emitters trust: rejectsUndefined holds only of schemas *)
(* that fail on undefined and never produce it, outputAlwaysDefined of     *)
(* schemas that make something of an absent key, and a schema said not to  *)
(* rewrite returns its input, up to an own __proto__ on the way.           *)
AnalysisIsSound ==
    /\ schema.rejects => /\ schema.slow[Undefined] = Fail
                         /\ \A x \in Values : schema.slow[x] # Undefined
    /\ schema.always => schema.slow[Undefined] # Undefined
    /\ ~schema.mutates /\ ~schema.nested =>
            \A x \in Values : schema.slow[x] \in {IF schema.scrubs THEN Scrub(x) ELSE x, Fail}

(* What the compiled parts guarantee to the nodes that embed them: a       *)
(* by-reference check accepts only inputs the walk returns as they are, it *)
(* misses none where nothing rewrites, the acceptance form is the walk's   *)
(* verdict wherever the build pass may run, and that pass is the walk.     *)
PartsAgree ==
    \A x \in Values :
        /\ schema.fast.has /\ schema.fast.ref[x] /\ FastResultIsInput(schema)
                => schema.slow[x] = x
        /\ schema.fast.has /\ ~schema.mutates /\ ~schema.nested
                => (schema.fast.ref[x] <=> schema.slow[x] # Fail)
        /\ schema.fast.has /\ schema.build.has /\ ~schema.beyond
                => (schema.fast.accept[x] <=> schema.slow[x] # Fail)
        /\ schema.build.has /\ ~schema.beyond => schema.build.of[x] = schema.slow[x]

(* Nothing a node is told about its children, by the analyses or by what    *)
(* their parts guarantee, is wrong.                                         *)
ChildrenAreKnown == AnalysisIsSound /\ PartsAgree
=============================================================================
