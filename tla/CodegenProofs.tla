------------------------- MODULE CodegenProofs -------------------------
(* Machine-checked proofs about the code generator: the programs a node is *)
(* compiled to agree whenever those of its children do, whatever the       *)
(* children are, and so agree in every schema that the author composes.    *)
(* Good is what a node relies on of its children, and yields to its        *)
(* parent; most of this module shows it of one kind of node after another. *)
EXTENDS Codegen, FiniteSetTheorems, WellFoundedInduction, TLAPS

-----------------------------------------------------------------------------
(* What a parent relies on *)

(* The two forms of the fast check. *)
Forms == {"ref", "accept"}

(* What the analyses say of a schema fits together: what rewrites is       *)
(* rebuilt or is beyond the build pass, a check that can run in place is a *)
(* build pass, and a schema that rejects undefined is not optional to zod. *)
Flags(s) ==
  /\ s.mutates => s.rebuilds \/ s.beyond
  /\ s.scrubs \/ s.nested => s.rebuilds
  /\ s.fast.has /\ ~s.rebuilds => s.build.has
  /\ s.optin = "defaulted" => s.rebuilds
  /\ s.rejects => s.optin = "none"
  /\ s.always => s.optin = "none" \/ s.optout = "none"

(* A schema that makes something of undefined parses it; an object that    *)
(* the compiled code makes stands for no set of values.                    *)
Defaults(s) ==
  /\ s.applies => s.rebuilds /\ s.slow[Undefined] # Fail
  /\ s.fresh => s.values = {}

(* rejectsUndefined and outputAlwaysDefined hold of what they are said of. *)
Absent(s) ==
  /\ s.rejects => s.slow[Undefined] = Fail /\ \A x \in Values : s.slow[x] # Undefined
  /\ s.always => s.slow[Undefined] # Undefined

(* What is left of an input by a walk that may scrub it. *)
Cleaned(scrubs, x) == IF scrubs THEN Scrub(x) ELSE x

(* A schema said not to rewrite returns its input, up to own __proto__     *)
(* keys: in place where they are its own, somewhere inside where they are  *)
(* its children's.                                                         *)
Returns(s) ==
  ~s.mutates => \A x \in Values :
     /\ s.slow[x] \in {x, Fail} \/ (x \notin Prims /\ s.slow[x].kind = x.kind)
     /\ ~s.nested => s.slow[x] \in {Cleaned(s.scrubs, x), Fail}

(* A form of the fast check has the last word on an input where nothing is *)
(* rewritten, and the acceptance form wherever the build pass may run too. *)
Decides(s, form) ==
  \/ ~s.mutates /\ ~s.nested
  \/ form = "accept" /\ s.build.has /\ ~s.beyond

(* A fast check that decides is the verdict of the walk, and one that      *)
(* passes by reference passes only what the walk returns as it is.         *)
Verdicts(s) == s.fast.has => \A x \in Values :
  /\ \A form \in Forms : Decides(s, form) => (s.fast[form][x] <=> s.slow[x] # Fail)
  /\ s.fast.ref[x] /\ ~s.rebuilds /\ ~s.ordered => s.slow[x] = x

(* The build pass is the walk. *)
Rebuilt(s) == s.build.has /\ ~s.beyond => \A x \in Values : s.build.of[x] = s.slow[x]

(* The values a schema stands for are primitives that it accepts; a        *)
(* literal accepts nothing else.                                           *)
Pinned(s) ==
  /\ s.values \subseteq Prims
  /\ \A v \in s.values : s.slow[v] # Fail /\ (~s.rebuilds => s.slow[v] = v)
  /\ s.type = "literal" => /\ \A x \in Values : s.slow[x] = IF x \in s.values THEN x ELSE Fail
                           /\ s.optin = "none" /\ (s.rejects <=> Undefined \notin s.values)

(* A switch on k enters an option with x: its key's value is listed for    *)
(* that option, and the key may be skipped there.                          *)
Dispatched(s, k, x) ==
  IsObject(x) /\ Member(x, k) \in s.props[k].values /\ ~s.props[k].required

(* As an option of a switch on one of its keys, entered with a value that  *)
(* dispatches to it, a schema's check and its build pass are what they are *)
(* outside the switch; the keys a plain union may be switched on are       *)
(* matched by all that the walk accepts.                                   *)
Options(s) == \A k \in DOMAIN s.props :
  /\ s.rejects
  /\ s.props[k].literal /\ Undefined \notin s.props[k].values
       => /\ ~s.props[k].required
          /\ s.type = "object" => \A x \in Values : s.slow[x] # Fail => Dispatched(s, k, x)
  /\ \A x \in Values : Dispatched(s, k, x) =>
       /\ s.fast.has =>
           /\ \A form \in Forms : Decides(s, form) => (s.fast.at[k][form][x] <=> s.slow[x] # Fail)
           /\ s.fast.at[k].ref[x] /\ ~s.rebuilds /\ ~s.ordered => s.slow[x] = x
       /\ s.build.has /\ ~s.beyond => s.build.at[k][x] = s.slow[x]

(* The invariant of a compiled schema: everything its parent relies on. *)
Good(s) == /\ Flags(s) /\ Defaults(s) /\ Absent(s) /\ Returns(s)
           /\ Verdicts(s) /\ Rebuilt(s) /\ Pinned(s) /\ Options(s)

-----------------------------------------------------------------------------
(* From a node to what it is compiled to *)

(* What the analyses answer of a compiled node is what they answer of the  *)
(* node.                                                                   *)
LEMMA CompiledFlags ==
  ASSUME NEW ir
  PROVE  LET s == Compile(ir) IN
         /\ s.type = ir.type
         /\ s.mutates <=> HasMutation(ir)
         /\ s.rebuilds <=> Rebuilds(ir)
         /\ s.scrubs <=> NeedsProtoScrub(ir)
         /\ s.nested <=> NestedNeedsProtoScrub(ir)
         /\ s.beyond <=> MutatesBeyondStrip(ir)
         /\ s.ordered <=> Ordered(ir)
         /\ s.rejects <=> RejectsUndefined(ir)
         /\ s.always <=> OutputAlwaysDefined(ir)
         /\ s.fresh <=> FreezeTargetIsFresh(ir)
         /\ s.applies <=> InnerAppliesDefaultOnUndefined(ir)
         /\ s.optin = Optin(ir)
         /\ s.optout = Optout(ir)
         /\ s.values = PropValues(ir)
         /\ s.fast.has <=> HasFast(ir)
         /\ s.build.has <=> HasBuild(ir)
  BY DEF Compile

(* The tables of a compiled node are its programs. *)
LEMMA CompiledTables ==
  ASSUME NEW ir, NEW x \in Values
  PROVE  LET s == Compile(ir) IN
         /\ s.slow[x] = GenerateSlow(ir, x)
         /\ \A form \in Forms : s.fast[form][x] <=> HasFast(ir) /\ GenerateFast(ir, form, x)
         /\ s.fast.ref[x] <=> HasFast(ir) /\ GenerateFast(ir, "ref", x)
         /\ HasBuild(ir) => s.build.of[x] = Build(ir, x)
<1> DEFINE s == Compile(ir)
<1>1. s.fast.ref[x] <=> HasFast(ir) /\ GenerateFast(ir, "ref", x)
  BY DEF Compile
<1>2. s.fast.accept[x] <=> HasFast(ir) /\ GenerateFast(ir, "accept", x)
  BY DEF Compile
<1>3. s.slow[x] = GenerateSlow(ir, x)
  BY DEF Compile
<1>4. HasBuild(ir) => s.build.of[x] = Build(ir, x)
  BY DEF Compile
<1> HIDE DEF s
<1>5. ASSUME NEW form \in Forms
      PROVE  s.fast[form][x] <=> HasFast(ir) /\ GenerateFast(ir, form, x)
  <2>1. CASE form = "ref" BY <1>1, <2>1
  <2>2. CASE form = "accept" BY <1>2, <2>2
  <2> QED BY <2>1, <2>2 DEF Forms
<1>6. QED BY <1>1, <1>3, <1>4, <1>5 DEF s

(* The parts of Good, said of a node and its programs instead of the       *)
(* tables they are compiled to.                                            *)
NodeDecides(ir, form) ==
  \/ ~HasMutation(ir) /\ ~NestedNeedsProtoScrub(ir)
  \/ form = "accept" /\ HasBuild(ir) /\ ~MutatesBeyondStrip(ir)

NodeReturns(ir) ==
  ~HasMutation(ir) => \A x \in Values :
     /\ \/ GenerateSlow(ir, x) \in {x, Fail}
        \/ x \notin Prims /\ GenerateSlow(ir, x).kind = x.kind
     /\ ~NestedNeedsProtoScrub(ir) => GenerateSlow(ir, x) \in {Cleaned(NeedsProtoScrub(ir), x), Fail}

NodeVerdicts(ir) == HasFast(ir) => \A x \in Values :
  /\ \A form \in Forms : NodeDecides(ir, form) => (GenerateFast(ir, form, x) <=> GenerateSlow(ir, x) # Fail)
  /\ GenerateFast(ir, "ref", x) /\ ~Rebuilds(ir) /\ ~Ordered(ir) => GenerateSlow(ir, x) = x

NodeInline(ir) ==
  HasBuild(ir) /\ ~PassesThrough(ir) /\ ~MutatesBeyondStrip(ir)
    => \A x \in Values : BuildInline(ir, x) = GenerateSlow(ir, x)

NodeDefaults(ir) ==
  /\ InnerAppliesDefaultOnUndefined(ir) => Rebuilds(ir) /\ GenerateSlow(ir, Undefined) # Fail
  /\ FreezeTargetIsFresh(ir) => PropValues(ir) = {}

NodeAbsent(ir) ==
  /\ RejectsUndefined(ir) => /\ GenerateSlow(ir, Undefined) = Fail
                             /\ \A x \in Values : GenerateSlow(ir, x) # Undefined
  /\ OutputAlwaysDefined(ir) => GenerateSlow(ir, Undefined) # Undefined

NodePinned(ir) ==
  /\ PropValues(ir) \subseteq Prims
  /\ \A v \in PropValues(ir) :
        GenerateSlow(ir, v) # Fail /\ (~Rebuilds(ir) => GenerateSlow(ir, v) = v)
  /\ ir.type = "literal" => Optin(ir) = "none" /\ (RejectsUndefined(ir) <=> Undefined \notin PropValues(ir))
                            /\ \A x \in Values : GenerateSlow(ir, x) = IF x \in PropValues(ir) THEN x ELSE Fail

(* What is left to show of a node of a given kind. *)
Node(ir) == /\ NodeReturns(ir) /\ NodeVerdicts(ir) /\ NodeInline(ir)
            /\ NodeDefaults(ir) /\ NodeAbsent(ir) /\ NodePinned(ir)

(* The invariant of the children, as their parent uses it. *)
LEMMA KidReturns ==
  ASSUME NEW ir, NEW kid \in ir.kids, Good(kid), ~HasMutation(ir)
  PROVE  /\ \A x \in Values : \/ kid.slow[x] \in {x, Fail}
                              \/ x \notin Prims /\ kid.slow[x].kind = x.kind
         /\ ~NestedNeedsProtoScrub(ir) => \A x \in Values : kid.slow[x] \in {x, Fail}
<1>1. ~kid.mutates BY DEF HasMutation
<1>2. ~NestedNeedsProtoScrub(ir) => ~kid.scrubs /\ ~kid.nested BY DEF NestedNeedsProtoScrub
<1> QED BY <1>1, <1>2 DEF Good, Returns, Cleaned

(* A form that decides for a node decides for its children. *)
LEMMA KidVerdicts ==
  ASSUME NEW ir, \A kid \in ir.kids : Good(kid), HasFast(ir), NEW form \in Forms, NodeDecides(ir, form)
  PROVE  \A kid \in ir.kids : /\ kid.fast.has /\ Decides(kid, form)
                              /\ \A x \in Values : kid.fast[form][x] <=> kid.slow[x] # Fail
<1> SUFFICES ASSUME NEW kid \in ir.kids
             PROVE  kid.fast.has /\ Decides(kid, form)
  BY DEF Good, Verdicts
<1>1. kid.fast.has BY DEF HasFast
<1>2. CASE ~HasMutation(ir) /\ ~NestedNeedsProtoScrub(ir)
  BY <1>1, <1>2 DEF HasMutation, NestedNeedsProtoScrub, Decides
<1>3. CASE form = "accept" /\ HasBuild(ir) /\ ~MutatesBeyondStrip(ir)
  <2>1. ~kid.beyond BY <1>3 DEF MutatesBeyondStrip
  <2>2. ~kid.rebuilds => kid.build.has BY <1>1 DEF Good, Flags
  <2>3. PassesThrough(ir) => ~kid.rebuilds BY DEF PassesThrough, Rebuilds
  <2>4. ~PassesThrough(ir) => kid.build.has BY <1>3 DEF HasBuild
  <2> QED BY <1>1, <1>3, <2>1, <2>2, <2>3, <2>4 DEF Decides
<1> QED BY <1>2, <1>3 DEF NodeDecides

(* What a node passes by reference its children pass by reference. *)
LEMMA KidByReference ==
  ASSUME NEW ir, \A kid \in ir.kids : Good(kid), HasFast(ir), ~Rebuilds(ir), ~Ordered(ir)
  PROVE  \A kid \in ir.kids : /\ kid.fast.has /\ ~kid.rebuilds /\ ~kid.ordered
                              /\ \A x \in Values : kid.fast.ref[x] => kid.slow[x] = x
<1> SUFFICES ASSUME NEW kid \in ir.kids
             PROVE  kid.fast.has /\ ~kid.rebuilds /\ ~kid.ordered
  BY DEF Good, Verdicts
<1> QED BY DEF HasFast, Rebuilds, Ordered

(* A node's build pass may call its children's. *)
LEMMA KidRebuilt ==
  ASSUME NEW ir, \A kid \in ir.kids : Good(kid), HasBuild(ir), ~PassesThrough(ir), ~MutatesBeyondStrip(ir)
  PROVE  \A kid \in ir.kids : /\ kid.build.has /\ ~kid.beyond
                              /\ \A x \in Values : kid.build.of[x] = kid.slow[x]
<1> SUFFICES ASSUME NEW kid \in ir.kids
             PROVE  kid.build.has /\ ~kid.beyond
  BY DEF Good, Rebuilt
<1> QED BY DEF HasBuild, MutatesBeyondStrip

(* The kinds of nodes. *)
Types == {"literal", "any", "fallback", "string", "optional", "nullable", "default", "catch", "record",
          "effect", "readonly", "array", "object", "tuple", "set", "map", "pipe", "intersection",
          "union", "discriminatedUnion"}

(* The analyses of rewriting fit together in every node. *)
LEMMA NodeFlags ==
  ASSUME NEW ir, ir.type \in Types, \A kid \in ir.kids : Good(kid)
  PROVE  /\ HasMutation(ir) => Rebuilds(ir) \/ MutatesBeyondStrip(ir)
         /\ NeedsProtoScrub(ir) \/ NestedNeedsProtoScrub(ir) => Rebuilds(ir)
         /\ HasFast(ir) /\ ~Rebuilds(ir) => HasBuild(ir)
<1>1. \A kid \in ir.kids : /\ kid.mutates => kid.rebuilds \/ kid.beyond
                           /\ kid.scrubs \/ kid.nested => kid.rebuilds
  BY DEF Good, Flags
<1>2. HasMutation(ir) => Rebuilds(ir) \/ MutatesBeyondStrip(ir)
  BY <1>1 DEF HasMutation, Rebuilds, RebuildsHere, MutatesBeyondStrip
<1>3. NeedsProtoScrub(ir) \/ NestedNeedsProtoScrub(ir) => Rebuilds(ir)
  BY <1>1 DEF Rebuilds, NestedNeedsProtoScrub
<1>4. HasFast(ir) /\ ~Rebuilds(ir) => HasBuild(ir)
  BY DEF HasBuild, PassesThrough
<1> QED BY <1>2, <1>3, <1>4

(* What is said of optin and optout. *)
Wired(ir) ==
  /\ ir.type \in {"optional", "nullable", "catch", "readonly"} => ir.inner \in ir.kids
  /\ ir.type = "pipe" => ir.in \in ir.kids

(* So do those of absence with what zod says of optin and optout. *)
LEMMA NodeRungs ==
  ASSUME NEW ir, ir.type \in Types, \A kid \in ir.kids : Good(kid), Wired(ir)
  PROVE  /\ Optin(ir) = "defaulted" => Rebuilds(ir)
         /\ RejectsUndefined(ir) => Optin(ir) = "none"
         /\ OutputAlwaysDefined(ir) => Optin(ir) = "none" \/ Optout(ir) = "none"
<1>1. \A kid \in ir.kids : /\ kid.optin = "defaulted" => kid.rebuilds
                           /\ kid.rejects => kid.optin = "none"
  BY DEF Good, Flags
<1>2. (\E kid \in ir.kids : kid.rebuilds) => Rebuilds(ir)
  BY DEF Rebuilds
<1>3. ir.type \in {"default", "effect"} => Rebuilds(ir)
  BY DEF Rebuilds, RebuildsHere
<1>4. Optin(ir) = "defaulted" => Rebuilds(ir)
  BY <1>1, <1>2, <1>3 DEF Optin, Wired
<1>5. RejectsUndefined(ir) => Optin(ir) = "none"
  BY <1>1 DEF RejectsUndefined, Optin, Wired
<1>6. OutputAlwaysDefined(ir) => Optin(ir) = "none" \/ Optout(ir) = "none"
  BY <1>5 DEF OutputAlwaysDefined, Optout
<1> QED BY <1>4, <1>5, <1>6

(* A node that is checked in place rewrites nothing, or drops a __proto__. *)
LEMMA InPlace ==
  ASSUME NEW ir, ir.type \in Types, \A kid \in ir.kids : Good(kid), PassesThrough(ir), ~MutatesBeyondStrip(ir)
  PROVE  ~HasMutation(ir) /\ ~NestedNeedsProtoScrub(ir)
<1>1. \A kid \in ir.kids : ~kid.rebuilds
  BY DEF PassesThrough, Rebuilds
<1>2. \A kid \in ir.kids : ~kid.mutates /\ ~kid.scrubs /\ ~kid.nested
  BY <1>1 DEF Good, Flags, MutatesBeyondStrip
<1>3. ~NestedNeedsProtoScrub(ir)
  BY <1>2 DEF NestedNeedsProtoScrub
<1>4. ~HasMutation(ir)
  <2>1. CASE ~Rebuilds(ir)
    BY <2>1, NodeFlags
  <2>2. CASE NeedsProtoScrub(ir)
    BY <2>2, <1>2 DEF NeedsProtoScrub, HasMutation
  <2> QED BY <2>1, <2>2 DEF PassesThrough
<1> QED BY <1>3, <1>4

(* The build pass of a node checked in place is the walk, too. *)
LEMMA NodeRebuilt ==
  ASSUME NEW ir, ir.type \in Types, \A kid \in ir.kids : Good(kid),
         NodeReturns(ir), NodeVerdicts(ir), NodeInline(ir),
         HasBuild(ir), ~MutatesBeyondStrip(ir), NEW x \in Values
  PROVE  Build(ir, x) = GenerateSlow(ir, x)
<1>1. CASE ~PassesThrough(ir)
  BY <1>1 DEF NodeInline, Build
<1>2. CASE PassesThrough(ir)
  <2>1. ~HasMutation(ir) /\ ~NestedNeedsProtoScrub(ir)
    BY <1>2, InPlace
  <2>2. HasFast(ir)
    BY <1>2 DEF HasBuild
  <2>3. GenerateFast(ir, "ref", x) <=> GenerateSlow(ir, x) # Fail
    BY <2>1, <2>2 DEF NodeVerdicts, NodeDecides, Forms
  <2>4. GenerateSlow(ir, x) \in {Cleaned(NeedsProtoScrub(ir), x), Fail}
    BY <2>1 DEF NodeReturns
  <2> QED BY <1>2, <2>3, <2>4 DEF Build, PassThrough, Cleaned
<1> QED BY <1>1, <1>2

(* A node of whose kind enough is shown is compiled to a good schema. *)
LEMMA NodeIsGood ==
  ASSUME NEW ir, ir.type \in Types, Wired(ir), \A kid \in ir.kids : Good(kid), Node(ir), Options(Compile(ir))
  PROVE  Good(Compile(ir))
<1> DEFINE s == Compile(ir)
<1>0. Undefined \in Values /\ Prims \subseteq Values
  BY PrimsAssumption DEF Prims
<1>1. /\ s.type = ir.type
      /\ s.mutates <=> HasMutation(ir)
      /\ s.rebuilds <=> Rebuilds(ir)
      /\ s.scrubs <=> NeedsProtoScrub(ir)
      /\ s.nested <=> NestedNeedsProtoScrub(ir)
      /\ s.beyond <=> MutatesBeyondStrip(ir)
      /\ s.ordered <=> Ordered(ir)
      /\ s.rejects <=> RejectsUndefined(ir)
      /\ s.always <=> OutputAlwaysDefined(ir)
      /\ s.fresh <=> FreezeTargetIsFresh(ir)
      /\ s.applies <=> InnerAppliesDefaultOnUndefined(ir)
      /\ s.optin = Optin(ir)
      /\ s.optout = Optout(ir)
      /\ s.values = PropValues(ir)
      /\ s.fast.has <=> HasFast(ir)
      /\ s.build.has <=> HasBuild(ir)
  BY CompiledFlags
<1>2. \A x \in Values : 
         /\ s.slow[x] = GenerateSlow(ir, x)
         /\ \A form \in Forms : s.fast[form][x] <=> HasFast(ir) /\ GenerateFast(ir, form, x)
         /\ s.fast.ref[x] <=> HasFast(ir) /\ GenerateFast(ir, "ref", x)
         /\ HasBuild(ir) => s.build.of[x] = Build(ir, x)
  BY CompiledTables
<1>3. Options(s)
  OBVIOUS
<1> HIDE DEF s
<1>4. Flags(s)
  BY <1>1, NodeFlags, NodeRungs DEF Flags
<1>5. Defaults(s)
  BY <1>0, <1>1, <1>2 DEF Defaults, Node, NodeDefaults
<1>6. Absent(s)
  BY <1>0, <1>1, <1>2 DEF Absent, Node, NodeAbsent
<1>7. Returns(s)
  BY <1>1, <1>2 DEF Returns, Cleaned, Node, NodeReturns
<1>8. Verdicts(s)
  BY <1>1, <1>2 DEF Verdicts, Decides, Node, NodeVerdicts, NodeDecides
<1>9. Rebuilt(s)
  BY <1>1, <1>2, NodeRebuilt DEF Rebuilt, Node
<1>10. Pinned(s)
  BY <1>0, <1>1, <1>2 DEF Pinned, Node, NodePinned
<1> QED BY <1>3, <1>4, <1>5, <1>6, <1>7, <1>8, <1>9, <1>10 DEF Good, s

(* Only objects, and what freezes one, are options of a switch. *)
LEMMA NoOptions ==
  ASSUME NEW ir, ir.type \notin {"object", "readonly"}
  PROVE  Options(Compile(ir))
<1>1. Compile(ir).props = <<>>
  BY DEF Compile
<1>2. DOMAIN Compile(ir).props = {}
  BY <1>1
<1> QED BY <1>2 DEF Options

-----------------------------------------------------------------------------
(* One lemma per kind of node. *)

(* The special values are inputs, and apart. *)
LEMMA Basics ==
  /\ {Undefined, Null} \cup Text \subseteq Prims /\ Prims \subseteq Values
  /\ \A x \in Values : x # Fail
  /\ Undefined # Null /\ Undefined \notin Text
  /\ \A x \in Text : Overwrite(x) \in Text
  /\ Substitute # Fail
<1>1. \A x \in Values : x # Fail
  BY ValuesAssumption DEF Fail
<1> QED BY <1>1, PrimsAssumption DEF Prims

(* Kinds that neither stand for a set of values nor default nor reject. *)
LEMMA PlainKind ==
  ASSUME NEW ir, ir.type \in {"any", "fallback", "effect", "pipe", "catch"}
  PROVE  /\ ir.type # "catch" => NodePinned(ir)
         /\ NodeDefaults(ir) /\ NodeAbsent(ir)
<1>1. ir.type # "catch" => PropValues(ir) = {}
  BY DEF PropValues
<1>2. ~InnerAppliesDefaultOnUndefined(ir) /\ ~FreezeTargetIsFresh(ir) /\ ~RejectsUndefined(ir)
  BY DEF InnerAppliesDefaultOnUndefined, FreezeTargetIsFresh, RejectsUndefined
<1>3. ~OutputAlwaysDefined(ir)
  BY <1>2 DEF OutputAlwaysDefined
<1> QED BY <1>1, <1>2, <1>3 DEF NodePinned, NodeDefaults, NodeAbsent

(* z.literal() *)
LEMMA LiteralNode ==
  ASSUME NEW ir, ir.type = "literal", ir.kids = {}, ir.values \subseteq Prims
  PROVE  Node(ir)
<1>1. \A x : GenerateSlow(ir, x) = IF x \in ir.values THEN x ELSE Fail
  BY DEF GenerateSlow, SlowLiteral
<1>2. \A form, x : GenerateFast(ir, form, x) <=> x \in ir.values
  BY DEF GenerateFast
<1>3. PropValues(ir) = ir.values /\ Optin(ir) = "none" /\ (RejectsUndefined(ir) <=> Undefined \notin ir.values)
  BY DEF PropValues, Optin, RejectsUndefined
<1>4. \A x \in Values : x # Fail
  BY ValuesAssumption DEF Fail
<1>5. ~NeedsProtoScrub(ir) /\ ~Rebuilds(ir) /\ ir.values \subseteq Values
  BY DEF NeedsProtoScrub, Rebuilds, RebuildsHere, Prims
<1>6. NodeReturns(ir)
  BY <1>1, <1>5 DEF NodeReturns, Cleaned
<1>7. NodeVerdicts(ir)
  BY <1>1, <1>2, <1>4, <1>5 DEF NodeVerdicts
<1>8. NodeInline(ir)
  BY <1>5 DEF NodeInline, PassesThrough
<1>9. NodeDefaults(ir)
  BY DEF NodeDefaults, InnerAppliesDefaultOnUndefined, FreezeTargetIsFresh
<1>10. NodeAbsent(ir)
  BY <1>1, <1>3, <1>4, PrimsAssumption DEF NodeAbsent, OutputAlwaysDefined, Prims
<1>11. NodePinned(ir)
  BY <1>1, <1>3, <1>4, <1>5 DEF NodePinned
<1> QED BY <1>6, <1>7, <1>8, <1>9, <1>10, <1>11 DEF Node

(* z.any() *)
LEMMA AnyNode ==
  ASSUME NEW ir, ir.type = "any", ir.kids = {}
  PROVE  Node(ir)
<1>1. \A x : GenerateSlow(ir, x) = x
  BY DEF GenerateSlow
<1>2. \A form, x : GenerateFast(ir, form, x)
  BY DEF GenerateFast
<1>3. ~NeedsProtoScrub(ir) /\ ~Rebuilds(ir)
  BY DEF NeedsProtoScrub, Rebuilds, RebuildsHere
<1>4. NodeReturns(ir) /\ NodeVerdicts(ir)
  BY <1>1, <1>2, <1>3, Basics DEF NodeReturns, NodeVerdicts, Cleaned
<1>5. NodeInline(ir)
  BY <1>3 DEF NodeInline, PassesThrough
<1> QED BY <1>4, <1>5, PlainKind DEF Node

(* What is delegated to zod. *)
LEMMA FallbackNode ==
  ASSUME NEW ir, ir.type = "fallback", ir.kids = {}
  PROVE  Node(ir)
<1>1. HasMutation(ir) /\ ~HasFast(ir) /\ MutatesBeyondStrip(ir)
  BY DEF HasMutation, HasFast, MutatesBeyondStrip
<1>2. NodeReturns(ir) /\ NodeVerdicts(ir) /\ NodeInline(ir)
  BY <1>1 DEF NodeReturns, NodeVerdicts, NodeInline
<1> QED BY <1>2, PlainKind DEF Node

(* z.string(), which may be overwritten by a trim(). *)
LEMMA StringNode ==
  ASSUME NEW ir, ir.type = "string", ir.kids = {}, ir.overwrites \in BOOLEAN
  PROVE  Node(ir)
<1>1. \A x : GenerateSlow(ir, x) = IF x \notin Text THEN Fail ELSE IF ir.overwrites THEN Overwrite(x) ELSE x
  BY DEF GenerateSlow
<1>2. \A form, x : GenerateFast(ir, form, x) <=> x \in Text
  BY DEF GenerateFast
<1>3. \A x : BuildInline(ir, x) = IF x \in Text THEN Overwrite(x) ELSE Fail
  BY DEF BuildInline
<1>4. ~NeedsProtoScrub(ir) /\ (Rebuilds(ir) <=> ir.overwrites) /\ (HasMutation(ir) <=> ir.overwrites)
  BY DEF NeedsProtoScrub, Rebuilds, RebuildsHere, HasMutation
<1>5. PropValues(ir) = {} /\ ~InnerAppliesDefaultOnUndefined(ir) /\ ~FreezeTargetIsFresh(ir)
  BY DEF PropValues, InnerAppliesDefaultOnUndefined, FreezeTargetIsFresh
<1>6. HasFast(ir) => ~ir.overwrites
  BY DEF HasFast
<1>7. NodeReturns(ir)
  BY <1>1, <1>4 DEF NodeReturns, Cleaned
<1>8. NodeVerdicts(ir)
  BY <1>1, <1>2, <1>6, Basics DEF NodeVerdicts
<1>9. NodeInline(ir)
  BY <1>1, <1>3, <1>4 DEF NodeInline, PassesThrough
<1>10. NodeAbsent(ir)
  <2>1. \A x : GenerateSlow(ir, x) # Undefined
    BY <1>1, Basics
  <2>2. GenerateSlow(ir, Undefined) = Fail
    BY <1>1, Basics
  <2> QED BY <2>1, <2>2 DEF NodeAbsent
<1>11. NodeDefaults(ir) /\ NodePinned(ir)
  BY <1>5 DEF NodeDefaults, NodePinned
<1> QED BY <1>7, <1>8, <1>9, <1>10, <1>11 DEF Node

(* z.optional() *)
LEMMA OptionalNode ==
  ASSUME NEW ir, ir.type = "optional", ir.kids = {ir.inner}, Good(ir.inner)
  PROVE  Node(ir)
<1> DEFINE kid == ir.inner
<1>0. \A k \in ir.kids : Good(k)
  OBVIOUS
<1>1. \A x : GenerateSlow(ir, x) = IF x = Undefined /\ ~kid.applies THEN x ELSE kid.slow[x]
  BY DEF GenerateSlow, SlowOptional
<1>2. \A form, x : GenerateFast(ir, form, x) <=> (x = Undefined /\ ~kid.applies) \/ kid.fast[form][x]
  BY DEF GenerateFast, FastOptional
<1>3. \A x : BuildInline(ir, x) = IF x = Undefined /\ ~kid.applies THEN x ELSE kid.build.of[x]
  BY DEF BuildInline
<1>4. ~NeedsProtoScrub(ir) /\ ~RejectsUndefined(ir) /\ ~FreezeTargetIsFresh(ir)
      /\ (InnerAppliesDefaultOnUndefined(ir) <=> kid.applies)
  BY DEF NeedsProtoScrub, RejectsUndefined, InnerAppliesDefaultOnUndefined, FreezeTargetIsFresh
<1>5. Undefined \in Values
  BY Basics
<1>6. kid.rebuilds => Rebuilds(ir)
  BY DEF Rebuilds
<1>7. NodeReturns(ir)
  BY <1>1, <1>4, KidReturns, Basics DEF NodeReturns, Cleaned
<1>8. NodeVerdicts(ir)
  <2> SUFFICES ASSUME HasFast(ir), NEW x \in Values
               PROVE  /\ \A form \in Forms : NodeDecides(ir, form) => (GenerateFast(ir, form, x) <=> GenerateSlow(ir, x) # Fail)
                      /\ GenerateFast(ir, "ref", x) /\ ~Rebuilds(ir) /\ ~Ordered(ir) => GenerateSlow(ir, x) = x
    BY DEF NodeVerdicts
  <2>1. ASSUME NEW form \in Forms, NodeDecides(ir, form)
        PROVE  GenerateFast(ir, form, x) <=> GenerateSlow(ir, x) # Fail
    BY <1>0, <1>1, <1>2, <2>1, KidVerdicts, Basics
  <2>2. GenerateFast(ir, "ref", x) /\ ~Rebuilds(ir) /\ ~Ordered(ir) => GenerateSlow(ir, x) = x
    BY <1>0, <1>1, <1>2, KidByReference
  <2> QED BY <2>1, <2>2
<1>9. NodeInline(ir)
  BY <1>0, <1>1, <1>3, KidRebuilt DEF NodeInline
<1>10. NodeDefaults(ir)
  BY <1>1, <1>4, <1>6 DEF NodeDefaults, Good, Defaults
<1>11. NodeAbsent(ir)
  BY <1>4 DEF NodeAbsent, OutputAlwaysDefined
<1>12. NodePinned(ir)
  <2>1. PropValues(ir) = IF kid.values = {} THEN {} ELSE kid.values \cup {Undefined}
    BY DEF PropValues
  <2>2. kid.values \subseteq Prims /\ \A v \in kid.values : kid.slow[v] # Fail /\ (~kid.rebuilds => kid.slow[v] = v)
    BY DEF Good, Pinned
  <2>3. kid.applies => kid.rebuilds /\ kid.slow[Undefined] # Fail
    BY DEF Good, Defaults
  <2> QED BY <1>1, <1>6, <2>1, <2>2, <2>3, Basics DEF NodePinned
<1> QED BY <1>7, <1>8, <1>9, <1>10, <1>11, <1>12 DEF Node

(* z.nullable() *)
LEMMA NullableNode ==
  ASSUME NEW ir, ir.type = "nullable", ir.kids = {ir.inner}, Good(ir.inner)
  PROVE  Node(ir)
<1> DEFINE kid == ir.inner
<1>0. \A k \in ir.kids : Good(k)
  OBVIOUS
<1>1. \A x : GenerateSlow(ir, x) = IF x = Null THEN x ELSE kid.slow[x]
  BY DEF GenerateSlow, SlowNullable
<1>2. \A form, x : GenerateFast(ir, form, x) <=> x = Null \/ kid.fast[form][x]
  BY DEF GenerateFast
<1>3. \A x : BuildInline(ir, x) = IF x = Null THEN x ELSE kid.build.of[x]
  BY DEF BuildInline
<1>4. ~NeedsProtoScrub(ir) /\ ~FreezeTargetIsFresh(ir) /\ (RejectsUndefined(ir) <=> kid.rejects)
      /\ (InnerAppliesDefaultOnUndefined(ir) <=> kid.applies)
  BY DEF NeedsProtoScrub, RejectsUndefined, InnerAppliesDefaultOnUndefined, FreezeTargetIsFresh
<1>6. kid.rebuilds => Rebuilds(ir)
  BY DEF Rebuilds
<1>7. NodeReturns(ir)
  BY <1>1, <1>4, KidReturns, Basics DEF NodeReturns, Cleaned
<1>8. NodeVerdicts(ir)
  <2> SUFFICES ASSUME HasFast(ir), NEW x \in Values
               PROVE  /\ \A form \in Forms : NodeDecides(ir, form) => (GenerateFast(ir, form, x) <=> GenerateSlow(ir, x) # Fail)
                      /\ GenerateFast(ir, "ref", x) /\ ~Rebuilds(ir) /\ ~Ordered(ir) => GenerateSlow(ir, x) = x
    BY DEF NodeVerdicts
  <2>1. ASSUME NEW form \in Forms, NodeDecides(ir, form)
        PROVE  GenerateFast(ir, form, x) <=> GenerateSlow(ir, x) # Fail
    BY <1>0, <1>1, <1>2, <2>1, KidVerdicts, Basics
  <2>2. GenerateFast(ir, "ref", x) /\ ~Rebuilds(ir) /\ ~Ordered(ir) => GenerateSlow(ir, x) = x
    BY <1>0, <1>1, <1>2, KidByReference
  <2> QED BY <2>1, <2>2
<1>9. NodeInline(ir)
  BY <1>0, <1>1, <1>3, KidRebuilt DEF NodeInline
<1>10. NodeDefaults(ir)
  BY <1>1, <1>4, <1>6, Basics DEF NodeDefaults, Good, Defaults
<1>11. NodeAbsent(ir)
  <2>1. kid.rejects => kid.slow[Undefined] = Fail /\ \A x \in Values : kid.slow[x] # Undefined
    BY DEF Good, Absent
  <2> QED BY <1>1, <1>4, <2>1, Basics DEF NodeAbsent, OutputAlwaysDefined
<1>12. NodePinned(ir)
  <2>1. PropValues(ir) = IF kid.values = {} THEN {} ELSE kid.values \cup {Null}
    BY DEF PropValues
  <2>2. kid.values \subseteq Prims /\ \A v \in kid.values : kid.slow[v] # Fail /\ (~kid.rebuilds => kid.slow[v] = v)
    BY DEF Good, Pinned
  <2> QED BY <1>1, <1>6, <2>1, <2>2, Basics DEF NodePinned
<1> QED BY <1>7, <1>8, <1>9, <1>10, <1>11, <1>12 DEF Node

(* z.default() *)
LEMMA DefaultNode ==
  ASSUME NEW ir, ir.type = "default", ir.kids = {ir.inner}, Good(ir.inner)
  PROVE  Node(ir)
<1> DEFINE kid == ir.inner
<1>0. \A k \in ir.kids : Good(k)
  OBVIOUS
<1>1. \A x : GenerateSlow(ir, x) = IF x = Undefined THEN Substitute
                                   ELSE IF kid.slow[x] = Undefined /\ ~kid.rejects THEN Substitute
                                   ELSE kid.slow[x]
  BY DEF GenerateSlow, SlowDefault
<1>2. \A x : GenerateFast(ir, "accept", x) <=> x = Undefined \/ kid.fast["accept"][x]
  BY DEF GenerateFast, FastDefault
<1>3. \A x : BuildInline(ir, x) = IF x = Undefined THEN Substitute
                                  ELSE IF kid.build.of[x] = Undefined /\ ~kid.rejects THEN Substitute
                                  ELSE kid.build.of[x]
  BY DEF BuildInline, BuildDefault
<1>4. ~FreezeTargetIsFresh(ir) /\ ~RejectsUndefined(ir) /\ HasMutation(ir) /\ Rebuilds(ir)
      /\ (OutputAlwaysDefined(ir) <=> Substitute # Undefined)
  BY DEF RejectsUndefined, FreezeTargetIsFresh, HasMutation, Rebuilds, RebuildsHere, OutputAlwaysDefined
<1>5. NodeReturns(ir)
  BY <1>4 DEF NodeReturns
<1>6. NodeVerdicts(ir)
  <2> SUFFICES ASSUME HasFast(ir), NEW x \in Values, NodeDecides(ir, "accept")
               PROVE  GenerateFast(ir, "accept", x) <=> GenerateSlow(ir, x) # Fail
    BY <1>4 DEF NodeVerdicts, NodeDecides
  <2> QED BY <1>0, <1>1, <1>2, KidVerdicts, Basics DEF Forms
<1>7. NodeInline(ir)
  BY <1>0, <1>1, <1>3, KidRebuilt DEF NodeInline
<1>8. NodeDefaults(ir) /\ NodeAbsent(ir)
  BY <1>1, <1>4, Basics DEF NodeDefaults, NodeAbsent
<1>9. NodePinned(ir)
  <2>1. PropValues(ir) = kid.values
    BY DEF PropValues
  <2>2. kid.values \subseteq Prims /\ \A v \in kid.values : kid.slow[v] # Fail
    BY DEF Good, Pinned
  <2> QED BY <1>1, <1>4, <2>1, <2>2, Basics DEF NodePinned
<1> QED BY <1>5, <1>6, <1>7, <1>8, <1>9 DEF Node

(* z.catch() *)
LEMMA CatchNode ==
  ASSUME NEW ir, ir.type = "catch", ir.kids = {ir.inner}, Good(ir.inner)
  PROVE  Node(ir)
<1> DEFINE kid == ir.inner
<1>0. \A k \in ir.kids : Good(k)
  OBVIOUS
<1>1. \A x : GenerateSlow(ir, x) = IF kid.slow[x] = Fail THEN Substitute ELSE kid.slow[x]
  BY DEF GenerateSlow, SlowCatch
<1>2. \A x : GenerateFast(ir, "ref", x) <=> kid.fast["ref"][x]
  BY DEF GenerateFast
<1>3. HasMutation(ir) /\ MutatesBeyondStrip(ir) /\ (kid.rebuilds => Rebuilds(ir))
  BY DEF HasMutation, MutatesBeyondStrip, Rebuilds
<1>4. NodeReturns(ir) /\ NodeInline(ir)
  BY <1>3 DEF NodeReturns, NodeInline
<1>5. NodeVerdicts(ir)
  <2> SUFFICES ASSUME HasFast(ir), NEW x \in Values, GenerateFast(ir, "ref", x), ~Rebuilds(ir), ~Ordered(ir)
               PROVE  GenerateSlow(ir, x) = x
    BY <1>3 DEF NodeVerdicts, NodeDecides
  <2> QED BY <1>0, <1>1, <1>2, KidByReference, Basics
<1>6. NodePinned(ir)
  <2>1. PropValues(ir) = kid.values
    BY DEF PropValues
  <2>2. kid.values \subseteq Prims /\ \A v \in kid.values : kid.slow[v] # Fail /\ (~kid.rebuilds => kid.slow[v] = v)
    BY DEF Good, Pinned
  <2> QED BY <1>1, <1>3, <2>1, <2>2, Basics DEF NodePinned
<1> QED BY <1>4, <1>5, <1>6, PlainKind DEF Node

(* z.transform() and z.preprocess() *)
LEMMA EffectNode ==
  ASSUME NEW ir, ir.type = "effect", ir.kids = {ir.inner}, Good(ir.inner)
  PROVE  Node(ir)
<1> DEFINE kid == ir.inner
<1>0. \A k \in ir.kids : Good(k)
  OBVIOUS
<1>1. \A x : GenerateSlow(ir, x) = IF ir.preprocess THEN kid.slow[Callback(x)]
                                   ELSE IF kid.slow[x] = Fail THEN Fail ELSE Callback(kid.slow[x])
  BY DEF GenerateSlow, SlowEffect
<1>2. \A x : BuildInline(ir, x) = IF ir.preprocess THEN kid.build.of[Callback(x)]
                                  ELSE IF kid.build.of[x] = Fail THEN Fail ELSE Callback(kid.build.of[x])
  BY DEF BuildInline, BuildEffect
<1>3. HasMutation(ir) /\ ~HasFast(ir)
  BY DEF HasMutation, HasFast
<1>4. NodeReturns(ir) /\ NodeVerdicts(ir)
  BY <1>3 DEF NodeReturns, NodeVerdicts
<1>5. NodeInline(ir)
  <2> SUFFICES ASSUME HasBuild(ir), ~PassesThrough(ir), ~MutatesBeyondStrip(ir), NEW x \in Values
               PROVE  BuildInline(ir, x) = GenerateSlow(ir, x)
    BY DEF NodeInline
  <2>1. kid.build.of[x] = kid.slow[x] /\ kid.build.of[Callback(x)] = kid.slow[Callback(x)]
    BY <1>0, KidRebuilt, ConstantsAssumption
  <2> QED BY <1>1, <1>2, <2>1
<1> QED BY <1>4, <1>5, PlainKind DEF Node

(* Freezing neither fails nor makes undefined. *)
LEMMA Freezing ==
  ASSUME NEW v
  PROVE  (Freeze(v) = Fail <=> v = Fail) /\ (Freeze(v) = Undefined <=> v = Undefined)
<1>1. Undefined.kind = "prim" /\ Fail.kind = "fail"
  BY PrimsAssumption DEF Prims, Fail
<1>2. IsObject(v) => Freeze(v).kind = "object" /\ v.kind = "object"
  BY DEF Freeze, IsObject
<1>3. ~IsObject(v) => Freeze(v) = v
  BY DEF Freeze
<1> QED BY <1>1, <1>2, <1>3

(* z.readonly() *)
LEMMA ReadonlyNode ==
  ASSUME NEW ir, ir.type = "readonly", ir.kids = {ir.inner}, Good(ir.inner),
         ir.freeze \in BOOLEAN, ir.freeze => ir.inner.fresh
  PROVE  Node(ir)
<1> DEFINE kid == ir.inner
<1>0. \A k \in ir.kids : Good(k)
  OBVIOUS
<1>1. \A x : GenerateSlow(ir, x) = IF ir.freeze THEN Freeze(kid.slow[x]) ELSE kid.slow[x]
  BY DEF GenerateSlow, SlowReadonly
<1>2. \A form, x : GenerateFast(ir, form, x) <=> kid.fast[form][x]
  BY DEF GenerateFast
<1>3. \A x : BuildInline(ir, x) = IF ir.freeze THEN Freeze(kid.build.of[x]) ELSE kid.build.of[x]
  BY DEF BuildInline, BuildReadonly
<1>4. ~NeedsProtoScrub(ir) /\ ~InnerAppliesDefaultOnUndefined(ir) /\ (FreezeTargetIsFresh(ir) <=> kid.fresh)
      /\ (RejectsUndefined(ir) <=> kid.rejects)
  BY DEF NeedsProtoScrub, RejectsUndefined, InnerAppliesDefaultOnUndefined, FreezeTargetIsFresh
<1>5. (ir.freeze \/ kid.rebuilds => Rebuilds(ir)) /\ (ir.freeze => HasMutation(ir))
  BY DEF Rebuilds, RebuildsHere, HasMutation
<1>6. NodeReturns(ir)
  BY <1>1, <1>4, <1>5, KidReturns DEF NodeReturns, Cleaned
<1>7. NodeVerdicts(ir)
  <2> SUFFICES ASSUME HasFast(ir), NEW x \in Values
               PROVE  /\ \A form \in Forms : NodeDecides(ir, form) => (GenerateFast(ir, form, x) <=> GenerateSlow(ir, x) # Fail)
                      /\ GenerateFast(ir, "ref", x) /\ ~Rebuilds(ir) /\ ~Ordered(ir) => GenerateSlow(ir, x) = x
    BY DEF NodeVerdicts
  <2>1. ASSUME NEW form \in Forms, NodeDecides(ir, form)
        PROVE  GenerateFast(ir, form, x) <=> GenerateSlow(ir, x) # Fail
    BY <1>0, <1>1, <1>2, <2>1, KidVerdicts, Freezing
  <2>2. GenerateFast(ir, "ref", x) /\ ~Rebuilds(ir) /\ ~Ordered(ir) => GenerateSlow(ir, x) = x
    BY <1>0, <1>1, <1>2, <1>5, KidByReference
  <2> QED BY <2>1, <2>2
<1>8. NodeInline(ir)
  BY <1>0, <1>1, <1>3, KidRebuilt DEF NodeInline
<1>9. PropValues(ir) = kid.values /\ (kid.fresh => kid.values = {})
  BY DEF PropValues, Good, Defaults
<1>10. NodeDefaults(ir)
  BY <1>4, <1>9 DEF NodeDefaults
<1>11. NodeAbsent(ir)
  <2>1. kid.rejects => kid.slow[Undefined] = Fail /\ \A x \in Values : kid.slow[x] # Undefined
    BY DEF Good, Absent
  <2> QED BY <1>1, <1>4, <2>1, Basics, Freezing DEF NodeAbsent, OutputAlwaysDefined
<1>12. NodePinned(ir)
  <2>1. kid.values \subseteq Prims /\ \A v \in kid.values : kid.slow[v] # Fail /\ (~kid.rebuilds => kid.slow[v] = v)
    BY DEF Good, Pinned
  <2> QED BY <1>1, <1>5, <1>9, <2>1 DEF NodePinned
<1> QED BY <1>6, <1>7, <1>8, <1>10, <1>11, <1>12 DEF Node

(* Two schemas one after the other, of which the second sees what the      *)
(* first returns.                                                          *)
LEMMA Chained ==
  ASSUME NEW ir, ir.type \in {"pipe", "intersection"}, NEW first, NEW second,
         ir.kids = {first, second}, Good(first), Good(second), Feeds(first),
         \A x : GenerateSlow(ir, x) = SlowPipe(first, second, x)
  PROVE  NodeReturns(ir) /\ NodeVerdicts(ir) /\ NodeInline(ir)
<1>0. \A k \in ir.kids : Good(k)
  OBVIOUS
<1>1. \A x : GenerateSlow(ir, x) = IF first.slow[x] = Fail THEN Fail ELSE second.slow[first.slow[x]]
  BY DEF SlowPipe
<1>2. \A form, x : GenerateFast(ir, form, x) <=> first.fast[form][x] /\ second.fast[form][x]
  BY DEF GenerateFast
<1>3. ~NeedsProtoScrub(ir)
  BY DEF NeedsProtoScrub
<1>4. \A x \in Values : first.slow[x] \in Values \cup {Fail}
  BY DEF Feeds
<1>5. NodeReturns(ir)
  <2> SUFFICES ASSUME ~HasMutation(ir), NEW x \in Values
               PROVE  /\ \/ GenerateSlow(ir, x) \in {x, Fail}
                         \/ x \notin Prims /\ GenerateSlow(ir, x).kind = x.kind
                      /\ ~NestedNeedsProtoScrub(ir) => GenerateSlow(ir, x) \in {x, Fail}
    BY <1>3 DEF NodeReturns, Cleaned
  <2> DEFINE y == first.slow[x]
  <2>1. CASE y = Fail
    BY <1>1, <2>1
  <2>2. CASE y # Fail
    <3>1. y \in Values
      BY <1>4, <2>2
    <3>2. y = x \/ (x \notin Prims /\ y.kind = x.kind)
      BY <2>2, KidReturns
    <3>3. second.slow[y] \in {y, Fail} \/ (second.slow[y].kind = y.kind /\ y \notin Prims)
      BY <3>1, KidReturns
    <3>4. ~NestedNeedsProtoScrub(ir) => y = x /\ second.slow[y] \in {y, Fail}
      BY <2>2, <3>1, KidReturns
    <3>5. GenerateSlow(ir, x) = second.slow[y]
      BY <1>1, <2>2
    <3> HIDE DEF y
    <3> QED BY <3>2, <3>3, <3>4, <3>5
  <2> QED BY <2>1, <2>2
<1>6. HasBuild(ir) => PassesThrough(ir)
  BY DEF HasBuild
<1>7. HasBuild(ir) /\ ~MutatesBeyondStrip(ir) => ~HasMutation(ir) /\ ~NestedNeedsProtoScrub(ir)
  BY <1>0, <1>3, <1>6, NodeFlags DEF PassesThrough, Types
<1>8. NodeVerdicts(ir)
  <2> SUFFICES ASSUME HasFast(ir), NEW x \in Values
               PROVE  /\ \A form \in Forms : NodeDecides(ir, form) => (GenerateFast(ir, form, x) <=> GenerateSlow(ir, x) # Fail)
                      /\ GenerateFast(ir, "ref", x) /\ ~Rebuilds(ir) /\ ~Ordered(ir) => GenerateSlow(ir, x) = x
    BY DEF NodeVerdicts
  <2>1. ASSUME NEW form \in Forms, NodeDecides(ir, form)
        PROVE  GenerateFast(ir, form, x) <=> GenerateSlow(ir, x) # Fail
    <3>1. ~HasMutation(ir) /\ ~NestedNeedsProtoScrub(ir)
      BY <1>7, <2>1 DEF NodeDecides
    <3>2. first.slow[x] \in {x, Fail}
      BY <3>1, KidReturns
    <3>3. first.fast[form][x] <=> first.slow[x] # Fail
      BY <1>0, <2>1, KidVerdicts
    <3>4. second.fast[form][x] <=> second.slow[x] # Fail
      BY <1>0, <2>1, KidVerdicts
    <3> QED BY <1>1, <1>2, <3>2, <3>3, <3>4
  <2>2. GenerateFast(ir, "ref", x) /\ ~Rebuilds(ir) /\ ~Ordered(ir) => GenerateSlow(ir, x) = x
    BY <1>0, <1>1, <1>2, KidByReference, Basics
  <2> QED BY <2>1, <2>2
<1>9. NodeInline(ir)
  BY <1>6 DEF NodeInline
<1> QED BY <1>5, <1>8, <1>9

(* z.pipe() *)
LEMMA PipeNode ==
  ASSUME NEW ir, ir.type = "pipe", ir.kids = {ir.in, ir.out}, Good(ir.in), Good(ir.out), Feeds(ir.in)
  PROVE  Node(ir)
<1>1. \A x : GenerateSlow(ir, x) = SlowPipe(ir.in, ir.out, x)
  BY DEF GenerateSlow
<1> QED BY <1>1, Chained, PlainKind DEF Node

(* z.intersection() of sides that do not rewrite. *)
LEMMA IntersectionNode ==
  ASSUME NEW ir, ir.type = "intersection", ir.kids = {ir.left, ir.right},
         Good(ir.left), Good(ir.right), Feeds(ir.left), ~ir.left.mutates, ~ir.right.mutates
  PROVE  Node(ir)
<1> DEFINE first == ir.left
           second == ir.right
<1>1. \A x : GenerateSlow(ir, x) = SlowPipe(ir.left, ir.right, x)
  BY DEF GenerateSlow
<1>2. \A x : GenerateSlow(ir, x) = IF first.slow[x] = Fail THEN Fail ELSE second.slow[first.slow[x]]
  BY <1>1 DEF SlowPipe
<1>3. PropValues(ir) = {} /\ ~InnerAppliesDefaultOnUndefined(ir) /\ ~FreezeTargetIsFresh(ir)
      /\ (RejectsUndefined(ir) <=> first.rejects \/ second.rejects)
  BY DEF PropValues, InnerAppliesDefaultOnUndefined, FreezeTargetIsFresh, RejectsUndefined
<1>4. NodeDefaults(ir) /\ NodePinned(ir)
  BY <1>3 DEF NodeDefaults, NodePinned
<1>5. NodeAbsent(ir)
  <2>1. \A s \in {first, second}, x \in Values : s.slow[x] \in {x, Fail} \/ (x \notin Prims /\ s.slow[x].kind = x.kind)
    BY DEF Good, Returns
  <2>2. \A s \in {first, second} : s.rejects => s.slow[Undefined] = Fail /\ \A x \in Values : s.slow[x] # Undefined
    BY DEF Good, Absent
  <2>3. \A x \in Values : x \in Prims <=> x.kind = "prim"
    BY DEF Prims
  <2>4. \A x \in Values : first.slow[x] \in Values \cup {Fail}
    BY DEF Feeds
  <2>5. \A x \in Values : second.slow[x] = Undefined => x = Undefined
    BY <2>1, <2>3, Basics
  <2>6. RejectsUndefined(ir) => GenerateSlow(ir, Undefined) = Fail
    BY <1>2, <1>3, <2>1, <2>2, Basics
  <2>7. ASSUME RejectsUndefined(ir), NEW x \in Values
        PROVE  GenerateSlow(ir, x) # Undefined
    <3>1. CASE first.slow[x] = Fail BY <1>2, <3>1, Basics
    <3>2. CASE first.slow[x] # Fail
      <4>1. first.slow[x] \in Values BY <2>4, <3>2
      <4> QED BY <1>2, <1>3, <2>2, <2>5, <2>7, <3>2, <4>1
    <3> QED BY <3>1, <3>2
  <2> QED BY <2>6, <2>7, Basics DEF NodeAbsent, OutputAlwaysDefined
<1> QED BY <1>1, <1>4, <1>5, Chained DEF Node

(* Containers. *)
LEMMA Kinds ==
  /\ Undefined.kind = "prim" /\ Fail.kind = "fail"
  /\ \A x \in Prims : x.kind = "prim"
  /\ \A at, proto : Obj(at, proto).kind = "object" /\ Obj(at, proto) \notin {Fail, Undefined}
  /\ \A items : Arr(items).kind = "array" /\ Arr(items) \notin {Fail, Undefined}
<1>1. Undefined.kind = "prim" /\ Fail.kind = "fail" /\ \A x \in Prims : x.kind = "prim"
  BY PrimsAssumption DEF Prims, Fail
<1>2. \A at, proto : Obj(at, proto).kind = "object"
  BY DEF Obj
<1>3. \A items : Arr(items).kind = "array"
  BY DEF Arr
<1> QED BY <1>1, <1>2, <1>3

(* What is read of an input. *)
LEMMA Reads ==
  ASSUME NEW x \in Values
  PROVE  /\ IsObject(x) => /\ x = Obj(x.at, x.proto) /\ x.proto \in BOOLEAN
                           /\ x.at = [k \in DOMAIN x.at |-> x.at[k]]
                           /\ \A k \in DOMAIN x.at : x.at[k] \in Values
                           /\ x \notin Prims /\ x.kind = "object"
         /\ IsArray(x) => /\ x = Arr(x.items) /\ x.items \in Seq(Values)
                          /\ x \notin Prims /\ x.kind = "array"
         /\ IsSet(x) \/ IsMap(x) => /\ x = [kind |-> x.kind, entries |-> x.entries]
                                    /\ x.entries \in Seq(Values \X Values)
                                    /\ \A i, j \in DOMAIN x.entries : x.entries[i][1] = x.entries[j][1] => i = j
                                    /\ x \notin Prims
<1>1. /\ IsObject(x) => /\ x = Obj(x.at, x.proto) /\ x.proto \in BOOLEAN
                        /\ x.at \in [DOMAIN x.at -> Values]
      /\ IsArray(x) => x = Arr(x.items) /\ x.items \in Seq(Values)
      /\ IsSet(x) \/ IsMap(x) =>
            /\ x = [kind |-> x.kind, entries |-> x.entries]
            /\ x.entries \in Seq(Values \X Values)
            /\ \A i, j \in DOMAIN x.entries : x.entries[i][1] = x.entries[j][1] => i = j
  BY ValuesAssumption
<1>2. (IsObject(x) => x.kind = "object") /\ (IsArray(x) => x.kind = "array")
      /\ (IsSet(x) => x.kind = "set") /\ (IsMap(x) => x.kind = "map")
  BY DEF IsObject, IsArray, IsSet, IsMap
<1>3. x \in Prims => x.kind = "prim"
  BY Kinds
<1>4. IsObject(x) => /\ x.at = [k \in DOMAIN x.at |-> x.at[k]]
                     /\ \A k \in DOMAIN x.at : x.at[k] \in Values
  BY <1>1
<1> QED BY <1>1, <1>2, <1>3, <1>4

(* Kinds that reject undefined stand for no set of values and default      *)
(* nothing.                                                                *)
LEMMA RejectingKind ==
  ASSUME NEW ir, ir.type \in {"object", "array", "tuple", "record", "set", "map", "discriminatedUnion"},
         GenerateSlow(ir, Undefined) = Fail, \A x \in Values : GenerateSlow(ir, x) # Undefined
  PROVE  NodeDefaults(ir) /\ NodeAbsent(ir) /\ NodePinned(ir)
<1>1. PropValues(ir) = {} /\ ~InnerAppliesDefaultOnUndefined(ir)
  BY DEF PropValues, InnerAppliesDefaultOnUndefined
<1> QED BY <1>1, Basics DEF NodeDefaults, NodeAbsent, NodePinned, OutputAlwaysDefined

(* z.record() *)
LEMMA RecordNode ==
  ASSUME NEW ir, ir.type = "record", ir.kids = {ir.inner}, Good(ir.inner)
  PROVE  Node(ir)
<1> DEFINE kid == ir.inner
           value(x) == [k \in DOMAIN x.at |-> kid.slow[x.at[k]]]
           failing(x) == \E k \in DOMAIN x.at : kid.slow[x.at[k]] = Fail
<1>0. \A k \in ir.kids : Good(k)
  OBVIOUS
<1>1. \A x : GenerateSlow(ir, x) = IF ~IsObject(x) \/ failing(x) THEN Fail ELSE Obj(value(x), FALSE)
  BY DEF GenerateSlow, SlowRecord
<1>2. \A form, x : GenerateFast(ir, form, x) <=> IsObject(x) /\ \A k \in DOMAIN x.at : kid.fast[form][x.at[k]]
  BY DEF GenerateFast, FastRecord
<1>3. \A x : BuildInline(ir, x) = IF ~IsObject(x) THEN Fail ELSE BuildRecord(ir, x)
  BY DEF BuildInline
<1>4. NeedsProtoScrub(ir) /\ Rebuilds(ir)
  BY DEF NeedsProtoScrub, Rebuilds
<1>6. NodeReturns(ir)
  <2> SUFFICES ASSUME ~HasMutation(ir), NEW x \in Values
               PROVE  /\ \/ GenerateSlow(ir, x) \in {x, Fail}
                         \/ x \notin Prims /\ GenerateSlow(ir, x).kind = x.kind
                      /\ ~NestedNeedsProtoScrub(ir) => GenerateSlow(ir, x) \in {Scrub(x), Fail}
    BY <1>4 DEF NodeReturns, Cleaned
  <2>1. GenerateSlow(ir, x) # Fail => IsObject(x) /\ ~failing(x) /\ GenerateSlow(ir, x) = Obj(value(x), FALSE)
    BY <1>1
  <2>2. GenerateSlow(ir, x) = Fail \/ (x \notin Prims /\ GenerateSlow(ir, x).kind = x.kind)
    <3>1. IsObject(x) => x \notin Prims /\ x.kind = "object"
      BY Reads
    <3> HIDE DEF value, failing
    <3>2. Obj(value(x), FALSE).kind = "object"
      BY Kinds
    <3> QED BY <2>1, <3>1, <3>2
  <2>3. ASSUME ~NestedNeedsProtoScrub(ir), GenerateSlow(ir, x) # Fail
        PROVE  GenerateSlow(ir, x) = Scrub(x)
    <3>1. IsObject(x) /\ \A k \in DOMAIN x.at : kid.slow[x.at[k]] # Fail
      BY <2>1, <2>3
    <3>2. \A y \in Values : kid.slow[y] \in {y, Fail}
      BY <2>3, KidReturns
    <3>3. \A k \in DOMAIN x.at : kid.slow[x.at[k]] = x.at[k]
      BY <3>1, <3>2, Reads
    <3>4. value(x) = x.at
      BY <3>1, <3>3, Reads
    <3>5. x = Obj(x.at, x.proto) /\ x.proto \in BOOLEAN
      BY <3>1, Reads
    <3> HIDE DEF value
    <3>6. GenerateSlow(ir, x) = Obj(x.at, FALSE)
      BY <2>1, <2>3, <3>4
    <3> QED BY <3>1, <3>5, <3>6 DEF Scrub
  <2> QED BY <2>2, <2>3
<1> HIDE DEF value
<1>5. \A x : GenerateSlow(ir, x) # Fail <=> IsObject(x) /\ ~failing(x)
  <2> HIDE DEF failing
  <2>1. \A x : Obj(value(x), FALSE) # Fail
    BY Kinds
  <2> QED BY <1>1, <2>1
<1>7. NodeVerdicts(ir)
  <2> SUFFICES ASSUME HasFast(ir), NEW x \in Values, NEW form \in Forms, NodeDecides(ir, form)
               PROVE  GenerateFast(ir, form, x) <=> GenerateSlow(ir, x) # Fail
    BY <1>4 DEF NodeVerdicts
  <2>1. \A y \in Values : kid.fast[form][y] <=> kid.slow[y] # Fail
    BY <1>0, KidVerdicts
  <2> QED BY <1>2, <1>5, <2>1, Reads
<1>8. NodeInline(ir)
  <2> SUFFICES ASSUME HasBuild(ir), ~PassesThrough(ir), ~MutatesBeyondStrip(ir), NEW x \in Values, IsObject(x)
               PROVE  BuildRecord(ir, x) = GenerateSlow(ir, x)
    BY <1>1, <1>3 DEF NodeInline
  <2>1. \A y \in Values : kid.build.of[y] = kid.slow[y]
    BY <1>0, KidRebuilt
  <2>2. [k \in DOMAIN x.at |-> kid.build.of[x.at[k]]] = value(x)
    BY <2>1, Reads DEF value
  <2>3. BuildRecord(ir, x) = IF failing(x) THEN Fail ELSE Obj(value(x), FALSE)
    BY <2>1, <2>2, Reads DEF BuildRecord
  <2> QED BY <1>1, <2>3
<1>9. GenerateSlow(ir, Undefined) = Fail
  BY <1>5, Kinds DEF IsObject
<1>10. \A x \in Values : GenerateSlow(ir, x) # Undefined
  BY <1>1, Kinds, Basics
<1> QED BY <1>6, <1>7, <1>8, <1>9, <1>10, RejectingKind DEF Node

(* The elements of an array are inputs. *)
LEMMA Elements ==
  ASSUME NEW x \in Values, IsArray(x)
  PROVE  /\ Len(x.items) \in Nat /\ DOMAIN x.items = 1 .. Len(x.items)
         /\ \A i \in 1 .. Len(x.items) : x.items[i] \in Values
         /\ x.items = [i \in 1 .. Len(x.items) |-> x.items[i]]
<1>1. x.items \in Seq(Values)
  BY Reads
<1> DEFINE items == x.items
<1> HIDE DEF items
<1>2. items \in Seq(Values)
  BY <1>1 DEF items
<1>3. /\ Len(items) \in Nat /\ DOMAIN items = 1 .. Len(items)
      /\ \A i \in 1 .. Len(items) : items[i] \in Values
      /\ items = [i \in 1 .. Len(items) |-> items[i]]
  BY <1>2
<1> QED BY <1>3 DEF items

(* z.array() *)
LEMMA ArrayNode ==
  ASSUME NEW ir, ir.type = "array", ir.kids = {ir.inner}, Good(ir.inner)
  PROVE  Node(ir)
<1> DEFINE kid == ir.inner
           value(x) == [i \in 1 .. Len(x.items) |-> kid.slow[x.items[i]]]
           fails(x) == ~HasSize(ir, Len(x.items)) \/ \E i \in 1 .. Len(x.items) : kid.slow[x.items[i]] = Fail
<1>0. \A k \in ir.kids : Good(k)
  OBVIOUS
<1>1. ASSUME NEW x \in Values
      PROVE  /\ GenerateSlow(ir, x) = IF ~IsArray(x) \/ fails(x) THEN Fail ELSE Arr(value(x))
             /\ GenerateSlow(ir, x) # Fail <=> IsArray(x) /\ ~fails(x)
  <2>1. GenerateSlow(ir, x) = IF IsArray(x) THEN SlowArray(ir, x) ELSE Fail
    BY DEF GenerateSlow
  <2>2. ASSUME IsArray(x)
        PROVE  SlowArray(ir, x) = IF fails(x) THEN Fail ELSE Arr(value(x))
    <3>1. DOMAIN value(x) = 1 .. Len(x.items) /\ Len(value(x)) = Len(x.items)
      BY <2>2, Elements
    <3>2. \A i \in 1 .. Len(x.items) : value(x)[i] = kid.slow[x.items[i]]
      OBVIOUS
    <3>3. SlowArray(ir, x) = IF ~HasSize(ir, Len(value(x))) \/ \E i \in DOMAIN value(x) : value(x)[i] = Fail
                             THEN Fail ELSE Arr(value(x))
      BY DEF SlowArray
    <3> HIDE DEF value
    <3> QED BY <3>1, <3>2, <3>3
  <2>3. Arr(value(x)) # Fail
    BY Kinds
  <2> HIDE DEF value, fails
  <2> QED BY <2>1, <2>2, <2>3
<1>2. \A form, x : GenerateFast(ir, form, x) <=> IsArray(x) /\ HasSize(ir, Len(x.items)) /\ \A i \in DOMAIN x.items : kid.fast[form][x.items[i]]
  BY DEF GenerateFast, FastArray
<1>3. \A x : BuildInline(ir, x) = IF ~IsArray(x) THEN Fail ELSE BuildArray(ir, x)
  BY DEF BuildInline
<1>4. ~NeedsProtoScrub(ir)
  BY DEF NeedsProtoScrub
<1>6. NodeReturns(ir)
  <2> SUFFICES ASSUME ~HasMutation(ir), NEW x \in Values, GenerateSlow(ir, x) # Fail
               PROVE  /\ x \notin Prims /\ GenerateSlow(ir, x).kind = x.kind
                      /\ ~NestedNeedsProtoScrub(ir) => GenerateSlow(ir, x) = x
    BY <1>4 DEF NodeReturns, Cleaned
  <2>1. IsArray(x) /\ ~fails(x) /\ GenerateSlow(ir, x) = Arr(value(x))
    BY <1>1
  <2>2. x \notin Prims /\ GenerateSlow(ir, x).kind = x.kind
    <3>1. x \notin Prims /\ x.kind = "array"
      BY <2>1, Reads
    <3>2. Arr(value(x)).kind = "array"
      BY Kinds
    <3> HIDE DEF value
    <3> QED BY <2>1, <3>1, <3>2
  <2>3. ASSUME ~NestedNeedsProtoScrub(ir)
        PROVE  GenerateSlow(ir, x) = x
    <3>1. \A y \in Values : kid.slow[y] \in {y, Fail}
      BY <2>3, KidReturns
    <3>2. \A i \in 1 .. Len(x.items) : kid.slow[x.items[i]] = x.items[i]
      BY <2>1, <3>1, Elements
    <3>3. value(x) = x.items
      BY <2>1, <3>2, Elements
    <3>4. x = Arr(x.items)
      BY <2>1, Reads
    <3> HIDE DEF value
    <3> QED BY <2>1, <3>3, <3>4
  <2> QED BY <2>2, <2>3
<1>7. NodeVerdicts(ir)
  <2> SUFFICES ASSUME HasFast(ir), NEW x \in Values
               PROVE  /\ \A form \in Forms : NodeDecides(ir, form) => (GenerateFast(ir, form, x) <=> GenerateSlow(ir, x) # Fail)
                      /\ GenerateFast(ir, "ref", x) /\ ~Rebuilds(ir) /\ ~Ordered(ir) => GenerateSlow(ir, x) = x
    BY DEF NodeVerdicts
  <2>1. ASSUME NEW form \in Forms, NodeDecides(ir, form)
        PROVE  GenerateFast(ir, form, x) <=> GenerateSlow(ir, x) # Fail
    <3>1. \A y \in Values : kid.fast[form][y] <=> kid.slow[y] # Fail
      BY <1>0, <2>1, KidVerdicts
    <3>2. CASE ~IsArray(x)
      BY <1>1, <1>2, <3>2
    <3>3. CASE IsArray(x)
      <4>1. DOMAIN x.items = 1 .. Len(x.items) /\ \A i \in 1 .. Len(x.items) : x.items[i] \in Values
        BY <3>3, Elements
      <4>2. GenerateSlow(ir, x) # Fail <=> ~fails(x)
        BY <1>1, <3>3
      <4> QED BY <1>2, <3>1, <3>3, <4>1, <4>2
    <3> QED BY <3>2, <3>3
  <2>2. ASSUME GenerateFast(ir, "ref", x), ~Rebuilds(ir), ~Ordered(ir)
        PROVE  GenerateSlow(ir, x) = x
    <3>1. \A y \in Values : kid.fast.ref[y] => kid.slow[y] = y
      BY <1>0, <2>2, KidByReference
    <3>2. IsArray(x) /\ HasSize(ir, Len(x.items)) /\ \A i \in DOMAIN x.items : kid.fast.ref[x.items[i]]
      BY <1>2, <2>2
    <3>3. /\ DOMAIN x.items = 1 .. Len(x.items) /\ \A i \in 1 .. Len(x.items) : x.items[i] \in Values
          /\ x.items = [i \in 1 .. Len(x.items) |-> x.items[i]]
      BY <3>2, Elements
    <3>4. \A i \in 1 .. Len(x.items) : kid.slow[x.items[i]] = x.items[i] /\ x.items[i] # Fail
      BY <3>1, <3>2, <3>3, Basics
    <3>5. value(x) = x.items /\ ~fails(x)
      BY <3>2, <3>3, <3>4
    <3>6. x = Arr(x.items)
      BY <3>2, Reads
    <3>7. GenerateSlow(ir, x) = IF ~IsArray(x) \/ fails(x) THEN Fail ELSE Arr(value(x))
      BY <1>1
    <3> HIDE DEF value, fails
    <3> QED BY <3>2, <3>5, <3>6, <3>7
  <2> QED BY <2>1, <2>2
<1>8. NodeInline(ir)
  <2> SUFFICES ASSUME HasBuild(ir), ~PassesThrough(ir), ~MutatesBeyondStrip(ir), NEW x \in Values, IsArray(x)
               PROVE  BuildArray(ir, x) = SlowArray(ir, x)
    BY <1>3 DEF NodeInline, GenerateSlow
  <2>1. \A y \in Values : kid.build.of[y] = kid.slow[y]
    BY <1>0, KidRebuilt
  <2>2. [i \in 1 .. Len(x.items) |-> kid.build.of[x.items[i]]] = value(x)
    BY <2>1, Elements
  <2> QED BY <2>2 DEF BuildArray, SlowArray
<1>9. GenerateSlow(ir, Undefined) = Fail
  BY <1>1, Kinds, Basics DEF IsArray
<1>10. \A x \in Values : GenerateSlow(ir, x) # Undefined
  <2> SUFFICES ASSUME NEW x \in Values, GenerateSlow(ir, x) # Fail
               PROVE  GenerateSlow(ir, x) # Undefined
    BY Basics
  <2>1. GenerateSlow(ir, x) = Arr(value(x))
    BY <1>1
  <2> HIDE DEF value
  <2> QED BY <2>1, Kinds
<1> QED BY <1>6, <1>7, <1>8, <1>9, <1>10, RejectingKind DEF Node

-----------------------------------------------------------------------------
(* Numbers, and collections that nothing rewrites. *)

(* Among some numbers one is the least. *)
LEMMA Least ==
  ASSUME NEW S, S \subseteq Nat, S # {}
  PROVE  \E i \in S : \A j \in S : i <= j
<1> DEFINE Less == {ss \in Nat \X Nat : ss[1] < ss[2]}
<1>1. IsWellFoundedOn(Less, Nat)
  BY NatLessThanWellFounded, Zenon DEF OpToRel
<1>2. \A x, y \in Nat : y < x => <<y, x>> \in Less
  OBVIOUS
<1> HIDE DEF Less
<1>3. PICK x \in S : \A y \in S : ~ (<<y, x>> \in Less)
  BY <1>1, WFMin
<1>4. x \in Nat /\ \A y \in S : y \in Nat /\ ~ (y < x)
  BY <1>2, <1>3
<1> QED BY <1>4

(* A strictly increasing function of 1 .. n to itself is the identity. *)
LEMMA IncreasingIsIdentity ==
  ASSUME NEW n \in Nat, NEW f \in [1 .. n -> 1 .. n],
         \A i, j \in 1 .. n : i < j => f[i] < f[j]
  PROVE  \A i \in 1 .. n : f[i] = i
<1>1. \A i \in 1 .. n : f[i] >= i
  <2> DEFINE Bad == {i \in 1 .. n : ~ (f[i] >= i)}
  <2>1. ASSUME Bad # {} PROVE FALSE
    <3>1. PICK i \in Bad : \A j \in Bad : i <= j
      <4>1. Bad \subseteq Nat
        OBVIOUS
      <4> HIDE DEF Bad
      <4> QED BY <2>1, <4>1, Least
    <3>2. i \in 1 .. n /\ f[i] \in 1 .. n /\ f[i] < i
      BY <3>1
    <3>3. i - 1 \in 1 .. n /\ i - 1 \notin Bad
      BY <3>1, <3>2
    <3>4. f[i - 1] >= i - 1 /\ f[i - 1] < f[i] /\ f[i - 1] \in 1 .. n
      BY <3>2, <3>3
    <3> QED BY <3>2, <3>4
  <2> QED BY <2>1
<1>2. \A i \in 1 .. n : ~ (f[i] > i)
  <2> DEFINE Bad == {m \in 0 .. n - 1 : f[n - m] > n - m}
  <2>1. ASSUME Bad # {} PROVE FALSE
    <3>1. PICK m \in Bad : \A j \in Bad : m <= j
      <4>1. Bad \subseteq Nat
        OBVIOUS
      <4> HIDE DEF Bad
      <4> QED BY <2>1, <4>1, Least
    <3>2. m \in 0 .. n - 1 /\ n - m \in 1 .. n /\ f[n - m] \in 1 .. n /\ f[n - m] > n - m
      BY <3>1
    <3>3. m - 1 \in 0 .. n - 1 /\ m - 1 \notin Bad /\ n - m + 1 \in 1 .. n
      BY <3>1, <3>2
    <3>4. n - (m - 1) = n - m + 1
      BY <3>2
    <3>5. f[n - m + 1] \in 1 .. n /\ ~ (f[n - m + 1] > n - m + 1)
      BY <3>3, <3>4
    <3>6. f[n - m] < f[n - m + 1]
      BY <3>2, <3>3
    <3> QED BY <3>2, <3>5, <3>6
  <2>2. \A i \in 1 .. n : n - i \in 0 .. n - 1 /\ n - (n - i) = i
    OBVIOUS
  <2>3. Bad = {}
    BY <2>1
  <2> QED BY <2>2, <2>3
<1>3. \A i \in 1 .. n : f[i] \in 1 .. n
  OBVIOUS
<1> QED BY <1>1, <1>2, <1>3

(* Entries no two of which have the same key are those of the map made of  *)
(* them.                                                                   *)
LEMMA KeyedIsIdentity ==
  ASSUME NEW entries \in Seq(Values \X Values),
         \A i, j \in DOMAIN entries : entries[i][1] = entries[j][1] => i = j
  PROVE  Keyed(entries) = entries
<1> DEFINE n == Len(entries)
           same(i) == {j \in DOMAIN entries : entries[j][1] = entries[i][1]}
           firsts == {i \in DOMAIN entries : \A j \in same(i) : i <= j}
           Rises(f) == \A m, k \in DOMAIN f : m < k => f[m] < f[k]
           order == CHOOSE f \in [1 .. Cardinality(firsts) -> firsts] : Rises(f)
<1>1. n \in Nat /\ DOMAIN entries = 1 .. n /\ \A i \in 1 .. n : entries[i] = <<entries[i][1], entries[i][2]>>
  OBVIOUS
<1>2. \A i \in 1 .. n : same(i) = {i}
  BY <1>1
<1>3. firsts = 1 .. n
  BY <1>1, <1>2
<1>4. Cardinality(firsts) = n
  <2>1. Cardinality(1 .. n) = IF 1 > n THEN 0 ELSE n - 1 + 1
    BY <1>1, FS_Interval
  <2> HIDE DEF firsts, n
  <2>2. Cardinality(1 .. n) = n
    BY <1>1, <2>1
  <2> QED BY <1>3, <2>2
<1>5. \A i \in 1 .. n : LastOf({i}) = i
  BY DEF LastOf
<1>6. Keyed(entries) = [k \in DOMAIN order |-> <<entries[order[k]][1], entries[LastOf(same(order[k]))][2]>>]
  BY DEF Keyed
<1>7. order \in [1 .. n -> 1 .. n] /\ \A i, j \in 1 .. n : i < j => order[i] < order[j]
  <2> DEFINE id == [i \in 1 .. n |-> i]
  <2>1. id \in [1 .. n -> 1 .. n] /\ DOMAIN id = 1 .. n /\ \A i \in 1 .. n : id[i] = i
    OBVIOUS
  <2> HIDE DEF id
  <2>2. id \in [1 .. n -> 1 .. n] /\ Rises(id)
    BY <2>1
  <2>3. order = CHOOSE f \in [1 .. n -> 1 .. n] : Rises(f)
    BY <1>3, <1>4
  <2> HIDE DEF Rises, order
  <2>4. order \in [1 .. n -> 1 .. n] /\ Rises(order)
    BY <2>2, <2>3
  <2> QED BY <2>4 DEF Rises
<1> HIDE DEF order
<1>8. \A i \in 1 .. n : order[i] = i
  BY <1>1, <1>7, IncreasingIsIdentity
<1>9. DOMAIN order = 1 .. n
  BY <1>7
<1>10. Keyed(entries) = [i \in 1 .. n |-> entries[i]]
  <2>1. \A i \in 1 .. n : same(order[i]) = {i}
    BY <1>2, <1>8
  <2> HIDE DEF same
  <2>2. \A i \in 1 .. n : <<entries[order[i]][1], entries[LastOf(same(order[i]))][2]>> = entries[i]
    BY <1>1, <1>5, <1>8, <2>1
  <2> QED BY <1>6, <1>9, <2>2
<1> QED BY <1>1, <1>10

(* z.set() and z.map() *)
LEMMA CollectionNode ==
  ASSUME NEW ir, ir.type \in {"set", "map"}, ir.kids = {ir.key, ir.value}, Good(ir.key), Good(ir.value)
  PROVE  Node(ir)
<1> DEFINE key == ir.key
           val == ir.value
           Right(x) == IF ir.type = "set" THEN IsSet(x) ELSE IsMap(x)
           Sized(entries) == ir.type = "set" => HasSize(ir, Len(entries))
           rewritten(x) == [i \in DOMAIN x.entries |-> <<key.slow[x.entries[i][1]], val.slow[x.entries[i][2]]>>]
           passes(x) == \A i \in DOMAIN x.entries : key.slow[x.entries[i][1]] # Fail /\ val.slow[x.entries[i][2]] # Fail
           made(x) == [kind |-> x.kind, entries |-> Keyed(rewritten(x))]
<1>0. \A k \in ir.kids : Good(k)
  OBVIOUS
<1>1. \A x : SlowMap(ir, x) = IF passes(x) THEN made(x) ELSE Fail
  BY DEF SlowMap
<1>2. \A x : made(x).kind = x.kind /\ made(x).entries = Keyed(rewritten(x))
  OBVIOUS
<1> HIDE DEF made
<1>3. ASSUME NEW x \in Values
      PROVE  GenerateSlow(ir, x) = IF Right(x) /\ passes(x) /\ Sized(made(x).entries) THEN made(x) ELSE Fail
  <2>1. Right(x) => made(x) # Fail
    BY <1>2, Kinds DEF IsSet, IsMap
  <2>2. ir.type = "set" => GenerateSlow(ir, x) = IF IsSet(x) THEN SlowSet(ir, x) ELSE Fail
    BY DEF GenerateSlow
  <2>3. ir.type = "map" => GenerateSlow(ir, x) = IF IsMap(x) THEN SlowMap(ir, x) ELSE Fail
    BY DEF GenerateSlow
  <2>4. SlowSet(ir, x) = IF SlowMap(ir, x) = Fail THEN Fail
                         ELSE IF HasSize(ir, Len(SlowMap(ir, x).entries)) THEN SlowMap(ir, x) ELSE Fail
    BY DEF SlowSet
  <2> HIDE DEF passes
  <2> QED BY <1>1, <2>1, <2>2, <2>3, <2>4
<1>4. ASSUME NEW x \in Values, NEW form
      PROVE  GenerateFast(ir, form, x) <=>
                /\ Right(x) /\ Sized(x.entries)
                /\ \A i \in DOMAIN x.entries : key.fast[form][x.entries[i][1]] /\ val.fast[form][x.entries[i][2]]
  <2>1. CASE ir.type = "set"
    BY <2>1 DEF GenerateFast, FastSet, FastMap
  <2>2. CASE ir.type = "map"
    BY <2>2 DEF GenerateFast, FastMap
  <2> QED BY <2>1, <2>2
<1>5. ASSUME NEW x \in Values, Right(x)
      PROVE  /\ x = [kind |-> x.kind, entries |-> x.entries]
             /\ x.entries \in Seq(Values \X Values)
             /\ \A i, j \in DOMAIN x.entries : x.entries[i][1] = x.entries[j][1] => i = j
             /\ x \notin Prims /\ x.entries = [i \in DOMAIN x.entries |-> x.entries[i]]
             /\ \A i \in DOMAIN x.entries : /\ x.entries[i][1] \in Values /\ x.entries[i][2] \in Values
                                            /\ x.entries[i] = <<x.entries[i][1], x.entries[i][2]>>
  <2>1. IsSet(x) \/ IsMap(x)
    BY <1>5
  <2>2. /\ x = [kind |-> x.kind, entries |-> x.entries]
        /\ x.entries \in Seq(Values \X Values)
        /\ \A i, j \in DOMAIN x.entries : x.entries[i][1] = x.entries[j][1] => i = j
        /\ x \notin Prims
    BY <2>1, Reads
  <2>3. \A e \in Seq(Values \X Values) :
            /\ e = [i \in DOMAIN e |-> e[i]]
            /\ \A i \in DOMAIN e : e[i][1] \in Values /\ e[i][2] \in Values /\ e[i] = <<e[i][1], e[i][2]>>
    OBVIOUS
  <2>4. x.entries = [i \in DOMAIN x.entries |-> x.entries[i]]
    BY <2>2, <2>3
  <2> QED BY <2>2, <2>3, <2>4
<1> HIDE DEF Right, Sized, passes
<1>6. ASSUME NEW x \in Values, Right(x),
             \A i \in DOMAIN x.entries : key.slow[x.entries[i][1]] = x.entries[i][1] /\ val.slow[x.entries[i][2]] = x.entries[i][2]
      PROVE  made(x) = x /\ made(x).entries = x.entries
  <2>1. rewritten(x) = [i \in DOMAIN x.entries |-> x.entries[i]]
    <3>1. \A i \in DOMAIN x.entries : x.entries[i] = <<x.entries[i][1], x.entries[i][2]>>
      BY <1>5, <1>6
    <3> QED BY <1>6, <3>1
  <2>2. rewritten(x) = x.entries
    BY <1>5, <1>6, <2>1
  <2> HIDE DEF rewritten
  <2>3. Keyed(rewritten(x)) = x.entries
    <3>1. /\ x.entries \in Seq(Values \X Values)
          /\ \A i, j \in DOMAIN x.entries : x.entries[i][1] = x.entries[j][1] => i = j
      BY <1>5, <1>6
    <3> QED BY <2>2, <3>1, KeyedIsIdentity
  <2> QED BY <1>5, <1>6, <2>3 DEF made
<1> HIDE DEF rewritten
<1>7. ~NeedsProtoScrub(ir) /\ (HasBuild(ir) => PassesThrough(ir))
  BY DEF NeedsProtoScrub, HasBuild
<1>8. HasBuild(ir) /\ ~MutatesBeyondStrip(ir) => ~HasMutation(ir) /\ ~NestedNeedsProtoScrub(ir)
  BY <1>0, <1>7, NodeFlags DEF PassesThrough, Types
<1>9. ASSUME NEW x \in Values, ~HasMutation(ir), ~NestedNeedsProtoScrub(ir), Right(x), passes(x)
      PROVE  made(x) = x /\ made(x).entries = x.entries
  <2>1. \A y \in Values : key.slow[y] \in {y, Fail} /\ val.slow[y] \in {y, Fail}
    BY <1>0, <1>9, KidReturns
  <2>2. \A i \in DOMAIN x.entries : key.slow[x.entries[i][1]] = x.entries[i][1] /\ val.slow[x.entries[i][2]] = x.entries[i][2]
    <3>1. \A i \in DOMAIN x.entries : x.entries[i][1] \in Values /\ x.entries[i][2] \in Values
      BY <1>5, <1>9
    <3> QED BY <1>9, <2>1, <3>1 DEF passes
  <2> QED BY <1>6, <1>9, <2>2
<1>10. NodeReturns(ir)
  <2> SUFFICES ASSUME ~HasMutation(ir), NEW x \in Values, GenerateSlow(ir, x) # Fail
               PROVE  /\ x \notin Prims /\ GenerateSlow(ir, x).kind = x.kind
                      /\ ~NestedNeedsProtoScrub(ir) => GenerateSlow(ir, x) = x
    BY <1>7 DEF NodeReturns, Cleaned
  <2>1. Right(x) /\ passes(x) /\ GenerateSlow(ir, x) = made(x)
    BY <1>3
  <2>2. x \notin Prims /\ GenerateSlow(ir, x).kind = x.kind
    <3>1. x \notin Prims
      BY <1>5, <2>1
    <3> QED BY <1>2, <2>1, <3>1
  <2>3. ~NestedNeedsProtoScrub(ir) => GenerateSlow(ir, x) = x
    BY <1>9, <2>1
  <2> QED BY <2>2, <2>3
<1>11. NodeVerdicts(ir)
  <2> SUFFICES ASSUME HasFast(ir), NEW x \in Values
               PROVE  /\ \A form \in Forms : NodeDecides(ir, form) => (GenerateFast(ir, form, x) <=> GenerateSlow(ir, x) # Fail)
                      /\ GenerateFast(ir, "ref", x) /\ ~Rebuilds(ir) /\ ~Ordered(ir) => GenerateSlow(ir, x) = x
    BY DEF NodeVerdicts
  <2>1. ASSUME NEW form \in Forms, NodeDecides(ir, form)
        PROVE  GenerateFast(ir, form, x) <=> GenerateSlow(ir, x) # Fail
    <3>1. ~HasMutation(ir) /\ ~NestedNeedsProtoScrub(ir)
      BY <1>8, <2>1 DEF NodeDecides
    <3>2. \A y \in Values : (key.fast[form][y] <=> key.slow[y] # Fail) /\ (val.fast[form][y] <=> val.slow[y] # Fail)
      BY <1>0, <2>1, KidVerdicts
    <3>3. CASE ~Right(x)
      <4>1. GenerateSlow(ir, x) = Fail
        BY <1>3, <3>3
      <4> QED BY <1>4, <3>3, <4>1
    <3>4. CASE Right(x)
      <4>1. GenerateFast(ir, form, x) <=> Sized(x.entries) /\ passes(x)
        <5>1. \A i \in DOMAIN x.entries : x.entries[i][1] \in Values /\ x.entries[i][2] \in Values
          BY <1>5, <3>4
        <5>2. (\A i \in DOMAIN x.entries : key.fast[form][x.entries[i][1]] /\ val.fast[form][x.entries[i][2]]) <=> passes(x)
          BY <3>2, <5>1 DEF passes
        <5> QED BY <1>4, <3>4, <5>2
      <4>2. made(x) # Fail
        BY <1>2, <3>4, Kinds DEF IsSet, IsMap, Right
      <4>3. GenerateSlow(ir, x) # Fail <=> passes(x) /\ Sized(made(x).entries)
        BY <1>3, <3>4, <4>2
      <4>4. passes(x) => made(x).entries = x.entries
        BY <1>9, <3>1, <3>4
      <4> QED BY <4>1, <4>3, <4>4
    <3> QED BY <3>3, <3>4
  <2>2. ASSUME GenerateFast(ir, "ref", x), ~Rebuilds(ir), ~Ordered(ir)
        PROVE  GenerateSlow(ir, x) = x
    <3>1. \A y \in Values : (key.fast.ref[y] => key.slow[y] = y) /\ (val.fast.ref[y] => val.slow[y] = y)
      BY <1>0, <2>2, KidByReference
    <3>2. /\ Right(x) /\ Sized(x.entries)
          /\ \A i \in DOMAIN x.entries : key.fast.ref[x.entries[i][1]] /\ val.fast.ref[x.entries[i][2]]
      BY <1>4, <2>2
    <3>3. \A i \in DOMAIN x.entries : key.slow[x.entries[i][1]] = x.entries[i][1] /\ val.slow[x.entries[i][2]] = x.entries[i][2]
      BY <1>5, <3>1, <3>2
    <3>4. made(x) = x /\ made(x).entries = x.entries
      BY <1>6, <3>2, <3>3
    <3>5. passes(x)
      <4>1. \A i \in DOMAIN x.entries : x.entries[i][1] \in Values /\ x.entries[i][2] \in Values
        BY <1>5, <3>2
      <4> QED BY <3>3, <4>1, Basics DEF passes
    <3> QED BY <1>3, <3>2, <3>4, <3>5
  <2> QED BY <2>1, <2>2
<1>12. NodeInline(ir)
  BY <1>7 DEF NodeInline
<1>13. GenerateSlow(ir, Undefined) = Fail
  BY <1>3, Kinds, Basics DEF IsSet, IsMap, Right
<1>14. \A x \in Values : GenerateSlow(ir, x) # Undefined
  <2> SUFFICES ASSUME NEW x \in Values, GenerateSlow(ir, x) # Fail
               PROVE  GenerateSlow(ir, x) # Undefined
    BY Basics
  <2>1. Right(x) /\ GenerateSlow(ir, x) = made(x)
    BY <1>3
  <2> QED BY <1>2, <2>1, Kinds DEF IsSet, IsMap, Right
<1> QED BY <1>10, <1>11, <1>12, <1>13, <1>14, RejectingKind DEF Node

-----------------------------------------------------------------------------
(* Unions. *)

(* An option of a switch, entered for a value that dispatches to it. *)
LEMMA KidDispatched ==
  ASSUME NEW ir, \A kid \in ir.kids : Good(kid), NEW kid \in ir.kids, NEW k \in DOMAIN kid.props,
         NEW x \in Values, Dispatched(kid, k, x)
  PROVE  /\ \A form \in Forms : HasFast(ir) /\ NodeDecides(ir, form)
                => (kid.fast.at[k][form][x] <=> kid.slow[x] # Fail)
         /\ HasFast(ir) /\ ~Rebuilds(ir) /\ ~Ordered(ir) /\ kid.fast.at[k].ref[x] => kid.slow[x] = x
         /\ HasBuild(ir) /\ ~PassesThrough(ir) /\ ~MutatesBeyondStrip(ir) => kid.build.at[k][x] = kid.slow[x]
<1>1. /\ kid.fast.has =>
           /\ \A form \in Forms : Decides(kid, form) => (kid.fast.at[k][form][x] <=> kid.slow[x] # Fail)
           /\ kid.fast.at[k].ref[x] /\ ~kid.rebuilds /\ ~kid.ordered => kid.slow[x] = x
      /\ kid.build.has /\ ~kid.beyond => kid.build.at[k][x] = kid.slow[x]
  BY DEF Good, Options
<1>2. ASSUME NEW form \in Forms, HasFast(ir), NodeDecides(ir, form)
      PROVE  kid.fast.at[k][form][x] <=> kid.slow[x] # Fail
  <2>1. kid.fast.has /\ Decides(kid, form)
    BY <1>2, KidVerdicts
  <2> QED BY <1>1, <2>1
<1>3. HasFast(ir) /\ ~Rebuilds(ir) /\ ~Ordered(ir) /\ kid.fast.at[k].ref[x] => kid.slow[x] = x
  BY <1>1, KidByReference
<1>4. HasBuild(ir) /\ ~PassesThrough(ir) /\ ~MutatesBeyondStrip(ir) => kid.build.at[k][x] = kid.slow[x]
  BY <1>1, KidRebuilt
<1> QED BY <1>2, <1>3, <1>4

(* The keys a plain union is switched on: an option that matches is the one *)
(* the key selects.                                                         *)
LEMMA Discriminating ==
  ASSUME NEW options, \A i \in DOMAIN options : Good(options[i]), 1 \in DOMAIN options,
         NEW k \in Discriminators(options), NEW x \in Values
  PROVE  \A i \in DOMAIN options :
           /\ k \in DOMAIN options[i].props
           /\ IsObject(x) /\ Member(x, k) \in options[i].props[k].values => Dispatched(options[i], k, x)
           /\ options[i].slow[x] # Fail => IsObject(x) /\ Member(x, k) \in options[i].props[k].values
           /\ \A j \in DOMAIN options :
                 Member(x, k) \in options[i].props[k].values /\ Member(x, k) \in options[j].props[k].values => i = j
<1>1. /\ \A i \in DOMAIN options : /\ options[i].type = "object"
                                   /\ k \in DOMAIN options[i].props
                                   /\ options[i].props[k].literal
                                   /\ Undefined \notin options[i].props[k].values
      /\ \A i, j \in DOMAIN options : i # j => options[i].props[k].values \cap options[j].props[k].values = {}
  BY DEF Discriminators
<1> SUFFICES ASSUME NEW i \in DOMAIN options
             PROVE  /\ k \in DOMAIN options[i].props
                    /\ IsObject(x) /\ Member(x, k) \in options[i].props[k].values => Dispatched(options[i], k, x)
                    /\ options[i].slow[x] # Fail => IsObject(x) /\ Member(x, k) \in options[i].props[k].values
                    /\ \A j \in DOMAIN options :
                          Member(x, k) \in options[i].props[k].values /\ Member(x, k) \in options[j].props[k].values => i = j
  OBVIOUS
<1>2. ~options[i].props[k].required /\ (options[i].slow[x] # Fail => Dispatched(options[i], k, x))
  BY <1>1 DEF Good, Options
<1> QED BY <1>1, <1>2 DEF Dispatched

(* Of several numbers the least, as CHOOSE finds it. *)
LEMMA ChooseLeast ==
  ASSUME NEW S, S \subseteq Nat, S # {}
  PROVE  (CHOOSE i \in S : \A j \in S : i <= j) \in S
BY Least

(* z.union(), switched on a key where one tells the options apart. *)
LEMMA UnionNode ==
  ASSUME NEW ir, ir.type = "union", DOMAIN ir.options \subseteq Nat, 1 \in DOMAIN ir.options,
         ir.kids = {ir.options[i] : i \in DOMAIN ir.options}, \A kid \in ir.kids : Good(kid),
         ir.via = {} \/ \E k \in Discriminators(ir.options) : ir.via = {k}
  PROVE  Node(ir)
<1> DEFINE options == ir.options
           hits(x) == {i \in DOMAIN options : options[i].slow[x] # Fail}
           first(x) == CHOOSE i \in hits(x) : \A j \in hits(x) : i <= j
<1>1. \A x : GenerateSlow(ir, x) = IF hits(x) = {} THEN Fail ELSE options[first(x)].slow[x]
  BY DEF GenerateSlow, SlowUnion
<1>2. \A x : hits(x) # {} => first(x) \in hits(x)
  <2> SUFFICES ASSUME NEW x, hits(x) # {} PROVE first(x) \in hits(x)
    OBVIOUS
  <2>1. hits(x) \subseteq Nat
    OBVIOUS
  <2> HIDE DEF hits
  <2> QED BY <2>1, ChooseLeast
<1> HIDE DEF first
<1>3. ~NeedsProtoScrub(ir) /\ ~InnerAppliesDefaultOnUndefined(ir) /\ ~FreezeTargetIsFresh(ir) /\ PropValues(ir) = {}
      /\ (RejectsUndefined(ir) <=> \A kid \in ir.kids : kid.rejects)
  BY DEF NeedsProtoScrub, InnerAppliesDefaultOnUndefined, FreezeTargetIsFresh, PropValues, RejectsUndefined
<1>4. \A i \in DOMAIN options : options[i] \in ir.kids /\ Good(options[i])
  OBVIOUS
<1>5. \A x : GenerateSlow(ir, x) # Fail =>
                \E i \in DOMAIN options : options[i].slow[x] # Fail /\ GenerateSlow(ir, x) = options[i].slow[x]
  BY <1>1, <1>2
<1>6. \A x : GenerateSlow(ir, x) # Fail <=> hits(x) # {}
  BY <1>1, <1>2
<1>7. NodeReturns(ir)
  <2> SUFFICES ASSUME ~HasMutation(ir), NEW x \in Values, GenerateSlow(ir, x) # Fail
               PROVE  /\ GenerateSlow(ir, x) = x \/ (x \notin Prims /\ GenerateSlow(ir, x).kind = x.kind)
                      /\ ~NestedNeedsProtoScrub(ir) => GenerateSlow(ir, x) = x
    BY <1>3 DEF NodeReturns, Cleaned
  <2>1. PICK i \in DOMAIN options : options[i].slow[x] # Fail /\ GenerateSlow(ir, x) = options[i].slow[x]
    BY <1>5
  <2>2. /\ options[i].slow[x] \in {x, Fail} \/ (x \notin Prims /\ options[i].slow[x].kind = x.kind)
        /\ ~NestedNeedsProtoScrub(ir) => options[i].slow[x] \in {x, Fail}
    BY <1>4, KidReturns
  <2> QED BY <2>1, <2>2
<1>8. ASSUME NEW x \in Values, NEW k \in Discriminators(options)
      PROVE  \A i \in DOMAIN options :
               /\ k \in DOMAIN options[i].props
               /\ IsObject(x) /\ Member(x, k) \in options[i].props[k].values => Dispatched(options[i], k, x)
               /\ options[i].slow[x] # Fail => IsObject(x) /\ Member(x, k) \in options[i].props[k].values
               /\ \A j \in DOMAIN options :
                     Member(x, k) \in options[i].props[k].values /\ Member(x, k) \in options[j].props[k].values => i = j
  BY <1>4, <1>8, Discriminating
<1>9. ASSUME HasFast(ir), NEW x \in Values
      PROVE  /\ \A form \in Forms : NodeDecides(ir, form) => (GenerateFast(ir, form, x) <=> hits(x) # {})
             /\ GenerateFast(ir, "ref", x) /\ ~Rebuilds(ir) /\ ~Ordered(ir) => \E i \in DOMAIN options : options[i].slow[x] = x
  <2>1. CASE ~Switched(ir, MinAutoDiscriminate)
    <3>1. \A form : GenerateFast(ir, form, x) <=> \E i \in DOMAIN options : options[i].fast[form][x]
      BY <2>1 DEF GenerateFast, FastUnion
    <3>2. ASSUME NEW form \in Forms, NodeDecides(ir, form)
          PROVE  GenerateFast(ir, form, x) <=> hits(x) # {}
      <4>1. \A i \in DOMAIN options : options[i].fast[form][x] <=> options[i].slow[x] # Fail
        BY <1>4, <1>9, <3>2, KidVerdicts
      <4> QED BY <3>1, <4>1
    <3>3. ASSUME GenerateFast(ir, "ref", x), ~Rebuilds(ir), ~Ordered(ir)
          PROVE  \E i \in DOMAIN options : options[i].slow[x] = x
      <4>1. \A i \in DOMAIN options : options[i].fast.ref[x] => options[i].slow[x] = x
        BY <1>4, <1>9, <3>3, KidByReference
      <4> QED BY <3>1, <3>3, <4>1
    <3> QED BY <3>2, <3>3
  <2>2. CASE Switched(ir, MinAutoDiscriminate)
    <3>1. PICK k \in Discriminators(options) : ir.via = {k}
      BY <2>2 DEF Switched
    <3>2. \A form : GenerateFast(ir, form, x) <=>
             /\ IsObject(x)
             /\ \E i \in DOMAIN options : Member(x, k) \in options[i].props[k].values /\ options[i].fast.at[k][form][x]
      BY <2>2, <3>1 DEF GenerateFast, FastUnion, FastSwitch, Selected
    <3>3. ASSUME NEW i \in DOMAIN options, IsObject(x), Member(x, k) \in options[i].props[k].values
          PROVE  /\ \A form \in Forms : NodeDecides(ir, form) => (options[i].fast.at[k][form][x] <=> options[i].slow[x] # Fail)
                 /\ ~Rebuilds(ir) /\ ~Ordered(ir) /\ options[i].fast.at[k].ref[x] => options[i].slow[x] = x
      <4>1. k \in DOMAIN options[i].props /\ Dispatched(options[i], k, x)
        BY <1>8, <3>3
      <4> QED BY <1>4, <1>9, <4>1, KidDispatched
    <3>4. \A i \in DOMAIN options : options[i].slow[x] # Fail => IsObject(x) /\ Member(x, k) \in options[i].props[k].values
      BY <1>8
    <3>5. ASSUME NEW form \in Forms, NodeDecides(ir, form)
          PROVE  GenerateFast(ir, form, x) <=> hits(x) # {}
      BY <3>2, <3>3, <3>4, <3>5
    <3>6. ASSUME GenerateFast(ir, "ref", x), ~Rebuilds(ir), ~Ordered(ir)
          PROVE  \E i \in DOMAIN options : options[i].slow[x] = x
      BY <3>2, <3>3, <3>6
    <3> QED BY <3>5, <3>6
  <2> QED BY <2>1, <2>2
<1>10. ASSUME NEW x \in Values, ~Rebuilds(ir), ~Ordered(ir), \E i \in DOMAIN options : options[i].slow[x] = x
       PROVE  GenerateSlow(ir, x) = x
  <2>1. \A kid \in ir.kids : ~kid.mutates /\ ~kid.scrubs /\ ~kid.nested
    BY <1>4, <1>10 DEF Ordered, Rebuilds, Good, Flags
  <2>2. \A i \in DOMAIN options : options[i].slow[x] \in {x, Fail}
    BY <1>4, <2>1 DEF Good, Returns, Cleaned
  <2>3. GenerateSlow(ir, x) # Fail
    BY <1>6, <1>10, Basics
  <2> QED BY <1>5, <2>2, <2>3
<1>11. NodeVerdicts(ir)
  BY <1>6, <1>9, <1>10 DEF NodeVerdicts
<1>12. NodeInline(ir)
  <2> SUFFICES ASSUME HasBuild(ir), ~PassesThrough(ir), ~MutatesBeyondStrip(ir), NEW x \in Values
               PROVE  BuildUnion(ir, x) = GenerateSlow(ir, x)
    BY DEF NodeInline, BuildInline
  <2>1. CASE ~Switched(ir, 2)
    <3>1. \A i \in DOMAIN options : options[i].build.of[x] = options[i].slow[x]
      BY <1>4, KidRebuilt
    <3> DEFINE built == {i \in DOMAIN options : options[i].build.of[x] # Fail}
    <3>2. built = hits(x)
      BY <3>1
    <3>3. BuildUnion(ir, x) = IF hits(x) = {} THEN Fail ELSE options[first(x)].build.of[x]
      <4>1. BuildUnion(ir, x) = IF built = {} THEN Fail
                                ELSE options[CHOOSE i \in built : \A j \in built : i <= j].build.of[x]
        BY <2>1 DEF BuildUnion
      <4>2. first(x) = CHOOSE i \in hits(x) : \A j \in hits(x) : i <= j
        BY DEF first
      <4> HIDE DEF built, hits
      <4> QED BY <3>2, <4>1, <4>2
    <3>4. hits(x) # {} => first(x) \in DOMAIN options
      BY <1>2
    <3> QED BY <1>1, <3>1, <3>3, <3>4
  <2>2. CASE Switched(ir, 2)
    <3>1. PICK k \in Discriminators(options) : ir.via = {k}
      BY <2>2 DEF Switched
    <3> DEFINE chosen == CHOOSE i \in Selected(ir, k, x) : TRUE
    <3>2. BuildUnion(ir, x) = IF ~IsObject(x) \/ Selected(ir, k, x) = {} THEN Fail
                              ELSE options[chosen].build.at[k][x]
      <4>1. (CHOOSE c \in ir.via : TRUE) = k
        BY <3>1
      <4>2. BuildUnion(ir, x) = BuildDispatch(ir, CHOOSE c \in ir.via : TRUE, x)
        BY <2>2 DEF BuildUnion
      <4>3. BuildUnion(ir, x) = BuildDispatch(ir, k, x)
        BY <4>1, <4>2
      <4> QED BY <4>3 DEF BuildDispatch
    <3>3. Selected(ir, k, x) # {} => chosen \in Selected(ir, k, x)
      OBVIOUS
    <3> HIDE DEF chosen
    <3>4. \A i : i \in Selected(ir, k, x) <=> i \in DOMAIN options /\ Member(x, k) \in options[i].props[k].values
      BY DEF Selected
    <3>5. \A i \in hits(x) : IsObject(x) /\ i \in Selected(ir, k, x) /\ i = chosen
      BY <1>8, <3>3, <3>4
    <3>6. CASE ~IsObject(x) \/ Selected(ir, k, x) = {}
      BY <1>1, <3>2, <3>5, <3>6
    <3>7. CASE IsObject(x) /\ Selected(ir, k, x) # {}
      <4>1. chosen \in DOMAIN options /\ Member(x, k) \in options[chosen].props[k].values
        BY <3>3, <3>4, <3>7
      <4>2. k \in DOMAIN options[chosen].props /\ Dispatched(options[chosen], k, x)
        BY <1>8, <3>7, <4>1
      <4>3. options[chosen].build.at[k][x] = options[chosen].slow[x]
        BY <1>4, <4>1, <4>2, KidDispatched
      <4>4. GenerateSlow(ir, x) = options[chosen].slow[x]
        BY <1>1, <1>2, <3>5, <4>1
      <4> QED BY <3>2, <3>7, <4>3, <4>4
    <3> QED BY <3>6, <3>7
  <2> QED BY <2>1, <2>2
<1>13. NodeAbsent(ir)
  <2> SUFFICES ASSUME \A kid \in ir.kids : kid.rejects
               PROVE  GenerateSlow(ir, Undefined) = Fail /\ \A x \in Values : GenerateSlow(ir, x) # Undefined
    BY <1>3, Basics DEF NodeAbsent, OutputAlwaysDefined
  <2>1. \A i \in DOMAIN options : options[i].slow[Undefined] = Fail /\ \A x \in Values : options[i].slow[x] # Undefined
    BY <1>4 DEF Good, Absent
  <2> QED BY <1>5, <2>1, Basics
<1>14. NodeDefaults(ir) /\ NodePinned(ir)
  BY <1>3 DEF NodeDefaults, NodePinned
<1> QED BY <1>7, <1>11, <1>12, <1>13, <1>14 DEF Node

(* z.discriminatedUnion() *)
LEMMA DiscriminatedUnionNode ==
  ASSUME NEW ir, ir.type = "discriminatedUnion",
         ir.kids = {ir.options[i] : i \in DOMAIN ir.options}, \A kid \in ir.kids : Good(kid),
         \A i \in DOMAIN ir.options : ir.disc \in DOMAIN ir.options[i].props /\ ~ir.options[i].props[ir.disc].required,
         \A i, j \in DOMAIN ir.options :
            i # j => ir.options[i].props[ir.disc].values \cap ir.options[j].props[ir.disc].values = {}
  PROVE  Node(ir)
<1> DEFINE options == ir.options
           k == ir.disc
           chosen(x) == CHOOSE i \in Selected(ir, k, x) : TRUE
           found(x) == IsObject(x) /\ Selected(ir, k, x) # {}
<1>1. \A x : GenerateSlow(ir, x) = IF found(x) THEN options[chosen(x)].slow[x] ELSE Fail
  BY DEF GenerateSlow, SlowDiscriminatedUnion
<1>2. \A x : BuildInline(ir, x) = IF found(x) THEN options[chosen(x)].build.at[k][x] ELSE Fail
  BY DEF BuildInline, BuildDispatch
<1>3. \A form, x : GenerateFast(ir, form, x) <=> IsObject(x) /\ \E i \in Selected(ir, k, x) : options[i].fast.at[k][form][x]
  BY DEF GenerateFast, FastSwitch
<1>4. \A i \in DOMAIN options : options[i] \in ir.kids /\ Good(options[i]) /\ k \in DOMAIN options[i].props
  OBVIOUS
<1>5. \A x : Selected(ir, k, x) # {} => chosen(x) \in Selected(ir, k, x)
  OBVIOUS
<1> HIDE DEF chosen
<1>6. \A x, i : i \in Selected(ir, k, x) <=> i \in DOMAIN options /\ Member(x, k) \in options[i].props[k].values
  BY DEF Selected
<1>7. \A x : \A i \in Selected(ir, k, x) : i = chosen(x)
  <2> SUFFICES ASSUME NEW x, NEW i \in Selected(ir, k, x), i # chosen(x) PROVE FALSE
    OBVIOUS
  <2>1. chosen(x) \in DOMAIN options /\ Member(x, k) \in options[chosen(x)].props[k].values
    BY <1>5, <1>6
  <2>2. i \in DOMAIN options /\ Member(x, k) \in options[i].props[k].values
    BY <1>6
  <2> QED BY <2>1, <2>2
<1>8. ASSUME NEW x \in Values, found(x)
      PROVE  /\ chosen(x) \in DOMAIN options
             /\ options[chosen(x)] \in ir.kids
             /\ k \in DOMAIN options[chosen(x)].props
             /\ Dispatched(options[chosen(x)], k, x)
  BY <1>4, <1>5, <1>6, <1>8 DEF Dispatched
<1>9. ~NeedsProtoScrub(ir)
  BY DEF NeedsProtoScrub
<1>10. NodeReturns(ir)
  <2> SUFFICES ASSUME ~HasMutation(ir), NEW x \in Values, GenerateSlow(ir, x) # Fail
               PROVE  /\ GenerateSlow(ir, x) = x \/ (x \notin Prims /\ GenerateSlow(ir, x).kind = x.kind)
                      /\ ~NestedNeedsProtoScrub(ir) => GenerateSlow(ir, x) = x
    BY <1>9 DEF NodeReturns, Cleaned
  <2>1. found(x) /\ GenerateSlow(ir, x) = options[chosen(x)].slow[x]
    BY <1>1
  <2>2. options[chosen(x)] \in ir.kids /\ Good(options[chosen(x)])
    BY <1>8, <2>1
  <2>3. /\ options[chosen(x)].slow[x] \in {x, Fail} \/ (x \notin Prims /\ options[chosen(x)].slow[x].kind = x.kind)
        /\ ~NestedNeedsProtoScrub(ir) => options[chosen(x)].slow[x] \in {x, Fail}
    BY <2>2, KidReturns
  <2> QED BY <2>1, <2>3
<1>11. NodeVerdicts(ir)
  <2> SUFFICES ASSUME HasFast(ir), NEW x \in Values
               PROVE  /\ \A form \in Forms : NodeDecides(ir, form) => (GenerateFast(ir, form, x) <=> GenerateSlow(ir, x) # Fail)
                      /\ GenerateFast(ir, "ref", x) /\ ~Rebuilds(ir) /\ ~Ordered(ir) => GenerateSlow(ir, x) = x
    BY DEF NodeVerdicts
  <2>1. CASE ~found(x)
    <3>1. GenerateSlow(ir, x) = Fail
      BY <1>1, <2>1
    <3>2. \A form : ~GenerateFast(ir, form, x)
      BY <1>3, <2>1
    <3> QED BY <3>1, <3>2
  <2>2. CASE found(x)
    <3>1. GenerateSlow(ir, x) = options[chosen(x)].slow[x]
      BY <1>1, <2>2
    <3>2. \A form : GenerateFast(ir, form, x) <=> options[chosen(x)].fast.at[k][form][x]
      BY <1>3, <1>5, <1>7, <2>2
    <3>3. /\ options[chosen(x)] \in ir.kids
          /\ k \in DOMAIN options[chosen(x)].props
          /\ Dispatched(options[chosen(x)], k, x)
      BY <1>8, <2>2
    <3>4. /\ \A form \in Forms : NodeDecides(ir, form)
                => (options[chosen(x)].fast.at[k][form][x] <=> options[chosen(x)].slow[x] # Fail)
          /\ ~Rebuilds(ir) /\ ~Ordered(ir) /\ options[chosen(x)].fast.at[k].ref[x] => options[chosen(x)].slow[x] = x
      <4> DEFINE kid == options[chosen(x)]
      <4>1. kid \in ir.kids /\ k \in DOMAIN kid.props /\ Dispatched(kid, k, x)
        BY <3>3
      <4> HIDE DEF kid
      <4>2. /\ \A form \in Forms : NodeDecides(ir, form) => (kid.fast.at[k][form][x] <=> kid.slow[x] # Fail)
            /\ ~Rebuilds(ir) /\ ~Ordered(ir) /\ kid.fast.at[k].ref[x] => kid.slow[x] = x
        BY <4>1, KidDispatched
      <4> QED BY <4>2 DEF kid
    <3> QED BY <3>1, <3>2, <3>4
  <2> QED BY <2>1, <2>2
<1>12. NodeInline(ir)
  <2> SUFFICES ASSUME HasBuild(ir), ~PassesThrough(ir), ~MutatesBeyondStrip(ir), NEW x \in Values, found(x)
               PROVE  options[chosen(x)].build.at[k][x] = options[chosen(x)].slow[x]
    BY <1>1, <1>2 DEF NodeInline
  <2>1. /\ options[chosen(x)] \in ir.kids
        /\ k \in DOMAIN options[chosen(x)].props
        /\ Dispatched(options[chosen(x)], k, x)
    BY <1>8
  <2> QED BY <2>1, KidDispatched
<1>13. GenerateSlow(ir, Undefined) = Fail
  BY <1>1, Kinds DEF IsObject
<1>14. \A x \in Values : GenerateSlow(ir, x) # Undefined
  <2> SUFFICES ASSUME NEW x \in Values, found(x) PROVE options[chosen(x)].slow[x] # Undefined
    BY <1>1, Basics
  <2>1. Good(options[chosen(x)]) /\ options[chosen(x)].rejects
    BY <1>8 DEF Good, Options
  <2> QED BY <2>1 DEF Good, Absent
<1> QED BY <1>10, <1>11, <1>12, <1>13, <1>14, RejectingKind DEF Node

-----------------------------------------------------------------------------
(* Objects. *)

(* An object node; a refinement is asked about its output, and only where  *)
(* that is the input.                                                      *)
ObjectNode(ir) ==
  /\ ir.type = "object" /\ ir.unknown \in {"strip", "strict", "loose", "catchall"}
  /\ \A k \in DOMAIN ir.shape : ir.shape[k] \in ir.kids
  /\ ir.unknown = "catchall" => ir.catchall \in ir.kids
  /\ ir.refine \in BOOLEAN
  /\ ir.refine => /\ ir.unknown = "strict"
                  /\ \A kid \in ir.kids : ~kid.mutates /\ ~kid.scrubs /\ ~kid.nested

(* What the walk of an object makes of its properties, and of the others. *)
Value(ir, x) == [k \in DOMAIN ir.shape |-> Parsed(ir, x, k)]
Extra(ir, x) ==
  [k \in Unknown(ir, x) |-> IF ir.unknown = "catchall" THEN ir.catchall.slow[Member(x, k)] ELSE Member(x, k)]
Kept(ir, x) ==
  IF Assembles(ir) THEN KeptKeys(ir, x, Value(ir, x)) \cup (IF ir.unknown = "strip" THEN {} ELSE Unknown(ir, x))
  ELSE DOMAIN x.at \cup {k \in DOMAIN ir.shape : Parsed(ir, x, k) # Member(x, k)}
Out(ir, x) ==
  Obj([k \in Kept(ir, x) |-> IF k \in DOMAIN ir.shape THEN Parsed(ir, x, k) ELSE Extra(ir, x)[k]], FALSE)
Passes(ir, x) ==
  /\ \A k \in DOMAIN ir.shape : Parsed(ir, x, k) # Fail
  /\ ir.unknown = "catchall" => \A k \in Unknown(ir, x) : ir.catchall.slow[Member(x, k)] # Fail
  /\ ir.unknown = "strict" => Unknown(ir, x) = {} /\ ~x.proto

(* What is read of an object is an input. *)
LEMMA Members ==
  ASSUME NEW x \in Values, IsObject(x), NEW k
  PROVE  /\ Member(x, k) \in Values
         /\ Present(x, k) => Member(x, k) = x.at[k]
         /\ ~Present(x, k) => Member(x, k) = Undefined
BY Reads, Basics DEF Member, Present

(* The walk of an object, in these terms. *)
LEMMA SlowObjectParts ==
  ASSUME NEW ir, NEW x \in Values, IsObject(x)
  PROVE  SlowObject(ir, x) = IF Passes(ir, x) /\ (ir.refine => Predicate(Out(ir, x))) THEN Out(ir, x) ELSE Fail
<1>1. \A k \in Unknown(ir, x) : Extra(ir, x)[k] = Fail <=> ir.unknown = "catchall" /\ ir.catchall.slow[Member(x, k)] = Fail
  <2> SUFFICES ASSUME NEW k \in Unknown(ir, x)
               PROVE  Extra(ir, x)[k] = Fail <=> ir.unknown = "catchall" /\ ir.catchall.slow[Member(x, k)] = Fail
    OBVIOUS
  <2>1. Member(x, k) # Fail
    BY Members, Basics
  <2>2. Extra(ir, x)[k] = IF ir.unknown = "catchall" THEN ir.catchall.slow[Member(x, k)] ELSE Member(x, k)
    BY DEF Extra
  <2> QED BY <2>1, <2>2
<1>2. DOMAIN Extra(ir, x) = Unknown(ir, x) /\ DOMAIN Value(ir, x) = DOMAIN ir.shape
  BY DEF Extra, Value
<1>3. \A k \in DOMAIN ir.shape : Value(ir, x)[k] = Parsed(ir, x, k)
  BY DEF Value
<1> DEFINE value == Value(ir, x)
           extra == Extra(ir, x)
           kept == IF Assembles(ir)
                   THEN KeptKeys(ir, x, value) \cup (IF ir.unknown = "strip" THEN {} ELSE DOMAIN extra)
                   ELSE DOMAIN x.at \cup {k \in DOMAIN value : value[k] # Member(x, k)}
           out == Obj([k \in kept |-> IF k \in DOMAIN value THEN value[k] ELSE extra[k]], FALSE)
<1>4. SlowObject(ir, x) = IF \/ \E k \in DOMAIN value : value[k] = Fail
                             \/ \E k \in DOMAIN extra : extra[k] = Fail
                             \/ ir.unknown = "strict" /\ (DOMAIN extra # {} \/ x.proto)
                             \/ ir.refine /\ ~Predicate(out)
                          THEN Fail ELSE out
  BY DEF SlowObject, Value, Extra
<1>5. kept = Kept(ir, x)
  BY <1>2, <1>3 DEF Kept
<1>6. out = Out(ir, x)
  <2> HIDE DEF kept, value, extra
  <2>1. out = Obj([k \in Kept(ir, x) |-> IF k \in DOMAIN value THEN value[k] ELSE extra[k]], FALSE)
    BY <1>5
  <2> QED BY <1>2, <1>3, <2>1 DEF Out, value, extra
<1> HIDE DEF out
<1>7. Passes(ir, x) <=> ~ \/ \E k \in DOMAIN value : value[k] = Fail
                          \/ \E k \in DOMAIN extra : extra[k] = Fail
                          \/ ir.unknown = "strict" /\ (DOMAIN extra # {} \/ x.proto)
  BY <1>1, <1>2, <1>3 DEF Passes
<1> QED BY <1>4, <1>6, <1>7

(* The same of the node. *)
LEMMA SlowObjectNode ==
  ASSUME NEW ir, ir.type = "object", NEW x \in Values
  PROVE  /\ GenerateSlow(ir, x) =
              IF IsObject(x) /\ Passes(ir, x) /\ (ir.refine => Predicate(Out(ir, x))) THEN Out(ir, x) ELSE Fail
         /\ GenerateSlow(ir, x) # Fail <=> IsObject(x) /\ Passes(ir, x) /\ (ir.refine => Predicate(Out(ir, x)))
<1>1. GenerateSlow(ir, x) = IF IsObject(x) THEN SlowObject(ir, x) ELSE Fail
  BY DEF GenerateSlow
<1>2. Out(ir, x) # Fail
  BY Kinds DEF Out
<1> QED BY <1>1, <1>2, SlowObjectParts

(* Where neither a property nor what the catchall takes is rewritten, and   *)
(* what is assembled has no key of its own, the object is what it was.      *)
LEMMA Unchanged ==
  ASSUME NEW ir, ObjectNode(ir), NEW x \in Values, IsObject(x), ir.unknown # "strip",
         \A k \in DOMAIN ir.shape : Parsed(ir, x, k) = Member(x, k),
         ir.unknown = "catchall" => \A k \in Unknown(ir, x) : ir.catchall.slow[Member(x, k)] = Member(x, k),
         Assembles(ir) => \A k \in DOMAIN ir.shape : ir.shape[k].always => Present(x, k)
  PROVE  Out(ir, x) = Obj(x.at, FALSE)
<1>1. \A k \in Unknown(ir, x) : Extra(ir, x)[k] = Member(x, k)
  BY DEF Extra
<1>2. KeptKeys(ir, x, Value(ir, x)) = {k \in DOMAIN ir.shape : \/ ir.shape[k].always \/ Parsed(ir, x, k) # Undefined
                                                              \/ Present(x, k)}
  BY DEF KeptKeys, Value
<1>3. Assembles(ir) => KeptKeys(ir, x, Value(ir, x)) = {k \in DOMAIN ir.shape : Present(x, k)}
  BY <1>2, Members
<1>4. Kept(ir, x) = DOMAIN x.at
  <2>1. CASE Assembles(ir)
    BY <1>3, <2>1 DEF Kept, Unknown, Present
  <2>2. CASE ~Assembles(ir)
    BY <2>2 DEF Kept
  <2> QED BY <2>1, <2>2
<1>5. \A k \in DOMAIN x.at : (IF k \in DOMAIN ir.shape THEN Parsed(ir, x, k) ELSE Extra(ir, x)[k]) = x.at[k]
  BY <1>1, Members DEF Unknown, Present
<1>6. x.at = [k \in DOMAIN x.at |-> x.at[k]]
  BY Reads
<1>7. [k \in Kept(ir, x) |-> IF k \in DOMAIN ir.shape THEN Parsed(ir, x, k) ELSE Extra(ir, x)[k]] = x.at
  BY <1>4, <1>5, <1>6
<1> QED BY <1>7 DEF Out

(* The rules for an absent key. *)
LEMMA AbsentKey ==
  ASSUME NEW ir, NEW k \in DOMAIN ir.shape
  PROVE  /\ k \in SkipAbsent(ir) => k \notin Nonoptional(ir) /\ k \notin SuppressAbsent(ir)
         /\ k \in SuppressAbsent(ir) => k \notin Nonoptional(ir) /\ ir.shape[k].optin = "defaulted"
         /\ k \in SkipAbsent(ir) \cup SuppressAbsent(ir) => ir.shape[k].optin # "none" /\ ir.shape[k].optout = "optional"
BY DEF SkipAbsent, SuppressAbsent, Nonoptional

(* The walk of a property, present or absent. *)
LEMMA ParsedCases ==
  ASSUME NEW ir, NEW x \in Values, IsObject(x), NEW k \in DOMAIN ir.shape
  PROVE  LET r == ir.shape[k].slow[Member(x, k)] IN
         /\ Present(x, k) => Parsed(ir, x, k) = r
         /\ ~Present(x, k) /\ k \in Nonoptional(ir) => Parsed(ir, x, k) = Fail
         /\ ~Present(x, k) /\ k \in SkipAbsent(ir) => Parsed(ir, x, k) = Undefined
         /\ ~Present(x, k) /\ k \in SuppressAbsent(ir) => Parsed(ir, x, k) = IF r = Fail THEN Undefined ELSE r
         /\ k \notin SkipAbsent(ir) \cup SuppressAbsent(ir) \cup Nonoptional(ir) => Parsed(ir, x, k) = r
BY AbsentKey DEF Parsed

(* A property whose schema does not rewrite is returned as it was read. *)
LEMMA CleanParsed ==
  ASSUME NEW ir, NEW x \in Values, IsObject(x), NEW k \in DOMAIN ir.shape,
         ir.shape[k].slow[Member(x, k)] \in {Member(x, k), Fail}, Parsed(ir, x, k) # Fail
  PROVE  Parsed(ir, x, k) = Member(x, k)
<1>1. ~Present(x, k) => Member(x, k) = Undefined
  BY Members
<1> QED BY <1>1, ParsedCases

(* An object none of whose properties is rewritten, and that is not        *)
(* assembled, is returned without its own __proto__.                       *)
LEMMA CleanObject ==
  ASSUME NEW ir, ObjectNode(ir), NEW x \in Values, IsObject(x), Passes(ir, x), ~Assembles(ir),
         \A kid \in ir.kids, y \in Values : kid.slow[y] \in {y, Fail}
  PROVE  /\ Out(ir, x) = Scrub(x)
         /\ ir.unknown = "strict" => Out(ir, x) = x
<1>1. \A k \in DOMAIN ir.shape : Parsed(ir, x, k) = Member(x, k)
  <2> SUFFICES ASSUME NEW k \in DOMAIN ir.shape PROVE Parsed(ir, x, k) = Member(x, k)
    OBVIOUS
  <2>1. Member(x, k) \in Values /\ ir.shape[k] \in ir.kids /\ Parsed(ir, x, k) # Fail
    BY Members DEF ObjectNode, Passes
  <2> QED BY <2>1, CleanParsed
<1>2. ir.unknown = "catchall" => \A k \in Unknown(ir, x) : ir.catchall.slow[Member(x, k)] = Member(x, k)
  BY Members DEF ObjectNode, Passes
<1>3. ir.unknown # "strip"
  BY DEF Assembles
<1>4. Out(ir, x) = Obj(x.at, FALSE)
  BY <1>1, <1>2, <1>3, Unchanged
<1>5. x = Obj(x.at, x.proto) /\ x.proto \in BOOLEAN
  BY Reads
<1>6. Scrub(x) = Obj(x.at, FALSE)
  BY <1>5 DEF Scrub
<1>7. ir.unknown = "strict" => x.proto = FALSE
  BY <1>5 DEF Passes
<1> QED BY <1>4, <1>5, <1>6, <1>7

(* What a refinement is asked about is the input. *)
LEMMA Refined ==
  ASSUME NEW ir, ObjectNode(ir), \A kid \in ir.kids : Good(kid), NEW x \in Values, IsObject(x), Passes(ir, x), ir.refine
  PROVE  Out(ir, x) = x
<1>1. ir.unknown = "strict" /\ \A kid \in ir.kids : ~kid.mutates /\ ~kid.scrubs /\ ~kid.nested
  BY DEF ObjectNode
<1>2. \A kid \in ir.kids, y \in Values : kid.slow[y] \in {y, Fail}
  BY <1>1 DEF Good, Returns, Cleaned
<1>3. ~Assembles(ir)
  BY <1>1 DEF Assembles
<1> QED BY <1>1, <1>2, <1>3, CleanObject

(* Properties that a switch has matched already. *)
Matched(ir, x, skip) ==
  \A k \in skip : /\ k \in DOMAIN ir.shape /\ k \notin Nonoptional(ir)
                  /\ ir.shape[k].slow[Member(x, k)] # Fail
                  /\ ~ir.shape[k].rebuilds => ir.shape[k].slow[Member(x, k)] = Member(x, k)

(* The fast check of a property follows the absent-key rules of the walk. *)
LEMMA PropertyVerdict ==
  ASSUME NEW ir, NEW x \in Values, IsObject(x), NEW k \in DOMAIN ir.shape, NEW form,
         ir.shape[k].fast[form][Member(x, k)] <=> ir.shape[k].slow[Member(x, k)] # Fail
  PROVE  FastProperty(ir, form, k, x) <=> Parsed(ir, x, k) # Fail
<1>1. Undefined # Fail
  BY Basics
<1> QED BY <1>1, AbsentKey, ParsedCases DEF FastProperty

(* The fast check of an object that decides is the verdict of the walk, in *)
(* a switch and outside.                                                   *)
LEMMA ObjectVerdict ==
  ASSUME NEW ir, ObjectNode(ir), \A kid \in ir.kids : Good(kid), NEW x \in Values, IsObject(x),
         NEW form \in Forms, HasFast(ir), NodeDecides(ir, form), NEW skip, Matched(ir, x, skip)
  PROVE  FastObjectBody(ir, form, x, skip) <=> GenerateSlow(ir, x) # Fail
<1>1. \A kid \in ir.kids, y \in Values : kid.fast[form][y] <=> kid.slow[y] # Fail
  BY KidVerdicts
<1>2. \A k \in DOMAIN ir.shape : FastProperty(ir, form, k, x) <=> Parsed(ir, x, k) # Fail
  <2> SUFFICES ASSUME NEW k \in DOMAIN ir.shape PROVE FastProperty(ir, form, k, x) <=> Parsed(ir, x, k) # Fail
    OBVIOUS
  <2>1. Member(x, k) \in Values /\ ir.shape[k] \in ir.kids
    BY Members DEF ObjectNode
  <2> QED BY <1>1, <2>1, PropertyVerdict
<1>3. \A k \in skip : k \in DOMAIN ir.shape => Parsed(ir, x, k) # Fail
  <2> SUFFICES ASSUME NEW k \in skip, k \in DOMAIN ir.shape PROVE Parsed(ir, x, k) # Fail
    OBVIOUS
  <2>1. k \notin Nonoptional(ir) /\ ir.shape[k].slow[Member(x, k)] # Fail
    BY DEF Matched
  <2> QED BY <2>1, ParsedCases, Basics
<1>4. (\A k \in DOMAIN ir.shape \ skip : FastProperty(ir, form, k, x)) <=> \A k \in DOMAIN ir.shape : Parsed(ir, x, k) # Fail
  BY <1>2, <1>3
<1>5. ir.unknown = "catchall" =>
        ((\A k \in Unknown(ir, x) : ir.catchall.fast[form][Member(x, k)])
           <=> \A k \in Unknown(ir, x) : ir.catchall.slow[Member(x, k)] # Fail)
  BY <1>1, Members DEF ObjectNode
<1>6. FastObjectBody(ir, form, x, skip) <=> Passes(ir, x) /\ (ir.refine => Predicate(x))
  BY <1>4, <1>5 DEF FastObjectBody, Passes
<1>7. Passes(ir, x) /\ ir.refine => Out(ir, x) = x
  BY Refined
<1>8. GenerateSlow(ir, x) # Fail <=> Passes(ir, x) /\ (ir.refine => Predicate(Out(ir, x)))
  BY SlowObjectNode DEF ObjectNode
<1> QED BY <1>6, <1>7, <1>8

(* An object that is passed by reference is what the walk returns. *)
LEMMA ObjectByReference ==
  ASSUME NEW ir, ObjectNode(ir), \A kid \in ir.kids : Good(kid), NEW x \in Values, IsObject(x),
         HasFast(ir), ~Rebuilds(ir), ~Ordered(ir), NEW skip, Matched(ir, x, skip),
         FastObjectBody(ir, "ref", x, skip)
  PROVE  GenerateSlow(ir, x) = x
<1>1. ir.unknown = "strict"
  BY DEF Rebuilds, RebuildsHere, NeedsProtoScrub, ObjectNode
<1>2. Unknown(ir, x) = {} /\ ~x.proto /\ (ir.refine => Predicate(x))
  BY <1>1 DEF FastObjectBody
<1>3. ASSUME NEW k \in DOMAIN ir.shape
      PROVE  /\ Parsed(ir, x, k) = Member(x, k)
             /\ ir.shape[k].always => Present(x, k)
  <2> DEFINE kid == ir.shape[k]
             m == Member(x, k)
  <2>1. kid \in ir.kids /\ m \in Values
    BY Members DEF ObjectNode
  <2>2. Good(kid) /\ ~kid.rebuilds /\ (kid.fast.ref[m] => kid.slow[m] = m)
    BY <2>1, KidByReference
  <2>3. kid.optin # "defaulted" /\ (kid.always => kid.optin = "none" \/ kid.optout = "none")
    BY <2>2 DEF Good, Flags
  <2>4. k \notin SuppressAbsent(ir)
    BY <2>3, AbsentKey
  <2>5. kid.always => kid.slow[Undefined] # Undefined /\ k \notin SkipAbsent(ir)
    BY <2>2, <2>3, AbsentKey DEF Good, Absent
  <2>6. ~Present(x, k) => m = Undefined
    BY Members
  <2>7. k \notin skip => FastProperty(ir, "ref", k, x)
    BY DEF FastObjectBody
  <2>8. k \in skip => k \notin Nonoptional(ir) /\ kid.slow[m] = m
    BY <2>2 DEF Matched
  <2>9. \/ kid.slow[m] = m /\ (k \in Nonoptional(ir) => Present(x, k))
        \/ ~Present(x, k) /\ k \in SkipAbsent(ir)
    BY <2>2, <2>4, <2>7, <2>8, AbsentKey DEF FastProperty
  <2>10. Parsed(ir, x, k) = m
    BY <2>4, <2>6, <2>9, ParsedCases
  <2>11. kid.always => Present(x, k)
    BY <2>5, <2>6, <2>9
  <2> QED BY <2>10, <2>11
<1>4. Out(ir, x) = Obj(x.at, FALSE)
  BY <1>1, <1>3, Unchanged
<1>5. x = Obj(x.at, x.proto) /\ x.proto \in BOOLEAN
  BY Reads
<1>6. Out(ir, x) = x
  BY <1>2, <1>4, <1>5
<1>7. Passes(ir, x)
  BY <1>1, <1>2, <1>3, Members, Basics DEF Passes
<1> QED BY <1>2, <1>6, <1>7, SlowObjectNode DEF ObjectNode

(* The build pass of an object is the walk, in a switch and outside. *)
LEMMA ObjectBuilt ==
  ASSUME NEW ir, ObjectNode(ir), \A kid \in ir.kids : Good(kid), NEW x \in Values, IsObject(x),
         HasBuild(ir), ~PassesThrough(ir), ~MutatesBeyondStrip(ir), NEW skip, Matched(ir, x, skip)
  PROVE  BuildObject(ir, x, skip) = GenerateSlow(ir, x)
<1> DEFINE matched == {k \in skip : ~ir.shape[k].rebuilds}
           value == [k \in DOMAIN ir.shape |-> IF k \in matched THEN Member(x, k) ELSE ir.shape[k].build.of[Member(x, k)]]
           kept == KeptKeys(ir, x, value)
           out == Obj([k \in kept |-> value[k]], FALSE)
           misses == \E k \in Nonoptional(ir) \ matched : ~Present(x, k)
<1>1. BuildObject(ir, x, skip) = IF \/ ir.unknown = "strict" /\ (Unknown(ir, x) # {} \/ x.proto)
                                    \/ misses
                                    \/ \E k \in DOMAIN value : value[k] = Fail
                                    \/ ir.refine /\ ~Predicate(out)
                                 THEN Fail ELSE out
  BY DEF BuildObject
<1>2. ir.unknown \in {"strip", "strict"} /\ SkipAbsent(ir) \cup SuppressAbsent(ir) = {}
  BY DEF HasBuild, ObjectNode
<1>3. ASSUME NEW k \in DOMAIN ir.shape
      PROVE  value[k] = ir.shape[k].slow[Member(x, k)]
  <2>1. ir.shape[k].build.of[Member(x, k)] = ir.shape[k].slow[Member(x, k)]
    BY KidRebuilt, Members DEF ObjectNode
  <2>2. k \in matched => ir.shape[k].slow[Member(x, k)] = Member(x, k)
    BY DEF Matched
  <2> QED BY <2>1, <2>2
<1>4. misses <=> \E k \in Nonoptional(ir) : ~Present(x, k)
  BY DEF Matched
<1>5. ASSUME NEW k \in DOMAIN ir.shape
      PROVE  Parsed(ir, x, k) = IF k \in Nonoptional(ir) /\ ~Present(x, k) THEN Fail ELSE value[k]
  <2> HIDE DEF value
  <2> QED BY <1>2, <1>3, ParsedCases
<1>6. DOMAIN value = DOMAIN ir.shape
  OBVIOUS
<1> HIDE DEF value, matched
<1>7. Nonoptional(ir) \subseteq DOMAIN ir.shape
  BY DEF Nonoptional
<1>8. Passes(ir, x) <=> ~ \/ ir.unknown = "strict" /\ (Unknown(ir, x) # {} \/ x.proto)
                          \/ misses
                          \/ \E k \in DOMAIN value : value[k] = Fail
  BY <1>2, <1>4, <1>5, <1>6, <1>7 DEF Passes
<1>9. ASSUME Passes(ir, x)
      PROVE  out = Out(ir, x)
  <2>1. \A k \in DOMAIN ir.shape : Parsed(ir, x, k) = value[k] /\ value[k] # Fail
    BY <1>4, <1>5, <1>6, <1>8, <1>9
  <2>2. kept = {k \in DOMAIN ir.shape : ir.shape[k].always \/ value[k] # Undefined \/ Present(x, k)}
    BY DEF KeptKeys
  <2>3. KeptKeys(ir, x, Value(ir, x)) = kept
    BY <2>1, <2>2 DEF KeptKeys, Value
  <2>4. kept = Kept(ir, x)
    <3>1. CASE Assembles(ir)
      BY <1>2, <1>9, <2>3, <3>1 DEF Kept, Passes
    <3>2. CASE ~Assembles(ir)
      <4>1. ir.unknown = "strict" /\ Unknown(ir, x) = {}
        BY <1>2, <1>9, <3>2 DEF Assembles, Passes
      <4>2. \A k \in DOMAIN x.at : k \in DOMAIN ir.shape /\ Present(x, k)
        BY <4>1 DEF Unknown, Present
      <4>3. ASSUME NEW k \in DOMAIN ir.shape, ~Present(x, k)
            PROVE  (ir.shape[k].always \/ value[k] # Undefined) <=> Parsed(ir, x, k) # Member(x, k)
        <5>1. Member(x, k) = Undefined
          BY <4>3, Members
        <5>2. ir.shape[k].always => ir.shape[k].slow[Undefined] # Undefined
          BY DEF ObjectNode, Good, Absent
        <5>3. value[k] = ir.shape[k].slow[Undefined]
          BY <1>3, <5>1
        <5> QED BY <2>1, <5>1, <5>2, <5>3
      <4>4. Kept(ir, x) = DOMAIN x.at \cup {k \in DOMAIN ir.shape : Parsed(ir, x, k) # Member(x, k)}
        BY <3>2 DEF Kept
      <4> QED BY <2>2, <4>2, <4>3, <4>4 DEF Present
    <3> QED BY <3>1, <3>2
  <2>5. kept \subseteq DOMAIN ir.shape
    BY <2>2
  <2> HIDE DEF kept
  <2>6. out = Obj([k \in kept |-> IF k \in DOMAIN ir.shape THEN Parsed(ir, x, k) ELSE Extra(ir, x)[k]], FALSE)
    BY <2>1, <2>5
  <2> QED BY <2>4, <2>6 DEF Out
<1> HIDE DEF out, misses
<1>10. GenerateSlow(ir, x) = IF Passes(ir, x) /\ (ir.refine => Predicate(Out(ir, x))) THEN Out(ir, x) ELSE Fail
  BY SlowObjectNode DEF ObjectNode
<1> QED BY <1>1, <1>8, <1>9, <1>10

(* The tables of the options. *)
LEMMA CompiledOptions ==
  ASSUME NEW ir, NEW k \in DOMAIN Compile(ir).props, NEW x \in Values
  PROVE  LET s == Compile(ir) IN
         /\ \A form \in Forms : s.fast.at[k][form][x] <=> HasFast(ir) /\ FastOption(ir, k, form, x)
         /\ s.fast.at[k].ref[x] <=> HasFast(ir) /\ FastOption(ir, k, "ref", x)
         /\ HasBuild(ir) => s.build.at[k][x] = BuildOption(ir, k, x)
<1> DEFINE s == Compile(ir)
<1>1. s.fast.at[k].ref[x] <=> HasFast(ir) /\ FastOption(ir, k, "ref", x)
  BY DEF Compile
<1>2. s.fast.at[k].accept[x] <=> HasFast(ir) /\ FastOption(ir, k, "accept", x)
  BY DEF Compile
<1>3. HasBuild(ir) => s.build.at[k][x] = BuildOption(ir, k, x)
  BY DEF Compile
<1> HIDE DEF s
<1>4. ASSUME NEW form \in Forms
      PROVE  s.fast.at[k][form][x] <=> HasFast(ir) /\ FastOption(ir, k, form, x)
  <2>1. CASE form = "ref" BY <1>1, <2>1
  <2>2. CASE form = "accept" BY <1>2, <2>2
  <2> QED BY <2>1, <2>2 DEF Forms
<1> QED BY <1>1, <1>3, <1>4 DEF s

(* z.object(), z.strictObject(), z.looseObject() and .catchall() *)
LEMMA ObjectGood ==
  ASSUME NEW ir, ObjectNode(ir), \A kid \in ir.kids : Good(kid)
  PROVE  Node(ir)
<1>0. ir.type = "object"
  BY DEF ObjectNode
<1>1. \A x : Matched(ir, x, {})
  BY DEF Matched
<1>2. \A x \in Values : GenerateSlow(ir, x) # Fail =>
          IsObject(x) /\ Passes(ir, x) /\ GenerateSlow(ir, x) = Out(ir, x)
  BY <1>0, SlowObjectNode
<1>3. \A form, x : GenerateFast(ir, form, x) <=> IsObject(x) /\ FastObjectBody(ir, form, x, {})
  BY <1>0 DEF GenerateFast
<1>4. \A x : BuildInline(ir, x) = IF IsObject(x) THEN BuildObject(ir, x, {}) ELSE Fail
  BY <1>0 DEF BuildInline
<1>5. \A x \in Values : ~IsObject(x) => GenerateSlow(ir, x) = Fail
  BY <1>0, SlowObjectNode
<1>6. NodeReturns(ir)
  <2> SUFFICES ASSUME ~HasMutation(ir), NEW x \in Values, GenerateSlow(ir, x) # Fail
               PROVE  /\ x \notin Prims /\ GenerateSlow(ir, x).kind = x.kind
                      /\ ~NestedNeedsProtoScrub(ir) => GenerateSlow(ir, x) = Cleaned(NeedsProtoScrub(ir), x)
    BY DEF NodeReturns
  <2>1. IsObject(x) /\ Passes(ir, x) /\ GenerateSlow(ir, x) = Out(ir, x)
    BY <1>2
  <2>2. x \notin Prims /\ x.kind = "object"
    BY <2>1, Reads
  <2>3. Out(ir, x).kind = "object"
    BY Kinds DEF Out
  <2>4. ASSUME ~NestedNeedsProtoScrub(ir)
        PROVE  Out(ir, x) = Cleaned(NeedsProtoScrub(ir), x)
    <3>1. \A kid \in ir.kids, y \in Values : kid.slow[y] \in {y, Fail}
      BY <2>4, KidReturns
    <3>2. ~Assembles(ir)
      BY <1>0 DEF Assembles, HasMutation
    <3>3. Out(ir, x) = Scrub(x) /\ (ir.unknown = "strict" => Out(ir, x) = x)
      BY <2>1, <3>1, <3>2, CleanObject
    <3>4. ~NeedsProtoScrub(ir) => ir.unknown = "strict"
      BY <3>2 DEF NeedsProtoScrub, ObjectNode, Assembles
    <3> QED BY <3>3, <3>4 DEF Cleaned
  <2> QED BY <2>1, <2>2, <2>3, <2>4
<1>7. NodeVerdicts(ir)
  <2> SUFFICES ASSUME HasFast(ir), NEW x \in Values
               PROVE  /\ \A form \in Forms : NodeDecides(ir, form) => (GenerateFast(ir, form, x) <=> GenerateSlow(ir, x) # Fail)
                      /\ GenerateFast(ir, "ref", x) /\ ~Rebuilds(ir) /\ ~Ordered(ir) => GenerateSlow(ir, x) = x
    BY DEF NodeVerdicts
  <2>1. CASE ~IsObject(x)
    BY <1>3, <1>5, <2>1
  <2>2. CASE IsObject(x)
    BY <1>1, <1>3, <2>2, ObjectVerdict, ObjectByReference
  <2> QED BY <2>1, <2>2
<1>8. NodeInline(ir)
  BY <1>1, <1>4, <1>5, ObjectBuilt DEF NodeInline
<1>9. GenerateSlow(ir, Undefined) = Fail
  BY <1>5, Kinds, Basics DEF IsObject
<1>10. \A x \in Values : GenerateSlow(ir, x) # Undefined
  <2>1. \A x : Out(ir, x) # Undefined
    BY Kinds DEF Out
  <2> QED BY <1>2, <2>1, Basics
<1> QED BY <1>0, <1>6, <1>7, <1>8, <1>9, <1>10, RejectingKind DEF Node

(* An object as an option of a switch. *)
LEMMA ObjectOptions ==
  ASSUME NEW ir, ObjectNode(ir), \A kid \in ir.kids : Good(kid)
  PROVE  Options(Compile(ir))
<1> DEFINE s == Compile(ir)
<1>0. ir.type = "object" /\ s.type = "object" /\ s.rejects
  BY DEF ObjectNode, Compile, RejectsUndefined
<1>1. DOMAIN s.props = DOMAIN ir.shape
  BY <1>0 DEF Compile
<1>2. \A k \in DOMAIN ir.shape : /\ s.props[k].literal <=> ir.shape[k].type = "literal"
                                 /\ s.props[k].values = ir.shape[k].values
                                 /\ s.props[k].required <=> k \in Nonoptional(ir)
  BY <1>0 DEF Compile
<1>3. \A k \in DOMAIN s.props, x \in Values :
         /\ \A form \in Forms : s.fast.at[k][form][x] <=> HasFast(ir) /\ FastOption(ir, k, form, x)
         /\ s.fast.at[k].ref[x] <=> HasFast(ir) /\ FastOption(ir, k, "ref", x)
         /\ HasBuild(ir) => s.build.at[k][x] = BuildOption(ir, k, x)
  BY CompiledOptions
<1>4. \A x \in Values : s.slow[x] = GenerateSlow(ir, x)
  BY CompiledTables
<1>5. /\ s.mutates <=> HasMutation(ir)
      /\ s.rebuilds <=> Rebuilds(ir)
      /\ s.nested <=> NestedNeedsProtoScrub(ir)
      /\ s.beyond <=> MutatesBeyondStrip(ir)
      /\ s.ordered <=> Ordered(ir)
      /\ s.fast.has <=> HasFast(ir)
      /\ s.build.has <=> HasBuild(ir)
  BY CompiledFlags
<1> HIDE DEF s
<1> SUFFICES ASSUME NEW k \in DOMAIN ir.shape
             PROVE  /\ ir.shape[k].type = "literal" /\ Undefined \notin ir.shape[k].values
                         => /\ k \notin Nonoptional(ir)
                            /\ \A x \in Values : GenerateSlow(ir, x) # Fail => Dispatched(s, k, x)
                    /\ \A x \in Values : Dispatched(s, k, x) =>
                         /\ HasFast(ir) =>
                              /\ \A form \in Forms : NodeDecides(ir, form)
                                    => (FastOption(ir, k, form, x) <=> GenerateSlow(ir, x) # Fail)
                              /\ FastOption(ir, k, "ref", x) /\ ~Rebuilds(ir) /\ ~Ordered(ir) => GenerateSlow(ir, x) = x
                         /\ HasBuild(ir) /\ ~MutatesBeyondStrip(ir) => BuildOption(ir, k, x) = GenerateSlow(ir, x)
  BY <1>0, <1>1, <1>2, <1>3, <1>4, <1>5 DEF Options, Decides, NodeDecides, s
<1>6. Good(ir.shape[k])
  BY DEF ObjectNode
<1>7. \A x : Dispatched(s, k, x) <=> IsObject(x) /\ Member(x, k) \in ir.shape[k].values /\ k \notin Nonoptional(ir)
  BY <1>2 DEF Dispatched
<1>8. ASSUME ir.shape[k].type = "literal", Undefined \notin ir.shape[k].values
      PROVE  /\ k \notin Nonoptional(ir)
             /\ \A x \in Values : GenerateSlow(ir, x) # Fail => Dispatched(s, k, x)
  <2>1. /\ ir.shape[k].optin = "none" /\ ir.shape[k].rejects
        /\ \A x \in Values : ir.shape[k].slow[x] = IF x \in ir.shape[k].values THEN x ELSE Fail
    BY <1>6, <1>8 DEF Good, Pinned
  <2>2. k \notin Nonoptional(ir) /\ k \notin SkipAbsent(ir) \cup SuppressAbsent(ir)
    BY <2>1, AbsentKey DEF Nonoptional
  <2>3. ASSUME NEW x \in Values, GenerateSlow(ir, x) # Fail
        PROVE  Dispatched(s, k, x)
    <3>1. IsObject(x) /\ Parsed(ir, x, k) # Fail
      BY <1>0, <2>3, SlowObjectNode DEF Passes
    <3>2. Parsed(ir, x, k) = ir.shape[k].slow[Member(x, k)] /\ Member(x, k) \in Values
      BY <2>2, <3>1, ParsedCases, Members
    <3> QED BY <1>7, <2>1, <2>2, <3>1, <3>2
  <2> QED BY <2>2, <2>3
<1>9. ASSUME NEW x \in Values, Dispatched(s, k, x)
      PROVE  /\ HasFast(ir) =>
                  /\ \A form \in Forms : NodeDecides(ir, form)
                        => (FastOption(ir, k, form, x) <=> GenerateSlow(ir, x) # Fail)
                  /\ FastOption(ir, k, "ref", x) /\ ~Rebuilds(ir) /\ ~Ordered(ir) => GenerateSlow(ir, x) = x
             /\ HasBuild(ir) /\ ~MutatesBeyondStrip(ir) => BuildOption(ir, k, x) = GenerateSlow(ir, x)
  <2>1. IsObject(x) /\ Member(x, k) \in ir.shape[k].values /\ k \notin Nonoptional(ir)
    BY <1>7, <1>9
  <2>2. Matched(ir, x, {k})
    BY <1>6, <2>1 DEF Matched, Good, Pinned
  <2>3. \A form : FastOption(ir, k, form, x) <=> FastObjectBody(ir, form, x, {k})
    BY <1>0, <2>1 DEF FastOption
  <2>4. ASSUME HasFast(ir), NEW form \in Forms, NodeDecides(ir, form)
        PROVE  FastOption(ir, k, form, x) <=> GenerateSlow(ir, x) # Fail
    BY <2>1, <2>2, <2>3, <2>4, ObjectVerdict
  <2>5. HasFast(ir) /\ FastOption(ir, k, "ref", x) /\ ~Rebuilds(ir) /\ ~Ordered(ir) => GenerateSlow(ir, x) = x
    BY <2>1, <2>2, <2>3, ObjectByReference
  <2>6. ASSUME HasBuild(ir), ~MutatesBeyondStrip(ir)
        PROVE  BuildOption(ir, k, x) = GenerateSlow(ir, x)
    <3>1. CASE PassesThrough(ir)
      <4>1. HasFast(ir) /\ ~HasMutation(ir) /\ ~NestedNeedsProtoScrub(ir)
        BY <1>0, <2>6, <3>1, InPlace DEF HasBuild, Types
      <4>2. FastOption(ir, k, "ref", x) <=> GenerateSlow(ir, x) # Fail
        BY <2>4, <4>1 DEF NodeDecides, Forms
      <4>3. GenerateSlow(ir, x) \in {Cleaned(NeedsProtoScrub(ir), x), Fail}
        BY <4>1, ObjectGood DEF Node, NodeReturns
      <4>4. BuildOption(ir, k, x) = PassThrough(ir, FastOption(ir, k, "ref", x), x)
        BY <2>1, <3>1 DEF BuildOption
      <4> QED BY <4>2, <4>3, <4>4 DEF PassThrough, Cleaned
    <3>2. CASE ~PassesThrough(ir)
      <4>1. BuildOption(ir, k, x) = BuildObject(ir, x, {k})
        BY <1>0, <2>1, <3>2 DEF BuildOption
      <4> QED BY <2>1, <2>2, <2>6, <3>2, <4>1, ObjectBuilt
    <3> QED BY <3>1, <3>2
  <2> QED BY <2>4, <2>5, <2>6
<1> QED BY <1>8, <1>9

(* A frozen object as an option of a switch. *)
LEMMA ReadonlyOptions ==
  ASSUME NEW ir, ir.type = "readonly", ir.kids = {ir.inner}, Good(ir.inner), Node(ir)
  PROVE  Options(Compile(ir))
<1> DEFINE s == Compile(ir)
           kid == ir.inner
<1>0. s.type = "readonly" /\ s.props = kid.props /\ (s.rejects <=> kid.rejects)
  BY DEF Compile, RejectsUndefined
<1>3. \A k \in DOMAIN s.props, x \in Values :
         /\ \A form \in Forms : s.fast.at[k][form][x] <=> HasFast(ir) /\ FastOption(ir, k, form, x)
         /\ s.fast.at[k].ref[x] <=> HasFast(ir) /\ FastOption(ir, k, "ref", x)
         /\ HasBuild(ir) => s.build.at[k][x] = BuildOption(ir, k, x)
  BY CompiledOptions
<1>4. \A x \in Values : s.slow[x] = GenerateSlow(ir, x)
  BY CompiledTables
<1>5. /\ s.mutates <=> HasMutation(ir)
      /\ s.rebuilds <=> Rebuilds(ir)
      /\ s.nested <=> NestedNeedsProtoScrub(ir)
      /\ s.beyond <=> MutatesBeyondStrip(ir)
      /\ s.ordered <=> Ordered(ir)
      /\ s.fast.has <=> HasFast(ir)
      /\ s.build.has <=> HasBuild(ir)
  BY CompiledFlags
<1>6. \A k, form, x : FastOption(ir, k, form, x) <=> GenerateFast(ir, form, x)
  BY DEF FastOption
<1>7. \A k, x : Dispatched(s, k, x) <=> Dispatched(kid, k, x)
  BY <1>0 DEF Dispatched
<1> HIDE DEF s
<1>8. \A k \in DOMAIN kid.props :
         /\ kid.rejects
         /\ kid.props[k].literal /\ Undefined \notin kid.props[k].values => ~kid.props[k].required
  BY DEF Good, Options
<1>9. ASSUME NEW k \in DOMAIN kid.props, NEW x \in Values, Dispatched(kid, k, x), HasBuild(ir), ~MutatesBeyondStrip(ir)
      PROVE  BuildOption(ir, k, x) = GenerateSlow(ir, x)
  <2>1. IsObject(x)
    BY <1>9 DEF Dispatched
  <2>2. CASE PassesThrough(ir)
    <3>1. HasFast(ir) /\ ~HasMutation(ir) /\ ~NestedNeedsProtoScrub(ir)
      BY <1>9, <2>2, InPlace DEF HasBuild, Types
    <3>2. GenerateFast(ir, "ref", x) <=> GenerateSlow(ir, x) # Fail
      BY <3>1 DEF NodeDecides, Forms, Node, NodeVerdicts
    <3>3. GenerateSlow(ir, x) \in {Cleaned(NeedsProtoScrub(ir), x), Fail}
      BY <3>1 DEF Node, NodeReturns
    <3>4. BuildOption(ir, k, x) = PassThrough(ir, FastOption(ir, k, "ref", x), x)
      BY <2>1, <2>2 DEF BuildOption
    <3> QED BY <1>6, <3>2, <3>3, <3>4 DEF PassThrough, Cleaned
  <2>3. CASE ~PassesThrough(ir)
    <3>1. BuildOption(ir, k, x) = BuildReadonly(ir, kid.build.at[k][x])
      BY <2>1, <2>3 DEF BuildOption
    <3>2. kid.build.at[k][x] = kid.slow[x]
      BY <1>9, <2>3, KidDispatched
    <3>3. GenerateSlow(ir, x) = SlowReadonly(ir, x)
      BY DEF GenerateSlow
    <3> QED BY <3>1, <3>2, <3>3 DEF BuildReadonly, SlowReadonly
  <2> QED BY <2>2, <2>3
<1>10. ASSUME HasFast(ir), NEW x \in Values
       PROVE  /\ \A form \in Forms : NodeDecides(ir, form) => (GenerateFast(ir, form, x) <=> GenerateSlow(ir, x) # Fail)
              /\ GenerateFast(ir, "ref", x) /\ ~Rebuilds(ir) /\ ~Ordered(ir) => GenerateSlow(ir, x) = x
  BY <1>10 DEF Node, NodeVerdicts
<1>11. ASSUME NEW k \in DOMAIN s.props
       PROVE  /\ s.rejects
              /\ s.props[k].literal /\ Undefined \notin s.props[k].values => ~s.props[k].required
              /\ s.type # "object"
              /\ \A x \in Values : Dispatched(s, k, x) =>
                   /\ s.fast.has =>
                       /\ \A form \in Forms : Decides(s, form) => (s.fast.at[k][form][x] <=> s.slow[x] # Fail)
                       /\ s.fast.at[k].ref[x] /\ ~s.rebuilds /\ ~s.ordered => s.slow[x] = x
                   /\ s.build.has /\ ~s.beyond => s.build.at[k][x] = s.slow[x]
  <2>1. k \in DOMAIN kid.props
    BY <1>0
  <2>2. \A form : Decides(s, form) <=> NodeDecides(ir, form)
    BY <1>5 DEF Decides, NodeDecides
  <2> QED BY <1>0, <1>3, <1>4, <1>5, <1>6, <1>7, <1>8, <1>9, <1>10, <2>1, <2>2
<1> QED BY <1>11 DEF Options, s

-----------------------------------------------------------------------------
(* Tuples. *)

(* A tuple node. *)
TupleNode(ir) ==
  /\ ir.type = "tuple" /\ ir.items \in Seq(ir.kids)
  /\ ir.rest = <<>> \/ ir.rest[1] \in ir.kids

(* The last of some slots is one of them, or 0. *)
LEMMA LastOfBound ==
  ASSUME NEW n \in Nat, NEW S, S \subseteq 1 .. n
  PROVE  LastOf(S) \in 0 .. n /\ \A i \in S : i <= LastOf(S)
<1>1. \E m \in S \cup {0} : \A i \in S : i <= m
  <2>1. CASE S = {}
    BY <2>1
  <2>2. CASE S # {}
    <3> DEFINE Rests == {n - i : i \in S}
    <3>0. PICK s \in S : TRUE
      BY <2>2
    <3>1. Rests \subseteq Nat /\ n - s \in Rests
      OBVIOUS
    <3>2. PICK d \in Rests : \A e \in Rests : d <= e
      <4> HIDE DEF Rests
      <4> QED BY <3>1, Least
    <3>3. PICK m \in S : d = n - m
      BY <3>2
    <3>4. \A i \in S : n - m <= n - i
      BY <3>2, <3>3
    <3> QED BY <3>3, <3>4
  <2> QED BY <2>1, <2>2
<1>2. LastOf(S) \in S \cup {0} /\ \A i \in S : i <= LastOf(S)
  BY <1>1 DEF LastOf
<1>3. S \cup {0} \subseteq 0 .. n
  OBVIOUS
<1> QED BY <1>2, <1>3

(* Where the slots of a tuple that may be absent start. *)
LEMMA TupleStarts ==
  ASSUME NEW ir, TupleNode(ir)
  PROVE  /\ Len(ir.items) \in Nat /\ DOMAIN ir.items = 1 .. Len(ir.items)
         /\ \A i \in 1 .. Len(ir.items) : ir.items[i] \in ir.kids
         /\ OptStart(ir) \in 0 .. Len(ir.items) /\ OptoutStart(ir) \in 0 .. Len(ir.items)
         /\ AbsentFrom(ir) \in 0 .. Len(ir.items)
<1> DEFINE items == ir.items
           n == Len(items)
<1>0. items \in Seq(ir.kids)
  BY DEF TupleNode
<1> HIDE DEF items
<1>1. Len(items) \in Nat /\ DOMAIN items = 1 .. Len(items) /\ \A i \in 1 .. Len(items) : items[i] \in ir.kids
  BY <1>0
<1> DEFINE S == {i \in DOMAIN items : items[i].optin = "none"}
           T == {i \in DOMAIN items : items[i].optout # "optional"}
<1>2. S \subseteq 1 .. n /\ T \subseteq 1 .. n
  BY <1>1
<1>3. OptStart(ir) = LastOf(S) /\ OptoutStart(ir) = LastOf(T)
  BY DEF OptStart, OptoutStart, items
<1> HIDE DEF S, T
<1>4. OptStart(ir) \in 0 .. n /\ OptoutStart(ir) \in 0 .. n
  BY <1>1, <1>2, <1>3, LastOfBound
<1>5. AbsentFrom(ir) \in 0 .. n
  BY <1>1, <1>4 DEF AbsentFrom
<1> QED BY <1>1, <1>4, <1>5 DEF items

(* What the walk makes of one slot, and the lengths it refuses. *)
Slot(ir, x, i) ==
  IF i <= Len(ir.items) THEN ir.items[i].slow[Item(x, i)] ELSE ir.rest[1].slow[Item(x, i)]
WrongLength(ir, x) == ir.rest = <<>> /\ (Len(x.items) > Len(ir.items) \/ Len(x.items) < OptStart(ir))

(* A tuple that never adds to a short input: every slot that may be absent  *)
(* is skipped, and what is there is all there is.                           *)
LEMMA TupleSlots ==
  ASSUME NEW ir, TupleNode(ir), ~TupleRewritesShortInput(ir), NEW i \in 1 .. Len(ir.items)
  PROVE  /\ i <= AbsentFrom(ir) => SlotKind(ir, i) = "present"
         /\ i > AbsentFrom(ir) => SlotKind(ir, i) = "skip"
<1>1. AbsentFrom(ir) \in Nat /\ OptoutStart(ir) \in Nat /\ Len(ir.items) \in Nat
  BY TupleStarts
<1>2. i > AbsentFrom(ir) => i \in AbsentFrom(ir) + 1 .. Len(ir.items)
  BY <1>1
<1>3. i > AbsentFrom(ir) => ~(i <= OptoutStart(ir)) /\ ir.items[i].optin = "optional"
  BY <1>2 DEF TupleRewritesShortInput
<1> QED BY <1>1, <1>3 DEF SlotKind

(* The walk of such a tuple grows no slot and trims none. *)
LEMMA SlowTupleParts ==
  ASSUME NEW ir, TupleNode(ir), ~TupleRewritesShortInput(ir), NEW x \in Values, IsArray(x)
  PROVE  SlowTuple(ir, x) = IF WrongLength(ir, x) \/ \E i \in 1 .. Len(x.items) : Slot(ir, x, i) = Fail THEN Fail
                            ELSE Arr([i \in 1 .. Len(x.items) |-> Slot(ir, x, i)])
<1> DEFINE n == Len(ir.items)
           len == Len(x.items)
           top == IF len > n THEN len ELSE n
           value == [i \in 1 .. top |-> IF i <= n THEN ir.items[i].slow[Item(x, i)] ELSE ir.rest[1].slow[Item(x, i)]]
           ends(i) == SlotKind(ir, i) = "skip" \/ (SlotKind(ir, i) = "tail" /\ value[i] = Fail)
           Grown(m) == (\A i \in len + 1 .. m : ~ends(i)) /\ (m < n => ends(m + 1))
           grown == CHOOSE m \in len .. top : Grown(m)
           trims == \E i \in 1 .. n : SlotKind(ir, i) = "tail" /\ ~ir.items[i].always
           Cut(m, i) == trims /\ i > OptoutStart(ir) /\ i > len /\ value[i] = Undefined
           Last(m) == (\A i \in m + 1 .. grown : Cut(m, i)) /\ ~(trims /\ m > OptoutStart(ir) /\ m > len /\ value[m] = Undefined)
           last == CHOOSE m \in 0 .. grown : Last(m)
<1>1. SlowTuple(ir, x) = IF WrongLength(ir, x) \/ \E i \in 1 .. grown : value[i] = Fail
                         THEN Fail ELSE Arr(SubSeq(value, 1, last))
  BY DEF SlowTuple, WrongLength
<1>2. n \in Nat /\ len \in Nat /\ AbsentFrom(ir) \in 0 .. n
  BY TupleStarts, Elements
<1>3. top \in Nat /\ len <= top /\ n <= top /\ (len > n => top = len) /\ (len <= n => top = n)
  BY <1>2
<1> HIDE DEF n, len, top
<1>4. CASE WrongLength(ir, x)
  BY <1>1, <1>4
<1>5. CASE ~WrongLength(ir, x)
  <2>1. AbsentFrom(ir) <= len
    BY <1>2, <1>5 DEF AbsentFrom, WrongLength, n, len
  <2>2. \A i \in len + 1 .. n : SlotKind(ir, i) = "skip"
    BY <1>2, <2>1, TupleSlots DEF n
  <2>3. \A i \in 1 .. n : SlotKind(ir, i) # "tail"
    BY <1>2, TupleSlots DEF n
  <2>4. \A m \in len .. top : Grown(m) <=> m = len
    <3>1. Grown(len)
      BY <1>2, <2>2
    <3>2. ASSUME NEW m \in len .. top, m # len
          PROVE  ~Grown(m)
      <4>1. len + 1 \in len + 1 .. n /\ len + 1 \in len + 1 .. m
        BY <1>2, <1>3, <3>2
      <4>2. ends(len + 1)
        BY <2>2, <4>1
      <4> QED BY <4>1, <4>2
    <3> QED BY <3>1, <3>2
  <2> HIDE DEF Grown
  <2>5. grown = len
    BY <1>2, <1>3, <2>4
  <2>6. ~trims
    BY <2>3
  <2> HIDE DEF grown, trims
  <2>7. \A m \in 0 .. grown : Last(m) <=> m = len
    BY <1>2, <2>5, <2>6
  <2> HIDE DEF Last
  <2>8. last = len
    BY <1>2, <2>5, <2>7
  <2> HIDE DEF last
  <2>9. \A i \in 1 .. top : value[i] = Slot(ir, x, i)
    BY DEF Slot, n
  <2>10. DOMAIN value = 1 .. top
    OBVIOUS
  <2> HIDE DEF value
  <2>11. SubSeq(value, 1, len) = [i \in 1 .. len |-> value[i]]
    <3> DEFINE S == {value[i] : i \in 1 .. top}
    <3>1. value = [i \in 1 .. top |-> value[i]]
      BY DEF value
    <3>2. \A i \in 1 .. top : value[i] \in S
      OBVIOUS
    <3> HIDE DEF S
    <3>3. value \in Seq(S) /\ Len(value) = top
      BY <1>3, <3>1, <3>2
    <3> QED BY <1>2, <1>3, <3>3
  <2>12. [i \in 1 .. len |-> value[i]] = [i \in 1 .. len |-> Slot(ir, x, i)]
    BY <1>2, <1>3, <2>9
  <2>13. SlowTuple(ir, x) = IF \E i \in 1 .. len : value[i] = Fail THEN Fail ELSE Arr(SubSeq(value, 1, len))
    BY <1>1, <1>5, <2>5, <2>8
  <2>14. (\E i \in 1 .. len : value[i] = Fail) <=> \E i \in 1 .. len : Slot(ir, x, i) = Fail
    BY <1>2, <1>3, <2>9
  <2> QED BY <1>5, <2>11, <2>12, <2>13, <2>14 DEF len
<1> QED BY <1>4, <1>5

(* z.tuple() *)
LEMMA TupleGood ==
  ASSUME NEW ir, TupleNode(ir), \A kid \in ir.kids : Good(kid)
  PROVE  Node(ir)
<1> DEFINE n == Len(ir.items)
           len(x) == Len(x.items)
           whole(x) == [i \in 1 .. len(x) |-> Slot(ir, x, i)]
           fails(x) == WrongLength(ir, x) \/ \E i \in 1 .. len(x) : Slot(ir, x, i) = Fail
<1>0. ir.type = "tuple"
  BY DEF TupleNode
<1>1. \A x : GenerateSlow(ir, x) = IF IsArray(x) THEN SlowTuple(ir, x) ELSE Fail
  BY <1>0 DEF GenerateSlow
<1>2. \A x : GenerateSlow(ir, x) # Fail => IsArray(x) /\ \E v : GenerateSlow(ir, x) = Arr(v)
  BY <1>1 DEF SlowTuple
<1>3. ASSUME NEW x \in Values, ~TupleRewritesShortInput(ir)
      PROVE  /\ GenerateSlow(ir, x) = IF IsArray(x) /\ ~fails(x) THEN Arr(whole(x)) ELSE Fail
             /\ GenerateSlow(ir, x) # Fail <=> IsArray(x) /\ ~fails(x)
  <2>1. IsArray(x) => SlowTuple(ir, x) = IF fails(x) THEN Fail ELSE Arr(whole(x))
    BY <1>3, SlowTupleParts
  <2>2. Arr(whole(x)) # Fail
    BY Kinds
  <2> HIDE DEF fails, whole
  <2> QED BY <1>1, <2>1, <2>2
<1>4. /\ n \in Nat /\ \A i \in 1 .. n : ir.items[i] \in ir.kids
      /\ OptStart(ir) \in 0 .. n /\ OptoutStart(ir) \in 0 .. n /\ AbsentFrom(ir) \in 0 .. n
  BY TupleStarts
<1>5. ASSUME NEW x \in Values, IsArray(x)
      PROVE  /\ len(x) \in Nat /\ x = Arr(x.items)
             /\ x.items = [i \in 1 .. len(x) |-> x.items[i]]
             /\ \A i \in 1 .. len(x) : Item(x, i) = x.items[i] /\ x.items[i] \in Values
             /\ \A i \in Nat : i > len(x) => Item(x, i) = Undefined
             /\ x \notin Prims /\ x.kind = "array"
  <2>1. /\ len(x) \in Nat /\ x.items = [i \in 1 .. len(x) |-> x.items[i]]
        /\ \A i \in 1 .. len(x) : x.items[i] \in Values
    BY <1>5, Elements
  <2>2. x = Arr(x.items) /\ x \notin Prims /\ x.kind = "array"
    BY <1>5, Reads
  <2>3. \A i \in 1 .. len(x) : Item(x, i) = x.items[i]
    BY <2>1 DEF Item
  <2>4. \A i \in Nat : i > len(x) => Item(x, i) = Undefined
    BY <2>1 DEF Item
  <2> QED BY <2>1, <2>2, <2>3, <2>4
<1>6. /\ HasMutation(ir) \/ ~TupleRewritesShortInput(ir)
      /\ Rebuilds(ir) \/ ~TupleRewritesShortInput(ir)
      /\ ~NeedsProtoScrub(ir)
  BY <1>0 DEF HasMutation, Rebuilds, RebuildsHere, NeedsProtoScrub
<1>7. HasBuild(ir) /\ ~PassesThrough(ir) => ir.rest = <<>> /\ OptStart(ir) = n
  BY <1>0 DEF HasBuild
<1>8. HasBuild(ir) => ~TupleRewritesShortInput(ir)
  <2>1. CASE PassesThrough(ir)
    BY <1>6, <2>1 DEF PassesThrough
  <2>2. CASE HasBuild(ir) /\ ~PassesThrough(ir)
    <3>1. AbsentFrom(ir) = n
      BY <1>7, <2>2 DEF AbsentFrom
    <3>2. AbsentFrom(ir) + 1 .. n = {}
      BY <1>4, <3>1
    <3> QED BY <3>2 DEF TupleRewritesShortInput
  <2> QED BY <2>1, <2>2
<1>9. \A i : i \notin 1 .. n => (i \in Nat \ {0} => i > n)
  BY <1>4
<1>10. ASSUME NEW x \in Values, IsArray(x), ~WrongLength(ir, x), NEW i \in 1 .. len(x)
       PROVE  /\ i <= n => ir.items[i] \in ir.kids /\ Slot(ir, x, i) = ir.items[i].slow[x.items[i]]
              /\ i > n => ir.rest[1] \in ir.kids /\ Slot(ir, x, i) = ir.rest[1].slow[x.items[i]]
              /\ x.items[i] \in Values /\ i \in Nat
  <2>1. Item(x, i) = x.items[i] /\ x.items[i] \in Values /\ i \in 1 .. len(x) /\ len(x) \in Nat
    BY <1>5, <1>10
  <2>2. i > n => ir.rest # <<>>
    BY <1>4, <1>10, <2>1 DEF WrongLength
  <2>3. i > n => ir.rest[1] \in ir.kids
    BY <2>2 DEF TupleNode
  <2> QED BY <1>4, <2>1, <2>3 DEF Slot
<1>11. ASSUME NEW x \in Values, IsArray(x), ~fails(x), ~TupleRewritesShortInput(ir),
              \A i \in 1 .. len(x) : Slot(ir, x, i) = x.items[i]
       PROVE  GenerateSlow(ir, x) = x
  <2>1. whole(x) = x.items
    BY <1>5, <1>11
  <2>2. x = Arr(x.items)
    BY <1>5, <1>11
  <2> HIDE DEF whole, fails
  <2> QED BY <1>3, <1>11, <2>1, <2>2
<1>12. NodeReturns(ir)
  <2> SUFFICES ASSUME ~HasMutation(ir), NEW x \in Values, GenerateSlow(ir, x) # Fail
               PROVE  /\ x \notin Prims /\ GenerateSlow(ir, x).kind = x.kind
                      /\ ~NestedNeedsProtoScrub(ir) => GenerateSlow(ir, x) = x
    BY <1>6 DEF NodeReturns, Cleaned
  <2>1. IsArray(x) /\ ~fails(x) /\ ~TupleRewritesShortInput(ir)
    BY <1>3, <1>6
  <2>2. x \notin Prims /\ GenerateSlow(ir, x).kind = x.kind
    <3>1. PICK v : GenerateSlow(ir, x) = Arr(v)
      BY <1>2
    <3>2. Arr(v).kind = "array"
      BY Kinds
    <3>3. x \notin Prims /\ x.kind = "array"
      BY <1>5, <2>1
    <3> QED BY <3>1, <3>2, <3>3
  <2>3. ASSUME ~NestedNeedsProtoScrub(ir)
        PROVE  GenerateSlow(ir, x) = x
    <3>1. \A kid \in ir.kids, y \in Values : kid.slow[y] \in {y, Fail}
      BY <2>3, KidReturns
    <3>2. ASSUME NEW i \in 1 .. len(x)
          PROVE  Slot(ir, x, i) = x.items[i]
      <4>1. Slot(ir, x, i) # Fail
        BY <2>1
      <4>2. i <= n \/ i > n
        BY <1>4, <1>5, <2>1
      <4> QED BY <1>10, <2>1, <3>1, <4>1, <4>2
    <3> QED BY <1>11, <2>1, <3>2
  <2> QED BY <2>2, <2>3
<1>13. ASSUME NEW form, NEW x \in Values, IsArray(x), ~WrongLength(ir, x), ~TupleRewritesShortInput(ir)
       PROVE  GenerateFast(ir, form, x) <=>
                 \A i \in 1 .. len(x) : (IF i <= n THEN ir.items[i] ELSE ir.rest[1]).fast[form][x.items[i]]
  <2>1. GenerateFast(ir, form, x) <=> FastTuple(ir, form, x)
    BY <1>0, <1>13 DEF GenerateFast
  <2>2. ir.rest = <<>> => len(x) \in OptStart(ir) .. n
    BY <1>4, <1>5, <1>13 DEF WrongLength
  <2>3. AbsentFrom(ir) <= len(x)
    BY <1>4, <1>5, <1>13, <2>2 DEF AbsentFrom
  <2>6. len(x) \in Nat
    BY <1>5, <1>13
  <2>4. ASSUME NEW i \in 1 .. n
        PROVE  FastSlot(ir, form, i, x) <=> (i <= len(x) => ir.items[i].fast[form][x.items[i]])
    <3>1. CASE i <= AbsentFrom(ir)
      <4>1. SlotKind(ir, i) = "present"
        BY <1>13, <3>1, TupleSlots
      <4>2. i <= len(x) /\ i \in 1 .. len(x)
        BY <1>4, <1>5, <1>13, <2>3, <3>1
      <4>3. Item(x, i) = x.items[i]
        BY <1>5, <1>13, <4>2
      <4> QED BY <4>1, <4>2, <4>3 DEF FastSlot
    <3>2. CASE i > AbsentFrom(ir)
      <4>1. SlotKind(ir, i) = "skip"
        BY <1>13, <3>2, TupleSlots
      <4>2. i <= len(x) => Item(x, i) = x.items[i]
        <5>1. i <= len(x) => i \in 1 .. len(x)
          BY <1>4, <2>6
        <5>2. \A j \in 1 .. len(x) : Item(x, j) = x.items[j]
          BY <1>5, <1>13
        <5> QED BY <5>1, <5>2
      <4>3. ~(Len(x.items) < i) <=> i <= len(x)
        BY <1>4, <1>5, <1>13
      <4> QED BY <4>1, <4>2, <4>3 DEF FastSlot
    <3> QED BY <1>4, <3>1, <3>2
  <2>5. FastTuple(ir, form, x) <=>
          /\ \A i \in 1 .. n : FastSlot(ir, form, i, x)
          /\ \A i \in n + 1 .. len(x) : ir.rest[1].fast[form][x.items[i]]
    BY <2>2 DEF FastTuple
  <2> HIDE DEF n, len
  <2>7. (\A i \in 1 .. n : FastSlot(ir, form, i, x)) <=> \A i \in 1 .. n : i <= len(x) => ir.items[i].fast[form][x.items[i]]
    BY <2>4
  <2>8. \A i \in 1 .. len(x) : (IF i <= n THEN ir.items[i] ELSE ir.rest[1]).fast[form][x.items[i]]
           <=> (i <= n => ir.items[i].fast[form][x.items[i]]) /\ (i > n => ir.rest[1].fast[form][x.items[i]])
    BY <1>4, <2>6
  <2> QED BY <1>4, <2>1, <2>5, <2>6, <2>7, <2>8
<1>14. ASSUME NEW form, NEW x \in Values, ~IsArray(x) \/ WrongLength(ir, x), ~TupleRewritesShortInput(ir)
       PROVE  ~GenerateFast(ir, form, x) /\ GenerateSlow(ir, x) = Fail
  <2>1. GenerateSlow(ir, x) = Fail
    BY <1>3, <1>14
  <2>2. GenerateFast(ir, form, x) <=> IsArray(x) /\ FastTuple(ir, form, x)
    BY <1>0 DEF GenerateFast
  <2>3. IsArray(x) => ~FastTuple(ir, form, x)
    BY <1>4, <1>5, <1>14 DEF FastTuple, WrongLength
  <2> QED BY <2>1, <2>2, <2>3
<1>15. NodeVerdicts(ir)
  <2> SUFFICES ASSUME HasFast(ir), NEW x \in Values
               PROVE  /\ \A form \in Forms : NodeDecides(ir, form) => (GenerateFast(ir, form, x) <=> GenerateSlow(ir, x) # Fail)
                      /\ GenerateFast(ir, "ref", x) /\ ~Rebuilds(ir) /\ ~Ordered(ir) => GenerateSlow(ir, x) = x
    BY DEF NodeVerdicts
  <2>1. ASSUME NEW form \in Forms, NodeDecides(ir, form)
        PROVE  GenerateFast(ir, form, x) <=> GenerateSlow(ir, x) # Fail
    <3>1. ~TupleRewritesShortInput(ir)
      BY <1>6, <1>8, <2>1 DEF NodeDecides
    <3>2. \A kid \in ir.kids, y \in Values : kid.fast[form][y] <=> kid.slow[y] # Fail
      BY <2>1, KidVerdicts
    <3>3. CASE ~IsArray(x) \/ WrongLength(ir, x)
      BY <1>14, <3>1, <3>3
    <3>4. CASE IsArray(x) /\ ~WrongLength(ir, x)
      <4>1. ASSUME NEW i \in 1 .. len(x)
            PROVE  (IF i <= n THEN ir.items[i] ELSE ir.rest[1]).fast[form][x.items[i]] <=> Slot(ir, x, i) # Fail
        <5>1. CASE i <= n BY <1>10, <3>2, <3>4, <5>1
        <5>2. CASE ~(i <= n)
          <6>1. i > n BY <1>4, <1>10, <3>4, <5>2
          <6> QED BY <1>10, <3>2, <3>4, <5>2, <6>1
        <5> QED BY <5>1, <5>2
      <4>2. GenerateFast(ir, form, x) <=>
              \A i \in 1 .. len(x) : (IF i <= n THEN ir.items[i] ELSE ir.rest[1]).fast[form][x.items[i]]
        BY <1>13, <3>1, <3>4
      <4>3. GenerateSlow(ir, x) # Fail <=> ~fails(x)
        BY <1>3, <3>1, <3>4
      <4> QED BY <3>4, <4>1, <4>2, <4>3
    <3> QED BY <3>3, <3>4
  <2>2. ASSUME GenerateFast(ir, "ref", x), ~Rebuilds(ir), ~Ordered(ir)
        PROVE  GenerateSlow(ir, x) = x
    <3>1. ~TupleRewritesShortInput(ir)
      BY <1>6, <2>2
    <3>2. \A kid \in ir.kids, y \in Values : kid.fast.ref[y] => kid.slow[y] = y
      BY <2>2, KidByReference
    <3>3. IsArray(x) /\ ~WrongLength(ir, x)
      BY <1>14, <2>2, <3>1
    <3>4. \A i \in 1 .. len(x) : (IF i <= n THEN ir.items[i] ELSE ir.rest[1]).fast.ref[x.items[i]]
      BY <1>13, <2>2, <3>1, <3>3
    <3>5. ASSUME NEW i \in 1 .. len(x)
          PROVE  Slot(ir, x, i) = x.items[i] /\ x.items[i] # Fail
      <4>1. CASE i <= n BY <1>10, <3>2, <3>3, <3>4, <4>1, Basics
      <4>2. CASE ~(i <= n)
        <5>1. i > n BY <1>4, <1>10, <3>3, <4>2
        <5> QED BY <1>10, <3>2, <3>3, <3>4, <4>2, <5>1, Basics
      <4> QED BY <4>1, <4>2
    <3>6. ~fails(x)
      BY <3>3, <3>5
    <3> QED BY <1>11, <3>1, <3>3, <3>5, <3>6
  <2> QED BY <2>1, <2>2
<1>16. NodeInline(ir)
  <2> SUFFICES ASSUME HasBuild(ir), ~PassesThrough(ir), ~MutatesBeyondStrip(ir), NEW x \in Values, IsArray(x)
               PROVE  BuildTuple(ir, x) = GenerateSlow(ir, x)
    BY <1>0, <1>1 DEF NodeInline, BuildInline
  <2>1. ir.rest = <<>> /\ OptStart(ir) = n /\ ~TupleRewritesShortInput(ir)
    BY <1>7, <1>8
  <2>2. WrongLength(ir, x) <=> len(x) # n
    BY <1>4, <1>5, <2>1 DEF WrongLength
  <2> DEFINE built == [i \in 1 .. n |-> ir.items[i].build.of[Item(x, i)]]
  <2>3. BuildTuple(ir, x) = IF len(x) # n \/ \E i \in DOMAIN built : built[i] = Fail THEN Fail ELSE Arr(built)
    BY DEF BuildTuple
  <2>4. ASSUME len(x) = n
        PROVE  built = whole(x) /\ DOMAIN built = 1 .. len(x) /\ \A i \in 1 .. len(x) : built[i] = Slot(ir, x, i)
    <3>1. ASSUME NEW i \in 1 .. n
          PROVE  ir.items[i].build.of[Item(x, i)] = Slot(ir, x, i)
      <4>1. ir.items[i] \in ir.kids /\ i <= n /\ i \in 1 .. len(x)
        BY <1>4, <2>4
      <4>2. Item(x, i) \in Values
        BY <1>5, <4>1
      <4> QED BY <4>1, <4>2, KidRebuilt DEF Slot
    <3> QED BY <2>4, <3>1
  <2> HIDE DEF built
  <2>5. CASE len(x) # n
    BY <1>3, <2>1, <2>2, <2>3, <2>5
  <2>6. CASE len(x) = n
    <3>1. (\E i \in DOMAIN built : built[i] = Fail) <=> fails(x)
      BY <2>2, <2>4, <2>6
    <3>2. GenerateSlow(ir, x) = IF IsArray(x) /\ ~fails(x) THEN Arr(whole(x)) ELSE Fail
      BY <1>3, <2>1
    <3>3. built = whole(x)
      BY <2>4, <2>6
    <3> HIDE DEF fails, whole
    <3> QED BY <2>3, <2>6, <3>1, <3>2, <3>3
  <2> QED BY <2>5, <2>6
<1>17. GenerateSlow(ir, Undefined) = Fail
  BY <1>1, Kinds DEF IsArray
<1>18. \A x \in Values : GenerateSlow(ir, x) # Undefined
  BY <1>2, Kinds, Basics
<1> QED BY <1>0, <1>12, <1>15, <1>16, <1>17, <1>18, RejectingKind DEF Node

-----------------------------------------------------------------------------
(* Every kind of node.                                                     *)

(* The parts of a node that the analyses and the programs read, per kind:  *)
(* what the emitters are handed by the extraction of a zod schema.         *)
WellFormed(ir) ==
  \/ ir.type = "literal" /\ ir.kids = {} /\ ir.values \subseteq Prims
  \/ ir.type \in {"any", "fallback"} /\ ir.kids = {}
  \/ ir.type = "string" /\ ir.kids = {} /\ ir.overwrites \in BOOLEAN
  \/ /\ ir.type \in {"optional", "nullable", "default", "catch", "effect", "record", "array"}
     /\ ir.kids = {ir.inner}
  \/ /\ ir.type = "readonly" /\ ir.kids = {ir.inner}
     /\ ir.freeze \in BOOLEAN /\ (ir.freeze => ir.inner.fresh)
  \/ ir.type \in {"set", "map"} /\ ir.kids = {ir.key, ir.value}
  \/ ir.type = "pipe" /\ ir.kids = {ir.in, ir.out} /\ Feeds(ir.in)
  \/ /\ ir.type = "intersection" /\ ir.kids = {ir.left, ir.right}
     /\ Feeds(ir.left) /\ ~ir.left.mutates /\ ~ir.right.mutates
  \/ ObjectNode(ir)
  \/ TupleNode(ir)
  \/ /\ ir.type = "union" /\ DOMAIN ir.options \subseteq Nat /\ 1 \in DOMAIN ir.options
     /\ ir.kids = {ir.options[i] : i \in DOMAIN ir.options}
     /\ ir.via = {} \/ \E k \in Discriminators(ir.options) : ir.via = {k}
  \/ /\ ir.type = "discriminatedUnion"
     /\ ir.kids = {ir.options[i] : i \in DOMAIN ir.options}
     /\ \A i \in DOMAIN ir.options :
           ir.disc \in DOMAIN ir.options[i].props /\ ~ir.options[i].props[ir.disc].required
     /\ \A i, j \in DOMAIN ir.options :
           i # j => ir.options[i].props[ir.disc].values \cap ir.options[j].props[ir.disc].values = {}

(* The five programs of a node are in agreement whenever those of its      *)
(* children are: the induction step of the code generator, for children of *)
(* any kind and any depth and nodes of any width.                          *)
THEOREM NodesCompose ==
  ASSUME NEW ir, WellFormed(ir), \A kid \in ir.kids : Good(kid)
  PROVE  Good(Compile(ir))
<1>1. CASE ir.type = "literal" /\ ir.kids = {} /\ ir.values \subseteq Prims
  <2>1. Node(ir) BY <1>1, LiteralNode
  <2>2. ir.type \in Types /\ Wired(ir) BY <1>1 DEF Types, Wired
  <2> QED BY <1>1, <2>1, <2>2, NoOptions, NodeIsGood
<1>2. CASE ir.type \in {"any", "fallback"} /\ ir.kids = {}
  <2>1. Node(ir) BY <1>2, AnyNode, FallbackNode
  <2>2. ir.type \in Types /\ Wired(ir) BY <1>2 DEF Types, Wired
  <2> QED BY <1>2, <2>1, <2>2, NoOptions, NodeIsGood
<1>3. CASE ir.type = "string" /\ ir.kids = {} /\ ir.overwrites \in BOOLEAN
  <2>1. Node(ir) BY <1>3, StringNode
  <2>2. ir.type \in Types /\ Wired(ir) BY <1>3 DEF Types, Wired
  <2> QED BY <1>3, <2>1, <2>2, NoOptions, NodeIsGood
<1>4. CASE /\ ir.type \in {"optional", "nullable", "default", "catch", "effect", "record", "array"}
           /\ ir.kids = {ir.inner}
  <2>0. Good(ir.inner) BY <1>4
  <2>1. Node(ir)
    BY <1>4, <2>0, OptionalNode, NullableNode, DefaultNode, CatchNode, EffectNode, RecordNode, ArrayNode
  <2>2. ir.type \in Types /\ Wired(ir) BY <1>4 DEF Types, Wired
  <2> QED BY <1>4, <2>1, <2>2, NoOptions, NodeIsGood
<1>5. CASE /\ ir.type = "readonly" /\ ir.kids = {ir.inner}
           /\ ir.freeze \in BOOLEAN /\ (ir.freeze => ir.inner.fresh)
  <2>0. Good(ir.inner) BY <1>5
  <2>1. Node(ir) BY <1>5, <2>0, ReadonlyNode
  <2>2. ir.type \in Types /\ Wired(ir) BY <1>5 DEF Types, Wired
  <2>3. Options(Compile(ir)) BY <1>5, <2>0, <2>1, ReadonlyOptions
  <2> QED BY <2>1, <2>2, <2>3, NodeIsGood
<1>6. CASE ir.type \in {"set", "map"} /\ ir.kids = {ir.key, ir.value}
  <2>0. Good(ir.key) /\ Good(ir.value) BY <1>6
  <2>1. Node(ir) BY <1>6, <2>0, CollectionNode
  <2>2. ir.type \in Types /\ Wired(ir) BY <1>6 DEF Types, Wired
  <2> QED BY <1>6, <2>1, <2>2, NoOptions, NodeIsGood
<1>7. CASE ir.type = "pipe" /\ ir.kids = {ir.in, ir.out} /\ Feeds(ir.in)
  <2>0. Good(ir.in) /\ Good(ir.out) BY <1>7
  <2>1. Node(ir) BY <1>7, <2>0, PipeNode
  <2>2. ir.type \in Types /\ Wired(ir) BY <1>7 DEF Types, Wired
  <2> QED BY <1>7, <2>1, <2>2, NoOptions, NodeIsGood
<1>8. CASE /\ ir.type = "intersection" /\ ir.kids = {ir.left, ir.right}
           /\ Feeds(ir.left) /\ ~ir.left.mutates /\ ~ir.right.mutates
  <2>0. Good(ir.left) /\ Good(ir.right) BY <1>8
  <2>1. Node(ir) BY <1>8, <2>0, IntersectionNode
  <2>2. ir.type \in Types /\ Wired(ir) BY <1>8 DEF Types, Wired
  <2> QED BY <1>8, <2>1, <2>2, NoOptions, NodeIsGood
<1>9. CASE ObjectNode(ir)
  <2>1. Node(ir) BY <1>9, ObjectGood
  <2>2. ir.type \in Types /\ Wired(ir) BY <1>9 DEF Types, Wired, ObjectNode
  <2>3. Options(Compile(ir)) BY <1>9, ObjectOptions
  <2> QED BY <2>1, <2>2, <2>3, NodeIsGood
<1>10. CASE TupleNode(ir)
  <2>1. Node(ir) BY <1>10, TupleGood
  <2>2. ir.type \in Types /\ Wired(ir) /\ ir.type = "tuple" BY <1>10 DEF Types, Wired, TupleNode
  <2> QED BY <2>1, <2>2, NoOptions, NodeIsGood
<1>11. CASE /\ ir.type = "union" /\ DOMAIN ir.options \subseteq Nat /\ 1 \in DOMAIN ir.options
            /\ ir.kids = {ir.options[i] : i \in DOMAIN ir.options}
            /\ ir.via = {} \/ \E k \in Discriminators(ir.options) : ir.via = {k}
  <2>1. Node(ir) BY <1>11, UnionNode
  <2>2. ir.type \in Types /\ Wired(ir) BY <1>11 DEF Types, Wired
  <2> QED BY <1>11, <2>1, <2>2, NoOptions, NodeIsGood
<1>12. CASE /\ ir.type = "discriminatedUnion"
            /\ ir.kids = {ir.options[i] : i \in DOMAIN ir.options}
            /\ \A i \in DOMAIN ir.options :
                  ir.disc \in DOMAIN ir.options[i].props /\ ~ir.options[i].props[ir.disc].required
            /\ \A i, j \in DOMAIN ir.options :
                  i # j => ir.options[i].props[ir.disc].values \cap ir.options[j].props[ir.disc].values = {}
  <2>1. Node(ir) BY <1>12, DiscriminatedUnionNode
  <2>2. ir.type \in Types /\ Wired(ir) BY <1>12 DEF Types, Wired
  <2> QED BY <1>12, <2>1, <2>2, NoOptions, NodeIsGood
<1> QED BY <1>1, <1>2, <1>3, <1>4, <1>5, <1>6, <1>7, <1>8, <1>9, <1>10, <1>11, <1>12 DEF WellFormed

-----------------------------------------------------------------------------
(* What generateValidator makes of a good schema.                          *)

(* A fast check that is consulted for a deferred validator is total.       *)
LEMMA DeferredIsExact ==
  ASSUME NEW s, Good(s), DeferredBranch(s), NEW x \in Values
  PROVE  FastExpr(s, x) <=> s.slow[x] # Fail
<1>1. s.fast.has /\ ~s.mutates /\ ~s.nested
  BY DEF DeferredBranch
<1>2. \A form \in Forms : s.fast[form][x] <=> s.slow[x] # Fail
  BY <1>1 DEF Good, Verdicts, Decides
<1> QED BY <1>2 DEF FastExpr, Forms

(* An input that the fast check passes, of a schema whose fast result is   *)
(* the input, is what the walk returns.                                    *)
LEMMA InputIsResult ==
  ASSUME NEW s, Good(s), NEW x \in Values, s.fast.has, FastResultIsInput(s), FastExpr(s, x)
  PROVE  s.slow[x] = x
<1>1. ~s.rebuilds /\ ~s.ordered
  BY DEF FastResultIsInput
<1>2. s.fast.ref[x]
  BY <1>1 DEF FastExpr
<1> QED BY <1>1, <1>2 DEF Good, Verdicts

(* safeParse() of a good schema is the slow walk.                          *)
LEMMA GoodSafeParse ==
  ASSUME NEW s, Good(s), NEW x \in Values
  PROVE  SafeParse(s, x) = s.slow[x]
<1>1. CASE BuildBranch(s)
  <2>1. SafeParse(s, x) = s.build.of[x]
    BY <1>1 DEF SafeParse, DeferredBranch
  <2>2. s.build.has /\ ~s.beyond
    BY <1>1 DEF BuildBranch
  <2> QED BY <2>1, <2>2 DEF Good, Rebuilt
<1>2. CASE DeferredBranch(s)
  <2>1. ~BuildBranch(s) /\ ~s.mutates /\ ~s.nested
    BY <1>2 DEF DeferredBranch
  <2>2. s.slow[x] \in {Cleaned(s.scrubs, x), Fail}
    BY <2>1 DEF Good, Returns
  <2>3. SafeParse(s, x) = IF ~FastExpr(s, x) THEN Fail ELSE IF s.scrubs THEN Scrub(x) ELSE x
    BY <1>2, <2>1 DEF SafeParse
  <2> QED BY <1>2, <2>2, <2>3, DeferredIsExact DEF Cleaned
<1>3. CASE ~BuildBranch(s) /\ ~DeferredBranch(s)
  BY <1>3, InputIsResult DEF SafeParse
<1> QED BY <1>1, <1>2, <1>3

(* So is parse().                                                          *)
LEMMA GoodParse ==
  ASSUME NEW s, Good(s), NEW x \in Values
  PROVE  Parse(s, x) = s.slow[x]
BY GoodSafeParse, InputIsResult DEF Parse, Published

(* is() of a good schema is the verdict of the walk.                       *)
LEMMA GoodIs ==
  ASSUME NEW s, Good(s), NEW x \in Values
  PROVE  Is(s, x) <=> s.slow[x] # Fail
<1>1. CASE s.fast.has /\ BuildBranch(s)
  <2>1. s.rebuilds /\ ~s.beyond /\ s.build.has
    BY <1>1 DEF BuildBranch
  <2>2. s.fast.accept[x] <=> s.slow[x] # Fail
    <3>1. Decides(s, "accept")
      BY <2>1 DEF Decides
    <3>2. \A form \in Forms : Decides(s, form) => (s.fast[form][x] <=> s.slow[x] # Fail)
      BY <1>1 DEF Good, Verdicts
    <3> QED BY <3>1, <3>2 DEF Forms
  <2> QED BY <1>1, <2>1, <2>2 DEF Is, FastExpr
<1>2. CASE s.fast.has /\ DeferredBranch(s)
  BY <1>2, DeferredIsExact DEF Is
<1>3. CASE ~(s.fast.has /\ (BuildBranch(s) \/ DeferredBranch(s)))
  BY <1>3, GoodSafeParse DEF Is
<1> QED BY <1>1, <1>2, <1>3

(* What a good schema tells its parent is true.                            *)
LEMMA GoodIsKnown ==
  ASSUME Good(schema)
  PROVE  ChildrenAreKnown
<1>1. AnalysisIsSound
  BY DEF AnalysisIsSound, Good, Absent, Returns, Cleaned
<1>2. ASSUME NEW x \in Values
      PROVE  /\ schema.fast.has /\ schema.fast.ref[x] /\ FastResultIsInput(schema) => schema.slow[x] = x
             /\ schema.fast.has /\ ~schema.mutates /\ ~schema.nested
                  => (schema.fast.ref[x] <=> schema.slow[x] # Fail)
             /\ schema.fast.has /\ schema.build.has /\ ~schema.beyond
                  => (schema.fast.accept[x] <=> schema.slow[x] # Fail)
             /\ schema.build.has /\ ~schema.beyond => schema.build.of[x] = schema.slow[x]
  <2>1. schema.fast.has =>
          /\ Decides(schema, "ref") => (schema.fast.ref[x] <=> schema.slow[x] # Fail)
          /\ Decides(schema, "accept") => (schema.fast.accept[x] <=> schema.slow[x] # Fail)
          /\ schema.fast.ref[x] /\ ~schema.rebuilds /\ ~schema.ordered => schema.slow[x] = x
    BY DEF Good, Verdicts, Forms
  <2>2. schema.build.has /\ ~schema.beyond => schema.build.of[x] = schema.slow[x]
    BY DEF Good, Rebuilt
  <2> QED BY <2>1, <2>2 DEF Decides, FastResultIsInput
<1>3. PartsAgree
  BY <1>2 DEF PartsAgree
<1> QED BY <1>1, <1>3 DEF ChildrenAreKnown

-----------------------------------------------------------------------------
(* The behaviours.                                                         *)

(* What a compiled schema is made of, whatever its author did.             *)
Typed(s) ==
  /\ DOMAIN s.slow = Values
  /\ s.optin \in {"none", "optional", "defaulted"}
  /\ \A x \in Values : {s.fast.ref[x], s.fast.accept[x]} \subseteq BOOLEAN

(* Where the rung of a node is read.                                       *)
Rung(ir) ==
  /\ Wired(ir)
  /\ ir.type = "effect" => IF ir.preprocess THEN ir.rung \in {"none", "optional"} ELSE ir.inner \in ir.kids

(* A node over children of the right types is compiled to one. *)
LEMMA CompiledTyped ==
  ASSUME NEW ir, Rung(ir), \A kid \in ir.kids : Typed(kid)
  PROVE  Typed(Compile(ir))
<1>1. \A kid \in ir.kids : kid.optin \in {"none", "optional", "defaulted"}
  BY DEF Typed
<1>2. Optin(ir) \in {"none", "optional", "defaulted"}
  <2>1. CASE ir.type \in {"optional", "catch"}
    BY <2>1 DEF Optin
  <2>2. CASE ir.type \in {"nullable", "readonly", "pipe"}
    BY <1>1, <2>2 DEF Optin, Rung, Wired
  <2>3. CASE ir.type = "effect"
    BY <1>1, <2>3 DEF Optin, Rung
  <2>4. CASE ir.type = "union"
    BY <2>4 DEF Optin
  <2>5. CASE ir.type \notin {"optional", "catch", "nullable", "readonly", "pipe", "effect", "union"}
    BY <2>5 DEF Optin
  <2> QED BY <2>1, <2>2, <2>3, <2>4, <2>5
<1>3. DOMAIN Compile(ir).slow = Values /\ Compile(ir).optin = Optin(ir)
  BY DEF Compile
<1>4. \A x \in Values : Compile(ir).fast.ref[x] \in BOOLEAN /\ Compile(ir).fast.accept[x] \in BOOLEAN
  BY DEF Compile
<1> QED BY <1>2, <1>3, <1>4 DEF Typed

(* The records that the schema author's API builds are well formed.        *)
LEMMA LeafIRsAreWellFormed ==
  ASSUME NEW ir \in LeafIRs
  PROVE  WellFormed(ir) /\ Rung(ir) /\ ir.kids = {}
<1>1. CASE \E l \in Literals : ir = [type |-> "literal", kids |-> {}, values |-> l]
  <2>1. PICK l \in Literals : ir = [type |-> "literal", kids |-> {}, values |-> l]
    BY <1>1
  <2>2. l \subseteq Prims
    BY PrimsAssumption
  <2>3. ir.type = "literal" /\ ir.kids = {} /\ ir.values = l
    BY <2>1
  <2> QED BY <2>2, <2>3 DEF WellFormed, Rung, Wired
<1>2. CASE ir \in {[type |-> "any", kids |-> {}], [type |-> "fallback", kids |-> {}]}
  <2>1. ir.type \in {"any", "fallback"} /\ ir.kids = {}
    BY <1>2
  <2> QED BY <2>1 DEF WellFormed, Rung, Wired
<1>3. CASE ir = [type |-> "string", kids |-> {}, overwrites |-> TRUE]
  <2>1. ir.type = "string" /\ ir.kids = {} /\ ir.overwrites = TRUE
    BY <1>3
  <2> QED BY <2>1 DEF WellFormed, Rung, Wired
<1> QED BY <1>1, <1>2, <1>3 DEF LeafIRs

(* The leaves are good. *)
LEMMA LeavesAreGood ==
  \A s \in Leaves : Good(s) /\ Typed(s)
<1> SUFFICES ASSUME NEW s \in Leaves
             PROVE  Good(s) /\ Typed(s)
  OBVIOUS
<1>1. PICK ir \in LeafIRs : s = Compile(ir)
  BY DEF Leaves
<1>2. WellFormed(ir) /\ Rung(ir) /\ ir.kids = {}
  BY LeafIRsAreWellFormed
<1> QED BY <1>1, <1>2, NodesCompose, CompiledTyped

(* So are the objects, unless a refinement is asked about something else   *)
(* than the input.                                                         *)
LEMMA ObjectIRIsWellFormed ==
  ASSUME NEW shape, NEW unknown \in {"strip", "strict", "loose"}, NEW refine \in BOOLEAN,
         refine => /\ unknown = "strict"
                   /\ \A k \in DOMAIN shape : ~shape[k].mutates /\ ~shape[k].scrubs /\ ~shape[k].nested
  PROVE  LET ir == ObjectIR(shape, unknown, refine)
         IN  WellFormed(ir) /\ Rung(ir) /\ ir.kids = {shape[k] : k \in DOMAIN shape}
<1> DEFINE ir == ObjectIR(shape, unknown, refine)
<1>1. /\ ir.type = "object" /\ ir.shape = shape /\ ir.unknown = unknown /\ ir.refine = refine
      /\ ir.kids = {shape[k] : k \in DOMAIN shape}
  BY DEF ObjectIR
<1> HIDE DEF ir
<1>2. ObjectNode(ir)
  BY <1>1 DEF ObjectNode
<1>3. Rung(ir)
  BY <1>1 DEF Rung, Wired
<1> QED BY <1>1, <1>2, <1>3 DEF WellFormed, ir

(* The tagged objects are good. *)
LEMMA TaggedAreGood ==
  \A s \in Tagged : Good(s) /\ Typed(s)
<1> SUFFICES ASSUME NEW s \in Tagged
             PROVE  Good(s) /\ Typed(s)
  OBVIOUS
<1>1. PICK tag \in Keys, leaf \in Leaves, unknown \in {"strip", "loose"} :
         s = Compile(ObjectIR([k \in {tag} |-> leaf], unknown, FALSE))
  <2> DEFINE Make(tag, leaf, unknown) == Compile(ObjectIR([k \in {tag} |-> leaf], unknown, FALSE))
             literals == {l \in Leaves : l.type = "literal"}
  <2>1. Tagged = {Make(tag, leaf, unknown) : tag \in Keys, leaf \in literals, unknown \in {"strip", "loose"}}
    BY DEF Tagged
  <2>2. literals \subseteq Leaves
    OBVIOUS
  <2> HIDE DEF Make, literals
  <2>3. PICK tag \in Keys, leaf \in literals, unknown \in {"strip", "loose"} : s = Make(tag, leaf, unknown)
    BY <2>1
  <2> QED BY <2>2, <2>3 DEF Make
<1> DEFINE shape == [k \in {tag} |-> leaf]
           ir == ObjectIR(shape, unknown, FALSE)
<1>2. \A k \in DOMAIN shape : shape[k] = leaf
  OBVIOUS
<1> HIDE DEF shape
<1>3. WellFormed(ir) /\ Rung(ir) /\ ir.kids = {shape[k] : k \in DOMAIN shape}
  BY ObjectIRIsWellFormed
<1>4. s = Compile(ir)
  BY <1>1 DEF shape
<1> HIDE DEF ir
<1>5. \A kid \in ir.kids : Good(kid) /\ Typed(kid)
  BY <1>2, <1>3, LeavesAreGood
<1> QED BY <1>3, <1>4, <1>5, NodesCompose, CompiledTyped

(* A step compiles one node over the schema and some siblings; it is well  *)
(* formed unless it is one of the two kinds that AnyRefine and AnyTag let  *)
(* in.                                                                     *)
Siblings == Leaves \cup Tagged

Composes(ir) ==
  /\ schema' = Compile(ir)
  /\ ir.kids \subseteq {schema} \cup Siblings
  /\ Rung(ir)
  /\ ~AnyRefine /\ ~AnyTag => WellFormed(ir)

(* A pair is of the schema and siblings of it. *)
LEMMA PairsAreSiblings ==
  ASSUME NEW siblings, siblings \subseteq Siblings, NEW pair \in Pairs(siblings)
  PROVE  /\ pair = <<pair[1], pair[2]>> /\ DOMAIN pair = {1, 2}
         /\ {pair[1], pair[2]} \subseteq {schema} \cup Siblings
BY DEF Pairs

(* The wrappers of one schema.                                             *)
LEMMA UnaryComposes ==
  ASSUME NEW type \in {"optional", "nullable", "default", "catch", "record"},
         Wrap(Unary(type, schema))
  PROVE  \E ir : Composes(ir)
<1> DEFINE ir == Unary(type, schema)
<1>1. ir.type = type /\ ir.kids = {schema} /\ ir.inner = schema /\ schema' = Compile(ir)
  BY DEF Unary, Wrap
<1> HIDE DEF ir
<1>2. WellFormed(ir) /\ Rung(ir)
  BY <1>1 DEF WellFormed, Rung, Wired
<1> QED BY <1>1, <1>2 DEF Composes

(* z.array() composes a node. *)
LEMMA ArrayComposes ==
  ASSUME Array
  PROVE  \E ir : Composes(ir)
<1>1. PICK size \in Sizes :
         Wrap([type |-> "array", kids |-> {schema}, inner |-> schema, size |-> size])
  BY DEF Array
<1> DEFINE ir == [type |-> "array", kids |-> {schema}, inner |-> schema, size |-> size]
<1>2. ir.type = "array" /\ ir.kids = {schema} /\ ir.inner = schema /\ schema' = Compile(ir)
  BY <1>1 DEF Wrap
<1> HIDE DEF ir
<1>3. WellFormed(ir) /\ Rung(ir)
  BY <1>2 DEF WellFormed, Rung, Wired
<1> QED BY <1>2, <1>3 DEF Composes

(* z.transform() and z.preprocess() compose one. *)
LEMMA EffectComposes ==
  ASSUME Transform \/ Preprocess
  PROVE  \E ir : Composes(ir)
<1>1. ASSUME NEW ir, ir.type = "effect", ir.kids = {schema}, ir.inner = schema, schema' = Compile(ir),
             IF ir.preprocess THEN ir.rung \in {"none", "optional"} ELSE TRUE
      PROVE  Composes(ir)
  <2>1. WellFormed(ir)
    BY <1>1 DEF WellFormed
  <2>2. Rung(ir)
    BY <1>1 DEF Rung, Wired
  <2> QED BY <1>1, <2>1, <2>2 DEF Composes
<1>2. CASE Transform
  <2> DEFINE ir == [type |-> "effect", kids |-> {schema}, inner |-> schema, preprocess |-> FALSE]
  <2>1. /\ ir.type = "effect" /\ ir.kids = {schema} /\ ir.inner = schema /\ ir.preprocess = FALSE
        /\ schema' = Compile(ir)
    BY <1>2 DEF Transform, Wrap
  <2> HIDE DEF ir
  <2> QED BY <1>1, <2>1
<1>3. CASE Preprocess
  <2>1. PICK rung \in {"none", "optional"} :
           Wrap([type |-> "effect", kids |-> {schema}, inner |-> schema,
                 preprocess |-> TRUE, rung |-> rung])
    BY <1>3 DEF Preprocess
  <2> DEFINE ir == [type |-> "effect", kids |-> {schema}, inner |-> schema,
                    preprocess |-> TRUE, rung |-> rung]
  <2>2. /\ ir.type = "effect" /\ ir.kids = {schema} /\ ir.inner = schema /\ ir.preprocess = TRUE
        /\ ir.rung = rung /\ schema' = Compile(ir)
    BY <2>1 DEF Wrap
  <2> HIDE DEF ir
  <2> QED BY <1>1, <2>2
<1> QED BY <1>2, <1>3

(* An object composes one. *)
LEMMA ObjectComposes ==
  ASSUME Object
  PROVE  \E ir : Composes(ir)
<1>1. PICK k \in Keys, unknown \in {"strip", "strict", "loose"}, refine \in BOOLEAN :
         \E others \in SUBSET (Keys \ {k}) : \E leaf \in [others -> Leaves] :
            WrapObject(ObjectIR([j \in {k} \cup others |-> IF j = k THEN schema ELSE leaf[j]],
                                unknown, refine))
  BY DEF Object
<1>2. PICK others \in SUBSET (Keys \ {k}) : \E leaf \in [others -> Leaves] :
         WrapObject(ObjectIR([j \in {k} \cup others |-> IF j = k THEN schema ELSE leaf[j]],
                             unknown, refine))
  BY <1>1
<1>3. PICK leaf \in [others -> Leaves] :
         WrapObject(ObjectIR([j \in {k} \cup others |-> IF j = k THEN schema ELSE leaf[j]],
                             unknown, refine))
  BY <1>2
<1> DEFINE shape == [j \in {k} \cup others |-> IF j = k THEN schema ELSE leaf[j]]
           ir == ObjectIR(shape, unknown, refine)
<1>4. {shape[j] : j \in DOMAIN shape} \subseteq {schema} \cup Siblings
  BY DEF Siblings
<1>5. WrapObject(ir)
  BY <1>3
<1> HIDE DEF shape
<1>6. ir.kids = {shape[j] : j \in DOMAIN shape} /\ ir.refine = refine /\ ir.unknown = unknown /\ ir.type = "object"
  BY DEF ObjectIR
<1>7. ~AnyRefine => WellFormed(ir)
  <2>1. ASSUME ~AnyRefine, refine
        PROVE  unknown = "strict" /\ \A j \in DOMAIN shape : ~shape[j].mutates /\ ~shape[j].scrubs /\ ~shape[j].nested
    <3>1. ir.unknown = "strict" /\ \A kid \in ir.kids : ~kid.mutates /\ ~kid.scrubs /\ ~kid.nested
      BY <1>5, <1>6, <2>1 DEF WrapObject
    <3> QED BY <1>6, <3>1
  <2> QED BY <2>1, ObjectIRIsWellFormed
<1> HIDE DEF ir
<1>8. Rung(ir)
  BY <1>6 DEF Rung, Wired
<1> QED BY <1>4, <1>5, <1>6, <1>7, <1>8 DEF Composes, WrapObject, Wrap

(* An object with a catchall composes one. *)
LEMMA CatchallComposes ==
  ASSUME Catchall
  PROVE  \E ir : Composes(ir)
<1>1. PICK k \in Keys, pair \in Pairs(Leaves) :
        LET ir == ObjectIR([j \in {k} |-> pair[1]], "catchall", FALSE)
        IN  /\ pair[2].type \notin {"fallback", "any"}
            /\ WrapObject([type |-> "object", kids |-> {pair[1], pair[2]},
                           shape |-> ir.shape, unknown |-> ir.unknown,
                           refine |-> FALSE, catchall |-> pair[2]])
  BY DEF Catchall
<1> DEFINE shape == [j \in {k} |-> pair[1]]
           inner == ObjectIR(shape, "catchall", FALSE)
           ir == [type |-> "object", kids |-> {pair[1], pair[2]},
                  shape |-> inner.shape, unknown |-> inner.unknown,
                  refine |-> FALSE, catchall |-> pair[2]]
<1>2. {pair[1], pair[2]} \subseteq {schema} \cup Siblings
  BY PairsAreSiblings DEF Siblings
<1>3. WrapObject(ir)
  BY <1>1
<1>4. \A j \in DOMAIN shape : shape[j] = pair[1]
  OBVIOUS
<1>5. /\ ir.type = "object" /\ ir.kids = {pair[1], pair[2]} /\ ir.shape = inner.shape
      /\ ir.unknown = inner.unknown /\ ir.refine = FALSE /\ ir.catchall = pair[2]
  OBVIOUS
<1> HIDE DEF shape, ir
<1>6. inner.shape = shape /\ inner.unknown = "catchall"
  BY DEF ObjectIR
<1> HIDE DEF inner
<1>7. ObjectNode(ir)
  BY <1>4, <1>5, <1>6 DEF ObjectNode
<1>8. Rung(ir)
  BY <1>5 DEF Rung, Wired
<1> QED BY <1>2, <1>3, <1>5, <1>7, <1>8 DEF Composes, WrapObject, Wrap, WellFormed

(* A tuple of the schema and siblings composes one, ... *)
LEMMA TupleIRComposes ==
  ASSUME NEW S, S \subseteq {schema} \cup Siblings, NEW items \in Seq(S), NEW rest \in Seq(S),
         rest = <<>> \/ 1 \in DOMAIN rest, Wrap(TupleIR(items, rest))
  PROVE  \E ir : Composes(ir)
<1> DEFINE ir == TupleIR(items, rest)
<1>1. /\ ir.type = "tuple" /\ ir.items = items /\ ir.rest = rest
      /\ ir.kids = {items[i] : i \in DOMAIN items} \cup {rest[i] : i \in DOMAIN rest}
  BY DEF TupleIR
<1> HIDE DEF ir
<1>2. /\ \A i \in DOMAIN items : items[i] \in S /\ items[i] \in ir.kids
      /\ \A i \in DOMAIN rest : rest[i] \in S /\ rest[i] \in ir.kids
  BY <1>1
<1>3. items \in Seq(ir.kids)
  BY <1>2
<1>4. TupleNode(ir)
  BY <1>1, <1>2, <1>3 DEF TupleNode
<1>5. Rung(ir)
  BY <1>1 DEF Rung, Wired
<1>6. ir.kids \subseteq {schema} \cup Siblings
  BY <1>1, <1>2
<1> QED BY <1>4, <1>5, <1>6 DEF Composes, Wrap, WellFormed, ir

(* ... and every tuple of the author's is such. *)
LEMMA TupleComposes ==
  ASSUME Tuple
  PROVE  \E ir : Composes(ir)
<1> DEFINE S == {schema} \cup Siblings
<1>1. <<>> \in Seq(S) /\ <<schema>> \in Seq(S)
  OBVIOUS
<1>2. ASSUME NEW pair \in Pairs(Leaves)
      PROVE  pair \in Seq(S) /\ <<pair[1]>> \in Seq(S) /\ <<pair[2]>> \in Seq(S)
  <2>1. pair = <<pair[1], pair[2]>> /\ pair[1] \in S /\ pair[2] \in S
    BY PairsAreSiblings DEF Siblings
  <2>2. \A a, b \in S : <<a, b>> \in Seq(S) /\ <<a>> \in Seq(S)
    <3> HIDE DEF S
    <3> QED OBVIOUS
  <2> HIDE DEF S
  <2>3. <<pair[1], pair[2]>> \in Seq(S) /\ <<pair[1]>> \in Seq(S) /\ <<pair[2]>> \in Seq(S)
    BY <2>1, <2>2
  <2> QED BY <2>1, <2>3
<1> HIDE DEF S
<1>3. CASE \E items \in {<<schema>>} \cup Pairs(Leaves) : Wrap(TupleIR(items, <<>>))
  <2>1. PICK items \in {<<schema>>} \cup Pairs(Leaves) : Wrap(TupleIR(items, <<>>))
    BY <1>3
  <2>2. items \in Seq(S)
    BY <1>1, <1>2
  <2> QED BY <1>1, <2>1, <2>2, TupleIRComposes DEF S
<1>4. CASE \E pair \in Pairs(Leaves) : Wrap(TupleIR(<<pair[1]>>, <<pair[2]>>))
  <2>1. PICK pair \in Pairs(Leaves) : Wrap(TupleIR(<<pair[1]>>, <<pair[2]>>))
    BY <1>4
  <2> DEFINE items == <<pair[1]>>
             rest == <<pair[2]>>
  <2>2. items \in Seq(S) /\ rest \in Seq(S)
    BY <1>2
  <2>3. 1 \in DOMAIN rest
    OBVIOUS
  <2>4. Wrap(TupleIR(items, rest))
    BY <2>1
  <2> HIDE DEF items, rest
  <2> QED BY <2>2, <2>3, <2>4, TupleIRComposes DEF S
<1> QED BY <1>3, <1>4 DEF Tuple

(* z.set() composes one. *)
LEMMA SetComposes ==
  ASSUME Set
  PROVE  \E ir : Composes(ir)
<1>1. PICK size \in Sizes :
         Wrap([type |-> "set", kids |-> {schema}, key |-> schema, value |-> schema, size |-> size])
  BY DEF Set
<1> DEFINE ir == [type |-> "set", kids |-> {schema}, key |-> schema, value |-> schema, size |-> size]
<1>2. ir.type = "set" /\ ir.kids = {schema} /\ ir.key = schema /\ ir.value = schema /\ schema' = Compile(ir)
  BY <1>1 DEF Wrap
<1> HIDE DEF ir
<1>3. ir.kids = {ir.key, ir.value}
  BY <1>2
<1>4. WellFormed(ir) /\ Rung(ir)
  BY <1>2, <1>3 DEF WellFormed, Rung, Wired
<1> QED BY <1>2, <1>4 DEF Composes

(* z.map() composes one. *)
LEMMA MapComposes ==
  ASSUME Map
  PROVE  \E ir : Composes(ir)
<1>1. PICK pair \in Pairs(Leaves) :
         Wrap([type |-> "map", kids |-> {pair[1], pair[2]}, key |-> pair[1], value |-> pair[2]])
  BY DEF Map
<1> DEFINE ir == [type |-> "map", kids |-> {pair[1], pair[2]}, key |-> pair[1], value |-> pair[2]]
<1>2. /\ ir.type = "map" /\ ir.kids = {pair[1], pair[2]} /\ ir.key = pair[1] /\ ir.value = pair[2]
      /\ schema' = Compile(ir)
  BY <1>1 DEF Wrap
<1>3. {pair[1], pair[2]} \subseteq {schema} \cup Siblings
  BY PairsAreSiblings DEF Siblings
<1> HIDE DEF ir
<1>4. ir.kids = {ir.key, ir.value}
  BY <1>2
<1>5. WellFormed(ir) /\ Rung(ir)
  BY <1>2, <1>4 DEF WellFormed, Rung, Wired
<1> QED BY <1>2, <1>3, <1>5 DEF Composes

(* The author may ask for a frozen schema only where that has no effect,   *)
(* or makes what is frozen.                                                *)
LEMMA ReadonlyComposes ==
  ASSUME Readonly
  PROVE  \E ir : Composes(ir)
<1> DEFINE ir == [type |-> "readonly", kids |-> {schema}, inner |-> schema, freeze |-> ~schema.noop]
<1>1. /\ ir.type = "readonly" /\ ir.kids = {schema} /\ ir.inner = schema /\ ir.freeze = (~schema.noop)
      /\ schema' = Compile(ir)
  BY DEF Readonly, Wrap
<1>2. ir.freeze \in BOOLEAN
  OBVIOUS
<1> HIDE DEF ir
<1>3. ir.freeze => ir.inner.fresh
  BY <1>1 DEF Readonly
<1>4. WellFormed(ir) /\ Rung(ir)
  BY <1>1, <1>2, <1>3 DEF WellFormed, Rung, Wired
<1> QED BY <1>1, <1>4 DEF Composes

(* z.pipe() composes one. *)
LEMMA PipeComposes ==
  ASSUME Pipe
  PROVE  \E ir : Composes(ir)
<1>1. PICK pair \in Pairs(Leaves) :
        /\ Feeds(pair[1])
        /\ Wrap([type |-> "pipe", kids |-> {pair[1], pair[2]}, in |-> pair[1], out |-> pair[2]])
  BY DEF Pipe
<1> DEFINE ir == [type |-> "pipe", kids |-> {pair[1], pair[2]}, in |-> pair[1], out |-> pair[2]]
<1>2. /\ ir.type = "pipe" /\ ir.kids = {pair[1], pair[2]} /\ ir.in = pair[1] /\ ir.out = pair[2]
      /\ schema' = Compile(ir)
  BY <1>1 DEF Wrap
<1>3. {pair[1], pair[2]} \subseteq {schema} \cup Siblings
  BY PairsAreSiblings DEF Siblings
<1> HIDE DEF ir
<1>4. ir.kids = {ir.in, ir.out} /\ Feeds(ir.in)
  BY <1>1, <1>2
<1>5. WellFormed(ir) /\ Rung(ir)
  BY <1>2, <1>4 DEF WellFormed, Rung, Wired
<1> QED BY <1>2, <1>3, <1>5 DEF Composes

(* z.intersection() composes one. *)
LEMMA IntersectionComposes ==
  ASSUME Intersection
  PROVE  \E ir : Composes(ir)
<1>1. PICK pair \in Pairs(Leaves \cup Tagged) :
        /\ \A i \in DOMAIN pair : ~pair[i].mutates /\ ~pair[i].unrecognized
        /\ Feeds(pair[1])
        /\ Wrap([type |-> "intersection", kids |-> {pair[1], pair[2]},
                 left |-> pair[1], right |-> pair[2]])
  BY DEF Intersection
<1> DEFINE ir == [type |-> "intersection", kids |-> {pair[1], pair[2]},
                  left |-> pair[1], right |-> pair[2]]
<1>2. /\ ir.type = "intersection" /\ ir.kids = {pair[1], pair[2]} /\ ir.left = pair[1] /\ ir.right = pair[2]
      /\ schema' = Compile(ir)
  BY <1>1 DEF Wrap
<1>3. {pair[1], pair[2]} \subseteq {schema} \cup Siblings /\ DOMAIN pair = {1, 2}
  BY PairsAreSiblings DEF Siblings
<1> HIDE DEF ir
<1>4. ir.kids = {ir.left, ir.right} /\ Feeds(ir.left) /\ ~ir.left.mutates /\ ~ir.right.mutates
  BY <1>1, <1>2, <1>3
<1>5. WellFormed(ir) /\ Rung(ir)
  BY <1>2, <1>4 DEF WellFormed, Rung, Wired
<1> QED BY <1>2, <1>3, <1>5 DEF Composes

(* z.union() composes one. *)
LEMMA UnionComposes ==
  ASSUME Union
  PROVE  \E ir : Composes(ir)
<1>1. PICK pair \in Pairs(Leaves \cup Tagged) :
        \E via \in IF Discriminators(pair) = {} THEN {{}}
                   ELSE {{k} : k \in Discriminators(pair)} :
            Wrap([type |-> "union", kids |-> {pair[1], pair[2]}, options |-> pair, via |-> via])
  BY DEF Union
<1>2. PICK via \in IF Discriminators(pair) = {} THEN {{}}
                   ELSE {{k} : k \in Discriminators(pair)} :
         Wrap([type |-> "union", kids |-> {pair[1], pair[2]}, options |-> pair, via |-> via])
  BY <1>1
<1> DEFINE ir == [type |-> "union", kids |-> {pair[1], pair[2]}, options |-> pair, via |-> via]
<1>3. /\ ir.type = "union" /\ ir.kids = {pair[1], pair[2]} /\ ir.options = pair /\ ir.via = via
      /\ schema' = Compile(ir)
  BY <1>2 DEF Wrap
<1>4. {pair[1], pair[2]} \subseteq {schema} \cup Siblings /\ DOMAIN pair = {1, 2}
  BY PairsAreSiblings DEF Siblings
<1> HIDE DEF ir
<1>5. via = {} \/ \E k \in Discriminators(pair) : via = {k}
  BY <1>2
<1>6. {pair[1], pair[2]} = {pair[i] : i \in DOMAIN pair}
  BY <1>4
<1>7. WellFormed(ir) /\ Rung(ir)
  BY <1>3, <1>4, <1>5, <1>6 DEF WellFormed, Rung, Wired
<1> QED BY <1>3, <1>4, <1>7 DEF Composes

(* z.discriminatedUnion() composes one, well formed unless a tag that must *)
(* be present accepts undefined.                                           *)
LEMMA DiscriminatedUnionComposes ==
  ASSUME DiscriminatedUnion
  PROVE  \E ir : Composes(ir)
<1>1. PICK pair \in Pairs(Tagged) : \E disc \in DOMAIN pair[1].props \cap DOMAIN pair[2].props :
        LET tag == [i \in 1 .. 2 |-> pair[i].props[disc]]
        IN  /\ tag[1].values # {} /\ tag[2].values # {}
            /\ tag[1].values \cap tag[2].values = {}
            /\ AnyTag \/ \A i \in 1 .. 2 : ~tag[i].required
            /\ Wrap([type |-> "discriminatedUnion", kids |-> {pair[1], pair[2]},
                     options |-> pair, disc |-> disc])
  BY DEF DiscriminatedUnion
<1>2. PICK disc \in DOMAIN pair[1].props \cap DOMAIN pair[2].props :
        /\ pair[1].props[disc].values \cap pair[2].props[disc].values = {}
        /\ AnyTag \/ (~pair[1].props[disc].required /\ ~pair[2].props[disc].required)
        /\ Wrap([type |-> "discriminatedUnion", kids |-> {pair[1], pair[2]},
                 options |-> pair, disc |-> disc])
  <2>1. PICK disc \in DOMAIN pair[1].props \cap DOMAIN pair[2].props :
          LET tag == [i \in 1 .. 2 |-> pair[i].props[disc]]
          IN  /\ tag[1].values # {} /\ tag[2].values # {}
              /\ tag[1].values \cap tag[2].values = {}
              /\ AnyTag \/ \A i \in 1 .. 2 : ~tag[i].required
              /\ Wrap([type |-> "discriminatedUnion", kids |-> {pair[1], pair[2]},
                       options |-> pair, disc |-> disc])
    BY <1>1
  <2> DEFINE tag == [i \in 1 .. 2 |-> pair[i].props[disc]]
  <2>2. tag[1] = pair[1].props[disc] /\ tag[2] = pair[2].props[disc]
    OBVIOUS
  <2>3. /\ tag[1].values \cap tag[2].values = {}
        /\ AnyTag \/ \A i \in 1 .. 2 : ~tag[i].required
        /\ Wrap([type |-> "discriminatedUnion", kids |-> {pair[1], pair[2]},
                 options |-> pair, disc |-> disc])
    BY <2>1
  <2> HIDE DEF tag
  <2>4. AnyTag \/ (~tag[1].required /\ ~tag[2].required)
    BY <2>3
  <2> QED BY <2>2, <2>3, <2>4
<1> DEFINE ir == [type |-> "discriminatedUnion", kids |-> {pair[1], pair[2]},
                  options |-> pair, disc |-> disc]
<1>3. /\ ir.type = "discriminatedUnion" /\ ir.kids = {pair[1], pair[2]} /\ ir.options = pair /\ ir.disc = disc
      /\ schema' = Compile(ir)
  BY <1>2 DEF Wrap
<1>4. {pair[1], pair[2]} \subseteq {schema} \cup Siblings /\ DOMAIN pair = {1, 2}
  BY PairsAreSiblings DEF Siblings
<1> HIDE DEF ir
<1>5. {pair[1], pair[2]} = {pair[i] : i \in DOMAIN pair}
  BY <1>4
<1>6. \A i \in DOMAIN pair : disc \in DOMAIN pair[i].props
  BY <1>2, <1>4
<1>7. \A i, j \in DOMAIN pair : i # j => pair[i].props[disc].values \cap pair[j].props[disc].values = {}
  BY <1>2, <1>4
<1>8. ~AnyTag => \A i \in DOMAIN pair : ~pair[i].props[disc].required
  BY <1>2, <1>4
<1>9. ~AnyTag => WellFormed(ir)
  BY <1>3, <1>5, <1>6, <1>7, <1>8 DEF WellFormed
<1>10. Rung(ir)
  BY <1>3 DEF Rung, Wired
<1> QED BY <1>3, <1>4, <1>9, <1>10 DEF Composes

(* Every step composes one, and counts. *)
LEMMA StepComposes ==
  ASSUME Next
  PROVE  /\ \E ir : Composes(ir)
         /\ depth < MaxDepth /\ depth' = depth + 1
<1>1. \E ir : Composes(ir)
  <2>1. CASE Optional BY <2>1, UnaryComposes DEF Optional
  <2>2. CASE Nullable BY <2>2, UnaryComposes DEF Nullable
  <2>3. CASE Default BY <2>3, UnaryComposes DEF Default
  <2>4. CASE Catch BY <2>4, UnaryComposes DEF Catch
  <2>5. CASE Transform \/ Preprocess BY <2>5, EffectComposes
  <2>6. CASE Array BY <2>6, ArrayComposes
  <2>7. CASE Record BY <2>7, UnaryComposes DEF Record
  <2>8. CASE Object BY <2>8, ObjectComposes
  <2>9. CASE Catchall BY <2>9, CatchallComposes
  <2>10. CASE Tuple BY <2>10, TupleComposes
  <2>11. CASE Set BY <2>11, SetComposes
  <2>12. CASE Map BY <2>12, MapComposes
  <2>13. CASE Readonly BY <2>13, ReadonlyComposes
  <2>14. CASE Pipe BY <2>14, PipeComposes
  <2>15. CASE Intersection BY <2>15, IntersectionComposes
  <2>16. CASE Union BY <2>16, UnionComposes
  <2>17. CASE DiscriminatedUnion BY <2>17, DiscriminatedUnionComposes
  <2> QED BY <2>1, <2>2, <2>3, <2>4, <2>5, <2>6, <2>7, <2>8, <2>9, <2>10, <2>11, <2>12, <2>13,
             <2>14, <2>15, <2>16, <2>17 DEF Next
<1>2. depth' = depth + 1
  <2>1. CASE Optional BY <2>1 DEF Optional, Wrap
  <2>2. CASE Nullable BY <2>2 DEF Nullable, Wrap
  <2>3. CASE Default BY <2>3 DEF Default, Wrap
  <2>4. CASE Catch BY <2>4 DEF Catch, Wrap
  <2>5. CASE Transform BY <2>5 DEF Transform, Wrap
  <2>6. CASE Preprocess BY <2>6 DEF Preprocess, Wrap
  <2>7. CASE Array BY <2>7 DEF Array, Wrap
  <2>8. CASE Record BY <2>8 DEF Record, Wrap
  <2>9. CASE Object BY <2>9 DEF Object, WrapObject, Wrap
  <2>10. CASE Catchall BY <2>10 DEF Catchall, WrapObject, Wrap
  <2>11. CASE Tuple BY <2>11 DEF Tuple, Wrap
  <2>12. CASE Set BY <2>12 DEF Set, Wrap
  <2>13. CASE Map BY <2>13 DEF Map, Wrap
  <2>14. CASE Readonly BY <2>14 DEF Readonly, Wrap
  <2>15. CASE Pipe BY <2>15 DEF Pipe, Wrap
  <2>16. CASE Intersection BY <2>16 DEF Intersection, Wrap
  <2>17. CASE Union BY <2>17 DEF Union, Wrap
  <2>18. CASE DiscriminatedUnion BY <2>18 DEF DiscriminatedUnion, Wrap
  <2> QED BY <2>1, <2>2, <2>3, <2>4, <2>5, <2>6, <2>7, <2>8, <2>9,
             <2>10, <2>11, <2>12, <2>13, <2>14, <2>15, <2>16, <2>17, <2>18 DEF Next
<1>3. depth < MaxDepth
  BY DEF Next
<1> QED BY <1>1, <1>2, <1>3

(* The siblings are good, and of the right types. *)
LEMMA SiblingsAreGood ==
  \A s \in Siblings : Good(s) /\ Typed(s)
BY LeavesAreGood, TaggedAreGood DEF Siblings

(* Type correctness: nothing the author composes takes a table of the      *)
(* schema beyond Values or a verdict beyond TRUE and FALSE.                *)
THEOREM TypeCorrect == Spec => []TypeOK
<1>1. Init => Typed(schema) /\ depth \in 0 .. MaxDepth
  BY SiblingsAreGood, ConstantsAssumption DEF Init, Siblings
<1>2. Typed(schema) /\ depth \in 0 .. MaxDepth /\ [Next]_vars => Typed(schema)' /\ (depth \in 0 .. MaxDepth)'
  <2> SUFFICES ASSUME Typed(schema), depth \in 0 .. MaxDepth, [Next]_vars
               PROVE  Typed(schema') /\ depth' \in 0 .. MaxDepth
    OBVIOUS
  <2>1. CASE Next
    <3>1. PICK ir : Composes(ir)
      BY <2>1, StepComposes
    <3>2. Typed(schema')
      BY <3>1, SiblingsAreGood, CompiledTyped DEF Composes
    <3>3. depth' \in 0 .. MaxDepth
      BY <2>1, StepComposes, ConstantsAssumption
    <3> QED BY <3>2, <3>3
  <2>2. CASE UNCHANGED vars
    BY <2>2 DEF vars
  <2> QED BY <2>1, <2>2
<1>3. Typed(schema) /\ depth \in 0 .. MaxDepth => TypeOK
  BY DEF Typed, TypeOK
<1> QED BY <1>1, <1>2, <1>3, PTL DEF Spec

(* The inductive invariant: every schema the author can compose, out of    *)
(* what the package compiles ahead of time, is good.  Refining an object   *)
(* whose output is not its input, and a tag that accepts undefined but     *)
(* must be present, are the two exceptions that runs of their own show.    *)
THEOREM GoodAlways ==
  ASSUME ~AnyRefine, ~AnyTag
  PROVE  Spec => []Good(schema)
<1>1. Init => Good(schema)
  BY SiblingsAreGood DEF Init, Siblings
<1>2. Good(schema) /\ [Next]_vars => Good(schema)'
  <2> SUFFICES ASSUME Good(schema), [Next]_vars
               PROVE  Good(schema')
    OBVIOUS
  <2>1. CASE Next
    <3>1. PICK ir : Composes(ir)
      BY <2>1, StepComposes
    <3>2. WellFormed(ir) /\ schema' = Compile(ir) /\ ir.kids \subseteq {schema} \cup Siblings
      BY <3>1 DEF Composes
    <3> QED BY <3>2, SiblingsAreGood, NodesCompose
  <2>2. CASE UNCHANGED vars
    BY <2>2 DEF vars
  <2> QED BY <2>1, <2>2
<1> QED BY <1>1, <1>2, PTL DEF Spec

(* safeParse() and parse(), whichever programs they run, answer as the     *)
(* slow walk does, for every schema the author can compose.                *)
THEOREM ResultsMatchWalkAlways ==
  ASSUME ~AnyRefine, ~AnyTag
  PROVE  Spec => []ResultsMatchWalk
<1>1. Good(schema) => ResultsMatchWalk
  BY GoodSafeParse, GoodParse DEF ResultsMatchWalk, SafeParseMatchesWalk, ParseByReference
<1> QED BY <1>1, GoodAlways, PTL

(* is() is true of exactly the inputs that parse.                          *)
THEOREM GuardIsExactAlways ==
  ASSUME ~AnyRefine, ~AnyTag
  PROVE  Spec => []GuardIsExact
<1>1. Good(schema) => GuardIsExact
  BY GoodIs DEF GuardIsExact
<1> QED BY <1>1, GoodAlways, PTL

(* No analysis tells a node anything false of its children, and no program *)
(* of theirs breaks what their parent's programs rely on.                  *)
THEOREM ChildrenAreKnownAlways ==
  ASSUME ~AnyRefine, ~AnyTag
  PROVE  Spec => []ChildrenAreKnown
<1>1. Good(schema) => ChildrenAreKnown
  BY GoodIsKnown
<1> QED BY <1>1, GoodAlways, PTL
====
