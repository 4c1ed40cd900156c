------------------------------- MODULE Hoist -------------------------------
(***************************************************************************)
(* Hoisting (src/unplugin/hoist.ts): schemas built inside functions are    *)
(* moved to declarations at the head of the module, and those whose        *)
(* construction is deterministic are compiled there (hoist-compile.ts).    *)
(*                                                                         *)
(* A file is what the analysis tells apart in one: a member and call chain *)
(* and where it stands, the names in its arguments, and the bindings the   *)
(* module and the function around the chain have for them. What else is in *)
(* a file can only make the analysis reject more. A step is the author     *)
(* writing a part of it. What the code makes of it is derived (Hoists);    *)
(* what the names of the file really mean is stated apart from that (Uses, *)
(* Meaning).                                                               *)
(***************************************************************************)
EXTENDS Naturals, Sequences, FiniteSets

CONSTANTS
  Names,      \* identifiers
  Imports,    \* those a file may import
  Zod,        \* imports from one of ZOD_MODULES
  OldZod,     \* of these, the ones isZodSpecifier() does not know
  Patterned,  \* imports that match SCHEMA_NAME_PATTERN
  Globals,    \* KNOWN_GLOBALS
  NoName,
  Blind,      \* what the analysis overlooks and a file may use: see Bind, Argue
  MaxParts    \* bound: parts a file is written in

ASSUME HoistAssumption ==
  /\ Zod \cup Patterned \subseteq Imports /\ OldZod \subseteq Zod
  /\ Imports \cup Globals \subseteq Names /\ Imports \cap Globals = {}
  /\ NoName \notin Names /\ Blind \subseteq {"default", "function"} /\ MaxParts \in Nat

VARIABLE file

-----------------------------------------------------------------------------
(* What files are made of.                                                  *)

(* COMBINATOR_METHODS; others that build; PARSE_METHODS; a method with type *)
(* arguments, where the JavaScript parser sees a comparison.                *)
Methods == {"combinator", "build", "parse", "typed"}

(* An argument evaluates a name at once; is a callback with a parameter     *)
(* and a name in its body or in the parameter's default; or uses `this' or  *)
(* await. It may hold another chain, in the body of the callback if it is   *)
(* one.                                                                     *)
Kinds == {"none", "eager", "callback", "default", "impure"}

Link(method) ==
  [method |-> method, kind |-> "none", name |-> NoName, param |-> NoName, inner |-> << >>]

(* Depth 0; depth 0 but behind an arrow; in the body of a function.         *)
Places == {"top", "arrow", "body"}

Unwritten(imports) ==
  [imports |-> imports, place |-> "top", root |-> NoName, links |-> << >>, bindings |-> {}]

-----------------------------------------------------------------------------
(* What names mean.                                                         *)

(* The names a chain's first n links use, when, and whether analyzeCaptures *)
(* visits the place: it does not visit the defaults of parameters.          *)
Use(name, eager, seen) == [name |-> name, eager |-> eager, seen |-> seen]

ArgumentUses(link) ==
  IF link.kind = "eager" /\ link.name # NoName THEN {Use(link.name, TRUE, TRUE)}
  ELSE IF link.kind = "callback" /\ link.name \notin {NoName, link.param}
       THEN {Use(link.name, FALSE, TRUE)}
  ELSE IF link.kind = "default" THEN {Use(link.name, FALSE, FALSE)}
  ELSE {}

FlatUses(c, n) == {Use(c.root, TRUE, TRUE)} \cup UNION {ArgumentUses(c.links[i]) : i \in 1 .. n}

InnerUses(link) ==
  {[u EXCEPT !.eager = @ /\ link.kind # "callback"] :
     u \in UNION {{u \in FlatUses(c, Len(c.links)) : u.name # link.param} :
                    c \in {link.inner[k] : k \in DOMAIN link.inner}}}

Uses(c, n) == FlatUses(c, n) \cup UNION {InnerUses(c.links[i]) : i \in 1 .. n}

(* What a name means in the module, and where the chain stands, inside a    *)
(* callback with the given parameter.                                       *)
Bound(name, scope) == {b \in file.bindings : b.scope = scope /\ b.name = name}
ModuleMeaning(name) ==
  IF Bound(name, "module") # {} THEN (CHOOSE b \in Bound(name, "module") : TRUE).how
  ELSE IF name \in file.imports THEN "import"
  ELSE IF name \in Globals THEN "global" ELSE "unbound"

Meaning(name, param) ==
  IF name = param THEN "parameter"
  ELSE IF Bound(name, "function") # {} THEN "local"
  ELSE ModuleMeaning(name)

(* Can the head of the module read it? A function declaration can be called *)
(* from there, a const or a class is still to be initialised.               *)
ReadyAtHead(name) == ModuleMeaning(name) \in {"import", "global", "function"}

-----------------------------------------------------------------------------
(* The analysis.                                                            *)

(* analyzeCaptures(): `this' and await disqualify.                          *)
Captures(c, n) == {u \in Uses(c, n) : u.seen}
Impure(c, n) == \E j \in 1 .. n : c.links[j].kind = "impure"

(* collectBoundNames(): parameters anywhere, variables, classes and catch   *)
(* clauses; not the names of functions.                                     *)
BoundNames_ModuleOnly == {b.name : b \in {b \in file.bindings : b.scope = "module"}}
BoundNames ==
  {b.name : b \in {b \in file.bindings : b.how # "function"}}
    \cup ({file.links[j].param : j \in DOMAIN file.links} \ {NoName})

(* The identifiers scanSource() looks for.                                  *)
Roots == (file.imports \cap (Zod \cup Patterned))
           \cup IF file.imports \cap Zod # {} THEN file.imports ELSE {}

(* The links parseAssignmentAt() and narrowToCallChain() make a call chain  *)
(* of, which is also where findChainEnd() stops; and what is left once the  *)
(* trailing calls that parse are peeled off.                                *)
ParsedLinks(c) ==
  CHOOSE n \in 0 .. Len(c.links) :
    /\ \A j \in 1 .. n : c.links[j].method # "typed"
    /\ n = Len(c.links) \/ c.links[n + 1].method = "typed"
Construction(c) ==
  CHOOSE n \in 0 .. ParsedLinks(c) :
    /\ \A j \in n + 1 .. ParsedLinks(c) : c.links[j].method = "parse"
    /\ n = 0 \/ c.links[n].method # "parse"

Hoistable(c) ==
  LET n    == Construction(c)
      free == {u.name : u \in Captures(c, n)}
      zod  == file.imports \cap Zod
  IN /\ c.root \in Roots /\ n > 0
     /\ \A j \in 1 .. n : c.links[j].method # "parse"
     /\ c.root \in zod \/ c.links[1].method = "combinator"
     /\ ~Impure(c, n)
     /\ free \subseteq (file.imports \cup Globals) \ BoundNames
     /\ c.root \in zod \cup Patterned \/ free \cap zod # {}

(* consumedUntil, as a number of links: a chain at depth 0 and one rooted   *)
(* in zod keep their interior, any other does when it is hoisted.           *)
Consumed_OnlyHoisted(c) == IF c.place # "top" /\ Hoistable(c) THEN Construction(c) ELSE 0
Consumed(c) ==
  IF c.root \notin Roots THEN 0
  ELSE IF c.place = "top" \/ (c.root \in Zod /\ Construction(c) = 0) THEN ParsedLinks(c)
  ELSE IF c.root \in Zod \/ Hoistable(c) THEN Construction(c)
  ELSE 0

(* hoistZodSchemasMeta(): what is replaced, 0 the chain itself, j the chain  *)
(* in the arguments of its j-th call.                                        *)
Hoists ==
  {0 : x \in {x \in {file.place} : x # "top" /\ Hoistable(file)}}
    \cup {j \in Consumed(file) + 1 .. Len(file.links) :
            \E k \in DOMAIN file.links[j].inner : Hoistable(file.links[j].inner[k])}

Chain(h) == IF h = 0 THEN file ELSE file.links[h].inner[1]
Param(h) == IF h = 0 THEN NoName ELSE file.links[h].param
Text(h)  == Uses(Chain(h), Construction(Chain(h)))

(* compileOne(): may the declaration be evaluated during the build?         *)
Compiles(h) ==
  \A u \in Captures(Chain(h), Construction(Chain(h))) :
    u.eager => u.name \in (file.imports \cap Zod) \ OldZod

-----------------------------------------------------------------------------
(* The author.                                                              *)

Parts == Len(file.links) + Cardinality({j \in DOMAIN file.links : file.links[j].kind # "none"})
           + Cardinality(file.bindings)

HoistInit == file \in {Unwritten(imports) : imports \in SUBSET Imports \ {{}}}

Write(place, root) ==
  /\ file.root = NoName
  /\ file' = [file EXCEPT !.place = place, !.root = root]

Call(method) ==
  /\ file.root # NoName
  /\ file' = [file EXCEPT !.links = Append(@, Link(method))]

(* The argument of the last call: `default' is one of the constructs the    *)
(* analysis overlooks.                                                      *)
Argue(kind, name, param, inner) ==
  /\ file.links # << >> /\ file.bindings = {}
  /\ kind = "default" => "default" \in Blind
  /\ LET j == Len(file.links)
     IN /\ file.links[j].kind = "none"
        /\ file' = [file EXCEPT !.links[j] = [@ EXCEPT !.kind = kind, !.name = name,
                                                       !.param = param, !.inner = inner]]

(* A binding of a name the chain uses. A module does not declare what it    *)
(* imports, and what a concise arrow binds are parameters. A function       *)
(* declared inside another is overlooked.                                   *)
Bind(name, how, scope) ==
  /\ file.links # << >>
  /\ name \in {u.name : u \in Uses(file, Len(file.links))} /\ Bound(name, scope) = {}
  /\ scope = "module" => name \notin file.imports /\ how # "param"
  /\ scope = "function" => /\ how = "function" => "function" \in Blind
                           /\ file.place = "body" \/ (file.place = "arrow" /\ how = "param")
  /\ file' = [file EXCEPT !.bindings = @ \cup {[name |-> name, how |-> how, scope |-> scope]}]

(* A chain in an argument; it is plain: its arguments hold no chain.        *)
InnerLinks == {<<Link("combinator")>>, <<Link("build")>>, <<Link("build"), Link("parse")>>}
                \cup {<<[Link("build") EXCEPT !.kind = "eager", !.name = x]>> : x \in Names}
Inner == {[root |-> r, links |-> l] : r \in Imports, l \in InnerLinks}

Arguments ==
  \/ Argue("impure", NoName, NoName, << >>)
  \/ \E x \in Names : \/ Argue("eager", x, NoName, << >>)
                      \/ Argue("default", x, NoName, << >>)
                      \/ \E p \in Names \cup {NoName} : Argue("callback", x, p, << >>)
  \/ \E c \in Inner : \/ Argue("eager", NoName, NoName, <<c>>)
                      \/ \E p \in {NoName, c.root, c.links[1].name} :
                           Argue("callback", NoName, p, <<c>>)

Declarations == \E x \in Names, how \in {"var", "param", "function"}, s \in {"module", "function"} :
                  Bind(x, how, s)

HoistNext ==
  \/ \E place \in Places, root \in Imports : Write(place, root)
  \/ Parts < MaxParts /\ ((\E m \in Methods : Call(m)) \/ Arguments \/ Declarations)

-----------------------------------------------------------------------------
(* Properties.                                                              *)

HoistTypeOK ==
  /\ file.imports \in SUBSET Imports /\ file.place \in Places /\ file.root \in Imports \cup {NoName}
  /\ \A j \in DOMAIN file.links :
       LET l == file.links[j]
       IN /\ l.method \in Methods /\ l.kind \in Kinds
          /\ l.name \in Names \cup {NoName} /\ l.param \in Names \cup {NoName}
          /\ \A k \in DOMAIN l.inner : k = 1 /\ l.inner[k].root \in Imports
  /\ file.bindings \subseteq [name : Names, how : {"var", "param", "function"},
                              scope : {"module", "function"}]

(* Every name of a hoisted expression means at the head of the module what  *)
(* it means where the expression stood, and is initialised by the time it   *)
(* is read there; what is evaluated during the build reads only zod.        *)
NamesKeepMeaning ==
  \A h \in Hoists : \A u \in Text(h) :
    /\ Meaning(u.name, Param(h)) = ModuleMeaning(u.name)
    /\ ReadyAtHead(u.name)
    /\ u.eager /\ Compiles(h) => ModuleMeaning(u.name) = "import" /\ u.name \in Zod

(* Two replacements do not overlap, and the interior of a construction      *)
(* rooted in zod is hoisted with it or not at all.                          *)
HoistsAreApart ==
  \A h \in Hoists \ {0} :
    0 \in Hoists \/ file.root \in file.imports \cap Zod => h > Construction(file)

(* Hoisting never changes what an expression reads, when it can be read, or  *)
(* which of the chains around it is moved.                                   *)
HoistIsSafe == NamesKeepMeaning /\ HoistsAreApart

=============================================================================
