---------------------------- MODULE ModuleRewrite ----------------------------
(***************************************************************************)
(* The rewrite of one module (src/unplugin/transform.ts): its exported     *)
(* schemas are discovered by executing it (src/discovery.ts), compiled     *)
(* (src/core/pipeline.ts, src/core/extract/) and their initialisers        *)
(* replaced, in the text, by compiled validators (src/core/iife.ts). What  *)
(* several of them contain is compiled once, at the top of the module      *)
(* (src/core/codegen/dedupe.ts).                                           *)
(*                                                                         *)
(* A module is its declarations, in order; a step is the author writing a  *)
(* part of one. What the rewrite makes of the module is derived (Edits);   *)
(* what evaluating the result then reads is stated apart from that.        *)
(***************************************************************************)
EXTENDS Naturals, FiniteSets, SequencesExt

CONSTANTS
  Bindings,    \* names a module declares
  NotExported,
  Overlooked,  \* what the rewrite overlooks and a module may do: see The author
  MaxWords     \* bound: the parts a module is written in

ASSUME RewriteAssumption ==
  /\ NotExported \notin Bindings /\ MaxWords \in Nat
  /\ Overlooked \subseteq {"forward", "list", "alias", "local", "catchall", "self"}

VARIABLE module

Decls == 1 .. Len(module.decls)
Decl(i) == module.decls[i]

-----------------------------------------------------------------------------
(* What a module means.                                                      *)

(* compile() is a form of its own. `joined': the declaration shares the      *)
(* statement of the one before it. `local': it stands in a function. refs:   *)
(* the bindings its schema is built from, read at once (as a "value", or as  *)
(* the "catchall" of an object) or by a "getter" of an object. delegates: a  *)
(* part of the schema is left to Zod. fails: extracting the schema throws.   *)
Blank(name, form, joined, local) ==
  [name |-> name, form |-> form, joined |-> joined, local |-> local,
   export |-> NotExported, refs |-> {}, delegates |-> FALSE, fails |-> FALSE]

(* The declaration a name refers to at the top of the module, 0: none.       *)
Refers(name) == IF \E i \in Decls : Decl(i).name = name /\ ~Decl(i).local
                THEN CHOOSE i \in Decls : Decl(i).name = name /\ ~Decl(i).local
                ELSE 0
Hows == {"value", "catchall", "getter"}
Reads(i, hows) == {Refers(r.to) : r \in {r \in Decl(i).refs : r.how \in hows}}

(* The declarations of i's statement from i on.                              *)
Statement(i) == {i} \cup {j \in Decls : j > i /\ \A k \in i + 1 .. j : Decl(k).joined}

-----------------------------------------------------------------------------
(* Discovery and compilation.                                                *)

(* discoverSchemas(): the exports, compile()d ones only unless autoDiscover. *)
Discovered == {i \in Decls : /\ Decl(i).export # NotExported
                             /\ module.autoDiscover \/ Decl(i).form = "compile"}

(* extractSchema() follows a schema into those it is built from, and stops   *)
(* at one it is already in (dispatch, makeRecursiveRef). What is delegated   *)
(* is noted with the way to it (makeFallback), and compileSchemas() leaves   *)
(* out what throws.                                                          *)
Targets(i) == Reads(i, Hows)
WalksBy(i, next) ==
  {p \in UNION {[1 .. n -> Decls] : n \in Decls} :
     /\ p[1] = i
     /\ \A k \in 1 .. Len(p) - 1 : p[k + 1] \in next[p[k]]
     /\ IsInjective(p)}
Walks(i) == WalksBy(i, [j \in Decls |-> Targets(j)])
RefEntries(i) == {p \in Walks(i) : Decl(Last(p)).delegates}

Compiled == {i \in Discovered : ~Decl(i).fails}

(* createSharedSchemaPlan(): a schema that occurs twice in those compiled,   *)
(* each at the end of a walk, is compiled to a function at the top of the    *)
(* module, which no IIFE's names reach: unless a part of it is left to Zod,  *)
(* or leads back. childSchemas() does not return a catchall. How much a      *)
(* schema must weigh to be shared is left out.                               *)
ChildSchemas(i) == Reads(i, Hows \ {"catchall"})
Subtree(i) == WalksBy(i, [j \in Decls |-> ChildSchemas(j)])

ContainsRecursiveRef(i) == \E p \in Subtree(i) : ChildSchemas(Last(p)) \cap Range(p) # {}
ReferencesExportRefs_Never(i) == FALSE
ReferencesExportRefs(i) == \E p \in Subtree(i) : Decl(Last(p)).delegates

Occurrences(i) == {p \in UNION {Subtree(root) : root \in Compiled} : Last(p) = i}
Shared ==
  {i \in Decls : /\ Cardinality(Occurrences(i)) >= 2
                 /\ ~ContainsRecursiveRef(i) /\ ~ReferencesExportRefs(i)}

-----------------------------------------------------------------------------
(* The edits.                                                                *)

FirstOf(S) == {i \in S : \A j \in S : i <= j}

(* The first place in the text where `name = compile(' stands, and where     *)
(* `const name =' does.                                                      *)
CompileMatch(name) == FirstOf({i \in Decls : Decl(i).name = name /\ Decl(i).form = "compile"})
AssignMatch(name)  == FirstOf({i \in Decls : Decl(i).name = name /\ ~Decl(i).joined})

(* collectAutoDiscoverEdits(): the text of the expression ends where the     *)
(* statement does, and an IIFE that reads the schema's structure must not    *)
(* stand in the initialiser of a binding that expression mentions.           *)
MentionsIdentifier_Never(k, name) == FALSE
MentionsIdentifier(k, name) == \E j \in Statement(k) : \E r \in Decl(j).refs : r.to = name
DerefsSchema(i) == RefEntries(i) # {}
Follows(i, k) == DerefsSchema(i) /\ MentionsIdentifier(k, Decl(i).export)

Edit(pass, i, k, place, span) == [pass |-> pass, at |-> k, of |-> i, place |-> place, span |-> span]

AutoDiscoverEdits(S) ==
  UNION {{Edit("plain", i, k, IF Follows(i, k) THEN "after" ELSE "initialiser", Statement(k)) :
            k \in {k \in AssignMatch(Decl(i).export) : ~(Follows(i, k) /\ module.bag)}} : i \in S}

CompileEdits(S) ==
  UNION {{Edit("compile", i, k, "initialiser", {k}) : k \in CompileMatch(Decl(i).export)} : i \in S}

(* The two passes of transformCodeWithMap(), over one text: compile() calls, *)
(* and the other exports.                                                    *)
CompilePass ==
  IF module.autoDiscover THEN {i \in Compiled : CompileMatch(Decl(i).export) # {}} ELSE Compiled
PlainPass_All == Compiled
PlainPass == Compiled \ CompilePass
Edits == CompileEdits(CompilePass) \cup AutoDiscoverEdits(PlainPass)

-----------------------------------------------------------------------------
(* Evaluating the result.                                                    *)

(* Declarations the result still has: what stood after the comma of a        *)
(* rewritten expression is now inside the IIFE, or an argument of a call.    *)
Declared == {i \in Decls : \A e \in Edits : e.place = "initialiser" => i \notin e.span \ {e.at}}

(* Reading the shape of an object fires its getters, all of them, and the    *)
(* way to what is delegated leads through the shapes of the schemas on it.   *)
Fired(i) == UNION {UNION {Reads(p[k], {"getter"}) : k \in 1 .. Len(p)} : p \in RefEntries(i)}

Initialised(e, j) == j \in Declared /\ (j < e.at \/ (j = e.at /\ e.place = "after"))

(* What the compiled schemas have of their own below an occurrence of i:     *)
(* what is left to Zod, in __rf, and what leads back, to a function of theirs.*)
ExportReads(i) ==
  {p \in UNION {Walks(root) : root \in Compiled} :
     /\ i \in Range(p)
     /\ Decl(Last(p)).delegates \/ Targets(Last(p)) \cap Range(p) # {}}

-----------------------------------------------------------------------------
(* The author.                                                               *)

Words == Len(module.decls) + Cardinality({i \in Decls : Decl(i).export # NotExported})
           + Cardinality({i \in Decls : Decl(i).delegates}) + Cardinality({i \in Decls : Decl(i).fails})
           + Cardinality(UNION {{i} \X Decl(i).refs : i \in Decls})

RewriteInit == module \in [decls : {<< >>}, autoDiscover : BOOLEAN, bag : BOOLEAN]

Revise(i, d) == module' = [module EXCEPT !.decls[i] = d]

(* One declaration of a name at the top. Declarations that share a statement *)
(* with one before them, and those in functions, are overlooked.             *)
Declare(name, form, joined, local) ==
  /\ ~local => Refers(name) = 0
  /\ joined => module.decls # << >> /\ "list" \in Overlooked
  /\ local => ~joined /\ "local" \in Overlooked
  /\ module' = [module EXCEPT !.decls = Append(@, Blank(name, form, joined, local))]

(* Under its own name or another, which is overlooked.                       *)
Export(i, name) ==
  /\ Decl(i).export = NotExported /\ ~Decl(i).local
  /\ \A j \in Decls : Decl(j).export # name
  /\ name # Decl(i).name => "alias" \in Overlooked
  /\ Revise(i, [Decl(i) EXCEPT !.export = name])

(* A schema is built from schemas, which compile() returns as they are: from *)
(* those before it, or by a getter also from itself and from later ones. A   *)
(* later one together with a delegated part anywhere is overlooked, and so   *)
(* is a catchall.                                                            *)
Forward == \E i \in Decls : \E r \in Decl(i).refs : Refers(r.to) > i
Refer(i, j, how) ==
  /\ ~Decl(i).local /\ ~Decl(j).local
  /\ j < i \/ how = "getter"
  /\ how = "catchall" => "catchall" \in Overlooked
  /\ j > i => "forward" \in Overlooked \/ \A k \in Decls : ~Decl(k).delegates
  /\ Revise(i, [Decl(i) EXCEPT !.refs = @ \cup {[to |-> Decl(j).name, how |-> how]}])

Delegate(i) ==
  /\ ~Decl(i).delegates /\ (Forward => "forward" \in Overlooked)
  /\ Revise(i, [Decl(i) EXCEPT !.delegates = TRUE])

Fail(i) == ~Decl(i).fails /\ Revise(i, [Decl(i) EXCEPT !.fails = TRUE])

(* A compile() call whose argument names its own binding in a getter and     *)
(* from which a part is left to Zod: only the pass over the other exports    *)
(* looks whether an expression mentions the binding it initialises.          *)
SelfReferring ==
  \E i \in Decls : Decl(i).form = "compile" /\ i \in Reads(i, {"getter"}) /\ RefEntries(i) # {}

RewriteNext ==
  /\ Words < MaxWords
  /\ \/ \E name \in Bindings, form \in {"plain", "compile"}, joined, local \in BOOLEAN :
          Declare(name, form, joined, local)
     \/ \E i \in Decls : \/ \E name \in Bindings : Export(i, name)
                         \/ \E j \in Decls, how \in Hows : Refer(i, j, how)
                         \/ Delegate(i) \/ Fail(i)
  /\ SelfReferring' => "self" \in Overlooked

-----------------------------------------------------------------------------
(* Properties.                                                               *)

RewriteTypeOK ==
  \A i \in Decls : Decl(i) \in
    [name : Bindings, form : {"plain", "compile"}, joined : BOOLEAN, local : BOOLEAN,
     export : Bindings \cup {NotExported}, refs : SUBSET [to : Bindings, how : Hows],
     delegates : BOOLEAN, fails : BOOLEAN]

(* While the rewritten module is evaluated every binding an inserted         *)
(* validator reads is declared and initialised, none of the module's own     *)
(* declarations is lost, and what is shared at the top of the module reads   *)
(* nothing that only the validator of one export has.                        *)
OutputInitialises ==
  /\ \A i \in Shared : ExportReads(i) = {}
  /\ \A e \in Edits : \A j \in Fired(e.of) : Initialised(e, j)
  /\ Declared = Decls

(* A declaration is given the validator compiled from its own schema, and    *)
(* only one.                                                                 *)
OwnValidator ==
  \A e \in Edits : e.of = e.at /\ \A f \in Edits \ {e} : e.span \cap f.span = {}

=============================================================================
