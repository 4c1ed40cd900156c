----------------------------- MODULE StaticFilter -----------------------------
(***************************************************************************)
(* The static filter (src/static-filter.ts): a file none of whose exports  *)
(* can be a schema is not executed. It is told from the top-level          *)
(* statements of the file's CommonJS form.                                 *)
(*                                                                         *)
(* A step is the next statement of the file, and what running it does to   *)
(* the values of the file's bindings and exports; the analysis             *)
(* (MayExportSchemas) sees the statements only. What it does not recognise *)
(* makes a file a candidate, and is left out.                              *)
(***************************************************************************)
EXTENDS Naturals, Sequences, FiniteSets

CONSTANTS
  Locals,        \* bindings of the file
  Exported,      \* names it exports
  Default,       \* exports.default; also module.exports, which interop makes of it
  Anonymous,     \* a statement that declares nothing
  Unnoticed,     \* what the analysis overlooks and a file may do: see Run
  MaxStatements  \* bound: the length of a file

ASSUME FilterAssumption ==
  /\ Default \in Exported /\ Locals \cap Exported = {} /\ Anonymous \notin Locals \cup Exported
  /\ Unnoticed \subseteq {"reassigned", "aliased", "chained"} /\ MaxStatements \in Nat

(* statements; and, of the run so far: what locals and exports hold, the     *)
(* names code has got hold of, and the containers it could have made schemas *)
VARIABLE program

-----------------------------------------------------------------------------
(* Statements.                                                               *)

(* const a = exports.x = b = value; a = exports.x = value; value;            *)
(* function f() { value }. Targets is what is assigned.                      *)
Forms == {"function", "var", "run"}
Row(form, declares, targets, kind, names, exports) ==
  [form |-> form, declares |-> declares, targets |-> targets,
   kind |-> kind, names |-> names, exports |-> exports]

(* Literals and the like, functions among them; a call, a member, new; an    *)
(* object or array; one of several names (a name, a conditional, ||, &&,     *)
(* ??); no initialiser; code of any kind, as in a body or a callback. names: *)
(* those it refers to. exports: it refers to exports or module.              *)
ValueKinds == {"literal", "call", "container", "name", "none", "code"}

-----------------------------------------------------------------------------
(* The analysis.                                                             *)

Rows == {program.statements[i] : i \in DOMAIN program.statements}
Declaring(n) == {s \in Rows : s.declares = n}

(* Pass 1: what is referred to elsewhere than in its declaration, in an      *)
(* assignment to it, or where it is exported as it is.                       *)
ReferencedNames_CodeOnly == UNION {s.names : s \in {s \in Rows : s.kind \in {"call", "code"}}}
ReferencedNames ==
  UNION {s.names : s \in {s \in Rows :
           ~(s.kind = "name" /\ Cardinality(s.names) = 1 /\ s.targets \cap Exported # {})}}

SafeDecls == {s.declares : s \in {s \in Rows : s.form = "function"}}

(* resolveIdentifier(): the names a value leads to, by their initialisers,   *)
(* and no others.                                                            *)
Inits(n) == {s \in Declaring(n) : s.form = "var"}
LeadsTo(S) == UNION {UNION {s.names : s \in {s \in Inits(n) : s.kind = "name"}} : n \in S}
Resolved(S) ==
  {n \in Locals : \A T \in SUBSET Locals : S \subseteq T /\ LeadsTo(T) \subseteq T => n \in T}

(* No name may be come to twice (seen).                                      *)
SeenTwice(S) ==
  \E n \in Resolved(S) :
    1 < Cardinality({m \in Resolved(S) : n \in LeadsTo({m})}) + IF n \in S THEN 1 ELSE 0

(* classifyValue(): containers are unwrapped in the default export, and may  *)
(* become a schema where code has a name of theirs.                          *)
ContainerIsSafe_NotUnwrapped(defaultish, bindingNames) == bindingNames \cap ReferencedNames = {}
ContainerIsSafe(defaultish, bindingNames) ==
  ~defaultish /\ bindingNames \cap ReferencedNames = {}

NameIsSafe(n, defaultish) ==
  \/ n \in SafeDecls
  \/ \E s \in Inits(n) : \/ s.kind \in {"literal", "name"}
                         \/ s.kind = "container" /\ ContainerIsSafe(defaultish, {n})

ValueIsSafe(s, defaultish) ==
  \/ s.kind = "literal"
  \/ s.kind = "container"
     /\ ContainerIsSafe(defaultish, ({s.declares} \ {Anonymous}) \cup (s.targets \cap Locals))
  \/ /\ s.kind = "name"
     /\ ~SeenTwice(s.names)
     /\ \A n \in Resolved(s.names) : NameIsSafe(n, defaultish)

(* processAssignment(), processStatement()                                   *)
IsSafe(s) ==
  /\ ~s.exports
  /\ \A t \in s.targets \cap Exported : ValueIsSafe(s, t = Default)

(* hasObviousCandidateExport(), and the analysis of the whole.               *)
Obvious(s) == s.kind = "call" /\ s.targets \cap Exported # {} /\ (s.form = "var" \/ Default \in s.targets)
MayExportSchemas == \E s \in Rows : Obvious(s) \/ ~IsSafe(s)

-----------------------------------------------------------------------------
(* Running the file, as discovery would (src/discovery.ts). A container is   *)
(* the statement that made it.                                               *)

Plain == [is |-> "plain", made |-> 0]
ASchema == [is |-> "schema", made |-> 0]
Made(i) == [is |-> "container", made |-> i]

Evaluate(s) ==
  IF s.kind = "name" THEN {program.holds[n] : n \in s.names}
  ELSE IF s.kind = "call" THEN {ASchema}
  ELSE IF s.kind = "container" THEN {Made(Len(program.statements) + 1)}
  ELSE {Plain}

(* What discoverSchemas() may find: a schema, a container that code has made *)
(* one, or the contents of the default export.                               *)
Discoverable(t) ==
  \/ program.holds[t].is = "schema"
  \/ program.holds[t].made # 0 /\ (t = Default \/ program.holds[t].made \in program.shaped)

-----------------------------------------------------------------------------
(* The author.                                                               *)

FilterInit == program = [statements |-> << >>, holds |-> [t \in Locals \cup Exported |-> Plain],
                         reached |-> {}, shaped |-> {}]

(* Names are declared before they are used. Three things are overlooked: a   *)
(* binding that is assigned later although it is initialised, one that       *)
(* shares an export's assignment of another name, and a container that is    *)
(* given two names at once. Code that names something can make a schema of   *)
(* the container it holds then or later, and if it names exports, of them.   *)
Run(s) ==
  LET declared == {r.declares : r \in Rows}
      reached  == program.reached \cup IF s.kind \in {"call", "code"} THEN s.names ELSE {}
  IN /\ s.declares \notin declared \ {Anonymous}
     /\ s.names \cup (s.targets \cap Locals) \subseteq declared
     /\ \A n \in s.targets \cap Locals :
          "reassigned" \in Unnoticed \/ \A r \in Declaring(n) : r.kind = "none"
     /\ (s.kind = "name" /\ s.targets \cap Exported # {}
           /\ (s.declares # Anonymous \/ s.targets \cap Locals # {}))
          => "aliased" \in Unnoticed
     /\ s.kind = "container" /\ s.declares # Anonymous /\ s.targets \cap Locals # {}
          => "chained" \in Unnoticed
     /\ \E v \in Evaluate(s) :
          LET holds == [t \in Locals \cup Exported |->
                          IF s.exports /\ t \in Exported THEN ASchema
                          ELSE IF t \in s.targets \cup {s.declares} THEN v
                          ELSE program.holds[t]]
          IN program' = [statements |-> Append(program.statements, s), holds |-> holds,
                         reached |-> reached,
                         shaped |-> program.shaped \cup ({holds[n].made : n \in reached} \ {0})]

FewTargets == {T \in SUBSET (Locals \cup Exported) :
                 Cardinality(T \cap Locals) <= 1 /\ Cardinality(T \cap Exported) <= 1}
Few(n) == {S \in SUBSET Locals : Cardinality(S) <= n}

Assign(form, declares, T) ==
  \/ \E kind \in {"literal", "container"} : Run(Row(form, declares, T, kind, {}, FALSE))
  \/ \E S \in Few(1) : Run(Row(form, declares, T, "call", S, FALSE))
  \/ \E S \in Few(2) \ {{}} : Run(Row(form, declares, T, "name", S, FALSE))

FilterNext ==
  /\ Len(program.statements) < MaxStatements
  /\ \/ \E d \in Locals : \/ Run(Row("var", d, {}, "none", {}, FALSE))
                          \/ \E S \in Few(1), e \in BOOLEAN : Run(Row("function", d, {}, "code", S, e))
                          \/ \E T \in FewTargets : Assign("var", d, T)
     \/ \E S \in Few(1), e \in BOOLEAN : Run(Row("run", Anonymous, {}, "code", S, e))
     \/ \E T \in FewTargets \ {{}} : Assign("run", Anonymous, T)

-----------------------------------------------------------------------------
(* Properties.                                                               *)

FilterTypeOK ==
  /\ program.holds \in [Locals \cup Exported ->
                          [is : {"plain", "schema", "container"}, made : 0 .. MaxStatements]]
  /\ program.reached \subseteq Locals /\ program.shaped \subseteq 1 .. Len(program.statements)
  /\ \A s \in Rows : /\ s.form \in Forms /\ s.declares \in Locals \cup {Anonymous}
                     /\ s.targets \subseteq Locals \cup Exported /\ s.kind \in ValueKinds
                     /\ s.names \subseteq Locals /\ s.exports \in BOOLEAN

(* A file that would have exported a schema is never skipped: "a filter miss *)
(* costs one execution, never a schema".                                     *)
FilterIsSound == (\E t \in Exported : Discoverable(t)) => MayExportSchemas

=============================================================================
