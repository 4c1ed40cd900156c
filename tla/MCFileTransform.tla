--------------------------- MODULE MCFileTransform ---------------------------
(***************************************************************************)
(* What the transform makes of one file on its way through the plugin: the *)
(* static filter, the rewrite of its exported schemas, the hoisting of     *)
(* those in its functions, and the crawl of what it imports. Each part is  *)
(* a function of the file alone and none reads what another left, so a     *)
(* behaviour is about one of them.                                         *)
(***************************************************************************)
EXTENDS StaticFilter, ModuleRewrite, Hoist, DepGraph, TLC

CONSTANTS A, B, C    \* declarations of a module
CONSTANTS o, p    \* locals of a file

MCBindings == {A, B, C}
MCLocals   == {o, p}

MCProbes == [s \in {"./b", "lib"} |-> IF s = "./b" THEN <<"b", "b/index">> ELSE <<"b/index">>]
MCText(imports, dynamic) == [imports |-> imports, dynamic |-> dynamic]
MCTexts == {MCText({}, FALSE), MCText({"./b"}, FALSE), MCText({"./b", "lib"}, FALSE),
            MCText({}, TRUE)}

Symmetry == Permutations(MCBindings) \cup Permutations(MCLocals)

VARIABLE part    \* which of them this behaviour is about

varsMC == <<part, program, module, file, graphVars>>

InitMC ==
  /\ part \in {"filter", "rewrite", "hoist", "crawl"}
  /\ FilterInit
  /\ IF part = "rewrite" THEN RewriteInit
                         ELSE module = [decls |-> << >>, autoDiscover |-> FALSE, bag |-> FALSE]
  /\ IF part = "hoist" THEN HoistInit ELSE file = Unwritten({})
  /\ IF part = "crawl" THEN GraphInit ELSE EmptyGraph

NextMC ==
  \/ part = "filter"  /\ FilterNext  /\ UNCHANGED <<part, module, file, graphVars>>
  \/ part = "rewrite" /\ RewriteNext /\ UNCHANGED <<part, program, file, graphVars>>
  \/ part = "hoist"   /\ HoistNext   /\ UNCHANGED <<part, program, module, graphVars>>
  \/ part = "crawl"   /\ GraphNext   /\ UNCHANGED <<part, program, module, file>>

SpecMC == InitMC /\ [][NextMC]_varsMC

(* The state of each part is of its type.                                   *)
FileTypeOK == FilterTypeOK /\ RewriteTypeOK /\ HoistTypeOK /\ GraphTypeOK
=============================================================================
