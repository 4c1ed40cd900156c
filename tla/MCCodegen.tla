----------------------------- MODULE MCCodegen -----------------------------
(* Inputs on which the compiled programs of Codegen are compared: two      *)
(* strings, null and undefined, arrays of up to two items, and objects     *)
(* over two keys, with absent keys, keys that hold undefined, nested       *)
(* containers and own __proto__ keys, sets and maps of up to two entries.  *)
EXTENDS Codegen

Prim(p) == [kind |-> "prim", of |-> p]
MCUndefined == Prim("undefined")
MCNull == Prim("null")
S == Prim("s")
T == Prim("t")
MCText == {S, T}
MCSubstitute == T

MCPrims == {MCUndefined, MCNull, S, T}
One(k, v) == Obj([j \in {k} |-> v], FALSE)
Two(v, w) == Obj([j \in {"a", "b"} |-> IF j = "a" THEN v ELSE w], FALSE)
Empty == Obj([j \in {} |-> S], FALSE)
Proto == [Empty EXCEPT !.proto = TRUE]
A(v) == One("a", v)
MCSet(elements) == [kind |-> "set", entries |-> [i \in DOMAIN elements |-> <<elements[i], elements[i]>>]]
MCMap(entries) == [kind |-> "map", entries |-> entries]

MCValues ==
    MCPrims
        \cup {Empty, Proto, A(MCUndefined), A(S), A(T), One("b", S), Two(S, S), Two(T, S),
              [A(S) EXCEPT !.proto = TRUE], A(A(S)), A(Proto)}
        \cup {Arr(<<>>), Arr(<<MCUndefined>>), Arr(<<S>>), Arr(<<T>>), Arr(<<S, S>>),
              Arr(<<S, MCUndefined>>), Arr(<<A(S)>>), Arr(<<Two(S, S)>>), Arr(<<Proto>>)}
        \cup {MCSet(<<>>), MCSet(<<S>>), MCSet(<<S, T>>), MCSet(<<MCUndefined, T>>), MCSet(<<Proto>>),
              A(MCSet(<<S, T>>))}
        \cup {MCMap(<<<<S, MCUndefined>>>>), MCMap(<<<<S, S>>, <<T, T>>>>),
              MCMap(<<<<S, Proto>>>>)}

MCOverwrite(x) == S
MCCallback(x) == IF x = S THEN MCUndefined ELSE IF x = MCUndefined THEN S ELSE T
MCDelegate(x) == IF x \in MCText THEN S ELSE Fail
MCPredicate(x) == Cardinality(DOMAIN x.at) # 1
MCLiterals == {{S}, {T}}
MCTagLiterals == {{S}, {MCUndefined}}
=============================================================================
