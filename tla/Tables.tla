--------------------------------- MODULE Tables ---------------------------------
(* Finite tables, as JavaScript's Map and object spreads make them, with      *)
(* operators that can be proved about.                                        *)

(* A table of a single line; two tables, the first of which counts where both *)
(* have a line.                                                               *)
Just(x, y) == [z \in {x} |-> y]
Over(f, g) == [x \in DOMAIN f \cup DOMAIN g |-> IF x \in DOMAIN f THEN f[x] ELSE g[x]]

=================================================================================
