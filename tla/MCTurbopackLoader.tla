--------------------------- MODULE MCTurbopackLoader ---------------------------
(* Instances of TurbopackLoader for TLC: two entries over a helper the host   *)
(* never passes through the loader; one of them has an incomplete crawl.      *)
EXTENDS TurbopackLoader, TLC

CONSTANTS full, part, plain, helper

MCFiles   == {full, part, plain, helper}
MCEntries == {full, part, plain}
MCReads   == (full :> {full, helper}) @@ (part :> {part, helper}) @@ (plain :> {})

Symmetry == Permutations(Contents) \cup Permutations(Calls)

=============================================================================
