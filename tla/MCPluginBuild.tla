---------------------------- MODULE MCPluginBuild ----------------------------
(* Instances of PluginBuild for TLC: an entry that reads itself only, two     *)
(* that import it, of which the static crawl is complete for one and cannot   *)
(* follow the other, and one that needs no discovery.                         *)
(*                                                                            *)
(* A behaviour is of one scenario, each with the entries and bounds it can    *)
(* bear: two transforms under way, two edits around a restart, a pool and a   *)
(* restart (without and with the entry that needs no discovery), a cache      *)
(* directory that loses files around a restart, or a pool alone.              *)
EXTENDS PluginBuild, TLC

CONSTANTS base, full, part, plain, Scenarios

VARIABLE scenario

AllReads == (base :> {base}) @@ (full :> {full, base}) @@ (part :> {part, base}) @@ (plain :> {})
MCReads  == [e \in Entries |-> AllReads[e]]

Bounds == [calls   |-> [calls |-> 2, edits |-> 1, restarts |-> 0, faults |-> 0, entries |-> {base, part}],
           restart |-> [calls |-> 1, edits |-> 2, restarts |-> 1, faults |-> 0, entries |-> {base, full}],
           pool    |-> [calls |-> 1, edits |-> 1, restarts |-> 1, faults |-> 0, entries |-> {base, part}],
           skip    |-> [calls |-> 1, edits |-> 1, restarts |-> 1, faults |-> 0, entries |-> {part, plain}],
           shared  |-> [calls |-> 1, edits |-> 1, restarts |-> 1, faults |-> 1, entries |-> {base, part}],
           once    |-> [calls |-> 1, edits |-> 1, restarts |-> 0, faults |-> 0, entries |-> {base, part}]]

MCInit ==
  /\ Init
  /\ scenario \in Scenarios
  /\ parallel = (scenario \in {"pool", "skip", "once"})

MCNext ==
  /\ Next
  /\ UNCHANGED scenario
  /\ LET b == Bounds[scenario]
     IN /\ edits' <= b.edits /\ restarts' <= b.restarts /\ faults' <= b.faults
        /\ Cardinality(Running') <= b.calls
        /\ \A c \in Running' : call'[c].entry \in b.entries
        /\ \A e \in Entries \ b.entries : cache'[e] = None /\ content'[e] = content[e] /\ mtime'[e] = 0

MCSpec == MCInit /\ [][MCNext]_<<vars, scenario>>

Symmetry == Permutations(Contents) \cup Permutations(Calls)

=============================================================================
