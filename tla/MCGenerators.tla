---------------------------- MODULE MCGenerators -----------------------------
(* Generators for TLC.  What the packets of a schema are is only compared. *)
EXTENDS Generators, TLC

PacketsAlike == Permutations(Packets)

=============================================================================
