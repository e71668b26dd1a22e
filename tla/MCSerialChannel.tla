--------------------------- MODULE MCSerialChannel ---------------------------
(***************************************************************************)
(* SerialChannel for TLC.  Channels are interchangeable.                   *)
(***************************************************************************)
EXTENDS SerialChannel, TLC

Alike == Permutations(Channels)

(* Every channel may open, and some again after an open that failed or a
   destruction. *)
FewOps == "open" :> 5 @@ "destroy" :> 3 @@ "unplug" :> 2

=============================================================================
