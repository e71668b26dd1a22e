---------------------------- MODULE MCUdpChannel -----------------------------
(***************************************************************************)
(* UdpChannel for TLC: two channels compete for three ports; one of them   *)
(* goes and comes back, perhaps elsewhere, is told its partner again, and  *)
(* one stray or old datagram interferes.                                   *)
(***************************************************************************)
EXTENDS UdpChannel, TLC

OneRestart ==
  "bind" :> 3 @@ "destroy" :> 1 @@ "set_peer" :> 2 @@ "network" :> 1

=============================================================================
