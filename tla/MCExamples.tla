----------------------------- MODULE MCExamples ------------------------------
(***************************************************************************)
(* Examples for TLC: a sender that sends to the port the receivers want,   *)
(* two receivers that want the same port, and strangers that send what is  *)
(* telemetry and what is no frame.                                         *)
(***************************************************************************)
EXTENDS Examples, TLC

CONSTANTS host, board, spare, port, other, robot, noise

MCPeer      == host :> port
MCListensOn == board :> port @@ spare :> port
MCStrangers == robot :> "tele" @@ noise :> "malformed"

FourRuns == "bind" :> 4 @@ "destroy" :> 4 @@ "set_peer" :> 4 @@ "network" :> 2

=============================================================================
