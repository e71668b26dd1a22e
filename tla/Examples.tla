------------------------------ MODULE Examples -------------------------------
(***************************************************************************)
(* The two programs of examples/ as processes of one host, each with its   *)
(* UdpChannel and a UdpFrameLink on it: host_command_sender, which sends   *)
(* one command and ends, and board_telemetry_receiver, which waits five    *)
(* seconds for a telemetry frame.  A program that has ended may be started *)
(* again, also while another holds its port.  The channels are module      *)
(* UdpChannel's, one for each program; what a datagram is to the link      *)
(* depends on its source: senders send commands, a stranger what           *)
(* StrangerSends says.                                                     *)
(***************************************************************************)
EXTENDS UdpChannel

CONSTANTS
  Peer,            \* sender -> the address among its arguments
  ListensOn,       \* receiver -> the port among its arguments
  StrangerSends    \* stranger -> "tele", "cmd" or "malformed"

Senders   == DOMAIN Peer
Receivers == DOMAIN ListensOn

ASSUME ExamplesAssumption ==
  /\ Channels = Senders \union Receivers /\ Senders \cap Receivers = {}
  /\ Peer \in [Senders -> Addrs] /\ ListensOn \in [Receivers -> Ports]
  /\ StrangerSends \in [Strangers -> {"tele", "cmd", "malformed"}]

Carries(a) == IF a \in Strangers THEN StrangerSends[a] ELSE "cmd"

VARIABLES
  at,       \* where main is: "start", "bind", "peer", "send", "recv", "return", "ended"
  status    \* what main returns: 0, 1, or None before

channelVars == << implVars, kernelVars, net, ops >>
exVars      == << vars, at, status >>

ExInit ==
  /\ Init
  /\ at = [c \in Channels |-> "start"]
  /\ status = [c \in Channels |-> None]

GoTo(c, where)   == at' = [at EXCEPT ![c] = where] /\ UNCHANGED status
Returns(c, code) == at' = [at EXCEPT ![c] = "return"] /\ status' = [status EXCEPT ![c] = code]

-----------------------------------------------------------------------------
(* channel.bind, to behind its socket() and from there. *)
BindStarts(c, p) ==
  /\ at[c] = "start"
  /\ Bind(c, p)
  /\ IF asked'[c] # None THEN GoTo(c, "bind") ELSE Returns(c, 1)

BindEnds(c, next) ==
  /\ at[c] = "bind"
  /\ \/ PortBound(c) /\ GoTo(c, next)
     \/ PortRefused(c) /\ Returns(c, 1)

(* host_command_sender lets the system choose its port. *)
SenderBinds(c) ==
  /\ c \in Senders
  /\ BindStarts(c, AnyPort) \/ BindEnds(c, "peer")

(* set_peer sets the peer, or refuses an address it cannot read. *)
SenderSetsPeer(c) ==
  /\ at[c] = "peer"
  /\ \/ SetPeer(c, Peer[c]) /\ GoTo(c, "send")
     \/ Returns(c, 1) /\ UNCHANGED channelVars

(* link.send_frame of an encoded command; sendto may fail. *)
SenderSends(c) ==
  /\ at[c] = "send"
  /\ \/ Send(c) /\ Returns(c, 0)
     \/ Returns(c, 1) /\ UNCHANGED channelVars

(* Mutant of ReceiverBinds: a port that is taken is given up for any other. *)
ReceiverBindsElsewhere(c) ==
  /\ c \in Receivers
  /\ \/ BindStarts(c, ListensOn[c]) \/ BindEnds(c, "recv")
     \/ ListensOn[c] \in UsedPorts /\ BindStarts(c, AnyPort)

ReceiverBinds(c) ==
  /\ c \in Receivers
  /\ BindStarts(c, ListensOn[c]) \/ BindEnds(c, "recv")

(* recv_frame_as<TelemetryPacket> reads a datagram: it goes on after a frame of
   another type, and gives up after what is no frame. *)
ReceiverReads(c) ==
  /\ at[c] = "recv"
  /\ Receive(c)
  /\ CASE Carries(Head(inbox[sock[c]])) = "tele"      -> Returns(c, 0)
       [] Carries(Head(inbox[sock[c]])) = "cmd"       -> GoTo(c, "recv")
       [] Carries(Head(inbox[sock[c]])) = "malformed" -> Returns(c, 1)

(* The five seconds are over, or poll or recvfrom fails, at any point of the call. *)
ReceiverTimesOut(c) ==
  /\ at[c] = "recv"
  /\ Returns(c, 1) /\ UNCHANGED channelVars

(* main returns, by whichever return: the channel, if bound, is destroyed. *)
Ends(c) ==
  /\ at[c] = "return"
  /\ GoTo(c, "ended")
  /\ IF open[c] THEN Destroy(c) ELSE UNCHANGED channelVars

(* The program is run again. *)
StartAgain(c) ==
  /\ at[c] = "ended"
  /\ at' = [at EXCEPT ![c] = "start"] /\ status' = [status EXCEPT ![c] = None]
  /\ UNCHANGED channelVars

World ==
  /\ \/ \E a \in Strangers, p \in Ports : Stray(a, p)
     \/ \E d \in net : Deliver(d)
     \/ \E d \in net : DeliverCopy(d)
     \/ \E d \in net : Lose(d)
  /\ UNCHANGED << at, status >>

ExNext ==
  \/ \E c \in Channels : SenderBinds(c)
  \/ \E c \in Channels : SenderSetsPeer(c)
  \/ \E c \in Channels : SenderSends(c)
  \/ \E c \in Channels : ReceiverBinds(c)
  \/ \E c \in Channels : ReceiverReads(c)
  \/ \E c \in Channels : ReceiverTimesOut(c)
  \/ \E c \in Channels : Ends(c)
  \/ \E c \in Channels : StartAgain(c)
  \/ World

ExSpec == ExInit /\ [][ExNext]_exVars

-----------------------------------------------------------------------------
ExTypeOK ==
  /\ TypeOK
  /\ at \in [Channels -> {"start", "bind", "peer", "send", "recv", "return", "ended"}]
  /\ status \in [Channels -> {0, 1, None}]

(* Two receivers of one port never wait at the same time: the second is refused
   (its message says that the port may be taken), as long as the first has not
   ended, whatever programs came and went before; and a receiver that waits does
   so on the port it was given. *)
OneReceiverPerPort ==
  /\ \A c \in Receivers : at[c] = "recv" => open[c] /\ PortOf(c) = ListensOn[c]
  /\ \A c, d \in Receivers :
       c # d /\ at[c] = "recv" /\ at[d] = "recv" => ListensOn[c] # ListensOn[d]

=============================================================================
