----------------------------- MODULE UdpChannel ------------------------------
(***************************************************************************)
(* ou::UdpChannel (src/udp_channel.cpp): channels that bind a port of this *)
(* host, send to a peer that was set or learned, and learn the peer from   *)
(* the datagrams they receive, with the part of the operating system they  *)
(* meet: descriptors, the ports in use, the sockets' queues and a network  *)
(* that loses, doubles and reorders.  A datagram is its two ports; what is *)
(* in it is DatagramLink's.                                                *)
(*                                                                         *)
(* A channel is used by one thread and its calls are actions, save bind,   *)
(* whose system calls are; calls of different channels, in one process or  *)
(* in several, interleave.                                                 *)
(***************************************************************************)
EXTENDS Integers, Sequences

CONSTANTS
  Channels,
  Ports,        \* UDP ports of the host
  Strangers,    \* ports something else sends from
  MaxFds,       \* descriptors the process may have
  AnyPort,      \* port 0 of bind: the system chooses
  None,         \* no descriptor, no peer, no port
  QueueSize,    \* datagrams a socket holds
  MaxOps        \* bounds: how many operations of each kind

OpKinds == { "bind", "destroy", "set_peer", "network" }

ASSUME ChannelAssumption ==
  /\ {AnyPort, None} \cap (Ports \union Strangers \union 1..MaxFds) = {}
  /\ AnyPort # None
  /\ Ports \cap Strangers = {}
  /\ MaxFds \in Nat /\ QueueSize \in Nat \ {0} /\ MaxOps \in [OpKinds -> Nat]

Addrs == Ports \union Strangers

VARIABLES
  sock,      \* impl_->sock, None for -1
  open,      \* impl_->open
  asked,     \* the port a bind under way asks for, behind its socket(); None without one
  peer,      \* impl_->peer_addr, None while peer_known is false
  portOf,    \* kernel: descriptor -> its port, AnyPort while it has none; only open ones
  inbox,     \* kernel: descriptor -> sources of the datagrams queued
  net,       \* datagrams in the network
  ops        \* history: how many operations of each kind have run

implVars   == << sock, open, asked, peer >>
kernelVars == << portOf, inbox >>
vars       == << implVars, kernelVars, net, ops >>

Init ==
  /\ sock = [c \in Channels |-> None]
  /\ open = [c \in Channels |-> FALSE]
  /\ asked = [c \in Channels |-> None]
  /\ peer = [c \in Channels |-> None]
  /\ portOf = << >> /\ inbox = << >>
  /\ net = {}
  /\ ops = [k \in OpKinds |-> 0]

Op(kind) == ops[kind] < MaxOps[kind] /\ ops' = [ops EXCEPT ![kind] = @ + 1]

Fds       == 1..MaxFds
FreeFds   == Fds \ DOMAIN portOf
UsedPorts == { portOf[f] : f \in DOMAIN portOf }
PortOf(c) == portOf[sock[c]]

(* The ports ::bind can give for p. *)
Eligible(p) == (IF p = AnyPort THEN Ports ELSE {p}) \ UsedPorts

Opened(f, p) ==
  /\ portOf' = [g \in DOMAIN portOf \union {f} |-> IF g = f THEN p ELSE portOf[g]]
  /\ inbox'  = [g \in DOMAIN inbox  \union {f} |-> IF g = f THEN << >> ELSE inbox[g]]

Closed(f) ==
  /\ portOf' = [g \in DOMAIN portOf \ {f} |-> portOf[g]]
  /\ inbox'  = [g \in DOMAIN inbox  \ {f} |-> inbox[g]]

-----------------------------------------------------------------------------
(* The system gives out the lowest descriptor that is free. *)
NewFd(f) == f \in FreeFds /\ \A g \in FreeFds : f <= g

(* bind: an open channel says yes to any port, and stays where it is. *)
BindAgain(c) ==
  /\ open[c]
  /\ UNCHANGED << implVars, kernelVars, net >>

(* socket() fails: no descriptor is free, or the system has no memory. *)
BindNoSocket(c) ==
  /\ ~open[c]
  /\ UNCHANGED << implVars, kernelVars, net >>

(* socket() gives a descriptor, which has no port yet. *)
BindSocket(c, p) ==
  /\ ~open[c]
  /\ \E f \in Fds :
       /\ NewFd(f)
       /\ Opened(f, AnyPort)
       /\ sock' = [sock EXCEPT ![c] = f]
  /\ asked' = [asked EXCEPT ![c] = p]
  /\ UNCHANGED << open, peer, net >>

(* bind, up to ::bind. *)
Bind(c, p) ==
  /\ Op("bind")
  /\ asked[c] = None
  /\ BindAgain(c) \/ BindNoSocket(c) \/ BindSocket(c, p)

(* ::bind gives the socket the port, or one the system chooses. *)
PortBound(c) ==
  /\ asked[c] # None
  /\ \E q \in Eligible(asked[c]) : portOf' = [portOf EXCEPT ![sock[c]] = q]
  /\ open' = [open EXCEPT ![c] = TRUE]
  /\ asked' = [asked EXCEPT ![c] = None]
  /\ UNCHANGED << sock, peer, inbox, net, ops >>

(* Mutant of PortRefused: the new socket is not closed. *)
PortRefusedLeaks(c) ==
  /\ asked[c] # None
  /\ sock' = [sock EXCEPT ![c] = None]
  /\ asked' = [asked EXCEPT ![c] = None]
  /\ UNCHANGED << open, peer, kernelVars, net, ops >>

(* Mutant of PortRefused: the socket is closed and its number kept. *)
PortRefusedKeepsSock(c) ==
  /\ asked[c] # None
  /\ Closed(sock[c])
  /\ asked' = [asked EXCEPT ![c] = None]
  /\ UNCHANGED << sock, open, peer, net, ops >>

(* ::bind fails, for a port that is taken or another reason; the socket it was for
   is closed again. *)
PortRefused(c) ==
  /\ asked[c] # None
  /\ Closed(sock[c])
  /\ sock' = [sock EXCEPT ![c] = None]
  /\ asked' = [asked EXCEPT ![c] = None]
  /\ UNCHANGED << open, peer, net, ops >>

(* The channel is destroyed, or its process ends, and a new one made.  (A process
   that ends within bind leaves what PortRefused does.) *)
Destroy(c) ==
  /\ Op("destroy")
  /\ open[c]
  /\ Closed(sock[c])
  /\ sock' = [sock EXCEPT ![c] = None]
  /\ open' = [open EXCEPT ![c] = FALSE]
  /\ peer' = [peer EXCEPT ![c] = None]
  /\ UNCHANGED << asked, net >>

SetPeer(c, a) ==
  /\ Op("set_peer")
  /\ open[c]
  /\ peer' = [peer EXCEPT ![c] = a]
  /\ UNCHANGED << sock, open, asked, kernelVars, net >>

Send(c) ==
  /\ open[c] /\ peer[c] # None
  /\ net' = net \union { [from |-> PortOf(c), to |-> peer[c]] }
  /\ UNCHANGED << implVars, kernelVars, ops >>

(* Mutant of Receive: only the first datagram teaches the peer. *)
ReceiveLearnsOnce(c) ==
  /\ open[c] /\ inbox[sock[c]] # << >>
  /\ inbox' = [inbox EXCEPT ![sock[c]] = Tail(@)]
  /\ peer' = [peer EXCEPT ![c] = IF @ = None THEN Head(inbox[sock[c]]) ELSE @]
  /\ UNCHANGED << sock, open, asked, portOf, net, ops >>

(* recv_bytes, when there is something to read: its source becomes the peer.
   (Timing out or failing it changes nothing.) *)
Receive(c) ==
  /\ open[c] /\ inbox[sock[c]] # << >>
  /\ inbox' = [inbox EXCEPT ![sock[c]] = Tail(@)]
  /\ peer' = [peer EXCEPT ![c] = Head(inbox[sock[c]])]
  /\ UNCHANGED << sock, open, asked, portOf, net, ops >>

-----------------------------------------------------------------------------
(* The network. *)
Stray(a, p) ==
  /\ Op("network")
  /\ net' = net \union { [from |-> a, to |-> p] }
  /\ UNCHANGED << implVars, kernelVars >>

Queue(d) ==
  IF \E f \in DOMAIN portOf : portOf[f] = d.to /\ Len(inbox[f]) < QueueSize
  THEN inbox' = [f \in DOMAIN inbox |->
                   IF portOf[f] = d.to THEN Append(inbox[f], d.from) ELSE inbox[f]]
  ELSE UNCHANGED inbox

Deliver(d) ==
  /\ d \in net
  /\ net' = net \ {d}
  /\ Queue(d)
  /\ UNCHANGED << implVars, portOf, ops >>

DeliverCopy(d) ==
  /\ Op("network")
  /\ d \in net
  /\ Queue(d)
  /\ UNCHANGED << implVars, portOf, net >>

Lose(d) ==
  /\ d \in net
  /\ net' = net \ {d}
  /\ UNCHANGED << implVars, kernelVars, ops >>

Datagrams == [from : Addrs, to : Addrs]

Next ==
  \/ \E c \in Channels, p \in Ports \union {AnyPort} : Bind(c, p)
  \/ \E c \in Channels : PortBound(c)
  \/ \E c \in Channels : PortRefused(c)
  \/ \E c \in Channels : Destroy(c)
  \/ \E c \in Channels, a \in Addrs : SetPeer(c, a)
  \/ \E c \in Channels : Send(c)
  \/ \E c \in Channels : Receive(c)
  \/ \E a \in Strangers, p \in Ports : Stray(a, p)
  \/ \E d \in net : Deliver(d)
  \/ \E d \in net : DeliverCopy(d)
  \/ \E d \in net : Lose(d)

Spec == Init /\ [][Next]_vars

(* Each channel's user keeps sending and receiving, and the network does not
   lose everything that is sent to a channel again and again. *)
DeliverTo(c) == open[c] /\ \E d \in net : d.to = PortOf(c) /\ Deliver(d)

FairSpec ==
  /\ Spec
  /\ \A c \in Channels :
       WF_vars(Send(c)) /\ WF_vars(Receive(c)) /\ SF_vars(DeliverTo(c))

-----------------------------------------------------------------------------
TypeOK ==
  /\ sock \in [Channels -> DOMAIN portOf \union {None}]
  /\ open \in [Channels -> BOOLEAN]
  /\ asked \in [Channels -> Ports \union {AnyPort, None}]
  /\ peer \in [Channels -> Addrs \union {None}]
  /\ DOMAIN portOf \subseteq Fds /\ DOMAIN inbox = DOMAIN portOf
  /\ \A f \in DOMAIN portOf : portOf[f] \in Ports \union {AnyPort} /\ inbox[f] \in Seq(Addrs)
  /\ net \subseteq Datagrams
  /\ ops \in [OpKinds -> Nat] /\ \A k \in OpKinds : ops[k] <= MaxOps[k]

(* Every descriptor is the socket of exactly one channel, which is open or within
   bind, and no two open channels have one port: no sequence of binds that fail,
   beside others that are under way, and of channels that are destroyed leaks a
   descriptor or shares one. *)
SocketsAreOwned ==
  /\ DOMAIN portOf = { sock[c] : c \in { d \in Channels : open[d] \/ asked[d] # None } }
  /\ \A c, d \in Channels : c # d /\ sock[c] # None => sock[c] # sock[d]
  /\ \A c, d \in Channels : c # d /\ open[c] /\ open[d] => PortOf(c) # PortOf(d)
  /\ \A c \in Channels : ~open[c] /\ asked[c] = None => sock[c] = None
  /\ \A c \in Channels : ~open[c] => peer[c] = None

(* A channel whose partner comes back on another port finds it again: once
   both stay open and the partner keeps sending to it, its peer ends up being
   the partner's port, whatever strangers and old datagrams said before.  (Not
   so for a channel that was told to send to itself.) *)
Knows(c, d) == open[c] /\ open[d] /\ peer[c] = PortOf(d)

SendsToItself(c) == open[c] /\ peer[c] = PortOf(c)

PairRepairs ==
  \A c \in Channels, d \in Channels :
    c # d => (<>[](Knows(d, c) /\ ~SendsToItself(c)) => <>[]Knows(c, d))

(* include/ou/udp_channel.hpp:19 and src/udp_channel.cpp:198 - send prefers the
   peer set_peer set, and the peer is learned from the first datagram: once it
   is known, only set_peer changes it while the channel lives. *)
PeerIsKept ==
  [][\A c \in Channels :
       open[c] /\ peer[c] # None /\ open'[c] /\ peer'[c] # peer[c] =>
         \E a \in Addrs : SetPeer(c, a)]_vars

=============================================================================
