--------------------------- MODULE ExamplesProofs ----------------------------
(***************************************************************************)
(* Theorems about UdpChannel, for any number of channels, ports, strangers *)
(* and descriptors and any bounds, and about the programs of examples/     *)
(* that use such channels, whatever ports they ask for and however often   *)
(* they are run.  Every step of a program that touches a channel is one of *)
(* UdpChannel's: the invariant of the second part rests on the first's.    *)
(***************************************************************************)
EXTENDS Examples, SequenceTheorems, TLAPS

-----------------------------------------------------------------------------
(* An open channel is not within bind any more, and has a port. *)
BindsAreOrdered ==
  \A c \in Channels : open[c] => asked[c] = None /\ PortOf(c) \in Ports

IInv == TypeOK /\ SocketsAreOwned /\ BindsAreOrdered

THEOREM InitIInv == Init => IInv
<1> SUFFICES ASSUME Init PROVE IInv
  OBVIOUS
<1> USE ChannelAssumption DEF Init
<1>1. DOMAIN portOf = {} /\ DOMAIN inbox = {}
  OBVIOUS
<1>2. TypeOK
  BY <1>1 DEF TypeOK, OpKinds
<1>3. SocketsAreOwned /\ BindsAreOrdered
  BY <1>1 DEF SocketsAreOwned, BindsAreOrdered
<1> QED BY <1>2, <1>3 DEF IInv

(* Counting an operation keeps its bound. *)
LEMMA OpTyped ==
  ASSUME NEW kind \in OpKinds, TypeOK, Op(kind)
  PROVE  ops' \in [OpKinds -> Nat] /\ \A k \in OpKinds : ops'[k] <= MaxOps[k]
<1>1. ops \in [OpKinds -> Nat] /\ MaxOps \in [OpKinds -> Nat]
  BY ChannelAssumption DEF TypeOK
<1>2. ops[kind] + 1 \in Nat /\ ops[kind] + 1 <= MaxOps[kind]
  BY <1>1 DEF Op
<1>3. ops' = [ops EXCEPT ![kind] = ops[kind] + 1]
  BY DEF Op
<1>4. ops' \in [OpKinds -> Nat]
  BY <1>1, <1>2, <1>3
<1>5. \A k \in OpKinds : ops'[k] <= MaxOps[k]
  BY <1>1, <1>2, <1>3 DEF TypeOK
<1> QED BY <1>4, <1>5

(* A channel that is open, or within bind, has an open descriptor. *)
Holds(c) == open[c] \/ asked[c] # None

LEMMA HoldsSocket ==
  ASSUME IInv, NEW c \in Channels, Holds(c)
  PROVE  /\ sock[c] \in DOMAIN portOf /\ sock[c] \in Fds /\ sock[c] # None
         /\ inbox[sock[c]] \in Seq(Addrs)
<1>1. sock[c] \in DOMAIN portOf
  BY DEF IInv, SocketsAreOwned, Holds
<1> QED BY <1>1, ChannelAssumption DEF IInv, TypeOK, Fds

LEMMA OpenHasPort ==
  ASSUME IInv, NEW c \in Channels, open[c]
  PROVE  /\ sock[c] \in DOMAIN portOf /\ sock[c] \in Fds /\ sock[c] # None
         /\ PortOf(c) \in Ports
         /\ inbox[sock[c]] \in Seq(Addrs)
<1>1. PortOf(c) \in Ports
  BY DEF IInv, BindsAreOrdered
<1> QED BY <1>1, HoldsSocket DEF Holds

(* What ownership speaks of is left alone. *)
LEMMA OwnersUnchanged ==
  ASSUME IInv, UNCHANGED << sock, open, asked, portOf >>,
         \A c \in Channels : ~open[c] => peer'[c] = None
  PROVE  SocketsAreOwned' /\ BindsAreOrdered'
BY DEF IInv, SocketsAreOwned, BindsAreOrdered, PortOf

(* The new socket is nobody's: every one that is open is some channel's. *)
LEMMA SocketKeepsIInv ==
  ASSUME IInv, NEW c \in Channels, NEW p \in Ports \union {AnyPort}, BindSocket(c, p),
         asked[c] = None,
         ops' \in [OpKinds -> Nat] /\ \A k \in OpKinds : ops'[k] <= MaxOps[k]
  PROVE  IInv'
<1> USE ChannelAssumption
<1>1. PICK f \in Fds :
        NewFd(f) /\ Opened(f, AnyPort) /\ sock' = [sock EXCEPT ![c] = f]
  BY DEF BindSocket
<1>2. ~open[c] /\ asked' = [asked EXCEPT ![c] = p] /\ UNCHANGED << open, peer, net >>
  BY DEF BindSocket
<1>3. f \notin DOMAIN portOf /\ f # None
  BY <1>1 DEF NewFd, FreeFds, Fds
<1>4. /\ DOMAIN portOf' = DOMAIN portOf \union {f} /\ DOMAIN inbox' = DOMAIN inbox \union {f}
      /\ \A g \in DOMAIN portOf' : portOf'[g] = IF g = f THEN AnyPort ELSE portOf[g]
      /\ \A g \in DOMAIN inbox' : inbox'[g] = IF g = f THEN << >> ELSE inbox[g]
  BY <1>1 DEF Opened
<1>5. /\ sock' \in [Channels -> DOMAIN portOf' \union {None}]
      /\ asked' \in [Channels -> Ports \union {AnyPort, None}]
      /\ \A d \in Channels : sock'[d] = IF d = c THEN f ELSE sock[d]
      /\ \A d \in Channels : asked'[d] = IF d = c THEN p ELSE asked[d]
  BY <1>1, <1>2, <1>4 DEF IInv, TypeOK
<1>6. p # None
  OBVIOUS
<1>7. TypeOK'
  <2>1. << >> \in Seq(Addrs)
    OBVIOUS
  <2>2. DOMAIN portOf' \subseteq Fds /\ DOMAIN inbox' = DOMAIN portOf'
    BY <1>4 DEF IInv, TypeOK
  <2>3. \A g \in DOMAIN portOf' :
          portOf'[g] \in Ports \union {AnyPort} /\ inbox'[g] \in Seq(Addrs)
    BY <1>4, <2>1, <2>2 DEF IInv, TypeOK
  <2> QED BY <1>2, <1>5, <2>2, <2>3 DEF IInv, TypeOK
<1>8. \A d \in Channels : open[d] => d # c /\ PortOf(d)' = PortOf(d)
  BY OpenHasPort, <1>2, <1>3, <1>4, <1>5 DEF PortOf
<1>9. SocketsAreOwned'
  <2>1. DOMAIN portOf' = { sock'[d] : d \in { e \in Channels : open'[e] \/ asked'[e] # None } }
    BY <1>2, <1>4, <1>5, <1>6 DEF IInv, SocketsAreOwned
  <2>2. \A d, e \in Channels : d # e /\ sock'[d] # None => sock'[d] # sock'[e]
    BY <1>3, <1>5 DEF IInv, TypeOK, SocketsAreOwned
  <2>3. \A d, e \in Channels : d # e /\ open'[d] /\ open'[e] => PortOf(d)' # PortOf(e)'
    BY <1>2, <1>8 DEF IInv, SocketsAreOwned
  <2>4. \A d \in Channels : ~open'[d] /\ asked'[d] = None => sock'[d] = None
    BY <1>2, <1>5, <1>6 DEF IInv, SocketsAreOwned
  <2>5. \A d \in Channels : ~open'[d] => peer'[d] = None
    BY <1>2 DEF IInv, SocketsAreOwned
  <2> QED BY <2>1, <2>2, <2>3, <2>4, <2>5 DEF SocketsAreOwned
<1>10. BindsAreOrdered'
  <2>1. \A d \in Channels : open'[d] =>
          open[d] /\ asked'[d] = asked[d] /\ PortOf(d)' = PortOf(d)
    BY <1>2, <1>5, <1>8
  <2> QED BY <2>1 DEF IInv, BindsAreOrdered
<1> QED BY <1>7, <1>9, <1>10 DEF IInv

LEMMA BindKeepsIInv ==
  ASSUME IInv, NEW c \in Channels, NEW p \in Ports \union {AnyPort}, Bind(c, p)
  PROVE  IInv'
<1>1. ops' \in [OpKinds -> Nat] /\ \A k \in OpKinds : ops'[k] <= MaxOps[k]
  BY OpTyped DEF IInv, OpKinds, Bind
<1>2. CASE BindAgain(c) \/ BindNoSocket(c)
  <2>1. UNCHANGED << sock, open, asked, peer, portOf, inbox, net >>
    BY <1>2 DEF BindAgain, BindNoSocket, implVars, kernelVars
  <2>2. TypeOK'
    BY <1>1, <2>1 DEF IInv, TypeOK
  <2>3. SocketsAreOwned' /\ BindsAreOrdered'
    BY <2>1, OwnersUnchanged DEF IInv, SocketsAreOwned
  <2> QED BY <2>2, <2>3 DEF IInv
<1>3. CASE BindSocket(c, p)
  BY <1>1, <1>3, SocketKeepsIInv DEF Bind
<1> QED BY <1>2, <1>3 DEF Bind

(* The port ::bind gives is nobody else's. *)
LEMMA BoundGives ==
  ASSUME IInv, NEW c \in Channels, PortBound(c)
  PROVE  /\ asked[c] # None /\ ~open[c]
         /\ PortOf(c)' \in Eligible(asked[c]) /\ PortOf(c)' \in Ports
         /\ DOMAIN portOf' = DOMAIN portOf
         /\ \A g \in DOMAIN portOf' : portOf'[g] \in Ports \union {AnyPort}
         /\ \A d \in Channels : open'[d] <=> d = c \/ open[d]
         /\ \A d \in Channels : asked'[d] = IF d = c THEN None ELSE asked[d]
         /\ \A d \in Channels : d # c /\ open[d] => PortOf(d)' = PortOf(d)
<1>1. PICK q \in Eligible(asked[c]) : portOf' = [portOf EXCEPT ![sock[c]] = q]
  BY DEF PortBound
<1>2. asked[c] # None /\ sock' = sock
  BY DEF PortBound
<1>3. sock[c] \in DOMAIN portOf /\ sock[c] # None
  BY <1>2, HoldsSocket DEF Holds
<1>4. ~open[c]
  BY <1>2 DEF IInv, BindsAreOrdered
<1>5. PortOf(c)' = q
  BY <1>1, <1>2, <1>3 DEF PortOf
<1>6. q \in Ports
  BY <1>1, <1>2 DEF Eligible, IInv, TypeOK
<1>7. DOMAIN portOf' = DOMAIN portOf
  BY <1>1
<1>8. \A g \in DOMAIN portOf' : portOf'[g] = IF g = sock[c] THEN q ELSE portOf[g]
  BY <1>1
<1>9. \A d \in Channels : d # c /\ open[d] => PortOf(d)' = PortOf(d)
  <2> SUFFICES ASSUME NEW d \in Channels, d # c, open[d]
               PROVE  PortOf(d)' = PortOf(d)
    OBVIOUS
  <2>1. sock[d] \in DOMAIN portOf
    BY OpenHasPort
  <2>2. sock[d] # sock[c]
    BY <1>3 DEF IInv, SocketsAreOwned
  <2> QED BY <1>2, <1>7, <1>8, <2>1, <2>2 DEF PortOf
<1>10. \A d \in Channels : open'[d] <=> d = c \/ open[d]
  BY DEF PortBound, IInv, TypeOK
<1>11. \A d \in Channels : asked'[d] = IF d = c THEN None ELSE asked[d]
  BY DEF PortBound, IInv, TypeOK
<1>12. \A g \in DOMAIN portOf' : portOf'[g] \in Ports \union {AnyPort}
  BY <1>6, <1>7, <1>8 DEF IInv, TypeOK
<1> QED BY <1>1, <1>2, <1>4, <1>5, <1>6, <1>7, <1>9, <1>10, <1>11, <1>12

LEMMA BoundKeepsIInv ==
  ASSUME IInv, NEW c \in Channels, PortBound(c)
  PROVE  IInv'
<1>1. UNCHANGED << sock, peer, inbox, net, ops >>
  BY DEF PortBound
<1>2. TypeOK'
  <2>1. open' \in [Channels -> BOOLEAN] /\ asked' \in [Channels -> Ports \union {AnyPort, None}]
    BY DEF PortBound, IInv, TypeOK
  <2> QED BY <1>1, <2>1, BoundGives DEF IInv, TypeOK
<1>3. SocketsAreOwned'
  <2>1. DOMAIN portOf' = { sock'[d] : d \in { e \in Channels : open'[e] \/ asked'[e] # None } }
    <3>1. asked[c] # None
      BY BoundGives
    <3>2. \A e \in Channels : open'[e] \/ asked'[e] # None <=> open[e] \/ asked[e] # None
      BY <3>1, BoundGives
    <3>3. DOMAIN portOf' = DOMAIN portOf
      BY BoundGives
    <3>4. DOMAIN portOf = { sock[d] : d \in { e \in Channels : open[e] \/ asked[e] # None } }
      BY DEF IInv, SocketsAreOwned
    <3> QED BY <1>1, <3>2, <3>3, <3>4
  <2>2. \A d, e \in Channels : d # e /\ sock'[d] # None => sock'[d] # sock'[e]
    BY <1>1 DEF IInv, SocketsAreOwned
  <2>3. \A d \in Channels : d # c /\ open'[d] => PortOf(c)' # PortOf(d)'
    <3> SUFFICES ASSUME NEW d \in Channels, d # c, open'[d]
                 PROVE  PortOf(c)' # PortOf(d)'
      OBVIOUS
    <3>1. open[d] /\ PortOf(d)' = PortOf(d) /\ PortOf(c)' \notin UsedPorts
      BY BoundGives DEF Eligible
    <3>2. PortOf(d) \in UsedPorts
      BY <3>1, OpenHasPort DEF UsedPorts, PortOf
    <3> QED BY <3>1, <3>2
  <2>4. \A d, e \in Channels : d # e /\ open'[d] /\ open'[e] => PortOf(d)' # PortOf(e)'
    <3> SUFFICES ASSUME NEW d \in Channels, NEW e \in Channels, d # e, open'[d], open'[e]
                 PROVE  PortOf(d)' # PortOf(e)'
      OBVIOUS
    <3>1. CASE d = c \/ e = c
      BY <2>3, <3>1
    <3>2. CASE d # c /\ e # c
      <4>1. open[d] /\ open[e] /\ PortOf(d)' = PortOf(d) /\ PortOf(e)' = PortOf(e)
        BY <3>2, BoundGives
      <4> QED BY <4>1 DEF IInv, SocketsAreOwned
    <3> QED BY <3>1, <3>2
  <2>5. \A d \in Channels : ~open'[d] /\ asked'[d] = None => sock'[d] = None
    BY <1>1, BoundGives DEF IInv, SocketsAreOwned
  <2>6. \A d \in Channels : ~open'[d] => peer'[d] = None
    BY <1>1, BoundGives DEF IInv, SocketsAreOwned
  <2> QED BY <2>1, <2>2, <2>4, <2>5, <2>6 DEF SocketsAreOwned
<1>4. BindsAreOrdered'
  BY BoundGives DEF IInv, BindsAreOrdered
<1> QED BY <1>2, <1>3, <1>4 DEF IInv

(* A channel lets its socket go: the others keep theirs, and their ports. *)
LEMMA CloseLeavesOthers ==
  ASSUME IInv, NEW c \in Channels, Holds(c), Closed(sock[c]),
         sock' = [sock EXCEPT ![c] = None]
  PROVE  \A d \in Channels : d # c /\ open[d] => PortOf(d)' = PortOf(d)
<1> SUFFICES ASSUME NEW d \in Channels, d # c, open[d]
             PROVE  PortOf(d)' = PortOf(d)
  OBVIOUS
<1>1. sock[d] \in DOMAIN portOf /\ sock[d] # None
  BY OpenHasPort
<1>2. sock[d] # sock[c] /\ sock'[d] = sock[d]
  BY <1>1 DEF IInv, TypeOK, SocketsAreOwned
<1> QED BY <1>1, <1>2 DEF Closed, PortOf

LEMMA CloseKeepsIInv ==
  ASSUME IInv, NEW c \in Channels, Holds(c), Closed(sock[c]),
         sock' = [sock EXCEPT ![c] = None],
         open' \in [Channels -> BOOLEAN], \A d \in Channels : open'[d] <=> d # c /\ open[d],
         asked' = [asked EXCEPT ![c] = None], peer' = [peer EXCEPT ![c] = None],
         net' = net,
         ops' \in [OpKinds -> Nat] /\ \A k \in OpKinds : ops'[k] <= MaxOps[k]
  PROVE  IInv'
<1>1. sock[c] \in DOMAIN portOf /\ sock[c] # None
  BY HoldsSocket
<1>2. /\ DOMAIN portOf' = DOMAIN portOf \ {sock[c]} /\ DOMAIN inbox' = DOMAIN inbox \ {sock[c]}
      /\ \A g \in DOMAIN portOf' : portOf'[g] = portOf[g]
      /\ \A g \in DOMAIN inbox' : inbox'[g] = inbox[g]
  BY DEF Closed
<1>3. /\ \A d \in Channels : sock'[d] = IF d = c THEN None ELSE sock[d]
      /\ \A d \in Channels : peer'[d] = IF d = c THEN None ELSE peer[d]
      /\ \A d \in Channels : asked'[d] = IF d = c THEN None ELSE asked[d]
      /\ peer' \in [Channels -> Addrs \union {None}]
      /\ asked' \in [Channels -> Ports \union {AnyPort, None}]
  BY DEF IInv, TypeOK
<1>4. \A d \in Channels : d # c => sock[d] # sock[c]
  BY <1>1 DEF IInv, SocketsAreOwned
<1>5. sock' \in [Channels -> DOMAIN portOf' \union {None}]
  <2>1. \A d \in Channels : sock'[d] \in DOMAIN portOf' \union {None}
    BY <1>2, <1>3, <1>4 DEF IInv, TypeOK
  <2> QED BY <2>1 DEF IInv, TypeOK
<1>6. TypeOK'
  BY <1>2, <1>3, <1>5 DEF IInv, TypeOK
<1>7. SocketsAreOwned'
  <2>1. DOMAIN portOf' = { sock'[d] : d \in { e \in Channels : open'[e] \/ asked'[e] # None } }
    BY <1>1, <1>2, <1>3, <1>4 DEF IInv, SocketsAreOwned
  <2>2. \A d, e \in Channels : d # e /\ sock'[d] # None => sock'[d] # sock'[e]
    BY <1>3 DEF IInv, SocketsAreOwned
  <2>3. \A d, e \in Channels : d # e /\ open'[d] /\ open'[e] => PortOf(d)' # PortOf(e)'
    BY CloseLeavesOthers DEF IInv, SocketsAreOwned
  <2>4. \A d \in Channels : ~open'[d] /\ asked'[d] = None => sock'[d] = None
    BY <1>3 DEF IInv, SocketsAreOwned
  <2>5. \A d \in Channels : ~open'[d] => peer'[d] = None
    BY <1>3 DEF IInv, SocketsAreOwned
  <2> QED BY <2>1, <2>2, <2>3, <2>4, <2>5 DEF SocketsAreOwned
<1>8. BindsAreOrdered'
  <2> SUFFICES ASSUME NEW d \in Channels, open'[d]
               PROVE  asked'[d] = None /\ PortOf(d)' \in Ports
    BY DEF BindsAreOrdered
  <2>1. d # c /\ open[d]
    OBVIOUS
  <2>2. PortOf(d)' = PortOf(d) /\ asked'[d] = asked[d]
    BY <1>3, <2>1, CloseLeavesOthers
  <2> QED BY <2>1, <2>2 DEF IInv, BindsAreOrdered
<1> QED BY <1>6, <1>7, <1>8 DEF IInv

LEMMA RefusedKeepsIInv ==
  ASSUME IInv, NEW c \in Channels, PortRefused(c)
  PROVE  IInv'
<1>1. asked[c] # None /\ UNCHANGED << open, peer, net, ops >>
  BY DEF PortRefused
<1>2. ~open[c] /\ peer[c] = None
  BY <1>1 DEF IInv, BindsAreOrdered, SocketsAreOwned
<1>3. peer' = [peer EXCEPT ![c] = None]
  BY <1>1, <1>2 DEF IInv, TypeOK
<1>4. open' \in [Channels -> BOOLEAN] /\ \A d \in Channels : open'[d] <=> d # c /\ open[d]
  BY <1>1, <1>2 DEF IInv, TypeOK
<1>5. ops' \in [OpKinds -> Nat] /\ \A k \in OpKinds : ops'[k] <= MaxOps[k]
  BY <1>1 DEF IInv, TypeOK
<1> QED BY <1>1, <1>3, <1>4, <1>5, CloseKeepsIInv DEF PortRefused, Holds

LEMMA DestroyKeepsIInv ==
  ASSUME IInv, NEW c \in Channels, Destroy(c)
  PROVE  IInv'
<1>1. ops' \in [OpKinds -> Nat] /\ \A k \in OpKinds : ops'[k] <= MaxOps[k]
  BY OpTyped DEF IInv, OpKinds, Destroy
<1>2. open[c] /\ asked[c] = None
  BY DEF Destroy, IInv, BindsAreOrdered
<1>3. asked' = [asked EXCEPT ![c] = None]
  BY <1>2 DEF Destroy, IInv, TypeOK
<1>4. open' \in [Channels -> BOOLEAN] /\ \A d \in Channels : open'[d] <=> d # c /\ open[d]
  BY DEF Destroy, IInv, TypeOK
<1> QED BY <1>1, <1>2, <1>3, <1>4, CloseKeepsIInv DEF Destroy, Holds

(* The calls on an open channel: its socket stays. *)
LEMMA UseKeepsIInv ==
  ASSUME IInv, NEW c \in Channels, NEW a \in Addrs,
         SetPeer(c, a) \/ Send(c) \/ Receive(c)
  PROVE  IInv'
<1>1. open[c] /\ UNCHANGED << sock, open, asked, portOf >>
  BY DEF SetPeer, Send, Receive, implVars, kernelVars
<1>2. PortOf(c) \in Ports /\ sock[c] \in DOMAIN inbox /\ inbox[sock[c]] \in Seq(Addrs)
  BY <1>1, OpenHasPort DEF IInv, TypeOK
<1>3. CASE SetPeer(c, a)
  <2>1. ops' \in [OpKinds -> Nat] /\ \A k \in OpKinds : ops'[k] <= MaxOps[k]
    BY <1>3, OpTyped DEF IInv, OpKinds, SetPeer
  <2>2. TypeOK'
    BY <1>1, <1>3, <2>1 DEF SetPeer, kernelVars, IInv, TypeOK
  <2>3. SocketsAreOwned' /\ BindsAreOrdered'
    BY <1>1, <1>3, OwnersUnchanged DEF SetPeer, IInv, TypeOK, SocketsAreOwned
  <2> QED BY <2>2, <2>3 DEF IInv
<1>4. CASE Send(c)
  <2>1. [from |-> PortOf(c), to |-> peer[c]] \in Datagrams
    BY <1>2, <1>4 DEF Send, IInv, TypeOK, Datagrams, Addrs
  <2>2. TypeOK'
    BY <1>4, <2>1 DEF Send, implVars, kernelVars, IInv, TypeOK
  <2>3. SocketsAreOwned' /\ BindsAreOrdered'
    BY <1>1, <1>4, OwnersUnchanged DEF Send, implVars, IInv, SocketsAreOwned
  <2> QED BY <2>2, <2>3 DEF IInv
<1>5. CASE Receive(c)
  <2>1. inbox[sock[c]] # << >>
    BY <1>5 DEF Receive
  <2>2. Head(inbox[sock[c]]) \in Addrs /\ Tail(inbox[sock[c]]) \in Seq(Addrs)
    BY <1>2, <2>1
  <2>3. /\ DOMAIN inbox' = DOMAIN inbox
        /\ \A g \in DOMAIN inbox' : inbox'[g] \in Seq(Addrs)
    BY <1>2, <1>5, <2>2 DEF Receive, IInv, TypeOK
  <2>4. /\ peer' \in [Channels -> Addrs \union {None}]
        /\ \A d \in Channels : d # c => peer'[d] = peer[d]
    BY <1>5, <2>2 DEF Receive, IInv, TypeOK
  <2>5. TypeOK'
    BY <1>1, <1>5, <2>3, <2>4 DEF Receive, IInv, TypeOK
  <2>6. SocketsAreOwned' /\ BindsAreOrdered'
    BY <1>1, <2>4, OwnersUnchanged DEF IInv, SocketsAreOwned
  <2> QED BY <2>5, <2>6 DEF IInv
<1> QED BY <1>3, <1>4, <1>5

(* A datagram is queued where its port is, or nowhere. *)
LEMMA QueueTyped ==
  ASSUME TypeOK, NEW d \in Datagrams, Queue(d)
  PROVE  DOMAIN inbox' = DOMAIN inbox /\ \A f \in DOMAIN inbox' : inbox'[f] \in Seq(Addrs)
<1>1. \A f \in DOMAIN inbox : inbox[f] \in Seq(Addrs) /\ Append(inbox[f], d.from) \in Seq(Addrs)
  BY DEF TypeOK, Datagrams
<1> QED BY <1>1 DEF Queue

(* The network touches no channel, and nobody's socket but its queue. *)
LEMMA NetworkKeepsIInv ==
  ASSUME IInv,
         \/ \E a \in Strangers, p \in Ports : Stray(a, p)
         \/ \E d \in net : Deliver(d)
         \/ \E d \in net : DeliverCopy(d)
         \/ \E d \in net : Lose(d)
  PROVE  IInv'
<1>1. UNCHANGED << sock, open, asked, peer, portOf >>
  BY DEF Stray, Deliver, DeliverCopy, Lose, implVars, kernelVars
<1>2. SocketsAreOwned' /\ BindsAreOrdered'
  BY <1>1, OwnersUnchanged DEF IInv, SocketsAreOwned
<1>3. ASSUME NEW a \in Strangers, NEW p \in Ports, Stray(a, p)
      PROVE  TypeOK'
  <2>1. ops' \in [OpKinds -> Nat] /\ \A k \in OpKinds : ops'[k] <= MaxOps[k]
    BY <1>3, OpTyped DEF IInv, OpKinds, Stray
  <2>2. [from |-> a, to |-> p] \in Datagrams
    BY DEF Datagrams, Addrs
  <2> QED BY <1>3, <2>1, <2>2 DEF Stray, implVars, kernelVars, IInv, TypeOK
<1>4. ASSUME NEW d \in net, Deliver(d) \/ DeliverCopy(d)
      PROVE  TypeOK'
  <2>1. ops' \in [OpKinds -> Nat] /\ \A k \in OpKinds : ops'[k] <= MaxOps[k]
    BY <1>4, OpTyped DEF IInv, OpKinds, Deliver, DeliverCopy, TypeOK
  <2>2. d \in Datagrams /\ Queue(d) /\ net' \subseteq Datagrams
    BY <1>4 DEF Deliver, DeliverCopy, IInv, TypeOK
  <2> QED BY <1>1, <2>1, <2>2, QueueTyped DEF IInv, TypeOK
<1>5. ASSUME NEW d \in net, Lose(d)
      PROVE  TypeOK'
  BY <1>5 DEF Lose, implVars, kernelVars, IInv, TypeOK
<1> QED BY <1>2, <1>3, <1>4, <1>5 DEF IInv

LEMMA StutterKeepsIInv == IInv /\ UNCHANGED vars => IInv'
<1> SUFFICES ASSUME IInv, UNCHANGED vars PROVE IInv'
  OBVIOUS
<1>1. TypeOK'
  BY DEF vars, implVars, kernelVars, IInv, TypeOK
<1>2. SocketsAreOwned' /\ BindsAreOrdered'
  BY OwnersUnchanged DEF vars, implVars, kernelVars, IInv, SocketsAreOwned
<1> QED BY <1>1, <1>2 DEF IInv

THEOREM NextIInv == IInv /\ [Next]_vars => IInv'
<1> SUFFICES ASSUME IInv, [Next]_vars PROVE IInv'
  OBVIOUS
<1>1. ASSUME NEW c \in Channels, NEW p \in Ports \union {AnyPort}, Bind(c, p)
      PROVE  IInv'
  BY <1>1, BindKeepsIInv
<1>2. ASSUME NEW c \in Channels, PortBound(c) \/ PortRefused(c) \/ Destroy(c)
      PROVE  IInv'
  BY <1>2, BoundKeepsIInv, RefusedKeepsIInv, DestroyKeepsIInv
<1>3. ASSUME NEW c \in Channels, NEW a \in Addrs, SetPeer(c, a)
      PROVE  IInv'
  BY <1>3, UseKeepsIInv
<1>4. ASSUME NEW c \in Channels, Send(c) \/ Receive(c)
      PROVE  IInv'
  <2>1. open[c]
    BY <1>4 DEF Send, Receive
  <2>2. PortOf(c) \in Addrs
    BY <2>1, OpenHasPort DEF Addrs
  <2> QED BY <1>4, <2>2, UseKeepsIInv
<1>5. CASE \/ \E a \in Strangers, p \in Ports : Stray(a, p)
           \/ \E d \in net : Deliver(d)
           \/ \E d \in net : DeliverCopy(d)
           \/ \E d \in net : Lose(d)
  BY <1>5, NetworkKeepsIInv
<1>6. CASE UNCHANGED vars
  BY <1>6, StutterKeepsIInv
<1> QED BY <1>1, <1>2, <1>3, <1>4, <1>5, <1>6 DEF Next

THEOREM Inductive == Spec => []IInv
BY InitIInv, NextIInv, PTL DEF Spec

(* The type invariant of the UDP channels. *)
THEOREM TypeCorrect == Spec => []TypeOK
<1>1. IInv => TypeOK
  BY DEF IInv
<1> QED BY <1>1, Inductive, PTL

(* bind and the destructor: no descriptor is leaked or shared and no port is
   held twice, wherever bind fails and whichever channels come and go. *)
THEOREM SocketsOwned == Spec => []SocketsAreOwned
<1>1. IInv => SocketsAreOwned
  BY DEF IInv
<1> QED BY <1>1, Inductive, PTL

-----------------------------------------------------------------------------
(* Where a program is says which one it is, whether it has a channel, and what it
   asks bind for. *)
AsksFor(c) == IF c \in Receivers THEN ListensOn[c] ELSE AnyPort

ProgramsAreOrdered ==
  \A c \in Channels :
    /\ at[c] \in {"peer", "send"} => c \in Senders
    /\ at[c] = "recv" => c \in Receivers
    /\ at[c] \in {"start", "ended"} => ~open[c]
    /\ asked[c] = IF at[c] = "bind" THEN AsksFor(c) ELSE None

(* A receiver that waits has the port it was given. *)
WaitsOnItsPort ==
  \A c \in Channels : at[c] = "recv" => open[c] /\ PortOf(c) = ListensOn[c]

ProgramsTyped ==
  /\ at \in [Channels -> {"start", "bind", "peer", "send", "recv", "return", "ended"}]
  /\ status \in [Channels -> {0, 1, None}]

ExIInv == IInv /\ ProgramsTyped /\ ProgramsAreOrdered /\ WaitsOnItsPort

-----------------------------------------------------------------------------
THEOREM ExInitIInv == ExInit => ExIInv
<1> SUFFICES ASSUME ExInit PROVE ExIInv
  OBVIOUS
<1>1. IInv
  BY InitIInv DEF ExInit
<1>2. ProgramsTyped /\ ProgramsAreOrdered /\ WaitsOnItsPort
  BY DEF ExInit, Init, ProgramsTyped, ProgramsAreOrdered, WaitsOnItsPort
<1> QED BY <1>1, <1>2 DEF ExIInv

(* One program takes a step from `where': the others stay where they are, and
   their channels as they are. *)
OthersStay(c) ==
  \A d \in Channels : d # c =>
    /\ at'[d] = at[d] /\ (open'[d] <=> open[d]) /\ asked'[d] = asked[d]
    /\ open[d] => PortOf(d)' = PortOf(d)

LEMMA OneProgramMoves ==
  ASSUME ExIInv, IInv', ProgramsTyped', NEW c \in Channels, OthersStay(c),
         at'[c] \in {"peer", "send"} => c \in Senders,
         at'[c] = "recv" => c \in Receivers /\ open'[c] /\ PortOf(c)' = ListensOn[c],
         at'[c] \in {"start", "ended"} => ~open'[c],
         asked'[c] = IF at'[c] = "bind" THEN AsksFor(c) ELSE None
  PROVE  ExIInv'
<1>1. ProgramsAreOrdered'
  BY DEF ExIInv, ProgramsAreOrdered, OthersStay
<1>2. WaitsOnItsPort'
  BY DEF ExIInv, WaitsOnItsPort, OthersStay
<1> QED BY <1>1, <1>2 DEF ExIInv

(* The ways main goes on. *)
LEMMA Goes ==
  ASSUME ExIInv, NEW c \in Channels,
         NEW where \in {"start", "bind", "peer", "send", "recv", "return", "ended"},
         NEW code \in {0, 1},
         GoTo(c, where) \/ (where = "return" /\ Returns(c, code))
  PROVE  ProgramsTyped' /\ at'[c] = where /\ \A d \in Channels : d # c => at'[d] = at[d]
BY DEF ExIInv, ProgramsTyped, GoTo, Returns

(* bind of a program gets a socket, and leaves the other channels alone. *)
LEMMA SocketGives ==
  ASSUME IInv, NEW c \in Channels, NEW p \in Ports \union {AnyPort}, BindSocket(c, p)
  PROVE  /\ ~open'[c] /\ asked'[c] = p
         /\ \A d \in Channels : d # c =>
              /\ (open'[d] <=> open[d]) /\ asked'[d] = asked[d]
              /\ open[d] => PortOf(d)' = PortOf(d)
<1>1. PICK f \in Fds :
        NewFd(f) /\ Opened(f, AnyPort) /\ sock' = [sock EXCEPT ![c] = f]
  BY DEF BindSocket
<1>2. ~open[c] /\ asked' = [asked EXCEPT ![c] = p] /\ open' = open
  BY DEF BindSocket
<1>3. f \notin DOMAIN portOf
  BY <1>1 DEF NewFd, FreeFds
<1>4. \A d \in Channels : d # c /\ open[d] => PortOf(d)' = PortOf(d)
  BY <1>1, <1>3, OpenHasPort DEF Opened, PortOf, IInv, TypeOK
<1> QED BY <1>2, <1>4 DEF IInv, TypeOK

LEMMA BindStartsKeepsIInv ==
  ASSUME ExIInv, NEW c \in Channels, BindStarts(c, AsksFor(c))
  PROVE  ExIInv'
<1> USE ExamplesAssumption, ChannelAssumption
<1>1. AsksFor(c) \in Ports \union {AnyPort} /\ AsksFor(c) # None
  BY DEF AsksFor
<1>2. at[c] = "start" /\ ~open[c] /\ asked[c] = None /\ Bind(c, AsksFor(c))
  BY DEF BindStarts, ExIInv, ProgramsAreOrdered
<1>3. IInv'
  BY <1>1, <1>2, BindKeepsIInv DEF ExIInv
<1>4. CASE BindNoSocket(c)
  <2>1. UNCHANGED << sock, open, asked, portOf >>
    BY <1>4 DEF BindNoSocket, implVars, kernelVars
  <2>2. Returns(c, 1)
    BY <1>2, <2>1 DEF BindStarts
  <2>3. /\ ProgramsTyped' /\ at'[c] = "return"
        /\ \A d \in Channels : d # c => at'[d] = at[d]
    BY <2>2, Goes
  <2>4. OthersStay(c)
    BY <2>1, <2>3 DEF OthersStay, PortOf
  <2> QED BY <1>2, <1>3, <2>1, <2>3, <2>4, OneProgramMoves
<1>5. CASE BindSocket(c, AsksFor(c))
  <2>1. /\ ~open'[c] /\ asked'[c] = AsksFor(c)
        /\ \A d \in Channels : d # c =>
             /\ (open'[d] <=> open[d]) /\ asked'[d] = asked[d]
             /\ open[d] => PortOf(d)' = PortOf(d)
    BY <1>1, <1>5, SocketGives DEF ExIInv
  <2>2. GoTo(c, "bind")
    BY <1>1, <2>1 DEF BindStarts
  <2>3. /\ ProgramsTyped' /\ at'[c] = "bind"
        /\ \A d \in Channels : d # c => at'[d] = at[d]
    BY <2>2, Goes
  <2>4. OthersStay(c)
    BY <2>1, <2>3 DEF OthersStay
  <2> QED BY <1>3, <2>1, <2>3, <2>4, OneProgramMoves
<1> QED BY <1>2, <1>4, <1>5 DEF Bind, BindAgain

LEMMA BindEndsKeepsIInv ==
  ASSUME ExIInv, NEW c \in Channels, NEW next \in {"peer", "recv"}, BindEnds(c, next),
         c \in IF next = "peer" THEN Senders ELSE Receivers
  PROVE  ExIInv'
<1> USE ExamplesAssumption, ChannelAssumption
<1>1. at[c] = "bind" /\ asked[c] = AsksFor(c)
  BY DEF BindEnds, ExIInv, ProgramsAreOrdered
<1>2. CASE PortBound(c) /\ GoTo(c, next)
  <2>1. IInv'
    BY <1>2, BoundKeepsIInv DEF ExIInv
  <2>2. /\ PortOf(c)' \in Eligible(asked[c])
        /\ \A d \in Channels : open'[d] <=> d = c \/ open[d]
        /\ \A d \in Channels : asked'[d] = IF d = c THEN None ELSE asked[d]
        /\ \A d \in Channels : d # c /\ open[d] => PortOf(d)' = PortOf(d)
    BY <1>2, BoundGives DEF ExIInv
  <2>3. /\ ProgramsTyped' /\ at'[c] = next
        /\ \A d \in Channels : d # c => at'[d] = at[d]
    BY <1>2, Goes
  <2>4. OthersStay(c)
    BY <2>2, <2>3 DEF OthersStay
  <2>5. next = "recv" => PortOf(c)' = ListensOn[c]
    BY <1>1, <2>2 DEF AsksFor, Eligible
  <2> QED BY <2>1, <2>2, <2>3, <2>4, <2>5, OneProgramMoves
<1>3. CASE PortRefused(c) /\ Returns(c, 1)
  <2>1. IInv'
    BY <1>3, RefusedKeepsIInv DEF ExIInv
  <2>2. asked[c] # None /\ UNCHANGED open /\ asked' = [asked EXCEPT ![c] = None]
        /\ Closed(sock[c]) /\ sock' = [sock EXCEPT ![c] = None]
    BY <1>3 DEF PortRefused
  <2>3. /\ ProgramsTyped' /\ at'[c] = "return"
        /\ \A d \in Channels : d # c => at'[d] = at[d]
    BY <1>3, Goes
  <2>4. \A d \in Channels : asked'[d] = IF d = c THEN None ELSE asked[d]
    BY <2>2 DEF ExIInv, IInv, TypeOK
  <2>5. OthersStay(c)
    BY <2>2, <2>3, <2>4, CloseLeavesOthers DEF OthersStay, Holds, ExIInv
  <2> QED BY <2>1, <2>2, <2>3, <2>4, <2>5, OneProgramMoves
<1> QED BY <1>2, <1>3 DEF BindEnds

LEMMA BindsKeepsIInv ==
  ASSUME ExIInv, NEW c \in Channels, SenderBinds(c) \/ ReceiverBinds(c)
  PROVE  ExIInv'
<1>1. CASE SenderBinds(c)
  <2>1. c \in Senders /\ AsksFor(c) = AnyPort
    BY <1>1, ExamplesAssumption DEF SenderBinds, AsksFor
  <2> QED BY <1>1, <2>1, BindStartsKeepsIInv, BindEndsKeepsIInv DEF SenderBinds
<1>2. CASE ReceiverBinds(c)
  <2>1. c \in Receivers /\ AsksFor(c) = ListensOn[c]
    BY <1>2 DEF ReceiverBinds, AsksFor
  <2> QED BY <1>2, <2>1, BindStartsKeepsIInv, BindEndsKeepsIInv DEF ReceiverBinds
<1> QED BY <1>1, <1>2

(* A program that returns, or starts again, without touching its channel. *)
LEMMA AloneKeepsIInv ==
  ASSUME ExIInv, NEW c \in Channels, UNCHANGED channelVars, ProgramsTyped',
         \A d \in Channels : d # c => at'[d] = at[d],
         at'[c] \in {"return", "start", "ended"}, asked[c] = None,
         at'[c] \in {"start", "ended"} => ~open[c]
  PROVE  ExIInv'
<1>1. UNCHANGED vars
  BY DEF vars, channelVars
<1>2. IInv'
  BY <1>1, StutterKeepsIInv DEF ExIInv
<1>3. OthersStay(c) /\ UNCHANGED << open, asked >>
  BY <1>1 DEF OthersStay, PortOf, vars, implVars, kernelVars
<1> QED BY <1>2, <1>3, OneProgramMoves

LEMMA SenderKeepsIInv ==
  ASSUME ExIInv, NEW c \in Channels, SenderSetsPeer(c) \/ SenderSends(c)
  PROVE  ExIInv'
<1>1. c \in Senders /\ Peer[c] \in Addrs /\ asked[c] = None
  BY ExamplesAssumption DEF SenderSetsPeer, SenderSends, ExIInv, ProgramsAreOrdered
<1>2. CASE Returns(c, 1) /\ UNCHANGED channelVars
  BY <1>1, <1>2, Goes, AloneKeepsIInv
<1>3. CASE \/ SetPeer(c, Peer[c]) /\ GoTo(c, "send")
           \/ Send(c) /\ Returns(c, 0)
  <2>1. IInv'
    BY <1>1, <1>3, UseKeepsIInv DEF ExIInv
  <2>2. UNCHANGED << sock, open, asked, portOf >>
    BY <1>3 DEF SetPeer, Send, implVars, kernelVars
  <2>3. /\ ProgramsTyped' /\ at'[c] \in {"send", "return"}
        /\ \A d \in Channels : d # c => at'[d] = at[d]
    BY <1>3, Goes
  <2>4. OthersStay(c)
    BY <2>2, <2>3 DEF OthersStay, PortOf
  <2> QED BY <1>1, <2>1, <2>2, <2>3, <2>4, OneProgramMoves
<1> QED BY <1>2, <1>3 DEF SenderSetsPeer, SenderSends

(* Whatever datagram it reads, a receiver goes on waiting or returns. *)
LEMMA ReadsAreTaken ==
  ASSUME ExIInv, NEW c \in Channels, ReceiverReads(c)
  PROVE  /\ at[c] = "recv" /\ Receive(c)
         /\ GoTo(c, "recv") \/ Returns(c, 0) \/ Returns(c, 1)
<1>1. at[c] = "recv" /\ Receive(c) /\ open[c] /\ inbox[sock[c]] # << >>
  BY DEF ReceiverReads, Receive
<1> DEFINE source == Head(inbox[sock[c]])
<1>2. source \in Addrs
  BY <1>1, OpenHasPort DEF ExIInv
<1>3. Carries(source) \in {"tele", "cmd", "malformed"}
  BY <1>2, ExamplesAssumption DEF Carries
<1> QED BY <1>1, <1>3 DEF ReceiverReads

LEMMA ReceiverKeepsIInv ==
  ASSUME ExIInv, NEW c \in Channels, ReceiverReads(c) \/ ReceiverTimesOut(c)
  PROVE  ExIInv'
<1>1. CASE ReceiverTimesOut(c)
  <2>1. asked[c] = None
    BY <1>1 DEF ReceiverTimesOut, ExIInv, ProgramsAreOrdered
  <2> QED BY <1>1, <2>1, Goes, AloneKeepsIInv DEF ReceiverTimesOut
<1>2. CASE ReceiverReads(c)
  <2>1. /\ at[c] = "recv" /\ Receive(c)
        /\ GoTo(c, "recv") \/ Returns(c, 0) \/ Returns(c, 1)
    BY <1>2, ReadsAreTaken
  <2>2. c \in Receivers /\ open[c] /\ PortOf(c) = ListensOn[c] /\ asked[c] = None
    BY <2>1 DEF ExIInv, ProgramsAreOrdered, WaitsOnItsPort
  <2>3. PortOf(c) \in Addrs
    BY <2>2, OpenHasPort DEF ExIInv, Addrs
  <2>4. IInv'
    BY <2>1, <2>3, UseKeepsIInv DEF ExIInv
  <2>5. UNCHANGED << sock, open, asked, portOf >>
    BY <2>1 DEF Receive
  <2>6. /\ ProgramsTyped' /\ at'[c] \in {"recv", "return"}
        /\ \A d \in Channels : d # c => at'[d] = at[d]
    BY <2>1, Goes
  <2>7. OthersStay(c) /\ PortOf(c)' = PortOf(c)
    BY <2>5, <2>6 DEF OthersStay, PortOf
  <2> QED BY <2>2, <2>4, <2>5, <2>6, <2>7, OneProgramMoves
<1> QED BY <1>1, <1>2

(* A destroyed channel is closed, and the others keep their ports. *)
LEMMA EndsKeepsIInv ==
  ASSUME ExIInv, NEW c \in Channels, Ends(c)
  PROVE  ExIInv'
<1>1. GoTo(c, "ended")
  BY DEF Ends
<1>2. /\ ProgramsTyped' /\ at'[c] = "ended"
      /\ \A d \in Channels : d # c => at'[d] = at[d]
  BY <1>1, Goes
<1>5. asked[c] = None
  BY DEF Ends, ExIInv, ProgramsAreOrdered
<1>3. CASE ~open[c]
  BY <1>2, <1>5, <1>3, AloneKeepsIInv DEF Ends
<1>4. CASE open[c]
  <2>1. Destroy(c)
    BY <1>4 DEF Ends
  <2>2. IInv'
    BY <2>1, DestroyKeepsIInv DEF ExIInv
  <2>3. UNCHANGED asked /\ \A d \in Channels : open'[d] <=> d # c /\ open[d]
    BY <2>1 DEF Destroy, ExIInv, IInv, TypeOK
  <2>4. OthersStay(c)
    BY <1>2, <2>1, <2>3, CloseLeavesOthers DEF OthersStay, Destroy, Holds, ExIInv
  <2> QED BY <1>2, <1>5, <2>2, <2>3, <2>4, OneProgramMoves
<1> QED BY <1>3, <1>4

LEMMA StartAgainKeepsIInv ==
  ASSUME ExIInv, NEW c \in Channels, StartAgain(c)
  PROVE  ExIInv'
<1>1. /\ at[c] = "ended" /\ UNCHANGED channelVars
      /\ at' = [at EXCEPT ![c] = "start"] /\ status' = [status EXCEPT ![c] = None]
  BY DEF StartAgain
<1>2. ~open[c] /\ asked[c] = None
  BY <1>1 DEF ExIInv, ProgramsAreOrdered
<1>3. /\ ProgramsTyped' /\ at'[c] = "start"
      /\ \A d \in Channels : d # c => at'[d] = at[d]
  BY <1>1 DEF ExIInv, ProgramsTyped
<1> QED BY <1>1, <1>2, <1>3, AloneKeepsIInv

LEMMA WorldKeepsIInv ==
  ASSUME ExIInv, World
  PROVE  ExIInv'
<1>1. IInv'
  BY NetworkKeepsIInv DEF World, ExIInv
<1>2. UNCHANGED << sock, open, asked, portOf, at, status >>
  BY DEF World, Stray, Deliver, DeliverCopy, Lose, implVars, kernelVars
<1>3. ProgramsTyped' /\ ProgramsAreOrdered' /\ WaitsOnItsPort'
  BY <1>2 DEF ExIInv, ProgramsTyped, ProgramsAreOrdered, WaitsOnItsPort, PortOf
<1> QED BY <1>1, <1>3 DEF ExIInv

THEOREM ExNextIInv == ExIInv /\ [ExNext]_exVars => ExIInv'
<1> SUFFICES ASSUME ExIInv, [ExNext]_exVars PROVE ExIInv'
  OBVIOUS
<1>1. ASSUME NEW c \in Channels, SenderBinds(c) \/ ReceiverBinds(c)
      PROVE  ExIInv'
  BY <1>1, BindsKeepsIInv
<1>2. ASSUME NEW c \in Channels, SenderSetsPeer(c) \/ SenderSends(c)
      PROVE  ExIInv'
  BY <1>2, SenderKeepsIInv
<1>3. ASSUME NEW c \in Channels, ReceiverReads(c) \/ ReceiverTimesOut(c)
      PROVE  ExIInv'
  BY <1>3, ReceiverKeepsIInv
<1>4. ASSUME NEW c \in Channels, Ends(c) \/ StartAgain(c)
      PROVE  ExIInv'
  BY <1>4, EndsKeepsIInv, StartAgainKeepsIInv
<1>5. CASE World
  BY <1>5, WorldKeepsIInv
<1>6. CASE UNCHANGED exVars
  <2>1. UNCHANGED vars /\ UNCHANGED << at, status >>
    BY <1>6 DEF exVars
  <2>2. IInv'
    BY <2>1, StutterKeepsIInv DEF ExIInv
  <2>3. ProgramsTyped' /\ ProgramsAreOrdered' /\ WaitsOnItsPort'
    BY <2>1 DEF vars, implVars, kernelVars, ExIInv, ProgramsTyped, ProgramsAreOrdered,
       WaitsOnItsPort, PortOf
  <2> QED BY <2>2, <2>3 DEF ExIInv
<1> QED BY <1>1, <1>2, <1>3, <1>4, <1>5, <1>6 DEF ExNext

THEOREM ExInductive == ExSpec => []ExIInv
BY ExInitIInv, ExNextIInv, PTL DEF ExSpec

(* The type invariant of the programs and their channels. *)
THEOREM ExTypeCorrect == ExSpec => []ExTypeOK
<1>1. ExIInv => ExTypeOK
  BY DEF ExIInv, IInv, ProgramsTyped, ExTypeOK
<1> QED BY <1>1, ExInductive, PTL

(* bind in the programs: two receivers never wait on one port, and each waits
   on the port it was given, however often programs end and are run again. *)
THEOREM ReceiversApart == ExSpec => []OneReceiverPerPort
<1>1. ExIInv => OneReceiverPerPort
  BY ExamplesAssumption
     DEF ExIInv, IInv, WaitsOnItsPort, SocketsAreOwned, OneReceiverPerPort
<1> QED BY <1>1, ExInductive, PTL

(* Every step of the programs is a step of their channels, or none: the programs
   use UdpChannel as the module says it may be used. *)
THEOREM UsesItsChannels == ExSpec => Spec
<1>1. ExInit => Init
  BY DEF ExInit
<1>2. ExIInv /\ [ExNext]_exVars => [Next]_vars
  <2> SUFFICES ASSUME ExIInv, [ExNext]_exVars PROVE [Next]_vars
    OBVIOUS
  <2> USE ExamplesAssumption
  <2>1. ASSUME NEW c \in Channels, SenderBinds(c) \/ ReceiverBinds(c)
        PROVE  Next
    <3>1. (\E p \in Ports \union {AnyPort} : Bind(c, p)) \/ PortBound(c) \/ PortRefused(c)
      BY <2>1 DEF SenderBinds, ReceiverBinds, BindStarts, BindEnds
    <3> QED BY <3>1 DEF Next
  <2>2. ASSUME NEW c \in Channels, SenderSetsPeer(c) \/ SenderSends(c)
        PROVE  Next \/ UNCHANGED vars
    <3>1. Peer[c] \in Addrs
      BY <2>2 DEF SenderSetsPeer, SenderSends, ExIInv, ProgramsAreOrdered
    <3>2. SetPeer(c, Peer[c]) \/ Send(c) \/ UNCHANGED channelVars
      BY <2>2 DEF SenderSetsPeer, SenderSends
    <3> QED BY <3>1, <3>2 DEF Next, channelVars, vars
  <2>3. ASSUME NEW c \in Channels, ReceiverReads(c) \/ ReceiverTimesOut(c)
        PROVE  Next \/ UNCHANGED vars
    <3>1. Receive(c) \/ UNCHANGED channelVars
      BY <2>3 DEF ReceiverReads, ReceiverTimesOut
    <3> QED BY <3>1 DEF Next, channelVars, vars
  <2>4. ASSUME NEW c \in Channels, Ends(c) \/ StartAgain(c)
        PROVE  Next \/ UNCHANGED vars
    <3>1. Destroy(c) \/ UNCHANGED channelVars
      BY <2>4 DEF Ends, StartAgain
    <3> QED BY <3>1 DEF Next, channelVars, vars
  <2>5. CASE World
    BY <2>5 DEF World, Next
  <2>6. CASE UNCHANGED exVars
    BY <2>6 DEF exVars
  <2> QED BY <2>1, <2>2, <2>3, <2>4, <2>5, <2>6 DEF ExNext
<1> QED BY <1>1, <1>2, ExInductive, PTL DEF ExSpec, Spec

=============================================================================
