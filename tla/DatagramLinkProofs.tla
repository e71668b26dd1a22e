------------------------- MODULE DatagramLinkProofs --------------------------
(***************************************************************************)
(* Theorems about DatagramLink, for any checksum, packet sizes, timeouts,  *)
(* clock rate, datagrams and queue size.                                   *)
(***************************************************************************)
EXTENDS DatagramLink, LinkCallProofs

(* What was let through was checked to be one frame, and what was not, not. *)
FatesAreChecked ==
  \A i \in 1..Len(consumed) :
    consumed[i].fate # "malformed" <=> IsDatagramFrame(consumed[i].bytes)

NetTypeOK ==
  /\ mail \in Seq(Seq(Byte)) /\ posted \in Seq(Seq(Byte))
  /\ flying \subseteq 1..Len(posted)
  /\ socket \in Seq(Seq(Byte)) /\ Len(socket) <= QueueSize
  /\ queued \in Seq(Seq(Byte))
  /\ copies \in 0..MaxCopies /\ errors \in 0..MaxErrors

(* The two histories of the reads, the queue that is left and the network: what
   a step of the network or of the clock keeps. *)
NetIInv == NetTypeOK /\ ReadsInOrder /\ FatesAreChecked

IInv == CallIInv /\ NetIInv

LEMMA Typed == CallTypeOK => consumed \in Seq(Items)
BY DEF CallTypeOK, Items, Fates

LEMMA NetStutter ==
  ASSUME NetIInv, UNCHANGED << consumed, netVars, socket, queued, errors >>
  PROVE  NetIInv'
BY DEF NetIInv, NetTypeOK, ReadsInOrder, FatesAreChecked, netVars

THEOREM InitIInv == Init => IInv
<1> SUFFICES ASSUME Init PROVE IInv
  OBVIOUS
<1>1. CallIInv /\ consumed = << >>
  BY CallInitIInv DEF Init, CallInit
<1>2. NetTypeOK
  <2>1. mail \in Seq(Seq(Byte)) /\ QueueSize \in Nat /\ MaxCopies \in Nat /\ MaxErrors \in Nat
    BY DatagramAssumption DEF Init
  <2> QED BY <2>1 DEF Init, NetTypeOK
<1>3. ReadsInOrder
  BY <1>1 DEF Init, ReadsInOrder
<1>4. FatesAreChecked
  BY <1>1 DEF FatesAreChecked
<1> QED BY <1>1, <1>2, <1>3, <1>4 DEF IInv, NetIInv

-----------------------------------------------------------------------------
(* The network. *)
LEMMA PostKeepsIInv ==
  ASSUME NetIInv, Post
  PROVE  NetIInv'
<1>1. Head(mail) \in Seq(Byte) /\ Tail(mail) \in Seq(Seq(Byte))
  BY HeadTailProperties DEF Post, NetIInv, NetTypeOK
<1>2. PICK n \in Nat : n = Len(posted)
  BY LenProperties DEF NetIInv, NetTypeOK
<1>3. posted' \in Seq(Seq(Byte)) /\ Len(posted') = n + 1
  BY <1>1, <1>2, AppendProperties DEF Post, NetIInv, NetTypeOK
<1>4. flying' \subseteq 1..Len(posted')
  <2>1. flying \subseteq 1..n
    BY <1>2 DEF NetIInv, NetTypeOK
  <2>2. flying' = flying \union {n + 1}
    BY <1>3 DEF Post
  <2> QED BY <1>3, <2>1, <2>2
<1>5. UNCHANGED << consumed, socket, queued, copies, errors >> /\ mail' = Tail(mail)
  BY DEF Post, callVars
<1> QED BY <1>1, <1>3, <1>4, <1>5 DEF NetIInv, NetTypeOK, ReadsInOrder, FatesAreChecked

(* What the socket takes in goes to the end of what will be read. *)
LEMMA QueueKeepsIInv ==
  ASSUME NetIInv, consumed \in Seq(Items), NEW d \in Seq(Byte), Queue(d),
         UNCHANGED << consumed, mail, posted, errors >>,
         flying' \subseteq flying, copies' \in 0..MaxCopies
  PROVE  NetIInv'
<1>1. CASE UNCHANGED << socket, queued >>
  BY <1>1 DEF NetIInv, NetTypeOK, ReadsInOrder, FatesAreChecked
<1>2. CASE Len(socket) < QueueSize /\ socket' = Append(socket, d) /\ queued' = Append(queued, d)
  <2>1. PICK n \in Nat : n = Len(socket)
    BY LenProperties DEF NetIInv, NetTypeOK
  <2>2. /\ socket' \in Seq(Seq(Byte)) /\ Len(socket') = n + 1
        /\ queued' \in Seq(Seq(Byte))
    BY <1>2, <2>1, AppendProperties DEF NetIInv, NetTypeOK
  <2>3. n + 1 <= QueueSize
    BY <1>2, <2>1, DatagramAssumption
  <2>4. NetTypeOK'
    BY <2>2, <2>3 DEF NetIInv, NetTypeOK
  <2>5. Taken(consumed) \in Seq(Seq(Byte))
    BY TakenAppends DEF Fates
  <2>6. Taken(consumed) \o Append(socket, d) = Append(Taken(consumed) \o socket, d)
    <3>1. socket \in Seq(Seq(Byte))
      BY DEF NetIInv, NetTypeOK
    <3> QED BY <2>5, <3>1, GrowBehind, SMTT(30)
  <2>7. ReadsInOrder'
    BY <1>2, <2>6 DEF NetIInv, ReadsInOrder, Taken
  <2> QED BY <2>4, <2>7 DEF NetIInv, FatesAreChecked
<1> QED BY <1>1, <1>2 DEF Queue

(* The oldest datagram goes from the queue to the end of what was read. *)
LEMMA ConsumeKeepsIInv ==
  ASSUME NetIInv, consumed \in Seq(Items), socket # << >>, socket' = Tail(socket),
         NEW fate \in Fates, Consume(Head(socket), fate),
         fate # "malformed" <=> IsDatagramFrame(Head(socket)),
         UNCHANGED << netVars, queued, errors >>
  PROVE  NetIInv'
<1> DEFINE d == Head(socket)
<1>1. socket \in Seq(Seq(Byte)) /\ QueueSize \in Nat
  BY DatagramAssumption DEF NetIInv, NetTypeOK
<1>2. /\ d \in Seq(Byte) /\ socket' \in Seq(Seq(Byte)) /\ Len(socket') = Len(socket) - 1
      /\ Len(socket) \in Nat
  BY <1>1, HeadTailProperties, LenProperties
<1>3. NetTypeOK'
  BY <1>1, <1>2 DEF NetIInv, NetTypeOK, netVars
<1> HIDE DEF d
<1>4. /\ Len(consumed') = Len(consumed) + 1
      /\ \A i \in 1..Len(consumed) : consumed'[i] = consumed[i]
      /\ consumed'[Len(consumed) + 1] = [bytes |-> d, fate |-> fate]
      /\ Taken(consumed) \in Seq(Seq(Byte))
      /\ Taken(consumed') = Append(Taken(consumed), d)
  <2>1. consumed' = Append(consumed, [bytes |-> d, fate |-> fate])
    BY DEF Consume, d
  <2> DEFINE e == Append(consumed, [bytes |-> d, fate |-> fate])
  <2>2. /\ Len(e) = Len(consumed) + 1
        /\ \A i \in 1..Len(consumed) : e[i] = consumed[i]
        /\ e[Len(consumed) + 1] = [bytes |-> d, fate |-> fate]
        /\ Taken(consumed) \in Seq(Seq(Byte))
        /\ Taken(e) = Append(Taken(consumed), d)
    BY <1>2, TakenAppends, ZenonT(30)
  <2> HIDE DEF e
  <2>3. consumed' = e
    BY <2>1 DEF e
  <2> QED BY <2>2, <2>3
<1>5. Taken(consumed') \o socket' = Taken(consumed) \o socket
  BY <1>1, <1>4, MoveHead DEF d
<1>6. ReadsInOrder'
  BY <1>5 DEF NetIInv, ReadsInOrder, Taken
<1>7. FatesAreChecked'
  <2> SUFFICES ASSUME NEW i \in 1..Len(consumed')
               PROVE  consumed'[i].fate # "malformed" <=> IsDatagramFrame(consumed'[i].bytes)
    BY DEF FatesAreChecked
  <2>1. Len(consumed) \in Nat
    BY LenProperties
  <2>2. CASE i \in 1..Len(consumed)
    BY <1>4, <2>2 DEF NetIInv, FatesAreChecked
  <2>3. CASE i = Len(consumed) + 1
    BY <1>4, <2>3 DEF d
  <2> QED BY <1>4, <2>1, <2>2, <2>3
<1> QED BY <1>3, <1>6, <1>7 DEF NetIInv

-----------------------------------------------------------------------------
(* recv_frame. *)
LEMMA EnterKeepsIInv ==
  ASSUME CallIInv, Enter
  PROVE  CallIInv'
<1> DEFINE left == arg * TicksPerMs
<1>1. /\ pc = "enter" /\ UNCHANGED << want, due, arg, pollEnd, consumed, now, slip >>
  BY DEF Enter, clockVars
<1>2. /\ now \in Nat /\ arg \in Nat /\ TicksPerMs \in Nat \ {0} /\ Earliest \in Int
      /\ left \in Nat
  BY CallTypes DEF CallIInv
<1>3. CASE arg = 0 /\ Return("timeout")
  <2>1. left = 0
    BY <1>2, <1>3
  <2>2. TimeoutsFit => now + left >= Earliest + TicksPerMs
    BY <1>1 DEF CallIInv, CallNotEarly
  <2> HIDE DEF left
  <2>3. TimeoutsFit => now > Earliest
    BY <1>2, <2>1, <2>2
  <2>4. consumed' \in Seq([bytes : Seq(Byte), fate : Fates])
    BY <1>1 DEF CallIInv, CallTypeOK, Fates
  <2>5. pc # "idle" /\ "timeout" \in Hows
    BY <1>1 DEF Hows
  <2> QED BY <1>1, <1>3, <2>3, <2>4, <2>5, ReturnKeepsIInv
<1>4. CASE GoTo("recv")
  <2>1. pc' = "recv" /\ UNCHANGED ret
    BY <1>4 DEF GoTo
  <2>2. CallTypeOK'
    BY <1>1, <2>1 DEF CallIInv, CallTypeOK
  <2>3. CallInTime'
    BY <1>1, <2>1 DEF CallIInv, CallInTime, DeadlineKept
  <2>4. ASSUME TimeoutsFit PROVE CallNotEarly'
    <3>1. now + left >= Earliest + TicksPerMs
      BY <1>1, <2>4 DEF CallIInv, CallNotEarly
    <3> HIDE DEF left
    <3>2. now + left > Earliest
      BY <1>2, <3>1
    <3>3. now' + arg' * TicksPerMs > Earliest'
      BY <1>1, <3>2, SameCall DEF left
    <3> QED BY <1>1, <2>1, <2>4, <3>3 DEF CallIInv, CallNotEarly, TimeoutIsNotEarly
  <2> QED BY <2>2, <2>3, <2>4 DEF CallIInv
<1>5. arg <= 0 <=> arg = 0
  BY <1>2
<1> QED BY <1>3, <1>4, <1>5 DEF Enter

LEMMA ReadKeepsIInv ==
  ASSUME IInv, ReadDatagram
  PROVE  IInv'
<1> DEFINE d == Head(socket)
<1>1. /\ pc = "poll" /\ socket # << >> /\ socket' = Tail(socket)
      /\ UNCHANGED << want, due, arg, pollEnd, now, slip, netVars, queued, errors >>
  BY DEF ReadDatagram, clockVars
<1>2. consumed \in Seq(Items) /\ d \in Seq(Byte)
  BY <1>1, Typed, HeadTailProperties DEF IInv, CallIInv, NetIInv, NetTypeOK
<1>3. CASE IsDatagramFrame(d)
  <2>1. Got(d)
    BY <1>3 DEF ReadDatagram
  <2>2. CallIInv'
    BY <1>1, <1>2, <2>1, GotKeepsIInv DEF IInv
  <2>3. PICK fate \in {"returned", "undecoded", "skipped"} : Consume(d, fate)
    BY <2>1 DEF Got
  <2>4. fate \in Fates /\ fate # "malformed"
    BY DEF Fates
  <2>5. NetIInv'
    BY <1>1, <1>2, <1>3, <2>3, <2>4, ConsumeKeepsIInv DEF IInv
  <2> QED BY <2>2, <2>5 DEF IInv
<1>4. CASE ~IsDatagramFrame(d)
  <2>1. Consume(d, "malformed") /\ Return("malformed")
    BY <1>4 DEF ReadDatagram
  <2>2. "malformed" \in Fates /\ "malformed" \in Hows /\ pc # "idle"
    BY <1>1 DEF Fates, Hows
  <2>3. consumed' \in Seq(Items)
    BY <1>2, <2>1, <2>2, TakenAppends DEF Consume
  <2>4. CallIInv'
    BY <1>1, <2>1, <2>2, <2>3, ReturnKeepsIInv DEF IInv, Items
  <2>5. NetIInv'
    BY <1>1, <1>2, <1>4, <2>1, <2>2, ConsumeKeepsIInv DEF IInv
  <2> QED BY <2>4, <2>5 DEF IInv
<1> QED BY <1>3, <1>4

-----------------------------------------------------------------------------
THEOREM NextIInv == IInv /\ [Next]_vars => IInv'
<1> SUFFICES ASSUME IInv, [Next]_vars PROVE IInv'
  OBVIOUS
<1>1. CallIInv /\ NetIInv /\ consumed \in Seq(Items)
  BY Typed DEF IInv, CallIInv
<1>2. CASE Post
  <2>1. UNCHANGED << clockVars, callVars >>
    BY <1>2 DEF Post
  <2> QED BY <1>1, <1>2, <2>1, PostKeepsIInv, CallStutterKeepsIInv DEF IInv
<1>3. ASSUME NEW i \in flying, Deliver(i) \/ DeliverCopy(i)
      PROVE  IInv'
  <2>1. /\ UNCHANGED << clockVars, callVars, consumed, mail, posted, errors >>
        /\ Queue(posted[i]) /\ flying' \subseteq flying
    BY <1>3 DEF Deliver, DeliverCopy, callVars
  <2>2. copies' \in 0..MaxCopies
    BY <1>1, <1>3, DatagramAssumption DEF Deliver, DeliverCopy, NetIInv, NetTypeOK
  <2>3. posted[i] \in Seq(Byte)
    BY <1>1, ElementOfSeq DEF NetIInv, NetTypeOK
  <2>4. NetIInv'
    BY <1>1, <2>1, <2>2, <2>3, QueueKeepsIInv
  <2> QED BY <1>1, <2>1, <2>4, CallStutterKeepsIInv DEF IInv
<1>4. CASE Invoke
  <2>1. PICK w \in Wants, ms \in Timeouts : Call(w, ms)
    BY <1>4 DEF Invoke
  <2>2. UNCHANGED << consumed, netVars, socket, queued, errors >>
    BY <1>4, <2>1 DEF Invoke, Call
  <2>3. CallIInv'
    BY <1>1, <2>1, CallKeepsIInv
  <2> QED BY <1>1, <2>2, <2>3, NetStutter DEF IInv
<1>5. CASE TypedTurn
  <2>1. UNCHANGED << consumed, netVars, socket, queued, errors >>
    BY <1>5 DEF TypedTurn, AsTurn
  <2> QED BY <1>1, <1>5, <2>1, NetStutter, TurnKeepsIInv DEF IInv, TypedTurn
<1>6. CASE Enter
  <2>1. UNCHANGED << consumed, netVars, socket, queued, errors >>
    BY <1>6 DEF Enter
  <2> QED BY <1>1, <1>6, <2>1, NetStutter, EnterKeepsIInv DEF IInv
<1>7. CASE Poll
  <2>1. UNCHANGED << consumed, netVars, socket, queued, errors >>
    BY <1>7 DEF Poll, PollStart
  <2> QED BY <1>1, <1>7, <2>1, NetStutter, PollKeepsIInv DEF IInv, Poll
<1>8. CASE ReadDatagram
  BY <1>8, ReadKeepsIInv
<1>9. CASE PollTimesOut
  <2>1. UNCHANGED << consumed, netVars, socket, queued, errors >>
    BY <1>9 DEF PollTimesOut, GotNone
  <2>2. CallIInv'
    BY <1>1, <1>9, GotNoneKeepsIInv DEF PollTimesOut
  <2> QED BY <1>1, <2>1, <2>2, NetStutter DEF IInv
<1>10. CASE RecvFails
  <2>1. CallIInv'
    BY <1>1, <1>10, GotNoneKeepsIInv DEF RecvFails
  <2>2. UNCHANGED << consumed, netVars, socket, queued >> /\ errors' \in 0..MaxErrors
    BY <1>1, <1>10, DatagramAssumption DEF RecvFails, GotNone, NetIInv, NetTypeOK
  <2>3. NetIInv'
    BY <1>1, <2>2 DEF NetIInv, NetTypeOK, ReadsInOrder, FatesAreChecked, netVars
  <2> QED BY <2>1, <2>3 DEF IInv
<1>11. CASE Clock
  <2>1. UNCHANGED << consumed, netVars, socket, queued, errors >>
    BY <1>11 DEF Clock, Tick, callVars
  <2> QED BY <1>1, <1>11, <2>1, NetStutter, TickKeepsIInv DEF IInv, Clock
<1>12. CASE UNCHANGED vars
  <2>1. UNCHANGED << clockVars, callVars >>
        /\ UNCHANGED << consumed, netVars, socket, queued, errors >>
    BY <1>12 DEF vars, callVars
  <2> QED BY <1>1, <2>1, NetStutter, CallStutterKeepsIInv DEF IInv
<1> QED BY <1>2, <1>3, <1>4, <1>5, <1>6, <1>7, <1>8, <1>9, <1>10, <1>11, <1>12 DEF Next

THEOREM Inductive == Spec => []IInv
BY InitIInv, NextIInv, PTL DEF Spec

-----------------------------------------------------------------------------
(* Every variable keeps its type; the socket never holds more than its queue. *)
THEOREM TypeCorrect == Spec => []TypeOK
<1>1. IInv => TypeOK
  BY DEF IInv, CallIInv, NetIInv, NetTypeOK, TypeOK
<1> QED BY <1>1, Inductive, PTL

(* A call of UdpFrameLink is over by the time it was given, plus the time its
   thread did not run: whatever datagrams come, and also when now + timeout
   wraps. *)
THEOREM DeadlineIsKept == Spec => []DeadlineKept
<1>1. IInv => DeadlineKept
  BY DEF IInv, CallIInv, CallInTime
<1> QED BY <1>1, Inductive, PTL

(* A call that times out has waited for the time it was given, but for the
   truncations to milliseconds, when no timeout takes a count past its end. *)
THEOREM TimesOutWhenDue == Spec => [](TimeoutsFit => TimeoutIsNotEarly)
<1>1. IInv => (TimeoutsFit => TimeoutIsNotEarly)
  BY DEF IInv, CallIInv, CallNotEarly
<1> QED BY <1>1, Inductive, PTL

(* The reads of all calls together are the socket's queue, in order. *)
THEOREM ReadsAreInOrder == Spec => []ReadsInOrder
<1>1. IInv => ReadsInOrder
  BY DEF IInv, NetIInv
<1> QED BY <1>1, Inductive, PTL

(* UdpFrameLink lets a datagram through exactly when FrameParser, fed with it
   alone, returns all of it. *)
THEOREM LinksAgree == Spec => []SameFramesAsTheStream
<1>1. ASSUME IInv PROVE SameFramesAsTheStream
  <2> SUFFICES ASSUME NEW i \in 1..Len(consumed)
               PROVE  consumed[i].fate # "malformed" <=>
                        consumed[i].bytes # << >> /\
                        NextFrame(consumed[i].bytes) = [frame |-> consumed[i].bytes, rest |-> << >>]
    BY DEF SameFramesAsTheStream
  <2>1. consumed \in Seq(Items)
    BY <1>1, Typed DEF IInv, CallIInv
  <2>2. consumed[i] \in Items
    BY <2>1, ElementOfSeq
  <2>3. consumed[i].bytes \in Seq(Byte)
    BY <2>2 DEF Items
  <2>4. consumed[i].fate # "malformed" <=> IsDatagramFrame(consumed[i].bytes)
    BY <1>1 DEF IInv, NetIInv, FatesAreChecked
  <2> QED BY <2>3, <2>4, DatagramIsNextFrame
<1> QED BY <1>1, Inductive, PTL

=============================================================================
