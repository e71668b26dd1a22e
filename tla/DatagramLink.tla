---------------------------- MODULE DatagramLink -----------------------------
(***************************************************************************)
(* UdpFrameLink (src/frame_link.cpp:49-91): a datagram is exactly one      *)
(* frame.  recv_frame reads one datagram and checks it whole; there is no  *)
(* parser and nothing is kept between calls but what the socket queues.    *)
(* The network loses, doubles and reorders datagrams, and the socket drops *)
(* those that find its queue full.  Who sends to whom is UdpChannel's.     *)
(***************************************************************************)
EXTENDS LinkCall

CONSTANTS
  Mail,        \* what the other ends may send: sequences of datagrams
  QueueSize,   \* datagrams the socket holds
  MaxCopies,   \* bound: datagrams the network doubles
  MaxErrors    \* bound: reads that fail

ASSUME DatagramAssumption ==
  /\ Mail \subseteq Seq(Seq(Byte))
  /\ QueueSize \in Nat \ {0} /\ MaxCopies \in Nat /\ MaxErrors \in Nat

VARIABLES
  mail,      \* datagrams still to be sent
  flying,    \* numbers of the datagrams in the network
  socket,    \* datagrams the socket has queued
  posted,    \* history: datagrams sent
  queued,    \* history: datagrams the socket has queued since it was opened
  copies,    \* history: datagrams doubled
  errors     \* history: reads that failed

netVars == << mail, flying, posted, copies >>
vars    == << clockVars, callVars, netVars, socket, queued, errors >>

Init ==
  /\ CallInit
  /\ mail \in Mail /\ flying = {} /\ posted = << >> /\ copies = 0
  /\ socket = << >> /\ queued = << >> /\ errors = 0

-----------------------------------------------------------------------------
(* The network.  A datagram that it loses stays in flying and is never
   delivered. *)
Post ==
  /\ mail # << >>
  /\ posted' = Append(posted, Head(mail))
  /\ mail' = Tail(mail)
  /\ flying' = flying \union { Len(posted') }
  /\ UNCHANGED << clockVars, callVars, socket, queued, copies, errors >>

Queue(d) ==
  IF Len(socket) < QueueSize
  THEN socket' = Append(socket, d) /\ queued' = Append(queued, d)
  ELSE UNCHANGED << socket, queued >>

Deliver(i) ==
  /\ flying' = flying \ {i}
  /\ Queue(posted[i])
  /\ UNCHANGED << clockVars, callVars, mail, posted, copies, errors >>

DeliverCopy(i) ==
  /\ copies < MaxCopies
  /\ copies' = copies + 1
  /\ Queue(posted[i])
  /\ UNCHANGED << clockVars, callVars, mail, flying, posted, errors >>

-----------------------------------------------------------------------------
(* recv_frame *)
Enter ==
  /\ pc = "enter"
  /\ IF arg <= 0 THEN Return("timeout") ELSE GoTo("recv")
  /\ UNCHANGED << want, due, arg, pollEnd, consumed, clockVars,
                  netVars, socket, queued, errors >>

Poll == PollStart /\ UNCHANGED << netVars, socket, queued, errors >>

(* Mutant of ReadDatagram: the newest datagram is taken and the older ones are
   dropped with it. *)
ReadNewestDatagram ==
  LET newest == socket[Len(socket)]
  IN  /\ pc = "poll" /\ socket # << >>
      /\ socket' = << >>
      /\ IF IsDatagramFrame(newest)
         THEN Got(newest)
         ELSE Consume(newest, "malformed") /\ Return("malformed")
      /\ UNCHANGED << want, due, arg, pollEnd, clockVars, netVars, queued, errors >>

(* recvfrom takes the oldest datagram, and it is checked whole. *)
ReadDatagram ==
  /\ pc = "poll" /\ socket # << >>
  /\ socket' = Tail(socket)
  /\ IF IsDatagramFrame(Head(socket))
     THEN Got(Head(socket))
     ELSE Consume(Head(socket), "malformed") /\ Return("malformed")
  /\ UNCHANGED << want, due, arg, pollEnd, clockVars, netVars, queued, errors >>

PollTimesOut ==
  /\ pc = "poll" /\ socket = << >> /\ now >= pollEnd
  /\ GotNone("timeout")
  /\ UNCHANGED << want, due, arg, pollEnd, clockVars, netVars, socket, queued, errors >>

(* poll fails, or recvfrom does (an ICMP error, a signal): nullopt. *)
RecvFails ==
  /\ pc = "poll" /\ errors < MaxErrors
  /\ errors' = errors + 1
  /\ GotNone("error")
  /\ UNCHANGED << want, due, arg, pollEnd, clockVars, netVars, socket, queued >>

-----------------------------------------------------------------------------
Invoke ==
  /\ \E w \in Wants, ms \in Timeouts : Call(w, ms)
  /\ UNCHANGED << netVars, socket, queued, errors >>

TypedTurn == AsTurn /\ UNCHANGED << netVars, socket, queued, errors >>

Clock == Tick(socket # << >>) /\ UNCHANGED << netVars, socket, queued, errors >>

Next ==
  \/ Post
  \/ \E i \in flying : Deliver(i)
  \/ \E i \in flying : DeliverCopy(i)
  \/ Invoke
  \/ TypedTurn
  \/ Enter
  \/ Poll
  \/ ReadDatagram
  \/ PollTimesOut
  \/ RecvFails
  \/ Clock

Spec == Init /\ [][Next]_vars

-----------------------------------------------------------------------------
TypeOK ==
  /\ CallTypeOK
  /\ mail \in Seq(Seq(Byte)) /\ posted \in Seq(Seq(Byte))
  /\ flying \subseteq 1..Len(posted)
  /\ socket \in Seq(Seq(Byte)) /\ Len(socket) <= QueueSize
  /\ queued \in Seq(Seq(Byte))
  /\ copies \in 0..MaxCopies /\ errors \in 0..MaxErrors

(* Both links take the same bytes for a frame: a datagram is let through
   exactly when a stream parser that is fed with it alone returns all of it
   and keeps nothing. *)
SameFramesAsTheStream ==
  \A i \in 1..Len(consumed) :
    LET d == consumed[i].bytes
    IN  consumed[i].fate # "malformed" <=>
          d # << >> /\ NextFrame(d) = [frame |-> d, rest |-> << >>]

(* A typed call ends with the first frame of its type in the socket, decoded or not;
   it never reads behind it, and what it does not read stays for the next
   call: the reads of all calls together are the queue in order. *)
ReadsInOrder ==
  queued = [i \in 1..Len(consumed) |-> consumed[i].bytes] \o socket

(* include/ou/frame_link.hpp:33-34 - recv_frame_as calls recv_frame in a
   loop, within the timeout, until a frame of the type arrives: when it
   returns nothing and no read failed and no frame was there to decode, the
   time is up. *)
KeepsWaitingForItsType ==
  want # Raw /\ ret.how = "malformed" => ret.at > due - 2 * TicksPerMs

=============================================================================
