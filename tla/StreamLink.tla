----------------------------- MODULE StreamLink ------------------------------
(***************************************************************************)
(* FrameLink on a byte stream (src/frame_link.cpp:17-47; SerialFrameLink   *)
(* adds nothing to it): recv_frame asks its parser, and while that has no  *)
(* frame reads the channel for the time that is left and feeds it.  The    *)
(* other end sends the bytes of `line' in chunks, at any time, also        *)
(* between calls; parser_ and what it holds outlive a call.                *)
(***************************************************************************)
EXTENDS LinkCall

CONSTANTS
  Lines,        \* what the other end may send: sequences of chunks of bytes
  ReadSize,     \* the buffer recv_bytes reads into (4096 in the code)
  MaxErrors     \* bound: reads that fail

ASSUME StreamAssumption ==
  /\ Lines \subseteq Seq(Seq(Byte))
  /\ ReadSize \in Nat \ {0} /\ MaxErrors \in Nat

VARIABLES
  deadline,  \* recv_frame's deadline
  buf,       \* parser_
  kernel,    \* bytes the descriptor has received and nobody has read
  line,      \* chunks that are still to come
  heard,     \* history: all the bytes that have come
  errors     \* history: reads that failed

streamVars == << deadline, buf >>
lineVars   == << kernel, line, heard, errors >>
vars       == << clockVars, callVars, streamVars, lineVars >>

Init ==
  /\ CallInit
  /\ deadline = 0 /\ buf = << >>
  /\ kernel = << >> /\ line \in Lines /\ heard = << >> /\ errors = 0

-----------------------------------------------------------------------------
(* The line. *)
Arrive ==
  /\ line # << >>
  /\ kernel' = kernel \o Head(line)
  /\ heard' = heard \o Head(line)
  /\ line' = Tail(line)
  /\ UNCHANGED << clockVars, callVars, streamVars, errors >>

-----------------------------------------------------------------------------
(* recv_frame *)
Enter ==
  /\ pc = "enter"
  /\ IF arg <= 0
     THEN Return("timeout") /\ UNCHANGED deadline
     ELSE deadline' = Wrap(now + arg * TicksPerMs) /\ GoTo("parse")
  /\ UNCHANGED << want, due, arg, pollEnd, consumed, clockVars, buf, lineVars >>

ParserHasFrame ==
  LET next == NextFrame(buf)
  IN  /\ pc = "parse"
      /\ next.frame # NoFrame
      /\ buf' = next.rest
      /\ Got(next.frame)
      /\ UNCHANGED << want, due, arg, pollEnd, clockVars, deadline, lineVars >>

(* Mutant of ParserIsDry: the channel is read for the whole timeout again. *)
ParserIsDryWholeTimeout ==
  LET next == NextFrame(buf)
  IN  /\ pc = "parse"
      /\ next.frame = NoFrame
      /\ buf' = next.rest
      /\ IF RunOut(deadline) THEN GotNone("timeout") ELSE GoTo("recv") /\ UNCHANGED consumed
      /\ UNCHANGED << want, due, arg, pollEnd, clockVars, deadline, lineVars >>

ParserIsDry ==
  LET next == NextFrame(buf)
  IN  /\ pc = "parse"
      /\ next.frame = NoFrame
      /\ buf' = next.rest
      /\ IF RunOut(deadline)
         THEN GotNone("timeout") /\ UNCHANGED arg
         ELSE arg' = LeftMs(deadline) /\ GoTo("recv") /\ UNCHANGED consumed
      /\ UNCHANGED << want, due, pollEnd, clockVars, deadline, lineVars >>

Poll == PollStart /\ UNCHANGED << streamVars, lineVars >>

(* Mutants of ReadBytes: the parser is asked once a call; a call reads once. *)
ReadThenPollAgain ==
  LET n == IF Len(kernel) < ReadSize THEN Len(kernel) ELSE ReadSize
  IN  /\ pc = "poll" /\ kernel # << >>
      /\ buf' = buf \o SubSeq(kernel, 1, n)
      /\ kernel' = SubSeq(kernel, n + 1, Len(kernel))
      /\ GoTo("recv")
      /\ UNCHANGED << want, due, arg, pollEnd, consumed, clockVars, deadline,
                      line, heard, errors >>

ReadThenGiveUp ==
  LET n == IF Len(kernel) < ReadSize THEN Len(kernel) ELSE ReadSize
  IN  /\ pc = "poll" /\ kernel # << >>
      /\ buf' = buf \o SubSeq(kernel, 1, n)
      /\ kernel' = SubSeq(kernel, n + 1, Len(kernel))
      /\ Return("timeout")
      /\ UNCHANGED << want, due, arg, pollEnd, consumed, clockVars, deadline,
                      line, heard, errors >>

(* recv_bytes: poll finds the descriptor readable; read takes up to ReadSize
   bytes, and the parser is fed with them. *)
ReadBytes ==
  LET n == IF Len(kernel) < ReadSize THEN Len(kernel) ELSE ReadSize
  IN  /\ pc = "poll" /\ kernel # << >>
      /\ buf' = buf \o SubSeq(kernel, 1, n)
      /\ kernel' = SubSeq(kernel, n + 1, Len(kernel))
      /\ GoTo("parse")
      /\ UNCHANGED << want, due, arg, pollEnd, consumed, clockVars, deadline,
                      line, heard, errors >>

(* Mutant of PollTimesOut: a call that gives up clears the parser. *)
PollTimesOutAndClears ==
  /\ pc = "poll" /\ kernel = << >> /\ now >= pollEnd
  /\ GotNone("timeout")
  /\ buf' = << >>
  /\ UNCHANGED << want, due, arg, pollEnd, clockVars, deadline, lineVars >>

PollTimesOut ==
  /\ pc = "poll" /\ kernel = << >> /\ now >= pollEnd
  /\ GotNone("timeout")
  /\ UNCHANGED << want, due, arg, pollEnd, clockVars, streamVars, lineVars >>

(* poll or read fails, or the other end hung up: nullopt, whenever that is. *)
RecvFails ==
  /\ pc = "poll" /\ errors < MaxErrors
  /\ errors' = errors + 1
  /\ GotNone("error")
  /\ UNCHANGED << want, due, arg, pollEnd, clockVars, streamVars, kernel, line, heard >>

-----------------------------------------------------------------------------
Invoke ==
  /\ \E w \in Wants, ms \in Timeouts : Call(w, ms)
  /\ UNCHANGED << streamVars, lineVars >>

TypedTurn == AsTurn /\ UNCHANGED << streamVars, lineVars >>

Clock == Tick(kernel # << >>) /\ UNCHANGED << streamVars, lineVars >>

Next ==
  \/ Arrive
  \/ Invoke
  \/ TypedTurn
  \/ Enter
  \/ ParserHasFrame
  \/ ParserIsDry
  \/ Poll
  \/ ReadBytes
  \/ PollTimesOut
  \/ RecvFails
  \/ Clock

Spec == Init /\ [][Next]_vars

-----------------------------------------------------------------------------
TypeOK ==
  /\ CallTypeOK
  /\ deadline \in -HalfClock..(HalfClock - 1)
  /\ buf \in Seq(Byte) /\ kernel \in Seq(Byte) /\ heard \in Seq(Byte)
  /\ line \in Seq(Seq(Byte))
  /\ errors \in 0..MaxErrors

Handed == [i \in 1..Len(consumed) |-> consumed[i].bytes]

Prefix(s, t) == Len(s) <= Len(t) /\ s = SubSeq(t, 1, Len(s))

(* The frames the calls take are those of the stream, in order and without a
   gap, whichever calls time out, fail or skip frames of other types in
   between: what one call has read of a frame is there for the next. *)
NothingLostBetweenCalls == Prefix(Handed, FramesIn(heard))

(* A call waits on the channel only when every frame among the bytes read so
   far has been handed out: it is not blocked with a frame in its hands. *)
NeverWaitsOnAFrame ==
  pc = "poll" =>
    Handed = FramesIn(SubSeq(heard, 1, Len(heard) - Len(kernel)))

=============================================================================
