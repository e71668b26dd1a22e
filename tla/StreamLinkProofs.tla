-------------------------- MODULE StreamLinkProofs ---------------------------
(***************************************************************************)
(* Theorems about StreamLink, for any checksum, packet sizes, timeouts,    *)
(* clock rate, bytes on the line, chunks and reads.                        *)
(***************************************************************************)
EXTENDS StreamLink, LinkCallProofs

StreamTypeOK ==
  /\ deadline \in -HalfClock..(HalfClock - 1)
  /\ buf \in Seq(Byte) /\ kernel \in Seq(Byte) /\ heard \in Seq(Byte)
  /\ line \in Seq(Seq(Byte))
  /\ errors \in 0..MaxErrors

(* recv_frame's own deadline is not later than the time the call was given, and,
   when no timeout takes a count past its end, a millisecond or more behind the
   earliest time the call may give up. *)
InRecvFrame == pc \in {"parse", "recv", "poll"}

TimeIInv ==
  InRecvFrame =>
    /\ deadline <= due + slip
    /\ TimeoutsFit => /\ deadline >= Earliest + TicksPerMs
                      /\ deadline <= now + IntMax * TicksPerMs

(* The bytes that were read are those that came, but for those the descriptor
   still has; and whatever comes behind them, the frames of the stream are
   those handed out and those of what the parser holds.  A call that is about
   to wait holds none. *)
BytesIInv ==
  /\ \E read \in Seq(Byte) :
       /\ heard = read \o kernel
       /\ \A x \in Seq(Byte) : FramesIn(read \o x) = Taken(consumed) \o FramesIn(buf \o x)
  /\ pc \in {"recv", "poll"} => FramesIn(buf) = << >>

IInv == CallIInv /\ StreamTypeOK /\ TimeIInv /\ BytesIInv

LEMMA Typed == CallTypeOK => consumed \in Seq(Items)
BY DEF CallTypeOK, Items, Fates

LEMMA StreamTypes ==
  ASSUME IInv
  PROVE  /\ now \in Nat /\ slip \in Nat /\ due \in Nat /\ arg \in Nat /\ pollEnd \in Nat
         /\ deadline \in Int /\ Earliest \in Int /\ TicksPerMs \in Nat \ {0}
         /\ IntMax \in Nat /\ IntMax * TicksPerMs \in Nat
         /\ consumed \in Seq(Items) /\ Taken(consumed) \in Seq(Seq(Byte))
<1>1. HalfClock \in Nat /\ deadline \in -HalfClock..(HalfClock - 1)
  BY LinkAssumption DEF IInv, StreamTypeOK
<1>2. consumed \in Seq(Items)
  BY Typed DEF IInv, CallIInv
<1>3. "returned" \in Fates /\ << >> \in Seq(Byte)
  BY DEF Fates
<1>4. Taken(consumed) \in Seq(Seq(Byte))
  BY <1>2, <1>3, TakenAppends
<1> QED BY <1>1, <1>2, <1>4, CallTypes DEF IInv, CallIInv

THEOREM InitIInv == Init => IInv
<1> SUFFICES ASSUME Init PROVE IInv
  OBVIOUS
<1>1. CallIInv /\ consumed = << >> /\ pc = "idle"
  BY CallInitIInv DEF Init, CallInit
<1>2. StreamTypeOK
  BY StreamAssumption, LinkAssumption DEF Init, StreamTypeOK
<1>3. TimeIInv
  BY <1>1 DEF TimeIInv, InRecvFrame
<1>4. BytesIInv
  <2>1. heard = << >> \o kernel /\ << >> \in Seq(Byte)
    BY ConcatEmptySeq DEF Init
  <2>2. Taken(consumed) = << >>
    BY <1>1 DEF Taken
  <2>3. ASSUME NEW x \in Seq(Byte)
        PROVE  FramesIn(<< >> \o x) = Taken(consumed) \o FramesIn(buf \o x)
    <3>1. FramesIn(x) \in Seq(Seq(Byte)) /\ << >> \o x = x /\ buf = << >>
      BY FramesTyped, ConcatEmptySeq DEF Init
    <3>2. << >> \o FramesIn(x) = FramesIn(x)
      BY <3>1, ConcatEmptySeq
    <3> QED BY <2>2, <3>1, <3>2
  <2> QED BY <1>1, <2>1, <2>3 DEF BytesIInv
<1> QED BY <1>1, <1>2, <1>3, <1>4 DEF IInv

-----------------------------------------------------------------------------
(* Steps that leave a part of the invariant alone. *)
LEMMA OutsideKeepsTime ==
  ASSUME pc' \in {"idle", "as", "enter"}
  PROVE  TimeIInv'
BY DEF TimeIInv, InRecvFrame

LEMMA SameTime ==
  ASSUME TimeIInv, InRecvFrame, UNCHANGED << want, due, now, slip, deadline >>
  PROVE  TimeIInv'
BY SameCall DEF TimeIInv

LEMMA SameBytes ==
  ASSUME BytesIInv, UNCHANGED << consumed, buf, kernel, heard >>,
         pc' \in {"recv", "poll"} => pc \in {"recv", "poll"}
  PROVE  BytesIInv'
BY DEF BytesIInv

LEMMA ArriveKeepsIInv ==
  ASSUME IInv, Arrive
  PROVE  IInv'
<1> DEFINE h == Head(line)
<1>1. /\ UNCHANGED << clockVars, callVars, deadline, buf, errors >>
      /\ UNCHANGED << consumed, pc, want, due, now, slip >>
      /\ kernel' = kernel \o h /\ heard' = heard \o h /\ line' = Tail(line)
  BY DEF Arrive, streamVars, callVars, clockVars
<1>2. CallIInv'
  BY <1>1, CallStutterKeepsIInv DEF IInv
<1>3. h \in Seq(Byte) /\ line' \in Seq(Seq(Byte)) /\ kernel \in Seq(Byte) /\ heard \in Seq(Byte)
  BY HeadTailProperties DEF Arrive, IInv, StreamTypeOK
<1> HIDE DEF h
<1>4. StreamTypeOK'
  BY <1>1, <1>3, ConcatProperties DEF IInv, StreamTypeOK
<1>5. TimeIInv'
  BY <1>1, SameCall DEF IInv, TimeIInv, InRecvFrame
<1>6. BytesIInv'
  <2>1. PICK read \in Seq(Byte) :
          /\ heard = read \o kernel
          /\ \A x \in Seq(Byte) : FramesIn(read \o x) = Taken(consumed) \o FramesIn(buf \o x)
    BY DEF IInv, BytesIInv
  <2>2. heard' = read \o kernel'
    <3>1. (read \o kernel) \o h = read \o (kernel \o h)
      BY <1>3, AssociateBytes, Zenon
    <3> QED BY <1>1, <2>1, <3>1
  <2> QED BY <1>1, <2>1, <2>2 DEF IInv, BytesIInv
<1> QED BY <1>2, <1>4, <1>5, <1>6 DEF IInv

(* The read moves bytes from the descriptor to the parser; nobody looks at them
   on the way. *)
LEMMA ReadKeepsIInv ==
  ASSUME IInv, ReadBytes
  PROVE  IInv'
<1> DEFINE n == IF Len(kernel) < ReadSize THEN Len(kernel) ELSE ReadSize
           first == SubSeq(kernel, 1, n)
           rest == SubSeq(kernel, n + 1, Len(kernel))
<1>1. /\ pc = "poll" /\ pc' = "parse"
      /\ UNCHANGED << want, due, arg, pollEnd, consumed, now, slip, ret,
                      deadline, line, heard, errors >>
      /\ buf' = buf \o first /\ kernel' = rest
  BY DEF ReadBytes, GoTo, clockVars
<1>2. kernel \in Seq(Byte) /\ heard \in Seq(Byte) /\ buf \in Seq(Byte)
  BY DEF IInv, StreamTypeOK
<1>3. first \in Seq(Byte) /\ rest \in Seq(Byte) /\ first \o rest = kernel
  <2>1. PICK len \in Nat : len = Len(kernel)
    BY <1>2, LenProperties
  <2>2. n \in 0..len
    BY <2>1, StreamAssumption
  <2> HIDE DEF n
  <2>3. \A i \in 1..len : kernel[i] \in Byte
    BY <1>2, <2>1, ElementOfSeq
  <2>4. /\ 1 \in Int /\ n \in Int /\ n + 1 \in Int /\ len \in Int
        /\ (\A i \in 1..n : i \in 1..len) /\ (\A i \in (n + 1)..len : i \in 1..len)
    BY <2>2
  <2>5. first \in Seq(Byte) /\ rest \in Seq(Byte)
    BY <2>1, <2>3, <2>4, SubSeqProperties
  <2>6. 1 \in 1..(len + 1) /\ n \in (1 - 1)..len /\ len \in n..len
    BY <2>2
  <2>7. SubSeq(kernel, 1, n) \o SubSeq(kernel, n + 1, len) = SubSeq(kernel, 1, len)
    BY <1>2, <2>1, <2>6, ConcatAdjacentSubSeq
  <2>8. SubSeq(kernel, 1, len) = kernel
    BY <1>2, <2>1, SubSeqFull
  <2> QED BY <2>1, <2>5, <2>7, <2>8
<1> HIDE DEF first, rest
<1>4. CallIInv'
  <2>1. CallTypeOK'
    BY <1>1 DEF IInv, CallIInv, CallTypeOK
  <2>2. CallInTime'
    BY <1>1 DEF IInv, CallIInv, CallInTime, DeadlineKept
  <2>3. TimeoutsFit => CallNotEarly'
    BY <1>1, SameCall DEF IInv, CallIInv, CallNotEarly, TimeoutIsNotEarly
  <2> QED BY <2>1, <2>2, <2>3 DEF CallIInv
<1>5. StreamTypeOK'
  BY <1>1, <1>2, <1>3, ConcatProperties DEF IInv, StreamTypeOK
<1>6. TimeIInv'
  BY <1>1, SameTime DEF IInv, InRecvFrame
<1>7. BytesIInv'
  <2>1. PICK read \in Seq(Byte) :
          /\ heard = read \o kernel
          /\ \A x \in Seq(Byte) : FramesIn(read \o x) = Taken(consumed) \o FramesIn(buf \o x)
    BY DEF IInv, BytesIInv
  <2>2. read \o first \in Seq(Byte)
    BY <1>3, ConcatProperties
  <2>3. heard' = (read \o first) \o kernel'
    <3>1. first \in Seq(Byte) /\ rest \in Seq(Byte)
      BY <1>3
    <3>2. (read \o first) \o rest = read \o (first \o rest)
      BY <3>1, AssociateBytes, Zenon
    <3> QED BY <1>1, <1>3, <2>1, <3>2
  <2>4. ASSUME NEW x \in Seq(Byte)
        PROVE  FramesIn((read \o first) \o x) = Taken(consumed) \o FramesIn(buf' \o x)
    <3>1. first \o x \in Seq(Byte)
      BY <1>3, ConcatProperties
    <3>2. (read \o first) \o x = read \o (first \o x)
      BY <1>3, AssociateBytes, Zenon
    <3>3. (buf \o first) \o x = buf \o (first \o x)
      <4>1. buf \in Seq(Byte) /\ first \in Seq(Byte)
        BY <1>2, <1>3
      <4> QED BY <4>1, AssociateBytes, Zenon
    <3> QED BY <1>1, <2>1, <3>1, <3>2, <3>3
  <2>5. consumed' = consumed /\ pc' \notin {"recv", "poll"}
    BY <1>1
  <2>6. \A x \in Seq(Byte) : FramesIn((read \o first) \o x) = Taken(consumed') \o FramesIn(buf' \o x)
    BY <2>4, <2>5
  <2> QED BY <2>2, <2>3, <2>5, <2>6 DEF BytesIInv
<1> QED BY <1>4, <1>5, <1>6, <1>7 DEF IInv

-----------------------------------------------------------------------------
(* recv_frame sets its deadline. *)
LEMMA EnterKeepsIInv ==
  ASSUME IInv, Enter
  PROVE  IInv'
<1> DEFINE left == arg * TicksPerMs
<1>1. /\ pc = "enter" /\ UNCHANGED << want, due, arg, pollEnd, consumed, now, slip >>
      /\ UNCHANGED << buf, kernel, line, heard, errors >>
  BY DEF Enter, clockVars, lineVars
<1>2. /\ now \in Nat /\ arg \in Nat /\ TicksPerMs \in Nat \ {0} /\ Earliest \in Int
      /\ due \in Nat /\ slip \in Nat /\ IntMax \in Nat /\ IntMax * TicksPerMs \in Nat
  BY StreamTypes
<1>3. left \in Nat
  BY CallTypes DEF IInv, CallIInv
<1>4. now + left <= due + slip
  BY <1>1 DEF IInv, CallIInv, CallInTime
<1>5. TimeoutsFit => now + left >= Earliest + TicksPerMs
  BY <1>1 DEF IInv, CallIInv, CallNotEarly
<1>6. /\ Wrap(now + left) \in -HalfClock..(HalfClock - 1) /\ Wrap(now + left) <= now + left
      /\ now + left < HalfClock => Wrap(now + left) = now + left
      /\ HalfClock \in Nat
  <2>1. now + left \in Nat
    BY <1>2, <1>3
  <2> HIDE DEF left
  <2> QED BY <2>1, WrapBelow, LinkAssumption
<1>7. CASE arg <= 0
  <2>1. Return("timeout") /\ UNCHANGED deadline
    BY <1>7 DEF Enter
  <2>2. left = 0
    BY <1>2, <1>7
  <2> HIDE DEF left
  <2>3. TimeoutsFit => now > Earliest
    BY <1>2, <1>5, <2>2
  <2>4. consumed' \in Seq([bytes : Seq(Byte), fate : Fates])
    BY <1>1 DEF IInv, CallIInv, CallTypeOK, Fates
  <2>5. pc # "idle" /\ "timeout" \in Hows /\ pc' = "idle"
    BY <1>1, <2>1 DEF Hows, Return
  <2>6. CallIInv'
    BY <1>1, <2>1, <2>3, <2>4, <2>5, ReturnKeepsIInv DEF IInv
  <2>7. StreamTypeOK'
    BY <1>1, <2>1 DEF IInv, StreamTypeOK
  <2> QED BY <1>1, <2>5, <2>6, <2>7, OutsideKeepsTime, SameBytes DEF IInv
<1>8. CASE ~(arg <= 0)
  <2>1. deadline' = Wrap(now + left) /\ pc' = "parse" /\ UNCHANGED ret
    BY <1>8 DEF Enter, GoTo
  <2>2. CallIInv'
    <3>1. CallTypeOK'
      BY <1>1, <2>1 DEF IInv, CallIInv, CallTypeOK
    <3>2. CallInTime'
      BY <1>1, <2>1 DEF IInv, CallIInv, CallInTime, DeadlineKept
    <3>3. TimeoutsFit => CallNotEarly'
      BY <1>1, <2>1 DEF IInv, CallIInv, CallNotEarly, TimeoutIsNotEarly
    <3> QED BY <3>1, <3>2, <3>3 DEF CallIInv
  <2>3. StreamTypeOK'
    <3> HIDE DEF left
    <3> QED BY <1>1, <1>6, <2>1 DEF IInv, StreamTypeOK
  <2>4. TimeIInv'
    <3> DEFINE long == IntMax * TicksPerMs
    <3>1. ASSUME TimeoutsFit
          PROVE  left <= long /\ now + left < HalfClock
      <4>1. arg <= IntMax
        BY <1>1, <3>1 DEF IInv, CallIInv, CallNotEarly
      <4>2. left <= long
        BY <1>2, <4>1, TicksMonotone
      <4>3. now <= MaxNow /\ MaxNow \in Nat /\ MaxNow + long < HalfClock
        BY <3>1, LinkAssumption DEF IInv, CallIInv, CallTypeOK, TimeoutsFit
      <4> HIDE DEF left, long
      <4> QED BY <1>2, <1>3, <1>6, <4>2, <4>3 DEF long
    <3> HIDE DEF left
    <3>2. deadline' <= due' + slip'
      <4>1. deadline' \in Int
        BY <1>6, <2>1
      <4> QED BY <1>1, <1>2, <1>3, <1>4, <1>6, <2>1, <4>1
    <3>3. ASSUME TimeoutsFit
          PROVE  deadline' >= Earliest' + TicksPerMs /\ deadline' <= now' + long
      <4>1. deadline' = now + left
        BY <1>6, <2>1, <3>1, <3>3
      <4>2. Earliest' = Earliest
        BY <1>1, SameCall
      <4>3. long \in Nat
        BY <1>2
      <4>4. left <= long /\ now + left >= Earliest + TicksPerMs
        BY <1>5, <3>1, <3>3
      <4> HIDE DEF long
      <4>5. now + left <= now + long
        BY <1>2, <1>3, <4>3, <4>4
      <4> QED BY <1>1, <4>1, <4>2, <4>4, <4>5
    <3> QED BY <3>2, <3>3 DEF TimeIInv
  <2> QED BY <1>1, <2>1, <2>2, <2>3, <2>4, SameBytes DEF IInv
<1> QED BY <1>7, <1>8

(* The parser had a frame: it is the next of the stream, whatever comes. *)
LEMMA HasFrameKeepsIInv ==
  ASSUME IInv, ParserHasFrame
  PROVE  IInv'
<1> DEFINE f == NextFrame(buf).frame
           rest == NextFrame(buf).rest
<1>1. /\ pc = "parse" /\ f # NoFrame /\ buf' = rest /\ Got(f)
      /\ UNCHANGED << want, due, arg, pollEnd, now, slip, deadline,
                      kernel, line, heard, errors >>
  BY DEF ParserHasFrame, clockVars, lineVars
<1>2. buf \in Seq(Byte) /\ f \in Seq(Byte) /\ rest \in Seq(Byte)
  BY NextFrameTyped DEF IInv, StreamTypeOK
<1>3. \A x \in Seq(Byte) : FramesIn(buf \o x) = << f >> \o FramesIn(rest \o x)
  BY <1>1, <1>2, FramesNext
<1> HIDE DEF f, rest
<1>4. CallIInv'
  BY <1>1, <1>2, GotKeepsIInv DEF IInv
<1>5. PICK fate \in Fates : Consume(f, fate) /\ pc' \in {"idle", "as"}
  BY <1>1 DEF Got, Fates, Return, GoTo
<1>6. StreamTypeOK'
  BY <1>1, <1>2 DEF IInv, StreamTypeOK
<1>7. BytesIInv'
  <2>1. PICK read \in Seq(Byte) :
          /\ heard = read \o kernel
          /\ \A x \in Seq(Byte) : FramesIn(read \o x) = Taken(consumed) \o FramesIn(buf \o x)
    BY DEF IInv, BytesIInv
  <2>2. consumed \in Seq(Items) /\ Taken(consumed) \in Seq(Seq(Byte))
    BY StreamTypes
  <2>3. Taken(consumed') = Taken(consumed) \o << f >>
    <3>1. Taken(consumed') = Append(Taken(consumed), f)
      BY <1>2, <1>5, <2>2, TakenAppends DEF Consume
    <3> QED BY <1>2, <2>2, <3>1, AppendIsConcat
  <2>4. ASSUME NEW x \in Seq(Byte)
        PROVE  FramesIn(read \o x) = Taken(consumed') \o FramesIn(buf' \o x)
    <3> DEFINE behind == FramesIn(rest \o x)
    <3>1. behind \in Seq(Seq(Byte)) /\ << f >> \in Seq(Seq(Byte))
      <4>1. rest \o x \in Seq(Byte)
        BY <1>2, ConcatProperties
      <4>2. behind \in Seq(Seq(Byte))
        BY <4>1, FramesTyped
      <4>3. << f >> \in Seq(Seq(Byte))
        BY <1>2
      <4> QED BY <4>2, <4>3
    <3> HIDE DEF behind
    <3>2. Taken(consumed) \o (<< f >> \o behind) = (Taken(consumed) \o << f >>) \o behind
      <4> DEFINE s == Taken(consumed)
                 t == << f >>
      <4>1. s \in Seq(Seq(Byte)) /\ t \in Seq(Seq(Byte)) /\ behind \in Seq(Seq(Byte))
        BY <2>2, <3>1
      <4> HIDE DEF s, t
      <4>2. s \o (t \o behind) = (s \o t) \o behind
        BY <4>1, Associate, Zenon
      <4> QED BY <4>2 DEF s, t
    <3> QED BY <1>1, <1>3, <2>1, <2>3, <3>2 DEF behind
  <2>5. heard' = read \o kernel' /\ pc' \notin {"recv", "poll"}
    BY <1>1, <1>5, <2>1
  <2> QED BY <2>4, <2>5 DEF BytesIInv
<1> QED BY <1>4, <1>5, <1>6, <1>7, OutsideKeepsTime DEF IInv

(* The parser had none: what it still holds is not one, and the call waits for
   the time that is left, or gives up. *)
LEMMA IsDryKeepsIInv ==
  ASSUME IInv, ParserIsDry
  PROVE  IInv'
<1> DEFINE rest == NextFrame(buf).rest
           n == LeftMs(deadline)
           left == n * TicksPerMs
           long == IntMax * TicksPerMs
<1>1. /\ pc = "parse" /\ NextFrame(buf).frame = NoFrame /\ buf' = rest
      /\ UNCHANGED << want, due, pollEnd, now, slip, deadline, consumed,
                      kernel, line, heard, errors >>
  BY DEF ParserIsDry, clockVars, lineVars, GotNone
<1>2. /\ buf \in Seq(Byte) /\ rest \in Seq(Byte) /\ FramesIn(rest) = << >>
      /\ \A x \in Seq(Byte) : FramesIn(buf \o x) = FramesIn(rest \o x)
  <2>1. buf \in Seq(Byte) /\ rest \in Seq(Byte) /\ << >> \in Seq(Byte)
    BY NextFrameTyped DEF IInv, StreamTypeOK
  <2> QED BY <1>1, <2>1, FramesNext
<1> HIDE DEF rest
<1>3. StreamTypeOK'
  BY <1>1, <1>2 DEF IInv, StreamTypeOK
<1>4. BytesIInv'
  <2>1. PICK read \in Seq(Byte) :
          /\ heard = read \o kernel
          /\ \A x \in Seq(Byte) : FramesIn(read \o x) = Taken(consumed) \o FramesIn(buf \o x)
    BY DEF IInv, BytesIInv
  <2>2. /\ heard' = read \o kernel'
        /\ \A x \in Seq(Byte) : FramesIn(read \o x) = Taken(consumed') \o FramesIn(buf' \o x)
    BY <1>1, <1>2, <2>1
  <2>3. FramesIn(buf') = << >>
    BY <1>1, <1>2
  <2> QED BY <2>2, <2>3 DEF BytesIInv
<1>5. /\ now \in Nat /\ deadline \in Int /\ Earliest \in Int /\ TicksPerMs \in Nat \ {0}
      /\ due \in Nat /\ slip \in Nat /\ IntMax \in Nat /\ long \in Nat
  BY StreamTypes
<1>6. /\ n \in Int /\ now + left <= deadline /\ deadline < now + left + TicksPerMs
      /\ RunOut(deadline) => deadline < now + TicksPerMs
      /\ ~RunOut(deadline) => n \in Nat
  BY <1>5, LeftMsBounds, RunOutBounds
<1>7. left \in Int /\ left = n * TicksPerMs
  BY <1>5, <1>6
<1>8. /\ deadline <= due + slip
      /\ TimeoutsFit => deadline >= Earliest + TicksPerMs /\ deadline <= now + long
  BY <1>1 DEF IInv, TimeIInv, InRecvFrame
<1> HIDE DEF n, left, long
<1>9. CASE RunOut(deadline)
  <2>1. Return("timeout") /\ UNCHANGED arg
    BY <1>9 DEF ParserIsDry, GotNone
  <2>2. TimeoutsFit => now > Earliest
    BY <1>5, <1>6, <1>8, <1>9
  <2>3. consumed' \in Seq([bytes : Seq(Byte), fate : Fates])
    BY <1>1 DEF IInv, CallIInv, CallTypeOK, Fates
  <2>4. pc # "idle" /\ "timeout" \in Hows /\ pc' = "idle"
    BY <1>1, <2>1 DEF Hows, Return
  <2>5. CallIInv'
    BY <1>1, <2>1, <2>2, <2>3, <2>4, ReturnKeepsIInv DEF IInv
  <2> QED BY <1>3, <1>4, <2>4, <2>5, OutsideKeepsTime DEF IInv
<1>10. CASE ~RunOut(deadline)
  <2>1. pc' = "recv" /\ arg' = n /\ UNCHANGED ret
    BY <1>10 DEF ParserIsDry, GoTo, n
  <2>2. n \in Nat /\ arg' * TicksPerMs = left
    BY <1>6, <1>7, <1>10, <2>1
  <2>3. CallTypeOK'
    BY <1>1, <2>1, <2>2 DEF IInv, CallIInv, CallTypeOK
  <2>4. CallInTime'
    <3>1. now + left <= due + slip
      BY <1>5, <1>6, <1>7, <1>8
    <3> QED BY <1>1, <2>1, <2>2, <3>1 DEF IInv, CallIInv, CallInTime, DeadlineKept
  <2>5. ASSUME TimeoutsFit PROVE CallNotEarly'
    <3>1. left <= long /\ now + left > Earliest
      BY <1>5, <1>6, <1>7, <1>8, <2>5
    <3>2. arg' <= IntMax
      BY <1>5, <1>6, <1>7, <2>1, <3>1, TicksBound DEF long
    <3>3. now' + arg' * TicksPerMs > Earliest'
      BY <1>1, <2>2, <3>1, SameCall
    <3> QED BY <1>1, <2>1, <2>5, <3>2, <3>3 DEF IInv, CallIInv, CallNotEarly, TimeoutIsNotEarly
  <2>6. CallIInv'
    BY <2>3, <2>4, <2>5 DEF CallIInv
  <2>7. TimeIInv'
    BY <1>1, SameTime DEF IInv, InRecvFrame
  <2> QED BY <1>3, <1>4, <2>6, <2>7 DEF IInv
<1> QED BY <1>9, <1>10

(* A tick brings the deadline nearer, and one the call does not wait for is
   lost to it. *)
LEMMA ClockKeepsIInv ==
  ASSUME IInv, Clock
  PROVE  IInv'
<1> DEFINE long == IntMax * TicksPerMs
<1>1. CallIInv' /\ UNCHANGED << deadline, buf, kernel, line, heard, errors >>
  BY TickKeepsIInv DEF IInv, Clock, streamVars, lineVars
<1>2. /\ UNCHANGED << pc, want, due, consumed >> /\ now' = now + 1
      /\ slip' = slip \/ slip' = slip + 1
  BY DEF Clock, Tick, callVars
<1>3. StreamTypeOK'
  BY <1>1 DEF IInv, StreamTypeOK
<1>4. TimeIInv'
  <2>1. now \in Nat /\ slip \in Nat /\ due \in Nat /\ deadline \in Int /\ long \in Nat
    BY StreamTypes
  <2> HIDE DEF long
  <2>2. InRecvFrame' => InRecvFrame
    BY <1>2 DEF InRecvFrame
  <2>3. deadline <= due + slip => deadline' <= due' + slip'
    BY <1>1, <1>2, <2>1
  <2>4. deadline <= now + long => deadline' <= now' + long
    BY <1>1, <1>2, <2>1
  <2>5. Earliest' = Earliest
    BY <1>2, SameCall
  <2> QED BY <1>1, <2>2, <2>3, <2>4, <2>5 DEF IInv, TimeIInv, long
<1>5. BytesIInv'
  BY <1>1, <1>2, SameBytes DEF IInv
<1> QED BY <1>1, <1>3, <1>4, <1>5 DEF IInv

-----------------------------------------------------------------------------
THEOREM NextIInv == IInv /\ [Next]_vars => IInv'
<1> SUFFICES ASSUME IInv, [Next]_vars PROVE IInv'
  OBVIOUS
<1> USE DEF streamVars, lineVars
<1>1. CASE Arrive
  BY <1>1, ArriveKeepsIInv
<1>2. CASE Invoke
  <2>1. PICK w \in Wants, ms \in Timeouts : Call(w, ms)
    BY <1>2 DEF Invoke
  <2>2. CallIInv'
    BY <2>1, CallKeepsIInv DEF IInv
  <2>3. pc' \in {"idle", "as", "enter"} /\ UNCHANGED << consumed, streamVars, lineVars >>
    BY <1>2, <2>1 DEF Invoke, Call, Return
  <2>4. StreamTypeOK'
    BY <2>3 DEF IInv, StreamTypeOK
  <2> QED BY <2>2, <2>3, <2>4, OutsideKeepsTime, SameBytes DEF IInv
<1>3. CASE TypedTurn
  <2>1. CallIInv'
    BY <1>3, TurnKeepsIInv DEF IInv, TypedTurn
  <2>2. pc' \in {"idle", "enter"} /\ UNCHANGED << consumed, streamVars, lineVars >>
    BY <1>3 DEF TypedTurn, AsTurn, Return, GoTo
  <2>3. StreamTypeOK'
    BY <2>2 DEF IInv, StreamTypeOK
  <2> QED BY <2>1, <2>2, <2>3, OutsideKeepsTime, SameBytes DEF IInv
<1>4. CASE Enter
  BY <1>4, EnterKeepsIInv
<1>5. CASE ParserHasFrame
  BY <1>5, HasFrameKeepsIInv
<1>6. CASE ParserIsDry
  BY <1>6, IsDryKeepsIInv
<1>7. CASE Poll
  <2>1. CallIInv'
    BY <1>7, PollKeepsIInv DEF IInv, Poll
  <2>2. /\ pc = "recv" /\ pc' = "poll"
        /\ UNCHANGED << consumed, want, due, now, slip, streamVars, lineVars >>
    BY <1>7 DEF Poll, PollStart, GoTo, clockVars
  <2>3. StreamTypeOK'
    BY <2>2 DEF IInv, StreamTypeOK
  <2>4. TimeIInv'
    BY <2>2, SameTime DEF IInv, InRecvFrame
  <2> QED BY <2>1, <2>2, <2>3, <2>4, SameBytes DEF IInv
<1>8. CASE ReadBytes
  BY <1>8, ReadKeepsIInv
<1>9. CASE PollTimesOut \/ RecvFails
  <2>1. CallIInv'
    BY <1>9, GotNoneKeepsIInv DEF IInv, PollTimesOut, RecvFails
  <2>2. pc' = "idle" /\ UNCHANGED << consumed, deadline, buf, kernel, line, heard >>
    BY <1>9 DEF PollTimesOut, RecvFails, GotNone, Return
  <2>3. errors' \in 0..MaxErrors
    BY <1>9, StreamAssumption DEF PollTimesOut, RecvFails, IInv, StreamTypeOK
  <2>4. StreamTypeOK'
    BY <2>2, <2>3 DEF IInv, StreamTypeOK
  <2> QED BY <2>1, <2>2, <2>4, OutsideKeepsTime, SameBytes DEF IInv
<1>10. CASE Clock
  BY <1>10, ClockKeepsIInv
<1>11. CASE UNCHANGED vars
  <2>1. UNCHANGED << clockVars, callVars, streamVars, lineVars >>
    BY <1>11 DEF vars
  <2>2. UNCHANGED << pc, want, due, now, slip, consumed >>
    BY <2>1 DEF clockVars, callVars
  <2>3. StreamTypeOK'
    BY <2>1 DEF IInv, StreamTypeOK
  <2>4. TimeIInv'
    BY <2>1, <2>2, SameCall DEF IInv, TimeIInv, InRecvFrame
  <2> QED BY <2>1, <2>2, <2>3, <2>4, CallStutterKeepsIInv, SameBytes DEF IInv
<1> QED BY <1>1, <1>2, <1>3, <1>4, <1>5, <1>6, <1>7, <1>8, <1>9, <1>10, <1>11 DEF Next

THEOREM Inductive == Spec => []IInv
BY InitIInv, NextIInv, PTL DEF Spec

-----------------------------------------------------------------------------
(* Every variable keeps its type; the deadline stays in its width. *)
THEOREM TypeCorrect == Spec => []TypeOK
<1>1. IInv => TypeOK
  BY DEF IInv, CallIInv, StreamTypeOK, TypeOK
<1> QED BY <1>1, Inductive, PTL

(* A call of FrameLink is over by the time it was given, plus the time its
   thread did not run: whatever the line brings (noise, bytes that dribble in,
   frames of other types), and also when now + timeout wraps. *)
THEOREM DeadlineIsKept == Spec => []DeadlineKept
<1>1. IInv => DeadlineKept
  BY DEF IInv, CallIInv, CallInTime
<1> QED BY <1>1, Inductive, PTL

(* A call that times out has waited for the time it was given, but for the
   truncations to milliseconds, when no timeout takes a count past its end. *)
THEOREM TimesOutWhenDue == Spec => [](TimeoutsFit => TimeoutIsNotEarly)
<1>1. IInv => (TimeoutsFit => TimeoutIsNotEarly)
  BY DEF IInv, CallIInv, CallNotEarly
<1> QED BY <1>1, Inductive, PTL

(* The frames that calls of recv_frame take are the first of the stream, in
   order and without a gap, wherever the reads cut it and whichever calls time
   out, fail or skip frames: what the parser holds outlives them. *)
THEOREM NothingIsLost == Spec => []NothingLostBetweenCalls
<1>1. ASSUME IInv PROVE NothingLostBetweenCalls
  <2>1. PICK read \in Seq(Byte) :
          /\ heard = read \o kernel
          /\ \A x \in Seq(Byte) : FramesIn(read \o x) = Taken(consumed) \o FramesIn(buf \o x)
    BY <1>1 DEF IInv, BytesIInv
  <2>2. buf \in Seq(Byte) /\ kernel \in Seq(Byte) /\ Taken(consumed) \in Seq(Seq(Byte))
    BY <1>1, StreamTypes DEF IInv, StreamTypeOK
  <2> DEFINE s == Taken(consumed)
             t == FramesIn(buf \o kernel)
  <2>3. s \in Seq(Seq(Byte)) /\ t \in Seq(Seq(Byte))
    BY <2>2, FramesTyped, ConcatProperties
  <2>4. FramesIn(heard) = s \o t
    BY <2>1, <2>2
  <2>5. Handed = s
    BY DEF Handed, Taken
  <2> HIDE DEF s, t
  <2>6. Len(s) <= Len(s \o t)
    <3>1. Len(s \o t) = Len(s) + Len(t) /\ Len(s) \in Nat /\ Len(t) \in Nat
      BY <2>3, ConcatProperties, LenProperties
    <3> QED BY <3>1
  <2>7. SubSeq(s \o t, 1, Len(s)) = s
    BY <2>3, ConcatPrefix
  <2> QED BY <2>4, <2>5, <2>6, <2>7 DEF NothingLostBetweenCalls, Prefix
<1> QED BY <1>1, Inductive, PTL

(* recv_frame polls the channel only when every frame of the bytes read so far
   has been handed out. *)
THEOREM WaitsForNewBytes == Spec => []NeverWaitsOnAFrame
<1>1. ASSUME IInv PROVE NeverWaitsOnAFrame
  <2> SUFFICES ASSUME pc = "poll"
               PROVE  Handed = FramesIn(SubSeq(heard, 1, Len(heard) - Len(kernel)))
    BY DEF NeverWaitsOnAFrame
  <2>1. PICK read \in Seq(Byte) :
          /\ heard = read \o kernel
          /\ \A x \in Seq(Byte) : FramesIn(read \o x) = Taken(consumed) \o FramesIn(buf \o x)
    BY <1>1 DEF IInv, BytesIInv
  <2>2. buf \in Seq(Byte) /\ kernel \in Seq(Byte) /\ Taken(consumed) \in Seq(Seq(Byte))
    BY <1>1, StreamTypes DEF IInv, StreamTypeOK
  <2>3. /\ << >> \in Seq(Byte) /\ read \o << >> = read /\ buf \o << >> = buf
        /\ Taken(consumed) \o << >> = Taken(consumed)
    BY <2>2, ConcatEmptySeq
  <2>4. FramesIn(read) = Taken(consumed) \o FramesIn(buf)
    BY <2>1, <2>3
  <2>5. FramesIn(buf) = << >>
    BY <1>1 DEF IInv, BytesIInv
  <2>6. SubSeq(heard, 1, Len(heard) - Len(kernel)) = read
    <3>1. /\ Len(heard) = Len(read) + Len(kernel)
          /\ Len(read) \in Nat /\ Len(kernel) \in Nat
      BY <2>1, <2>2, ConcatProperties, LenProperties
    <3>2. Len(heard) - Len(kernel) = Len(read)
      BY <3>1
    <3> QED BY <2>1, <2>2, <3>2, ConcatPrefix
  <2> QED BY <2>3, <2>4, <2>5, <2>6 DEF Handed, Taken
<1> QED BY <1>1, Inductive, PTL

=============================================================================
