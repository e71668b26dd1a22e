---------------------------- MODULE LinkCallProofs ---------------------------
(***************************************************************************)
(* What StreamLinkProofs and DatagramLinkProofs share: lemmas about the    *)
(* clock's arithmetic and about the parts of a call that LinkCall defines. *)
(***************************************************************************)
EXTENDS LinkCall, ProtocolProofs

LEMMA DivMod ==
  ASSUME NEW a \in Int, NEW b \in Nat \ {0}
  PROVE  /\ a \div b \in Int /\ a % b \in 0..(b - 1)
         /\ a = b * (a \div b) + (a % b)
OBVIOUS

LEMMA ModBelow ==
  ASSUME NEW a \in Nat, NEW b \in Nat \ {0}
  PROVE  a % b <= a
<1> DEFINE q == a \div b
<1> DEFINE r == a % b
<1>1. q \in Int /\ r \in 0..(b - 1) /\ a = b * q + r
  BY DivMod
<1> HIDE DEF q, r
<1>2. CASE q >= 0
  <2>1. b * q >= 0
    BY <1>1, <1>2
  <2> QED BY <1>1, <2>1 DEF r
<1>3. CASE q < 0
  <2>1. b * q <= -b
    BY <1>1, <1>3
  <2> QED BY <1>1, <2>1
<1> QED BY <1>1, <1>2, <1>3

(* A count that wraps is never more than the count, and is the count while that
   fits. *)
LEMMA WrapBelow ==
  ASSUME NEW x \in Nat
  PROVE  /\ Wrap(x) \in -HalfClock..(HalfClock - 1) /\ Wrap(x) <= x
         /\ x < HalfClock => Wrap(x) = x
<1>1. /\ HalfClock \in Nat /\ HalfClock > 0
      /\ 2 * HalfClock \in Nat \ {0} /\ x + HalfClock \in Nat
  BY LinkAssumption
<1>2. (x + HalfClock) % (2 * HalfClock) \in 0..(2 * HalfClock - 1)
  BY <1>1, DivMod
<1>3. (x + HalfClock) % (2 * HalfClock) <= x + HalfClock
  BY <1>1, ModBelow
<1>4. x < HalfClock => (x + HalfClock) % (2 * HalfClock) = x + HalfClock
  BY <1>1
<1> QED BY <1>1, <1>2, <1>3, <1>4 DEF Wrap

(* Truncation to milliseconds takes less than one. *)
LEMMA LeftMsBounds ==
  ASSUME NEW until \in Int, now \in Nat
  PROVE  /\ LeftMs(until) \in Int
         /\ now + LeftMs(until) * TicksPerMs <= until
         /\ until < now + LeftMs(until) * TicksPerMs + TicksPerMs
<1> DEFINE d == until - now
<1>1. d \in Int /\ TicksPerMs \in Nat \ {0}
  BY LinkAssumption
<1>2. d \div TicksPerMs \in Int /\ (d \div TicksPerMs) * TicksPerMs <= d
      /\ d < (d \div TicksPerMs) * TicksPerMs + TicksPerMs
  BY <1>1, DivMod
<1> QED BY <1>1, <1>2 DEF LeftMs

LEMMA TicksMonotone ==
  ASSUME NEW x \in Nat, NEW y \in Nat, x <= y
  PROVE  x * TicksPerMs \in Nat /\ y * TicksPerMs \in Nat
         /\ x * TicksPerMs <= y * TicksPerMs
BY LinkAssumption

LEMMA TicksBound ==
  ASSUME NEW x \in Int, NEW y \in Nat, x * TicksPerMs <= y * TicksPerMs
  PROVE  x <= y
BY LinkAssumption

(* A loop that gives up does so less than a millisecond before its deadline; one
   that goes on has a millisecond or more. *)
LEMMA RunOutBounds ==
  ASSUME NEW until \in Int, now \in Nat
  PROVE  /\ RunOut(until) => until < now + TicksPerMs
         /\ ~RunOut(until) => LeftMs(until) \in Nat \ {0}
<1>1. TicksPerMs \in Nat \ {0}
  BY LinkAssumption
<1> DEFINE n == LeftMs(until)
<1>2. n \in Int /\ now + n * TicksPerMs <= until
      /\ until < now + n * TicksPerMs + TicksPerMs
  BY LeftMsBounds
<1> HIDE DEF n
<1>3. n <= 0 => n * TicksPerMs <= 0
  BY <1>1, <1>2
<1>4. RunOut(until) <=> now >= until \/ n <= 0
  BY DEF RunOut, n
<1>5. RunOut(until) => until < now + TicksPerMs
  BY <1>1, <1>2, <1>3, <1>4
<1>6. ~RunOut(until) => n \in Nat \ {0}
  BY <1>2, <1>4
<1> QED BY <1>5, <1>6 DEF n

-----------------------------------------------------------------------------
(* Neither the clock nor a timeout comes near the end of a count: no caller asks
   for more than the longest poll, and the clock can be that much further. *)
TimeoutsFit ==
  /\ \A ms \in Timeouts : ms <= IntMax
  /\ MaxNow + IntMax * TicksPerMs < HalfClock

(* No timeout of this call may end it before. *)
Earliest == due - (IF want = Raw THEN 1 ELSE 2) * TicksPerMs

(* Wherever the call is, what it still waits for ends by the time it was given,
   plus the ticks it lost. *)
CallInTime ==
  /\ DeadlineKept
  /\ pc \in {"enter", "recv"} => now + arg * TicksPerMs <= due + slip
  /\ pc = "poll" => pollEnd <= due + slip

(* And not early: each of the two truncations takes less than a millisecond. *)
CallNotEarly ==
  /\ TimeoutIsNotEarly
  /\ due < HalfClock /\ due <= now + IntMax * TicksPerMs
  /\ pc = "as" => want # Raw
  /\ pc \in {"enter", "recv"} => arg <= IntMax
  /\ pc = "enter" => now + arg * TicksPerMs >= Earliest + TicksPerMs
  /\ pc = "recv" => now + arg * TicksPerMs > Earliest
  /\ pc = "poll" => pollEnd > Earliest

CallIInv == CallTypeOK /\ CallInTime /\ (TimeoutsFit => CallNotEarly)

Fates == {"returned", "undecoded", "skipped", "malformed"}
Hows  == {"not", "frame", "timeout", "error", "undecoded", "malformed"}

LEMMA CallTypes ==
  ASSUME CallTypeOK
  PROVE  /\ now \in Nat /\ slip \in Nat /\ due \in Nat /\ arg \in Nat /\ pollEnd \in Nat
         /\ ret.at \in Nat /\ ret.how \in Hows /\ want \in Wants
         /\ Earliest \in Int
         /\ Earliest = due - TicksPerMs \/ Earliest = due - 2 * TicksPerMs
         /\ arg * TicksPerMs \in Nat /\ IntMax * TicksPerMs \in Nat
         /\ TicksPerMs \in Nat \ {0} /\ IntMax \in Nat
<1>1. TicksPerMs \in Nat \ {0} /\ IntMax \in Nat /\ MaxNow \in Nat /\ MaxSlip \in Nat
  BY LinkAssumption
<1>2. ret.at \in 0..MaxNow /\ ret.how \in Hows
  BY DEF CallTypeOK, Hows
<1> QED BY <1>1, <1>2, TicksMonotone DEF CallTypeOK, Earliest

THEOREM CallInitIInv == CallInit => CallIInv
<1> SUFFICES ASSUME CallInit PROVE CallIInv
  OBVIOUS
<1> USE LinkAssumption DEF CallInit, NotReturned
<1>1. CallTypeOK
  <2>1. consumed \in Seq([bytes : Seq(Byte), fate : Fates])
    OBVIOUS
  <2>2. ret \in [how : Hows, at : 0..MaxNow]
    BY DEF Hows
  <2> QED BY <2>1, <2>2 DEF CallTypeOK, Fates, Hows, Wants
<1>2. CallInTime
  BY DEF CallInTime, DeadlineKept
<1>3. TimeoutsFit => CallNotEarly
  BY CallTypes, <1>1 DEF CallNotEarly, TimeoutIsNotEarly, TimeoutsFit
<1> QED BY <1>1, <1>2, <1>3 DEF CallIInv

(* What the call came with stays; what it waits for may have been looked at. *)
LEMMA SameCall ==
  ASSUME UNCHANGED << want, due >>
  PROVE  Earliest' = Earliest
BY DEF Earliest

(* recv_frame_as<Pkt>, or recv_frame, is called. *)
LEMMA CallKeepsIInv ==
  ASSUME CallIInv, NEW w \in Wants, NEW ms \in Timeouts, Call(w, ms)
  PROVE  CallIInv'
<1> DEFINE wait == ms * TicksPerMs
<1>1. ms \in Nat /\ wait \in Nat /\ TicksPerMs \in Nat \ {0} /\ now \in Nat
  BY LinkAssumption, CallTypes, TicksMonotone DEF CallIInv
<1>2. /\ want' = w /\ due' = now + wait /\ slip' = 0 /\ arg' = ms
      /\ UNCHANGED << now, pollEnd, consumed >>
      /\ \/ w # Raw /\ ms = 0 /\ pc' = "idle" /\ ret' = [how |-> "timeout", at |-> now]
         \/ w = Raw /\ pc' = "enter" /\ ret' = NotReturned
         \/ w # Raw /\ pc' = "as" /\ ret' = NotReturned
  BY DEF Call, Return
<1>3. CallTypeOK'
  <2>1. ret' \in [how : Hows, at : 0..MaxNow]
    BY <1>2, LinkAssumption DEF CallIInv, CallTypeOK, Hows, NotReturned
  <2>2. slip' \in 0..MaxSlip /\ due' \in Nat /\ arg' \in Nat
    BY <1>1, <1>2, LinkAssumption
  <2> QED BY <1>2, <2>1, <2>2 DEF CallIInv, CallTypeOK, Hows
<1> HIDE DEF wait
<1>4. arg' * TicksPerMs = wait
  BY <1>2 DEF wait
<1>5. CallInTime'
  BY <1>1, <1>2, <1>4 DEF CallInTime, DeadlineKept, NotReturned
<1>6. ASSUME TimeoutsFit PROVE CallNotEarly'
  <2>1. ms <= IntMax /\ IntMax \in Nat /\ MaxNow + IntMax * TicksPerMs < HalfClock
    BY <1>6, LinkAssumption DEF TimeoutsFit
  <2>2. wait <= IntMax * TicksPerMs /\ IntMax * TicksPerMs \in Nat
    BY <1>1, <2>1, TicksMonotone DEF wait
  <2>3. now <= MaxNow /\ MaxNow \in Nat /\ HalfClock \in Nat
    BY LinkAssumption DEF CallIInv, CallTypeOK
  <2>4. due' < HalfClock /\ due' <= now' + IntMax * TicksPerMs /\ arg' <= IntMax
    BY <1>1, <1>2, <2>1, <2>2, <2>3
  <2>5. Earliest' = (IF w = Raw THEN due' - TicksPerMs ELSE due' - 2 * TicksPerMs)
    BY <1>1, <1>2 DEF Earliest
  <2>6. TimeoutIsNotEarly'
    <3>1. CASE w # Raw /\ ms = 0
      <4>1. wait = 0
        BY <1>1, <3>1 DEF wait
      <4>2. ret'.how = "timeout" => ret'.at = now
        BY <1>2, <3>1 DEF NotReturned
      <4> QED BY <1>1, <1>2, <3>1, <4>1, <4>2 DEF TimeoutIsNotEarly
    <3>2. CASE ~(w # Raw /\ ms = 0)
      BY <1>2, <3>2 DEF TimeoutIsNotEarly, NotReturned
    <3> QED BY <3>1, <3>2
  <2> QED BY <1>1, <1>2, <1>4, <2>4, <2>5, <2>6 DEF CallNotEarly
<1> QED BY <1>3, <1>5, <1>6 DEF CallIInv

(* The deadline of a typed call is what it was asked to be when that fits, and
   earlier when it wraps. *)
LEMMA TurnKeepsIInv ==
  ASSUME CallIInv, AsTurn
  PROVE  CallIInv'
<1> DEFINE n == LeftMs(Wrap(due))
<1> DEFINE left == n * TicksPerMs
<1>1. pc = "as" /\ UNCHANGED << want, due, pollEnd, consumed, now, slip >>
  BY DEF AsTurn, clockVars
<1>2. /\ TicksPerMs \in Nat \ {0} /\ now \in Nat /\ due \in Nat /\ slip \in Nat
      /\ IntMax \in Nat /\ IntMax * TicksPerMs \in Nat
      /\ Earliest \in Int
      /\ Earliest = due - TicksPerMs \/ Earliest = due - 2 * TicksPerMs
      /\ want # Raw => Earliest = due - 2 * TicksPerMs
  BY CallTypes DEF CallIInv, Earliest
<1>3. /\ Wrap(due) \in Int /\ Wrap(due) <= due
      /\ due < HalfClock => Wrap(due) = due
  BY <1>2, WrapBelow
<1>4. /\ n \in Int /\ now + left <= Wrap(due) /\ Wrap(due) < now + left + TicksPerMs
      /\ RunOut(Wrap(due)) => Wrap(due) < now + TicksPerMs
      /\ ~RunOut(Wrap(due)) => n \in Nat
  BY <1>2, <1>3, LeftMsBounds, RunOutBounds
<1>5. left \in Int /\ left = n * TicksPerMs
  BY <1>2, <1>4
<1>6. Earliest' = Earliest
  BY <1>1, SameCall
<1> HIDE DEF left, n
<1>7. CASE RunOut(Wrap(due))
  <2>1. pc' = "idle" /\ ret' = [how |-> "timeout", at |-> now] /\ UNCHANGED arg
    BY <1>7 DEF AsTurn, Return
  <2>2. CallTypeOK'
    <3>1. ret' \in [how : Hows, at : 0..MaxNow]
      BY <2>1 DEF CallIInv, CallTypeOK, Hows
    <3> QED BY <1>1, <2>1, <3>1 DEF CallIInv, CallTypeOK, Hows
  <2>3. CallInTime'
    BY <1>1, <1>2, <2>1 DEF CallIInv, CallInTime, DeadlineKept
  <2>4. ASSUME TimeoutsFit PROVE CallNotEarly'
    <3>1. due < HalfClock /\ due <= now + IntMax * TicksPerMs
      BY <2>4 DEF CallIInv, CallNotEarly
    <3>2. Earliest < now
      BY <1>2, <1>3, <1>4, <1>7, <3>1
    <3>3. TimeoutIsNotEarly'
      BY <1>1, <2>1, <3>2 DEF TimeoutIsNotEarly, Earliest
    <3> QED BY <1>1, <2>1, <3>1, <3>3 DEF CallNotEarly
  <2> QED BY <2>2, <2>3, <2>4 DEF CallIInv
<1>8. CASE ~RunOut(Wrap(due))
  <2>1. pc' = "enter" /\ arg' = n /\ UNCHANGED ret
    BY <1>8 DEF AsTurn, GoTo, n
  <2>2. arg' * TicksPerMs = left /\ arg' \in Nat
    BY <1>4, <1>5, <1>8, <2>1
  <2>3. CallTypeOK'
    BY <1>1, <2>1, <2>2 DEF CallIInv, CallTypeOK
  <2>4. CallInTime'
    BY <1>1, <1>2, <1>3, <1>4, <1>5, <2>1, <2>2 DEF CallIInv, CallInTime, DeadlineKept
  <2>5. ASSUME TimeoutsFit PROVE CallNotEarly'
    <3>1. due < HalfClock /\ due <= now + IntMax * TicksPerMs
      BY <2>5 DEF CallIInv, CallNotEarly
    <3>2. left <= IntMax * TicksPerMs
      BY <1>2, <1>3, <1>4, <1>5, <3>1
    <3>3. arg' <= IntMax
      BY <1>2, <1>4, <1>5, <2>1, <3>2, TicksBound
    <3>4. want # Raw
      BY <1>1, <2>5 DEF CallIInv, CallNotEarly
    <3>5. now + left >= Earliest + TicksPerMs
      BY <1>2, <1>3, <1>4, <1>5, <3>1, <3>4
    <3>6. TimeoutIsNotEarly'
      BY <1>1, <2>1, <2>5 DEF CallIInv, CallNotEarly, TimeoutIsNotEarly
    <3>7. now' + arg' * TicksPerMs >= Earliest' + TicksPerMs
      BY <1>1, <1>6, <2>2, <3>5
    <3> QED BY <1>1, <2>1, <3>1, <3>3, <3>6, <3>7 DEF CallNotEarly
  <2> QED BY <2>3, <2>4, <2>5 DEF CallIInv
<1> QED BY <1>7, <1>8

(* The call returns: with what it got, or for want of it. *)
LEMMA ReturnKeepsIInv ==
  ASSUME CallIInv, pc # "idle", NEW how \in Hows, Return(how),
         UNCHANGED << now, slip, want, due, arg, pollEnd >>,
         consumed' \in Seq([bytes : Seq(Byte), fate : Fates]),
         TimeoutsFit /\ how = "timeout" => now > Earliest
  PROVE  CallIInv'
<1>1. pc' = "idle" /\ ret' = [how |-> how, at |-> now]
  BY DEF Return
<1>2. CallTypeOK'
  <2>1. ret' \in [how : Hows, at : 0..MaxNow]
    BY <1>1 DEF CallIInv, CallTypeOK
  <2> QED BY <1>1, <2>1 DEF CallIInv, CallTypeOK, Hows, Fates
<1>3. CallInTime'
  BY <1>1 DEF CallIInv, CallInTime, DeadlineKept
<1>4. ASSUME TimeoutsFit PROVE CallNotEarly'
  <2>1. TimeoutIsNotEarly'
    BY <1>1, <1>4 DEF TimeoutIsNotEarly, Earliest
  <2> QED BY <1>1, <1>4, <2>1 DEF CallIInv, CallNotEarly
<1> QED BY <1>2, <1>3, <1>4 DEF CallIInv

(* recv_frame returned a frame. *)
LEMMA GotKeepsIInv ==
  ASSUME CallIInv, pc # "idle", NEW f \in Seq(Byte), Got(f),
         UNCHANGED << now, slip, want, due, arg, pollEnd >>
  PROVE  CallIInv'
<1>1. PICK fate \in Fates :
        /\ Consume(f, fate)
        /\ Return("frame") \/ Return("undecoded") \/ (want # Raw /\ GoTo("as"))
  BY DEF Got, Fates
<1>2. consumed' \in Seq([bytes : Seq(Byte), fate : Fates])
  <2>1. consumed \in Seq([bytes : Seq(Byte), fate : Fates])
    BY DEF CallIInv, CallTypeOK, Fates
  <2>2. [bytes |-> f, fate |-> fate] \in [bytes : Seq(Byte), fate : Fates]
    OBVIOUS
  <2> QED BY <1>1, <2>1, <2>2 DEF Consume
<1>3. CASE Return("frame") \/ Return("undecoded")
  BY <1>2, <1>3, ReturnKeepsIInv DEF Hows
<1>4. CASE want # Raw /\ GoTo("as")
  <2>1. pc' = "as" /\ UNCHANGED ret
    BY <1>4 DEF GoTo
  <2>2. CallTypeOK'
    BY <1>2, <2>1 DEF CallIInv, CallTypeOK, Fates
  <2>3. CallInTime'
    BY <2>1 DEF CallIInv, CallInTime, DeadlineKept
  <2>4. TimeoutsFit => CallNotEarly'
    BY <1>4, <2>1 DEF CallIInv, CallNotEarly, TimeoutIsNotEarly
  <2> QED BY <2>2, <2>3, <2>4 DEF CallIInv
<1> QED BY <1>1, <1>3, <1>4

(* poll waits for what is left, but never longer than it can. *)
LEMMA PollKeepsIInv ==
  ASSUME CallIInv, PollStart
  PROVE  CallIInv'
<1> DEFINE ms == PollMs(arg)
<1> DEFINE wait == ms * TicksPerMs
<1> DEFINE left == arg * TicksPerMs
<1>1. pc = "recv" /\ pc' = "poll" /\ pollEnd' = now + wait
      /\ UNCHANGED << want, due, arg, consumed, now, slip, ret >>
  BY DEF PollStart, GoTo, clockVars
<1>2. /\ now \in Nat /\ arg \in Nat /\ IntMax \in Nat /\ due \in Nat /\ slip \in Nat
      /\ Earliest \in Int
  BY CallTypes DEF CallIInv
<1>3. ms \in Nat /\ ms <= arg /\ (arg <= IntMax => ms = arg)
  BY <1>2 DEF PollMs
<1>4. wait \in Nat /\ left \in Nat /\ wait <= left
  BY <1>2, <1>3, TicksMonotone
<1>5. arg <= IntMax => wait = left
  BY <1>3
<1> HIDE DEF ms, wait
<1>6. CallTypeOK'
  BY <1>1, <1>2, <1>4 DEF CallIInv, CallTypeOK
<1>7. CallInTime'
  BY <1>1, <1>2, <1>4 DEF CallIInv, CallInTime, DeadlineKept
<1>8. ASSUME TimeoutsFit PROVE CallNotEarly'
  <2>1. arg <= IntMax /\ now + left > Earliest
    BY <1>1, <1>8 DEF CallIInv, CallNotEarly
  <2>2. pollEnd' > Earliest'
    BY <1>1, <1>5, <2>1, SameCall
  <2> QED BY <1>1, <1>8, <2>2 DEF CallIInv, CallNotEarly, TimeoutIsNotEarly
<1> QED BY <1>6, <1>7, <1>8 DEF CallIInv

(* A tick the call does not wait for is one it lost. *)
LEMMA TickKeepsIInv ==
  ASSUME CallIInv, NEW readable, Tick(readable)
  PROVE  CallIInv'
<1> DEFINE left == arg * TicksPerMs
<1> DEFINE long == IntMax * TicksPerMs
<1>1. /\ pc # "idle" /\ now < MaxNow /\ now' = now + 1
      /\ UNCHANGED << pc, want, due, arg, pollEnd, ret, consumed >>
      /\ \/ pc = "poll" /\ now < pollEnd /\ slip' = slip
         \/ slip < MaxSlip /\ slip' = slip + 1
  BY DEF Tick, Waiting, callVars
<1>2. /\ now \in Nat /\ slip \in Nat /\ due \in Nat /\ pollEnd \in Nat
      /\ left \in Nat /\ long \in Nat /\ TicksPerMs \in Nat /\ Earliest \in Int
  BY CallTypes DEF CallIInv
<1>3. MaxNow \in Nat /\ MaxSlip \in Nat
  BY LinkAssumption
<1>4. CallTypeOK'
  BY <1>1, <1>2, <1>3 DEF CallIInv, CallTypeOK
<1>5. arg' * TicksPerMs = left
  BY <1>1
<1> HIDE DEF left, long
<1>6. CallInTime'
  <2>1. /\ now <= due + slip
        /\ pc \in {"enter", "recv"} => now + left <= due + slip
        /\ pc = "poll" => pollEnd <= due + slip
    BY <1>1 DEF CallIInv, CallInTime, DeadlineKept, left
  <2>2. /\ now' <= due' + slip'
        /\ pc' \in {"enter", "recv"} => now' + left <= due' + slip'
        /\ pc' = "poll" => pollEnd' <= due' + slip'
    BY <1>1, <1>2, <2>1
  <2> QED BY <1>1, <1>5, <2>2 DEF CallInTime, DeadlineKept
<1>7. ASSUME TimeoutsFit PROVE CallNotEarly'
  <2>1. /\ due <= now + long
        /\ pc = "enter" => now + left >= Earliest + TicksPerMs
        /\ pc = "recv" => now + left > Earliest
    BY <1>7 DEF CallIInv, CallNotEarly, left, long
  <2>2. /\ due <= now' + long
        /\ pc = "enter" => now' + left >= Earliest + TicksPerMs
        /\ pc = "recv" => now' + left > Earliest
    BY <1>1, <1>2, <2>1
  <2> QED BY <1>1, <1>5, <1>7, <2>2, SameCall
          DEF CallIInv, CallNotEarly, TimeoutIsNotEarly, long
<1> QED BY <1>4, <1>6, <1>7 DEF CallIInv

LEMMA CallStutterKeepsIInv ==
  ASSUME CallIInv, UNCHANGED << clockVars, callVars >>
  PROVE  CallIInv'
<1> USE DEF clockVars, callVars
<1>1. CallTypeOK'
  BY DEF CallIInv, CallTypeOK
<1>2. CallInTime'
  BY DEF CallIInv, CallInTime, DeadlineKept
<1>3. TimeoutsFit => CallNotEarly'
  BY SameCall DEF CallIInv, CallNotEarly, TimeoutIsNotEarly
<1> QED BY <1>1, <1>2, <1>3 DEF CallIInv

(* recv_frame returns when its poll has run out, or its read fails. *)
LEMMA GotNoneKeepsIInv ==
  ASSUME CallIInv, pc = "poll", NEW how \in {"timeout", "error"}, GotNone(how),
         how = "timeout" => now >= pollEnd,
         UNCHANGED << want, due, arg, pollEnd, clockVars >>
  PROVE  CallIInv'
<1>1. Return(how) /\ UNCHANGED << consumed, now, slip >> /\ how \in Hows /\ pc # "idle"
  BY DEF GotNone, clockVars, Hows
<1>2. ASSUME TimeoutsFit, how = "timeout" PROVE now > Earliest
  <2>1. pollEnd > Earliest /\ now >= pollEnd
    BY <1>2 DEF CallIInv, CallNotEarly
  <2>2. now \in Nat /\ pollEnd \in Nat /\ Earliest \in Int
    BY CallTypes DEF CallIInv
  <2> QED BY <2>1, <2>2
<1>3. consumed' \in Seq([bytes : Seq(Byte), fate : Fates])
  BY <1>1 DEF CallIInv, CallTypeOK, Fates
<1> QED BY <1>1, <1>2, <1>3, ReturnKeepsIInv

-----------------------------------------------------------------------------
(* What was taken from the link, without its fate. *)
Taken(c) == [i \in 1..Len(c) |-> c[i].bytes]

Items == [bytes : Seq(Byte), fate : Fates]

LEMMA TakenAppends ==
  ASSUME NEW c \in Seq(Items), NEW f \in Seq(Byte), NEW fate \in Fates
  PROVE  LET d == Append(c, [bytes |-> f, fate |-> fate])
         IN  /\ d \in Seq(Items) /\ Len(d) = Len(c) + 1
             /\ \A i \in 1..Len(c) : d[i] = c[i]
             /\ d[Len(c) + 1] = [bytes |-> f, fate |-> fate]
             /\ Taken(c) \in Seq(Seq(Byte))
             /\ Taken(d) = Append(Taken(c), f)
<1> DEFINE item == [bytes |-> f, fate |-> fate]
           d == Append(c, item)
<1>1. PICK n \in Nat : n = Len(c)
  BY LenProperties
<1>2. item \in Items /\ item.bytes = f
  BY DEF Items
<1> HIDE DEF item
<1>3. /\ d \in Seq(Items) /\ Len(d) = n + 1
      /\ \A i \in 1..n : d[i] = c[i]
      /\ d[n + 1] = item
  BY <1>1, <1>2, AppendProperties
<1> HIDE DEF d
<1>4. Taken(c) \in Seq(Seq(Byte)) /\ Len(Taken(c)) = n /\ \A i \in 1..n : Taken(c)[i] = c[i].bytes
  <2>1. \A i \in 1..n : c[i] \in Items
    BY <1>1, ElementOfSeq
  <2>2. \A i \in 1..n : c[i].bytes \in Seq(Byte)
    BY <2>1 DEF Items
  <2> QED BY <1>1, <2>2 DEF Taken
<1>5. /\ Taken(d) \in Seq(Seq(Byte)) /\ Len(Taken(d)) = n + 1
      /\ \A i \in 1..(n + 1) : Taken(d)[i] = d[i].bytes
  <2>1. \A i \in 1..(n + 1) : d[i] \in Items
    BY <1>3, ElementOfSeq
  <2>2. \A i \in 1..(n + 1) : d[i].bytes \in Seq(Byte)
    BY <2>1 DEF Items
  <2> QED BY <1>3, <2>2 DEF Taken
<1>6. /\ Append(Taken(c), f) \in Seq(Seq(Byte)) /\ Len(Append(Taken(c), f)) = n + 1
      /\ \A i \in 1..n : Append(Taken(c), f)[i] = Taken(c)[i]
      /\ Append(Taken(c), f)[n + 1] = f
  BY <1>4, AppendProperties
<1>7. \A i \in 1..(n + 1) : Taken(d)[i] = Append(Taken(c), f)[i]
  <2> SUFFICES ASSUME NEW i \in 1..(n + 1) PROVE Taken(d)[i] = Append(Taken(c), f)[i]
    OBVIOUS
  <2>1. i \in 1..n \/ i = n + 1
    OBVIOUS
  <2> QED BY <1>2, <1>3, <1>4, <1>5, <1>6, <2>1
<1>8. Taken(d) = Append(Taken(c), f)
  BY <1>5, <1>6, <1>7, SeqEqual
<1> QED BY <1>1, <1>3, <1>4, <1>8 DEF d, item

(* The head of one sequence moved to the end of another, and a sequence that
   grows behind another. *)
LEMMA MoveHead ==
  ASSUME NEW S, NEW s \in Seq(S), NEW t \in Seq(S), t # << >>
  PROVE  Append(s, Head(t)) \o Tail(t) = s \o t
<1>1. Head(t) \in S /\ Tail(t) \in Seq(S) /\ t = << Head(t) >> \o Tail(t)
  <2>1. Head(t) \in S /\ Tail(t) \in Seq(S)
    BY HeadTailProperties
  <2>2. PICK n \in Nat : n = Len(t) /\ n # 0 /\ Len(Tail(t)) = n - 1
    BY HeadTailProperties, EmptySeq, LenProperties
  <2>3. << Head(t) >> \in Seq(S) /\ Len(<< Head(t) >>) = 1 /\ << Head(t) >>[1] = t[1]
    BY <2>1, HeadTailProperties
  <2>4. /\ << Head(t) >> \o Tail(t) \in Seq(S) /\ Len(<< Head(t) >> \o Tail(t)) = n
        /\ \A i \in 1..n : (<< Head(t) >> \o Tail(t))[i] =
                              IF i <= 1 THEN << Head(t) >>[i] ELSE Tail(t)[i - 1]
    BY <2>1, <2>2, <2>3, ConcatProperties
  <2>5. \A i \in 1..(n - 1) : Tail(t)[i] = t[i + 1]
    BY <2>2, HeadTailProperties
  <2>6. \A i \in 1..n : (<< Head(t) >> \o Tail(t))[i] = t[i]
    BY <2>2, <2>3, <2>4, <2>5
  <2> QED BY <2>1, <2>2, <2>4, <2>6, SeqEqual
<1>2. Append(s, Head(t)) = s \o << Head(t) >>
  BY <1>1, AppendIsConcat
<1>3. << Head(t) >> \in Seq(S)
  BY <1>1
<1> QED BY <1>1, <1>2, <1>3, ConcatAssociative

LEMMA GrowBehind ==
  ASSUME NEW S, NEW s \in Seq(S), NEW t \in Seq(S), NEW x \in S
  PROVE  s \o Append(t, x) = Append(s \o t, x)
<1>1. << x >> \in Seq(S) /\ s \o t \in Seq(S)
  BY ConcatProperties
<1>2. Append(t, x) = t \o << x >> /\ Append(s \o t, x) = (s \o t) \o << x >>
  BY <1>1, AppendIsConcat
<1> QED BY <1>1, <1>2, ConcatAssociative

LEMMA ConcatPrefix ==
  ASSUME NEW S, NEW s \in Seq(S), NEW t \in Seq(S)
  PROVE  SubSeq(s \o t, 1, Len(s)) = s
<1>1. Len(s) \in Nat /\ (Len(s) = 0 <=> s = << >>)
  BY LenProperties, EmptySeq
<1>2. CASE Len(s) = 0
  BY <1>1, <1>2, SubSeqEmpty
<1>3. CASE Len(s) # 0
  <2>1. 1 \in 1..Len(s) /\ Len(s) \in 1..Len(s)
    BY <1>1, <1>3
  <2> QED BY <2>1, SubSeqOfConcat1, SubSeqFull
<1> QED BY <1>2, <1>3

=============================================================================
