------------------------------ MODULE LinkCall ------------------------------
(***************************************************************************)
(* A receiving call on a frame link (include/ou/frame_link.hpp,            *)
(* src/frame_link.cpp): recv_frame, and recv_frame_as<Pkt> around it, with *)
(* the clock they look at.  What recv_frame does between being called and  *)
(* returning differs from link to link: StreamLink and DatagramLink extend *)
(* this module with it.                                                    *)
(*                                                                         *)
(* The clock counts ticks, TicksPerMs to a millisecond, because the code   *)
(* compares a nanosecond clock with deadlines and truncates what is left   *)
(* to whole milliseconds.  Time passes while the call waits in poll, and,  *)
(* up to MaxSlip ticks a call, at every other point: the thread may be     *)
(* preempted anywhere.  A count of ticks, and one of milliseconds, is a    *)
(* signed integer that wraps (64 bits in the code, 2 * HalfClock values    *)
(* here): that is what the overflow of now + timeout comes to in a build.  *)
(***************************************************************************)
EXTENDS Protocol

CONSTANTS
  PayloadSize,   \* packet type -> payload size
  Timeouts,      \* timeouts in milliseconds a caller uses
  TicksPerMs,
  HalfClock,     \* counts go from -HalfClock to HalfClock - 1
  IntMax,        \* the longest poll, milliseconds
  MaxNow,        \* bound: the last tick
  MaxSlip        \* bound: ticks of preemption in one call

ASSUME LinkAssumption ==
  /\ PayloadSize \in [{kTypeCmd, kTypeTele} -> 0..255]
  /\ TicksPerMs \in Nat \ {0} /\ HalfClock \in Nat \ {0} /\ IntMax \in Nat \ {0}
  /\ Timeouts \subseteq 0..(HalfClock - 1)
  /\ MaxNow \in 0..(HalfClock - 1) /\ MaxSlip \in Nat

Raw == 0                                \* a call of recv_frame itself
Wants == {Raw, kTypeCmd, kTypeTele}

VARIABLES
  now,
  pc,        \* "idle", or where the call is
  want,      \* Pkt of recv_frame_as, or Raw
  due,       \* when the timeout asked for is over; recv_frame_as' deadline is Wrap(due)
  arg,       \* the timeout argument going down, milliseconds
  pollEnd,   \* when the poll of recv_bytes runs out
  slip,      \* history: ticks of preemption in this call
  ret,       \* history: how and when the last call returned
  consumed   \* history: what was taken from the link, and its fate

clockVars == << now, slip >>
callVars  == << pc, want, due, arg, pollEnd, ret, consumed >>

NotReturned == [how |-> "not", at |-> 0]

CallInit ==
  /\ now = 0 /\ slip = 0
  /\ pc = "idle" /\ want = Raw /\ due = 0 /\ arg = 0 /\ pollEnd = 0
  /\ ret = NotReturned
  /\ consumed = << >>

(* What is left of a count in its width. *)
Wrap(x) == ((x + HalfClock) % (2 * HalfClock)) - HalfClock

(* ms_to_poll, of a timeout that is not negative. *)
PollMs(ms) == IF ms > IntMax THEN IntMax ELSE ms

(* duration_cast to milliseconds of the time left. *)
LeftMs(until) == (until - now) \div TicksPerMs

(* Both loops give up when nothing, or less than a millisecond, is left. *)
RunOut(until) == now >= until \/ LeftMs(until) <= 0

Return(how) == pc' = "idle" /\ ret' = [how |-> how, at |-> now]

GoTo(where) == pc' = where /\ UNCHANGED ret

Consume(bytes, fate) == consumed' = Append(consumed, [bytes |-> bytes, fate |-> fate])

-----------------------------------------------------------------------------
(* recv_frame_as<Pkt>, or recv_frame, is called; recv_frame_as returns at once
   when the timeout is not positive.  Bound: a call that waits can end by MaxNow
   (one whose deadline wraps into the past does not wait). *)
Call(w, ms) ==
  /\ pc = "idle"
  /\ ms > 0 => Wrap(now + ms * TicksPerMs) + 2 * MaxSlip <= MaxNow
  /\ want' = w
  /\ due' = now + ms * TicksPerMs
  /\ slip' = 0
  /\ arg' = ms
  /\ IF w # Raw /\ ms = 0
     THEN Return("timeout")
     ELSE pc' = (IF w = Raw THEN "enter" ELSE "as") /\ ret' = NotReturned
  /\ UNCHANGED << now, pollEnd, consumed >>

(* Mutant of AsTurn: every turn passes the time left, run out or not. *)
AsTurnUnchecked ==
  /\ pc = "as"
  /\ arg' = LeftMs(Wrap(due)) /\ GoTo("enter")
  /\ UNCHANGED << want, due, pollEnd, consumed, clockVars >>

(* Mutant of AsTurn: recv_frame is given the whole timeout again. *)
AsTurnWholeTimeout ==
  /\ pc = "as"
  /\ IF RunOut(Wrap(due)) THEN Return("timeout") ELSE GoTo("enter")
  /\ UNCHANGED << want, due, arg, pollEnd, consumed, clockVars >>

(* The top of recv_frame_as' loop. *)
AsTurn ==
  /\ pc = "as"
  /\ IF RunOut(Wrap(due))
     THEN Return("timeout") /\ UNCHANGED arg
     ELSE arg' = LeftMs(Wrap(due)) /\ GoTo("enter")
  /\ UNCHANGED << want, due, pollEnd, consumed, clockVars >>

(* recv_frame returned frame f.  A raw call hands it on; recv_frame_as decodes
   one of its type, and so returns whether or not that succeeds, and drops any
   other. *)
Matches(f) == Len(f) >= kFrameOverhead + 1 /\ f[5] = want

Decodes(f) == ValidateFrameHeader(f, want, PayloadSize[want])

Got(f) ==
  \/ /\ want = Raw \/ (Matches(f) /\ Decodes(f))
     /\ Consume(f, "returned") /\ Return("frame")
  \/ /\ want # Raw /\ Matches(f) /\ ~Decodes(f)
     /\ Consume(f, "undecoded") /\ Return("undecoded")
  \/ /\ want # Raw /\ ~Matches(f)
     /\ Consume(f, "skipped") /\ GoTo("as")

(* recv_frame returned nullopt: so does recv_frame_as. *)
GotNone(how) == Return(how) /\ UNCHANGED consumed

(* Mutant of PollStart: poll does not wait. *)
PollNoWait ==
  /\ pc = "recv"
  /\ pollEnd' = now
  /\ GoTo("poll")
  /\ UNCHANGED << want, due, arg, consumed, clockVars >>

(* recv_bytes: poll starts, with the milliseconds it was given. *)
PollStart ==
  /\ pc = "recv"
  /\ pollEnd' = now + PollMs(arg) * TicksPerMs
  /\ GoTo("poll")
  /\ UNCHANGED << want, due, arg, consumed, clockVars >>

-----------------------------------------------------------------------------
(* Time passes.  readable: the descriptor has something to read.  Between calls
   nobody looks at the clock, and it stands. *)
Waiting(readable) == pc = "poll" /\ now < pollEnd /\ ~readable

Tick(readable) ==
  /\ pc # "idle" /\ now < MaxNow
  /\ now' = now + 1
  /\ IF Waiting(readable)
     THEN UNCHANGED slip
     ELSE slip < MaxSlip /\ slip' = slip + 1
  /\ UNCHANGED callVars

-----------------------------------------------------------------------------
CallTypeOK ==
  /\ now \in 0..MaxNow /\ slip \in 0..MaxSlip
  /\ pc \in {"idle", "as", "enter", "parse", "recv", "poll"}
  /\ want \in Wants
  /\ due \in Nat /\ arg \in Nat /\ pollEnd \in Nat
  /\ ret \in [how : {"not", "frame", "timeout", "error", "undecoded", "malformed"},
              at  : 0..MaxNow]
  /\ consumed \in Seq([bytes : Seq(Byte),
                       fate  : {"returned", "undecoded", "skipped", "malformed"}])

(* The deadline is absolute: whatever the call meets (frames of other types,
   bytes that dribble in, noise), it is over by the time it was given, plus
   the time its thread was not running. *)
DeadlineKept ==
  /\ pc # "idle" => now <= due + slip
  /\ pc = "idle" => ret.at <= due + slip

(* include/ou/frame_link.hpp:28 - recv_frame's deadline is absolute and it
   returns nullopt on timeout: a call that timed out waited for the time it was
   given, less what the truncation to milliseconds takes (up to a millisecond in each
   of the two loops of recv_frame_as).  With timeouts the clock cannot add to now it
   is not so: the deadline wraps into the past. *)
TimeoutIsNotEarly ==
  ret.how = "timeout" =>
    ret.at > due - (IF want = Raw THEN 1 ELSE 2) * TicksPerMs

=============================================================================
