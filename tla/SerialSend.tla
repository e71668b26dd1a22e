----------------------------- MODULE SerialSend ------------------------------
(***************************************************************************)
(* Frames sent over a serial line: FrameLink::send_frame, which is         *)
(* SerialChannel::send, and the FrameParser at the other end.  write may   *)
(* take less than it is given (a signal while it blocks, a hang-up); send  *)
(* then reports false, with the first bytes of the frame on the line, and  *)
(* the caller sends the frame again, or another one.                       *)
(***************************************************************************)
EXTENDS Protocol

CONSTANTS
  Frames,      \* the frames that are sent
  MaxSends,    \* bound: calls of send
  MaxShort     \* bound: calls that write a part

(* What send_frame is given is what encodeCmd or encodeTele made. *)
ASSUME SendAssumption ==
  /\ Frames \subseteq Seq(Byte)
  /\ \A f \in Frames : IsDatagramFrame(f)
  /\ MaxSends \in Nat /\ MaxShort \in Nat

VARIABLES
  line,       \* bytes written that are on their way
  buf,        \* the other end's parser_
  got,        \* history: the frames the other end's next_frame returned
  sent,       \* history: the frames send returned true for
  written,    \* history: all the bytes write took
  whole,      \* history: where in written each frame of sent starts
  ambiguous,  \* history: a write stopped just in front of a byte AA
  sends,      \* history: calls of send
  shorts      \* history: calls that wrote a part

sendVars == << line, buf, got, sent, written, whole, ambiguous, sends, shorts >>

SendInit ==
  /\ line = << >> /\ buf = << >> /\ got = << >> /\ sent = << >>
  /\ written = << >> /\ whole = << >>
  /\ ambiguous = FALSE
  /\ sends = 0 /\ shorts = 0

-----------------------------------------------------------------------------
(* Mutant of Reported: true as soon as write does not fail. *)
ReportedIfAny(f, n) == n > 0

(* What send returns. *)
Reported(f, n) == n = Len(f)

(* write takes n bytes of the frame, none also when it fails. *)
Send(f, n) ==
  /\ sends < MaxSends /\ sends' = sends + 1
  /\ line' = line \o SubSeq(f, 1, n)
  /\ written' = written \o SubSeq(f, 1, n)
  /\ IF Reported(f, n)
     THEN sent' = Append(sent, f) /\ whole' = Append(whole, Len(written))
     ELSE UNCHANGED << sent, whole >>
  /\ IF n \in 1..(Len(f) - 1)
     THEN /\ shorts < MaxShort /\ shorts' = shorts + 1
          /\ ambiguous' = (ambiguous \/ f[n + 1] = kStx0)
     ELSE UNCHANGED << shorts, ambiguous >>
  /\ UNCHANGED << buf, got >>

-----------------------------------------------------------------------------
(* The other end feeds what has come to its parser, and takes its frames. *)
LineArrives ==
  /\ line # << >>
  /\ buf' = buf \o line
  /\ line' = << >>
  /\ UNCHANGED << got, sent, written, whole, ambiguous, sends, shorts >>

TakeFrame ==
  LET next == NextFrame(buf)
  IN  /\ next.frame # NoFrame
      /\ got' = Append(got, next.frame)
      /\ buf' = next.rest
      /\ UNCHANGED << line, sent, written, whole, ambiguous, sends, shorts >>

SendNext ==
  \/ \E f \in Frames : \E n \in 0..Len(f) : Send(f, n)
  \/ LineArrives
  \/ TakeFrame

SendSpec == SendInit /\ [][SendNext]_sendVars

-----------------------------------------------------------------------------
SendTypeOK ==
  /\ line \in Seq(Byte) /\ buf \in Seq(Byte) /\ written \in Seq(Byte)
  /\ got \in Seq(Seq(Byte)) /\ sent \in Seq(Frames)
  /\ whole \in Seq(Nat) /\ Len(whole) = Len(sent)
  /\ ambiguous \in BOOLEAN
  /\ sends \in 0..MaxSends /\ shorts \in 0..MaxShort
  /\ Len(sent) + shorts <= sends

(* The p-th byte that was written is one of a frame that was written whole. *)
InWhole(p) ==
  \E i \in 1..Len(sent) : whole[i] <= p /\ p < whole[i] + Len(sent[i])

(* What follows half a frame does not complete it to a frame: no byte of a half
   starts one. *)
HalvesAreRefused ==
  \A p \in 0..(Len(written) - 1) : ValidAt(written, p) => InWhole(p)

(* With the code's checksum half a frame, and what is sent after it, pass for a
   frame only if the write stopped in front of a byte AA, for which the start byte
   of the next frame is then taken. *)
HalvesLackAByteAA == ~ambiguous => HalvesAreRefused

(* The other end never gets a frame that send did not report as sent, none
   twice and none out of order, however often a frame was cut short and sent
   again. *)
OnlyReportedFramesArrive ==
  HalvesAreRefused =>
    /\ Len(got) <= Len(sent)
    /\ \A i \in 1..Len(got) : got[i] = sent[i]

(* Every byte has arrived, and the parser has returned what it can. *)
Quiet == line = << >> /\ NextFrame(buf).frame = NoFrame

(* A frame that was reported as sent and has not come out at the other end is
   held back by half a frame that was written before it: only after a short
   write, and only until as many bytes have come as that half announces (170 if
   the length byte was cut off and an AA took its place). *)
ReportedFramesArrive ==
  Quiet /\ HalvesAreRefused /\ Len(got) < Len(sent) =>
    LET rest == NextFrame(buf).rest
        next == sent[Len(got) + 1]
    IN  /\ shorts > 0
        /\ \E p \in 1..(Len(rest) - Len(next)) : SubSeq(rest, p + 1, p + Len(next)) = next
        /\ Len(rest) < TotalAt(rest, 0)

=============================================================================
