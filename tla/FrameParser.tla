---------------------------- MODULE FrameParser -----------------------------
(***************************************************************************)
(* ou::FrameParser (include/ou/proto.hpp, src/protocol.cpp): the stateful  *)
(* splitter of a byte stream into frames.  The object's one member is      *)
(* buf_; feed appends to it, reset clears it, and next_frame runs a loop   *)
(* that erases from its front until it can return.  One turn of that loop  *)
(* is one step here, an action per branch; the object is not shared, so no *)
(* other operation runs between two turns.                                 *)
(*                                                                         *)
(* fed and taken are history: the bytes fed since the last reset, and the  *)
(* frames returned, with the offset in fed they start at.                  *)
(***************************************************************************)
EXTENDS Protocol

CONSTANT Wires    \* the byte streams the other end may send

ASSUME WiresAssumption == Wires \subseteq Seq(Byte)

VARIABLES
  wire,    \* bytes the caller has not fed yet
  buf,     \* buf_
  pc,      \* "idle", "loop" inside next_frame, "some"/"none" once it returned
  fed,
  taken

vars == << wire, buf, pc, fed, taken >>

(* Offset in fed of the first byte of buf. *)
Cut == Len(fed) - Len(buf)

Init ==
  /\ wire \in Wires
  /\ buf = << >>
  /\ pc = "idle"
  /\ fed = << >>
  /\ taken = << >>

-----------------------------------------------------------------------------
(* Mutant of Feed: the new bytes go to the front of buf_. *)
FeedInFront(n) ==
  /\ pc # "loop"
  /\ buf'  = SubSeq(wire, 1, n) \o buf
  /\ fed'  = fed \o SubSeq(wire, 1, n)
  /\ wire' = SubSeq(wire, n + 1, Len(wire))
  /\ pc' = "idle"
  /\ UNCHANGED taken

(* feed: the caller hands over the next n bytes of the stream. *)
Feed(n) ==
  /\ pc # "loop"
  /\ buf'  = buf \o SubSeq(wire, 1, n)
  /\ fed'  = fed \o SubSeq(wire, 1, n)
  /\ wire' = SubSeq(wire, n + 1, Len(wire))
  /\ pc' = "idle"
  /\ UNCHANGED taken

(* Mutant of Reset: the half frame stays in buf_. *)
ResetKeepsBuf ==
  /\ pc # "loop"
  /\ fed' = << >>
  /\ taken' = << >>
  /\ pc' = "idle"
  /\ UNCHANGED << wire, buf >>

Reset ==
  /\ pc # "loop"
  /\ buf' = << >>
  /\ fed' = << >>
  /\ taken' = << >>
  /\ pc' = "idle"
  /\ UNCHANGED wire

CallNextFrame ==
  /\ pc # "loop"
  /\ pc' = "loop"
  /\ UNCHANGED << wire, buf, fed, taken >>

-----------------------------------------------------------------------------
(* next_frame *)

(* Where the search for the start bytes ends: at the first pair, or at the
   last byte when there is none. *)
ScanStopsAt(pos) ==
  /\ \A p \in 0..(pos - 1) : ~StxAt(buf, p)
  /\ pos + 1 < Len(buf) => StxAt(buf, pos)

(* buf_.erase(begin, begin + n) *)
Erase(n) == buf' = SubSeq(buf, n + 1, Len(buf))

Continue(n) == Erase(n) /\ UNCHANGED << wire, pc, fed, taken >>

ReturnNone(n) == Erase(n) /\ pc' = "none" /\ UNCHANGED << wire, fed, taken >>

(* Mutant of WholeFrame: another version is let through. *)
WholeFrameOfAnyVersion(pos) ==
  /\ Len(buf) - pos >= kFrameOverhead
  /\ Len(buf) - pos >= TotalAt(buf, pos)

WholeFrame(pos) ==
  /\ Len(buf) - pos >= kFrameOverhead
  /\ VerAt(buf, pos) = kProtocolVersion
  /\ Len(buf) - pos >= TotalAt(buf, pos)

(* Mutants of the branches below: the last byte dropped though it may be half
   a start pair; the half frame dropped with the noise; the noise kept with
   the half frame; a damaged frame dropped by its announced length; a damaged
   frame not dropped at all. *)
NoStxClears(pos) == pos + 1 >= Len(buf) /\ ReturnNone(Len(buf))

HalfHeaderClears(pos) ==
  /\ pos + 1 < Len(buf)
  /\ Len(buf) - pos < kFrameOverhead
  /\ ReturnNone(Len(buf))

HalfPayloadKeepsNoise(pos) ==
  /\ Len(buf) - pos >= kFrameOverhead
  /\ VerAt(buf, pos) = kProtocolVersion
  /\ Len(buf) - pos < TotalAt(buf, pos)
  /\ ReturnNone(0)

BadCrcSkipsFrame(pos) ==
  /\ WholeFrame(pos)
  /\ ~CrcOkAt(buf, pos)
  /\ Continue(pos + TotalAt(buf, pos))

BadCrcStays(pos) ==
  /\ WholeFrame(pos)
  /\ ~CrcOkAt(buf, pos)
  /\ Continue(pos)

(* Fewer bytes than the smallest frame: the loop is not entered. *)
TooShort ==
  /\ Len(buf) < kFrameOverhead
  /\ ReturnNone(0)

(* No start pair: keep the last byte if it may be half of one. *)
NoStx(pos) ==
  /\ pos + 1 >= Len(buf)
  /\ ReturnNone(IF buf[Len(buf)] = kStx0 THEN pos ELSE Len(buf))

HalfHeader(pos) ==
  /\ pos + 1 < Len(buf)
  /\ Len(buf) - pos < kFrameOverhead
  /\ ReturnNone(pos)

BadVersion(pos) ==
  /\ Len(buf) - pos >= kFrameOverhead
  /\ VerAt(buf, pos) # kProtocolVersion
  /\ Continue(pos + 1)

HalfPayload(pos) ==
  /\ Len(buf) - pos >= kFrameOverhead
  /\ VerAt(buf, pos) = kProtocolVersion
  /\ Len(buf) - pos < TotalAt(buf, pos)
  /\ ReturnNone(pos)

BadCrc(pos) ==
  /\ WholeFrame(pos)
  /\ ~CrcOkAt(buf, pos)
  /\ Continue(pos + 1)

GoodFrame(pos) ==
  /\ WholeFrame(pos)
  /\ CrcOkAt(buf, pos)
  /\ taken' = Append(taken, [at |-> Cut + pos, frame |-> FrameAt(buf, pos)])
  /\ Erase(pos + TotalAt(buf, pos))
  /\ pc' = "some"
  /\ UNCHANGED << wire, fed >>

LoopTurn ==
  /\ pc = "loop"
  /\ \/ TooShort
     \/ /\ Len(buf) >= kFrameOverhead
        /\ \E pos \in 0..(Len(buf) - 1) :
             /\ ScanStopsAt(pos)
             /\ \/ NoStx(pos)
                \/ HalfHeader(pos)
                \/ BadVersion(pos)
                \/ HalfPayload(pos)
                \/ BadCrc(pos)
                \/ GoodFrame(pos)

Next ==
  \/ \E n \in 1..Len(wire) : Feed(n)
  \/ Reset
  \/ CallNextFrame
  \/ LoopTurn

Spec == Init /\ [][Next]_vars

(* next_frame is straight sequential code: once called it keeps running. *)
FairSpec == Spec /\ WF_vars(LoopTurn)

-----------------------------------------------------------------------------
TypeOK ==
  /\ wire \in Seq(Byte)
  /\ buf \in Seq(Byte)
  /\ fed \in Seq(Byte)
  /\ pc \in {"idle", "loop", "some", "none"}
  /\ taken \in Seq([at : Nat, frame : Seq(Byte)])
  /\ Cut \in 0..Len(fed)

(* buf_ is always the unread end of the stream: however the erasures of the
   loop and the insertions of feed are interleaved, no byte of it is lost,
   doubled or out of place. *)
BufIsTail == buf = SubSeq(fed, Cut + 1, Len(fed))

(* End of a returned frame in fed. *)
EndOf(t) == t.at + Len(t.frame)

(* What next_frame returns is the bytes of a frame that really stands in the
   stream (start bytes, version, length and checksum right), behind the frame
   returned before it: no byte is part of two frames. *)
ReturnedFramesAreValid ==
  \A i \in 1..Len(taken) :
    /\ ValidAt(fed, taken[i].at)
    /\ taken[i].frame = FrameAt(fed, taken[i].at)
    /\ EndOf(taken[i]) <= Cut
    /\ i > 1 => EndOf(taken[i - 1]) <= taken[i].at

Covered(p) == \E i \in 1..Len(taken) : taken[i].at <= p /\ p < EndOf(taken[i])

(* next_frame never erases the start of a frame without returning it: an
   offset is left behind only inside a returned frame or once the bytes there
   cannot start one, however the stream was cut into feeds (the kept last AA,
   the kept half frame) and whatever failed before (one byte is dropped after
   a bad version or checksum, not the announced length). *)
NoFrameLost == \A p \in 0..(Cut - 1) : Covered(p) \/ RefutedAt(fed, p)

(* After nullopt the buffer holds less than one header, or the part of one
   frame that has arrived, starting at its start bytes: it does not grow with
   the noise on the line. *)
BacklogIsOneHalfFrame ==
  pc = "none" =>
    \/ Len(buf) < kFrameOverhead
    \/ ~RefutedAt(buf, 0) /\ Len(buf) < TotalAt(buf, 0)

(* What the stream holds behind the first n frames returned. *)
Unread(n) == SubSeq(fed, (IF n = 0 THEN 0 ELSE EndOf(taken[n])) + 1, Len(fed))

(* What a call of next_frame does is the function NextFrame of what has not been
   read: however many calls and turns resynchronised before, it returns the frame
   NextFrame finds, leaves what NextFrame leaves, and returns nothing only when
   NextFrame finds nothing.  The links use NextFrame for the parser. *)
CallIsNextFrame ==
  /\ pc = "none" => NextFrame(Unread(Len(taken))).frame = NoFrame
  /\ pc = "some" => NextFrame(Unread(Len(taken) - 1)) =
                      [frame |-> taken[Len(taken)].frame, rest |-> buf]

(* A caller that calls next_frame until nullopt gets the same frames however
   the stream was cut into feeds: those a single feed of all of it gives. *)
ChunksDoNotMatter ==
  pc = "none" => [i \in 1..Len(taken) |-> taken[i].frame] = FramesIn(fed)

(* A call of next_frame returns: every turn of its loop that does not return
   shortens the buffer, also the turns that resynchronise. *)
CallReturns == pc = "loop" ~> pc # "loop"

(* The abstract stream; the cursor is the number of bytes erased. *)
Stream == INSTANCE FrameStream WITH cursor <- Cut

(* The parser implements FrameStream. *)
ImplementsStream == Stream!Spec

=============================================================================
