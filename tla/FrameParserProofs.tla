------------------------- MODULE FrameParserProofs --------------------------
(***************************************************************************)
(* Theorems about FrameParser, for every set of streams and every checksum *)
(* function.                                                               *)
(***************************************************************************)
EXTENDS FrameParser, ProtocolProofs

-----------------------------------------------------------------------------
(* What the loop reads in buf is what stands in the stream behind Cut. *)
BufInv == TypeOK /\ BufIsTail

LEMMA BufAgrees ==
  ASSUME BufInv
  PROVE  /\ Agree(buf, fed, Cut, Len(buf))
         /\ Cut \in Nat /\ Len(buf) \in Nat /\ Len(fed) \in Nat
         /\ Cut + Len(buf) = Len(fed)
<1> USE DEF BufInv, TypeOK, BufIsTail
<1>1. /\ buf \in Seq(Byte) /\ fed \in Seq(Byte)
      /\ Len(buf) \in Nat /\ Len(fed) \in Nat /\ Cut \in 0..Len(fed)
      /\ Cut + Len(buf) = Len(fed)
  BY LenProperties DEF Cut
<1>2. \A i \in 1..Len(buf) : buf[i] = fed[Cut + i]
  <2>1. PICK c \in Nat : c = Cut
    BY <1>1
  <2>2. c + 1 \in Int /\ Len(fed) - (c + 1) + 1 = Len(buf)
    BY <1>1, <2>1
  <2>3. \A k \in (c + 1)..Len(fed) : fed[k] \in Byte
    BY <1>1, ElementOfSeq
  <2>4. \A i \in 1..Len(buf) : SubSeq(fed, c + 1, Len(fed))[i] = fed[c + 1 + i - 1]
    BY <1>1, <2>2, <2>3, SubSeqProperties
  <2>5. \A i \in 1..Len(buf) : c + 1 + i - 1 = c + i
    OBVIOUS
  <2> QED BY <2>1, <2>4, <2>5
<1> QED BY <1>1, <1>2 DEF Agree

(* Erasing from the front keeps buf a tail of what was fed. *)
LEMMA EraseKeepsTail ==
  ASSUME BufInv, NEW n \in 0..Len(buf), Erase(n), fed' = fed
  PROVE  /\ Len(buf') = Len(buf) - n
         /\ Cut' = Cut + n
         /\ buf' \in Seq(Byte)
         /\ BufIsTail'
<1>1. /\ Agree(buf, fed, Cut, Len(buf))
      /\ Cut \in Nat /\ Len(buf) \in Nat /\ Len(fed) \in Nat
      /\ Cut + Len(buf) = Len(fed)
  BY BufAgrees
<1>2. /\ n + 1 \in Nat \ {0} /\ Len(buf) \in Int /\ Len(buf) <= Len(buf)
      /\ Len(buf) - (n + 1) + 1 = Len(buf) - n
      /\ n <= Len(buf) /\ n \in Nat
  BY <1>1
<1>3. /\ buf' = SubSeq(fed, Cut + (n + 1), Cut + Len(buf))
      /\ buf' \in Seq(Byte)
  <2>1. \A i \in Nat \ {0}, j \in Int :
          j <= Len(buf) => /\ SubSeq(buf, i, j) = SubSeq(fed, Cut + i, Cut + j)
                           /\ SubSeq(buf, i, j) \in Seq(Byte)
    BY <1>1, AgreeOnSubSeqs
  <2> QED BY <2>1, <1>2 DEF Erase
<1>4. Len(buf') = Len(buf) - n
  <2>1. \A k \in (n + 1)..Len(buf) : buf[k] \in Byte
    BY <1>1, <1>2, ElementOfSeq DEF BufInv, TypeOK
  <2>2. PICK len \in Nat : len = Len(buf)
    BY <1>1
  <2>3. Len(buf') = IF n + 1 <= len THEN len - (n + 1) + 1 ELSE 0
    BY <2>1, <2>2, <1>2, SubSeqProperties DEF Erase
  <2> QED BY <2>2, <2>3
<1>5. Cut' = Cut + n
  BY <1>4, <1>1, <1>2 DEF Cut
<1>6. BufIsTail'
  <2>1. Cut + (n + 1) = (Cut + n) + 1
    BY <1>1, <1>2
  <2> QED BY <1>3, <1>5, <1>1, <2>1 DEF BufIsTail
<1> QED BY <1>3, <1>4, <1>5, <1>6

-----------------------------------------------------------------------------
(* What a turn of the loop does to the stream: it gives up offsets that are
   refuted, or returns the first frame that is not. *)
GivesUp(k) ==
  /\ Erase(k)
  /\ \A p \in Cut..(Cut + k - 1) : RefutedAt(fed, p)
  /\ pc' \in {"loop", "none"}
  /\ UNCHANGED << wire, fed, taken >>

Returns(k) ==
  /\ \A p \in Cut..(Cut + k - 1) : RefutedAt(fed, p)
  /\ ValidAt(fed, Cut + k)
  /\ k + TotalAt(fed, Cut + k) \in 0..Len(buf)
  /\ TotalAt(fed, Cut + k) \in kFrameOverhead..kMaxFrame
  /\ FrameAt(fed, Cut + k) \in Seq(Byte)
  /\ Len(FrameAt(fed, Cut + k)) = TotalAt(fed, Cut + k)
  /\ taken' = Append(taken, [at |-> Cut + k, frame |-> FrameAt(fed, Cut + k)])
  /\ Erase(k + TotalAt(fed, Cut + k))
  /\ pc' = "some"
  /\ UNCHANGED << wire, fed >>

(* The bytes the search for the start bytes passes over refute every offset
   it passes. *)
LEMMA ScanRefutes ==
  ASSUME BufInv, NEW pos \in 0..(Len(buf) - 1), ScanStopsAt(pos)
  PROVE  \A p \in Cut..(Cut + pos - 1) : RefutedAt(fed, p)
<1>1. /\ \A i \in 1..Len(buf) : buf[i] = fed[Cut + i]
      /\ Cut \in Nat /\ Len(buf) \in Nat /\ Len(fed) \in Nat
      /\ Cut + Len(buf) = Len(fed)
  BY BufAgrees DEF Agree
<1>2. SUFFICES ASSUME NEW p \in Cut..(Cut + pos - 1)
               PROVE  RefutedAt(fed, p)
  OBVIOUS
<1>3. PICK q \in 0..(pos - 1) : p = Cut + q
  BY <1>1
<1>4. /\ q + 1 \in 1..Len(buf) /\ q + 2 \in 1..Len(buf)
      /\ Cut + (q + 1) = p + 1 /\ Cut + (q + 2) = p + 2
      /\ p + 1 <= Len(fed) /\ p + 2 <= Len(fed)
  BY <1>1, <1>3
<1>5. buf[q + 1] = fed[p + 1] /\ buf[q + 2] = fed[p + 2]
  <2>1. buf[q + 1] = fed[Cut + (q + 1)] /\ buf[q + 2] = fed[Cut + (q + 2)]
    BY <1>1, <1>4
  <2> QED BY <2>1, <1>4, Zenon
<1>6. ~(buf[q + 1] = kStx0 /\ buf[q + 2] = kStx1)
  BY <1>3 DEF ScanStopsAt, StxAt
<1> QED BY <1>4, <1>5, <1>6 DEF RefutedAt

(* One offset more is given up when the search stops at a candidate that the
   bytes refute. *)
LEMMA OneMore ==
  ASSUME BufInv, NEW pos \in 0..(Len(buf) - 1), ScanStopsAt(pos),
         RefutedAt(fed, Cut + pos)
  PROVE  \A p \in Cut..(Cut + (pos + 1) - 1) : RefutedAt(fed, p)
<1>1. Cut \in Nat /\ Len(buf) \in Nat
  BY BufAgrees
<1>2. \A p \in Cut..(Cut + (pos + 1) - 1) : p \in Cut..(Cut + pos - 1) \/ p = Cut + pos
  BY <1>1
<1> QED BY <1>2, ScanRefutes

(* The candidate the search stops at, seen in the stream. *)
LEMMA CandidateAgrees ==
  ASSUME BufInv, NEW pos \in 0..(Len(buf) - 1), Len(buf) - pos >= kFrameOverhead
  PROVE  /\ TotalAt(buf, pos) \in kFrameOverhead..kMaxFrame
         /\ TotalAt(buf, pos) = TotalAt(fed, Cut + pos)
         /\ VerAt(buf, pos) = VerAt(fed, Cut + pos)
         /\ StxAt(buf, pos) <=> StxAt(fed, Cut + pos)
         /\ (Cut + pos) + 3 <= Len(fed)
         /\ Len(buf) - pos >= TotalAt(buf, pos) =>
              /\ CompleteAt(fed, Cut + pos)
              /\ CrcOkAt(buf, pos) <=> CrcOkAt(fed, Cut + pos)
              /\ FrameAt(buf, pos) = FrameAt(fed, Cut + pos)
              /\ FrameAt(buf, pos) \in Seq(Byte)
              /\ Len(FrameAt(buf, pos)) = TotalAt(buf, pos)
              /\ pos + TotalAt(buf, pos) \in 0..Len(buf)
<1>1. /\ Agree(buf, fed, Cut, Len(buf))
      /\ Cut \in Nat /\ Len(buf) \in Nat /\ Len(fed) \in Nat
      /\ Cut + Len(buf) = Len(fed)
  BY BufAgrees
<1>2. pos \in Nat /\ pos + kFrameOverhead <= Len(buf)
  BY <1>1 DEF kFrameOverhead
<1>3. /\ TotalAt(buf, pos) \in kFrameOverhead..kMaxFrame
      /\ TotalAt(buf, pos) = TotalAt(fed, Cut + pos)
      /\ VerAt(buf, pos) = VerAt(fed, Cut + pos)
      /\ StxAt(buf, pos) <=> StxAt(fed, Cut + pos)
      /\ pos + TotalAt(buf, pos) <= Len(buf) =>
           /\ CrcOkAt(buf, pos) <=> CrcOkAt(fed, Cut + pos)
           /\ FrameAt(buf, pos) = FrameAt(fed, Cut + pos)
           /\ FrameAt(buf, pos) \in Seq(Byte)
           /\ Len(FrameAt(buf, pos)) = TotalAt(buf, pos)
  BY <1>1, <1>2, AgreeOnFrame
<1>4. (Cut + pos) + 3 <= Len(fed) /\ (Cut + pos) + kFrameOverhead <= Len(fed)
  BY <1>1, <1>2 DEF kFrameOverhead
<1>5. PICK t \in 7..262 : t = TotalAt(buf, pos)
  BY <1>3 DEF kFrameOverhead, kMaxFrame
<1>6. ASSUME Len(buf) - pos >= t
      PROVE  /\ pos + t <= Len(buf)
             /\ pos + t \in 0..Len(buf)
             /\ (Cut + pos) + t <= Len(fed)
  BY <1>6, <1>1
<1>7. Len(buf) - pos >= TotalAt(buf, pos) => CompleteAt(fed, Cut + pos)
  BY <1>3, <1>4, <1>5, <1>6 DEF CompleteAt
<1> QED BY <1>3, <1>4, <1>5, <1>6, <1>7

(* Every turn of the loop is one of the two. *)
LEMMA TurnEffect ==
  ASSUME BufInv, LoopTurn
  PROVE  \E k \in 0..Len(buf) : GivesUp(k) \/ Returns(k)
<1>1. Cut \in Nat /\ Len(buf) \in Nat /\ Len(fed) \in Nat /\ Cut + Len(buf) = Len(fed)
  BY BufAgrees
<1>2. CASE TooShort
  <2>1. 0 \in 0..Len(buf) /\ \A p \in Cut..(Cut + 0 - 1) : RefutedAt(fed, p)
    BY <1>1
  <2>2. GivesUp(0)
    BY <2>1, <1>2 DEF GivesUp, TooShort, ReturnNone
  <2> QED BY <2>1, <2>2
<1>3. ASSUME NEW pos \in 0..(Len(buf) - 1), ScanStopsAt(pos),
             \/ NoStx(pos)
             \/ HalfHeader(pos)
             \/ BadVersion(pos)
             \/ HalfPayload(pos)
             \/ BadCrc(pos)
             \/ GoodFrame(pos)
      PROVE  \E k \in 0..Len(buf) : GivesUp(k) \/ Returns(k)
  <2>1. /\ pos \in 0..Len(buf) /\ pos + 1 \in 0..Len(buf) /\ Len(buf) \in 0..Len(buf)
        /\ pos \in Nat
    BY <1>1
  <2>2. \A p \in Cut..(Cut + pos - 1) : RefutedAt(fed, p)
    BY <1>3, ScanRefutes
  <2>3. CASE NoStx(pos)
    <3>1. Len(buf) = pos + 1
      BY <2>3, <1>1 DEF NoStx
    <3>2. CASE buf[Len(buf)] = kStx0
      <4>1. GivesUp(pos)
        BY <2>2, <2>3, <3>2 DEF NoStx, ReturnNone, GivesUp
      <4> QED BY <4>1, <2>1
    <3>3. CASE buf[Len(buf)] # kStx0
      <4>1. Len(buf) \in 1..Len(buf) /\ Cut + Len(buf) = (Cut + pos) + 1
        BY <1>1, <3>1
      <4>2. buf[Len(buf)] = fed[(Cut + pos) + 1] /\ (Cut + pos) + 1 <= Len(fed)
        <5>1. buf[Len(buf)] = fed[Cut + Len(buf)]
          BY <4>1, BufAgrees DEF Agree
        <5>2. (Cut + pos) + 1 <= Len(fed)
          BY <4>1, <1>1
        <5> QED BY <5>1, <5>2, <4>1, Zenon
      <4>3. RefutedAt(fed, Cut + pos)
        BY <4>2, <3>3 DEF RefutedAt
      <4>4. \A p \in Cut..(Cut + (pos + 1) - 1) : RefutedAt(fed, p)
        BY <1>3, <4>3, OneMore
      <4>5. Erase(pos + 1) /\ pc' = "none" /\ UNCHANGED << wire, fed, taken >>
        BY <2>3, <3>1, <3>3 DEF NoStx, ReturnNone
      <4>6. GivesUp(pos + 1)
        BY <4>4, <4>5 DEF GivesUp
      <4> QED BY <4>6, <2>1
    <3> QED BY <3>2, <3>3
  <2>4. CASE HalfHeader(pos)
    <3>1. GivesUp(pos)
      BY <2>2, <2>4 DEF HalfHeader, ReturnNone, GivesUp
    <3> QED BY <3>1, <2>1
  <2>5. CASE BadVersion(pos)
    <3>1. RefutedAt(fed, Cut + pos)
      BY <2>5, CandidateAgrees DEF BadVersion, RefutedAt
    <3>2. \A p \in Cut..(Cut + (pos + 1) - 1) : RefutedAt(fed, p)
      BY <1>3, <3>1, OneMore
    <3>3. pc' = "loop"
      BY <2>5 DEF BadVersion, Continue, LoopTurn
    <3>4. GivesUp(pos + 1)
      BY <2>5, <3>2, <3>3 DEF BadVersion, Continue, GivesUp
    <3> QED BY <3>4, <2>1
  <2>6. CASE HalfPayload(pos)
    <3>1. GivesUp(pos)
      BY <2>2, <2>6 DEF HalfPayload, ReturnNone, GivesUp
    <3> QED BY <3>1, <2>1
  <2>7. CASE BadCrc(pos)
    <3>1. RefutedAt(fed, Cut + pos)
      BY <2>7, CandidateAgrees DEF BadCrc, WholeFrame, RefutedAt
    <3>2. \A p \in Cut..(Cut + (pos + 1) - 1) : RefutedAt(fed, p)
      BY <1>3, <3>1, OneMore
    <3>3. pc' = "loop"
      BY <2>7 DEF BadCrc, Continue, LoopTurn
    <3>4. GivesUp(pos + 1)
      BY <2>7, <3>2, <3>3 DEF BadCrc, Continue, GivesUp
    <3> QED BY <3>4, <2>1
  <2>8. CASE GoodFrame(pos)
    <3>1. /\ Len(buf) - pos >= kFrameOverhead /\ Len(buf) - pos >= TotalAt(buf, pos)
          /\ VerAt(buf, pos) = kProtocolVersion /\ CrcOkAt(buf, pos)
      BY <2>8 DEF GoodFrame, WholeFrame
    <3>2. StxAt(buf, pos)
      <4>1. pos + 1 < Len(buf)
        BY <3>1, <1>1, <2>1 DEF kFrameOverhead
      <4> QED BY <4>1, <1>3 DEF ScanStopsAt
    <3>3. /\ TotalAt(buf, pos) \in kFrameOverhead..kMaxFrame
          /\ TotalAt(buf, pos) = TotalAt(fed, Cut + pos)
          /\ FrameAt(buf, pos) = FrameAt(fed, Cut + pos)
          /\ FrameAt(buf, pos) \in Seq(Byte)
          /\ Len(FrameAt(buf, pos)) = TotalAt(buf, pos)
          /\ pos + TotalAt(buf, pos) \in 0..Len(buf)
      BY <3>1, CandidateAgrees
    <3>4. ValidAt(fed, Cut + pos)
      BY <3>1, <3>2, CandidateAgrees DEF ValidAt
    <3>5. /\ taken' = Append(taken, [at |-> Cut + pos, frame |-> FrameAt(buf, pos)])
          /\ Erase(pos + TotalAt(buf, pos))
          /\ pc' = "some" /\ UNCHANGED << wire, fed >>
      BY <2>8 DEF GoodFrame
    <3>6. Returns(pos)
      BY <2>2, <3>3, <3>4, <3>5, Zenon DEF Returns
    <3> QED BY <3>6, <2>1
  <2> QED BY <1>3, <2>3, <2>4, <2>5, <2>6, <2>7, <2>8
<1> QED BY <1>2, <1>3 DEF LoopTurn

-----------------------------------------------------------------------------
(* The inductive invariant.  No part is inductive by itself: the frames and
   the refuted offsets are facts about the stream, the loop reads buf, and
   only BufIsTail ties the two together. *)
IInv == TypeOK /\ BufIsTail /\ ReturnedFramesAreValid /\ NoFrameLost

Record == [at : Nat, frame : Seq(Byte)]

LEMMA InitIInv == Init => IInv
<1> SUFFICES ASSUME Init PROVE IInv
  OBVIOUS
<1>1. /\ wire \in Seq(Byte) /\ buf = << >> /\ fed = << >> /\ taken = << >>
      /\ pc = "idle"
  BY WiresAssumption DEF Init
<1>2. Cut = 0 /\ Len(fed) = 0
  BY <1>1 DEF Cut
<1>3. TypeOK
  BY <1>1, <1>2, EmptySeq DEF TypeOK
<1>4. BufIsTail
  <2>1. SubSeq(fed, 0 + 1, 0) = << >>
    BY SubSeqEmpty
  <2> QED BY <1>1, <1>2, <2>1 DEF BufIsTail
<1>5. ReturnedFramesAreValid
  BY <1>1 DEF ReturnedFramesAreValid
<1>6. NoFrameLost
  BY <1>2 DEF NoFrameLost
<1> QED BY <1>3, <1>4, <1>5, <1>6 DEF IInv

LEMMA FeedIInv ==
  ASSUME IInv, NEW n \in 1..Len(wire), Feed(n)
  PROVE  IInv' /\ Cut' = Cut
<1> DEFINE more == SubSeq(wire, 1, n)
<1>1. /\ wire \in Seq(Byte) /\ buf \in Seq(Byte) /\ fed \in Seq(Byte)
      /\ Len(wire) \in Nat /\ n \in Nat
  BY LenProperties DEF IInv, TypeOK
<1>2. more \in Seq(Byte) /\ wire' \in Seq(Byte)
  <2>1. \A k \in 1..n : wire[k] \in Byte
    BY <1>1, ElementOfSeq
  <2>2. \A k \in (n + 1)..Len(wire) : wire[k] \in Byte
    BY <1>1, ElementOfSeq
  <2>3. n + 1 \in Int /\ Len(wire) \in Int /\ n \in Int /\ 1 \in Int
    BY <1>1
  <2> QED BY <2>1, <2>2, <2>3, SubSeqProperties DEF Feed
<1>3. buf' = buf \o more /\ fed' = fed \o more /\ taken' = taken /\ pc' = "idle"
  BY DEF Feed
<1> HIDE DEF more
<1>4. /\ buf' \in Seq(Byte) /\ Len(buf') = Len(buf) + Len(more)
      /\ fed' \in Seq(Byte) /\ Len(fed') = Len(fed) + Len(more)
      /\ Len(more) \in Nat
      /\ \A i \in 1..(Len(buf) + Len(more)) :
           buf'[i] = IF i <= Len(buf) THEN buf[i] ELSE more[i - Len(buf)]
      /\ \A i \in 1..(Len(fed) + Len(more)) :
           fed'[i] = IF i <= Len(fed) THEN fed[i] ELSE more[i - Len(fed)]
  BY <1>1, <1>2, <1>3, ConcatProperties, LenProperties
<1>5. /\ \A i \in 1..Len(buf) : buf[i] = fed[Cut + i]
      /\ Cut \in Nat /\ Len(buf) \in Nat /\ Len(fed) \in Nat
      /\ Cut + Len(buf) = Len(fed)
  BY BufAgrees DEF Agree, BufInv, IInv
<1>6. Cut' = Cut
  BY <1>4, <1>5 DEF Cut
<1>7. TypeOK'
  <2>1. Cut' \in 0..Len(fed')
    BY <1>4, <1>5, <1>6
  <2> QED BY <1>2, <1>3, <1>4, <2>1 DEF TypeOK, IInv
<1>8. BufIsTail'
  <2>1. PICK c \in Nat : c = Cut
    BY <1>5
  <2>2. PICK m \in Nat : m = Len(fed')
    BY <1>4, <1>5
  <2>3. \A k \in (c + 1)..m : fed'[k] \in Byte
    <3> SUFFICES ASSUME NEW k \in (c + 1)..m PROVE fed'[k] \in Byte
      OBVIOUS
    <3>1. k \in 1..Len(fed')
      BY <2>2
    <3> QED BY <3>1, <1>4, ElementOfSeq
  <2>4. Len(buf') = m - (c + 1) + 1 /\ c + 1 <= m + 1
    <3>1. PICK lb \in Nat, lf \in Nat, lm \in Nat :
            lb = Len(buf) /\ lf = Len(fed) /\ lm = Len(more)
      BY <1>4, <1>5
    <3>2. Len(buf') = lb + lm /\ m = lf + lm /\ c + lb = lf
      BY <3>1, <1>4, <1>5, <2>1, <2>2
    <3> QED BY <3>2
  <2>5. /\ SubSeq(fed', c + 1, m) \in Seq(Byte)
        /\ Len(SubSeq(fed', c + 1, m)) = IF c + 1 <= m THEN m - (c + 1) + 1 ELSE 0
        /\ \A i \in 1..(m - (c + 1) + 1) :
             SubSeq(fed', c + 1, m)[i] = fed'[c + 1 + i - 1]
    <3>1. c + 1 \in Int /\ m \in Int
      OBVIOUS
    <3> QED BY <2>3, <3>1, SubSeqProperties
  <2>6. Len(buf') = Len(SubSeq(fed', c + 1, m))
    BY <2>4, <2>5
  <2>7. ASSUME NEW i \in 1..Len(buf')
        PROVE  buf'[i] = SubSeq(fed', c + 1, m)[i]
    <3>0. /\ i \in 1..(m - (c + 1) + 1) /\ c + 1 + i - 1 = c + i
          /\ i \in 1..(Len(buf) + Len(more)) /\ c + i \in 1..(Len(fed) + Len(more))
      BY <2>4, <1>4, <1>5, <2>1
    <3>1. SubSeq(fed', c + 1, m)[i] = fed'[c + i]
      <4>1. SubSeq(fed', c + 1, m)[i] = fed'[c + 1 + i - 1]
        BY <2>5, <3>0
      <4> QED BY <4>1, <3>0
    <3>2. CASE i <= Len(buf)
      <4>1. c + i <= Len(fed) /\ i \in 1..Len(buf)
        BY <3>2, <1>5, <2>1, <3>0
      <4>2. buf'[i] = buf[i] /\ fed'[c + i] = fed[c + i]
        BY <3>2, <3>0, <4>1, <1>4
      <4>3. buf[i] = fed[c + i]
        BY <4>1, <1>5, <2>1
      <4> QED BY <3>1, <4>2, <4>3
    <3>3. CASE ~(i <= Len(buf))
      <4>1. ~(c + i <= Len(fed)) /\ (c + i) - Len(fed) = i - Len(buf)
        BY <3>3, <1>5, <2>1, <3>0
      <4>2. buf'[i] = more[i - Len(buf)] /\ fed'[c + i] = more[(c + i) - Len(fed)]
        BY <3>3, <3>0, <4>1, <1>4
      <4> QED BY <3>1, <4>1, <4>2
    <3> QED BY <3>2, <3>3
  <2>8. buf' = SubSeq(fed', c + 1, m)
    BY <1>4, <2>5, <2>6, <2>7, SeqEqual
  <2> QED BY <2>8, <2>1, <2>2, <1>6 DEF BufIsTail
<1>9. ReturnedFramesAreValid'
  <2> SUFFICES ASSUME NEW i \in 1..Len(taken)
               PROVE  /\ ValidAt(fed', taken[i].at)
                      /\ taken[i].frame = FrameAt(fed', taken[i].at)
                      /\ EndOf(taken[i]) <= Cut
                      /\ i > 1 => EndOf(taken[i - 1]) <= taken[i].at
    BY <1>3, <1>6 DEF ReturnedFramesAreValid, EndOf
  <2>1. /\ ValidAt(fed, taken[i].at)
        /\ taken[i].frame = FrameAt(fed, taken[i].at)
        /\ EndOf(taken[i]) <= Cut
        /\ i > 1 => EndOf(taken[i - 1]) <= taken[i].at
    BY DEF IInv, ReturnedFramesAreValid
  <2>2. taken[i].at \in Nat
    <3>1. taken \in Seq(Record)
      BY DEF IInv, TypeOK, Record
    <3>2. taken[i] \in Record
      BY <3>1, ElementOfSeq
    <3> QED BY <3>2 DEF Record
  <2> QED BY <2>1, <2>2, <1>1, <1>2, <1>3, Stable
<1>10. NoFrameLost'
  <2> SUFFICES ASSUME NEW p \in 0..(Cut - 1)
               PROVE  Covered(p) \/ RefutedAt(fed', p)
    BY <1>3, <1>6 DEF NoFrameLost, Covered, EndOf
  <2>1. Covered(p) \/ RefutedAt(fed, p)
    BY DEF IInv, NoFrameLost
  <2>2. p \in Nat
    BY <1>5
  <2> QED BY <2>1, <2>2, <1>1, <1>2, <1>3, Stable
<1> QED BY <1>6, <1>7, <1>8, <1>9, <1>10 DEF IInv

LEMMA ResetIInv ==
  ASSUME IInv, Reset
  PROVE  IInv' /\ Cut' = 0
<1>1. /\ buf' = << >> /\ fed' = << >> /\ taken' = << >> /\ pc' = "idle"
      /\ wire' = wire /\ wire \in Seq(Byte)
  BY DEF Reset, IInv, TypeOK
<1>2. Cut' = 0 /\ Len(fed') = 0
  BY <1>1 DEF Cut
<1>3. TypeOK'
  BY <1>1, <1>2, EmptySeq DEF TypeOK
<1>4. BufIsTail'
  <2>1. SubSeq(fed', 0 + 1, 0) = << >>
    BY SubSeqEmpty
  <2> QED BY <1>1, <1>2, <2>1 DEF BufIsTail
<1>5. ReturnedFramesAreValid'
  BY <1>1 DEF ReturnedFramesAreValid
<1>6. NoFrameLost'
  BY <1>2 DEF NoFrameLost
<1> QED BY <1>2, <1>3, <1>4, <1>5, <1>6 DEF IInv

LEMMA GivesUpIInv ==
  ASSUME IInv, NEW k \in 0..Len(buf), GivesUp(k)
  PROVE  IInv' /\ Cut' = Cut + k
<1>1. Cut \in Nat /\ Len(buf) \in Nat /\ Len(fed) \in Nat /\ Cut + Len(buf) = Len(fed)
  BY BufAgrees DEF IInv, BufInv
<1>2. /\ Erase(k) /\ wire' = wire /\ fed' = fed /\ taken' = taken
      /\ pc' \in {"loop", "none"}
      /\ \A p \in Cut..(Cut + k - 1) : RefutedAt(fed, p)
  BY DEF GivesUp
<1>3. Cut' = Cut + k /\ buf' \in Seq(Byte) /\ BufIsTail'
  BY <1>2, EraseKeepsTail DEF IInv, BufInv
<1>4. TypeOK'
  <2>1. Cut' \in 0..Len(fed')
    BY <1>1, <1>2, <1>3
  <2> QED BY <1>2, <1>3, <2>1 DEF IInv, TypeOK
<1>5. ReturnedFramesAreValid'
  <2> SUFFICES ASSUME NEW i \in 1..Len(taken)
               PROVE  /\ ValidAt(fed, taken[i].at)
                      /\ taken[i].frame = FrameAt(fed, taken[i].at)
                      /\ EndOf(taken[i]) <= Cut'
                      /\ i > 1 => EndOf(taken[i - 1]) <= taken[i].at
    BY <1>2 DEF ReturnedFramesAreValid, EndOf
  <2>1. /\ ValidAt(fed, taken[i].at)
        /\ taken[i].frame = FrameAt(fed, taken[i].at)
        /\ EndOf(taken[i]) <= Cut
        /\ i > 1 => EndOf(taken[i - 1]) <= taken[i].at
    BY DEF IInv, ReturnedFramesAreValid
  <2>2. EndOf(taken[i]) \in Int
    <3>1. taken[i] \in Record
      <4>1. taken \in Seq(Record)
        BY DEF IInv, TypeOK, Record
      <4> QED BY <4>1, ElementOfSeq
    <3>2. taken[i].at \in Nat /\ Len(taken[i].frame) \in Nat
      BY <3>1, LenProperties DEF Record
    <3> QED BY <3>2 DEF EndOf
  <2>3. EndOf(taken[i]) <= Cut + k
    BY <2>1, <2>2, <1>1
  <2> QED BY <2>1, <2>3, <1>3
<1>6. NoFrameLost'
  <2> SUFFICES ASSUME NEW p \in 0..(Cut' - 1)
               PROVE  Covered(p)' \/ RefutedAt(fed', p)
    BY DEF NoFrameLost
  <2>1. p \in 0..(Cut - 1) \/ p \in Cut..(Cut + k - 1)
    BY <1>1, <1>3
  <2>2. Covered(p) \/ RefutedAt(fed, p)
    BY <2>1, <1>2 DEF IInv, NoFrameLost
  <2>3. Covered(p) => Covered(p)'
    BY <1>2 DEF Covered, EndOf
  <2> QED BY <2>2, <2>3, <1>2
<1> QED BY <1>3, <1>4, <1>5, <1>6 DEF IInv

LEMMA ReturnsIInv ==
  ASSUME IInv, NEW k \in 0..Len(buf), Returns(k)
  PROVE  IInv' /\ Cut' = (Cut + k) + TotalAt(fed, Cut + k)
<1>0. \A p \in Cut..(Cut + k - 1) : RefutedAt(fed, p)
  BY Zenon DEF Returns
<1> DEFINE at == Cut + k
           frame == FrameAt(fed, at)
           last == [at |-> at, frame |-> frame]
<1>1. Cut \in Nat /\ Len(buf) \in Nat /\ Len(fed) \in Nat /\ Cut + Len(buf) = Len(fed)
  BY BufAgrees DEF IInv, BufInv
<1>2. PICK t \in 7..262 : t = TotalAt(fed, at)
  BY DEF Returns, kFrameOverhead, kMaxFrame
<1>3. /\ k + t \in 0..Len(buf) /\ Erase(k + t)
      /\ wire' = wire /\ fed' = fed /\ pc' = "some"
      /\ taken' = Append(taken, last)
      /\ ValidAt(fed, at)
      /\ frame \in Seq(Byte) /\ Len(frame) = t
  <2>1. /\ k + TotalAt(fed, at) \in 0..Len(buf) /\ Erase(k + TotalAt(fed, at))
        /\ ValidAt(fed, at)
        /\ frame \in Seq(Byte) /\ Len(frame) = TotalAt(fed, at)
        /\ taken' = Append(taken, last)
    BY Zenon DEF Returns
  <2>2. wire' = wire /\ fed' = fed /\ pc' = "some"
    BY DEF Returns
  <2> QED BY <1>2, <2>1, <2>2, Zenon
<1>4. at \in Nat /\ last \in Record
  BY <1>1, <1>3 DEF Record
<1>5. last.at = at /\ last.frame = frame /\ EndOf(last) = at + t
  BY <1>3 DEF EndOf
<1> HIDE DEF frame, last
<1>6. Cut' = at + t /\ buf' \in Seq(Byte) /\ BufIsTail'
  <2>1. Cut' = Cut + (k + t) /\ buf' \in Seq(Byte) /\ BufIsTail'
    BY <1>3, EraseKeepsTail DEF IInv, BufInv
  <2>2. Cut + (k + t) = at + t
    BY <1>1
  <2> QED BY <2>1, <2>2
<1>7. /\ taken \in Seq(Record) /\ Len(taken) \in Nat
      /\ taken' \in Seq(Record)
      /\ Len(taken') = Len(taken) + 1
      /\ \A i \in 1..Len(taken) : taken'[i] = taken[i] /\ taken[i] \in Record
      /\ taken'[Len(taken) + 1] = last
  <2>1. taken \in Seq(Record)
    BY DEF IInv, TypeOK, Record
  <2> QED BY <2>1, <1>3, <1>4, AppendProperties, LenProperties, ElementOfSeq
<1>8. TypeOK'
  <2>1. Cut' \in 0..Len(fed')
    BY <1>1, <1>3, <1>6
  <2> QED BY <1>3, <1>6, <1>7, <2>1 DEF IInv, TypeOK, Record
<1>9. ASSUME NEW i \in 1..Len(taken)
      PROVE  /\ taken[i].at \in Nat /\ EndOf(taken[i]) \in Int
             /\ ValidAt(fed, taken[i].at)
             /\ taken[i].frame = FrameAt(fed, taken[i].at)
             /\ EndOf(taken[i]) <= Cut
             /\ i > 1 => EndOf(taken[i - 1]) <= taken[i].at
  <2>1. taken[i].at \in Nat /\ Len(taken[i].frame) \in Nat
    BY <1>7, LenProperties DEF Record
  <2>2. EndOf(taken[i]) \in Int
    BY <2>1 DEF EndOf
  <2> QED BY <2>1, <2>2 DEF IInv, ReturnedFramesAreValid
<1>10. ReturnedFramesAreValid'
  <2> SUFFICES ASSUME NEW i \in 1..(Len(taken) + 1)
               PROVE  /\ ValidAt(fed, taken'[i].at)
                      /\ taken'[i].frame = FrameAt(fed, taken'[i].at)
                      /\ EndOf(taken'[i]) <= at + t
                      /\ i > 1 => EndOf(taken'[i - 1]) <= taken'[i].at
    BY <1>3, <1>6, <1>7 DEF ReturnedFramesAreValid, EndOf
  <2>1. CASE i \in 1..Len(taken)
    <3>1. taken'[i] = taken[i] /\ (i > 1 => taken'[i - 1] = taken[i - 1])
      <4>1. i > 1 => i - 1 \in 1..Len(taken)
        BY <2>1, <1>7
      <4> QED BY <2>1, <4>1, <1>7
    <3>2. EndOf(taken[i]) <= at + t
      <4>1. PICK e \in Int : e = EndOf(taken[i]) /\ e <= Cut
        BY <2>1, <1>9
      <4>2. e <= at + t
        BY <4>1, <1>1
      <4> QED BY <4>1, <4>2
    <3> QED BY <3>1, <3>2, <2>1, <1>9
  <2>2. CASE i = Len(taken) + 1
    <3>1. taken'[i] = last
      BY <2>2, <1>7
    <3>2. i > 1 => EndOf(taken'[i - 1]) <= at
      <4> SUFFICES ASSUME i > 1 PROVE EndOf(taken'[i - 1]) <= at
        OBVIOUS
      <4>1. i - 1 \in 1..Len(taken)
        BY <2>2, <1>7
      <4>2. PICK e \in Int : e = EndOf(taken[i - 1]) /\ e <= Cut
        BY <4>1, <1>9
      <4>3. e <= at
        BY <4>2, <1>1
      <4>4. taken'[i - 1] = taken[i - 1]
        BY <4>1, <1>7
      <4> QED BY <4>2, <4>3, <4>4
    <3>3. at + t <= at + t
      BY <1>4
    <3> QED BY <3>1, <3>2, <3>3, <1>3, <1>5 DEF frame
  <2> QED BY <2>1, <2>2, <1>7
<1>11. NoFrameLost'
  <2> SUFFICES ASSUME NEW p \in 0..(Cut' - 1)
               PROVE  Covered(p)' \/ RefutedAt(fed', p)
    BY DEF NoFrameLost
  <2>0. p \in 0..(at + t - 1) /\ fed' = fed
    <3>1. Cut' - 1 = at + t - 1
      BY <1>6, <1>4
    <3> QED BY <3>1, <1>3
  <2>1. \/ p \in 0..(Cut - 1)
        \/ p \in Cut..(Cut + k - 1)
        \/ at <= p /\ p < at + t
    BY <2>0, <1>1, <1>4
  <2>2. CASE p \in 0..(Cut - 1)
    <3>1. Covered(p) \/ RefutedAt(fed, p)
      BY <2>2 DEF IInv, NoFrameLost
    <3>2. ASSUME Covered(p) PROVE Covered(p)'
      <4>1. PICK i \in 1..Len(taken) : taken[i].at <= p /\ p < EndOf(taken[i])
        BY <3>2 DEF Covered
      <4>2. i \in 1..Len(taken') /\ taken'[i] = taken[i]
        BY <1>7
      <4> QED BY <4>1, <4>2 DEF Covered, EndOf
    <3> QED BY <3>1, <3>2, <2>0
  <2>3. CASE p \in Cut..(Cut + k - 1)
    BY <2>3, <1>0, <2>0
  <2>4. CASE at <= p /\ p < at + t
    <3>1. Len(taken) + 1 \in 1..Len(taken')
      BY <1>7
    <3>2. taken'[Len(taken) + 1].at <= p /\ p < EndOf(taken'[Len(taken) + 1])
      BY <2>4, <1>5, <1>7
    <3> QED BY <3>1, <3>2 DEF Covered, EndOf
  <2> QED BY <2>1, <2>2, <2>3, <2>4
<1> QED BY <1>2, <1>6, <1>8, <1>10, <1>11 DEF IInv

-----------------------------------------------------------------------------
LEMMA NextIInv == IInv /\ [Next]_vars => IInv'
<1> SUFFICES ASSUME IInv, [Next]_vars PROVE IInv'
  OBVIOUS
<1>1. ASSUME NEW n \in 1..Len(wire), Feed(n) PROVE IInv'
  BY <1>1, FeedIInv
<1>2. CASE Reset
  BY <1>2, ResetIInv
<1>3. CASE CallNextFrame
  BY <1>3 DEF CallNextFrame, IInv, TypeOK, BufIsTail, ReturnedFramesAreValid,
     NoFrameLost, Covered, EndOf, Cut
<1>4. CASE LoopTurn
  <2>1. PICK k \in 0..Len(buf) : GivesUp(k) \/ Returns(k)
    BY <1>4, TurnEffect DEF IInv, BufInv
  <2> QED BY <2>1, GivesUpIInv, ReturnsIInv
<1>5. CASE UNCHANGED vars
  BY <1>5 DEF vars, IInv, TypeOK, BufIsTail, ReturnedFramesAreValid,
     NoFrameLost, Covered, EndOf, Cut
<1> QED BY <1>1, <1>2, <1>3, <1>4, <1>5 DEF Next

THEOREM Inductive == Spec => []IInv
<1> QED BY InitIInv, NextIInv, PTL DEF Spec

(* The type invariant of the parser. *)
THEOREM TypeCorrect == Spec => []TypeOK
<1>1. IInv => TypeOK
  BY DEF IInv
<1> QED BY <1>1, Inductive, PTL

(* No byte of the stream is lost, doubled or out of place in buf_. *)
THEOREM BufferIsTail == Spec => []BufIsTail
<1>1. IInv => BufIsTail
  BY DEF IInv
<1> QED BY <1>1, Inductive, PTL

(* What next_frame returns are frames that stand in the stream, in order and
   without overlap: on any byte stream, however it is cut into feeds. *)
THEOREM FramesAreValid == Spec => []ReturnedFramesAreValid
<1>1. IInv => ReturnedFramesAreValid
  BY DEF IInv
<1> QED BY <1>1, Inductive, PTL

(* next_frame never erases the start of a frame that it does not return. *)
THEOREM NothingLost == Spec => []NoFrameLost
<1>1. IInv => NoFrameLost
  BY DEF IInv
<1> QED BY <1>1, Inductive, PTL

-----------------------------------------------------------------------------
(* What a step leaves in buf when next_frame returns nullopt. *)
LEMMA HalfPayloadBacklog ==
  ASSUME BufInv, NEW pos \in 0..(Len(buf) - 1), ScanStopsAt(pos), HalfPayload(pos)
  PROVE  ~RefutedAt(buf', 0) /\ Len(buf') < TotalAt(buf', 0)
<1>1. /\ Agree(buf, fed, Cut, Len(buf)) /\ buf \in Seq(Byte)
      /\ Cut \in Nat /\ Len(buf) \in Nat
  BY BufAgrees DEF BufInv, TypeOK
<1>2. /\ Len(buf) - pos >= kFrameOverhead
      /\ VerAt(buf, pos) = kProtocolVersion
      /\ Len(buf) - pos < TotalAt(buf, pos)
      /\ Erase(pos) /\ fed' = fed
  BY DEF HalfPayload, ReturnNone
<1>3. pos \in 0..Len(buf) /\ Len(buf) - pos >= 7
  BY <1>1, <1>2 DEF kFrameOverhead
<1>4. Len(buf') = Len(buf) - pos /\ buf' \in Seq(Byte)
  BY <1>2, <1>3, EraseKeepsTail
<1>5. Agree(buf', buf, pos, Len(buf'))
  <2>1. \A i \in 1..Len(buf') : buf'[i] = buf[pos + i]
    <3>1. \A k \in (pos + 1)..Len(buf) : buf[k] \in Byte
      BY <1>1, <1>3, ElementOfSeq
    <3>2. \A i \in 1..(Len(buf) - (pos + 1) + 1) :
            SubSeq(buf, pos + 1, Len(buf))[i] = buf[pos + 1 + i - 1]
      <4>1. pos + 1 \in Int /\ Len(buf) \in Int
        BY <1>1, <1>3
      <4> QED BY <3>1, <4>1, SubSeqProperties
    <3>3. Len(buf) - (pos + 1) + 1 = Len(buf')
      BY <1>1, <1>3, <1>4
    <3>4. \A i \in 1..Len(buf') : pos + 1 + i - 1 = pos + i
      BY <1>3
    <3> QED BY <1>2, <3>2, <3>3, <3>4 DEF Erase
  <2> QED BY <1>1, <1>3, <1>4, <2>1 DEF Agree
<1>6. 0 \in Nat /\ 0 + kFrameOverhead <= Len(buf')
  BY <1>1, <1>3, <1>4 DEF kFrameOverhead
<1>7. /\ TotalAt(buf', 0) \in kFrameOverhead..kMaxFrame
      /\ TotalAt(buf', 0) = TotalAt(buf, pos + 0)
      /\ VerAt(buf', 0) = VerAt(buf, pos + 0)
      /\ StxAt(buf', 0) <=> StxAt(buf, pos + 0)
  BY <1>5, <1>6, AgreeOnFrame
<1>8. pos + 0 = pos
  OBVIOUS
<1>9. StxAt(buf, pos)
  <2>1. pos + 1 < Len(buf)
    BY <1>3, <1>1
  <2> QED BY <2>1 DEF ScanStopsAt
<1>10. PICK t \in 7..262 : t = TotalAt(buf', 0) /\ t = TotalAt(buf, pos)
  BY <1>7, <1>8 DEF kFrameOverhead, kMaxFrame
<1>11. Len(buf') < t
  BY <1>2, <1>4, <1>10
<1>12. ~CompleteAt(buf', 0)
  BY <1>10, <1>11, <1>1, <1>3, <1>4 DEF CompleteAt
<1>13. buf'[0 + 1] = kStx0 /\ buf'[0 + 2] = kStx1 /\ VerAt(buf', 0) = kProtocolVersion
  BY <1>2, <1>7, <1>8, <1>9 DEF StxAt
<1> QED BY <1>10, <1>11, <1>12, <1>13 DEF RefutedAt

LEMMA TurnBacklog ==
  ASSUME BufInv, LoopTurn
  PROVE  BacklogIsOneHalfFrame'
<1>1. Len(buf) \in Nat
  BY BufAgrees
<1> SUFFICES ASSUME pc' = "none"
             PROVE  \/ Len(buf') < kFrameOverhead
                    \/ ~RefutedAt(buf', 0) /\ Len(buf') < TotalAt(buf', 0)
  BY DEF BacklogIsOneHalfFrame
<1>2. CASE TooShort
  <2>1. 0 \in 0..Len(buf) /\ Erase(0) /\ fed' = fed
    BY <1>1, <1>2 DEF TooShort, ReturnNone
  <2>2. Len(buf') = Len(buf) - 0
    BY <2>1, EraseKeepsTail
  <2> QED BY <1>1, <1>2, <2>2 DEF TooShort, kFrameOverhead
<1>3. ASSUME NEW pos \in 0..(Len(buf) - 1), ScanStopsAt(pos),
             \/ NoStx(pos)
             \/ HalfHeader(pos)
             \/ BadVersion(pos)
             \/ HalfPayload(pos)
             \/ BadCrc(pos)
             \/ GoodFrame(pos)
      PROVE  \/ Len(buf') < kFrameOverhead
             \/ ~RefutedAt(buf', 0) /\ Len(buf') < TotalAt(buf', 0)
  <2>1. pos \in 0..Len(buf) /\ Len(buf) \in 0..Len(buf)
    BY <1>1
  <2>2. CASE NoStx(pos)
    <3>1. PICK n \in {pos, Len(buf)} : Erase(n) /\ fed' = fed
      BY <2>2 DEF NoStx, ReturnNone
    <3>2. n \in 0..Len(buf) /\ Len(buf) - n <= 1
      BY <2>1, <2>2, <1>1 DEF NoStx
    <3>3. Len(buf') = Len(buf) - n
      BY <3>1, <3>2, EraseKeepsTail
    <3> QED BY <3>2, <3>3, <1>1 DEF kFrameOverhead
  <2>3. CASE HalfHeader(pos)
    <3>1. Erase(pos) /\ fed' = fed /\ Len(buf) - pos < kFrameOverhead
      BY <2>3 DEF HalfHeader, ReturnNone
    <3>2. Len(buf') = Len(buf) - pos
      BY <2>1, <3>1, EraseKeepsTail
    <3> QED BY <3>1, <3>2
  <2>4. CASE HalfPayload(pos)
    BY <1>3, <2>4, HalfPayloadBacklog
  <2>5. CASE BadVersion(pos) \/ BadCrc(pos)
    BY <2>5 DEF BadVersion, BadCrc, Continue, LoopTurn
  <2>6. CASE GoodFrame(pos)
    BY <2>6 DEF GoodFrame
  <2> QED BY <1>3, <2>2, <2>3, <2>4, <2>5, <2>6
<1> QED BY <1>2, <1>3 DEF LoopTurn

(* After nullopt buf_ holds less than a header or the arrived part of one
   frame. *)
THEOREM Backlog == Spec => []BacklogIsOneHalfFrame
<1>1. Init => BacklogIsOneHalfFrame
  BY DEF Init, BacklogIsOneHalfFrame
<1>2. IInv /\ BacklogIsOneHalfFrame /\ [Next]_vars => BacklogIsOneHalfFrame'
  <2> SUFFICES ASSUME IInv, BacklogIsOneHalfFrame, [Next]_vars
               PROVE  BacklogIsOneHalfFrame'
    OBVIOUS
  <2>1. CASE LoopTurn
    BY <2>1, TurnBacklog DEF IInv, BufInv
  <2>2. CASE \/ \E n \in 1..Len(wire) : Feed(n)
             \/ Reset
             \/ CallNextFrame
    BY <2>2 DEF Feed, Reset, CallNextFrame, BacklogIsOneHalfFrame
  <2>3. CASE UNCHANGED vars
    BY <2>3 DEF vars, BacklogIsOneHalfFrame
  <2> QED BY <2>1, <2>2, <2>3 DEF Next
<1> QED BY <1>1, <1>2, Inductive, PTL DEF Spec

(* In particular buf_ is shorter than the longest frame: noise never makes it
   grow. *)
THEOREM BacklogIsBounded == Spec => [](pc = "none" => Len(buf) < kMaxFrame)
<1>1. IInv /\ BacklogIsOneHalfFrame => (pc = "none" => Len(buf) < kMaxFrame)
  <2> SUFFICES ASSUME IInv, BacklogIsOneHalfFrame, pc = "none"
               PROVE  Len(buf) < kMaxFrame
    OBVIOUS
  <2>1. Agree(buf, fed, Cut, Len(buf)) /\ Len(buf) \in Nat
    BY BufAgrees DEF IInv, BufInv
  <2>2. CASE Len(buf) < kFrameOverhead
    BY <2>1, <2>2 DEF kFrameOverhead, kMaxFrame
  <2>3. CASE ~(Len(buf) < kFrameOverhead)
    <3>1. 0 \in Nat /\ 0 + kFrameOverhead <= Len(buf)
      BY <2>1, <2>3 DEF kFrameOverhead
    <3>2. TotalAt(buf, 0) \in kFrameOverhead..kMaxFrame
      BY <2>1, <3>1, AgreeOnFrame
    <3>3. Len(buf) < TotalAt(buf, 0)
      BY <2>3 DEF BacklogIsOneHalfFrame
    <3>4. PICK t \in 7..262 : t = TotalAt(buf, 0)
      BY <3>2 DEF kFrameOverhead, kMaxFrame
    <3>5. PICK len \in Nat : len = Len(buf)
      BY <2>1
    <3>6. len < t
      BY <3>3, <3>4, <3>5
    <3>7. len < 262
      BY <3>6
    <3> QED BY <3>5, <3>7 DEF kFrameOverhead, kMaxFrame
  <2> QED BY <2>2, <2>3
<1> QED BY <1>1, Inductive, Backlog, PTL

-----------------------------------------------------------------------------
(* A call of next_frame is NextFrame of what has not been read: between the end
   of the last frame returned and the front of buf_ every offset is refuted, so
   that the loop and NextFrame start at the same candidate. *)
ReadEnd == IF Len(taken) = 0 THEN 0 ELSE EndOf(taken[Len(taken)])

SkippedIsRefuted ==
  /\ ReadEnd \in 0..Cut
  /\ \A p \in ReadEnd..(Cut - 1) : RefutedAt(fed, p)

SomeIsNextFrame ==
  pc = "some" =>
    /\ Len(taken) # 0
    /\ NextFrame(Unread(Len(taken) - 1)) =
         [frame |-> taken[Len(taken)].frame, rest |-> buf]

CallInv == SkippedIsRefuted /\ SomeIsNextFrame

LEMMA UnreadIsBehind ==
  ASSUME IInv, SkippedIsRefuted
  PROVE  /\ ReadEnd \in 0..Len(fed) /\ Cut - ReadEnd \in 0..(Len(fed) - ReadEnd)
         /\ ReadEnd + (Cut - ReadEnd) = Cut
         /\ Unread(Len(taken)) = Behind(fed, ReadEnd)
         /\ buf = Behind(fed, Cut)
<1>1. Cut \in Nat /\ Len(buf) \in Nat /\ Len(fed) \in Nat /\ Cut + Len(buf) = Len(fed)
  BY BufAgrees DEF IInv, BufInv
<1>2. PICK c \in Nat : c = ReadEnd /\ c <= Cut
  BY <1>1 DEF SkippedIsRefuted
<1>3. /\ ReadEnd \in 0..Len(fed) /\ Cut - ReadEnd \in 0..(Len(fed) - ReadEnd)
      /\ ReadEnd + (Cut - ReadEnd) = Cut
  BY <1>1, <1>2
<1>4. Unread(Len(taken)) = Behind(fed, ReadEnd)
  BY DEF Unread, ReadEnd, Behind
<1>5. buf = Behind(fed, Cut)
  BY DEF IInv, BufIsTail, Behind
<1> QED BY <1>3, <1>4, <1>5

LEMMA GivesUpCallInv ==
  ASSUME IInv, CallInv, NEW k \in 0..Len(buf), GivesUp(k)
  PROVE  CallInv'
<1>1. Cut \in Nat /\ Len(buf) \in Nat
  BY BufAgrees DEF IInv, BufInv
<1>2. /\ Cut' = Cut + k /\ fed' = fed /\ taken' = taken /\ pc' # "some"
      /\ \A p \in Cut..(Cut + k - 1) : RefutedAt(fed, p)
  BY GivesUpIInv DEF GivesUp
<1>3. ReadEnd' = ReadEnd /\ ReadEnd \in 0..Cut
  BY <1>2 DEF ReadEnd, EndOf, CallInv, SkippedIsRefuted
<1>4. ReadEnd' \in 0..Cut'
  BY <1>1, <1>2, <1>3
<1>5. ASSUME NEW p \in ReadEnd'..(Cut' - 1) PROVE RefutedAt(fed', p)
  <2>1. p \in ReadEnd..(Cut - 1) \/ p \in Cut..(Cut + k - 1)
    BY <1>1, <1>2, <1>3
  <2> QED BY <1>2, <2>1 DEF CallInv, SkippedIsRefuted
<1> QED BY <1>2, <1>4, <1>5 DEF CallInv, SkippedIsRefuted, SomeIsNextFrame

LEMMA ReturnsCallInv ==
  ASSUME IInv, CallInv, NEW k \in 0..Len(buf), Returns(k)
  PROVE  CallInv'
<1> DEFINE at == Cut + k
           c == ReadEnd
           d == at - c
           frame == FrameAt(fed, at)
           last == [at |-> at, frame |-> frame]
           n == Len(taken)
<1>1. /\ Cut \in Nat /\ Len(buf) \in Nat /\ Len(fed) \in Nat /\ Cut + Len(buf) = Len(fed)
      /\ fed \in Seq(Byte)
  BY BufAgrees DEF IInv, BufInv, TypeOK
<1>2. /\ \A p \in Cut..(Cut + k - 1) : RefutedAt(fed, p)
      /\ ValidAt(fed, at) /\ frame \in Seq(Byte) /\ Len(frame) = TotalAt(fed, at)
      /\ taken' = Append(taken, last)
  BY Zenon DEF Returns
<1>3. PICK t \in 7..262 : t = TotalAt(fed, at)
  BY DEF Returns, kFrameOverhead, kMaxFrame
<1>4. /\ Cut' = at + t /\ fed' = fed /\ IInv'
  BY <1>3, ReturnsIInv DEF Returns
<1>5. at \in Nat /\ last \in Record /\ last.at = at /\ last.frame = frame
  BY <1>1, <1>2 DEF Record
<1>6. EndOf(last) = at + t
  BY <1>2, <1>3, <1>5 DEF EndOf
<1> HIDE DEF last, frame
<1>7. /\ taken \in Seq(Record) /\ n \in Nat
      /\ Len(taken') = n + 1
      /\ \A i \in 1..n : taken'[i] = taken[i]
      /\ taken'[n + 1] = last
  <2>1. taken \in Seq(Record)
    BY DEF IInv, TypeOK, Record
  <2> QED BY <1>2, <1>5, <2>1, AppendProperties, LenProperties
<1> HIDE DEF n
<1>8. ReadEnd' = Cut'
  BY <1>4, <1>6, <1>7 DEF ReadEnd, EndOf
<1>9. SkippedIsRefuted'
  <2>1. PICK e \in Nat : e = Cut'
    <3>1. at \in Nat
      BY <1>5
    <3>2. Cut' = at + t
      BY <1>4
    <3> HIDE DEF at
    <3>3. at + t \in Nat
      BY <3>1
    <3> QED BY <3>2, <3>3, Zenon
  <2>2. \A p \in e..(e - 1) : FALSE
    OBVIOUS
  <2>3. ReadEnd' = e /\ e \in 0..e
    BY <1>8, <2>1
  <2> QED BY <2>1, <2>2, <2>3 DEF SkippedIsRefuted
<1>10. c \in 0..Len(fed) /\ d \in 0..(Len(fed) - c) /\ c + d = at
  <2>1. c \in Nat /\ c <= Cut /\ at <= Len(fed) /\ at >= Cut
    BY <1>1 DEF CallInv, SkippedIsRefuted
  <2> HIDE DEF c
  <2> QED BY <1>1, <1>5, <2>1
<1>11. NextFrame(Behind(fed, c)) = [frame |-> frame, rest |-> Behind(fed, at + t)]
  <2>1. ASSUME NEW p \in c..(c + d - 1) PROVE RefutedAt(fed, p)
    <3>1. c \in Nat
      BY <1>1, <1>10
    <3>2. p \in c..(Cut - 1) \/ p \in Cut..(Cut + k - 1)
      <4> HIDE DEF c
      <4> QED BY <1>1, <1>10, <3>1
    <3> QED BY <1>2, <3>2 DEF CallInv, SkippedIsRefuted
  <2> HIDE DEF c, d, at
  <2>2. NextFrame(Behind(fed, c)) = [frame |-> FrameAt(fed, c + d),
                                     rest |-> Behind(fed, c + d + TotalAt(fed, c + d))]
    BY <1>1, <1>2, <1>10, <2>1, NextFrameBehind
  <2> QED BY <1>3, <1>10, <2>2 DEF frame
<1>12. PICK m \in Nat : m = n
  BY <1>7
<1>13. Unread(m)' = Behind(fed, c)
  <2>1. m # 0 => taken'[m] = taken[m]
    BY <1>7, <1>12
  <2>2. c = IF m = 0 THEN 0 ELSE EndOf(taken[m])
    BY <1>12 DEF n, ReadEnd
  <2>3. Unread(m)' = SubSeq(fed, (IF m = 0 THEN 0 ELSE EndOf(taken'[m])) + 1, Len(fed))
    BY <1>4 DEF Unread, EndOf
  <2> HIDE DEF c
  <2> QED BY <2>1, <2>2, <2>3 DEF Behind
<1>14. buf' = Behind(fed, at + t)
  BY <1>4 DEF IInv, BufIsTail, Behind
<1>15. SomeIsNextFrame'
  <2>1. Len(taken') - 1 = m /\ Len(taken') # 0 /\ taken'[Len(taken')].frame = frame
    BY <1>5, <1>7, <1>12
  <2>2. NextFrame(Unread(m)') = [frame |-> taken'[Len(taken')].frame, rest |-> buf']
    BY <1>11, <1>13, <1>14, <2>1
  <2>3. Unread(Len(taken) - 1)' = Unread(m)'
    BY <2>1 DEF Unread
  <2> QED BY <2>1, <2>2, <2>3 DEF SomeIsNextFrame
<1> QED BY <1>9, <1>15 DEF CallInv

LEMMA FeedCallInv ==
  ASSUME IInv, CallInv, NEW n \in 1..Len(wire), Feed(n)
  PROVE  CallInv'
<1> DEFINE more == SubSeq(wire, 1, n)
<1>1. Cut' = Cut /\ fed' = fed \o more /\ taken' = taken /\ pc' # "some"
  BY FeedIInv DEF Feed
<1>2. more \in Seq(Byte) /\ fed \in Seq(Byte) /\ Cut \in Nat
  <2>1. wire \in Seq(Byte) /\ fed \in Seq(Byte) /\ Cut \in Nat
    BY BufAgrees DEF IInv, BufInv, TypeOK
  <2>2. \A k \in 1..n : wire[k] \in Byte
    BY <2>1, ElementOfSeq, LenProperties
  <2>3. 1 \in Int /\ n \in Int
    BY <2>1, LenProperties
  <2> QED BY <2>1, <2>2, <2>3, SubSeqProperties
<1> HIDE DEF more
<1>3. ReadEnd' = ReadEnd
  BY <1>1 DEF ReadEnd, EndOf
<1>4. ASSUME NEW p \in ReadEnd..(Cut - 1) PROVE RefutedAt(fed', p)
  <2>1. p \in Nat /\ RefutedAt(fed, p)
    BY <1>2 DEF CallInv, SkippedIsRefuted
  <2> QED BY <1>1, <1>2, <2>1, Stable
<1> QED BY <1>1, <1>3, <1>4 DEF CallInv, SkippedIsRefuted, SomeIsNextFrame

LEMMA CallInvHolds == Spec => []CallInv
<1>1. Init => CallInv
  <2> SUFFICES ASSUME Init PROVE CallInv
    OBVIOUS
  <2>1. Cut = 0 /\ ReadEnd = 0 /\ pc # "some"
    BY EmptySeq DEF Init, Cut, ReadEnd
  <2> QED BY <2>1 DEF CallInv, SkippedIsRefuted, SomeIsNextFrame
<1>2. IInv /\ CallInv /\ [Next]_vars => CallInv'
  <2> SUFFICES ASSUME IInv, CallInv, [Next]_vars PROVE CallInv'
    OBVIOUS
  <2>1. ASSUME NEW n \in 1..Len(wire), Feed(n) PROVE CallInv'
    BY <2>1, FeedCallInv
  <2>2. CASE Reset
    <3>1. Cut' = 0 /\ taken' = << >> /\ pc' # "some"
      BY <2>2, ResetIInv DEF Reset
    <3>2. ReadEnd' = 0
      BY <3>1 DEF ReadEnd
    <3> QED BY <3>1, <3>2 DEF CallInv, SkippedIsRefuted, SomeIsNextFrame
  <2>3. CASE CallNextFrame
    <3>1. pc' # "some" /\ UNCHANGED << fed, buf, taken >>
      BY <2>3 DEF CallNextFrame
    <3> QED BY <3>1 DEF CallInv, SkippedIsRefuted, SomeIsNextFrame, ReadEnd, EndOf, Cut
  <2>4. CASE LoopTurn
    <3>1. PICK k \in 0..Len(buf) : GivesUp(k) \/ Returns(k)
      BY <2>4, TurnEffect DEF IInv, BufInv
    <3> QED BY <3>1, GivesUpCallInv, ReturnsCallInv
  <2>5. CASE UNCHANGED vars
    BY <2>5 DEF vars, CallInv, SkippedIsRefuted, SomeIsNextFrame, ReadEnd, EndOf, Cut, Unread
  <2> QED BY <2>1, <2>2, <2>3, <2>4, <2>5 DEF Next
<1> QED BY <1>1, <1>2, Inductive, PTL DEF Spec

(* next_frame, whatever was fed and however many turns it takes to resynchronise,
   returns what the function NextFrame finds in the bytes behind the last frame,
   and nothing only when NextFrame finds nothing: the links may use that function
   for the parser. *)
THEOREM CallIsFunction == Spec => []CallIsNextFrame
<1>1. IInv /\ CallInv /\ BacklogIsOneHalfFrame => CallIsNextFrame
  <2> SUFFICES ASSUME IInv, CallInv, BacklogIsOneHalfFrame PROVE CallIsNextFrame
    OBVIOUS
  <2>1. ASSUME pc = "none" PROVE NextFrame(Unread(Len(taken))).frame = NoFrame
    <3> DEFINE c == ReadEnd
               d == Cut - c
    <3>1. /\ c \in 0..Len(fed) /\ d \in 0..(Len(fed) - c) /\ c + d = Cut
          /\ Unread(Len(taken)) = Behind(fed, c)
          /\ buf = Behind(fed, Cut)
      BY UnreadIsBehind DEF CallInv
    <3>2. fed \in Seq(Byte) /\ \A p \in c..(Cut - 1) : RefutedAt(fed, p)
      BY DEF IInv, TypeOK, CallInv, SkippedIsRefuted
    <3>3. Len(buf) < kFrameOverhead \/ (~RefutedAt(buf, 0) /\ Len(buf) < TotalAt(buf, 0))
      BY <2>1 DEF BacklogIsOneHalfFrame
    <3> HIDE DEF c, d
    <3>4. \A p \in c..(c + d - 1) : RefutedAt(fed, p)
      BY <3>1, <3>2
    <3>5. \/ Len(Behind(fed, c + d)) < kFrameOverhead
          \/ /\ ~RefutedAt(Behind(fed, c + d), 0)
             /\ Len(Behind(fed, c + d)) < TotalAt(Behind(fed, c + d), 0)
      BY <3>1, <3>3
    <3>6. NextFrame(Behind(fed, c)).frame = NoFrame
      BY <3>1, <3>2, <3>4, <3>5, NoFrameBehind, Zenon
    <3> QED BY <3>1, <3>6
  <2> QED BY <2>1 DEF CallIsNextFrame, CallInv, SomeIsNextFrame
<1> QED BY <1>1, Inductive, CallInvHolds, Backlog, PTL

-----------------------------------------------------------------------------
(* However the stream is cut into feeds, the frames are the same.  What is
   inductive says more: whatever may come behind what was fed, its frames are
   those returned and those of buf_ with that behind it. *)
FramesOf(t) == [i \in 1..Len(t) |-> t[i].frame]

FramesInv ==
  \A x \in Seq(Byte) : FramesIn(fed \o x) = FramesOf(taken) \o FramesIn(buf \o x)

LEMMA FramesOfTyped ==
  ASSUME NEW t \in Seq(Record)
  PROVE  /\ FramesOf(t) \in Seq(Seq(Byte)) /\ Len(FramesOf(t)) = Len(t)
         /\ \A i \in 1..Len(t) : FramesOf(t)[i] = t[i].frame
<1>1. PICK n \in Nat : n = Len(t)
  BY LenProperties
<1>2. \A i \in 1..n : t[i] \in Record
  BY <1>1, ElementOfSeq
<1>3. \A i \in 1..n : t[i].frame \in Seq(Byte)
  BY <1>2 DEF Record
<1> QED BY <1>1, <1>3 DEF FramesOf

LEMMA FramesOfAppends ==
  ASSUME NEW t \in Seq(Record), NEW r \in Record
  PROVE  FramesOf(Append(t, r)) = FramesOf(t) \o << r.frame >>
<1> DEFINE d == Append(t, r)
           e == FramesOf(t) \o << r.frame >>
<1>1. PICK n \in Nat : n = Len(t)
  BY LenProperties
<1>2. /\ d \in Seq(Record) /\ Len(d) = n + 1
      /\ \A i \in 1..n : d[i] = t[i]
      /\ d[n + 1] = r
  BY <1>1, AppendProperties
<1> HIDE DEF d
<1>3. /\ FramesOf(d) \in Seq(Seq(Byte)) /\ Len(FramesOf(d)) = n + 1
      /\ \A i \in 1..(n + 1) : FramesOf(d)[i] = d[i].frame
  BY <1>2, FramesOfTyped
<1>4. /\ e \in Seq(Seq(Byte)) /\ Len(e) = n + 1
      /\ \A i \in 1..n : e[i] = t[i].frame
      /\ e[n + 1] = r.frame
  <2>1. /\ FramesOf(t) \in Seq(Seq(Byte)) /\ Len(FramesOf(t)) = n
        /\ \A i \in 1..n : FramesOf(t)[i] = t[i].frame
        /\ r.frame \in Seq(Byte)
    BY <1>1, FramesOfTyped DEF Record
  <2>2. e = Append(FramesOf(t), r.frame)
    BY <2>1, AppendIsConcat
  <2> QED BY <2>1, <2>2, AppendProperties
<1>5. ASSUME NEW i \in 1..(n + 1) PROVE FramesOf(d)[i] = e[i]
  <2>1. i \in 1..n \/ i = n + 1
    OBVIOUS
  <2> QED BY <1>2, <1>3, <1>4, <2>1
<1> HIDE DEF e
<1>6. FramesOf(d) = e
  BY <1>3, <1>4, <1>5, SeqEqual
<1> QED BY <1>6 DEF d, e

(* What is refuted, or valid, behind Cut in the stream is so in buf_. *)
LEMMA RefutedInBuf ==
  ASSUME IInv, NEW k \in 0..Len(buf), \A p \in Cut..(Cut + k - 1) : RefutedAt(fed, p)
  PROVE  /\ \A q \in 0..(k - 1) : RefutedAt(buf, q)
         /\ ValidAt(fed, Cut + k) =>
              /\ ValidAt(buf, k)
              /\ TotalAt(buf, k) = TotalAt(fed, Cut + k)
              /\ FrameAt(buf, k) = FrameAt(fed, Cut + k)
<1>1. /\ Cut \in 0..Len(fed) /\ Cut \in Nat /\ Len(buf) \in Nat /\ fed \in Seq(Byte)
      /\ buf = Behind(fed, Cut)
  <2>1. Cut \in Nat /\ Len(buf) \in Nat /\ Len(fed) \in Nat /\ Cut + Len(buf) = Len(fed)
    BY BufAgrees DEF IInv, BufInv
  <2> QED BY <2>1 DEF IInv, TypeOK, BufIsTail, Behind
<1>2. PICK c \in 0..Len(fed) : c = Cut
  BY <1>1
<1>3. c \in Nat /\ k \in Nat
  BY <1>1, <1>2
<1>4. ASSUME NEW q \in 0..(k - 1) PROVE RefutedAt(buf, q)
  <2>1. q \in Nat /\ c + q \in c..(c + k - 1)
    BY <1>3
  <2>2. RefutedAt(fed, c + q)
    BY <1>2, <2>1
  <2> QED BY <1>1, <1>2, <2>1, <2>2, Shift
<1>5. ASSUME ValidAt(fed, c + k)
      PROVE  /\ ValidAt(buf, k)
             /\ TotalAt(buf, k) = TotalAt(fed, c + k) /\ FrameAt(buf, k) = FrameAt(fed, c + k)
  <2>1. ValidAt(buf, k)
    BY <1>1, <1>2, <1>3, <1>5, Shift
  <2>2. CompleteAt(buf, k)
    BY <2>1 DEF ValidAt
  <2> QED BY <1>1, <1>2, <1>3, <2>1, <2>2, Shift
<1> QED BY <1>2, <1>4, <1>5

LEMMA GivesUpFramesInv ==
  ASSUME IInv, FramesInv, NEW k \in 0..Len(buf), GivesUp(k)
  PROVE  FramesInv'
<1>1. /\ buf' = Behind(buf, k) /\ fed' = fed /\ taken' = taken
      /\ \A q \in 0..(k - 1) : RefutedAt(buf, q)
  BY RefutedInBuf DEF GivesUp, Erase, Behind
<1>2. buf \in Seq(Byte)
  BY DEF IInv, TypeOK
<1>3. ASSUME NEW x \in Seq(Byte)
      PROVE  FramesIn(fed \o x) = FramesOf(taken) \o FramesIn(buf' \o x)
  <2>1. FramesIn(buf \o x) = FramesIn(Behind(buf, k) \o x)
    BY <1>1, <1>2, FramesDrop
  <2> QED BY <1>1, <2>1 DEF FramesInv
<1> QED BY <1>1, <1>3 DEF FramesInv

LEMMA ReturnsFramesInv ==
  ASSUME IInv, FramesInv, NEW k \in 0..Len(buf), Returns(k)
  PROVE  FramesInv'
<1> DEFINE f == FrameAt(fed, Cut + k)
           last == [at |-> Cut + k, frame |-> f]
<1>1. /\ \A p \in Cut..(Cut + k - 1) : RefutedAt(fed, p)
      /\ ValidAt(fed, Cut + k) /\ f \in Seq(Byte)
      /\ Erase(k + TotalAt(fed, Cut + k))
      /\ taken' = Append(taken, last) /\ fed' = fed
  BY Zenon DEF Returns
<1>2. last \in Record /\ last.frame = f /\ taken \in Seq(Record) /\ buf \in Seq(Byte)
  <2>1. Cut + k \in Nat
    BY BufAgrees DEF IInv, BufInv
  <2> QED BY <1>1, <2>1 DEF Record, IInv, TypeOK
<1>3. /\ ValidAt(buf, k) /\ FrameAt(buf, k) = f
      /\ \A q \in 0..(k - 1) : RefutedAt(buf, q)
      /\ buf' = Behind(buf, k + TotalAt(buf, k))
  BY <1>1, RefutedInBuf DEF Erase, Behind
<1> HIDE DEF f, last
<1>4. FramesOf(taken') = FramesOf(taken) \o << f >> /\ FramesOf(taken) \in Seq(Seq(Byte))
  BY <1>1, <1>2, FramesOfAppends, FramesOfTyped
<1>5. buf' \in Seq(Byte)
  BY ReturnsIInv DEF IInv, TypeOK
<1>6. ASSUME NEW x \in Seq(Byte)
      PROVE  FramesIn(fed \o x) = FramesOf(taken') \o FramesIn(buf' \o x)
  <2> DEFINE s == FramesOf(taken)
             t == << f >>
             behind == FramesIn(buf' \o x)
  <2>1. FramesIn(buf \o x) = t \o behind
    BY <1>2, <1>3, FramesGain
  <2>2. s \in Seq(Seq(Byte)) /\ t \in Seq(Seq(Byte)) /\ behind \in Seq(Seq(Byte))
    <3>1. buf' \o x \in Seq(Byte)
      BY <1>5, ConcatProperties
    <3>2. behind \in Seq(Seq(Byte))
      BY <3>1, FramesTyped
    <3>3. t \in Seq(Seq(Byte))
      BY <1>1
    <3> QED BY <1>4, <3>2, <3>3
  <2>3. FramesIn(fed \o x) = s \o (t \o behind)
    BY <2>1 DEF FramesInv
  <2> HIDE DEF s, t, behind
  <2>4. s \o (t \o behind) = (s \o t) \o behind
    BY <2>2, Associate
  <2> QED BY <1>4, <2>3, <2>4 DEF s, t, behind
<1> QED BY <1>1, <1>6 DEF FramesInv

LEMMA FeedFramesInv ==
  ASSUME IInv, FramesInv, NEW n \in 1..Len(wire), Feed(n)
  PROVE  FramesInv'
<1> DEFINE more == SubSeq(wire, 1, n)
<1>1. fed' = fed \o more /\ buf' = buf \o more /\ taken' = taken
  BY DEF Feed
<1>2. more \in Seq(Byte) /\ fed \in Seq(Byte) /\ buf \in Seq(Byte)
  <2>1. wire \in Seq(Byte) /\ fed \in Seq(Byte) /\ buf \in Seq(Byte)
    BY DEF IInv, TypeOK
  <2>2. \A k \in 1..n : wire[k] \in Byte
    BY <2>1, ElementOfSeq, LenProperties
  <2>3. 1 \in Int /\ n \in Int
    BY <2>1, LenProperties
  <2> QED BY <2>1, <2>2, <2>3, SubSeqProperties
<1> HIDE DEF more
<1>3. ASSUME NEW x \in Seq(Byte)
      PROVE  FramesIn((fed \o more) \o x) = FramesOf(taken) \o FramesIn((buf \o more) \o x)
  <2>1. more \o x \in Seq(Byte)
    BY <1>2, ConcatProperties
  <2>2. (fed \o more) \o x = fed \o (more \o x)
    BY <1>2, AssociateBytes, Zenon
  <2>3. (buf \o more) \o x = buf \o (more \o x)
    BY <1>2, AssociateBytes, Zenon
  <2> QED BY <2>1, <2>2, <2>3 DEF FramesInv
<1> QED BY <1>1, <1>3 DEF FramesInv

LEMMA FramesInvHolds == Spec => []FramesInv
<1>1. \A x \in Seq(Byte) : FramesIn(<< >> \o x) = FramesOf(<< >>) \o FramesIn(<< >> \o x)
  <2>1. FramesOf(<< >>) = << >>
    BY EmptySeq DEF FramesOf
  <2>2. \A x \in Seq(Byte) : FramesIn(<< >> \o x) \in Seq(Seq(Byte))
    BY EmptySeq, ConcatProperties, FramesTyped
  <2>3. \A x \in Seq(Byte) : << >> \o FramesIn(<< >> \o x) = FramesIn(<< >> \o x)
    BY <2>2, ConcatEmptySeq
  <2> QED BY <2>1, <2>3
<1>2. Init => FramesInv
  BY <1>1 DEF Init, FramesInv
<1>3. IInv /\ FramesInv /\ [Next]_vars => FramesInv'
  <2> SUFFICES ASSUME IInv, FramesInv, [Next]_vars PROVE FramesInv'
    OBVIOUS
  <2>1. ASSUME NEW n \in 1..Len(wire), Feed(n) PROVE FramesInv'
    BY <2>1, FeedFramesInv
  <2>2. CASE Reset
    BY <1>1, <2>2 DEF Reset, FramesInv
  <2>3. CASE LoopTurn
    <3>1. PICK k \in 0..Len(buf) : GivesUp(k) \/ Returns(k)
      BY <2>3, TurnEffect DEF IInv, BufInv
    <3> QED BY <3>1, GivesUpFramesInv, ReturnsFramesInv
  <2>4. CASE CallNextFrame \/ UNCHANGED vars
    BY <2>4 DEF CallNextFrame, vars, FramesInv
  <2> QED BY <2>1, <2>2, <2>3, <2>4 DEF Next
<1> QED BY <1>2, <1>3, Inductive, PTL DEF Spec

(* The frames returned until nullopt are those of the stream fed at once. *)
THEOREM SameInOneFeed == Spec => []ChunksDoNotMatter
<1>1. IInv /\ BacklogIsOneHalfFrame /\ FramesInv => ChunksDoNotMatter
  <2> SUFFICES ASSUME IInv, BacklogIsOneHalfFrame, FramesInv, pc = "none"
               PROVE  FramesOf(taken) = FramesIn(fed)
    BY DEF ChunksDoNotMatter, FramesOf
  <2>1. fed \in Seq(Byte) /\ buf \in Seq(Byte) /\ taken \in Seq(Record)
    BY DEF IInv, TypeOK, Record
  <2>2. NextFrame(buf).frame = NoFrame
    <3>1. buf = Behind(buf, 0) /\ 0 + 0 = 0 /\ 0 \in 0..Len(buf) /\ 0 \in 0..(Len(buf) - 0)
      BY <2>1, SubSeqFull, LenProperties DEF Behind
    <3>2. \/ Len(Behind(buf, 0)) < kFrameOverhead
          \/ /\ ~RefutedAt(Behind(buf, 0), 0)
             /\ Len(Behind(buf, 0)) < TotalAt(Behind(buf, 0), 0)
      BY <3>1 DEF BacklogIsOneHalfFrame
    <3>3. \A p \in 0..(0 + 0 - 1) : RefutedAt(buf, p)
      OBVIOUS
    <3>4. NextFrame(Behind(buf, 0)).frame = NoFrame
      BY <2>1, <3>1, <3>2, <3>3, NoFrameBehind
    <3> QED BY <3>1, <3>4
  <2>3. \A b \in Seq(Byte) : b \o << >> = b
    BY ConcatEmptySeq
  <2>4. << >> \in Seq(Byte)
    BY EmptySeq
  <2>5. FramesIn(buf) = << >>
    <3> DEFINE rest == NextFrame(buf).rest
    <3>1. rest \in Seq(Byte)
      BY <2>1, NextFrameTyped
    <3>2. FramesIn(buf \o << >>) = FramesIn(rest \o << >>) /\ FramesIn(rest) = << >>
      BY <2>1, <2>2, <2>4, FramesNext
    <3> HIDE DEF rest
    <3> QED BY <2>1, <2>3, <3>1, <3>2
  <2>6. FramesIn(fed) = FramesOf(taken) \o << >>
    BY <2>1, <2>3, <2>4, <2>5 DEF FramesInv
  <2> QED BY <2>1, <2>6, FramesOfTyped, ConcatEmptySeq
<1> QED BY <1>1, Inductive, Backlog, FramesInvHolds, PTL

-----------------------------------------------------------------------------
(* FrameParser implements FrameStream. *)

(* The two modules read the stream alike. *)
LEMMA StreamReads ==
  ASSUME NEW b, NEW p
  PROVE  /\ Stream!RefutedAt(b, p) <=> RefutedAt(b, p)
         /\ Stream!ValidAt(b, p) <=> ValidAt(b, p)
         /\ Stream!TotalAt(b, p) = TotalAt(b, p)
         /\ Stream!FrameAt(b, p) = FrameAt(b, p)
<1>1. Stream!TotalAt(b, p) = TotalAt(b, p)
  BY DEF Stream!TotalAt, TotalAt, Stream!kFrameOverhead, kFrameOverhead
<1>2. Stream!FrameAt(b, p) = FrameAt(b, p)
  BY <1>1, Zenon DEF Stream!FrameAt, FrameAt
<1>3. Stream!CrcOkAt(b, p) <=> CrcOkAt(b, p)
  BY <1>1, Zenon DEF Stream!CrcOkAt, CrcOkAt, Stream!GetU16LE, GetU16LE
<1>4. Stream!CompleteAt(b, p) <=> CompleteAt(b, p)
  BY <1>1, Zenon DEF Stream!CompleteAt, CompleteAt, Stream!kFrameOverhead, kFrameOverhead
<1>5. /\ Stream!VerAt(b, p) = VerAt(b, p)
      /\ Stream!StxAt(b, p) <=> StxAt(b, p)
      /\ Stream!kStx0 = kStx0 /\ Stream!kStx1 = kStx1
      /\ Stream!kProtocolVersion = kProtocolVersion
  BY Zenon DEF Stream!VerAt, VerAt, Stream!StxAt, StxAt, Stream!kStx0, kStx0,
     Stream!kStx1, kStx1, Stream!kProtocolVersion, kProtocolVersion
<1>6. Stream!RefutedAt(b, p) <=> RefutedAt(b, p)
  BY <1>3, <1>4, <1>5, Zenon DEF Stream!RefutedAt, RefutedAt
<1>7. Stream!ValidAt(b, p) <=> ValidAt(b, p)
  BY <1>3, <1>4, <1>5, Zenon DEF Stream!ValidAt, ValidAt
<1> QED BY <1>1, <1>2, <1>6, <1>7

LEMMA StreamInit == Init => Stream!Init
<1> SUFFICES ASSUME Init PROVE Stream!Init
  OBVIOUS
<1>1. Cut = 0
  BY EmptySeq DEF Init, Cut
<1> QED BY <1>1 DEF Init, Stream!Init

(* Every step of the parser is a step of the stream, or changes nothing the
   stream sees. *)
LEMMA StreamStep == IInv /\ [Next]_vars => [Stream!Next]_Stream!vars
<1> SUFFICES ASSUME IInv, [Next]_vars
             PROVE  Stream!Next \/ UNCHANGED Stream!vars
  OBVIOUS
<1>0. Cut \in Nat /\ Len(buf) \in Nat /\ Len(fed) \in Nat /\ Cut + Len(buf) = Len(fed)
  BY BufAgrees DEF IInv, BufInv
<1>1. ASSUME NEW n \in 1..Len(wire), Feed(n) PROVE Stream!Receive
  <2>1. Cut' = Cut
    BY <1>1, FeedIInv
  <2> QED BY <1>1, <2>1 DEF Feed, Stream!Receive
<1>2. CASE Reset
  <2>1. Cut' = 0
    BY <1>2, ResetIInv
  <2>2. Stream!Restart
    BY <1>2, <2>1 DEF Reset, Stream!Restart
  <2> QED BY <2>2 DEF Stream!Next
<1>3. CASE CallNextFrame \/ UNCHANGED vars
  BY <1>3 DEF CallNextFrame, vars, Stream!vars, Cut
<1>4. ASSUME NEW k \in 0..Len(buf), GivesUp(k)
      PROVE  Stream!Discard \/ UNCHANGED Stream!vars
  <2>1. /\ Cut' = Cut + k /\ wire' = wire /\ fed' = fed /\ taken' = taken
        /\ \A p \in Cut..(Cut + k - 1) : RefutedAt(fed, p)
    BY <1>4, GivesUpIInv DEF GivesUp
  <2>2. CASE k = 0
    BY <2>1, <2>2, <1>0 DEF Stream!vars
  <2>3. CASE k # 0
    <3>1. k \in 1..(Len(fed) - Cut)
      BY <2>3, <1>0
    <3>2. \A p \in Cut..(Cut + k - 1) : Stream!RefutedAt(fed, p)
      BY <2>1, StreamReads
    <3> QED BY <2>1, <3>1, <3>2 DEF Stream!Discard
  <2> QED BY <2>2, <2>3
<1>5. ASSUME NEW k \in 0..Len(buf), Returns(k) PROVE Stream!Deliver
  <2>1. Cut' = (Cut + k) + TotalAt(fed, Cut + k)
    BY <1>5, ReturnsIInv
  <2>2. k \in 0..(Len(fed) - Cut)
    BY <1>0
  <2>3. \A p \in Cut..((Cut + k) - 1) : Stream!RefutedAt(fed, p)
    <3>1. \A p \in Cut..(Cut + k - 1) : RefutedAt(fed, p)
      BY <1>5, Zenon DEF Returns
    <3>2. Cut + k - 1 = (Cut + k) - 1
      BY <1>0
    <3> QED BY <3>1, <3>2, StreamReads
  <2>4. /\ ValidAt(fed, Cut + k)
        /\ taken' = Append(taken, [at |-> Cut + k, frame |-> FrameAt(fed, Cut + k)])
    BY <1>5, Zenon DEF Returns
  <2>5. wire' = wire /\ fed' = fed
    BY <1>5 DEF Returns
  <2>6. /\ Stream!ValidAt(fed, Cut + k)
        /\ Cut' = (Cut + k) + Stream!TotalAt(fed, Cut + k)
        /\ taken' = Append(taken, [at |-> Cut + k,
                                    frame |-> Stream!FrameAt(fed, Cut + k)])
    BY <2>1, <2>4, StreamReads, Zenon
  <2> QED BY <2>2, <2>3, <2>5, <2>6, Zenon DEF Stream!Deliver
<1>6. CASE LoopTurn
  <2>1. PICK k \in 0..Len(buf) : GivesUp(k) \/ Returns(k)
    BY <1>6, TurnEffect DEF IInv, BufInv
  <2> QED BY <2>1, <1>4, <1>5 DEF Stream!Next
<1> QED BY <1>1, <1>2, <1>3, <1>6 DEF Next, Stream!Next

(* Every behaviour of the parser is one of the abstract stream: it moves its
   cursor only over refuted offsets, and returns the first frame that is
   not. *)
THEOREM Implements == Spec => ImplementsStream
<1>1. IInv /\ [Next]_vars => [Stream!Next]_Stream!vars
  BY StreamStep
<1> QED BY StreamInit, <1>1, Inductive, PTL DEF Spec, ImplementsStream, Stream!Spec

=============================================================================
