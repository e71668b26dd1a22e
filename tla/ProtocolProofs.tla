--------------------------- MODULE ProtocolProofs ----------------------------
(***************************************************************************)
(* Lemmas about the operators of Protocol, for every checksum function:    *)
(* what the reads of a candidate frame give in two strings that agree on   *)
(* a part, and what NextFrame and FramesIn find.  FrameParserProofs and    *)
(* the proofs of the links build on them.                                  *)
(***************************************************************************)
EXTENDS Protocol, SequenceTheorems, WellFoundedInduction, TLAPS

(* b agrees with s, shifted by c, on its first n bytes. *)
Agree(b, s, c, n) ==
  /\ b \in Seq(Byte) /\ s \in Seq(Byte)
  /\ c \in Nat /\ n \in Nat
  /\ n <= Len(b) /\ c + n <= Len(s)
  /\ \A i \in 1..n : b[i] = s[c + i]

LEMMA AgreeOnSubSeq ==
  ASSUME NEW b, NEW s, NEW c, NEW n, Agree(b, s, c, n),
         NEW i \in Nat \ {0}, NEW j \in Int, j <= n
  PROVE  /\ SubSeq(b, i, j) = SubSeq(s, c + i, c + j)
         /\ SubSeq(b, i, j) \in Seq(Byte)
<1> USE DEF Agree
<1>1. /\ \A k \in i..j : b[k] \in Byte
      /\ \A k \in (c + i)..(c + j) : s[k] \in Byte
  BY ElementOfSeq
<1>2. /\ SubSeq(b, i, j) \in Seq(Byte)
      /\ Len(SubSeq(b, i, j)) = IF i <= j THEN j - i + 1 ELSE 0
      /\ \A k \in 1..(j - i + 1) : SubSeq(b, i, j)[k] = b[i + k - 1]
  BY <1>1, SubSeqProperties
<1>3. /\ SubSeq(s, c + i, c + j) \in Seq(Byte)
      /\ Len(SubSeq(s, c + i, c + j))
           = IF c + i <= c + j THEN (c + j) - (c + i) + 1 ELSE 0
      /\ \A k \in 1..((c + j) - (c + i) + 1) :
           SubSeq(s, c + i, c + j)[k] = s[c + i + k - 1]
  <2>1. c + i \in Int /\ c + j \in Int
    OBVIOUS
  <2>2. ASSUME NEW a \in Int, NEW d \in Int, \A k \in a..d : s[k] \in Byte
        PROVE  /\ SubSeq(s, a, d) \in Seq(Byte)
               /\ Len(SubSeq(s, a, d)) = IF a <= d THEN d - a + 1 ELSE 0
               /\ \A k \in 1..(d - a + 1) : SubSeq(s, a, d)[k] = s[a + k - 1]
    BY <2>2, SubSeqProperties
  <2> HIDE DEF Agree
  <2> QED BY <2>1, <2>2, <1>1, Zenon
<1>4. ASSUME NEW k \in 1..Len(SubSeq(b, i, j))
      PROVE  SubSeq(b, i, j)[k] = SubSeq(s, c + i, c + j)[k]
  <2>1. k \in 1..(j - i + 1)
    BY <1>2
  <2>2. i + k - 1 \in 1..n /\ c + (i + k - 1) = c + i + k - 1
    BY <2>1
  <2> QED BY <1>2, <1>3, <2>1, <2>2
<1> QED BY <1>2, <1>3, <1>4, SeqEqual

COROLLARY AgreeOnSubSeqs ==
  ASSUME NEW b, NEW s, NEW c, NEW n, Agree(b, s, c, n)
  PROVE  \A i \in Nat \ {0}, j \in Int :
           j <= n => /\ SubSeq(b, i, j) = SubSeq(s, c + i, c + j)
                     /\ SubSeq(b, i, j) \in Seq(Byte)
BY AgreeOnSubSeq, ZenonT(30)

(* Where both strings have the bytes, a candidate frame reads the same. *)
LEMMA AgreeOnFrame ==
  ASSUME NEW b, NEW s, NEW c, NEW n, Agree(b, s, c, n),
         NEW p \in Nat, p + kFrameOverhead <= n
  PROVE  /\ TotalAt(b, p) \in kFrameOverhead..kMaxFrame
         /\ TotalAt(b, p) = TotalAt(s, c + p)
         /\ VerAt(b, p) = VerAt(s, c + p)
         /\ StxAt(b, p) <=> StxAt(s, c + p)
         /\ p + TotalAt(b, p) <= n =>
              /\ CrcOkAt(b, p) <=> CrcOkAt(s, c + p)
              /\ FrameAt(b, p) = FrameAt(s, c + p)
              /\ FrameAt(b, p) \in Seq(Byte)
              /\ Len(FrameAt(b, p)) = TotalAt(b, p)
<1> USE DEF kFrameOverhead
<1>1. /\ b[p + 1] = s[c + p + 1]
      /\ b[p + 2] = s[c + p + 2]
      /\ b[p + 3] = s[c + p + 3]
      /\ b[p + 4] = s[c + p + 4]
      /\ b[p + 4] \in Byte
  <2>1. /\ b \in Seq(Byte) /\ n \in Nat /\ n <= Len(b) /\ c \in Nat
        /\ \A i \in 1..n : b[i] = s[c + i]
    BY DEF Agree
  <2>2. /\ p + 1 \in 1..n /\ p + 2 \in 1..n /\ p + 3 \in 1..n /\ p + 4 \in 1..n
        /\ c + (p + 1) = c + p + 1 /\ c + (p + 2) = c + p + 2
        /\ c + (p + 3) = c + p + 3 /\ c + (p + 4) = c + p + 4
    BY <2>1
  <2>3. Len(b) \in Nat /\ p + 4 \in 1..Len(b)
    BY <2>1, <2>2, LenProperties
  <2>4. b[p + 4] \in Byte
    BY <2>1, <2>3, ElementOfSeq
  <2>5. b[p + 1] = s[c + (p + 1)] /\ b[p + 2] = s[c + (p + 2)]
    BY <2>1, <2>2, Zenon
  <2>6. b[p + 3] = s[c + (p + 3)] /\ b[p + 4] = s[c + (p + 4)]
    BY <2>1, <2>2, Zenon
  <2> QED BY <2>2, <2>4, <2>5, <2>6, Zenon
<1>2. /\ TotalAt(b, p) \in kFrameOverhead..kMaxFrame
      /\ TotalAt(b, p) = TotalAt(s, c + p)
      /\ VerAt(b, p) = VerAt(s, c + p)
      /\ StxAt(b, p) <=> StxAt(s, c + p)
  <2>1. c + p \in Nat
    BY DEF Agree
  <2>2. PICK len \in 0..255 : b[p + 4] = len /\ s[c + p + 4] = len
    BY <1>1 DEF Byte
  <2>3. TotalAt(b, p) = 7 + len /\ TotalAt(s, c + p) = 7 + len
    BY <2>2 DEF TotalAt
  <2>4. 7 + len \in 7..(7 + 255)
    OBVIOUS
  <2> QED BY <1>1, <2>1, <2>3, <2>4 DEF VerAt, StxAt, kMaxFrame
<1>3. ASSUME p + TotalAt(b, p) <= n
      PROVE  /\ CrcOkAt(b, p) <=> CrcOkAt(s, c + p)
             /\ FrameAt(b, p) = FrameAt(s, c + p)
             /\ FrameAt(b, p) \in Seq(Byte)
             /\ Len(FrameAt(b, p)) = TotalAt(b, p)
  <2>0. PICK t \in 7..262 : t = TotalAt(b, p)
    BY <1>2 DEF kMaxFrame
  <2>1. p + t <= n /\ n \in Nat /\ c \in Nat
    BY <2>0, <1>3 DEF Agree
  <2>2. SubSeq(b, p + 3, p + t - 2) = SubSeq(s, c + (p + 3), c + (p + t - 2))
    <3>1. p + 3 \in Nat \ {0} /\ p + t - 2 \in Int /\ p + t - 2 <= n
      BY <2>1
    <3>2. \A i \in Nat \ {0}, j \in Int :
            j <= n => /\ SubSeq(b, i, j) = SubSeq(s, c + i, c + j)
                      /\ SubSeq(b, i, j) \in Seq(Byte)
      BY AgreeOnSubSeqs
    <3> QED BY <3>1, <3>2
  <2>3. /\ SubSeq(b, p + 1, p + t) = SubSeq(s, c + (p + 1), c + (p + t))
        /\ SubSeq(b, p + 1, p + t) \in Seq(Byte)
    <3>1. p + 1 \in Nat \ {0} /\ p + t \in Int /\ p + t <= n
      BY <2>1
    <3> QED BY <3>1, AgreeOnSubSeqs
  <2>4. GetU16LE(b, p + t - 2) = GetU16LE(s, c + p + t - 2)
    <3>1. /\ p + t - 1 \in 1..n /\ p + t \in 1..n
          /\ c + (p + t - 1) = c + p + t - 2 + 1
          /\ c + (p + t) = c + p + t - 2 + 2
          /\ p + t - 2 + 1 = p + t - 1
          /\ p + t - 2 + 2 = p + t
      BY <2>1
    <3>2. b[p + t - 1] = s[c + (p + t - 1)] /\ b[p + t] = s[c + (p + t)]
      BY <3>1 DEF Agree
    <3> QED BY <3>1, <3>2 DEF GetU16LE
  <2>5. /\ c + (p + 3) = c + p + 3 /\ c + (p + t - 2) = c + p + t - 2
        /\ c + (p + 1) = c + p + 1 /\ c + (p + t) = c + p + t
    BY <2>1
  <2>6. Len(SubSeq(b, p + 1, p + t)) = t
    <3>1. \A k \in (p + 1)..(p + t) : b[k] \in Byte
      BY <2>1, ElementOfSeq DEF Agree
    <3>2. p + 1 \in Int /\ p + t \in Int /\ p + 1 <= p + t /\ p + t - (p + 1) + 1 = t
      OBVIOUS
    <3> QED BY <3>1, <3>2, SubSeqProperties
  <2>7. CrcOkAt(b, p) <=> CrcOkAt(s, c + p)
    BY <2>0, <1>2, <2>2, <2>4, <2>5 DEF CrcOkAt
  <2>8. FrameAt(b, p) = FrameAt(s, c + p)
    BY <2>0, <1>2, <2>3, <2>5 DEF FrameAt
  <2>9. FrameAt(b, p) \in Seq(Byte) /\ Len(FrameAt(b, p)) = TotalAt(b, p)
    BY <2>0, <2>3, <2>6 DEF FrameAt
  <2> QED BY <2>7, <2>8, <2>9
<1> QED BY <1>2, <1>3

(* What has been decided of an offset is not changed by the bytes that come
   behind. *)
LEMMA Stable ==
  ASSUME NEW s \in Seq(Byte), NEW more \in Seq(Byte), NEW p \in Nat
  PROVE  /\ RefutedAt(s, p) => RefutedAt(s \o more, p)
         /\ ValidAt(s, p) =>
              /\ ValidAt(s \o more, p)
              /\ FrameAt(s \o more, p) = FrameAt(s, p)
<1> DEFINE u == s \o more
<1>1. /\ u \in Seq(Byte) /\ Len(s) \in Nat /\ Len(u) \in Nat /\ Len(s) <= Len(u)
      /\ \A i \in 1..Len(s) : u[i] = s[i]
  BY ConcatProperties, LenProperties
<1> HIDE DEF u
<1>2. Agree(s, u, 0, Len(s))
  BY <1>1 DEF Agree
<1>3. CompleteAt(s, p) =>
        /\ CompleteAt(u, p)
        /\ StxAt(s, p) <=> StxAt(u, p)
        /\ VerAt(s, p) = VerAt(u, p)
        /\ CrcOkAt(s, p) <=> CrcOkAt(u, p)
        /\ FrameAt(s, p) = FrameAt(u, p)
  <2>1. SUFFICES ASSUME CompleteAt(s, p)
                 PROVE  /\ CompleteAt(u, p)
                        /\ StxAt(s, p) <=> StxAt(u, p)
                        /\ VerAt(s, p) = VerAt(u, p)
                        /\ CrcOkAt(s, p) <=> CrcOkAt(u, p)
                        /\ FrameAt(s, p) = FrameAt(u, p)
    OBVIOUS
  <2>2. p + kFrameOverhead <= Len(s) /\ p + TotalAt(s, p) <= Len(s)
    BY <2>1 DEF CompleteAt
  <2>3. /\ TotalAt(s, p) \in kFrameOverhead..kMaxFrame
        /\ TotalAt(s, p) = TotalAt(u, 0 + p)
        /\ VerAt(s, p) = VerAt(u, 0 + p)
        /\ StxAt(s, p) <=> StxAt(u, 0 + p)
        /\ CrcOkAt(s, p) <=> CrcOkAt(u, 0 + p)
        /\ FrameAt(s, p) = FrameAt(u, 0 + p)
    BY <1>2, <2>2, AgreeOnFrame
  <2>4. 0 + p = p
    OBVIOUS
  <2>5. CompleteAt(u, p)
    <3>1. PICK t \in 7..262 : t = TotalAt(s, p) /\ t = TotalAt(u, p)
      BY <2>3, <2>4 DEF kFrameOverhead, kMaxFrame
    <3>2. p + 7 <= Len(s) /\ p + t <= Len(s)
      BY <3>1, <2>2 DEF kFrameOverhead
    <3>3. p + 7 <= Len(u) /\ p + t <= Len(u)
      BY <3>2, <1>1
    <3> QED BY <3>1, <3>3 DEF CompleteAt, kFrameOverhead
  <2> QED BY <2>3, <2>4, <2>5
<1>4. RefutedAt(s, p) => RefutedAt(u, p)
  <2>1. CASE p + 1 <= Len(s) /\ s[p + 1] # kStx0
    BY <1>1, <2>1 DEF RefutedAt
  <2>2. CASE p + 2 <= Len(s) /\ s[p + 2] # kStx1
    BY <1>1, <2>2 DEF RefutedAt
  <2>3. CASE p + 3 <= Len(s) /\ VerAt(s, p) # kProtocolVersion
    BY <1>1, <2>3 DEF RefutedAt, VerAt
  <2>4. CASE CompleteAt(s, p) /\ ~CrcOkAt(s, p)
    BY <1>3, <2>4 DEF RefutedAt
  <2> QED BY <2>1, <2>2, <2>3, <2>4 DEF RefutedAt
<1>5. ValidAt(s, p) => ValidAt(u, p) /\ FrameAt(u, p) = FrameAt(s, p)
  BY <1>3 DEF ValidAt
<1> QED BY <1>4, <1>5 DEF u

-----------------------------------------------------------------------------
(* Induction without an operator to instantiate: every nonempty set of numbers
   has a least element. *)
LEMMA LeastElement ==
  ASSUME NEW T \in SUBSET Nat, T # {}
  PROVE  \E x \in T : \A y \in T : x <= y
<1> DEFINE R == OpToRel(<, Nat)
<1>1. IsWellFoundedOn(R, Nat)
  BY NatLessThanWellFounded, Zenon
<1>2. \A x, y \in Nat : x < y => << x, y >> \in R
  BY DEF OpToRel
<1> HIDE DEF R
<1>3. PICK x \in T : \A y \in T : << y, x >> \notin R
  BY <1>1, WFMin, Zenon
<1>4. \A y \in T : ~(y < x)
  BY <1>2, <1>3
<1> QED BY <1>3, <1>4

(* The bytes of s behind its first c, read as a string of their own. *)
Behind(s, c) == SubSeq(s, c + 1, Len(s))

LEMMA BehindAgrees ==
  ASSUME NEW s \in Seq(Byte), NEW c \in 0..Len(s)
  PROVE  /\ Behind(s, c) \in Seq(Byte) /\ Len(Behind(s, c)) = Len(s) - c
         /\ Agree(Behind(s, c), s, c, Len(s) - c)
<1>1. PICK len \in Nat : len = Len(s)
  BY LenProperties
<1>2. \A k \in (c + 1)..len : s[k] \in Byte
  BY <1>1, ElementOfSeq
<1>3. c \in Nat /\ c + 1 \in Int /\ len - (c + 1) + 1 = len - c /\ len - c \in Nat
  BY <1>1
<1>4. /\ SubSeq(s, c + 1, len) \in Seq(Byte)
      /\ Len(SubSeq(s, c + 1, len)) = len - c
      /\ \A i \in 1..(len - c) : SubSeq(s, c + 1, len)[i] = s[c + 1 + i - 1]
  <2>1. Len(SubSeq(s, c + 1, len)) = IF c + 1 <= len THEN len - (c + 1) + 1 ELSE 0
    BY <1>1, <1>2, <1>3, SubSeqProperties
  <2>2. len \in Int /\ c + 1 \in Int
    BY <1>1, <1>3
  <2> QED BY <1>1, <1>2, <1>3, <2>1, <2>2, SubSeqProperties
<1>5. \A i \in 1..(len - c) : c + 1 + i - 1 = c + i
  BY <1>3
<1> QED BY <1>1, <1>3, <1>4, <1>5 DEF Behind, Agree

(* A candidate is the same frame, or is refuted by the same bytes, behind what
   was cut off. *)
LEMMA Shift ==
  ASSUME NEW s \in Seq(Byte), NEW c \in 0..Len(s), NEW p \in Nat
  PROVE  LET b == Behind(s, c)
         IN  /\ CompleteAt(b, p) <=> CompleteAt(s, c + p)
             /\ RefutedAt(b, p) <=> RefutedAt(s, c + p)
             /\ ValidAt(b, p) <=> ValidAt(s, c + p)
             /\ CompleteAt(b, p) =>
                  /\ TotalAt(b, p) = TotalAt(s, c + p)
                  /\ TotalAt(b, p) \in kFrameOverhead..kMaxFrame
                  /\ FrameAt(b, p) = FrameAt(s, c + p)
                  /\ FrameAt(b, p) \in Seq(Byte)
                  /\ Len(FrameAt(b, p)) = TotalAt(b, p)
<1> DEFINE b == Behind(s, c)
<1> DEFINE n == Len(b)
<1>1. /\ b \in Seq(Byte) /\ n \in Nat /\ Len(s) \in Nat /\ c \in Nat /\ Len(s) = c + n
      /\ Agree(b, s, c, n)
  BY BehindAgrees, LenProperties
<1>2. \A i \in 1..n : b[i] = s[c + i]
  BY <1>1 DEF Agree
<1> HIDE DEF b
<1>3. p + kFrameOverhead <= n =>
        /\ TotalAt(b, p) \in kFrameOverhead..kMaxFrame
        /\ TotalAt(b, p) = TotalAt(s, c + p)
        /\ VerAt(b, p) = VerAt(s, c + p)
        /\ StxAt(b, p) <=> StxAt(s, c + p)
        /\ p + TotalAt(b, p) <= n =>
             /\ CrcOkAt(b, p) <=> CrcOkAt(s, c + p)
             /\ FrameAt(b, p) = FrameAt(s, c + p)
             /\ FrameAt(b, p) \in Seq(Byte)
             /\ Len(FrameAt(b, p)) = TotalAt(b, p)
  BY <1>1, AgreeOnFrame
<1>4. p + kFrameOverhead <= n <=> c + p + kFrameOverhead <= Len(s)
  BY <1>1 DEF kFrameOverhead
<1>5. CompleteAt(b, p) <=> CompleteAt(s, c + p)
  <2>1. CASE p + kFrameOverhead <= n
    <3>1. PICK t \in 7..262 : t = TotalAt(b, p) /\ t = TotalAt(s, c + p)
      BY <1>3, <2>1 DEF kFrameOverhead, kMaxFrame
    <3>2. p + t <= n <=> c + p + t <= Len(s)
      BY <1>1
    <3> QED BY <1>4, <2>1, <3>1, <3>2 DEF CompleteAt
  <2>2. CASE ~(p + kFrameOverhead <= n)
    BY <1>4, <2>2 DEF CompleteAt
  <2> QED BY <2>1, <2>2
<1>6. RefutedAt(b, p) <=> RefutedAt(s, c + p)
  <2>1. /\ p + 1 <= n <=> c + p + 1 <= Len(s)
        /\ p + 2 <= n <=> c + p + 2 <= Len(s)
        /\ p + 3 <= n <=> c + p + 3 <= Len(s)
    BY <1>1
  <2>2. /\ p + 1 <= n => b[p + 1] = s[c + p + 1]
        /\ p + 2 <= n => b[p + 2] = s[c + p + 2]
        /\ p + 3 <= n => b[p + 3] = s[c + p + 3]
    <3> SUFFICES ASSUME NEW k \in 1..3, p + k <= n
                 PROVE  b[p + k] = s[c + p + k]
      OBVIOUS
    <3>1. p + k \in 1..n /\ c + (p + k) = c + p + k
      BY <1>1
    <3>2. b[p + k] = s[c + (p + k)]
      BY <1>2, <3>1
    <3> QED BY <3>1, <3>2
  <2>3. CompleteAt(b, p) => (CrcOkAt(b, p) <=> CrcOkAt(s, c + p))
    BY <1>3 DEF CompleteAt
  <2> HIDE DEF n
  <2> QED BY <1>5, <2>1, <2>2, <2>3 DEF RefutedAt, VerAt, n
<1>7. ValidAt(b, p) <=> ValidAt(s, c + p)
  BY <1>3, <1>5 DEF ValidAt, CompleteAt
<1> QED BY <1>3, <1>5, <1>6, <1>7 DEF CompleteAt, b

(* A candidate whose bytes are all there is a string of its length. *)
LEMMA CompleteIsFrame ==
  ASSUME NEW b \in Seq(Byte), NEW p \in Nat, CompleteAt(b, p)
  PROVE  /\ TotalAt(b, p) \in 7..262 /\ p + TotalAt(b, p) \in 0..Len(b)
         /\ FrameAt(b, p) \in Seq(Byte) /\ Len(FrameAt(b, p)) = TotalAt(b, p)
<1>1. PICK len \in Nat : len = Len(b)
  BY LenProperties
<1>2. Behind(b, 0) \in Seq(Byte) /\ Agree(Behind(b, 0), b, 0, len) /\ 0 \in 0..len
  BY <1>1, BehindAgrees
<1>3. /\ CompleteAt(Behind(b, 0), p)
      /\ TotalAt(b, p) \in kFrameOverhead..kMaxFrame
      /\ FrameAt(b, p) \in Seq(Byte)
      /\ Len(FrameAt(b, p)) = TotalAt(b, p)
  <2>1. 0 + p = p
    OBVIOUS
  <2> QED BY <1>1, <1>2, <2>1, Shift
<1>4. PICK t \in 7..262 : t = TotalAt(b, p)
  BY <1>3 DEF kFrameOverhead, kMaxFrame
<1>5. p + t <= len
  BY <1>1, <1>4 DEF CompleteAt
<1> QED BY <1>1, <1>3, <1>4, <1>5

-----------------------------------------------------------------------------
(* Where NextFrame starts: every offset before p is refuted, and p is not. *)
StartsAt(b, p) ==
  /\ p \in 0..Len(b)
  /\ p < Len(b) => ~RefutedAt(b, p)
  /\ \A q \in 0..(p - 1) : RefutedAt(b, q)

LEMMA StartExists ==
  ASSUME NEW b \in Seq(Byte)
  PROVE  \E p \in 0..Len(b) : StartsAt(b, p)
<1>1. PICK len \in Nat : len = Len(b)
  BY LenProperties
<1> DEFINE T == { p \in 0..len : p = len \/ ~RefutedAt(b, p) }
<1>2. len \in T /\ T \in SUBSET Nat
  BY <1>1
<1>3. PICK p \in T : \A q \in T : p <= q
  BY <1>2, LeastElement, Zenon
<1>4. p \in 0..len /\ (p < len => ~RefutedAt(b, p))
  BY <1>1, <1>3
<1>5. \A q \in 0..(p - 1) : q \in 0..len /\ ~(p <= q)
  BY <1>1, <1>4
<1>6. \A q \in 0..(p - 1) : RefutedAt(b, q)
  BY <1>3, <1>5
<1> QED BY <1>1, <1>4, <1>6 DEF StartsAt

LEMMA StartUnique ==
  ASSUME NEW b \in Seq(Byte), NEW p, NEW q, StartsAt(b, p), StartsAt(b, q)
  PROVE  p = q
<1>1. PICK len \in Nat : len = Len(b)
  BY LenProperties
<1>2. p \in 0..len /\ q \in 0..len
  BY <1>1 DEF StartsAt
<1>3. ~(p < q)
  <2> SUFFICES ASSUME p < q PROVE FALSE
    OBVIOUS
  <2>1. p \in 0..(q - 1) /\ p < len
    BY <1>2
  <2> QED BY <1>1, <2>1 DEF StartsAt
<1>4. ~(q < p)
  <2> SUFFICES ASSUME q < p PROVE FALSE
    OBVIOUS
  <2>1. q \in 0..(p - 1) /\ q < len
    BY <1>2
  <2> QED BY <1>1, <2>1 DEF StartsAt
<1> QED BY <1>2, <1>3, <1>4

(* What NextFrame finds and keeps. *)
LEMMA NextFrameIs ==
  ASSUME NEW b \in Seq(Byte), NEW p, StartsAt(b, p)
  PROVE  /\ p < Len(b) /\ ValidAt(b, p) =>
              NextFrame(b) = [frame |-> FrameAt(b, p), rest |-> Behind(b, p + TotalAt(b, p))]
         /\ ~(p < Len(b) /\ ValidAt(b, p)) =>
              NextFrame(b) = [frame |-> NoFrame, rest |-> Behind(b, p)]
<1> DEFINE P(x) == /\ x < Len(b) => ~RefutedAt(b, x)
                   /\ \A q \in 0..(x - 1) : RefutedAt(b, q)
           start == CHOOSE x \in 0..Len(b) : P(x)
<1>1. start \in 0..Len(b) /\ P(start)
  <2>1. p \in 0..Len(b) /\ P(p)
    BY DEF StartsAt
  <2> HIDE DEF P
  <2> QED BY <2>1, Zenon
<1>2. start = p
  <2>1. StartsAt(b, start)
    BY <1>1 DEF StartsAt
  <2> HIDE DEF start, P
  <2> QED BY <2>1, StartUnique
<1>3. NextFrame(b) =
        LET found == start < Len(b) /\ ValidAt(b, start)
            keep  == start + (IF found THEN TotalAt(b, start) ELSE 0)
        IN  [frame |-> IF found THEN FrameAt(b, start) ELSE NoFrame,
             rest  |-> SubSeq(b, keep + 1, Len(b))]
  BY Zenon DEF NextFrame
<1> HIDE DEF start, P
<1>4. p \in Nat /\ p + 0 = p
  <2>1. Len(b) \in Nat
    BY LenProperties
  <2> QED BY <2>1 DEF StartsAt
<1> QED BY <1>2, <1>3, <1>4 DEF Behind

(* NextFrame keeps a string of bytes, and what it finds is one, not empty. *)
LEMMA NextFrameTyped ==
  ASSUME NEW b \in Seq(Byte)
  PROVE  /\ NextFrame(b).rest \in Seq(Byte)
         /\ NextFrame(b).frame \in Seq(Byte)
<1>1. PICK p \in 0..Len(b) : StartsAt(b, p)
  BY StartExists
<1>2. p \in Nat /\ Len(b) \in Nat
  BY <1>1, LenProperties
<1>3. CASE p < Len(b) /\ ValidAt(b, p)
  <2>1. CompleteAt(b, p)
    BY <1>3 DEF ValidAt
  <2>2. FrameAt(b, p) \in Seq(Byte)
    BY <1>2, <2>1, CompleteIsFrame
  <2>3. p + TotalAt(b, p) \in 0..Len(b)
    BY <1>2, <2>1, CompleteIsFrame
  <2>4. Behind(b, p + TotalAt(b, p)) \in Seq(Byte)
    BY <2>3, BehindAgrees
  <2> QED BY <1>1, <1>3, <2>2, <2>4, NextFrameIs
<1>4. CASE ~(p < Len(b) /\ ValidAt(b, p))
  <2>1. Behind(b, p) \in Seq(Byte)
    BY <1>1, BehindAgrees
  <2>2. NextFrame(b) = [frame |-> NoFrame, rest |-> Behind(b, p)]
    BY <1>1, <1>4, NextFrameIs
  <2>3. NoFrame \in Seq(Byte)
    BY DEF NoFrame
  <2> QED BY <2>1, <2>2, <2>3
<1> QED BY <1>3, <1>4

(* UdpFrameLink's check and the parser take the same strings for one frame. *)
LEMMA DatagramIsNextFrame ==
  ASSUME NEW d \in Seq(Byte)
  PROVE  IsDatagramFrame(d) <=>
           d # << >> /\ NextFrame(d) = [frame |-> d, rest |-> << >>]
<1>1. PICK len \in Nat : len = Len(d)
  BY LenProperties
<1>2. PICK p \in 0..len : StartsAt(d, p)
  BY <1>1, StartExists
<1>3. ASSUME IsDatagramFrame(d)
      PROVE  d # << >> /\ NextFrame(d) = [frame |-> d, rest |-> << >>]
  <2>1. len >= 7 /\ TotalAt(d, 0) = len /\ ValidAt(d, 0)
    <3>1. 0 + 7 <= len /\ 0 + len <= len /\ len >= 7 /\ TotalAt(d, 0) = len
      BY <1>1, <1>3 DEF IsDatagramFrame, kFrameOverhead
    <3>2. CompleteAt(d, 0)
      BY <1>1, <3>1 DEF CompleteAt, kFrameOverhead
    <3> QED BY <1>3, <3>1, <3>2 DEF IsDatagramFrame, ValidAt
  <2>2. ~RefutedAt(d, 0)
    BY <2>1 DEF RefutedAt, ValidAt, StxAt
  <2>3. p = 0
    <3>1. p > 0 => 0 \in 0..(p - 1)
      OBVIOUS
    <3> QED BY <1>2, <2>2, <3>1 DEF StartsAt
  <2>4. NextFrame(d) = [frame |-> FrameAt(d, 0), rest |-> Behind(d, len)]
    <3>1. 0 < Len(d) /\ 0 + TotalAt(d, 0) = len
      BY <1>1, <2>1
    <3> QED BY <1>2, <2>1, <2>3, <3>1, NextFrameIs
  <2>5. FrameAt(d, 0) = d
    <3>1. FrameAt(d, 0) = SubSeq(d, 1, len)
      BY <2>1 DEF FrameAt
    <3> QED BY <1>1, <3>1
  <2>6. Behind(d, len) = << >>
    <3>1. Behind(d, len) \in Seq(Byte) /\ Len(Behind(d, len)) = 0
      BY <1>1, BehindAgrees
    <3> QED BY <3>1, EmptySeq
  <2>7. d # << >>
    BY <1>1, <2>1, EmptySeq
  <2> QED BY <2>4, <2>5, <2>6, <2>7
<1>4. ASSUME d # << >>, NextFrame(d) = [frame |-> d, rest |-> << >>]
      PROVE  IsDatagramFrame(d)
  <2>1. p < Len(d) /\ ValidAt(d, p)
    <3> SUFFICES ASSUME ~(p < Len(d) /\ ValidAt(d, p)) PROVE FALSE
      OBVIOUS
    <3>1. NextFrame(d) = [frame |-> NoFrame, rest |-> Behind(d, p)]
      BY <1>2, NextFrameIs
    <3>2. NextFrame(d).frame = NoFrame /\ NextFrame(d).frame = d
      BY <1>4, <3>1
    <3> QED BY <1>4, <3>2 DEF NoFrame
  <2>2. FrameAt(d, p) = d
    <3>1. NextFrame(d) = [frame |-> FrameAt(d, p), rest |-> Behind(d, p + TotalAt(d, p))]
      BY <1>2, <2>1, NextFrameIs
    <3>2. NextFrame(d).frame = FrameAt(d, p) /\ NextFrame(d).frame = d
      BY <1>4, <3>1
    <3> QED BY <3>2
  <2>3. /\ TotalAt(d, p) \in 7..262 /\ p + TotalAt(d, p) \in 0..len
        /\ Len(FrameAt(d, p)) = TotalAt(d, p)
    BY <1>1, <1>2, <2>1, CompleteIsFrame DEF ValidAt
  <2>4. p = 0 /\ TotalAt(d, 0) = len /\ len >= 7
    <3>1. PICK t \in 7..262 : t = TotalAt(d, p)
      BY <2>3
    <3>2. t = len /\ p + t <= len
      BY <1>1, <2>2, <2>3, <3>1
    <3>3. p = 0 /\ len >= 7
      BY <3>2
    <3> QED BY <3>1, <3>2, <3>3
  <2> QED BY <1>1, <2>1, <2>4 DEF IsDatagramFrame, ValidAt, kFrameOverhead
<1> QED BY <1>3, <1>4

-----------------------------------------------------------------------------
(* The function FramesIn is read off, one unfolding at a time. *)
FoundStep(b, f, p) ==
  IF p = Len(b) THEN << >>
  ELSE IF RefutedAt(b, p) THEN f[p + 1]
  ELSE IF ValidAt(b, p) THEN << FrameAt(b, p) >> \o f[p + TotalAt(b, p)]
  ELSE << >>

IsFound(b, f) ==
  /\ f \in [0..Len(b) -> Seq(Seq(Byte))]
  /\ \A p \in 0..Len(b) : f[p] = FoundStep(b, f, p)

(* A step looks only at offsets behind it, and leads to one. *)
LEMMA StepAhead ==
  ASSUME NEW b \in Seq(Byte), NEW p \in 0..Len(b), NEW f, NEW g,
         \A q \in 0..Len(b) : p < q => f[q] = g[q] /\ f[q] \in Seq(Seq(Byte))
  PROVE  /\ FoundStep(b, f, p) = FoundStep(b, g, p)
         /\ FoundStep(b, f, p) \in Seq(Seq(Byte))
<1>1. PICK len \in Nat : len = Len(b)
  BY LenProperties
<1>2. << >> \in Seq(Seq(Byte))
  OBVIOUS
<1>3. CASE p = len
  BY <1>1, <1>2, <1>3 DEF FoundStep
<1>4. CASE p # len /\ RefutedAt(b, p)
  <2>1. p + 1 \in 0..len /\ p < p + 1
    BY <1>1, <1>4
  <2>2. f[p + 1] = g[p + 1] /\ f[p + 1] \in Seq(Seq(Byte))
    BY <1>1, <2>1
  <2> QED BY <1>1, <1>4, <2>2 DEF FoundStep
<1>5. CASE p # len /\ ~RefutedAt(b, p) /\ ValidAt(b, p)
  <2>1. /\ p + TotalAt(b, p) \in 0..len /\ p < p + TotalAt(b, p)
        /\ FrameAt(b, p) \in Seq(Byte)
    <3>1. /\ TotalAt(b, p) \in 7..262 /\ p + TotalAt(b, p) \in 0..len
          /\ FrameAt(b, p) \in Seq(Byte)
      BY <1>1, <1>5, CompleteIsFrame DEF ValidAt
    <3>2. PICK t \in 7..262 : t = TotalAt(b, p)
      BY <3>1
    <3>3. p < p + t
      BY <1>1
    <3> QED BY <3>1, <3>2, <3>3
  <2> DEFINE q == p + TotalAt(b, p)
  <2>2. f[q] = g[q] /\ f[q] \in Seq(Seq(Byte))
    BY <1>1, <2>1
  <2> HIDE DEF q
  <2>3. << FrameAt(b, p) >> \in Seq(Seq(Byte))
    BY <2>1
  <2>4. << FrameAt(b, p) >> \o f[q] \in Seq(Seq(Byte))
    BY <2>2, <2>3, ConcatProperties
  <2>5. /\ FoundStep(b, f, p) = << FrameAt(b, p) >> \o f[q]
        /\ FoundStep(b, g, p) = << FrameAt(b, p) >> \o g[q]
    BY <1>1, <1>5 DEF FoundStep, q
  <2> QED BY <2>2, <2>4, <2>5
<1>6. CASE p # len /\ ~RefutedAt(b, p) /\ ~ValidAt(b, p)
  BY <1>1, <1>2, <1>6 DEF FoundStep
<1> QED BY <1>3, <1>4, <1>5, <1>6

(* There is such a function: one that is defined from an offset on can be
   extended to the offset before. *)
LEMMA FoundExists ==
  ASSUME NEW b \in Seq(Byte)
  PROVE  \E f : IsFound(b, f)
<1>1. PICK len \in Nat : len = Len(b)
  BY LenProperties
<1> DEFINE From(f, n) ==
             \A p \in 0..len : n <= p => f[p] = FoundStep(b, f, p) /\ f[p] \in Seq(Seq(Byte))
           Missing == { m \in 0..len : ~ \E f : From(f, len - m) }
<1>2. ASSUME NEW n \in 0..len, NEW f, n # 0, From(f, n)
      PROVE  \E g : From(g, n - 1)
  <2> DEFINE g == [p \in 0..len |-> IF p = n - 1 THEN FoundStep(b, f, p) ELSE f[p]]
  <2>1. n - 1 \in 0..len
    BY <1>2
  <2>2. ASSUME NEW p \in 0..len, n - 1 <= p
        PROVE  g[p] = FoundStep(b, g, p) /\ g[p] \in Seq(Seq(Byte))
    <3>1. \A q \in 0..len : p < q => g[q] = f[q] /\ g[q] \in Seq(Seq(Byte))
      BY <1>2, <2>2
    <3>2. g[p] = FoundStep(b, f, p)
      <4>1. CASE p = n - 1
        BY <4>1
      <4>2. CASE p # n - 1
        <5>1. n <= p
          BY <2>2, <4>2
        <5> QED BY <1>2, <4>2, <5>1
      <4> QED BY <4>1, <4>2
    <3> HIDE DEF g
    <3>3. /\ FoundStep(b, g, p) = FoundStep(b, f, p)
          /\ FoundStep(b, g, p) \in Seq(Seq(Byte))
      BY <1>1, <3>1, StepAhead
    <3> QED BY <3>2, <3>3
  <2> HIDE DEF g
  <2> QED BY <2>2
<1>3. \E f : From(f, len)
  <2> DEFINE f == [p \in 0..len |-> << >>]
  <2>1. From(f, len)
    <3> SUFFICES ASSUME NEW p \in 0..len, len <= p
                 PROVE  f[p] = FoundStep(b, f, p) /\ f[p] \in Seq(Seq(Byte))
      OBVIOUS
    <3>1. p = len /\ f[p] = << >> /\ << >> \in Seq(Seq(Byte))
      OBVIOUS
    <3> QED BY <1>1, <3>1 DEF FoundStep
  <2> HIDE DEF f
  <2> QED BY <2>1
<1> HIDE DEF From
<1>4. /\ Missing \in SUBSET Nat
      /\ \A m \in Missing : m \in 0..len /\ ~ \E f : From(f, len - m)
      /\ \A m \in 0..len : m \notin Missing => \E f : From(f, len - m)
  OBVIOUS
<1> HIDE DEF Missing
<1>5. Missing = {}
  <2> SUFFICES ASSUME Missing # {} PROVE FALSE
    OBVIOUS
  <2>1. PICK m \in Missing : \A k \in Missing : m <= k
    BY <1>4, LeastElement
  <2>2. m # 0
    <3>1. len - 0 = len
      OBVIOUS
    <3> QED BY <1>3, <1>4, <2>1, <3>1
  <2>3. m \in 0..len /\ m - 1 \in 0..len /\ ~(m <= m - 1)
    BY <1>4, <2>1, <2>2
  <2>4. m - 1 \notin Missing
    BY <2>1, <2>3
  <2>5. \E f : From(f, len - (m - 1))
    BY <1>4, <2>3, <2>4
  <2>6. len - (m - 1) \in 0..len /\ len - (m - 1) # 0 /\ len - (m - 1) - 1 = len - m
    BY <2>2, <2>3
  <2>7. \E f : From(f, len - m)
    BY <1>2, <2>5, <2>6
  <2> QED BY <1>4, <2>1, <2>7
<1>6. PICK f : From(f, 0)
  <2>1. len \notin Missing /\ len \in 0..len /\ len - len = 0
    BY <1>5
  <2> QED BY <1>4, <2>1
<1> DEFINE g == [p \in 0..len |-> f[p]]
<1>7. \A p \in 0..len : g[p] = f[p] /\ f[p] = FoundStep(b, f, p) /\ g[p] \in Seq(Seq(Byte))
  BY <1>6 DEF From
<1>8. g \in [0..len -> Seq(Seq(Byte))]
  BY <1>7
<1> HIDE DEF g
<1>9. \A p \in 0..len : g[p] = FoundStep(b, g, p)
  <2> SUFFICES ASSUME NEW p \in 0..len PROVE g[p] = FoundStep(b, g, p)
    OBVIOUS
  <2>1. FoundStep(b, g, p) = FoundStep(b, f, p)
    BY <1>1, <1>7, StepAhead
  <2> QED BY <1>7, <2>1
<1> QED BY <1>1, <1>8, <1>9 DEF IsFound

(* And only one. *)
LEMMA FoundUnique ==
  ASSUME NEW b \in Seq(Byte), NEW g, IsFound(b, g),
         NEW h, \A p \in 0..Len(b) : h[p] = FoundStep(b, h, p)
  PROVE  \A p \in 0..Len(b) : h[p] = g[p]
<1>1. PICK len \in Nat : len = Len(b)
  BY LenProperties
<1> DEFINE Differ == { m \in 0..len : h[len - m] # g[len - m] }
<1>2. Differ = {}
  <2> SUFFICES ASSUME Differ # {} PROVE FALSE
    OBVIOUS
  <2>1. PICK m \in Differ : \A k \in Differ : m <= k
    <3>1. Differ \in SUBSET Nat
      OBVIOUS
    <3> HIDE DEF Differ
    <3> QED BY <3>1, LeastElement
  <2> DEFINE p == len - m
  <2>2. p \in 0..len
    OBVIOUS
  <2>3. ASSUME NEW q \in 0..len, p < q
        PROVE  g[q] = h[q] /\ g[q] \in Seq(Seq(Byte))
    <3>1. len - q \in 0..len /\ ~(m <= len - q) /\ len - (len - q) = q
      BY <2>3
    <3>2. len - q \notin Differ
      BY <2>1, <3>1
    <3> QED BY <1>1, <3>1, <3>2 DEF IsFound
  <2>4. FoundStep(b, g, p) = FoundStep(b, h, p)
    <3> HIDE DEF p
    <3> QED BY <1>1, <2>2, <2>3, StepAhead
  <2>5. g[p] = FoundStep(b, g, p) /\ h[p] = FoundStep(b, h, p)
    <3> HIDE DEF p
    <3> QED BY <1>1, <2>2 DEF IsFound
  <2> QED BY <2>4, <2>5
<1> SUFFICES ASSUME NEW p \in 0..len PROVE h[p] = g[p]
  BY <1>1
<1>3. len - p \in 0..len /\ len - (len - p) = p
  OBVIOUS
<1> QED BY <1>2, <1>3

LEMMA FramesUnfold ==
  ASSUME NEW b \in Seq(Byte)
  PROVE  \E f : IsFound(b, f) /\ FramesIn(b) = f[0]
<1> DEFINE Solves(f) == f = [p \in 0..Len(b) |-> FoundStep(b, f, p)]
           found == CHOOSE f : Solves(f)
<1>1. FramesIn(b) = found[0]
  BY DEF FramesIn, FoundStep
<1>2. Solves(found)
  <2>1. PICK f : IsFound(b, f)
    BY FoundExists
  <2>2. Solves(f)
    BY <2>1 DEF IsFound
  <2> HIDE DEF Solves
  <2> QED BY <2>2
<1> HIDE DEF found
<1>3. IsFound(b, found)
  <2>1. PICK f : IsFound(b, f)
    BY FoundExists
  <2>2. found = [p \in 0..Len(b) |-> FoundStep(b, found, p)]
    BY <1>2, Zenon
  <2>3. \A p \in 0..Len(b) : found[p] = FoundStep(b, found, p)
    BY <2>2, Zenon
  <2>4. \A p \in 0..Len(b) : found[p] = f[p]
    BY <2>1, <2>3, FoundUnique
  <2>5. \A p \in 0..Len(b) : found[p] \in Seq(Seq(Byte))
    BY <2>1, <2>4 DEF IsFound
  <2>6. found \in [0..Len(b) -> Seq(Seq(Byte))]
    <3> DEFINE e(p) == FoundStep(b, found, p)
    <3>1. found = [p \in 0..Len(b) |-> e(p)] /\ \A p \in 0..Len(b) : e(p) \in Seq(Seq(Byte))
      BY <2>2, <2>3, <2>5
    <3> HIDE DEF e
    <3> QED BY <3>1, Zenon
  <2> QED BY <2>3, <2>6 DEF IsFound
<1> QED BY <1>1, <1>3

(* Behind an offset the frames are those the function has there. *)
LEMMA FramesBehind ==
  ASSUME NEW b \in Seq(Byte), NEW f, IsFound(b, f), NEW c \in 0..Len(b)
  PROVE  FramesIn(Behind(b, c)) = f[c]
<1>1. PICK len \in Nat : len = Len(b)
  BY LenProperties
<1> DEFINE a == Behind(b, c)
           rest == len - c
           h == [p \in 0..rest |-> f[c + p]]
<1>2. /\ a \in Seq(Byte) /\ Len(a) = rest /\ rest \in Nat /\ c \in Nat /\ c + rest = len
      /\ 0 \in 0..rest
  BY <1>1, BehindAgrees
<1>3. \A p \in 0..rest :
        /\ c + p \in 0..len
        /\ RefutedAt(a, p) <=> RefutedAt(b, c + p)
        /\ ValidAt(a, p) <=> ValidAt(b, c + p)
  <2>1. \A p \in 0..rest : p \in Nat /\ c + p \in 0..len
    BY <1>1, <1>2
  <2>2. \A p \in Nat : /\ RefutedAt(a, p) <=> RefutedAt(b, c + p)
                       /\ ValidAt(a, p) <=> ValidAt(b, c + p)
    BY Shift
  <2> HIDE DEF a, rest
  <2> QED BY <2>1, <2>2
<1>4. \A p \in 0..rest : ValidAt(a, p) =>
        /\ TotalAt(a, p) \in 7..262 /\ p + TotalAt(a, p) \in 0..rest
        /\ TotalAt(a, p) = TotalAt(b, c + p) /\ FrameAt(a, p) = FrameAt(b, c + p)
  <2> SUFFICES ASSUME NEW p \in 0..rest, ValidAt(a, p)
               PROVE  /\ TotalAt(a, p) \in 7..262 /\ p + TotalAt(a, p) \in 0..rest
                      /\ TotalAt(a, p) = TotalAt(b, c + p) /\ FrameAt(a, p) = FrameAt(b, c + p)
    OBVIOUS
  <2>1. p \in Nat /\ CompleteAt(a, p)
    BY <1>2 DEF ValidAt
  <2>2. TotalAt(a, p) \in 7..262 /\ p + TotalAt(a, p) \in 0..rest
    BY <1>2, <2>1, CompleteIsFrame
  <2>3. TotalAt(a, p) = TotalAt(b, c + p) /\ FrameAt(a, p) = FrameAt(b, c + p)
    BY <1>1, <2>1, Shift
  <2> QED BY <2>2, <2>3
<1> HIDE DEF a, rest
<1>5. \A p \in 0..rest : h[p] = f[c + p]
  OBVIOUS
<1> HIDE DEF h
<1>6. ASSUME NEW p \in 0..rest PROVE h[p] = FoundStep(a, h, p)
  <2>1. h[p] = FoundStep(b, f, c + p)
    BY <1>1, <1>3, <1>5 DEF IsFound
  <2>2. p = rest <=> c + p = len
    BY <1>1, <1>2
  <2>3. CASE p = rest
    BY <1>1, <1>2, <2>1, <2>2, <2>3 DEF FoundStep
  <2>4. CASE p # rest /\ RefutedAt(a, p)
    <3>1. p + 1 \in 0..rest /\ c + (p + 1) = c + p + 1
      BY <1>2, <2>4
    <3>2. h[p + 1] = f[c + p + 1]
      BY <1>5, <3>1
    <3> QED BY <1>1, <1>2, <1>3, <2>1, <2>2, <2>4, <3>2 DEF FoundStep
  <2>5. CASE p # rest /\ ~RefutedAt(a, p) /\ ValidAt(a, p)
    <3>1. PICK t \in 7..262 : t = TotalAt(a, p)
      BY <1>4, <2>5
    <3>2. t = TotalAt(b, c + p) /\ p + t \in 0..rest /\ FrameAt(a, p) = FrameAt(b, c + p)
      BY <1>4, <2>5, <3>1
    <3>3. c + (p + t) = c + p + t
      BY <1>2
    <3>4. h[p + t] = f[c + p + t]
      BY <1>5, <3>2, <3>3
    <3>5. FoundStep(a, h, p) = << FrameAt(a, p) >> \o h[p + t]
      BY <1>2, <2>5, <3>1 DEF FoundStep
    <3>6. FoundStep(b, f, c + p) = << FrameAt(b, c + p) >> \o f[c + p + t]
      BY <1>1, <1>3, <2>2, <2>5, <3>2 DEF FoundStep
    <3> QED BY <2>1, <3>2, <3>4, <3>5, <3>6
  <2>6. CASE p # rest /\ ~RefutedAt(a, p) /\ ~ValidAt(a, p)
    BY <1>1, <1>2, <1>3, <2>1, <2>2, <2>6 DEF FoundStep
  <2> QED BY <2>3, <2>4, <2>5, <2>6
<1>7. PICK g : IsFound(a, g) /\ FramesIn(a) = g[0]
  BY <1>2, FramesUnfold
<1>8. \A p \in 0..rest : h[p] = g[p]
  BY <1>2, <1>6, <1>7, FoundUnique
<1>9. h[0] = f[c]
  <2>1. c + 0 = c
    BY <1>2
  <2> QED BY <1>2, <1>5, <2>1
<1> QED BY <1>2, <1>7, <1>8, <1>9 DEF a

LEMMA FramesTyped ==
  ASSUME NEW b \in Seq(Byte)
  PROVE  FramesIn(b) \in Seq(Seq(Byte))
<1>1. PICK f : IsFound(b, f) /\ FramesIn(b) = f[0]
  BY FramesUnfold
<1>2. 0 \in 0..Len(b)
  BY LenProperties
<1> QED BY <1>1, <1>2 DEF IsFound

(* Refuted offsets hold no frames: those of b start behind them. *)
LEMMA FramesSkip ==
  ASSUME NEW b \in Seq(Byte), NEW c \in 0..Len(b), \A q \in 0..(c - 1) : RefutedAt(b, q)
  PROVE  FramesIn(b) = FramesIn(Behind(b, c))
<1>1. PICK len \in Nat : len = Len(b)
  BY LenProperties
<1>2. PICK f : IsFound(b, f) /\ FramesIn(b) = f[0]
  BY FramesUnfold
<1> DEFINE Differ == { m \in 0..c : f[c - m] # f[c] }
<1>3. c \in Nat /\ c <= len
  BY <1>1
<1>4. Differ = {}
  <2> SUFFICES ASSUME Differ # {} PROVE FALSE
    OBVIOUS
  <2>1. PICK m \in Differ : \A k \in Differ : m <= k
    <3>1. Differ \in SUBSET Nat
      BY <1>3
    <3> HIDE DEF Differ
    <3> QED BY <3>1, LeastElement
  <2>2. m # 0
    <3>1. c - 0 = c
      BY <1>3
    <3> QED BY <2>1, <3>1
  <2>3. /\ m - 1 \in 0..c /\ ~(m <= m - 1) /\ c - (m - 1) = c - m + 1
        /\ c - m \in 0..(c - 1) /\ c - m \in 0..len /\ c - m # len
    BY <1>3, <2>1, <2>2
  <2>4. f[c - m + 1] = f[c]
    <3>1. m - 1 \notin Differ
      BY <2>1, <2>3
    <3> QED BY <2>3, <3>1
  <2>5. f[c - m] = f[c - m + 1]
    BY <1>1, <1>2, <2>3 DEF IsFound, FoundStep
  <2> QED BY <2>1, <2>4, <2>5
<1>5. f[0] = f[c]
  <2>1. c \in 0..c /\ c - c = 0
    BY <1>3
  <2> QED BY <1>4, <2>1
<1> QED BY <1>2, <1>5, FramesBehind

(* A valid frame at the start is the first of the frames. *)
LEMMA FramesTake ==
  ASSUME NEW b \in Seq(Byte), NEW c \in 0..Len(b), ValidAt(b, c),
         \A q \in 0..(c - 1) : RefutedAt(b, q)
  PROVE  /\ c + TotalAt(b, c) \in 0..Len(b)
         /\ FramesIn(b) = << FrameAt(b, c) >> \o FramesIn(Behind(b, c + TotalAt(b, c)))
<1>1. PICK len \in Nat : len = Len(b)
  BY LenProperties
<1>2. PICK f : IsFound(b, f)
  BY FoundExists
<1>3. /\ TotalAt(b, c) \in 7..262 /\ c + TotalAt(b, c) \in 0..len
      /\ c # len /\ ~RefutedAt(b, c)
  <2>1. c \in Nat /\ CompleteAt(b, c)
    BY <1>1 DEF ValidAt
  <2>2. TotalAt(b, c) \in 7..262 /\ c + TotalAt(b, c) \in 0..len
    BY <1>1, <2>1, CompleteIsFrame
  <2>3. PICK t \in 7..262 : t = TotalAt(b, c)
    BY <2>2
  <2>4. c + t <= len /\ c # len
    <3>1. c \in 0..len /\ c + t \in 0..len
      BY <1>1, <2>2, <2>3
    <3> QED BY <3>1
  <2>5. ~RefutedAt(b, c)
    BY DEF RefutedAt, ValidAt, StxAt
  <2> QED BY <2>2, <2>4, <2>5
<1>4. FramesIn(b) = f[c]
  BY <1>2, FramesSkip, FramesBehind
<1>5. f[c] = << FrameAt(b, c) >> \o f[c + TotalAt(b, c)]
  BY <1>1, <1>2, <1>3 DEF IsFound, FoundStep
<1>6. f[c + TotalAt(b, c)] = FramesIn(Behind(b, c + TotalAt(b, c)))
  BY <1>1, <1>2, <1>3, FramesBehind
<1> QED BY <1>1, <1>3, <1>4, <1>5, <1>6

(* Nothing has been found where a frame may still be arriving. *)
LEMMA FramesNone ==
  ASSUME NEW b \in Seq(Byte), b # << >> => ~RefutedAt(b, 0) /\ ~ValidAt(b, 0)
  PROVE  FramesIn(b) = << >>
<1>1. PICK f : IsFound(b, f) /\ FramesIn(b) = f[0]
  BY FramesUnfold
<1>2. 0 \in 0..Len(b) /\ (b = << >> => Len(b) = 0)
  BY LenProperties
<1>3. f[0] = FoundStep(b, f, 0)
  BY <1>1, <1>2 DEF IsFound
<1> QED BY <1>1, <1>2, <1>3 DEF FoundStep

(* Cutting off what lies before more bytes come cuts off the same. *)
LEMMA BehindConcat ==
  ASSUME NEW b \in Seq(Byte), NEW x \in Seq(Byte), NEW c \in 0..Len(b)
  PROVE  /\ c \in 0..Len(b \o x)
         /\ Behind(b \o x, c) = Behind(b, c) \o x
<1>1. PICK len \in Nat, more \in Nat : len = Len(b) /\ more = Len(x)
  BY LenProperties
<1>2. /\ b \o x \in Seq(Byte) /\ Len(b \o x) = len + more
      /\ \A i \in 1..(len + more) : (b \o x)[i] = IF i <= len THEN b[i] ELSE x[i - len]
  BY <1>1, ConcatProperties
<1>3. c \in Nat /\ c <= len /\ c \in 0..(len + more)
  BY <1>1
<1>4. /\ Behind(b, c) \in Seq(Byte) /\ Len(Behind(b, c)) = len - c
      /\ \A i \in 1..(len - c) : Behind(b, c)[i] = b[c + i]
  BY <1>1, BehindAgrees DEF Agree
<1> DEFINE u == b \o x
           n == len - c
<1>5. /\ Behind(u, c) \in Seq(Byte) /\ Len(Behind(u, c)) = len + more - c
      /\ \A i \in 1..(len + more - c) : Behind(u, c)[i] = u[c + i]
  <2>1. u \in Seq(Byte) /\ Len(u) = len + more /\ c \in 0..Len(u)
    BY <1>2, <1>3
  <2> HIDE DEF u
  <2>2. /\ Behind(u, c) \in Seq(Byte) /\ Len(Behind(u, c)) = Len(u) - c
        /\ Agree(Behind(u, c), u, c, Len(u) - c)
    BY <2>1, BehindAgrees, Zenon
  <2> QED BY <2>1, <2>2 DEF Agree
<1>6. /\ Behind(b, c) \o x \in Seq(Byte) /\ Len(Behind(b, c) \o x) = n + more
      /\ \A i \in 1..(n + more) :
           (Behind(b, c) \o x)[i] = IF i <= n THEN Behind(b, c)[i] ELSE x[i - n]
  <2> DEFINE a == Behind(b, c)
  <2>1. a \in Seq(Byte) /\ Len(a) = n
    BY <1>4
  <2> HIDE DEF a, n
  <2>2. /\ a \o x \in Seq(Byte) /\ Len(a \o x) = n + more
        /\ \A i \in 1..(n + more) : (a \o x)[i] = IF i <= n THEN a[i] ELSE x[i - n]
    BY <1>1, <2>1, ConcatProperties
  <2> QED BY <2>2 DEF a
<1>7. n \in Nat /\ len + more - c = n + more /\ len = c + n
  BY <1>3
<1>8. ASSUME NEW i \in 1..(n + more)
      PROVE  Behind(u, c)[i] = (Behind(b, c) \o x)[i]
  <2>1. /\ c + i \in 1..(len + more) /\ (c + i <= len <=> i <= n)
        /\ c + i - len = i - n
    BY <1>3, <1>7
  <2>2. Behind(u, c)[i] = IF i <= n THEN b[c + i] ELSE x[i - n]
    <3>1. u[c + i] = IF i <= n THEN b[c + i] ELSE x[i - n]
      BY <1>2, <2>1
    <3>2. i \in 1..(len + more - c)
      BY <1>7
    <3> HIDE DEF u, n
    <3> QED BY <1>5, <3>1, <3>2
  <2>3. i <= n => i \in 1..n
    BY <1>7
  <2> QED BY <1>4, <1>6, <2>2, <2>3
<1>9. Behind(u, c) = Behind(b, c) \o x
  BY <1>5, <1>6, <1>7, <1>8, SeqEqual
<1> QED BY <1>2, <1>3, <1>9

(* Refuted bytes in front, and the frame behind them, are cut off with the same
   effect before more bytes come. *)
LEMMA RefutedBefore ==
  ASSUME NEW b \in Seq(Byte), NEW x \in Seq(Byte), NEW c \in 0..Len(b),
         \A q \in 0..(c - 1) : RefutedAt(b, q)
  PROVE  /\ b \o x \in Seq(Byte) /\ c \in 0..Len(b \o x)
         /\ \A q \in 0..(c - 1) : RefutedAt(b \o x, q)
<1>1. b \o x \in Seq(Byte) /\ c \in 0..Len(b \o x)
  BY BehindConcat, ConcatProperties
<1>2. \A q \in 0..(c - 1) : RefutedAt(b \o x, q)
  <2>1. \A q \in 0..(c - 1) : q \in Nat
    BY LenProperties
  <2> QED BY <2>1, Stable
<1> QED BY <1>1, <1>2

LEMMA FramesDrop ==
  ASSUME NEW b \in Seq(Byte), NEW x \in Seq(Byte), NEW c \in 0..Len(b),
         \A q \in 0..(c - 1) : RefutedAt(b, q)
  PROVE  FramesIn(b \o x) = FramesIn(Behind(b, c) \o x)
<1>1. /\ b \o x \in Seq(Byte) /\ c \in 0..Len(b \o x)
      /\ \A q \in 0..(c - 1) : RefutedAt(b \o x, q)
  BY RefutedBefore
<1>2. FramesIn(b \o x) = FramesIn(Behind(b \o x, c))
  BY <1>1, FramesSkip
<1> QED BY <1>2, BehindConcat

LEMMA FramesGain ==
  ASSUME NEW b \in Seq(Byte), NEW x \in Seq(Byte), NEW c \in 0..Len(b),
         \A q \in 0..(c - 1) : RefutedAt(b, q), ValidAt(b, c)
  PROVE  FramesIn(b \o x) =
           << FrameAt(b, c) >> \o FramesIn(Behind(b, c + TotalAt(b, c)) \o x)
<1> DEFINE u == b \o x
<1>1. u \in Seq(Byte) /\ c \in 0..Len(u) /\ \A q \in 0..(c - 1) : RefutedAt(u, q)
  BY RefutedBefore
<1>2. c \in Nat
  BY LenProperties
<1>3. CompleteAt(b, c) /\ ValidAt(u, c) /\ CompleteAt(u, c) /\ FrameAt(u, c) = FrameAt(b, c)
  BY <1>2, Stable DEF ValidAt
<1>4. /\ c + TotalAt(b, c) \in 0..Len(b)
      /\ Len(FrameAt(b, c)) = TotalAt(b, c) /\ Len(FrameAt(u, c)) = TotalAt(u, c)
  <2> HIDE DEF u
  <2> QED BY <1>1, <1>2, <1>3, CompleteIsFrame
<1>5. TotalAt(u, c) = TotalAt(b, c)
  BY <1>3, <1>4, Zenon
<1>6. FramesIn(u) = << FrameAt(u, c) >> \o FramesIn(Behind(u, c + TotalAt(u, c)))
  <2> HIDE DEF u
  <2> QED BY <1>1, <1>3, FramesTake
<1>7. Behind(u, c + TotalAt(b, c)) = Behind(b, c + TotalAt(b, c)) \o x
  BY <1>4, BehindConcat
<1> QED BY <1>3, <1>5, <1>6, <1>7, Zenon

(* The frames of what the parser holds, whatever comes behind it: the frame it
   finds now, and those of what it keeps. *)
LEMMA FramesNext ==
  ASSUME NEW b \in Seq(Byte), NEW x \in Seq(Byte)
  PROVE  LET next == NextFrame(b)
         IN  /\ next.frame # NoFrame =>
                  FramesIn(b \o x) = << next.frame >> \o FramesIn(next.rest \o x)
             /\ next.frame = NoFrame =>
                  /\ FramesIn(b \o x) = FramesIn(next.rest \o x)
                  /\ FramesIn(next.rest) = << >>
<1>1. PICK len \in Nat : len = Len(b)
  BY LenProperties
<1>2. PICK p \in 0..len : StartsAt(b, p)
  BY <1>1, StartExists
<1>3. p \in 0..Len(b) /\ \A q \in 0..(p - 1) : RefutedAt(b, q)
  BY <1>2 DEF StartsAt
<1>4. CASE p < len /\ ValidAt(b, p)
  <2>1. NextFrame(b) = [frame |-> FrameAt(b, p), rest |-> Behind(b, p + TotalAt(b, p))]
    BY <1>1, <1>2, <1>4, NextFrameIs
  <2>2. FrameAt(b, p) # NoFrame
    <3>1. p \in Nat /\ CompleteAt(b, p)
      BY <1>4 DEF ValidAt
    <3>2. Len(FrameAt(b, p)) = TotalAt(b, p) /\ TotalAt(b, p) \in 7..262
      BY <3>1, CompleteIsFrame
    <3>3. PICK t \in 7..262 : t = TotalAt(b, p)
      BY <3>2
    <3>4. Len(FrameAt(b, p)) = t
      BY <3>2, <3>3, Zenon
    <3>5. t # 0
      OBVIOUS
    <3> QED BY <3>4, <3>5 DEF NoFrame
  <2>3. FramesIn(b \o x) = << FrameAt(b, p) >> \o FramesIn(Behind(b, p + TotalAt(b, p)) \o x)
    BY <1>3, <1>4, FramesGain
  <2>4. NextFrame(b).frame = FrameAt(b, p) /\ NextFrame(b).rest = Behind(b, p + TotalAt(b, p))
    BY <2>1
  <2> QED BY <2>2, <2>3, <2>4
<1>5. CASE ~(p < len /\ ValidAt(b, p))
  <2>1. NextFrame(b) = [frame |-> NoFrame, rest |-> Behind(b, p)]
    BY <1>1, <1>2, <1>5, NextFrameIs
  <2>2. FramesIn(b \o x) = FramesIn(Behind(b, p) \o x)
    BY <1>3, FramesDrop
  <2>3. FramesIn(Behind(b, p)) = << >>
    <3>1. Behind(b, p) \in Seq(Byte) /\ Len(Behind(b, p)) = len - p
      BY <1>1, BehindAgrees
    <3>2. Behind(b, p) # << >> => p < len
      BY <3>1, EmptySeq
    <3>3. p + 0 = p
      OBVIOUS
    <3>4. p < len => ~RefutedAt(Behind(b, p), 0) /\ ~ValidAt(Behind(b, p), 0)
      BY <1>1, <1>2, <1>5, <3>3, Shift DEF StartsAt
    <3> QED BY <3>1, <3>2, <3>4, FramesNone
  <2> QED BY <2>1, <2>2, <2>3
<1> QED BY <1>4, <1>5

-----------------------------------------------------------------------------
(* What NextFrame finds in the bytes of s behind c. *)
LEMMA BehindBehind ==
  ASSUME NEW s \in Seq(Byte), NEW c \in 0..Len(s), NEW d \in 0..(Len(s) - c)
  PROVE  /\ c + d \in 0..Len(s)
         /\ Behind(Behind(s, c), d) = Behind(s, c + d)
<1>1. PICK len \in Nat : len = Len(s)
  BY LenProperties
<1>2. c \in Nat /\ d \in Nat /\ c + d \in 0..len
  BY <1>1
<1> DEFINE b == Behind(s, c)
           a == Behind(b, d)
           e == Behind(s, c + d)
           n == len - c - d
<1>3. b \in Seq(Byte) /\ Len(b) = len - c /\ \A i \in 1..(len - c) : b[i] = s[c + i]
  BY <1>1, BehindAgrees DEF Agree
<1>4. e \in Seq(Byte) /\ Len(e) = len - (c + d) /\ \A i \in 1..(len - (c + d)) : e[i] = s[c + d + i]
  BY <1>1, <1>2, BehindAgrees DEF Agree
<1>5. a \in Seq(Byte) /\ Len(a) = len - c - d /\ \A i \in 1..(len - c - d) : a[i] = b[d + i]
  <2>1. d \in 0..Len(b)
    BY <1>1, <1>3
  <2> HIDE DEF b
  <2>2. a \in Seq(Byte) /\ Len(a) = Len(b) - d /\ Agree(a, b, d, Len(b) - d)
    BY <1>3, <2>1, BehindAgrees, Zenon
  <2> HIDE DEF a
  <2> QED BY <1>3, <2>2 DEF Agree
<1>6. n \in Nat /\ len - (c + d) = n
  BY <1>1, <1>2
<1> HIDE DEF b, a, e
<1>7. ASSUME NEW i \in 1..n PROVE a[i] = e[i]
  <2>1. d + i \in 1..(len - c) /\ c + (d + i) = c + d + i
    BY <1>2
  <2>2. b[d + i] = s[c + d + i]
    BY <1>3, <2>1
  <2> QED BY <1>4, <1>5, <1>6, <2>2
<1>8. Len(a) = n /\ Len(e) = n
  BY <1>4, <1>5, <1>6
<1>9. a = e
  BY <1>4, <1>5, <1>7, <1>8, SeqEqual
<1> QED BY <1>1, <1>2, <1>9 DEF a, b, e

LEMMA NextFrameBehind ==
  ASSUME NEW s \in Seq(Byte), NEW c \in 0..Len(s), NEW d \in 0..(Len(s) - c),
         \A p \in c..(c + d - 1) : RefutedAt(s, p), ValidAt(s, c + d)
  PROVE  NextFrame(Behind(s, c)) = [frame |-> FrameAt(s, c + d),
                                    rest |-> Behind(s, c + d + TotalAt(s, c + d))]
<1>1. PICK len \in Nat : len = Len(s)
  BY LenProperties
<1> DEFINE b == Behind(s, c)
<1>2. b \in Seq(Byte) /\ Len(b) = len - c /\ c \in Nat /\ d \in Nat
  BY <1>1, BehindAgrees
<1>3. /\ ValidAt(b, d) /\ CompleteAt(b, d)
      /\ TotalAt(b, d) = TotalAt(s, c + d) /\ FrameAt(b, d) = FrameAt(s, c + d)
  <2>1. ValidAt(b, d)
    BY <1>2, Shift
  <2>2. CompleteAt(b, d)
    BY <2>1 DEF ValidAt
  <2> QED BY <1>2, <2>1, <2>2, Shift
<1>4. \A q \in 0..(d - 1) : RefutedAt(b, q)
  <2> SUFFICES ASSUME NEW q \in 0..(d - 1) PROVE RefutedAt(b, q)
    OBVIOUS
  <2>1. q \in Nat /\ c + q \in c..(c + d - 1)
    BY <1>2
  <2> QED BY <2>1, Shift
<1> HIDE DEF b
<1>5. TotalAt(b, d) \in 7..262 /\ d + TotalAt(b, d) \in 0..Len(b)
  BY <1>2, <1>3, CompleteIsFrame
<1>6. PICK t \in 7..262 : t = TotalAt(b, d) /\ d + t \in 0..Len(b)
  BY <1>5
<1>7. d < Len(b) /\ d + t \in 0..(len - c) /\ c + (d + t) = c + d + t
  <2>1. d + t \in 0..(len - c)
    BY <1>2, <1>6
  <2>2. d < len - c /\ c + (d + t) = c + d + t
    BY <1>2, <2>1
  <2> QED BY <1>2, <2>1, <2>2
<1>8. StartsAt(b, d)
  <2>1. ~RefutedAt(b, d)
    BY <1>3 DEF RefutedAt, ValidAt, StxAt
  <2>2. d \in 0..Len(b)
    BY <1>1, <1>2
  <2> QED BY <1>4, <2>1, <2>2 DEF StartsAt
<1>9. NextFrame(b) = [frame |-> FrameAt(b, d), rest |-> Behind(b, d + TotalAt(b, d))]
  BY <1>2, <1>3, <1>7, <1>8, NextFrameIs
<1>10. Behind(b, d + t) = Behind(s, c + d + t)
  <2>1. Behind(Behind(s, c), d + t) = Behind(s, c + (d + t))
    BY <1>1, <1>7, BehindBehind
  <2> QED BY <1>7, <2>1 DEF b
<1> QED BY <1>3, <1>6, <1>9, <1>10 DEF b

LEMMA NoFrameBehind ==
  ASSUME NEW s \in Seq(Byte), NEW c \in 0..Len(s), NEW d \in 0..(Len(s) - c),
         \A p \in c..(c + d - 1) : RefutedAt(s, p),
         LET a == Behind(s, c + d)
         IN  Len(a) < kFrameOverhead \/ (~RefutedAt(a, 0) /\ Len(a) < TotalAt(a, 0))
  PROVE  NextFrame(Behind(s, c)).frame = NoFrame
<1>1. PICK len \in Nat : len = Len(s)
  BY LenProperties
<1> DEFINE b == Behind(s, c)
           a == Behind(s, c + d)
<1>2. b \in Seq(Byte) /\ Len(b) = len - c /\ c \in Nat /\ d \in Nat /\ d \in 0..(len - c)
  BY <1>1, BehindAgrees
<1>3. Behind(b, d) = a
  BY <1>1, BehindBehind
<1>4. \A q \in 0..(d - 1) : RefutedAt(b, q)
  <2> SUFFICES ASSUME NEW q \in 0..(d - 1) PROVE RefutedAt(b, q)
    OBVIOUS
  <2>1. q \in Nat /\ c + q \in c..(c + d - 1)
    BY <1>2
  <2> QED BY <2>1, Shift
<1>5. Len(a) < kFrameOverhead \/ (~RefutedAt(a, 0) /\ Len(a) < TotalAt(a, 0))
  OBVIOUS
<1> HIDE DEF b
<1>6. PICK p \in 0..Len(b) : StartsAt(b, p)
  BY <1>2, StartExists
<1>7. ASSUME ValidAt(b, p) PROVE FALSE
  <2>1. ~RefutedAt(b, p)
    BY <1>7 DEF RefutedAt, ValidAt, StxAt
  <2>2. p \in Nat /\ p >= d
    <3>1. p \in Nat
      BY <1>2
    <3>2. p < d => p \in 0..(d - 1)
      BY <1>2, <3>1
    <3> QED BY <1>2, <1>4, <2>1, <3>1, <3>2
  <2> DEFINE q == p - d
  <2>3. q \in Nat /\ d + q = p /\ d \in 0..Len(b)
    BY <1>2, <2>2
  <2> HIDE DEF q
  <2>4. ValidAt(a, q) /\ CompleteAt(a, q)
    <3>1. ValidAt(Behind(b, d), q)
      BY <1>2, <1>7, <2>3, Shift
    <3> QED BY <1>3, <3>1 DEF ValidAt
  <2>5. a \in Seq(Byte) /\ Len(a) \in Nat
    BY <1>1, <1>2, <1>3, <2>3, BehindAgrees, LenProperties
  <2>6. q + 7 <= Len(a)
    BY <2>4 DEF CompleteAt, kFrameOverhead
  <2>7. ~(Len(a) < kFrameOverhead)
    <3> HIDE DEF a
    <3> QED BY <2>3, <2>5, <2>6 DEF kFrameOverhead
  <2>8. ~RefutedAt(b, d)
    <3>1. d + 0 = d /\ 0 \in Nat
      BY <1>2
    <3>2. RefutedAt(Behind(b, d), 0) <=> RefutedAt(b, d + 0)
      BY <1>2, <2>3, <3>1, Shift
    <3> QED BY <1>3, <1>5, <2>7, <3>1, <3>2
  <2>9. p = d
    <3>1. d < p => d \in 0..(p - 1)
      BY <1>2, <2>2
    <3> QED BY <1>2, <1>6, <2>2, <2>8, <3>1 DEF StartsAt
  <2>10. q = 0 /\ TotalAt(a, 0) \in 7..262 /\ 0 + TotalAt(a, 0) \in 0..Len(a)
    <3>1. q = 0
      BY <1>2, <2>3, <2>9
    <3> QED BY <2>4, <2>5, <3>1, CompleteIsFrame
  <2>11. PICK t \in 7..262 : t = TotalAt(a, 0) /\ 0 + t \in 0..Len(a)
    BY <2>10
  <2>12. t <= Len(a)
    <3> HIDE DEF a
    <3> QED BY <2>5, <2>11
  <2>13. Len(a) < t
    BY <1>5, <2>7, <2>11
  <2> HIDE DEF a
  <2> QED BY <2>5, <2>12, <2>13
<1>8. NextFrame(b) = [frame |-> NoFrame, rest |-> Behind(b, p)]
  BY <1>2, <1>6, <1>7, NextFrameIs
<1> QED BY <1>8 DEF b

-----------------------------------------------------------------------------
(* What encodeFrame makes is a frame to every reader: the parser returns it
   from any buffer that starts with it, the datagram check and the header check
   accept it.  The payload has at most 255 bytes, for the length is one byte, and
   crc16 returns a uint16_t. *)
CrcIsWord == \A m \in Seq(Byte) : Crc16(m) \in Word

LEMMA Joined ==
  ASSUME NEW a \in Seq(Byte), NEW b \in Seq(Byte)
  PROVE  /\ a \o b \in Seq(Byte) /\ Len(a \o b) = Len(a) + Len(b)
         /\ \A i \in 1..Len(a) : (a \o b)[i] = a[i]
         /\ \A i \in 1..Len(b) : (a \o b)[Len(a) + i] = b[i]
<1>1. PICK m \in Nat, k \in Nat : m = Len(a) /\ k = Len(b)
  BY LenProperties
<1>2. /\ a \o b \in Seq(Byte) /\ Len(a \o b) = m + k
      /\ \A i \in 1..(m + k) : (a \o b)[i] = IF i <= m THEN a[i] ELSE b[i - m]
  BY <1>1, ConcatProperties
<1>3. \A i \in 1..m : (a \o b)[i] = a[i]
  BY <1>2
<1>4. ASSUME NEW i \in 1..k PROVE (a \o b)[m + i] = b[i]
  <2>1. m + i \in 1..(m + k) /\ ~(m + i <= m) /\ m + i - m = i
    OBVIOUS
  <2> QED BY <1>2, <2>1
<1> QED BY <1>1, <1>2, <1>3, <1>4

LEMMA TwoBytes ==
  ASSUME NEW w \in Word
  PROVE  /\ w % 256 \in 0..255 /\ w \div 256 \in 0..255
         /\ (w % 256) + 256 * (w \div 256) = w
<1>1. w \in Int /\ 0 <= w /\ w <= 65535
  BY SMTT(60) DEF Word
<1> QED BY <1>1

LEMMA EncodedBytes ==
  ASSUME CrcIsWord, NEW payload \in Seq(Byte), Len(payload) <= 255, NEW type \in Byte
  PROVE  LET f == EncodeFrame(payload, type)
             n == Len(payload)
             body == << kProtocolVersion, n, type >> \o payload
         IN  /\ f \in Seq(Byte) /\ Len(f) = n + 7
             /\ f[1] = kStx0 /\ f[2] = kStx1 /\ f[3] = kProtocolVersion
             /\ f[4] = n /\ f[5] = type
             /\ SubSeq(f, 3, n + 5) = body
             /\ f[n + 6] + 256 * f[n + 7] = Crc16(body)
<1>0. PICK n \in Nat : n = Len(payload)
  BY LenProperties
<1>1. n \in 0..255
  <2>1. n <= 255
    BY <1>0
  <2> QED BY <2>1
<1>2. PICK t \in Byte : t = type
  OBVIOUS
<1> DEFINE front == << kStx0, kStx1 >>
           head == << kProtocolVersion, n, t >>
           body == head \o payload
<1>3. head \in Seq(Byte) /\ Len(head) = 3 /\ head[1] = 2 /\ head[2] = n /\ head[3] = t
  <2>1. 2 \in Byte /\ n \in Byte
    BY <1>1 DEF Byte
  <2> QED BY <2>1 DEF kProtocolVersion
<1>4. front \in Seq(Byte) /\ Len(front) = 2 /\ front[1] = kStx0 /\ front[2] = kStx1
  BY DEF Byte, kStx0, kStx1
<1> HIDE DEF head, front
<1>5. /\ body \in Seq(Byte) /\ Len(body) = 3 + n
      /\ body[1] = 2 /\ body[2] = n /\ body[3] = t
  <2>1. /\ body \in Seq(Byte) /\ Len(body) = Len(head) + Len(payload)
        /\ \A i \in 1..Len(head) : body[i] = head[i]
    BY <1>3, Joined
  <2> QED BY <1>0, <1>3, <2>1
<1>6. PICK w \in Word : w = Crc16(body)
  BY <1>5 DEF CrcIsWord
<1> HIDE DEF body
<1> DEFINE crc == << w % 256, w \div 256 >>
<1>7. /\ crc \in Seq(Byte) /\ Len(crc) = 2
      /\ crc[1] + 256 * crc[2] = w
  <2>1. w % 256 \in 0..255 /\ w \div 256 \in 0..255 /\ (w % 256) + 256 * (w \div 256) = w
    BY TwoBytes, Zenon
  <2> QED BY <2>1 DEF Byte
<1> HIDE DEF crc
<1> DEFINE fb == front \o body
<1>8. /\ fb \in Seq(Byte) /\ Len(fb) = n + 5
      /\ fb[1] = kStx0 /\ fb[2] = kStx1
      /\ \A i \in 1..(3 + n) : fb[2 + i] = body[i]
  <2>1. /\ fb \in Seq(Byte) /\ Len(fb) = Len(front) + Len(body)
        /\ \A i \in 1..Len(front) : fb[i] = front[i]
        /\ \A i \in 1..Len(body) : fb[Len(front) + i] = body[i]
    BY <1>4, <1>5, Joined
  <2>2. 2 + (3 + n) = n + 5
    OBVIOUS
  <2> HIDE DEF fb
  <2> QED BY <1>4, <1>5, <2>1, <2>2
<1> HIDE DEF fb
<1> DEFINE f == fb \o crc
<1>9. /\ f \in Seq(Byte) /\ Len(f) = n + 7
      /\ \A i \in 1..(n + 5) : f[i] = fb[i]
      /\ f[n + 6] = crc[1] /\ f[n + 7] = crc[2]
  <2>1. /\ f \in Seq(Byte) /\ Len(f) = Len(fb) + Len(crc)
        /\ \A i \in 1..Len(fb) : f[i] = fb[i]
        /\ \A i \in 1..Len(crc) : f[Len(fb) + i] = crc[i]
    BY <1>7, <1>8, Joined
  <2>2. /\ (n + 5) + 2 = n + 7 /\ (n + 5) + 1 = n + 6
        /\ 1 \in 1..2 /\ 2 \in 1..2
    OBVIOUS
  <2> HIDE DEF f
  <2>3. f[(n + 5) + 1] = crc[1] /\ f[(n + 5) + 2] = crc[2]
    BY <1>7, <1>8, <2>1, <2>2
  <2> QED BY <1>7, <1>8, <2>1, <2>2, <2>3
<1>10. f = EncodeFrame(payload, type)
  <2>1. n % 256 = n
    BY <1>1
  <2> QED BY <1>0, <1>2, <1>6, <2>1 DEF EncodeFrame, PutU16LE, f, fb, crc, body, head, front
<1> HIDE DEF f
<1>11. ASSUME NEW i \in 1..(3 + n) PROVE f[2 + i] = body[i]
  <2>1. 2 + i \in 1..(n + 5)
    OBVIOUS
  <2> QED BY <1>8, <1>9, <2>1
<1>12. f[1] = kStx0 /\ f[2] = kStx1
  <2>1. 1 \in 1..(n + 5) /\ 2 \in 1..(n + 5)
    OBVIOUS
  <2> QED BY <1>8, <1>9, <2>1
<1>13. f[3] = kProtocolVersion /\ f[4] = n /\ f[5] = t
  <2>1. f[2 + 1] = body[1] /\ f[2 + 2] = body[2] /\ f[2 + 3] = body[3]
    BY <1>11
  <2> QED BY <1>5, <2>1 DEF kProtocolVersion
<1>14. SubSeq(f, 3, n + 5) = body
  <2>1. \A k \in 3..(n + 5) : f[k] \in Byte
    BY <1>9, ElementOfSeq
  <2>2. 3 \in Int /\ n + 5 \in Int /\ (n + 5) - 3 + 1 = 3 + n /\ 3 <= n + 5
    OBVIOUS
  <2>3. /\ SubSeq(f, 3, n + 5) \in Seq(Byte) /\ Len(SubSeq(f, 3, n + 5)) = 3 + n
        /\ \A i \in 1..(3 + n) : SubSeq(f, 3, n + 5)[i] = f[3 + i - 1]
    BY <2>1, <2>2, SubSeqProperties
  <2>4. \A i \in 1..(3 + n) : 3 + i - 1 = 2 + i
    OBVIOUS
  <2>5. \A i \in 1..(3 + n) : SubSeq(f, 3, n + 5)[i] = body[i]
    BY <1>11, <2>3, <2>4
  <2> QED BY <1>5, <2>3, <2>5, SeqEqual
<1>15. f[n + 6] + 256 * f[n + 7] = w
  BY <1>7, <1>9
<1>16. body = << kProtocolVersion, n, t >> \o payload
  BY DEF body, head
<1> QED BY <1>0, <1>2, <1>6, <1>9, <1>10, <1>12, <1>13, <1>14, <1>15, <1>16

(* encodeFrame's frame, with at most 255 bytes of payload, is accepted by the
   datagram check and the header check, and next_frame returns it, and nothing but
   it, from a buffer it is in front of. *)
THEOREM EncodedIsFrame ==
  ASSUME CrcIsWord, NEW payload \in Seq(Byte), Len(payload) <= 255, NEW type \in Byte
  PROVE  LET f == EncodeFrame(payload, type)
         IN  /\ f \in Seq(Byte) /\ Len(f) = kFrameOverhead + Len(payload)
             /\ IsDatagramFrame(f)
             /\ ValidateFrameHeader(f, type, Len(payload))
             /\ \A x \in Seq(Byte) :
                  /\ NextFrame(f \o x) = [frame |-> f, rest |-> x]
                  /\ FramesIn(f \o x) = << f >> \o FramesIn(x)
<1>1. PICK f : f = EncodeFrame(payload, type)
  OBVIOUS
<1>2. PICK n \in Nat : n = Len(payload)
  BY LenProperties
<1>3. /\ f \in Seq(Byte) /\ Len(f) = n + 7
      /\ f[1] = kStx0 /\ f[2] = kStx1 /\ f[3] = kProtocolVersion
      /\ f[4] = n /\ f[5] = type
      /\ Crc16(SubSeq(f, 3, n + 5)) = f[n + 6] + 256 * f[n + 7]
  <2> DEFINE e == EncodeFrame(payload, type)
             l == Len(payload)
  <2>1. /\ e \in Seq(Byte) /\ Len(e) = l + 7
        /\ e[1] = kStx0 /\ e[2] = kStx1 /\ e[3] = kProtocolVersion
        /\ e[4] = l /\ e[5] = type
        /\ SubSeq(e, 3, l + 5) = << kProtocolVersion, l, type >> \o payload
        /\ e[l + 6] + 256 * e[l + 7] = Crc16(<< kProtocolVersion, l, type >> \o payload)
    BY EncodedBytes, ZenonT(40)
  <2>2. f = e /\ n = l
    BY <1>1, <1>2
  <2> HIDE DEF e, l
  <2> QED BY <2>1, <2>2, Zenon
<1>4. TotalAt(f, 0) = n + 7
  BY <1>3 DEF TotalAt, kFrameOverhead
<1>5. CrcOkAt(f, 0)
  <2>1. 0 + 3 = 3 /\ 0 + (n + 7) - 2 = n + 5 /\ n + 5 + 1 = n + 6 /\ n + 5 + 2 = n + 7
    OBVIOUS
  <2> QED BY <1>3, <1>4, <2>1 DEF CrcOkAt, GetU16LE
<1>6. StxAt(f, 0) /\ VerAt(f, 0) = kProtocolVersion
  BY <1>3 DEF StxAt, VerAt
<1>7. CompleteAt(f, 0) /\ ValidAt(f, 0)
  <2>1. 0 + (n + 7) <= n + 7 /\ 0 + 7 <= n + 7
    OBVIOUS
  <2> QED BY <1>3, <1>4, <1>5, <1>6, <2>1 DEF CompleteAt, ValidAt, kFrameOverhead
<1>8. IsDatagramFrame(f)
  BY <1>3, <1>4, <1>5, <1>6, <1>7 DEF IsDatagramFrame, CompleteAt, kFrameOverhead
<1>9. ValidateFrameHeader(f, type, n)
  <2>1. 7 + n - 2 + 1 = n + 6 /\ 7 + n - 2 + 2 = n + 7 /\ 5 + n = n + 5 /\ n + 7 >= 7 + n
    OBVIOUS
  <2> QED BY <1>3, <1>6, <2>1 DEF ValidateFrameHeader, GetU16LE, kFrameOverhead
<1>10. FrameAt(f, 0) = f /\ Behind(f, 0 + TotalAt(f, 0)) = << >>
  <2>1. 0 + (n + 7) = n + 7 /\ 0 + 1 = 1 /\ n + 7 \in Nat /\ n + 7 < n + 7 + 1
    OBVIOUS
  <2>2. FrameAt(f, 0) = f
    BY <1>3, <1>4, <2>1, SubSeqFull DEF FrameAt
  <2>3. SubSeq(f, n + 7 + 1, n + 7) = << >>
    BY <2>1, SubSeqEmpty
  <2> QED BY <1>3, <1>4, <2>1, <2>2, <2>3 DEF Behind
<1>11. 0 \in 0..Len(f) /\ \A q \in 0..(0 - 1) : RefutedAt(f, q)
  BY <1>3
<1>12. ASSUME NEW x \in Seq(Byte)
       PROVE  /\ NextFrame(f \o x) = [frame |-> f, rest |-> x]
              /\ FramesIn(f \o x) = << f >> \o FramesIn(x)
  <2> DEFINE u == f \o x
  <2>1. u \in Seq(Byte) /\ 0 \in 0..Len(u) /\ << >> \o x = x
    BY <1>3, ConcatProperties, ConcatEmptySeq, LenProperties
  <2>2. FramesIn(u) = << f >> \o FramesIn(x)
    <3>1. FramesIn(f \o x) = << FrameAt(f, 0) >> \o FramesIn(Behind(f, 0 + TotalAt(f, 0)) \o x)
      BY <1>3, <1>7, <1>11, FramesGain
    <3> QED BY <1>10, <2>1, <3>1, Zenon
  <2>3. ValidAt(u, 0) /\ FrameAt(u, 0) = f /\ CompleteAt(u, 0)
    BY <1>3, <1>7, <1>10, Stable DEF ValidAt
  <2>4. TotalAt(u, 0) = TotalAt(f, 0)
    <3>1. Len(FrameAt(u, 0)) = TotalAt(u, 0) /\ Len(FrameAt(f, 0)) = TotalAt(f, 0)
      <4> HIDE DEF u
      <4> QED BY <1>3, <1>7, <2>1, <2>3, CompleteIsFrame
    <3> QED BY <1>10, <2>3, <3>1, Zenon
  <2>5. Behind(u, 0 + TotalAt(u, 0)) = x
    <3>1. 0 + TotalAt(f, 0) \in 0..Len(f)
      BY <1>3, <1>4
    <3>2. Behind(u, 0 + TotalAt(f, 0)) = Behind(f, 0 + TotalAt(f, 0)) \o x
      BY <1>3, <3>1, BehindConcat
    <3> QED BY <1>10, <2>1, <2>4, <3>2, Zenon
  <2>6. Behind(u, 0) = u
    BY <2>1, SubSeqFull DEF Behind
  <2>7. NextFrame(Behind(u, 0)) = [frame |-> FrameAt(u, 0), rest |-> Behind(u, 0 + TotalAt(u, 0))]
    <3> HIDE DEF u
    <3>1. 0 \in 0..(Len(u) - 0) /\ 0 + 0 = 0 /\ \A q \in 0..(0 + 0 - 1) : RefutedAt(u, q)
      BY <2>1, LenProperties
    <3>2. 0 \in 0..Len(u) /\ ValidAt(u, 0 + 0)
      BY <2>1, <2>3
    <3>3. NextFrame(Behind(u, 0)) = [frame |-> FrameAt(u, 0 + 0),
                                     rest |-> Behind(u, 0 + 0 + TotalAt(u, 0 + 0))]
      BY <2>1, <3>1, <3>2, NextFrameBehind, Zenon
    <3> QED BY <3>1, <3>3, Zenon
  <2> QED BY <2>2, <2>3, <2>5, <2>6, <2>7
<1> QED BY <1>1, <1>2, <1>3, <1>8, <1>9, <1>12 DEF kFrameOverhead

LEMMA Associate ==
  ASSUME NEW a \in Seq(Seq(Byte)), NEW b \in Seq(Seq(Byte)), NEW c \in Seq(Seq(Byte))
  PROVE  a \o (b \o c) = (a \o b) \o c
BY ConcatAssociative, SMTT(30)

LEMMA AssociateBytes ==
  ASSUME NEW a \in Seq(Byte), NEW b \in Seq(Byte), NEW c \in Seq(Byte)
  PROVE  (a \o b) \o c = a \o (b \o c)
BY ConcatAssociative, SMTT(30)

LEMMA Prepend ==
  ASSUME NEW S, NEW x \in S, NEW t \in Seq(S), NEW m \in Nat, m = Len(t)
  PROVE  /\ << x >> \o t \in Seq(S) /\ Len(<< x >> \o t) = m + 1
         /\ (<< x >> \o t)[1] = x
         /\ \A j \in 1..m : (<< x >> \o t)[j + 1] = t[j]
<1>1. << x >> \in Seq(S) /\ Len(<< x >>) = 1 /\ << x >>[1] = x
  OBVIOUS
<1>2. /\ << x >> \o t \in Seq(S) /\ Len(<< x >> \o t) = 1 + m
      /\ \A j \in 1..(1 + m) : (<< x >> \o t)[j] = IF j <= 1 THEN << x >>[j] ELSE t[j - 1]
  BY <1>1, ConcatProperties
<1>3. ASSUME NEW j \in 1..m PROVE (<< x >> \o t)[j + 1] = t[j]
  <2>1. j + 1 \in 1..(1 + m) /\ ~(j + 1 <= 1) /\ j + 1 - 1 = j
    OBVIOUS
  <2> QED BY <1>2, <2>1
<1>4. 1 \in 1..(1 + m)
  OBVIOUS
<1> QED BY <1>1, <1>2, <1>3, <1>4

(* Frames sent one behind the other are the frames found in the bytes: behind[i]
   is what is sent from the i-th on. *)
THEOREM EncodedStreamIsRead ==
  ASSUME CrcIsWord, NEW n \in Nat,
         NEW payload \in [1..n -> Seq(Byte)], \A i \in 1..n : Len(payload[i]) <= 255,
         NEW type \in [1..n -> Byte],
         NEW behind \in [1..(n + 1) -> Seq(Byte)], behind[n + 1] = << >>,
         \A i \in 1..n : behind[i] = EncodeFrame(payload[i], type[i]) \o behind[i + 1]
  PROVE  FramesIn(behind[1]) = [i \in 1..n |-> EncodeFrame(payload[i], type[i])]
<1> DEFINE f == [i \in 1..n |-> EncodeFrame(payload[i], type[i])]
           (* the last m frames *)
           last == [m \in 0..n |-> [i \in 1..m |-> f[n - m + i]]]
           Wrong == { m \in 0..n : FramesIn(behind[n + 1 - m]) # last[m] }
<1>1. \A i \in 1..n : /\ f[i] \in Seq(Byte)
                      /\ FramesIn(behind[i]) = << f[i] >> \o FramesIn(behind[i + 1])
  <2> SUFFICES ASSUME NEW i \in 1..n
               PROVE  /\ f[i] \in Seq(Byte)
                      /\ FramesIn(behind[i]) = << f[i] >> \o FramesIn(behind[i + 1])
    OBVIOUS
  <2>1. /\ payload[i] \in Seq(Byte) /\ Len(payload[i]) <= 255 /\ type[i] \in Byte
        /\ i + 1 \in 1..(n + 1)
    <3>1. payload[i] \in Seq(Byte) /\ type[i] \in Byte
      OBVIOUS
    <3>2. i + 1 \in 1..(n + 1)
      OBVIOUS
    <3> QED BY <3>1, <3>2, Zenon
  <2>2. behind[i + 1] \in Seq(Byte)
    BY <2>1
  <2>3. /\ EncodeFrame(payload[i], type[i]) \in Seq(Byte)
        /\ FramesIn(EncodeFrame(payload[i], type[i]) \o behind[i + 1]) =
             << EncodeFrame(payload[i], type[i]) >> \o FramesIn(behind[i + 1])
    BY <2>1, <2>2, EncodedIsFrame, Zenon
  <2> QED BY <2>3
<1> HIDE DEF f
<1>2. ASSUME NEW m \in 0..n
      PROVE  /\ last[m] \in Seq(Seq(Byte)) /\ Len(last[m]) = m
             /\ \A i \in 1..m : last[m][i] = f[n - m + i]
  <2>1. \A i \in 1..m : n - m + i \in 1..n
    OBVIOUS
  <2>2. \A i \in 1..m : f[n - m + i] \in Seq(Byte)
    BY <1>1, <2>1
  <2> QED BY <2>2
<1> HIDE DEF last
<1>3. FramesIn(behind[n + 1]) = last[0]
  <2>1. FramesIn(<< >>) = << >>
    BY EmptySeq, FramesNone
  <2>2. last[0] \in Seq(Seq(Byte)) /\ Len(last[0]) = 0
    <3>1. 0 \in 0..n
      OBVIOUS
    <3> QED BY <1>2, <3>1, Zenon
  <2> QED BY <2>1, <2>2, EmptySeq
<1>4. ASSUME NEW m \in 0..(n - 1), FramesIn(behind[n + 1 - m]) = last[m]
      PROVE  FramesIn(behind[n - m]) = last[m + 1]
  <2> DEFINE i == n - m
             head == << f[i] >>
  <2>1. m \in Nat /\ m \in 0..n /\ m + 1 \in 0..n /\ i \in 1..n /\ i + 1 = n + 1 - m
    OBVIOUS
  <2>2. FramesIn(behind[i]) = head \o last[m]
    <3> HIDE DEF i
    <3> QED BY <1>1, <1>4, <2>1
  <2>3. PICK t \in Seq(Seq(Byte)) :
          t = last[m] /\ Len(t) = m /\ \A j \in 1..m : t[j] = f[n - m + j]
    BY <1>2, <2>1
  <2>4. PICK u \in Seq(Seq(Byte)) :
          /\ u = last[m + 1] /\ Len(u) = m + 1
          /\ \A j \in 1..(m + 1) : u[j] = f[n - (m + 1) + j]
    BY <1>2, <2>1
  <2>5. PICK v \in Seq(Seq(Byte)) :
          /\ v = head \o t /\ Len(v) = m + 1 /\ v[1] = f[i]
          /\ \A j \in 1..m : v[j + 1] = t[j]
    <3>1. PICK x \in Seq(Byte) : x = f[i]
      BY <1>1, <2>1
    <3>2. m \in Nat /\ m = Len(t)
      BY <2>1, <2>3
    <3>3. /\ << x >> \o t \in Seq(Seq(Byte)) /\ Len(<< x >> \o t) = m + 1
          /\ (<< x >> \o t)[1] = x
          /\ \A j \in 1..m : (<< x >> \o t)[j + 1] = t[j]
      BY <3>2, Prepend
    <3> QED BY <3>1, <3>3, Zenon
  <2> HIDE DEF head
  <2>6. ASSUME NEW j \in 1..(m + 1) PROVE v[j] = u[j]
    <3>1. CASE j = 1
      <4>1. n - (m + 1) + 1 = i /\ 1 \in 1..(m + 1)
        BY <2>1
      <4>2. u[1] = f[i]
        BY <2>4, <4>1
      <4> QED BY <2>5, <3>1, <4>2
    <3>2. CASE j # 1
      <4>1. PICK k \in 1..m : k = j - 1
        BY <2>1, <3>2
      <4>2. k + 1 = j /\ n - m + k = n - (m + 1) + j
        BY <2>1, <4>1
      <4>3. v[k + 1] = t[k] /\ t[k] = f[n - m + k]
        BY <2>3, <2>5
      <4>4. u[j] = f[n - (m + 1) + j]
        BY <2>4
      <4> QED BY <4>2, <4>3, <4>4
    <3> QED BY <3>1, <3>2
  <2>7. v = u
    <3>1. v \in Seq(Seq(Byte)) /\ u \in Seq(Seq(Byte)) /\ Len(v) = Len(u)
          /\ \A j \in 1..Len(v) : v[j] = u[j]
      BY <2>4, <2>5, <2>6
    <3> QED BY <3>1, SeqEqual
  <2> QED BY <2>2, <2>3, <2>4, <2>5, <2>7
<1>5. Wrong = {}
  <2> SUFFICES ASSUME Wrong # {} PROVE FALSE
    OBVIOUS
  <2>1. PICK m \in Wrong : \A k \in Wrong : m <= k
    <3>1. Wrong \in SUBSET Nat
      OBVIOUS
    <3> HIDE DEF Wrong
    <3> QED BY <3>1, LeastElement
  <2>2. m # 0
    <3>1. n + 1 - 0 = n + 1
      OBVIOUS
    <3> QED BY <1>3, <2>1, <3>1
  <2>3. /\ m - 1 \in 0..n /\ m - 1 \in 0..(n - 1) /\ ~(m <= m - 1)
        /\ n - (m - 1) = n + 1 - m /\ (m - 1) + 1 = m
    BY <2>1, <2>2
  <2>4. FramesIn(behind[n + 1 - (m - 1)]) = last[m - 1]
    <3>1. m - 1 \notin Wrong
      BY <2>1, <2>3
    <3> QED BY <2>3, <3>1
  <2>5. FramesIn(behind[n + 1 - m]) = last[m]
    BY <1>4, <2>3, <2>4
  <2> QED BY <2>1, <2>5
<1>6. FramesIn(behind[1]) = last[n]
  <2>1. n \in 0..n /\ n + 1 - n = 1
    OBVIOUS
  <2> QED BY <1>5, <2>1
<1>7. last[n] = f
  <2>1. \A i \in 1..n : n - n + i = i
    OBVIOUS
  <2>2. last[n] = [i \in 1..n |-> f[i]]
    BY <2>1 DEF last
  <2> QED BY <2>2 DEF f
<1> QED BY <1>6, <1>7 DEF f

=============================================================================
