---------------------------- MODULE FrameStream -----------------------------
(***************************************************************************)
(* What the streaming frame splitter promises, without its buffer or its   *)
(* loop: bytes arrive in pieces of any size; a cursor moves over them and  *)
(* never backwards; it moves past an offset only when the bytes there      *)
(* cannot be the start of a frame, or together with a whole valid frame    *)
(* that is handed to the caller.                                           *)
(***************************************************************************)
EXTENDS Protocol

CONSTANT Wires    \* the byte streams the other end may send

VARIABLES
  wire,    \* bytes not yet received
  fed,     \* bytes received since the last restart
  cursor,  \* how many of them have been given up or handed out
  taken    \* frames handed out: offset in fed and bytes

vars == << wire, fed, cursor, taken >>

Init ==
  /\ wire \in Wires
  /\ fed = << >>
  /\ cursor = 0
  /\ taken = << >>

Receive ==
  \E n \in 1..Len(wire) :
    /\ fed'  = fed \o SubSeq(wire, 1, n)
    /\ wire' = SubSeq(wire, n + 1, Len(wire))
    /\ UNCHANGED << cursor, taken >>

(* Give up k offsets, none of which can start a frame. *)
Discard ==
  \E k \in 1..(Len(fed) - cursor) :
    /\ \A p \in cursor..(cursor + k - 1) : RefutedAt(fed, p)
    /\ cursor' = cursor + k
    /\ UNCHANGED << wire, fed, taken >>

(* Hand out the first frame that is still ahead of the cursor. *)
Deliver ==
  \E k \in 0..(Len(fed) - cursor) :
    LET at == cursor + k
    IN  /\ \A p \in cursor..(at - 1) : RefutedAt(fed, p)
        /\ ValidAt(fed, at)
        /\ cursor' = at + TotalAt(fed, at)
        /\ taken' = Append(taken, [at |-> at, frame |-> FrameAt(fed, at)])
        /\ UNCHANGED << wire, fed >>

(* Forget everything received. *)
Restart ==
  /\ fed' = << >>
  /\ cursor' = 0
  /\ taken' = << >>
  /\ UNCHANGED wire

Next == Receive \/ Discard \/ Deliver \/ Restart

Spec == Init /\ [][Next]_vars

=============================================================================
