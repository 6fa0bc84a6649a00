---------------------------- MODULE LwAtByteQueue ----------------------------
(***************************************************************************)
(* What lw_at_stream promises its two users, free of indices: a bounded    *)
(* FIFO of bytes.  The producer offers a segment and a prefix of it enters *)
(* the queue in one step; the consumer takes bytes, or whole lines, from   *)
(* the front.  LwAtStream is shown to implement this specification.        *)
(***************************************************************************)
EXTENDS Integers, Sequences

CONSTANTS
  Byte,      \* the byte values that can be told apart
  CR, LF,    \* the two bytes of the line terminator
  Capacity,  \* bytes the queue can hold
  OutSize,   \* size of the caller's line buffer, with the final NUL
  Segments   \* the segments the producer may offer

VARIABLES
  q,    \* unread bytes, oldest first
  seg,  \* segment offered and not yet accepted, <<>> when there is none
  out   \* result of the last get_line

vars == <<q, seg, out>>

NoLine   == [kind |-> "none"]
LineLong == [kind |-> "long"]
Line(s)  == [kind |-> "line", text |-> s]

\* s[p], s[p+1] is the first CR LF of s: the text of the line is s[1..p-1].
FirstCrLf(s, p) ==
  /\ p \in 1 .. Len(s) - 1
  /\ s[p] = CR /\ s[p + 1] = LF
  /\ \A j \in 1 .. p - 1 : ~(s[j] = CR /\ s[j + 1] = LF)

LineOf(s, p) == IF p > OutSize THEN LineLong ELSE Line(SubSeq(s, 1, p - 1))

Drop(s, n) == SubSeq(s, n + 1, Len(s))

Init == q = <<>> /\ seg = <<>> /\ out = NoLine

Offer == seg = <<>> /\ seg' \in Segments /\ UNCHANGED <<q, out>>

Accept == /\ seg # <<>>
          /\ \E n \in 0 .. Len(seg) :
               /\ Len(q) + n <= Capacity
               /\ q' = q \o SubSeq(seg, 1, n)
          /\ seg' = <<>> /\ UNCHANGED out

Take == /\ \E n \in 1 .. Len(q) : q' = Drop(q, n)
        /\ UNCHANGED <<seg, out>>

TakeLine == /\ \E p \in 1 .. Len(q) : /\ FirstCrLf(q, p)
                                      /\ out' = LineOf(q, p)
                                      /\ q' = Drop(q, p + 1)
            /\ UNCHANGED seg

\* The scan works on what had arrived when it started, so a line that arrives
\* meanwhile may be left for the next call.
MissLine == out' = NoLine /\ UNCHANGED <<q, seg>>

Next == Offer \/ Accept \/ Take \/ TakeLine \/ MissLine

Spec == Init /\ [][Next]_vars
=============================================================================
