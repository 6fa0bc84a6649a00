----------------------------- MODULE LwAtOutput -----------------------------
(***************************************************************************)
(* The way out of lw_at_core.c: a call of the library prints a few         *)
(* segments (a result line, \r\n, the text of lw_at_send_line, a prompt),  *)
(* each with core_write_all, which calls port.write until the segment is   *)
(* out or the port fails.  port.write is external: it sends at least one   *)
(* byte while the link is up, possibly fewer than asked, and none while it *)
(* is down.                                                                *)
(***************************************************************************)
EXTENDS Integers, Sequences

CONSTANT SegLen  \* bytes of a segment
ASSUME SegLenAssumption == SegLen \in Nat \ {0}

VARIABLES
  segs,  \* the segments of the call in the order they are printed, <<>> between calls
  cur,   \* the one core_write_all is at; past the last one when all are done
  data,  \* bytes the pointer `data` has moved into it
  len,   \* core_write_all's `len`: bytes of it still to write
  wire,  \* history: what the host got from this call, as <<segment, byte>>
  cut,   \* history: segments of this call given up
  up     \* the link

outVars == <<segs, cur, data, len, wire, cut, up>>

OutInit == segs = <<>> /\ cur = 1 /\ data = 0 /\ len = SegLen
           /\ wire = <<>> /\ cut = {} /\ up = TRUE

Writing == segs # <<>>
More    == cur <= Len(segs)

\* The call prints the segments s.
Put(s) == segs' = s /\ cur' = 1 /\ data' = 0 /\ len' = SegLen
             /\ wire' = <<>> /\ cut' = {} /\ UNCHANGED up

NextSegment == cur' = cur + 1 /\ data' = 0 /\ len' = SegLen

\* Fault: `data` stays where it is after a short write.
WriteSomeAgain(n) ==
  /\ More /\ up /\ n <= len
  /\ wire' = wire \o [k \in 1 .. n |-> <<cur, data + k>>]
  /\ IF n = len THEN NextSegment
                ELSE data' = data /\ len' = len - n /\ UNCHANGED cur
  /\ UNCHANGED <<segs, cut, up>>

\* port.write sent n bytes.
WriteSome(n) ==
  /\ More /\ up /\ n <= len
  /\ wire' = wire \o [k \in 1 .. n |-> <<cur, data + k>>]
  /\ IF n = len THEN NextSegment
                ELSE data' = data + n /\ len' = len - n /\ UNCHANGED cur
  /\ UNCHANGED <<segs, cut, up>>

\* Fault: only n < 0 is a failure, on 0 the loop tries again.
WriteFailRetry == More /\ ~up /\ UNCHANGED outVars

\* port.write returned n <= 0: the rest of this segment is given up, the next is tried.
WriteFail ==
  /\ More /\ ~up
  /\ cut' = cut \cup {cur} /\ NextSegment
  /\ UNCHANGED <<segs, wire, up>>

\* The call returns, whatever has become of its output.
Return ==
  /\ Writing /\ ~More
  /\ Put(<<>>)

Write == WriteFail \/ Return \/ \E n \in 1 .. SegLen : WriteSome(n)

Link == up' = ~up /\ UNCHANGED <<segs, cur, data, len, wire, cut>>

-----------------------------------------------------------------------------
(* Properties *)

\* Byte b comes right after byte a: the next one of its segment, or the first one of
\* a later segment.
Follows(b, a) == b = <<a[1], a[2] + 1>> \/ (b[1] > a[1] /\ b[2] = 1)

InOrder == \A j \in 1 .. Len(wire) :
             Follows(wire[j], IF j = 1 THEN <<0, SegLen>> ELSE wire[j - 1])

Whole == \A i \in 1 .. cur - 1 :
           i \notin cut => \E j \in 1 .. Len(wire) : wire[j] = <<i, SegLen>>

\* core_write_all: short writes repeat, swap and lose nothing.  The host gets the
\* segments in order, each from its first byte on, and whole unless the port failed
\* while it was written.
WireExact == InOrder /\ Whole

\* Whatever the link does, a call is done with its output: core_write_all gives up on
\* a dead link instead of holding up the main loop.
OutputEnds == Writing ~> ~Writing
=============================================================================
