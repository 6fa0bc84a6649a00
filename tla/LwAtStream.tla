----------------------------- MODULE LwAtStream -----------------------------
(***************************************************************************)
(* lw_at_stream.c: the receive ring shared by lw_at_feed (producer, may be *)
(* an ISR) and lw_at_process (consumer).  Every access to a shared field   *)
(* is a step, so the producer may run between any two consumer steps.      *)
(***************************************************************************)
EXTENDS Integers, Sequences

CONSTANTS
  Byte,      \* byte values that can be told apart
  CR, LF,    \* '\r' and '\n'
  Size,      \* stream->size: cells of the ring, one of which stays free
  OutSize,   \* line_buf_size: the line text and its NUL must fit
  Segments,  \* segments handed to lw_at_stream_feed
  IsrFeed    \* TRUE: feed is an ISR, the consumer waits until it returns;
             \* FALSE: feed is another thread, its steps interleave too

ASSUME BytesAssumption == CR \in Byte /\ LF \in Byte /\ CR # LF
ASSUME SizeAssumption == Size \in Nat /\ Size >= 2
ASSUME OutSizeAssumption == OutSize \in Nat \ {0}
ASSUME IsrFeedAssumption == IsrFeed \in BOOLEAN
ASSUME SegmentsAssumption == Segments \subseteq Seq(Byte) /\ <<>> \notin Segments

VARIABLES
  buf, head, tail, overflow, pending,  \* lw_at_stream_t
  ppc,      \* producer: "idle" outside feed, "write" in its loop, "publish" after it
  seg,      \* the segment being fed, <<>> outside feed
  written,  \* bytes of it stored so far (also the loop index)
  wcur,     \* the local write cursor `head` of feed
  cpc,      \* consumer: the call it is in and how far it got
  snap,     \* head snapshot of the call
  scan,     \* scan cursor of get_line
  prevCr,   \* prev_cr of get_line
  win,      \* bytes shown by the last peek and not yet consumed
  flag,     \* value read by overflow_take / pending_take
  out,      \* result of the last get_line
  unreported  \* history: bytes were dropped and no call has told the consumer

prodVars == <<ppc, seg, written, wcur>>
consVars == <<cpc, snap, scan, prevCr, win, flag, out>>
vars == <<buf, head, tail, overflow, pending, prodVars, consVars, unreported>>

Cells == 0 .. Size - 1
Bit   == {0, 1}

\* stream_next
StreamNext(i) == IF i + 1 >= Size THEN 0 ELSE i + 1

\* The cell n places after i, and the places from cell i to cell j.
Ahead(i, n) == IF i + n >= Size THEN i + n - Size ELSE i + n
Dist(i, j)  == IF j >= i THEN j - i ELSE j - i + Size

Used    == Dist(tail, head)
Content == [k \in 1 .. Used |-> buf[Ahead(tail, k - 1)]]

\* lw_at_stream_init; the caller's rx_buf may hold anything.
Init ==
  /\ buf \in [Cells -> Byte]
  /\ head = 0 /\ tail = 0 /\ overflow = 0 /\ pending = 0
  /\ ppc = "idle" /\ seg = <<>> /\ written = 0 /\ wcur = 0
  /\ cpc = "idle" /\ snap = 0 /\ scan = 0 /\ prevCr = FALSE /\ win = 0 /\ flag = 0
  /\ out = [kind |-> "none"]
  /\ unreported = FALSE

-----------------------------------------------------------------------------
(* Producer: lw_at_stream_feed *)

FeedStart ==
  /\ ppc = "idle"
  /\ seg' \in Segments
  /\ ppc' = "write" /\ written' = 0 /\ wcur' = head
  /\ UNCHANGED <<buf, head, tail, overflow, pending, consVars, unreported>>

\* Fault: the room check is missing.
FeedByteUnchecked ==
  /\ ppc = "write" /\ written < Len(seg)
  /\ buf' = [buf EXCEPT ![wcur] = seg[written + 1]]
  /\ wcur' = StreamNext(wcur) /\ written' = written + 1
  /\ UNCHANGED <<head, tail, overflow, pending, ppc, seg, consVars, unreported>>

FeedByte ==
  /\ ppc = "write" /\ written < Len(seg)
  /\ StreamNext(wcur) # tail
  /\ buf' = [buf EXCEPT ![wcur] = seg[written + 1]]
  /\ wcur' = StreamNext(wcur) /\ written' = written + 1
  /\ UNCHANGED <<head, tail, overflow, pending, ppc, seg, consVars, unreported>>

FeedFull ==
  /\ ppc = "write" /\ written < Len(seg)
  /\ StreamNext(wcur) = tail
  /\ overflow' = 1 /\ unreported' = TRUE
  /\ ppc' = "publish"
  /\ UNCHANGED <<buf, head, tail, pending, seg, written, wcur, consVars>>

FeedPublish ==
  /\ ppc = "publish" \/ (ppc = "write" /\ written = Len(seg))
  /\ head' = wcur
  /\ ppc' = "idle" /\ seg' = <<>> /\ written' = 0 /\ wcur' = 0
  /\ UNCHANGED <<buf, tail, overflow, pending, consVars, unreported>>

\* at_timer_expired in command mode: the only thing the timer does to the ring.
Notify ==
  /\ pending' = 1
  /\ UNCHANGED <<buf, head, tail, overflow, prodVars, consVars, unreported>>

-----------------------------------------------------------------------------
(* Consumer: peek and consume.  A call's locals are gone once it returns. *)

Return == cpc' = "idle" /\ snap' = 0 /\ scan' = 0 /\ prevCr' = FALSE
          /\ win' = 0 /\ flag' = 0

\* The consumer is at point c and not suspended by a feed ISR.
At(c) == cpc = c /\ (IsrFeed => ppc = "idle")

Peek ==
  /\ At("idle") /\ head # tail
  /\ win' = IF head > tail THEN head - tail ELSE Size - tail
  /\ cpc' = "peeked"
  /\ UNCHANGED <<buf, head, tail, overflow, pending, prodVars,
                 snap, scan, prevCr, flag, out, unreported>>

\* The caller may consume less than it was shown.
Consume ==
  /\ At("peeked")
  /\ \E n \in 1 .. win :
       tail' = IF tail + n >= Size THEN tail + n - Size ELSE tail + n
  /\ Return
  /\ UNCHANGED <<buf, head, overflow, pending, prodVars, out, unreported>>

-----------------------------------------------------------------------------
(* Consumer: get_line *)

GetLineStart ==
  /\ At("idle")
  /\ snap' = head /\ scan' = tail /\ prevCr' = FALSE
  /\ cpc' = "scan"
  /\ UNCHANGED <<buf, head, tail, overflow, pending, prodVars,
                 win, flag, out, unreported>>

Terminator == prevCr /\ buf[scan] = LF

\* Fault: prev_cr is set by a CR and never cleared by what follows it.
ScanByteSticky ==
  /\ At("scan") /\ scan # snap /\ ~Terminator
  /\ scan' = StreamNext(scan) /\ prevCr' = (prevCr \/ buf[scan] = CR)
  /\ UNCHANGED <<buf, head, tail, overflow, pending, prodVars,
                 cpc, snap, win, flag, out, unreported>>

ScanByte ==
  /\ At("scan") /\ scan # snap /\ ~Terminator
  /\ scan' = StreamNext(scan) /\ prevCr' = (buf[scan] = CR)
  /\ UNCHANGED <<buf, head, tail, overflow, pending, prodVars,
                 cpc, snap, win, flag, out, unreported>>

\* Fault: room for the NUL is not counted.
ScannedLineNoNul(lineLen) ==
  IF lineLen > OutSize
  THEN [kind |-> "long"]
  ELSE [kind |-> "line", text |-> [k \in 1 .. lineLen |-> buf[Ahead(tail, k - 1)]]]

\* The text before the scanned terminator, if it fits with its NUL.
ScannedLine(lineLen) ==
  IF lineLen + 1 > OutSize
  THEN [kind |-> "long"]
  ELSE [kind |-> "line", text |-> [k \in 1 .. lineLen |-> buf[Ahead(tail, k - 1)]]]

\* Fault: the LF stays in the ring.
ScanLineKeepsLf ==
  /\ At("scan") /\ scan # snap /\ Terminator
  /\ out' = ScannedLine(Dist(tail, scan) - 1)
  /\ tail' = scan
  /\ Return
  /\ UNCHANGED <<buf, head, overflow, pending, prodVars, unreported>>

\* The scanned bytes are the text and the CR; the text is copied out before tail moves.
ScanLine ==
  /\ At("scan") /\ scan # snap /\ Terminator
  /\ out' = ScannedLine(Dist(tail, scan) - 1)
  /\ tail' = StreamNext(scan)
  /\ Return
  /\ UNCHANGED <<buf, head, overflow, pending, prodVars, unreported>>

ScanEnd ==
  /\ At("scan") /\ scan = snap
  /\ out' = [kind |-> "none"]
  /\ Return
  /\ UNCHANGED <<buf, head, tail, overflow, pending, prodVars, unreported>>

-----------------------------------------------------------------------------
(* Consumer: reset, overflow_take, pending_take.  Each reads, then writes. *)

ResetStart ==
  /\ At("idle")
  /\ snap' = head /\ cpc' = "reset_tail"
  /\ UNCHANGED <<buf, head, tail, overflow, pending, prodVars,
                 scan, prevCr, win, flag, out, unreported>>

\* What was dropped so far is void with the rest.
ResetTail ==
  /\ At("reset_tail")
  /\ tail' = snap /\ snap' = 0 /\ cpc' = "reset_overflow"
  /\ unreported' = FALSE
  /\ UNCHANGED <<buf, head, overflow, pending, prodVars,
                 scan, prevCr, win, flag, out>>

ResetOverflow ==
  /\ At("reset_overflow")
  /\ overflow' = 0 /\ cpc' = "reset_pending"
  /\ UNCHANGED <<buf, head, tail, pending, prodVars,
                 snap, scan, prevCr, win, flag, out, unreported>>

ResetPending ==
  /\ At("reset_pending")
  /\ pending' = 0 /\ Return
  /\ UNCHANGED <<buf, head, tail, overflow, prodVars, out, unreported>>

OverflowRead ==
  /\ At("idle")
  /\ flag' = overflow /\ cpc' = "overflow_clear"
  /\ unreported' = (unreported /\ overflow = 0)
  /\ UNCHANGED <<buf, head, tail, overflow, pending, prodVars,
                 snap, scan, prevCr, win, out>>

OverflowClear ==
  /\ At("overflow_clear")
  /\ overflow' = 0 /\ Return
  /\ UNCHANGED <<buf, head, tail, pending, prodVars, out, unreported>>

PendingRead ==
  /\ At("idle")
  /\ flag' = pending /\ cpc' = "pending_clear"
  /\ UNCHANGED <<buf, head, tail, overflow, pending, prodVars,
                 snap, scan, prevCr, win, out, unreported>>

PendingClear ==
  /\ At("pending_clear")
  /\ pending' = 0 /\ Return
  /\ UNCHANGED <<buf, head, tail, overflow, prodVars, out, unreported>>

Producer == FeedStart \/ FeedByte \/ FeedFull \/ FeedPublish \/ Notify

Consumer == \/ Peek \/ Consume
            \/ GetLineStart \/ ScanByte \/ ScanLine \/ ScanEnd
            \/ ResetStart \/ ResetTail \/ ResetOverflow \/ ResetPending
            \/ OverflowRead \/ OverflowClear \/ PendingRead \/ PendingClear

Next == Producer \/ Consumer

Spec == Init /\ [][Next]_vars
-----------------------------------------------------------------------------
(* Properties *)

RingTypes ==
  /\ buf \in [Cells -> Byte] /\ head \in Cells /\ tail \in Cells
  /\ overflow \in Bit /\ pending \in Bit /\ unreported \in BOOLEAN

ProducerTypes ==
  /\ ppc \in {"idle", "write", "publish"}
  /\ seg \in Segments \cup {<<>>}
  /\ wcur \in Cells
  /\ written \in Nat /\ written <= Len(seg)

ConsumerTypes ==
  /\ cpc \in {"idle", "peeked", "scan", "reset_tail", "reset_overflow",
              "reset_pending", "overflow_clear", "pending_clear"}
  /\ snap \in Cells /\ scan \in Cells
  /\ prevCr \in BOOLEAN /\ win \in Nat /\ flag \in Bit

\* Every field keeps to its range: the indices name cells, the flags are bits.
TypeOK == RingTypes /\ ProducerTypes /\ ConsumerTypes

\* Between stores and publication (stream.c:76-96) the local cursor is exactly
\* the bytes stored ahead of head, never reaches tail from behind, and those
\* cells hold the segment's prefix whatever the consumer did meanwhile.
ProducerInv ==
  /\ ppc = "idle" => seg = <<>>
  /\ ppc # "idle" =>
       /\ seg # <<>>
       /\ Dist(tail, wcur) = Used + written
       /\ \A k \in 0 .. written - 1 : buf[Ahead(head, k)] = seg[k + 1]

\* What a consumer call remembers (the peeked window, the head snapshot, the scan
\* cursor, prev_cr) still describes the ring although feed ran in between.
ConsumerInv ==
  /\ cpc = "peeked" => win \in 1 .. Used /\ tail + win <= Size
  /\ cpc = "reset_tail" => Dist(tail, snap) <= Used
  /\ cpc = "scan" =>
       LET done == Dist(tail, scan)
       IN  /\ Dist(tail, snap) <= Used
           /\ done <= Dist(tail, snap)
           /\ prevCr <=> (done > 0 /\ buf[Ahead(tail, done - 1)] = CR)
           /\ \A j \in 1 .. done - 1 : ~(/\ buf[Ahead(tail, j - 1)] = CR
                                         /\ buf[Ahead(tail, j)] = LF)

\* The inductive invariant.
IInv == TypeOK /\ ProducerInv /\ ConsumerInv

\* The producer never writes a cell the consumer has not released: bytes shown
\* by peek (zero copy) or being scanned stay put until tail moves past them.
UnreadStable ==
  [][\A k \in 0 .. Used - 1 : buf'[Ahead(tail, k)] = buf[Ahead(tail, k)]]_vars

\* The ring implements the byte queue: bytes leave in the order they were fed,
\* each segment enters as one prefix at publication, and get_line returns the
\* first CR LF line of the queue, or reports it too long, and consumes just it.
BQ == INSTANCE LwAtByteQueue WITH Capacity <- Size - 1, q <- Content
ImplementsByteQueue == BQ!Spec

\* stream.c:60-61 calls reset safe against a concurrent feed: bytes that feed
\* drops once reset has moved tail stay announced when reset returns.
DropsSurviveReset == cpc = "reset_pending" => (unreported => overflow = 1)
=============================================================================
