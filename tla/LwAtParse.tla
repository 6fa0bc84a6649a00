------------------------------ MODULE LwAtParse ------------------------------
(***************************************************************************)
(* core_parse_line, core_split_slots and lw_at_get_para_digit: a line is   *)
(* dispatched and split in place.  Name and slots are C strings inside     *)
(* line_buf; the splitter compacts the text over itself, reading at rd and *)
(* writing at wr.  Buffers are indexed from 1.                             *)
(***************************************************************************)
EXTENDS Integers, Sequences

CONSTANTS
  Char,      \* the characters that can be told apart
  NUL, A, T, Equals, Query, Comma, Quote, Escape, Minus, Plus,
  Blank,     \* the characters isspace() holds of
  Digit,     \* digit |-> its value
  Lines,     \* lines get_line may return; a NUL inside is possible
  Commands,  \* registered name |-> the handlers its entry has (LwAtCmdDict)
  ArgMax,    \* LW_AT_ARG_MAX
  IntMin, IntMax,   \* int32_t
  LongMin, LongMax  \* long of the target

Special == {NUL, A, T, Equals, Query, Comma, Quote, Escape, Minus, Plus}
Kinds   == {"exe", "query", "test", "setup"}

ASSUME CharAssumption == Special \cup Blank \cup DOMAIN Digit \subseteq Char
ASSUME SpecialAssumption ==
  /\ NUL \notin {A, T, Equals, Query, Comma, Quote, Escape, Minus, Plus}
  /\ Comma # Quote /\ Comma # Escape /\ Quote # Escape /\ Equals # Query /\ Minus # Plus
  /\ Blank \cap (Special \cup DOMAIN Digit) = {}
ASSUME LinesAssumption == Lines \subseteq Seq(Char)
ASSUME ArgMaxAssumption == ArgMax \in Nat \ {0}
\* A name with one of these characters could never be called.
ASSUME CommandsAssumption ==
  \A n \in DOMAIN Commands : /\ n \in Seq(Char) /\ Commands[n] \subseteq Kinds
                             /\ \A i \in DOMAIN n : n[i] \notin {NUL, Equals, Query}
ASSUME RangesAssumption ==
  /\ {IntMin, IntMax, LongMin, LongMax} \subseteq Int /\ DOMAIN Digit \cap Special = {}
  /\ LongMin <= IntMin /\ IntMin < 0 /\ 0 < IntMax /\ IntMax <= LongMax
  /\ \A c \in DOMAIN Digit : Digit[c] \in 0 .. 9

VARIABLES
  line,     \* history: the line as get_line returned it
  buf,      \* line_buf with the NUL behind the line
  pc,       \* "idle", "parse", "split", "handler", "failed"
  kind,     \* the handler that is called, "none" before
  name,     \* the name looked up
  rd, wr, slotStart, inQuote,  \* core_split_slots
  args      \* args[0 .. arg_num - 1]: where the slots begin

cursors == <<rd, wr, slotStart, inQuote>>
vars == <<line, buf, pc, kind, name, cursors, args>>

\* The C string that starts at i.
CStr(b, i) ==
  LET end == CHOOSE j \in i .. Len(b) : b[j] = NUL /\ \A k \in i .. j - 1 : b[k] # NUL
  IN  SubSeq(b, i, end - 1)

Init == /\ line = <<>> /\ buf = <<>> /\ pc = "idle" /\ kind = "none" /\ name = <<>>
        /\ rd = 0 /\ wr = 0 /\ slotStart = 0 /\ inQuote = FALSE /\ args = <<>>

-----------------------------------------------------------------------------
(* core_parse_line *)

\* core_exec_line ignores empty lines.
ExecLine == /\ pc = "idle"
            /\ line' \in Lines \ {<<>>}
            /\ buf' = line' \o <<NUL>>
            /\ pc' = "parse"
            /\ UNCHANGED <<kind, name, cursors, args>>

Fail == pc' = "failed" /\ args' = <<>>

BadPrefix == /\ pc = "parse" /\ ~(buf[1] = A /\ buf[2] = T)
             /\ Fail /\ UNCHANGED <<line, buf, kind, name, cursors>>

\* The name ends at the first '=', '?' or NUL, which is replaced by NUL.
Delimiter(p) == /\ p \in 3 .. Len(buf) /\ buf[p] \in {NUL, Equals, Query}
                /\ \A i \in 3 .. p - 1 : buf[i] \notin {NUL, Equals, Query}

\* Fault: `=?` need not be the end of the line.
KindAtAnyTest(p) ==
  IF buf[p] = NUL THEN "exe"
  ELSE IF buf[p] = Query THEN IF buf[p + 1] = NUL THEN "query" ELSE "none"
  ELSE IF buf[p + 1] = Query THEN "test" ELSE "setup"

\* '?' has to end the line; "=?" at its end is a test, '=' otherwise a setup.
KindAt(p) ==
  IF buf[p] = NUL THEN "exe"
  ELSE IF buf[p] = Query THEN IF buf[p + 1] = NUL THEN "query" ELSE "none"
  ELSE IF buf[p + 1] = Query /\ buf[p + 2] = NUL THEN "test" ELSE "setup"

Has(n, k) == n \in DOMAIN Commands /\ k \in Commands[n]

\* The prefix holds and the name ends at p.
Named(p) == /\ pc = "parse" /\ buf[1] = A /\ buf[2] = T /\ Delimiter(p)
            /\ buf' = [buf EXCEPT ![p] = NUL]
            /\ name' = SubSeq(buf, 3, p - 1)

NoHandler(p) == /\ Named(p) /\ ~Has(name', KindAt(p))
                /\ Fail /\ UNCHANGED <<line, kind, cursors>>

\* exe, query and test handlers get no arguments.
Call(p) == /\ Named(p) /\ Has(name', KindAt(p)) /\ KindAt(p) # "setup"
           /\ pc' = "handler" /\ kind' = KindAt(p)
           /\ UNCHANGED <<line, cursors, args>>

SplitStart(p) == /\ Named(p) /\ Has(name', KindAt(p)) /\ KindAt(p) = "setup"
                 /\ pc' = "split" /\ kind' = "setup"
                 /\ rd' = p + 1 /\ wr' = p + 1 /\ slotStart' = p + 1 /\ inQuote' = FALSE
                 /\ args' = <<>>
                 /\ UNCHANGED line

-----------------------------------------------------------------------------
(* core_split_slots: one action per character *)

At(c) == pc = "split" /\ buf[rd] = c

Write(c) == buf' = [buf EXCEPT ![wr] = c]

\* core_slot_push
Push(next) == IF Len(args) >= ArgMax THEN Fail
              ELSE pc' = next /\ args' = Append(args, slotStart)

SlotEnd == /\ At(NUL) /\ ~inQuote
           /\ Write(NUL) /\ Push("handler")
           /\ UNCHANGED <<line, kind, name, cursors>>

Unclosed == /\ At(NUL) /\ inQuote
            /\ Fail /\ UNCHANGED <<line, buf, kind, name, cursors>>

\* Fault: the slot is not terminated.
SlotCommaNoNul == /\ At(Comma) /\ ~inQuote
                  /\ wr' = wr + 1 /\ Push("split")
                  /\ rd' = rd + 1 /\ slotStart' = wr + 1
                  /\ UNCHANGED <<line, buf, kind, name, inQuote>>

SlotComma == /\ At(Comma) /\ ~inQuote
             /\ Write(NUL) /\ wr' = wr + 1 /\ Push("split")
             /\ rd' = rd + 1 /\ slotStart' = wr + 1
             /\ UNCHANGED <<line, kind, name, inQuote>>

QuoteMark == /\ At(Quote)
             /\ inQuote' = ~inQuote /\ rd' = rd + 1
             /\ UNCHANGED <<line, buf, pc, kind, name, wr, slotStart, args>>

\* Fault: what follows the escape is read again.
EscapedRereads == /\ At(Escape) /\ buf[rd + 1] # NUL
                  /\ Write(buf[rd + 1]) /\ wr' = wr + 1 /\ rd' = rd + 1
                  /\ UNCHANGED <<line, pc, kind, name, slotStart, inQuote, args>>

\* The next character is copied whatever it is, inside quotes and outside.
Escaped == /\ At(Escape) /\ buf[rd + 1] # NUL
           /\ Write(buf[rd + 1]) /\ wr' = wr + 1 /\ rd' = rd + 2
           /\ UNCHANGED <<line, pc, kind, name, slotStart, inQuote, args>>

Dangling == /\ At(Escape) /\ buf[rd + 1] = NUL
            /\ Fail /\ UNCHANGED <<line, buf, kind, name, cursors>>

Plain == /\ pc = "split"
         /\ buf[rd] \notin {NUL, Quote, Escape} /\ (buf[rd] = Comma => inQuote)
         /\ Write(buf[rd]) /\ wr' = wr + 1 /\ rd' = rd + 1
         /\ UNCHANGED <<line, pc, kind, name, slotStart, inQuote, args>>

-----------------------------------------------------------------------------

\* core_exec_line, after the handler or the failure: the slots are void.
Return == /\ pc \in {"handler", "failed"}
          /\ pc' = "idle" /\ kind' = "none" /\ name' = <<>> /\ args' = <<>>
          /\ line' = <<>> /\ buf' = <<>>
          /\ rd' = 0 /\ wr' = 0 /\ slotStart' = 0 /\ inQuote' = FALSE

Split == SlotEnd \/ Unclosed \/ SlotComma \/ QuoteMark \/ Escaped \/ Dangling \/ Plain

Next == \/ ExecLine \/ BadPrefix \/ Split \/ Return
        \/ \E p \in 3 .. Len(buf) : NoHandler(p) \/ Call(p) \/ SplitStart(p)

Spec == Init /\ [][Next]_vars

-----------------------------------------------------------------------------
(* lw_at_arg_get and lw_at_get_para_digit, called by a handler *)

Slots == [k \in 1 .. Len(args) |-> CStr(buf, args[k])]

\* strtol in base 10 skips blanks, takes one sign or none, and reads the digits that
\* stand in a row: the value, cut to long, and the length read, 0 without a digit.
Strtol(s) ==
  LET blanks == CHOOSE n \in 0 .. Len(s) : /\ \A i \in 1 .. n : s[i] \in Blank
                                           /\ n < Len(s) => s[n + 1] \notin Blank
      from   == IF blanks < Len(s) /\ s[blanks + 1] \in {Plus, Minus} THEN blanks + 2 ELSE blanks + 1
      digits == CHOOSE n \in 0 .. Len(s) - from + 1 :
                  /\ \A i \in from .. from + n - 1 : s[i] \in DOMAIN Digit
                  /\ from + n <= Len(s) => s[from + n] \notin DOMAIN Digit
      value[i \in from - 1 .. from + digits - 1] ==
        IF i < from THEN 0 ELSE 10 * value[i - 1] + Digit[s[i]]
      v == IF digits = 0 THEN 0
           ELSE IF from > 1 /\ s[from - 1] = Minus THEN 0 - value[from + digits - 1]
           ELSE value[from + digits - 1]
  IN  [len |-> IF digits = 0 THEN 0 ELSE from + digits - 1,
       val |-> IF v > LongMax THEN LongMax ELSE IF v < LongMin THEN LongMin ELSE v]

\* Fault: a slot that only begins with a number counts as one.
ParaDigitPrefix(s) ==
  IF s = <<>> THEN [rc |-> "OMITTED"]
  ELSE LET r == Strtol(s)
       IN  IF r.len = 0 \/ r.val < IntMin \/ r.val > IntMax
           THEN [rc |-> "FAIL"] ELSE [rc |-> "OK", val |-> r.val]

ParaDigit(s) ==
  IF s = <<>> THEN [rc |-> "OMITTED"]
  ELSE LET r == Strtol(s)
       IN  IF r.len # Len(s) \/ r.len = 0 \/ r.val < IntMin \/ r.val > IntMax
           THEN [rc |-> "FAIL"] ELSE [rc |-> "OK", val |-> r.val]

-----------------------------------------------------------------------------
(* Properties *)

TypeOK ==
  /\ line \in Seq(Char) /\ buf \in Seq(Char)
  /\ pc \in {"idle", "parse", "split", "handler", "failed"}
  /\ rd \in Nat /\ wr \in Nat /\ slotStart \in Nat /\ inQuote \in BOOLEAN
  /\ args \in Seq(Nat)

\* The line being parsed is in the buffer, with its NUL.
Loaded ==
  /\ pc # "idle" => line # <<>> /\ Len(buf) = Len(line) + 1
  /\ pc = "parse" => buf = line \o <<NUL>>
  /\ pc \in {"idle", "parse", "failed"} => args = <<>>

\* wr never passes rd (core.c:115-118), so what is still to be read is what the host
\* sent, and the final NUL is in its place.
Unread ==
  pc = "split" =>
    /\ 1 <= slotStart /\ slotStart <= wr /\ wr <= rd /\ rd <= Len(buf)
    /\ \A i \in rd .. Len(buf) : buf[i] = (line \o <<NUL>>)[i]

\* Where the string of slot k has to end: right before the next slot begins.
SlotLimit(k) == IF k < Len(args) THEN args[k + 1] - 1
                ELSE IF pc = "split" THEN slotStart - 1 ELSE wr

\* The slots lie side by side in the part already written, each a C string of its
\* own that ends exactly where the next begins; the open one has no NUL yet.
SlotsApart ==
  pc \in {"split", "handler"} =>
    /\ Len(args) <= ArgMax
    /\ \A k \in 1 .. Len(args) :
         /\ 1 <= args[k] /\ args[k] <= SlotLimit(k) /\ SlotLimit(k) <= wr
         /\ wr <= Len(buf)
         /\ buf[SlotLimit(k)] = NUL
         /\ \A i \in args[k] .. SlotLimit(k) - 1 : buf[i] # NUL
    /\ pc = "split" => \A i \in slotStart .. wr - 1 : buf[i] # NUL

\* The inductive invariant.
IInv == TypeOK /\ Loaded /\ Unread /\ SlotsApart
=============================================================================
