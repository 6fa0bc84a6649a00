---------------------------- MODULE LwAtParseRef ----------------------------
(***************************************************************************)
(* What a command line means, stated over the whole text at once, and the  *)
(* parser of LwAtParse compared with it.                                   *)
(***************************************************************************)
EXTENDS LwAtParse, FiniteSets

\* A line ends at its first NUL.
Text == CStr(line \o <<NUL>>, 1)

\* The escapes that stand in a row right in front of character i of s.
EscapeRun(s, i) ==
  CHOOSE n \in 0 .. i - 1 : /\ \A k \in i - n .. i - 1 : s[k] = Escape
                            /\ n < i - 1 => s[i - n - 1] # Escape

\* Each second escape of a row stands for itself, and so does what follows an odd row.
Literal(s, i) == EscapeRun(s, i) % 2 = 1

\* A character that is not literal, the quote marks up to i, a position between quotes.
Mark(s, i, c) == s[i] = c /\ ~Literal(s, i)
Quotes(s, i)  == Cardinality({j \in 1 .. i : Mark(s, j, Quote)})
Quoted(s, i)  == Quotes(s, i) % 2 = 1

Closed(s) == /\ ~Quoted(s, Len(s))
             /\ s # <<>> => ~Mark(s, Len(s), Escape)

\* The separators are the commas outside of quotes; between them quote marks and
\* escape marks vanish and all else stays.
Separators(s) == {i \in 1 .. Len(s) : Mark(s, i, Comma) /\ ~Quoted(s, i)}
SlotAt(s, i)  == Cardinality({j \in Separators(s) : j < i}) + 1
Kept(s, k)    == {i \in 1 .. Len(s) \ Separators(s) :
                    SlotAt(s, i) = k /\ ~Mark(s, i, Quote) /\ ~Mark(s, i, Escape)}

\* The characters of s at the positions P, in their order.
Rank(P, i)  == Cardinality({j \in P : j <= i})
Chars(s, P) == [n \in 1 .. Cardinality(P) |-> s[CHOOSE i \in P : Rank(P, i) = n]]

SlotsOf(s) == [k \in 1 .. Cardinality(Separators(s)) + 1 |-> Chars(s, Kept(s, k))]

\* The parameters of "AT<n>=...".
Params(n) == SubSeq(Text, Len(n) + 4, Len(Text))

\* The text calls for handler k of name n, if its parameters can be split.
Shape(n, k) ==
  LET AT == <<A, T>>
  IN  CASE k = "exe"   -> Text = AT \o n
        [] k = "query" -> Text = AT \o n \o <<Query>>
        [] k = "test"  -> Text = AT \o n \o <<Equals, Query>>
        [] k = "setup" -> /\ Len(Text) >= Len(n) + 3
                          /\ SubSeq(Text, 1, Len(n) + 3) = AT \o n \o <<Equals>>
                          /\ Params(n) # <<Query>>

Splits(s) == Closed(s) /\ Len(SlotsOf(s)) <= ArgMax

\* The calls the text asks for: one at most.
Requests == {r \in (DOMAIN Commands) \X Kinds :
               /\ r[2] \in Commands[r[1]] /\ Shape(r[1], r[2])
               /\ r[2] = "setup" => Splits(Params(r[1]))}

\* A handler runs exactly when the line asks for it: malformed lines call none, and
\* no line calls a handler it does not name (core.c:205-284).
DispatchExact == /\ pc = "handler" => Requests = {<<name, kind>>}
                 /\ pc = "failed"  => Requests = {}

\* A setup handler sees the slots its text stands for, other handlers see none
\* (lw_at.h:255-262); slots of an earlier line are never left over.
SlotsExact == pc = "handler" =>
                Slots = IF kind = "setup" THEN SlotsOf(Params(name)) ELSE <<>>

\* The value of a row of digits.
Value(s) == LET v[i \in 0 .. Len(s)] == IF i = 0 THEN 0 ELSE 10 * v[i - 1] + Digit[s[i]]
            IN  v[Len(s)]

\* s is an integer whose digits begin at d and go to its end: in front of them stands a
\* sign or none, and in front of that nothing but blanks.
IntegerAt(s, d) == /\ \A i \in d .. Len(s) : s[i] \in DOMAIN Digit
                   /\ d > 1 => s[d - 1] \in Blank \cup {Plus, Minus}
                   /\ \A i \in 1 .. d - 2 : s[i] \in Blank

Integer(s)      == \E d \in DOMAIN s : IntegerAt(s, d)
IntegerValue(s) == LET d == CHOOSE d \in DOMAIN s : IntegerAt(s, d)
                       v == Value(SubSeq(s, d, Len(s)))
                   IN  IF d > 1 /\ s[d - 1] = Minus THEN 0 - v ELSE v

\* lw_at_get_para_digit (core.c:763) accepts the slots that are decimal integers to their
\* last character, behind blanks and with either sign, if int32_t can hold them; it
\* returns their value, tells an omitted slot, and refuses all else.
DigitsExact ==
  pc = "handler" =>
    \A k \in DOMAIN Slots :
      LET s == Slots[k]
      IN  ParaDigit(s) = CASE s = <<>> -> [rc |-> "OMITTED"]
                           [] s # <<>> /\ Integer(s) /\ IntegerValue(s) \in IntMin .. IntMax
                                -> [rc |-> "OK", val |-> IntegerValue(s)]
                           [] OTHER -> [rc |-> "FAIL"]

-----------------------------------------------------------------------------
(* What has been split so far: the strengthening that the exactness needs *)

\* The separators in front of a position, and what slot k has kept from there.
SeparatorsBefore(s, r) == Cardinality({j \in Separators(s) : j < r})
KeptBefore(s, k, r)    == {i \in Kept(s, k) : i < r}

\* The position in the parameters that core_split_slots reads.
Place == rd - (Len(name) + 3)

Slot(k) == SubSeq(buf, args[k], SlotLimit(k) - 1)

\* A handler was found: the one the shape of the line calls for.
Found == pc \in {"split", "handler"} => Has(name, kind) /\ kind \in Kinds /\ Shape(name, kind)

\* The slots of the parameters read are in args, but for what is still to come of the
\* last one, the open one.
SplitSoFar ==
  LET t == Params(name)
  IN  pc = "split" =>
        /\ kind = "setup"
        /\ Place \in 1 .. Len(t) + 1 /\ ~Literal(t, Place)
        /\ inQuote <=> Quoted(t, Place - 1)
        /\ Len(args) = SeparatorsBefore(t, Place)
        /\ \A k \in 1 .. Len(args) : Slot(k) = Chars(t, KeptBefore(t, k, Place))
        /\ SubSeq(buf, slotStart, wr - 1) = Chars(t, KeptBefore(t, Len(args) + 1, Place))

SplitDone ==
  pc = "handler" =>
    /\ kind # "setup" => args = <<>>
    /\ kind = "setup" => /\ Splits(Params(name)) /\ Len(args) = Len(SlotsOf(Params(name)))
                         /\ \A k \in 1 .. Len(args) : Slot(k) = SlotsOf(Params(name))[k]

NothingAsked == pc = "failed" => Requests = {}

\* At each character core_split_slots has read (core.c:127), args, wr and inQuote are what
\* the definitions above say of the text up to there, and the handler or the failure that it
\* comes to is the right one.  This is the inductive invariant behind the three properties.
Exact == IInv /\ Found /\ SplitSoFar /\ SplitDone /\ NothingAsked
=============================================================================
