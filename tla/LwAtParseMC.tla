---------------------------- MODULE LwAtParseMC ----------------------------
(* All short lines over one character of each kind.                        *)
EXTENDS LwAtParseRef, SequencesExt

MCChar  == {"NUL", "A", "T", "=", "?", ",", "quote", "backslash", "-", "+", " ", "1", "2", "x"}
MCBlank == {" "}
MCIntMin == -12
MCLongMin == -1200
MCDigit == [c \in {"1", "2"} |-> IF c = "1" THEN 1 ELSE 2]

\* AT with all handlers, ATx without a test handler; "1" is in no name.
MCCommands == [n \in {<<>>, <<"x">>} |->
                 IF n = <<>> THEN Kinds ELSE {"exe", "query", "setup"}]

\* Parameter texts of digits, around the ends of int32_t, and of all that may stand in
\* front of them.
DigitLines == {<<"A", "T", "=">> \o s :
                 s \in SeqOf({"-", "1", "2", ","}, 5) \cup SeqOf({"-", "+", " ", "1", "2"}, 5)}

\* Lines around the prefix, all dispatch shapes with up to 4 characters behind AT,
\* and all parameter texts of up to 5 characters.
MCLines ==
  UNION { SeqOf({"A", "T", "x"}, 2),
          {<<"A", "T">> \o s : s \in SeqOf({"=", "?", "x", ",", "1", "NUL"}, 4)},
          {<<"A", "T", "=">> \o s : s \in SeqOf({",", "quote", "backslash", "-", "1", "x", "NUL"}, 5)},
          DigitLines }
=============================================================================
