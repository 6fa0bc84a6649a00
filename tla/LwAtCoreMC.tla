----------------------------- MODULE LwAtCoreMC -----------------------------
(* Instances of LwAtCore for TLC.  Tokens are strings; "eol" is CR LF. *)
EXTENDS LwAtCore, TLC

MCToken == {"at", "fix", "abt", "str", "d", "+", "eol"}

Session(policy, length, abort) ==
  [policy |-> policy, length |-> length, guard |-> 0, abort |-> abort]

\* AT; a FIXED session of two bytes confirmed in its handler (cipsend_setup); the
\* same with allow_plus_abort; transparent mode confirmed later (cipsend_exe).
FixedHandler  == "at" :> [rc |-> "OK", enter |-> "no"]
                 @@ "fix" :> [rc |-> "OK", enter |-> "sync", sess |-> Session("FIXED", 2, FALSE)]
StreamHandler == "at" :> [rc |-> "OK", enter |-> "no"]
                 @@ "str" :> [rc |-> "OK", enter |-> "async", sess |-> Session("STREAM", 0, FALSE)]
BothHandlers  == FixedHandler @@ StreamHandler
AllHandlers   == BothHandlers
                 @@ "abt" :> [rc |-> "OK", enter |-> "sync", sess |-> Session("FIXED", 2, TRUE)]

SessionSegments == {<<"at", "eol">>, <<"fix", "eol">>, <<"str", "eol">>, <<"d">>,
                    <<"d", "d", "at">>, <<"eol">>, <<"+">>, <<"+", "+">>, <<"+", "+", "+">>}
StreamSegments == {<<"str", "eol">>, <<"d">>, <<"+">>, <<"+", "+">>, <<"+", "+", "+">>,
                   <<"at", "eol">>}
MixedSegments  == {<<"fix", "eol">>, <<"abt", "eol">>, <<"str", "eol">>, <<"d", "at", "eol">>,
                   <<"+", "+", "+">>}
EscapeSegments == {<<"str", "eol">>, <<"d">>, <<"+", "+", "+">>, <<"at", "eol">>}
=============================================================================
