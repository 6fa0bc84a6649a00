---------------------------- MODULE LwAtCmdExMC ----------------------------
(* Slot texts for LwAtCmdEx: numbers, a word, and texts too long to keep or print. *)
EXTENDS LwAtCmdEx, TLC

MCIntOf == "0" :> 0 @@ "1" :> 1 @@ "2" :> 2 @@ "3" :> 3

\* Every setup is given right and wrong slots, also a wrong one behind a right one.
MCArgLists ==
  [c \in Setups |->
     CASE c = "+INT"     -> {<<"1">>, <<"">>, <<"word">>}
       [] c = "+STR"     -> {<<"word">>, <<"">>, <<"long">>}
       [] c = "+MIX"     -> {<<"1", "word">>, <<"2">>, <<"2", "">>, <<"2", "long">>}
       [] c = "+SLOT"    -> {<<"1", "", "1">>, <<"2", "", "word">>, <<"2", "1", "2">>, <<"2", "">>}
       [] c = "+CIPMODE" -> {<<"0">>, <<"1">>, <<"2">>, <<"word">>}
       [] c = "+CIPSEND" -> {<<"0">>, <<"1">>, <<"2">>, <<"3">>, <<"word">>}]
=============================================================================
