---------------------------- MODULE LwAtCmdDictMC ----------------------------
(* Four tables a caller may register, two of them with a name in common, and *)
(* one for each reason to reject a table by itself.                          *)
EXTENDS LwAtCmdDict, TLC

MCTable == {"base", "net", "net2", "io", "empty", "unnamed", "doubled"}
MCName  == {"", "+NET", "+MUX", "+IO", "+NONE"}
MCCmds  == "base" :> <<"", "+NET">> @@ "net" :> <<"+MUX">> @@ "net2" :> <<"+IO", "+MUX">>
           @@ "io" :> <<"+IO">>
           @@ "empty" :> <<>> @@ "unnamed" :> <<"+NONE", Nil>> @@ "doubled" :> <<"", "">>

\* NULL, as lw_at.h advises, or a node.
MCLinks == {[t \in MCTable |-> IF t = "empty" THEN Nil ELSE "base"], [t \in MCTable |-> Nil]}
=============================================================================
