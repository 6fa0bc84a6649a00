----------------------------- MODULE LwAtCmdEx -----------------------------
(***************************************************************************)
(* The usage example: the handlers of lw_at_cmd_ex.c over their static     *)
(* variables, called by core_exec_line, which refuses commands while a     *)
(* data-mode request is open, and the two sessions they start.  What a     *)
(* call prints goes out through LwAtOutput before the next call.  The      *)
(* splitting of a line is LwAtParse's, the ring and +++ are LwAtCore's:    *)
(* here a setup has its slots, and a session ends when it may.             *)
(***************************************************************************)
EXTENDS LwAtOutput

CONSTANTS
  Slot,      \* texts of a parameter slot
  Omitted,   \* the empty text
  IntOf,     \* the integer of each text lw_at_get_para_digit accepts
  TooLong,   \* texts of CMD_EX_STR_CAP characters and more
  TooWide,   \* texts that make an information line longer than tx_buf
  ArgLists,  \* for each setup, the slots the host may send with it
  Cap,       \* CMD_EX_CIPSEND_CAP
  RingMax    \* bound: bytes the ring may hold when a session is left

Setups == {"+INT", "+STR", "+MIX", "+SLOT", "+CIPMODE", "+CIPSEND"}

ASSUME SlotAssumption == Omitted \in Slot /\ TooLong \subseteq Slot /\ TooWide \subseteq Slot
ASSUME IntOfAssumption == IntOf \in [DOMAIN IntOf -> Int]
                          /\ DOMAIN IntOf \subseteq Slot \ {Omitted}
ASSUME ArgListsAssumption == \A c \in Setups : ArgLists[c] \subseteq Seq(Slot) \ {<<>>}
ASSUME CapAssumption == Cap \in Nat \ {0} /\ RingMax \in Nat

VARIABLES
  int_val, str_val, mix_a, mix_str, slot_left, slot_right, cipmode,
  cipsend_buf, cipsend_len,       \* statics of lw_at_cmd_ex.c
  mode, enter_req, data_policy, data_length, data_got,  \* at_instance
  sess,   \* history: parity of the last +CIPSEND=<len> session
  given,  \* history: bytes it has given to cmd_ex_cipsend_chunk
  told    \* history: for each setting, the slots of the last setup answered OK

settings == <<int_val, str_val, mix_a, mix_str, slot_left, slot_right, cipmode>>
buffer   == <<cipsend_buf, cipsend_len, sess, given>>
session  == <<mode, enter_req, data_policy, data_length, data_got>>
vars     == <<outVars, settings, buffer, session, told>>

NUL == <<0, 0>>
\* Byte k of a session's data.
Payload(s, k) == <<s, k>>

\* cmd_ex_cmds: the handlers of each command.
Table == [c \in {"", "+INT", "+STR", "+MIX", "+SLOT", "+CIPMODE", "+CIPSEND"} |->
            CASE c = ""         -> {"exe"}
              [] c = "+CIPMODE" -> {"query", "setup"}
              [] c = "+CIPSEND" -> {"setup", "exe"}
              [] OTHER          -> {"test", "query", "setup"}]
Kinds == {"test", "query", "setup", "exe"}

Init ==
  /\ OutInit
  /\ int_val = 0 /\ mix_a = 0 /\ slot_left = 0 /\ slot_right = 0 /\ cipmode = 0
  /\ str_val = Omitted /\ mix_str = Omitted
  /\ cipsend_buf = [i \in 0 .. Cap - 1 |-> NUL] /\ cipsend_len = 0
  /\ mode = "command" /\ enter_req = 0 /\ data_policy = "none"
  /\ data_length = 0 /\ data_got = 0
  /\ sess = 0 /\ given = 0
  /\ told = [c \in Setups \ {"+CIPSEND"} |-> <<>>]

\* get_para_digit and get_para_str of slot i succeed; the slot is there but empty.
Digit(args, i) == i \in DOMAIN args /\ args[i] \in DOMAIN IntOf
Text(args, i)  == i \in DOMAIN args /\ args[i] # Omitted
Empty(args, i) == i \in DOMAIN args /\ args[i] = Omitted

\* core_write_final, and lw_at_send_line before it; neither looks at what port.write did.
Final(rc) == Put(<<rc>>)
SendLine(fits) == Put(IF fits THEN <<"crlf", "text", "crlf", "OK">> ELSE <<"ERROR">>)

-----------------------------------------------------------------------------
(* core_exec_line *)

\* Fault: the gate of an open request is missing.
AtPromptUngated == mode = "command" /\ ~Writing

\* The main loop takes the next line, and no data-mode request is open.
AtPrompt == mode = "command" /\ ~Writing /\ enter_req = 0

Gated ==
  /\ mode = "command" /\ ~Writing /\ enter_req = 1
  /\ Final("ERROR")
  /\ UNCHANGED <<settings, buffer, session, told>>

\* An unknown name or a kind the command does not have.
NoHandler ==
  /\ AtPrompt
  /\ \E c \in DOMAIN Table : Kinds \ Table[c] # {}
  /\ Final("ERROR")
  /\ UNCHANGED <<settings, buffer, session, told>>

\* Bare AT; the test handlers print a constant.
AtExe ==
  /\ AtPrompt /\ Final("OK")
  /\ UNCHANGED <<settings, buffer, session, told>>

Test ==
  /\ AtPrompt /\ SendLine(TRUE)
  /\ UNCHANGED <<settings, buffer, session, told>>

Query(c) ==
  /\ AtPrompt /\ "query" \in Table[c]
  /\ SendLine(CASE c = "+STR" -> str_val \notin TooWide
                [] c = "+MIX" -> mix_str \notin TooWide
                [] OTHER -> TRUE)
  /\ UNCHANGED <<settings, buffer, session, told>>

-----------------------------------------------------------------------------
(* Setups: they read every slot they need, then assign, then answer *)

\* The answer of a setup of c; the host notes what was accepted.
Answer(c, args, ok) ==
  /\ Final(IF ok THEN "OK" ELSE "ERROR")
  /\ told' = [told EXCEPT ![c] = IF ok THEN args ELSE @]

IntSetup(args) ==
  LET ok == Digit(args, 1) IN
  /\ int_val' = IF ok THEN IntOf[args[1]] ELSE int_val
  /\ Answer("+INT", args, ok)
  /\ UNCHANGED <<str_val, mix_a, mix_str, slot_left, slot_right, cipmode>>

StrSetup(args) ==
  LET ok == Text(args, 1) /\ args[1] \notin TooLong IN
  /\ str_val' = IF ok THEN args[1] ELSE str_val
  /\ Answer("+STR", args, ok)
  /\ UNCHANGED <<int_val, mix_a, mix_str, slot_left, slot_right, cipmode>>

\* Fault: the integer is read straight into mix_a.
MixSetupEager(args) ==
  LET ok == Digit(args, 1) /\ Text(args, 2) /\ args[2] \notin TooLong IN
  /\ mix_a' = IF Digit(args, 1) THEN IntOf[args[1]] ELSE mix_a
  /\ mix_str' = IF ok THEN args[2] ELSE mix_str
  /\ Answer("+MIX", args, ok)
  /\ UNCHANGED <<int_val, str_val, slot_left, slot_right, cipmode>>

MixSetup(args) ==
  LET ok == Digit(args, 1) /\ Text(args, 2) /\ args[2] \notin TooLong IN
  /\ mix_a' = IF ok THEN IntOf[args[1]] ELSE mix_a
  /\ mix_str' = IF ok THEN args[2] ELSE mix_str
  /\ Answer("+MIX", args, ok)
  /\ UNCHANGED <<int_val, str_val, slot_left, slot_right, cipmode>>

SlotSetup(args) ==
  LET ok == Len(args) = 3 /\ Digit(args, 1) /\ Empty(args, 2) /\ Digit(args, 3) IN
  /\ slot_left' = IF ok THEN IntOf[args[1]] ELSE slot_left
  /\ slot_right' = IF ok THEN IntOf[args[3]] ELSE slot_right
  /\ Answer("+SLOT", args, ok)
  /\ UNCHANGED <<int_val, str_val, mix_a, mix_str, cipmode>>

CipmodeSetup(args) ==
  LET ok == Digit(args, 1) /\ IntOf[args[1]] \in {0, 1} IN
  /\ cipmode' = IF ok THEN IntOf[args[1]] ELSE cipmode
  /\ Answer("+CIPMODE", args, ok)
  /\ UNCHANGED <<int_val, str_val, mix_a, mix_str, slot_left, slot_right>>

Setup ==
  /\ AtPrompt
  /\ \/ \E args \in ArgLists["+INT"] : IntSetup(args)
     \/ \E args \in ArgLists["+STR"] : StrSetup(args)
     \/ \E args \in ArgLists["+MIX"] : MixSetup(args)
     \/ \E args \in ArgLists["+SLOT"] : SlotSetup(args)
     \/ \E args \in ArgLists["+CIPMODE"] : CipmodeSetup(args)
  /\ UNCHANGED <<buffer, session>>

-----------------------------------------------------------------------------
(* +CIPSEND=<len>: a FIXED session confirmed inside the handler *)

CipsendRefused(args) ==
  /\ AtPrompt
  /\ ~(Digit(args, 1) /\ IntOf[args[1]] \in 1 .. Cap - 1)
  /\ Final("ERROR")
  /\ UNCHANGED <<settings, buffer, session, told>>

\* lw_at_data_enter sets enter_req and lw_at_data_confirm takes it back.
CipsendSetup(args) ==
  /\ AtPrompt
  /\ Digit(args, 1) /\ IntOf[args[1]] \in 1 .. Cap - 1
  /\ cipsend_buf' = [cipsend_buf EXCEPT ![0] = NUL] /\ cipsend_len' = 0
  /\ sess' = 1 - sess /\ given' = 0
  /\ data_policy' = "FIXED" /\ data_length' = IntOf[args[1]] /\ data_got' = 0
  /\ mode' = "data" /\ UNCHANGED enter_req
  /\ Put(<<"OK", "prompt">>)
  /\ UNCHANGED <<settings, told>>

\* Fault: no place is kept for the NUL.
ChunkNoNul(n) ==
  LET k == IF n <= Cap - cipsend_len THEN n ELSE Cap - cipsend_len IN
  /\ cipsend_buf' = [i \in 0 .. Cap - 1 |->
       IF i \in cipsend_len .. cipsend_len + k - 1
       THEN Payload(sess, given + (i - cipsend_len) + 1) ELSE cipsend_buf[i]]
  /\ cipsend_len' = cipsend_len + k
  /\ given' = given + n /\ UNCHANGED sess

\* cmd_ex_cipsend_chunk of n bytes: what the buffer has no room for is dropped.
Chunk(n) ==
  LET k == IF n <= Cap - 1 - cipsend_len THEN n ELSE Cap - 1 - cipsend_len IN
  /\ cipsend_buf' = [i \in 0 .. Cap - 1 |->
       IF i \in cipsend_len .. cipsend_len + k - 1
       THEN Payload(sess, given + (i - cipsend_len) + 1)
       ELSE IF i = cipsend_len + k THEN NUL ELSE cipsend_buf[i]]
  /\ cipsend_len' = cipsend_len + k
  /\ given' = given + n /\ UNCHANGED sess

\* core_data_process_fixed: a chunk of at most what the session still wants.
Deliver(n) ==
  /\ mode = "data" /\ data_policy = "FIXED" /\ ~Writing
  /\ n <= data_length - data_got
  /\ Chunk(n) /\ data_got' = data_got + n
  /\ IF data_got + n = data_length THEN mode' = "command" /\ Final("OK")
                                   ELSE UNCHANGED <<mode, outVars>>
  /\ UNCHANGED <<settings, enter_req, data_policy, data_length, told>>

\* lw_at_data_exit: everything in the ring goes to the chunk handler, then ERROR.
ExitFixed(n) ==
  /\ mode = "data" /\ data_policy = "FIXED" /\ ~Writing
  /\ Chunk(n) /\ data_got' = data_got + n
  /\ mode' = "command" /\ Final("ERROR")
  /\ UNCHANGED <<settings, enter_req, data_policy, data_length, told>>

-----------------------------------------------------------------------------
(* +CIPSEND: a STREAM session confirmed later by the application (main.c) *)

CipsendExe ==
  /\ AtPrompt
  /\ IF cipmode = 1
     THEN enter_req' = 1 /\ data_policy' = "STREAM" /\ data_length' = 0 /\ Final("OK")
     ELSE Final("ERROR") /\ UNCHANGED <<enter_req, data_policy, data_length>>
  /\ UNCHANGED <<settings, buffer, mode, data_got, told>>

Confirm ==
  /\ mode = "command" /\ enter_req = 1 /\ ~Writing
  /\ enter_req' = 0 /\ mode' = "data" /\ data_got' = 0 /\ Put(<<"prompt">>)
  /\ UNCHANGED <<settings, buffer, data_policy, data_length, told>>

Cancel ==
  /\ mode = "command" /\ enter_req = 1 /\ ~Writing
  /\ enter_req' = 0
  /\ UNCHANGED <<outVars, settings, buffer, mode, data_policy, data_length, data_got, told>>

\* By +++ or lw_at_data_exit; the data has gone to the sink.
EndStream ==
  /\ mode = "data" /\ data_policy = "STREAM" /\ ~Writing
  /\ mode' = "command" /\ Final("OK")
  /\ UNCHANGED <<settings, buffer, enter_req, data_policy, data_length, data_got, told>>

\* lw_at_write_raw, in any mode; 0 bytes print nothing.
WriteRaw ==
  /\ ~Writing /\ Put(<<"raw">>)
  /\ UNCHANGED <<settings, buffer, session, told>>

Output == (Write \/ Link) /\ UNCHANGED <<settings, buffer, session, told>>

Next ==
  \/ Gated \/ NoHandler \/ AtExe \/ Test
  \/ \E c \in DOMAIN Table : Query(c)
  \/ Setup
  \/ \E args \in ArgLists["+CIPSEND"] : CipsendRefused(args) \/ CipsendSetup(args)
  \/ \E n \in 1 .. Cap : Deliver(n)
  \/ \E n \in 0 .. RingMax : ExitFixed(n)
  \/ CipsendExe \/ Confirm \/ Cancel \/ EndStream
  \/ WriteRaw \/ Output

Spec == Init /\ [][Next]_vars

\* port.write returns.
FairSpec == Spec /\ WF_vars(Write /\ UNCHANGED <<settings, buffer, session, told>>)

-----------------------------------------------------------------------------
(* Properties *)

IntAt(args, i)  == IF args = <<>> THEN 0 ELSE IntOf[args[i]]
TextAt(args, i) == IF args = <<>> THEN Omitted ELSE args[i]

\* The setup handlers of lw_at_cmd_ex.c: each variable a query prints is the one the
\* host was last told OK for; a setup answered ERROR changed nothing, not even the
\* slots that came before the bad one.
SettingsAreTold ==
  /\ int_val = IntAt(told["+INT"], 1)
  /\ str_val = TextAt(told["+STR"], 1)
  /\ mix_a = IntAt(told["+MIX"], 1) /\ mix_str = TextAt(told["+MIX"], 2)
  /\ slot_left = IntAt(told["+SLOT"], 1) /\ slot_right = IntAt(told["+SLOT"], 3)
  /\ cipmode = IntAt(told["+CIPMODE"], 1)

\* cmd_ex_cipsend_chunk under any chunk sizes and any end of the session: cipsend_buf
\* is a string inside of its bounds with the session's bytes from the first one on,
\* cut only where it is full, and never bytes of the session before.
BufferIsSession ==
  /\ cipsend_len = (IF given <= Cap - 1 THEN given ELSE Cap - 1)
  /\ cipsend_buf[cipsend_len] = NUL
  /\ \A i \in 0 .. cipsend_len - 1 : cipsend_buf[i] = Payload(sess, i + 1)

\* core_exec_line refuses commands while a request is open, so CIPMODE=0 cannot come
\* between +CIPSEND and its confirmation: pass-through runs only in mode 1.
StreamNeedsPass ==
  enter_req = 1 \/ (mode = "data" /\ data_policy = "STREAM") => cipmode = 1
=============================================================================
