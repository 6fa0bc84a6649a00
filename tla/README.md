# LW-AT: a verification project in TLA+

LW-AT is an AT command parser for microcontrollers in C. A host sends bytes;
`lw_at_feed`, usually called from a receive interrupt, stores them in a ring; a
software timer reports when the host has paused; the main loop calls
`lw_at_process`, which takes lines out of the ring and runs command handlers. A
handler can switch the instance to *data mode*, where the bytes are payload until a
given length has arrived (FIXED) or until the host sends a silence, `+++` and another
silence (STREAM).

There are no locks. Three contexts, the feed, the timer callback and the main loop,
share one struct, and the code argues in comments why each pair of accesses is
safe. This project checks and, where it can, proves those arguments, down to the
Windows port and up to the command handlers of the usage example.

## 1. The parts of the system

| Component | State | Operations | Works with |
|---|---|---|---|
| Receive stream, `lw_at_stream.c` | `buf`, `head`, `tail`, `overflow`, `pending` | `feed` (producer); `get_line`, `peek`, `consume`, `reset`, `overflow_take`, `pending_take` (consumer) | fed by `lw_at_feed`, read by `lw_at_process`; `pending` is set by the timer callback |
| Core, `lw_at_core.c` | `lw_at_t`: mode, `enter_req`, session settings, `data_got`, `exit_req`, `exit_mark`, `silent` | `lw_at_feed`, `at_timer_expired`, `lw_at_process`, `lw_at_data_enter/confirm/cancel/exit`, `lw_at_guard_set` | everything |
| Transmit, `lw_at_transmit.c` | `plus_cnt` | `transmit_feed` finds `+++` and holds its bytes back; `flush`, `reset` | called by `lw_at_feed` in data mode; `plus_cnt` is also written by the timer callback |
| Command dictionary, `lw_at_cmd_dict.c` | linked list of command tables | `register`, `find`, `reset` | registration at start-up, `find` from `core_exec_line` |
| Line and parameter parsing, in `lw_at_core.c` | slots of the current line | `core_parse_line`, `core_split_slots`, `lw_at_get_para_*` | on the line `get_line` copied out |
| Windows port, `port/lw_at_port_win.c` | a thread-pool timer | `timer_arm`, `timer_stop`, `write` | implements what `lw_at_port.h` asks of a platform |
| Output path, in `lw_at_core.c` | none beyond the call in progress | `core_write_all` under result lines, `lw_at_send_line`, prompts, `lw_at_write_raw` | `port.write` |
| Instance life, in `lw_at_core.c` | `inited`, configuration, the timer | `lw_at_init`, `lw_at_deinit` | `timer_stop`, dictionary reset |
| Usage example, `lw_at_cmd_ex.c` and `main.c` | settings, `cipsend_buf`, `cipmode` | handlers of seven commands, `cmd_ex_cipsend_chunk`; the script in `main` | called by `core_exec_line` and by data mode |
| API and limits (headers), tests | none of their own | | read for contracts and for realistic sessions |

What is hard here, and what makes each part correct:

* *Stream.* The producer may run between any two accesses of a consumer call. Correct
  means: an exact FIFO; a consumer call's snapshot stays valid; a peeked window does
  not change under its reader; a drop is announced.
* *Guard.* Whether `+++` ends a session depends on two silences and an unbroken run
  in between, spread over several feeds and expiries, with a timer that may have been
  armed before the session began. Correct means: the session ends on exactly that.
* *Session boundaries.* Entering and leaving data mode each take five or more writes,
  any of which can be interrupted; the border between payload and commands is a ring
  index, `exit_mark`. Correct means: no payload is parsed as a command and no
  command is delivered as payload.
* *Wake-ups.* `lw_at_process` looks at lines only if `pending` is set, which
  only the timer and the end of a FIXED session do. Correct means: a complete line is
  answered.
* *Timer.* The Windows port keeps handle, callback and user pointer in globals that the
  main thread writes and the pool threads read. Correct means: an arming that was replaced
  or stopped never fires later, each expiry calls what it was armed with, and
  after `lw_at_deinit` nothing of the instance's life goes on.
* *Output.* `port.write` may send less than asked, or fail. Correct means: nothing is
  repeated or swapped, nothing is lost while the link is up, and a dead link holds nobody up.
* *Handlers.* A setup reads several slots before it accepts; a session may deliver more
  than its length. Correct means: all or nothing for a setup, and a buffer that
  stays a string.
* *Dialogue.* A command, its result, the prompt and the session's result come in a
  fixed order although a request may stay open for long.

`PROJECT.json` lists the hazards behind these points, each at its line.

## 2. The modules

| Module | Models | Role |
|---|---|---|
| `LwAtByteQueue` | what the stream promises | abstract bounded FIFO with a "first CR LF line" operation |
| `LwAtStream` | `lw_at_stream.c` | one step per access to a shared field; refines `LwAtByteQueue` |
| `LwAtStreamMC` | | instances for TLC |
| `LwAtStreamProofs` | | TLAPS proofs about `LwAtStream` |
| `LwAtDialog` | what the host sees | abstract order of results, prompt and session end |
| `LwAtCore` | `lw_at_core.c` with `lw_at_transmit.c`, on top of the stream | main loop cut at its accesses to shared fields, interrupted by feed and timer; refines `LwAtDialog` |
| `LwAtCoreMC` | | handlers and segments for TLC |
| `LwAtCoreProofs` | | TLAPS proofs about `LwAtCore` |
| `LwAtGuard` | `lw_at_transmit.c` and the data mode of `at_timer_expired`, access by access | the two interrupts of `LwAtCore` cut open, one of them inside of the other if wanted; refines `LwAtCore` |
| `LwAtGuardMC` | | the instances of `LwAtCoreMC`, for `LwAtGuard` |
| `LwAtGuardProofs` | | TLAPS proofs about `LwAtGuard` |
| `LwAtTimer` | what `timer_arm` and `timer_stop` promise | abstract one-shot timer |
| `LwAtPortWin` | `port/lw_at_port_win.c` | one step per access to a global; refines `LwAtTimer` |
| `LwAtPortWinProofs` | | TLAPS proofs about `LwAtPortWin` |
| `LwAtInstance` | `lw_at_init`, `lw_at_deinit`, feed, process and `at_timer_expired` in command mode | composed with `LwAtPortWin`, which it extends |
| `LwAtInstanceProofs` | | TLAPS proofs about `LwAtInstance` |
| `LwAtOutput` | `core_write_all` and the calls that print | what the host gets over a port that sends short and fails |
| `LwAtCmdEx` | `lw_at_cmd_ex.c`, with the gate of `core_exec_line` | the example's handlers, composed with `LwAtOutput`, which it extends |
| `LwAtCmdExMC` | | slot texts for TLC |
| `LwAtCmdExProofs` | | TLAPS proofs about `LwAtOutput` and `LwAtCmdEx` |
| `LwAtNameMap` | what the dictionary promises | abstract map from names to entries |
| `LwAtCmdDict` | `lw_at_cmd_dict.c` | the linked list, one step per node visited; refines `LwAtNameMap` |
| `LwAtCmdDictMC` | | tables for TLC |
| `LwAtCmdDictProofs` | | TLAPS proofs about `LwAtCmdDict` |
| `LwAtParse` | `core_parse_line`, `core_split_slots`, `lw_at_get_para_digit` | dispatch, and the splitter that rewrites the line in place |
| `LwAtParseRef` | what a command line means | definitions over the whole text, the parser compared with them, and what it has to have done at each character |
| `LwAtParseMC` | | lines for TLC |
| `LwAtParseProofs` | | TLAPS proofs about `LwAtParse` and `LwAtParseRef` |

Operators whose comment begins with `Fault:` are defective variants of the operator
that follows them. Nothing uses them; replacing the operator by its variant shows that
a property is sensitive to that mistake. `PROJECT.json` ("mutants") pairs each with the
property that it breaks.

### LwAtStream

Variables are the fields of `lw_at_stream_t` and the locals of the call each side is in
(`ppc`, `seg`, `written`, `wcur` for the producer; `cpc`, `snap`, `scan`, `prevCr`,
`win`, `flag` for the consumer). `feed` is `FeedStart`, one `FeedByte` per byte or
`FeedFull`, then `FeedPublish`; `get_line` is `GetLineStart`, one `ScanByte` per byte and
`ScanLine` or `ScanEnd`; `reset` is three writes; the two `take` functions read, then
clear. `Notify` is the timer callback's write of `pending`. `IsrFeed` says whether
feed is an interrupt, so that the consumer is suspended until it returns, or
another thread, whose steps interleave as well. In `ScanLine` the copy of the text
and the move of `tail` are one step: the producer cannot write an unread cell (this
is `UnreadStable`), so nothing can be seen between them.

`unreported` is a history variable: bytes have been dropped and no call has said so.

### LwAtCore

`stream` is the byte queue, which `LwAtStream` is proved to implement, together with
the physical `tail`, because `exit_mark` and `peek` depend on where the ring wraps. `at` is
`lw_at_t`. `main` holds the point the main loop has reached and its locals. Each ring
cell carries a history tag, given when it is fed: a byte of a command, session data,
or "late", that is fed behind the end of the session.

* *Feed* is one step, in three variants that follow the code's branches: plain
  storage, the segment that confirms an escape, and `+` detection.
* *Timer* is one step per branch of `at_timer_expired`. `timer` remembers for which
  purpose it was armed. No upper or lower bound on delays is assumed.
* *Main loop.* `Process` dispatches as `lw_at_process` does. FIXED, STREAM, the drain
  to `exit_mark`, the return to command mode, the pending and overflow gates, the line
  loop, the residue rule and `lw_at_data_confirm` follow statement by statement, one
  step for each access to a field that an interrupt uses as well. An `on_chunk` call
  spans two steps, so interrupts also come while the callback holds the window.
* *Application.* Between two calls of `lw_at_process` it may confirm or cancel a
  request, change the guard, or call `lw_at_data_exit`.

`Isr` says which of `"feed"` and `"timer"` may interrupt the main loop; the other one
runs between main-loop calls. `src/README.md` allows feed in an interrupt; a comment at
`lw_at_core.c:547` allows the timer callback too.

Abstractions: a command line is one token and `CR LF` one cell; handlers are the
constant `Handler` (a result, and the session they ask for, confirmed inside the handler or
later); output is the last result line or prompt; duration 1 is a real guard, and
0 asks for the default one.

### LwAtGuard

`LwAtCore` says in closed form what `lw_at_transmit_feed` does to a segment. `LwAtGuard`, which extends it, has the
code's loops: `FeedBegin` judges a complete `+++`, `FeedHold` and `FeedBreak` look at one byte, `FlushByte` and `FlushCount`
are the store and the decrement of `transmit_flush_plus`, `FeedSilent` and `FeedArm` the end of `lw_at_feed`. The callback
is `TimerCall` (`silent = 1`), `TimerTest`, `TimerMark`, `TimerRequest`, `TimerClear`. `fd` and `cb` are the places of the two;
the main loop and everything else in them is taken from `LwAtCore`. `Nested` says which of the two may come in
the middle of the other one. Empty, the result is `LwAtCore` (`ImplementsCore`): while one is under way, what
`LwAtCore` sees is the state before it (`pre`). With `Nested = {"timer"}` feed runs in the main
thread and the callback in a pool thread, as in `main.c` on Windows.

### LwAtPortWin and LwAtInstance

A `timer_arm` call is known by its number, which stands for the handle it creates and for the
`cb` and `user` it is given; 0 is NULL. `pc` is the main thread's place in `timer_arm` or
`timer_stop`, `pool[h]` the fate of timer `h` and of its callback, `seen[h]` what that callback
read from the globals. Two external facts are assumed of Windows, as the port uses it: a timer may fire
before `CreateTimerQueueTimer` has stored its handle, and `DeleteTimerQueueTimer` with
`INVALID_HANDLE_VALUE` cancels a pending timer or waits for its callback. Creation may fail.

`LwAtTimer` is the contract: `Cancel` gives up the outstanding arming inside a call, `Set` makes the new one
when nothing of an older one is left, `Fire` and `Return` frame the callback. The refinement takes as
the running arming the one *whose cb was called*, so a callback that mixes two armings is no step of it.

`LwAtInstance` puts the library on top: `FeedArm` and `DeinitCall` start the port's calls, and
`FeedReturn` and `DeinitClear` wait for them. `at_timer_expired` is `CbPending`, `CbCheck`, `CbNotify`, the last two because
`idle_cb` is read once for the test and once for the call. `pending_take` is `ProcessRead` and
`ProcessClear`. `epoch`, `by`, `lost` and `failed` are history. As on a PC, feed is called by the main thread.
Data mode is left to `LwAtCore`.

### LwAtOutput and LwAtCmdEx

A call prints a list of segments, `core_write_all` being one segment; `data` and `len` are its pointer and its
count. `wire` records what the host got from the call, and `cut` which segments were given up. What a call prints is out
before the next call starts, as all of it runs in the main loop.

`LwAtCmdEx` has the statics of the file and the five fields of the instance that decide which command may run and where
data goes. A setup's slots come from `ArgLists`; `told` is history, the slots the host was told OK for. In a FIXED session
`Deliver` is a chunk cut to what the session still wants, and `ExitFixed` a chunk as large as the ring holds, because
the drain to `exit_mark` does not look at `data_length`.

### LwAtCmdDict

`next` holds the link fields of all tables, `DictHead` is the static head. `register` is
`Register`, then one step for each node that `dict_node_in_list` and `dict_check_cross` look at,
then `Link`; `find` is `FindStart` and one step per node. The comparison of two tables' names is
`Clashes`, and `dict_check_table` is `CheckTable`. Two things the program does not
remember make it interesting: `reset` leaves the link fields of the tables as
they are, and a caller may leave anything in a field that `lw_at.h` only advises to be
NULL (`Links`). `chain`, the tables registered, is a history variable that only
the properties read. Calls do not overlap: the library asks for registration from one
context.

### LwAtParse

`buf` is `line_buf`; `rd`, `wr`, `slotStart`, `inQuote` and `args` are the locals and the field of
`core_split_slots`, which takes one step per character. What a handler reads
(`lw_at_arg_get`) is the C string that begins at `args[k]`, taken out of the buffer as the splitter left
it, and not a copy kept aside. `line` is history: what `get_line` returned. `get_line` passes a NUL
on as any other byte, so lines may contain one. `Commands` stands for the
dictionary; the gate on `enter_req` is part of `LwAtCore`. `strtol` is external and modelled in base 10, as
`lw_at_get_para_digit` calls it: it skips leading blanks (`Blank`, the characters `isspace` holds of), takes one sign `-` or `+` or
none, reads digits as far as they go, and saturates to `long`. `LwAtParseRef` says of a whole slot what an integer is
(`IntegerAt`), so `" 12"` and `"+12"` are accepted, `"12 "`, `"- 1"`, `"+-1"` and a slot of blanks are not.

## 3. The checks

| Run | Bounds | Properties and what they show |
|---|---|---|
| `stream_mc` | 4 cells, 3 byte values, segments of 1 and 2, line buffer of 1; feed in another thread | `IInv`, `UnreadStable`, `ImplementsByteQueue`: in every interleaving the ring is the queue, and consumer snapshots and windows stay valid |
| `stream_drops` | the same ring, one segment that overruns it | violation of `DropsSurviveReset` |
| `core_sessions` | 5 cells, FIXED sessions of 2 bytes without abort and STREAM sessions with and without guard, 4 feeds; interrupts and `lw_at_data_exit` on STREAM between calls | `ChunkIsData`, `CommandsAreCommands`: bytes before, in and behind a session go to the right reader; `MarkSplits`: `exit_mark` is where data ends; `PlusRun`, `SilentIsGuard`, `EscapeExact`: a session ends by itself exactly on silence, `+++`, silence; `LineServed`: every complete line is answered, those behind a FIXED window too, but for those fed while the exit of a STREAM session is pending |
| `core_preempt` | FIXED sessions of 2 bytes, the same with `allow_plus_abort`, STREAM, all with a guard; `lw_at_data_exit` at any time; 4 feeds; feed and timer interrupt everywhere | `TypeOK`; `FixedExact`: `OK` for a FIXED window means exactly its length; `ImplementsDialog`; `NoLeftovers`: what an interrupt does to `plus_cnt` and `exit_req` while a session is being closed does not reach the next one; `ExitHappens`: every pending exit ends its session, also in a FIXED one that `+++` aborts; `FixedEnds`: so does a full window |
| `core_guard` | STREAM with guard and without, 4 feeds; `LwAtGuard` with feed interrupting the main loop everywhere | `SoFar`: what has been written at each access; `Restored`: no `+` is put back that was not held; `ImplementsCore`: the loops do what `LwAtCore` says in one step, so that what holds of its '+' detection holds of theirs |
| `core_race` | STREAM, 4 feeds from the main thread, the callback at any access | violation of `Restored`, see section 5 |
| `core_mark` | STREAM, 4 feeds | violation, see section 5 |
| `dict_mc` | 7 tables: two with a name in common with a third, three malformed; 5 names; links NULL or stale | `IInv`, `ImplementsNameMap`, `Returns`: the list never loses a table, holds a name twice or closes into a cycle, after any calls in any order |
| `parse_mc` | all parameter texts of up to 5 characters over 7 kinds, all suffixes of up to 4; 3 slots; integers from -12 to 11, all texts of up to 5 digits, signs, blanks or of digits, `-` and commas; a wider `long` | `IInv`; `DispatchExact`, `SlotsExact`, `DigitsExact`: the handler called, its slots and their integers are those of the definition over the whole text; `Exact`: so is what has been split at each character |
| `instance_mc` | 3 armings, 2 lines; any number of lives | `PortInv`, `ImplementsTimer`; `DeinitQuiet`, `NoStaleExpiry`, `NoNullCall`: nothing outlives `lw_at_deinit`; `CallsReturn`: waiting for callbacks ends; `LineAnswered`: a line is answered unless its expiry was wiped out or `timer_arm` failed |
| `example_mc` | segments of 2 bytes, `cipsend_buf` of 3, up to 3 bytes in the ring; for each setup good slots, bad slots, and a bad slot behind a good one | `WireExact`, `OutputEnds`; `SettingsAreTold`; `BufferIsSession`; `StreamNeedsPass` |
| `para_long32` | the same texts of digits, `long` as narrow as `int32_t` | violation of `DigitsExact`, see section 5 |

Why the bounds are enough for the cases that matter: a ring of 4 or 5 cells wraps within
every run, fills up, and cuts a line, a `+++` and a FIXED window at its end; a FIXED
length of 2 has a first, a last and a surplus byte; a line buffer of 1 holds
the empty line and its NUL and rejects the shortest line with text. Segments include a
complete line, half a line, data with a command behind it and `+` in groups of one to three. With
four feeds a session is entered, used, left and followed by a command;
`MaxFeeds` also expresses that the host pauses in the end, which the liveness
properties need.

A parameter text of 5 characters holds an escape inside of quotes, an escaped escape, an
empty slot between two others, and a slot too many for a limit of 3. Three
tables in the list are a first, an inner and a last node.

Three armings are one that fires, one that replaces it while its callback runs, and one of the next life of
the instance; with two the third, a stale expiry in a new life that arms again, would be missing. A segment of 2 bytes has a short write and
a rest; a call has up to four segments, so a failure comes before, inside and behind one. `cipsend_buf` of 3 holds a session of
the longest accepted length (2), and 3 bytes from the ring overrun it.

Deadlock is checked in every run; the application can always poll.

**Fairness.** In `LwAtCmdDict`, a call that has begun goes on. In `LwAtCore`, `FairSpec` assumes `WF(MainLoop)`: the main loop goes on with the call it
is in and polls `lw_at_process`, as the library's README asks. It assumes
`SF(Timer)`: an armed one-shot timer fires. Strong fairness is right because
when the callback is not an interrupt it is enabled only between main-loop calls, again
and again. In `LwAtInstance` the main thread goes on with the call it is in and keeps calling `lw_at_process`, and pool
threads run: weak fairness per callback. The deletion that waits for a callback thereby ends, if `idle_cb` returns and
does not itself call into the library (`lw_at_port.h:93`; `lw_at.h:118` leaves it to the user, and on this port a call from
`idle_cb` that reloads or stops the timer waits for itself, as the mutant of `CallsReturn` shows). In `LwAtCmdEx`
`port.write` returns. Nothing is assumed of the host, nor of the application: a request may stay
open for good, and `lw_at_data_exit` may never be called.

## 4. The proofs

`LwAtStreamProofs` proves, for every ring size of at least 2, every set of bytes, every set
of non-empty segments, every line buffer size, and for feed as an interrupt or a
thread:

* `StreamSafe`: `Spec => []IInv`.
* `StreamUnreadStable`: no step changes an unread cell.
* `StreamImplementsByteQueue`: `Spec => BQ!Spec`.

The invariant that matters is `ConsumerInv`: what a call remembers still describes the
ring although feed ran in between. By itself it is not inductive. The
scan of `get_line` is undisturbed only because feed writes outside of
`tail .. head`, and this depends on where the producer's local cursor is relative
to the published `head` and to a `tail` that moves meanwhile. `ProducerInv` says so:
`Dist(tail, wcur) = Used + written`, and the cells from `head` on hold the
stored prefix. The rest is modular arithmetic, done once in lemmas on `Ahead` and
`Dist`: an index `k` places ahead of `tail` is a cell, two different distances below
`Size` are two different cells, and moving `tail` by `n` shifts the distances by `n`.
The proof has one lemma for each action and part of the invariant. The refinement uses a lemma
for each abstract action that says what the action does to `Content` as a sequence
(a prefix is appended, `n` bytes are dropped, the first `CR LF` is at the position
scanned).

`LwAtCoreProofs` proves, for every ring size of at least 2, handler table, set of segments and number of feeds:

* `CoreTypeOK`: `Spec => []TypeOK`, and with it that the ring keeps to its capacity, for every `Isr`.
* `CoreFixedExact`: `Spec => []FixedExact`, for every `Isr`. `FixedExact` speaks of the result line only. The invariant
  `Control` ties each place of the main loop to the mode and the policy, and `Counted` says what `data_got` is at each place of a session:
  it does not pass the length before the drain, and the drain always goes with `ERROR`.
* `CoreNoLeftovers`: `Spec => NoLeftovers`, for every `Isr`. Between the clearing of `exit_req` and the switch to command mode feed holds `+` again,
  and with an expiry even asks for an exit once more. In command mode neither interrupt touches `plus_cnt` or `exit_req` (`CommandInterrupts`),
  so what `lw_at_data_confirm` has cleared stays so until it switches the mode, which is part of `Counted`.
* `CoreImplementsDialog`: `Spec => ImplementsDialog`, for every `Isr`, if no handler fails after it has confirmed (`SyncSucceeds`;
  section 5 has what happens otherwise). `Answering` says when a request may be open and which results are possible where.
* `CorePlusRun`, `CoreSilentIsGuard`, `CoreEscapeExact`: `PlusRun`, `SilentIsGuard` and `EscapeExact`, for feed as an interrupt or not, if the
  timer callback does not preempt the main loop (section 5 has the expiry between mode switch and reload). `PlusRun` alone is not
  inductive: a run counts from a silence, and `silent` is that silence only if the timer that set it was the guard's. `GuardTold` adds it: in a
  session with a guard the timer is off or the guard's from the moment `ConfirmArm` is done, and `silent` agrees with the history.

* `CoreChunkIsData`, `CoreCommandsAreCommands`, `CoreMarkSplits`: the three properties of the bytes in the ring, under `Orderly`: feed does not
  preempt the main loop (the timer callback may, anywhere), no FIXED session may be aborted by `+++`, and the application leaves STREAM sessions
  only and once. Each of the three conditions is needed: a feed interrupt, a FIXED session left early or a second `lw_at_data_exit` violates
  one or more of the properties (section 5). The invariant `Sorted`
  says for each place of the main loop where data may lie: a byte is data exactly if a byte fed now to its
  place would be (`Tagged`), or lies in front of `exit_mark` (`Split`), or there is none (`NoData`). `AtPoint` adds what the loops have to know
  for this: a window lies within the contiguous run and, in a drain, in front of the mark, which is why `tail` meets the mark even across the
  wrap (`ConsumedToMark`). An expiry that preempts
  the loop asks for an exit at the head of the ring, also where the loop has just seen that none was asked for (`AtHead`).

`LwAtGuardProofs` carries the guard's three over to the code's loops. It proves, for the same constants and if neither interrupt
comes in the middle of the other one (`Nested = {}`):

* `GuardSoFar`: `GuardSpec => []SoFar`.
* `GuardImplementsCore`: `GuardSpec => ImplementsCore`.
* `GuardRestored`: `GuardSpec => []Restored`.

The condition is needed: `core_race` violates `Restored` with a callback inside of the flush, and section 5 has the feed inside
of the callback. While an interrupt is under way `LwAtCore` sees the state before it, so all its accesses but the last have to be
stutters, and the last has to make the whole step. `SoFar` remembers what the step is made of. Its part for the byte loop is `Run`: the `i - 1` bytes
looked at are `+`, they join the `Held` ones to three at most, and a run that is not inherited needs a silence before
it. `RunEnds` adds why the loop stops here, and `RunIsHold` shows that then `i - 1` is the number `LeadingPluses` chooses. For the flush loop
`SoFar` says that the ring is the one before with `back` `+` behind it while `StillHeld` are left in `plus_cnt`, a stored one being counted
down a step later. This is what `plus_cnt`, a `uint8_t`, needs not to wrap. That `+` stored one by one are `+` stored at once, also when the ring fills up in between
and the class of a byte depends on its place, is `OneMorePlus`. For the callback `SoFar` says which of its three writes are done.

`LwAtCmdDictProofs` proves, for all tables, names and initial links:

* `DictSafe`: `Spec => []IInv`.
* `DictImplementsNameMap`: `Spec => NM!Spec`.

Its invariant says that following `next` from the head visits `chain` and ends (`Linked`), which after
`Link` holds only because the new table is not in the list yet, and this is what the loop
`dict_node_in_list` has found. So the invariant says of each loop what it has rejected up to the node
it is at (`ListedInv`, `CrossInv`, `FindInv`). `Distinct` makes the refinement work: with no name in two
tables, the first hit of `find` is the only one.

`LwAtParseProofs` proves, for all lines, handlers and limits:

* `ParseSafe`: `Spec => []IInv`.
* `ParseExact`: `Spec => []Exact`, and from it `ParseDispatchExact` and `ParseSlotsExact`.
* `ParseDigitsExact`: `Spec => []DigitsExact`, if `long` is wider than `int32_t` (`para_long32` has the other case).

The argument for `ParseSafe` is the one of the comment at `lw_at_core.c:115`: `slotStart <= wr <= rd`, from `rd` on the buffer
still holds what the host sent, hence its final NUL is there and no read passes it.
For the slots, each one has to end in front of the next (`SlotsApart`); that they lie strictly
in front of `wr` is what keeps a later write out of them.

`Exact` says the same of the meaning. `LwAtParseRef` defines a slot by positions in the whole text: which commas are separators, which characters
are kept. At each character of the split, the slots behind the cursor are those characters, in their order, up to the place read
(`SplitSoFar`), and `inQuote` is the parity of the quote marks up to there. The definitions count and choose, so one character more is a lemma each
(`QuotedStep`, `SeparatorsStep`, `KeptStep`, `LiteralStep`), and that a counted set of positions has an order
(`RankOnto`) is an induction, which the prover gets as the existence of a least counterexample (`LeastNat`). The dispatch needs that a
line has one shape only (`OneShape`), which is why names must not contain `=` and `?`. For the integers,
`IntegerFrom` shows that an integer's digits begin where `strtol` has skipped blanks and sign, because blanks, signs and digits are different
characters, `AddsExists` that the recursive functions of `Strtol` and `Value` exist at every length, and `DigitExact` that they agree.

`LwAtPortWinProofs` proves, for every number of armings, `PortSafe` (`PortSpec => []PortInv`),
`PortCallbackIsItsOwn` and `PortImplementsTimer`. The globals have no lock; what protects them is `OneLive`: the only
timer that may fire or run is the one whose handle the main thread holds, or is about to store, and the globals are its
own. It is inductive together with `AtPoint`, what the main thread knows at each point of its two
functions: from `Deleted` on there is no handle, and no live timer until `ArmCreate`, so `ArmCb` and `ArmUser` write
globals that nobody reads.

`LwAtInstanceProofs` first shows that every step of the instance is a step of the port or none (`InstImplementsPort`), so that the port's
theorems hold of it, and then proves `InstDeinitQuiet`, `InstNoStaleExpiry` and `InstNoNullCall` from `InstInv`: the port's calls are nested
in the right calls of the library, a cleared instance holds no timer, and whatever is still live was armed after the last
clearing (`Fresh`).

`LwAtCmdExProofs` first proves that the steps of `core_write_all` keep `OutInv`: the last byte on the wire is
where `data` points (`Reached`), from which order and completeness follow. It uses this for `ExampleWireExact`, and proves
`ExampleSettingsAreTold`, `ExampleBufferIsSession` (a chunk stores anything only while nothing has been dropped, hence
`given = cipsend_len`) and `ExampleStreamNeedsPass`, for all slot texts, segment lengths, capacities and ring contents.

What is assumed: that NUL is none of the other special characters, that the separators and the two signs are different and that no blank
is one of them or a digit (`SpecialAssumption`), command names without `=`, `?` and NUL (others could never be called), digits between 0 and 9 and a `long` no narrower than `int32_t`, a slot limit of at least 1, a ring of at least 2 cells, NULL being no name or
table, a `cipsend_buf` and segments of at least one byte, and that no slot that reads as an integer is empty. TLC evaluates all of them.

What is model-checked only: the liveness properties (`ExitHappens`, `FixedEnds`, `LineServed`, `Returns`, `CallsReturn`, `LineAnswered`,
`OutputEnds`), as the prover handles neither fairness nor ENABLED.

## 5. Where code and comments disagree

Each of these has a run whose counterexample shows it:

* `stream_drops`: `reset` clears `overflow` after it moved `tail`. If a feed between the
  two fills the ring and drops bytes, the drop is never announced, and the truncated
  frame counts as complete. The comment calls `reset` safe against a concurrent feed.
* `core_race`: `transmit_flush_plus` tests `plus_cnt`, stores a `+` and decrements. When the guard expires in
  between, the callback clears `plus_cnt`, the decrement of a `uint8_t` gives 255, and the loop stores up to 255 `+` that nobody
  sent. On the Windows port, where `main.c` feeds in the main thread, this is a matter of timing alone: the byte that
  breaks the run comes when the guard time is just over.
* `core_mark`: the STREAM loop does not look at `exit_req` while it delivers. An
  escape that is confirmed during the loop does not stop it at `exit_mark`, and the
  host's next command goes to `on_chunk`.
* `para_long32`: `lw_at_get_para_digit` compares with the limits of `int32_t` after `strtol` has cut the value to
  `long`. With a 32-bit `long`, as on Windows and most microcontrollers, any larger integer is accepted
  as 2147483647.

Seen while modelling, without a run of their own. The first group is true of the models:

* Leaving STREAM clears `pending` (`lw_at_core.c:377`). If a command was fed while the exit was pending, its timer has
  already expired, in data mode, without effect. The command is not answered until the host sends something else;
  `lw_at_core.c:374` and `src/tests/unit/lw_at_core/TEST.md:48` expect the next idle expiry to do it. `LineServed` excepts these
  lines; without its last conjunct TLC shows one that stays.
* A feed that interrupts the callback (`Nested = {"feed"}`): `silent` is set before `plus_cnt` is read, so `++` fed in
  between joins an older `+`, and the callback takes the three for a run with its closing silence. `ImplementsCore` is violated.
* `lw_at_data_exit` after a confirmed escape takes `exit_mark` again (`lw_at_core.c:960`), and commands fed in between become
  data, although `lw_at_core.c:613` counts them as commands. With `AppExit = "any"` in `core_sessions`, `MarkSplits` is violated; the
  run lets the application exit only while no escape is pending.
* `lw_at_data_confirm` clears the ring before it switches the mode and before the prompt is printed, so bytes
  fed in between reach `on_chunk`; `lw_at.h:322` says that the ring is cleared after the prompt.
* `lw_at_data_exit` on a STREAM session prints `OK`, `lw_at.h:340` says it does not. On a FIXED session whose
  last bytes are in the ring it delivers them all, even more than `length`, and reports `ERROR`.
* A `+++` that aborts a FIXED session does the same: the drain goes to `exit_mark` whatever the length, so bytes the host sent behind
  a full window, before `lw_at_process` ran, come to `on_chunk` and not to the command parser. With `AllHandlers` and the segment
  `abt` in `core_sessions`, `MarkSplits` is violated, which is why its FIXED sessions have no abort.
* A `+` fed between the clearing of `exit_req` and the switch to command mode (`lw_at_core.c:351`, `:358`) is held for a session that is over, if
  a silence came before it. It is never stored, so the host's next line lacks it; the next session does not see it (`NoLeftovers`).
* A handler that confirms and then fails prints `ERROR` and the prompt.
* When `lw_at_process` runs late, the start of the next frame is discarded as the residue of an idle timeout that it never had.
* An expiry between the read and the clear of `pending_take` is wiped out, and its line waits for the
  next feed. This happens with the timer as an interrupt and with the Windows port, whose callback is another thread, although
  `docs/porting_guide.md:36` has the port call it in a serial context. `LineAnswered` excepts it (`lost`); without
  the exception TLC shows the loss.
* An idle expiry between the mode switch and the reload of the timer counts as the new session's guard silence.
* A failed segment does not stop the call: the text of `lw_at_send_line` may be cut while the `OK` behind it goes out, and
  both `lw_at_send_line` and `lw_at_write_raw` return the full length.

The entries with interrupts are why `core_guard` and `core_sessions` are stated with the
timer callback between main-loop calls. The second group is from reading only:

* `on_chunk` that calls `lw_at_data_exit`: the drain delivers the window that is being delivered a second time and consumes it, and the
  consume behind the callback (`lw_at_core.c:413`, `:441`) then moves `tail` past bytes that nobody has read, or past `head`. No document
  forbids the call.
* A feed interrupt between `timer_stop` and the clearing in `lw_at_deinit` arms the timer again, and its expiry comes in a cleared
  instance. `docs/core_api.md:36` says that `lw_at_deinit` stops the timer.
* `main.c`'s `demo_pump` sleeps exactly the idle time to make sure that the timer has expired (`main.c:75`); if the pool thread
  comes later, the answer comes with the next command.

## 6. Not modelled

* `get_line` and the handler are one step in `LwAtCore`. The fine steps of `get_line`
  are in `LwAtStream`, and a line that arrives during the scan is found by a later one.
* Library calls from inside `on_chunk`, `on_done` and `idle_cb` (section 5); the main loop's place would need a stack.
* A feed interrupt during `lw_at_init` and `lw_at_deinit`; all calls of the API but feed belong to the serial context (`lw_at.h:7`), and section 5 has what happens. A failing `timer_arm` in
  data mode: the guard then never falls silent, and only `lw_at_data_exit` ends a STREAM session.
* Several instances of the port; the port is a singleton, as the library is. `port_win_write` is `fwrite`, an instance of the
  port in `LwAtOutput`.
* Memory ordering: an access is atomic and visible at once, as on the single-core targets.
* The wording of output, logging, NULL arguments. `lw_at_transmit_process`, which nothing calls; it is the loop of
  `core_data_process_stream`.
* `main.c` as a program: it is one fixed sequence of calls that the models make in any order. Sleeping and console output.
* Time: the models have no clock. A timer that is armed expires later than that, no more is known.
* The test programs.

## 7. Plan

Done: the stream, the dictionary and the Windows timer with their refinements, checked and proved; the core with feed, timer, sessions and
guard, checked, and its safety proved; the loops of the guard, proved to implement the core's; parsing with
its safety and its exactness proved; the instance's life, the output path and the example's commands,
checked and proved. Next, in this order:

1. Proofs: the guard's three properties stated of `LwAtGuard` itself, by the refinement.
2. Re-entrant callbacks in `LwAtCore`: the loops as a stack of frames, to see which calls from `on_chunk` are safe.
3. `LwAtInstance` with feed as an interrupt and with data mode, so that the guard runs on the Windows timer as well.
