---------------------------- MODULE LwAtStreamMC ----------------------------
(* Instances of LwAtStream for TLC: the two terminator bytes and one other. *)
EXTENDS LwAtStream

MCByte     == {13, 10, 65}
\* Text, a terminator in two halves: every line the ring can hold arises,
\* cut anywhere, and `A A CR` + `LF` overruns what is left of the ring.
MCSegments == {<<65>>, <<65, 13>>, <<10>>}
\* One segment that overruns the ring on its own.
LongSegments == {<<65, 65, 13, 10>>}

\* The ring is reused, so stale cells of every kind arise from these.
MCInit == Init /\ \A c \in Cells : buf[c] = 65
MCSpec == MCInit /\ [][Next]_vars
=============================================================================
