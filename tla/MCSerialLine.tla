---------------------------- MODULE MCSerialLine ----------------------------
(***************************************************************************)
(* Frames of every shape for SerialLine: a confirmation, a report, an      *)
(* answer with addresses and with a relay, function numbers at the edges   *)
(* of a group of eight, a sequence number before its wrap-around, and data *)
(* that looks like a header and a tail.                                    *)
(***************************************************************************)
EXTENDS SerialLine

Meter == <<18, 52, 86, 120, 144, 1>>
Relay == <<0, 0, 0, 0, 104, 22>>
Concentrator == <<1, 2, 3, 4, 5, 6>>

FromModule(f, prm) == [f EXCEPT !.dir = Up, !.prm = prm]

MCFrames == {
  FromModule(NewFrame(TRUE, 0, <<>>, 0, 1, <<>>), Slave),
  FromModule(NewFrame(FALSE, 255, <<>>, 6, 8, <<104, 22>>), Master),
  FromModule(NewFrame(TRUE, 104, <<Meter, Relay, Concentrator>>, 241, 9, <<>>), Slave),
  NewFrame(FALSE, 22, <<Concentrator, Meter>>, 19, 1, <<104>>),
  NewFrame(FALSE, 1, <<>>, 3, 255, <<22>>)}

MCJunk == {<<0>>, <<104>>, <<22, 104>>, <<0, 15, 0>>, <<104, 6, 0, 3, 22, 22>>}

\* header, length (one shorter, one longer, two short frames), control field, mark of
\* the info field, sequence number, function, data flag, checksum, tail
MCChanges == {<<1, 0>>, <<2, 14>>, <<2, 16>>, <<2, 30>>, <<3, 1>>, <<4, 0>>, <<5, 4>>,
              <<10, 9>>, <<11, 7>>, <<12, 0>>, <<13, 5>>, <<14, 22>>, <<15, 0>>}
=============================================================================
