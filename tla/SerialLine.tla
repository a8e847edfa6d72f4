---------------------------- MODULE SerialLine ----------------------------
(***************************************************************************)
(* The line from the communication module to the service: bytes that the   *)
(* module writes, and StreamReader (src/src/serial_port.rs), which cuts    *)
(* them into frames for the reader thread of UartAgent.                    *)
(*                                                                         *)
(* The stream delivers the bytes in chunks of any size.  The line may add  *)
(* bytes of its own or change one, once in a behaviour.  The stream is a   *)
(* TCP connection, where a read waits for bytes or for the close, or a     *)
(* serial port, where a read fails after 100 ms of silence.                *)
(***************************************************************************)
EXTENDS Frame

CONSTANTS
  Frames,    \* the frames the module may send
  Junk,      \* sequences of bytes that the line may add
  Changes,   \* pairs of a place in a frame and the byte that the line may put there
  MaxSent,   \* bound: frames sent in a behaviour
  ReadMax    \* size of the buffer of one read, 1024 in the code

ASSUME LineAssumption ==
  /\ MaxSent \in Nat
  /\ ReadMax \in Nat \ {0}

VARIABLES
  link,      \* "tcp" or "serial"
  open,      \* the peer has not closed the connection
  line,      \* bytes written by the module and not read yet
  buffer,    \* StreamReader.buffer
  reader,    \* "running", or "ended" by an error or a panic
  sent,      \* history: the frames the module sent
  received,  \* history: the frames given to the agent
  clean      \* history: the number of frames before the first fault of the
             \* line, NoFault while there is none

vars == <<link, open, line, buffer, reader, sent, received, clean>>

Byte == 0..255
FrameBytes == [f \in Frames |-> ToBytes(f)]
NoFault == MaxSent + 1

(* Bytes on the line and in the buffer, and no more frames than were sent. *)
TypeOK ==
  /\ link \in {"tcp", "serial"}
  /\ open \in BOOLEAN
  /\ line \in Seq(Byte)
  /\ buffer \in Seq(Byte)
  /\ reader \in {"running", "ended"}
  /\ sent \in Seq(Frames)
  /\ Len(received) <= Len(sent)
  /\ clean \in 0..NoFault

Init ==
  /\ link \in {"tcp", "serial"}
  /\ open = TRUE
  /\ line = <<>>
  /\ buffer = <<>>
  /\ reader = "running"
  /\ sent = <<>>
  /\ received = <<>>
  /\ clean = NoFault

---------------------------------------------------------------------------
(* The module and the line. *)

ModuleSends(f) ==
  /\ open
  /\ Len(sent) < MaxSent
  /\ line' = line \o FrameBytes[f]
  /\ sent' = Append(sent, f)
  /\ UNCHANGED <<link, open, buffer, reader, received, clean>>

LineAdds(junk) ==
  /\ open
  /\ clean = NoFault
  /\ line' = line \o junk
  /\ clean' = Len(sent)
  /\ UNCHANGED <<link, open, buffer, reader, sent, received>>

\* Nobody looks at a byte between the module and the read: it is changed as it is sent.
LineChanges(f, i, b) ==
  /\ open
  /\ Len(sent) < MaxSent
  /\ clean = NoFault
  /\ i <= Len(FrameBytes[f])
  /\ FrameBytes[f][i] # b
  /\ line' = line \o [FrameBytes[f] EXCEPT ![i] = b]
  /\ sent' = Append(sent, f)
  /\ clean' = Len(sent)
  /\ UNCHANGED <<link, open, buffer, reader, received>>

PeerCloses ==
  /\ link = "tcp"
  /\ open
  /\ open' = FALSE
  /\ UNCHANGED <<link, line, buffer, reader, sent, received, clean>>

---------------------------------------------------------------------------
(* read_response: frames that are complete are taken first, then the       *)
(* stream is read.                                                         *)

\* Mutant: all that was read goes with a frame.
NoneUnread(used) == <<>>

Unread(used) == SubSeq(buffer, used + 1, Len(buffer))

parse_frame ==
  /\ reader = "running"
  /\ LET parsed == parse(buffer)
     IN /\ parsed.some
        /\ parsed.result.valid
        /\ received' = Append(received, parsed.result.frame)
        /\ buffer' = Unread(parsed.used)
  /\ UNCHANGED <<link, open, line, reader, sent, clean>>

ParseFails ==
  /\ reader = "running"
  /\ LET parsed == parse(buffer) IN parsed.some /\ ~parsed.result.valid
  /\ reader' = "ended"
  /\ UNCHANGED <<link, open, line, buffer, sent, received, clean>>

Reading == reader = "running" /\ ~parse(buffer).some

Read ==
  /\ Reading
  /\ \E n \in 1..Len(line) :
       /\ n <= ReadMax
       /\ buffer' = buffer \o SubSeq(line, 1, n)
       /\ line' = SubSeq(line, n + 1, Len(line))
  /\ UNCHANGED <<link, open, reader, sent, received, clean>>

\* 0 bytes after a close; TimedOut of the serial port in a silence of 100 ms
ReadFails ==
  /\ Reading
  /\ line = <<>>
  /\ link = "serial" \/ ~open
  /\ reader' = "ended"
  /\ UNCHANGED <<link, open, line, buffer, sent, received, clean>>

Next ==
  \/ \E f \in Frames : ModuleSends(f)
  \/ \E junk \in Junk : LineAdds(junk)
  \/ \E f \in Frames, c \in Changes : LineChanges(f, c[1], c[2])
  \/ PeerCloses
  \/ parse_frame
  \/ ParseFails
  \/ Read
  \/ ReadFails

Spec == Init /\ [][Next]_vars

---------------------------------------------------------------------------
(* Properties. *)

BytesOf(frames) == FlattenSeq([i \in DOMAIN frames |-> FrameBytes[frames[i]]])

Faultless == clean = NoFault

(* What the agent is given is what the module sent, field by field, in     *)
(* order and without a gap, whatever the chunks of the stream are, with    *)
(* any one fault of the instance (Junk, Changes), whose changes reach      *)
(* every field (Frame::parse, TryFrom<&[u8]> for Frame).  It is not true   *)
(* of every fault: added bytes may spell a frame.                          *)
OnlySentFrames == IsPrefix(received, sent)

(* While the line has no fault no byte is lost or read twice: the frames   *)
(* given to the agent, the buffer and the bytes under way are together     *)
(* what the module sent, and only the end of the stream ends the reader    *)
(* (the advance in parse_frame, the order of parse and read).              *)
BytesAreKept ==
  Faultless =>
    /\ OnlySentFrames
    /\ BytesOf(sent) = BytesOf(received) \o buffer \o line
    /\ reader = "ended" => link = "serial" \/ (~open /\ line = <<>>)

(* No frame before the first fault of the line is held back or cut off:    *)
(* the reader waits for the stream, with nothing under way, only when it   *)
(* has given all of them to the agent, and neither a close nor the error   *)
(* of a later frame ends it before.  (On a serial port a silence of 100 ms *)
(* may end the reader at any time.)                                        *)
FramesArrive ==
  \/ reader = "running" /\ (line # <<>> \/ parse(buffer).some)
  \/ reader = "ended" /\ link = "serial"
  \/ Len(received) >= Len(sent)
  \/ Len(received) >= clean

=============================================================================
