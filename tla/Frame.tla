------------------------------- MODULE Frame -------------------------------
(***************************************************************************)
(* The frames on the line between the service and the communication        *)
(* module (src/src/protocol): how Frame, UserData, InfoField, AddressField *)
(* and AppData are turned into bytes, and back.  Bytes are numbers below   *)
(* 256.                                                                    *)
(*                                                                         *)
(* A frame is a record                                                     *)
(*   dir, prm, comm   the control field                                    *)
(*   seq, mark, level the sequence number, comm_model_mark and relay_level *)
(*                    of the info field (no code reads its other bits)     *)
(*   addrs            <<>>, or source, relays and destination              *)
(*   afn, fn, data    the application data                                 *)
(***************************************************************************)
EXTENDS Integers, Sequences, SequencesExt

HEADER == 104       \* 0x68
TAIL == 22          \* 0x16
FRAME_SIZE == 6
INFO_FIELD_SIZE == 6
ADDR_LEN == 6

Down == 0
Up == 1
Slave == 0
Master == 1
Comm == {1, 2, 3, 10, 20}
Hplc == 3

\* Answer ... FileTransfer, Debug, CocurrentReadMeter and Test
Afn == (0..6) \cup (16..21) \cup {240, 241, 255}
Addressed == {2, 19, 241}

(***************************************************************************)
(* AppData::get_comm_mark, UserData::new and Frame::new.  The relay level  *)
(* is relay_address.is_some() as u8, whatever the number of relays.        *)
(***************************************************************************)
NewFrame(is_response, seq, addrs, afn, fn, data) ==
  [dir |-> Down, prm |-> IF is_response THEN Slave ELSE Master, comm |-> Hplc,
   seq |-> seq, mark |-> IF afn \in Addressed THEN 1 ELSE 0,
   level |-> IF Len(addrs) > 2 THEN 1 ELSE 0,
   addrs |-> addrs, afn |-> afn, fn |-> fn, data |-> data]

(***************************************************************************)
(* Into<Vec<u8>>, part by part.                                            *)
(***************************************************************************)
LittleEndian(n) == <<n % 256, (n \div 256) % 256>>

CtrlByte(f) == f.dir * 128 + f.prm * 64 + f.comm

InfoBytes(f) == <<f.mark * 4 + f.level * 16, 0, 0, 0, 0, f.seq>>

AddressBytes(addrs) == FlattenSeq([i \in DOMAIN addrs |-> Reverse(addrs[i])])

\* DataFlag: one bit of the mark for the function within its group of eight
AppBytes(f) == <<f.afn, 2^((f.fn - 1) % 8), (f.fn - 1) \div 8>> \o f.data

calc_checksum(bytes) ==
  LET sum[i \in 0..Len(bytes)] == IF i = 0 THEN 0 ELSE (sum[i - 1] + bytes[i]) % 256
  IN sum[Len(bytes)]

ToBytes(f) ==
  LET user_data == InfoBytes(f) \o AddressBytes(f.addrs) \o AppBytes(f)
      summed == <<CtrlByte(f)>> \o user_data
  IN <<HEADER>> \o LittleEndian(FRAME_SIZE + Len(user_data)) \o summed
       \o <<calc_checksum(summed), TAIL>>

(***************************************************************************)
(* TryFrom<&[u8]>.  Invalid stands for an Err as well as for a panic: both *)
(* end the thread that reads.  A slice that is too short and a data flag   *)
(* without a bit (as_fn_num) panic before the checksum is looked at; an    *)
(* overflow of type_ * 8 + index + 1 panics in a debug build, and is       *)
(* treated alike here, as no module has a function above 255.              *)
(***************************************************************************)
Invalid == [valid |-> FALSE]

CtrlIsValid(b) == b % 64 \in Comm

\* the lowest set bit of the mark, counted from 0
MarkIndex(mark) == CHOOSE i \in 0..7 : /\ (mark \div 2^i) % 2 = 1
                                       /\ mark % 2^i = 0

FnNum(mark, type) == type * 8 + MarkIndex(mark) + 1

AppIsValid(app) ==
  /\ Len(app) >= 3
  /\ app[1] \in Afn
  /\ app[2] # 0
  /\ FnNum(app[2], app[3]) <= 255

InfoMark(user_data) == (user_data[1] \div 4) % 2

InfoLevel(user_data) == user_data[1] \div 16

\* the addresses are read if and only if the mark says so
AddressCount(user_data) == IF InfoMark(user_data) = 1 THEN InfoLevel(user_data) + 2 ELSE 0

UserDataIsValid(user_data) ==
  /\ Len(user_data) >= INFO_FIELD_SIZE
  /\ LET end == INFO_FIELD_SIZE + AddressCount(user_data) * ADDR_LEN
     IN /\ Len(user_data) >= end
        /\ AppIsValid(SubSeq(user_data, end + 1, Len(user_data)))

HeaderIsValid(bytes) ==
  /\ Len(bytes) >= FRAME_SIZE
  /\ bytes[1] = HEADER
  /\ bytes[2] + 256 * bytes[3] <= Len(bytes)

\* Mutant: the checksum is not compared.
AnyChecksum(bytes) == Len(bytes) > 0

ChecksumIsValid(bytes) ==
  bytes[Len(bytes) - 1] = calc_checksum(SubSeq(bytes, 4, Len(bytes) - 2))

FromBytes(bytes) ==
  IF /\ HeaderIsValid(bytes)
     /\ CtrlIsValid(bytes[4])
     /\ UserDataIsValid(SubSeq(bytes, 5, Len(bytes) - 2))
     /\ ChecksumIsValid(bytes)
     /\ bytes[Len(bytes)] = TAIL
  THEN LET user_data == SubSeq(bytes, 5, Len(bytes) - 2)
           count == AddressCount(user_data)
           end == INFO_FIELD_SIZE + count * ADDR_LEN
           app == SubSeq(user_data, end + 1, Len(user_data))
           Address(i) == Reverse(SubSeq(user_data, INFO_FIELD_SIZE + (i - 1) * ADDR_LEN + 1,
                                        INFO_FIELD_SIZE + i * ADDR_LEN))
       IN [valid |-> TRUE,
           frame |-> [dir |-> bytes[4] \div 128, prm |-> (bytes[4] \div 64) % 2,
                      comm |-> bytes[4] % 64, seq |-> user_data[6],
                      mark |-> InfoMark(user_data), level |-> InfoLevel(user_data),
                      addrs |-> [i \in 1..count |-> Address(i)],
                      afn |-> app[1], fn |-> FnNum(app[2], app[3]),
                      data |-> SubSeq(app, 4, Len(app))]]
  ELSE Invalid

(***************************************************************************)
(* Frame::parse on the bytes received so far: nothing yet, or the first    *)
(* frame and the number of bytes used up.  The length is read from the     *)
(* second and third byte of the whole buffer, also when the header was     *)
(* found further on.                                                       *)
(***************************************************************************)
Nothing == [some |-> FALSE]

FirstHeader(buffer) ==
  LET at == {i \in DOMAIN buffer : buffer[i] = HEADER}
  IN IF at = {} THEN Len(buffer) + 1 ELSE CHOOSE i \in at : \A j \in at : i <= j

\* Mutant: a frame is taken only when another byte follows it.
IsShortOrLast(rest, length) == rest <= length

IsShort(rest, length) == rest < length

parse(buffer) ==
  LET start == FirstHeader(buffer)
      rest == Len(buffer) - start + 1
      length == buffer[2] + 256 * buffer[3]
  IN IF IsShort(rest, 3) \/ IsShort(rest, length)
     THEN Nothing
     ELSE [some |-> TRUE, used |-> start - 1 + length,
           result |-> FromBytes(SubSeq(buffer, start, start + length - 1))]

=============================================================================
