----------------------------- MODULE WireFormat -----------------------------
(***************************************************************************)
(* Numbers, strings and frames as bytes.  A byte is a number below Byte    *)
(* (256 in the code), the first byte of a number is its lowest, a string   *)
(* is the sequence of its bytes.  Readers get an offset and return what    *)
(* they read with the offset behind it, or Unread.                         *)
(***************************************************************************)
EXTENDS Naturals, Sequences, SequencesExt, FiniteSetsExt

CONSTANTS
    Byte,       \* values of a byte
    Magic,      \* kMagic
    Version     \* kVersion

ASSUME WireAssumption ==
    /\ Byte \in Nat /\ Byte >= 4
    /\ Magic \in 0..(Byte * Byte * Byte * Byte - 1)
    /\ Version \in 0..(Byte * Byte - 1)

HeaderSize == 12
MaxString == Byte * Byte - 1
MaxUint32 == Byte * Byte * Byte * Byte - 1

(* The unsigned cast to two or four bytes is part of writing a number. *)
WriteUint16(n) == <<n % Byte, (n \div Byte) % Byte>>
WriteUint32(n) == WriteUint16(n) \o WriteUint16((n \div Byte) \div Byte)

(* WriteString cuts what its two bytes of length cannot say. *)
WriteString(s) ==
    LET len == Min({Len(s), MaxString})
    IN  WriteUint16(len) \o SubSeq(s, 1, len)

WriteBytes(s) == WriteUint32(Len(s)) \o s

Unread == [ok |-> FALSE]
Got(value, at) == [ok |-> TRUE, value |-> value, at |-> at]

(* Go on with what was read and the offset behind it, if it was. *)
Then(read, Next(_, _)) ==
    IF read.ok THEN Next(read.value, read.at) ELSE Unread

(* The number in at most four bytes. *)
NumberOf(bytes) ==
    LET byte(i) == IF i \in DOMAIN bytes THEN bytes[i] ELSE 0
    IN  byte(1) + Byte * (byte(2) + Byte * (byte(3) + Byte * byte(4)))

ReadNumber(data, at, width) ==
    IF at + width > Len(data) THEN Unread
    ELSE Got(NumberOf(SubSeq(data, at + 1, at + width)), at + width)
ReadUint32(data, at) == ReadNumber(data, at, 4)

(* A length of that many bytes, then as much text. *)
ReadCounted(data, at, width) ==
    Then(ReadNumber(data, at, width),
         LAMBDA n, from : IF from + n > Len(data) THEN Unread
                          ELSE Got(SubSeq(data, from + 1, from + n), from + n))
ReadString(data, at) == ReadCounted(data, at, 2)
ReadBytes(data, at) == ReadCounted(data, at, 4)

FrameTypes == [login |-> 1, logout |-> 2, message |-> 3, group |-> 4,
               heartbeat |-> 5, push |-> 6, pull |-> 7, friends |-> 8,
               add |-> 9, remark |-> 10]

EncodeFrame(type, payload) ==
    WriteUint32(Magic) \o WriteUint16(Version) \o WriteUint16(type)
        \o WriteUint32(Len(payload)) \o payload

(* A frame may be followed by bytes nobody looks at, never be cut short. *)
DecodeFrame(data) ==
    IF \/ Len(data) < HeaderSize
       \/ NumberOf(SubSeq(data, 1, 4)) # Magic
       \/ NumberOf(SubSeq(data, 5, 6)) # Version
    THEN Unread
    ELSE Then(ReadBytes(data, 8),
              LAMBDA payload, at : Got([type |-> NumberOf(SubSeq(data, 7, 8)),
                                        payload |-> payload], at))
=============================================================================
