------------------------------- MODULE Bundle -------------------------------
(***************************************************************************)
(* The v1 bundle format (bundle_version.cc, and serialize_end_v1,          *)
(* deserialize_v1 and MessageConglomerate::addMessage of serialize.cc), at *)
(* the level of bytes: an 8-byte header; then, remLen bytes long, the two  *)
(* ids, a 3-byte length for each message, and the messages.                *)
(*                                                                         *)
(* One OngoingSerialization is begun, filled and ended as its comment      *)
(* prescribes, the bundle is written, and a peer using the same code reads *)
(* it.  Json::Reader is external: it reads the message a slice begins with.*)
(***************************************************************************)
EXTENDS Integers, Sequences, SequencesExt

CONSTANTS
    Msgs,     \* messages, as the byte sequences JsonSingleLineWriter writes
    Typed,    \* those that have a member "msg_type"
    Heads,    \* the ids given to serialize_begin, as bytes
    Batches   \* the sequences of messages put into one bundle

Byte == 0..255
Brace == 123     \* '{'

ASSUME BundleConstants ==
    /\ Msgs \subseteq Seq(Byte)
    /\ \A m \in Msgs : m # << >> /\ m[1] = Brace
    /\ \A m, n \in Msgs : IsPrefix(m, n) => m = n   \* no JSON object begins another
    /\ Typed \subseteq Msgs
    /\ Heads \subseteq [sendId: Seq(Byte), destId: Seq(Byte)]
    /\ Batches \subseteq Seq(Msgs)

VARIABLES
    batch,       \* the messages to be added
    vHead,       \* OngoingSerialization::vHead: the two ids ...
    msgLengths,  \* ... and its msgLengths
    messages,    \* OngoingSerialization::messages
    wire,        \* the bundle written: its header and its data
    got          \* what the peer's read and deserialize yield

vars == <<batch, vHead, msgLengths, messages, wire, got>>

Nothing == [header |-> << >>, data |-> << >>]
Unread == [status |-> "unread", msgs |-> << >>]
Refused == [status |-> "refused", msgs |-> << >>]
Threw == [status |-> "threw", msgs |-> << >>]
Read(ms) == [status |-> "read", msgs |-> ms]

-----------------------------------------------------------------------------
(* The header *)

\* x >> 8, x >> 16, x >> 24, and x & 0xFF.
Shr8(x)  == x \div 256
Shr16(x) == Shr8(Shr8(x))
Shr24(x) == Shr8(Shr16(x))
Low8(x)  == x % 256

\* Mutant: the two lower bytes of remLen are swapped.
make_bundle_header_v1_Swapped(h) ==
    <<1, Low8(h.sendIdLen), Low8(h.destIdLen), Low8(h.messageCount),
      Low8(Shr24(h.remLen)), Low8(Shr16(h.remLen)), Low8(h.remLen), Low8(Shr8(h.remLen))>>

\* BundleParser::make_bundle_header_v1: (unsigned char) keeps the low 8 bits.
make_bundle_header_v1(h) ==
    <<1, Low8(h.sendIdLen), Low8(h.destIdLen), Low8(h.messageCount),
      Low8(Shr24(h.remLen)), Low8(Shr16(h.remLen)), Low8(Shr8(h.remLen)), Low8(h.remLen)>>

\* BundleParser::read_bundle_header_v1, for a header whose version is 1.
read_bundle_header_v1(b) ==
    [sendIdLen |-> b[2], destIdLen |-> b[3], messageCount |-> b[4],
     remLen |-> ((b[5] * 256 + b[6]) * 256 + b[7]) * 256 + b[8]]

-----------------------------------------------------------------------------
(* Writing *)

\* The k-th byte of a 3-byte message length.
LengthByte(len, k) ==
    CASE k = 0 -> Low8(Shr16(len))
      [] k = 1 -> Low8(Shr8(len))
      [] k = 2 -> Low8(len)

LengthBytes == [i \in 1..(3 * Len(msgLengths)) |->
                   LengthByte(msgLengths[(i - 1) \div 3 + 1], (i - 1) % 3)]

\* JsonParser::serialize_end_v1.
serialize_end_v1 ==
    LET res == vHead.sendId \o vHead.destId \o LengthBytes \o messages IN
    [header |-> make_bundle_header_v1(
                    [sendIdLen |-> Len(vHead.sendId), destIdLen |-> Len(vHead.destId),
                     messageCount |-> Len(msgLengths), remLen |-> Len(res)]),
     data |-> res]

-----------------------------------------------------------------------------
(* Reading *)

\* Json::Reader::parse: the message the slice begins with, or an error.
Parses(slice) == \E m \in Msgs : IsPrefix(m, slice)
Parsed(slice) == CHOOSE m \in Msgs : IsPrefix(m, slice)

\* MessageConglomerate::addMessage accepts <offset, length> (offset from 0), and so
\* does ParseJsonMessageBase, which throws for a message without "msg_type".
addMessage(data, offset, length) ==
    LET slice == SubSeq(data, offset + 1, offset + length) IN
    /\ offset + length <= Len(data)
    /\ offset < Len(data) /\ data[offset + 1] = Brace
    /\ Parses(slice) /\ Parsed(slice) \in Typed

\* Where deserialize_v1 finds the first message.
FirstOffset(h) == h.sendIdLen + h.destIdLen + 3 * h.messageCount

\* The 3-byte message lengths, which follow the ids.
MessageLengths(h, data) ==
    LET ids == h.sendIdLen + h.destIdLen IN
    [j \in 1..h.messageCount |-> (data[ids + 3 * j - 2] * 256
                                + data[ids + 3 * j - 1]) * 256 + data[ids + 3 * j]]

\* Each message begins where the one before it ends.
Offsets(first, size) ==
    LET offset[j \in DOMAIN size] == IF j = 1 THEN first ELSE offset[j - 1] + size[j - 1]
    IN offset

\* JsonParser::deserialize_v1 on the remLen bytes the header asks for.
deserialize_v1(header, bytes) ==
    LET h      == read_bundle_header_v1(header)
        data   == SubSeq(bytes, 1, h.remLen)
        size   == MessageLengths(h, data)
        offset == Offsets(FirstOffset(h), size)
    IN
    IF \A j \in DOMAIN size : addMessage(data, offset[j], size[j])
    THEN Read([j \in DOMAIN size |-> Parsed(SubSeq(data, offset[j] + 1, offset[j] + size[j]))])
    ELSE Threw

-----------------------------------------------------------------------------
Init ==
    /\ batch \in Batches
    /\ vHead \in Heads
    \* a new OngoingSerialization, and serialize_begin
    /\ msgLengths = << >>
    /\ messages = << >>
    /\ wire = Nothing
    /\ got = Unread

\* makeX and addGeneric, for the next message.
addGeneric ==
    /\ Len(msgLengths) < Len(batch)
    /\ LET m == batch[Len(msgLengths) + 1] IN
       /\ messages' = messages \o m
       /\ msgLengths' = Append(msgLengths, Len(m))
    /\ UNCHANGED <<batch, vHead, wire, got>>

\* serialize_end and Session::write.
write ==
    /\ Len(msgLengths) = Len(batch)
    /\ wire = Nothing
    /\ wire' = serialize_end_v1
    /\ UNCHANGED <<batch, vHead, msgLengths, messages, got>>

\* The peer's Session::read, which refuses a bundle with remLen 0, and deserialize.
read ==
    /\ wire # Nothing
    /\ got = Unread
    /\ got' = IF read_bundle_header_v1(wire.header).remLen = 0
              THEN Refused
              ELSE deserialize_v1(wire.header, wire.data)
    /\ UNCHANGED <<batch, vHead, msgLengths, messages, wire>>

Next == addGeneric \/ write \/ read

Spec == Init /\ [][Next]_vars

-----------------------------------------------------------------------------
(* Properties *)

\* What deserialize can give back: something, in not more messages than the count
\* byte can count, each with the "msg_type" that ParseJsonMessageBase asks for.
Readable ==
    /\ wire.data # << >>
    /\ Len(batch) <= 255
    /\ \A i \in DOMAIN batch : batch[i] \in Typed

\* A bundle of up to 255 messages is framed exactly: the header asks for all the
\* data and no more.  It deserializes to the messages it was made of, in order,
\* if they are readable and only then.  Otherwise the reader refuses it or throws
\* (as on the messages that ReceivePacket forwards, which have no "msg_type"), but
\* for a bundle of more than 255 messages, of which it may find others or none.
RoundTrip ==
    /\ wire # Nothing /\ Len(batch) <= 255 =>
          read_bundle_header_v1(wire.header).remLen = Len(wire.data)
    /\ got # Unread =>
          /\ got = Read(batch) <=> Readable
          /\ Len(batch) <= 255 /\ ~Readable => got \in {Refused, Threw}
=============================================================================
