---------------------------- MODULE PacketCodec ----------------------------
(***************************************************************************)
(* The readers and writers of Packet/: BinaryReader, BinaryWriter and the  *)
(* constructors and writePacketPayload of Base, PacketBase,                *)
(* PacketPassAlong, Announce and Message.                                  *)
(*                                                                         *)
(* Bytes are digits below Radix (256), a uint64 is its Wide (8) digits,    *)
(* most significant first.  Only lengths and flags are looked at as        *)
(* numbers.                                                                *)
(***************************************************************************)
EXTENDS Integers, Sequences

CONSTANTS
  Radix,           \* how many values a byte has
  Wide,            \* bytes of a uint64
  type_announce, type_message,
  SenderPeerFlag   \* bit of message_flags, hasSenderPeerID

ASSUME BytesAssumption == Wide \in Nat \ {0} /\ Radix \in Nat /\ Radix > 2 * Wide
ASSUME TypesAssumption ==
  /\ {type_announce, type_message, SenderPeerFlag} \subseteq 1 .. Radix - 1
  /\ type_announce # type_message

Byte == 0 .. Radix - 1
Zeros(n) == [i \in 1 .. n |-> 0]

\* The bit of a flags byte.
HasBit(flags, bit) == (flags \div bit) % 2 = 1
hasPacketRecipient(flags) == HasBit(flags, 1)
hasSenderPeerID(message_flags) == HasBit(message_flags, SenderPeerFlag)

-----------------------------------------------------------------------------
(***************************************************************************)
(* BinaryReader.  A cursor holds what is left to read, the value read last *)
(* and whether a read has come up short: such a read gives zero, or no     *)
(* data, and consumes nothing.                                             *)
(***************************************************************************)

Cursor(buffer) == [rest |-> buffer, val |-> << >>, short |-> FALSE]

Advance(c, n, default) ==
  IF n > Len(c.rest) THEN [rest |-> c.rest, val |-> default, short |-> TRUE]
  ELSE [rest |-> SubSeq(c.rest, n + 1, Len(c.rest)),
        val |-> SubSeq(c.rest, 1, n), short |-> c.short]

\* read_uint8, read_uint16, read_uint64
read_uint(c, n) == Advance(c, n, Zeros(n))

\* read_data: nullptr, which every caller turns into the empty string
read_data(c, n) == Advance(c, n, << >>)

Number(digits) ==
  IF Len(digits) = 1 THEN digits[1] ELSE digits[1] * Radix + digits[2]

\* A length of n bytes and as many characters.
ReadString(c, n) == LET l == read_uint(c, n) IN read_data(l, Number(l.val))

Absent(c, n) == [rest |-> c.rest, val |-> Zeros(n), short |-> c.short]

-----------------------------------------------------------------------------
(***************************************************************************)
(* Reading packets; body is what follows version and type.                 *)
(***************************************************************************)

\* Base, with the cursor behind it.
ReadBase(body) ==
  LET ttl == read_uint(Cursor(body), 1)
      timestamp == read_uint(ttl, Wide)
      flags == read_uint(timestamp, 1)
  IN [ttl |-> ttl.val[1], timestamp |-> timestamp.val, flags |-> flags.val[1],
      cursor |-> flags]

\* PacketBase
ReadHeader(body) ==
  LET b == ReadBase(body)
      sender == read_uint(b.cursor, Wide)
      recipient == IF hasPacketRecipient(b.flags) THEN read_uint(sender, Wide)
                   ELSE Absent(sender, Wide)
  IN [ttl |-> b.ttl, timestamp |-> b.timestamp, flags |-> b.flags,
      sender |-> sender.val, recipient |-> recipient.val, cursor |-> recipient]

\* Announce; whole: no read has come up short.
ReadAnnounce(body) ==
  LET h == ReadHeader(body)
      name == ReadString(h.cursor, 1)
  IN [type |-> type_announce, ttl |-> h.ttl, timestamp |-> h.timestamp,
      flags |-> h.flags, sender |-> h.sender, recipient |-> h.recipient,
      name |-> name.val, whole |-> ~name.short]

\* Message: what follows the content is not read.
ReadMessage(body) ==
  LET h == ReadHeader(body)
      mflags == read_uint(h.cursor, 1)
      mtime == read_uint(mflags, Wide)
      id == ReadString(mtime, 1)
      nick == ReadString(id, 1)
      content == ReadString(nick, 2)
  IN [type |-> type_message, ttl |-> h.ttl, timestamp |-> h.timestamp,
      flags |-> h.flags, sender |-> h.sender, recipient |-> h.recipient,
      message_flags |-> mflags.val[1], message_timestamp |-> mtime.val,
      message_id |-> id.val, sender_nickname |-> nick.val,
      content |-> content.val, whole |-> ~content.short]

-----------------------------------------------------------------------------
(***************************************************************************)
(* Writing.                                                                *)
(***************************************************************************)

Digits(number, n) ==
  IF n = 1 THEN <<number % Radix>> ELSE <<(number \div Radix) % Radix, number % Radix>>

\* A length of n bytes and the string, cut to what the length can say.
WriteString(s, n) ==
  LET most == IF n = 1 THEN Radix - 1 ELSE Radix * Radix - 1
      len == IF Len(s) < most THEN Len(s) ELSE most
  IN Digits(len, n) \o SubSeq(s, 1, len)

\* Base::writePacket
WriteBase(p) == <<1, p.type, p.ttl>> \o p.timestamp \o <<p.flags>>

\* Slip: the recipient is never written.
WriteHeader_NoRecipient(p) == WriteBase(p) \o p.sender

\* ... and PacketBase::writePacketPayload
WriteHeader(p) ==
  WriteBase(p) \o p.sender
    \o (IF hasPacketRecipient(p.flags) THEN p.recipient ELSE << >>)

\* PacketPassAlong, as an announcement is stored: Announce's part, the name,
\* is cut off when the packet is assigned to the map.
WritePassAlong(p) == WriteHeader(p)

\* Announce::writePacketPayload, of our own announcement
WriteAnnounce(p) == WriteHeader(p) \o WriteString(p.name, 1)

\* Slip: a peer id is written whether or not the flags announce one.
WriteMessage_AlwaysPeer(p, peer_id) ==
  WriteHeader(p)
    \o <<p.message_flags>> \o p.message_timestamp
    \o WriteString(p.message_id, 1) \o WriteString(p.sender_nickname, 1)
    \o WriteString(p.content, 2)
    \o <<2 * Wide>> \o peer_id

\* Message.  sender_peer is never set: whatever id is read through the null
\* pointer is written.
WriteMessage(p, peer_id) ==
  WriteHeader(p)
    \o <<p.message_flags>> \o p.message_timestamp
    \o WriteString(p.message_id, 1) \o WriteString(p.sender_nickname, 1)
    \o WriteString(p.content, 2)
    \o (IF hasSenderPeerID(p.message_flags) THEN <<2 * Wide>> \o peer_id
        ELSE << >>)

-----------------------------------------------------------------------------
\* Slip: the time to live takes part in the hash.
Identity_WithTtl(p) ==
  IF p.type = type_message THEN <<p.message_id>>
  ELSE <<p.type, p.flags, p.timestamp, p.sender, p.recipient, p.ttl>>

\* The key of a packet in the store: the message id, or what getPacketHash
\* hashes (an announcement has no payload; distinct hashes are assumed).
Identity(p) ==
  IF p.type = type_message THEN <<p.message_id>>
  ELSE <<p.type, p.flags, p.timestamp, p.sender, p.recipient>>
=============================================================================
