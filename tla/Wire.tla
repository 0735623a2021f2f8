-------------------------------- MODULE Wire --------------------------------
(***************************************************************************)
(* The messages and their encoding (internal/protocol): what WriteMessage  *)
(* puts on a connection and what ReadMessage makes of what comes.          *)
(*                                                                         *)
(* The widths of the fields are the code's; a byte has ByteBits bits       *)
(* instead of 8, and identifiers and hashes are IdLen and HashLen bytes    *)
(* long, so that limits are near.  Texts and data are sequences of bytes.  *)
(***************************************************************************)
EXTENDS Integers, Sequences, SequencesExt

CONSTANTS ByteBits, IdLen, HashLen, MaxMessageSize

ASSUME WireAssumption == /\ ByteBits \in 4 .. 8
                         /\ IdLen \in Nat /\ HashLen \in Nat
                         /\ MaxMessageSize \in Nat

Base == 2 ^ ByteBits

MsgHandshake == 1
MsgManifest  == 2
MsgBitfield  == 3
MsgHave      == 4
MsgRequest   == 5
MsgPiece     == 6
MsgCancel    == 7
MsgSync      == 8
MsgPeerList  == 9
MsgKeepalive == 10

\* No message: what could not be decoded.
Garbled == [type |-> 0]

-----------------------------------------------------------------------------
(* PutUint16, PutUint32 and PutUint64 keep the last w bytes of a number. *)

\* Shifted(n, w)[k]: n without its last k bytes.
Shifted(n, w) ==
  LET shift[k \in 0 .. w] == IF k = 0 THEN n ELSE shift[k - 1] \div Base
  IN shift

Put(n, w) == [i \in 1 .. w |-> Shifted(n, w)[w - i] % Base]
Get(bytes) ==
  LET value[i \in 0 .. Len(bytes)] ==
        IF i = 0 THEN 0 ELSE value[i - 1] * Base + bytes[i]
  IN value[Len(bytes)]

\* The conversion of a number to one of w bytes.
Cut(n, w) == Get(Put(n, w))

\* n bytes of d from offset o on.
Slice(d, o, n) == SubSeq(d, o + 1, o + n)
Field(d, o, n) == Get(Slice(d, o, n))

-----------------------------------------------------------------------------
(* Messages.  Numbers of w bytes; texts and lists have a length of two and *)
(* of four.                                                                *)

Byte    == 0 .. Base - 1
Uint(w) == {n \in Nat : Shifted(n, w)[w] = 0}
Text    == {s \in Seq(Byte) : Len(s) \in Uint(2)}
List(S) == {s \in Seq(S) : Len(s) \in Uint(4)}

\* Numbers that are signed or have a fraction are the bits that stand for them.
Message ==
  [type : {MsgHandshake}, id : [1 .. IdLen -> Byte], version : Byte]
  \cup {m \in [type : {MsgManifest}, name : Text, fileSize : Uint(8),
               chunkSize : Uint(8), count : Uint(4),
               chunks : List([size : Uint(4), hash : [1 .. HashLen -> Byte]])] :
          m.count = Len(m.chunks)}
  \cup [type : {MsgBitfield}, bits : Seq(Byte)]
  \cup [type : {MsgHave, MsgCancel}, index : Uint(4)]
  \cup [type : {MsgRequest}, indices : List(Uint(4))]
  \cup [type : {MsgPiece}, index : Uint(4), data : Seq(Byte)]
  \cup [type : {MsgSync}, time : Uint(8), state : Byte, unixMs : Uint(8)]
  \cup [type : {MsgPeerList}, addrs : List(Text)]
  \cup [type : {MsgKeepalive}]

Each(s, Put1(_)) == FlattenSeq([i \in DOMAIN s |-> Put1(s[i])])

EncodeManifest(m) ==
  Put(Len(m.name), 2) \o m.name
    \o Put(m.fileSize, 8) \o Put(m.chunkSize, 8) \o Put(m.count, 4)
    \o Each(m.chunks, LAMBDA c : Put(c.size, 4) \o c.hash)
EncodeRequest(m) ==
  Put(Len(m.indices), 4) \o Each(m.indices, LAMBDA i : Put(i, 4))
EncodePiece(m) == Put(m.index, 4) \o m.data
EncodePeerList(m) ==
  Put(Len(m.addrs), 4) \o Each(m.addrs, LAMBDA a : Put(Len(a), 2) \o a)

Payload(m) ==
  CASE m.type = MsgHandshake -> m.id \o <<m.version>>
    [] m.type = MsgManifest -> EncodeManifest(m)
    [] m.type = MsgBitfield -> m.bits
    [] m.type \in {MsgHave, MsgCancel} -> Put(m.index, 4)
    [] m.type = MsgRequest -> EncodeRequest(m)
    [] m.type = MsgPiece -> EncodePiece(m)
    [] m.type = MsgSync -> Put(m.time, 8) \o <<m.state>> \o Put(m.unixMs, 8)
    [] m.type = MsgPeerList -> EncodePeerList(m)
    [] m.type = MsgKeepalive -> <<>>

\* WriteMessage: the length counts the type and the payload, and is not
\* compared with MaxMessageSize.
Frame(m) == Put(1 + Len(Payload(m)), 4) \o <<m.type>> \o Payload(m)

-----------------------------------------------------------------------------
(* Decoders.  What follows the last field is ignored.                      *)
(*                                                                         *)
(* Those of a MANIFEST, a REQUEST and a PEER_LIST make room for as many    *)
(* entries as the message announces before they see whether they are all   *)
(* there; what is modelled is the outcome, if that room can be had.  An    *)
(* encoded message announces the entries that it has.                      *)

DecodeHandshake(d) ==
  IF Len(d) < IdLen + 1 THEN Garbled
  ELSE [type |-> MsgHandshake, id |-> Slice(d, 0, IdLen),
        version |-> d[IdLen + 1]]

\* The name first, whose length the fields after it depend on.
DecodeManifest(d) ==
  LET o     == 2 + Field(d, 0, 2)
      count == Field(d, o + 16, 4)
      width == 4 + HashLen
      entry(i) == o + 20 + (i - 1) * width
  IN IF Len(d) < 2 \/ Len(d) < o + 20 \/ Len(d) < entry(count + 1) THEN Garbled
     ELSE [type |-> MsgManifest, name |-> Slice(d, 2, o - 2),
           fileSize |-> Field(d, o, 8), chunkSize |-> Field(d, o + 8, 8),
           count |-> count,
           chunks |-> [i \in 1 .. count |->
                         [size |-> Field(d, entry(i), 4),
                          hash |-> Slice(d, entry(i) + 4, HashLen)]]]

\* HAVE and CANCEL.
DecodeIndex(type, d) ==
  IF Len(d) < 4 THEN Garbled ELSE [type |-> type, index |-> Field(d, 0, 4)]

DecodeRequestBatch(d) ==
  LET count == Field(d, 0, 4)
  IN IF Len(d) < 4 \/ Len(d) < 4 + 4 * count THEN Garbled
     ELSE [type |-> MsgRequest,
           indices |-> [i \in 1 .. count |-> Field(d, 4 * i, 4)]]

DecodePiece(d) ==
  IF Len(d) < 4 THEN Garbled
  ELSE [type |-> MsgPiece, index |-> Field(d, 0, 4),
        data |-> Slice(d, 4, Len(d) - 4)]

DecodeSync(d) ==
  IF Len(d) < 17 THEN Garbled
  ELSE [type |-> MsgSync, time |-> Field(d, 0, 8), state |-> d[9],
        unixMs |-> Field(d, 9, 8)]

\* Where address i starts depends on the lengths of those before it.
DecodePeerList(d) ==
  LET count == Field(d, 0, 4)
      size(o) == IF o + 2 > Len(d) THEN 2 ELSE 2 + Field(d, o, 2)
      starts[i \in 1 .. count + 1] ==
        IF i = 1 THEN 4 ELSE starts[i - 1] + size(starts[i - 1])
  IN IF Len(d) < 4 \/ starts[count + 1] > Len(d) THEN Garbled
     ELSE [type |-> MsgPeerList,
           addrs |-> [i \in 1 .. count |->
                        Slice(d, starts[i] + 2, size(starts[i]) - 2)]]

Decode(type, d) ==
  CASE type = MsgHandshake -> DecodeHandshake(d)
    [] type = MsgManifest -> DecodeManifest(d)
    [] type = MsgBitfield -> [type |-> MsgBitfield, bits |-> d]
    [] type \in {MsgHave, MsgCancel} -> DecodeIndex(type, d)
    [] type = MsgRequest -> DecodeRequestBatch(d)
    [] type = MsgPiece -> DecodePiece(d)
    [] type = MsgSync -> DecodeSync(d)
    [] type = MsgPeerList -> DecodePeerList(d)
    [] type = MsgKeepalive -> [type |-> MsgKeepalive]
    [] OTHER -> Garbled

\* ReadMessage: the bytes it takes, or 0 if it waits for more, ...
BodyLength(s) == Field(s, 0, 4)

\* Mutant of Taken: a body is read as far as it has come.
TakenPartial(s) == IF Len(s) < 4 THEN 0
                   ELSE LET n == BodyLength(s)
                        IN IF n \notin 1 .. MaxMessageSize THEN 4
                           ELSE IF Len(s) < 4 + n THEN Len(s) ELSE 4 + n

Taken(s) == IF Len(s) < 4 THEN 0
            ELSE LET n == BodyLength(s)
                 IN IF n \notin 1 .. MaxMessageSize THEN 4
                    ELSE IF Len(s) < 4 + n THEN 0 ELSE 4 + n

\* ... and what it returns once it has them.
ReadMessage(s) == IF Taken(s) = 4 THEN Garbled
                  ELSE Decode(s[5], Slice(s, 5, Taken(s) - 5))
=============================================================================
