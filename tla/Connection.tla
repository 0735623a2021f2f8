----------------------------- MODULE Connection -----------------------------
(***************************************************************************)
(* A connection between the host and a joiner, from dialling to its end    *)
(* (internal/peer/swarm.go and peer.go, over the bytes of Wire).           *)
(*                                                                         *)
(* Both sides first read and write the connection themselves: the joiner's *)
(* ConnectToHost and the host's handleIncoming.  Then each starts a read   *)
(* loop, which handles a message before it reads the next, and a write     *)
(* loop, which takes messages from a bounded channel.  The connection      *)
(* holds SocketRoom bytes either way, and any longer message alone: its    *)
(* writer then waits for its reader.  It may break at any moment, and lose *)
(* any part of what is under way.                                          *)
(***************************************************************************)
EXTENDS Wire

CONSTANTS
  Sides, Host,    \* the two processes, and which is the host
  Id,             \* Id[s]: its peer ID
  Manifest,       \* the host's manifest
  PeerAddrs,      \* the addresses of the host's other peers
  Known,          \* addresses either side is connected to
  Store,          \* Store[s]: the chunks of s, by index
  Bits,           \* Bits[s]: its bitfield
  Rejoins,        \* the joiner has a store already: it reconnects
  Plan,           \* Plan[s]: messages that its broadcasts and requests send
  QueueCap,       \* capacity of outCh (64)
  SocketRoom,
  MayBreak,
  Silent          \* the sides that may stop running

Other(s) == CHOOSE t \in Sides : t # s
Joiner == Other(Host)

ASSUME ConnectionAssumption ==
  /\ Host \in Sides /\ \E s \in Sides : s # Host /\ Sides = {s, Host}
  /\ QueueCap \in Nat \ {0} /\ SocketRoom \in Nat
  /\ MayBreak \in BOOLEAN /\ Rejoins \in BOOLEAN /\ Silent \subseteq Sides

VARIABLES
  at,        \* at[s]: the step of ConnectToHost or handleIncoming, then
             \*   "loops", and "closed" after Close
  sent,      \* messages that handleIncoming has written
  manifest,  \* the joiner's manifest
  bitfield,  \* bitfield[s]: the other's, as s knows it
  dialled,   \* dialled[s]: addresses s was told to connect to
  out,       \* out[s]: outCh
  serving,   \* serving[s]: chunks its read loop was asked for and still has
             \*   to look up
  plan,      \* plan[s]: what it may still send of its own
  stream,    \* stream[s]: the bytes s has written that were not read
  written,   \* history: the messages that s wrote, and those it read
  got,
  conn       \* "up", "lost", or "refused" if one side closed it first

known == <<manifest, bitfield, dialled>>
queues == <<out, serving, plan>>
vars == <<at, sent, known, queues, stream, written, got, conn>>

Handshake(s) == [type |-> MsgHandshake, id |-> Id[s], version |-> 1]
Bitfield(s)  == [type |-> MsgBitfield, bits |-> Bits[s]]
Piece(s, c)  == [type |-> MsgPiece, index |-> c, data |-> Store[s][c]]

NoManifest == [name |-> <<>>, fileSize |-> 0, chunkSize |-> 0, chunks |-> <<>>]

\* Mutant of ManifestToProto: sizes of chunks are cut to 16 bits.
ManifestCut(m) ==
  [type |-> MsgManifest, name |-> m.name, fileSize |-> m.fileSize,
   chunkSize |-> m.chunkSize, count |-> Len(m.chunks),
   chunks |-> [i \in DOMAIN m.chunks |->
                 [m.chunks[i] EXCEPT !.size = Cut(@, 2)]]]

ManifestToProto(m) ==
  [type |-> MsgManifest, name |-> m.name, fileSize |-> m.fileSize,
   chunkSize |-> m.chunkSize, count |-> Cut(Len(m.chunks), 4),
   chunks |-> [i \in DOMAIN m.chunks |->
                 [m.chunks[i] EXCEPT !.size = Cut(@, 4)]]]

ProtoToManifest(m) == [name |-> m.name, fileSize |-> m.fileSize,
                       chunkSize |-> m.chunkSize, chunks |-> m.chunks]

PeerList == [type |-> MsgPeerList, addrs |-> PeerAddrs]

\* Mutants of Greeting: the peer list comes before the bitfield, or not at all.
GreetingReordered ==
  <<Handshake(Host), ManifestToProto(Manifest), PeerList, Bitfield(Host)>>
GreetingShort ==
  <<Handshake(Host), ManifestToProto(Manifest), Bitfield(Host)>>

\* What handleIncoming of a host writes.
Greeting ==
  <<Handshake(Host), ManifestToProto(Manifest), Bitfield(Host), PeerList>>

\* What may be sent, with the bytes it is sent as, and what these are read as:
\* worked out once.
Messages == ToSet(Greeting) \cup {Handshake(Joiner), Bitfield(Joiner)}
              \cup (UNION {Plan[s] : s \in Sides})
              \cup (UNION {{Piece(s, c) : c \in DOMAIN Store[s]} : s \in Sides})
Encoded == [m \in Messages |-> Frame(m)]
Decoded == [f \in {Frame(m) : m \in Messages} |-> ReadMessage(f)]

\* The types of the code, which the constants stand for: numbers and lengths
\* are as wide as their fields, that of a frame included.
ASSUME MessagesAssumption ==
  /\ Manifest \in [name : Text, fileSize : Uint(8), chunkSize : Uint(8),
                   chunks : List([size : Uint(4),
                                  hash : [1 .. HashLen -> Byte]])]
  /\ PeerAddrs \in List(Text)
  /\ \A m \in Messages : m \in Message /\ 1 + Len(Payload(m)) \in Uint(4)

\* Only chunks of the video are requested, as the scheduler does: HasChunk does
\* not check an index, and one beyond the bitfield ends the process.
ASSUME RequestsAssumption ==
  \A m \in {n \in Messages : n.type = MsgRequest} :
    ToSet(m.indices) \subseteq 0 .. Len(Manifest.chunks) - 1

Init == /\ at = [s \in Sides |-> IF s = Host THEN "handshake" ELSE "dial"]
        /\ sent = 0
        /\ manifest = NoManifest
        /\ bitfield = [s \in Sides |-> <<>>]
        /\ dialled = [s \in Sides |-> {}]
        /\ out = [s \in Sides |-> <<>>]
        /\ serving = [s \in Sides |-> <<>>]
        /\ plan = [s \in Sides |-> Plan[s]]
        /\ stream = [s \in Sides |-> <<>>]
        /\ written = [s \in Sides |-> <<>>]
        /\ got = [s \in Sides |-> <<>>]
        /\ conn = "up"

-----------------------------------------------------------------------------
(* The connection. *)

\* WriteMessage: the writer waits for room.
Write(s, m) ==
  /\ conn = "up"
  /\ stream[s] = <<>> \/ Len(stream[s]) + Len(Encoded[m]) <= SocketRoom
  /\ stream' = [stream EXCEPT ![s] = @ \o Encoded[m]]
  /\ written' = [written EXCEPT ![s] = Append(@, m)]
  /\ UNCHANGED <<got, conn>>

CanRead(s)  == Taken(stream[Other(s)]) > 0
Incoming(s) == LET f == SubSeq(stream[Other(s)], 1, Taken(stream[Other(s)]))
               IN IF f \in DOMAIN Decoded THEN Decoded[f] ELSE ReadMessage(f)

\* ReadMessage returns a message.
Read(s) ==
  /\ CanRead(s) /\ Incoming(s) # Garbled
  /\ stream' = [stream EXCEPT ![Other(s)] = SubSeq(@, Taken(@) + 1, Len(@))]
  /\ got' = [got EXCEPT ![s] = Append(@, Incoming(s))]
  /\ UNCHANGED <<written, conn>>

\* The connection is lost, with what was under way one way, from some byte on.
\* (Nothing is written after that, so that the two ways are independent.)
Break ==
  /\ MayBreak /\ conn = "up"
  /\ conn' = "lost"
  /\ \E s \in Sides : \E n \in 0 .. Len(stream[s]) :
       stream' = [stream EXCEPT ![s] = SubSeq(@, 1, n)]
  /\ UNCHANGED <<at, sent, known, queues, written, got>>

\* What a step of the handshake waits for.
Expected(step) == CASE step = "handshake" -> MsgHandshake
                    [] step = "manifest" -> MsgManifest
                    [] step = "peers" -> MsgPeerList
                    [] OTHER -> 0

Waiting(s) == \/ Expected(at[s]) # 0 \/ at[s] = "bitfield"
              \/ at[s] = "loops" /\ serving[s] = <<>>

\* An error: of a read, of a write, or over a message out of place; Close.
HangUp(s) ==
  /\ \/ Waiting(s) /\ IF CanRead(s)
                       THEN \/ Incoming(s) = Garbled
                            \/ /\ Expected(at[s]) # 0
                               /\ Incoming(s).type # Expected(at[s])
                       ELSE conn # "up"
     \/ at[s] \in {"dial", "greet"} /\ conn # "up"
     \/ at[s] = "loops" /\ out[s] # <<>> /\ conn # "up"
  /\ at' = [at EXCEPT ![s] = "closed"]
  /\ out' = [out EXCEPT ![s] = <<>>]
  /\ serving' = [serving EXCEPT ![s] = <<>>]
  /\ plan' = [plan EXCEPT ![s] = {}]
  /\ stream' = [stream EXCEPT ![Other(s)] = <<>>]
  /\ conn' = IF conn = "up" THEN "refused" ELSE conn
  /\ UNCHANGED <<sent, known, written, got>>

-----------------------------------------------------------------------------
(* The handshake. *)

Dial ==
  /\ at[Joiner] = "dial"
  /\ Write(Joiner, Handshake(Joiner))
  /\ at' = [at EXCEPT ![Joiner] = "handshake"]
  /\ UNCHANGED <<sent, known, queues>>

\* Each read of ConnectToHost; anything is taken for the bitfield, though only
\* a BITFIELD is kept.  After the last: Start, the joiner's bitfield, addPeer.
ConnectToHost ==
  LET m == Incoming(Joiner)
      Go(step) == at' = [at EXCEPT ![Joiner] = step]
  IN
  /\ Read(Joiner)
  /\ \/ /\ at[Joiner] = "handshake" /\ m.type = MsgHandshake
        /\ Go("manifest")
        /\ UNCHANGED <<known, out>>
     \/ /\ at[Joiner] = "manifest" /\ m.type = MsgManifest
        /\ manifest' = ProtoToManifest(m)
        /\ Go("bitfield")
        /\ UNCHANGED <<bitfield, dialled, out>>
     \/ /\ at[Joiner] = "bitfield"
        /\ bitfield' = IF m.type # MsgBitfield THEN bitfield
                       ELSE [bitfield EXCEPT ![Joiner] = m.bits]
        /\ Go("peers")
        /\ UNCHANGED <<manifest, dialled, out>>
     \/ /\ at[Joiner] = "peers" /\ m.type = MsgPeerList
        /\ dialled' = [dialled EXCEPT ![Joiner] = ToSet(m.addrs)]
        /\ out' = [out EXCEPT ![Joiner] =
                     IF Rejoins THEN <<Bitfield(Joiner)>> ELSE <<>>]
        /\ Go("loops")
        /\ UNCHANGED <<manifest, bitfield>>
  /\ UNCHANGED <<sent, serving, plan>>

\* handleIncoming: the joiner's handshake, then the greeting, Start and addPeer.
HandleIncoming ==
  /\ \/ /\ at[Host] = "handshake"
        /\ Read(Host) /\ Incoming(Host).type = MsgHandshake
        /\ at' = [at EXCEPT ![Host] = "greet"]
        /\ UNCHANGED sent
     \/ /\ at[Host] = "greet"
        /\ Write(Host, Greeting[sent + 1])
        /\ sent' = sent + 1
        /\ at' = IF sent' = Len(Greeting) THEN [at EXCEPT ![Host] = "loops"]
                                          ELSE at
  /\ UNCHANGED <<known, queues>>

-----------------------------------------------------------------------------
(* The loops. *)

\* Send waits for room in the channel.
Send(s, m) == /\ Len(out[s]) < QueueCap
              /\ out' = [out EXCEPT ![s] = Append(@, m)]

\* Broadcast, or RequestChunks.
Originate(s) ==
  /\ at[s] = "loops"
  /\ \E m \in plan[s] : /\ Send(s, m)
                        /\ plan' = [plan EXCEPT ![s] = @ \ {m}]
  /\ UNCHANGED <<at, sent, known, serving, stream, written, got, conn>>

WriteLoop(s) ==
  /\ at[s] = "loops" /\ out[s] # <<>>
  /\ Write(s, Head(out[s]))
  /\ out' = [out EXCEPT ![s] = Tail(@)]
  /\ UNCHANGED <<at, sent, known, serving, plan>>

\* Bit 0 is the first byte's most significant one; indices beyond the bitfield
\* are ignored.
SetBit(bits, i) ==
  LET k   == i \div ByteBits + 1
      bit == 2 ^ (ByteBits - 1 - (i % ByteBits))
  IN IF k > Len(bits) \/ (bits[k] \div bit) % 2 = 1 THEN bits
     ELSE [bits EXCEPT ![k] = @ + bit]

\* readLoop and handleMessage; a PIECE goes to the scheduler's callback, a
\* SYNC to the player's, and the other messages have no effect.
ReadLoop(s) ==
  LET m == Incoming(s) IN
  /\ at[s] = "loops" /\ serving[s] = <<>>
  /\ Read(s)
  /\ bitfield' = [bitfield EXCEPT ![s] =
                    CASE m.type = MsgBitfield -> m.bits
                      [] m.type = MsgHave -> SetBit(@, m.index)
                      [] OTHER -> @]
  /\ serving' = [serving EXCEPT ![s] =
                   IF m.type = MsgRequest THEN m.indices ELSE @]
  /\ dialled' = [dialled EXCEPT ![s] =
                   IF m.type = MsgPeerList THEN @ \cup (ToSet(m.addrs) \ Known)
                   ELSE @]
  /\ UNCHANGED <<at, sent, manifest, out, plan>>

\* Mutant of Serve: a full channel drops the piece.
ServeDrops(s) ==
  /\ serving[s] # <<>>
  /\ out' = IF Len(out[s]) < QueueCap /\ Head(serving[s]) \in DOMAIN Store[s]
            THEN [out EXCEPT ![s] = Append(@, Piece(s, Head(serving[s])))]
            ELSE out
  /\ serving' = [serving EXCEPT ![s] = Tail(@)]
  /\ UNCHANGED <<at, sent, known, plan, stream, written, got, conn>>

\* The REQUEST handler, one chunk after another; those it lacks are passed over
\* (its bitfield has a bit for them: RequestsAssumption).
Serve(s) ==
  /\ serving[s] # <<>>
  /\ IF Head(serving[s]) \in DOMAIN Store[s]
     THEN Send(s, Piece(s, Head(serving[s])))
     ELSE UNCHANGED out
  /\ serving' = [serving EXCEPT ![s] = Tail(@)]
  /\ UNCHANGED <<at, sent, known, plan, stream, written, got, conn>>

-----------------------------------------------------------------------------
Loops(s) == Originate(s) \/ WriteLoop(s) \/ ReadLoop(s) \/ Serve(s)

Next == \/ Dial \/ ConnectToHost \/ HandleIncoming \/ Break
        \/ \E s \in Sides : HangUp(s) \/ Loops(s)

\* Each goroutine runs, unless its process is silent; nobody has to send
\* anything of his own.
Fairness ==
  /\ Joiner \notin Silent => WF_vars(Dial \/ ConnectToHost)
  /\ Host \notin Silent => WF_vars(HandleIncoming)
  /\ \A s \in Sides \ Silent : /\ WF_vars(HangUp(s)) /\ WF_vars(WriteLoop(s))
                              /\ WF_vars(ReadLoop(s)) /\ SF_vars(Serve(s))

Safe == Init /\ [][Next]_vars
Spec == Safe /\ Fairness

-----------------------------------------------------------------------------
(* Properties. *)

\* Every variable has its type; channels stay within their capacity.
TypeOK ==
  /\ at \in [Sides -> {"dial", "handshake", "manifest", "bitfield", "peers",
                       "greet", "loops", "closed"}]
  /\ sent \in 0 .. Len(Greeting)
  /\ bitfield \in [Sides -> Seq(0 .. Base - 1)]
  /\ stream \in [Sides -> Seq(0 .. Base - 1)]
  /\ \A s \in Sides : Len(out[s]) <= QueueCap /\ plan[s] \subseteq Plan[s]
  /\ conn \in {"up", "lost", "refused"}

\* Wherever the connection breaks, each side has read the first messages that
\* the other wrote, unchanged and in order.
Faithful == \A s \in Sides : IsPrefix(got[s], written[Other(s)])

\* Neither side closes a connection that has not been lost: the synchronous
\* reads meet the messages they expect, and every message can be read.
NeverRefused == conn # "refused"

\* A joiner whose loops have started knows the host's video and its peers.
JoinedRight ==
  at[Joiner] = "loops" => /\ manifest = Manifest
                          /\ ToSet(PeerAddrs) \subseteq dialled[Joiner]
                          /\ bitfield[Joiner] # <<>>

\* ConnectToHost returns.
DialReturns == <>(at[Joiner] \in {"loops", "closed"})

Answered(s, r) ==
  \A c \in ToSet(r.indices) \cap DOMAIN Store[Other(s)] :
    Piece(Other(s), c) \in ToSet(got[s])

\* Every chunk of a REQUEST that the other side has arrives, or the connection
\* ends.
RequestsAnswered ==
  \A s \in Sides : \A r \in {m \in Plan[s] : m.type = MsgRequest} :
    r \in ToSet(written[s]) ~> conn # "up" \/ Answered(s, r)
=============================================================================
