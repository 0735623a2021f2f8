-------------------------- MODULE ConnectionProofs --------------------------
(***************************************************************************)
(* Safety of Connection, for any messages, capacities and stores: wherever *)
(* the connection breaks, each side has read what the other wrote, and the *)
(* handshakes of the two sides meet.                                       *)
(*                                                                         *)
(* All that a side has written is the frames of its messages in a row.  The *)
(* bytes under way lie in it from the end of the last message read on, so  *)
(* that what is read next is what was written next (ReadsWritten).  What the *)
(* handshake reads is then known from where it stands in what was written. *)
(***************************************************************************)
EXTENDS Connection, WireProofs, TLAPS

Steps == {"dial", "handshake", "manifest", "bitfield", "peers", "greet",
          "loops", "closed"}

LEMMA TwoSides ==
  /\ Host \in Sides /\ Joiner \in Sides /\ Joiner # Host
  /\ \A s \in Sides : s = Host \/ s = Joiner
  /\ Other(Host) = Joiner /\ Other(Joiner) = Host
  /\ \A s \in Sides : Other(s) \in Sides /\ Other(s) # s /\ Other(Other(s)) = s
<1>1. PICK j \in Sides : j # Host /\ Sides = {j, Host} /\ Host \in Sides
  BY ConnectionAssumption
<1>2. Other(Host) = j /\ Other(j) = Host
  BY <1>1 DEF Other
<1>3. Joiner = j
  BY <1>2 DEF Joiner
<1> QED BY <1>1, <1>2, <1>3

LEMMA MessageTypes ==
  ASSUME NEW m \in Messages
  PROVE  Framed(m) /\ m \in Message /\ Encoded[m] = Frame(m) /\ m # Garbled
<1>1. m \in Message /\ 1 + Len(Payload(m)) \in Uint(4)
  BY MessagesAssumption
<1>2. Encoded[m] = Frame(m)
  BY DEF Encoded
<1>3. m # Garbled
  <2>1. m.type \in 1 .. 10
    BY <1>1, AllInverted
  <2> QED BY <2>1 DEF Garbled
<1> QED BY <1>1, <1>2, <1>3 DEF Framed

LEMMA Sendable ==
  /\ Len(Greeting) = 4 /\ \A i \in 1 .. 4 : Greeting[i] \in Messages
  /\ Handshake(Joiner) \in Messages /\ Bitfield(Joiner) \in Messages
  /\ \A s \in Sides : Plan[s] \subseteq Messages
  /\ \A s \in Sides : \A c \in DOMAIN Store[s] : Piece(s, c) \in Messages
<1>1. Len(Greeting) = 4 /\ DOMAIN Greeting = 1 .. 4
  BY DEF Greeting
<1> DEFINE A == UNION {Plan[s] : s \in Sides}
           B == UNION {{Piece(s, c) : c \in DOMAIN Store[s]} : s \in Sides}
           H == {Handshake(Joiner), Bitfield(Joiner)}
<1>2. /\ ToSet(Greeting) \subseteq Messages /\ A \subseteq Messages
      /\ H \subseteq Messages /\ B \subseteq Messages
  <2>1. ToSet(Greeting) \subseteq Messages
    BY DEF Messages
  <2>2. ASSUME NEW m \in A PROVE m \in Messages
    BY <2>2 DEF Messages
  <2>3. ASSUME NEW m \in H PROVE m \in Messages
    BY <2>3 DEF Messages
  <2>4. ASSUME NEW m \in B PROVE m \in Messages
    BY <2>4 DEF Messages
  <2> QED BY <2>1, <2>2, <2>3, <2>4
<1>3. \A i \in 1 .. 4 : Greeting[i] \in ToSet(Greeting)
  BY <1>1, Zenon DEF ToSet
<1>4. Handshake(Joiner) \in H /\ Bitfield(Joiner) \in H
  BY Zenon
<1>5. \A s \in Sides : Plan[s] \subseteq A
  BY Zenon
<1>6. ASSUME NEW s \in Sides, NEW c \in DOMAIN Store[s]
      PROVE  Piece(s, c) \in B
  <2>1. Piece(s, c) \in {Piece(s, b) : b \in DOMAIN Store[s]}
    OBVIOUS
  <2> QED BY <2>1
<1> HIDE DEF A, B, H
<1> QED BY <1>1, <1>2, <1>3, <1>4, <1>5, <1>6

-----------------------------------------------------------------------------
(* Types. *)

SetTypes ==
  /\ at \in [Sides -> Steps] /\ at[Joiner] # "greet"
  /\ at[Host] \in {"handshake", "greet", "loops", "closed"}
  /\ sent \in 0 .. 4
  /\ at[Host] \in {"handshake", "greet"} => sent < 4
  /\ bitfield \in [Sides -> Seq(Byte)]
  /\ stream \in [Sides -> Seq(Byte)]
  /\ out \in [Sides -> Seq(Messages)]
  /\ serving \in [Sides -> Seq(Uint(4))]
  /\ plan \in [Sides -> SUBSET Messages]
  /\ written \in [Sides -> Seq(Messages)]
  /\ got \in [Sides -> Seq(Messages)]
  /\ conn \in {"up", "lost", "refused"}
  /\ dialled = [s \in Sides |-> dialled[s]]

Limits == \A s \in Sides : Len(out[s]) <= QueueCap /\ plan[s] \subseteq Plan[s]

-----------------------------------------------------------------------------
(* The stream. *)

Matched(s) ==
  /\ Len(got[Other(s)]) <= Len(written[s])
  /\ \A i \in 1 .. Len(got[Other(s)]) : got[Other(s)][i] = written[s][i]

\* The frames that s has written.
Sent(s) == [i \in 1 .. Len(written[s]) |-> Frame(written[s][i])]

\* The bytes under way from s are part of all that it ever wrote, from the end
\* of the last message read on; all of the rest, while the connection is up.
Carried(s) ==
  \E whole \in Seq(Byte) : \E off :
    LET o == off[Len(got[Other(s)]) + 1] IN
    /\ Consists(whole, Sent(s), off)
    /\ Placed(whole, o, stream[s])
    /\ conn = "up" => o + Len(stream[s]) = Len(whole)

StreamInv == SetTypes /\ \A s \in Sides : Matched(s) /\ Carried(s)

LEMMA SentType ==
  ASSUME SetTypes, NEW s \in Sides
  PROVE  /\ Sent(s) \in Seq(Seq(Byte)) /\ Len(Sent(s)) = Len(written[s])
         /\ \A i \in 1 .. Len(written[s]) : /\ Sent(s)[i] = Frame(written[s][i])
                                            /\ written[s][i] \in Messages
<1> DEFINE n == Len(written[s])
<1>1. n \in Nat /\ \A i \in 1 .. n : written[s][i] \in Messages
  <2>1. written[s] \in Seq(Messages)
    BY DEF SetTypes
  <2> QED BY <2>1
<1>2. \A i \in 1 .. n : Frame(written[s][i]) \in Seq(Byte)
  BY <1>1, MessageTypes, Frames
<1>3. Sent(s) = [i \in 1 .. n |-> Frame(written[s][i])]
  BY DEF Sent
<1> HIDE DEF n
<1>4. Sent(s) \in [1 .. n -> Seq(Byte)]
  BY <1>2, <1>3, Zenon
<1>5. \A i \in 1 .. n : Sent(s)[i] = Frame(written[s][i])
  BY <1>3, Zenon
<1>6. Sent(s) \in Seq(Seq(Byte)) /\ Len(Sent(s)) = n
  BY <1>1, <1>4
<1> QED BY <1>1, <1>5, <1>6 DEF n

\* What one side can read is the next message that the other wrote.
LEMMA NextRead ==
  ASSUME StreamInv, NEW s \in Sides, CanRead(s)
  PROVE  LET t == Other(s)
             k == Len(got[s])
             m == written[t][k + 1]
         IN /\ k + 1 \in 1 .. Len(written[t]) /\ m \in Messages
            /\ Fits(m) => /\ Taken(stream[t]) = Len(Frame(m))
                          /\ Len(stream[t]) >= Len(Frame(m))
                          /\ Incoming(s) = m
            /\ ~Fits(m) => Incoming(s) = Garbled
<1> DEFINE t == Other(s)
           k == Len(got[s])
           n == Len(written[t])
           x == stream[t]
           f == SubSeq(x, 1, Taken(x))
<1>1. t \in Sides /\ Other(t) = s
  BY TwoSides
<1>2. /\ x \in Seq(Byte) /\ k \in Nat /\ n \in Nat /\ k <= n
      /\ Carried(t)
  <2>1. stream[t] \in Seq(Byte) /\ got[s] \in Seq(Messages)
        /\ written[t] \in Seq(Messages)
    BY <1>1 DEF StreamInv, SetTypes
  <2> QED BY <1>1, <2>1 DEF StreamInv, Matched
<1>3. PICK whole, off :
        /\ whole \in Seq(Byte)
        /\ Consists(whole, Sent(t), off)
        /\ Placed(whole, off[k + 1], x)
  BY <1>1, <1>2 DEF Carried
<1>4. /\ off \in [1 .. n + 1 -> Nat] /\ off[n + 1] = Len(whole)
      /\ \A i \in 1 .. n : /\ off[i + 1] = off[i] + Len(Frame(written[t][i]))
                           /\ Placed(whole, off[i], Frame(written[t][i]))
                           /\ written[t][i] \in Messages
  BY <1>1, <1>3, SentType DEF Consists, StreamInv
<1>5. Taken(x) > 0
  BY DEF CanRead
<1>6. Incoming(s) = ReadMessage(f)
  BY Zenon DEF Incoming, Decoded
<1> HIDE DEF t, k, n, x
<1>7. Len(x) >= 4 /\ Len(x) \in Nat
  BY <1>2, <1>5 DEF Taken
<1>8. k + 1 \in 1 .. n
  <2>1. k # n
    BY <1>2, <1>3, <1>4, <1>7 DEF Placed
  <2> QED BY <1>2, <2>1
<1> DEFINE m == written[t][k + 1]
<1>9. m \in Messages /\ Framed(m) /\ Placed(whole, off[k + 1], Frame(m))
      /\ off[k + 1] \in Nat
  BY <1>2, <1>4, <1>8, MessageTypes
<1>10. /\ Frame(m) \in Seq(Byte) /\ Len(Frame(m)) \in Nat /\ Len(Frame(m)) >= 5
  <2>1. Frame(m) \in Seq(Byte) /\ Len(Frame(m)) = 5 + Len(Payload(m))
        /\ Len(Payload(m)) \in Nat
    BY <1>9, Frames
  <2> QED BY <2>1
<1> HIDE DEF m
<1>11. Begins(x, m)
  <2> SUFFICES ASSUME NEW i \in 1 .. Len(x), i <= Len(Frame(m))
               PROVE  x[i] = Frame(m)[i]
    BY DEF Begins
  <2>1. whole[off[k + 1] + i] = x[i]
    BY <1>3 DEF Placed
  <2>2. whole[off[k + 1] + i] = Frame(m)[i]
    BY <1>9, <1>10 DEF Placed
  <2> QED BY <2>1, <2>2
<1>12. CASE Fits(m)
  <2>1. Taken(x) = Len(Frame(m)) /\ Len(x) >= Len(Frame(m))
    BY <1>2, <1>5, <1>7, <1>9, <1>10, <1>11, <1>12, TakenWhole
  <2>2. f = Frame(m)
    <3>1. Len(f) = Len(Frame(m)) /\ f \in Seq(Byte)
          /\ \A i \in 1 .. Len(f) : f[i] = x[i]
      BY <1>2, <1>10, <2>1
    <3>2. \A i \in 1 .. Len(f) : f[i] = Frame(m)[i]
      BY <1>2, <1>10, <1>11, <2>1, <3>1 DEF Begins
    <3> HIDE DEF f
    <3> QED BY <1>10, <3>1, <3>2, SeqEqual
  <2>3. Incoming(s) = m
    BY <1>6, <1>9, <1>12, <2>2, ReadsWritten
  <2> QED BY <1>8, <1>9, <1>12, <2>1, <2>3 DEF t, k, n, x, m
<1>13. CASE ~Fits(m)
  <2>1. Taken(x) = 4
    BY <1>2, <1>7, <1>9, <1>11, <1>13, TakenTooLong
  <2>2. f \in Seq(Byte) /\ Len(f) = 4 /\ \A i \in 1 .. 4 : f[i] = x[i]
    BY <1>2, <1>7, <2>1
  <2>3. Begins(f, m)
    BY <1>7, <1>11, <2>2 DEF Begins
  <2> HIDE DEF f
  <2>4. Taken(f) = 4
    <3>1. Taken(f) = IF Len(f) < 4 THEN 0 ELSE 4
      BY <1>9, <1>13, <2>2, <2>3, TakenTooLong, Zenon
    <3> QED BY <2>2, <3>1
  <2>5. Incoming(s) = Garbled
    BY <1>6, <2>4 DEF ReadMessage
  <2> QED BY <1>8, <1>9, <1>13, <2>5 DEF t, k, n, x, m
<1> QED BY <1>12, <1>13

\* A step that leaves what goes one way alone, or loses the end of it.
LEMMA Kept ==
  ASSUME SetTypes, NEW s \in Sides, Matched(s), Carried(s),
         written'[s] = written[s], got'[Other(s)] = got[Other(s)],
         NEW n \in 0 .. Len(stream[s]), stream'[s] = SubSeq(stream[s], 1, n),
         conn' = "up" => conn = "up" /\ n = Len(stream[s])
  PROVE  Matched(s)' /\ Carried(s)'
<1>1. Matched(s)'
  BY DEF Matched
<1>2. stream[s] \in Seq(Byte)
  BY DEF SetTypes
<1>3. Sent(s)' = Sent(s)
  BY DEF Sent
<1> DEFINE k == Len(got[Other(s)])
           x == stream[s]
           y == stream'[s]
<1>4. PICK whole, off :
        /\ whole \in Seq(Byte)
        /\ Consists(whole, Sent(s), off)
        /\ Placed(whole, off[k + 1], x)
        /\ conn = "up" => off[k + 1] + Len(x) = Len(whole)
  BY DEF Carried
<1>5. off[k + 1] \in Nat
  <2>1. k \in Nat /\ Len(Sent(s)) = Len(written[s]) /\ Len(written[s]) \in Nat
        /\ k <= Len(written[s])
    <3>1. got[Other(s)] \in Seq(Messages) /\ written[s] \in Seq(Messages)
      BY TwoSides DEF SetTypes
    <3> QED BY <3>1, SentType DEF Matched
  <2> HIDE DEF k
  <2>2. off \in [1 .. Len(Sent(s)) + 1 -> Nat]
    BY <1>4 DEF Consists
  <2>3. k + 1 \in 1 .. Len(Sent(s)) + 1
    BY <2>1
  <2> QED BY <2>2, <2>3
<1>6. /\ Len(y) = n /\ n \in Nat /\ n <= Len(x) /\ Len(x) \in Nat
      /\ \A i \in 1 .. n : y[i] = x[i]
  BY <1>2
<1> HIDE DEF x, y
<1>7. Placed(whole, off[k + 1], y)
  <2>1. off[k + 1] + Len(x) <= Len(whole) /\ Len(whole) \in Nat
        /\ \A i \in 1 .. Len(x) : whole[off[k + 1] + i] = x[i]
    BY <1>4 DEF Placed
  <2>2. off[k + 1] + Len(y) <= Len(whole)
    BY <1>5, <1>6, <2>1
  <2>3. ASSUME NEW i \in 1 .. Len(y) PROVE whole[off[k + 1] + i] = y[i]
    <3>1. i \in 1 .. Len(x) /\ y[i] = x[i]
      BY <1>6
    <3> QED BY <2>1, <3>1
  <2> QED BY <2>2, <2>3 DEF Placed
<1>8. conn' = "up" => off[k + 1] + Len(y) = Len(whole)
  BY <1>4, <1>6 DEF x
<1>9. Len(got'[Other(s)]) = k
  OBVIOUS
<1> HIDE DEF k
<1>10. Carried(s)'
  BY <1>3, <1>4, <1>7, <1>8, <1>9 DEF Carried, y
<1> QED BY <1>1, <1>10

LEMMA Unmoved ==
  ASSUME SetTypes, NEW s \in Sides, Matched(s), Carried(s),
         written'[s] = written[s], got'[Other(s)] = got[Other(s)],
         stream'[s] = stream[s], conn' = "up" => conn = "up"
  PROVE  Matched(s)' /\ Carried(s)'
<1> DEFINE x == stream[s]
<1>1. x \in Seq(Byte)
  BY DEF SetTypes
<1>2. Len(x) \in 0 .. Len(x) /\ x = SubSeq(x, 1, Len(x))
  <2> HIDE DEF x
  <2> QED BY <1>1
<1> QED BY <1>2, Kept

LEMMA Written ==
  ASSUME StreamInv, NEW s \in Sides, NEW m \in Messages, Write(s, m)
  PROVE  /\ \A r \in Sides : Matched(r)' /\ Carried(r)'
         /\ stream' \in [Sides -> Seq(Byte)]
         /\ written' \in [Sides -> Seq(Messages)]
<1> DEFINE t == Other(s)
           k == Len(got[t])
           n == Len(written[s])
           x == stream[s]
           w == written[s]
           f == Frame(m)
<1>1. /\ x \in Seq(Byte) /\ w \in Seq(Messages) /\ got[t] \in Seq(Messages)
      /\ k \in Nat /\ n \in Nat /\ k <= n /\ Matched(s) /\ Carried(s)
  <2>1. /\ x \in Seq(Byte) /\ w \in Seq(Messages) /\ got[t] \in Seq(Messages)
    BY TwoSides DEF StreamInv, SetTypes
  <2>2. Matched(s) /\ Carried(s)
    BY DEF StreamInv
  <2>3. k <= n
    BY <2>2 DEF Matched
  <2> QED BY <2>1, <2>2, <2>3
<1>2. f \in Seq(Byte) /\ Encoded[m] = f
  BY MessageTypes, Frames
<1>3. /\ conn = "up" /\ conn' = conn /\ got' = got
      /\ stream' = [stream EXCEPT ![s] = x \o f]
      /\ written' = [written EXCEPT ![s] = Append(w, m)]
  BY <1>2 DEF Write
<1>4. stream'[s] = x \o f /\ written'[s] = Append(w, m)
      /\ \A r \in Sides : r # s => /\ stream'[r] = stream[r]
                                   /\ written'[r] = written[r]
  BY <1>3 DEF StreamInv, SetTypes
<1>5. /\ stream' \in [Sides -> Seq(Byte)]
      /\ written' \in [Sides -> Seq(Messages)]
  <2>1. stream \in [Sides -> Seq(Byte)] /\ written \in [Sides -> Seq(Messages)]
    BY DEF StreamInv, SetTypes
  <2>2. x \o f \in Seq(Byte) /\ Append(w, m) \in Seq(Messages)
    BY <1>1, <1>2
  <2> HIDE DEF x, f, w
  <2> QED BY <1>3, <2>1, <2>2
<1>6. ASSUME NEW r \in Sides, r # s PROVE Matched(r)' /\ Carried(r)'
  BY <1>3, <1>4, <1>6, Unmoved DEF StreamInv
<1>7. /\ Len(Append(w, m)) = n + 1 /\ Append(w, m)[n + 1] = m
      /\ \A i \in 1 .. n : Append(w, m)[i] = w[i]
  BY <1>1
<1>8. Matched(s)'
  <2> HIDE DEF w
  <2> QED BY <1>1, <1>3, <1>4, <1>7 DEF Matched, w
<1>9. PICK whole, off :
        /\ whole \in Seq(Byte)
        /\ Consists(whole, Sent(s), off)
        /\ Placed(whole, off[k + 1], x)
        /\ off[k + 1] + Len(x) = Len(whole)
  BY <1>1, <1>3 DEF Carried
<1>10. Sent(s) \in Seq(Seq(Byte)) /\ Len(Sent(s)) = n
       /\ \A i \in 1 .. n : Sent(s)[i] = Frame(w[i])
  BY SentType DEF StreamInv
<1>11. Sent(s)' = [i \in 1 .. n + 1 |-> Frame(Append(w, m)[i])]
  BY <1>4, <1>7 DEF Sent
<1> DEFINE v == Append(w, m)
<1> HIDE DEF t, k, n, x, w, f, v
<1>12. /\ off \in [1 .. n + 1 -> Nat] /\ off[1] = 0 /\ off[n + 1] = Len(whole)
       /\ \A i \in 1 .. n : /\ off[i + 1] = off[i] + Len(Frame(w[i]))
                            /\ Placed(whole, off[i], Frame(w[i]))
                            /\ Frame(w[i]) \in Seq(Byte)
  <2>1. \A i \in 1 .. n : Sent(s)[i] = Frame(w[i]) /\ Sent(s)[i] \in Seq(Byte)
    BY <1>10
  <2> QED BY <1>9, <1>10, <2>1 DEF Consists
<1> DEFINE next == [i \in 1 .. (n + 1) + 1 |->
                     IF i = (n + 1) + 1 THEN Len(whole \o f) ELSE off[i]]
<1>13. whole \o f \in Seq(Byte) /\ Len(whole \o f) = Len(whole) + Len(f)
       /\ Len(f) \in Nat /\ Len(whole) \in Nat
  BY <1>2, <1>9, ConcatProperties DEF f
<1>14. /\ next \in [1 .. (n + 1) + 1 -> Nat] /\ next[1] = 0
       /\ next[(n + 1) + 1] = Len(whole \o f)
       /\ \A i \in 1 .. n + 1 : next[i] = off[i]
  BY <1>1, <1>12, <1>13
<1> HIDE DEF next
<1>15. ASSUME NEW i \in 1 .. n + 1
       PROVE  /\ next[i + 1] = next[i] + Len(Frame(v[i]))
              /\ Placed(whole \o f, next[i], Frame(v[i]))
  <2>1. CASE i = n + 1
    <3>1. v[i] = m /\ next[i] = Len(whole)
          /\ next[i + 1] = Len(whole) + Len(f)
      BY <1>1, <1>7, <1>12, <1>13, <1>14, <2>1 DEF n, w, v
    <3>2. Placed(whole \o f, Len(whole), f)
      BY <1>2, <1>9, PlacedAfter
    <3> QED BY <3>1, <3>2 DEF f
  <2>2. CASE i \in 1 .. n
    <3>1. v[i] = w[i]
      BY <1>7, <2>2 DEF v
    <3>2. i \in 1 .. n + 1 /\ i + 1 \in 1 .. n + 1
      BY <1>1, <2>2
    <3>3. /\ next[i] = off[i] /\ next[i + 1] = off[i + 1] /\ off[i] \in Nat
      BY <1>12, <1>14, <3>2
    <3>4. Placed(whole \o f, off[i], Frame(w[i]))
      BY <1>2, <1>9, <1>12, <2>2, <3>3, PlacedBefore
    <3> QED BY <1>12, <2>2, <3>1, <3>3, <3>4
  <2>3. n \in Nat
    BY <1>1
  <2> QED BY <2>1, <2>2, <2>3
<1>16. Consists(whole \o f, Sent(s)', next)
  <2> DEFINE z == [i \in 1 .. n + 1 |-> Frame(v[i])]
  <2>1. Sent(s)' = z
    BY <1>11 DEF v
  <2>2. n \in Nat
    BY <1>1
  <2>3. Len(z) = n + 1 /\ \A i \in 1 .. n + 1 : z[i] = Frame(v[i])
    BY <2>2
  <2> HIDE DEF z
  <2>4. Consists(whole \o f, z, next)
    BY <1>14, <1>15, <2>3 DEF Consists
  <2> QED BY <2>1, <2>4
<1>17. next[k + 1] = off[k + 1] /\ off[k + 1] \in Nat
  BY <1>1, <1>12, <1>14
<1>18. /\ Placed(whole \o f, off[k + 1], x \o f)
       /\ off[k + 1] + Len(x \o f) = Len(whole \o f)
  <2> DEFINE o == off[k + 1]
             y == x \o f
             u == whole \o f
  <2>1. /\ Len(y) = Len(x) + Len(f) /\ Len(x) \in Nat
        /\ \A i \in 1 .. Len(x) : y[i] = x[i]
        /\ \A i \in 1 .. Len(f) : y[Len(x) + i] = f[i]
    BY <1>1, <1>2
  <2>2. /\ o \in Nat /\ Len(f) \in Nat /\ Len(whole) \in Nat
        /\ o + Len(x) = Len(whole) /\ Len(u) = Len(whole) + Len(f)
    BY <1>9, <1>13, <1>17
  <2>3. Placed(u, o, x) /\ Placed(u, Len(whole), f)
    BY <1>1, <1>2, <1>9, <1>17, PlacedBefore, PlacedAfter
  <2> HIDE DEF o, y, u
  <2>4. o + Len(y) = Len(u) /\ o + Len(y) <= Len(u)
    <3>1. Len(y) = Len(x) + Len(f) /\ Len(x) \in Nat
      BY <2>1
    <3> QED BY <2>2, <3>1, SMTT(30)
  <2>5. ASSUME NEW i \in 1 .. Len(y) PROVE u[o + i] = y[i]
    <3>1. CASE i \in 1 .. Len(x)
      BY <2>1, <2>3, <3>1 DEF Placed
    <3>2. CASE i \notin 1 .. Len(x)
      <4> DEFINE j == i - Len(x)
      <4>1. j \in 1 .. Len(f) /\ i = Len(x) + j /\ o + i = Len(whole) + j
        <5>1. Len(y) = Len(x) + Len(f) /\ Len(x) \in Nat /\ Len(f) \in Nat
          BY <2>1, <2>2
        <5>2. i \in Nat /\ i > Len(x) /\ i <= Len(x) + Len(f)
          BY <3>2, <5>1
        <5> QED BY <2>2, <5>1, <5>2
      <4> HIDE DEF j
      <4>2. u[Len(whole) + j] = f[j] /\ y[i] = f[j]
        BY <2>1, <2>3, <4>1 DEF Placed
      <4> QED BY <4>1, <4>2
    <3> QED BY <3>1, <3>2
  <2>6. Placed(u, o, y)
    BY <2>4, <2>5 DEF Placed
  <2> QED BY <2>4, <2>6 DEF o, y, u
<1>19. Carried(s)'
  <2>1. Len(got'[Other(s)]) = k /\ stream'[s] = x \o f
    BY <1>3, <1>4 DEF k, t, x, f
  <2> QED BY <1>13, <1>16, <1>17, <1>18, <2>1 DEF Carried
<1> QED BY <1>5, <1>6, <1>8, <1>19

LEMMA ReadOne ==
  ASSUME StreamInv, NEW s \in Sides, Read(s)
  PROVE  /\ \A r \in Sides : Matched(r)' /\ Carried(r)'
         /\ stream' \in [Sides -> Seq(Byte)]
         /\ got' \in [Sides -> Seq(Messages)]
         /\ Incoming(s) \in Messages
         /\ Len(got[s]) + 1 \in 1 .. Len(written[Other(s)])
         /\ Incoming(s) = written[Other(s)][Len(got[s]) + 1]
<1> DEFINE t == Other(s)
           k == Len(got[s])
           n == Len(written[t])
           m == written[t][k + 1]
           x == stream[t]
           f == Frame(m)
           l == Len(f)
           y == SubSeq(x, l + 1, Len(x))
           g == got[s]
<1>1. t \in Sides /\ t # s /\ Other(t) = s
  BY TwoSides
<1>2. CanRead(s) /\ Incoming(s) # Garbled
  BY DEF Read
<1>3. /\ k + 1 \in 1 .. n /\ m \in Messages /\ Fits(m)
      /\ Taken(x) = l /\ Len(x) >= l /\ Incoming(s) = m
  BY <1>2, NextRead
<1>4. f \in Seq(Byte) /\ l \in Nat
  BY <1>3, MessageTypes, Frames
<1>5. /\ stream' = [stream EXCEPT ![t] = y]
      /\ got' = [got EXCEPT ![s] = Append(g, m)]
      /\ written' = written /\ conn' = conn
  BY <1>3 DEF Read
<1>6. /\ x \in Seq(Byte) /\ g \in Seq(Messages)
      /\ k \in Nat /\ n \in Nat /\ Matched(t) /\ Carried(t)
  <2>1. x \in Seq(Byte) /\ g \in Seq(Messages) /\ written[t] \in Seq(Messages)
    BY <1>1 DEF StreamInv, SetTypes
  <2>2. Matched(t) /\ Carried(t)
    BY <1>1 DEF StreamInv
  <2> QED BY <2>1, <2>2
<1>7. /\ y \in Seq(Byte) /\ Len(y) = Len(x) - l
      /\ \A i \in 1 .. Len(y) : y[i] = x[l + i]
  <2> HIDE DEF x, l
  <2> QED BY <1>3, <1>4, <1>6
<1>8. /\ stream' \in [Sides -> Seq(Byte)]
      /\ got' \in [Sides -> Seq(Messages)]
  <2>1. stream \in [Sides -> Seq(Byte)] /\ got \in [Sides -> Seq(Messages)]
    BY DEF StreamInv, SetTypes
  <2>2. Append(g, m) \in Seq(Messages)
    BY <1>3, <1>6
  <2> HIDE DEF y, g, m, t
  <2> QED BY <1>5, <1>7, <2>1, <2>2
<1>9. /\ stream'[t] = y /\ got'[s] = Append(g, m)
      /\ \A r \in Sides : /\ r # t => stream'[r] = stream[r]
                          /\ r # s => got'[r] = got[r]
  <2>1. stream \in [Sides -> Seq(Byte)] /\ got \in [Sides -> Seq(Messages)]
    BY DEF StreamInv, SetTypes
  <2> HIDE DEF y, g, m, t
  <2> QED BY <1>1, <1>5, <2>1
<1>10. ASSUME NEW r \in Sides, r # t PROVE Matched(r)' /\ Carried(r)'
  <2>1. Other(r) \in Sides /\ Other(r) # s
    BY <1>1, <1>10, TwoSides
  <2>2. SetTypes /\ Matched(r) /\ Carried(r)
    BY DEF StreamInv
  <2>3. /\ written'[r] = written[r] /\ got'[Other(r)] = got[Other(r)]
        /\ stream'[r] = stream[r] /\ conn' = conn
    BY <1>5, <1>9, <1>10, <2>1
  <2> QED BY <2>2, <2>3, Unmoved
<1>11. /\ Len(Append(g, m)) = k + 1 /\ Append(g, m)[k + 1] = m
       /\ \A i \in 1 .. k : Append(g, m)[i] = g[i]
  <2> HIDE DEF m
  <2> QED BY <1>6
<1>12. Matched(t)'
  <2>1. \A i \in 1 .. k : g[i] = written[t][i]
    BY <1>1, <1>6 DEF Matched
  <2>2. \A i \in 1 .. k + 1 : Append(g, m)[i] = written[t][i]
    <3> HIDE DEF k, g
    <3>1. \A i \in 1 .. k + 1 : i \in 1 .. k \/ i = k + 1
      BY <1>6
    <3> QED BY <1>11, <2>1, <3>1
  <2>3. Len(got'[Other(t)]) = k + 1 /\ k + 1 <= Len(written'[t])
    BY <1>1, <1>3, <1>5, <1>6, <1>9, <1>11
  <2>4. got'[Other(t)] = Append(g, m) /\ written'[t] = written[t]
    BY <1>1, <1>5, <1>9
  <2> HIDE DEF g, k, t, m
  <2> QED BY <2>2, <2>3, <2>4 DEF Matched
<1>13. PICK whole, off :
         /\ whole \in Seq(Byte)
         /\ Consists(whole, Sent(t), off)
         /\ Placed(whole, off[k + 1], x)
         /\ conn = "up" => off[k + 1] + Len(x) = Len(whole)
  BY <1>1, <1>6 DEF Carried
<1>14. Len(Sent(t)) = n /\ Sent(t)[k + 1] = f
  BY <1>1, <1>3, SentType DEF StreamInv
<1> HIDE DEF t, k, n, m, x, f, l, y, g
<1>15. /\ off[k + 1] \in Nat /\ off[(k + 1) + 1] = off[k + 1] + l
  <2>1. off \in [1 .. n + 1 -> Nat]
        /\ \A i \in 1 .. n : off[i + 1] = off[i] + Len(Sent(t)[i])
    BY <1>13, <1>14 DEF Consists
  <2>2. k + 1 \in 1 .. n + 1
    BY <1>3, <1>6
  <2> QED BY <1>3, <1>14, <2>1, <2>2 DEF l
<1>16. /\ Placed(whole, off[(k + 1) + 1], y)
       /\ conn = "up" => off[(k + 1) + 1] + Len(y) = Len(whole)
  <2> DEFINE o == off[k + 1]
  <2>1. /\ o \in Nat /\ off[(k + 1) + 1] = o + l
        /\ o + Len(x) <= Len(whole) /\ Len(x) \in Nat /\ Len(whole) \in Nat
        /\ \A i \in 1 .. Len(x) : whole[o + i] = x[i]
        /\ conn = "up" => o + Len(x) = Len(whole)
    <3>1. Len(x) \in Nat /\ Len(whole) \in Nat
      BY <1>6, <1>13
    <3>2. Placed(whole, o, x) /\ (conn = "up" => o + Len(x) = Len(whole))
      BY <1>13
    <3> QED BY <1>15, <3>1, <3>2 DEF Placed
  <2> HIDE DEF o
  <2>2. ASSUME NEW i \in 1 .. Len(y) PROVE whole[(o + l) + i] = y[i]
    <3>1. l + i \in 1 .. Len(x) /\ o + (l + i) = (o + l) + i
      BY <1>3, <1>4, <1>7, <2>1
    <3>2. whole[o + (l + i)] = x[l + i]
      BY <2>1, <3>1
    <3> QED BY <1>7, <3>1, <3>2
  <2>3. /\ (o + l) + Len(y) <= Len(whole)
        /\ conn = "up" => (o + l) + Len(y) = Len(whole)
    <3>1. Len(y) = Len(x) - l /\ l \in Nat /\ l <= Len(x)
      BY <1>3, <1>4, <1>7, <2>1
    <3>2. (o + l) + Len(y) = o + Len(x)
      BY <2>1, <3>1
    <3> QED BY <2>1, <3>2
  <2>4. Placed(whole, o + l, y)
    BY <2>2, <2>3 DEF Placed
  <2> QED BY <2>1, <2>3, <2>4
<1>17. Carried(t)'
  <2>1. Sent(t)' = Sent(t)
    BY <1>5 DEF Sent
  <2>2. Len(got'[Other(t)]) = k + 1 /\ stream'[t] = y
    BY <1>1, <1>9, <1>11
  <2> QED BY <1>5, <1>13, <1>16, <2>1, <2>2 DEF Carried
<1>18. \A r \in Sides : Matched(r)' /\ Carried(r)'
  BY <1>10, <1>12, <1>17
<1> QED BY <1>3, <1>8, <1>18 DEF k, t, n, m

-----------------------------------------------------------------------------
(* The steps. *)

LEMMA MessageFields ==
  ASSUME NEW m \in Message
  PROVE  /\ m.type = MsgBitfield => m.bits \in Seq(Byte)
         /\ m.type = MsgHave => m.index \in Nat
         /\ m.type = MsgRequest => m.indices \in Seq(Uint(4))
<1>1. CASE m \in [type : {MsgHandshake}, id : [1 .. IdLen -> Byte],
                  version : Byte]
  BY <1>1 DEF MsgHandshake, MsgBitfield, MsgHave, MsgRequest
<1>2. CASE m \in [type : {MsgManifest}, name : Text, fileSize : Uint(8),
                  chunkSize : Uint(8), count : Uint(4),
                  chunks : List([size : Uint(4),
                                 hash : [1 .. HashLen -> Byte]])]
           /\ m.count = Len(m.chunks)
  BY <1>2 DEF MsgManifest, MsgBitfield, MsgHave, MsgRequest
<1>3. CASE m \in [type : {MsgBitfield}, bits : Seq(Byte)]
  BY <1>3 DEF MsgBitfield, MsgHave, MsgRequest
<1>4. CASE m \in [type : {MsgHave, MsgCancel}, index : Uint(4)]
  BY <1>4 DEF MsgHave, MsgCancel, MsgBitfield, MsgRequest, Uint
<1>5. CASE m \in [type : {MsgRequest}, indices : List(Uint(4))]
  BY <1>5 DEF MsgRequest, MsgBitfield, MsgHave, List
<1>6. CASE m \in [type : {MsgPiece}, index : Uint(4), data : Seq(Byte)]
  BY <1>6 DEF MsgPiece, MsgBitfield, MsgHave, MsgRequest
<1>7. CASE m \in [type : {MsgSync}, time : Uint(8), state : Byte,
                  unixMs : Uint(8)]
  BY <1>7 DEF MsgSync, MsgBitfield, MsgHave, MsgRequest
<1>8. CASE m \in [type : {MsgPeerList}, addrs : List(Text)]
  BY <1>8 DEF MsgPeerList, MsgBitfield, MsgHave, MsgRequest
<1>9. CASE m \in [type : {MsgKeepalive}]
  BY <1>9 DEF MsgKeepalive, MsgBitfield, MsgHave, MsgRequest
<1> QED BY <1>1, <1>2, <1>3, <1>4, <1>5, <1>6, <1>7, <1>8, <1>9, Zenon
        DEF Message

LEMMA UnsetBit ==
  ASSUME NEW j \in 0 .. ByteBits - 1, NEW x \in Byte, (x \div 2 ^ j) % 2 # 1
  PROVE  x + 2 ^ j \in Byte
<1>1. /\ x \in 0 .. Base - 1 /\ Byte = 0 .. Base - 1
      /\ \/ ByteBits = 4 /\ Base = 16
         \/ ByteBits = 5 /\ Base = 32
         \/ ByteBits = 6 /\ Base = 64
         \/ ByteBits = 7 /\ Base = 128
         \/ ByteBits = 8 /\ Base = 256
  <2>1. CASE ByteBits = 4 BY <2>1 DEF Base, Byte
  <2>2. CASE ByteBits = 5 BY <2>2 DEF Base, Byte
  <2>3. CASE ByteBits = 6 BY <2>3 DEF Base, Byte
  <2>4. CASE ByteBits = 7 BY <2>4 DEF Base, Byte
  <2>5. CASE ByteBits = 8 BY <2>5 DEF Base, Byte
  <2> QED BY <2>1, <2>2, <2>3, <2>4, <2>5, WireAssumption
<1>2. CASE j = 0
  <2>1. 2 ^ j = 1
    BY <1>2
  <2>2. (x \div 1) % 2 # 1
    BY <2>1
  <2> QED BY <1>1, <1>2, <2>1, <2>2
<1>3. CASE j = 1
  <2>1. 2 ^ j = 2
    BY <1>3
  <2>2. (x \div 2) % 2 # 1
    BY <2>1
  <2> QED BY <1>1, <1>3, <2>1, <2>2
<1>4. CASE j = 2
  <2>1. 2 ^ j = 4
    BY <1>4
  <2>2. (x \div 4) % 2 # 1
    BY <2>1
  <2> QED BY <1>1, <1>4, <2>1, <2>2
<1>5. CASE j = 3
  <2>1. 2 ^ j = 8
    BY <1>5
  <2>2. (x \div 8) % 2 # 1
    BY <2>1
  <2> QED BY <1>1, <1>5, <2>1, <2>2
<1>6. CASE j = 4
  <2>1. 2 ^ j = 16
    BY <1>6
  <2>2. (x \div 16) % 2 # 1
    BY <2>1
  <2> QED BY <1>1, <1>6, <2>1, <2>2
<1>7. CASE j = 5
  <2>1. 2 ^ j = 32
    BY <1>7
  <2>2. (x \div 32) % 2 # 1
    BY <2>1
  <2> QED BY <1>1, <1>7, <2>1, <2>2
<1>8. CASE j = 6
  <2>1. 2 ^ j = 64
    BY <1>8
  <2>2. (x \div 64) % 2 # 1
    BY <2>1
  <2> QED BY <1>1, <1>8, <2>1, <2>2
<1>9. CASE j = 7
  <2>1. 2 ^ j = 128
    BY <1>9
  <2>2. (x \div 128) % 2 # 1
    BY <2>1
  <2> QED BY <1>1, <1>9, <2>1, <2>2
<1> QED BY <1>2, <1>3, <1>4, <1>5, <1>6, <1>7, <1>8, <1>9, WireAssumption

\* A bit that is not set can be added.
LEMMA SetBitType ==
  ASSUME NEW bits \in Seq(Byte), NEW i \in Nat
  PROVE  SetBit(bits, i) \in Seq(Byte) /\ Len(SetBit(bits, i)) = Len(bits)
<1> DEFINE k   == i \div ByteBits + 1
           bit == 2 ^ (ByteBits - 1 - (i % ByteBits))
<1>1. k \in Nat \ {0} /\ i % ByteBits \in 0 .. ByteBits - 1
  BY WireAssumption
<1>2. CASE k > Len(bits) \/ (bits[k] \div bit) % 2 = 1
  BY <1>2 DEF SetBit
<1>3. CASE ~(k > Len(bits) \/ (bits[k] \div bit) % 2 = 1)
  <2>1. bits[k] \in Byte
    BY <1>1, <1>3
  <2>2. bits[k] + bit \in Byte
    <3> DEFINE j == ByteBits - 1 - (i % ByteBits)
    <3>1. j \in 0 .. ByteBits - 1
      BY <1>1, WireAssumption
    <3> HIDE DEF k
    <3> QED BY <1>3, <2>1, <3>1, UnsetBit
  <2>3. SetBit(bits, i) = [bits EXCEPT ![k] = bits[k] + bit]
    BY <1>3 DEF SetBit
  <2> HIDE DEF k, bit
  <2> QED BY <1>1, <1>3, <2>2, <2>3
<1> QED BY <1>2, <1>3

LEMMA ReadTypes ==
  ASSUME StreamInv, NEW s \in Sides, Read(s)
  PROVE  LET m == Incoming(s)
         IN /\ m \in Messages /\ m \in Message
            /\ m.type = MsgBitfield => m.bits \in Seq(Byte)
            /\ m.type = MsgHave => m.index \in Nat
            /\ m.type = MsgRequest => m.indices \in Seq(Uint(4))
<1>1. Incoming(s) \in Messages
  BY ReadOne
<1>2. Incoming(s) \in Message
  BY <1>1, MessageTypes
<1> QED BY <1>1, <1>2, MessageFields

LEMMA StreamInit == Init => StreamInv
<1> SUFFICES ASSUME Init PROVE StreamInv
  OBVIOUS
<1>1. SetTypes
  <2>1. /\ at = [s \in Sides |-> IF s = Host THEN "handshake" ELSE "dial"]
        /\ at \in [Sides -> Steps] /\ at[Joiner] # "greet"
        /\ at[Host] \in {"handshake", "greet", "loops", "closed"}
    BY TwoSides DEF Init, Steps
  <2>2. plan \in [Sides -> SUBSET Messages]
    BY Sendable DEF Init
  <2>3. dialled = [s \in Sides |-> dialled[s]]
    BY DEF Init
  <2> QED BY <2>1, <2>2, <2>3 DEF Init, SetTypes
<1>2. ASSUME NEW s \in Sides PROVE Matched(s) /\ Carried(s)
  <2>1. /\ got[Other(s)] = <<>> /\ written[s] = <<>> /\ stream[s] = <<>>
    BY TwoSides DEF Init
  <2>2. Sent(s) = <<>> /\ <<>> \in Seq(Byte)
    BY <2>1 DEF Sent
  <2>3. Consists(<<>>, <<>>, [i \in 1 .. 1 |-> 0])
    BY DEF Consists
  <2>4. Placed(<<>>, [i \in 1 .. 1 |-> 0][1], <<>>)
    BY DEF Placed
  <2>5. Carried(s)
    <3> DEFINE off == [i \in 1 .. 1 |-> 0]
    <3>1. /\ off[Len(got[Other(s)]) + 1] = 0 /\ Consists(<<>>, Sent(s), off)
          /\ Placed(<<>>, off[Len(got[Other(s)]) + 1], stream[s])
          /\ 0 + Len(stream[s]) = Len(<<>>)
      BY <2>1, <2>2, <2>3, <2>4
    <3> HIDE DEF off
    <3> QED BY <2>2, <3>1 DEF Carried
  <2>6. Matched(s)
    BY <2>1 DEF Matched
  <2> QED BY <2>5, <2>6
<1> QED BY <1>1, <1>2 DEF StreamInv

\* Steps that leave the connection alone.
LEMMA Apart ==
  ASSUME StreamInv, UNCHANGED <<stream, written, got, conn>>
  PROVE  \A r \in Sides : Matched(r)' /\ Carried(r)'
BY Unmoved DEF StreamInv

LEMMA Broken ==
  ASSUME StreamInv, NEW s \in Sides, NEW n \in 0 .. Len(stream[s]),
         stream' = [stream EXCEPT ![s] = SubSeq(@, 1, n)],
         conn' # "up", written' = written, got' = got
  PROVE  /\ \A r \in Sides : Matched(r)' /\ Carried(r)'
         /\ stream' \in [Sides -> Seq(Byte)]
<1>1. stream \in [Sides -> Seq(Byte)] /\ stream[s] \in Seq(Byte)
  BY DEF StreamInv, SetTypes
<1>2. SubSeq(stream[s], 1, n) \in Seq(Byte)
  BY <1>1
<1>3. /\ stream' \in [Sides -> Seq(Byte)]
      /\ stream'[s] = SubSeq(stream[s], 1, n)
      /\ \A r \in Sides : r # s => stream'[r] = stream[r]
  BY <1>1, <1>2
<1>4. ASSUME NEW r \in Sides PROVE Matched(r)' /\ Carried(r)'
  <2>1. SetTypes /\ Matched(r) /\ Carried(r)
    BY DEF StreamInv
  <2>2. CASE r = s
    BY <1>3, <2>1, <2>2, Kept
  <2>3. CASE r # s
    BY <1>3, <2>1, <2>3, Unmoved
  <2> QED BY <2>2, <2>3
<1> QED BY <1>3, <1>4

LEMMA StreamStep == StreamInv /\ [Next]_vars => StreamInv'
<1> SUFFICES ASSUME StreamInv, [Next]_vars PROVE StreamInv'
  OBVIOUS
<1> DEFINE Both == \A r \in Sides : Matched(r)' /\ Carried(r)'
<1>0. SetTypes
  BY DEF StreamInv
<1> USE TwoSides
<1>1. CASE Dial
  <2>1. Write(Joiner, Handshake(Joiner)) /\ Handshake(Joiner) \in Messages
    BY <1>1, Sendable DEF Dial
  <2>2. Both /\ stream' \in [Sides -> Seq(Byte)]
        /\ written' \in [Sides -> Seq(Messages)]
    BY <2>1, Written
  <2>3. SetTypes'
    BY <1>0, <1>1, <2>2 DEF Dial, Write, known, queues, SetTypes, Steps
  <2> QED BY <2>2, <2>3 DEF StreamInv
<1>2. CASE ConnectToHost
  <2>1. Read(Joiner)
    BY <1>2 DEF ConnectToHost
  <2>2. Both /\ stream' \in [Sides -> Seq(Byte)]
        /\ got' \in [Sides -> Seq(Messages)]
    BY <2>1, ReadOne
  <2>3. Incoming(Joiner).type = MsgBitfield =>
          Incoming(Joiner).bits \in Seq(Byte)
    BY <2>1, ReadTypes
  <2>4. /\ sent' = sent /\ serving' = serving /\ plan' = plan
        /\ written' = written /\ conn' = conn
    BY <1>2, <2>1 DEF ConnectToHost, Read
  <2>5. bitfield' \in [Sides -> Seq(Byte)]
    BY <1>0, <1>2, <2>3 DEF ConnectToHost, SetTypes, known
  <2>6. \E step \in Steps : at' = [at EXCEPT ![Joiner] = step] /\ step # "greet"
    BY <1>2, Zenon DEF ConnectToHost, Steps
  <2>7. out' \in [Sides -> Seq(Messages)]
    <3>1. out' = out \/ out' = [out EXCEPT ![Joiner] = <<Bitfield(Joiner)>>]
          \/ out' = [out EXCEPT ![Joiner] = <<>>]
      BY <1>2 DEF ConnectToHost
    <3>2. <<Bitfield(Joiner)>> \in Seq(Messages) /\ <<>> \in Seq(Messages)
      BY Sendable
    <3> QED BY <1>0, <3>1, <3>2 DEF SetTypes
  <2>8. dialled' = [s \in Sides |-> dialled'[s]]
    BY <1>0, <1>2 DEF ConnectToHost, SetTypes, known
  <2>9. /\ at' \in [Sides -> Steps] /\ at'[Joiner] # "greet"
        /\ at'[Host] = at[Host]
    BY <1>0, <2>6 DEF SetTypes
  <2>10. SetTypes'
    BY <1>0, <2>2, <2>4, <2>5, <2>7, <2>8, <2>9 DEF SetTypes
  <2> QED BY <2>2, <2>10 DEF StreamInv
<1>3. CASE HandleIncoming
  <2>1. CASE at[Host] = "handshake"
    <3>1. Read(Host) /\ at' = [at EXCEPT ![Host] = "greet"] /\ sent' = sent
          /\ UNCHANGED <<known, queues>>
      BY <1>3, <2>1 DEF HandleIncoming
    <3>2. Both /\ stream' \in [Sides -> Seq(Byte)]
          /\ got' \in [Sides -> Seq(Messages)]
      BY <3>1, ReadOne
    <3>3. /\ at' \in [Sides -> Steps] /\ at'[Joiner] # "greet"
          /\ at'[Host] = "greet" /\ sent' \in 0 .. 4 /\ sent' < 4
      BY <1>0, <2>1, <3>1 DEF SetTypes, Steps
    <3>4. SetTypes'
      BY <1>0, <3>1, <3>2, <3>3 DEF Read, known, queues, SetTypes
    <3> QED BY <3>2, <3>4 DEF StreamInv
  <2>2. CASE at[Host] # "handshake"
    <3>1. /\ Write(Host, Greeting[sent + 1]) /\ sent' = sent + 1
          /\ at' = IF sent' = Len(Greeting) THEN [at EXCEPT ![Host] = "loops"]
                                            ELSE at
          /\ UNCHANGED <<known, queues>>
      BY <1>3, <2>2 DEF HandleIncoming
    <3>2. sent \in 0 .. 3 /\ Greeting[sent + 1] \in Messages
      <4>1. sent \in 0 .. 3
        BY <1>0, <1>3, <2>2 DEF HandleIncoming, SetTypes
      <4> QED BY <4>1, Sendable
    <3>3. Both /\ stream' \in [Sides -> Seq(Byte)]
          /\ written' \in [Sides -> Seq(Messages)]
      BY <3>1, <3>2, Written
    <3>4. /\ at' \in [Sides -> Steps] /\ at'[Joiner] # "greet"
          /\ at'[Host] \in {"handshake", "greet", "loops", "closed"}
          /\ sent' \in 0 .. 4
          /\ at'[Host] \in {"handshake", "greet"} => sent' < 4
      <4>1. Len(Greeting) = 4
        BY Sendable
      <4>2. CASE sent' = 4
        <5>1. at' = [at EXCEPT ![Host] = "loops"]
          BY <3>1, <4>1, <4>2
        <5> QED BY <1>0, <4>2, <5>1 DEF SetTypes, Steps
      <4>3. CASE sent' # 4
        <5>1. at' = at
          BY <3>1, <4>1, <4>3
        <5>2. sent' \in 0 .. 4 /\ sent' < 4
          BY <3>1, <3>2, <4>3
        <5> QED BY <1>0, <5>1, <5>2 DEF SetTypes
      <4> QED BY <4>2, <4>3
    <3>5. SetTypes'
      BY <1>0, <3>1, <3>3, <3>4 DEF Write, known, queues, SetTypes
    <3> QED BY <3>3, <3>5 DEF StreamInv
  <2> QED BY <2>1, <2>2
<1>4. CASE Break
  <2>0. PICK s \in Sides : \E n \in 0 .. Len(stream[s]) :
          stream' = [stream EXCEPT ![s] = SubSeq(@, 1, n)]
    BY <1>4 DEF Break
  <2>1. PICK n \in 0 .. Len(stream[s]) :
          stream' = [stream EXCEPT ![s] = SubSeq(@, 1, n)]
    BY <2>0
  <2>2. conn' = "lost"
        /\ UNCHANGED <<at, sent, known, queues, written, got>>
    BY <1>4 DEF Break
  <2>3. Both /\ stream' \in [Sides -> Seq(Byte)]
    BY <2>1, <2>2, Broken
  <2>4. SetTypes'
    BY <1>0, <2>2, <2>3 DEF known, queues, SetTypes
  <2> QED BY <2>3, <2>4 DEF StreamInv
<1>5. ASSUME NEW s \in Sides, HangUp(s) PROVE StreamInv'
  <2> DEFINE t == Other(s)
  <2>1. /\ at' = [at EXCEPT ![s] = "closed"]
        /\ out' = [out EXCEPT ![s] = <<>>]
        /\ serving' = [serving EXCEPT ![s] = <<>>]
        /\ plan' = [plan EXCEPT ![s] = {}]
        /\ stream' = [stream EXCEPT ![t] = <<>>]
        /\ conn' \in {"lost", "refused"}
        /\ UNCHANGED <<sent, known, written, got>>
    BY <1>0, <1>5 DEF HangUp, SetTypes
  <2>2. t \in Sides /\ stream[t] \in Seq(Byte)
    BY <1>0 DEF SetTypes
  <2>3. 0 \in 0 .. Len(stream[t]) /\ SubSeq(stream[t], 1, 0) = <<>>
    BY <2>2
  <2>4. stream' = [stream EXCEPT ![t] = SubSeq(@, 1, 0)]
    BY <2>1, <2>3
  <2>5. Both /\ stream' \in [Sides -> Seq(Byte)]
    BY <2>1, <2>2, <2>3, <2>4, Broken
  <2>6. /\ at' \in [Sides -> Steps] /\ at'[Joiner] # "greet"
        /\ at'[Host] \in {at[Host], "closed"} /\ sent' = sent
    BY <1>0, <2>1 DEF SetTypes, Steps
  <2>7. /\ at'[Host] \in {"handshake", "greet", "loops", "closed"}
        /\ at'[Host] \in {"handshake", "greet"} => sent' < 4
    BY <1>0, <2>6 DEF SetTypes
  <2>8. /\ out' \in [Sides -> Seq(Messages)]
        /\ serving' \in [Sides -> Seq(Uint(4))]
        /\ plan' \in [Sides -> SUBSET Messages]
    <3>1. out' \in [Sides -> Seq(Messages)]
      BY <1>0, <2>1 DEF SetTypes
    <3>2. serving' \in [Sides -> Seq(Uint(4))]
      BY <1>0, <2>1 DEF SetTypes
    <3>3. plan' \in [Sides -> SUBSET Messages]
      BY <1>0, <2>1 DEF SetTypes
    <3> QED BY <3>1, <3>2, <3>3
  <2>9. SetTypes'
    BY <1>0, <2>1, <2>5, <2>6, <2>7, <2>8 DEF known, SetTypes
  <2> QED BY <2>5, <2>9 DEF StreamInv
<1>6. ASSUME NEW s \in Sides, Originate(s) PROVE StreamInv'
  <2>1. PICK m \in plan[s] : Send(s, m) /\ plan' = [plan EXCEPT ![s] = @ \ {m}]
    BY <1>6 DEF Originate
  <2>2. UNCHANGED <<at, sent, known, serving, stream, written, got, conn>>
    BY <1>6 DEF Originate
  <2>3. out[s] \in Seq(Messages) /\ m \in Messages
        /\ out' = [out EXCEPT ![s] = Append(out[s], m)]
    BY <1>0, <2>1 DEF Send, SetTypes
  <2>4. out' \in [Sides -> Seq(Messages)]
    BY <1>0, <2>3 DEF SetTypes
  <2>5. plan' \in [Sides -> SUBSET Messages]
    BY <1>0, <2>1 DEF SetTypes
  <2>6. SetTypes'
    BY <1>0, <2>2, <2>4, <2>5 DEF known, SetTypes
  <2> QED BY <2>2, <2>6, Apart DEF StreamInv
<1>7. ASSUME NEW s \in Sides, WriteLoop(s) PROVE StreamInv'
  <2>1. /\ Write(s, Head(out[s])) /\ out[s] # <<>>
        /\ out' = [out EXCEPT ![s] = Tail(out[s])]
        /\ UNCHANGED <<at, sent, known, serving, plan>>
    BY <1>7 DEF WriteLoop
  <2>2. out[s] \in Seq(Messages)
    BY <1>0 DEF SetTypes
  <2>3. Head(out[s]) \in Messages /\ Tail(out[s]) \in Seq(Messages)
    BY <2>1, <2>2
  <2>4. Both /\ stream' \in [Sides -> Seq(Byte)]
        /\ written' \in [Sides -> Seq(Messages)]
    BY <2>1, <2>3, Written
  <2>5. SetTypes'
    BY <1>0, <2>1, <2>3, <2>4 DEF Write, known, SetTypes
  <2> QED BY <2>4, <2>5 DEF StreamInv
<1>8. ASSUME NEW s \in Sides, ReadLoop(s) PROVE StreamInv'
  <2> DEFINE m == Incoming(s)
  <2>1. /\ Read(s)
        /\ bitfield' = [bitfield EXCEPT ![s] =
                          CASE m.type = MsgBitfield -> m.bits
                            [] m.type = MsgHave -> SetBit(@, m.index)
                            [] OTHER -> @]
        /\ serving' = [serving EXCEPT ![s] =
                         IF m.type = MsgRequest THEN m.indices ELSE @]
        /\ dialled' = [dialled EXCEPT ![s] =
                         IF m.type = MsgPeerList
                         THEN @ \cup (ToSet(m.addrs) \ Known) ELSE @]
        /\ UNCHANGED <<at, sent, manifest, out, plan>>
    BY <1>8 DEF ReadLoop
  <2>2. Both /\ stream' \in [Sides -> Seq(Byte)]
        /\ got' \in [Sides -> Seq(Messages)]
        /\ written' = written /\ conn' = conn
    BY <2>1, ReadOne DEF Read
  <2>3. /\ m.type = MsgBitfield => m.bits \in Seq(Byte)
        /\ m.type = MsgHave => m.index \in Nat
        /\ m.type = MsgRequest => m.indices \in Seq(Uint(4))
    BY <2>1, ReadTypes
  <2> HIDE DEF m
  <2>4. bitfield' \in [Sides -> Seq(Byte)]
    <3>1. bitfield \in [Sides -> Seq(Byte)]
      BY <1>0 DEF SetTypes
    <3>2. m.type = MsgHave => SetBit(bitfield[s], m.index) \in Seq(Byte)
      BY <2>3, <3>1, SetBitType
    <3> QED BY <2>1, <2>3, <3>1, <3>2
  <2>5. serving' \in [Sides -> Seq(Uint(4))]
    BY <1>0, <2>1, <2>3 DEF SetTypes
  <2>6. dialled' = [r \in Sides |-> dialled'[r]]
    BY <1>0, <2>1 DEF SetTypes
  <2>7. SetTypes'
    BY <1>0, <2>1, <2>2, <2>4, <2>5, <2>6 DEF SetTypes
  <2> QED BY <2>2, <2>7 DEF StreamInv
<1>9. ASSUME NEW s \in Sides, Serve(s) PROVE StreamInv'
  <2>1. /\ serving[s] # <<>>
        /\ serving' = [serving EXCEPT ![s] = Tail(serving[s])]
        /\ UNCHANGED <<at, sent, known, plan, stream, written, got, conn>>
    BY <1>9 DEF Serve
  <2>2. serving' \in [Sides -> Seq(Uint(4))]
    <3>1. serving[s] \in Seq(Uint(4))
      BY <1>0 DEF SetTypes
    <3>2. Tail(serving[s]) \in Seq(Uint(4))
      BY <2>1, <3>1
    <3> QED BY <1>0, <2>1, <3>2 DEF SetTypes
  <2>3. out' \in [Sides -> Seq(Messages)]
    <3> DEFINE c == Head(serving[s])
    <3>1. CASE c \in DOMAIN Store[s]
      <4>1. out' = [out EXCEPT ![s] = Append(out[s], Piece(s, c))]
            /\ Piece(s, c) \in Messages
        BY <1>9, <3>1, Sendable DEF Serve, Send
      <4>2. out[s] \in Seq(Messages)
        BY <1>0 DEF SetTypes
      <4>3. Append(out[s], Piece(s, c)) \in Seq(Messages)
        BY <4>1, <4>2
      <4> QED BY <1>0, <4>1, <4>3 DEF SetTypes
    <3>2. CASE c \notin DOMAIN Store[s]
      BY <1>0, <1>9, <3>2 DEF Serve, SetTypes
    <3> QED BY <3>1, <3>2
  <2>4. SetTypes'
    BY <1>0, <2>1, <2>2, <2>3 DEF known, SetTypes
  <2> QED BY <2>1, <2>4, Apart DEF StreamInv
<1>10. CASE UNCHANGED vars
  <2>1. SetTypes'
    BY <1>0, <1>10 DEF vars, known, queues, SetTypes
  <2> QED BY <1>10, <2>1, Apart DEF StreamInv, vars
<1> QED BY <1>1, <1>2, <1>3, <1>4, <1>5, <1>6, <1>7, <1>8, <1>9, <1>10
        DEF Next, Loops

LEMMA Streams == Safe => []StreamInv
BY StreamInit, StreamStep, PTL DEF Safe

\* Wherever the connection breaks, each side has read the first messages that
\* the other wrote, unchanged and in order: bytes are read as the messages they
\* were written for, and none is read from part of its bytes.
THEOREM ReadInOrder == Safe => []Faithful
<1>1. StreamInv => Faithful
  <2> SUFFICES ASSUME StreamInv, NEW s \in Sides
               PROVE  IsPrefix(got[s], written[Other(s)])
    BY DEF Faithful
  <2> DEFINE g == got[s]
             w == written[Other(s)]
  <2>1. Other(s) \in Sides /\ Other(Other(s)) = s
    BY TwoSides
  <2>2. g \in Seq(Messages) /\ w \in Seq(Messages)
    BY <2>1 DEF StreamInv, SetTypes
  <2>3. Len(g) <= Len(w) /\ \A i \in 1 .. Len(g) : g[i] = w[i]
    BY <2>1 DEF StreamInv, Matched
  <2> HIDE DEF g, w
  <2> DEFINE a == SubSeq(g, 1, Len(g))
             b == SubSeq(w, 1, Len(g))
  <2>4. /\ a \in Seq(Messages) /\ b \in Seq(Messages)
        /\ Len(a) = Len(g) /\ Len(b) = Len(g)
        /\ \A i \in 1 .. Len(g) : a[i] = g[i] /\ b[i] = w[i]
    BY <2>2, <2>3
  <2> HIDE DEF a, b
  <2>5. a = b
    BY <2>3, <2>4, SeqEqual
  <2> QED BY <2>3, <2>5 DEF IsPrefix, a, b, g, w
<1> QED BY <1>1, Streams, PTL

-----------------------------------------------------------------------------
(* The handshake. *)

\* The joiner's handshake is its first message; the host's greeting its first
\* four, as far as it has come.
SentFirst ==
  /\ at[Joiner] = "dial" => written[Joiner] = <<>>
  /\ at[Joiner] \notin {"dial", "closed"} => written[Joiner] # <<>>
  /\ written[Joiner] # <<>> => written[Joiner][1] = Handshake(Joiner)
  /\ at[Host] = "handshake" => written[Host] = <<>> /\ sent = 0
  /\ at[Host] = "greet" => Len(written[Host]) = sent
  /\ at[Host] = "loops" => Len(written[Host]) >= 4
  /\ \A i \in 1 .. 4 : i <= Len(written[Host]) => written[Host][i] = Greeting[i]

\* Each step has read what the steps before it did.
ReadSoFar ==
  /\ at[Host] = "handshake" => Len(got[Host]) = 0
  /\ at[Joiner] \in {"dial", "handshake"} => Len(got[Joiner]) = 0
  /\ at[Joiner] = "manifest" => Len(got[Joiner]) = 1
  /\ at[Joiner] = "bitfield" => Len(got[Joiner]) = 2
  /\ at[Joiner] = "peers" => Len(got[Joiner]) = 3

Learned ==
  /\ at[Joiner] \in {"bitfield", "peers", "loops"} => manifest = Manifest
  /\ at[Joiner] = "loops" => ToSet(PeerAddrs) \subseteq dialled[Joiner]

HandshakeInv == StreamInv /\ SentFirst /\ ReadSoFar /\ Learned

\* Every BITFIELD has a bit.
NoEmptyBitfield == \A m \in Messages : m.type = MsgBitfield => m.bits # <<>>

\* Every message is within the limit that ReadMessage checks.
AllFit == \A m \in Messages : Fits(m)

BitsKnown == at[Joiner] \in {"peers", "loops"} => bitfield[Joiner] # <<>>

\* The manifest is sent as it is: its numbers fit their fields.
LEMMA SentWhole == ProtoToManifest(ManifestToProto(Manifest)) = Manifest
<1> DEFINE Entry == [size : Uint(4), hash : [1 .. HashLen -> Byte]]
           M == [name : Text, fileSize : Uint(8), chunkSize : Uint(8),
                 chunks : List(Entry)]
           c == Manifest.chunks
           n == Len(c)
           rows == [i \in DOMAIN c |-> [c[i] EXCEPT !.size = Cut(@, 4)]]
<1>1. Manifest \in M
  BY MessagesAssumption
<1> HIDE DEF Entry
<1>2. c \in Seq(Entry) /\ DOMAIN c = 1 .. n
      /\ Manifest = [name |-> Manifest.name, fileSize |-> Manifest.fileSize,
                     chunkSize |-> Manifest.chunkSize, chunks |-> c]
  BY <1>1 DEF List
<1> HIDE DEF c, n
<1>3. ASSUME NEW i \in 1 .. n PROVE [c[i] EXCEPT !.size = Cut(@, 4)] = c[i]
  <2>1. c[i] \in [size : Uint(4), hash : [1 .. HashLen -> Byte]]
    <3>1. c[i] \in Entry
      <4>1. \A S : \A s \in Seq(S) : \A j \in DOMAIN s : s[j] \in S
        OBVIOUS
      <4> QED BY <1>2, <4>1, Zenon
    <3> QED BY <3>1 DEF Entry
  <2>2. c[i].size \in Uint(4)
    BY <2>1
  <2>3. Cut(c[i].size, 4) = c[i].size
    BY <2>2, GetPut DEF Cut
  <2> QED BY <2>1, <2>3
<1>4. rows = c
  <2>1. c = [i \in 1 .. n |-> c[i]]
    <3>1. \A S : \A s \in Seq(S) : s = [i \in DOMAIN s |-> s[i]]
      OBVIOUS
    <3> QED BY <1>2, <3>1, Zenon
  <2>2. rows = [i \in 1 .. n |-> c[i]]
    BY <1>2, <1>3
  <2> QED BY <2>1, <2>2, Zenon
<1>5. ProtoToManifest(ManifestToProto(Manifest))
        = [name |-> Manifest.name, fileSize |-> Manifest.fileSize,
           chunkSize |-> Manifest.chunkSize, chunks |-> rows]
  BY DEF ProtoToManifest, ManifestToProto, c
<1> HIDE DEF rows
<1> QED BY <1>2, <1>4, <1>5

\* What the joiner can read at each step, and the host first; all of them
\* messages, if they fit.
LEMMA NextMeets ==
  ASSUME HandshakeInv, NEW s \in Sides, CanRead(s)
  PROVE  /\ Incoming(s) = Garbled \/ Incoming(s) \in Messages
         /\ Incoming(s) # Garbled =>
              /\ s = Joiner =>
                   /\ at[s] = "handshake" => Incoming(s) = Greeting[1]
                   /\ at[s] = "manifest" => Incoming(s) = Greeting[2]
                   /\ at[s] = "bitfield" => Incoming(s) = Greeting[3]
                   /\ at[s] = "peers" => Incoming(s) = Greeting[4]
              /\ s = Host /\ at[s] = "handshake" =>
                   Incoming(s) = Handshake(Joiner)
         /\ AllFit => Incoming(s) # Garbled
<1> DEFINE k == Len(got[s])
           m == written[Other(s)][k + 1]
<1>1. /\ k + 1 \in 1 .. Len(written[Other(s)]) /\ m \in Messages
      /\ Fits(m) => Incoming(s) = m
      /\ ~Fits(m) => Incoming(s) = Garbled
  BY NextRead DEF HandshakeInv
<1>2. /\ Incoming(s) = Garbled \/ Incoming(s) \in Messages
      /\ AllFit => Incoming(s) # Garbled
  BY <1>1, MessageTypes DEF AllFit
<1>3. ASSUME Incoming(s) # Garbled PROVE Incoming(s) = m
  BY <1>1, <1>3
<1> HIDE DEF k, m
<1>4. ASSUME s = Joiner, NEW i \in 1 .. 4, k + 1 = i PROVE m = Greeting[i]
  <2>1. i \in 1 .. Len(written[Host]) /\ m = written[Host][i]
    BY <1>1, <1>4, TwoSides DEF m
  <2> QED BY <2>1 DEF HandshakeInv, SentFirst
<1>5. /\ s = Joiner /\ at[s] = "handshake" => k + 1 = 1
      /\ s = Joiner /\ at[s] = "manifest" => k + 1 = 2
      /\ s = Joiner /\ at[s] = "bitfield" => k + 1 = 3
      /\ s = Joiner /\ at[s] = "peers" => k + 1 = 4
      /\ s = Host /\ at[s] = "handshake" => k + 1 = 1
  <2>1. /\ s = Joiner /\ at[s] = "handshake" => k = 0
        /\ s = Joiner /\ at[s] = "manifest" => k = 1
        /\ s = Joiner /\ at[s] = "bitfield" => k = 2
        /\ s = Joiner /\ at[s] = "peers" => k = 3
        /\ s = Host /\ at[s] = "handshake" => k = 0
    BY DEF HandshakeInv, ReadSoFar, k
  <2> QED BY <2>1
<1>6. ASSUME s = Host, at[s] = "handshake" PROVE m = Handshake(Joiner)
  <2>1. 1 \in 1 .. Len(written[Joiner]) /\ m = written[Joiner][1]
    BY <1>1, <1>5, <1>6, TwoSides DEF m
  <2>2. written[Joiner] # <<>>
    BY <2>1
  <2> QED BY <2>1, <2>2 DEF HandshakeInv, SentFirst
<1>7. /\ s = Joiner /\ at[s] = "handshake" => m = Greeting[1]
      /\ s = Joiner /\ at[s] = "manifest" => m = Greeting[2]
      /\ s = Joiner /\ at[s] = "bitfield" => m = Greeting[3]
      /\ s = Joiner /\ at[s] = "peers" => m = Greeting[4]
  BY <1>4, <1>5
<1> QED BY <1>2, <1>3, <1>6, <1>7, Zenon

LEMMA HandshakeInit == Init => HandshakeInv /\ BitsKnown
<1> SUFFICES ASSUME Init PROVE HandshakeInv /\ BitsKnown
  OBVIOUS
<1>1. /\ at[Joiner] = "dial" /\ at[Host] = "handshake" /\ sent = 0
      /\ written[Joiner] = <<>> /\ written[Host] = <<>>
      /\ got[Joiner] = <<>> /\ got[Host] = <<>>
  BY TwoSides DEF Init
<1> QED BY <1>1, StreamInit DEF HandshakeInv, SentFirst, ReadSoFar, Learned,
        BitsKnown

\* A step that neither writes nor changes the step of the handshake, except to
\* "closed".
LEMMA Quiet ==
  ASSUME HandshakeInv, written' = written, got' = got, sent' = sent,
         manifest' = manifest, dialled' = dialled,
         \A s \in Sides : at'[s] \in {at[s], "closed"}
  PROVE  SentFirst' /\ ReadSoFar' /\ Learned'
BY TwoSides DEF HandshakeInv, SentFirst, ReadSoFar, Learned

\* One that reads in the loops.
LEMMA Looped ==
  ASSUME HandshakeInv, NEW s \in Sides, at[s] = "loops", Read(s),
         at' = at, sent' = sent, manifest' = manifest,
         \A r \in Sides : dialled[r] \subseteq dialled'[r]
  PROVE  SentFirst' /\ ReadSoFar' /\ Learned'
<1>1. \A r \in Sides : r # s => got'[r] = got[r]
  BY DEF Read, HandshakeInv, StreamInv, SetTypes
<1>2. written' = written
  BY DEF Read
<1> QED BY <1>1, <1>2, TwoSides
        DEF HandshakeInv, SentFirst, ReadSoFar, Learned

\* And one that writes there.
LEMMA WroteMore ==
  ASSUME HandshakeInv, NEW s \in Sides, NEW m \in Messages, at[s] = "loops",
         Write(s, m), at' = at, sent' = sent, manifest' = manifest,
         dialled' = dialled
  PROVE  SentFirst' /\ ReadSoFar' /\ Learned'
<1> DEFINE w == written[s]
<1>1. w \in Seq(Messages)
  BY DEF HandshakeInv, StreamInv, SetTypes
<1>2. /\ Append(w, m) # <<>> /\ Len(Append(w, m)) = Len(w) + 1
      /\ Len(w) \in Nat /\ (w # <<>> => Len(w) >= 1)
      /\ \A i \in 1 .. Len(w) : Append(w, m)[i] = w[i]
  <2> HIDE DEF w
  <2>1. w # <<>> => Len(w) >= 1
    BY <1>1
  <2>2. /\ Len(Append(w, m)) = Len(w) + 1 /\ Len(w) \in Nat
        /\ \A i \in 1 .. Len(w) : Append(w, m)[i] = w[i]
    BY <1>1
  <2> DEFINE v == Append(w, m)
  <2>3. v # <<>>
    <3>1. Len(v) # 0
      BY <2>2
    <3> HIDE DEF v
    <3>2. Len(<<>>) = 0
      OBVIOUS
    <3> QED BY <3>1, <3>2, Zenon
  <2> QED BY <2>1, <2>2, <2>3
<1>3. /\ written'[s] = Append(w, m) /\ got' = got
      /\ \A r \in Sides : r # s => written'[r] = written[r]
  BY DEF Write, HandshakeInv, StreamInv, SetTypes
<1> HIDE DEF w
<1>4. ReadSoFar' /\ Learned'
  BY <1>3 DEF HandshakeInv, ReadSoFar, Learned
<1>5. CASE s = Host
  <2>1. Len(w) >= 4 /\ \A i \in 1 .. 4 : w[i] = Greeting[i]
    BY <1>2, <1>5 DEF w, HandshakeInv, SentFirst
  <2>2. Len(written'[Host]) >= 4
        /\ \A i \in 1 .. 4 : written'[Host][i] = Greeting[i]
    BY <1>2, <1>3, <1>5, <2>1
  <2>3. written'[Joiner] = written[Joiner]
    BY <1>3, <1>5, TwoSides
  <2> QED BY <1>4, <1>5, <2>2, <2>3 DEF HandshakeInv, SentFirst
<1>6. CASE s = Joiner
  <2>1. w # <<>> /\ w[1] = Handshake(Joiner)
    BY <1>6 DEF w, HandshakeInv, SentFirst
  <2>2. written'[Joiner] # <<>> /\ written'[Joiner][1] = Handshake(Joiner)
    BY <1>2, <1>3, <1>6, <2>1
  <2>3. written'[Host] = written[Host]
    BY <1>3, <1>6, TwoSides
  <2> QED BY <1>4, <1>6, <2>2, <2>3 DEF HandshakeInv, SentFirst
<1> QED BY <1>5, <1>6, TwoSides

LEMMA HandshakeStep == HandshakeInv /\ [Next]_vars => HandshakeInv'
<1> SUFFICES ASSUME HandshakeInv, [Next]_vars PROVE HandshakeInv'
  OBVIOUS
<1> DEFINE Goal == SentFirst' /\ ReadSoFar' /\ Learned'
<1>0. /\ StreamInv /\ StreamInv' /\ SetTypes
      /\ SentFirst /\ ReadSoFar /\ Learned
      /\ Joiner \in Sides /\ Host \in Sides /\ Joiner # Host
  BY StreamStep, TwoSides DEF HandshakeInv, StreamInv
<1>1. CASE Dial
  <2>1. /\ at[Joiner] = "dial" /\ at' = [at EXCEPT ![Joiner] = "handshake"]
        /\ written' = [written EXCEPT ![Joiner] = Append(@, Handshake(Joiner))]
        /\ got' = got /\ sent' = sent /\ manifest' = manifest
        /\ dialled' = dialled
    BY <1>1 DEF Dial, Write, known
  <2>2. /\ at'[Joiner] = "handshake" /\ at'[Host] = at[Host]
        /\ written'[Host] = written[Host]
        /\ written'[Joiner] = Append(<<>>, Handshake(Joiner))
    BY <1>0, <2>1 DEF SetTypes, SentFirst
  <2>3. written'[Joiner] # <<>> /\ written'[Joiner][1] = Handshake(Joiner)
    <3>1. \A h : Append(<<>>, h) = <<h>> /\ <<h>> # <<>> /\ <<h>>[1] = h
      OBVIOUS
    <3> QED BY <2>2, <3>1, Zenon
  <2>4. SentFirst'
    BY <1>0, <2>1, <2>2, <2>3 DEF SentFirst
  <2>5. ReadSoFar' /\ Learned'
    BY <1>0, <2>1, <2>2 DEF ReadSoFar, Learned
  <2> QED BY <1>0, <2>4, <2>5 DEF HandshakeInv
<1>2. CASE ConnectToHost
  <2> DEFINE m == Incoming(Joiner)
             k == Len(got[Joiner])
  <2>1. Read(Joiner)
    BY <1>2 DEF ConnectToHost
  <2>2. /\ written' = written /\ sent' = sent /\ at[Host] = at'[Host]
        /\ got'[Host] = got[Host] /\ got'[Joiner] = Append(got[Joiner], m)
        /\ at[Joiner] \notin {"dial", "closed"} /\ at'[Joiner] # "dial"
    BY <1>0, <1>2, <2>1 DEF ConnectToHost, Read, SetTypes
  <2>3. Len(got'[Joiner]) = k + 1 /\ k \in Nat
    <3>1. got[Joiner] \in Seq(Messages)
      BY <1>0 DEF SetTypes
    <3> QED BY <2>2, <3>1
  <2>4. SentFirst'
    BY <1>0, <2>2 DEF SentFirst
  <2> HIDE DEF m, k
  <2>5. CASE at[Joiner] = "handshake"
    <3>1. at'[Joiner] = "manifest"
      BY <1>0, <1>2, <2>5 DEF ConnectToHost, SetTypes
    <3>2. k = 0
      BY <1>0, <2>5 DEF ReadSoFar, k
    <3> QED BY <1>0, <2>2, <2>3, <2>4, <3>1, <3>2
            DEF HandshakeInv, ReadSoFar, Learned
  <2>6. CASE at[Joiner] = "manifest"
    <3>1. at'[Joiner] = "bitfield" /\ manifest' = ProtoToManifest(m)
      BY <1>0, <1>2, <2>6 DEF ConnectToHost, SetTypes, m
    <3>2. k = 1
      BY <1>0, <2>6 DEF ReadSoFar, k
    <3>3. m = ManifestToProto(Manifest)
      BY <2>1, <2>6, TwoSides, NextMeets DEF Greeting, Read, m
    <3>4. manifest' = Manifest
      BY <3>1, <3>3, SentWhole
    <3> QED BY <1>0, <2>2, <2>3, <2>4, <3>1, <3>2, <3>4
            DEF HandshakeInv, ReadSoFar, Learned
  <2>7. CASE at[Joiner] = "bitfield"
    <3>1. at'[Joiner] = "peers" /\ manifest' = manifest
      BY <1>0, <1>2, <2>7 DEF ConnectToHost, SetTypes
    <3>2. k = 2
      BY <1>0, <2>7 DEF ReadSoFar, k
    <3> QED BY <1>0, <2>2, <2>3, <2>4, <2>7, <3>1, <3>2
            DEF HandshakeInv, ReadSoFar, Learned
  <2>8. CASE at[Joiner] = "peers"
    <3>1. at'[Joiner] = "loops" /\ manifest' = manifest
          /\ dialled' = [dialled EXCEPT ![Joiner] = ToSet(m.addrs)]
      BY <1>0, <1>2, <2>8 DEF ConnectToHost, SetTypes, m
    <3>2. m.addrs = PeerAddrs
      BY <2>1, <2>8, TwoSides, NextMeets DEF Greeting, PeerList, Read, m
    <3>3. dialled'[Joiner] = ToSet(PeerAddrs)
      BY <1>0, <3>1, <3>2 DEF SetTypes
    <3> QED BY <1>0, <2>2, <2>3, <2>4, <2>8, <3>1, <3>3
            DEF HandshakeInv, ReadSoFar, Learned
  <2> QED BY <1>2, <2>5, <2>6, <2>7, <2>8, Zenon DEF ConnectToHost
<1>3. CASE HandleIncoming
  <2>1. manifest' = manifest /\ dialled' = dialled
    BY <1>3 DEF HandleIncoming, known
  <2>2. CASE at[Host] = "handshake"
    <3>1. /\ Read(Host) /\ at' = [at EXCEPT ![Host] = "greet"] /\ sent' = sent
      BY <1>3, <2>2 DEF HandleIncoming
    <3>2. /\ at'[Host] = "greet" /\ at'[Joiner] = at[Joiner]
          /\ got'[Joiner] = got[Joiner] /\ written' = written
      BY <1>0, <3>1 DEF Read, SetTypes
    <3>3. Len(written[Host]) = sent
      BY <1>0, <2>2 DEF SentFirst
    <3> QED BY <1>0, <2>1, <2>2, <3>1, <3>2, <3>3
            DEF HandshakeInv, SentFirst, ReadSoFar, Learned
  <2>3. CASE at[Host] = "greet"
    <3> DEFINE w == written[Host]
               g == Greeting[sent + 1]
    <3>1. /\ Write(Host, g) /\ sent' = sent + 1
          /\ at' = IF sent' = Len(Greeting) THEN [at EXCEPT ![Host] = "loops"]
                                            ELSE at
      BY <1>3, <2>3 DEF HandleIncoming
    <3>2. /\ at'[Joiner] = at[Joiner] /\ got' = got
          /\ written'[Joiner] = written[Joiner] /\ written'[Host] = Append(w, g)
      BY <1>0, <3>1 DEF Write, SetTypes
    <3>3. at'[Host] = IF sent' = 4 THEN "loops" ELSE "greet"
      BY <1>0, <2>3, <3>1, Sendable DEF SetTypes
    <3>4. w \in Seq(Messages) /\ Len(w) = sent /\ sent \in 0 .. 3
          /\ \A i \in 1 .. sent : w[i] = Greeting[i]
      <4>1. w \in Seq(Messages) /\ sent \in 0 .. 4 /\ sent < 4
        BY <1>0, <2>3 DEF SetTypes
      <4>2. Len(w) = sent /\ \A i \in 1 .. 4 : i <= Len(w) => w[i] = Greeting[i]
        BY <1>0, <2>3 DEF SentFirst
      <4> HIDE DEF w
      <4> QED BY <4>1, <4>2
    <3>5. Len(Append(w, g)) = sent + 1
          /\ \A i \in 1 .. sent + 1 : Append(w, g)[i] = Greeting[i]
      <4>1. \A i \in 1 .. sent : Append(w, g)[i] = Greeting[i]
        BY <3>4
      <4>2. Len(Append(w, g)) = sent + 1 /\ Append(w, g)[sent + 1] = g
        BY <3>4
      <4>3. \A i \in 1 .. sent + 1 : i \in 1 .. sent \/ i = sent + 1
        BY <3>4
      <4> QED BY <4>1, <4>2, <4>3
    <3> DEFINE v == written'[Host]
    <3>6. Len(v) = sent' /\ sent' \in 1 .. 4
          /\ \A i \in 1 .. sent' : v[i] = Greeting[i]
      BY <3>1, <3>2, <3>4, <3>5
    <3> HIDE DEF v, w, g
    <3>7. /\ at'[Host] = "greet" => Len(v) = sent'
          /\ at'[Host] = "loops" => Len(v) >= 4
          /\ at'[Host] # "handshake"
          /\ \A i \in 1 .. 4 : i <= Len(v) => v[i] = Greeting[i]
      BY <3>3, <3>6
    <3>8. SentFirst'
      BY <1>0, <3>2, <3>7 DEF SentFirst, v
    <3>9. ReadSoFar' /\ Learned'
      BY <1>0, <2>1, <3>2, <3>7 DEF ReadSoFar, Learned
    <3> QED BY <1>0, <3>8, <3>9 DEF HandshakeInv
  <2> QED BY <1>3, <2>2, <2>3 DEF HandleIncoming
<1>4. CASE Break
  BY <1>0, <1>4, Quiet DEF Break, known, HandshakeInv
<1>5. ASSUME NEW s \in Sides, HangUp(s) PROVE HandshakeInv'
  <2>1. /\ UNCHANGED <<sent, known, written, got>>
        /\ \A r \in Sides : at'[r] \in {at[r], "closed"}
    BY <1>0, <1>5 DEF HangUp, SetTypes
  <2> QED BY <1>0, <2>1, Quiet DEF known, HandshakeInv
<1>6. ASSUME NEW s \in Sides, Originate(s) \/ Serve(s) PROVE HandshakeInv'
  <2>1. UNCHANGED <<at, sent, known, written, got>>
    BY <1>6 DEF Originate, Serve
  <2> QED BY <1>0, <2>1, Quiet DEF known, HandshakeInv
<1>7. ASSUME NEW s \in Sides, WriteLoop(s) PROVE HandshakeInv'
  <2>1. /\ at[s] = "loops" /\ out[s] # <<>> /\ Write(s, Head(out[s]))
        /\ UNCHANGED <<at, sent, known>>
    BY <1>7 DEF WriteLoop
  <2>2. Head(out[s]) \in Messages
    <3>1. out[s] \in Seq(Messages)
      BY <1>0 DEF SetTypes
    <3> QED BY <2>1, <3>1
  <2> QED BY <1>0, <2>1, <2>2, WroteMore DEF known, HandshakeInv
<1>8. ASSUME NEW s \in Sides, ReadLoop(s) PROVE HandshakeInv'
  <2>1. /\ at[s] = "loops" /\ Read(s) /\ UNCHANGED <<at, sent, manifest>>
    BY <1>8 DEF ReadLoop
  <2>2. \A r \in Sides : dialled[r] \subseteq dialled'[r]
    BY <1>0, <1>8 DEF ReadLoop, SetTypes
  <2> QED BY <1>0, <2>1, <2>2, Looped DEF HandshakeInv
<1>9. CASE UNCHANGED vars
  BY <1>0, <1>9, Quiet DEF vars, known, HandshakeInv
<1> QED BY <1>1, <1>2, <1>3, <1>4, <1>5, <1>6, <1>7, <1>8, <1>9
        DEF Next, Loops

LEMMA HandshakesMeet == Safe => []HandshakeInv
BY HandshakeInit, HandshakeStep, PTL DEF Safe

\* Neither side closes a connection that has not been lost: what each step of
\* the handshake reads is of the type that it expects.
THEOREM NothingRefused == ASSUME AllFit PROVE Safe => []NeverRefused
<1> DEFINE Inv == HandshakeInv /\ NeverRefused
<1>1. Init => NeverRefused
  BY DEF Init, NeverRefused
<1>2. ASSUME HandshakeInv, NeverRefused, [Next]_vars PROVE NeverRefused'
  <2>1. ASSUME NEW s \in Sides, HangUp(s) PROVE conn' # "refused"
    <3>1. CASE conn # "up"
      BY <1>2, <2>1, <3>1 DEF HangUp, NeverRefused
    <3>2. CASE conn = "up"
      <4> DEFINE m == Incoming(s)
      <4>1. /\ CanRead(s) /\ \/ m = Garbled
                              \/ /\ Expected(at[s]) # 0
                                 /\ m.type # Expected(at[s])
        BY <2>1, <3>2 DEF HangUp
      <4>2. m # Garbled
        BY <1>2, <4>1, NextMeets
      <4>3. Expected(at[s]) # 0 /\ m.type # Expected(at[s])
        BY <4>1, <4>2
      <4>4. at[s] \in {"handshake", "manifest", "peers"}
        BY <4>3 DEF Expected
      <4>5. CASE s = Host
        <5>1. at[s] = "handshake"
          BY <1>2, <4>4, <4>5 DEF HandshakeInv, StreamInv, SetTypes
        <5>2. m = Handshake(Joiner)
          BY <1>2, <4>1, <4>2, <4>5, <5>1, NextMeets
        <5> QED BY <4>3, <5>1, <5>2 DEF Expected, Handshake
      <4>6. CASE s = Joiner
        <5>1. /\ at[s] = "handshake" => m = Greeting[1]
              /\ at[s] = "manifest" => m = Greeting[2]
              /\ at[s] = "peers" => m = Greeting[4]
          BY <1>2, <4>1, <4>2, <4>6, NextMeets
        <5>2. /\ Greeting[1].type = MsgHandshake
              /\ Greeting[2].type = MsgManifest
              /\ Greeting[4].type = MsgPeerList
          BY DEF Greeting, Handshake, ManifestToProto, PeerList
        <5> HIDE DEF m
        <5> QED BY <4>3, <4>4, <5>1, <5>2 DEF Expected
      <4> QED BY <4>5, <4>6, TwoSides
    <3> QED BY <3>1, <3>2
  <2>2. ASSUME Dial \/ ConnectToHost \/ HandleIncoming PROVE conn' = conn
    BY <2>2 DEF Dial, ConnectToHost, HandleIncoming, Read, Write
  <2>3. CASE Break
    BY <2>3 DEF Break, NeverRefused
  <2>4. ASSUME NEW s \in Sides, Loops(s) PROVE conn' = conn
    BY <2>4 DEF Loops, Originate, WriteLoop, ReadLoop, Serve, Read, Write
  <2>5. CASE UNCHANGED vars
    BY <1>2, <2>5 DEF vars, NeverRefused
  <2> QED BY <1>2, <2>1, <2>2, <2>3, <2>4, <2>5 DEF Next, NeverRefused
<1> QED BY <1>1, <1>2, HandshakesMeet, PTL DEF Safe

-----------------------------------------------------------------------------
(* What the joiner knows, and types. *)

\* Of the bitfield that the joiner knows, only a BITFIELD changes the length.
LEMMA BitsStep ==
  ASSUME NoEmptyBitfield, HandshakeInv, BitsKnown, [Next]_vars
  PROVE  BitsKnown'
<1>0. /\ SetTypes /\ Joiner \in Sides /\ Host # Joiner
      /\ bitfield[Joiner] \in Seq(Byte)
  BY TwoSides DEF HandshakeInv, StreamInv, SetTypes
<1> DEFINE j == bitfield[Joiner]
<1>1. ASSUME bitfield'[Joiner] = j, at'[Joiner] \in {at[Joiner], "closed"}
      PROVE  BitsKnown'
  BY <1>1 DEF BitsKnown
<1>2. CASE Dial
  <2>1. at' = [at EXCEPT ![Joiner] = "handshake"]
    BY <1>2 DEF Dial
  <2> QED BY <1>0, <2>1 DEF SetTypes, BitsKnown
<1>3. CASE ConnectToHost
  <2> DEFINE m == Incoming(Joiner)
  <2>1. Read(Joiner) /\ CanRead(Joiner) /\ m # Garbled
    BY <1>3 DEF ConnectToHost, Read
  <2>2. CASE at[Joiner] = "bitfield"
    <3>1. m = Greeting[3] /\ m \in Messages
      BY <1>0, <2>1, <2>2, NextMeets
    <3>2. m.type = MsgBitfield
      BY <3>1 DEF Greeting, Bitfield
    <3>3. m.bits # <<>>
      BY <3>1, <3>2 DEF NoEmptyBitfield
    <3>4. bitfield' = [bitfield EXCEPT ![Joiner] = m.bits]
      BY <1>3, <2>2, <3>2 DEF ConnectToHost
    <3> HIDE DEF m
    <3> QED BY <1>0, <3>3, <3>4 DEF SetTypes, BitsKnown
  <2>3. CASE at[Joiner] = "peers"
    <3>1. bitfield' = bitfield
      BY <1>3, <2>3 DEF ConnectToHost
    <3> QED BY <2>3, <3>1 DEF BitsKnown
  <2>4. CASE at[Joiner] \notin {"bitfield", "peers"}
    <3>1. at' = [at EXCEPT ![Joiner] = "manifest"]
          \/ at' = [at EXCEPT ![Joiner] = "bitfield"]
      BY <1>3, <2>4 DEF ConnectToHost
    <3> QED BY <1>0, <3>1 DEF SetTypes, BitsKnown
  <2> QED BY <2>2, <2>3, <2>4
<1>4. CASE HandleIncoming
  <2>1. bitfield' = bitfield /\ at'[Joiner] = at[Joiner]
    BY <1>0, <1>4 DEF HandleIncoming, known, SetTypes
  <2> QED BY <1>1, <2>1
<1>5. CASE Break
  BY <1>1, <1>5 DEF Break, known
<1>6. ASSUME NEW s \in Sides, HangUp(s) PROVE BitsKnown'
  <2>1. bitfield' = bitfield /\ at'[Joiner] \in {at[Joiner], "closed"}
    BY <1>0, <1>6 DEF HangUp, known, SetTypes
  <2> QED BY <1>1, <2>1
<1>7. ASSUME NEW s \in Sides, Originate(s) \/ WriteLoop(s) \/ Serve(s)
      PROVE  BitsKnown'
  BY <1>1, <1>7 DEF Originate, WriteLoop, Serve, known
<1>8. ASSUME NEW s \in Sides, ReadLoop(s) PROVE BitsKnown'
  <2> DEFINE m == Incoming(s)
  <2>1. /\ at' = at /\ at[s] = "loops" /\ Read(s) /\ CanRead(s) /\ m # Garbled
        /\ bitfield' = [bitfield EXCEPT ![s] =
                          CASE m.type = MsgBitfield -> m.bits
                            [] m.type = MsgHave -> SetBit(@, m.index)
                            [] OTHER -> @]
    BY <1>8 DEF ReadLoop, Read
  <2>2. CASE s # Joiner
    BY <1>0, <1>1, <2>1, <2>2 DEF SetTypes
  <2>3. CASE s = Joiner
    <3>1. j # <<>>
      BY <2>1, <2>3 DEF BitsKnown
    <3>2. m.type = MsgBitfield => m.bits # <<>>
      BY <2>1, NextMeets DEF NoEmptyBitfield
    <3>3. m.type = MsgHave => SetBit(j, m.index) # <<>>
      <4> SUFFICES ASSUME m.type = MsgHave PROVE SetBit(j, m.index) # <<>>
        OBVIOUS
      <4> DEFINE b == SetBit(j, m.index)
      <4>1. Len(b) = Len(j)
        BY <1>0, <2>1, ReadTypes, SetBitType DEF HandshakeInv
      <4>2. Len(j) # 0
        BY <1>0, <3>1
      <4> HIDE DEF b, j
      <4>3. Len(<<>>) = 0
        OBVIOUS
      <4> QED BY <4>1, <4>2, <4>3, Zenon DEF b
    <3> HIDE DEF m
    <3>4. bitfield'[Joiner] = CASE m.type = MsgBitfield -> m.bits
                                [] m.type = MsgHave -> SetBit(j, m.index)
                                [] OTHER -> j
      BY <1>0, <2>1, <2>3 DEF SetTypes
    <3>5. bitfield'[Joiner] # <<>>
      BY <3>1, <3>2, <3>3, <3>4 DEF MsgBitfield, MsgHave
    <3> QED BY <3>5 DEF BitsKnown
  <2> QED BY <2>2, <2>3
<1>9. CASE UNCHANGED vars
  BY <1>1, <1>9 DEF vars, known
<1> QED BY <1>2, <1>3, <1>4, <1>5, <1>6, <1>7, <1>8, <1>9 DEF Next, Loops

\* A joiner whose loops have started knows the host's video and its peers: it
\* reads them in the handshake, whatever else is under way.
THEOREM KnowsVideo == ASSUME NoEmptyBitfield PROVE Safe => []JoinedRight
<1>1. HandshakeInv /\ BitsKnown => JoinedRight
  BY DEF HandshakeInv, Learned, BitsKnown, JoinedRight
<1>2. HandshakeInv /\ BitsKnown /\ [Next]_vars => BitsKnown'
  BY BitsStep
<1> QED BY <1>1, <1>2, HandshakeInit, HandshakesMeet, PTL DEF Safe

LEMMA LimitsStep == SetTypes /\ Limits /\ [Next]_vars => Limits'
<1> SUFFICES ASSUME SetTypes, Limits, [Next]_vars, NEW r \in Sides
             PROVE  Len(out'[r]) <= QueueCap /\ plan'[r] \subseteq Plan[r]
  BY DEF Limits
<1> USE TwoSides DEF Limits
<1>0. /\ QueueCap \in Nat \ {0} /\ out[r] \in Seq(Messages)
      /\ out \in [Sides -> Seq(Messages)] /\ plan \in [Sides -> SUBSET Messages]
  BY ConnectionAssumption DEF SetTypes
<1>1. ASSUME plan' = plan, out' = out
      PROVE  Len(out'[r]) <= QueueCap /\ plan'[r] \subseteq Plan[r]
  BY <1>1
<1>2. ASSUME NEW s \in Sides, NEW m, Send(s, m) PROVE Len(out'[r]) <= QueueCap
  <2>1. /\ Len(out[s]) < QueueCap
        /\ out' = [out EXCEPT ![s] = Append(out[s], m)]
    BY <1>2 DEF Send
  <2>2. CASE r = s
    <3>1. Len(Append(out[r], m)) = Len(out[r]) + 1 /\ Len(out[r]) \in Nat
      BY <1>0
    <3> QED BY <1>0, <2>1, <2>2, <3>1
  <2>3. CASE r # s
    BY <1>0, <2>1, <2>3
  <2> QED BY <2>2, <2>3
<1>3. CASE Dial
  BY <1>1, <1>3 DEF Dial, queues
<1>4. CASE ConnectToHost
  <2>1. plan' = plan
    BY <1>4 DEF ConnectToHost
  <2>2. \/ out' = out
        \/ out' = [out EXCEPT ![Joiner] = <<Bitfield(Joiner)>>]
        \/ out' = [out EXCEPT ![Joiner] = <<>>]
    BY <1>4 DEF ConnectToHost
  <2>3. Len(<<Bitfield(Joiner)>>) = 1 /\ Len(<<>>) = 0
    OBVIOUS
  <2>4. out'[r] \in {out[r], <<Bitfield(Joiner)>>, <<>>}
    BY <1>0, <2>2
  <2>5. Len(out'[r]) \in {Len(out[r]), 1, 0}
    BY <2>3, <2>4
  <2>6. Len(out'[r]) <= QueueCap
    <3>1. Len(out[r]) <= QueueCap /\ 1 <= QueueCap /\ 0 <= QueueCap
      BY <1>0
    <3> QED BY <2>5, <3>1, Zenon
  <2> QED BY <2>1, <2>6
<1>5. CASE HandleIncoming
  BY <1>1, <1>5 DEF HandleIncoming, queues
<1>6. CASE Break
  BY <1>1, <1>6 DEF Break, queues
<1>7. ASSUME NEW s \in Sides, HangUp(s)
      PROVE  Len(out'[r]) <= QueueCap /\ plan'[r] \subseteq Plan[r]
  <2>1. /\ out' = [out EXCEPT ![s] = <<>>] /\ plan' = [plan EXCEPT ![s] = {}]
    BY <1>7 DEF HangUp
  <2>2. out'[r] \in {out[r], <<>>} /\ plan'[r] \in {plan[r], {}}
    BY <1>0, <2>1
  <2> QED BY <1>0, <2>2
<1>8. ASSUME NEW s \in Sides, Originate(s)
      PROVE  Len(out'[r]) <= QueueCap /\ plan'[r] \subseteq Plan[r]
  <2>1. PICK m \in plan[s] : Send(s, m) /\ plan' = [plan EXCEPT ![s] = @ \ {m}]
    BY <1>8 DEF Originate
  <2>2. plan'[r] \subseteq plan[r]
    BY <1>0, <2>1
  <2> QED BY <1>2, <2>1, <2>2
<1>9. ASSUME NEW s \in Sides, WriteLoop(s)
      PROVE  Len(out'[r]) <= QueueCap /\ plan'[r] \subseteq Plan[r]
  <2>1. /\ out[s] # <<>> /\ plan' = plan
        /\ out' = [out EXCEPT ![s] = Tail(out[s])]
    BY <1>9 DEF WriteLoop
  <2>2. CASE r = s
    <3>1. out'[r] = Tail(out[r])
      BY <1>0, <2>1, <2>2
    <3>2. Len(Tail(out[r])) <= Len(out[r])
      BY <1>0, <2>1, <2>2
    <3>3. Len(Tail(out[r])) \in Nat /\ Len(out[r]) \in Nat
      BY <1>0, <2>1, <2>2
    <3> QED BY <1>0, <2>1, <3>1, <3>2, <3>3
  <2>3. CASE r # s
    BY <1>0, <2>1, <2>3
  <2> QED BY <2>2, <2>3
<1>10. ASSUME NEW s \in Sides, ReadLoop(s)
       PROVE  Len(out'[r]) <= QueueCap /\ plan'[r] \subseteq Plan[r]
  BY <1>1, <1>10 DEF ReadLoop
<1>11. ASSUME NEW s \in Sides, Serve(s)
       PROVE  Len(out'[r]) <= QueueCap /\ plan'[r] \subseteq Plan[r]
  <2>1. plan' = plan
    BY <1>11 DEF Serve
  <2>2. out' = out \/ Send(s, Piece(s, Head(serving[s])))
    BY <1>11 DEF Serve
  <2> QED BY <1>1, <1>2, <2>1, <2>2
<1>12. CASE UNCHANGED vars
  BY <1>1, <1>12 DEF vars, queues
<1> QED BY <1>3, <1>4, <1>5, <1>6, <1>7, <1>8, <1>9, <1>10, <1>11, <1>12
        DEF Next, Loops

\* Every variable has its type, and channels stay within their capacity.
THEOREM Typing == Safe => []TypeOK
<1>1. Init => Limits
  BY ConnectionAssumption DEF Init, Limits
<1>2. StreamInv /\ Limits => TypeOK
  BY Sendable DEF StreamInv, SetTypes, Limits, TypeOK, Steps, Byte
<1>3. StreamInv /\ Limits /\ [Next]_vars => Limits'
  BY LimitsStep DEF StreamInv
<1> QED BY <1>1, <1>2, <1>3, Streams, PTL DEF Safe
=============================================================================
