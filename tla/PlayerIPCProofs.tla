-------------------------- MODULE PlayerIPCProofs --------------------------
(***************************************************************************)
(* Safety of PlayerIPC, for any callers and any number of calls: request   *)
(* ids, the answers that come for them and the table of those awaited.     *)
(***************************************************************************)
EXTENDS PlayerIPC, TLAPS

\* A caller that is not idle has an id, and what is written carries ids that
\* were issued.
IdsInv ==
  /\ \A c \in Callers : at[c] # "idle" => id[c] > 0
  /\ \A m \in requests \cup answers : m.id <= reqID

TypeInv == TypeOK /\ IdsInv

LEMMA TypeStep == TypeInv /\ [Next]_vars => TypeInv'
<1> SUFFICES ASSUME TypeInv, [Next]_vars PROVE TypeInv'
  OBVIOUS
<1> USE BoundsAssumption
    DEF TypeInv, TypeOK, IdsInv, CallIds, Message, callVars, wireVars, closeVars
<1>1. ASSUME NEW c \in Callers, Register(c) PROVE TypeInv'
  <2>1. /\ reqID' = reqID + 1 /\ reqID + 1 \in 1 .. MaxCalls
        /\ id' = [id EXCEPT ![c] = reqID + 1]
        /\ chan' = [chan EXCEPT ![reqID + 1] = None]
        /\ pending' = pending \cup {reqID + 1}
        /\ at' = [at EXCEPT ![c] = "ready"]
        /\ UNCHANGED <<unsent, wireVars, closeVars>>
    BY <1>1 DEF Register, FreshId
  <2>2. id' \in [Callers -> 0 .. reqID']
    BY <2>1
  <2>3. pending' \subseteq 1 .. reqID' /\ unsent' \subseteq 1 .. reqID'
    BY <2>1
  <2>4. IdsInv'
    BY <2>1
  <2> QED BY <2>1, <2>2, <2>3, <2>4
<1>2. ASSUME NEW c \in Callers, BeginWrite(c) \/ Return(c) \/ TimesOut(c)
      PROVE  TypeInv'
  BY <1>2 DEF BeginWrite, Return, TimesOut
<1>3. ASSUME NEW c \in Callers, EndWrite(c) PROVE TypeInv'
  <2>1. id[c] \in CallIds /\ id[c] <= reqID
    BY <1>3 DEF EndWrite
  <2> QED BY <1>3, <2>1 DEF EndWrite
<1>4. ASSUME NEW c \in Callers, WriteFails(c) PROVE TypeInv'
  <2>1. id[c] \in 1 .. reqID
    BY <1>4 DEF WriteFails
  <2> QED BY <1>4, <2>1 DEF WriteFails
<1>5. ASSUME NEW c \in Callers, GiveUp(c) PROVE TypeInv'
  BY <1>5 DEF GiveUp
<1>6. ASSUME NEW m \in Message, MpvReads(m) PROVE TypeInv'
  BY <1>6 DEF MpvReads
<1>7. ASSUME NEW m \in Message, Deliver(m) PROVE TypeInv'
  BY <1>7 DEF Deliver
<1>8. CASE MpvStops
  BY <1>8 DEF MpvStops
<1>9. CASE SetClosed \/ CloseConn \/ CallQuit \/ Finish
  BY <1>9 DEF SetClosed, CloseConn, CallQuit, Finish, Kill, SeeExit
<1>10. CASE UNCHANGED vars
  BY <1>10 DEF vars
<1> QED
  BY <1>1, <1>2, <1>3, <1>4, <1>5, <1>6, <1>7, <1>8, <1>9, <1>10
     DEF Next, Write, Await

LEMMA Types == Safe => []TypeInv
<1>1. Init => TypeInv
  <2> SUFFICES ASSUME Init PROVE TypeInv
    OBVIOUS
  <2> USE BoundsAssumption DEF Init, CallIds, Message
  <2>1. /\ reqID \in 0 .. MaxCalls
        /\ id \in [Callers -> 0 .. reqID]
        /\ chan \in [CallIds -> Callers \cup {None}]
    OBVIOUS
  <2>2. IdsInv
    BY DEF IdsInv
  <2> QED BY <2>1, <2>2 DEF TypeInv, TypeOK
<1> QED BY <1>1, TypeStep, PTL DEF Safe

\* Every variable keeps its type; what counters and channels hold are ids that
\* were issued and callers that made calls.
THEOREM Typing == Safe => []TypeOK
<1>1. TypeInv => TypeOK
  BY DEF TypeInv
<1> QED BY <1>1, Types, PTL

-----------------------------------------------------------------------------
(* The table of calls that await an answer. *)

TableInv == ChannelHasRoom /\ PendingOwned

LEMMA TableStep == TypeInv /\ TableInv /\ [Next]_vars => TableInv'
<1> SUFFICES ASSUME TypeInv, TableInv, [Next]_vars PROVE TableInv'
  OBVIOUS
<1> USE BoundsAssumption
    DEF TypeInv, TypeOK, IdsInv, TableInv, ChannelHasRoom, PendingOwned,
        CallIds, Message, callVars, wireVars, closeVars
<1>1. ASSUME UNCHANGED <<pending, callVars>> PROVE TableInv'
  BY <1>1
<1>2. ASSUME NEW c \in Callers, Register(c) PROVE TableInv'
  <2>1. /\ reqID + 1 \in 1 .. MaxCalls
        /\ id' = [id EXCEPT ![c] = reqID + 1]
        /\ chan' = [chan EXCEPT ![reqID + 1] = None]
        /\ pending' = pending \cup {reqID + 1}
        /\ at' = [at EXCEPT ![c] = "ready"] /\ at[c] = "idle"
        /\ UNCHANGED unsent
    BY <1>2 DEF Register, FreshId
  <2>2. ChannelHasRoom'
    BY <2>1
  <2>3. ASSUME NEW i \in pending' \ unsent'
        PROVE  \E d \in Callers : at'[d] # "idle" /\ id'[d] = i
    <3>1. CASE i = reqID + 1
      BY <2>1, <3>1
    <3>2. CASE i \in pending
      <4>1. PICK d \in Callers : at[d] # "idle" /\ id[d] = i
        BY <2>1, <2>3, <3>2
      <4> QED BY <2>1, <4>1
    <3> QED BY <2>1, <2>3, <3>1, <3>2
  <2> QED BY <2>2, <2>3
<1>3. ASSUME NEW c \in Callers, BeginWrite(c) \/ EndWrite(c) \/ TimesOut(c)
      PROVE  TableInv'
  BY <1>3 DEF BeginWrite, EndWrite, TimesOut
<1>4. ASSUME NEW c \in Callers, WriteFails(c) PROVE TableInv'
  BY <1>4 DEF WriteFails
<1>5. ASSUME NEW c \in Callers, Return(c) PROVE TableInv'
  <2>1. id[c] \notin pending
    BY <1>5 DEF Return
  <2> QED BY <1>5, <2>1 DEF Return
<1>6. ASSUME NEW c \in Callers, GiveUp(c) PROVE TableInv'
  BY <1>6 DEF GiveUp
<1>7. ASSUME NEW m \in Message, Deliver(m) PROVE TableInv'
  BY <1>7 DEF Deliver
<1>8. ASSUME NEW m \in Message, MpvReads(m) PROVE TableInv'
  BY <1>1, <1>8 DEF MpvReads
<1>9. CASE \/ MpvStops \/ SetClosed \/ CloseConn \/ CallQuit \/ Finish
           \/ UNCHANGED vars
  BY <1>1, <1>9
     DEF MpvStops, SetClosed, CloseConn, CallQuit, Finish, Kill, SeeExit, vars
<1> QED
  BY <1>2, <1>3, <1>4, <1>5, <1>6, <1>7, <1>8, <1>9 DEF Next, Write, Await

\* The read loop finds room in the channel of every call that is pending, so
\* that it never blocks with the mutex held.
THEOREM NeverBlocks == Safe => []ChannelHasRoom
<1>1. Init => TableInv
  BY DEF Init, TableInv, ChannelHasRoom, PendingOwned
<1>2. TableInv => ChannelHasRoom
  BY DEF TableInv
<1> QED BY <1>1, <1>2, TableStep, Types, PTL DEF Safe

\* No entry of a call that returned stays, unless its write failed.
THEOREM EntriesOwned == Safe => []PendingOwned
<1>1. Init => TableInv
  BY DEF Init, TableInv, ChannelHasRoom, PendingOwned
<1>2. TableInv => PendingOwned
  BY DEF TableInv
<1> QED BY <1>1, <1>2, TableStep, Types, PTL DEF Safe

-----------------------------------------------------------------------------
(* Whose answer it is. *)

\* The last call of c has id i.
Holds(c, i) == id[c] = i /\ i > 0

\* Ids are not shared; a message, and what a channel holds, belong to the
\* caller that still has their id, if one has.
OwnerInv ==
  \A c \in Callers :
    /\ \A d \in Callers : id[c] = id[d] /\ id[c] > 0 => c = d
    /\ \A m \in requests \cup answers : Holds(c, m.id) => m.from = c
    /\ \A i \in CallIds : Holds(c, i) /\ chan[i] # None => chan[i] = c

LEMMA OwnerStep == TypeInv /\ OwnerInv /\ [Next]_vars => OwnerInv'
<1> SUFFICES ASSUME TypeInv, OwnerInv, [Next]_vars PROVE OwnerInv'
  OBVIOUS
<1> USE BoundsAssumption
    DEF TypeInv, TypeOK, IdsInv, OwnerInv, Holds, CallIds, Message, callVars,
        wireVars, closeVars
<1>1. ASSUME UNCHANGED <<id, chan>>,
             requests' \cup answers' \subseteq requests \cup answers
      PROVE  OwnerInv'
  BY <1>1
<1>2. ASSUME NEW c \in Callers, Register(c) PROVE OwnerInv'
  <2>1. /\ reqID + 1 \in 1 .. MaxCalls
        /\ id' = [id EXCEPT ![c] = reqID + 1]
        /\ chan' = [chan EXCEPT ![reqID + 1] = None]
        /\ UNCHANGED <<requests, answers>>
    BY <1>2 DEF Register, FreshId
  <2>2. \A d \in Callers \ {c} : id'[d] = id[d] /\ id[d] <= reqID
    BY <2>1
  <2>3. \A m \in requests \cup answers : m.id # reqID + 1
    OBVIOUS
  <2> QED BY <2>1, <2>2, <2>3
<1>3. ASSUME NEW c \in Callers, EndWrite(c) PROVE OwnerInv'
  BY <1>3 DEF EndWrite
<1>4. ASSUME NEW m \in Message, Deliver(m) PROVE OwnerInv'
  <2>1. m \in answers /\ answers' \subseteq answers
        /\ UNCHANGED <<id, requests>>
    BY <1>4 DEF Deliver
  <2>2. chan' = chan \/ chan' = [chan EXCEPT ![m.id] = m.from]
    BY <1>4 DEF Deliver
  <2>3. \A c \in Callers : Holds(c, m.id) => m.from = c
    BY <2>1
  <2> QED BY <2>1, <2>2, <2>3
<1>5. ASSUME NEW m \in Message, MpvReads(m) PROVE OwnerInv'
  BY <1>1, <1>5 DEF MpvReads
<1>6. ASSUME NEW c \in Callers,
             BeginWrite(c) \/ WriteFails(c) \/ Await(c) \/ GiveUp(c)
      PROVE  OwnerInv'
  BY <1>1, <1>6 DEF BeginWrite, WriteFails, Await, Return, TimesOut, GiveUp
<1>7. CASE \/ MpvStops \/ SetClosed \/ CloseConn \/ CallQuit \/ Finish
           \/ UNCHANGED vars
  BY <1>1, <1>7
     DEF MpvStops, SetClosed, CloseConn, CallQuit, Finish, Kill, SeeExit, vars
<1> QED BY <1>2, <1>3, <1>4, <1>5, <1>6, <1>7 DEF Next, Write

\* A call gets the answer to its own request, however late the answers to the
\* calls that timed out before it.
THEOREM AnswersOwn == Safe => []OwnAnswer
<1>1. Init => OwnerInv
  BY DEF Init, OwnerInv, Holds
<1>2. TypeInv /\ OwnerInv => OwnAnswer
  <2> SUFFICES ASSUME TypeInv, OwnerInv, NEW c \in Callers, at[c] = "wait",
                      chan[id[c]] # None
               PROVE  chan[id[c]] = c
    BY DEF OwnAnswer
  <2>1. id[c] \in CallIds /\ Holds(c, id[c])
    BY BoundsAssumption DEF TypeInv, TypeOK, IdsInv, CallIds, Holds
  <2> QED BY <2>1 DEF OwnerInv
<1> QED BY <1>1, <1>2, OwnerStep, Types, PTL DEF Safe
=============================================================================
