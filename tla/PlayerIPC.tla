----------------------------- MODULE PlayerIPC -----------------------------
(***************************************************************************)
(* Calls to the mpv process over its socket (internal/player/mpv.go).      *)
(* Goroutines call concurrently: a call registers a channel under a fresh  *)
(* request id, writes the request while it holds the mutex mu, and waits   *)
(* for the read loop to fill the channel or for a timer.  Close shuts      *)
(* everything down.                                                        *)
(*                                                                         *)
(* A message is a record of the request's id and of the caller that asked, *)
(* both in the request and in its answer.  The timer may fire at any time. *)
(***************************************************************************)
EXTENDS Integers, FiniteSets

CONSTANTS
  Callers,     \* goroutines that call: the sync loop, the cursor loop...
  MaxCalls,    \* bound of the model: calls made in all
  SocketRoom,  \* requests the socket holds before mpv reads them
  MayHang,     \* mpv may stop reading
  None         \* an empty channel

ASSUME BoundsAssumption == /\ MaxCalls \in Nat \ {0}
                           /\ SocketRoom \in Nat \ {0}
                           /\ MayHang \in BOOLEAN
                           /\ None \notin Callers

VARIABLES
  closed,   \* Player.closed
  open,     \* the connection is open
  reqID,    \* Player.reqID
  pending,  \* the keys of Player.pending
  chan,     \* chan[i]: what the channel made for request i holds
  at,       \* at[c]: where caller c is
  id,       \* id[c]: the request id of its last call
  unsent,   \* history: ids of calls whose write failed
  requests, \* written to the socket, not yet read by mpv
  answers,  \* sent by mpv, not yet handled by the read loop
  mpv,      \* "runs", "hung" or "gone"
  closer,   \* where Close is
  quitSent  \* Close's "quit" was sent

callVars  == <<chan, at, id, unsent>>
wireVars  == <<requests, answers, mpv>>
closeVars == <<closed, open, closer, quitSent>>
vars == <<reqID, pending, callVars, wireVars, closeVars>>

CallIds == 1 .. MaxCalls
Message == [id : CallIds, from : Callers]

Init == /\ closed = FALSE /\ open = TRUE
        /\ reqID = 0
        /\ pending = {}
        /\ chan = [i \in CallIds |-> None]
        /\ at = [c \in Callers |-> "idle"]
        /\ id = [c \in Callers |-> 0]
        /\ unsent = {}
        /\ requests = {} /\ answers = {} /\ mpv = "runs"
        /\ closer = "no" /\ quitSent = FALSE

\* mu is held from one step to another only around the write.
Locked == \E c \in Callers : at[c] = "write"

-----------------------------------------------------------------------------
(* call *)

\* Mutants of FreshId: ids come round again; the counter is read too early.
ReusesId == 1 + (reqID % 2)
LastId == reqID

FreshId == reqID + 1

\* A call on a closed player returns an error and changes nothing.
Register(c) ==
  /\ at[c] = "idle"
  /\ reqID < MaxCalls
  /\ ~Locked /\ ~closed
  /\ reqID' = reqID + 1
  /\ id' = [id EXCEPT ![c] = FreshId]
  /\ chan' = [chan EXCEPT ![FreshId] = None]
  /\ pending' = pending \cup {FreshId}
  /\ at' = [at EXCEPT ![c] = "ready"]
  /\ UNCHANGED <<unsent, wireVars, closeVars>>

BeginWrite(c) == /\ at[c] = "ready"
                 /\ ~Locked
                 /\ at' = [at EXCEPT ![c] = "write"]
                 /\ UNCHANGED <<reqID, pending, chan, id, unsent, wireVars,
                                closeVars>>

EndWrite(c) == /\ at[c] = "write"
               /\ open
               /\ Cardinality(requests) < SocketRoom
               /\ requests' = requests \cup {[id |-> id[c], from |-> c]}
               /\ at' = [at EXCEPT ![c] = "wait"]
               /\ UNCHANGED <<reqID, pending, chan, id, unsent, answers, mpv,
                              closeVars>>

\* The call returns the error and leaves its entry in pending.
WriteFails(c) == /\ at[c] = "write"
                 /\ ~open \/ mpv = "gone"
                 /\ at' = [at EXCEPT ![c] = "idle"]
                 /\ unsent' = unsent \cup {id[c]}
                 /\ UNCHANGED <<reqID, pending, chan, id, wireVars, closeVars>>

Return(c) == /\ at[c] = "wait"
             /\ chan[id[c]] # None
             /\ at' = [at EXCEPT ![c] = "idle"]
             /\ UNCHANGED <<reqID, pending, chan, id, unsent, wireVars,
                            closeVars>>

\* Mutant of TimesOut: the select has no timer.
NeverTimesOut(c) == FALSE /\ UNCHANGED vars

TimesOut(c) == /\ at[c] = "wait"
               /\ at' = [at EXCEPT ![c] = "late"]
               /\ UNCHANGED <<reqID, pending, chan, id, unsent, wireVars,
                              closeVars>>

\* Mutant of GiveUp: the entry stays in pending.
GivesUpOnly(c) == /\ at[c] = "late"
                  /\ ~Locked
                  /\ at' = [at EXCEPT ![c] = "idle"]
                  /\ UNCHANGED <<reqID, pending, chan, id, unsent, wireVars,
                                 closeVars>>

GiveUp(c) == /\ at[c] = "late"
             /\ ~Locked
             /\ pending' = pending \ {id[c]}
             /\ at' = [at EXCEPT ![c] = "idle"]
             /\ UNCHANGED <<reqID, chan, id, unsent, wireVars, closeVars>>

-----------------------------------------------------------------------------
(* mpv, and the read loop. *)

MpvReads(m) == /\ mpv = "runs"
               /\ m \in requests
               /\ requests' = requests \ {m}
               /\ answers' = answers \cup {m}
               /\ UNCHANGED <<reqID, pending, callVars, mpv, closeVars>>

MpvStops == /\ mpv = "runs"
            /\ mpv' \in {"gone"} \cup (IF MayHang THEN {"hung"} ELSE {})
            /\ UNCHANGED <<reqID, pending, callVars, requests, answers,
                           closeVars>>

\* Mutant of Deliver: the entry outlives its answer.
DeliversOnly(m) ==
  /\ m \in answers
  /\ ~Locked
  /\ answers' = answers \ {m}
  /\ chan' = IF m.id \in pending THEN [chan EXCEPT ![m.id] = m.from] ELSE chan
  /\ UNCHANGED <<reqID, pending, at, id, unsent, requests, mpv, closeVars>>

\* An answer nobody waits for any more is dropped.
Deliver(m) ==
  /\ m \in answers
  /\ ~Locked
  /\ answers' = answers \ {m}
  /\ chan' = IF m.id \in pending THEN [chan EXCEPT ![m.id] = m.from] ELSE chan
  /\ pending' = pending \ {m.id}
  /\ UNCHANGED <<reqID, at, id, unsent, requests, mpv, closeVars>>

-----------------------------------------------------------------------------
(* Close *)

SetClosed == /\ ~closed /\ ~Locked
             /\ closed' = TRUE
             /\ closer' = "conn"
             /\ UNCHANGED <<reqID, pending, callVars, wireVars, open, quitSent>>

CloseConn == /\ closer = "conn"
             /\ open' = FALSE
             /\ closer' = "quit"
             /\ UNCHANGED <<reqID, pending, callVars, wireVars, closed,
                            quitSent>>

\* The call of "quit", which is refused when the player is closed.
CallQuit == /\ closer = "quit"
            /\ ~Locked
            /\ quitSent' = ~closed
            /\ closer' = "exit"
            /\ UNCHANGED <<reqID, pending, callVars, wireVars, closed, open>>

\* Mutant of Kill: only a process that was asked to quit is killed.
KillsAsked == /\ closer = "exit" /\ quitSent
              /\ mpv' = "gone"
              /\ closer' = "killed"
              /\ UNCHANGED <<reqID, pending, callVars, requests, answers,
                             closed, open, quitSent>>

Kill == /\ closer = "exit"
        /\ mpv' = "gone"
        /\ closer' = "killed"
        /\ UNCHANGED <<reqID, pending, callVars, requests, answers, closed,
                       open, quitSent>>

SeeExit == /\ closer = "exit"
           /\ mpv = "gone"
           /\ closer' = "exited"
           /\ UNCHANGED <<reqID, pending, callVars, wireVars, closed, open,
                          quitSent>>

-----------------------------------------------------------------------------
Write(c) == EndWrite(c) \/ WriteFails(c)
Await(c) == Return(c) \/ TimesOut(c)
Finish == Kill \/ SeeExit

Next == \/ \E c \in Callers : \/ Register(c) \/ BeginWrite(c) \/ Write(c)
                              \/ Await(c) \/ GiveUp(c)
        \/ \E m \in Message : MpvReads(m) \/ Deliver(m)
        \/ MpvStops
        \/ SetClosed \/ CloseConn \/ CallQuit \/ Finish

\* The mutex is fair, timers fire and mpv reads while it runs.  Nothing makes
\* anybody call, mpv stop, or an answer arrive before the timer.
Fairness == /\ \A c \in Callers : /\ SF_vars(BeginWrite(c)) /\ WF_vars(Write(c))
                                  /\ WF_vars(Await(c)) /\ SF_vars(GiveUp(c))
            /\ WF_vars(\E m \in Message : MpvReads(m))
            /\ WF_vars(CloseConn) /\ SF_vars(CallQuit) /\ WF_vars(Finish)

Safe == Init /\ [][Next]_vars
Spec == Safe /\ Fairness

-----------------------------------------------------------------------------
(* Properties. *)

\* Every variable has its type: no request id is used that was not issued.
TypeOK ==
  /\ closed \in BOOLEAN /\ open \in BOOLEAN /\ quitSent \in BOOLEAN
  /\ reqID \in 0 .. MaxCalls
  /\ pending \subseteq 1 .. reqID /\ unsent \subseteq 1 .. reqID
  /\ chan \in [CallIds -> Callers \cup {None}]
  /\ at \in [Callers -> {"idle", "ready", "write", "wait", "late"}]
  /\ id \in [Callers -> 0 .. reqID]
  /\ requests \subseteq Message /\ answers \subseteq Message
  /\ mpv \in {"runs", "hung", "gone"}
  /\ closer \in {"no", "conn", "quit", "exit", "killed", "exited"}

\* A call gets the answer to its own request, whatever timed out before it and
\* whatever else is being asked.
OwnAnswer ==
  \A c \in Callers :
    at[c] = "wait" /\ chan[id[c]] # None => chan[id[c]] = c

\* The read loop never blocks on a channel while it holds mu: a request in
\* pending has not been answered.
ChannelHasRoom == \A i \in pending : chan[i] = None

\* pending holds the calls under way, and no others but those whose write
\* failed.
PendingOwned ==
  \A i \in pending \ unsent : \E c \in Callers : at[c] # "idle" /\ id[c] = i

\* call "blocks until a response is received or timeout occurs": it returns.
CallsReturn == \A c \in Callers : at[c] # "idle" ~> at[c] = "idle"

\* Close comes to an end, with mpv gone.
CloseReturns == closed ~> closer \in {"killed", "exited"} /\ mpv = "gone"

\* Close tries "to exit cleanly first": mpv is killed only once it was asked
\* to quit.
QuitBeforeKill == closer = "killed" => quitSent
=============================================================================
