---------------------------- MODULE PlaybackSync ----------------------------
(***************************************************************************)
(* How a joiner's player follows the host's (internal/sync/sync.go): the   *)
(* host's loop reads its player and broadcasts SYNC messages, and the      *)
(* joiner's read loop handles each with a series of calls to mpv.          *)
(*                                                                         *)
(* Only differences of positions matter to the code, so that every         *)
(* position here is relative to where the host's player is now: when the   *)
(* host's moves on, all the others fall back.  The unit is a tenth of a    *)
(* second.  Time passes a period of the host's ticker at once; it passes   *)
(* between the calls, unless one of them is slow.                          *)
(*                                                                         *)
(* The host's user pauses and resumes MaxSwitches times at most; whatever  *)
(* else users and mpv do to disturb it is done MaxDisturbances times in    *)
(* all.  The ends of the video are far.                                    *)
(***************************************************************************)
EXTENDS Integers, Sequences

CONSTANTS
  Disturbances,     \* what may happen, of those that Disturb names
  MaxDisturbances,  \* bounds of the model
  MaxSwitches,
  Jump,             \* how far a user seeks
  MaxDelay,         \* bound of the model: a SYNC is handled before that age
  Skew,             \* the joiner's clock minus the host's
  Far               \* bound of the model: farther apart than that, the
                    \*   players stop drifting

Second == 10
Period == 2 * Second
Tolerance == Second \div 2
HardSeekAbove == 2 * Second
MaxLatency == 5 * Second

ASSUME SyncAssumption == /\ MaxDisturbances \in Nat /\ MaxSwitches \in Nat
                         /\ MaxDelay \in Nat
                         /\ Jump \in Int /\ Skew \in Int
                         /\ Far \in Nat /\ Far > HardSeekAbove + MaxLatency

VARIABLES
  hostPaused,     \* the host's player
  due, hostAt,    \* its loop: the ticker fired; "wait", "read" or "gone"
  told,           \*   the position it has read
  said,           \*   history: whether its last SYNC was PAUSED
  wire,           \* SYNC messages under way: [pos, paused, age]
  paused, pos,    \* the joiner's player: paused, position and speed, the
  speed,          \*   latter as what it gains in a period
  at, msg,        \* the joiner's read loop: its step and the message it
  goal, rate,     \*   handles; the arguments of the calls to come
  disturbances,   \* how much has happened
  switches,
  misled          \* history: something that no PAUSED makes good

hostVars   == <<hostPaused, due, hostAt, told, said>>
playerVars == <<paused, pos, speed>>
handleVars == <<at, msg, goal, rate>>
userVars   == <<disturbances, switches, misled>>
vars == <<hostVars, wire, playerVars, handleVars, userVars>>

Nothing == [pos |-> 0, paused |-> FALSE, age |-> 0]

Init == /\ hostPaused = FALSE
        /\ due = FALSE /\ hostAt = "wait" /\ told = 0 /\ said = FALSE
        /\ wire = <<>>
        /\ paused = FALSE /\ pos = 0 /\ speed = 0
        /\ at = "idle" /\ msg = Nothing /\ goal = 0 /\ rate = 0
        /\ disturbances = 0 /\ switches = 0 /\ misled = FALSE

\* A joiner that is paused is not corrected until the host has told it to
\* play: what keeps it from where the host is, or from being told.
Misleading == {"lateSeek", "lateState", "joinerPause", "joinerSeek", "getFails",
               "setFails"}

Disturb(d) == /\ d \in Disturbances
              /\ disturbances < MaxDisturbances
              /\ disturbances' = disturbances + 1
              /\ misled' = (misled \/ d \in Misleading)
              /\ UNCHANGED switches

Abs(x) == IF x < 0 THEN -x ELSE x

-----------------------------------------------------------------------------
(* Time and users. *)

\* The host's position grows by d, and the time by t.
Shift(m, d, t) == [m EXCEPT !.pos = @ - d, !.age = @ + t]

HostMoves(d, t) ==
  /\ wire' = [i \in DOMAIN wire |-> Shift(wire[i], d, t)]
  /\ msg' = IF at = "idle" THEN Nothing ELSE Shift(msg, d, t)
  /\ goal' = IF at \in {"correct", "seek"} THEN goal - d ELSE 0
  /\ told' = IF hostAt = "read" THEN told - d ELSE 0

\* Each tick is served before the next, and each message in time, unless a
\* call to mpv is slow; two seconds is all it may take.
Advance ==
  LET moved == IF hostPaused THEN 0 ELSE Period IN
  /\ hostAt # "gone"
  /\ \A i \in DOMAIN wire : wire[i].age < MaxDelay
  /\ \/ hostAt = "wait" /\ at = "idle" /\ ~due /\ UNCHANGED userVars
     \/ hostAt = "wait" /\ at # "idle" /\ Disturb("slow")
     \/ hostAt = "read" /\ Disturb("lateState")
  /\ HostMoves(moved, Period)
  /\ LET gain == (IF paused THEN 0 ELSE Period + speed) - moved
     IN pos' = IF Abs(pos) > Far THEN pos ELSE pos + gain
  /\ due' = TRUE
  /\ UNCHANGED <<hostPaused, hostAt, said, paused, speed, at, rate>>

\* To pause again before the loop has told anyone that the host plays misleads
\* a joiner that is paused, or about to be.  A seek is late if it follows the
\* reading of the position that goes out as the one paused at.
HostUser ==
  /\ \/ /\ switches < MaxSwitches /\ switches' = switches + 1
        /\ hostPaused' = ~hostPaused
        /\ misled' = (misled \/ (~hostPaused /\ said))
        /\ UNCHANGED <<wire, msg, goal, told, pos, disturbances>>
     \/ /\ Disturb(IF hostPaused \/ hostAt = "read" THEN "lateSeek" ELSE "seek")
        /\ HostMoves(Jump, 0)
        /\ pos' = pos - Jump
        /\ UNCHANGED hostPaused
  /\ UNCHANGED <<due, hostAt, said, paused, speed, at, rate>>

JoinerUser ==
  /\ \/ /\ Disturb(IF paused THEN "joinerResume" ELSE "joinerPause")
        /\ paused' = ~paused
        /\ UNCHANGED pos
     \/ /\ Disturb("joinerSeek")
        /\ \E j \in {-Second, Jump} : pos' = pos + j
        /\ UNCHANGED paused
  /\ UNCHANGED <<hostVars, wire, speed, handleVars>>

-----------------------------------------------------------------------------
(* SyncManager of the host: a call that fails skips the tick. *)

GetPlaybackTime ==
  /\ hostAt = "wait" /\ due
  /\ due' = FALSE
  /\ \/ /\ hostAt' = "read"
        /\ UNCHANGED userVars
     \/ /\ Disturb("skip")
        /\ UNCHANGED hostAt
  /\ told' = 0
  /\ UNCHANGED <<hostPaused, said, wire, playerVars, handleVars>>

\* IsPaused, the time stamp and Broadcast.
BroadcastSync ==
  /\ hostAt = "read"
  /\ hostAt' = "wait" /\ told' = 0
  /\ \/ /\ wire' = Append(wire, [pos |-> told, paused |-> hostPaused,
                                 age |-> 0])
        /\ said' = hostPaused
        /\ UNCHANGED userVars
     \/ /\ Disturb("skip")
        /\ UNCHANGED <<wire, said>>
  /\ UNCHANGED <<hostPaused, due, playerVars, handleVars>>

\* Stop, seen by the loop at its next select, which may also take a tick.
Stop ==
  /\ hostAt = "wait"
  /\ Disturb("stop")
  /\ hostAt' = "gone" /\ due' = FALSE
  /\ UNCHANGED <<hostPaused, told, said, wire, playerVars, handleVars>>

-----------------------------------------------------------------------------
(* handleSync, in the joiner's read loop. *)

Finish == at' = "idle" /\ msg' = Nothing /\ goal' = 0 /\ rate' = 0

OnSyncReceived ==
  /\ at = "idle" /\ wire # <<>>
  /\ at' = "ask" /\ msg' = Head(wire) /\ wire' = Tail(wire)
  /\ UNCHANGED <<hostVars, playerVars, goal, rate, userVars>>

IsPaused ==
  /\ at = "ask"
  /\ \/ /\ IF msg.paused /\ paused THEN Finish
           ELSE /\ at' = IF msg.paused THEN "pause"
                         ELSE IF paused THEN "resume" ELSE "locate"
                /\ UNCHANGED <<msg, goal, rate>>
        /\ UNCHANGED userVars
     \/ Disturb("getFails") /\ Finish
  /\ UNCHANGED <<hostVars, wire, playerVars>>

\* A call that sets a property: it has its effect, or it has not, and nobody
\* looks at the error.
Sets(effect, unchanged) == \/ effect /\ UNCHANGED userVars
                           \/ Disturb("setFails") /\ unchanged

\* Mutant of SetPaused: the joiner does not go to where the host has paused.
PausesInPlace ==
  /\ at \in {"pause", "resume"}
  /\ Sets(paused' = (at = "pause"), UNCHANGED paused)
  /\ at' = IF at = "pause" THEN "speed" ELSE "locate"
  /\ UNCHANGED <<hostVars, wire, pos, speed, msg, goal, rate>>

SetPaused ==
  /\ at \in {"pause", "resume"}
  /\ Sets(paused' = (at = "pause"), UNCHANGED paused)
  /\ at' = IF at = "pause" THEN "seek" ELSE "locate"
  /\ goal' = IF at = "pause" THEN msg.pos ELSE 0
  /\ UNCHANGED <<hostVars, wire, pos, speed, msg, rate>>

Latency(m) == LET l == m.age + Skew IN
              IF l < 0 \/ l > MaxLatency THEN 0 ELSE l

\* GetPlaybackTime.
Locate ==
  /\ at = "locate"
  /\ \/ /\ at' = "correct" /\ goal' = pos
        /\ UNCHANGED <<msg, rate, userVars>>
     \/ Disturb("getFails") /\ Finish
  /\ UNCHANGED <<hostVars, wire, playerVars>>

\* Mutant of CorrectDrift: within the tolerance nothing is done.
CorrectLeaves ==
  /\ at = "correct"
  /\ LET target == msg.pos + Latency(msg)
         drift  == goal - target
         hard   == Abs(drift) > HardSeekAbove
     IN IF Abs(drift) <= Tolerance THEN Finish
        ELSE /\ at' = IF hard THEN "seek" ELSE "speed"
             /\ goal' = IF hard THEN target ELSE 0
             /\ rate' = IF hard THEN 0 ELSE IF drift < 0 THEN 1 ELSE -1
             /\ UNCHANGED msg
  /\ UNCHANGED <<hostVars, wire, playerVars, userVars>>

\* The clock is read after the position has come.  0.95, 1 or 1.05 times the
\* speed gains -1, 0 or 1 in a period.
CorrectDrift ==
  /\ at = "correct"
  /\ LET target == msg.pos + Latency(msg)
         drift  == goal - target
         hard   == Abs(drift) > HardSeekAbove
     IN /\ at' = IF hard THEN "seek" ELSE "speed"
        /\ goal' = IF hard THEN target ELSE 0
        /\ rate' = IF hard THEN 0
                   ELSE IF drift < -Tolerance THEN 1
                   ELSE IF drift > Tolerance THEN -1 ELSE 0
  /\ UNCHANGED <<hostVars, wire, playerVars, msg, userVars>>

Seek ==
  /\ at = "seek"
  /\ Sets(pos' = goal, UNCHANGED pos)
  /\ at' = "speed" /\ goal' = 0
  /\ UNCHANGED <<hostVars, wire, paused, speed, msg, rate>>

SetSpeed ==
  /\ at = "speed"
  /\ Sets(speed' = rate, UNCHANGED speed)
  /\ Finish
  /\ UNCHANGED <<hostVars, wire, paused, pos>>

-----------------------------------------------------------------------------
HostLoop == GetPlaybackTime \/ BroadcastSync

HandleSync == \/ OnSyncReceived
              \/ IsPaused
              \/ SetPaused
              \/ Locate
              \/ CorrectDrift
              \/ Seek
              \/ SetSpeed

Next == HostLoop \/ HandleSync \/ Advance \/ HostUser \/ JoinerUser \/ Stop

\* The loops run and time goes on; users, Stop and failures owe nothing.
Spec == Init /\ [][Next]_vars
             /\ WF_vars(HostLoop) /\ WF_vars(HandleSync) /\ WF_vars(Advance)

-----------------------------------------------------------------------------
(* Properties. *)

Message == [pos : Int, paused : BOOLEAN, age : Nat]

\* Every variable has its type.
TypeOK ==
  /\ hostPaused \in BOOLEAN /\ due \in BOOLEAN
  /\ hostAt \in {"wait", "read", "gone"} /\ told \in Int /\ said \in BOOLEAN
  /\ wire \in Seq(Message)
  /\ paused \in BOOLEAN /\ pos \in Int /\ speed \in {-1, 0, 1}
  /\ at \in {"idle", "ask", "pause", "resume", "locate", "correct", "seek",
             "speed"}
  /\ msg \in Message /\ goal \in Int /\ rate \in {-1, 0, 1}
  /\ disturbances \in 0 .. MaxDisturbances /\ switches \in 0 .. MaxSwitches
  /\ misled \in BOOLEAN

Near == Abs(pos) <= Tolerance + Abs(Skew)

\* Once the host's player is left to play, the joiner's comes to play at its
\* normal speed within the tolerance of it, and once the host's is left paused,
\* so is the joiner's, whatever it was told before and whichever calls had
\* failed or lasted.
KeepsUp ==
  /\ <>[](~hostPaused /\ hostAt # "gone") => <>[](~paused /\ Near /\ speed = 0)
  /\ <>[](hostPaused /\ hostAt # "gone") => <>[]paused

\* It is then paused exactly where the host's is, however often the host's
\* user has paused, sought and resumed before, unless he paused again before the
\* host had told that it plays, or the host moved on after its position was
\* read and was paused when its state was; or the joiner's user paused or
\* sought, or a call of the joiner failed.  (The connection lasts here.)
PausedTogether ==
  <>[](hostPaused /\ hostAt # "gone")
    => <>[](misled \/ (paused /\ pos = 0))

\* "Peers adjust their playback speed or seek to match": once the host's
\* player is left paused, the joiner's comes to where it is.
MatchesPaused == <>[](hostPaused /\ hostAt # "gone") => <>[](paused /\ Near)
=============================================================================
