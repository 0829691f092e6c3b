------------------------------ MODULE Sessions ------------------------------
(***************************************************************************)
(* The sessions of the backend: the table all session commands look in,    *)
(* the mutex over it, one loop per session (ssh.rs for a host,             *)
(* localshell.rs for a shell on this machine) and the bounded queue of     *)
(* commands each loop reads.                                               *)
(*                                                                         *)
(* A step is what a task does between two awaits.  What a session prints   *)
(* is the module Handover; here a loop takes commands and comes to an end. *)
(***************************************************************************)
EXTENDS Integers, Sequences, FiniteSets

CONSTANTS
    NumSessions,   \* sessions that are ever opened: a bound of the model
    Callers,       \* commands that can be under way together
    Room,          \* what a session's queue holds: 256 in the code
    Used,          \* the commands that are sent, beside disconnect
    NoOne

ASSUME SessionsAssumption ==
    /\ NumSessions \in Nat \ {0}
    /\ Room \in Nat \ {0}
    /\ NoOne \notin Callers /\ NoOne \notin Nat

Sids == 1 .. NumSessions

(* What the commands send, and whether they wait for room in the queue with *)
(* the mutex in hand.                                                       *)
Command == [input      |-> [says |-> "data",  inside |-> TRUE],
            resize     |-> [says |-> "note",  inside |-> TRUE],
            disconnect |-> [says |-> "close", inside |-> TRUE],
            bytes      |-> [says |-> "data",  inside |-> FALSE],
            record     |-> [says |-> "note",  inside |-> FALSE],
            check      |-> [says |-> "lost",  inside |-> FALSE]]
Commands == DOMAIN Command

ASSUME UsedAssumption == Used \subseteq Commands \ {"disconnect"}

NoCall == [op |-> NoOne, sid |-> NoOne, at |-> "idle"]

VARIABLES
    table,   \* SshState.sessions
    lock,    \* who holds its mutex across an await
    pump,    \* where each session's loop is
    local,   \* the sessions that are shells on this machine
    far,     \* what the far end has done, as far as the loop has read
    byUser,  \* closed_by_user
    queue,   \* the commands waiting in each session's channel
    call     \* the commands under way

backend == <<table, lock, pump, local, far, byUser, queue, call>>

Free == lock = NoOne
Alive(s) == pump[s] \in {"running", "writing"}

SessionsInit ==
    /\ table = {} /\ lock = NoOne
    /\ pump = [s \in Sids |-> "none"]
    /\ local = {}
    /\ far = [s \in Sids |-> "up"]
    /\ byUser = {}
    /\ queue = [s \in Sids |-> <<>>]
    /\ call = [c \in Callers |-> NoCall]

-----------------------------------------------------------------------------
(* The commands. *)

(* The end of a connect: the shell is up, its loop starts. *)
Insert(s, isLocal) ==
    /\ Free /\ pump[s] = "none"
    /\ table' = table \union {s}
    /\ pump' = [pump EXCEPT ![s] = "running"]
    /\ local' = IF isLocal THEN local \union {s} ELSE local
    /\ UNCHANGED <<lock, far, byUser, queue, call>>

Call(c, op, s) ==
    /\ call[c] = NoCall
    /\ call' = [call EXCEPT ![c] = [op |-> op, sid |-> s, at |-> "locking"]]
    /\ UNCHANGED <<table, lock, pump, local, far, byUser, queue>>

Answered(c) == call' = [call EXCEPT ![c] = NoCall]

(* No such session any more, or one that has no connection to ping. *)
NotFound(c) ==
    /\ call[c].at = "locking" /\ Free
    /\ call[c].sid \notin table \/ (call[c].op = "check" /\ call[c].sid \in local)
    /\ Answered(c)
    /\ UNCHANGED <<table, lock, pump, local, far, byUser, queue>>

Finds(c) ==
    /\ call[c].at = "locking" /\ Free
    /\ call[c].sid \in table
    /\ call[c].op = "check" => call[c].sid \notin local

(* Whether a command waits for room with the mutex in its hand. *)
Holds(c) == Command[call[c].op].inside

HasRoom(s) == Len(queue[s]) < Room
Queued(c) == [queue EXCEPT ![call[c].sid] = Append(@, Command[call[c].op].says)]

(* The mutex is taken and let go again: there was room. *)
SentAtOnce(c) ==
    /\ Finds(c) /\ Holds(c) /\ HasRoom(call[c].sid)
    /\ queue' = Queued(c)
    /\ Answered(c)
    /\ UNCHANGED <<table, lock, pump, local, far, byUser>>

(* There was none, or the sender is taken out to be used without the mutex. *)
Found(c) ==
    /\ Finds(c) /\ (Holds(c) => ~HasRoom(call[c].sid))
    /\ lock' = IF Holds(c) THEN c ELSE lock
    /\ call' = [call EXCEPT ![c].at = "sending"]
    /\ UNCHANGED <<table, pump, local, far, byUser, queue>>

Released(c) == lock' = IF lock = c THEN NoOne ELSE lock

(* The host answered the ping: nothing is sent. *)
PingAnswered(c) ==
    /\ call[c].at = "sending" /\ call[c].op = "check"
    /\ far[call[c].sid] # "lost"
    /\ Answered(c)
    /\ UNCHANGED <<table, lock, pump, local, far, byUser, queue>>

(* There is room, and the command is in the queue. *)
Sent(c) ==
    /\ call[c].at = "sending"
    /\ pump[call[c].sid] # "gone" /\ HasRoom(call[c].sid)
    /\ queue' = Queued(c)
    /\ Released(c) /\ Answered(c)
    /\ UNCHANGED <<table, pump, local, far, byUser>>

(* Mutant: who waits to send bytes is not told that the loop is gone. *)
SendFailsUntold(c) ==
    /\ call[c].at = "sending" /\ pump[call[c].sid] = "gone" /\ call[c].op # "bytes"
    /\ Released(c) /\ Answered(c)
    /\ UNCHANGED <<table, pump, local, far, byUser, queue>>

(* The loop is gone with its end of the queue. *)
SendFails(c) ==
    /\ call[c].at = "sending" /\ pump[call[c].sid] = "gone"
    /\ Released(c) /\ Answered(c)
    /\ UNCHANGED <<table, pump, local, far, byUser, queue>>

CallStepOf(c) ==
    NotFound(c) \/ SentAtOnce(c) \/ Found(c) \/ PingAnswered(c) \/ Sent(c) \/ SendFails(c)
CallStep == \E c \in Callers : CallStepOf(c)

-----------------------------------------------------------------------------
(* The loop of a session. *)

Takes(s, command) ==
    /\ pump[s] = "running" /\ queue[s] # <<>> /\ Head(queue[s]) = command
    /\ queue' = [queue EXCEPT ![s] = Tail(@)]

(* A write waits for the host to read.  A local shell's goes to a thread.   *)
TakeData(s) ==
    /\ Takes(s, "data")
    /\ \/ far[s] = "lost" /\ pump' = [pump EXCEPT ![s] = "ending"]
       \/ far[s] # "lost" /\ UNCHANGED pump
       \/ far[s] # "lost" /\ s \notin local /\ pump' = [pump EXCEPT ![s] = "writing"]
    /\ UNCHANGED <<table, lock, local, far, byUser, call>>

(* Resize, SetLog, SetRecording and TransferDone. *)
TakeNote(s) ==
    /\ Takes(s, "note")
    /\ UNCHANGED <<table, lock, pump, local, far, byUser, call>>

(* Mutant: the close is noted and the loop goes on. *)
TakeCloseNotes(s) ==
    /\ Takes(s, "close")
    /\ byUser' = byUser \union {s}
    /\ UNCHANGED <<table, lock, pump, local, far, call>>

TakeClose(s) ==
    /\ Takes(s, "close")
    /\ byUser' = byUser \union {s}
    /\ pump' = [pump EXCEPT ![s] = "ending"]
    /\ UNCHANGED <<table, lock, local, far, call>>

TakeLost(s) ==
    /\ Takes(s, "lost")
    /\ pump' = [pump EXCEPT ![s] = "ending"]
    /\ UNCHANGED <<table, lock, local, far, byUser, call>>

(* The host has read, or the connection it would read from is gone. *)
Written(s) ==
    /\ pump[s] = "writing"
    /\ pump' = [pump EXCEPT ![s] = IF far[s] = "lost" THEN "ending" ELSE "running"]
    /\ UNCHANGED <<table, lock, local, far, byUser, queue, call>>

(* What the loop reads from the host.  OpenSSH ends a session with EOF, the *)
(* exit status and the close, in that order.  A channel that yields nothing *)
(* any more is not looked at again: only a write or a ping finds out.       *)
Read(s, before, after) ==
    /\ Alive(s) /\ s \notin local
    /\ far[s] \in before
    /\ far' = [far EXCEPT ![s] = after]
    /\ UNCHANGED <<table, lock, pump, local, byUser, queue, call>>

HostEof(s) == pump[s] = "running" /\ Read(s, {"up"}, "eof")
HostExits(s) == pump[s] = "running" /\ Read(s, {"eof"}, "status")
ConnectionLost(s) == Read(s, {"up"}, "lost")

(* The channel is closed, or three seconds have gone by since an EOF; a     *)
(* local shell's process has ended.                                         *)
HostCloses(s) ==
    /\ pump[s] = "running" /\ far[s] # "lost"
    /\ pump' = [pump EXCEPT ![s] = "ending"]
    /\ UNCHANGED <<table, lock, local, far, byUser, queue, call>>

close_reason(s) ==
    IF s \in byUser THEN "closed"
    ELSE IF s \in local \/ far[s] = "status" THEN "exited" ELSE "dropped"

(* The loop is over: its entry goes, the windows are told, and with the     *)
(* task goes its end of the queue.                                          *)
EndLoop(s) ==
    /\ pump[s] = "ending" /\ Free
    /\ table' = table \ {s}
    /\ pump' = [pump EXCEPT ![s] = "gone"]
    /\ queue' = [queue EXCEPT ![s] = <<>>]
    /\ far' = [far EXCEPT ![s] = "up"]
    /\ byUser' = byUser \ {s} /\ local' = local \ {s}
    /\ UNCHANGED <<lock, call>>

TakeStep(s) == TakeData(s) \/ TakeNote(s) \/ TakeClose(s) \/ TakeLost(s)
LoopStep(s) == TakeStep(s) \/ Written(s)

HostStep(s) == HostEof(s) \/ HostExits(s) \/ ConnectionLost(s) \/ HostCloses(s)

SessionsNext ==
    \/ \E s \in Sids, isLocal \in BOOLEAN :
          (\A t \in 1 .. s - 1 : pump[t] # "none") /\ Insert(s, isLocal)
    \/ \E c \in Callers, op \in Used \union {"disconnect"}, s \in Sids :
          pump[s] # "none" /\ Call(c, op, s)
    \/ CallStep
    \/ \E s \in Sids : LoopStep(s) \/ HostStep(s) \/ EndLoop(s)

(* The runtime runs every task that can go on, and its mutex and channels   *)
(* serve those that wait in turn.  Nothing is asked of the host: it may     *)
(* never read.                                                              *)
SessionsFairness ==
    /\ \A c \in Callers : SF_backend(CallStepOf(c))
    /\ \A s \in Sids : WF_backend(TakeStep(s)) /\ SF_backend(EndLoop(s))

SessionsSpec == SessionsInit /\ [][SessionsNext]_backend /\ SessionsFairness

-----------------------------------------------------------------------------
SessionsTypeOK ==
    /\ table \subseteq Sids
    /\ lock \in Callers \union {NoOne}
    /\ pump \in [Sids -> {"none", "running", "writing", "ending", "gone"}]
    /\ local \subseteq Sids /\ byUser \subseteq Sids
    /\ far \in [Sids -> {"up", "eof", "status", "lost"}]
    /\ queue \in [Sids -> Seq({"data", "note", "close", "lost"})]
    /\ \A s \in Sids : Len(queue[s]) <= Room
    /\ call \in [Callers -> [op : Commands \union {NoOne}, sid : Sids \union {NoOne},
                             at : {"idle", "locking", "sending"}]]
    /\ table = {s \in Sids : pump[s] \in {"running", "writing", "ending"}}
    /\ Free \/ call[lock].at = "sending"

(* A command that waits for room in one session's queue does not hold up   *)
(* every other session: never is the mutex in the hand of one that waits   *)
(* for a session whose loop is over, which waits for the mutex in its turn. *)
NeverAllStuck ==
    \A s \in Sids : pump[s] = "ending" /\ Len(queue[s]) = Room
        => Free \/ call[lock].sid # s

(* The mutex is held by a command that waits for a loop that waits itself,  *)
(* for a host that does not read or for this mutex: what NeverAllStuck is   *)
(* about, and the one thing that can hold up what follows.                  *)
Jam == ~Free /\ pump[call[lock].sid] \in {"writing", "ending"}

(* A command comes to an end, unless its session's host does not read or    *)
(* all sessions are held up.                                                *)
CallsEnd ==
    \A c \in Callers : []<>(call[c] = NoCall \/ Jam \/ pump[call[c].sid] = "writing")

Asked(s) ==
    \E k \in DOMAIN queue[s] : queue[s][k] = "close"

(* A session that was told to close goes, and its entry with it.            *)
CloseEnds ==
    \A s \in Sids :
        []<>((~Asked(s) /\ s \notin byUser /\ pump[s] # "ending") \/ Jam \/ pump[s] = "writing")
=============================================================================
