------------------------------ MODULE HubStream ------------------------------
(***************************************************************************)
(* The life of the Hub subscription in payload/agentd_hub.py: the owner    *)
(* thread (_run) that connects, consumes a bounded queue and backs off;    *)
(* the reader thread of each connection (_read_stream); the sleep watcher  *)
(* (prepare_for_sleep); the thread that stops the service; and a thread    *)
(* that asks for status().  A connection is named by its generation.       *)
(*                                                                         *)
(* A step is what runs between two acquisitions of the Hub's lock, two     *)
(* blocking calls or two callbacks.  Time is reduced to two facts: whether *)
(* the deadline has passed since the connection started, and since it was  *)
(* last heard.  A local variable that is dead holds its initial value.     *)
(***************************************************************************)
EXTENDS Naturals, Sequences

CONSTANTS QueueSize,     \* capacity of the event queue (32 in the code)
          StatusThread,  \* whether another thread of the service calls status()
          MaxLosses,     \* bound on failed attempts and lost connections
          MaxSleeps,     \* bound on suspends
          MaxExits       \* bound on stops and crashes

ASSUME StreamAssumption ==
    /\ QueueSize \in Nat \ {0}
    /\ StatusThread \in BOOLEAN
    /\ MaxLosses \in Nat /\ MaxSleeps \in Nat /\ MaxExits \in Nat

VARIABLES
    up,          \* the service process runs
    stopping,    \* _stop
    gen,         \* _connection_generation
    suspended,   \* _suspended
    status,      \* _status
    wake,        \* _wake
    file,        \* hub-status.json, and whether the running process wrote it
    pc,          \* where the owner thread is
    attempt,     \* attempt_generation
    spawned,     \* the attempt has started its reader
    valid,       \* valid_snapshot
    invalidated, \* invalidated
    retrying,    \* index > 0
    queue,       \* events of the owner's attempt
    item,        \* the event the owner is handling
    reading,     \* generations whose reader waits for a line
    blocked,     \* <<generation, event>> of readers waiting for room
    peer,        \* what the peer of the owner's attempt still sends
    startOld,    \* the deadline has passed since _connection_started_boot
    seenOld,     \* the deadline has passed since _last_seen_boot
    sleeper,     \* where the sleep watcher is
    sleeperGen,  \* the generation it captured
    asker,       \* where the thread in status() is
    resumed,     \* history: resumed, and no attempt begun since
    losses, sleeps, exits  \* how many so far

hubVars    == <<up, stopping, gen, suspended, status, wake, file>>
ownerVars  == <<pc, attempt, spawned, valid, invalidated, retrying, item>>
readerVars == <<queue, reading, blocked>>
timeVars   == <<peer, startOld, seenOld>>
otherVars  == <<sleeper, sleeperGen, asker, resumed>>
bounds     == <<losses, sleeps, exits>>
vars == <<hubVars, ownerVars, readerVars, timeVars, otherVars, bounds>>

Statuses == {"connecting", "live", "stale", "reconnecting", "suspended"}
Frames   == {"snapshot", "heartbeat", "malformed"}
Events   == Frames \cup {"end"}
Peers    == {"snapshots", "heartbeats", "nothing"}

\* The owner consumes its attempt's stream.
Streaming == {"checking", "polling", "handling", "notifying"}
OwnerAt   == Streaming \cup {"top", "begin", "connecting", "installed", "failed",
                             "revoking", "cleanup", "decide", "waiting", "clearing", "done"}

TypeOK ==
    /\ up \in BOOLEAN /\ stopping \in BOOLEAN
    /\ gen \in Nat /\ suspended \in BOOLEAN
    /\ status \in Statuses /\ wake \in BOOLEAN
    /\ file \in [status : Statuses, owned : BOOLEAN]
    /\ pc \in OwnerAt /\ attempt \in Nat
    /\ spawned \in BOOLEAN /\ valid \in BOOLEAN
    /\ invalidated \in BOOLEAN /\ retrying \in BOOLEAN
    /\ queue \in Seq(Events) /\ Len(queue) <= QueueSize
    /\ item \in Events
    /\ reading \in SUBSET Nat /\ blocked \in SUBSET (Nat \X Frames)
    /\ peer \in Peers /\ startOld \in BOOLEAN /\ seenOld \in BOOLEAN
    /\ sleeper \in {"idle", "suspending", "suspendingLive", "revoking", "resuming"}
    /\ sleeperGen \in Nat
    /\ asker \in {"idle", "revoking"}
    /\ resumed \in BOOLEAN
    /\ losses \in Nat /\ sleeps \in Nat /\ exits \in Nat

Init ==
    /\ up = FALSE
    /\ stopping = FALSE /\ gen = 0 /\ suspended = FALSE
    /\ status = "connecting" /\ wake = FALSE
    /\ file = [status |-> "reconnecting", owned |-> FALSE]
    /\ pc = "top" /\ attempt = 0 /\ spawned = FALSE /\ valid = FALSE
    /\ invalidated = FALSE /\ retrying = FALSE /\ item = "end"
    /\ queue = <<>> /\ reading = {} /\ blocked = {}
    /\ peer = "snapshots" /\ startOld = FALSE /\ seenOld = FALSE
    /\ sleeper = "idle" /\ sleeperGen = 0 /\ asker = "idle" /\ resumed = FALSE
    /\ losses = 0 /\ sleeps = 0 /\ exits = 0

\* _write_status.
Written(s) == [status |-> s, owned |-> TRUE]

Loss == losses < MaxLosses /\ losses' = losses + 1 /\ UNCHANGED <<sleeps, exits>>
Exit == exits < MaxExits /\ exits' = exits + 1 /\ UNCHANGED <<losses, sleeps>>
-----------------------------------------------------------------------------
(* The process.                                                             *)

\* AgentdHub.__init__ and start.
Boot ==
    /\ ~up
    /\ up' = TRUE
    /\ file' = Written("connecting")
    /\ UNCHANGED <<stopping, gen, suspended, status, wake, ownerVars, readerVars,
                   timeVars, otherVars, bounds>>

\* Everything in memory goes with the process.
Ends ==
    /\ up' = FALSE
    /\ stopping' = FALSE /\ gen' = 0 /\ suspended' = FALSE
    /\ status' = "connecting" /\ wake' = FALSE
    /\ pc' = "top" /\ attempt' = 0 /\ spawned' = FALSE /\ valid' = FALSE
    /\ invalidated' = FALSE /\ retrying' = FALSE /\ item' = "end"
    /\ queue' = <<>> /\ reading' = {} /\ blocked' = {}
    /\ peer' = "snapshots" /\ startOld' = FALSE /\ seenOld' = FALSE
    /\ sleeper' = "idle" /\ sleeperGen' = 0 /\ asker' = "idle" /\ resumed' = FALSE

\* stop: the flag, the wake-up, the generation and the socket.
Stop ==
    /\ up /\ ~stopping /\ Exit
    /\ stopping' = TRUE /\ wake' = TRUE /\ gen' = gen + 1
    /\ UNCHANGED <<up, suspended, status, file, ownerVars, readerVars, timeVars,
                   otherVars>>

\* stop, after joining the owner or giving up on it, and the process exits.
StopReturns ==
    /\ up /\ stopping
    /\ Ends
    /\ file' = [status |-> "reconnecting", owned |-> FALSE]
    /\ UNCHANGED bounds

\* The process is killed: its last status stays in the file.
Crash ==
    /\ up /\ Exit
    /\ Ends
    /\ file' = [file EXCEPT !.owned = FALSE]
-----------------------------------------------------------------------------
(* The owner thread.                                                        *)

Owner(from, to) == up /\ pc = from /\ pc' = to

\* Mutant of WakeOnWait: the event is cleared before the wait.
WakeClearedOnWait(w) == FALSE

\* The wake event as a wait begins: it still holds a set() that came before.
WakeOnWait(w) == w

\* The loop's head: stop, wait out the suspension, or begin an attempt.
Top ==
    /\ Owner("top", IF stopping THEN "done" ELSE IF suspended THEN "waiting" ELSE "begin")
    /\ status' = IF ~stopping /\ ~suspended /\ retrying THEN "reconnecting" ELSE status
    /\ file' = IF ~stopping /\ (suspended \/ retrying) THEN Written(status') ELSE file
    /\ wake' = IF pc' = "waiting" THEN WakeOnWait(wake) ELSE wake
    /\ UNCHANGED <<up, stopping, gen, suspended, attempt, spawned, valid, invalidated,
                   retrying, item, readerVars, timeVars, otherVars, bounds>>

Begin ==
    /\ Owner("begin", "connecting")
    /\ attempt' = gen
    /\ resumed' = FALSE
    /\ UNCHANGED <<hubVars, spawned, valid, invalidated, retrying, item, readerVars,
                   timeVars, sleeper, sleeperGen, asker, bounds>>

\* urlopen fails or times out.
ConnectFails ==
    /\ Owner("connecting", "failed")
    /\ Loss
    /\ UNCHANGED <<hubVars, attempt, spawned, valid, invalidated, retrying, item,
                   readerVars, timeVars, otherVars>>

\* Mutant of Current: only the stop flag is checked.
CurrentUnlessStopping(g) == ~stopping

\* The generation is current, and the client neither stopping nor suspended.
Current(g) == g = gen /\ ~stopping /\ ~suspended

\* urlopen returned too late: suspend or stop came first.
LateResponse ==
    /\ Owner("connecting", "decide")
    /\ ~Current(attempt)
    /\ invalidated' = TRUE
    /\ UNCHANGED <<hubVars, attempt, spawned, valid, retrying, item, readerVars,
                   timeVars, otherVars, bounds>>

Install ==
    /\ Owner("connecting", "installed")
    /\ Current(attempt)
    /\ status' = "connecting"
    /\ UNCHANGED <<up, stopping, gen, suspended, wake, file, attempt, spawned, valid,
                   invalidated, retrying, item, readerVars, timeVars, otherVars, bounds>>

\* The delayed write of "connecting", and the start of the reader.
Spawn ==
    /\ Owner("installed", "checking")
    /\ file' = IF Current(attempt) THEN Written("connecting") ELSE file
    /\ spawned' = TRUE
    /\ reading' = reading \cup {attempt}
    /\ UNCHANGED <<up, stopping, gen, suspended, status, wake, attempt, valid,
                   invalidated, retrying, item, queue, blocked, timeVars, otherVars,
                   bounds>>

\* Mutants of Expired: no deadline for the first snapshot, none after it.
ExpiredOnceLive == status = "live" /\ seenOld
ExpiredBeforeLive == status # "live" /\ startOld

\* The anchor of the deadline is the last event once live, the connection before.
Expired == IF status = "live" THEN seenOld ELSE startOld

Check ==
    /\ Owner("checking", IF stopping THEN "cleanup"
                         ELSE IF suspended \/ attempt # gen \/ Expired THEN "failed"
                         ELSE "polling")
    /\ invalidated' = (~stopping /\ ~suspended /\ attempt # gen)
    /\ UNCHANGED <<hubVars, attempt, spawned, valid, retrying, item, readerVars,
                   timeVars, otherVars, bounds>>

\* events.get with a timeout.
Poll ==
    /\ Owner("polling", IF queue = <<>> THEN "checking" ELSE "handling")
    /\ item' = IF queue = <<>> THEN item ELSE Head(queue)
    /\ queue' = IF queue = <<>> THEN queue ELSE Tail(queue)
    /\ UNCHANGED <<hubVars, attempt, spawned, valid, invalidated, retrying, reading,
                   blocked, timeVars, otherVars, bounds>>

\* _accept: commit under the lock, then on_snapshot without it.
AcceptSnapshot ==
    /\ Owner("handling", "notifying")
    /\ item = "snapshot" /\ Current(attempt)
    /\ status' = "live" /\ file' = Written("live")
    /\ seenOld' = FALSE /\ item' = "end"
    /\ UNCHANGED <<up, stopping, gen, suspended, wake, attempt, spawned, valid,
                   invalidated, retrying, readerVars, peer, startOld, otherVars,
                   bounds>>

\* on_snapshot returns: the backoff is reset.
Notified ==
    /\ Owner("notifying", "checking")
    /\ valid' = TRUE /\ retrying' = FALSE
    /\ UNCHANGED <<hubVars, attempt, spawned, invalidated, item, readerVars, timeVars,
                   otherVars, bounds>>

\* on_snapshot raises (a write of the attention log, the sound): a stream failure.
NotifyRaises ==
    /\ Owner("notifying", "failed")
    /\ Loss
    /\ UNCHANGED <<hubVars, attempt, spawned, valid, invalidated, retrying, item,
                   readerVars, timeVars, otherVars>>

\* _accept_heartbeat: keeps a live stream fresh, never makes one live.
AcceptHeartbeat ==
    /\ Owner("handling", "checking")
    /\ item = "heartbeat" /\ Current(attempt)
    /\ seenOld' = (seenOld /\ status # "live") /\ item' = "end"
    /\ file' = Written(status)
    /\ UNCHANGED <<up, stopping, gen, suspended, status, wake, attempt, spawned, valid,
                   invalidated, retrying, readerVars, peer, startOld, otherVars,
                   bounds>>

\* A frame of an ended generation, a malformed frame, or the end of the stream.
Reject ==
    /\ Owner("handling", "failed")
    /\ item \in {"snapshot", "heartbeat"} => ~Current(attempt)
    /\ invalidated' = (item \in {"snapshot", "heartbeat"}) /\ item' = "end"
    /\ UNCHANGED <<hubVars, attempt, spawned, valid, retrying, readerVars, timeVars,
                   otherVars, bounds>>

\* What _mark_disconnected makes of the status, then of the file.
LostStatus == IF suspended THEN "suspended"
              ELSE IF status = "live" THEN "stale" ELSE "reconnecting"

\* Mutant of LossFile: the file is not written.
LossFileKept == file

LossFile == Written(LostStatus)

\* _mark_disconnected, unless stop or a newer generation came first.
MarkDisconnected ==
    LET marks == ~stopping /\ attempt = gen
    IN  /\ Owner("failed", IF marks /\ status = "live" THEN "revoking" ELSE "cleanup")
        /\ status' = IF marks THEN LostStatus ELSE status
        /\ file' = IF marks THEN LossFile ELSE file
        /\ UNCHANGED <<up, stopping, gen, suspended, wake, attempt, spawned, valid,
                       invalidated, retrying, item, readerVars, timeVars, otherVars,
                       bounds>>

\* on_disconnect, called by the owner without the lock.
OwnerRevokes ==
    /\ Owner("revoking", "cleanup")
    /\ UNCHANGED <<hubVars, attempt, spawned, valid, invalidated, retrying, item,
                   readerVars, timeVars, otherVars, bounds>>

\* The finally clause: the generation ends, and with it the reader.
Cleanup ==
    /\ Owner("cleanup", "decide")
    /\ gen' = IF spawned /\ attempt = gen THEN gen + 1 ELSE gen
    /\ UNCHANGED <<up, stopping, suspended, status, wake, file, attempt, spawned, valid,
                   invalidated, retrying, item, readerVars, timeVars, otherVars, bounds>>

\* The variables of the attempt end with it.
EndAttempt ==
    /\ attempt' = 0 /\ spawned' = FALSE /\ valid' = FALSE /\ invalidated' = FALSE
    /\ queue' = <<>>
    /\ peer' = "snapshots" /\ startOld' = FALSE /\ seenOld' = FALSE

\* Reconnect at once or back off.
Decide ==
    /\ Owner("decide", IF stopping THEN "done"
                       ELSE IF suspended \/ invalidated THEN "top" ELSE "waiting")
    /\ retrying' = (retrying \/ (pc' = "waiting" /\ ~valid))
    /\ wake' = IF pc' = "waiting" THEN WakeOnWait(wake) ELSE wake
    /\ EndAttempt
    /\ UNCHANGED <<up, stopping, gen, suspended, status, file, item, reading, blocked,
                   otherVars, bounds>>

\* _wake.wait returns because of the event, or of its timeout.
Woken ==
    /\ Owner("waiting", "clearing")
    /\ wake
    /\ UNCHANGED <<hubVars, attempt, spawned, valid, invalidated, retrying, item,
                   readerVars, timeVars, otherVars, bounds>>

WaitTimesOut ==
    /\ Owner("waiting", "clearing")
    /\ ~wake
    /\ UNCHANGED <<hubVars, attempt, spawned, valid, invalidated, retrying, item,
                   readerVars, timeVars, otherVars, bounds>>

ClearWake ==
    /\ Owner("clearing", "top")
    /\ wake' = FALSE
    /\ UNCHANGED <<up, stopping, gen, suspended, status, file, attempt, spawned, valid,
                   invalidated, retrying, item, readerVars, timeVars, otherVars, bounds>>
-----------------------------------------------------------------------------
(* The readers.                                                             *)

\* The owner consumes the events of generation g.
Consumed(g) ==
    /\ spawned /\ attempt = g
    /\ pc \in Streaming \cup {"failed", "revoking", "cleanup"}

\* Mutant of Room: off by one.
RoomForOneMore == Len(queue) <= QueueSize

Room == Len(queue) < QueueSize

\* A frame arrives on the current connection and is queued, or waits for room.
Read(g, frame) ==
    /\ g \in reading /\ g = gen /\ Consumed(g)
    /\ peer # "nothing" /\ (frame = "snapshot" => peer = "snapshots")
    /\ queue' = IF Room THEN Append(queue, frame) ELSE queue
    /\ reading' = IF Room THEN reading ELSE reading \ {g}
    /\ blocked' = IF Room THEN blocked ELSE blocked \cup {<<g, frame>>}
    /\ UNCHANGED <<hubVars, ownerVars, timeVars, otherVars>>

ReadGood(g) == \E frame \in {"snapshot", "heartbeat"} : Read(g, frame) /\ UNCHANGED bounds

ReadMalformed(g) == Loss /\ Read(g, "malformed")

Unblock(g, frame) ==
    /\ <<g, frame>> \in blocked /\ Consumed(g) /\ Room
    /\ queue' = Append(queue, frame)
    /\ blocked' = blocked \ {<<g, frame>>}
    /\ reading' = reading \cup {g}
    /\ UNCHANGED <<hubVars, ownerVars, timeVars, otherVars, bounds>>

\* Mutant of GivesUp: only the stop flag is polled.
GivesUpOnStop(g) == stopping

\* A blocked reader polls the generation, and the stop flag.
GivesUp(g) == g # gen \/ stopping

StopWaiting(g, frame) ==
    /\ <<g, frame>> \in blocked /\ GivesUp(g)
    /\ blocked' = blocked \ {<<g, frame>>}
    /\ UNCHANGED <<hubVars, ownerVars, queue, reading, timeVars, otherVars, bounds>>

\* The reader's last put has a timeout: the end is queued if there is room.
EndOfStream(g) ==
    /\ reading' = reading \ {g}
    /\ queue' = IF Consumed(g) /\ Room THEN Append(queue, "end") ELSE queue
    /\ UNCHANGED <<hubVars, ownerVars, blocked, timeVars, otherVars>>

\* The socket of an ended generation was shut down: end of file, or the
\* generation check ends the reader before it queues anything.
ReaderEnds(g) ==
    /\ g \in reading /\ g # gen
    /\ UNCHANGED bounds
    /\ \/ EndOfStream(g)
       \/ /\ reading' = reading \ {g}
          /\ UNCHANGED <<hubVars, ownerVars, queue, blocked, timeVars, otherVars>>

\* The peer closes the connection, or it breaks.
PeerCloses(g) ==
    /\ g \in reading /\ g = gen /\ Loss
    /\ EndOfStream(g)

\* The peer sends nothing any more, or heartbeats and no snapshot, and does not
\* close.
PeerFalters ==
    /\ Consumed(gen) /\ peer = "snapshots" /\ Loss
    /\ peer' \in {"heartbeats", "nothing"}
    /\ UNCHANGED <<hubVars, ownerVars, readerVars, startOld, seenOld, otherVars>>

\* Nothing can arrive on the owner's connection.
Quiet ==
    \/ peer = "nothing"
    \/ attempt \notin reading /\ \A frame \in Frames : <<attempt, frame>> \notin blocked

\* The owner waits for a first snapshot that the peer does not send.
Withheld == status # "live" /\ peer = "heartbeats"

\* The deadline passes: since the start on a connection that is live or has
\* nothing to wait for, since the last event on a quiet one.
TimePasses ==
    /\ up /\ spawned /\ pc \in Streaming
    /\ \/ /\ ~startOld /\ (status = "live" \/ Quiet \/ Withheld)
          /\ startOld' = TRUE /\ UNCHANGED seenOld
       \/ startOld /\ ~seenOld /\ Quiet /\ seenOld' = TRUE /\ UNCHANGED startOld
    /\ UNCHANGED <<hubVars, ownerVars, readerVars, peer, otherVars, bounds>>
-----------------------------------------------------------------------------
(* The sleep watcher: prepare_for_sleep.                                    *)

Sleeper(from, to) == up /\ sleeper = from /\ sleeper' = to

Suspend ==
    /\ Sleeper("idle", IF status = "live" THEN "suspendingLive" ELSE "suspending")
    /\ ~stopping /\ ~suspended
    /\ sleeps < MaxSleeps /\ sleeps' = sleeps + 1
    /\ gen' = gen + 1 /\ sleeperGen' = gen + 1
    /\ suspended' = TRUE /\ status' = "suspended"
    /\ resumed' = FALSE
    /\ UNCHANGED <<up, stopping, wake, file, ownerVars, readerVars, timeVars, asker,
                   losses, exits>>

\* The status file, the wake-up and the socket, without the lock.
SuspendEffects ==
    /\ \/ Sleeper("suspending", "idle")
       \/ Sleeper("suspendingLive", "revoking")
    /\ file' = IF sleeperGen = gen THEN Written("suspended") ELSE file
    /\ wake' = TRUE /\ sleeperGen' = 0
    /\ UNCHANGED <<up, stopping, gen, suspended, status, ownerVars, readerVars,
                   timeVars, asker, resumed, bounds>>

\* on_disconnect, called by the sleep watcher.
SleeperRevokes ==
    /\ Sleeper("revoking", "idle")
    /\ UNCHANGED <<hubVars, ownerVars, readerVars, timeVars, sleeperGen, asker, resumed,
                   bounds>>

Resume ==
    /\ Sleeper("idle", "resuming")
    /\ ~stopping /\ suspended
    /\ gen' = gen + 1 /\ sleeperGen' = gen + 1
    /\ suspended' = FALSE
    /\ status' = IF status = "suspended" THEN "reconnecting" ELSE status
    /\ resumed' = TRUE
    /\ UNCHANGED <<up, stopping, wake, file, ownerVars, readerVars, timeVars, asker,
                   bounds>>

\* The status file and the wake-up, without the lock.
ResumeEffects ==
    /\ Sleeper("resuming", "idle")
    /\ file' = IF sleeperGen = gen THEN Written("reconnecting") ELSE file
    /\ wake' = TRUE /\ sleeperGen' = 0
    /\ UNCHANGED <<up, stopping, gen, suspended, status, ownerVars, readerVars,
                   timeVars, asker, resumed, bounds>>
-----------------------------------------------------------------------------
(* status() in the process that owns the stream.                            *)

AskStatus ==
    /\ StatusThread /\ up /\ asker = "idle"
    /\ status = "live" /\ seenOld
    /\ status' = "stale" /\ file' = Written("stale")
    /\ asker' = "revoking"
    /\ UNCHANGED <<up, stopping, gen, suspended, wake, ownerVars, readerVars, timeVars,
                   sleeper, sleeperGen, resumed, bounds>>

AskerRevokes ==
    /\ up /\ asker = "revoking"
    /\ asker' = "idle"
    /\ UNCHANGED <<hubVars, ownerVars, readerVars, timeVars, sleeper, sleeperGen,
                   resumed, bounds>>
-----------------------------------------------------------------------------
Process == Boot \/ Stop \/ StopReturns \/ Crash

OwnerStep ==
    \/ Top \/ Begin \/ LateResponse \/ Install \/ Spawn \/ Check \/ Poll
    \/ AcceptSnapshot \/ Notified \/ AcceptHeartbeat \/ Reject
    \/ MarkDisconnected \/ OwnerRevokes \/ Cleanup \/ Decide \/ Woken \/ ClearWake

ReaderStep(g) ==
    \/ \E frame \in Frames : Unblock(g, frame) \/ StopWaiting(g, frame)
    \/ ReaderEnds(g)

\* The generations a reader is still alive for.
Readers == reading \cup {b[1] : b \in blocked}

Environment ==
    \/ ConnectFails \/ NotifyRaises \/ PeerFalters \/ TimePasses
    \/ \E g \in reading : ReadGood(g) \/ ReadMalformed(g) \/ PeerCloses(g)

\* A loss ends at most one generation, a suspend and its resume two, a stop one.
Generations == 0..(MaxLosses + 2 * MaxSleeps + MaxExits)

SleeperStep == SuspendEffects \/ SleeperRevokes \/ ResumeEffects

Next ==
    \/ Process \/ OwnerStep \/ WaitTimesOut \/ Environment
    \/ \E g \in Readers : ReaderStep(g)
    \/ Suspend \/ SleeperStep \/ Resume
    \/ AskStatus \/ AskerRevokes

Spec == Init /\ [][Next]_vars

\* The threads run, each reader by itself; connection attempts and stop() time
\* out; a suspended machine wakes; the Hub begins a connection with a
\* snapshot unless its peer falters; the deadline passes on one where it does.  The
\* timer of the backoff is not assumed: a resume does not depend on it.
Fairness ==
    /\ WF_vars(Boot) /\ WF_vars(StopReturns)
    /\ WF_vars(OwnerStep) /\ WF_vars(SleeperStep) /\ WF_vars(Resume)
    /\ WF_vars(AskerRevokes)
    /\ WF_vars(TimePasses)
    /\ \A g \in Generations : WF_vars(g \in Readers /\ ReaderStep(g))
    /\ SF_vars(\E g \in reading : Read(g, "snapshot") /\ UNCHANGED bounds)

FairSpec == Spec /\ Fairness
-----------------------------------------------------------------------------
(* Properties.                                                              *)

\* Some thread has taken the stream's "live" away and not yet called
\* on_disconnect.
Owed ==
    \/ pc = "revoking"
    \/ sleeper \in {"suspendingLive", "revoking"}
    \/ asker = "revoking"

\* The right to present the roster, as the stream's threads have left it.
AuthorityNow ==
    IF Owed THEN "revoking" ELSE IF status = "live" THEN "granted" ELSE "none"

Authority == INSTANCE HubAuthority WITH authority <- AuthorityNow, awake <- ~suspended

\* Whatever the order of frames, failures, suspends, resumes and stops, the
\* stream is live only through a snapshot accepted while awake, and each loss
\* is notified once, before the next acceptance.
ImplementsAuthority == Authority!Spec

\* What _persisted_status shows of the file: "live" needs a living owner and a
\* recent event.
Shown == IF file.status = "live" /\ (~file.owned \/ seenOld) THEN "stale" ELSE file.status

\* The bell shows "live" only while the stream is live: the exceptions are the
\* moment between a suspend and its write of the status file, and a service
\* that is stopping, whose last act is to write the file.
ShownLiveIsLive ==
    Shown = "live" => status = "live" \/ sleeper = "suspendingLive" \/ stopping

\* "a same-generation fresh snapshot must not be overwritten by a delayed stale
\* write" (status): while the stream stays live, so does the file.
FreshSnapshotKept ==
    [][(file.status = "live" /\ status = "live" /\ status' = "live" /\ up')
            => file'.status = "live"]_vars

\* As long as the service is neither stopped nor suspended, and the timer of the
\* backoff works, the client becomes live.
EventuallyLive ==
    WF_vars(WaitTimesOut) =>
        ((up /\ ~suspended) ~> (status = "live" \/ suspended \/ ~up))

\* A resume begins a new attempt without waiting for the backoff's timer,
\* wherever the owner thread was: no wake-up is lost.
ResumeWakes == resumed ~> ~resumed

\* The owner leaves a connection whose reader is gone, even when the end of the
\* stream was dropped because the queue was full, and one whose heartbeats keep
\* coming without a first snapshot (hub_liveness_deadline).
DeadStreamLeft ==
    LET dead == pc \in Streaming /\ (Quiet \/ Withheld) IN dead ~> ~dead

\* The reader of a generation that has ended ends too, even when it was
\* blocked on the full queue.
ReadersEnd == (\E g \in Readers : g # gen) ~> (\A g \in Readers : g = gen)
=============================================================================
