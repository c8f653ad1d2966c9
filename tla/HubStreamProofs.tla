--------------------------- MODULE HubStreamProofs ---------------------------
(***************************************************************************)
(* Proofs about HubStream, for every queue size and every number of        *)
(* losses, suspends and exits: the type invariant, and that the threads of *)
(* the stream implement HubAuthority when no other thread of the service   *)
(* calls status(), which is how the service is written.                    *)
(***************************************************************************)
EXTENDS HubStream, SequenceTheorems, TLAPS

\* A frame or an end appended to the queue where there is room, and the queue
\* without its head, are queues.
LEMMA QueueKept ==
    ASSUME NEW q \in Seq(Events), Len(q) <= QueueSize, NEW e \in Events
    PROVE  /\ Len(q) < QueueSize => /\ Append(q, e) \in Seq(Events)
                                    /\ Len(Append(q, e)) <= QueueSize
           /\ q # <<>> => /\ Head(q) \in Events
                          /\ Tail(q) \in Seq(Events)
                          /\ Len(Tail(q)) <= QueueSize
<1>1. QueueSize \in Nat
  BY StreamAssumption
<1>2. ASSUME Len(q) < QueueSize
      PROVE  Append(q, e) \in Seq(Events) /\ Len(Append(q, e)) <= QueueSize
  BY <1>1, <1>2
<1>3. ASSUME q # <<>>
      PROVE  Head(q) \in Events /\ Tail(q) \in Seq(Events) /\ Len(Tail(q)) <= QueueSize
  BY <1>1, <1>3
<1> QED
  BY <1>2, <1>3

\* The empty queue.
LEMMA EmptyQueue == <<>> \in Seq(Events) /\ Len(<<>>) <= QueueSize
BY StreamAssumption

\* The initial state has the types.
LEMMA InitTypes == Init => TypeOK
<1>1. Init => file \in [status : Statuses, owned : BOOLEAN]
  BY DEF Init, Statuses
<1>2. Init => /\ pc \in OwnerAt /\ status \in Statuses /\ item \in Events
              /\ queue \in Seq(Events) /\ Len(queue) <= QueueSize
              /\ reading \in SUBSET Nat /\ blocked \in SUBSET (Nat \X Frames)
  BY EmptyQueue DEF Init, Statuses, OwnerAt, Events
<1>3. Init => /\ up \in BOOLEAN /\ stopping \in BOOLEAN /\ suspended \in BOOLEAN
              /\ wake \in BOOLEAN /\ spawned \in BOOLEAN /\ valid \in BOOLEAN
              /\ invalidated \in BOOLEAN /\ retrying \in BOOLEAN
              /\ peer \in Peers /\ startOld \in BOOLEAN /\ seenOld \in BOOLEAN
              /\ resumed \in BOOLEAN
  BY DEF Init, Peers
<1> QED
  BY <1>1, <1>2, <1>3 DEF Init, TypeOK

\* Every step preserves the types: one step of the proof per action.
LEMMA StepTypes == TypeOK /\ [Next]_vars => TypeOK'
<1> SUFFICES ASSUME TypeOK, [Next]_vars
             PROVE  TypeOK'
  OBVIOUS
<1> USE DEF TypeOK, Statuses, OwnerAt, Streaming, Frames, Events, Peers, hubVars, ownerVars,
            readerVars, timeVars, otherVars, bounds
<1>1. CASE Boot
  BY <1>1 DEF Boot, Written
<1>2. CASE Stop
  BY <1>2 DEF Stop, Exit
<1>3. CASE StopReturns
  <2>1. /\ up' \in BOOLEAN /\ stopping' \in BOOLEAN /\ suspended' \in BOOLEAN
         /\ wake' \in BOOLEAN /\ spawned' \in BOOLEAN /\ valid' \in BOOLEAN
         /\ invalidated' \in BOOLEAN /\ retrying' \in BOOLEAN /\ peer' \in Peers
         /\ startOld' \in BOOLEAN /\ seenOld' \in BOOLEAN /\ resumed' \in BOOLEAN
    BY <1>3 DEF StopReturns, Ends
  <2>2. /\ queue' \in Seq(Events) /\ Len(queue') <= QueueSize
        /\ file' \in [status : Statuses, owned : BOOLEAN]
    BY <1>3, EmptyQueue DEF StopReturns, Ends
  <2> QED
    BY <1>3, <2>1, <2>2 DEF StopReturns, Ends
<1>4. CASE Crash
  <2>1. /\ up' \in BOOLEAN /\ stopping' \in BOOLEAN /\ suspended' \in BOOLEAN
         /\ wake' \in BOOLEAN /\ spawned' \in BOOLEAN /\ valid' \in BOOLEAN
         /\ invalidated' \in BOOLEAN /\ retrying' \in BOOLEAN /\ peer' \in Peers
         /\ startOld' \in BOOLEAN /\ seenOld' \in BOOLEAN /\ resumed' \in BOOLEAN
    BY <1>4 DEF Crash, Exit, Ends
  <2>2. /\ queue' \in Seq(Events) /\ Len(queue') <= QueueSize
        /\ file' \in [status : Statuses, owned : BOOLEAN]
    BY <1>4, EmptyQueue DEF Crash, Ends
  <2> QED
    BY <1>4, <2>1, <2>2 DEF Crash, Exit, Ends
<1>5. CASE Top
  BY <1>5 DEF Top, Owner, Written, WakeOnWait
<1>6. CASE Begin
  <2>1. resumed' \in BOOLEAN
    BY <1>6 DEF Begin, Owner
  <2> QED
    BY <1>6, <2>1 DEF Begin, Owner
<1>7. CASE LateResponse
  BY <1>7 DEF LateResponse, Owner, Current
<1>8. CASE Install
  BY <1>8 DEF Install, Owner, Current
<1>9. CASE Spawn
  BY <1>9 DEF Spawn, Owner, Current, Written
<1>10. CASE Check
  BY <1>10 DEF Check, Owner, Expired
<1>11. CASE Poll
  BY <1>11, QueueKept DEF Poll, Owner
<1>12. CASE AcceptSnapshot
  <2>1. seenOld' \in BOOLEAN
    BY <1>12 DEF AcceptSnapshot, Owner, Current, Written
  <2> QED
    BY <1>12, <2>1 DEF AcceptSnapshot, Owner, Current, Written
<1>13. CASE Notified
  <2>1. valid' \in BOOLEAN /\ retrying' \in BOOLEAN
    BY <1>13 DEF Notified, Owner
  <2> QED
    BY <1>13, <2>1 DEF Notified, Owner
<1>14. CASE AcceptHeartbeat
  BY <1>14 DEF AcceptHeartbeat, Owner, Current, Written
<1>15. CASE Reject
  BY <1>15 DEF Reject, Owner, Current
<1>16. CASE MarkDisconnected
  BY <1>16 DEF MarkDisconnected, Owner, LossFile, LostStatus, Written
<1>17. CASE OwnerRevokes
  BY <1>17 DEF OwnerRevokes, Owner
<1>18. CASE Cleanup
  BY <1>18 DEF Cleanup, Owner
<1>19. CASE Decide
  <2>1. /\ wake' \in BOOLEAN /\ spawned' \in BOOLEAN /\ valid' \in BOOLEAN
         /\ invalidated' \in BOOLEAN /\ retrying' \in BOOLEAN /\ peer' \in Peers
         /\ startOld' \in BOOLEAN /\ seenOld' \in BOOLEAN
    BY <1>19 DEF Decide, Owner, EndAttempt, WakeOnWait
  <2>2. queue' \in Seq(Events) /\ Len(queue') <= QueueSize
    BY <1>19, EmptyQueue DEF Decide, EndAttempt
  <2> QED
    BY <1>19, <2>1, <2>2 DEF Decide, Owner, EndAttempt, WakeOnWait
<1>20. CASE Woken
  BY <1>20 DEF Woken, Owner
<1>21. CASE ClearWake
  <2>1. wake' \in BOOLEAN
    BY <1>21 DEF ClearWake, Owner
  <2> QED
    BY <1>21, <2>1 DEF ClearWake, Owner
<1>22. CASE WaitTimesOut
  BY <1>22 DEF WaitTimesOut, Owner
<1>23. CASE ConnectFails
  BY <1>23 DEF ConnectFails, Owner, Loss
<1>24. CASE NotifyRaises
  BY <1>24 DEF NotifyRaises, Owner, Loss
<1>25. CASE PeerFalters
  BY <1>25 DEF PeerFalters, Loss, Consumed
<1>26. CASE TimePasses
  <2>1. startOld' \in BOOLEAN /\ seenOld' \in BOOLEAN
    BY <1>26 DEF TimePasses
  <2> QED
    BY <1>26, <2>1 DEF TimePasses
<1>27. CASE Suspend
  <2>1. suspended' \in BOOLEAN /\ resumed' \in BOOLEAN
    BY <1>27 DEF Suspend, Sleeper
  <2> QED
    BY <1>27, <2>1 DEF Suspend, Sleeper
<1>28. CASE SuspendEffects
  BY <1>28 DEF SuspendEffects, Sleeper, Written
<1>29. CASE SleeperRevokes
  BY <1>29 DEF SleeperRevokes, Sleeper
<1>30. CASE Resume
  <2>1. suspended' \in BOOLEAN /\ resumed' \in BOOLEAN
    BY <1>30 DEF Resume, Sleeper
  <2> QED
    BY <1>30, <2>1 DEF Resume, Sleeper
<1>31. CASE ResumeEffects
  BY <1>31 DEF ResumeEffects, Sleeper, Written
<1>32. CASE AskStatus
  BY <1>32 DEF AskStatus, Written
<1>33. CASE AskerRevokes
  BY <1>33 DEF AskerRevokes
<1>34. ASSUME NEW g \in reading, NEW frame \in Frames, Read(g, frame)
       PROVE  /\ queue' \in Seq(Events) /\ Len(queue') <= QueueSize
              /\ reading' \in SUBSET Nat /\ blocked' \in SUBSET (Nat \X Frames)
  BY <1>34, QueueKept DEF Read, Room
<1>35. CASE \E g \in reading : ReadGood(g)
  <2>1. PICK g \in reading, frame \in Frames : Read(g, frame)
    BY <1>35 DEF ReadGood
  <2>2. UNCHANGED bounds
    BY <1>35 DEF ReadGood
  <2>3. /\ queue' \in Seq(Events) /\ Len(queue') <= QueueSize
        /\ reading' \in SUBSET Nat /\ blocked' \in SUBSET (Nat \X Frames)
    BY <1>34, <2>1
  <2>4. UNCHANGED <<hubVars, ownerVars, timeVars, otherVars>>
    BY <2>1 DEF Read
  <2> QED
    BY <2>2, <2>3, <2>4
<1>36. CASE \E g \in reading : ReadMalformed(g)
  <2>1. PICK g \in reading, frame \in Frames : Read(g, frame)
    BY <1>36 DEF ReadMalformed
  <2>2. losses' \in Nat /\ sleeps' \in Nat /\ exits' \in Nat
    BY <1>36 DEF ReadMalformed, Loss
  <2>3. /\ queue' \in Seq(Events) /\ Len(queue') <= QueueSize
        /\ reading' \in SUBSET Nat /\ blocked' \in SUBSET (Nat \X Frames)
    BY <1>34, <2>1
  <2>4. UNCHANGED <<hubVars, ownerVars, timeVars, otherVars>>
    BY <2>1 DEF Read
  <2> QED
    BY <2>2, <2>3, <2>4
<1>37. CASE \E g \in reading : PeerCloses(g)
  BY <1>37, QueueKept DEF PeerCloses, EndOfStream, Room, Loss
<1>38. CASE \E g \in Readers : ReaderStep(g)
  <2>1. PICK g \in Readers : ReaderStep(g)
    BY <1>38
  <2>2. g \in Nat
    BY DEF Readers
  <2>3. CASE \E frame \in Frames : Unblock(g, frame)
    <3>1. PICK frame \in Frames : Unblock(g, frame)
      BY <2>3
    <3>2. queue' \in Seq(Events) /\ Len(queue') <= QueueSize
      BY <3>1, QueueKept DEF Unblock, Room
    <3>3. reading' \in SUBSET Nat /\ blocked' \in SUBSET (Nat \X Frames)
      BY <2>2, <3>1 DEF Unblock
    <3>4. UNCHANGED <<hubVars, ownerVars, timeVars, otherVars, bounds>>
      BY <3>1 DEF Unblock
    <3> QED
      BY <3>2, <3>3, <3>4
  <2>4. CASE \E frame \in Frames : StopWaiting(g, frame)
    BY <2>4 DEF StopWaiting
  <2>5. CASE ReaderEnds(g)
    <3>1. queue' \in Seq(Events) /\ Len(queue') <= QueueSize
      <4>1. queue' = queue \/ (Room /\ queue' = Append(queue, "end"))
        BY <2>5 DEF ReaderEnds, EndOfStream
      <4> QED
        BY <4>1, QueueKept DEF Room
    <3>2. reading' \in SUBSET Nat
      BY <2>5 DEF ReaderEnds, EndOfStream
    <3>3. UNCHANGED <<hubVars, ownerVars, blocked, timeVars, otherVars, bounds>>
      BY <2>5 DEF ReaderEnds, EndOfStream
    <3> QED
      BY <3>1, <3>2, <3>3
  <2> QED
    BY <2>1, <2>3, <2>4, <2>5 DEF ReaderStep
<1>39. CASE UNCHANGED vars
  BY <1>39 DEF vars
<1> QED
  BY <1>1, <1>2, <1>3, <1>4, <1>5, <1>6, <1>7, <1>8, <1>9, <1>10, <1>11, <1>12, <1>13, <1>14, <1>15, <1>16, <1>17, <1>18, <1>19, <1>20, <1>21, <1>22, <1>23, <1>24, <1>25, <1>26, <1>27, <1>28, <1>29, <1>30, <1>31, <1>32, <1>33, <1>35, <1>36, <1>37,
     <1>38, <1>39
     DEF Next, Process, OwnerStep, Environment, SleeperStep

\* Every variable of the stream keeps its type.
THEOREM TypeCorrect == Spec => []TypeOK
BY InitTypes, StepTypes, PTL DEF Spec

-----------------------------------------------------------------------------
(* The implementation of HubAuthority.                                      *)

\* Why a snapshot is never accepted before the last loss was notified: the
\* stream is live only while its owner consumes the current generation (or is
\* stopping), a suspension keeps it from being live, and the sleep watcher owes
\* its notice only while suspended and alone.
AuthorityInv ==
    /\ status = "live" => \/ pc \in Streaming \cup {"failed"} /\ (stopping \/ attempt = gen)
                          \/ pc \in {"cleanup", "decide", "done"} /\ stopping
    /\ suspended => status = "suspended"
    /\ sleeper \in {"suspending", "suspendingLive", "revoking"} => suspended
    /\ pc = "revoking" => sleeper \notin {"suspendingLive", "revoking"}
    /\ asker = "idle"

LEMMA InitAuthority == Init => AuthorityInv /\ Authority!Init
BY DEF Init, AuthorityInv, AuthorityNow, Owed, Authority!Init, Streaming

\* A step of the readers, of time or of the network is none of HubAuthority's.
LEMMA NeutralStep ==
    ASSUME AuthorityInv, UNCHANGED <<status, pc, attempt, gen, stopping, suspended,
                                     sleeper, asker>>
    PROVE  AuthorityInv' /\ UNCHANGED <<AuthorityNow, ~suspended>>
BY DEF AuthorityInv, AuthorityNow, Owed

\* Every step preserves the invariant and is a step of HubAuthority, or none.
LEMMA StepAuthority ==
    ASSUME ~StatusThread, TypeOK, AuthorityInv, [Next]_vars
    PROVE  AuthorityInv' /\ [Authority!Next]_(Authority!vars)
<1> USE DEF hubVars, ownerVars, readerVars, timeVars, otherVars, bounds, Streaming
<1>1. CASE Stop
  BY <1>1 DEF Stop, Exit, AuthorityInv, AuthorityNow, Owed, Authority!vars, Authority!Next
<1>2. CASE StopReturns
  BY <1>2 DEF StopReturns, Ends, AuthorityInv, AuthorityNow, Owed, Authority!vars, Authority!Next, Authority!Shutdown
<1>3. CASE Crash
  BY <1>3 DEF Crash, Exit, Ends, AuthorityInv, AuthorityNow, Owed, Authority!vars, Authority!Next, Authority!Shutdown
<1>4. CASE Top
  BY <1>4 DEF Top, Owner, Written, WakeOnWait, AuthorityInv, AuthorityNow, Owed, Authority!vars, Authority!Next
<1>5. CASE Begin
  BY <1>5 DEF Begin, Owner, AuthorityInv, AuthorityNow, Owed, Authority!vars, Authority!Next
<1>6. CASE LateResponse
  BY <1>6 DEF LateResponse, Owner, Current, AuthorityInv, AuthorityNow, Owed, Authority!vars, Authority!Next
<1>7. CASE Install
  BY <1>7 DEF Install, Owner, Current, AuthorityInv, AuthorityNow, Owed, Authority!vars, Authority!Next
<1>8. CASE Spawn
  BY <1>8 DEF Spawn, Owner, Current, Written, AuthorityInv, AuthorityNow, Owed, Authority!vars, Authority!Next
<1>9. CASE Check
  BY <1>9 DEF Check, Owner, Expired, AuthorityInv, AuthorityNow, Owed, Authority!vars, Authority!Next
<1>10. CASE Poll
  BY <1>10 DEF Poll, Owner, AuthorityInv, AuthorityNow, Owed, Authority!vars, Authority!Next
<1>11. CASE AcceptSnapshot
  BY <1>11 DEF AcceptSnapshot, Owner, Current, Written, AuthorityInv, AuthorityNow, Owed, Authority!vars, Authority!Next, Authority!Grant
<1>12. CASE Notified
  BY <1>12 DEF Notified, Owner, AuthorityInv, AuthorityNow, Owed, Authority!vars, Authority!Next
<1>13. CASE AcceptHeartbeat
  BY <1>13 DEF AcceptHeartbeat, Owner, Current, Written, AuthorityInv, AuthorityNow, Owed, Authority!vars, Authority!Next
<1>14. CASE Reject
  BY <1>14 DEF Reject, Owner, Current, AuthorityInv, AuthorityNow, Owed, Authority!vars, Authority!Next
<1>15. CASE MarkDisconnected
  BY <1>15 DEF MarkDisconnected, Owner, LossFile, LostStatus, Written, AuthorityInv, AuthorityNow, Owed, Authority!vars, Authority!Next, Authority!Lose
<1>16. CASE OwnerRevokes
  BY <1>16 DEF OwnerRevokes, Owner, AuthorityInv, AuthorityNow, Owed, Authority!vars, Authority!Next, Authority!Revoke
<1>17. CASE Cleanup
  BY <1>17 DEF Cleanup, Owner, AuthorityInv, AuthorityNow, Owed, Authority!vars, Authority!Next
<1>18. CASE Decide
  BY <1>18 DEF Decide, Owner, EndAttempt, WakeOnWait, AuthorityInv, AuthorityNow, Owed, Authority!vars, Authority!Next
<1>19. CASE Woken
  BY <1>19 DEF Woken, Owner, AuthorityInv, AuthorityNow, Owed, Authority!vars, Authority!Next
<1>20. CASE ClearWake
  BY <1>20 DEF ClearWake, Owner, AuthorityInv, AuthorityNow, Owed, Authority!vars, Authority!Next
<1>21. CASE WaitTimesOut
  BY <1>21 DEF WaitTimesOut, Owner, AuthorityInv, AuthorityNow, Owed, Authority!vars, Authority!Next
<1>22. CASE ConnectFails
  BY <1>22 DEF ConnectFails, Owner, Loss, AuthorityInv, AuthorityNow, Owed, Authority!vars, Authority!Next
<1>23. CASE NotifyRaises
  BY <1>23 DEF NotifyRaises, Owner, Loss, AuthorityInv, AuthorityNow, Owed, Authority!vars, Authority!Next
<1>24. CASE Suspend
  BY <1>24 DEF Suspend, Sleeper, AuthorityInv, AuthorityNow, Owed, Authority!vars, Authority!Next, Authority!Lose, Authority!Sleep
<1>25. CASE SuspendEffects
  BY <1>25 DEF SuspendEffects, Sleeper, Written, AuthorityInv, AuthorityNow, Owed, Authority!vars, Authority!Next
<1>26. CASE SleeperRevokes
  BY <1>26 DEF SleeperRevokes, Sleeper, AuthorityInv, AuthorityNow, Owed, Authority!vars, Authority!Next, Authority!Revoke
<1>27. CASE Resume
  BY <1>27 DEF Resume, Sleeper, AuthorityInv, AuthorityNow, Owed, Authority!vars, Authority!Next, Authority!Wake
<1>28. CASE ResumeEffects
  BY <1>28 DEF ResumeEffects, Sleeper, Written, AuthorityInv, AuthorityNow, Owed, Authority!vars, Authority!Next
<1>29. CASE AskStatus
  BY <1>29 DEF AskStatus
<1>30. CASE AskerRevokes
  BY <1>30 DEF AskerRevokes, AuthorityInv
<1>31. CASE UNCHANGED <<status, pc, attempt, gen, stopping, suspended, sleeper, asker>>
  BY <1>31, NeutralStep DEF Authority!vars
<1>32. CASE Boot \/ PeerFalters \/ TimePasses \/ UNCHANGED vars
  BY <1>31, <1>32 DEF Boot, PeerFalters, TimePasses, vars
<1>33. CASE \E g \in reading : ReadGood(g) \/ ReadMalformed(g) \/ PeerCloses(g)
  BY <1>31, <1>33 DEF ReadGood, ReadMalformed, Read, PeerCloses, EndOfStream
<1>34. CASE \E g \in Readers : ReaderStep(g)
  BY <1>31, <1>34 DEF ReaderStep, Unblock, StopWaiting, ReaderEnds, EndOfStream
<1> QED
  BY <1>1, <1>2, <1>3, <1>4, <1>5, <1>6, <1>7, <1>8, <1>9, <1>10, <1>11, <1>12, <1>13,
     <1>14, <1>15, <1>16, <1>17, <1>18, <1>19, <1>20, <1>21, <1>22, <1>23, <1>24, <1>25,
     <1>26, <1>27, <1>28, <1>29, <1>30, <1>32, <1>33, <1>34
     DEF Next, Process, OwnerStep, Environment, SleeperStep

\* In the service as it is written, the threads of the stream implement
\* HubAuthority: the roster is presented as current only through a snapshot
\* accepted while awake, and each loss is notified before the next acceptance.
THEOREM StreamImplementsAuthority ==
    ASSUME ~StatusThread
    PROVE  Spec => ImplementsAuthority
<1>1. Init => AuthorityInv /\ Authority!Init
  BY InitAuthority
<1>2. TypeOK /\ AuthorityInv /\ [Next]_vars
          => AuthorityInv' /\ [Authority!Next]_(Authority!vars)
  BY StepAuthority
<1> QED
  BY <1>1, <1>2, TypeCorrect, PTL DEF Spec, ImplementsAuthority, Authority!Spec
-----------------------------------------------------------------------------
(* The status file.                                                         *)

\* Why the file does not outlive a live stream: it says "live" only while the
\* stream is, and the one delayed write that must reach it, that of a suspend,
\* carries the current generation, which no attempt that ends can end first.
FileInv ==
    /\ (file.status = "live" /\ file.owned)
           => status = "live" \/ sleeper = "suspendingLive" \/ stopping
    /\ sleeper \in {"suspending", "suspendingLive"} => stopping \/ sleeperGen = gen
    /\ suspended /\ (spawned \/ pc = "installed") => stopping \/ attempt < gen
    /\ spawned => pc \in Streaming \cup {"failed", "revoking", "cleanup", "decide"}
    /\ attempt <= gen

LEMMA InitFile == Init => FileInv
BY DEF Init, FileInv

\* A step that leaves alone what the invariant speaks of.
LEMMA FileNeutral ==
    ASSUME FileInv, UNCHANGED <<file, status, sleeper, sleeperGen, stopping, gen,
                                suspended, spawned, attempt, pc>>
    PROVE  FileInv'
BY DEF FileInv

\* Every step preserves the invariant.
LEMMA StepFile ==
    ASSUME ~StatusThread, TypeOK, AuthorityInv, FileInv, [Next]_vars
    PROVE  FileInv'
<1> USE DEF hubVars, ownerVars, readerVars, timeVars, otherVars, bounds, Streaming,
            TypeOK, AuthorityInv, FileInv
<1>1. CASE Boot
  BY <1>1 DEF Boot, Written
<1>2. CASE Stop
  BY <1>2 DEF Stop, Exit
<1>3. CASE StopReturns
  BY <1>3 DEF StopReturns, Ends
<1>4. CASE Crash
  <2>1. ~file'.owned
    BY <1>4 DEF Crash
  <2> QED
    BY <1>4, <2>1 DEF Crash, Ends
<1>5. CASE Top
  BY <1>5 DEF Top, Owner, Written, WakeOnWait
<1>6. CASE Begin
  BY <1>6 DEF Begin, Owner
<1>7. CASE LateResponse
  BY <1>7 DEF LateResponse, Owner, Current
<1>8. CASE Install
  BY <1>8 DEF Install, Owner, Current
<1>9. CASE Spawn
  BY <1>9 DEF Spawn, Owner, Current, Written
<1>10. CASE Check
  BY <1>10 DEF Check, Owner, Expired
<1>11. CASE Poll
  BY <1>11 DEF Poll, Owner
<1>12. CASE AcceptSnapshot
  BY <1>12 DEF AcceptSnapshot, Owner, Current, Written
<1>13. CASE Notified
  BY <1>13 DEF Notified, Owner
<1>14. CASE AcceptHeartbeat
  BY <1>14 DEF AcceptHeartbeat, Owner, Current, Written
<1>15. CASE Reject
  BY <1>15 DEF Reject, Owner, Current
<1>16. CASE MarkDisconnected
  BY <1>16 DEF MarkDisconnected, Owner, LossFile, LostStatus, Written
<1>17. CASE OwnerRevokes
  BY <1>17 DEF OwnerRevokes, Owner
<1>18. CASE Cleanup
  BY <1>18 DEF Cleanup, Owner
<1>19. CASE Decide
  BY <1>19 DEF Decide, Owner, EndAttempt, WakeOnWait
<1>20. CASE Woken
  BY <1>20 DEF Woken, Owner
<1>21. CASE ClearWake
  BY <1>21 DEF ClearWake, Owner
<1>22. CASE WaitTimesOut
  BY <1>22 DEF WaitTimesOut, Owner
<1>23. CASE ConnectFails
  BY <1>23 DEF ConnectFails, Owner, Loss
<1>24. CASE NotifyRaises
  BY <1>24 DEF NotifyRaises, Owner, Loss
<1>25. CASE Suspend
  BY <1>25 DEF Suspend, Sleeper
<1>26. CASE SuspendEffects
  BY <1>26 DEF SuspendEffects, Sleeper, Written
<1>27. CASE SleeperRevokes
  BY <1>27 DEF SleeperRevokes, Sleeper
<1>28. CASE Resume
  BY <1>28 DEF Resume, Sleeper
<1>29. CASE ResumeEffects
  BY <1>29 DEF ResumeEffects, Sleeper, Written
<1>30. CASE AskStatus
  BY <1>30 DEF AskStatus, Written
<1>31. CASE AskerRevokes
  BY <1>31 DEF AskerRevokes
<1>32. CASE UNCHANGED <<file, status, sleeper, sleeperGen, stopping, gen, suspended,
                      spawned, attempt, pc>>
  BY <1>32, FileNeutral
<1>33. CASE PeerFalters \/ TimePasses \/ UNCHANGED vars
  BY <1>32, <1>33 DEF PeerFalters, TimePasses, vars
<1>34. CASE \E g \in reading : ReadGood(g) \/ ReadMalformed(g) \/ PeerCloses(g)
  BY <1>32, <1>34 DEF ReadGood, ReadMalformed, Read, PeerCloses, EndOfStream
<1>35. CASE \E g \in Readers : ReaderStep(g)
  BY <1>32, <1>35 DEF ReaderStep, Unblock, StopWaiting, ReaderEnds, EndOfStream
<1> QED
  BY <1>1, <1>2, <1>3, <1>4, <1>5, <1>6, <1>7, <1>8, <1>9, <1>10, <1>11, <1>12,
     <1>13, <1>14, <1>15, <1>16, <1>17, <1>18, <1>19, <1>20, <1>21, <1>22, <1>23, <1>24,
     <1>25, <1>26, <1>27, <1>28, <1>29, <1>30, <1>31, <1>33, <1>34, <1>35
     DEF Next, Process, OwnerStep, Environment, SleeperStep

\* The bell does not show a stream live that is not, except for the moment of a
\* suspend and while the service stops.
THEOREM ShownIsTrue ==
    ASSUME ~StatusThread
    PROVE  Spec => []ShownLiveIsLive
<1>1. Init => AuthorityInv /\ FileInv
  BY InitAuthority, InitFile
<1>2. TypeOK /\ AuthorityInv /\ FileInv /\ [Next]_vars => AuthorityInv' /\ FileInv'
  BY StepAuthority, StepFile
<1>3. FileInv => ShownLiveIsLive
  BY DEF FileInv, ShownLiveIsLive, Shown
<1> QED
  BY <1>1, <1>2, <1>3, TypeCorrect, PTL DEF Spec
=============================================================================
