------------------------- MODULE AttentionTagsProofs -------------------------
(***************************************************************************)
(* Proofs about AttentionTags, for every set of windows and agents and     *)
(* with no bound on what the user, the Hub, commands and faults do: the    *)
(* type invariant; that tags have owners, and the list follows the focus;  *)
(* what an orderly stop leaves; and that the service never takes a tag     *)
(* from an owner and never writes a cleared entry back.                    *)
(***************************************************************************)
EXTENDS AttentionTags, SequenceTheorems, TLAPS

\* An event added to the queue, and the queue without its head.
LEMMA QueueKept ==
    ASSUME NEW q \in Seq(Event), NEW e \in Event
    PROVE  /\ Append(q, e) \in Seq(Event)
           /\ q # <<>> => Head(q) \in Event /\ Tail(q) \in Seq(Event)
BY DEF Event

\* The compositor adds an event, or nothing.
LEMMA EmitTypes ==
    ASSUME TypeOK, NEW kind \in {"urgent", "focus", "close"}, NEW w \in Windows,
           Emit(kind, w)
    PROVE  events' \in Seq(Event)
<1>1. <<kind, w>> \in Event /\ events \in Seq(Event)
  BY DEF TypeOK, Event
<1> QED
  BY <1>1, QueueKept DEF Emit

\* Windows are what matches and their changes are made of.
LEMMA MatchTypes ==
    ASSUME TypeOK
    PROVE  /\ NoMatch \in Matches
           /\ Matched(matches) \subseteq Windows
           /\ \A ws : Unmatch(ws) \in Matches
           /\ \A a \in Agents : [matches EXCEPT ![a] = NoWindow] \in Matches
           /\ Idle \in [Threads -> Windows \cup {NoWindow}]
BY DEF TypeOK, Matches, NoMatch, Matched, Unmatch, Idle

\* The initial state has the types.
LEMMA InitTypes == Init => TypeOK
<1>1. Init => /\ running \in BOOLEAN /\ bright \in BOOLEAN
  BY DEF Init
<1>2. Init => events \in Seq(Event)
  BY DEF Init
<1>3. Init => /\ matches \in Matches /\ target \in [Threads -> Windows \cup {NoWindow}]
  BY DEF Init, NoMatch, Matches, Idle
<1> QED
  BY <1>1, <1>2, <1>3 DEF Init, TypeOK, Holders

\* The process ends.
LEMMA EndTypes ==
    ASSUME TypeOK, Ends
    PROVE  /\ pc' \in {"down", "connecting", "restoring", "listening", "exiting"}
           /\ running' \in BOOLEAN /\ windows' \subseteq Windows /\ matches' \in Matches
           /\ target' \in [Threads -> Windows \cup {NoWindow}]
           /\ lock' \in Holders \cup {"free"}
           /\ live' \subseteq Windows /\ active' \in Windows \cup {NoWindow}
           /\ bright' \in BOOLEAN /\ job' \in SUBSET (Agents \X Windows)
           /\ probed' \in SUBSET Matches /\ events' \in Seq(Event)
<1>1. running' \in BOOLEAN /\ bright' \in BOOLEAN
  BY DEF Ends
<1> QED
  BY <1>1, MatchTypes DEF Ends, Leave

\* A thread in the section of attend has a window to attend.
Attending == lock \in Threads => target[lock] # NoWindow

\* Every step preserves the types: one step of the proof per action.
LEMMA StepTypes == TypeOK /\ Attending /\ [Next]_vars => TypeOK'
<1> SUFFICES ASSUME TypeOK, Attending, [Next]_vars
             PROVE  TypeOK'
  OBVIOUS
<1> USE DEF TypeOK, desktop, tags, memory, section, worker, main, cli, bounds,
            Holders, Enter, Leave, ClearTags
<1>1. ASSUME NEW w \in Windows, Urgent(w) PROVE TypeOK'
  BY <1>1, EmitTypes DEF Urgent
<1>2. ASSUME NEW w \in Windows, Focus(w) PROVE TypeOK'
  BY <1>2, EmitTypes DEF Focus, Act
<1>3. ASSUME NEW w \in Windows, Close(w) PROVE TypeOK'
  BY <1>3, EmitTypes DEF Close, Act
<1>4. ASSUME NEW w \in Windows, Notified(w) PROVE TypeOK'
  BY <1>4 DEF Notified, Threads
<1>5. ASSUME NEW w \in Windows, CommandClears(w) PROVE TypeOK'
  BY <1>5 DEF CommandClears
<1>6. CASE Unfocus
  BY <1>6 DEF Unfocus, Act
<1>7. CASE Probe
  <2>1. \A m \in [Agents -> open \cup {NoWindow}] : m \in Matches
    BY DEF Matches
  <2> QED
    BY <1>7, <2>1 DEF Probe, Change
<1>8. CASE Disconnect
  BY <1>8, MatchTypes DEF Disconnect, Change
<1>9. CASE SocketLost
  BY <1>9 DEF SocketLost, Exit
<1>10. CASE Stop
  <2>1. running' \in BOOLEAN
    BY <1>10 DEF Stop
  <2> QED
    BY <1>10, <2>1 DEF Stop, Exit
<1>11. CASE Crash
  BY <1>11, EndTypes DEF Crash, Exit
<1>12. ASSUME NEW w \in Windows, HandleUrgent(w) PROVE TypeOK'
  BY <1>12, QueueKept DEF HandleUrgent, NextEvent, Threads
<1>13. ASSUME NEW w \in Windows, HandleFocus(w) PROVE TypeOK'
  BY <1>13, QueueKept DEF HandleFocus, NextEvent, Remaining, Reload, AgentsOf
<1>14. ASSUME NEW w \in Windows, HandleClose(w) PROVE TypeOK'
  BY <1>14, QueueKept, MatchTypes DEF HandleClose, NextEvent, Remaining, Reload
<1>15. CASE Boot
  BY <1>15 DEF Boot
<1>16. CASE Connect
  BY <1>16 DEF Connect
<1>17. CASE RestoreReads
  BY <1>17 DEF RestoreReads, Reload
<1>18. CASE RestoreTags
  BY <1>18, MatchTypes DEF RestoreTags, Restored
<1>19. CASE Cleanup
  BY <1>19, MatchTypes DEF Cleanup
<1>20. CASE Exits
  BY <1>20, EndTypes DEF Exits
<1>21. ASSUME NEW t \in Threads, AttendLocked(t) PROVE TypeOK'
  BY <1>21 DEF AttendLocked, Reload, StillWanted
<1>22. ASSUME NEW t \in Threads, AttendTags(t) PROVE TypeOK'
  <2>1. target[t] \in Windows \cup {NoWindow} /\ t \in DOMAIN target
    BY <1>22
  <2>2. lock = t => target[t] \in Windows
    BY <1>22 DEF Attending
  <2> QED
    BY <1>22, <2>1, <2>2 DEF AttendTags
<1>23. ASSUME NEW m \in probed, ApplyMatches(m) PROVE TypeOK'
  BY <1>23 DEF ApplyMatches, Matches, Matched
<1>24. ASSUME NEW a \in Agents, NEW w \in Windows, FocusAcknowledged(a, w) PROVE TypeOK'
  BY <1>24, MatchTypes DEF FocusAcknowledged
<1>25. CASE ApplyTags
  BY <1>25 DEF ApplyTags
<1>26. CASE FocusRejected
  BY <1>26 DEF FocusRejected
<1>27. CASE CommandWrites
  BY <1>27 DEF CommandWrites
<1>28. CASE PulseReads
  BY <1>28, MatchTypes DEF PulseReads, Reload, Matched, Matches
<1>29. CASE PulseTags
  BY <1>29 DEF PulseTags, Repaired
<1>30. CASE UNCHANGED vars
  BY <1>30 DEF vars
<1> QED
  BY <1>1, <1>2, <1>3, <1>4, <1>5, <1>6, <1>7, <1>8, <1>9, <1>10, <1>11, <1>12, <1>13,
     <1>14, <1>15, <1>16, <1>17, <1>18, <1>19, <1>20, <1>21, <1>22, <1>23, <1>24, <1>25,
     <1>26, <1>27, <1>28, <1>29, <1>30
  DEF Next, World, MainStep, WorkerStep, AttendStep

\* Every step preserves Attending: the actions that touch the lock or a target.
LEMMA StepAttending == TypeOK /\ Attending /\ [Next]_vars => Attending'
<1> SUFFICES ASSUME TypeOK, Attending, [Next]_vars
             PROVE  Attending'
  OBVIOUS
<1> USE DEF Attending, section, Enter, Leave
<1>1. CASE UNCHANGED <<lock, target>>
  BY <1>1
<1>2. CASE lock' \in {"free", "pulse", "worker", "restore"}
  BY <1>2 DEF Threads
<1>3. ASSUME NEW w \in Windows, Notified(w) \/ HandleUrgent(w) PROVE Attending'
  <2>1. w # NoWindow
    BY TagsAssumption
  <2>2. lock' = lock /\ \A t \in Threads : target'[t] \in {w, target[t]}
    BY <1>3 DEF Notified, HandleUrgent, TypeOK
  <2> QED
    BY <2>1, <2>2
<1>4. ASSUME NEW t \in Threads, AttendLocked(t) PROVE Attending'
  BY <1>4 DEF AttendLocked, ThreadLockFree, StateLockFree, TypeOK, Threads
<1>5. ASSUME \/ Unfocus \/ Probe \/ Disconnect \/ SocketLost \/ Stop \/ Boot \/ Connect
             \/ Cleanup \/ FocusRejected \/ CommandWrites \/ UNCHANGED vars
             \/ \E w \in Windows : \/ Urgent(w) \/ Focus(w) \/ Close(w) \/ CommandClears(w)
                                   \/ HandleFocus(w) \/ HandleClose(w)
                                   \/ \E a \in Agents : FocusAcknowledged(a, w)
      PROVE  UNCHANGED <<lock, target>>
  BY <1>5 DEF Urgent, Focus, Close, CommandClears, Unfocus, Probe, Disconnect, SocketLost,
     Stop, HandleFocus, HandleClose, Boot, Connect, Cleanup, FocusRejected, CommandWrites,
     FocusAcknowledged, vars
<1>6. ASSUME \/ Crash \/ Exits \/ RestoreReads \/ RestoreTags \/ ApplyTags \/ PulseReads
             \/ PulseTags \/ (\E m \in probed : ApplyMatches(m))
             \/ (\E t \in Threads : AttendTags(t))
      PROVE  lock' \in {"free", "pulse", "worker", "restore"}
  BY <1>6 DEF Crash, Exits, Ends, RestoreReads, RestoreTags, ApplyTags, PulseReads,
     PulseTags, ApplyMatches, AttendTags
<1> QED
  BY <1>1, <1>2, <1>3, <1>4, <1>5, <1>6
  DEF Next, World, MainStep, WorkerStep, AttendStep

\* Every variable keeps its type: tags are on open windows, matches and
\* captured jobs name known agents and windows.
THEOREM TypeCorrect == Spec => []TypeOK
<1>1. Init => TypeOK /\ Attending
  BY InitTypes DEF Init, Attending, Threads
<1>2. TypeOK /\ Attending /\ [Next]_vars => (TypeOK /\ Attending)'
  BY StepTypes, StepAttending
<1> QED
  BY <1>1, <1>2, PTL DEF Spec
-----------------------------------------------------------------------------
(* The invariant behind the safety properties.                              *)

\* What carries a tag is owned, was cleared by a command, or was left by a
\* crash.
NoStrays == (steady \cup pulsing) \ cleared \subseteq OwnedNow \cup left

\* The service's copy of the list: it holds what is stored, and more only where
\* a command has cleared.  A service that is down or exiting has no matches, and
\* nobody of it acts any more.
CopyFollows ==
    /\ windows \ current \subseteq cleared
    /\ pc = "listening" => current \subseteq windows /\ left = {}
    /\ pc \in {"down", "exiting"} =>
            /\ ~running /\ lock = "free" /\ windows = {} /\ matches = NoMatch
            /\ job = {} /\ probed = {}
    /\ pc = "down" => target = Idle
    /\ pc = "exiting" => command = NoWindow /\ current = {}
    /\ (pc # "down" /\ ~running) => job = {} /\ probed = {}

\* What a section relies on between its two steps: no command is half done, the
\* copy is what is stored, the windows it goes on with are the owners.
Sections ==
    /\ command # NoWindow => command \in cleared
    /\ lock \in Threads \cup {"pulse", "restore"} => command = NoWindow
    /\ lock \in Threads \cup {"pulse"} => windows = current
    /\ lock = "pulse" => live = windows \cup Matched(matches)
    /\ lock = "worker" => live = Matched(matches)
    /\ lock = "restore" => pc = "restoring" /\ open \subseteq live /\ windows \subseteq current

\* A job is about the window its agent is matched with, and supersedes a refresh.
JobsMatch ==
    /\ \A a \in Agents, w \in Windows :
            <<a, w>> \in job => matches[a] \in {w, NoWindow}
    /\ job = {} \/ probed = {}

\* A window whose close event is on its way is closed.
ClosedEvents ==
    \A i \in 1..Len(events) : events[i][1] = "close" => events[i][2] \notin open

OwnInv == NoStrays /\ CopyFollows /\ Sections /\ JobsMatch /\ ClosedEvents

Base == TypeOK /\ Attending /\ OwnInv

\* The initial state satisfies it.
LEMMA InitOwn == Init => OwnInv
BY DEF Init, OwnInv, NoStrays, CopyFollows, Sections, JobsMatch, ClosedEvents, Threads

\* Every step preserves NoStrays.
LEMMA StepStrays == Base /\ [Next]_vars => NoStrays'
<1> SUFFICES ASSUME Base, [Next]_vars
             PROVE  NoStrays'
  OBVIOUS
<1> USE DEF NoStrays, OwnedNow
<1>0. TypeOK /\ Attending /\ NoStrays /\ CopyFollows /\ Sections /\ JobsMatch /\ ClosedEvents
  BY DEF Base, OwnInv
<1>1. CASE UNCHANGED <<steady, pulsing, current, matches, cleared, left>>
  BY <1>0, <1>1 DEF Matched
<1>2. ASSUME NEW w \in Windows, Close(w) PROVE NoStrays'
  BY <1>0, <1>2 DEF Close, ClearTags, memory, cli, Matched
<1>3. ASSUME NEW t \in Threads, AttendTags(t) PROVE NoStrays'
  BY <1>0, <1>3 DEF AttendTags, Sections, cli, Matched
<1>4. ASSUME NEW w \in Windows, HandleFocus(w) PROVE NoStrays'
  BY <1>0, <1>4 DEF HandleFocus, ClearTags, Unowned, Owned, Remaining, Reload, cli, Matched
<1>5. ASSUME NEW w \in Windows, HandleClose(w) PROVE NoStrays'
  <2>1. w \notin open
    BY <1>0, <1>5 DEF HandleClose, NextEvent, ClosedEvents, TypeOK
  <2>2. Matched(matches) \subseteq Matched(matches') \cup {w}
    BY <1>5 DEF HandleClose, Matched, Unmatch
  <2> QED
    BY <1>0, <1>5, <2>1, <2>2 DEF HandleClose, Remaining, Reload, cli, tags, TypeOK
<1>6. ASSUME NEW w \in Windows, CommandClears(w) PROVE NoStrays'
  BY <1>0, <1>6 DEF CommandClears, ClearTags, memory, Matched
<1>7. CASE CommandWrites
  BY <1>0, <1>7 DEF CommandWrites, Sections, tags, memory, Matched
<1>8. CASE PulseReads
  <2>1. Matched(matches) \cap open \subseteq Matched(matches')
    BY <1>8 DEF PulseReads, Matched, Unmatch
  <2> QED
    BY <1>0, <1>8, <2>1 DEF PulseReads, Reload, tags, cli, TypeOK
<1>9. CASE PulseTags
  BY <1>0, <1>9 DEF PulseTags, Repaired, Sections, memory, cli, Matched
<1>10. ASSUME NEW m \in probed, ApplyMatches(m) PROVE NoStrays'
  <2>1. \A v \in Matched(matches) \ Matched(m) : v \in windows \/ v \notin steady' \cup pulsing'
    BY <1>10 DEF ApplyMatches, ClearTags, Unowned, Owned
  <2>2. steady' \cup pulsing' \subseteq steady \cup pulsing
    BY <1>10 DEF ApplyMatches, ClearTags
  <2> QED
    BY <1>0, <1>10, <2>1, <2>2 DEF ApplyMatches, CopyFollows, cli
<1>11. ASSUME NEW a \in Agents, NEW w \in Windows, FocusAcknowledged(a, w) PROVE NoStrays'
  <2>1. Matched(matches) \subseteq Matched(matches') \cup {w}
    BY <1>0, <1>11 DEF FocusAcknowledged, JobsMatch, Matched, TypeOK, Matches
  <2>2. w \in windows \/ w \in Matched(matches') \/ w \notin steady' \cup pulsing'
    BY <1>11 DEF FocusAcknowledged, ClearTags, Unowned, Owned
  <2>3. steady' \cup pulsing' \subseteq steady \cup pulsing
    BY <1>11 DEF FocusAcknowledged, ClearTags
  <2> QED
    BY <1>0, <1>11, <2>1, <2>2, <2>3 DEF FocusAcknowledged, CopyFollows, cli
<1>12. CASE ApplyTags
  BY <1>0, <1>12 DEF ApplyTags, Sections, memory, cli, Matched
<1>13. CASE Disconnect
  <2>1. \A v \in Matched(matches) : v \in windows \/ v \notin steady' \cup pulsing'
    BY <1>13 DEF Disconnect, ClearTags, LostTags, Unowned, Owned, Matched, NoMatch
  <2>2. steady' \cup pulsing' \subseteq steady \cup pulsing
    BY <1>13 DEF Disconnect, ClearTags
  <2> QED
    BY <1>0, <1>13, <2>1, <2>2 DEF Disconnect, CopyFollows, cli
<1>14. CASE RestoreTags
  <2>1. Matched(matches') = Matched(matches)
    BY <1>14 DEF RestoreTags, memory
  <2>2. open \subseteq live /\ steady \cup pulsing \subseteq open
    BY <1>0, <1>14 DEF RestoreTags, Sections, TypeOK
  <2> QED
    BY <1>14, <2>1, <2>2 DEF RestoreTags, Residue, Restored, Unowned, Owned
<1>15. CASE Cleanup
  BY <1>0, <1>15 DEF Cleanup, ClearTags, Reload, cli
<1>16. CASE Crash
  BY <1>16 DEF Crash, tags
<1>17. CASE Exits
  <2>1. matches' = matches
    BY <1>0, <1>17 DEF Exits, Ends, CopyFollows
  <2> QED
    BY <1>1, <1>17, <2>1 DEF Exits, tags, cli
<1>18. ASSUME \/ Unfocus \/ Probe \/ SocketLost \/ Stop \/ Boot \/ Connect \/ RestoreReads
              \/ FocusRejected \/ UNCHANGED vars
              \/ \E w \in Windows : Urgent(w) \/ Focus(w) \/ Notified(w) \/ HandleUrgent(w)
              \/ \E t \in Threads : AttendLocked(t)
       PROVE  UNCHANGED <<steady, pulsing, current, matches, cleared, left>>
  BY <1>18 DEF Unfocus, Probe, SocketLost, Stop, Boot, Connect, RestoreReads, FocusRejected,
     vars, Urgent, Focus, Notified, HandleUrgent, AttendLocked, tags, memory, cli
<1> QED
  BY <1>1, <1>2, <1>3, <1>4, <1>5, <1>6, <1>7, <1>8, <1>9, <1>10, <1>11, <1>12, <1>13,
     <1>14, <1>15, <1>16, <1>17, <1>18
  DEF Next, World, MainStep, WorkerStep, AttendStep

\* Every step preserves CopyFollows.
LEMMA StepCopy == Base /\ [Next]_vars => CopyFollows'
<1> SUFFICES ASSUME Base, [Next]_vars
             PROVE  CopyFollows'
  OBVIOUS
<1> USE DEF CopyFollows
<1>0. TypeOK /\ Attending /\ CopyFollows /\ Sections /\ JobsMatch
  BY DEF Base, OwnInv
<1>1. CASE UNCHANGED <<pc, running, windows, current, matches, cleared, left, lock, job, probed,
                       target, command>>
  BY <1>0, <1>1
<1>2. ASSUME NEW w \in Windows, Notified(w) \/ HandleUrgent(w) PROVE CopyFollows'
  BY <1>0, <1>2 DEF Notified, HandleUrgent, NextEvent, section, memory, worker, cli, main
<1>3. ASSUME NEW w \in Windows, CommandClears(w) PROVE CopyFollows'
  BY <1>0, <1>3 DEF CommandClears, section, memory, worker, main
<1>4. CASE Probe
  BY <1>0, <1>4 DEF Probe, section, memory, cli, main
<1>5. CASE Disconnect
  BY <1>0, <1>5 DEF Disconnect, section, cli, main
<1>6. CASE SocketLost
  BY <1>0, <1>6 DEF SocketLost, section, memory, worker, cli
<1>7. CASE Stop
  BY <1>0, <1>7 DEF Stop, section, memory, cli
<1>8. CASE Crash
  BY <1>0, <1>8 DEF Crash, Ends, Leave
<1>9. ASSUME NEW w \in Windows, HandleFocus(w) PROVE CopyFollows'
  BY <1>0, <1>9 DEF HandleFocus, NextEvent, Remaining, Reload, section, cli, main
<1>10. ASSUME NEW w \in Windows, HandleClose(w) PROVE CopyFollows'
  BY <1>0, <1>10 DEF HandleClose, NextEvent, Remaining, Reload, section, worker, cli, main
<1>11. CASE Boot
  BY <1>0, <1>11 DEF Boot, section, memory, worker, cli
<1>12. CASE Connect
  BY <1>0, <1>12 DEF Connect, section, memory, worker, cli
<1>13. CASE RestoreReads
  BY <1>0, <1>13 DEF RestoreReads, Reload, Enter, worker, cli, main
<1>14. CASE RestoreTags
  BY <1>0, <1>14 DEF RestoreTags, Sections, Leave, memory, worker
<1>15. CASE Cleanup
  <2>1. job = {} /\ probed = {}
    BY <1>0, <1>15 DEF Cleanup
  <2> QED
    BY <1>0, <1>15, <2>1 DEF Cleanup, StateLockFree, section, worker, cli
<1>16. CASE Exits
  BY <1>0, <1>16 DEF Exits, Ends, Leave, cli
<1>17. ASSUME NEW t \in Threads, AttendLocked(t) PROVE CopyFollows'
  <2>1. pc # "down"
    BY <1>0, <1>17 DEF AttendLocked, Idle
  <2> QED
    BY <1>0, <1>17, <2>1 DEF AttendLocked, Reload, StillWanted, section, worker, cli, main
<1>18. ASSUME NEW t \in Threads, AttendTags(t) PROVE CopyFollows'
  <2>1. t # "free" /\ pc \notin {"down", "exiting"}
    BY <1>0, <1>18 DEF AttendTags, Threads
  <2> QED
    BY <1>0, <1>18, <2>1 DEF AttendTags, Sections, worker, cli, main
<1>19. ASSUME NEW m \in probed, ApplyMatches(m) PROVE CopyFollows'
  BY <1>0, <1>19 DEF ApplyMatches, cli, main
<1>20. ASSUME NEW a \in Agents, NEW w \in Windows, FocusAcknowledged(a, w) PROVE CopyFollows'
  BY <1>0, <1>20 DEF FocusAcknowledged, section, cli, main
<1>21. CASE ApplyTags
  BY <1>0, <1>21 DEF ApplyTags, Leave, memory, worker, cli, main
<1>22. CASE FocusRejected
  BY <1>0, <1>22 DEF FocusRejected, section, memory, cli, main
<1>23. CASE CommandWrites
  BY <1>0, <1>23 DEF CommandWrites, Sections, section, memory, worker, main
<1>24. CASE PulseReads
  BY <1>0, <1>24 DEF PulseReads, Reload, worker, cli, main
<1>25. CASE PulseTags
  BY <1>0, <1>25 DEF PulseTags, Leave, memory, worker, cli, main
<1>26. ASSUME \/ Unfocus \/ UNCHANGED vars
              \/ \E w \in Windows : Urgent(w) \/ Focus(w) \/ Close(w)
       PROVE  UNCHANGED <<pc, running, windows, current, matches, cleared, left, lock, job,
                          probed, target, command>>
  BY <1>26 DEF Unfocus, vars, Urgent, Focus, Close, section, memory, worker, cli, main
<1> QED
  BY <1>1, <1>2, <1>3, <1>4, <1>5, <1>6, <1>7, <1>8, <1>9, <1>10, <1>11, <1>12, <1>13,
     <1>14, <1>15, <1>16, <1>17, <1>18, <1>19, <1>20, <1>21, <1>22, <1>23, <1>24, <1>25,
     <1>26
  DEF Next, World, MainStep, WorkerStep, AttendStep

\* Every step preserves Sections.
LEMMA StepSections == Base /\ [Next]_vars => Sections'
<1> SUFFICES ASSUME Base, [Next]_vars
             PROVE  Sections'
  OBVIOUS
<1> USE DEF Sections, Threads
<1>0. TypeOK /\ Attending /\ CopyFollows /\ Sections
  BY DEF Base, OwnInv
<1>1. CASE /\ UNCHANGED <<pc, windows, current, matches, lock, live, command>>
           /\ open' \subseteq open /\ cleared \subseteq cleared'
  BY <1>0, <1>1 DEF Matched
<1>2. CASE /\ lock' = "free"
           /\ UNCHANGED command /\ cleared \subseteq cleared'
  BY <1>0, <1>2
<1>3. ASSUME NEW w \in Windows, CommandClears(w) PROVE Sections'
  BY <1>0, <1>3 DEF CommandClears, section, memory, main, desktop, Matched
<1>4. CASE CommandWrites
  BY <1>0, <1>4 DEF CommandWrites, section, memory, main, desktop, Matched
<1>5. CASE SocketLost \/ Boot \/ Connect
  BY <1>0, <1>5 DEF SocketLost, Boot, Connect, section, memory, cli, desktop, Matched
<1>6. CASE RestoreReads
  BY <1>0, <1>6 DEF RestoreReads, StateLockFree, Reload, Enter, cli, desktop, main
<1>7. ASSUME NEW t \in Threads, AttendLocked(t) PROVE Sections'
  BY <1>0, <1>7 DEF AttendLocked, StateLockFree, Reload, Enter, section, cli, desktop, main,
     Matched
<1>8. ASSUME NEW m \in probed, ApplyMatches(m) PROVE Sections'
  BY <1>0, <1>8 DEF ApplyMatches, Enter, cli, Matched
<1>9. CASE PulseReads
  BY <1>0, <1>9 DEF PulseReads, StateLockFree, Reload, Enter, cli, Matched
<1>10. ASSUME \/ Unfocus \/ Probe \/ Stop \/ FocusRejected \/ UNCHANGED vars
              \/ \E w \in Windows : \/ Urgent(w) \/ Focus(w) \/ Close(w) \/ Notified(w)
                                    \/ HandleUrgent(w)
       PROVE  /\ UNCHANGED <<pc, windows, current, matches, lock, live, command>>
              /\ open' \subseteq open /\ cleared \subseteq cleared'
  BY <1>10 DEF Unfocus, Probe, Stop, FocusRejected, vars, Urgent, Focus, Close, Notified,
     HandleUrgent, desktop, section, memory, cli, main
<1>11. ASSUME \/ Disconnect \/ Crash \/ RestoreTags \/ Cleanup \/ Exits \/ ApplyTags
              \/ PulseTags
              \/ \E w \in Windows : \/ HandleFocus(w) \/ HandleClose(w)
                                    \/ \E a \in Agents : FocusAcknowledged(a, w)
              \/ \E t \in Threads : AttendTags(t)
       PROVE  /\ lock' = "free"
              /\ UNCHANGED command /\ cleared \subseteq cleared'
  BY <1>11 DEF Disconnect, Crash, RestoreTags, Cleanup, Exits, ApplyTags, PulseTags,
     HandleFocus, HandleClose, FocusAcknowledged, AttendTags, Ends, Leave, ThreadLockFree,
     StateLockFree, section, cli
<1> QED
  BY <1>1, <1>2, <1>3, <1>4, <1>5, <1>6, <1>7, <1>8, <1>9, <1>10, <1>11
  DEF Next, World, MainStep, WorkerStep, AttendStep

\* Every step preserves JobsMatch.
LEMMA StepJobs == Base /\ [Next]_vars => JobsMatch'
<1> SUFFICES ASSUME Base, [Next]_vars
             PROVE  JobsMatch'
  OBVIOUS
<1> USE DEF JobsMatch
<1>0. TypeOK /\ JobsMatch
  BY DEF Base, OwnInv
<1>1. CASE job' = {}
  BY <1>1
<1>2. CASE UNCHANGED <<matches, worker>>
  BY <1>0, <1>2 DEF worker
<1>3. ASSUME NEW w \in Windows, HandleFocus(w) PROVE JobsMatch'
  BY <1>0, <1>3 DEF HandleFocus, AgentsOf, worker
<1>4. ASSUME NEW w \in Windows, HandleClose(w) PROVE JobsMatch'
  <2>1. \A a \in Agents : matches'[a] \in {matches[a], NoWindow}
    BY <1>4 DEF HandleClose, Unmatch
  <2> QED
    BY <1>0, <1>4, <2>1 DEF HandleClose, worker
<1>5. ASSUME NEW m \in probed, ApplyMatches(m) PROVE JobsMatch'
  BY <1>0, <1>1, <1>5 DEF ApplyMatches
<1>6. CASE PulseReads
  <2>1. \A a \in Agents : matches'[a] \in {matches[a], NoWindow}
    BY <1>6 DEF PulseReads, Unmatch
  <2> QED
    BY <1>0, <1>6, <2>1 DEF PulseReads, worker
<1>7. ASSUME \/ Unfocus \/ SocketLost \/ UNCHANGED vars \/ Boot \/ Connect \/ RestoreReads
             \/ RestoreTags \/ ApplyTags \/ CommandWrites \/ PulseTags
             \/ \E w \in Windows : \/ Urgent(w) \/ Focus(w) \/ Close(w) \/ Notified(w)
                                   \/ CommandClears(w) \/ HandleUrgent(w)
             \/ \E t \in Threads : AttendLocked(t) \/ AttendTags(t)
      PROVE  UNCHANGED <<matches, worker>>
  BY <1>7 DEF Unfocus, SocketLost, vars, Boot, Connect, RestoreReads, RestoreTags, ApplyTags,
     CommandWrites, PulseTags, Urgent, Focus, Close, Notified, CommandClears, HandleUrgent,
     AttendLocked, AttendTags, memory
<1>8. ASSUME \/ Probe \/ Disconnect \/ Stop \/ Crash \/ Exits \/ FocusRejected
             \/ \E a \in Agents, w \in Windows : FocusAcknowledged(a, w)
      PROVE  job' = {}
  BY <1>8 DEF Probe, Disconnect, Stop, Crash, Exits, Ends, FocusRejected, FocusAcknowledged
<1>9. CASE Cleanup
  <2>1. \A a \in Agents : matches'[a] = NoWindow
    BY <1>9 DEF Cleanup, NoMatch
  <2> QED
    BY <1>0, <1>9, <2>1 DEF Cleanup, worker
<1> QED
  BY <1>1, <1>2, <1>3, <1>4, <1>5, <1>6, <1>7, <1>8, <1>9
  DEF Next, World, MainStep, WorkerStep, AttendStep

\* The events after an event is added, and after the first is taken.
LEMMA EventsAfter ==
    ASSUME events \in Seq(Event)
    PROVE  /\ \A kind, w : Emit(kind, w) =>
                 \/ UNCHANGED events /\ ~Connected
                 \/ /\ Len(events') = Len(events) + 1
                    /\ events'[Len(events) + 1] = <<kind, w>>
                    /\ \A i \in 1..Len(events) : events'[i] = events[i]
           /\ (events # <<>> /\ events' = Tail(events)) =>
                 /\ Len(events) \in Nat \ {0} /\ Len(events') = Len(events) - 1
                 /\ Head(events) = events[1]
                 /\ \A i \in 1..Len(events') : events'[i] = events[i + 1]
<1>1. ASSUME NEW kind, NEW w, Emit(kind, w), Connected
      PROVE  /\ Len(events') = Len(events) + 1
             /\ events'[Len(events) + 1] = <<kind, w>>
             /\ \A i \in 1..Len(events) : events'[i] = events[i]
  BY <1>1, AppendProperties DEF Emit
<1>2. ASSUME NEW kind, NEW w, Emit(kind, w), ~Connected
      PROVE  UNCHANGED events
  BY <1>2 DEF Emit
<1>3. ASSUME events # <<>>, events' = Tail(events)
      PROVE  /\ Len(events) \in Nat \ {0} /\ Len(events') = Len(events) - 1
             /\ Head(events) = events[1]
             /\ \A i \in 1..Len(events') : events'[i] = events[i + 1]
  BY <1>3, HeadTailProperties, EmptySeq, LenProperties
<1> QED
  BY <1>1, <1>2, <1>3

\* Steps that leave the compositor's events alone, but for a socket that is lost.
LEMMA QuietSteps ==
    ASSUME \/ Unfocus \/ Probe \/ Disconnect \/ Stop \/ UNCHANGED vars \/ Boot \/ Connect
           \/ RestoreReads \/ RestoreTags \/ ApplyTags \/ FocusRejected \/ CommandWrites
           \/ PulseReads \/ PulseTags \/ SocketLost \/ Crash \/ Cleanup \/ Exits
           \/ \E w \in Windows : Notified(w) \/ CommandClears(w)
           \/ \E t \in Threads : AttendLocked(t) \/ AttendTags(t)
           \/ \E m \in probed : ApplyMatches(m)
           \/ \E a \in Agents, w \in Windows : FocusAcknowledged(a, w)
    PROVE  (events' = <<>> \/ UNCHANGED events) /\ UNCHANGED open
BY DEF Unfocus, Probe, Disconnect, Stop, vars, Boot, Connect, RestoreReads, RestoreTags,
   ApplyTags, FocusRejected, CommandWrites, PulseReads, PulseTags, SocketLost, Crash, Cleanup,
   Exits, Notified, CommandClears, AttendLocked, AttendTags, ApplyMatches, FocusAcknowledged,
   Ends, desktop

\* Every step preserves ClosedEvents.
LEMMA StepClosed == Base /\ [Next]_vars => ClosedEvents'
<1> SUFFICES ASSUME Base, [Next]_vars
             PROVE  ClosedEvents'
  OBVIOUS
<1> USE DEF ClosedEvents
<1>0. TypeOK /\ ClosedEvents /\ events \in Seq(Event)
  BY DEF Base, OwnInv, TypeOK
<1>1. CASE (events' = <<>> \/ UNCHANGED events) /\ UNCHANGED open
  BY <1>0, <1>1
<1>2. ASSUME NEW w \in Windows, Urgent(w) \/ Focus(w) PROVE ClosedEvents'
  <2>1. PICK kind \in {"urgent", "focus"} : Emit(kind, w)
    BY <1>2 DEF Urgent, Focus
  <2>2. open' = open
    BY <1>2 DEF Urgent, Focus, desktop
  <2> QED
    BY <1>0, <2>1, <2>2, EventsAfter
<1>3. ASSUME NEW w \in Windows, Close(w) PROVE ClosedEvents'
  <2>1. Emit("close", w) /\ open' = open \ {w}
    BY <1>3 DEF Close
  <2>2. \/ UNCHANGED events
        \/ /\ Len(events') = Len(events) + 1
           /\ events'[Len(events) + 1] = <<"close", w>>
           /\ \A i \in 1..Len(events) : events'[i] = events[i]
    BY <1>0, <2>1, EventsAfter
  <2>3. Len(events) \in Nat
    BY <1>0, LenProperties
  <2> QED
    BY <1>0, <2>1, <2>2, <2>3
<1>4. ASSUME NEW w \in Windows, HandleUrgent(w) \/ HandleFocus(w) \/ HandleClose(w)
      PROVE  ClosedEvents'
  <2>1. open' = open /\ events # <<>> /\ events' = Tail(events)
    BY <1>4 DEF HandleUrgent, HandleFocus, HandleClose, NextEvent, desktop
  <2>2. /\ Len(events) \in Nat \ {0} /\ Len(events') = Len(events) - 1
        /\ \A i \in 1..Len(events') : events'[i] = events[i + 1]
    BY <1>0, <2>1, EventsAfter
  <2>3. \A i \in 1..Len(events') : i + 1 \in 1..Len(events)
    BY <2>2
  <2> QED
    BY <1>0, <2>1, <2>2, <2>3
<1> QED
  BY <1>1, <1>2, <1>3, <1>4, QuietSteps DEF Next, World, MainStep, WorkerStep, AttendStep

\* Every step preserves the invariant.
LEMMA StepBase == Base /\ [Next]_vars => Base'
BY StepTypes, StepAttending, StepStrays, StepCopy, StepSections, StepJobs, StepClosed
DEF Base, OwnInv

\* So it holds in every reachable state.
LEMMA AlwaysBase == Spec => []Base
<1>1. Init => Base
  BY InitTypes, InitOwn DEF Init, Base, Attending, Threads
<1> QED
  BY <1>1, StepBase, PTL DEF Spec
-----------------------------------------------------------------------------
(* The tags.                                                                *)

\* Between two sections of a listening service every tag has an owner, but for
\* windows a command cleared.
THEOREM TagsAreOwned == Spec => []NoOrphanTag
<1>1. Base => NoOrphanTag
  BY DEF Base, OwnInv, NoStrays, CopyFollows, NoOrphanTag
<1> QED
  BY <1>1, AlwaysBase, PTL

\* An orderly stop leaves no entry and no tag, but for windows a command cleared
\* and what a crash left before.
THEOREM CleanStop == Spec => []StopIsClean
<1>1. Base => StopIsClean
  BY DEF Base, OwnInv, NoStrays, CopyFollows, StopIsClean, OwnedNow, Matched, NoMatch
<1> QED
  BY <1>1, AlwaysBase, PTL

\* An entry that is written to the list is written by attend: no section brings
\* back what a command or a focus removed.
THEOREM NothingResurrected == Spec => NoResurrection
<1>1. Base /\ [Next]_vars =>
        [\A w \in current' \ current : \E t \in Threads : target[t] = w /\ lock = t]_vars
  <2> SUFFICES ASSUME Base, [Next]_vars, NEW w \in current' \ current
               PROVE  \E t \in Threads : target[t] = w /\ lock = t
    BY DEF vars
  <2>1. Sections
    BY DEF Base, OwnInv
  <2>2. ASSUME NEW t \in Threads, AttendTags(t)
        PROVE  \E u \in Threads : target[u] = w /\ lock = u
    BY <2>1, <2>2 DEF AttendTags, Sections
  <2>3. ASSUME \/ Unfocus \/ Probe \/ Disconnect \/ SocketLost \/ Stop \/ Crash \/ Boot
               \/ Connect \/ RestoreReads \/ RestoreTags \/ Cleanup \/ Exits \/ ApplyTags
               \/ FocusRejected \/ CommandWrites \/ PulseReads \/ PulseTags
               \/ UNCHANGED vars
               \/ \E v \in Windows : \/ Urgent(v) \/ Focus(v) \/ Close(v) \/ Notified(v)
                                     \/ CommandClears(v) \/ HandleUrgent(v)
                                     \/ HandleFocus(v) \/ HandleClose(v)
                                     \/ \E a \in Agents : FocusAcknowledged(a, v)
               \/ \E t \in Threads : AttendLocked(t)
               \/ \E m \in probed : ApplyMatches(m)
        PROVE  current' \subseteq current
    BY <2>1, <2>3 DEF Unfocus, Probe, Disconnect, SocketLost, Stop, Crash, Boot, Connect,
       RestoreReads, RestoreTags, Cleanup, Exits, ApplyTags, FocusRejected, CommandWrites,
       PulseReads, PulseTags, vars, Urgent, Focus, Close, Notified, CommandClears,
       HandleUrgent, HandleFocus, HandleClose, FocusAcknowledged, AttendLocked, ApplyMatches,
       Sections, Remaining, Reload
  <2> QED
    BY <2>2, <2>3 DEF Next, World, MainStep, WorkerStep, AttendStep
<1> QED
  BY <1>1, AlwaysBase, PTL DEF Spec, NoResurrection

\* A listening service takes the steady tag only off windows without an owner;
\* a command may do otherwise.
THEOREM OwnedTagsKept == Spec => ServiceKeepsOwnedTags
<1>1. Base /\ [Next]_vars =>
        [\A w \in steady \ steady' :
            (pc = "listening" /\ w \in open' /\ command' # w) => w \notin OwnedNow']_vars
  <2> SUFFICES ASSUME Base, [Next]_vars, NEW w \in steady \ steady',
                      pc = "listening", w \in open', command' # w
               PROVE  w \notin OwnedNow'
    BY DEF vars
  <2> USE DEF OwnedNow
  <2>0. CopyFollows
    BY DEF Base, OwnInv
  <2>1. ASSUME NEW v \in Windows, Close(v) PROVE w \notin OwnedNow'
    BY <2>1 DEF Close, ClearTags
  <2>2. ASSUME NEW v \in Windows, HandleFocus(v) PROVE w \notin OwnedNow'
    BY <2>2 DEF HandleFocus, ClearTags, Unowned, Owned, memory
  <2>3. ASSUME NEW v \in Windows, CommandClears(v) PROVE w \notin OwnedNow'
    BY <2>3 DEF CommandClears, ClearTags
  <2>4. ASSUME NEW m \in probed, ApplyMatches(m) PROVE w \notin OwnedNow'
    BY <2>0, <2>4 DEF ApplyMatches, ClearTags, Unowned, Owned, CopyFollows
  <2>5. ASSUME NEW a \in Agents, NEW v \in Windows, FocusAcknowledged(a, v)
        PROVE  w \notin OwnedNow'
    BY <2>0, <2>5 DEF FocusAcknowledged, ClearTags, Unowned, Owned, CopyFollows
  <2>6. CASE Disconnect
    BY <2>0, <2>6 DEF Disconnect, ClearTags, LostTags, Unowned, Owned, CopyFollows
  <2>7. CASE Cleanup
    BY <2>7 DEF Cleanup, Matched, NoMatch, Base, TypeOK, Matches
  <2>8. ASSUME \/ Unfocus \/ Probe \/ SocketLost \/ Stop \/ Crash \/ Boot \/ Connect
               \/ RestoreReads \/ Exits \/ ApplyTags \/ FocusRejected \/ CommandWrites
               \/ PulseReads \/ PulseTags \/ UNCHANGED vars
               \/ \E v \in Windows : \/ Urgent(v) \/ Focus(v) \/ Notified(v)
                                     \/ HandleUrgent(v) \/ HandleClose(v)
               \/ \E t \in Threads : AttendLocked(t) \/ AttendTags(t)
        PROVE  steady \subseteq steady'
    BY <2>8 DEF Unfocus, Probe, SocketLost, Stop, Crash, Boot, Connect, RestoreReads, Exits,
       ApplyTags, FocusRejected, CommandWrites, PulseReads, PulseTags, Repaired, vars, Urgent,
       Focus, Notified, HandleUrgent, HandleClose, AttendLocked, AttendTags, tags
  <2>9. CASE RestoreTags
    BY <2>9 DEF RestoreTags, Base, OwnInv, Sections
  <2> QED
    BY <2>1, <2>2, <2>3, <2>4, <2>5, <2>6, <2>7, <2>8, <2>9
    DEF Next, World, MainStep, WorkerStep, AttendStep
<1> QED
  BY <1>1, AlwaysBase, PTL DEF Spec, ServiceKeepsOwnedTags
-----------------------------------------------------------------------------
(* The list and the focus.                                                  *)

\* The compositor has said, or is about to be heard saying, that w is focused.
Pending(w) == \E i \in 1..Len(events) : events[i] = <<"focus", w>>

\* What the list is, or will be when restore_tags stores it.
Listed == IF lock = "restore" THEN windows ELSE current

\* The focused window is not listed and nobody is about to list it, unless its
\* focus is still to be handled.
FocusInv ==
    (pc = "listening" \/ lock = "restore") =>
        \/ Pending(focus)
        \/ focus \notin Listed /\ (lock \in Threads => target[lock] # focus)

\* An empty workspace is not listed.
LEMMA NothingFocused ==
    ASSUME Base PROVE NoWindow \notin Listed /\ (lock \in Threads => target[lock] # NoWindow)
BY TagsAssumption DEF Base, TypeOK, Attending, Listed

\* A focus that is to be handled stays so when an event is added, and when one
\* that is not about it is taken.
LEMMA PendingKept ==
    ASSUME Base, NEW v, Pending(v), NEW kind, NEW w
    PROVE  /\ Emit(kind, w) => Pending(v)'
           /\ (NextEvent(kind, w) /\ <<kind, w>> # <<"focus", v>>) => Pending(v)'
<1>1. events \in Seq(Event)
  BY DEF Base, TypeOK
<1>2. PICK i \in 1..Len(events) : events[i] = <<"focus", v>>
  BY DEF Pending
<1>3. Len(events) \in Nat
  BY <1>1, LenProperties
<1>4. ASSUME Emit(kind, w) PROVE Pending(v)'
  <2>1. i \in 1..Len(events') /\ events'[i] = events[i]
    BY <1>1, <1>2, <1>3, <1>4, EventsAfter
  <2> QED
    BY <1>2, <2>1 DEF Pending
<1>5. ASSUME NextEvent(kind, w), <<kind, w>> # <<"focus", v>> PROVE Pending(v)'
  <2>1. /\ Len(events') = Len(events) - 1 /\ Head(events) = events[1]
        /\ \A j \in 1..Len(events') : events'[j] = events[j + 1]
    BY <1>1, <1>5, EventsAfter DEF NextEvent
  <2>2. i # 1
    BY <1>2, <1>5, <2>1 DEF NextEvent
  <2>3. i - 1 \in 1..Len(events') /\ (i - 1) + 1 = i
    BY <1>2, <1>3, <2>1, <2>2
  <2>4. events'[i - 1] = <<"focus", v>>
    BY <1>2, <2>1, <2>3
  <2> QED
    BY <2>3, <2>4 DEF Pending
<1> QED
  BY <1>4, <1>5

\* Every step preserves FocusInv.
LEMMA StepFocus == Base /\ FocusInv /\ [Next]_vars => FocusInv'
<1> SUFFICES ASSUME Base, FocusInv, [Next]_vars, pc' = "listening" \/ lock' = "restore"
             PROVE  \/ Pending(focus)'
                    \/ focus' \notin Listed' /\ (lock' \in Threads => target'[lock'] # focus')
  BY DEF FocusInv
<1> DEFINE Goal == \/ Pending(focus)'
                   \/ focus' \notin Listed' /\ (lock' \in Threads => target'[lock'] # focus')
           Quiet == lock \in Threads => target[lock] # focus
<1>0. /\ TypeOK /\ Attending /\ Sections /\ CopyFollows
      /\ "restore" \notin Threads /\ "free" \notin Threads /\ "pulse" \notin Threads
      /\ "worker" \notin Threads
  BY DEF Base, OwnInv, Threads
<1>1. lock = "restore" => pc = "restoring"
  BY <1>0 DEF Sections
<1>2. ASSUME UNCHANGED <<events, focus, lock, target, windows>>, current' \subseteq current,
             pc' = pc
      PROVE  Goal
  BY <1>2 DEF FocusInv, Pending, Listed
<1>3. ASSUME NEW w \in Windows, Urgent(w) PROVE Goal
  <2>1. UNCHANGED <<focus, lock, target, windows, current, pc>> /\ Emit("urgent", w)
    BY <1>3 DEF Urgent, desktop, section, memory, main
  <2>2. Pending(focus) => Pending(focus)'
    BY <2>1, PendingKept
  <2> QED
    BY <2>1, <2>2 DEF FocusInv, Listed
<1>4. ASSUME NEW w \in Windows, Focus(w) PROVE Goal
  <2>1. /\ Emit("focus", w) /\ focus' = w /\ Connected
    BY <1>1, <1>4 DEF Focus, section, main, Connected
  <2>2. events' = Append(events, <<"focus", w>>)
    BY <2>1 DEF Emit
  <2>3. Len(events') \in 1..Len(events') /\ events'[Len(events')] = <<"focus", w>>
    BY <1>0, <2>2, AppendProperties, LenProperties DEF TypeOK, Event
  <2> QED
    BY <2>1, <2>3 DEF Pending
<1>5. ASSUME UNCHANGED <<lock, target, windows, current>>, focus' = NoWindow PROVE Goal
  BY <1>5, NothingFocused DEF Listed
<1>6. ASSUME NEW w \in Windows, Close(w) PROVE Goal
  <2>1. UNCHANGED <<lock, target, windows, current, pc>> /\ Emit("close", w)
        /\ focus' \in {focus, NoWindow}
    BY <1>6 DEF Close, section, memory, main
  <2>2. Pending(focus) /\ focus' = focus => Pending(focus)'
    BY <2>1, PendingKept
  <2> QED
    BY <1>5, <2>1, <2>2 DEF FocusInv, Listed
<1>7. ASSUME NEW w \in Windows, Notified(w) PROVE Goal
  <2>1. /\ UNCHANGED <<events, focus, lock, windows, current, pc>>
        /\ target["notifications"] = NoWindow
        /\ target' = [target EXCEPT !["notifications"] = w]
    BY <1>7 DEF Notified, desktop, section, memory, main
  <2>2. lock \in Threads => target'[lock] = target[lock]
    BY <1>0, <2>1 DEF Attending, TypeOK
  <2> QED
    BY <2>1, <2>2 DEF FocusInv, Pending, Listed
<1>8. ASSUME NEW w \in Windows, HandleUrgent(w) PROVE Goal
  <2>1. /\ UNCHANGED <<focus, lock, windows, current, pc>>
        /\ NextEvent("urgent", w) /\ target["events"] = NoWindow
        /\ target' \in {target, [target EXCEPT !["events"] = w]}
    BY <1>8 DEF HandleUrgent, NextEvent, desktop, section, memory, main
  <2>2. lock \in Threads => target'[lock] = target[lock]
    BY <1>0, <2>1 DEF Attending, TypeOK
  <2>3. Pending(focus) => Pending(focus)'
    BY <2>1, PendingKept
  <2> QED
    BY <2>1, <2>2, <2>3 DEF FocusInv, Listed
<1>9. ASSUME NEW w \in Windows, HandleFocus(w) PROVE Goal
  <2>1. /\ UNCHANGED <<focus, target, lock>> /\ lock = "free" /\ pc = "listening"
        /\ current' = current \ {w} /\ NextEvent("focus", w)
    BY <1>9 DEF HandleFocus, NextEvent, StateLockFree, Remaining, Reload, desktop, section
  <2>2. CASE focus = w
    BY <1>0, <2>1, <2>2 DEF Listed
  <2>3. CASE focus # w
    <3>1. Pending(focus) => Pending(focus)'
      BY <2>1, <2>3, PendingKept
    <3> QED
      BY <1>0, <2>1, <3>1 DEF FocusInv, Listed
  <2> QED
    BY <2>2, <2>3
<1>10. ASSUME NEW w \in Windows, HandleClose(w) PROVE Goal
  <2>1. /\ UNCHANGED <<focus, target, lock>> /\ lock = "free" /\ pc = "listening"
        /\ current' = current \ {w} /\ NextEvent("close", w)
    BY <1>10 DEF HandleClose, NextEvent, StateLockFree, Remaining, Reload, desktop, section
  <2>2. Pending(focus) => Pending(focus)'
    BY <2>1, PendingKept
  <2> QED
    BY <1>0, <2>1, <2>2 DEF FocusInv, Listed
<1>11. ASSUME NEW t \in Threads, AttendLocked(t) PROVE Goal
  <2>1. /\ UNCHANGED <<events, focus, current, pc>> /\ lock = "free"
        /\ \/ lock' = t /\ target' = target /\ target[t] # focus
           \/ lock' = lock
    BY <1>11 DEF AttendLocked, StateLockFree, StillWanted, Enter, section, desktop, main
  <2> QED
    BY <1>0, <2>1 DEF FocusInv, Pending, Listed
<1>12. ASSUME NEW t \in Threads, AttendTags(t) PROVE Goal
  <2>1. /\ UNCHANGED <<events, focus, pc>> /\ lock = t /\ lock' = "free"
        /\ current' = windows \cup {target[t]}
    BY <1>12 DEF AttendTags, Leave, desktop, main
  <2>2. windows = current
    BY <1>0, <2>1 DEF Sections
  <2> QED
    BY <1>0, <2>1, <2>2 DEF FocusInv, Pending, Listed
<1>13. CASE PulseReads
  <2>1. /\ UNCHANGED <<events, focus, pc>> /\ lock = "free" /\ lock' = "pulse"
        /\ current' \subseteq current
    BY <1>13 DEF PulseReads, StateLockFree, Enter, Reload, desktop, main
  <2> QED
    BY <1>0, <2>1 DEF FocusInv, Pending, Listed
<1>14. CASE PulseTags \/ ApplyTags \/ \E m \in probed : ApplyMatches(m)
  <2>1. /\ UNCHANGED <<events, focus, pc, current>> /\ lock # "restore"
        /\ lock' \in {"free", "worker"}
    BY <1>14 DEF PulseTags, ApplyTags, ApplyMatches, ThreadLockFree, Enter, Leave, desktop, main
  <2> QED
    BY <1>0, <2>1 DEF FocusInv, Pending, Listed
<1>15. CASE RestoreReads
  <2>1. UNCHANGED <<events, focus>> /\ lock' = "restore" /\ focus \notin windows'
    BY <1>15 DEF RestoreReads, Enter, desktop
  <2> QED
    BY <1>0, <2>1 DEF Listed
<1>16. CASE RestoreTags
  <2>1. UNCHANGED <<events, focus>> /\ lock = "restore" /\ lock' = "free" /\ current' = windows
    BY <1>16 DEF RestoreTags, Leave, desktop
  <2> QED
    BY <1>0, <2>1 DEF FocusInv, Pending, Listed
<1>17. ASSUME \/ Probe \/ Disconnect \/ Stop \/ FocusRejected \/ CommandWrites
              \/ UNCHANGED vars
              \/ \E w \in Windows : \/ CommandClears(w)
                                    \/ \E a \in Agents : FocusAcknowledged(a, w)
       PROVE  /\ UNCHANGED <<events, focus, lock, target, windows>> /\ current' \subseteq current
              /\ pc' = pc
  BY <1>17 DEF Probe, Disconnect, Stop, FocusRejected, CommandWrites, vars, CommandClears,
     FocusAcknowledged, desktop, section, memory, main
<1>18. CASE Unfocus
  BY <1>5, <1>18 DEF Unfocus, section, memory
<1>19. ~(SocketLost \/ Crash \/ Boot \/ Connect \/ Cleanup \/ Exits)
  BY <1>1 DEF SocketLost, Crash, Boot, Connect, Cleanup, Exits, Ends, Leave, section,
     StateLockFree
<1> QED
  BY <1>2, <1>3, <1>4, <1>6, <1>7, <1>8, <1>9, <1>10, <1>11, <1>12, <1>13, <1>14, <1>15,
     <1>16, <1>17, <1>18, <1>19
  DEF Next, World, MainStep, WorkerStep, AttendStep

\* In a settled service the focused window is not listed, whatever raced with
\* its focus.
THEOREM FocusUnlists == Spec => []FocusedIsNotListed
<1>1. Init => FocusInv
  BY DEF Init, FocusInv
<1>2. Base /\ FocusInv => FocusedIsNotListed
  BY DEF FocusInv, FocusedIsNotListed, Settled, StateLockFree, Pending, Listed
<1> QED
  BY <1>1, <1>2, AlwaysBase, StepFocus, PTL DEF Spec
=============================================================================
