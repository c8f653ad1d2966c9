---------------------------- MODULE AttentionTags ----------------------------
(***************************************************************************)
(* The windows that ask for attention, and the compositor tags that show   *)
(* it, as payload/window-attention keeps them: the list of windows in      *)
(* current.json and its copy in the service, the windows matched with Hub  *)
(* agents, and the steady and the pulse tag.  The actors are the service's *)
(* main thread (compositor events), notification thread, pulse thread and  *)
(* resolver worker, the Hub threads that call clear_hub_matches, commands  *)
(* that clear a window, the compositor and its user.                       *)
(*                                                                         *)
(* The sections of the service under state_lock hold its thread lock and   *)
(* the file lock; those of the worker and of clear_hub_matches hold the    *)
(* thread lock only, those of a command the file lock only.  A section is  *)
(* one step, or two when it acts on what it asked the compositor before.   *)
(* An address stands for one window; a tag on a closed window has no       *)
(* effect.                                                                 *)
(***************************************************************************)
EXTENDS Naturals, Sequences, FiniteSets

CONSTANTS Windows,    \* addresses
          NoWindow,
          Agents,     \* identities of Hub agents
          MaxEvents,  \* bound on compositor events not yet handled
          MaxSignals, \* bound on urgent hints and notifications
          MaxActs,    \* bound on what the user does with windows
          MaxClears,  \* bound on windows cleared by commands
          MaxChanges, \* bound on probes of the worker and lost Hub streams
          MaxExits    \* bound on stops, crashes and lost sockets

ASSUME TagsAssumption ==
    /\ NoWindow \notin Windows
    /\ {MaxEvents, MaxSignals, MaxActs, MaxClears, MaxChanges, MaxExits} \subseteq Nat

VARIABLES
    open, focus,      \* the compositor's windows, and the active one
    steady, pulsing,  \* windows with the tag TAG, with the tag PULSE_TAG
    events,           \* compositor events on their way to the main thread
    current,          \* current.json
    pc,               \* where the main thread is
    running,          \* self.running
    windows,          \* self.windows
    matches,          \* self.hub_matches: the window of each agent, or NoWindow
    target,           \* target[t]: the window thread t is about to attend
    lock,             \* who holds the thread lock between two steps
    live, active,     \* the windows it goes on with, and the active one it saw
    bright,           \* bright
    job,              \* <<agent, window>> queued for revalidation, in a set
    probed,           \* the matches the worker is about to apply, in a set
    command,          \* the window a command is clearing
    cleared,          \* history: windows cleared by commands
    left,             \* history: tags a crash left, until the next restore
    signals, acts, changes, exits  \* how many so far

desktop == <<open, focus>>
tags    == <<steady, pulsing>>
memory  == <<windows, matches>>
section == <<lock, live, active>>
worker  == <<job, probed>>
main    == <<pc, running>>
cli     == <<command, cleared, left>>
bounds  == <<signals, acts, changes, exits>>
vars == <<desktop, tags, events, current, main, memory, target, section, bright, worker,
          cli, bounds>>

Threads == {"events", "notifications"}
Holders == Threads \cup {"pulse", "worker", "restore"}

Matches == [Agents -> Windows \cup {NoWindow}]
NoMatch == [a \in Agents |-> NoWindow]

\* The matched windows, the agents of a window, and matches without a window.
Matched(m) == {m[a] : a \in Agents} \ {NoWindow}
AgentsOf(w) == {a \in Agents : matches[a] = w}
Unmatch(ws) == [a \in Agents |-> IF matches[a] \in ws THEN NoWindow ELSE matches[a]]

Event == {"urgent", "focus", "close"} \X Windows

TypeOK ==
    /\ open \subseteq Windows /\ focus \in open \cup {NoWindow}
    /\ steady \subseteq open /\ pulsing \subseteq open
    /\ events \in Seq(Event)
    /\ current \subseteq Windows /\ windows \subseteq Windows
    /\ matches \in Matches
    /\ pc \in {"down", "connecting", "restoring", "listening", "exiting"}
    /\ running \in BOOLEAN
    /\ target \in [Threads -> Windows \cup {NoWindow}]
    /\ lock \in Holders \cup {"free"}
    /\ live \subseteq Windows /\ active \in Windows \cup {NoWindow}
    /\ bright \in BOOLEAN
    /\ job \in SUBSET (Agents \X Windows) /\ probed \in SUBSET Matches
    /\ command \in Windows \cup {NoWindow} /\ cleared \subseteq Windows /\ left \subseteq Windows
    /\ signals \in Nat /\ acts \in Nat /\ changes \in Nat /\ exits \in Nat

Idle == [t \in Threads |-> NoWindow]

Init ==
    /\ open = Windows /\ focus = NoWindow
    /\ steady = {} /\ pulsing = {} /\ events = <<>> /\ current = {}
    /\ pc = "down" /\ running = FALSE
    /\ windows = {} /\ matches = NoMatch /\ target = Idle
    /\ lock = "free" /\ live = {} /\ active = NoWindow
    /\ bright = FALSE /\ job = {} /\ probed = {}
    /\ command = NoWindow /\ cleared = {} /\ left = {}
    /\ signals = 0 /\ acts = 0 /\ changes = 0 /\ exits = 0

\* with thread_lock, and with state_lock.
ThreadLockFree == lock = "free"
StateLockFree == lock = "free" /\ command = NoWindow

\* Mutant of Reload: the copy in memory is kept.
ReloadSkipped == windows

\* reload_state.
Reload == current

\* Mutant of Owned: the local list is forgotten.
OwnedByHub(list, m, w) == w \in Matched(m)

\* _attention_owned.
Owned(list, m, w) == w \in list \cup Matched(m)

\* _clear_unowned_tags of every window of ws, with these owners.
Unowned(ws, list, m) == {w \in ws : ~Owned(list, m, w)}
ClearTags(ws) == steady' = steady \ ws /\ pulsing' = pulsing \ ws

\* The section asked the compositor what it needs, and goes on.
Enter(holder, ws, w) == lock' = holder /\ live' = ws /\ active' = w
Leave == lock' = "free" /\ live' = {} /\ active' = NoWindow
-----------------------------------------------------------------------------
(* The compositor and its user.                                             *)

Act == acts < MaxActs /\ acts' = acts + 1 /\ UNCHANGED <<signals, changes, exits>>

\* The service reads the compositor's socket.
Connected == pc \in {"restoring", "listening"}

Emit(kind, w) ==
    IF Connected THEN /\ Len(events) < MaxEvents
                      /\ events' = Append(events, <<kind, w>>)
    ELSE UNCHANGED events

Urgent(w) ==
    /\ w \in open /\ signals < MaxSignals
    /\ signals' = signals + 1
    /\ Emit("urgent", w)
    /\ UNCHANGED <<desktop, tags, current, main, memory, target, section, bright, worker,
                   cli, acts, changes, exits>>

Focus(w) ==
    /\ w \in open /\ focus # w /\ Act
    /\ focus' = w
    /\ Emit("focus", w)
    /\ UNCHANGED <<open, tags, current, main, memory, target, section, bright, worker, cli>>

\* An empty workspace.
Unfocus ==
    /\ focus # NoWindow /\ Act
    /\ focus' = NoWindow
    /\ UNCHANGED <<open, tags, events, current, main, memory, target, section, bright,
                   worker, cli>>

Close(w) ==
    /\ w \in open /\ Act
    /\ open' = open \ {w}
    /\ focus' = IF focus = w THEN NoWindow ELSE focus
    /\ ClearTags({w})
    /\ Emit("close", w)
    /\ UNCHANGED <<current, main, memory, target, section, bright, worker, cli>>
-----------------------------------------------------------------------------
(* attend, by the main thread or the notification thread.                   *)

\* A notification of w's process arrives.
Notified(w) ==
    /\ pc # "down" /\ running /\ target["notifications"] = NoWindow
    /\ signals < MaxSignals /\ signals' = signals + 1
    /\ w \in open /\ w # focus
    /\ target' = [target EXCEPT !["notifications"] = w]
    /\ UNCHANGED <<desktop, tags, events, current, main, memory, section, bright, worker,
                   cli, acts, changes, exits>>

\* The main thread is free to take its next event.
NextEvent(kind, w) ==
    /\ pc = "listening" /\ running /\ target["events"] = NoWindow
    /\ events # <<>> /\ Head(events) = <<kind, w>>
    /\ events' = Tail(events)

\* The first look at the compositor, without a lock.
HandleUrgent(w) ==
    /\ NextEvent("urgent", w)
    /\ target' = IF w \in open /\ w # focus THEN [target EXCEPT !["events"] = w] ELSE target
    /\ UNCHANGED <<desktop, tags, current, main, memory, section, bright, worker, cli,
                   bounds>>

\* Mutants of StillWanted: a stop is not noticed, a focus is not noticed.
StillWantedWhenUnfocused(w) == w # focus
StillWantedWhenRunning(w) == running

\* The second look, under the lock.
StillWanted(w) == running /\ w # focus

AttendLocked(t) ==
    LET w == target[t]
    IN  /\ w # NoWindow /\ lock # t /\ StateLockFree
        /\ windows' = Reload
        /\ IF StillWanted(w) THEN Enter(t, {}, NoWindow) /\ UNCHANGED target
           ELSE UNCHANGED section /\ target' = [target EXCEPT ![t] = NoWindow]
        /\ UNCHANGED <<desktop, tags, events, current, main, matches, bright, worker, cli,
                       bounds>>

AttendTags(t) ==
    LET w == target[t]
    IN  /\ lock = t
        /\ windows' = windows \cup {w} /\ current' = windows'
        /\ steady' = steady \cup ({w} \cap open)
        /\ target' = [target EXCEPT ![t] = NoWindow]
        /\ Leave
        /\ UNCHANGED <<desktop, pulsing, events, main, matches, bright, worker, cli, bounds>>
-----------------------------------------------------------------------------
(* clear, by the main thread.                                               *)

\* Mutant of Remaining: the entry of a matched window is left to the worker.
RemainingIfMatched(w) == IF AgentsOf(w) = {} THEN Reload \ {w} ELSE Reload

Remaining(w) == Reload \ {w}

\* The window is focused: its entry goes; a match is queued for revalidation,
\* which supersedes older jobs and any refresh that is being computed.
HandleFocus(w) ==
    /\ NextEvent("focus", w) /\ StateLockFree
    /\ windows' = Remaining(w) /\ current' = windows'
    /\ IF AgentsOf(w) = {} THEN UNCHANGED worker
       ELSE probed' = {} /\ \E a \in AgentsOf(w) : job' = {<<a, w>>}
    /\ ClearTags(Unowned({w} \cap (Reload \cup Matched(matches)), windows', matches))
    /\ UNCHANGED <<desktop, main, matches, target, section, bright, cli, bounds>>

HandleClose(w) ==
    /\ NextEvent("close", w) /\ StateLockFree
    /\ windows' = Remaining(w) /\ current' = windows'
    /\ matches' = Unmatch({w})
    /\ UNCHANGED <<desktop, tags, main, target, section, bright, worker, cli, bounds>>
-----------------------------------------------------------------------------
(* clear, by a command (clear or dismiss): a process that knows no match.   *)

CommandClears(w) ==
    /\ w \in current /\ command = NoWindow
    /\ lock \in {"free", "worker"}
    /\ Cardinality(cleared) < MaxClears
    /\ command' = w
    /\ cleared' = cleared \cup {w}
    /\ ClearTags({w})
    /\ UNCHANGED <<desktop, events, current, main, memory, target, section, bright, worker,
                   left, bounds>>

CommandWrites ==
    /\ command # NoWindow
    /\ current' = current \ {command}
    /\ command' = NoWindow
    /\ UNCHANGED <<desktop, tags, events, main, memory, target, section, bright, worker,
                   cleared, left, bounds>>
-----------------------------------------------------------------------------
(* pulse.                                                                   *)

PulseReads ==
    /\ pc # "down" /\ running /\ StateLockFree
    /\ bright' = ~bright
    /\ windows' = Reload \cap open /\ matches' = Unmatch(Windows \ open)
    /\ current' = windows'
    /\ Enter("pulse", windows' \cup Matched(matches'), NoWindow)
    /\ UNCHANGED <<desktop, tags, events, main, target, worker, cli, bounds>>

\* Mutants of Repaired: a missing steady tag is not put back, or put on whatever
\* has the address.
RepairedNever == steady
RepairedAnyway == steady \cup live

Repaired == steady \cup (live \cap open)

PulseTags ==
    /\ lock = "pulse"
    /\ steady' = Repaired
    /\ pulsing' = IF bright THEN pulsing \cup (live \cap open) ELSE pulsing \ live
    /\ Leave
    /\ UNCHANGED <<desktop, events, current, main, memory, target, bright, worker, cli,
                   bounds>>
-----------------------------------------------------------------------------
(* The resolver worker and the Hub threads, as far as the tags go.          *)

Change == changes < MaxChanges /\ changes' = changes + 1 /\ UNCHANGED <<signals, acts, exits>>

\* A refresh has matched pending claims with windows of the desktop.
Probe ==
    /\ pc # "down" /\ running /\ job = {} /\ probed = {} /\ Change
    /\ \E m \in [Agents -> open \cup {NoWindow}] : probed' = {m}
    /\ UNCHANGED <<desktop, tags, events, current, main, memory, target, section, bright,
                   job, cli>>

\* _apply_hub_matches: the new matches, the tags of the old ones.
ApplyMatches(m) ==
    /\ probed = {m} /\ ThreadLockFree
    /\ probed' = {}
    /\ matches' = m
    /\ ClearTags(Unowned(Matched(matches), windows, m))
    /\ Enter("worker", Matched(m), focus)
    /\ UNCHANGED <<desktop, events, current, main, windows, target, bright, job, cli, bounds>>

\* _apply_hub_matches: the tags of the new ones.
ApplyTags ==
    /\ lock = "worker"
    /\ steady' = steady \cup ((live \ {active}) \cap open)
    /\ Leave
    /\ UNCHANGED <<desktop, pulsing, events, current, main, memory, target, bright, worker,
                   cli, bounds>>

\* _run_focus_revalidation: the claim of a is acknowledged ...
FocusAcknowledged(a, w) ==
    /\ <<a, w>> \in job /\ ThreadLockFree
    /\ job' = {}
    /\ matches' = [matches EXCEPT ![a] = NoWindow]
    /\ ClearTags(Unowned({w}, windows, matches'))
    /\ UNCHANGED <<desktop, events, current, main, windows, target, section, bright, probed,
                   cli, bounds>>

\* ... or not: the probe failed, or the claim or the focus changed.
FocusRejected ==
    /\ job # {}
    /\ job' = {}
    /\ UNCHANGED <<desktop, tags, events, current, main, memory, target, section, bright,
                   probed, cli, bounds>>

LostTags == Unowned(Matched(matches), windows, NoMatch)

\* clear_hub_matches: the stream is lost.
Disconnect ==
    /\ pc # "down" /\ ThreadLockFree /\ Change
    /\ matches' = NoMatch /\ job' = {} /\ probed' = {}
    /\ ClearTags(LostTags)
    /\ UNCHANGED <<desktop, events, current, main, windows, target, section, bright, cli>>
-----------------------------------------------------------------------------
(* The life of the service.                                                 *)

Boot ==
    /\ pc = "down"
    /\ pc' = "connecting" /\ running' = TRUE
    /\ UNCHANGED <<desktop, tags, events, current, memory, target, section, bright, worker,
                   cli, bounds>>

Connect ==
    /\ pc = "connecting" /\ running
    /\ pc' = "restoring"
    /\ UNCHANGED <<desktop, tags, events, current, running, memory, target, section, bright,
                   worker, cli, bounds>>

\* restore_tags: what is still open and not focused.
RestoreReads ==
    /\ pc = "restoring" /\ StateLockFree
    /\ windows' = (Reload \cap open) \ {focus}
    /\ Enter("restore", open, focus)
    /\ UNCHANGED <<desktop, tags, events, current, main, matches, target, bright, worker, cli,
                   bounds>>

\* Mutant of Residue: tags without an owner are left alone.
ResidueKept == {}

\* Tags left by an interrupted pulse or clear.
Residue == Unowned(live, windows, matches)

\* A focused match gets no tag.
Restored == (windows \cup (Matched(matches) \ {active})) \cap live \cap open

RestoreTags ==
    /\ lock = "restore"
    /\ pc' = "listening"
    /\ steady' = (steady \ Residue) \cup Restored
    /\ pulsing' = pulsing \ Residue
    /\ current' = windows
    /\ left' = {}
    /\ Leave
    /\ UNCHANGED <<desktop, events, running, memory, target, bright, worker, command, cleared,
                   bounds>>

Exit == exits < MaxExits /\ exits' = exits + 1 /\ UNCHANGED <<signals, acts, changes>>

\* The socket breaks; run connects again.
SocketLost ==
    /\ pc = "listening" /\ running /\ Exit
    /\ target["events"] = NoWindow
    /\ pc' = "connecting" /\ events' = <<>>
    /\ UNCHANGED <<desktop, tags, current, running, memory, target, section, bright, worker,
                   cli>>

\* stop, on a signal, with _stop_resolver_worker.
Stop ==
    /\ pc # "down" /\ running /\ Exit
    /\ running' = FALSE
    /\ job' = {} /\ probed' = {}
    /\ UNCHANGED <<desktop, tags, events, current, pc, memory, target, section, bright, cli>>

\* cleanup, when the main thread is done with its event.
Cleanup ==
    /\ pc \in {"connecting", "listening"} /\ ~running
    /\ StateLockFree /\ target["events"] = NoWindow
    /\ pc' = "exiting"
    /\ ClearTags(Reload \cup Matched(matches))
    /\ windows' = {} /\ matches' = NoMatch
    /\ current' = {} /\ events' = <<>>
    /\ UNCHANGED <<desktop, running, target, section, bright, worker, cli, bounds>>

\* What goes with the process.
Ends ==
    /\ pc' = "down" /\ running' = FALSE
    /\ windows' = {} /\ matches' = NoMatch /\ target' = Idle /\ Leave
    /\ bright' = FALSE /\ job' = {} /\ probed' = {} /\ events' = <<>>

\* The main thread returns; the other threads end with it.
Exits ==
    /\ pc = "exiting"
    /\ Ends
    /\ UNCHANGED <<desktop, tags, current, cli, bounds>>

Crash ==
    /\ pc # "down" /\ Exit
    /\ Ends
    /\ left' = steady \cup pulsing
    /\ UNCHANGED <<desktop, tags, current, command, cleared>>
-----------------------------------------------------------------------------
World ==
    \/ \E w \in Windows : Urgent(w) \/ Focus(w) \/ Close(w) \/ Notified(w) \/ CommandClears(w)
    \/ Unfocus \/ Probe \/ Disconnect \/ SocketLost \/ Stop \/ Crash

MainStep ==
    \/ \E w \in Windows : HandleUrgent(w) \/ HandleFocus(w) \/ HandleClose(w)
    \/ Boot \/ Connect \/ RestoreReads \/ RestoreTags \/ Cleanup \/ Exits

AttendStep(t) == AttendLocked(t) \/ AttendTags(t)

WorkerStep ==
    \/ \E m \in probed : ApplyMatches(m)
    \/ \E a \in Agents, w \in Windows : FocusAcknowledged(a, w)
    \/ ApplyTags \/ FocusRejected

Next ==
    \/ World \/ MainStep \/ WorkerStep \/ CommandWrites \/ PulseReads \/ PulseTags
    \/ \E t \in Threads : AttendStep(t)

Spec == Init /\ [][Next]_vars

\* Threads and commands run, and systemd restarts a service that crashed; what
\* the user, the Hub and the world do is not fair.  A thread gets the lock in
\* the end although the pulse takes it again and again.
Fairness ==
    /\ SF_vars(MainStep) /\ WF_vars(CommandWrites)
    /\ WF_vars(PulseTags) /\ SF_vars(PulseReads)
    /\ \A t \in Threads : SF_vars(AttendStep(t))
    /\ SF_vars(WorkerStep)

FairSpec == Spec /\ Fairness
-----------------------------------------------------------------------------
(* Properties.                                                              *)

\* Nobody is in the middle of a section, and no compositor event is pending.
Settled ==
    /\ pc = "listening" /\ running /\ StateLockFree
    /\ events = <<>> /\ target["events"] = NoWindow

\* "Focusing the window clears its entry" (README): in a settled service the
\* focused window is not listed, although notifications, the pulse and a
\* restart race with the focus.
FocusedIsNotListed == Settled => focus \notin current

\* The owners of w: the list as stored, and the matches.
OwnedNow == current \cup Matched(matches)

\* "The steady tag must remain until the last owner clears" (docs/
\* pulse-border-regression.md): a listening service never takes the tag off a
\* window that one of them still owns; only a command can.
ServiceKeepsOwnedTags ==
    [][\A w \in steady \ steady' :
            (pc = "listening" /\ w \in open' /\ command' # w) => w \notin OwnedNow']_vars

\* Between two sections of a listening service no window carries a tag without
\* an owner: whatever the crash left, and however matches came and went.  The
\* exceptions are windows a command has cleared.
NoOrphanTag ==
    (pc = "listening" /\ StateLockFree) => (steady \cup pulsing) \ cleared \subseteq OwnedNow

\* The border goes back to normal when the last owner is gone, also when that
\* owner was cleared by a command.
LastOwnerClears ==
    (pc = "listening" /\ StateLockFree) => steady \cup pulsing \subseteq OwnedNow

\* An entry that a command or the focus removed is not written back: entries
\* come from attend only.
NoResurrection ==
    [][\A w \in current' \ current : \E t \in Threads : target[t] = w /\ lock = t]_vars

\* An orderly stop leaves no entry and no tag, whatever the other threads were
\* and are doing; the exceptions are windows a command has cleared, and what a
\* crash left if this service never reached the compositor.
StopIsClean ==
    pc = "exiting" => current = {} /\ steady \cup pulsing \subseteq cleared \cup left

\* A missing steady tag of an owner's window comes back: a command that strips a
\* window the Hub still owns does no lasting harm.
TagsRepaired ==
    \A w \in Windows :
        (pc = "listening" /\ w \in OwnedNow \cap open)
            ~> (w \in steady \/ w \notin OwnedNow \cap open \/ ~running)

\* The entry of a window that stays focused goes away.
FocusClears ==
    \A w \in Windows :
        (pc = "listening" /\ running /\ focus = w /\ w \in current)
            ~> (w \notin current \/ focus # w \/ ~running)
=============================================================================
