------------------------------ MODULE HubLedger ------------------------------
(***************************************************************************)
(* The acknowledgement ledger of payload/agentd_hub.py as the processes    *)
(* that share its files use it: the daemon, which accepts the snapshots of *)
(* the Hub stream, and short-lived clients (the commands behind the        *)
(* panel's open and dismiss, and the daemon's own focus worker), which     *)
(* capture a claim and acknowledge it some time later.                     *)
(*                                                                         *)
(* The daemon accepts a snapshot under its in-process lock, but takes the  *)
(* file lock twice, so a client of another process may acknowledge between *)
(* the decision, the write of hub-pending.json and the write of            *)
(* hub-snapshot.json, and the daemon may be killed between any two of them.*)
(***************************************************************************)
EXTENDS HubClaims

CONSTANTS Commands,       \* processes of the command line
          Worker,         \* the daemon's resolver worker
          Ahead,          \* Ahead[a]: how far the clock of a's machine leads the Hub's
          Activities,     \* the activity states the Hub reports
          MaxClock,       \* bound on the changes the Hub observes
          MaxFaults       \* bound on daemon crashes and discarded frames

Clients == Commands \cup {Worker}

ASSUME LedgerAssumption ==
    /\ Ahead \in [Agents -> Nat]
    /\ Activities \subseteq States
    /\ MaxClock \in Nat
    /\ MaxFaults \in Nat
    /\ Worker \notin Commands

VARIABLES
    clock,       \* the Hub's clock
    roster,      \* what the Hub knows of each agent
    acks,        \* hub-ack.json
    pending,     \* hub-pending.json
    saved,       \* hub-snapshot.json
    phase,       \* where the daemon's stream thread is
    frame,       \* the snapshot it is accepting
    alerts,      \* the alerts it computed for that snapshot
    previous,    \* _previous: the roster of the last snapshot it accepted
    initialized, \* _initialized
    memory,      \* _pending: the daemon's pending map in memory
    held,        \* held[p]: the claim client p captured
    announced,   \* announced[a]: the last stamp on_snapshot was given for a
    faults       \* crashes and discarded frames so far

hubVars    == <<clock, roster>>
diskVars   == <<acks, pending, saved>>
daemonVars == <<phase, frame, alerts, previous, initialized, memory>>
vars == <<hubVars, diskVars, daemonVars, held, announced, faults>>

Snapshots == [roster : Tables(Reports), at : Nat]

\* No snapshot: an empty roster of time 0, which the Hub never sends.
NoSnapshot == [roster |-> EmptyTable, at |-> 0]

Claims == [agent : Agents, stamp : Stamps]

\* The snapshot the Hub serves at this moment; /snapshot and /events agree.
CurrentSnapshot == [roster |-> roster, at |-> clock]

Phases == {"down", "waiting", "received", "merging", "saving", "notifying"}

TypeOK ==
    /\ clock \in Nat /\ faults \in Nat
    /\ roster \in Tables(Reports)
    /\ acks \in Tables(Stamps)
    /\ pending \in Tables(Reports)
    /\ saved \in Snapshots
    /\ phase \in Phases
    /\ frame \in Snapshots
    /\ alerts \in SUBSET Agents
    /\ previous \in Tables(Reports)
    /\ initialized \in BOOLEAN
    /\ memory \in Tables(Reports)
    /\ held \in [Clients -> Claims \cup {Absent}]
    /\ announced \in Tables(Stamps)

Init ==
    /\ clock = 1 /\ faults = 0
    /\ roster = EmptyTable
    /\ acks = EmptyTable /\ pending = EmptyTable /\ saved = NoSnapshot
    /\ phase = "down" /\ frame = NoSnapshot /\ alerts = {}
    /\ previous = EmptyTable /\ initialized = FALSE /\ memory = EmptyTable
    /\ held = [p \in Clients |-> Absent]
    /\ announced = EmptyTable
-----------------------------------------------------------------------------
(* The Hub: an agent's activity is observed at a later time than before, an *)
(* agent's presence flips, an agent's process ends.                         *)

Observe(a, state, missing) ==
    /\ clock < MaxClock
    /\ missing => MissingStamps
    /\ clock' = clock + 1
    /\ roster' = [roster EXCEPT ![a] =
                    [state |-> state, present |-> TRUE,
                     stamp |-> IF missing THEN None ELSE clock + 1 + Ahead[a]]]
    /\ UNCHANGED <<diskVars, daemonVars, held, announced, faults>>

FlipPresence(a) ==
    /\ roster[a] # Absent
    /\ roster' = [roster EXCEPT ![a].present = ~@]
    /\ UNCHANGED <<clock, diskVars, daemonVars, held, announced, faults>>

Leave(a) ==
    /\ roster[a] # Absent
    /\ roster' = Without(roster, a)
    /\ UNCHANGED <<clock, diskVars, daemonVars, held, announced, faults>>
-----------------------------------------------------------------------------
(* The daemon.                                                              *)

\* AgentdHub.__init__ in the service process.
Start ==
    /\ phase = "down"
    /\ phase' = "waiting"
    /\ previous' = saved.roster
    /\ initialized' = (saved # NoSnapshot)
    /\ memory' = LoadedMemory(pending, saved.roster, acks)
    /\ UNCHANGED <<hubVars, diskVars, frame, alerts, held, announced, faults>>

\* A snapshot of the stream reaches the consumer.
Receive ==
    /\ phase = "waiting"
    /\ phase' = "received"
    /\ frame' = CurrentSnapshot
    /\ UNCHANGED <<hubVars, diskVars, alerts, previous, initialized, memory,
                   held, announced, faults>>

\* _accept: the frame belongs to a generation that suspend or stop ended.
Discard ==
    /\ phase = "received"
    /\ faults < MaxFaults
    /\ faults' = faults + 1
    /\ phase' = "waiting"
    /\ frame' = NoSnapshot
    /\ UNCHANGED <<hubVars, diskVars, alerts, previous, initialized, memory,
                   held, announced>>

\* _accept_with_notify up to the first file lock.
Decide ==
    /\ phase = "received"
    /\ phase' = "merging"
    /\ alerts' = Alerts(previous, initialized, memory, acks, frame.roster)
    /\ previous' = frame.roster
    /\ initialized' = TRUE
    /\ memory' = FilterMemory(memory, frame.roster, alerts')
    /\ UNCHANGED <<hubVars, diskVars, frame, held, announced, faults>>

\* The first file lock: hub-pending.json.
Merge ==
    /\ phase = "merging"
    /\ phase' = "saving"
    /\ pending' = MergePending(pending, frame.roster, alerts, frame.at)
    /\ memory' = pending'
    /\ UNCHANGED <<hubVars, acks, saved, frame, alerts, previous, initialized,
                   held, announced, faults>>

\* The second file lock: hub-snapshot.json, written last.
Save ==
    /\ phase = "saving"
    /\ phase' = "notifying"
    /\ saved' = frame
    /\ UNCHANGED <<hubVars, acks, pending, frame, alerts, previous, initialized,
                   memory, held, announced, faults>>

\* on_snapshot, called after the lock is released.
Notify ==
    /\ phase = "notifying"
    /\ phase' = "waiting"
    /\ announced' = [a \in Agents |-> IF a \in alerts THEN frame.roster[a].stamp
                                                      ELSE announced[a]]
    /\ alerts' = {}
    /\ frame' = NoSnapshot
    /\ UNCHANGED <<hubVars, diskVars, previous, initialized, memory, held, faults>>

\* The process dies; what it had in memory, its worker included, is gone.
Crash ==
    /\ phase # "down"
    /\ faults < MaxFaults
    /\ faults' = faults + 1
    /\ phase' = "down"
    /\ frame' = NoSnapshot /\ alerts' = {}
    /\ previous' = EmptyTable /\ initialized' = FALSE /\ memory' = EmptyTable
    /\ held' = [held EXCEPT ![Worker] = Absent]
    /\ UNCHANGED <<hubVars, diskVars, announced>>
-----------------------------------------------------------------------------
(* Clients.                                                                 *)

Capture(p, a, stamp) ==
    /\ held[p] = Absent
    /\ held' = [held EXCEPT ![p] = [agent |-> a, stamp |-> stamp]]
    /\ UNCHANGED <<hubVars, diskVars, daemonVars, announced, faults>>

\* What a command knows right after it is constructed.
CommandMemory == LoadedMemory(pending, saved.roster, acks)

\* dismiss: the entry among the pending agents of the freshly loaded files.
CaptureDismissed(p, a) ==
    /\ a \in PendingAgents(CommandMemory, acks)
    /\ Capture(p, a, CommandMemory[a].stamp)

\* open_target: fetch_snapshot accepts the current roster in the command's
\* memory only; the clicked agent is the roster's, present and still pending.
FetchedMemory ==
    FilterMemory(CommandMemory, roster,
                 Alerts(saved.roster, saved # NoSnapshot, CommandMemory, acks, roster))

CaptureOpened(p, a) ==
    /\ a \in PendingAgents(FetchedMemory, acks)
    /\ roster[a].present
    /\ Capture(p, a, roster[a].stamp)

\* _queue_focus_revalidation: the daemon's current report of a matched agent.
CaptureFocused(a) ==
    /\ phase # "down"
    /\ previous[a] # Absent
    /\ a \in PendingAgents(memory, acks)
    /\ Capture(Worker, a, previous[a].stamp)

\* The client gives up: probe failed, claim changed, launch refused.
GiveUp(p) ==
    /\ held[p] # Absent
    /\ held' = [held EXCEPT ![p] = Absent]
    /\ UNCHANGED <<hubVars, diskVars, daemonVars, announced, faults>>

\* The daemon holds its in-process lock while it accepts a snapshot.
LockFree(p) == p = Worker => phase \notin {"merging", "saving"}

\* AgentdHub.acknowledge of the captured claim.
Acknowledge(p) ==
    LET a == held[p].agent
        stamp == held[p].stamp
        refused == AckRefused(acks, pending, a, stamp)
    IN  /\ held[p] # Absent
        /\ LockFree(p)
        /\ held' = [held EXCEPT ![p] = Absent]
        /\ acks' = IF refused THEN acks ELSE AckedTable(acks, a, stamp)
        /\ pending' = IF refused THEN pending ELSE Without(pending, a)
        /\ memory' = IF p = Worker THEN pending' ELSE memory
        /\ UNCHANGED <<hubVars, saved, phase, frame, alerts, previous, initialized,
                       announced, faults>>
-----------------------------------------------------------------------------
Hub == \E a \in Agents :
           \/ \E state \in Activities, missing \in BOOLEAN : Observe(a, state, missing)
           \/ FlipPresence(a)
           \/ Leave(a)

Daemon == Start \/ Receive \/ Decide \/ Merge \/ Save \/ Notify

Client(p) ==
    \/ \E a \in Agents :
           \/ p \in Commands /\ (CaptureDismissed(p, a) \/ CaptureOpened(p, a))
           \/ p = Worker /\ CaptureFocused(a)
    \/ GiveUp(p)
    \/ Acknowledge(p)

Next == Hub \/ Daemon \/ Discard \/ Crash \/ \E p \in Clients : Client(p)

Spec == Init /\ [][Next]_vars

\* The service runs its stream thread, and systemd restarts the service.
Fairness ==
    /\ WF_vars(Start) /\ WF_vars(Receive) /\ WF_vars(Decide)
    /\ WF_vars(Merge) /\ WF_vars(Save) /\ WF_vars(Notify)

FairSpec == Spec /\ Fairness
-----------------------------------------------------------------------------
(* Properties.                                                              *)

\* The claim (a, stamp) is in the pending file, or acknowledged.
Covered(a, stamp) ==
    \/ IsAcknowledged(acks, a, stamp)
    \/ pending[a] # Absent /\ pending[a].stamp = stamp

\* Every request for attention of these reports that the Hub still has, as it
\* was reported, is covered.
StandingCovered(reports) ==
    \A a \in Agents :
        (/\ reports[a] # Absent
         /\ reports[a].state = "needs_attention"
         /\ roster[a] # Absent
         /\ roster[a].stamp = reports[a].stamp)
            => Covered(a, reports[a].stamp)

\* A standing request for attention that the daemon accepted, or that a
\* restart would take from the cached snapshot as already known, is never
\* lost: it is in hub-pending.json or acknowledged, whatever the crashes,
\* restarts and concurrent acknowledgements (_accept_with_notify, acknowledge).
NoLostClaim ==
    /\ StandingCovered(saved.roster)
    /\ phase # "merging" => StandingCovered(previous)

\* A complete snapshot is authoritative: a claim of an agent that the roster
\* no longer has, or no longer has waiting, survives in hub-pending.json only
\* when it was observed after that snapshot was taken.
OnlyNewerClaimsOutliveTheirAgent ==
    phase \in {"saving", "notifying"} =>
        \A a \in Agents :
            \/ pending[a] = Absent
            \/ frame.roster[a] # Absent /\ frame.roster[a].state \in Claiming
            \/ NewerConcurrentClaim(pending[a], frame.at)

\* "A previous event is not replayed" (README, Agentd Hub): on_snapshot is
\* never given the same or an older claim of an agent twice, across
\* reconnects, crashes between the two file writes, and restarts.
NoReplayedAlert ==
    [][Notify => \A a \in alerts : RankOf(frame.roster[a].stamp) > RankOf(announced[a])]_vars

\* "A genuinely new request for attention appears again" (README, Agentd Hub):
\* an acknowledgement that covers an agent's current request was given for
\* that request, not for an earlier one.
NewRequestShows ==
    \A a \in Agents :
        (/\ roster[a] # Absent
         /\ roster[a].state = "needs_attention"
         /\ IsAcknowledged(acks, a, roster[a].stamp))
            => acks[a] = roster[a].stamp

\* The ledger as a person sees it: the pending entries that are not
\* acknowledged are shown, the acknowledgements are what was dealt with.
ShownStamps ==
    [a \in Agents |-> IF a \in PendingAgents(pending, acks) THEN pending[a].stamp ELSE 0]

HandledStamps == [a \in Agents |-> IF IsInt(acks[a]) THEN acks[a] ELSE 0]

Inbox == INSTANCE ClaimInbox WITH shown <- ShownStamps, handled <- HandledStamps

\* The ledger implements ClaimInbox: an acknowledgement never regresses and
\* never hides a newer claim, and nothing dealt with is shown again, although
\* clients acknowledge in the middle of an acceptance and from old captures.
ImplementsInbox == Inbox!Spec

\* A request for attention that stays on the Hub's roster is eventually
\* pending or acknowledged, however the daemon crashed before.
EventuallyCovered ==
    \A a \in Agents : \A s \in 1..(MaxClock + Ahead[a]) :
        (/\ roster[a] # Absent
         /\ roster[a].state = "needs_attention"
         /\ roster[a].stamp = s)
            ~> (Covered(a, s) \/ roster[a] = Absent \/ roster[a].stamp # s)
=============================================================================
