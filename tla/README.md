# Yoohoo in TLA+

Yoohoo is a desktop service that collects requests for attention — from windows
of this machine and, through an *Agentd Hub*, from coding agents on any machine —
shows them as window tags, sounds and a panel, and takes the user to the window
that asked.  This directory holds TLA+ modules for its concurrent and persistent
parts, the TLC configurations that check them, and TLAPS proofs.

Every definition is translated from the code under `src/`; `PROJECT.json` maps
each one to its lines.  To check a run: `tlc -config MCHubLedger.cfg MCHubLedger`;
to check the proofs of a module: `tlapm HubLedgerProofs.tla`.

## 1. The system

| component | code | state | operations |
|---|---|---|---|
| Acknowledgement ledger | `AgentdHub` in `payload/agentd_hub.py` | `hub-ack.json`, `hub-pending.json`, `hub-snapshot.json`; `_previous`, `_pending`, `_initialized` of each process | construct, `_accept_with_notify`, `fetch_snapshot`, `acknowledge`, `pending_agents` |
| Hub stream | `AgentdHub._run`, `_read_stream`, `prepare_for_sleep`, `stop`, `status` | `_connection_generation`, `_suspended`, `_status`, `_wake`, the event queue; `hub-status.json` | connect, read, accept, time out, back off, suspend, resume, stop |
| Attention service | `AttentionService` in `payload/window-attention` | native windows (`current.json`), Hub matches and proofs, the compositor's tags | `attend`, `clear`, `pulse`, `restore_tags`, `dismiss`, compositor events |
| Resolver worker | `_resolver_worker`, `_run_resolver_refresh`, `_run_focus_revalidation`, `_apply_hub_matches` | refresh flag, focus jobs, generation, desktop epoch and dirty flag, sweep, match cache | queue a refresh, queue a focus job, probe, commit, clear on disconnect |
| Click protocol | `open_target`, `reserve_launch`, `clear_launch_intent` | `hub-launches.json` | fetch, validate, focus or launch, acknowledge |
| Panel | `payload/Panel.qml`, `payload/Selection.js` | rows, selection, the accept in flight, ordered command streams | list, cycle, accept, dismiss, commands numbered by the sender |
| Transport policy | `choose_transport`, `connection_plan`, `read_capabilities` | capability cache | choose, verify, record |
| Command line | `merge_attention_rows`, `make_agent_row` | none | list, status |
| Installer | `install.py` | manifest and installed files | install, uninstall |
| Window matching | `agent_window_adapter.py`, `agent_window_resolver/` | none; it reads the process table while it changes | scan the windows' processes, score, answer |
| Notifications, probe, scripts, unit | `notification_probe.py`, `attention.lua`, `scripts/`, `window-attention.service` | none | I/O |

**How they interact.**  One service process holds the stream, the worker and the
compositor connection.  The stream calls `on_snapshot` and `on_disconnect` of the
service, never under the Hub's lock; the service reads `snapshot()` and
`pending_agents()` of the Hub.  Every click, dismiss and list of the panel is a
process of its own that builds an `AgentdHub` from the files and changes them under
a file lock; only the service owns the stream and `hub-status.json`.

**What is hard here.**  Two processes change the same files while one of them has
made its decision outside the file lock; an acceptance writes two files one after
the other and may be killed in between; four threads move one connection through
its life with a lock they keep releasing for I/O and callbacks; work started before
a disconnect, a suspend or a focus change finishes after it; queues and timers must
not hide a wake-up or a dead connection; a scan of the process table reads it one file at
a time while processes start, end and reuse PIDs; between a click and its terminal lie a
dozen calls during which the claim, the windows and other clicks go on.

**What makes each component correct.**

- Ledger: a request the user has not dealt with is never lost; one that was dealt
  with never comes back; a newer request is never hidden by an older answer.
- Stream: the roster is presented as current only between a snapshot accepted while
  awake and the loss of that connection; every loss is notified; the client
  reconnects; threads end.
- Service and worker: a window carries the steady tag exactly while some owner
  (native or Hub) wants it; nothing computed for an ended generation is published; a
  desktop event is never forgotten; only the exact claim of the focused window is
  acknowledged.
- Click protocol: one claim launches at most one terminal; an answer is recorded
  only for the claim that was shown.
- Window matching: what is reported as proven was true, and absence is reported only when
  it was read completely.
- Panel: what is activated was validated after the key press; commands take effect
  once, in order.

The `hazards` of `PROJECT.json` list the lines where each of these can go wrong.

## 2. The modules

| module | what it models | composes or refines |
|---|---|---|
| `HubClaims`, `HubLedger` | the ledger's decisions, the processes that share its files | implements `ClaimInbox` |
| `HubStream` | the threads of the stream | implements `HubAuthority` |
| `AttentionTags` | native windows, matches, tags, pulse, commands that clear | takes of the worker its commits |
| `ResolverWorker` | the worker's queue, refreshes, pages, focus revalidation | takes of the stream its snapshots and losses, of the resolver its answer |
| `OpenTarget` | clicks on Hub rows, reservations, the launched terminal | uses `HubClaims` for the ledger; takes of the resolver what `ProcessScan` shows |
| `Ancestry` | climbing from child to parent, in the nodes read and in the table | |
| `ProcTable` | the kernel's process table (external) | uses `Ancestry` |
| `WindowMatch` | the scores and answers of the resolver and the adapter, as operators | uses `Ancestry` |
| `ProcessScan` | one collection and its answer | composes `ProcTable` and `WindowMatch` |

`MC…` modules give the constants their values.  Data are functions with a null value and
recursion is avoided, so that the modules can be proved about.  `…Proofs` modules hold the theorems of
section 9; `HubClaimsProofs` has the lemmas about the ledger's decisions, which the proofs
of `HubLedger` and of `OpenTarget` share, and `WindowMatchProofs` those about scores and
climbs, which the proofs of `ProcessScan` rest on.  Every type invariant, safety invariant
and refinement that a passing run checks is also proved; only liveness is not.

## 3. The ledger: `HubClaims`, `HubLedger`, `ClaimInbox`

`HubClaims` holds the decisions that have no state: which reports raise an alert
(`Alerts`), how a pending map is loaded (`LoadedMemory`), filtered (`FilterMemory`)
and merged with the one on disk (`MergePending`), when a claim is acknowledged
(`IsAcknowledged`) and when an acknowledgement is refused (`AckRefused`).  A report is
an activity state, a presence and an observation stamp, or no stamp (`None`); a table
maps each agent to an entry or to `Absent`.

`HubLedger` puts them in processes.  The daemon's acceptance is four steps — `Decide`
(no file lock), `Merge` (`hub-pending.json`, under the file lock), `Save`
(`hub-snapshot.json`, under the file lock again), `Notify` (`on_snapshot`) — between
which commands act and after each of which the daemon can be killed.  A command
captures a claim, from the files (`dismiss`) or from a freshly fetched snapshot
(`open_target`), and acknowledges it later or gives up; the daemon's own focus worker
captures from the daemon's memory and waits for the daemon's lock.  The Hub observes
activities at increasing times, stamps them with the clock of the agent's machine,
which may lead the Hub's by `Ahead`, flips presence and drops agents.

`ClaimInbox` is what a user may rely on: per agent the stamp shown and the newest
stamp handled; what is shown is newer than what was handled, and is never replaced by
something older; handling an entry handles everything up to it and nothing newer.

| property | what it says |
|---|---|
| `NoLostClaim` | a standing request that the daemon accepted, or that a restart takes as known, is pending or acknowledged |
| `OnlyNewerClaimsOutliveTheirAgent` | what the roster dropped survives a merge only if observed after that roster |
| `NewRequestShows` | what acknowledges an agent's current request was given for that request |
| `NoReplayedAlert` | no alert is announced twice, across crashes and restarts |
| `ImplementsInbox` | the files implement `ClaimInbox` |
| `EventuallyCovered` | a request that stays becomes pending or acknowledged |

Runs: `ledger` (one agent, one command, the worker, clock up to 3, two faults — enough for
two successive requests with an acknowledgement of the first in flight, and a crash
between the files or a discarded frame, twice); `ledger_missing_stamps`, a violation.
Agents do not interact in this code except through the daemon's phase, so one agent shows
what several would, and the proofs are for any number.

## 4. The stream: `HubStream`, `HubAuthority`

`HubStream` follows the owner thread statement by statement where it gives up the
lock: `pc` names the place, an action is what runs between two lock acquisitions,
blocking calls or callbacks.  A connection is its generation.  Readers are generations
waiting for a line (`reading`) or for room in the queue (`blocked`).  The sleep watcher
changes the generation and the status under the lock (`Suspend`, `Resume`) and writes
the file, sets the wake event and calls `on_disconnect` afterwards (`SuspendEffects`,
`SleeperRevokes`, `ResumeEffects`).  Time is two facts, whether the deadline has passed
since the connection began and since the last event; `TimePasses` makes them true only
when the deadline can really pass: on a stream that still delivers, a snapshot will
have come before it.  A peer can falter: it goes silent, or sends heartbeats and no
snapshot; before the first snapshot the second is a stream that only the deadline since
the connection began can end (`Withheld`).  `hub-status.json` is its status and whether its writer still
lives; `Shown` is what another process makes of it.

`HubAuthority` has three states of authority — none, granted, revoking — and whether
the machine is awake: granted only while awake, and from granted to none only through
a notice.

| property | what it says |
|---|---|
| `ImplementsAuthority` | live only through a snapshot of a current connection while awake; each loss is notified once, before the next acceptance |
| `ShownLiveIsLive` | the bell shows live only while the stream is live, but for the moment between a suspend and its write of the file, and a service that is stopping |
| `FreshSnapshotKept` | a fresh snapshot's status is not overwritten by a delayed write |
| `EventuallyLive` | if the timer of the backoff works, the client becomes live, is suspended, or ends |
| `ResumeWakes` | a resume begins an attempt without the timer, wherever the owner was |
| `DeadStreamLeft` | the owner leaves a connection on which nothing can arrive, or heartbeats and no first snapshot |
| `ReadersEnd` | the reader of an ended generation ends |

Runs: `stream` (queue of 2; one loss, one suspend, one stop or crash; no thread in
`status()`), `stream_liveness` (queue of 1, one loss, one suspend, a thread in
`status()`), `stream_late_write`, a violation.  A queue of 1 already makes a reader
block while the owner is elsewhere; one loss and one suspend already give four
generations, which is more than can be alive at once, and the proofs cover the rest.

**Fairness.**  `HubLedger`: the stream thread keeps running and systemd restarts the
service (`Restart=on-failure`).  `HubStream`: the owner, each reader by itself, the
sleep watcher and `stop()` make progress (threads, and calls with time-outs); a
suspended machine resumes; the deadline passes on a connection where nothing arrives,
or heartbeats without a first snapshot; a Hub whose peer has not faltered (`peer`) sends
a snapshot again and again (strong fairness, because a full queue can keep blocking it;
the Hub begins each connection with one).  The backoff's timer is *not* assumed, except as the premise of
`EventuallyLive`, so `ResumeWakes` shows that the wake event alone is enough.
Acknowledgements, faults, losses, suspends and stops are never fair: they are up to
users and the world, and bounded in TLC's runs by the constants `Max…`.

## 5. The tags: `AttentionTags`

Two lists say that a window wants attention: the native windows in `current.json`,
which commands change too, and the windows the worker matched with Hub agents.  The
compositor shows it by two tags per window.  Who owns a window is asked of
`self.windows`, a copy of `current.json` that only a section under `state_lock`
refreshes.

| actor | lock | actions |
|---|---|---|
| main thread: compositor events | thread and file lock (`state_lock`) | `HandleUrgent`, `HandleFocus`, `HandleClose`; `RestoreReads`/`RestoreTags` at each connection; `Cleanup`, `Exits` |
| main or notification thread in `attend` | first look without a lock, then `state_lock` | `Notified` or `HandleUrgent`, `AttendLocked`, `AttendTags` |
| pulse thread | `state_lock` | `PulseReads`, `PulseTags` |
| resolver worker | thread lock | `Probe`, `ApplyMatches`, `ApplyTags`, `FocusAcknowledged`, `FocusRejected` |
| Hub threads: `clear_hub_matches` | thread lock | `Disconnect` |
| a command (`clear`, `dismiss` of a window) | file lock; knows no matches | `CommandClears`, `CommandWrites` |
| compositor, user, faults | | `Urgent`, `Focus`, `Unfocus`, `Close`, `SocketLost`, `Stop`, `Crash` |

A section that asks the compositor first and acts on the answer later is two steps
(`lock`, `live`, `active` hold what it goes on with), so windows close and the focus
moves in between, and commands run between two steps of the worker.  An address stands
for one window; `stable_id` makes the code treat a reused address as a new window.
`left` and `cleared` are history variables for the properties.

| property | what it says |
|---|---|
| `NoOrphanTag` | between sections of a listening service each tag has an owner, whatever a crash left; but for windows a command cleared |
| `ServiceKeepsOwnedTags` | the service never takes the steady tag from an owner |
| `LastOwnerClears` | the same as `NoOrphanTag` without the exception: violated |
| `FocusedIsNotListed` | when nothing is under way, the focused window is not listed |
| `NoResurrection` | only `attend` adds entries: no section writes a removed one back |
| `StopIsClean` | an orderly stop leaves no entry and no tag, but for cleared windows and what a crash left |
| `TagsRepaired` | a missing steady tag of an owned window comes back, for instance after a command stripped a window the Hub still owns |
| `FocusClears` | the entry of a window that stays focused goes |

Runs: `tags` (one window, two agents matched with it, two user actions, one urgent hint
or notification, one command, two changes of the matches, one fault) and
`tags_command`, a violation.  No section relates two windows — each acts on each of its
windows alone — so one window shows the races, two agents give it two Hub owners, and the
proofs are for any number.

Fairness: threads run, and none waits for the lock forever (strong fairness, because
the pulse takes it again and again but sleeps in between); commands finish; systemd
restarts the service.  Users, agents and faults are not fair.

## 6. The resolver worker: `ResolverWorker`

Hub threads and compositor events ask for refreshes; the worker runs them one at a time.
A refresh reads the pending claims (`ReadClaims`), lists the windows and finds its place
in the sweep (`ListWindows`), asks the resolver about a page of the claims (`Probe`),
lists the windows again (`EndPage`), and after the last page publishes the matches
(`ApplyHubMatches`, `WriteFlag`).  A focused window that is matched queues one job
(`HandleFocus`), which preempts the refresh: the worker asks the resolver again
(`FocusProbe`), looks at the focus and the windows (`FocusLook`), and acknowledges
(`FocusAcknowledges`).  Each action is one section under the condition or the thread lock,
or one call out of the process, so events, snapshots, losses and commands fall between any
two.  A window list and the active window, which are two calls, are one step.

The generation and the desktop epoch are counters that are only compared with a value read
before: `overtaken` and `since` say whether they differ.  Times are two facts: the passive
interval is over (`due`), the time to retry is not reached (`backoff`).  A claim is its
stamp; an agent is in at most one window (`where`), which is what the resolver answers as
long as its call does not fail.  A snapshot and its callback are one step, and so are a
loss and its status; `Lose` and `ClearHubMatches` are two.  The file of matches is at first
the one that an earlier service left.

| property | what it says |
|---|---|
| `ReprovenAfterLoss` | after a lost stream, no agent is matched without having been asked about since: not by a refresh under way, not by pages, the file or fingerprints of before |
| `FocusAcknowledgesWhatWasSeen` | a focus acknowledges only the claim that stood when it happened and stands now, of an agent found in that window after the focus, and proven since the last loss |
| `OneDesktopPerSweep` | no match of page one is published with the windows of page two |
| `ClaimsAreMatched` | pending claims end up matched with their windows and others unmatched; no wake-up is lost among coalesced refreshes, restarted sweeps, preemptions and losses |
| `UnavailableNeverAcknowledges` | nothing is acknowledged by a focus while the Hub is disconnected: violated |

Runs: `worker` (two agents and pages of one, so that every sweep of both has two pages; two
windows, one there from the start; claims with one stamp; three changes in all, where a
change is a new snapshot, a loss, an act of the user or a failing call) and
`worker_offline`, a violation.  Three changes are enough for a snapshot, a focus or loss
during the refresh it started, and a third thing in between; each of the mutants listed in
`PROJECT.json` is found within them.

Fairness: the worker, the main thread and the callback of a lost stream run (weak
fairness); time passes (strong fairness, since its effect waits for an idle worker).  No
snapshot, no user and no command is fair.

`ClaimsAreMatched` names what the code does not make good by itself:
- An inventory (`get_clients`) that fails makes the claims it did not match *known*
  (line 790).  They are looked at again when something else asks for a refresh after five
  seconds; nothing does so by time (`refresh_hub_attention` has no caller).  If it failed
  when all claims had gone, their matches and tags stay until a new claim, a close, or a
  loss, although the comment at line 834 wants the removal committed immediately.
- The commit compares the epoch and writes the dirty flag without the condition's lock
  (line 990): an event in between is forgotten (`slipped`).
- A claim whose source is away at the moment its match is accepted, and back before the
  next refresh, is known and unmatched (`slipped`).
Both are made good by the next refresh that something asks for.

## 7. A click: `OpenTarget`

Each click is a process of its own.  Its steps follow `open_target`: `Begin` constructs the
client from the files and fetches a snapshot; `ListWindows`, `Resolve`; with a window
`Recheck`, `Focus`; without one `Intent`, `Verify`, `Rebind`, `Plan`, `Final`, `Reserve`,
`Launch`; then `Acknowledge` and `ClearIntent`.  Every step may refuse, and the process may
be killed after each.  What was launched goes on by itself (`Starts`, `Breaks`,
`DropsRecord`, `FallsBack`: the script of `TRANSPORT_LAUNCH_SCRIPT`), becomes a window and
shows the agent once it is attached; an et or mosh session that ends with an error later
goes the same way as one that did not start.  The script removes whatever record is there,
also one that was right: only that the failed one goes is claimed.  Around the clicks agents ask, stop, move to another session or end,
windows close or turn to something else, a source is lost, transports stop reaching the
machine, reservations and records age, and the daemon accepts the roster of the moment (one
step here; `HubLedger` takes it apart).

The resolver's answer is nondeterministic within what the run of `ProcessScan` shows: a
window that showed the agent all along, and that the resolver can recognize, is neither
passed over nor reported absent.

| property | what it says |
|---|---|
| `OnlyServedIsAcknowledged` | what is acknowledged was focused, opened or dismissed: never a newer request that came meanwhile |
| `NoDuplicateTerminal` | no terminal is opened while a recognizable window has shown the agent since the windows were listed: an unreadable inventory is not an empty one |
| `VerifiedSessionIsOpened` | the terminal attaches the session in which the process was verified, however the roster moved in between |
| `ReservationHasOwner` | a reservation belongs to a click that is launching, or was killed, or launched and was then refused its acknowledgement |
| `WrongRecordIsDropped` | a recorded transport that failed to start, or broke, on a reachable machine is forgotten |
| `OneTerminalPerClaim` | no claim gets two terminals: violated |

Runs: `open` (two clicks or dismissals on this machine with a window that shows the agent,
shows nothing, or is not there; one click on another machine, with and without
recorded capabilities, under several working transports, preferences and installed
clients; two changes)
and `open_twice`, a violation without any change.  Clicks meet only in the files, so two of
them show the races of any number.

## 8. Window matching: `Ancestry`, `ProcTable`, `WindowMatch`, `ProcessScan`

`ProcTable` is `/proc` while processes fork, load programs, exit and are reaped, and PIDs
are used again; orphans go to init.  `ProcessScan` is one `LinuxCollector.collect` for a
target on this machine: for each window the breadth-first scan of `_descendants`, in which
`_node` reads the stat, command line, stat, command line, the parent's stat and the stat
again, and a zombie is left out only after three reads; then the target itself or the tmux
clients.  The deadline may pass at any time.  `Decide` applies `WindowMatch` to what was
read: `StrictAnswer` for `resolve` and `revalidate`, `MatchAnswer` for `match`, and `Chosen`,
the adapter's pick.  All climbs are one operator, `Above`, the least set that holds a
process and the parents of its members, so a climb has no bound of its own.

A request is asked of a table the kernel may have (`Forest`: a process is younger than its
parent, which has not ended, or is an orphan).  A target in tmux is looked for by a match
only, through the clients that tmux lists, because what a strict request reads of tmux is not
modelled (`ScanAssumption`).  Two history variables say what was true: `steady`,
the pairs of a window and a *witness* — the target, or a client at its pane — that held all
through, and `shown`, the processes that were a witness at some time.

| property | what it says |
|---|---|
| `AbsenceIsProven` | "no window qualifies" is never answered while a window held the target all through the collection |
| `ProvenWindowHeldTheTarget` | a window picked for its process tree did have the target below it at some time |
| `RecordedParentsWereReal` | a recorded parent was the parent at one moment: no reused PID in its place |
| `StrictPickIsTheOnlyOne` | a strict answer picks no window while another holds the target as well |
| `ProofOutranksHints` | a title or launch line never outranks a soundly read window that holds the target: what is picked had a witness or the target below it at some time, or its own process is gone |

Run `resolve`: two windows, four PIDs, seven requests (an agent below a shell, tmux clients,
a terminal that is the agent, two windows of one process; all three operations), two kernel
events anywhere in the scan, trees of at most three nodes.  Two events are what a mistaken
parent takes (an exit and a fork that reuses the PID); with trees of three both the
complete and the truncated scan occur.

Assumed: orphans are adopted by init; each process has one thread, so that `children` is
one file; the command line and the sockets of a process are read at once.
`AbsenceIsProven` and `StrictPickIsTheOnlyOne` hold as far as this does: the code reads the
children of each thread one after the other, and a subreaper would adopt orphans instead.

## 9. What is proved

Assumptions: `LedgerAssumption`, `NullAssumption`, `StreamAssumption`, `TagsAssumption`,
`WorkerAssumption`, `ClickAssumption`, `ProcTableAssumption`, `ScanAssumption` — the
constants have their types, the null values differ from the data, in `ResolverWorker` the
agents and in `ProcTable` the PIDs are finitely many, in `OpenTarget` the Hub stamps every
report, and `ProcessScan` is asked what section 8 says.  No bound is fixed.

`HubLedgerProofs`
- `TypeCorrect`: `Spec => []TypeOK`; it needs that alerts in hand refer to reports of
  the frame in hand (`AlertsReported`).
- `LedgerImplementsInbox`: `ImplementsInbox`, when the Hub stamps every report; a merge
  is an `Update` and a granted acknowledgement a `Handle` (`MergeUpdates`,
  `AcknowledgeHandles`).
- `NothingLost`: `NoLostClaim`.  It is not inductive alone.  `LedgerInv` adds
  `Chronology` (everything stored is from the Hub's past), `InFrame` (what is stored
  and still stands is also in the frame being accepted) and `Coverage` (what the
  daemon's memory holds and still stands is covered; between decision and merge, what
  is not yet covered is among the alerts).
- `SnapshotIsAuthoritative`: `OnlyNewerClaimsOutliveTheirAgent`, with stamps or without; with
  the types it is inductive.
- `NewRequestsAppear`: `NewRequestShows`, when the Hub stamps every report (without that it
  is false: finding 1).  `OldStamps` says that nothing acknowledged, captured or announced is
  ahead of the Hub's clock as the agent's machine shows it, nor of the report the agent has now.
- `NothingReplayed`: `NoReplayedAlert`, when the Hub stamps every report.  `HeardInv`: what was
  announced is known from `hub-snapshot.json`, which is written before anything is announced,
  and from every roster the daemon decides with; so the alerts in hand are news
  (`AlertsAreNews`), also after a crash anywhere between the two.

`HubStreamProofs`
- `TypeCorrect`: with the bound of the event queue.
- `StreamImplementsAuthority`, for a service with no thread in `status()` — today's: no
  caller of `status()` or `connected` exists in the service process.  `AuthorityInv` says that a
  live stream is one whose owner still consumes it under the current generation (or is
  stopping), that suspended means so, and that owner and sleep watcher never both owe a
  notice.
- `ShownIsTrue`: `ShownLiveIsLive`, under the same assumption.  `FileInv` says when a file
  of this process may say live, that a suspend whose write is still due owns the
  generation (so the write will land), and that the attempt of a suspended client is of
  an earlier generation (so neither its frames nor its heartbeats can write "live").

`AttentionTagsProofs`
- `TypeCorrect`; `Attending` (a thread in the section of `attend` has a window) makes it
  inductive.
- `TagsAreOwned`, `CleanStop`, `OwnedTagsKept`, `NothingResurrected`: from `OwnInv`.
  `NoStrays` says that a tag is owned, cleared or left by a crash; it needs `CopyFollows`
  (the service's copy of the list holds what is stored, and more only where a command
  cleared), `Sections` (what a section relies on between its two steps still holds),
  `JobsMatch` (a focus job is about the window its agent is matched with, because a new
  job ends every refresh) and `ClosedEvents` (a window whose close event is on its way
  is closed).
- `FocusUnlists`: `FocusedIsNotListed`, from `FocusInv`: the focused window is neither
  listed nor about to be, or its focus event is still to come.

`ResolverWorkerProofs`, all from one inductive invariant, `IInv`
- `TypeCorrect`; that a sweep has done only what it asks for needs `PageOfSweep`: the page
  under way is a part of what its sweep has left, unless the job is overtaken.
- `OneDesktop`: `OneDesktopPerSweep`; the page's desktop is the one of the sweep's signature.
- `Reproven`: `ReprovenAfterLoss`.  It is not inductive: results are carried by the sweep,
  the file, the page and the commit.  Each is proven since the last loss, is going to be
  asked about (`SweepProven`, `PageOfSweep`), or belongs to a job that is overtaken
  (`CommitProven`, `ListProven`); and the file, which a loss leaves as it is, is proven unless
  the next refresh asks about every claim (`IntervalProven`).
- `FocusAcknowledgement`: `FocusAcknowledgesWhatWasSeen`, from `MatchesProven` and what the
  probe of the focus has found (`FocusProven`).

`OpenTargetProofs`, all from one inductive invariant, `IInv`, for any number of clicks, agents
and windows, and for every starting point
- `TypeCorrect`: with what `TypeOK` says of a terminal: its transport is one for the machine
  of the agent, and its client is installed.
- `OnlyServed` (`OnlyServedIsAcknowledged`), `VerifiedSession` (`VerifiedSessionIsOpened`),
  `NoDuplicate` (`NoDuplicateTerminal`): from `Grounded`, which says what a click knows at
  each of its steps: that its claim is served once it acknowledges, that the place it goes to
  is the proven one from the first rebind on, and that from the answer "no window" to the
  launch no recognizable window has shown the agent all along.
- `ReservationsOwned` (`ReservationHasOwner`): from `Reserved`, which keeps the terminal of an
  owner that acknowledges, so that its refusal leaves it an owner.
- `WrongRecords` (`WrongRecordIsDropped`): needs `Recorded`: a click that has yet to probe has
  left its name in no record, plan or terminal, so that a new record is never one that a
  terminal has already failed on.

`WindowMatchProofs`: lemmas for any observations.  What `Above` is, and its monotony and
transitivity; a graph of distinct PIDs whose nodes are younger than their parents has no
cycle (`Acyclic`); nodes of everything on the way let the climb reach the window's process
(`ClimbReaches`), and a climb through true links was true (`ClimbWasTrue`); a score of 92 or
more needs a proof (`ScoreMeans`), and the adapter picks one of the best scores
(`ChosenIsBest`).  Where one would use induction over numbers, a least element is taken
(`LeastNatural`).

`ProcessScanProofs`, all from one inductive invariant, `IInv` (`Invariance`), for any number
of PIDs, programs, windows and kernel events, any table and request that `ScanAssumption`
allows, any bound of the scan, and any reading of command lines (`Hints`, `NamesAgent`)
- `TypeCorrect`: `TypeOK`.
- `ParentsWereReal` (`RecordedParentsWereReal`): from `NodesInv` and `ReadInv`, what each
  read of `_node` has established.  That a PID is not taken for its parent between two reads
  rests on `KernelInv`: all pairs that were ever true go from a process to an older one.
- `PickedWindowHeldTheTarget` (`ProvenWindowHeldTheTarget`): a climb in the nodes that were
  read follows pairs that were true.
- `NoWindowIsMissed` (`AbsenceIsProven`), `StrictPickIsUnique` (`StrictPickIsTheOnlyOne`): from
  `ScanInv`.  Of the way from a steady witness up to the window's process, the top is taken or
  queued, what is taken has its node, and below what is taken comes what is taken or queued; so
  when the queue is empty the whole way was read (`WholePath`), and a sound observation has a
  node of all of it (`Covers`).  The same for tmux clients is `ClientInv`.
- `HintsNeverOutrankProof` (`ProofOutranksHints`): needs `Later` too: a client that is
  identified late may be a process that has just got the PID, which then is none of the nodes
  read before.

`IInv` and its parts were first checked by TLC on the instance of `resolve`.

**Only model-checked**: the liveness properties `EventuallyCovered`, `EventuallyLive`,
`ResumeWakes`, `DeadStreamLeft`, `ReadersEnd`, `TagsRepaired`, `FocusClears` and
`ClaimsAreMatched`; fairness and ENABLED are out of the prover's reach.  The theorems about
`ImplementsAuthority` and `ShownLiveIsLive` leave out a thread in `status()`, and the
deliberately violated properties are shown by TLC alone.

## 10. Findings

1. `ledger_missing_stamps` (`NewRequestShows`): acknowledging a claim that came without
   `observedAtUnixMs` records `null`, and `is_acknowledged` then holds for every later
   request of that agent, while the README promises that a genuinely new request
   appears again.
2. `stream_late_write` (`FreshSnapshotKept`): the resume writes "reconnecting" after it
   released the lock, guarded by the generation only; if the owner has already connected
   under that generation and accepted a snapshot, its "live" is overwritten until the
   next heartbeat.  A comment in `status()` says that must not happen.
3. `tags_command` (`LastOwnerClears`): a command clears a window; before the service
   reloads the list, the worker tags the window for a Hub claim and the stream is lost.
   `clear_hub_matches` asks `_attention_owned`, which still finds the window in the old
   copy, and leaves the tag; afterwards nobody knows of it.  The border stays until the
   window asks again, closes, or the service restarts, while
   `docs/pulse-border-regression.md` lets it stay only until the last owner clears.
4. `open_twice` (`OneTerminalPerClaim`): the second of two clicks looks at the pending claims
   for the last time, the first reserves, launches, acknowledges and releases its
   reservation, and the second reserves and launches again, although `reserve_launch` is
   meant to grant "one click-to-launch attempt for an exact claim".
5. `worker_offline` (`UnavailableNeverAcknowledges`): a disconnect keeps the cached snapshot
   and the pending claims; a desktop event then refreshes, matches and tags them again, and
   focusing such a window acknowledges its claim while its row is unavailable, which the
   README says never happens.

Seen while modelling, without a run:
- `docs/desktop-scan-failure.md:19` says that PID reuse remains an error.  A scan for `match`
  that begins at the reused PID of a window's process completes without one, and its nodes
  count; `_candidate_current` refuses the focus later.  `ProofOutranksHints` and its `RootLost`
  allow for it.
- `README.md:304` says that the row stays unacknowledged if the connection fails.  That is so
  up to the preflight; once `Popen` has succeeded the claim is acknowledged, whatever the
  terminal meets.

## 11. Not modelled

- Corrupt or missing files (read as empty), a full disk, and two services at once.
- A source clock that steps back: outside the contract of `observedAtUnixMs`.  A snapshot
  without a time of its own: the merge then knows no newer claim (line 1576).
- The wire format of the stream beyond good, malformed and end; events of a type the
  client ignores; keep-alive options.
- The GLib loop that delivers sleep signals, and starting a client again after `stop`.
- In `AttentionTags`, calls to the compositor that fail: the code swallows or logs most of them and the next
  pulse or restart repairs what it can.  `refresh_window`, which rewrites the title and
  place of a listed window, and the history file and the sound.
- A stop by a failing notification monitor, which may overlap the cleanup; the unit
  restarts the service then.
- Notifications, the probe, release scripts: I/O only.
- In `ResolverWorker`: tags and the stop (`AttentionTags` has them), an `active_address` that
  fails while the window list does not, and a desktop that changes and changes back between
  two pages, whose fingerprint is then the same (no window opens twice here).
- In `OpenTarget`: the click on a native row, which is one call; the daemon's worker
  acknowledging at the same time (`HubLedger` has it); files that cannot be written.  The
  script's probe over ssh, its `rm` and the start of the fallback are one step, with nothing
  of the other machine in between.
- In window matching: the commands that read tmux and other machines, whose outcome is an
  input; the prober of transports; the wire schema; the depth bound of a scan, 64.  What
  `revalidate` and the adapter check before they ask or after (`_target_equal`, windows
  listed twice): it only refuses.  The scoring of a window by its connection to another
  machine (`RemoteLinks`, `ClientEndpoints`, the transport hints of `HintScore`) is written
  down, but every request of the run is for this machine: no property rests on it.
- The panel (`Panel.qml`, `Selection.js`): QML run by another process; what its commands do to
  the shared state is in `HubLedger`, `OpenTarget` and `AttentionTags`.
- The installer, a sequential script; the command line's layout of rows.
