---------------------------- MODULE ResolverWorker ---------------------------
(***************************************************************************)
(* The resolver worker of payload/window-attention: the queue that the Hub *)
(* threads and the compositor events fill, the refresh that matches        *)
(* pending claims with windows one page at a time, and the revalidation of *)
(* a focused window that acknowledges its claim.  The actors are the       *)
(* worker, the main thread with the compositor and its user, the Hub       *)
(* threads, and commands that acknowledge.                                 *)
(*                                                                         *)
(* A claim is the stamp of an agent's report, 0 when no reporting source   *)
(* lists the agent.  The resolver answers the window in which it finds the *)
(* agent (ProcessScan is its model), or nothing.  The worker's steps are   *)
(* its sections under the condition or the thread lock, and its calls.     *)
(* Tags, and a stop of the service, are in AttentionTags.                  *)
(***************************************************************************)
EXTENDS Naturals, Sequences, FiniteSets

CONSTANTS Agents, Windows,
          Restored,   \* the window that is there when the service starts
          Nothing,    \* no window, no desktop, no job (Python None)
          PageSize,   \* MAX_HUB_RESOLVES_PER_REFRESH
          MaxStamp,   \* bound on the claims of an agent
          MaxChanges  \* bound on new snapshots, lost streams, acts of the user and
                      \* failing calls, together

VARIABLES
    stream,           \* the Hub stream: live, lost (on_disconnect is due) or down
    roster, acks,     \* the cached snapshot's claims, the acknowledged stamps
    open, focus,      \* the compositor's windows, and the active one
    where,            \* the window in which an agent runs
    unopened,         \* windows that open later; none opens twice
    events,           \* compositor events on their way to the main thread
    pending, focusJob, dirty,  \* the condition's
    known,            \* _resolver_agent_fingerprints
    seenDesktop,      \* _resolver_clients_fingerprint
    due, backoff,     \* the passive interval is over, retry_at is not
    sweep,            \* _resolver_sweep_signature, _ids, _cursor, _matches
    matches, cache,   \* hub_matches with their proofs, hub-match-cache.json
    pc, job,          \* where the worker is, and its locals
    overtaken,        \* the generation is not the one of its job
    since,            \* the desktop epoch is not the one it has read
    proven,           \* history: agents probed since the last loss
    slipped,          \* history: an event or a claim slipped through a commit
    failed,           \* history: a call failed
    changes           \* how many so far

hub       == <<stream, roster, acks>>
desktop   == <<open, focus, where, unopened>>
queue     == <<pending, focusJob, dirty>>
metadata  == <<known, seenDesktop, due, backoff, sweep>>
published == <<matches, cache>>
locals    == <<pc, job>>
worker    == <<locals, overtaken, since>>
history   == <<proven, slipped, failed>>
vars == <<hub, desktop, events, queue, metadata, published, worker, history, changes>>

Places   == Windows \cup {Nothing}
Stamps   == 0..MaxStamp
Claims   == [Agents -> Stamps]
Matches  == [Agents -> Places]
Desktops == (SUBSET Windows) \X Places \X Matches

\* Claims, the desktop, and the agents to ask about.
Signatures == Claims \X Desktops \X (SUBSET Agents)

ASSUME WorkerAssumption ==
    /\ IsFiniteSet(Agents)
    /\ Nothing \notin Windows /\ Nothing \notin Signatures /\ Restored \in Windows
    /\ PageSize \in Nat \ {0}
    /\ MaxStamp \in Nat /\ MaxChanges \in Nat

NoClaim == [a \in Agents |-> 0]
NoMatch == [a \in Agents |-> Nothing]
Keys(f, null) == {a \in Agents : f[a] # null}
Only(f, S, null) == [a \in Agents |-> IF a \in S THEN f[a] ELSE null]

\* pending_agents of reporting sources: the claims that nothing covers.
PendingClaims == [a \in Agents |-> IF roster[a] > acks[a] THEN roster[a] ELSE 0]
Showing(w) == {a \in Agents : matches[a] = w}

NoSweep == [signature |-> Nothing, ids |-> {}, done |-> {}, found |-> NoMatch,
            desktops |-> {}]
IdleJob == [agents |-> NoClaim, all |-> FALSE, fresh |-> FALSE,
            desktop |-> Nothing, page |-> {}, todo |-> {}, found |-> NoMatch]

Sweeps == [signature : Signatures \cup {Nothing}, ids : SUBSET Agents,
           done : SUBSET Agents, found : Matches, desktops : SUBSET Desktops]
FocusJobs == [agent : Agents, window : Windows, claim : Stamps]
FocusLocals == [agent : Agents, window : Windows, claim : Stamps, found : Places,
                seen : BOOLEAN]
RefreshLocals == [agents : Claims, all : BOOLEAN, fresh : BOOLEAN,
                  desktop : Desktops \cup {Nothing}, page : SUBSET Agents,
                  todo : SUBSET Agents, found : Matches]

TypeOK ==
    /\ stream \in {"live", "lost", "down"} /\ roster \in Claims /\ acks \in Claims
    /\ open \subseteq Windows /\ focus \in open \cup {Nothing}
    /\ where \in [Agents -> open \cup {Nothing}] /\ unopened \subseteq Windows \ open
    /\ events \in Seq({"desktop", "focus", "close"} \X Places)
    /\ pending \in BOOLEAN /\ dirty \in BOOLEAN /\ since \in BOOLEAN /\ overtaken \in BOOLEAN
    /\ due \in BOOLEAN /\ backoff \in BOOLEAN /\ slipped \in BOOLEAN /\ failed \in BOOLEAN
    /\ focusJob = Nothing \/ focusJob \in FocusJobs
    /\ known \in Claims /\ seenDesktop \in Desktops \cup {Nothing}
    /\ sweep \in Sweeps /\ sweep.done \subseteq sweep.ids
    /\ matches \in Matches /\ cache \in Matches
    /\ pc \in {"idle", "read", "list", "probe", "commit", "flag",
               "focus", "look", "acknowledge"}
    /\ job \in IF pc \in {"focus", "look", "acknowledge"} THEN FocusLocals
               ELSE RefreshLocals
    /\ proven \subseteq Agents
    /\ changes \in 0..MaxChanges

\* The file of matches is the one that the service before this one has left.
Init ==
    /\ stream = "down" /\ roster = NoClaim /\ acks = NoClaim
    /\ open = {Restored} /\ focus = Nothing /\ where = [a \in Agents |-> Restored]
    /\ unopened = Windows \ open /\ events = <<>>
    /\ pending = FALSE /\ focusJob = Nothing
    /\ dirty = FALSE
    /\ known = NoClaim /\ seenDesktop = Nothing /\ due = TRUE /\ backoff = FALSE
    /\ sweep = NoSweep
    /\ matches = NoMatch /\ cache = [a \in Agents |-> Restored]
    /\ pc = "idle" /\ job = IdleJob /\ overtaken = FALSE /\ since = FALSE
    /\ proven = {} /\ slipped = FALSE
    /\ failed = FALSE /\ changes = 0

\* The worker holds the thread lock between two of its steps.
ThreadLockFree == pc # "flag"
-----------------------------------------------------------------------------
(* The desktop, its user, and time.                                         *)

Change == changes < MaxChanges /\ changes' = changes + 1

\* handle first queues a refresh for the event, then attends to its kind.
Emit(kind, w) == events' = events \o << <<"desktop", Nothing>>, <<kind, w>> >>

DesktopOnly == UNCHANGED <<hub, queue, metadata, published, worker, history>>

\* A terminal of some agents opens.
Open(w, shown) ==
    /\ w \in unopened /\ Change
    /\ open' = open \cup {w} /\ unopened' = unopened \ {w}
    /\ where' = [a \in Agents |-> IF a \in shown THEN w ELSE where[a]]
    /\ events' = Append(events, <<"desktop", Nothing>>)
    /\ UNCHANGED focus /\ DesktopOnly

Close(w) ==
    /\ w \in open /\ Change
    /\ open' = open \ {w}
    /\ focus' = IF focus = w THEN Nothing ELSE focus
    /\ where' = [a \in Agents |-> IF where[a] = w THEN Nothing ELSE where[a]]
    /\ Emit("close", w)
    /\ UNCHANGED unopened /\ DesktopOnly

Focus(w) ==
    /\ w \in open /\ focus # w /\ Change
    /\ focus' = w
    /\ Emit("focus", w)
    /\ UNCHANGED <<open, where, unopened>> /\ DesktopOnly

\* An agent leaves its window, whose title changes.
Leave(a) ==
    /\ where[a] # Nothing /\ Change
    /\ where' = [where EXCEPT ![a] = Nothing]
    /\ events' = Append(events, <<"desktop", Nothing>>)
    /\ UNCHANGED <<open, focus, unopened>> /\ DesktopOnly

\* Five seconds pass since the last complete resolve, or since a failure; it matters
\* to the refresh that begins next.
IntervalEnds ==
    /\ pc = "idle" /\ ~due /\ due' = TRUE
    /\ UNCHANGED <<hub, desktop, events, queue, known, seenDesktop, backoff, sweep,
                   published, worker, history, changes>>

BackoffEnds ==
    /\ pc = "idle" /\ backoff /\ backoff' = FALSE
    /\ UNCHANGED <<hub, desktop, events, queue, known, seenDesktop, due, sweep, published,
                   worker, history, changes>>
-----------------------------------------------------------------------------
(* The queue.                                                               *)

\* The worker has a job; it has read the epoch and will compare it.  Both counters
\* are only compared with what it read.
Working == pc # "idle"
Reading == pc \in {"list", "probe", "commit"}

NextEvent(kind, w) == events # <<>> /\ Head(events) = <<kind, w>> /\ events' = Tail(events)

\* _queue_resolver_refresh(desktop_dirty=True).
HandleDesktop ==
    /\ NextEvent("desktop", Nothing)
    /\ dirty' = TRUE /\ pending' = TRUE /\ since' = Reading
    /\ slipped' = (slipped \/ pc = "flag")
    /\ UNCHANGED <<hub, desktop, focusJob, overtaken, metadata, published, locals, proven,
                   failed, changes>>

\* Mutant of KeepsRefresh: the refresh that a focus preempts is not queued again.
KeepsRefreshIfQueued == pending

\* A focus job may preempt a refresh, which is then queued again.
KeepsRefresh == TRUE

\* clear(w, "focused"): _queue_focus_revalidation of a matched agent.
HandleFocus(w) ==
    /\ NextEvent("focus", w) /\ ThreadLockFree
    /\ IF Showing(w) = {} THEN UNCHANGED <<queue, overtaken, since>>
       ELSE /\ \E a \in Showing(w) :
                  focusJob' = [agent |-> a, window |-> w, claim |-> roster[a]]
            /\ pending' = KeepsRefresh
            /\ dirty' = TRUE /\ overtaken' = Working /\ since' = Reading
    /\ UNCHANGED <<hub, desktop, metadata, published, locals, history, changes>>

\* clear(w, "closed").
HandleClose(w) ==
    /\ NextEvent("close", w) /\ ThreadLockFree
    /\ matches' = [a \in Agents |-> IF matches[a] = w THEN Nothing ELSE matches[a]]
    /\ UNCHANGED <<hub, desktop, queue, metadata, cache, worker, history, changes>>

\* A complete snapshot is accepted, and on_hub_snapshot queues a refresh.  One that
\* says what the last one said is not counted.
Snapshot(claims) ==
    /\ stream # "lost"
    /\ \A a \in Agents : claims[a] = 0 \/ claims[a] >= roster[a]
    /\ stream' = "live" /\ roster' = claims /\ pending' = TRUE
    /\ IF claims = roster /\ stream = "live" THEN UNCHANGED changes
       ELSE Change
    /\ UNCHANGED <<acks, desktop, events, focusJob, dirty, metadata, published, worker,
                   history>>

Lose ==
    /\ stream = "live" /\ Change
    /\ stream' = "lost"
    /\ UNCHANGED <<roster, acks, desktop, events, queue, metadata, published, worker, history>>

\* Mutant of SweepAfterLoss: the pages resolved before the loss are kept.
SweepAfterLossKept == sweep

SweepAfterLoss == NoSweep

\* clear_hub_matches.
ClearHubMatches ==
    /\ stream = "lost" /\ ThreadLockFree
    /\ stream' = "down"
    /\ matches' = NoMatch
    /\ overtaken' = Working /\ since' = Reading
    /\ pending' = FALSE /\ focusJob' = Nothing /\ dirty' = FALSE
    /\ known' = NoClaim /\ seenDesktop' = Nothing /\ due' = TRUE /\ backoff' = FALSE
    /\ sweep' = SweepAfterLoss
    /\ proven' = {}
    /\ UNCHANGED <<roster, acks, desktop, events, cache, locals, slipped, failed, changes>>

\* A command acknowledges the claim it sees.
CommandAcknowledges(a) ==
    /\ PendingClaims[a] # 0 /\ Change
    /\ acks' = [acks EXCEPT ![a] = roster[a]]
    /\ UNCHANGED <<stream, roster, desktop, events, queue, metadata, published, worker,
                   history>>
-----------------------------------------------------------------------------
(* The worker takes a job.                                                  *)

TakeFocus ==
    /\ pc = "idle" /\ focusJob # Nothing
    /\ pc' = "focus"
    /\ job' = [agent |-> focusJob.agent, window |-> focusJob.window,
               claim |-> focusJob.claim, found |-> Nothing, seen |-> FALSE]
    /\ focusJob' = Nothing
    /\ UNCHANGED <<hub, desktop, events, pending, dirty, overtaken, since, metadata, published,
                   history, changes>>

TakeRefresh ==
    /\ pc = "idle" /\ focusJob = Nothing /\ pending
    /\ pc' = "read"
    /\ pending' = FALSE
    /\ UNCHANGED <<hub, desktop, events, focusJob, dirty, job, overtaken, since, metadata,
                   published, history, changes>>

Done == pc' = "idle" /\ job' = IdleJob /\ overtaken' = FALSE /\ since' = FALSE

\* The check before every section that writes.
StillCurrent == ~overtaken

\* A call of the worker fails, or none does.
Fail == Change /\ failed' = TRUE
Work == UNCHANGED <<failed, changes>>

\* The worker's job ends and leaves everything as it is.
GiveUp ==
    /\ Done
    /\ UNCHANGED <<hub, desktop, events, queue, metadata, published, proven, slipped>>
-----------------------------------------------------------------------------
(* _run_resolver_refresh: is there something to do?                         *)

KnownIds == Keys(known, 0)
MembershipChanged(agents) == Keys(agents, 0) # KnownIds
ChangedIds(agents) == {a \in Keys(agents, 0) : known[a] # agents[a]}
SweepContinues == sweep.signature # Nothing /\ sweep.done # sweep.ids
InitialRefresh == seenDesktop = Nothing /\ known = NoClaim

\* What lets a refresh go on, during a backoff and otherwise.
Urgent(agents) ==
    MembershipChanged(agents) \/ ChangedIds(agents) # {} \/ dirty \/ SweepContinues
Worthwhile(agents) ==
    /\ backoff => Urgent(agents)
    /\ Urgent(agents) \/ due \/ InitialRefresh

\* No claim, now or before, and nothing shown: the desktop is not asked.
NothingToMatch(agents) ==
    agents = NoClaim /\ known = NoClaim /\ matches = NoMatch /\ ~SweepContinues

\* The claims and the flags are read.
ReadClaims ==
    /\ pc = "read"
    /\ \/ /\ ~Worthwhile(PendingClaims)
          /\ Done /\ UNCHANGED <<backoff, dirty>>
       \/ /\ Worthwhile(PendingClaims) /\ NothingToMatch(PendingClaims)
          /\ Done
          /\ IF StillCurrent THEN backoff' = FALSE /\ dirty' = FALSE
             ELSE UNCHANGED <<backoff, dirty>>
       \/ /\ Worthwhile(PendingClaims) /\ ~NothingToMatch(PendingClaims)
          /\ pc' = "list"
          /\ job' = [job EXCEPT !.agents = PendingClaims,
                                !.all = InitialRefresh \/ dirty \/ due,
                                !.fresh = InitialRefresh \/ due]
          /\ UNCHANGED <<backoff, dirty, overtaken, since>>
    /\ UNCHANGED <<hub, desktop, events, pending, focusJob, known, seenDesktop, due, sweep,
                   published, history, changes>>
-----------------------------------------------------------------------------
(* _run_resolver_refresh: the next page of the sweep.                       *)

\* _resolver_desktop_fingerprint: windows, their titles and the active one.  As no
\* window opens twice, a desktop that changed never looks again as it did before.
Desktop == <<open, focus, where>>

\* What a failing inventory leaves: the claims count as known.
InventoryFails(listed) ==
    /\ Fail /\ Done
    /\ IF StillCurrent
       THEN /\ known' = job.agents /\ seenDesktop' = listed
            /\ backoff' = TRUE /\ dirty' = since
       ELSE UNCHANGED <<known, seenDesktop, backoff, dirty>>
    /\ UNCHANGED <<hub, desktop, events, pending, focusJob, due, sweep, published, proven,
                   slipped>>

Targets == IF job.all \/ Desktop # seenDesktop THEN Keys(job.agents, 0)
           ELSE ChangedIds(job.agents)

\* Mutant of Signature: the desktop is left out.
SignatureOfClaims == <<job.agents, Targets>>

\* A sweep goes on as long as its claims, its desktop and its targets do.
Signature == <<job.agents, Desktop, Targets>>

CurrentSweep ==
    IF sweep.signature = Signature THEN sweep
    ELSE [NoSweep EXCEPT !.signature = Signature, !.ids = Targets]

\* Mutant of Page: the next claims, whether they are targets or not.
PageOfClaims(s) ==
    CHOOSE page \in SUBSET (Keys(job.agents, 0) \ s.done) :
        Cardinality(page) = IF Cardinality(Keys(job.agents, 0) \ s.done) < PageSize
                            THEN Cardinality(Keys(job.agents, 0) \ s.done) ELSE PageSize

Page(s) ==
    LET rest == s.ids \ s.done
    IN  CHOOSE page \in SUBSET rest :
            Cardinality(page) = IF Cardinality(rest) < PageSize THEN Cardinality(rest)
                                ELSE PageSize

\* Pages add to the pages before them, the first one to the file.
FoundSoFar(s) ==
    Only(IF s.done = {} THEN cache ELSE s.found, Keys(job.agents, 0), Nothing)

\* _accepted_hub_matches: the claims still reported whose window is there.
Accepted(found) ==
    [a \in Agents |-> IF job.agents[a] # 0 /\ roster[a] # 0 /\ found[a] \in open THEN found[a]
                      ELSE Nothing]

\* get_clients and active_address answer.
ListWindows ==
    /\ pc = "list"
    /\ LET s == CurrentSweep
       IN  \/ /\ Targets = {} /\ ~MembershipChanged(job.agents)
              /\ Done
              /\ IF StillCurrent THEN backoff' = FALSE /\ dirty' = since
                 ELSE UNCHANGED <<backoff, dirty>>
              /\ UNCHANGED sweep
           \/ /\ Targets # {} \/ MembershipChanged(job.agents)
              /\ s # sweep /\ ~StillCurrent
              /\ Done /\ UNCHANGED <<sweep, backoff, dirty>>
           \/ \* Claims only went away: they leave the file and the matches.
              /\ Targets # {} \/ MembershipChanged(job.agents)
              /\ s.ids = {} /\ StillCurrent
              /\ sweep' = s
              /\ pc' = "commit"
              /\ job' = [job EXCEPT !.desktop = Desktop, !.fresh = FALSE,
                                    !.found = Accepted(FoundSoFar(s))]
              /\ UNCHANGED <<backoff, dirty, overtaken, since>>
           \/ /\ s.ids # {} /\ (s = sweep \/ StillCurrent)
              /\ sweep' = s
              /\ pc' = "probe"
              /\ job' = [job EXCEPT !.desktop = Desktop, !.page = Page(s), !.todo = Page(s),
                                    !.fresh = job.fresh \/ Desktop # seenDesktop,
                                    !.found = FoundSoFar(s)]
              /\ UNCHANGED <<backoff, dirty, overtaken, since>>
    /\ UNCHANGED <<hub, desktop, events, pending, focusJob, known, seenDesktop, due,
                   published, history, changes>>

ListFails == pc = "list" /\ InventoryFails(seenDesktop)

\* The answer for an agent is one of the windows that were listed.
Answer(a) == IF where[a] \in job.desktop[1] THEN where[a] ELSE Nothing

\* A loss or a focus ends the page.
Preempted == ~StillCurrent \/ focusJob # Nothing

Probe(a) ==
    /\ pc = "probe" /\ a \in job.todo /\ ~Preempted
    /\ \/ job' = [job EXCEPT !.todo = @ \ {a}, !.found[a] = Answer(a)] /\ Work
       \/ job' = [job EXCEPT !.todo = @ \ {a}, !.found[a] = Nothing] /\ Fail
    /\ proven' = proven \cup {a}
    /\ UNCHANGED <<hub, desktop, events, queue, metadata, published, pc, overtaken, since,
                   slipped>>

ProbePreempted == pc = "probe" /\ Preempted /\ GiveUp /\ Work

\* The page is done; the desktop is listed once more.
EndPage ==
    /\ pc = "probe" /\ job.todo = {} /\ StillCurrent
    /\ sweep' = [sweep EXCEPT !.found = job.found, !.done = @ \cup job.page,
                              !.desktops = @ \cup {job.desktop}]
    /\ IF sweep'.done # sweep.ids
       THEN pending' = TRUE /\ Done
       ELSE /\ pc' = "commit" /\ job' = [job EXCEPT !.found = Accepted(job.found)]
            /\ UNCHANGED <<pending, overtaken, since>>
    /\ slipped' = (slipped \/ \E a \in sweep'.done : roster[a] = 0)
    /\ UNCHANGED <<hub, desktop, events, focusJob, dirty, known, seenDesktop, due, backoff,
                   published, proven, failed, changes>>

EndPageFails == pc = "probe" /\ job.todo = {} /\ InventoryFails(job.desktop)

\* _apply_hub_matches: the matches, their file and the metadata.  The flag to
\* write is decided here and written in the next step, under the thread lock.
ApplyHubMatches ==
    /\ pc = "commit" /\ StillCurrent
    /\ matches' = job.found /\ cache' = job.found
    /\ known' = job.agents /\ seenDesktop' = job.desktop
    /\ backoff' = FALSE /\ due' = (due /\ ~job.fresh) /\ sweep' = NoSweep
    /\ pc' = "flag" /\ job' = [IdleJob EXCEPT !.all = since] /\ since' = FALSE
    /\ UNCHANGED <<hub, desktop, events, queue, overtaken, history, changes>>

ApplyRefused == pc = "commit" /\ ~StillCurrent /\ GiveUp /\ Work

WriteFlag ==
    /\ pc = "flag"
    /\ dirty' = job.all
    /\ Done
    /\ UNCHANGED <<hub, desktop, events, pending, focusJob, metadata, published, history,
                   changes>>
-----------------------------------------------------------------------------
(* _run_focus_revalidation.                                                 *)

\* The claim the focus was about is the one that is reported.
SameClaim == job.claim # 0 /\ roster[job.agent] = job.claim

\* Mutant of Revalidated: the agent is still where it was matched.
RevalidatedByProof(a) == matches[a]

\* Only the window the agent was matched with is taken from the answer.
Revalidated(a) == IF where[a] = matches[a] THEN where[a] ELSE Nothing

FocusProbe ==
    /\ pc = "focus"
    /\ IF SameClaim /\ matches[job.agent] # Nothing
       THEN /\ pc' = "look"
            /\ job' = [job EXCEPT !.seen = (where[job.agent] = job.window),
                                  !.found = Revalidated(job.agent)]
            /\ UNCHANGED <<hub, desktop, events, queue, overtaken, since, metadata, published,
                           proven, slipped>>
       ELSE GiveUp
    /\ Work

\* The agent was found in the window of the focus, which is still active.
WindowFits == job.found = job.window /\ focus = job.window

FocusLook ==
    /\ pc = "look"
    /\ IF StillCurrent /\ SameClaim /\ WindowFits
       THEN /\ pc' = "acknowledge" /\ job' = job
            /\ UNCHANGED <<hub, desktop, events, queue, overtaken, since, metadata, published,
                           proven, slipped>>
       ELSE GiveUp
    /\ Work

FocusFails == pc \in {"focus", "look"} /\ Fail /\ GiveUp

FocusAcknowledges ==
    /\ pc = "acknowledge"
    /\ IF StillCurrent /\ SameClaim /\ acks[job.agent] <= job.claim
       THEN /\ acks' = [acks EXCEPT ![job.agent] = job.claim]
            /\ matches' = [matches EXCEPT ![job.agent] = Nothing]
            /\ Done
            /\ UNCHANGED <<stream, roster, desktop, events, queue, metadata, cache, proven,
                           slipped>>
       ELSE GiveUp
    /\ Work
-----------------------------------------------------------------------------
Refreshes ==
    \/ TakeRefresh \/ ReadClaims \/ ListWindows \/ ListFails
    \/ (\E a \in Agents : Probe(a)) \/ ProbePreempted \/ EndPage \/ EndPageFails
    \/ ApplyHubMatches \/ ApplyRefused \/ WriteFlag

Revalidates == TakeFocus \/ FocusProbe \/ FocusLook \/ FocusFails \/ FocusAcknowledges

MainThread == HandleDesktop \/ \E w \in Windows : HandleFocus(w) \/ HandleClose(w)

User ==
    \/ \E w \in Windows : Close(w) \/ Focus(w) \/ \E shown \in SUBSET Agents : Open(w, shown)
    \/ \E a \in Agents : Leave(a) \/ CommandAcknowledges(a)

Next ==
    \/ Refreshes \/ Revalidates \/ MainThread \/ User
    \/ IntervalEnds \/ BackoffEnds
    \/ (\E claims \in Claims : Snapshot(claims)) \/ Lose \/ ClearHubMatches

Spec == Init /\ [][Next]_vars

\* The worker and the main thread run, a lost stream is told, and time passes.
\* Nothing makes the Hub send a snapshot or the user act.
FairSpec ==
    /\ Spec
    /\ WF_vars(Refreshes \/ Revalidates) /\ WF_vars(MainThread) /\ WF_vars(ClearHubMatches)
    /\ SF_vars(IntervalEnds) /\ SF_vars(BackoffEnds)
-----------------------------------------------------------------------------
(* Properties.                                                              *)

\* After a loss, an agent is matched with a window only when the resolver was asked
\* about it since ("do not let a reconnect with the same roster skip re-proving its
\* windows"), although a refresh may be under way when the stream is lost and pages,
\* the file of matches and the fingerprints carry results from one refresh to the
\* next.
ReprovenAfterLoss ==
    [][\A a \in Agents : matches'[a] \notin {Nothing, matches[a]} => a \in proven]_vars

\* The pages of a sweep were all resolved on one and the same desktop: a match
\* of page one is never published with the windows that page two saw.
OneDesktopPerSweep == Cardinality(sweep.desktops) <= 1

\* A revalidation acknowledges a claim.
Acknowledges == pc = "acknowledge" /\ pc' = "idle" /\ acks' # acks

\* A focus acknowledges only the claim that was reported when the window was
\* focused and still is, whose agent was found in that window after the focus,
\* and whose match was proven after the last loss.
FocusAcknowledgesWhatWasSeen ==
    [][Acknowledges => /\ job.seen /\ job.agent \in proven
                       /\ acks'[job.agent] = roster[job.agent]]_vars

Unavailable == stream # "live"

\* Every pending claim is matched with the window of its agent; nothing else is matched.
AllShown == \A a \in Agents : PendingClaims[a] # 0 => matches[a] = where[a]
NoneElse == \A a \in Agents : PendingClaims[a] = 0 => matches[a] = Nothing

\* Pending claims are matched in the end, without another snapshot or event:
\* refreshes coalesce, pages restart, a focus preempts them and a loss forgets them,
\* and no wake-up is lost.  The exceptions are a call that failed, an event that
\* fell into the unlocked write of a commit, and a claim that was away just when
\* its match was accepted; these are made good when refreshes are asked for again
\* and again.  So are the matches of claims that went away, but for those that a
\* failed inventory has made known.
ClaimsAreMatched ==
    /\ []<>(AllShown \/ Unavailable \/ failed \/ slipped)
    /\ []<>pending => []<>((AllShown /\ (NoneElse \/ failed)) \/ Unavailable)

\* "Yoohoo ... never lets an unavailable row acknowledge": while the Hub is
\* disconnected, every row is unavailable.
UnavailableNeverAcknowledges ==
    [][Acknowledges => stream # "down"]_vars
=============================================================================
