----------------------------- MODULE OpenTarget -----------------------------
(***************************************************************************)
(* AttentionService.open_target of payload/window-attention: one process   *)
(* for each click on a Hub row, which resolves the claim's window and      *)
(* focuses it, or opens a terminal once no window qualifies, and then      *)
(* acknowledges the claim.  Clicks share the ledger's files, the launch    *)
(* reservations of hub-launches.json and the recorded transport            *)
(* capabilities; the Hub, the daemon, the desktop and the agents go on     *)
(* between the steps.                                                      *)
(*                                                                         *)
(* The ledger's decisions are those of HubClaims.  The daemon accepts a    *)
(* snapshot in one step here; HubLedger takes that step apart.  Of the     *)
(* window resolver the model takes what the run of ProcessScan shows.      *)
(***************************************************************************)
EXTENDS HubClaims, FiniteSets

CONSTANTS Clicks,      \* processes of open_target and dismiss, one click each
          Windows,     \* windows that are there when the behaviour begins
          NoWindow,
          Cases,       \* starting points: what is clicked, where, by which means
          MaxEvents    \* bound: changes around the clicks, kills included

VARIABLES
    case,        \* the starting point
    roster,      \* the Hub's snapshot
    place,       \* place[a]: the tmux session the Hub reports for a
    reporting,   \* whether the source of the agents is reporting
    acks, pending, saved,   \* the ledger's files
    memory,      \* _pending of the daemon
    launches,    \* hub-launches.json: launches[a] is the stamp of a reservation
    record,      \* the recorded capabilities of the machine
    pane,        \* pane[a]: the session a really runs in
    works,       \* the transports that reach the machine
    shows,       \* shows[w]: the agent window w shows; Absent when not open
    click,       \* click[p]: what the process of click p knows
    terminal,    \* terminal[p]: the terminal that click p opened
    served,      \* history: claims that were focused, opened or dismissed
    steady,      \* history: windows that showed p's agent since p asked for them
    events

ledgerVars == <<acks, pending, saved, memory>>
worldVars == <<roster, place, reporting, pane, works>>
vars == <<case, worldVars, ledgerVars, launches, record, shows, click, terminal,
          served, steady, events>>

AllWindows == Windows \cup Clicks     \* a click's terminal is the window of its name
Transports == {"et", "mosh", "ssh"}
NoRecord == [et |-> "unknown", mosh |-> "unknown", ssh |-> "unknown", by |-> "none"]
NoTerminal == [step |-> "none", place |-> 0, how |-> "none", fallback |-> "none",
               by |-> "none"]
Nobody == "nobody"                    \* an open window that shows no agent

Fresh == [pc |-> "idle", agent |-> CHOOSE a \in Agents : TRUE, stamp |-> None, place |-> 0,
          proven |-> 0, listed |-> {}, pick |-> NoWindow, previous |-> EmptyTable,
          memory |-> EmptyTable, plan |-> NoTerminal, caps |-> NoRecord]

\* Who recorded capabilities: a click, somebody before, nobody.
Recorders == Clicks \cup {"before", "none"}
Known == {"available", "unavailable", "unknown"}
Capabilities == [et : Known, mosh : Known, ssh : Known, by : Recorders]
Contents == Agents \cup {Nobody, Absent}
Places == 0..2
Terminals == [step : {"none", "starting", "attached", "stale", "fallback", "unreached",
                      "over ssh", "failed"},
              place : Places, how : {"none", "local"} \cup Transports,
              fallback : {"none", "ssh"}, by : Recorders]
Knowledge == [pc : {"idle", "list", "resolve", "recheck", "focus", "intent", "verify", "rebind",
                    "plan", "final", "reserve", "launch", "acknowledge", "clear", "done",
                    "refused", "killed"},
              agent : Agents, stamp : Stamps \cup {None}, place : Places, proven : Places,
              listed : SUBSET AllWindows, pick : AllWindows \cup {NoWindow},
              previous : Tables(Reports), memory : Tables(Reports), plan : Terminals,
              caps : Capabilities]

\* The Hub stamps every report here; HubLedger has the reports without a stamp.
ASSUME ClickAssumption ==
    /\ ~MissingStamps
    /\ Agents # {} /\ Agents \cap {Nobody, Absent} = {} /\ Nobody # Absent
    /\ Clicks \cap (Windows \cup {"before", "none"}) = {} /\ NoWindow \notin AllWindows
    /\ MaxEvents \in Nat
    /\ Cases \subseteq [clicks : SUBSET Clicks, remote : BOOLEAN, record : Capabilities,
                        works : SUBSET Transports, shows : [Windows -> Contents],
                        recognized : [AllWindows -> BOOLEAN],
                        preference : Transports \cup {"auto", "local"},
                        clients : SUBSET Transports]
    /\ \A c \in Cases : c.record.by \notin Clicks

Init ==
    \E c \in Cases :
        /\ case = c
        /\ roster = [a \in Agents |-> [state |-> "needs_attention", stamp |-> 1,
                                       present |-> TRUE]]
        /\ place = [a \in Agents |-> 1] /\ pane = place /\ reporting = TRUE
        /\ acks = EmptyTable /\ pending = roster /\ saved = roster /\ memory = roster
        /\ launches = EmptyTable
        /\ record = c.record /\ works = c.works
        /\ shows = [w \in AllWindows |-> IF w \in Windows THEN c.shows[w] ELSE Absent]
        /\ click = [p \in Clicks |-> Fresh]
        /\ terminal = [p \in Clicks |-> NoTerminal]
        /\ served = {} /\ steady = [p \in Clicks |-> {}] /\ events = 0

Open(table) == {w \in AllWindows : table[w] # Absent}
Showing(table, a) == {w \in AllWindows : table[w] = a}
NewSteady(table) ==
    steady' = [p \in Clicks |-> steady[p] \cap Showing(table, click[p].agent)]

-----------------------------------------------------------------------------
(* Around the clicks.                                                       *)

Event == events < MaxEvents /\ events' = events + 1
Outside == UNCHANGED <<case, launches, record, click, terminal, served>>

\* The agent asks again, stops asking, or its process ends.
Observe(a, state) ==
    /\ Event /\ roster[a] # Absent /\ roster[a].stamp < MaxEvents + 1
    /\ roster' = [roster EXCEPT ![a] = [state |-> state, stamp |-> @.stamp + 1,
                                        present |-> TRUE]]
    /\ UNCHANGED <<place, reporting, pane, works, ledgerVars, shows, steady>> /\ Outside

Leave(a) ==
    /\ Event /\ roster[a] # Absent
    /\ roster' = Without(roster, a)
    /\ UNCHANGED <<place, reporting, pane, works, ledgerVars, shows, steady>> /\ Outside

\* It moves to another session: no window shows it there; the Hub learns it later.
Moves(a) ==
    /\ Event /\ pane[a] = 1
    /\ pane' = [pane EXCEPT ![a] = 2]
    /\ shows' = [w \in AllWindows |-> IF shows[w] = a THEN Nobody ELSE shows[w]]
    /\ NewSteady(shows')
    /\ UNCHANGED <<roster, place, reporting, works, ledgerVars>> /\ Outside

Reported(a) ==
    /\ place[a] # pane[a]
    /\ place' = [place EXCEPT ![a] = pane[a]]
    /\ UNCHANGED <<roster, reporting, pane, works, ledgerVars, shows, steady, events>>
    /\ Outside

SourceLost ==
    /\ Event /\ reporting
    /\ reporting' = FALSE
    /\ UNCHANGED <<roster, place, pane, works, ledgerVars, shows, steady>> /\ Outside

\* A transport stops or starts reaching the machine.
Rewired(t) ==
    /\ Event
    /\ works' = IF t \in works THEN works \ {t} ELSE works \cup {t}
    /\ UNCHANGED <<roster, place, reporting, pane, ledgerVars, shows, steady>> /\ Outside

\* A window is closed, or turns to another agent or to none.
Turns(w, what) ==
    /\ Event /\ shows[w] \notin {Absent, what}
    /\ shows' = [shows EXCEPT ![w] = what]
    /\ NewSteady(shows')
    /\ UNCHANGED <<worldVars, ledgerVars>> /\ Outside

\* The daemon accepts the snapshot of the moment.
Accept ==
    LET alerts == Alerts(saved, TRUE, memory, acks, roster)
    IN  /\ saved # roster
        /\ pending' = MergePending(pending, roster, alerts, MaxEvents + 1)
        /\ memory' = pending' /\ saved' = roster
        /\ UNCHANGED <<acks, worldVars, shows, steady, events>> /\ Outside

\* A reservation outlives its time to live; a record its age.
Expires(a) ==
    /\ Event /\ launches[a] # Absent
    /\ launches' = Without(launches, a)
    /\ UNCHANGED <<case, worldVars, ledgerVars, record, shows, click, terminal, served,
                   steady>>

RecordAges ==
    /\ Event /\ record # NoRecord
    /\ record' = NoRecord
    /\ UNCHANGED <<case, worldVars, ledgerVars, launches, shows, click, terminal, served,
                   steady>>
-----------------------------------------------------------------------------
(* The steps of a click.                                                    *)

At(p, pc) == click[p].pc = pc
Ends(p, pc) == click' = [click EXCEPT ![p] = [Fresh EXCEPT !.pc = pc,
                            !.agent = click[p].agent, !.stamp = click[p].stamp]]
Refuses(p) == Ends(p, "refused")
Goes(p, knowledge) == click' = [click EXCEPT ![p] = knowledge]
Quiet == UNCHANGED <<case, worldVars, ledgerVars, launches, record, shows, terminal,
                     served, steady, events>>

\* fetch_snapshot: the current roster, accepted in this process alone.
Fetched(c) ==
    [c EXCEPT !.previous = roster,
              !.memory = FilterMemory(c.memory, roster,
                            Alerts(c.previous, TRUE, c.memory, acks, roster))]
StillPending(c) == c.agent \in PendingAgents(c.memory, acks)
Constructed(a) ==
    [Fresh EXCEPT !.agent = a, !.previous = saved,
                  !.memory = LoadedMemory(pending, saved, acks)]

Begin(p, a) ==
    /\ p \in case.clicks /\ At(p, "idle")
    /\ LET c == Fetched(Constructed(a))
       IN  IF roster[a] # Absent /\ roster[a].present /\ StillPending(c)
           THEN Goes(p, [c EXCEPT !.pc = "list", !.stamp = roster[a].stamp,
                                  !.place = place[a]])
           ELSE Refuses(p)
    /\ Quiet

\* dismiss: the claim as the files have it, and nothing is opened.
Dismiss(p, a) ==
    /\ p \in case.clicks /\ At(p, "idle")
    /\ LET c == Constructed(a)
       IN  IF StillPending(c)
           THEN /\ Goes(p, [Fresh EXCEPT !.pc = "acknowledge", !.agent = a,
                                         !.stamp = c.memory[a].stamp])
                /\ served' = served \cup {<<a, c.memory[a].stamp>>}
           ELSE Refuses(p) /\ UNCHANGED served
    /\ UNCHANGED <<case, worldVars, ledgerVars, launches, record, shows, terminal,
                   steady, events>>

\* Mutant of ListWindows: an unreadable inventory is an empty one.
ListWindowsOrNone(p) ==
    /\ At(p, "list")
    /\ \E found \in {Open(shows), {}} :
           Goes(p, [click[p] EXCEPT !.pc = "resolve", !.listed = found])
    /\ steady' = [steady EXCEPT ![p] = Showing(shows, click[p].agent)]
    /\ UNCHANGED <<case, worldVars, ledgerVars, launches, record, shows, terminal,
                   served, events>>

\* get_clients; an unreadable inventory is no proof of zero windows.
ListWindows(p) ==
    /\ At(p, "list")
    /\ \/ Refuses(p) /\ UNCHANGED steady
       \/ /\ Goes(p, [click[p] EXCEPT !.pc = "resolve", !.listed = Open(shows)])
          /\ steady' = [steady EXCEPT ![p] = Showing(shows, click[p].agent)]
    /\ UNCHANGED <<case, worldVars, ledgerVars, launches, record, shows, terminal,
                   served, events>>

\* A match of this claim among the listed windows.  A window that showed the
\* agent all along is not passed over and never taken for absent, if the
\* resolver can recognize it; without one a hint may name any window.
Resolve(p) ==
    LET c == click[p]
        proven == {w \in c.listed \cap steady[p] : case.recognized[w]}
    IN  /\ At(p, "resolve")
        /\ \/ Refuses(p)
           \/ \E w \in c.listed \cap IF proven = {} THEN AllWindows
                                      ELSE steady[p] \cup Showing(shows, c.agent) :
                 Goes(p, [c EXCEPT !.pc = "recheck", !.pick = w])
           \/ proven = {} /\ Goes(p, [c EXCEPT !.pc = "intent"])
        /\ Quiet

\* With a window: the roster once more, if the Hub answers; the claim must not
\* have moved.
Recheck(p) ==
    LET c == click[p]
    IN  /\ At(p, "recheck")
        /\ \/ Goes(p, [c EXCEPT !.pc = "focus"])
           \/ IF roster[c.agent] # Absent /\ place[c.agent] = c.place
              THEN Goes(p, [Fetched(c) EXCEPT !.pc = "focus"])
              ELSE Refuses(p)
        /\ Quiet

\* The window is still the one that was picked (_candidate_current), and the
\* compositor focuses it.
Focus(p) ==
    LET c == click[p]
    IN  /\ At(p, "focus")
        /\ IF shows[c.pick] = Absent
           THEN Refuses(p) /\ UNCHANGED served
           ELSE \/ Refuses(p) /\ UNCHANGED served
                \/ /\ Goes(p, [c EXCEPT !.pc = "acknowledge"])
                   /\ served' = served \cup {<<c.agent, c.stamp>>}
        /\ UNCHANGED <<case, worldVars, ledgerVars, launches, record, shows, terminal,
                       steady, events>>

\* has_launch_intent: another click of this claim is launching.
Intent(p) ==
    LET c == click[p]
    IN  /\ At(p, "intent")
        /\ IF launches[c.agent] = c.stamp THEN Refuses(p)
           ELSE Goes(p, [c EXCEPT !.pc = "verify", !.caps = record])
        /\ Quiet

\* verify-target: the process runs in the reported session now.  For another
\* machine without a record the same probe reports the transports; what it
\* could see of them is recorded, unless the machine did not answer.
Verify(p) ==
    LET c == click[p]
        reached == case.remote => "ssh" \in works
        state(t, known) == IF t \notin known THEN "unknown"
                           ELSE IF t \in works THEN "available" ELSE "unavailable"
    IN  /\ At(p, "verify")
        /\ \/ Refuses(p) /\ UNCHANGED record
           \/ /\ reached /\ pane[c.agent] = c.place
              /\ \/ /\ case.remote /\ c.caps = NoRecord
                    /\ \E known \in {Transports, {"et", "ssh"}, {}} :
                         record' = [et |-> state("et", known), mosh |-> state("mosh", known),
                                    ssh |-> state("ssh", known), by |-> p]
                    /\ Goes(p, [c EXCEPT !.pc = "rebind", !.proven = c.place,
                                         !.caps = record'])
                 \/ /\ Goes(p, [c EXCEPT !.pc = "rebind", !.proven = c.place])
                    /\ UNCHANGED record
        /\ UNCHANGED <<case, worldVars, ledgerVars, launches, shows, terminal, served,
                       steady, events>>

\* Mutant of SameClaim: the process is the same, wherever it is now.
SameClaimAnywhere(c) == roster[c.agent] # Absent

\* _same_agent_claim: the same process at the same location.
SameClaim(c) == roster[c.agent] # Absent /\ place[c.agent] = c.place

\* A fetched roster in which the claim may still be opened.
Bound(c) == SameClaim(c) /\ reporting /\ StillPending(Fetched(c))

Rebind(p) ==
    LET c == click[p]
    IN  /\ At(p, "rebind")
        /\ \/ Refuses(p)
           \/ Bound(c) /\ Goes(p, [Fetched(c) EXCEPT !.pc = "plan", !.place = place[c.agent]])
        /\ Quiet

Preferred(preference, clients) == IF preference \in clients THEN preference ELSE "none"

\* Mutant of ChooseTransport: mosh is taken to be installed.
ChooseTransportMoshFirst(preference, local, clients, caps) ==
    IF local THEN "local"
    ELSE IF preference # "auto" THEN Preferred(preference, clients)
    ELSE IF caps.mosh # "unavailable" THEN "mosh" ELSE "ssh"

\* choose_transport, for a client present on this machine.
ChooseTransport(preference, local, clients, caps) ==
    IF local THEN "local"
    ELSE IF preference # "auto" THEN Preferred(preference, clients)
    ELSE IF "et" \in clients /\ caps.et = "available" THEN "et"
    ELSE IF "mosh" \in clients /\ caps.mosh # "unavailable" THEN "mosh"
    ELSE Preferred("ssh", clients)

FallbackOf(how, clients) ==
    IF how \in {"et", "mosh"} /\ "ssh" \in clients THEN "ssh" ELSE "none"

\* connection_plan and verify_connection: a transport is chosen, and the
\* session is there when asked over ssh.
Plan(p) ==
    LET c == click[p]
        how == ChooseTransport(case.preference, ~case.remote, case.clients, c.caps)
    IN  /\ At(p, "plan")
        /\ \/ Refuses(p)
           \/ /\ how # "none"
              /\ case.remote => "ssh" \in case.clients \cap works
              /\ Goes(p, [c EXCEPT !.pc = "final",
                            !.plan = [NoTerminal EXCEPT !.how = how, !.by = c.caps.by,
                                                  !.fallback = FallbackOf(how, case.clients)]])
        /\ Quiet

\* The last look at the roster: not even a newer request may have come.
Final(p) ==
    LET c == click[p]
    IN  /\ At(p, "final")
        /\ \/ Refuses(p)
           \/ /\ Bound(c) /\ roster[c.agent].stamp = c.stamp
              /\ Goes(p, [Fetched(c) EXCEPT !.pc = "reserve", !.place = place[c.agent]])
        /\ Quiet

Reserve(p) ==
    LET c == click[p]
    IN  /\ At(p, "reserve")
        /\ IF launches[c.agent] = c.stamp
           THEN Refuses(p) /\ UNCHANGED launches
           ELSE /\ launches' = [launches EXCEPT ![c.agent] = c.stamp]
                /\ Goes(p, [c EXCEPT !.pc = "launch"])
        /\ UNCHANGED <<case, worldVars, ledgerVars, record, shows, terminal, served,
                       steady, events>>

\* Mutant of LaunchFails: the reservation stays.
LaunchFailsSilently(p) ==
    /\ At(p, "launch")
    /\ Refuses(p)
    /\ UNCHANGED <<case, worldVars, ledgerVars, launches, record, shows, terminal, served,
                   steady, events>>

\* subprocess.Popen; one that fails takes its reservation back.
LaunchFails(p) ==
    /\ At(p, "launch")
    /\ launches' = Without(launches, click[p].agent)
    /\ Refuses(p)
    /\ UNCHANGED <<case, worldVars, ledgerVars, record, shows, terminal, served, steady,
                   events>>

\* build_launch_argv: the session, the transport and the record it relies on.
Launch(p) ==
    LET c == click[p]
    IN  /\ At(p, "launch")
        /\ terminal' = [terminal EXCEPT ![p] = [c.plan EXCEPT !.step = "starting",
                                                          !.place = c.place]]
        /\ shows' = [shows EXCEPT ![p] = Nobody]
        /\ served' = served \cup {<<c.agent, c.stamp>>}
        /\ Goes(p, [c EXCEPT !.pc = "acknowledge"])
        /\ UNCHANGED <<case, worldVars, ledgerVars, launches, record, steady, events>>

\* Mutant of Acknowledge: the claim the roster has by now.
AcknowledgeLatest(p) ==
    LET c == click[p]
        stamp == IF roster[c.agent] = Absent THEN c.stamp ELSE roster[c.agent].stamp
    IN  /\ At(p, "acknowledge")
        /\ acks' = AckedTable(acks, c.agent, stamp)
        /\ pending' = Without(pending, c.agent)
        /\ Goes(p, [c EXCEPT !.pc = "clear"])
        /\ UNCHANGED <<case, worldVars, saved, memory, launches, record, shows, terminal,
                       served, steady, events>>

\* AgentdHub.acknowledge of the clicked claim.  Refused, the click fails, and
\* a reservation stays for its time to live.
Acknowledge(p) ==
    LET c == click[p]
    IN  /\ At(p, "acknowledge")
        /\ IF AckRefused(acks, pending, c.agent, c.stamp)
           THEN Refuses(p) /\ UNCHANGED <<acks, pending>>
           ELSE /\ acks' = AckedTable(acks, c.agent, c.stamp)
                /\ pending' = Without(pending, c.agent)
                /\ Goes(p, [c EXCEPT !.pc = "clear"])
        /\ UNCHANGED <<case, worldVars, saved, memory, launches, record, shows, terminal,
                       served, steady, events>>

\* clear_launch_intent, whosever reservation it is.
ClearIntent(p) ==
    /\ At(p, "clear")
    /\ launches' = Without(launches, click[p].agent)
    /\ Ends(p, "done")
    /\ UNCHANGED <<case, worldVars, ledgerVars, record, shows, terminal, served, steady,
                   events>>

Killed(p) ==
    /\ Event
    /\ click[p].pc \notin {"idle", "done", "refused", "killed"}
    /\ Ends(p, "killed")
    /\ UNCHANGED <<case, worldVars, ledgerVars, launches, record, shows, terminal, served,
                   steady>>
-----------------------------------------------------------------------------
(* What runs in the terminal: the transport, and once it fails the script   *)
(* of TRANSPORT_LAUNCH_SCRIPT.                                              *)

Attaches(p, step) ==
    /\ terminal' = [terminal EXCEPT ![p].step = step]
    /\ shows' = [shows EXCEPT ![p] =
                    IF @ # Absent /\ pane[click[p].agent] = terminal[p].place
                    THEN click[p].agent ELSE @]

Reaches(how) == how = "local" \/ how \in works
InTerminal == UNCHANGED <<case, worldVars, ledgerVars, launches, click, served, steady,
                          events>>

Starts(p) ==
    LET t == terminal[p]
    IN  /\ t.step = "starting"
        /\ IF Reaches(t.how) THEN Attaches(p, "attached")
           ELSE /\ terminal' = [terminal EXCEPT ![p].step =
                                  IF t.fallback = "none" THEN "failed" ELSE "stale"]
                /\ UNCHANGED shows
        /\ UNCHANGED record /\ InTerminal

\* A session over et or mosh ends with an error, in a terminal that is still open.
Breaks(p) ==
    /\ Event /\ terminal[p].step = "attached" /\ terminal[p].fallback # "none"
    /\ shows[p] # Absent
    /\ terminal' = [terminal EXCEPT ![p].step = "stale"]
    /\ shows' = [shows EXCEPT ![p] = Nobody]
    /\ NewSteady(shows')
    /\ UNCHANGED <<case, worldVars, ledgerVars, launches, record, click, served>>

\* Mutant of DropsRecord: the script is not given the record's path.
DropsRecordNever(p) ==
    /\ terminal[p].step = "stale"
    /\ terminal' = [terminal EXCEPT ![p].step = "fallback"]
    /\ UNCHANGED <<record, shows>> /\ InTerminal

\* "A failed start on a reachable host means the recorded capability is stale":
\* whatever record is there goes, after a session that broke later too.
DropsRecord(p) ==
    /\ terminal[p].step = "stale"
    /\ terminal' = [terminal EXCEPT ![p].step = IF "ssh" \in works THEN "fallback"
                                                ELSE "unreached"]
    /\ record' = IF "ssh" \in works THEN NoRecord ELSE record
    /\ UNCHANGED shows /\ InTerminal

FallsBack(p) ==
    /\ terminal[p].step \in {"fallback", "unreached"}
    /\ IF "ssh" \in works THEN Attaches(p, "over ssh")
       ELSE terminal' = [terminal EXCEPT ![p].step = "failed"] /\ UNCHANGED shows
    /\ UNCHANGED record /\ InTerminal
-----------------------------------------------------------------------------
Around ==
    \/ \E a \in Agents : \/ \E state \in {"needs_attention", "active"} : Observe(a, state)
                         \/ Leave(a) \/ Moves(a) \/ Reported(a) \/ Expires(a)
    \/ SourceLost \/ RecordAges \/ Accept
    \/ \E t \in Transports : Rewired(t)
    \/ \E w \in AllWindows, what \in Agents \cup {Nobody, Absent} : Turns(w, what)

Click(p) ==
    \/ \E a \in Agents : Begin(p, a) \/ Dismiss(p, a)
    \/ ListWindows(p) \/ Resolve(p) \/ Recheck(p) \/ Focus(p)
    \/ Intent(p) \/ Verify(p) \/ Rebind(p) \/ Plan(p) \/ Final(p)
    \/ Reserve(p) \/ LaunchFails(p) \/ Launch(p)
    \/ Acknowledge(p) \/ ClearIntent(p) \/ Killed(p)

InsideTerminal(p) == Starts(p) \/ Breaks(p) \/ DropsRecord(p) \/ FallsBack(p)

Next == Around \/ \E p \in Clicks : Click(p) \/ InsideTerminal(p)
Spec == Init /\ [][Next]_vars
-----------------------------------------------------------------------------
(* Properties.                                                              *)

ClaimOf(p) == <<click[p].agent, click[p].stamp>>
HasTerminal(p) == terminal[p].step # "none"
Fits(t, c) == /\ t.how = "local" <=> ~c.remote
              /\ t.how \in {"local"} \cup c.clients

\* A terminal's transport is one for the machine and has a client on this one; and
\* only a terminal opens a click's window.
TerminalsFit ==
    \A p \in Clicks : /\ HasTerminal(p) => Fits(terminal[p], case)
                      /\ shows[p] # Absent => HasTerminal(p)

TypeOK ==
    /\ case \in Cases
    /\ roster \in Tables(Reports) /\ place \in [Agents -> Places] /\ pane \in [Agents -> Places]
    /\ reporting \in BOOLEAN /\ works \subseteq Transports
    /\ acks \in Tables(Stamps) /\ launches \in Tables(Stamps)
    /\ pending \in Tables(Reports) /\ saved \in Tables(Reports) /\ memory \in Tables(Reports)
    /\ record \in Capabilities
    /\ shows \in [AllWindows -> Contents]
    /\ click \in [Clicks -> Knowledge] /\ terminal \in [Clicks -> Terminals]
    /\ TerminalsFit
    /\ served \subseteq Agents \X Stamps /\ steady \in [Clicks -> SUBSET AllWindows]
    /\ events \in 0..MaxEvents

\* What is acknowledged is a claim whose window was focused, for which a
\* terminal was opened, or that was dismissed: a newer request that comes
\* while a click is under way is never acknowledged by it, and a click that
\* gave up acknowledges nothing (clicked_agent in open_target).
OnlyServedIsAcknowledged ==
    \A a \in Agents : acks[a] # Absent => <<a, acks[a]>> \in served

\* A terminal is opened only while no recognizable window has shown the agent
\* ever since the click asked for the windows: a failed inventory or scan is
\* never taken for "no window" (open_target).
NoDuplicateTerminal ==
    [][\A p \in Clicks : ~HasTerminal(p) /\ HasTerminal(p)' =>
           \A w \in steady[p] : ~case.recognized[w]]_vars

\* The terminal attaches the session in which the resolver verified the
\* clicked process, whatever the rosters said between the verification and
\* the launch (the two rebinds of open_target).
VerifiedSessionIsOpened ==
    [][\A p \in Clicks : ~HasTerminal(p) /\ HasTerminal(p)' =>
           terminal'[p].place = click[p].proven]_vars

\* A reservation belongs to a click that is launching, or that was killed or
\* refused its acknowledgement after it had launched: every other end of a
\* click leaves none behind (reserve_launch, clear_launch_intent).
ReservationHasOwner ==
    \A a \in Agents : launches[a] # Absent =>
        \E p \in Clicks :
            /\ ClaimOf(p) = <<a, launches[a]>>
            /\ \/ click[p].pc \in {"launch", "acknowledge", "clear", "killed"}
               \/ click[p].pc = "refused" /\ HasTerminal(p)

\* A transport that did not start, or broke, on a machine that ssh reached does
\* not stay recorded as it was: the next click probes again
\* (TRANSPORT_LAUNCH_SCRIPT).
WrongRecordIsDropped ==
    \A p \in Clicks :
        terminal[p].step = "fallback" => record.by # terminal[p].by \/ record = NoRecord

\* "Atomically reserve one click-to-launch attempt for an exact claim"
\* (reserve_launch): no claim gets two terminals.
OneTerminalPerClaim ==
    \A p, q \in Clicks :
        p # q /\ HasTerminal(p) /\ HasTerminal(q) => ClaimOf(p) # ClaimOf(q)
=============================================================================
