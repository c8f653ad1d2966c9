--------------------------- MODULE OpenTargetProofs ---------------------------
(***************************************************************************)
(* Proofs about OpenTarget, for any clicks, windows and agents, any        *)
(* starting points, and any number of changes and kills around the clicks: *)
(* the type invariant; that only what was served is acknowledged, and only *)
(* a proven session is attached, where no window shows the agent; and what *)
(* becomes of reservations and of wrong records.                           *)
(***************************************************************************)
EXTENDS OpenTarget, HubClaimsProofs, TLAPS

(* The inductive invariant.                                                 *)

Launching == {"rebind", "plan", "final", "reserve", "launch"}
Absence == {"intent", "verify"} \cup Launching   \* the resolver found no window
Early == {"idle", "list", "resolve", "intent", "verify"}   \* may still record
Over == {"done", "refused", "killed"}

\* What a click knows is well founded: k is what it knows, st are its steady
\* windows, sv the claims served, and c is the starting point.
Grounded(k, st, sv, c) ==
    /\ k.pc \notin Over \cup {"idle"} => k.stamp \in Stamps
    /\ k.pc \in {"final", "reserve", "launch"} => Fits(k.plan, c)
    /\ k.pc \in {"acknowledge", "clear"} => <<k.agent, k.stamp>> \in sv
    /\ k.pc \in Launching => k.place = k.proven
    /\ k.pc = "resolve" => st \subseteq k.listed
    /\ k.pc \in Absence => \A w \in st : ~c.recognized[w]

ClicksGrounded == \A p \in Clicks : Grounded(click[p], steady[p], served, case)

\* A click whose reservation may be there.
Owner(p) ==
    \/ click[p].pc \in {"launch", "killed"}
    \/ click[p].pc \in {"acknowledge", "clear", "refused"} /\ HasTerminal(p)
Reserved ==
    \A a \in Agents : launches[a] # Absent =>
        \E p \in Clicks : ClaimOf(p) = <<a, launches[a]>> /\ Owner(p)

\* A click that may still record capabilities has not done so yet.
Recorded ==
    \A q \in Clicks : click[q].pc \in Early =>
        /\ record.by # q
        /\ \A p \in Clicks : click[p].caps.by # q /\ click[p].plan.by # q /\ terminal[p].by # q

IInv ==
    /\ TypeOK /\ ClicksGrounded /\ Reserved /\ Recorded
    /\ OnlyServedIsAcknowledged /\ WrongRecordIsDropped
-----------------------------------------------------------------------------
(* Types of what clicks compute.                                            *)

LEMMA NullTypes ==
    /\ EmptyTable \in Tables(Reports) /\ EmptyTable \in Tables(Stamps)
    /\ NoRecord \in Capabilities /\ NoTerminal \in Terminals
    /\ Fresh \in Knowledge
<1>1. EmptyTable \in Tables(Reports) /\ EmptyTable \in Tables(Stamps)
  BY EmptyType
<1>2. NoRecord \in Capabilities
  BY DEF NoRecord, Capabilities, Known, Recorders
<1>3. NoTerminal \in Terminals
  BY DEF NoTerminal, Terminals, Places, Recorders
<1>4. (CHOOSE a \in Agents : TRUE) \in Agents
  BY ClickAssumption
<1>5. Fresh \in Knowledge
  BY <1>1, <1>2, <1>3, <1>4 DEF Fresh, Knowledge, Places
<1> QED
  BY <1>1, <1>2, <1>3, <1>5

\* A case of the instance.
LEMMA CaseTypes ==
    ASSUME TypeOK
    PROVE  /\ case.clicks \subseteq Clicks /\ case.remote \in BOOLEAN
           /\ case.recognized \in [AllWindows -> BOOLEAN]
           /\ case.clients \subseteq Transports
BY ClickAssumption DEF TypeOK

\* A fetch changes the ledger that a click holds, and nothing else.
LEMMA FetchedTypes ==
    ASSUME TypeOK, NEW c \in Knowledge
    PROVE  /\ Fetched(c) \in Knowledge
           /\ Fetched(c).pc = c.pc /\ Fetched(c).agent = c.agent
           /\ Fetched(c).stamp = c.stamp /\ Fetched(c).place = c.place
           /\ Fetched(c).proven = c.proven /\ Fetched(c).plan = c.plan
           /\ Fetched(c).caps = c.caps /\ Fetched(c).listed = c.listed
<1> DEFINE alerts == Alerts(c.previous, TRUE, c.memory, acks, roster)
<1>1. alerts \in SUBSET Agents
  BY DEF Alerts
<1>2. roster \in Tables(Reports) /\ c.memory \in Tables(Reports)
  BY DEF TypeOK, Knowledge
<1>3. FilterMemory(c.memory, roster, alerts) \in Tables(Reports)
  BY <1>1, <1>2, FilterType
<1> HIDE DEF alerts
<1> QED
  BY <1>2, <1>3 DEF Fetched, Knowledge, alerts

\* A new client has read the files.
LEMMA ConstructedTypes ==
    ASSUME TypeOK, NEW a \in Agents
    PROVE  /\ Constructed(a) \in Knowledge
           /\ Constructed(a).agent = a
           /\ Constructed(a).memory = LoadedMemory(pending, saved, acks)
           /\ Constructed(a).caps = NoRecord /\ Constructed(a).plan = NoTerminal
<1>1. LoadedMemory(pending, saved, acks) \in Tables(Reports) /\ saved \in Tables(Reports)
  BY LoadedType DEF TypeOK
<1>2. Fresh \in Knowledge /\ Fresh.caps = NoRecord /\ Fresh.plan = NoTerminal
  BY NullTypes DEF Fresh
<1> QED
  BY <1>1, <1>2 DEF Constructed, Knowledge

\* What click p knows is k; the other clicks know what they knew.
LEMMA GoesTo ==
    ASSUME TypeOK, NEW p \in Clicks, NEW k \in Knowledge, Goes(p, k)
    PROVE  /\ click' \in [Clicks -> Knowledge] /\ click'[p] = k
           /\ \A q \in Clicks : q # p => click'[q] = click[q]
BY DEF TypeOK, Goes

LEMMA EndsAt ==
    ASSUME TypeOK, NEW p \in Clicks, NEW end \in Over, Ends(p, end)
    PROVE  \E k \in Knowledge :
             /\ Goes(p, k) /\ k.pc = end
             /\ k.agent = click[p].agent /\ k.stamp = click[p].stamp
             /\ k.caps = NoRecord /\ k.plan = NoTerminal
<1> DEFINE k == [Fresh EXCEPT !.pc = end, !.agent = click[p].agent, !.stamp = click[p].stamp]
<1>1. Fresh \in Knowledge /\ Fresh.caps = NoRecord /\ Fresh.plan = NoTerminal
  BY NullTypes DEF Fresh
<1>2. click[p] \in Knowledge
  BY DEF TypeOK
<1>3. /\ k \in Knowledge /\ k.pc = end
      /\ k.agent = click[p].agent /\ k.stamp = click[p].stamp
      /\ k.caps = NoRecord /\ k.plan = NoTerminal
  BY <1>1, <1>2 DEF Knowledge, Over
<1>4. Goes(p, k)
  BY DEF Ends, Goes
<1> QED
  BY <1>3, <1>4
-----------------------------------------------------------------------------
(* What one click leaves of the invariant.                                  *)

\* The other clicks stay grounded, and so does p with what it knows next.
LEMMA GroundedKept ==
    ASSUME TypeOK, ClicksGrounded, NEW p \in Clicks, NEW k \in Knowledge, Goes(p, k),
           case' = case, served \subseteq served', Grounded(k, steady'[p], served', case),
           \A q \in Clicks : q # p => steady'[q] \subseteq steady[q]
    PROVE  ClicksGrounded'
<1> SUFFICES ASSUME NEW q \in Clicks
             PROVE  Grounded(click'[q], steady'[q], served', case)
  BY DEF ClicksGrounded
<1>1. CASE q = p
  BY <1>1, GoesTo
<1>2. CASE q # p
  <2>1. Grounded(click[q], steady[q], served, case) /\ click'[q] = click[q]
    BY <1>2, GoesTo DEF ClicksGrounded
  <2>2. steady'[q] \subseteq steady[q]
    BY <1>2
  <2> QED
    BY <2>1, <2>2 DEF Grounded
<1> QED
  BY <1>1, <1>2

\* A reservation keeps its click: it is another one, or it stays an owner.
LEMMA ReservedKept ==
    ASSUME TypeOK, Reserved, NEW p \in Clicks, NEW k \in Knowledge, Goes(p, k),
           \A a \in Agents : launches'[a] \in {launches[a], Absent},
           \A q \in Clicks : HasTerminal(q) => HasTerminal(q)',
           Owner(p) => \/ launches'[click[p].agent] = Absent
                       \/ Owner(p)' /\ ClaimOf(p)' = ClaimOf(p)
    PROVE  Reserved'
<1> SUFFICES ASSUME NEW a \in Agents, launches'[a] # Absent
             PROVE  \E q \in Clicks : ClaimOf(q)' = <<a, launches'[a]>> /\ Owner(q)'
  BY DEF Reserved
<1>1. launches'[a] = launches[a]
  OBVIOUS
<1>2. PICK q \in Clicks : ClaimOf(q) = <<a, launches[a]>> /\ Owner(q)
  BY <1>1 DEF Reserved
<1>3. CASE q = p
  <2>1. click[p].agent = a
    BY <1>2, <1>3 DEF ClaimOf
  <2> QED
    BY <1>1, <1>2, <1>3, <2>1
<1>4. CASE q # p
  <2>1. click'[q] = click[q]
    BY <1>4, GoesTo
  <2>2. ClaimOf(q)' = ClaimOf(q)
    BY <2>1 DEF ClaimOf
  <2>3. Owner(q)'
    BY <1>2, <2>1 DEF Owner
  <2> QED
    BY <1>1, <1>2, <2>2, <2>3
<1> QED
  BY <1>3, <1>4

\* A click that may still record has not; what p takes over is of others.
LEMMA RecordedKept ==
    ASSUME TypeOK, Recorded, NEW p \in Clicks, NEW k \in Knowledge, Goes(p, k),
           k.pc \in Early => click[p].pc \in Early,
           record'.by = record.by \/ (record'.by = p /\ k.pc \notin Early),
           k.caps.by \in {click[p].caps.by, record'.by, "none"},
           k.plan.by \in {click[p].plan.by, click[p].caps.by, "none"},
           \A q \in Clicks : terminal'[q].by \in {terminal[q].by, click[q].plan.by}
    PROVE  Recorded'
<1> SUFFICES ASSUME NEW q \in Clicks, click'[q].pc \in Early
             PROVE  /\ record'.by # q
                    /\ \A r \in Clicks : /\ click'[r].caps.by # q /\ click'[r].plan.by # q
                                         /\ terminal'[r].by # q
  BY DEF Recorded
<1>1. click'[p] = k /\ \A r \in Clicks : r # p => click'[r] = click[r]
  BY GoesTo
<1>2. click[q].pc \in Early
  BY <1>1
<1>3. /\ record.by # q
      /\ \A r \in Clicks : click[r].caps.by # q /\ click[r].plan.by # q /\ terminal[r].by # q
  BY <1>2 DEF Recorded
<1>4. record'.by # q /\ q # "none"
  BY <1>1, <1>3, ClickAssumption
<1>5. k.caps.by # q /\ k.plan.by # q
  BY <1>3, <1>4
<1>6. ASSUME NEW r \in Clicks
      PROVE  click'[r].caps.by # q /\ click'[r].plan.by # q /\ terminal'[r].by # q
  <2>1. click'[r].caps.by # q /\ click'[r].plan.by # q
    BY <1>1, <1>3, <1>5
  <2>2. terminal'[r].by # q
    BY <1>3
  <2> QED
    BY <2>1, <2>2
<1> QED
  BY <1>4, <1>6

\* The ends of a click that leave a reservation behind.
OwnerEnds(p, end) == end = "killed" \/ (end = "refused" /\ HasTerminal(p))

\* A click ends: it refuses, is done or is killed.
LEMMA EndKeeps ==
    ASSUME IInv, NEW p \in Clicks, NEW end \in Over, Ends(p, end),
           UNCHANGED <<case, worldVars, ledgerVars, record, shows, terminal, served, steady>>,
           events' \in 0..MaxEvents,
           \/ launches' = Without(launches, click[p].agent)
           \/ launches' = launches /\ (Owner(p) => OwnerEnds(p, end))
    PROVE  IInv'
<1>0. TypeOK /\ ClicksGrounded /\ Reserved /\ Recorded
  BY DEF IInv
<1>1. PICK k \in Knowledge : /\ Goes(p, k) /\ k.pc = end
                             /\ k.agent = click[p].agent /\ k.stamp = click[p].stamp
                             /\ k.caps = NoRecord /\ k.plan = NoTerminal
  BY <1>0, EndsAt
<1>2. /\ click' \in [Clicks -> Knowledge] /\ click'[p] = k
      /\ \A q \in Clicks : q # p => click'[q] = click[q]
  BY <1>0, <1>1, GoesTo
<1>3. click[p].agent \in Agents
  BY <1>0 DEF TypeOK, Knowledge
<1>4. launches' \in Tables(Stamps) /\ \A a \in Agents : launches'[a] \in {launches[a], Absent}
  BY <1>0, <1>3, WithoutType DEF TypeOK, Without, Tables
<1>5. ClicksGrounded'
  <2>1. Grounded(k, steady'[p], served', case)
    BY <1>1 DEF Grounded, Over, Launching, Absence
  <2> QED
    BY <1>0, <1>1, <2>1, GroundedKept
<1>6. Reserved'
  <2>1. \A q \in Clicks : HasTerminal(q) => HasTerminal(q)'
    BY DEF HasTerminal
  <2>2. \/ ~Owner(p)
        \/ launches'[click[p].agent] = Absent
        \/ Owner(p)' /\ ClaimOf(p)' = ClaimOf(p)
    <3>1. CASE launches' = Without(launches, click[p].agent)
      BY <1>0, <1>3, <3>1 DEF Without, TypeOK, Tables
    <3>2. CASE launches' # Without(launches, click[p].agent)
      <4>1. ClaimOf(p)' = ClaimOf(p)
        BY <1>1, <1>2 DEF ClaimOf
      <4>2. Owner(p) => OwnerEnds(p, end)
        BY <3>2
      <4>3. OwnerEnds(p, end) => Owner(p)'
        BY <1>1, <1>2, <2>1 DEF Owner, OwnerEnds
      <4> QED
        BY <4>1, <4>2, <4>3
    <3> QED
      BY <3>1, <3>2
  <2> QED
    BY <1>0, <1>1, <1>4, <2>1, <2>2, ReservedKept
<1>7. Recorded'
  <2>1. k.pc \notin Early /\ k.caps.by = "none" /\ k.plan.by = "none"
    BY <1>1 DEF Early, Over, NoRecord, NoTerminal
  <2> QED
    BY <1>0, <1>1, <2>1, RecordedKept
<1>8. OnlyServedIsAcknowledged' /\ WrongRecordIsDropped'
  BY DEF IInv, OnlyServedIsAcknowledged, WrongRecordIsDropped, ledgerVars
<1>9. TypeOK'
  <2>1. TerminalsFit'
    BY <1>0 DEF TypeOK, TerminalsFit, HasTerminal
  <2> QED
    BY <1>0, <1>2, <1>4, <2>1 DEF TypeOK, worldVars, ledgerVars
<1> QED
  BY <1>5, <1>6, <1>7, <1>8, <1>9 DEF IInv

\* A click that has not launched goes on: it may record capabilities, list the
\* windows, or serve its claim.
LEMMA GoKeeps ==
    ASSUME IInv, NEW p \in Clicks, NEW k \in Knowledge, Goes(p, k), ~Owner(p),
           UNCHANGED <<case, worldVars, ledgerVars, launches, shows, terminal, events>>,
           Grounded(k, steady'[p], served', case),
           served \subseteq served', served' \subseteq Agents \X Stamps,
           steady' \in [Clicks -> SUBSET AllWindows],
           \A q \in Clicks : q # p => steady'[q] \subseteq steady[q],
           k.pc \in Early => click[p].pc \in Early,
           \/ record' = record
           \/ /\ record' \in Capabilities /\ record'.by = p
              /\ click[p].pc \in Early /\ k.pc \notin Early,
           k.caps.by \in {click[p].caps.by, record'.by, "none"},
           k.plan.by \in {click[p].plan.by, click[p].caps.by, "none"}
    PROVE  IInv'
<1>0. TypeOK /\ ClicksGrounded /\ Reserved /\ Recorded
  BY DEF IInv
<1>1. click' \in [Clicks -> Knowledge]
  BY <1>0, GoesTo
<1>2. ClicksGrounded'
  BY <1>0, GroundedKept
<1>3. Reserved'
  <2>1. \A q \in Clicks : HasTerminal(q) => HasTerminal(q)'
    BY DEF HasTerminal
  <2> QED
    BY <1>0, <2>1, ReservedKept
<1>4. Recorded'
  BY <1>0, RecordedKept
<1>5. OnlyServedIsAcknowledged'
  BY DEF IInv, OnlyServedIsAcknowledged, ledgerVars
<1>6. WrongRecordIsDropped'
  <2>1. CASE record' = record
    BY <2>1 DEF IInv, WrongRecordIsDropped
  <2>2. CASE record'.by = p /\ click[p].pc \in Early
    <3>1. \A q \in Clicks : terminal'[q].by # record'.by
      BY <1>0, <2>2 DEF Recorded
    <3> QED
      BY <3>1 DEF WrongRecordIsDropped
  <2> QED
    BY <2>1, <2>2
<1>7. TypeOK'
  <2>1. TerminalsFit'
    BY <1>0 DEF TypeOK, TerminalsFit, HasTerminal
  <2>2. record' \in Capabilities
    BY <1>0 DEF TypeOK
  <2> QED
    BY <1>0, <1>1, <2>1, <2>2 DEF TypeOK, worldVars, ledgerVars
<1> QED
  BY <1>2, <1>3, <1>4, <1>5, <1>6, <1>7 DEF IInv
-----------------------------------------------------------------------------
(* The steps of a click.                                                    *)

LEMMA KnowledgeTypes ==
    ASSUME TypeOK, NEW p \in Clicks
    PROVE  /\ click[p] \in Knowledge /\ click[p].agent \in Agents
           /\ click[p].caps \in Capabilities /\ click[p].plan \in Terminals
           /\ click[p].listed \subseteq AllWindows /\ click[p].stamp \in Stamps \cup {None}
           /\ click[p].pick \in AllWindows \cup {NoWindow}
           /\ place[click[p].agent] \in Places
BY DEF TypeOK, Knowledge

\* A refusal that leaves everything else alone.
LEMMA RefusalKeeps ==
    ASSUME IInv, NEW p \in Clicks, Refuses(p),
           click[p].pc \notin {"launch", "acknowledge", "clear", "refused", "killed"},
           UNCHANGED <<case, worldVars, ledgerVars, launches, record, shows, terminal,
                       served, steady, events>>
    PROVE  IInv'
<1>1. events' \in 0..MaxEvents
  BY DEF IInv, TypeOK
<1>2. ~Owner(p)
  BY DEF Owner
<1>3. Ends(p, "refused") /\ "refused" \in Over
  BY DEF Refuses, Over
<1> QED
  BY <1>1, <1>2, <1>3, EndKeeps

\* The steps before a window is focused or a terminal planned.
LEMMA FirstSteps ==
    ASSUME IInv, NEW p \in Clicks, NEW a \in Agents,
           Begin(p, a) \/ Dismiss(p, a) \/ ListWindows(p) \/ Resolve(p)
    PROVE  IInv'
<1>0. TypeOK /\ ClicksGrounded /\ Grounded(click[p], steady[p], served, case)
  BY DEF IInv, ClicksGrounded
<1>T. click[p] \in Knowledge /\ steady[p] \subseteq AllWindows
  BY <1>0, KnowledgeTypes DEF TypeOK
<1>1. CASE Begin(p, a)
  <2>0. click[p].pc = "idle" /\ Quiet
    BY <1>1 DEF Begin, At
  <2>1. CASE Refuses(p)
    BY <2>0, <2>1, RefusalKeeps DEF Quiet
  <2>2. CASE ~Refuses(p)
    <3> DEFINE c == Fetched(Constructed(a))
              k == [c EXCEPT !.pc = "list", !.stamp = roster[a].stamp, !.place = place[a]]
    <3>1. Goes(p, k) /\ roster[a] # Absent
      BY <1>1, <2>2 DEF Begin
    <3>2. c \in Knowledge /\ c.caps = NoRecord /\ c.plan = NoTerminal
      BY <1>0, ConstructedTypes, FetchedTypes
    <3>3. roster[a].stamp \in Stamps /\ place[a] \in Places
      BY <1>0, <3>1, ReportFields DEF TypeOK
    <3> HIDE DEF c
    <3>4. k \in Knowledge /\ k.pc = "list" /\ k.stamp \in Stamps
          /\ k.caps = NoRecord /\ k.plan = NoTerminal
      BY <3>2, <3>3 DEF Knowledge
    <3> HIDE DEF k
    <3>5. Grounded(k, steady'[p], served', case)
      BY <3>4 DEF Grounded, Launching, Absence
    <3>6. ~Owner(p) /\ k.caps.by = "none" /\ k.plan.by = "none" /\ click[p].pc \in Early
      BY <2>0, <3>4 DEF Owner, NoRecord, NoTerminal, Early
    <3>7. /\ served \subseteq served' /\ served' \subseteq Agents \X Stamps
          /\ steady' \in [Clicks -> SUBSET AllWindows] /\ steady' = steady
      BY <1>0, <2>0 DEF TypeOK, Quiet
    <3> QED
      BY <2>0, <3>1, <3>4, <3>5, <3>6, <3>7, GoKeeps DEF Quiet
  <2> QED
    BY <2>1, <2>2
<1>2. CASE Dismiss(p, a)
  <2>0. click[p].pc = "idle" /\ UNCHANGED <<case, worldVars, ledgerVars, launches, record,
                                           shows, terminal, steady, events>>
    BY <1>2 DEF Dismiss, At
  <2>1. CASE Refuses(p) /\ UNCHANGED served
    BY <2>0, <2>1, RefusalKeeps
  <2>2. CASE ~(Refuses(p) /\ UNCHANGED served)
    <3> DEFINE c == Constructed(a)
              k == [Fresh EXCEPT !.pc = "acknowledge", !.agent = a, !.stamp = c.memory[a].stamp]
    <3>1. Goes(p, k) /\ StillPending(c) /\ served' = served \cup {<<a, c.memory[a].stamp>>}
      BY <1>2, <2>2 DEF Dismiss
    <3>2. c \in Knowledge /\ c.agent = a /\ c.memory \in Tables(Reports)
      BY <1>0, ConstructedTypes DEF Knowledge
    <3>3. c.memory[a].stamp \in Stamps
      BY <3>1, <3>2, ReportFields DEF StillPending, PendingAgents
    <3> HIDE DEF c
    <3>4. /\ k \in Knowledge /\ k.pc = "acknowledge" /\ k.agent = a
          /\ k.stamp = c.memory[a].stamp
          /\ k.caps = NoRecord /\ k.plan = NoTerminal
      <4>1. Fresh \in Knowledge /\ Fresh.caps = NoRecord /\ Fresh.plan = NoTerminal
        BY NullTypes DEF Fresh
      <4> QED
        BY <3>3, <4>1 DEF Knowledge
    <3> HIDE DEF k
    <3>5. Grounded(k, steady'[p], served', case)
      BY <3>1, <3>3, <3>4 DEF Grounded, Launching, Absence
    <3>6. /\ ~Owner(p) /\ k.caps.by = "none" /\ k.plan.by = "none"
          /\ k.pc \notin Early
      BY <2>0, <3>4 DEF Owner, NoRecord, NoTerminal, Early
    <3>7. /\ served \subseteq served' /\ served' \subseteq Agents \X Stamps
          /\ steady' \in [Clicks -> SUBSET AllWindows] /\ steady' = steady
      BY <1>0, <2>0, <3>1, <3>3 DEF TypeOK
    <3> QED
      BY <2>0, <3>1, <3>4, <3>5, <3>6, <3>7, GoKeeps
  <2> QED
    BY <2>1, <2>2
<1>3. CASE ListWindows(p)
  <2>0. click[p].pc = "list" /\ UNCHANGED <<case, worldVars, ledgerVars, launches, record,
                                           shows, terminal, served, events>>
    BY <1>3 DEF ListWindows, At
  <2>1. CASE Refuses(p) /\ UNCHANGED steady
    BY <2>0, <2>1, RefusalKeeps
  <2>2. CASE ~(Refuses(p) /\ UNCHANGED steady)
    <3> DEFINE k == [click[p] EXCEPT !.pc = "resolve", !.listed = Open(shows)]
    <3>1. Goes(p, k) /\ steady' = [steady EXCEPT ![p] = Showing(shows, click[p].agent)]
      BY <1>3, <2>2 DEF ListWindows
    <3>2. /\ k \in Knowledge /\ k.pc = "resolve" /\ k.listed = Open(shows)
          /\ k.stamp = click[p].stamp /\ k.caps = click[p].caps /\ k.plan = click[p].plan
      BY <1>T DEF Knowledge, Open
    <3>3. Showing(shows, click[p].agent) \subseteq Open(shows)
      BY <1>0, KnowledgeTypes, ClickAssumption DEF Showing, Open
    <3>4. steady' \in [Clicks -> SUBSET AllWindows]
          /\ steady'[p] = Showing(shows, click[p].agent)
          /\ \A q \in Clicks : q # p => steady'[q] = steady[q]
      BY <1>0, <3>1 DEF TypeOK, Showing
    <3>5. Grounded(k, steady'[p], served', case)
      BY <1>0, <2>0, <3>2, <3>3, <3>4 DEF Grounded, Launching, Absence, Over
    <3>6. ~Owner(p) /\ click[p].pc \in Early
      BY <2>0 DEF Owner, Early
    <3>7. served \subseteq served' /\ served' \subseteq Agents \X Stamps
      BY <1>0, <2>0 DEF TypeOK
    <3> HIDE DEF k
    <3> QED
      BY <2>0, <3>1, <3>2, <3>4, <3>5, <3>6, <3>7, GoKeeps
  <2> QED
    BY <2>1, <2>2
<1>4. CASE Resolve(p)
  <2>0. click[p].pc = "resolve" /\ Quiet
    BY <1>4 DEF Resolve, At
  <2>1. CASE Refuses(p)
    BY <2>0, <2>1, RefusalKeeps DEF Quiet
  <2>2. CASE ~Refuses(p)
    <3>1. PICK k : /\ Goes(p, k)
                   /\ \/ \E w \in AllWindows : k = [click[p] EXCEPT !.pc = "recheck", !.pick = w]
                      \/ /\ k = [click[p] EXCEPT !.pc = "intent"]
                         /\ {w \in click[p].listed \cap steady[p] : case.recognized[w]} = {}
      <4>1. click[p].listed \subseteq AllWindows
        BY <1>0, KnowledgeTypes
      <4> QED
        BY <1>4, <2>2, <4>1 DEF Resolve
    <3>2. /\ k \in Knowledge /\ k.pc \in {"recheck", "intent"}
          /\ k.stamp = click[p].stamp /\ k.caps = click[p].caps /\ k.plan = click[p].plan
      BY <1>T, <3>1 DEF Knowledge
    <3>3. Grounded(k, steady'[p], served', case)
      <4>1. k.pc = "intent" => \A w \in steady[p] : ~case.recognized[w]
        <5>1. steady[p] \subseteq click[p].listed
          BY <1>0, <2>0 DEF Grounded
        <5>2. \A w : [click[p] EXCEPT !.pc = "recheck", !.pick = w].pc # "intent"
          BY <1>T DEF Knowledge
        <5> QED
          BY <3>1, <5>1, <5>2
      <4>2. steady' = steady /\ served' = served
        BY <2>0 DEF Quiet
      <4> QED
        BY <1>0, <2>0, <3>2, <4>1, <4>2 DEF Grounded, Launching, Absence, Over
    <3>4. ~Owner(p) /\ click[p].pc \in Early
      BY <2>0 DEF Owner, Early
    <3>5. /\ served \subseteq served' /\ served' \subseteq Agents \X Stamps
          /\ steady' \in [Clicks -> SUBSET AllWindows] /\ steady' = steady
      BY <1>0, <2>0 DEF TypeOK, Quiet
    <3> QED
      BY <2>0, <3>1, <3>2, <3>3, <3>4, <3>5, GoKeeps DEF Quiet
  <2> QED
    BY <2>1, <2>2
<1> QED
  BY <1>1, <1>2, <1>3, <1>4

\* A click goes on with nothing else changed.
LEMMA QuietGoKeeps ==
    ASSUME IInv, NEW p \in Clicks, NEW k \in Knowledge, Goes(p, k), Quiet, ~Owner(p),
           Grounded(k, steady[p], served, case),
           k.pc \in Early => click[p].pc \in Early,
           k.caps.by \in {click[p].caps.by, record.by},
           k.plan.by \in {click[p].plan.by, click[p].caps.by}
    PROVE  IInv'
<1>1. /\ served' \subseteq Agents \X Stamps /\ steady' \in [Clicks -> SUBSET AllWindows]
      /\ steady' = steady /\ served' = served /\ record' = record
  BY DEF IInv, TypeOK, Quiet
<1> QED
  BY <1>1, GoKeeps DEF Quiet

\* The steps of a click that has a window.
LEMMA WindowSteps ==
    ASSUME IInv, NEW p \in Clicks, Recheck(p) \/ Focus(p)
    PROVE  IInv'
<1>0. TypeOK /\ ClicksGrounded /\ Grounded(click[p], steady[p], served, case)
  BY DEF IInv, ClicksGrounded
<1>T. click[p] \in Knowledge
  BY <1>0, KnowledgeTypes
<1>1. CASE Recheck(p)
  <2>0. click[p].pc = "recheck" /\ Quiet
    BY <1>1 DEF Recheck, At
  <2>1. CASE Refuses(p)
    BY <2>0, <2>1, RefusalKeeps DEF Quiet
  <2>2. CASE ~Refuses(p)
    <3>1. PICK c \in {click[p], Fetched(click[p])} : Goes(p, [c EXCEPT !.pc = "focus"])
      BY <1>1, <2>2 DEF Recheck
    <3>2. /\ c \in Knowledge /\ c.stamp = click[p].stamp
          /\ c.caps = click[p].caps /\ c.plan = click[p].plan
      BY <1>0, <1>T, FetchedTypes
    <3> DEFINE k == [c EXCEPT !.pc = "focus"]
    <3>3. /\ k \in Knowledge /\ k.pc = "focus" /\ k.stamp = click[p].stamp
          /\ k.caps = click[p].caps /\ k.plan = click[p].plan
      BY <3>2 DEF Knowledge
    <3>4. Goes(p, k)
      BY <3>1
    <3> HIDE DEF k
    <3>5. Grounded(k, steady[p], served, case) /\ ~Owner(p) /\ k.pc \notin Early
      BY <1>0, <2>0, <3>3 DEF Grounded, Launching, Absence, Over, Owner, Early
    <3> QED
      BY <2>0, <3>3, <3>4, <3>5, QuietGoKeeps
  <2> QED
    BY <2>1, <2>2
<1>2. CASE Focus(p)
  <2>0. click[p].pc = "focus" /\ UNCHANGED <<case, worldVars, ledgerVars, launches, record,
                                            shows, terminal, steady, events>>
    BY <1>2 DEF Focus, At
  <2>1. CASE Refuses(p) /\ UNCHANGED served
    BY <2>0, <2>1, RefusalKeeps
  <2>2. CASE ~(Refuses(p) /\ UNCHANGED served)
    <3> DEFINE k == [click[p] EXCEPT !.pc = "acknowledge"]
    <3>1. Goes(p, k) /\ served' = served \cup {<<click[p].agent, click[p].stamp>>}
      BY <1>2, <2>2 DEF Focus
    <3>2. /\ k \in Knowledge /\ k.pc = "acknowledge" /\ k.stamp = click[p].stamp
          /\ k.agent = click[p].agent /\ k.caps = click[p].caps /\ k.plan = click[p].plan
      BY <1>T DEF Knowledge
    <3> HIDE DEF k
    <3>3. click[p].stamp \in Stamps /\ click[p].agent \in Agents
      BY <1>0, <2>0, KnowledgeTypes DEF Grounded, Over
    <3>4. /\ Grounded(k, steady'[p], served', case) /\ ~Owner(p) /\ k.pc \notin Early
      BY <2>0, <3>1, <3>2, <3>3 DEF Grounded, Launching, Absence, Over, Owner, Early
    <3>5. /\ served \subseteq served' /\ served' \subseteq Agents \X Stamps
          /\ steady' \in [Clicks -> SUBSET AllWindows] /\ steady' = steady
      BY <1>0, <2>0, <3>1, <3>3 DEF TypeOK
    <3> QED
      BY <2>0, <3>1, <3>2, <3>4, <3>5, GoKeeps
  <2> QED
    BY <2>1, <2>2
<1> QED
  BY <1>1, <1>2

\* The transport that is chosen is one for the machine, and has a client here.
LEMMA ChosenFits ==
    ASSUME TypeOK, NEW caps \in Capabilities, NEW how, how # "none",
           how = ChooseTransport(case.preference, ~case.remote, case.clients, caps)
    PROVE  /\ how \in {"local"} \cup Transports
           /\ how = "local" <=> ~case.remote
           /\ how \in {"local"} \cup case.clients
<1>1. /\ case.clients \subseteq Transports /\ case.remote \in BOOLEAN
      /\ case.preference \in Transports \cup {"auto", "local"}
  BY ClickAssumption DEF TypeOK
<1>2. CASE case.remote
  <2>1. how \in case.clients
    BY <1>2 DEF ChooseTransport, Preferred
  <2>2. how \in Transports /\ how # "local"
    BY <1>1, <2>1 DEF Transports
  <2> QED
    BY <1>2, <2>1, <2>2
<1>3. CASE ~case.remote
  BY <1>3 DEF ChooseTransport
<1> QED
  BY <1>2, <1>3

\* The steps of a click without a window, up to its reservation.
LEMMA TerminalSteps ==
    ASSUME IInv, NEW p \in Clicks, Intent(p) \/ Verify(p) \/ Rebind(p) \/ Plan(p) \/ Final(p)
    PROVE  IInv'
<1>0. TypeOK /\ ClicksGrounded /\ Grounded(click[p], steady[p], served, case)
  BY DEF IInv, ClicksGrounded
<1>T. click[p] \in Knowledge
  BY <1>0, KnowledgeTypes
<1>1. CASE Intent(p)
  <2>0. click[p].pc = "intent" /\ Quiet
    BY <1>1 DEF Intent, At
  <2>1. CASE Refuses(p)
    BY <2>0, <2>1, RefusalKeeps DEF Quiet
  <2>2. CASE ~Refuses(p)
    <3> DEFINE k == [click[p] EXCEPT !.pc = "verify", !.caps = record]
    <3>1. Goes(p, k)
      BY <1>1, <2>2 DEF Intent
    <3>2. /\ k \in Knowledge /\ k.pc = "verify" /\ k.stamp = click[p].stamp
          /\ k.caps = record /\ k.plan = click[p].plan
      BY <1>0, <1>T DEF Knowledge, TypeOK
    <3> HIDE DEF k
    <3>3. Grounded(k, steady[p], served, case) /\ ~Owner(p) /\ click[p].pc \in Early
      BY <1>0, <2>0, <3>2 DEF Grounded, Launching, Absence, Over, Owner, Early
    <3> QED
      BY <2>0, <3>1, <3>2, <3>3, QuietGoKeeps
  <2> QED
    BY <2>1, <2>2
<1>2. CASE Verify(p)
  <2>0. click[p].pc = "verify" /\ UNCHANGED <<case, worldVars, ledgerVars, launches,
                                             shows, terminal, served, steady, events>>
    BY <1>2 DEF Verify, At
  <2>1. CASE Refuses(p) /\ UNCHANGED record
    BY <2>0, <2>1, RefusalKeeps
  <2>2. CASE ~(Refuses(p) /\ UNCHANGED record)
    <3> DEFINE k(caps) == [click[p] EXCEPT !.pc = "rebind", !.proven = click[p].place,
                                          !.caps = caps]
    <3>1. \E caps \in Capabilities :
             /\ Goes(p, k(caps))
             /\ \/ caps = click[p].caps /\ record' = record
                \/ caps = record' /\ record'.by = p
      <4>1. CASE /\ Goes(p, [click[p] EXCEPT !.pc = "rebind", !.proven = click[p].place])
                 /\ UNCHANGED record
        <5>1. [click[p] EXCEPT !.pc = "rebind", !.proven = click[p].place] = k(click[p].caps)
          BY <1>T DEF Knowledge
        <5>2. click[p].caps \in Capabilities
          BY <1>0, KnowledgeTypes
        <5> QED
          BY <4>1, <5>1, <5>2
      <4>2. CASE ~(/\ Goes(p, [click[p] EXCEPT !.pc = "rebind", !.proven = click[p].place])
                   /\ UNCHANGED record)
        <5> DEFINE state(t, known) == IF t \notin known THEN "unknown"
                                      ELSE IF t \in works THEN "available" ELSE "unavailable"
        <5>1. PICK known : record' = [et |-> state("et", known), mosh |-> state("mosh", known),
                                      ssh |-> state("ssh", known), by |-> p]
          BY <1>2, <2>2, <4>2 DEF Verify
        <5>2. \A t : state(t, known) \in Known
          BY DEF Known
        <5> HIDE DEF state
        <5>3. record' \in Capabilities /\ record'.by = p
          BY <5>1, <5>2 DEF Capabilities, Recorders
        <5>4. Goes(p, k(record'))
          BY <1>2, <2>2, <4>2 DEF Verify
        <5> QED
          BY <5>3, <5>4
      <4> QED
        BY <4>1, <4>2
    <3>2. PICK caps \in Capabilities :
             /\ Goes(p, k(caps))
             /\ \/ caps = click[p].caps /\ record' = record
                \/ caps = record' /\ record'.by = p
      BY <3>1
    <3>3. /\ k(caps) \in Knowledge /\ k(caps).pc = "rebind" /\ k(caps).caps = caps
          /\ k(caps).stamp = click[p].stamp /\ k(caps).plan = click[p].plan
          /\ k(caps).place = k(caps).proven
      BY <1>T DEF Knowledge
    <3> HIDE DEF k
    <3>4. /\ served \subseteq served' /\ served' \subseteq Agents \X Stamps /\ served' = served
          /\ steady' \in [Clicks -> SUBSET AllWindows] /\ steady' = steady
      BY <1>0, <2>0 DEF TypeOK
    <3>5. /\ Grounded(k(caps), steady'[p], served', case) /\ ~Owner(p)
          /\ k(caps).pc \notin Early /\ click[p].pc \in Early
      BY <1>0, <2>0, <3>3, <3>4 DEF Grounded, Launching, Absence, Over, Owner, Early
    <3> QED
      BY <2>0, <3>2, <3>3, <3>4, <3>5, GoKeeps
  <2> QED
    BY <2>1, <2>2
<1>3. CASE Rebind(p) \/ Final(p)
  <2>0. /\ click[p].pc \in {"rebind", "final"} /\ Quiet
    BY <1>3 DEF Rebind, Final, At
  <2>1. CASE Refuses(p)
    BY <2>0, <2>1, RefusalKeeps DEF Quiet
  <2>2. CASE ~Refuses(p)
    <3> DEFINE c == Fetched(click[p])
               next == IF click[p].pc = "rebind" THEN "plan" ELSE "reserve"
               k == [c EXCEPT !.pc = next, !.place = place[click[p].agent]]
    <3>1. Goes(p, k) /\ place[click[p].agent] = click[p].place
      BY <1>3, <2>2 DEF Rebind, Final, At, Bound, SameClaim
    <3>2. /\ c \in Knowledge /\ c.stamp = click[p].stamp /\ c.proven = click[p].proven
          /\ c.caps = click[p].caps /\ c.plan = click[p].plan
      BY <1>0, <1>T, FetchedTypes
    <3> HIDE DEF c
    <3>3. /\ k \in Knowledge /\ k.pc = next /\ k.stamp = click[p].stamp
          /\ k.place = click[p].place /\ k.proven = click[p].proven
          /\ k.caps = click[p].caps /\ k.plan = click[p].plan
      BY <1>0, <3>1, <3>2, KnowledgeTypes DEF Knowledge
    <3> HIDE DEF k
    <3>4. Grounded(k, steady[p], served, case) /\ ~Owner(p) /\ k.pc \notin Early
      BY <1>0, <2>0, <3>3 DEF Grounded, Launching, Absence, Over, Owner, Early
    <3> QED
      BY <2>0, <3>1, <3>3, <3>4, QuietGoKeeps
  <2> QED
    BY <2>1, <2>2
<1>4. CASE Plan(p)
  <2>0. click[p].pc = "plan" /\ Quiet
    BY <1>4 DEF Plan, At
  <2>1. CASE Refuses(p)
    BY <2>0, <2>1, RefusalKeeps DEF Quiet
  <2>2. CASE ~Refuses(p)
    <3> DEFINE how == ChooseTransport(case.preference, ~case.remote, case.clients,
                                      click[p].caps)
               t == [NoTerminal EXCEPT !.how = how, !.by = click[p].caps.by,
                                       !.fallback = FallbackOf(how, case.clients)]
               k == [click[p] EXCEPT !.pc = "final", !.plan = t]
    <3>1. Goes(p, k) /\ how # "none"
      BY <1>4, <2>2 DEF Plan
    <3>2. /\ how \in {"local"} \cup Transports
          /\ how = "local" <=> ~case.remote
          /\ how \in {"local"} \cup case.clients
      BY <1>0, <3>1, KnowledgeTypes, ChosenFits
    <3> HIDE DEF how
    <3>3. t \in Terminals /\ t.how = how /\ t.by = click[p].caps.by
      <4>1. click[p].caps.by \in Recorders
        BY <1>0, KnowledgeTypes DEF Capabilities
      <4>2. FallbackOf(how, case.clients) \in {"none", "ssh"}
        BY DEF FallbackOf
      <4>3. NoTerminal \in Terminals
        BY NullTypes
      <4> QED
        BY <3>2, <4>1, <4>2, <4>3 DEF Terminals
    <3>4. Fits(t, case)
      BY <3>2, <3>3 DEF Fits
    <3> HIDE DEF t
    <3>5. /\ k \in Knowledge /\ k.pc = "final" /\ k.stamp = click[p].stamp
          /\ k.place = click[p].place /\ k.proven = click[p].proven
          /\ k.caps = click[p].caps /\ k.plan = t
      BY <1>T, <3>3 DEF Knowledge
    <3> HIDE DEF k
    <3>6. Grounded(k, steady[p], served, case) /\ ~Owner(p) /\ k.pc \notin Early
      BY <1>0, <2>0, <3>4, <3>5 DEF Grounded, Launching, Absence, Over, Owner, Early
    <3> QED
      BY <2>0, <3>1, <3>3, <3>5, <3>6, QuietGoKeeps
  <2> QED
    BY <2>1, <2>2
<1> QED
  BY <1>1, <1>2, <1>3, <1>4

\* The reservation.
LEMMA ReserveStep ==
    ASSUME IInv, NEW p \in Clicks, Reserve(p)
    PROVE  IInv'
<1>0. /\ TypeOK /\ ClicksGrounded /\ Grounded(click[p], steady[p], served, case)
      /\ Reserved /\ Recorded
  BY DEF IInv, ClicksGrounded
<1>1. click[p].pc = "reserve" /\ UNCHANGED <<case, worldVars, ledgerVars, record, shows,
                                           terminal, served, steady, events>>
  BY DEF Reserve, At
<1>2. CASE Refuses(p) /\ UNCHANGED launches
  BY <1>1, <1>2, RefusalKeeps
<1>3. CASE ~(Refuses(p) /\ UNCHANGED launches)
  <2> DEFINE k == [click[p] EXCEPT !.pc = "launch"]
             a == click[p].agent
  <2>1. Goes(p, k) /\ launches' = [launches EXCEPT ![a] = click[p].stamp]
    BY <1>3 DEF Reserve
  <2>2. click[p].stamp \in Stamps /\ a \in Agents
    BY <1>0, <1>1, KnowledgeTypes DEF Grounded, Over
  <2>3. /\ k \in Knowledge /\ k.pc = "launch" /\ k.stamp = click[p].stamp
        /\ k.agent = a /\ k.place = click[p].place /\ k.proven = click[p].proven
        /\ k.caps = click[p].caps /\ k.plan = click[p].plan
    BY <1>0, KnowledgeTypes DEF Knowledge
  <2> HIDE DEF k
  <2>4. /\ click' \in [Clicks -> Knowledge] /\ click'[p] = k
        /\ \A q \in Clicks : q # p => click'[q] = click[q]
    BY <1>0, <2>1, <2>3, GoesTo
  <2>5. ClicksGrounded'
    <3>1. Grounded(k, steady'[p], served', case)
      BY <1>0, <1>1, <2>3 DEF Grounded, Launching, Absence, Over
    <3> QED
      BY <1>0, <1>1, <2>1, <2>3, <3>1, GroundedKept
  <2>6. Reserved'
    <3> SUFFICES ASSUME NEW b \in Agents, launches'[b] # Absent
                 PROVE  \E q \in Clicks : ClaimOf(q)' = <<b, launches'[b]>> /\ Owner(q)'
      BY DEF Reserved
    <3>1. CASE b = a
      <4>1. launches'[a] = click[p].stamp
        BY <1>0, <2>1, <2>2 DEF TypeOK, Tables
      <4>2. ClaimOf(p)' = <<a, launches'[a]>> /\ Owner(p)'
        BY <2>3, <2>4, <4>1 DEF ClaimOf, Owner
      <4> QED
        BY <3>1, <4>2
    <3>2. CASE b # a
      <4>1. launches'[b] = launches[b]
        BY <1>0, <2>1, <3>2 DEF TypeOK, Tables
      <4>2. PICK q \in Clicks : ClaimOf(q) = <<b, launches[b]>> /\ Owner(q)
        BY <1>0, <4>1 DEF Reserved
      <4>3. q # p
        BY <3>2, <4>2 DEF ClaimOf
      <4>4. ClaimOf(q)' = ClaimOf(q) /\ Owner(q)'
        BY <1>1, <2>4, <4>2, <4>3 DEF ClaimOf, Owner, HasTerminal
      <4> QED
        BY <4>1, <4>2, <4>4
    <3> QED
      BY <3>1, <3>2
  <2>7. Recorded'
    <3>1. k.pc \notin Early
      BY <2>3 DEF Early
    <3> QED
      BY <1>0, <1>1, <2>1, <2>3, <3>1, RecordedKept
  <2>8. OnlyServedIsAcknowledged' /\ WrongRecordIsDropped'
    BY <1>1 DEF IInv, OnlyServedIsAcknowledged, WrongRecordIsDropped, ledgerVars
  <2>9. TypeOK'
    <3>1. TerminalsFit'
      BY <1>0, <1>1 DEF TypeOK, TerminalsFit, HasTerminal
    <3>2. launches' \in Tables(Stamps)
      BY <1>0, <2>1, <2>2 DEF TypeOK, Tables
    <3> QED
      BY <1>0, <1>1, <2>4, <3>1, <3>2 DEF TypeOK, worldVars, ledgerVars
  <2> QED
    BY <2>5, <2>6, <2>7, <2>8, <2>9 DEF IInv
<1> QED
  BY <1>2, <1>3

\* The launch.
LEMMA LaunchStep ==
    ASSUME IInv, NEW p \in Clicks, Launch(p)
    PROVE  IInv'
<1>0. /\ TypeOK /\ ClicksGrounded /\ Grounded(click[p], steady[p], served, case)
      /\ Reserved /\ Recorded
  BY DEF IInv, ClicksGrounded
<1> DEFINE k == [click[p] EXCEPT !.pc = "acknowledge"]
           t == [click[p].plan EXCEPT !.step = "starting", !.place = click[p].place]
<1>1. /\ click[p].pc = "launch" /\ Goes(p, k)
      /\ terminal' = [terminal EXCEPT ![p] = t] /\ shows' = [shows EXCEPT ![p] = Nobody]
      /\ served' = served \cup {<<click[p].agent, click[p].stamp>>}
      /\ UNCHANGED <<case, worldVars, ledgerVars, launches, record, steady, events>>
  BY DEF Launch, At
<1>2. click[p].stamp \in Stamps /\ click[p].agent \in Agents /\ Fits(click[p].plan, case)
  BY <1>0, <1>1, KnowledgeTypes DEF Grounded, Over
<1>3. /\ k \in Knowledge /\ k.pc = "acknowledge" /\ k.stamp = click[p].stamp
      /\ k.agent = click[p].agent /\ k.caps = click[p].caps /\ k.plan = click[p].plan
  BY <1>0, KnowledgeTypes DEF Knowledge
<1>4. /\ t \in Terminals /\ t.step = "starting" /\ t.by = click[p].plan.by
      /\ t.how = click[p].plan.how
  BY <1>0, KnowledgeTypes DEF Terminals, Knowledge
<1> HIDE DEF k, t
<1>5. /\ click' \in [Clicks -> Knowledge] /\ click'[p] = k
      /\ \A q \in Clicks : q # p => click'[q] = click[q]
  BY <1>0, <1>1, <1>3, GoesTo
<1>6. /\ terminal' \in [Clicks -> Terminals] /\ terminal'[p] = t
      /\ \A q \in Clicks : q # p => terminal'[q] = terminal[q]
  BY <1>0, <1>1, <1>4 DEF TypeOK
<1>7. HasTerminal(p)' /\ \A q \in Clicks : HasTerminal(q) => HasTerminal(q)'
  BY <1>4, <1>6 DEF HasTerminal
<1>8. ClicksGrounded'
  <2>1. Grounded(k, steady'[p], served', case)
    BY <1>0, <1>1, <1>2, <1>3 DEF Grounded, Launching, Absence, Over
  <2> QED
    BY <1>0, <1>1, <1>3, <2>1, GroundedKept
<1>9. Reserved'
  <2>1. Owner(p)' /\ ClaimOf(p)' = ClaimOf(p)
    BY <1>3, <1>5, <1>7 DEF Owner, ClaimOf
  <2> QED
    BY <1>0, <1>1, <1>3, <1>7, <2>1, ReservedKept
<1>10. Recorded'
  <2>1. k.pc \notin Early
    BY <1>3 DEF Early
  <2>2. \A q \in Clicks : terminal'[q].by \in {terminal[q].by, click[q].plan.by}
    BY <1>4, <1>6
  <2> QED
    BY <1>0, <1>1, <1>3, <2>1, <2>2, RecordedKept
<1>11. OnlyServedIsAcknowledged'
  BY <1>1 DEF IInv, OnlyServedIsAcknowledged, ledgerVars
<1>12. WrongRecordIsDropped'
  BY <1>1, <1>4, <1>6 DEF IInv, WrongRecordIsDropped
<1>13. TypeOK'
  <2>1. \A q \in Clicks : HasTerminal(q)' => Fits(terminal'[q], case)
    <3>1. Fits(t, case)
      BY <1>2, <1>4 DEF Fits
    <3> QED
      BY <1>0, <1>6, <3>1 DEF TypeOK, TerminalsFit, HasTerminal
  <2>2. \A q \in Clicks : shows'[q] # Absent => HasTerminal(q)'
    <3>1. \A q \in Clicks : q # p => shows'[q] = shows[q]
      BY <1>0, <1>1 DEF TypeOK, AllWindows
    <3> QED
      BY <1>0, <1>7, <3>1 DEF TypeOK, TerminalsFit
  <2>3. TerminalsFit'
    BY <1>1, <2>1, <2>2 DEF TerminalsFit
  <2>4. shows' \in [AllWindows -> Contents] /\ served' \subseteq Agents \X Stamps
    BY <1>0, <1>1, <1>2 DEF TypeOK, AllWindows, Contents
  <2> QED
    BY <1>0, <1>1, <1>5, <1>6, <2>3, <2>4 DEF TypeOK, worldVars, ledgerVars
<1> QED
  BY <1>8, <1>9, <1>10, <1>11, <1>12, <1>13 DEF IInv

\* The acknowledgement.
LEMMA AcknowledgeStep ==
    ASSUME IInv, NEW p \in Clicks, Acknowledge(p)
    PROVE  IInv'
<1>0. /\ TypeOK /\ ClicksGrounded /\ Grounded(click[p], steady[p], served, case)
      /\ Reserved /\ Recorded
  BY DEF IInv, ClicksGrounded
<1>1. /\ click[p].pc = "acknowledge"
      /\ UNCHANGED <<case, worldVars, saved, memory, launches, record, shows, terminal,
                     served, steady, events>>
  BY DEF Acknowledge, At
<1>2. CASE Refuses(p) /\ UNCHANGED <<acks, pending>>
  <2>1. Ends(p, "refused") /\ "refused" \in Over /\ UNCHANGED ledgerVars
    BY <1>1, <1>2 DEF Refuses, Over, ledgerVars
  <2>2. Owner(p) => OwnerEnds(p, "refused")
    BY <1>1 DEF Owner, OwnerEnds
  <2>3. events' \in 0..MaxEvents
    BY <1>0, <1>1 DEF TypeOK
  <2> QED
    BY <1>1, <2>1, <2>2, <2>3, EndKeeps
<1>3. CASE ~(Refuses(p) /\ UNCHANGED <<acks, pending>>)
  <2> DEFINE k == [click[p] EXCEPT !.pc = "clear"]
             a == click[p].agent
  <2>1. /\ Goes(p, k) /\ acks' = AckedTable(acks, a, click[p].stamp)
        /\ pending' = Without(pending, a)
    BY <1>3 DEF Acknowledge
  <2>2. /\ click[p].stamp \in Stamps /\ a \in Agents
        /\ <<a, click[p].stamp>> \in served
    BY <1>0, <1>1, KnowledgeTypes DEF Grounded, Over
  <2>3. /\ k \in Knowledge /\ k.pc = "clear" /\ k.stamp = click[p].stamp
        /\ k.agent = a /\ k.caps = click[p].caps /\ k.plan = click[p].plan
    BY <1>0, KnowledgeTypes DEF Knowledge
  <2> HIDE DEF k
  <2>4. /\ click' \in [Clicks -> Knowledge] /\ click'[p] = k
        /\ \A q \in Clicks : q # p => click'[q] = click[q]
    BY <1>0, <2>1, <2>3, GoesTo
  <2>5. ClicksGrounded'
    <3>1. Grounded(k, steady'[p], served', case)
      BY <1>0, <1>1, <2>2, <2>3 DEF Grounded, Launching, Absence, Over
    <3> QED
      BY <1>0, <1>1, <2>1, <2>3, <3>1, GroundedKept
  <2>6. Reserved'
    <3>1. Owner(p) => Owner(p)' /\ ClaimOf(p)' = ClaimOf(p)
      BY <1>1, <2>3, <2>4 DEF Owner, ClaimOf, HasTerminal
    <3>2. \A q \in Clicks : HasTerminal(q) => HasTerminal(q)'
      BY <1>1 DEF HasTerminal
    <3> QED
      BY <1>0, <1>1, <2>1, <2>3, <3>1, <3>2, ReservedKept
  <2>7. Recorded'
    <3>1. k.pc \notin Early
      BY <2>3 DEF Early
    <3> QED
      BY <1>0, <1>1, <2>1, <2>3, <3>1, RecordedKept
  <2>8. OnlyServedIsAcknowledged'
    <3>1. /\ acks'[a] = click[p].stamp
          /\ \A b \in Agents : b # a => acks'[b] = acks[b]
      BY <1>0, <2>1, <2>2 DEF TypeOK, Tables, AckedTable
    <3> QED
      BY <1>1, <2>2, <3>1 DEF IInv, OnlyServedIsAcknowledged
  <2>9. WrongRecordIsDropped'
    BY <1>1 DEF IInv, WrongRecordIsDropped
  <2>10. TypeOK'
    <3>1. TerminalsFit'
      BY <1>0, <1>1 DEF TypeOK, TerminalsFit, HasTerminal
    <3>2. acks' \in Tables(Stamps) /\ pending' \in Tables(Reports)
      BY <1>0, <2>1, <2>2, AckedTableType, WithoutType DEF TypeOK
    <3> QED
      BY <1>0, <1>1, <2>4, <3>1, <3>2 DEF TypeOK, worldVars
  <2> QED
    BY <2>5, <2>6, <2>7, <2>8, <2>9, <2>10 DEF IInv
<1> QED
  BY <1>2, <1>3

\* A failed launch, the release of the reservation, and a kill.
LEMMA LastSteps ==
    ASSUME IInv, NEW p \in Clicks, LaunchFails(p) \/ ClearIntent(p) \/ Killed(p)
    PROVE  IInv'
<1>0. events \in 0..MaxEvents /\ MaxEvents \in Nat
  BY ClickAssumption DEF IInv, TypeOK
<1>1. CASE LaunchFails(p)
  BY <1>0, <1>1, EndKeeps DEF LaunchFails, Refuses, Over
<1>2. CASE ClearIntent(p)
  BY <1>0, <1>2, EndKeeps DEF ClearIntent, Over
<1>3. CASE Killed(p)
  <2>1. events' \in 0..MaxEvents
    BY <1>0, <1>3 DEF Killed, Event
  <2>2. OwnerEnds(p, "killed") /\ "killed" \in Over
    BY DEF OwnerEnds, Over
  <2> QED
    BY <1>3, <2>1, <2>2, EndKeeps DEF Killed
<1> QED
  BY <1>1, <1>2, <1>3
-----------------------------------------------------------------------------
(* The steps around the clicks, and those in a terminal.                    *)

LEMMA StampTypes == Stamps = Nat \ {0}
BY ClickAssumption DEF Stamps

\* Around the clicks reservations and records only go, and no window opens.
LEMMA OutsideKeeps ==
    ASSUME IInv, UNCHANGED <<case, click, terminal, served, acks>>,
           roster' \in Tables(Reports), pending' \in Tables(Reports),
           saved' \in Tables(Reports), memory' \in Tables(Reports),
           place' \in [Agents -> Places], pane' \in [Agents -> Places],
           reporting' \in BOOLEAN, works' \subseteq Transports, events' \in 0..MaxEvents,
           record' \in {record, NoRecord},
           launches' \in Tables(Stamps), \A a \in Agents : launches'[a] \in {launches[a], Absent},
           shows' \in [AllWindows -> Contents],
           \A w \in AllWindows : shows'[w] # Absent => shows[w] # Absent,
           steady' \in [Clicks -> SUBSET AllWindows],
           \A p \in Clicks : steady'[p] \subseteq steady[p]
    PROVE  IInv'
<1>0. TypeOK /\ ClicksGrounded /\ Reserved /\ Recorded
  BY DEF IInv
<1>1. TypeOK'
  <2>1. TerminalsFit'
    BY <1>0 DEF TypeOK, TerminalsFit, HasTerminal, AllWindows
  <2>2. record' \in Capabilities
    BY <1>0, NullTypes DEF TypeOK
  <2> QED
    BY <1>0, <2>1, <2>2 DEF TypeOK
<1>2. ClicksGrounded'
  BY <1>0 DEF ClicksGrounded, Grounded
<1>3. Reserved'
  <2> SUFFICES ASSUME NEW a \in Agents, launches'[a] # Absent
               PROVE  \E p \in Clicks : ClaimOf(p)' = <<a, launches'[a]>> /\ Owner(p)'
    BY DEF Reserved
  <2>1. launches'[a] = launches[a]
    OBVIOUS
  <2>2. PICK p \in Clicks : ClaimOf(p) = <<a, launches[a]>> /\ Owner(p)
    BY <1>0, <2>1 DEF Reserved
  <2>3. ClaimOf(p)' = ClaimOf(p) /\ Owner(p)'
    BY <2>2 DEF ClaimOf, Owner, HasTerminal
  <2> QED
    BY <2>1, <2>2, <2>3
<1>4. Recorded'
  <2>1. \A p \in Clicks : p # "none"
    BY ClickAssumption
  <2>2. NoRecord.by = "none"
    BY DEF NoRecord
  <2> QED
    BY <1>0, <2>1, <2>2 DEF Recorded
<1>5. OnlyServedIsAcknowledged' /\ WrongRecordIsDropped'
  BY DEF IInv, OnlyServedIsAcknowledged, WrongRecordIsDropped
<1> QED
  BY <1>1, <1>2, <1>3, <1>4, <1>5 DEF IInv

LEMMA AroundStep ==
    ASSUME IInv, Around
    PROVE  IInv'
<1>0. TypeOK /\ MaxEvents \in Nat
  BY ClickAssumption DEF IInv
<1>1. /\ launches \in Tables(Stamps) /\ steady \in [Clicks -> SUBSET AllWindows]
      /\ shows \in [AllWindows -> Contents] /\ roster \in Tables(Reports)
      /\ place \in [Agents -> Places] /\ pane \in [Agents -> Places]
      /\ pending \in Tables(Reports) /\ saved \in Tables(Reports) /\ memory \in Tables(Reports)
      /\ reporting \in BOOLEAN /\ works \subseteq Transports /\ events \in 0..MaxEvents
  BY <1>0 DEF TypeOK
<1>2. Event => events' \in 0..MaxEvents
  BY <1>0, <1>1 DEF Event
<1> USE DEF Outside, worldVars, ledgerVars
<1>3. ASSUME NEW a \in Agents, NEW state \in {"needs_attention", "active"}, Observe(a, state)
      PROVE  IInv'
  <2>1. roster[a].stamp \in Nat \ {0}
    BY <1>1, <1>3, ReportFields, StampTypes DEF Observe
  <2>2. [state |-> state, stamp |-> roster[a].stamp + 1, present |-> TRUE] \in Reports
    BY <2>1, StampTypes DEF Reports, States
  <2>3. roster' \in Tables(Reports)
    BY <1>1, <1>3, <2>2 DEF Observe, Tables
  <2> QED
    BY <1>1, <1>2, <1>3, <2>3, OutsideKeeps DEF Observe
<1>4. ASSUME NEW a \in Agents, Leave(a)
      PROVE  IInv'
  <2>1. roster' \in Tables(Reports)
    BY <1>1, <1>4, WithoutType DEF Leave
  <2> QED
    BY <1>1, <1>2, <1>4, <2>1, OutsideKeeps DEF Leave
<1>5. ASSUME NEW a \in Agents, Moves(a)
      PROVE  IInv'
  <2>1. pane' \in [Agents -> Places]
    BY <1>1, <1>5 DEF Moves, Places
  <2>2. /\ shows' \in [AllWindows -> Contents]
        /\ \A w \in AllWindows : shows'[w] # Absent => shows[w] # Absent
    BY <1>1, <1>5, ClickAssumption DEF Moves, Contents
  <2>3. /\ steady' \in [Clicks -> SUBSET AllWindows]
        /\ \A p \in Clicks : steady'[p] \subseteq steady[p]
    BY <1>1, <1>5 DEF Moves, NewSteady
  <2> QED
    BY <1>1, <1>2, <1>5, <2>1, <2>2, <2>3, OutsideKeeps DEF Moves
<1>6. ASSUME NEW a \in Agents, Reported(a)
      PROVE  IInv'
  <2>1. place' \in [Agents -> Places]
    BY <1>1, <1>6 DEF Reported
  <2> QED
    BY <1>1, <1>6, <2>1, OutsideKeeps DEF Reported
<1>7. ASSUME NEW a \in Agents, Expires(a)
      PROVE  IInv'
  <2>1. launches' \in Tables(Stamps) /\ \A b \in Agents : launches'[b] \in {launches[b], Absent}
    BY <1>1, <1>7, WithoutType DEF Expires, Without, Tables
  <2> QED
    BY <1>1, <1>2, <1>7, <2>1, OutsideKeeps DEF Expires
<1>8. CASE SourceLost \/ RecordAges
  BY <1>1, <1>2, <1>8, OutsideKeeps DEF SourceLost, RecordAges
<1>9. CASE Accept
  <2> DEFINE alerts == Alerts(saved, TRUE, memory, acks, roster)
  <2>1. alerts \in SUBSET Agents
    BY DEF Alerts
  <2>2. /\ pending' = MergePending(pending, roster, alerts, MaxEvents + 1)
        /\ memory' = pending' /\ saved' = roster
    BY <1>9 DEF Accept
  <2> HIDE DEF alerts
  <2>3. pending' \in Tables(Reports)
    BY <1>1, <2>1, <2>2, MergeType
  <2> QED
    BY <1>1, <1>9, <2>2, <2>3, OutsideKeeps DEF Accept
<1>10. ASSUME NEW t \in Transports, Rewired(t)
       PROVE  IInv'
  <2>1. works' \subseteq Transports
    BY <1>1, <1>10 DEF Rewired
  <2> QED
    BY <1>1, <1>2, <1>10, <2>1, OutsideKeeps DEF Rewired
<1>11. ASSUME NEW w \in AllWindows, NEW what \in Agents \cup {Nobody, Absent}, Turns(w, what)
       PROVE  IInv'
  <2>1. /\ shows' \in [AllWindows -> Contents]
        /\ \A v \in AllWindows : shows'[v] # Absent => shows[v] # Absent
    BY <1>1, <1>11 DEF Turns, Contents
  <2>2. /\ steady' \in [Clicks -> SUBSET AllWindows]
        /\ \A p \in Clicks : steady'[p] \subseteq steady[p]
    BY <1>1, <1>11 DEF Turns, NewSteady
  <2> QED
    BY <1>1, <1>2, <1>11, <2>1, <2>2, OutsideKeeps DEF Turns
<1> QED
  BY <1>3, <1>4, <1>5, <1>6, <1>7, <1>8, <1>9, <1>10, <1>11 DEF Around

\* The terminal of p gets on: its transport and its session are the ones it was
\* opened with, and the script forgets the record before it falls back.
LEMMA TerminalKeeps ==
    ASSUME IInv, NEW p \in Clicks, NEW step \in {"attached", "stale", "fallback", "unreached",
                                                 "over ssh", "failed"},
           HasTerminal(p), terminal' = [terminal EXCEPT ![p].step = step],
           \/ record' = record /\ step # "fallback"
           \/ record' = NoRecord,
           shows' \in [AllWindows -> Contents],
           \A w \in AllWindows : shows'[w] # Absent => shows[w] # Absent,
           UNCHANGED <<case, worldVars, ledgerVars, launches, click, served>>,
           steady' \in [Clicks -> SUBSET AllWindows],
           \A q \in Clicks : steady'[q] \subseteq steady[q],
           events' \in 0..MaxEvents
    PROVE  IInv'
<1>0. TypeOK /\ ClicksGrounded /\ Reserved /\ Recorded
  BY DEF IInv
<1> DEFINE t == [terminal[p] EXCEPT !.step = step]
<1>1. /\ t \in Terminals /\ t.step = step /\ t.by = terminal[p].by /\ t.how = terminal[p].how
  BY <1>0 DEF TypeOK, Terminals
<1>2. terminal' = [terminal EXCEPT ![p] = t]
  OBVIOUS
<1> HIDE DEF t
<1>3. /\ terminal' \in [Clicks -> Terminals] /\ terminal'[p] = t
      /\ \A q \in Clicks : q # p => terminal'[q] = terminal[q]
  BY <1>0, <1>1, <1>2 DEF TypeOK
<1>4. \A q \in Clicks : HasTerminal(q)' <=> HasTerminal(q)
  BY <1>1, <1>3 DEF HasTerminal
<1>5. TypeOK'
  <2>1. \A q \in Clicks : HasTerminal(q)' => Fits(terminal'[q], case)
    BY <1>0, <1>1, <1>3, <1>4 DEF TypeOK, TerminalsFit, Fits
  <2>2. TerminalsFit'
    BY <1>0, <1>4, <2>1 DEF TypeOK, TerminalsFit, AllWindows
  <2>3. record' \in Capabilities
    BY <1>0, NullTypes DEF TypeOK
  <2> QED
    BY <1>0, <1>3, <2>2, <2>3 DEF TypeOK, worldVars, ledgerVars
<1>6. ClicksGrounded'
  BY <1>0 DEF ClicksGrounded, Grounded
<1>7. Reserved'
  <2> SUFFICES ASSUME NEW a \in Agents, launches'[a] # Absent
               PROVE  \E q \in Clicks : ClaimOf(q)' = <<a, launches'[a]>> /\ Owner(q)'
    BY DEF Reserved
  <2>1. PICK q \in Clicks : ClaimOf(q) = <<a, launches[a]>> /\ Owner(q)
    BY <1>0 DEF Reserved
  <2>2. ClaimOf(q)' = ClaimOf(q) /\ Owner(q)'
    BY <1>4, <2>1 DEF ClaimOf, Owner
  <2> QED
    BY <2>1, <2>2
<1>8. Recorded'
  <2>1. \A q \in Clicks : q # "none"
    BY ClickAssumption
  <2>2. NoRecord.by = "none"
    BY DEF NoRecord
  <2>3. \A q \in Clicks : terminal'[q].by = terminal[q].by
    BY <1>1, <1>3
  <2> QED
    BY <1>0, <2>1, <2>2, <2>3 DEF Recorded
<1>9. OnlyServedIsAcknowledged'
  BY DEF IInv, OnlyServedIsAcknowledged, ledgerVars
<1>10. WrongRecordIsDropped'
  BY <1>1, <1>3 DEF IInv, WrongRecordIsDropped
<1> QED
  BY <1>5, <1>6, <1>7, <1>8, <1>9, <1>10 DEF IInv

LEMMA InsideTerminalStep ==
    ASSUME IInv, NEW p \in Clicks, InsideTerminal(p)
    PROVE  IInv'
<1>0. /\ TypeOK /\ shows \in [AllWindows -> Contents] /\ click[p].agent \in Agents
      /\ p \in AllWindows
  BY KnowledgeTypes DEF IInv, TypeOK, AllWindows
<1>1. HasTerminal(p)
  BY DEF InsideTerminal, Starts, Breaks, DropsRecord, FallsBack, HasTerminal
<1>2. \A step \in {"attached", "over ssh"} :
        Attaches(p, step) => /\ shows' \in [AllWindows -> Contents]
                             /\ \A w \in AllWindows : shows'[w] # Absent => shows[w] # Absent
  BY <1>0 DEF Attaches, Contents
<1>3. InTerminal => /\ UNCHANGED <<case, worldVars, ledgerVars, launches, click, served>>
                    /\ steady' \in [Clicks -> SUBSET AllWindows]
                    /\ \A q \in Clicks : steady'[q] \subseteq steady[q]
                    /\ events' \in 0..MaxEvents
  BY <1>0 DEF InTerminal, TypeOK
<1>4. CASE Starts(p)
  BY <1>0, <1>1, <1>2, <1>4, <1>3, TerminalKeeps DEF Starts, Attaches
<1>5. CASE DropsRecord(p)
  BY <1>0, <1>1, <1>5, <1>3, TerminalKeeps DEF DropsRecord
<1>6. CASE FallsBack(p)
  BY <1>0, <1>1, <1>2, <1>6, <1>3, TerminalKeeps DEF FallsBack, Attaches
<1>7. CASE Breaks(p)
  <2>1. /\ shows' \in [AllWindows -> Contents]
        /\ \A w \in AllWindows : shows'[w] # Absent => shows[w] # Absent
    BY <1>0, <1>7 DEF Breaks, Contents
  <2>2. /\ steady' \in [Clicks -> SUBSET AllWindows]
        /\ \A q \in Clicks : steady'[q] \subseteq steady[q]
    BY <1>0, <1>7 DEF Breaks, NewSteady, TypeOK
  <2>3. events' \in 0..MaxEvents
    BY <1>0, <1>7, ClickAssumption DEF Breaks, Event, TypeOK
  <2> QED
    BY <1>1, <1>7, <2>1, <2>2, <2>3, TerminalKeeps DEF Breaks
<1> QED
  BY <1>4, <1>5, <1>6, <1>7 DEF InsideTerminal
-----------------------------------------------------------------------------
(* The invariant is inductive.                                              *)

LEMMA Initially == Init => IInv
<1> SUFFICES ASSUME Init PROVE IInv
  OBVIOUS
<1>1. PICK c \in Cases : /\ case = c /\ record = c.record /\ works = c.works
                         /\ shows = [w \in AllWindows |-> IF w \in Windows THEN c.shows[w]
                                                          ELSE Absent]
  BY DEF Init
<1>2. /\ c.record \in Capabilities /\ c.works \subseteq Transports
      /\ c.shows \in [Windows -> Contents] /\ c.record.by \notin Clicks
  BY ClickAssumption
<1>3. [state |-> "needs_attention", stamp |-> 1, present |-> TRUE] \in Reports
  BY StampTypes DEF Reports, States
<1>4. /\ roster \in Tables(Reports) /\ pending = roster /\ saved = roster /\ memory = roster
      /\ acks = EmptyTable /\ launches = EmptyTable /\ reporting = TRUE
      /\ place \in [Agents -> Places] /\ pane = place
  BY <1>3 DEF Init, Tables, Places
<1>5. /\ click = [p \in Clicks |-> Fresh] /\ terminal = [p \in Clicks |-> NoTerminal]
      /\ served = {} /\ steady = [p \in Clicks |-> {}] /\ events = 0
  BY DEF Init
<1>6. /\ Fresh.pc = "idle" /\ Fresh.caps.by = "none" /\ Fresh.plan.by = "none"
      /\ NoTerminal.step = "none" /\ NoTerminal.by = "none" /\ "none" \notin Clicks
  BY ClickAssumption DEF Fresh, NoRecord, NoTerminal
<1>7. TypeOK
  <2>1. shows \in [AllWindows -> Contents] /\ \A p \in Clicks : shows[p] = Absent
    BY <1>1, <1>2, ClickAssumption DEF AllWindows, Contents
  <2>2. TerminalsFit
    BY <1>5, <1>6, <2>1 DEF TerminalsFit, HasTerminal
  <2>3. events \in 0..MaxEvents
    BY <1>5, ClickAssumption
  <2> QED
    BY <1>1, <1>2, <1>4, <1>5, <2>1, <2>2, <2>3, NullTypes DEF TypeOK
<1>8. ClicksGrounded
  BY <1>5, <1>6 DEF ClicksGrounded, Grounded, Over, Launching, Absence
<1>9. Reserved /\ OnlyServedIsAcknowledged
  BY <1>4 DEF Reserved, OnlyServedIsAcknowledged, EmptyTable
<1>10. Recorded
  BY <1>1, <1>2, <1>5, <1>6 DEF Recorded
<1>11. WrongRecordIsDropped
  BY <1>5, <1>6 DEF WrongRecordIsDropped
<1> QED
  BY <1>7, <1>8, <1>9, <1>10, <1>11 DEF IInv

LEMMA Stutters ==
    ASSUME IInv, UNCHANGED vars
    PROVE  IInv'
<1>1. events' \in 0..MaxEvents /\ \A w \in AllWindows : shows'[w] # Absent => shows[w] # Absent
  BY DEF IInv, TypeOK, vars
<1> QED
  BY <1>1, OutsideKeeps DEF IInv, TypeOK, vars, worldVars, ledgerVars

LEMMA ClickStep ==
    ASSUME IInv, NEW p \in Clicks, Click(p)
    PROVE  IInv'
<1>1. PICK a \in Agents : TRUE
  BY ClickAssumption
<1> QED
  BY <1>1, FirstSteps, WindowSteps, TerminalSteps, ReserveStep, LaunchStep, AcknowledgeStep,
     LastSteps DEF Click

\* IInv holds in every reachable state.
THEOREM Inductive == Spec => []IInv
<1>1. Init => IInv
  BY Initially
<1>2. IInv /\ [Next]_vars => IInv'
  BY Stutters, AroundStep, ClickStep, InsideTerminalStep DEF Next
<1> QED
  BY <1>1, <1>2, PTL DEF Spec
-----------------------------------------------------------------------------
(* What follows.                                                            *)

\* The tables, the clicks and their terminals keep their types, and a terminal
\* runs a transport for its machine whose client is installed here.
THEOREM TypeCorrect == Spec => []TypeOK
BY Inductive, PTL DEF IInv

\* Every acknowledged claim was focused, opened or dismissed.
THEOREM OnlyServed == Spec => []OnlyServedIsAcknowledged
BY Inductive, PTL DEF IInv

\* No record of what a click saw outlives the failure of the transport it chose
\* on a machine that ssh reaches.
THEOREM WrongRecords == Spec => []WrongRecordIsDropped
BY Inductive, PTL DEF IInv

\* Every reservation belongs to a click that launches or has launched its
\* claim, or that was killed.
THEOREM ReservationsOwned == Spec => []ReservationHasOwner
<1>1. IInv => ReservationHasOwner
  BY DEF IInv, Reserved, ReservationHasOwner, Owner
<1> QED
  BY <1>1, Inductive, PTL

\* A terminal comes from the launch of its click.
LEMMA OnlyLaunchOpens ==
    ASSUME IInv, [Next]_vars, NEW p \in Clicks, ~HasTerminal(p), HasTerminal(p)'
    PROVE  /\ click[p].pc = "launch" /\ terminal \in [Clicks -> Terminals]
           /\ terminal' = [terminal EXCEPT ![p] = [click[p].plan EXCEPT !.step = "starting",
                                                        !.place = click[p].place]]
<1>1. terminal \in [Clicks -> Terminals]
  BY DEF IInv, TypeOK
<1>2. terminal' # terminal
  BY DEF HasTerminal
<1>3. ~Around /\ ~UNCHANGED vars
  BY <1>2 DEF Around, Observe, Leave, Moves, Reported, Expires, SourceLost, RecordAges, Accept,
     Rewired, Turns, Outside, vars
<1>4. ASSUME NEW q \in Clicks, InsideTerminal(q)
      PROVE  FALSE
  <2>1. HasTerminal(q)
    BY <1>4 DEF InsideTerminal, Starts, Breaks, DropsRecord, FallsBack, HasTerminal
  <2>2. terminal'[p] = terminal[p]
    BY <1>1, <1>4, <2>1 DEF InsideTerminal, Starts, Breaks, DropsRecord, FallsBack,
          Attaches
  <2> QED
    BY <2>2 DEF HasTerminal
<1>5. PICK q \in Clicks : Click(q)
  BY <1>3, <1>4 DEF Next
<1>6. Launch(q)
  BY <1>2, <1>5 DEF Click, Begin, Dismiss, ListWindows, Resolve, Recheck, Focus, Intent, Verify,
     Rebind, Plan, Final, Reserve, LaunchFails, Acknowledge, ClearIntent, Killed, Quiet
<1>7. q = p
  BY <1>1, <1>6 DEF Launch, HasTerminal
<1> QED
  BY <1>1, <1>6, <1>7 DEF Launch, At

\* No terminal is opened for an agent that a recognizable window has shown since
\* the click asked for the windows.
THEOREM NoDuplicate == Spec => NoDuplicateTerminal
<1>1. IInv /\ [Next]_vars =>
        [\A p \in Clicks : ~HasTerminal(p) /\ HasTerminal(p)' =>
             \A w \in steady[p] : ~case.recognized[w]]_vars
  BY OnlyLaunchOpens DEF IInv, ClicksGrounded, Grounded, Absence, Launching
<1> QED
  BY <1>1, Inductive, PTL DEF Spec, NoDuplicateTerminal

\* A terminal attaches the session in which the clicked process was verified.
THEOREM VerifiedSession == Spec => VerifiedSessionIsOpened
<1>1. ASSUME IInv, [Next]_vars, NEW p \in Clicks, ~HasTerminal(p), HasTerminal(p)'
      PROVE  terminal'[p].place = click[p].proven
  <2>1. click[p].place = click[p].proven
    BY <1>1, OnlyLaunchOpens DEF IInv, ClicksGrounded, Grounded, Launching
  <2>2. click[p].plan \in Terminals
    BY <1>1, KnowledgeTypes DEF IInv
  <2>3. terminal'[p].place = click[p].place
    BY <1>1, <2>2, OnlyLaunchOpens DEF Terminals
  <2> QED
    BY <2>1, <2>3
<1>2. IInv /\ [Next]_vars =>
        [\A p \in Clicks : ~HasTerminal(p) /\ HasTerminal(p)' =>
             terminal'[p].place = click[p].proven]_vars
  BY <1>1
<1> QED
  BY <1>2, Inductive, PTL DEF Spec, VerifiedSessionIsOpened
=============================================================================
