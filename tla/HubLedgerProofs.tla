--------------------------- MODULE HubLedgerProofs ---------------------------
(***************************************************************************)
(* Theorems about HubLedger for any number of agents and clients, any      *)
(* clocks and any bounds.                                                  *)
(***************************************************************************)
EXTENDS HubLedger, HubClaimsProofs, TLAPS

USE DEF hubVars, diskVars, daemonVars, vars

-----------------------------------------------------------------------------
\* The alerts in hand were raised for reports of the frame in hand.
AlertsReported ==
    /\ phase \in {"down", "waiting", "received"} => alerts = {}
    /\ \A a \in alerts : frame.roster[a] # Absent /\ frame.roster[a].state \in Claiming

TypeInv == TypeOK /\ AlertsReported

\* Every variable keeps its type: in particular no table ever holds a null
\* entry, and no stamp is recorded that the Hub did not send.
LEMMA CaptureType ==
    ASSUME TypeOK, NEW p \in Clients, NEW a \in Agents, NEW s \in Stamps,
           Capture(p, a, s)
    PROVE  TypeOK'
<1>1. [agent |-> a, stamp |-> s] \in Claims
  BY DEF Claims
<1>2. held' \in [Clients -> Claims \cup {Absent}]
  BY <1>1 DEF TypeOK, Capture
<1> QED BY <1>2 DEF TypeOK, Capture

LEMMA TypeInit == Init => TypeOK
<1> SUFFICES ASSUME Init PROVE TypeOK
  OBVIOUS
<1>1. NoSnapshot \in Snapshots
  BY EmptyType DEF NoSnapshot, Snapshots
<1> QED BY <1>1, EmptyType DEF Init, TypeOK, Phases

LEMMA TypeHub ==
    ASSUME TypeOK, Hub
    PROVE  TypeOK'
<1>1. PICK a \in Agents :
        \/ \E state \in Activities, missing \in BOOLEAN : Observe(a, state, missing)
        \/ FlipPresence(a)
        \/ Leave(a)
  BY DEF Hub
<1>2. CASE \E state \in Activities, missing \in BOOLEAN : Observe(a, state, missing)
  <2>1. PICK state \in Activities, missing \in BOOLEAN : Observe(a, state, missing)
    BY <1>2
  <2> DEFINE s == IF missing THEN None ELSE clock + 1 + Ahead[a]
  <2>2. s \in Stamps
    BY <2>1, LedgerAssumption DEF Observe, Stamps, TypeOK
  <2>3. [state |-> state, present |-> TRUE, stamp |-> s] \in Reports
    BY <2>2, LedgerAssumption DEF Reports
  <2>4. roster' \in Tables(Reports)
    BY <2>1, <2>3 DEF Observe, TypeOK, Tables
  <2> QED BY <2>1, <2>4 DEF Observe, TypeOK
<1>3. CASE FlipPresence(a)
  <2>1. roster[a] \in Reports
    BY <1>3, EntryType DEF FlipPresence, TypeOK
  <2>2. [roster[a] EXCEPT !.present = ~@] \in Reports
    BY <2>1 DEF Reports
  <2>3. roster' = [roster EXCEPT ![a] = [roster[a] EXCEPT !.present = ~@]]
    BY <1>3 DEF FlipPresence
  <2>4. roster' \in Tables(Reports)
    BY <2>2, <2>3 DEF TypeOK, Tables
  <2> QED BY <1>3, <2>4 DEF FlipPresence, TypeOK
<1>4. CASE Leave(a)
  BY <1>4, WithoutType DEF Leave, TypeOK
<1> QED BY <1>1, <1>2, <1>3, <1>4

LEMMA TypeDaemon ==
    ASSUME TypeInv, Daemon \/ Discard \/ Crash
    PROVE  TypeOK'
<1>0. NoSnapshot \in Snapshots /\ saved.roster \in Tables(Reports)
      /\ frame.roster \in Tables(Reports) /\ frame.at \in Nat
  BY EmptyType DEF NoSnapshot, Snapshots, TypeOK, TypeInv
<1>1. CASE Start
  <2>1. memory' \in Tables(Reports)
    BY <1>0, <1>1, LoadedType DEF Start, TypeOK, TypeInv
  <2> QED BY <1>0, <1>1, <2>1 DEF Start, TypeOK, TypeInv, Phases
<1>2. CASE Receive
  BY <1>2 DEF Receive, TypeOK, TypeInv, Phases, CurrentSnapshot, Snapshots
<1>3. CASE Decide
  <2>1. alerts' \in SUBSET Agents
    BY <1>3 DEF Decide, Alerts
  <2>2. memory' \in Tables(Reports)
    BY <1>0, <1>3, <2>1, FilterType DEF Decide, TypeOK, TypeInv
  <2> QED BY <1>0, <1>3, <2>1, <2>2 DEF Decide, TypeOK, TypeInv, Phases
<1>4. CASE Merge
  <2>1. pending' \in Tables(Reports)
    BY <1>0, <1>4, MergeType DEF Merge, TypeOK, TypeInv
  <2> QED BY <1>4, <2>1 DEF Merge, TypeOK, TypeInv, Phases
<1>5. CASE Save
  BY <1>5 DEF Save, TypeOK, TypeInv, Phases
<1>6. CASE Notify
  <2>1. \A a \in alerts : frame.roster[a].stamp \in Stamps
    BY <1>0, ReportFields DEF AlertsReported, TypeOK, TypeInv
  <2>2. announced' \in Tables(Stamps)
    BY <1>6, <2>1 DEF Notify, TypeOK, TypeInv, Tables
  <2> QED BY <1>0, <1>6, <2>2 DEF Notify, TypeOK, TypeInv, Phases
<1>7. CASE Discard
  BY <1>0, <1>7 DEF Discard, TypeOK, TypeInv, Phases
<1>8. CASE Crash
  <2>1. Worker \in Clients
    BY DEF Clients
  <2>2. held' \in [Clients -> Claims \cup {Absent}]
    BY <1>8, <2>1 DEF Crash, TypeOK, TypeInv
  <2>3. EmptyTable \in Tables(Reports)
    BY EmptyType
  <2>4. /\ previous' \in Tables(Reports) /\ memory' \in Tables(Reports)
        /\ frame' \in Snapshots
    BY <1>0, <1>8, <2>3 DEF Crash
  <2>6. alerts' \in SUBSET Agents /\ phase' \in Phases /\ initialized' \in BOOLEAN
    BY <1>8 DEF Crash, Phases
  <2>7. faults' \in Nat
    BY <1>8 DEF Crash, TypeOK, TypeInv
  <2>5. /\ UNCHANGED <<clock, roster, acks, pending, saved, announced>>
    BY <1>8 DEF Crash
  <2> QED BY <2>2, <2>4, <2>5, <2>6, <2>7 DEF TypeOK, TypeInv
<1> QED BY <1>1, <1>2, <1>3, <1>4, <1>5, <1>6, <1>7, <1>8 DEF Daemon

LEMMA TypeClient ==
    ASSUME TypeInv, NEW p \in Clients, Client(p)
    PROVE  TypeOK'
<1> USE DEF TypeInv
<1>0. saved.roster \in Tables(Reports) /\ CommandMemory \in Tables(Reports)
  <2>1. saved.roster \in Tables(Reports)
    BY DEF TypeOK, Snapshots
  <2> QED BY <2>1, LoadedType DEF CommandMemory, TypeOK
<1>1. ASSUME NEW a \in Agents, CaptureDismissed(p, a)
      PROVE  TypeOK'
  <2>1. CommandMemory[a] # Absent
    BY <1>1 DEF CaptureDismissed, PendingAgents
  <2>2. CommandMemory[a].stamp \in Stamps
    BY <1>0, <2>1, ReportFields
  <2> QED BY <1>1, <2>2, CaptureType DEF CaptureDismissed
<1>2. ASSUME NEW a \in Agents, CaptureOpened(p, a)
      PROVE  TypeOK'
  <2>1. FetchedMemory[a] # Absent
    BY <1>2 DEF CaptureOpened, PendingAgents
  <2>2. roster[a] # Absent
    BY <2>1 DEF FetchedMemory, FilterMemory, Alerts
  <2>3. roster[a].stamp \in Stamps
    BY <2>2, ReportFields DEF TypeOK
  <2> QED BY <1>2, <2>3, CaptureType DEF CaptureOpened
<1>3. ASSUME NEW a \in Agents, CaptureFocused(a)
      PROVE  TypeOK'
  <2>1. previous[a].stamp \in Stamps
    BY <1>3, ReportFields DEF CaptureFocused, TypeOK
  <2>2. Worker \in Clients
    BY DEF Clients
  <2> QED BY <1>3, <2>1, <2>2, CaptureType DEF CaptureFocused
<1>4. CASE GiveUp(p)
  <2>1. held' \in [Clients -> Claims \cup {Absent}]
    BY <1>4 DEF GiveUp, TypeOK
  <2> QED BY <1>4, <2>1 DEF GiveUp, TypeOK
<1>5. CASE Acknowledge(p)
  <2>1. held[p].agent \in Agents /\ held[p].stamp \in Stamps
    BY <1>5 DEF Acknowledge, TypeOK, Claims
  <2>2. acks' \in Tables(Stamps)
    BY <1>5, <2>1, AckedTableType DEF Acknowledge, TypeOK
  <2>3. pending' \in Tables(Reports)
    BY <1>5, <2>1, WithoutType DEF Acknowledge, TypeOK
  <2>4. held' \in [Clients -> Claims \cup {Absent}]
    BY <1>5 DEF Acknowledge, TypeOK
  <2>5. memory' \in Tables(Reports)
    BY <1>5, <2>3 DEF Acknowledge, TypeOK
  <2>6. UNCHANGED <<clock, roster, saved, phase, frame, alerts, previous,
                    initialized, announced, faults>>
    BY <1>5 DEF Acknowledge
  <2> QED BY <2>2, <2>3, <2>4, <2>5, <2>6 DEF TypeOK
<1> QED BY <1>1, <1>2, <1>3, <1>4, <1>5 DEF Client

LEMMA ReportedStep ==
    ASSUME TypeInv, [Next]_vars
    PROVE  AlertsReported'
<1> USE DEF TypeInv, AlertsReported
<1>1. CASE Hub
  BY <1>1 DEF Hub, Observe, FlipPresence, Leave
<1>2. CASE Start
  BY <1>2 DEF Start
<1>3. CASE Receive
  BY <1>3 DEF Receive
<1>4. CASE Discard
  BY <1>4 DEF Discard
<1>5. CASE Decide
  BY <1>5 DEF Decide, Alerts, IsNewAttention, IsNewIdle, Claiming
<1>6. CASE Merge
  BY <1>6 DEF Merge
<1>7. CASE Save
  BY <1>7 DEF Save
<1>8. CASE Notify
  BY <1>8 DEF Notify
<1>9. CASE Crash
  BY <1>9 DEF Crash
<1>10. CASE \E p \in Clients : Client(p)
  BY <1>10 DEF Client, CaptureDismissed, CaptureOpened, CaptureFocused, Capture,
               GiveUp, Acknowledge
<1>11. CASE UNCHANGED vars
  BY <1>11
<1> QED BY <1>1, <1>2, <1>3, <1>4, <1>5, <1>6, <1>7, <1>8, <1>9, <1>10, <1>11
        DEF Next, Daemon

LEMMA TypeInvStep ==
    ASSUME TypeInv, [Next]_vars
    PROVE  TypeInv'
<1>1. TypeOK'
  <2>1. CASE UNCHANGED vars
    BY <2>1 DEF TypeInv, TypeOK
  <2> QED BY <2>1, TypeHub, TypeDaemon, TypeClient DEF Next, TypeInv
<1> QED BY <1>1, ReportedStep DEF TypeInv

\* In every reachable state every variable has its type: no step leaves a
\* null entry in a file, and the alerts in hand are of reports in hand
\* (AgentdHub, for any agents, clients, clocks and bounds).
THEOREM TypeCorrect == Spec => []TypeOK
<1>1. Init => TypeInv
  BY TypeInit DEF Init, TypeInv, AlertsReported
<1>2. TypeInv /\ [Next]_vars => TypeInv'
  BY TypeInvStep
<1>3. TypeInv => TypeOK
  BY DEF TypeInv
<1> QED BY <1>1, <1>2, <1>3, PTL DEF Spec
-----------------------------------------------------------------------------
(* The remaining theorems suppose that the Hub stamps every report.         *)

LEMMA StampedInts ==
    ASSUME ~MissingStamps
    PROVE  /\ Stamps = Nat \ {0}
           /\ \A s \in Stamps : IsInt(s)
BY NullAssumption DEF Stamps, IsInt

\* An entry of the merged pending map was there before, or is an alert that
\* is not older than what was there.
LEMMA MergeEntry ==
    ASSUME ~MissingStamps,
           NEW disk \in Tables(Reports), NEW r \in Tables(Reports),
           NEW al \in SUBSET Agents, NEW at \in Nat,
           \A b \in al : r[b] # Absent /\ r[b].state \in Claiming,
           NEW a \in Agents
    PROVE  LET m == MergePending(disk, r, al, at)[a]
           IN  \/ m = Absent
               \/ m # Absent /\ m = disk[a]
               \/ /\ m = r[a] /\ a \in al
                  /\ disk[a] # Absent => disk[a].stamp <= r[a].stamp
<1> DEFINE k == IF KeptOnDisk(disk[a], r[a], at) THEN disk[a] ELSE Absent
<1>1. MergePending(disk, r, al, at)[a]
        = IF /\ a \in al
             /\ ~(/\ IsInt(StampOf(k)) /\ IsInt(r[a].stamp) /\ k.stamp > r[a].stamp)
          THEN r[a] ELSE k
  BY DEF MergePending
<1>2. CASE a \in al
  <2>1. k = disk[a]
    BY <1>2 DEF KeptOnDisk
  <2>2. CASE disk[a] = Absent
    BY <1>1, <1>2, <2>1, <2>2
  <2>3. CASE disk[a] # Absent
    <3>1. disk[a].stamp \in Stamps /\ r[a].stamp \in Stamps
      BY <1>2, <2>3, ReportFields
    <3>2. IsInt(StampOf(k)) /\ IsInt(r[a].stamp)
      BY <2>1, <2>3, <3>1, StampedInts DEF StampOf
    <3>3. disk[a].stamp \in Nat /\ r[a].stamp \in Nat
      BY <3>1, StampedInts
    <3> QED BY <1>1, <1>2, <2>1, <2>3, <3>2, <3>3
  <2> QED BY <2>2, <2>3
<1>3. CASE a \notin al
  BY <1>1, <1>3
<1> QED BY <1>2, <1>3

\* A granted acknowledgement is not older than the one on file, nor than the
\* pending claim.
LEMMA GrantedIsNewest ==
    ASSUME ~MissingStamps, TypeOK, NEW a \in Agents, NEW s \in Stamps,
           ~AckRefused(acks, pending, a, s)
    PROVE  /\ acks[a] # Absent => acks[a] <= s
           /\ pending[a] # Absent => pending[a].stamp <= s
<1>1. acks[a] # Absent => acks[a] \in Stamps
  BY EntryType DEF TypeOK
<1>2. pending[a] # Absent => pending[a].stamp \in Stamps
  BY ReportFields DEF TypeOK
<1> QED BY <1>1, <1>2, StampedInts DEF AckRefused, StampOf

\* With stamps everywhere, acknowledged means: by an acknowledgement that is
\* not older.
LEMMA AcknowledgedMeans ==
    ASSUME ~MissingStamps, NEW ac \in Tables(Stamps), NEW a \in Agents, NEW s \in Stamps
    PROVE  IsAcknowledged(ac, a, s) <=> ac[a] # Absent /\ ac[a] >= s
<1>1. ac[a] # Absent => ac[a] \in Stamps
  BY EntryType
<1> QED BY <1>1, StampedInts DEF IsAcknowledged, IsInt
-----------------------------------------------------------------------------
(* The ledger implements ClaimInbox.                                        *)

LEMMA ShownOrNot ==
    ASSUME NEW a \in Agents
    PROVE  ShownStamps[a] = IF pending[a] # Absent /\ ~IsAcknowledged(acks, a, pending[a].stamp)
                            THEN pending[a].stamp ELSE 0
BY DEF ShownStamps, PendingAgents

LEMMA MergeUpdates ==
    ASSUME ~MissingStamps, TypeInv, Merge
    PROVE  Inbox!Update
<1> USE DEF TypeInv
<1>0. /\ frame.roster \in Tables(Reports) /\ frame.at \in Nat
      /\ pending \in Tables(Reports) /\ pending' \in Tables(Reports)
      /\ acks \in Tables(Stamps) /\ alerts \in SUBSET Agents
  BY TypeDaemon DEF TypeOK, Snapshots, Daemon
<1>1. HandledStamps' = HandledStamps
  BY DEF HandledStamps, Merge
<1>2. ASSUME NEW a \in Agents
      PROVE  /\ ShownStamps'[a] \in Nat
             /\ ShownStamps'[a] # 0 => /\ ShownStamps'[a] >= ShownStamps[a]
                                       /\ ShownStamps'[a] > HandledStamps[a]
  <2>1. ShownStamps'[a] = IF pending'[a] # Absent /\ ~IsAcknowledged(acks, a, pending'[a].stamp)
                          THEN pending'[a].stamp ELSE 0
    BY DEF ShownStamps, PendingAgents, Merge
  <2>2. CASE ShownStamps'[a] = 0
    BY <2>2
  <2>3. CASE ShownStamps'[a] # 0
    <3>1. /\ pending'[a] # Absent /\ ~IsAcknowledged(acks, a, pending'[a].stamp)
          /\ ShownStamps'[a] = pending'[a].stamp
      BY <2>1, <2>3
    <3>2. pending'[a].stamp \in Stamps
      BY <1>0, <3>1, ReportFields
    <3>3. pending'[a].stamp \in Nat /\ pending'[a].stamp > 0
      BY <3>2, StampedInts
    <3>4. acks[a] # Absent => acks[a] \in Nat /\ pending'[a].stamp > acks[a]
      BY <1>0, <3>1, <3>2, <3>3, AcknowledgedMeans, EntryType, StampedInts
    <3>5. pending'[a].stamp > HandledStamps[a]
      BY <3>3, <3>4 DEF HandledStamps, IsInt
    <3>6. pending[a] # Absent => pending[a].stamp \in Nat
      BY <1>0, ReportFields, StampedInts
    <3>7. \/ pending'[a] = pending[a]
          \/ pending[a] # Absent => pending[a].stamp <= pending'[a].stamp
      BY <1>0, <3>1, MergeEntry DEF Merge, AlertsReported
    <3>8. pending'[a].stamp >= ShownStamps[a]
      BY <3>1, <3>3, <3>6, <3>7, ShownOrNot
    <3> QED BY <3>1, <3>3, <3>5, <3>8
  <2> QED BY <2>2, <2>3
<1>3. ShownStamps' \in [Agents -> Nat]
  BY <1>2 DEF ShownStamps
<1> QED BY <1>1, <1>2, <1>3 DEF Inbox!Update

LEMMA AcknowledgeHandles ==
    ASSUME ~MissingStamps, TypeInv, NEW p \in Clients, Acknowledge(p)
    PROVE  \/ UNCHANGED <<ShownStamps, HandledStamps>>
           \/ \E a \in Agents : Inbox!Handle(a)
<1> USE DEF TypeInv
<1> DEFINE a == held[p].agent
           s == held[p].stamp
<1>0. /\ a \in Agents /\ s \in Stamps
      /\ acks \in Tables(Stamps) /\ pending \in Tables(Reports)
  BY DEF Acknowledge, TypeOK, Claims
<1>1. CASE AckRefused(acks, pending, a, s)
  BY <1>1 DEF Acknowledge, ShownStamps, HandledStamps, PendingAgents
<1>2. CASE ~AckRefused(acks, pending, a, s)
  <2>1. acks' = [acks EXCEPT ![a] = s] /\ pending' = [pending EXCEPT ![a] = Absent]
    BY <1>2 DEF Acknowledge, AckedTable, Without
  <2>2. /\ acks[a] # Absent => acks[a] <= s
        /\ pending[a] # Absent => pending[a].stamp <= s
    BY <1>0, <1>2, GrantedIsNewest
  <2>3. /\ s \in Nat /\ s > 0 /\ IsInt(s)
        /\ acks[a] # Absent => acks[a] \in Nat /\ IsInt(acks[a])
        /\ pending[a] # Absent => pending[a].stamp \in Nat
    BY <1>0, StampedInts, EntryType, ReportFields
  <2>4. ShownStamps' = [ShownStamps EXCEPT ![a] = 0]
    <3>1. ASSUME NEW b \in Agents
          PROVE  ShownStamps'[b] = [ShownStamps EXCEPT ![a] = 0][b]
      <4>1. CASE b = a
        BY <1>0, <2>1, <4>1 DEF ShownStamps, PendingAgents, Tables
      <4>2. CASE b # a
        BY <1>0, <2>1, <4>2 DEF ShownStamps, PendingAgents, Tables, IsAcknowledged
      <4> QED BY <4>1, <4>2
    <3> QED BY <3>1 DEF ShownStamps
  <2>5. HandledStamps' = [HandledStamps EXCEPT ![a] = s]
    <3>1. ASSUME NEW b \in Agents
          PROVE  HandledStamps'[b] = [HandledStamps EXCEPT ![a] = s][b]
      BY <1>0, <2>1, <2>3 DEF HandledStamps, Tables
    <3> QED BY <3>1 DEF HandledStamps
  <2>6. HandledStamps[a] = IF acks[a] = Absent THEN 0 ELSE acks[a]
    BY <1>0, <2>3 DEF HandledStamps, IsInt
  <2>7. CASE acks[a] = s
    <3>1. ShownStamps[a] = 0
      <4>1. CASE pending[a] = Absent
        BY <1>0, <4>1, ShownOrNot
      <4>2. CASE pending[a] # Absent
        <5>1. pending[a].stamp \in Stamps
          BY <1>0, <4>2, ReportFields
        <5>2. acks[a] # Absent /\ acks[a] >= pending[a].stamp
          BY <1>0, <2>2, <2>7, <4>2, NullAssumption, StampedInts
        <5>3. IsAcknowledged(acks, a, pending[a].stamp)
          BY <1>0, <5>1, <5>2, AcknowledgedMeans
        <5> QED BY <1>0, <5>3, ShownOrNot
      <4> QED BY <4>1, <4>2
    <3> QED BY <1>0, <2>3, <2>4, <2>5, <2>6, <2>7, <3>1 DEF ShownStamps, HandledStamps
  <2>8. CASE acks[a] # s
    <3>1. s > HandledStamps[a]
      BY <2>2, <2>3, <2>6, <2>8
    <3>2. s >= ShownStamps[a]
      BY <1>0, <2>2, <2>3, ShownOrNot
    <3>3. HandledStamps'[a] = s
      BY <1>0, <2>5 DEF HandledStamps
    <3>4. Inbox!Handle(a)
      BY <2>3, <2>4, <2>5, <3>1, <3>2, <3>3 DEF Inbox!Handle
    <3> QED BY <1>0, <3>4
  <2> QED BY <2>7, <2>8
<1> QED BY <1>1, <1>2

LEMMA StepRefines ==
    ASSUME ~MissingStamps, TypeInv, [Next]_vars
    PROVE  [Inbox!Next]_<<ShownStamps, HandledStamps>>
<1>1. CASE UNCHANGED <<acks, pending>>
  BY <1>1 DEF ShownStamps, HandledStamps, PendingAgents
<1>2. CASE Merge
  BY <1>2, MergeUpdates DEF Inbox!Next
<1>3. ASSUME NEW p \in Clients, Acknowledge(p)
      PROVE  [Inbox!Next]_<<ShownStamps, HandledStamps>>
  BY <1>3, AcknowledgeHandles DEF Inbox!Next
<1>4. \/ UNCHANGED <<acks, pending>>
      \/ Merge
      \/ \E p \in Clients : Acknowledge(p)
  BY DEF Next, Hub, Daemon, Client, Observe, FlipPresence, Leave, Start, Receive,
         Decide, Save, Notify, Discard, Crash, CaptureDismissed, CaptureOpened,
         CaptureFocused, Capture, GiveUp
<1> QED BY <1>1, <1>2, <1>3, <1>4

\* The ledger implements ClaimInbox, whatever the agents, clients, clocks and
\* bounds, when the Hub stamps every report: acknowledgements never regress,
\* never hide a newer claim, and nothing dealt with is shown again
\* (AgentdHub.acknowledge, _accept_with_notify).
THEOREM LedgerImplementsInbox ==
    ASSUME ~MissingStamps
    PROVE  Spec => ImplementsInbox
<1>1. Init => Inbox!Init
  BY DEF Init, Inbox!Init, ShownStamps, HandledStamps, PendingAgents, EmptyTable, IsInt
<1>2. Init => TypeInv
  BY TypeInit DEF Init, TypeInv, AlertsReported
<1>3. TypeInv /\ [Next]_vars => TypeInv'
  BY TypeInvStep
<1>4. TypeInv /\ [Next]_vars => [Inbox!Next]_<<ShownStamps, HandledStamps>>
  BY StepRefines
<1> QED BY <1>1, <1>2, <1>3, <1>4, PTL DEF Spec, ImplementsInbox, Inbox!Spec
-----------------------------------------------------------------------------
(* No standing claim is lost.                                               *)

\* The reports of table t are reports of the past of a Hub with clock c and
\* roster r: none is later than what the Hub has, and one with the stamp the
\* Hub has is the report it has.
Past(t, c, r) ==
    \A a \in Agents :
        t[a] # Absent =>
            /\ t[a].stamp <= c + Ahead[a]
            /\ r[a] # Absent =>
                  /\ t[a].stamp <= r[a].stamp
                  /\ t[a].stamp = r[a].stamp => t[a].state = r[a].state

Chronology ==
    /\ Past(roster, clock, roster)
    /\ Past(saved.roster, clock, roster)
    /\ Past(frame.roster, clock, roster)
    /\ Past(previous, clock, roster)
    /\ Past(pending, clock, roster)
    /\ Past(memory, clock, roster)

\* A report of t that stands in roster r is also in the frame f, taken later.
StandsIn(t, f, r) ==
    \A a \in Agents :
        (t[a] # Absent /\ r[a] # Absent /\ t[a].stamp = r[a].stamp)
            => f[a] # Absent /\ f[a].stamp = r[a].stamp

InFrame ==
    /\ phase \in {"received", "merging", "saving", "notifying"} =>
          /\ StandsIn(saved.roster, frame.roster, roster)
          /\ StandsIn(previous, frame.roster, roster)
    /\ phase \in {"merging", "saving"} => previous = frame.roster

\* What the pending map in memory holds and still stands is covered, and
\* between the decision and the merge the alerts are what is still missing.
MemoryCovered ==
    phase # "merging" =>
        \A a \in Agents :
            (/\ memory[a] # Absent
             /\ roster[a] # Absent
             /\ roster[a].state = "needs_attention"
             /\ roster[a].stamp = memory[a].stamp)
                => Covered(a, memory[a].stamp)

AlertsComplete ==
    phase = "merging" =>
        \A a \in Agents :
            (/\ previous[a] # Absent
             /\ previous[a].state = "needs_attention"
             /\ roster[a] # Absent
             /\ roster[a].stamp = previous[a].stamp)
                => Covered(a, previous[a].stamp) \/ a \in alerts

Coverage == MemoryCovered /\ AlertsComplete /\ NoLostClaim

LedgerInv == TypeInv /\ Chronology /\ InFrame /\ Coverage

LEMMA PastEmpty == ASSUME NEW c, NEW r PROVE Past(EmptyTable, c, r)
BY DEF Past, EmptyTable

\* A table made of entries of past tables is past.
LEMMA PastMix ==
    ASSUME NEW t, NEW u, NEW m, NEW c, NEW r, Past(t, c, r), Past(u, c, r),
           \A a \in Agents : m[a] = Absent \/ m[a] = t[a] \/ m[a] = u[a]
    PROVE  Past(m, c, r)
BY DEF Past

\* A step of the Hub leaves past tables past, and what stood in a frame and
\* still stands, standing in it.
LEMMA PastHub ==
    ASSUME ~MissingStamps, TypeOK, Hub, NEW t \in Tables(Reports),
           Past(t, clock, roster)
    PROVE  Past(t, clock', roster')
<1> USE LedgerAssumption
<1>0. \A a \in Agents : t[a] # Absent => t[a].stamp \in Nat
  BY ReportFields, StampedInts
<1>1. PICK a \in Agents :
        \/ \E state \in Activities, missing \in BOOLEAN : Observe(a, state, missing)
        \/ FlipPresence(a)
        \/ Leave(a)
  BY DEF Hub
<1>2. CASE \E state \in Activities, missing \in BOOLEAN : Observe(a, state, missing)
  <2>1. PICK state \in Activities, missing \in BOOLEAN : Observe(a, state, missing)
    BY <1>2
  <2>2. clock' = clock + 1 /\ clock \in Nat
    BY <2>1 DEF Observe, TypeOK
  <2>3. /\ roster'[a] # Absent /\ roster'[a].stamp = clock + 1 + Ahead[a]
        /\ \A b \in Agents \ {a} : roster'[b] = roster[b]
    <3>1. ~missing
      BY <2>1 DEF Observe
    <3>2. roster' = [roster EXCEPT ![a] =
                        [state |-> state, present |-> TRUE, stamp |-> clock + 1 + Ahead[a]]]
      BY <2>1, <3>1 DEF Observe
    <3>3. [state |-> state, present |-> TRUE, stamp |-> clock + 1 + Ahead[a]] \in Reports
      BY <2>2, StampedInts DEF Reports
    <3> QED BY <3>2, <3>3, NullAssumption DEF TypeOK, Tables
  <2> QED BY <1>0, <2>2, <2>3 DEF Past
<1>3. CASE FlipPresence(a)
  <2>1. roster[a] \in Reports
    BY <1>3, EntryType DEF FlipPresence, TypeOK
  <2>2. /\ roster'[a].stamp = roster[a].stamp /\ roster'[a].state = roster[a].state
        /\ \A b \in Agents \ {a} : roster'[b] = roster[b]
    BY <1>3, <2>1 DEF FlipPresence, TypeOK, Tables, Reports
  <2> QED BY <1>3, <2>2 DEF Past, FlipPresence
<1>4. CASE Leave(a)
  BY <1>4 DEF Past, Leave, Without, TypeOK, Tables
<1> QED BY <1>1, <1>2, <1>3, <1>4

\* A report that stands after a step of the Hub stood before it, as the same
\* kind of request.
LEMMA StandsBefore ==
    ASSUME ~MissingStamps, TypeOK, Hub, NEW t \in Tables(Reports),
           Past(t, clock, roster), NEW a \in Agents,
           t[a] # Absent, roster'[a] # Absent, t[a].stamp = roster'[a].stamp
    PROVE  /\ roster[a] # Absent
           /\ roster[a].stamp = roster'[a].stamp
           /\ roster[a].state = roster'[a].state
<1> USE LedgerAssumption
<1>0. t[a].stamp \in Nat
  BY ReportFields, StampedInts
<1>1. PICK b \in Agents :
        \/ \E state \in Activities, missing \in BOOLEAN : Observe(b, state, missing)
        \/ FlipPresence(b)
        \/ Leave(b)
  BY DEF Hub
<1>2. CASE b # a
  BY <1>1, <1>2 DEF Observe, FlipPresence, Leave, Without, TypeOK, Tables
<1>3. CASE b = a
  <2>1. CASE \E state \in Activities, missing \in BOOLEAN : Observe(b, state, missing)
    <3>1. PICK state \in Activities, missing \in BOOLEAN : Observe(b, state, missing)
      BY <2>1
    <3>2. roster'[a].stamp = clock + 1 + Ahead[a]
      BY <1>3, <3>1 DEF Observe, TypeOK, Tables
    <3>3. t[a].stamp <= clock + Ahead[a]
      BY DEF Past
    <3> QED BY <1>0, <3>2, <3>3 DEF TypeOK
  <2>2. CASE FlipPresence(b)
    <3>1. roster[a] \in Reports
      BY <1>3, <2>2, EntryType DEF FlipPresence, TypeOK
    <3> QED BY <1>3, <2>2, <3>1 DEF FlipPresence, TypeOK, Tables, Reports
  <2>3. CASE Leave(b)
    BY <1>3, <2>3 DEF Leave, Without, TypeOK, Tables
  <2> QED BY <1>1, <2>1, <2>2, <2>3
<1> QED BY <1>2, <1>3

LEMMA TablesTyped ==
    ASSUME TypeOK
    PROVE  /\ roster \in Tables(Reports) /\ saved.roster \in Tables(Reports)
           /\ frame.roster \in Tables(Reports) /\ previous \in Tables(Reports)
           /\ pending \in Tables(Reports) /\ memory \in Tables(Reports)
BY DEF TypeOK, Snapshots

LEMMA ChronologyStep ==
    ASSUME ~MissingStamps, TypeInv, Chronology, [Next]_vars
    PROVE  Chronology'
<1> USE DEF TypeInv
<1>0. Past(EmptyTable, clock, roster) /\ NoSnapshot.roster = EmptyTable
  BY PastEmpty DEF NoSnapshot
<1>1. CASE Hub
  <2>1. UNCHANGED <<saved, frame, previous, pending, memory>>
    BY <1>1 DEF Hub, Observe, FlipPresence, Leave
  <2>2. /\ Past(saved.roster, clock', roster') /\ Past(frame.roster, clock', roster')
        /\ Past(previous, clock', roster') /\ Past(pending, clock', roster')
        /\ Past(memory, clock', roster')
    BY <1>1, TablesTyped, PastHub DEF Chronology
  <2>3. Past(roster', clock', roster')
    <3>1. ASSUME NEW a \in Agents, roster'[a] # Absent
          PROVE  roster'[a].stamp <= clock' + Ahead[a] /\ roster'[a].stamp \in Nat
      <4>1. roster'[a].stamp \in Nat
        BY <1>1, <3>1, TypeHub, TablesTyped, ReportFields, StampedInts DEF TypeOK
      <4>2. CASE roster[a] # Absent /\ roster'[a].stamp = roster[a].stamp
        <5>1. Past(roster, clock', roster')
          BY <1>1, TablesTyped, PastHub DEF Chronology
        <5> QED BY <4>1, <4>2, <5>1 DEF Past
      <4>3. CASE ~(roster[a] # Absent /\ roster'[a].stamp = roster[a].stamp)
        <5>1. PICK b \in Agents :
                \/ \E state \in Activities, missing \in BOOLEAN : Observe(b, state, missing)
                \/ FlipPresence(b)
                \/ Leave(b)
          BY <1>1 DEF Hub
        <5>2. CASE FlipPresence(b) \/ Leave(b)
          <6>1. roster[a] # Absent => roster[a] \in Reports
            BY EntryType DEF TypeOK
          <6> QED BY <3>1, <4>3, <5>2, <6>1
                DEF FlipPresence, Leave, Without, TypeOK, Tables, Reports
        <5>3. CASE \E state \in Activities, missing \in BOOLEAN : Observe(b, state, missing)
          <6>1. PICK state \in Activities, missing \in BOOLEAN : Observe(b, state, missing)
            BY <5>3
          <6>2. b = a
            BY <3>1, <4>3, <6>1 DEF Observe, TypeOK, Tables
          <6>3. roster'[a].stamp = clock + 1 + Ahead[a] /\ clock' = clock + 1
            BY <6>1, <6>2 DEF Observe, TypeOK, Tables
          <6> QED BY <4>1, <6>3, LedgerAssumption DEF TypeOK
        <5> QED BY <5>1, <5>2, <5>3
      <4> QED BY <4>2, <4>3
    <3> QED BY <3>1 DEF Past
  <2> QED BY <2>1, <2>2, <2>3 DEF Chronology
<1>2. CASE Start
  <2>1. \A a \in Agents : memory'[a] = saved.roster[a] \/ memory'[a] = pending[a]
    BY <1>2 DEF Start, LoadedMemory
  <2>2. Past(memory', clock, roster)
    BY <2>1, PastMix DEF Chronology
  <2> QED BY <1>2, <2>2 DEF Start, Chronology
<1>3. CASE Receive
  BY <1>3 DEF Receive, Chronology, CurrentSnapshot
<1>4. CASE Discard \/ Notify
  BY <1>0, <1>4 DEF Discard, Notify, Chronology
<1>5. CASE Decide
  <2>1. \A a \in Agents : \/ memory'[a] = Absent
                          \/ memory'[a] = memory[a]
                          \/ memory'[a] = frame.roster[a]
    BY <1>5 DEF Decide, FilterMemory
  <2>2. Past(memory', clock, roster)
    BY <2>1, PastMix DEF Chronology
  <2> QED BY <1>5, <2>2 DEF Decide, Chronology
<1>6. CASE Merge
  <2>1. \A a \in Agents : \/ pending'[a] = Absent
                          \/ pending'[a] = pending[a]
                          \/ pending'[a] = frame.roster[a]
    BY <1>6 DEF Merge, MergePending
  <2>2. Past(pending', clock, roster)
    BY <2>1, PastMix DEF Chronology
  <2> QED BY <1>6, <2>2 DEF Merge, Chronology
<1>7. CASE Save
  BY <1>7 DEF Save, Chronology
<1>8. CASE Crash
  BY <1>0, <1>8 DEF Crash, Chronology
<1>9. CASE \E p \in Clients : Client(p)
  <2>1. PICK p \in Clients : Client(p)
    BY <1>9
  <2>2. CASE Acknowledge(p)
    <3>1. \A a \in Agents : pending'[a] = Absent \/ pending'[a] = pending[a]
      BY <2>2 DEF Acknowledge, Without, TypeOK, Tables
    <3>2. Past(pending', clock, roster)
      BY <3>1, PastMix DEF Chronology
    <3>3. memory' = memory \/ memory' = pending'
      BY <2>2 DEF Acknowledge
    <3> QED BY <2>2, <3>2, <3>3 DEF Acknowledge, Chronology
  <2>3. CASE ~Acknowledge(p)
    <3>1. UNCHANGED <<clock, roster, saved, frame, previous, pending, memory>>
      BY <2>1, <2>3 DEF Client, CaptureDismissed, CaptureOpened, CaptureFocused,
                        Capture, GiveUp
    <3> QED BY <3>1 DEF Chronology
  <2> QED BY <2>2, <2>3
<1>10. CASE UNCHANGED vars
  BY <1>10 DEF Chronology
<1> QED BY <1>1, <1>2, <1>3, <1>4, <1>5, <1>6, <1>7, <1>8, <1>9, <1>10
        DEF Next, Daemon

LEMMA InFrameStep ==
    ASSUME ~MissingStamps, TypeInv, Chronology, InFrame, [Next]_vars
    PROVE  InFrame'
<1> USE DEF TypeInv
<1>1. CASE Hub
  <2>1. UNCHANGED <<saved, frame, previous, phase>>
    BY <1>1 DEF Hub, Observe, FlipPresence, Leave
  <2>2. ASSUME NEW t \in Tables(Reports), Past(t, clock, roster),
               StandsIn(t, frame.roster, roster)
        PROVE  StandsIn(t, frame.roster, roster')
    BY <1>1, <2>2, StandsBefore DEF StandsIn
  <2> QED BY <2>1, <2>2, TablesTyped DEF InFrame, Chronology
<1>2. CASE Start
  BY <1>2 DEF Start, InFrame
<1>3. CASE Receive
  BY <1>3 DEF Receive, InFrame, CurrentSnapshot, StandsIn
<1>4. CASE Discard \/ Notify \/ Crash
  BY <1>4 DEF Discard, Notify, Crash, InFrame
<1>5. CASE Decide
  BY <1>5 DEF Decide, InFrame, StandsIn
<1>6. CASE Merge
  BY <1>6 DEF Merge, InFrame
<1>7. CASE Save
  BY <1>7 DEF Save, InFrame, StandsIn
<1>8. CASE \E p \in Clients : Client(p)
  BY <1>8 DEF Client, CaptureDismissed, CaptureOpened, CaptureFocused, Capture,
              GiveUp, Acknowledge, InFrame
<1>9. CASE UNCHANGED vars
  BY <1>9 DEF InFrame
<1> QED BY <1>1, <1>2, <1>3, <1>4, <1>5, <1>6, <1>7, <1>8, <1>9 DEF Next, Daemon

\* A claim that is covered stays covered when some claim is acknowledged.
LEMMA CoveredKeptByAck ==
    ASSUME ~MissingStamps, TypeInv, NEW p \in Clients, Acknowledge(p),
           NEW a \in Agents, NEW s \in Stamps, Covered(a, s)
    PROVE  Covered(a, s)'
<1> USE DEF TypeInv
<1> DEFINE b == held[p].agent
           u == held[p].stamp
<1>0. /\ b \in Agents /\ u \in Stamps
      /\ acks \in Tables(Stamps) /\ acks' \in Tables(Stamps)
      /\ pending \in Tables(Reports)
  BY TypeInvStep DEF Acknowledge, TypeOK, Claims, Next, Client
<1>1. CASE AckRefused(acks, pending, b, u)
  BY <1>1 DEF Acknowledge, Covered
<1>2. CASE ~AckRefused(acks, pending, b, u) /\ b = a
  <2>1. acks'[a] = u
    BY <1>0, <1>2 DEF Acknowledge, AckedTable, Tables
  <2>2. /\ acks[a] # Absent => acks[a] <= u
        /\ pending[a] # Absent => pending[a].stamp <= u
    BY <1>0, <1>2, GrantedIsNewest
  <2>3. u \in Nat /\ s \in Nat /\ u # Absent
    BY <1>0, StampedInts, NullAssumption
  <2>4. s <= u
    <3>1. CASE IsAcknowledged(acks, a, s)
      <4>1. acks[a] # Absent /\ acks[a] >= s /\ acks[a] \in Nat
        BY <1>0, <3>1, AcknowledgedMeans, EntryType, StampedInts
      <4> QED BY <2>2, <2>3, <4>1
    <3>2. CASE pending[a] # Absent /\ pending[a].stamp = s
      BY <2>2, <3>2
    <3> QED BY <3>1, <3>2 DEF Covered
  <2>5. IsAcknowledged(acks', a, s)
    BY <1>0, <2>1, <2>3, <2>4, AcknowledgedMeans
  <2> QED BY <2>5 DEF Covered
<1>3. CASE ~AckRefused(acks, pending, b, u) /\ b # a
  <2>1. acks'[a] = acks[a] /\ pending'[a] = pending[a]
    BY <1>0, <1>3 DEF Acknowledge, AckedTable, Without, Tables
  <2> QED BY <2>1 DEF Covered, IsAcknowledged
<1> QED BY <1>1, <1>2, <1>3

\* A standing request that is covered, or that raised an alert, is covered
\* after the merge.
LEMMA CoveredByMerge ==
    ASSUME ~MissingStamps, TypeInv, Chronology, Merge, NEW a \in Agents,
           frame.roster[a] # Absent, roster[a] # Absent,
           frame.roster[a].stamp = roster[a].stamp,
           roster[a].state = "needs_attention",
           Covered(a, roster[a].stamp) \/ a \in alerts
    PROVE  Covered(a, roster[a].stamp)'
<1> USE DEF TypeInv
<1> DEFINE m == MergePending(pending, frame.roster, alerts, frame.at)
           s == roster[a].stamp
<1>0. /\ frame.roster \in Tables(Reports) /\ frame.at \in Nat
      /\ roster \in Tables(Reports) /\ pending \in Tables(Reports)
      /\ alerts \in SUBSET Agents /\ s \in Nat
  BY TablesTyped, ReportFields, StampedInts DEF TypeOK, Snapshots
<1>1. UNCHANGED <<acks, roster>> /\ pending' = m
  BY DEF Merge
<1>2. CASE IsAcknowledged(acks, a, s)
  BY <1>1, <1>2 DEF Covered
<1>3. frame.roster[a].state = "needs_attention"
  BY DEF Chronology, Past
<1>4. KeptOnDisk(pending[a], frame.roster[a], frame.at)
  BY <1>3 DEF KeptOnDisk, Claiming
<1>5. CASE a \in alerts
  <2>1. pending[a] # Absent => pending[a].stamp <= s /\ pending[a].stamp \in Nat
    BY <1>0, ReportFields, StampedInts DEF Chronology, Past
  <2>2. m[a] = frame.roster[a]
    BY <1>0, <1>4, <1>5, <2>1 DEF MergePending, IsInt, StampOf
  <2> QED BY <1>1, <2>2 DEF Covered
<1>6. CASE a \notin alerts /\ pending[a] # Absent /\ pending[a].stamp = s
  <2>1. m[a] = pending[a]
    BY <1>4, <1>6 DEF MergePending
  <2> QED BY <1>1, <1>6, <2>1 DEF Covered
<1> QED BY <1>2, <1>5, <1>6 DEF Covered

\* Every standing request of the roster is covered after the decision, or
\* among the alerts.
LEMMA DecisionComplete ==
    ASSUME ~MissingStamps, TypeInv, Chronology, InFrame, Coverage, Decide,
           NEW a \in Agents,
           frame.roster[a] # Absent, frame.roster[a].state = "needs_attention",
           roster[a] # Absent, roster[a].stamp = frame.roster[a].stamp
    PROVE  Covered(a, roster[a].stamp) \/ a \in alerts'
<1> USE DEF TypeInv
<1> DEFINE s == roster[a].stamp
<1>0. s \in Nat /\ s \in Stamps /\ s # None
  BY TablesTyped, ReportFields, StampedInts, NullAssumption
<1>1. alerts' = Alerts(previous, initialized, memory, acks, frame.roster)
      /\ phase = "received"
  BY DEF Decide
<1>2. roster[a].state = "needs_attention"
  BY DEF Chronology, Past
<1>3. CASE IsNewAttention(previous[a], frame.roster[a])
  <2>1. CASE SamePendingClaim(memory[a], frame.roster[a])
    BY <1>1, <1>2, <2>1 DEF SamePendingClaim, Coverage, MemoryCovered
  <2>2. CASE IsAcknowledged(acks, a, s)
    BY <2>2 DEF Covered
  <2>3. CASE /\ ~SamePendingClaim(memory[a], frame.roster[a])
             /\ ~IsAcknowledged(acks, a, s)
    BY <1>1, <1>3, <2>3 DEF Alerts
  <2> QED BY <2>1, <2>2, <2>3
<1>4. CASE ~IsNewAttention(previous[a], frame.roster[a])
  <2>1. /\ previous[a] # Absent /\ previous[a].state = "needs_attention"
        /\ ~(s > RankOf(previous[a].stamp))
    BY <1>0, <1>4 DEF IsNewAttention
  <2>2. previous[a].stamp \in Nat /\ RankOf(previous[a].stamp) = previous[a].stamp
    BY <2>1, TablesTyped, ReportFields, StampedInts DEF RankOf
  <2>3. previous[a].stamp <= s
    BY <2>1 DEF Chronology, Past
  <2>4. previous[a].stamp = s
    BY <1>0, <2>1, <2>2, <2>3
  <2> QED BY <1>1, <2>1, <2>4 DEF Coverage, NoLostClaim, StandingCovered
<1> QED BY <1>3, <1>4

LEMMA CoverageStep ==
    ASSUME ~MissingStamps, TypeInv, Chronology, InFrame, Coverage, [Next]_vars
    PROVE  Coverage'
<1> USE DEF TypeInv
<1> USE DEF Coverage, MemoryCovered, AlertsComplete, NoLostClaim, StandingCovered
<1>1. CASE Hub
  <2>1. UNCHANGED <<saved, previous, memory, pending, acks, phase, alerts>>
    BY <1>1 DEF Hub, Observe, FlipPresence, Leave
  <2>2. \A a \in Agents, s \in Stamps : Covered(a, s)' <=> Covered(a, s)
    BY <2>1 DEF Covered
  <2>3. ASSUME NEW t \in Tables(Reports), Past(t, clock, roster), NEW a \in Agents,
               t[a] # Absent, roster'[a] # Absent, t[a].stamp = roster'[a].stamp
        PROVE  /\ roster[a] # Absent
               /\ roster[a].stamp = roster'[a].stamp
               /\ roster[a].state = roster'[a].state
               /\ t[a].stamp \in Stamps
    BY <1>1, <2>3, StandsBefore, ReportFields
  <2>4. MemoryCovered'
    BY <2>1, <2>2, <2>3, TablesTyped DEF Chronology
  <2>5. AlertsComplete'
    BY <2>1, <2>2, <2>3, TablesTyped DEF Chronology
  <2>6. NoLostClaim'
    BY <2>1, <2>2, <2>3, TablesTyped DEF Chronology
  <2> QED BY <2>4, <2>5, <2>6
<1>2. CASE Start
  <2>1. UNCHANGED <<roster, saved, pending, acks>> /\ phase' = "waiting"
        /\ previous' = saved.roster
        /\ memory' = LoadedMemory(pending, saved.roster, acks)
    BY <1>2 DEF Start
  <2>2. MemoryCovered'
    BY <2>1 DEF LoadedMemory, Covered
  <2> QED BY <2>1, <2>2 DEF Covered
<1>3. CASE Receive \/ Discard \/ Notify
  BY <1>3 DEF Receive, Discard, Notify, Covered
<1>4. CASE Decide
  <2>1. UNCHANGED <<roster, saved, pending, acks>> /\ phase' = "merging"
        /\ previous' = frame.roster
    BY <1>4 DEF Decide
  <2>2. AlertsComplete'
    BY <1>4, <2>1, DecisionComplete DEF Covered
  <2> QED BY <2>1, <2>2 DEF Covered
<1>5. CASE Merge
  <2>1. UNCHANGED <<roster, saved, acks, previous>> /\ phase' = "saving"
        /\ phase = "merging" /\ memory' = pending' /\ previous = frame.roster
    BY <1>5 DEF Merge, InFrame
  <2>2. MemoryCovered'
    BY <2>1 DEF Covered
  <2>3. StandingCovered(previous)'
    <3>1. ASSUME NEW a \in Agents, previous[a] # Absent,
                 previous[a].state = "needs_attention",
                 roster[a] # Absent, roster[a].stamp = previous[a].stamp
          PROVE  Covered(a, roster[a].stamp)'
      <4>1. roster[a].state = "needs_attention"
        BY <2>1, <3>1 DEF Chronology, Past
      <4> QED BY <1>5, <2>1, <3>1, <4>1, CoveredByMerge
    <3> QED BY <2>1, <3>1
  <2>4. StandingCovered(saved.roster)'
    <3>1. ASSUME NEW a \in Agents, saved.roster[a] # Absent,
                 saved.roster[a].state = "needs_attention",
                 roster[a] # Absent, roster[a].stamp = saved.roster[a].stamp
          PROVE  Covered(a, roster[a].stamp)'
      <4>1. roster[a].state = "needs_attention"
        BY <3>1 DEF Chronology, Past
      <4>2. frame.roster[a] # Absent /\ frame.roster[a].stamp = roster[a].stamp
        BY <2>1, <3>1 DEF InFrame, StandsIn
      <4> QED BY <1>5, <3>1, <4>1, <4>2, CoveredByMerge
    <3> QED BY <2>1, <3>1
  <2> QED BY <2>1, <2>2, <2>3, <2>4
<1>6. CASE Save
  BY <1>6 DEF Save, InFrame, Covered
<1>7. CASE Crash
  <2>1. UNCHANGED <<roster, saved, pending, acks>> /\ phase' = "down"
        /\ \A a \in Agents : previous'[a] = Absent /\ memory'[a] = Absent
    BY <1>7 DEF Crash, EmptyTable
  <2> QED BY <2>1 DEF Covered
<1>8. CASE \E p \in Clients : Client(p)
  <2>1. PICK p \in Clients : Client(p)
    BY <1>8
  <2>2. CASE Acknowledge(p)
    <3>1. UNCHANGED <<roster, saved, previous, phase, alerts>>
          /\ (p # Worker => memory' = memory) /\ (p = Worker => memory' = pending')
      BY <2>2 DEF Acknowledge
    <3>2. \A a \in Agents, s \in Stamps : Covered(a, s) => Covered(a, s)'
      BY <2>2, CoveredKeptByAck
    <3>3. ASSUME NEW t \in Tables(Reports), NEW a \in Agents, t[a] # Absent
          PROVE  t[a].stamp \in Stamps
      BY <3>3, ReportFields
    <3>4. StandingCovered(saved.roster)' /\ (phase # "merging" => StandingCovered(previous)')
      BY <3>1, <3>2, <3>3, TablesTyped
    <3>5. AlertsComplete'
      BY <3>1, <3>2, <3>3, TablesTyped
    <3>6. MemoryCovered'
      <4>1. CASE p = Worker
        BY <3>1, <4>1 DEF Covered
      <4>2. CASE p # Worker
        BY <3>1, <3>2, <3>3, <4>2, TablesTyped
      <4> QED BY <4>1, <4>2
    <3> QED BY <3>1, <3>4, <3>5, <3>6
  <2>3. CASE ~Acknowledge(p)
    <3>1. UNCHANGED <<roster, saved, previous, phase, alerts, memory, pending, acks>>
      BY <2>1, <2>3 DEF Client, CaptureDismissed, CaptureOpened, CaptureFocused,
                        Capture, GiveUp
    <3> QED BY <3>1 DEF Covered
  <2> QED BY <2>2, <2>3
<1>9. CASE UNCHANGED vars
  BY <1>9 DEF Covered
<1> QED BY <1>1, <1>2, <1>3, <1>4, <1>5, <1>6, <1>7, <1>8, <1>9 DEF Next, Daemon

\* A standing request for attention that the daemon accepted is pending or
\* acknowledged in every reachable state, whatever the crashes, restarts and
\* concurrent acknowledgements, for any agents, clients, clocks and bounds,
\* when the Hub stamps every report (_accept_with_notify, acknowledge,
\* __init__).
THEOREM NothingLost ==
    ASSUME ~MissingStamps
    PROVE  Spec => []NoLostClaim
<1>1. Init => LedgerInv
  <2> SUFFICES ASSUME Init PROVE LedgerInv
    OBVIOUS
  <2>1. TypeInv
    BY TypeInit DEF Init, TypeInv, AlertsReported
  <2>2. Chronology
    BY PastEmpty DEF Init, Chronology, NoSnapshot
  <2>3. InFrame
    BY DEF Init, InFrame
  <2>4. Coverage
    BY DEF Init, Coverage, MemoryCovered, AlertsComplete, NoLostClaim,
           StandingCovered, EmptyTable, NoSnapshot
  <2> QED BY <2>1, <2>2, <2>3, <2>4 DEF LedgerInv
<1>2. LedgerInv /\ [Next]_vars => LedgerInv'
  BY TypeInvStep, ChronologyStep, InFrameStep, CoverageStep DEF LedgerInv
<1>3. LedgerInv => NoLostClaim
  BY DEF LedgerInv, Coverage
<1> QED BY <1>1, <1>2, <1>3, PTL DEF Spec
-----------------------------------------------------------------------------
(* A complete snapshot is authoritative, whether or not the Hub stamps its  *)
(* reports.                                                                 *)

LEMMA OutlivesStep ==
    ASSUME TypeInv, OnlyNewerClaimsOutliveTheirAgent, [Next]_vars
    PROVE  OnlyNewerClaimsOutliveTheirAgent'
<1> USE DEF TypeInv, OnlyNewerClaimsOutliveTheirAgent
<1>1. CASE Hub
  BY <1>1 DEF Hub, Observe, FlipPresence, Leave
<1>2. CASE Start \/ Receive \/ Discard \/ Decide \/ Notify \/ Crash
  BY <1>2 DEF Start, Receive, Discard, Decide, Notify, Crash
<1>3. CASE Merge
  <2>1. ASSUME NEW a \in Agents
        PROVE  \/ pending'[a] = Absent
               \/ a \in alerts /\ pending'[a] = frame.roster[a]
               \/ /\ pending'[a] = pending[a]
                  /\ KeptOnDisk(pending[a], frame.roster[a], frame.at)
    BY <1>3 DEF Merge, MergePending
  <2>2. UNCHANGED frame
    BY <1>3 DEF Merge
  <2> QED BY <2>1, <2>2 DEF AlertsReported, KeptOnDisk
<1>4. CASE Save
  BY <1>4 DEF Save
<1>5. CASE \E p \in Clients : Client(p)
  <2>1. PICK p \in Clients : Client(p)
    BY <1>5
  <2>2. UNCHANGED <<phase, frame>>
    BY <2>1 DEF Client, CaptureDismissed, CaptureOpened, CaptureFocused, Capture,
                GiveUp, Acknowledge
  <2>3. \A a \in Agents : pending'[a] = Absent \/ pending'[a] = pending[a]
    BY <2>1 DEF Client, CaptureDismissed, CaptureOpened, CaptureFocused, Capture,
                GiveUp, Acknowledge, Without, TypeOK, Tables
  <2> QED BY <2>2, <2>3
<1>6. CASE UNCHANGED vars
  BY <1>6
<1> QED BY <1>1, <1>2, <1>3, <1>4, <1>5, <1>6 DEF Next, Daemon

\* After a complete snapshot is merged, a claim of an agent that its roster no
\* longer has, or no longer has waiting, is left in hub-pending.json only when
\* it was observed after the snapshot was taken: for any agents, clients,
\* clocks and bounds, stamps or no stamps (_accept_with_notify).
THEOREM SnapshotIsAuthoritative == Spec => []OnlyNewerClaimsOutliveTheirAgent
<1>1. Init => TypeInv /\ OnlyNewerClaimsOutliveTheirAgent
  BY TypeInit DEF Init, TypeInv, AlertsReported, OnlyNewerClaimsOutliveTheirAgent
<1>2. TypeInv /\ OnlyNewerClaimsOutliveTheirAgent /\ [Next]_vars
        => (TypeInv /\ OnlyNewerClaimsOutliveTheirAgent)'
  BY TypeInvStep, OutlivesStep
<1> QED BY <1>1, <1>2, PTL DEF Spec
-----------------------------------------------------------------------------
(* A genuinely new request for attention appears again.                     *)

\* Stamp s of agent a is not ahead of a Hub with clock c and roster r.
NotAhead(a, s, c, r) ==
    /\ s <= c + Ahead[a]
    /\ r[a] # Absent => s <= r[a].stamp

\* The stamps that were acknowledged, captured and announced are of the past.
OldStamps ==
    /\ \A a \in Agents : acks[a] # Absent => NotAhead(a, acks[a], clock, roster)
    /\ \A a \in Agents : announced[a] # Absent => NotAhead(a, announced[a], clock, roster)
    /\ \A p \in Clients :
          held[p] # Absent => NotAhead(held[p].agent, held[p].stamp, clock, roster)

\* A report that a step of the Hub makes has a stamp no report had before.
LEMMA HubGrows ==
    ASSUME ~MissingStamps, TypeOK, Hub, NEW a \in Agents
    PROVE  /\ clock' \in Nat /\ clock' >= clock
           /\ roster'[a] # Absent =>
                 \/ roster[a] # Absent /\ roster'[a].stamp = roster[a].stamp
                 \/ roster'[a].stamp = clock + 1 + Ahead[a]
<1>1. PICK b \in Agents :
        \/ \E state \in Activities, missing \in BOOLEAN : Observe(b, state, missing)
        \/ FlipPresence(b)
        \/ Leave(b)
  BY DEF Hub
<1>2. CASE \E state \in Activities, missing \in BOOLEAN : Observe(b, state, missing)
  <2>1. PICK state \in Activities, missing \in BOOLEAN : Observe(b, state, missing)
    BY <1>2
  <2>2. clock' = clock + 1 /\ ~missing
    BY <2>1 DEF Observe
  <2>3. b = a => roster'[a].stamp = clock + 1 + Ahead[a]
    BY <2>1, <2>2 DEF Observe, TypeOK, Tables
  <2>4. b # a => roster'[a] = roster[a]
    BY <2>1 DEF Observe, TypeOK, Tables
  <2> QED BY <2>2, <2>3, <2>4 DEF TypeOK
<1>3. CASE FlipPresence(b) \/ Leave(b)
  <2>1. roster[a] # Absent => roster[a] \in Reports
    BY EntryType DEF TypeOK
  <2>2. clock' = clock
    BY <1>3 DEF FlipPresence, Leave
  <2>3. roster'[a] # Absent => roster[a] # Absent /\ roster'[a].stamp = roster[a].stamp
    BY <1>3, <2>1 DEF FlipPresence, Leave, Without, TypeOK, Tables, Reports
  <2> QED BY <2>2, <2>3 DEF TypeOK
<1> QED BY <1>1, <1>2, <1>3

LEMMA NotAheadHub ==
    ASSUME ~MissingStamps, TypeOK, Hub, NEW a \in Agents, NEW s \in Nat,
           NotAhead(a, s, clock, roster)
    PROVE  NotAhead(a, s, clock', roster')
<1>1. clock \in Nat /\ Ahead[a] \in Nat
  BY LedgerAssumption DEF TypeOK
<1> QED BY <1>1, HubGrows DEF NotAhead

\* An entry of a past table has a stamp that is not ahead.
LEMMA NotAheadPast ==
    ASSUME NEW t, NEW c, NEW r, Past(t, c, r), NEW a \in Agents, t[a] # Absent
    PROVE  NotAhead(a, t[a].stamp, c, r)
BY DEF Past, NotAhead

LEMMA CapturedIsOld ==
    ASSUME OldStamps, TypeOK, NEW p \in Clients, NEW a \in Agents, NEW s \in Stamps,
           NotAhead(a, s, clock, roster), Capture(p, a, s)
    PROVE  OldStamps'
<1>1. UNCHANGED <<acks, announced, clock, roster>>
  BY DEF Capture
<1>2. held' = [held EXCEPT ![p] = [agent |-> a, stamp |-> s]]
  BY DEF Capture
<1>3. ASSUME NEW q \in Clients, held'[q] # Absent
      PROVE  NotAhead(held'[q].agent, held'[q].stamp, clock, roster)
  <2>1. CASE q = p
    BY <1>2, <2>1 DEF TypeOK
  <2>2. CASE q # p
    BY <1>2, <1>3, <2>2 DEF TypeOK, OldStamps
  <2> QED BY <2>1, <2>2
<1> QED BY <1>1, <1>3 DEF OldStamps

LEMMA OldStampsStep ==
    ASSUME ~MissingStamps, TypeInv, Chronology, OldStamps, [Next]_vars
    PROVE  OldStamps'
<1> USE DEF TypeInv
<1>0. /\ \A a \in Agents : acks[a] # Absent => acks[a] \in Nat
      /\ \A a \in Agents : announced[a] # Absent => announced[a] \in Nat
      /\ \A p \in Clients : held[p] # Absent => /\ held[p].agent \in Agents
                                                /\ held[p].stamp \in Stamps
                                                /\ held[p].stamp \in Nat
  BY EntryType, StampedInts DEF TypeOK, Claims
<1>1. CASE Hub
  <2>1. UNCHANGED <<acks, announced, held>>
    BY <1>1 DEF Hub, Observe, FlipPresence, Leave
  <2> QED BY <1>0, <1>1, <2>1, NotAheadHub DEF OldStamps
<1>2. CASE Start \/ Receive \/ Discard \/ Decide \/ Merge \/ Save
  BY <1>2 DEF Start, Receive, Discard, Decide, Merge, Save, OldStamps
<1>3. CASE Notify
  <2>1. UNCHANGED <<acks, held, clock, roster>>
    BY <1>3 DEF Notify
  <2>2. ASSUME NEW a \in Agents, announced'[a] # Absent
        PROVE  NotAhead(a, announced'[a], clock, roster)
    <3>1. CASE a \in alerts
      <4>1. announced'[a] = frame.roster[a].stamp /\ frame.roster[a] # Absent
        BY <1>3, <3>1 DEF Notify, AlertsReported
      <4> QED BY <4>1, NotAheadPast DEF Chronology
    <3>2. CASE a \notin alerts
      BY <1>3, <2>2, <3>2 DEF Notify, OldStamps
    <3> QED BY <3>1, <3>2
  <2> QED BY <2>1, <2>2 DEF OldStamps
<1>4. CASE Crash
  <2>1. UNCHANGED <<acks, announced, clock, roster>>
    BY <1>4 DEF Crash
  <2>2. \A p \in Clients : held'[p] = Absent \/ held'[p] = held[p]
    BY <1>4 DEF Crash, TypeOK
  <2> QED BY <2>1, <2>2 DEF OldStamps
<1>5. CASE \E p \in Clients : Client(p)
  <2>0. PICK p \in Clients : Client(p)
    BY <1>5
  <2>1. ASSUME NEW a \in Agents, CaptureDismissed(p, a)
        PROVE  OldStamps'
    <3>1. CommandMemory[a] # Absent
      BY <2>1 DEF CaptureDismissed, PendingAgents
    <3>2. CommandMemory \in Tables(Reports)
      BY TablesTyped, LoadedType DEF CommandMemory
    <3>3. \A b \in Agents : \/ CommandMemory[b] = saved.roster[b]
                            \/ CommandMemory[b] = pending[b]
      BY DEF CommandMemory, LoadedMemory
    <3>4. Past(CommandMemory, clock, roster)
      BY <3>3, PastMix DEF Chronology
    <3>5. CommandMemory[a].stamp \in Stamps
      BY <3>1, <3>2, ReportFields
    <3>6. NotAhead(a, CommandMemory[a].stamp, clock, roster)
      BY <3>1, <3>4, NotAheadPast
    <3> QED BY <2>1, <3>5, <3>6, CapturedIsOld DEF CaptureDismissed
  <2>2. ASSUME NEW a \in Agents, CaptureOpened(p, a)
        PROVE  OldStamps'
    <3>1. FetchedMemory[a] # Absent
      BY <2>2 DEF CaptureOpened, PendingAgents
    <3>2. roster[a] # Absent
      BY <3>1 DEF FetchedMemory, FilterMemory, Alerts
    <3>3. roster[a].stamp \in Stamps
      BY <3>2, TablesTyped, ReportFields
    <3>4. NotAhead(a, roster[a].stamp, clock, roster)
      BY <3>2, NotAheadPast DEF Chronology
    <3> QED BY <2>2, <3>3, <3>4, CapturedIsOld DEF CaptureOpened
  <2>3. ASSUME NEW a \in Agents, CaptureFocused(a)
        PROVE  OldStamps'
    <3>1. previous[a] # Absent
      BY <2>3 DEF CaptureFocused
    <3>2. previous[a].stamp \in Stamps
      BY <3>1, TablesTyped, ReportFields
    <3>3. NotAhead(a, previous[a].stamp, clock, roster)
      BY <3>1, NotAheadPast DEF Chronology
    <3>4. Worker \in Clients
      BY DEF Clients
    <3> QED BY <2>3, <3>2, <3>3, <3>4, CapturedIsOld DEF CaptureFocused
  <2>4. CASE GiveUp(p)
    <3>1. UNCHANGED <<acks, announced, clock, roster>>
      BY <2>4 DEF GiveUp
    <3>2. \A q \in Clients : held'[q] = Absent \/ held'[q] = held[q]
      BY <2>4 DEF GiveUp, TypeOK
    <3> QED BY <3>1, <3>2 DEF OldStamps
  <2>5. CASE Acknowledge(p)
    <3>1. UNCHANGED <<announced, clock, roster>>
      BY <2>5 DEF Acknowledge
    <3>2. \A q \in Clients : held'[q] = Absent \/ held'[q] = held[q]
      BY <2>5 DEF Acknowledge, TypeOK
    <3>3. ASSUME NEW a \in Agents
          PROVE  \/ acks'[a] = acks[a]
                 \/ held[p] # Absent /\ a = held[p].agent /\ acks'[a] = held[p].stamp
      BY <2>5 DEF Acknowledge, AckedTable, TypeOK, Tables
    <3> QED BY <3>1, <3>2, <3>3 DEF OldStamps
  <2> QED BY <2>0, <2>1, <2>2, <2>3, <2>4, <2>5 DEF Client
<1>6. CASE UNCHANGED vars
  BY <1>6 DEF OldStamps
<1> QED BY <1>1, <1>2, <1>3, <1>4, <1>5, <1>6 DEF Next, Daemon

LEMMA PastInit == Init => TypeInv /\ Chronology /\ OldStamps
<1> SUFFICES ASSUME Init PROVE TypeInv /\ Chronology /\ OldStamps
  OBVIOUS
<1>1. TypeInv
  BY TypeInit DEF Init, TypeInv, AlertsReported
<1>2. Chronology
  BY PastEmpty DEF Init, Chronology, NoSnapshot
<1>3. OldStamps
  BY DEF Init, OldStamps, EmptyTable
<1> QED BY <1>1, <1>2, <1>3

\* A genuinely new request for attention appears again: an acknowledgement
\* covers the request an agent has now only when it was given for that very
\* request, for any agents, clients, clocks and bounds, when the Hub stamps
\* every report (AgentdHub.acknowledge, is_acknowledged).
THEOREM NewRequestsAppear ==
    ASSUME ~MissingStamps
    PROVE  Spec => []NewRequestShows
<1>1. Init => TypeInv /\ Chronology /\ OldStamps
  BY PastInit
<1>2. TypeInv /\ Chronology /\ OldStamps /\ [Next]_vars
        => (TypeInv /\ Chronology /\ OldStamps)'
  BY TypeInvStep, ChronologyStep, OldStampsStep
<1>3. TypeInv /\ Chronology /\ OldStamps => NewRequestShows
  <2> SUFFICES ASSUME TypeOK, OldStamps, NEW a \in Agents, roster[a] # Absent,
                      IsAcknowledged(acks, a, roster[a].stamp)
               PROVE  acks[a] = roster[a].stamp
    BY DEF TypeInv, NewRequestShows
  <2>1. roster[a].stamp \in Stamps /\ roster[a].stamp \in Nat
    BY TablesTyped, ReportFields, StampedInts
  <2>2. acks[a] # Absent /\ acks[a] >= roster[a].stamp /\ acks[a] \in Nat
    BY <2>1, AcknowledgedMeans, EntryType, StampedInts DEF TypeOK
  <2>3. acks[a] <= roster[a].stamp
    BY <2>2 DEF OldStamps, NotAhead
  <2> QED BY <2>1, <2>2, <2>3
<1> QED BY <1>1, <1>2, <1>3, PTL DEF Spec
-----------------------------------------------------------------------------
(* A previous event is not replayed.                                        *)

\* What was announced is known from table t: t has it, or a later claim of the
\* agent, and what roster r has of an agent that t does not have came after it.
Heard(t, r) ==
    \A a \in Agents :
        announced[a] # Absent =>
            /\ t[a] # Absent => t[a].stamp >= announced[a]
            /\ t[a] = Absent /\ r[a] # Absent => r[a].stamp > announced[a]

\* Frame f was taken after table t.
Earlier(t, f) ==
    \A a \in Agents :
        (t[a] # Absent /\ f[a] # Absent) =>
            /\ t[a].stamp <= f[a].stamp
            /\ t[a].stamp = f[a].stamp => t[a].state = f[a].state

Accepting == {"merging", "saving", "notifying"}

AlertsAreNews ==
    phase \in Accepting =>
        \A a \in alerts : RankOf(frame.roster[a].stamp) > RankOf(announced[a])

\* What was announced is known from hub-snapshot.json, which is written before
\* anything is announced, and from every roster the daemon decides with.
HeardInv ==
    /\ Heard(saved.roster, roster)
    /\ phase # "down" => Heard(previous, roster)
    /\ phase \in Accepting \cup {"received"} => Heard(frame.roster, roster)
    /\ phase = "received" =>
          Earlier(previous, frame.roster) /\ Heard(previous, frame.roster)
    /\ phase \in Accepting => previous = frame.roster
    /\ phase = "notifying" => saved = frame

ReplayInv == TypeInv /\ Chronology /\ OldStamps /\ HeardInv /\ AlertsAreNews

\* What was announced is known from a table whatever the Hub does.
LEMMA HeardHub ==
    ASSUME ~MissingStamps, TypeOK, OldStamps, Hub, NEW t, Heard(t, roster)
    PROVE  Heard(t, roster')
<1> SUFFICES ASSUME NEW a \in Agents, announced[a] # Absent,
                    t[a] = Absent, roster'[a] # Absent
             PROVE  roster'[a].stamp > announced[a]
  BY DEF Heard
<1>1. announced[a] \in Nat /\ clock \in Nat /\ Ahead[a] \in Nat
  BY EntryType, StampedInts, LedgerAssumption DEF TypeOK
<1>2. announced[a] <= clock + Ahead[a]
  BY DEF OldStamps, NotAhead
<1> QED BY <1>1, <1>2, HubGrows DEF Heard

\* An alert that is decided is news.
LEMMA DecidedIsNews ==
    ASSUME ~MissingStamps, TypeInv, HeardInv, Decide, NEW a \in alerts'
    PROVE  RankOf(frame.roster[a].stamp) > RankOf(announced[a])
<1> USE DEF TypeInv
<1> DEFINE new == frame.roster[a]
           prev == previous[a]
<1>1. /\ phase = "received" /\ a \in Agents /\ new # Absent
      /\ IsNewAttention(prev, new) \/ IsNewIdle(prev, new)
  BY DEF Decide, Alerts
<1>2. new.stamp \in Nat /\ RankOf(new.stamp) = new.stamp
  BY <1>1, TablesTyped, ReportFields, StampedInts DEF RankOf
<1>3. CASE announced[a] = Absent
  BY <1>2, <1>3 DEF RankOf, IsInt
<1>4. CASE announced[a] # Absent
  <2>1. announced[a] \in Nat /\ RankOf(announced[a]) = announced[a]
    BY <1>1, <1>4, EntryType, StampedInts DEF TypeOK, RankOf
  <2>2. CASE prev = Absent
    <3>1. new.stamp > announced[a]
      BY <1>1, <1>4, <2>2 DEF HeardInv, Heard
    <3> QED BY <1>2, <2>1, <3>1
  <2>3. CASE prev # Absent
    <3>1. prev.stamp \in Nat /\ RankOf(prev.stamp) = prev.stamp
      BY <1>1, <2>3, TablesTyped, ReportFields, StampedInts DEF RankOf
    <3>2. prev.stamp >= announced[a]
      BY <1>1, <1>4, <2>3 DEF HeardInv, Heard
    <3>3. /\ prev.stamp <= new.stamp
          /\ prev.stamp = new.stamp => prev.state = new.state
      BY <1>1, <2>3 DEF HeardInv, Earlier
    <3>4. prev.state # new.state \/ new.stamp > prev.stamp
      BY <1>1, <2>3, <3>1 DEF IsNewAttention, IsNewIdle
    <3>5. new.stamp > prev.stamp
      BY <1>2, <3>1, <3>3, <3>4
    <3> QED BY <1>2, <2>1, <3>1, <3>2, <3>5
  <2> QED BY <2>2, <2>3
<1> QED BY <1>3, <1>4

LEMMA NewsStep ==
    ASSUME ~MissingStamps, TypeInv, HeardInv, AlertsAreNews, [Next]_vars
    PROVE  AlertsAreNews'
<1> USE DEF AlertsAreNews, Accepting
<1>1. CASE Hub
  BY <1>1 DEF Hub, Observe, FlipPresence, Leave
<1>2. CASE Start \/ Receive \/ Discard \/ Notify \/ Crash
  BY <1>2 DEF Start, Receive, Discard, Notify, Crash
<1>3. CASE Decide
  <2>1. UNCHANGED <<frame, announced>>
    BY <1>3 DEF Decide
  <2> QED BY <1>3, <2>1, DecidedIsNews
<1>4. CASE Merge \/ Save
  BY <1>4 DEF Merge, Save
<1>5. CASE \E p \in Clients : Client(p)
  BY <1>5 DEF Client, CaptureDismissed, CaptureOpened, CaptureFocused, Capture,
              GiveUp, Acknowledge
<1>6. CASE UNCHANGED vars
  BY <1>6
<1> QED BY <1>1, <1>2, <1>3, <1>4, <1>5, <1>6 DEF Next, Daemon

LEMMA HeardStep ==
    ASSUME ~MissingStamps, ReplayInv, [Next]_vars
    PROVE  HeardInv'
<1> USE DEF ReplayInv, TypeInv, HeardInv, Accepting
<1>1. CASE Hub
  <2>1. UNCHANGED <<saved, previous, frame, phase, announced>>
    BY <1>1 DEF Hub, Observe, FlipPresence, Leave
  <2>2. \A t : Heard(t, roster) => Heard(t, roster)'
    BY <1>1, <2>1, HeardHub DEF Heard
  <2>3. \A t : Heard(t, frame.roster) => Heard(t, frame.roster)'
    BY <2>1 DEF Heard
  <2> QED BY <2>1, <2>2, <2>3 DEF Earlier
<1>2. CASE Start
  BY <1>2 DEF Start, Heard
<1>3. CASE Receive
  <2>1. UNCHANGED <<saved, previous, announced, roster>> /\ frame'.roster = roster
        /\ phase' = "received" /\ phase = "waiting"
    BY <1>3 DEF Receive, CurrentSnapshot
  <2>2. Heard(roster, roster)
    BY DEF Heard, OldStamps, NotAhead
  <2>3. Earlier(previous, roster)
    BY DEF Chronology, Past, Earlier
  <2> QED BY <2>1, <2>2, <2>3 DEF Heard, Earlier
<1>4. CASE Discard
  BY <1>4 DEF Discard, Heard
<1>5. CASE Decide
  BY <1>5 DEF Decide, Heard
<1>6. CASE Merge
  BY <1>6 DEF Merge, Heard
<1>7. CASE Save
  BY <1>7 DEF Save, Heard
<1>8. CASE Notify
  <2>1. UNCHANGED <<saved, previous, roster>> /\ phase' = "waiting"
        /\ saved = frame /\ previous = frame.roster
    BY <1>8 DEF Notify
  <2>2. ASSUME NEW a \in Agents
        PROVE  \/ announced'[a] = announced[a]
               \/ frame.roster[a] # Absent /\ announced'[a] = frame.roster[a].stamp
    BY <1>8 DEF Notify, AlertsReported
  <2>3. \A a \in Agents : frame.roster[a] # Absent => frame.roster[a].stamp \in Nat
    BY TablesTyped, ReportFields, StampedInts
  <2>4. Heard(previous, roster)
    BY <2>1, <1>8 DEF Notify
  <2>5. \A a \in Agents : announced'[a] # Absent /\ announced'[a] # announced[a]
          => previous[a] # Absent /\ announced'[a] = previous[a].stamp
             /\ previous[a].stamp \in Nat
    BY <2>1, <2>2, <2>3
  <2>6. Heard(previous, roster)'
    BY <2>1, <2>4, <2>5 DEF Heard
  <2> QED BY <2>1, <2>6 DEF Heard
<1>9. CASE Crash
  BY <1>9 DEF Crash, Heard
<1>10. CASE \E p \in Clients : Client(p)
  BY <1>10 DEF Client, CaptureDismissed, CaptureOpened, CaptureFocused, Capture,
               GiveUp, Acknowledge, Heard, Earlier
<1>11. CASE UNCHANGED vars
  BY <1>11 DEF Heard, Earlier
<1> QED BY <1>1, <1>2, <1>3, <1>4, <1>5, <1>6, <1>7, <1>8, <1>9, <1>10, <1>11
        DEF Next, Daemon

\* "A previous event is not replayed" (README, Agentd Hub): every claim the
\* daemon announces is newer than the last one it announced for the agent,
\* whatever the reconnects, crashes between the file writes, restarts and
\* acknowledgements, for any agents, clients, clocks and bounds, when the Hub
\* stamps every report (_accept_with_notify, __init__).
THEOREM NothingReplayed ==
    ASSUME ~MissingStamps
    PROVE  Spec => NoReplayedAlert
<1>1. Init => ReplayInv
  BY PastInit DEF Init, ReplayInv, HeardInv, Heard, AlertsAreNews, Accepting, EmptyTable
<1>2. ReplayInv /\ [Next]_vars => ReplayInv'
  BY TypeInvStep, ChronologyStep, OldStampsStep, HeardStep, NewsStep DEF ReplayInv
<1>3. ReplayInv => (Notify =>
          \A a \in alerts : RankOf(frame.roster[a].stamp) > RankOf(announced[a]))
  BY DEF ReplayInv, AlertsAreNews, Accepting, Notify
<1> QED BY <1>1, <1>2, <1>3, PTL DEF Spec, NoReplayedAlert
=============================================================================
