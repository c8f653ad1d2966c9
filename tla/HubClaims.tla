------------------------------ MODULE HubClaims ------------------------------
(***************************************************************************)
(* The pure decisions of the acknowledgement ledger in                     *)
(* payload/agentd_hub.py: which roster entries of a Hub snapshot are new   *)
(* claims, which claims an acknowledgement covers, when an acknowledgement *)
(* is refused, and how a complete snapshot is merged into the pending file.*)
(*                                                                         *)
(* An agent is known by its identity (machine, instance, pid, start        *)
(* ticks).  A report is what one snapshot says of it.  A claim is an       *)
(* identity together with the observedAtUnixMs stamp of its report.  A     *)
(* table maps every identity to an entry or to Absent.                     *)
(***************************************************************************)
EXTENDS Integers

CONSTANTS Agents,   \* agent identities
          Absent,   \* no entry for an identity in a table
          None,     \* a stamp the Hub left out (Python None)
          MissingStamps  \* whether the Hub may leave stamps out

States == {"active", "idle", "needs_attention", "unknown"}

Stamps == (Nat \ {0}) \cup (IF MissingStamps THEN {None} ELSE {})

Reports == [state : States, stamp : Stamps, present : BOOLEAN]

\* The null values are no stamps and no reports.
ASSUME NullAssumption ==
    /\ MissingStamps \in BOOLEAN
    /\ None \notin Int
    /\ Absent \notin Int \cup {None}
    /\ Absent \notin Reports

Tables(S) == [Agents -> S \cup {Absent}]

EmptyTable == [a \in Agents |-> Absent]

\* isinstance(x, int)
IsInt(stamp) == stamp \notin {None, Absent}

\* previous[1] or -1
RankOf(stamp) == IF IsInt(stamp) THEN stamp ELSE -1

StampOf(entry) == IF entry = Absent THEN None ELSE entry.stamp

\* The states in which a claim may stay pending.
Claiming == {"needs_attention", "idle"}

-----------------------------------------------------------------------------
(* Acknowledgements: acks[a] is the stamp recorded in hub-ack.json, None    *)
(* when the record has no stamp, Absent when there is no record.            *)

\* Mutant of IsAcknowledged: an acknowledgement covers the identity for good.
IsAcknowledgedForGood(acks, a, stamp) == acks[a] # Absent

IsAcknowledged(acks, a, stamp) ==
    /\ acks[a] # Absent
    /\ acks[a] = None \/ (stamp # None /\ acks[a] >= stamp)

\* The claims pending_agents returns out of a pending table.
PendingAgents(table, acks) ==
    {a \in Agents : table[a] # Absent /\ ~IsAcknowledged(acks, a, table[a].stamp)}

\* Mutant of AckRefused: the pending file is not consulted.
AckRefusedByAcksOnly(acks, pending, a, stamp) ==
    \/ IsInt(acks[a]) /\ ~IsInt(stamp)
    \/ IsInt(acks[a]) /\ IsInt(stamp) /\ acks[a] > stamp

\* An older click must not regress the ledger nor remove a newer claim.
AckRefused(acks, pending, a, stamp) ==
    \/ IsInt(acks[a]) /\ ~IsInt(stamp)
    \/ IsInt(StampOf(pending[a])) /\ ~IsInt(stamp)
    \/ IsInt(acks[a]) /\ IsInt(stamp) /\ acks[a] > stamp
    \/ IsInt(StampOf(pending[a])) /\ IsInt(stamp) /\ StampOf(pending[a]) > stamp

AckedTable(acks, a, stamp) == [acks EXCEPT ![a] = stamp]

\* Mutant of Without: the entry is set to null instead of removed.
WithoutLeavesNull(table, a) == [table EXCEPT ![a] = None]

Without(table, a) == [table EXCEPT ![a] = Absent]

-----------------------------------------------------------------------------
(* Accepting a complete snapshot.                                           *)

IsNewAttention(prev, report) ==
    /\ report.state = "needs_attention"
    /\ \/ prev = Absent
       \/ prev.state # report.state
       \/ report.stamp # None /\ report.stamp > RankOf(prev.stamp)

IsNewIdle(prev, report) ==
    /\ report.state = "idle"
    /\ prev # Absent
    /\ prev.state = "active"
    /\ report.stamp = None \/ report.stamp > RankOf(prev.stamp)

SamePendingClaim(entry, report) == entry # Absent /\ entry.stamp = report.stamp

\* Mutant of Alerts: every request of the roster that is not acknowledged.
AlertsByState(previous, initialized, memory, acks, roster) ==
    {a \in Agents :
        /\ roster[a] # Absent
        /\ roster[a].state = "needs_attention"
        /\ ~IsAcknowledged(acks, a, roster[a].stamp)}

\* Mutant of Alerts: the whole first roster is a silent baseline.
AlertsAfterBaseline(previous, initialized, memory, acks, roster) ==
    {a \in Agents :
        /\ roster[a] # Absent
        /\ \/ IsNewAttention(previous[a], roster[a])
           \/ IsNewIdle(previous[a], roster[a])
        /\ ~SamePendingClaim(memory[a], roster[a])
        /\ ~IsAcknowledged(acks, a, roster[a].stamp)
        /\ initialized}

\* Claims the snapshot raises: new against the previous roster, not already
\* pending, not acknowledged, and on the very first roster attention only.
Alerts(previous, initialized, memory, acks, roster) ==
    {a \in Agents :
        /\ roster[a] # Absent
        /\ \/ IsNewAttention(previous[a], roster[a])
           \/ IsNewIdle(previous[a], roster[a])
        /\ ~SamePendingClaim(memory[a], roster[a])
        /\ ~IsAcknowledged(acks, a, roster[a].stamp)
        /\ initialized \/ roster[a].state = "needs_attention"}

\* The pending map in memory after a snapshot.
FilterMemory(memory, roster, alerts) ==
    [a \in Agents |->
        IF a \in alerts THEN roster[a]
        ELSE IF roster[a] # Absent /\ roster[a].state \in Claiming /\ roster[a].present
             THEN memory[a]
             ELSE Absent]

\* A claim observed after the snapshot was taken survives it.
NewerConcurrentClaim(entry, at) == IsInt(StampOf(entry)) /\ entry.stamp > at

\* Mutant of KeptOnDisk: the claim of an agent that left the roster is kept.
KeptOnDiskIfGone(entry, report, at) ==
    \/ NewerConcurrentClaim(entry, at)
    \/ report = Absent
    \/ report.state \in Claiming

KeptOnDisk(entry, report, at) ==
    \/ NewerConcurrentClaim(entry, at)
    \/ report # Absent /\ report.state \in Claiming

\* Mutant of MergePending: an alert never replaces the claim that is there.
MergePendingFirstWins(disk, roster, alerts, at) ==
    [a \in Agents |->
        IF KeptOnDisk(disk[a], roster[a], at) /\ disk[a] # Absent THEN disk[a]
        ELSE IF a \in alerts THEN roster[a] ELSE Absent]

\* The pending file after a snapshot: filtered by the complete roster, then
\* overlaid with the alerts that are not older than what is there.
MergePending(disk, roster, alerts, at) ==
    LET kept == [a \in Agents |->
                    IF KeptOnDisk(disk[a], roster[a], at) THEN disk[a] ELSE Absent]
    IN  [a \in Agents |->
            IF /\ a \in alerts
               /\ ~(/\ IsInt(StampOf(kept[a])) /\ IsInt(roster[a].stamp)
                    /\ kept[a].stamp > roster[a].stamp)
            THEN roster[a]
            ELSE kept[a]]

\* The pending map a process starts with: the file, plus what a cached
\* snapshot still asks for.
LoadedMemory(disk, cached, acks) ==
    [a \in Agents |->
        IF /\ cached[a] # Absent
           /\ cached[a].state = "needs_attention"
           /\ cached[a].present
           /\ ~IsAcknowledged(acks, a, cached[a].stamp)
        THEN cached[a]
        ELSE disk[a]]
=============================================================================
