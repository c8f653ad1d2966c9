--------------------------- MODULE HubClaimsProofs ---------------------------
(***************************************************************************)
(* Lemmas about the decisions of HubClaims, for every table.               *)
(***************************************************************************)
EXTENDS HubClaims, TLAPS

\* Removing an entry, or recording a stamp, keeps a table a table.
LEMMA WithoutType ==
    ASSUME NEW S, NEW t \in Tables(S), NEW a \in Agents
    PROVE  Without(t, a) \in Tables(S)
BY DEF Without, Tables

LEMMA AckedTableType ==
    ASSUME NEW S, NEW t \in Tables(S), NEW a \in Agents, NEW s \in S
    PROVE  AckedTable(t, a, s) \in Tables(S)
BY DEF AckedTable, Tables

\* The entries of the merged, filtered and loaded pending maps come from the
\* maps they are computed from, and from the roster.
LEMMA MergeType ==
    ASSUME NEW S, NEW disk \in Tables(S), NEW r \in Tables(S),
           NEW al \in SUBSET Agents, NEW at
    PROVE  MergePending(disk, r, al, at) \in Tables(S)
BY DEF MergePending, Tables

LEMMA FilterType ==
    ASSUME NEW S, NEW m \in Tables(S), NEW r \in Tables(S), NEW al \in SUBSET Agents
    PROVE  FilterMemory(m, r, al) \in Tables(S)
BY DEF FilterMemory, Tables

LEMMA LoadedType ==
    ASSUME NEW S, NEW disk \in Tables(S), NEW cached \in Tables(S), NEW ac
    PROVE  LoadedMemory(disk, cached, ac) \in Tables(S)
BY DEF LoadedMemory, Tables

LEMMA EmptyType == \A S : EmptyTable \in Tables(S)
BY DEF EmptyTable, Tables

LEMMA EntryType ==
    ASSUME NEW S, NEW t \in Tables(S), NEW a \in Agents, t[a] # Absent
    PROVE  t[a] \in S
BY DEF Tables

LEMMA ReportFields ==
    ASSUME NEW t \in Tables(Reports), NEW a \in Agents, t[a] # Absent
    PROVE  t[a].stamp \in Stamps /\ t[a].state \in States /\ t[a].present \in BOOLEAN
<1>1. t[a] \in Reports
  BY EntryType
<1> QED BY <1>1 DEF Reports
=============================================================================
