----------------------------- MODULE ProcTable -----------------------------
(***************************************************************************)
(* The process table of one machine, as /proc shows it to the collectors   *)
(* of agent_window_resolver/linux.py while it changes under them.  It is   *)
(* the kernel, not a part of the repository: only what a collector reads   *)
(* of it is kept.  A process is known by its PID and its start time, since *)
(* a PID is given again after its process is gone.                         *)
(***************************************************************************)
EXTENDS Naturals, FiniteSets, Ancestry

CONSTANTS Pids,      \* process identifiers above init's
          Programs,  \* what a command line can be, as far as it is told apart
          LinksOf(_),\* what a program can be attached to: a connection, a pane
          NoLink,
          MaxChurn   \* bound: events of the kernel in one behaviour

ASSUME ProcTableAssumption ==
  /\ Pids \subseteq Nat \ {0, 1}
  /\ IsFiniteSet(Pids)
  /\ MaxChurn \in Nat

VARIABLES proc,     \* PID -> its entry of /proc
          churn,    \* events so far; the next process starts at this tick
          lineage   \* history: every <<child, parent>> that was ever true

procVars == <<proc, churn, lineage>>

Init0 == 1        \* the parent of the processes the collectors climb no further
NoTicks == 0
FreeEntry == [ticks |-> NoTicks, parent |-> Init0, zombie |-> FALSE,
              prog |-> "none", link |-> NoLink]

Identity(p) == [pid |-> p, ticks |-> proc[p].ticks]
Exists(p) == p \in Pids /\ proc[p].ticks # NoTicks
Running(p) == Exists(p) /\ ~proc[p].zombie
Children(p) == {c \in Pids : Exists(c) /\ proc[c].parent = p}

\* The pairs of child and parent that hold in a process table.
Pairs(table) ==
  {<<[pid |-> c, ticks |-> table[c].ticks],
     [pid |-> table[c].parent, ticks |-> table[table[c].parent].ticks]>> :
      c \in {d \in Pids : table[d].ticks # NoTicks /\ table[d].parent # Init0}}

Becomes(table) ==
  /\ churn < MaxChurn
  /\ churn' = churn + 1
  /\ proc' = table
  /\ lineage' = lineage \cup Pairs(table)

\* What an entry of /proc can be, and the tables the kernel keeps: a process is
\* younger than its parent, which has not ended, or is an orphan.
Links == {NoLink} \cup UNION {LinksOf(g) : g \in Programs}
Entries == [ticks : Nat, parent : Pids \cup {Init0}, zombie : BOOLEAN,
            prog : Programs \cup {"none"}, link : Links]
Forest(table, now) ==
  /\ table \in [Pids -> Entries]
  /\ \A p \in Pids :
        /\ table[p].ticks <= now + Cardinality(Pids)
        /\ table[p].ticks # NoTicks /\ table[p].parent # Init0 =>
              /\ table[table[p].parent].ticks # NoTicks
              /\ table[table[p].parent].ticks < table[p].ticks
              /\ ~table[table[p].parent].zombie

\* A running process starts another, which first runs the same program with
\* its attachment, and takes a PID that may have been used before.
Fork(p, c) ==
  /\ Running(p) /\ ~Exists(c)
  /\ Becomes([proc EXCEPT ![c] =
        [proc[p] EXCEPT !.ticks = churn + Cardinality(Pids) + 1, !.parent = p]])

\* It loads another program, or attaches elsewhere.
Exec(p, g, l) ==
  /\ Running(p) /\ l \in LinksOf(g)
  /\ g # proc[p].prog \/ l # proc[p].link
  /\ Becomes([proc EXCEPT ![p].prog = g, ![p].link = l])

\* It ends: init adopts its children and reaps the ended ones, and its own
\* entry stays as a zombie until its parent reaps it.
Exit(p) ==
  /\ Running(p)
  /\ Becomes([q \in Pids |->
        IF q = p
        THEN IF proc[p].parent = Init0 THEN FreeEntry
             ELSE [proc[p] EXCEPT !.zombie = TRUE, !.prog = "none", !.link = NoLink]
        ELSE IF q \in Children(p)
        THEN IF proc[q].zombie THEN FreeEntry ELSE [proc[q] EXCEPT !.parent = Init0]
        ELSE proc[q]])

Reap(p) ==
  /\ Exists(p) /\ proc[p].zombie
  /\ Becomes([proc EXCEPT ![p] = FreeEntry])

Kernel ==
  \E p \in Pids :
    \/ \E c \in Pids : Fork(p, c)
    \/ \E g \in Programs, l \in UNION {LinksOf(h) : h \in Programs} : Exec(p, g, l)
    \/ Exit(p)
    \/ Reap(p)

\* A table whose processes started before the behaviour begins.
ProcInit(table) ==
  /\ proc = table
  /\ churn = 0
  /\ lineage = Pairs(table)
=============================================================================
