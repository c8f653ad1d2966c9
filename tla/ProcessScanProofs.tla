-------------------------- MODULE ProcessScanProofs --------------------------
(***************************************************************************)
(* Theorems about ProcessScan for any processes, programs, windows and     *)
(* requests, any number of changes of the process table and any bound of   *)
(* the scan.                                                               *)
(***************************************************************************)
EXTENDS ProcessScan, WindowMatchProofs

-----------------------------------------------------------------------------
(* The process table.                                                      *)

Born == churn + Cardinality(Pids)   \* no process started later than this

LEMMA PidFacts == Init0 \notin Pids /\ Pids \subseteq Nat /\ Cardinality(Pids) \in Nat
BY ProcTableAssumption, FS_CardinalityType DEF Init0

\* The table is one the kernel may have, and lineage holds its pairs.
KernelInv ==
  /\ churn \in Nat
  /\ Forest(proc, churn)
  /\ Pairs(proc) \subseteq lineage
  /\ \A l \in lineage : /\ l[1].ticks \in Nat /\ l[2].ticks \in Nat
                        /\ l[2].ticks < l[1].ticks /\ l[1].ticks <= Born

\* What a step of the kernel does to one entry: the PID is free, or a process
\* that starts there has a running parent, or the process that was there stays
\* and keeps its parent, which stays as well, or loses it.
Moves(q) ==
  \/ proc'[q].ticks = NoTicks
  \/ /\ proc'[q].ticks = Born + 1 /\ ~proc'[q].zombie
     /\ proc'[q].parent \in Pids /\ Running(proc'[q].parent)
     /\ proc'[proc'[q].parent] = proc[proc'[q].parent]
  \/ /\ proc'[q].ticks = proc[q].ticks /\ proc[q].ticks # NoTicks
     /\ \/ proc'[q].parent = Init0
        \/ /\ proc'[q].parent = proc[q].parent
           /\ proc[q].parent \in Pids
           /\ proc'[proc[q].parent].ticks = proc[proc[q].parent].ticks
           /\ proc[proc[q].parent].ticks # NoTicks
           /\ proc[proc[q].parent].ticks < proc[q].ticks
           /\ ~proc'[proc[q].parent].zombie

LEMMA EntryFacts ==
    ASSUME NEW e \in Entries, NEW p \in Pids, NEW t \in Nat
    PROVE  LET child == [e EXCEPT !.ticks = t, !.parent = p]
               ended == [e EXCEPT !.zombie = TRUE, !.prog = "none", !.link = NoLink]
               orphan == [e EXCEPT !.parent = Init0]
           IN  /\ child \in Entries /\ child.ticks = t /\ child.parent = p
               /\ child.zombie = e.zombie
               /\ ended \in Entries /\ ended.ticks = e.ticks /\ ended.parent = e.parent
               /\ orphan \in Entries /\ orphan.ticks = e.ticks
               /\ orphan.parent = Init0 /\ orphan.zombie = e.zombie
<1>1. NoLink \in Links
  BY DEF Links
<1> QED BY <1>1 DEF Entries

\* A process is younger than its parent, which is another one.
LEMMA ParentFacts ==
    ASSUME KernelInv, NEW q \in Pids, proc[q].ticks # NoTicks, proc[q].parent # Init0
    PROVE  /\ proc[q].parent \in Pids /\ Running(proc[q].parent)
           /\ proc[proc[q].parent].ticks < proc[q].ticks
           /\ proc[q].ticks \in Nat /\ proc[proc[q].parent].ticks \in Nat
           /\ proc[q].parent # q
BY DEF KernelInv, Forest, Entries, Running, Exists

LEMMA ForkMoves ==
    ASSUME KernelInv, NEW p \in Pids, NEW c \in Pids, Fork(p, c)
    PROVE  /\ proc' \in [Pids -> Entries]
           /\ \A q \in Pids : Moves(q)
<1> DEFINE new == [proc[p] EXCEPT !.ticks = churn + Cardinality(Pids) + 1, !.parent = p]
<1>1. /\ proc[p].ticks # NoTicks /\ ~proc[p].zombie /\ proc[c].ticks = NoTicks /\ c # p
      /\ proc' = [proc EXCEPT ![c] = new]
  BY DEF Fork, Running, Exists, Becomes
<1>2. /\ new \in Entries /\ new.ticks = Born + 1 /\ new.parent = p /\ ~new.zombie
  <2>1. proc[p] \in Entries /\ churn + Cardinality(Pids) + 1 \in Nat
    BY PidFacts DEF KernelInv, Forest
  <2> QED BY <1>1, <2>1 DEF Entries, Born
<1> HIDE DEF new
<1> USE PidFacts DEF KernelInv, Forest
<1>3. proc' \in [Pids -> Entries] /\ proc'[c] = new
      /\ \A q \in Pids \ {c} : proc'[q] = proc[q]
  BY <1>1, <1>2
<1>4. ASSUME NEW q \in Pids
      PROVE  Moves(q)
  <2>1. CASE q = c
    BY <1>1, <1>2, <1>3, <2>1 DEF Moves, Running, Exists
  <2>2. CASE q # c /\ proc[q].ticks # NoTicks
    BY <1>1, <1>3, <2>2, ParentFacts DEF Moves, Running, Exists
  <2>3. CASE q # c /\ proc[q].ticks = NoTicks
    BY <1>3, <2>3 DEF Moves
  <2> QED BY <2>1, <2>2, <2>3
<1> QED BY <1>3, <1>4

LEMMA ExecMoves ==
    ASSUME KernelInv, NEW p \in Pids, NEW g \in Programs, NEW l, Exec(p, g, l)
    PROVE  /\ proc' \in [Pids -> Entries]
           /\ \A q \in Pids : Moves(q)
<1> USE PidFacts DEF KernelInv, Forest, Entries
<1>1. l \in Links /\ proc' = [proc EXCEPT ![p].prog = g, ![p].link = l]
  BY DEF Exec, Becomes, Links
<1>2. /\ proc' \in [Pids -> Entries]
      /\ \A q \in Pids : /\ proc'[q].ticks = proc[q].ticks
                         /\ proc'[q].parent = proc[q].parent
                         /\ proc'[q].zombie = proc[q].zombie
  BY <1>1
<1>3. ASSUME NEW q \in Pids
      PROVE  Moves(q)
  BY <1>2 DEF Moves
<1> QED BY <1>2, <1>3

LEMMA ExitMoves ==
    ASSUME KernelInv, NEW p \in Pids, Exit(p)
    PROVE  /\ proc' \in [Pids -> Entries]
           /\ \A q \in Pids : Moves(q)
<1> USE PidFacts DEF KernelInv, Forest
<1> DEFINE ended == [proc[p] EXCEPT !.zombie = TRUE, !.prog = "none", !.link = NoLink]
           orphan(q) == [proc[q] EXCEPT !.parent = Init0]
<1>0. /\ proc[p].ticks # NoTicks /\ ~proc[p].zombie
      /\ FreeEntry \in Entries /\ FreeEntry.ticks = NoTicks
  BY DEF Exit, Running, Exists, FreeEntry, Links, NoTicks, Entries
<1>1. ASSUME NEW q \in Pids
      PROVE  /\ q = p => proc'[q] = IF proc[p].parent = Init0 THEN FreeEntry ELSE ended
             /\ q # p /\ q \in Children(p) =>
                  proc'[q] = IF proc[q].zombie THEN FreeEntry ELSE orphan(q)
             /\ q # p /\ q \notin Children(p) => proc'[q] = proc[q]
  BY DEF Exit, Becomes
<1>e. /\ ended \in Entries /\ ended.ticks = proc[p].ticks /\ ended.parent = proc[p].parent
      /\ \A q \in Pids : /\ orphan(q) \in Entries /\ orphan(q).ticks = proc[q].ticks
                         /\ orphan(q).parent = Init0 /\ orphan(q).zombie = proc[q].zombie
  <2>1. \A q \in Pids : proc[q] \in Entries
    OBVIOUS
  <2> QED BY <2>1, EntryFacts
<1> HIDE DEF ended, orphan
<1>2. proc' \in [Pids -> Entries]
  <2>1. DOMAIN proc' = Pids /\ proc' = [q \in Pids |-> proc'[q]]
    BY DEF Exit, Becomes
  <2>2. ASSUME NEW q \in Pids PROVE proc'[q] \in Entries
    BY <1>0, <1>1, <1>e
  <2> QED BY <2>1, <2>2
<1>3. ASSUME NEW q \in Pids
      PROVE  \/ proc'[q].ticks = NoTicks
             \/ /\ proc'[q].ticks = proc[q].ticks
                /\ q # p => proc'[q].zombie = proc[q].zombie
                /\ q \in Children(p) \/ proc'[q].parent = proc[q].parent
                /\ q \in Children(p) => proc'[q].parent = Init0
  <2>1. p \notin Children(p)
    <3>1. proc[p].parent # p
      BY <1>0, ParentFacts
    <3> QED BY <3>1 DEF Children, Exists
  <2> QED BY <1>0, <1>1, <1>e, <2>1
<1>4. ASSUME NEW q \in Pids, proc[q].ticks # NoTicks, proc[q].parent # Init0,
             proc[q].parent # p
      PROVE  /\ proc'[proc[q].parent].ticks = proc[proc[q].parent].ticks
             /\ ~proc'[proc[q].parent].zombie
  <2>1. proc[q].parent \in Pids /\ Running(proc[q].parent)
    BY <1>4, ParentFacts
  <2> QED BY <1>1, <1>4, <1>e, <2>1 DEF Running
<1>5. ASSUME NEW q \in Pids
      PROVE  Moves(q)
  <2>1. CASE proc'[q].ticks = NoTicks
    BY <2>1 DEF Moves
  <2>2. CASE proc'[q].ticks # NoTicks /\ q \in Children(p)
    BY <1>3, <2>2 DEF Moves, Children, Exists
  <2>3. CASE proc'[q].ticks # NoTicks /\ q \notin Children(p)
    <3>1. proc'[q].ticks = proc[q].ticks /\ proc'[q].parent = proc[q].parent
          /\ proc[q].ticks # NoTicks
      BY <1>3, <2>3
    <3>2. proc[q].parent # p
      BY <2>3, <3>1 DEF Children, Exists
    <3> QED BY <1>4, <3>1, <3>2, ParentFacts DEF Moves, Running, Exists
  <2> QED BY <2>1, <2>2, <2>3
<1> QED BY <1>2, <1>5

LEMMA ReapMoves ==
    ASSUME KernelInv, NEW p \in Pids, Reap(p)
    PROVE  /\ proc' \in [Pids -> Entries]
           /\ \A q \in Pids : Moves(q)
<1> USE PidFacts DEF KernelInv, Forest, Entries
<1>0. FreeEntry \in Entries /\ FreeEntry.ticks = NoTicks
  BY DEF FreeEntry, Links, NoTicks
<1>1. proc[p].zombie /\ proc' = [proc EXCEPT ![p] = FreeEntry]
  BY DEF Reap, Becomes
<1>2. proc' \in [Pids -> Entries]
  BY <1>0, <1>1
<1>3. ASSUME NEW q \in Pids
      PROVE  Moves(q)
  BY <1>0, <1>1 DEF Moves
<1> QED BY <1>2, <1>3

LEMMA KernelMoves ==
    ASSUME KernelInv, Kernel
    PROVE  /\ churn' = churn + 1
           /\ lineage' = lineage \cup Pairs(proc')
           /\ proc' \in [Pids -> Entries]
           /\ \A q \in Pids : Moves(q)
<1>1. churn' = churn + 1 /\ lineage' = lineage \cup Pairs(proc')
  BY DEF Kernel, Fork, Exec, Exit, Reap, Becomes
<1> QED BY <1>1, ForkMoves, ExecMoves, ExitMoves, ReapMoves DEF Kernel

LEMMA PairMeans ==
    ASSUME NEW table, NEW l
    PROVE  l \in Pairs(table) <=>
             \E c \in Pids :
               /\ table[c].ticks # NoTicks /\ table[c].parent # Init0
               /\ l = <<[pid |-> c, ticks |-> table[c].ticks],
                        [pid |-> table[c].parent,
                         ticks |-> table[table[c].parent].ticks]>>
BY DEF Pairs

\* What is below a process from before the step was so before it.
LEMMA LinkWasThere ==
    ASSUME KernelInv, Kernel, NEW l \in Pairs(proc'), l[1].ticks <= Born
    PROVE  l \in Pairs(proc)
<1>1. PICK c \in Pids :
        /\ proc'[c].ticks # NoTicks /\ proc'[c].parent # Init0
        /\ l = <<[pid |-> c, ticks |-> proc'[c].ticks],
                 [pid |-> proc'[c].parent, ticks |-> proc'[proc'[c].parent].ticks]>>
  BY PairMeans
<1>2. Moves(c)
  BY KernelMoves
<1>3. proc'[c].ticks # Born + 1
  <2>1. Born \in Nat
    BY PidFacts DEF KernelInv, Born
  <2> QED BY <1>1, <2>1
<1>4. /\ proc[c].ticks = proc'[c].ticks /\ proc'[c].parent = proc[c].parent
      /\ proc'[proc[c].parent].ticks = proc[proc[c].parent].ticks
  BY <1>1, <1>2, <1>3 DEF Moves
<1> QED BY <1>1, <1>4, PairMeans

LEMMA KernelStep ==
    ASSUME KernelInv, Kernel
    PROVE  KernelInv'
<1>1. churn' = churn + 1 /\ lineage' = lineage \cup Pairs(proc')
      /\ proc' \in [Pids -> Entries] /\ \A q \in Pids : Moves(q)
  BY KernelMoves
<1>2. Born \in Nat /\ Born' = Born + 1 /\ churn' \in Nat
  BY <1>1, PidFacts DEF KernelInv, Born
<1>3. ASSUME NEW q \in Pids
      PROVE  /\ proc'[q].ticks \in Nat /\ proc'[q].ticks <= Born'
             /\ proc'[q].ticks # NoTicks /\ proc'[q].parent # Init0 =>
                  /\ proc'[q].parent \in Pids
                  /\ proc'[proc'[q].parent].ticks # NoTicks
                  /\ proc'[proc'[q].parent].ticks < proc'[q].ticks
                  /\ ~proc'[proc'[q].parent].zombie
  <2>1. \A p \in Pids : proc[p].ticks <= Born /\ proc[p].ticks \in Nat
    BY DEF KernelInv, Forest, Born, Entries
  <2>2. proc'[q].ticks \in Nat /\ proc'[q].parent \in Pids \cup {Init0}
    BY <1>1 DEF Entries
  <2>3. CASE proc'[q].ticks = NoTicks
    BY <1>2, <2>2, <2>3 DEF NoTicks
  <2>4. CASE /\ proc'[q].ticks = Born + 1
             /\ proc'[q].parent \in Pids /\ Running(proc'[q].parent)
             /\ proc'[proc'[q].parent] = proc[proc'[q].parent]
    BY <1>2, <2>1, <2>2, <2>4 DEF Running, Exists
  <2>5. CASE /\ proc'[q].ticks = proc[q].ticks
             /\ \/ proc'[q].parent = Init0
                \/ /\ proc'[q].parent = proc[q].parent
                   /\ proc[q].parent \in Pids
                   /\ proc'[proc[q].parent].ticks = proc[proc[q].parent].ticks
                   /\ proc[proc[q].parent].ticks # NoTicks
                   /\ proc[proc[q].parent].ticks < proc[q].ticks
                   /\ ~proc'[proc[q].parent].zombie
    BY <1>2, <2>1, <2>2, <2>5
  <2> QED BY <1>1, <2>3, <2>4, <2>5 DEF Moves
<1>4. Forest(proc', churn')
  BY <1>1, <1>3 DEF Forest, Born
<1>5. ASSUME NEW l \in Pairs(proc')
      PROVE  /\ l[1].ticks \in Nat /\ l[2].ticks \in Nat
             /\ l[2].ticks < l[1].ticks /\ l[1].ticks <= Born'
  <2>1. PICK c \in Pids :
          /\ proc'[c].ticks # NoTicks /\ proc'[c].parent # Init0
          /\ l = <<[pid |-> c, ticks |-> proc'[c].ticks],
                   [pid |-> proc'[c].parent, ticks |-> proc'[proc'[c].parent].ticks]>>
    BY PairMeans
  <2>2. /\ proc'[c].ticks \in Nat /\ proc'[c].ticks <= Born'
        /\ proc'[c].parent \in Pids
        /\ proc'[proc'[c].parent].ticks < proc'[c].ticks
    BY <1>3, <2>1
  <2>3. proc'[proc'[c].parent].ticks \in Nat
    BY <1>3, <2>2
  <2> QED BY <2>1, <2>2, <2>3
<1>6. ASSUME NEW l \in lineage
      PROVE  /\ l[1].ticks \in Nat /\ l[2].ticks \in Nat
             /\ l[2].ticks < l[1].ticks /\ l[1].ticks <= Born'
  BY <1>2 DEF KernelInv
<1> QED BY <1>1, <1>2, <1>4, <1>5, <1>6 DEF KernelInv

-----------------------------------------------------------------------------
(* The inductive invariant.                                                *)

LiveIds == [pid : Pids, ticks : Nat \ {0}]
Nodes == [id : LiveIds, parent : LiveIds \cup {NoId}, prog : Programs \cup {"none"},
          ends : {{}}]
Reads == [id : LiveIds \cup {NoId}, parent : Pids \cup {Init0},
          prog : Programs \cup {"none"}, link : Links, above : LiveIds \cup {NoId}]
Codes == {"deadline_exceeded", "process_scan_truncated", "local_process_unreadable",
          "process_identity_changed", "process_not_live", "zombie_process_has_children",
          "local_tmux_probe_failed", "local_tmux_match_only",
          "local_tmux_client_unreadable"}
Errors == [code : Codes, retryable : BOOLEAN]
ReadStates == {"complete", "partial", "unreachable"}
Observations == [window : Windows, nodes : Seq(Nodes), state : ReadStates,
                 errors : SUBSET Errors]
Rows == [process : [pid : Pids, ticks : Nat], nodes : {<<>>}, shows : BOOLEAN]
Targets == [onMachine : {TRUE}, socketKnown : {TRUE}, state : ReadStates,
            errors : SUBSET Errors, nodes : Seq(Nodes), pane : {NoPane},
            clients : SUBSET Rows, boundary : {NoId}, wholeChain : {TRUE}]

\* The steps in which `node' holds what was read of the process at the head,
\* and those in which a process is read at all.
NodeSteps == {"cmdline", "stat again", "cmdline again", "parent", "last stat",
              "zombie", "zombie children", "last zombie", "children"}
ScanSteps == NodeSteps \cup {"stat"}
TargetSteps == {"client", "decide", "done"}

\* The request is one that is asked, and every variable has its type.
RequestInv ==
  /\ req \in Asked
  /\ windows \in Seq(Windows) /\ windows # <<>>
  /\ IF req.tmux THEN req.op = "match" ELSE req.target.pid \in Pids

ShapeInv ==
  /\ seen \in Seq(Observations) /\ Len(seen) <= Len(windows)
  /\ target \in Targets
  /\ queue \in Seq(Pids) /\ visited \in SUBSET Pids /\ kept \in Seq(Nodes)
  /\ step \in ScanSteps \cup TargetSteps \cup {"clients"}
  /\ node \in Reads
  /\ late \in BOOLEAN

\* Where the scan may be: at a process of a window or of a target without
\* tmux, or at the clients of one.
PlaceInv ==
  /\ step \in ScanSteps => queue # <<>> /\ (~OnTarget => Here \notin visited)
  /\ step \in ScanSteps /\ OnTarget => ~req.tmux
  /\ step = "children" => ~OnTarget
  /\ step \in TargetSteps \cup {"clients"} => OnTarget
  /\ step \in {"client", "clients"} => req.tmux
  /\ step \notin TargetSteps => target = NothingSeen
  /\ step \in TargetSteps /\ req.tmux => target.errors # {}
  /\ ~req.tmux => target.clients = {}
  /\ step # "done" => answer = NoAnswer
  /\ step = "done" => answer = Resolve(req, seen, target, late)

HistoryInv ==
  /\ steady \subseteq Holding(proc)
  /\ Witnesses(proc) \subseteq shown
  /\ \A id \in shown : id \in LiveIds

\* What a node says of its parent was true, and is as long as it has one.
TrueNode(n) ==
  /\ n.id.ticks <= Born
  /\ n.parent # NoId => <<n.id, n.parent>> \in lineage
  /\ \A l \in Pairs(proc) : l[1] = n.id => l[2] = n.parent

NodesInv == \A n \in AllNodes : TrueNode(n)

\* What is known of the process at the head while it is being read.
ReadInv ==
  step \in NodeSteps =>
    /\ node.id \in LiveIds /\ node.id.pid = Here /\ node.id.ticks <= Born
    /\ proc[Here].ticks = node.id.ticks => proc[Here].parent \in {node.parent, Init0}
    /\ step \in {"cmdline", "stat again", "cmdline again", "parent"} => node.above = NoId
    /\ step = "parent" => node.parent # Init0
    /\ step = "last stat" =>
          /\ node.above = NoId <=> node.parent = Init0
          /\ \A l \in Pairs(proc) : l[1] = node.id => l[2] = node.above
    /\ step = "children" => \E n \in SeqElems(kept) : n.id = node.id

\* The way from a process up to the root of a window.
Path(i, id) ==
  {y \in Above(Pairs(proc), id) : windows[i].root \in Above(Pairs(proc), y)}

Current == Len(seen) + 1

\* The scan of a window takes every process on the way from a witness up to
\* the root: the root is taken or queued, a process below one that is taken is
\* taken or queued, and a process that is taken has its node.
ScanInv ==
  step \in ScanSteps /\ ~OnTarget =>
    /\ windows[Current].root.pid \in visited \cup SeqElems(queue)
    /\ Distinct(kept)
    /\ \A n \in SeqElems(kept) :
          n.id.pid \in visited \/ (step = "children" /\ n.id.pid = Here)
    /\ \A s \in steady : s[1] = Current =>
          \A y \in Path(Current, s[2]) :
            /\ step \in NodeSteps /\ y.pid = Here => node.id = y
            /\ y.pid \in visited => \E n \in SeqElems(kept) : n.id = y
            /\ y.pid \in visited =>
                 \A x \in Path(Current, s[2]) :
                   <<x, y>> \in Pairs(proc) => x.pid \in visited \cup SeqElems(queue)

\* A sound observation has a node of everything on such a way.
Covers(i, nodes) ==
  \A s \in steady : s[1] = i =>
    \A y \in Path(i, s[2]) : \E n \in SeqElems(nodes) : n.id = y

SeenInv ==
  \A i \in DOMAIN seen :
    /\ seen[i].window = windows[i]
    /\ seen[i].state = "complete" <=> seen[i].errors = {}
    /\ Distinct(seen[i].nodes)
    /\ Sound(seen[i]) => Covers(i, seen[i].nodes)

\* A tmux client that was listed at the pane was one when it was listed, or
\* has begun since then, later than everything that was read.
Later(id) ==
  id \in shown \/ \A i \in DOMAIN seen : \A n \in SeqElems(seen[i].nodes) : n.id.ticks < id.ticks

\* A steady client is listed at the pane, and identified unless an error says
\* that some client was not, or it is still queued.
ClientInv ==
  req.tmux =>
    /\ \A c \in target.clients : c.shows =>
          IF c.process.ticks # NoTicks THEN Later(c.process)
          ELSE Exists(c.process.pid) => Later(Identity(c.process.pid))
    /\ step \in TargetSteps /\ ~Retryable(target.errors) =>
          \A s \in steady : \E c \in target.clients :
            /\ c.shows
            /\ \/ c.process = s[2]
               \/ /\ step = "client" /\ s[2].pid \in SeqElems(queue)
                  /\ c.process = [pid |-> s[2].pid, ticks |-> NoTicks]
    /\ step = "client" =>
          /\ queue # <<>>
          /\ \A i, j \in DOMAIN queue : queue[i] = queue[j] => i = j
          /\ \A p \in SeqElems(queue) :
                \E c \in target.clients : c.process = [pid |-> p, ticks |-> NoTicks]
          /\ \A c, d \in target.clients :
                c.process = d.process /\ c.process.ticks = NoTicks => c = d

IInv ==
  /\ KernelInv /\ RequestInv /\ ShapeInv /\ PlaceInv /\ HistoryInv /\ NodesInv
  /\ ReadInv /\ ScanInv /\ SeenInv /\ ClientInv

-----------------------------------------------------------------------------
(* Climbing in the table while it changes.                                 *)

\* All above a running process run, and are who they were known to be.
LEMMA AboveRuns ==
    ASSUME KernelInv, NEW id \in LiveIds, id.ticks = proc[id.pid].ticks,
           ~proc[id.pid].zombie, NEW y \in Above(Pairs(proc), id)
    PROVE  y \in LiveIds /\ y = Identity(y.pid) /\ Running(y.pid)
<1> DEFINE T == {i \in LiveIds : i = Identity(i.pid) /\ Running(i.pid)}
<1>1. id \in T
  BY DEF LiveIds, Identity, Running, Exists, NoTicks
<1>2. ASSUME NEW l \in Pairs(proc), l[1] \in T
      PROVE  l[2] \in T
  <2>1. PICK c \in Pids :
          /\ proc[c].ticks # NoTicks /\ proc[c].parent # Init0
          /\ l = <<[pid |-> c, ticks |-> proc[c].ticks],
                   [pid |-> proc[c].parent, ticks |-> proc[proc[c].parent].ticks]>>
    BY PairMeans
  <2>2. /\ proc[c].parent \in Pids /\ Running(proc[c].parent)
        /\ proc[proc[c].parent].ticks \in Nat
    BY <2>1, ParentFacts
  <2> QED BY <2>1, <2>2 DEF LiveIds, Identity, Running, Exists, NoTicks
<1> HIDE DEF T
<1>3. Above(Pairs(proc), id) \subseteq T
  BY <1>1, <1>2, AboveMin
<1> QED BY <1>3 DEF T

LEMMA WitnessFacts ==
    ASSUME KernelInv, NEW id \in Witnesses(proc)
    PROVE  /\ id \in LiveIds /\ id.ticks = proc[id.pid].ticks /\ ~proc[id.pid].zombie
           /\ id.ticks <= Born /\ id = Identity(id.pid) /\ Exists(id.pid)
<1>1. PICK p \in Pids : id = [pid |-> p, ticks |-> proc[p].ticks] /\ Witness(proc, id)
  BY DEF Witnesses
<1>2. proc[p].ticks \in Nat /\ proc[p].ticks <= Born
  BY DEF KernelInv, Forest, Entries, Born
<1> QED BY <1>1, <1>2 DEF Witness, LiveIds, NoTicks, Identity, Exists

\* The members of a path are running processes.
LEMMA PathFacts ==
    ASSUME KernelInv, HistoryInv, NEW s \in steady, NEW y \in Path(s[1], s[2])
    PROVE  /\ s[1] \in DOMAIN windows /\ s[2] \in Witnesses(proc)
           /\ windows[s[1]].root \in Above(Pairs(proc), s[2])
           /\ y \in LiveIds /\ y = Identity(y.pid) /\ Running(y.pid) /\ y.ticks <= Born
<1>1. s[1] \in DOMAIN windows /\ s[2] \in Witnesses(proc)
      /\ windows[s[1]].root \in Above(Pairs(proc), s[2])
  BY DEF HistoryInv, Holding
<1>2. y \in LiveIds /\ y = Identity(y.pid) /\ Running(y.pid)
  BY <1>1, WitnessFacts, AboveRuns DEF Path
<1>3. y.ticks <= Born
  BY <1>2 DEF KernelInv, Forest, Born, LiveIds, Identity
<1> QED BY <1>1, <1>2, <1>3

\* What is above a process after a step of the kernel was above it before.
LEMMA AboveWas ==
    ASSUME KernelInv, Kernel, NEW x, x.ticks \in Nat, x.ticks <= Born,
           NEW y \in Above(Pairs(proc'), x)
    PROVE  y \in Above(Pairs(proc), x) /\ y.ticks \in Nat /\ y.ticks <= Born
<1> DEFINE T == {z \in Above(Pairs(proc), x) : z.ticks \in Nat /\ z.ticks <= Born}
<1>0. Born \in Nat
  BY PidFacts DEF KernelInv, Born
<1>1. x \in T
  BY AboveSelf
<1>2. ASSUME NEW l \in Pairs(proc'), l[1] \in T
      PROVE  l[2] \in T
  <2>1. l \in Pairs(proc)
    BY <1>2, LinkWasThere
  <2>2. l[2] \in Above(Pairs(proc), x)
    BY <1>2, <2>1, AboveStep
  <2>3. l[2].ticks \in Nat /\ l[2].ticks < l[1].ticks
    BY <2>1 DEF KernelInv
  <2> QED BY <1>0, <1>2, <2>2, <2>3
<1> HIDE DEF T
<1>3. Above(Pairs(proc'), x) \subseteq T
  BY <1>1, <1>2, AboveMin
<1> QED BY <1>3 DEF T

\* The paths of what is still steady do not grow.
LEMMA PathStep ==
    ASSUME KernelInv, HistoryInv, ProcessesGoOn, NEW s \in steady',
           NEW y \in Path(s[1], s[2])'
    PROVE  s \in steady /\ y \in Path(s[1], s[2])
<1>1. s \in steady /\ Kernel /\ UNCHANGED windows
  BY DEF ProcessesGoOn
<1>2. s[2] \in Witnesses(proc)
  BY <1>1 DEF HistoryInv, Holding
<1>3. s[2].ticks \in Nat /\ s[2].ticks <= Born
  BY <1>2, WitnessFacts DEF LiveIds
<1>4. y \in Above(Pairs(proc), s[2]) /\ y.ticks \in Nat /\ y.ticks <= Born
  BY <1>1, <1>3, AboveWas DEF Path
<1>5. windows[s[1]].root \in Above(Pairs(proc), y)
  BY <1>1, <1>4, AboveWas DEF Path
<1> QED BY <1>1, <1>4, <1>5 DEF Path

-----------------------------------------------------------------------------
(* The invariant holds at first.                                           *)

LEMMA InitInv == Init => IInv
<1> SUFFICES ASSUME Init PROVE IInv
  OBVIOUS
<1>0. PICK r \in Requests :
        /\ ProcInit(r.table)
        /\ req = r.req /\ windows = r.windows
        /\ seen = <<>> /\ target = NothingSeen
        /\ queue = <<r.windows[1].root.pid>> /\ visited = {} /\ kept = <<>>
        /\ step = "stat" /\ node = NoNode
        /\ late = FALSE /\ answer = NoAnswer
        /\ steady = Holding(r.table)
        /\ shown = Witnesses(r.table)
  BY DEF Init
<1>1. /\ Forest(proc, 0) /\ proc = r.table /\ churn = 0 /\ lineage = Pairs(proc)
      /\ RequestInv
  BY <1>0, ScanAssumption DEF ProcInit, RequestInv
<1>2. ASSUME NEW l \in Pairs(proc)
      PROVE  /\ l[1].ticks \in Nat /\ l[2].ticks \in Nat
             /\ l[2].ticks < l[1].ticks /\ l[1].ticks <= Born
  <2>1. PICK c \in Pids :
          /\ proc[c].ticks # NoTicks /\ proc[c].parent # Init0
          /\ l = <<[pid |-> c, ticks |-> proc[c].ticks],
                   [pid |-> proc[c].parent, ticks |-> proc[proc[c].parent].ticks]>>
    BY PairMeans
  <2>2. /\ proc[c].ticks \in Nat /\ proc[c].ticks <= Born
        /\ proc[c].parent \in Pids
        /\ proc[proc[c].parent].ticks \in Nat
        /\ proc[proc[c].parent].ticks < proc[c].ticks
    BY <1>1, <2>1, PidFacts DEF Forest, Entries, Born
  <2> QED BY <2>1, <2>2
<1>3. KernelInv
  BY <1>1, <1>2 DEF KernelInv
<1>4. HistoryInv
  <2>1. Witnesses(proc) \subseteq LiveIds
    BY <1>3, WitnessFacts
  <2> QED BY <1>0, <1>1, <2>1 DEF HistoryInv
<1>5. windows[1] \in Windows /\ windows[1].root.pid \in Pids /\ Len(windows) >= 1
  <2>1. windows \in Seq(Windows) /\ windows # <<>>
    BY <1>1 DEF RequestInv
  <2>2. windows[1] \in Windows /\ Len(windows) >= 1
    BY <2>1
  <2> QED BY <2>2 DEF Windows
<1>6. NothingSeen \in Targets /\ NoNode \in Reads
  BY DEF NothingSeen, TargetSeen, Targets, ReadStates, NoNode, Reads, Links
<1>7. ShapeInv
  <2>1. queue \in Seq(Pids)
    BY <1>0, <1>5
  <2>2. seen \in Seq(Observations) /\ kept \in Seq(Nodes) /\ Len(seen) = 0
    BY <1>0
  <2>3. Len(seen) <= Len(windows)
    BY <1>5, <2>2, <1>1 DEF RequestInv
  <2>4. visited \in SUBSET Pids /\ late \in BOOLEAN
        /\ step \in ScanSteps \cup TargetSteps \cup {"clients"}
    BY <1>0 DEF ScanSteps
  <2> QED BY <1>0, <1>6, <2>1, <2>2, <2>3, <2>4 DEF ShapeInv
<1>8. queue # <<>> /\ Here = windows[1].root.pid /\ ~OnTarget
  BY <1>0, <1>5 DEF Here, OnTarget
<1>9. PlaceInv
  BY <1>0, <1>8 DEF PlaceInv, TargetSteps, NothingSeen, TargetSeen
<1>10. AllNodes = {} /\ SeqElems(kept) = {}
  BY <1>0 DEF AllNodes, SeqElems, NothingSeen, TargetSeen
<1>11. NodesInv /\ ReadInv /\ SeenInv
  BY <1>0, <1>10 DEF NodesInv, ReadInv, NodeSteps, SeenInv
<1>12. ScanInv
  BY <1>0, <1>10 DEF ScanInv, Current, SeqElems, NodeSteps, Distinct
<1>13. ClientInv
  BY <1>0 DEF ClientInv, NothingSeen, TargetSeen, TargetSteps
<1> QED BY <1>1, <1>3, <1>4, <1>7, <1>9, <1>11, <1>12, <1>13 DEF IInv

-----------------------------------------------------------------------------
(* The processes go on while one is being read.                            *)

LEMMA HereIsOne ==
    ASSUME ShapeInv, queue # <<>>
    PROVE  Here \in Pids
BY DEF ShapeInv, Here

LEMMA NodeMember ==
    ASSUME ShapeInv, NEW n \in AllNodes
    PROVE  n \in Nodes
<1>1. CASE n \in SeqElems(kept)
  BY <1>1 DEF ShapeInv, SeqElems
<1>2. CASE n \in SeqElems(target.nodes)
  <2>1. target.nodes \in Seq(Nodes)
    BY DEF ShapeInv, Targets
  <2> QED BY <1>2, <2>1 DEF SeqElems
<1>3. CASE \E i \in DOMAIN seen : n \in SeqElems(seen[i].nodes)
  <2>1. PICK i \in DOMAIN seen : n \in SeqElems(seen[i].nodes)
    BY <1>3
  <2>2. seen[i] \in Observations
    BY <2>1 DEF ShapeInv
  <2>3. seen[i].nodes \in Seq(Nodes)
    BY <2>2 DEF Observations
  <2> QED BY <2>1, <2>3 DEF SeqElems
<1> QED BY <1>1, <1>2, <1>3 DEF AllNodes

LEMMA GoOnHistory ==
    ASSUME KernelInv, HistoryInv, ProcessesGoOn
    PROVE  KernelInv' /\ HistoryInv'
<1>1. /\ Kernel /\ UNCHANGED <<windows, req>>
      /\ steady' = steady \cap Holding(proc') /\ shown' = shown \cup Witnesses(proc')
  BY DEF ProcessesGoOn
<1>2. KernelInv'
  BY <1>1, KernelStep
<1>3. Witnesses(proc)' = Witnesses(proc') /\ Holding(proc)' = Holding(proc')
  BY <1>1 DEF Holding, Witnesses, Witness
<1>4. Witnesses(proc)' \subseteq LiveIds
  <2>1. ASSUME NEW id \in Witnesses(proc)' PROVE id \in LiveIds
    <3>1. PICK p \in Pids : id = [pid |-> p, ticks |-> proc'[p].ticks] /\ Witness(proc, id)'
      BY DEF Witnesses
    <3>2. proc'[p].ticks \in Nat
      BY <1>2 DEF KernelInv, Forest, Entries
    <3> QED BY <3>1, <3>2 DEF Witness, LiveIds, NoTicks
  <2> QED BY <2>1
<1> QED BY <1>1, <1>2, <1>3, <1>4 DEF HistoryInv

LEMMA GoOnNodes ==
    ASSUME KernelInv, NodesInv, ShapeInv, ProcessesGoOn
    PROVE  NodesInv'
<1>1. Kernel /\ AllNodes' = AllNodes /\ lineage' = lineage \cup Pairs(proc')
      /\ Born' = Born + 1 /\ Born \in Nat
  BY KernelMoves, PidFacts DEF ProcessesGoOn, AllNodes, Born, KernelInv
<1>2. ASSUME NEW n \in AllNodes
      PROVE  TrueNode(n)'
  <2>1. TrueNode(n) /\ n \in Nodes
    BY NodeMember DEF NodesInv
  <2>2. n.id.ticks \in Nat
    BY <2>1 DEF Nodes, LiveIds
  <2>3. \A l \in Pairs(proc)' : l[1] = n.id => l[2] = n.parent
    BY <1>1, <2>1, <2>2, LinkWasThere DEF TrueNode
  <2>4. n.id.ticks <= Born'
    BY <1>1, <2>1, <2>2 DEF TrueNode
  <2> QED BY <1>1, <2>1, <2>3, <2>4 DEF TrueNode
<1> QED BY <1>1, <1>2 DEF NodesInv

LEMMA GoOnRead ==
    ASSUME KernelInv, ReadInv, ShapeInv, PlaceInv, ProcessesGoOn
    PROVE  ReadInv'
<1>1. Kernel /\ UNCHANGED <<step, node, queue, kept>>
  BY DEF ProcessesGoOn
<1>2. Here' = Here /\ Born \in Nat /\ Born' = Born + 1
  BY <1>1, KernelMoves, PidFacts DEF Here, Born, KernelInv
<1>3. SUFFICES ASSUME step \in NodeSteps
      PROVE  /\ node.id.ticks <= Born'
             /\ proc'[Here].ticks = node.id.ticks => proc'[Here].parent \in {node.parent, Init0}
             /\ step = "last stat" =>
                   \A l \in Pairs(proc)' : l[1] = node.id => l[2] = node.above
  BY <1>1, <1>2 DEF ReadInv
<1>4. Here \in Pids
  BY <1>3, HereIsOne DEF PlaceInv, ScanSteps
<1>5. node.id.ticks \in Nat \ {0} /\ node.id.ticks <= Born
  BY <1>3 DEF ReadInv, LiveIds
<1>6. Moves(Here)
  BY <1>1, <1>4, KernelMoves
<1>7. ASSUME proc'[Here].ticks = node.id.ticks
      PROVE  proc'[Here].parent \in {node.parent, Init0}
  <2>1. proc'[Here].ticks # NoTicks /\ proc'[Here].ticks # Born + 1
    BY <1>2, <1>5, <1>7 DEF NoTicks
  <2>2. proc[Here].ticks = node.id.ticks /\ proc'[Here].parent \in {proc[Here].parent, Init0}
    BY <1>6, <1>7, <2>1 DEF Moves
  <2> QED BY <1>3, <2>2 DEF ReadInv
<1>8. ASSUME step = "last stat", NEW l \in Pairs(proc'), l[1] = node.id
      PROVE  l[2] = node.above
  BY <1>1, <1>3, <1>5, <1>8, LinkWasThere DEF ReadInv
<1>9. node.id.ticks <= Born'
  BY <1>2, <1>5
<1> QED BY <1>7, <1>8, <1>9

LEMMA GoOnScan ==
    ASSUME KernelInv, HistoryInv, ScanInv, ProcessesGoOn
    PROVE  ScanInv'
<1>1. Kernel /\ UNCHANGED <<windows, seen, step, node, queue, visited, kept>>
  BY DEF ProcessesGoOn
<1>2. SUFFICES ASSUME step \in ScanSteps, ~OnTarget,
                      NEW s \in steady', s[1] = Current, NEW y \in Path(Current, s[2])'
               PROVE  /\ step \in NodeSteps /\ y.pid = Here => node.id = y
                      /\ y.pid \in visited => \E n \in SeqElems(kept) : n.id = y
                      /\ y.pid \in visited =>
                           \A x \in Path(Current, s[2])' :
                             <<x, y>> \in Pairs(proc') =>
                               x.pid \in visited \cup SeqElems(queue)
  BY <1>1 DEF ScanInv, OnTarget, Current, Here
<1>3. s \in steady /\ y \in Path(Current, s[2])
  BY <1>1, <1>2, PathStep DEF Current
<1>4. ASSUME NEW x \in Path(Current, s[2])', <<x, y>> \in Pairs(proc')
      PROVE  x \in Path(Current, s[2]) /\ <<x, y>> \in Pairs(proc)
  <2>1. x \in Path(Current, s[2])
    BY <1>1, <1>2, <1>4, PathStep DEF Current
  <2>2. x.ticks <= Born
    BY <1>2, <1>3, <2>1, PathFacts
  <2> QED BY <1>1, <1>4, <2>1, <2>2, LinkWasThere
<1> QED BY <1>2, <1>3, <1>4 DEF ScanInv

LEMMA GoOnSeen ==
    ASSUME KernelInv, HistoryInv, SeenInv, ProcessesGoOn
    PROVE  SeenInv'
<1>1. UNCHANGED <<windows, seen>>
  BY DEF ProcessesGoOn
<1>2. ASSUME NEW i \in DOMAIN seen, Covers(i, seen[i].nodes)
      PROVE  Covers(i, seen[i].nodes)'
  <2>1. SUFFICES ASSUME NEW s \in steady', s[1] = i, NEW y \in Path(i, s[2])'
                 PROVE  \E n \in SeqElems(seen[i].nodes) : n.id = y
    BY <1>1 DEF Covers
  <2>2. s \in steady /\ y \in Path(i, s[2])
    BY <2>1, PathStep
  <2> QED BY <1>2, <2>1, <2>2 DEF Covers
<1> QED BY <1>1, <1>2 DEF SeenInv, Sound

LEMMA GoOnClients ==
    ASSUME KernelInv, ShapeInv, NodesInv, ClientInv, ProcessesGoOn
    PROVE  ClientInv'
<1>1. Kernel /\ UNCHANGED <<req, seen, target, queue, step>>
      /\ steady' \subseteq steady /\ shown \subseteq shown'
  BY DEF ProcessesGoOn
<1>2. ASSUME NEW id, Later(id)
      PROVE  Later(id)'
  BY <1>1, <1>2 DEF Later
<1>3. ASSUME NEW c \in target.clients, c.shows, c.process.ticks = NoTicks,
             Exists(c.process.pid) => Later(Identity(c.process.pid)),
             Exists(c.process.pid)'
      PROVE  Later(Identity(c.process.pid))'
  <2> DEFINE p == c.process.pid
  <2>1. p \in Pids
    BY DEF ShapeInv, Targets, Rows
  <2>2. Moves(p) /\ proc'[p].ticks # NoTicks
    BY <1>1, <1>3, <2>1, KernelMoves DEF Exists
  <2>3. CASE proc'[p].ticks = Born + 1
    <3>1. ASSUME NEW i \in DOMAIN seen, NEW n \in SeqElems(seen[i].nodes)
          PROVE  n.id.ticks < Born + 1
      <4>1. n \in AllNodes
        BY DEF AllNodes
      <4>2. n.id.ticks \in Nat /\ n.id.ticks <= Born
        BY <4>1, NodeMember DEF NodesInv, TrueNode, Nodes, LiveIds
      <4>3. Born \in Nat
        BY PidFacts DEF KernelInv, Born
      <4> QED BY <4>2, <4>3
    <3> QED BY <1>1, <2>3, <3>1 DEF Later, Identity
  <2>4. CASE proc'[p].ticks = proc[p].ticks
    <3>1. Exists(p) /\ Identity(p)' = Identity(p)
      BY <2>1, <2>2, <2>4 DEF Exists, Identity
    <3> QED BY <1>2, <1>3, <3>1
  <2> QED BY <2>2, <2>3, <2>4 DEF Moves
<1> QED BY <1>1, <1>2, <1>3 DEF ClientInv

LEMMA GoOnKeeps ==
    ASSUME IInv, ProcessesGoOn
    PROVE  IInv'
<1>1. UNCHANGED <<req, windows, seen, target, queue, visited, kept, step, node, late,
                  answer>>
  BY DEF ProcessesGoOn
<1>2. RequestInv' /\ ShapeInv'
  BY <1>1 DEF IInv, RequestInv, ShapeInv
<1>3. PlaceInv'
  BY <1>1 DEF IInv, PlaceInv, OnTarget, Here
<1> QED BY <1>2, <1>3, GoOnHistory, GoOnNodes, GoOnRead, GoOnScan, GoOnSeen, GoOnClients
        DEF IInv

LEMMA DeadlineKeeps ==
    ASSUME IInv, DeadlinePasses
    PROVE  IInv'
<1>1. /\ step # "done" /\ late' = TRUE
      /\ UNCHANGED <<procVars, req, windows, seen, target, queue, visited, kept, step,
                     node, answer, steady, shown>>
  BY DEF DeadlinePasses
<1>2. KernelInv' /\ RequestInv' /\ HistoryInv'
  BY <1>1 DEF IInv, procVars, KernelInv, Born, RequestInv, HistoryInv, Holding, Witnesses,
              Witness
<1>3. ShapeInv' /\ PlaceInv'
  BY <1>1 DEF IInv, ShapeInv, PlaceInv, OnTarget, Here
<1>4. NodesInv' /\ ReadInv'
  <2>1. Born' = Born /\ AllNodes' = AllNodes /\ Here' = Here
        /\ UNCHANGED <<proc, lineage, step, node, kept>>
    BY <1>1 DEF procVars, Born, AllNodes, Here
  <2>2. \A n : TrueNode(n) => TrueNode(n)'
    BY <2>1 DEF TrueNode
  <2>3. NodesInv'
    BY <2>1, <2>2 DEF IInv, NodesInv
  <2> QED BY <2>1, <2>3 DEF IInv, ReadInv
<1>5. ScanInv' /\ SeenInv' /\ ClientInv'
  BY <1>1 DEF IInv, procVars, ScanInv, OnTarget, Current, Here, Path, SeenInv, Covers,
              ClientInv, Later, Exists, Identity
<1> QED BY <1>2, <1>3, <1>4, <1>5 DEF IInv

-----------------------------------------------------------------------------
(* The reads.  They leave the table and what is remembered of it.          *)

LEMMA ReadingKeeps ==
    ASSUME IInv, Reading
    PROVE  /\ KernelInv' /\ RequestInv' /\ HistoryInv'
           /\ \A n : TrueNode(n)' <=> TrueNode(n)
           /\ \A i, id : Path(i, id)' = Path(i, id)
           /\ \A i, nodes : Covers(i, nodes)' <=> Covers(i, nodes)
<1>1. UNCHANGED <<proc, churn, lineage, req, windows, late, answer, steady, shown>>
  BY DEF Reading, procVars
<1>2. KernelInv' /\ RequestInv' /\ HistoryInv'
  BY <1>1 DEF IInv, KernelInv, Born, RequestInv, HistoryInv, Holding, Witnesses, Witness
<1>3. \A n : TrueNode(n)' <=> TrueNode(n)
  BY <1>1 DEF TrueNode, Born
<1>4. \A i, id : Path(i, id)' = Path(i, id)
  BY <1>1 DEF Path
<1> QED BY <1>1, <1>2, <1>3, <1>4 DEF Covers

LEMMA NothingYet ==
    ASSUME PlaceInv, step \notin TargetSteps
    PROVE  target.clients = {} /\ target.nodes = <<>> /\ target.errors = {}
BY DEF PlaceInv, NothingSeen, TargetSeen

\* A read of the process at the head that leads to another one.
LEMMA NodeKeeps ==
    ASSUME IInv, Reading, Stays, step \in ScanSteps \ {"children"},
           step' \in NodeSteps \ {"children"}, node' \in Reads,
           node'.id = IF step = "stat" THEN Identity(Here) ELSE node.id,
           ReadInv'
    PROVE  IInv'
<1>1. UNCHANGED <<req, windows, seen, target, queue, visited, kept, late, answer, steady>>
  BY DEF Reading, Stays
<1>2. ShapeInv'
  BY <1>1 DEF IInv, ShapeInv, ScanSteps
<1>3. PlaceInv'
  BY <1>1 DEF IInv, PlaceInv, OnTarget, Here, NodeSteps, ScanSteps, TargetSteps
<1>4. NodesInv' /\ SeenInv'
  BY <1>1, ReadingKeeps DEF IInv, NodesInv, AllNodes, SeenInv, Sound
<1>5. ClientInv'
  <2>1. step \notin TargetSteps
    BY DEF ScanSteps, NodeSteps, TargetSteps
  <2>2. target.clients = {}
    BY <2>1, NothingYet DEF IInv
  <2> QED BY <1>1, <2>2 DEF ClientInv, TargetSteps, NodeSteps
<1>6. ScanInv'
  <2>1. SUFFICES ASSUME ~OnTarget
                 PROVE  ScanInv'
    BY <1>1 DEF ScanInv, OnTarget
  <2>2. ASSUME NEW s \in steady, s[1] = Current, NEW y \in Path(Current, s[2]), y.pid = Here
        PROVE  node'.id = y
    <3>1. y = Identity(y.pid)
      BY <2>2, PathFacts DEF IInv
    <3>2. CASE step = "stat"
      BY <2>2, <3>1, <3>2
    <3>3. CASE step # "stat"
      BY <2>1, <2>2, <3>3 DEF IInv, ScanInv, ScanSteps
    <3> QED BY <3>2, <3>3
  <2>3. Current' = Current /\ Here' = Here /\ step' # "children"
    BY <1>1 DEF Current, Here
  <2>4. proc' = proc
    BY DEF Reading, procVars
  <2> QED BY <1>1, <2>1, <2>2, <2>3, <2>4, ReadingKeeps DEF IInv, ScanInv
<1> QED BY <1>2, <1>3, <1>4, <1>5, <1>6, ReadingKeeps DEF IInv

\* The end of the collection.
LEMMA TargetKeeps ==
    ASSUME IInv, Reading, NEW t \in Targets, TargetObserved(t),
           step \notin TargetSteps, OnTarget,
           t.clients = {},
           \A n \in SeqElems(t.nodes) : TrueNode(n),
           req.tmux => t.errors # {},
           req.tmux /\ ~Retryable(t.errors) => steady = {}
    PROVE  IInv'
<1>1. /\ UNCHANGED <<req, windows, seen, visited, kept, late, answer, steady>>
      /\ target' = t /\ step' = "decide" /\ queue' = <<>> /\ node' = NoNode
  BY DEF Reading, TargetObserved
<1>2. ShapeInv'
  <2>1. NoNode \in Reads /\ queue' \in Seq(Pids)
    BY <1>1 DEF NoNode, Reads, Links
  <2> QED BY <1>1, <2>1 DEF IInv, ShapeInv, TargetSteps
<1>3. PlaceInv'
  BY <1>1 DEF IInv, PlaceInv, OnTarget, Here, NodeSteps, ScanSteps, TargetSteps
<1>4. NodesInv'
  <2>1. AllNodes' \subseteq AllNodes \cup SeqElems(t.nodes)
    BY <1>1 DEF AllNodes
  <2> QED BY <2>1, ReadingKeeps DEF IInv, NodesInv
<1>5. SeenInv'
  BY <1>1, ReadingKeeps DEF IInv, SeenInv, Sound
<1>6. ReadInv' /\ ScanInv'
  BY <1>1 DEF ReadInv, ScanInv, NodeSteps, ScanSteps
<1>7. ClientInv'
  BY <1>1 DEF ClientInv
<1> QED BY <1>2, <1>3, <1>4, <1>5, <1>6, <1>7, ReadingKeeps DEF IInv

LEMMA AppendElems ==
    ASSUME NEW S, NEW s \in Seq(S), NEW e \in S
    PROVE  /\ Append(s, e) \in Seq(S) /\ Len(Append(s, e)) = Len(s) + 1
           /\ DOMAIN Append(s, e) = DOMAIN s \cup {Len(s) + 1}
           /\ \A i \in DOMAIN s : Append(s, e)[i] = s[i]
           /\ Append(s, e)[Len(s) + 1] = e
           /\ SeqElems(Append(s, e)) = SeqElems(s) \cup {e}
<1>1. /\ Append(s, e) \in Seq(S) /\ Len(Append(s, e)) = Len(s) + 1
      /\ DOMAIN Append(s, e) = DOMAIN s \cup {Len(s) + 1}
      /\ \A i \in DOMAIN s : Append(s, e)[i] = s[i]
      /\ Append(s, e)[Len(s) + 1] = e
  OBVIOUS
<1> QED BY <1>1 DEF SeqElems

LEMMA NoElems == SeqElems(<<>>) = {}
BY DEF SeqElems

LEMMA OneElem ==
    ASSUME NEW S, NEW e \in S
    PROVE  <<e>> \in Seq(S) /\ SeqElems(<<e>>) = {e}
<1>1. DOMAIN <<e>> = {1} /\ <<e>>[1] = e /\ <<e>> \in Seq(S)
  OBVIOUS
<1> QED BY <1>1 DEF SeqElems

\* The end of the observation of a window.
LEMMA ObservedKeeps ==
    ASSUME IInv, Reading, NEW obs \in Observations, Observed(obs),
           step \in ScanSteps, ~OnTarget,
           obs.window = windows[Current],
           obs.state = "complete" <=> obs.errors = {},
           Distinct(obs.nodes),
           SeqElems(obs.nodes) \subseteq SeqElems(kept),
           Sound(obs) => Covers(Current, obs.nodes)
    PROVE  IInv'
<1>1. /\ UNCHANGED <<req, windows, target, late, answer, steady>>
      /\ seen' = Append(seen, obs)
      /\ visited' = {} /\ kept' = <<>> /\ node' = NoNode
      /\ IF Len(seen) + 1 < Len(windows)
         THEN queue' = <<windows[Len(seen) + 2].root.pid>> /\ step' = "stat"
         ELSE /\ queue' = IF req.tmux THEN <<>> ELSE <<req.target.pid>>
              /\ step' = IF req.tmux THEN "clients" ELSE "stat"
  BY DEF Reading, Observed
<1>2. /\ seen \in Seq(Observations) /\ Len(seen) \in Nat /\ Len(windows) \in Nat
      /\ Len(seen) < Len(windows)
      /\ seen' \in Seq(Observations) /\ Len(seen') = Len(seen) + 1
      /\ DOMAIN seen' = DOMAIN seen \cup {Current}
      /\ \A i \in DOMAIN seen : seen'[i] = seen[i]
      /\ seen'[Current] = obs
  <2>1. seen \in Seq(Observations) /\ Len(seen) <= Len(windows) /\ windows \in Seq(Windows)
    BY DEF IInv, ShapeInv, RequestInv
  <2>2. Len(seen) \in Nat /\ Len(windows) \in Nat /\ Len(seen) < Len(windows)
    BY <2>1 DEF OnTarget
  <2> QED BY <1>1, <2>1, <2>2, AppendElems DEF Current
<1>3. queue' \in Seq(Pids)
  <2>1. ASSUME Len(seen) + 1 < Len(windows)
        PROVE  windows[Len(seen) + 2].root.pid \in Pids
    <3>1. windows[Len(seen) + 2] \in Windows
      BY <1>2, <2>1 DEF IInv, RequestInv
    <3> QED BY <3>1 DEF Windows
  <2>2. ~req.tmux => req.target.pid \in Pids
    BY DEF IInv, RequestInv
  <2>3. CASE Len(seen) + 1 < Len(windows)
    <3>1. queue' = <<windows[Len(seen) + 2].root.pid>>
      BY <1>1, <2>3
    <3> QED BY <2>1, <2>3, <3>1
  <2>4. CASE ~(Len(seen) + 1 < Len(windows))
    <3>1. queue' = IF req.tmux THEN <<>> ELSE <<req.target.pid>>
      BY <1>1, <2>4
    <3> QED BY <2>2, <3>1
  <2> QED BY <2>3, <2>4
<1>4. ShapeInv'
  <2>1. NoNode \in Reads
    BY DEF NoNode, Reads, Links
  <2>2. kept' \in Seq(Nodes)
    BY <1>1
  <2>3. Len(seen') <= Len(windows')
    BY <1>1, <1>2
  <2>4. step' \in {"stat", "clients"}
    BY <1>1
  <2> QED BY <1>1, <1>2, <1>3, <2>1, <2>2, <2>3, <2>4 DEF IInv, ShapeInv, ScanSteps
<1>5. step' \in {"stat", "clients"} /\ (step' = "clients" <=> OnTarget' /\ req.tmux)
      /\ step \notin TargetSteps /\ step # "done"
  <2>1. OnTarget' <=> ~(Len(seen) + 1 < Len(windows))
    BY <1>1, <1>2 DEF OnTarget
  <2>2. step \notin TargetSteps /\ step # "done"
    BY DEF ScanSteps, NodeSteps, TargetSteps
  <2> QED BY <1>1, <2>1, <2>2
<1>6. PlaceInv'
  <2>1. step' = "stat" => queue' # <<>>
    <3>1. \A p : <<p>> # <<>>
      OBVIOUS
    <3>2. CASE Len(seen) + 1 < Len(windows)
      BY <1>1, <3>1, <3>2
    <3>3. CASE ~(Len(seen) + 1 < Len(windows))
      BY <1>1, <3>1, <3>3
    <3> QED BY <3>2, <3>3
  <2>2. target' = NothingSeen /\ answer' = NoAnswer /\ target'.clients = {}
    BY <1>1, <1>5, NothingYet DEF IInv, PlaceInv
  <2>3. step' \notin TargetSteps /\ step' # "done" /\ step' # "children"
        /\ (step' \in ScanSteps => step' = "stat")
    BY <1>5 DEF TargetSteps, ScanSteps, NodeSteps
  <2>4. visited' = {}
    BY <1>1
  <2>5. step' \in ScanSteps => queue' # <<>> /\ Here' \notin visited'
    BY <2>1, <2>3, <2>4
  <2>6. step' \in ScanSteps /\ OnTarget' => ~req.tmux
    BY <1>5, <2>3
  <2> QED BY <1>1, <1>5, <2>2, <2>3, <2>5, <2>6 DEF PlaceInv
<1>7. NodesInv'
  <2>1. AllNodes' \subseteq AllNodes
    <3>1. SeqElems(kept)' = {}
      BY <1>1 DEF SeqElems
    <3> QED BY <1>1, <1>2, <3>1 DEF AllNodes
  <2> QED BY <2>1, ReadingKeeps DEF IInv, NodesInv
<1>8. SeenInv'
  <2>1. ASSUME NEW i \in DOMAIN seen'
        PROVE  /\ seen'[i].window = windows[i]
               /\ seen'[i].state = "complete" <=> seen'[i].errors = {}
               /\ Distinct(seen'[i].nodes)
               /\ Sound(seen'[i]) => Covers(i, seen'[i].nodes)
    BY <1>2, <2>1 DEF IInv, SeenInv
  <2> QED BY <1>1, <2>1, ReadingKeeps DEF SeenInv, Sound
<1>9. ReadInv'
  BY <1>5 DEF ReadInv, NodeSteps
<1>10. ScanInv'
  <2>1. SUFFICES ASSUME step' = "stat", ~OnTarget'
                 PROVE  ScanInv'
    BY <1>5 DEF ScanInv, ScanSteps, NodeSteps
  <2>2. Len(seen) + 1 < Len(windows)
    BY <1>1, <1>2, <2>1 DEF OnTarget
  <2>3. queue' = <<windows[Current'].root.pid>>
    BY <1>1, <1>2, <2>2 DEF Current
  <2>4. windows'[Current'].root.pid \in SeqElems(queue)'
    BY <1>1, <2>3 DEF SeqElems
  <2>5. visited' = {} /\ SeqElems(kept)' = {} /\ Distinct(kept)'
    BY <1>1 DEF SeqElems, Distinct
  <2> QED BY <2>1, <2>4, <2>5 DEF ScanInv, NodeSteps
<1>11. ClientInv'
  BY <1>1, <1>5, NothingYet DEF IInv, ClientInv, TargetSteps
<1> QED BY <1>4, <1>6, <1>7, <1>8, <1>9, <1>10, <1>11, ReadingKeeps DEF IInv

\* A read that fails ends the observation with an error; what was read of the
\* window counts for a match.
LEMMA FailedKeeps ==
    ASSUME IInv, Reading, NEW error \in Errors, Failed(error),
           step \in ScanSteps \cup {"clients"},
           req.tmux /\ OnTarget => error.retryable
    PROVE  IInv'
<1>1. CASE OnTarget
  <2> DEFINE t == TargetSeen(IF error.retryable THEN "unreachable" ELSE "partial",
                             {error}, <<>>, {})
  <2>1. TargetObserved(t)
    BY <1>1 DEF Failed
  <2>2. t \in Targets /\ t.clients = {} /\ t.nodes = <<>> /\ t.errors = {error}
    BY DEF TargetSeen, Targets, ReadStates
  <2>3. step \notin TargetSteps
    BY DEF TargetSteps, ScanSteps, NodeSteps
  <2>4. SeqElems(t.nodes) = {}
    BY <2>2 DEF SeqElems
  <2>5. req.tmux => Retryable(t.errors)
    BY <1>1, <2>2 DEF Retryable
  <2> HIDE DEF t
  <2> QED BY <1>1, <2>1, <2>2, <2>3, <2>4, <2>5, TargetKeeps
<1>2. CASE ~OnTarget
  <2> DEFINE nodes == IF req.op = "match" THEN kept ELSE <<>>
             obs == WindowSeen(IF error.code = "deadline_exceeded" THEN "unreachable"
                               ELSE "partial", nodes, {error})
  <2>1. Observed(obs)
    BY <1>2 DEF Failed
  <2>2. step \in ScanSteps
    BY <1>2 DEF IInv, PlaceInv
  <2>3. nodes \in Seq(Nodes) /\ Distinct(nodes) /\ SeqElems(nodes) \subseteq SeqElems(kept)
    BY <1>2, <2>2 DEF IInv, ShapeInv, ScanInv, Distinct, SeqElems
  <2>4. windows[Current] \in Windows
    <3>1. seen \in Seq(Observations) /\ Len(seen) <= Len(windows) /\ windows \in Seq(Windows)
      BY DEF IInv, ShapeInv, RequestInv
    <3> QED BY <1>2, <3>1 DEF OnTarget, Current
  <2>5. /\ obs.window = windows[Current] /\ obs.nodes = nodes /\ obs.errors = {error}
        /\ obs.state \in ReadStates \ {"complete"} /\ obs \in Observations
    BY <2>3, <2>4 DEF WindowSeen, Current, ReadStates, Observations
  <2>6. ~Sound(obs)
    BY <2>5 DEF Sound
  <2> HIDE DEF obs
  <2> QED BY <1>2, <2>1, <2>2, <2>3, <2>5, <2>6, ObservedKeeps
<1> QED BY <1>1, <1>2

LEMMA RestOf ==
    ASSUME NEW S, NEW s \in Seq(S), NEW i \in DOMAIN s, NEW q, q = SubSeq(s, i, Len(s))
    PROVE  /\ q \in Seq(S) /\ q # <<>> /\ Head(q) = s[i]
           /\ \A j \in i..Len(s) : s[j] \in SeqElems(q)
<1>1. i \in Nat /\ i >= 1 /\ i <= Len(s) /\ Len(s) \in Nat
  OBVIOUS
<1>2. q = [k \in 1..(Len(s) - i + 1) |-> s[i + k - 1]]
  BY <1>1
<1>3. \A k \in 1..(Len(s) - i + 1) : i + k - 1 \in 1..Len(s)
  BY <1>1
<1>4. q \in Seq(S) /\ Len(q) = Len(s) - i + 1
  <2>1. \A k \in 1..(Len(s) - i + 1) : s[i + k - 1] \in S
    BY <1>3
  <2>2. Len(s) - i + 1 \in Nat
    BY <1>1
  <2>3. q \in [1..(Len(s) - i + 1) -> S]
    BY <1>2, <2>1
  <2> QED BY <1>2, <2>2, <2>3
<1>5. \A j \in i..Len(s) : s[j] \in SeqElems(q)
  <2>1. ASSUME NEW j \in i..Len(s) PROVE s[j] \in SeqElems(q)
    <3>1. j - i + 1 \in 1..(Len(s) - i + 1) /\ i + (j - i + 1) - 1 = j
      BY <1>1
    <3>2. q[j - i + 1] = s[j] /\ j - i + 1 \in DOMAIN q
      BY <1>2, <3>1
    <3> QED BY <3>2 DEF SeqElems
  <2> QED BY <2>1
<1>6. q # <<>> /\ Head(q) = s[i]
  <2>1. 1 \in 1..(Len(s) - i + 1) /\ i + 1 - 1 = i
    BY <1>1
  <2>2. q[1] = s[i] /\ Len(q) >= 1
    BY <1>1, <1>2, <1>4, <2>1
  <2> QED BY <1>4, <2>2
<1> QED BY <1>4, <1>5, <1>6

LEMMA SkipDone ==
    ASSUME NEW S, NEW s \in Seq(S), NEW i \in DOMAIN s, NEW q, q = SubSeq(s, i, Len(s)),
           NEW done, \A j \in 1..(i - 1) : s[j] \in done
    PROVE  SeqElems(s) \subseteq done \cup SeqElems(q)
<1>1. ASSUME NEW j \in DOMAIN s, s[j] \notin done
      PROVE  s[j] \in SeqElems(q)
  <2>1. i \in 1..Len(s) /\ j \in 1..Len(s) /\ Len(s) \in Nat
    OBVIOUS
  <2>2. j \in i..Len(s)
    BY <1>1, <2>1
  <2> QED BY <2>2, RestOf
<1> QED BY <1>1 DEF SeqElems

\* If the root is among the processes done with, and with a process all below
\* it on the way to a witness, then everything on that way is.
LEMMA WholePath ==
    ASSUME NEW i, NEW id, NEW done, windows[i].root.pid \in done,
           \A y \in Path(i, id) : y.pid \in done =>
              \A x \in Path(i, id) : <<x, y>> \in Pairs(proc) => x.pid \in done,
           NEW y \in Path(i, id)
    PROVE  y.pid \in done
<1> DEFINE P == Pairs(proc)
           root == windows[i].root
           T == {z \in Above(P, y) : root \in Above(P, z) => z.pid \notin done}
<1> SUFFICES ASSUME y.pid \notin done PROVE FALSE
  OBVIOUS
<1>1. Above(P, y) \subseteq Above(P, id) /\ root \in Above(P, y)
  BY AboveTrans DEF Path
<1>2. y \in T
  BY AboveSelf
<1>3. ASSUME NEW l \in P, l[1] \in T
      PROVE  l[2] \in T
  <2>1. l = <<l[1], l[2]>>
    BY PairMeans
  <2>2. l[2] \in Above(P, y)
    BY <1>3, AboveStep
  <2>3. ASSUME root \in Above(P, l[2])
        PROVE  l[2].pid \notin done
    <3>1. l[2] \in Above(P, l[1])
      BY AboveSelf, AboveStep
    <3>2. root \in Above(P, l[1])
      BY <2>3, <3>1, AboveTrans
    <3>3. l[1] \in Path(i, id) /\ l[2] \in Path(i, id)
      BY <1>1, <1>3, <2>2, <2>3, <3>2 DEF Path
    <3> QED BY <1>3, <2>1, <3>2, <3>3
  <2> QED BY <2>2, <2>3
<1> HIDE DEF T
<1>4. Above(P, y) \subseteq T
  BY <1>2, <1>3, AboveMin
<1> QED BY <1>1, <1>4, AboveSelf DEF T

LEMMA SeenFewer ==
    ASSUME IInv, ~OnTarget
    PROVE  /\ seen \in Seq(Observations) /\ Len(seen) \in Nat /\ Len(seen) < Len(windows)
           /\ windows \in Seq(Windows) /\ windows[Current] \in Windows
<1>1. seen \in Seq(Observations) /\ Len(seen) <= Len(windows) /\ windows \in Seq(Windows)
  BY DEF IInv, ShapeInv, RequestInv
<1>2. Len(seen) \in Nat /\ Len(windows) \in Nat /\ Len(seen) < Len(windows)
  BY <1>1 DEF OnTarget
<1>3. Current \in 1..Len(windows)
  BY <1>2 DEF Current
<1> QED BY <1>1, <1>2, <1>3

\* What ScanInv asks of a process that is taken holds of the one at the head.
HeadDone(rest) ==
  \A s \in steady : s[1] = Current =>
    \A y \in Path(Current, s[2]) : y.pid = Here =>
      /\ \E n \in SeqElems(kept) : n.id = y
      /\ \A x \in Path(Current, s[2]) :
           <<x, y>> \in Pairs(proc) => x.pid \in visited \cup {Here} \cup SeqElems(rest)

\* The scan goes on with the rest of the queue when the process at its head
\* has its node, or needs none, and those below it are in the rest.
LEMMA NextKeeps ==
    ASSUME IInv, Reading, NEW rest \in Seq(Pids), NextProcess(rest),
           step \in {"last zombie", "children"}, ~OnTarget,
           SeqElems(queue) \subseteq {Here} \cup SeqElems(rest),
           HeadDone(rest)
    PROVE  IInv'
<1> DEFINE done == visited \cup {Here}
<1>0. step \in ScanSteps /\ step \in NodeSteps /\ step \notin TargetSteps
  BY DEF ScanSteps, NodeSteps, TargetSteps
<1>s. /\ seen \in Seq(Observations) /\ Len(seen) < Len(windows)
      /\ windows \in Seq(Windows) /\ windows[Current] \in Windows
  BY SeenFewer
<1>1. /\ windows[Current].root.pid \in done \cup SeqElems(rest)
      /\ Distinct(kept)
      /\ \A n \in SeqElems(kept) : n.id.pid \in done
  BY <1>0 DEF IInv, ScanInv
<1>2. ASSUME NEW s \in steady, s[1] = Current, NEW y \in Path(Current, s[2]),
             y.pid \in done
      PROVE  /\ \E n \in SeqElems(kept) : n.id = y
             /\ \A x \in Path(Current, s[2]) :
                  <<x, y>> \in Pairs(proc) => x.pid \in done \cup SeqElems(rest)
  <2>1. CASE y.pid = Here
    BY <1>2, <2>1 DEF HeadDone
  <2>2. CASE y.pid \in visited
    BY <1>0, <1>2, <2>2 DEF IInv, ScanInv
  <2> QED BY <1>2, <2>1, <2>2
<1>3. CASE late /\ rest # <<>>
  <2>1. Failed(Error("deadline_exceeded", TRUE))
    BY <1>3 DEF NextProcess, Deadline
  <2>2. Error("deadline_exceeded", TRUE) \in Errors
    BY DEF Error, Errors, Codes
  <2> QED BY <1>0, <2>1, <2>2, FailedKeeps
<1>4. CASE ~(late /\ rest # <<>>) /\ SeqElems(rest) \subseteq done
  <2> DEFINE obs == WindowSeen("complete", kept, {})
  <2>1. Observed(obs)
    BY <1>4 DEF NextProcess
  <2>2. /\ obs.window = windows[Current] /\ obs.nodes = kept /\ obs.errors = {}
        /\ obs.state = "complete" /\ obs \in Observations
    BY <1>s DEF WindowSeen, Current, ReadStates, Observations, IInv, ShapeInv
  <2>3. Covers(Current, kept)
    <3>1. ASSUME NEW s \in steady, s[1] = Current, NEW y \in Path(Current, s[2])
          PROVE  \E n \in SeqElems(kept) : n.id = y
      <4>1. windows[Current].root.pid \in done
        BY <1>1, <1>4
      <4>2. ASSUME NEW z \in Path(Current, s[2]), z.pid \in done,
                   NEW x \in Path(Current, s[2]), <<x, z>> \in Pairs(proc)
            PROVE  x.pid \in done
        BY <1>2, <1>4, <3>1, <4>2
      <4> HIDE DEF done
      <4>3. y.pid \in done
        BY <4>1, <4>2, WholePath
      <4> QED BY <1>2, <3>1, <4>3
    <3> QED BY <3>1 DEF Covers
  <2> HIDE DEF obs
  <2> QED BY <1>0, <1>1, <2>1, <2>2, <2>3, ObservedKeeps
<1>5. CASE ~(late /\ rest # <<>>) /\ ~(SeqElems(rest) \subseteq done)
  <2>1. PICK i \in DOMAIN rest :
          /\ rest[i] \notin done
          /\ \A j \in 1..(i - 1) : rest[j] \in done
          /\ queue' = SubSeq(rest, i, Len(rest))
    BY <1>5 DEF NextProcess
  <2>2. /\ visited' = done /\ step' = "stat" /\ node' = NoNode
        /\ UNCHANGED <<req, windows, seen, target, kept, late, answer, steady, proc>>
    BY <1>5 DEF NextProcess, Reading, procVars
  <2>3. /\ queue' \in Seq(Pids) /\ queue' # <<>> /\ Head(queue') = rest[i]
    BY <2>1, RestOf
  <2>4. queue' # <<>> /\ Here' = rest[i] /\ Here' \notin visited'
    BY <2>1, <2>2, <2>3 DEF Here
  <2>5. SeqElems(rest) \subseteq done \cup SeqElems(queue')
    BY <2>1, SkipDone
  <2>6. ShapeInv'
    <3>1. NoNode \in Reads
      BY DEF NoNode, Reads, Links
    <3>2. Here \in Pids
      BY <1>0, HereIsOne DEF IInv, PlaceInv
    <3>3. visited' \in SUBSET Pids
      BY <2>2, <3>2 DEF IInv, ShapeInv
    <3> QED BY <2>2, <2>3, <3>1, <3>3 DEF IInv, ShapeInv, ScanSteps
  <2>7. ~OnTarget' /\ Current' = Current
    BY <2>2 DEF OnTarget, Current
  <2>8. PlaceInv'
    <3>1. target = NothingSeen /\ answer = NoAnswer /\ (~req.tmux => target.clients = {})
      BY <1>0 DEF IInv, PlaceInv, TargetSteps
    <3>2. step' \notin TargetSteps /\ step' # "done" /\ step' # "children"
          /\ step' \notin {"client", "clients"}
      BY <2>2 DEF TargetSteps
    <3> QED BY <2>2, <2>4, <2>7, <3>1, <3>2 DEF PlaceInv
  <2>9. NodesInv' /\ SeenInv'
    <3>1. AllNodes' = AllNodes
      BY <2>2 DEF AllNodes
    <3>2. NodesInv'
      BY <3>1, ReadingKeeps DEF IInv, NodesInv
    <3>3. SeenInv'
      BY <2>2, ReadingKeeps DEF IInv, SeenInv, Sound
    <3> QED BY <3>2, <3>3
  <2>10. ReadInv' /\ ClientInv'
    <3>1. step' \notin NodeSteps /\ step' \notin TargetSteps
      BY <2>2 DEF NodeSteps, TargetSteps
    <3>2. target'.clients = {}
      BY <1>0, <2>2, NothingYet DEF IInv
    <3> QED BY <2>2, <3>1, <3>2 DEF ReadInv, ClientInv, TargetSteps
  <2>11. ScanInv'
    <3>1. ASSUME NEW s \in steady, s[1] = Current, NEW y \in Path(Current, s[2])
          PROVE  y.pid \in done =>
                   /\ \E n \in SeqElems(kept) : n.id = y
                   /\ \A x \in Path(Current, s[2]) :
                        <<x, y>> \in Pairs(proc) => x.pid \in done \cup SeqElems(queue')
      BY <1>2, <2>5, <3>1
    <3>2. step' \notin NodeSteps
      BY <2>2 DEF NodeSteps
    <3>3. windows[Current].root.pid \in done \cup SeqElems(queue')
      BY <1>1, <2>5
    <3>4. SeqElems(queue') = SeqElems(queue)' /\ SeqElems(kept)' = SeqElems(kept)
      BY <2>2 DEF SeqElems
    <3>5. visited' = done /\ UNCHANGED <<windows, steady, proc>>
      BY <2>2
    <3>6. Distinct(kept)' /\ \A n \in SeqElems(kept)' : n.id.pid \in visited'
      BY <1>1, <2>2, <3>4
    <3>7. \A i1, id : Path(i1, id)' = Path(i1, id)
      BY ReadingKeeps
    <3> HIDE DEF done
    <3> QED BY <2>7, <3>1, <3>2, <3>3, <3>4, <3>5, <3>6, <3>7 DEF ScanInv
  <2> QED BY <2>6, <2>8, <2>9, <2>10, <2>11, ReadingKeeps DEF IInv
<1> QED BY <1>3, <1>4, <1>5

-----------------------------------------------------------------------------
(* One lemma for each read.                                                *)

LEMMA ScanFails ==
    ASSUME IInv, Reading, step \in ScanSteps,
           \/ Deadline \/ Unreadable \/ Changed
           \/ Failed(Error("process_scan_truncated", TRUE))
           \/ Failed(Error("process_not_live", FALSE))
           \/ Failed(Error("zombie_process_has_children", TRUE))
    PROVE  IInv'
<1>1. PICK error \in Errors : Failed(error)
  BY DEF Deadline, Unreadable, Changed, Error, Errors, Codes
<1>2. ~(req.tmux /\ OnTarget)
  BY DEF IInv, PlaceInv
<1> QED BY <1>1, <1>2, FailedKeeps

LEMMA HereFacts ==
    ASSUME IInv, step \in ScanSteps
    PROVE  /\ queue # <<>> /\ Here \in Pids
           /\ Exists(Here) => Identity(Here) \in LiveIds /\ proc[Here].ticks <= Born
           /\ proc[Here] \in Entries
<1>1. queue # <<>> /\ Here \in Pids
  BY HereIsOne DEF IInv, PlaceInv
<1>2. proc[Here] \in Entries /\ proc[Here].ticks <= Born
  BY <1>1 DEF IInv, KernelInv, Forest, Born
<1> QED BY <1>1, <1>2 DEF Exists, Identity, LiveIds, Entries, NoTicks

\* A pair of the process at the head is the one its entry says.
LEMMA PairAtHead ==
    ASSUME IInv, step \in NodeSteps, NEW l \in Pairs(proc), l[1] = node.id
    PROVE  /\ proc[Here].ticks = node.id.ticks
           /\ proc[Here].parent # Init0 /\ proc[Here].parent = node.parent
           /\ l[2] = Identity(node.parent)
<1>1. PICK c \in Pids :
        /\ proc[c].ticks # NoTicks /\ proc[c].parent # Init0
        /\ l = <<[pid |-> c, ticks |-> proc[c].ticks],
                 [pid |-> proc[c].parent, ticks |-> proc[proc[c].parent].ticks]>>
  BY PairMeans
<1>2. c = Here /\ proc[c].ticks = node.id.ticks
  <2>1. node.id.pid = Here
    BY DEF IInv, ReadInv
  <2> QED BY <1>1, <2>1
<1>3. proc[Here].parent = node.parent
  BY <1>1, <1>2 DEF IInv, ReadInv
<1> QED BY <1>1, <1>2, <1>3 DEF Identity

LEMMA ReadStatKeeps == ASSUME IInv, ReadStat PROVE IInv'
<1>1. Reading /\ step = "stat" /\ step \in ScanSteps \ {"children"}
  BY DEF ReadStat, ScanSteps
<1>2. CASE \/ Deadline \/ Unreadable \/ Failed(Error("process_scan_truncated", TRUE))
  BY <1>1, <1>2, ScanFails
<1>3. CASE /\ Exists(Here) /\ Stays
           /\ node' = [NoNode EXCEPT !.id = Identity(Here), !.parent = proc[Here].parent]
           /\ step' = IF proc[Here].zombie THEN "zombie" ELSE "cmdline"
  <2>1. Identity(Here) \in LiveIds /\ proc[Here].ticks <= Born /\ proc[Here] \in Entries
    BY <1>1, <1>3, HereFacts
  <2>2. /\ node' \in Reads /\ node'.id = Identity(Here)
        /\ node'.parent = proc[Here].parent /\ node'.above = NoId
    BY <1>3, <2>1 DEF NoNode, Reads, Links, Entries
  <2>3. step' \in NodeSteps \ {"children"} /\ step' \in {"zombie", "cmdline"}
    BY <1>3 DEF NodeSteps
  <2>4. Here' = Here /\ Born' = Born /\ proc' = proc
    BY <1>1, <1>3 DEF Reading, Stays, procVars, Here, Born
  <2>5. node'.id.pid = Here /\ node'.id.ticks <= Born
    BY <2>1, <2>2 DEF Identity
  <2>6. ReadInv'
    BY <2>1, <2>2, <2>3, <2>4, <2>5 DEF ReadInv
  <2> QED BY <1>1, <1>3, <2>2, <2>3, <2>6, NodeKeeps
<1> QED BY <1>2, <1>3 DEF ReadStat

LEMMA ReadProgramKeeps == ASSUME IInv, ReadProgram PROVE IInv'
<1>1. /\ Reading /\ step = "cmdline" /\ step \in ScanSteps \ {"children"}
      /\ step \in NodeSteps
  BY DEF ReadProgram, ScanSteps, NodeSteps
<1>2. CASE Unreadable
  BY <1>1, <1>2, ScanFails
<1>3. CASE /\ Exists(Here) /\ Stays
           /\ node' = [node EXCEPT !.prog = proc[Here].prog, !.link = TransportLink(Here)]
           /\ step' = "stat again"
  <2>1. proc[Here] \in Entries /\ node \in Reads
    BY <1>1, HereFacts DEF IInv, ShapeInv
  <2>2. TransportLink(Here) \in Links
    BY <2>1 DEF TransportLink, Entries, Links
  <2>3. /\ node' \in Reads /\ node'.id = node.id /\ node'.parent = node.parent
        /\ node'.above = node.above
    BY <1>3, <2>1, <2>2 DEF Reads, Entries
  <2>4. step' \in NodeSteps \ {"children"}
    BY <1>3 DEF NodeSteps
  <2>5. Here' = Here /\ Born' = Born /\ proc' = proc
    BY <1>1, <1>3 DEF Reading, Stays, procVars, Here, Born
  <2>6. ReadInv'
    BY <1>1, <1>3, <2>3, <2>5 DEF IInv, ReadInv
  <2> QED BY <1>1, <1>3, <2>3, <2>4, <2>6, NodeKeeps
<1> QED BY <1>2, <1>3 DEF ReadProgram

LEMMA ReadProgramAgainKeeps == ASSUME IInv, ReadProgramAgain PROVE IInv'
<1>1. /\ Reading /\ step = "cmdline again" /\ step \in ScanSteps \ {"children"}
      /\ step \in NodeSteps
  BY DEF ReadProgramAgain, ScanSteps, NodeSteps
<1>2. CASE Unreadable \/ Changed
  BY <1>1, <1>2, ScanFails
<1>3. CASE /\ step' = IF node.parent = Init0 THEN "last stat" ELSE "parent"
           /\ node' = node /\ Stays
  <2>1. step' \in NodeSteps \ {"children"} /\ node' \in Reads
    BY <1>3 DEF NodeSteps, IInv, ShapeInv
  <2>2. Here' = Here /\ Born' = Born /\ proc' = proc
    BY <1>1, <1>3 DEF Reading, Stays, procVars, Here, Born
  <2>3. ASSUME node.parent = Init0, NEW l \in Pairs(proc), l[1] = node.id
        PROVE  l[2] = node.above
    BY <1>1, <2>3, PairAtHead
  <2>4. ReadInv'
    BY <1>1, <1>3, <2>2, <2>3 DEF IInv, ReadInv
  <2> QED BY <1>1, <1>3, <2>1, <2>4, NodeKeeps
<1> QED BY <1>2, <1>3 DEF ReadProgramAgain

LEMMA ReadParentKeeps == ASSUME IInv, ReadParent PROVE IInv'
<1>1. /\ Reading /\ step = "parent" /\ step \in ScanSteps \ {"children"}
      /\ step \in NodeSteps
  BY DEF ReadParent, ScanSteps, NodeSteps
<1>2. CASE Unreadable
  BY <1>1, <1>2, ScanFails
<1>3. CASE /\ Exists(node.parent) /\ Stays
           /\ node' = [node EXCEPT !.above = Identity(node.parent)]
           /\ step' = "last stat"
  <2>1. Identity(node.parent) \in LiveIds
    <3>1. node.parent \in Pids /\ proc[node.parent].ticks # NoTicks
      BY <1>3 DEF Exists
    <3>2. proc[node.parent].ticks \in Nat
      BY <3>1 DEF IInv, KernelInv, Forest, Entries
    <3> QED BY <3>1, <3>2 DEF Identity, LiveIds, NoTicks
  <2>2. /\ node' \in Reads /\ node'.id = node.id /\ node'.parent = node.parent
        /\ node'.above = Identity(node.parent) /\ Identity(node.parent) # NoId
    <3>1. node \in Reads
      BY DEF IInv, ShapeInv
    <3>2. \A id \in LiveIds : id # NoId
      BY DEF LiveIds, NoId
    <3> QED BY <1>3, <2>1, <3>1, <3>2 DEF Reads
  <2>3. step' \in NodeSteps \ {"children"}
    BY <1>3 DEF NodeSteps
  <2>4. Here' = Here /\ Born' = Born /\ proc' = proc
    BY <1>1, <1>3 DEF Reading, Stays, procVars, Here, Born
  <2>5. ASSUME NEW l \in Pairs(proc), l[1] = node.id
        PROVE  l[2] = Identity(node.parent)
    BY <1>1, <2>5, PairAtHead
  <2>6. ReadInv'
    BY <1>1, <1>3, <2>2, <2>4, <2>5 DEF IInv, ReadInv
  <2> QED BY <1>1, <1>3, <2>2, <2>3, <2>6, NodeKeeps
<1> QED BY <1>2, <1>3 DEF ReadParent

\* The node of the process at the head, after the last of its reads.
LEMMA ReadNodeIsTrue ==
    ASSUME IInv, step = "last stat", AsRead
    PROVE  ReadNode \in Nodes /\ TrueNode(ReadNode)
<1>0. step \in NodeSteps /\ node \in Reads
  BY DEF NodeSteps, IInv, ShapeInv
<1>1. node.id \in LiveIds /\ node.id.ticks <= Born /\ node.id.pid = Here
      /\ (node.above = NoId <=> node.parent = Init0)
  BY <1>0 DEF IInv, ReadInv
<1>2. ReadNode \in Nodes
  BY <1>0, <1>1 DEF ReadNode, Nodes, Reads
<1>3. ASSUME node.above # NoId
      PROVE  <<node.id, node.above>> \in lineage
  <2> DEFINE l == <<[pid |-> Here, ticks |-> proc[Here].ticks],
                    [pid |-> proc[Here].parent, ticks |-> proc[proc[Here].parent].ticks]>>
  <2>1. proc[Here].ticks = node.id.ticks /\ proc[Here].parent # Init0 /\ Exists(Here)
    BY <1>1, <1>3 DEF AsRead
  <2>2. l \in Pairs(proc)
    BY <2>1, PairMeans DEF Exists
  <2>3. l[1] = node.id
    BY <1>1, <2>1 DEF LiveIds
  <2>4. l[2] = node.above
    BY <1>0, <2>2, <2>3 DEF IInv, ReadInv
  <2>5. l = <<node.id, node.above>>
    BY <2>3, <2>4
  <2> QED BY <2>2, <2>5 DEF IInv, KernelInv
<1>4. \A l \in Pairs(proc) : l[1] = node.id => l[2] = node.above
  BY <1>0 DEF IInv, ReadInv
<1> QED BY <1>1, <1>2, <1>3, <1>4 DEF TrueNode, ReadNode

LEMMA NodeReadKeeps ==
    ASSUME IInv, Reading, step = "last stat", AsRead, NodeRead
    PROVE  IInv'
<1>0. /\ step \in NodeSteps /\ step \in ScanSteps /\ step \notin TargetSteps
      /\ ReadNode \in Nodes /\ TrueNode(ReadNode)
  BY ReadNodeIsTrue DEF NodeSteps, ScanSteps, TargetSteps
<1>1. CASE OnTarget
  <2> DEFINE t == TargetSeen("complete", {}, <<ReadNode>>, {})
  <2>1. TargetObserved(t)
    BY <1>1 DEF NodeRead
  <2>2. <<ReadNode>> \in Seq(Nodes) /\ SeqElems(<<ReadNode>>) = {ReadNode}
    BY <1>0, OneElem
  <2>3. t \in Targets /\ t.clients = {} /\ t.nodes = <<ReadNode>>
    BY <2>2 DEF TargetSeen, Targets, ReadStates
  <2>4. ~req.tmux
    BY <1>0, <1>1 DEF IInv, PlaceInv
  <2> HIDE DEF t
  <2> QED BY <1>0, <1>1, <2>1, <2>2, <2>3, <2>4, TargetKeeps
<1>2. CASE ~OnTarget
  <2>1. /\ UNCHANGED <<req, windows, seen, target, queue, visited, node, late, answer,
                       steady, proc, churn>>
        /\ kept' = Append(kept, ReadNode) /\ step' = "children"
    BY <1>2 DEF Reading, NodeRead, procVars
  <2>2. kept \in Seq(Nodes)
    BY DEF IInv, ShapeInv
  <2>3. /\ kept' \in Seq(Nodes) /\ SeqElems(kept') = SeqElems(kept) \cup {ReadNode}
        /\ DOMAIN kept' = DOMAIN kept \cup {Len(kept) + 1}
        /\ \A i \in DOMAIN kept : kept'[i] = kept[i]
        /\ kept'[Len(kept) + 1] = ReadNode
    <3>1. ReadNode \in Nodes
      BY <1>0
    <3> DEFINE more == Append(kept, ReadNode)
    <3>2. /\ more \in Seq(Nodes)
          /\ SeqElems(more) = SeqElems(kept) \cup {ReadNode}
          /\ DOMAIN more = DOMAIN kept \cup {Len(kept) + 1}
          /\ \A i \in DOMAIN kept : more[i] = kept[i]
          /\ more[Len(kept) + 1] = ReadNode
      BY ONLY <2>2, <3>1, AppendElems
    <3>3. kept' = more
      BY <2>1
    <3> HIDE DEF more
    <3> QED BY <3>2, <3>3
  <2>4. SeqElems(kept)' = SeqElems(kept) \cup {ReadNode}
    BY <2>3 DEF SeqElems
  <2>5. /\ Here' = Here /\ Current' = Current /\ Born' = Born /\ ~OnTarget'
        /\ step' \in NodeSteps /\ step' \in ScanSteps /\ step' \notin TargetSteps
    BY <1>2, <2>1 DEF Here, Current, Born, OnTarget, NodeSteps, ScanSteps, TargetSteps
  <2>6. ShapeInv'
    BY <2>1, <2>3, <2>5 DEF IInv, ShapeInv
  <2>7. PlaceInv'
    <3>1. step' # "done" /\ step' \notin {"client", "clients"}
      BY <2>1
    <3> QED BY <1>0, <1>2, <2>1, <2>5, <3>1 DEF IInv, PlaceInv, TargetSteps
  <2>8. NodesInv'
    <3>1. AllNodes' = AllNodes \cup {ReadNode}
      BY <2>1, <2>4 DEF AllNodes
    <3> QED BY <1>0, <3>1, ReadingKeeps DEF IInv, NodesInv
  <2>9. SeenInv'
    BY <2>1, ReadingKeeps DEF IInv, SeenInv, Sound
  <2>10. ClientInv'
    BY <1>0, <2>1, <2>5, NothingYet DEF IInv, ClientInv, TargetSteps
  <2>11. ReadInv'
    <3>1. \E n \in SeqElems(kept)' : n.id = node.id
      <4>1. ReadNode.id = node.id
        BY DEF ReadNode
      <4> QED BY <2>4, <4>1
    <3> QED BY <1>0, <2>1, <2>5, <3>1 DEF IInv, ReadInv
  <2>12. ScanInv'
    <3>0. Here \notin visited /\ node.id.pid = Here
      BY <1>0, <1>2 DEF IInv, PlaceInv, ReadInv
    <3>1. \A n \in SeqElems(kept) : n.id.pid \in visited
      BY <1>0, <1>2 DEF IInv, ScanInv
    <3>2. Distinct(kept)'
      <4>1. Distinct(kept)
        BY <1>0, <1>2 DEF IInv, ScanInv
      <4>2. ASSUME NEW j \in DOMAIN kept
            PROVE  kept[j].id.pid # ReadNode.id.pid
        BY <3>0, <3>1 DEF SeqElems, ReadNode
      <4> QED BY <2>3, <4>1, <4>2 DEF Distinct
    <3>3. \A n \in SeqElems(kept)' :
             n.id.pid \in visited \/ (step' = "children" /\ n.id.pid = Here)
      <4>1. ReadNode.id = node.id
        BY DEF ReadNode
      <4> QED BY <2>1, <2>4, <3>0, <3>1, <4>1
    <3>4. \A i, id : Path(i, id)' = Path(i, id)
      BY ReadingKeeps
    <3> QED BY <1>0, <1>2, <2>1, <2>4, <2>5, <3>2, <3>3, <3>4 DEF IInv, ScanInv
  <2> QED BY <2>6, <2>7, <2>8, <2>9, <2>10, <2>11, <2>12, ReadingKeeps DEF IInv
<1> QED BY <1>1, <1>2

LEMMA ReadStatAgainKeeps == ASSUME IInv, ReadStatAgain PROVE IInv'
<1>1. /\ Reading /\ step \in {"stat again", "last stat"}
      /\ step \in ScanSteps \ {"children"} /\ step \in NodeSteps
  BY DEF ReadStatAgain, ScanSteps, NodeSteps
<1>2. CASE Unreadable \/ Changed
  BY <1>1, <1>2, ScanFails
<1>3. CASE /\ \/ step' = "zombie"
              \/ step = "stat again" /\ step' = "cmdline again"
           /\ node' = node /\ Stays
  <2>1. step' \in NodeSteps \ {"children"} /\ node' \in Reads
    BY <1>3 DEF NodeSteps, IInv, ShapeInv
  <2>2. Here' = Here /\ Born' = Born /\ proc' = proc
    BY <1>1, <1>3 DEF Reading, Stays, procVars, Here, Born
  <2>3. ReadInv'
    BY <1>1, <1>3, <2>2 DEF IInv, ReadInv
  <2> QED BY <1>1, <1>3, <2>1, <2>3, NodeKeeps
<1>4. CASE step = "last stat" /\ AsRead /\ NodeRead
  BY <1>1, <1>4, NodeReadKeeps
<1> QED BY <1>1, <1>2, <1>3, <1>4 DEF ReadStatAgain

LEMMA TailElems ==
    ASSUME NEW S, NEW q \in Seq(S), q # <<>>
    PROVE  /\ Tail(q) \in Seq(S) /\ Head(q) \in S
           /\ SeqElems(q) = {Head(q)} \cup SeqElems(Tail(q))
           /\ (\A i, j \in DOMAIN q : q[i] = q[j] => i = j) =>
                /\ Head(q) \notin SeqElems(Tail(q))
                /\ \A i, j \in DOMAIN Tail(q) : Tail(q)[i] = Tail(q)[j] => i = j
<1>1. Len(q) \in Nat /\ Len(q) >= 1 /\ DOMAIN q = 1..Len(q)
  OBVIOUS
<1>2. /\ Tail(q) \in Seq(S) /\ Head(q) = q[1] /\ DOMAIN Tail(q) = 1..(Len(q) - 1)
      /\ \A i \in 1..(Len(q) - 1) : Tail(q)[i] = q[i + 1]
  BY <1>1
<1>3. SeqElems(q) \subseteq {Head(q)} \cup SeqElems(Tail(q))
  <2>1. ASSUME NEW i \in 1..Len(q), i # 1
        PROVE  q[i] \in SeqElems(Tail(q))
    <3>1. i - 1 \in 1..(Len(q) - 1) /\ (i - 1) + 1 = i
      BY <1>1, <2>1
    <3>2. Tail(q)[i - 1] = q[i]
      BY <1>2, <3>1
    <3> QED BY <1>2, <3>1, <3>2 DEF SeqElems
  <2> QED BY <1>1, <1>2, <2>1 DEF SeqElems
<1>4. ASSUME NEW i \in 1..(Len(q) - 1)
      PROVE  i + 1 \in 1..Len(q) /\ i + 1 # 1
  BY <1>1
<1>5. {Head(q)} \cup SeqElems(Tail(q)) \subseteq SeqElems(q)
  <2>1. 1 \in 1..Len(q)
    BY <1>1
  <2> QED BY <1>1, <1>2, <1>4, <2>1 DEF SeqElems
<1>6. ASSUME \A i, j \in DOMAIN q : q[i] = q[j] => i = j
      PROVE  /\ Head(q) \notin SeqElems(Tail(q))
             /\ \A i, j \in DOMAIN Tail(q) : Tail(q)[i] = Tail(q)[j] => i = j
  <2>1. 1 \in 1..Len(q)
    BY <1>1
  <2>2. Head(q) \notin SeqElems(Tail(q))
    BY <1>1, <1>2, <1>4, <1>6, <2>1 DEF SeqElems
  <2>3. ASSUME NEW i \in 1..(Len(q) - 1), NEW j \in 1..(Len(q) - 1), Tail(q)[i] = Tail(q)[j]
        PROVE  i = j
    <3>1. i + 1 = j + 1
      BY <1>1, <1>2, <1>4, <1>6, <2>3
    <3> QED BY <3>1
  <2> QED BY <1>2, <2>2, <2>3
<1>7. Tail(q) \in Seq(S) /\ Head(q) \in S
  BY <1>1, <1>2
<1> QED BY <1>3, <1>5, <1>6, <1>7

LEMMA SortedIs ==
    ASSUME NEW S \in SUBSET Pids, NEW s \in Sorted(S)
    PROVE  /\ s \in Seq(Pids) /\ SeqElems(s) = S
           /\ \A i, j \in DOMAIN s : s[i] = s[j] => i = j
<1>1. Cardinality(S) \in Nat
  BY ProcTableAssumption, FS_Subset, FS_CardinalityType
<1>2. s \in [1..Cardinality(S) -> S] /\ SeqElems(s) = S
      /\ \A i, j \in DOMAIN s : i < j => s[i] < s[j]
  BY DEF Sorted
<1>3. s \in Seq(Pids)
  BY <1>1, <1>2
<1>4. ASSUME NEW i \in DOMAIN s, NEW j \in DOMAIN s, s[i] = s[j]
      PROVE  i = j
  <2>1. i \in Nat /\ j \in Nat /\ s[i] \in Nat /\ s[j] \in Nat
    <3>1. i \in 1..Cardinality(S) /\ j \in 1..Cardinality(S)
      BY <1>2
    <3>2. s[i] \in S /\ s[j] \in S
      BY <1>2, <3>1
    <3>3. i \in Nat /\ j \in Nat
      BY <1>1, <3>1
    <3>4. s[i] \in Nat /\ s[j] \in Nat
      BY <3>2, PidFacts
    <3> QED BY <3>3, <3>4
  <2>2. ~(i < j) /\ ~(j < i)
    BY <1>2, <1>4, <2>1
  <2> QED BY <2>1, <2>2
<1> QED BY <1>2, <1>3, <1>4

LEMMA ConcatElems ==
    ASSUME NEW S, NEW s \in Seq(S), NEW t \in Seq(S)
    PROVE  s \o t \in Seq(S) /\ SeqElems(s) \cup SeqElems(t) \subseteq SeqElems(s \o t)
<1>1. /\ s \o t \in Seq(S) /\ Len(s \o t) = Len(s) + Len(t) /\ Len(s) \in Nat /\ Len(t) \in Nat
      /\ \A i \in 1..Len(s) : (s \o t)[i] = s[i]
      /\ \A i \in 1..Len(t) : (s \o t)[Len(s) + i] = t[i]
  OBVIOUS
<1>2. DOMAIN s = 1..Len(s) /\ DOMAIN t = 1..Len(t) /\ DOMAIN (s \o t) = 1..(Len(s) + Len(t))
  BY <1>1
<1>3. ASSUME NEW i \in 1..Len(s) PROVE s[i] \in SeqElems(s \o t)
  <2>1. i \in 1..(Len(s) + Len(t))
    BY <1>1
  <2> QED BY <1>1, <1>2, <2>1 DEF SeqElems
<1>4. ASSUME NEW i \in 1..Len(t) PROVE t[i] \in SeqElems(s \o t)
  <2>1. Len(s) + i \in 1..(Len(s) + Len(t))
    BY <1>1
  <2> QED BY <1>1, <1>2, <2>1 DEF SeqElems
<1> QED BY <1>1, <1>2, <1>3, <1>4 DEF SeqElems

LEMMA ReadZombieKeeps == ASSUME IInv, ReadZombie PROVE IInv'
<1>1. /\ Reading /\ step \in {"zombie", "last zombie"}
      /\ step \in ScanSteps \ {"children"} /\ step \in NodeSteps
  BY DEF ReadZombie, ScanSteps, NodeSteps
<1>2. CASE Unreadable \/ Changed \/ Failed(Error("process_not_live", FALSE))
  BY <1>1, <1>2, ScanFails
<1>3. CASE step' = "zombie children" /\ node' = node /\ Stays
  <2>1. step' \in NodeSteps \ {"children"} /\ node' \in Reads
    BY <1>3 DEF NodeSteps, IInv, ShapeInv
  <2>2. Here' = Here /\ Born' = Born /\ proc' = proc
    BY <1>1, <1>3 DEF Reading, Stays, procVars, Here, Born
  <2>3. ReadInv'
    BY <1>1, <1>3, <2>2 DEF IInv, ReadInv
  <2> QED BY <1>1, <1>3, <2>1, <2>3, NodeKeeps
<1>4. CASE /\ step = "last zombie" /\ proc[Here].zombie /\ ~OnTarget
           /\ NextProcess(Tail(queue))
  <2>1. queue \in Seq(Pids) /\ queue # <<>>
    BY <1>1, HereFacts DEF IInv, ShapeInv
  <2>2. Tail(queue) \in Seq(Pids) /\ SeqElems(queue) \subseteq {Here} \cup SeqElems(Tail(queue))
    BY <2>1, TailElems DEF Here
  <2>3. HeadDone(Tail(queue))
    <3>1. ASSUME NEW s \in steady, s[1] = Current, NEW y \in Path(Current, s[2])
          PROVE  y.pid # Here
      BY <1>4, <3>1, PathFacts DEF IInv, Running
    <3> QED BY <3>1 DEF HeadDone
  <2> QED BY <1>1, <1>4, <2>2, <2>3, NextKeeps
<1> QED BY <1>1, <1>2, <1>3, <1>4 DEF ReadZombie

LEMMA ReadZombieChildrenKeeps == ASSUME IInv, ReadZombieChildren PROVE IInv'
<1>1. /\ Reading /\ step = "zombie children"
      /\ step \in ScanSteps \ {"children"} /\ step \in NodeSteps
  BY DEF ReadZombieChildren, ScanSteps, NodeSteps
<1>2. CASE Unreadable \/ Failed(Error("zombie_process_has_children", TRUE))
  BY <1>1, <1>2, ScanFails
<1>3. CASE step' = "last zombie" /\ node' = node /\ Stays
  <2>1. step' \in NodeSteps \ {"children"} /\ node' \in Reads
    BY <1>3 DEF NodeSteps, IInv, ShapeInv
  <2>2. Here' = Here /\ Born' = Born /\ proc' = proc
    BY <1>1, <1>3 DEF Reading, Stays, procVars, Here, Born
  <2>3. ReadInv'
    BY <1>1, <1>3, <2>2 DEF IInv, ReadInv
  <2> QED BY <1>1, <1>3, <2>1, <2>3, NodeKeeps
<1> QED BY <1>2, <1>3 DEF ReadZombieChildren

\* The children that are read are all that the process has at that moment.
LEMMA ReadChildrenKeeps == ASSUME IInv, ReadChildren PROVE IInv'
<1>1. /\ Reading /\ step = "children" /\ step \in ScanSteps /\ step \in NodeSteps
      /\ ~OnTarget
  BY DEF ReadChildren, ScanSteps, NodeSteps, IInv, PlaceInv
<1>2. CASE Unreadable
  BY <1>1, <1>2, ScanFails
<1>3. ASSUME NEW order \in Sorted(Children(Here) \ (visited \cup {Here})),
             NextProcess(Tail(queue) \o order)
      PROVE  IInv'
  <2> DEFINE rest == Tail(queue) \o order
  <2>1. queue \in Seq(Pids) /\ queue # <<>>
    BY <1>1, HereFacts DEF IInv, ShapeInv
  <2>2. Tail(queue) \in Seq(Pids) /\ SeqElems(queue) \subseteq {Here} \cup SeqElems(Tail(queue))
    BY <2>1, TailElems DEF Here
  <2>3. order \in Seq(Pids) /\ SeqElems(order) = Children(Here) \ (visited \cup {Here})
    <3>1. Children(Here) \ (visited \cup {Here}) \in SUBSET Pids
      BY DEF Children
    <3> QED BY <3>1, SortedIs
  <2>4. rest \in Seq(Pids) /\ SeqElems(Tail(queue)) \cup SeqElems(order) \subseteq SeqElems(rest)
    BY <2>2, <2>3, ConcatElems
  <2> HIDE DEF rest
  <2>5. HeadDone(rest)
    <3>1. ASSUME NEW s \in steady, s[1] = Current, NEW y \in Path(Current, s[2]), y.pid = Here
          PROVE  \E n \in SeqElems(kept) : n.id = y
      <4>1. node.id = y
        BY <1>1, <3>1 DEF IInv, ScanInv
      <4> QED BY <1>1, <4>1 DEF IInv, ReadInv
    <3>2. ASSUME NEW s \in steady, s[1] = Current, NEW x \in Path(Current, s[2]), NEW y,
                 <<x, y>> \in Pairs(proc), y.pid = Here
          PROVE  x.pid \in visited \cup {Here} \cup SeqElems(rest)
      <4>1. PICK c \in Pids :
              /\ proc[c].ticks # NoTicks /\ proc[c].parent # Init0
              /\ <<x, y>> = <<[pid |-> c, ticks |-> proc[c].ticks],
                              [pid |-> proc[c].parent, ticks |-> proc[proc[c].parent].ticks]>>
        BY <3>2, PairMeans
      <4>2. x.pid = c /\ proc[c].parent = Here
        BY <3>2, <4>1
      <4>3. x.pid \in Children(Here)
        BY <4>1, <4>2 DEF Children, Exists
      <4> QED BY <2>3, <2>4, <4>3
    <3> QED BY <3>1, <3>2 DEF HeadDone
  <2>6. NextProcess(rest)
    BY <1>3 DEF rest
  <2>7. SeqElems(queue) \subseteq {Here} \cup SeqElems(rest)
    BY <2>2, <2>4
  <2> QED BY <1>1, <2>4, <2>5, <2>6, <2>7, NextKeeps
<1> QED BY <1>2, <1>3 DEF ReadChildren

LEMMA ListClientsKeeps == ASSUME IInv, ListClients PROVE IInv'
<1> DEFINE listed == {p \in Pids : Running(p) /\ proc[p].prog = "tmux"}
           row(p) == [process |-> [pid |-> p, ticks |-> NoTicks], nodes |-> <<>>,
                      shows |-> proc[p].link = "pane"]
           rows == {row(p) : p \in listed}
           found == TargetSeen("partial", {Error("local_tmux_match_only", FALSE)}, <<>>, rows)
<1>1. Reading /\ step = "clients" /\ step \notin TargetSteps /\ OnTarget /\ req.tmux
  BY DEF ListClients, TargetSteps, IInv, PlaceInv
<1>2. CASE Failed(Error("local_tmux_probe_failed", TRUE))
  <2>1. Error("local_tmux_probe_failed", TRUE) \in Errors
        /\ Error("local_tmux_probe_failed", TRUE).retryable
    BY DEF Error, Errors, Codes
  <2> QED BY <1>1, <1>2, <2>1, FailedKeeps
<1>3. /\ found \in Targets /\ found.clients = rows /\ found.nodes = <<>>
      /\ found.errors = {Error("local_tmux_match_only", FALSE)}
      /\ rows \subseteq Rows
  <2>1. rows \subseteq Rows
    <3>1. \A p \in Pids : row(p) \in Rows
      BY DEF Rows, NoTicks
    <3> QED BY <3>1
  <2>2. {Error("local_tmux_match_only", FALSE)} \in SUBSET Errors
    BY DEF Error, Errors, Codes
  <2>3. <<>> \in Seq(Nodes)
    OBVIOUS
  <2> HIDE DEF rows
  <2> QED BY <2>1, <2>2, <2>3 DEF TargetSeen, Targets, ReadStates
<1>r. ASSUME NEW p \in listed
      PROVE  /\ row(p) \in rows
             /\ row(p).process = [pid |-> p, ticks |-> NoTicks]
             /\ row(p).shows <=> proc[p].link = "pane"
  OBVIOUS
<1>4. ASSUME NEW id \in Witnesses(proc)
      PROVE  id.pid \in listed /\ proc[id.pid].link = "pane"
  <2>1. /\ id \in LiveIds /\ Exists(id.pid) /\ ~proc[id.pid].zombie
    BY <1>4, WitnessFacts DEF IInv
  <2>2. Witness(proc, id)
    BY DEF Witnesses
  <2>3. proc[id.pid].prog = "tmux" /\ proc[id.pid].link = "pane" /\ id.pid \in Pids
    BY <1>1, <2>1, <2>2 DEF Witness, LiveIds
  <2> QED BY <2>1, <2>3 DEF Running
<1>5. steady \subseteq (DOMAIN windows) \X Witnesses(proc)
  BY DEF IInv, HistoryInv, Holding
<1>6. CASE listed = {} /\ TargetObserved(found)
  <2>1. rows = {} /\ steady = {}
    BY <1>4, <1>5, <1>6
  <2>2. SeqElems(found.nodes) = {}
    BY <1>3, NoElems
  <2>3. found.errors # {}
    BY <1>3
  <2> HIDE DEF found, rows, row, listed
  <2> QED BY <1>1, <1>3, <1>6, <2>1, <2>2, <2>3, TargetKeeps
<1>7. CASE /\ listed # {} /\ target' = found /\ queue' \in Sorted(listed)
           /\ step' = "client" /\ UNCHANGED <<seen, visited, kept, node>>
  <2>1. /\ queue' \in Seq(Pids) /\ SeqElems(queue') = listed
        /\ \A i, j \in DOMAIN queue' : queue'[i] = queue'[j] => i = j
    <3>1. listed \in SUBSET Pids
      OBVIOUS
    <3> HIDE DEF listed
    <3> QED BY <1>7, <3>1, SortedIs
  <2>2. /\ UNCHANGED <<req, windows, seen, visited, kept, node, late, answer, steady, proc,
                       shown>>
        /\ target' = found /\ step' = "client" /\ step' \in TargetSteps
        /\ step' \notin NodeSteps /\ step' \notin ScanSteps
    BY <1>1, <1>7 DEF Reading, procVars, TargetSteps, NodeSteps, ScanSteps
  <2>3. ShapeInv'
    BY <1>3, <2>1, <2>2 DEF IInv, ShapeInv
  <2>4. PlaceInv'
    <3>1. OnTarget' /\ found.errors # {} /\ answer = NoAnswer
      BY <1>1, <1>3, <2>2 DEF OnTarget, IInv, PlaceInv
    <3>2. step' # "children" /\ step' # "done"
      BY <2>2
    <3> HIDE DEF found, rows, row, listed
    <3> QED BY <1>1, <2>2, <3>1, <3>2 DEF PlaceInv
  <2>5. NodesInv'
    <3>1. SeqElems(found.nodes) = {}
      BY <1>3, NoElems
    <3>2. AllNodes' \subseteq AllNodes
      BY <2>2, <3>1 DEF AllNodes
    <3> QED BY <3>2, ReadingKeeps, <1>1 DEF IInv, NodesInv
  <2>6. SeenInv'
    BY <1>1, <2>2, ReadingKeeps DEF IInv, SeenInv, Sound
  <2>7. ReadInv' /\ ScanInv'
    BY <2>2 DEF ReadInv, ScanInv
  <2>8. ASSUME NEW c \in rows, c.shows
        PROVE  c.process.ticks = NoTicks /\ Later(Identity(c.process.pid))
    <3>1. PICK p \in listed : c = [process |-> [pid |-> p, ticks |-> NoTicks],
                                   nodes |-> <<>>, shows |-> proc[p].link = "pane"]
      OBVIOUS
    <3>2. Running(p) /\ p \in Pids /\ proc[p].prog = "tmux" /\ proc[p].link = "pane"
      BY <2>8, <3>1
    <3>3. Identity(p) \in Witnesses(proc)
      BY <1>1, <3>2 DEF Witnesses, Witness, Identity, Running, Exists
    <3>4. Identity(p) \in shown
      BY <3>3 DEF IInv, HistoryInv
    <3> QED BY <3>1, <3>4 DEF Later
  <2>9. ASSUME NEW s \in steady
        PROVE  \E c \in rows : /\ c.shows /\ s[2].pid \in SeqElems(queue')
                               /\ c.process = [pid |-> s[2].pid, ticks |-> NoTicks]
    <3>1. s[2] \in Witnesses(proc)
      BY <1>5
    <3>2. s[2].pid \in listed /\ proc[s[2].pid].link = "pane"
      BY <1>4, <3>1
    <3> HIDE DEF rows, row, listed
    <3> QED BY <1>r, <2>1, <3>2
  <2>10. /\ \A p \in listed : \E c \in rows : c.process = [pid |-> p, ticks |-> NoTicks]
         /\ \A c, d \in rows : c.process = d.process => c = d
    <3>1. \A c \in rows : \E p \in listed : c = row(p)
      OBVIOUS
    <3> HIDE DEF rows, row, listed
    <3>2. ASSUME NEW c \in rows, NEW d \in rows, c.process = d.process
          PROVE  c = d
      <4>1. PICK p \in listed, q \in listed : c = row(p) /\ d = row(q)
        BY <3>1
      <4>2. p = q
        <5>1. row(p).process = row(q).process
          BY <3>2, <4>1
        <5>2. [pid |-> p, ticks |-> NoTicks] = [pid |-> q, ticks |-> NoTicks]
          BY <1>r, <5>1
        <5> QED BY <5>2
      <4> QED BY <4>1, <4>2
    <3> QED BY <1>r, <3>2
  <2>11. queue' # <<>>
    BY <1>7, <2>1 DEF SeqElems
  <2>12. \A id : Later(id) => Later(id)'
    BY <2>2 DEF Later
  <2>13. \A p : Identity(p)' = Identity(p)
    BY <2>2 DEF Identity
  <2>14. ClientInv'
    <3>1. target'.clients = rows /\ SeqElems(queue)' = listed
      BY <1>3, <2>1, <2>2 DEF SeqElems
    <3> HIDE DEF found, rows, row, listed
    <3>2. \A c \in rows : c.shows =>
            /\ c.process.ticks = NoTicks
            /\ Later(Identity(c.process.pid))'
      BY <2>8, <2>12, <2>13
    <3>3. \A s \in steady : \E c \in rows : /\ c.shows /\ s[2].pid \in SeqElems(queue)'
                               /\ c.process = [pid |-> s[2].pid, ticks |-> NoTicks]
      BY <2>1, <2>9, <3>1
    <3> QED BY <2>1, <2>2, <2>10, <2>11, <3>1, <3>2, <3>3 DEF ClientInv
  <2> QED BY <1>1, <2>3, <2>4, <2>5, <2>6, <2>7, <2>14, ReadingKeeps DEF IInv
<1> QED BY <1>2, <1>6, <1>7 DEF ListClients

LEMMA IdentifyClientKeeps == ASSUME IInv, IdentifyClient PROVE IInv'
<1> DEFINE row == CHOOSE c \in target.clients : c.process = [pid |-> Here, ticks |-> NoTicks]
           others == target.clients \ {row}
           known == [row EXCEPT !.process = Identity(Here)]
           unknown == Error("local_tmux_client_unreadable", TRUE)
<1>1. /\ Reading /\ step = "client" /\ step \in TargetSteps /\ OnTarget /\ req.tmux
      /\ target \in Targets /\ target.clients \subseteq Rows /\ target.errors # {}
  <2>1. Reading /\ step = "client" /\ step \in TargetSteps
    BY DEF IdentifyClient, TargetSteps
  <2>2. target \in Targets /\ OnTarget /\ req.tmux /\ target.errors # {}
    BY <2>1 DEF IInv, PlaceInv, ShapeInv
  <2> QED BY <2>1, <2>2 DEF Targets
<1>2. /\ queue \in Seq(Pids) /\ queue # <<>>
      /\ \A i, j \in DOMAIN queue : queue[i] = queue[j] => i = j
      /\ \A p \in SeqElems(queue) :
            \E c \in target.clients : c.process = [pid |-> p, ticks |-> NoTicks]
      /\ \A c, d \in target.clients :
            c.process = d.process /\ c.process.ticks = NoTicks => c = d
  BY <1>1 DEF IInv, ClientInv, ShapeInv
<1>3. /\ Tail(queue) \in Seq(Pids) /\ Here \in Pids
      /\ SeqElems(queue) = {Here} \cup SeqElems(Tail(queue))
      /\ Here \notin SeqElems(Tail(queue))
      /\ \A i, j \in DOMAIN Tail(queue) : Tail(queue)[i] = Tail(queue)[j] => i = j
  BY <1>2, TailElems DEF Here
<1>4. row \in target.clients /\ row.process = [pid |-> Here, ticks |-> NoTicks] /\ row \in Rows
  BY <1>1, <1>2, <1>3
<1>5. /\ UNCHANGED <<req, windows, seen, visited, kept, node, late, answer, steady, proc,
                     shown>>
      /\ queue' = Tail(queue)
      /\ step' = IF Tail(queue) = <<>> THEN "decide" ELSE "client"
      /\ target' = IF Exists(Here)
                   THEN [target EXCEPT !.clients = others \cup {known}]
                   ELSE [target EXCEPT !.clients = others,
                                       !.errors = target.errors \cup {unknown}]
  BY <1>1 DEF IdentifyClient, Reading, procVars
<1>6. step' \in TargetSteps /\ step' \notin ScanSteps /\ step' \notin NodeSteps
      /\ step' \in {"client", "decide"}
  BY <1>5 DEF TargetSteps, ScanSteps, NodeSteps
<1>7. /\ known \in Rows /\ known.process = Identity(Here) /\ (known.shows <=> row.shows)
      /\ Exists(Here) => Identity(Here).ticks # NoTicks /\ Identity(Here).pid = Here
  <2>1. Identity(Here) \in [pid : Pids, ticks : Nat]
    BY <1>3 DEF Identity, IInv, KernelInv, Forest, Entries
  <2> HIDE DEF row
  <2>2. known \in Rows /\ known.process = Identity(Here) /\ (known.shows <=> row.shows)
    BY <1>4, <2>1 DEF Rows
  <2> QED BY <2>2 DEF Identity, Exists
<1>8. unknown \in Errors /\ unknown.retryable
  BY DEF Error, Errors, Codes
<1>o. /\ others \subseteq target.clients /\ row \notin others
      /\ \A c \in target.clients : c \in others \/ c = row
  OBVIOUS
<1> HIDE DEF row, others, known, unknown
<1>9. /\ target' \in Targets /\ target'.nodes = target.nodes
      /\ target.errors \subseteq target'.errors
      /\ target'.clients = IF Exists(Here) THEN others \cup {known} ELSE others
      /\ ~Exists(Here) => unknown \in target'.errors
  <2>1. CASE Exists(Here)
    BY <1>1, <1>5, <1>7, <1>o, <2>1 DEF Targets
  <2>2. CASE ~Exists(Here)
    BY <1>1, <1>5, <1>8, <1>o, <2>2 DEF Targets
  <2> QED BY <2>1, <2>2
<1>10. ShapeInv'
  BY <1>3, <1>5, <1>6, <1>9 DEF IInv, ShapeInv
<1>11. PlaceInv'
  <2>1. OnTarget' /\ target'.errors # {} /\ answer' = NoAnswer
    BY <1>1, <1>5, <1>9 DEF OnTarget, IInv, PlaceInv
  <2>2. step' # "children" /\ step' # "done" /\ req'.tmux
    BY <1>1, <1>5, <1>6
  <2> QED BY <1>6, <2>1, <2>2 DEF PlaceInv
<1>12. NodesInv'
  <2>1. AllNodes' = AllNodes
    BY <1>5, <1>9 DEF AllNodes
  <2> QED BY <1>1, <2>1, ReadingKeeps DEF IInv, NodesInv
<1>13. SeenInv'
  BY <1>1, <1>5, ReadingKeeps DEF IInv, SeenInv, Sound
<1>14. ReadInv' /\ ScanInv'
  BY <1>6 DEF ReadInv, ScanInv
<1>15. ClientInv'
  <2>1. \A id : Later(id) => Later(id)'
    BY <1>5 DEF Later
  <2>2. \A p : Identity(p)' = Identity(p) /\ (Exists(p)' <=> Exists(p))
    BY <1>5 DEF Identity, Exists
  <2>3. ASSUME NEW c \in target.clients, c.shows
        PROVE  IF c.process.ticks # NoTicks THEN Later(c.process)
               ELSE Exists(c.process.pid) => Later(Identity(c.process.pid))
    BY <1>1, <2>3 DEF IInv, ClientInv
  <2>4. ASSUME NEW c \in target'.clients, c.shows
        PROVE  IF c.process.ticks # NoTicks THEN Later(c.process)
               ELSE Exists(c.process.pid) => Later(Identity(c.process.pid))
    <3>1. CASE c \in others
      BY <1>o, <2>3, <2>4, <3>1
    <3>2. CASE Exists(Here) /\ c = known
      <4>1. Later(Identity(Here))
        BY <1>4, <1>7, <2>3, <2>4, <3>2
      <4> QED BY <1>7, <3>2, <4>1
    <3> QED BY <1>9, <3>1, <3>2
  <2>5. ASSUME ~Retryable(target'.errors), NEW s \in steady
        PROVE  \E c \in target'.clients :
                 /\ c.shows
                 /\ \/ c.process = s[2]
                    \/ /\ step' = "client" /\ s[2].pid \in SeqElems(queue')
                       /\ c.process = [pid |-> s[2].pid, ticks |-> NoTicks]
    <3>1. Exists(Here) /\ ~Retryable(target.errors)
      BY <1>8, <1>9, <2>5 DEF Retryable
    <3>2. s[2] \in Witnesses(proc)
      BY DEF IInv, HistoryInv, Holding
    <3>3. s[2] = Identity(s[2].pid) /\ s[2] \in LiveIds
      BY <3>2, WitnessFacts DEF IInv
    <3>4. PICK c \in target.clients :
            /\ c.shows
            /\ \/ c.process = s[2]
               \/ /\ s[2].pid \in SeqElems(queue)
                  /\ c.process = [pid |-> s[2].pid, ticks |-> NoTicks]
      BY <1>1, <3>1 DEF IInv, ClientInv
    <3>5. CASE c.process = s[2]
      <4>1. c # row
        <5>1. s[2].ticks # NoTicks
          BY <3>3 DEF LiveIds, NoTicks
        <5> QED BY <1>4, <3>5, <5>1
      <4> QED BY <1>9, <1>o, <3>1, <3>4, <3>5, <4>1
    <3>6. CASE /\ s[2].pid = Here
               /\ c.process = [pid |-> s[2].pid, ticks |-> NoTicks]
      <4>1. c = row
        BY <1>2, <1>4, <3>4, <3>6
      <4> QED BY <1>7, <1>9, <3>1, <3>3, <3>4, <3>6, <4>1
    <3>7. CASE /\ s[2].pid # Here /\ s[2].pid \in SeqElems(queue)
               /\ c.process = [pid |-> s[2].pid, ticks |-> NoTicks]
      <4>1. c # row
        BY <1>4, <3>7
      <4>2. s[2].pid \in SeqElems(queue')
        BY <1>3, <1>5, <3>7
      <4>3. step' = "client"
        <5>1. Tail(queue) # <<>>
          BY <1>3, <3>7, NoElems
        <5> QED BY <1>5, <5>1
      <4> QED BY <1>9, <1>o, <3>1, <3>4, <3>7, <4>1, <4>2, <4>3
    <3> QED BY <3>4, <3>5, <3>6, <3>7
  <2>6. step' = "client" => queue' # <<>>
    BY <1>5
  <2>7. ASSUME NEW p \in SeqElems(queue')
        PROVE  \E c \in target'.clients : c.process = [pid |-> p, ticks |-> NoTicks]
    <3>1. p \in SeqElems(queue) /\ p # Here
      BY <1>3, <1>5, <2>7
    <3>2. PICK c \in target.clients : c.process = [pid |-> p, ticks |-> NoTicks]
      BY <1>2, <3>1
    <3>3. c # row
      BY <1>4, <3>1, <3>2
    <3> QED BY <1>9, <1>o, <3>2, <3>3
  <2>8. ASSUME NEW c \in target'.clients, NEW d \in target'.clients,
               c.process = d.process, c.process.ticks = NoTicks
        PROVE  c = d
    <3>1. c \in others /\ d \in others
      BY <1>7, <1>9, <2>8
    <3> QED BY <1>2, <1>o, <2>8, <3>1
  <2>9. \A i, j \in DOMAIN queue' : queue'[i] = queue'[j] => i = j
    BY <1>3, <1>5
  <2>10. SeqElems(queue)' = SeqElems(queue') /\ steady' = steady
    BY <1>5 DEF SeqElems
  <2>11. \A c \in target'.clients : c.shows =>
            IF c.process.ticks # NoTicks THEN Later(c.process)'
            ELSE Exists(c.process.pid)' => Later(Identity(c.process.pid))'
    BY <2>1, <2>2, <2>4
  <2> QED BY <2>5, <2>6, <2>7, <2>8, <2>9, <2>10, <2>11 DEF ClientInv
<1> QED BY <1>1, <1>10, <1>11, <1>12, <1>13, <1>14, <1>15, ReadingKeeps DEF IInv

LEMMA DecideKeeps == ASSUME IInv, Decide PROVE IInv'
<1>1. /\ step = "decide" /\ step' = "done" /\ answer' = Resolve(req, seen, target, late)
      /\ UNCHANGED <<procVars, req, windows, seen, target, queue, visited, kept, node,
                     late, steady, shown>>
      /\ step \in TargetSteps /\ step' \in TargetSteps
      /\ step' \notin ScanSteps /\ step' \notin NodeSteps
  BY DEF Decide, TargetSteps, ScanSteps, NodeSteps
<1>2. KernelInv' /\ RequestInv' /\ HistoryInv'
  BY <1>1 DEF IInv, procVars, KernelInv, Born, RequestInv, HistoryInv, Holding, Witnesses,
              Witness
<1>3. ShapeInv'
  BY <1>1 DEF IInv, ShapeInv
<1>4. PlaceInv'
  BY <1>1 DEF IInv, PlaceInv, OnTarget
<1>5. NodesInv'
  <2>1. AllNodes' = AllNodes /\ Born' = Born /\ UNCHANGED <<proc, lineage>>
    BY <1>1 DEF AllNodes, Born, procVars
  <2>2. \A n : TrueNode(n) => TrueNode(n)'
    BY <2>1 DEF TrueNode
  <2> QED BY <2>1, <2>2 DEF IInv, NodesInv
<1>6. ReadInv' /\ ScanInv'
  BY <1>1 DEF ReadInv, ScanInv
<1>7. SeenInv'
  BY <1>1 DEF IInv, procVars, SeenInv, Sound, Covers, Path
<1>8. ClientInv'
  BY <1>1 DEF IInv, procVars, ClientInv, Later, Exists, Identity
<1> QED BY <1>2, <1>3, <1>4, <1>5, <1>6, <1>7, <1>8 DEF IInv

LEMMA StutterKeeps == ASSUME IInv, UNCHANGED vars PROVE IInv'
<1>1. UNCHANGED <<proc, churn, lineage, req, windows, seen, target, queue, visited, kept,
                  step, node, late, answer, steady, shown>>
  BY DEF vars, procVars, scanVars
<1>2. KernelInv' /\ RequestInv' /\ HistoryInv'
  BY <1>1 DEF IInv, KernelInv, Born, RequestInv, HistoryInv, Holding, Witnesses, Witness
<1>3. ShapeInv' /\ PlaceInv'
  BY <1>1 DEF IInv, ShapeInv, PlaceInv, OnTarget, Here
<1>4. NodesInv'
  <2>1. AllNodes' = AllNodes /\ \A n : TrueNode(n) => TrueNode(n)'
    BY <1>1 DEF AllNodes, TrueNode, Born
  <2> QED BY <2>1 DEF IInv, NodesInv
<1>5. ReadInv'
  BY <1>1 DEF IInv, ReadInv, Here, Born
<1>6. ScanInv' /\ SeenInv' /\ ClientInv'
  BY <1>1 DEF IInv, ScanInv, OnTarget, Current, Here, Path, SeenInv, Covers, ClientInv, Later,
              Exists, Identity
<1> QED BY <1>2, <1>3, <1>4, <1>5, <1>6 DEF IInv

\* The inductive invariant holds in every reachable state.
THEOREM Invariance == Spec => []IInv
<1>1. Init => IInv
  BY InitInv
<1>2. IInv /\ [Next]_vars => IInv'
  <2> SUFFICES ASSUME IInv, [Next]_vars PROVE IInv'
    OBVIOUS
  <2>1. CASE ReadStat \/ ReadProgram \/ ReadStatAgain \/ ReadProgramAgain \/ ReadParent
    BY <2>1, ReadStatKeeps, ReadProgramKeeps, ReadStatAgainKeeps, ReadProgramAgainKeeps,
       ReadParentKeeps
  <2>2. CASE ReadZombie \/ ReadZombieChildren \/ ReadChildren
    BY <2>2, ReadZombieKeeps, ReadZombieChildrenKeeps, ReadChildrenKeeps
  <2>3. CASE ListClients \/ IdentifyClient \/ Decide
    BY <2>3, ListClientsKeeps, IdentifyClientKeeps, DecideKeeps
  <2>4. CASE DeadlinePasses \/ ProcessesGoOn
    BY <2>4, DeadlineKeeps, GoOnKeeps
  <2>5. CASE UNCHANGED vars
    BY <2>5, StutterKeeps
  <2> QED BY <2>1, <2>2, <2>3, <2>4, <2>5 DEF Next
<1> QED BY <1>1, <1>2, PTL DEF Spec

-----------------------------------------------------------------------------
(* What the invariant says of the answer.                                  *)

\* The nodes of an observation are true, of different processes, and younger
\* than their parents.
LEMMA SeenNodes ==
    ASSUME IInv, NEW i \in DOMAIN seen
    PROVE  /\ seen[i] \in Observations /\ seen[i].nodes \in Seq(Nodes)
           /\ Distinct(seen[i].nodes)
           /\ i \in DOMAIN windows /\ seen[i].window = windows[i] /\ windows[i] \in Windows
           /\ windows[i].root # NoId
           /\ \A n \in SeqElems(seen[i].nodes) :
                 n \in Nodes /\ TrueNode(n) /\ Younger(n) /\ n.id # NoId
<1>1. /\ seen \in Seq(Observations) /\ windows \in Seq(Windows)
      /\ Len(seen) <= Len(windows)
  BY DEF IInv, ShapeInv, RequestInv
<1>2. i \in 1..Len(seen) /\ Len(seen) \in Nat /\ Len(windows) \in Nat
  BY <1>1
<1>3. i \in DOMAIN windows /\ i \in 1..Len(windows)
  BY <1>1, <1>2
<1>4. seen[i] \in Observations /\ windows[i] \in Windows
  BY <1>1, <1>3
<1>5. seen[i].nodes \in Seq(Nodes)
  BY <1>4 DEF Observations
<1>6. Distinct(seen[i].nodes) /\ seen[i].window = windows[i]
  BY DEF IInv, SeenInv
<1>7. windows[i].root # NoId
  <2>1. windows[i].root.ticks # 0
    BY <1>4 DEF Windows
  <2> QED BY <2>1 DEF NoId
<1>8. ASSUME NEW n \in SeqElems(seen[i].nodes)
      PROVE  n \in Nodes /\ TrueNode(n) /\ Younger(n) /\ n.id # NoId
  <2>1. n \in AllNodes
    BY DEF AllNodes
  <2>2. n \in Nodes /\ TrueNode(n)
    BY <2>1, NodeMember DEF IInv, NodesInv
  <2>3. n.id \in LiveIds /\ n.parent \in LiveIds \cup {NoId}
    BY <2>2 DEF Nodes
  <2>4. n.id.ticks \in Nat \ {0} /\ n.parent.ticks \in Nat /\ n.id # NoId
    BY <2>3 DEF LiveIds, NoId
  <2>5. CASE n.parent = NoId
    BY <2>2, <2>4, <2>5 DEF Younger, NoId
  <2>6. CASE n.parent # NoId
    <3>1. <<n.id, n.parent>> \in lineage
      BY <2>2, <2>6 DEF TrueNode
    <3>2. n.parent.ticks < n.id.ticks
      BY <3>1 DEF IInv, KernelInv
    <3> QED BY <2>2, <2>4, <3>2 DEF Younger
  <2> QED BY <2>5, <2>6
<1> QED BY <1>3, <1>4, <1>5, <1>6, <1>7, <1>8

\* What is in the tree of a window was below its process.
LEMMA TreeWasTrue ==
    ASSUME IInv, NEW i \in DOMAIN seen, NEW n \in WindowSubtree(seen[i]).nodes
    PROVE  n \in SeqElems(seen[i].nodes) /\ WasBelow(n.id, windows[i].root)
<1> DEFINE index == GraphIndex(seen[i].nodes)
<1>1. seen[i].nodes \in Seq(Nodes) /\ seen[i].window = windows[i]
  BY SeenNodes
<1>2. n \in index /\ AncestorContains(index, n.id, windows[i].root)
  BY <1>1, TreeMeans
<1>3. index \subseteq SeqElems(seen[i].nodes)
  BY <1>1, IndexRead
<1>4. \A m \in index : m.id # NoId /\ (m.parent # NoId => <<m.id, m.parent>> \in lineage)
  BY <1>3, SeenNodes DEF TrueNode
<1> HIDE DEF index
<1>5. windows[i].root \in Above(lineage, n.id)
  BY <1>2, <1>4, ClimbWasTrue
<1> QED BY <1>2, <1>3, <1>5 DEF WasBelow

\* Without its root a tree is not complete; with it a match looks at the tree.
LEMMA MatchTree ==
    ASSUME IInv, NEW i \in DOMAIN seen,
           \/ WindowSubtree(seen[i]).complete
           \/ ~RootLost(i)
    PROVE  MatchNodes(seen[i]) = WindowSubtree(seen[i]).nodes
<1> DEFINE index == GraphIndex(seen[i].nodes)
<1>1. seen[i].nodes \in Seq(Nodes) /\ seen[i].window = windows[i] /\ windows[i].root # NoId
  BY SeenNodes
<1>2. \E n \in index : n.id = windows[i].root
  <2>1. CASE WindowSubtree(seen[i]).complete
    BY <1>1, <2>1 DEF WindowSubtree
  <2>2. CASE ~RootLost(i)
    <3>1. seen[i].nodes[1] \in index
      BY <1>1, <2>2, IndexRead DEF RootLost
    <3> QED BY <2>2, <3>1 DEF RootLost
  <2> QED BY <2>1, <2>2
<1>3. WindowSubtree(seen[i]).nodes # {}
  BY <1>1, <1>2, TreeHasRoot
<1> QED BY <1>3 DEF MatchNodes

\* What was steady is in the tree of a window that was read soundly.
LEMMA SureTree ==
    ASSUME IInv, Decided, NEW s \in steady, NEW i \in DOMAIN seen, i = s[1], Sound(seen[i])
    PROVE  /\ WindowSubtree(seen[i]).complete
           /\ \E n \in WindowSubtree(seen[i]).nodes : n.id = s[2]
           /\ s[2] \in Witnesses(proc)
<1> DEFINE L == Pairs(proc)
           index == GraphIndex(seen[i].nodes)
           root == windows[i].root
<1>1. s[2] \in Witnesses(proc) /\ root \in Above(L, s[2])
  BY DEF IInv, HistoryInv, Holding
<1>2. /\ seen[i].nodes \in Seq(Nodes) /\ Distinct(seen[i].nodes)
      /\ seen[i].window = windows[i] /\ root # NoId
      /\ \A n \in SeqElems(seen[i].nodes) : TrueNode(n) /\ Younger(n)
  BY SeenNodes
<1>3. index = SeqElems(seen[i].nodes) /\ GraphComplete(seen[i].nodes)
  BY <1>2, IndexAll, Acyclic
<1>4. Covers(i, seen[i].nodes)
  BY DEF IInv, SeenInv
<1>5. ASSUME NEW y \in Above(L, s[2]), root \in Above(L, y)
      PROVE  \E n \in index : n.id = y /\ \A l \in L : l[1] = y => l[2] = n.parent
  <2>1. y \in Path(i, s[2])
    BY <1>5 DEF Path
  <2>2. PICK n \in SeqElems(seen[i].nodes) : n.id = y
    BY <1>4, <2>1 DEF Covers
  <2>3. TrueNode(n)
    BY <1>2, <2>2
  <2> QED BY <1>3, <2>2, <2>3 DEF TrueNode
<1>6. PICK m \in index : m.id = s[2]
  BY <1>1, <1>5, AboveSelf
<1> HIDE DEF index, root, L
<1>7. AncestorContains(index, s[2], root)
  BY <1>1, <1>2, <1>5, ClimbReaches
<1>8. \E n \in index : n.id = root
  BY <1>7, ContainsMeans
<1>9. WindowSubtree(seen[i]).complete
  BY <1>2, <1>3, <1>8 DEF WindowSubtree, index, root
<1>10. m \in WindowSubtree(seen[i]).nodes
  BY <1>2, <1>6, <1>7, TreeMeans DEF index, root
<1> QED BY <1>1, <1>6, <1>9, <1>10

LEMMA DecidedFacts ==
    ASSUME IInv, Decided
    PROVE  /\ DOMAIN seen = DOMAIN windows
           /\ answer = Resolve(req, seen, target, late)
           /\ req.op \in {"match", "resolve", "revalidate"}
           /\ req.local = TRUE /\ req.relation = "visible_exact"
           /\ req.tmux => req.op = "match" /\ TargetFailure(req, target) # "none"
           /\ ~req.tmux => target.clients = {}
<1>1. step = "done" /\ step \in TargetSteps
  BY DEF Decided, TargetSteps
<1>2. OnTarget /\ answer = Resolve(req, seen, target, late)
      /\ (req.tmux => target.errors # {}) /\ (~req.tmux => target.clients = {})
  BY <1>1 DEF IInv, PlaceInv
<1>3. DOMAIN seen = DOMAIN windows
  <2>1. seen \in Seq(Observations) /\ windows \in Seq(Windows)
    BY DEF IInv, ShapeInv, RequestInv
  <2> QED BY <1>2, <2>1 DEF OnTarget
<1>4. /\ req.op \in {"match", "resolve", "revalidate"} /\ req.local = TRUE
      /\ req.relation = "visible_exact" /\ (req.tmux => req.op = "match")
  BY DEF IInv, RequestInv, Asked
<1>5. req.tmux => TargetFailure(req, target) # "none"
  BY <1>2 DEF TargetFailure, Sound
<1> QED BY <1>2, <1>3, <1>4, <1>5

\* A pick is an observed window: a match scored it, or the strict conditions
\* hold of it.
LEMMA PickMeans ==
    ASSUME IInv, Decided, NEW p \in answer.picks
    PROVE  \E i \in DOMAIN seen :
             /\ p.window = windows[i]
             /\ \/ /\ req.op = "match" /\ p.score # -1
                   /\ p.score = MatchScore(req, seen[i], target)
                \/ /\ ~req.tmux /\ StrictCandidate(req, seen[i], target)
<1>1. /\ answer = Resolve(req, seen, target, late)
      /\ \A i \in DOMAIN seen : seen[i].window = windows[i]
  BY DecidedFacts, SeenNodes
<1>2. CASE req.op = "match"
  <2>1. answer = MatchAnswer(req, seen, target)
    BY <1>1, <1>2 DEF Resolve
  <2>2. answer.picks \subseteq
          {q \in {[window |-> seen[i].window, score |-> MatchScore(req, seen[i], target)] :
                    i \in DOMAIN seen} : q.score # -1}
    BY <2>1 DEF MatchAnswer, Answer
  <2> QED BY <1>1, <1>2, <2>2
<1>3. CASE req.op # "match"
  <2> DEFINE considered == {o \in SeqElems(seen) : req.op = "revalidate" => o.window = req.prior}
             found == {o \in considered : StrictCandidate(req, o, target)}
  <2>1. answer.picks = {} \/ answer = StrictAnswer(req, considered, target)
    BY <1>1, <1>3, DecidedFacts DEF Resolve, Answer
  <2>2. answer.picks \subseteq {[window |-> o.window, score |-> 100] : o \in found}
    BY <2>1 DEF StrictAnswer, Answer
  <2>3. PICK o \in found : p = [window |-> o.window, score |-> 100]
    BY <2>2
  <2>4. PICK i \in DOMAIN seen : o = seen[i]
    BY <2>3 DEF SeqElems
  <2>5. ~req.tmux
    BY <1>3, DecidedFacts
  <2> QED BY <1>1, <2>3, <2>4, <2>5
<1> QED BY <1>2, <1>3

\* A score of 100 needs the target in the tree of the window.
LEMMA HundredMeans ==
    ASSUME IInv, Decided, NEW i \in DOMAIN seen,
           100 \in ProofScores(req, seen[i], target)
    PROVE  \E n \in WindowSubtree(seen[i]).nodes : n.id = req.target
<1> DEFINE strict == [req EXCEPT !.relation = "visible_exact"]
           tree == WindowSubtree(seen[i])
<1>1. \/ TargetFailure(req, target) = "none" /\ StrictCandidate(strict, seen[i], target)
      \/ tree.complete /\ \E n \in MatchNodes(seen[i]) : n.id = req.target
  BY DEF ProofScores
<1>2. CASE TargetFailure(req, target) = "none" /\ StrictCandidate(strict, seen[i], target)
  <2>1. ~req.tmux
    BY <1>2, DecidedFacts
  <2>2. strict.tmux = req.tmux /\ strict.target = req.target
    BY DEF IInv, RequestInv, Asked
  <2> HIDE DEF strict
  <2> QED BY <1>2, <2>1, <2>2 DEF StrictCandidate
<1>3. CASE tree.complete /\ \E n \in MatchNodes(seen[i]) : n.id = req.target
  BY <1>3, MatchTree
<1> QED BY <1>1, <1>2, <1>3

LEMMA ProvenHeld == IInv => ProvenWindowHeldTheTarget
<1> SUFFICES ASSUME IInv, Decided, NEW p \in answer.picks, p.score = 100
             PROVE  WasBelow(req.target, p.window.root)
  BY DEF ProvenWindowHeldTheTarget
<1>1. PICK i \in DOMAIN seen :
        /\ p.window = windows[i]
        /\ \/ /\ req.op = "match" /\ p.score # -1
              /\ p.score = MatchScore(req, seen[i], target)
           \/ /\ ~req.tmux /\ StrictCandidate(req, seen[i], target)
  BY PickMeans
<1>2. \E n \in WindowSubtree(seen[i]).nodes : n.id = req.target
  <2>1. CASE p.score = MatchScore(req, seen[i], target)
    <3>1. 100 \in ProofScores(req, seen[i], target)
      BY <2>1, ScoreMeans
    <3> QED BY <3>1, HundredMeans
  <2>2. CASE ~req.tmux /\ StrictCandidate(req, seen[i], target)
    BY <2>2 DEF StrictCandidate
  <2> QED BY <1>1, <2>1, <2>2
<1> QED BY <1>1, <1>2, TreeWasTrue

\* A window that surely held the target, or a client at its pane, satisfies
\* the conditions of a strict answer, or scores as proven in a match.
LEMMA SureIsStrict ==
    ASSUME IInv, Decided, NEW s \in steady, NEW i \in DOMAIN seen, i = s[1],
           Sound(seen[i]), ~req.tmux
    PROVE  StrictCandidate(req, seen[i], target)
<1>1. /\ WindowSubtree(seen[i]).complete
      /\ \E n \in WindowSubtree(seen[i]).nodes : n.id = s[2]
      /\ s[2] \in Witnesses(proc)
  BY SureTree
<1>2. s[2] = req.target
  BY <1>1 DEF Witnesses, Witness
<1>3. Cardinality({c.process : c \in target.clients}) = Cardinality(target.clients)
  <2>1. target.clients = {} /\ {c.process : c \in target.clients} = {}
    BY DecidedFacts
  <2> QED BY <2>1
<1> QED BY <1>1, <1>2, <1>3, DecidedFacts DEF StrictCandidate

LEMMA SureIsProven ==
    ASSUME IInv, Decided, NEW s \in steady, NEW i \in DOMAIN seen, i = s[1],
           Sound(seen[i]), ~Retryable(target.errors)
    PROVE  ProofScores(req, seen[i], target) # {}
<1>1. /\ WindowSubtree(seen[i]).complete
      /\ s[2] \in Witnesses(proc)
  BY SureTree
<1>2. PICK n \in WindowSubtree(seen[i]).nodes : n.id = s[2]
  BY SureTree
<1>3. MatchNodes(seen[i]) = WindowSubtree(seen[i]).nodes /\ req.local
  BY <1>1, MatchTree, DecidedFacts
<1>4. CASE ~req.tmux
  <2>1. s[2] = req.target
    BY <1>1, <1>4 DEF Witnesses, Witness
  <2>2. 100 \in ProofScores(req, seen[i], target)
    BY <1>1, <1>2, <1>3, <2>1 DEF ProofScores
  <2> QED BY <2>2
<1>5. CASE req.tmux
  <2>1. step \in TargetSteps /\ step # "client"
    BY DEF Decided, TargetSteps
  <2>2. PICK c \in target.clients : c.shows /\ c.process = s[2]
    BY <1>5, <2>1 DEF IInv, ClientInv
  <2>3. c \in MatchClients(MatchNodes(seen[i]), target)
    BY <1>2, <1>3, <2>2 DEF MatchClients, LocalClients
  <2>4. 92 \in ProofScores(req, seen[i], target)
    BY <1>3, <1>5, <2>3 DEF ProofScores
  <2> QED BY <2>4
<1> QED BY <1>4, <1>5

LEMMA SeenFinite ==
    ASSUME IInv
    PROVE  IsFiniteSet(SeqElems(seen))
<1>1. Len(seen) \in Nat /\ DOMAIN seen = 1..Len(seen)
  BY DEF IInv, ShapeInv
<1>2. IsFiniteSet(DOMAIN seen)
  BY <1>1, FS_Interval
<1>3. seen \in Surjection(DOMAIN seen, SeqElems(seen))
  <2>1. seen = [i \in DOMAIN seen |-> seen[i]]
    BY DEF IInv, ShapeInv
  <2> QED BY <2>1 DEF Surjection, SeqElems
<1> QED BY <1>2, <1>3, FS_Surjection

LEMMA NoneMissed == IInv => AbsenceIsProven
<1> SUFFICES ASSUME IInv, Decided, answer.reason = "candidate_count",
                    answer.status = "unresolved", NEW s \in steady
             PROVE  FALSE
  BY DEF AbsenceIsProven
<1> DEFINE i == s[1]
<1>1. /\ i \in DOMAIN seen /\ answer = Resolve(req, seen, target, late)
      /\ req.op \in {"match", "resolve", "revalidate"}
  BY DecidedFacts DEF IInv, HistoryInv, Holding
<1> HIDE DEF i
<1>2. CASE req.op = "match"
  <2> DEFINE picks == {p \in {[window |-> seen[j].window,
                               score |-> MatchScore(req, seen[j], target)] : j \in DOMAIN seen} :
                          p.score # -1}
             pick == [window |-> seen[i].window, score |-> MatchScore(req, seen[i], target)]
  <2>1. answer = MatchAnswer(req, seen, target)
    BY <1>1, <1>2 DEF Resolve
  <2>2. /\ picks = {}
        /\ ~Retryable(target.errors) /\ \A j \in DOMAIN seen : Sound(seen[j])
    BY <2>1 DEF MatchAnswer, Answer
  <2>3. MatchScore(req, seen[i], target) >= 92
    <3>1. ProofScores(req, seen[i], target) # {}
      BY <1>1, <2>2, SureIsProven DEF i
    <3> QED BY <3>1, ScoreMeans
  <2>4. pick.score # -1
    BY <2>3
  <2>5. pick \in picks
    BY <1>1, <2>4
  <2> QED BY <2>2, <2>5
<1>3. CASE req.op # "match"
  <2> DEFINE considered == {o \in SeqElems(seen) : req.op = "revalidate" => o.window = req.prior}
             found == {o \in considered : StrictCandidate(req, o, target)}
  <2>1. answer = StrictAnswer(req, considered, target)
    <3>1. TargetFailure(req, target) # "candidate_count"
      BY DEF TargetFailure
    <3> HIDE DEF considered
    <3> QED BY <1>1, <1>3, <3>1 DEF Resolve, Answer, considered
  <2>2. /\ \A o \in considered : Sound(o)
        /\ req.op = "resolve" /\ Cardinality(found) # 1 /\ ~(Cardinality(found) > 1)
    <3> HIDE DEF considered
    <3> QED BY <1>1, <1>3, <2>1 DEF StrictAnswer, Answer
  <2>3. seen[i] \in considered
    BY <1>1, <2>2 DEF SeqElems
  <2>4. seen[i] \in found
    BY <1>1, <1>3, <2>2, <2>3, SureIsStrict, DecidedFacts DEF i, IInv, RequestInv
  <2>5. IsFiniteSet(found)
    <3>1. IsFiniteSet(SeqElems(seen))
      BY SeenFinite
    <3>2. found \subseteq SeqElems(seen)
      OBVIOUS
    <3> QED BY <3>1, <3>2, FS_Subset
  <2> HIDE DEF considered, found
  <2>6. Cardinality(found) \in Nat /\ Cardinality(found) # 0
    BY <2>4, <2>5, FS_CardinalityType, FS_EmptySet
  <2> QED BY <2>2, <2>6
<1> QED BY <1>2, <1>3

LEMMA StrictPick == IInv => StrictPickIsTheOnlyOne
<1> SUFFICES ASSUME IInv, Decided, req.op = "resolve", answer.status = "matched",
                    NEW p \in answer.picks, NEW s \in steady
             PROVE  windows[s[1]] = p.window
  BY DEF StrictPickIsTheOnlyOne
<1> DEFINE i == s[1]
           considered == {o \in SeqElems(seen) : req.op = "revalidate" => o.window = req.prior}
           found == {o \in considered : StrictCandidate(req, o, target)}
<1>1. /\ i \in DOMAIN seen /\ answer = Resolve(req, seen, target, late) /\ ~req.tmux
  BY DecidedFacts DEF IInv, HistoryInv, Holding
<1>2. answer = StrictAnswer(req, considered, target)
  <2> HIDE DEF considered, i
  <2> QED BY <1>1 DEF Resolve, Answer, considered
<1>3. /\ \A o \in considered : Sound(o)
      /\ Cardinality(found) = 1
      /\ answer.picks = {[window |-> o.window, score |-> 100] : o \in found}
  <2> HIDE DEF considered, i
  <2> QED BY <1>2 DEF StrictAnswer, Answer
<1>4. seen[i] \in considered
  BY <1>1 DEF SeqElems
<1> HIDE DEF i
<1>5. seen[i] \in found
  BY <1>1, <1>3, <1>4, SureIsStrict DEF i
<1>6. PICK x : found = {x}
  <2>1. IsFiniteSet(found)
    <3>1. found \subseteq SeqElems(seen)
      OBVIOUS
    <3> QED BY <3>1, SeenFinite, FS_Subset
  <2> HIDE DEF found
  <2> QED BY <1>3, <2>1, FS_Singleton
<1>7. p.window = seen[i].window
  <2> HIDE DEF found
  <2> QED BY <1>3, <1>5, <1>6
<1> QED BY <1>1, <1>7, SeenNodes DEF i

\* A window that scores as proven held the target, or a client at its pane, at
\* some time, unless its own process is gone.
LEMMA ProvenHeldSomeone ==
    ASSUME IInv, Decided, NEW j \in DOMAIN seen,
           ProofScores(req, seen[j], target) # {}, ~RootLost(j)
    PROVE  \E id \in shown \cup {req.target} : WasBelow(id, windows[j].root)
<1>1. MatchNodes(seen[j]) = WindowSubtree(seen[j]).nodes
  BY MatchTree
<1>2. CASE 100 \in ProofScores(req, seen[j], target)
  <2>1. PICK n \in WindowSubtree(seen[j]).nodes : n.id = req.target
    BY <1>2, HundredMeans
  <2>2. WasBelow(req.target, windows[j].root)
    BY <2>1, TreeWasTrue
  <2> QED BY <2>2
<1>3. CASE 100 \notin ProofScores(req, seen[j], target)
  <2>1. req.tmux /\ MatchClients(MatchNodes(seen[j]), target) # {}
    BY <1>3 DEF ProofScores
  <2>2. PICK c \in target.clients :
          c.shows /\ \E n \in WindowSubtree(seen[j]).nodes : n.id = c.process
    BY <1>1, <2>1 DEF MatchClients, LocalClients
  <2>3. PICK n \in WindowSubtree(seen[j]).nodes : n.id = c.process
    BY <2>2
  <2>4. /\ n \in SeqElems(seen[j].nodes) /\ n \in Nodes
        /\ WasBelow(c.process, windows[j].root)
    BY <2>3, TreeWasTrue, SeenNodes
  <2>5. c.process.ticks \in Nat \ {0}
    BY <2>3, <2>4 DEF Nodes, LiveIds
  <2>6. Later(c.process)
    BY <2>1, <2>2, <2>5 DEF IInv, ClientInv, NoTicks
  <2>7. c.process \in shown
    BY <2>3, <2>4, <2>5, <2>6 DEF Later
  <2> QED BY <2>4, <2>7
<1> QED BY <1>2, <1>3

LEMMA HintsOutranked == IInv => ProofOutranksHints
<1> DEFINE sure == {s[1] : s \in steady} \cap
                     {i \in DOMAIN seen : Sound(seen[i]) /\ ~Retryable(target.errors)}
           stables == {windows[i].stable : i \in DOMAIN windows}
<1> SUFFICES ASSUME IInv, Decided, req.op = "match", answer.picks # {}, sure # {},
                    NEW f \in [stables -> 1..Len(windows)], NEW a \in stables \cup {0}
             PROVE  \E i \in DOMAIN seen :
                      /\ windows[i] = Chosen(answer, a, f).window
                      /\ \/ \E id \in shown \cup {req.target} : WasBelow(id, windows[i].root)
                         \/ RootLost(i)
  BY DEF ProofOutranksHints
<1>1. PICK s \in steady : s[1] \in DOMAIN seen /\ Sound(seen[s[1]]) /\ ~Retryable(target.errors)
  OBVIOUS
<1> DEFINE i == s[1]
<1> HIDE DEF sure
<1>2. MatchScore(req, seen[i], target) >= 92
  <2>1. ProofScores(req, seen[i], target) # {}
    BY <1>1, SureIsProven
  <2> QED BY <2>1, ScoreMeans
<1>3. answer = MatchAnswer(req, seen, target)
  BY DecidedFacts DEF Resolve
<1>4. [window |-> seen[i].window, score |-> MatchScore(req, seen[i], target)] \in answer.picks
  <2> DEFINE pick == [window |-> seen[i].window, score |-> MatchScore(req, seen[i], target)]
  <2>1. pick.score # -1
    BY <1>2
  <2>2. answer.picks = {q \in {[window |-> seen[j].window,
                                score |-> MatchScore(req, seen[j], target)] : j \in DOMAIN seen} :
                           q.score # -1}
    BY <1>3 DEF MatchAnswer, Answer
  <2> QED BY <1>1, <2>1, <2>2
<1>5. ASSUME NEW p \in answer.picks
      PROVE  \E j \in DOMAIN seen :
               /\ p.window = windows[j] /\ p.score = MatchScore(req, seen[j], target)
               /\ p.score # -1
  <2>1. answer.picks \subseteq
          {q \in {[window |-> seen[j].window,
                   score |-> MatchScore(req, seen[j], target)] : j \in DOMAIN seen} :
              q.score # -1}
    BY <1>3 DEF MatchAnswer, Answer
  <2> QED BY <2>1, SeenNodes
<1>6. ASSUME NEW p \in answer.picks
      PROVE  /\ p.score \in 0..100 /\ p.window.stable \in Nat /\ f[p.window.stable] \in Nat
  <2>1. PICK j \in DOMAIN seen :
          /\ p.window = windows[j] /\ p.score = MatchScore(req, seen[j], target)
          /\ p.score # -1
    BY <1>5
  <2>2. p.score \in 0..100
    BY <2>1, ScoreMeans
  <2>3. p.window.stable \in stables /\ p.window.stable \in Nat
    BY <2>1, SeenNodes DEF Windows
  <2>4. f[p.window.stable] \in 1..Len(windows) /\ Len(windows) \in Nat
    BY <2>3 DEF IInv, RequestInv
  <2> QED BY <2>2, <2>3, <2>4
<1>7. DEFINE c == Chosen(answer, a, f)
<1>8. c \in answer.picks /\ \A q \in answer.picks : q.score <= c.score
  BY <1>6, ChosenIsBest
<1> HIDE DEF c
<1>9. PICK j \in DOMAIN seen :
        c.window = windows[j] /\ c.score = MatchScore(req, seen[j], target)
  BY <1>5, <1>8
<1>10. ProofScores(req, seen[j], target) # {}
  <2>1. MatchScore(req, seen[i], target) <= c.score
    BY <1>4, <1>8
  <2>2. MatchScore(req, seen[i], target) \in (0..100) \cup {-1}
        /\ MatchScore(req, seen[j], target) \in (0..100) \cup {-1}
    BY ScoreMeans
  <2>3. MatchScore(req, seen[j], target) >= 92
    <3>1. \A x, y \in (0..100) \cup {-1} : x >= 92 /\ x <= y => y >= 92
      OBVIOUS
    <3> QED BY <1>2, <1>9, <2>1, <2>2, <3>1
  <2> QED BY <2>3, ScoreMeans
<1>11. (\E id \in shown \cup {req.target} : WasBelow(id, windows[j].root)) \/ RootLost(j)
  BY <1>10, ProvenHeldSomeone
<1> QED BY <1>9, <1>11 DEF c

LEMMA TypesHold == IInv => TypeOK
<1> SUFFICES ASSUME IInv PROVE TypeOK
  OBVIOUS
<1>1. ASSUME NEW i \in DOMAIN seen
      PROVE  /\ seen[i].window = windows[i]
             /\ seen[i].state \in {"complete", "partial", "unreachable"}
             /\ seen[i].state = "complete" <=> seen[i].errors = {}
  BY SeenNodes DEF IInv, SeenInv, Observations, ReadStates
<1>2. target.state \in {"complete", "partial", "unreachable"}
  BY DEF IInv, ShapeInv, Targets, ReadStates
<1>3. SeqElems(queue) \subseteq Pids /\ visited \subseteq Pids /\ late \in BOOLEAN
  BY DEF IInv, ShapeInv, SeqElems
<1>4. LiveIds \cup {NoId} \subseteq Ids
  BY DEF LiveIds, Ids, NoId
<1>5. node.id \in Ids /\ node.above \in Ids
  <2>1. node \in Reads
    BY DEF IInv, ShapeInv
  <2> QED BY <1>4, <2>1 DEF Reads
<1>6. step # "done" => answer = NoAnswer
  BY DEF IInv, PlaceInv
<1>7. steady \subseteq Holding(proc) /\ shown \subseteq Ids
  BY <1>4 DEF IInv, HistoryInv
<1> QED BY <1>1, <1>2, <1>3, <1>5, <1>6, <1>7 DEF TypeOK

-----------------------------------------------------------------------------
(* The theorems.                                                           *)

\* Every variable of a collection keeps its type, and an observation is
\* complete exactly when no read of it failed.
THEOREM TypeCorrect == Spec => []TypeOK
BY Invariance, TypesHold, PTL

\* What the collector records of a process's parent was true at one moment,
\* whatever forks, ends and reused PIDs fall between the reads of _node.
THEOREM ParentsWereReal == Spec => []RecordedParentsWereReal
<1>1. IInv => RecordedParentsWereReal
  BY DEF IInv, NodesInv, TrueNode, RecordedParentsWereReal
<1> QED BY <1>1, Invariance, PTL

\* A window that the resolver picks for its process tree did hold the target.
THEOREM PickedWindowHeldTheTarget == Spec => []ProvenWindowHeldTheTarget
BY Invariance, ProvenHeld, PTL

\* "No window qualifies" is never said while some window held the target, or a
\* tmux client at its pane, all through the collection.
THEOREM NoWindowIsMissed == Spec => []AbsenceIsProven
BY Invariance, NoneMissed, PTL

\* A strict request picks no window while another one holds the target.
THEOREM StrictPickIsUnique == Spec => []StrictPickIsTheOnlyOne
BY Invariance, StrictPick, PTL

\* No title, launch line, active window or focus history takes a match away
\* from the windows whose process trees are proven.
THEOREM HintsNeverOutrankProof == Spec => []ProofOutranksHints
BY Invariance, HintsOutranked, PTL

=============================================================================
