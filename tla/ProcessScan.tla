---------------------------- MODULE ProcessScan ----------------------------
(***************************************************************************)
(* LinuxCollector.collect of agent_window_resolver/linux.py for a target   *)
(* on this machine: the process tree of every window, then the target or   *)
(* the tmux clients, each file of /proc read in a step of its own while    *)
(* the processes go on.  Resolver.resolve answers from what was read.      *)
(***************************************************************************)
EXTENDS ProcTable, WindowMatch

CONSTANTS Requests,   \* the requests tried, with the table and the windows
          MaxNodes    \* _MAX_GRAPH_NODES: the largest tree that is read

Titles == {"agent", "has agent", "session", "has session", "other"}
Windows == [stable : Nat \ {0}, root : [pid : Pids, ticks : Nat \ {0}], title : Titles]
Asked == [op : {"match", "resolve", "revalidate"}, target : [pid : Nat, ticks : Nat \ {0}],
          tmux : BOOLEAN, local : {TRUE}, relation : {"visible_exact"}, prior : Windows]

\* A request is asked of a table the kernel may have.  A target in tmux is
\* looked for by a match only: what a strict request reads of tmux is not here.
ASSUME ScanAssumption ==
  /\ MaxNodes \in Nat
  /\ \A r \in Requests :
        /\ Forest(r.table, 0)
        /\ r.windows \in Seq(Windows) /\ r.windows # <<>>
        /\ r.req \in Asked
        /\ IF r.req.tmux THEN r.req.op = "match" ELSE r.req.target.pid \in Pids

VARIABLES req,        \* the request: operation, target, tmux, relation, prior
          windows,    \* its windows, in order
          seen,       \* the window observations collected so far
          target,     \* the target observation
          queue,      \* _descendants: PIDs to read; the head is being read
          visited,    \* _descendants: PIDs taken from the queue
          kept,       \* _descendants: nodes read of this window
          step,       \* the next read
          node,       \* _node: what was read of the process at the head
          late,       \* the deadline has passed
          answer,
          steady,     \* history: <<window, witness>> that held since the request
          shown       \* history: the processes that were one at some time since

scanVars == <<req, windows, seen, target, queue, visited, kept, step, node,
              late, answer, steady, shown>>
vars == <<procVars, scanVars>>

NoNode == [id |-> NoId, parent |-> Init0, prog |-> "none", link |-> NoLink, above |-> NoId]
NoPane == [process |-> NoId, wanted |-> FALSE]
Error(code, retryable) == [code |-> code, retryable |-> retryable]

TargetSeen(state, errors, nodes, clients) ==
  [onMachine |-> TRUE, socketKnown |-> TRUE, state |-> state, errors |-> errors,
   nodes |-> nodes, pane |-> NoPane, clients |-> clients, boundary |-> NoId,
   wholeChain |-> TRUE]
NothingSeen == TargetSeen("complete", {}, <<>>, {})
NoAnswer == Answer("pending", "none", {})

\* The processes that make a window the target's own: the target, or a tmux
\* client that shows its pane.
Witness(table, id) ==
  /\ id.ticks # NoTicks
  /\ table[id.pid].ticks = id.ticks /\ ~table[id.pid].zombie
  /\ IF req.tmux THEN table[id.pid].prog = "tmux" /\ table[id.pid].link = "pane"
     ELSE id = req.target
Witnesses(table) ==
  {id \in {[pid |-> p, ticks |-> table[p].ticks] : p \in Pids} : Witness(table, id)}
Holding(table) ==
  {s \in (DOMAIN windows) \X Witnesses(table) :
     windows[s[1]].root \in Above(Pairs(table), s[2])}

Init ==
  \E r \in Requests :
    /\ ProcInit(r.table)
    /\ req = r.req /\ windows = r.windows
    /\ seen = <<>> /\ target = NothingSeen
    /\ queue = <<r.windows[1].root.pid>> /\ visited = {} /\ kept = <<>>
    /\ step = "stat" /\ node = NoNode
    /\ late = FALSE /\ answer = NoAnswer
    /\ steady = Holding(r.table)
    /\ shown = Witnesses(r.table)

\* A set of PIDs in ascending order.
Sorted(S) ==
  {s \in [1..Cardinality(S) -> S] :
     SeqElems(s) = S /\ \A i, j \in DOMAIN s : i < j => s[i] < s[j]}

OnTarget == Len(seen) = Len(windows)
Scanning == step \notin {"clients", "client", "decide", "done"}

(***************************************************************************)
(* The ends of a read.                                                     *)
(***************************************************************************)
\* The next window, or after the last one the target: the tmux clients for a
\* match, the process itself for a target without tmux.
Observed(observation) ==
  /\ seen' = Append(seen, observation)
  /\ visited' = {} /\ kept' = <<>> /\ node' = NoNode
  /\ IF Len(seen) + 1 < Len(windows)
     THEN queue' = <<windows[Len(seen) + 2].root.pid>> /\ step' = "stat"
     ELSE /\ queue' = IF req.tmux THEN <<>> ELSE <<req.target.pid>>
          /\ step' = IF req.tmux THEN "clients" ELSE "stat"
  /\ UNCHANGED target

TargetObserved(observation) ==
  /\ target' = observation
  /\ step' = "decide" /\ queue' = <<>> /\ node' = NoNode
  /\ UNCHANGED <<seen, visited, kept>>

\* Mutant of WindowSeen: an error is noted and the scan still called complete.
WindowSeenWhole(state, nodes, errors) ==
  [window |-> windows[Len(seen) + 1], nodes |-> nodes, state |-> "complete",
   errors |-> errors]

WindowSeen(state, nodes, errors) ==
  [window |-> windows[Len(seen) + 1], nodes |-> nodes, state |-> state, errors |-> errors]

\* A failed read ends the observation.  A match keeps what was read before.
Failed(error) ==
  IF OnTarget
  THEN TargetObserved(TargetSeen(
         IF error.retryable THEN "unreachable" ELSE "partial", {error}, <<>>, {}))
  ELSE Observed(WindowSeen(
         IF error.code = "deadline_exceeded" THEN "unreachable" ELSE "partial",
         IF req.op = "match" THEN kept ELSE <<>>, {error}))

Unreadable == Failed(Error("local_process_unreadable", TRUE))
Changed == Failed(Error("process_identity_changed", TRUE))

Deadline == Failed(Error("deadline_exceeded", TRUE))

Here == Head(queue)

\* The rest of the queue after a process was taken from it; a PID is read
\* once, and the deadline is looked at before each one.
NextProcess(rest) ==
  LET done == visited \cup {Here}
  IN  IF late /\ rest # <<>> THEN Deadline
      ELSE IF SeqElems(rest) \subseteq done
      THEN Observed(WindowSeen("complete", kept, {}))
      ELSE /\ \E i \in DOMAIN rest :
                /\ rest[i] \notin done
                /\ \A j \in 1..(i - 1) : rest[j] \in done
                /\ queue' = SubSeq(rest, i, Len(rest))
           /\ visited' = done
           /\ step' = "stat" /\ node' = NoNode
           /\ UNCHANGED <<seen, target, kept>>

(***************************************************************************)
(* _node: the reads of one process.                                        *)
(***************************************************************************)
AsRead == /\ Exists(Here) /\ proc[Here].ticks = node.id.ticks
          /\ proc[Here].parent = node.parent
Reading == UNCHANGED <<procVars, req, windows, late, answer, steady, shown>>
Stays == UNCHANGED <<seen, target, queue, visited, kept>>

\* stat: the identity and the parent; an ended process goes its own way.
ReadStat ==
  /\ step = "stat" /\ Reading
  /\ IF late /\ ~OnTarget THEN Deadline
     ELSE IF ~OnTarget /\ Cardinality(visited) >= MaxNodes
     THEN Failed(Error("process_scan_truncated", TRUE))
     ELSE IF ~Exists(Here) THEN Unreadable
     ELSE /\ node' = [NoNode EXCEPT !.id = Identity(Here), !.parent = proc[Here].parent]
          /\ step' = IF proc[Here].zombie THEN "zombie" ELSE "cmdline"
          /\ Stays

\* cmdline, and for a transport its sockets.
TransportLink(p) == IF proc[p].prog \in {"ssh", "mosh-client"} THEN proc[p].link ELSE NoLink
ReadProgram ==
  /\ step = "cmdline" /\ Reading
  /\ IF ~Exists(Here) THEN Unreadable
     ELSE /\ node' = [node EXCEPT !.prog = proc[Here].prog, !.link = TransportLink(Here)]
          /\ step' = "stat again" /\ Stays

ReadNode == [id |-> node.id, parent |-> node.above, prog |-> node.prog, ends |-> {}]

\* The process is known to have been this one from the first read to the last.
NodeRead ==
  IF OnTarget THEN TargetObserved(TargetSeen("complete", {}, <<ReadNode>>, {}))
  ELSE /\ kept' = Append(kept, ReadNode)
       /\ step' = "children" /\ node' = node
       /\ UNCHANGED <<seen, target, queue, visited>>

\* Mutant of ReadStatAgain: once the parent is read, the process may move.
ReadStatAgainOnce ==
  /\ step \in {"stat again", "last stat"} /\ Reading
  /\ IF ~Exists(Here) THEN Unreadable
     ELSE IF step = "last stat" THEN NodeRead
     ELSE IF ~AsRead THEN Changed
     ELSE IF proc[Here].zombie THEN step' = "zombie" /\ node' = node /\ Stays
     ELSE step' = "cmdline again" /\ node' = node /\ Stays

\* stat once more: nothing may have moved, unless the process ended meanwhile.
ReadStatAgain ==
  /\ step \in {"stat again", "last stat"} /\ Reading
  /\ IF ~Exists(Here) THEN Unreadable
     ELSE IF ~AsRead THEN Changed
     ELSE IF proc[Here].zombie THEN step' = "zombie" /\ node' = node /\ Stays
     ELSE IF step = "stat again" THEN step' = "cmdline again" /\ node' = node /\ Stays
     ELSE NodeRead

ReadProgramAgain ==
  /\ step = "cmdline again" /\ Reading
  /\ IF ~Exists(Here) THEN Unreadable
     ELSE IF proc[Here].prog # node.prog \/ TransportLink(Here) # node.link THEN Changed
     ELSE /\ step' = IF node.parent = Init0 THEN "last stat" ELSE "parent"
          /\ node' = node /\ Stays

ReadParent ==
  /\ step = "parent" /\ Reading
  /\ IF ~Exists(node.parent) THEN Unreadable
     ELSE /\ node' = [node EXCEPT !.above = Identity(node.parent)]
          /\ step' = "last stat" /\ Stays

(***************************************************************************)
(* _raise_for_zombie: an ended process below the root is left out once it  *)
(* is certain that it has no children.                                     *)
(***************************************************************************)
ReadZombie ==
  /\ step \in {"zombie", "last zombie"} /\ Reading
  /\ IF ~Exists(Here) THEN Unreadable
     ELSE IF ~AsRead \/ ~proc[Here].zombie THEN Changed
     ELSE IF step = "zombie" THEN step' = "zombie children" /\ node' = node /\ Stays
     ELSE IF OnTarget \/ Here = windows[Len(seen) + 1].root.pid
     THEN Failed(Error("process_not_live", FALSE))
     ELSE NextProcess(Tail(queue))

ReadZombieChildren ==
  /\ step = "zombie children" /\ Reading
  /\ IF ~Exists(Here) THEN Unreadable
     ELSE IF Children(Here) # {} THEN Failed(Error("zombie_process_has_children", TRUE))
     ELSE step' = "last zombie" /\ node' = node /\ Stays

\* _children, in the order of their PIDs.
ReadChildren ==
  /\ step = "children" /\ Reading
  /\ IF ~Exists(Here) THEN Unreadable
     ELSE \E order \in Sorted(Children(Here) \ (visited \cup {Here})) :
            NextProcess(Tail(queue) \o order)

(***************************************************************************)
(* _local_match_target: the clients tmux lists, then the identity of each. *)
(***************************************************************************)
ListClients ==
  /\ step = "clients" /\ Reading
  /\ \/ Failed(Error("local_tmux_probe_failed", TRUE))
     \/ LET listed == {p \in Pids : Running(p) /\ proc[p].prog = "tmux"}
            rows == {[process |-> [pid |-> p, ticks |-> NoTicks], nodes |-> <<>>,
                      shows |-> proc[p].link = "pane"] : p \in listed}
            found == TargetSeen("partial", {Error("local_tmux_match_only", FALSE)}, <<>>,
                                rows)
        IN  IF listed = {} THEN TargetObserved(found)
            ELSE /\ target' = found /\ queue' \in Sorted(listed)
                 /\ step' = "client"
                 /\ UNCHANGED <<seen, visited, kept, node>>

IdentifyClient ==
  /\ step = "client" /\ Reading
  /\ LET row == CHOOSE c \in target.clients :
                   c.process = [pid |-> Here, ticks |-> NoTicks]
         others == target.clients \ {row}
     IN  target' = IF Exists(Here)
                   THEN [target EXCEPT !.clients =
                           others \cup {[row EXCEPT !.process = Identity(Here)]}]
                   ELSE [target EXCEPT !.clients = others,
                           !.errors = @ \cup {Error("local_tmux_client_unreadable", TRUE)}]
  /\ queue' = Tail(queue)
  /\ step' = IF Tail(queue) = <<>> THEN "decide" ELSE "client"
  /\ UNCHANGED <<seen, visited, kept, node>>

(***************************************************************************)
(* Resolver.resolve, and what goes on around the collection.               *)
(***************************************************************************)
Decide ==
  /\ step = "decide"
  /\ answer' = Resolve(req, seen, target, late)
  /\ step' = "done"
  /\ UNCHANGED <<procVars, req, windows, seen, target, queue, visited, kept, node,
                 late, steady, shown>>

DeadlinePasses ==
  /\ ~late /\ step # "done"
  /\ late' = TRUE
  /\ UNCHANGED <<procVars, req, windows, seen, target, queue, visited, kept, step,
                 node, answer, steady, shown>>

ProcessesGoOn ==
  /\ step # "done"
  /\ Kernel
  /\ steady' = steady \cap Holding(proc')
  /\ shown' = shown \cup Witnesses(proc')
  /\ UNCHANGED <<req, windows, seen, target, queue, visited, kept, step, node, late,
                 answer>>

Next ==
  \/ ReadStat \/ ReadProgram \/ ReadStatAgain \/ ReadProgramAgain \/ ReadParent
  \/ ReadZombie \/ ReadZombieChildren \/ ReadChildren
  \/ ListClients \/ IdentifyClient \/ Decide
  \/ DeadlinePasses \/ ProcessesGoOn

Spec == Init /\ [][Next]_vars

(***************************************************************************)
(* Properties.                                                             *)
(***************************************************************************)
Ids == [pid : Pids \cup {0}, ticks : Nat]
TypeOK ==
  /\ \A i \in DOMAIN seen : /\ seen[i].window = windows[i]
                           /\ seen[i].state \in {"complete", "partial", "unreachable"}
                           /\ seen[i].state = "complete" <=> seen[i].errors = {}
  /\ target.state \in {"complete", "partial", "unreachable"}
  /\ SeqElems(queue) \subseteq Pids /\ visited \subseteq Pids
  /\ node.id \in Ids /\ node.above \in Ids
  /\ late \in BOOLEAN
  /\ step # "done" => answer = NoAnswer
  /\ steady \subseteq Holding(proc) /\ shown \subseteq Ids

AllNodes == SeqElems(kept) \cup SeqElems(target.nodes)
              \cup UNION {SeqElems(seen[i].nodes) : i \in DOMAIN seen}

\* What a node says of its parent was true at one moment: a PID given to
\* another process between two reads is never taken for the parent (the
\* last stat of _node, after the parent's own).
RecordedParentsWereReal ==
  \A n \in AllNodes : n.parent # NoId => <<n.id, n.parent>> \in lineage

WasBelow(id, root) == root \in Above(lineage, id)

Decided == step = "done"

\* A window picked for its process tree did hold the target: forks, ends and
\* reused PIDs between the reads never join a window to a process that was
\* not below it.
ProvenWindowHeldTheTarget ==
  Decided => \A p \in answer.picks : p.score = 100 => WasBelow(req.target, p.window.root)

\* "No window qualifies" is what lets open_target start a terminal.  It is
\* never said while some window held the target, or a tmux client at its
\* pane, all through the collection: every failed, truncated or disturbed
\* read makes the absence unknown instead (_match_request, and the
\* fail-closed scans below it).
AbsenceIsProven ==
  Decided /\ answer.reason = "candidate_count" /\ answer.status = "unresolved" =>
    steady = {}

\* A strict request picks no window while another one holds the target just
\* as well: two windows of one process stay ambiguous.
StrictPickIsTheOnlyOne ==
  Decided /\ req.op = "resolve" /\ answer.status = "matched" =>
    \A p \in answer.picks, s \in steady : windows[s[1]] = p.window

\* The window's process is gone and its PID names another one by now.
RootLost(i) == seen[i].nodes = <<>> \/ seen[i].nodes[1].id # windows[i].root

\* A title or a launch line never outranks a window that holds the target,
\* or a client at its pane, all through and was read without disturbance,
\* whatever window is active and however the others were focused before
\* (_match_candidate, _ordered_candidates).  The picked window held one of
\* them at some time, unless its own process is gone: what a match reads
\* below a reused PID still counts for the window.
ProofOutranksHints ==
  Decided /\ req.op = "match" /\ answer.picks # {} =>
    LET sure == {s[1] : s \in steady} \cap
                  {i \in DOMAIN seen : Sound(seen[i]) /\ ~Retryable(target.errors)}
        stables == {windows[i].stable : i \in DOMAIN windows}
    IN  sure # {} =>
          \A f \in [stables -> 1..Len(windows)], a \in stables \cup {0} :
            \E i \in DOMAIN seen :
              /\ windows[i] = Chosen(answer, a, f).window
              /\ \/ \E id \in shown \cup {req.target} : WasBelow(id, windows[i].root)
                 \/ RootLost(i)
=============================================================================
