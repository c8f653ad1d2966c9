---------------------------- MODULE WindowMatch ----------------------------
(***************************************************************************)
(* The decisions of agent_window_resolver/resolver.py and of               *)
(* agent_window_adapter.py: from the observations of one collection to the *)
(* answer of one request and to the window Yoohoo takes from it.           *)
(*                                                                         *)
(* Names and texts are kept as far as the decisions tell them apart.  A    *)
(* component of a tmux target that an observed command line names is       *)
(* "same" as the requested one, "differs" from it, is "unseen", or is of   *)
(* another "kind" and cannot be compared.                                  *)
(***************************************************************************)
EXTENDS Naturals, Integers, FiniteSets, Sequences, Ancestry

NoId == [pid |-> 0, ticks |-> 0]

(***************************************************************************)
(* Process graphs.  A node is [id, parent, prog, ends]: its parent is an   *)
(* identity or NoId, its program a command line, its ends the transport    *)
(* sockets that were read of it.                                           *)
(***************************************************************************)
SeqElems(s) == {s[i] : i \in DOMAIN s}

\* Nodes that disagree about a PID: only the first one read is indexed.
GraphIndex(nodes) ==
  {nodes[i] : i \in {j \in DOMAIN nodes :
      \A k \in 1..(j - 1) : nodes[k].id.pid # nodes[j].id.pid}}

\* The identities met when climbing from one, itself included.
Upwards(index, id) == Above({<<m.id, m.parent>> : m \in index}, id) \ {NoId}

AncestorContains(index, child, ancestor) ==
  /\ \E n \in index : n.id = ancestor
  /\ ancestor \in Upwards(index, child)

GraphComplete(nodes) ==
  LET index == GraphIndex(nodes)
  IN  /\ SeqElems(nodes) = index
      /\ \A n \in index : n.id \notin Upwards(index, n.parent)

\* The indexed nodes below the process of a window; none without the root.
WindowSubtree(obs) ==
  LET index == GraphIndex(obs.nodes)
      root == obs.window.root
  IN  IF \E n \in index : n.id = root
      THEN [nodes |-> {n \in index : AncestorContains(index, n.id, root)},
            complete |-> GraphComplete(obs.nodes)]
      ELSE [nodes |-> {}, complete |-> FALSE]

Sound(obs) == obs.state = "complete" /\ obs.errors = {}

(***************************************************************************)
(* What a command line says of a tmux target.                              *)
(***************************************************************************)
TargetRelation(hint) ==
  IF hint.session \in {"unseen", "kind"} THEN "uncertain"
  ELSE IF "differs" \in {hint.session, hint.window, hint.pane} THEN "conflicts"
  ELSE IF {hint.window, hint.pane} = {"same"} THEN "matches"
  ELSE "uncertain"

CommandRelation(hint) ==
  LET relation == TargetRelation(hint)
  IN  IF relation = "conflicts" \/ hint.socket = "differs" THEN "conflicts"
      ELSE IF relation = "matches" /\ hint.socket = "same" THEN "matches"
      ELSE "uncertain"

Compatible(req, hint) ==
  /\ req.tmux
  /\ hint.session = "same"
  /\ CommandRelation(hint) # "conflicts"

(***************************************************************************)
(* Target observations.                                                    *)
(***************************************************************************)
\* The requested location, or a socket the request left open and the
\* collector read.
NormalizeTarget(req, target) ==
  /\ target.onMachine
  /\ IF req.tmux THEN target.socketKnown ELSE target.pane.process = NoId

TargetFailure(req, target) ==
  LET index == GraphIndex(target.nodes)
      present == \E n \in index : n.id = req.target
      atPane == /\ target.boundary # NoId
                /\ target.boundary = target.pane.process
                /\ present
                /\ AncestorContains(index, req.target, target.boundary)
      inPane == target.pane.wanted /\ AncestorContains(index, req.target, target.pane.process)
  IN  IF ~Sound(target) THEN "target_collection_incomplete"
      ELSE IF ~NormalizeTarget(req, target) THEN "target_location_mismatch"
      ELSE IF \/ ~present \/ ~GraphComplete(target.nodes)
              \/ ~target.wholeChain /\ ~atPane
              \/ target.boundary # NoId /\ ~atPane
      THEN "target_process_mismatch"
      ELSE IF req.tmux /\ ~inPane THEN "pane_membership_mismatch"
      ELSE "none"

(***************************************************************************)
(* Strict candidates: the window whose process tree holds the target, or   *)
(* the one client of the target's tmux server that is linked to it.        *)
(***************************************************************************)
\* Both ends of one connection, each seen from its own side.
EndpointLinked(left, right) ==
  /\ left.proto = right.proto
  /\ left.conn = right.conn
  /\ {left.side, right.side} = {"near", "far"}

ClientEndpoints(client) ==
  LET index == GraphIndex(client.nodes)
      related == {n \in index :
                    \/ AncestorContains(index, client.process, n.id)
                    \/ AncestorContains(index, n.id, client.process)}
  IN  IF GraphComplete(client.nodes) /\ (\E n \in index : n.id = client.process)
      THEN UNION {n.ends : n \in related} ELSE {}

TransportEnds(n) ==
  CASE n.prog = "ssh" -> n.ends
    [] n.prog = "mosh-client" -> {e \in n.ends : e.proto = "udp"}
    [] OTHER -> {}

RemoteLinks(nodes, target) ==
  {l \in {[client |-> c, left |-> e, right |-> f] :
            c \in target.clients, e \in UNION {TransportEnds(n) : n \in nodes},
            f \in UNION {ClientEndpoints(c) : c \in target.clients}} :
      l.right \in ClientEndpoints(l.client) /\ EndpointLinked(l.left, l.right)}

LocalClients(nodes, target) ==
  {c \in target.clients : \E n \in nodes : n.id = c.process}

LinkedClients(req, nodes, target) ==
  IF req.local THEN {[client |-> c] : c \in LocalClients(nodes, target)}
  ELSE RemoteLinks(nodes, target)

StrictCandidate(req, obs, target) ==
  LET tree == WindowSubtree(obs)
      linked == LinkedClients(req, tree.nodes, target)
  IN  /\ Cardinality({c.process : c \in target.clients}) = Cardinality(target.clients)
      /\ tree.complete
      /\ IF req.tmux
         THEN /\ Cardinality(linked) = 1
              /\ req.relation = "visible_exact" => \A l \in linked : l.client.shows
         ELSE /\ req.relation = "visible_exact" /\ req.local
              /\ \E n \in tree.nodes : n.id = req.target

(***************************************************************************)
(* operation = match: scores.  A hint is [kind, host, session, window,     *)
(* pane, socket]; `Hints' gives the hints of a program and `names' says    *)
(* whether one of its arguments names the agent.                           *)
(***************************************************************************)
CONSTANTS Hints(_), NamesAgent(_)

TitleScores(req, title) ==
  CASE title = "agent" -> {65}
    [] title = "has agent" -> {55}
    [] title = "session" /\ req.tmux -> {58}
    [] title = "has session" /\ req.tmux -> {50}
    [] OTHER -> {}

HintsOf(nodes) == UNION {Hints(n.prog) : n \in nodes}

HintScore(req, hint) ==
  CASE hint.kind = "transport" /\ hint.host = "same" /\ Compatible(req, hint) -> {90}
    [] hint.kind = "transport" /\ hint.host = "none" /\ Compatible(req, hint) -> {62}
    [] hint.kind = "tmux" /\ Compatible(req, hint) -> {72}
    [] OTHER -> {}

\* A launch line that names another location than the requested one.
Conflicting(req, hint) ==
  /\ req.tmux /\ CommandRelation(hint) = "conflicts"
  /\ hint.kind = "transport" => hint.session # "unseen"

\* A process argument that is no tmux launch and names the agent.
NameScore(req, nodes) ==
  IF /\ ~\E h \in HintsOf(nodes) : Conflicting(req, h)
     /\ \E n \in nodes : Hints(n.prog) = {} /\ NamesAgent(n.prog)
  THEN {42} ELSE {}

\* Clients the tmux listing of a match shows at the requested pane.
MatchClients(nodes, target) == {c \in LocalClients(nodes, target) : c.shows}

\* The nodes a match looks at: without the root, whatever the collector kept.
MatchNodes(obs) ==
  LET tree == WindowSubtree(obs)
  IN  IF tree.nodes = {} THEN SeqElems(obs.nodes) ELSE tree.nodes

\* Mutant of ProofScores: the target is known by its PID alone.
ProofScoresByPid(req, obs, target) ==
  IF req.local /\ (\E n \in MatchNodes(obs) : n.id.pid = req.target.pid)
  THEN {100} ELSE {}

ProofScores(req, obs, target) ==
  LET whole == WindowSubtree(obs).complete /\ Sound(obs)
      strict == [req EXCEPT !.relation = "visible_exact"]
      nodes == MatchNodes(obs)
  IN  (IF /\ whole /\ TargetFailure(req, target) = "none"
          /\ StrictCandidate(strict, obs, target) THEN {100} ELSE {})
      \cup (IF req.local /\ whole /\ (\E n \in nodes : n.id = req.target)
            THEN {100} ELSE {})
      \cup (IF req.local /\ req.tmux /\ MatchClients(nodes, target) # {}
            THEN {92} ELSE {})

HintScores(req, obs) ==
  UNION {HintScore(req, h) : h \in HintsOf(MatchNodes(obs))}
WeakScores(req, obs) ==
  (HintScores(req, obs) \ {90}) \cup TitleScores(req, obs.window.title)
    \cup NameScore(req, MatchNodes(obs))

OtherMachine(nodes) ==
  \E h \in HintsOf(nodes) : h.kind = "transport" /\ h.host = "other"

\* The score of a window, or -1: nothing speaks for it, or only weak hints
\* of a launch to another machine do and its present title does not.
MatchScore(req, obs, target) ==
  LET strong == ProofScores(req, obs, target) \cup (HintScores(req, obs) \cap {90})
      weak == WeakScores(req, obs)
      all == strong \cup weak
  IN  IF \/ all = {}
         \/ /\ strong = {}
            /\ OtherMachine(MatchNodes(obs))
            /\ TitleScores(req, obs.window.title) = {}
      THEN -1
      ELSE CHOOSE s \in all : \A t \in all : t <= s

(***************************************************************************)
(* Answers: [status, reason, picks], a pick being [window, score]; the     *)
(* score of a strict pick is 100.                                          *)
(***************************************************************************)
Answer(status, reason, picks) == [status |-> status, reason |-> reason, picks |-> picks]

Retryable(errors) == \E e \in errors : e.retryable

\* Mutant of MatchAnswer: what could not be read is taken for absent.
MatchAnswerOfTheRead(req, seen, target) ==
  LET picks == {p \in {[window |-> seen[i].window,
                        score |-> MatchScore(req, seen[i], target)] : i \in DOMAIN seen} :
                   p.score # -1}
  IN  IF picks # {} THEN Answer("matched", "none", picks)
      ELSE Answer("unresolved", "candidate_count", {})

MatchAnswer(req, seen, target) ==
  LET picks == {p \in {[window |-> seen[i].window,
                        score |-> MatchScore(req, seen[i], target)] : i \in DOMAIN seen} :
                   p.score # -1}
  IN  IF picks # {} THEN Answer("matched", "none", picks)
      ELSE IF \/ \E i \in DOMAIN seen : ~Sound(seen[i])
              \/ Retryable(target.errors)
      THEN Answer("unresolved", "local_collection_incomplete", {})
      ELSE Answer("unresolved", "candidate_count", {})

\* Mutant of StrictAnswer: the first of several windows is good enough.
StrictAnswerOfTheFirst(req, considered, target) ==
  LET found == {o \in considered : StrictCandidate(req, o, target)}
  IN  IF found = {} \/ \E o \in considered : ~Sound(o) \/ ~WindowSubtree(o).complete
      THEN Answer("unresolved", "window_collection_incomplete", {})
      ELSE Answer("matched", "none",
                  {[window |-> (CHOOSE o \in found : TRUE).window, score |-> 100]})

StrictAnswer(req, considered, target) ==
  LET bad == {o \in considered : ~Sound(o)}
      found == {o \in considered : StrictCandidate(req, o, target)}
      picks == {[window |-> o.window, score |-> 100] : o \in found}
  IN  IF bad # {} \/ \E o \in considered : ~WindowSubtree(o).complete
      THEN Answer(IF \E o \in bad : o.state = "unreachable"
                  THEN "unreachable" ELSE "unresolved",
                  "window_collection_incomplete", {})
      ELSE CASE Cardinality(found) = 1 -> Answer("matched", "none", picks)
             [] Cardinality(found) > 1 /\ req.op = "resolve" ->
                  Answer("ambiguous", "candidate_count", picks)
             [] OTHER ->
                  Answer("unresolved", IF req.op = "resolve" THEN "candidate_count"
                                       ELSE "prior_relation_no_longer_proven", {})

\* Resolver.resolve after the collection: `late' says whether the deadline
\* has passed by then.
Resolve(req, seen, target, late) ==
  LET failure == TargetFailure(req, target)
  IN  IF late /\ req.op # "match" THEN Answer("unreachable", "deadline_exceeded", {})
      ELSE IF req.op = "match" THEN MatchAnswer(req, seen, target)
      ELSE IF failure # "none"
      THEN Answer(IF target.state = "unreachable" THEN "unreachable" ELSE "unresolved",
                  failure, {})
      ELSE IF req.op = "verify-target" THEN Answer("verified", "none", {})
      ELSE StrictAnswer(req, {o \in SeqElems(seen) :
                                req.op = "revalidate" => o.window = req.prior}, target)

(***************************************************************************)
(* The adapter: of the best scores it takes the active window, then the    *)
(* one focused last, then the lowest stable identifier.                    *)
(***************************************************************************)
\* Mutant of Chosen: the active window before the better score.
ChosenIfActive(answer, active, history) ==
  CHOOSE p \in answer.picks :
    \A q \in answer.picks : p.window.stable = active \/ q.window.stable # active

Chosen(answer, active, history) ==
  LET best == {p \in answer.picks : \A q \in answer.picks : q.score <= p.score}
      rank(p) == <<IF p.window.stable = active THEN 0 ELSE 1, history[p.window.stable],
                   p.window.stable>>
      before(a, b) == \/ a[1] < b[1]
                      \/ a[1] = b[1] /\ a[2] < b[2]
                      \/ a[1] = b[1] /\ a[2] = b[2] /\ a[3] <= b[3]
  IN  CHOOSE p \in best : \A q \in best : before(rank(p), rank(q))
=============================================================================
