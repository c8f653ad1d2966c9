-------------------------- MODULE WindowMatchProofs --------------------------
(***************************************************************************)
(* Facts about the decisions of WindowMatch, for any observations: when a  *)
(* climb from child to parent reaches a window's process, which scores     *)
(* need a proof, and which window is chosen.                               *)
(***************************************************************************)
EXTENDS WindowMatch, FiniteSetTheorems, WellFoundedInduction, TLAPS

-----------------------------------------------------------------------------
(* Climbing.                                                               *)

LEMMA AboveSelf ==
    ASSUME NEW L, NEW x
    PROVE  x \in Above(L, x)
BY DEF Above

LEMMA AboveStep ==
    ASSUME NEW L, NEW x, NEW l \in L, l[1] \in Above(L, x)
    PROVE  l[2] \in Above(L, x)
<1> DEFINE all == {x} \cup {k[2] : k \in L}
<1>1. ASSUME NEW S \in SUBSET all, x \in S, \A k \in L : k[1] \in S => k[2] \in S
      PROVE  l[2] \in S
  BY <1>1 DEF Above
<1> QED BY <1>1 DEF Above

\* What holds of x and passes from child to parent holds of all above x.
LEMMA AboveMin ==
    ASSUME NEW L, NEW x, NEW S, x \in S,
           \A l \in L : l[1] \in S => l[2] \in S
    PROVE  Above(L, x) \subseteq S
<1> DEFINE all == {x} \cup {l[2] : l \in L}
           T == S \cap all
<1>1. T \in SUBSET all /\ x \in T
  OBVIOUS
<1>2. \A l \in L : l[1] \in T => l[2] \in T
  OBVIOUS
<1>3. \A y \in Above(L, x) : y \in T
  BY <1>1, <1>2 DEF Above
<1> QED BY <1>3

LEMMA AboveMono ==
    ASSUME NEW L, NEW M, L \subseteq M, NEW x
    PROVE  Above(L, x) \subseteq Above(M, x)
BY AboveSelf, AboveStep, AboveMin

LEMMA AboveTrans ==
    ASSUME NEW L, NEW x, NEW y \in Above(L, x)
    PROVE  Above(L, y) \subseteq Above(L, x)
BY AboveStep, AboveMin

-----------------------------------------------------------------------------
(* Process graphs.                                                         *)

\* The links that the nodes of an index record.
NodeLinks(index) == {<<m.id, m.parent>> : m \in index}

\* No two nodes are of one PID, and every node is younger than its parent.
Distinct(nodes) ==
  \A j, k \in DOMAIN nodes : nodes[j].id.pid = nodes[k].id.pid => j = k

Younger(n) ==
  /\ n.id.ticks \in Nat \ {0}
  /\ n.parent.ticks \in Nat
  /\ n.parent.ticks < n.id.ticks

LEMMA ContainsMeans ==
    ASSUME NEW index, NEW c, NEW r
    PROVE  AncestorContains(index, c, r) <=>
             /\ \E n \in index : n.id = r
             /\ r \in Above(NodeLinks(index), c)
             /\ r # NoId
BY DEF AncestorContains, Upwards, NodeLinks

\* Of nodes of different PIDs all are indexed.
LEMMA IndexAll ==
    ASSUME NEW S, NEW nodes \in Seq(S), Distinct(nodes)
    PROVE  GraphIndex(nodes) = SeqElems(nodes)
<1>1. ASSUME NEW j \in DOMAIN nodes, NEW k \in 1..(j - 1)
      PROVE  nodes[k].id.pid # nodes[j].id.pid
  BY DEF Distinct
<1> QED BY <1>1 DEF GraphIndex, SeqElems

\* What is indexed was read, and the first node that was read is indexed.
LEMMA IndexRead ==
    ASSUME NEW S, NEW nodes \in Seq(S)
    PROVE  /\ GraphIndex(nodes) \subseteq SeqElems(nodes)
           /\ nodes # <<>> => nodes[1] \in GraphIndex(nodes)
<1>1. GraphIndex(nodes) \subseteq SeqElems(nodes)
  BY DEF GraphIndex, SeqElems
<1>2. nodes # <<>> => 1 \in DOMAIN nodes
  OBVIOUS
<1>3. 1..(1 - 1) = {}
  OBVIOUS
<1> QED BY <1>1, <1>2, <1>3 DEF GraphIndex

\* A graph whose nodes are younger than their parents has no cycle.
LEMMA Acyclic ==
    ASSUME NEW S, NEW nodes \in Seq(S), Distinct(nodes),
           \A n \in SeqElems(nodes) : Younger(n)
    PROVE  GraphComplete(nodes)
<1> DEFINE index == GraphIndex(nodes)
<1>1. index = SeqElems(nodes)
  BY IndexAll
<1>2. ASSUME NEW n \in index
      PROVE  n.id \notin Upwards(index, n.parent)
  <2> DEFINE T == {y \in {n.parent} \cup {m.parent : m \in index} :
                     y.ticks \in Nat /\ y.ticks <= n.parent.ticks}
  <2>1. n.parent \in T
    BY <1>1 DEF Younger
  <2>2. ASSUME NEW l \in NodeLinks(index), l[1] \in T
        PROVE  l[2] \in T
    <3>1. PICK m \in index : l = <<m.id, m.parent>>
      BY DEF NodeLinks
    <3> QED BY <1>1, <2>1, <2>2, <3>1 DEF Younger
  <2> HIDE DEF T
  <2>3. Above(NodeLinks(index), n.parent) \subseteq T
    BY <2>1, <2>2, AboveMin
  <2>4. n.id \notin T
    BY <1>1 DEF Younger, T
  <2> QED BY <2>3, <2>4 DEF Upwards, NodeLinks
<1> QED BY <1>1, <1>2 DEF GraphComplete

\* Nodes of everything on the way from id to r in the true links L, each with
\* its true parent, let the climb from id reach r.
LEMMA ClimbReaches ==
    ASSUME NEW L, NEW index, NEW id, NEW r, r # NoId, r \in Above(L, id),
           \A y \in Above(L, id) :
             r \in Above(L, y) =>
               \E n \in index : n.id = y /\ \A l \in L : l[1] = y => l[2] = n.parent
    PROVE  AncestorContains(index, id, r)
<1> DEFINE M == NodeLinks(index)
           T == {y \in Above(L, id) : r \in Above(L, y) => y \in Above(M, id)}
<1>1. id \in T
  BY AboveSelf
<1>2. ASSUME NEW l \in L, l[1] \in T
      PROVE  l[2] \in T
  <2>1. l[2] \in Above(L, id)
    BY <1>2, AboveStep
  <2>2. ASSUME r \in Above(L, l[2])
        PROVE  l[2] \in Above(M, id)
    <3>1. l[2] \in Above(L, l[1])
      BY AboveSelf, AboveStep
    <3>2. r \in Above(L, l[1])
      BY <2>2, <3>1, AboveTrans
    <3>3. l[1] \in Above(M, id)
      BY <1>2, <3>2
    <3>4. PICK n \in index : n.id = l[1] /\ l[2] = n.parent
      BY <1>2, <3>2
    <3>5. <<l[1], l[2]>> \in M
      BY <3>4 DEF NodeLinks
    <3> QED BY <3>3, <3>5, AboveStep
  <2> QED BY <2>1, <2>2
<1>3. Above(L, id) \subseteq T
  BY <1>1, <1>2, AboveMin
<1>4. r \in Above(M, id)
  BY <1>3, AboveSelf
<1>5. \E n \in index : n.id = r
  BY AboveSelf
<1> QED BY <1>4, <1>5, ContainsMeans

\* A climb in links that are all true is a true climb.
LEMMA ClimbWasTrue ==
    ASSUME NEW L, NEW index, NEW id, NEW r, AncestorContains(index, id, r),
           \A n \in index : n.id # NoId,
           \A n \in index : n.parent # NoId => <<n.id, n.parent>> \in L
    PROVE  r \in Above(L, id)
<1> DEFINE T == Above(L, id) \cup {NoId}
<1>1. id \in T
  BY AboveSelf
<1>2. ASSUME NEW l \in NodeLinks(index), l[1] \in T
      PROVE  l[2] \in T
  <2>1. PICK n \in index : l = <<n.id, n.parent>>
    BY DEF NodeLinks
  <2>2. CASE n.parent = NoId
    BY <2>1, <2>2
  <2>3. CASE n.parent # NoId
    <3>1. l \in L /\ l[1] \in Above(L, id)
      BY <1>2, <2>1, <2>3
    <3> QED BY <3>1, AboveStep
  <2> QED BY <2>2, <2>3
<1> HIDE DEF T
<1>3. Above(NodeLinks(index), id) \subseteq T
  BY <1>1, <1>2, AboveMin
<1> QED BY <1>3, ContainsMeans DEF T

\* A tree that has the node of the window's process has that node.
LEMMA TreeHasRoot ==
    ASSUME NEW obs, obs.window.root # NoId,
           NEW n \in GraphIndex(obs.nodes), n.id = obs.window.root
    PROVE  n \in WindowSubtree(obs).nodes
BY AboveSelf, ContainsMeans DEF WindowSubtree

\* The nodes of a tree are those whose climb reaches the window's process.
LEMMA TreeMeans ==
    ASSUME NEW obs, NEW n
    PROVE  n \in WindowSubtree(obs).nodes <=>
             /\ n \in GraphIndex(obs.nodes)
             /\ AncestorContains(GraphIndex(obs.nodes), n.id, obs.window.root)
BY DEF WindowSubtree, AncestorContains

-----------------------------------------------------------------------------
(* Scores.                                                                 *)

\* Every set of numbers has a least one.
LEMMA LeastNatural ==
    ASSUME NEW T \in SUBSET Nat, T # {}
    PROVE  \E n \in T : \A m \in T : n <= m
<1>1. PICK n \in T : \A m \in T : ~(<<m, n>> \in OpToRel(<, Nat))
  BY WFMin, NatLessThanWellFounded, Zenon
<1>2. ASSUME NEW m \in T PROVE ~(m < n)
  BY <1>1, Zenon DEF OpToRel
<1> QED BY <1>2

LEMMA GreatestScore ==
    ASSUME NEW T \in SUBSET (0..100), T # {}
    PROVE  \E s \in T : \A t \in T : t <= s
<1> DEFINE D == {d \in Nat : \E s \in T : d = 100 - s}
<1>1. D # {} /\ D \in SUBSET Nat
  <2>1. PICK s \in T : TRUE
    OBVIOUS
  <2>2. 100 - s \in D
    BY <2>1
  <2> QED BY <2>2
<1>2. PICK d \in D : \A e \in D : d <= e
  BY <1>1, LeastNatural
<1>3. PICK s \in T : d = 100 - s
  OBVIOUS
<1>4. ASSUME NEW t \in T
      PROVE  t <= s
  <2>1. 100 - t \in D
    OBVIOUS
  <2>2. d <= 100 - t
    BY <1>2, <2>1
  <2> QED BY <1>3, <2>2
<1> QED BY <1>4

LEMMA ProofRange ==
    ASSUME NEW req, NEW obs, NEW target
    PROVE  ProofScores(req, obs, target) \subseteq {92, 100}
BY DEF ProofScores

LEMMA HintRange ==
    ASSUME NEW req, NEW obs
    PROVE  HintScores(req, obs) \subseteq {62, 72, 90}
<1>1. ASSUME NEW h PROVE HintScore(req, h) \subseteq {62, 72, 90}
  BY DEF HintScore
<1> QED BY <1>1 DEF HintScores

LEMMA WeakRange ==
    ASSUME NEW req, NEW obs
    PROVE  WeakScores(req, obs) \subseteq 0..91
<1>1. ASSUME NEW t PROVE TitleScores(req, t) \subseteq {50, 55, 58, 65}
  BY DEF TitleScores
<1>2. ASSUME NEW nodes PROVE NameScore(req, nodes) \subseteq {42}
  BY DEF NameScore
<1> QED BY <1>1, <1>2, HintRange DEF WeakScores

\* The score of a window is the best of what speaks for it.  Only what is
\* below its process in the tree scores 92 or more, and it always does.
LEMMA ScoreMeans ==
    ASSUME NEW req, NEW obs, NEW target
    PROVE  /\ MatchScore(req, obs, target) \in (0..100) \cup {-1}
           /\ MatchScore(req, obs, target) >= 92
                => MatchScore(req, obs, target) \in ProofScores(req, obs, target)
           /\ ProofScores(req, obs, target) # {} => MatchScore(req, obs, target) >= 92
<1> DEFINE proof == ProofScores(req, obs, target)
           strong == proof \cup (HintScores(req, obs) \cap {90})
           weak == WeakScores(req, obs)
           all == strong \cup weak
           silent == \/ all = {}
                     \/ /\ strong = {}
                        /\ OtherMachine(MatchNodes(obs))
                        /\ TitleScores(req, obs.window.title) = {}
           best == CHOOSE s \in all : \A t \in all : t <= s
           score == MatchScore(req, obs, target)
<1>1. score = IF silent THEN -1 ELSE best
  BY DEF MatchScore
<1>2. proof \subseteq {92, 100} /\ weak \subseteq 0..91 /\ all \in SUBSET (0..100)
  BY ProofRange, WeakRange
<1>3. CASE silent
  BY <1>1, <1>3
<1>4. CASE ~silent
  <2>1. all # {}
    BY <1>4
  <2> HIDE DEF all
  <2>2. \E s \in all : \A t \in all : t <= s
    BY <1>2, <2>1, GreatestScore
  <2>3. best \in all /\ \A t \in all : t <= best
    BY <2>2
  <2> QED BY <1>1, <1>2, <1>4, <2>3 DEF all
<1> QED BY <1>3, <1>4

-----------------------------------------------------------------------------
(* The choice.                                                             *)

\* Whatever window is active and however the windows were focused, one of
\* those with the best score is chosen.
LEMMA ChosenIsBest ==
    ASSUME NEW answer, NEW active, NEW history, answer.picks # {},
           \A p \in answer.picks :
             /\ p.score \in 0..100
             /\ p.window.stable \in Nat
             /\ history[p.window.stable] \in Nat
    PROVE  /\ Chosen(answer, active, history) \in answer.picks
           /\ \A q \in answer.picks : q.score <= Chosen(answer, active, history).score
<1> DEFINE best == {p \in answer.picks : \A q \in answer.picks : q.score <= p.score}
           first(p) == IF p.window.stable = active THEN 0 ELSE 1
           second(p) == history[p.window.stable]
           third(p) == p.window.stable
<1>1. best # {}
  <2> DEFINE T == {p.score : p \in answer.picks}
  <2>1. T \in SUBSET (0..100) /\ T # {}
    OBVIOUS
  <2> HIDE DEF T
  <2>2. PICK s \in T : \A t \in T : t <= s
    BY <2>1, GreatestScore
  <2> QED BY <2>2 DEF T
<1>2. PICK p1 \in best : \A q \in best : first(p1) <= first(q)
  <2>1. \E d \in {0, 1} : \E p \in best : /\ first(p) = d
                                          /\ \A q \in best : d <= first(q)
    BY <1>1
  <2> QED BY <2>1
<1> DEFINE T2 == {p \in best : first(p) = first(p1)}
<1>3. PICK p2 \in T2 : \A q \in T2 : second(p2) <= second(q)
  <2> DEFINE D == {second(p) : p \in T2}
  <2>1. D \in SUBSET Nat /\ D # {}
    BY <1>2
  <2>2. PICK d \in D : \A e \in D : d <= e
    BY <2>1, LeastNatural
  <2> QED BY <2>2
<1> DEFINE T3 == {p \in T2 : second(p) = second(p2)}
<1>4. PICK p3 \in T3 : \A q \in T3 : third(p3) <= third(q)
  <2> DEFINE D == {third(p) : p \in T3}
  <2>1. D \in SUBSET Nat /\ D # {}
    BY <1>3
  <2>2. PICK d \in D : \A e \in D : d <= e
    BY <2>1, LeastNatural
  <2> QED BY <2>2
<1> DEFINE rank(p) == <<first(p), second(p), third(p)>>
           before(x, y) == \/ x[1] < y[1]
                           \/ x[1] = y[1] /\ x[2] < y[2]
                           \/ x[1] = y[1] /\ x[2] = y[2] /\ x[3] <= y[3]
<1>5. \A q \in best : before(rank(p3), rank(q))
  <2> SUFFICES ASSUME NEW q \in best PROVE before(rank(p3), rank(q))
    OBVIOUS
  <2>1. /\ second(p3) \in Nat /\ second(q) \in Nat
        /\ first(p3) = first(p1) /\ first(p1) \in {0, 1} /\ first(q) \in {0, 1}
        /\ first(p1) <= first(q)
    BY <1>2, <1>4
  <2>2. CASE q \notin T2
    BY <2>1, <2>2
  <2>3. CASE q \in T2 /\ q \notin T3
    <3>1. second(p2) <= second(q) /\ second(p2) # second(q) /\ second(p3) = second(p2)
      BY <1>3, <1>4, <2>3
    <3> QED BY <2>1, <2>3, <3>1
  <2>4. CASE q \in T3
    BY <1>4, <2>1, <2>4
  <2> QED BY <2>2, <2>3, <2>4
<1>6. Chosen(answer, active, history)
        = CHOOSE p \in best : \A q \in best : before(rank(p), rank(q))
  BY DEF Chosen
<1>7. p3 \in best
  BY <1>4
<1> HIDE DEF best, before, rank
<1>8. Chosen(answer, active, history) \in best
  BY <1>5, <1>6, <1>7
<1> QED BY <1>8 DEF best

=============================================================================
