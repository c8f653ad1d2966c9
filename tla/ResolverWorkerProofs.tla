------------------------ MODULE ResolverWorkerProofs ------------------------
(***************************************************************************)
(* Proofs about ResolverWorker, for every set of agents and windows, every *)
(* page size and any number of snapshots, losses, acts and failing calls:  *)
(* the type invariant; that the pages of a sweep are of one desktop; that  *)
(* nothing of before a loss is published after it; and what a focus        *)
(* acknowledges.                                                           *)
(***************************************************************************)
EXTENDS ResolverWorker, FiniteSetTheorems, TLAPS

\* A finite set has a subset of each smaller size.
LEMMA SubsetOfSize ==
    ASSUME NEW rest, IsFiniteSet(rest), NEW n \in Nat, n <= Cardinality(rest)
    PROVE  \E page \in SUBSET rest : Cardinality(page) = n
<1> DEFINE size == Cardinality(rest)
<1>1. size \in Nat
  BY FS_CardinalityType
<1>2. PICK f : f \in Bijection(1..size, rest)
  BY FS_CardinalityType DEF ExistsBijection
<1> DEFINE page == {f[i] : i \in 1..n}
           g == [i \in 1..n |-> f[i]]
<1>3. 1..n \subseteq 1..size
  BY <1>1
<1>4. page \subseteq rest
  BY <1>2, <1>3 DEF Bijection, Injection
<1>5. g \in Bijection(1..n, page)
  <2>1. g \in [1..n -> page]
    OBVIOUS
  <2>2. \A t \in page : \E i \in 1..n : g[i] = t
    OBVIOUS
  <2>3. \A i, j \in 1..size : f[i] = f[j] => i = j
    BY <1>2 DEF Bijection, Injection, IsInjective
  <2>4. \A i, j \in 1..n : g[i] = g[j] => i = j
    BY <1>3, <2>3
  <2>5. g \in Injection(1..n, page)
    BY <2>1, <2>4 DEF Injection, IsInjective
  <2>6. g \in Surjection(1..n, page)
    BY <2>1, <2>2 DEF Surjection
  <2> QED
    BY <2>5, <2>6 DEF Bijection
<1>6. Cardinality(page) = n
  BY <1>5, FS_CountingElements DEF ExistsBijection
<1> QED
  BY <1>4, <1>6

\* A page is a part of what the sweep has left.
LEMMA PageOfRest ==
    ASSUME NEW s \in Sweeps
    PROVE  Page(s) \subseteq s.ids \ s.done
<1> DEFINE rest == s.ids \ s.done
           n == IF Cardinality(rest) < PageSize THEN Cardinality(rest) ELSE PageSize
<1>1. IsFiniteSet(rest)
  BY WorkerAssumption, FS_Subset DEF Sweeps
<1>2. n \in Nat /\ n <= Cardinality(rest)
  BY <1>1, FS_CardinalityType, WorkerAssumption
<1>3. \E page \in SUBSET rest : Cardinality(page) = n
  BY <1>1, <1>2, SubsetOfSize
<1> QED
  BY <1>3 DEF Page
-----------------------------------------------------------------------------
(* The inductive invariant.                                                 *)

\* What f answers for an agent is of after the last loss, or S asks for it again.
Proven(f, S) == \A a \in Agents : f[a] # Nothing => a \in proven \cup S

\* A sweep is of one desktop, and the pages it has done are proven.  Before the
\* first page, it asks for every agent of its claims that the file answers for
\* without a proof.
SweepProven ==
    /\ \A d \in sweep.desktops : d = sweep.signature[2]
    /\ sweep.done # {} => Proven(sweep.found, sweep.ids \ sweep.done)
    /\ sweep.done = {} /\ sweep.signature # Nothing =>
         \A a \in Agents : cache[a] # Nothing /\ sweep.signature[1][a] # 0
                          => a \in proven \cup sweep.ids

\* The page under way is a part of the sweep it belongs to.
PageOfSweep ==
    pc = "probe" /\ ~overtaken =>
        /\ sweep.signature # Nothing /\ job.desktop = sweep.signature[2]
        /\ job.page \subseteq sweep.ids \ sweep.done
        /\ job.page \ job.todo \subseteq proven
        /\ Proven(job.found, sweep.ids \ sweep.done)

CommitProven == pc = "commit" /\ ~overtaken => Proven(job.found, {})

\* The file is proven, or every claim is asked for.
ListProven == pc = "list" /\ ~overtaken /\ ~job.all => Proven(cache, {})
IntervalProven == due \/ Proven(cache, {})

MatchesProven == Proven(matches, {})

\* What a focus will acknowledge.
FocusProven ==
    pc \in {"look", "acknowledge"} =>
        /\ job.found = job.window => job.seen
        /\ ~overtaken => job.agent \in proven
        /\ pc = "acknowledge" => job.found = job.window

Safe == /\ SweepProven /\ PageOfSweep /\ CommitProven /\ ListProven /\ IntervalProven
        /\ MatchesProven /\ FocusProven

IInv == TypeOK /\ Safe
-----------------------------------------------------------------------------
(* Types.                                                                   *)

Kinds == {"desktop", "focus", "close"}

\* The null values have their types.
LEMMA NullTypes ==
    /\ NoClaim \in Claims /\ NoMatch \in Matches
    /\ IdleJob \in RefreshLocals /\ NoSweep \in Sweeps /\ NoSweep.done \subseteq NoSweep.ids
<1>1. 0 \in Stamps
  BY WorkerAssumption DEF Stamps
<1>2. NoClaim \in Claims /\ NoMatch \in Matches
  BY <1>1 DEF NoClaim, NoMatch, Claims, Matches, Places
<1> QED
  BY <1>2 DEF IdleJob, RefreshLocals, NoSweep, Sweeps

\* What is read of the state has its type.
LEMMA ReadTypes ==
    ASSUME TypeOK
    PROVE  /\ PendingClaims \in Claims
           /\ Desktop \in Desktops
           /\ \A a \in Agents : where[a] \in Places /\ Revalidated(a) \in Places
<1>1. 0 \in Stamps
  BY WorkerAssumption DEF Stamps
<1>2. PendingClaims \in Claims
  BY <1>1 DEF TypeOK, PendingClaims, Claims
<1>3. \A a \in Agents : where[a] \in Places /\ Revalidated(a) \in Places
  BY DEF TypeOK, Places, Revalidated
<1>4. where \in Matches /\ focus \in Places
  BY DEF TypeOK, Matches, Places
<1>5. open \in SUBSET Windows
  BY DEF TypeOK
<1> QED
  BY <1>2, <1>3, <1>4, <1>5 DEF Desktop, Desktops

\* What a refresh computes has its type.
LEMMA RefreshTypes ==
    ASSUME TypeOK, job \in RefreshLocals
    PROVE  /\ Targets \in SUBSET Agents
           /\ Signature \in Signatures /\ Signature # Nothing
           /\ CurrentSweep \in Sweeps /\ CurrentSweep.done \subseteq CurrentSweep.ids
           /\ \A s \in Sweeps : FoundSoFar(s) \in Matches
           /\ \A f \in Matches : Accepted(f) \in Matches
           /\ \A a \in Agents : Answer(a) \in Places
<1>1. Targets \in SUBSET Agents
  BY DEF Targets, Keys, ChangedIds
<1>2. Signature \in Signatures
  BY <1>1, ReadTypes DEF Signature, Signatures, RefreshLocals
<1>3. Signature # Nothing
  BY <1>2, WorkerAssumption
<1>4. CurrentSweep \in Sweeps /\ CurrentSweep.done \subseteq CurrentSweep.ids
  <2>1. CASE sweep.signature = Signature
    BY <2>1 DEF CurrentSweep, TypeOK
  <2>2. CASE sweep.signature # Signature
    BY <2>2, <1>1, <1>2, NullTypes DEF CurrentSweep, Sweeps, NoSweep
  <2> QED
    BY <2>1, <2>2
<1>5. \A s \in Sweeps : FoundSoFar(s) \in Matches
  BY DEF FoundSoFar, Only, Sweeps, TypeOK, Matches, Places
<1>6. \A f \in Matches : Accepted(f) \in Matches
  BY DEF Accepted, Matches, Places
<1>7. \A a \in Agents : Answer(a) \in Places
  BY ReadTypes DEF Answer, Places
<1> QED
  BY <1>1, <1>2, <1>3, <1>4, <1>5, <1>6, <1>7

\* The queue of compositor events.
LEMMA EventTypes ==
    ASSUME TypeOK, NEW kind \in Kinds, NEW w \in Places
    PROVE  /\ Append(events, <<kind, w>>) \in Seq(Kinds \X Places)
           /\ Emit(kind, w) => events' \in Seq(Kinds \X Places)
           /\ NextEvent(kind, w) => events' \in Seq(Kinds \X Places)
<1> DEFINE E == Kinds \X Places
<1>1. events \in Seq(E)
  BY DEF TypeOK, Kinds
<1>2. <<kind, w>> \in E /\ <<"desktop", Nothing>> \in E
  BY DEF Kinds, Places
<1>3. << <<"desktop", Nothing>>, <<kind, w>> >> \in Seq(E)
  BY <1>2
<1> HIDE DEF E
<1>4. \A q \in Seq(E), e \in E : Append(q, e) \in Seq(E)
  OBVIOUS
<1>5. \A q, r \in Seq(E) : q \o r \in Seq(E)
  OBVIOUS
<1>6. \A q \in Seq(E) : q # <<>> => Tail(q) \in Seq(E)
  OBVIOUS
<1>7. Append(events, <<kind, w>>) \in Seq(E)
  BY <1>1, <1>2, <1>4
<1>8. Emit(kind, w) => events' \in Seq(E)
  BY <1>1, <1>3, <1>5 DEF Emit
<1>9. NextEvent(kind, w) => events' \in Seq(E)
  BY <1>1, <1>6 DEF NextEvent
<1> QED
  BY <1>7, <1>8, <1>9 DEF E
Focusing == pc \in {"focus", "look", "acknowledge"}

\* The bound of the changes.
LEMMA ChangeTypes == TypeOK /\ (Change \/ UNCHANGED changes) => changes' \in 0..MaxChanges
BY WorkerAssumption DEF TypeOK, Change

\* What the counters are compared for.
LEMMA FlagTypes == Working \in BOOLEAN /\ Reading \in BOOLEAN /\ KeepsRefresh \in BOOLEAN
BY DEF Working, Reading, KeepsRefresh

\* The initial state has the types.
LEMMA InitTypes == Init => TypeOK
<1> SUFFICES ASSUME Init PROVE TypeOK
  OBVIOUS
<1>1. /\ where \in [Agents -> open \cup {Nothing}] /\ cache \in Matches
  BY WorkerAssumption DEF Init, Matches, Places
<1>2. events \in Seq(Kinds \X Places)
  BY DEF Init
<1>3. open \subseteq Windows /\ changes \in 0..MaxChanges
  BY WorkerAssumption DEF Init
<1> QED
  BY <1>1, <1>2, <1>3, NullTypes DEF Init, TypeOK, Kinds

\* The desktop, its user, commands and time.
LEMMA AroundTypes ==
    ASSUME TypeOK, User \/ IntervalEnds \/ BackoffEnds
    PROVE  TypeOK'
<1>0. Change \/ UNCHANGED changes => changes' \in 0..MaxChanges
  BY ChangeTypes
<1>1. ASSUME NEW w \in Windows, NEW shown \in SUBSET Agents, Open(w, shown) PROVE TypeOK'
  <2>1. events' \in Seq(Kinds \X Places)
    BY <1>1, EventTypes DEF Open, Kinds, Places
  <2>2. where' \in [Agents -> open' \cup {Nothing}]
    BY <1>1 DEF Open, TypeOK
  <2> QED
    BY <1>0, <1>1, <2>1, <2>2 DEF Open, DesktopOnly, hub, queue, metadata, published, worker,
       locals, history, TypeOK, Kinds
<1>2. ASSUME NEW w \in Windows, Close(w) PROVE TypeOK'
  <2>1. events' \in Seq(Kinds \X Places)
    BY <1>2, EventTypes DEF Close, Kinds, Places
  <2>2. where' \in [Agents -> open' \cup {Nothing}]
    BY <1>2 DEF Close, TypeOK
  <2> QED
    BY <1>0, <1>2, <2>1, <2>2 DEF Close, DesktopOnly, hub, queue, metadata, published, worker,
       locals, history, TypeOK, Kinds
<1>3. ASSUME NEW w \in Windows, Focus(w) PROVE TypeOK'
  <2>1. events' \in Seq(Kinds \X Places)
    BY <1>3, EventTypes DEF Focus, Kinds, Places
  <2> QED
    BY <1>0, <1>3, <2>1 DEF Focus, DesktopOnly, hub, queue, metadata, published, worker,
       locals, history, TypeOK, Kinds
<1>4. ASSUME NEW a \in Agents, Leave(a) PROVE TypeOK'
  <2>1. events' \in Seq(Kinds \X Places)
    BY <1>4, EventTypes DEF Leave, Kinds, Places
  <2>2. where' \in [Agents -> open' \cup {Nothing}]
    BY <1>4 DEF Leave, TypeOK
  <2> QED
    BY <1>0, <1>4, <2>1, <2>2 DEF Leave, DesktopOnly, hub, queue, metadata, published, worker,
       locals, history, TypeOK, Kinds
<1>5. ASSUME NEW a \in Agents, CommandAcknowledges(a) PROVE TypeOK'
  <2>1. acks' \in Claims
    BY <1>5 DEF CommandAcknowledges, TypeOK, Claims
  <2> QED
    BY <1>0, <1>5, <2>1 DEF CommandAcknowledges, desktop, queue, metadata, published,
       worker, locals, history, TypeOK
<1>6. CASE IntervalEnds
  BY <1>6 DEF IntervalEnds, hub, desktop, queue, published, worker, locals, history, TypeOK
<1>7. CASE BackoffEnds
  <2>1. backoff' \in BOOLEAN
    BY <1>7 DEF BackoffEnds
  <2>2. UNCHANGED <<hub, desktop, events, queue, known, seenDesktop, due, sweep, published,
                    worker, history, changes>>
    BY <1>7 DEF BackoffEnds
  <2> QED
    BY <2>1, <2>2 DEF hub, desktop, queue, published, worker, locals, history, TypeOK
<1> QED
  BY <1>1, <1>2, <1>3, <1>4, <1>5, <1>6, <1>7 DEF User

\* The main thread and the Hub threads.
LEMMA QueueTypes ==
    ASSUME TypeOK,
           \/ MainThread \/ Lose \/ ClearHubMatches
           \/ \E claims \in Claims : Snapshot(claims)
    PROVE  TypeOK'
<1>1. CASE HandleDesktop
  <2>1. events' \in Seq(Kinds \X Places)
    BY <1>1, EventTypes DEF HandleDesktop, Kinds, Places
  <2>2. since' \in BOOLEAN /\ slipped' \in BOOLEAN
    <3>1. since' \in BOOLEAN
      BY <1>1, FlagTypes DEF HandleDesktop
    <3>2. slipped' = (slipped \/ pc = "flag")
      BY <1>1 DEF HandleDesktop
    <3> QED
      BY <3>1, <3>2
  <2> QED
    BY <1>1, <2>1, <2>2 DEF HandleDesktop, hub, desktop, metadata, published, locals, TypeOK, Kinds
<1>2. ASSUME NEW w \in Windows, HandleFocus(w) PROVE TypeOK'
  <2>1. events' \in Seq(Kinds \X Places)
    BY <1>2, EventTypes DEF HandleFocus, Kinds, Places
  <2>2. /\ focusJob' = Nothing \/ focusJob' \in FocusJobs
        /\ pending' \in BOOLEAN /\ dirty' \in BOOLEAN
        /\ overtaken' \in BOOLEAN /\ since' \in BOOLEAN
    <3>1. CASE Showing(w) = {}
      BY <1>2, <3>1 DEF HandleFocus, TypeOK, queue
    <3>2. CASE Showing(w) # {}
      <4>1. PICK a \in Showing(w) : focusJob' = [agent |-> a, window |-> w, claim |-> roster[a]]
        BY <1>2, <3>2 DEF HandleFocus
      <4>2. focusJob' \in FocusJobs
        BY <4>1 DEF Showing, FocusJobs, TypeOK, Claims
      <4>3. /\ pending' \in BOOLEAN /\ dirty' \in BOOLEAN
            /\ overtaken' \in BOOLEAN /\ since' \in BOOLEAN
        BY <1>2, <3>2, FlagTypes DEF HandleFocus
      <4> QED
        BY <4>2, <4>3
    <3> QED
      BY <3>1, <3>2
  <2> QED
    BY <1>2, <2>1, <2>2 DEF HandleFocus, hub, desktop, metadata, published, locals, history,
       TypeOK, Kinds
<1>3. ASSUME NEW w \in Windows, HandleClose(w) PROVE TypeOK'
  <2>1. events' \in Seq(Kinds \X Places)
    BY <1>3, EventTypes DEF HandleClose, Kinds, Places
  <2>2. matches' \in Matches
    BY <1>3 DEF HandleClose, TypeOK, Matches, Places
  <2> QED
    BY <1>3, <2>1, <2>2 DEF HandleClose, hub, desktop, queue, metadata, worker, locals, history,
       TypeOK, Kinds
<1>4. CASE Lose
  BY <1>4, ChangeTypes DEF Lose, desktop, queue, metadata, published, worker, locals, history,
     TypeOK
<1>5. CASE ClearHubMatches
  <2>1. overtaken' \in BOOLEAN /\ since' \in BOOLEAN
    BY <1>5 DEF ClearHubMatches, Working, Reading
  <2> QED
    BY <1>5, <2>1, NullTypes DEF ClearHubMatches, SweepAfterLoss, desktop, locals, TypeOK
<1>6. ASSUME NEW claims \in Claims, Snapshot(claims) PROVE TypeOK'
  <2>1. changes' \in 0..MaxChanges
    BY <1>6, ChangeTypes DEF Snapshot
  <2> QED
    BY <1>6, <2>1 DEF Snapshot, desktop, metadata, published, worker, locals, history, TypeOK
<1> QED
  BY <1>1, <1>2, <1>3, <1>4, <1>5, <1>6 DEF MainThread

\* A refresh that is idle, or that ends.
LEMMA DoneTypes == Done => /\ pc' = "idle" /\ job' \in RefreshLocals
                           /\ overtaken' \in BOOLEAN /\ since' \in BOOLEAN
BY NullTypes DEF Done

\* A job that gives up keeps the types.
LEMMA GiveUpTypes ==
    ASSUME TypeOK, GiveUp, changes' \in 0..MaxChanges, failed' \in BOOLEAN
    PROVE  TypeOK'
BY DoneTypes DEF GiveUp, hub, desktop, queue, metadata, published, TypeOK

LEMMA FailTypes == TypeOK /\ (Fail \/ Work) => changes' \in 0..MaxChanges /\ failed' \in BOOLEAN
BY ChangeTypes DEF Fail, Work, TypeOK

\* A failed inventory keeps the types.
LEMMA InventoryTypes ==
    ASSUME TypeOK, job \in RefreshLocals, NEW listed \in Desktops \cup {Nothing},
           InventoryFails(listed)
    PROVE  TypeOK'
<1>1. changes' \in 0..MaxChanges /\ failed' \in BOOLEAN
  BY FailTypes DEF InventoryFails
<1>2. Done
  BY DEF InventoryFails
<1>3. /\ known' \in Claims /\ seenDesktop' \in Desktops \cup {Nothing}
      /\ backoff' \in BOOLEAN /\ dirty' \in BOOLEAN
  <2>1. CASE StillCurrent
    BY <2>1 DEF InventoryFails, RefreshLocals, TypeOK
  <2>2. CASE ~StillCurrent
    BY <2>2 DEF InventoryFails, TypeOK
  <2> QED
    BY <2>1, <2>2
<1> QED
  BY <1>1, <1>2, <1>3, DoneTypes DEF InventoryFails, hub, desktop, published, TypeOK

\* A refresh under way.
LEMMA RefreshLocalsType == TypeOK /\ ~Focusing => job \in RefreshLocals
BY DEF TypeOK, Focusing

\* The steps of a refresh.
LEMMA RefreshTypesKept ==
    ASSUME TypeOK, PageOfSweep, Refreshes
    PROVE  TypeOK'
<1>1. CASE TakeRefresh
  BY <1>1 DEF TakeRefresh, hub, desktop, metadata, published, history, TypeOK
<1>2. CASE ReadClaims
  <2>1. job \in RefreshLocals /\ pc = "read"
    BY <1>2, RefreshLocalsType DEF ReadClaims, Focusing
  <2>2. /\ backoff' \in BOOLEAN /\ dirty' \in BOOLEAN
        /\ overtaken' \in BOOLEAN /\ since' \in BOOLEAN
        /\ pc' \in {"idle", "list"} /\ job' \in RefreshLocals
    <3>1. CASE Done /\ UNCHANGED <<backoff, dirty>>
      BY <3>1, DoneTypes DEF TypeOK
    <3>2. CASE Done /\ IF StillCurrent THEN backoff' = FALSE /\ dirty' = FALSE
                       ELSE UNCHANGED <<backoff, dirty>>
      BY <3>2, DoneTypes DEF TypeOK
    <3>3. CASE /\ pc' = "list"
               /\ job' = [job EXCEPT !.agents = PendingClaims,
                                     !.all = InitialRefresh \/ dirty \/ due,
                                     !.fresh = InitialRefresh \/ due]
               /\ UNCHANGED <<backoff, dirty, overtaken, since>>
      <4>1. (InitialRefresh \/ dirty \/ due) \in BOOLEAN /\ (InitialRefresh \/ due) \in BOOLEAN
        OBVIOUS
      <4>2. job' \in RefreshLocals
        BY <2>1, <3>3, <4>1, ReadTypes DEF RefreshLocals
      <4> QED
        BY <3>3, <4>2 DEF TypeOK
    <3> QED
      BY <1>2, <3>1, <3>2, <3>3 DEF ReadClaims
  <2> QED
    BY <1>2, <2>2 DEF ReadClaims, hub, desktop, published, history, TypeOK
<1>3. CASE ListWindows
  <2>1. job \in RefreshLocals
    BY <1>3, RefreshLocalsType DEF ListWindows, Focusing
  <2> DEFINE s == CurrentSweep
  <2>2. s \in Sweeps /\ s.done \subseteq s.ids
    BY <2>1, RefreshTypes
  <2>3. /\ sweep' \in Sweeps /\ sweep'.done \subseteq sweep'.ids
        /\ backoff' \in BOOLEAN /\ dirty' \in BOOLEAN
        /\ overtaken' \in BOOLEAN /\ since' \in BOOLEAN
        /\ pc' \in {"idle", "commit", "probe"} /\ job' \in RefreshLocals
    <3>1. CASE /\ Done
               /\ IF StillCurrent THEN backoff' = FALSE /\ dirty' = since
                  ELSE UNCHANGED <<backoff, dirty>>
               /\ UNCHANGED sweep
      BY <3>1, DoneTypes DEF TypeOK
    <3>2. CASE Done /\ UNCHANGED <<sweep, backoff, dirty>>
      BY <3>2, DoneTypes DEF TypeOK
    <3>3. CASE /\ sweep' = s
               /\ pc' = "commit"
               /\ job' = [job EXCEPT !.desktop = Desktop, !.fresh = FALSE,
                                     !.found = Accepted(FoundSoFar(s))]
               /\ UNCHANGED <<backoff, dirty, overtaken, since>>
      <4>1. Accepted(FoundSoFar(s)) \in Matches
        BY <2>1, <2>2, RefreshTypes
      <4>2. job' \in RefreshLocals
        BY <2>1, <3>3, <4>1, ReadTypes DEF RefreshLocals
      <4> QED
        BY <2>2, <3>3, <4>2 DEF TypeOK
    <3>4. CASE /\ sweep' = s
               /\ pc' = "probe"
               /\ job' = [job EXCEPT !.desktop = Desktop, !.page = Page(s), !.todo = Page(s),
                                     !.fresh = job.fresh \/ Desktop # seenDesktop,
                                     !.found = FoundSoFar(s)]
               /\ UNCHANGED <<backoff, dirty, overtaken, since>>
      <4>1. FoundSoFar(s) \in Matches /\ Page(s) \in SUBSET Agents
        BY <2>1, <2>2, RefreshTypes, PageOfRest DEF Sweeps
      <4>2. (job.fresh \/ Desktop # seenDesktop) \in BOOLEAN
        OBVIOUS
      <4>3. job' \in RefreshLocals
        BY <2>1, <3>4, <4>1, <4>2, ReadTypes DEF RefreshLocals
      <4> QED
        BY <2>2, <3>4, <4>3 DEF TypeOK
    <3> QED
      BY <1>3, <3>1, <3>2, <3>3, <3>4 DEF ListWindows
  <2> QED
    BY <1>3, <2>3 DEF ListWindows, hub, desktop, published, history, TypeOK
<1>4. CASE ListFails
  <2>1. job \in RefreshLocals /\ seenDesktop \in Desktops \cup {Nothing}
    BY <1>4, RefreshLocalsType DEF ListFails, Focusing, TypeOK
  <2> QED
    BY <1>4, <2>1, InventoryTypes DEF ListFails
<1>5. ASSUME NEW a \in Agents, Probe(a) PROVE TypeOK'
  <2>1. job \in RefreshLocals
    BY <1>5, RefreshLocalsType DEF Probe, Focusing
  <2>2. Answer(a) \in Places /\ Nothing \in Places
    BY <2>1, RefreshTypes DEF Places
  <2>3. job' \in RefreshLocals
    <3>1. PICK w \in Places : job' = [job EXCEPT !.todo = @ \ {a}, !.found[a] = w]
      BY <1>5, <2>2 DEF Probe
    <3>2. [job.found EXCEPT ![a] = w] \in Matches
      BY <2>1 DEF RefreshLocals, Matches
    <3> QED
      BY <2>1, <3>1, <3>2 DEF RefreshLocals
  <2>4. changes' \in 0..MaxChanges /\ failed' \in BOOLEAN
    BY <1>5, FailTypes DEF Probe
  <2> QED
    BY <1>5, <2>3, <2>4 DEF Probe, hub, desktop, queue, metadata, published, TypeOK
<1>6. CASE ProbePreempted
  BY <1>6, FailTypes, GiveUpTypes DEF ProbePreempted
<1>7. CASE EndPage
  <2>1. job \in RefreshLocals
    BY <1>7, RefreshLocalsType DEF EndPage, Focusing
  <2>2. sweep' = [sweep EXCEPT !.found = job.found, !.done = @ \cup job.page,
                               !.desktops = @ \cup {job.desktop}]
    BY <1>7 DEF EndPage
  <2>3. sweep' \in Sweeps /\ sweep'.done \subseteq sweep'.ids
    <3>1. job.page \subseteq sweep.ids
      BY <1>7 DEF EndPage, PageOfSweep, StillCurrent
    <3>2. sweep \in Sweeps /\ sweep.done \subseteq sweep.ids
      BY DEF TypeOK
    <3>3. sweep' \in Sweeps
      <4>1. job.desktop \in Desktops
        BY <1>7, <3>2 DEF EndPage, PageOfSweep, StillCurrent, Sweeps, Signatures
      <4> QED
        BY <2>1, <2>2, <3>2, <4>1 DEF Sweeps, RefreshLocals
    <3> QED
      BY <2>2, <3>1, <3>2, <3>3 DEF Sweeps
  <2>4. /\ pc' \in {"idle", "commit"} /\ job' \in RefreshLocals
        /\ pending' \in BOOLEAN /\ overtaken' \in BOOLEAN /\ since' \in BOOLEAN
    <3>1. CASE sweep'.done # sweep.ids
      BY <1>7, <3>1, DoneTypes DEF EndPage
    <3>2. CASE sweep'.done = sweep.ids
      <4>1. Accepted(job.found) \in Matches
        BY <2>1, RefreshTypes DEF RefreshLocals
      <4>2. job' = [job EXCEPT !.found = Accepted(job.found)]
        BY <1>7, <3>2 DEF EndPage
      <4>3. job' \in RefreshLocals
        BY <2>1, <4>1, <4>2 DEF RefreshLocals
      <4> QED
        BY <1>7, <3>2, <4>3 DEF EndPage, TypeOK
    <3> QED
      BY <3>1, <3>2
  <2>5. slipped' \in BOOLEAN
    <3>1. slipped' = (slipped \/ \E a \in sweep'.done : roster[a] = 0)
      BY <1>7 DEF EndPage
    <3> QED
      BY <3>1
  <2> QED
    BY <1>7, <2>3, <2>4, <2>5 DEF EndPage, hub, desktop, published, TypeOK
<1>8. CASE EndPageFails
  <2>1. job \in RefreshLocals /\ job.desktop \in Desktops \cup {Nothing}
    BY <1>8, RefreshLocalsType DEF EndPageFails, Focusing, RefreshLocals
  <2> QED
    BY <1>8, <2>1, InventoryTypes DEF EndPageFails
<1>9. CASE ApplyHubMatches
  <2>1. job \in RefreshLocals
    BY <1>9, RefreshLocalsType DEF ApplyHubMatches, Focusing
  <2>2. /\ matches' \in Matches /\ cache' \in Matches /\ known' \in Claims
        /\ seenDesktop' \in Desktops \cup {Nothing}
    BY <1>9, <2>1 DEF ApplyHubMatches, RefreshLocals
  <2>3. job' \in RefreshLocals
    BY <1>9, NullTypes DEF ApplyHubMatches, RefreshLocals, TypeOK
  <2>4. due' \in BOOLEAN
    <3>1. due' = (due /\ ~job.fresh)
      BY <1>9 DEF ApplyHubMatches
    <3> QED
      BY <3>1
  <2>5. sweep' \in Sweeps /\ sweep'.done \subseteq sweep'.ids
    BY <1>9, NullTypes DEF ApplyHubMatches
  <2> QED
    BY <1>9, <2>2, <2>3, <2>4, <2>5 DEF ApplyHubMatches, hub, desktop, queue, history, TypeOK
<1>10. CASE ApplyRefused
  BY <1>10, FailTypes, GiveUpTypes DEF ApplyRefused
<1>11. CASE WriteFlag
  <2>1. dirty' \in BOOLEAN
    BY <1>11, RefreshLocalsType DEF WriteFlag, Focusing, RefreshLocals
  <2> QED
    BY <1>11, <2>1, DoneTypes DEF WriteFlag, hub, desktop, metadata, published, history, TypeOK
<1> QED
  BY <1>1, <1>2, <1>3, <1>4, <1>5, <1>6, <1>7, <1>8, <1>9, <1>10, <1>11 DEF Refreshes

\* The steps of a revalidation.
LEMMA RevalidationTypes ==
    ASSUME TypeOK, Revalidates
    PROVE  TypeOK'
<1>1. CASE TakeFocus
  <2>1. focusJob \in FocusJobs
    BY <1>1 DEF TakeFocus, TypeOK
  <2>2. job' \in FocusLocals
    BY <1>1, <2>1 DEF TakeFocus, FocusJobs, FocusLocals, Places
  <2> QED
    BY <1>1, <2>2 DEF TakeFocus, hub, desktop, metadata, published, history, TypeOK
<1>2. CASE FocusProbe
  <2>0. changes' \in 0..MaxChanges /\ failed' \in BOOLEAN
    BY <1>2, FailTypes DEF FocusProbe
  <2>1. CASE GiveUp
    BY <2>0, <2>1, GiveUpTypes
  <2>2. CASE ~GiveUp
    <3>1. job \in FocusLocals
      BY <1>2 DEF FocusProbe, TypeOK
    <3>2. job.agent \in Agents
      BY <3>1 DEF FocusLocals
    <3>3. (where[job.agent] = job.window) \in BOOLEAN /\ Revalidated(job.agent) \in Places
      BY <3>2, ReadTypes
    <3>4. job' = [job EXCEPT !.seen = (where[job.agent] = job.window),
                             !.found = Revalidated(job.agent)]
      BY <1>2, <2>2 DEF FocusProbe
    <3>5. job' \in FocusLocals
      BY <3>1, <3>3, <3>4 DEF FocusLocals
    <3> QED
      BY <1>2, <2>0, <2>2, <3>5 DEF FocusProbe, hub, desktop, queue, metadata, published, TypeOK
  <2> QED
    BY <2>1, <2>2
<1>3. CASE FocusLook
  <2>0. changes' \in 0..MaxChanges /\ failed' \in BOOLEAN
    BY <1>3, FailTypes DEF FocusLook
  <2>1. CASE GiveUp
    BY <2>0, <2>1, GiveUpTypes
  <2>2. CASE ~GiveUp
    BY <1>3, <2>0, <2>2 DEF FocusLook, hub, desktop, queue, metadata, published, TypeOK
  <2> QED
    BY <2>1, <2>2
<1>4. CASE FocusFails
  BY <1>4, FailTypes, GiveUpTypes DEF FocusFails
<1>5. CASE FocusAcknowledges
  <2>0. changes' \in 0..MaxChanges /\ failed' \in BOOLEAN
    BY <1>5, FailTypes DEF FocusAcknowledges
  <2>1. CASE GiveUp
    BY <2>0, <2>1, GiveUpTypes
  <2>2. CASE ~GiveUp
    <3>1. job \in FocusLocals
      BY <1>5 DEF FocusAcknowledges, TypeOK
    <3>2. acks' \in Claims /\ matches' \in Matches
      BY <1>5, <2>2, <3>1 DEF FocusAcknowledges, FocusLocals, TypeOK, Claims, Matches, Places
    <3> QED
      BY <1>5, <2>0, <2>2, <3>2, DoneTypes DEF FocusAcknowledges, desktop, queue, metadata, TypeOK
  <2> QED
    BY <2>1, <2>2
<1> QED
  BY <1>1, <1>2, <1>3, <1>4, <1>5 DEF Revalidates
-----------------------------------------------------------------------------
(* Safety.                                                                  *)

\* What is published, and what the sweep has, stays.
LEMMA PublishedKept ==
    ASSUME Safe, UNCHANGED <<sweep, published>>, proven \subseteq proven', due => due'
    PROVE  SweepProven' /\ IntervalProven' /\ MatchesProven'
BY DEF Safe, SweepProven, IntervalProven, MatchesProven, Proven, published

\* A step beside the worker: a match may go, and its job may be overtaken.
LEMMA BesideSafe ==
    ASSUME Safe, UNCHANGED <<sweep, cache, locals, proven>>, due => due',
           pc = "idle" \/ (overtaken => overtaken'),
           \A a \in Agents : matches'[a] # Nothing => matches'[a] = matches[a]
    PROVE  Safe'
<1>1. SweepProven' /\ IntervalProven' /\ MatchesProven'
  BY DEF Safe, SweepProven, IntervalProven, MatchesProven, Proven
<1>2. PageOfSweep'
  BY DEF Safe, PageOfSweep, Proven, locals
<1>3. CommitProven' /\ ListProven'
  BY DEF Safe, CommitProven, ListProven, Proven, locals
<1>4. FocusProven'
  BY DEF Safe, FocusProven, locals
<1> QED
  BY <1>1, <1>2, <1>3, <1>4 DEF Safe

\* A worker that is about nothing that it has computed.
LEMMA RestSafe ==
    ASSUME Safe, pc' \in {"idle", "read", "flag", "focus"},
           UNCHANGED <<sweep, published, proven>>, due => due'
    PROVE  Safe'
<1>1. SweepProven' /\ IntervalProven' /\ MatchesProven'
  BY PublishedKept
<1>2. PageOfSweep' /\ CommitProven' /\ ListProven' /\ FocusProven'
  BY DEF PageOfSweep, CommitProven, ListProven, FocusProven
<1> QED
  BY <1>1, <1>2 DEF Safe

LEMMA GiveUpSafe == Safe /\ GiveUp => Safe'
<1> SUFFICES ASSUME Safe, GiveUp PROVE Safe'
  OBVIOUS
<1>1. pc' = "idle" /\ UNCHANGED <<sweep, published, proven, due>>
  BY DEF GiveUp, Done, metadata
<1> QED
  BY <1>1, RestSafe

LEMMA InitSafe == Init => Safe
BY DEF Init, NoSweep, NoMatch, Safe, SweepProven, PageOfSweep, CommitProven, ListProven,
   IntervalProven, MatchesProven, FocusProven, Proven

\* The steps of the others.
LEMMA OthersSafe ==
    ASSUME Safe,
           \/ MainThread \/ User \/ IntervalEnds \/ BackoffEnds \/ Lose \/ ClearHubMatches
           \/ \E claims \in Claims : Snapshot(claims)
    PROVE  Safe'
<1>1. CASE User
  <2>1. UNCHANGED <<metadata, published, worker, proven>>
    BY <1>1 DEF User, Open, Close, Focus, Leave, CommandAcknowledges, DesktopOnly, history
  <2> QED
    BY <2>1, BesideSafe DEF metadata, published, worker
<1>2. CASE IntervalEnds \/ BackoffEnds
  BY <1>2, BesideSafe DEF IntervalEnds, BackoffEnds, published, worker, history
<1>3. CASE HandleDesktop
  BY <1>3, BesideSafe DEF HandleDesktop, metadata, published
<1>4. ASSUME NEW w \in Windows, HandleFocus(w) PROVE Safe'
  <2>1. UNCHANGED <<metadata, published, locals, proven>>
    BY <1>4 DEF HandleFocus, history
  <2>2. pc = "idle" \/ (overtaken => overtaken')
    BY <1>4 DEF HandleFocus, Working
  <2> QED
    BY <2>1, <2>2, BesideSafe DEF metadata, published
<1>5. ASSUME NEW w \in Windows, HandleClose(w) PROVE Safe'
  BY <1>5, BesideSafe DEF HandleClose, metadata, worker, history
<1>6. ASSUME NEW claims \in Claims, Snapshot(claims) PROVE Safe'
  BY <1>6, BesideSafe DEF Snapshot, metadata, published, worker, history
<1>7. CASE Lose
  BY <1>7, BesideSafe DEF Lose, metadata, published, worker, history
<1>8. CASE ClearHubMatches
  <2>1. /\ matches' = NoMatch /\ overtaken' = (pc # "idle") /\ due' = TRUE /\ sweep' = NoSweep
        /\ UNCHANGED <<cache, pc, job>>
    BY <1>8 DEF ClearHubMatches, Working, SweepAfterLoss, locals
  <2>2. SweepProven' /\ IntervalProven' /\ MatchesProven'
    BY <2>1 DEF SweepProven, IntervalProven, MatchesProven, Proven, NoSweep, NoMatch
  <2>3. PageOfSweep' /\ CommitProven' /\ ListProven'
    BY <2>1 DEF PageOfSweep, CommitProven, ListProven
  <2>4. FocusProven'
    BY <2>1 DEF Safe, FocusProven
  <2> QED
    BY <2>2, <2>3, <2>4 DEF Safe
<1> QED
  BY <1>1, <1>2, <1>3, <1>4, <1>5, <1>6, <1>7, <1>8 DEF MainThread

\* The sweep that a page belongs to is proven like the one before it: a new one
\* asks for everything the file answers for, or the file is proven.
LEMMA CurrentSweepProven ==
    ASSUME TypeOK, Safe, pc = "list", ~overtaken \/ CurrentSweep = sweep
    PROVE  /\ \A d \in CurrentSweep.desktops : d = Desktop
           /\ CurrentSweep.signature = Signature
           /\ Proven(FoundSoFar(CurrentSweep), CurrentSweep.ids \ CurrentSweep.done)
           /\ sweep' = CurrentSweep /\ UNCHANGED <<published, proven>> => SweepProven'
<1> DEFINE s == CurrentSweep
<1>0. job \in RefreshLocals
  BY RefreshLocalsType DEF Focusing
<1>1. Signature[1] = job.agents /\ Signature[2] = Desktop
  BY DEF Signature
<1>2. s.signature = Signature /\ \A d \in s.desktops : d = Desktop
  BY <1>1 DEF CurrentSweep, NoSweep, Safe, SweepProven
<1>3. s.done # {} => Proven(s.found, s.ids \ s.done)
  BY DEF CurrentSweep, NoSweep, Safe, SweepProven
<1>4. s.done = {} => \A a \in Agents : cache[a] # Nothing /\ job.agents[a] # 0
                                      => a \in proven \cup s.ids
  <2>1. CASE sweep.signature = Signature
    BY <1>0, <1>1, <2>1, RefreshTypes DEF CurrentSweep, Safe, SweepProven
  <2>2. CASE sweep.signature # Signature
    <3>0. NoSweep.signature = Nothing
      BY DEF NoSweep
    <3>1. s.ids = Targets /\ ~overtaken
      <4>1. s = [NoSweep EXCEPT !.signature = Signature, !.ids = Targets]
        BY <2>2 DEF CurrentSweep
      <4>2. s # sweep
        BY <1>2, <2>2
      <4> QED
        BY <4>1, <4>2 DEF NoSweep
    <3>2. CASE job.all
      BY <3>1, <3>2 DEF Targets, Keys
    <3>3. CASE ~job.all
      BY <3>1, <3>3 DEF Safe, ListProven, Proven
    <3> QED
      BY <3>2, <3>3
  <2> QED
    BY <2>1, <2>2
<1>5. Proven(FoundSoFar(s), s.ids \ s.done)
  BY <1>3, <1>4 DEF Proven, FoundSoFar, Only, Keys
<1>6. sweep' = s /\ UNCHANGED <<published, proven>> => SweepProven'
  <2> SUFFICES ASSUME sweep' = s, UNCHANGED <<published, proven>> PROVE SweepProven'
    OBVIOUS
  <2>1. \A d \in sweep'.desktops : d = sweep'.signature[2]
    BY <1>1, <1>2
  <2> QED
    BY <1>1, <1>2, <1>3, <1>4, <2>1 DEF SweepProven, Proven, published
<1> QED
  BY <1>2, <1>5, <1>6

\* The steps of a refresh.
LEMMA RefreshSafe ==
    ASSUME TypeOK, Safe, Refreshes
    PROVE  Safe'
<1>1. CASE TakeRefresh
  BY <1>1, RestSafe DEF TakeRefresh, metadata, history
<1>2. CASE ReadClaims
  <2>1. CASE pc' = "idle"
    BY <1>2, <2>1, RestSafe DEF ReadClaims, history
  <2>2. CASE pc' # "idle"
    <3>1. /\ pc' = "list" /\ overtaken' = overtaken
          /\ job' = [job EXCEPT !.agents = PendingClaims,
                                !.all = InitialRefresh \/ dirty \/ due,
                                !.fresh = InitialRefresh \/ due]
      BY <1>2, <2>2 DEF ReadClaims, Done
    <3>2. UNCHANGED <<sweep, published, proven, due>>
      BY <1>2 DEF ReadClaims, history
    <3>3. SweepProven' /\ IntervalProven' /\ MatchesProven'
      BY <3>2, PublishedKept
    <3>4. ListProven'
      <4>1. job \in RefreshLocals
        BY <1>2, RefreshLocalsType DEF ReadClaims, Focusing
      <4>2. job'.all = (InitialRefresh \/ dirty \/ due)
        BY <3>1, <4>1 DEF RefreshLocals
      <4>3. due \/ Proven(cache, {})
        BY DEF Safe, IntervalProven
      <4> QED
        BY <3>2, <4>2, <4>3 DEF ListProven, Proven, published
    <3>5. PageOfSweep' /\ CommitProven' /\ FocusProven'
      BY <3>1 DEF PageOfSweep, CommitProven, FocusProven
    <3> QED
      BY <3>3, <3>4, <3>5 DEF Safe
  <2> QED
    BY <2>1, <2>2
<1>3. CASE ListWindows
  <2>0. job \in RefreshLocals /\ pc = "list"
    BY <1>3, RefreshLocalsType DEF ListWindows, Focusing
  <2> DEFINE s == CurrentSweep
  <2>1. CASE pc' = "idle"
    <3>1. UNCHANGED sweep
      BY <1>3, <2>1 DEF ListWindows
    <3> QED
      BY <1>3, <2>1, <3>1, RestSafe DEF ListWindows, history
  <2>2. CASE pc' = "commit"
    <3>1. /\ s.ids = {} /\ ~overtaken /\ sweep' = s /\ overtaken' = overtaken
          /\ job' = [job EXCEPT !.desktop = Desktop, !.fresh = FALSE,
                                !.found = Accepted(FoundSoFar(s))]
      BY <1>3, <2>2 DEF ListWindows, Done, StillCurrent
    <3>2. UNCHANGED <<published, proven, due>>
      BY <1>3 DEF ListWindows, history
    <3>3. Proven(FoundSoFar(s), {}) /\ SweepProven'
      BY <2>0, <3>1, <3>2, CurrentSweepProven DEF Proven
    <3>4. CommitProven'
      <4>1. job'.found = Accepted(FoundSoFar(s))
        BY <2>0, <3>1 DEF RefreshLocals
      <4>2. Nothing \notin open
        BY WorkerAssumption DEF TypeOK
      <4>3. Proven(Accepted(FoundSoFar(s)), {})
        BY <3>3, <4>2 DEF Proven, Accepted
      <4> QED
        BY <3>2, <4>1, <4>3 DEF CommitProven, Proven
    <3>5. IntervalProven' /\ MatchesProven'
      BY <3>2 DEF Safe, IntervalProven, MatchesProven, Proven, published
    <3>6. PageOfSweep' /\ ListProven' /\ FocusProven'
      BY <2>2 DEF PageOfSweep, ListProven, FocusProven
    <3> QED
      BY <3>3, <3>4, <3>5, <3>6 DEF Safe
  <2>3. CASE pc' = "probe"
    <3>1. /\ s = sweep \/ ~overtaken
          /\ sweep' = s /\ overtaken' = overtaken
          /\ job' = [job EXCEPT !.desktop = Desktop, !.page = Page(s), !.todo = Page(s),
                                !.fresh = job.fresh \/ Desktop # seenDesktop,
                                !.found = FoundSoFar(s)]
      BY <1>3, <2>3 DEF ListWindows, Done, StillCurrent
    <3>2. UNCHANGED <<published, proven, due>>
      BY <1>3 DEF ListWindows, history
    <3>3. /\ s.signature = Signature /\ Proven(FoundSoFar(s), s.ids \ s.done)
          /\ SweepProven'
      BY <2>0, <3>1, <3>2, CurrentSweepProven
    <3>4. PageOfSweep'
      <4>1. /\ job'.desktop = Desktop /\ job'.page = Page(s) /\ job'.todo = Page(s)
            /\ job'.found = FoundSoFar(s)
        BY <2>0, <3>1 DEF RefreshLocals
      <4>2. Page(s) \subseteq s.ids \ s.done
        BY <2>0, RefreshTypes, PageOfRest
      <4>3. s.signature # Nothing /\ s.signature[2] = Desktop
        BY <2>0, <3>3, RefreshTypes DEF Signature
      <4> QED
        BY <3>1, <3>2, <3>3, <4>1, <4>2, <4>3 DEF PageOfSweep, Proven
    <3>5. IntervalProven' /\ MatchesProven'
      BY <3>2 DEF Safe, IntervalProven, MatchesProven, Proven, published
    <3>6. CommitProven' /\ ListProven' /\ FocusProven'
      BY <2>3 DEF CommitProven, ListProven, FocusProven
    <3> QED
      BY <3>3, <3>4, <3>5, <3>6 DEF Safe
  <2> QED
    BY <1>3, <2>1, <2>2, <2>3 DEF ListWindows, Done
<1>4. CASE ListFails
  BY <1>4, RestSafe DEF ListFails, InventoryFails, Done
<1>5. ASSUME NEW a \in Agents, Probe(a) PROVE Safe'
  <2>1. /\ pc = "probe" /\ job \in RefreshLocals /\ a \in job.todo
        /\ UNCHANGED <<sweep, published, due, pc, overtaken>> /\ proven' = proven \cup {a}
    BY <1>5, RefreshLocalsType DEF Probe, Focusing, metadata
  <2>2. SweepProven' /\ IntervalProven' /\ MatchesProven'
    BY <2>1, PublishedKept
  <2>3. PageOfSweep'
    <3>1. PICK w : job' = [job EXCEPT !.todo = @ \ {a}, !.found[a] = w]
      BY <1>5 DEF Probe
    <3>2. /\ job'.todo = job.todo \ {a} /\ job'.found = [job.found EXCEPT ![a] = w]
          /\ job'.page = job.page /\ job'.desktop = job.desktop
      BY <2>1, <3>1 DEF RefreshLocals
    <3>3. \A b \in Agents : b # a => job'.found[b] = job.found[b]
      BY <2>1, <3>2 DEF RefreshLocals, Matches
    <3> QED
      BY <2>1, <3>2, <3>3 DEF Safe, PageOfSweep, Proven
  <2>4. CommitProven' /\ ListProven' /\ FocusProven'
    BY <2>1 DEF CommitProven, ListProven, FocusProven
  <2> QED
    BY <2>2, <2>3, <2>4 DEF Safe
<1>6. CASE ProbePreempted
  BY <1>6, GiveUpSafe DEF ProbePreempted
<1>7. CASE EndPage
  <2>1. /\ pc = "probe" /\ job \in RefreshLocals /\ job.todo = {} /\ ~overtaken
        /\ sweep \in Sweeps
        /\ UNCHANGED <<published, due, proven>>
        /\ sweep' = [sweep EXCEPT !.found = job.found, !.done = @ \cup job.page,
                                  !.desktops = @ \cup {job.desktop}]
    BY <1>7, RefreshLocalsType DEF EndPage, Focusing, StillCurrent, TypeOK
  <2>2. /\ sweep'.signature = sweep.signature /\ sweep'.ids = sweep.ids
        /\ sweep'.found = job.found /\ sweep'.done = sweep.done \cup job.page
        /\ sweep'.desktops = sweep.desktops \cup {job.desktop}
    BY <2>1 DEF Sweeps
  <2>3. /\ job.desktop = sweep.signature[2] /\ job.page \subseteq proven
        /\ Proven(job.found, sweep.ids \ sweep'.done)
    BY <2>1, <2>2 DEF Safe, PageOfSweep, Proven
  <2>4. SweepProven'
    BY <2>1, <2>2, <2>3 DEF Safe, SweepProven, Proven, published
  <2>5. IntervalProven' /\ MatchesProven'
    BY <2>1 DEF Safe, IntervalProven, MatchesProven, Proven, published
  <2>6. CommitProven'
    <3>1. CASE sweep'.done # sweep.ids
      BY <1>7, <3>1 DEF EndPage, Done, CommitProven
    <3>2. CASE sweep'.done = sweep.ids
      <4>1. job' = [job EXCEPT !.found = Accepted(job.found)]
        BY <1>7, <3>2 DEF EndPage
      <4>2. job'.found = Accepted(job.found)
        BY <2>1, <4>1 DEF RefreshLocals
      <4>3. Nothing \notin open
        BY WorkerAssumption DEF TypeOK
      <4>4. Proven(Accepted(job.found), {})
        BY <2>3, <3>2, <4>3 DEF Proven, Accepted
      <4> QED
        BY <2>1, <4>2, <4>4 DEF CommitProven, Proven
    <3> QED
      BY <3>1, <3>2
  <2>7. PageOfSweep' /\ ListProven' /\ FocusProven'
    <3>1. pc' \in {"idle", "commit"}
      BY <1>7 DEF EndPage, Done
    <3> QED
      BY <3>1 DEF PageOfSweep, ListProven, FocusProven
  <2> QED
    BY <2>4, <2>5, <2>6, <2>7 DEF Safe
<1>8. CASE EndPageFails
  BY <1>8, RestSafe DEF EndPageFails, InventoryFails, Done
<1>9. CASE ApplyHubMatches
  <2>1. /\ matches' = job.found /\ cache' = job.found /\ sweep' = NoSweep /\ pc' = "flag"
        /\ Proven(job.found, {}) /\ proven' = proven
    BY <1>9 DEF ApplyHubMatches, StillCurrent, Safe, CommitProven, history
  <2>2. SweepProven' /\ IntervalProven' /\ MatchesProven'
    BY <2>1 DEF SweepProven, IntervalProven, MatchesProven, Proven, NoSweep
  <2>3. PageOfSweep' /\ CommitProven' /\ ListProven' /\ FocusProven'
    BY <2>1 DEF PageOfSweep, CommitProven, ListProven, FocusProven
  <2> QED
    BY <2>2, <2>3 DEF Safe
<1>10. CASE ApplyRefused
  BY <1>10, GiveUpSafe DEF ApplyRefused
<1>11. CASE WriteFlag
  BY <1>11, RestSafe DEF WriteFlag, Done, metadata, history
<1> QED
  BY <1>1, <1>2, <1>3, <1>4, <1>5, <1>6, <1>7, <1>8, <1>9, <1>10, <1>11 DEF Refreshes

\* The steps of a revalidation.
LEMMA RevalidationSafe ==
    ASSUME TypeOK, Safe, Revalidates
    PROVE  Safe'
<1>0. Focusing => job \in FocusLocals
  BY DEF TypeOK, Focusing
<1>1. CASE TakeFocus
  BY <1>1, RestSafe DEF TakeFocus, metadata, history
<1>2. CASE FocusProbe
  <2>1. CASE GiveUp
    BY <2>1, GiveUpSafe
  <2>2. CASE ~GiveUp
    <3>1. /\ job \in FocusLocals /\ matches[job.agent] # Nothing /\ pc' = "look"
          /\ job' = [job EXCEPT !.seen = (where[job.agent] = job.window),
                                !.found = Revalidated(job.agent)]
          /\ UNCHANGED <<sweep, published, proven, due>>
      BY <1>0, <1>2, <2>2 DEF FocusProbe, Focusing, metadata
    <3>2. SweepProven' /\ IntervalProven' /\ MatchesProven'
      BY <3>1, PublishedKept
    <3>3. FocusProven'
      <4>1. /\ job'.seen = (where[job.agent] = job.window)
            /\ job'.found = Revalidated(job.agent)
            /\ job'.agent = job.agent /\ job'.window = job.window
        BY <3>1 DEF FocusLocals
      <4>2. job.agent \in proven /\ job.window # Nothing
        BY <3>1, WorkerAssumption DEF FocusLocals, Safe, MatchesProven, Proven
      <4>3. Revalidated(job.agent) = job.window => where[job.agent] = job.window
        BY <4>2 DEF Revalidated
      <4>4. where[job.agent] = job.window => job'.seen
        BY <4>1
      <4>5. job'.found = job'.window => job'.seen
        BY <4>1, <4>3, <4>4
      <4>6. job'.agent \in proven'
        BY <3>1, <4>1, <4>2
      <4> QED
        BY <3>1, <4>5, <4>6 DEF FocusProven
    <3>4. PageOfSweep' /\ CommitProven' /\ ListProven'
      BY <3>1 DEF PageOfSweep, CommitProven, ListProven
    <3> QED
      BY <3>2, <3>3, <3>4 DEF Safe
  <2> QED
    BY <2>1, <2>2
<1>3. CASE FocusLook
  <2>1. CASE GiveUp
    BY <2>1, GiveUpSafe
  <2>2. CASE ~GiveUp
    <3>1. /\ pc = "look" /\ pc' = "acknowledge" /\ job' = job /\ job.found = job.window
          /\ UNCHANGED <<sweep, published, proven, due, overtaken>>
      BY <1>3, <2>2 DEF FocusLook, WindowFits, metadata
    <3>2. SweepProven' /\ IntervalProven' /\ MatchesProven'
      BY <3>1, PublishedKept
    <3>3. FocusProven'
      BY <3>1 DEF Safe, FocusProven
    <3>4. PageOfSweep' /\ CommitProven' /\ ListProven'
      BY <3>1 DEF PageOfSweep, CommitProven, ListProven
    <3> QED
      BY <3>2, <3>3, <3>4 DEF Safe
  <2> QED
    BY <2>1, <2>2
<1>4. CASE FocusFails
  BY <1>4, GiveUpSafe DEF FocusFails
<1>5. CASE FocusAcknowledges
  <2>1. CASE GiveUp
    BY <2>1, GiveUpSafe
  <2>2. CASE ~GiveUp
    <3>1. /\ matches' = [matches EXCEPT ![job.agent] = Nothing] /\ pc' = "idle"
          /\ UNCHANGED <<sweep, cache, proven, due>>
      BY <1>5, <2>2 DEF FocusAcknowledges, Done, metadata
    <3>2. SweepProven' /\ IntervalProven'
      BY <3>1 DEF Safe, SweepProven, IntervalProven, Proven
    <3>3. MatchesProven'
      <4>1. \A a \in Agents : matches'[a] # Nothing => matches'[a] = matches[a]
        BY <3>1 DEF TypeOK, Matches
      <4> QED
        BY <3>1, <4>1 DEF Safe, MatchesProven, Proven
    <3>4. PageOfSweep' /\ CommitProven' /\ ListProven' /\ FocusProven'
      BY <3>1 DEF PageOfSweep, CommitProven, ListProven, FocusProven
    <3> QED
      BY <3>2, <3>3, <3>4 DEF Safe
  <2> QED
    BY <2>1, <2>2
<1> QED
  BY <1>1, <1>2, <1>3, <1>4, <1>5 DEF Revalidates
-----------------------------------------------------------------------------
(* The theorems.                                                            *)

\* The inductive invariant: each step of an actor keeps the types, and what is
\* proven.
THEOREM Inductive == Spec => []IInv
<1>1. Init => IInv
  BY InitTypes, InitSafe DEF IInv
<1>2. IInv /\ [Next]_vars => IInv'
  <2> SUFFICES ASSUME TypeOK, Safe, [Next]_vars PROVE TypeOK' /\ Safe'
    BY DEF IInv
  <2>1. CASE Refreshes
    BY <2>1, RefreshTypesKept, RefreshSafe DEF Safe
  <2>2. CASE Revalidates
    BY <2>2, RevalidationTypes, RevalidationSafe
  <2>3. CASE User \/ IntervalEnds \/ BackoffEnds
    BY <2>3, AroundTypes, OthersSafe
  <2>4. CASE MainThread \/ Lose \/ ClearHubMatches \/ \E claims \in Claims : Snapshot(claims)
    BY <2>4, QueueTypes, OthersSafe
  <2>5. CASE UNCHANGED vars
    <3>1. TypeOK'
      BY <2>5 DEF vars, hub, desktop, queue, metadata, published, worker, locals, history, TypeOK
    <3>2. Safe'
      BY <2>5, BesideSafe DEF vars, metadata, published, worker, history
    <3> QED
      BY <3>1, <3>2
  <2> QED
    BY <2>1, <2>2, <2>3, <2>4, <2>5 DEF Next
<1> QED
  BY <1>1, <1>2, PTL DEF Spec

\* The variables have their types, and a sweep has done a part of what it asks for.
THEOREM TypeCorrect == Spec => []TypeOK
<1>1. IInv => TypeOK
  BY DEF IInv
<1> QED
  BY <1>1, Inductive, PTL

\* The pages of a sweep (_resolver_sweep_signature) are of one desktop.
THEOREM OneDesktop == Spec => []OneDesktopPerSweep
<1>1. IInv => OneDesktopPerSweep
  <2> SUFFICES ASSUME IInv PROVE OneDesktopPerSweep
    OBVIOUS
  <2>1. sweep.desktops \subseteq {sweep.signature[2]}
    BY DEF IInv, Safe, SweepProven
  <2>2. IsFiniteSet({sweep.signature[2]}) /\ Cardinality({sweep.signature[2]}) = 1
    BY FS_Singleton
  <2>3. Cardinality(sweep.desktops) <= 1
    BY <2>1, <2>2, FS_Subset
  <2> QED
    BY <2>3 DEF OneDesktopPerSweep
<1> QED
  BY <1>1, Inductive, PTL

\* No result of before a loss (clear_hub_matches) is published after it.
THEOREM Reproven == Spec => ReprovenAfterLoss
<1>1. IInv /\ [Next]_vars =>
        [\A a \in Agents : matches'[a] \notin {Nothing, matches[a]} => a \in proven]_vars
  <2> SUFFICES ASSUME IInv, Next, NEW a \in Agents, matches'[a] \notin {Nothing, matches[a]}
               PROVE  a \in proven
    OBVIOUS
  <2>1. ~Revalidates
    <3>1. \A b \in Agents : [matches EXCEPT ![b] = Nothing][a] \in {Nothing, matches[a]}
      BY DEF IInv, TypeOK, Matches
    <3>2. pc = "acknowledge" => job.agent \in Agents
      BY DEF IInv, TypeOK, FocusLocals
    <3> QED
      BY <3>1, <3>2 DEF Revalidates, TakeFocus, FocusProbe, FocusLook, FocusFails,
         FocusAcknowledges, GiveUp, published
  <2>2. ~MainThread /\ ~User /\ ~IntervalEnds /\ ~BackoffEnds
    BY DEF MainThread, HandleDesktop, HandleFocus, HandleClose, User, Open, Close, Focus, Leave,
       CommandAcknowledges, DesktopOnly, IntervalEnds, BackoffEnds, published
  <2>3. /\ ~Lose /\ ~ClearHubMatches
        /\ ~\E claims \in Claims : Snapshot(claims)
    BY DEF Lose, ClearHubMatches, NoMatch, Snapshot, published
  <2>4. Refreshes
    BY <2>1, <2>2, <2>3 DEF Next
  <2>5. ApplyHubMatches
    BY <2>4 DEF Refreshes, TakeRefresh, ReadClaims, ListWindows, ListFails, Probe,
       ProbePreempted, EndPage, EndPageFails, InventoryFails, ApplyRefused, WriteFlag, GiveUp,
       published
  <2> QED
    BY <2>5 DEF ApplyHubMatches, StillCurrent, IInv, Safe, CommitProven, Proven
<1> QED
  BY <1>1, Inductive, PTL DEF Spec, ReprovenAfterLoss

\* What _run_focus_revalidation acknowledges was seen in the focused window, by a
\* probe after the last loss, and is the claim that is reported.
THEOREM FocusAcknowledgement == Spec => FocusAcknowledgesWhatWasSeen
<1>1. IInv /\ [Next]_vars =>
        [Acknowledges => /\ job.seen /\ job.agent \in proven
                         /\ acks'[job.agent] = roster[job.agent]]_vars
  <2> SUFFICES ASSUME IInv, Next, Acknowledges
               PROVE  /\ job.seen /\ job.agent \in proven
                      /\ acks'[job.agent] = roster[job.agent]
    OBVIOUS
  <2>0. pc = "acknowledge" /\ pc' = "idle" /\ acks' # acks
    BY DEF Acknowledges
  <2>1. ~MainThread /\ ~User
    BY <2>0 DEF MainThread, HandleDesktop, HandleFocus, HandleClose, User, Open, Close, Focus,
       Leave, CommandAcknowledges, DesktopOnly, worker, locals
  <2>2. /\ ~IntervalEnds /\ ~BackoffEnds /\ ~Lose /\ ~ClearHubMatches
        /\ ~\E claims \in Claims : Snapshot(claims)
    BY <2>0 DEF IntervalEnds, BackoffEnds, Lose, ClearHubMatches, Snapshot, worker, locals
  <2>3. ~Refreshes
    BY <2>0 DEF Refreshes, TakeRefresh, ReadClaims, ListWindows, ListFails, Probe,
       ProbePreempted, EndPage, EndPageFails, ApplyHubMatches, ApplyRefused, WriteFlag
  <2>4. FocusAcknowledges /\ ~GiveUp
    BY <2>0, <2>1, <2>2, <2>3 DEF Next, Revalidates, TakeFocus, FocusProbe, FocusLook, FocusFails,
       GiveUp, hub
  <2>5. job \in FocusLocals /\ acks \in Claims
    BY <2>0 DEF IInv, TypeOK
  <2> QED
    BY <2>0, <2>4, <2>5 DEF FocusAcknowledges, StillCurrent, SameClaim, IInv, Safe, FocusProven,
       FocusLocals, Claims
<1> QED
  BY <1>1, Inductive, PTL DEF Spec, FocusAcknowledgesWhatWasSeen
=============================================================================
