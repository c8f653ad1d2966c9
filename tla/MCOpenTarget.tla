---------------------------- MODULE MCOpenTarget ----------------------------
(* Small instances of OpenTarget.                                           *)
EXTENDS OpenTarget

CONSTANTS a1, w1, p1, p2

Old(et, mosh) == [et |-> et, mosh |-> mosh, ssh |-> "available", by |-> "before"]
Case(clicks, remote, kept, works0, shown, known) ==
  [clicks |-> clicks, remote |-> remote, record |-> kept, works |-> works0,
   shows |-> [w \in {w1} |-> shown],
   recognized |-> [w \in {w1, p1, p2} |-> w # w1 \/ known],
   preference |-> "auto", clients |-> Transports]

\* Two clicks on this machine with a window that shows the agent, shows
\* nothing, or is not there; one or two on another machine.
MCCases ==
  {Case({p1, p2}, FALSE, NoRecord, {}, shown, TRUE) : shown \in {a1, Nobody, Absent}}
  \cup {Case({p1}, TRUE, kept, works0, shown, FALSE) :
          kept \in {NoRecord, Old("available", "available")},
          works0 \in {Transports, {"ssh"}}, shown \in {a1, Absent}}
  \cup {[Case({p1}, TRUE, NoRecord, {"ssh"}, Absent, FALSE) EXCEPT
           !.preference = preference, !.clients = clients] :
          preference \in {"auto", "local", "et"}, clients \in {{"ssh"}, {"et"}}}
MCRace == {Case({p1, p2}, FALSE, NoRecord, {}, Absent, TRUE)}
=============================================================================
