--------------------------- MODULE MCProcessScan ---------------------------
(* Small instances of ProcessScan: two windows, four processes.            *)
EXTENDS ProcessScan

MCPids == {2, 3, 4, 5}
MCLinksOf(g) == IF g = "tmux" THEN {"pane", "elsewhere"} ELSE {"none"}
MCHints(g) ==
  IF g = "tmux"
  THEN {[kind |-> "tmux", host |-> "none", session |-> "same", window |-> "unseen",
         pane |-> "unseen", socket |-> "unseen"]}
  ELSE {}
MCNamesAgent(g) == g = "agent"

Process(n, parent, g, l) ==
  [ticks |-> n, parent |-> parent, zombie |-> FALSE, prog |-> g, link |-> l]
Id(table, p) == [pid |-> p, ticks |-> table[p].ticks]
Win(n, table, p, title) == [stable |-> n, root |-> Id(table, p), title |-> title]
Asks(op, t, tmux, w) ==
  [op |-> op, target |-> t, tmux |-> tmux, local |-> TRUE,
   relation |-> "visible_exact", prior |-> w]

\* An agent without tmux under a shell of one window; another terminal.
Direct == [p \in MCPids |->
  CASE p = 2 -> Process(1, Init0, "shell", "none")
    [] p = 3 -> Process(2, 2, "shell", "none")
    [] p = 4 -> Process(3, 3, "agent", "none")
    [] p = 5 -> Process(4, Init0, "shell", "none")]
\* A tmux client in one window, a second client at another pane.
Tmux == [p \in MCPids |->
  CASE p = 2 -> Process(1, Init0, "shell", "none")
    [] p = 3 -> Process(2, 2, "tmux", "pane")
    [] p = 4 -> Process(3, Init0, "tmux", "elsewhere")
    [] p = 5 -> FreeEntry]
\* A terminal that runs the agent itself, beside another one.
Own == [p \in MCPids |->
  CASE p = 2 -> Process(1, Init0, "shell", "none")
    [] p = 3 -> Process(2, Init0, "agent", "none")
    [] OTHER -> FreeEntry]
TmuxTarget == [pid |-> 9, ticks |-> 9]

\* The second window's title names the agent, unless one process has both.
Two(table, p, q) ==
  <<Win(1, table, p, "other"), Win(2, table, q, IF p = q THEN "other" ELSE "agent")>>
Case(table, op, t, tmux, ws) ==
  [table |-> table, windows |-> ws, req |-> Asks(op, t, tmux, ws[1])]
MCRequests ==
  {Case(Direct, op, Id(Direct, 4), FALSE, ws) :
     op \in {"match", "resolve"}, ws \in {Two(Direct, 2, 5), Two(Direct, 2, 2)}}
  \cup {Case(Own, "match", Id(Own, 3), FALSE, Two(Own, 3, 2)),
        Case(Direct, "revalidate", Id(Direct, 4), FALSE, Two(Direct, 2, 5)),
        Case(Tmux, "match", TmuxTarget, TRUE, Two(Tmux, 2, 4))}
=============================================================================
