------------------------------- MODULE MCTrial -------------------------------
(***************************************************************************)
(* Small instances of Trial: four pins over two dep paths.  The first pin  *)
(* has both deps, the second drops one, the third adds it back, and the    *)
(* fourth has none.  Every kind of call the audits tell apart is there.    *)
(***************************************************************************)
EXTENDS Trial

MCDepsOf == <<{"node_modules", ".venv"}, {"node_modules"},
              {"node_modules", ".venv"}, {}>>

Structured(tools, paths) == [tool : tools, cmd : {"none"}, path : paths]
Bash(cmds, paths)        == [tool : {"Bash"}, cmd : cmds, path : paths]

MCAgentCalls ==
    Structured({"Read", "Edit", "find_symbol"}, {"inside", "outside"})
        \cup Structured({"Task"}, {"none"})
        \cup Bash({"gate", "chained"}, {"inside", "outside", "hidden"})
        \cup Bash({"other"}, {"outside"})
        \cup Bash({"unreadable"}, {"none"})
==============================================================================
