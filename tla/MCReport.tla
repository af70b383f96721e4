------------------------------- MODULE MCReport -------------------------------
(***************************************************************************)
(* Small instances of Report: four sessions of three agents, two of them   *)
(* children (one agent has nothing but a child, so the parent probe cannot *)
(* see it), and the command lines whose handling differs.  With so few     *)
(* sessions a spread of two is what a spread of four is to an archive.     *)
(***************************************************************************)
EXTENDS Report

MCSessions == 1..4
MCAgentOf  == <<"claude-code", "cowork", "claude-code", "codex">>
MCChildren == {2, 3}

CommandLine(sources, agents, limits, since) ==
    [source : sources, agent : agents, limit : limits, exclude : BOOLEAN,
     since : since]

AllSources == {"raw", "agentsview", "auto"}

\* Unlimited and limited runs, scoped and unscoped, over every source.
MCCommandLines ==
    CommandLine(AllSources, {"all", "claude-code"}, {NoLimit, 1, 2}, {FALSE})
        \cup CommandLine({"raw", "auto"}, {"all"}, {NoLimit, 2}, {TRUE})
        \cup CommandLine({"agentsview"}, {"all"}, {3}, {FALSE})
        \cup CommandLine({"auto"}, {"cowork", "codex"}, {NoLimit}, {FALSE})

MCArchives == SUBSET MCSessions
MCRoots    == {{}, {4}, {1, 3}}

MCOutcomes == [agentsview |-> {"parsed", "callless", "export_timeout"},
               raw |-> {"parsed", "unknown_schema"}]
===============================================================================
