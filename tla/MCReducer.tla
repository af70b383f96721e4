------------------------------ MODULE MCReducer ------------------------------
(***************************************************************************)
(* Small instances of Reducer: a run with the branch tb-1 and a worktree   *)
(* /wt/tb-1 that has another one inside, a directory /wt/tb-12 that only a *)
(* string prefix would claim, and sessions that straddle branches.         *)
(***************************************************************************)
EXTENDS Reducer

Entry(uses, results, assistant, request, usage, branch, cwd) ==
    [uses |-> uses, results |-> results, assistant |-> assistant,
     spoken |-> FALSE, request |-> request, message |-> None,
     usage |-> usage, branch |-> branch, cwd |-> cwd]

Use(id) == [id |-> id, name |-> IF id = "c" THEN "Read" ELSE "Bash",
            says |-> {}, valid |-> TRUE]
Usage(c, i) == [cache |-> c, io |-> i]

MCEntries ==
    {Entry(<<Use("a")>>, <<>>, TRUE, "r1", Usage(5, 1), "tb-1", "/wt/tb-1"),
     Entry(<<Use("b")>>, <<>>, TRUE, "r1", Usage(5, 1), "HEAD", "/wt/tb-1/x"),
     Entry(<<>>, <<>>, TRUE, "r2", Usage(0, 3), "HEAD", "/wt/tb-12"),
     Entry(<<Use("c")>>, <<>>, TRUE, "r3", Usage(2, 2), "HEAD", "/wt/tb-1/x"),
     Entry(<<>>, <<>>, TRUE, "r4", Usage(7, 0), "main", "/repo"),
     Entry(<<>>, <<[id |-> "a", bad |-> TRUE], [id |-> "b", bad |-> FALSE]>>,
           FALSE, None, NoUsage, "tb-1", "")}

\* Agents are interchangeable.
MCSymmetry == Permutations(Agents)

MCTrees == {<<"/", "wt", "tb-1">>, <<"/", "wt", "tb-1", "x">>}
MCPathOf == [c \in {"", "/wt/tb-1", "/wt/tb-1/x", "/wt/tb-12", "/repo"} |->
    CASE c = "" -> <<>>
      [] c = "/wt/tb-1" -> <<"/", "wt", "tb-1">>
      [] c = "/wt/tb-1/x" -> <<"/", "wt", "tb-1", "x">>
      [] c = "/wt/tb-12" -> <<"/", "wt", "tb-12">>
      [] c = "/repo" -> <<"/", "repo">>]
=============================================================================
