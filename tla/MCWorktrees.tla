----------------------------- MODULE MCWorktrees -----------------------------
(***************************************************************************)
(* Small instances of Worktrees: one linked tree in any state, and beside  *)
(* it one that a call or a change turns into another verdict.              *)
(***************************************************************************)
EXTENDS Worktrees

MCEveryState ==
    {s \in [locked : BOOLEAN, gone : BOOLEAN, dirty : BOOLEAN, kept : BOOLEAN,
            pushed : BOOLEAN, other : BOOLEAN, moved : {FALSE},
            upstream : {"none", "local", "remote"}, live : BOOLEAN, created : {0, 7}] :
        /\ s.pushed => s.live
        /\ s.gone => ~s.dirty
        /\ s.created = 0 => ~s.locked /\ ~s.gone}

\* Trees a week old: clean and on main, or dirty and pushed only.
MCAgedStates ==
    {[locked |-> FALSE, gone |-> FALSE, dirty |-> d, kept |-> ~d, pushed |-> d,
      other |-> FALSE, moved |-> FALSE, upstream |-> IF d THEN "remote" ELSE "none",
      live |-> d, created |-> 7] : d \in BOOLEAN}

MCClones == {f \in [Trees -> MCEveryState] : f["wt2"] \in MCAgedStates}
=============================================================================
