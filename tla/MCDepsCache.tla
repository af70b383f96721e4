----------------------------- MODULE MCDepsCache -----------------------------
(***************************************************************************)
(* Small instances of DepsCache: four pins over two dep paths.  The first  *)
(* pin has both deps, the second drops one, the third adds it back, and    *)
(* the fourth has none.                                                    *)
(***************************************************************************)
EXTENDS DepsCache

MCDepsOf == <<{"node_modules", ".venv"}, {"node_modules"},
              {"node_modules", ".venv"}, {}>>
=============================================================================
