---------------------------- MODULE MCFreezeReplay ----------------------------
(***************************************************************************)
(* Small instances of FreezeReplay: three sessions, the second one a       *)
(* child, and the manifests an operator may already have: none, an empty   *)
(* pin, a pin of a child alone, and pins with flags from before children   *)
(* were recognised, or of a parent that arrived during its discovery.      *)
(***************************************************************************)
EXTENDS FreezeReplay, TLC

MCLive == {{1, 2}}

\* An unfiltered run, and one that no longer admits the oldest session.
MCScopes == {{1, 2, 3}, {2, 3}}

MCManifests ==
    {Unwritten("absent"), Manifest({}, {}, "agentsview", "unrecorded", {}),
     Manifest({2}, {2}, "raw", "unrecorded", {}),
     Manifest({1, 2}, {1, 2}, "agentsview", "unrecorded", {}),
     Manifest({1, 3}, {}, "agentsview", "unrecorded", {})}
        \cup {Manifest({1, 2}, {}, src, "unrecorded", {}) : src \in Sources}

Symmetry == Permutations(Runs)
=============================================================================
