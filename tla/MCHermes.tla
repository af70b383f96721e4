------------------------------ MODULE MCHermes ------------------------------
(***************************************************************************)
(* Small instances of Hermes: the default database and one profile, with   *)
(* the session in either of them or in neither.                            *)
(***************************************************************************)
EXTENDS Hermes

MCProfiles == <<"default", "profile">>
MCKind == [c \in Calls |-> IF c = "c1" THEN "call"
                           ELSE IF c = "c2" THEN "malformed" ELSE "other"]
MCOneCall == [c \in Calls |-> "call"]
=============================================================================
