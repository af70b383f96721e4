------------------------------ MODULE MCTracing ------------------------------
(***************************************************************************)
(* Small instances of Tracing: threads that call one decorated operation   *)
(* or two, and so share its lock or the SDK's lock only.                   *)
(***************************************************************************)
EXTENDS Tracing
=============================================================================
