------------------------------ MODULE MCMonitor ------------------------------
(***************************************************************************)
(* A small instance of Monitor: a destructive tool with its confirmation   *)
(* and its cancellation, a financial one that also sends messages, and a   *)
(* lookup whose output holds personal data; by hand, one contract with an  *)
(* assumption that may fail and one that redirects.                        *)
(***************************************************************************)
EXTENDS Monitor, TLC

Tool(name, effects, prefix, base, pii) ==
    [name |-> name, effects |-> effects, prefix |-> prefix, base |-> base, pii |-> pii]

MCTools ==
    {Tool("delete_order", {"destructive"}, "", "", FALSE),
     Tool("confirm_delete_order", {"destructive"}, "confirm", "delete_order", FALSE),
     Tool("cancel_delete_order", {"destructive"}, "cancel", "delete_order", FALSE),
     Tool("refund", {"financial", "external"}, "", "", FALSE),
     Tool("lookup", {}, "", "", TRUE)}

MCAuthored ==
    <<[assumes |-> <<MustPrecede("lookup", "refund")>>,
       guarantees |-> <<RateLimit("lookup", 1)>>, strategy |-> "blocked"],
      [assumes |-> <<>>,
       guarantees |-> <<NoReversal("lookup", "delete_order"), RateLimit("lookup", 2)>>,
       strategy |-> "redirected"]>>

MCImports ==
    {<<[kind |-> "tool_call", tool |-> "confirm_delete_order", contains |-> {},
        content |-> <<>>, call |-> 0]>>}

Symmetry == Permutations(Clients)
=============================================================================
