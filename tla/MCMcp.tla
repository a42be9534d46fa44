--------------------------------- MODULE MCMcp ---------------------------------
(***************************************************************************)
(* Instances of McpServer: one client loads, unloads and lists tools, the  *)
(* next runs commands side by side, the last mixes a command with the      *)
(* rest.                                                                   *)
(***************************************************************************)
EXTENDS McpServer

MCGroupOf == [t \in Tools |-> "g1"]

Asking(counts) == [op \in Ops |-> IF op \in DOMAIN counts THEN counts[op] ELSE 0]

MCQuotas ==
  {Asking([list |-> 2, focus |-> 1, usage |-> 1, unfocus |-> 1, unfocusAll |-> 1]),
   Asking([exec |-> 2]),
   Asking([exec |-> 1, note |-> 1, bad |-> 1])}
=============================================================================
