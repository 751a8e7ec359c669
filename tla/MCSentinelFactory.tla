-------------------------- MODULE MCSentinelFactory --------------------------
(* Instances of SentinelFactory for TLC. *)
EXTENDS SentinelFactory, TLC

(* Nodes and commands are interchangeable in the safety properties; threads  *)
(* are not: async_command and the event thread visit them in order.          *)
Symmetry == Permutations(Nodes) \cup Permutations(Cmds)

=============================================================================
