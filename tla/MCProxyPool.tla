----------------------------- MODULE MCProxyPool -----------------------------
(* Instances of ProxyPool for TLC.  Probe tasks and requests are             *)
(* interchangeable: nothing orders or names them.                            *)
EXTENDS ProxyPool, TLC

Symmetry == Permutations(Requests) \cup Permutations(Probes)
=============================================================================
