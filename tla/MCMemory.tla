------------------------------ MODULE MCMemory ------------------------------
(* The provider's threads around the gateway.                              *)
EXTENDS MemoryProvider

Threads == {Agent, Starter, Watchdog} \cup Syncs
=============================================================================
