----------------------------- MODULE MCPollRead -----------------------------
(* Both backends; NetBSD devices with one, two and three report IDs. *)
EXTENDS PollRead

BothBackends == {"linux", "netbsd"}
=============================================================================
