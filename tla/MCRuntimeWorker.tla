-------------------------- MODULE MCRuntimeWorker --------------------------
(* Instances of RuntimeWorker for TLC: which kinds of requests are sent.   *)
EXTENDS RuntimeWorker

Everything == Kind \ {"shutdown"}
Conversation == {"message", "abort"}
=============================================================================
