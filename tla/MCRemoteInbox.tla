--------------------------- MODULE MCRemoteInbox ---------------------------
(* Instances of RemoteInbox for TLC.                                       *)
EXTENDS RemoteInbox
=============================================================================
