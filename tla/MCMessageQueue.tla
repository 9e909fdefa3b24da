--------------------------- MODULE MCMessageQueue ---------------------------
(* Small instances of MessageQueue: reader 1 is local, reader 2 is remote;   *)
(* the names are of the readers that may time out or be shut down.           *)
EXTENDS MessageQueue

None   == {}
First  == {1}
Second == {2}
=============================================================================
