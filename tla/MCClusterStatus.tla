--------------------------- MODULE MCClusterStatus ---------------------------
(* ClusterStatus with the settings and the address lists it can be given.    *)
EXTENDS ClusterStatus

RayTested == {<<"ray", TRUE>>}
Golden    == {<<"mp", FALSE>>}   \* the configuration that ships
Both      == RayTested \cup Golden

OnePeer   == <<"b">>        \* a page that is not among its own peers
TwoPeers  == <<"a", "b">>
Resolved  == [a |-> "head", b |-> "worker"]
=============================================================================
