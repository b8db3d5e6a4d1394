------------------------------ MODULE MCProxy ------------------------------
(***************************************************************************)
(* An instance of Proxy: four runs of proxy_create, two of them for the    *)
(* same port, one for its own and one with arguments that cannot be read.  *)
(***************************************************************************)
EXTENDS Proxy

CONSTANTS c1, c2, c3, c4, p1, p2, p3, r1, r2, r3

MCClients == {c1, c2, c3, c4}

MCWanted ==
    [c \in MCClients |->
        CASE c = c1 -> [port |-> p1, remote |-> r1]
          [] c = c2 -> [port |-> p1, remote |-> r2]
          [] c = c3 -> [port |-> p2, remote |-> r3]
          [] c = c4 -> [port |-> p3, remote |-> r3]]

MCMalformed == {c4}
=============================================================================
