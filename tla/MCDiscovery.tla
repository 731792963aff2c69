---------------------------- MODULE MCDiscovery ----------------------------
(***************************************************************************)
(* TLC instance of Discovery, two cases in one run: one client and the     *)
(* server while time passes and one of them changes its address, the other *)
(* client resting; and both clients, with addresses that pass from one     *)
(* node to another before any path or probe is old.                        *)
(* Transaction ids are interchangeable, and so are endpoints and clients.  *)
(***************************************************************************)
EXTENDS Discovery, TLC

VARIABLE resting    \* the clients that take no part

Symmetry == Permutations(Txid) \cup Permutations(Endpoint) \cup Permutations(Clients)

Rests(c) ==
    /\ addr'[c] = addr[c] /\ endpoints'[c] = endpoints[c]
    /\ c \notin peers'[Server]
    /\ \A m \in calls' : m.from # c

MCInit == Init /\ resting \in {{}} \cup {{c} : c \in Clients}

MCNext ==
    /\ Next
    /\ \A c \in resting : Rests(c)
    /\ IF resting = {} THEN now' = 0 /\ addr'[Server] = addr[Server] ELSE moves' <= 1
    /\ UNCHANGED resting

MCSpec == MCInit /\ [][MCNext]_<<vars, resting>>
=============================================================================
