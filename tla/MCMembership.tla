---------------------------- MODULE MCMembership ----------------------------
(* TLC instance of Membership: two clients, of which one also waits for pongs. *)
EXTENDS Membership

CONSTANTS a, b

Meow(c) == [by |-> c, disco |-> FALSE, n |-> 1]
Disco(c) == [by |-> c, disco |-> TRUE, n |-> 1]

Calls == {Meow(a), Disco(a), Meow(b)}
=============================================================================
