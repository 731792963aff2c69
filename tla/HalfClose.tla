------------------------------ MODULE HalfClose ------------------------------
(***************************************************************************)
(* What a tailcat TCP stream promises its two users: each direction hands  *)
(* over the bytes written, in order and once, and its end of file comes    *)
(* after the last of them and only when the writer has finished.  The      *)
(* directions end independently.  Once the connection is broken, a         *)
(* direction may end early.                                                *)
(***************************************************************************)
EXTENDS Naturals, Sequences

VARIABLES
    sent,    \* sent[e]: the bytes end e has written
    shut,    \* shut[e]: e writes no more
    got,     \* got[e]: the bytes end e has read
    seen,    \* seen[e]: e has read the end of file
    broken   \* the connection was cut

vars == <<sent, shut, got, seen, broken>>

End == {"client", "server"}
Other(e) == IF e = "client" THEN "server" ELSE "client"

Init ==
    /\ sent = [e \in End |-> <<>>]
    /\ shut = [e \in End |-> FALSE]
    /\ got = [e \in End |-> <<>>]
    /\ seen = [e \in End |-> FALSE]
    /\ broken = FALSE

Write(e) ==
    /\ ~ shut[e]
    /\ sent' = [sent EXCEPT ![e] = Append(@, Len(@) + 1)]
    /\ UNCHANGED <<shut, got, seen, broken>>

Shutdown(e) ==
    /\ ~ shut[e]
    /\ shut' = [shut EXCEPT ![e] = TRUE]
    /\ UNCHANGED <<sent, got, seen, broken>>

Read(e) ==
    /\ ~ seen[e]
    /\ Len(got[e]) < Len(sent[Other(e)])
    /\ got' = [got EXCEPT ![e] = Append(@, sent[Other(e)][Len(@) + 1])]
    /\ UNCHANGED <<sent, shut, seen, broken>>

ReadEof(e) ==
    /\ ~ seen[e]
    /\ broken \/ (shut[Other(e)] /\ got[e] = sent[Other(e)])
    /\ seen' = [seen EXCEPT ![e] = TRUE]
    /\ UNCHANGED <<sent, shut, got, broken>>

Break ==
    /\ broken' = TRUE
    /\ UNCHANGED <<sent, shut, got, seen>>

Next ==
    \/ Break
    \/ \E e \in End : Write(e) \/ Shutdown(e) \/ Read(e) \/ ReadEof(e)

Spec == Init /\ [][Next]_vars
=============================================================================
