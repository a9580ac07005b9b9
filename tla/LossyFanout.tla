---------------------------- MODULE LossyFanout -----------------------------
(***************************************************************************)
(* What the clients of a broadcast may rely on when it drops messages for  *)
(* those who are slow: nothing arrives twice, nothing out of order, and    *)
(* nothing from before the client joined.                                  *)
(***************************************************************************)
EXTENDS Naturals, Sequences

CONSTANTS Clients, Messages

VARIABLES
    log,    \* every message broadcast, in order
    since,  \* the length of the log when each client joined
    got     \* the positions in the log of what each client received since then

vars == <<log, since, got>>

Init ==
    /\ log = <<>>
    /\ since = [c \in Clients |-> 0]
    /\ got = [c \in Clients |-> <<>>]

Publish ==
    /\ \E m \in Messages : log' = Append(log, m)
    /\ UNCHANGED <<since, got>>

Join(c) ==
    /\ since' = [since EXCEPT ![c] = Len(log)]
    /\ got' = [got EXCEPT ![c] = <<>>]
    /\ UNCHANGED log

Last(c) == IF got[c] = <<>> THEN since[c] ELSE got[c][Len(got[c])]

Receive(c) ==
    /\ \E i \in (Last(c) + 1)..Len(log) : got' = [got EXCEPT ![c] = Append(@, i)]
    /\ UNCHANGED <<log, since>>

Next == Publish \/ \E c \in Clients : Join(c) \/ Receive(c)

Spec == Init /\ [][Next]_vars
=============================================================================
