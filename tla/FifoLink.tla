------------------------------ MODULE FifoLink ------------------------------
(***************************************************************************)
(* What a connection promises the two programs at its ends: each receives  *)
(* what the other sent, in order, nothing twice and nothing skipped, until *)
(* the link ends at its side.  The first thing that means nothing is       *)
(* reported once, as a violation, and nothing after it is received.        *)
(***************************************************************************)
EXTENDS Naturals, Sequences

CONSTANTS End, Other(_), Meaning(_), Nothing, Violation

VARIABLES sent, got, refused, up

NextThing(e) == sent[Other(e)][Len(got[e]) + 1]
Pending(e) == up[e] /\ ~refused[e] /\ Len(got[e]) < Len(sent[Other(e)])

LinkInit ==
    /\ sent = [e \in End |-> <<>>]
    /\ got = [e \in End |-> <<>>]
    /\ refused = [e \in End |-> FALSE]
    /\ up = [e \in End |-> TRUE]

Send(e) ==
    /\ up[e]
    /\ Len(sent'[e]) = Len(sent[e]) + 1
    /\ sent' = [sent EXCEPT ![e] = Append(@, sent'[e][Len(sent[e]) + 1])]
    /\ UNCHANGED <<got, refused, up>>

Receive(e) ==
    /\ Pending(e)
    /\ Meaning(NextThing(e)) # Nothing
    /\ got' = [got EXCEPT ![e] = Append(@, Meaning(NextThing(e)))]
    /\ UNCHANGED <<sent, refused, up>>

\* The refusing end answers with the violation it reports.
Refuse(e) ==
    /\ Pending(e)
    /\ Meaning(NextThing(e)) = Nothing
    /\ got' = [got EXCEPT ![e] = Append(@, Violation)]
    /\ refused' = [refused EXCEPT ![e] = TRUE]
    /\ Len(sent'[e]) = Len(sent[e]) + 1
    /\ sent' = [sent EXCEPT ![e] = Append(@, sent'[e][Len(sent[e]) + 1])]
    /\ Meaning(sent'[e][Len(sent'[e])]) = Violation
    /\ UNCHANGED up

Sever(e) ==
    /\ up[e]
    /\ up' = [up EXCEPT ![e] = FALSE]
    /\ UNCHANGED <<sent, got, refused>>

LinkNext == \E e \in End : Send(e) \/ Receive(e) \/ Refuse(e) \/ Sever(e)
LinkSpec == LinkInit /\ [][LinkNext]_<<sent, got, refused, up>>
=============================================================================
