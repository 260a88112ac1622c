------------------------------- MODULE MCSpqr -------------------------------
EXTENDS SpqrProperties

Offer(v, m) == [version |-> v, min |-> m]
OfferPairs  == [Parties -> {Offer(0, 0), Offer(1, 0), Offer(1, 1), Offer(2, 0), Offer(2, 1)}]

\* Two parties at version 1 see three epochs; the others settle on a version.
BothV1(o)      == \A p \in Parties : o[p] = Offer(1, 1)
MessagesFor(o) == IF BothV1(o) THEN 9 ELSE 4

Wide == [maxJump |-> 20, maxOOO |-> 20]
=============================================================================
