-------------------------------- MODULE Cka ---------------------------------
(***************************************************************************)
(* What the SPQR exchange promises: a continuous key agreement.  Epoch     *)
(* after epoch one party draws a new secret and the other obtains that     *)
(* secret before the next is drawn; the drawing alternates.                *)
(***************************************************************************)
EXTENDS Integers, Sequences

CONSTANTS Alice, Bob
VARIABLE known      \* the secrets each party holds, by epoch

Parties == {Alice, Bob}
Peer(p) == IF p = Alice THEN Bob ELSE Alice

\* Who draws the secret of an epoch: the responder begins.
Drawer(epoch) == IF epoch % 2 = 1 THEN Bob ELSE Alice

Init == known = [p \in Parties |-> <<>>]

Draw(p) ==
    LET epoch == Len(known[p]) + 1
        new   == known'[p][epoch]
    IN  /\ known[Peer(p)] = known[p]
        /\ p = Drawer(epoch)
        /\ Len(known'[p]) = epoch
        /\ \A i \in DOMAIN known[p] : known[p][i] # new
        /\ known' = [known EXCEPT ![p] = Append(@, new)]

Obtain(p) ==
    LET epoch == Len(known[p]) + 1
    IN  /\ epoch \in DOMAIN known[Peer(p)]
        /\ known' = [known EXCEPT ![p] = Append(@, known[Peer(p)][epoch])]

Next == \E p \in Parties : Draw(p) \/ Obtain(p)

Spec == Init /\ [][Next]_known
=============================================================================
