---------------------------- MODULE SecureChannel ----------------------------
(***************************************************************************)
(* What a pair of sessions promises the two applications: each receives    *)
(* plaintexts of the other only, each of them at most once, in any order.  *)
(***************************************************************************)
EXTENDS Naturals

CONSTANTS Parties, MaxSent
VARIABLES sent,         \* how many plaintexts a party has sent
          delivered     \* how often it was returned each plaintext of the other

Init ==
    /\ sent      = [p \in Parties |-> 0]
    /\ delivered = [p \in Parties |-> [k \in 1 .. MaxSent |-> 0]]

Send(p) ==
    /\ sent[p] < MaxSent
    /\ sent' = [sent EXCEPT ![p] = @ + 1]
    /\ UNCHANGED delivered

Receive(p, k) ==
    /\ \E q \in Parties \ {p} : k <= sent[q]
    /\ delivered[p][k] = 0
    /\ delivered' = [delivered EXCEPT ![p] = [@ EXCEPT ![k] = 1]]
    /\ UNCHANGED sent

Next == \E p \in Parties : Send(p) \/ \E k \in 1 .. MaxSent : Receive(p, k)

Spec == Init /\ [][Next]_<<sent, delivered>>
=============================================================================
