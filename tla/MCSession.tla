------------------------------ MODULE MCSession ------------------------------
EXTENDS SessionProperties, TLC

\* One scenario: what Alice and what Bob may do, besides sending and receiving.
Left(i, a, f, r, n) == [init |-> i, archive |-> a, fault |-> f, reset |-> r, reinstall |-> n]
Scenario(a, b) == (Alice :> a) @@ (Bob :> b)

OneSession   == {Scenario(Left(1, 0, 0, 0, 0), Left(0, 0, 0, 0, 0))}
SomeSessions == {Scenario(Left(2, 0, 0, 0, 0), Left(1, 1, 0, 0, 0)),
                 Scenario(Left(2, 0, 0, 1, 0), Left(0, 0, 0, 1, 1))}
StoreFaults  == {Scenario(Left(1, 0, 1, 0, 0), Left(0, 1, 1, 0, 0))}
SavedReplay  == {Scenario(Left(2, 0, 0, 0, 0), Left(0, 1, 0, 1, 0))}
=============================================================================
