----------------------------- MODULE KeyHistory -----------------------------
(***************************************************************************)
(* One direction (send or receive) of an epoch of the SPQR key chain:      *)
(* chainEpochDirection and keyHistory of spqr/chain.go.                    *)
(*                                                                         *)
(* The chain is a stream of keys.  A key is named by its position in the   *)
(* stream, 1, 2, 3, ..., which is what the HKDF steps of nextKeyInternal   *)
(* make distinct.  The program sees the position through a 32-bit counter: *)
(* Wire(n).  The history holds the positions that were derived, skipped    *)
(* and not yet requested; the code scans it by wire index, and two         *)
(* positions of one index need Word keys in one direction of one epoch.    *)
(***************************************************************************)
EXTENDS Integers, FiniteSets

CONSTANT Word       \* 2^32: the width of ctr and of a message index

ASSUME WordAssumption == Word \in Nat \ {0}

Wire(n) == n % Word

Directions == [ctr : Nat, prev : SUBSET Nat]

newChainEpochDirection == [ctr |-> 0, prev |-> {}]

trimSize(maxOOO) == (maxOOO * 11) \div 10 + 1

\* keyHistory.gc: nothing happens before trimSize entries are held, nor while
\* the horizon would underflow.
HistoryGC(prev, currentKey, maxOOO) ==
    IF Cardinality(prev) < trimSize(maxOOO) \/ Wire(currentKey) < maxOOO
    THEN prev
    ELSE {i \in prev : Wire(i) >= Wire(currentKey) - maxOOO}

\* keyHistory.get: pops the key at index "at".
HistoryGet(d, at, maxOOO) ==
    LET held == {i \in d.prev : Wire(i) = at}
        pos  == CHOOSE i \in held : TRUE
    IN  CASE Wire(at + maxOOO) < Wire(d.ctr) ->
                 [err |-> "ErrKeyTrimmed", pos |-> 0, d |-> d]
          [] Wire(at + maxOOO) >= Wire(d.ctr) /\ held = {} ->
                 [err |-> "ErrKeyAlreadyRequested", pos |-> 0, d |-> d]
          [] OTHER ->
                 [err |-> "ok", pos |-> pos, d |-> [d EXCEPT !.prev = @ \ {pos}]]

\* The advancing half of chainEpochDirection.key, for an index ahead of ctr.
HistoryAdvance(d, at, maxOOO) ==
    LET target  == d.ctr + (at - Wire(d.ctr))
        kept    == IF at > Wire(d.ctr + maxOOO) THEN {} ELSE d.prev
        skipped == {i \in d.ctr + 1 .. target - 1 : Wire(i + maxOOO) >= at}
    IN  [err |-> "ok", pos |-> target,
         d   |-> [ctr  |-> target,
                  prev |-> HistoryGC(kept \cup skipped, target - 1, maxOOO)]]

\* chainEpochDirection.key under the chain parameters p.
DirectionKey(d, at, p) ==
    CASE at > Wire(d.ctr) /\ at - Wire(d.ctr) > p.maxJump ->
             [err |-> "ErrKeyJump", pos |-> 0, d |-> d]
      [] at > Wire(d.ctr) /\ at - Wire(d.ctr) <= p.maxJump ->
             HistoryAdvance(d, at, p.maxOOO)
      [] at < Wire(d.ctr) ->
             HistoryGet(d, at, p.maxOOO)
      [] OTHER ->
             [err |-> "ErrKeyAlreadyRequested", pos |-> 0, d |-> d]

\* chainEpochDirection.nextKey, the send side.
DirectionNextKey(d) == [d EXCEPT !.ctr = @ + 1]

=============================================================================
