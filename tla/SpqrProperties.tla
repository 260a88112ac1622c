--------------------------- MODULE SpqrProperties ---------------------------
EXTENDS Spqr

\* The answer the receiver of x would give now.
Answer(x) == SpqrRecv(st[x.to], x.msg)

\* p's setting lets it speak with its peer.
Compatible == \A p \in Parties : offer[p].min <= offer[Peer(p)].version

\* The key Recv returns is the key Send returned with that message (or neither returned
\* one), whatever was lost, repeated or reordered, across epochs and while the
\* version is being negotiated; and Recv never gives out a key it gave before.
MessageKeysAgree ==
    \A x \in net : Answer(x).err = "ok" =>
        /\ Compatible => Answer(x).key = x.key
        /\ Answer(x).key \notin taken[x.to]

\* Sending never fails: the chain always has the epoch the v1 machine is in, and
\* there is a chain by the time an epoch secret appears.
SendSucceeds ==
    \A p \in Parties : LET r == SpqrSend(st[p], fresh + 1)
                       IN  r.err = "ok" /\ r.key # Erased

\* A message that arrives is refused only if its key was used or given up, its
\* epoch is older than the retained ones, or its version was ruled out.  No
\* honest message fails a MAC, runs ahead of its receiver or breaks the chain.
RefusalsJustified ==
    \A x \in net :
        LET s == st[x.to]
            e == Answer(x).err
        IN  \/ e = "ok"
            \/ e = "ErrKeyAlreadyRequested" /\ x.key \in taken[x.to]
            \/ e = "ErrKeyTrimmed" /\ Params.maxOOO < MaxMessages(offer)
            \/ e = "ErrKeyJump" /\ Params.maxJump < MaxMessages(offer)
            \/ e = "ErrEpochOutOfRange" /\ x.msg.body.epoch < s.chain.sendEpoch
            \/ e = "ErrMinimumVersion" /\ (s.vn = Nil \/ x.msg.version < s.vn.min)
            \/ e = "ErrVersionMismatch" /\ s.vn = Nil /\ x.msg.version > stateVersion(s)

\* The chain stays small, and what it no longer needs is gone: at most the send
\* epoch, one before it and one after it are kept, and only the send epoch and
\* later ones can still produce send keys (chain.sendKey).  What it does need is
\* never gone.
ChainTrimmed ==
    SendSucceeds /\ \A p \in Parties : st[p].chain # Nil =>
        LET c == st[p].chain
        IN  /\ Len(c.links) <= EpochsToKeepPriorToSendEpoch + 2
            /\ c.currentEpoch - c.sendEpoch \in {0, 1}
            /\ \A i \in DOMAIN c.links :
                   c.links[i].live <=> c.currentEpoch - (Len(c.links) - i) >= c.sendEpoch

\* Once both parties have closed the negotiation they run the same version, the
\* lower of the two on offer; and no party ever goes below its minimum.
VersionsAgree ==
    /\ \A p \in Parties : stateVersion(st[p]) >= offer[p].min
    /\ (Compatible /\ \A p \in Parties : st[p].vn = Nil)
           => stateVersion(st[Alice]) = stateVersion(st[Bob])
=============================================================================
