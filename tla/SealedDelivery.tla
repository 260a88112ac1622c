--------------------------- MODULE SealedDelivery ---------------------------
(***************************************************************************)
(* Sealed sender at work.  A service issues sender certificates, users     *)
(* reinstall and so change identity keys, time passes, and messages sealed *)
(* in either format reach their recipients, directly or through the        *)
(* service's fan-out of a multi-recipient message.  The recipient opens    *)
(* what arrives with DecryptToUSMCAndValidate.                             *)
(***************************************************************************)
EXTENDS SealedSender

CONSTANTS
    Senders, Recipients,        \* service ids
    ServerCertificates,         \* what NewServerCertificate made of the service's keys
    TrustRoot,
    Forms,                      \* the bodies other services write: see Elsewhere
    Payloads,                   \* [type, contents, hint, groupID] a sender wraps
    RecipientLists,             \* what callers pass to SealV2
    MaxClock, MaxGeneration, MaxCertificates, MaxSeals, MaxOpens

\* The times that certificates are made for fit the field.
ASSUME TimeAssumption ==
    /\ 2^(TimeBits - 1) \in Nat /\ 2^TimeBits \in Nat
    /\ MaxClock \in Nat /\ MaxClock < 2^TimeBits

\* Server certificates are complete.
ASSUME ServerAssumption ==
    \A s \in ServerCertificates :
        s = NewServerCertificate(s.certificate.id, s.certificate.key, s.signature.by)

\* A form never puts another signer in, and its expiration fits the field.
ASSUME FormsAssumption ==
    \A f \in Forms :
        /\ "signerCertificate" \notin DOMAIN f.with
        /\ "expires" \in DOMAIN f.with => f.with.expires \in 0..2^TimeBits - 1

\* A payload's contents and group id are there or not.
ASSUME PayloadsAssumption ==
    \A p \in Payloads :
        /\ p = [type |-> p.type, contents |-> p.contents, hint |-> p.hint, groupID |-> p.groupID]
        /\ p.contents = <<>> \/ p.contents = <<p.contents[1]>>
        /\ p.groupID = <<>> \/ p.groupID = <<p.groupID[1]>>

VARIABLES
    clock,                      \* time in milliseconds
    generation,                 \* generation[u]: how often u has reinstalled
    certificates,               \* sender certificates issued, with their user
    sent,                       \* v2 SENT messages handed to the service
    net,                        \* sealed messages on their way
    opened                      \* what the recipients got from opening them

vars == <<clock, generation, certificates, sent, net, opened>>

IdentityKey(u, g) == <<"identity", u, g>>
Current(u) == IdentityKey(u, generation[u])

Init ==
    /\ clock = 1
    /\ generation = [u \in Senders \cup Recipients |-> 0]
    /\ certificates = {} /\ sent = {} /\ net = {} /\ opened = {}

Tick ==
    /\ clock < MaxClock
    /\ clock' = clock + 1
    /\ UNCHANGED <<generation, certificates, sent, net, opened>>

Reinstall(u) ==
    /\ generation[u] < MaxGeneration
    /\ generation' = [generation EXCEPT ![u] = @ + 1]
    /\ UNCHANGED <<clock, certificates, sent, net, opened>>

\* The service issues a certificate for u's key, or is refused one.
Certify(u, signer, expiration) ==
    LET c == NewSenderCertificate(u, <<>>, Current(u), 1, expiration, signer, signer.certificate.key)
    IN /\ Cardinality(certificates) < MaxCertificates
       /\ certificates' = IF c.ok THEN certificates \cup {[user |-> u, wire |-> c.value]}
                                  ELSE certificates
       /\ UNCHANGED <<clock, generation, sent, net, opened>>

\* Another implementation of the service writes fields NewSenderCertificate
\* never does: a form takes fields out of the body and puts fields in.
Elsewhere(u, signer, form) ==
    LET full == [uuidString |-> u, senderDevice |-> 1, expires |-> MaxClock,
                 identityKey |-> Current(u), signerCertificate |-> signer]
        body == With(form.with, [f \in DOMAIN full \ form.without |-> full[f]])
    IN /\ Cardinality(certificates) < MaxCertificates
       /\ certificates' = certificates
            \cup {[user |-> u, wire |-> SignSender(body, signer.certificate.key)]}
       /\ UNCHANGED <<clock, generation, sent, net, opened>>

\* A sealed message with, for the properties, what its sealer meant by it.
Sealed(to, device, wire, u, key, c, payload) ==
    [to |-> to, device |-> device, wire |-> wire, by |-> Current(u), for |-> key,
     certificate |-> c.wire, payload |-> payload]

Wrapped(payload, c) ==
    NewUSMC(payload.type, c.wire, payload.contents, payload.hint, payload.groupID)

\* Every seal draws fresh randomness.
Fresh == Cardinality(net) + Cardinality(sent)

\* u seals to the key it holds for r, which may be of an earlier generation.
SealOne(u, c, r, g, payload) ==
    LET usmc == Wrapped(payload, c)
        key  == IdentityKey(r, g)
        wire == SealV1(usmc.value, Current(u), key, <<"ephemeral", "v1", Fresh>>)
    IN /\ c.user = u /\ g <= generation[r] /\ usmc.ok
       /\ Fresh < MaxSeals
       /\ net' = net \cup {Sealed(r, 1, wire, u, key, c, payload)}
       /\ UNCHANGED <<clock, generation, certificates, sent, opened>>

\* A list names generations back from the current one; u has those keys.
Addressed(list) ==
    [i \in DOMAIN list |->
       [serviceID |-> list[i].serviceID, deviceID |-> list[i].deviceID,
        registrationID |-> list[i].registrationID,
        identityKey |-> IdentityKey(list[i].serviceID, generation[list[i].serviceID] - list[i].back)]]

SealMany(u, c, list, payload) ==
    LET usmc    == Wrapped(payload, c)
        to      == Addressed(list)
        message == SealV2(usmc.value, to, Current(u), Fresh)
    IN /\ c.user = u /\ usmc.ok
       /\ \A i \in DOMAIN list : generation[list[i].serviceID] >= list[i].back
       /\ Fresh < MaxSeals
       /\ sent' = IF message.ok THEN sent \cup {[to |-> to, message |-> message.value]} ELSE sent
       /\ net' = IF ~message.ok THEN net
                 ELSE net \cup {Sealed(to[i].serviceID, to[i].deviceID,
                                       ReceivedMessageForRecipient(message.value, i),
                                       u, to[i].identityKey, c, payload) : i \in DOMAIN to}
       /\ UNCHANGED <<clock, generation, certificates, opened>>

Open(m) ==
    /\ Cardinality(opened) < MaxOpens
    /\ opened' = opened \cup {[message |-> m, key |-> Current(m.to), now |-> clock,
                               result |-> DecryptToUSMCAndValidate(m.wire, Current(m.to),
                                                                   TrustRoot, clock)]}
    /\ UNCHANGED <<clock, generation, certificates, sent, net>>

Next ==
    \/ Tick
    \/ \E u \in Senders \cup Recipients : Reinstall(u)
    \/ \E u \in Senders, s \in ServerCertificates, x \in -1..MaxClock : Certify(u, s, x)
    \/ \E u \in Senders, s \in ServerCertificates, f \in Forms : Elsewhere(u, s, f)
    \/ \E u \in Senders, c \in certificates, r \in Recipients, g \in 0..MaxGeneration, p \in Payloads :
          SealOne(u, c, r, g, p)
    \/ \E u \in Senders, c \in certificates, l \in RecipientLists, p \in Payloads : SealMany(u, c, l, p)
    \/ \E m \in net : Open(m)

Spec == Init /\ [][Next]_vars

-----------------------------------------------------------------------------
\* A message that opens comes from the holder of the key its certificate names,
\* was sealed to the key that opened it, and shows the type, contents, hint and
\* group its sender wrapped (DecryptToUSMCAndValidate): a certificate issued
\* before the sender reinstalled does not vouch for the new key.
SenderAuthentic ==
    \A o \in opened : o.result.ok =>
        LET usmc == o.result.value
        IN /\ usmc.sender.key = o.message.by
           /\ o.key = o.message.for
           /\ [type |-> usmc.type, contents |-> usmc.contents, hint |-> usmc.hint,
               groupID |-> usmc.groupID] = o.message.payload

\* A message that opens carries a certificate the trust root stands behind at
\* that moment (ServerCertificate.Validate, SenderCertificate.Validate): its
\* signer is certified and not revoked, it has not expired, and an expiration
\* past the signed range, which reads as the distant past, counts as expired.
CertificateInForce ==
    \A o \in opened : o.result.ok =>
        LET body   == o.message.certificate.certificate
            signer == body.signerCertificate
        IN /\ signer.signature.by = TrustRoot
           /\ signer.certificate.id \notin Revoked
           /\ o.now <= body.expires
           /\ body.expires < 2^(TimeBits - 1)

\* A message is refused only for a cause its sender or the service gave: a key
\* of the recipient's or the sender's that is no longer in use, a certificate
\* that is incomplete, by reference, expired, revoked or not of this trust
\* root, or contents that are nil (DecryptToUSMCAndValidate).
RefusedForCause ==
    \A o \in opened : o.result.ok
        \/ o.key # o.message.for
        \/ o.message.payload.contents = <<>>
        \/ LET body == o.message.certificate.certificate
           IN \/ ~Present(body, {"identityKey", "expires", "senderDevice", "signerCertificate"})
              \/ body.identityKey # o.message.by
              \/ o.now > body.expires \/ body.expires >= 2^(TimeBits - 1)
              \/ body.signerCertificate.signature.by # TrustRoot
              \/ body.signerCertificate.certificate.id \in Revoked
              \/ "uuidString" \notin DOMAIN body
                   /\ ("uuidBytes" \notin DOMAIN body \/ body.uuidBytes.length # 16)

-----------------------------------------------------------------------------
(***************************************************************************)
(* The inductive invariant behind these three.                             *)
(***************************************************************************)
\* A sender certificate is signed with the key of a server certificate, and if
\* it embeds one it is that one.
SoundCertificate(w) ==
    \E s \in ServerCertificates :
        /\ w = SignSender(w.certificate, s.certificate.key)
        /\ "signerCertificate" \in DOMAIN w.certificate => w.certificate.signerCertificate = s
        /\ "expires" \in DOMAIN w.certificate => w.certificate.expires \in 0..2^TimeBits - 1

\* What the sealer of m wrapped.
Plain(m) ==
    NewUSMC(m.payload.type, m.certificate, m.payload.contents, m.payload.hint,
            m.payload.groupID).value

\* The received form of a message that SealV2 made with the n-th seed.
ReceivedV2(usmc, by, for, n) ==
    LET e == deriveE(Seed(n))
        c == applyAgreementXor(e, for, "sending", Seed(n))
    IN [version |-> 34, c |-> c, at |-> computeAuthenticationTag(by, for, "sending", e, c),
        ephemeral |-> e, ciphertext |-> Box(deriveK(Seed(n)), usmc)]

SoundMessage(m) ==
    /\ SoundCertificate(m.certificate)
    /\ m.payload \in Payloads /\ m.payload.type \in DOMAIN ProtoTypes
    /\ m.wire = IF m.wire.version = 17
                THEN SealV1(Plain(m), m.by, m.for, m.wire.ephemeralPublic)
                ELSE ReceivedV2(Plain(m), m.by, m.for, m.wire.c.n)

SoundOpening(o) ==
    /\ o.now \in Nat \ {0}
    /\ SoundMessage(o.message)
    /\ o.result = DecryptToUSMCAndValidate(o.message.wire, o.key, TrustRoot, o.now)

\* What NewSenderCertificate, SealV1 and SealV2 made is sound, and so is what
\* DecryptToUSMCAndValidate was given and what it answered.
SealedInv ==
    /\ clock \in Nat \ {0}
    /\ \A c \in certificates : SoundCertificate(c.wire)
    /\ \A m \in net : SoundMessage(m)
    /\ \A o \in opened : SoundOpening(o)

=============================================================================
