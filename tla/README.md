# A verification of libsignal-go

TLA+ models of this repository, TLC runs that check them on small instances, and
TLAPS proofs of the properties that matter most for instances of every size.

    tlc -workers 2 -config MCSession_sessions.cfg MCSession      # a run
    tlapm SessionProofs.tla                                      # the proofs of one module

`PROJECT.json` holds the runs, the source lines every definition stands for, the
hazards, the findings and the theorems in machine-readable form.

## 1. The system

The repository is a Go port of the Signal protocol library.  It has no threads
and no I/O of its own: a host application calls handlers, which read and write
stores that the host supplies.

| part | state | operations | who it talks to |
|---|---|---|---|
| `session/state.go`, `ratchet/` | one Double Ratchet session: root key, sending chain, up to 5 receiver chains with up to 2000 cached keys each, the pending pre-key message, the SPQR state | chain steps, ratchet steps, cache and take a skipped key | the session cipher |
| `session/record.go` | the current session and up to 40 archived ones | archive, promote, resume | cipher, builder |
| `session/builder.go`, `prekey_decrypt.go` | none | `ProcessPreKeyBundle`, `DecryptPreKey` (PQXDH) | all stores |
| `session/cipher.go` | none | `Encrypt`, `Decrypt` | session and identity stores |
| `stores/inmem` | identities, one-time, signed and Kyber pre-keys, base keys seen, sessions, sender keys | get, save, remove, mark | every handler |
| `spqr/chain.go` | per epoch and direction: a counter, the next key, a window of skipped keys | `sendKey`, `recvKey`, `addEpoch` | SPQR |
| `spqr/v1.go`, `spqr.go` | the eleven-state KEM exchange that opens an epoch; version negotiation | `Send`, `Recv` | session state |
| `internal/spqr/chunked` | encoder and decoder of an erasure code | next chunk, add chunk, decode | `spqr/v1.go` |
| `groups/` | up to 5 sender-key states per sender and distribution, each a chain with a cache | create and process a distribution message, group encrypt and decrypt | sender-key store |
| `sealedsender/` | none | certificate validation, sealing, unsealing | sessions |
| `protocol/`, `address/`, `fingerprint/`, `accountkeys/`, `usernames/` | none | encode, decode, derive | everything |
| `curve/`, `kem/`, `internal/crypto`, `internal/mlkem768incr` | none | primitives and the encodings around them | everything |
| `compat/`, `proofreport/`, `svr/`, `svrb/`, `messagebackup/`, `internal/upstream` | none | reports on the port itself | nobody |

What is hard about the stateful parts is the order of events.  The network loses,
duplicates and reorders; both parties may initiate at once; sessions are
archived, resumed and evicted; a handler writes up to four stores and may stop
between two of them; a host's store may hand out its own objects; a peer may
reinstall; counters are 32 bits wide.  Under all of that the library promises
that a plaintext is returned at most once, that the key of a delivered message is
gone, that no key is used twice, that a rejected message changes nothing, and
that two parties that go on talking understand each other.  What is hard about
the others is that many forms are read by parties other than their writer:
nothing may be readable as two things, and damage must show.

## 2. The modules

| module | models | depends on |
|---|---|---|
| `KeyHistory` | one direction of one epoch of the SPQR key chain | |
| `SessionState` | a session: key schedule, chains, cache, both PQXDH agreements, `decryptWithState` | `KeyHistory` |
| `SessionRecord` | current and archived sessions | `SessionState` |
| `Session` | two parties, their stores and the network; one action per handler | `SessionRecord` |
| `SecureChannel` | what a pair of sessions promises the applications | |
| `SessionProperties` | type invariant, properties, the inductive invariants | `Session`, `SecureChannel` |
| `SpqrChain` | the chain over its epochs | `KeyHistory` |
| `SpqrV1` | the V1 machine, the incremental KEM and the authenticator as it uses them | |
| `SpqrExchange`, `SpqrExchangeProperties` | two V1 machines and the network | `SpqrV1`, `Cka` |
| `Cka` | what the exchange promises: a continuous key agreement | |
| `Spqr`, `SpqrProperties` | `Send` and `Recv` at two parties: machine, chain and negotiation composed | `SpqrV1`, `SpqrChain` |
| `ChunkCode` | the erasure code: field, interpolation, encoder, decoder, codec | |
| `SenderKeys`, `SenderKeysProperties` | one sender of a group, its members and the network | |
| `SealedSender` | certificates, the content wrapper, both sealing formats | `Outcome` |
| `SealedDelivery` | senders, recipients, a certificate service and the network | `SealedSender` |
| `SealedFanOut` | the service's reading of a multi-recipient message | `SealedDelivery` |
| `WireMessages`, `SpqrWire`, `ServiceIds`, `Fingerprint`, `Usernames`, `Keys`, `AccountKeys`, `Ciphers` | one family of written forms each | `Outcome` |
| `Codecs`, `CodecProperties` | a value is written, perhaps damaged, and read | the eight above |
| `MC...` | the instances of the TLC runs | |
| `SessionLemmas`, `SessionTypes`, `SessionProofs`, `SessionKeyProofs`, `SessionRatchetProofs`, `SenderKeysProofs`, `SealedDeliveryProofs`, `SpqrExchangeProofs` | the proofs (section 4) | |

### Data

Cryptography is symbolic and derivations are injective.  A key pair is `<<kind,
owner, installation, number>>`; a Diffie-Hellman output is the set of its two
keys, so both sides compute the same value; a root key is the handshake secret
with the sequence of agreements mixed into it; a chain key is its root with the
number of steps taken; a message key generator is the chain key of its step.
Decapsulating with the wrong Kyber key gives another secret and no error, as
ML-KEM's implicit rejection does.  A MAC verifies when both sides derived the
same Double Ratchet key and the same SPQR key and name the same identities.

An index is what the program sees of a position: `Wire(n) == n % Word`, with
`Word` for 2^32.  All comparisons the code makes on `uint32` are made on wire
values, so the wrap of a counter is in the model, and the run `caps` reaches it.

In `Session`, signatures of bundles, AES, protobuf framing and registration ids
are left out; none of them changes which handler accepts what, given messages
that a party of the protocol made.  The SPQR state of a session is there one
epoch of the chain; epochs are the business of `Spqr`.

### Actions of `Session`

Each handler is one action: the documentation makes the host serialize the
operations of a peer.  A handler's store writes come in a fixed order,
`SaveIdentity`, `MarkKyberPreKeyUsed`, `RemovePreKey`, `StoreSession`; the
parameter `last` is the last one that took effect.  `last = Stored` is success,
anything else a failed write or a process that stopped there, with the earlier
writes committed.  `StoreAliases` is the set of parties whose `LoadSession`
returns the stored object itself, which `prekey_decrypt.go:57` provides for,
instead of a copy, like `stores/inmem`: there a handler that fails leaves behind
what it did to the loaded record (`Mutated`).

| action | code |
|---|---|
| `ProcessPreKeyBundle` | `ProcessRejected` (untrusted identity), `ProcessAccepted` |
| `Encrypt` | `EncryptNoSession`, `EncryptRejected` (stale or untrusted, after the SPQR state moved), `EncryptAccepted` |
| `Decrypt` | rejected, committed, or failed in `StoreSession` |
| `DecryptPreKey` | `DecryptPreKeyRejected`, `DecryptPreKeyReused` (the Kyber store has seen the base key), `DecryptPreKeyCommit` |
| `ArchiveSession`, `Reset`, `Reinstall`, `Tick` | what a host does besides |

`net` is a set that only grows, and any message in it may be received at any
time: loss, duplication and reordering need no actions of their own.

### SPQR

A state of `SpqrV1` is a record of exactly the fields `v1StateToProto` stores for
its tag; `send` and `recv` follow the switch over the eleven tags.  An incremental
key has three parts that name their randomness: the header, the rest of the
public key and the secret key.  Encoders and decoders are the number of the next
chunk and the set of indices seen; a decoder answers once it has as many as the
part needs (`NeedHdr`, `NeedEk`, `NeedCt1`, `NeedCt2`), which is what `ChunkCode`
shows of the real one.  Messages of an epoch both parties have left are dropped
from the network, since `recv` ignores them.

`Spqr` composes: `SpqrSend` steps the machine, hands a new epoch secret to the
chain and draws the message key; `SpqrRecv` reads the version, negotiates, steps
the machine and asks the chain.  A party is initialised with every combination of
version and minimum; version 2 stands for a peer from the future, whose messages
are only known by their preamble.

`ChunkCode` is the code with the field's width (`Bits`, `GfPoly`) and the number of
polynomials as constants.  Encoder and decoder pass through their protobuf forms
at every step, as in the session record.

### Actions of `SenderKeys`

Records are kept per sender and distribution id, so one sender with its members
is the whole of the interaction; other senders and distributions are further
copies of it.  A chain is named by its signing key.  Chain id, chain key and
signing key are drawn together, and only the 31-bit chain id may repeat, which
the runs make it do.  Chain and message keys are the pair of the signing key and
the iteration.

A record is the set of its states with their places in the list; the cached keys
of a state are the set of their iterations, since the list that the code keeps
ascends.  Two history variables are not in the code: `from`, the iteration a
state was added at, and `dropped`, the chains whose state a member let go.

| action | code |
|---|---|
| `CreateSKDM`, `ProvisionSKDM` | `CreateSenderKeyDistributionMessage`, with a record and without one |
| `Renew` | the sender starts over with an empty store |
| `ProcessSKDM` | `ProcessSenderKeyDistributionMessage` |
| `Encrypt`, `EncryptRejected` | `Encrypt`; no record, or the last iteration reached |
| `Decrypt` | `Decrypt`, accepted or rejected |

Each handler reads a copy of the record and writes it once, as its last step, so
that a failed write changes nothing and needs no action.

### Sealed sender

`SealedSender` translates the package function by function: a body is a function
on the protobuf fields that are present, a box its key and its content, the masks
on a message seed a set that XOR adds to and takes from.  `SealedDelivery` puts it
to work: the service issues certificates (`Certify`, or in the other forms that
the reader knows, `Elsewhere`), users reinstall, time passes, a sender seals for one
recipient (`SealOne`) or many (`SealMany`: each device gets what
`ReceivedMessageForRecipient` makes for it), and the recipient opens (`Open`).
`SealedFanOut` reads the SENT form block by block, as a service must, and compares
what it would route with what the devices got.

### Written forms

A protobuf message is its version byte and a function on the fields present, with
the MAC or signature a record of what it covers.  SPQR messages, service ids,
usernames, keys and ciphertexts are sequences of small bytes or characters,
because there the properties are about single ones; widths are constants.
SHA-512, AES and Argon2 are injective.  `Codecs` writes a value, damages at most one
part of it, the way a faulty transport or disk would, and feeds a stream cipher in
pieces; the properties speak of the reading.

### Mutants

Beside some definitions stands a second one, marked as a mutant: the definition
with a plausible mistake in it.  Nothing uses it; replacing the definition by it
must make TLC find a violation of the property that `PROJECT.json` names.

## 3. What TLC checks

| run | asks | distinct states |
|---|---|---|
| `ratchet` | one session, three plaintexts each way, every order, loss and replay: every plaintext arrives (`EventuallyDelivered`), the handshake is acknowledged (`HandshakeCompletes`) | 2,728 |
| `caps` | five plaintexts each way, an index that wraps at four, two cached keys, two receiver chains, jumps of three: eviction and wrap-around lose messages and do nothing worse (`SessionInv`, `RatchetsInStep`) | 41,946 |
| `sessions` | two scenarios: repeated and simultaneous initiation, host archiving, an archive of one entry; and a peer that reinstalls under the same pre-key ids while known identities are reset; below the caps no message of the current session is refused (`CurrentSessionAccepts`) | 146,826 |
| `faults` | each party meets one failed write, at every place a write can fail, one of them with a store that returns its own objects; a stale session; no key is used twice (`SendingInv`) and the channel is implemented (`ImplementsChannel`) | 30,841 |
| `replay` | a statement of the documentation that the code does not keep (section 5) | |
| `group` | two chains against a record of one state, one cached key, jumps of two, four iterations: chains are dropped for the cap and for a repeated chain id and announced again, keys are evicted, the counter stops (`GroupInv`, `KeysOnlyShrink`) | 364,133 |
| `group_delivery` | two chains that may share a chain id, three messages, every order, caps out of reach: no unreturned message is refused, and every message arrives | 38,805 |
| `epochs` | two V1 machines, three epochs, two chunks to a part, a chunk index that wraps: in step, nothing refused, `Cka` implemented, and the epochs go on | 17,256 |
| `spqr` | every pair of versions and minimums: the same message keys on both sides, each once, no failing send, only justified refusals, a trimmed chain, one version | 200,572 |
| `chunks` | two messages of five field elements in two polynomials, any four of the chunks in any order | 37,120 |
| `codecs` | every written form with every single fault | 68,121 |
| `sealed` | both formats, nine recipient lists, eleven forms of certificates, good, revoked and foreign signers, time and reinstallation: what opens is authentic and in force, a refusal has a cause, the fan-out agrees (`SenderAuthentic`, `CertificateInForce`, `RefusedForCause`, `FanOutAgrees`), and what the first three rest on (`SealedInv`) | 256,420 |

Three invariants gather what an application is promised and are the ones the
proofs establish (section 4).  `SessionInv`: a plaintext is returned at most once
(`AtMostOnce`), the key of a returned message is in no session (`ForwardSecrecy`), a
record has one session per base key (`OneSessionPerBaseKey`), and what these rest on.
`SendingInv`: no two messages share a key (`NoKeyReuse`), and why.  `GroupInv`: the same
for groups (`GroupAtMostOnce`, `NoMessageKeyReuse`, `MembersFollow`,
`RecordsWellFormed`).  The six properties of `codecs` are conjunctions too, a named
conjunct with its own comment for each family of forms.

Bounds of the session runs: `MaxSent` plaintexts per party, `MaxSendKeys` SPQR keys
drawn per session, `MaxClock` days, and `Budgets`, the scenarios: how often each
party initiates, archives, meets a fault, resets or reinstalls.  They are guards,
not constraints, and no theorem depends on their values.  They are large enough
for what the properties are about: ratchet steps with skipped messages in two
chains (`ratchet`), every cap exceeded and the counter wrapped (`caps`), three base
keys against an archive of one (`sessions`), a fault of each party in either order
(`faults`).  `CurrentSessionAccepts` is checked only where the caps are out of
reach: a message whose chain or cached key was evicted is lost by design.

Bounds of the group runs: `MaxChains` provisionings and `MaxSent` messages.  Two
chains against one state per record are the least with which a chain is evicted
and announced again; four messages on four iterations the least with which a
sender would use the last one.  A message that precedes the iteration a member was
announced cannot be decrypted by it, and a message of a dropped chain may be lost
or, after the chain was announced again at an old iteration, returned again:
`GroupAnswers`, `GroupAtMostOnce` and `GroupDelivers` name these exceptions, and
the code has no others.

Bounds of the SPQR runs: three epochs show both roles of each party and the
return to the first; two chunks to a part make every half-received state
reachable, one chunk (`spqr`) leaves room for the chain and the negotiation.
In `spqr` two parties at version 1 exchange nine messages, which takes them past
the first trimming, and others four, which settles the version; `MaxLead` bounds
how many messages one side sends beyond the other, `MaxLate` how many messages are
overtaken or lost.

Two properties are compared with a definition that is not the code's:
`DecodesExactly` with the message itself, `PolyvalIsPolynomial` with the polynomial
over the field, built from powers of x.  In `codecs` and `sealed` the values are
chosen so that each early return of each reader is taken.

### Fairness

`ratchet` assumes that an application that can send goes on sending, and that a
message its receiver would accept is brought to it and passed on at some time:
weak fairness of a sender and of a network that retries, with the enabling
conditions written out (`CanEncrypt`, `CanReceive`).  `group_delivery` assumes of the
network that a distribution message of a chain that a member lacks, and a message
that it would accept, reach it at some time (`WF_vars`), and nothing of the sender.
`epochs` assumes that both users go on writing and that of the messages that could
be received some is.  The code has no scheduler to guarantee any of this, since
sending and fetching are the host's; without it nothing needs to happen at all.
No strong fairness is used.

## 4. What is proved

For all constants that satisfy the named assumptions (`WordAssumption`,
`BoundsAssumption`, `ArchiveAssumption`, `SessionAssumption`: caps are positive,
the two parties differ, pre-key ids are numbers; `NilAssumption`: the absent
pre-key id is none of them; `PendingAssumption`: an absent pending message is no
pending message), and so for any number of messages, sessions, faults
and reinstallations, members and chains (`SenderKeysAssumption`: the cap on states
is positive, the others are numbers), certificates, forms and payloads
(`TimeAssumption`: the powers of two that bound a time are numbers and the clock
stays below them; `ServerAssumption`: server certificates are what
`NewServerCertificate` makes; `FormsAssumption`, `PayloadsAssumption`: what another
implementation writes keeps the signer and fits the fields, optional parts are
there or not), chunks to a part, width of the chunk index and epochs
(`ExchangeAssumption`: the two parties differ; `V1Assumption`, `NilAssumption`: a part
needs at least one chunk, and the absent value is no part and no secret):

| theorem | says |
|---|---|
| `TypeCorrect` (in `SessionTypes`) | `Spec => []TypeOK` |
| `RecordsStayBounded` (in `SessionTypes`) | `Spec => []RecordBounded` |
| `SessionInvariant` (from here on in `SessionProofs`) | `Spec => []SessionInv` |
| `DeliveredAtMostOnce` | `Spec => []AtMostOnce` |
| `DeliveredKeysForgotten` | `Spec => []ForwardSecrecy` |
| `SessionsDistinct` | `Spec => []OneSessionPerBaseKey` |
| `IdentityPinned` | `Spec => TrustOnFirstUse` |
| `SessionImplementsChannel` | `Spec => ImplementsChannel`, the refinement of `SecureChannel` |
| `SendingInvariant` (from here on in `SessionKeyProofs`) | `Spec => []SendingInv` |
| `KeysUsedOnce` | `Spec => []NoKeyReuse` |
| `AcceptedPreKeysGone` | `Spec => []AcceptedKeysSpent` |
| `RatchetInvariant` (from here on in `SessionRatchetProofs`) | `Spec => []RatchetInv` |
| `RatchetsStayInStep` | `Spec => []RatchetsInStep` |
| `PeerAcknowledged` | `Spec => []AcknowledgedByPeer` |
| `RejectionsChangeNothing` | `Spec => RejectionChangesNothing` |
| `GroupTypes` (from here on in `SenderKeysProofs`) | `Spec => []TypeOK` |
| `GroupInvariant` | `Spec => []GroupInv` |
| `GroupRecords` | `Spec => []RecordsWellFormed` |
| `GroupOnce` | `Spec => []GroupAtMostOnce` |
| `GroupKeysForgotten` | `Spec => []GroupForwardSecrecy` |
| `GroupKeysFresh` | `Spec => []NoMessageKeyReuse` |
| `GroupNeverAhead` | `Spec => []MembersFollow` |
| `GroupNeverRegains` | `Spec => KeysOnlyShrink` |
| `SealedInvariant` (from here on in `SealedDeliveryProofs`) | `Spec => []SealedInv` |
| `OpenedIsAuthentic` | `Spec => []SenderAuthentic` |
| `OpenedIsVouched` | `Spec => []CertificateInForce` |
| `RefusalsHaveCauses` | `Spec => []RefusedForCause` |
| `ExchangeInductive` (from here on in `SpqrExchangeProofs`) | `Spec => []ExchangeInv` |
| `EpochsStayInStep` | `Spec => []EpochsInStep` |
| `ExchangeRefusesNothing` | `Spec => []NothingRefused` |
| `ExchangeImplementsCka` | `Spec => KeyAgreement`, the refinement of `Cka` |

`tlapm` checks the theorems of the module it is given and takes those of the
modules it extends as proved, so each of `SessionLemmas`, `SessionTypes`,
`SessionProofs`, `SessionKeyProofs`, `SessionRatchetProofs`, `SenderKeysProofs`,
`SealedDeliveryProofs` and `SpqrExchangeProofs` is to be checked.
The longest takes about a quarter of an hour.  Leaves that need no arithmetic name
Zenon, which is quicker on them than the SMT solver; `SMTT(20)` marks leaves that
come near the solver's usual limit of time.

**At most once.**  `AtMostOnce` is not inductive: a state may satisfy it and hold
the key of a delivered message.  Nor is `ForwardSecrecy`: a session that does not
exist yet may be about to derive such a key.  `SessionInv` closes both gaps.

* Every session a party holds is `SoundState`: its chains hold only keys they
  have moved past, receiver chains descend from ever longer root keys
  (`WellFormed`), its base key is the one its handshake secret names, and it is
  `Accounted` for: the party generated the base key itself, or this installation
  accepted the session and the Kyber store remembers the base key.
* No session holds, or can compute from what it holds, the key of a delivered
  message (`ForwardSecrecy`), and the handshake of such a message is `Exhausted`:
  no new session of the receiver can have it, because its own base keys are
  fresh, because the Kyber store refuses the base key, or because the ciphertext
  was made for the Kyber key of an earlier installation.

The argument for a step: every handler replaces a record by one whose sessions
each *descend* from a session of the old record (same handshake, no key
regained) or are the one new session of that step (`Evolves`, `RecordStep`).
Descent preserves forward secrecy, and a new session's handshake was not
exhausted, so it differs from that of every delivered message.  A delivery adds
one more message, whose key the deciding state no longer derives
(`DecryptSpent`), and which no other session shares, since base keys are
distinct in a record.  `QuietStep` and `DeliveryStep` carry this from the
sessions to the invariant; `ProcessSafe`, `EncryptSafe`, `DecryptSafe`,
`PreKeySafe` and `ReinstallSafe` apply them to the handlers.

**The channel.**  In `SecureChannel` a plaintext is returned only once sent and
only if not returned before.  The mapping is the identity on the two counters the
applications see; every action but the sending of a plaintext and its return is a
stutter.  That a returned plaintext was not returned before is `AtMostOnce` after
the step (`ReturnedOnce`).

**No key twice.**  Two messages with one key would come from sessions with one
handshake, in three ways: one session that sends a key again, the two ends of a
session that arrive at one chain, or a session that is created twice.
`SendingInv` rules them out.  Every message lies behind the sending chain, and
behind the SPQR send counter, of every live session it came from (`SentBefore`), so
a session that goes on does not meet it (`Follows`, `Onward`: no handler takes a
sending chain back, a rejected or unsaved one included).  The ends of a session draw SPQR
keys in different directions and take ratchet steps in turns, so the length of
the root key under a sending chain has one parity at each end (`EndDirection`,
`EndParity`).  And the handshake of every message is exhausted at its
sender (`SentFrom`): no new session can have it (`NewSessionUnused`,
`AcceptedUnused`, `StaysExhausted`), also when the session it came from was evicted.

**Spent pre-keys.**  `AcceptedKeysSpent` needs, besides `SessionInv`, that no one-time
pre-key id still in the store occurs in an accepted session (`OneTimeInv`).
`DecryptPreKey` removes the id before it stores the session, a resumed session had
it removed when it was first accepted, and a reinstallation begins with other keys.

**Two ends in step.**  `RatchetsInStep` compares what two parties hold who never see
each other's state, so it can only rest on the messages between them.  `RatchetInv`
says what these carry: every message has a root key that its sender's session has
reached (`RootsSent`), and a base key names one handshake secret among all messages
and sessions (`OneSecretPerBaseKey`).  A session moves on only by a message that
authenticates, so on a root key one step beyond its own (`RootStep`, `StepsOn`); as
the sender had reached that one and is at most one step apart, it is exactly there,
and the receiver, who takes two steps at once, ends one step beyond (`StepAhead`).  A
recipient that accepts a handshake is in step because the initiator is still at
its first root key (`FirstStepAhead`): an initiator moves on, or drops its pending
pre-key message, only by a message of the peer, and a peer that sent one has the
handshake exhausted (`InitiatorsAnswered`), while an accepted one is not exhausted.
This last conjunct is `AcknowledgedByPeer` up to the meaning of exhausted: of its
three reasons, the peer did not generate the base key, and the Kyber key is not of an
earlier installation, since identity and Kyber key come from one bundle
(`BundlesWhole`); so the Kyber store remembers it.  Whether messages are lost, repeated
or overtaken, or the session was archived and resumed meanwhile, does not enter: each
handler only leaves sessions that go on from those before (`Onward`).  TLC finds
`RatchetInv` true under the bounds of `caps`, `sessions` and `faults` as well; the runs
list only the properties it is for.

**Rejections.**  `RejectionChangesNothing` needs no invariant: it is read off the two
receiving handlers, which return before any write unless the message authenticates.
Failing writes and the replay that `MarkKyberPreKeyUsed` reports belong to the commit
and are excepted; the latter is the finding of section 5.

**Groups.**  `GroupAtMostOnce` needs to know where the key of a returned message
went.  `GroupInv` says that a member that was returned a message, and never
dropped its chain, holds the state of the chain without the key
(`DeliveriesSound`); so a repeated distribution message finds that state and
changes nothing, and `Decrypt` answers that the message is a duplicate.  The
state is found by chain id while the key belongs to a signing key, hence
`TagsSound`: a signing key has one chain id everywhere, a record has one state
per chain id, and the sender's chain is the latest.  `MessagesSound` keeps what
was sent and announced behind the sender's chain, which gives fresh keys.

**Sealed sender.**  An opening is judged by what was sealed, so `SealedInv` keeps the
two together: a certificate is signed with the key of a known server certificate,
and embeds that one if any (`SoundCertificate`); a message on the network is what
`SealV1`, or `SealV2` and `ReceivedMessageForRecipient`, make of the payload, the
certificate and the keys recorded beside it (`SoundMessage`); an opening is the
answer of `DecryptToUSMCAndValidate` at its moment (`SoundOpening`).  The steps keep
this by construction of the messages (`IssuedSound`, `FormSound`, `SealedOneSound`,
`SealedManySound`).  The three properties are then facts about the functions:
opening undoes sealing exactly when the recipient's key is the one sealed for and
the sealer's key is the one the certificate names (`OpensV1`, `OpensV2`, `Opens`),
what is read is what was wrapped (`PlainReads`), and a certificate validates
exactly when it is complete, in force and vouched for (`CertificateRead`,
`CertificateValid`).

**The SPQR exchange.**  `EpochsInStep` and `NothingRefused` speak of the states and the
messages of one moment; that they hold in the next needs to know what was put into
the parts under way.  `ExchangeInv` names it: an epoch has one key pair `k` and one
encapsulation `m`, and every part that a state holds, sends or has collected, and
every chunk on the network of that epoch, is the part of `k` and `m` it should be
(`SendEkState`, `SendCtState`, `SendEkMessage`, `SendCtMessage`), with the MAC of the
authenticator both sides had at that point (`NextAuth`).  Its two cases are the two
of `EpochsInStep`: both in one epoch (`SameEpoch`), or the receiver of the ciphertext
one ahead (`OneAhead`).  The proof follows the eleven states: what each may send,
what each may receive from what is under way, and that a party which obtains the
secret of the epoch leaves behind only messages that the other ignores.  The
secrets a party has handed out are those of its peer, with at most one more, and
each names the randomness it was drawn with, so a new one differs from all before:
this is the refinement of `Cka`, with the raw secrets by epoch as `known`.  The
number of chunks a part needs never enters, only that it is at least one.

Only model-checked: the liveness properties, since temporal proofs under fairness
are out of the prover's reach; `CurrentSessionAccepts`, `CurrentIdentityKnown` and
`GroupAnswers`, which hold where the caps are out of reach or the hosts do not
interfere; `FanOutAgrees`, what `SpqrProperties` says of exchange, chain and
negotiation together; and everything about the erasure code and the written forms,
where what matters is what particular functions compute, much of it by recursion
over data.

## 5. Findings

* `replay`: README.md:201 says that "rejected messages leave all stores
  unchanged".  `DecryptPreKey` saves the identity before `MarkKyberPreKeyUsed` can
  refuse a replayed base key, so a refused replay can record the identity it
  names after the host had reset the known identities.

Met while modelling, in comments and plans only:

* docs/plans/2026-06-12-pure-go-libsignal.md:320 has `Decrypt` "try current+archived
  states clone-then-commit"; `session/cipher.go:196` tries the current one only.
  When both parties initiate at once, a reply on a session that the receiver has
  archived is refused although the archived state decrypts it.  `DecryptPreKey`
  does resume archived sessions.
* The comment at `session/builder.go:241` speaks of a minimum SPQR version V0; the
  code (line 284) asks for V1.
* The comment at `sealedsender/certs.go:281` says that a negative expiration, cast
  to the unsigned field, "deserializes as a far-future expiry"; the reader casts
  back to a signed number (line 218), so it would read as the past.  It is
  rejected before it is written, and the model follows both lines.
* `session/bundle.go:15` says that a bundle without a Kyber pre-key "is rejected at
  processing time (ErrNoKyberPreKey)"; `ProcessPreKeyBundle` never returns it.

## 6. Not modelled

* Curve, lattice and hash arithmetic, signatures and proofs of knowledge, AES:
  symbolic, since their correctness is about numbers far beyond TLC's reach and
  they have no state.  The GF(2^16) and POLYVAL arithmetic is modelled at a
  smaller width.
* Thin wrappers: HKDF calls with a label, `internal/crypto/aesgcm.go`, `kdf.go`.
* Bytes that are no protobuf at all: the decoders are generated code and the Go
  library's.
* Calls that the host does not serialize, which README.md:201 excludes.
* In `Session`: invalid signatures on bundles, rotation of signed and Kyber
  pre-keys within an installation, a session to one's own identity, epochs of
  the SPQR chain (they are in `Spqr`).
* Reports on the port (`svr`, `svrb`, `messagebackup`, `compat`, `proofreport`,
  `internal/upstream`) and generated code: no behaviour to check.
