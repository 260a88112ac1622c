---------------------------- MODULE SessionRecord ----------------------------
(***************************************************************************)
(* The persisted unit for a peer, session/record.go: the current session   *)
(* and the archived ones, newest first; and the search of                  *)
(* session/prekey_decrypt.go for the session of a pre-key message.         *)
(***************************************************************************)
EXTENDS SessionState

CONSTANT ArchivedStatesMaxLength      \* 40 in the code

ASSUME ArchiveAssumption == ArchivedStatesMaxLength \in Nat \ {0}

\* Also what an absent record reads as: every record that was ever stored has a
\* current or an archived session.
NewFreshSessionRecord == [current |-> Nil, previous |-> <<>>]

\* The oldest entry makes room when the archive is full.  An archived session
\* carries no pending pre-key message.
ArchiveCurrentState(r) ==
    LET room == IF Len(r.previous) >= ArchivedStatesMaxLength
                THEN SubSeq(r.previous, 1, Len(r.previous) - 1)
                ELSE r.previous
    IN  IF r.current = Nil
        THEN r
        ELSE [current  |-> Nil,
              previous |-> <<ClearUnacknowledgedPreKeyMessage(r.current)>> \o room]

\* SetCurrentState, and a mutant that forgets the decrypted state.
SetCurrentStateForgotten(r, st) == r
SetCurrentState(r, st) == [r EXCEPT !.current = st]

\* Mutant: a session that already stands stays the current one.
PromoteStateBehind(r, st) ==
    IF r.current = Nil THEN [r EXCEPT !.current = st]
    ELSE [r EXCEPT !.previous = <<st>> \o @]

PromoteState(r, st) == [ArchiveCurrentState(r) EXCEPT !.current = st]

PromoteOldSession(r, i) ==
    PromoteState([r EXCEPT !.previous = Without(@, i)], r.previous[i])

\* promoteMatchingPreKeySession: the current session when it has the base key,
\* else the newest archived one that has.
promoteMatchingPreKeySession(r, base) ==
    LET found == {i \in 1 .. Len(r.previous) : r.previous[i].base = base}
    IN  CASE r.current # Nil /\ r.current.base = base ->
                 [matched |-> TRUE, r |-> r]
          [] ~(r.current # Nil /\ r.current.base = base) /\ found # {} ->
                 [matched |-> TRUE,
                  r |-> PromoteOldSession(r, CHOOSE i \in found : \A j \in found : i <= j)]
          [] OTHER ->
                 [matched |-> FALSE, r |-> r]

=============================================================================
