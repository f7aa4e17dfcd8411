------------------------------- MODULE Auth -------------------------------
(***************************************************************************)
(* The authentication state of src/src/runtime_macro_auth.c: credential,   *)
(* challenge, session window, failure cooldown, and the credential's copy  *)
(* in persistent settings.  Every operation that holds                     *)
(* runtime_macro_auth_mutex from its first read to its last write is one   *)
(* step; set_credential and settings_set, which release it, are several.   *)
(* Time is counted in seconds.                                             *)
(***************************************************************************)
EXTENDS Integers

CONSTANTS
    Callers,           \* threads that may call set_credential
    Credentials,       \* valid credentials
    NoCredential,      \* no credential: the zeroed struct, or no stored key
    Malformed,         \* a stored value that does not decode to a credential
    ChallengeTimeout,  \* CONFIG_ZMK_RUNTIME_MACRO_AUTH_CHALLENGE_TIMEOUT
    SessionTimeout,    \* CONFIG_ZMK_RUNTIME_MACRO_AUTH_SESSION_TIMEOUT
    FailureCountMax,   \* RUNTIME_MACRO_AUTH_FAILURE_COUNT_MAX
    CooldownMax,       \* RUNTIME_MACRO_AUTH_COOLDOWN_MAX_SECONDS
    MaxTime,           \* bound on the uptime of one boot
    MaxNonces,         \* bound on the challenges ever issued
    MaxLoads           \* bound on the settings_set calls of one boot

ASSUME CredentialAssumption ==
    /\ NoCredential \notin Credentials
    /\ Malformed \notin Credentials
    /\ NoCredential # Malformed

ASSUME TimingAssumption ==
    /\ ChallengeTimeout \in Nat \ {0}
    /\ SessionTimeout \in Nat \ {0}
    /\ FailureCountMax \in Nat \ {0}
    /\ CooldownMax \in Nat \ {0}

\* The code's shift of one by at most FailureCountMax - 1 places.
ASSUME ShiftAssumption == \A n \in 1..FailureCountMax : 2^(n - 1) \in Nat \ {0}

ASSUME BoundAssumption == MaxTime \in Nat /\ MaxNonces \in Nat /\ MaxLoads \in Nat

VARIABLES
    auth,        \* struct runtime_macro_auth_state_data
    seen,        \* runtime_macro_auth_settings_seen
    invalid,     \* runtime_macro_auth_settings_invalid
    generation,  \* runtime_macro_auth_settings_generation
    pc,          \* where each caller of set_credential is
    requested,   \* its requested_credential
    loader,      \* the settings_load in progress: its step, generation and value
    booted,      \* the boot-time settings_load has committed
    stored,      \* the value under "runtime_macro/auth/credential"
    now,         \* k_uptime_get(), in seconds
    ghost        \* history the properties compare with; no action reads it

vars == <<auth, seen, invalid, generation, pc, requested, loader, booted, stored, now, ghost>>

(***************************************************************************)
(* ghost.issued: challenges issued so far (the nonce of each is its        *)
(* number).  ghost.spent: the newest nonce that may never verify again.    *)
(* ghost.issuedAt: when the newest was issued.  ghost.failedAt: when the   *)
(* last failure was recorded.  ghost.provenKey: the credential the last    *)
(* accepted proof was computed with.                                       *)
(***************************************************************************)

NoNonce == 0
Idle == "idle"

Zeroed == [state |-> "OPEN", credential |-> NoCredential,
           session |-> FALSE, sessionDeadline |-> 0,
           challenge |-> NoNonce, challengeDeadline |-> 0,
           failures |-> 0, cooldownDeadline |-> 0]

NotLoading == [step |-> Idle, generation |-> 0, value |-> NoCredential]

---------------------------------------------------------------------------
(* The static helpers, as functions from one value of the struct to the next. *)

ClearChallenge(a) == [a EXCEPT !.challenge = NoNonce, !.challengeDeadline = 0]

ClearSession(a) == [a EXCEPT !.session = FALSE, !.sessionDeadline = 0]

ClearFailure(a) == [a EXCEPT !.failures = 0, !.cooldownDeadline = 0]

ClearTransient(a, clearFailure) ==
    LET cleared == ClearChallenge(ClearSession(a))
    IN  IF clearFailure THEN ClearFailure(cleared) ELSE cleared

SetError(a) ==
    ClearTransient([a EXCEPT !.state = "ERROR_LOCKED", !.credential = NoCredential], TRUE)

Expire(a, t) ==
    IF a.session /\ t >= a.sessionDeadline THEN ClearChallenge(ClearSession(a)) ELSE a

CooldownActive(a, t) == a.failures # 0 /\ t < a.cooldownDeadline

Cooldown(n) == IF 2^(n - 1) > CooldownMax THEN CooldownMax ELSE 2^(n - 1)

\* Wrong variant of RecordFailure: the count is not capped.
UncappedFailure(a, t) ==
    [a EXCEPT !.failures = a.failures + 1, !.cooldownDeadline = t + Cooldown(a.failures + 1)]

RecordFailure(a, t) ==
    LET n == IF a.failures < FailureCountMax THEN a.failures + 1 ELSE a.failures
    IN  [a EXCEPT !.failures = n, !.cooldownDeadline = t + Cooldown(n)]

\* Wrong variant of Install: the open session survives the new credential.
InstallKeepsSession(a, c) ==
    ClearFailure(ClearChallenge([a EXCEPT !.state = "PROTECTED", !.credential = c]))

Install(a, c) ==
    ClearTransient([a EXCEPT !.state = "PROTECTED", !.credential = c], TRUE)

HMAC(key, nonce) == <<key, nonce>>

Current == Expire(auth, now)

\* Everything issued so far is dead for good.
AllSpent == [ghost EXCEPT !.spent = ghost.issued]

---------------------------------------------------------------------------
Init ==
    /\ auth = Zeroed
    /\ seen = FALSE /\ invalid = FALSE /\ generation = 0
    /\ pc = [c \in Callers |-> Idle]
    /\ requested = [c \in Callers |-> NoCredential]
    /\ loader = NotLoading
    /\ booted = FALSE
    /\ stored \in Credentials \cup {NoCredential, Malformed}
    /\ now = 0
    /\ ghost = [issued |-> 0, spent |-> 0, issuedAt |-> 0, failedAt |-> 0,
                provenKey |-> NoCredential]

Tick ==
    /\ now < MaxTime
    /\ now' = now + 1
    /\ UNCHANGED <<auth, seen, invalid, generation, pc, requested, loader, booted, stored, ghost>>

---------------------------------------------------------------------------
(* Operations that read and write the struct in one critical section. *)

StructOnly == UNCHANGED <<seen, invalid, generation, pc, requested, loader, booted, stored, now>>

\* get_state, get_info, is_authenticated: what they return is read off auth'.
Observe ==
    /\ booted
    /\ auth' = Current
    /\ UNCHANGED ghost
    /\ StructOnly

Authenticated(a) == a.state = "PROTECTED" /\ a.session

RefreshSession ==
    /\ booted
    /\ auth' = IF Authenticated(Current)
                 THEN [Current EXCEPT !.sessionDeadline = now + SessionTimeout]
                 ELSE Current
    /\ UNCHANGED ghost
    /\ StructOnly

\* Wrong variant of ChallengeAllowed: the cooldown is not consulted.
IgnoresCooldown(a, t) == a.state = "PROTECTED"

ChallengeAllowed(a, t) == a.state = "PROTECTED" /\ ~CooldownActive(a, t)

ChallengeRefused ==
    /\ booted
    /\ ~ChallengeAllowed(Current, now)
    /\ auth' = Current
    /\ UNCHANGED ghost
    /\ StructOnly

ChallengeRngFailed ==
    /\ booted
    /\ ChallengeAllowed(Current, now)
    /\ auth' = ClearChallenge(Current)
    /\ ghost' = AllSpent
    /\ StructOnly

ChallengeIssued ==
    /\ booted
    /\ ghost.issued < MaxNonces
    /\ ChallengeAllowed(Current, now)
    /\ auth' = [ClearChallenge(Current) EXCEPT
                  !.challenge = ghost.issued + 1,
                  !.challengeDeadline = now + ChallengeTimeout]
    /\ ghost' = [AllSpent EXCEPT !.issued = ghost.issued + 1, !.issuedAt = now]
    /\ StructOnly

---------------------------------------------------------------------------
(* verify_proof. *)

Verifiable(a, t) ==
    /\ a.state = "PROTECTED"
    /\ a.challenge # NoNonce
    /\ t < a.challengeDeadline

\* Wrong variant of Consumed: the challenge survives the attempt.
KeepsChallenge(a) == ClearSession(a)

\* The challenge is consumed and the session closed before the HMAC is computed.
Consumed(a) == ClearSession(ClearChallenge(a))

VerifyRefused ==
    /\ booted
    /\ ~Verifiable(Current, now)
    /\ auth' = IF Current.state = "PROTECTED" THEN ClearChallenge(Current) ELSE Current
    /\ UNCHANGED ghost
    /\ StructOnly

VerifyHmacFailed ==
    /\ booted
    /\ Verifiable(Current, now)
    /\ auth' = Consumed(Current)
    /\ ghost' = AllSpent
    /\ StructOnly

ProofRejected(proof) ==
    /\ booted
    /\ Verifiable(Current, now)
    /\ proof # HMAC(Current.credential, Current.challenge)
    /\ auth' = RecordFailure(Consumed(Current), now)
    /\ ghost' = [AllSpent EXCEPT !.failedAt = now]
    /\ StructOnly

ProofAccepted(proof) ==
    /\ booted
    /\ Verifiable(Current, now)
    /\ proof = HMAC(Current.credential, Current.challenge)
    /\ auth' = ClearFailure([Consumed(Current) EXCEPT
                  !.session = TRUE, !.sessionDeadline = now + SessionTimeout])
    /\ ghost' = [AllSpent EXCEPT !.provenKey = proof[1]]
    /\ StructOnly

VerifyProof ==
    \/ VerifyRefused
    \/ VerifyHmacFailed
    \/ \E key \in Credentials, nonce \in 1..ghost.issued :
          \/ ProofRejected(HMAC(key, nonce))
          \/ ProofAccepted(HMAC(key, nonce))

---------------------------------------------------------------------------
\* LOCK keeps the failure count and its cooldown.
Lock ==
    /\ booted
    /\ auth' = ClearTransient(auth, FALSE)
    /\ ghost' = AllSpent
    /\ StructOnly

TransportReset ==
    /\ booted
    /\ auth' = ClearTransient(auth, TRUE)
    /\ ghost' = AllSpent
    /\ StructOnly

---------------------------------------------------------------------------
(* set_credential: check, save, apply, under runtime_macro_auth_update_mutex. *)

\* Wrong variant of UpdateMutexFree: updates are not serialised.
NoUpdateMutex == TRUE

UpdateMutexFree == \A c \in Callers : pc[c] = Idle

\* Wrong variant of MaySetCredential: no session is asked for.
SessionNotAsked(a) == a.state # "ERROR_LOCKED"

MaySetCredential(a) == a.state = "OPEN" \/ Authenticated(a)

SetCredentialCheck(c, credential) ==
    /\ booted
    /\ UpdateMutexFree
    /\ auth' = Current
    /\ IF MaySetCredential(Current)
         THEN /\ pc' = [pc EXCEPT ![c] = "save"]
              /\ requested' = [requested EXCEPT ![c] = credential]
         ELSE UNCHANGED <<pc, requested>>
    /\ UNCHANGED <<seen, invalid, generation, loader, booted, stored, now, ghost>>

Returned(c) ==
    /\ pc' = [pc EXCEPT ![c] = Idle]
    /\ requested' = [requested EXCEPT ![c] = NoCredential]

SetCredentialSave(c) ==
    /\ pc[c] = "save"
    /\ stored' = requested[c]
    /\ pc' = [pc EXCEPT ![c] = "apply"]
    /\ UNCHANGED <<auth, seen, invalid, generation, requested, loader, booted, now, ghost>>

SetCredentialSaveFailed(c) ==
    /\ pc[c] = "save"
    /\ Returned(c)
    /\ UNCHANGED <<auth, seen, invalid, generation, loader, booted, stored, now, ghost>>

SetCredentialApply(c) ==
    /\ pc[c] = "apply"
    /\ auth' = Install(auth, requested[c])
    /\ seen' = TRUE
    /\ invalid' = FALSE
    /\ ghost' = AllSpent
    /\ Returned(c)
    /\ UNCHANGED <<generation, loader, booted, stored, now>>

SetCredential(c) ==
    \/ \E credential \in Credentials : SetCredentialCheck(c, credential)
    \/ SetCredentialSave(c)
    \/ SetCredentialSaveFailed(c)
    \/ SetCredentialApply(c)

---------------------------------------------------------------------------
(* settings_load: settings_set for the stored key, if there is one, and then *)
(* settings_commit.  At boot no protocol request runs before the commit; a   *)
(* later load runs beside everything else.                                   *)

\* First critical section: fail closed until the value has been read.
LoadBegin ==
    /\ loader.step = Idle
    /\ stored # NoCredential
    /\ generation < MaxLoads
    /\ auth' = SetError(auth)
    /\ seen' = TRUE
    /\ invalid' = TRUE
    /\ generation' = generation + 1
    /\ loader' = [NotLoading EXCEPT
                    !.step = IF seen THEN "commit" ELSE "read",
                    !.generation = generation + 1]
    /\ ghost' = AllSpent
    /\ UNCHANGED <<pc, requested, booted, stored, now>>

LoadRead ==
    /\ loader.step = "read"
    /\ loader' = IF stored \in Credentials
                   THEN [loader EXCEPT !.step = "apply", !.value = stored]
                   ELSE [loader EXCEPT !.step = "commit"]
    /\ UNCHANGED <<auth, seen, invalid, generation, pc, requested, booted, stored, now, ghost>>

LoadReadFailed ==
    /\ loader.step = "read"
    /\ loader' = [loader EXCEPT !.step = "commit"]
    /\ UNCHANGED <<auth, seen, invalid, generation, pc, requested, booted, stored, now, ghost>>

LoadStillWanted == generation = loader.generation /\ invalid

LoadApply ==
    /\ loader.step = "apply"
    /\ IF LoadStillWanted
         THEN /\ auth' = Install(auth, loader.value)
              /\ invalid' = FALSE
              /\ ghost' = AllSpent
         ELSE UNCHANGED <<auth, invalid, ghost>>
    /\ loader' = [loader EXCEPT !.step = "commit"]
    /\ UNCHANGED <<seen, generation, pc, requested, booted, stored, now>>

\* Wrong variant of NothingSeen: a credential that could not be used counts as none.
NothingUsable == ~seen \/ invalid

NothingSeen == ~seen

\* Without a stored key, settings_load comes here directly.
LoadCommit ==
    /\ \/ loader.step = "commit"
       \/ loader.step = Idle /\ stored = NoCredential
    /\ auth' = IF NothingSeen
                 THEN ClearTransient([auth EXCEPT !.state = "OPEN",
                                                  !.credential = NoCredential], TRUE)
                 ELSE IF invalid THEN SetError(auth) ELSE auth
    /\ ghost' = IF seen /\ ~invalid THEN ghost ELSE AllSpent
    /\ loader' = NotLoading
    /\ booted' = TRUE
    /\ UNCHANGED <<seen, invalid, generation, pc, requested, stored, now>>

SettingsLoad == LoadBegin \/ LoadRead \/ LoadReadFailed \/ LoadApply \/ LoadCommit

---------------------------------------------------------------------------
\* Power loss at any point: RAM is lost, the stored value is not.
Reboot ==
    /\ auth' = Zeroed
    /\ seen' = FALSE /\ invalid' = FALSE /\ generation' = 0
    /\ pc' = [c \in Callers |-> Idle]
    /\ requested' = [c \in Callers |-> NoCredential]
    /\ loader' = NotLoading
    /\ booted' = FALSE
    /\ now' = 0
    /\ ghost' = [AllSpent EXCEPT !.issuedAt = 0, !.failedAt = 0, !.provenKey = NoCredential]
    /\ UNCHANGED stored

Next ==
    \/ Tick
    \/ Observe
    \/ RefreshSession
    \/ ChallengeRefused \/ ChallengeRngFailed \/ ChallengeIssued
    \/ VerifyProof
    \/ Lock
    \/ TransportReset
    \/ \E c \in Callers : SetCredential(c)
    \/ SettingsLoad
    \/ Reboot

Spec == Init /\ [][Next]_vars

---------------------------------------------------------------------------
AuthType == [state : {"OPEN", "PROTECTED", "ERROR_LOCKED"},
             credential : Credentials \cup {NoCredential},
             session : BOOLEAN, sessionDeadline : Nat,
             challenge : Nat, challengeDeadline : Nat,
             failures : 0..FailureCountMax, cooldownDeadline : Nat]

GhostType == [issued : Nat, spent : Nat, issuedAt : Nat, failedAt : Nat,
              provenKey : Credentials \cup {NoCredential}]

TypeOK ==
    /\ auth \in AuthType
    /\ seen \in BOOLEAN /\ invalid \in BOOLEAN /\ generation \in Nat
    /\ pc \in [Callers -> {Idle, "save", "apply"}]
    /\ requested \in [Callers -> Credentials \cup {NoCredential}]
    /\ loader \in [step : {Idle, "read", "apply", "commit"}, generation : Nat,
                   value : Credentials \cup {NoCredential}]
    /\ booted \in BOOLEAN
    /\ stored \in Credentials \cup {NoCredential, Malformed}
    /\ now \in Nat
    /\ ghost \in GhostType

\* A nonce is good for one attempt: the only challenge the device holds is the newest one it
\* handed out, and since then nobody has offered a proof, failed to draw a newer nonce, locked,
\* reset the transport, replaced or reloaded the credential, or rebooted.
OneShotChallenge ==
    auth.challenge # NoNonce => auth.challenge = ghost.issued /\ ghost.spent < ghost.issued

\* A session never outlives the credential it was opened with: while one is open the device is
\* PROTECTED, nothing is being reloaded, and the proof that opened it used today's credential.
SessionProvesCredential ==
    auth.session => /\ auth.state = "PROTECTED"
                    /\ ghost.provenKey = auth.credential

\* Guesses are rate limited whatever is interleaved with them: a wrong proof is evaluated only
\* when no failure is on record (a success, a transport reset, a new credential or a load cleared
\* it) or the cooldown that the recorded failures call for has passed since the last of them.
FailureSpacing ==
    [][ (\E key \in Credentials, nonce \in 1..ghost.issued : ProofRejected(HMAC(key, nonce)))
          => auth.failures = 0 \/ now >= ghost.failedAt + Cooldown(auth.failures) ]_vars

\* A caller between its save and its apply.
Applying == \E c \in Callers : pc[c] = "apply"

\* Memory agrees with settings outside the window between a save and its apply: a PROTECTED
\* device checks proofs against the stored credential, and an OPEN one has none stored.  A
\* reboot inside the window therefore comes back with the new credential, never without one.
StorageAgrees ==
    booted /\ ~Applying =>
        /\ auth.state = "PROTECTED" => auth.credential = stored
        /\ auth.state = "OPEN" => stored = NoCredential

\* Protection is never lifted by anything but a reboot: no load, however it fails and whatever
\* runs beside it, and no protocol operation takes PROTECTED or ERROR_LOCKED to OPEN.
NeverReopens ==
    [][ auth.state # "OPEN" /\ auth'.state = "OPEN" => ~booted' ]_vars

\* The set_credential between its check and its return; there is never more than one.
UpdateInProgress ==
    IF UpdateMutexFree THEN [stage |-> "none", credential |-> NoCredential]
    ELSE LET c == CHOOSE c \in Callers : pc[c] # Idle
         IN  [stage |-> pc[c], credential |-> requested[c]]

Gate == INSTANCE AuthGate WITH
    state <- auth.state, session <- auth.session, credential <- auth.credential,
    update <- UpdateInProgress

\* All the protocol may rely on: with every challenge, deadline, load and update interleaved,
\* a session opens only on a PROTECTED device, a credential is replaced only after its update
\* was authorised, stored and serialised with the others, a load fails closed and unlocks only
\* to what was stored, and a device without RAM is OPEN only if nothing is stored.
ImplementsGate == Gate!Spec

=============================================================================
