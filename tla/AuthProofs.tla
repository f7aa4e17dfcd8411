---------------------------- MODULE AuthProofs ----------------------------
(***************************************************************************)
(* Proofs, for every number of callers and credentials and every timeout,  *)
(* of the safety properties of Auth, and that it implements AuthGate.      *)
(***************************************************************************)
EXTENDS Auth, TLAPS

\* The three flags of the settings loader determine the state.
StateByFlags ==
    /\ invalid => seen
    /\ auth.state = "OPEN" <=> ~seen
    /\ auth.state = "ERROR_LOCKED" <=> invalid
    /\ loader.step # Idle => seen

\* At most one caller is past its check, nobody is before the boot-time commit, and what a
\* caller is about to apply is what it saved.
OneUpdater ==
    /\ ~booted => \A c \in Callers : pc[c] = Idle
    /\ \A c, d \in Callers : pc[c] # Idle /\ pc[d] # Idle => c = d
    /\ \A c \in Callers : pc[c] # Idle => requested[c] \in Credentials
    /\ \A c \in Callers : pc[c] = "apply" => stored = requested[c]

\* A load that may still install its value has read the value that is stored.
LoadIsCurrent ==
    /\ loader.step \in {"read", "apply"} /\ invalid => \A c \in Callers : pc[c] # "save"
    /\ loader.step = "apply" /\ invalid => loader.value = stored
    /\ loader.step = "apply" => loader.value \in Credentials

\* StorageAgrees without its assumption that the device has booted.
MemoryIsStored ==
    /\ auth.state = "PROTECTED" /\ ~Applying => auth.credential = stored
    /\ booted /\ ~seen /\ ~Applying => stored = NoCredential

\* The cooldown on record is the one the last failure started, and no challenge lives in it.
CooldownRecorded ==
    auth.failures # 0 =>
        /\ auth.cooldownDeadline = ghost.failedAt + Cooldown(auth.failures)
        /\ now < auth.cooldownDeadline => auth.challenge = NoNonce

SpentIssued == ghost.spent <= ghost.issued

IInv ==
    /\ TypeOK
    /\ StateByFlags
    /\ OneUpdater
    /\ LoadIsCurrent
    /\ MemoryIsStored
    /\ SessionProvesCredential
    /\ OneShotChallenge
    /\ SpentIssued
    /\ CooldownRecorded

---------------------------------------------------------------------------
(* What the helpers return. *)

LEMMA CooldownType ==
    ASSUME NEW n \in 1..FailureCountMax
    PROVE  Cooldown(n) \in Nat
BY TimingAssumption, ShiftAssumption DEF Cooldown

LEMMA ClearTransientFields ==
    ASSUME NEW a \in AuthType, NEW clear \in BOOLEAN
    PROVE  /\ ClearTransient(a, clear) \in AuthType
           /\ ClearTransient(a, clear).state = a.state
           /\ ClearTransient(a, clear).credential = a.credential
           /\ ~ClearTransient(a, clear).session
           /\ ClearTransient(a, clear).challenge = NoNonce
           /\ IF clear THEN ClearTransient(a, clear).failures = 0
              ELSE /\ ClearTransient(a, clear).failures = a.failures
                   /\ ClearTransient(a, clear).cooldownDeadline = a.cooldownDeadline
<1> DEFINE b == ClearSession(a)
           c == ClearChallenge(b)
<1>1. /\ b \in AuthType /\ ~b.session
      /\ b.state = a.state /\ b.credential = a.credential
      /\ b.failures = a.failures /\ b.cooldownDeadline = a.cooldownDeadline
  BY DEF AuthType, ClearSession
<1> HIDE DEF b
<1>2. /\ c \in AuthType /\ ~c.session /\ c.challenge = NoNonce
      /\ c.state = a.state /\ c.credential = a.credential
      /\ c.failures = a.failures /\ c.cooldownDeadline = a.cooldownDeadline
  BY <1>1 DEF AuthType, ClearChallenge, NoNonce
<1>3. ClearTransient(a, clear) = IF clear THEN ClearFailure(c) ELSE c
  BY DEF ClearTransient, b
<1> HIDE DEF c
<1>z. 0 \in 0..FailureCountMax
  BY TimingAssumption
<1>4. /\ ClearFailure(c) \in AuthType /\ ~ClearFailure(c).session
      /\ ClearFailure(c).challenge = NoNonce /\ ClearFailure(c).failures = 0
      /\ ClearFailure(c).state = a.state /\ ClearFailure(c).credential = a.credential
  BY <1>2, <1>z DEF AuthType, ClearFailure
<1> QED BY <1>2, <1>3, <1>4

LEMMA SetErrorFields ==
    ASSUME NEW a \in AuthType
    PROVE  /\ SetError(a) \in AuthType
           /\ SetError(a).state = "ERROR_LOCKED"
           /\ SetError(a).credential = NoCredential
           /\ ~SetError(a).session
           /\ SetError(a).challenge = NoNonce
           /\ SetError(a).failures = 0
<1> DEFINE b == [a EXCEPT !.state = "ERROR_LOCKED", !.credential = NoCredential]
<1>1. b \in AuthType /\ b.state = "ERROR_LOCKED" /\ b.credential = NoCredential
  BY DEF AuthType
<1> QED BY <1>1, ClearTransientFields DEF SetError

LEMMA InstallFields ==
    ASSUME NEW a \in AuthType, NEW c \in Credentials
    PROVE  /\ Install(a, c) \in AuthType
           /\ Install(a, c).state = "PROTECTED"
           /\ Install(a, c).credential = c
           /\ ~Install(a, c).session
           /\ Install(a, c).challenge = NoNonce
           /\ Install(a, c).failures = 0
<1> DEFINE b == [a EXCEPT !.state = "PROTECTED", !.credential = c]
<1>1. b \in AuthType /\ b.state = "PROTECTED" /\ b.credential = c
  BY DEF AuthType
<1> QED BY <1>1, ClearTransientFields DEF Install

\* Expiry touches the session and the challenge only, and only to close them.
LEMMA ExpireFields ==
    ASSUME NEW a \in AuthType, NEW t \in Nat
    PROVE  /\ Expire(a, t) \in AuthType
           /\ Expire(a, t).state = a.state
           /\ Expire(a, t).credential = a.credential
           /\ Expire(a, t).failures = a.failures
           /\ Expire(a, t).cooldownDeadline = a.cooldownDeadline
           /\ Expire(a, t).session => a.session
           /\ Expire(a, t).challenge \in {a.challenge, NoNonce}
BY DEF AuthType, Expire, ClearChallenge, ClearSession, NoNonce

LEMMA ConsumedFields ==
    ASSUME NEW a \in AuthType
    PROVE  /\ Consumed(a) \in AuthType
           /\ Consumed(a).state = a.state
           /\ Consumed(a).credential = a.credential
           /\ Consumed(a).failures = a.failures
           /\ Consumed(a).cooldownDeadline = a.cooldownDeadline
           /\ ~Consumed(a).session
           /\ Consumed(a).challenge = NoNonce
BY DEF AuthType, Consumed, ClearChallenge, ClearSession, NoNonce

LEMMA RecordFailureFields ==
    ASSUME NEW a \in AuthType, NEW t \in Nat
    PROVE  /\ RecordFailure(a, t) \in AuthType
           /\ RecordFailure(a, t).state = a.state
           /\ RecordFailure(a, t).credential = a.credential
           /\ RecordFailure(a, t).session = a.session
           /\ RecordFailure(a, t).challenge = a.challenge
           /\ RecordFailure(a, t).cooldownDeadline = t + Cooldown(RecordFailure(a, t).failures)
<1> DEFINE n == IF a.failures < FailureCountMax THEN a.failures + 1 ELSE a.failures
<1>1. n \in 1..FailureCountMax
  BY TimingAssumption DEF AuthType
<1>2. t + Cooldown(n) \in Nat
  BY <1>1, CooldownType
<1>3. RecordFailure(a, t) = [a EXCEPT !.failures = n, !.cooldownDeadline = t + Cooldown(n)]
  BY DEF RecordFailure
<1> HIDE DEF n
<1>4. n \in 0..FailureCountMax
  BY <1>1, TimingAssumption
<1>5. [a EXCEPT !.failures = n, !.cooldownDeadline = t + Cooldown(n)] \in AuthType
  BY <1>2, <1>4 DEF AuthType
<1> QED BY <1>3, <1>5 DEF AuthType

---------------------------------------------------------------------------
LEMMA InitIInv == Init => IInv
<1> SUFFICES ASSUME Init PROVE IInv
  OBVIOUS
<1> USE CredentialAssumption, TimingAssumption DEF Init
<1>a. auth \in AuthType
  BY DEF AuthType, Zeroed, NoNonce
<1>1. TypeOK
  BY <1>a DEF TypeOK, GhostType, NotLoading, Idle
<1>2. StateByFlags /\ OneUpdater /\ LoadIsCurrent
  BY DEF StateByFlags, OneUpdater, LoadIsCurrent, Zeroed, NotLoading, Idle
<1>3. MemoryIsStored /\ SessionProvesCredential /\ OneShotChallenge /\ SpentIssued
  BY DEF MemoryIsStored, SessionProvesCredential, OneShotChallenge, SpentIssued, Zeroed, NoNonce
<1>4. CooldownRecorded
  BY DEF CooldownRecorded, Zeroed
<1> QED BY <1>1, <1>2, <1>3, <1>4 DEF IInv

\* The steps that change nothing but the struct (and the history) preserve IInv when they keep
\* state and credential, never open a session, and treat challenge and cooldown as required.
LEMMA StructStep ==
    ASSUME IInv, StructOnly,
           auth' \in AuthType, ghost' \in GhostType,
           auth'.state = auth.state, auth'.credential = auth.credential,
           SessionProvesCredential', OneShotChallenge', SpentIssued', CooldownRecorded'
    PROVE  IInv'
<1>1. TypeOK'
  BY DEF IInv, TypeOK, StructOnly
<1>2. StateByFlags' /\ OneUpdater' /\ LoadIsCurrent' /\ MemoryIsStored'
  BY DEF IInv, StructOnly, StateByFlags, OneUpdater, LoadIsCurrent, MemoryIsStored, Applying
<1> QED BY <1>1, <1>2 DEF IInv

\* What IInv says of the struct survives expiry.
LEMMA CurrentFacts ==
    ASSUME IInv
    PROVE  /\ Current \in AuthType
           /\ Current.state = auth.state /\ Current.credential = auth.credential
           /\ Current.failures = auth.failures
           /\ Current.cooldownDeadline = auth.cooldownDeadline
           /\ Current.session => auth.session
           /\ Current.challenge \in {auth.challenge, NoNonce}
BY ExpireFields DEF IInv, TypeOK, Current

USE DEF NoNonce

LEMMA AllSpentFields ==
    ASSUME IInv
    PROVE  /\ AllSpent \in GhostType
           /\ AllSpent.spent = ghost.issued /\ AllSpent.issued = ghost.issued
           /\ AllSpent.failedAt = ghost.failedAt /\ AllSpent.provenKey = ghost.provenKey
BY DEF IInv, TypeOK, GhostType, AllSpent

LEMMA ReadOnlyStep ==
    ASSUME IInv, auth' = Current, UNCHANGED ghost, StructOnly
    PROVE  IInv'
<1>1. SessionProvesCredential' /\ OneShotChallenge' /\ SpentIssued' /\ CooldownRecorded'
  BY CurrentFacts DEF IInv, StructOnly, SessionProvesCredential, OneShotChallenge, SpentIssued,
     CooldownRecorded
<1> QED BY <1>1, CurrentFacts, StructStep DEF IInv, TypeOK

\* A step that leaves the device with neither session nor challenge and all nonces spent.
LEMMA ClosedStep ==
    ASSUME IInv, StructOnly, auth' \in AuthType,
           auth'.state = auth.state, auth'.credential = auth.credential,
           ~auth'.session, auth'.challenge = NoNonce,
           ghost' = AllSpent,
           \/ auth'.failures = 0
           \/ /\ auth'.failures = auth.failures
              /\ auth'.cooldownDeadline = auth.cooldownDeadline
    PROVE  IInv'
<1>1. /\ ghost' \in GhostType
      /\ ghost'.failedAt = ghost.failedAt
      /\ SpentIssued'
  BY DEF IInv, TypeOK, GhostType, AllSpent, SpentIssued
<1>2. SessionProvesCredential' /\ OneShotChallenge'
  BY DEF SessionProvesCredential, OneShotChallenge
<1>3. CooldownRecorded'
  BY <1>1 DEF IInv, StructOnly, CooldownRecorded
<1> QED BY <1>1, <1>2, <1>3, StructStep

\* The operations on the struct.
LEMMA StructActions ==
    ASSUME IInv,
           \/ Observe \/ RefreshSession
           \/ ChallengeRefused \/ ChallengeRngFailed \/ ChallengeIssued
           \/ VerifyProof \/ Lock \/ TransportReset
    PROVE  IInv'
<1> USE CurrentFacts, TimingAssumption
<1>1. CASE Observe
  BY <1>1, ReadOnlyStep DEF Observe
<1>2. CASE RefreshSession
  <2>1. CASE Authenticated(Current)
    <3>1. auth' = [Current EXCEPT !.sessionDeadline = now + SessionTimeout]
      BY <1>2, <2>1 DEF RefreshSession
    <3>2. now + SessionTimeout \in Nat
      BY DEF IInv, TypeOK
    <3>3. /\ auth' \in AuthType
          /\ auth'.state = auth.state /\ auth'.credential = auth.credential
          /\ auth'.session = Current.session /\ auth'.challenge = Current.challenge
          /\ auth'.failures = auth.failures /\ auth'.cooldownDeadline = auth.cooldownDeadline
      BY <3>1, <3>2 DEF AuthType
    <3>4. StructOnly /\ UNCHANGED ghost
      BY <1>2 DEF RefreshSession
    <3>5. SessionProvesCredential' /\ OneShotChallenge' /\ SpentIssued' /\ CooldownRecorded'
      BY <3>3, <3>4 DEF IInv, StructOnly, SessionProvesCredential, OneShotChallenge, SpentIssued,
         CooldownRecorded
    <3> QED BY <3>3, <3>4, <3>5, StructStep DEF IInv, TypeOK
  <2>2. CASE ~Authenticated(Current)
    BY <1>2, <2>2, ReadOnlyStep DEF RefreshSession
  <2> QED BY <2>1, <2>2
<1>3. CASE ChallengeRefused
  BY <1>3, ReadOnlyStep DEF ChallengeRefused
<1>4. CASE ChallengeRngFailed
  <2>1. auth' = ClearChallenge(Current)
    BY <1>4 DEF ChallengeRngFailed
  <2>2. /\ auth' \in AuthType
        /\ auth'.state = auth.state /\ auth'.credential = auth.credential
        /\ auth'.session = Current.session /\ auth'.challenge = NoNonce
        /\ auth'.failures = auth.failures /\ auth'.cooldownDeadline = auth.cooldownDeadline
    BY <2>1 DEF AuthType, ClearChallenge
  <2>3. /\ ghost' \in GhostType
        /\ ghost'.failedAt = ghost.failedAt /\ ghost'.provenKey = ghost.provenKey
        /\ SpentIssued' /\ StructOnly
    BY <1>4, AllSpentFields DEF ChallengeRngFailed, IInv, TypeOK, GhostType, SpentIssued
  <2>4. SessionProvesCredential' /\ OneShotChallenge' /\ CooldownRecorded'
    BY <2>2, <2>3 DEF IInv, StructOnly, SessionProvesCredential, OneShotChallenge, CooldownRecorded
  <2> QED BY <2>2, <2>3, <2>4, StructStep
<1>5. CASE ChallengeIssued
  <2>1. auth' = [ClearChallenge(Current) EXCEPT !.challenge = ghost.issued + 1,
                                                !.challengeDeadline = now + ChallengeTimeout]
    BY <1>5 DEF ChallengeIssued
  <2>2. ghost.issued + 1 \in Nat \ {0} /\ now + ChallengeTimeout \in Nat
    BY DEF IInv, TypeOK, GhostType
  <2>3. ClearChallenge(Current) \in AuthType
    BY DEF AuthType, ClearChallenge
  <2>4. /\ auth' \in AuthType
        /\ auth'.state = auth.state /\ auth'.credential = auth.credential
        /\ auth'.session = Current.session /\ auth'.challenge = ghost.issued + 1
        /\ auth'.failures = auth.failures /\ auth'.cooldownDeadline = auth.cooldownDeadline
    BY <2>1, <2>2, <2>3 DEF AuthType, ClearChallenge
  <2>5. ghost' = [AllSpent EXCEPT !.issued = ghost.issued + 1, !.issuedAt = now] /\ StructOnly
    BY <1>5 DEF ChallengeIssued
  <2>6. /\ ghost' \in GhostType
        /\ ghost'.issued = ghost.issued + 1 /\ ghost'.spent = ghost.issued
        /\ ghost'.failedAt = ghost.failedAt /\ ghost'.provenKey = ghost.provenKey
    BY <2>2, <2>5, AllSpentFields DEF IInv, TypeOK, GhostType
  <2>7. ~CooldownActive(Current, now)
    BY <1>5 DEF ChallengeIssued, ChallengeAllowed
  <2>8. SessionProvesCredential' /\ OneShotChallenge' /\ SpentIssued'
    BY <2>2, <2>4, <2>6 DEF IInv, TypeOK, GhostType, SessionProvesCredential, OneShotChallenge, SpentIssued
  <2>9. CooldownRecorded'
    BY <2>4, <2>5, <2>6, <2>7 DEF IInv, StructOnly, CooldownRecorded, CooldownActive
  <2> QED BY <2>4, <2>5, <2>6, <2>8, <2>9, StructStep
<1>6. CASE VerifyProof
  <2>1. CASE VerifyRefused
    <3>1. CASE Current.state = "PROTECTED"
      <4>1. auth' = ClearChallenge(Current) /\ UNCHANGED ghost /\ StructOnly
        BY <2>1, <3>1 DEF VerifyRefused
      <4>2. /\ auth' \in AuthType
            /\ auth'.state = auth.state /\ auth'.credential = auth.credential
            /\ auth'.session = Current.session /\ auth'.challenge = NoNonce
            /\ auth'.failures = auth.failures /\ auth'.cooldownDeadline = auth.cooldownDeadline
        BY <4>1 DEF AuthType, ClearChallenge
      <4>3. SessionProvesCredential' /\ OneShotChallenge' /\ SpentIssued' /\ CooldownRecorded'
        BY <4>1, <4>2 DEF IInv, StructOnly, SessionProvesCredential, OneShotChallenge, SpentIssued,
           CooldownRecorded
      <4> QED BY <4>1, <4>2, <4>3, StructStep DEF IInv, TypeOK
    <3>2. CASE Current.state # "PROTECTED"
      BY <2>1, <3>2, ReadOnlyStep DEF VerifyRefused
    <3> QED BY <3>1, <3>2
  <2>2. CASE VerifyHmacFailed
    BY <2>2, ConsumedFields, ClosedStep DEF VerifyHmacFailed
  <2>3. ASSUME NEW key \in Credentials, NEW nonce \in 1..ghost.issued,
               ProofRejected(HMAC(key, nonce))
        PROVE  IInv'
    <3>1. auth' = RecordFailure(Consumed(Current), now) /\ StructOnly
      BY <2>3 DEF ProofRejected
    <3>2. ghost' = [AllSpent EXCEPT !.failedAt = now]
      BY <2>3 DEF ProofRejected
    <3>3. /\ ghost' \in GhostType
          /\ ghost'.failedAt = now /\ SpentIssued'
      BY <3>2, AllSpentFields DEF IInv, TypeOK, GhostType, SpentIssued
    <3>4. now \in Nat
      BY DEF IInv, TypeOK
    <3>5. /\ auth' \in AuthType
          /\ auth'.state = auth.state /\ auth'.credential = auth.credential
          /\ ~auth'.session /\ auth'.challenge = NoNonce
          /\ auth'.cooldownDeadline = now + Cooldown(auth'.failures)
      <4>1. Consumed(Current) \in AuthType
        BY ConsumedFields
      <4>2. /\ auth' \in AuthType
            /\ auth'.state = Consumed(Current).state
            /\ auth'.credential = Consumed(Current).credential
            /\ auth'.session = Consumed(Current).session
            /\ auth'.challenge = Consumed(Current).challenge
            /\ auth'.cooldownDeadline = now + Cooldown(auth'.failures)
        BY <3>1, <3>4, <4>1, RecordFailureFields
      <4> QED BY <4>2, ConsumedFields
    <3>6. SessionProvesCredential' /\ OneShotChallenge' /\ CooldownRecorded'
      BY <3>1, <3>3, <3>5 DEF SessionProvesCredential, OneShotChallenge, CooldownRecorded, StructOnly
    <3> QED BY <3>1, <3>3, <3>5, <3>6, StructStep
  <2>4. ASSUME NEW key \in Credentials, NEW nonce \in 1..ghost.issued,
               ProofAccepted(HMAC(key, nonce))
        PROVE  IInv'
    <3> DEFINE opened == [Consumed(Current) EXCEPT !.session = TRUE,
                                                   !.sessionDeadline = now + SessionTimeout]
    <3>1. auth' = ClearFailure(opened) /\ StructOnly
      BY <2>4 DEF ProofAccepted
    <3>2. ghost' = [AllSpent EXCEPT !.provenKey = key]
      BY <2>4 DEF ProofAccepted, HMAC
    <3>3. key = auth.credential /\ auth.state = "PROTECTED"
      BY <2>4 DEF ProofAccepted, HMAC, Verifiable
    <3>4. /\ ghost' \in GhostType
          /\ ghost'.provenKey = key /\ SpentIssued'
      BY <3>2, AllSpentFields DEF IInv, TypeOK, GhostType, SpentIssued
    <3>5. now + SessionTimeout \in Nat /\ 0 \in 0..FailureCountMax
      BY DEF IInv, TypeOK
    <3>6. /\ opened \in AuthType
          /\ opened.state = auth.state /\ opened.credential = auth.credential
          /\ opened.challenge = NoNonce
      BY <3>5, ConsumedFields DEF AuthType
    <3> HIDE DEF opened
    <3>7. /\ auth' \in AuthType
          /\ auth'.state = auth.state /\ auth'.credential = auth.credential
          /\ auth'.challenge = NoNonce /\ auth'.failures = 0
      BY <3>1, <3>5, <3>6 DEF AuthType, ClearFailure
    <3>8. SessionProvesCredential' /\ OneShotChallenge' /\ CooldownRecorded'
      BY <3>3, <3>4, <3>7 DEF SessionProvesCredential, OneShotChallenge, CooldownRecorded
    <3> QED BY <3>1, <3>4, <3>7, <3>8, StructStep
  <2> QED BY <1>6, <2>1, <2>2, <2>3, <2>4 DEF VerifyProof
<1>7. CASE Lock
  BY <1>7, ClearTransientFields, ClosedStep DEF Lock, IInv, TypeOK
<1>8. CASE TransportReset
  BY <1>8, ClearTransientFields, ClosedStep DEF TransportReset, IInv, TypeOK
<1> QED BY <1>1, <1>2, <1>3, <1>4, <1>5, <1>6, <1>7, <1>8

---------------------------------------------------------------------------
LEMMA TickStep ==
    ASSUME IInv, Tick
    PROVE  IInv'
<1>1. TypeOK'
  BY DEF Tick, IInv, TypeOK
<1>2. StateByFlags' /\ OneUpdater' /\ LoadIsCurrent' /\ MemoryIsStored'
  BY DEF Tick, IInv, StateByFlags, OneUpdater, LoadIsCurrent, MemoryIsStored, Applying
<1>3. SessionProvesCredential' /\ OneShotChallenge' /\ SpentIssued'
  BY DEF Tick, IInv, SessionProvesCredential, OneShotChallenge, SpentIssued
<1>4. now \in Nat /\ auth.cooldownDeadline \in Nat
  BY DEF IInv, TypeOK, AuthType
<1>5. CooldownRecorded'
  BY <1>4 DEF Tick, IInv, CooldownRecorded
<1> QED BY <1>1, <1>2, <1>3, <1>5 DEF IInv

\* set_credential and settings_load change the struct to one of these forms.
LEMMA ChallengeFree ==
    ASSUME IInv, ghost' = AllSpent, auth' \in AuthType,
           ~auth'.session, auth'.challenge = NoNonce, auth'.failures = 0
    PROVE  /\ ghost' \in GhostType
           /\ SessionProvesCredential' /\ OneShotChallenge' /\ SpentIssued' /\ CooldownRecorded'
BY AllSpentFields DEF SessionProvesCredential, OneShotChallenge, SpentIssued, CooldownRecorded,
   IInv, TypeOK, GhostType

LEMMA SameStruct ==
    ASSUME IInv, UNCHANGED <<auth, ghost, now>>
    PROVE  /\ SessionProvesCredential' /\ OneShotChallenge' /\ SpentIssued' /\ CooldownRecorded'
           /\ auth' \in AuthType /\ ghost' \in GhostType
BY DEF SessionProvesCredential, OneShotChallenge, SpentIssued, CooldownRecorded, IInv, TypeOK

LEMMA SetCredentialStep ==
    ASSUME IInv, NEW c \in Callers, SetCredential(c)
    PROVE  IInv'
<1> USE DEF Idle
<1>1. ASSUME NEW k \in Credentials, SetCredentialCheck(c, k)
      PROVE  IInv'
  <2>1. auth' = Current /\ UNCHANGED <<seen, invalid, generation, loader, booted, stored, now, ghost>>
    BY <1>1 DEF SetCredentialCheck
  <2>2. SessionProvesCredential' /\ OneShotChallenge' /\ SpentIssued' /\ CooldownRecorded'
    BY <2>1, CurrentFacts DEF IInv, SessionProvesCredential, OneShotChallenge, SpentIssued,
       CooldownRecorded
  <2>3. CASE MaySetCredential(Current)
    <3>1. /\ booted /\ UpdateMutexFree
          /\ pc' = [pc EXCEPT ![c] = "save"]
          /\ requested' = [requested EXCEPT ![c] = k]
      BY <1>1, <2>3 DEF SetCredentialCheck
    <3>2. TypeOK'
      BY <2>1, <3>1, CurrentFacts DEF IInv, TypeOK
    <3>3. StateByFlags'
      BY <2>1, CurrentFacts DEF IInv, StateByFlags
    <3>4. OneUpdater'
      BY <2>1, <3>1 DEF IInv, OneUpdater, UpdateMutexFree, TypeOK
    <3>5. auth.state # "ERROR_LOCKED"
      BY <2>3, CurrentFacts DEF MaySetCredential, Authenticated
    <3>6. LoadIsCurrent'
      BY <2>1, <3>1, <3>5 DEF IInv, LoadIsCurrent, StateByFlags, TypeOK
    <3>7. MemoryIsStored'
      BY <2>1, <3>1, CurrentFacts DEF IInv, MemoryIsStored, Applying, UpdateMutexFree, TypeOK
    <3> QED BY <2>2, <3>2, <3>3, <3>4, <3>6, <3>7 DEF IInv
  <2>4. CASE ~MaySetCredential(Current)
    <3>1. UNCHANGED <<pc, requested>>
      BY <1>1, <2>4 DEF SetCredentialCheck
    <3>2. TypeOK'
      BY <2>1, <3>1, CurrentFacts DEF IInv, TypeOK
    <3>3. StateByFlags' /\ OneUpdater' /\ LoadIsCurrent' /\ MemoryIsStored'
      BY <2>1, <3>1, CurrentFacts DEF IInv, StateByFlags, OneUpdater, LoadIsCurrent,
         MemoryIsStored, Applying
    <3> QED BY <2>2, <3>2, <3>3 DEF IInv
  <2> QED BY <2>3, <2>4
<1>2. CASE SetCredentialSave(c)
  <2>1. /\ pc[c] = "save" /\ stored' = requested[c]
        /\ pc' = [pc EXCEPT ![c] = "apply"]
        /\ UNCHANGED <<auth, seen, invalid, generation, requested, loader, booted, now, ghost>>
    BY <1>2 DEF SetCredentialSave
  <2>2. requested[c] \in Credentials /\ booted /\ \A d \in Callers : pc[d] # "idle" => d = c
    BY <2>1 DEF IInv, OneUpdater, TypeOK
  <2>3. TypeOK'
    BY <2>1, <2>2 DEF IInv, TypeOK
  <2>4. StateByFlags'
    BY <2>1 DEF IInv, StateByFlags
  <2>5. OneUpdater'
    BY <2>1, <2>2 DEF IInv, OneUpdater, TypeOK
  <2>6. LoadIsCurrent'
    BY <2>1, <2>2 DEF IInv, LoadIsCurrent, TypeOK
  <2>7. Applying'
    BY <2>1 DEF Applying, IInv, TypeOK
  <2>8. MemoryIsStored'
    BY <2>7 DEF MemoryIsStored
  <2> QED BY <2>1, <2>3, <2>4, <2>5, <2>6, <2>8, SameStruct DEF IInv
<1>3. CASE SetCredentialSaveFailed(c)
  <2>1. /\ pc[c] = "save"
        /\ pc' = [pc EXCEPT ![c] = "idle"]
        /\ requested' = [requested EXCEPT ![c] = NoCredential]
        /\ UNCHANGED <<auth, seen, invalid, generation, loader, booted, stored, now, ghost>>
    BY <1>3 DEF SetCredentialSaveFailed, Returned
  <2>2. \A d \in Callers : pc[d] # "idle" => d = c
    BY <2>1 DEF IInv, OneUpdater
  <2>3. TypeOK'
    BY <2>1 DEF IInv, TypeOK
  <2>4. StateByFlags' /\ LoadIsCurrent'
    BY <2>1 DEF IInv, StateByFlags, LoadIsCurrent, TypeOK
  <2>5. OneUpdater'
    BY <2>1, <2>2 DEF IInv, OneUpdater, TypeOK
  <2>6. ~Applying
    BY <2>1, <2>2 DEF Applying
  <2>7. MemoryIsStored'
    BY <2>1, <2>6 DEF IInv, MemoryIsStored
  <2> QED BY <2>1, <2>3, <2>4, <2>5, <2>7, SameStruct DEF IInv
<1>4. CASE SetCredentialApply(c)
  <2>1. /\ pc[c] = "apply" /\ auth' = Install(auth, requested[c])
        /\ seen' = TRUE /\ invalid' = FALSE /\ ghost' = AllSpent
        /\ pc' = [pc EXCEPT ![c] = "idle"]
        /\ requested' = [requested EXCEPT ![c] = NoCredential]
        /\ UNCHANGED <<generation, loader, booted, stored, now>>
    BY <1>4 DEF SetCredentialApply, Returned
  <2>2. /\ requested[c] \in Credentials /\ stored = requested[c]
        /\ \A d \in Callers : pc[d] # "idle" => d = c
    BY <2>1 DEF IInv, OneUpdater
  <2>3. /\ auth' \in AuthType /\ auth'.state = "PROTECTED" /\ auth'.credential = stored
        /\ ~auth'.session /\ auth'.challenge = NoNonce /\ auth'.failures = 0
    BY <2>1, <2>2, InstallFields DEF IInv, TypeOK
  <2>4. TypeOK'
    BY <2>1, <2>3, ChallengeFree DEF IInv, TypeOK
  <2>5. StateByFlags' /\ LoadIsCurrent'
    BY <2>1, <2>3 DEF IInv, StateByFlags, LoadIsCurrent
  <2>6. OneUpdater'
    BY <2>1, <2>2 DEF IInv, OneUpdater, TypeOK
  <2>7. MemoryIsStored'
    BY <2>1, <2>3 DEF MemoryIsStored
  <2> QED BY <2>1, <2>3, <2>4, <2>5, <2>6, <2>7, ChallengeFree DEF IInv
<1> QED BY <1>1, <1>2, <1>3, <1>4 DEF SetCredential

LEMMA SettingsLoadStep ==
    ASSUME IInv, SettingsLoad
    PROVE  IInv'
<1> USE DEF Idle
<1>1. CASE LoadBegin
  <2>1. /\ loader.step = "idle" /\ stored # NoCredential
        /\ auth' = SetError(auth) /\ seen' = TRUE /\ invalid' = TRUE
        /\ generation' = generation + 1
        /\ loader' = [NotLoading EXCEPT !.step = IF seen THEN "commit" ELSE "read",
                                        !.generation = generation + 1]
        /\ ghost' = AllSpent
        /\ UNCHANGED <<pc, requested, booted, stored, now>>
    BY <1>1 DEF LoadBegin
  <2>2. /\ auth' \in AuthType /\ auth'.state = "ERROR_LOCKED"
        /\ ~auth'.session /\ auth'.challenge = NoNonce /\ auth'.failures = 0
    BY <2>1, SetErrorFields DEF IInv, TypeOK
  <2>3. /\ loader' \in [step : {"idle", "read", "apply", "commit"}, generation : Nat,
                        value : Credentials \cup {NoCredential}]
        /\ loader'.step = IF seen THEN "commit" ELSE "read"
    <3>1. generation + 1 \in Nat
      BY DEF IInv, TypeOK
    <3>2. loader' = [step |-> IF seen THEN "commit" ELSE "read", generation |-> generation + 1,
                     value |-> NoCredential]
      BY <2>1 DEF NotLoading
    <3> QED BY <3>1, <3>2
  <2>4. TypeOK'
    BY <2>1, <2>2, <2>3, ChallengeFree DEF IInv, TypeOK
  <2>5. StateByFlags' /\ OneUpdater'
    BY <2>1, <2>2, <2>3 DEF IInv, StateByFlags, OneUpdater
  <2>6. ~seen => \A c \in Callers : pc[c] # "save"
    BY <2>1 DEF IInv, OneUpdater, MemoryIsStored, Applying
  <2>7. LoadIsCurrent'
    BY <2>1, <2>3, <2>6 DEF LoadIsCurrent
  <2>8. MemoryIsStored'
    BY <2>1, <2>2 DEF MemoryIsStored
  <2> QED BY <2>1, <2>2, <2>4, <2>5, <2>7, <2>8, ChallengeFree DEF IInv
<1>2. CASE LoadRead
  <2>1. /\ loader.step = "read"
        /\ loader' = IF stored \in Credentials
                       THEN [loader EXCEPT !.step = "apply", !.value = stored]
                       ELSE [loader EXCEPT !.step = "commit"]
        /\ UNCHANGED <<auth, seen, invalid, generation, pc, requested, booted, stored, now, ghost>>
    BY <1>2 DEF LoadRead
  <2>2. /\ loader' \in [step : {"idle", "read", "apply", "commit"}, generation : Nat,
                        value : Credentials \cup {NoCredential}]
        /\ loader'.step \in {"apply", "commit"}
        /\ loader'.step = "apply" => loader'.value = stored /\ stored \in Credentials
    BY <2>1 DEF IInv, TypeOK
  <2>3. TypeOK'
    BY <2>1, <2>2 DEF IInv, TypeOK
  <2>4. StateByFlags' /\ OneUpdater' /\ LoadIsCurrent' /\ MemoryIsStored'
    BY <2>1, <2>2 DEF IInv, StateByFlags, OneUpdater, LoadIsCurrent, MemoryIsStored, Applying
  <2> QED BY <2>1, <2>3, <2>4, SameStruct DEF IInv
<1>3. CASE LoadReadFailed
  <2>1. /\ loader.step = "read"
        /\ loader' = [loader EXCEPT !.step = "commit"]
        /\ UNCHANGED <<auth, seen, invalid, generation, pc, requested, booted, stored, now, ghost>>
    BY <1>3 DEF LoadReadFailed
  <2>2. /\ loader' \in [step : {"idle", "read", "apply", "commit"}, generation : Nat,
                        value : Credentials \cup {NoCredential}]
        /\ loader'.step = "commit"
    BY <2>1 DEF IInv, TypeOK
  <2>3. TypeOK'
    BY <2>1, <2>2 DEF IInv, TypeOK
  <2>4. StateByFlags' /\ OneUpdater' /\ LoadIsCurrent' /\ MemoryIsStored'
    BY <2>1, <2>2 DEF IInv, StateByFlags, OneUpdater, LoadIsCurrent, MemoryIsStored, Applying
  <2> QED BY <2>1, <2>3, <2>4, SameStruct DEF IInv
<1>4. CASE LoadApply
  <2>1. /\ loader.step = "apply" /\ loader' = [loader EXCEPT !.step = "commit"]
        /\ UNCHANGED <<seen, generation, pc, requested, booted, stored, now>>
    BY <1>4 DEF LoadApply
  <2>2. /\ loader' \in [step : {"idle", "read", "apply", "commit"}, generation : Nat,
                        value : Credentials \cup {NoCredential}]
        /\ loader'.step = "commit"
    BY <2>1 DEF IInv, TypeOK
  <2>3. OneUpdater' /\ LoadIsCurrent'
    BY <2>1, <2>2 DEF IInv, OneUpdater, LoadIsCurrent
  <2>4. CASE LoadStillWanted
    <3>1. /\ invalid /\ auth' = Install(auth, loader.value) /\ invalid' = FALSE
          /\ ghost' = AllSpent
      BY <1>4, <2>4 DEF LoadApply, LoadStillWanted
    <3>2. loader.value \in Credentials /\ loader.value = stored /\ seen
      BY <2>1, <3>1 DEF IInv, LoadIsCurrent, StateByFlags
    <3>3. /\ auth' \in AuthType /\ auth'.state = "PROTECTED" /\ auth'.credential = stored
          /\ ~auth'.session /\ auth'.challenge = NoNonce /\ auth'.failures = 0
      BY <3>1, <3>2, InstallFields DEF IInv, TypeOK
    <3>4. TypeOK'
      BY <2>1, <2>2, <3>1, <3>3, ChallengeFree DEF IInv, TypeOK
    <3>5. StateByFlags' /\ MemoryIsStored'
      BY <2>1, <3>1, <3>2, <3>3 DEF StateByFlags, MemoryIsStored
    <3> QED BY <2>3, <3>1, <3>3, <3>4, <3>5, ChallengeFree DEF IInv
  <2>5. CASE ~LoadStillWanted
    <3>1. UNCHANGED <<auth, invalid, ghost>>
      BY <1>4, <2>5 DEF LoadApply
    <3>2. TypeOK'
      BY <2>1, <2>2, <3>1 DEF IInv, TypeOK
    <3>3. StateByFlags' /\ MemoryIsStored'
      BY <2>1, <2>2, <3>1 DEF IInv, StateByFlags, MemoryIsStored, Applying
    <3> QED BY <2>1, <2>3, <3>1, <3>2, <3>3, SameStruct DEF IInv
  <2> QED BY <2>4, <2>5
<1>5. CASE LoadCommit
  <2>1. /\ loader.step = "commit" \/ stored = NoCredential
        /\ loader' = NotLoading /\ booted' = TRUE
        /\ UNCHANGED <<seen, invalid, generation, pc, requested, stored, now>>
    BY <1>5 DEF LoadCommit
  <2>2. /\ loader' \in [step : {"idle", "read", "apply", "commit"}, generation : Nat,
                        value : Credentials \cup {NoCredential}]
        /\ loader'.step = "idle"
    BY <2>1 DEF NotLoading
  <2>3. OneUpdater' /\ LoadIsCurrent'
    BY <2>1, <2>2 DEF IInv, OneUpdater, LoadIsCurrent
  <2>4. ~seen => stored = NoCredential \/ Applying
    BY <2>1 DEF IInv, StateByFlags
  <2>5. CASE NothingSeen
    <3> DEFINE b == [auth EXCEPT !.state = "OPEN", !.credential = NoCredential]
    <3>1. auth' = ClearTransient(b, TRUE) /\ ghost' = AllSpent /\ ~seen
      BY <1>5, <2>5 DEF LoadCommit, NothingSeen
    <3>2. b \in AuthType /\ b.state = "OPEN"
      BY DEF IInv, TypeOK, AuthType
    <3> HIDE DEF b
    <3>3. /\ auth' \in AuthType /\ auth'.state = "OPEN"
          /\ ~auth'.session /\ auth'.challenge = NoNonce /\ auth'.failures = 0
      BY <3>1, <3>2, ClearTransientFields
    <3>4. TypeOK'
      BY <2>1, <2>2, <3>1, <3>3, ChallengeFree DEF IInv, TypeOK
    <3>5. StateByFlags'
      BY <2>1, <2>2, <3>1, <3>3 DEF IInv, StateByFlags
    <3>6. MemoryIsStored'
      BY <2>1, <2>4, <3>1, <3>3 DEF MemoryIsStored, Applying
    <3> QED BY <2>3, <3>1, <3>3, <3>4, <3>5, <3>6, ChallengeFree DEF IInv
  <2>6. CASE seen /\ invalid
    <3>1. auth' = SetError(auth) /\ ghost' = AllSpent
      BY <1>5, <2>6 DEF LoadCommit, NothingSeen
    <3>2. /\ auth' \in AuthType /\ auth'.state = "ERROR_LOCKED"
          /\ ~auth'.session /\ auth'.challenge = NoNonce /\ auth'.failures = 0
      BY <3>1, SetErrorFields DEF IInv, TypeOK
    <3>3. TypeOK'
      BY <2>1, <2>2, <3>1, <3>2, ChallengeFree DEF IInv, TypeOK
    <3>4. StateByFlags' /\ MemoryIsStored'
      BY <2>1, <2>2, <2>6, <3>2 DEF StateByFlags, MemoryIsStored
    <3> QED BY <2>3, <3>1, <3>2, <3>3, <3>4, ChallengeFree DEF IInv
  <2>7. CASE seen /\ ~invalid
    <3>1. UNCHANGED <<auth, ghost>>
      BY <1>5, <2>7 DEF LoadCommit, NothingSeen
    <3>2. TypeOK'
      BY <2>1, <2>2, <3>1 DEF IInv, TypeOK
    <3>3. StateByFlags' /\ MemoryIsStored'
      BY <2>1, <2>2, <2>7, <3>1 DEF IInv, StateByFlags, MemoryIsStored, Applying
    <3> QED BY <2>1, <2>3, <3>1, <3>2, <3>3, SameStruct DEF IInv
  <2> QED BY <2>5, <2>6, <2>7 DEF NothingSeen, IInv, TypeOK
<1> QED BY <1>1, <1>2, <1>3, <1>4, <1>5 DEF SettingsLoad

LEMMA RebootStep ==
    ASSUME IInv, Reboot
    PROVE  IInv'
<1> DEFINE lost == [AllSpent EXCEPT !.issuedAt = 0, !.failedAt = 0, !.provenKey = NoCredential]
<1>1. lost \in GhostType /\ lost.spent = ghost.issued /\ lost.issued = ghost.issued
  BY AllSpentFields DEF GhostType
<1>2. ghost' = lost
  BY DEF Reboot
<1>3. ghost.issued \in Nat
  BY DEF IInv, TypeOK, GhostType
<1> HIDE DEF lost
<1>4. ghost' \in GhostType /\ SpentIssued'
  BY <1>1, <1>2, <1>3 DEF SpentIssued
<1>5. 0 \in 0..FailureCountMax
  BY TimingAssumption
<1>6. auth' \in AuthType
  BY <1>5 DEF Reboot, AuthType, Zeroed
<1>7. TypeOK'
  BY <1>4, <1>6 DEF Reboot, IInv, TypeOK, NotLoading, Idle
<1>8. StateByFlags' /\ OneUpdater' /\ LoadIsCurrent' /\ MemoryIsStored'
  BY DEF Reboot, StateByFlags, OneUpdater, LoadIsCurrent, MemoryIsStored, Zeroed, NotLoading, Idle
<1>9. SessionProvesCredential' /\ OneShotChallenge' /\ CooldownRecorded'
  BY DEF Reboot, SessionProvesCredential, OneShotChallenge, CooldownRecorded, Zeroed
<1> QED BY <1>4, <1>7, <1>8, <1>9 DEF IInv

LEMMA NextIInv == IInv /\ [Next]_vars => IInv'
<1> SUFFICES ASSUME IInv, [Next]_vars PROVE IInv'
  OBVIOUS
<1>1. CASE Next
  BY <1>1, TickStep, StructActions, SetCredentialStep, SettingsLoadStep, RebootStep DEF Next
<1>2. CASE UNCHANGED vars
  BY <1>2 DEF vars, IInv, TypeOK, StateByFlags, OneUpdater, LoadIsCurrent, MemoryIsStored, Applying,
     SessionProvesCredential, OneShotChallenge, SpentIssued, CooldownRecorded
<1> QED BY <1>1, <1>2

---------------------------------------------------------------------------
(* The theorems. *)

\* Every reachable state satisfies the inductive invariant.
THEOREM Inductive == Spec => []IInv
BY InitIInv, NextIInv, PTL DEF Spec

\* Every variable keeps its type, whatever the operations and their interleaving.
THEOREM TypeCorrect == Spec => []TypeOK
<1>1. IInv => TypeOK
  BY DEF IInv
<1> QED BY <1>1, Inductive, PTL

\* A session is only ever open under the credential whose proof opened it.
THEOREM SessionsProveCredential == Spec => []SessionProvesCredential
<1>1. IInv => SessionProvesCredential
  BY DEF IInv
<1> QED BY <1>1, Inductive, PTL

\* The challenge the device holds is the newest issued, and untried.
THEOREM ChallengesAreOneShot == Spec => []OneShotChallenge
<1>1. IInv => OneShotChallenge
  BY DEF IInv
<1> QED BY <1>1, Inductive, PTL

\* Outside the window between a save and its apply, memory and settings agree.
THEOREM MemoryAgreesWithStorage == Spec => []StorageAgrees
<1>1. IInv => StorageAgrees
  BY DEF IInv, StorageAgrees, MemoryIsStored, StateByFlags
<1> QED BY <1>1, Inductive, PTL

\* Two evaluated guesses are a cooldown apart unless the failure record was cleared between.
THEOREM GuessesAreSpaced == Spec => FailureSpacing
<1>1. ASSUME IInv, NEW key \in Credentials, NEW nonce \in 1..ghost.issued,
             ProofRejected(HMAC(key, nonce))
      PROVE  auth.failures = 0 \/ now >= ghost.failedAt + Cooldown(auth.failures)
  <2>1. Current.challenge # NoNonce
    BY <1>1 DEF ProofRejected, Verifiable
  <2>2. auth.challenge # NoNonce
    BY <1>1, <2>1, CurrentFacts
  <2>3. now \in Nat /\ auth.cooldownDeadline \in Nat
    BY <1>1 DEF IInv, TypeOK, AuthType
  <2> QED BY <1>1, <2>2, <2>3 DEF IInv, CooldownRecorded
<1>2. IInv /\ [Next]_vars =>
        [ (\E key \in Credentials, nonce \in 1..ghost.issued : ProofRejected(HMAC(key, nonce)))
            => auth.failures = 0 \/ now >= ghost.failedAt + Cooldown(auth.failures) ]_vars
  BY <1>1
<1> QED BY <1>2, Inductive, PTL DEF Spec, FailureSpacing

\* Only a reboot leads back to OPEN.
THEOREM ProtectionStays == Spec => NeverReopens
<1>1. ASSUME IInv, IInv', [Next]_vars, auth.state # "OPEN", auth'.state = "OPEN"
      PROVE  ~booted'
  <2>1. seen /\ ~seen'
    BY <1>1 DEF IInv, StateByFlags
  <2>2. Next
    BY <1>1, <2>1 DEF vars
  <2>3. Reboot
    BY <2>1, <2>2 DEF Next, Tick, Observe, RefreshSession, ChallengeRefused, ChallengeRngFailed,
       ChallengeIssued, VerifyProof, VerifyRefused, VerifyHmacFailed, ProofRejected, ProofAccepted,
       Lock, TransportReset, StructOnly, SetCredential, SetCredentialCheck, SetCredentialSave,
       SetCredentialSaveFailed, SetCredentialApply, SettingsLoad, LoadBegin, LoadRead,
       LoadReadFailed, LoadApply, LoadCommit
  <2> QED BY <2>3 DEF Reboot
<1>2. IInv /\ IInv' /\ [Next]_vars => [auth.state # "OPEN" /\ auth'.state = "OPEN" => ~booted']_vars
  BY <1>1
<1> QED BY <1>2, Inductive, PTL DEF Spec, NeverReopens

---------------------------------------------------------------------------
(* Auth implements AuthGate. *)

\* Only a PROTECTED device holds a credential, and the loader of a running device can only have
\* something to install when it read the first credential, saved and about to be applied.
GateInv ==
    /\ auth.state # "PROTECTED" => auth.credential = NoCredential
    /\ booted /\ invalid /\ loader.step \in {"read", "apply"} => Applying

\* The update in progress as a function of the callers' steps and requests.
UpdateOf(p, r) ==
    IF \A c \in Callers : p[c] = Idle THEN [stage |-> "none", credential |-> NoCredential]
    ELSE LET c == CHOOSE c \in Callers : p[c] # Idle
         IN  [stage |-> p[c], credential |-> r[c]]

---------------------------------------------------------------------------
LEMMA UpdateOfNobody ==
    ASSUME NEW p, NEW r, \A c \in Callers : p[c] = Idle
    PROVE  UpdateOf(p, r) = [stage |-> "none", credential |-> NoCredential]
BY DEF UpdateOf

LEMMA UpdateOfCaller ==
    ASSUME NEW p, NEW r, NEW c \in Callers, p[c] # Idle,
           \A d \in Callers : p[d] # Idle => d = c
    PROVE  UpdateOf(p, r) = [stage |-> p[c], credential |-> r[c]]
<1> DEFINE chosen == CHOOSE d \in Callers : p[d] # Idle
<1>1. chosen \in Callers /\ p[chosen] # Idle
  OBVIOUS
<1>2. chosen = c
  BY <1>1
<1>3. UpdateOf(p, r) = [stage |-> p[chosen], credential |-> r[chosen]]
  BY DEF UpdateOf
<1> QED BY <1>2, <1>3

LEMMA UpdateNow ==
    /\ UpdateInProgress = UpdateOf(pc, requested)
    /\ UpdateInProgress' = UpdateOf(pc', requested')
BY DEF UpdateInProgress, UpdateMutexFree, UpdateOf

\* With OneUpdater: the update in progress is that of any caller who is not idle.
LEMMA UpdateIs ==
    ASSUME IInv, NEW c \in Callers, pc[c] # Idle
    PROVE  UpdateInProgress = [stage |-> pc[c], credential |-> requested[c]]
<1>1. \A d \in Callers : pc[d] # Idle => d = c
  BY DEF IInv, OneUpdater
<1> QED BY <1>1, UpdateNow, UpdateOfCaller

GateStep == [Gate!Next]_(Gate!gateVars)

---------------------------------------------------------------------------
(* Steps of the abstract specification. *)

\* What touches neither a load nor an update may close the session, or open it on a protected
\* device that runs.
LEMMA SessionStep ==
    ASSUME UNCHANGED <<pc, requested, booted, stored>>,
           auth.session \in BOOLEAN, auth'.session \in BOOLEAN,
           auth'.state = auth.state, auth'.credential = auth.credential,
           auth'.session => auth.session \/ (booted /\ auth.state = "PROTECTED")
    PROVE  GateStep
<1>1. UpdateInProgress' = UpdateInProgress
  BY UpdateNow
<1>2. CASE auth'.session = auth.session
  BY <1>1, <1>2 DEF GateStep, Gate!gateVars
<1>3. CASE ~auth.session /\ auth'.session
  <2>1. Gate!Prove
    BY <1>1, <1>3 DEF Gate!Prove
  <2> QED BY <2>1 DEF GateStep, Gate!Next
<1>4. CASE auth.session /\ ~auth'.session
  <2>1. Gate!Close
    BY <1>1, <1>4 DEF Gate!Close
  <2> QED BY <2>1 DEF GateStep, Gate!Next
<1> QED BY <1>2, <1>3, <1>4

\* Tick and the operations on the struct.
LEMMA StructGate ==
    ASSUME IInv, IInv',
           \/ Tick \/ Observe \/ RefreshSession
           \/ ChallengeRefused \/ ChallengeRngFailed \/ ChallengeIssued
           \/ VerifyProof \/ Lock \/ TransportReset
    PROVE  /\ auth'.state = auth.state /\ auth'.credential = auth.credential
           /\ auth'.session => auth.session \/ (booted /\ auth.state = "PROTECTED")
           /\ UNCHANGED <<seen, invalid, loader, pc, requested, booted, stored>>
<1> USE CurrentFacts DEF NoNonce
<1>a. auth \in AuthType /\ Current \in AuthType
  BY DEF IInv, TypeOK
<1>1. CASE Tick
  BY <1>1 DEF Tick
<1>2. CASE Observe \/ ChallengeRefused
  BY <1>2 DEF Observe, ChallengeRefused, StructOnly
<1>3. CASE RefreshSession
  BY <1>3, <1>a DEF RefreshSession, StructOnly, AuthType
<1>4. CASE ChallengeRngFailed
  BY <1>4, <1>a DEF ChallengeRngFailed, ClearChallenge, StructOnly, AuthType
<1>5. CASE ChallengeIssued
  <2>1. ClearChallenge(Current) \in AuthType
    BY <1>a DEF ClearChallenge, AuthType
  <2>2. /\ ClearChallenge(Current).state = auth.state
        /\ ClearChallenge(Current).credential = auth.credential
        /\ ClearChallenge(Current).session => auth.session
    BY <1>a DEF ClearChallenge, AuthType
  <2> QED BY <1>5, <2>1, <2>2 DEF ChallengeIssued, StructOnly, AuthType
<1>6. CASE VerifyProof
  <2>1. CASE VerifyRefused
    BY <1>a, <2>1 DEF VerifyRefused, ClearChallenge, StructOnly, AuthType
  <2>2. CASE VerifyHmacFailed
    BY <1>a, <2>2, ConsumedFields DEF VerifyHmacFailed, StructOnly
  <2>3. ASSUME NEW key \in Credentials, NEW nonce \in 1..ghost.issued,
               ProofRejected(HMAC(key, nonce))
        PROVE  /\ auth'.state = auth.state /\ auth'.credential = auth.credential
               /\ ~auth'.session /\ StructOnly
    <3>1. now \in Nat
      BY DEF IInv, TypeOK
    <3> QED BY <1>a, <2>3, <3>1, ConsumedFields, RecordFailureFields DEF ProofRejected
  <2>4. ASSUME NEW key \in Credentials, NEW nonce \in 1..ghost.issued,
               ProofAccepted(HMAC(key, nonce))
        PROVE  /\ auth'.state = auth.state /\ auth'.credential = auth.credential
               /\ booted /\ auth.state = "PROTECTED" /\ StructOnly
    <3> DEFINE opened == [Consumed(Current) EXCEPT !.session = TRUE,
                                                   !.sessionDeadline = now + SessionTimeout]
    <3>1. auth' = ClearFailure(opened) /\ booted /\ Current.state = "PROTECTED" /\ StructOnly
      BY <2>4 DEF ProofAccepted, Verifiable
    <3>2. now + SessionTimeout \in Nat
      BY TimingAssumption DEF IInv, TypeOK
    <3>3. opened \in AuthType /\ opened.state = auth.state /\ opened.credential = auth.credential
      BY <1>a, <3>2, ConsumedFields DEF AuthType
    <3> HIDE DEF opened
    <3> QED BY <3>1, <3>3 DEF ClearFailure, AuthType
  <2> QED BY <1>6, <2>1, <2>2, <2>3, <2>4 DEF VerifyProof, StructOnly
<1>7. CASE Lock \/ TransportReset
  BY <1>7, <1>a, ClearTransientFields DEF Lock, TransportReset, StructOnly
<1> QED BY <1>1, <1>2, <1>3, <1>4, <1>5, <1>6, <1>7

LEMMA SetCredentialGate ==
    ASSUME IInv, IInv', NEW c \in Callers, SetCredential(c)
    PROVE  GateStep
<1> USE DEF Idle
<1>a. auth \in AuthType /\ auth' \in AuthType
  BY DEF IInv, TypeOK
<1>b. ASSUME pc[c] # Idle, pc'[c] = Idle, \A d \in Callers : d # c => pc'[d] = pc[d]
      PROVE  UpdateInProgress' = [stage |-> "none", credential |-> NoCredential]
  <2>1. \A d \in Callers : pc'[d] = Idle
    BY <1>b DEF IInv, OneUpdater
  <2> QED BY <2>1, UpdateNow, UpdateOfNobody
<1>1. ASSUME NEW k \in Credentials, SetCredentialCheck(c, k)
      PROVE  GateStep
  <2>1. /\ auth' = Current /\ booted /\ UpdateMutexFree
        /\ UNCHANGED <<booted, stored>>
    BY <1>1 DEF SetCredentialCheck
  <2>2. /\ auth'.state = auth.state /\ auth'.credential = auth.credential
        /\ auth'.session => auth.session
    BY <2>1, CurrentFacts
  <2>3. CASE MaySetCredential(Current)
    <3>1. /\ pc' = [pc EXCEPT ![c] = "save"]
          /\ requested' = [requested EXCEPT ![c] = k]
      BY <1>1, <2>3 DEF SetCredentialCheck
    <3>2. pc'[c] = "save" /\ requested'[c] = k /\ \A d \in Callers : pc'[d] # Idle => d = c
      BY <2>1, <3>1 DEF IInv, TypeOK, UpdateMutexFree
    <3>3. UpdateInProgress' = [stage |-> "save", credential |-> k]
      BY <3>2, UpdateNow, UpdateOfCaller
    <3>4. UpdateInProgress = [stage |-> "none", credential |-> NoCredential]
      BY <2>1, UpdateNow, UpdateOfNobody DEF UpdateMutexFree
    <3>5. /\ auth'.session = auth.session
          /\ auth.state = "OPEN" \/ (auth.state = "PROTECTED" /\ auth.session)
      <4>1. auth.state # "OPEN" => auth.state = "PROTECTED" /\ auth'.session
        BY <2>1, <2>2, <2>3, CurrentFacts DEF MaySetCredential, Authenticated
      <4>2. auth.state = "OPEN" => ~auth.session
        BY DEF IInv, SessionProvesCredential
      <4> QED BY <1>a, <2>2, <4>1, <4>2 DEF AuthType
    <3>6. Gate!Check(k)
      BY <2>1, <2>2, <3>3, <3>4, <3>5 DEF Gate!Check, Gate!NoUpdate, Gate!Authorised
    <3> QED BY <3>6 DEF GateStep, Gate!Next
  <2>4. CASE ~MaySetCredential(Current)
    <3>1. UNCHANGED <<pc, requested>>
      BY <1>1, <2>4 DEF SetCredentialCheck
    <3>2. auth.session \in BOOLEAN /\ auth'.session \in BOOLEAN
      BY <1>a DEF AuthType
    <3> QED BY <2>1, <2>2, <3>1, <3>2, SessionStep
  <2> QED BY <2>3, <2>4
<1>2. CASE SetCredentialSave(c)
  <2>1. /\ pc[c] = "save" /\ stored' = requested[c]
        /\ pc' = [pc EXCEPT ![c] = "apply"] /\ UNCHANGED <<auth, requested, booted>>
    BY <1>2 DEF SetCredentialSave
  <2>2. /\ pc'[c] = "apply" /\ \A d \in Callers : pc'[d] # Idle => d = c
    BY <2>1 DEF IInv, OneUpdater, TypeOK
  <2>3. UpdateInProgress = [stage |-> "save", credential |-> requested[c]]
    BY <2>1, UpdateIs
  <2>4. UpdateInProgress' = [stage |-> "apply", credential |-> requested[c]]
    BY <2>1, <2>2, UpdateNow, UpdateOfCaller
  <2>5. Gate!Save
    BY <2>1, <2>3, <2>4 DEF Gate!Save
  <2> QED BY <2>5 DEF GateStep, Gate!Next
<1>3. CASE SetCredentialSaveFailed(c)
  <2>1. /\ pc[c] = "save" /\ pc' = [pc EXCEPT ![c] = Idle]
        /\ UNCHANGED <<auth, stored, booted>>
    BY <1>3 DEF SetCredentialSaveFailed, Returned
  <2>2. UpdateInProgress = [stage |-> "save", credential |-> requested[c]]
    BY <2>1, UpdateIs
  <2>3. UpdateInProgress' = [stage |-> "none", credential |-> NoCredential]
    BY <1>b, <2>1 DEF IInv, TypeOK
  <2>4. Gate!SaveFailed
    BY <2>1, <2>2, <2>3 DEF Gate!SaveFailed, Gate!NoUpdate
  <2> QED BY <2>4 DEF GateStep, Gate!Next
<1>4. CASE SetCredentialApply(c)
  <2>1. /\ pc[c] = "apply" /\ auth' = Install(auth, requested[c])
        /\ pc' = [pc EXCEPT ![c] = Idle] /\ UNCHANGED <<stored, booted>>
    BY <1>4 DEF SetCredentialApply, Returned
  <2>2. UpdateInProgress = [stage |-> "apply", credential |-> requested[c]]
    BY <2>1, UpdateIs
  <2>3. UpdateInProgress' = [stage |-> "none", credential |-> NoCredential]
    BY <1>b, <2>1 DEF IInv, TypeOK
  <2>4. requested[c] \in Credentials
    BY <2>1 DEF IInv, OneUpdater
  <2>5. auth'.state = "PROTECTED" /\ auth'.credential = requested[c] /\ ~auth'.session
    BY <1>a, <2>1, <2>4, InstallFields
  <2>6. auth'.session = FALSE
    BY <1>a, <2>5 DEF AuthType
  <2>7. Gate!Apply
    BY <2>1, <2>2, <2>3, <2>5, <2>6 DEF Gate!Apply, Gate!NoUpdate
  <2> QED BY <2>7 DEF GateStep, Gate!Next
<1> QED BY <1>1, <1>2, <1>3, <1>4 DEF SetCredential

LEMMA SettingsLoadGate ==
    ASSUME IInv, IInv', GateInv, SettingsLoad
    PROVE  GateStep
<1> USE DEF Idle
<1>a. auth \in AuthType /\ auth' \in AuthType
  BY DEF IInv, TypeOK
<1>b. UNCHANGED <<pc, requested>> /\ UpdateInProgress' = UpdateInProgress
  BY UpdateNow DEF SettingsLoad, LoadBegin, LoadRead, LoadReadFailed, LoadApply, LoadCommit
<1>1. CASE LoadBegin
  <2>1. /\ stored # NoCredential /\ auth' = SetError(auth) /\ UNCHANGED <<stored, booted>>
    BY <1>1 DEF LoadBegin
  <2>2. auth'.state = "ERROR_LOCKED" /\ auth'.session = FALSE /\ auth'.credential = NoCredential
    BY <1>a, <2>1, SetErrorFields DEF AuthType
  <2>3. Gate!Fail
    BY <1>b, <2>1, <2>2 DEF Gate!Fail
  <2> QED BY <2>3 DEF GateStep, Gate!Next
<1>2. CASE LoadRead \/ LoadReadFailed
  <2>1. UNCHANGED <<auth, stored, booted>>
    BY <1>2 DEF LoadRead, LoadReadFailed
  <2> QED BY <1>b, <2>1 DEF GateStep, Gate!gateVars
<1>3. CASE LoadApply
  <2>1. loader.step = "apply" /\ UNCHANGED <<stored, booted>>
    BY <1>3 DEF LoadApply
  <2>2. CASE LoadStillWanted
    <3>1. invalid /\ auth' = Install(auth, loader.value)
      BY <1>3, <2>2 DEF LoadApply, LoadStillWanted
    <3>2. loader.value = stored /\ stored \in Credentials /\ auth.state = "ERROR_LOCKED"
      BY <2>1, <3>1 DEF IInv, LoadIsCurrent, StateByFlags
    <3>3. auth'.state = "PROTECTED" /\ auth'.session = FALSE /\ auth'.credential = stored
      BY <1>a, <3>1, <3>2, InstallFields DEF AuthType
    <3>4. ~booted \/ UpdateInProgress.stage = "apply"
      <4>1. CASE booted
        <5>1. PICK c \in Callers : pc[c] = "apply"
          BY <2>1, <3>1, <4>1 DEF GateInv, Applying
        <5> QED BY <5>1, UpdateIs
      <4> QED BY <4>1
    <3>5. Gate!Restore
      BY <1>b, <2>1, <3>2, <3>3, <3>4 DEF Gate!Restore
    <3> QED BY <3>5 DEF GateStep, Gate!Next
  <2>3. CASE ~LoadStillWanted
    <3>1. UNCHANGED auth
      BY <1>3, <2>3 DEF LoadApply
    <3> QED BY <1>b, <2>1, <3>1 DEF GateStep, Gate!gateVars
  <2> QED BY <2>2, <2>3
<1>4. CASE LoadCommit
  <2>1. /\ loader.step = "commit" \/ stored = NoCredential
        /\ booted' = TRUE /\ UNCHANGED stored
    BY <1>4 DEF LoadCommit
  <2>2. /\ auth'.state = auth.state /\ auth'.credential = auth.credential
        /\ auth'.session = auth.session
    <3>1. CASE NothingSeen
      <4> DEFINE b == [auth EXCEPT !.state = "OPEN", !.credential = NoCredential]
      <4>1. auth' = ClearTransient(b, TRUE)
        BY <1>4, <3>1 DEF LoadCommit
      <4>2. b \in AuthType /\ b.state = "OPEN" /\ b.credential = NoCredential
        BY <1>a DEF AuthType
      <4> HIDE DEF b
      <4>3. auth'.state = "OPEN" /\ auth'.credential = NoCredential /\ auth'.session = FALSE
        BY <1>a, <4>1, <4>2, ClearTransientFields DEF AuthType
      <4>4. auth.state = "OPEN" /\ auth.credential = NoCredential /\ auth.session = FALSE
        BY <1>a, <3>1 DEF NothingSeen, IInv, StateByFlags, SessionProvesCredential, GateInv, AuthType
      <4> QED BY <4>3, <4>4
    <3>2. CASE ~NothingSeen /\ invalid
      <4>1. auth' = SetError(auth)
        BY <1>4, <3>2 DEF LoadCommit
      <4>2. auth'.state = "ERROR_LOCKED" /\ auth'.session = FALSE /\ auth'.credential = NoCredential
        BY <1>a, <4>1, SetErrorFields DEF AuthType
      <4>3. auth.state = "ERROR_LOCKED" /\ auth.credential = NoCredential /\ auth.session = FALSE
        BY <1>a, <3>2 DEF IInv, StateByFlags, SessionProvesCredential, GateInv, AuthType
      <4> QED BY <4>2, <4>3
    <3>3. CASE ~NothingSeen /\ ~invalid
      BY <1>4, <3>3 DEF LoadCommit
    <3> QED BY <3>1, <3>2, <3>3
  <2>3. CASE booted
    BY <1>b, <2>1, <2>2, <2>3 DEF GateStep, Gate!gateVars, IInv, TypeOK
  <2>4. CASE ~booted
    <3>1. auth.state = "OPEN" => stored = NoCredential
      BY <2>1 DEF IInv, StateByFlags
    <3>2. Gate!Boot
      BY <1>b, <2>1, <2>2, <2>4, <3>1 DEF Gate!Boot
    <3> QED BY <3>2 DEF GateStep, Gate!Next
  <2> QED BY <2>3, <2>4
<1> QED BY <1>1, <1>2, <1>3, <1>4 DEF SettingsLoad

LEMMA RebootGate ==
    ASSUME Reboot
    PROVE  GateStep
<1>1. UpdateInProgress' = [stage |-> "none", credential |-> NoCredential]
  BY UpdateNow, UpdateOfNobody DEF Reboot
<1>2. Gate!Reboot
  BY <1>1 DEF Reboot, Zeroed, Gate!Reboot, Gate!NoUpdate
<1> QED BY <1>2 DEF GateStep, Gate!Next

---------------------------------------------------------------------------
(* GateInv is inductive relative to IInv. *)

LEMMA NextGateInv == IInv /\ IInv' /\ GateInv /\ [Next]_vars => GateInv'
<1> SUFFICES ASSUME IInv, IInv', GateInv, [Next]_vars PROVE GateInv'
  OBVIOUS
<1> USE DEF Idle
<1>a. auth \in AuthType /\ auth' \in AuthType
  BY DEF IInv, TypeOK
<1>1. CASE \/ Tick \/ Observe \/ RefreshSession
           \/ ChallengeRefused \/ ChallengeRngFailed \/ ChallengeIssued
           \/ VerifyProof \/ Lock \/ TransportReset
  BY <1>1, StructGate DEF GateInv, Applying
<1>2. ASSUME NEW c \in Callers, SetCredential(c)
      PROVE  GateInv'
  <2>1. ASSUME NEW k \in Credentials, SetCredentialCheck(c, k)
        PROVE  GateInv'
    <3>1. auth' = Current /\ UpdateMutexFree /\ UNCHANGED <<booted, invalid, loader>>
      BY <2>1 DEF SetCredentialCheck
    <3> QED BY <3>1, CurrentFacts DEF GateInv, Applying, UpdateMutexFree
  <2>2. CASE SetCredentialSave(c)
    <3>1. Applying'
      BY <2>2 DEF SetCredentialSave, Applying, IInv, TypeOK
    <3> QED BY <2>2, <3>1 DEF SetCredentialSave, GateInv
  <2>3. CASE SetCredentialSaveFailed(c)
    <3>1. pc[c] = "save" /\ ~Applying
      BY <2>3 DEF SetCredentialSaveFailed, Applying, IInv, OneUpdater
    <3> QED BY <2>3, <3>1 DEF SetCredentialSaveFailed, GateInv
  <2>4. CASE SetCredentialApply(c)
    <3>1. requested[c] \in Credentials /\ auth' = Install(auth, requested[c]) /\ ~invalid'
      BY <2>4 DEF SetCredentialApply, IInv, OneUpdater
    <3>2. auth'.state = "PROTECTED"
      BY <1>a, <3>1, InstallFields
    <3> QED BY <3>1, <3>2 DEF GateInv
  <2> QED BY <1>2, <2>1, <2>2, <2>3, <2>4 DEF SetCredential
<1>3. CASE LoadBegin
  <2>1. auth' = SetError(auth)
    BY <1>3 DEF LoadBegin
  <2>2. auth'.credential = NoCredential
    BY <1>a, <2>1, SetErrorFields
  <2>3. booted' /\ loader'.step \in {"read", "apply"} => Applying'
    BY <1>3 DEF LoadBegin, NotLoading, IInv, MemoryIsStored, Applying
  <2> QED BY <2>2, <2>3 DEF GateInv
<1>4. CASE LoadRead \/ LoadReadFailed
  <2>1. loader.step = "read" /\ UNCHANGED <<auth, booted, invalid, pc>>
    BY <1>4 DEF LoadRead, LoadReadFailed
  <2> QED BY <2>1 DEF GateInv, Applying
<1>5. CASE LoadApply
  <2>1. /\ loader.step = "apply" /\ loader' = [loader EXCEPT !.step = "commit"]
    BY <1>5 DEF LoadApply
  <2>2. loader'.step = "commit"
    BY <2>1 DEF IInv, TypeOK
  <2>3. CASE LoadStillWanted
    <3>1. auth' = Install(auth, loader.value) /\ loader.value \in Credentials
      BY <1>5, <2>1, <2>3 DEF LoadApply, IInv, LoadIsCurrent
    <3>2. auth'.state = "PROTECTED"
      BY <1>a, <3>1, InstallFields
    <3> QED BY <2>2, <3>2 DEF GateInv
  <2>4. CASE ~LoadStillWanted
    BY <1>5, <2>2, <2>4 DEF LoadApply, GateInv
  <2> QED BY <2>3, <2>4
<1>6. CASE LoadCommit
  <2>1. loader'.step = "idle"
    BY <1>6 DEF LoadCommit, NotLoading
  <2>2. CASE NothingSeen
    <3> DEFINE b == [auth EXCEPT !.state = "OPEN", !.credential = NoCredential]
    <3>1. auth' = ClearTransient(b, TRUE)
      BY <1>6, <2>2 DEF LoadCommit
    <3>2. b \in AuthType /\ b.credential = NoCredential
      BY <1>a DEF AuthType
    <3> HIDE DEF b
    <3>3. auth'.credential = NoCredential
      BY <3>1, <3>2, ClearTransientFields
    <3> QED BY <2>1, <3>3 DEF GateInv
  <2>3. CASE ~NothingSeen /\ invalid
    <3>1. auth' = SetError(auth)
      BY <1>6, <2>3 DEF LoadCommit
    <3>2. auth'.credential = NoCredential
      BY <1>a, <3>1, SetErrorFields
    <3> QED BY <2>1, <3>2 DEF GateInv
  <2>4. CASE ~NothingSeen /\ ~invalid
    BY <1>6, <2>1, <2>4 DEF LoadCommit, GateInv
  <2> QED BY <2>2, <2>3, <2>4
<1>7. CASE Reboot
  BY <1>7 DEF Reboot, Zeroed, GateInv
<1>8. CASE UNCHANGED vars
  BY <1>8 DEF vars, GateInv, Applying
<1> QED BY <1>1, <1>2, <1>3, <1>4, <1>5, <1>6, <1>7, <1>8 DEF Next, SettingsLoad

---------------------------------------------------------------------------
\* Whatever Auth does, at any size, is what AuthGate allows: Protocol, which is written against
\* AuthGate, may be run with Auth.
THEOREM GateImplemented == Spec => ImplementsGate
<1>1. Init => Gate!Init /\ GateInv
  BY UpdateNow, UpdateOfNobody DEF Init, Zeroed, Gate!Init, Gate!NoUpdate, GateInv
<1>2. IInv /\ IInv' /\ GateInv /\ [Next]_vars => GateStep
  <2> SUFFICES ASSUME IInv, IInv', GateInv, [Next]_vars PROVE GateStep
    OBVIOUS
  <2>a. auth.session \in BOOLEAN /\ auth'.session \in BOOLEAN
    BY DEF IInv, TypeOK, AuthType
  <2>1. CASE \/ Tick \/ Observe \/ RefreshSession
             \/ ChallengeRefused \/ ChallengeRngFailed \/ ChallengeIssued
             \/ VerifyProof \/ Lock \/ TransportReset
    BY <2>a, <2>1, StructGate, SessionStep
  <2>2. CASE UNCHANGED vars
    <3>1. UpdateInProgress' = UpdateInProgress
      BY <2>2, UpdateNow DEF vars
    <3> QED BY <2>2, <3>1 DEF vars, GateStep, Gate!gateVars
  <2> QED BY <2>1, <2>2, SetCredentialGate, SettingsLoadGate, RebootGate DEF Next
<1> QED BY <1>1, <1>2, Inductive, NextGateInv, PTL DEF Spec, ImplementsGate, Gate!Spec, GateStep
=============================================================================
