----------------------------- MODULE AuthGate -----------------------------
(***************************************************************************)
(* What src/src/runtime_macro_auth.c promises the protocol: whether the    *)
(* device is open, protected or locked, whether a session is open, which   *)
(* credential is in force and which is stored, and the stages of a         *)
(* set_credential.  Challenges, cooldowns and deadlines are hidden: a      *)
(* proof may be accepted at any time and a session may end at any time.    *)
(* Auth implements this specification; Protocol is written against it.     *)
(***************************************************************************)

CONSTANTS Credentials, NoCredential

VARIABLES
    state,       \* enum zmk_runtime_macro_auth_state
    session,     \* session_authenticated
    credential,  \* the credential proofs are verified with
    stored,      \* what settings hold: a credential, NoCredential, or garbage
    update,      \* the set_credential in progress: its stage and its credential
    booted       \* the boot-time settings_load has committed

gateVars == <<state, session, credential, stored, update, booted>>

NoUpdate == [stage |-> "none", credential |-> NoCredential]

Init ==
    /\ state = "OPEN" /\ session = FALSE /\ credential = NoCredential
    /\ update = NoUpdate
    /\ booted = FALSE

\* The session ends: expiry, LOCK, transport reset, or an attempted proof.
Close ==
    /\ session
    /\ session' = FALSE
    /\ UNCHANGED <<state, credential, stored, update, booted>>

Prove ==
    /\ booted
    /\ state = "PROTECTED"
    /\ session' = TRUE
    /\ UNCHANGED <<state, credential, stored, update, booted>>

Authorised == state = "OPEN" \/ (state = "PROTECTED" /\ session)

Check(c) ==
    /\ booted
    /\ update = NoUpdate
    /\ Authorised
    /\ update' = [stage |-> "save", credential |-> c]
    /\ UNCHANGED <<state, session, credential, stored, booted>>

Save ==
    /\ update.stage = "save"
    /\ stored' = update.credential
    /\ update' = [update EXCEPT !.stage = "apply"]
    /\ UNCHANGED <<state, session, credential, booted>>

SaveFailed ==
    /\ update.stage = "save"
    /\ update' = NoUpdate
    /\ UNCHANGED <<state, session, credential, stored, booted>>

Apply ==
    /\ update.stage = "apply"
    /\ state' = "PROTECTED" /\ session' = FALSE /\ credential' = update.credential
    /\ update' = NoUpdate
    /\ UNCHANGED <<stored, booted>>

---------------------------------------------------------------------------
(* Settings are loaded while something is stored: the device locks first, *)
(* and unlocks to PROTECTED when a credential could be read.              *)

Fail ==
    /\ stored # NoCredential
    /\ state' = "ERROR_LOCKED" /\ session' = FALSE /\ credential' = NoCredential
    /\ UNCHANGED <<stored, update, booted>>

\* Only to what is stored.  The loader reads a credential once in a boot: while the device is
\* running, that can only be the first credential, saved and about to be applied.  Any other
\* reload leaves the device locked.
Restore ==
    /\ state = "ERROR_LOCKED"
    /\ ~booted \/ update.stage = "apply"
    /\ stored \in Credentials
    /\ credential' = stored
    /\ state' = "PROTECTED" /\ session' = FALSE
    /\ UNCHANGED <<stored, update, booted>>

\* The boot-time load commits: OPEN only if there is nothing stored.
Boot ==
    /\ ~booted
    /\ state = "OPEN" => stored = NoCredential
    /\ booted' = TRUE
    /\ UNCHANGED <<state, session, credential, stored, update>>

Reboot ==
    /\ state' = "OPEN" /\ session' = FALSE /\ credential' = NoCredential
    /\ update' = NoUpdate
    /\ booted' = FALSE
    /\ UNCHANGED stored

Next ==
    \/ Close \/ Prove
    \/ \E c \in Credentials : Check(c)
    \/ Save \/ SaveFailed \/ Apply
    \/ Fail \/ Restore \/ Boot \/ Reboot

Spec == Init /\ [][Next]_gateVars
=============================================================================
