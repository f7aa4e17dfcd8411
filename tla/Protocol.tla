----------------------------- MODULE Protocol -----------------------------
(***************************************************************************)
(* zmk_runtime_macro_protocol_process of src/src/runtime_macro_protocol.c: *)
(* one request at a time, served in the steps between which it looks at    *)
(* the authentication state, while sessions expire, settings are reloaded  *)
(* and power is lost between them.  The authentication core is what        *)
(* AuthGate promises of it.  A dynamic upload is here the identity of its  *)
(* transaction only (DynamicTransaction has the rest), and the slots are   *)
(* what a request has done to them.                                        *)
(***************************************************************************)
EXTENDS Integers, FiniteSets

CONSTANTS
    Credentials, NoCredential, Malformed,  \* as in Auth
    Ids,             \* identities of a transaction: the request identifier and the slot
    MaxText,         \* CONFIG_ZMK_RUNTIME_MACRO_MAX_TEXT_LEN, in units of text
    PasswordLength,  \* ZMK_RUNTIME_MACRO_PROTOCOL_PASSWORD_SET_LENGTH, in units
    MaxWindow        \* bound on the authorisations of one boot

ASSUME ProtocolAssumption ==
    /\ NoCredential \notin Credentials
    /\ Malformed \notin Credentials \cup {NoCredential}
    /\ MaxText \in Nat \ {0} /\ PasswordLength \in Nat \ {0} /\ MaxWindow \in Nat

VARIABLES
    state, session, credential, stored, update, booted,  \* the authentication core
    tx,      \* struct zmk_runtime_macro_protocol: its SET, PASSWORD_SET and dynamic parts
    known,   \* auth_state_known, auth_state, auth_session_authenticated
    job,     \* the request being served or answered last
    window   \* history: how often the right to manage macros was won or lost in this boot

Auth == INSTANCE AuthGate

authVars == <<state, session, credential, stored, update, booted>>
vars == <<state, session, credential, stored, update, booted, tx, known, job, window>>

Kinds == {"SET", "PASSWORD_SET", "DYNAMIC"}
Dynamic == {"DYNAMIC_BEGIN", "DYNAMIC_DATA", "DYNAMIC_CLEAR"}
Reads == {"LIST", "GET"}
Management == Reads \cup {"SET", "CLEAR", "PASSWORD_SET"}
Asks == {"CAPABILITIES", "AUTH_INFO", "AUTH_CHALLENGE"}
Opcodes == Management \cup Dynamic \cup Asks \cup {"AUTH_PROVE", "LOCK"}

(***************************************************************************)
(* tx[k].windows, job.windows: the windows in which the requests that      *)
(* brought these bytes (those just committed) were admitted.  job.window   *)
(* and job.allowed: the window, and the right to manage macros, when this  *)
(* request was admitted.  job.effect: what it has done so far.             *)
(***************************************************************************)

NoTx == [active |-> FALSE, id |-> 0, total |-> 0, received |-> 0, windows |-> {}]
NoTransactions == [k \in Kinds |-> NoTx]
NotKnown == [valid |-> FALSE, state |-> "OPEN", session |-> FALSE]
NoJob == [op |-> "none", step |-> "done", read |-> "OPEN", window |-> 0, allowed |-> FALSE,
          windows |-> {}, effect |-> "none", status |-> "OK"]

Init ==
    /\ Auth!Init
    /\ stored \in Credentials \cup {NoCredential, Malformed}
    /\ tx = NoTransactions /\ known = NotKnown /\ job = NoJob /\ window = 0

\* The history variable's part of every step but an accepted proof, which always counts.
Counted ==
    window' = IF Auth!Authorised' = Auth!Authorised THEN window ELSE window + 1

IsAuthenticated == state = "PROTECTED" /\ session

---------------------------------------------------------------------------
(* Parts of the handlers. *)

AnsweredAs(j, status) == [j EXCEPT !.step = "done", !.read = "OPEN", !.status = status]

Answer(status) == job' = AnsweredAs(job, status)

\* runtime_macro_protocol_set_error: no payload leaves with an error.
Error(status) ==
    job' = AnsweredAs([job EXCEPT !.effect = IF @ = "data" THEN "none" ELSE @], status)

\* zmk_runtime_macro_protocol_discard.
Discard == tx' = NoTransactions /\ known' = NotKnown

\* Wrong variant of DiscardForOpcode: a bad frame costs every transaction.
DiscardForAny(op) == IF op \in Asks THEN tx ELSE NoTransactions

DiscardForOpcode(op) ==
    [k \in Kinds |-> IF \/ k = op
                        \/ k = "DYNAMIC" /\ op \in {"DYNAMIC_BEGIN", "DYNAMIC_DATA"}
                       THEN NoTx ELSE tx[k]]

Cleared(k) == [tx EXCEPT ![k] = NoTx]

Quiet == UNCHANGED authVars

Admitted(step) ==
    job' = [job EXCEPT !.step = step, !.read = "OPEN", !.window = window,
                       !.allowed = Auth!Authorised]

---------------------------------------------------------------------------
(* zmk_runtime_macro_protocol_process up to the switch. *)

Receive(op) ==
    /\ booted
    /\ job.step = "done"
    /\ job' = [NoJob EXCEPT !.op = op, !.step = "sync", !.read = state]
    /\ UNCHANGED <<tx, known>>
    /\ Quiet

Observed == [valid |-> TRUE, state |-> job.read,
             session |-> job.read = "PROTECTED" /\ IsAuthenticated]

Differs == known.valid /\ known # Observed

Synced == IF Differs THEN NoTransactions ELSE tx

Sync(accepted) ==
    /\ job.step = "sync"
    /\ known' = Observed
    /\ IF accepted
         THEN /\ Admitted(IF job.op \in Management THEN "access" ELSE "run")
              /\ tx' = Synced
         ELSE /\ Error("BAD")
              /\ tx' = IF Differs THEN NoTransactions ELSE DiscardForOpcode(job.op)
    /\ Quiet

---------------------------------------------------------------------------
(* AUTH_*, LOCK, CAPABILITIES and DYNAMIC_*: open to everybody. *)

Run(op) == job.step = "run" /\ job.op = op

Ask ==
    /\ \E op \in Asks : Run(op)
    /\ Answer("OK") \/ Error("BAD")
    /\ UNCHANGED <<tx, known>>
    /\ Quiet

AfterProof == Discard

ProofAccepted ==
    /\ Run("AUTH_PROVE")
    /\ window < MaxWindow
    /\ Auth!Prove
    /\ AfterProof
    /\ Answer("OK")
    /\ window' = window + 1

\* Whatever stage of it fails; from the HMAC on the session is closed.
ProofFailed ==
    /\ Run("AUTH_PROVE")
    /\ Auth!Close \/ Quiet
    /\ Discard
    /\ Error("BAD")

Locked ==
    /\ Run("LOCK")
    /\ IF session THEN Auth!Close ELSE Quiet
    /\ Discard
    /\ Answer("OK")

LockRejected ==
    /\ Run("LOCK")
    /\ Error("BAD")
    /\ UNCHANGED <<tx, known>>
    /\ Quiet

Brought(k) == [tx[k] EXCEPT !.windows = @ \cup {job.window}]

DynamicBegun ==
    /\ Run("DYNAMIC_BEGIN")
    /\ tx' = [tx EXCEPT !["DYNAMIC"] = [NoTx EXCEPT !.active = TRUE, !.windows = {job.window}]]
    /\ Answer("OK")
    /\ UNCHANGED known
    /\ Quiet

DynamicContinued ==
    /\ Run("DYNAMIC_DATA")
    /\ tx["DYNAMIC"].active
    /\ \/ tx' = [tx EXCEPT !["DYNAMIC"] = Brought("DYNAMIC")] /\ Answer("OK")
       \/ /\ tx' = Cleared("DYNAMIC")
          /\ job' = AnsweredAs([job EXCEPT !.effect = "saved",
                                           !.windows = Brought("DYNAMIC").windows], "OK")
    /\ UNCHANGED known
    /\ Quiet

DynamicRefused ==
    /\ Run("DYNAMIC_BEGIN") \/ Run("DYNAMIC_DATA")
    /\ tx' = Cleared("DYNAMIC")
    /\ Error("BAD")
    /\ UNCHANGED known
    /\ Quiet

DynamicCleared ==
    /\ Run("DYNAMIC_CLEAR")
    /\ \/ tx' \in {tx, Cleared("DYNAMIC")} /\ Answer("OK")
       \/ UNCHANGED tx /\ Error("BAD")
    /\ UNCHANGED known
    /\ Quiet

Unprotected ==
    \/ Ask \/ ProofFailed \/ Locked \/ LockRejected
    \/ DynamicBegun \/ DynamicContinued \/ DynamicRefused \/ DynamicCleared

---------------------------------------------------------------------------
(* runtime_macro_protocol_management_access: the state, then the session. *)

Refused(status) == Discard /\ Error(status) /\ Quiet

AccessState ==
    /\ job.step = "access"
    /\ \/ state = "ERROR_LOCKED" /\ Refused("CREDENTIAL_INVALID")
       \/ state = "OPEN" /\ Admitted("run") /\ UNCHANGED <<tx, known>> /\ Quiet
       \/ /\ state = "PROTECTED"
          /\ job' = [job EXCEPT !.step = "session"]
          /\ UNCHANGED <<tx, known>> /\ Quiet

\* Wrong variant of SessionAllows: the session seen by sync_auth_state is taken for today's.
SessionWasSeen == known.session

SessionAllows == IsAuthenticated

AccessSession ==
    /\ job.step = "session"
    /\ IF SessionAllows
         THEN Admitted("run") /\ UNCHANGED <<tx, known>> /\ Quiet
         ELSE Refused("AUTH_REQUIRED")

---------------------------------------------------------------------------
(* LIST, GET, SET, CLEAR and the chunks of PASSWORD_SET. *)

\* The handler is done; its success still waits for the session to be refreshed.
Succeeded(effect) == job' = [job EXCEPT !.step = "refresh", !.effect = effect]

Read ==
    /\ \E op \in Reads : Run(op)
    /\ Succeeded("data") \/ Error("BAD")
    /\ UNCHANGED <<tx, known>>
    /\ Quiet

\* The slot is cleared in RAM before its key is deleted.
Clear ==
    /\ Run("CLEAR")
    /\ \/ Succeeded("saved")
       \/ Error("BAD")
       \/ job' = AnsweredAs([job EXCEPT !.effect = "changed"], "STORAGE_ERROR")
    /\ UNCHANGED <<tx, known>>
    /\ Quiet

Chunks(total) ==
    {f \in [id : Ids, total : {total}, offset : 0..total, length : 0..total] :
        /\ f.length <= f.total - f.offset
        /\ f.length # 0 \/ f.total = 0}

\* Wrong variant of Continues: the offset is not compared with what was received.
AnyOffset(t, f) == t.active /\ t.id = f.id /\ t.total = f.total

Continues(t, f) ==
    t.active /\ t.id = f.id /\ t.total = f.total /\ t.received = f.offset

Extended(k, f) ==
    LET begun == IF f.offset = 0 THEN [NoTx EXCEPT !.windows = {job.window}] ELSE Brought(k)
    IN  [begun EXCEPT !.active = TRUE, !.id = f.id, !.total = f.total,
                      !.received = @ + f.length]

Complete(k, f) == Extended(k, f).received = f.total

Takes(k, f) == f.offset = 0 \/ Continues(tx[k], f)

\* A chunk that does not fit: slot, lengths, offset, text or identity.
ChunkRejected(k) ==
    /\ Run(k)
    /\ tx' = Cleared(k)
    /\ Error("BAD")
    /\ UNCHANGED known
    /\ Quiet

ChunkStaged(k, f) ==
    /\ Run(k)
    /\ Takes(k, f)
    /\ ~Complete(k, f)
    /\ tx' = [tx EXCEPT ![k] = Extended(k, f)]
    /\ Succeeded("none")
    /\ UNCHANGED known
    /\ Quiet

\* The slot has the text in RAM before it is saved, and keeps it when that fails, even when the
\* settings store's error is -EINVAL and taken for one of the text.
SetCommitted(f) ==
    /\ Run("SET")
    /\ Takes("SET", f)
    /\ Complete("SET", f)
    /\ tx' = Cleared("SET")
    /\ LET committed == [job EXCEPT !.windows = Extended("SET", f).windows]
       IN  \/ job' = [committed EXCEPT !.step = "refresh", !.effect = "saved"]
           \/ \E status \in {"STORAGE_ERROR", "INVALID_TEXT"} :
                 job' = AnsweredAs([committed EXCEPT !.effect = "changed"], status)
    /\ UNCHANGED known
    /\ Quiet

PasswordComplete(f) ==
    /\ Run("PASSWORD_SET")
    /\ Takes("PASSWORD_SET", f)
    /\ Complete("PASSWORD_SET", f)

\* zmk_runtime_macro_auth_set_credential passes its check and goes on to its save.
PasswordChecked(f, c) ==
    /\ PasswordComplete(f)
    /\ Auth!Check(c)
    /\ tx' = [tx EXCEPT !["PASSWORD_SET"] = Extended("PASSWORD_SET", f)]
    /\ job' = [job EXCEPT !.step = "save", !.windows = Extended("PASSWORD_SET", f).windows]
    /\ UNCHANGED known

\* -EACCES discards everything, -EINVAL and -EPERM only the password.
PasswordNotAllowed(f) ==
    /\ PasswordComplete(f)
    /\ \/ state = "PROTECTED" /\ ~session /\ Discard /\ Error("AUTH_REQUIRED")
       \/ tx' = Cleared("PASSWORD_SET") /\ Error("CREDENTIAL_INVALID") /\ UNCHANGED known
    /\ Quiet

PasswordSaved ==
    /\ job.step = "save"
    /\ Auth!Save
    /\ job' = [job EXCEPT !.step = "apply", !.effect = "saved"]
    /\ UNCHANGED <<tx, known>>

\* The settings store's error is passed on, and answered like one of set_credential's own.
PasswordNotSaved ==
    /\ job.step = "save"
    /\ Auth!SaveFailed
    /\ \/ Discard /\ Error("AUTH_REQUIRED")
       \/ /\ tx' = Cleared("PASSWORD_SET")
          /\ UNCHANGED known
          /\ Error("CREDENTIAL_INVALID") \/ Error("STORAGE_ERROR")

\* Wrong variant of AfterPassword: the last chunk refreshes the session like the others.
RefreshesToo == Succeeded("saved")

\* No refresh: the new credential has closed the session.
AfterPassword == Answer("OK")

PasswordApplied ==
    /\ job.step = "apply"
    /\ Auth!Apply
    /\ Discard
    /\ AfterPassword

Serve ==
    \/ Read \/ Clear
    \/ \E k \in {"SET", "PASSWORD_SET"} : ChunkRejected(k)
    \/ \E total \in 0..MaxText : \E f \in Chunks(total) : ChunkStaged("SET", f) \/ SetCommitted(f)
    \/ \E f \in Chunks(PasswordLength) :
          \/ ChunkStaged("PASSWORD_SET", f)
          \/ \E c \in Credentials : PasswordChecked(f, c)
          \/ PasswordNotAllowed(f)
    \/ PasswordSaved \/ PasswordNotSaved \/ PasswordApplied

---------------------------------------------------------------------------
(* runtime_macro_protocol_refresh_protected_session: the state, then the session. *)

RefreshState ==
    /\ job.step = "refresh"
    /\ IF state # "PROTECTED" THEN Answer("OK") ELSE job' = [job EXCEPT !.step = "renew"]
    /\ UNCHANGED <<tx, known>>
    /\ Quiet

RefreshSession ==
    /\ job.step = "renew"
    /\ IF IsAuthenticated
         THEN Answer("OK") /\ UNCHANGED <<tx, known>> /\ Quiet
         ELSE Discard /\ Error("AUTH_REQUIRED") /\ Quiet

Process ==
    \/ \E op \in Opcodes : Receive(op)
    \/ \E accepted \in BOOLEAN : Sync(accepted)
    \/ Unprotected
    \/ AccessState \/ AccessSession
    \/ Serve
    \/ RefreshState \/ RefreshSession

---------------------------------------------------------------------------
(* What happens beside the requests. *)

\* runtime_macro_usb_hid_transport_reset, on the work queue that also serves the requests.
TransportReset ==
    /\ job.step = "done"
    /\ IF session THEN Auth!Close ELSE Quiet
    /\ Discard
    /\ job' = NoJob

\* The inactivity timeout of a dynamic upload.
DynamicDropped ==
    /\ tx["DYNAMIC"].active
    /\ tx' = Cleared("DYNAMIC")
    /\ UNCHANGED <<known, job>>
    /\ Quiet

\* Session expiry, and settings loads.
AuthAlone ==
    /\ Auth!Close \/ Auth!Fail \/ Auth!Restore \/ Auth!Boot
    /\ UNCHANGED <<tx, known, job>>

Reboot ==
    /\ Auth!Reboot
    /\ Discard
    /\ job' = NoJob
    /\ window' = 0

Next ==
    \/ (Process \/ TransportReset \/ DynamicDropped \/ AuthAlone) /\ Counted
    \/ ProofAccepted
    \/ Reboot

Spec == Init /\ [][Next]_vars

---------------------------------------------------------------------------
Steps == {"sync", "run", "access", "session", "refresh", "renew", "save", "apply", "done"}

TypeOK ==
    /\ tx \in [Kinds -> [active : BOOLEAN, id : Ids \cup {0}, total : 0..MaxText + PasswordLength,
                         received : 0..MaxText + PasswordLength,
                         windows : SUBSET (0..MaxWindow + 1)]]
    /\ \A k \in Kinds : tx[k].received <= tx[k].total
    /\ known.state \in {"OPEN", "PROTECTED", "ERROR_LOCKED"}
    /\ job.step \in Steps /\ job.op \in Opcodes \cup {"none"}
    /\ update.credential \in Credentials \cup {NoCredential}
    /\ window \in 0..MaxWindow + 1

\* Bytes of two authorisations never meet in one text, password or upload: whatever ends a
\* session, and whenever it does, nothing begun before is continued after the next login, not
\* even when the device looks the same again.  And a management request only takes effect when
\* it was let in while the device was open or the session running.
OneWindow ==
    /\ \A k \in Kinds : Cardinality(tx[k].windows) <= 1
    /\ Cardinality(job.windows) <= 1
    /\ job.op \in Management /\ job.effect # "none" => job.allowed

\* The answer is true of what was done.  OK: the text or the credential is saved.  Any other
\* answer: nothing was read or changed, except that STORAGE_ERROR leaves a slot changed in RAM,
\* as does the INVALID_TEXT that a save's -EINVAL is answered with, and AUTH_REQUIRED says that the
\* session which let the request in is over, in which case the slot may have been saved.  A
\* PASSWORD_SET that replaced the credential always says so.
TrueAnswers ==
    job.step = "done" =>
        /\ job.status = "OK" /\ job.windows # {} => job.effect = "saved"
        /\ job.status = "OK" => job.effect # "changed"
        /\ job.status # "OK" =>
              \/ job.effect = "none"
              \/ job.effect = "changed" /\ job.status \in {"STORAGE_ERROR", "INVALID_TEXT"}
              \/ /\ job.effect = "saved" /\ job.status = "AUTH_REQUIRED"
                 /\ job.op \in {"SET", "CLEAR"} /\ job.window # window

\* The three transactions do not disturb each other: while the authorisation they belong to
\* lasts, only a login, a LOCK or a replaced credential takes one away together with the others,
\* and a save whose -EACCES is taken for a lost session; every other request, served well or
\* refused, leaves the transactions of other kinds alone.
Independent ==
    [][ \A k \in Kinds :
             /\ job.step # "done" /\ job' # job /\ booted'
             /\ tx[k].active /\ tx[k].windows = {window} /\ Auth!Authorised
             /\ k # job.op /\ ~(k = "DYNAMIC" /\ job.op \in Dynamic)
             /\ job.op \notin {"AUTH_PROVE", "LOCK"} /\ job.step # "apply"
             /\ ~(job.step = "save" /\ job'.status = "AUTH_REQUIRED")
          => tx'[k] = tx[k] ]_vars

=============================================================================
