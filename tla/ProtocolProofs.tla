--------------------------- MODULE ProtocolProofs ---------------------------
(***************************************************************************)
(* Proofs, for any credentials, identities and lengths and any number of   *)
(* authorisations, of the safety properties of Protocol.                   *)
(***************************************************************************)
EXTENDS Protocol, FiniteSetTheorems, TLAPS

States == {"OPEN", "PROTECTED", "ERROR_LOCKED"}

SaveErrors == {"STORAGE_ERROR", "INVALID_TEXT"}
Statuses == {"OK", "BAD", "CREDENTIAL_INVALID", "AUTH_REQUIRED"} \cup SaveErrors

JobType ==
    [op : Opcodes \cup {"none"}, step : Steps, read : States, window : Nat, allowed : BOOLEAN,
     windows : SUBSET Nat, effect : {"none", "data", "saved", "changed"},
     status : Statuses]

TxType ==
    [active : BOOLEAN, id : Ids \cup {0}, total : 0..MaxText + PasswordLength,
     received : 0..MaxText + PasswordLength, windows : SUBSET (0..MaxWindow + 1)]

Types ==
    /\ TypeOK
    /\ state \in States /\ session \in BOOLEAN /\ booted \in BOOLEAN
    /\ update \in [stage : {"none", "save", "apply"}, credential : Credentials \cup {NoCredential}]
    /\ known \in [valid : BOOLEAN, state : States, session : BOOLEAN]
    /\ job \in JobType
    /\ Auth!Authorised => window <= MaxWindow

Authorised == Auth!Authorised

\* The authentication core and the request that drives it.  While nothing is stored no load can
\* take an open device away.
Core ==
    /\ session => state = "PROTECTED"
    /\ booted /\ state = "OPEN" /\ update.stage # "apply" => stored = NoCredential
    /\ job.step # "done" => booted
    /\ update.stage = CASE job.step = "save" -> "save"
                        [] job.step = "apply" -> "apply"
                        [] OTHER -> "none"
    /\ update.stage = "none" => update = Auth!NoUpdate
    /\ job.step \in {"session", "renew"} => state # "OPEN"

\* What sync_auth_state would note now.
View == [valid |-> TRUE, state |-> state, session |-> session]

KnownAuthorised == known.state = "OPEN" \/ known.session

\* The first read of a request is still right in what matters at the second.
ReadIsRecent ==
    job.step = "sync" => /\ job.read = "OPEN" <=> state = "OPEN"
                         /\ session => job.read = "PROTECTED"

\* What is known is out of date only when a right has been lost since; so whatever was begun with
\* that right will be seen to be old.
KnownIsOld ==
    /\ job.step \notin {"done", "sync"} =>
          /\ known.valid
          /\ Authorised => known = View
          /\ job.window # window => KnownAuthorised
    /\ \A k \in Kinds : tx[k].windows # {} =>
          /\ known.valid
          /\ Authorised => known = View
          /\ window \notin tx[k].windows => KnownAuthorised

\* Transactions are of one window, which is over only if nothing is allowed now.
TxWindows ==
    \A k \in Kinds : \A w \in tx[k].windows :
        /\ w <= window /\ (Authorised => w = window)
        /\ \A v \in tx[k].windows : v = w
        /\ job.step \in {"access", "session", "run"} => w = job.window

\* So is what a request has committed; and the request remembers how it was let in.
JobWindows ==
    /\ job.window <= window
    /\ \A w \in job.windows : w = job.window
    /\ job.step \notin {"done", "sync"} =>
          IF job.window = window THEN job.allowed = Authorised ELSE ~Authorised
    /\ job.op \in Management /\ job.step \in {"run", "refresh", "renew", "save", "apply"} =>
          job.allowed
    /\ job.op \in Management /\ job.effect # "none" => job.allowed

\* What a request that is not answered yet can have done.
Unanswered ==
    /\ job.step \in {"sync", "access", "session", "run"} => job.effect = "none" /\ job.windows = {}
    /\ job.step \in {"refresh", "renew"} =>
          /\ job.op \in Management
          /\ job.effect \in {"none", "data", "saved"}
          /\ job.effect = "saved" => job.op \in {"SET", "CLEAR"}
          /\ job.windows # {} => job.effect = "saved"
    /\ job.step = "save" => job.effect = "none" /\ job.op = "PASSWORD_SET"
    /\ job.step = "apply" => job.effect = "saved" /\ job.op = "PASSWORD_SET"
    /\ job.step \in {"access", "session"} => job.op \in Management

IInv ==
    /\ Types /\ Core /\ ReadIsRecent /\ KnownIsOld
    /\ TxWindows /\ JobWindows /\ Unanswered /\ TrueAnswers

---------------------------------------------------------------------------
(* The parts of a step. *)

LEMMA NoTxFacts ==
    /\ NoTx \in TxType /\ NoTx.windows = {} /\ ~NoTx.active /\ NoTx.received = 0 /\ NoTx.total = 0
    /\ NoTransactions \in [Kinds -> TxType]
    /\ \A k \in Kinds : NoTransactions[k] = NoTx
<1>1. 0 \in 0..MaxText + PasswordLength
  BY ProtocolAssumption
<1>2. NoTx \in TxType
  BY <1>1 DEF NoTx, TxType
<1> QED BY <1>2 DEF NoTx, NoTransactions

LEMMA TypesUnfolded ==
    Types <=>
      /\ tx \in [Kinds -> TxType]
      /\ \A k \in Kinds : tx[k].received <= tx[k].total
      /\ window \in 0..MaxWindow + 1
      /\ state \in States /\ session \in BOOLEAN /\ booted \in BOOLEAN
      /\ update \in [stage : {"none", "save", "apply"}, credential : Credentials \cup {NoCredential}]
      /\ known \in [valid : BOOLEAN, state : States, session : BOOLEAN]
      /\ job \in JobType
      /\ Authorised => window <= MaxWindow
BY DEF Types, TypeOK, TxType, JobType, States, Authorised

LEMMA TypesKept ==
    ASSUME Types, UNCHANGED <<state, session, update, booted, window, tx, known>>, job' \in JobType
    PROVE  Types'
<1>1. Authorised' = Authorised
  BY DEF Authorised, Auth!Authorised
<1> QED BY <1>1, TypesUnfolded DEF Types, TypeOK, TxType, JobType, States, Authorised

LEMMA QuietFacts ==
    ASSUME Quiet, Counted
    PROVE  /\ UNCHANGED <<state, session, credential, stored, update, booted, window>>
           /\ Authorised' = Authorised /\ View' = View
BY DEF Quiet, Counted, authVars, Authorised, Auth!Authorised, View

LEMMA AnsweredFacts ==
    ASSUME NEW j \in JobType, NEW status \in Statuses, NEW a, a = AnsweredAs(j, status)
    PROVE  /\ a \in JobType /\ a.step = "done" /\ a.status = status
           /\ a.op = j.op /\ a.window = j.window /\ a.allowed = j.allowed
           /\ a.windows = j.windows /\ a.effect = j.effect
<1>1. "done" \in Steps /\ "OPEN" \in States
  BY DEF Steps, States
<1>2. a = [j EXCEPT !.step = "done", !.read = "OPEN", !.status = status]
  BY DEF AnsweredAs
<1>3. a \in JobType
  BY <1>1, <1>2 DEF JobType
<1>4. /\ a.step = "done" /\ a.status = status
      /\ a.op = j.op /\ a.window = j.window /\ a.allowed = j.allowed
      /\ a.windows = j.windows /\ a.effect = j.effect
  BY <1>2 DEF JobType
<1> QED BY <1>3, <1>4

LEMMA AnswerFacts ==
    ASSUME job \in JobType, NEW status \in Statuses, Answer(status)
    PROVE  /\ job' \in JobType /\ job'.step = "done" /\ job'.status = status
           /\ job'.op = job.op /\ job'.window = job.window /\ job'.allowed = job.allowed
           /\ job'.windows = job.windows /\ job'.effect = job.effect
BY AnsweredFacts DEF Answer

LEMMA ErrorFacts ==
    ASSUME job \in JobType, NEW status \in Statuses, Error(status)
    PROVE  /\ job' \in JobType /\ job'.step = "done" /\ job'.status = status
           /\ job'.op = job.op /\ job'.window = job.window /\ job'.allowed = job.allowed
           /\ job'.windows = job.windows
           /\ job'.effect = IF job.effect = "data" THEN "none" ELSE job.effect
<1> DEFINE j == [job EXCEPT !.effect = IF job.effect = "data" THEN "none" ELSE job.effect]
<1>1. /\ j \in JobType
      /\ j.op = job.op /\ j.window = job.window /\ j.allowed = job.allowed
      /\ j.windows = job.windows
      /\ j.effect = IF job.effect = "data" THEN "none" ELSE job.effect
  BY DEF JobType
<1>2. job' = AnsweredAs(j, status)
  BY DEF Error
<1> HIDE DEF j
<1> QED BY <1>1, <1>2, AnsweredFacts

LEMMA AdmittedFacts ==
    ASSUME job \in JobType, NEW step \in Steps, window \in Nat, Admitted(step)
    PROVE  /\ job' \in JobType /\ job'.step = step /\ job'.op = job.op
           /\ job'.window = window /\ job'.allowed = Authorised
           /\ job'.windows = job.windows /\ job'.effect = job.effect
<1>1. Auth!Authorised \in BOOLEAN
  BY DEF Auth!Authorised
<1> QED BY <1>1 DEF Admitted, JobType, Steps, States, Authorised

LEMMA SucceededFacts ==
    ASSUME job \in JobType, NEW effect \in {"none", "data", "saved"}, Succeeded(effect)
    PROVE  /\ job' \in JobType /\ job'.step = "refresh" /\ job'.effect = effect
           /\ job'.op = job.op /\ job'.window = job.window /\ job'.allowed = job.allowed
           /\ job'.windows = job.windows
BY DEF Succeeded, JobType, Steps

LEMMA DiscardFacts ==
    ASSUME Discard
    PROVE  /\ tx' \in [Kinds -> TxType]
           /\ \A k \in Kinds : tx'[k] = NoTx
           /\ known' \in [valid : BOOLEAN, state : States, session : BOOLEAN]
BY NoTxFacts DEF Discard, NotKnown, States

LEMMA ClearedFacts ==
    ASSUME tx \in [Kinds -> TxType], NEW k \in Kinds, tx' = Cleared(k)
    PROVE  /\ tx' \in [Kinds -> TxType] /\ tx'[k] = NoTx
           /\ \A i \in Kinds \ {k} : tx'[i] = tx[i]
BY NoTxFacts DEF Cleared

\* Every transaction is kept as it is or dropped; what is known is dropped only with all of them.
Drops ==
    /\ tx' \in [Kinds -> TxType]
    /\ \A k \in Kinds : tx'[k] = NoTx \/ tx'[k] = tx[k]
    /\ \/ known' = known
       \/ /\ \A k \in Kinds : tx'[k] = NoTx
          /\ known' \in [valid : BOOLEAN, state : States, session : BOOLEAN]

LEMMA DropsFacts ==
    /\ Types /\ Discard => Drops
    /\ Types /\ UNCHANGED <<tx, known>> => Drops
    /\ \A k \in Kinds : Types /\ tx' = Cleared(k) /\ known' = known => Drops
<1>1. Types /\ Discard => Drops
  BY DiscardFacts DEF Drops
<1>2. Types /\ UNCHANGED <<tx, known>> => Drops
  BY TypesUnfolded DEF Drops
<1>3. ASSUME NEW k \in Kinds, Types, tx' = Cleared(k), known' = known
      PROVE  Drops
  BY <1>3, TypesUnfolded, ClearedFacts DEF Drops
<1> QED BY <1>1, <1>2, <1>3

\* A request is answered, and the authentication core is not touched.
LEMMA AnsweringStep ==
    ASSUME IInv, Quiet, Counted,
           job.step \notin {"done", "save", "apply"},
           job' \in JobType, job'.step = "done", job'.op = job.op, job'.window = job.window,
           job'.allowed = job.allowed,
           \A w \in job'.windows : w = job.window,
           job.op \in Management /\ job'.effect # "none" => job.allowed,
           TrueAnswers', Drops
    PROVE  IInv'
<1>1. /\ UNCHANGED <<state, session, credential, stored, update, booted, window>>
      /\ Authorised' = Authorised /\ View' = View
  BY QuietFacts
<1>2. Types'
  <2>1. \A k \in Kinds : tx'[k].received <= tx'[k].total
    BY TypesUnfolded, NoTxFacts DEF Drops, IInv
  <2>2. known' \in [valid : BOOLEAN, state : States, session : BOOLEAN]
    BY TypesUnfolded DEF Drops, IInv
  <2> QED BY <1>1, <2>1, <2>2, TypesUnfolded
        DEF IInv, Drops, Types, TypeOK, TxType, Authorised, JobType, States
<1>3. Core'
  BY <1>1 DEF IInv, Core, Auth!NoUpdate
<1>4. ReadIsRecent' /\ Unanswered'
  BY DEF ReadIsRecent, Unanswered
<1>5. KnownIsOld'
  BY <1>1, NoTxFacts DEF IInv, KnownIsOld, Drops, KnownAuthorised
<1>6. TxWindows'
  BY <1>1, NoTxFacts DEF IInv, TxWindows, Drops
<1>7. JobWindows'
  BY <1>1 DEF IInv, JobWindows
<1> QED BY <1>2, <1>3, <1>4, <1>5, <1>6, <1>7 DEF IInv

\* The same, for a request that has done nothing.
LEMMA PlainAnswerStep ==
    ASSUME IInv, Quiet, Counted,
           job.step \in {"sync", "access", "session", "run"},
           NEW status \in Statuses, Answer(status) \/ Error(status),
           Drops
    PROVE  IInv'
<1>1. job \in JobType /\ job.effect = "none" /\ job.windows = {}
  BY TypesUnfolded DEF IInv, Unanswered
<1>2. /\ job' \in JobType /\ job'.step = "done"
      /\ job'.op = job.op /\ job'.window = job.window /\ job'.allowed = job.allowed
      /\ job'.windows = {} /\ job'.effect = "none"
  BY <1>1, AnswerFacts, ErrorFacts
<1>3. TrueAnswers'
  BY <1>2 DEF TrueAnswers
<1> QED BY <1>2, <1>3, AnsweringStep

LEMMA CloseFacts ==
    ASSUME Types, Core, Auth!Close, Counted
    PROVE  /\ state = "PROTECTED" /\ state' = state /\ session' = FALSE
           /\ UNCHANGED <<credential, stored, update, booted>>
           /\ Authorised = TRUE /\ Authorised' = FALSE
           /\ window' = window + 1 /\ window' \in 0..MaxWindow + 1 /\ window \in Nat
<1>1. /\ state = "PROTECTED" /\ state' = state /\ session = TRUE /\ session' = FALSE
      /\ UNCHANGED <<credential, stored, update, booted>>
  BY TypesUnfolded DEF Core, Auth!Close
<1>2. Authorised = TRUE /\ Authorised' = FALSE
  BY <1>1 DEF Authorised, Auth!Authorised
<1>3. window \in 0..MaxWindow + 1 /\ window <= MaxWindow
  BY <1>2, TypesUnfolded
<1>4. window' = window + 1
  BY <1>2 DEF Counted, Authorised
<1> QED BY <1>1, <1>2, <1>3, <1>4, ProtocolAssumption

\* The session is closed by the request that is answered, and nothing is left of what was begun.
LEMMA ClosingAnswerStep ==
    ASSUME IInv, Auth!Close, Counted, Discard,
           job.step = "run",
           job' \in JobType, job'.step = "done", job'.op = job.op, job'.window = job.window,
           job'.windows = {}, job'.effect = "none"
    PROVE  IInv'
<1>1. /\ state = "PROTECTED" /\ state' = state /\ session' = FALSE
      /\ UNCHANGED <<credential, stored, update, booted>>
      /\ Authorised' = FALSE
      /\ window' = window + 1 /\ window' \in 0..MaxWindow + 1 /\ window \in Nat
  BY CloseFacts DEF IInv
<1>2. /\ tx' \in [Kinds -> TxType]
      /\ \A k \in Kinds : tx'[k] = NoTx
      /\ known' \in [valid : BOOLEAN, state : States, session : BOOLEAN]
  BY DiscardFacts
<1>3. Types'
  <2>1. \A k \in Kinds : tx'[k].received <= tx'[k].total
    BY <1>2, NoTxFacts
  <2> QED BY <1>1, <1>2, <2>1, TypesUnfolded
        DEF IInv, Types, TypeOK, TxType, Authorised, JobType, States
<1>4. Core'
  BY <1>1 DEF IInv, Core, Auth!NoUpdate
<1>5. ReadIsRecent' /\ Unanswered' /\ TrueAnswers'
  BY DEF ReadIsRecent, Unanswered, TrueAnswers
<1>6. KnownIsOld' /\ TxWindows'
  BY <1>2, NoTxFacts DEF KnownIsOld, TxWindows
<1>7. JobWindows'
  BY <1>1 DEF IInv, JobWindows, Types, JobType
<1> QED BY <1>3, <1>4, <1>5, <1>6, <1>7 DEF IInv

---------------------------------------------------------------------------
(* Requests that need no authorisation. *)

LEMMA AskStep == IInv /\ Ask /\ Counted => IInv'
<1> SUFFICES ASSUME IInv, Ask, Counted PROVE IInv'
  OBVIOUS
<1>1. Drops
  BY DropsFacts DEF Ask, IInv
<1> QED BY <1>1, PlainAnswerStep DEF Ask, Run, Statuses

LEMMA ProofFailedStep == IInv /\ ProofFailed /\ Counted => IInv'
<1> SUFFICES ASSUME IInv, ProofFailed, Counted PROVE IInv'
  OBVIOUS
<1>1. job.step = "run" /\ "BAD" \in Statuses /\ Discard /\ Error("BAD")
  BY DEF ProofFailed, Run, Statuses
<1>2. CASE Quiet
  BY <1>1, <1>2, DropsFacts, PlainAnswerStep DEF IInv
<1>3. CASE Auth!Close
  <2>1. job \in JobType /\ job.effect = "none" /\ job.windows = {}
    BY <1>1, TypesUnfolded DEF IInv, Unanswered
  <2> QED BY <1>1, <1>3, <2>1, ErrorFacts, ClosingAnswerStep
<1> QED BY <1>2, <1>3 DEF ProofFailed

LEMMA LockedStep == IInv /\ Locked /\ Counted => IInv'
<1> SUFFICES ASSUME IInv, Locked, Counted PROVE IInv'
  OBVIOUS
<1>1. job.step = "run" /\ "OK" \in Statuses /\ Discard /\ Answer("OK")
  BY DEF Locked, Run, Statuses
<1>2. CASE Quiet
  BY <1>1, <1>2, DropsFacts, PlainAnswerStep DEF IInv
<1>3. CASE Auth!Close
  <2>1. job \in JobType /\ job.effect = "none" /\ job.windows = {}
    BY <1>1, TypesUnfolded DEF IInv, Unanswered
  <2> QED BY <1>1, <1>3, <2>1, AnswerFacts, ClosingAnswerStep
<1> QED BY <1>2, <1>3 DEF Locked

LEMMA LockRejectedStep == IInv /\ LockRejected /\ Counted => IInv'
<1> SUFFICES ASSUME IInv, LockRejected, Counted PROVE IInv'
  OBVIOUS
<1>1. Drops
  BY DropsFacts DEF LockRejected, IInv
<1> QED BY <1>1, PlainAnswerStep DEF LockRejected, Run, Statuses

LEMMA DynamicRefusedStep == IInv /\ DynamicRefused /\ Counted => IInv'
<1> SUFFICES ASSUME IInv, DynamicRefused, Counted PROVE IInv'
  OBVIOUS
<1>1. Drops
  BY DropsFacts DEF DynamicRefused, IInv, Kinds
<1> QED BY <1>1, PlainAnswerStep DEF DynamicRefused, Run, Statuses

LEMMA DynamicClearedStep == IInv /\ DynamicCleared /\ Counted => IInv'
<1> SUFFICES ASSUME IInv, DynamicCleared, Counted PROVE IInv'
  OBVIOUS
<1>1. Drops
  BY DropsFacts DEF DynamicCleared, IInv, Kinds
<1> QED BY <1>1, PlainAnswerStep DEF DynamicCleared, Run, Statuses

---------------------------------------------------------------------------
(* Requests that bring bytes: one transaction gets some, or is over. *)

LEMMA BringingStep ==
    ASSUME IInv, job.step = "run",
           UNCHANGED <<state, session, stored, booted, window, known>>,
           update' \in [stage : {"none", "save", "apply"}, credential : Credentials \cup {NoCredential}],
           Core',
           NEW k \in Kinds,
           tx' \in [Kinds -> TxType],
           \A i \in Kinds \ {k} : tx'[i] = tx[i],
           \A w \in tx'[k].windows : w = job.window,
           tx'[k].received <= tx'[k].total,
           job' \in JobType, job'.step \in {"done", "refresh", "save"}, job'.op = job.op,
           job'.window = job.window, job'.allowed = job.allowed,
           \A w \in job'.windows : w = job.window,
           Unanswered', TrueAnswers'
    PROVE  IInv'
<1>1. Authorised' = Authorised /\ View' = View
  BY DEF Authorised, Auth!Authorised, View
<1>2. Types'
  <2>1. \A i \in Kinds : tx'[i].received <= tx'[i].total
    BY TypesUnfolded DEF IInv
  <2> QED BY <1>1, <2>1, TypesUnfolded
        DEF IInv, Types, TypeOK, TxType, Authorised, JobType, States
<1>3. ReadIsRecent'
  BY DEF ReadIsRecent
<1>4. KnownIsOld'
  BY <1>1 DEF IInv, KnownIsOld, KnownAuthorised
<1>5. TxWindows'
  BY <1>1 DEF IInv, TxWindows, JobWindows
<1>6. JobWindows'
  BY <1>1 DEF IInv, JobWindows
<1> QED BY <1>2, <1>3, <1>4, <1>5, <1>6 DEF IInv

\* A quiet step of that kind.
LEMMA QuietBringing ==
    ASSUME IInv, Quiet, Counted, job.step = "run", known' = known, job'.step \in {"done", "refresh"}
    PROVE  /\ UNCHANGED <<state, session, stored, booted, window, known>>
           /\ update' \in [stage : {"none", "save", "apply"}, credential : Credentials \cup {NoCredential}]
           /\ Core'
BY QuietFacts, TypesUnfolded DEF IInv, Core, Auth!NoUpdate

LEMMA WindowTypes ==
    ASSUME IInv
    PROVE  job.window \in 0..MaxWindow + 1 /\ window \in Nat /\ MaxWindow \in Nat
BY TypesUnfolded, ProtocolAssumption DEF IInv, JobWindows, JobType

LEMMA BroughtFacts ==
    ASSUME IInv, job.step = "run", NEW k \in Kinds
    PROVE  /\ Brought(k) \in TxType
           /\ \A w \in Brought(k).windows : w = job.window
           /\ Brought(k).received = tx[k].received /\ Brought(k).total = tx[k].total
           /\ Brought(k).active = tx[k].active /\ Brought(k).id = tx[k].id
<1>1. tx[k] \in TxType /\ \A w \in tx[k].windows : w = job.window
  BY TypesUnfolded DEF IInv, TxWindows
<1>2. tx[k].windows \cup {job.window} \in SUBSET (0..MaxWindow + 1)
  BY <1>1, WindowTypes DEF TxType
<1>3. Brought(k) = [tx[k] EXCEPT !.windows = tx[k].windows \cup {job.window}]
  BY DEF Brought
<1> QED BY <1>1, <1>2, <1>3 DEF TxType

LEMMA DynamicBegunStep == IInv /\ DynamicBegun /\ Counted => IInv'
<1> SUFFICES ASSUME IInv, DynamicBegun, Counted PROVE IInv'
  OBVIOUS
<1> DEFINE t == [NoTx EXCEPT !.active = TRUE, !.windows = {job.window}]
<1>1. {job.window} \in SUBSET (0..MaxWindow + 1)
  BY WindowTypes
<1>2. t \in TxType /\ t.received <= t.total /\ \A w \in t.windows : w = job.window
  <2>1. NoTx \in TxType /\ NoTx.received = 0 /\ NoTx.total = 0
    BY NoTxFacts
  <2>2. t \in TxType /\ t.received = 0 /\ t.total = 0 /\ t.windows = {job.window}
    BY <1>1, <2>1 DEF TxType
  <2> HIDE DEF t
  <2> QED BY <2>2
<1>3. /\ job.step = "run" /\ job.op = "DYNAMIC_BEGIN" /\ "OK" \in Statuses /\ Answer("OK")
      /\ known' = known /\ Quiet /\ tx' = [tx EXCEPT !["DYNAMIC"] = t]
  BY DEF DynamicBegun, Run, Statuses
<1> HIDE DEF t
<1>4. /\ "DYNAMIC" \in Kinds
      /\ tx' \in [Kinds -> TxType] /\ tx'["DYNAMIC"] = t
      /\ \A i \in Kinds \ {"DYNAMIC"} : tx'[i] = tx[i]
  BY <1>2, <1>3, TypesUnfolded DEF IInv, Kinds
<1>5. job \in JobType /\ job.effect = "none" /\ job.windows = {}
  BY <1>3, TypesUnfolded DEF IInv, Unanswered
<1>6. /\ job' \in JobType /\ job'.step = "done" /\ job'.op = job.op
      /\ job'.window = job.window /\ job'.allowed = job.allowed
      /\ job'.windows = {} /\ job'.effect = "none"
  BY <1>3, <1>5, AnswerFacts
<1>7. Unanswered' /\ TrueAnswers'
  BY <1>6 DEF Unanswered, TrueAnswers
<1> QED BY <1>2, <1>3, <1>4, <1>6, <1>7, QuietBringing, BringingStep

LEMMA DynamicContinuedStep == IInv /\ DynamicContinued /\ Counted => IInv'
<1> SUFFICES ASSUME IInv, DynamicContinued, Counted PROVE IInv'
  OBVIOUS
<1>1. /\ job.step = "run" /\ job.op = "DYNAMIC_DATA" /\ "OK" \in Statuses
      /\ known' = known /\ Quiet /\ "DYNAMIC" \in Kinds
      /\ job \in JobType /\ job.effect = "none" /\ job.windows = {}
  BY TypesUnfolded DEF DynamicContinued, Run, Statuses, Kinds, IInv, Unanswered
<1>2. /\ Brought("DYNAMIC") \in TxType
      /\ \A w \in Brought("DYNAMIC").windows : w = job.window
      /\ Brought("DYNAMIC").received <= Brought("DYNAMIC").total
  BY <1>1, BroughtFacts, TypesUnfolded DEF IInv
<1>3. CASE tx' = [tx EXCEPT !["DYNAMIC"] = Brought("DYNAMIC")] /\ Answer("OK")
  <2>1. /\ tx' \in [Kinds -> TxType] /\ tx'["DYNAMIC"] = Brought("DYNAMIC")
        /\ \A i \in Kinds \ {"DYNAMIC"} : tx'[i] = tx[i]
    BY <1>1, <1>2, <1>3, TypesUnfolded DEF IInv
  <2>2. /\ job' \in JobType /\ job'.step = "done" /\ job'.op = job.op
        /\ job'.window = job.window /\ job'.allowed = job.allowed
        /\ job'.windows = {} /\ job'.effect = "none"
    BY <1>1, <1>3, AnswerFacts
  <2>3. Unanswered' /\ TrueAnswers'
    BY <2>2 DEF Unanswered, TrueAnswers
  <2> QED BY <1>1, <1>2, <2>1, <2>2, <2>3, QuietBringing, BringingStep
<1>4. CASE /\ tx' = Cleared("DYNAMIC")
           /\ job' = AnsweredAs([job EXCEPT !.effect = "saved",
                                            !.windows = Brought("DYNAMIC").windows], "OK")
  <2>1. /\ tx' \in [Kinds -> TxType] /\ tx'["DYNAMIC"] = NoTx
        /\ \A i \in Kinds \ {"DYNAMIC"} : tx'[i] = tx[i]
    BY <1>1, <1>4, ClearedFacts, TypesUnfolded DEF IInv
  <2>2. Brought("DYNAMIC").windows \in SUBSET Nat
    BY <1>2 DEF TxType
  <2> DEFINE j == [job EXCEPT !.effect = "saved", !.windows = Brought("DYNAMIC").windows]
  <2>3. /\ j \in JobType /\ j.op = job.op /\ j.window = job.window /\ j.allowed = job.allowed
        /\ j.effect = "saved" /\ j.windows = Brought("DYNAMIC").windows
    BY <1>1, <2>2 DEF JobType
  <2>4. job' = AnsweredAs(j, "OK")
    BY <1>4
  <2> HIDE DEF j
  <2>5. /\ job' \in JobType /\ job'.step = "done" /\ job'.op = job.op
        /\ job'.window = job.window /\ job'.allowed = job.allowed
        /\ job'.windows = Brought("DYNAMIC").windows /\ job'.effect = "saved"
        /\ job'.status = "OK"
    BY <1>1, <2>3, <2>4, AnsweredFacts
  <2>6. Unanswered' /\ TrueAnswers'
    BY <2>5 DEF Unanswered, TrueAnswers
  <2> QED BY <1>1, <1>2, <2>1, <2>5, <2>6, NoTxFacts, QuietBringing, BringingStep
<1> QED BY <1>3, <1>4 DEF DynamicContinued

---------------------------------------------------------------------------
(* The way of a request to its handler. *)

LEMMA ReceiveStep == ASSUME NEW op \in Opcodes, IInv, Receive(op), Counted PROVE IInv'
<1>1. /\ UNCHANGED <<state, session, credential, stored, update, booted, window>>
      /\ Authorised' = Authorised /\ View' = View
  BY QuietFacts DEF Receive
<1>2. UNCHANGED <<tx, known>> /\ booted /\ job.step = "done"
  BY DEF Receive
<1>3. /\ job' \in JobType /\ job'.op = op /\ job'.step = "sync" /\ job'.read = state
      /\ job'.window = 0 /\ job'.effect = "none" /\ job'.windows = {}
  <2>1. job' = [op |-> op, step |-> "sync", read |-> state, window |-> 0, allowed |-> FALSE,
                windows |-> {}, effect |-> "none", status |-> "OK"]
    BY DEF Receive, NoJob
  <2>2. state \in States
    BY TypesUnfolded DEF IInv
  <2> QED BY <2>1, <2>2 DEF JobType, Statuses, Steps
<1>4. Types'
  BY <1>1, <1>2, <1>3, TypesKept DEF IInv
<1>5. Core' /\ ReadIsRecent'
  BY <1>1, <1>2, <1>3 DEF IInv, Core, ReadIsRecent, Auth!NoUpdate
<1>6. KnownIsOld' /\ TxWindows'
  BY <1>1, <1>2, <1>3 DEF IInv, KnownIsOld, TxWindows, KnownAuthorised
<1>7. JobWindows' /\ Unanswered' /\ TrueAnswers'
  BY <1>1, <1>3, WindowTypes DEF JobWindows, Unanswered, TrueAnswers
<1> QED BY <1>4, <1>5, <1>6, <1>7 DEF IInv

\* sync_auth_state notes what is true, and keeps only what was begun under the same.
LEMMA SyncFacts ==
    ASSUME IInv, job.step = "sync"
    PROVE  /\ Observed \in [valid : BOOLEAN, state : States, session : BOOLEAN]
           /\ Observed.valid /\ (Authorised => Observed = View)
           /\ Synced \in [Kinds -> TxType]
           /\ \A k \in Kinds : Synced[k] = NoTx \/ Synced[k] = tx[k]
           /\ \A k \in Kinds : \A w \in Synced[k].windows : w = window
           /\ Authorised /\ (\E k \in Kinds : window \in tx[k].windows) => ~Differs
<1>1. state \in States /\ session \in BOOLEAN /\ job.read \in States
  BY TypesUnfolded DEF IInv, JobType
<1>2. Observed = [valid |-> TRUE, state |-> job.read,
                  session |-> job.read = "PROTECTED" /\ IsAuthenticated]
  BY DEF Observed
<1>3. Authorised => Observed = View
  <2>1. CASE state = "OPEN"
    <3>1. job.read = "OPEN" /\ session = FALSE
      BY <1>1, <2>1 DEF IInv, Core, ReadIsRecent
    <3> QED BY <1>2, <2>1, <3>1 DEF View
  <2>2. CASE state = "PROTECTED" /\ session
    <3>1. job.read = "PROTECTED" /\ IsAuthenticated /\ session = TRUE
      BY <1>1, <2>2 DEF IInv, ReadIsRecent, IsAuthenticated
    <3> QED BY <1>2, <2>2, <3>1 DEF View
  <2> QED BY <2>1, <2>2 DEF Authorised, Auth!Authorised
<1>4. Synced \in [Kinds -> TxType] /\ \A k \in Kinds : Synced[k] = NoTx \/ Synced[k] = tx[k]
  BY NoTxFacts, TypesUnfolded DEF Synced, IInv
<1>5. ASSUME NEW k \in Kinds, NEW w \in Synced[k].windows
      PROVE  w = window
  <2>1. ~Differs /\ Synced[k] = tx[k] /\ tx[k].windows # {}
    BY <1>5, NoTxFacts DEF Synced
  <2>2. known = Observed
    BY <2>1 DEF Differs, IInv, KnownIsOld
  <2>3. CASE Authorised
    BY <1>5, <2>1, <2>3 DEF IInv, TxWindows
  <2>4. CASE ~Authorised
    <3>1. state # "OPEN" /\ ~IsAuthenticated
      BY <2>4 DEF Authorised, Auth!Authorised, IsAuthenticated
    <3>2. job.read # "OPEN"
      BY <3>1 DEF IInv, ReadIsRecent
    <3>3. known.state # "OPEN" /\ ~known.session
      BY <1>2, <2>2, <3>1, <3>2
    <3>4. window \in tx[k].windows
      BY <2>1, <3>3 DEF IInv, KnownIsOld, KnownAuthorised
    <3> QED BY <1>5, <2>1, <3>4 DEF IInv, TxWindows
  <2> QED BY <2>3, <2>4
<1>6. ASSUME Authorised, NEW k \in Kinds, window \in tx[k].windows
      PROVE  ~Differs
  BY <1>3, <1>6 DEF IInv, KnownIsOld, Differs
<1> QED BY <1>1, <1>2, <1>3, <1>4, <1>5, <1>6

LEMMA SyncStep == ASSUME NEW accepted \in BOOLEAN, IInv, Sync(accepted), Counted PROVE IInv'
<1>1. /\ UNCHANGED <<state, session, credential, stored, update, booted, window>>
      /\ Authorised' = Authorised /\ View' = View
  BY QuietFacts DEF Sync
<1>2. job.step = "sync" /\ known' = Observed /\ job \in JobType /\ window \in Nat
  BY TypesUnfolded, WindowTypes DEF Sync, IInv
<1>3. /\ tx' \in [Kinds -> TxType]
      /\ \A k \in Kinds : tx'[k] = NoTx \/ tx'[k] = tx[k]
      /\ \A k \in Kinds : \A w \in tx'[k].windows : w = window
  <2>1. CASE accepted
    BY <1>2, <2>1, SyncFacts DEF Sync
  <2>2. CASE ~accepted
    <3>1. tx' = IF Differs THEN NoTransactions ELSE DiscardForOpcode(job.op)
      BY <2>2 DEF Sync
    <3>2. /\ tx' \in [Kinds -> TxType]
          /\ \A k \in Kinds : tx'[k] = NoTx \/ (tx'[k] = tx[k] /\ Synced[k] = tx[k])
      BY <3>1, NoTxFacts, TypesUnfolded DEF DiscardForOpcode, Synced, IInv
    <3> QED BY <1>2, <3>2, SyncFacts, NoTxFacts
  <2> QED BY <2>1, <2>2
<1>4. /\ job' \in JobType /\ job'.op = job.op /\ job'.effect = "none" /\ job'.windows = {}
      /\ job'.window <= window
      /\ job'.step \in {"access", "run", "done"}
      /\ job'.step # "done" => /\ job'.window = window /\ job'.allowed = Authorised
                               /\ job'.step = "access" <=> job.op \in Management
  <2>1. job.effect = "none" /\ job.windows = {} /\ job.window <= window
    BY <1>2 DEF IInv, Unanswered, JobWindows
  <2>2. CASE accepted
    <3>1. Admitted(IF job.op \in Management THEN "access" ELSE "run")
      BY <2>2 DEF Sync
    <3>2. CASE job.op \in Management
      BY <1>2, <2>1, <3>1, <3>2, AdmittedFacts DEF Steps
    <3>3. CASE job.op \notin Management
      BY <1>2, <2>1, <3>1, <3>3, AdmittedFacts DEF Steps
    <3> QED BY <3>2, <3>3
  <2>3. CASE ~accepted
    BY <1>2, <2>1, <2>3, ErrorFacts DEF Sync, Statuses
  <2> QED BY <2>2, <2>3
<1>5. Types'
  <2>1. \A k \in Kinds : tx'[k].received <= tx'[k].total
    BY <1>3, NoTxFacts, TypesUnfolded DEF IInv
  <2>2. known' \in [valid : BOOLEAN, state : States, session : BOOLEAN]
    BY <1>2, SyncFacts
  <2> QED BY <1>1, <1>3, <1>4, <2>1, <2>2, TypesUnfolded
        DEF IInv, Types, TypeOK, TxType, Authorised, JobType, States
<1>6. Core' /\ ReadIsRecent'
  BY <1>1, <1>2, <1>4 DEF IInv, Core, ReadIsRecent, Auth!NoUpdate
<1>7. KnownIsOld'
  <2>1. known'.valid /\ (Authorised => known' = View)
    BY <1>2, SyncFacts
  <2> QED BY <1>1, <1>3, <1>4, <2>1 DEF KnownIsOld
<1>8. TxWindows'
  BY <1>1, <1>2, <1>3, <1>4 DEF TxWindows
<1>9. JobWindows' /\ Unanswered' /\ TrueAnswers'
  BY <1>1, <1>2, <1>4 DEF JobWindows, Unanswered, TrueAnswers
<1> QED BY <1>5, <1>6, <1>7, <1>8, <1>9 DEF IInv

\* The request goes on to its next step; nothing else changes.
LEMMA AdvancingStep ==
    ASSUME IInv, Quiet, Counted, UNCHANGED <<tx, known>>,
           job.step \in {"access", "session", "refresh"},
           job' \in JobType, job'.op = job.op, job'.effect = job.effect,
           job'.windows = job.windows, job'.step \in {"session", "run", "renew"},
           job.step = "refresh" <=> job'.step = "renew",
           \/ job'.window = job.window /\ job'.allowed = job.allowed
           \/ job'.window = window /\ job'.allowed = Authorised,
           job'.step # "run" => job'.window = job.window /\ state # "OPEN",
           job'.step = "run" => Authorised /\ job'.window = window /\ job'.allowed = Authorised
    PROVE  IInv'
<1>1. /\ UNCHANGED <<state, session, credential, stored, update, booted, window>>
      /\ Authorised' = Authorised /\ View' = View
  BY QuietFacts
<1>2. Types'
  BY <1>1, TypesKept DEF IInv
<1>3. Core' /\ ReadIsRecent'
  BY <1>1 DEF IInv, Core, ReadIsRecent, Auth!NoUpdate
<1>4. KnownIsOld' /\ TxWindows'
  BY <1>1 DEF IInv, KnownIsOld, TxWindows, KnownAuthorised
<1>5. JobWindows'
  BY <1>1, WindowTypes DEF IInv, JobWindows, Unanswered
<1>6. Unanswered' /\ TrueAnswers'
  BY <1>1 DEF IInv, Unanswered, TrueAnswers
<1> QED BY <1>2, <1>3, <1>4, <1>5, <1>6 DEF IInv

LEMMA AccessStateStep == IInv /\ AccessState /\ Counted => IInv'
<1> SUFFICES ASSUME IInv, AccessState, Counted PROVE IInv'
  OBVIOUS
<1>1. /\ job.step = "access" /\ job \in JobType /\ window \in Nat /\ "run" \in Steps
      /\ "CREDENTIAL_INVALID" \in Statuses
  BY TypesUnfolded, WindowTypes DEF AccessState, IInv, Steps, Statuses
<1>2. CASE Refused("CREDENTIAL_INVALID")
  BY <1>1, <1>2, DropsFacts, PlainAnswerStep DEF Refused, IInv
<1>3. CASE state = "OPEN" /\ Admitted("run") /\ UNCHANGED <<tx, known>> /\ Quiet
  <2>1. Authorised
    BY <1>3 DEF Authorised, Auth!Authorised
  <2>2. /\ job' \in JobType /\ job'.step = "run" /\ job'.op = job.op
        /\ job'.window = window /\ job'.allowed = Authorised
        /\ job'.windows = job.windows /\ job'.effect = job.effect
    BY <1>1, <1>3, AdmittedFacts
  <2> QED BY <1>1, <1>3, <2>1, <2>2, AdvancingStep
<1>4. CASE /\ state = "PROTECTED"
           /\ job' = [job EXCEPT !.step = "session"]
           /\ UNCHANGED <<tx, known>> /\ Quiet
  <2>1. /\ job' \in JobType /\ job'.step = "session" /\ job'.op = job.op
        /\ job'.window = job.window /\ job'.allowed = job.allowed
        /\ job'.windows = job.windows /\ job'.effect = job.effect
    BY <1>1, <1>4 DEF JobType, Steps
  <2> QED BY <1>1, <1>4, <2>1, AdvancingStep
<1> QED BY <1>2, <1>3, <1>4 DEF AccessState

LEMMA AccessSessionStep == IInv /\ AccessSession /\ Counted => IInv'
<1> SUFFICES ASSUME IInv, AccessSession, Counted PROVE IInv'
  OBVIOUS
<1>1. /\ job.step = "session" /\ job \in JobType /\ window \in Nat /\ "run" \in Steps
      /\ "AUTH_REQUIRED" \in Statuses
  BY TypesUnfolded, WindowTypes DEF AccessSession, IInv, Steps, Statuses
<1>2. CASE ~SessionAllows
  BY <1>1, <1>2, DropsFacts, PlainAnswerStep DEF AccessSession, Refused, IInv
<1>3. CASE SessionAllows
  <2>1. Authorised
    BY <1>3 DEF SessionAllows, IsAuthenticated, Authorised, Auth!Authorised
  <2>2. Admitted("run") /\ UNCHANGED <<tx, known>> /\ Quiet
    BY <1>3 DEF AccessSession
  <2>3. /\ job' \in JobType /\ job'.step = "run" /\ job'.op = job.op
        /\ job'.window = window /\ job'.allowed = Authorised
        /\ job'.windows = job.windows /\ job'.effect = job.effect
    BY <1>1, <2>2, AdmittedFacts
  <2> QED BY <1>1, <2>1, <2>2, <2>3, AdvancingStep
<1> QED BY <1>2, <1>3

\* A successful handler's answer, as the refresh finds the device.
LEMMA RefreshedAnswer ==
    ASSUME IInv, job.step \in {"refresh", "renew"}, Quiet, Counted, Drops,
           \/ Answer("OK")
           \/ Error("AUTH_REQUIRED") /\ (job.effect = "saved" => job.window # window)
    PROVE  IInv'
<1>1. /\ job \in JobType /\ "OK" \in Statuses /\ "AUTH_REQUIRED" \in Statuses
      /\ job.op \in Management
      /\ job.effect \in {"none", "data", "saved"}
      /\ job.effect = "saved" => job.op \in {"SET", "CLEAR"}
      /\ job.windows # {} => job.effect = "saved"
      /\ \A w \in job.windows : w = job.window
      /\ job.effect # "none" => job.allowed
  BY TypesUnfolded DEF IInv, Unanswered, JobWindows, Statuses
<1>2. window' = window
  BY QuietFacts
<1>3. CASE Answer("OK")
  <2>1. /\ job' \in JobType /\ job'.step = "done" /\ job'.status = "OK"
        /\ job'.op = job.op /\ job'.window = job.window /\ job'.allowed = job.allowed
        /\ job'.windows = job.windows /\ job'.effect = job.effect
    BY <1>1, <1>3, AnswerFacts
  <2>2. TrueAnswers'
    BY <1>1, <2>1 DEF TrueAnswers
  <2> QED BY <1>1, <2>1, <2>2, AnsweringStep
<1>4. CASE Error("AUTH_REQUIRED") /\ (job.effect = "saved" => job.window # window)
  <2>1. /\ job' \in JobType /\ job'.step = "done" /\ job'.status = "AUTH_REQUIRED"
        /\ job'.op = job.op /\ job'.window = job.window /\ job'.allowed = job.allowed
        /\ job'.windows = job.windows
        /\ job'.effect = IF job.effect = "data" THEN "none" ELSE job.effect
    BY <1>1, <1>4, ErrorFacts
  <2>2. TrueAnswers'
    BY <1>1, <1>2, <1>4, <2>1 DEF TrueAnswers
  <2> QED BY <1>1, <2>1, <2>2, AnsweringStep
<1> QED BY <1>3, <1>4

LEMMA RefreshStateStep == IInv /\ RefreshState /\ Counted => IInv'
<1> SUFFICES ASSUME IInv, RefreshState, Counted PROVE IInv'
  OBVIOUS
<1>1. job.step = "refresh" /\ job \in JobType /\ UNCHANGED <<tx, known>> /\ Quiet
  BY TypesUnfolded DEF RefreshState, IInv
<1>2. CASE state # "PROTECTED"
  BY <1>1, <1>2, DropsFacts, RefreshedAnswer DEF RefreshState, IInv
<1>3. CASE state = "PROTECTED"
  <2>1. /\ job' \in JobType /\ job'.step = "renew" /\ job'.op = job.op
        /\ job'.window = job.window /\ job'.allowed = job.allowed
        /\ job'.windows = job.windows /\ job'.effect = job.effect
    BY <1>1, <1>3 DEF RefreshState, JobType, Steps
  <2> QED BY <1>1, <1>3, <2>1, AdvancingStep
<1> QED BY <1>2, <1>3

LEMMA RefreshSessionStep == IInv /\ RefreshSession /\ Counted => IInv'
<1> SUFFICES ASSUME IInv, RefreshSession, Counted PROVE IInv'
  OBVIOUS
<1>1. job.step = "renew"
  BY DEF RefreshSession
<1>2. CASE IsAuthenticated
  BY <1>1, <1>2, DropsFacts, RefreshedAnswer DEF RefreshSession, IInv
<1>3. CASE ~IsAuthenticated
  <2>1. ~Authorised
    BY <1>1, <1>3 DEF IInv, Core, IsAuthenticated, Authorised, Auth!Authorised
  <2>2. job.allowed
    BY <1>1 DEF IInv, JobWindows, Unanswered
  <2>3. job.window # window
    BY <1>1, <2>1, <2>2 DEF IInv, JobWindows
  <2>4. Discard /\ Error("AUTH_REQUIRED") /\ Quiet
    BY <1>3 DEF RefreshSession
  <2> QED BY <1>1, <2>3, <2>4, DropsFacts, RefreshedAnswer DEF IInv
<1> QED BY <1>2, <1>3

---------------------------------------------------------------------------
(* The handlers of management. *)

\* A handler is done: it has read or saved something, or taken a chunk.
LEMMA SucceededStep ==
    ASSUME IInv, Quiet, Counted, job.step = "run", job.op \in Management,
           UNCHANGED <<tx, known>>, NEW effect \in {"none", "data", "saved"}, Succeeded(effect),
           effect = "saved" => job.op \in {"SET", "CLEAR"}
    PROVE  IInv'
<1>1. job \in JobType /\ job.windows = {} /\ "SET" \in Kinds
  BY TypesUnfolded DEF IInv, Unanswered, Kinds
<1>2. /\ job' \in JobType /\ job'.step = "refresh" /\ job'.effect = effect
      /\ job'.op = job.op /\ job'.window = job.window /\ job'.allowed = job.allowed
      /\ job'.windows = {}
  BY <1>1, SucceededFacts
<1>3. Unanswered' /\ TrueAnswers'
  BY <1>2 DEF Unanswered, TrueAnswers
<1>4. /\ tx' \in [Kinds -> TxType]
      /\ \A i \in Kinds \ {"SET"} : tx'[i] = tx[i]
      /\ \A w \in tx'["SET"].windows : w = job.window
      /\ tx'["SET"].received <= tx'["SET"].total
  BY <1>1, TypesUnfolded DEF IInv, TxWindows
<1> QED BY <1>1, <1>2, <1>3, <1>4, QuietBringing, BringingStep

LEMMA ReadStep == IInv /\ Read /\ Counted => IInv'
<1> SUFFICES ASSUME IInv, Read, Counted PROVE IInv'
  OBVIOUS
<1>1. job.step = "run" /\ job.op \in Management /\ UNCHANGED <<tx, known>> /\ Quiet
  BY DEF Read, Run, Management
<1>2. CASE Succeeded("data")
  BY <1>1, <1>2, SucceededStep
<1>3. CASE Error("BAD")
  BY <1>1, <1>3, DropsFacts, PlainAnswerStep DEF IInv, Statuses
<1> QED BY <1>2, <1>3 DEF Read

\* The slot is changed in RAM, and the request says that it could not be saved.
LEMMA ChangedFacts ==
    ASSUME job \in JobType, NEW windows \in SUBSET Nat, NEW status \in SaveErrors,
           job' = AnsweredAs([job EXCEPT !.effect = "changed", !.windows = windows], status)
    PROVE  /\ job' \in JobType /\ job'.step = "done" /\ job'.status = status
           /\ job'.op = job.op /\ job'.window = job.window /\ job'.allowed = job.allowed
           /\ job'.windows = windows /\ job'.effect = "changed"
<1> DEFINE j == [job EXCEPT !.effect = "changed", !.windows = windows]
<1>1. /\ j \in JobType /\ j.op = job.op /\ j.window = job.window /\ j.allowed = job.allowed
      /\ j.effect = "changed" /\ j.windows = windows
  BY DEF JobType
<1>2. job' = AnsweredAs(j, status)
  OBVIOUS
<1> HIDE DEF j
<1>3. status \in Statuses
  BY DEF Statuses
<1> QED BY <1>1, <1>2, <1>3, AnsweredFacts

LEMMA ClearStep == IInv /\ Clear /\ Counted => IInv'
<1> SUFFICES ASSUME IInv, Clear, Counted PROVE IInv'
  OBVIOUS
<1>1. /\ job.step = "run" /\ job.op = "CLEAR" /\ job.op \in Management
      /\ UNCHANGED <<tx, known>> /\ Quiet /\ job \in JobType /\ job.windows = {}
      /\ job.allowed
  BY TypesUnfolded DEF Clear, Run, Management, IInv, Unanswered, JobWindows
<1>2. CASE Succeeded("saved")
  BY <1>1, <1>2, SucceededStep
<1>3. CASE Error("BAD")
  BY <1>1, <1>3, DropsFacts, PlainAnswerStep DEF IInv, Statuses
<1>4. CASE job' = AnsweredAs([job EXCEPT !.effect = "changed"], "STORAGE_ERROR")
  <2>1. [job EXCEPT !.effect = "changed"] = [job EXCEPT !.effect = "changed", !.windows = {}]
    BY <1>1 DEF JobType
  <2>2. job' = AnsweredAs([job EXCEPT !.effect = "changed", !.windows = {}], "STORAGE_ERROR")
    BY <1>4, <2>1
  <2>3. /\ job' \in JobType /\ job'.step = "done" /\ job'.status = "STORAGE_ERROR"
        /\ job'.op = job.op /\ job'.window = job.window /\ job'.allowed = job.allowed
        /\ job'.windows = {} /\ job'.effect = "changed"
    BY <1>1, <2>2, ChangedFacts DEF SaveErrors
  <2>4. TrueAnswers'
    BY <2>3 DEF TrueAnswers
  <2> QED BY <1>1, <2>3, <2>4, DropsFacts, AnsweringStep DEF IInv
<1> QED BY <1>2, <1>3, <1>4 DEF Clear

LEMMA ChunkRejectedStep ==
    ASSUME NEW k \in {"SET", "PASSWORD_SET"}, IInv, ChunkRejected(k), Counted PROVE IInv'
<1>1. Drops
  BY DropsFacts DEF ChunkRejected, IInv, Kinds
<1> QED BY <1>1, PlainAnswerStep DEF ChunkRejected, Run, Statuses

\* A chunk lengthens a transaction of this window by its own bytes, or begins one.
LEMMA ExtendedFacts ==
    ASSUME IInv, job.step = "run", NEW k \in Kinds,
           NEW total \in 0..MaxText + PasswordLength, NEW f \in Chunks(total), Takes(k, f)
    PROVE  /\ Extended(k, f) \in TxType
           /\ \A w \in Extended(k, f).windows : w = job.window
           /\ Extended(k, f).received <= Extended(k, f).total
<1>1. /\ f.id \in Ids /\ f.total = total /\ f.offset \in 0..total /\ f.length \in 0..total
      /\ f.length <= total - f.offset
  BY DEF Chunks
<1>2. job.window \in 0..MaxWindow + 1 /\ {job.window} \in SUBSET (0..MaxWindow + 1)
  BY WindowTypes
<1> DEFINE first == [NoTx EXCEPT !.windows = {job.window}]
<1>3. /\ first \in TxType /\ first.windows = {job.window} /\ first.received = 0
  <2>1. NoTx \in TxType /\ NoTx.received = 0
    BY NoTxFacts
  <2> QED BY <1>2, <2>1 DEF TxType
<1> DEFINE begun == IF f.offset = 0 THEN first ELSE Brought(k)
<1>4. /\ begun \in TxType /\ \A w \in begun.windows : w = job.window
      /\ begun.received = f.offset
  <2>1. CASE f.offset = 0
    BY <1>3, <2>1
  <2>2. CASE f.offset # 0
    BY <2>2, BroughtFacts DEF Takes, Continues
  <2> QED BY <2>1, <2>2
<1> DEFINE sum == begun.received + f.length
<1>5. Extended(k, f) = [begun EXCEPT !.active = TRUE, !.id = f.id, !.total = f.total,
                                     !.received = sum]
  BY DEF Extended
<1>6. sum \in 0..MaxText + PasswordLength /\ sum <= total
  BY <1>1, <1>4, ProtocolAssumption
<1> HIDE DEF begun, sum, first
<1> QED BY <1>1, <1>4, <1>5, <1>6 DEF TxType

LEMMA ChunkStagedStep ==
    ASSUME NEW k \in {"SET", "PASSWORD_SET"}, NEW total \in 0..MaxText + PasswordLength,
           NEW f \in Chunks(total), IInv, ChunkStaged(k, f), Counted
    PROVE  IInv'
<1>1. /\ job.step = "run" /\ job.op = k /\ job.op \in Management /\ k \in Kinds
      /\ known' = known /\ Quiet /\ Takes(k, f) /\ Succeeded("none")
      /\ tx' = [tx EXCEPT ![k] = Extended(k, f)]
      /\ job \in JobType /\ job.windows = {}
  BY TypesUnfolded DEF ChunkStaged, Run, Management, Kinds, IInv, Unanswered
<1>2. /\ Extended(k, f) \in TxType
      /\ \A w \in Extended(k, f).windows : w = job.window
      /\ Extended(k, f).received <= Extended(k, f).total
  BY <1>1, ExtendedFacts
<1>3. /\ tx' \in [Kinds -> TxType] /\ tx'[k] = Extended(k, f)
      /\ \A i \in Kinds \ {k} : tx'[i] = tx[i]
  BY <1>1, <1>2, TypesUnfolded DEF IInv
<1>4. /\ job' \in JobType /\ job'.step = "refresh" /\ job'.effect = "none"
      /\ job'.op = job.op /\ job'.window = job.window /\ job'.allowed = job.allowed
      /\ job'.windows = {}
  BY <1>1, SucceededFacts
<1>5. Unanswered' /\ TrueAnswers'
  BY <1>1, <1>4 DEF Unanswered, TrueAnswers
<1> QED BY <1>1, <1>2, <1>3, <1>4, <1>5, QuietBringing, BringingStep

LEMMA SetCommittedStep ==
    ASSUME NEW total \in 0..MaxText + PasswordLength, NEW f \in Chunks(total),
           IInv, SetCommitted(f), Counted
    PROVE  IInv'
<1> DEFINE windows == Extended("SET", f).windows
           committed == [job EXCEPT !.windows = windows]
<1>1. /\ job.step = "run" /\ job.op = "SET" /\ job.op \in Management /\ "SET" \in Kinds
      /\ known' = known /\ Quiet /\ Takes("SET", f) /\ tx' = Cleared("SET")
      /\ job \in JobType /\ job.effect = "none" /\ job.allowed
  BY TypesUnfolded DEF SetCommitted, Run, Management, Kinds, IInv, Unanswered, JobWindows
<1>2. \A w \in windows : w = job.window
  BY <1>1, ExtendedFacts
<1>3. windows \in SUBSET Nat
  <2>1. Extended("SET", f) \in TxType
    BY <1>1, ExtendedFacts
  <2> QED BY <2>1 DEF TxType
<1>4. /\ tx' \in [Kinds -> TxType] /\ tx'["SET"] = NoTx
      /\ \A i \in Kinds \ {"SET"} : tx'[i] = tx[i]
  BY <1>1, ClearedFacts, TypesUnfolded DEF IInv
<1>5. \/ job' = [committed EXCEPT !.step = "refresh", !.effect = "saved"]
      \/ \E status \in SaveErrors :
            job' = AnsweredAs([committed EXCEPT !.effect = "changed"], status)
  BY DEF SetCommitted, SaveErrors
<1> HIDE DEF windows
<1>6. CASE job' = [committed EXCEPT !.step = "refresh", !.effect = "saved"]
  <2>1. /\ committed \in JobType /\ committed.op = job.op /\ committed.window = job.window
        /\ committed.allowed = job.allowed /\ committed.windows = windows
    BY <1>1, <1>3 DEF JobType
  <2> HIDE DEF committed
  <2>2. /\ job' \in JobType /\ job'.step = "refresh" /\ job'.effect = "saved"
        /\ job'.op = job.op /\ job'.window = job.window /\ job'.allowed = job.allowed
        /\ job'.windows = windows
    BY <1>6, <2>1 DEF JobType, Steps
  <2>3. Unanswered' /\ TrueAnswers'
    BY <1>1, <2>2 DEF Unanswered, TrueAnswers
  <2> QED BY <1>1, <1>2, <1>4, <2>2, <2>3, NoTxFacts, QuietBringing, BringingStep
<1>7. ASSUME NEW status \in SaveErrors,
             job' = AnsweredAs([committed EXCEPT !.effect = "changed"], status)
      PROVE  IInv'
  <2>1. [committed EXCEPT !.effect = "changed"]
          = [job EXCEPT !.effect = "changed", !.windows = windows]
    BY <1>1 DEF JobType
  <2>2. job' = AnsweredAs([job EXCEPT !.effect = "changed", !.windows = windows],
                          status)
    BY <1>7, <2>1
  <2>3. /\ job' \in JobType /\ job'.step = "done" /\ job'.status = status
        /\ job'.op = job.op /\ job'.window = job.window /\ job'.allowed = job.allowed
        /\ job'.windows = windows /\ job'.effect = "changed"
    BY <1>1, <1>3, <2>2, ChangedFacts
  <2>4. Unanswered' /\ TrueAnswers'
    BY <1>1, <2>3 DEF Unanswered, TrueAnswers, SaveErrors
  <2> QED BY <1>1, <1>2, <1>4, <2>3, <2>4, NoTxFacts, QuietBringing, BringingStep
<1> QED BY <1>5, <1>6, <1>7

---------------------------------------------------------------------------
(* A PASSWORD_SET that is complete. *)

\* What goes on beside a step of the credential's update.
LEMMA UpdateFacts ==
    ASSUME Counted, UNCHANGED <<state, session>>
    PROVE  window' = window /\ Authorised' = Authorised /\ View' = View
BY DEF Counted, Authorised, Auth!Authorised, View

LEMMA PasswordCheckedStep ==
    ASSUME NEW f \in Chunks(PasswordLength), NEW c \in Credentials,
           IInv, PasswordChecked(f, c), Counted
    PROVE  IInv'
<1> DEFINE k == "PASSWORD_SET"
           t == Extended(k, f)
<1>1. /\ job.step = "run" /\ job.op = "PASSWORD_SET" /\ job.op \in Management /\ k \in Kinds
      /\ known' = known /\ Takes(k, f) /\ tx' = [tx EXCEPT ![k] = t]
      /\ job \in JobType /\ job.effect = "none" /\ job.windows = {}
      /\ job' = [job EXCEPT !.step = "save", !.windows = t.windows]
  BY TypesUnfolded
     DEF PasswordChecked, PasswordComplete, Run, Management, Kinds, IInv, Unanswered
<1>2. /\ booted /\ update' = [stage |-> "save", credential |-> c]
      /\ UNCHANGED <<state, session, credential, stored, booted>>
  BY DEF PasswordChecked, Auth!Check
<1>3. t \in TxType /\ t.received <= t.total /\ \A w \in t.windows : w = job.window
  BY <1>1, ExtendedFacts, ProtocolAssumption
<1> HIDE DEF t
<1>4. /\ tx' \in [Kinds -> TxType] /\ tx'[k] = t
      /\ \A i \in Kinds \ {k} : tx'[i] = tx[i]
  BY <1>1, <1>3, TypesUnfolded DEF IInv
<1>5. /\ job' \in JobType /\ job'.step = "save" /\ job'.effect = "none"
      /\ job'.op = job.op /\ job'.window = job.window /\ job'.allowed = job.allowed
      /\ job'.windows = t.windows
  <2>1. t.windows \in SUBSET Nat
    BY <1>3 DEF TxType
  <2> QED BY <1>1, <2>1 DEF JobType, Steps
<1>6. window' = window
  BY <1>2, UpdateFacts
<1>7. Core'
  BY <1>1, <1>2, <1>5 DEF IInv, Core
<1>8. Unanswered' /\ TrueAnswers'
  BY <1>1, <1>5 DEF Unanswered, TrueAnswers
<1>9. update' \in [stage : {"none", "save", "apply"},
                   credential : Credentials \cup {NoCredential}]
  BY <1>2
<1> QED BY <1>1, <1>2, <1>3, <1>4, <1>5, <1>6, <1>7, <1>8, <1>9, BringingStep

LEMMA PasswordNotAllowedStep ==
    ASSUME NEW f \in Chunks(PasswordLength), IInv, PasswordNotAllowed(f), Counted
    PROVE  IInv'
<1>1. /\ job.step = "run" /\ Quiet /\ "PASSWORD_SET" \in Kinds
      /\ "AUTH_REQUIRED" \in Statuses /\ "CREDENTIAL_INVALID" \in Statuses
  BY DEF PasswordNotAllowed, PasswordComplete, Run, Kinds, Statuses
<1>2. CASE Discard /\ Error("AUTH_REQUIRED")
  BY <1>1, <1>2, DropsFacts, PlainAnswerStep DEF IInv
<1>3. CASE tx' = Cleared("PASSWORD_SET") /\ Error("CREDENTIAL_INVALID") /\ UNCHANGED known
  BY <1>1, <1>3, DropsFacts, PlainAnswerStep DEF IInv
<1> QED BY <1>2, <1>3 DEF PasswordNotAllowed

LEMMA PasswordSavedStep == IInv /\ PasswordSaved /\ Counted => IInv'
<1> SUFFICES ASSUME IInv, PasswordSaved, Counted PROVE IInv'
  OBVIOUS
<1>1. /\ job.step = "save" /\ job \in JobType /\ UNCHANGED <<tx, known>>
      /\ job.op = "PASSWORD_SET" /\ job.effect = "none" /\ job.op \in Management
      /\ job.allowed
      /\ job' = [job EXCEPT !.step = "apply", !.effect = "saved"]
  BY TypesUnfolded DEF PasswordSaved, IInv, Unanswered, JobWindows, Management
<1>2. /\ update.stage = "save" /\ update' = [update EXCEPT !.stage = "apply"]
      /\ UNCHANGED <<state, session, credential, booted>>
      /\ update \in [stage : {"none", "save", "apply"},
                     credential : Credentials \cup {NoCredential}]
  BY TypesUnfolded DEF PasswordSaved, Auth!Save, IInv
<1>3. update' \in [stage : {"none", "save", "apply"},
                   credential : Credentials \cup {NoCredential}]
      /\ update'.stage = "apply"
  BY <1>2
<1>4. /\ job' \in JobType /\ job'.step = "apply" /\ job'.effect = "saved"
      /\ job'.op = job.op /\ job'.window = job.window /\ job'.allowed = job.allowed
      /\ job'.windows = job.windows
  BY <1>1 DEF JobType, Steps
<1>5. window' = window /\ Authorised' = Authorised /\ View' = View
  BY <1>2, UpdateFacts
<1>6. Types'
  BY <1>1, <1>2, <1>3, <1>4, <1>5, TypesUnfolded
     DEF IInv, Types, TypeOK, TxType, Authorised, JobType, States
<1>7. Core'
  BY <1>1, <1>2, <1>3, <1>4 DEF IInv, Core
<1>8. ReadIsRecent' /\ Unanswered' /\ TrueAnswers'
  BY <1>1, <1>4 DEF ReadIsRecent, Unanswered, TrueAnswers
<1>9. KnownIsOld' /\ TxWindows' /\ JobWindows'
  BY <1>1, <1>4, <1>5 DEF IInv, KnownIsOld, TxWindows, JobWindows, KnownAuthorised
<1> QED BY <1>6, <1>7, <1>8, <1>9 DEF IInv

\* The update is over, with whatever the authentication core made of it, and so is the request.
LEMMA UpdateOverStep ==
    ASSUME IInv, job.step \in {"save", "apply"}, booted' = booted,
           update' = Auth!NoUpdate,
           state' \in States, session' \in BOOLEAN, session' => state' = "PROTECTED",
           state' = "OPEN" => stored' = NoCredential,
           window' \in 0..MaxWindow + 1, Authorised' => window' <= MaxWindow,
           \/ window' = window
           \/ window' = window + 1 /\ ~Authorised',
           window' = window => Authorised' = Authorised,
           tx' \in [Kinds -> TxType],
           \A k \in Kinds : tx'[k] = NoTx \/ (tx'[k] = tx[k] /\ window' = window
                                               /\ known' = known /\ View' = View),
           known' \in [valid : BOOLEAN, state : States, session : BOOLEAN],
           job' \in JobType, job'.step = "done", job'.op = job.op, job'.window = job.window,
           job'.allowed = job.allowed, job'.windows = job.windows,
           job'.effect = job.effect, TrueAnswers'
    PROVE  IInv'
<1>1. Types'
  <2>1. \A k \in Kinds : tx'[k].received <= tx'[k].total
    BY TypesUnfolded, NoTxFacts DEF IInv
  <2>2. update' \in [stage : {"none", "save", "apply"},
                     credential : Credentials \cup {NoCredential}]
    BY DEF Auth!NoUpdate
  <2>3. booted' \in BOOLEAN
    BY TypesUnfolded DEF IInv
  <2> QED BY <2>1, <2>2, <2>3
        DEF Types, TypeOK, TxType, Authorised, JobType, States
<1>2. Core'
  BY DEF Core, Auth!NoUpdate
<1>3. ReadIsRecent' /\ Unanswered'
  BY DEF ReadIsRecent, Unanswered
<1>4. KnownIsOld'
  BY NoTxFacts DEF IInv, KnownIsOld, KnownAuthorised
<1>5. TxWindows'
  BY NoTxFacts DEF IInv, TxWindows
<1>6. JobWindows'
  BY WindowTypes, TypesUnfolded DEF IInv, JobWindows, JobType
<1> QED BY <1>1, <1>2, <1>3, <1>4, <1>5, <1>6 DEF IInv

LEMMA PasswordNotSavedStep == IInv /\ PasswordNotSaved /\ Counted => IInv'
<1> SUFFICES ASSUME IInv, PasswordNotSaved, Counted PROVE IInv'
  OBVIOUS
<1>1. /\ job.step = "save" /\ job \in JobType /\ job.effect = "none"
      /\ known \in [valid : BOOLEAN, state : States, session : BOOLEAN]
      /\ tx \in [Kinds -> TxType] /\ "PASSWORD_SET" \in Kinds
  BY TypesUnfolded DEF PasswordNotSaved, IInv, Unanswered, Kinds
<1>2. update' = Auth!NoUpdate /\ UNCHANGED <<state, session, credential, stored, booted>>
      /\ update.stage = "save"
  BY DEF PasswordNotSaved, Auth!SaveFailed
<1>3. window' = window /\ Authorised' = Authorised /\ View' = View
  BY <1>2, UpdateFacts
<1>4. PICK status \in Statuses : Error(status) /\ status # "OK"
  BY DEF PasswordNotSaved, Statuses, SaveErrors
<1>5. /\ job' \in JobType /\ job'.step = "done" /\ job'.op = job.op /\ job'.window = job.window
      /\ job'.allowed = job.allowed /\ job'.windows = job.windows
      /\ job'.effect = "none" /\ job'.status = status
  BY <1>1, <1>4, ErrorFacts
<1>6. TrueAnswers'
  BY <1>4, <1>5 DEF TrueAnswers
<1>7. /\ tx' \in [Kinds -> TxType] /\ known' \in [valid : BOOLEAN, state : States, session : BOOLEAN]
      /\ \A k \in Kinds : tx'[k] = NoTx \/ (tx'[k] = tx[k] /\ known' = known)
  <2>1. CASE Discard
    BY <2>1, DiscardFacts
  <2>2. CASE tx' = Cleared("PASSWORD_SET") /\ UNCHANGED known
    BY <1>1, <2>2, ClearedFacts
  <2> QED BY <2>1, <2>2 DEF PasswordNotSaved
<1>8. /\ state' \in States /\ session' \in BOOLEAN /\ (session' => state' = "PROTECTED")
      /\ (state' = "OPEN" => stored' = NoCredential)
  BY <1>1, <1>2, TypesUnfolded DEF IInv, Core
<1>9. window' \in 0..MaxWindow + 1 /\ (Authorised' => window' <= MaxWindow)
  BY <1>3, TypesUnfolded DEF IInv
<1> QED BY <1>1, <1>2, <1>3, <1>5, <1>6, <1>7, <1>8, <1>9, UpdateOverStep

LEMMA PasswordAppliedStep == IInv /\ PasswordApplied /\ Counted => IInv'
<1> SUFFICES ASSUME IInv, PasswordApplied, Counted PROVE IInv'
  OBVIOUS
<1>1. /\ job.step = "apply" /\ job \in JobType /\ Discard /\ Answer("OK")
      /\ "OK" \in Statuses /\ job.effect = "saved" /\ window \in Nat
  BY TypesUnfolded, WindowTypes
     DEF PasswordApplied, AfterPassword, IInv, Unanswered, Statuses
<1>2. /\ state' = "PROTECTED" /\ session' = FALSE /\ update' = Auth!NoUpdate
      /\ booted' = booted
  BY DEF PasswordApplied, Auth!Apply
<1>3. Authorised' = FALSE
  BY <1>2 DEF Authorised, Auth!Authorised
<1>4. window' \in 0..MaxWindow + 1
  <2>1. CASE Authorised
    <3>1. window \in 0..MaxWindow + 1 /\ window <= MaxWindow
      BY <2>1, TypesUnfolded DEF IInv
    <3>2. window' = window + 1
      BY <1>3, <2>1 DEF Counted, Authorised
    <3> QED BY <3>1, <3>2, ProtocolAssumption
  <2>2. CASE ~Authorised
    <3>1. Authorised' = Authorised
      BY <1>3, <2>2 DEF Authorised, Auth!Authorised
    <3> QED BY <3>1, TypesUnfolded DEF IInv, Counted, Authorised
  <2> QED BY <2>1, <2>2
<1>5. window' = window \/ window' = window + 1
  BY DEF Counted
<1>6. window' = window => Authorised' = Authorised
  BY <1>1 DEF Counted, Authorised
<1>7. /\ job' \in JobType /\ job'.step = "done" /\ job'.op = job.op /\ job'.window = job.window
      /\ job'.allowed = job.allowed /\ job'.windows = job.windows
      /\ job'.effect = job.effect /\ job'.status = "OK"
  BY <1>1, AnswerFacts
<1>8. TrueAnswers'
  BY <1>1, <1>7 DEF TrueAnswers
<1> QED BY <1>1, <1>2, <1>3, <1>4, <1>5, <1>6, <1>7, <1>8, DiscardFacts, UpdateOverStep
      DEF States

---------------------------------------------------------------------------
(* A login, a reset, and what happens to the authentication core alone. *)

\* Nothing is in progress afterwards: IInv does not depend on how it came to that.
LEMMA NothingInProgress ==
    ASSUME Discard,
           job' \in JobType, job'.step = "done", job'.windows = {}, job'.effect = "none",
           job'.window <= window',
           window' \in 0..MaxWindow + 1, Authorised' => window' <= MaxWindow,
           state' \in States, session' \in BOOLEAN, session' => state' = "PROTECTED",
           booted' \in BOOLEAN,
           booted' /\ state' = "OPEN" => stored' = NoCredential,
           update' = Auth!NoUpdate
    PROVE  IInv'
<1>1. /\ tx' \in [Kinds -> TxType]
      /\ \A k \in Kinds : tx'[k] = NoTx
      /\ known' \in [valid : BOOLEAN, state : States, session : BOOLEAN]
  BY DiscardFacts
<1>2. Types'
  <2>1. \A k \in Kinds : tx'[k].received <= tx'[k].total
    BY <1>1, NoTxFacts
  <2>2. update' \in [stage : {"none", "save", "apply"},
                     credential : Credentials \cup {NoCredential}]
    BY DEF Auth!NoUpdate
  <2> QED BY <1>1, <2>1, <2>2 DEF Types, TypeOK, TxType, Authorised, JobType, States
<1>3. Core'
  BY DEF Core, Auth!NoUpdate
<1>4. ReadIsRecent' /\ Unanswered' /\ TrueAnswers'
  BY DEF ReadIsRecent, Unanswered, TrueAnswers
<1>5. KnownIsOld' /\ TxWindows' /\ JobWindows'
  BY <1>1, NoTxFacts DEF KnownIsOld, TxWindows, JobWindows
<1> QED BY <1>2, <1>3, <1>4, <1>5 DEF IInv

LEMMA NoJobFacts ==
    NoJob \in JobType /\ NoJob.step = "done" /\ NoJob.windows = {} /\ NoJob.effect = "none"
    /\ NoJob.window = 0
<1>1. NoJob = [op |-> "none", step |-> "done", read |-> "OPEN", window |-> 0, allowed |-> FALSE,
               windows |-> {}, effect |-> "none", status |-> "OK"]
  BY DEF NoJob
<1> QED BY <1>1 DEF JobType, Steps, States, Statuses

LEMMA ProofAcceptedStep == IInv /\ ProofAccepted => IInv'
<1> SUFFICES ASSUME IInv, ProofAccepted PROVE IInv'
  OBVIOUS
<1>1. /\ job.step = "run" /\ Discard /\ Answer("OK") /\ "OK" \in Statuses
      /\ window' = window + 1 /\ window < MaxWindow
      /\ job \in JobType /\ job.effect = "none" /\ job.windows = {} /\ job.window <= window
      /\ update = Auth!NoUpdate
  BY TypesUnfolded
     DEF ProofAccepted, AfterProof, Run, Statuses, IInv, Unanswered, JobWindows, Core
<1>2. /\ state' = "PROTECTED" /\ session' = TRUE /\ booted' = TRUE
      /\ update' = update /\ stored' = stored
  BY TypesUnfolded DEF ProofAccepted, Auth!Prove, IInv
<1>3. /\ job' \in JobType /\ job'.step = "done" /\ job'.windows = {} /\ job'.effect = "none"
      /\ job'.window = job.window
  BY <1>1, AnswerFacts
<1>4. window' \in 0..MaxWindow + 1 /\ window' <= MaxWindow /\ job'.window <= window'
  <2>1. window \in Nat /\ MaxWindow \in Nat /\ job.window \in Nat
    BY WindowTypes
  <2> QED BY <1>1, <1>3, <2>1
<1> QED BY <1>1, <1>2, <1>3, <1>4, NothingInProgress DEF States

LEMMA TransportResetStep == IInv /\ TransportReset /\ Counted => IInv'
<1> SUFFICES ASSUME IInv, TransportReset, Counted PROVE IInv'
  OBVIOUS
<1>1. job.step = "done" /\ Discard /\ job' = NoJob /\ (Auth!Close \/ Quiet)
      /\ update = Auth!NoUpdate
  BY DEF TransportReset, IInv, Core
<1>2. /\ window' \in 0..MaxWindow + 1 /\ (Authorised' => window' <= MaxWindow)
      /\ state' \in States /\ session' \in BOOLEAN /\ (session' => state' = "PROTECTED")
      /\ booted' \in BOOLEAN
      /\ (booted' /\ state' = "OPEN" => stored' = NoCredential)
      /\ update' = Auth!NoUpdate
  <2>1. CASE Quiet
    BY <1>1, <2>1, QuietFacts, TypesUnfolded DEF IInv, Core, Auth!NoUpdate
  <2>2. CASE Auth!Close
    BY <1>1, <2>2, CloseFacts, TypesUnfolded DEF IInv, States
  <2> QED BY <1>1, <2>1, <2>2
<1>3. job'.window <= window'
  BY <1>1, <1>2, NoJobFacts
<1> QED BY <1>1, <1>2, <1>3, NoJobFacts, NothingInProgress

LEMMA RebootStep == IInv /\ Reboot => IInv'
<1> SUFFICES ASSUME IInv, Reboot PROVE IInv'
  OBVIOUS
<1>1. /\ Discard /\ job' = NoJob /\ window' = 0
      /\ state' = "OPEN" /\ session' = FALSE /\ booted' = FALSE /\ update' = Auth!NoUpdate
  BY DEF Reboot, Auth!Reboot
<1>2. /\ window' \in 0..MaxWindow + 1 /\ window' <= MaxWindow
  BY <1>1, ProtocolAssumption
<1>3. state' \in States /\ (booted' /\ state' = "OPEN" => stored' = NoCredential)
  BY <1>1 DEF States
<1>4. job' \in JobType /\ job'.step = "done" /\ job'.windows = {} /\ job'.effect = "none"
      /\ job'.window <= window'
  BY <1>1, NoJobFacts
<1> QED BY <1>1, <1>2, <1>3, <1>4, NothingInProgress

LEMMA DynamicDroppedStep == IInv /\ DynamicDropped /\ Counted => IInv'
<1> SUFFICES ASSUME IInv, DynamicDropped, Counted PROVE IInv'
  OBVIOUS
<1>1. /\ UNCHANGED <<state, session, credential, stored, update, booted, window>>
      /\ Authorised' = Authorised /\ View' = View
  BY QuietFacts DEF DynamicDropped
<1>2. UNCHANGED <<known, job>> /\ tx' = Cleared("DYNAMIC") /\ "DYNAMIC" \in Kinds
  BY DEF DynamicDropped, Kinds
<1>3. /\ tx' \in [Kinds -> TxType]
      /\ \A k \in Kinds : tx'[k] = NoTx \/ tx'[k] = tx[k]
  BY <1>2, ClearedFacts, TypesUnfolded DEF IInv
<1>4. Types'
  <2>1. \A k \in Kinds : tx'[k].received <= tx'[k].total
    BY <1>3, NoTxFacts, TypesUnfolded DEF IInv
  <2> QED BY <1>1, <1>2, <1>3, <2>1, TypesUnfolded
        DEF IInv, Types, TypeOK, TxType, Authorised, JobType, States
<1>5. Core' /\ ReadIsRecent' /\ JobWindows' /\ Unanswered' /\ TrueAnswers'
  BY <1>1, <1>2
     DEF IInv, Core, Auth!NoUpdate, ReadIsRecent, JobWindows, Unanswered, TrueAnswers
<1>6. KnownIsOld' /\ TxWindows'
  BY <1>1, <1>2, <1>3, NoTxFacts DEF IInv, KnownIsOld, TxWindows, KnownAuthorised
<1> QED BY <1>4, <1>5, <1>6 DEF IInv

\* No right is gained, and one may be lost, in the middle of a request.
LEMMA LosingStep ==
    ASSUME IInv, UNCHANGED <<tx, known, job, update, booted>>, Counted,
           state' \in States, session' \in BOOLEAN, ~Authorised', Core', ReadIsRecent'
    PROVE  IInv'
<1>1. \/ window' = window /\ ~Authorised
      \/ window' = window + 1 /\ Authorised
  BY DEF Counted, Authorised, Auth!Authorised
<1>2. window \in Nat /\ MaxWindow \in Nat /\ job.window \in Nat
  BY WindowTypes
<1>3. window' \in 0..MaxWindow + 1
  BY <1>1, <1>2, TypesUnfolded DEF IInv
<1>4. Types'
  BY <1>3, TypesUnfolded DEF IInv, Types, TypeOK, TxType, Authorised, JobType, States
<1>5. Authorised /\ known = View => KnownAuthorised
  BY DEF Authorised, Auth!Authorised, View, KnownAuthorised
<1>6. KnownIsOld'
  BY <1>1, <1>5 DEF IInv, KnownIsOld, KnownAuthorised
<1>7. TxWindows'
  <2>1. \A k \in Kinds : \A w \in tx[k].windows : w \in Nat /\ w <= window
    BY TypesUnfolded DEF IInv, TxWindows, TxType
  <2> QED BY <1>1, <1>2, <2>1 DEF IInv, TxWindows
<1>8. JobWindows'
  <2>1. job.window <= window /\ job.window <= window'
    BY <1>1, <1>2 DEF IInv, JobWindows
  <2>2. job.step \notin {"done", "sync"} =>
          IF job.window = window' THEN job.allowed = Authorised' ELSE ~Authorised'
    <3>1. CASE window' = window /\ ~Authorised
      <4>1. Authorised' = Authorised
        BY <3>1 DEF Authorised, Auth!Authorised
      <4> QED BY <3>1, <4>1 DEF IInv, JobWindows
    <3>2. CASE window' = window + 1 /\ Authorised
      BY <1>2, <2>1, <3>2
    <3> QED BY <1>1, <3>1, <3>2
  <2> QED BY <2>1, <2>2 DEF IInv, JobWindows
<1>9. Unanswered' /\ TrueAnswers'
  BY <1>1, <1>2 DEF IInv, Unanswered, TrueAnswers, JobWindows
<1> QED BY <1>4, <1>6, <1>7, <1>8, <1>9 DEF IInv

LEMMA AuthAloneStep == IInv /\ AuthAlone /\ Counted => IInv'
<1> SUFFICES ASSUME IInv, AuthAlone, Counted PROVE IInv'
  OBVIOUS
<1>1. UNCHANGED <<tx, known, job>>
  BY DEF AuthAlone
<1>2. CASE Auth!Close
  <2>1. Core' /\ ReadIsRecent'
    BY <1>1, <1>2, CloseFacts DEF IInv, Core, Auth!NoUpdate, ReadIsRecent
  <2> QED BY <1>1, <1>2, <2>1, CloseFacts, LosingStep DEF IInv, States
<1>3. CASE Auth!Fail
  <2>1. /\ stored # NoCredential /\ state' = "ERROR_LOCKED" /\ session' = FALSE
        /\ UNCHANGED <<stored, update, booted>>
    BY <1>3 DEF Auth!Fail
  <2>2. ~Authorised'
    BY <2>1 DEF Authorised, Auth!Authorised
  <2>3. Core'
    BY <1>1, <2>1 DEF IInv, Core, Auth!NoUpdate
  <2>4. ReadIsRecent'
    BY <1>1, <2>1 DEF IInv, Core, ReadIsRecent
  <2> QED BY <1>1, <2>1, <2>2, <2>3, <2>4, LosingStep DEF States
<1>4. CASE Auth!Restore
  <2>1. /\ state = "ERROR_LOCKED" /\ state' = "PROTECTED" /\ session' = FALSE
        /\ UNCHANGED <<stored, update, booted>>
    BY <1>4 DEF Auth!Restore
  <2>2. ~Authorised'
    BY <2>1 DEF Authorised, Auth!Authorised
  <2>3. Core'
    BY <1>1, <2>1 DEF IInv, Core, Auth!NoUpdate
  <2>4. ReadIsRecent'
    BY <1>1, <2>1 DEF IInv, Core, ReadIsRecent
  <2> QED BY <1>1, <2>1, <2>2, <2>3, <2>4, LosingStep DEF States
<1>5. CASE Auth!Boot
  <2>1. /\ ~booted /\ booted' = TRUE /\ (state = "OPEN" => stored = NoCredential)
        /\ UNCHANGED <<state, session, credential, stored, update>>
    BY <1>5 DEF Auth!Boot
  <2>2. window' = window /\ Authorised' = Authorised /\ View' = View
    BY <2>1, UpdateFacts
  <2>3. Types'
    BY <1>1, <2>1, <2>2, TypesUnfolded
       DEF IInv, Types, TypeOK, TxType, Authorised, JobType, States
  <2>4. Core' /\ ReadIsRecent' /\ JobWindows' /\ Unanswered' /\ TrueAnswers'
    BY <1>1, <2>1, <2>2
       DEF IInv, Core, Auth!NoUpdate, ReadIsRecent, JobWindows, Unanswered, TrueAnswers
  <2>5. KnownIsOld' /\ TxWindows'
    BY <1>1, <2>1, <2>2 DEF IInv, KnownIsOld, TxWindows, KnownAuthorised
  <2> QED BY <2>3, <2>4, <2>5 DEF IInv
<1> QED BY <1>2, <1>3, <1>4, <1>5 DEF AuthAlone

---------------------------------------------------------------------------
(* The theorems. *)

LEMMA InitIInv == Init => IInv
<1> SUFFICES ASSUME Init PROVE IInv
  OBVIOUS
<1>1. /\ state = "OPEN" /\ session = FALSE /\ booted = FALSE /\ update = Auth!NoUpdate
      /\ tx = NoTransactions /\ known = NotKnown /\ job = NoJob /\ window = 0
  BY DEF Init, Auth!Init
<1>2. /\ tx \in [Kinds -> TxType] /\ \A k \in Kinds : tx[k] = NoTx
  BY <1>1, NoTxFacts
<1>3. known \in [valid : BOOLEAN, state : States, session : BOOLEAN]
  BY <1>1 DEF NotKnown, States
<1>4. update \in [stage : {"none", "save", "apply"}, credential : Credentials \cup {NoCredential}]
  BY <1>1 DEF Auth!NoUpdate
<1>5. window \in 0..MaxWindow + 1 /\ window <= MaxWindow
  BY <1>1, ProtocolAssumption
<1>6. job \in JobType /\ job.step = "done" /\ job.windows = {} /\ job.effect = "none"
      /\ job.window = 0
  BY <1>1, NoJobFacts
<1>7. Types
  <2>1. \A k \in Kinds : tx[k].received <= tx[k].total
    BY <1>2, NoTxFacts
  <2> QED BY <1>1, <1>2, <1>3, <1>4, <1>5, <1>6, <2>1
        DEF Types, TypeOK, TxType, Authorised, JobType, States
<1>8. Core /\ ReadIsRecent /\ Unanswered /\ TrueAnswers
  BY <1>1, <1>6 DEF Core, Auth!NoUpdate, ReadIsRecent, Unanswered, TrueAnswers
<1>9. KnownIsOld /\ TxWindows /\ JobWindows
  BY <1>1, <1>2, <1>6, NoTxFacts DEF KnownIsOld, TxWindows, JobWindows
<1> QED BY <1>7, <1>8, <1>9 DEF IInv

LEMMA ServeStep == IInv /\ Serve /\ Counted => IInv'
<1> SUFFICES ASSUME IInv, Serve, Counted PROVE IInv'
  OBVIOUS
<1>1. /\ \A total \in 0..MaxText : total \in 0..MaxText + PasswordLength
      /\ PasswordLength \in 0..MaxText + PasswordLength
  BY ProtocolAssumption
<1>2. CASE Read \/ Clear
  BY <1>2, ReadStep, ClearStep
<1>3. CASE \E k \in {"SET", "PASSWORD_SET"} : ChunkRejected(k)
  BY <1>3, ChunkRejectedStep
<1>4. ASSUME NEW total \in 0..MaxText, NEW f \in Chunks(total),
             ChunkStaged("SET", f) \/ SetCommitted(f)
      PROVE  IInv'
  BY <1>1, <1>4, ChunkStagedStep, SetCommittedStep
<1>5. ASSUME NEW f \in Chunks(PasswordLength),
             \/ ChunkStaged("PASSWORD_SET", f)
             \/ \E c \in Credentials : PasswordChecked(f, c)
             \/ PasswordNotAllowed(f)
      PROVE  IInv'
  BY <1>1, <1>5, ChunkStagedStep, PasswordCheckedStep, PasswordNotAllowedStep
<1>6. CASE PasswordSaved \/ PasswordNotSaved \/ PasswordApplied
  BY <1>6, PasswordSavedStep, PasswordNotSavedStep, PasswordAppliedStep
<1> QED BY <1>2, <1>3, <1>4, <1>5, <1>6 DEF Serve

LEMMA NextIInv == IInv /\ [Next]_vars => IInv'
<1> SUFFICES ASSUME IInv, [Next]_vars PROVE IInv'
  OBVIOUS
<1>1. CASE UNCHANGED vars
  <2>1. UNCHANGED <<Authorised, View>>
    BY <1>1 DEF vars, Authorised, Auth!Authorised, View
  <2>2. Types'
    BY <1>1, TypesUnfolded, TypesKept DEF vars, IInv
  <2> QED BY <1>1, <2>1, <2>2
        DEF vars, IInv, Core, Auth!NoUpdate, ReadIsRecent, KnownIsOld, KnownAuthorised,
            TxWindows, JobWindows, Unanswered, TrueAnswers
<1>2. CASE Process /\ Counted
  <2>1. ASSUME NEW op \in Opcodes, Receive(op) PROVE IInv'
    BY <1>2, <2>1, ReceiveStep
  <2>2. ASSUME NEW accepted \in BOOLEAN, Sync(accepted) PROVE IInv'
    BY <1>2, <2>2, SyncStep
  <2>3. CASE Unprotected
    BY <1>2, <2>3, AskStep, ProofFailedStep, LockedStep, LockRejectedStep,
       DynamicBegunStep, DynamicContinuedStep, DynamicRefusedStep, DynamicClearedStep
       DEF Unprotected
  <2>4. CASE AccessState \/ AccessSession
    BY <1>2, <2>4, AccessStateStep, AccessSessionStep
  <2>5. CASE Serve
    BY <1>2, <2>5, ServeStep
  <2>6. CASE RefreshState \/ RefreshSession
    BY <1>2, <2>6, RefreshStateStep, RefreshSessionStep
  <2> QED BY <1>2, <2>1, <2>2, <2>3, <2>4, <2>5, <2>6 DEF Process
<1>3. CASE (TransportReset \/ DynamicDropped \/ AuthAlone) /\ Counted
  BY <1>3, TransportResetStep, DynamicDroppedStep, AuthAloneStep
<1>4. CASE ProofAccepted \/ Reboot
  BY <1>4, ProofAcceptedStep, RebootStep
<1> QED BY <1>1, <1>2, <1>3, <1>4 DEF Next

\* IInv holds in every state.
THEOREM Inductive == Spec => []IInv
<1> QED BY InitIInv, NextIInv, PTL DEF Spec

\* The type invariant of the protocol.
THEOREM TypeCorrect == Spec => []TypeOK
<1>1. IInv => TypeOK
  BY DEF IInv, Types
<1> QED BY <1>1, Inductive, PTL

\* An answer is true of what the request has done, however sessions ended and settings were
\* loaded while it was served.
THEOREM AnswersAreTrue == Spec => []TrueAnswers
<1>1. IInv => TrueAnswers
  BY DEF IInv
<1> QED BY <1>1, Inductive, PTL

LEMMA AtMostOne ==
    ASSUME NEW S, NEW w, \A v \in S : v = w
    PROVE  Cardinality(S) <= 1
<1>1. CASE S = {}
  BY <1>1, FS_EmptySet
<1>2. CASE S # {}
  <2>1. S = {w}
    BY <1>2
  <2>2. Cardinality(S) = 1
    BY <2>1, FS_Singleton
  <2> QED BY <2>2
<1> QED BY <1>1, <1>2

\* Bytes of two authorisations never meet, and only a request that was let in has an effect.
THEOREM NoMixedWindows == Spec => []OneWindow
<1>1. IInv => OneWindow
  <2> SUFFICES ASSUME IInv PROVE OneWindow
    OBVIOUS
  <2>1. ASSUME NEW k \in Kinds PROVE Cardinality(tx[k].windows) <= 1
    <3>1. CASE tx[k].windows = {}
      BY <3>1, FS_EmptySet
    <3>2. CASE tx[k].windows # {}
      <4>1. PICK w : w \in tx[k].windows
        BY <3>2
      <4>2. \A v \in tx[k].windows : v = w
        BY <4>1 DEF IInv, TxWindows
      <4> QED BY <4>2, AtMostOne
    <3> QED BY <3>1, <3>2
  <2>2. Cardinality(job.windows) <= 1
    <3>1. \A v \in job.windows : v = job.window
      BY DEF IInv, JobWindows
    <3> QED BY <3>1, AtMostOne
  <2> QED BY <2>1, <2>2 DEF IInv, JobWindows, OneWindow
<1> QED BY <1>1, Inductive, PTL

---------------------------------------------------------------------------
(* The three transactions. *)

\* A transaction of the running authorisation, and a request that is not about it.
Bystander(k) ==
    /\ job.step # "done"
    /\ tx[k].active /\ tx[k].windows = {window} /\ Authorised
    /\ k # job.op /\ ~(k = "DYNAMIC" /\ job.op \in Dynamic)
    /\ job.op \notin {"AUTH_PROVE", "LOCK"} /\ job.step # "apply"

\* The save of a credential fails with an error that is taken for a lost session.
RefusedForNoSession == job.step = "save" /\ job'.status = "AUTH_REQUIRED"

LEMMA BystanderAtSync ==
    ASSUME IInv, NEW k \in Kinds, Bystander(k), NEW accepted \in BOOLEAN, Sync(accepted)
    PROVE  tx'[k] = tx[k]
<1>1. job.step = "sync"
  BY DEF Sync
<1>2. ~Differs
  BY <1>1, SyncFacts DEF Bystander
<1>3. tx' = tx \/ tx' = DiscardForOpcode(job.op)
  BY <1>2 DEF Sync, Synced
<1>4. DiscardForOpcode(job.op)[k] = tx[k]
  BY DEF DiscardForOpcode, Bystander, Dynamic
<1> QED BY <1>3, <1>4

LEMMA BystanderOfTheUnprotected ==
    ASSUME IInv, NEW k \in Kinds, Bystander(k), Unprotected
    PROVE  tx'[k] = tx[k]
<1>1. tx \in [Kinds -> TxType]
  BY TypesUnfolded DEF IInv
<1>2. CASE Ask
  BY <1>2 DEF Ask
<1>3. CASE ProofFailed \/ Locked \/ LockRejected
  BY <1>3 DEF ProofFailed, Locked, LockRejected, Run, Bystander
<1>4. CASE DynamicBegun \/ DynamicContinued \/ DynamicRefused \/ DynamicCleared
  <2>1. job.op \in Dynamic
    BY <1>4 DEF DynamicBegun, DynamicContinued, DynamicRefused, DynamicCleared, Run, Dynamic
  <2>2. k # "DYNAMIC"
    BY <2>1 DEF Bystander
  <2> QED BY <1>1, <1>4, <2>2
        DEF DynamicBegun, DynamicContinued, DynamicRefused, DynamicCleared, Cleared
<1> QED BY <1>2, <1>3, <1>4 DEF Unprotected

LEMMA BystanderOfServe ==
    ASSUME IInv, NEW k \in Kinds, Bystander(k), Serve, ~RefusedForNoSession
    PROVE  tx'[k] = tx[k]
<1>1. tx \in [Kinds -> TxType]
  BY TypesUnfolded DEF IInv
<1>2. CASE Read \/ Clear
  BY <1>2 DEF Read, Clear
<1>3. ASSUME NEW i \in {"SET", "PASSWORD_SET"}, ChunkRejected(i) PROVE tx'[k] = tx[k]
  BY <1>1, <1>3 DEF ChunkRejected, Run, Cleared, Bystander
<1>4. ASSUME NEW i \in {"SET", "PASSWORD_SET"}, NEW f, ChunkStaged(i, f) PROVE tx'[k] = tx[k]
  BY <1>1, <1>4 DEF ChunkStaged, Run, Bystander
<1>5. ASSUME NEW f, SetCommitted(f) PROVE tx'[k] = tx[k]
  BY <1>1, <1>5 DEF SetCommitted, Run, Cleared, Bystander
<1>6. ASSUME NEW f, NEW c, PasswordChecked(f, c) PROVE tx'[k] = tx[k]
  BY <1>1, <1>6 DEF PasswordChecked, PasswordComplete, Run, Bystander
<1>7. ASSUME NEW f, PasswordNotAllowed(f) PROVE tx'[k] = tx[k]
  <2>1. k # "PASSWORD_SET"
    BY <1>7 DEF PasswordNotAllowed, PasswordComplete, Run, Bystander
  <2>2. ~(state = "PROTECTED" /\ ~session)
    BY DEF Bystander, Authorised, Auth!Authorised
  <2>3. tx' = Cleared("PASSWORD_SET")
    BY <1>7, <2>2 DEF PasswordNotAllowed
  <2> QED BY <1>1, <2>1, <2>3 DEF Cleared
<1>8. CASE PasswordSaved
  BY <1>8 DEF PasswordSaved
<1>9. CASE PasswordNotSaved
  <2>1. job.step = "save" /\ job.op = "PASSWORD_SET" /\ job \in JobType
    BY <1>9, TypesUnfolded DEF PasswordNotSaved, IInv, Unanswered
  <2>2. ~Error("AUTH_REQUIRED")
    BY <2>1, ErrorFacts DEF RefusedForNoSession, Statuses
  <2>3. tx' = Cleared("PASSWORD_SET")
    BY <1>9, <2>2 DEF PasswordNotSaved
  <2> QED BY <1>1, <2>1, <2>3 DEF Cleared, Bystander
<1>10. CASE PasswordApplied
  BY <1>10 DEF PasswordApplied, Bystander
<1> QED BY <1>2, <1>3, <1>4, <1>5, <1>6, <1>7, <1>8, <1>9, <1>10 DEF Serve

LEMMA BystanderOfNext ==
    ASSUME IInv, NEW k \in Kinds, Bystander(k), Next, job' # job, booted',
           ~RefusedForNoSession
    PROVE  tx'[k] = tx[k]
<1>1. job.step \in {"session", "renew"} => IsAuthenticated
  BY DEF IInv, Core, Bystander, IsAuthenticated, Authorised, Auth!Authorised
<1>2. state # "ERROR_LOCKED"
  BY DEF Bystander, Authorised, Auth!Authorised
<1>3. ASSUME NEW op \in Opcodes, Receive(op) PROVE tx'[k] = tx[k]
  BY <1>3 DEF Receive
<1>4. ASSUME NEW accepted \in BOOLEAN, Sync(accepted) PROVE tx'[k] = tx[k]
  BY <1>4, BystanderAtSync
<1>5. CASE Unprotected
  BY <1>5, BystanderOfTheUnprotected
<1>6. CASE AccessState \/ AccessSession
  BY <1>1, <1>2, <1>6 DEF AccessState, AccessSession, SessionAllows
<1>7. CASE Serve
  BY <1>7, BystanderOfServe
<1>8. CASE RefreshState \/ RefreshSession
  BY <1>1, <1>8 DEF RefreshState, RefreshSession
<1>9. CASE TransportReset \/ DynamicDropped \/ AuthAlone
  BY <1>9 DEF TransportReset, DynamicDropped, AuthAlone, Bystander
<1>10. CASE ProofAccepted
  BY <1>10 DEF ProofAccepted, Run, Bystander
<1>11. CASE Reboot
  BY <1>11 DEF Reboot, Auth!Reboot
<1> QED BY <1>3, <1>4, <1>5, <1>6, <1>7, <1>8, <1>9, <1>10, <1>11 DEF Next, Process

\* A request leaves the transactions of other kinds alone while their authorisation lasts.
THEOREM TransactionsAreIndependent == Spec => Independent
<1> DEFINE Body ==
        \A k \in Kinds :
             /\ job.step # "done" /\ job' # job /\ booted'
             /\ tx[k].active /\ tx[k].windows = {window} /\ Auth!Authorised
             /\ k # job.op /\ ~(k = "DYNAMIC" /\ job.op \in Dynamic)
             /\ job.op \notin {"AUTH_PROVE", "LOCK"} /\ job.step # "apply"
             /\ ~(job.step = "save" /\ job'.status = "AUTH_REQUIRED")
          => tx'[k] = tx[k]
<1>1. IInv /\ [Next]_vars => [Body]_vars
  <2> SUFFICES ASSUME IInv, [Next]_vars PROVE [Body]_vars
    OBVIOUS
  <2>1. CASE UNCHANGED vars
    BY <2>1
  <2>2. ASSUME Next, NEW k \in Kinds, Bystander(k), job' # job, booted', ~RefusedForNoSession
        PROVE  tx'[k] = tx[k]
    BY <2>2, BystanderOfNext
  <2>3. CASE Next
    BY <2>2, <2>3 DEF Bystander, Authorised, RefusedForNoSession
  <2> QED BY <2>1, <2>3
<1>2. Spec => [][Body]_vars
  BY <1>1, Inductive, PTL DEF Spec
<1> QED BY <1>2 DEF Independent

---------------------------------------------------------------------------
(* The protocol only does to the authentication core what AuthGate allows: *)
(* with AuthProofs, which shows that the core implements AuthGate, what is *)
(* proved here of the protocol rests on nothing the core does not promise. *)

LEMMA ServeAndTheGate == ASSUME Serve PROVE Auth!Next \/ Quiet
<1> USE DEF Quiet, authVars
<1>1. CASE Read \/ Clear
  BY <1>1 DEF Read, Clear
<1>2. ASSUME NEW k \in {"SET", "PASSWORD_SET"}, ChunkRejected(k) PROVE Quiet
  BY <1>2 DEF ChunkRejected
<1>3. ASSUME NEW total \in 0..MaxText, NEW f \in Chunks(total),
             ChunkStaged("SET", f) \/ SetCommitted(f)
      PROVE  Quiet
  BY <1>3 DEF ChunkStaged, SetCommitted
<1>4. ASSUME NEW f \in Chunks(PasswordLength),
             ChunkStaged("PASSWORD_SET", f) \/ PasswordNotAllowed(f)
      PROVE  Quiet
  BY <1>4 DEF ChunkStaged, PasswordNotAllowed
<1>5. ASSUME NEW f \in Chunks(PasswordLength), NEW c \in Credentials, PasswordChecked(f, c)
      PROVE  Auth!Next
  BY <1>5 DEF PasswordChecked, Auth!Next
<1>6. CASE PasswordSaved \/ PasswordNotSaved \/ PasswordApplied
  BY <1>6 DEF PasswordSaved, PasswordNotSaved, PasswordApplied, Auth!Next
<1> QED BY <1>1, <1>2, <1>3, <1>4, <1>5, <1>6 DEF Serve

LEMMA ProcessAndTheGate == ASSUME Process PROVE Auth!Next \/ Quiet
<1>1. ASSUME NEW op \in Opcodes, Receive(op) PROVE Quiet
  BY <1>1 DEF Receive
<1>2. ASSUME NEW accepted \in BOOLEAN, Sync(accepted) PROVE Quiet
  BY <1>2 DEF Sync
<1>3. CASE Unprotected
  BY <1>3 DEF Unprotected, Ask, ProofFailed, Locked, LockRejected, DynamicBegun,
              DynamicContinued, DynamicRefused, DynamicCleared, Auth!Next
<1>4. CASE AccessState \/ AccessSession
  BY <1>4 DEF AccessState, AccessSession, Refused, Quiet
<1>5. CASE RefreshState \/ RefreshSession
  BY <1>5 DEF RefreshState, RefreshSession
<1> QED BY <1>1, <1>2, <1>3, <1>4, <1>5, ServeAndTheGate DEF Process

\* Every behaviour of the protocol is, for the authentication core, one of AuthGate.
THEOREM UsesTheGate == Spec => Auth!Spec
<1>1. Init => Auth!Init
  BY DEF Init
<1>2. [Next]_vars => [Auth!Next]_(Auth!gateVars)
  <2> SUFFICES ASSUME [Next]_vars PROVE [Auth!Next]_(Auth!gateVars)
    OBVIOUS
  <2>1. Quiet \/ UNCHANGED vars => UNCHANGED Auth!gateVars
    BY DEF Quiet, authVars, vars, Auth!gateVars
  <2>2. CASE Process
    BY <2>1, <2>2, ProcessAndTheGate
  <2>3. CASE TransportReset \/ DynamicDropped
    BY <2>1, <2>3 DEF TransportReset, DynamicDropped, Auth!Next
  <2>4. CASE AuthAlone \/ ProofAccepted \/ Reboot
    BY <2>4 DEF AuthAlone, ProofAccepted, Reboot, Auth!Next
  <2> QED BY <2>1, <2>2, <2>3, <2>4 DEF Next
<1> QED BY <1>1, <1>2, PTL DEF Spec, Auth!Spec

=============================================================================
