# Runtime macros for ZMK: specifications and proofs

This directory holds TLA+ specifications of the runtime macro module: the firmware under
`src/src`, what it promises to keymaps and to hosts, and the command-line client that talks to it.
TLC checks each specification on a small instance. TLAPS proves the safety of every component, the
client included, and that the specifications implement or use each other as they should, for every
value of the constants.

1. [The system](#the-system)
2. [Modules](#modules)
3. [What the runs check](#what-the-runs-check)
4. [Bounds](#bounds)
5. [Fairness](#fairness)
6. [What is proved](#what-is-proved)
7. [Assumptions about the surroundings](#assumptions-about-the-surroundings)
8. [Where code and documents disagree](#where-code-and-documents-disagree)
9. [What is not modelled](#what-is-not-modelled)
10. [Plan](#plan)

## The system

| Component | Source | State | Operations |
|---|---|---|---|
| Authentication | `runtime_macro_auth.c` | `runtime_macro_auth` (state, credential, session, challenge, failures), loader flags, the stored credential | get_state/get_info/is_authenticated, refresh_session, generate_challenge, verify_proof, lock, transport_reset, set_credential, settings set/commit |
| Dynamic store | `runtime_macro_dynamic.c` | committed slots with deadlines, one staging buffer, the TTL work item and its generations | begin, append, cancel_staging, clear_slot, clear_all, check_expiry, execute_slot, TTL handler |
| Lifecycle listeners | `runtime_macro_dynamic_lifecycle.c` | none | call clear_all on a BLE profile or endpoint change |
| Persistent slots | `runtime_macro.c` | texts in RAM, per-slot "has a key", the first-boot marker, the stored keys | slot_set, slot_clear, settings set/commit |
| Executor | `runtime_macro_executor.c` | text, index, phase, key down; atomic busy flag; one delayable work item | executor_start, work handler, finish |
| Keymap behaviors | `behaviors/*.c` | none | start a static macro, execute a dynamic slot |
| Management protocol | `runtime_macro_protocol.c` | SET, PASSWORD_SET and dynamic transactions, last known authentication state, timeout owner and work item | one request handler per opcode, discard, timeout handler |
| USB HID transport | `runtime_macro_usb_hid.c` | connection generation, request queue, transmit buffer, online flag | set_report, int_in_ready, work handler, status listener |
| Client | `tools/runtime_macro_cli.py` | the call in progress, next request identifier | exchange, retries of each stage, the commands |
| ASCII table, Kconfig, build guards | `runtime_macro_ascii.c`, `Kconfig`, `runtime_macro_dynamic_guard.c` | none | constants |

**How they interact.** A host report enters the transport's queue; its work handler, holding the
transport mutex, calls `zmk_runtime_macro_protocol_process`. That reads the authentication state,
discards what was begun under another one, and calls the authentication module, the slots or the
dynamic store. Key presses call the executor (static macros) or `execute_slot` (dynamic ones, which
calls the executor with the dynamic mutex held). Two work items, the TTL of the store and the
inactivity timeout of the protocol, run on the system work queue, as does the executor's. BLE,
endpoint and USB listeners clear the store from wherever those events are raised. The locks are
taken in the order transport, timeout, dynamic, executor's busy flag (a compare-and-swap, never
waited for); update mutex, auth mutex; update mutex, settings lock, slots mutex. No path takes two
of them in another order.

**What is hard about each component, and what makes it correct.**

- *Authentication.* `set_credential` checks, saves and applies in three critical sections, and a
  settings reload reads the same key outside the mutex. Nonces must be one-shot, sessions must end
  with their credential, guesses must be spaced, memory must agree with flash, and nothing but a
  reboot may lift protection.
- *Dynamic store.* One timer serves all slots, several operations change deadlines without
  touching it, and its handler may be dequeued long before it gets the mutex. Text must have a
  wake-up call, must not be torn, executed late or twice, or lost by accident.
- *Dynamic transaction.* The protocol and the store keep separate accounts of one upload under
  different mutexes. They must agree, success must mean what happened, and a late timeout must not
  take away an upload that was continued.
- *Persistent slots.* RAM changes before flash, both can fail separately, power may go between
  them, and the first-boot marker decides what an absent key means.
- *Executor.* Any thread may start it, every scheduling call may fail, and raising an event runs
  arbitrary listeners. It must have one owner, must not leave a key down, must type the text in
  order and must become idle again.
- *USB transport.* Status callbacks, completions, coalesced notifications and the handler interleave
  at every shared access. A request must not be served in another connection, the one response
  buffer must have one owner, no queued request may be forgotten, and the transport must get online
  whenever the bus allows it.
- *Management protocol.* A request looks at the authentication state several times, and sessions
  end, settings are reloaded and time passes between the looks. Nothing begun under one
  authorisation may be finished under another, and every answer must be true of what was done.
- *Client.* Requests and answers are lost or late, identifiers are reused, sessions and connections
  end between two chunks. A call that reports success must be right, one that must not be repeated
  must not be, and every call must end.

`PROJECT.json` lists each hazard at its line with the properties that cover it.

## Modules

| Module | Models | Built on |
|---|---|---|
| `AuthGate` | what authentication promises the protocol, abstractly | |
| `Auth` | authentication and its settings key | refines `AuthGate` |
| `Protocol` | one request after the other: synchronisation, access, transactions, session refresh | instantiates `AuthGate` |
| `DynamicStore` | dynamic slots, staging, TTL work item | |
| `DynamicTransaction` | the protocol's dynamic transaction and timeout | extends `DynamicStore` |
| `Slots` | persistent slots, their keys, first boot | |
| `UsbTransport` | USB HID transport: queue, generation, online flag, response buffer | |
| `Typing` | what the executor promises, abstractly | |
| `Executor` | the executor | refines `Typing` |
| `Client` | the command-line client, over a lossy connection to a device that serves requests | |
| `AuthProofs` | theorems: safety of `Auth`; `Auth` implements `AuthGate` | TLAPS |
| `DynamicTransactionProofs` | theorems about `DynamicTransaction` | `DynamicStoreProofs` |
| `...Proofs` | theorems about `DynamicStore`, `Slots`, `Executor`, `UsbTransport`, `Protocol` and `Client` | TLAPS |
| `MC...` | instances for TLC: symmetry, the sets a `.cfg` cannot write | their module |

The composition is `AuthGate` for authentication in `Protocol` (the refinement shows that `Auth`
does it, and `UsesTheGate` that `Protocol` does no more to it), and the whole of `DynamicStore` in
`DynamicTransaction` (proved to be used only as its specification allows). `Protocol` keeps of a
dynamic upload the identity of its transaction only, `DynamicTransaction` keeps of the access rules
that a transaction may be discarded at any time.

### Conventions

- A function that holds its mutex from its first read to its last write is one action. A function
  that lets go of it is one action per critical section, with the caller's position kept in a
  variable (`pc`, `loader`, `update`, `starting`).
- A work item is a delay (`timer`, `timeout.left`), a place in the work queue (`queued`) and a
  handler that has been dequeued and has not yet taken its mutex (`running`). Cancelling stops the
  first two only; rescheduling only restarts the delay. This is what makes late handlers possible.
- Where the code tests what a scheduling call returns, both outcomes are actions. Where it casts
  the result to `void`, the call is taken to succeed; so is the one with which a timeout handler
  that was woken too early waits for the rest (`runtime_macro_protocol.c:130`, `HandlerTooEarly`).
- In `Auth` a deadline is an absolute time, because its clock is in the state. In `DynamicStore`
  and `DynamicTransaction` it is the time that is left, which keeps the state finite without a
  bound on the clock.
- `ghost` (and `told` and `quiet` in `DynamicTransaction`, `window` in `Protocol`, `from` in the
  reports of `Client`) is history that only properties read. Where it numbers things, such as
  `ghost.issued` for nonces or `ghost.uploads` for uploads, the number also stands for the data.
- An operator whose comment begins with "Wrong variant of X" is what a plausible slip in X would
  be. No specification uses it; the mutants in `PROJECT.json` do, to show that each property can
  fail.

### Auth

`auth` is the C struct. The helpers (`ClearTransient`, `Expire`, `RecordFailure`, ...) are
functions from one value of the struct to the next, named as in the C file. Lazy expiry, with which
most functions begin, is `Current`. `set_credential` is `SetCredentialCheck`, `...Save` or
`...SaveFailed`, `...Apply`; a settings load is `LoadBegin` (fail closed), `LoadRead` or
`LoadReadFailed`, `LoadApply` (only if nothing newer has happened), `LoadCommit`. A nonce is its
number, an HMAC the pair of key and nonce, and a proof offered may be made with any credential and
any nonce issued so far. Salt, iterations and zeroized locals are not represented.

### AuthGate

The same module with challenges, cooldowns, deadlines and the loader hidden. A proof may be accepted
at any time, a session may end at any time, and a load shows as `Fail` (the device locks before it
reads) and `Restore`. The instance `Gate` in `Auth` maps `update` to the step and the request of the
caller that is inside `set_credential`, of which there is one at most. `Restore` says more than one
would guess from the code: the loader of a running device installs nothing but the first credential,
in the window between its save and its apply; every other reload leaves the device locked.

### Protocol

A request is a `job` that moves through the places where `zmk_runtime_macro_protocol_process` looks
at the authentication state: `Receive` reads the state, `Sync` the session and throws away what
belongs to another one, `AccessState` and `AccessSession` let a management request in, the handler
runs, and `RefreshState` and `RefreshSession` renew the session before success is told. A
PASSWORD_SET has two more, save and apply. Session expiry and settings loads (`AuthAlone`), reboots
and the inactivity timeout come between any two of them; requests and the transport reset share the
work queue and do not. Malformed frames are `accepted = FALSE`, the other reasons for a BAD answer
one disjunct per handler. `tx` has the three transactions with `id`, `total` and `received` for
those that are sent in chunks, `known` is `auth_state_known` and its companions.

A *window* is the time from one gain of the right to manage macros (the device is open, or a session
runs) to the next loss or login; `window` counts them. `tx[k].windows` collects the windows in
which the bytes of a transaction were admitted, `job.windows` those of the bytes just committed.

### DynamicStore

`slots` and `staging` are the C struct; a byte is the number of the upload it came in, so mixed
texts are visible. `BeginSome` and `AppendSome` enumerate valid and invalid requests, including
slots out of range, wrong offsets and text outside the alphabet. The legacy entry points
(`..._begin`, `..._append` and so on) are `begin_slot` with slot 0 and a smaller limit, so only
`BeginSome` distinguishes them. The executor is what `execute_slot` sees of it: busy or not, and
free to refuse. The per-slot `ttl_generation`, which nothing reads, is left out.

### DynamicTransaction

The module extends `DynamicStore`: it shares the store's variables, calls its actions by their names
and adds its own variables; `TransactionInit`, `TransactionNext` and so on are the composition's.
`tx` is the `dynamic_*` part of the protocol object, `owner` and `timeout` its timeout. A request is
one action although it calls the store more than once: other threads can only get in between those
calls, what they do touches the store alone, and the second call is always `cancel_staging`, which
commutes with it. The handler of the timeout is a separate step from its dequeueing. `quiet` counts
the seconds since BEGIN or DATA last kept the upload open, whatever deadline they have left behind.
`Discard` is every path through `zmk_runtime_macro_protocol_discard` and `clear_dynamic` that
depends on the transport or on authentication: it may happen at any time. The limits the protocol
checks are the same numbers as the store's (512 bytes, 1 to 86400 seconds), so one constant stands
for both; the byte alphabet is one table as well.

### Slots

A change is two steps, RAM and then store, under the update mutex. `Save` of an empty text may keep
an empty value or drop the key, since a settings backend may treat a value of length 0 as a
deletion. The boot loads the keys in any order, any of them may be malformed or unreadable, and
`settings_commit` writes the missing defaults one by one and then the marker. Power may go at any
step. `ghost.promised` is what the store will deliver, `ghost.diverged` the slots where a failure
the caller was told of (or the boot logged) separates RAM and store.

### UsbTransport

Two contexts interleave at every shared access. The USB context (`usb`) runs a status callback,
`set_report` or `int_in_ready`, one at a time. The system work queue (`work`, `thread`) runs ZMK's
coalesced status notification, which calls the listener and the reset, and the transport's handler,
first in, first out. So the transport mutex is never contended, and the generation check after
`hid_int_ep_write` cannot fail; neither is represented. The listener's event carries the status of
the moment it is raised, the reset samples the status before and after. `endpoint` is the host
controller's side: a bus reset or disconnect disables it, a configuration enables it, and each
drops the transfer it holds, as the comment at `runtime_macro_usb_hid.c:91-97` has it. A request is
its generation. `ghost.early` marks the exception that `usb_transport_buffer` shows, `ghost.missed`
the one in *PermitComesBack* (below), `ghost.unsubmitted` a failed write or submission.

### Typing and Executor

`Typing` is the promise: it accepts one text, presses and releases its keys in order with one
down at most, and never gives up with a key down. `Executor` is the code: claim the flag, copy,
schedule; press, schedule, release, schedule, and so on; `finish` zeroizes first and gives the flag
back last, as two steps. Listeners run while an event is raised, so the handler is between steps
then and other threads, listeners included, may call `executor_start`. The refinement maps `text`
and `done` to the executor's while the work item is scheduled or the handler runs, and to nothing
before and after.

### Client

`Program` lists the stages of each call and `Opcodes` the frames of each stage, so that one `Send`,
one `Receive` and one `Timeout` serve them all. They follow `exchange`: write a report, read until
one matches by opcode and identifier, give up after a while. The retries around it differ by stage:
`set`, `upload` and `password` use one identifier for all frames and start again from the first when
a frame is unanswered or refused as out of context, `get` goes on from the chunk it has, the others
send the frame again. The last chunk of a password is not repeated: its stage ends, and `confirm`
asks with AUTH_INFO whether the salt is the new one.

The device serves one request after the other, as `Protocol` does, with one static and one dynamic
slot. The answer may be lost or arrive after the timeout, a write may be reported as failed although
it arrived, the connection may be reset, the session may expire, a save may fail. `NewProcess` is
another invocation of the tool: identifiers start at 0 again, and what the old one sent may still be
on its way unless `Drained`.

## What the runs check

| Run | States | Properties |
|---|---|---|
| `auth` | 82,324 | `TypeOK`, `OneShotChallenge`, `SessionProvesCredential`, `StorageAgrees`, `FailureSpacing`, `NeverReopens`, `ImplementsGate` |
| `dynamic_store` | 16,816 | `TypeOK`, `WholeUploads`, `TimerCovers`, `ExecutesInTimeAndOnce`, `NoSilentLoss`, `DueIsCleared` |
| `dynamic_store_stale` | violation | `StaleRunExpiresNothing` |
| `dynamic_transaction` | 61,400 | `TransactionTypeOK`, `InStep`, `TimeoutCovers`, `ToldWhatHappened`, `NoEarlyTimeout`, `AbandonedIsDropped` |
| `slots` | 27,554 | `TypeOK`, `AcceptedIsKept`, `MarkerIsHonest`, `DefaultsPreserve` |
| `slots_cleared` | violation | `ClearedStaysEmpty` |
| `usb_transport` | 735,882 | `ServedInItsGeneration`, `PermitIsExclusive`, `QueueIsAttended`, `PermitComesBack`, `OnlineInTheEnd` |
| `usb_transport_buffer` | violation | `BufferUnchangedUntilReady` |
| `executor` | 113 | `OneOwner`, `KeyWillBeReleased`, `TypesTheText`, `BecomesIdle` |
| `protocol` | 37,262 | `TypeOK`, `OneWindow`, `TrueAnswers`, `Independent` |
| `client` | 548,395 | `SuccessIsTrue`, `UnconfirmedIsOld`, `IdsAreFresh`, `CallEnds` |
| `client_stale` | violation | `StaleDiscarded` |

What they show, beyond types:

- **auth.** Two callers of `set_credential`, a loader and any protocol requests interleave.
  A nonce dies with its first use, with any newer attempt to draw one, with LOCK, a transport
  reset or a new credential. A session is always backed by a proof made with the credential now in
  force. A wrong guess is evaluated only after the cooldown of the recorded failures. RAM and flash
  hold the same credential except between a save and its apply. Only a reboot leads back to OPEN.
  And all of it is what `AuthGate` says, the specification under `protocol`.
- **dynamic_store.** A committed slot holds all of one upload and nothing else. The timer, the
  queue or the running handler always covers every slot with text, and text that is due does go in
  the end. The executor gets no text after its deadline and a consume-on-accept text once only. Text
  goes only for a reason the documents name, and an upload is not disturbed by what happens to other
  slots.
- **dynamic_transaction.** Whatever is staged, the protocol can continue and the timeout will drop,
  with equal counts on both sides. The final DATA is answered with success in the very step in which
  the upload becomes executable. The timeout drops an upload only when no BEGIN or DATA has kept it
  open for a whole time-out, however late or early its handler comes, and an upload nobody continues
  is dropped in the end.
- **slots.** What the store accepted is what RAM holds, now and after any reboot. The marker is
  stored only when every slot has had a key. Defaults overwrite no key, malformed ones included.
- **usb_transport.** A request served was received after the last reset had advanced the
  generation, even when whole resets ran inside `set_report`. The response buffer has one owner,
  except around a response written while a notification waited (see the disagreements). A request
  queued while the transport is online always has something that will schedule it, except after a
  failed write or submission, when the next report does. The permit of a transfer the bus dropped
  comes back, except when the status that dropped it was replaced, before the reset looked, by one
  that proves nothing (say RESET, CONFIGURED, SUSPEND): then it stays away until the next bus reset,
  configuration or disconnect, and requests are not answered until then. The transport gets online
  whenever the bus stays in a state for it.
- **executor.** A busy executor has exactly one owner, an idle one holds no text and no key, and a
  key that is down is released by the very next step of handler or work item. What is typed
  implements `Typing`, and every start ends.
- **protocol.** Bytes admitted under two authorisations never meet in one text, password or upload,
  although sessions end and begin between any two looks of a request, and a management request has
  an effect only if it was let in while macros could be managed. OK means that what was committed is
  saved; any other answer that nothing was changed, with two exceptions: STORAGE_ERROR, or
  INVALID_TEXT for a save's -EINVAL, leaves a slot changed in RAM, and AUTH_REQUIRED may follow a
  SET or CLEAR that was saved when the session ended meanwhile. A request leaves the transactions of
  the other kinds alone while their authorisation lasts; only a login, LOCK, a replaced credential
  or the -EACCES of a credential's save ends them all.
- **client.** A call that reports success is right: the device has the text, the empty slot or the
  new credential, and nothing an earlier attempt left under way undoes it before the next call.
  `PasswordSetUnconfirmed` is raised only when the new credential is not in force and will not
  be. The identifier taken next is never one that is still under way, which is what the theorems
  about `Client` rest on. Every call ends, whatever stale answers and refusals arrive.

Deadlock is checked in every run but those of `UsbTransport` and `Client`; a device that can always
be rebooted or asked something has none, and in `Executor` a refused start is always possible.
`UsbTransport` may stop, with the bus reset for good and all handled, and so may `Client`, with all
calls made and all requests served.

## Bounds

- *auth*: two callers, two credentials, time-outs of 2, clock to 4, three nonces, two loads per
  boot, failures saturating at 2, cooldown at most 2. Two callers are what a race takes, the second
  credential is the "other one", three nonces give an old, a replaced and a current one, and the
  clock passes every deadline that starts at 0, 1 or 2. A second load covers a reload of a
  configured device. Reboots are not bounded.
- *dynamic_store*: two slots (one to expire while the other is uploaded to), texts of up to two
  bytes (first chunk, last chunk, whole text in one), TTL 1 and 2 so that deadlines differ, two
  uploads per boot (one abandoned or committed, one after it). `GenerationWrap` 2 makes the
  generation counter wrap at every other arming, which the code's 32 bits would take years to do.
- *dynamic_transaction*: two slots, two bytes, two request identifiers, two uploads, TTL 1 and
  timeout 2. A DATA can come after a second, when an upload whose deadline it forgot to move would
  be dropped a second too early, and "refreshed while the handler waits" happens: the handler is
  dequeued at time left 0 and a DATA sets it to 2.
- *slots*: two slots, two callers, two texts, and every initial content of the store: absent, any
  text, malformed, with the marker stored, absent or malformed. Callers and texts are symmetric.
  The violation needs one of each only.
- *usb_transport*: a queue of two (one request served next, one behind it; full happens), five
  status changes of five kinds, covering what a status can do: drop the endpoint and reclaim with
  connection state POWERED, NONE or HID; keep it as HID or as POWERED. Five allow a connection, a
  reset and configuration that coalesce, and two more. The generation never wraps within them, as
  the code's 32 bits take it. The violation needs only RESET and CONFIGURED, and four changes.
- *executor*: three callers; texts of length 0 to 3 over two keys and one character without a key
  in first, second and last place.
- *protocol*: two credentials (symmetric) and a malformed stored key, two identities, texts of up to
  three units and a password of two, so that transactions have a first, a middle and a last chunk
  and change their total length; four authorisations per boot. A mix of two windows needs two.
- *client*: a text of one frame and one of two, one password, two attempts for each stage, two
  calls, two invocations, one fault (lost answer, failed write or reset) besides any number of late
  answers and session ends. Two requests or answers may be under way, and five identifiers are more
  than twice that, as the code's 256 are more than twice the depth of the queues.

## Fairness

Safety needs none. The liveness properties assume:

- `DynamicStore!LiveSpec`: time passes, a delay that is over queues the item, the work queue thread
  runs it, and its handler gets the mutex (weak fairness of the four steps). The mutex is only held
  for finite code. `DueIsCleared` excepts one schedule: `clear_slot` re-arms the timer to at least a
  millisecond without expiring what is due, so clears repeated forever could defer expiry forever.
- `TransactionLiveSpec` of `DynamicTransaction`: the same for the timeout, with strong fairness for
  its dequeueing. The store's item shares the thread, so dequeueing is disabled while that one runs;
  the work queue is first in, first out, which strong fairness expresses without modelling it.
  `AbandonedIsDropped` excepts hosts that begin uploads forever.
- `UsbTransport!LiveSpec`: the work queue's thread goes on whenever it can. The USB context owes
  nothing; the bound on status changes is what makes the bus settle, and `OnlineInTheEnd` speaks
  only of behaviours in which it does.
- `Executor!LiveSpec`: the work queue runs what is scheduled, the handler goes on, and a thread
  inside `executor_start` goes on. Nobody is obliged to call it.
- `Client!FairSpec`: a call goes on as long as it can send, read or time out (weak fairness of the
  three together), which is what a loop with a deadline does. The device and the connection owe it
  nothing.

## What is proved

All for any values of the constants that satisfy the named assumptions, and without fairness.
`Inductive` is `Spec => []IInv`, but for the hypothesis in `ClientProofs`.

| Module | Theorems |
|---|---|
| `AuthProofs` | `Inductive`, `TypeCorrect` (`TypeOK`), `SessionsProveCredential` (`SessionProvesCredential`), `ChallengesAreOneShot` (`OneShotChallenge`), `MemoryAgreesWithStorage` (`StorageAgrees`), `GuessesAreSpaced` (`FailureSpacing`), `ProtectionStays` (`NeverReopens`), `GateImplemented` (`ImplementsGate`) |
| `ProtocolProofs` | `Inductive`, `TypeCorrect`, `NoMixedWindows` (`OneWindow`), `AnswersAreTrue` (`TrueAnswers`), `TransactionsAreIndependent` (`Independent`), `UsesTheGate` (`Spec => Auth!Spec`) |
| `DynamicStoreProofs` | `Inductive`, `TypeCorrect`, `TextIsWhole` (`WholeUploads`), `TextHasATimer` (`TimerCovers`), `TypedInTimeAndOnce` (`ExecutesInTimeAndOnce`), `NothingIsLost` (`NoSilentLoss`) |
| `DynamicTransactionProofs` | `UsesTheStore` (`TransactionSpec => Spec`), `TransactionInductive`, `TransactionTypeCorrect` (`TransactionTypeOK`), `AccountsAgree` (`InStep`), `TransactionHasATimer` (`TimeoutCovers`), `SuccessIsToldOnce` (`ToldWhatHappened`), `NothingDroppedEarly` (`NoEarlyTimeout`) |
| `SlotsProofs` | `Inductive`, `TypeCorrect`, `AcceptedStays` (`AcceptedIsKept`), `MarkerComesLast` (`MarkerIsHonest`), `BootPreservesKeys` (`DefaultsPreserve`) |
| `UsbTransportProofs` | `Inductive`, `TypeCorrect`, `NoRequestCrossesAReset` (`ServedInItsGeneration`), `BufferHasOneOwner` (`PermitIsExclusive`), `RequestsAreAttended` (`QueueIsAttended`), `PermitsComeBack` (`PermitComesBack`) |
| `ExecutorProofs` | `Inductive`, `ExecutorHasOneOwner` (`OneOwner`), `KeysAreReleased` (`KeyWillBeReleased`), `TypingImplemented` (`TypesTheText`) |
| `ClientProofs` | `Inductive`, `SuccessTrue` (`SuccessIsTrue`), `UnconfirmedOld` (`UnconfirmedIsOld`), `StaleAreDiscarded` (`StaleDiscarded`), each for runs with `[]IdsAreFresh`; `IdsStayFresh` (`IdsAreFresh`), `ClientIsRight` (all of them) for runs with `[]Recent(K)` and `[][StartsClean]_vars` |

Together `GateImplemented` and `ProtocolProofs` say that request processing is right over the
authentication module itself: what `Protocol` assumes of the core is `AuthGate` (`UsesTheGate`), and
that is what `Auth` implements. `UsesTheStore` says that every theorem of `DynamicStoreProofs` holds
inside `DynamicTransaction`, and its own proofs use the store's invariant on that ground.

**Assumptions.** The named ASSUMEs of the modules: markers differ from values, time-outs, lengths
and caps are positive, bounds are numbers. `ShiftAssumption` of `Auth` says that 2^(n-1) is a
positive number for the counts that occur; it is arithmetic that the SMT backend does not do for
`^`. `ClientAssumption` of `Client` asks for more identifiers than reports can be under way at once,
which 256 are. TLC evaluates all of them in the runs. The theorems about `Client` have hypotheses of
their own, discussed below.

**Arguments.** Almost none of the properties is inductive. Each `IInv` adds what they rest on.

*Authentication:*

- `StateByFlags`: the loader's two flags determine the state (OPEN exactly when nothing was seen,
  ERROR_LOCKED exactly when what was seen is invalid). It turns `NeverReopens` into a statement
  about flags that only a boot resets.
- `OneUpdater`: the update mutex holds, and a caller about to apply has saved exactly that.
- `LoadIsCurrent`: a load that may still install its value holds the stored one. This is the
  content of the generation check in `settings_set`: while a load is between its read and its apply
  and `invalid` is still set, no caller is between its check and its save. ERROR_LOCKED admits no
  update; one that was under way when the load began may save, but clears `invalid` when it applies.
- `MemoryIsStored`: `StorageAgrees` without its assumption that the device has booted.
- `CooldownRecorded`: the cooldown on record starts at the last failure, and no challenge lives
  until it has passed. A wrong guess needs a challenge, hence `FailureSpacing`.
- `SpentIssued`: the newest spent nonce has been issued.

Lemmas state what each helper does to each field; `StructActions` covers the actions that only
change the struct, `SetCredentialStep`, `SettingsLoadStep`, `TickStep` and `RebootStep` the others,
and `NextIInv` puts them together.

*Authentication implements the gate.* `GateInv` adds two facts: only a PROTECTED device holds a
credential, and a loader of the running device that is past its read can only have read the first
credential, saved and about to be applied. The second is why a reload at run time cannot bring an
older credential back to `Protocol`.

*Protocol.* A request reads the state and notes it much later, so what it notes may be out of date.
`ReadIsRecent` and `KnownIsOld` say how: only in the direction that a right has been lost since.
Hence the next request that is let in will see a difference and discard. `TxWindows` says that a
transaction is of one window, which is over only if nothing is allowed now, `JobWindows` the same of
what is being committed, `Unanswered` what a request in progress can have done, and `Core` ties its
place to the stage of `set_credential`.

*Dynamic store.* `StagedPrefix`: the staging buffer holds the bytes received of the last upload, and
zeroes. `OnePlace`: an upload is in the staging buffer, in one slot or typed, never in two of them.
`WholeUploads` and `ExecutesInTimeAndOnce` follow. `TimerCovers` is inductive with the types: the
operations that do not touch the item only empty slots or let deadlines be.

*Dynamic transaction.* That the composition implements `DynamicStore` is one case per request: each
is a call of the store with arguments it was written for, one that leaves it alone, or a call whose
second half cancels what the first began. So the store's `IInv` holds here, and on top of it
`TransactionInv` adds `Account` (the types of the transaction and its timeout, `InStep`,
`TimeoutCovers`), `HeardOf` (the deadline of an open transaction is a whole time-out after the last
BEGIN or DATA that kept it open, so a deadline that nobody moves breaks the invariant; hence
`NoEarlyTimeout`) and `ToldOfThePast` (the upload under way has not been told of).
`ToldWhatHappened` then takes both sides: by `InStep` the protocol's last chunk is the store's last
chunk, so the store commits in that step, and by `OnePlace` and `ToldOfThePast` what it commits is
new on both lists; `QuietUnlessAppended` says that no other call of the store makes any text
executable.

*Slots.* `PromiseIsStored` ties the history to the keys, `OneUpdate` is the update mutex,
`KeptOnceLoaded` is `AcceptedIsKept` slot by slot while keys arrive, `KeysOnRecord` the meaning of
`has_persisted_value`, and `WrittenOnceSaved` counts the defaults up to the marker.

*USB transport.* `OnePermit` and `PermitAccounted` say who has the permit; `DroppedIsKnown` that a
transfer the endpoint has lost will be seen by a reset; `HeldIsRecent` that one it still has is not
taken for a lost one; `OnlineSteady` and `AttendedLater` what is true while the reset or the handler
is under way.

*Client.* What a call may conclude from an answer depends on what else is under way. The parts of
the invariant, for the identifier in use (`Current`):

- `MatchingRequest`: a request with this identifier is the one the call waits for, and the last one
  in the device's queue. Nothing older can be served after it.
- `MatchingAnswer`: an answer with this identifier is the answer to the frame just written, the
  queue is empty, and `Tells` what it says is still true of the device. This is `StaleDiscarded`
  and more.
- `Transferred` and `Reading`: between two chunks, the device's staging (if it still has this
  transaction) holds exactly what was confirmed, and a text read in two chunks has not changed.
- `Confirmed`: once AUTH_INFO has shown the new salt, no PASSWORD_SET is left that could change it.
- `Ended`: a call that ended well left no request under way, so what it reported stays true.

A credential is recognised by its salt, which is the number of the call that made it.

None of this holds for arbitrary constants. With enough retries (`--retries` is the user's) or
enough calls the identifiers come round while an old report is under way, and its answer is taken
for the new one's: TLC finds it for `Attempts` 4, `IdSpace` 3 and `Depth` 1. So the first theorems
assume what the argument needs, that an identifier is fresh when it is taken (`IdsAreFresh`), of the
behaviour. The `client` run checks that this holds on its instance, with identifiers that do come
round.

`IdsStayFresh` derives it from how old a report under way can be, for any number of calls, processes
and faults, and with identifiers that come round. Set-password, the most expensive call, takes one
identifier for an attempt at each of info, password and confirm and three for one at its login;
other calls take fewer. So a report of one of the last K calls or of the present one has an
identifier that was taken at most `6 * Attempts * (K + 1)` identifiers ago, and if `IdSpace` is
greater it is not the next. `Accounted` is the invariant behind it: `Total` bounds the identifiers
taken, and `Aged` places each one under way behind the next, modulo `IdSpace`. The hypotheses are on
the behaviour: `Recent(K)`, no report under way is more than K calls old, and `StartsClean`, no
process finds the requests of another one queued. With the code's 256 identifiers and 3 attempts
(`--retries` 2 by default) K may be 13. The code ensures neither: a device that serves nothing for
fourteen calls, or an invocation that is killed, breaks them, and `client_stale` shows what the
second can do.

*Executor.* `OneActor`: never two of a starting thread, the scheduled item and the handler.
`BusyIsOwned`: one if and only if the flag is set. `StateByActor`: what each finds when it goes on.

**Model-checked only.** All liveness (`OnlineInTheEnd`, `BecomesIdle`, `DueIsCleared`,
`AbandonedIsDropped`, `CallEnds`), which is out of the prover's reach. Every safety property of a
passing run is also a theorem.

## Assumptions about the surroundings

- The boot-time `settings_load` completes before protocol requests are served, as the comment at
  `runtime_macro_auth.c:53` has it (`booted`). So no slot is set or cleared before the loop that
  writes the defaults has ended (`Up` in `Slots`), although the authentication state opens the
  access before it (`runtime_macro.c:282`) and no check of the code forbids it. `Auth` also allows a
  load at run time, for which its generation check exists; `Slots` models the load at boot only.
- A save or deletion in the settings store is atomic, and one that reports failure has changed
  nothing. A stored key may be unreadable at any load.
- Uptime restarts at 0 with a reboot and does not wrap (the code's 64 bits of milliseconds).
- Random nonces are fresh, and an HMAC matches only with the same key and nonce.
- Mutexes exclude, and the work queue runs one handler at a time.
- ZMK raises its connection event from the system work queue. USB callbacks do not interrupt each
  other, but may be interrupted by the work queue and interrupt it; ports where they run as
  interrupts allow less. The host configures a device only after a reset or disconnect.
- `hid_int_ep_write` may fail at any time and fails on a disabled or busy endpoint. The USB device
  was found at start-up (`runtime_macro_usb_hid_dev` is not NULL).

## Where code and documents disagree

- *A stale TTL run does expire text* (`dynamic_store_stale`). The comment at
  `runtime_macro_dynamic.c:156-158` and the one at `runtime_macro_dynamic_internal.h:89-90` say that
  a run armed before a newer change "must not expire anything". The comparison meant to see to it is
  always true, because every arming sets both generations to the same number under one mutex. It
  does no harm: expiry takes only slots whose deadline has passed, as `ExecutesInTimeAndOnce`
  and `NoSilentLoss` confirm.
- *A cleared slot can come back* (`slots_cleared`). `README.md:25-27` says that a cleared slot
  remains empty after reboot. When the first boot could not store the marker, it goes on; a slot
  cleared after that has neither key nor marker, and the next boot writes its default text again.
- *The response buffer can change under the endpoint* (`usb_transport_buffer`).
  `docs/PROTOCOL.md:216-217` says that it "remains unchanged until `int_in_ready` confirms
  completion", and the comment at `runtime_macro_usb_hid.c:84-86` that the semaphore is held for the
  whole transfer. The handler may be queued ahead of the notification. When RESET and CONFIGURED
  both arrive before either runs, the handler answers a request of the old connection into the new
  configuration's endpoint, and the reset that follows sees CONFIGURED, takes that transfer for a
  dropped one and frees the buffer; the next request overwrites it.
- *The answer to another request can be taken for one's own* (`client_stale`). `docs/CLI.md:393`
  says that `exchange` waits for the matching response and discards stale ones. It compares opcode,
  identifier and slot (`runtime_macro_cli.py:458`), and every invocation counts identifiers from 0
  (line 622). When an invocation is stopped while its request is still queued in the device, the
  late answer matches the same request of the next one. The `client` run shows that without such a
  leftover (`Drained`) calls are right.

Three more that no run shows, since they are a matter of wording or of an error code:

- `docs/AUTHENTICATION_PROTOCOL.md:368` wants no SET begun in a window to be committed after it. One
  whose last frame is let in just before the session expires is committed, and answered
  AUTH_REQUIRED when the refresh finds the session gone (`runtime_macro_protocol.c:670`).
  `TrueAnswers` names this case.
- `docs/DYNAMIC_PROTOCOL.md:199` wants dynamic staging independent of the staging of SET and
  PASSWORD_SET. A management request refused for lack of a session discards all three, the dynamic
  upload included, although that needs no session. `Independent` therefore speaks of transactions
  whose authorisation lasts.
- The settings store's error is answered like one of the code's own: a save that fails with -EINVAL
  is INVALID_TEXT or CREDENTIAL_INVALID (`runtime_macro_protocol.c:857-859`, `1251-1261`), and a
  credential's save that fails with -EACCES is AUTH_REQUIRED and discards all transactions, although
  the session lasts. `TrueAnswers` and `Independent` name these cases.

## What is not modelled

- The content of text, keys and credentials; the frame encoding; key derivation. They are values,
  and no property depends on their bytes.
- The ASCII table (a constant function here), Kconfig and build guards, which have no state.
- The range checks of the keymap behaviors, which turn a bad binding into an error.
- A reload of settings at run time beside `slot_set`, and with it the lock order of settings and
  slots. `Auth` models the reload for its own key.
- Of the client: argument parsing, device discovery, and the loops that repeat a modelled exchange
  (`list_slots`, `auth_info`, `clear_all`). In its device, the time-to-live and the execution of
  dynamic text and ERROR_LOCKED, which the other modules have.
- In `Protocol`, the content of the dynamic upload and its timeout, which `DynamicTransaction` has.

## Plan

All modules of the plan are here: `Auth` with `AuthGate`, `DynamicStore`, `Slots`, `Typing` and
`Executor`, `DynamicTransaction`, `UsbTransport`, `Protocol`, `Client`. What could still be added:

1. A bound on the time a report can be under way, from the client's time-outs and the device's
   queue, from which `Recent` would follow.
2. A settings reload at run time in `Slots`.
3. The steps that turn a liveness property into a decreasing measure (for `BecomesIdle` and
   `CallEnds`), proved as action properties, so that only the fairness argument is left to TLC.
