---------------------------- MODULE UsbTransport ----------------------------
(***************************************************************************)
(* The USB HID transport of src/src/runtime_macro_usb_hid.c: its request   *)
(* queue, connection generation, online flag, and the permit for the one   *)
(* response buffer that the IN endpoint reads.                             *)
(*                                                                         *)
(* Two contexts run.  The USB context runs one callback at a time: status  *)
(* changes, set_report, int_in_ready.  The system work queue runs one item *)
(* at a time, first in, first out: the transport's handler ("hid") and the *)
(* notification through which ZMK raises its status event ("notify"),      *)
(* which is submitted by each status change and coalesces.  Each context   *)
(* may run between any two steps of the other.                             *)
(***************************************************************************)
EXTENDS Naturals, Sequences

CONSTANTS
    QueueDepth,      \* RUNTIME_MACRO_USB_HID_QUEUE_DEPTH
    Statuses,        \* the enum usb_dc_status_code values that occur
    GenerationWrap,  \* 2^32 in the code: the values of an atomic_t
    MaxChanges       \* bound on the status changes

Known == {"UNKNOWN", "DISCONNECTED", "CONNECTED", "RESET", "CONFIGURED", "SUSPEND", "RESUME",
          "CLEAR_HALT", "SET_HALT", "INTERFACE", "ERROR", "SOF"}

ASSUME TransportAssumption ==
    /\ QueueDepth \in Nat \ {0}
    /\ Statuses \subseteq Known
    /\ MaxChanges \in Nat
    /\ GenerationWrap \in Nat /\ GenerationWrap > MaxChanges

VARIABLES
    status,      \* zmk_usb_get_status()
    changes,     \* status changes so far
    endpoint,    \* the IN endpoint: whether it is enabled, whether it holds a transfer
    generation,  \* runtime_macro_usb_hid_generation
    inFlight,    \* runtime_macro_usb_hid_in_flight
    online,      \* runtime_macro_usb_hid_online
    queue,       \* runtime_macro_usb_hid_msgq
    permit,      \* the count of runtime_macro_usb_hid_in_sem
    work,        \* the system work queue
    thread,      \* where the work queue's thread is, and its locals
    usb,         \* where the USB context is, and its locals
    ghost        \* history the properties compare with; no guard reads it

vars == <<status, changes, endpoint, generation, inFlight, online, queue, permit, work, thread, usb, ghost>>

(***************************************************************************)
(* A request is the generation it carries and, for the properties, since:  *)
(* the generation when set_report was called.                              *)
(* ghost.boundary: a status that drops the transfer has occurred, and no   *)
(* reset has sampled it yet.  ghost.missed: another status has replaced it *)
(* since.                                                                  *)
(* ghost.early: a response was given to the endpoint while a status        *)
(* notification was waiting to run; a reset that reclaims ends this when   *)
(* neither the endpoint nor a completion has a transfer.                   *)
(* ghost.unsubmitted: a request was left in the queue by a write or a      *)
(* k_work_submit that failed.                                              *)
(***************************************************************************)

Idle == [at |-> "idle"]

HidStatuses == {"SUSPEND", "CONFIGURED", "RESUME", "CLEAR_HALT", "SOF"}

ConnState(s) ==
    CASE s \in HidStatuses -> "HID"
      [] s \in {"DISCONNECTED", "UNKNOWN"} -> "NONE"
      [] OTHER -> "POWERED"

\* Wrong variant of Reclaims: a configuration is left out.
OnlyTeardown(s) == s \in {"RESET", "DISCONNECTED"}

Reclaims(s) == s \in {"RESET", "DISCONNECTED", "CONFIGURED"}

Pending(item) == \E i \in DOMAIN work : work[i] = item

\* k_work_submit: an item is in the queue once.
Submit(item) == work' = IF Pending(item) THEN work ELSE Append(work, item)

Init ==
    /\ status = "UNKNOWN"
    /\ changes = 0
    /\ endpoint = [enabled |-> FALSE, holds |-> FALSE]
    /\ generation = 0
    /\ inFlight = FALSE
    /\ online = TRUE
    /\ queue = <<>>
    /\ permit = 1
    /\ work = <<>>
    /\ thread = Idle
    /\ usb = Idle
    /\ ghost = [boundary |-> FALSE, missed |-> FALSE, early |-> FALSE, unsubmitted |-> FALSE]

---------------------------------------------------------------------------
(* The USB controller and ZMK's status callback.  A bus reset or disconnect *)
(* disables the endpoint, a configuration enables it; either drops what it  *)
(* held.  The host configures a device it has not configured yet.           *)

Drops(s) == s \in {"RESET", "DISCONNECTED", "CONFIGURED"}

EndpointAfter(s) ==
    IF Drops(s) THEN [enabled |-> s = "CONFIGURED", holds |-> FALSE] ELSE endpoint

StatusChange(s) ==
    /\ usb = Idle
    /\ changes < MaxChanges
    /\ s = "CONFIGURED" => ~endpoint.enabled
    /\ changes' = changes + 1
    /\ status' = s
    /\ endpoint' = EndpointAfter(s)
    /\ Submit("notify")
    /\ ghost' = [ghost EXCEPT !.boundary = @ \/ Drops(s),
                              !.missed = @ \/ (ghost.boundary /\ ~Drops(s))]
    /\ UNCHANGED <<generation, inFlight, online, queue, permit, thread, usb>>

---------------------------------------------------------------------------
(* set_report, once it has found the report well-formed. *)

Report == [generation |-> generation, since |-> generation]

ReportBegins ==
    /\ usb = Idle
    /\ endpoint.enabled
    /\ usb' = [at |-> "sampled", request |-> Report]
    /\ UNCHANGED <<status, changes, endpoint, generation, inFlight, online, queue, permit, work, thread, ghost>>

\* Wrong variant of CheckedRequest: the generation is read after the online check.
SampledLate == [usb.request EXCEPT !.generation = generation]

CheckedRequest == usb.request

ReportChecked ==
    /\ usb.at = "sampled"
    /\ usb' = IF online THEN [at |-> "checked", request |-> CheckedRequest] ELSE Idle
    /\ UNCHANGED <<status, changes, endpoint, generation, inFlight, online, queue, permit, work, thread, ghost>>

\* -ENOSPC when the queue is full.
ReportQueued ==
    /\ usb.at = "checked"
    /\ IF Len(queue) < QueueDepth
         THEN queue' = Append(queue, usb.request) /\ usb' = [at |-> "queued"]
         ELSE usb' = Idle /\ UNCHANGED queue
    /\ UNCHANGED <<status, changes, endpoint, generation, inFlight, online, permit, work, thread, ghost>>

\* Also the end of int_in_ready.  An error is returned or logged; the request stays queued.
Submitted ==
    /\ usb.at \in {"queued", "given"}
    /\ usb.at = "given" => online
    /\ usb' = Idle
    /\ \/ Submit("hid") /\ ghost' = [ghost EXCEPT !.unsubmitted = FALSE]
       \/ ghost' = [ghost EXCEPT !.unsubmitted = TRUE] /\ UNCHANGED work
    /\ UNCHANGED <<status, changes, endpoint, generation, inFlight, online, queue, permit, thread>>

SetReport == ReportBegins \/ ReportChecked \/ ReportQueued

---------------------------------------------------------------------------
(* int_in_ready: the host has taken the response. *)

ReadyBegins ==
    /\ usb = Idle
    /\ endpoint.holds
    /\ endpoint' = [endpoint EXCEPT !.holds = FALSE]
    /\ usb' = [at |-> "ready"]
    /\ UNCHANGED <<status, changes, generation, inFlight, online, queue, permit, work, thread, ghost>>

ReadyCompletes ==
    /\ usb.at = "ready"
    /\ IF inFlight
         THEN inFlight' = FALSE /\ usb' = [at |-> "completed"]
         ELSE usb' = Idle /\ UNCHANGED inFlight
    /\ UNCHANGED <<status, changes, endpoint, generation, online, queue, permit, work, thread, ghost>>

ReadyGives ==
    /\ usb.at = "completed"
    /\ permit' = 1
    /\ usb' = [at |-> "given"]
    /\ UNCHANGED <<status, changes, endpoint, generation, inFlight, online, queue, work, thread, ghost>>

ReadyOffline ==
    /\ usb.at = "given"
    /\ ~online
    /\ usb' = Idle
    /\ UNCHANGED <<status, changes, endpoint, generation, inFlight, online, queue, permit, work, thread, ghost>>

IntInReady == ReadyBegins \/ ReadyCompletes \/ ReadyGives \/ ReadyOffline

---------------------------------------------------------------------------
(* The listener and transport_reset.  The event carries the connection      *)
(* state of the moment it is raised.                                        *)

Runs(item) == thread = Idle /\ work # <<>> /\ Head(work) = item /\ work' = Tail(work)

NotifyRuns ==
    /\ Runs("notify")
    /\ thread' = [at |-> "raised", event |-> ConnState(status)]
    /\ UNCHANGED <<status, changes, endpoint, generation, inFlight, online, queue, permit, usb, ghost>>

StatusSampled ==
    /\ thread.at = "raised"
    /\ thread' = [at |-> "reset", event |-> thread.event, before |-> status]
    /\ UNCHANGED <<status, changes, endpoint, generation, inFlight, online, queue, permit, work, usb, ghost>>

GoesOffline ==
    /\ thread.at = "reset"
    /\ online' = FALSE
    /\ thread' = [thread EXCEPT !.at = "offline"]
    /\ UNCHANGED <<status, changes, endpoint, generation, inFlight, queue, permit, work, usb, ghost>>

\* With it go the session and every transaction.
NextGeneration ==
    /\ thread.at = "offline"
    /\ generation' = (generation + 1) % GenerationWrap
    /\ thread' = [thread EXCEPT !.at = "advanced"]
    /\ UNCHANGED <<status, changes, endpoint, inFlight, online, queue, permit, work, usb, ghost>>

Purged ==
    /\ thread.at = "advanced"
    /\ queue' = <<>>
    /\ thread' = [thread EXCEPT !.at = "purged"]
    /\ ghost' = [ghost EXCEPT !.unsubmitted = FALSE]
    /\ UNCHANGED <<status, changes, endpoint, generation, inFlight, online, permit, work, usb>>

Stable == status = thread.before

StatusCompared ==
    /\ thread.at = "purged"
    /\ IF Stable /\ Reclaims(status)
         THEN /\ thread' = [at |-> "reclaim", event |-> thread.event, status |-> status]
              /\ ghost' = [ghost EXCEPT !.boundary = FALSE, !.missed = FALSE]
         ELSE /\ thread' = IF Stable
                             THEN [at |-> "publish", event |-> thread.event, status |-> status]
                             ELSE Idle
              /\ UNCHANGED ghost
    /\ UNCHANGED <<status, changes, endpoint, generation, inFlight, online, queue, permit, work, usb>>

ReclaimsFlight ==
    /\ thread.at = "reclaim"
    /\ inFlight' = FALSE
    /\ thread' = [thread EXCEPT !.at = "reclaimed"]
    /\ UNCHANGED <<status, changes, endpoint, generation, online, queue, permit, work, usb, ghost>>

ReclaimsPermit ==
    /\ thread.at = "reclaimed"
    /\ permit' = 1
    /\ thread' = [thread EXCEPT !.at = "publish"]
    /\ ghost' = [ghost EXCEPT !.early = @ /\ (endpoint.holds \/ usb.at \in {"ready", "completed"})]
    /\ UNCHANGED <<status, changes, endpoint, generation, inFlight, online, queue, work, usb>>

\* Wrong variant of MayPublish: only a fresh configuration counts.
OnlyConfigured == thread.event = "HID" /\ thread.status = "CONFIGURED"

MayPublish == thread.event = "HID" /\ ConnState(thread.status) = "HID"

Published ==
    /\ thread.at = "publish"
    /\ online' = MayPublish
    /\ thread' = Idle
    /\ UNCHANGED <<status, changes, endpoint, generation, inFlight, queue, permit, work, usb, ghost>>

Listener ==
    \/ NotifyRuns \/ StatusSampled \/ GoesOffline \/ NextGeneration \/ Purged
    \/ StatusCompared \/ ReclaimsFlight \/ ReclaimsPermit \/ Published

---------------------------------------------------------------------------
(* The work handler.                                                        *)

\* Wrong variant of HasPermit: the semaphore is not looked at.
Unchecked == TRUE

HasPermit == permit = 1

NoPermit ==
    /\ ~HasPermit
    /\ Runs("hid")
    /\ UNCHANGED <<status, changes, endpoint, generation, inFlight, online, queue, permit, thread, usb, ghost>>

PermitTaken ==
    /\ HasPermit
    /\ Runs("hid")
    /\ permit' = 0
    /\ thread' = [at |-> "holding"]
    /\ UNCHANGED <<status, changes, endpoint, generation, inFlight, online, queue, usb, ghost>>

Returned == permit' = 1 /\ thread' = Idle

\* Offline, it purges what got into the queue all the same.
NothingToServe ==
    /\ thread.at = "holding"
    /\ ~online \/ queue = <<>>
    /\ queue' = <<>>
    /\ Returned
    /\ UNCHANGED <<status, changes, endpoint, generation, inFlight, online, work, usb, ghost>>

\* Wrong variant of Dropped: the next request is left to the next report.
DroppedQuietly == UNCHANGED work

Dropped == Submit("hid")

StaleDropped ==
    /\ thread.at = "holding"
    /\ online
    /\ queue # <<>> /\ Head(queue).generation # generation
    /\ queue' = Tail(queue)
    /\ Returned
    /\ Dropped
    /\ UNCHANGED <<status, changes, endpoint, generation, inFlight, online, usb, ghost>>

\* The protocol runs, and its response overwrites the buffer.
Served ==
    /\ thread.at = "holding"
    /\ online
    /\ queue # <<>> /\ Head(queue).generation = generation
    /\ queue' = Tail(queue)
    /\ thread' = [at |-> "served", request |-> Head(queue)]
    /\ UNCHANGED <<status, changes, endpoint, generation, inFlight, online, permit, work, usb, ghost>>

FlightMarked ==
    /\ thread.at = "served"
    /\ inFlight' = TRUE
    /\ thread' = [at |-> "writing"]
    /\ UNCHANGED <<status, changes, endpoint, generation, online, queue, permit, work, usb, ghost>>

\* The generation check after it cannot fail: nobody but this thread changes the generation.
Written ==
    /\ thread.at = "writing"
    /\ endpoint.enabled /\ ~endpoint.holds
    /\ endpoint' = [endpoint EXCEPT !.holds = TRUE]
    /\ thread' = Idle
    /\ ghost' = [ghost EXCEPT !.early = @ \/ Pending("notify")]
    /\ UNCHANGED <<status, changes, generation, inFlight, online, queue, permit, work, usb>>

\* The endpoint refuses: it is disabled, busy, or fails.
NotWritten ==
    /\ thread.at = "writing"
    /\ inFlight' = FALSE
    /\ Returned
    /\ ghost' = [ghost EXCEPT !.unsubmitted = queue # <<>>]
    /\ UNCHANGED <<status, changes, endpoint, generation, online, queue, work, usb>>

Handler ==
    \/ NoPermit \/ PermitTaken \/ NothingToServe \/ StaleDropped
    \/ Served \/ FlightMarked \/ Written \/ NotWritten

---------------------------------------------------------------------------
Next ==
    \/ \E s \in Statuses : StatusChange(s)
    \/ SetReport \/ Submitted
    \/ IntInReady
    \/ Listener
    \/ Handler

Spec == Init /\ [][Next]_vars

\* The work queue's thread goes on whenever it can.
LiveSpec == Spec /\ WF_vars(Listener \/ Handler)

---------------------------------------------------------------------------
Request == [generation : 0..GenerationWrap - 1, since : 0..GenerationWrap - 1]

TypeOK ==
    /\ status \in Known
    /\ changes \in 0..MaxChanges
    /\ endpoint \in [enabled : BOOLEAN, holds : BOOLEAN]
    /\ generation \in 0..GenerationWrap - 1
    /\ inFlight \in BOOLEAN /\ online \in BOOLEAN
    /\ queue \in Seq(Request) /\ Len(queue) <= QueueDepth
    /\ permit \in {0, 1}
    /\ work \in Seq({"hid", "notify"}) /\ Len(work) <= 2
    /\ ghost \in [boundary : BOOLEAN, missed : BOOLEAN, early : BOOLEAN, unsubmitted : BOOLEAN]
    /\ endpoint.holds => endpoint.enabled

\* No request crosses a reset: what the handler serves was sent after the last reset had advanced
\* the generation, even if set_report was interrupted by whole resets on the way to the queue.
ServedInItsGeneration == thread.at = "served" => thread.request.since = generation

\* Whoever writes the response buffer is the only one with the permit for it: it is not free, the
\* endpoint does not hold the buffer, no transfer is marked in flight, and no completion is about
\* to give it back.  A response written while a status notification was waiting to run may break
\* this: the reset takes it for a lost one.
PermitIsExclusive ==
    thread.at = "served" =>
        \/ ghost.early
        \/ permit = 0 /\ ~endpoint.holds /\ ~inFlight /\ usb.at # "completed"

\* A request in the queue is not forgotten while the transport is online: the handler is
\* scheduled or running, or a transfer or callback that will schedule it is under way; unless
\* a write or a submission failed, after which the next report is waited for.  What is left in
\* the queue offline is purged by the reset that gets the transport online again.
QueueIsAttended ==
    queue # <<>> /\ online =>
        \/ thread # Idle \/ work # <<>>
        \/ inFlight \/ usb.at \in {"completed", "given", "queued"}
        \/ ghost.unsubmitted

\* The permit is not lost: when all is quiet, a transfer marked in flight is one the host can
\* still complete; unless the status that dropped it was replaced by another before the reset
\* it caused could look at it.
PermitComesBack ==
    thread = Idle /\ work = <<>> /\ usb = Idle /\ inFlight =>
        endpoint.holds \/ ghost.missed

\* The transport gets online whenever the bus stays in a state that allows it.
OnlineInTheEnd ==
    <>[](changes > 0 /\ ConnState(status) = "HID") => <>[]online

\* What the protocol document says: the buffer remains unchanged until int_in_ready.
BufferUnchangedUntilReady == [][ Served => ~endpoint.holds ]_vars

=============================================================================
