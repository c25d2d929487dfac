------------------------------ MODULE PrintJob ------------------------------
(***************************************************************************)
(* Printing: the service of the renderer (pdf/PdfPrintService.ts), which   *)
(* renders the pages the system dialogue selected and hands them over one  *)
(* at a time, and the single print job of the process (print_job.rs) with  *)
(* its worker thread (print_windows.rs).                                   *)
(*                                                                         *)
(* Every call of the service is in a window of its own.  A call reaches    *)
(* the native side as requests that are answered later; one that the       *)
(* service no longer awaits is still answered.  The user may answer or     *)
(* cancel the dialogue and abort the printing; a window may begin to close *)
(* (its jobs are cancelled) and its page may be reloaded or destroyed (the *)
(* service is gone, its job is abandoned).  A window's session begins with *)
(* an Active teardown and no lease; the dialogue's ranges, normalised and  *)
(* walked in order by both sides, are a set of pages.                      *)
(***************************************************************************)
EXTENDS Naturals, Sequences, FiniteSets, FiniteSetsExt

CONSTANTS
    Call,          \* calls of printPdfDocument, one per window
    None,
    Selections,    \* the sets of pages a user may select
    Lossy,         \* requests whose answer may be lost on the way back
    MaxFaults      \* bound: failures of GDI, threads, PDF.js, deadlines, lost answers

VARIABLES
    job,           \* ManagerState.job: the only job, or NoJob
    cancelled,     \* the cancellation flag of each call's lease
    lease,         \* the print lease: "none", "held", "dropped"
    invalid,       \* print_invalidated of each call's session
    channel,       \* the bounded channel of one command to the worker
    worker,        \* the worker thread of each call's job
    spool,         \* what became of the printed document, and its pages in order
    completion,    \* has the completion of the waiting operation been sent or dropped?
    permit,        \* PAGE_COMMAND_ACTIVE: the call that holds it
    req,           \* the requests of each call and their answers
    client,        \* the service: one record per call
    life,          \* the window of each call
    faults

vars == <<job, cancelled, lease, invalid, channel, worker, spool, completion, permit, req, client, life, faults>>
native == <<job, cancelled, lease, invalid, channel, worker, spool, completion, permit>>

Kinds == {"start", "poll", "submit", "finish", "cancel", "check", "release"}
Terminal == {"submitted", "cancelled", "failed"}

NoJob == [call |-> None, phase |-> "failed", pages |-> {}, done |-> {}, pending |-> FALSE, live |-> FALSE, abandoned |-> FALSE]
NewJob(c) == [call |-> c, phase |-> "dialog", pages |-> {}, done |-> {}, pending |-> FALSE, live |-> TRUE, abandoned |-> FALSE]

NoAnswer == [ok |-> FALSE, tag |-> "none", phase |-> "dialog", pages |-> {}, count |-> 0]
Snapshot(j) == [ok |-> TRUE, tag |-> "none", phase |-> j.phase, pages |-> j.pages, count |-> Cardinality(j.done)]
Refusal(tag) == [NoAnswer EXCEPT !.tag = tag]

IdleRequest == [at |-> "none", page |-> 0, answer |-> NoAnswer]
Sent(p) == [IdleRequest EXCEPT !.at = "sent", !.page = p]
Answered(r, a) == [r EXCEPT !.at = "answered", !.answer = a]

NewClient ==
    [at |-> "idle", aborted |-> FALSE, known |-> FALSE, started |-> FALSE, cancelling |-> FALSE,
     pages |-> {}, left |-> {}, acknowledged |-> 0, render |-> FALSE, work |-> "none", tasks |-> {},
     terminal |-> None, outcome |-> None, interrupted |-> FALSE, incomplete |-> FALSE, released |-> FALSE,
     barrier |-> FALSE]

Fault == faults < MaxFaults /\ faults' = faults + 1
Find(c) == job.call = c

-----------------------------------------------------------------------------
(* PrintJobManager *)

Answer(c, k, a) == req' = [req EXCEPT ![c][k] = Answered(@, a)]
At(c, k, p) == req' = [req EXCEPT ![c][k].at = p]
Send(channels, c, command) == [channels EXCEPT ![c] = IF @ = "empty" THEN command ELSE @]

\* acquire_print_lease, then the check before the manager's lock.
Leasable(c) == lease[c] = "none" /\ ~invalid[c]

AcquireLease(c) ==
    /\ req[c]["start"].at = "sent"
    /\ \/ Leasable(c) /\ lease' = [lease EXCEPT ![c] = "held"] /\ At(c, "start", "leased")
       \/ ~Leasable(c) /\ Answer(c, "start", Refusal("refused")) /\ UNCHANGED lease
    /\ UNCHANGED <<job, cancelled, invalid, channel, worker, spool, completion, permit, client, life, faults>>

IsReapable(j) == j.call # None /\ j.abandoned /\ ~j.live /\ j.phase \in Terminal
Reaped(j) == IF IsReapable(j) THEN NoJob ELSE j

RefuseStart(c, tag) == Answer(c, "start", Refusal(tag)) /\ lease' = [lease EXCEPT ![c] = "dropped"] /\ UNCHANGED job
PublishJob(c) == At(c, "start", "spawning") /\ job' = NewJob(c) /\ UNCHANGED lease

\* Mutant: the cancellation is only looked at before the lock is taken.
PublishUnchecked(c) ==
    /\ req[c]["start"].at = "leased"
    /\ IF Reaped(job) # NoJob THEN RefuseStart(c, "busy") ELSE PublishJob(c)
    /\ UNCHANGED <<cancelled, invalid, channel, worker, spool, completion, permit, client, life, faults>>

\* start(): the section under the manager's lock.
Publish(c) ==
    /\ req[c]["start"].at = "leased"
    /\ IF cancelled[c] THEN RefuseStart(c, "cancelled")
       ELSE IF Reaped(job) # NoJob THEN RefuseStart(c, "busy")
       ELSE PublishJob(c)
    /\ UNCHANGED <<cancelled, invalid, channel, worker, spool, completion, permit, client, life, faults>>

\* The supervisor's thread starts, or the job is taken back.
Spawn(c) ==
    /\ req[c]["start"].at = "spawning"
    /\ \/ /\ worker' = [worker EXCEPT ![c].at = "apartment"]
          /\ Answer(c, "start", Snapshot(NewJob(c)))
          /\ UNCHANGED <<job, lease, faults>>
       \/ /\ Fault
          /\ job' = IF Find(c) THEN NoJob ELSE job
          /\ lease' = [lease EXCEPT ![c] = "dropped"]
          /\ Answer(c, "start", Refusal("unavailable"))
          /\ UNCHANGED worker
    /\ UNCHANGED <<cancelled, invalid, channel, spool, completion, permit, client, life>>

Poll(c, k) ==
    /\ req[c][k].at = "sent"
    /\ Answer(c, k, IF Find(c) THEN Snapshot(job) ELSE Refusal("missing"))
    /\ UNCHANGED <<native, client, life, faults>>

\* PageCursor.expected: the next page of the selection.
Expected(j) == IF j.pages = j.done THEN None ELSE Min(j.pages \ j.done)

Admissible(c, k) ==
    /\ Find(c) /\ ~cancelled[c] /\ job.phase \in {"ready", "printing"} /\ ~job.pending
    /\ IF k = "submit" THEN Expected(job) = req[c][k].page ELSE Expected(job) = None

\* submit and finish up to the end of their first locked section; the copy of
\* a page is admitted one at a time for the whole process.
Admit(c, k) ==
    /\ req[c][k].at = "sent"
    /\ IF Admissible(c, k) /\ (k = "submit" => permit = None)
       THEN /\ job' = [job EXCEPT !.pending = TRUE, !.phase = "printing"]
            /\ permit' = IF k = "submit" THEN c ELSE permit
            /\ At(c, k, "admitted")
       ELSE /\ Answer(c, k, Refusal(IF Find(c) /\ cancelled[c] /\ job.phase \notin Terminal /\ (k = "submit" => permit = None)
                                    THEN "cancelled" ELSE "refused"))
            /\ UNCHANGED <<job, permit>>
    /\ UNCHANGED <<cancelled, lease, invalid, channel, worker, spool, completion, client, life, faults>>

\* try_send of the command: taken, refused because a Cancel is in the channel,
\* or without a receiver, in which case the completion is dropped.
Command(c, k) ==
    /\ req[c][k].at = "admitted"
    /\ channel' = Send(channel, c, k)
    /\ completion' = [completion EXCEPT ![c] = channel[c] = "closed"]
    /\ At(c, k, IF channel[c] = "cancel" THEN "refused" ELSE "waiting")
    /\ UNCHANGED <<job, cancelled, lease, invalid, worker, spool, permit, client, life, faults>>

Freed(c, k) == IF k = "submit" THEN None ELSE permit

\* Mutant: the job is ready again, whatever it has printed.
RevertToReady(c, k) ==
    /\ req[c][k].at = "refused"
    /\ job' = IF Find(c) /\ job.live /\ job.phase \notin Terminal /\ job.pending
              THEN [job EXCEPT !.pending = FALSE, !.phase = "ready"] ELSE job
    /\ Answer(c, k, Refusal("busy")) /\ permit' = Freed(c, k)
    /\ UNCHANGED <<cancelled, lease, invalid, channel, worker, spool, completion, client, life, faults>>
RevertAdmission(c, k) ==
    /\ req[c][k].at = "refused"
    /\ job' = IF Find(c) /\ job.live /\ job.phase \notin Terminal /\ job.pending
              THEN [job EXCEPT !.pending = FALSE, !.phase = IF job.done = {} THEN "ready" ELSE "printing"]
              ELSE job
    /\ Answer(c, k, Refusal("busy")) /\ permit' = Freed(c, k)
    /\ UNCHANGED <<cancelled, lease, invalid, channel, worker, spool, completion, client, life, faults>>

\* wait_until_operation_settled, after the completion was received or dropped.
OperationSettled(c) == completion[c] /\ (Find(c) => ~job.pending)

Return(c, k) ==
    /\ req[c][k].at = "waiting" /\ OperationSettled(c)
    /\ Answer(c, k, IF Find(c) THEN Snapshot(job) ELSE Refusal("missing"))
    /\ permit' = Freed(c, k)
    /\ UNCHANGED <<job, cancelled, lease, invalid, channel, worker, spool, completion, client, life, faults>>

\* cancel(): the flag under the lock, then a command that may find the channel full.
CancelSignal(c) ==
    /\ req[c]["cancel"].at = "sent"
    /\ IF Find(c) /\ job.phase \notin Terminal
       THEN /\ cancelled' = [cancelled EXCEPT ![c] = TRUE]
            /\ req' = [req EXCEPT ![c]["cancel"].at = "signalled", ![c]["cancel"].answer = Snapshot(job)]
       ELSE /\ Answer(c, "cancel", IF Find(c) THEN Snapshot(job) ELSE Refusal("missing"))
            /\ UNCHANGED cancelled
    /\ UNCHANGED <<job, lease, invalid, channel, worker, spool, completion, permit, client, life, faults>>

CancelDispatch(c) ==
    /\ req[c]["cancel"].at = "signalled"
    /\ channel' = Send(channel, c, "cancel")
    /\ At(c, "cancel", "answered")
    /\ UNCHANGED <<job, cancelled, lease, invalid, worker, spool, completion, permit, client, life, faults>>

Release(c) ==
    /\ req[c]["release"].at = "sent"
    /\ IF Find(c) /\ ~job.live /\ job.phase \in Terminal /\ ~job.pending
       THEN job' = NoJob /\ Answer(c, "release", Snapshot(job))
       ELSE UNCHANGED job /\ Answer(c, "release", Refusal("pending"))
    /\ UNCHANGED <<cancelled, lease, invalid, channel, worker, spool, completion, permit, client, life, faults>>

\* The answer is lost between the two sides.
LoseAnswer(c, k) ==
    /\ k \in Lossy /\ req[c][k].at = "answered" /\ req[c][k].answer.ok /\ Fault
    /\ Answer(c, k, Refusal("lost"))
    /\ UNCHANGED <<native, client, life>>

-----------------------------------------------------------------------------
(* run_print_worker.  holds: the worker has the completion of an operation. *)

Ends(c, result) == worker' = [worker EXCEPT ![c].at = "cleanup", ![c].result = result]
WorkerOnly == UNCHANGED <<cancelled, lease, invalid, permit, req, client, life>>

\* Until the dialogue is answered: the apartment, the dialogue, the output file.
Dialog(c) ==
    /\ worker[c].at = "apartment"
    /\ \/ /\ ~cancelled[c]
          /\ \E pages \in Selections : worker' = [worker EXCEPT ![c].at = "selected", ![c].pages = pages]
          /\ UNCHANGED faults
       \/ Ends(c, "cancelled") /\ UNCHANGED faults
       \/ Fault /\ Ends(c, "failed")
    /\ UNCHANGED <<job, channel, spool, completion>> /\ WorkerOnly

DialogReady(c) ==
    /\ worker[c].at = "selected"
    /\ IF Find(c) /\ job.phase = "dialog" /\ job.live
       THEN /\ job' = [job EXCEPT !.pages = worker[c].pages, !.phase = "ready"]
            /\ IF cancelled[c] THEN Ends(c, "cancelled") ELSE worker' = [worker EXCEPT ![c].at = "document"]
       ELSE Ends(c, "failed") /\ UNCHANGED job
    /\ UNCHANGED <<channel, spool, completion, faults>> /\ WorkerOnly

\* GdiDocument::start
Document(c) ==
    /\ worker[c].at = "document"
    /\ \/ cancelled[c] /\ Ends(c, "cancelled") /\ UNCHANGED <<spool, faults>>
       \/ ~cancelled[c] /\ Fault /\ Ends(c, "failed") /\ UNCHANGED spool
       \/ /\ ~cancelled[c] /\ spool' = [spool EXCEPT ![c].state = "open"]
          /\ worker' = [worker EXCEPT ![c].at = "loop"] /\ UNCHANGED faults
    /\ UNCHANGED <<job, channel, completion>> /\ WorkerOnly

\* The loop polls the flag, and hears the command.
LoopCancelled(c) ==
    /\ worker[c].at = "loop" /\ (cancelled[c] \/ channel[c] = "cancel")
    /\ Ends(c, "cancelled")
    /\ UNCHANGED <<job, channel, spool, completion, faults>> /\ WorkerOnly

Receive(c) ==
    /\ worker[c].at = "loop" /\ channel[c] \in {"submit", "finish"}
    /\ channel' = [channel EXCEPT ![c] = "empty"]
    /\ worker' = [worker EXCEPT ![c].at = channel[c], ![c].holds = TRUE]
    /\ UNCHANGED <<job, spool, completion, faults>> /\ WorkerOnly

\* print_page: GDI looks at the flag several times.
PrintPage(c) ==
    /\ worker[c].at = "submit"
    /\ \/ cancelled[c] /\ Ends(c, "cancelled") /\ UNCHANGED <<spool, faults>>
       \/ Fault /\ Ends(c, "failed") /\ UNCHANGED spool
       \/ /\ ~cancelled[c] /\ spool' = [spool EXCEPT ![c].pages = Append(@, req[c]["submit"].page)]
          /\ worker' = [worker EXCEPT ![c].at = "note"] /\ UNCHANGED faults
    /\ UNCHANGED <<job, channel, completion>> /\ WorkerOnly

\* page_submitted, and the completion of the submission.
PageSubmitted(c) ==
    /\ worker[c].at = "note"
    /\ IF Find(c) /\ job.live /\ job.pending /\ job.phase = "printing" /\ Expected(job) = req[c]["submit"].page
       THEN /\ job' = [job EXCEPT !.done = @ \cup {req[c]["submit"].page}, !.pending = FALSE]
            /\ IF cancelled[c]
               THEN Ends(c, "cancelled") /\ UNCHANGED completion
               ELSE /\ worker' = [worker EXCEPT ![c].at = "loop", ![c].holds = FALSE]
                    /\ completion' = [completion EXCEPT ![c] = TRUE]
       ELSE Ends(c, "failed") /\ UNCHANGED <<job, completion>>
    /\ UNCHANGED <<channel, spool, faults>> /\ WorkerOnly

\* EndDoc and the publication of the output file.

FinishDocument(c) ==
    /\ worker[c].at = "finish"
    /\ \/ cancelled[c] /\ Ends(c, "cancelled") /\ UNCHANGED <<spool, faults>>
       \/ ~cancelled[c] /\ Fault /\ Ends(c, "failed") /\ UNCHANGED spool
       \/ /\ ~cancelled[c] /\ spool' = [spool EXCEPT ![c].state = "delivered"]
          /\ Ends(c, "submitted") /\ UNCHANGED faults
    /\ UNCHANGED <<job, channel, completion>> /\ WorkerOnly

\* abort of a document that is still open, then the lease is dropped and the
\* receiver with what is left in the channel.
Dispose(c) ==
    /\ worker[c].at = "cleanup"
    /\ \/ worker' = [worker EXCEPT ![c].at = "settle"] /\ UNCHANGED faults
       \/ Fault /\ worker' = [worker EXCEPT ![c].at = "settle", ![c].result = "failed"]
    /\ spool' = [spool EXCEPT ![c].state = IF @ = "open" THEN "aborted" ELSE @]
    /\ lease' = [lease EXCEPT ![c] = "dropped"]
    /\ completion' = [completion EXCEPT ![c] = @ \/ channel[c] \in {"submit", "finish"}]
    /\ channel' = [channel EXCEPT ![c] = "closed"]
    /\ UNCHANGED <<job, cancelled, invalid, permit, req, client, life>>

\* catch_unwind: the completion is dropped long before the job is settled.
Panic(c) ==
    /\ worker[c].at \in {"apartment", "document", "submit", "finish"} /\ Fault
    /\ worker' = [worker EXCEPT ![c].at = "cleanup", ![c].result = "failed", ![c].holds = FALSE]
    /\ completion' = [completion EXCEPT ![c] = @ \/ worker[c].holds]
    /\ UNCHANGED <<job, channel, spool>> /\ WorkerOnly

\* Mutant: the phase is settled, the operation that was pending stays so.
SettleForgetsPending(c) ==
    /\ worker[c].at = "settle"
    /\ job' = IF Find(c) THEN [job EXCEPT !.live = FALSE, !.phase = worker[c].result] ELSE job
    /\ worker' = [worker EXCEPT ![c].at = "ended", ![c].holds = FALSE]
    /\ completion' = [completion EXCEPT ![c] = @ \/ worker[c].holds]
    /\ UNCHANGED <<channel, spool, faults>> /\ WorkerOnly

\* settle_worker, by the supervisor.
SettleWorker(c) ==
    /\ worker[c].at = "settle"
    /\ job' = IF Find(c) THEN [job EXCEPT !.pending = FALSE, !.live = FALSE, !.phase = worker[c].result] ELSE job
    /\ worker' = [worker EXCEPT ![c].at = "ended", ![c].holds = FALSE]
    /\ completion' = [completion EXCEPT ![c] = @ \/ worker[c].holds]
    /\ UNCHANGED <<channel, spool, faults>> /\ WorkerOnly

=============================================================================
