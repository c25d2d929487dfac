--------------------------- MODULE PdfPrintService ---------------------------
(***************************************************************************)
(* printPdfDocument (pdf/PdfPrintService.ts) over the native print job of  *)
(* PrintJob, and the events of the windows that cancel or abandon jobs.    *)
(* A step of the service is the code between two awaits.  The settlement   *)
(* of a raw operation is the moment its request is answered; what its      *)
(* settlement releases is released in a step of its own when nobody awaits *)
(* the operation any more.                                                 *)
(***************************************************************************)
EXTENDS PrintJob

Alive(c) == life[c] \notin {"lost", "gone"}
IsAnswered(c, k) == req[c][k].at = "answered"
Reply(c, k) == req[c][k].answer
Outstanding(c) == {k \in Kinds : req[c][k].at \notin {"none", "answered"}}

Issue(c, k, p) == req' = [req EXCEPT ![c][k] = Sent(p)]
Becomes(c, r) == client' = [client EXCEPT ![c] = r]
ServiceOnly == UNCHANGED <<native, life>>

\* An answer is consumed with what the service makes of it.
Consumes(c, k, r) == Becomes(c, r) /\ req' = [req EXCEPT ![c][k] = IdleRequest]

\* The catch of the printing part: what it learns is the outcome until the
\* cleanup knows better.
Thrown(c, r, tag) ==
    [r EXCEPT !.at = "cleanup",
              !.outcome = IF tag = "cancelled" \/ client[c].aborted THEN "cancelled" ELSE "failed"]

Finished(r, phase) == [r EXCEPT !.at = "cleanup", !.terminal = phase, !.outcome = phase]

Begin(c) ==
    /\ client[c].at = "idle" /\ Alive(c)
    /\ Becomes(c, [client[c] EXCEPT !.at = "starting", !.started = TRUE])
    /\ Issue(c, "start", 0)
    /\ ServiceOnly /\ UNCHANGED faults

CanCancel(r) == r.known /\ ~r.cancelling /\ r.terminal = None /\ ~r.released

\* The signal is aborted: by the user, or by the disposal of the reader.
Abort(c) ==
    /\ Alive(c) /\ ~client[c].aborted /\ client[c].at \notin {"idle", "drain", "done"}
    /\ LET r == [client[c] EXCEPT !.aborted = TRUE]
       IN IF CanCancel(r)
          THEN Becomes(c, [r EXCEPT !.cancelling = TRUE]) /\ Issue(c, "cancel", 0)
          ELSE Becomes(c, r) /\ UNCHANGED req
    /\ ServiceOnly /\ UNCHANGED faults

Awaited == [starting |-> "start", polling |-> "poll", submitting |-> "submit", finishing |-> "finish"]

\* Who releases the page in hand once its operation is no longer awaited: the
\* settlement of that operation.  The render slot goes with the render.
\* awaitInterruptible, the delay between polls and the wait for a render slot.
Interrupted(c) ==
    /\ Alive(c) /\ client[c].aborted
    /\ client[c].at \in DOMAIN Awaited \cup {"pause", "metadata", "slot", "rendering"}
    /\ Becomes(c, Thrown(c, [client[c] EXCEPT !.interrupted =
            \/ @ \/ client[c].tasks # {}
            \/ (client[c].at \in DOMAIN Awaited /\ ~IsAnswered(c, Awaited[client[c].at]))], "cancelled"))
    /\ ServiceOnly /\ UNCHANGED <<req, faults>>

StageTimesOut(c) ==
    /\ Alive(c) /\ client[c].at \in {"metadata", "slot", "rendering"} /\ Fault
    /\ Becomes(c, Thrown(c, [client[c] EXCEPT !.interrupted = @ \/ client[c].at # "slot"], "timeout"))
    /\ ServiceOnly /\ UNCHANGED req

\* The answer of start.  A start that was refused leaves no job to release.
Started(c) ==
    /\ Alive(c) /\ client[c].at = "starting" /\ IsAnswered(c, "start")
    /\ LET r == [client[c] EXCEPT !.known = TRUE]
       IN IF ~Reply(c, "start").ok
          THEN Becomes(c, Thrown(c, client[c], Reply(c, "start").tag)) /\ UNCHANGED req
          ELSE IF r.aborted
          THEN Becomes(c, Thrown(c, [r EXCEPT !.cancelling = TRUE], "cancelled")) /\ Issue(c, "cancel", 0)
          ELSE Becomes(c, [r EXCEPT !.at = "polling"]) /\ Issue(c, "poll", 0)
    /\ ServiceOnly /\ UNCHANGED faults

\* decodeSnapshot: what the service accepts of the native side.
WellFormed(a) ==
    /\ a.count <= Cardinality(a.pages)
    /\ a.phase = "dialog" => a.pages = {}
    /\ a.phase = "ready" => a.pages # {} /\ a.count = 0
    /\ a.phase = "printing" => a.pages # {}
    /\ a.phase = "submitted" => a.pages # {} /\ a.count = Cardinality(a.pages)

\* validateForJob, with the ranges the job was first reported to have.
Accepted(c, a) == a.ok /\ WellFormed(a) /\ (client[c].pages # {} => a.pages = client[c].pages)

NextPage(r) == [r EXCEPT !.at = "metadata", !.tasks = {"page"}]

Polled(c) ==
    /\ Alive(c) /\ client[c].at = "polling" /\ IsAnswered(c, "poll")
    /\ LET a == Reply(c, "poll")
           r == client[c]
       IN Consumes(c, "poll",
            IF ~Accepted(c, a) \/ a.phase \in {"printing", "submitted"} THEN Thrown(c, r, a.tag)
            ELSE IF a.phase \in Terminal THEN Finished(r, a.phase)
            ELSE IF a.phase = "dialog" THEN [r EXCEPT !.at = "pause"]
            ELSE IF r.aborted THEN Thrown(c, [r EXCEPT !.pages = a.pages], "cancelled")
            ELSE NextPage([r EXCEPT !.pages = a.pages, !.left = a.pages]))
    /\ ServiceOnly /\ UNCHANGED faults

Polls(c) ==
    /\ Alive(c) /\ client[c].at = "pause" /\ ~client[c].aborted
    /\ Becomes(c, [client[c] EXCEPT !.at = "polling"]) /\ Issue(c, "poll", 0)
    /\ ServiceOnly /\ UNCHANGED faults

\* getPage answers, or fails.
PageArrives(c) ==
    /\ Alive(c) /\ client[c].at = "metadata"
    /\ LET r == [client[c] EXCEPT !.tasks = {}]
       IN \/ Becomes(c, IF r.aborted THEN Thrown(c, r, "cancelled") ELSE [r EXCEPT !.at = "slot"]) /\ UNCHANGED faults
          \/ Fault /\ Becomes(c, Thrown(c, r, "page"))
    /\ ServiceOnly /\ UNCHANGED req

\* reserveRenderSlot and reservePageWork; a canvas that does not fit gives the
\* slot back.
TakesSlot(c) ==
    /\ Alive(c) /\ client[c].at = "slot" /\ ~client[c].aborted
    /\ \/ /\ Becomes(c, [client[c] EXCEPT !.at = "rendering", !.render = TRUE, !.work = "render", !.tasks = {"render"}])
          /\ UNCHANGED faults
       \/ Fault /\ Becomes(c, Thrown(c, client[c], "image"))
    /\ ServiceOnly /\ UNCHANGED req

\* The render has settled while the service awaits it.
Rendered(c) ==
    /\ Alive(c) /\ client[c].at = "rendering"
    /\ LET r == [client[c] EXCEPT !.tasks = {}, !.render = FALSE]
       IN \/ /\ ~r.aborted
             /\ Becomes(c, [r EXCEPT !.at = "submitting", !.work = "submit"])
             /\ Issue(c, "submit", Min(r.left)) /\ UNCHANGED faults
          \/ r.aborted /\ Becomes(c, Thrown(c, [r EXCEPT !.work = "none"], "cancelled")) /\ UNCHANGED <<req, faults>>
          \/ Fault /\ Becomes(c, Thrown(c, [r EXCEPT !.work = "none"], "render")) /\ UNCHANGED req
    /\ ServiceOnly

Submitted(c) ==
    /\ Alive(c) /\ client[c].at = "submitting" /\ IsAnswered(c, "submit")
    /\ LET a == Reply(c, "submit")
           r == [client[c] EXCEPT !.work = "none"]
           n == [r EXCEPT !.acknowledged = @ + 1, !.left = @ \ {Min(r.left)}]
           delivered == a.phase = "printing" /\ a.count = n.acknowledged
       IN IF Accepted(c, a) /\ delivered /\ ~n.aborted /\ n.left = {}
          THEN /\ Becomes(c, [n EXCEPT !.at = "finishing"])
               /\ req' = [req EXCEPT ![c]["submit"] = IdleRequest, ![c]["finish"] = Sent(0)]
          ELSE Consumes(c, "submit",
                    IF ~Accepted(c, a) THEN Thrown(c, r, a.tag)
                    ELSE IF a.phase \in {"cancelled", "failed"} THEN Finished(r, a.phase)
                    ELSE IF ~delivered THEN Thrown(c, r, "contract")
                    ELSE IF n.aborted THEN Thrown(c, n, "cancelled") ELSE NextPage(n))
    /\ ServiceOnly /\ UNCHANGED faults

FinishAnswered(c) ==
    /\ Alive(c) /\ client[c].at = "finishing" /\ IsAnswered(c, "finish")
    /\ LET a == Reply(c, "finish")
       IN Consumes(c, "finish", IF Accepted(c, a) /\ a.phase \in Terminal
                     THEN Finished(client[c], a.phase) ELSE Thrown(c, client[c], a.tag))
    /\ ServiceOnly /\ UNCHANGED faults

-----------------------------------------------------------------------------
(* Cleanup: the job is brought to its end and released. *)

\* A start nobody awaited any more may still have made a job.
\* Mutant: a start that was interrupted is not waited for.
ForgetStart(c) ==
    /\ Alive(c) /\ client[c].at = "cleanup" /\ ~client[c].known
    /\ Becomes(c, [client[c] EXCEPT !.at = "drain"])
    /\ ServiceOnly /\ UNCHANGED <<req, faults>>
AwaitStart(c) ==
    /\ Alive(c) /\ client[c].at = "cleanup" /\ ~client[c].known
    /\ IsAnswered(c, "start")
    /\ Becomes(c, IF Reply(c, "start").ok THEN [client[c] EXCEPT !.known = TRUE]
                  ELSE [client[c] EXCEPT !.at = "drain", !.outcome = "failed"])
    /\ ServiceOnly /\ UNCHANGED <<req, faults>>

\* cancelToTerminal, unless the job is known to have ended.
CancelJob(c) ==
    /\ Alive(c) /\ client[c].at = "cleanup" /\ client[c].known /\ client[c].terminal = None
    /\ Becomes(c, [client[c] EXCEPT !.at = "cancelling", !.cancelling = TRUE])
    /\ IF client[c].cancelling THEN UNCHANGED req ELSE Issue(c, "cancel", 0)
    /\ ServiceOnly /\ UNCHANGED faults

Learns(r, a) == IF a.phase \in Terminal THEN [r EXCEPT !.at = "ended", !.terminal = a.phase] ELSE [r EXCEPT !.at = "wait"]

\* The cleanup fails: the job may still be there, and the barrier stays closed.
GivesUp(r) == [r EXCEPT !.at = "drain", !.outcome = "failed", !.incomplete = TRUE]

\* One retry tells a lost answer from a job that was never asked.
CancelAnswered(c) ==
    /\ Alive(c) /\ client[c].at \in {"cancelling", "retrying"} /\ IsAnswered(c, "cancel")
    /\ LET a == Reply(c, "cancel")
           r == client[c]
       IN IF Accepted(c, a) THEN Consumes(c, "cancel", Learns(r, a))
          ELSE IF r.at = "retrying" THEN Consumes(c, "cancel", GivesUp(r))
          ELSE Becomes(c, [r EXCEPT !.at = "retrying"]) /\ Issue(c, "cancel", 0)
    /\ ServiceOnly /\ UNCHANGED faults

Checks(c) ==
    /\ Alive(c) /\ client[c].at = "wait"
    /\ Becomes(c, [client[c] EXCEPT !.at = "checking"]) /\ Issue(c, "check", 0)
    /\ ServiceOnly /\ UNCHANGED faults

Checked(c) ==
    /\ Alive(c) /\ client[c].at = "checking" /\ IsAnswered(c, "check")
    /\ LET a == Reply(c, "check")
           r == client[c]
       IN Consumes(c, "check", IF ~Accepted(c, a) \/ (a.phase = "printing" /\ r.pages = {}) THEN GivesUp(r)
                     ELSE Learns([r EXCEPT !.pages = IF a.phase = "ready" THEN a.pages ELSE @], a))
    /\ ServiceOnly /\ UNCHANGED faults

\* What the service reports once it knows how the job ended.
\* Mutant: an abort is reported as a cancellation whatever the job did.
ReportsAbort(r) == IF r.terminal = "failed" THEN "failed" ELSE r.outcome
Reported(r) ==
    IF r.terminal = "failed" THEN "failed"
    ELSE IF r.terminal = "submitted" /\ r.outcome = "cancelled" THEN "submitted" ELSE r.outcome

ReleaseJob(c) ==
    /\ Alive(c) /\ client[c].known /\ client[c].terminal # None /\ client[c].at \in {"cleanup", "ended"}
    /\ Becomes(c, [client[c] EXCEPT !.at = "releasing", !.outcome = Reported(client[c])])
    /\ Issue(c, "release", 0)
    /\ ServiceOnly /\ UNCHANGED faults

Released(c) ==
    /\ Alive(c) /\ client[c].at = "releasing" /\ IsAnswered(c, "release")
    /\ Consumes(c, "release", IF Reply(c, "release").ok THEN [client[c] EXCEPT !.at = "drain", !.released = TRUE] ELSE GivesUp(client[c]))
    /\ ServiceOnly /\ UNCHANGED faults

\* Raw operations that settle after they were given up, and what they release.
Settles(c) ==
    /\ Alive(c)
    /\ \/ /\ client[c].tasks # {} /\ client[c].at \notin {"metadata", "rendering"}
          /\ Becomes(c, [client[c] EXCEPT !.tasks = {}, !.render = FALSE, !.work = IF @ = "render" THEN "none" ELSE @])
       \/ /\ client[c].work = "submit" /\ client[c].at # "submitting" /\ IsAnswered(c, "submit")
          /\ Becomes(c, [client[c] EXCEPT !.work = "none"])
    /\ ServiceOnly /\ UNCHANGED <<req, faults>>

Drained(c) == Outstanding(c) = {} /\ client[c].tasks = {} /\ client[c].work = "none"

\* drainOwnership; the call waits for it unless it was interrupted.
Drain(c) ==
    /\ Alive(c) /\ client[c].at = "drain" /\ (client[c].interrupted \/ Drained(c))
    /\ Becomes(c, [client[c] EXCEPT !.at = "done"])
    /\ ServiceOnly /\ UNCHANGED <<req, faults>>

Barrier(c) ==
    /\ Alive(c) /\ client[c].at \in {"drain", "done"} /\ ~client[c].barrier /\ ~client[c].incomplete /\ Drained(c)
    /\ Becomes(c, [client[c] EXCEPT !.barrier = TRUE])
    /\ ServiceOnly /\ UNCHANGED <<req, faults>>

-----------------------------------------------------------------------------
(* The windows *)

WindowOnly == UNCHANGED <<lease, worker, spool, completion, permit, faults>>
Invalidate(c) ==
    /\ invalid' = [invalid EXCEPT ![c] = TRUE]
    /\ cancelled' = [cancelled EXCEPT ![c] = @ \/ lease[c] = "held"]

\* CloseRequested, and the quit of the process: invalidate_print_owner ...
CloseRequested(c) ==
    /\ life[c] = "open" /\ life' = [life EXCEPT ![c] = "closing"] /\ Invalidate(c)
    /\ UNCHANGED <<job, channel, req, client>> /\ WindowOnly

\* The flag of the job under the lock, and the CancelAction.
CancelFound(c) ==
    /\ cancelled' = [cancelled EXCEPT ![c] = TRUE]
    /\ channel' = Send(channel, c, "cancel")

\* ... and cancel_owner.
CancelOwner(c) ==
    /\ life[c] = "closing" /\ life' = [life EXCEPT ![c] = "closed"]
    /\ IF Find(c) /\ job.phase \notin Terminal THEN CancelFound(c) ELSE UNCHANGED <<cancelled, channel>>
    /\ UNCHANGED <<job, invalid, req, client>> /\ WindowOnly

\* The page is reloaded, or the window destroyed: the service is gone, and
\* nobody knows the job any more.
PageLost(c) ==
    /\ life[c] \in {"open", "closed"} /\ client[c].at # "idle"
    /\ life' = [life EXCEPT ![c] = "lost"] /\ Invalidate(c)
    /\ client' = [client EXCEPT ![c] = [NewClient EXCEPT !.at = "gone"]]
    /\ UNCHANGED <<job, channel, req>> /\ WindowOnly

AbandonOwner(c) ==
    /\ life[c] = "lost" /\ life' = [life EXCEPT ![c] = "gone"]
    /\ IF Find(c) /\ (job.live \/ job.phase \notin Terminal)
       THEN job' = [job EXCEPT !.abandoned = TRUE] /\ CancelFound(c)
       ELSE job' = (IF Find(c) THEN NoJob ELSE job) /\ UNCHANGED <<cancelled, channel>>
    /\ UNCHANGED <<invalid, req, client>> /\ WindowOnly

-----------------------------------------------------------------------------
Init ==
    /\ job = NoJob
    /\ cancelled = [c \in Call |-> FALSE] /\ invalid = [c \in Call |-> FALSE]
    /\ lease = [c \in Call |-> "none"] /\ channel = [c \in Call |-> "empty"]
    /\ worker = [c \in Call |-> [at |-> "none", pages |-> {}, result |-> "failed", holds |-> FALSE]]
    /\ spool = [c \in Call |-> [state |-> "none", pages |-> <<>>]]
    /\ completion = [c \in Call |-> FALSE] /\ permit = None
    /\ req = [c \in Call |-> [k \in Kinds |-> IdleRequest]]
    /\ client = [c \in Call |-> NewClient]
    /\ life = [c \in Call |-> "open"]
    /\ faults = 0

Native(c) ==
    \/ AcquireLease(c) \/ Publish(c) \/ Spawn(c) \/ Poll(c, "poll") \/ Poll(c, "check")
    \/ \E k \in {"submit", "finish"} : Admit(c, k) \/ Command(c, k) \/ RevertAdmission(c, k) \/ Return(c, k)
    \/ CancelSignal(c) \/ CancelDispatch(c) \/ Release(c)

Worker(c) ==
    \/ DialogReady(c) \/ Document(c) \/ LoopCancelled(c) \/ Receive(c) \/ PrintPage(c) \/ PageSubmitted(c)
    \/ FinishDocument(c) \/ Dispose(c) \/ SettleWorker(c)

Service(c) ==
    \/ Interrupted(c) \/ Started(c) \/ Polled(c) \/ Polls(c) \/ PageArrives(c) \/ TakesSlot(c) \/ Rendered(c)
    \/ Submitted(c) \/ FinishAnswered(c)
    \/ AwaitStart(c) \/ CancelJob(c) \/ CancelAnswered(c) \/ Checks(c) \/ Checked(c)
    \/ ReleaseJob(c) \/ Released(c) \/ Settles(c) \/ Drain(c) \/ Barrier(c)

Window(c) == CloseRequested(c) \/ CancelOwner(c) \/ PageLost(c) \/ AbandonOwner(c)

Next ==
    \E c \in Call :
        \/ Begin(c) \/ Abort(c) \/ StageTimesOut(c) \/ Native(c) \/ Dialog(c) \/ Worker(c) \/ Panic(c) \/ Service(c)
        \/ Window(c) \/ \E k \in Lossy : LoseAnswer(c, k)

Spec == Init /\ [][Next]_vars

\* The threads, the IPC, PDF.js and GDI make progress, and a dialogue ends once
\* its job is cancelled; the user need not answer it, close, reload or abort.
Fairness ==
    \A c \in Call :
        /\ WF_vars(Native(c)) /\ WF_vars(Worker(c)) /\ WF_vars(Service(c))
        /\ WF_vars(CancelOwner(c)) /\ WF_vars(AbandonOwner(c))
        /\ WF_vars(cancelled[c] /\ Dialog(c))

FairSpec == Spec /\ Fairness

-----------------------------------------------------------------------------
(* Properties *)

TypeOK ==
    /\ job.call \in Call \cup {None} /\ permit \in Call \cup {None}
    /\ \A c \in Call :
        /\ lease[c] \in {"none", "held", "dropped"}
        /\ channel[c] \in {"empty", "cancel", "submit", "finish", "closed"}
        /\ client[c].outcome \in Terminal \cup {None} /\ client[c].work \in {"none", "render", "submit"}
        /\ life[c] \in {"open", "closing", "closed", "lost", "gone"}

\* The ownership barrier of a print opens only when nothing of it is left
\* anywhere: no request or PDF.js task under way, no render slot or canvas
\* reserved, the job released, its worker gone and the lease of the session
\* dropped, so that the reader may tear the document down.
BarrierMeansNothingLeft ==
    \A c \in Call : client[c].barrier =>
        /\ Outstanding(c) = {} /\ client[c].tasks = {} /\ ~client[c].render /\ client[c].work = "none"
        /\ job.call # c /\ lease[c] # "held" /\ worker[c].at \in {"none", "ended"}

\* What a print reports is what the printer got: "submitted" when the document
\* was delivered with every selected page once and in order, "cancelled" only
\* when nothing was delivered, however abort, finish and close interleave.
OutcomeIsTrue ==
    \A c \in Call : client[c].at \in {"drain", "done"} =>
        /\ client[c].outcome = "submitted" =>
            /\ spool[c].state = "delivered"
            /\ {spool[c].pages[i] : i \in DOMAIN spool[c].pages} = worker[c].pages
            /\ \A i, j \in DOMAIN spool[c].pages : i < j => spool[c].pages[i] < spool[c].pages[j]
        /\ client[c].outcome = "cancelled" => spool[c].state # "delivered"

\* The single slot is never kept by a job nobody will free: a job whose window
\* is gone was abandoned, so that the next start reaps it.
NoOrphanJob == \A c \in Call : life[c] = "gone" /\ job.call = c => job.abandoned

\* The native side never answers what the service's validation refuses.
ContractHolds == \A c \in Call, k \in Kinds : req[c][k].answer.ok /\ k # "release" => WellFormed(req[c][k].answer)

\* Nobody is left owning what is over: neither the reader's barrier nor the single slot of the native
\* side is deceived about what a print still holds.
NothingIsLeft == BarrierMeansNothingLeft /\ NoOrphanJob

\* What is reported is what happened, on either side of the validation.
ReportsAreTrue == OutcomeIsTrue /\ ContractHolds

\* Once a print is aborted or cancelled from outside, its worker ends and, if
\* its page still exists, the call ends: no command that found the channel
\* full, no dead worker and no refused operation leaves somebody waiting.
CancelledPrintEnds ==
    \A c \in Call : []<>(cancelled[c] \/ invalid[c] \/ client[c].aborted =>
        worker[c].at \in {"none", "ended"} /\ (Alive(c) /\ client[c].at # "idle" => client[c].at = "done"))

=============================================================================
