------------------------------ MODULE PdfReader ------------------------------
(***************************************************************************)
(* The reader of one tab (pdf/PdfReaderController.ts) as the owner of      *)
(* documents: adopting a native session, the password dialogue, the first  *)
(* page, its commit, and the teardown of what was opened, which goes       *)
(* through several asynchronous phases under deadlines.  A phase that      *)
(* misses its deadline puts the candidate into quarantine, and its late    *)
(* settlement resumes the teardown.                                        *)
(*                                                                         *)
(* A step is the code from one await to the next.  Documents are adopted   *)
(* one at a time: the transition queue of the window sees to it, so that   *)
(* the checks of openSequence never fail; a password may be cancelled, the *)
(* range transport may fail and the reader may be disposed of at any time. *)
(***************************************************************************)
EXTENDS Naturals, FiniteSets

CONSTANTS
    Doc,            \* native sessions handed over for adoption
    None,
    LaterWork,      \* work begun on a displayed document: "print", "render"
    MaxAttempts,    \* presentations of the first page before the open gives up (3)
    MaxDisposals    \* bound: calls of dispose(), which is retried when it rejects

ASSUME ReaderAssumption ==
    None \notin Doc /\ LaterWork \subseteq {"print", "render"} /\ MaxAttempts \in Nat \ {0} /\ MaxDisposals \in Nat

VARIABLES
    cand,             \* the candidate made for each document
    native,           \* native session: "open", "tearing" (a teardown is under way), "closed"
    current, opening, \* the committed and the opening candidate
    disposed,
    quarantined,      \* candidates that could not be released in time
    pendingCleanups,  \* sessions whose native teardown failed or is late
    proc,             \* the calls under way: open() and dispose()
    mayReject         \* chosen at the start: may asynchronous operations reject?

vars == <<cand, native, current, opening, disposed, quarantined, pendingCleanups, proc, mayReject>>

Phase == {"before", "pdf", "finish", "transport"}
Running == {"ownership"} \cup Phase
After == [before |-> "pdf", pdf |-> "finish", finish |-> "transport"]

Work == {"page", "render", "print"}

Candidate ==
    [made : BOOLEAN, closed : BOOLEAN,
     cancelled : BOOLEAN, prompt : BOOLEAN, passwordPending : BOOLEAN, challenge : BOOLEAN, terminal : BOOLEAN,
     staged : {"none", "registered", "running", "completed", "rejected"},
     owned : SUBSET Work, raster : BOOLEAN,
     cursor : Running \cup {"none", "stopped", "finished"},
     phase : [Phase -> {"none", "running", "resolved", "rejected"}], retryable : BOOLEAN,
     retry : {"none", "waiting", "due", "running"}]

NewCandidate ==
    [made |-> FALSE, closed |-> FALSE, cancelled |-> FALSE, prompt |-> FALSE, passwordPending |-> FALSE,
     challenge |-> FALSE, terminal |-> FALSE, staged |-> "none", owned |-> {}, raster |-> FALSE, cursor |-> "none",
     phase |-> [k \in Phase |-> "none"], retryable |-> FALSE, retry |-> "none"]

Idle == [at |-> "idle", doc |-> None, todo |-> {}, wait |-> None, attempt |-> 0]
Op == proc["open"]

-----------------------------------------------------------------------------
(* Passwords *)

AbortPasswordPrompt(c) == [c EXCEPT !.prompt = FALSE, !.passwordPending = FALSE]

\* Mutant: the prompt survives the end of the password stage.
FinishPasswordKeepsPrompt(c, terminal) == [c EXCEPT !.terminal = TRUE, !.challenge = @ /\ ~terminal]
FinishPassword(c, terminal) == [AbortPasswordPrompt(c) EXCEPT !.terminal = TRUE, !.challenge = @ /\ ~terminal]

(* Teardown of one candidate *)

BeginStaged(c) == [c EXCEPT !.staged = IF @ \in {"registered", "rejected"} THEN "running" ELSE @]
Outstanding(c) == c.owned \cup (IF c.staged = "running" THEN {"staged"} ELSE {})

Owns(c, w) == [c EXCEPT !.owned = @ \cup {w}]
Drops(c, w) == [c EXCEPT !.owned = @ \ {w}]

\* disposeCandidateOnce starts by waiting for what the candidate owns.
StartCleanup(c) == [BeginStaged(c) EXCEPT !.cursor = "ownership"]

\* disposeCandidate: a cleanup that was started is joined, however it ended.
Close(c) ==
    LET closing == [FinishPassword(c, TRUE) EXCEPT !.closed = TRUE] IN
    IF c.cursor = "none" THEN StartCleanup(closing) ELSE closing

\* The same after "delete candidate.cleanup"; a disposal still under way is joined, as the
\* phases are shared.
CloseAgain(c) ==
    IF c.cursor \in Running THEN c ELSE StartCleanup([FinishPassword(c, TRUE) EXCEPT !.closed = TRUE])

Unblocked(c) == \A k \in Phase : c.phase[k] \in {"none", "resolved"}

\* Mutant: a candidate that still owns work is not watched any further.
RetryIfUnowned(c, isQuarantined) ==
    IF isQuarantined /\ c.retry = "none" /\ c.staged # "rejected" /\ Unblocked(c) /\ Outstanding(c) = {}
    THEN [c EXCEPT !.retry = "due"] ELSE c

\* retryQuarantinedCandidate
Retry(c, isQuarantined) ==
    IF isQuarantined /\ c.retry = "none" /\ c.staged # "rejected" /\ Unblocked(c)
    THEN [c EXCEPT !.retry = IF Outstanding(c) = {} THEN "due" ELSE "waiting"] ELSE c

\* The disposal in progress returns; a retry that awaited it is over.
Stop(c) == [c EXCEPT !.cursor = "stopped", !.retry = IF @ = "running" THEN "none" ELSE @]

\* Mutant: the reservation of the canvas is not returned.
KeepRaster(c) == c
Released(c) == [c EXCEPT !.raster = FALSE]

\* Mutant: a missed deadline leaves no trace.
NoQuarantine(d) == UNCHANGED quarantined
Quarantine(d) == quarantined' = quarantined \cup {d}

LetGo(d) ==
    /\ opening' = IF opening = d THEN None ELSE opening
    /\ current' = IF current = d THEN None ELSE current

DisposeCandidate(d) ==
    /\ cand' = [cand EXCEPT ![d] = Close(@)]
    /\ IF cand[d].cursor = "none" THEN LetGo(d) ELSE UNCHANGED <<opening, current>>

\* awaitPhase: each phase is started once, and joined by later disposals.
Enter(d, k) ==
    LET starts == cand[d].phase[k] = "none" IN
    /\ cand' = [cand EXCEPT ![d].cursor = k, ![d].phase[k] = IF starts THEN "running" ELSE @,
                            ![d].retryable = @ /\ ~(starts /\ k = "before")]
    /\ native' = IF starts /\ k = "transport" /\ native[d] = "open"
                 THEN [native EXCEPT ![d] = "tearing"] ELSE native

OwnershipSettled(d) ==
    LET c == cand[d] IN
    /\ c.cursor = "ownership" /\ Outstanding(c) = {}
    /\ IF c.staged = "rejected"
       THEN /\ cand' = [cand EXCEPT ![d] = Stop(@)]
            /\ Quarantine(d) /\ UNCHANGED native
       ELSE /\ Enter(d, "before")
            /\ UNCHANGED quarantined
    /\ UNCHANGED <<current, opening, disposed, pendingCleanups, proc, mayReject>>

OwnershipTimeout(d) ==
    LET c == cand[d] IN
    /\ c.cursor = "ownership" /\ Outstanding(c) # {}
    /\ Quarantine(d)
    /\ cand' = [cand EXCEPT ![d] = Stop(Retry(c, TRUE))]
    /\ UNCHANGED <<native, current, opening, disposed, pendingCleanups, proc, mayReject>>

PhaseResolves(d) ==
    \E k \in {"before", "pdf", "finish"} :
        LET c == cand[d]
            late == k = "before" /\ c.retryable
            settled == [c EXCEPT !.phase[k] = IF late THEN "none" ELSE "resolved"]
        IN /\ c.phase[k] = "running"
           /\ cand' = [cand EXCEPT ![d] = Retry(settled, d \in quarantined)]
           /\ UNCHANGED <<native, current, opening, disposed, quarantined, pendingCleanups, proc, mayReject>>

PhaseRejects(d) ==
    \E k \in {"before", "pdf", "finish"} :
        LET c == cand[d]
            settled == [c EXCEPT !.phase[k] = IF k = "pdf" THEN "rejected" ELSE "none"]
            woken == IF k = "before" THEN settled ELSE Retry(settled, TRUE)
        IN /\ mayReject /\ c.phase[k] = "running"
           /\ Quarantine(d)
           /\ cand' = [cand EXCEPT ![d] = IF c.cursor = k THEN Stop(woken) ELSE woken]
           /\ UNCHANGED <<native, current, opening, disposed, pendingCleanups, proc, mayReject>>

PhaseTimeout(d) ==
    LET c == cand[d]  k == c.cursor
        stopped == IF k = "transport" THEN Released(Stop(c)) ELSE Stop(c)
        late == [stopped EXCEPT !.retryable = @ \/ k = "before"]
    IN
    /\ k \in Phase /\ c.phase[k] = "running"
    /\ Quarantine(d)
    /\ cand' = [cand EXCEPT ![d] = late]
    /\ UNCHANGED <<native, current, opening, disposed, pendingCleanups, proc, mayReject>>

\* Mutant: the native session is closed before PDF.js has let go of it.
NextSkippingPdf(k) == IF k = "before" THEN "finish" ELSE After[k]
NextCursor(k) == After[k]

PhaseDone(d) ==
    LET c == cand[d]  k == c.cursor IN
    /\ k \in Phase /\ c.phase[k] = "resolved"
    /\ IF k = "transport"
       THEN /\ cand' = [cand EXCEPT ![d] = [Released(Stop(c)) EXCEPT !.cursor = "finished"]]
            /\ quarantined' = quarantined \ {d} /\ pendingCleanups' = pendingCleanups \ {d}
            /\ UNCHANGED native
       ELSE /\ Enter(d, NextCursor(k))
            /\ UNCHANGED <<quarantined, pendingCleanups>>
    /\ UNCHANGED <<current, opening, disposed, proc, mayReject>>

\* A phase that was rejected for good stops every later disposal.
PhaseBarred(d) ==
    LET c == cand[d]  k == c.cursor IN
    /\ k \in Phase /\ c.phase[k] = "rejected"
    /\ cand' = [cand EXCEPT ![d] = IF k = "transport" THEN Released(Stop(c)) ELSE Stop(c)]
    /\ quarantined' = IF k = "transport" THEN quarantined \ {d} ELSE quarantined \cup {d}
    /\ pendingCleanups' = IF k = "transport" THEN pendingCleanups \cup {d} ELSE pendingCleanups
    /\ UNCHANGED <<native, current, opening, disposed, proc, mayReject>>

RetryWaited(d) ==
    LET c == cand[d] IN
    /\ c.retry = "waiting" /\ Outstanding(c) = {}
    /\ cand' = [cand EXCEPT ![d] = Retry([c EXCEPT !.retry = "none"], d \in quarantined)]
    /\ UNCHANGED <<native, current, opening, disposed, quarantined, pendingCleanups, proc, mayReject>>

RetryRuns(d) ==
    LET c == cand[d] IN
    /\ c.retry = "due"
    /\ cand' = [cand EXCEPT ![d] = [CloseAgain(c) EXCEPT !.retry = "running"]]
    /\ LetGo(d)
    /\ UNCHANGED <<native, disposed, quarantined, pendingCleanups, proc, mayReject>>

\* Work the candidate owns settles, in time or late.
OwnedSettles(d) ==
    \E w \in cand[d].owned :
        /\ Op.doc = d => Op.at \notin {"page", "render"}
        /\ cand' = [cand EXCEPT ![d] = Retry(Drops(@, w), d \in quarantined)]
        /\ UNCHANGED <<native, current, opening, disposed, quarantined, pendingCleanups, proc, mayReject>>

StagedSettles(d) ==
    LET c == cand[d] IN
    /\ c.staged = "running"
    /\ \/ /\ cand' = [cand EXCEPT ![d] = Retry([c EXCEPT !.staged = "completed"], d \in quarantined)]
          /\ UNCHANGED quarantined
       \/ /\ mayReject
          /\ cand' = [cand EXCEPT ![d].staged = "rejected"]
          /\ Quarantine(d)
    /\ UNCHANGED <<native, current, opening, disposed, pendingCleanups, proc, mayReject>>

\* The native teardown, shared by whoever asked for it, settles.
TeardownSettles(d) ==
    LET c == cand[d]  inPhase == c.phase["transport"] = "running" IN
    /\ native[d] = "tearing"
    /\ \/ /\ native' = [native EXCEPT ![d] = "closed"]
          /\ pendingCleanups' = pendingCleanups \ {d}
          /\ cand' = IF inPhase
                     THEN [cand EXCEPT ![d] = Retry([@ EXCEPT !.phase["transport"] = "resolved"], d \in quarantined)]
                     ELSE cand
          /\ UNCHANGED quarantined
       \/ /\ mayReject
          /\ native' = [native EXCEPT ![d] = "open"]
          /\ pendingCleanups' = pendingCleanups \cup {d}
          /\ IF inPhase     \* handoffRejectedTransportDestroy
             THEN /\ quarantined' = quarantined \ {d}
                  /\ cand' = [cand EXCEPT ![d] =
                        LET rejected == Released([c EXCEPT !.phase["transport"] = "rejected"]) IN
                        IF c.cursor = "transport" THEN Stop(rejected) ELSE rejected]
             ELSE UNCHANGED <<cand, quarantined>>
    /\ UNCHANGED <<current, opening, disposed, proc, mayReject>>

-----------------------------------------------------------------------------
(* What open() and dispose() have in common *)

\* retryPendingCleanups and closeUnloadedSession: one session after the other.
CleanupStarts(p) ==
    LET s == proc[p] IN
    /\ s.at \in {"cleanups", "unload"} /\ s.wait = None
    /\ \E d \in s.todo :
        IF p = "dispose" /\ native[d] = "tearing"
        THEN /\ proc' = [proc EXCEPT ![p].todo = @ \ {d}]
             /\ UNCHANGED native
        ELSE /\ proc' = [proc EXCEPT ![p].wait = d]
             /\ native' = IF native[d] = "open" THEN [native EXCEPT ![d] = "tearing"] ELSE native
    /\ UNCHANGED <<cand, current, opening, disposed, quarantined, pendingCleanups, mayReject>>

CleanupReturns(p) ==
    LET s == proc[p] IN
    /\ s.at \in {"cleanups", "unload"} /\ s.wait # None
    /\ pendingCleanups' = IF native[s.wait] = "tearing" THEN pendingCleanups \cup {s.wait} ELSE pendingCleanups
    /\ proc' = [proc EXCEPT ![p].wait = None, ![p].todo = @ \ {s.wait}]
    /\ UNCHANGED <<cand, native, current, opening, disposed, quarantined, mayReject>>

\* retryQuarantinedCandidates; a disposal whose work has just settled goes on first, its
\* continuation being queued already.
QuarantineRetried(p) ==
    LET s == proc[p] IN
    /\ s.at = "quarantine" /\ s.wait = None
    /\ \E d \in s.todo :
        LET c == cand[d]
            forgiven == IF c.staged = "rejected" THEN [c EXCEPT !.staged = "registered"] ELSE c
        IN /\ ~(c.cursor = "ownership" /\ Outstanding(c) = {})
           /\ IF c.retry # "none" \/ ~Unblocked(c)
              THEN /\ cand' = [cand EXCEPT ![d] = forgiven]
                   /\ proc' = [proc EXCEPT ![p].todo = @ \ {d}]
                   /\ UNCHANGED <<opening, current>>
              ELSE /\ cand' = [cand EXCEPT ![d] = CloseAgain(forgiven)]
                   /\ proc' = [proc EXCEPT ![p].wait = d]
                   /\ LetGo(d)
    /\ UNCHANGED <<native, disposed, quarantined, pendingCleanups, mayReject>>

QuarantineReturns(p) ==
    LET s == proc[p] IN
    /\ s.at = "quarantine" /\ s.wait # None /\ cand[s.wait].cursor \notin Running
    /\ proc' = [proc EXCEPT ![p].wait = None, ![p].todo = @ \ {s.wait}]
    /\ UNCHANGED <<cand, native, current, opening, disposed, quarantined, pendingCleanups, mayReject>>

-----------------------------------------------------------------------------
(* open() *)

Goto(at) == proc' = [proc EXCEPT !["open"].at = at, !["open"].todo = {}]

Adopt(d) ==
    /\ Op.at = "idle" /\ proc["dispose"].at = "idle" /\ ~disposed
    /\ ~cand[d].made /\ current = None
    /\ d = CHOOSE next \in Doc : ~cand[next].made      \* which document is next is immaterial
    /\ proc' = [proc EXCEPT !["open"] = [Idle EXCEPT !.at = "cleanups", !.doc = d, !.todo = pendingCleanups]]
    /\ cand' = [cand EXCEPT ![d].made = TRUE]
    /\ UNCHANGED <<native, current, opening, disposed, quarantined, pendingCleanups, mayReject>>

Unload == proc' = [proc EXCEPT !["open"].at = "unload", !["open"].todo = {Op.doc}]

\* The gates an adoption has to pass before anything is loaded.
OpenGate ==
    /\ Op.todo = {} /\ Op.wait = None
    /\ \/ /\ Op.at = "cleanups"
          /\ IF pendingCleanups = {}
             THEN proc' = [proc EXCEPT !["open"].at = "quarantine", !["open"].todo = quarantined]
             ELSE Unload
       \/ /\ Op.at = "quarantine"
          /\ IF quarantined # {} \/ disposed THEN Unload ELSE Goto("source")
       \/ /\ Op.at = "unload"
          /\ proc' = [proc EXCEPT !["open"] = Idle]
    /\ UNCHANGED <<cand, native, current, opening, disposed, quarantined, pendingCleanups, mayReject>>

\* The length is refused or getDocument fails, or loading begins.
OpenSource ==
    /\ Op.at = "source"
    /\ \/ /\ Unload
          /\ UNCHANGED <<cand, opening, current>>
       \/ /\ Goto("failed") /\ DisposeCandidate(Op.doc)
       \/ /\ Goto("loading") /\ opening' = Op.doc
          /\ UNCHANGED <<cand, current>>
    /\ UNCHANGED <<native, disposed, quarantined, pendingCleanups, mayReject>>

\* catch: the candidate is disposed of and open() waits for its cleanup.
Fail == Goto("failed") /\ DisposeCandidate(Op.doc)

PasswordAsked ==
    LET d == opening IN
    /\ d # None /\ Op.at = "loading"
    /\ ~cand[d].closed /\ ~disposed /\ ~cand[d].terminal
    /\ cand' = [cand EXCEPT ![d] =
                    [AbortPasswordPrompt(@) EXCEPT !.challenge = TRUE, !.passwordPending = TRUE, !.prompt = TRUE]]
    /\ UNCHANGED <<native, current, opening, disposed, quarantined, pendingCleanups, proc, mayReject>>

\* submitPasswordPrompt: a password is handed to PDF.js, anything else ends the open.
PasswordAnswered(d) ==
    /\ cand[d].prompt
    /\ \/ /\ cand' = [cand EXCEPT ![d] = AbortPasswordPrompt(@)]
          /\ UNCHANGED <<opening, current>>
       \/ /\ opening = d /\ ~cand[d].closed /\ ~disposed
          /\ DisposeCandidate(d)
    /\ UNCHANGED <<native, disposed, quarantined, pendingCleanups, proc, mayReject>>

\* The quit cancels the open of a document whose password was asked for.
CancelPasswordOpening ==
    LET d == opening IN
    /\ d # None /\ ~cand[d].closed /\ cand[d].challenge
    /\ cand' = [cand EXCEPT ![d] = [Close(@) EXCEPT !.cancelled = TRUE]]
    /\ IF cand[d].cursor = "none" THEN LetGo(d) ELSE UNCHANGED <<opening, current>>
    /\ UNCHANGED <<native, disposed, quarantined, pendingCleanups, proc, mayReject>>

\* onFailure of the assembly transport
TransportFails(d) ==
    /\ mayReject /\ d \in {current, opening} /\ ~cand[d].closed
    /\ DisposeCandidate(d)
    /\ UNCHANGED <<native, disposed, quarantined, pendingCleanups, proc, mayReject>>

\* Mutant: the deadline also runs while the user types a password.
MayTimeOutAlways(c) == TRUE
MayTimeOut(c) == ~c.passwordPending

\* awaitOpeningDocument: the document, a failure, the deadline or a cancellation.
Loaded ==
    LET d == Op.doc IN
    /\ Op.at = "loading"
    /\ \/ /\ ~cand[d].closed
          /\ cand' = [cand EXCEPT ![d] = Owns(FinishPassword(@, FALSE), "page")]
          /\ Goto("page")
          /\ UNCHANGED <<opening, current>>
       \/ /\ cand[d].closed \/ mayReject
          /\ Fail
    /\ UNCHANGED <<native, disposed, quarantined, pendingCleanups, mayReject>>

MetadataTimeout ==
    /\ Op.at = "loading" /\ MayTimeOut(cand[Op.doc])
    /\ Fail
    /\ UNCHANGED <<native, disposed, quarantined, pendingCleanups, mayReject>>

\* getOwnedPage and the start of the render, whose canvas is reserved with it.
FirstPage ==
    LET d == Op.doc  c == cand[d] IN
    /\ Op.at = "page" /\ "page" \in c.owned
    /\ IF c.closed
       THEN /\ cand' = [cand EXCEPT ![d] = Retry(Drops(Close(c), "page"), d \in quarantined)]
            /\ opening' = IF opening = d THEN None ELSE opening
            /\ Goto("failed")
       ELSE /\ cand' = [cand EXCEPT ![d] = Owns(Drops(@, "page"), "render")]
            /\ Goto("render") /\ UNCHANGED opening
    /\ UNCHANGED <<native, current, disposed, quarantined, pendingCleanups, mayReject>>

Rendered ==
    LET d == Op.doc  c == cand[d]  settled == Drops(c, "render") IN
    /\ Op.at = "render" /\ "render" \in c.owned
    /\ IF c.closed \/ disposed \/ opening # d
       THEN /\ cand' = [cand EXCEPT ![d] = Retry(Close(settled), d \in quarantined)]
            /\ opening' = IF opening = d THEN None ELSE opening
            /\ Goto("failed")
       ELSE /\ cand' = [cand EXCEPT ![d] = [settled EXCEPT !.raster = TRUE, !.staged = "registered"]]
            /\ Goto("staging") /\ UNCHANGED opening
    /\ UNCHANGED <<native, current, disposed, quarantined, pendingCleanups, mayReject>>

\* A page or a render that misses its deadline: its work stays owned.
WorkTimeout ==
    /\ Op.at \in {"page", "render"}
    /\ Fail
    /\ UNCHANGED <<native, disposed, quarantined, pendingCleanups, mayReject>>

MayCommit(d) == ~disposed /\ opening = d

CommitCanvas ==
    LET d == Op.doc IN
    /\ Op.at = "staging" /\ MayCommit(d)
    /\ current' = d /\ opening' = None
    /\ cand' = [cand EXCEPT ![d] = [FinishPassword(@, TRUE) EXCEPT !.staged = "none"]]
    /\ proc' = [proc EXCEPT !["open"] = Idle]
    /\ UNCHANGED <<native, disposed, quarantined, pendingCleanups, mayReject>>

\* The content layer gave up, or the open was cancelled while it was staged.
CommitFails ==
    /\ Op.at \in {"staging", "unstaging"}
    /\ \/ ~MayCommit(Op.doc) \/ Op.attempt = MaxAttempts - 1 \/ mayReject
    /\ Op.at = "unstaging" => cand[Op.doc].staged = "rejected" \/ ~MayCommit(Op.doc)
    /\ Fail
    /\ UNCHANGED <<native, disposed, quarantined, pendingCleanups, mayReject>>

\* The window changed its size: the staged overlay is taken down and the page rendered again.
GeometryChanged ==
    LET d == Op.doc IN
    /\ Op.at = "staging" /\ MayCommit(d) /\ Op.attempt < MaxAttempts - 1
    /\ cand' = [cand EXCEPT ![d] = BeginStaged(@)]
    /\ Goto("unstaging")
    /\ UNCHANGED <<native, current, opening, disposed, quarantined, pendingCleanups, mayReject>>

RenderAgain ==
    LET d == Op.doc IN
    /\ Op.at = "unstaging" /\ MayCommit(d) /\ cand[d].staged = "completed"
    /\ cand' = [cand EXCEPT ![d] = Owns([Released(@) EXCEPT !.staged = "none"], "render")]
    /\ proc' = [proc EXCEPT !["open"].at = "render", !["open"].attempt = @ + 1]
    /\ UNCHANGED <<native, current, opening, disposed, quarantined, pendingCleanups, mayReject>>

OpenFailed ==
    /\ Op.at = "failed" /\ cand[Op.doc].cursor \notin Running
    /\ proc' = [proc EXCEPT !["open"] = Idle]
    /\ UNCHANGED <<cand, native, current, opening, disposed, quarantined, pendingCleanups, mayReject>>

\* The displayed document is printed, or its pages are rendered for the viewport.
WorkStarts(w) ==
    /\ current # None /\ ~disposed /\ w \notin cand[current].owned
    /\ cand' = [cand EXCEPT ![current] = Owns(@, w)]
    /\ UNCHANGED <<native, current, opening, disposed, quarantined, pendingCleanups, proc, mayReject>>

-----------------------------------------------------------------------------
(* dispose() *)

Disposal == proc["dispose"]
Then(at, todo) == proc' = [proc EXCEPT !["dispose"] = [Idle EXCEPT !.at = at, !.todo = todo, !.attempt = Disposal.attempt]]

\* The tab is closed when nothing is opening in it; the window may quit at any time,
\* and cancels a password first (main.ts).
Dispose ==
    /\ Disposal.at \in {"idle", "rejected"} /\ Disposal.attempt < MaxDisposals
    /\ opening # None => ~cand[opening].challenge
    /\ disposed' = TRUE
    /\ proc' = [proc EXCEPT !["dispose"] =
                    [Idle EXCEPT !.at = "quarantine", !.todo = quarantined, !.attempt = Disposal.attempt + 1]]
    /\ UNCHANGED <<cand, native, current, opening, quarantined, pendingCleanups, mayReject>>

DisposeOpening ==
    /\ Disposal.at = "quarantine" /\ Disposal.todo = {} /\ Disposal.wait = None
    /\ \E next \in {opening} :
        /\ proc' = [proc EXCEPT !["dispose"].at = "opening", !["dispose"].wait = next]
        /\ IF next = None THEN UNCHANGED <<cand, opening, current>> ELSE DisposeCandidate(next)
    /\ UNCHANGED <<native, disposed, quarantined, pendingCleanups, mayReject>>

DisposeCurrent ==
    /\ Disposal.at = "opening"
    /\ Disposal.wait # None => cand[Disposal.wait].cursor \notin Running
    /\ \E next \in {current} :
        /\ proc' = [proc EXCEPT !["dispose"].at = "current", !["dispose"].wait = next]
        /\ IF next = None THEN UNCHANGED <<cand, opening, current>> ELSE DisposeCandidate(next)
    /\ UNCHANGED <<native, disposed, quarantined, pendingCleanups, mayReject>>

DisposeCleanups ==
    /\ Disposal.at = "current"
    /\ Disposal.wait # None => cand[Disposal.wait].cursor \notin Running
    /\ opening' = None /\ current' = None
    /\ Then("cleanups", pendingCleanups)
    /\ UNCHANGED <<cand, native, disposed, quarantined, pendingCleanups, mayReject>>

DisposeReturns ==
    /\ Disposal.at = "cleanups" /\ Disposal.todo = {} /\ Disposal.wait = None
    /\ Then(IF pendingCleanups = {} /\ quarantined = {} THEN "resolved" ELSE "rejected", {})
    /\ UNCHANGED <<cand, native, current, opening, disposed, quarantined, pendingCleanups, mayReject>>

-----------------------------------------------------------------------------
Init ==
    /\ cand = [d \in Doc |-> NewCandidate]
    /\ native = [d \in Doc |-> "open"]
    /\ current = None /\ opening = None /\ disposed = FALSE
    /\ quarantined = {} /\ pendingCleanups = {}
    /\ proc = [p \in {"open", "dispose"} |-> Idle]
    /\ mayReject \in BOOLEAN

Settlements(d) ==
    \/ OwnershipSettled(d) \/ PhaseResolves(d) \/ PhaseDone(d) \/ PhaseBarred(d)
    \/ RetryWaited(d) \/ RetryRuns(d) \/ OwnedSettles(d) \/ StagedSettles(d) \/ TeardownSettles(d)

Deadlines(d) == OwnershipTimeout(d) \/ PhaseTimeout(d) \/ PhaseRejects(d) \/ TransportFails(d)

OpenStep ==
    \/ OpenGate \/ OpenSource \/ Loaded \/ MetadataTimeout \/ FirstPage \/ Rendered \/ WorkTimeout
    \/ CommitCanvas \/ CommitFails \/ GeometryChanged \/ RenderAgain \/ OpenFailed

DisposeStep == DisposeOpening \/ DisposeCurrent \/ DisposeCleanups \/ DisposeReturns

Retries(p) == CleanupStarts(p) \/ CleanupReturns(p) \/ QuarantineRetried(p) \/ QuarantineReturns(p)

Next ==
    \/ \E d \in Doc : Adopt(d) \/ Settlements(d) \/ Deadlines(d) \/ PasswordAnswered(d)
    \/ PasswordAsked \/ CancelPasswordOpening
    \/ OpenStep \/ Dispose \/ DisposeStep
    \/ \E p \in {"open", "dispose"} : Retries(p)
    \/ \E w \in LaterWork : WorkStarts(w)

Spec == Init /\ [][Next]_vars

\* Asynchronous operations settle in the end and the code after an await goes on; no
\* deadline needs to pass, and nothing is assumed of the user.
Fairness ==
    /\ \A d \in Doc :
        /\ WF_vars(OwnershipSettled(d)) /\ WF_vars(PhaseResolves(d))
        /\ WF_vars(PhaseDone(d)) /\ WF_vars(RetryWaited(d)) /\ WF_vars(RetryRuns(d))
        /\ SF_vars(OwnedSettles(d)) /\ WF_vars(StagedSettles(d)) /\ WF_vars(TeardownSettles(d))
    /\ WF_vars(OpenStep)

FairSpec == Spec /\ Fairness

-----------------------------------------------------------------------------
(* Properties *)

\* The fields keep their types, what is listed as late or quarantined was adopted, and a
\* retry that runs is one that disposes of the candidate.
TypeOK ==
    /\ cand \in [Doc -> Candidate]
    /\ native \in [Doc -> {"open", "tearing", "closed"}]
    /\ {current, opening} \subseteq Doc \cup {None}
    /\ disposed \in BOOLEAN
    /\ \A d \in quarantined \cup pendingCleanups : d \in Doc /\ cand[d].made
    /\ \A d \in Doc : cand[d].retry = "running" => cand[d].cursor \in Running

\* PDF.js may read from the session until it is destroyed: the native session of a
\* candidate is torn down only when PDF.js, its ranges and all work on its pages are
\* done, whatever timed out, failed or was retried before.
TeardownAfterPdf ==
    \A d \in Doc :
        cand[d].cursor # "none" /\ native[d] # "open" =>
            /\ cand[d].phase["pdf"] = "resolved" /\ cand[d].phase["finish"] = "resolved"
            /\ Outstanding(cand[d]) = {}

\* No document is forgotten: one that was adopted is shown, being opened or torn down,
\* closed, or on a list from which the next open or disposal retries it.
NoForgottenDocument ==
    \A d \in Doc : cand[d].made =>
        \/ native[d] = "closed" \/ d \in {current, opening} \cup quarantined \cup pendingCleanups
        \/ Op.doc = d \/ cand[d].cursor \in Running \/ native[d] = "tearing"

\* Canvas memory is returned: a candidate whose raster is reserved is displayed, in the
\* hands of the open, being torn down, or quarantined.
RasterIsOwned ==
    \A d \in Doc : cand[d].raster =>
        d \in {current, opening} \cup quarantined \/ Op.doc = d \/ cand[d].cursor \in Running

\* Neither a document nor its memory is forgotten, whatever failed, timed out or was retried.
NothingForgotten == NoForgottenDocument /\ RasterIsOwned

\* A document that was cancelled, or whose reader is gone, is never displayed, and its
\* password is not asked for.
ClosedIsHidden ==
    /\ \A d \in Doc : cand[d].closed => d \notin {current, opening} /\ ~cand[d].prompt
    /\ \A d \in Doc : cand[d].prompt => opening = d

\* A document that is given up disappears at once and is torn down in order.
ClosingIsOrderly == TeardownAfterPdf /\ ClosedIsHidden

\* Nobody is timed out while typing a password: the open of a document whose password is
\* awaited fails only by a decision of the user, of the transport or of a disposal.
PasswordIsAwaited == [][Op.at = "loading" /\ cand[Op.doc].prompt /\ ~cand[Op.doc].closed
                        => proc'["open"].at # "failed" \/ mayReject]_vars

\* The hook before a disposal, which is repeated after a missed deadline, is in time at last.
HookInTime == <>[][\A d \in Doc : cand[d].cursor = "before" => ~PhaseTimeout(d)]_vars

\* Late is not never: if every asynchronous operation settles well in the end, however
\* late, the session of a closed candidate is closed, though each phase missed its
\* deadline and nobody asks again.
LateCleanupCompletes ==
    HookInTime => \A d \in Doc : ~mayReject /\ cand[d].closed ~> native[d] = "closed"

\* main.ts:1398: "Drain the password candidate before rejecting its native open request.
\* Both paths own cancellation barriers; they must not race the same handle."  When the
\* disposal the quit awaits has resolved, a cancelled password candidate is torn down.
DrainedBeforeReject ==
    Disposal.at = "resolved" => \A d \in Doc : cand[d].cancelled => cand[d].cursor \notin Running
=============================================================================
