---------------------------- MODULE LinkRegistry ----------------------------
(***************************************************************************)
(* The registry of external links that a document's pages may open.  The  *)
(* content layer of a tab (PdfContentController.ts) publishes revisions    *)
(* of it to the native session (pdf_session.rs) in three calls, prepare,   *)
(* commit and finalize, or takes one back with abort; every call may be    *)
(* answered late, or fail.  Publications wait for their turn, each has a   *)
(* deadline, and one whose outcome is unknown quarantines the registry     *)
(* until a late abort has settled it.  A page that is rendered waits for   *)
(* its prepare with a timer of its own beside the timer of the call; when  *)
(* its own fires first, the turn passes on before the quarantine is set.   *)
(*                                                                         *)
(* Publications are begun by one request of the reader at a time (a page   *)
(* that is rendered, a viewport that holds its authority until it has been *)
(* committed, or one that failed and registers again what it finds) and by *)
(* the tab's activity (revoking everything when it is suspended,           *)
(* registering the resident pages when it is activated).                   *)
(***************************************************************************)
EXTENDS Integers, Sequences, FiniteSets

CONSTANTS
    LinkPage,           \* the pages of the document
    MaxRevision,    \* bound: publications begun
    MaxClicks,      \* bound: clicks dispatched
    MaxFaults,      \* bound: native calls that fail for a reason of their own
    MaxUnmounts     \* bound: attempts at unmounting

LinkAssumption ==
    /\ IsFiniteSet(LinkPage)
    /\ {MaxRevision, MaxClicks, MaxFaults, MaxUnmounts} \subseteq Nat

VARIABLES
    pubs,         \* the publications, by revision
    quarantined,  \* the revision that quarantines the registry, 0 for none
    overlay,      \* the publication that drew a resident page's links, 0 if it is not resident
    groups,       \* the revision under which a page's links are clicked
    entries,      \* what the next publication will register of each page
    native,       \* the session's registry
    click,        \* the dispatch of the last click
    activity,     \* the tab: on, revoking, off, activating or broken
    closing,      \* no, unmounting, failing (an attempt that cannot succeed any more), pending or gone
    reported,     \* a viewport was told that its authority could not be restored
    faults, unmounts
linksVars == <<pubs, quarantined, overlay, groups, entries, native, click, activity, closing, reported, faults, unmounts>>
shown == <<overlay, groups, entries>>

Nobody == [p \in LinkPage |-> 0]
Revision == DOMAIN pubs
NoTransaction == [st |-> "none", rev |-> 0, links |-> Nobody, prevRev |-> 0, prevLinks |-> Nobody]
Resident == {p \in LinkPage : overlay[p] # 0}
Restricted(links, pages) == [p \in LinkPage |-> IF p \in pages THEN links[p] ELSE 0]

LinksInit ==
    /\ pubs = << >> /\ quarantined = 0
    /\ overlay = Nobody /\ groups = Nobody /\ entries = Nobody
    /\ native = [rev |-> 0, links |-> Nobody, txn |-> NoTransaction, finalized |-> 0, aborted |-> 0]
    /\ click = [n |-> 0, page |-> 0, rev |-> 0, id |-> 0, fresh |-> FALSE, st |-> "none"]
    /\ activity = "on" /\ closing = "no" /\ reported = FALSE /\ faults = 0 /\ unmounts = 0

---------------------------------------------------------------------------
\* The native side: each operator gives the registry after the call, and whether it succeeded.
PrepareLinks(n, r, links) ==
    IF n.txn.st = "prepared" THEN [n |-> n, ok |-> n.txn.rev = r /\ n.txn.links = links]
    ELSE IF r <= n.rev THEN [n |-> n, ok |-> FALSE]
    ELSE [n |-> [n EXCEPT !.finalized = IF n.txn.st = "committed" THEN n.txn.rev ELSE @,
                          !.aborted = 0,
                          !.txn = [NoTransaction EXCEPT !.st = "prepared", !.rev = r, !.links = links]],
          ok |-> TRUE]

LinksSettled(n, r) == n.finalized = r /\ n.rev = r

CommitLinks(n, r) ==
    IF n.txn.st = "prepared" /\ n.txn.rev = r
    THEN [n |-> [n EXCEPT !.rev = r, !.links = n.txn.links,
                          !.txn = [st |-> "committed", rev |-> r, links |-> Nobody,
                                   prevRev |-> n.rev, prevLinks |-> n.links]],
          ok |-> TRUE]
    ELSE [n |-> n, ok |-> IF n.txn.st = "none" THEN LinksSettled(n, r) ELSE n.txn.st = "committed" /\ n.txn.rev = r]

FinalizeLinks(n, r) ==
    IF n.txn.st = "committed" /\ n.txn.rev = r
    THEN [n |-> [n EXCEPT !.finalized = r, !.txn = NoTransaction], ok |-> TRUE]
    ELSE [n |-> n, ok |-> n.txn.st = "none" /\ LinksSettled(n, r)]

AbortLinks(n, r) ==
    IF n.txn.st # "none" /\ n.txn.rev = r
    THEN [n |-> [n EXCEPT !.rev = IF n.txn.st = "committed" THEN n.txn.prevRev ELSE @,
                          !.links = IF n.txn.st = "committed" THEN n.txn.prevLinks ELSE @,
                          !.aborted = r, !.txn = NoTransaction],
          ok |-> TRUE]
    ELSE IF n.txn.st = "none" /\ (n.aborted = r \/ LinksSettled(n, r)) THEN [n |-> n, ok |-> TRUE]
    ELSE IF n.txn.st = "none" /\ r > n.rev THEN [n |-> [n EXCEPT !.aborted = r], ok |-> TRUE]
    ELSE [n |-> n, ok |-> FALSE]

\* What a click under revision `rev` finds: the current links, or those that a commit not yet
\* finalized has replaced.
LinkTarget(n, rev, p, id) ==
    IF \/ rev = n.rev /\ n.links[p] = id
       \/ n.txn.st = "committed" /\ rev = n.txn.prevRev /\ n.txn.prevLinks[p] = id
    THEN "opened"
    ELSE "refused"

---------------------------------------------------------------------------
\* What a publication still has to do.
Begun == {"waiting", "settling", "preparing", "committing", "held", "aborting"}
Busy(kinds) == \E r \in Revision : pubs[r].kind \in kinds /\ pubs[r].step \in Begun
ReaderBusy == Busy({"render", "hold", "restore"})
TurnAtOnce(r) == TRUE  \* mutant
Turn(r) == r > 1 => pubs[r - 1].step = "done"
Quarantine(r) == IF quarantined = 0 THEN r ELSE quarantined
Dispatching == click.st \in {"sent", "opened", "refused"}
WaitsNever(r) == FALSE  \* mutant
Waits(r) == Dispatching /\ click.n = pubs[r].wait

\* A viewport that failed, and whose authority is not left in doubt, has to register once more the
\* pages that it finds.
Lapsed(r, kind) == pubs[r].kind = kind /\ pubs[r].step = "done" /\ ~pubs[r].applied
Owed == \E r \in Revision : /\ Lapsed(r, "hold")
                            /\ \A q \in Revision : q > r => pubs[q].kind \notin {"hold", "restore"}

Publication(kind, page, pages, links) ==
    [kind |-> kind, page |-> page, pages |-> pages, links |-> Restricted(links, pages), next |-> links,
     prior |-> groups, step |-> "waiting", wait |-> 0, raw |-> "none", answer |-> "none",
     expired |-> FALSE, stale |-> FALSE, applied |-> FALSE, ahead |-> "no", late |-> "no", awaited |-> FALSE,
     finalizer |-> "none"]

Begin(p) == pubs' = Append(pubs, p)
Set(r, p) == pubs' = [pubs EXCEPT ![r] = p]

\* A native call, and the ways in which a publication may end: it forgets what it held.
Sent(p, call, step) == [p EXCEPT !.raw = call, !.answer = "sent", !.step = step]
Ended(p) == [p EXCEPT !.step = "done", !.page = 0, !.pages = {}, !.next = Nobody, !.prior = Nobody,
                      !.wait = 0, !.expired = FALSE, !.stale = FALSE]
EndedBadly(p) == [Ended(p) EXCEPT !.late = IF @ = "no" THEN "armed" ELSE @]
Answered(r) == [pubs[r] EXCEPT !.raw = "none", !.answer = "none", !.links = Nobody]

---------------------------------------------------------------------------
\* The reader renders a page: the overlay it draws is named by the revision it is published under.
Render(p, retained) ==
    LET r == Len(pubs) + 1 IN
    /\ activity \in {"on", "activating"} /\ closing = "no" /\ ~ReaderBusy /\ r <= MaxRevision
    /\ p \in retained
    /\ Begin(Publication("render", p, retained, [entries EXCEPT ![p] = r]))
    /\ UNCHANGED <<quarantined, shown, native, click, activity, closing, reported, faults, unmounts>>

\* The reader is about to commit a viewport: the native authority comes first.
Hold(pages) ==
    /\ activity \in {"on", "activating"} /\ closing = "no" /\ ~ReaderBusy /\ ~Owed /\ Len(pubs) < MaxRevision
    /\ Begin(Publication("hold", 0, pages, entries))
    /\ UNCHANGED <<quarantined, shown, native, click, activity, closing, reported, faults, unmounts>>

\* A viewport that failed has been put back as far as it could: its authority follows.
Restore(pages) ==
    /\ Owed /\ closing # "gone" /\ ~ReaderBusy /\ Len(pubs) < MaxRevision
    /\ Begin(Publication("restore", 0, pages, entries))
    /\ UNCHANGED <<quarantined, shown, native, click, activity, closing, reported, faults, unmounts>>

\* A publication's turn has come: it is dropped if it is too late, or refused when the registry is
\* closing or quarantined, and otherwise waits for the clicks under way.
TakeTurn(r) ==
    /\ pubs[r].step = "waiting" /\ Turn(r)
    /\ IF pubs[r].expired \/ closing # "no" \/ quarantined # 0
       THEN Set(r, Ended(pubs[r]))
       ELSE Set(r, [pubs[r] EXCEPT !.step = "settling", !.wait = click.n])
    /\ UNCHANGED <<quarantined, shown, native, click, activity, closing, reported, faults, unmounts>>

StartPrepare(r) ==
    /\ pubs[r].step = "settling" /\ ~Waits(r)
    /\ IF closing # "no" \/ quarantined # 0
       THEN Set(r, Ended(pubs[r]))
       ELSE Set(r, Sent(pubs[r], "prepare", "preparing"))
    /\ UNCHANGED <<quarantined, shown, native, click, activity, closing, reported, faults, unmounts>>

\* The next call of a publication whose last one succeeded: too late, its outcome is settled by an
\* abort of its own, and the registry is quarantined until then.
NextCall(r, p, call, step) ==
    IF p.expired THEN Set(r, EndedBadly(p)) /\ quarantined' = Quarantine(r)
    ELSE Set(r, Sent(p, call, step)) /\ UNCHANGED quarantined

\* finalize(): skipped when the document is closing or the deadline has passed.
Finishing(r, p) ==
    IF closing # "no" \/ p.expired
    THEN /\ Set(r, [Ended(p) EXCEPT !.finalizer = "skipped"])
         /\ quarantined' = IF closing = "no" THEN Quarantine(r) ELSE quarantined
    ELSE Set(r, [p EXCEPT !.step = "closing", !.wait = click.n]) /\ UNCHANGED quarantined

\* Every resident page that the publication keeps is clicked under its revision from here on.
RebasedNone(r) == groups  \* mutant: only the page that was rendered
Rebased(r) == [p \in LinkPage |-> IF p \in Resident \cap pubs[r].pages THEN r ELSE groups[p]]

PrepareAnswered(r) ==
    /\ pubs[r].step = "preparing" /\ pubs[r].answer \in {"ok", "error"}
    /\ \/ /\ pubs[r].answer = "error" /\ Set(r, EndedBadly(Answered(r))) /\ quarantined' = Quarantine(r)
       \/ /\ pubs[r].answer = "ok" /\ pubs[r].stale /\ NextCall(r, Answered(r), "abort", "aborting")
       \/ /\ pubs[r].answer = "ok" /\ ~pubs[r].stale /\ NextCall(r, Answered(r), "commit", "committing")
    /\ UNCHANGED <<shown, native, click, activity, closing, reported, faults, unmounts>>

\* The commit succeeded.  A page that is no longer wanted, or whose canvas the reader does not take,
\* is rolled back; otherwise it replaces what was shown of it and the publication is finalized.  The
\* reader drops the pages that were not kept when it takes the canvas, or later; their entries come
\* back with the list that the publication was begun with.
RenderCommitted(r, taken, evicts) ==
    LET p == pubs[r]
        Shows(f) == [q \in LinkPage |-> IF q = p.page THEN r ELSE IF evicts /\ q \notin p.pages THEN 0 ELSE f[q]]
    IN
    /\ p.step = "committing" /\ p.kind = "render" /\ p.answer = "ok"
    /\ IF p.stale \/ ~taken
       THEN NextCall(r, Answered(r), "abort", "aborting") /\ UNCHANGED shown
       ELSE /\ overlay' = Shows(overlay) /\ groups' = Shows(Rebased(r)) /\ entries' = p.next
            /\ Finishing(r, [Answered(r) EXCEPT !.applied = TRUE])
    /\ UNCHANGED <<native, click, activity, closing, reported, faults, unmounts>>

\* A viewport holds its authority from here; any other is finalized at once.
AuthorityCommitted(r) ==
    LET p == [Answered(r) EXCEPT !.applied = TRUE] IN
    /\ pubs[r].step = "committing" /\ pubs[r].kind # "render" /\ pubs[r].answer = "ok"
    /\ groups' = Rebased(r)
    /\ IF p.kind = "hold" THEN Set(r, [p EXCEPT !.step = "held"]) /\ UNCHANGED quarantined
       ELSE Finishing(r, p)
    /\ UNCHANGED <<overlay, entries, native, click, activity, closing, reported, faults, unmounts>>

CommitFailed(r) ==
    /\ pubs[r].step = "committing" /\ pubs[r].answer = "error"
    /\ Set(r, EndedBadly(Answered(r))) /\ quarantined' = Quarantine(r)
    /\ UNCHANGED <<shown, native, click, activity, closing, reported, faults, unmounts>>

\* The viewport was committed, or was not: a rollback that cannot be made is reported to the reader.
HoldFinalize(r) ==
    /\ pubs[r].step = "held" /\ Finishing(r, pubs[r])
    /\ UNCHANGED <<shown, native, click, activity, closing, reported, faults, unmounts>>

HoldRollback(r) ==
    /\ pubs[r].step = "held" /\ NextCall(r, pubs[r], "abort", "aborting")
    /\ reported' = (reported \/ pubs[r].expired)
    /\ UNCHANGED <<shown, native, click, activity, closing, faults, unmounts>>

RollbackAnswered(r) ==
    LET held == pubs[r].kind = "hold" /\ pubs[r].applied IN
    /\ pubs[r].step = "aborting" /\ pubs[r].answer \in {"ok", "error"}
    /\ IF pubs[r].answer = "ok"
       THEN /\ Set(r, [Ended(Answered(r)) EXCEPT !.applied = FALSE]) /\ UNCHANGED <<quarantined, reported>>
            /\ groups' = IF held THEN [p \in LinkPage |-> IF overlay[p] # 0 THEN pubs[r].prior[p] ELSE 0] ELSE groups
       ELSE /\ Set(r, EndedBadly(Answered(r))) /\ quarantined' = Quarantine(r)
            /\ reported' = (reported \/ held) /\ UNCHANGED groups
    /\ UNCHANGED <<overlay, entries, native, click, activity, closing, faults, unmounts>>

\* The clicks that were under way have settled: the replaced links are given up.
StartFinalize(r) ==
    /\ pubs[r].step = "closing" /\ ~Waits(r)
    /\ IF closing # "no"
       THEN Finishing(r, pubs[r])
       ELSE Set(r, [Sent(pubs[r], "finalize", "finalizing") EXCEPT !.finalizer = "pending"]) /\ UNCHANGED quarantined
    /\ UNCHANGED <<shown, native, click, activity, closing, reported, faults, unmounts>>

FinalizeAnswered(r) ==
    /\ pubs[r].raw = "finalize" /\ pubs[r].answer \in {"ok", "error"}
    /\ IF pubs[r].answer = "ok"
       THEN /\ Set(r, [Ended(Answered(r)) EXCEPT !.finalizer = "none"])
            /\ quarantined' = IF quarantined = r THEN 0 ELSE quarantined
       ELSE /\ Set(r, [Ended(Answered(r)) EXCEPT !.finalizer = "failed"])
            /\ quarantined' = Quarantine(r)
    /\ UNCHANGED <<shown, native, click, activity, closing, reported, faults, unmounts>>

\* The answer of a call that nobody waits for any more; only its own timer may not have fired yet.
LateAnswer(r) ==
    /\ pubs[r].step = "done" /\ pubs[r].raw # "finalize" /\ pubs[r].answer \in {"ok", "error"}
    /\ IF pubs[r].ahead = "due"
       THEN /\ Set(r, [Answered(r) EXCEPT !.ahead = "over"])
            /\ quarantined' = IF pubs[r].answer = "error" THEN Quarantine(r) ELSE quarantined
       ELSE Set(r, Answered(r)) /\ UNCHANGED quarantined
    /\ UNCHANGED <<shown, native, click, activity, closing, reported, faults, unmounts>>

---------------------------------------------------------------------------
\* Deadlines pass, and their timers fire, in the order in which the publications were begun.  Two
\* kinds of wait have no timer, and notice afterwards: an authority's for its turn, and a viewport's.
Timed(p) == ~(p.step = "waiting" /\ p.kind # "render") /\ p.step # "held"
Due(r) ==
    /\ pubs[r].step # "done" /\ ~pubs[r].expired
    /\ \A q \in 1 .. r - 1 : pubs[q].step = "done" \/ pubs[q].expired

Expire(r) ==
    /\ Due(r) /\ ~Timed(pubs[r])
    /\ Set(r, [pubs[r] EXCEPT !.expired = TRUE])
    /\ UNCHANGED <<quarantined, shown, native, click, activity, closing, reported, faults, unmounts>>

TimersInOrder(r) == \A q \in 1 .. r - 1 : pubs[q].ahead # "due"

\* A deadline ends whatever its publication waits for.  Before the prepare was sent nothing else is
\* to be done (a render does not even wait for its turn); a call whose answer is missing leaves the
\* registry quarantined, and an abort to be sent when the answer comes.
Timeout(r) ==
    LET p == pubs[r] IN
    /\ Due(r) /\ Timed(p) /\ TimersInOrder(r)
    /\ \/ /\ p.step \in {"waiting", "settling"}
          /\ Set(r, Ended(p)) /\ UNCHANGED <<quarantined, reported>>
       \/ /\ p.step \in {"preparing", "committing", "aborting"}
          /\ Set(r, EndedBadly(p)) /\ quarantined' = Quarantine(r)
          /\ reported' = (reported \/ (p.kind = "hold" /\ p.step = "aborting"))
       \/ /\ p.step = "closing" /\ Finishing(r, [p EXCEPT !.expired = TRUE]) /\ UNCHANGED reported
       \/ /\ p.step = "finalizing" /\ Set(r, Ended(p)) /\ UNCHANGED reported
          /\ quarantined' = IF closing = "no" THEN Quarantine(r) ELSE quarantined
    /\ UNCHANGED <<shown, native, click, activity, closing, faults, unmounts>>

\* Both the render and its prepare have a timer for the same deadline.  That of the render may fire
\* first: it rolls the publication back, which puts the abort off and passes the turn on.  Only the
\* other one, in a later task, quarantines the registry, unless the answer has come in between.
GiveUp(r) ==
    /\ Due(r) /\ TimersInOrder(r)
    /\ pubs[r].kind = "render" /\ pubs[r].step = "preparing"
    /\ Set(r, [EndedBadly(pubs[r]) EXCEPT !.ahead = "due"])
    /\ UNCHANGED <<quarantined, shown, native, click, activity, closing, reported, faults, unmounts>>

CallTimeout(r) ==
    /\ pubs[r].ahead = "due"
    /\ Set(r, [pubs[r] EXCEPT !.ahead = "over"]) /\ quarantined' = Quarantine(r)
    /\ UNCHANGED <<shown, native, click, activity, closing, reported, faults, unmounts>>

\* The missing answer came: the abort that was put off is sent, and those that failed before again.
Resend(p) == IF p.late = "failed" THEN [p EXCEPT !.late = "sent"] ELSE p
AbortAtOnce(r) == pubs[r].late = "armed"  \* mutant: before the call it aborts was answered
AbortDue(r) == pubs[r].late = "armed" /\ pubs[r].raw = "none"
SendLateAbort(r) ==
    /\ AbortDue(r)
    /\ pubs' = [q \in Revision |-> IF q = r THEN [pubs[q] EXCEPT !.late = "sent"] ELSE Resend(pubs[q])]
    /\ UNCHANGED <<quarantined, shown, native, click, activity, closing, reported, faults, unmounts>>

LateAbortAnswered(r) ==
    /\ pubs[r].late \in {"ok", "error"}
    /\ IF pubs[r].late = "ok"
       THEN /\ Set(r, [pubs[r] EXCEPT !.late = "done", !.awaited = FALSE])
            /\ quarantined' = IF quarantined = r THEN 0 ELSE quarantined
            /\ UNCHANGED closing
       ELSE /\ Set(r, [pubs[r] EXCEPT !.late = "failed", !.awaited = FALSE])
            /\ quarantined' = r
            /\ closing' = IF closing = "unmounting" /\ pubs[r].awaited THEN "failing" ELSE closing
    /\ UNCHANGED <<shown, native, click, activity, reported, faults, unmounts>>

---------------------------------------------------------------------------
\* The native session handles a call, or fails it for a reason of its own.
Handled(r) ==
    LET p == pubs[r] IN
    CASE p.raw = "prepare" -> PrepareLinks(native, r, p.links)
      [] p.raw = "commit" -> CommitLinks(native, r)
      [] p.raw = "finalize" -> FinalizeLinks(native, r)
      [] p.raw = "abort" -> AbortLinks(native, r)

Handle(r) ==
    /\ pubs[r].answer = "sent"
    /\ native' = Handled(r).n
    /\ Set(r, [pubs[r] EXCEPT !.answer = IF Handled(r).ok THEN "ok" ELSE "error"])
    /\ UNCHANGED <<quarantined, shown, click, activity, closing, reported, faults, unmounts>>

HandleLateAbort(r) ==
    /\ pubs[r].late = "sent"
    /\ native' = AbortLinks(native, r).n
    /\ Set(r, [pubs[r] EXCEPT !.late = IF AbortLinks(native, r).ok THEN "ok" ELSE "error"])
    /\ UNCHANGED <<quarantined, shown, click, activity, closing, reported, faults, unmounts>>

Fault(r) ==
    /\ faults < MaxFaults /\ faults' = faults + 1
    /\ \/ pubs[r].answer = "sent" /\ Set(r, [pubs[r] EXCEPT !.answer = "error"])
       \/ pubs[r].late = "sent" /\ Set(r, [pubs[r] EXCEPT !.late = "error"])
    /\ UNCHANGED <<quarantined, shown, native, click, activity, closing, reported, unmounts>>

---------------------------------------------------------------------------
\* A link of a resident page is clicked, under the revision its page carries.
Click(p) ==
    /\ activity = "on" /\ closing = "no" /\ ~Dispatching /\ click.n < MaxClicks
    /\ p \in Resident
    /\ click' = [n |-> click.n + 1, page |-> p, rev |-> groups[p], id |-> overlay[p], st |-> "sent",
                 fresh |-> LinkTarget(native, groups[p], p, overlay[p]) = "opened"]
    /\ UNCHANGED <<pubs, quarantined, shown, native, activity, closing, reported, faults, unmounts>>

Dispatch ==
    /\ click.st = "sent"
    /\ click' = [click EXCEPT !.st = LinkTarget(native, click.rev, click.page, click.id)]
    /\ UNCHANGED <<pubs, quarantined, shown, native, activity, closing, reported, faults, unmounts>>

ClickSettled ==
    /\ click.st \in {"opened", "refused"} /\ click' = [click EXCEPT !.st = "none"]
    /\ UNCHANGED <<pubs, quarantined, shown, native, activity, closing, reported, faults, unmounts>>

\* The reader drops a page.
EvictPage(p) ==
    /\ p \in Resident /\ ~Busy({"render"})
    /\ overlay' = [overlay EXCEPT ![p] = 0] /\ groups' = [groups EXCEPT ![p] = 0] /\ entries' = [entries EXCEPT ![p] = 0]
    /\ UNCHANGED <<pubs, quarantined, native, click, activity, closing, reported, faults, unmounts>>

---------------------------------------------------------------------------
\* The tab is suspended: clicks are refused, the render under way is no longer wanted, and the
\* authority of every page is revoked.
Outdated(s) == [r \in DOMAIN s |-> IF s[r].kind = "render" /\ s[r].step \in Begun THEN [s[r] EXCEPT !.stale = TRUE] ELSE s[r]]
Sync(pages) == Publication("sync", 0, pages, entries)
LastSync == CHOOSE r \in Revision : /\ pubs[r].kind = "sync"
                                    /\ \A q \in Revision : pubs[q].kind = "sync" => q <= r
SyncOver == pubs[LastSync].step \notin Begun

SettleInactive ==
    /\ Len(pubs) < MaxRevision /\ pubs' = Append(Outdated(pubs), Sync({})) /\ activity' = "revoking"

Suspend ==
    /\ activity \in {"on", "activating"} /\ closing # "gone" /\ SettleInactive
    /\ UNCHANGED <<quarantined, shown, native, click, closing, reported, faults, unmounts>>

Revoked ==
    /\ activity = "revoking" /\ SyncOver /\ ~ReaderBusy /\ ~Owed
    /\ activity' = IF pubs[LastSync].applied THEN "off" ELSE "broken"
    /\ UNCHANGED <<pubs, quarantined, shown, native, click, closing, reported, faults, unmounts>>

Activate ==
    /\ activity = "off" /\ closing = "no" /\ Len(pubs) < MaxRevision
    /\ Begin(Sync(Resident)) /\ activity' = "activating"
    /\ UNCHANGED <<quarantined, shown, native, click, closing, reported, faults, unmounts>>

Activated ==
    /\ activity = "activating" /\ SyncOver
    /\ IF pubs[LastSync].applied THEN activity' = "on" /\ UNCHANGED pubs ELSE SettleInactive
    /\ UNCHANGED <<quarantined, shown, native, click, closing, reported, faults, unmounts>>

\* The document is unmounted.  The attempt waits for the publications, the clicks, the finalizations
\* and the aborts that are owed when it is made, and tries again the aborts that failed.
AwaitedLate(p) == [p EXCEPT !.awaited = p.late \notin {"no", "done"}]
Unmount ==
    /\ closing \in {"no", "pending"} /\ unmounts < MaxUnmounts
    /\ closing' = "unmounting" /\ unmounts' = unmounts + 1
    /\ pubs' = [r \in Revision |-> AwaitedLate(Resend(Outdated(pubs)[r]))]
    /\ UNCHANGED <<quarantined, shown, native, click, activity, reported, faults>>

OutstandingTurn(r) == pubs[r].step # "done"  \* mutant: the calls of a turn that is over are forgotten
Outstanding(r) == pubs[r].step # "done" \/ pubs[r].finalizer = "pending" \/ pubs[r].awaited
Published(r) == pubs[r].finalizer \in {"failed", "skipped"}

UnmountDone ==
    /\ closing = "unmounting" /\ ~Dispatching /\ \A r \in Revision : ~Outstanding(r)
    /\ quarantined # 0 => Published(quarantined)
    /\ closing' = "gone" /\ quarantined' = 0
    /\ overlay' = Nobody /\ groups' = Nobody /\ entries' = Nobody
    /\ UNCHANGED <<pubs, native, click, activity, reported, faults, unmounts>>

UnmountPending ==
    /\ closing \in {"unmounting", "failing"}
    /\ \/ closing = "failing" \/ Dispatching \/ \E r \in Revision : Outstanding(r)
       \/ ~(quarantined # 0 => Published(quarantined))
    /\ closing' = "pending"
    /\ UNCHANGED <<pubs, quarantined, shown, native, click, activity, reported, faults, unmounts>>

---------------------------------------------------------------------------
Answers(r) ==
    \/ PrepareAnswered(r) \/ \E taken, evicts \in BOOLEAN : RenderCommitted(r, taken, evicts)
    \/ AuthorityCommitted(r) \/ CommitFailed(r) \/ RollbackAnswered(r)
    \/ FinalizeAnswered(r) \/ LateAnswer(r) \/ LateAbortAnswered(r)

LinksNext ==
    \/ \E p \in LinkPage : Click(p) \/ EvictPage(p) \/ \E kept \in SUBSET LinkPage : Render(p, kept)
    \/ \E pages \in SUBSET LinkPage : Hold(pages)
    \/ \E pages \in SUBSET Resident : Restore(pages)
    \/ \E r \in Revision :
          \/ TakeTurn(r) \/ StartPrepare(r) \/ HoldFinalize(r) \/ HoldRollback(r) \/ StartFinalize(r)
          \/ Answers(r) \/ Expire(r) \/ Timeout(r) \/ GiveUp(r) \/ CallTimeout(r) \/ SendLateAbort(r)
          \/ Handle(r) \/ HandleLateAbort(r) \/ Fault(r)
    \/ Dispatch \/ ClickSettled
    \/ Suspend \/ Revoked \/ Activate \/ Activated
    \/ Unmount \/ UnmountDone \/ UnmountPending

LinksSpec == LinksInit /\ [][LinksNext]_linksVars

---------------------------------------------------------------------------
\* Every variable has the values the code gives it.
LinksTypeOK ==
    /\ Len(pubs) <= MaxRevision /\ quarantined \in 0 .. Len(pubs)
    /\ {overlay, groups, entries} \subseteq [LinkPage -> 0 .. MaxRevision]
    /\ native.rev \in 0 .. MaxRevision /\ native.txn.st \in {"none", "prepared", "committed"}
    /\ activity \in {"on", "revoking", "off", "activating", "broken"}
    /\ closing \in {"no", "unmounting", "failing", "pending", "gone"}

Calls == {r \in Revision : pubs[r].answer # "none"}
LateAborts == {r \in Revision : pubs[r].late \in {"sent", "ok", "error"}}
AllOver == \A r \in Revision : pubs[r].step = "done" /\ pubs[r].late \in {"no", "done"} /\ pubs[r].raw = "none"

\* A render has given up before the timer of its prepare could quarantine the registry.
Hurried == \E r \in Revision : pubs[r].ahead # "no"

\* However publications, deadlines, late answers and late aborts interleave, the native registry
\* never has two calls to serve at once: the turns, the quarantine and the wait for a call's own
\* answer before it is aborted keep a stale call from reaching a newer revision.
OneCallAtATime == Cardinality(Calls) + Cardinality(LateAborts) <= 1

\* A document that was unmounted has no call under way that could still change the registry.
UnmountedIsQuiet == closing = "gone" => Calls = {} /\ LateAborts = {} /\ ~Dispatching

\* Calls are served one by one, and none outlives the document, as long as no render was hurried:
\* after one the next publication, or the unmounting, may find the registry free while its prepare is
\* under way (PdfContentController.stageExternalLinks, unmount).
CallsAreOrdered == ~Hurried => OneCallAtATime /\ UnmountedIsQuiet

\* A failed viewport has still to restore its authority, or has told the reader that it could not.
Incomplete == reported \/ Owed \/ \E r \in Revision : Lapsed(r, "restore")

\* Once every publication is over and nothing is quarantined, a link that the native registry lists
\* for a resident page is the one the page shows, and the page clicks it under the revision that the
\* native side honours; so no click on a settled page can be refused.
SettledIsClickable ==
    AllOver /\ quarantined = 0 /\ closing = "no" /\ ~Incomplete =>
        \A p \in Resident : native.links[p] # 0 => native.links[p] = overlay[p] /\ groups[p] = native.rev

\* ... and no transaction is left open on the native side, unless a hurried render's quarantine stood
\* in the place of a later one.
SettledHasNoTransaction ==
    AllOver /\ quarantined = 0 /\ closing = "no" /\ ~Hurried => native.txn.st = "none"

\* A click that the registry would have honoured when it was made is refused when it arrives only if
\* the revision it was made under is being or has been taken back, or its page given up: a newer
\* publication that keeps the page does not replace its links under the click.
TakenBack(r) == pubs[r].step = "aborting" \/ pubs[r].late # "no" \/ ~pubs[r].applied
RefusedWasGivenUp ==
    click.st = "refused" /\ click.fresh => TakenBack(click.rev) \/ native.links[click.page] = 0

\* Both sides agree on every link that may be clicked once everything is over, and on every click
\* meanwhile, also when calls overtake one another after a hurried render (PdfContentController,
\* pdf_session.rs).
RegistryAgrees == SettledIsClickable /\ SettledHasNoTransaction /\ RefusedWasGivenUp
=============================================================================
