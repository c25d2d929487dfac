----------------------------- MODULE PdfViewport -----------------------------
(***************************************************************************)
(* What one reader displays (pdf/PdfReaderController.ts): the pages whose  *)
(* rasters are resident, the window of pages planned around the viewport   *)
(* (pdf/ContinuousPageWindow.ts) and the calls that change them.  A page   *)
(* is rendered, presented by the content layer and committed, each after   *)
(* an await, while newer calls supersede older ones.  A call that has to   *)
(* give rasters up before it has new ones runs as a transaction: it holds  *)
(* the viewport's settlement, and rolls back when it fails or is           *)
(* superseded.                                                             *)
(*                                                                         *)
(* The sequence numbers of the code are represented by the call that drew  *)
(* the last one.  Pages are equally large; a view is a scale and a device  *)
(* pixel ratio, and a raster costs as many bytes as its view says.  The    *)
(* caller's guard and the user's scrolling are one flag, "wanted".         *)
(***************************************************************************)
EXTENDS Naturals, FiniteSets, FiniteSetsExt

CONSTANTS
    Call, None,
    PageCount,
    Overscan,       \* pages planned on either side of the visible ones (2)
    Scales, Ratios, \* scales and device pixel ratios of the requests
    Topologies,     \* "continuous", "single-page"
    MaxBytes,       \* RESOURCE_LIMITS.maxCanvasBytes
    Foreign,        \* canvas bytes the other, inactive tabs may hold at the start
    MaxRequests     \* bound: requests made

ViewportAssumption ==
    /\ None \notin Call /\ PageCount \in Nat \ {0} /\ Overscan \in Nat
    /\ Scales \subseteq Nat \ {0} /\ Ratios \subseteq Nat \ {0}
    /\ Topologies \subseteq {"continuous", "single-page"} /\ "continuous" \in Topologies
    /\ MaxBytes \in Nat /\ Foreign \subseteq Nat /\ MaxRequests \in Nat

VARIABLES
    call,           \* the calls under way
    window,         \* the page window; not "live" in the single-page topology
    rasters,        \* resident pages and the views they were rendered with
    authority,      \* pages whose text and links the content layer keeps
    view, topology, active, visible,
    latest,         \* who drew the last presentationRequestSequence
    drawing,        \* who drew the last renderSequence
    settlement,     \* the call whose transaction the others await (viewportSettlement)
    current,        \* its epoch has not been invalidated
    rollback,       \* viewportRollback
    plan,           \* activeViewportPlan
    task,           \* the PDF.js render under way: its call, or an orphan, and its bytes
    foreign,        \* canvas bytes of other tabs
    suspended,      \* the tab is inactive
    requests,       \* requests made so far
    reported        \* a transaction reported that it could not restore what there was

vars == <<call, window, rasters, authority, view, topology, active, visible, latest, drawing,
          settlement, current, rollback, plan, task, foreign, suspended, requests, reported>>

Page == 1..PageCount
View == [scale : Scales, ratio : Ratios]
Bytes(v) == v.scale * v.ratio
Generations == 0..3         \* generations are compared for equality only

NoPlan == [live |-> FALSE, gen |-> 0, materialize |-> {}, evict |-> {}, layout |-> FALSE]
NoTask == [busy |-> FALSE, call |-> None, bytes |-> 0]
NoView == [scale |-> 0, ratio |-> 0]
NoSave == [pages |-> {}, planned |-> {}, live |-> FALSE, active |-> 0, visible |-> {}, authority |-> {},
           view |-> NoView, topology |-> "continuous"]
IdleCall == [at |-> "idle", kind |-> "none", first |-> 1, last |-> 1, view |-> NoView, topology |-> "continuous",
             anchored |-> FALSE, wanted |-> FALSE, back |-> FALSE, todo |-> {}, page |-> 1, drawn |-> NoView, saved |-> NoSave,
             tx |-> FALSE, short |-> FALSE, result |-> "none"]

-----------------------------------------------------------------------------
(* The page window *)

NextGeneration(g) == (g + 1) % 4

PagesFor(first, last, overscan) == {p \in Page : first <= p + overscan /\ p <= last + overscan}

Planned(w, pages) ==
    IF pages = w.planned THEN w
    ELSE [w EXCEPT !.planned = pages, !.inFlight = {}, !.gen = NextGeneration(@)]

Missing(w) == w.planned \ (w.resident \cup w.inFlight)
Begun(w, p) == IF p \in w.resident THEN w ELSE [w EXCEPT !.inFlight = @ \cup {p}]
Published(w, p) == [w EXCEPT !.inFlight = @ \ {p}, !.resident = @ \cup {p}]
Failed(w, p) == [w EXCEPT !.inFlight = @ \ {p}]

Restored(w, saved, pages) ==
    [w EXCEPT !.planned = saved.planned, !.resident = pages, !.inFlight = {}, !.gen = NextGeneration(@)]

NewWindow(p) == [live |-> TRUE, planned |-> PagesFor(p, p, Overscan), resident |-> {p}, inFlight |-> {}, gen |-> 1]
NoWindow == [live |-> FALSE, planned |-> {}, resident |-> {}, inFlight |-> {}, gen |-> 0]

-----------------------------------------------------------------------------
(* Rasters and their bytes *)

Resident == DOMAIN rasters
Keep(pages) == [p \in pages |-> rasters[p]]
BytesOf(pages) == MapThenSumSet(LAMBDA p : Bytes(rasters[p]), pages)

\* A raster that is being presented is reserved like one that is being rendered.
UsedBytes == BytesOf(Resident) + task.bytes + foreign
    + MapThenSumSet(LAMBDA c : Bytes(call[c].drawn), {c \in Call : call[c].at = "presenting"})

\* ResourceReservationManager.reserve: what the inactive tabs hold is given up first.
ForeignAfter(amount) == IF UsedBytes + amount > MaxBytes THEN 0 ELSE foreign
\* Mutant: a canvas is drawn without a reservation.
FitsAlways(amount) == amount > 0
Fits(amount) == UsedBytes - foreign + ForeignAfter(amount) + amount <= MaxBytes

\* evictResidentPage for a set of pages
Evict(pages) ==
    /\ rasters' = Keep(Resident \ pages)
    /\ window' = [window EXCEPT !.resident = @ \ pages]
    /\ authority' = authority \ pages

\* As few pages of a set as make room, the active page last and the preferred ones first.
Victims(pages, preferred, sufficient) ==
    LET rank(p) == (IF p = active THEN 2 ELSE 0) + (IF p \in preferred THEN 0 ELSE 1)
        Leading(set) == \A p \in set, q \in pages \ set : rank(p) <= rank(q)
    IN {set \in SUBSET pages :
            /\ Leading(set)
            /\ set \in sufficient \/ set = pages
            /\ set # {} => \E p \in set : Leading(set \ {p}) /\ set \ {p} \notin sufficient}

-----------------------------------------------------------------------------
(* Who may go on *)

OwnerCurrent(c) == latest = c /\ call[c].wanted
TransactionCurrent(c) == current /\ call[c].wanted

\* Mutant: a superseded call commits as long as nobody drew after it.
GuardIgnoresSequence(c) == call[c].wanted
Guard(c) ==
    \/ call[c].back
    \/ IF call[c].kind = "sync" THEN TransactionCurrent(c) ELSE OwnerCurrent(c)

\* invalidateViewportSynchronization
Invalidate ==
    IF settlement # None /\ ~rollback THEN current' = FALSE /\ drawing' = None ELSE UNCHANGED <<current, drawing>>

Become(c, at) == call' = [call EXCEPT ![c].at = at]

\* Mutant: a call that is superseded leaves the others waiting.
ReturnHolding(c, result) ==
    /\ call' = [call EXCEPT ![c] = [IdleCall EXCEPT !.result = result]]
    /\ reported' = (reported \/ result = "incomplete")
    /\ IF settlement = c /\ current
       THEN settlement' = None /\ rollback' = FALSE /\ plan' = NoPlan
       ELSE UNCHANGED <<settlement, rollback, plan>>
\* A call returns; what it held is released.
Return(c, result) ==
    /\ call' = [call EXCEPT ![c] = [IdleCall EXCEPT !.result = result]]
    /\ reported' = (reported \/ result = "incomplete")
    /\ IF settlement = c
       THEN settlement' = None /\ rollback' = FALSE /\ plan' = NoPlan
       ELSE UNCHANGED <<settlement, rollback, plan>>

shown == <<window, rasters, authority, view, topology, active, visible>>
order == <<latest, drawing, current>>
held == <<settlement, rollback, plan, reported>>
others == <<foreign, suspended, requests>>

Save == [pages |-> IF window.live THEN window.resident ELSE Resident, planned |-> window.planned, live |-> window.live,
         active |-> active, visible |-> visible, authority |-> authority, view |-> view, topology |-> topology]

-----------------------------------------------------------------------------
(* Requests *)

Suspending == \E c \in Call : call[c].kind = "suspend"

\* The tab is active, or activated first: then what is resident is authorized again.
Request(c) ==
    /\ call[c].at = "idle" /\ requests < MaxRequests /\ ~Suspending
    /\ \E kind \in {"render", "sync"}, v \in View, t \in Topologies :
       \E first, last \in Page, anchored \in BOOLEAN :
        /\ first <= last /\ (anchored => kind = "render" /\ v.scale # view.scale) /\ (kind = "render" => first = last) /\ (kind = "sync" => v = view /\ t = topology)
        /\ call' = [call EXCEPT ![c] = [IdleCall EXCEPT !.at = "waiting", !.kind = kind, !.first = first, !.last = last,
                                                        !.view = v, !.topology = t, !.anchored = anchored, !.wanted = TRUE]]
    /\ latest' = c /\ Invalidate
    /\ requests' = requests + 1 /\ suspended' = FALSE
    /\ authority' = IF suspended THEN Resident ELSE authority
    /\ UNCHANGED <<window, rasters, view, topology, active, visible, held, task, foreign>>

\* The tab is deactivated: what it asked for is void.
Suspend(c) ==
    /\ call[c].at = "idle" /\ requests < MaxRequests /\ ~Suspending /\ ~suspended
    /\ call' = [d \in Call |-> IF d = c THEN [IdleCall EXCEPT !.at = "waiting", !.kind = "suspend"]
                              ELSE [call[d] EXCEPT !.wanted = FALSE]]
    /\ latest' = c /\ Invalidate
    /\ requests' = requests + 1
    /\ UNCHANGED <<shown, held, task, foreign, suspended>>

\* Meanwhile the content layer revokes its authority, after the publications begun before.
Revoke(c) ==
    /\ call[c].kind = "suspend" /\ ~call[c].tx
    /\ \A d \in Call : call[d].at \notin {"presenting", "asking"} /\ ~call[d].tx
    /\ authority' = {} /\ call' = [call EXCEPT ![c].tx = TRUE]
    /\ UNCHANGED <<window, rasters, view, topology, active, visible, order, held, task, others>>

\* The caller withdraws its request, or the user scrolls.
Withdraw(c) ==
    /\ call[c].at # "idle" /\ call[c].wanted
    /\ call' = [call EXCEPT ![c].wanted = FALSE]
    /\ UNCHANGED <<shown, order, held, task, others>>

\* rerenderResidentBackingsForDpr: all resident pages are rendered again, one by one.
RatioChanges(c) ==
    /\ window' = Restored(window, Save, window.resident)
    /\ call' = [call EXCEPT ![c].at = "next", ![c].kind = "ratio", ![c].todo = Resident, ![c].saved = Save]
    /\ settlement' = c /\ rollback' = FALSE /\ UNCHANGED reported
    /\ plan' = [NoPlan EXCEPT !.live = TRUE, !.gen = window'.gen]
    /\ UNCHANGED <<rasters, authority, view, topology, active, visible>>

\* awaitViewportIdle is over.
Proceed(c) ==
    LET r == call[c] IN
    /\ r.at = "waiting" /\ settlement = None
    /\ \/ /\ r.kind = "suspend"
          /\ drawing' = None /\ Become(c, "stopping")
          /\ UNCHANGED <<shown, held, latest, current>>
       \/ /\ r.kind # "suspend"
          /\ UNCHANGED order
          /\ IF ~OwnerCurrent(c) \/ (r.kind = "sync" /\ topology # "continuous")
             THEN Return(c, "superseded") /\ UNCHANGED shown
             ELSE IF r.kind = "render" /\ r.topology = topology /\ r.view.scale = view.scale
                     /\ r.view.ratio # view.ratio /\ Cardinality(Resident) > 1
             THEN RatioChanges(c)
             ELSE Become(c, "preparing") /\ UNCHANGED <<shown, held>>
    /\ UNCHANGED <<task, others>>

Suspended(c) ==
    /\ call[c].at = "stopping" /\ call[c].tx /\ ~task.busy
    /\ Return(c, "done") /\ suspended' = (latest = c)
    /\ UNCHANGED <<shown, order, task, foreign, requests>>

PrepareFails(c) ==
    /\ call[c].at = "preparing"
    /\ Return(c, "failed")
    /\ UNCHANGED <<shown, order, task, others>>

\* renderPageInternal takes the next renderSequence.
Draws(c, p, v) ==
    /\ call' = [call EXCEPT ![c].at = "queued", ![c].page = p, ![c].drawn = v]
    /\ drawing' = c

\* The page is there: render it beside what is shown, or give rasters up for it first.
Prepared(c) ==
    LET r == call[c]  p == r.first  need == Bytes(r.view)
        room == MaxBytes - (UsedBytes - foreign + ForeignAfter(need - BytesOf(Resident))) + BytesOf(Resident)
        full == window.planned # {} /\ Cardinality(Resident) >= Cardinality(window.planned)
        obsolete == IF r.topology = topology /\ r.view.scale = view.scale
                    THEN window.resident \ PagesFor(p, p, Overscan) ELSE window.resident
        Enough(set) == /\ Cardinality(Resident \ set) < Cardinality(window.planned)
                       /\ UsedBytes - foreign + foreign' - BytesOf(set) + need <= MaxBytes
    IN
    /\ r.at = "preparing" /\ r.kind = "render"
    /\ IF ~OwnerCurrent(c)
       THEN Return(c, "superseded") /\ UNCHANGED <<shown, drawing, foreign>>
       ELSE IF ~full /\ (Resident = {} \/ UsedBytes + need <= MaxBytes)
       THEN Draws(c, p, r.view) /\ UNCHANGED <<shown, held, foreign>>
       ELSE /\ foreign' = ForeignAfter(need - BytesOf(Resident))
            /\ IF need > room
               THEN Return(c, "refused") /\ UNCHANGED <<shown, drawing>>
               ELSE /\ settlement' = c /\ UNCHANGED <<rollback, plan, reported>>
                    /\ \E victims \in IF window.live THEN Victims(Resident, obsolete, {v \in SUBSET Resident : Enough(v)}) ELSE {Resident} :
                        Evict(victims)
                    /\ call' = [call EXCEPT ![c].at = "queued", ![c].kind = "bounded", ![c].page = p,
                                            ![c].drawn = r.view, ![c].saved = Save]
                    /\ drawing' = c
                    /\ UNCHANGED <<view, topology, active, visible>>
    /\ UNCHANGED <<latest, current, task, suspended, requests>>

\* synchronizeViewport plans as many pages around the visible ones as there is memory for.
PlanViewport(c) ==
    LET r == call[c]
        need(overscan) == Cardinality(PagesFor(r.first, r.last, overscan)) * Bytes(view)
        freed == ForeignAfter(need(0) - BytesOf(Resident))
        room == MaxBytes - (UsedBytes - foreign + freed) + BytesOf(Resident)
        admitted == {o \in 0..Overscan : need(o) <= room}
        next == Planned(window, PagesFor(r.first, r.last, Max(admitted)))
    IN
    /\ r.at = "preparing" /\ r.kind = "sync"
    /\ IF ~OwnerCurrent(c)
       THEN Return(c, "superseded") /\ UNCHANGED <<shown, current, foreign>>
       ELSE /\ foreign' = freed
            /\ IF admitted = {}
               THEN Return(c, "refused") /\ UNCHANGED <<shown, current>>
               ELSE /\ window' = next
                    /\ UNCHANGED <<rasters, authority, view, topology>>
                    /\ IF Missing(next) = {} /\ next.resident \subseteq next.planned
                       THEN /\ visible' = r.first..r.last
                            /\ active' \in r.first..r.last
                            /\ Return(c, "done") /\ UNCHANGED current
                       ELSE /\ call' = [call EXCEPT ![c].at = "next", ![c].todo = Missing(next), ![c].saved = Save]
                            /\ settlement' = c /\ current' = TRUE /\ UNCHANGED <<rollback, reported>>
                            /\ plan' = [live |-> TRUE, gen |-> next.gen, materialize |-> Missing(next),
                                        evict |-> next.resident \ next.planned, layout |-> TRUE]
                            /\ UNCHANGED <<active, visible>>
    /\ UNCHANGED <<latest, drawing, task, suspended, requests>>

-----------------------------------------------------------------------------
(* One page: rendered, presented, committed *)

\* The call that draws waits for the render under way to be cancelled, and reserves.
Queued(c) ==
    LET need == Bytes(call[c].drawn) IN
    /\ call[c].at = "queued"
    /\ IF drawing # c
       THEN Become(c, "missed") /\ UNCHANGED <<task, foreign>>
       ELSE /\ ~task.busy
            /\ foreign' = ForeignAfter(need)
            /\ IF Fits(need)
               THEN task' = [busy |-> TRUE, call |-> c, bytes |-> need] /\ Become(c, "rendering")
               ELSE Become(c, "missed") /\ UNCHANGED task
    /\ UNCHANGED <<shown, order, held, suspended, requests>>

Rendered(c) ==
    /\ call[c].at = "rendering" /\ task.call = c
    /\ task' = NoTask
    /\ Become(c, IF drawing = c /\ Guard(c) THEN "presenting" ELSE "missed")
    /\ UNCHANGED <<shown, order, held, others>>

\* A deadline passes, or PDF.js fails; a render that does not stop keeps its canvas until it does.
RenderFails(c) ==
    /\ call[c].at \in {"queued", "rendering"}
    /\ Become(c, "missed")
    /\ task' \in IF task.call = c THEN {NoTask, [task EXCEPT !.call = None]} ELSE {task}
    /\ UNCHANGED <<shown, order, held, others>>

OrphanSettles ==
    /\ task.busy /\ task.call = None
    /\ task' = NoTask
    /\ UNCHANGED <<call, shown, order, held, others>>

\* The content layer fails, or does not commit the canvas it was given.
PresentFails(c) ==
    /\ call[c].at = "presenting"
    /\ Become(c, "missed")
    /\ UNCHANGED <<shown, order, held, task, others>>

\* Mutant: what was displayed stays beside the page at its new scale.
CommitKeeping(c) ==
    LET r == call[c]  p == r.page IN
    /\ window' = [NewWindow(p) EXCEPT !.resident = Resident \cup {p}]
    /\ rasters' = [q \in Resident \cup {p} |-> IF q = p THEN r.drawn ELSE rasters[q]]
    /\ authority' = authority \cup {p}
    /\ topology' = IF r.back THEN r.saved.topology ELSE r.topology
\* The pages shown from now on, and the window that plans them (commitCanvas).
CommitAnew(c) ==
    LET r == call[c]  p == r.page  t == IF r.back THEN r.saved.topology ELSE r.topology IN
    /\ window' = IF t = "continuous" THEN NewWindow(p) ELSE NoWindow
    /\ rasters' = [q \in {p} |-> r.drawn]
    /\ authority' = {p}
    /\ topology' = t

CommitPlanned(c) ==
    LET r == call[c]  p == r.page
        shows == IF p \in plan.materialize THEN Published(window, p) ELSE window
    IN
    /\ window' = shows
    /\ rasters' = [q \in Resident \cup {p} |-> IF q = p THEN r.drawn ELSE rasters[q]]
    /\ authority' = (authority \cup {p}) \cap ((Resident \ plan.evict) \cup {p})
    /\ UNCHANGED topology

\* Mutant: links of pages that left the window are registered again.
CommitBesideAll(c) ==
    LET r == call[c]  p == r.page
        next == Planned(window, PagesFor(p, p, Overscan))
        kept == (Resident \cup {p}) \cap next.planned
    IN
    /\ window' = [Published(Begun(next, p), p) EXCEPT !.resident = @ \cap next.planned]
    /\ rasters' = [q \in kept |-> IF q = p THEN r.drawn ELSE rasters[q]]
    /\ authority' = authority \cup {p}
    /\ UNCHANGED topology
CommitBeside(c) ==
    LET r == call[c]  p == r.page
        next == Planned(window, PagesFor(p, p, Overscan))
        kept == (Resident \cup {p}) \cap next.planned
    IN
    /\ window' = [Published(Begun(next, p), p) EXCEPT !.resident = @ \cap next.planned]
    /\ rasters' = [q \in kept |-> IF q = p THEN r.drawn ELSE rasters[q]]
    /\ authority' = (authority \cup {p}) \cap kept
    /\ UNCHANGED topology

Commit(c) ==
    LET r == call[c]
        t == IF r.back THEN r.saved.topology ELSE IF r.kind \in {"render", "bounded"} THEN r.topology ELSE topology
        anew == r.drawn.scale # view.scale \/ t # topology \/ t = "single-page"
    IN
    /\ r.at = "presenting"
    /\ IF drawing = c /\ Guard(c)
       THEN /\ IF anew THEN CommitAnew(c) ELSE IF plan.live THEN CommitPlanned(c) ELSE CommitBeside(c)
            /\ view' = r.drawn
            /\ active' = IF plan.live \/ (r.anchored /\ active # 0) THEN active ELSE r.page
            /\ visible' = IF plan.live THEN visible ELSE {r.page}
            /\ \E layout \in IF plan.layout THEN BOOLEAN ELSE {TRUE} :
                Become(c, IF layout THEN "drawn" ELSE "missed")
       ELSE Become(c, "missed") /\ UNCHANGED shown
    /\ UNCHANGED <<order, held, task, others>>

-----------------------------------------------------------------------------
(* What a call does with the pages it draws *)

RestoredActive(c, pages) ==
    IF call[c].saved.active \in pages THEN call[c].saved.active
    ELSE IF pages = {} THEN 0 ELSE Min(pages)

Drawn(c) ==
    LET r == call[c] IN
    /\ r.at = "drawn"
    /\ \/ /\ r.kind = "render" /\ Return(c, "done")
       \/ /\ r.kind = "bounded" /\ ~r.back /\ Return(c, "done")
       \/ /\ r.kind \in {"sync", "ratio"} \/ r.back
          /\ call' = [call EXCEPT ![c].at = "next", ![c].todo = @ \ {r.page}]
          /\ UNCHANGED held
    /\ UNCHANGED <<shown, order, task, others>>

\* Pages are drawn in ascending order.
NextPage(c) ==
    LET r == call[c]  p == Min(r.todo)
        Enough(set) ==
            /\ Cardinality(Resident \ set) < Cardinality(window.planned)
            /\ UsedBytes - BytesOf(set) + Bytes(view) <= MaxBytes
        Draw(v) == /\ call' = [call EXCEPT ![c].at = "queued", ![c].page = p, ![c].drawn = v]
                   /\ drawing' = c
    IN
    /\ r.at = "next" /\ r.todo # {}
    /\ UNCHANGED <<view, topology, active, visible, latest, current, settlement, rollback, reported, task, others>>
    /\ \/ /\ ~r.back /\ ~Guard(c)
          /\ Become(c, "missed") /\ UNCHANGED <<window, rasters, authority, drawing, plan>>
       \/ /\ r.kind = "sync" /\ ~r.back /\ Guard(c) /\ UNCHANGED plan
          /\ \E victims \in Victims(plan.evict \cap Resident, {}, {v \in SUBSET Resident : Enough(v)}) :
                /\ rasters' = Keep(Resident \ victims)
                /\ authority' = authority \ victims
                /\ IF Enough(victims)
                   THEN Draw(view) /\ window' = Begun([window EXCEPT !.resident = @ \ victims], p)
                   ELSE Become(c, "missed") /\ UNCHANGED drawing /\ window' = [window EXCEPT !.resident = @ \ victims]
       \/ /\ r.kind = "ratio" /\ (r.back \/ Guard(c))
          /\ rasters' = Keep(Resident \ {p}) /\ authority' = authority \ {p}
          /\ window' = Begun([window EXCEPT !.resident = @ \ {p}], p)
          /\ plan' = [plan EXCEPT !.materialize = {p}]
          /\ Draw(IF r.back THEN r.saved.view ELSE r.view)
       \/ /\ r.kind \in {"sync", "bounded"} /\ r.back /\ UNCHANGED plan
          /\ UNCHANGED <<rasters, authority>>
          /\ window' = IF r.saved.live THEN Begun(window, p) ELSE window
          /\ Draw(r.saved.view)

\* All pages are there: a change of the ratio is done, a synchronization asks the content layer.
AllDrawn(c) ==
    LET r == call[c]  pages == Resident \cap r.saved.pages IN
    /\ r.at = "next" /\ r.todo = {} /\ ~r.back
    /\ IF r.kind = "sync"
       THEN Become(c, "asking") /\ UNCHANGED <<shown, held>>
       ELSE /\ Return(c, "done")
            /\ active' = RestoredActive(c, Resident)
            /\ window' = Restored(window, r.saved, pages)
            /\ UNCHANGED <<rasters, authority, view, topology, visible>>
    /\ UNCHANGED <<order, task, others>>

\* Mutant: the viewport moved on, but the pages are published as visible all the same.
AnyVisible(pages) == TRUE
AllVisible(pages) == pages \subseteq Resident \ plan.evict

\* onBeforeResidentCommit returned: obsolete pages go, and the visible ones must be there.
Synchronized(c) ==
    LET r == call[c]
        published == [call EXCEPT ![c].tx = TRUE, ![c].at = "missed"]
    IN
    /\ r.at = "asking"
    /\ \/ /\ ~TransactionCurrent(c)
          /\ call' = published /\ authority' = window.planned \cap Page
          /\ UNCHANGED <<window, rasters, active, visible, held>>
       \/ /\ TransactionCurrent(c)
          /\ rasters' = Keep(Resident \ plan.evict)
          /\ window' = [window EXCEPT !.resident = @ \ plan.evict]
          /\ authority' = window.planned
          \* measured pages may have moved the viewport to others
          /\ \E first, last \in Page :
                /\ first <= r.last /\ r.first <= last /\ first <= last
                /\ IF AllVisible(first..last)
                   THEN visible' = first..last /\ active' \in first..last /\ Return(c, "done")
                   ELSE call' = published /\ UNCHANGED <<active, visible, held>>
    /\ UNCHANGED <<view, topology, order, task, others>>

AskingFails(c) ==
    /\ call[c].at = "asking"
    /\ Become(c, "missed")
    /\ UNCHANGED <<shown, order, held, task, others>>

\* A page could not be drawn.
Missed(c) ==
    LET r == call[c] IN
    /\ r.at = "missed"
    /\ \/ /\ r.kind = "render" /\ Return(c, "failed")
          /\ UNCHANGED shown
       \/ /\ r.back
          /\ call' = [call EXCEPT ![c].at = "next", ![c].short = TRUE,
                                  ![c].todo = IF r.kind = "ratio" THEN {} ELSE @ \ {r.page}]
          /\ window' = Failed(window, r.page)
          /\ UNCHANGED <<rasters, authority, view, topology, active, visible, held>>
       \/ /\ r.kind # "render" /\ ~r.back
          /\ Become(c, "undoing") /\ rollback' = TRUE
          /\ window' = Failed(window, r.page)
          /\ UNCHANGED <<rasters, authority, view, topology, active, visible, settlement, plan, reported>>
    /\ UNCHANGED <<order, task, others>>

-----------------------------------------------------------------------------
(* Rollback *)

\* The content layer cannot take its commit back: nothing more is restored.
UndoFails(c) ==
    /\ call[c].at = "undoing" /\ call[c].tx
    /\ Return(c, "incomplete")
    /\ UNCHANGED <<shown, order, task, others>>

\* Mutant: the pages are rendered for the plan that failed.
PlanThatFailed(w, todo) == plan
RollbackPlan(w, todo) == [NoPlan EXCEPT !.live = TRUE, !.gen = w.gen, !.materialize = todo]

\* What was not there before goes, and what was is drawn again.
Undo(c) ==
    LET r == call[c]
        gone == IF r.kind # "ratio" /\ ~r.saved.live THEN Resident ELSE Resident \ r.saved.pages
        kept == Resident \ gone
        todo == IF r.kind = "ratio" THEN r.saved.pages ELSE r.saved.pages \ kept
        restored == IF r.saved.live THEN Restored(window, r.saved, kept) ELSE window
    IN
    /\ r.at = "undoing"
    /\ call' = [call EXCEPT ![c].at = "next", ![c].back = TRUE, ![c].tx = FALSE, ![c].todo = todo]
    /\ IF r.kind = "ratio" THEN UNCHANGED <<window, rasters, authority, plan>>
       ELSE /\ rasters' = Keep(kept)
            /\ authority' = (IF r.tx THEN r.saved.authority ELSE authority) \ gone
            /\ window' = restored
            /\ plan' = IF r.saved.live THEN RollbackPlan(restored, todo) ELSE NoPlan
    /\ UNCHANGED <<view, topology, active, visible, order, settlement, rollback, reported, task, others>>

\* Rasters of the abandoned ratio do not stay.
OfSavedView(r) == {p \in Resident : r.kind = "ratio" => rasters[p] = r.saved.view}

Undone(c) ==
    LET r == call[c]  kept == OfSavedView(r)  pages == kept \cap r.saved.pages IN
    /\ r.at = "next" /\ r.back /\ r.todo = {}
    /\ rasters' = Keep(kept)
    /\ authority' = authority \ (Resident \ kept)
    /\ window' = IF r.saved.live THEN Restored(window, r.saved, pages) ELSE window
    /\ active' = RestoredActive(c, IF r.kind = "ratio" THEN kept ELSE pages)
    /\ visible' = IF r.saved.live THEN visible ELSE r.saved.visible
    /\ view' = IF r.kind = "ratio" \/ ~r.saved.live THEN r.saved.view ELSE view
    /\ Become(c, "compensating")
    /\ UNCHANGED <<topology, order, held, task, others>>

\* Mutant: pages that could not be drawn again are not reported.
RestoredIfDrawn(r, pages) == pages \subseteq r.saved.pages
RestoredAll(r, pages) == ~r.short /\ pages = r.saved.pages /\ topology = r.saved.topology

\* The content layer is told what is there again, or fails; then the call returns.
Compensated(c) ==
    LET r == call[c]  pages == Resident \cap r.saved.pages IN
    /\ r.at = "compensating"
    /\ \/ /\ authority' = pages
          /\ Return(c, IF RestoredAll(r, pages) THEN "failed" ELSE "incomplete")
       \/ /\ Return(c, "incomplete") /\ UNCHANGED authority
    /\ UNCHANGED <<window, rasters, view, topology, active, visible, order, task, others>>

-----------------------------------------------------------------------------
\* evictInactiveCanvas, called by the reservation of another tab
EvictInactive ==
    /\ suspended /\ ~task.busy /\ Resident # {}
    /\ Evict(Resident) /\ active' = 0
    /\ UNCHANGED <<call, view, topology, visible, order, held, task, others>>

Init ==
    /\ call = [c \in Call |-> IdleCall]
    /\ view = [scale |-> Min(Scales), ratio |-> Min(Ratios)] /\ topology = "continuous"
    /\ \E pages \in {{1}, PagesFor(1, 1, Overscan)} :
        /\ window = [NewWindow(1) EXCEPT !.resident = pages]
        /\ rasters = [p \in pages |-> view] /\ authority = pages
    /\ active = 1 /\ visible = {1}
    /\ latest = None /\ drawing = None /\ settlement = None /\ current = FALSE /\ rollback = FALSE
    /\ reported = FALSE /\ plan = NoPlan /\ task = NoTask /\ foreign \in Foreign /\ suspended = FALSE /\ requests = 0

Step(c) ==
    \/ Proceed(c) \/ Revoke(c) \/ Suspended(c) \/ Prepared(c) \/ PlanViewport(c)
    \/ Queued(c) \/ Rendered(c) \/ Commit(c) \/ Drawn(c) \/ NextPage(c) \/ AllDrawn(c)
    \/ Synchronized(c) \/ Missed(c) \/ Undo(c) \/ Undone(c) \/ Compensated(c)

Fault(c) == PrepareFails(c) \/ RenderFails(c) \/ PresentFails(c) \/ AskingFails(c) \/ UndoFails(c)

Next ==
    \/ \E c \in Call : Request(c) \/ Suspend(c) \/ Withdraw(c) \/ Step(c) \/ Fault(c)
    \/ OrphanSettles \/ EvictInactive

Spec == Init /\ [][Next]_vars

-----------------------------------------------------------------------------
(* Properties *)

TypeOK ==
    /\ window \in [live : BOOLEAN, planned : SUBSET Page, resident : SUBSET Page, inFlight : SUBSET Page, gen : Generations]
    /\ Resident \subseteq Page /\ \A p \in Resident : rasters[p] \in View
    /\ authority \subseteq Page /\ view \in View /\ topology \in Topologies
    /\ active \in Page \cup {0} /\ visible \subseteq Page
    /\ {latest, drawing, settlement} \subseteq Call \cup {None}
    /\ {current, rollback, suspended} \subseteq BOOLEAN /\ window.live = (topology = "continuous")

\* A page that is begun or published belongs to the plan in force: what begin() and
\* publish() would throw at never happens; and no page stays in flight without a
\* transaction, or it would never be planned again.
PlanIsInForce ==
    /\ settlement = None /\ ~reported /\ (\A c \in Call : call[c].at = "idle") => window.inFlight = {}
    /\ \A c \in Call : settlement = c /\ plan.live /\ call[c].at \in {"queued", "rendering", "presenting"} =>
        window.gen = plan.gen /\ call[c].page \in window.inFlight

\* Nobody sees pages of different scale side by side: between transactions all rasters
\* have the scale in force.  (Of the ratio this is not true: one page at the old ratio
\* stays beside another that is rendered at the new one.)
UniformScale == settlement = None /\ ~reported => \A p \in Resident : rasters[p].scale = view.scale

\* What the reader says is visible is there, between transactions.  (The active page need
\* not be: a zoom around the pointer keeps it although only the page under the pointer is
\* displayed, until the viewport is synchronized.)
VisibleIsResident ==
    settlement = None /\ ~reported /\ active # 0 => visible \subseteq Resident

\* The memory of the canvases is never exceeded.
CanvasesFit == UsedBytes <= MaxBytes

\* The pages whose text and links are kept are those on display, between transactions.
AuthorityMatches ==
    settlement = None /\ ~reported /\ ~Suspending /\ ~suspended => authority = Resident

\* The memory of the canvases suffices at any time, and what the user sees, what is kept and what
\* may be clicked fit together whenever no transaction is under way, however renders, zooms, suspensions and rollbacks overlapped.
DisplayIsConsistent == UniformScale /\ VisibleIsResident /\ AuthorityMatches /\ CanvasesFit

\* A transaction ends with what was asked for, with what there was before it, or by
\* reporting that it could not restore it.
RestoredOrReported ==
    [][\A c \in Call : settlement = c /\ settlement' = None /\ call'[c].result = "failed" =>
        /\ DOMAIN rasters' = call[c].saved.pages
        /\ view' = call[c].saved.view /\ topology' = call[c].saved.topology]_vars

\* A superseded or withdrawn request changes no page of the display: the view and the
\* topology change only by the request made last, or back by a rollback.
LatestDecides ==
    [][\A c \in Call : call[c].at = "presenting" /\ call'[c].at = "drawn" /\ ~call[c].back
        => call[c].kind = "sync" \/ (latest = c /\ call[c].wanted)]_vars

\* Everyone waits for the settlement, so its holder must be under way itself, never behind
\* another, and nobody else may act as if it held it.
SettlementIsHeld ==
    /\ settlement # None => call[settlement].at \notin {"idle", "waiting", "stopping"}
    /\ \A c \in Call : call[c].at \in {"asking", "undoing", "compensating"} => settlement = c

\* Whatever is committed was asked for last, and whatever fails is undone or reported.
ChangesAreDecided == RestoredOrReported /\ LatestDecides

\* Transactions take turns, and the plan of the one whose turn it is is the one in force.
TransactionIsSound == PlanIsInForce /\ SettlementIsHeld
=============================================================================
