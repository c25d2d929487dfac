----------------------------- MODULE PdfTabView -----------------------------
(***************************************************************************)
(* How the view of a tab is changed (pdf/PdfTabSession.ts): by the         *)
(* keyboard, by the wheel, by a resize and by the tab's activation, while  *)
(* scrolling synchronizes the viewport whenever none of them owns it.  The *)
(* view the reader wants (core/ReaderState.ts) changes at once; it is      *)
(* rendered after several awaits, unless something newer comes first, and  *)
(* what was committed is what the shell displays.                          *)
(*                                                                         *)
(* A step is a callback of the event loop.  The handlers are functions of  *)
(* the state s; the continuations of promises that are settled come        *)
(* before anything else.  The counters that fence work are represented by  *)
(* marks on the work they fence.  The reader below is the one of           *)
(* PdfViewport, reduced to what it displays and whose request is the       *)
(* latest.  One document, open and fitted; pages are equally large.        *)
(***************************************************************************)
EXTENDS ZoomPolicy

CONSTANTS
    Call,         \* the renderings of the current view that may be under way
    Box,          \* content sizes of the host
    Width, Page,  \* the scales that fit a page's width, or all of it, into each size
    Bars,         \* the sizes that scrollbars make of each size
    ActualScale,
    Step,         \* zoom steps of keys and of the wheel
    MaxEvents     \* bound: keys, wheel steps, resizes and changes of activity

ASSUME ViewAssumption ==
    /\ Call # {} /\ Width \in [Box -> Int] /\ Page \in [Box -> Int] /\ ActualScale \in Scale /\ Step \subseteq Int /\ MaxEvents \in Nat
    /\ \A b \in Box : b \in Bars[b] /\ Bars[b] \subseteq Box

VARIABLES
    view,       \* the mode and scale the reader wants
    committed,  \* lastCommittedRender: the mode and scale that were rendered, and for which size
    shown,      \* the scale and the topology the reader displays
    box,        \* the present content size
    resize,     \* "new": the observer will be told of another size; "frame": a rendering is scheduled
    active,     \* the tab is in the foreground
    restore,    \* the activation: "none", "due", "first", "second" attempt to render
    kb,         \* keyboardViewOwner
    wheel,      \* the wheel's target and its drain
    rollback,   \* pendingRenderRollback; fresh when no newer intent to render exists
    call,       \* settleCurrentView
    latest,     \* whose presentationRequestSequence of the reader is the latest
    viewport,   \* whose viewportIntent is the latest
    sync,       \* the synchronization for a scroll: "none", "deferred", "running"
    dirty,      \* presentationDirty
    events,
    said,       \* observer: the last true answer to the keyboard or the wheel
    odd         \* observers: see Even
vars == <<view, committed, shown, box, resize, active, restore, kb, wheel, rollback, call,
          latest, viewport, sync, dirty, events, said, odd>>

Mode == {"continuous-fit", "custom", "fit-width", "fit-page"}
TopologyOf(mode) == IF mode = "fit-page" THEN "single-page" ELSE "continuous"

\* viewTransformFor
FitScale(v, b) ==
    clampReaderScale(CASE v.mode = "custom" -> v.scale [] v.mode = "fit-width" -> Width[b] [] OTHER -> Page[b])

Of(c) == [mode |-> c.mode, scale |-> c.scale]

NoCommit == [mode |-> "custom", scale |-> Lo, box |-> CHOOSE b \in Box : TRUE]
IdleCall == [at |-> "idle", kind |-> "none", live |-> FALSE, ok |-> FALSE, asked |-> Of(NoCommit), box |-> NoCommit.box,
             settled |-> NoCommit.box, corrected |-> FALSE, back |-> FALSE, prior |-> NoCommit, scale |-> Lo, topology |-> "continuous"]
NoKey == [on |-> FALSE, call |-> CHOOSE c \in Call : TRUE, pending |-> NoIntent, queued |-> FALSE,
          first |-> "none", base |-> Lo, zoomed |-> FALSE, typed |-> [x \in Scale |-> x]]
NoWheel == [on |-> FALSE, at |-> "none", target |-> Lo, scale |-> Lo, fresh |-> FALSE, prior |-> NoCommit,
            was |-> [scale |-> Lo, topology |-> "continuous"]]
NoRollback == [on |-> FALSE, fresh |-> FALSE, to |-> Of(NoCommit)]
NothingSaid == [by |-> "none", goal |-> Lo, zoomed |-> FALSE, got |-> Of(NoCommit)]

\* Nothing that the properties except has happened.  The code does each of them: a failed rendering could
\* not be undone, as was reported (broken); a mode that shows nothing new was not committed (kept); one
\* of two owners began to render while the other did (both); a key's zoom was reckoned from a view that a failure
\* had left, which the end of the wheel's zoom then took back before the zoom was applied (moved).
Even == [broken |-> FALSE, kept |-> FALSE, both |-> FALSE, moved |-> FALSE]

Init ==
    /\ box \in Box
    /\ \E mode \in Mode, scale \in Scale :
         /\ view = [mode |-> mode, scale |-> scale] /\ scale = FitScale(view, box)
         /\ committed = [mode |-> mode, scale |-> scale, box |-> box]
         /\ shown = [scale |-> scale, topology |-> TopologyOf(mode)]
    /\ resize = {} /\ active = TRUE /\ restore = "none"
    /\ kb = NoKey /\ wheel = NoWheel /\ rollback = NoRollback
    /\ call = [c \in Call |-> IdleCall] /\ latest = "none" /\ viewport = "none"
    /\ sync = [at |-> "none", live |-> FALSE] /\ dirty = FALSE
    /\ events = 0 /\ said = NothingSaid /\ odd = Even

-----------------------------------------------------------------------------
(* What the handlers are made of *)

State == [view |-> view, committed |-> committed, shown |-> shown, box |-> box, resize |-> resize,
          active |-> active, restore |-> restore, kb |-> kb, wheel |-> wheel, rollback |-> rollback,
          call |-> call, latest |-> latest, viewport |-> viewport, sync |-> sync, dirty |-> dirty,
          said |-> NothingSaid, odd |-> odd]
Becomes(s) ==
    /\ view' = s.view /\ committed' = s.committed /\ shown' = s.shown /\ box' = s.box /\ resize' = s.resize
    /\ active' = s.active /\ restore' = s.restore /\ kb' = s.kb /\ wheel' = s.wheel /\ rollback' = s.rollback
    /\ call' = s.call /\ latest' = s.latest /\ viewport' = s.viewport /\ sync' = s.sync /\ dirty' = s.dirty
    /\ said' = s.said /\ odd' = s.odd

Idle(s) == {c \in Call : s.call[c].at = "idle"}
Unused(s) == CHOOSE c \in Idle(s) : TRUE
Restoring(s) == s.restore \in {"first", "second"}

\* hasViewportPresentationOwner
Owned(s) == Idle(s) # Call \/ s.wheel.on \/ s.kb.on

\* Mutant: a scroll that comes meanwhile is forgotten when the owner ends.
FlushNothing(s) == IF s.sync.at # "deferred" \/ Owned(s) THEN s ELSE [s EXCEPT !.sync.live = FALSE]
\* flushDeferredViewportSynchronization
Flush(s) ==
    IF s.sync.at # "deferred" \/ (s.active /\ Owned(s)) THEN s
    ELSE IF ~s.active \/ Restoring(s) THEN [s EXCEPT !.sync.at = "none"]
    ELSE [s EXCEPT !.sync = [at |-> "running", live |-> TRUE], !.latest = "sync", !.viewport = "sync"]

\* A newer navigation, geometry or intent to render fences the renderings under way.
Superseded(r) == [IdleCall EXCEPT !.at = r.at, !.kind = r.kind]
Fenced(s) ==
    [s EXCEPT !.call = [c \in Call |-> Superseded(@[c])],
              !.latest = IF @ \in Call THEN "none" ELSE @, !.viewport = IF @ \in Call THEN "none" ELSE @]
Navigated(s) == [Fenced(s) EXCEPT !.sync.live = FALSE]      \* ++navigationIntent
Intended(s) == [Fenced(s) EXCEPT !.rollback.fresh = FALSE]  \* ++renderIntent

CancelKeyboardView(s) ==
    IF ~s.kb.on THEN s
    ELSE Flush(Intended([s EXCEPT !.view = Of(s.committed), !.rollback = NoRollback, !.kb = NoKey, !.odd.kept = FALSE]))

\* Mutant: the view that was wanted stays.
RollBackNothing(s) == [s EXCEPT !.rollback = NoRollback]
RollBack(s) == IF s.rollback.on THEN [s EXCEPT !.view = s.rollback.to, !.rollback = NoRollback] ELSE s

InvalidateWheelZoom(s) == IF ~s.wheel.on THEN s ELSE Flush(Intended([RollBack(s) EXCEPT !.wheel = NoWheel]))

CancelWheelZoom(s) == InvalidateWheelZoom(CancelKeyboardView(s))

\* recoverFailedPresentation, under a guard that holds; else only a mark is left.
Failed(s, guard) ==
    IF ~guard THEN [s EXCEPT !.dirty = TRUE] ELSE IF s.rollback.fresh THEN RollBack(s) ELSE s

\* The reader has rendered and calls onPage; the scrollbars change with what is shown.
Shows(s, scale, topology, b) ==
    LET mode == IF s.wheel.on /\ scale = s.wheel.target THEN "custom" ELSE s.view.mode IN
    [s EXCEPT !.shown = [scale |-> scale, topology |-> topology], !.box = b,
              !.view = [mode |-> mode, scale |-> scale], !.committed = [mode |-> mode, scale |-> scale, box |-> b],
              !.rollback = NoRollback, !.odd.kept = FALSE]

-----------------------------------------------------------------------------
(* A rendering of the current view: settleCurrentView *)

After == [render |-> "rendered", undo |-> "undone", refit |-> "synchronized"]

\* renderPageWithTransform: what is shown already is not rendered again, nor committed.
Ask(s, c, at, scale, topology) ==
    LET same == s.shown = [scale |-> scale, topology |-> topology] IN
    [s EXCEPT !.odd.kept = IF same THEN s.view.mode # s.committed.mode ELSE @, !.latest = c,
              !.call[c] = [s.call[c] EXCEPT !.scale = scale, !.topology = topology,
                                            !.at = IF same THEN After[at] ELSE at, !.ok = same \/ s.call[c].ok]]

AskPage(s, c, scale) == Ask([s EXCEPT !.call[c].box = s.box], c, "render", scale, TopologyOf(s.view.mode))

\* A custom scale is known without asking for the size of a page.
Begin(s, c, kind) ==
    LET begun == [s EXCEPT !.call[c] = [IdleCall EXCEPT !.at = "transform", !.kind = kind, !.live = TRUE, !.asked = s.view,
                                                        !.box = s.box, !.settled = s.box, !.prior = s.committed],
                           !.odd.both = @ \/ s.wheel.on \/ \E d \in Call : s.call[d].live]
    IN IF s.view.mode = "custom" THEN AskPage(begun, c, s.view.scale) ELSE begun

Settle(s, c, ok) == [s EXCEPT !.call[c].at = "settled", !.call[c].ok = ok]
Undo(s, c) == Ask(s, c, "undo", s.call[c].prior.scale, TopologyOf(s.call[c].prior.mode))
Synchronize(s, c, back) == [s EXCEPT !.call[c] = [s.call[c] EXCEPT !.at = "sync", !.back = back], !.latest = c, !.viewport = c]

\* The guard of each await.
Guard(s, c) ==
    /\ s.call[c].live
    /\ s.call[c].at \in {"transform", "render"} => s.box = s.call[c].box
    /\ s.call[c].at \in {"sync", "refit-size", "refit"} => s.viewport = c

WithCall(s, c, r) == [s EXCEPT !.call[c] = r]
EndsAt(s, c, at, ok) == WithCall(s, c, [s.call[c] EXCEPT !.at = at, !.ok = ok])
FailedAt(s, guard, c, at) == WithCall(Failed(s, guard), c, [s.call[c] EXCEPT !.at = at, !.ok = FALSE])

\* The size of the page is known, or it is not.
AfterTransform(s, c, ok) ==
    IF ok /\ Guard(s, c) THEN AskPage(s, c, FitScale(s.call[c].asked, s.box)) ELSE FailedAt(s, Guard(s, c), c, "rendered")
Transform(c, ok) == call[c].at = "transform" /\ Becomes(AfterTransform(State, c, ok))

Committing(s, c, b) ==
    WithCall(Shows(s, s.call[c].scale, s.call[c].topology, b), c, [s.call[c] EXCEPT !.at = After[s.call[c].at], !.ok = TRUE])
Commit(c, b) ==
    /\ call[c].at \in DOMAIN After /\ latest = c /\ Guard(State, c)
    /\ Becomes(Committing(State, c, b))

AfterRefused(s, c) ==
    CASE s.call[c].at = "undo" -> EndsAt(s, c, "undone", FALSE)
      [] s.call[c].at = "refit" /\ Guard(s, c) -> EndsAt(s, c, "synchronized", FALSE)
      [] s.call[c].at = "refit" /\ ~Guard(s, c) -> FailedAt(s, FALSE, c, "synchronized")
      [] OTHER -> FailedAt(s, Guard(s, c), c, "rendered")
Refused(c) == call[c].at \in DOMAIN After /\ Becomes(AfterRefused(State, c))

\* Fit Page is rendered once more when the content size has changed with it.
AfterRendered(s, c) ==
    CASE ~s.call[c].live \/ (~s.call[c].ok /\ ~s.call[c].corrected) -> Settle(s, c, FALSE)
      [] s.call[c].live /\ ~s.call[c].ok /\ s.call[c].corrected -> Undo(s, c)
      [] s.call[c].live /\ s.call[c].ok /\ ~s.call[c].corrected /\ s.shown.topology = "continuous" -> Synchronize(s, c, FALSE)
      [] OTHER -> IF s.box = s.call[c].settled THEN Settle(s, c, TRUE)
                  ELSE WithCall(s, c, [s.call[c] EXCEPT !.at = "measure", !.asked = s.view, !.settled = s.box])
Rendered(c) == call[c].at = "rendered" /\ Becomes(AfterRendered(State, c))

\* Mutant: whatever the size has become, the first rendering will do.
MeasureOnce(c, ok) == call[c].at = "measure" /\ ok /\ Becomes(Settle(State, c, call[c].live))
AfterMeasure(s, c, ok) ==
    IF ~s.call[c].live THEN Settle(s, c, FALSE)
    ELSE IF ~ok THEN Undo(s, c)
    ELSE IF FitScale(s.call[c].asked, s.box) = s.committed.scale THEN Settle(s, c, TRUE)
    ELSE IF s.call[c].corrected THEN Undo(s, c)
    ELSE AskPage(WithCall(s, c, [s.call[c] EXCEPT !.corrected = TRUE]), c, FitScale(s.call[c].asked, s.box))
Measure(c, ok) == call[c].at = "measure" /\ Becomes(AfterMeasure(State, c, ok))

\* restorePrior
AfterUndone(s, c) ==
    LET r == s.call[c]
        back == [s EXCEPT !.view = Of(r.prior), !.committed = r.prior, !.odd.kept = FALSE]
    IN IF ~r.live THEN Settle(s, c, FALSE)
       ELSE IF ~r.ok THEN Settle([s EXCEPT !.odd.broken = TRUE], c, FALSE)
       ELSE IF r.prior.mode = "fit-page" THEN Settle(back, c, FALSE)
       ELSE Synchronize(back, c, TRUE)
Undone(c) == call[c].at = "undone" /\ Becomes(AfterUndone(State, c))

\* synchronizeViewportForOwner: pages around the viewport, of which another may become the active one.
AfterPages(s, c, page, b) ==
    LET u == IF page THEN Shows(s, s.shown.scale, s.shown.topology, b) ELSE s IN
    IF s.view.mode \in {"continuous-fit", "fit-page"}
    THEN WithCall(u, c, [u.call[c] EXCEPT !.at = "refit-size", !.asked = u.view]) ELSE EndsAt(u, c, "synchronized", TRUE)
Synchronized(c, page, b) ==
    /\ call[c].at = "sync" /\ latest = c /\ Guard(State, c) /\ shown.topology = "continuous"
    /\ ~page => b = box
    /\ Becomes(AfterPages(State, c, page, b))

AfterNoPages(s, c, thrown) ==
    IF thrown THEN Settle(Failed(s, Guard(s, c)), c, FALSE)
    ELSE IF Guard(s, c) THEN EndsAt(s, c, "synchronized", FALSE) ELSE FailedAt(s, FALSE, c, "synchronized")
Unsynchronized(c, thrown) ==
    /\ call[c].at = "sync" \/ (thrown /\ call[c].at = "refit")
    /\ Becomes(AfterNoPages(State, c, thrown))

AfterRefitSize(s, c, ok) ==
    IF ok /\ Guard(s, c) /\ FitScale(s.call[c].asked, s.box) # s.call[c].asked.scale
    THEN Ask(s, c, "refit", FitScale(s.call[c].asked, s.box), s.shown.topology)
    ELSE EndsAt(s, c, "synchronized", TRUE)
RefitSize(c, ok) == call[c].at = "refit-size" /\ Becomes(AfterRefitSize(State, c, ok))

\* What failed after the page was rendered is undone, but not what was undone already.
AfterSynchronized(s, c) ==
    IF ~s.call[c].live \/ s.call[c].back \/ s.call[c].ok
    THEN Settle(s, c, s.call[c].live /\ s.call[c].ok /\ ~s.call[c].back) ELSE Undo(s, c)
Settles(c) == call[c].at = "synchronized" /\ Becomes(AfterSynchronized(State, c))

-----------------------------------------------------------------------------
(* The keyboard: requestKeyboardView and drainKeyboardView *)

Act == [type : {"zoom"}, step : Step] \cup [type : {"custom", "fit-width", "fit-page"}, step : {0}]

\* reader.apply
ViewAfter(v, act) ==
    CASE act.type = "zoom"   -> [mode |-> "custom", scale |-> clampReaderScale(v.scale + act.step)]
      [] act.type = "custom" -> [mode |-> "custom", scale |-> ActualScale]
      [] OTHER               -> [v EXCEPT !.mode = act.type]

\* A zoom is relative to what was committed, whatever the view has become.
ApplyKeyboardAction(s, act) ==
    LET step == IF s.view.scale = s.committed.scale THEN act.step
                ELSE clampReaderScale(s.committed.scale + act.step) - s.view.scale
        a == Intended(Navigated(InvalidateWheelZoom(s)))
    IN [a EXCEPT !.rollback = [on |-> TRUE, fresh |-> TRUE, to |-> Of(a.committed)],
                 !.view = ViewAfter(a.view, [act EXCEPT !.step = step]),
                 !.odd.moved = @ \/ (act.type = "zoom" /\ a.view.scale # s.view.scale)]

\* keyboardZoomFastPath: at a bound of the scale there is nothing to render, unless a single page is shown.
IsFast(s, act) ==
    /\ act.type = "zoom" /\ clampReaderScale(s.committed.scale + act.step) = s.committed.scale
    /\ s.committed.mode # "fit-page"
FastPath(s, act) ==
    IF s.committed.mode = "custom" THEN s
    ELSE [ApplyKeyboardAction(s, act) EXCEPT !.committed.mode = "custom", !.rollback = NoRollback]

Answer(s, by, goal, zoomed) == [s EXCEPT !.said = [by |-> by, goal |-> goal, zoomed |-> zoomed, got |-> Of(s.committed)]]
\* What the keys typed so far make of each scale, and then one more.
Typed(f, step) == [x \in Scale |-> clampReaderScale(f[x] + step)]

MoreTyped(k, step) ==
    [k EXCEPT !.pending = appendZoomIntent(k.pending, step), !.queued = TRUE, !.zoomed = TRUE, !.typed = Typed(k.typed, step)]
KeyOwner(s, act) ==
    [NoKey EXCEPT !.on = TRUE, !.call = Unused(s), !.first = act.type, !.base = s.committed.scale,
                  !.zoomed = (act.type = "zoom"),
                  !.typed = IF act.type = "zoom" THEN Typed(@, act.step) ELSE @]

Request(act) ==
    /\ active /\ events < MaxEvents
    /\ IF act.type = "zoom" /\ kb.on
       THEN Becomes([State EXCEPT !.kb = MoreTyped(kb, act.step)])
       ELSE LET s == CancelKeyboardView(State) IN
            IF IsFast(s, act)
            THEN Becomes(IF s.committed.mode = "custom" THEN FastPath(s, act)
                         ELSE Answer(FastPath(s, act), "keyboard", s.committed.scale, TRUE))
            ELSE /\ Idle(s) # {}
                 /\ Becomes(Begin(ApplyKeyboardAction([s EXCEPT !.kb = KeyOwner(s, act)], act), KeyOwner(s, act).call, "keyboard"))

\* What the first rendering should have made of a mode: the page fits, unless the host's size is changing.
Based(s) ==
    [s.kb EXCEPT !.first = "zoom",
        !.base = CASE s.kb.first = "custom" -> ActualScale
                   [] s.kb.first = "fit-page" /\ "new" \notin s.resize -> FitScale([mode |-> "fit-page", scale |-> Lo], s.box)
                   [] s.kb.first = "fit-width" \/ (s.kb.first = "fit-page" /\ "new" \in s.resize) -> s.committed.scale
                   [] OTHER -> s.kb.base]

\* Mutant: the keys typed meanwhile are applied to the view, not to what was committed.
NextFromFirst(s) == [type |-> "zoom", step |-> resolveZoomIntent(s.kb.base, s.kb.pending) - s.committed.scale]
NextZoom(s) == [type |-> "zoom", step |-> resolveZoomIntent(s.committed.scale, s.kb.pending) - s.committed.scale]

SettleKeyboardView(s, ok) ==
    LET off == Flush([s EXCEPT !.kb = NoKey]) IN
    IF ok THEN Answer(off, "keyboard", s.kb.typed[s.kb.base], s.kb.zoomed) ELSE off

\* drainKeyboardView after renderCurrentView
DrainKeyboardView(s, c, ok) ==
    LET based == [s EXCEPT !.kb = Based(s)]
        rest  == [based EXCEPT !.kb.queued = FALSE, !.kb.pending = NoIntent]
    IN IF ~ok \/ ~s.kb.queued THEN SettleKeyboardView(based, ok)
       ELSE IF IsFast(rest, NextZoom(based)) THEN SettleKeyboardView(FastPath(rest, NextZoom(based)), TRUE)
       ELSE Begin(ApplyKeyboardAction(rest, NextZoom(based)), c, "keyboard")

-----------------------------------------------------------------------------
(* The wheel: zoomAt and drainWheelZoom *)

\* A further step makes the present rendering stale; it is made again for the new target.
Iterate(s) ==
    LET a == Intended(s) IN
    [a EXCEPT !.rollback = [on |-> TRUE, fresh |-> TRUE, to |-> Of(a.committed)],
              !.wheel = [a.wheel EXCEPT !.at = "anchor", !.scale = a.wheel.target, !.fresh = TRUE, !.prior = a.committed]]

AtBound(a, target) ==
    [a EXCEPT !.view = [mode |-> "custom", scale |-> target], !.committed.mode = "custom", !.rollback = NoRollback, !.odd.kept = FALSE]
Zoomed(s, target) ==
    LET a == Intended(Navigated(s)) IN
    IF target = s.committed.scale /\ ~s.wheel.on
    THEN IF s.view.mode = "custom" THEN s ELSE Answer(AtBound(a, target), "wheel", target, TRUE)
    ELSE IF s.wheel.on THEN [a EXCEPT !.wheel.target = target, !.wheel.fresh = FALSE]
    ELSE Iterate([a EXCEPT !.wheel = [NoWheel EXCEPT !.on = TRUE, !.target = target]])
ZoomAt(k) ==
    LET s == CancelKeyboardView(State) IN
    /\ active /\ events < MaxEvents
    /\ Becomes(Zoomed(s, clampReaderScale((IF s.wheel.on THEN s.wheel.target ELSE s.committed.scale) + k)))

WheelRestarts ==
    /\ wheel.on /\ ~wheel.fresh
    /\ Becomes(Iterate(State))

\* setViewTransformAtPointer
Drawn(s, was) ==
    [s EXCEPT !.latest = "wheel", !.wheel.was = was,
              !.wheel.at = IF was = [scale |-> s.wheel.scale, topology |-> "continuous"] THEN "settle" ELSE "render"]
WheelDraws(page, b) ==
    /\ wheel.at = "anchor" /\ wheel.fresh /\ (~page => b = box) /\ (page => shown.topology = "continuous")
    /\ Becomes(Drawn(IF page THEN Shows(State, shown.scale, shown.topology, b) ELSE State, shown))

WheelCommits(b) ==
    /\ wheel.at = "render" /\ wheel.fresh /\ latest = "wheel"
    /\ Becomes([Shows(State, wheel.scale, "continuous", b) EXCEPT !.wheel.at = "settle"])

WheelEnds(s) == Flush([s EXCEPT !.wheel = NoWheel])

\* Mutant: when nothing had to be rendered, the view stays.
WheelKeepsMode(page, b) ==
    /\ wheel.at = "settle" /\ wheel.fresh /\ (~page => b = box)
    /\ Becomes(Answer(WheelEnds(IF page THEN Shows(State, shown.scale, shown.topology, b) ELSE State), "wheel", wheel.target, TRUE))
Arrives(s, page, b) ==
    IF page \/ s.view # [mode |-> "custom", scale |-> s.wheel.target] THEN Shows(s, s.wheel.target, s.shown.topology, b) ELSE s
WheelSettles(page, b) ==
    /\ wheel.at = "settle" /\ wheel.fresh /\ (~page => b = box)
    /\ Becomes(Answer(WheelEnds(Arrives(State, page, b)), "wheel", wheel.target, TRUE))

\* What was shown before is rendered again, and what was committed before is restored.
WheelRestores(s) ==
    WheelEnds([s EXCEPT !.view = Of(s.wheel.prior), !.committed = s.wheel.prior, !.rollback = NoRollback, !.odd.kept = FALSE])

WheelAt(s, at) == [s EXCEPT !.wheel.at = at, !.latest = "wheel"]
WheelFails ==
    /\ wheel.fresh
    /\ \/ wheel.at = "anchor" /\ Becomes(WheelRestores(State))
       \/ wheel.at \in {"render", "settle"} /\ Becomes(WheelAt(State, "back"))

WheelBack(b) ==
    /\ wheel.at = "back" /\ wheel.fresh /\ latest = "wheel"
    /\ shown = wheel.was => b = box
    /\ Becomes(WheelRestores(IF shown = wheel.was THEN State ELSE Shows(State, wheel.was.scale, wheel.was.topology, b)))

WheelBackFails ==
    /\ wheel.at = "back" /\ wheel.fresh
    /\ Becomes(WheelRestores([State EXCEPT !.odd.broken = @ \/ shown # wheel.was]))

-----------------------------------------------------------------------------
(* Scrolling, sizes, searches and activity *)

\* synchronizeViewport of a passive scroll
Scroll ==
    /\ active /\ ~Restoring(State) /\ sync.at = "none" /\ events < MaxEvents
    /\ Becomes(IF Owned(State) THEN [State EXCEPT !.sync = [at |-> "deferred", live |-> TRUE]]
               ELSE Flush([State EXCEPT !.sync.at = "deferred"]))

PassiveOf(s) == s.sync.live /\ s.viewport = "sync" /\ ~Owned(s) /\ ~Restoring(s)
Passed(s, page, b, ok, thrown) ==
    IF page THEN Shows(s, s.shown.scale, s.shown.topology, b)
    ELSE IF ok \/ (PassiveOf(s) /\ ~thrown) THEN s ELSE Failed(s, PassiveOf(s))
PassiveEnds(page, b, ok, thrown) ==
    /\ sync.at = "running" /\ (~page => b = box) /\ (page => ok) /\ (ok => ~thrown)
    /\ ok => PassiveOf(State) /\ latest = "sync" /\ shown.topology = "continuous"
    /\ Becomes([Passed(State, page, b, ok, thrown) EXCEPT !.sync = [at |-> "none", live |-> FALSE]])

\* The host has another size; its observer is told later (main.ts, onReaderResize), and draws in a frame.
SizeSet(s, b, z) == [s EXCEPT !.box = b, !.resize = z]
Outer(b) ==
    /\ events < MaxEvents /\ b \notin Bars[box]
    /\ Becomes(SizeSet(State, b, resize \cup {"new"}))

Noticed(s) ==
    LET f == Fenced(CancelWheelZoom(s)) IN
    IF ~s.active THEN [s EXCEPT !.resize = s.resize \ {"new"}]
    ELSE [f EXCEPT !.resize = {"frame"}, !.viewport = IF Restoring(f) THEN f.viewport ELSE "none"]
Notice == "new" \in resize /\ Becomes(Noticed(State))

Frame ==
    /\ "frame" \in resize /\ Idle(State) # {}
    /\ LET s == [State EXCEPT !.resize = resize \ {"frame"}] IN
       Becomes(IF active THEN Begin(s, Unused(s), "frame") ELSE s)

\* startSearch, cycleSearch
Search ==
    /\ active /\ events < MaxEvents
    /\ Becomes(Navigated(CancelKeyboardView(CancelWheelZoom(State))))

\* settleInactiveAuthority
Deactivated(s) ==
    Flush([Fenced(s) EXCEPT !.active = FALSE, !.restore = "none", !.latest = "none", !.sync.live = FALSE, !.rollback = NoRollback,
              !.dirty = @ \/ \E c \in Call : s.call[c].at \in {"transform", "render"},
              !.call = [c \in Call |-> [Superseded(s.call[c]) EXCEPT !.kind = IF @ = "restore" THEN "none" ELSE @]]])

Deactivate ==
    /\ active /\ events < MaxEvents
    /\ Becomes(Deactivated(CancelWheelZoom(State)))

Activate ==
    /\ ~active /\ events < MaxEvents
    /\ Becomes([State EXCEPT !.active = TRUE, !.restore = "due"])

RestoreAt(s, stage) == [s EXCEPT !.restore = stage]
RestoreBegins ==
    /\ restore = "due" /\ Idle(State) # {}
    /\ Becomes(IF dirty \/ committed.box # box THEN Begin(RestoreAt(State, "first"), Unused(State), "restore")
               ELSE RestoreAt(State, "none"))

RestoreContinues(s, c, ok) ==
    CASE ok -> [s EXCEPT !.restore = "none", !.dirty = FALSE]
      [] ~ok /\ s.restore = "first" -> Begin([s EXCEPT !.restore = "second"], c, "restore")
      [] OTHER -> Deactivated([s EXCEPT !.restore = "none"])

\* A rendering has ended: what waits for its owner goes on.
Ended(s, c) == Flush(WithCall(s, c, IdleCall))
AfterSettled(s, c) ==
    CASE s.call[c].kind = "keyboard" /\ s.kb.on /\ s.kb.call = c -> DrainKeyboardView(Ended(s, c), c, s.call[c].ok)
      [] s.call[c].kind = "restore" -> RestoreContinues(Ended(s, c), c, s.call[c].ok)
      [] OTHER -> Ended(s, c)
Settled(c) == call[c].at = "settled" /\ Becomes(AfterSettled(State, c))

-----------------------------------------------------------------------------
Going == {c \in Call : call[c].at \in {"rendered", "undone", "synchronized", "settled"}}

\* The continuations of what has been settled.
Continue(c) == Rendered(c) \/ Undone(c) \/ Settles(c) \/ Settled(c)

Asked ==
    \/ \E act \in Act : Request(act)
    \/ \E k \in Step : ZoomAt(k)
    \/ Scroll \/ Search \/ Deactivate \/ Activate
    \/ \E b \in Box : Outer(b)

Render(c) ==
    \/ \E ok \in BOOLEAN : Transform(c, ok) \/ Measure(c, ok) \/ RefitSize(c, ok) \/ Unsynchronized(c, ok)
    \/ Refused(c)
    \/ \E b \in Bars[box] : Commit(c, b) \/ \E page \in BOOLEAN : Synchronized(c, page, b)

Wheel ==
    \/ WheelRestarts \/ WheelFails \/ WheelBackFails
    \/ \E b \in Bars[box] :
         WheelCommits(b) \/ WheelBack(b) \/ \E page \in BOOLEAN : WheelDraws(page, b) \/ WheelSettles(page, b)

Scheduled ==
    \/ Wheel \/ Notice \/ Frame \/ RestoreBegins
    \/ \E c \in Call : Render(c)
    \/ \E b \in Bars[box], page, ok, thrown \in BOOLEAN : PassiveEnds(page, b, ok, thrown)

Next ==
    IF Going # {} THEN \E c \in Going : Continue(c) /\ UNCHANGED events
    ELSE \/ Asked /\ events' = events + 1
         \/ Scheduled /\ UNCHANGED events

Spec == Init /\ [][Next]_vars

-----------------------------------------------------------------------------
(* Properties *)

Topology == {"single-page", "continuous"}
View == [mode : Mode, scale : Scale]
Committed == [mode : Mode, scale : Scale, box : Box]
Stages == {"idle", "transform", "render", "rendered", "sync", "refit-size", "refit", "synchronized",
           "measure", "undo", "undone", "settled"}

CallRecord == [at : Stages, kind : {"none", "keyboard", "frame", "restore"}, live : BOOLEAN, ok : BOOLEAN,
               asked : View, box : Box, settled : Box, corrected : BOOLEAN, back : BOOLEAN, prior : Committed,
               scale : Scale, topology : Topology]
KeyRecord == [on : BOOLEAN, call : Call, pending : Intent, queued : BOOLEAN,
              first : {"none", "zoom", "custom", "fit-width", "fit-page"}, base : Scale, zoomed : BOOLEAN,
              typed : [Scale -> Scale]]
WheelRecord == [on : BOOLEAN, at : {"none", "anchor", "render", "settle", "back"}, target : Scale, scale : Scale,
                fresh : BOOLEAN, prior : Committed, was : [scale : Scale, topology : Topology]]
States ==
    [view : View, committed : Committed, shown : [scale : Scale, topology : Topology], box : Box,
     resize : SUBSET {"new", "frame"}, active : BOOLEAN, restore : {"none", "due", "first", "second"},
     kb : KeyRecord, wheel : WheelRecord, rollback : [on : BOOLEAN, fresh : BOOLEAN, to : View],
     call : [Call -> CallRecord], latest : {"none", "sync", "wheel"} \cup Call, viewport : {"none", "sync"} \cup Call,
     sync : [at : {"none", "deferred", "running"}, live : BOOLEAN], dirty : BOOLEAN,
     said : [by : {"none", "keyboard", "wheel"}, goal : Scale, zoomed : BOOLEAN, got : View],
     odd : [broken : BOOLEAN, kept : BOOLEAN, both : BOOLEAN, moved : BOOLEAN]]

\* Every variable has the values its comment says.
TypeOK == [State EXCEPT !.said = said] \in States /\ events \in 0..MaxEvents

Quiet == active /\ restore = "none" /\ resize = {} /\ ~Owned(State) /\ sync.at = "none"

Reported == odd.broken \/ odd.both

\* Whatever overtakes whatever, the scale that the shell is told was committed is the one displayed;
\* and when nothing is under way, the view the reader wants is that one, in the mode that was
\* committed: no cancelled, failed or superseded change of the view is left behind (restorePrior,
\* cancelKeyboardView, invalidateWheelZoom, recoverFailedPresentation).  A fitted mode reckons its scale
\* anew, whatever the scale it was left with.
PresentationIsSound ==
    Reported \/
        /\ shown.scale = committed.scale
        /\ Quiet /\ ~dirty => /\ view.mode = committed.mode \/ odd.kept
                              /\ view.mode = "custom" /\ ~odd.moved => view.scale = committed.scale

\* A scroll that came while the view was changed waits for the change alone: when its owner has ended it is
\* taken, or dropped because the tab has left the foreground (flushDeferredViewportSynchronization).
DeferredIsOwned == sync.at = "deferred" => active /\ Owned(State)

\* When the keyboard or the wheel is told that its zoom was done, the committed scale is the one the steps
\* lead to, each clamped, from the scale before them, and the mode is custom (drainKeyboardView, zoomAt).
AnswersAreTrue ==
    said.by # "none" /\ ~Reported /\ ~odd.moved => said.got.scale = said.goal /\ (said.zoomed => said.got.mode = "custom" \/ odd.kept)
=============================================================================
