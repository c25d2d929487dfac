-------------------------- MODULE PdfTabView_proofs --------------------------
(***************************************************************************)
(* Proofs about the view of a tab: whatever overtakes whatever, the shell  *)
(* displays what was committed, a scroll waits for an owner that is at     *)
(* work, and a zoom that is answered has come to the scale it was typed    *)
(* to.  The handlers are functions of the state, and so are the lemmas:    *)
(* each handler takes a good state to a good one.  What a handler changes  *)
(* is stated first; that the invariant survives it, next; and the steps of *)
(* the specification come last.                                            *)
(***************************************************************************)
EXTENDS PdfTabView, TLAPS

-----------------------------------------------------------------------------
(* A summary of constant size stands for any number of steps. *)

\* An empty summary changes no scale (resolveZoomIntent).
THEOREM EmptySummary == NoIntent \in Intent /\ \A base \in Scale : resolveZoomIntent(base, NoIntent) = base
  BY ScaleAssumption DEF NoIntent, Intent, Scale, resolveZoomIntent, clampReaderScale, Higher, Lower

\* Whatever was summarized before, one more step acts on every scale as if it were applied, and
\* clamped, after the steps before it; and the summary stays one (appendZoomIntent).
THEOREM SummaryIsExact ==
    ASSUME NEW p \in Intent, NEW step \in Int
    PROVE  /\ appendZoomIntent(p, step) \in Intent
           /\ \A base \in Scale :
                resolveZoomIntent(base, appendZoomIntent(p, step)) = clampReaderScale(resolveZoomIntent(base, p) + step)
<1> DEFINE q == appendZoomIntent(p, step)
<1>1. /\ p.lower \in Int /\ p.upper \in Int /\ p.factor \in Int
      /\ Lo <= p.lower /\ p.lower <= p.upper /\ p.upper <= Hi
      /\ p.lower - Hi <= p.factor /\ p.factor <= p.upper - Lo
  BY ScaleAssumption DEF Intent, Scale
<1>2. /\ q.lower = clampReaderScale(p.lower + step)
      /\ q.upper = clampReaderScale(p.upper + step)
      /\ q.factor = Higher(q.lower - Hi, Lower(q.upper - Lo, p.factor + step))
      /\ q = [lower |-> q.lower, upper |-> q.upper, factor |-> q.factor]
  BY DEF appendZoomIntent
<1>3. /\ q.lower \in Scale /\ q.upper \in Scale /\ q.factor \in Int /\ q.lower <= q.upper
      /\ q.lower - Hi <= q.factor /\ q.factor <= q.upper - Lo
  BY <1>1, <1>2, ScaleAssumption DEF clampReaderScale, Higher, Lower, Scale
<1>4. q \in Intent
  BY <1>2, <1>3 DEF Intent
<1>5. ASSUME NEW base \in Scale
      PROVE  resolveZoomIntent(base, q) = clampReaderScale(resolveZoomIntent(base, p) + step)
  <2>1. resolveZoomIntent(base, p) = Higher(p.lower, Lower(p.upper, base + p.factor))
    BY ScaleAssumption DEF resolveZoomIntent, clampReaderScale, Higher, Lower, Scale
  <2>2. resolveZoomIntent(base, q) = Higher(q.lower, Lower(q.upper, base + q.factor))
    BY ScaleAssumption DEF resolveZoomIntent, clampReaderScale, Higher, Lower, Scale
  <2> QED
    BY <1>1, <1>2, <1>3, <2>1, <2>2, ScaleAssumption DEF clampReaderScale, Higher, Lower, Scale
<1> QED
  BY <1>4, <1>5

-----------------------------------------------------------------------------
(* The invariant *)

Fine(s) == ~s.odd.broken /\ ~s.odd.both

\* What the reader wants is what was committed, up to the scale of a mode that is fitted anew.
Agrees(s) ==
    /\ s.view.mode = s.committed.mode \/ s.odd.kept
    /\ s.view.mode = "custom" => s.view.scale = s.committed.scale

DeferredIsAwaited(s) == s.sync.at = "deferred" => s.active /\ Owned(s)

\* Who may be at work.
Owners(s) ==
    /\ s.wheel.on <=> s.wheel.at # "none"
    /\ s.wheel.on => ~s.kb.on
    /\ s.wheel.fresh => s.wheel.scale = s.wheel.target
    /\ s.kb.on => s.call[s.kb.call].kind = "keyboard" /\ s.call[s.kb.call].at # "idle" /\ s.kb.first # "none"
    /\ s.restore # "none" => s.active
    /\ \A c \in Call :
         /\ s.call[c].live => s.active /\ s.call[c].at # "idle"
         /\ s.call[c].back => s.call[c].at \in {"sync", "refit-size", "refit", "synchronized", "settled"}
         /\ s.call[c].at = "settled" /\ s.call[c].ok => s.call[c].live /\ ~s.call[c].back

\* One rendering at a time, unless both.
Alone(s) == \A c \in Call : s.call[c].live => ~s.wheel.on /\ \A d \in Call : s.call[d].live => d = c

Displayed(s) ==
    /\ s.shown.scale = s.committed.scale
    /\ s.wheel.at = "anchor" => s.shown.scale = s.wheel.prior.scale
    /\ s.wheel.at \in {"render", "settle", "back"} => s.wheel.was.scale = s.wheel.prior.scale
    /\ s.wheel.at = "settle" => s.shown = [scale |-> s.wheel.scale, topology |-> "continuous"]

\* The rendering c, which is not fenced.
Sure(r) == r.corrected \/ r.at \notin {"transform", "render", "rendered", "settled"} \/ (r.at \in {"rendered", "settled"} /\ r.ok)
Rendering(s, c) ==
    LET r == s.call[c] IN
    r.live =>
      /\ r.at = "transform" => r.asked = s.view /\ s.view.mode # "custom"
      /\ r.at = "render" /\ s.view.mode = "custom" => r.scale = s.view.scale
      /\ r.at \in {"refit-size", "refit"} => s.view.mode # "custom"
      /\ r.at = "measure" => r.asked = s.view
      /\ r.at = "undo" => r.scale = r.prior.scale
      /\ r.at = "undone" /\ r.ok => s.shown.scale = r.prior.scale
      /\ s.rollback.on => Of(r.prior) = s.rollback.to
      /\ Sure(r) => Agrees(s)

Pending(s) ==
    /\ s.kb.on /\ s.rollback.on /\ s.rollback.fresh
    /\ s.call[s.kb.call].live /\ s.call[s.kb.call].at \in {"transform", "render"}

Wanted(s) ==
    /\ s.view.mode = s.committed.mode \/ s.odd.kept \/ s.dirty \/ Pending(s)
    /\ Agrees(s) \/ s.dirty \/ Pending(s) \/ s.odd.moved
    /\ s.rollback.on => s.rollback.to = Of(s.committed)
    /\ s.view.mode = "custom" /\ s.view.scale = s.committed.scale /\ s.shown.topology = "continuous" =>
         s.committed.mode = "custom" \/ s.odd.kept

\* The rendering of the keyboard may still succeed.
Hopeful(r) == r.live /\ r.at \notin {"undo", "undone"} /\ ~r.back /\ (r.at \in {"rendered", "synchronized", "settled"} => r.ok)

Typing(s) ==
    s.kb.on /\ Hopeful(s.call[s.kb.call]) =>
      /\ ~s.kb.queued => s.kb.pending = NoIntent
      /\ s.kb.queued => s.kb.zoomed
      /\ s.kb.zoomed /\ s.kb.first # "zoom" => s.kb.queued
      /\ s.kb.first = "zoom" => /\ s.view.mode = "custom" /\ s.kb.zoomed
                                /\ s.kb.typed[s.kb.base] = resolveZoomIntent(s.view.scale, s.kb.pending)
      /\ s.kb.first = "custom" => s.view = [mode |-> "custom", scale |-> ActualScale]
      /\ s.kb.first \in {"fit-width", "fit-page"} => s.view.mode = s.kb.first
      /\ s.kb.first # "zoom" => \A x \in Scale : s.kb.typed[x] = resolveZoomIntent(x, s.kb.pending)

PageScale(b) == FitScale([mode |-> "fit-page", scale |-> Lo], b)
FittingPage(s) ==
    s.kb.on /\ s.kb.first = "fit-page" /\ Hopeful(s.call[s.kb.call]) =>
      LET r == s.call[s.kb.call] IN
      /\ r.at \in {"transform", "render", "rendered", "measure", "settled"}
      /\ r.at = "render" => r.scale = PageScale(r.box) /\ r.topology = "single-page"
      /\ r.at = "rendered" => s.shown.topology = "single-page"
      /\ "new" \notin s.resize =>
           /\ r.at \in {"transform", "render"} => r.box = s.box /\ r.settled = r.box
           /\ r.at = "rendered" => s.committed.scale = PageScale(r.settled)
           /\ r.at = "measure" => r.settled = s.box
           /\ r.at = "settled" => s.committed.scale = PageScale(s.box)

Presentation(s) == Alone(s) /\ Displayed(s) /\ Wanted(s) /\ \A c \in Call : Rendering(s, c)
Answers(s) == ~s.odd.moved => Typing(s) /\ FittingPage(s)
Sound(s) == Owners(s) /\ (Fine(s) => Presentation(s) /\ Answers(s))

-----------------------------------------------------------------------------
(* What the pieces of the handlers leave alone *)

LEMMA Constants ==
    /\ \A x \in Int : clampReaderScale(x) \in Scale
    /\ \A x \in Scale : clampReaderScale(x) = x
    /\ Lo \in Scale /\ NoIntent \in Intent /\ Scale \subseteq Int
    /\ ActualScale \in Scale
  BY ScaleAssumption, ViewAssumption, EmptySummary DEF Scale, clampReaderScale, Higher, Lower

LEMMA ScaleFits == ASSUME NEW v \in View, NEW b \in Box PROVE FitScale(v, b) \in Scale
  BY Constants, ViewAssumption DEF FitScale, View, Mode

LEMMA Defaults ==
    ASSUME Box # {}
    PROVE  /\ NoCommit \in Committed /\ IdleCall \in CallRecord /\ NoKey \in KeyRecord
           /\ NoWheel \in WheelRecord /\ NoRollback \in [on : BOOLEAN, fresh : BOOLEAN, to : View]
           /\ NothingSaid \in [by : {"none", "keyboard", "wheel"}, goal : Scale, zoomed : BOOLEAN, got : View]
<1>1. (CHOOSE b \in Box : TRUE) \in Box
  OBVIOUS
<1>2. (CHOOSE c \in Call : TRUE) \in Call
  BY ViewAssumption
<1>3. NoCommit \in Committed
  BY <1>1, Constants DEF NoCommit, Committed, Mode
<1>4. Of(NoCommit) \in View
  BY <1>3 DEF Of, View, Committed
<1>5. IdleCall \in CallRecord
  BY <1>1, <1>3, <1>4, Constants DEF IdleCall, CallRecord, Stages, Topology, NoCommit
<1>6. NoKey \in KeyRecord
  BY <1>2, Constants DEF NoKey, KeyRecord
<1>7. NoWheel \in WheelRecord
  BY <1>3, Constants DEF NoWheel, WheelRecord, Topology
<1>8. NoRollback \in [on : BOOLEAN, fresh : BOOLEAN, to : View]
  BY <1>4 DEF NoRollback
<1>9. NothingSaid \in [by : {"none", "keyboard", "wheel"}, goal : Scale, zoomed : BOOLEAN, got : View]
  BY <1>4, Constants DEF NothingSaid
<1> QED
  BY <1>3, <1>5, <1>6, <1>7, <1>8, <1>9

Unmoved(s, t) ==
    /\ t.view = s.view /\ t.committed = s.committed /\ t.shown = s.shown /\ t.box = s.box /\ t.resize = s.resize
    /\ t.active = s.active /\ t.restore = s.restore /\ t.kb = s.kb /\ t.wheel = s.wheel
    /\ t.dirty = s.dirty /\ t.odd = s.odd

\* Everything under way is fenced.
Stopped(s, t) ==
    \A c \in Call : /\ t.call[c].at = s.call[c].at /\ t.call[c].kind = s.call[c].kind
                   /\ ~t.call[c].live /\ ~t.call[c].ok /\ ~t.call[c].back

LEMMA Flushed ==
    ASSUME NEW s \in States
    PROVE  /\ Flush(s) \in States
           /\ Unmoved(s, Flush(s)) /\ Flush(s).said = s.said /\ Flush(s).call = s.call /\ Flush(s).rollback = s.rollback
           /\ DeferredIsAwaited(Flush(s))
<1>1. CASE s.sync.at # "deferred" \/ (s.active /\ Owned(s))
  BY <1>1 DEF Flush, Unmoved, DeferredIsAwaited
<1>2. CASE ~(s.sync.at # "deferred" \/ (s.active /\ Owned(s)))
  BY <1>2 DEF Flush, Unmoved, DeferredIsAwaited, States
<1> QED
  BY <1>1, <1>2

LEMMA SupersededCall ==
    ASSUME NEW r \in CallRecord, Box # {}
    PROVE  /\ Superseded(r) \in CallRecord
           /\ Superseded(r).at = r.at /\ Superseded(r).kind = r.kind
           /\ ~Superseded(r).live /\ ~Superseded(r).ok /\ ~Superseded(r).back
  BY Defaults DEF Superseded, IdleCall, CallRecord

LEMMA FencedCalls ==
    ASSUME NEW s \in States
    PROVE  /\ Fenced(s) \in States
           /\ Unmoved(s, Fenced(s)) /\ Fenced(s).said = s.said /\ Fenced(s).rollback = s.rollback /\ Fenced(s).sync = s.sync
           /\ Stopped(s, Fenced(s))
<1>1. Box # {}
  BY DEF States
<1>2. [c \in Call |-> Superseded(s.call[c])] \in [Call -> CallRecord]
  BY <1>1, SupersededCall DEF States
<1>3. Fenced(s) \in States /\ Unmoved(s, Fenced(s)) /\ Fenced(s).said = s.said
      /\ Fenced(s).rollback = s.rollback /\ Fenced(s).sync = s.sync
      /\ Fenced(s).call = [c \in Call |-> Superseded(s.call[c])]
  BY <1>2 DEF Fenced, Unmoved, States
<1>4. Stopped(s, Fenced(s))
  BY <1>1, <1>3, SupersededCall DEF Stopped, States
<1> QED
  BY <1>3, <1>4

LEMMA SyncFenced ==
    ASSUME NEW f \in States, NEW t, t = [f EXCEPT !.sync.live = FALSE]
    PROVE  /\ t \in States /\ Unmoved(f, t) /\ t.call = f.call /\ t.said = f.said /\ t.rollback = f.rollback
           /\ t.sync.at = f.sync.at
  BY DEF States, Unmoved

LEMMA NavigatedCalls ==
    ASSUME NEW s \in States
    PROVE  /\ Navigated(s) \in States
           /\ Unmoved(s, Navigated(s)) /\ Navigated(s).said = s.said /\ Navigated(s).rollback = s.rollback
           /\ Navigated(s).sync.at = s.sync.at /\ Stopped(s, Navigated(s))
<1> DEFINE f == Fenced(s)  n == Navigated(s)
<1>1. f \in States /\ Unmoved(s, f) /\ f.said = s.said /\ f.rollback = s.rollback /\ f.sync = s.sync /\ Stopped(s, f)
  BY FencedCalls
<1>2. /\ n \in States /\ Unmoved(f, n) /\ n.call = f.call /\ n.said = f.said /\ n.rollback = f.rollback
      /\ n.sync.at = f.sync.at
  BY <1>1, SyncFenced DEF Navigated
<1> HIDE DEF f, n
<1>3. Unmoved(s, n) /\ n.said = s.said /\ n.rollback = s.rollback /\ n.sync.at = s.sync.at /\ Stopped(s, n)
  BY <1>1, <1>2 DEF Unmoved, Stopped
<1> QED
  BY <1>2, <1>3 DEF n

LEMMA RollbackAged ==
    ASSUME NEW f \in States, NEW t, t = [f EXCEPT !.rollback.fresh = FALSE]
    PROVE  /\ t \in States /\ Unmoved(f, t) /\ t.call = f.call /\ t.said = f.said /\ t.sync = f.sync
           /\ t.rollback = [f.rollback EXCEPT !.fresh = FALSE]
           /\ t.rollback.on = f.rollback.on /\ t.rollback.to = f.rollback.to
  BY DEF States, Unmoved

LEMMA IntendedCalls ==
    ASSUME NEW s \in States
    PROVE  /\ Intended(s) \in States /\ Unmoved(s, Intended(s)) /\ Intended(s).said = s.said
           /\ Intended(s).rollback.on = s.rollback.on /\ Intended(s).rollback.to = s.rollback.to
           /\ Intended(s).sync = s.sync /\ Stopped(s, Intended(s))
  BY FencedCalls, RollbackAged DEF Intended, Unmoved, Stopped

\* What the invariant depends on.
LEMMA SameIsSound ==
    ASSUME NEW s, NEW t, Unmoved(s, t), t.call = s.call, t.rollback = s.rollback, Sound(s)
    PROVE  Sound(t)
<1>1. Owners(t)
  BY DEF Sound, Owners, Unmoved
<1>2. ASSUME Fine(t) PROVE Presentation(t)
  BY <1>2 DEF Sound, Unmoved, Fine, Presentation, Alone, Displayed, Wanted, Pending, Rendering, Agrees
<1>3. ASSUME Fine(t) PROVE Answers(t)
  BY <1>3 DEF Sound, Unmoved, Fine, Answers, Typing, FittingPage
<1> QED
  BY <1>1, <1>2, <1>3 DEF Sound

LEMMA StoppedIsSound ==
    ASSUME NEW s, NEW t, Unmoved(s, t), Stopped(s, t), t.rollback.on = s.rollback.on, t.rollback.to = s.rollback.to,
           s.kb.call \in Call, Sound(s), Agrees(s) \/ s.dirty \/ ~s.kb.on
    PROVE  Sound(t)
<1>1. Owners(t)
  BY DEF Sound, Owners, Unmoved, Stopped
<1>2. ASSUME Fine(t) PROVE Presentation(t)
  <2>1. Fine(s) /\ Presentation(s)
    BY <1>2 DEF Sound, Unmoved, Fine
  <2>2. Alone(t) /\ \A c \in Call : Rendering(t, c)
    BY DEF Stopped, Alone, Rendering
  <2>3. Displayed(t)
    BY <2>1 DEF Presentation, Displayed, Unmoved
  <2>4. Wanted(t)
    BY <2>1 DEF Presentation, Wanted, Pending, Unmoved, Agrees
  <2> QED
    BY <2>2, <2>3, <2>4 DEF Presentation
<1>3. Answers(t)
  BY DEF Unmoved, Stopped, Answers, Typing, FittingPage, Hopeful
<1> QED
  BY <1>1, <1>2, <1>3 DEF Sound

-----------------------------------------------------------------------------
(* What cancels *)

CancelledFrom(s, t) ==
    /\ Stopped(s, t)
    /\ t.view = Of(s.committed) /\ ~t.rollback.on /\ t.kb = NoKey /\ t.odd = [s.odd EXCEPT !.kept = FALSE]
    /\ t.committed = s.committed /\ t.shown = s.shown /\ t.box = s.box /\ t.resize = s.resize
    /\ t.active = s.active /\ t.restore = s.restore /\ t.wheel = s.wheel /\ t.dirty = s.dirty /\ t.said = s.said

LEMMA Cancelled ==
    ASSUME NEW s \in States, s.kb.on
    PROVE  /\ CancelKeyboardView(s) \in States /\ DeferredIsAwaited(CancelKeyboardView(s))
           /\ CancelledFrom(s, CancelKeyboardView(s))
<1> DEFINE a == [s EXCEPT !.view = Of(s.committed), !.rollback = NoRollback, !.kb = NoKey, !.odd.kept = FALSE]
<1>1. Box # {} /\ Of(s.committed) \in View
  BY DEF States, Of, Committed, View
<1>2. /\ a \in States /\ a.view = Of(s.committed) /\ ~a.rollback.on /\ a.kb = NoKey /\ a.odd = [s.odd EXCEPT !.kept = FALSE]
      /\ a.call = s.call /\ a.committed = s.committed /\ a.shown = s.shown /\ a.box = s.box /\ a.resize = s.resize
      /\ a.active = s.active /\ a.restore = s.restore /\ a.wheel = s.wheel /\ a.dirty = s.dirty /\ a.said = s.said
  BY <1>1, Defaults DEF States, NoRollback
<1> HIDE DEF a
<1> DEFINE b == Intended(a)
<1>3. b \in States /\ Unmoved(a, b) /\ b.said = a.said /\ b.rollback.on = a.rollback.on /\ Stopped(a, b)
  BY <1>2, IntendedCalls
<1>4. CancelKeyboardView(s) = Flush(b)
  BY DEF CancelKeyboardView, a
<1>5. ~b.rollback.on
  BY <1>2, <1>3
<1> HIDE DEF b
<1> DEFINE t == Flush(b)
<1>6. t \in States /\ Unmoved(b, t) /\ t.said = b.said /\ t.call = b.call /\ t.rollback = b.rollback /\ DeferredIsAwaited(t)
  BY <1>3, Flushed
<1> HIDE DEF t
<1>7. CancelledFrom(s, t)
  BY <1>2, <1>3, <1>5, <1>6 DEF Unmoved, Stopped, CancelledFrom
<1> QED
  BY <1>4, <1>6, <1>7 DEF t

LEMMA CancelIsSound ==
    ASSUME NEW s \in States, Sound(s), NEW t, t = CancelKeyboardView(s)
    PROVE  t \in States /\ Sound(t) /\ ~t.kb.on /\ (DeferredIsAwaited(s) => DeferredIsAwaited(t))
<1>1. CASE ~s.kb.on
  BY <1>1 DEF CancelKeyboardView
<1>2. CASE s.kb.on
  <2>0. t \in States /\ DeferredIsAwaited(t) /\ CancelledFrom(s, t)
    BY <1>2, Cancelled
  <2>1. ~t.kb.on
    BY <2>0 DEF NoKey, CancelledFrom
  <2>2. Owners(t)
    BY <2>0, <2>1 DEF Sound, Owners, Stopped, CancelledFrom
  <2>3. ASSUME Fine(t) PROVE Presentation(t)
    <3>1. Fine(s) /\ Presentation(s)
      BY <2>0, <2>3 DEF Sound, Fine, States, CancelledFrom
    <3>2. Alone(t) /\ \A c \in Call : Rendering(t, c)
      BY <2>0 DEF CancelledFrom, Stopped, Alone, Rendering
    <3>3. Displayed(t)
      BY <2>0, <3>1 DEF Presentation, Displayed, CancelledFrom
    <3>4. Wanted(t)
      BY <2>0 DEF Wanted, Agrees, Of, CancelledFrom
    <3> QED
      BY <3>2, <3>3, <3>4 DEF Presentation
  <2>4. Answers(t)
    BY <2>1 DEF Answers, Typing, FittingPage
  <2> QED
    BY <2>0, <2>1, <2>2, <2>3, <2>4 DEF Sound
<1> QED
  BY <1>1, <1>2

LEMMA RolledBack ==
    ASSUME NEW s \in States
    PROVE  /\ RollBack(s) \in States
           /\ RollBack(s).view = (IF s.rollback.on THEN s.rollback.to ELSE s.view) /\ ~RollBack(s).rollback.on
           /\ RollBack(s).committed = s.committed /\ RollBack(s).shown = s.shown /\ RollBack(s).box = s.box
           /\ RollBack(s).resize = s.resize /\ RollBack(s).active = s.active /\ RollBack(s).restore = s.restore
           /\ RollBack(s).kb = s.kb /\ RollBack(s).wheel = s.wheel /\ RollBack(s).call = s.call
           /\ RollBack(s).dirty = s.dirty /\ RollBack(s).odd = s.odd /\ RollBack(s).said = s.said /\ RollBack(s).sync = s.sync
<1>1. Box # {}
  BY DEF States
<1>2. CASE s.rollback.on
  BY <1>1, <1>2, Defaults DEF RollBack, States, NoRollback
<1>3. CASE ~s.rollback.on
  BY <1>3 DEF RollBack
<1> QED
  BY <1>2, <1>3

InvalidatedFrom(s, t) ==
    /\ Stopped(s, t)
    /\ t.view = (IF s.rollback.on THEN s.rollback.to ELSE s.view) /\ ~t.rollback.on /\ t.wheel = NoWheel
    /\ t.committed = s.committed /\ t.shown = s.shown /\ t.box = s.box /\ t.resize = s.resize
    /\ t.active = s.active /\ t.restore = s.restore /\ t.kb = s.kb /\ t.dirty = s.dirty /\ t.odd = s.odd /\ t.said = s.said

LEMMA WheelDropped ==
    ASSUME NEW s \in States, NEW t, t = [s EXCEPT !.wheel = NoWheel]
    PROVE  /\ t \in States /\ t.wheel = NoWheel
           /\ t.view = s.view /\ t.committed = s.committed /\ t.shown = s.shown /\ t.box = s.box /\ t.resize = s.resize
           /\ t.active = s.active /\ t.restore = s.restore /\ t.kb = s.kb /\ t.rollback = s.rollback /\ t.call = s.call
           /\ t.dirty = s.dirty /\ t.odd = s.odd /\ t.said = s.said /\ t.sync = s.sync
<1>1. Box # {}
  BY DEF States
<1>2. NoWheel \in WheelRecord
  BY <1>1, Defaults
<1> QED
  BY <1>2 DEF States

LEMMA Invalidated ==
    ASSUME NEW s \in States, s.wheel.on
    PROVE  /\ InvalidateWheelZoom(s) \in States /\ DeferredIsAwaited(InvalidateWheelZoom(s))
           /\ InvalidatedFrom(s, InvalidateWheelZoom(s))
<1> DEFINE a == RollBack(s)  b == [a EXCEPT !.wheel = NoWheel]  d == Intended(b)  t == Flush(d)
<1>1. /\ a \in States /\ a.view = (IF s.rollback.on THEN s.rollback.to ELSE s.view) /\ ~a.rollback.on
      /\ a.committed = s.committed /\ a.shown = s.shown /\ a.box = s.box /\ a.resize = s.resize
      /\ a.active = s.active /\ a.restore = s.restore /\ a.kb = s.kb /\ a.call = s.call
      /\ a.dirty = s.dirty /\ a.odd = s.odd /\ a.said = s.said
  BY RolledBack
<1>2. /\ b \in States /\ b.wheel = NoWheel
      /\ b.view = a.view /\ b.committed = a.committed /\ b.shown = a.shown /\ b.box = a.box /\ b.resize = a.resize
      /\ b.active = a.active /\ b.restore = a.restore /\ b.kb = a.kb /\ b.rollback = a.rollback /\ b.call = a.call
      /\ b.dirty = a.dirty /\ b.odd = a.odd /\ b.said = a.said
  BY <1>1, WheelDropped
<1>3. d \in States /\ Unmoved(b, d) /\ d.said = b.said /\ d.rollback.on = b.rollback.on /\ Stopped(b, d)
  BY <1>2, IntendedCalls
<1>4. t \in States /\ Unmoved(d, t) /\ t.said = d.said /\ t.call = d.call /\ t.rollback = d.rollback /\ DeferredIsAwaited(t)
  BY <1>3, Flushed
<1>5. InvalidateWheelZoom(s) = t
  BY DEF InvalidateWheelZoom
<1> HIDE DEF a, b, d, t
<1>6. InvalidatedFrom(s, t)
  BY <1>1, <1>2, <1>3, <1>4 DEF Unmoved, Stopped, InvalidatedFrom
<1> QED
  BY <1>4, <1>5, <1>6

LEMMA InvalidateIsSound ==
    ASSUME NEW s \in States, Sound(s), NEW t, t = InvalidateWheelZoom(s)
    PROVE  /\ t \in States /\ Sound(t) /\ ~t.wheel.on /\ (DeferredIsAwaited(s) => DeferredIsAwaited(t))
           /\ t.kb = s.kb
<1>1. CASE ~s.wheel.on
  BY <1>1 DEF InvalidateWheelZoom
<1>2. CASE s.wheel.on
  <2>0. t \in States /\ DeferredIsAwaited(t) /\ InvalidatedFrom(s, t)
    BY <1>2, Invalidated
  <2>1. ~t.wheel.on /\ t.wheel.at = "none" /\ ~t.wheel.fresh /\ ~t.kb.on
    BY <1>2, <2>0 DEF NoWheel, InvalidatedFrom, Sound, Owners
  <2>2. Owners(t)
    BY <2>0, <2>1 DEF Sound, Owners, Stopped, InvalidatedFrom
  <2>3. ASSUME Fine(t) PROVE Presentation(t)
    <3>1. Fine(s) /\ Presentation(s)
      BY <2>0, <2>3 DEF Sound, Fine, InvalidatedFrom
    <3>2. Alone(t) /\ \A c \in Call : Rendering(t, c)
      BY <2>0 DEF InvalidatedFrom, Stopped, Alone, Rendering
    <3>3. Displayed(t)
      BY <2>0, <2>1, <3>1 DEF Presentation, Displayed, InvalidatedFrom
    <3>4. Wanted(t)
      BY <2>0, <2>1, <3>1 DEF Presentation, Wanted, Pending, Agrees, Of, InvalidatedFrom
    <3> QED
      BY <3>2, <3>3, <3>4 DEF Presentation
  <2>4. Answers(t)
    BY <2>1 DEF Answers, Typing, FittingPage
  <2>5. t.kb = s.kb
    BY <2>0 DEF InvalidatedFrom
  <2> QED
    BY <2>0, <2>1, <2>2, <2>3, <2>4, <2>5 DEF Sound
<1> QED
  BY <1>1, <1>2

LEMMA CancelWheelIsSound ==
    ASSUME NEW s \in States, Sound(s), NEW t, t = CancelWheelZoom(s)
    PROVE  /\ t \in States /\ Sound(t) /\ ~t.kb.on /\ ~t.wheel.on
           /\ (DeferredIsAwaited(s) => DeferredIsAwaited(t))
<1> DEFINE k == CancelKeyboardView(s)
<1>1. k \in States /\ Sound(k) /\ ~k.kb.on /\ (DeferredIsAwaited(s) => DeferredIsAwaited(k))
  BY CancelIsSound
<1>2. t = InvalidateWheelZoom(k)
  BY DEF CancelWheelZoom
<1> HIDE DEF k
<1> QED
  BY <1>1, <1>2, InvalidateIsSound

-----------------------------------------------------------------------------
(* A rendering that ends *)

\* Fields that Failed leaves alone.
FailedFrom(s, t) ==
    /\ t.call = s.call /\ t.committed = s.committed /\ t.shown = s.shown /\ t.box = s.box /\ t.resize = s.resize
    /\ t.active = s.active /\ t.restore = s.restore /\ t.kb = s.kb /\ t.wheel = s.wheel /\ t.odd = s.odd /\ t.said = s.said
    /\ t.sync = s.sync

LEMMA FailedView ==
    ASSUME NEW s \in States, NEW guard \in BOOLEAN
    PROVE  /\ Failed(s, guard) \in States /\ FailedFrom(s, Failed(s, guard))
           /\ \/ /\ Failed(s, guard).view = s.view /\ Failed(s, guard).rollback = s.rollback
                 /\ Failed(s, guard).dirty = (s.dirty \/ ~guard)
                 /\ guard => ~s.rollback.fresh
              \/ /\ guard /\ s.rollback.fresh /\ Failed(s, guard).dirty = s.dirty /\ ~Failed(s, guard).rollback.on
                 /\ Failed(s, guard).view = IF s.rollback.on THEN s.rollback.to ELSE s.view
<1>1. CASE ~guard
  BY <1>1 DEF Failed, FailedFrom, States
<1>2. CASE guard /\ ~s.rollback.fresh
  <2>1. Failed(s, guard) = s /\ s.dirty \in BOOLEAN
    BY <1>2 DEF Failed, States
  <2> QED
    BY <1>2, <2>1 DEF FailedFrom
<1>3. CASE guard /\ s.rollback.fresh
  <2>1. Failed(s, guard) = RollBack(s)
    BY <1>3 DEF Failed
  <2> QED
    BY <1>3, <2>1, RolledBack DEF FailedFrom
<1> QED
  BY <1>1, <1>2, <1>3

ShownFrom(s, t, scale, topology, b) ==
    /\ t.shown = [scale |-> scale, topology |-> topology] /\ t.box = b
    /\ t.view = [mode |-> (IF s.wheel.on /\ scale = s.wheel.target THEN "custom" ELSE s.view.mode), scale |-> scale]
    /\ t.committed.mode = t.view.mode /\ t.committed.scale = scale
    /\ ~t.rollback.on /\ t.odd = [s.odd EXCEPT !.kept = FALSE]
    /\ t.call = s.call /\ t.resize = s.resize /\ t.active = s.active /\ t.restore = s.restore /\ t.kb = s.kb
    /\ t.wheel = s.wheel /\ t.dirty = s.dirty /\ t.said = s.said /\ t.sync = s.sync

LEMMA ShownView ==
    ASSUME NEW s \in States, NEW scale \in Scale, NEW topology \in Topology, NEW b \in Box
    PROVE  /\ Shows(s, scale, topology, b) \in States
           /\ ShownFrom(s, Shows(s, scale, topology, b), scale, topology, b)
<1> DEFINE mode == IF s.wheel.on /\ scale = s.wheel.target THEN "custom" ELSE s.view.mode
<1>1. mode \in Mode
  BY DEF States, View, Mode
<1>2. Shows(s, scale, topology, b) =
        [s EXCEPT !.shown = [scale |-> scale, topology |-> topology], !.box = b,
                  !.view = [mode |-> mode, scale |-> scale], !.committed = [mode |-> mode, scale |-> scale, box |-> b],
                  !.rollback = NoRollback, !.odd.kept = FALSE]
  BY DEF Shows
<1> HIDE DEF mode
<1>3. [mode |-> mode, scale |-> scale] \in View /\ [mode |-> mode, scale |-> scale, box |-> b] \in Committed
  BY <1>1 DEF View, Committed
<1>4. NoRollback \in [on : BOOLEAN, fresh : BOOLEAN, to : View] /\ ~NoRollback.on
  BY Defaults DEF NoRollback
<1>5. Shows(s, scale, topology, b) \in States
  <2>1. [s EXCEPT !.odd.kept = FALSE] \in States
    BY DEF States
  <2>2. ASSUME NEW x \in States
        PROVE  [x EXCEPT !.shown = [scale |-> scale, topology |-> topology], !.box = b,
                         !.view = [mode |-> mode, scale |-> scale], !.committed = [mode |-> mode, scale |-> scale, box |-> b],
                         !.rollback = NoRollback] \in States
    BY <1>3, <1>4 DEF States
  <2>3. Shows(s, scale, topology, b) =
        [[s EXCEPT !.odd.kept = FALSE] EXCEPT !.shown = [scale |-> scale, topology |-> topology], !.box = b,
                         !.view = [mode |-> mode, scale |-> scale], !.committed = [mode |-> mode, scale |-> scale, box |-> b],
                         !.rollback = NoRollback]
    BY <1>2 DEF States
  <2> QED
    BY <2>1, <2>2, <2>3
<1>6. ShownFrom(s, Shows(s, scale, topology, b), scale, topology, b)
  BY <1>2, <1>4 DEF States, ShownFrom, mode
<1> QED
  BY <1>5, <1>6

-----------------------------------------------------------------------------
(* What becomes of one rendering *)

ButCall(s, t) ==
    /\ t.view = s.view /\ t.committed = s.committed /\ t.shown = s.shown /\ t.box = s.box /\ t.resize = s.resize
    /\ t.active = s.active /\ t.restore = s.restore /\ t.kb = s.kb /\ t.wheel = s.wheel /\ t.rollback = s.rollback
    /\ t.dirty = s.dirty /\ t.said = s.said /\ t.sync.at = s.sync.at

OthersAsBefore(s, t, c) == \A d \in Call : d # c => t.call[d] = s.call[d]

LEMMA CallChanged ==
    ASSUME NEW s \in States, NEW c \in Call, NEW r \in CallRecord
    PROVE  /\ WithCall(s, c, r) \in States /\ ButCall(s, WithCall(s, c, r)) /\ WithCall(s, c, r).odd = s.odd
           /\ WithCall(s, c, r).call[c] = r /\ OthersAsBefore(s, WithCall(s, c, r), c)
           /\ WithCall(s, c, r).latest = s.latest /\ WithCall(s, c, r).viewport = s.viewport
<1> DEFINE t == WithCall(s, c, r)
<1>1. s.call \in [Call -> CallRecord] /\ [s.call EXCEPT ![c] = r] \in [Call -> CallRecord]
  BY DEF States
<1>2. t = [s EXCEPT !.call = [s.call EXCEPT ![c] = r]]
  BY DEF States, WithCall
<1>3. t \in States /\ ButCall(s, t) /\ t.odd = s.odd /\ t.call = [s.call EXCEPT ![c] = r]
      /\ t.latest = s.latest /\ t.viewport = s.viewport
  BY <1>1, <1>2 DEF States, ButCall
<1> QED
  BY <1>1, <1>3 DEF OthersAsBefore

LEMMA SettledCall ==
    ASSUME NEW s \in States, NEW c \in Call, NEW ok \in BOOLEAN
    PROVE  /\ Settle(s, c, ok) \in States /\ ButCall(s, Settle(s, c, ok)) /\ Settle(s, c, ok).odd = s.odd
           /\ OthersAsBefore(s, Settle(s, c, ok), c)
           /\ Settle(s, c, ok).call[c] = [s.call[c] EXCEPT !.at = "settled", !.ok = ok]
<1> DEFINE t == Settle(s, c, ok)
           q == s.call[c]
           r == [q EXCEPT !.at = "settled", !.ok = ok]
<1>0. q \in CallRecord
  BY DEF States
<1>1. r \in CallRecord
  BY <1>0 DEF CallRecord, Stages
<1>2. t = WithCall(s, c, r)
  BY DEF Settle, States, CallRecord, WithCall
<1> HIDE DEF r, t
<1>3. t \in States /\ ButCall(s, t) /\ t.odd = s.odd /\ OthersAsBefore(s, t, c) /\ t.call[c] = r
  BY <1>1, <1>2, CallChanged
<1> QED
  BY <1>3 DEF r, t

Unasked(q, r) ==
    /\ r.kind = q.kind /\ r.live = q.live /\ r.asked = q.asked /\ r.box = q.box /\ r.settled = q.settled
    /\ r.corrected = q.corrected /\ r.back = q.back /\ r.prior = q.prior
AskedFrom(s, t, c, at, scale, topology) ==
    /\ ButCall(s, t) /\ OthersAsBefore(s, t, c) /\ Unasked(s.call[c], t.call[c])
    /\ t.odd.broken = s.odd.broken /\ t.odd.both = s.odd.both /\ t.odd.moved = s.odd.moved
    /\ t.call[c].scale = scale /\ t.call[c].topology = topology
    /\ \/ /\ s.shown = [scale |-> scale, topology |-> topology] /\ t.call[c].at = After[at] /\ t.call[c].ok
          /\ t.odd.kept = (s.view.mode # s.committed.mode)
       \/ /\ s.shown # [scale |-> scale, topology |-> topology] /\ t.call[c].at = at /\ t.call[c].ok = s.call[c].ok
          /\ t.odd.kept = s.odd.kept

Marked(s, k, c) == [s EXCEPT !.odd.kept = k, !.latest = c]

LEMMA KeptOrNot ==
    ASSUME NEW s \in States, NEW k \in BOOLEAN, NEW c \in Call
    PROVE  /\ Marked(s, k, c) \in States /\ ButCall(s, Marked(s, k, c)) /\ Marked(s, k, c).call = s.call
           /\ Marked(s, k, c).odd.broken = s.odd.broken /\ Marked(s, k, c).odd.both = s.odd.both
           /\ Marked(s, k, c).odd.moved = s.odd.moved /\ Marked(s, k, c).odd.kept = k
<1>1. [s EXCEPT !.odd.kept = k] \in States
  BY DEF States
<1>2. ASSUME NEW x \in States PROVE [x EXCEPT !.latest = c] \in States
  BY DEF States
<1>3. Marked(s, k, c) = [[s EXCEPT !.odd.kept = k] EXCEPT !.latest = c]
  BY DEF Marked
<1>4. Marked(s, k, c) \in States
  BY <1>1, <1>2, <1>3
<1>5. /\ ButCall(s, Marked(s, k, c)) /\ Marked(s, k, c).call = s.call
      /\ Marked(s, k, c).odd.broken = s.odd.broken /\ Marked(s, k, c).odd.both = s.odd.both
      /\ Marked(s, k, c).odd.moved = s.odd.moved /\ Marked(s, k, c).odd.kept = k
  BY DEF States, ButCall, Marked
<1> QED
  BY <1>4, <1>5

LEMMA AskedCall ==
    ASSUME NEW s \in States, NEW c \in Call, NEW at \in DOMAIN After, NEW scale \in Scale, NEW topology \in Topology,
           NEW t, t = Ask(s, c, at, scale, topology)
    PROVE  t \in States /\ AskedFrom(s, t, c, at, scale, topology)
<1> DEFINE same == s.shown = [scale |-> scale, topology |-> topology]
           k == IF same THEN s.view.mode # s.committed.mode ELSE s.odd.kept
           q == s.call[c]
           r == [q EXCEPT !.scale = scale, !.topology = topology, !.at = IF same THEN After[at] ELSE at,
                          !.ok = same \/ q.ok]
           u == Marked(s, k, c)
<1>1. at \in {"render", "undo", "refit"} /\ After[at] \in Stages /\ at \in Stages
  BY DEF After, Stages
<1>2. q \in CallRecord /\ s.odd.kept \in BOOLEAN /\ same \in BOOLEAN
  BY DEF States
<1>3. r \in CallRecord /\ Unasked(q, r) /\ r.scale = scale /\ r.topology = topology
      /\ r.at = (IF same THEN After[at] ELSE at) /\ r.ok = (same \/ q.ok)
  <2> HIDE DEF same, q
  <2> QED
    BY <1>1, <1>2 DEF CallRecord, Unasked
<1>4. t = WithCall(u, c, r)
  BY DEF Ask, States, WithCall, Marked
<1>5. k \in BOOLEAN
  BY <1>2
<1> HIDE DEF k, r, u
<1>6. /\ u \in States /\ ButCall(s, u) /\ u.call = s.call
      /\ u.odd.broken = s.odd.broken /\ u.odd.both = s.odd.both /\ u.odd.moved = s.odd.moved /\ u.odd.kept = k
  BY <1>5, KeptOrNot DEF u
<1>7. t \in States /\ ButCall(u, t) /\ t.odd = u.odd /\ t.call[c] = r /\ OthersAsBefore(u, t, c)
  BY <1>3, <1>4, <1>6, CallChanged
<1>8. ButCall(s, t) /\ OthersAsBefore(s, t, c)
  BY <1>6, <1>7 DEF ButCall, OthersAsBefore
<1>9. /\ t.odd.broken = s.odd.broken /\ t.odd.both = s.odd.both /\ t.odd.moved = s.odd.moved /\ t.odd.kept = k
      /\ Unasked(q, t.call[c]) /\ t.call[c].scale = scale /\ t.call[c].topology = topology
      /\ t.call[c].at = (IF same THEN After[at] ELSE at) /\ t.call[c].ok = (same \/ q.ok)
  BY <1>3, <1>6, <1>7
<1>10. q.ok \in BOOLEAN
  BY <1>2 DEF CallRecord
<1>11. CASE same
  <2>1. k = (s.view.mode # s.committed.mode) /\ t.call[c].at = After[at] /\ t.call[c].ok
    BY <1>9, <1>11 DEF k
  <2>2. s.shown = [scale |-> scale, topology |-> topology]
    BY <1>11
  <2> HIDE DEF same, q
  <2>3. t.odd.kept = (s.view.mode # s.committed.mode)
    BY <1>9, <2>1
  <2> QED
    BY <1>7, <1>8, <1>9, <2>1, <2>2, <2>3 DEF AskedFrom, q
<1>12. CASE ~same
  <2>1. k = s.odd.kept /\ t.call[c].at = at /\ t.call[c].ok = q.ok
    BY <1>9, <1>10, <1>12 DEF k
  <2>2. s.shown # [scale |-> scale, topology |-> topology]
    BY <1>12
  <2> HIDE DEF same
  <2> QED
    BY <1>7, <1>8, <1>9, <2>1, <2>2 DEF AskedFrom
<1> QED
  BY <1>11, <1>12

LEMMA PageAsked ==
    ASSUME NEW s \in States, NEW c \in Call, NEW scale \in Scale, NEW t, t = AskPage(s, c, scale)
    PROVE  /\ t \in States /\ ButCall(s, t) /\ OthersAsBefore(s, t, c)
           /\ t.odd.broken = s.odd.broken /\ t.odd.both = s.odd.both /\ t.odd.moved = s.odd.moved
           /\ Unasked([s.call[c] EXCEPT !.box = s.box], t.call[c])
           /\ t.call[c].scale = scale /\ t.call[c].topology = TopologyOf(s.view.mode)
           /\ \/ /\ s.shown = [scale |-> scale, topology |-> TopologyOf(s.view.mode)] /\ t.call[c].at = "rendered"
                 /\ t.call[c].ok /\ t.odd.kept = (s.view.mode # s.committed.mode)
              \/ /\ s.shown # [scale |-> scale, topology |-> TopologyOf(s.view.mode)] /\ t.call[c].at = "render"
                 /\ t.call[c].ok = s.call[c].ok /\ t.odd.kept = s.odd.kept
<1> DEFINE q == s.call[c]
           r == [q EXCEPT !.box = s.box]
           u == WithCall(s, c, r)
           topology == TopologyOf(s.view.mode)
<1>1. q \in CallRecord /\ s.box \in Box
  BY DEF States
<1>2. r \in CallRecord /\ r.ok = q.ok
  <2> HIDE DEF q
  <2> QED
    BY <1>1 DEF CallRecord
<1>3. topology \in Topology /\ "render" \in DOMAIN After /\ After["render"] = "rendered"
  BY DEF TopologyOf, Topology, After
<1>4. t = Ask(u, c, "render", scale, topology)
  BY DEF AskPage, WithCall, States, CallRecord
<1>5. u \in States /\ ButCall(s, u) /\ u.odd = s.odd /\ u.call[c] = r /\ OthersAsBefore(s, u, c)
  BY <1>2, CallChanged
<1> HIDE DEF u, topology
<1>6. t \in States /\ AskedFrom(u, t, c, "render", scale, topology)
  BY <1>3, <1>4, <1>5, AskedCall
<1>7. ButCall(s, t) /\ OthersAsBefore(s, t, c)
  BY <1>5, <1>6 DEF ButCall, OthersAsBefore, AskedFrom
<1>8. u.shown = s.shown /\ u.view = s.view /\ u.committed = s.committed
  BY <1>5 DEF ButCall
<1>9. Unasked(r, t.call[c]) /\ t.call[c].scale = scale /\ t.call[c].topology = topology
      /\ t.odd.broken = s.odd.broken /\ t.odd.both = s.odd.both /\ t.odd.moved = s.odd.moved
  BY <1>5, <1>6 DEF AskedFrom
<1>10. \/ /\ s.shown = [scale |-> scale, topology |-> topology] /\ t.call[c].at = "rendered"
          /\ t.call[c].ok /\ t.odd.kept = (s.view.mode # s.committed.mode)
       \/ /\ s.shown # [scale |-> scale, topology |-> topology] /\ t.call[c].at = "render"
          /\ t.call[c].ok = q.ok /\ t.odd.kept = s.odd.kept
  <2> HIDE DEF q, r
  <2> QED
    BY <1>2, <1>3, <1>5, <1>6, <1>8 DEF AskedFrom
<1> QED
  BY <1>6, <1>7, <1>9, <1>10 DEF topology

LEMMA UndoAsked ==
    ASSUME NEW s \in States, NEW c \in Call, NEW t, t = Undo(s, c)
    PROVE  /\ t \in States
           /\ AskedFrom(s, t, c, "undo", s.call[c].prior.scale, TopologyOf(s.call[c].prior.mode))
<1>1. s.call[c].prior.scale \in Scale
  BY DEF States, CallRecord, Committed
<1>2. TopologyOf(s.call[c].prior.mode) \in Topology /\ "undo" \in DOMAIN After
  BY DEF TopologyOf, Topology, After
<1> QED
  BY <1>1, <1>2, AskedCall DEF Undo

LEMMA ToSynchronize ==
    ASSUME NEW s \in States, NEW c \in Call, NEW back \in BOOLEAN
    PROVE  /\ Synchronize(s, c, back) \in States /\ ButCall(s, Synchronize(s, c, back)) /\ Synchronize(s, c, back).odd = s.odd
           /\ OthersAsBefore(s, Synchronize(s, c, back), c)
           /\ Synchronize(s, c, back).call[c] = [s.call[c] EXCEPT !.at = "sync", !.back = back]
<1> DEFINE t == Synchronize(s, c, back)
           q == s.call[c]
           r == [q EXCEPT !.at = "sync", !.back = back]
           u == WithCall(s, c, r)
<1>0. q \in CallRecord
  BY DEF States
<1>1. r \in CallRecord
  BY <1>0 DEF CallRecord, Stages
<1>2. t = [u EXCEPT !.latest = c, !.viewport = c]
  BY DEF Synchronize, WithCall
<1> HIDE DEF r
<1>3. u \in States /\ ButCall(s, u) /\ u.odd = s.odd /\ OthersAsBefore(s, u, c) /\ u.call[c] = r
  BY <1>1, CallChanged
<1> HIDE DEF u, t
<1>4. t \in States /\ ButCall(u, t) /\ t.odd = u.odd /\ t.call = u.call
  <2>1. u \in States
    BY <1>3
  <2>2. t \in States
    <3>1. ASSUME NEW x \in States PROVE [x EXCEPT !.latest = c] \in States
      BY DEF States
    <3>2. ASSUME NEW x \in States PROVE [x EXCEPT !.viewport = c] \in States
      BY DEF States
    <3>3. t = [[u EXCEPT !.latest = c] EXCEPT !.viewport = c]
      BY <1>2
    <3> QED
      BY <2>1, <3>1, <3>2, <3>3
  <2>3. ButCall(u, t) /\ t.odd = u.odd /\ t.call = u.call
    BY <1>2, <2>1 DEF States, ButCall
  <2> QED
    BY <2>2, <2>3
<1>5. ButCall(s, t) /\ OthersAsBefore(s, t, c)
  BY <1>3, <1>4 DEF ButCall, OthersAsBefore
<1> QED
  BY <1>3, <1>4, <1>5 DEF r, t

\* The rendering c has come to its next stage, and nothing else has changed.
Advanced(s, t, c) ==
    /\ ButCall(s, t) /\ OthersAsBefore(s, t, c)
    /\ t.odd.broken = s.odd.broken /\ t.odd.both = s.odd.both /\ t.odd.moved = s.odd.moved
    /\ t.odd.kept = s.odd.kept \/ t.odd.kept = (s.view.mode # s.committed.mode)
    /\ t.call[c].kind = s.call[c].kind /\ t.call[c].at # "idle" /\ s.call[c].at # "idle"
    /\ t.call[c].live => s.call[c].live
    /\ t.call[c].back => t.call[c].at \in {"sync", "refit-size", "refit", "synchronized", "settled"}
    /\ t.call[c].at = "settled" /\ t.call[c].ok => t.call[c].live /\ ~t.call[c].back

LEMMA StillAgrees ==
    ASSUME NEW s, NEW t, t.view = s.view, t.committed = s.committed,
           t.odd.kept = s.odd.kept \/ t.odd.kept = (s.view.mode # s.committed.mode)
    PROVE  /\ Agrees(s) => Agrees(t)
           /\ s.view.mode = s.committed.mode \/ s.odd.kept => t.view.mode = t.committed.mode \/ t.odd.kept
           /\ s.committed.mode = "custom" \/ s.odd.kept => t.committed.mode = "custom" \/ t.odd.kept \/ s.view.mode # "custom"
  BY DEF Agrees

LEMMA AdvancedIsSound ==
    ASSUME NEW s \in States, NEW t \in States, NEW c \in Call, Sound(s), Advanced(s, t, c),
           Fine(s) => Rendering(t, c),
           Fine(s) /\ s.call[c].live /\ s.call[c].at \in {"transform", "render"} =>
             Agrees(t) \/ t.dirty \/ (t.call[c].live /\ t.call[c].at \in {"transform", "render"}),
           Fine(s) /\ Hopeful(t.call[c]) => Hopeful(s.call[c]),
           Fine(s) /\ ~s.odd.moved /\ s.kb.on /\ s.kb.call = c => FittingPage(t)
    PROVE  Sound(t) /\ (DeferredIsAwaited(s) => DeferredIsAwaited(t))
<1>1. Owners(t)
  <2>1. Owners(s)
    BY DEF Sound
  <2>2. ASSUME NEW d \in Call
        PROVE  /\ t.call[d].kind = s.call[d].kind /\ (s.call[d].at # "idle" => t.call[d].at # "idle")
               /\ t.call[d].live => t.active /\ t.call[d].at # "idle"
               /\ t.call[d].back => t.call[d].at \in {"sync", "refit-size", "refit", "synchronized", "settled"}
               /\ t.call[d].at = "settled" /\ t.call[d].ok => t.call[d].live /\ ~t.call[d].back
    <3>1. CASE d = c
      BY <2>1, <3>1 DEF Owners, Advanced, ButCall
    <3>2. CASE d # c
      <4>1. t.call[d] = s.call[d]
        BY <3>2 DEF Advanced, OthersAsBefore
      <4> QED
        BY <2>1, <4>1 DEF Owners, Advanced, ButCall
    <3> QED
      BY <3>1, <3>2
  <2>3. s.kb.call \in Call
    BY DEF States, KeyRecord
  <2>4. t.kb = s.kb /\ t.wheel = s.wheel /\ t.restore = s.restore /\ t.active = s.active
    BY DEF Advanced, ButCall
  <2> QED
    BY <2>1, <2>2, <2>3, <2>4 DEF Owners
<1>2. ASSUME Fine(t) PROVE Presentation(t) /\ Answers(t)
  <2>1. Fine(s) /\ Presentation(s) /\ Answers(s)
    BY <1>2 DEF Sound, Fine, Advanced
  <2>2. Alone(t)
    BY <2>1 DEF Presentation, Alone, Advanced, ButCall, OthersAsBefore
  <2>3. Displayed(t)
    BY <2>1 DEF Presentation, Displayed, Advanced, ButCall
  <2>4. /\ t.view = s.view /\ t.committed = s.committed /\ t.rollback = s.rollback /\ t.kb = s.kb /\ t.dirty = s.dirty
        /\ t.shown = s.shown /\ t.resize = s.resize /\ t.box = s.box /\ t.odd.moved = s.odd.moved
        /\ t.odd.kept = s.odd.kept \/ t.odd.kept = (s.view.mode # s.committed.mode)
    BY DEF Advanced, ButCall
  <2>5. /\ Agrees(s) => Agrees(t)
        /\ s.view.mode = s.committed.mode \/ s.odd.kept => t.view.mode = t.committed.mode \/ t.odd.kept
        /\ s.committed.mode = "custom" \/ s.odd.kept => t.committed.mode = "custom" \/ t.odd.kept \/ s.view.mode # "custom"
    BY <2>4, StillAgrees
  <2>6. Pending(s) => Pending(t) \/ t.dirty \/ Agrees(t)
    <3>1. CASE s.kb.call = c
      BY <2>1, <2>4, <3>1 DEF Pending
    <3>2. CASE s.kb.call # c
      <4>1. s.kb.call \in Call
        BY DEF States, KeyRecord
      <4>2. t.call[s.kb.call] = s.call[s.kb.call]
        BY <3>2, <4>1 DEF Advanced, OthersAsBefore
      <4> QED
        BY <2>4, <4>2 DEF Pending
    <3> QED
      BY <3>1, <3>2
  <2>7. Wanted(t)
    <3>1. t.view.mode = t.committed.mode \/ t.odd.kept \/ t.dirty \/ Pending(t)
      BY <2>1, <2>4, <2>5, <2>6 DEF Presentation, Wanted, Agrees
    <3>2. Agrees(t) \/ t.dirty \/ Pending(t) \/ t.odd.moved
      BY <2>1, <2>4, <2>5, <2>6 DEF Presentation, Wanted
    <3>3. t.rollback.on => t.rollback.to = Of(t.committed)
      BY <2>1, <2>4 DEF Presentation, Wanted
    <3>4. t.view.mode = "custom" /\ t.view.scale = t.committed.scale /\ t.shown.topology = "continuous" =>
            t.committed.mode = "custom" \/ t.odd.kept
      BY <2>1, <2>4, <2>5 DEF Presentation, Wanted
    <3> QED
      BY <3>1, <3>2, <3>3, <3>4 DEF Wanted
  <2>8. ASSUME NEW d \in Call PROVE Rendering(t, d)
    <3>1. CASE d = c
      BY <2>1, <3>1
    <3>2. CASE d # c
      <4>1. t.call[d] = s.call[d] /\ Rendering(s, d)
        BY <2>1, <3>2 DEF Advanced, OthersAsBefore, Presentation
      <4> QED
        BY <2>4, <2>5, <4>1 DEF Rendering
    <3> QED
      BY <3>1, <3>2
  <2>9. s.kb.call \in Call
    BY DEF States, KeyRecord
  <2>10. ASSUME ~t.odd.moved PROVE Typing(t) /\ FittingPage(t)
    <3>1. CASE s.kb.call = c
      <4>1. Typing(s) /\ ~s.odd.moved
        BY <2>1, <2>4, <2>10 DEF Answers
      <4>2. Typing(t)
        BY <2>1, <2>4, <3>1, <4>1 DEF Typing
      <4>3. FittingPage(t)
        <5>1. CASE s.kb.on
          BY <2>1, <3>1, <4>1, <5>1
        <5>2. CASE ~s.kb.on
          BY <2>4, <5>2 DEF FittingPage
        <5> QED
          BY <5>1, <5>2
      <4> QED
        BY <4>2, <4>3
    <3>2. CASE s.kb.call # c
      <4>1. t.call[s.kb.call] = s.call[s.kb.call]
        BY <2>9, <3>2 DEF Advanced, OthersAsBefore
      <4>2. Typing(s) /\ FittingPage(s)
        BY <2>1, <2>4, <2>10 DEF Answers
      <4> QED
        BY <2>4, <4>1, <4>2 DEF Typing, FittingPage
    <3> QED
      BY <3>1, <3>2
  <2> QED
    BY <2>2, <2>3, <2>7, <2>8, <2>10 DEF Presentation, Answers
<1>3. DeferredIsAwaited(s) => DeferredIsAwaited(t)
  BY DEF Advanced, ButCall, DeferredIsAwaited, Owned, Idle
<1> QED
  BY <1>1, <1>2, <1>3 DEF Sound

-----------------------------------------------------------------------------
(* The steps of one rendering *)

LEMMA FitsPage ==
    /\ \A v \in View, b \in Box : v.mode = "fit-page" => FitScale(v, b) = PageScale(b)
    /\ \A v \in View, b \in Box : v.mode = "custom" => FitScale(v, b) = v.scale
  BY Constants DEF PageScale, FitScale, View

LEMMA TransformIsSound ==
    ASSUME NEW s \in States, Sound(s), NEW c \in Call, s.call[c].at = "transform", s.call[c].live, s.box = s.call[c].box,
           NEW t, t = AskPage(s, c, FitScale(s.call[c].asked, s.box))
    PROVE  t \in States /\ Sound(t) /\ (DeferredIsAwaited(s) => DeferredIsAwaited(t))
<1> DEFINE q == s.call[c]  r == t.call[c]  scale == FitScale(q.asked, s.box)
<1>1. q \in CallRecord /\ q.asked \in View /\ s.box \in Box /\ s.view \in View
  BY DEF States, CallRecord
<1>2. scale \in Scale
  BY <1>1, ScaleFits
<1>3. [q EXCEPT !.box = s.box] = q
  BY <1>1 DEF CallRecord
<1>4. /\ t \in States /\ ButCall(s, t) /\ OthersAsBefore(s, t, c)
      /\ t.odd.broken = s.odd.broken /\ t.odd.both = s.odd.both /\ t.odd.moved = s.odd.moved
      /\ Unasked(q, r) /\ r.scale = scale /\ r.topology = TopologyOf(s.view.mode)
      /\ \/ /\ s.shown = [scale |-> scale, topology |-> TopologyOf(s.view.mode)] /\ r.at = "rendered"
            /\ r.ok /\ t.odd.kept = (s.view.mode # s.committed.mode)
         \/ r.at = "render" /\ r.ok = q.ok /\ t.odd.kept = s.odd.kept
  BY <1>2, <1>3, PageAsked
<1>5. q.live /\ q.at = "transform" /\ ~q.back /\ r.live /\ r.kind = q.kind /\ ~r.back
  BY <1>4 DEF Unasked, Sound, Owners
<1> HIDE DEF q, r, scale
<1>6. Advanced(s, t, c)
  BY <1>4, <1>5 DEF Advanced, q, r
<1>7. ASSUME Fine(s)
      PROVE  /\ q.asked = s.view /\ s.view.mode # "custom" /\ s.shown.scale = s.committed.scale
             /\ s.rollback.on => Of(q.prior) = s.rollback.to
             /\ Sure(q) => Agrees(s)
  BY <1>5, <1>7 DEF Sound, Presentation, Rendering, Displayed, q
<1>8. t.view = s.view /\ t.committed = s.committed /\ t.shown = s.shown /\ t.rollback = s.rollback /\ t.box = s.box
      /\ t.resize = s.resize /\ t.kb = s.kb
  BY <1>4 DEF ButCall
<1>9. ASSUME Fine(s) PROVE (r.at = "rendered" => Agrees(t)) /\ (Agrees(s) => Agrees(t))
  BY <1>4, <1>7, <1>8, <1>9 DEF Agrees
<1>10. r.prior = q.prior /\ r.corrected = q.corrected /\ r.box = q.box /\ r.settled = q.settled
  BY <1>4 DEF Unasked
<1>11. r.at \in {"render", "rendered"}
  BY <1>4
<1>12. Fine(s) => Rendering(t, c)
  BY <1>5, <1>7, <1>8, <1>9, <1>10, <1>11 DEF Rendering, Sure, r
<1>13. Hopeful(r) => Hopeful(q)
  BY <1>5 DEF Hopeful
<1>14. ASSUME Fine(s), ~s.odd.moved, s.kb.on, s.kb.call = c PROVE FittingPage(t)
  <2>1. FittingPage(s) /\ Hopeful(q)
    BY <1>5, <1>14 DEF Sound, Answers, Hopeful
  <2> SUFFICES ASSUME s.kb.first = "fit-page" PROVE FittingPage(t)
    BY <1>8 DEF FittingPage
  <2>2. s.view.mode = "fit-page"
    BY <1>14, <2>1 DEF Sound, Answers, Typing, q
  <2>3. scale = PageScale(s.box) /\ TopologyOf(s.view.mode) = "single-page"
    BY <1>1, <1>7, <1>14, <2>2, FitsPage DEF scale, TopologyOf
  <2>4. q.box = s.box
    BY DEF q
  <2>5. "new" \notin s.resize => q.settled = s.box
    BY <1>5, <1>14, <2>1, <2>4 DEF FittingPage, q
  <2>6. r.at = "rendered" => s.committed.scale = scale /\ s.shown.topology = "single-page"
    BY <1>4, <1>7, <1>14, <2>3
  <2>7. /\ r.at \in {"transform", "render", "rendered", "measure", "settled"}
        /\ r.at = "render" => r.scale = PageScale(r.box) /\ r.topology = "single-page"
        /\ r.at = "rendered" => t.shown.topology = "single-page"
    BY <1>4, <1>8, <1>10, <1>11, <2>3, <2>4, <2>6
  <2>8. "new" \notin t.resize =>
           /\ r.at \in {"transform", "render"} => r.box = t.box /\ r.settled = r.box
           /\ r.at = "rendered" => t.committed.scale = PageScale(r.settled)
           /\ r.at = "measure" => r.settled = t.box
           /\ r.at = "settled" => t.committed.scale = PageScale(t.box)
    BY <1>8, <1>10, <1>11, <2>3, <2>4, <2>5, <2>6
  <2>9. t.kb.call = c
    BY <1>8, <1>14
  <2> QED
    BY <2>7, <2>8, <2>9 DEF FittingPage, r
<1>15. /\ Fine(s) /\ s.call[c].live /\ s.call[c].at \in {"transform", "render"} =>
             Agrees(t) \/ t.dirty \/ (t.call[c].live /\ t.call[c].at \in {"transform", "render"})
  BY <1>5, <1>9, <1>11 DEF r
<1> QED
  BY <1>4, <1>6, <1>12, <1>13, <1>14, <1>15, AdvancedIsSound DEF q, r

LEMMA FailsIsSound ==
    ASSUME NEW s \in States, Sound(s), NEW c \in Call, NEW guard \in BOOLEAN, guard => s.call[c].live,
           NEW at \in {"rendered", "synchronized", "settled"},
           s.call[c].at \in IF at = "rendered" THEN {"transform", "render"} ELSE {"sync", "refit"},
           NEW t, t = FailedAt(s, guard, c, at)
    PROVE  t \in States /\ Sound(t) /\ (DeferredIsAwaited(s) => DeferredIsAwaited(t))
<1> DEFINE q == s.call[c]
           r == [q EXCEPT !.at = at, !.ok = FALSE]
           f == Failed(s, guard)
<1>1. q \in CallRecord
  BY DEF States
<1> HIDE DEF q
<1>2. r \in CallRecord
  BY <1>1 DEF CallRecord, Stages
<1>3. /\ r.at = at /\ ~r.ok /\ r.kind = q.kind /\ r.live = q.live /\ r.back = q.back /\ r.corrected = q.corrected
      /\ r.prior = q.prior
  BY <1>1 DEF CallRecord
<1> HIDE DEF r, f
<1>4. /\ f \in States /\ FailedFrom(s, f)
      /\ \/ /\ f.view = s.view /\ f.rollback = s.rollback /\ f.dirty = (s.dirty \/ ~guard) /\ (guard => ~s.rollback.fresh)
         \/ /\ guard /\ s.rollback.fresh /\ f.dirty = s.dirty /\ ~f.rollback.on
            /\ f.view = IF s.rollback.on THEN s.rollback.to ELSE s.view
  BY FailedView DEF f
<1>5. t \in States /\ ButCall(f, t) /\ t.odd = f.odd /\ t.call[c] = r /\ OthersAsBefore(f, t, c)
  BY <1>2, <1>4, CallChanged DEF f, r, q, FailedAt
<1>6. /\ t.committed = s.committed /\ t.shown = s.shown /\ t.box = s.box /\ t.resize = s.resize
      /\ t.active = s.active /\ t.restore = s.restore /\ t.kb = s.kb /\ t.wheel = s.wheel /\ t.odd = s.odd
      /\ t.sync.at = s.sync.at /\ (\A d \in Call : d # c => t.call[d] = s.call[d])
      /\ t.view = f.view /\ t.rollback = f.rollback /\ t.dirty = f.dirty
  BY <1>4, <1>5 DEF ButCall, OthersAsBefore, FailedFrom
<1>7. q.at # "idle" /\ (at # "rendered" => Sure(q)) /\ (at = "rendered" => ~q.back)
  BY DEF Sound, Owners, Sure, q
<1>8. s.kb.call \in Call
  BY DEF States, KeyRecord
<1>9. Owners(t)
  <2>1. ASSUME NEW d \in Call
        PROVE  /\ t.call[d].kind = s.call[d].kind /\ (s.call[d].at # "idle" => t.call[d].at # "idle")
               /\ t.call[d].live => t.active /\ t.call[d].at # "idle"
               /\ t.call[d].back => t.call[d].at \in {"sync", "refit-size", "refit", "synchronized", "settled"}
               /\ t.call[d].at = "settled" /\ t.call[d].ok => t.call[d].live /\ ~t.call[d].back
    <3>1. CASE d = c
      BY <1>3, <1>5, <1>6, <1>7, <3>1 DEF Sound, Owners, q
    <3>2. CASE d # c
      BY <1>6, <3>2 DEF Sound, Owners
    <3> QED
      BY <3>1, <3>2
  <2> QED
    BY <1>6, <1>8, <2>1 DEF Sound, Owners
<1>10. ASSUME Fine(t) PROVE Presentation(t) /\ Answers(t)
  <2>1. Fine(s) /\ Presentation(s) /\ Answers(s)
    BY <1>6, <1>10 DEF Sound, Fine
  <2>2. Alone(t)
    <3>1. \A d \in Call : t.call[d].live = s.call[d].live
      BY <1>3, <1>5, <1>6 DEF q
    <3> QED
      BY <1>6, <2>1, <3>1 DEF Presentation, Alone
  <2>3. Displayed(t)
    BY <1>6, <2>1 DEF Presentation, Displayed
  <2>4. guard => \A d \in Call : s.call[d].live => d = c
    BY <2>1 DEF Presentation, Alone
  <2>5. /\ t.view = s.view \/ (guard /\ t.view = Of(s.committed))
        /\ t.rollback = s.rollback \/ ~t.rollback.on
        /\ Agrees(s) => Agrees(t)
        /\ t.view.mode = t.committed.mode \/ t.odd.kept \/ t.dirty \/ Pending(t)
        /\ Agrees(t) \/ t.dirty \/ t.odd.moved
    <3>1. CASE s.rollback.on /\ guard /\ s.rollback.fresh
      <4>1. t.view = Of(s.committed) /\ ~t.rollback.on
        BY <1>4, <1>6, <2>1, <3>1 DEF Presentation, Wanted
      <4>2. t.view.mode = t.committed.mode /\ t.view.scale = t.committed.scale
        BY <1>6, <4>1 DEF Of
      <4>3. Agrees(t)
        BY <4>2 DEF Agrees
      <4> QED
        BY <3>1, <4>1, <4>2, <4>3
    <3>2. CASE ~(s.rollback.on /\ guard /\ s.rollback.fresh)
      <4>1. t.view = s.view /\ (t.rollback = s.rollback \/ ~t.rollback.on) /\ t.dirty = (s.dirty \/ ~guard) /\ (guard => ~Pending(s))
        <5>1. CASE guard /\ s.rollback.fresh
          <6>1. s.dirty \in BOOLEAN
            BY DEF States
          <6>2. f.view = s.view /\ ~f.rollback.on /\ f.dirty = s.dirty /\ ~s.rollback.on
            BY <1>4, <3>2, <5>1
          <6> QED
            BY <1>6, <5>1, <6>1, <6>2 DEF Pending
        <5>2. CASE ~(guard /\ s.rollback.fresh)
          <6>1. f.view = s.view /\ f.rollback = s.rollback /\ f.dirty = (s.dirty \/ ~guard) /\ (guard => ~s.rollback.fresh)
            BY <1>4, <5>2
          <6> QED
            BY <1>6, <6>1 DEF Pending
        <5> QED
          BY <5>1, <5>2
      <4>2. t.committed = s.committed /\ t.odd = s.odd
        BY <1>6
      <4> QED
        BY <2>1, <4>1, <4>2 DEF Presentation, Wanted, Agrees
    <3> QED
      BY <3>1, <3>2
  <2>6. Wanted(t)
    <3>1. t.rollback.on => t.rollback.to = Of(t.committed)
      BY <1>6, <2>1, <2>5 DEF Presentation, Wanted
    <3>2. t.view.mode = "custom" /\ t.view.scale = t.committed.scale /\ t.shown.topology = "continuous" =>
            t.committed.mode = "custom" \/ t.odd.kept
      BY <1>6, <2>1, <2>5 DEF Presentation, Wanted, Of
    <3> QED
      BY <2>5, <3>1, <3>2 DEF Wanted
  <2>7. ASSUME NEW d \in Call PROVE Rendering(t, d)
    <3>0. Rendering(s, d)
      BY <2>1 DEF Presentation
    <3>1. CASE d = c
      <4>1. Sure(r) => Sure(q)
        BY <1>3, <1>7 DEF Sure
      <4>2. q.live => (s.rollback.on => Of(q.prior) = s.rollback.to) /\ (Sure(q) => Agrees(s))
        BY <3>0, <3>1 DEF Rendering, q
      <4> QED
        BY <1>3, <1>5, <2>5, <3>1, <4>1, <4>2 DEF Rendering
    <3>2. CASE d # c
      <4>1. t.call[d] = s.call[d]
        BY <1>6, <3>2
      <4>2. s.call[d].live => ~guard /\ t.view = s.view
        BY <2>4, <2>5, <3>2
      <4> QED
        BY <1>6, <2>5, <3>0, <4>1, <4>2 DEF Rendering
    <3> QED
      BY <3>1, <3>2
  <2>8. ASSUME ~t.odd.moved PROVE Typing(t) /\ FittingPage(t)
    <3>0. Typing(s) /\ FittingPage(s)
      BY <1>6, <2>1, <2>8 DEF Answers
    <3>1. CASE s.kb.call = c
      <4>1. ~Hopeful(t.call[c])
        BY <1>3, <1>5 DEF Hopeful
      <4> QED
        BY <1>6, <3>1, <4>1 DEF Typing, FittingPage
    <3>2. CASE s.kb.call # c
      <4>1. t.call[s.kb.call] = s.call[s.kb.call]
        BY <1>6, <1>8, <3>2
      <4>2. Hopeful(s.call[s.kb.call]) => t.view = s.view
        BY <1>8, <2>4, <2>5, <3>2 DEF Hopeful
      <4>3. Typing(t)
        BY <1>6, <3>0, <4>1, <4>2 DEF Typing
      <4>3a. /\ t.kb = s.kb /\ t.committed = s.committed /\ t.shown = s.shown /\ t.box = s.box /\ t.resize = s.resize
        BY <1>6
      <4>4. FittingPage(t)
        BY <3>0, <4>1, <4>3a DEF FittingPage
      <4> QED
        BY <4>3, <4>4
    <3> QED
      BY <3>1, <3>2
  <2> QED
    BY <2>2, <2>3, <2>6, <2>7, <2>8 DEF Presentation, Answers
<1>11. DeferredIsAwaited(s) => DeferredIsAwaited(t)
  BY <1>3, <1>5, <1>6 DEF DeferredIsAwaited, Owned, Idle
<1> QED
  BY <1>5, <1>9, <1>10, <1>11 DEF Sound

LEMMA UndoIsSound ==
    ASSUME NEW s \in States, Sound(s), NEW c \in Call, s.call[c].live, ~s.call[c].back, Fine(s) => Sure(s.call[c]),
           NEW t, t = Undo(s, c)
    PROVE  t \in States /\ Sound(t) /\ (DeferredIsAwaited(s) => DeferredIsAwaited(t))
<1> DEFINE q == s.call[c]  r == t.call[c]
<1>1. t \in States /\ AskedFrom(s, t, c, "undo", q.prior.scale, TopologyOf(q.prior.mode))
  BY UndoAsked
<1>2. After["undo"] = "undone"
  BY DEF After
<1>3. /\ ButCall(s, t) /\ OthersAsBefore(s, t, c) /\ Unasked(q, r)
      /\ t.odd.broken = s.odd.broken /\ t.odd.both = s.odd.both /\ t.odd.moved = s.odd.moved
      /\ r.scale = q.prior.scale
      /\ \/ r.at = "undone" /\ s.shown.scale = q.prior.scale /\ t.odd.kept = (s.view.mode # s.committed.mode)
         \/ r.at = "undo" /\ t.odd.kept = s.odd.kept
  BY <1>1, <1>2 DEF AskedFrom
<1>4. q.at # "idle" /\ q.live /\ ~q.back /\ r.kind = q.kind /\ r.live = q.live /\ r.back = q.back /\ r.prior = q.prior
  BY <1>3 DEF Unasked, Sound, Owners
<1> HIDE DEF q, r
<1>5. Advanced(s, t, c)
  BY <1>3, <1>4 DEF Advanced, q, r
<1>6. t.view = s.view /\ t.committed = s.committed /\ t.rollback = s.rollback /\ t.shown = s.shown /\ t.kb = s.kb
  BY <1>3 DEF ButCall
<1>7. ASSUME Fine(s) PROVE Agrees(t) /\ Rendering(t, c)
  <2>1. Agrees(s) /\ (s.rollback.on => Of(q.prior) = s.rollback.to)
    BY <1>4, <1>7 DEF Sound, Presentation, Rendering, q
  <2>2. Agrees(t)
    BY <1>3, <1>6, <2>1, StillAgrees
  <2> QED
    BY <1>3, <1>4, <1>6, <2>1, <2>2 DEF Rendering, r
<1>8. ~Hopeful(r)
  BY <1>3 DEF Hopeful
<1>9. Fine(s) /\ ~s.odd.moved /\ s.kb.on /\ s.kb.call = c => FittingPage(t)
  BY <1>6, <1>8 DEF FittingPage, r
<1> QED
  BY <1>1, <1>5, <1>7, <1>8, <1>9, AdvancedIsSound DEF r

LEMMA SettleIsSound ==
    ASSUME NEW s \in States, Sound(s), NEW c \in Call, NEW ok \in BOOLEAN, s.call[c].at \notin {"idle", "transform", "render"},
           ok => Hopeful(s.call[c]), Fine(s) /\ ok => Sure(s.call[c]),
           Fine(s) /\ ok /\ ~s.odd.moved /\ s.kb.on /\ s.kb.call = c /\ s.kb.first = "fit-page" /\ "new" \notin s.resize =>
             s.committed.scale = PageScale(s.box),
           NEW t, t = Settle(s, c, ok)
    PROVE  t \in States /\ Sound(t) /\ (DeferredIsAwaited(s) => DeferredIsAwaited(t))
<1> DEFINE q == s.call[c]  r == t.call[c]
<1>0. q \in CallRecord
  BY DEF States
<1>1. t \in States /\ ButCall(s, t) /\ t.odd = s.odd /\ OthersAsBefore(s, t, c) /\ r = [q EXCEPT !.at = "settled", !.ok = ok]
  BY SettledCall
<1> HIDE DEF q, r
<1>2. /\ r.at = "settled" /\ r.ok = ok /\ r.kind = q.kind /\ r.live = q.live /\ r.back = q.back /\ r.prior = q.prior
      /\ r.corrected = q.corrected
  BY <1>0, <1>1 DEF CallRecord
<1>3. ok => q.live /\ ~q.back
  BY DEF Hopeful, q
<1>4. q.at \notin {"idle", "transform", "render"}
  BY DEF q
<1>5. Advanced(s, t, c)
  BY <1>1, <1>2, <1>3, <1>4 DEF Advanced, q, r
<1>6. /\ t.view = s.view /\ t.committed = s.committed /\ t.rollback = s.rollback /\ t.shown = s.shown /\ t.kb = s.kb
      /\ t.box = s.box /\ t.resize = s.resize
  BY <1>1 DEF ButCall
<1>7. Fine(s) => Rendering(t, c)
  <2> SUFFICES ASSUME Fine(s), r.live PROVE Rendering(t, c)
    BY DEF Rendering, r
  <2>1. (s.rollback.on => Of(q.prior) = s.rollback.to) /\ (Sure(q) => Agrees(s))
    BY <1>2 DEF Sound, Presentation, Rendering, q
  <2>2. Sure(r) => Sure(q)
    BY <1>2 DEF Sure, q
  <2>3. Agrees(s) => Agrees(t)
    BY <1>1, <1>6 DEF Agrees
  <2> QED
    BY <1>2, <1>6, <2>1, <2>2, <2>3 DEF Rendering, r
<1>8. Hopeful(r) => Hopeful(q) /\ ok
  BY <1>2 DEF Hopeful, q
<1>9. Fine(s) /\ ~s.odd.moved /\ s.kb.on /\ s.kb.call = c => FittingPage(t)
  BY <1>2, <1>6, <1>8 DEF FittingPage, r
<1> QED
  BY <1>1, <1>4, <1>5, <1>7, <1>8, <1>9, AdvancedIsSound DEF q, r

LEMMA SynchronizeIsSound ==
    ASSUME NEW s \in States, Sound(s), NEW c \in Call, NEW back \in BOOLEAN, s.call[c].at \notin {"idle", "transform", "render"},
           back \/ Hopeful(s.call[c]), Fine(s) /\ s.call[c].live => Agrees(s),
           Fine(s) /\ ~s.odd.moved /\ s.kb.on /\ s.kb.call = c => back \/ s.kb.first # "fit-page",
           NEW t, t = Synchronize(s, c, back)
    PROVE  t \in States /\ Sound(t) /\ (DeferredIsAwaited(s) => DeferredIsAwaited(t))
<1> DEFINE q == s.call[c]  r == t.call[c]
<1>0. q \in CallRecord
  BY DEF States
<1>1. t \in States /\ ButCall(s, t) /\ t.odd = s.odd /\ OthersAsBefore(s, t, c) /\ r = [q EXCEPT !.at = "sync", !.back = back]
  BY ToSynchronize
<1> HIDE DEF q, r
<1>2. /\ r.at = "sync" /\ r.kind = q.kind /\ r.live = q.live /\ r.back = back /\ r.prior = q.prior
  BY <1>0, <1>1 DEF CallRecord
<1>4. q.at \notin {"idle", "transform", "render"}
  BY DEF q
<1>5. Advanced(s, t, c)
  BY <1>1, <1>2, <1>4 DEF Advanced, q, r
<1>6. /\ t.view = s.view /\ t.committed = s.committed /\ t.rollback = s.rollback /\ t.shown = s.shown /\ t.kb = s.kb
      /\ t.box = s.box /\ t.resize = s.resize
  BY <1>1 DEF ButCall
<1>7. Fine(s) => Rendering(t, c)
  <2> SUFFICES ASSUME Fine(s), r.live PROVE Rendering(t, c)
    BY DEF Rendering, r
  <2>1. (s.rollback.on => Of(q.prior) = s.rollback.to) /\ Agrees(s)
    BY <1>2 DEF Sound, Presentation, Rendering, q
  <2>3. Agrees(s) => Agrees(t)
    BY <1>1, <1>6 DEF Agrees
  <2> QED
    BY <1>2, <1>6, <2>1, <2>3 DEF Rendering, r
<1>8. Hopeful(r) => Hopeful(q) /\ ~back
  BY <1>2 DEF Hopeful, q
<1>9. Fine(s) /\ ~s.odd.moved /\ s.kb.on /\ s.kb.call = c => FittingPage(t)
  BY <1>2, <1>6, <1>8 DEF FittingPage, r
<1> QED
  BY <1>1, <1>4, <1>5, <1>7, <1>8, <1>9, AdvancedIsSound DEF q, r

LEMMA RenderedIsSound ==
    ASSUME NEW s \in States, Sound(s), NEW c \in Call, s.call[c].at = "rendered",
           NEW t, t = AfterRendered(s, c)
    PROVE  t \in States /\ Sound(t) /\ (DeferredIsAwaited(s) => DeferredIsAwaited(t))
<1> DEFINE q == s.call[c]
<1>0. q \in CallRecord /\ ~q.back /\ q.at = "rendered" /\ q.live \in BOOLEAN /\ q.ok \in BOOLEAN /\ q.corrected \in BOOLEAN
  BY DEF States, Sound, Owners, CallRecord
<1> HIDE DEF q
<1>1. Fine(s) /\ ~s.odd.moved /\ s.kb.on /\ s.kb.call = c /\ s.kb.first = "fit-page" /\ q.live /\ q.ok =>
        /\ s.shown.topology = "single-page"
        /\ "new" \notin s.resize => s.committed.scale = PageScale(q.settled)
  BY <1>0 DEF Sound, Answers, FittingPage, Hopeful, q
<1>2. q.live /\ q.ok => Hopeful(q) /\ Sure(q)
  BY <1>0 DEF Hopeful, Sure
<1>3. Fine(s) /\ q.live => (Sure(q) => Agrees(s)) /\ (s.rollback.on => Of(q.prior) = s.rollback.to)
  BY DEF Sound, Presentation, Rendering, q
<1>4. CASE ~q.live \/ (~q.ok /\ ~q.corrected)
  <2>1. t = Settle(s, c, FALSE)
    BY <1>4 DEF q, AfterRendered
  <2> QED
    BY <1>0, <2>1, SettleIsSound DEF q
<1>5. CASE q.live /\ ~q.ok /\ q.corrected
  <2>1. t = Undo(s, c)
    BY <1>5 DEF q, AfterRendered
  <2>2. Sure(q)
    BY <1>5 DEF Sure
  <2> QED
    BY <1>0, <1>5, <2>1, <2>2, UndoIsSound DEF q
<1>6. CASE q.live /\ q.ok /\ ~q.corrected /\ s.shown.topology = "continuous"
  <2>1. t = Synchronize(s, c, FALSE)
    BY <1>6 DEF q, AfterRendered
  <2> QED
    BY <1>0, <1>1, <1>2, <1>3, <1>6, <2>1, SynchronizeIsSound DEF q
<1>7. CASE q.live /\ q.ok /\ ~(~q.corrected /\ s.shown.topology = "continuous") /\ s.box = q.settled
  <2>1. t = Settle(s, c, TRUE)
    BY <1>7 DEF q, AfterRendered
  <2> QED
    BY <1>0, <1>1, <1>2, <1>7, <2>1, SettleIsSound DEF q
<1>8. CASE q.live /\ q.ok /\ ~(~q.corrected /\ s.shown.topology = "continuous") /\ s.box # q.settled
  <2> DEFINE r == [q EXCEPT !.at = "measure", !.asked = s.view, !.settled = s.box]
  <2>1. t = WithCall(s, c, r)
    BY <1>8 DEF q, AfterRendered
  <2>2. r \in CallRecord
    BY <1>0 DEF CallRecord, States, Stages
  <2>3. /\ r.at = "measure" /\ r.kind = q.kind /\ r.live = q.live /\ r.back = q.back /\ r.prior = q.prior
        /\ r.asked = s.view /\ r.settled = s.box
    BY <1>0 DEF CallRecord
  <2> HIDE DEF r
  <2>4. t \in States /\ ButCall(s, t) /\ t.odd = s.odd /\ t.call[c] = r /\ OthersAsBefore(s, t, c)
    BY <2>1, <2>2, CallChanged
  <2>5. Advanced(s, t, c)
    BY <1>0, <1>8, <2>3, <2>4 DEF Advanced, q
  <2>6. /\ t.view = s.view /\ t.committed = s.committed /\ t.rollback = s.rollback /\ t.shown = s.shown /\ t.kb = s.kb
        /\ t.box = s.box /\ t.resize = s.resize
    BY <2>4 DEF ButCall
  <2>7. Agrees(s) => Agrees(t)
    BY <2>4, <2>6 DEF Agrees
  <2>8. Fine(s) => Rendering(t, c)
    BY <1>2, <1>3, <1>8, <2>3, <2>4, <2>6, <2>7 DEF Rendering
  <2>9. Hopeful(r) => Hopeful(q)
    BY <1>2, <1>8
  <2>10. Fine(s) /\ ~s.odd.moved /\ s.kb.on /\ s.kb.call = c => FittingPage(t)
    BY <2>3, <2>4, <2>6 DEF FittingPage
  <2> QED
    BY <1>0, <2>4, <2>5, <2>8, <2>9, <2>10, AdvancedIsSound DEF q
<1> QED
  BY <1>0, <1>4, <1>5, <1>6, <1>7, <1>8

\* A stage ends of which the view is known to be what was committed.
LEMMA ReplacedIsSound ==
    ASSUME NEW s \in States, Sound(s), NEW c \in Call, NEW r \in CallRecord, Fine(s) => Sure(s.call[c]),
           s.call[c].at \notin {"idle", "transform", "render"},
           r.kind = s.call[c].kind, r.live = s.call[c].live, r.prior = s.call[c].prior, r.back = s.call[c].back,
           r.at \in {"undone", "synchronized", "refit-size"}, r.at = "undone" => ~r.ok /\ ~r.back,
           Fine(s) /\ r.live /\ r.at = "refit-size" => s.view.mode # "custom",
           r.at # "undone" => s.call[c].at \in {"sync", "refit-size", "refit"},
           NEW t, t = WithCall(s, c, r)
    PROVE  t \in States /\ Sound(t) /\ (DeferredIsAwaited(s) => DeferredIsAwaited(t))
<1> DEFINE q == s.call[c]
<1>1. t \in States /\ ButCall(s, t) /\ t.odd = s.odd /\ t.call[c] = r /\ OthersAsBefore(s, t, c)
  BY CallChanged
<1>2. Advanced(s, t, c)
  BY <1>1 DEF Advanced
<1>3. /\ t.view = s.view /\ t.committed = s.committed /\ t.rollback = s.rollback /\ t.shown = s.shown /\ t.kb = s.kb
      /\ t.box = s.box /\ t.resize = s.resize
  BY <1>1 DEF ButCall
<1>4. Fine(s) => Rendering(t, c)
  <2> SUFFICES ASSUME Fine(s), r.live PROVE Rendering(t, c)
    BY <1>1 DEF Rendering
  <2>1. (s.rollback.on => Of(q.prior) = s.rollback.to) /\ Agrees(s)
    BY DEF Sound, Presentation, Rendering
  <2>2. Agrees(t)
    BY <1>1, <1>3, <2>1 DEF Agrees
  <2> QED
    BY <1>1, <1>3, <2>1, <2>2 DEF Rendering
<1>5. Hopeful(r) => Hopeful(q) /\ q.at \in {"sync", "refit-size", "refit"}
  BY DEF Hopeful
<1>6. Fine(s) /\ ~s.odd.moved /\ s.kb.on /\ s.kb.call = c => FittingPage(t)
  BY <1>1, <1>3, <1>5 DEF Sound, Answers, FittingPage
<1> QED
  BY <1>1, <1>2, <1>4, <1>5, <1>6, AdvancedIsSound

\* Another of the pages that are shown becomes the active one.
LEMMA PageIsSound ==
    ASSUME NEW s \in States, Sound(s), NEW b \in Box, Fine(s) => \A d \in Call : s.call[d].live => s.call[d].at = "sync",
           NEW t, t = Shows(s, s.shown.scale, s.shown.topology, b)
    PROVE  /\ t \in States /\ Sound(t) /\ (DeferredIsAwaited(s) => DeferredIsAwaited(t))
           /\ ShownFrom(s, t, s.shown.scale, s.shown.topology, b)
<1>1. s.shown.scale \in Scale /\ s.shown.topology \in Topology
  BY DEF States
<1>2. t \in States /\ ShownFrom(s, t, s.shown.scale, s.shown.topology, b)
  BY <1>1, ShownView
<1>3. /\ t.shown = s.shown /\ t.view.scale = s.shown.scale /\ t.committed.scale = s.shown.scale /\ t.committed.mode = t.view.mode
      /\ ~s.wheel.on => t.view.mode = s.view.mode
      /\ ~t.rollback.on /\ t.odd = [s.odd EXCEPT !.kept = FALSE]
      /\ t.call = s.call /\ t.resize = s.resize /\ t.active = s.active /\ t.restore = s.restore /\ t.kb = s.kb
      /\ t.wheel = s.wheel /\ t.dirty = s.dirty /\ t.sync = s.sync
  <2>1. s.shown = [scale |-> s.shown.scale, topology |-> s.shown.topology]
    BY DEF States
  <2> QED
    BY <1>2, <2>1 DEF ShownFrom
<1>4. Owners(t)
  BY <1>3 DEF Sound, Owners
<1>5. ASSUME Fine(t) PROVE Presentation(t) /\ Answers(t)
  <2>1. Fine(s) /\ Presentation(s) /\ Answers(s) /\ (~t.odd.moved => ~s.odd.moved)
    BY <1>3, <1>5 DEF Sound, Fine, States
  <2>2. Alone(t)
    BY <1>3, <2>1 DEF Presentation, Alone
  <2>3. Displayed(t)
    BY <1>3, <2>1 DEF Presentation, Displayed
  <2>4. Agrees(t)
    BY <1>3 DEF Agrees
  <2>5. Wanted(t)
    BY <1>3, <2>4 DEF Wanted
  <2>6. ASSUME NEW d \in Call, s.call[d].live
        PROVE  ~s.wheel.on /\ Agrees(s) /\ s.call[d].at = "sync" /\ s.shown.scale = s.committed.scale
    <3>1. ~s.wheel.on /\ s.shown.scale = s.committed.scale
      BY <2>1, <2>6 DEF Presentation, Alone, Displayed
    <3>2. s.call[d].at = "sync" /\ Sure(s.call[d])
      BY <2>1, <2>6 DEF Sure
    <3> QED
      BY <2>1, <2>6, <3>1, <3>2 DEF Presentation, Rendering
  <2>7. ASSUME NEW d \in Call PROVE Rendering(t, d)
    BY <1>3, <2>4, <2>6 DEF Rendering
  <2>8. s.kb.call \in Call
    BY DEF States, KeyRecord
  <2>9. ASSUME ~t.odd.moved PROVE Typing(t) /\ FittingPage(t)
    <3>1. Typing(s) /\ FittingPage(s)
      BY <2>1, <2>9 DEF Answers
    <3>2. CASE s.kb.on /\ Hopeful(s.call[s.kb.call])
      <4>1. ~s.wheel.on /\ Agrees(s) /\ s.call[s.kb.call].at = "sync" /\ s.shown.scale = s.committed.scale
        BY <2>6, <2>8, <3>2 DEF Hopeful
      <4>2. t.view.mode = s.view.mode /\ (s.view.mode = "custom" => t.view.scale = s.view.scale)
        BY <1>3, <4>1 DEF Agrees
      <4>3. s.view.mode = "custom" => t.view = s.view
        BY <1>2, <4>2 DEF States, View
      <4>4. Typing(t)
        BY <1>3, <3>1, <3>2, <4>2, <4>3 DEF Typing
      <4>5. FittingPage(t)
        BY <1>3, <3>1, <3>2, <4>1 DEF FittingPage
      <4> QED
        BY <4>4, <4>5
    <3>3. CASE ~(s.kb.on /\ Hopeful(s.call[s.kb.call]))
      BY <1>3, <3>3 DEF Typing, FittingPage
    <3> QED
      BY <3>2, <3>3
  <2> QED
    BY <2>2, <2>3, <2>5, <2>7, <2>9 DEF Presentation, Answers
<1>6. DeferredIsAwaited(s) => DeferredIsAwaited(t)
  BY <1>3 DEF DeferredIsAwaited, Owned, Idle
<1> QED
  BY <1>2, <1>4, <1>5, <1>6 DEF Sound

LEMMA CommitIsSound ==
    ASSUME NEW s \in States, Sound(s), NEW c \in Call, s.call[c].at \in DOMAIN After, s.call[c].live,
           s.call[c].at = "render" => s.box = s.call[c].box, NEW b \in Box,
           NEW t, t = Committing(s, c, b)
    PROVE  t \in States /\ Sound(t) /\ (DeferredIsAwaited(s) => DeferredIsAwaited(t))
<1> DEFINE q == s.call[c]
           r == [q EXCEPT !.at = After[q.at], !.ok = TRUE]
           f == Shows(s, q.scale, q.topology, b)
<1>0. q \in CallRecord /\ q.scale \in Scale /\ q.topology \in Topology
  BY DEF States, CallRecord
<1> HIDE DEF q
<1>1. /\ q.at \in {"render", "undo", "refit"} /\ q.live
      /\ q.at = "render" => After[q.at] = "rendered"
      /\ q.at = "undo" => After[q.at] = "undone"
      /\ q.at = "refit" => After[q.at] = "synchronized"
  BY DEF After, q
<1>2. r \in CallRecord
  BY <1>0, <1>1 DEF CallRecord, Stages
<1>3. /\ r.at = After[q.at] /\ r.ok /\ r.kind = q.kind /\ r.live = q.live /\ r.back = q.back /\ r.corrected = q.corrected
      /\ r.prior = q.prior /\ r.box = q.box /\ r.settled = q.settled /\ r.asked = q.asked
  BY <1>0 DEF CallRecord
<1> HIDE DEF r, f
<1>4. f \in States /\ ShownFrom(s, f, q.scale, q.topology, b)
  BY <1>0, ShownView DEF f
<1>5. t \in States /\ ButCall(f, t) /\ t.odd = f.odd /\ t.call[c] = r /\ OthersAsBefore(f, t, c)
  BY <1>2, <1>4, CallChanged DEF f, r, q, Committing
<1>6. /\ t.shown = [scale |-> q.scale, topology |-> q.topology] /\ t.box = b
      /\ t.view = [mode |-> (IF s.wheel.on /\ q.scale = s.wheel.target THEN "custom" ELSE s.view.mode), scale |-> q.scale]
      /\ t.committed.mode = t.view.mode /\ t.committed.scale = q.scale
      /\ ~t.rollback.on /\ t.odd = [s.odd EXCEPT !.kept = FALSE]
      /\ t.resize = s.resize /\ t.active = s.active /\ t.restore = s.restore /\ t.kb = s.kb
      /\ t.wheel = s.wheel /\ t.dirty = s.dirty /\ t.sync.at = s.sync.at /\ (\A d \in Call : d # c => t.call[d] = s.call[d])
  <2>1. /\ t.shown = f.shown /\ t.box = f.box /\ t.view = f.view /\ t.committed = f.committed /\ t.rollback = f.rollback
        /\ t.odd = f.odd /\ t.resize = f.resize /\ t.active = f.active /\ t.restore = f.restore /\ t.kb = f.kb
        /\ t.wheel = f.wheel /\ t.dirty = f.dirty /\ t.sync.at = f.sync.at
    BY <1>5 DEF ButCall
  <2>2. f.call = s.call /\ \A d \in Call : d # c => t.call[d] = f.call[d]
    BY <1>4, <1>5 DEF OthersAsBefore, ShownFrom
  <2>3. \A d \in Call : d # c => t.call[d] = s.call[d]
    BY <2>2
  <2>4. /\ f.shown = [scale |-> q.scale, topology |-> q.topology] /\ f.box = b
        /\ f.view = [mode |-> (IF s.wheel.on /\ q.scale = s.wheel.target THEN "custom" ELSE s.view.mode), scale |-> q.scale]
        /\ f.committed.mode = f.view.mode /\ f.committed.scale = q.scale
        /\ ~f.rollback.on /\ f.odd = [s.odd EXCEPT !.kept = FALSE]
        /\ f.resize = s.resize /\ f.active = s.active /\ f.restore = s.restore /\ f.kb = s.kb
        /\ f.wheel = s.wheel /\ f.dirty = s.dirty /\ f.sync = s.sync
    BY <1>4 DEF ShownFrom
  <2> QED
    BY <2>1, <2>3, <2>4
<1>6a. /\ t.kb = s.kb /\ t.wheel = s.wheel /\ t.restore = s.restore /\ t.active = s.active /\ t.resize = s.resize
  BY <1>6
<1>7. s.kb.call \in Call
  BY DEF States, KeyRecord
<1>8. q.back => q.at = "refit"
  BY <1>1 DEF Sound, Owners, q
<1>9. Owners(t)
  <2>1. ASSUME NEW d \in Call
        PROVE  /\ t.call[d].kind = s.call[d].kind /\ (s.call[d].at # "idle" => t.call[d].at # "idle")
               /\ t.call[d].live => t.active /\ t.call[d].at # "idle"
               /\ t.call[d].back => t.call[d].at \in {"sync", "refit-size", "refit", "synchronized", "settled"}
               /\ t.call[d].at = "settled" /\ t.call[d].ok => t.call[d].live /\ ~t.call[d].back
    <3>1. CASE d = c
      BY <1>1, <1>3, <1>5, <1>6, <1>8, <3>1 DEF Sound, Owners, q
    <3>2. CASE d # c
      BY <1>6, <3>2 DEF Sound, Owners
    <3> QED
      BY <3>1, <3>2
  <2>2. s.kb.on => s.call[s.kb.call].kind = "keyboard" /\ s.call[s.kb.call].at # "idle" /\ s.kb.first # "none"
    BY DEF Sound, Owners
  <2>3. t.kb.on => t.call[t.kb.call].kind = "keyboard" /\ t.call[t.kb.call].at # "idle" /\ t.kb.first # "none"
    BY <1>6a, <1>7, <2>1, <2>2
  <2>4. /\ t.wheel.on <=> t.wheel.at # "none"
        /\ t.wheel.on => ~t.kb.on
        /\ t.wheel.fresh => t.wheel.scale = t.wheel.target
        /\ t.restore # "none" => t.active
    BY <1>6a DEF Sound, Owners
  <2> QED
    BY <2>1, <2>3, <2>4 DEF Owners
<1>10. ASSUME Fine(t) PROVE Presentation(t) /\ Answers(t)
  <2>1. Fine(s) /\ Presentation(s) /\ Answers(s) /\ (~t.odd.moved => ~s.odd.moved)
    BY <1>6, <1>10 DEF Sound, Fine, States
  <2>2. ~s.wheel.on /\ s.wheel.at = "none" /\ \A d \in Call : s.call[d].live => d = c
    BY <1>1, <2>1 DEF Presentation, Alone, Sound, Owners, q
  <2>3. Alone(t)
    BY <1>6, <2>2 DEF Alone
  <2>4. t.view = [mode |-> s.view.mode, scale |-> q.scale]
    BY <1>6, <2>2
  <2>5. t.view.mode = s.view.mode /\ t.view.scale = q.scale /\ t.shown.scale = q.scale /\ t.shown.topology = q.topology
    BY <1>6, <2>4
  <2>6. Displayed(t)
    BY <1>6, <2>2, <2>5 DEF Displayed
  <2>7. Agrees(t)
    BY <1>6, <2>5 DEF Agrees
  <2>8. Wanted(t)
    BY <1>6, <2>7 DEF Wanted, Agrees
  <2>9. Rendering(s, c)
    BY <2>1 DEF Presentation
  <2>10. q.at = "undo" => q.scale = q.prior.scale
    BY <1>1, <2>9 DEF Rendering, q
  <2>11. ASSUME NEW d \in Call PROVE Rendering(t, d)
    <3>1. CASE d = c
      BY <1>1, <1>3, <1>5, <1>6, <2>5, <2>7, <2>10, <3>1 DEF Rendering
    <3>2. CASE d # c
      BY <1>6, <2>2, <3>2 DEF Rendering
    <3> QED
      BY <3>1, <3>2
  <2>12. ASSUME ~t.odd.moved, s.kb.on, Hopeful(t.call[s.kb.call])
         PROVE  Typing(t) /\ FittingPage(t)
    <3>1. Typing(s) /\ FittingPage(s)
      BY <2>1, <2>12 DEF Answers
    <3>2. s.kb.call = c
      BY <1>6, <1>7, <2>2, <2>12 DEF Hopeful
    <3>3. Hopeful(q) /\ q.at # "undo" /\ r.at \in {"rendered", "synchronized"}
      BY <1>1, <1>3, <1>5, <2>12, <3>2 DEF Hopeful
    <3>4. s.view.mode = "custom" => q.at = "render" /\ q.scale = s.view.scale
      BY <1>1, <2>9, <3>3 DEF Rendering, q
    <3>5. s.view.mode = "custom" => t.view = s.view
      BY <2>4, <3>4 DEF States, View
    <3>5a. /\ ~s.kb.queued => s.kb.pending = NoIntent
           /\ s.kb.queued => s.kb.zoomed
           /\ s.kb.zoomed /\ s.kb.first # "zoom" => s.kb.queued
           /\ s.kb.first = "zoom" => /\ s.view.mode = "custom" /\ s.kb.zoomed
                                     /\ s.kb.typed[s.kb.base] = resolveZoomIntent(s.view.scale, s.kb.pending)
           /\ s.kb.first = "custom" => s.view = [mode |-> "custom", scale |-> ActualScale]
           /\ s.kb.first \in {"fit-width", "fit-page"} => s.view.mode = s.kb.first
           /\ s.kb.first # "zoom" => \A x \in Scale : s.kb.typed[x] = resolveZoomIntent(x, s.kb.pending)
      BY <2>12, <3>1, <3>2, <3>3 DEF Typing, q
    <3>6. Typing(t)
      <4>1. CASE s.view.mode = "custom"
        <5>1. t.view = s.view /\ t.kb = s.kb
          BY <1>6a, <3>5, <4>1
        <5> QED
          BY <3>5a, <5>1 DEF Typing
      <4>2. CASE s.view.mode # "custom"
        <5>1. s.kb.first \notin {"zoom", "custom"}
          BY <3>5a, <4>2
        <5> QED
          BY <1>6a, <2>5, <3>5a, <5>1 DEF Typing
      <4> QED
        BY <4>1, <4>2
    <3>7. s.kb.first = "fit-page" =>
            /\ q.at = "render" /\ q.scale = PageScale(q.box) /\ q.topology = "single-page"
            /\ "new" \notin s.resize => q.settled = q.box
      BY <1>1, <2>12, <3>1, <3>2, <3>3 DEF FittingPage, q
    <3>8. s.kb.first = "fit-page" =>
            /\ r.at = "rendered" /\ t.shown.topology = "single-page"
            /\ "new" \notin s.resize => t.committed.scale = PageScale(r.settled)
      BY <1>1, <1>3, <1>6, <2>5, <3>7
    <3>9. FittingPage(t)
      BY <1>5, <1>6a, <3>2, <3>8 DEF FittingPage
    <3> QED
      BY <3>6, <3>9
  <2>13. Answers(t)
    <3>1. CASE s.kb.on /\ Hopeful(t.call[s.kb.call])
      BY <2>12, <3>1 DEF Answers
    <3>2. CASE ~(s.kb.on /\ Hopeful(t.call[s.kb.call]))
      BY <1>6, <3>2 DEF Answers, Typing, FittingPage
    <3> QED
      BY <3>1, <3>2
  <2> QED
    BY <2>3, <2>6, <2>8, <2>11, <2>13 DEF Presentation
<1>11. DeferredIsAwaited(s) => DeferredIsAwaited(t)
  BY <1>1, <1>3, <1>5, <1>6 DEF DeferredIsAwaited, Owned, Idle
<1> QED
  BY <1>5, <1>9, <1>10, <1>11 DEF Sound

LEMMA MeasureIsSound ==
    ASSUME NEW s \in States, Sound(s), NEW c \in Call, s.call[c].at = "measure", NEW ok \in BOOLEAN,
           NEW t, t = AfterMeasure(s, c, ok)
    PROVE  t \in States /\ Sound(t) /\ (DeferredIsAwaited(s) => DeferredIsAwaited(t))
<1> DEFINE q == s.call[c]  scale == FitScale(q.asked, s.box)
<1>0. q \in CallRecord /\ ~q.back /\ q.at = "measure" /\ q.asked \in View /\ s.box \in Box
  BY DEF States, Sound, Owners, CallRecord
<1>1. scale \in Scale
  BY <1>0, ScaleFits
<1>2. Sure(q) /\ (q.live => Hopeful(q))
  BY <1>0 DEF Sure, Hopeful
<1>3. Fine(s) /\ q.live => q.asked = s.view /\ Agrees(s) /\ (s.rollback.on => Of(q.prior) = s.rollback.to)
  BY <1>0, <1>2 DEF Sound, Presentation, Rendering
<1>4. Fine(s) /\ q.live /\ ~s.odd.moved /\ s.kb.on /\ s.kb.call = c /\ s.kb.first = "fit-page" =>
        /\ scale = PageScale(s.box) /\ s.view.mode = "fit-page"
        /\ "new" \notin s.resize => q.settled = s.box
  <2> SUFFICES ASSUME Fine(s), q.live, ~s.odd.moved, s.kb.on, s.kb.call = c, s.kb.first = "fit-page"
               PROVE  /\ scale = PageScale(s.box) /\ s.view.mode = "fit-page"
                      /\ "new" \notin s.resize => q.settled = s.box
    OBVIOUS
  <2>1. Typing(s) /\ FittingPage(s) /\ Hopeful(q)
    BY <1>2 DEF Sound, Answers
  <2>2. s.view.mode = "fit-page" /\ ("new" \notin s.resize => q.settled = s.box)
    BY <1>0, <2>1 DEF Typing, FittingPage
  <2>3. q.asked.mode = "fit-page"
    BY <1>3, <2>2
  <2> QED
    BY <1>0, <2>2, <2>3, FitsPage
<1> HIDE DEF q, scale
<1>5. CASE ~q.live
  <2>1. t = Settle(s, c, FALSE)
    BY <1>5 DEF q, AfterMeasure
  <2> QED
    BY <1>0, <2>1, SettleIsSound DEF q
<1>6. CASE q.live /\ (~ok \/ (scale # s.committed.scale /\ q.corrected))
  <2>1. t = Undo(s, c)
    BY <1>6 DEF q, scale, AfterMeasure
  <2> QED
    BY <1>0, <1>2, <1>6, <2>1, UndoIsSound DEF q
<1>7. CASE q.live /\ ok /\ scale = s.committed.scale
  <2>1. t = Settle(s, c, TRUE)
    BY <1>7 DEF q, scale, AfterMeasure
  <2> QED
    BY <1>0, <1>2, <1>4, <1>7, <2>1, SettleIsSound DEF q
<1>8. CASE q.live /\ ok /\ scale # s.committed.scale /\ ~q.corrected
  <2> DEFINE p == [q EXCEPT !.corrected = TRUE]
             u == WithCall(s, c, p)
             r == t.call[c]
             topology == TopologyOf(s.view.mode)
  <2>1. t = AskPage(u, c, scale)
    BY <1>8 DEF q, scale, AfterMeasure
  <2>2. p \in CallRecord
    BY <1>0 DEF CallRecord
  <2>3. /\ p.kind = q.kind /\ p.live = q.live /\ p.back = q.back /\ p.prior = q.prior
        /\ p.settled = q.settled /\ p.corrected
    BY <1>0 DEF CallRecord
  <2> HIDE DEF p
  <2>4. u \in States /\ ButCall(s, u) /\ u.odd = s.odd /\ u.call[c] = p /\ OthersAsBefore(s, u, c)
    BY <2>2, CallChanged
  <2> HIDE DEF u
  <2>5. /\ t \in States /\ ButCall(u, t) /\ OthersAsBefore(u, t, c)
        /\ t.odd.broken = u.odd.broken /\ t.odd.both = u.odd.both /\ t.odd.moved = u.odd.moved
        /\ Unasked([u.call[c] EXCEPT !.box = u.box], r)
        /\ r.scale = scale /\ r.topology = TopologyOf(u.view.mode)
        /\ \/ /\ u.shown = [scale |-> scale, topology |-> TopologyOf(u.view.mode)] /\ r.at = "rendered"
              /\ r.ok /\ t.odd.kept = (u.view.mode # u.committed.mode)
           \/ r.at = "render" /\ t.odd.kept = u.odd.kept
    BY <1>1, <2>1, <2>4, PageAsked
  <2>6. ButCall(s, t) /\ OthersAsBefore(s, t, c)
    BY <2>4, <2>5 DEF ButCall, OthersAsBefore
  <2>7. u.shown = s.shown /\ u.view = s.view /\ u.committed = s.committed /\ u.box = s.box
    BY <2>4 DEF ButCall
  <2>8. /\ r.kind = p.kind /\ r.live = p.live /\ r.back = p.back /\ r.prior = p.prior /\ r.settled = p.settled /\ r.corrected
        /\ r.box = s.box
    BY <2>2, <2>3, <2>4, <2>5, <2>7 DEF Unasked, CallRecord
  <2> HIDE DEF r, topology
  <2>9. /\ r.scale = scale /\ r.topology = topology
        /\ \/ /\ s.shown = [scale |-> scale, topology |-> topology] /\ r.at = "rendered"
              /\ r.ok /\ t.odd.kept = (s.view.mode # s.committed.mode)
           \/ r.at = "render" /\ t.odd.kept = s.odd.kept
        /\ t.odd.broken = s.odd.broken /\ t.odd.both = s.odd.both /\ t.odd.moved = s.odd.moved
    BY <2>4, <2>5, <2>7 DEF topology
  <2>10. Advanced(s, t, c)
    BY <1>0, <2>3, <2>6, <2>8, <2>9 DEF Advanced, q, r
  <2>11. /\ t.view = s.view /\ t.committed = s.committed /\ t.rollback = s.rollback /\ t.shown = s.shown /\ t.kb = s.kb
         /\ t.box = s.box /\ t.resize = s.resize
    BY <2>6 DEF ButCall
  <2>12. Agrees(s) => Agrees(t)
    BY <2>9, <2>11, StillAgrees
  <2>13. Fine(s) /\ s.view.mode = "custom" => scale = s.view.scale
    BY <1>0, <1>3, <1>8, FitsPage DEF scale
  <2>14. Fine(s) => Rendering(t, c)
    BY <1>3, <1>8, <2>3, <2>8, <2>9, <2>11, <2>12, <2>13 DEF Rendering, r
  <2>15. Hopeful(q)
    BY <1>2, <1>8
  <2>16. ASSUME Fine(s), ~s.odd.moved, s.kb.on, s.kb.call = c PROVE FittingPage(t)
    <3> SUFFICES ASSUME s.kb.first = "fit-page" PROVE FittingPage(t)
      BY <2>11 DEF FittingPage
    <3>1. scale = PageScale(s.box) /\ topology = "single-page" /\ ("new" \notin s.resize => r.settled = s.box)
      BY <1>4, <1>8, <2>3, <2>8, <2>16 DEF TopologyOf, topology
    <3>2. s.shown.scale = s.committed.scale
      BY <2>16 DEF Sound, Presentation, Displayed
    <3>3. /\ r.at \in {"transform", "render", "rendered", "measure", "settled"}
          /\ r.at = "render" => r.scale = PageScale(r.box) /\ r.topology = "single-page"
          /\ r.at = "rendered" => t.shown.topology = "single-page"
      BY <2>8, <2>9, <2>11, <3>1
    <3>4. "new" \notin t.resize =>
             /\ r.at \in {"transform", "render"} => r.box = t.box /\ r.settled = r.box
             /\ r.at = "rendered" => t.committed.scale = PageScale(r.settled)
             /\ r.at = "measure" => r.settled = t.box
             /\ r.at = "settled" => t.committed.scale = PageScale(t.box)
      BY <2>8, <2>9, <2>11, <3>1, <3>2
    <3>5. t.kb.call = c
      BY <2>11, <2>16
    <3> QED
      BY <3>3, <3>4, <3>5 DEF FittingPage, r
  <2> QED
    BY <1>0, <2>5, <2>10, <2>14, <2>15, <2>16, AdvancedIsSound DEF q
<1> QED
  BY <1>5, <1>6, <1>7, <1>8

LEMMA UndoneIsSound ==
    ASSUME NEW s \in States, Sound(s), NEW c \in Call, s.call[c].at = "undone", NEW t, t = AfterUndone(s, c)
    PROVE  t \in States /\ Sound(t) /\ (DeferredIsAwaited(s) => DeferredIsAwaited(t))
<1> DEFINE q == s.call[c]
           back == [s EXCEPT !.view = Of(q.prior), !.committed = q.prior, !.odd.kept = FALSE]
           broken == [s EXCEPT !.odd.broken = TRUE]
<1>0. q \in CallRecord /\ q.at = "undone" /\ q.prior \in Committed /\ Of(q.prior) \in View
  BY DEF States, CallRecord, Of, Committed, View
<1>1. CASE ~q.live
  <2>1. t = Settle(s, c, FALSE)
    BY <1>1 DEF AfterUndone
  <2> QED
    BY <2>1, SettleIsSound
<1>2. CASE q.live /\ ~q.ok
  <2>1. t = Settle(broken, c, FALSE)
    BY <1>2 DEF AfterUndone
  <2>2. /\ broken \in States /\ ~Fine(broken) /\ broken.call = s.call /\ broken.kb = s.kb /\ broken.wheel = s.wheel
        /\ broken.active = s.active /\ broken.restore = s.restore /\ broken.sync = s.sync
    BY DEF States, Fine
  <2> HIDE DEF broken
  <2>3. Sound(broken)
    BY <2>2 DEF Sound, Owners
  <2>4. DeferredIsAwaited(s) => DeferredIsAwaited(broken)
    BY <2>2 DEF DeferredIsAwaited, Owned, Idle
  <2> QED
    BY <1>0, <2>1, <2>2, <2>3, <2>4, SettleIsSound
<1>3. CASE q.live /\ q.ok
  <2>1. /\ back \in States /\ back.view = Of(q.prior) /\ back.committed = q.prior /\ back.odd = [s.odd EXCEPT !.kept = FALSE]
        /\ back.call = s.call /\ back.kb = s.kb /\ back.wheel = s.wheel /\ back.rollback = s.rollback /\ back.dirty = s.dirty
        /\ back.shown = s.shown /\ back.active = s.active /\ back.restore = s.restore /\ back.sync = s.sync
    BY <1>0 DEF States
  <2>2. t = (IF q.prior.mode = "fit-page" THEN Settle(back, c, FALSE) ELSE Synchronize(back, c, TRUE))
    BY <1>3 DEF AfterUndone
  <2> HIDE DEF back, q
  <2>3. back.view.mode = q.prior.mode /\ back.view.scale = q.prior.scale
    BY <2>1 DEF Of
  <2>4. Agrees(back)
    BY <2>1, <2>3 DEF Agrees
  <2>5. Owners(back)
    BY <2>1 DEF Sound, Owners
  <2>6. ASSUME Fine(back) PROVE Presentation(back) /\ Answers(back)
    <3>1. Fine(s) /\ Presentation(s) /\ Answers(s)
      BY <2>1, <2>6 DEF Sound, Fine, States
    <3>2. ~s.wheel.on /\ s.wheel.at = "none" /\ \A d \in Call : s.call[d].live => d = c
      BY <1>3, <3>1 DEF Presentation, Alone, Sound, Owners, q
    <3>3. s.shown.scale = q.prior.scale /\ (s.rollback.on => s.rollback.to = Of(q.prior))
      BY <1>0, <1>3, <3>1 DEF Presentation, Rendering, q
    <3>4. Alone(back)
      BY <2>1, <3>2 DEF Alone
    <3>5. Displayed(back)
      BY <2>1, <3>2, <3>3 DEF Displayed
    <3>6. Wanted(back)
      BY <2>1, <2>3, <2>4, <3>3 DEF Wanted
    <3>7. ASSUME NEW d \in Call PROVE Rendering(back, d)
      BY <1>0, <2>1, <2>4, <3>2, <3>3 DEF Rendering, q
    <3>8. s.kb.call \in Call
      BY DEF States, KeyRecord
    <3>9. ~Hopeful(s.call[s.kb.call])
      BY <1>0, <3>2, <3>8 DEF Hopeful, q
    <3>10. Answers(back)
      BY <2>1, <3>9 DEF Answers, Typing, FittingPage
    <3> QED
      BY <3>4, <3>5, <3>6, <3>7, <3>10 DEF Presentation
  <2>7. Sound(back)
    BY <2>5, <2>6 DEF Sound
  <2>8. DeferredIsAwaited(s) => DeferredIsAwaited(back)
    BY <2>1 DEF DeferredIsAwaited, Owned, Idle
  <2>9. back.call[c].at = "undone"
    BY <1>0, <2>1 DEF q
  <2>10. CASE q.prior.mode = "fit-page"
    BY <2>1, <2>2, <2>7, <2>8, <2>9, <2>10, SettleIsSound
  <2>11. CASE q.prior.mode # "fit-page"
    BY <2>1, <2>2, <2>4, <2>7, <2>8, <2>9, <2>11, SynchronizeIsSound
  <2> QED
    BY <2>10, <2>11
<1> QED
  BY <1>1, <1>2, <1>3, <1>0 DEF CallRecord

LEMMA SettlesIsSound ==
    ASSUME NEW s \in States, Sound(s), NEW c \in Call, s.call[c].at = "synchronized",
           NEW t, t = IF ~s.call[c].live \/ s.call[c].back \/ s.call[c].ok
                      THEN Settle(s, c, s.call[c].live /\ s.call[c].ok /\ ~s.call[c].back) ELSE Undo(s, c)
    PROVE  t \in States /\ Sound(t) /\ (DeferredIsAwaited(s) => DeferredIsAwaited(t))
<1> DEFINE q == s.call[c]  ok == q.live /\ q.ok /\ ~q.back
<1>0. q \in CallRecord /\ q.at = "synchronized" /\ ok \in BOOLEAN
  BY DEF States, CallRecord
<1>1. Sure(q) /\ (ok => Hopeful(q))
  BY DEF Sure, Hopeful
<1>2. CASE ~q.live \/ q.back \/ q.ok
  <2>1. t = Settle(s, c, ok)
    BY <1>2
  <2>2. Fine(s) /\ ok /\ ~s.odd.moved /\ s.kb.on /\ s.kb.call = c => s.kb.first # "fit-page"
    BY <1>0, <1>1 DEF Sound, Answers, FittingPage
  <2> HIDE DEF ok
  <2> QED
    BY <1>0, <1>1, <2>1, <2>2, SettleIsSound
<1>3. CASE ~(~q.live \/ q.back \/ q.ok)
  <2>1. t = Undo(s, c)
    BY <1>3
  <2> QED
    BY <1>1, <1>3, <2>1, UndoIsSound
<1> QED
  BY <1>2, <1>3

LEMMA RefitIsSound ==
    ASSUME NEW s \in States, Sound(s), NEW c \in Call, s.call[c].at = "refit-size", s.call[c].live,
           NEW t, t = Ask(s, c, "refit", FitScale(s.call[c].asked, s.box), s.shown.topology)
    PROVE  t \in States /\ Sound(t) /\ (DeferredIsAwaited(s) => DeferredIsAwaited(t))
<1> DEFINE q == s.call[c]  r == t.call[c]  scale == FitScale(q.asked, s.box)
<1>0. q \in CallRecord /\ q.at = "refit-size" /\ q.live /\ q.asked \in View /\ s.box \in Box /\ s.shown.topology \in Topology
  BY DEF States, CallRecord
<1>1. scale \in Scale /\ "refit" \in DOMAIN After /\ After["refit"] = "synchronized"
  BY <1>0, ScaleFits DEF After
<1>2. t \in States /\ AskedFrom(s, t, c, "refit", scale, s.shown.topology)
  BY <1>0, <1>1, AskedCall
<1>3. /\ ButCall(s, t) /\ OthersAsBefore(s, t, c)
      /\ t.odd.broken = s.odd.broken /\ t.odd.both = s.odd.both /\ t.odd.moved = s.odd.moved
      /\ r.kind = q.kind /\ r.live = q.live /\ r.back = q.back /\ r.prior = q.prior
      /\ \/ r.at = "synchronized" /\ t.odd.kept = (s.view.mode # s.committed.mode)
         \/ r.at = "refit" /\ t.odd.kept = s.odd.kept
  BY <1>1, <1>2 DEF AskedFrom, Unasked
<1> HIDE DEF q, r
<1>4. Advanced(s, t, c)
  BY <1>0, <1>3 DEF Advanced, q, r
<1>5. /\ t.view = s.view /\ t.committed = s.committed /\ t.rollback = s.rollback /\ t.shown = s.shown /\ t.kb = s.kb
  BY <1>3 DEF ButCall
<1>6. ASSUME Fine(s) PROVE Rendering(t, c)
  <2>1. s.view.mode # "custom" /\ (s.rollback.on => Of(q.prior) = s.rollback.to) /\ Agrees(s)
    BY <1>0, <1>6 DEF Sound, Presentation, Rendering, Sure, q
  <2>2. Agrees(t)
    BY <1>3, <1>5, <2>1, StillAgrees
  <2> QED
    BY <1>3, <1>5, <2>1, <2>2 DEF Rendering, r
<1>7. Hopeful(r) => Hopeful(q)
  BY <1>0, <1>3 DEF Hopeful
<1>8. Fine(s) /\ ~s.odd.moved /\ s.kb.on /\ s.kb.call = c => FittingPage(t)
  BY <1>0, <1>5, <1>7 DEF Sound, Answers, FittingPage, q, r
<1> QED
  BY <1>0, <1>2, <1>4, <1>6, <1>7, <1>8, AdvancedIsSound DEF q, r

-----------------------------------------------------------------------------
(* A rendering that begins *)

BegunFrom(s, t, c, kind) ==
    /\ ButCall(s, t) /\ OthersAsBefore(s, t, c)
    /\ t.odd.broken = s.odd.broken /\ t.odd.moved = s.odd.moved
    /\ t.odd.both = (s.odd.both \/ s.wheel.on \/ \E d \in Call : s.call[d].live)
    /\ t.call[c].kind = kind /\ t.call[c].live /\ t.call[c].asked = s.view /\ t.call[c].box = s.box /\ t.call[c].settled = s.box
    /\ ~t.call[c].corrected /\ ~t.call[c].back /\ t.call[c].prior = s.committed
    /\ \/ s.view.mode # "custom" /\ t.call[c].at = "transform" /\ t.odd.kept = s.odd.kept
       \/ /\ s.view.mode = "custom" /\ t.call[c].at = "render" /\ t.call[c].scale = s.view.scale /\ t.odd.kept = s.odd.kept
          /\ s.shown # [scale |-> s.view.scale, topology |-> "continuous"]
       \/ /\ s.view.mode = "custom" /\ t.call[c].at = "rendered" /\ t.call[c].ok
          /\ s.shown = [scale |-> s.view.scale, topology |-> "continuous"] /\ t.odd.kept = (s.view.mode # s.committed.mode)

BothMarked(s, both) == [s EXCEPT !.odd.both = both]

LEMMA BothKnown ==
    ASSUME NEW s \in States, NEW both \in BOOLEAN
    PROVE  /\ BothMarked(s, both) \in States /\ ButCall(s, BothMarked(s, both)) /\ BothMarked(s, both).call = s.call
           /\ BothMarked(s, both).odd.broken = s.odd.broken /\ BothMarked(s, both).odd.both = both
           /\ BothMarked(s, both).odd.moved = s.odd.moved /\ BothMarked(s, both).odd.kept = s.odd.kept
  BY DEF BothMarked, States, ButCall

LEMMA BegunCall ==
    ASSUME NEW s \in States, NEW c \in Call, NEW kind \in {"none", "keyboard", "frame", "restore"}
    PROVE  Begin(s, c, kind) \in States /\ BegunFrom(s, Begin(s, c, kind), c, kind)
<1> DEFINE t == Begin(s, c, kind)
           both == s.odd.both \/ s.wheel.on \/ \E d \in Call : s.call[d].live
           u == BothMarked(s, both)
           p == [IdleCall EXCEPT !.at = "transform", !.kind = kind, !.live = TRUE, !.asked = s.view,
                                 !.box = s.box, !.settled = s.box, !.prior = s.committed]
           w == WithCall(u, c, p)
<1>1. both \in BOOLEAN /\ s.odd.both \in BOOLEAN /\ s.box \in Box /\ s.view \in View /\ s.committed \in Committed
  BY DEF States
<1>2. IdleCall \in CallRecord /\ IdleCall.corrected = FALSE /\ IdleCall.back = FALSE
  BY <1>1, Defaults DEF IdleCall
<1>3. p \in CallRecord
  BY <1>1, <1>2 DEF CallRecord, Stages
<1>4. /\ p.kind = kind /\ p.live /\ p.asked = s.view /\ p.box = s.box /\ p.settled = s.box /\ ~p.corrected /\ ~p.back
      /\ p.prior = s.committed /\ p.at = "transform"
  BY <1>1, <1>2 DEF CallRecord
<1>5. t = IF s.view.mode = "custom" THEN AskPage(w, c, s.view.scale) ELSE w
  BY DEF Begin, WithCall, BothMarked, States
<1> HIDE DEF p, both, t
<1>6. /\ u \in States /\ ButCall(s, u) /\ u.call = s.call /\ u.odd.broken = s.odd.broken /\ u.odd.both = both
      /\ u.odd.moved = s.odd.moved /\ u.odd.kept = s.odd.kept
  BY <1>1, BothKnown
<1> HIDE DEF u
<1>7. w \in States /\ ButCall(u, w) /\ w.odd = u.odd /\ w.call[c] = p /\ OthersAsBefore(u, w, c)
  BY <1>3, <1>6, CallChanged
<1> HIDE DEF w
<1>8. ButCall(s, w) /\ OthersAsBefore(s, w, c)
  BY <1>6, <1>7 DEF ButCall, OthersAsBefore
<1>9. /\ w.odd.broken = s.odd.broken /\ w.odd.both = both /\ w.odd.moved = s.odd.moved /\ w.odd.kept = s.odd.kept
      /\ w.view = s.view /\ w.committed = s.committed /\ w.shown = s.shown /\ w.box = s.box
  BY <1>6, <1>7, <1>8 DEF ButCall
<1>10. CASE s.view.mode # "custom"
  <2>1. t = w
    BY <1>5, <1>10
  <2>2. BegunFrom(s, w, c, kind)
    BY <1>4, <1>7, <1>8, <1>9, <1>10 DEF BegunFrom, both
  <2> QED
    BY <1>7, <2>1, <2>2 DEF t
<1>11. CASE s.view.mode = "custom"
  <2> DEFINE r == t.call[c]
  <2>1. t = AskPage(w, c, s.view.scale) /\ s.view.scale \in Scale
    BY <1>1, <1>5, <1>11 DEF View
  <2>2. TopologyOf(w.view.mode) = "continuous"
    BY <1>9, <1>11 DEF TopologyOf
  <2>3. /\ t \in States /\ ButCall(w, t) /\ OthersAsBefore(w, t, c)
        /\ t.odd.broken = w.odd.broken /\ t.odd.both = w.odd.both /\ t.odd.moved = w.odd.moved
        /\ Unasked([w.call[c] EXCEPT !.box = w.box], r)
        /\ r.scale = s.view.scale
        /\ \/ /\ w.shown = [scale |-> s.view.scale, topology |-> "continuous"] /\ r.at = "rendered"
              /\ r.ok /\ t.odd.kept = (w.view.mode # w.committed.mode)
           \/ /\ w.shown # [scale |-> s.view.scale, topology |-> "continuous"] /\ r.at = "render" /\ t.odd.kept = w.odd.kept
    BY <1>7, <2>1, <2>2, PageAsked
  <2>4. [w.call[c] EXCEPT !.box = w.box] = p
    BY <1>3, <1>4, <1>7, <1>9 DEF CallRecord
  <2>5. Unasked(p, r)
    BY <2>3, <2>4
  <2>6. ButCall(s, t) /\ OthersAsBefore(s, t, c)
    BY <1>8, <2>3 DEF ButCall, OthersAsBefore
  <2> HIDE DEF r
  <2>7. /\ r.kind = kind /\ r.live /\ r.asked = s.view /\ r.box = s.box /\ r.settled = s.box /\ ~r.corrected /\ ~r.back
        /\ r.prior = s.committed
    BY <1>4, <2>5 DEF Unasked
  <2>8. /\ t.odd.broken = s.odd.broken /\ t.odd.both = both /\ t.odd.moved = s.odd.moved
        /\ \/ /\ s.shown = [scale |-> s.view.scale, topology |-> "continuous"] /\ r.at = "rendered"
              /\ r.ok /\ t.odd.kept = (s.view.mode # s.committed.mode)
           \/ /\ s.shown # [scale |-> s.view.scale, topology |-> "continuous"] /\ r.at = "render" /\ t.odd.kept = s.odd.kept
        /\ r.scale = s.view.scale
    BY <1>9, <2>3
  <2>9. BegunFrom(s, t, c, kind)
    BY <1>11, <2>6, <2>7, <2>8 DEF BegunFrom, r, both
  <2> QED
    BY <2>3, <2>9 DEF t
<1> QED
  BY <1>10, <1>11

LEMMA BegunIsOwned ==
    ASSUME NEW s \in States, NEW t, NEW c \in Call, NEW kind, BegunFrom(s, t, c, kind), s.active
    PROVE  DeferredIsAwaited(t)
  BY DEF BegunFrom, ButCall, DeferredIsAwaited, Owned, Idle

\* What every beginning of a rendering has in common.
LEMMA BegunPresents ==
    ASSUME NEW s \in States, NEW t \in States, NEW c \in Call, NEW kind, BegunFrom(s, t, c, kind), ~s.wheel.on,
           s.wheel.at = "none", \A d \in Call : ~s.call[d].live, s.shown.scale = s.committed.scale,
           s.view.mode = s.committed.mode \/ s.odd.kept \/ s.dirty \/ Pending(t) \/ Agrees(t),
           Agrees(s) \/ s.dirty \/ Pending(t) \/ Agrees(t) \/ s.odd.moved,
           s.rollback.on => s.rollback.to = Of(s.committed),
           s.view.mode = "custom" /\ s.view.scale = s.committed.scale /\ s.shown.topology = "continuous" =>
             s.committed.mode = "custom" \/ s.odd.kept \/ t.call[c].at = "rendered"
    PROVE  Presentation(t)
<1> DEFINE r == t.call[c]
<1>1. /\ t.view = s.view /\ t.committed = s.committed /\ t.rollback = s.rollback /\ t.shown = s.shown /\ t.kb = s.kb
      /\ t.box = s.box /\ t.resize = s.resize /\ t.wheel = s.wheel /\ t.dirty = s.dirty /\ t.odd.moved = s.odd.moved
  BY DEF BegunFrom, ButCall
<1>2. \A d \in Call : t.call[d].live => d = c
  BY DEF BegunFrom, OthersAsBefore
<1>3. t.odd.kept = s.odd.kept \/ t.odd.kept = (s.view.mode # s.committed.mode)
  BY DEF BegunFrom
<1>4. Alone(t)
  BY <1>1, <1>2 DEF Alone
<1>5. Displayed(t)
  BY <1>1 DEF Displayed
<1>6. /\ Agrees(s) => Agrees(t)
      /\ s.view.mode = s.committed.mode \/ s.odd.kept => t.view.mode = t.committed.mode \/ t.odd.kept
      /\ s.committed.mode = "custom" \/ s.odd.kept => t.committed.mode = "custom" \/ t.odd.kept \/ s.view.mode # "custom"
  BY <1>1, <1>3, StillAgrees
<1>7. r.at = "rendered" => Agrees(t) /\ (t.view.mode = "custom" /\ (t.committed.mode = "custom" \/ t.odd.kept))
  <2> SUFFICES ASSUME r.at = "rendered" PROVE Agrees(t) /\ t.view.mode = "custom" /\ (t.committed.mode = "custom" \/ t.odd.kept)
    OBVIOUS
  <2>1. s.view.mode = "custom" /\ s.shown = [scale |-> s.view.scale, topology |-> "continuous"]
        /\ t.odd.kept = (s.view.mode # s.committed.mode)
    BY DEF BegunFrom
  <2>2. s.view.scale = s.committed.scale
    BY <2>1
  <2> QED
    BY <1>1, <2>1, <2>2 DEF Agrees
<1>8. Wanted(t)
  <2>1. t.view.mode = t.committed.mode \/ t.odd.kept \/ t.dirty \/ Pending(t)
    BY <1>1, <1>6 DEF Agrees
  <2>2. Agrees(t) \/ t.dirty \/ Pending(t) \/ t.odd.moved
    BY <1>1, <1>6
  <2>3. t.view.mode = "custom" /\ t.view.scale = t.committed.scale /\ t.shown.topology = "continuous" =>
          t.committed.mode = "custom" \/ t.odd.kept
    BY <1>1, <1>6, <1>7
  <2> QED
    BY <1>1, <2>1, <2>2, <2>3 DEF Wanted
<1>9. ASSUME NEW d \in Call PROVE Rendering(t, d)
  <2>1. CASE d = c
    <3>1. /\ r.asked = s.view /\ ~r.corrected /\ r.prior = s.committed
          /\ r.at \in {"transform", "render", "rendered"}
          /\ r.at = "transform" => s.view.mode # "custom"
          /\ r.at = "render" => r.scale = s.view.scale
      BY DEF BegunFrom
    <3>2. Sure(r) => r.at = "rendered"
      BY <3>1 DEF Sure
    <3>3. s.rollback.on => Of(r.prior) = s.rollback.to
      BY <3>1
    <3> QED
      BY <1>1, <1>7, <2>1, <3>1, <3>2, <3>3 DEF Rendering
  <2>2. CASE d # c
    BY <1>2, <2>2 DEF Rendering
  <2> QED
    BY <2>1, <2>2
<1> QED
  BY <1>4, <1>5, <1>8, <1>9 DEF Presentation

LEMMA BegunOwners ==
    ASSUME NEW s \in States, NEW t \in States, NEW c \in Call, NEW kind, BegunFrom(s, t, c, kind), s.active,
           s.wheel.on <=> s.wheel.at # "none", s.wheel.on => ~s.kb.on, s.wheel.fresh => s.wheel.scale = s.wheel.target,
           s.kb.on => /\ s.kb.first # "none"
                      /\ IF s.kb.call = c THEN kind = "keyboard"
                         ELSE s.call[s.kb.call].kind = "keyboard" /\ s.call[s.kb.call].at # "idle",
           \A d \in Call : d # c =>
             /\ s.call[d].live => s.active /\ s.call[d].at # "idle"
             /\ s.call[d].back => s.call[d].at \in {"sync", "refit-size", "refit", "synchronized", "settled"}
             /\ s.call[d].at = "settled" /\ s.call[d].ok => s.call[d].live /\ ~s.call[d].back
    PROVE  Owners(t)
<1>1. t.kb = s.kb /\ t.wheel = s.wheel /\ t.restore = s.restore /\ t.active = s.active
  BY DEF BegunFrom, ButCall
<1>2. \A d \in Call : d # c => t.call[d] = s.call[d]
  BY DEF BegunFrom, OthersAsBefore
<1>3. t.call[c].kind = kind /\ t.call[c].at \in {"transform", "render", "rendered"} /\ ~t.call[c].back
  BY DEF BegunFrom
<1>4. s.kb.call \in Call
  BY DEF States, KeyRecord
<1>5. t.kb.on => t.call[t.kb.call].kind = "keyboard" /\ t.call[t.kb.call].at # "idle" /\ t.kb.first # "none"
  BY <1>1, <1>2, <1>3, <1>4
<1>6. ASSUME NEW d \in Call
      PROVE  /\ t.call[d].live => t.active /\ t.call[d].at # "idle"
             /\ t.call[d].back => t.call[d].at \in {"sync", "refit-size", "refit", "synchronized", "settled"}
             /\ t.call[d].at = "settled" /\ t.call[d].ok => t.call[d].live /\ ~t.call[d].back
  BY <1>1, <1>2, <1>3
<1> QED
  BY <1>1, <1>5, <1>6 DEF Owners

\* A frame, or the activation, begins to render.
LEMMA OtherBegins ==
    ASSUME NEW s \in States, Sound(s), s.active, NEW c \in Call, s.kb.on => s.kb.call # c, NEW kind \in {"frame", "restore"},
           NEW t, t = Begin(s, c, kind)
    PROVE  t \in States /\ Sound(t) /\ DeferredIsAwaited(t)
<1>1. t \in States /\ BegunFrom(s, t, c, kind)
  BY BegunCall
<1>2. DeferredIsAwaited(t)
  BY <1>1, BegunIsOwned
<1>3. Owners(t)
  <2>1. s.kb.on => /\ s.kb.first # "none"
                   /\ IF s.kb.call = c THEN kind = "keyboard"
                      ELSE s.call[s.kb.call].kind = "keyboard" /\ s.call[s.kb.call].at # "idle"
    BY DEF Sound, Owners
  <2> QED
    BY <1>1, <2>1, BegunOwners DEF Sound, Owners
<1>4. ASSUME Fine(t) PROVE Presentation(t) /\ Answers(t)
  <2>1. Fine(s) /\ ~s.wheel.on /\ (\A d \in Call : ~s.call[d].live) /\ (~t.odd.moved => ~s.odd.moved)
    BY <1>1, <1>4 DEF BegunFrom, Fine
  <2>2. Presentation(s) /\ Answers(s)
    BY <2>1 DEF Sound
  <2>3. ~Pending(s) /\ s.wheel.at = "none" /\ s.kb.call \in Call
    BY <2>1 DEF Pending, Sound, Owners, States, KeyRecord
  <2>4. Presentation(t)
    BY <1>1, <2>1, <2>2, <2>3, BegunPresents DEF Presentation, Wanted, Displayed
  <2>5. s.kb.on => t.call[s.kb.call] = s.call[s.kb.call]
    BY <1>1, <2>3 DEF BegunFrom, OthersAsBefore
  <2>6. t.kb = s.kb
    BY <1>1 DEF BegunFrom, ButCall
  <2>7. s.kb.on => ~Hopeful(t.call[s.kb.call])
    BY <2>1, <2>3, <2>5 DEF Hopeful
  <2>8. Answers(t)
    BY <2>6, <2>7 DEF Answers, Typing, FittingPage
  <2> QED
    BY <2>4, <2>8
<1> QED
  BY <1>1, <1>2, <1>3, <1>4 DEF Sound

-----------------------------------------------------------------------------
(* The keyboard *)

\* What AnswersAreTrue says of a state with its answer.
Told(s) ==
    s.said.by # "none" /\ Fine(s) /\ ~s.odd.moved =>
      s.said.got.scale = s.said.goal /\ (s.said.zoomed => s.said.got.mode = "custom" \/ s.odd.kept)

LEMMA AtRest ==
    ASSUME NEW t, ~t.kb.on, t.wheel.at = "none", ~t.wheel.on, t.wheel.fresh => t.wheel.scale = t.wheel.target,
           t.restore # "none" => t.active, \A d \in Call : ~t.call[d].live /\ ~t.call[d].ok /\ ~t.call[d].back,
           Fine(t) => t.shown.scale = t.committed.scale /\ Wanted(t)
    PROVE  Sound(t)
<1>1. Owners(t)
  BY DEF Owners
<1>2. ASSUME Fine(t) PROVE Presentation(t) /\ Answers(t)
  BY <1>2 DEF Presentation, Alone, Displayed, Rendering, Answers, Typing, FittingPage
<1> QED
  BY <1>1, <1>2 DEF Sound

LEMMA Resolves ==
    /\ \A x \in Scale, p \in Intent : resolveZoomIntent(x, p) \in Scale
    /\ \A x, y \in Scale : clampReaderScale(x + (y - x)) = y
    /\ \A x \in Scale : resolveZoomIntent(x, NoIntent) = x
  BY ScaleAssumption, EmptySummary DEF resolveZoomIntent, clampReaderScale, Higher, Lower, Scale, Intent

Action == [type : {"zoom", "custom", "fit-width", "fit-page"}, step : Int]

\* The view on which the action acts: the end of the wheel's zoom takes its own back.
ActedOn(s) == IF s.wheel.on /\ s.rollback.on THEN s.rollback.to ELSE s.view
StepOf(s, act) ==
    IF s.view.scale = s.committed.scale THEN act.step ELSE clampReaderScale(s.committed.scale + act.step) - s.view.scale

LEMMA StepIsKnown ==
    ASSUME NEW s \in States, NEW act \in Action
    PROVE  /\ StepOf(s, act) \in Int /\ clampReaderScale(s.committed.scale + act.step) \in Scale
           /\ s.view.scale # s.committed.scale =>
                s.view.scale + StepOf(s, act) = clampReaderScale(s.committed.scale + act.step)
<1>1. s.view.scale \in Scale /\ s.committed.scale \in Scale /\ act.step \in Int
  BY DEF States, View, Committed, Action
<1>2. s.view.scale \in Int /\ s.committed.scale \in Int
  BY <1>1, Constants
<1>3. s.committed.scale + act.step \in Int
  BY <1>1, <1>2
<1>4. clampReaderScale(s.committed.scale + act.step) \in Scale
  BY <1>3, Constants
<1>5. clampReaderScale(s.committed.scale + act.step) \in Int
  BY <1>4, Constants
<1> QED
  BY <1>1, <1>2, <1>4, <1>5 DEF StepOf

AppliedFrom(s, t, act) ==
    /\ Stopped(s, t)
    /\ ~t.wheel.on /\ (t.wheel = NoWheel \/ (~s.wheel.on /\ t.wheel = s.wheel))
    /\ t.rollback = [on |-> TRUE, fresh |-> TRUE, to |-> Of(s.committed)]
    /\ t.view = ViewAfter(ActedOn(s), [act EXCEPT !.step = StepOf(s, act)])
    /\ t.odd.moved = (s.odd.moved \/ (act.type = "zoom" /\ ActedOn(s).scale # s.view.scale))
    /\ t.odd.broken = s.odd.broken /\ t.odd.both = s.odd.both /\ t.odd.kept = s.odd.kept
    /\ t.committed = s.committed /\ t.shown = s.shown /\ t.box = s.box /\ t.resize = s.resize
    /\ t.active = s.active /\ t.restore = s.restore /\ t.kb = s.kb /\ t.dirty = s.dirty /\ t.said = s.said

Applied(a, v, moved) ==
    [a EXCEPT !.rollback = [on |-> TRUE, fresh |-> TRUE, to |-> Of(a.committed)], !.view = v, !.odd.moved = moved]

LEMMA AppliedState ==
    ASSUME NEW a \in States, NEW v \in View, NEW moved \in BOOLEAN
    PROVE  /\ Applied(a, v, moved) \in States /\ Applied(a, v, moved).view = v
           /\ Applied(a, v, moved).rollback = [on |-> TRUE, fresh |-> TRUE, to |-> Of(a.committed)]
           /\ Applied(a, v, moved).odd = [a.odd EXCEPT !.moved = moved]
           /\ Applied(a, v, moved).call = a.call /\ Applied(a, v, moved).wheel = a.wheel
           /\ Applied(a, v, moved).committed = a.committed /\ Applied(a, v, moved).shown = a.shown
           /\ Applied(a, v, moved).box = a.box /\ Applied(a, v, moved).resize = a.resize
           /\ Applied(a, v, moved).active = a.active /\ Applied(a, v, moved).restore = a.restore
           /\ Applied(a, v, moved).kb = a.kb /\ Applied(a, v, moved).dirty = a.dirty
           /\ Applied(a, v, moved).said = a.said /\ Applied(a, v, moved).sync = a.sync
<1>1. Of(a.committed) \in View
  BY DEF States, Of, Committed, View
<1>2. [on |-> TRUE, fresh |-> TRUE, to |-> Of(a.committed)] \in [on : BOOLEAN, fresh : BOOLEAN, to : View]
  BY <1>1
<1>3. [a EXCEPT !.odd.moved = moved] \in States
  BY DEF States
<1>4. ASSUME NEW x \in States, NEW r \in [on : BOOLEAN, fresh : BOOLEAN, to : View]
      PROVE  [x EXCEPT !.rollback = r, !.view = v] \in States
  BY DEF States
<1>5. Applied(a, v, moved) =
        [[a EXCEPT !.odd.moved = moved] EXCEPT !.rollback = [on |-> TRUE, fresh |-> TRUE, to |-> Of(a.committed)], !.view = v]
  BY DEF Applied, States
<1>6. Applied(a, v, moved) \in States
  BY <1>2, <1>3, <1>4, <1>5
<1> QED
  BY <1>6 DEF Applied, States

LEMMA ViewAfterKnown ==
    ASSUME NEW v \in View, NEW act \in Action
    PROVE  /\ ViewAfter(v, act) \in View
           /\ ViewAfter(v, act).mode = (IF act.type = "zoom" THEN "custom" ELSE act.type)
           /\ act.type = "zoom" => ViewAfter(v, act).scale = clampReaderScale(v.scale + act.step)
           /\ act.type = "custom" => ViewAfter(v, act).scale = ActualScale
<1>1. v.scale \in Scale /\ v.scale + act.step \in Int
  <2>1. v.scale \in Scale /\ act.step \in Int
    BY DEF View, Action
  <2>2. v.scale \in Int
    BY <2>1, Constants
  <2> QED
    BY <2>1, <2>2
<1>2. clampReaderScale(v.scale + act.step) \in Scale
  BY <1>1, Constants
<1>3. CASE act.type = "zoom"
  BY <1>2, <1>3 DEF ViewAfter, View, Mode
<1>4. CASE act.type = "custom"
  BY <1>4, Constants DEF ViewAfter, View, Mode
<1>5. CASE act.type \in {"fit-width", "fit-page"}
  BY <1>5 DEF ViewAfter, View, Mode
<1> QED
  BY <1>3, <1>4, <1>5 DEF Action

LEMMA AppliedCall ==
    ASSUME NEW s \in States, NEW act \in Action, NEW t, t = ApplyKeyboardAction(s, act)
    PROVE  /\ t \in States /\ AppliedFrom(s, t, act)
           /\ DeferredIsAwaited(s) => DeferredIsAwaited(t)
<1> DEFINE w == InvalidateWheelZoom(s)  n == Navigated(w)  a == Intended(n)
           act2 == [act EXCEPT !.step = StepOf(s, act)]
           moved == s.odd.moved \/ (act.type = "zoom" /\ ActedOn(s).scale # s.view.scale)
           view2 == ViewAfter(ActedOn(s), act2)
<1>1. /\ w \in States /\ (s.wheel.on => DeferredIsAwaited(w) /\ InvalidatedFrom(s, w)) /\ (~s.wheel.on => w = s)
  BY Invalidated DEF InvalidateWheelZoom
<1> HIDE DEF w
<1>2. /\ w.view = ActedOn(s) /\ ~w.wheel.on /\ (w.wheel = NoWheel \/ (~s.wheel.on /\ w.wheel = s.wheel))
      /\ w.committed = s.committed /\ w.shown = s.shown /\ w.box = s.box /\ w.resize = s.resize
      /\ w.active = s.active /\ w.restore = s.restore /\ w.kb = s.kb /\ w.dirty = s.dirty /\ w.odd = s.odd /\ w.said = s.said
      /\ \A c \in Call : w.call[c].at = s.call[c].at /\ w.call[c].kind = s.call[c].kind
  <2>1. CASE s.wheel.on
    BY <1>1, <2>1 DEF InvalidatedFrom, ActedOn, Stopped, NoWheel
  <2>2. CASE ~s.wheel.on
    BY <1>1, <2>2 DEF ActedOn
  <2> QED
    BY <2>1, <2>2
<1>3. DeferredIsAwaited(s) => DeferredIsAwaited(w)
  BY <1>1
<1>4. /\ n \in States /\ Unmoved(w, n) /\ n.said = w.said /\ n.sync.at = w.sync.at /\ Stopped(w, n)
  BY <1>1, NavigatedCalls
<1> HIDE DEF n
<1>5. /\ a \in States /\ Unmoved(n, a) /\ a.said = n.said /\ a.sync = n.sync /\ Stopped(n, a)
  BY <1>4, IntendedCalls
<1> HIDE DEF a
<1>6. /\ a.view = ActedOn(s) /\ ~a.wheel.on /\ (a.wheel = NoWheel \/ (~s.wheel.on /\ a.wheel = s.wheel))
      /\ a.committed = s.committed /\ a.shown = s.shown /\ a.box = s.box /\ a.resize = s.resize
      /\ a.active = s.active /\ a.restore = s.restore /\ a.kb = s.kb /\ a.dirty = s.dirty /\ a.odd = s.odd /\ a.said = s.said
  BY <1>2, <1>4, <1>5 DEF Unmoved
<1>7. Stopped(s, a)
  BY <1>2, <1>4, <1>5 DEF Stopped
<1>8. DeferredIsAwaited(w) => DeferredIsAwaited(a)
  BY <1>4, <1>5 DEF DeferredIsAwaited, Owned, Idle, Unmoved, Stopped
<1>9. moved \in BOOLEAN /\ ActedOn(s) \in View /\ s.view.scale \in Int /\ s.committed.scale \in Int
  BY Constants DEF States, ActedOn, View, Committed
<1>10. act2 \in Action /\ act2.type = act.type
  <2>1. StepOf(s, act) \in Int
    BY StepIsKnown
  <2> QED
    BY <2>1 DEF Action
<1>11. view2 \in View
  BY <1>9, <1>10, ViewAfterKnown
<1>12. t = Applied(a, view2, moved)
  BY <1>6 DEF ApplyKeyboardAction, Applied, StepOf, w, n, a
<1> HIDE DEF moved, view2, act2
<1>13. /\ t \in States /\ t.view = view2
       /\ t.rollback = [on |-> TRUE, fresh |-> TRUE, to |-> Of(a.committed)]
       /\ t.odd = [a.odd EXCEPT !.moved = moved]
       /\ t.call = a.call /\ t.wheel = a.wheel /\ t.committed = a.committed /\ t.shown = a.shown
       /\ t.box = a.box /\ t.resize = a.resize /\ t.active = a.active /\ t.restore = a.restore
       /\ t.kb = a.kb /\ t.dirty = a.dirty /\ t.said = a.said /\ t.sync = a.sync
  BY <1>5, <1>9, <1>11, <1>12, AppliedState
<1>14. AppliedFrom(s, t, act)
  <2>1. t.odd.moved = moved /\ t.odd.broken = s.odd.broken /\ t.odd.both = s.odd.both /\ t.odd.kept = s.odd.kept
    BY <1>5, <1>6, <1>13 DEF States
  <2>2. Stopped(s, t)
    BY <1>7, <1>13 DEF Stopped
  <2> QED
    BY <1>6, <1>13, <2>1, <2>2 DEF AppliedFrom, moved, view2, act2
<1>15. DeferredIsAwaited(a) => DeferredIsAwaited(t)
  BY <1>13 DEF DeferredIsAwaited, Owned, Idle
<1> QED
  BY <1>3, <1>8, <1>13, <1>14, <1>15

\* The scale that a zoom comes to.
LEMMA AppliedView ==
    ASSUME NEW s \in States, NEW act \in Action, NEW t, AppliedFrom(s, t, act)
    PROVE  /\ t.view \in View
           /\ t.view.mode = (IF act.type = "zoom" THEN "custom" ELSE act.type)
           /\ act.type = "zoom" /\ ~t.odd.moved => t.view.scale = clampReaderScale(s.committed.scale + act.step)
           /\ act.type = "custom" => t.view.scale = ActualScale
<1> DEFINE act2 == [act EXCEPT !.step = StepOf(s, act)]  step == StepOf(s, act)
<1>1. ActedOn(s) \in View /\ s.view.scale \in Int /\ s.committed.scale \in Int /\ act.step \in Int
  BY Constants DEF States, ActedOn, View, Committed, Action
<1>2. clampReaderScale(s.committed.scale + act.step) \in Scale
  BY <1>1, Constants
<1>3. step \in Int
  BY StepIsKnown
<1>4. act2 \in Action /\ act2.type = act.type /\ act2.step = step
  BY <1>3 DEF Action
<1>5. t.view = ViewAfter(ActedOn(s), act2)
  BY DEF AppliedFrom
<1> HIDE DEF act2, step
<1>6. act.type = "zoom" => t.view.scale = clampReaderScale(ActedOn(s).scale + step)
  BY <1>1, <1>4, <1>5, ViewAfterKnown
<1>7. ASSUME act.type = "zoom", ~t.odd.moved PROVE t.view.scale = clampReaderScale(s.committed.scale + act.step)
  <2>1. ActedOn(s).scale = s.view.scale
    BY <1>7 DEF AppliedFrom
  <2>2. CASE s.view.scale = s.committed.scale
    BY <1>6, <1>7, <2>1, <2>2 DEF StepOf, step
  <2>3. CASE s.view.scale # s.committed.scale
    <3>1. s.view.scale + step = clampReaderScale(s.committed.scale + act.step)
      BY <2>3, StepIsKnown DEF step
    <3> QED
      BY <1>2, <1>6, <1>7, <2>1, <3>1, Constants
  <2> QED
    BY <2>2, <2>3
<1> QED
  BY <1>1, <1>4, <1>5, <1>7, ViewAfterKnown

\* What the keyboard has typed of a rendering that has just begun.
FreshKey(k, base, act) ==
    /\ ~k.queued /\ k.pending = NoIntent
    /\ \/ act.type = "zoom" /\ k.first = "zoom" /\ k.zoomed /\ k.typed[k.base] = clampReaderScale(base + act.step)
       \/ act.type # "zoom" /\ k.first = act.type /\ ~k.zoomed /\ \A x \in Scale : k.typed[x] = x

LEMMA KeyBegins ==
    ASSUME NEW s \in States, NEW act \in Action, NEW c \in Call, s.active, s.kb.on, s.kb.call = c, s.kb.first # "none",
           s.wheel.on <=> s.wheel.at # "none", s.wheel.fresh => s.wheel.scale = s.wheel.target,
           Fine(s) => s.shown.scale = s.committed.scale,
           Fine(s) /\ ~s.odd.moved => FreshKey(s.kb, s.committed.scale, act),
           NEW t, t = Begin(ApplyKeyboardAction(s, act), c, "keyboard")
    PROVE  t \in States /\ Sound(t) /\ DeferredIsAwaited(t) /\ t.said = s.said
<1> DEFINE a == ApplyKeyboardAction(s, act)
<1>1. a \in States /\ AppliedFrom(s, a, act)
  BY AppliedCall
<1>2. /\ a.view \in View
      /\ a.view.mode = (IF act.type = "zoom" THEN "custom" ELSE act.type)
      /\ act.type = "zoom" /\ ~a.odd.moved => a.view.scale = clampReaderScale(s.committed.scale + act.step)
      /\ act.type = "custom" => a.view.scale = ActualScale
  BY <1>1, AppliedView
<1> HIDE DEF a
<1>3. t \in States /\ BegunFrom(a, t, c, "keyboard")
  BY <1>1, BegunCall DEF a
<1>4. /\ a.active /\ a.kb = s.kb /\ ~a.wheel.on /\ a.wheel.at = "none" /\ (a.wheel.fresh => a.wheel.scale = a.wheel.target)
      /\ a.rollback = [on |-> TRUE, fresh |-> TRUE, to |-> Of(a.committed)]
      /\ a.committed = s.committed /\ a.shown = s.shown /\ a.restore = s.restore /\ a.said = s.said
      /\ a.odd.broken = s.odd.broken /\ a.odd.both = s.odd.both /\ (~a.odd.moved => ~s.odd.moved)
      /\ \A d \in Call : ~a.call[d].live /\ ~a.call[d].ok /\ ~a.call[d].back
  <2>1. a.wheel = NoWheel \/ (~s.wheel.on /\ a.wheel = s.wheel)
    BY <1>1 DEF AppliedFrom
  <2>2. /\ ~a.wheel.on /\ a.wheel.at = "none" /\ (a.wheel.fresh => a.wheel.scale = a.wheel.target)
    BY <2>1 DEF NoWheel
  <2>3. \A d \in Call : ~a.call[d].live /\ ~a.call[d].ok /\ ~a.call[d].back
    BY <1>1 DEF AppliedFrom, Stopped
  <2>4. a.odd.moved = (s.odd.moved \/ (act.type = "zoom" /\ ActedOn(s).scale # s.view.scale))
    BY <1>1 DEF AppliedFrom
  <2>5. /\ a.active /\ a.kb = s.kb /\ a.rollback = [on |-> TRUE, fresh |-> TRUE, to |-> Of(s.committed)]
        /\ a.committed = s.committed /\ a.shown = s.shown /\ a.restore = s.restore /\ a.said = s.said
        /\ a.odd.broken = s.odd.broken /\ a.odd.both = s.odd.both
    BY <1>1 DEF AppliedFrom
  <2> QED
    BY <2>2, <2>3, <2>4, <2>5
<1>5. DeferredIsAwaited(t)
  BY <1>1, <1>3, <1>4, BegunIsOwned
<1>6. Owners(t)
  BY <1>1, <1>3, <1>4, BegunOwners
<1>7. /\ t.view = a.view /\ t.committed = a.committed /\ t.rollback = a.rollback /\ t.shown = a.shown /\ t.kb = a.kb
      /\ t.box = a.box /\ t.said = a.said
  BY <1>3 DEF BegunFrom, ButCall
<1>8. ASSUME Fine(t) PROVE Presentation(t) /\ Answers(t)
  <2>1. Fine(a) /\ Fine(s) /\ (~t.odd.moved => ~a.odd.moved)
    BY <1>3, <1>4, <1>8 DEF Fine, BegunFrom
  <2>2. a.shown.scale = a.committed.scale /\ a.rollback.on /\ a.rollback.to = Of(a.committed)
    BY <1>4, <2>1
  <2>3. t.call[c].at \in {"transform", "render", "rendered"}
    BY <1>3 DEF BegunFrom
  <2>4. t.call[c].at # "rendered" => Pending(t)
    BY <1>3, <1>4, <1>7, <2>3 DEF Pending, BegunFrom
  <2>5. t.call[c].at = "rendered" => Agrees(t)
    <3> SUFFICES ASSUME t.call[c].at = "rendered" PROVE Agrees(t)
      OBVIOUS
    <3>1. a.shown = [scale |-> a.view.scale, topology |-> "continuous"] /\ t.odd.kept = (a.view.mode # a.committed.mode)
      BY <1>3 DEF BegunFrom
    <3>2. a.view.scale = a.committed.scale
      BY <2>2, <3>1
    <3> QED
      BY <1>7, <3>1, <3>2 DEF Agrees
  <2>6. a.view.mode = "custom" /\ a.view.scale = a.committed.scale /\ a.shown.topology = "continuous" =>
          t.call[c].at = "rendered"
    <3> SUFFICES ASSUME a.view.mode = "custom", a.view.scale = a.committed.scale, a.shown.topology = "continuous"
                 PROVE  t.call[c].at = "rendered"
      OBVIOUS
    <3>1. a.shown = [scale |-> a.view.scale, topology |-> "continuous"]
      BY <1>1, <2>2 DEF States
    <3> QED
      BY <1>3, <3>1 DEF BegunFrom
  <2>7. Presentation(t)
    BY <1>1, <1>3, <1>4, <2>2, <2>3, <2>4, <2>5, <2>6, BegunPresents
  <2>8. ASSUME ~t.odd.moved PROVE Typing(t) /\ FittingPage(t)
    <3> DEFINE k == s.kb
    <3>1. FreshKey(k, s.committed.scale, act) /\ ~a.odd.moved
      BY <1>4, <2>1, <2>8
    <3>2. t.kb = k /\ k.on /\ k.call = c
      BY <1>4, <1>7
    <3> HIDE DEF k
    <3>3. a.view.scale \in Scale
      BY <1>2 DEF View
    <3>4. Typing(t)
      <4>1. CASE act.type = "zoom"
        <5>1. k.first = "zoom" /\ k.zoomed /\ ~k.queued /\ k.pending = NoIntent
              /\ k.typed[k.base] = clampReaderScale(s.committed.scale + act.step)
          BY <3>1, <4>1 DEF FreshKey
        <5>2. t.view.mode = "custom" /\ t.view.scale = clampReaderScale(s.committed.scale + act.step)
          BY <1>2, <1>7, <3>1, <4>1
        <5>3. resolveZoomIntent(t.view.scale, NoIntent) = t.view.scale
          BY <1>7, <3>3, Resolves
        <5> QED
          BY <3>2, <5>1, <5>2, <5>3 DEF Typing
      <4>2. CASE act.type # "zoom"
        <5>1. k.first = act.type /\ ~k.zoomed /\ ~k.queued /\ k.pending = NoIntent /\ \A x \in Scale : k.typed[x] = x
          BY <3>1, <4>2 DEF FreshKey
        <5>2. \A x \in Scale : k.typed[x] = resolveZoomIntent(x, k.pending)
          BY <5>1, Resolves
        <5>3. t.view.mode = act.type /\ (act.type = "custom" => t.view.scale = ActualScale)
          BY <1>2, <1>7, <4>2
        <5>4. act.type = "custom" => t.view = [mode |-> "custom", scale |-> ActualScale]
          BY <1>2, <1>7, <5>3 DEF View
        <5> QED
          BY <3>2, <4>2, <5>1, <5>2, <5>3, <5>4 DEF Typing
      <4> QED
        BY <4>1, <4>2
    <3>5. FittingPage(t)
      <4> SUFFICES ASSUME k.first = "fit-page" PROVE FittingPage(t)
        BY <3>2 DEF FittingPage
      <4>1. act.type = "fit-page"
        BY <3>1 DEF FreshKey
      <4>2. a.view.mode # "custom"
        BY <1>2, <4>1
      <4>3. t.call[c].at = "transform" /\ t.call[c].box = t.box /\ t.call[c].settled = t.box
        BY <1>3, <1>7, <4>2 DEF BegunFrom
      <4> QED
        BY <3>2, <4>3 DEF FittingPage
    <3> QED
      BY <3>4, <3>5
  <2> QED
    BY <2>7, <2>8 DEF Answers
<1>9. t.said = s.said
  BY <1>4, <1>7
<1> QED
  BY <1>3, <1>5, <1>6, <1>8, <1>9 DEF Sound

FastFrom(s, t, act) ==
    /\ Stopped(s, t) /\ ~t.wheel.on /\ (t.wheel = NoWheel \/ (~s.wheel.on /\ t.wheel = s.wheel))
    /\ t.view.mode = "custom" /\ (~t.odd.moved => t.view.scale = s.committed.scale)
    /\ t.committed.mode = "custom" /\ t.committed.scale = s.committed.scale /\ ~t.rollback.on
    /\ t.odd.broken = s.odd.broken /\ t.odd.both = s.odd.both /\ (~t.odd.moved => ~s.odd.moved)
    /\ t.shown = s.shown /\ t.restore = s.restore /\ t.active = s.active /\ t.kb = s.kb /\ t.said = s.said

LEMMA FastCall ==
    ASSUME NEW s \in States, NEW act \in Action, IsFast(s, act), s.committed.mode # "custom",
           NEW t, t = FastPath(s, act)
    PROVE  t \in States /\ FastFrom(s, t, act) /\ (DeferredIsAwaited(s) => DeferredIsAwaited(t))
<1> DEFINE a == ApplyKeyboardAction(s, act)
<1>1. a \in States /\ AppliedFrom(s, a, act) /\ (DeferredIsAwaited(s) => DeferredIsAwaited(a))
  BY AppliedCall
<1>2. /\ a.view.mode = (IF act.type = "zoom" THEN "custom" ELSE act.type)
      /\ act.type = "zoom" /\ ~a.odd.moved => a.view.scale = clampReaderScale(s.committed.scale + act.step)
  BY <1>1, AppliedView
<1>3. t = [a EXCEPT !.committed.mode = "custom", !.rollback = NoRollback]
  BY DEF FastPath
<1>4. act.type = "zoom" /\ clampReaderScale(s.committed.scale + act.step) = s.committed.scale
  BY DEF IsFast
<1> HIDE DEF a
<1>5. NoRollback \in [on : BOOLEAN, fresh : BOOLEAN, to : View] /\ ~NoRollback.on
  BY Defaults DEF NoRollback, States
<1>6. [a.committed EXCEPT !.mode = "custom"] \in Committed /\ [a.committed EXCEPT !.mode = "custom"].scale = a.committed.scale
      /\ [a.committed EXCEPT !.mode = "custom"].mode = "custom"
  BY <1>1 DEF States, Committed, Mode
<1>7. t = [a EXCEPT !.committed = [a.committed EXCEPT !.mode = "custom"], !.rollback = NoRollback]
  BY <1>1, <1>3 DEF States
<1>8. /\ t \in States /\ t.committed = [a.committed EXCEPT !.mode = "custom"] /\ t.rollback = NoRollback
      /\ t.view = a.view /\ t.wheel = a.wheel /\ t.call = a.call /\ t.odd = a.odd /\ t.shown = a.shown
      /\ t.restore = a.restore /\ t.active = a.active /\ t.kb = a.kb /\ t.said = a.said /\ t.sync = a.sync
  <2> DEFINE r == [a.committed EXCEPT !.mode = "custom"]
  <2>1. r \in Committed
    BY <1>6
  <2>2. t = [a EXCEPT !.committed = r, !.rollback = NoRollback]
    BY <1>7
  <2> HIDE DEF r
  <2>3. t \in States /\ t.committed = r /\ t.rollback = NoRollback
        /\ t.view = a.view /\ t.wheel = a.wheel /\ t.call = a.call /\ t.odd = a.odd /\ t.shown = a.shown
        /\ t.restore = a.restore /\ t.active = a.active /\ t.kb = a.kb /\ t.said = a.said /\ t.sync = a.sync
    <3>1. ASSUME NEW x \in States PROVE [x EXCEPT !.committed = r] \in States
      BY <2>1 DEF States
    <3>2. ASSUME NEW x \in States PROVE [x EXCEPT !.rollback = NoRollback] \in States
      BY <1>5 DEF States
    <3>3. t = [[a EXCEPT !.committed = r] EXCEPT !.rollback = NoRollback]
      BY <2>2
    <3>4. t \in States
      BY <1>1, <3>1, <3>2, <3>3
    <3> QED
      BY <1>1, <2>2, <3>4 DEF States
  <2> QED
    BY <2>3 DEF r
<1>9. DeferredIsAwaited(a) => DeferredIsAwaited(t)
  BY <1>8 DEF DeferredIsAwaited, Owned, Idle
<1>10. FastFrom(s, t, act)
  <2>1. Stopped(s, t)
    BY <1>1, <1>8 DEF AppliedFrom, Stopped
  <2>2. ~t.wheel.on /\ (t.wheel = NoWheel \/ (~s.wheel.on /\ t.wheel = s.wheel))
    BY <1>1, <1>8 DEF AppliedFrom
  <2>3. t.view.mode = "custom" /\ (~t.odd.moved => t.view.scale = s.committed.scale)
    BY <1>2, <1>4, <1>8
  <2>4. /\ a.committed = s.committed /\ a.shown = s.shown /\ a.restore = s.restore /\ a.active = s.active /\ a.kb = s.kb
        /\ a.said = s.said /\ a.odd.broken = s.odd.broken /\ a.odd.both = s.odd.both /\ (~a.odd.moved => ~s.odd.moved)
    BY <1>1 DEF AppliedFrom
  <2>5. t.committed.mode = "custom" /\ t.committed.scale = s.committed.scale /\ ~t.rollback.on
    BY <1>5, <1>6, <1>8, <2>4
  <2> QED
    BY <1>8, <2>1, <2>2, <2>3, <2>4, <2>5 DEF FastFrom
<1> QED
  BY <1>1, <1>8, <1>9, <1>10

\* At a bound the zoom is done at once, and nothing is under way afterwards.
LEMMA FastRests ==
    ASSUME NEW s, NEW act, NEW t, NEW u, FastFrom(s, t, act), ~u.kb.on,
           s.wheel.on <=> s.wheel.at # "none", s.wheel.fresh => s.wheel.scale = s.wheel.target, s.restore # "none" => s.active,
           Fine(s) => s.shown.scale = s.committed.scale,
           u.wheel = t.wheel, u.restore = t.restore, u.active = t.active, u.call = t.call, u.shown = t.shown,
           u.committed = t.committed, u.view = t.view, u.rollback = t.rollback, u.odd = t.odd
    PROVE  Sound(u)
<1>1. /\ ~t.wheel.on /\ t.wheel.at = "none" /\ (t.wheel.fresh => t.wheel.scale = t.wheel.target)
  BY DEF FastFrom, NoWheel
<1>2. \A d \in Call : ~t.call[d].live /\ ~t.call[d].ok /\ ~t.call[d].back
  BY DEF FastFrom, Stopped
<1>3. ASSUME Fine(u) PROVE u.shown.scale = u.committed.scale /\ Wanted(u)
  <2>1. u.shown.scale = u.committed.scale
    BY <1>3 DEF FastFrom, Fine
  <2>2. u.view.mode = "custom" /\ u.committed.mode = "custom" /\ ~u.rollback.on /\ (~u.odd.moved => u.view.scale = u.committed.scale)
    BY DEF FastFrom
  <2> QED
    BY <2>1, <2>2 DEF Wanted, Agrees
<1> QED
  BY <1>1, <1>2, <1>3, AtRest DEF FastFrom

Kept(s, t) ==
    /\ t.view = s.view /\ t.committed = s.committed /\ t.shown = s.shown /\ t.box = s.box /\ t.resize = s.resize
    /\ t.active = s.active /\ t.restore = s.restore /\ t.wheel = s.wheel /\ t.rollback = s.rollback
    /\ t.dirty = s.dirty /\ t.odd = s.odd

LEMMA EndedCall ==
    ASSUME NEW s \in States, NEW c \in Call
    PROVE  /\ Ended(s, c) \in States /\ DeferredIsAwaited(Ended(s, c)) /\ Kept(s, Ended(s, c)) /\ Ended(s, c).kb = s.kb
           /\ Ended(s, c).said = s.said /\ Ended(s, c).call[c] = IdleCall /\ OthersAsBefore(s, Ended(s, c), c)
<1> DEFINE w == WithCall(s, c, IdleCall)  t == Flush(w)
<1>1. IdleCall \in CallRecord
  BY Defaults DEF States
<1>2. w \in States /\ ButCall(s, w) /\ w.odd = s.odd /\ w.call[c] = IdleCall /\ OthersAsBefore(s, w, c)
  BY <1>1, CallChanged
<1> HIDE DEF w
<1>3. t \in States /\ Unmoved(w, t) /\ t.said = w.said /\ t.call = w.call /\ t.rollback = w.rollback /\ DeferredIsAwaited(t)
  BY <1>2, Flushed
<1> HIDE DEF t
<1>4. Kept(s, t) /\ t.kb = s.kb /\ t.said = s.said /\ t.call[c] = IdleCall /\ OthersAsBefore(s, t, c)
  BY <1>2, <1>3 DEF Kept, ButCall, OthersAsBefore, Unmoved
<1> QED
  BY <1>3, <1>4 DEF t, w, Ended

\* A rendering has ended, and with it the keyboard's change of the view if it was its.
LEMMA EndIsSound ==
    ASSUME NEW s \in States, Sound(s), NEW c \in Call, s.call[c].at = "settled",
           NEW t, Kept(s, t), t.call[c] = IdleCall, OthersAsBefore(s, t, c),
           \/ ~t.kb.on /\ (s.kb.on => s.kb.call = c)
           \/ t.kb = s.kb /\ (s.kb.on => s.kb.call # c)
    PROVE  Sound(t)
<1>1. /\ t.view = s.view /\ t.committed = s.committed /\ t.shown = s.shown /\ t.box = s.box /\ t.resize = s.resize
      /\ t.active = s.active /\ t.restore = s.restore /\ t.wheel = s.wheel /\ t.rollback = s.rollback
      /\ t.dirty = s.dirty /\ t.odd = s.odd
  BY DEF Kept
<1>2. ~t.call[c].live /\ ~t.call[c].back /\ ~t.call[c].ok /\ \A d \in Call : d # c => t.call[d] = s.call[d]
  BY DEF IdleCall, OthersAsBefore
<1>3. s.kb.call \in Call
  BY DEF States, KeyRecord
<1>4. t.kb.on => t.kb = s.kb /\ t.call[s.kb.call] = s.call[s.kb.call]
  <2>1. CASE t.kb.on
    <3>1. t.kb = s.kb /\ s.kb.call # c
      BY <2>1
    <3> QED
      BY <1>2, <1>3, <3>1
  <2> QED
    BY <2>1
<1>5. Owners(t)
  <2>1. t.kb.on => t.call[t.kb.call].kind = "keyboard" /\ t.call[t.kb.call].at # "idle" /\ t.kb.first # "none"
    BY <1>4 DEF Sound, Owners
  <2>2. ASSUME NEW d \in Call
        PROVE  /\ t.call[d].live => t.active /\ t.call[d].at # "idle"
               /\ t.call[d].back => t.call[d].at \in {"sync", "refit-size", "refit", "synchronized", "settled"}
               /\ t.call[d].at = "settled" /\ t.call[d].ok => t.call[d].live /\ ~t.call[d].back
    <3>1. CASE d = c
      BY <1>2, <3>1
    <3>2. CASE d # c
      <4>1. t.call[d] = s.call[d] /\ t.active = s.active
        BY <1>1, <1>2, <3>2
      <4> QED
        BY <4>1 DEF Sound, Owners
    <3> QED
      BY <3>1, <3>2
  <2>3. /\ t.wheel.on <=> t.wheel.at # "none"
        /\ t.wheel.on => ~t.kb.on
        /\ t.wheel.fresh => t.wheel.scale = t.wheel.target
        /\ t.restore # "none" => t.active
    BY <1>1, <1>4 DEF Sound, Owners
  <2> QED
    BY <2>1, <2>2, <2>3 DEF Owners
<1>6. ASSUME Fine(t) PROVE Presentation(t) /\ Answers(t)
  <2>1. Presentation(s) /\ Answers(s)
    BY <1>1, <1>6 DEF Sound, Fine
  <2>2. Alone(t)
    BY <1>1, <1>2, <2>1 DEF Presentation, Alone
  <2>3. Displayed(t)
    BY <1>1, <2>1 DEF Presentation, Displayed
  <2>4. Pending(s) => Pending(t)
    <3> SUFFICES ASSUME Pending(s) PROVE Pending(t)
      OBVIOUS
    <3>1. s.kb.on /\ s.kb.call # c
      BY DEF Pending
    <3>2. t.kb = s.kb /\ t.call[s.kb.call] = s.call[s.kb.call]
      BY <1>2, <1>3, <3>1
    <3> QED
      BY <1>1, <3>2 DEF Pending
  <2>5. Wanted(t)
    <3>1. /\ s.view.mode = s.committed.mode \/ s.odd.kept \/ s.dirty \/ Pending(s)
          /\ Agrees(s) \/ s.dirty \/ Pending(s) \/ s.odd.moved
          /\ s.rollback.on => s.rollback.to = Of(s.committed)
          /\ s.view.mode = "custom" /\ s.view.scale = s.committed.scale /\ s.shown.topology = "continuous" =>
               s.committed.mode = "custom" \/ s.odd.kept
      BY <2>1 DEF Presentation, Wanted
    <3>2. Agrees(s) => Agrees(t)
      BY <1>1 DEF Agrees
    <3> QED
      BY <1>1, <2>4, <3>1, <3>2 DEF Wanted
  <2>6. ASSUME NEW d \in Call PROVE Rendering(t, d)
    <3>1. CASE d = c
      BY <1>2, <3>1 DEF Rendering
    <3>2. CASE d # c
      <4>1. Rendering(s, d) /\ t.call[d] = s.call[d]
        BY <1>2, <2>1, <3>2 DEF Presentation
      <4>2. Agrees(s) => Agrees(t)
        BY <1>1 DEF Agrees
      <4> QED
        BY <1>1, <4>1, <4>2 DEF Rendering
    <3> QED
      BY <3>1, <3>2
  <2>7. Answers(t)
    <3>1. CASE t.kb.on
      BY <1>1, <1>4, <2>1, <3>1 DEF Answers, Typing, FittingPage
    <3>2. CASE ~t.kb.on
      BY <3>2 DEF Answers, Typing, FittingPage
    <3> QED
      BY <3>1, <3>2
  <2> QED
    BY <2>2, <2>3, <2>5, <2>6, <2>7 DEF Presentation
<1> QED
  BY <1>5, <1>6 DEF Sound

LEMMA KeyReplaced ==
    ASSUME NEW s \in States, NEW k \in KeyRecord
    PROVE  /\ [s EXCEPT !.kb = k] \in States /\ Kept(s, [s EXCEPT !.kb = k]) /\ [s EXCEPT !.kb = k].kb = k
           /\ [s EXCEPT !.kb = k].call = s.call /\ [s EXCEPT !.kb = k].said = s.said /\ [s EXCEPT !.kb = k].sync = s.sync
  BY DEF States, Kept

LEMMA AnswerGiven ==
    ASSUME NEW s \in States, NEW by \in {"keyboard", "wheel"}, NEW goal \in Scale, NEW zoomed \in BOOLEAN
    PROVE  /\ Answer(s, by, goal, zoomed) \in States /\ Kept(s, Answer(s, by, goal, zoomed))
           /\ Answer(s, by, goal, zoomed).kb = s.kb /\ Answer(s, by, goal, zoomed).call = s.call
           /\ Answer(s, by, goal, zoomed).sync = s.sync
           /\ Answer(s, by, goal, zoomed).said = [by |-> by, goal |-> goal, zoomed |-> zoomed, got |-> Of(s.committed)]
<1> DEFINE r == [by |-> by, goal |-> goal, zoomed |-> zoomed, got |-> Of(s.committed)]
<1>1. Of(s.committed) \in View
  BY DEF States, Of, Committed, View
<1>2. r \in [by : {"none", "keyboard", "wheel"}, goal : Scale, zoomed : BOOLEAN, got : View]
  BY <1>1
<1>3. Answer(s, by, goal, zoomed) = [s EXCEPT !.said = r]
  BY DEF Answer
<1> HIDE DEF r
<1>4. /\ Answer(s, by, goal, zoomed) \in States /\ Kept(s, Answer(s, by, goal, zoomed))
      /\ Answer(s, by, goal, zoomed).kb = s.kb /\ Answer(s, by, goal, zoomed).call = s.call
      /\ Answer(s, by, goal, zoomed).sync = s.sync /\ Answer(s, by, goal, zoomed).said = r
  BY <1>2, <1>3 DEF States, Kept
<1> QED
  BY <1>4 DEF r

LEMMA KeySettled ==
    ASSUME NEW s \in States, NEW ok \in BOOLEAN, NEW t, t = SettleKeyboardView(s, ok)
    PROVE  /\ t \in States /\ DeferredIsAwaited(t) /\ Kept(s, t) /\ ~t.kb.on /\ t.call = s.call
           /\ ok => t.said = [by |-> "keyboard", goal |-> s.kb.typed[s.kb.base], zoomed |-> s.kb.zoomed, got |-> Of(s.committed)]
           /\ ~ok => t.said = s.said
<1> DEFINE u == [s EXCEPT !.kb = NoKey]  off == Flush(u)  goal == s.kb.typed[s.kb.base]
<1>1. NoKey \in KeyRecord /\ ~NoKey.on
  BY Defaults DEF States, NoKey
<1>2. u \in States /\ Kept(s, u) /\ u.kb = NoKey /\ u.call = s.call /\ u.said = s.said
  BY <1>1, KeyReplaced
<1> HIDE DEF u
<1>3. off \in States /\ Unmoved(u, off) /\ off.said = u.said /\ off.call = u.call /\ off.rollback = u.rollback /\ DeferredIsAwaited(off)
  BY <1>2, Flushed
<1> HIDE DEF off
<1>4. Kept(s, off) /\ ~off.kb.on /\ off.call = s.call /\ off.said = s.said /\ off.committed = s.committed
  BY <1>1, <1>2, <1>3 DEF Kept, Unmoved
<1>5. s.kb.typed \in [Scale -> Scale] /\ s.kb.base \in Scale /\ s.kb.zoomed \in BOOLEAN
  BY DEF States, KeyRecord
<1>6. goal \in Scale
  BY <1>5
<1> HIDE DEF goal
<1>7. CASE ok
  <2> DEFINE v == Answer(off, "keyboard", goal, s.kb.zoomed)
  <2>1. t = v
    BY <1>7 DEF SettleKeyboardView, goal, off, u
  <2>2. v \in States /\ Kept(off, v) /\ v.kb = off.kb /\ v.call = off.call /\ v.sync = off.sync
        /\ v.said = [by |-> "keyboard", goal |-> goal, zoomed |-> s.kb.zoomed, got |-> Of(off.committed)]
    BY <1>3, <1>5, <1>6, AnswerGiven
  <2> HIDE DEF v
  <2>3. DeferredIsAwaited(v)
    BY <1>3, <2>2 DEF DeferredIsAwaited, Owned, Idle, Kept
  <2>4. Kept(s, v)
    BY <1>4, <2>2 DEF Kept
  <2> QED
    BY <1>4, <1>7, <2>1, <2>2, <2>3, <2>4 DEF goal
<1>8. CASE ~ok
  <2>1. t = off
    BY <1>8 DEF SettleKeyboardView, off, u
  <2> QED
    BY <1>3, <1>4, <1>8, <2>1
<1> QED
  BY <1>7, <1>8

LEMMA BaseKnown ==
    ASSUME NEW s \in States
    PROVE  LET k == Based(s) IN
           /\ k \in KeyRecord /\ k.on = s.kb.on /\ k.call = s.kb.call /\ k.pending = s.kb.pending /\ k.queued = s.kb.queued
           /\ k.zoomed = s.kb.zoomed /\ k.typed = s.kb.typed /\ k.first = "zoom"
           /\ s.kb.first = "zoom" => k.base = s.kb.base
           /\ s.kb.first = "custom" => k.base = ActualScale
           /\ s.kb.first = "fit-page" /\ "new" \notin s.resize => k.base = PageScale(s.box)
           /\ s.kb.first = "fit-width" \/ (s.kb.first = "fit-page" /\ "new" \in s.resize) => k.base = s.committed.scale
<1> DEFINE base == CASE s.kb.first = "custom" -> ActualScale
                   [] s.kb.first = "fit-page" /\ "new" \notin s.resize -> PageScale(s.box)
                   [] s.kb.first = "fit-width" \/ (s.kb.first = "fit-page" /\ "new" \in s.resize) -> s.committed.scale
                   [] OTHER -> s.kb.base
<1>1. s.kb \in KeyRecord /\ s.kb.base \in Scale /\ s.committed.scale \in Scale /\ s.box \in Box
  BY DEF States, KeyRecord, Committed
<1>2. [mode |-> "fit-page", scale |-> Lo] \in View
  BY Constants DEF View, Mode
<1>3. PageScale(s.box) \in Scale
  BY <1>1, <1>2, ScaleFits DEF PageScale
<1>4. base \in Scale
  BY <1>1, <1>3, Constants
<1>5. Based(s) = [s.kb EXCEPT !.first = "zoom", !.base = base]
  BY DEF Based, PageScale
<1>6. /\ s.kb.first = "zoom" => base = s.kb.base
      /\ s.kb.first = "custom" => base = ActualScale
      /\ s.kb.first = "fit-page" /\ "new" \notin s.resize => base = PageScale(s.box)
      /\ s.kb.first = "fit-width" \/ (s.kb.first = "fit-page" /\ "new" \in s.resize) => base = s.committed.scale
  OBVIOUS
<1> HIDE DEF base
<1>7. /\ Based(s) \in KeyRecord /\ Based(s).on = s.kb.on /\ Based(s).call = s.kb.call /\ Based(s).pending = s.kb.pending
      /\ Based(s).queued = s.kb.queued /\ Based(s).zoomed = s.kb.zoomed /\ Based(s).typed = s.kb.typed
      /\ Based(s).first = "zoom" /\ Based(s).base = base
  BY <1>1, <1>4, <1>5 DEF KeyRecord
<1> QED
  BY <1>6, <1>7

\* When the keyboard's rendering has succeeded, the scale committed is the one that was typed so far.
LEMMA TypedSoFar ==
    ASSUME NEW s \in States, Sound(s), s.kb.on, s.call[s.kb.call].at = "settled", s.call[s.kb.call].ok, Fine(s), ~s.odd.moved
    PROVE  /\ s.kb.typed[Based(s).base] = resolveZoomIntent(s.committed.scale, s.kb.pending)
           /\ ~s.kb.queued => s.kb.pending = NoIntent
           /\ ~s.kb.queued /\ s.kb.zoomed => s.committed.mode = "custom" \/ s.odd.kept
           /\ s.kb.queued => s.kb.zoomed
<1> DEFINE r == s.call[s.kb.call]
<1>1. s.kb.call \in Call /\ s.committed.scale \in Scale
  BY DEF States, KeyRecord, Committed
<1>2. r.live /\ ~r.back
  BY <1>1 DEF Sound, Owners
<1>3. Hopeful(r) /\ Sure(r)
  BY <1>2 DEF Hopeful, Sure
<1>4. Agrees(s)
  BY <1>1, <1>2, <1>3 DEF Sound, Presentation, Rendering
<1>5. Typing(s) /\ FittingPage(s)
  BY DEF Sound, Answers
<1>6. /\ ~s.kb.queued => s.kb.pending = NoIntent
      /\ s.kb.queued => s.kb.zoomed
      /\ s.kb.zoomed /\ s.kb.first # "zoom" => s.kb.queued
      /\ s.kb.first = "zoom" => /\ s.view.mode = "custom" /\ s.kb.zoomed
                                /\ s.kb.typed[s.kb.base] = resolveZoomIntent(s.view.scale, s.kb.pending)
      /\ s.kb.first = "custom" => s.view = [mode |-> "custom", scale |-> ActualScale]
      /\ s.kb.first # "zoom" => \A x \in Scale : s.kb.typed[x] = resolveZoomIntent(x, s.kb.pending)
  BY <1>3, <1>5 DEF Typing
<1>7. s.kb.first = "fit-page" /\ "new" \notin s.resize => s.committed.scale = PageScale(s.box)
  BY <1>3, <1>5 DEF FittingPage
<1>8. s.view.mode = "custom" => s.view.scale = s.committed.scale
  BY <1>4 DEF Agrees
<1>9. s.kb.first \in {"zoom", "custom", "fit-width", "fit-page"}
  BY DEF Sound, Owners, States, KeyRecord
<1>10. s.kb.typed[Based(s).base] = resolveZoomIntent(s.committed.scale, s.kb.pending)
  <2>1. CASE s.kb.first = "zoom"
    BY <1>6, <1>8, <2>1, BaseKnown
  <2>2. CASE s.kb.first = "custom"
    <3>1. s.committed.scale = ActualScale /\ Based(s).base = ActualScale
      BY <1>6, <1>8, <2>2, BaseKnown
    <3> QED
      BY <1>1, <1>6, <2>2, <3>1
  <2>3. CASE s.kb.first \in {"fit-width", "fit-page"}
    <3>1. Based(s).base = s.committed.scale
      BY <1>7, <2>3, BaseKnown
    <3> QED
      BY <1>1, <1>6, <2>3, <3>1
  <2> QED
    BY <1>9, <2>1, <2>2, <2>3
<1>11. ~s.kb.queued /\ s.kb.zoomed => s.committed.mode = "custom" \/ s.odd.kept
  BY <1>4, <1>6 DEF Agrees
<1> QED
  BY <1>6, <1>10, <1>11

\* The keyboard's rendering has ended: the keys typed meanwhile are applied, or its change of the view is over.
LEMMA DrainIsSound ==
    ASSUME NEW p \in States, Sound(p), p.said.by = "none", NEW c \in Call, p.call[c].at = "settled", p.kb.on, p.kb.call = c,
           NEW t, t = DrainKeyboardView(Ended(p, c), c, p.call[c].ok)
    PROVE  t \in States /\ Sound(t) /\ DeferredIsAwaited(t) /\ Told(t)
<1> DEFINE e == Ended(p, c)
           k == Based(e)
           based == [e EXCEPT !.kb = k]
           l == [k EXCEPT !.queued = FALSE, !.pending = NoIntent]
           rest == [based EXCEPT !.kb = l]
           act == NextZoom(based)
           ok == p.call[c].ok
<1>1. e \in States /\ Kept(p, e) /\ e.kb = p.kb /\ e.said = p.said /\ e.call[c] = IdleCall /\ OthersAsBefore(p, e, c)
  BY EndedCall
<1>2. k = Based(p)
  BY <1>1 DEF Based, Kept
<1>3. /\ k \in KeyRecord /\ k.on /\ k.call = c /\ k.pending = p.kb.pending /\ k.queued = p.kb.queued
      /\ k.zoomed = p.kb.zoomed /\ k.typed = p.kb.typed /\ k.first = "zoom"
  BY <1>2, BaseKnown
<1>4. /\ based \in States /\ Kept(e, based) /\ based.kb = k /\ based.call = e.call /\ based.said = e.said
  BY <1>1, <1>3, KeyReplaced
<1>5. l \in KeyRecord /\ l.on /\ l.call = c /\ l.first = "zoom" /\ ~l.queued /\ l.pending = NoIntent
      /\ l.zoomed = k.zoomed /\ l.typed = k.typed /\ l.base = k.base
  BY <1>3, Constants DEF KeyRecord
<1> HIDE DEF e, k, based
<1>6. /\ rest \in States /\ Kept(based, rest) /\ rest.kb = l /\ rest.call = based.call /\ rest.said = based.said
  BY <1>4, <1>5, KeyReplaced
<1> HIDE DEF l
<1>7. t = IF ~ok \/ ~p.kb.queued THEN SettleKeyboardView(based, ok)
          ELSE IF IsFast(rest, act) THEN SettleKeyboardView(FastPath(rest, act), TRUE)
          ELSE Begin(ApplyKeyboardAction(rest, act), c, "keyboard")
  <2>1. [based EXCEPT !.kb.queued = FALSE, !.kb.pending = NoIntent] = rest
    BY <1>3, <1>4 DEF States, KeyRecord, l, rest
  <2> QED
    BY <2>1, <1>1, <1>3 DEF DrainKeyboardView, e, k, based
<1>8. /\ p.committed \in Committed /\ p.kb.pending \in Intent /\ ok \in BOOLEAN /\ p.odd.moved \in BOOLEAN /\ p.kb.queued \in BOOLEAN
      /\ p.kb.zoomed \in BOOLEAN /\ p.committed.scale \in Scale /\ p.kb.typed[k.base] \in Scale
  BY <1>3, <1>2 DEF States, Committed, KeyRecord, CallRecord
<1>9. ok /\ Fine(p) /\ ~p.odd.moved =>
        /\ k.typed[k.base] = resolveZoomIntent(p.committed.scale, p.kb.pending)
        /\ ~p.kb.queued => p.kb.pending = NoIntent
        /\ ~p.kb.queued /\ p.kb.zoomed => p.committed.mode = "custom" \/ p.odd.kept
        /\ p.kb.queued => p.kb.zoomed
  BY <1>2, <1>3, TypedSoFar
<1>10. act = [type |-> "zoom", step |-> resolveZoomIntent(p.committed.scale, p.kb.pending) - p.committed.scale]
  BY <1>1, <1>3, <1>4 DEF Kept, NextZoom
<1>11. act \in Action /\ act.type = "zoom" /\ clampReaderScale(p.committed.scale + act.step) = resolveZoomIntent(p.committed.scale, p.kb.pending)
  BY <1>10, <1>8, Resolves, Constants DEF Action
<1>12. Kept(p, based) /\ Kept(p, rest) /\ OthersAsBefore(p, based, c) /\ OthersAsBefore(p, rest, c) /\ based.call[c] = IdleCall /\ rest.call[c] = IdleCall
  BY <1>1, <1>4, <1>6 DEF Kept, OthersAsBefore
<1> HIDE DEF rest, act, ok
<1>13. /\ p.wheel.on <=> p.wheel.at # "none"
       /\ p.wheel.fresh => p.wheel.scale = p.wheel.target
       /\ p.restore # "none" => p.active
       /\ ok => p.active
       /\ Fine(p) => p.shown.scale = p.committed.scale
  BY DEF Sound, Owners, Presentation, Displayed, ok
<1>14. CASE ~ok \/ ~p.kb.queued
  <2>1. t = SettleKeyboardView(based, ok)
    BY <1>14, <1>7
  <2>2. /\ t \in States /\ DeferredIsAwaited(t) /\ Kept(based, t) /\ ~t.kb.on /\ t.call = based.call
        /\ ok => t.said = [by |-> "keyboard", goal |-> based.kb.typed[based.kb.base], zoomed |-> based.kb.zoomed, got |-> Of(based.committed)]
        /\ ~ok => t.said = based.said
    BY <2>1, <1>4, <1>8, KeySettled
  <2>3. Kept(p, t) /\ t.call[c] = IdleCall /\ OthersAsBefore(p, t, c)
    BY <2>2, <1>12 DEF Kept, OthersAsBefore
  <2>4. Sound(t)
    BY <2>2, <2>3, EndIsSound
  <2>5. Told(t)
    <3>1. CASE ~ok
      BY <3>1, <2>2, <1>4, <1>1 DEF Told
    <3>2. CASE ok
      <4>1. t.odd = p.odd /\ based.committed = p.committed
        BY <2>3, <1>12 DEF Kept
      <4>2. t.said.goal = k.typed[k.base] /\ t.said.zoomed = k.zoomed /\ t.said.got = Of(p.committed)
        BY <3>2, <2>2, <4>1, <1>4
      <4>3. ASSUME Fine(t), ~t.odd.moved
            PROVE  t.said.got.scale = t.said.goal /\ (t.said.zoomed => t.said.got.mode = "custom" \/ t.odd.kept)
        <5>1. Fine(p) /\ ~p.odd.moved /\ ~p.kb.queued
          BY <4>3, <4>1, <1>14, <3>2 DEF Fine
        <5>2. k.typed[k.base] = p.committed.scale /\ (p.kb.zoomed => p.committed.mode = "custom" \/ p.odd.kept)
          BY <5>1, <3>2, <1>9, <1>8, Resolves
        <5> QED
          BY <5>2, <4>1, <4>2, <1>3 DEF Of
      <4> QED
        BY <4>3 DEF Told
    <3> QED
      BY <3>1, <3>2, <1>8
  <2> QED
    BY <2>2, <2>4, <2>5
<1>15. CASE ok /\ p.kb.queued /\ IsFast(rest, act)
  <2>0. t = SettleKeyboardView(FastPath(rest, act), TRUE)
    BY <1>15, <1>7
  <2>1. rest.committed = p.committed /\ rest.odd = p.odd /\ rest.wheel = p.wheel /\ rest.restore = p.restore /\ rest.active = p.active
        /\ rest.shown = p.shown
    BY <1>12 DEF Kept
  <2>2. resolveZoomIntent(p.committed.scale, p.kb.pending) = p.committed.scale
    BY <1>15, <1>11, <2>1 DEF IsFast
  <2>3. Fine(p) /\ ~p.odd.moved => l.typed[l.base] = p.committed.scale
    BY <2>2, <1>9, <1>15, <1>5
  <2>4. CASE rest.committed.mode = "custom"
    <3>1. FastPath(rest, act) = rest
      BY <2>4 DEF FastPath
    <3>2. /\ t \in States /\ DeferredIsAwaited(t) /\ Kept(rest, t) /\ ~t.kb.on /\ t.call = rest.call
          /\ t.said = [by |-> "keyboard", goal |-> l.typed[l.base], zoomed |-> l.zoomed, got |-> Of(rest.committed)]
      BY <2>0, <3>1, <1>6, KeySettled
    <3>3. Kept(p, t) /\ t.call[c] = IdleCall /\ OthersAsBefore(p, t, c)
      BY <3>2, <1>12 DEF Kept, OthersAsBefore
    <3>4. Sound(t)
      BY <3>2, <3>3, EndIsSound
    <3>5. Told(t)
      <4>1. t.odd = p.odd
        BY <3>3 DEF Kept
      <4> QED
        BY <4>1, <3>2, <2>1, <2>3, <2>4 DEF Told, Fine, Of
    <3> QED
      BY <3>2, <3>4, <3>5
  <2>5. CASE rest.committed.mode # "custom"
    <3> DEFINE f == FastPath(rest, act)
    <3>1. f \in States /\ FastFrom(rest, f, act)
      BY <2>5, <1>6, <1>11, <1>15, FastCall
    <3> HIDE DEF f
    <3>2. /\ t \in States /\ DeferredIsAwaited(t) /\ Kept(f, t) /\ ~t.kb.on /\ t.call = f.call
          /\ t.said = [by |-> "keyboard", goal |-> f.kb.typed[f.kb.base], zoomed |-> f.kb.zoomed, got |-> Of(f.committed)]
      BY <2>0, <3>1, KeySettled DEF f
    <3>3. /\ t.wheel = f.wheel /\ t.restore = f.restore /\ t.active = f.active /\ t.shown = f.shown
          /\ t.committed = f.committed /\ t.view = f.view /\ t.rollback = f.rollback /\ t.odd = f.odd
      BY <3>2 DEF Kept
    <3>4. /\ rest.wheel.on <=> rest.wheel.at # "none"
          /\ rest.wheel.fresh => rest.wheel.scale = rest.wheel.target
          /\ rest.restore # "none" => rest.active
          /\ Fine(rest) => rest.shown.scale = rest.committed.scale
      BY <1>13, <2>1 DEF Fine
    <3>5. Sound(t)
      BY <3>1, <3>2, <3>3, <3>4, FastRests
    <3>6. /\ f.kb = l /\ f.committed.scale = p.committed.scale /\ f.committed.mode = "custom"
          /\ f.odd.broken = p.odd.broken /\ f.odd.both = p.odd.both /\ (~f.odd.moved => ~p.odd.moved)
      BY <3>1, <2>1, <1>6 DEF FastFrom
    <3>7. Told(t)
      BY <3>2, <3>3, <3>6, <2>3 DEF Told, Fine, Of
    <3> QED
      BY <3>2, <3>5, <3>7
  <2> QED
    BY <2>4, <2>5
<1>16. CASE ok /\ p.kb.queued /\ ~IsFast(rest, act)
  <2>0. t = Begin(ApplyKeyboardAction(rest, act), c, "keyboard")
    BY <1>16, <1>7
  <2>1. rest.committed = p.committed /\ rest.odd = p.odd /\ rest.wheel = p.wheel /\ rest.active = p.active /\ rest.shown = p.shown
    BY <1>12 DEF Kept
  <2>2. Fine(rest) /\ ~rest.odd.moved => FreshKey(rest.kb, rest.committed.scale, act)
    <3>1. rest.kb = l /\ ~l.queued /\ l.pending = NoIntent /\ l.first = "zoom" /\ l.zoomed = p.kb.zoomed /\ l.typed[l.base] = k.typed[k.base]
      BY <1>3, <1>5, <1>6
    <3>2. Fine(rest) /\ ~rest.odd.moved => l.zoomed /\ l.typed[l.base] = clampReaderScale(p.committed.scale + act.step)
      BY <3>1, <2>1, <1>16, <1>9, <1>11 DEF Fine
    <3> QED
      BY <3>1, <3>2, <2>1, <1>11 DEF FreshKey
  <2>3. t \in States /\ Sound(t) /\ DeferredIsAwaited(t) /\ t.said = rest.said
    <3>1. rest.active /\ rest.kb.on /\ rest.kb.call = c /\ rest.kb.first # "none"
      BY <2>1, <1>13, <1>16, <1>5, <1>6
    <3>2. /\ rest.wheel.on <=> rest.wheel.at # "none"
          /\ rest.wheel.fresh => rest.wheel.scale = rest.wheel.target
          /\ Fine(rest) => rest.shown.scale = rest.committed.scale
      BY <1>13, <2>1 DEF Fine
    <3> QED
      BY <3>1, <3>2, <2>2, <2>0, <1>6, <1>11, KeyBegins
  <2> QED
    BY <2>3, <1>1, <1>4, <1>6 DEF Told
<1> QED
  BY <1>14, <1>15, <1>16, <1>8 DEF ok

-----------------------------------------------------------------------------
(* The keyboard asks *)

Good(s) == s \in States /\ Sound(s) /\ DeferredIsAwaited(s) /\ Told(s)
Silent(s) == Good(s) /\ s.said.by = "none"

LEMMA CancelIsSilent ==
    ASSUME NEW s, Silent(s), NEW t, t = CancelKeyboardView(s)
    PROVE  /\ Silent(t) /\ t.active = s.active /\ t.wheel = s.wheel /\ t.committed = s.committed /\ t.resize = s.resize
           /\ t.shown = s.shown /\ t.restore = s.restore /\ ~t.kb.on
<1>1. s \in States /\ Sound(s) /\ DeferredIsAwaited(s)
  BY DEF Silent, Good
<1>2. t \in States /\ Sound(t) /\ DeferredIsAwaited(t) /\ ~t.kb.on
  BY <1>1, CancelIsSound
<1>3. CASE ~s.kb.on
  BY <1>3 DEF CancelKeyboardView
<1>4. CASE s.kb.on
  <2>1. CancelledFrom(s, t)
    BY <1>1, <1>4, Cancelled
  <2>2. t.said = s.said
    BY <2>1 DEF CancelledFrom
  <2> QED
    BY <1>2, <2>1, <2>2 DEF Silent, Good, Told, CancelledFrom
<1> QED
  BY <1>3, <1>4

\* Another zoom is typed while the keyboard's rendering is under way.

LEMMA MoreIsKnown ==
    ASSUME NEW k \in KeyRecord, NEW step \in Int
    PROVE  /\ MoreTyped(k, step) \in KeyRecord
           /\ MoreTyped(k, step).on = k.on /\ MoreTyped(k, step).call = k.call /\ MoreTyped(k, step).first = k.first
           /\ MoreTyped(k, step).base = k.base /\ MoreTyped(k, step).queued /\ MoreTyped(k, step).zoomed
           /\ \A x, y \in Scale : k.typed[x] = resolveZoomIntent(y, k.pending) =>
                MoreTyped(k, step).typed[x] = resolveZoomIntent(y, MoreTyped(k, step).pending)
<1> DEFINE q == appendZoomIntent(k.pending, step)  f == Typed(k.typed, step)  m == MoreTyped(k, step)
<1>1. k.pending \in Intent /\ k.typed \in [Scale -> Scale]
  BY DEF KeyRecord
<1>2. q \in Intent /\ \A y \in Scale : resolveZoomIntent(y, q) = clampReaderScale(resolveZoomIntent(y, k.pending) + step)
  BY <1>1, SummaryIsExact
<1>3. f \in [Scale -> Scale] /\ \A x \in Scale : f[x] = clampReaderScale(k.typed[x] + step)
  <2>1. \A x \in Scale : k.typed[x] \in Int
    BY <1>1, Constants
  <2>2. \A x \in Scale : clampReaderScale(k.typed[x] + step) \in Scale
    BY <2>1, Constants
  <2> QED
    BY <2>2 DEF Typed
<1>4. m = [k EXCEPT !.pending = q, !.queued = TRUE, !.zoomed = TRUE, !.typed = f]
  BY DEF MoreTyped
<1> HIDE DEF q, f, m
<1>5. /\ m \in KeyRecord /\ m.on = k.on /\ m.call = k.call /\ m.first = k.first /\ m.base = k.base /\ m.queued /\ m.zoomed
      /\ m.pending = q /\ m.typed = f
  BY <1>2, <1>3, <1>4 DEF KeyRecord
<1> QED
  BY <1>2, <1>3, <1>5 DEF m

LEMMA MoreIsGood ==
    ASSUME NEW p, Silent(p), p.kb.on, NEW step \in Int, NEW t, t = [p EXCEPT !.kb = MoreTyped(p.kb, step)]
    PROVE  Good(t)
<1> DEFINE m == MoreTyped(p.kb, step)
<1>1. p \in States /\ Sound(p) /\ DeferredIsAwaited(p) /\ p.said.by = "none" /\ p.kb \in KeyRecord
  BY DEF Silent, Good, States
<1>2. /\ m \in KeyRecord /\ m.on /\ m.call = p.kb.call /\ m.first = p.kb.first /\ m.base = p.kb.base /\ m.queued /\ m.zoomed
      /\ \A x, y \in Scale : p.kb.typed[x] = resolveZoomIntent(y, p.kb.pending) => m.typed[x] = resolveZoomIntent(y, m.pending)
  BY <1>1, MoreIsKnown
<1> HIDE DEF m
<1>3. t \in States /\ Kept(p, t) /\ t.kb = m /\ t.call = p.call /\ t.said = p.said /\ t.sync = p.sync
  BY <1>1, <1>2, KeyReplaced DEF m
<1>4. Owners(t)
  BY <1>1, <1>2, <1>3 DEF Sound, Owners, Kept
<1>5. Fine(p) => Presentation(t)
  <2>1. t.view = p.view /\ t.committed = p.committed /\ t.odd = p.odd /\ t.shown = p.shown /\ t.wheel = p.wheel
        /\ t.rollback = p.rollback /\ t.dirty = p.dirty
    BY <1>3 DEF Kept
  <2>2. Agrees(t) <=> Agrees(p)
    BY <2>1 DEF Agrees
  <2>3. Pending(t) <=> Pending(p)
    BY <1>2, <1>3, <2>1 DEF Pending
  <2>4. Displayed(p) => Displayed(t)
    BY <2>1 DEF Displayed
  <2>5. Alone(p) => Alone(t)
    BY <1>3, <2>1 DEF Alone
  <2>6. Wanted(p) => Wanted(t)
    BY <2>1, <2>2, <2>3 DEF Wanted
  <2>7. \A c \in Call : Rendering(p, c) => Rendering(t, c)
    BY <1>3, <2>1, <2>2 DEF Rendering
  <2> QED
    BY <1>1, <2>4, <2>5, <2>6, <2>7 DEF Sound, Presentation
<1>6. ASSUME Fine(p), ~p.odd.moved PROVE Typing(t) /\ FittingPage(t)
  <2>1. Typing(p) /\ FittingPage(p)
    BY <1>1, <1>6 DEF Sound, Answers
  <2>2. t.call[t.kb.call] = p.call[p.kb.call] /\ t.view = p.view /\ t.resize = p.resize /\ t.shown = p.shown /\ t.box = p.box /\ t.committed = p.committed
    BY <1>2, <1>3 DEF Kept
  <2>3. FittingPage(t)
    BY <2>1, <2>2, <1>1, <1>2, <1>3 DEF FittingPage
  <2>4. p.view.scale \in Scale /\ p.kb.base \in Scale
    BY <1>1 DEF States, View, KeyRecord
  <2>5. ASSUME Hopeful(p.call[p.kb.call])
        PROVE  /\ m.first = "zoom" => p.view.mode = "custom" /\ m.typed[m.base] = resolveZoomIntent(p.view.scale, m.pending)
               /\ m.first = "custom" => p.view = [mode |-> "custom", scale |-> ActualScale]
               /\ m.first \in {"fit-width", "fit-page"} => p.view.mode = m.first
               /\ m.first # "zoom" => \A x \in Scale : m.typed[x] = resolveZoomIntent(x, m.pending)
    BY <2>1, <2>4, <2>5, <1>2 DEF Typing
  <2>6. Typing(t)
    BY <2>5, <2>2, <1>2, <1>3 DEF Typing
  <2> QED
    BY <2>3, <2>6
<1>7. Sound(t)
  BY <1>3, <1>4, <1>5, <1>6 DEF Sound, Fine, Answers, Kept
<1>8. DeferredIsAwaited(t)
  BY <1>1, <1>2, <1>3 DEF DeferredIsAwaited, Owned, Idle, Kept
<1> QED
  BY <1>1, <1>3, <1>7, <1>8 DEF Good, Told

\* At a bound of the scale the zoom is done at once.
LEMMA FastIsGood ==
    ASSUME NEW s, Silent(s), ~s.kb.on, NEW act \in Action, IsFast(s, act), 
           NEW t, t = IF s.committed.mode = "custom" THEN FastPath(s, act)
                      ELSE Answer(FastPath(s, act), "keyboard", s.committed.scale, TRUE)
    PROVE  Good(t)
<1>1. s \in States /\ Sound(s) /\ DeferredIsAwaited(s)
  BY DEF Silent, Good
<1>2. CASE s.committed.mode = "custom"
  BY <1>2 DEF FastPath, Silent
<1>3. CASE s.committed.mode # "custom"
  <2> DEFINE f == FastPath(s, act)
  <2>1. f \in States /\ FastFrom(s, f, act) /\ DeferredIsAwaited(f)
    BY <1>1, <1>3, FastCall
  <2>2. t = Answer(f, "keyboard", s.committed.scale, TRUE)
    BY <1>3
  <2> HIDE DEF f
  <2>3. s.committed.scale \in Scale
    BY <1>1 DEF States, Committed
  <2>4. /\ t \in States /\ Kept(f, t) /\ t.kb = f.kb /\ t.call = f.call /\ t.sync = f.sync
        /\ t.said = [by |-> "keyboard", goal |-> s.committed.scale, zoomed |-> TRUE, got |-> Of(f.committed)]
    <3> DEFINE zoomed == TRUE  by == "keyboard"  goal == s.committed.scale
    <3>1. zoomed \in BOOLEAN /\ by \in {"keyboard", "wheel"} /\ goal \in Scale
      BY <2>3
    <3> HIDE DEF zoomed, by, goal
    <3> DEFINE v == Answer(f, by, goal, zoomed)
    <3>2. /\ v \in States /\ Kept(f, v) /\ v.kb = f.kb /\ v.call = f.call /\ v.sync = f.sync
          /\ v.said = [by |-> by, goal |-> goal, zoomed |-> zoomed, got |-> Of(f.committed)]
      BY <2>1, <3>1, AnswerGiven
    <3>3. t = v
      BY <2>2 DEF zoomed, by, goal
    <3> HIDE DEF v
    <3> QED
      BY <3>2, <3>3 DEF zoomed, by, goal
  <2>5. /\ t.wheel = f.wheel /\ t.restore = f.restore /\ t.active = f.active /\ t.shown = f.shown
        /\ t.committed = f.committed /\ t.view = f.view /\ t.rollback = f.rollback /\ t.odd = f.odd
    BY <2>4 DEF Kept
  <2>6. /\ f.kb = s.kb /\ f.committed.scale = s.committed.scale /\ f.committed.mode = "custom"
    BY <2>1 DEF FastFrom
  <2>7. /\ s.wheel.on <=> s.wheel.at # "none"
        /\ s.wheel.fresh => s.wheel.scale = s.wheel.target
        /\ s.restore # "none" => s.active
        /\ Fine(s) => s.shown.scale = s.committed.scale
    BY <1>1 DEF Sound, Owners, Presentation, Displayed
  <2>8. Sound(t)
    BY <2>1, <2>4, <2>5, <2>6, <2>7, FastRests
  <2>9. DeferredIsAwaited(t)
    BY <2>1, <2>4, <2>5 DEF DeferredIsAwaited, Owned, Idle
  <2>10. Told(t)
    <3>1. t.said.goal = s.committed.scale /\ t.said.got = Of(f.committed)
      BY ONLY <2>4
    <3>2. t.said.got.scale = s.committed.scale /\ t.said.got.mode = "custom"
      BY ONLY <3>1, <2>6 DEF Of
    <3> QED
      BY <3>1, <3>2 DEF Told
  <2> QED
    BY <2>4, <2>8, <2>9, <2>10 DEF Good
<1> QED
  BY <1>2, <1>3

LEMMA OwnerIsKnown ==
    ASSUME NEW s \in States, NEW act \in Action, Idle(s) # {}
    PROVE  /\ KeyOwner(s, act) \in KeyRecord /\ KeyOwner(s, act).on /\ KeyOwner(s, act).call \in Idle(s)
           /\ KeyOwner(s, act).first # "none" /\ FreshKey(KeyOwner(s, act), s.committed.scale, act)
<1> DEFINE o == KeyOwner(s, act)  f == IF act.type = "zoom" THEN Typed(NoKey.typed, act.step) ELSE NoKey.typed
           u == Unused(s)  z == (act.type = "zoom")
<1>1. u \in Idle(s) /\ u \in Call
  BY DEF Unused, Idle
<1>2. s.committed.scale \in Scale /\ act.step \in Int /\ act.type \in {"zoom", "custom", "fit-width", "fit-page"}
  BY DEF States, Committed, Action
<1>3. NoKey \in KeyRecord /\ ~NoKey.queued /\ NoKey.pending = NoIntent /\ NoKey.typed = [x \in Scale |-> x]
  BY Defaults DEF NoKey, States
<1>4. /\ f \in [Scale -> Scale]
      /\ act.type = "zoom" => \A x \in Scale : f[x] = clampReaderScale(x + act.step)
      /\ act.type # "zoom" => \A x \in Scale : f[x] = x
  BY <1>2, <1>3, Constants DEF Typed
<1>5. o = [NoKey EXCEPT !.on = TRUE, !.call = u, !.first = act.type, !.base = s.committed.scale, !.zoomed = z, !.typed = f]
  BY <1>3 DEF KeyOwner, KeyRecord
<1>6. z \in BOOLEAN
  OBVIOUS
<1> HIDE DEF o, f, u
<1>7. /\ o \in KeyRecord /\ o.on /\ o.call = u /\ o.first = act.type /\ o.base = s.committed.scale /\ o.zoomed = z
      /\ o.typed = f /\ ~o.queued /\ o.pending = NoIntent
  BY <1>1, <1>2, <1>3, <1>4, <1>5, <1>6 DEF KeyRecord
<1>8. FreshKey(o, s.committed.scale, act)
  BY <1>2, <1>4, <1>7 DEF FreshKey
<1> QED
  BY <1>1, <1>2, <1>7, <1>8 DEF o

LEMMA OwnerIsGood ==
    ASSUME NEW s, Silent(s), s.active, NEW act \in Action, Idle(s) # {},
           NEW t, t = Begin(ApplyKeyboardAction([s EXCEPT !.kb = KeyOwner(s, act)], act), KeyOwner(s, act).call, "keyboard")
    PROVE  Good(t)
<1> DEFINE o == KeyOwner(s, act)  m == [s EXCEPT !.kb = o]
<1>1. s \in States /\ Sound(s) /\ s.said.by = "none"
  BY DEF Silent, Good
<1>2. o \in KeyRecord /\ o.on /\ o.call \in Call /\ o.first # "none" /\ FreshKey(o, s.committed.scale, act)
  BY <1>1, OwnerIsKnown DEF Idle
<1>3. t = Begin(ApplyKeyboardAction(m, act), o.call, "keyboard")
  OBVIOUS
<1> HIDE DEF o
<1>4. m \in States /\ Kept(s, m) /\ m.kb = o /\ m.said = s.said
  BY <1>1, <1>2, KeyReplaced
<1> HIDE DEF m
<1>5. /\ m.active /\ m.committed = s.committed
      /\ m.wheel.on <=> m.wheel.at # "none"
      /\ m.wheel.fresh => m.wheel.scale = m.wheel.target
      /\ Fine(m) => m.shown.scale = m.committed.scale
  BY <1>1, <1>4 DEF Sound, Owners, Presentation, Displayed, Kept, Fine
<1>6. t \in States /\ Sound(t) /\ DeferredIsAwaited(t) /\ t.said = m.said
  BY <1>2, <1>3, <1>4, <1>5, KeyBegins
<1> QED
  BY <1>1, <1>4, <1>6 DEF Good, Told

-----------------------------------------------------------------------------
(* The wheel *)

LEMMA NoneUnderWay ==
    ASSUME NEW t, ~t.kb.on, t.wheel.on <=> t.wheel.at # "none", t.wheel.fresh => t.wheel.scale = t.wheel.target,
           t.restore # "none" => t.active, \A d \in Call : ~t.call[d].live /\ ~t.call[d].ok /\ ~t.call[d].back,
           Fine(t) => Displayed(t) /\ Wanted(t)
    PROVE  Sound(t)
<1>1. Owners(t)
  BY DEF Owners
<1>2. Alone(t) /\ \A c \in Call : Rendering(t, c)
  BY DEF Alone, Rendering
<1>3. Answers(t)
  BY DEF Answers, Typing, FittingPage
<1> QED
  BY <1>1, <1>2, <1>3 DEF Sound, Presentation

\* While the wheel changes the view, no rendering is under way.
LEMMA WheelMoves ==
    ASSUME NEW s \in States, Sound(s), s.wheel.on, NEW t, t.call = s.call, ~t.kb.on, t.active = s.active, t.restore = s.restore,
           t.wheel.on <=> t.wheel.at # "none", t.wheel.fresh => t.wheel.scale = t.wheel.target,
           Fine(t) => Fine(s) /\ (Displayed(s) /\ Wanted(s) => Displayed(t) /\ Wanted(t))
    PROVE  Sound(t)
<1>1. Owners(t)
  BY DEF Sound, Owners
<1>2. ASSUME Fine(t) PROVE Presentation(t)
  <2>1. Displayed(s) /\ Wanted(s) /\ \A c \in Call : ~s.call[c].live
    BY <1>2 DEF Sound, Presentation, Alone
  <2> QED
    BY <1>2, <2>1 DEF Presentation, Alone, Rendering
<1>3. Answers(t)
  BY DEF Answers, Typing, FittingPage
<1> QED
  BY <1>1, <1>2, <1>3 DEF Sound

\* Nothing has changed but the wheel, and what is said.
ButWheel(s, t) ==
    /\ t.view = s.view /\ t.committed = s.committed /\ t.shown = s.shown /\ t.box = s.box /\ t.resize = s.resize
    /\ t.active = s.active /\ t.restore = s.restore /\ t.kb = s.kb /\ t.dirty = s.dirty /\ t.odd = s.odd
    /\ t.sync.at = s.sync.at

\* The view that is wanted does not depend on the wheel.
LEMMA WantedButWheel ==
    ASSUME NEW s, NEW t, ButWheel(s, t), ~s.kb.on, Wanted(s), t.rollback.on => t.rollback.to = Of(t.committed)
    PROVE  Wanted(t)
<1>1. Agrees(t) <=> Agrees(s)
  BY DEF Agrees, ButWheel
<1>2. ~Pending(s)
  BY DEF Pending
<1> QED
  BY <1>1, <1>2 DEF Wanted, ButWheel

WheelSet(s, w) == [s EXCEPT !.wheel = w]
LEMMA WheelReplaced ==
    ASSUME NEW s \in States, NEW w \in WheelRecord
    PROVE  /\ WheelSet(s, w) \in States /\ ButWheel(s, WheelSet(s, w)) /\ WheelSet(s, w).wheel = w /\ WheelSet(s, w).call = s.call
           /\ WheelSet(s, w).rollback = s.rollback /\ WheelSet(s, w).said = s.said
  BY DEF WheelSet, States, ButWheel

Draws(w, prior) == [w EXCEPT !.at = "anchor", !.scale = w.target, !.fresh = TRUE, !.prior = prior]

LEMMA Iterated ==
    ASSUME NEW s \in States
    PROVE  /\ Iterate(s) \in States /\ ButWheel(s, Iterate(s)) /\ Iterate(s).said = s.said /\ Stopped(s, Iterate(s))
           /\ Iterate(s).rollback = [on |-> TRUE, fresh |-> TRUE, to |-> Of(s.committed)]
           /\ Iterate(s).wheel = Draws(s.wheel, s.committed)
<1> DEFINE a == Intended(s)  r == [on |-> TRUE, fresh |-> TRUE, to |-> Of(a.committed)]  w == Draws(a.wheel, a.committed)
<1>1. a \in States /\ Unmoved(s, a) /\ a.said = s.said /\ a.sync = s.sync /\ Stopped(s, a)
  BY IntendedCalls
<1>2. Iterate(s) = [a EXCEPT !.rollback = r, !.wheel = w]
  BY DEF Iterate, Draws
<1> HIDE DEF a
<1>3. a.committed \in Committed /\ a.wheel \in WheelRecord
  BY <1>1 DEF States
<1>4. r \in [on : BOOLEAN, fresh : BOOLEAN, to : View]
  BY <1>3 DEF Of, Committed, View
<1>5. w \in WheelRecord
  BY <1>3 DEF Draws, WheelRecord
<1>6. r = [on |-> TRUE, fresh |-> TRUE, to |-> Of(s.committed)] /\ w = Draws(s.wheel, s.committed)
  BY <1>1 DEF Unmoved
<1> HIDE DEF r, w
<1>7. /\ [a EXCEPT !.rollback = r, !.wheel = w] \in States /\ ButWheel(a, [a EXCEPT !.rollback = r, !.wheel = w])
      /\ [a EXCEPT !.rollback = r, !.wheel = w].said = a.said /\ [a EXCEPT !.rollback = r, !.wheel = w].call = a.call
      /\ [a EXCEPT !.rollback = r, !.wheel = w].rollback = r /\ [a EXCEPT !.rollback = r, !.wheel = w].wheel = w
  BY <1>1, <1>4, <1>5 DEF States, ButWheel
<1>8. ButWheel(s, Iterate(s))
  BY <1>1, <1>2, <1>7 DEF ButWheel, Unmoved
<1>9. Stopped(s, Iterate(s))
  BY <1>1, <1>2, <1>7 DEF Stopped
<1> QED
  BY <1>1, <1>2, <1>6, <1>7, <1>8, <1>9

\* The wheel begins to render for its target.
LEMMA IterateIsGood ==
    ASSUME NEW s \in States, s.wheel.on, ~s.kb.on, s.said.by = "none", s.restore # "none" => s.active, DeferredIsAwaited(s),
           Fine(s) => s.shown.scale = s.committed.scale /\ Wanted(s),
           NEW t, t = Iterate(s)
    PROVE  Good(t)
<1>1. /\ t \in States /\ ButWheel(s, t) /\ t.said = s.said /\ Stopped(s, t)
      /\ t.rollback = [on |-> TRUE, fresh |-> TRUE, to |-> Of(s.committed)] /\ t.wheel = Draws(s.wheel, s.committed)
  BY Iterated
<1>2. /\ t.wheel.on /\ t.wheel.at = "anchor" /\ t.wheel.scale = t.wheel.target /\ t.wheel.prior = s.committed
  BY <1>1 DEF Draws, States, WheelRecord
<1>3. ASSUME Fine(t) PROVE Displayed(t) /\ Wanted(t)
  <2>1. s.shown.scale = s.committed.scale /\ Wanted(s)
    BY <1>1, <1>3 DEF Fine, ButWheel
  <2>2. Displayed(t)
    BY <2>1, <1>1, <1>2 DEF Displayed, ButWheel
  <2>3. t.rollback.to = Of(t.committed)
    BY <1>1 DEF ButWheel
  <2> QED
    BY <2>1, <2>2, <2>3, <1>1, WantedButWheel
<1>4. ~t.kb.on /\ (t.restore # "none" => t.active) /\ \A d \in Call : ~t.call[d].live /\ ~t.call[d].ok /\ ~t.call[d].back
  BY <1>1 DEF ButWheel, Stopped
<1>5. Sound(t)
  BY <1>2, <1>3, <1>4, NoneUnderWay
<1>6. DeferredIsAwaited(t)
  BY <1>1, <1>2 DEF DeferredIsAwaited, Owned, ButWheel
<1> QED
  BY <1>1, <1>5, <1>6 DEF Good, Told

LEMMA RestartIsGood ==
    ASSUME NEW s, Silent(s), s.wheel.on, NEW t, t = Iterate(s)
    PROVE  Good(t)
<1>1. s \in States /\ ~s.kb.on /\ s.said.by = "none" /\ (s.restore # "none" => s.active) /\ DeferredIsAwaited(s)
  BY DEF Silent, Good, Sound, Owners
<1>2. Fine(s) => s.shown.scale = s.committed.scale /\ Wanted(s)
  BY DEF Silent, Good, Sound, Presentation, Displayed
<1> QED
  BY <1>1, <1>2, IterateIsGood

\* At a bound of the scale there is nothing to render.

LEMMA BoundIsKnown ==
    ASSUME NEW a \in States, NEW target \in Scale
    PROVE  /\ AtBound(a, target) \in States /\ AtBound(a, target).view = [mode |-> "custom", scale |-> target]
           /\ AtBound(a, target).committed = [a.committed EXCEPT !.mode = "custom"] /\ ~AtBound(a, target).rollback.on
           /\ AtBound(a, target).odd = [a.odd EXCEPT !.kept = FALSE] /\ AtBound(a, target).call = a.call
           /\ AtBound(a, target).shown = a.shown /\ AtBound(a, target).active = a.active /\ AtBound(a, target).restore = a.restore
           /\ AtBound(a, target).kb = a.kb /\ AtBound(a, target).wheel = a.wheel /\ AtBound(a, target).sync = a.sync
<1> DEFINE v == [mode |-> "custom", scale |-> target]  k == [a.committed EXCEPT !.mode = "custom"]  o == [a.odd EXCEPT !.kept = FALSE]
<1>1. v \in View
  BY DEF View, Mode
<1>2. Box # {}
  BY DEF States
<1>3. NoRollback \in [on : BOOLEAN, fresh : BOOLEAN, to : View] /\ ~NoRollback.on
  BY <1>2, Defaults DEF NoRollback
<1>4. k \in Committed
  BY DEF States, Committed, Mode
<1>5. o \in [broken : BOOLEAN, kept : BOOLEAN, both : BOOLEAN, moved : BOOLEAN]
  BY DEF States
<1>6. AtBound(a, target) = [a EXCEPT !.view = v, !.committed = k, !.rollback = NoRollback, !.odd = o]
  BY DEF AtBound, States
<1> HIDE DEF v, k, o
<1>7. \A x \in States : [x EXCEPT !.view = v, !.committed = k] \in States
  BY <1>1, <1>4 DEF States
<1>8. \A x \in States : [x EXCEPT !.rollback = NoRollback, !.odd = o] \in States
  BY <1>3, <1>5 DEF States
<1>9. [a EXCEPT !.view = v, !.committed = k, !.rollback = NoRollback, !.odd = o]
        = [[a EXCEPT !.view = v, !.committed = k] EXCEPT !.rollback = NoRollback, !.odd = o]
  BY DEF States
<1>10. AtBound(a, target) \in States
  BY <1>6, <1>7, <1>8, <1>9
<1> DEFINE t == AtBound(a, target)
<1>11. /\ t.view = v /\ t.committed = k /\ t.rollback = NoRollback /\ t.odd = o /\ t.call = a.call
       /\ t.shown = a.shown /\ t.active = a.active /\ t.restore = a.restore
       /\ t.kb = a.kb /\ t.wheel = a.wheel /\ t.sync = a.sync
  BY <1>6 DEF States
<1> HIDE DEF t
<1> QED
  BY <1>3, <1>10, <1>11 DEF v, k, o, t

LEMMA Superseding ==
    ASSUME NEW s \in States, NEW a, a = Intended(Navigated(s))
    PROVE  /\ a \in States /\ Unmoved(s, a) /\ Stopped(s, a) /\ a.said = s.said /\ a.sync.at = s.sync.at
           /\ a.rollback.on = s.rollback.on /\ a.rollback.to = s.rollback.to
<1> DEFINE n == Navigated(s)
<1>1. n \in States /\ Unmoved(s, n) /\ n.said = s.said /\ n.rollback = s.rollback /\ n.sync.at = s.sync.at /\ Stopped(s, n)
  BY NavigatedCalls
<1> HIDE DEF n
<1>2. /\ a \in States /\ Unmoved(n, a) /\ a.said = n.said /\ a.rollback.on = n.rollback.on /\ a.rollback.to = n.rollback.to
      /\ a.sync = n.sync /\ Stopped(n, a)
  BY <1>1, IntendedCalls DEF n
<1> QED
  BY <1>1, <1>2 DEF Unmoved, Stopped

LEMMA ZoomedIsGood ==
    ASSUME NEW s, Silent(s), ~s.kb.on, NEW target \in Scale, NEW t, t = Zoomed(s, target)
    PROVE  Good(t)
<1> DEFINE a == Intended(Navigated(s))
<1>1. s \in States /\ Sound(s) /\ DeferredIsAwaited(s) /\ s.said.by = "none"
  BY DEF Silent, Good
<1>2. /\ a \in States /\ Unmoved(s, a) /\ Stopped(s, a) /\ a.said = s.said /\ a.sync.at = s.sync.at
      /\ a.rollback.on = s.rollback.on /\ a.rollback.to = s.rollback.to
  BY <1>1, Superseding
<1>3. t = IF target = s.committed.scale /\ ~s.wheel.on
          THEN IF s.view.mode = "custom" THEN s ELSE Answer(AtBound(a, target), "wheel", target, TRUE)
          ELSE IF s.wheel.on THEN [a EXCEPT !.wheel.target = target, !.wheel.fresh = FALSE]
          ELSE Iterate([a EXCEPT !.wheel = [NoWheel EXCEPT !.on = TRUE, !.target = target]])
  BY DEF Zoomed
<1> HIDE DEF a
<1>4. /\ s.wheel.on <=> s.wheel.at # "none"
      /\ s.wheel.fresh => s.wheel.scale = s.wheel.target
      /\ s.restore # "none" => s.active
      /\ Fine(s) => Displayed(s) /\ s.shown.scale = s.committed.scale /\ Wanted(s)
  BY <1>1 DEF Sound, Owners, Presentation, Displayed
<1>5. /\ a.wheel = s.wheel /\ a.restore = s.restore /\ a.active = s.active /\ a.odd = s.odd /\ a.shown = s.shown /\ a.committed = s.committed
      /\ ~a.kb.on /\ \A d \in Call : ~a.call[d].live /\ ~a.call[d].ok /\ ~a.call[d].back
  BY <1>2 DEF Unmoved, Stopped
<1>6. ButWheel(s, a)
  BY <1>2 DEF ButWheel, Unmoved
<1>7. Fine(s) => (a.rollback.on => a.rollback.to = Of(a.committed))
  BY <1>2, <1>4, <1>5 DEF Wanted
<1>8. DeferredIsAwaited(a)
  <2>1. Idle(a) = Idle(s)
    BY <1>2 DEF Idle, Stopped
  <2> QED
    BY <2>1, <1>1, <1>2, <1>5 DEF DeferredIsAwaited, Owned, Unmoved
<1>9. CASE target = s.committed.scale /\ ~s.wheel.on /\ s.view.mode = "custom"
  BY <1>9, <1>3 DEF Silent
<1>10. CASE target = s.committed.scale /\ ~s.wheel.on /\ s.view.mode # "custom"
  <2> DEFINE v == AtBound(a, target)  u == Answer(v, "wheel", target, TRUE)
  <2>1. /\ v \in States /\ v.view = [mode |-> "custom", scale |-> target]
        /\ v.committed = [a.committed EXCEPT !.mode = "custom"] /\ ~v.rollback.on
        /\ v.odd = [a.odd EXCEPT !.kept = FALSE] /\ v.call = a.call
        /\ v.shown = a.shown /\ v.active = a.active /\ v.restore = a.restore
        /\ v.kb = a.kb /\ v.wheel = a.wheel /\ v.sync = a.sync
    BY <1>2, BoundIsKnown
  <2>2. t = u
    BY <1>10, <1>3
  <2> HIDE DEF v
  <2>3. /\ u \in States /\ Kept(v, u) /\ u.kb = v.kb /\ u.call = v.call /\ u.sync = v.sync
        /\ u.said = [by |-> "wheel", goal |-> target, zoomed |-> TRUE, got |-> Of(v.committed)]
    BY <2>1, AnswerGiven
  <2> HIDE DEF u
  <2>4. v.committed.mode = "custom" /\ v.committed.scale = target
    BY <2>1, <1>2, <1>5, <1>10 DEF States, Committed
  <2>5. u.view = v.view /\ u.committed = v.committed /\ u.shown = a.shown /\ u.wheel = a.wheel /\ u.restore = a.restore
        /\ u.active = a.active /\ u.odd = v.odd /\ u.rollback = v.rollback
    BY <2>1, <2>3 DEF Kept
  <2>6. ASSUME Fine(u) PROVE Displayed(u) /\ Wanted(u)
    <3>1. Fine(s)
      BY <2>6, <2>1, <2>5, <1>2, <1>5 DEF Fine, States
    <3>2. Displayed(u)
      BY <3>1, <2>4, <2>5, <1>4, <1>5, <1>10 DEF Displayed
    <3>3. Wanted(u)
      BY <2>1, <2>4, <2>5 DEF Wanted, Agrees
    <3> QED
      BY <3>2, <3>3
  <2>7. Sound(u)
    BY <2>1, <2>3, <2>5, <2>6, <1>4, <1>5, NoneUnderWay
  <2>8. DeferredIsAwaited(u)
    BY <2>1, <2>3, <2>5, <1>8 DEF DeferredIsAwaited, Owned, Idle
  <2>9. u.said.goal = target /\ u.said.got = Of(v.committed)
    BY ONLY <2>3
  <2>10. u.said.got.scale = target /\ u.said.got.mode = "custom"
    BY ONLY <2>4, <2>9 DEF Of
  <2>11. Told(u)
    BY <2>9, <2>10 DEF Told
  <2> QED
    BY <2>2, <2>3, <2>7, <2>8, <2>11 DEF Good
<1>11. CASE s.wheel.on
  <2> DEFINE w == [a.wheel EXCEPT !.target = target, !.fresh = FALSE]  u == WheelSet(a, w)
  <2>1. w \in WheelRecord /\ w.on /\ w.at = s.wheel.at /\ ~w.fresh /\ w.scale = s.wheel.scale /\ w.prior = s.wheel.prior /\ w.was = s.wheel.was
    BY <1>2, <1>5, <1>11 DEF States, WheelRecord
  <2>2. t = [a EXCEPT !.wheel = w]
    BY <1>3, <1>11, <1>2 DEF States, WheelRecord
  <2>3. t = u
    BY <2>2 DEF WheelSet
  <2> HIDE DEF w
  <2>4. u \in States /\ ButWheel(a, u) /\ u.wheel = w /\ u.call = a.call /\ u.rollback = a.rollback /\ u.said = a.said
    BY <2>1, <1>2, WheelReplaced
  <2> HIDE DEF u
  <2>5. ButWheel(s, u)
    BY <2>4, <1>6 DEF ButWheel
  <2>6. ASSUME Fine(u) PROVE Displayed(u) /\ Wanted(u)
    <3>1. Fine(s)
      BY <2>6, <2>5 DEF Fine, ButWheel
    <3>2. u.rollback.on => u.rollback.to = Of(u.committed)
      BY <3>1, <1>7, <2>4 DEF ButWheel
    <3>3. Wanted(u)
      BY <3>1, <3>2, <2>5, <1>4, WantedButWheel
    <3>4. Displayed(u)
      BY <3>1, <1>4, <2>1, <2>4, <2>5 DEF Displayed, ButWheel
    <3> QED
      BY <3>3, <3>4
  <2>7. Sound(u)
    <3>1. ~u.kb.on /\ u.restore = s.restore /\ u.active = s.active
      BY <2>5 DEF ButWheel
    <3> QED
      BY <3>1, <2>1, <2>4, <2>6, <1>4, <1>5, <1>11, NoneUnderWay
  <2>8. DeferredIsAwaited(u)
    BY <2>1, <2>4, <2>5, <1>1 DEF DeferredIsAwaited, Owned, ButWheel
  <2> QED
    BY <2>3, <2>4, <2>7, <2>8, <1>1, <1>2 DEF Good, Told
<1>12. CASE ~s.wheel.on /\ target # s.committed.scale
  <2> DEFINE w == [NoWheel EXCEPT !.on = TRUE, !.target = target]  u == WheelSet(a, w)
  <2>0. Box # {}
    BY <1>1 DEF States
  <2>1. w \in WheelRecord /\ w.on
    BY <2>0, Defaults DEF WheelRecord
  <2>2. t = Iterate(u)
    BY <1>3, <1>12 DEF WheelSet
  <2> HIDE DEF w
  <2>4. u \in States /\ ButWheel(a, u) /\ u.wheel = w /\ u.call = a.call /\ u.rollback = a.rollback /\ u.said = a.said
    BY <2>1, <1>2, WheelReplaced
  <2> HIDE DEF u
  <2>5. ButWheel(s, u)
    BY <2>4, <1>6 DEF ButWheel
  <2>6. ASSUME Fine(u) PROVE u.shown.scale = u.committed.scale /\ Wanted(u)
    <3>1. Fine(s)
      BY <2>6, <2>5 DEF Fine, ButWheel
    <3>2. u.rollback.on => u.rollback.to = Of(u.committed)
      BY <3>1, <1>7, <2>4 DEF ButWheel
    <3> QED
      BY <3>1, <3>2, <2>5, <1>4, WantedButWheel DEF ButWheel
  <2>7. ~u.kb.on /\ u.wheel.on /\ u.said.by = "none" /\ (u.restore # "none" => u.active)
    BY <2>1, <2>4, <2>5, <1>1, <1>2, <1>4 DEF ButWheel
  <2>8. DeferredIsAwaited(u)
    BY <2>1, <2>4, <2>5, <1>1 DEF DeferredIsAwaited, Owned, ButWheel
  <2> QED
    BY <2>2, <2>4, <2>6, <2>7, <2>8, IterateIsGood
<1> QED
  BY <1>9, <1>10, <1>11, <1>12

LEMMA WheelEnded ==
    ASSUME NEW s \in States, NEW t, t = WheelEnds(s)
    PROVE  /\ t \in States /\ DeferredIsAwaited(t) /\ t.said = s.said /\ t.call = s.call /\ t.rollback = s.rollback
           /\ ~t.wheel.on /\ t.wheel.at = "none" /\ ~t.wheel.fresh
           /\ t.view = s.view /\ t.committed = s.committed /\ t.shown = s.shown /\ t.box = s.box /\ t.active = s.active
           /\ t.restore = s.restore /\ t.kb = s.kb /\ t.dirty = s.dirty /\ t.odd = s.odd
<1> DEFINE u == [s EXCEPT !.wheel = NoWheel]
<1>1. /\ u \in States /\ u.wheel = NoWheel
      /\ u.view = s.view /\ u.committed = s.committed /\ u.shown = s.shown /\ u.box = s.box /\ u.resize = s.resize
      /\ u.active = s.active /\ u.restore = s.restore /\ u.kb = s.kb /\ u.rollback = s.rollback /\ u.call = s.call
      /\ u.dirty = s.dirty /\ u.odd = s.odd /\ u.said = s.said /\ u.sync = s.sync
  BY WheelDropped
<1>2. t = Flush(u)
  BY DEF WheelEnds
<1> HIDE DEF u
<1>3. t \in States /\ Unmoved(u, t) /\ t.said = u.said /\ t.call = u.call /\ t.rollback = u.rollback /\ DeferredIsAwaited(t)
  BY <1>1, <1>2, Flushed
<1> QED
  BY <1>1, <1>3 DEF Unmoved, NoWheel

LEMMA WheelAtKnown ==
    ASSUME NEW s \in States, NEW at \in {"render", "settle", "back"}
    PROVE  /\ WheelAt(s, at) \in States /\ ButWheel(s, WheelAt(s, at)) /\ WheelAt(s, at).call = s.call
           /\ WheelAt(s, at).rollback = s.rollback /\ WheelAt(s, at).said = s.said
           /\ WheelAt(s, at).wheel = [s.wheel EXCEPT !.at = at]
<1> DEFINE w == [s.wheel EXCEPT !.at = at]
<1>1. w \in WheelRecord
  BY DEF States, WheelRecord
<1>2. WheelAt(s, at) = [s EXCEPT !.wheel = w, !.latest = "wheel"]
  BY DEF WheelAt, States
<1> HIDE DEF w
<1>3. /\ [s EXCEPT !.wheel = w, !.latest = "wheel"] \in States
      /\ ButWheel(s, [s EXCEPT !.wheel = w, !.latest = "wheel"]) /\ [s EXCEPT !.wheel = w, !.latest = "wheel"].call = s.call
      /\ [s EXCEPT !.wheel = w, !.latest = "wheel"].rollback = s.rollback /\ [s EXCEPT !.wheel = w, !.latest = "wheel"].said = s.said
      /\ [s EXCEPT !.wheel = w, !.latest = "wheel"].wheel = w
  BY <1>1 DEF States, ButWheel
<1> QED
  BY <1>2, <1>3 DEF w

\* What the wheel may be sure of while it changes the view.
LEMMA WheelAlone ==
    ASSUME NEW s, Silent(s), s.wheel.on
    PROVE  /\ s \in States /\ Sound(s) /\ DeferredIsAwaited(s) /\ s.said.by = "none" /\ ~s.kb.on /\ s.active \in BOOLEAN
           /\ s.wheel \in WheelRecord /\ s.wheel.at # "none" /\ (s.wheel.fresh => s.wheel.scale = s.wheel.target)
           /\ s.sync.at = "deferred" => s.active
           /\ Fine(s) => Displayed(s) /\ Wanted(s) /\ \A c \in Call : ~s.call[c].live
<1>1. s \in States /\ Sound(s) /\ DeferredIsAwaited(s) /\ s.said.by = "none"
  BY DEF Silent, Good
<1>2. s.wheel \in WheelRecord /\ s.active \in BOOLEAN
  BY <1>1 DEF States
<1>3. ~s.kb.on /\ s.wheel.at # "none" /\ (s.wheel.fresh => s.wheel.scale = s.wheel.target)
  BY <1>1 DEF Sound, Owners
<1>4. Fine(s) => Displayed(s) /\ Wanted(s) /\ \A c \in Call : ~s.call[c].live
  BY <1>1 DEF Sound, Presentation, Alone
<1> QED
  BY <1>1, <1>2, <1>3, <1>4 DEF DeferredIsAwaited

\* What is shown at first is kept, to be gone back to.

LEMMA DrawsIsGood ==
    ASSUME NEW s, Silent(s), s.wheel.on, s.wheel.at = "anchor", NEW page \in BOOLEAN, NEW b \in Box,
           NEW t, t = Drawn(IF page THEN Shows(s, s.shown.scale, s.shown.topology, b) ELSE s, s.shown)
    PROVE  Good(t)
<1> DEFINE u == IF page THEN Shows(s, s.shown.scale, s.shown.topology, b) ELSE s
<1>1. /\ s \in States /\ Sound(s) /\ DeferredIsAwaited(s) /\ s.said.by = "none" /\ ~s.kb.on
      /\ Fine(s) => Displayed(s) /\ Wanted(s) /\ \A c \in Call : ~s.call[c].live
  BY WheelAlone
<1>2. /\ u \in States /\ Sound(u) /\ DeferredIsAwaited(u) /\ u.said = s.said /\ u.kb = s.kb /\ u.wheel = s.wheel /\ u.shown = s.shown
  <2>1. CASE page
    <3>1. u = Shows(s, s.shown.scale, s.shown.topology, b)
      BY <2>1
    <3> HIDE DEF u
    <3>2. u \in States /\ Sound(u) /\ DeferredIsAwaited(u) /\ ShownFrom(s, u, s.shown.scale, s.shown.topology, b)
      BY <1>1, <3>1, PageIsSound
    <3>3. s.shown = [scale |-> s.shown.scale, topology |-> s.shown.topology]
      BY <1>1 DEF States
    <3> QED
      BY <3>2, <3>3 DEF ShownFrom
  <2>2. CASE ~page
    BY <2>2, <1>1
  <2> QED
    BY <2>1, <2>2
<1>3. t = Drawn(u, s.shown)
  OBVIOUS
<1> HIDE DEF u
<1> DEFINE w == [u.wheel EXCEPT !.was = s.shown,
                                !.at = IF s.shown = [scale |-> s.wheel.scale, topology |-> "continuous"] THEN "settle" ELSE "render"]
<1>4. /\ w \in WheelRecord /\ w.on /\ w.at \in {"settle", "render"} /\ w.was = s.shown /\ w.scale = s.wheel.scale
      /\ w.fresh = s.wheel.fresh /\ w.target = s.wheel.target /\ w.prior = s.wheel.prior
      /\ w.at = "settle" => s.shown = [scale |-> s.wheel.scale, topology |-> "continuous"]
  <2>1. s.wheel \in WheelRecord /\ s.shown \in [scale : Scale, topology : Topology]
    BY <1>1 DEF States
  <2> QED
    BY <2>1, <1>2 DEF WheelRecord
<1>5. t = [u EXCEPT !.latest = "wheel", !.wheel = w]
  BY <1>2, <1>3 DEF Drawn, States
<1> HIDE DEF w
<1>6. /\ t \in States /\ ButWheel(u, t) /\ t.call = u.call /\ t.wheel = w /\ t.rollback = u.rollback /\ t.said = u.said
  <2> DEFINE v == [u EXCEPT !.latest = "wheel", !.wheel = w]
  <2>1. u \in States /\ w \in WheelRecord
    BY <1>2, <1>4
  <2>2. v \in States
    BY ONLY <2>1 DEF States
  <2>3. ButWheel(u, v) /\ v.call = u.call /\ v.wheel = w /\ v.rollback = u.rollback /\ v.said = u.said
    BY ONLY <2>1 DEF States, ButWheel
  <2> HIDE DEF v
  <2>4. t = v
    BY <1>5 DEF v
  <2> QED
    BY <2>2, <2>3, <2>4
<1>7. ASSUME Fine(t) PROVE Fine(u) /\ (Displayed(u) /\ Wanted(u) => Displayed(t) /\ Wanted(t))
  <2>1. Fine(u)
    BY <1>6, <1>7 DEF Fine, ButWheel
  <2>2. Displayed(u) => Displayed(t)
    <3>1. t.shown = u.shown /\ t.committed = u.committed
      BY <1>6 DEF ButWheel
    <3> QED
      BY <3>1, <1>2, <1>4, <1>6 DEF Displayed
  <2>3. Wanted(u) => Wanted(t)
    <3>1. Wanted(u) => (t.rollback.on => t.rollback.to = Of(t.committed))
      BY <1>6 DEF Wanted, ButWheel
    <3> QED
      BY <3>1, <1>1, <1>2, <1>6, WantedButWheel
  <2> QED
    BY <2>1, <2>2, <2>3
<1>8. Sound(t)
  <2>1. ~t.kb.on /\ t.active = u.active /\ t.restore = u.restore
    BY <1>1, <1>2, <1>6 DEF ButWheel
  <2>2. t.wheel.on /\ t.wheel.at # "none" /\ (t.wheel.fresh => t.wheel.scale = t.wheel.target)
    BY <1>1, <1>4, <1>6 DEF Sound, Owners
  <2> QED
    BY <2>1, <2>2, <1>2, <1>6, <1>7, WheelMoves
<1>9. DeferredIsAwaited(t)
  BY <1>2, <1>4, <1>6 DEF DeferredIsAwaited, Owned, ButWheel
<1> QED
  BY <1>1, <1>2, <1>6, <1>8, <1>9 DEF Good, Told

LEMMA ShownIsWanted ==
    ASSUME NEW t, t.view.mode = t.committed.mode, t.view.scale = t.committed.scale, ~t.rollback.on
    PROVE  Wanted(t)
  BY DEF Wanted, Agrees

LEMMA CommitsIsGood ==
    ASSUME NEW s, Silent(s), s.wheel.on, s.wheel.at = "render", s.wheel.fresh, NEW b \in Box,
           NEW t, t = [Shows(s, s.wheel.scale, "continuous", b) EXCEPT !.wheel.at = "settle"]
    PROVE  Good(t)
<1> DEFINE u == Shows(s, s.wheel.scale, "continuous", b)  w == [u.wheel EXCEPT !.at = "settle"]
<1>1. /\ s \in States /\ Sound(s) /\ s.said.by = "none" /\ ~s.kb.on /\ (s.sync.at = "deferred" => s.active)
      /\ s.wheel \in WheelRecord /\ s.wheel.scale = s.wheel.target
  BY WheelAlone
<1>2. s.wheel.scale \in Scale /\ "continuous" \in Topology
  BY <1>1 DEF WheelRecord, Topology
<1>3. u \in States /\ ShownFrom(s, u, s.wheel.scale, "continuous", b)
  BY <1>1, <1>2, ShownView
<1>4. t = [u EXCEPT !.wheel.at = "settle"]
  OBVIOUS
<1> HIDE DEF u
<1>5. /\ u.wheel = s.wheel /\ u.kb = s.kb /\ u.active = s.active /\ u.restore = s.restore /\ u.call = s.call /\ u.said = s.said
      /\ u.sync = s.sync /\ u.odd = [s.odd EXCEPT !.kept = FALSE] /\ u.shown = [scale |-> s.wheel.scale, topology |-> "continuous"]
      /\ u.view.mode = "custom" /\ u.view.scale = s.wheel.scale
      /\ u.committed.mode = u.view.mode /\ u.committed.scale = s.wheel.scale /\ ~u.rollback.on
  BY <1>1, <1>3 DEF ShownFrom
<1>6. t = WheelSet(u, w)
  BY <1>3, <1>4 DEF States, WheelSet
<1>7. w \in WheelRecord /\ w.on /\ w.at = "settle" /\ w.scale = w.target /\ w.scale = s.wheel.scale /\ w.was = s.wheel.was /\ w.prior = s.wheel.prior
  BY <1>1, <1>5 DEF WheelRecord
<1> HIDE DEF w
<1>8. t \in States /\ ButWheel(u, t) /\ t.wheel = w /\ t.call = u.call /\ t.rollback = u.rollback /\ t.said = u.said
  <2> DEFINE v == WheelSet(u, w)
  <2>1. /\ v \in States /\ ButWheel(u, v) /\ v.wheel = w /\ v.call = u.call /\ v.rollback = u.rollback /\ v.said = u.said
    BY <1>3, <1>7, WheelReplaced
  <2>2. t = v
    BY <1>6
  <2> HIDE DEF v
  <2> QED
    BY <2>1, <2>2
<1>9. t.view = u.view /\ t.committed = u.committed /\ t.shown = u.shown /\ t.odd = u.odd /\ t.active = s.active /\ t.restore = s.restore
      /\ t.kb = s.kb /\ t.sync.at = s.sync.at
  BY <1>5, <1>8 DEF ButWheel
<1>10. Fine(t) => Fine(s)
  BY <1>1, <1>5, <1>9 DEF Fine, States
<1>11. Wanted(t)
  BY <1>5, <1>8, <1>9, ShownIsWanted
<1>12. Displayed(s) => Displayed(t)
  BY <1>5, <1>7, <1>8, <1>9 DEF Displayed
<1>13. Sound(t)
  BY <1>1, <1>5, <1>7, <1>8, <1>9, <1>10, <1>11, <1>12, WheelMoves
<1>14. DeferredIsAwaited(t)
  BY <1>1, <1>7, <1>8, <1>9 DEF DeferredIsAwaited, Owned
<1> QED
  BY <1>1, <1>5, <1>8, <1>13, <1>14 DEF Good, Told

LEMMA ArrivesIsGood ==
    ASSUME NEW s, Silent(s), s.wheel.on, s.wheel.at = "settle", s.wheel.fresh, NEW page \in BOOLEAN, NEW b \in Box,
           NEW t, t = Answer(WheelEnds(Arrives(s, page, b)), "wheel", s.wheel.target, TRUE)
    PROVE  Good(t)
<1> DEFINE u == Arrives(s, page, b)  e == WheelEnds(u)
<1>1. /\ s \in States /\ Sound(s) /\ s.said.by = "none" /\ ~s.kb.on
      /\ s.wheel \in WheelRecord /\ s.wheel.scale = s.wheel.target
      /\ Fine(s) => Displayed(s) /\ Wanted(s)
  BY WheelAlone
<1>2. s.wheel.target \in Scale /\ s.shown.topology \in Topology
  BY <1>1 DEF WheelRecord, States
<1>3. \/ u = s /\ s.view = [mode |-> "custom", scale |-> s.wheel.target]
      \/ u = Shows(s, s.wheel.target, s.shown.topology, b)
  BY DEF Arrives
<1>4. u \in States /\ ShownFrom(s, Shows(s, s.wheel.target, s.shown.topology, b), s.wheel.target, s.shown.topology, b)
  BY <1>1, <1>2, <1>3, ShownView
<1>5. t = Answer(e, "wheel", s.wheel.target, TRUE)
  OBVIOUS
<1> HIDE DEF u
<1>6. /\ u.kb = s.kb /\ u.active = s.active /\ u.restore = s.restore /\ u.call = s.call
      /\ \/ /\ u = s /\ s.view = [mode |-> "custom", scale |-> s.wheel.target]
         \/ /\ u.shown.scale = s.wheel.target /\ u.view.mode = "custom" /\ u.view.scale = s.wheel.target /\ ~u.rollback.on
            /\ u.committed.mode = "custom" /\ u.committed.scale = s.wheel.target /\ u.odd = [s.odd EXCEPT !.kept = FALSE]
  BY <1>3, <1>4 DEF ShownFrom
<1>7. /\ e \in States /\ DeferredIsAwaited(e) /\ e.said = u.said /\ e.call = u.call /\ e.rollback = u.rollback
      /\ ~e.wheel.on /\ e.wheel.at = "none" /\ ~e.wheel.fresh
      /\ e.view = u.view /\ e.committed = u.committed /\ e.shown = u.shown /\ e.box = u.box /\ e.active = u.active
      /\ e.restore = u.restore /\ e.kb = u.kb /\ e.dirty = u.dirty /\ e.odd = u.odd
  BY <1>4, WheelEnded
<1> HIDE DEF e
<1>8. /\ t \in States /\ Kept(e, t) /\ t.kb = e.kb /\ t.call = e.call /\ t.sync = e.sync
      /\ t.said = [by |-> "wheel", goal |-> s.wheel.target, zoomed |-> TRUE, got |-> Of(e.committed)]
  <2> DEFINE v == Answer(e, "wheel", s.wheel.target, TRUE)
  <2>1. /\ v \in States /\ Kept(e, v) /\ v.kb = e.kb /\ v.call = e.call /\ v.sync = e.sync
        /\ v.said = [by |-> "wheel", goal |-> s.wheel.target, zoomed |-> TRUE, got |-> Of(e.committed)]
    BY <1>2, <1>7, AnswerGiven
  <2>2. t = v
    BY <1>5
  <2> HIDE DEF v
  <2> QED
    BY <2>1, <2>2
<1>9. /\ t.view = u.view /\ t.committed = u.committed /\ t.shown = u.shown /\ t.active = s.active /\ t.restore = s.restore
      /\ t.odd = u.odd /\ t.dirty = u.dirty /\ t.rollback = u.rollback /\ t.kb = s.kb /\ t.call = s.call
      /\ ~t.wheel.on /\ t.wheel.at = "none" /\ ~t.wheel.fresh
  <2>1. /\ t.view = e.view /\ t.committed = e.committed /\ t.shown = e.shown /\ t.active = e.active /\ t.restore = e.restore
        /\ t.odd = e.odd /\ t.dirty = e.dirty /\ t.rollback = e.rollback /\ t.wheel = e.wheel /\ t.kb = e.kb /\ t.call = e.call
    BY ONLY <1>8 DEF Kept
  <2>2. u.kb = s.kb /\ u.active = s.active /\ u.restore = s.restore /\ u.call = s.call
    BY ONLY <1>6
  <2> QED
    BY ONLY <2>1, <2>2, <1>7
<1>10. Fine(t) => Fine(s)
  <2>1. u.odd.broken = s.odd.broken /\ u.odd.both = s.odd.both
    BY ONLY <1>1, <1>6 DEF States
  <2> QED
    BY <2>1, <1>9 DEF Fine
<1>11. Displayed(s) => Displayed(t)
  BY <1>6, <1>9 DEF Displayed
<1>12. Wanted(s) => Wanted(t)
  <2>1. CASE u = s
    <3>1. t.view.mode = s.view.mode /\ ~Pending(s) /\ (Agrees(t) <=> Agrees(s))
      BY <2>1, <1>1, <1>9 DEF Pending, Agrees
    <3> QED
      BY <3>1, <2>1, <1>9 DEF Wanted
  <2>2. CASE u # s
    BY <2>2, <1>6, <1>9, ShownIsWanted
  <2> QED
    BY <2>1, <2>2
<1>13. Sound(t)
  BY <1>1, <1>9, <1>10, <1>11, <1>12, WheelMoves
<1>14. DeferredIsAwaited(t)
  BY <1>7, <1>8 DEF DeferredIsAwaited, Owned, Idle, Kept
<1>15. t.said.goal = s.wheel.target /\ t.said.got = Of(u.committed)
  BY ONLY <1>7, <1>8
<1>16. ASSUME Fine(s) PROVE u.committed.scale = s.wheel.target /\ (u.committed.mode = "custom" \/ u.odd.kept)
  <2>1. Displayed(s) /\ Wanted(s)
    BY <1>1, <1>16
  <2>2. s.shown.scale = s.wheel.target /\ s.shown.topology = "continuous" /\ s.committed.scale = s.wheel.target
    BY <2>1, <1>1 DEF Displayed
  <2>3. CASE u = s /\ s.view = [mode |-> "custom", scale |-> s.wheel.target]
    BY <2>1, <2>2, <2>3 DEF Wanted
  <2> QED
    BY <2>3, <1>6
<1>17. Told(t)
  <2>1. u.committed.scale = t.said.got.scale /\ u.committed.mode = t.said.got.mode
    BY ONLY <1>15 DEF Of
  <2> QED
    BY <2>1, <1>9, <1>10, <1>15, <1>16 DEF Told
<1> QED
  BY <1>8, <1>13, <1>14, <1>17 DEF Good

LEMMA RestoresIsGood ==
    ASSUME NEW s, Silent(s), s.wheel.on, NEW q \in States, q.call = s.call, q.wheel = s.wheel, q.kb = s.kb, q.active = s.active,
           q.restore = s.restore, q.said = s.said, Fine(q) => Fine(s) /\ q.shown.scale = s.wheel.prior.scale,
           NEW t, t = WheelRestores(q)
    PROVE  Good(t)
<1> DEFINE o == [q.odd EXCEPT !.kept = FALSE]
           r == [q EXCEPT !.view = Of(q.wheel.prior), !.committed = q.wheel.prior, !.rollback = NoRollback, !.odd = o]
<1>1. s \in States /\ Sound(s) /\ s.said.by = "none" /\ ~s.kb.on
  BY WheelAlone
<1>2. Box # {} /\ q.wheel.prior \in Committed
  BY DEF States, WheelRecord
<1>3. Of(q.wheel.prior) \in View
  BY <1>2 DEF Of, Committed, View
<1>4. NoRollback \in [on : BOOLEAN, fresh : BOOLEAN, to : View] /\ ~NoRollback.on
  BY <1>2, Defaults DEF NoRollback
<1>5. t = WheelEnds(r)
  BY DEF WheelRestores, States
<1>6. o \in [broken : BOOLEAN, kept : BOOLEAN, both : BOOLEAN, moved : BOOLEAN] /\ o.broken = q.odd.broken /\ o.both = q.odd.both
  BY DEF States
<1> HIDE DEF o
<1>7. r \in States
  BY <1>2, <1>3, <1>4, <1>6 DEF States
<1>8. /\ r.view = Of(q.wheel.prior) /\ r.committed = q.wheel.prior /\ ~r.rollback.on /\ r.odd = o /\ r.call = q.call /\ r.wheel = q.wheel
      /\ r.kb = q.kb /\ r.active = q.active /\ r.restore = q.restore /\ r.said = q.said /\ r.shown = q.shown
  BY <1>4 DEF States
<1> HIDE DEF r
<1>9. /\ t \in States /\ DeferredIsAwaited(t) /\ t.said = r.said /\ t.call = r.call /\ t.rollback = r.rollback
      /\ ~t.wheel.on /\ t.wheel.at = "none" /\ ~t.wheel.fresh
      /\ t.view = r.view /\ t.committed = r.committed /\ t.shown = r.shown /\ t.active = r.active
      /\ t.restore = r.restore /\ t.kb = r.kb /\ t.odd = r.odd
  BY <1>5, <1>7, WheelEnded
<1>10. Wanted(t)
  BY <1>8, <1>9, ShownIsWanted DEF Of
<1>11. Fine(t) => Fine(s) /\ Displayed(t)
  BY <1>6, <1>8, <1>9 DEF Fine, Displayed
<1>12. Sound(t)
  BY <1>1, <1>8, <1>9, <1>10, <1>11, WheelMoves
<1> QED
  BY <1>1, <1>8, <1>9, <1>12 DEF Good, Told

LEMMA BackIsGood ==
    ASSUME NEW s, Silent(s), s.wheel.on, NEW t, t = WheelAt(s, "back"), s.wheel.at \in {"render", "settle"}
    PROVE  Good(t)
<1>1. /\ s \in States /\ Sound(s) /\ s.said.by = "none" /\ ~s.kb.on /\ (s.sync.at = "deferred" => s.active)
      /\ s.wheel \in WheelRecord /\ (s.wheel.fresh => s.wheel.scale = s.wheel.target)
  BY WheelAlone
<1>2. /\ t \in States /\ ButWheel(s, t) /\ t.call = s.call /\ t.rollback = s.rollback /\ t.said = s.said
      /\ t.wheel = [s.wheel EXCEPT !.at = "back"]
  BY <1>1, WheelAtKnown
<1>3. /\ t.wheel.on /\ t.wheel.at = "back" /\ t.wheel.fresh = s.wheel.fresh /\ t.wheel.scale = s.wheel.scale
      /\ t.wheel.target = s.wheel.target /\ t.wheel.was = s.wheel.was /\ t.wheel.prior = s.wheel.prior
  BY <1>1, <1>2 DEF WheelRecord
<1>4. /\ t.shown = s.shown /\ t.committed = s.committed /\ t.odd = s.odd /\ t.kb = s.kb /\ t.active = s.active /\ t.restore = s.restore
      /\ t.sync.at = s.sync.at
  BY <1>2 DEF ButWheel
<1>5. Displayed(s) => Displayed(t)
  BY <1>3, <1>4 DEF Displayed
<1>6. Wanted(s) => Wanted(t)
  <2>1. Wanted(s) => (t.rollback.on => t.rollback.to = Of(t.committed))
    BY <1>2, <1>4 DEF Wanted
  <2> QED
    BY <2>1, <1>1, <1>2, WantedButWheel
<1>7. Sound(t)
  BY <1>1, <1>2, <1>3, <1>4, <1>5, <1>6, WheelMoves DEF Fine
<1>8. DeferredIsAwaited(t)
  BY <1>1, <1>3, <1>4 DEF DeferredIsAwaited, Owned
<1> QED
  BY <1>1, <1>2, <1>7, <1>8 DEF Good, Told

LEMMA FailsAtAnchorIsGood ==
    ASSUME NEW s, Silent(s), s.wheel.on, s.wheel.at = "anchor", NEW t, t = WheelRestores(s)
    PROVE  Good(t)
<1>1. s \in States /\ (Fine(s) => Displayed(s))
  BY WheelAlone
<1>2. Fine(s) => Fine(s) /\ s.shown.scale = s.wheel.prior.scale
  BY <1>1 DEF Displayed
<1> QED
  BY <1>1, <1>2, RestoresIsGood

LEMMA GoesBackIsGood ==
    ASSUME NEW s, Silent(s), s.wheel.on, s.wheel.at = "back", NEW b \in Box,
           NEW t, t = WheelRestores(IF s.shown = s.wheel.was THEN s ELSE Shows(s, s.wheel.was.scale, s.wheel.was.topology, b))
    PROVE  Good(t)
<1> DEFINE q == Shows(s, s.wheel.was.scale, s.wheel.was.topology, b)
<1>1. s \in States /\ (Fine(s) => Displayed(s)) /\ s.wheel \in WheelRecord
  BY WheelAlone
<1>2. Fine(s) => s.wheel.was.scale = s.wheel.prior.scale
  BY <1>1 DEF Displayed
<1>3. CASE s.shown = s.wheel.was
  BY <1>1, <1>2, <1>3, RestoresIsGood
<1>4. CASE s.shown # s.wheel.was
  <2>1. s.wheel.was.scale \in Scale /\ s.wheel.was.topology \in Topology
    BY <1>1 DEF WheelRecord
  <2>2. q \in States /\ ShownFrom(s, q, s.wheel.was.scale, s.wheel.was.topology, b)
    BY <1>1, <2>1, ShownView
  <2>3. t = WheelRestores(q)
    BY <1>4
  <2> HIDE DEF q
  <2>4. /\ q.call = s.call /\ q.wheel = s.wheel /\ q.kb = s.kb /\ q.active = s.active /\ q.restore = s.restore /\ q.said = s.said
        /\ q.shown.scale = s.wheel.was.scale /\ q.odd = [s.odd EXCEPT !.kept = FALSE]
    BY <2>2 DEF ShownFrom
  <2>5. q.odd.broken = s.odd.broken /\ q.odd.both = s.odd.both
    BY ONLY <1>1, <2>4 DEF States
  <2>6. Fine(q) => Fine(s) /\ q.shown.scale = s.wheel.prior.scale
    BY <1>2, <2>4, <2>5 DEF Fine
  <2> QED
    BY <2>2, <2>3, <2>4, <2>6, RestoresIsGood
<1> QED
  BY <1>3, <1>4

LEMMA CannotGoBackIsGood ==
    ASSUME NEW s, Silent(s), s.wheel.on, s.wheel.at = "back",
           NEW t, t = WheelRestores([s EXCEPT !.odd.broken = @ \/ s.shown # s.wheel.was])
    PROVE  Good(t)
<1> DEFINE k == s.odd.broken \/ s.shown # s.wheel.was  o == [s.odd EXCEPT !.broken = k]  q == [s EXCEPT !.odd = o]
<1>1. s \in States /\ (Fine(s) => Displayed(s)) /\ s.wheel \in WheelRecord
  BY WheelAlone
<1>2. k \in BOOLEAN /\ s.odd \in [broken : BOOLEAN, kept : BOOLEAN, both : BOOLEAN, moved : BOOLEAN]
  BY <1>1 DEF States
<1>3. t = WheelRestores(q)
  BY <1>1 DEF States
<1>4. k => s.odd.broken \/ s.shown # s.wheel.was
  BY <1>2
<1>5. ~k => ~s.odd.broken /\ s.shown = s.wheel.was
  BY <1>2
<1> HIDE DEF k
<1>6. o \in [broken : BOOLEAN, kept : BOOLEAN, both : BOOLEAN, moved : BOOLEAN] /\ o.broken = k /\ o.both = s.odd.both
  BY <1>2
<1> HIDE DEF o
<1>7. /\ q \in States /\ q.call = s.call /\ q.wheel = s.wheel /\ q.kb = s.kb /\ q.active = s.active /\ q.restore = s.restore
      /\ q.said = s.said /\ q.shown = s.shown /\ q.odd = o
  BY <1>1, <1>6 DEF States
<1> HIDE DEF q
<1>8. Fine(q) => Fine(s) /\ q.shown.scale = s.wheel.prior.scale
  BY <1>1, <1>5, <1>6, <1>7 DEF Fine, Displayed
<1> QED
  BY <1>3, <1>7, <1>8, RestoresIsGood

-----------------------------------------------------------------------------
(* Scrolling, sizes and activity *)

SyncSet(s, y) == [s EXCEPT !.sync = y]
LEMMA OtherSync ==
    ASSUME NEW s \in States, NEW y \in [at : {"none", "deferred", "running"}, live : BOOLEAN]
    PROVE  /\ SyncSet(s, y) \in States /\ Unmoved(s, SyncSet(s, y)) /\ SyncSet(s, y).call = s.call
           /\ SyncSet(s, y).rollback = s.rollback /\ SyncSet(s, y).said = s.said /\ SyncSet(s, y).sync = y
  BY DEF States, Unmoved, SyncSet

\* A scroll is taken at once, or waits for the owner of the view.
LEMMA DeferIsGood ==
    ASSUME NEW s, Silent(s), s.active, Owned(s), NEW t, t = [s EXCEPT !.sync = [at |-> "deferred", live |-> TRUE]]
    PROVE  Good(t)
<1> DEFINE y == [at |-> "deferred", live |-> TRUE]
<1>1. s \in States /\ Sound(s) /\ s.said.by = "none"
  BY DEF Silent, Good
<1>2. y \in [at : {"none", "deferred", "running"}, live : BOOLEAN]
  OBVIOUS
<1>3. t = SyncSet(s, y)
  BY DEF SyncSet
<1> HIDE DEF y
<1>4. t \in States /\ Unmoved(s, t) /\ t.call = s.call /\ t.rollback = s.rollback /\ t.said = s.said
  BY ONLY <1>1, <1>2, <1>3, OtherSync
<1>5. Sound(t)
  BY <1>1, <1>4, SameIsSound
<1> QED
  BY <1>1, <1>4, <1>5 DEF Good, Told, DeferredIsAwaited, Owned, Idle, Unmoved

LEMMA ScrollIsGood ==
    ASSUME NEW s, Silent(s), NEW t, t = Flush([s EXCEPT !.sync.at = "deferred"])
    PROVE  Good(t)
<1> DEFINE y == [s.sync EXCEPT !.at = "deferred"]  u == SyncSet(s, y)
<1>1. s \in States /\ Sound(s) /\ s.said.by = "none"
  BY DEF Silent, Good
<1>2. y \in [at : {"none", "deferred", "running"}, live : BOOLEAN]
  BY <1>1 DEF States
<1>3. t = Flush(u)
  BY <1>1 DEF States, SyncSet
<1> HIDE DEF y
<1>4. u \in States /\ Unmoved(s, u) /\ u.call = s.call /\ u.rollback = s.rollback /\ u.said = s.said
  BY <1>1, <1>2, OtherSync
<1> HIDE DEF u
<1>5. t \in States /\ Unmoved(u, t) /\ t.said = u.said /\ t.call = u.call /\ t.rollback = u.rollback /\ DeferredIsAwaited(t)
  BY <1>3, <1>4, Flushed
<1>6. Sound(t)
  BY <1>1, <1>4, <1>5, SameIsSound
<1> QED
  BY <1>1, <1>4, <1>5, <1>6 DEF Good, Told

LEMMA SyncEnds ==
    ASSUME NEW u, Good(u), NEW t, t = [u EXCEPT !.sync = [at |-> "none", live |-> FALSE]]
    PROVE  Good(t)
<1> DEFINE y == [at |-> "none", live |-> FALSE]
<1>1. u \in States /\ Sound(u) /\ Told(u)
  BY DEF Good
<1>2. y \in [at : {"none", "deferred", "running"}, live : BOOLEAN] /\ y.at = "none"
  OBVIOUS
<1>3. t = SyncSet(u, y)
  BY DEF SyncSet
<1> HIDE DEF y
<1>4. t \in States /\ Unmoved(u, t) /\ t.call = u.call /\ t.rollback = u.rollback /\ t.said = u.said /\ t.sync = y
  BY ONLY <1>1, <1>2, <1>3, OtherSync
<1>5. Sound(t)
  BY <1>1, <1>4, SameIsSound
<1> QED
  BY <1>1, <1>2, <1>4, <1>5 DEF Good, Told, DeferredIsAwaited, Unmoved, Fine

\* The synchronization for a scroll fails, when nothing else is under way or when it does not count any more.
LEMMA FailureIsGood ==
    ASSUME NEW s, Silent(s), NEW guard \in BOOLEAN, guard => ~Owned(s), NEW t, t = Failed(s, guard)
    PROVE  Good(t)
<1>1. s \in States /\ Sound(s) /\ DeferredIsAwaited(s) /\ s.said.by = "none"
  BY DEF Silent, Good
<1>2. /\ t \in States /\ FailedFrom(s, t)
      /\ \/ t.view = s.view /\ t.rollback = s.rollback /\ t.dirty = (s.dirty \/ ~guard)
         \/ guard /\ s.rollback.fresh /\ t.dirty = s.dirty /\ ~t.rollback.on /\ t.view = IF s.rollback.on THEN s.rollback.to ELSE s.view
  BY <1>1, FailedView
<1>3. /\ t.call = s.call /\ t.committed = s.committed /\ t.shown = s.shown /\ t.box = s.box /\ t.resize = s.resize
      /\ t.active = s.active /\ t.restore = s.restore /\ t.kb = s.kb /\ t.wheel = s.wheel /\ t.odd = s.odd /\ t.said = s.said
      /\ t.sync = s.sync
  BY <1>2 DEF FailedFrom
<1>4. Owners(t)
  BY <1>1, <1>3 DEF Sound, Owners
<1>5. DeferredIsAwaited(t)
  BY <1>1, <1>3 DEF DeferredIsAwaited, Owned, Idle
<1>6. s.dirty \in BOOLEAN /\ t.dirty \in BOOLEAN
  BY <1>1, <1>2 DEF States
<1>7. CASE t.view = s.view /\ t.rollback = s.rollback /\ t.dirty = (s.dirty \/ ~guard)
  <2>1. s.dirty => t.dirty
    BY <1>6, <1>7
  <2>2. ASSUME Fine(s) PROVE Presentation(t)
    <3>1. Presentation(s)
      BY <1>1, <2>2 DEF Sound
    <3>2. (Agrees(t) <=> Agrees(s)) /\ (Pending(t) <=> Pending(s))
      BY <1>3, <1>7 DEF Agrees, Pending
    <3>3. Wanted(t)
      BY <2>1, <3>1, <3>2, <1>3, <1>7 DEF Presentation, Wanted
    <3>4. Displayed(t) /\ Alone(t)
      BY <3>1, <1>3 DEF Presentation, Displayed, Alone
    <3>5. \A c \in Call : Rendering(t, c)
      BY <3>1, <3>2, <1>3, <1>7 DEF Presentation, Rendering
    <3> QED
      BY <3>3, <3>4, <3>5 DEF Presentation
  <2>3. Answers(s) => Answers(t)
    BY <1>3, <1>7 DEF Answers, Typing, FittingPage
  <2> QED
    BY <2>2, <2>3, <1>1, <1>2, <1>3, <1>4, <1>5 DEF Good, Told, Sound, Fine
<1>8. CASE guard /\ s.rollback.fresh /\ t.dirty = s.dirty /\ ~t.rollback.on /\ t.view = IF s.rollback.on THEN s.rollback.to ELSE s.view
  <2>1. ~s.kb.on /\ \A c \in Call : s.call[c].at = "idle"
    BY <1>8 DEF Owned, Idle
  <2>2. \A c \in Call : ~s.call[c].live
    BY <2>1, <1>1 DEF Sound, Owners
  <2>3. ASSUME Fine(s) PROVE Presentation(t)
    <3>1. Presentation(s)
      BY <1>1, <2>3 DEF Sound
    <3>2. Displayed(t) /\ Alone(t) /\ \A c \in Call : Rendering(t, c)
      BY <3>1, <2>2, <1>3 DEF Presentation, Displayed, Alone, Rendering
    <3>3. Wanted(t)
      <4>1. CASE s.rollback.on
        <5>1. t.view = Of(t.committed)
          BY <4>1, <3>1, <1>3, <1>8 DEF Presentation, Wanted
        <5>2. t.view.mode = t.committed.mode /\ t.view.scale = t.committed.scale
          BY ONLY <5>1 DEF Of
        <5> QED
          BY <5>2, <1>8, ShownIsWanted
      <4>2. CASE ~s.rollback.on
        <5>1. t.view = s.view /\ ~Pending(s)
          BY <4>2, <1>8 DEF Pending
        <5>2. Agrees(t) <=> Agrees(s)
          BY <5>1, <1>3 DEF Agrees
        <5> QED
          BY <5>1, <5>2, <3>1, <1>3, <1>8 DEF Presentation, Wanted
      <4> QED
        BY <4>1, <4>2
    <3> QED
      BY <3>2, <3>3 DEF Presentation
  <2>4. Answers(t)
    BY <2>1, <1>3 DEF Answers, Typing, FittingPage
  <2> QED
    BY <2>3, <2>4, <1>1, <1>2, <1>3, <1>4, <1>5 DEF Good, Told, Sound, Fine
<1> QED
  BY <1>2, <1>7, <1>8

LEMMA PassedIsGood ==
    ASSUME NEW s, Silent(s), NEW page \in BOOLEAN, NEW b \in Box, NEW ok \in BOOLEAN, NEW thrown \in BOOLEAN,
           page => ok, ok => PassiveOf(s),
           NEW t, t = [Passed(s, page, b, ok, thrown) EXCEPT !.sync = [at |-> "none", live |-> FALSE]]
    PROVE  Good(t)
<1> DEFINE u == Passed(s, page, b, ok, thrown)
<1>1. s \in States /\ Sound(s) /\ DeferredIsAwaited(s) /\ s.said.by = "none"
  BY DEF Silent, Good
<1>2. CASE page
  <2> DEFINE v == Shows(s, s.shown.scale, s.shown.topology, b)
  <2>1. \A d \in Call : s.call[d].at = "idle"
    BY <1>2 DEF PassiveOf, Owned, Idle
  <2>2. \A d \in Call : ~s.call[d].live
    BY <2>1, <1>1 DEF Sound, Owners
  <2>3. v \in States /\ Sound(v) /\ DeferredIsAwaited(v) /\ ShownFrom(s, v, s.shown.scale, s.shown.topology, b)
    BY <1>1, <2>2, PageIsSound
  <2>4. u = v
    BY <1>2 DEF Passed
  <2> HIDE DEF v, u
  <2>5. v.said = s.said
    BY <2>3 DEF ShownFrom
  <2>6. Good(u)
    BY <2>3, <2>4, <2>5, <1>1 DEF Good, Told
  <2> QED
    BY <2>6, SyncEnds DEF u
<1>3. CASE ~page
  <2> DEFINE g == PassiveOf(s)
  <2>1. g \in BOOLEAN /\ (g => ~Owned(s))
    BY <1>1 DEF PassiveOf, States
  <2>2. u = s \/ u = Failed(s, g)
    BY <1>3 DEF Passed
  <2> HIDE DEF g, u
  <2>3. Good(Failed(s, g))
    BY <2>1, FailureIsGood
  <2>4. Good(u)
    BY <2>2, <2>3 DEF Silent
  <2> QED
    BY <2>4, SyncEnds DEF u
<1> QED
  BY <1>2, <1>3

\* The size is another, or is to be observed.
LEMMA ResizedIsSound ==
    ASSUME NEW s, NEW t, Sound(s), t.call = s.call, t.rollback = s.rollback, t.view = s.view, t.committed = s.committed,
           t.shown = s.shown, t.active = s.active, t.restore = s.restore, t.kb = s.kb, t.wheel = s.wheel, t.dirty = s.dirty,
           t.odd = s.odd, s.kb.call \in Call,
           "new" \in t.resize \/ ~t.kb.on \/ ~s.active \/ (t.box = s.box /\ ("new" \in t.resize <=> "new" \in s.resize))
    PROVE  Sound(t)
<1>1. Owners(t)
  BY DEF Sound, Owners
<1>2. ASSUME Fine(s) PROVE Presentation(t)
  <2>1. Presentation(s)
    BY <1>2 DEF Sound
  <2>2. (Agrees(t) <=> Agrees(s)) /\ (Pending(t) <=> Pending(s))
    BY DEF Agrees, Pending
  <2>3. Wanted(t)
    BY <2>1, <2>2 DEF Presentation, Wanted
  <2>4. Displayed(t) /\ Alone(t)
    BY <2>1 DEF Presentation, Displayed, Alone
  <2>5. \A c \in Call : Rendering(t, c)
    BY <2>1, <2>2 DEF Presentation, Rendering
  <2> QED
    BY <2>3, <2>4, <2>5 DEF Presentation
<1>3. ASSUME Fine(s), ~s.odd.moved PROVE Typing(t) /\ FittingPage(t)
  <2>1. Typing(s) /\ FittingPage(s)
    BY <1>3 DEF Sound, Answers
  <2>2. Typing(t)
    BY <2>1 DEF Typing
  <2>3. ~s.active => ~Hopeful(s.call[s.kb.call])
    BY DEF Sound, Owners, Hopeful
  <2>4. FittingPage(t)
    BY <2>1, <2>3 DEF FittingPage
  <2> QED
    BY <2>2, <2>4
<1> QED
  BY <1>1, <1>2, <1>3 DEF Sound, Answers, Fine

LEMMA SizeIsGood ==
    ASSUME NEW s, Silent(s), NEW b \in Box, NEW z \in SUBSET {"new", "frame"}, NEW t, t = SizeSet(s, b, z),
           "new" \in z \/ ~s.kb.on \/ ~s.active \/ (b = s.box /\ ("new" \in z <=> "new" \in s.resize))
    PROVE  Silent(t) /\ t.active = s.active /\ t.kb = s.kb /\ t.call = s.call
<1>1. s \in States /\ Sound(s) /\ DeferredIsAwaited(s) /\ s.said.by = "none"
  BY DEF Silent, Good
<1>2. /\ t \in States /\ t.call = s.call /\ t.rollback = s.rollback /\ t.view = s.view /\ t.committed = s.committed
      /\ t.shown = s.shown /\ t.active = s.active /\ t.restore = s.restore /\ t.kb = s.kb /\ t.wheel = s.wheel /\ t.dirty = s.dirty
      /\ t.odd = s.odd /\ t.said = s.said /\ t.sync = s.sync /\ t.box = b /\ t.resize = z
  BY <1>1 DEF States, SizeSet
<1>3. s.kb.call \in Call
  BY <1>1 DEF States, KeyRecord
<1>4. Sound(t)
  BY <1>1, <1>2, <1>3, ResizedIsSound
<1> QED
  BY <1>1, <1>2, <1>4 DEF Silent, Good, Told, DeferredIsAwaited, Owned, Idle

LEMMA CancelWheelIsSilent ==
    ASSUME NEW s, Silent(s), NEW t, t = CancelWheelZoom(s)
    PROVE  Silent(t) /\ ~t.kb.on /\ ~t.wheel.on /\ t.active = s.active /\ t.restore = s.restore /\ t.resize = s.resize
<1> DEFINE u == CancelKeyboardView(s)
<1>1. s \in States /\ Sound(s) /\ DeferredIsAwaited(s) /\ s.said.by = "none"
  BY DEF Silent, Good
<1>2. t \in States /\ Sound(t) /\ ~t.kb.on /\ ~t.wheel.on /\ DeferredIsAwaited(t)
  BY <1>1, CancelWheelIsSound
<1>3. Silent(u) /\ u.active = s.active /\ u.restore = s.restore /\ u.resize = s.resize
  BY CancelIsSilent
<1>4. t = InvalidateWheelZoom(u)
  BY DEF CancelWheelZoom
<1> HIDE DEF u
<1>5. u \in States
  BY <1>3 DEF Silent, Good
<1>6. t.said = u.said /\ t.active = u.active /\ t.restore = u.restore /\ t.resize = u.resize
  <2>1. CASE ~u.wheel.on
    BY <2>1, <1>4 DEF InvalidateWheelZoom
  <2>2. CASE u.wheel.on
    BY <2>2, <1>4, <1>5, Invalidated DEF InvalidatedFrom
  <2> QED
    BY <2>1, <2>2
<1> QED
  BY <1>2, <1>3, <1>6 DEF Silent, Good, Told

\* Everything under way is fenced while the keyboard changes nothing.
LEMMA StoppedIsGood ==
    ASSUME NEW s, Silent(s), ~s.kb.on, NEW t \in States, Unmoved(s, t), Stopped(s, t), t.said = s.said, t.sync.at = s.sync.at,
           t.rollback.on = s.rollback.on, t.rollback.to = s.rollback.to
    PROVE  Silent(t)
<1>1. s \in States /\ Sound(s) /\ DeferredIsAwaited(s) /\ s.said.by = "none"
  BY DEF Silent, Good
<1>2. s.kb.call \in Call
  BY <1>1 DEF States, KeyRecord
<1>3. Sound(t)
  BY <1>1, <1>2, StoppedIsSound
<1> QED
  BY <1>1, <1>3 DEF Silent, Good, Told, DeferredIsAwaited, Owned, Idle, Unmoved, Stopped

LEMMA SearchIsGood ==
    ASSUME NEW s, Silent(s), NEW t, t = Navigated(CancelKeyboardView(CancelWheelZoom(s)))
    PROVE  Good(t)
<1> DEFINE u == CancelWheelZoom(s)  v == CancelKeyboardView(u)  n == Navigated(v)
<1>1. Silent(u) /\ ~u.kb.on
  BY CancelWheelIsSilent
<1>2. v = u
  BY <1>1 DEF CancelKeyboardView
<1>3. t = n
  OBVIOUS
<1> HIDE DEF u, v
<1>4. v \in States
  BY <1>1, <1>2 DEF Silent, Good
<1>5. n \in States /\ Unmoved(v, n) /\ n.said = v.said /\ n.rollback = v.rollback /\ n.sync.at = v.sync.at /\ Stopped(v, n)
  BY <1>4, NavigatedCalls
<1> HIDE DEF n
<1>6. Silent(n)
  BY <1>1, <1>2, <1>5, StoppedIsGood
<1> QED
  BY <1>3, <1>6 DEF Silent

ViewportSet(s, x) == [s EXCEPT !.viewport = x]
LEMMA ViewportIsGood ==
    ASSUME NEW s, Silent(s), NEW x \in {"none", "sync"} \cup Call, NEW t, t = ViewportSet(s, x)
    PROVE  Silent(t)
<1>1. s \in States /\ Sound(s) /\ DeferredIsAwaited(s) /\ s.said.by = "none"
  BY DEF Silent, Good
<1>2. t \in States /\ Unmoved(s, t) /\ t.call = s.call /\ t.rollback = s.rollback /\ t.said = s.said /\ t.sync = s.sync
  BY <1>1 DEF States, ViewportSet, Unmoved
<1>3. Sound(t)
  BY <1>1, <1>2, SameIsSound
<1> QED
  BY <1>1, <1>2, <1>3 DEF Silent, Good, Told, DeferredIsAwaited, Owned, Idle, Unmoved

LEMMA NoticedIsGood ==
    ASSUME NEW s, Silent(s), NEW t, t = Noticed(s)
    PROVE  Good(t)
<1>0. s \in States
  BY DEF Silent, Good
<1>1. CASE ~s.active
  <2> DEFINE z == s.resize \ {"new"}  b == s.box
  <2>1. z \in SUBSET {"new", "frame"} /\ b \in Box
    BY <1>0 DEF States
  <2>2. t = SizeSet(s, b, z)
    BY <1>0, <1>1 DEF SizeSet, Noticed, States
  <2> HIDE DEF z, b
  <2>3. Silent(t)
    BY ONLY <2>1, <2>2, <1>1, Silent(s), SizeIsGood
  <2> QED
    BY <2>3 DEF Silent
<1>2. CASE s.active
  <2> DEFINE u == CancelWheelZoom(s)  f == Fenced(u)
             x == IF Restoring(f) THEN f.viewport ELSE "none"  z == {"frame"}  w == ViewportSet(f, x)
  <2>1. Silent(u) /\ ~u.kb.on
    BY CancelWheelIsSilent
  <2>2. t = [f EXCEPT !.resize = z, !.viewport = x]
    BY <1>2 DEF Noticed
  <2> HIDE DEF u
  <2>3. u \in States
    BY <2>1 DEF Silent, Good
  <2>4. /\ f \in States /\ Unmoved(u, f) /\ f.said = u.said /\ f.rollback = u.rollback /\ f.sync = u.sync /\ Stopped(u, f)
    BY <2>3, FencedCalls
  <2> HIDE DEF f
  <2>5. Silent(f) /\ ~f.kb.on
    BY <2>1, <2>4, StoppedIsGood DEF Unmoved
  <2>6. x \in {"none", "sync"} \cup Call
    BY <2>4 DEF States
  <2> HIDE DEF x
  <2>7. Silent(w)
    BY <2>5, <2>6, ViewportIsGood
  <2>8. ~w.kb.on /\ w.box = f.box /\ w \in States /\ f.box \in Box
    BY <2>4, <2>5, <2>7 DEF ViewportSet, States, Silent, Good
  <2>9. t = SizeSet(w, f.box, z)
    BY <2>2, <2>4 DEF SizeSet, ViewportSet, States
  <2> HIDE DEF w
  <2>10. z \in SUBSET {"new", "frame"}
    OBVIOUS
  <2> HIDE DEF z
  <2>11. Silent(t)
    BY ONLY <2>7, <2>8, <2>9, <2>10, SizeIsGood
  <2> QED
    BY <2>11 DEF Silent
<1> QED
  BY <1>0, <1>1, <1>2 DEF States

LEMMA BeginIsGood ==
    ASSUME NEW s, Silent(s), s.active, NEW c \in Call, s.kb.on => s.kb.call # c, NEW kind \in {"frame", "restore"},
           NEW t, t = Begin(s, c, kind)
    PROVE  Good(t)
<1>1. s \in States /\ Sound(s) /\ s.said.by = "none"
  BY DEF Silent, Good
<1>2. t \in States /\ Sound(t) /\ DeferredIsAwaited(t)
  BY <1>1, OtherBegins
<1>3. BegunFrom(s, t, c, kind)
  BY <1>1, BegunCall
<1> QED
  BY <1>1, <1>2, <1>3 DEF Good, Told, BegunFrom, ButCall

LEMMA FrameIsGood ==
    ASSUME NEW s, Silent(s), Idle(s) # {}, NEW u, u = [s EXCEPT !.resize = s.resize \ {"frame"}],
           NEW t, t = IF s.active THEN Begin(u, Unused(u), "frame") ELSE u
    PROVE  Good(t)
<1> DEFINE z == s.resize \ {"frame"}  b == s.box
<1>0. s \in States /\ Sound(s)
  BY DEF Silent, Good
<1>1. z \in SUBSET {"new", "frame"} /\ b \in Box /\ ("new" \in z <=> "new" \in s.resize)
  BY <1>0 DEF States
<1>2. u = SizeSet(s, b, z)
  BY <1>0 DEF SizeSet, States
<1>3. b = s.box
  OBVIOUS
<1> HIDE DEF z, b
<1>4. Silent(u) /\ u.active = s.active /\ u.kb = s.kb /\ u.call = s.call
  BY ONLY <1>1, <1>2, <1>3, Silent(s), SizeIsGood
<1>5. Unused(u) \in Call /\ s.call[Unused(u)].at = "idle"
  BY <1>4 DEF Unused, Idle
<1>6. u.kb.on => u.kb.call # Unused(u)
  BY <1>0, <1>4, <1>5 DEF Sound, Owners
<1>7. CASE s.active
  <2> DEFINE c == Unused(u)
  <2>1. c \in Call /\ (u.kb.on => u.kb.call # c) /\ u.active /\ t = Begin(u, c, "frame")
    BY <1>4, <1>5, <1>6, <1>7
  <2> HIDE DEF c
  <2> QED
    BY ONLY <2>1, <1>4, BeginIsGood
<1>8. CASE ~s.active
  BY <1>4, <1>8 DEF Silent
<1> QED
  BY <1>0, <1>7, <1>8 DEF States

\* The tab leaves the foreground: nothing of what was under way counts any more.
Out(r) == [Superseded(r) EXCEPT !.kind = IF r.kind = "restore" THEN "none" ELSE r.kind]
Left(s, mark) ==
    [Fenced(s) EXCEPT !.active = FALSE, !.restore = "none", !.latest = "none", !.sync.live = FALSE, !.rollback = NoRollback,
                      !.dirty = mark, !.call = [c \in Call |-> Out(s.call[c])]]

LEMMA OutCall ==
    ASSUME NEW r \in CallRecord, Box # {}
    PROVE  /\ Out(r) \in CallRecord /\ Out(r).at = r.at /\ (r.kind # "restore" => Out(r).kind = r.kind)
           /\ ~Out(r).live /\ ~Out(r).ok /\ ~Out(r).back
<1> DEFINE q == Superseded(r)  k == IF r.kind = "restore" THEN "none" ELSE r.kind
<1>1. q \in CallRecord /\ q.at = r.at /\ ~q.live /\ ~q.ok /\ ~q.back
  BY SupersededCall
<1>2. k \in {"none", "keyboard", "frame", "restore"} /\ (r.kind # "restore" => k = r.kind)
  BY DEF CallRecord
<1>3. Out(r) = [q EXCEPT !.kind = k]
  BY DEF Out
<1> HIDE DEF q, k
<1> QED
  BY <1>1, <1>2, <1>3 DEF CallRecord

LEMMA LeftIsKnown ==
    ASSUME NEW s \in States, NEW mark \in BOOLEAN
    PROVE  /\ Left(s, mark) \in States /\ ~Left(s, mark).active /\ Left(s, mark).restore = "none" /\ ~Left(s, mark).rollback.on
           /\ Left(s, mark).dirty = mark /\ Left(s, mark).call = [c \in Call |-> Out(s.call[c])]
           /\ Left(s, mark).view = s.view /\ Left(s, mark).committed = s.committed /\ Left(s, mark).shown = s.shown
           /\ Left(s, mark).kb = s.kb /\ Left(s, mark).wheel = s.wheel /\ Left(s, mark).odd = s.odd /\ Left(s, mark).said = s.said
<1> DEFINE f == Fenced(s)  y == [f.sync EXCEPT !.live = FALSE]  k == [c \in Call |-> Out(s.call[c])]
           g == [f EXCEPT !.active = FALSE, !.restore = "none", !.latest = "none"]
           h == [g EXCEPT !.sync = y, !.rollback = NoRollback]
           l == [h EXCEPT !.dirty = mark, !.call = k]
<1>0. Box # {}
  BY DEF States
<1>1. f \in States /\ Unmoved(s, f) /\ f.said = s.said
  BY FencedCalls
<1>2. k \in [Call -> CallRecord]
  BY <1>0, OutCall DEF States
<1>3. NoRollback \in [on : BOOLEAN, fresh : BOOLEAN, to : View] /\ ~NoRollback.on
  BY <1>0, Defaults DEF NoRollback
<1> HIDE DEF f
<1>4. y \in [at : {"none", "deferred", "running"}, live : BOOLEAN]
  BY <1>1 DEF States
<1>5. Left(s, mark) = [f EXCEPT !.active = FALSE, !.restore = "none", !.latest = "none", !.sync = y, !.rollback = NoRollback,
                                 !.dirty = mark, !.call = k]
  BY <1>1 DEF Left, f, States
<1> HIDE DEF y, k
<1>6. Left(s, mark) = l
  BY ONLY <1>1, <1>5 DEF States
<1>7. g \in States /\ ~g.active /\ g.restore = "none" /\ g.view = f.view /\ g.committed = f.committed /\ g.shown = f.shown
      /\ g.kb = f.kb /\ g.wheel = f.wheel /\ g.odd = f.odd /\ g.said = f.said
  BY ONLY <1>1 DEF States
<1> HIDE DEF g
<1>8. h \in States /\ ~h.active /\ h.restore = "none" /\ ~h.rollback.on /\ h.view = g.view /\ h.committed = g.committed /\ h.shown = g.shown
      /\ h.kb = g.kb /\ h.wheel = g.wheel /\ h.odd = g.odd /\ h.said = g.said
  BY ONLY <1>3, <1>4, <1>7 DEF States
<1> HIDE DEF h
<1>9. l \in States /\ ~l.active /\ l.restore = "none" /\ ~l.rollback.on /\ l.view = h.view /\ l.committed = h.committed /\ l.shown = h.shown
      /\ l.kb = h.kb /\ l.wheel = h.wheel /\ l.odd = h.odd /\ l.said = h.said /\ l.dirty = mark /\ l.call = k
  BY ONLY <1>2, <1>8, mark \in BOOLEAN DEF States
<1> HIDE DEF l
<1>10. f.view = s.view /\ f.committed = s.committed /\ f.shown = s.shown /\ f.kb = s.kb /\ f.wheel = s.wheel /\ f.odd = s.odd
  BY ONLY <1>1 DEF Unmoved
<1> QED
  BY <1>1, <1>6, <1>7, <1>8, <1>9, <1>10 DEF k

LEMMA DeactivatedIsGood ==
    ASSUME NEW s \in States, Sound(s), s.said.by = "none", NEW t, t = Deactivated(s)
    PROVE  Good(t)
<1> DEFINE mark == s.dirty \/ \E c \in Call : s.call[c].at \in {"transform", "render"}
           l == Left(s, mark)
<1>1. mark \in BOOLEAN /\ Box # {} /\ s.kb.call \in Call /\ s.call \in [Call -> CallRecord]
  BY DEF States, KeyRecord
<1>2. /\ l \in States /\ ~l.active /\ l.restore = "none" /\ ~l.rollback.on /\ l.dirty = mark
      /\ l.call = [c \in Call |-> Out(s.call[c])]
      /\ l.view = s.view /\ l.committed = s.committed /\ l.shown = s.shown
      /\ l.kb = s.kb /\ l.wheel = s.wheel /\ l.odd = s.odd /\ l.said = s.said
  BY <1>1, LeftIsKnown
<1>3. t = Flush(l)
  <2>1. [c \in Call |-> [Superseded(s.call[c]) EXCEPT !.kind = IF @ = "restore" THEN "none" ELSE @]] = [c \in Call |-> Out(s.call[c])]
    BY <1>1, SupersededCall DEF Out, CallRecord
  <2>2. /\ Fenced(s) \in States /\ Fenced(s).dirty = s.dirty
    BY FencedCalls DEF Unmoved
  <2> QED
    BY <2>1, <2>2 DEF Deactivated, Left, States
<1>4. Pending(s) => mark
  BY <1>1 DEF Pending
<1>5. s.dirty => mark
  OBVIOUS
<1> HIDE DEF mark, l
<1>6. t \in States /\ Unmoved(l, t) /\ t.said = l.said /\ t.call = l.call /\ t.rollback = l.rollback /\ DeferredIsAwaited(t)
  BY <1>2, <1>3, Flushed
<1>7. \A c \in Call : /\ t.call[c].at = s.call[c].at /\ (s.call[c].kind # "restore" => t.call[c].kind = s.call[c].kind)
                      /\ ~t.call[c].live /\ ~t.call[c].ok /\ ~t.call[c].back
  BY <1>1, <1>2, <1>6, OutCall
<1>8. /\ ~t.active /\ t.restore = "none" /\ ~t.rollback.on /\ t.dirty = mark /\ t.view = s.view /\ t.committed = s.committed
      /\ t.shown = s.shown /\ t.kb = s.kb /\ t.wheel = s.wheel /\ t.odd = s.odd /\ t.said = s.said
  BY <1>2, <1>6 DEF Unmoved
<1>9. Owners(t)
  BY <1>1, <1>7, <1>8 DEF Sound, Owners
<1>10. ASSUME Fine(s) PROVE Presentation(t)
  <2>1. Presentation(s)
    BY <1>10 DEF Sound
  <2>2. Agrees(t) <=> Agrees(s)
    BY <1>8 DEF Agrees
  <2>3. Wanted(t)
    BY <2>1, <2>2, <1>4, <1>5, <1>8 DEF Presentation, Wanted
  <2>4. Displayed(t) /\ Alone(t) /\ \A c \in Call : Rendering(t, c)
    BY <2>1, <1>7, <1>8 DEF Presentation, Displayed, Alone, Rendering
  <2> QED
    BY <2>3, <2>4 DEF Presentation
<1>11. Answers(t)
  BY <1>1, <1>7, <1>8 DEF Answers, Typing, FittingPage, Hopeful
<1>12. Sound(t)
  BY <1>8, <1>9, <1>10, <1>11 DEF Sound, Fine
<1> QED
  BY <1>6, <1>8, <1>12 DEF Good, Told

\* Only the activation has gone on.
LEMMA RestoreIsGood ==
    ASSUME NEW s, Silent(s), NEW t \in States, t.call = s.call, t.rollback = s.rollback, t.view = s.view,
           t.committed = s.committed, t.shown = s.shown, t.kb = s.kb, t.wheel = s.wheel, t.dirty = s.dirty, t.odd = s.odd,
           t.said = s.said, t.sync = s.sync, t.box = s.box, t.resize = s.resize,
           s.active => t.active, t.restore # "none" => t.active
    PROVE  Silent(t)
<1>1. s \in States /\ Sound(s) /\ DeferredIsAwaited(s) /\ s.said.by = "none" /\ s.kb.call \in Call
  BY DEF Silent, Good, States, KeyRecord
<1>2. t.shown = s.shown
  OBVIOUS
<1>3. Owners(t)
  BY <1>1, <1>2 DEF Sound, Owners
<1>4. ASSUME Fine(s) PROVE Presentation(t)
  <2>1. Presentation(s)
    BY <1>1, <1>4 DEF Sound
  <2>2. (Agrees(t) <=> Agrees(s)) /\ (Pending(t) <=> Pending(s))
    BY <1>2 DEF Agrees, Pending
  <2>3. Wanted(t)
    BY <2>1, <2>2, <1>2 DEF Presentation, Wanted
  <2>4. Displayed(t) /\ Alone(t)
    BY <2>1, <1>2 DEF Presentation, Displayed, Alone
  <2>5. \A c \in Call : Rendering(t, c)
    BY <2>1, <2>2, <1>2 DEF Presentation, Rendering
  <2> QED
    BY <2>3, <2>4, <2>5 DEF Presentation
<1>5. Answers(s) => Answers(t)
  BY <1>1, <1>2 DEF Answers, Typing, FittingPage
<1>6. Sound(t)
  BY <1>1, <1>2, <1>3, <1>4, <1>5 DEF Sound, Fine
<1> QED
  BY <1>1, <1>2, <1>6 DEF Silent, Good, Told, DeferredIsAwaited, Owned, Idle

LEMMA ActivateIsGood ==
    ASSUME NEW s, Silent(s), NEW t, t = [s EXCEPT !.active = TRUE, !.restore = "due"]
    PROVE  Good(t)
<1>1. s \in States
  BY DEF Silent, Good
<1>2. /\ t \in States /\ t.call = s.call /\ t.rollback = s.rollback /\ t.view = s.view /\ t.committed = s.committed
      /\ t.shown = s.shown /\ t.kb = s.kb /\ t.wheel = s.wheel /\ t.dirty = s.dirty /\ t.odd = s.odd
      /\ t.said = s.said /\ t.sync = s.sync /\ t.box = s.box /\ t.resize = s.resize /\ t.active
  BY <1>1 DEF States
<1>3. Silent(t)
  BY <1>2, RestoreIsGood
<1> QED
  BY <1>3 DEF Silent

LEMMA RestoreAtIsGood ==
    ASSUME NEW s, Silent(s), NEW stage \in {"none", "due", "first", "second"}, stage # "none" => s.active,
           NEW t, t = RestoreAt(s, stage)
    PROVE  Silent(t) /\ t.active = s.active /\ t.call = s.call /\ t.kb = s.kb /\ t.restore = stage
<1>1. s \in States
  BY DEF Silent, Good
<1>2. /\ t \in States /\ t.call = s.call /\ t.rollback = s.rollback /\ t.view = s.view /\ t.committed = s.committed
      /\ t.shown = s.shown /\ t.kb = s.kb /\ t.wheel = s.wheel /\ t.dirty = s.dirty /\ t.odd = s.odd
      /\ t.said = s.said /\ t.sync = s.sync /\ t.box = s.box /\ t.resize = s.resize
      /\ t.active = s.active /\ t.restore = stage
  BY <1>1 DEF States, RestoreAt
<1>3. Silent(t)
  BY <1>2, RestoreIsGood
<1> QED
  BY <1>2, <1>3

LEMMA RestoreBeginsIsGood ==
    ASSUME NEW s, Silent(s), s.restore = "due", Idle(s) # {},
           NEW t, t = IF s.dirty \/ s.committed.box # s.box THEN Begin(RestoreAt(s, "first"), Unused(s), "restore")
                      ELSE RestoreAt(s, "none")
    PROVE  Good(t)
<1> DEFINE c == Unused(s)  u == RestoreAt(s, "first")  v == RestoreAt(s, "none")
<1>1. s \in States /\ Sound(s) /\ s.active
  BY DEF Silent, Good, Sound, Owners
<1>2. c \in Call /\ s.call[c].at = "idle"
  BY DEF Unused, Idle
<1>3. s.kb.on => s.kb.call # c
  BY <1>1, <1>2 DEF Sound, Owners
<1>4. t = Begin(u, c, "restore") \/ t = v
  OBVIOUS
<1> HIDE DEF c
<1>5. Silent(u) /\ u.active /\ u.kb = s.kb
  BY ONLY Silent(s), <1>1, RestoreAtIsGood
<1>6. Silent(v)
  BY ONLY Silent(s), <1>1, RestoreAtIsGood
<1> HIDE DEF u, v
<1>7. u.kb.on => u.kb.call # c
  BY <1>3, <1>5
<1> DEFINE b == Begin(u, c, "restore")
<1>8. Good(b)
  BY ONLY <1>2, <1>5, <1>7, BeginIsGood
<1> HIDE DEF b
<1> QED
  BY <1>4, <1>6, <1>8 DEF Silent, b

\* Nothing waits for a rendering any more.
Restored(s) == [s EXCEPT !.restore = "none", !.dirty = FALSE]
LEMMA RestoredIsGood ==
    ASSUME NEW s, Silent(s), Fine(s) => Agrees(s), NEW t, t = Restored(s)
    PROVE  Good(t)
<1>1. s \in States /\ Sound(s) /\ DeferredIsAwaited(s) /\ s.said.by = "none" /\ s.kb.call \in Call
  BY DEF Silent, Good, States, KeyRecord
<1>2. /\ t \in States /\ t.call = s.call /\ t.rollback = s.rollback /\ t.view = s.view /\ t.committed = s.committed
      /\ t.shown = s.shown /\ t.active = s.active /\ t.restore = "none" /\ t.kb = s.kb /\ t.wheel = s.wheel
      /\ t.odd = s.odd /\ t.said = s.said /\ t.sync = s.sync /\ t.box = s.box /\ t.resize = s.resize
  BY <1>1 DEF States, Restored
<1>3. Owners(t)
  BY <1>1, <1>2 DEF Sound, Owners
<1>4. ASSUME Fine(s) PROVE Presentation(t)
  <2>1. Presentation(s)
    BY <1>1, <1>4 DEF Sound
  <2>2. (Agrees(t) <=> Agrees(s)) /\ Agrees(t)
    BY <1>2, <1>4 DEF Agrees
  <2>3. Wanted(t)
    <3>1. t.view.mode = t.committed.mode \/ t.odd.kept
      BY <2>2 DEF Agrees
    <3> QED
      BY <3>1, <2>1, <2>2, <1>2 DEF Presentation, Wanted
  <2>4. Displayed(t) /\ Alone(t)
    BY <2>1, <1>2 DEF Presentation, Displayed, Alone
  <2>5. \A c \in Call : Rendering(t, c)
    BY <2>1, <2>2, <1>2 DEF Presentation, Rendering
  <2> QED
    BY <2>3, <2>4, <2>5 DEF Presentation
<1>5. Answers(s) => Answers(t)
  BY <1>1, <1>2 DEF Answers, Typing, FittingPage
<1>6. Sound(t)
  BY <1>1, <1>2, <1>3, <1>4, <1>5 DEF Sound, Fine
<1> QED
  BY <1>1, <1>2, <1>6 DEF Good, Told, DeferredIsAwaited, Owned, Idle

LEMMA ContinuesIsGood ==
    ASSUME NEW s, Silent(s), NEW c \in Call, s.kb.on => s.kb.call # c, NEW ok \in BOOLEAN, ok /\ Fine(s) => Agrees(s),
           NEW t, t = RestoreContinues(s, c, ok)
    PROVE  Good(t)
<1>1. s \in States /\ Sound(s)
  BY DEF Silent, Good
<1>2. CASE ok
  BY <1>2, RestoredIsGood DEF RestoreContinues, Restored
<1>3. CASE ~ok /\ s.restore = "first"
  <2> DEFINE u == RestoreAt(s, "second")  b == Begin(u, c, "restore")
  <2>1. s.active
    BY <1>1, <1>3 DEF Sound, Owners
  <2>2. t = b
    BY <1>3 DEF RestoreContinues, RestoreAt
  <2>3. Silent(u) /\ u.active /\ u.kb = s.kb
    BY ONLY Silent(s), <2>1, RestoreAtIsGood
  <2> HIDE DEF u
  <2>4. u.kb.on => u.kb.call # c
    BY <2>3
  <2>5. Good(b)
    BY ONLY <2>3, <2>4, c \in Call, BeginIsGood
  <2> QED
    BY <2>2, <2>5
<1>4. CASE ~ok /\ s.restore # "first"
  <2> DEFINE u == RestoreAt(s, "none")
  <2>1. t = Deactivated(u)
    BY <1>4 DEF RestoreContinues, RestoreAt
  <2>2. Silent(u)
    BY ONLY Silent(s), RestoreAtIsGood
  <2> HIDE DEF u
  <2>3. u \in States /\ Sound(u) /\ u.said.by = "none"
    BY <2>2 DEF Silent, Good
  <2> QED
    BY <2>1, <2>3, DeactivatedIsGood
<1> QED
  BY <1>2, <1>3, <1>4

LEMMA SettledIsGood ==
    ASSUME NEW s, Silent(s), NEW c \in Call, s.call[c].at = "settled", NEW t, t = AfterSettled(s, c)
    PROVE  Good(t)
<1>1. s \in States /\ Sound(s) /\ s.said.by = "none"
  BY DEF Silent, Good
<1>2. CASE s.call[c].kind = "keyboard" /\ s.kb.on /\ s.kb.call = c
  <2>1. t = DrainKeyboardView(Ended(s, c), c, s.call[c].ok)
    BY <1>2 DEF AfterSettled
  <2> QED
    BY <1>1, <1>2, <2>1, DrainIsSound DEF Good
<1>3. CASE ~(s.call[c].kind = "keyboard" /\ s.kb.on /\ s.kb.call = c)
  <2> DEFINE e == Ended(s, c)  ok == s.call[c].ok
  <2>1. /\ e \in States /\ DeferredIsAwaited(e) /\ Kept(s, e) /\ e.kb = s.kb
        /\ e.said = s.said /\ e.call[c] = IdleCall /\ OthersAsBefore(s, e, c)
    BY <1>1, EndedCall
  <2>2. t = RestoreContinues(e, c, ok) \/ t = e
    BY <1>3 DEF AfterSettled
  <2> HIDE DEF e
  <2>3. s.kb.on => s.kb.call # c
    BY <1>1, <1>3 DEF Sound, Owners
  <2>4. Sound(e)
    BY <1>1, <2>1, <2>3, EndIsSound
  <2>5. Silent(e)
    BY <1>1, <2>1, <2>4 DEF Silent, Good, Told
  <2>6. ok \in BOOLEAN
    BY <1>1 DEF States, CallRecord
  <2>7. ASSUME ok, Fine(e) PROVE Agrees(e)
    <3>1. Fine(s) /\ s.call[c].live
      BY <1>1, <2>1, <2>7 DEF Sound, Owners, Fine, Kept
    <3>2. Agrees(s)
      BY <1>1, <2>7, <3>1 DEF Sound, Presentation, Rendering, Sure
    <3> QED
      BY <3>2, <2>1 DEF Agrees, Kept
  <2> HIDE DEF ok
  <2>8. e.kb.on => e.kb.call # c
    BY <2>1, <2>3
  <2> DEFINE r == RestoreContinues(e, c, ok)
  <2>9. Good(r)
    BY ONLY <2>5, <2>6, <2>7, <2>8, c \in Call, ContinuesIsGood
  <2> HIDE DEF r
  <2> QED
    BY <2>2, <2>5, <2>9 DEF Silent, r
<1> QED
  BY <1>2, <1>3

-----------------------------------------------------------------------------
(* The stages of a rendering *)

LEMMA KeepsGood ==
    ASSUME NEW s, Silent(s), NEW t \in States, Sound(t), DeferredIsAwaited(s) => DeferredIsAwaited(t), t.said = s.said
    PROVE  Good(t)
  BY DEF Silent, Good, Told

LEMMA FailsIsGood ==
    ASSUME NEW s, Silent(s), NEW c \in Call, NEW guard \in BOOLEAN, guard => s.call[c].live,
           NEW at \in {"rendered", "synchronized", "settled"},
           s.call[c].at \in IF at = "rendered" THEN {"transform", "render"} ELSE {"sync", "refit"}
    PROVE  Good(FailedAt(s, guard, c, at))
<1> DEFINE t == FailedAt(s, guard, c, at)  f == Failed(s, guard)  r == [s.call[c] EXCEPT !.at = at, !.ok = FALSE]
<1>1. s \in States /\ Sound(s)
  BY DEF Silent, Good
<1>2. t \in States /\ Sound(t) /\ (DeferredIsAwaited(s) => DeferredIsAwaited(t))
  <2>1. t = FailedAt(s, guard, c, at)
    OBVIOUS
  <2>2. /\ guard \in BOOLEAN /\ (guard => s.call[c].live) /\ at \in {"rendered", "synchronized", "settled"} /\ c \in Call
        /\ s.call[c].at \in IF at = "rendered" THEN {"transform", "render"} ELSE {"sync", "refit"}
    OBVIOUS
  <2> HIDE DEF t
  <2> QED
    BY ONLY <1>1, <2>1, <2>2, FailsIsSound
<1>3. f \in States /\ f.said = s.said
  BY <1>1, FailedView DEF FailedFrom
<1>4. r \in CallRecord
  <2>1. s.call[c] \in CallRecord /\ at \in Stages
    BY <1>1 DEF States, Stages
  <2> QED
    BY ONLY <2>1 DEF CallRecord
<1>5. t = WithCall(f, c, r)
  BY DEF FailedAt
<1> HIDE DEF f, r, t
<1>6. t.said = f.said
  BY <1>3, <1>4, <1>5, CallChanged DEF ButCall
<1>7. Good(t)
  BY <1>2, <1>3, <1>6, KeepsGood
<1> QED
  BY <1>7 DEF t

LEMMA TransformIsGood ==
    ASSUME NEW s, Silent(s), NEW c \in Call, NEW ok \in BOOLEAN, s.call[c].at = "transform"
    PROVE  Good(AfterTransform(s, c, ok))
<1> DEFINE t == AskPage(s, c, FitScale(s.call[c].asked, s.box))  g == Guard(s, c)
<1>1. s \in States /\ Sound(s)
  BY DEF Silent, Good
<1>2. CASE ok /\ g
  <2>1. s.call[c].live /\ s.box = s.call[c].box
    BY <1>2 DEF Guard
  <2>2. t \in States /\ Sound(t) /\ (DeferredIsAwaited(s) => DeferredIsAwaited(t))
    BY <1>1, <2>1, TransformIsSound
  <2>3. FitScale(s.call[c].asked, s.box) \in Scale
    BY <1>1, ScaleFits DEF States, CallRecord
  <2>4. t.said = s.said
    <3> DEFINE x == FitScale(s.call[c].asked, s.box)
    <3>1. t = AskPage(s, c, x) /\ x \in Scale
      BY <2>3
    <3> HIDE DEF t, x
    <3>2. ButCall(s, t)
      BY ONLY <1>1, <3>1, c \in Call, PageAsked
    <3> QED
      BY <3>2 DEF ButCall
  <2>5. AfterTransform(s, c, ok) = t
    BY <1>2 DEF AfterTransform
  <2> HIDE DEF t
  <2> QED
    BY <2>2, <2>4, <2>5, KeepsGood
<1>3. CASE ~(ok /\ g)
  <2>1. AfterTransform(s, c, ok) = FailedAt(s, g, c, "rendered")
    BY <1>3 DEF AfterTransform
  <2>2. g \in BOOLEAN /\ (g => s.call[c].live)
    BY <1>1 DEF Guard, States, CallRecord
  <2> HIDE DEF g
  <2>3. Good(FailedAt(s, g, c, "rendered"))
    BY <2>2, FailsIsGood
  <2> QED
    BY <2>1, <2>3
<1> QED
  BY <1>2, <1>3

LEMMA CommittingIsGood ==
    ASSUME NEW s, Silent(s), NEW c \in Call, s.call[c].at \in DOMAIN After, Guard(s, c), NEW b \in Box
    PROVE  Good(Committing(s, c, b))
<1> DEFINE t == Committing(s, c, b)  u == Shows(s, s.call[c].scale, s.call[c].topology, b)
           r == [s.call[c] EXCEPT !.at = After[s.call[c].at], !.ok = TRUE]
<1>1. s \in States /\ Sound(s)
  BY DEF Silent, Good
<1>2. t \in States /\ Sound(t) /\ (DeferredIsAwaited(s) => DeferredIsAwaited(t))
  <2>1. t = Committing(s, c, b)
    OBVIOUS
  <2>2. /\ s.call[c].live /\ (s.call[c].at = "render" => s.box = s.call[c].box)
        /\ s.call[c].at \in DOMAIN After /\ b \in Box /\ c \in Call
    BY DEF Guard
  <2> HIDE DEF t
  <2> QED
    BY ONLY <1>1, <2>1, <2>2, CommitIsSound
<1>3. s.call[c] \in CallRecord
  BY <1>1 DEF States
<1>4. u \in States /\ u.said = s.said
  <2>1. s.call[c].scale \in Scale /\ s.call[c].topology \in Topology
    BY <1>3 DEF CallRecord
  <2>2. u \in States /\ ShownFrom(s, u, s.call[c].scale, s.call[c].topology, b)
    BY <1>1, <2>1, ShownView
  <2> QED
    BY <2>2 DEF ShownFrom
<1>5. r \in CallRecord
  <2>1. After[s.call[c].at] \in Stages
    BY DEF After, Stages
  <2> QED
    BY <1>3, <2>1 DEF CallRecord
<1>6. t = WithCall(u, c, r)
  BY DEF Committing
<1> HIDE DEF t, u, r
<1>7. t.said = u.said
  BY <1>4, <1>5, <1>6, CallChanged DEF ButCall
<1>8. Good(t)
  BY <1>2, <1>4, <1>7, KeepsGood
<1> QED
  BY <1>8 DEF t

\* A stage ends of which the view is known to be what was committed, well or not.

LEMMA EndsAtIsGood ==
    ASSUME NEW s, Silent(s), NEW c \in Call, NEW ok \in BOOLEAN, NEW at \in {"undone", "synchronized"},
           IF at = "undone" THEN s.call[c].at = "undo" /\ ~ok ELSE s.call[c].at \in {"sync", "refit-size", "refit"}
    PROVE  Good(EndsAt(s, c, at, ok))
<1> DEFINE t == EndsAt(s, c, at, ok)  r == [s.call[c] EXCEPT !.at = at, !.ok = ok]
<1>1. s \in States /\ Sound(s)
  BY DEF Silent, Good
<1>2. s.call[c] \in CallRecord
  BY <1>1 DEF States
<1>3. /\ r \in CallRecord /\ r.kind = s.call[c].kind /\ r.live = s.call[c].live /\ r.prior = s.call[c].prior /\ r.back = s.call[c].back
      /\ r.at = at /\ r.ok = ok
  BY <1>2 DEF CallRecord, Stages
<1>4. Sure(s.call[c]) /\ s.call[c].at \notin {"idle", "transform", "render"}
  BY DEF Sure
<1>5. at = "undone" => ~r.ok /\ ~r.back
  BY <1>1, <1>3 DEF Sound, Owners
<1>6. t = WithCall(s, c, r)
  BY DEF EndsAt
<1> HIDE DEF r, t
<1>7. r.at # "refit-size"
  BY <1>3
<1>8. t \in States /\ Sound(t) /\ (DeferredIsAwaited(s) => DeferredIsAwaited(t))
  BY <1>1, <1>3, <1>4, <1>5, <1>6, <1>7, ReplacedIsSound
<1>9. t.said = s.said
  BY <1>1, <1>3, <1>6, CallChanged DEF ButCall
<1>10. Good(t)
  BY <1>8, <1>9, KeepsGood
<1> QED
  BY <1>10 DEF t

LEMMA RefusedIsGood ==
    ASSUME NEW s, Silent(s), NEW c \in Call, s.call[c].at \in DOMAIN After
    PROVE  Good(AfterRefused(s, c))
<1> DEFINE g == Guard(s, c)
<1>1. s \in States /\ g \in BOOLEAN /\ (g => s.call[c].live)
  BY DEF Silent, Good, Guard, States, CallRecord
<1>2. s.call[c].at \in {"render", "undo", "refit"}
  BY DEF After
<1>3. CASE s.call[c].at = "undo"
  <2>1. Good(EndsAt(s, c, "undone", FALSE))
    BY <1>3, EndsAtIsGood
  <2> QED
    BY <1>3, <2>1 DEF AfterRefused
<1>4. CASE s.call[c].at = "refit" /\ g
  <2>1. Good(EndsAt(s, c, "synchronized", FALSE))
    BY <1>4, EndsAtIsGood
  <2> QED
    BY <1>4, <2>1 DEF AfterRefused
<1>5. CASE s.call[c].at = "refit" /\ ~g
  <2>1. Good(FailedAt(s, FALSE, c, "synchronized"))
    BY <1>5, FailsIsGood
  <2> QED
    BY <1>5, <2>1 DEF AfterRefused
<1>6. CASE s.call[c].at = "render"
  <2>1. AfterRefused(s, c) = FailedAt(s, g, c, "rendered")
    BY <1>6 DEF AfterRefused
  <2> HIDE DEF g
  <2>2. Good(FailedAt(s, g, c, "rendered"))
    BY <1>1, <1>6, FailsIsGood
  <2> QED
    BY <2>1, <2>2
<1> QED
  BY <1>1, <1>2, <1>3, <1>4, <1>5, <1>6

LEMMA NothingIsSaid ==
    ASSUME NEW s \in States, NEW c \in Call
    PROVE  /\ \A ok \in BOOLEAN : Settle(s, c, ok) \in States /\ Settle(s, c, ok).said = s.said
           /\ Settle(s, c, TRUE).said = s.said /\ Settle(s, c, FALSE).said = s.said
           /\ Synchronize(s, c, TRUE).said = s.said /\ Synchronize(s, c, FALSE).said = s.said
           /\ Undo(s, c).said = s.said
           /\ \A back \in BOOLEAN : Synchronize(s, c, back).said = s.said
           /\ \A x \in Scale : AskPage(s, c, x).said = s.said
           /\ \A r \in CallRecord : WithCall(s, c, r) \in States /\ WithCall(s, c, r).said = s.said
<1>1. \A ok \in BOOLEAN : Settle(s, c, ok) \in States /\ Settle(s, c, ok).said = s.said
  BY SettledCall DEF ButCall
<1>2. Undo(s, c).said = s.said
  <2> DEFINE t == Undo(s, c)
  <2>1. AskedFrom(s, t, c, "undo", s.call[c].prior.scale, TopologyOf(s.call[c].prior.mode))
    BY UndoAsked
  <2> QED
    BY <2>1 DEF AskedFrom, ButCall
<1>3. \A back \in BOOLEAN : Synchronize(s, c, back).said = s.said
  BY ToSynchronize DEF ButCall
<1>4. ASSUME NEW x \in Scale PROVE AskPage(s, c, x).said = s.said
  <2> DEFINE t == AskPage(s, c, x)
  <2>1. ButCall(s, t)
    BY PageAsked
  <2> QED
    BY <2>1 DEF ButCall
<1>5. \A r \in CallRecord : WithCall(s, c, r) \in States /\ WithCall(s, c, r).said = s.said
  BY CallChanged DEF ButCall
<1>6. Settle(s, c, TRUE).said = s.said /\ Settle(s, c, FALSE).said = s.said
  BY <1>1
<1>7. Synchronize(s, c, TRUE).said = s.said /\ Synchronize(s, c, FALSE).said = s.said
  BY <1>3
<1> QED
  BY <1>1, <1>2, <1>3, <1>4, <1>5, <1>6, <1>7

LEMMA RenderedIsGood ==
    ASSUME NEW s, Silent(s), NEW c \in Call, s.call[c].at = "rendered"
    PROVE  Good(AfterRendered(s, c))
<1> DEFINE t == AfterRendered(s, c)  r == [s.call[c] EXCEPT !.at = "measure", !.asked = s.view, !.settled = s.box]
<1>1. s \in States /\ Sound(s)
  BY DEF Silent, Good
<1>2. r \in CallRecord
  <2>1. s.call[c] \in CallRecord /\ s.view \in View /\ s.box \in Box
    BY <1>1 DEF States
  <2> QED
    BY ONLY <2>1 DEF CallRecord, Stages
<1>3. t = Settle(s, c, FALSE) \/ t = Undo(s, c) \/ t = Synchronize(s, c, FALSE) \/ t = Settle(s, c, TRUE) \/ t = WithCall(s, c, r)
  BY <1>1 DEF AfterRendered, States, CallRecord
<1>4. t = AfterRendered(s, c)
  OBVIOUS
<1> HIDE DEF t, r
<1>5. t.said = s.said
  <2>1. /\ Settle(s, c, TRUE).said = s.said /\ Settle(s, c, FALSE).said = s.said
        /\ Synchronize(s, c, FALSE).said = s.said /\ Undo(s, c).said = s.said /\ WithCall(s, c, r).said = s.said
    BY <1>1, <1>2, NothingIsSaid
  <2> QED
    BY ONLY <2>1, <1>3
<1>6. t \in States /\ Sound(t) /\ (DeferredIsAwaited(s) => DeferredIsAwaited(t))
  BY <1>1, <1>4, RenderedIsSound
<1>7. Good(t)
  BY <1>5, <1>6, KeepsGood
<1> QED
  BY <1>4, <1>7

LEMMA MeasureIsGood ==
    ASSUME NEW s, Silent(s), NEW c \in Call, s.call[c].at = "measure", NEW ok \in BOOLEAN
    PROVE  Good(AfterMeasure(s, c, ok))
<1> DEFINE t == AfterMeasure(s, c, ok)  r == [s.call[c] EXCEPT !.corrected = TRUE]  u == WithCall(s, c, r)
           x == FitScale(s.call[c].asked, s.box)
<1>1. s \in States /\ Sound(s)
  BY DEF Silent, Good
<1>2. r \in CallRecord /\ x \in Scale
  <2>1. s.call[c] \in CallRecord /\ s.box \in Box
    BY <1>1 DEF States
  <2>2. s.call[c].asked \in View
    BY <2>1 DEF CallRecord
  <2>3. x \in Scale
    BY <2>1, <2>2, ScaleFits
  <2>4. r \in CallRecord
    BY ONLY <2>1 DEF CallRecord
  <2> QED
    BY <2>3, <2>4
<1>3. t = Settle(s, c, FALSE) \/ t = Undo(s, c) \/ t = Settle(s, c, TRUE) \/ t = AskPage(u, c, x)
  BY DEF AfterMeasure
<1>4. t = AfterMeasure(s, c, ok)
  OBVIOUS
<1> HIDE DEF t, r, x
<1>5. u \in States /\ u.said = s.said
  BY <1>1, <1>2, NothingIsSaid
<1> HIDE DEF u
<1>6. AskPage(u, c, x).said = u.said
  BY <1>2, <1>5, NothingIsSaid
<1>7. t.said = s.said
  BY <1>1, <1>3, <1>5, <1>6, NothingIsSaid
<1>8. t \in States /\ Sound(t) /\ (DeferredIsAwaited(s) => DeferredIsAwaited(t))
  BY <1>1, <1>4, MeasureIsSound
<1>9. Good(t)
  BY <1>7, <1>8, KeepsGood
<1> QED
  BY <1>4, <1>9

LEMMA UndoneIsGood ==
    ASSUME NEW s, Silent(s), NEW c \in Call, s.call[c].at = "undone"
    PROVE  Good(AfterUndone(s, c))
<1> DEFINE t == AfterUndone(s, c)  o == [s.odd EXCEPT !.kept = FALSE]  p == [s.odd EXCEPT !.broken = TRUE]
           back == [s EXCEPT !.view = Of(s.call[c].prior), !.committed = s.call[c].prior, !.odd = o]
           broken == [s EXCEPT !.odd = p]
<1>1. s \in States /\ Sound(s)
  BY DEF Silent, Good
<1>2. s.call[c].prior \in Committed
  BY <1>1 DEF States, CallRecord
<1>3. Of(s.call[c].prior) \in View
  BY <1>2 DEF Of, Committed, View
<1>4. o \in [broken : BOOLEAN, kept : BOOLEAN, both : BOOLEAN, moved : BOOLEAN] /\ p \in [broken : BOOLEAN, kept : BOOLEAN, both : BOOLEAN, moved : BOOLEAN]
  BY <1>1 DEF States
<1>5. /\ [s EXCEPT !.view = Of(s.call[c].prior), !.committed = s.call[c].prior, !.odd.kept = FALSE] = back
      /\ [s EXCEPT !.odd.broken = TRUE] = broken
  BY <1>1 DEF States
<1>6. t = Settle(s, c, FALSE) \/ t = Settle(broken, c, FALSE) \/ t = Settle(back, c, FALSE) \/ t = Synchronize(back, c, TRUE)
  BY <1>5 DEF AfterUndone
<1>7. t = AfterUndone(s, c)
  OBVIOUS
<1> HIDE DEF t, o, p
<1>8. back \in States /\ back.said = s.said /\ broken \in States /\ broken.said = s.said
  BY <1>1, <1>2, <1>3, <1>4 DEF States
<1> HIDE DEF back, broken
<1>9. t.said = s.said
  <2>1. Settle(s, c, FALSE).said = s.said
    BY <1>1, NothingIsSaid
  <2>2. Settle(broken, c, FALSE).said = broken.said
    BY <1>8, NothingIsSaid
  <2>3. Settle(back, c, FALSE).said = back.said /\ Synchronize(back, c, TRUE).said = back.said
    BY <1>8, NothingIsSaid
  <2> QED
    BY <2>1, <2>2, <2>3, <1>6, <1>8
<1>10. t \in States /\ Sound(t) /\ (DeferredIsAwaited(s) => DeferredIsAwaited(t))
  BY <1>1, <1>7, UndoneIsSound
<1>11. Good(t)
  BY <1>9, <1>10, KeepsGood
<1> QED
  BY <1>7, <1>11

LEMMA SettlesIsGood ==
    ASSUME NEW s, Silent(s), NEW c \in Call, s.call[c].at = "synchronized"
    PROVE  Good(AfterSynchronized(s, c))
<1> DEFINE t == AfterSynchronized(s, c)  ok == s.call[c].live /\ s.call[c].ok /\ ~s.call[c].back
<1>1. s \in States /\ Sound(s)
  BY DEF Silent, Good
<1>2. ok \in BOOLEAN
  OBVIOUS
<1>3. t = Settle(s, c, ok) \/ t = Undo(s, c)
  BY DEF AfterSynchronized
<1>4. t = AfterSynchronized(s, c)
  OBVIOUS
<1> HIDE DEF t, ok
<1>5. t.said = s.said
  <2>1. Settle(s, c, ok).said = s.said /\ Undo(s, c).said = s.said
    BY <1>1, <1>2, NothingIsSaid
  <2> QED
    BY ONLY <2>1, <1>3
<1>6. t \in States /\ Sound(t) /\ (DeferredIsAwaited(s) => DeferredIsAwaited(t))
  BY <1>1, <1>4, SettlesIsSound DEF AfterSynchronized
<1>7. Good(t)
  BY <1>5, <1>6, KeepsGood
<1> QED
  BY <1>4, <1>7

LEMMA RefitSizeIsGood ==
    ASSUME NEW s, Silent(s), NEW c \in Call, s.call[c].at = "refit-size", NEW ok \in BOOLEAN
    PROVE  Good(AfterRefitSize(s, c, ok))
<1> DEFINE x == FitScale(s.call[c].asked, s.box)  u == Ask(s, c, "refit", x, s.shown.topology)
<1>1. s \in States /\ Sound(s)
  BY DEF Silent, Good
<1>2. Good(EndsAt(s, c, "synchronized", TRUE))
  BY EndsAtIsGood
<1>3. CASE ok /\ Guard(s, c) /\ x # s.call[c].asked.scale
  <2>1. u \in States /\ Sound(u) /\ (DeferredIsAwaited(s) => DeferredIsAwaited(u))
    BY <1>1, <1>3, RefitIsSound DEF Guard
  <2>2. AfterRefitSize(s, c, ok) = u
    BY <1>3 DEF AfterRefitSize
  <2>3. x \in Scale /\ s.shown.topology \in Topology /\ "refit" \in DOMAIN After
    BY <1>1, ScaleFits DEF States, CallRecord, After
  <2> HIDE DEF x
  <2>4. AskedFrom(s, u, c, "refit", x, s.shown.topology)
    BY <1>1, <2>3, AskedCall
  <2>5. u.said = s.said
    BY <2>4 DEF AskedFrom, ButCall
  <2> HIDE DEF u
  <2> QED
    BY <2>1, <2>2, <2>5, KeepsGood
<1>4. CASE ~(ok /\ Guard(s, c) /\ x # s.call[c].asked.scale)
  BY <1>2, <1>4 DEF AfterRefitSize
<1> QED
  BY <1>3, <1>4

LEMMA PagesIsGood ==
    ASSUME NEW s, Silent(s), NEW c \in Call, s.call[c].at = "sync", s.call[c].live, NEW page \in BOOLEAN, NEW b \in Box
    PROVE  Good(AfterPages(s, c, page, b))
<1> DEFINE v == Shows(s, s.shown.scale, s.shown.topology, b)
           u == IF page THEN v ELSE s
           r == [u.call[c] EXCEPT !.at = "refit-size", !.asked = u.view]
           t == WithCall(u, c, r)
<1>1. s \in States /\ Sound(s) /\ DeferredIsAwaited(s) /\ s.said.by = "none"
  BY DEF Silent, Good
<1>2. Fine(s) => ~s.wheel.on /\ \A d \in Call : s.call[d].live => s.call[d].at = "sync"
  BY <1>1 DEF Sound, Presentation, Alone
<1>3. /\ v \in States /\ Sound(v) /\ DeferredIsAwaited(v) /\ ShownFrom(s, v, s.shown.scale, s.shown.topology, b)
  BY <1>1, <1>2, PageIsSound
<1>4. AfterPages(s, c, page, b) = IF s.view.mode \in {"continuous-fit", "fit-page"} THEN t ELSE EndsAt(u, c, "synchronized", TRUE)
  BY DEF AfterPages
<1>5. /\ v.said = s.said /\ v.call = s.call /\ v.odd = [s.odd EXCEPT !.kept = FALSE]
      /\ v.view.mode = IF s.wheel.on /\ s.shown.scale = s.wheel.target THEN "custom" ELSE s.view.mode
  BY <1>3 DEF ShownFrom
<1>6. v.odd.broken = s.odd.broken /\ v.odd.both = s.odd.both
  BY ONLY <1>1, <1>5 DEF States
<1>7. u = v \/ u = s
  OBVIOUS
<1> HIDE DEF v, u
<1>8. Silent(u) /\ u \in States /\ Sound(u)
  BY <1>1, <1>3, <1>5, <1>7 DEF Silent, Good, Told
<1>9. u.call[c] = s.call[c] /\ (Fine(u) => u.view.mode = s.view.mode)
  BY <1>2, <1>5, <1>6, <1>7 DEF Fine
<1>10. Good(EndsAt(u, c, "synchronized", TRUE))
  <2>1. u.call[c].at = "sync"
    BY <1>9
  <2> QED
    BY <1>8, <2>1, EndsAtIsGood
<1>11. CASE s.view.mode \in {"continuous-fit", "fit-page"}
  <2>1. u.call[c] \in CallRecord /\ u.view \in View
    BY <1>8 DEF States
  <2>2. /\ r \in CallRecord /\ r.kind = u.call[c].kind /\ r.live = u.call[c].live /\ r.prior = u.call[c].prior /\ r.back = u.call[c].back
        /\ r.at = "refit-size"
    BY ONLY <2>1 DEF CallRecord, Stages
  <2> HIDE DEF r
  <2>3. Sure(u.call[c]) /\ u.call[c].at \notin {"idle", "transform", "render"} /\ u.call[c].at \in {"sync", "refit-size", "refit"}
    BY <1>9 DEF Sure
  <2>4. Fine(u) => u.view.mode # "custom"
    BY <1>9, <1>11
  <2>5. t \in States /\ Sound(t) /\ (DeferredIsAwaited(u) => DeferredIsAwaited(t))
    BY <1>8, <2>2, <2>3, <2>4, ReplacedIsSound
  <2>6. t.said = u.said
    BY <1>8, <2>2, CallChanged DEF ButCall
  <2> HIDE DEF t
  <2>7. Good(t)
    BY <1>8, <2>5, <2>6, KeepsGood
  <2> QED
    BY <1>4, <1>11, <2>7
<1> QED
  BY <1>4, <1>10, <1>11

LEMMA NoPagesIsGood ==
    ASSUME NEW s, Silent(s), NEW c \in Call, NEW thrown \in BOOLEAN, s.call[c].at = "sync" \/ (thrown /\ s.call[c].at = "refit")
    PROVE  Good(AfterNoPages(s, c, thrown))
<1> DEFINE g == Guard(s, c)  f == Failed(s, g)
<1>1. s \in States /\ g \in BOOLEAN /\ (g => s.call[c].live)
  BY DEF Silent, Good, Guard, States, CallRecord
<1>2. CASE thrown
  <2>1. AfterNoPages(s, c, thrown) = Settle(f, c, FALSE)
    BY <1>2 DEF AfterNoPages
  <2> HIDE DEF g
  <2>2. f \in States /\ f.call = s.call
    BY <1>1, FailedView DEF FailedFrom
  <2>3. Settle(f, c, FALSE) = FailedAt(s, g, c, "settled")
    BY ONLY <2>2, c \in Call DEF Settle, FailedAt, WithCall, States, f
  <2>4. Good(FailedAt(s, g, c, "settled"))
    BY <1>1, FailsIsGood
  <2> QED
    BY <2>1, <2>3, <2>4
<1>3. CASE ~thrown /\ g
  <2>1. Good(EndsAt(s, c, "synchronized", FALSE))
    BY <1>3, EndsAtIsGood
  <2> QED
    BY <1>3, <2>1 DEF AfterNoPages
<1>4. CASE ~thrown /\ ~g
  <2>1. Good(FailedAt(s, FALSE, c, "synchronized"))
    BY <1>4, FailsIsGood
  <2> QED
    BY <1>4, <2>1 DEF AfterNoPages
<1> QED
  BY <1>1, <1>2, <1>3, <1>4

-----------------------------------------------------------------------------
(* The steps of the specification *)

LEMMA Fields ==
    /\ State.view = view /\ State.committed = committed /\ State.shown = shown /\ State.box = box /\ State.resize = resize
    /\ State.active = active /\ State.restore = restore /\ State.kb = kb /\ State.wheel = wheel /\ State.rollback = rollback
    /\ State.call = call /\ State.latest = latest /\ State.viewport = viewport /\ State.sync = sync /\ State.dirty = dirty
    /\ State.odd = odd
  BY DEF State

Lands == \E x : Good(x) /\ Becomes(x)

LEMMA InStates == ASSUME Silent(State) PROVE State \in States /\ Sound(State) /\ box \in Box
  BY Fields DEF Silent, Good, States

LEMMA BarsAreBoxes == ASSUME Silent(State), NEW b \in Bars[box] PROVE b \in Box
  BY InStates, ViewAssumption

LEMMA TransformLands == ASSUME Silent(State), NEW c \in Call, NEW ok \in BOOLEAN, Transform(c, ok) PROVE Lands
<1>1. State.call[c].at = "transform" /\ Becomes(AfterTransform(State, c, ok))
  BY Fields DEF Transform
<1>2. Good(AfterTransform(State, c, ok))
  BY <1>1, TransformIsGood
<1> QED
  BY <1>1, <1>2 DEF Lands

LEMMA CommitLands == ASSUME Silent(State), NEW c \in Call, NEW b \in Bars[box], Commit(c, b) PROVE Lands
<1>1. State.call[c].at \in DOMAIN After /\ Guard(State, c) /\ b \in Box /\ Becomes(Committing(State, c, b))
  BY Fields, BarsAreBoxes DEF Commit
<1>2. Good(Committing(State, c, b))
  BY <1>1, CommittingIsGood
<1> QED
  BY <1>1, <1>2 DEF Lands

LEMMA RefusedLands == ASSUME Silent(State), NEW c \in Call, Refused(c) PROVE Lands
<1>1. State.call[c].at \in DOMAIN After /\ Becomes(AfterRefused(State, c))
  BY Fields DEF Refused
<1>2. Good(AfterRefused(State, c))
  BY <1>1, RefusedIsGood
<1> QED
  BY <1>1, <1>2 DEF Lands

LEMMA RenderedLands == ASSUME Silent(State), NEW c \in Call, Rendered(c) PROVE Lands
<1>1. State.call[c].at = "rendered" /\ Becomes(AfterRendered(State, c))
  BY Fields DEF Rendered
<1>2. Good(AfterRendered(State, c))
  BY <1>1, RenderedIsGood
<1> QED
  BY <1>1, <1>2 DEF Lands

LEMMA MeasureLands == ASSUME Silent(State), NEW c \in Call, NEW ok \in BOOLEAN, Measure(c, ok) PROVE Lands
<1>1. State.call[c].at = "measure" /\ Becomes(AfterMeasure(State, c, ok))
  BY Fields DEF Measure
<1>2. Good(AfterMeasure(State, c, ok))
  BY <1>1, MeasureIsGood
<1> QED
  BY <1>1, <1>2 DEF Lands

LEMMA UndoneLands == ASSUME Silent(State), NEW c \in Call, Undone(c) PROVE Lands
<1>1. State.call[c].at = "undone" /\ Becomes(AfterUndone(State, c))
  BY Fields DEF Undone
<1>2. Good(AfterUndone(State, c))
  BY <1>1, UndoneIsGood
<1> QED
  BY <1>1, <1>2 DEF Lands

LEMMA SynchronizedLands ==
    ASSUME Silent(State), NEW c \in Call, NEW b \in Bars[box], NEW page \in BOOLEAN, Synchronized(c, page, b)
    PROVE  Lands
<1>1. State.call[c].at = "sync" /\ State.call[c].live /\ b \in Box /\ Becomes(AfterPages(State, c, page, b))
  BY Fields, BarsAreBoxes DEF Synchronized, Guard
<1>2. Good(AfterPages(State, c, page, b))
  BY <1>1, PagesIsGood
<1> QED
  BY <1>1, <1>2 DEF Lands

LEMMA UnsynchronizedLands == ASSUME Silent(State), NEW c \in Call, NEW thrown \in BOOLEAN, Unsynchronized(c, thrown) PROVE Lands
<1>1. (State.call[c].at = "sync" \/ (thrown /\ State.call[c].at = "refit")) /\ Becomes(AfterNoPages(State, c, thrown))
  BY Fields DEF Unsynchronized
<1>2. Good(AfterNoPages(State, c, thrown))
  BY <1>1, NoPagesIsGood
<1> QED
  BY <1>1, <1>2 DEF Lands

LEMMA RefitSizeLands == ASSUME Silent(State), NEW c \in Call, NEW ok \in BOOLEAN, RefitSize(c, ok) PROVE Lands
<1>1. State.call[c].at = "refit-size" /\ Becomes(AfterRefitSize(State, c, ok))
  BY Fields DEF RefitSize
<1>2. Good(AfterRefitSize(State, c, ok))
  BY <1>1, RefitSizeIsGood
<1> QED
  BY <1>1, <1>2 DEF Lands

LEMMA SettlesLands == ASSUME Silent(State), NEW c \in Call, Settles(c) PROVE Lands
<1>1. State.call[c].at = "synchronized" /\ Becomes(AfterSynchronized(State, c))
  BY Fields DEF Settles
<1>2. Good(AfterSynchronized(State, c))
  BY <1>1, SettlesIsGood
<1> QED
  BY <1>1, <1>2 DEF Lands

LEMMA SettledLands == ASSUME Silent(State), NEW c \in Call, Settled(c) PROVE Lands
<1>1. State.call[c].at = "settled" /\ Becomes(AfterSettled(State, c))
  BY Fields DEF Settled
<1>2. Good(AfterSettled(State, c))
  BY <1>1, SettledIsGood
<1> QED
  BY <1>1, <1>2 DEF Lands

-----------------------------------------------------------------------------
(* The steps of the keyboard and of the wheel *)

LEMMA ActsAreActions == ASSUME NEW act \in Act PROVE act \in Action
<1>1. CASE act \in [type : {"zoom"}, step : Step]
  <2>1. act = [type |-> act.type, step |-> act.step] /\ act.type = "zoom" /\ act.step \in Int
    BY <1>1, ViewAssumption
  <2> QED
    BY ONLY <2>1 DEF Action
<1>2. CASE act \in [type : {"custom", "fit-width", "fit-page"}, step : {0}]
  BY <1>2 DEF Action
<1> QED
  BY <1>1, <1>2 DEF Act

LEMMA RequestLands == ASSUME Silent(State), NEW act \in Act, Request(act) PROVE Lands
<1> DEFINE s == CancelKeyboardView(State)
           more == [State EXCEPT !.kb = MoreTyped(kb, act.step)]
           fast == IF s.committed.mode = "custom" THEN FastPath(s, act)
                   ELSE Answer(FastPath(s, act), "keyboard", s.committed.scale, TRUE)
           owner == Begin(ApplyKeyboardAction([s EXCEPT !.kb = KeyOwner(s, act)], act), KeyOwner(s, act).call, "keyboard")
<1>1. act \in Action /\ act.step \in Int /\ State.active
  BY ActsAreActions, Fields DEF Action, Request
<1>2. \/ State.kb.on /\ Becomes(more)
      \/ IsFast(s, act) /\ Becomes(fast)
      \/ Idle(s) # {} /\ Becomes(owner)
  BY Fields DEF Request
<1>3. Silent(s) /\ ~s.kb.on /\ s.active
  BY <1>1, CancelIsSilent
<1>4. more = [State EXCEPT !.kb = MoreTyped(State.kb, act.step)]
  BY Fields
<1>5. CASE State.kb.on /\ Becomes(more)
  <2> HIDE DEF more
  <2>1. Good(more)
    BY <1>1, <1>4, <1>5, MoreIsGood
  <2> QED
    BY <1>5, <2>1 DEF Lands
<1>6. CASE IsFast(s, act) /\ Becomes(fast)
  <2> DEFINE t == fast
  <2>1. t = IF s.committed.mode = "custom" THEN FastPath(s, act)
            ELSE Answer(FastPath(s, act), "keyboard", s.committed.scale, TRUE)
    OBVIOUS
  <2> HIDE DEF s
  <2> HIDE DEF fast
  <2> HIDE DEF t
  <2>2. Good(t)
    BY ONLY <1>1, <1>3, <1>6, <2>1, FastIsGood
  <2> QED
    BY <1>6, <2>2 DEF Lands, t
<1>7. CASE Idle(s) # {} /\ Becomes(owner)
  <2> DEFINE t == owner
  <2>1. t = Begin(ApplyKeyboardAction([s EXCEPT !.kb = KeyOwner(s, act)], act), KeyOwner(s, act).call, "keyboard")
    OBVIOUS
  <2> HIDE DEF s
  <2> HIDE DEF owner
  <2> HIDE DEF t
  <2>2. Good(t)
    BY ONLY <1>1, <1>3, <1>7, <2>1, OwnerIsGood
  <2> QED
    BY <1>7, <2>2 DEF Lands, t
<1> QED
  BY <1>2, <1>5, <1>6, <1>7

LEMMA ZoomAtLands == ASSUME Silent(State), NEW k \in Step, ZoomAt(k) PROVE Lands
<1> DEFINE s == CancelKeyboardView(State)
           target == clampReaderScale((IF s.wheel.on THEN s.wheel.target ELSE s.committed.scale) + k)
<1>1. Silent(s) /\ ~s.kb.on
  BY CancelIsSilent
<1>2. s \in States /\ Becomes(Zoomed(s, target))
  BY <1>1 DEF ZoomAt, Silent, Good
<1> HIDE DEF s
<1>3. s.wheel.target \in Scale /\ s.committed.scale \in Scale /\ k \in Int
  BY <1>2, ViewAssumption DEF States, WheelRecord, Committed
<1>4. target \in Scale
  BY <1>3, ScaleAssumption DEF clampReaderScale, Higher, Lower, Scale
<1> HIDE DEF target
<1>5. Good(Zoomed(s, target))
  BY <1>1, <1>4, ZoomedIsGood
<1> QED
  BY <1>2, <1>5 DEF Lands

LEMMA WheelStands ==
    ASSUME Silent(State)
    PROVE  (State.wheel.on <=> State.wheel.at # "none") /\ State.wheel.on = wheel.on /\ State.wheel.at = wheel.at
           /\ State.wheel.fresh = wheel.fresh
  BY InStates, Fields DEF Sound, Owners

LEMMA WheelRestartsLands == ASSUME Silent(State), WheelRestarts PROVE Lands
<1>1. State.wheel.on /\ Becomes(Iterate(State))
  BY Fields DEF WheelRestarts
<1>2. Good(Iterate(State))
  BY <1>1, RestartIsGood
<1> QED
  BY <1>1, <1>2 DEF Lands

LEMMA WheelDrawsLands == ASSUME Silent(State), NEW page \in BOOLEAN, NEW b \in Bars[box], WheelDraws(page, b) PROVE Lands
<1> DEFINE t == Drawn(IF page THEN Shows(State, shown.scale, shown.topology, b) ELSE State, shown)
<1>1. State.wheel.on /\ State.wheel.at = "anchor" /\ b \in Box /\ Becomes(t)
  BY Fields, WheelStands, BarsAreBoxes DEF WheelDraws
<1>2. t = Drawn(IF page THEN Shows(State, State.shown.scale, State.shown.topology, b) ELSE State, State.shown)
  BY Fields
<1> HIDE DEF t
<1>3. Good(t)
  BY <1>1, <1>2, DrawsIsGood
<1> QED
  BY <1>1, <1>3 DEF Lands

LEMMA WheelCommitsLands == ASSUME Silent(State), NEW b \in Bars[box], WheelCommits(b) PROVE Lands
<1> DEFINE t == [Shows(State, wheel.scale, "continuous", b) EXCEPT !.wheel.at = "settle"]
<1>1. State.wheel.on /\ State.wheel.at = "render" /\ State.wheel.fresh /\ b \in Box /\ Becomes(t)
  BY Fields, WheelStands, BarsAreBoxes DEF WheelCommits
<1>2. t = [Shows(State, State.wheel.scale, "continuous", b) EXCEPT !.wheel.at = "settle"]
  BY Fields
<1> HIDE DEF t
<1>3. Good(t)
  BY <1>1, <1>2, CommitsIsGood
<1> QED
  BY <1>1, <1>3 DEF Lands

LEMMA WheelSettlesLands == ASSUME Silent(State), NEW page \in BOOLEAN, NEW b \in Bars[box], WheelSettles(page, b) PROVE Lands
<1> DEFINE t == Answer(WheelEnds(Arrives(State, page, b)), "wheel", wheel.target, TRUE)
<1>1. State.wheel.on /\ State.wheel.at = "settle" /\ State.wheel.fresh /\ b \in Box /\ Becomes(t)
  BY Fields, WheelStands, BarsAreBoxes DEF WheelSettles
<1>2. t = Answer(WheelEnds(Arrives(State, page, b)), "wheel", State.wheel.target, TRUE)
  BY Fields
<1> HIDE DEF t
<1>3. Good(t)
  BY <1>1, <1>2, ArrivesIsGood
<1> QED
  BY <1>1, <1>3 DEF Lands

LEMMA WheelFailsLands == ASSUME Silent(State), WheelFails PROVE Lands
<1>1. \/ State.wheel.on /\ State.wheel.at = "anchor" /\ Becomes(WheelRestores(State))
      \/ State.wheel.on /\ State.wheel.at \in {"render", "settle"} /\ Becomes(WheelAt(State, "back"))
  BY Fields, WheelStands DEF WheelFails
<1>2. CASE State.wheel.on /\ State.wheel.at = "anchor" /\ Becomes(WheelRestores(State))
  <2>1. Good(WheelRestores(State))
    BY <1>2, FailsAtAnchorIsGood
  <2> QED
    BY <1>2, <2>1 DEF Lands
<1>3. CASE State.wheel.on /\ State.wheel.at \in {"render", "settle"} /\ Becomes(WheelAt(State, "back"))
  <2>1. Good(WheelAt(State, "back"))
    BY <1>3, BackIsGood
  <2> QED
    BY <1>3, <2>1 DEF Lands
<1> QED
  BY <1>1, <1>2, <1>3

LEMMA WheelBackLands == ASSUME Silent(State), NEW b \in Bars[box], WheelBack(b) PROVE Lands
<1> DEFINE t == WheelRestores(IF shown = wheel.was THEN State ELSE Shows(State, wheel.was.scale, wheel.was.topology, b))
<1>1. State.wheel.on /\ State.wheel.at = "back" /\ b \in Box /\ Becomes(t)
  BY Fields, WheelStands, BarsAreBoxes DEF WheelBack
<1>2. t = WheelRestores(IF State.shown = State.wheel.was THEN State
                        ELSE Shows(State, State.wheel.was.scale, State.wheel.was.topology, b))
  BY Fields
<1> HIDE DEF t
<1>3. Good(t)
  BY <1>1, <1>2, GoesBackIsGood
<1> QED
  BY <1>1, <1>3 DEF Lands

LEMMA WheelBackFailsLands == ASSUME Silent(State), WheelBackFails PROVE Lands
<1> DEFINE t == WheelRestores([State EXCEPT !.odd.broken = @ \/ shown # wheel.was])
<1>1. State.wheel.on /\ State.wheel.at = "back" /\ Becomes(t)
  BY Fields, WheelStands DEF WheelBackFails
<1>2. t = WheelRestores([State EXCEPT !.odd.broken = @ \/ State.shown # State.wheel.was])
  BY Fields
<1> HIDE DEF t
<1>3. Good(t)
  BY <1>1, <1>2, CannotGoBackIsGood
<1> QED
  BY <1>1, <1>3 DEF Lands

-----------------------------------------------------------------------------
(* The steps of scrolling, of sizes, of searches and of activity *)

LEMMA ScrollLands == ASSUME Silent(State), Scroll PROVE Lands
<1> DEFINE later == [State EXCEPT !.sync = [at |-> "deferred", live |-> TRUE]]
           now == Flush([State EXCEPT !.sync.at = "deferred"])
<1>1. State.active /\ ((Owned(State) /\ Becomes(later)) \/ Becomes(now))
  BY Fields DEF Scroll
<1>2. ASSUME Owned(State) PROVE Good(later)
  <2> DEFINE t == later
  <2>1. t = [State EXCEPT !.sync = [at |-> "deferred", live |-> TRUE]]
    OBVIOUS
  <2> HIDE DEF later
  <2> HIDE DEF t
  <2>2. Good(t)
    BY <1>1, <1>2, <2>1, DeferIsGood
  <2> QED
    BY <2>2 DEF t
<1>3. Good(now)
  <2> DEFINE t == now
  <2>1. t = Flush([State EXCEPT !.sync.at = "deferred"])
    OBVIOUS
  <2> HIDE DEF now
  <2> HIDE DEF t
  <2>2. Good(t)
    BY <2>1, ScrollIsGood
  <2> QED
    BY <2>2 DEF t
<1> HIDE DEF later
<1> HIDE DEF now
<1> QED
  BY <1>1, <1>2, <1>3 DEF Lands

LEMMA PassiveLands ==
    ASSUME Silent(State), NEW b \in Bars[box], NEW page \in BOOLEAN, NEW ok \in BOOLEAN, NEW thrown \in BOOLEAN,
           PassiveEnds(page, b, ok, thrown)
    PROVE  Lands
<1> DEFINE t == [Passed(State, page, b, ok, thrown) EXCEPT !.sync = [at |-> "none", live |-> FALSE]]
<1>1. (page => ok) /\ (ok => PassiveOf(State)) /\ b \in Box /\ Becomes(t)
  BY BarsAreBoxes DEF PassiveEnds
<1>2. t = [Passed(State, page, b, ok, thrown) EXCEPT !.sync = [at |-> "none", live |-> FALSE]]
  OBVIOUS
<1> HIDE DEF t
<1>3. Good(t)
  BY <1>1, <1>2, PassedIsGood
<1> QED
  BY <1>1, <1>3 DEF Lands

LEMMA OuterLands == ASSUME Silent(State), NEW b \in Box, Outer(b) PROVE Lands
<1> DEFINE z == resize \cup {"new"}
<1>1. Becomes(SizeSet(State, b, z))
  BY DEF Outer
<1>2. z \in SUBSET {"new", "frame"} /\ "new" \in z
  BY InStates, Fields DEF States
<1> HIDE DEF z
<1>3. Good(SizeSet(State, b, z))
  BY <1>2, SizeIsGood DEF Silent
<1> QED
  BY <1>1, <1>3 DEF Lands

LEMMA NoticeLands == ASSUME Silent(State), Notice PROVE Lands
<1>1. Good(Noticed(State))
  BY NoticedIsGood
<1> QED
  BY <1>1 DEF Notice, Lands

LEMMA FrameLands == ASSUME Silent(State), Frame PROVE Lands
<1> DEFINE u == [State EXCEPT !.resize = resize \ {"frame"}]
           t == IF active THEN Begin(u, Unused(u), "frame") ELSE u
<1>1. Idle(State) # {} /\ Becomes(t)
  BY DEF Frame
<1>2. u = [State EXCEPT !.resize = State.resize \ {"frame"}]
  BY Fields
<1> HIDE DEF u
<1>3. t = IF State.active THEN Begin(u, Unused(u), "frame") ELSE u
  BY Fields
<1> HIDE DEF t
<1>4. Good(t)
  BY <1>1, <1>2, <1>3, FrameIsGood
<1> QED
  BY <1>1, <1>4 DEF Lands

LEMMA SearchLands == ASSUME Silent(State), Search PROVE Lands
<1>1. Good(Navigated(CancelKeyboardView(CancelWheelZoom(State))))
  BY SearchIsGood
<1> QED
  BY <1>1 DEF Search, Lands

LEMMA DeactivateLands == ASSUME Silent(State), Deactivate PROVE Lands
<1>1. Silent(CancelWheelZoom(State))
  BY CancelWheelIsSilent
<1>2. Good(Deactivated(CancelWheelZoom(State)))
  BY <1>1, DeactivatedIsGood DEF Silent, Good
<1> QED
  BY <1>2 DEF Deactivate, Lands

LEMMA ActivateLands == ASSUME Silent(State), Activate PROVE Lands
<1> DEFINE t == [State EXCEPT !.active = TRUE, !.restore = "due"]
<1>1. Becomes(t) /\ t = [State EXCEPT !.active = TRUE, !.restore = "due"]
  BY DEF Activate
<1> HIDE DEF t
<1>2. Good(t)
  BY <1>1, ActivateIsGood
<1> QED
  BY <1>1, <1>2 DEF Lands

LEMMA RestoreBeginsLands == ASSUME Silent(State), RestoreBegins PROVE Lands
<1> DEFINE t == IF dirty \/ committed.box # box THEN Begin(RestoreAt(State, "first"), Unused(State), "restore")
                ELSE RestoreAt(State, "none")
<1>1. State.restore = "due" /\ Idle(State) # {} /\ Becomes(t)
  BY Fields DEF RestoreBegins
<1>2. t = IF State.dirty \/ State.committed.box # State.box THEN Begin(RestoreAt(State, "first"), Unused(State), "restore")
          ELSE RestoreAt(State, "none")
  BY Fields
<1> HIDE DEF t
<1>3. Good(t)
  BY <1>1, <1>2, RestoreBeginsIsGood
<1> QED
  BY <1>1, <1>3 DEF Lands

-----------------------------------------------------------------------------
(* The invariant holds *)

\* The state, with the answer that was given last.
Now == [State EXCEPT !.said = said]
IInv == Good(Now) /\ events \in 0..MaxEvents

LEMMA BecomesNow == ASSUME NEW x \in States, Becomes(x) PROVE Now' = x
  BY DEF Becomes, Now, State, States

LEMMA SilentNow == ASSUME Good(Now) PROVE Silent(State)
<1> DEFINE n == Now
<1>1. n \in States /\ Sound(n) /\ DeferredIsAwaited(n)
  BY DEF Good
<1>2. NothingSaid \in [by : {"none", "keyboard", "wheel"}, goal : Scale, zoomed : BOOLEAN, got : View]
  BY ScaleAssumption DEF NothingSaid, Of, NoCommit, View, Mode, Scale
<1>3. State.said = NothingSaid
  BY DEF State
<1>4. State = [n EXCEPT !.said = NothingSaid]
  <2>1. n = [State EXCEPT !.said = said]
    BY DEF Now
  <2>2. State = [State EXCEPT !.said = NothingSaid]
    BY <1>3 DEF State
  <2> QED
    BY <2>1, <2>2
<1> HIDE DEF n
<1>5. State \in States
  BY <1>1, <1>2, <1>4 DEF States
<1>6. Unmoved(n, State) /\ State.call = n.call /\ State.rollback = n.rollback /\ State.sync = n.sync
  BY <1>1, <1>4 DEF States, Unmoved
<1>7. Sound(State)
  BY <1>1, <1>6, SameIsSound
<1>8. DeferredIsAwaited(State)
  BY <1>1, <1>6 DEF DeferredIsAwaited, Owned, Idle, Unmoved
<1> QED
  BY <1>3, <1>5, <1>7, <1>8 DEF Silent, Good, Told, NothingSaid

LEMMA LandsWell == ASSUME Lands, events' \in 0..MaxEvents PROVE IInv'
<1>1. PICK x : Good(x) /\ Becomes(x)
  BY DEF Lands
<1>2. Now' = x
  BY <1>1, BecomesNow DEF Good
<1> QED
  BY <1>1, <1>2 DEF IInv

LEMMA AskedLands == ASSUME Silent(State), Asked, events \in 0..MaxEvents PROVE Lands /\ events + 1 \in 0..MaxEvents
<1>1. events < MaxEvents
  BY DEF Asked, Request, ZoomAt, Scroll, Search, Deactivate, Activate, Outer
<1>2. events + 1 \in 0..MaxEvents
  BY <1>1, ViewAssumption
<1>3. Lands
  BY RequestLands, ZoomAtLands, ScrollLands, SearchLands, DeactivateLands, ActivateLands, OuterLands DEF Asked
<1> QED
  BY <1>2, <1>3

LEMMA RenderLands == ASSUME Silent(State), NEW c \in Call, Render(c) PROVE Lands
  BY TransformLands, MeasureLands, RefitSizeLands, UnsynchronizedLands, RefusedLands, CommitLands, SynchronizedLands DEF Render

LEMMA WheelLands == ASSUME Silent(State), Wheel PROVE Lands
  BY WheelRestartsLands, WheelFailsLands, WheelBackFailsLands, WheelCommitsLands, WheelBackLands, WheelDrawsLands,
     WheelSettlesLands DEF Wheel

LEMMA ScheduledLands == ASSUME Silent(State), Scheduled PROVE Lands
  BY WheelLands, NoticeLands, FrameLands, RestoreBeginsLands, RenderLands, PassiveLands DEF Scheduled

LEMMA ContinueLands == ASSUME Silent(State), NEW c \in Call, Continue(c) PROVE Lands
  BY RenderedLands, UndoneLands, SettlesLands, SettledLands DEF Continue

LEMMA NextIsInductive == ASSUME IInv, [Next]_vars PROVE IInv'
<1>1. Silent(State) /\ events \in 0..MaxEvents
  BY SilentNow DEF IInv
<1>2. CASE UNCHANGED vars
  <2>1. Now' = Now /\ events' = events
    BY <1>2 DEF vars, Now, State
  <2> QED
    BY <2>1 DEF IInv
<1>3. ASSUME NEW c \in Going, Continue(c), UNCHANGED events PROVE IInv'
  BY <1>1, <1>3, ContinueLands, LandsWell DEF Going
<1>4. ASSUME Asked, events' = events + 1 PROVE IInv'
  BY <1>1, <1>4, AskedLands, LandsWell
<1>5. ASSUME Scheduled, UNCHANGED events PROVE IInv'
  BY <1>1, <1>5, ScheduledLands, LandsWell
<1> QED
  BY <1>2, <1>3, <1>4, <1>5 DEF Next

\* The first view is the one that was committed and that is shown, and nothing is under way.
LEMMA InitIsGood == ASSUME Init PROVE IInv
<1> DEFINE n == Now
<1>1. PICK mode \in Mode, scale \in Scale :
        /\ view = [mode |-> mode, scale |-> scale]
        /\ committed = [mode |-> mode, scale |-> scale, box |-> box]
        /\ shown = [scale |-> scale, topology |-> TopologyOf(mode)]
  BY DEF Init
<1>2. /\ n.view = view /\ n.committed = committed /\ n.shown = shown /\ n.box = box /\ n.resize = {} /\ n.active = TRUE
      /\ n.restore = "none" /\ n.kb = NoKey /\ n.wheel = NoWheel /\ n.rollback = NoRollback
      /\ n.call = [c \in Call |-> IdleCall] /\ n.latest = "none" /\ n.viewport = "none"
      /\ n.sync = [at |-> "none", live |-> FALSE] /\ n.dirty = FALSE /\ n.said = NothingSaid /\ n.odd = Even
  BY DEF Init, Now, State
<1>3. n \in States
  <2>1. box \in Box /\ events = 0
    BY DEF Init
  <2>2. /\ view \in View /\ committed \in Committed /\ shown \in [scale : Scale, topology : Topology]
    BY <1>1, <2>1 DEF View, Committed, Topology, TopologyOf
  <2>3. NoCommit \in Committed /\ Of(NoCommit) \in View /\ NoCommit.box \in Box
    BY <2>1, ScaleAssumption DEF NoCommit, Committed, Of, View, Mode, Scale
  <2>4. IdleCall \in CallRecord
    BY <2>3, ScaleAssumption DEF IdleCall, CallRecord, Stages, Topology, Scale
  <2>5. NoKey \in KeyRecord
    BY EmptySummary, ScaleAssumption, ViewAssumption DEF NoKey, KeyRecord, Scale
  <2>6. NoWheel \in WheelRecord
    BY <2>3, ScaleAssumption DEF NoWheel, WheelRecord, Topology, Scale
  <2>7. NoRollback \in [on : BOOLEAN, fresh : BOOLEAN, to : View]
    BY <2>3 DEF NoRollback
  <2>8. NothingSaid \in [by : {"none", "keyboard", "wheel"}, goal : Scale, zoomed : BOOLEAN, got : View]
    BY <2>3, ScaleAssumption DEF NothingSaid, Scale
  <2>9. Even \in [broken : BOOLEAN, kept : BOOLEAN, both : BOOLEAN, moved : BOOLEAN]
    BY DEF Even
  <2>10. n = [view |-> n.view, committed |-> n.committed, shown |-> n.shown, box |-> n.box, resize |-> n.resize,
              active |-> n.active, restore |-> n.restore, kb |-> n.kb, wheel |-> n.wheel, rollback |-> n.rollback,
              call |-> n.call, latest |-> n.latest, viewport |-> n.viewport, sync |-> n.sync, dirty |-> n.dirty,
              said |-> n.said, odd |-> n.odd]
    <3>1. State = [view |-> State.view, committed |-> State.committed, shown |-> State.shown, box |-> State.box,
                   resize |-> State.resize, active |-> State.active, restore |-> State.restore, kb |-> State.kb,
                   wheel |-> State.wheel, rollback |-> State.rollback, call |-> State.call, latest |-> State.latest,
                   viewport |-> State.viewport, sync |-> State.sync, dirty |-> State.dirty, said |-> State.said,
                   odd |-> State.odd]
      BY DEF State
    <3> QED
      BY <3>1 DEF Now
  <2> HIDE DEF n
  <2>11. /\ n.view \in View /\ n.committed \in Committed /\ n.shown \in [scale : Scale, topology : Topology]
         /\ n.box \in Box /\ n.kb \in KeyRecord /\ n.wheel \in WheelRecord
         /\ n.rollback \in [on : BOOLEAN, fresh : BOOLEAN, to : View]
    BY ONLY <1>2, <2>1, <2>2, <2>5, <2>6, <2>7
  <2>12. /\ n.resize \in SUBSET {"new", "frame"} /\ n.restore \in {"none", "due", "first", "second"}
         /\ n.latest \in {"none", "sync", "wheel"} \cup Call /\ n.viewport \in {"none", "sync"} \cup Call
         /\ n.sync \in [at : {"none", "deferred", "running"}, live : BOOLEAN]
    BY ONLY <1>2
  <2>13. n.call \in [Call -> CallRecord]
    BY ONLY <1>2, <2>4
  <2>14. n.active \in BOOLEAN /\ n.dirty \in BOOLEAN
    BY ONLY <1>2
  <2>15. /\ n.said \in [by : {"none", "keyboard", "wheel"}, goal : Scale, zoomed : BOOLEAN, got : View]
         /\ n.odd \in [broken : BOOLEAN, kept : BOOLEAN, both : BOOLEAN, moved : BOOLEAN]
    BY ONLY <1>2, <2>8, <2>9
  <2> QED
    BY ONLY <2>10, <2>11, <2>12, <2>13, <2>14, <2>15 DEF States
<1> HIDE DEF n
<1>4. Owners(n)
  BY <1>2 DEF Owners, NoWheel, NoKey, IdleCall
<1>5. Presentation(n)
  <2>1. n.view.mode = n.committed.mode /\ n.view.scale = n.committed.scale /\ n.shown.scale = n.committed.scale
    BY <1>1, <1>2
  <2>2. Displayed(n)
    BY <1>2, <2>1 DEF Displayed, NoWheel
  <2>3. Wanted(n)
    BY <1>2, <2>1 DEF Wanted, Agrees, NoRollback
  <2>4. Alone(n) /\ \A c \in Call : Rendering(n, c)
    BY <1>2 DEF Alone, Rendering, IdleCall
  <2> QED
    BY <2>2, <2>3, <2>4 DEF Presentation
<1>6. Answers(n)
  BY <1>2 DEF Answers, Typing, FittingPage, NoKey
<1>7. DeferredIsAwaited(n) /\ Told(n)
  BY <1>2 DEF DeferredIsAwaited, Told, NothingSaid
<1>8. events \in 0..MaxEvents
  BY ViewAssumption DEF Init
<1> QED
  BY <1>3, <1>4, <1>5, <1>6, <1>7, <1>8 DEF IInv, Good, Sound, n

-----------------------------------------------------------------------------
(* The theorems *)

LEMMA InvariantHolds == Spec => []IInv
<1>1. Init => IInv
  BY InitIsGood
<1>2. IInv /\ [Next]_vars => IInv'
  BY NextIsInductive
<1> QED
  BY <1>1, <1>2, PTL DEF Spec

LEMMA NowFields ==
    /\ Now.view = view /\ Now.committed = committed /\ Now.shown = shown /\ Now.kb = kb /\ Now.wheel = wheel
    /\ Now.active = active /\ Now.rollback = rollback /\ Now.call = call /\ Now.sync = sync /\ Now.dirty = dirty
    /\ Now.said = said /\ Now.odd = odd
  BY DEF Now, State

LEMMA NowIsTyped == IInv => TypeOK
  BY DEF IInv, Good, Now, TypeOK

LEMMA NowIsAwaited == IInv => DeferredIsOwned
  BY NowFields, Fields DEF IInv, Good, DeferredIsAwaited, DeferredIsOwned, Owned, Idle

LEMMA NowIsSound == IInv => PresentationIsSound
<1> SUFFICES ASSUME IInv, ~odd.broken, ~odd.both
             PROVE  /\ shown.scale = committed.scale
                    /\ Quiet /\ ~dirty => /\ view.mode = committed.mode \/ odd.kept
                                          /\ view.mode = "custom" /\ ~odd.moved => view.scale = committed.scale
  BY DEF PresentationIsSound, Reported
<1>1. Displayed(Now) /\ Wanted(Now)
  BY NowFields DEF IInv, Good, Sound, Fine, Presentation
<1>2. shown.scale = committed.scale
  BY <1>1, NowFields DEF Displayed
<1>3. Quiet => ~Pending(Now)
  BY NowFields, Fields DEF Quiet, Pending, Owned
<1> QED
  BY <1>1, <1>2, <1>3, NowFields DEF Wanted, Agrees

LEMMA NowIsTrue == IInv => AnswersAreTrue
  BY NowFields DEF IInv, Good, Told, Fine, AnswersAreTrue, Reported

\* Every handler leaves every variable with values of the kinds that its comment names.
THEOREM ViewTyped == Spec => []TypeOK
  BY InvariantHolds, NowIsTyped, PTL

\* A scroll that was deferred waits for an owner of the view that is at work, in a tab that is in the foreground:
\* whichever of them ends, and however, flushes it (flushDeferredViewportSynchronization).
THEOREM ScrollIsAwaited == Spec => []DeferredIsOwned
  BY InvariantHolds, NowIsAwaited, PTL

\* The scale that is displayed is the one that was reported as committed; and once nothing is under way, the view that
\* the reader wants is the one that was committed, for any number of renderings, sizes, scales and bounds of the zoom.
THEOREM ViewIsPresented == Spec => []PresentationIsSound
  BY InvariantHolds, NowIsSound, PTL

\* A zoom of the keyboard or of the wheel that is answered with success has committed the scale that all of its steps
\* lead to, however many were typed while it rendered (drainKeyboardView, drainWheelZoom).
THEOREM ZoomIsAnsweredTruly == Spec => []AnswersAreTrue
  BY InvariantHolds, NowIsTrue, PTL
====
