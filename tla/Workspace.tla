------------------------------ MODULE Workspace ------------------------------
(***************************************************************************)
(* The tabs of one window and everything that rearranges them: the ordered *)
(* tabs and the selected one (core/TabWorkspace.ts), the queue that runs   *)
(* one transition at a time (application/WorkspaceTransitionQueue.ts), the *)
(* switch, the close, and the adoption of a document the native side hands *)
(* over, with its rollback (main.ts).                                      *)
(*                                                                         *)
(* JavaScript runs one callback at a time, so an action is the code from   *)
(* one await to the next.  What is awaited is a session settling, and it   *)
(* may settle badly; the answer of the native side to an acknowledgement   *)
(* or a rejection; or nothing but the end of the transition before.        *)
(***************************************************************************)
EXTENDS Naturals, FiniteSets, SequencesExt

CONSTANTS
    Requests,           \* open requests the native side may send: 1..n, in order
    MaxCloses,          \* bound: tabs the user closes
    MaximumTabs,        \* MAX_TAB_COUNT
    NormalLimit,        \* WORKSPACE_QUEUE_LIMIT for closes
    OwnershipLimit,     \* WORKSPACE_QUEUE_LIMIT for adoptions and their settling
    Conditions          \* what the environment may do: see Condition

\* A session may fail to activate, deactivate or open; the native side may refuse an
\* acknowledgement; the user may switch and close while an open is under way.
Condition == [sessionsMayFail : BOOLEAN, ackMayFail : BOOLEAN, userActsDuringOpen : BOOLEAN]

WorkspaceAssumption ==
    /\ IsFiniteSet(Requests) /\ Requests = 1..Cardinality(Requests)
    /\ MaximumTabs \in Nat \ {0}
    /\ NormalLimit \in Nat \ {0} /\ OwnershipLimit \in Nat \ {0}
    /\ MaxCloses \in Nat
    /\ Conditions \subseteq Condition /\ Conditions # {}

VARIABLES
    workspace,  \* tabs in order, the selected one, the next id
    queue,      \* transitions waiting, first in first out
    run,        \* the transition under way and what it awaits
    requests,   \* what the open-request client knows of each request
    adoptions,  \* pendingOpenAdoptions: what a refusal would have to undo
    closes,     \* tabs the user asked to close so far
    conditions  \* what the environment may do in this behaviour

vars == <<workspace, queue, run, requests, adoptions, closes, conditions>>

Nothing == 0
Sessions == {"inactive", "activating", "active", "quarantined"}
Foreground == {"activating", "active"}
Ops == {"switch", "next", "previous", "close", "adopt", "accept", "rollback"}
Awaits == {"start", "leaving", "entering", "opening", "presenting", "undone", "last"}

Item(op, tab, prior, req) == [op |-> op, tab |-> tab, prior |-> prior, req |-> req]
Running(item, await) == [op |-> item.op, tab |-> item.tab, prior |-> item.prior, req |-> item.req, await |-> await]
NoRun == Running(Item("close", Nothing, Nothing, Nothing), "last")

NoAdoption == [id |-> Nothing, priorActiveId |-> Nothing, pending |-> FALSE]
Adoption(id, prior) == [id |-> id, priorActiveId |-> prior, pending |-> TRUE]

-----------------------------------------------------------------------------
(* TabWorkspace *)

NewTab(w, staged, prior) ==
    [id |-> w.nextId, doc |-> Nothing, session |-> "inactive", staged |-> staged, previousActiveId |-> prior]

FindTabIndex(w, id) == SelectInSeq(w.tabs, LAMBDA tab : tab.id = id)
Has(w, id) == FindTabIndex(w, id) # 0
TabOf(w, id) == w.tabs[FindTabIndex(w, id)]
WithTab(w, id, tab) == [w EXCEPT !.tabs[FindTabIndex(w, id)] = tab]
WithSession(w, id, s) == WithTab(w, id, [TabOf(w, id) EXCEPT !.session = s])

AppendAndSelect(w, staged, prior) ==
    [tabs |-> Append(w.tabs, NewTab(w, staged, prior)), activeId |-> w.nextId, nextId |-> w.nextId + 1]

Select(w, id) == IF Has(w, id) THEN [w EXCEPT !.activeId = id] ELSE w

StageAdoption(w) == AppendAndSelect(w, TRUE, w.activeId)
\* Mutant: the adopted tab stays staged.
CommitAdoptionForgotten(w, id) == w
CommitAdoption(w, id) == WithTab(w, id, [TabOf(w, id) EXCEPT !.staged = FALSE])

Without(w, id) == [w EXCEPT !.tabs = RemoveAt(@, FindTabIndex(w, id))]

\* Mutant: an empty tab is made whenever the right neighbour is missing.
SelectAfterRemovalAddsEmpty(w, index, preferred) ==
    IF Has(w, preferred) THEN Select(w, preferred)
    ELSE IF index > Len(w.tabs) THEN AppendAndSelect(w, FALSE, Nothing)
    ELSE Select(w, w.tabs[index].id)

\* The right neighbour, else the left one, else a new empty tab.
SelectAfterRemoval(w, index, preferred) ==
    IF Has(w, preferred) THEN Select(w, preferred)
    ELSE IF w.tabs = <<>> THEN AppendAndSelect(w, FALSE, Nothing)
    ELSE Select(w, w.tabs[IF index <= Len(w.tabs) THEN index ELSE index - 1].id)

RollbackAdoption(w, id) ==
    SelectAfterRemoval(Without(w, id), FindTabIndex(w, id), TabOf(w, id).previousActiveId)

Close(w, id) ==
    IF ~Has(w, id) THEN w
    ELSE IF w.activeId = id THEN SelectAfterRemoval(Without(w, id), FindTabIndex(w, id), Nothing)
    ELSE Without(w, id)

AdjacentId(w, step) ==
    LET n == Len(w.tabs) IN w.tabs[((FindTabIndex(w, w.activeId) - 1 + step + n) % n) + 1].id

\* rollbackOpenAdoptionOwnership
\* Mutant: a refused document stays in its tab.
RollbackOwnershipKeeps(w, id, prior) == Select(w, prior)
\* Mutant: the rollback closes whatever tab is selected when it runs.
RollbackOwnershipOfSelected(w, id, prior) == Select(Close(w, w.activeId), prior)
RollbackOwnership(w, id, prior) ==
    IF prior # id THEN Select(Close(w, id), prior) ELSE Close(w, id)

-----------------------------------------------------------------------------
(* PdfTabSession: how activate() and deactivate() begin and how they settle *)

ActivateCurrent(w) ==
    IF TabOf(w, w.activeId).session = "inactive" THEN WithSession(w, w.activeId, "activating") ELSE w

Settled(w, good, bad) == {[ok |-> TRUE, w |-> good]} \cup IF conditions.sessionsMayFail THEN bad ELSE {}
Failed(w) == [ok |-> FALSE, w |-> w]

\* A tab that was already active may fail to settle its opening fit and stays active.
ActivationOutcomes(w) ==
    LET id == w.activeId IN
    CASE TabOf(w, id).session = "quarantined" -> {Failed(w)}
      [] TabOf(w, id).session = "active"      -> Settled(w, w, {Failed(w)})
      [] OTHER -> Settled(w, WithSession(w, id, "active"),
                          {Failed(WithSession(w, id, s)) : s \in {"inactive", "quarantined"}})

DeactivationOutcomes(w, id) ==
    IF TabOf(w, id).session = "quarantined" THEN {Failed(w)}
    ELSE Settled(w, WithSession(w, id, "inactive"), {Failed(WithSession(w, id, "quarantined"))})

-----------------------------------------------------------------------------
(* WorkspaceTransitionQueue *)

Kind(op) ==
    CASE op \in {"switch", "next", "previous"} -> "activation"
      [] op = "close" -> "normal"
      [] OTHER -> "ownership"

KindLimit(kind) == IF kind = "normal" THEN NormalLimit ELSE OwnershipLimit
Count(kind) == Cardinality({i \in DOMAIN queue : Kind(queue[i].op) = kind})
Full(kind) == kind # "activation" /\ Count(kind) >= KindLimit(kind)

\* An idle queue hands the item over at once; an activation replaces the one it follows.
Coalesces(item) == queue # <<>> /\ Kind(item.op) = "activation" /\ Kind(Last(queue).op) = "activation"

Enqueue(item) ==
    IF run = NoRun THEN run' = Running(item, "start") /\ UNCHANGED queue
    ELSE /\ UNCHANGED run
         /\ queue' = IF Coalesces(item) THEN Append(Front(queue), item)
                     ELSE IF Full(Kind(item.op)) THEN queue ELSE Append(queue, item)

\* Mutant: the queue serves the newest transition first.
DoneNewestFirst ==
    IF queue = <<>> THEN run' = NoRun /\ UNCHANGED queue
    ELSE run' = Running(Last(queue), "start") /\ queue' = Front(queue)

Done ==
    IF queue = <<>> THEN run' = NoRun /\ UNCHANGED queue
    ELSE run' = Running(Head(queue), "start") /\ queue' = Tail(queue)

Await(r, await) == run' = [r EXCEPT !.await = await] /\ UNCHANGED queue

\* activateCurrentTab() is called on the workspace as it has become, and awaited.
ActivateThen(w, r, await) == workspace' = ActivateCurrent(w) /\ Await(r, await)

-----------------------------------------------------------------------------
(* The user *)

OpenUnderWay ==
    \/ \E r \in Requests : requests[r] \in {"adopting", "ack", "reject"}
    \/ run.op \in {"accept", "rollback"} \/ \E i \in DOMAIN queue : Kind(queue[i].op) = "ownership"

UserMayAct == conditions.userActsDuringOpen \/ ~OpenUnderWay

SwitchTab(id) ==
    /\ UserMayAct /\ Has(workspace, id)
    /\ Enqueue(Item("switch", id, Nothing, Nothing))
    /\ UNCHANGED <<workspace, requests, adoptions, closes>>

SwitchAdjacentTab(op) ==
    /\ UserMayAct
    /\ Enqueue(Item(op, Nothing, Nothing, Nothing))
    /\ UNCHANGED <<workspace, requests, adoptions, closes>>

CloseTab(id) ==
    /\ UserMayAct /\ Has(workspace, id) /\ closes < MaxCloses
    /\ Enqueue(Item("close", id, Nothing, Nothing))
    /\ closes' = closes + 1
    /\ UNCHANGED <<workspace, requests, adoptions>>

-----------------------------------------------------------------------------
(* performTabActivation: leave the prior tab, select, enter the target; if *)
(* it cannot be entered, go back.                                          *)

SwitchTarget ==
    CASE run.op = "next" -> AdjacentId(workspace, 1)
      [] run.op = "previous" -> AdjacentId(workspace, Len(workspace.tabs) - 1)
      [] OTHER -> run.tab

Switching == Kind(run.op) = "activation"

SwitchStarts ==
    /\ run.await = "start" /\ Switching
    /\ LET prior == workspace.activeId
           r == [run EXCEPT !.tab = SwitchTarget, !.prior = prior]
       IN IF r.tab # prior THEN Await(r, "leaving") /\ UNCHANGED workspace
          ELSE IF TabOf(workspace, prior).session = "active" THEN Done /\ UNCHANGED workspace
          ELSE ActivateThen(workspace, r, "last")
    /\ UNCHANGED <<requests, adoptions, closes>>

PriorLeft ==
    /\ run.await = "leaving" /\ Switching
    /\ \E out \in DeactivationOutcomes(workspace, run.prior) :
          IF ~out.ok THEN Done /\ workspace' = out.w
          ELSE ActivateThen(Select(out.w, run.tab), run, IF Has(out.w, run.tab) THEN "entering" ELSE "last")
    /\ UNCHANGED <<requests, adoptions, closes>>

TargetEntered ==
    /\ run.await = "entering" /\ Switching
    /\ \E out \in ActivationOutcomes(workspace) :
          IF out.ok THEN Done /\ workspace' = out.w
          ELSE ActivateThen(Select(out.w, run.prior), run, "last")
    /\ UNCHANGED <<requests, adoptions, closes>>

\* performTabClose
\* Mutant: the successor of a closed tab is selected but never activated.
CloseWithoutActivating ==
    /\ run.await = "start" /\ run.op = "close"
    /\ Done /\ workspace' = Close(workspace, run.tab)
    /\ UNCHANGED <<requests, adoptions, closes>>

CloseStarts ==
    /\ run.await = "start" /\ run.op = "close"
    /\ IF Has(workspace, run.tab) /\ workspace.activeId = run.tab
       THEN ActivateThen(Close(workspace, run.tab), run, "last")
       ELSE Done /\ workspace' = Close(workspace, run.tab)
    /\ UNCHANGED <<requests, adoptions, closes>>

\* What is left to await decides nothing: the transition is over either way.
LastActivationEnds ==
    /\ run # NoRun /\ run.await = "last"
    /\ \E out \in ActivationOutcomes(workspace) : workspace' = out.w
    /\ Done
    /\ UNCHANGED <<requests, adoptions, closes>>

-----------------------------------------------------------------------------
(* adoptRequest, run as an ownership transition *)

AdoptionFails(w) ==
    /\ workspace' = w
    /\ adoptions' = [adoptions EXCEPT ![run.req] = NoAdoption]
    /\ requests' = [requests EXCEPT ![run.req] = "reject"]
    /\ Done

AtCapacity(w) == Len(w.tabs) >= MaximumTabs

\* An empty tab is reused.  The code also looks for one that is not selected, but
\* there is none: an empty tab has no neighbours (EmptyIsAlone).
AdoptStarts ==
    /\ run.await = "start" /\ run.op = "adopt"
    /\ LET prior == workspace.activeId
           r(tab) == [run EXCEPT !.tab = tab, !.prior = prior]
       IN IF TabOf(workspace, prior).doc # Nothing
          THEN Await(r(Nothing), "leaving") /\ UNCHANGED <<workspace, adoptions>>
          ELSE /\ ActivateThen(workspace, r(prior), "entering")
               /\ adoptions' = [adoptions EXCEPT ![run.req] = Adoption(prior, prior)]
    /\ UNCHANGED <<requests, closes>>

\* With the prior tab left, the document gets a new, staged one.
AdoptLeft ==
    /\ run.await = "leaving" /\ run.op = "adopt"
    /\ UNCHANGED closes
    /\ \E out \in DeactivationOutcomes(workspace, run.prior) :
          \/ ~out.ok /\ AdoptionFails(out.w)
          \/ /\ out.ok /\ AtCapacity(out.w)
             /\ ActivateThen(out.w, run, "undone")
             /\ UNCHANGED <<requests, adoptions>>
          \/ /\ out.ok /\ ~AtCapacity(out.w)
             /\ LET w == StageAdoption(out.w)
                IN /\ ActivateThen(w, [run EXCEPT !.tab = w.activeId], "entering")
                   /\ adoptions' = [adoptions EXCEPT ![run.req] = Adoption(w.activeId, run.prior)]
             /\ UNCHANGED requests

\* Mutant: the prior tab is selected again and the staged one is left where it is.
UndoKeepsStaged(w) ==
    /\ adoptions' = [adoptions EXCEPT ![run.req] = NoAdoption]
    /\ UNCHANGED requests
    /\ ActivateThen(Select(w, run.prior), run, "undone")

Undo(w) ==
    /\ adoptions' = [adoptions EXCEPT ![run.req] = NoAdoption]
    /\ UNCHANGED requests
    /\ ActivateThen(IF TabOf(w, run.tab).staged THEN RollbackAdoption(w, run.tab) ELSE w, run, "undone")

AdoptEntered ==
    /\ run.await = "entering" /\ run.op = "adopt"
    /\ UNCHANGED closes
    /\ \E out \in ActivationOutcomes(workspace) :
          IF out.ok THEN Await(run, "opening") /\ workspace' = out.w /\ UNCHANGED <<requests, adoptions>>
          ELSE Undo(out.w)

\* The document is open and rendered: a staged tab is committed before it is presented.
DocumentOpened ==
    /\ run.await = "opening"
    /\ UNCHANGED closes
    /\ \/ /\ LET w == WithTab(workspace, run.tab, [TabOf(workspace, run.tab) EXCEPT !.doc = run.req])
             IN ActivateThen(CommitAdoption(w, run.tab), run, "presenting")
          /\ UNCHANGED <<requests, adoptions>>
       \/ conditions.sessionsMayFail /\ Undo(workspace)

\* A presentation that fails leaves the adoption recorded: its rejection rolls it back.
Presented ==
    /\ run.await = "presenting"
    /\ \E out \in ActivationOutcomes(workspace) :
          /\ workspace' = out.w
          /\ requests' = [requests EXCEPT ![run.req] = IF out.ok THEN "ack" ELSE "reject"]
    /\ Done
    /\ UNCHANGED <<adoptions, closes>>

AdoptUndone ==
    /\ run.await = "undone"
    /\ \E out \in ActivationOutcomes(workspace) : AdoptionFails(out.w)
    /\ UNCHANGED closes

\* handleOpenTerminal: the settling of an adoption, run as an ownership transition.
SettleStarts ==
    /\ run.await = "start" /\ run.op \in {"accept", "rollback"}
    /\ ActivateThen(IF run.op = "accept" THEN workspace
                    ELSE RollbackOwnership(workspace, run.tab, run.prior), run, "last")
    /\ UNCHANGED <<requests, adoptions, closes>>

-----------------------------------------------------------------------------
(* The open-request client hands over one request at a time, and reports   *)
(* to handleOpenTerminal when the native side has answered.                *)

\* Mutant: a request that still awaits the native answer does not hold up the next.
InFlightAdopting == {r \in Requests : requests[r] = "adopting"}
InFlight == {r \in Requests : requests[r] \in {"adopting", "ack", "reject"}}
Unseen == {r \in Requests : requests[r] = "queued"}

Adopt(r) ==
    /\ InFlight = {} /\ r \in Unseen /\ \A other \in Unseen : r <= other
    /\ IF run # NoRun /\ Full("ownership")
       THEN /\ requests' = [requests EXCEPT ![r] = "reject"]
            /\ UNCHANGED <<queue, run, adoptions>>
       ELSE /\ requests' = [requests EXCEPT ![r] = "adopting"]
            /\ adoptions' = [adoptions EXCEPT ![r] = Adoption(Nothing, Nothing)]
            /\ Enqueue(Item("adopt", Nothing, Nothing, r))
    /\ UNCHANGED <<workspace, closes>>

HandleOpenTerminal(r, accepted) ==
    /\ requests' = [requests EXCEPT ![r] = IF accepted THEN "adopted" ELSE "refused"]
    /\ adoptions' = [adoptions EXCEPT ![r] = NoAdoption]
    /\ IF adoptions[r].id = Nothing THEN UNCHANGED <<queue, run>>
       ELSE Enqueue(Item(IF accepted THEN "accept" ELSE "rollback", adoptions[r].id, adoptions[r].priorActiveId, r))
    /\ UNCHANGED <<workspace, closes>>

Acknowledged(r) == requests[r] = "ack" /\ HandleOpenTerminal(r, TRUE)
AckRefused(r) == conditions.ackMayFail /\ requests[r] = "ack" /\ HandleOpenTerminal(r, FALSE)
Rejected(r) == requests[r] = "reject" /\ HandleOpenTerminal(r, FALSE)

-----------------------------------------------------------------------------
Init ==
    /\ workspace = AppendAndSelect([tabs |-> <<>>, activeId |-> Nothing, nextId |-> 1], FALSE, Nothing)
    /\ queue = <<>> /\ run = NoRun
    /\ requests = [r \in Requests |-> "queued"]
    /\ adoptions = [r \in Requests |-> NoAdoption]
    /\ closes = 0
    /\ conditions \in Conditions

TabIds == {workspace.tabs[i].id : i \in DOMAIN workspace.tabs}

User ==
    \/ \E id \in TabIds : SwitchTab(id)
    \/ \E op \in {"next", "previous"} : SwitchAdjacentTab(op)
    \/ \E id \in TabIds : CloseTab(id)

Transition ==
    \/ SwitchStarts \/ PriorLeft \/ TargetEntered
    \/ CloseStarts \/ LastActivationEnds
    \/ AdoptStarts \/ AdoptLeft \/ AdoptEntered \/ DocumentOpened \/ Presented
    \/ AdoptUndone
    \/ SettleStarts

RequestClient == \E r \in Requests : Adopt(r) \/ Acknowledged(r) \/ AckRefused(r) \/ Rejected(r)

Next == (User \/ Transition \/ RequestClient) /\ UNCHANGED conditions

Spec == Init /\ [][Next]_vars

\* Sessions settle within their deadlines and the native side answers; the user owes nothing.
Fairness == WF_vars(Transition /\ UNCHANGED conditions) /\ WF_vars(RequestClient /\ UNCHANGED conditions)

FairSpec == Spec /\ Fairness

-----------------------------------------------------------------------------
(* Properties *)

\* Shapes, and the selected tab is one of the tabs, which are never more than
\* MAX_TAB_COUNT (TabWorkspace.activeId, TabWorkspace.tabs).
TypeOK ==
    /\ \A i \in DOMAIN workspace.tabs :
          LET tab == workspace.tabs[i] IN
          /\ tab.id \in 1..(workspace.nextId - 1) /\ tab.doc \in Requests \cup {Nothing}
          /\ tab.session \in Sessions /\ tab.staged \in BOOLEAN
          /\ \A j \in DOMAIN workspace.tabs : workspace.tabs[j].id = tab.id => i = j
    /\ Len(workspace.tabs) \in 1..MaximumTabs
    /\ Has(workspace, workspace.activeId)
    /\ \A i \in DOMAIN queue : queue[i].op \in Ops
    /\ run.op \in Ops /\ run.await \in Awaits
    /\ requests \in [Requests -> {"queued", "adopting", "ack", "reject", "adopted", "refused"}]
    /\ \A r \in Requests : adoptions[r].pending \in BOOLEAN
    /\ closes \in 0..MaxCloses
    /\ conditions \in Conditions

\* At most one tab's session holds the foreground: every way to select
\* another tab first makes the one it leaves inactive.
AtMostOneActive == Cardinality({i \in DOMAIN workspace.tabs : workspace.tabs[i].session \in Foreground}) <= 1

\* AtMostOneActive, unless the user switches or closes while a failed open is undone.
CalmKeepsOneActive ==
    \/ conditions.userActsDuringOpen /\ (conditions.sessionsMayFail \/ conditions.ackMayFail)
    \/ AtMostOneActive

\* A staged tab belongs to the adoption under way, which commits or removes it:
\* none outlives its transition (TabWorkspace.stageAdoption).
StagedIsOwned ==
    \A i \in DOMAIN workspace.tabs :
        workspace.tabs[i].staged => run.op = "adopt" /\ run.tab = workspace.tabs[i].id /\ run.await \in {"entering", "opening"}

\* A tab without a document, unless just staged for one, is the only tab of the
\* window: it is reused before another one is made (emptyTab in adoptRequest).
EmptyIsAlone ==
    \A i \in DOMAIN workspace.tabs :
        workspace.tabs[i].doc = Nothing /\ ~workspace.tabs[i].staged => Len(workspace.tabs) = 1

\* Whoever still has an adoption to settle finds room in the ownership queue: a
\* rollback that found none would leave the refused document in its tab.
RollbackNeverRefused ==
    (\E r \in Requests : requests[r] \in {"ack", "reject"} /\ adoptions[r].id # Nothing) => ~Full("ownership")

\* Who is responsible for a tab can always act on it: no tab is left to nobody, none stays
\* empty beside others, and none waits for a rollback that the queue refused.
TabsAreOwned == StagedIsOwned /\ EmptyIsAlone /\ RollbackNeverRefused

Quiet == run = NoRun /\ queue = <<>> /\ InFlight = {}

\* Once everything has settled, each document in a tab is one the native side
\* has acknowledged: no refused, failed or half-adopted one is left behind.
OnlyAdoptedRemain ==
    Quiet => \A i \in DOMAIN workspace.tabs :
                LET doc == workspace.tabs[i].doc IN doc # Nothing => requests[doc] = "adopted"

\* Once everything has settled, and if sessions never fail, the selected tab is the one
\* that is active, unless it is empty.
SelectedIsActive ==
    Quiet /\ ~conditions.sessionsMayFail =>
        LET tab == TabOf(workspace, workspace.activeId) IN tab.doc # Nothing => tab.session = "active"

\* What is left when everything has settled.
SettledIsClean == OnlyAdoptedRemain /\ SelectedIsActive

\* A document the native side has acknowledged leaves the window only because the
\* user closes its tab.
AdoptedIsKept ==
    [][\A i \in DOMAIN workspace.tabs :
          LET tab == workspace.tabs[i] IN
          tab.doc # Nothing /\ requests[tab.doc] = "adopted" /\ ~Has(workspace', tab.id)
             => run.op = "close" /\ run.tab = tab.id]_vars

\* Every request handed over is settled in the end, however often the user
\* switches: the queue is first in, first out.
RequestsSettle == \A r \in Requests : []<>(r \notin InFlight)
=============================================================================
