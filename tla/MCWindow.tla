------------------------------ MODULE MCWindow ------------------------------
(***************************************************************************)
(* Four parts of a window that share no state: the stacks of Back and      *)
(* Forward, the tabs and the registry of external links, which are this    *)
(* module's own, and the viewport.  One of them moves in each behaviour,   *)
(* the others rest.                                                        *)
(***************************************************************************)
EXTENDS NavigationHistory, Workspace, LinkRegistry

CONSTANTS a, b, NoCall  \* a and b name the requests of the viewport and the pages of the links

VARIABLES
    part,  \* the part that moves: "history", "viewport", "links", "tabs"
    call, window, rasters, authority, view, topology, active, visible, latest, drawing,
    settlement, current, rollback, plan, task, foreign, suspended, viewRequests, viewReported

\* History: two pages; two places of the first are within the tolerance of each
\* other, the third is on the second page.
Places == 1..3
Pages == <<1, 1, 2>>
WithinTolerance == {<<1, 2>>, <<2, 1>>}

\* Viewport: two requests of every kind overlap in a document of three pages, of
\* which two are resident at the start; canvas memory is for three small rasters.
Viewport == INSTANCE PdfViewport WITH
    Call <- {a, b}, None <- NoCall, PageCount <- 3, Overscan <- 1, Scales <- {1, 2}, Ratios <- {1, 2},
    Topologies <- {"continuous", "single-page"}, MaxBytes <- 3, Foreign <- {1}, MaxRequests <- 2,
    requests <- viewRequests, reported <- viewReported

\* Links: the configuration has two pages, three publications, one click, one fault of the
\* native side and two attempts at unmounting.

\* Tabs: three documents arrive in a window of two tabs while the user switches and closes;
\* sessions may fail, the native side may refuse, and the user may act meanwhile.
Env(fail, ack, user) == [sessionsMayFail |-> fail, ackMayFail |-> ack, userActsDuringOpen |-> user]
Anything == Env(TRUE, TRUE, TRUE)
ThreeRequests == 1..3
MostConditions == {Anything, Env(FALSE, TRUE, TRUE), Env(FALSE, FALSE, TRUE), Env(TRUE, TRUE, FALSE)}

ASSUME Viewport!ViewportAssumption /\ LinkAssumption /\ WorkspaceAssumption

viewportVars == <<call, window, rasters, authority, view, topology, active, visible, latest, drawing,
                  settlement, current, rollback, plan, task, foreign, suspended, viewRequests, viewReported>>
allVars == <<part, historyVars, viewportVars, linksVars, vars>>

\* What rests begins in one of its initial states.
PartsInit ==
    /\ part \in {"history", "viewport", "links", "tabs"}
    /\ HistoryInit /\ Viewport!Init /\ LinksInit /\ Init
    /\ part # "tabs" => conditions = Anything
    /\ part # "viewport" => authority = {1}

PartsNext ==
    /\ UNCHANGED part
    /\ \/ part = "history" /\ HistoryNext /\ UNCHANGED <<viewportVars, linksVars, vars>>
       \/ part = "viewport" /\ Viewport!Next /\ UNCHANGED <<historyVars, linksVars, vars>>
       \/ part = "links" /\ LinksNext /\ UNCHANGED <<historyVars, viewportVars, vars>>
       \/ part = "tabs" /\ Next /\ UNCHANGED <<historyVars, viewportVars, linksVars>>

PartsSpec == PartsInit /\ [][PartsNext]_allVars

Perms == Permutations({a, b})

\* State constraint: a history is searched up to its fourth generation; a third publication of
\* links is combined with at most one fault, attempt at unmounting or hurried render; and a third
\* document arrives only while no tab was closed.
FewAtOnce ==
    /\ generation <= 4
    /\ Len(pubs) <= 2 \/ unmounts + faults + Cardinality({r \in Revision : pubs[r].ahead # "no"}) <= 1
    /\ requests[3] = "queued" \/ closes = 0

-----------------------------------------------------------------------------
\* A displayed page has its links and belongs to the requests that are current
\* (PdfReaderController.commitPage, applyDisplay).
DisplayIsConsistent == part = "viewport" => Viewport!DisplayIsConsistent

\* The plan, the canvas budget and the state to roll back to belong to one change of the view
\* (PdfReaderController.mutateView).
TransactionIsSound == part = "viewport" => Viewport!TransactionIsSound

\* Every change of the view is settled once, and a failed one has restored the view it began with
\* (PdfReaderController.mutateView, rollbackView).
ChangesAreDecided == Viewport!ChangesAreDecided
=============================================================================
