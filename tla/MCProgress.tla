----------------------------- MODULE MCProgress -----------------------------
(***************************************************************************)
(* What must eventually happen in four components that share no state: the *)
(* queue of file operations, the search of a document, a window's          *)
(* transitions under a restless user, and printing.  One of them moves in  *)
(* each behaviour, the others rest.                                        *)
(***************************************************************************)
EXTENDS PdfSearch

CONSTANTS
    s1, s2, c1, j1, j2, j3, j4,                 \* of the dispatcher
    Session, Client, Job, None, MaxOpens,
    MaxSessionQueue, MaxSessionInFlight, MaxProcessQueue, MaxProcessInFlight,
    p1, p2, Call, Selections, Lossy, MaxFaults  \* of printing: p1 and p2 name two windows

VARIABLES
    part,  \* the component that moves: "dispatch", "search", "workspace", "printing"
    table, queues, order, jobs, reservations, selectedFiles, queuedTotal, selectedTotal,
    queued, inFlight, processQueued, processInFlight, running, stack, opens,
    workspace, queue, run, requests, adoptions, closes, conditions,
    job, cancelled, lease, invalid, channel, worker, spool, completion, permit, req, client, life, faults

\* Search is this module's own: three pages with a match each, one of which cannot be located.
\* Dispatch: two sessions and the thread of one client.
Dispatching == INSTANCE FileDispatch

\* Workspace: two documents arrive while a user with healthy sessions switches for ever;
\* the native side may refuse.
Healthy == {[sessionsMayFail |-> FALSE, ackMayFail |-> TRUE, userActsDuringOpen |-> TRUE]}
Tabs == INSTANCE Workspace WITH
    Requests <- 1..2, MaxCloses <- 1, MaximumTabs <- 2, NormalLimit <- 1, OwnershipLimit <- 2,
    Conditions <- Healthy

\* Printing: two windows want the one job, of one page or two; the answers of two commands may be lost,
\* and one thing fails.
OnePageOrTwo == {{1}, {1, 3}}
Printing == INSTANCE PdfPrintService

ASSUME SearchAssumption /\ Tabs!WorkspaceAssumption

dispatcherVars == <<table, queues, order, jobs, reservations, selectedFiles, queuedTotal, selectedTotal,
                    queued, inFlight, processQueued, processInFlight, running, stack, opens>>
workspaceVars == <<workspace, queue, run, requests, adoptions, closes, conditions>>
printVars == <<job, cancelled, lease, invalid, channel, worker, spool, completion, permit, req, client, life, faults>>
allVars == <<part, dispatcherVars, vars, workspaceVars, printVars>>

PartsInit ==
    /\ part \in {"dispatch", "search", "workspace", "printing"}
    /\ Dispatching!Init /\ Init /\ Tabs!Init /\ Printing!Init

PartsNext ==
    /\ UNCHANGED part
    /\ \/ part = "dispatch" /\ Dispatching!Next /\ UNCHANGED <<vars, workspaceVars, printVars>>
       \/ part = "search" /\ Next /\ UNCHANGED <<dispatcherVars, workspaceVars, printVars>>
       \/ part = "workspace" /\ Tabs!Next /\ UNCHANGED <<dispatcherVars, vars, printVars>>
       \/ part = "printing" /\ Printing!Next /\ UNCHANGED <<dispatcherVars, vars, workspaceVars>>

\* The fairness of each part.  The requests of a workspace that rests wait for ever, so
\* that its fairness is asked for only when it moves, as is that of printing.
PartsFairness ==
    /\ Dispatching!Fairness /\ Fairness
    /\ WF_workspaceVars(part = "workspace" /\ Tabs!Transition /\ UNCHANGED conditions)
    /\ WF_workspaceVars(part = "workspace" /\ Tabs!RequestClient /\ UNCHANGED conditions)
    /\ \A c \in Call :
         /\ WF_printVars(part = "printing" /\ Printing!Native(c)) /\ WF_printVars(part = "printing" /\ Printing!Worker(c))
         /\ WF_printVars(part = "printing" /\ Printing!Service(c)) /\ WF_printVars(part = "printing" /\ Printing!CancelOwner(c))
         /\ WF_printVars(part = "printing" /\ Printing!AbandonOwner(c))
         /\ WF_printVars(part = "printing" /\ cancelled[c] /\ Printing!Dialog(c))

PartsSpec == PartsInit /\ [][PartsNext]_allVars /\ PartsFairness

\* State constraint: a second window prints when the first is in its dialogue, has ended or has lost its
\* page, and is followed until it is refused or its worker has started.
SecondOnlyStarts ==
    /\ client[p2].at = "starting" => client[p1].at \in {"polling", "gone", "done"}
    /\ client[p2].at \in {"idle", "starting"} /\ life[p2] = "open" /\ ~client[p2].aborted
    /\ worker[p2].at \in {"none", "apartment"}

-----------------------------------------------------------------------------
\* Nobody is left owning what is over: neither the reader's barrier nor the single slot of the native
\* side is deceived about what a print still holds (printPdfDocument, PrintJobManager).
NothingIsLeft == part = "printing" => Printing!NothingIsLeft

\* What a print reports is what the printer got, and the native side never answers what the service refuses
\* (printPdfDocument, cancelToTerminal, revert_admission).
ReportsAreTrue == part = "printing" => Printing!ReportsAreTrue

\* What is waited for happens: a queued file operation is taken or revoked, provided that every pump
\* ends (PdfFileDispatchState::pump); a search ends, whatever becomes of the reads it gave up (search);
\* a request handed to the workspace is settled, however often the user switches
\* (WorkspaceTransitionQueue.enqueue); a print that was cancelled ends, and so does its worker
\* (cancelToTerminal, settle_worker).
ProgressIsMade ==
    Dispatching!QueuedIsTaken /\ SearchEnds /\ Tabs!RequestsSettle /\ Printing!CancelledPrintEnds
=============================================================================
