----------------------------- MODULE MCServices -----------------------------
(***************************************************************************)
(* Three services of a window that share no state: the assembly of ranges  *)
(* for PDF.js, the open requests and the keyboard.  One of them moves in   *)
(* each behaviour, the others rest.                                        *)
(***************************************************************************)
EXTENDS KeySequence

\* The keyboard: the keys of going to a page, to the first one and down, a key that belongs to two
\* contexts, a sequence of three keys of the prompt of pages, and one accelerator; the input
\* passes between two tabs and that prompt.
Bound(keys, action, contexts) == [keys |-> keys, action |-> action, contexts |-> contexts]
TheBindings ==
    {Bound(<<"g">>, "page.prompt", {"navigation"}), Bound(<<"g", "g">>, "page.first", {"navigation"}),
     Bound(<<"j">>, "scroll.down", {"navigation", "pagePrompt"}), Bound(<<"left">>, "history.back", {"navigation"}),
     Bound(<<"g", "j", "j">>, "prompt.last", {"pagePrompt"})}
TheContexts == [tab1 |-> "navigation", tab2 |-> "navigation", prompt |-> "pagePrompt"]

VARIABLES
    part,  \* the service that moves: "ranges", "opens", "keys"
    documents, pending, closedOrder, currentBytes, nextLease, assembly, call, pdf, asked, faults,
    native, window, shell, client, item, cmd, listing, doc, troubles

\* Ranges: three, of one or two bytes, in a budget of two, and two faults.
Ranges == INSTANCE PdfRangeAssembly WITH
    Mine <- "mine", Other <- "other", Sizes <- {1, 2}, MaxBytes <- 2, Limit <- 2,
    MaxRequests <- 3, MaxFaults <- 2

\* Open requests: two, and two troubles.
Opens == INSTANCE OpenRequests WITH N <- 2, MaxTroubles <- 2

ASSUME KeyAssumption /\ Ranges!RangeAssumption /\ Opens!OpenAssumption

rangesVars == <<documents, pending, closedOrder, currentBytes, nextLease, assembly, call, pdf, asked, faults>>
opensVars == <<native, window, shell, client, item, cmd, listing, doc, troubles>>
allVars == <<part, vars, rangesVars, opensVars>>

PartsInit ==
    /\ part \in {"ranges", "opens", "keys"}
    /\ Init /\ Ranges!Init /\ Opens!Init
    /\ part # "keys" => input = "tab1"

PartsNext ==
    /\ UNCHANGED part
    /\ \/ part = "ranges" /\ Ranges!Next /\ UNCHANGED <<opensVars, vars>>
       \/ part = "opens" /\ Opens!Next /\ UNCHANGED <<rangesVars, vars>>
       \/ part = "keys" /\ Next /\ UNCHANGED <<rangesVars, opensVars>>

\* The fairness of each part.  A client of open requests begins with a task, so that its
\* fairness is asked for only when it moves.
Opening == part = "opens"
PartsFairness ==
    /\ Fairness /\ Ranges!Fairness
    /\ \A r \in 1..2 :
         /\ WF_opensVars(Opening /\ Opens!Opening(r)) /\ WF_opensVars(Opening /\ Opens!Command(r))
         /\ WF_opensVars(Opening /\ Opens!SessionCloses(r)) /\ WF_opensVars(Opening /\ Opens!Finished(r))
         /\ WF_opensVars(Opening /\ Opens!DisposedRejected(r))
    /\ WF_opensVars(Opening /\ Opens!Lifecycle) /\ WF_opensVars(Opening /\ Opens!Run)
    /\ WF_opensVars(Opening /\ Opens!Enumeration) /\ WF_opensVars(Opening /\ Opens!Wake)
    /\ WF_opensVars(Opening /\ shell.modal /\ Opens!SetModal)

PartsSpec == PartsInit /\ [][PartsNext]_allVars /\ PartsFairness

\* State constraint: a second request is not combined with a second trouble.
FewAtOnce == native[2].st = "new" \/ troubles <= 1

-----------------------------------------------------------------------------
\* A document that stays was acknowledged, and what was refused is drained
\* (OpenRequestClient.completeRequest, OpenRequestCoordinator.reject).
OutcomesAgree == part = "opens" => Opens!OutcomesAgree

\* Credit is given back only when the buffer it pays for is gone
\* (PdfRangeAssembly.finishActive, finishAfterPdfDestroyOnce).
CreditCoversBuffer == part = "ranges" => Ranges!CreditCoversBuffer

\* Whatever is asked of a service ends: ranges are delivered and the assembly finishes
\* (PdfRangeAssembly.pump); requests are opened, or refused and drained (OpenRequestClient,
\* target_lost_for_lifecycle); a prefix does not outlive its deadline (RootKeyboardRouter.schedule).
ServicesEnd == Ranges!RangesEnd /\ Opens!OpensEnd /\ PrefixEnds
=============================================================================
