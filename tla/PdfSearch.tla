----------------------------- MODULE PdfSearch -----------------------------
(***************************************************************************)
(* The search of one document (PdfContentController.ts).  A search reads   *)
(* the pages one after the other, lands on its first result as soon as it  *)
(* has one, and may at any of its awaits be replaced, timed out, or        *)
(* interrupted because the tab is suspended; the memory pressure of other  *)
(* tabs may evict the results of a tab that is not shown, and a tab that   *)
(* is shown again recomputes what it lost.                                 *)
(***************************************************************************)
EXTENDS Integers, FiniteSets

CONSTANTS
    Pages,       \* how many pages the document has
    Matches,     \* the pages with a match, one each
    Located,     \* the matches whose place on the page is known
    MaxSearches  \* bound: sequence numbers given to searches

SearchAssumption ==
    /\ Pages \in Nat \ {0} /\ MaxSearches \in Nat
    /\ Matches \subseteq 1 .. Pages /\ Located \subseteq Matches

VARIABLES
    sequence,    \* searchSequence: what every continuation compares itself with
    asked,       \* a query is set
    results,     \* the matches found so far
    current,     \* the result shown, 0 for none
    selected,    \* pendingResultIndex: the result that is being landed on, 0 for none
    pending, incomplete,
    evicted,     \* evictedCurrentResult: the result to come back to, 0 if there was none, Unset
    runs,        \* the searches that have not ended
    extracting,  \* activeSearchSettlement: the one that reads pages, 0 for none
    failure,     \* searchCleanupFailure: a read was abandoned and has not settled
    landing,     \* the latest landing asked of the tab, as the sequence it belongs to
    tab          \* on or off
vars == <<sequence, asked, results, current, selected, pending, incomplete, evicted, runs, extracting,
          failure, landing, tab>>

NoMatch == 0
Unset == -1
NoLanding == [sequence |-> 0, place |-> 0, restore |-> FALSE]
Live(s) == s.id = sequence
Places == results \cap Located

\* A search that waited for another goes on in the same turn of the event loop in which the other has
\* settled: nothing that the user or the tab does comes in between.
HandedOver == extracting # 0 \/ \A s \in runs : s.step # "previous"

Init ==
    /\ sequence = 0 /\ asked = FALSE /\ results = {} /\ current = NoMatch /\ selected = NoMatch
    /\ pending = FALSE /\ incomplete = FALSE /\ evicted = Unset /\ runs = {} /\ extracting = 0
    /\ failure = FALSE /\ landing = NoLanding /\ tab = "on"

---------------------------------------------------------------------------
\* A search that is still the latest gives up: what it found stays, as a partial result.
GivesUp(s) ==
    IF Live(s) THEN pending' = FALSE /\ incomplete' = TRUE ELSE UNCHANGED <<pending, incomplete>>

\* finishSearchOwnership: the reservations are released, and the next search may read.
FinishHolding(s) == runs' = runs \ {s} /\ failure' = FALSE /\ UNCHANGED extracting  \* mutant
FinishRefusing(s) == runs' = runs \ {s} /\ extracting' = 0 /\ UNCHANGED failure  \* mutant
Finish(s) == runs' = runs \ {s} /\ extracting' = 0 /\ failure' = FALSE

Continue(s, step) == runs' = (runs \ {s}) \cup {[s EXCEPT !.step = step]}

\* selectMatch asks the tab to land on a result.
Select(p, restore) == selected' = p /\ landing' = [sequence |-> sequence, place |-> p, restore |-> restore]

\* A search replaces whatever was there.  It reads at once, or waits for the one that still reads.
Replace(restore) ==
    LET s == [id |-> sequence + 1, step |-> IF extracting = 0 THEN "page" ELSE "previous", page |-> 1,
              restore |-> restore, landed |-> FALSE]
        refused == extracting = 0 /\ failure
    IN
    /\ sequence < MaxSearches /\ sequence' = s.id /\ asked' = TRUE
    /\ results' = {} /\ current' = NoMatch /\ selected' = NoMatch
    /\ pending' = ~refused /\ incomplete' = refused
    /\ evicted' = IF restore THEN evicted ELSE Unset
    /\ runs' = IF refused THEN runs ELSE runs \cup {s}
    /\ extracting' = IF extracting = 0 /\ ~refused THEN s.id ELSE extracting
    /\ UNCHANGED <<failure, landing>>

Search == tab = "on" /\ HandedOver /\ Replace(FALSE) /\ UNCHANGED tab

\* invalidateSearch
Clear ==
    /\ tab = "on" /\ HandedOver /\ sequence < MaxSearches /\ sequence' = sequence + 1
    /\ asked' = FALSE /\ results' = {} /\ current' = NoMatch /\ selected' = NoMatch
    /\ pending' = FALSE /\ incomplete' = FALSE /\ evicted' = Unset
    /\ UNCHANGED <<runs, extracting, failure, landing, tab>>

\* The search before this one has settled: it reads now, unless it was replaced, the pages cannot be
\* read, or the budget has no room for it.
PreviousSettled(s, room) ==
    /\ s.step = "previous" /\ extracting = 0
    /\ IF Live(s) /\ ~failure /\ room
       THEN Continue(s, "page") /\ extracting' = s.id /\ UNCHANGED <<pending, incomplete>>
       ELSE runs' = runs \ {s} /\ GivesUp(s) /\ UNCHANGED extracting
    /\ UNCHANGED <<sequence, asked, results, current, selected, evicted, failure, landing, tab>>

PreviousWaits(s) == FALSE  \* mutant: no deadline
PreviousTimesOut(s) ==
    /\ s.step = "previous" /\ runs' = runs \ {s} /\ GivesUp(s)
    /\ UNCHANGED <<sequence, asked, results, current, selected, evicted, extracting, failure, landing, tab>>

---------------------------------------------------------------------------
PageArrives(s) ==
    /\ s.step = "page"
    /\ IF Live(s) THEN Continue(s, "text") /\ UNCHANGED <<extracting, failure>> ELSE Finish(s)
    /\ UNCHANGED <<sequence, asked, results, current, selected, pending, incomplete, evicted, landing, tab>>

\* The text of a page: its match joins the results, and the first one that can be landed on is.
TextArrives(s) ==
    /\ s.step = "text"
    /\ IF ~Live(s) THEN Finish(s) /\ UNCHANGED <<results, selected, landing>>
       ELSE LET lands == ~s.restore /\ ~s.landed /\ current = NoMatch /\ selected = NoMatch
                found == results \cup ({s.page} \cap Matches)
            IN
            /\ results' = found
            /\ IF lands /\ found \cap Located # {}
               THEN /\ Select(CHOOSE p \in found \cap Located : \A q \in found \cap Located : p <= q, FALSE)
                    /\ runs' = (runs \ {s}) \cup {[s EXCEPT !.step = "yield", !.landed = TRUE]}
               ELSE Continue(s, "yield") /\ UNCHANGED <<selected, landing>>
            /\ UNCHANGED <<extracting, failure>>
    /\ UNCHANGED <<sequence, asked, current, pending, incomplete, evicted, tab>>

\* The result that a restored search comes back to, when it or any other can be landed on.
Preferred ==
    IF evicted \in Places THEN evicted ELSE CHOOSE p \in Places : \A q \in Places : p <= q

\* Between two pages the search lets other work run.  After the last one it is complete; a search
\* that restores an evicted one then lands where that one was.
Yields(s) ==
    /\ s.step = "yield"
    /\ IF ~Live(s) THEN Finish(s) /\ UNCHANGED <<pending, selected, landing>>
       ELSE IF s.page < Pages
       THEN /\ runs' = (runs \ {s}) \cup {[s EXCEPT !.step = "page", !.page = @ + 1]}
            /\ UNCHANGED <<pending, selected, landing, extracting, failure>>
       ELSE /\ pending' = FALSE
            /\ IF s.restore /\ Places # {}
               THEN Continue(s, "landing") /\ Select(Preferred, TRUE) /\ UNCHANGED <<extracting, failure>>
               ELSE Finish(s) /\ UNCHANGED <<selected, landing>>
    /\ UNCHANGED <<sequence, asked, results, current, incomplete, evicted, tab>>

\* A page or its text cannot be read, or the results reach their limit.
ReadFails(s) ==
    /\ s.step \in {"page", "text"} /\ Finish(s) /\ GivesUp(s)
    /\ UNCHANGED <<sequence, asked, results, current, selected, evicted, landing, tab>>

\* The deadline passes while a read is under way: the search ends, but keeps what it reserved, and
\* its place, until the read has settled.
ReadTimesOut(s) ==
    /\ s.step \in {"page", "text"} /\ Continue(s, "cleanup") /\ failure' = TRUE /\ GivesUp(s)
    /\ UNCHANGED <<sequence, asked, results, current, selected, evicted, extracting, landing, tab>>

CleanupSettles(s) ==
    /\ s.step = "cleanup" /\ Finish(s)
    /\ UNCHANGED <<sequence, asked, results, current, selected, pending, incomplete, evicted, landing, tab>>

---------------------------------------------------------------------------
\* The tab has landed on the selected result, or could not; an answer for anything else is dropped.
AnswersAny == TRUE  \* mutant: whatever search it belongs to
Answers == landing.sequence = sequence
Landed(shown) ==
    /\ landing.sequence # 0 /\ ~landing.restore /\ landing' = NoLanding
    /\ IF Answers
       THEN selected' = NoMatch /\ current' = IF shown THEN landing.place ELSE current
       ELSE UNCHANGED <<selected, current>>
    /\ UNCHANGED <<sequence, asked, results, pending, incomplete, evicted, runs, extracting, failure, tab>>

\* The same for a search that restores: it is complete only if it came back to its result.  A newer
\* selection leaves it without one.
Restored(s, shown) ==
    LET mine == landing.restore /\ landing.sequence = s.id
        back == Live(s) /\ mine /\ shown
    IN
    /\ s.step = "landing" /\ Finish(s)
    /\ landing' = IF mine THEN NoLanding ELSE landing
    /\ IF Live(s) /\ mine
       THEN selected' = NoMatch /\ current' = IF shown THEN landing.place ELSE current
       ELSE UNCHANGED <<selected, current>>
    /\ IF Live(s)
       THEN evicted' = (IF back THEN Unset ELSE evicted) /\ incomplete' = (incomplete \/ ~back)
       ELSE UNCHANGED <<evicted, incomplete>>
    /\ UNCHANGED <<sequence, asked, results, pending, tab>>

\* nextMatch: the next result, or the one before, in a circle, that can be landed on.
Beside(p, reverse) ==
    LET Distance(q) == (IF reverse THEN p - q - 1 ELSE q - p - 1) % Pages
    IN CHOOSE q \in Places : \A r \in Places : Distance(q) <= Distance(r)

Cycle(reverse) ==
    /\ tab = "on" /\ HandedOver /\ Places # {} /\ ~incomplete
    /\ LET cursor == IF selected # NoMatch THEN selected ELSE current
       IN Select(Beside(IF cursor = NoMatch /\ reverse THEN 1 ELSE cursor, reverse), FALSE)
    /\ UNCHANGED <<sequence, asked, results, current, pending, incomplete, evicted, runs, extracting, failure, tab>>

---------------------------------------------------------------------------
\* suspend: a search that still reads is lost, and marked so that it is made again.
InterruptedWithResults == extracting # 0 /\ results # {}  \* mutant
Interrupted == extracting # 0 /\ asked
Suspend ==
    /\ tab = "on" /\ HandedOver /\ sequence < MaxSearches /\ sequence' = sequence + 1 /\ tab' = "off"
    /\ selected' = NoMatch /\ pending' = FALSE
    /\ IF Interrupted
       THEN /\ results' = {} /\ current' = NoMatch /\ incomplete' = TRUE
            /\ evicted' = IF evicted = Unset THEN 0 ELSE evicted
       ELSE UNCHANGED <<results, current, incomplete, evicted>>
    /\ UNCHANGED <<asked, runs, extracting, failure, landing>>

\* evictInactiveHeavyResources
Evict ==
    /\ tab = "off" /\ HandedOver /\ extracting = 0 /\ results # {}
    /\ evicted' = current /\ results' = {} /\ current' = NoMatch /\ selected' = NoMatch
    /\ UNCHANGED <<sequence, asked, pending, incomplete, runs, extracting, failure, landing, tab>>

\* The tab is shown again: restoreEvictedSearch.
ToRestore == (evicted # Unset \/ incomplete) /\ asked /\ ~pending
Activate ==
    /\ tab = "off" /\ HandedOver /\ tab' = "on"
    /\ IF ToRestore THEN Replace(TRUE)
       ELSE UNCHANGED <<sequence, asked, results, current, selected, pending, incomplete, evicted, runs,
                        extracting, failure, landing>>

---------------------------------------------------------------------------
Reads ==
    \E s \in runs : \/ \E room \in BOOLEAN : PreviousSettled(s, room)
                   \/ PreviousTimesOut(s) \/ PageArrives(s) \/ TextArrives(s) \/ Yields(s)
                   \/ ReadFails(s) \/ ReadTimesOut(s)
                   \/ \E shown \in BOOLEAN : Restored(s, shown)

Next ==
    \/ Search \/ Clear \/ \E reverse \in BOOLEAN : Cycle(reverse) \/ Suspend \/ Evict \/ Activate
    \/ Reads \/ \E shown \in BOOLEAN : Landed(shown)
    \/ \E s \in runs : CleanupSettles(s)

\* The timers bound every wait of a search but that for a read that was given up, which may never
\* settle; the tab answers every landing.
Fairness == WF_vars(Reads)
Spec == Init /\ [][Next]_vars /\ Fairness

---------------------------------------------------------------------------
\* However searches replace each other and reads outlive them, one search at a time holds the
\* extractor and the text budget of the document.
OneExtractor ==
    LET holding == {s \in runs : s.step # "previous"} IN
    Cardinality(holding) <= 1 /\ (extracting # 0 <=> holding # {})

\* A tab that is shown and has no search under way has either every match of its query, or says that
\* its results are incomplete: suspending, evicting and restoring lose nothing silently.
NothingLostSilently ==
    tab = "on" /\ asked /\ ~pending /\ ~(\E s \in runs : Live(s)) => results = Matches \/ incomplete

\* A result is only marked as being landed on while the landing is under way for the search that found
\* it, and what is shown is one of its results: no late answer moves the cursor of another search.
CursorIsLive ==
    /\ current # NoMatch => current \in results
    /\ selected # NoMatch => selected \in results /\ landing.sequence = sequence

\* A search that has been refused because of an abandoned read is never refused for good: the
\* refusal lasts as long as the read.
FailureHasARead == failure => \E s \in runs : s.step = "cleanup"

\* What the user sees of a search is true, however searches replace, suspend and restore each other.
SearchIsTrue == OneExtractor /\ NothingLostSilently /\ CursorIsLive /\ FailureHasARead

\* Every search ends, whatever becomes of the reads that it gave up.
SearchEnds == []<>~pending
=============================================================================
