-------------------------- MODULE PdfSearch_proofs --------------------------
(***************************************************************************)
(* What the search of a document promises (SearchIsTrue), proved for every *)
(* number of pages, every set of matches and any number of searches.       *)
(*                                                                         *)
(* The promises are not inductive.  That one run at a time holds the       *)
(* extractor rests on runs being told apart by their numbers, and on       *)
(* `extracting` being the number of the one that holds it (OneHolder).     *)
(* That nothing is lost rests on what the latest run has found at each of  *)
(* its awaits (ReadSoFar), and on a hidden tab remembering that it was     *)
(* evicted (Kept).  That the cursor is live rests on the landing, which    *)
(* names a result of the latest search or no longer counts                 *)
(* (LandingIsLive).                                                        *)
(***************************************************************************)
EXTENDS PdfSearch, FiniteSetTheorems, WellFoundedInduction, TLAPS

---------------------------------------------------------------------------
(* The inductive invariant *)

Reading == {"previous", "page", "text", "yield"}
Steps == Reading \cup {"landing", "cleanup"}
Run == [id : Nat \ {0}, step : Steps, page : 1 .. Pages, restore : BOOLEAN, landed : BOOLEAN]
Landing == [sequence : Nat, place : Nat, restore : BOOLEAN]

SearchTypeOK ==
    /\ sequence \in Nat /\ asked \in BOOLEAN /\ results \subseteq Matches
    /\ current \in Nat /\ selected \in Nat /\ pending \in BOOLEAN /\ incomplete \in BOOLEAN
    /\ evicted \in Nat \cup {Unset} /\ runs \subseteq Run /\ extracting \in Nat
    /\ failure \in BOOLEAN /\ landing \in Landing /\ tab \in {"on", "off"}

\* A run is known by its number, and the one that holds the extractor is the one `extracting` names.
OneHolder ==
    /\ \A s \in runs : s.id <= sequence
    /\ \A s, t \in runs : s.id = t.id => s = t
    /\ \A s \in runs : s.step # "previous" <=> s.id = extracting
    /\ extracting # 0 => \E s \in runs : s.id = extracting

\* The search is shown as pending exactly as long as the latest run reads, or waits to.
PendingIsRead == pending <=> \E s \in runs : Live(s) /\ s.step \in Reading

\* What the latest run has found, wherever it is.
Found(s) ==
    /\ s.step = "previous" => results = {} /\ s.page = 1
    /\ s.step \in {"page", "text"} => results = Matches \cap 1 .. (s.page - 1)
    /\ s.step = "yield" => results = Matches \cap 1 .. s.page
    /\ s.step = "landing" => results = Matches
    /\ s.step = "cleanup" => incomplete
ReadSoFar == \A s \in runs : Live(s) => Found(s) /\ tab = "on"

\* When the latest run is over, a query whose results are not all there says so, or is of a hidden tab
\* that knows it was evicted.
Kept ==
    asked /\ ~(\E s \in runs : Live(s)) => results = Matches \/ incomplete \/ (tab = "off" /\ evicted # Unset)

\* A landing of the latest search names one of its results.
LandingIsLive ==
    /\ landing.sequence <= sequence
    /\ landing.sequence = sequence /\ landing.sequence # 0 => landing.place \in results /\ tab = "on"
    /\ CursorIsLive

IInv ==
    /\ SearchTypeOK /\ OneHolder /\ PendingIsRead /\ ReadSoFar /\ Kept /\ LandingIsLive /\ FailureHasARead

---------------------------------------------------------------------------
(* Numbers and runs *)

\* Numbers have a least one.
LEMMA LeastNumber ==
    ASSUME NEW T \in SUBSET Nat, T # {}
    PROVE  \E x \in T : \A y \in T : x <= y
<1>1. IsWellFoundedOn(OpToRel(<, Nat), Nat)
  BY NatLessThanWellFounded
<1>2. \E x \in T : \A y \in T : ~ (<<y, x>> \in OpToRel(<, Nat))
  BY ONLY <1>1, T \subseteq Nat, T # {}, WFMin
<1>3. PICK x \in T : \A y \in T : ~(y < x)
  BY <1>2 DEF OpToRel
<1> QED
  BY <1>3

\* The first of some places is one of them.
LEMMA FirstIsOne ==
    ASSUME NEW P \in SUBSET Nat, P # {}
    PROVE  (CHOOSE p \in P : \A q \in P : p <= q) \in P
<1>1. \E p \in P : \A q \in P : p <= q
  BY LeastNumber
<1> QED
  BY <1>1

\* The result beside the cursor is one that can be landed on.
LEMMA BesideIsAPlace ==
    ASSUME SearchAssumption, results \subseteq Matches, Places # {}, NEW p \in Nat, NEW reverse \in BOOLEAN
    PROVE  Beside(p, reverse) \in Places
<1> DEFINE Distance(q) == (IF reverse THEN p - q - 1 ELSE q - p - 1) % Pages
           T == {Distance(q) : q \in Places}
<1>1. Places \subseteq Nat /\ Pages \in Nat \ {0}
  BY DEF SearchAssumption, Places
<1>2. \A q \in Places : Distance(q) \in Nat
  <2> TAKE q \in Places
  <2>1. q \in Nat
    BY <1>1
  <2>2. (p - q - 1) % Pages \in Nat /\ (q - p - 1) % Pages \in Nat
    BY <2>1, <1>1
  <2> QED
    BY <2>2
<1>3. T \in SUBSET Nat /\ T # {}
  <2> HIDE DEF Distance
  <2> QED
    BY <1>2
<1>4. PICK x \in T : \A y \in T : x <= y
  <2> HIDE DEF T
  <2> QED
    BY <1>3, LeastNumber
<1>5. \E q \in Places : \A r \in Places : Distance(q) <= Distance(r)
  <2> HIDE DEF Distance
  <2> QED
    BY <1>4
<1>6. (CHOOSE q \in Places : \A r \in Places : Distance(q) <= Distance(r)) \in Places
  <2> HIDE DEF Distance
  <2> QED
    BY <1>5
<1> QED
  BY <1>6 DEF Beside

\* A run that goes on is the same run at another step.
LEMMA RunGoesOn ==
    ASSUME NEW s \in Run, NEW step \in Steps
    PROVE  LET t == [s EXCEPT !.step = step]
           IN t \in Run /\ t.id = s.id /\ t.step = step /\ t.page = s.page
  BY DEF Run

\* A run that holds the extractor goes on holding it.
LEMMA HolderGoesOn ==
    ASSUME OneHolder, NEW s \in runs, NEW t, t.id = s.id, t.step # "previous", s.step # "previous",
           runs' = (runs \ {s}) \cup {t}, UNCHANGED <<sequence, extracting>>
    PROVE  OneHolder'
  BY DEF OneHolder

\* A run that ends gives the extractor back.
LEMMA HolderEnds ==
    ASSUME OneHolder, runs \subseteq Run, NEW s \in runs, s.step # "previous",
           runs' = runs \ {s}, extracting' = 0, UNCHANGED sequence
    PROVE  OneHolder'
<1>1. \A r \in runs : r.id # 0
  BY DEF Run
<1> QED
  BY <1>1 DEF OneHolder

\* Only the run of an abandoned read keeps the others from reading.
LEMMA FailureHolds ==
    ASSUME IInv, failure
    PROVE  extracting # 0 /\ \A s \in runs : s.step # "previous" => s.step = "cleanup"
<1>1. PICK c \in runs : c.step = "cleanup"
  BY DEF IInv, FailureHasARead
<1>2. c.id = extracting /\ c.id # 0
  BY <1>1 DEF IInv, OneHolder, SearchTypeOK, Run
<1> QED
  BY <1>1, <1>2 DEF IInv, OneHolder

---------------------------------------------------------------------------
(* The actions preserve the invariant *)

\* Init.
LEMMA InitHolds == SearchAssumption /\ Init => IInv
<1> SUFFICES ASSUME SearchAssumption, Init PROVE IInv
  OBVIOUS
<1>1. SearchTypeOK
  BY DEF Init, SearchTypeOK, Landing, NoLanding, NoMatch, Unset
<1> QED
  BY <1>1 DEF Init, IInv, OneHolder, PendingIsRead, ReadSoFar, Kept, LandingIsLive, CursorIsLive,
              FailureHasARead, NoMatch, NoLanding

\* A search replaces whatever was there: no run is the latest any more but its own.
LEMMA ReplaceKeeps ==
    ASSUME SearchAssumption, IInv, NEW restore \in BOOLEAN, Replace(restore), tab' = "on"
    PROVE  IInv'
<1> DEFINE s == [id |-> sequence + 1, step |-> IF extracting = 0 THEN "page" ELSE "previous", page |-> 1,
                 restore |-> restore, landed |-> FALSE]
<1>t. SearchTypeOK
  BY DEF IInv
<1>r. s \in Run /\ s.id = sequence + 1 /\ s.page = 1 /\ s.step = IF extracting = 0 THEN "page" ELSE "previous"
  BY <1>t DEF SearchTypeOK, SearchAssumption, Run, Steps, Reading
<1>1. ~(extracting = 0 /\ failure)
  BY FailureHolds
<1>2. /\ sequence' = sequence + 1 /\ asked' = TRUE /\ results' = {} /\ current' = NoMatch
      /\ selected' = NoMatch /\ pending' = TRUE /\ incomplete' = FALSE
      /\ evicted' = (IF restore THEN evicted ELSE Unset) /\ runs' = runs \cup {s}
      /\ extracting' = (IF extracting = 0 THEN sequence + 1 ELSE extracting)
      /\ failure' = failure /\ landing' = landing
  BY <1>1, Zenon DEF Replace
<1> HIDE DEF s
<1>3. \A q \in runs : q.id <= sequence /\ q.id \in Nat \ {0}
  BY <1>t DEF IInv, OneHolder, SearchTypeOK, Run
<1>b. asked' \in BOOLEAN /\ pending' \in BOOLEAN /\ incomplete' \in BOOLEAN
  BY <1>2, Zenon
<1>4. SearchTypeOK'
  BY <1>t, <1>r, <1>2, <1>b DEF SearchTypeOK, NoMatch, Unset
<1>5. OneHolder'
  <2>1. CASE extracting = 0
    <3>1. \A q \in runs : q.step = "previous"
      BY <1>3, <2>1 DEF IInv, OneHolder
    <3> QED
      BY <1>t, <1>r, <1>2, <1>3, <2>1, <3>1 DEF IInv, OneHolder, SearchTypeOK
  <2>2. CASE extracting # 0
    <3>1. extracting # sequence + 1
      BY <1>t, <1>3, <2>2 DEF IInv, OneHolder, SearchTypeOK
    <3> QED
      BY <1>t, <1>r, <1>2, <1>3, <2>2, <3>1 DEF IInv, OneHolder, SearchTypeOK
  <2> QED
    BY <2>1, <2>2
<1>6. \A q \in runs' : Live(q)' <=> q = s
  BY <1>t, <1>r, <1>2, <1>3 DEF Live, SearchTypeOK
<1>7. PendingIsRead'
  BY <1>r, <1>2, <1>6 DEF PendingIsRead, Reading
<1>8. ReadSoFar'
  <2>1. \A q \in runs' : Live(q)' => q.page = 1 /\ q.step \in {"previous", "page"}
    BY <1>r, <1>6
  <2>2. \A q \in runs' : Live(q)' => Found(q)' /\ tab' = "on"
    BY <1>2, <2>1 DEF Found
  <2> QED
    BY <2>2, Zenon DEF ReadSoFar
<1>9. Kept'
  BY <1>2, <1>6 DEF Kept
<1>10. LandingIsLive'
  <2>1. landing.sequence \in Nat /\ landing.sequence <= sequence
    BY <1>t DEF IInv, LandingIsLive, SearchTypeOK, Landing
  <2> QED
    BY <1>t, <1>2, <2>1 DEF LandingIsLive, CursorIsLive, SearchTypeOK
<1>11. FailureHasARead'
  BY <1>2 DEF IInv, FailureHasARead
<1> QED
  BY <1>4, <1>5, <1>7, <1>8, <1>9, <1>10, <1>11 DEF IInv

\* A search is asked for.
LEMMA SearchKeeps ==
    ASSUME SearchAssumption, IInv, Search
    PROVE  IInv'
<1>1. tab' = "on" /\ Replace(FALSE)
  BY DEF Search
<1> QED
  BY <1>1, ReplaceKeeps

\* What steps that give a new number to nobody's run, and touch no run, keep of the runs.
LEMMA NobodyIsLatest ==
    ASSUME IInv, sequence' = sequence + 1, UNCHANGED <<runs, extracting, landing>>
    PROVE  /\ \A s \in runs' : ~Live(s)'
           /\ OneHolder' /\ ReadSoFar'
           /\ landing'.sequence < sequence'
<1>t. sequence \in Nat /\ runs \subseteq Run /\ landing \in Landing
  BY DEF IInv, SearchTypeOK
<1>1. \A s \in runs : s.id <= sequence /\ s.id \in Nat
  BY <1>t DEF IInv, OneHolder, Run
<1>2. \A s \in runs' : ~Live(s)'
  BY <1>t, <1>1 DEF Live
<1>3. OneHolder'
  BY <1>t, <1>1 DEF IInv, OneHolder
<1>4. landing'.sequence < sequence'
  BY <1>t DEF IInv, LandingIsLive, Landing
<1> QED
  BY <1>2, <1>3, <1>4 DEF ReadSoFar

\* The query is cleared.
LEMMA ClearKeeps ==
    ASSUME IInv, Clear
    PROVE  IInv'
<1>1. /\ sequence' = sequence + 1 /\ UNCHANGED <<runs, extracting, landing, failure, tab>>
      /\ asked' = FALSE /\ results' = {} /\ current' = NoMatch /\ selected' = NoMatch
      /\ pending' = FALSE /\ incomplete' = FALSE /\ evicted' = Unset
  BY DEF Clear
<1>2. /\ \A s \in runs' : ~Live(s)'
      /\ OneHolder' /\ ReadSoFar' /\ landing'.sequence < sequence'
  BY <1>1, NobodyIsLatest
<1>t. SearchTypeOK
  BY DEF IInv
<1>b. asked' \in BOOLEAN /\ pending' \in BOOLEAN /\ incomplete' \in BOOLEAN
  BY <1>1, Zenon
<1>3. SearchTypeOK'
  BY <1>t, <1>b, <1>1 DEF SearchTypeOK, NoMatch
<1>4. PendingIsRead' /\ Kept'
  BY <1>1, <1>2 DEF PendingIsRead, Kept
<1>5. LandingIsLive'
  BY <1>1, <1>2, <1>3 DEF LandingIsLive, CursorIsLive, SearchTypeOK, Landing
<1>6. FailureHasARead'
  BY <1>1 DEF IInv, FailureHasARead
<1> QED
  BY <1>2, <1>3, <1>4, <1>5, <1>6 DEF IInv

\* The tab is hidden.  A search that holds nothing is no search under way: then nothing is lost.
LEMMA SuspendKeeps ==
    ASSUME IInv, Suspend
    PROVE  IInv'
<1>t. SearchTypeOK
  BY DEF IInv
<1>1. /\ tab = "on" /\ tab' = "off" /\ HandedOver /\ sequence' = sequence + 1
      /\ UNCHANGED <<runs, extracting, landing, failure, asked>>
      /\ selected' = NoMatch /\ pending' = FALSE
  BY DEF Suspend
<1>2. /\ \A s \in runs' : ~Live(s)'
      /\ OneHolder' /\ ReadSoFar' /\ landing'.sequence < sequence'
  BY <1>1, NobodyIsLatest
<1>b. pending' \in BOOLEAN
  BY <1>1, Zenon
<1>3. CASE Interrupted
  <2>1. results' = {} /\ current' = NoMatch /\ incomplete' = TRUE /\ evicted' \in {0, evicted}
    BY <1>3 DEF Suspend
  <2>b. incomplete' \in BOOLEAN
    BY <2>1, Zenon
  <2>2. SearchTypeOK'
    BY <1>t, <1>b, <2>b, <1>1, <2>1 DEF SearchTypeOK, NoMatch
  <2>3. PendingIsRead' /\ Kept' /\ LandingIsLive'
    BY <1>1, <1>2, <2>1, <2>2 DEF PendingIsRead, Kept, LandingIsLive, CursorIsLive, SearchTypeOK, Landing
  <2> QED
    BY <1>1, <1>2, <2>2, <2>3 DEF IInv, FailureHasARead
<1>4. CASE ~Interrupted
  <2>1. UNCHANGED <<results, current, incomplete, evicted>>
    BY <1>4 DEF Suspend
  <2>2. SearchTypeOK'
    BY <1>t, <1>b, <1>1, <2>1 DEF SearchTypeOK, NoMatch
  <2>3. Kept'
    <3> SUFFICES ASSUME asked PROVE results = Matches \/ incomplete
      BY <1>1, <2>1 DEF Kept
    <3>1. extracting = 0
      BY <1>4 DEF Interrupted
    <3>2. runs = {}
      <4> SUFFICES ASSUME NEW s \in runs PROVE FALSE
        OBVIOUS
      <4>1. s.step # "previous" /\ s.id # 0
        BY <1>t, <1>1, <3>1 DEF HandedOver, SearchTypeOK, Run
      <4> QED
        BY <3>1, <4>1 DEF IInv, OneHolder
    <3> QED
      BY <1>1, <3>2 DEF IInv, Kept
  <2>4. PendingIsRead' /\ LandingIsLive'
    BY <1>1, <1>2, <2>1, <2>2 DEF PendingIsRead, IInv, LandingIsLive, CursorIsLive, SearchTypeOK, Landing
  <2> QED
    BY <1>1, <1>2, <2>2, <2>3, <2>4 DEF IInv, FailureHasARead
<1> QED
  BY <1>3, <1>4

\* A hidden tab loses its results to the memory pressure, and knows that it did.
LEMMA EvictKeeps ==
    ASSUME IInv, Evict
    PROVE  IInv'
<1>1. /\ tab = "off" /\ evicted' = current /\ results' = {} /\ current' = NoMatch /\ selected' = NoMatch
      /\ UNCHANGED <<sequence, asked, pending, incomplete, runs, extracting, failure, landing, tab>>
  BY DEF Evict
<1>t. SearchTypeOK
  BY DEF IInv
<1>2. SearchTypeOK'
  BY <1>t, <1>1 DEF SearchTypeOK, NoMatch
<1>3. \A s \in runs : ~Live(s)
  BY <1>1 DEF IInv, ReadSoFar
<1>4. ReadSoFar'
  BY <1>1, <1>3 DEF ReadSoFar, Live
<1>5. OneHolder' /\ PendingIsRead' /\ FailureHasARead'
  BY <1>1 DEF IInv, OneHolder, PendingIsRead, FailureHasARead, Live
<1>6. Kept'
  BY <1>t, <1>1 DEF Kept, SearchTypeOK, Unset
<1>7. LandingIsLive'
  BY <1>1 DEF IInv, LandingIsLive, CursorIsLive
<1> QED
  BY <1>2, <1>4, <1>5, <1>6, <1>7 DEF IInv

\* The tab is shown again, and makes again what it lost.
LEMMA ActivateKeeps ==
    ASSUME SearchAssumption, IInv, Activate
    PROVE  IInv'
<1>1. tab = "off" /\ tab' = "on"
  BY DEF Activate
<1>2. CASE ToRestore
  BY <1>1, <1>2, ReplaceKeeps DEF Activate
<1>3. CASE ~ToRestore
  <2>1. UNCHANGED <<sequence, asked, results, current, selected, pending, incomplete, evicted, runs,
                    extracting, failure, landing>>
    BY <1>3 DEF Activate
  <2>2. \A s \in runs : ~Live(s)
    BY <1>1 DEF IInv, ReadSoFar
  <2>3. ~pending
    BY <2>2 DEF IInv, PendingIsRead
  <2>4. Kept'
    BY <1>3, <2>1, <2>2, <2>3 DEF IInv, Kept, ToRestore, Live
  <2>5. SearchTypeOK' /\ OneHolder' /\ PendingIsRead' /\ FailureHasARead'
    BY <1>1, <2>1 DEF IInv, SearchTypeOK, OneHolder, PendingIsRead, FailureHasARead, Live
  <2>6. ReadSoFar' /\ LandingIsLive'
    BY <1>1, <2>1, <2>2 DEF IInv, ReadSoFar, LandingIsLive, CursorIsLive, Live
  <2> QED
    BY <2>4, <2>5, <2>6 DEF IInv
<1> QED
  BY <1>2, <1>3

---------------------------------------------------------------------------
(* What a run does *)

\* A run ends: if it was the latest, its query is answered in full or says that it is not.
LEMMA RunEnds ==
    ASSUME IInv, NEW s \in runs, runs' = runs \ {s}, UNCHANGED <<sequence, asked, tab>>,
           \/ s.step = "previous" /\ UNCHANGED <<extracting, failure>>
           \/ s.step # "previous" /\ extracting' = 0 /\ ~failure',
           Live(s) => ~pending' /\ (results' = Matches \/ incomplete'),
           ~Live(s) => (pending' <=> pending) /\ (incomplete' <=> incomplete) /\ UNCHANGED <<results, evicted>>
    PROVE  OneHolder' /\ PendingIsRead' /\ ReadSoFar' /\ Kept' /\ FailureHasARead'
<1>t. runs \subseteq Run /\ OneHolder
  BY DEF IInv, SearchTypeOK
<1>1. OneHolder' /\ FailureHasARead'
  <2>1. CASE s.step = "previous" /\ UNCHANGED <<extracting, failure>>
    BY <2>1 DEF IInv, OneHolder, FailureHasARead
  <2>2. CASE s.step # "previous" /\ extracting' = 0 /\ ~failure'
    BY <1>t, <2>2, HolderEnds DEF FailureHasARead
  <2> QED
    BY <2>1, <2>2
<1>2. CASE Live(s)
  <2>1. \A r \in runs' : ~Live(r)'
    BY <1>t, <1>2 DEF OneHolder, Live
  <2>2. PendingIsRead' /\ Kept' /\ ReadSoFar'
    BY <1>2, <2>1 DEF PendingIsRead, Kept, ReadSoFar
  <2> QED
    BY <1>1, <2>2
<1>3. CASE ~Live(s)
  <2>1. \A r \in runs : Live(r) => r \in runs' /\ Live(r)'
    BY <1>3 DEF Live
  <2>2. \A r \in runs' : Live(r)' => r \in runs /\ Live(r)
    BY DEF Live
  <2>3. PendingIsRead' /\ Kept'
    BY <1>3, <2>1, <2>2 DEF IInv, PendingIsRead, Kept
  <2>4. ReadSoFar'
    <3>1. \A r \in runs' : Live(r)' => Found(r)' /\ tab' = "on"
      BY <1>3, <2>2 DEF IInv, ReadSoFar, Found
    <3> QED
      BY <3>1, Zenon DEF ReadSoFar
  <2> QED
    BY <1>1, <2>3, <2>4
<1> QED
  BY <1>2, <1>3

\* A run goes on: if it is the latest, it has found what it should have at its new step.
LEMMA RunGoes ==
    ASSUME IInv, NEW s \in runs, NEW t \in Run, t.id = s.id, runs' = (runs \ {s}) \cup {t},
           UNCHANGED <<sequence, asked, tab>>,
           Live(s) => (pending' <=> t.step \in Reading) /\ Found(t)',
           ~Live(s) => /\ (pending' <=> pending) /\ (incomplete' <=> incomplete) /\ UNCHANGED <<results, evicted>>
    PROVE  PendingIsRead' /\ ReadSoFar' /\ Kept'
<1>t. OneHolder
  BY DEF IInv
<1>0. Live(t)' <=> Live(s)
  BY DEF Live
<1>2. CASE Live(s)
  <2>1. \A r \in runs' : Live(r)' <=> r = t
    BY <1>t, <1>0, <1>2 DEF OneHolder, Live
  <2>2. t \in runs' /\ tab' = "on" /\ Found(t)' /\ (pending' <=> t.step \in Reading)
    BY <1>2 DEF IInv, ReadSoFar
  <2>3. PendingIsRead' /\ Kept'
    BY <2>1, <2>2 DEF PendingIsRead, Kept
  <2>4. ReadSoFar'
    BY <2>1, <2>2, Zenon DEF ReadSoFar
  <2> QED
    BY <2>3, <2>4
<1>3. CASE ~Live(s)
  <2>1. \A r \in runs : Live(r) => r \in runs' /\ Live(r)'
    BY <1>3 DEF Live
  <2>2. \A r \in runs' : Live(r)' => r \in runs /\ Live(r)
    BY <1>0, <1>3 DEF Live
  <2>3. PendingIsRead' /\ Kept'
    BY <1>3, <2>1, <2>2 DEF IInv, PendingIsRead, Kept
  <2>4. ReadSoFar'
    <3>1. \A r \in runs' : Live(r)' => Found(r)' /\ tab' = "on"
      BY <1>3, <2>2 DEF IInv, ReadSoFar, Found
    <3> QED
      BY <3>1, Zenon DEF ReadSoFar
  <2> QED
    BY <2>3, <2>4
<1> QED
  BY <1>2, <1>3

\* A search that gives up leaves what it found, as a partial result.
LEMMA GivesUpKeeps ==
    ASSUME IInv, NEW s \in runs, runs' = runs \ {s}, GivesUp(s),
           UNCHANGED <<sequence, asked, results, current, selected, evicted, landing, tab>>,
           \/ s.step = "previous" /\ UNCHANGED <<extracting, failure>>
           \/ s.step # "previous" /\ extracting' = 0 /\ failure' = FALSE
    PROVE  IInv'
<1>t. SearchTypeOK
  BY DEF IInv
<1>1. /\ Live(s) => ~pending' /\ incomplete'
      /\ ~Live(s) => (pending' <=> pending) /\ (incomplete' <=> incomplete)
  BY DEF GivesUp
<1>2. OneHolder' /\ PendingIsRead' /\ ReadSoFar' /\ Kept' /\ FailureHasARead'
  BY <1>1, RunEnds
<1>3. pending' \in BOOLEAN /\ incomplete' \in BOOLEAN /\ failure' \in BOOLEAN
  <2>1. pending \in BOOLEAN /\ incomplete \in BOOLEAN /\ failure \in BOOLEAN
    BY <1>t DEF SearchTypeOK
  <2>2. pending' \in BOOLEAN /\ incomplete' \in BOOLEAN
    BY <2>1, Zenon DEF GivesUp
  <2>3. failure' \in BOOLEAN
    BY <2>1, Zenon
  <2> QED
    BY <2>2, <2>3
<1>4. SearchTypeOK'
  BY <1>t, <1>3 DEF SearchTypeOK
<1>5. LandingIsLive'
  BY DEF IInv, LandingIsLive, CursorIsLive
<1> QED
  BY <1>2, <1>4, <1>5 DEF IInv

\* A run that was replaced ends at its next step, and leaves the rest to its successor.
LEMMA StaleEnds ==
    ASSUME IInv, NEW s \in runs, ~Live(s), s.step # "previous", Finish(s),
           UNCHANGED <<sequence, asked, results, current, selected, pending, incomplete, evicted, landing, tab>>
    PROVE  IInv'
  BY GivesUpKeeps DEF Finish, GivesUp

\* What the next step of the latest run keeps, when the cursor and the landing stay.
LEMMA GoesOnKeeps ==
    ASSUME IInv, NEW s \in runs, NEW t \in Run, t.id = s.id, t.step # "previous",
           runs' = (runs \ {s}) \cup {t}, UNCHANGED <<sequence, asked, tab, evicted, extracting>>,
           s.step # "previous",
           pending' \in BOOLEAN, incomplete' \in BOOLEAN, failure' \in BOOLEAN, results' \subseteq Matches,
           current' \in Nat, selected' \in Nat, landing' \in Landing,
           s.step = "cleanup" => t.step = "cleanup", failure' => failure \/ t.step = "cleanup",
           Live(s) => (pending' <=> t.step \in Reading) /\ Found(t)',
           ~Live(s) => /\ (pending' <=> pending) /\ (incomplete' <=> incomplete) /\ UNCHANGED <<results, evicted>>,
           LandingIsLive'
    PROVE  IInv'
<1>1. PendingIsRead' /\ ReadSoFar' /\ Kept'
  BY RunGoes
<1>2. OneHolder'
  BY HolderGoesOn DEF IInv
<1>3. SearchTypeOK'
  BY DEF IInv, SearchTypeOK
<1>4. FailureHasARead'
  BY DEF IInv, FailureHasARead
<1> QED
  BY <1>1, <1>2, <1>3, <1>4 DEF IInv

\* The search before this one has settled.
LEMMA PreviousSettledKeeps ==
    ASSUME SearchAssumption, IInv, NEW s \in runs, NEW room \in BOOLEAN, PreviousSettled(s, room)
    PROVE  IInv'
<1>t. SearchTypeOK
  BY DEF IInv
<1>1. /\ s.step = "previous" /\ extracting = 0
      /\ UNCHANGED <<sequence, asked, results, current, selected, evicted, failure, landing, tab>>
  BY DEF PreviousSettled
<1>2. CASE ~(Live(s) /\ ~failure /\ room)
  <2>1. runs' = runs \ {s} /\ GivesUp(s) /\ UNCHANGED extracting
    BY <1>2 DEF PreviousSettled
  <2> QED
    BY <1>1, <2>1, GivesUpKeeps
<1>3. CASE Live(s) /\ ~failure /\ room
  <2> DEFINE t == [s EXCEPT !.step = "page"]
  <2>1. runs' = (runs \ {s}) \cup {t} /\ extracting' = s.id /\ UNCHANGED <<pending, incomplete>>
    BY <1>3 DEF PreviousSettled, Continue
  <2>2. s \in Run /\ "page" \in Steps
    BY <1>t DEF SearchTypeOK, Steps, Reading
  <2>3. t \in Run /\ t.id = s.id /\ t.step = "page" /\ t.page = s.page
    BY <2>2, RunGoesOn
  <2> HIDE DEF t
  <2>4. results = {} /\ s.page = 1
    BY <1>1, <1>3 DEF IInv, ReadSoFar, Found
  <2>5. Found(t)'
    BY <1>1, <2>3, <2>4 DEF Found
  <2>6. pending'
    BY <1>1, <1>3, <2>1 DEF IInv, PendingIsRead, Reading
  <2>7. PendingIsRead' /\ ReadSoFar' /\ Kept'
    <3>1. Live(s) => (pending' <=> t.step \in Reading) /\ Found(t)'
      BY <2>3, <2>5, <2>6 DEF Reading
    <3> QED
      BY <1>1, <1>3, <2>1, <2>3, <3>1, RunGoes
  <2>8. OneHolder'
    <3>1. \A r \in runs : r.step = "previous"
      BY <1>t, <1>1 DEF IInv, OneHolder, SearchTypeOK, Run
    <3> QED
      BY <1>1, <2>1, <2>3, <3>1 DEF IInv, OneHolder
  <2>9. SearchTypeOK' /\ LandingIsLive' /\ FailureHasARead'
    <3>1. s.id \in Nat
      BY <2>2 DEF Run
    <3> QED
      BY <1>1, <2>1, <2>3, <3>1 DEF IInv, SearchTypeOK, LandingIsLive, CursorIsLive, FailureHasARead
  <2> QED
    BY <2>7, <2>8, <2>9 DEF IInv
<1> QED
  BY <1>2, <1>3

\* The wait for it comes to its end.
LEMMA PreviousTimesOutKeeps ==
    ASSUME IInv, NEW s \in runs, PreviousTimesOut(s)
    PROVE  IInv'
  BY GivesUpKeeps DEF PreviousTimesOut

\* A page arrives.
LEMMA PageArrivesKeeps ==
    ASSUME IInv, NEW s \in runs, PageArrives(s)
    PROVE  IInv'
<1>t. SearchTypeOK
  BY DEF IInv
<1>1. /\ s.step = "page"
      /\ UNCHANGED <<sequence, asked, results, current, selected, pending, incomplete, evicted, landing, tab>>
  BY DEF PageArrives
<1>2. CASE ~Live(s)
  <2>1. Finish(s)
    BY <1>2 DEF PageArrives
  <2> QED
    BY <1>1, <1>2, <2>1, StaleEnds
<1>3. CASE Live(s)
  <2> DEFINE t == [s EXCEPT !.step = "text"]
  <2>1. runs' = (runs \ {s}) \cup {t} /\ UNCHANGED <<extracting, failure>>
    BY <1>3 DEF PageArrives, Continue
  <2>2. t \in Run /\ t.id = s.id /\ t.step = "text" /\ t.page = s.page
    BY <1>t, RunGoesOn DEF SearchTypeOK, Steps, Reading
  <2> HIDE DEF t
  <2>3. pending' <=> t.step \in Reading
    BY <1>1, <1>3, <2>2 DEF IInv, PendingIsRead, Reading
  <2>4. Found(t)'
    BY <1>1, <1>3, <2>2 DEF IInv, ReadSoFar, Found
  <2>5. LandingIsLive'
    BY <1>1 DEF IInv, LandingIsLive, CursorIsLive
  <2> QED
    BY <1>t, <1>1, <1>3, <2>1, <2>2, <2>3, <2>4, <2>5, GoesOnKeeps DEF SearchTypeOK
<1> QED
  BY <1>2, <1>3

\* The text of a page arrives; the first result that can be landed on is landed on.
LEMMA TextArrivesKeeps ==
    ASSUME SearchAssumption, IInv, NEW s \in runs, TextArrives(s)
    PROVE  IInv'
<1>t. SearchTypeOK
  BY DEF IInv
<1>1. /\ s.step = "text"
      /\ UNCHANGED <<sequence, asked, current, pending, incomplete, evicted, tab>>
  BY DEF TextArrives
<1>2. CASE ~Live(s)
  <2>1. Finish(s) /\ UNCHANGED <<results, selected, landing>>
    BY <1>2 DEF TextArrives
  <2> QED
    BY <1>1, <1>2, <2>1, StaleEnds
<1>3. CASE Live(s)
  <2> DEFINE lands == ~s.restore /\ ~s.landed /\ current = NoMatch /\ selected = NoMatch
             found == results \cup ({s.page} \cap Matches)
             first == CHOOSE p \in found \cap Located : \A q \in found \cap Located : p <= q
             t == [s EXCEPT !.step = "yield"]
             u == [s EXCEPT !.step = "yield", !.landed = TRUE]
  <2>1. /\ results' = found /\ UNCHANGED <<extracting, failure>>
        /\ \/ found \cap Located # {} /\ Select(first, FALSE) /\ runs' = (runs \ {s}) \cup {u}
           \/ runs' = (runs \ {s}) \cup {t} /\ UNCHANGED <<selected, landing>>
    BY <1>3 DEF TextArrives, Continue
  <2>2. s \in Run /\ "yield" \in Steps
    BY <1>t DEF SearchTypeOK, Steps, Reading
  <2>3. t \in Run /\ t.id = s.id /\ t.step = "yield" /\ t.page = s.page
    BY <2>2, RunGoesOn
  <2>4. u \in Run /\ u.id = s.id /\ u.step = "yield" /\ u.page = s.page
    BY <2>2 DEF Run
  <2>5. results \subseteq found /\ found \subseteq Matches
    BY <1>t DEF SearchTypeOK
  <2>6. found \cap Located # {} => first \in found /\ first \in Nat
    <3> HIDE DEF found
    <3>1. found \cap Located \subseteq Nat
      <4>1. Located \subseteq 1 .. Pages /\ Pages \in Nat
        BY DEF SearchAssumption
      <4>2. \A x \in 1 .. Pages : x \in Nat
        BY <4>1
      <4> QED
        BY <4>1, <4>2
    <3> QED
      BY <3>1, FirstIsOne
  <2>7. PICK v : v \in {t, u} /\ runs' = (runs \ {s}) \cup {v}
    BY <2>1
  <2>8. v \in Run /\ v.id = s.id /\ v.step = "yield" /\ v.page = s.page
    BY <2>3, <2>4, <2>7
  <2>9. found = Matches \cap 1 .. s.page
    <3>1. results = Matches \cap 1 .. (s.page - 1) /\ s.page \in 1 .. Pages
      BY <1>1, <1>3, <2>2 DEF IInv, ReadSoFar, Found, Run
    <3>2. 1 .. s.page = 1 .. (s.page - 1) \cup {s.page}
      BY <3>1, SearchAssumption DEF SearchAssumption
    <3> QED
      BY <3>1, <3>2
  <2> HIDE DEF t, u, found, first
  <2>10. \/ first \in results' /\ first \in Nat /\ Select(first, FALSE)
         \/ UNCHANGED <<selected, landing>>
    BY <2>1, <2>6
  <2>11. LandingIsLive' /\ selected' \in Nat /\ landing' \in Landing
    <3>1. sequence \in Nat /\ tab = "on" /\ current \in Nat /\ selected \in Nat /\ landing \in Landing
      BY <1>t, <1>3 DEF IInv, ReadSoFar, SearchTypeOK
    <3>2. CASE first \in results' /\ first \in Nat /\ Select(first, FALSE)
      <4>1. selected' = first /\ landing'.sequence = sequence /\ landing'.place = first /\ landing' \in Landing
        BY <3>1, <3>2 DEF Select, Landing
      <4> QED
        BY <1>1, <2>1, <2>5, <3>1, <3>2, <4>1 DEF IInv, LandingIsLive, CursorIsLive
    <3>3. CASE UNCHANGED <<selected, landing>>
      BY <1>1, <2>1, <2>5, <3>1, <3>3 DEF IInv, LandingIsLive, CursorIsLive
    <3> QED
      BY <2>10, <3>2, <3>3
  <2>12. pending' <=> v.step \in Reading
    BY <1>1, <1>3, <2>8 DEF IInv, PendingIsRead, Reading
  <2>13. Found(v)'
    BY <2>1, <2>8, <2>9 DEF Found
  <2> QED
    BY <1>t, <1>1, <1>3, <2>1, <2>5, <2>7, <2>8, <2>11, <2>12, <2>13, GoesOnKeeps DEF SearchTypeOK
<1> QED
  BY <1>2, <1>3

\* After a page the run goes on to the next; after the last one it is complete, and may land.
LEMMA YieldsKeeps ==
    ASSUME SearchAssumption, IInv, NEW s \in runs, Yields(s)
    PROVE  IInv'
<1>t. SearchTypeOK /\ s \in Run
  BY DEF IInv, SearchTypeOK
<1>1. /\ s.step = "yield"
      /\ UNCHANGED <<sequence, asked, results, current, incomplete, evicted, tab>>
  BY DEF Yields
<1>2. CASE ~Live(s)
  <2>1. Finish(s) /\ UNCHANGED <<pending, selected, landing>>
    BY <1>2 DEF Yields
  <2> QED
    BY <1>1, <1>2, <2>1, StaleEnds
<1>3. Live(s) => results = Matches \cap 1 .. s.page /\ tab = "on"
  BY <1>1 DEF IInv, ReadSoFar, Found
<1>4. CASE Live(s) /\ s.page < Pages
  <2> DEFINE t == [s EXCEPT !.step = "page", !.page = s.page + 1]
  <2>1. runs' = (runs \ {s}) \cup {t} /\ UNCHANGED <<pending, selected, landing, extracting, failure>>
    BY <1>4 DEF Yields
  <2>2. t \in Run /\ t.id = s.id /\ t.step = "page" /\ t.page = s.page + 1 /\ t.page - 1 = s.page
    <3>1. Pages \in Nat /\ s.page \in 1 .. Pages /\ s.page + 1 \in 1 .. Pages /\ s.page + 1 - 1 = s.page
      BY <1>t, <1>4 DEF Run, SearchAssumption
    <3>2. t.id = s.id /\ t.step = "page" /\ t.page = s.page + 1 /\ "page" \in Steps
      BY <1>t DEF Run, Steps, Reading
    <3>3. t \in Run
      BY <1>t, <3>1, <3>2 DEF Run
    <3> QED
      BY <3>1, <3>2, <3>3
  <2> HIDE DEF t
  <2>3. pending' <=> t.step \in Reading
    BY <1>1, <1>4, <2>1, <2>2 DEF IInv, PendingIsRead, Reading
  <2>4. Found(t)'
    BY <1>1, <1>3, <1>4, <2>2 DEF Found
  <2>5. LandingIsLive'
    BY <1>1, <2>1 DEF IInv, LandingIsLive, CursorIsLive
  <2> QED
    BY <1>t, <1>1, <1>4, <2>1, <2>2, <2>3, <2>4, <2>5, GoesOnKeeps DEF SearchTypeOK
<1>5. CASE Live(s) /\ ~(s.page < Pages)
  <2>1. results = Matches /\ tab = "on" /\ results \subseteq Nat /\ Places \subseteq Nat
    <3>1. Pages \in Nat /\ Matches \subseteq 1 .. Pages /\ s.page = Pages
      BY <1>t, <1>5 DEF SearchAssumption, Run
    <3>2. \A x \in 1 .. Pages : x \in Nat
      BY <3>1
    <3>3. results = Matches /\ tab = "on"
      BY <1>3, <1>5, <3>1
    <3> QED
      BY <3>1, <3>2, <3>3 DEF Places
  <2>2. pending' = FALSE
    BY <1>5 DEF Yields
  <2>3. CASE ~(s.restore /\ Places # {})
    <3>1. Finish(s) /\ UNCHANGED <<selected, landing>>
      BY <1>5, <2>3 DEF Yields
    <3>2. runs' = runs \ {s} /\ extracting' = 0 /\ failure' = FALSE
      BY <3>1 DEF Finish
    <3>3. OneHolder' /\ PendingIsRead' /\ ReadSoFar' /\ Kept' /\ FailureHasARead'
      BY <1>1, <1>5, <2>1, <2>2, <3>2, RunEnds
    <3>4. pending' \in BOOLEAN /\ failure' \in BOOLEAN
      BY <2>2, <3>2, Zenon
    <3>5. SearchTypeOK' /\ LandingIsLive'
      BY <1>t, <1>1, <3>1, <3>2, <3>4 DEF IInv, SearchTypeOK, LandingIsLive, CursorIsLive
    <3> QED
      BY <3>3, <3>5 DEF IInv
  <2>4. CASE s.restore /\ Places # {}
    <3> DEFINE t == [s EXCEPT !.step = "landing"]
    <3>1. runs' = (runs \ {s}) \cup {t} /\ Select(Preferred, TRUE) /\ UNCHANGED <<extracting, failure>>
      BY <1>5, <2>4 DEF Yields, Continue
    <3>2. t \in Run /\ t.id = s.id /\ t.step = "landing"
      BY <1>t, RunGoesOn DEF Steps
    <3> HIDE DEF t
    <3>3. Preferred \in Places
      <4>1. (CHOOSE p \in Places : \A q \in Places : p <= q) \in Places
        BY <2>1, <2>4, FirstIsOne
      <4> QED
        BY <4>1 DEF Preferred
    <3>4. Preferred \in results /\ Preferred \in Nat
      BY <2>1, <3>3 DEF Places
    <3>5. selected' = Preferred /\ landing'.sequence = sequence /\ landing'.place = Preferred /\ landing' \in Landing
      BY <1>t, <3>1, <3>4 DEF Select, Landing, SearchTypeOK
    <3>6. LandingIsLive'
      BY <1>t, <1>1, <2>1, <3>4, <3>5 DEF IInv, LandingIsLive, CursorIsLive, SearchTypeOK
    <3>7. Found(t)' /\ t.step \notin Reading
      BY <1>1, <2>1, <3>2 DEF Found, Reading
    <3>8. pending' \in BOOLEAN /\ ~pending'
      BY <2>2, Zenon
    <3> QED
      BY <1>t, <1>1, <1>5, <3>1, <3>2, <3>4, <3>5, <3>6, <3>7, <3>8, GoesOnKeeps DEF SearchTypeOK
  <2> QED
    BY <2>3, <2>4
<1> QED
  BY <1>2, <1>4, <1>5

\* A read fails, or the results reach their limit.
LEMMA ReadFailsKeeps ==
    ASSUME IInv, NEW s \in runs, ReadFails(s)
    PROVE  IInv'
  BY GivesUpKeeps DEF ReadFails, Finish

\* The deadline of a read passes: the run keeps the extractor until the read has settled.
LEMMA ReadTimesOutKeeps ==
    ASSUME IInv, NEW s \in runs, ReadTimesOut(s)
    PROVE  IInv'
<1>t. SearchTypeOK /\ s \in Run
  BY DEF IInv, SearchTypeOK
<1> DEFINE t == [s EXCEPT !.step = "cleanup"]
<1>1. /\ s.step \in {"page", "text"} /\ runs' = (runs \ {s}) \cup {t} /\ failure' = TRUE /\ GivesUp(s)
      /\ UNCHANGED <<sequence, asked, results, current, selected, evicted, extracting, landing, tab>>
  BY DEF ReadTimesOut, Continue
<1>2. t \in Run /\ t.id = s.id /\ t.step = "cleanup"
  BY <1>t, RunGoesOn DEF Steps
<1> HIDE DEF t
<1>3. pending' \in BOOLEAN /\ incomplete' \in BOOLEAN /\ failure' \in BOOLEAN
  <2>1. pending \in BOOLEAN /\ incomplete \in BOOLEAN
    BY <1>t DEF SearchTypeOK
  <2> QED
    BY <1>1, <2>1, Zenon DEF GivesUp
<1>4. LandingIsLive'
  BY <1>1 DEF IInv, LandingIsLive, CursorIsLive
<1>5. Live(s) => (pending' <=> t.step \in Reading) /\ Found(t)'
  BY <1>1, <1>2 DEF GivesUp, Found, Reading
<1>6. ~Live(s) => (pending' <=> pending) /\ (incomplete' <=> incomplete) /\ UNCHANGED <<results, evicted>>
  BY <1>1 DEF GivesUp
<1> QED
  BY <1>t, <1>1, <1>2, <1>3, <1>4, <1>5, <1>6, GoesOnKeeps DEF SearchTypeOK

\* A read that was given up has settled.  Its search gave up when it was: nothing is shown as pending.
LEMMA CleanupSettlesKeeps ==
    ASSUME IInv, NEW s \in runs, CleanupSettles(s)
    PROVE  IInv'
<1>1. /\ s.step = "cleanup" /\ Finish(s)
      /\ UNCHANGED <<sequence, asked, results, current, selected, pending, incomplete, evicted, landing, tab>>
  BY DEF CleanupSettles
<1>2. Live(s) => ~pending /\ incomplete
  BY <1>1 DEF IInv, PendingIsRead, ReadSoFar, Found, OneHolder, Live, Reading
<1>3. runs' = runs \ {s} /\ extracting' = 0 /\ failure' = FALSE
  BY <1>1 DEF Finish
<1>4. OneHolder' /\ PendingIsRead' /\ ReadSoFar' /\ Kept' /\ FailureHasARead'
  BY <1>1, <1>2, <1>3, RunEnds
<1>5. failure' \in BOOLEAN
  BY <1>3, Zenon
<1>6. SearchTypeOK' /\ LandingIsLive'
  BY <1>1, <1>3, <1>5 DEF IInv, SearchTypeOK, LandingIsLive, CursorIsLive
<1> QED
  BY <1>4, <1>6 DEF IInv

---------------------------------------------------------------------------
(* What becomes of a landing *)

\* A step that touches neither the runs nor the results keeps what is known of them.
LEMMA RunsRest ==
    ASSUME IInv, UNCHANGED <<sequence, asked, results, pending, incomplete, evicted, runs, extracting, failure, tab>>
    PROVE  OneHolder' /\ PendingIsRead' /\ ReadSoFar' /\ Kept' /\ FailureHasARead'
<1>1. OneHolder' /\ PendingIsRead' /\ Kept' /\ FailureHasARead'
  BY DEF IInv, OneHolder, PendingIsRead, Kept, FailureHasARead, Live
<1>2. ReadSoFar'
  BY DEF IInv, ReadSoFar, Found, Live
<1> QED
  BY <1>1, <1>2

\* The tab answers a landing.
LEMMA LandedKeeps ==
    ASSUME IInv, NEW shown \in BOOLEAN, Landed(shown)
    PROVE  IInv'
<1>1. /\ landing.sequence # 0 /\ landing' = NoLanding
      /\ UNCHANGED <<sequence, asked, results, pending, incomplete, evicted, runs, extracting, failure, tab>>
      /\ IF Answers
         THEN selected' = NoMatch /\ current' = IF shown THEN landing.place ELSE current
         ELSE UNCHANGED <<selected, current>>
  BY DEF Landed
<1>2. OneHolder' /\ PendingIsRead' /\ ReadSoFar' /\ Kept' /\ FailureHasARead'
  BY <1>1, RunsRest
<1>3. landing'.sequence = 0 /\ landing' \in Landing /\ landing \in Landing /\ sequence \in Nat
  BY <1>1 DEF IInv, SearchTypeOK, NoLanding, Landing
<1>4. selected' = NoMatch /\ (current' = current \/ (current' = landing.place /\ landing.place \in results))
  BY <1>1 DEF IInv, LandingIsLive, CursorIsLive, Answers, NoMatch
<1>5. SearchTypeOK'
  BY <1>1, <1>3, <1>4 DEF IInv, SearchTypeOK, Landing, NoMatch
<1>6. LandingIsLive'
  BY <1>1, <1>3, <1>4 DEF IInv, LandingIsLive, CursorIsLive, NoMatch
<1> QED
  BY <1>2, <1>5, <1>6 DEF IInv

\* The same for a search that restores.
LEMMA RestoredKeeps ==
    ASSUME IInv, NEW s \in runs, NEW shown \in BOOLEAN, Restored(s, shown)
    PROVE  IInv'
<1>t. SearchTypeOK /\ s \in Run
  BY DEF IInv, SearchTypeOK
<1> DEFINE mine == landing.restore /\ landing.sequence = s.id
           back == Live(s) /\ mine /\ shown
<1>1. /\ s.step = "landing" /\ runs' = runs \ {s} /\ extracting' = 0 /\ failure' = FALSE
      /\ UNCHANGED <<sequence, asked, results, pending, tab>>
  BY DEF Restored, Finish
<1>2. landing' = IF mine THEN NoLanding ELSE landing
  BY DEF Restored
<1>3. IF Live(s) /\ mine
      THEN selected' = NoMatch /\ current' = IF shown THEN landing.place ELSE current
      ELSE UNCHANGED <<selected, current>>
  BY DEF Restored
<1>4. IF Live(s)
      THEN evicted' = (IF back THEN Unset ELSE evicted) /\ incomplete' = (incomplete \/ ~back)
      ELSE UNCHANGED <<evicted, incomplete>>
  BY Zenon DEF Restored
<1>5. Live(s) => ~pending /\ results = Matches
  BY <1>1 DEF IInv, PendingIsRead, ReadSoFar, Found, OneHolder, Live, Reading
<1>6. ~Live(s) => (incomplete' <=> incomplete) /\ UNCHANGED evicted
  BY <1>4
<1>7. OneHolder' /\ PendingIsRead' /\ ReadSoFar' /\ Kept' /\ FailureHasARead'
  BY <1>1, <1>5, <1>6, RunEnds
<1>8. incomplete' \in BOOLEAN /\ failure' \in BOOLEAN
  <2>1. incomplete \in BOOLEAN
    BY <1>t DEF SearchTypeOK
  <2>2. incomplete' \in BOOLEAN
    BY <1>4, <2>1, Zenon
  <2>3. failure' \in BOOLEAN
    BY <1>1, Zenon
  <2> QED
    BY <2>2, <2>3
<1>9. evicted' \in Nat \cup {Unset}
  BY <1>t, <1>4 DEF SearchTypeOK
<1>10. /\ landing \in Landing /\ landing' \in Landing /\ sequence \in Nat /\ s.id # 0 /\ s.id <= sequence
       /\ NoLanding.sequence = 0
  BY <1>t, <1>2 DEF IInv, OneHolder, SearchTypeOK, NoLanding, Landing, Run
<1>11. LandingIsLive' /\ current' \in Nat /\ selected' \in Nat
  <2>l. /\ landing.sequence <= sequence /\ landing.sequence \in Nat /\ landing.place \in Nat
        /\ landing.sequence = sequence /\ landing.sequence # 0 => landing.place \in results /\ tab = "on"
        /\ current # NoMatch => current \in results
        /\ selected # NoMatch => selected \in results /\ landing.sequence = sequence
        /\ current \in Nat /\ selected \in Nat
    BY <1>t, <1>10 DEF IInv, LandingIsLive, CursorIsLive, SearchTypeOK, Landing
  <2>1. CASE mine /\ Live(s)
    BY <1>1, <1>2, <1>3, <1>10, <2>l, <2>1 DEF LandingIsLive, CursorIsLive, Live, NoMatch
  <2>2. CASE mine /\ ~Live(s)
    BY <1>1, <1>2, <1>3, <1>10, <2>l, <2>2 DEF LandingIsLive, CursorIsLive, Live, NoMatch
  <2>3. CASE ~mine
    BY <1>1, <1>2, <1>3, <1>10, <2>l, <2>3 DEF LandingIsLive, CursorIsLive
  <2> QED
    BY <2>1, <2>2, <2>3
<1>12. SearchTypeOK'
  BY <1>t, <1>1, <1>8, <1>9, <1>10, <1>11 DEF SearchTypeOK
<1> QED
  BY <1>7, <1>11, <1>12 DEF IInv

\* The user goes to the next result, or to the one before.
LEMMA CycleKeeps ==
    ASSUME SearchAssumption, IInv, NEW reverse \in BOOLEAN, Cycle(reverse)
    PROVE  IInv'
<1>t. SearchTypeOK
  BY DEF IInv
<1> DEFINE cursor == IF selected # NoMatch THEN selected ELSE current
           p == IF cursor = NoMatch /\ reverse THEN 1 ELSE cursor
<1>1. /\ tab = "on" /\ Places # {} /\ Select(Beside(p, reverse), FALSE)
      /\ UNCHANGED <<sequence, asked, results, current, pending, incomplete, evicted, runs, extracting, failure, tab>>
  BY DEF Cycle
<1>2. p \in Nat
  BY <1>t DEF SearchTypeOK
<1> HIDE DEF p
<1>3. Beside(p, reverse) \in Places
  BY <1>t, <1>1, <1>2, BesideIsAPlace DEF SearchTypeOK
<1>4. Beside(p, reverse) \in results /\ Beside(p, reverse) \in Nat
  <2>1. results \subseteq Nat
    BY <1>t DEF SearchTypeOK, SearchAssumption
  <2> QED
    BY <1>3, <2>1 DEF Places
<1>5. /\ selected' = Beside(p, reverse) /\ landing'.sequence = sequence /\ landing'.place = Beside(p, reverse)
      /\ landing' \in Landing
  BY <1>t, <1>1, <1>4 DEF Select, Landing, SearchTypeOK
<1>6. OneHolder' /\ PendingIsRead' /\ ReadSoFar' /\ Kept' /\ FailureHasARead'
  BY <1>1, RunsRest
<1>7. SearchTypeOK' /\ LandingIsLive'
  BY <1>t, <1>1, <1>4, <1>5 DEF IInv, SearchTypeOK, LandingIsLive, CursorIsLive
<1> QED
  BY <1>6, <1>7 DEF IInv

---------------------------------------------------------------------------
(* The theorems *)

\* No step breaks the invariant.
LEMMA StepKeeps ==
    ASSUME SearchAssumption, IInv, [Next]_vars
    PROVE  IInv'
<1>1. CASE UNCHANGED vars
  <2>1. SearchTypeOK' /\ LandingIsLive'
    BY <1>1 DEF vars, IInv, SearchTypeOK, LandingIsLive, CursorIsLive
  <2> QED
    BY <1>1, <2>1, RunsRest DEF vars, IInv
<1>2. CASE Search
  BY <1>2, SearchKeeps
<1>3. CASE Clear
  BY <1>3, ClearKeeps
<1>4. CASE \E reverse \in BOOLEAN : Cycle(reverse)
  BY <1>4, CycleKeeps
<1>5. CASE Suspend
  BY <1>5, SuspendKeeps
<1>6. CASE Evict
  BY <1>6, EvictKeeps
<1>7. CASE Activate
  BY <1>7, ActivateKeeps
<1>8. CASE \E shown \in BOOLEAN : Landed(shown)
  BY <1>8, LandedKeeps
<1>9. CASE \E s \in runs : CleanupSettles(s)
  BY <1>9, CleanupSettlesKeeps
<1>10. CASE Reads
  <2> PICK s \in runs : \/ \E room \in BOOLEAN : PreviousSettled(s, room)
                        \/ PreviousTimesOut(s) \/ PageArrives(s) \/ TextArrives(s) \/ Yields(s)
                        \/ ReadFails(s) \/ ReadTimesOut(s)
                        \/ \E shown \in BOOLEAN : Restored(s, shown)
    BY <1>10 DEF Reads
  <2> QED
    BY PreviousSettledKeeps, PreviousTimesOutKeeps, PageArrivesKeeps, TextArrivesKeeps, YieldsKeeps,
       ReadFailsKeeps, ReadTimesOutKeeps, RestoredKeeps
<1> QED
  BY <1>1, <1>2, <1>3, <1>4, <1>5, <1>6, <1>7, <1>8, <1>9, <1>10 DEF Next

\* One run holds the extractor: a set of runs with one number has at most one member.
LEMMA OneExtracts == IInv => OneExtractor
<1> SUFFICES ASSUME IInv PROVE OneExtractor
  OBVIOUS
<1> DEFINE holding == {s \in runs : s.step # "previous"}
<1>1. \A s, t \in holding : s = t
  BY DEF IInv, OneHolder
<1>2. extracting # 0 <=> holding # {}
  BY DEF IInv, OneHolder, SearchTypeOK, Run
<1>3. Cardinality(holding) <= 1
  <2>1. CASE holding = {}
    BY <2>1, FS_EmptySet
  <2>2. CASE holding # {}
    <3>1. PICK h \in holding : TRUE
      BY <2>2
    <3>2. holding = {h}
      BY <1>1, <3>1
    <3> HIDE DEF holding
    <3>3. Cardinality({h}) = 1
      BY FS_Singleton
    <3> QED
      BY <3>2, <3>3
  <2> QED
    BY <2>1, <2>2
<1> QED
  BY <1>2, <1>3 DEF OneExtractor

\* A tab that is shown and has no search under way has every match, or says that it has not.
LEMMA NothingIsLost == IInv => NothingLostSilently
  BY DEF IInv, Kept, NothingLostSilently

\* Whatever is asked of a search, and however its reads, the tab and the memory interleave, what the
\* user sees of it is true: one run reads at a time, no result is lost without a word, no late landing
\* moves the cursor of another search, and a refusal lasts no longer than the read that it is for
\* (PdfContentController.search).
THEOREM SearchIsAlwaysTrue == SearchAssumption => (Spec => []SearchIsTrue)
<1> SUFFICES ASSUME SearchAssumption PROVE Spec => []SearchIsTrue
  OBVIOUS
<1>1. Init => IInv
  BY InitHolds
<1>2. IInv /\ [Next]_vars => IInv'
  BY StepKeeps
<1>3. IInv => SearchIsTrue
  BY OneExtracts, NothingIsLost DEF IInv, LandingIsLive, SearchIsTrue
<1> QED
  BY <1>1, <1>2, <1>3, PTL DEF Spec
=============================================================================
