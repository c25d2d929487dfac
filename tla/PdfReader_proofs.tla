-------------------------- MODULE PdfReader_proofs --------------------------
(***************************************************************************)
(* Proofs about the reader as the owner of documents: whatever times out,  *)
(* fails or is retried, a session is torn down after PDF.js let go of it,  *)
(* and neither a document nor its canvas memory is forgotten.              *)
(***************************************************************************)
EXTENDS PdfReader, TLAPS

USE DEF Op, Disposal

(***************************************************************************)
(* What is known of a candidate by itself.                                 *)
(***************************************************************************)

\* The phases begin when all work has settled, and no work is begun after that.
Begun(c) == c.cursor \in Phase \cup {"finished"} \/ \E k \in Phase : c.phase[k] # "none"
Settled(c) == c.closed /\ c.owned = {} /\ c.staged \in {"none", "completed"}

PhasesInOrder(c) ==
  /\ c.cursor = "finish" \/ c.phase["finish"] # "none" => c.phase["pdf"] = "resolved"
  /\ c.cursor \in {"transport", "finished"} \/ c.phase["transport"] # "none" =>
       c.phase["pdf"] = "resolved" /\ c.phase["finish"] = "resolved"
  /\ c.cursor = "finished" => c.phase["transport"] = "resolved"

\* The overlay is staged when the first page is rendered, and no work begins beside it; a
\* disposal that waits has begun to take it down.
StagedAlone(c) ==
  /\ c.staged # "none" => c.owned = {}
  /\ c.cursor = "ownership" => c.staged # "registered"

CandidateOK(c) ==
  /\ c.closed <=> c.cursor # "none"
  /\ Begun(c) => Settled(c)
  /\ PhasesInOrder(c) /\ StagedAlone(c)
  /\ c.retry # "none" => c.cursor # "none"
  /\ c.retry = "running" => c.cursor \in Running
  /\ c.raster => c.cursor # "finished"
  /\ c.prompt => ~c.closed /\ c.passwordPending /\ c.challenge

(***************************************************************************)
(* What is known of a document d.                                          *)
(***************************************************************************)

\* Nothing happens to a document before it is adopted.
Untouched(d) ==
  ~cand[d].made => cand[d] = NewCandidate /\ native[d] = "open" /\ d \notin {current, opening}

\* A native session may be torn down: nothing was loaded from it and nothing will be, or
\* the disposal of its candidate has come to its last phase.
Spent(d) ==
  IF cand[d].cursor = "none"
  THEN cand[d].made /\ d \notin {current, opening} /\ (Op.doc = d => Op.at = "unload")
  ELSE cand[d].phase["transport"] # "none"

NativeFollows(d) ==
  /\ native[d] # "open" \/ d \in pendingCleanups => Spent(d)
  /\ cand[d].phase["transport"] = "running" => native[d] = "tearing"
  /\ cand[d].phase["transport"] = "resolved" => native[d] = "closed"
  /\ cand[d].phase["transport"] = "rejected" => native[d] # "open" \/ d \in pendingCleanups

\* Whoever is retried was closed, or could not take its overlay down.
MayRetry(c) == c.cursor # "none" \/ c.staged = "rejected"

\* A disposal that stopped is on a list, and a reserved canvas has an owner.
Listed(d) ==
  LET c == cand[d] IN
  /\ d \in quarantined => c.made /\ MayRetry(c)
  /\ d \in pendingCleanups => c.made
  /\ c.cursor = "stopped" => native[d] # "open" \/ d \in quarantined \cup pendingCleanups
  /\ c.made /\ c.cursor = "none" =>
       native[d] # "open" \/ d \in pendingCleanups \/ d \in {current, opening} \/ Op.doc = d
  /\ c.raster /\ c.cursor = "none" => d \in {current, opening} \/ Op.doc = d
  /\ c.raster /\ c.cursor = "stopped" => d \in quarantined

Shown(d) ==
  /\ cand[d].closed => d \notin {current, opening}
  /\ cand[d].prompt => opening = d /\ ~disposed
  /\ cand[d].staged # "none" /\ cand[d].cursor = "none" => Op.doc = d /\ Op.at \in {"staging", "unstaging"}

DocInv(d) ==
  /\ cand[d] \in Candidate /\ native[d] \in {"open", "tearing", "closed"} /\ CandidateOK(cand[d])
  /\ Untouched(d) /\ NativeFollows(d) /\ Listed(d) /\ Shown(d)

(***************************************************************************)
(* What is known of the calls.                                             *)
(***************************************************************************)
Early == {"cleanups", "quarantine", "source", "unload"}
Opening == {"loading", "page", "render", "staging", "unstaging"}
OpenStages == Early \cup Opening \cup {"idle", "failed"}
DisposeStages == {"idle", "quarantine", "opening", "current", "cleanups", "resolved", "rejected"}

CallsOK ==
  /\ proc \in [{"open", "dispose"} ->
         [at : OpenStages \cup DisposeStages, doc : Doc \cup {None},
          todo : SUBSET Doc, wait : Doc \cup {None}, attempt : Nat]]
  /\ Op.at \in OpenStages /\ Disposal.at \in DisposeStages
  /\ Op.doc = None <=> Op.at = "idle"

\* What a call retries is what may be retried.
ListsOK(p) ==
  \A d \in Doc : d \in proc[p].todo \/ d = proc[p].wait =>
    /\ proc[p].at = "quarantine" => MayRetry(cand[d])
    /\ proc[p].at \in {"cleanups", "unload"} => Spent(d)

OpenStage ==
  LET d == Op.doc  c == cand[d] IN
  /\ opening # None => opening = d /\ Op.at \in Opening
  /\ Op.at # "idle" => c.made /\ current = None
  /\ Op.at \in Early => c.cursor = "none" /\ ~c.raster
  /\ Op.at \in Early \cup {"loading"} => c.owned = {} /\ c.staged = "none"
  /\ Op.at = "page" => c.owned \subseteq {"page"} /\ c.staged = "none"
  /\ Op.at = "render" => c.owned \subseteq {"render"} /\ c.staged = "none"
  /\ Op.at = "staging" /\ c.cursor = "none" => c.staged = "registered"
  /\ Op.at = "failed" => c.cursor # "none"
  /\ Op.at = "source" => Op.wait = None
  /\ Op.at = "unload" =>
       (Op.todo = {d} /\ Op.wait = None) \/ native[d] # "open" \/ d \in pendingCleanups

DisposeStage ==
  /\ Disposal.at # "idle" => disposed
  /\ Disposal.at = "current" => current = None

Shape ==
  /\ cand = [d \in Doc |-> cand[d]] /\ native = [d \in Doc |-> native[d]]
  /\ {current, opening} \subseteq Doc \cup {None} /\ disposed \in BOOLEAN
  /\ quarantined \subseteq Doc /\ pendingCleanups \subseteq Doc

ReaderInv ==
  /\ Shape /\ CallsOK
  /\ \A d \in Doc : DocInv(d)
  /\ \A p \in {"open", "dispose"} : ListsOK(p)
  /\ OpenStage /\ DisposeStage

-----------------------------------------------------------------------------
(***************************************************************************)
(* The operators on candidates keep CandidateOK.                           *)
(***************************************************************************)
CandidateInv(c) == c \in Candidate /\ CandidateOK(c)

LEMMA FieldTyped ==
  ASSUME NEW c \in Candidate
  PROVE  /\ [c EXCEPT !.closed = TRUE] \in Candidate
         /\ \A s \in {"none", "registered", "running", "completed", "rejected"} : [c EXCEPT !.staged = s] \in Candidate
         /\ \A k \in Running \cup {"none", "stopped", "finished"} : [c EXCEPT !.cursor = k] \in Candidate
         /\ \A r \in {"none", "waiting", "due", "running"} : [c EXCEPT !.retry = r] \in Candidate
         /\ \A b \in BOOLEAN : [c EXCEPT !.raster = b] \in Candidate
         /\ \A o \in SUBSET Work : [c EXCEPT !.owned = o] \in Candidate
BY DEF Candidate

LEMMA FinishTyped ==
  ASSUME NEW c \in Candidate, NEW terminal \in BOOLEAN
  PROVE  FinishPassword(c, terminal) \in Candidate
BY DEF FinishPassword, AbortPasswordPrompt, Candidate

LEMMA StartTyped == ASSUME NEW c \in Candidate PROVE StartCleanup(c) \in Candidate
<1>1. BeginStaged(c) \in Candidate
  BY DEF BeginStaged, Candidate
<1>2. "ownership" \in Running \cup {"none", "stopped", "finished"}
  BY DEF Running
<1> QED
  BY <1>1, <1>2, FieldTyped DEF StartCleanup

LEMMA CloseOK ==
  ASSUME NEW c, CandidateInv(c)
  PROVE  LET n == Close(c) IN
         /\ CandidateInv(n)
         /\ n.closed /\ ~n.prompt
         /\ n.made = c.made /\ n.owned = c.owned /\ n.phase = c.phase /\ n.raster = c.raster /\ n.retry = c.retry
         /\ n.cursor = IF c.cursor = "none" THEN "ownership" ELSE c.cursor
         /\ n.staged = IF c.cursor = "none" /\ c.staged \in {"registered", "rejected"} THEN "running" ELSE c.staged
<1> DEFINE n == Close(c)
<1>1. c \in Candidate
  BY DEF CandidateInv
<1>2. n \in Candidate
  <2>1. FinishPassword(c, TRUE) \in Candidate
    BY <1>1, FinishTyped
  <2>2. [FinishPassword(c, TRUE) EXCEPT !.closed = TRUE] \in Candidate
    BY <2>1, FieldTyped
  <2> QED
    BY <2>2, StartTyped DEF Close
<1>3. /\ n.closed /\ ~n.prompt
      /\ n.made = c.made /\ n.owned = c.owned /\ n.phase = c.phase /\ n.raster = c.raster /\ n.retry = c.retry
      /\ n.cursor = IF c.cursor = "none" THEN "ownership" ELSE c.cursor
      /\ n.staged = IF c.cursor = "none" /\ c.staged \in {"registered", "rejected"} THEN "running" ELSE c.staged
  BY <1>1 DEF Close, StartCleanup, BeginStaged, FinishPassword, AbortPasswordPrompt, Candidate
<1> HIDE DEF n
<1>4. CandidateOK(n)
  BY <1>1, <1>3 DEF CandidateInv, CandidateOK, Begun, Settled, PhasesInOrder, StagedAlone, Running, Phase
<1> QED
  BY <1>2, <1>3, <1>4 DEF CandidateInv, n

LEMMA CloseAgainOK ==
  ASSUME NEW c, CandidateInv(c)
  PROVE  LET n == CloseAgain(c) IN
         /\ CandidateInv(n)
         /\ n.closed /\ ~n.prompt /\ n.cursor \in Running
         /\ n.made = c.made /\ n.owned = c.owned /\ n.phase = c.phase /\ n.raster = c.raster /\ n.retry = c.retry
         /\ n.staged = IF c.cursor \notin Running /\ c.staged \in {"registered", "rejected"} THEN "running" ELSE c.staged
<1> DEFINE n == CloseAgain(c)
<1>1. c \in Candidate
  BY DEF CandidateInv
<1>2. CASE c.cursor \in Running
  BY <1>2 DEF CandidateInv, CandidateOK, CloseAgain, Running, Phase
<1>3. CASE c.cursor \notin Running
  <2>1. n = StartCleanup([FinishPassword(c, TRUE) EXCEPT !.closed = TRUE])
    BY <1>3 DEF CloseAgain
  <2>2. n \in Candidate
    <3>1. FinishPassword(c, TRUE) \in Candidate
      BY <1>1, FinishTyped
    <3>2. [FinishPassword(c, TRUE) EXCEPT !.closed = TRUE] \in Candidate
      BY <3>1, FieldTyped
    <3> QED
      BY <2>1, <3>2, StartTyped
  <2>3. /\ n.closed /\ ~n.prompt /\ n.cursor = "ownership"
        /\ n.made = c.made /\ n.owned = c.owned /\ n.phase = c.phase /\ n.raster = c.raster /\ n.retry = c.retry
        /\ n.staged = IF c.staged \in {"registered", "rejected"} THEN "running" ELSE c.staged
    BY <1>1, <2>1 DEF StartCleanup, BeginStaged, FinishPassword, AbortPasswordPrompt, Candidate
  <2> HIDE DEF n
  <2>4. CandidateOK(n)
    BY <1>1, <2>3 DEF CandidateInv, CandidateOK, Begun, Settled, PhasesInOrder, StagedAlone, Running, Phase
  <2> QED
    BY <1>3, <2>2, <2>3, <2>4 DEF CandidateInv, n, Running
<1> QED
  BY <1>2, <1>3

\* n differs from c in its retry only.
SameButRetry(n, c) ==
  /\ n.made = c.made /\ n.closed = c.closed /\ n.prompt = c.prompt /\ n.staged = c.staged /\ n.owned = c.owned
  /\ n.raster = c.raster /\ n.cursor = c.cursor /\ n.phase = c.phase

LEMMA RetryOK ==
  ASSUME NEW c, CandidateInv(c), NEW watched, watched => MayRetry(c)
  PROVE  CandidateInv(Retry(c, watched)) /\ SameButRetry(Retry(c, watched), c)
<1> DEFINE n == Retry(c, watched)
<1>1. c \in Candidate
  BY DEF CandidateInv
<1>2. CASE n = c
  BY <1>2 DEF CandidateInv, SameButRetry
<1>3. CASE n # c
  <2>1. PICK r \in {"due", "waiting"} : n = [c EXCEPT !.retry = r]
    BY <1>3 DEF Retry
  <2>2. c.cursor # "none"
    BY <1>3 DEF Retry, MayRetry
  <2> HIDE DEF n
  <2>3. n \in Candidate
    BY <1>1, <2>1, FieldTyped
  <2>4. SameButRetry(n, c) /\ n.retry = r /\ n.passwordPending = c.passwordPending /\ n.challenge = c.challenge
    BY <1>1, <2>1 DEF Candidate, SameButRetry
  <2>5. CandidateOK(n)
    BY <1>1, <2>2, <2>4 DEF CandidateInv, CandidateOK, Begun, Settled, PhasesInOrder, StagedAlone, SameButRetry
  <2> QED
    BY <2>3, <2>4, <2>5 DEF CandidateInv, n
<1> QED
  BY <1>2, <1>3

LEMMA StopOK ==
  ASSUME NEW c, CandidateInv(c), c.cursor \in Running
  PROVE  LET n == Stop(c) IN
         /\ CandidateInv(n) /\ n.cursor = "stopped"
         /\ n.made = c.made /\ n.closed = c.closed /\ n.prompt = c.prompt /\ n.staged = c.staged /\ n.owned = c.owned
         /\ n.raster = c.raster /\ n.phase = c.phase
<1> DEFINE n == Stop(c)
<1>1. c \in Candidate
  BY DEF CandidateInv
<1>2. n \in Candidate
  BY <1>1 DEF Stop, Candidate
<1>3. /\ n.cursor = "stopped" /\ n.retry \in {c.retry, "none"} /\ n.retry # "running"
      /\ n.made = c.made /\ n.closed = c.closed /\ n.prompt = c.prompt /\ n.staged = c.staged /\ n.owned = c.owned
      /\ n.raster = c.raster /\ n.phase = c.phase /\ n.passwordPending = c.passwordPending /\ n.challenge = c.challenge
  BY <1>1 DEF Stop, Candidate
<1> HIDE DEF n
<1>4. CandidateOK(n)
  BY <1>1, <1>3 DEF CandidateInv, CandidateOK, Begun, Settled, PhasesInOrder, StagedAlone, Running, Phase
<1> QED
  BY <1>2, <1>3, <1>4 DEF CandidateInv, n

LEMMA ReleasedOK ==
  ASSUME NEW c, CandidateInv(c)
  PROVE  LET n == Released(c) IN
         /\ CandidateInv(n) /\ ~n.raster
         /\ n.made = c.made /\ n.closed = c.closed /\ n.prompt = c.prompt /\ n.staged = c.staged /\ n.owned = c.owned
         /\ n.cursor = c.cursor /\ n.phase = c.phase /\ n.retry = c.retry
<1> DEFINE n == Released(c)
<1>1. c \in Candidate
  BY DEF CandidateInv
<1>2. n \in Candidate
  BY <1>1, FieldTyped DEF Released
<1>3. /\ ~n.raster
      /\ n.made = c.made /\ n.closed = c.closed /\ n.prompt = c.prompt /\ n.staged = c.staged /\ n.owned = c.owned
      /\ n.cursor = c.cursor /\ n.phase = c.phase /\ n.retry = c.retry
      /\ n.passwordPending = c.passwordPending /\ n.challenge = c.challenge
  BY <1>1 DEF Released, Candidate
<1> HIDE DEF n
<1>4. CandidateOK(n)
  BY <1>1, <1>3 DEF CandidateInv, CandidateOK, Begun, Settled, PhasesInOrder, StagedAlone
<1> QED
  BY <1>2, <1>3, <1>4 DEF CandidateInv, n

PhaseState == {"none", "running", "resolved", "rejected"}

Ended(c, k, v) == [c EXCEPT !.phase[k] = v]

\* A phase that runs may end in any way.
LEMMA PhaseEndsOK ==
  ASSUME NEW c, CandidateInv(c), NEW k \in Phase, c.phase[k] = "running", NEW v \in PhaseState
  PROVE  LET n == Ended(c, k, v) IN
         /\ CandidateInv(n) /\ n.phase = [c.phase EXCEPT ![k] = v]
         /\ n.made = c.made /\ n.closed = c.closed /\ n.prompt = c.prompt /\ n.staged = c.staged /\ n.owned = c.owned
         /\ n.raster = c.raster /\ n.cursor = c.cursor /\ n.retry = c.retry
<1> DEFINE n == Ended(c, k, v)
<1>1. c \in Candidate
  BY DEF CandidateInv
<1>2. [c.phase EXCEPT ![k] = v] \in [Phase -> PhaseState] /\ c.phase \in [Phase -> PhaseState]
  BY <1>1 DEF Candidate, PhaseState
<1>3. n = [c EXCEPT !.phase = [c.phase EXCEPT ![k] = v]]
  BY DEF Ended
<1>4. n \in Candidate
  BY <1>1, <1>2, <1>3 DEF Candidate, PhaseState
<1>5. /\ n.phase = [c.phase EXCEPT ![k] = v]
      /\ n.made = c.made /\ n.closed = c.closed /\ n.prompt = c.prompt /\ n.staged = c.staged /\ n.owned = c.owned
      /\ n.raster = c.raster /\ n.cursor = c.cursor /\ n.retry = c.retry
      /\ n.passwordPending = c.passwordPending /\ n.challenge = c.challenge
  BY <1>1, <1>3 DEF Candidate
<1> HIDE DEF n
<1>6. Begun(n) => Begun(c)
  BY <1>2, <1>5 DEF Begun
<1>7. PhasesInOrder(n)
  BY <1>1, <1>2, <1>5 DEF CandidateInv, CandidateOK, PhasesInOrder, Phase
<1>8. CandidateOK(n)
  BY <1>5, <1>6, <1>7 DEF CandidateInv, CandidateOK, Settled, StagedAlone
<1> QED
  BY <1>4, <1>5, <1>8 DEF CandidateInv, n

\* awaitPhase
Entered(c, k) ==
  LET starts == c.phase[k] = "none" IN
  [c EXCEPT !.cursor = k, !.phase[k] = IF starts THEN "running" ELSE @, !.retryable = @ /\ ~(starts /\ k = "before")]

LEMMA EnteredOK ==
  ASSUME NEW c, CandidateInv(c), NEW k \in Phase, Settled(c),
         k \in {"finish", "transport"} => c.phase["pdf"] = "resolved",
         k = "transport" => c.phase["finish"] = "resolved"
  PROVE  LET n == Entered(c, k) IN
         /\ CandidateInv(n) /\ n.cursor = k
         /\ n.phase = [c.phase EXCEPT ![k] = IF c.phase[k] = "none" THEN "running" ELSE c.phase[k]]
         /\ n.made = c.made /\ n.closed = c.closed /\ n.prompt = c.prompt /\ n.staged = c.staged /\ n.owned = c.owned
         /\ n.raster = c.raster /\ n.retry = c.retry
<1> DEFINE n == Entered(c, k)
           f == [c.phase EXCEPT ![k] = IF c.phase[k] = "none" THEN "running" ELSE c.phase[k]]
           late == c.retryable /\ ~(c.phase[k] = "none" /\ k = "before")
<1>1. c \in Candidate
  BY DEF CandidateInv
<1>2. f \in [Phase -> PhaseState] /\ c.phase \in [Phase -> PhaseState]
  BY <1>1 DEF Candidate, PhaseState
<1>3. n = [c EXCEPT !.cursor = k, !.phase = f, !.retryable = late]
  BY <1>1 DEF Entered, Candidate
<1>4. n \in Candidate
  BY <1>1, <1>2, <1>3 DEF Candidate, PhaseState, Running
<1>5. /\ n.phase = f /\ n.cursor = k
      /\ n.made = c.made /\ n.closed = c.closed /\ n.prompt = c.prompt /\ n.staged = c.staged /\ n.owned = c.owned
      /\ n.raster = c.raster /\ n.retry = c.retry
      /\ n.passwordPending = c.passwordPending /\ n.challenge = c.challenge
  BY <1>1, <1>3 DEF Candidate
<1> HIDE DEF n
<1>6. Settled(n) /\ StagedAlone(n)
  BY <1>5 DEF Settled, StagedAlone
<1>7. PhasesInOrder(n)
  BY <1>1, <1>2, <1>5 DEF CandidateInv, CandidateOK, PhasesInOrder, Phase
<1>8. CandidateOK(n)
  BY <1>5, <1>6, <1>7 DEF CandidateInv, CandidateOK, Phase, Running, Settled
<1> QED
  BY <1>4, <1>5, <1>8 DEF CandidateInv, n

-----------------------------------------------------------------------------
(***************************************************************************)
(* Steps that concern one document, and what the others keep.              *)
(***************************************************************************)
Bystands(e) ==
  /\ cand'[e] = cand[e] /\ native'[e] = native[e]
  /\ current' = e <=> current = e
  /\ opening' = e <=> opening = e
  /\ e \in quarantined' <=> e \in quarantined
  /\ e \in pendingCleanups' <=> e \in pendingCleanups
  /\ cand[e].prompt => ~disposed' \/ disposed
  /\ Op'.doc = e <=> Op.doc = e
  /\ Op.doc = e => Op'.at = Op.at

\* What a call that retries d relies on.
Keeps(d) ==
  /\ Spent(d) => Spent(d)'
  /\ MayRetry(cand[d]) => MayRetry(cand'[d])

LEMMA Bystander ==
  ASSUME NEW e \in Doc, DocInv(e), Bystands(e)
  PROVE  DocInv(e)' /\ Keeps(e)
<1>1. Spent(e) => Spent(e)'
  BY DEF Spent, Bystands
<1>2. NativeFollows(e)'
  BY <1>1 DEF DocInv, NativeFollows, Bystands
<1>3. Untouched(e)' /\ Listed(e)' /\ Shown(e)'
  BY DEF DocInv, Untouched, Listed, Shown, Bystands
<1> QED
  BY <1>1, <1>2, <1>3 DEF DocInv, Keeps, Bystands

\* What settles by itself, late or in time, never begins work and closes nothing.
Tame(c, n) ==
  /\ n.made = c.made /\ n.owned \subseteq c.owned
  /\ n.raster => c.raster
  /\ n.prompt => c.prompt
  /\ n.cursor = "none" <=> c.cursor = "none"
  /\ c.staged = "none" => n.staged = "none"
  /\ c.cursor = "none" /\ c.staged # "running" => n.staged = c.staged
  /\ c.phase["transport"] # "none" => n.phase["transport"] # "none"

Nearly(S, d) == {S, S \cup {d}, S \ {d}}

LEMMA SettleStep ==
  ASSUME ReaderInv, NEW d \in Doc, cand[d].made,
         NEW n, CandidateInv(n), Tame(cand[d], n), cand' = [cand EXCEPT ![d] = n],
         NEW v \in {"open", "tearing", "closed"}, native' = [native EXCEPT ![d] = v],
         quarantined' \in Nearly(quarantined, d), pendingCleanups' \in Nearly(pendingCleanups, d),
         UNCHANGED <<current, opening, disposed, proc>>,
         native[d] # "open" \/ d \in pendingCleanups => native'[d] # "open" \/ d \in pendingCleanups',
         NativeFollows(d)', Listed(d)'
  PROVE  ReaderInv'
<1>1. cand'[d] = n /\ native'[d] = v /\ \A e \in Doc : e # d => cand'[e] = cand[e] /\ native'[e] = native[e]
  BY DEF ReaderInv, Shape
<1>2. Shape'
  BY DEF ReaderInv, Shape, Nearly
<1>3. CallsOK'
  BY DEF ReaderInv, CallsOK
<1>4. \A e \in Doc : e # d => Bystands(e)
  BY <1>1 DEF Bystands, Nearly
<1>5. DocInv(d)
  BY DEF ReaderInv
<1>6. Keeps(d)
  BY <1>1 DEF Keeps, Spent, MayRetry, Tame
<1>7. DocInv(d)'
  <2>1. Untouched(d)'
    BY <1>1 DEF Untouched, Tame
  <2>2. Shown(d)'
    BY <1>1, <1>5 DEF DocInv, Shown, Tame, CandidateInv, CandidateOK
  <2> QED
    BY <1>1, <2>1, <2>2 DEF DocInv, CandidateInv
<1>8. \A e \in Doc : DocInv(e)' /\ Keeps(e)
  BY <1>4, <1>6, <1>7, Bystander DEF ReaderInv
<1>9. \A p \in {"open", "dispose"} : ListsOK(p)'
  BY <1>8 DEF ReaderInv, ListsOK, Keeps
<1>10. OpenStage'
  <2>1. CASE Op.doc = d
    BY <1>1, <2>1 DEF ReaderInv, OpenStage, Tame
  <2>2. CASE Op.doc # d /\ Op.at # "idle"
    <3>1. Op.doc \in Doc
      BY <2>2 DEF ReaderInv, CallsOK
    <3>2. Bystands(Op.doc)
      BY <1>4, <2>2, <3>1
    <3> QED
      BY <2>2, <3>2 DEF ReaderInv, OpenStage, Bystands
  <2>3. CASE Op.at = "idle"
    BY <2>3 DEF ReaderInv, OpenStage, Early, Opening
  <2> QED
    BY <2>1, <2>2, <2>3
<1>11. DisposeStage'
  BY DEF ReaderInv, DisposeStage
<1> QED
  BY <1>2, <1>3, <1>8, <1>9, <1>10, <1>11 DEF ReaderInv

-----------------------------------------------------------------------------
(***************************************************************************)
(* Teardown.                                                               *)
(***************************************************************************)
LEMMA Acts ==
  ASSUME ReaderInv, NEW d \in Doc
  PROVE  /\ CandidateInv(cand[d]) /\ cand[d] \in Candidate
         /\ NativeFollows(d) /\ Listed(d) /\ Shown(d)
         /\ native[d] \in {"open", "tearing", "closed"}
         /\ cand[d].cursor # "none" \/ cand[d].owned # {} \/ cand[d].staged # "none" => cand[d].made
         /\ \A k \in Phase : cand[d].phase[k] # "none" => cand[d].made /\ cand[d].cursor # "none"
<1>1. DocInv(d)
  BY DEF ReaderInv
<1>3. cand[d].cursor # "none" \/ cand[d].owned # {} \/ cand[d].staged # "none" => cand[d].made
  BY <1>1 DEF DocInv, Untouched, NewCandidate
<1>4. \A k \in Phase : cand[d].phase[k] # "none" => cand[d].cursor # "none"
  BY <1>1 DEF DocInv, CandidateOK, Begun, Settled
<1>5. /\ CandidateInv(cand[d]) /\ cand[d] \in Candidate
      /\ NativeFollows(d) /\ Listed(d) /\ Shown(d) /\ native[d] \in {"open", "tearing", "closed"}
  BY <1>1 DEF DocInv, CandidateInv
<1>6. cand[d].cursor # "none" => cand[d].made
  BY <1>3
<1> QED
  BY <1>3, <1>4, <1>5, <1>6

LEMMA ActsOn ==
  ASSUME ReaderInv, NEW d \in Doc
  PROVE  /\ cand = [cand EXCEPT ![d] = cand[d]] /\ native = [native EXCEPT ![d] = native[d]]
         /\ \A n : cand' = [cand EXCEPT ![d] = n] => cand'[d] = n
BY DEF ReaderInv, Shape

LEMMA OwnershipSettledStep ==
  ASSUME ReaderInv, NEW d \in Doc, OwnershipSettled(d)
  PROVE  ReaderInv'
<1> DEFINE c == cand[d]
<1>1. CandidateInv(c) /\ c \in Candidate /\ c.made /\ c.cursor = "ownership" /\ Outstanding(c) = {}
  BY Acts DEF OwnershipSettled
<1>0. /\ NativeFollows(d) /\ Listed(d)
      /\ UNCHANGED <<current, opening, disposed, pendingCleanups, proc>>
  BY Acts DEF OwnershipSettled
<1>2. CASE c.staged = "rejected"
  <2> DEFINE n == Stop(c)
  <2>1. cand' = [cand EXCEPT ![d] = n] /\ quarantined' = quarantined \cup {d} /\ native' = native
    BY <1>2 DEF OwnershipSettled, Quarantine
  <2>2. /\ CandidateInv(n) /\ n.cursor = "stopped"
        /\ n.made = c.made /\ n.closed = c.closed /\ n.prompt = c.prompt /\ n.staged = c.staged /\ n.owned = c.owned
        /\ n.raster = c.raster /\ n.phase = c.phase
    BY <1>1, StopOK DEF Running
  <2> HIDE DEF n
  <2>3. cand'[d] = n /\ native'[d] = native[d]
    BY <2>1, ActsOn
  <2>4. Tame(c, n)
    BY <1>1, <2>2 DEF Tame
  <2>5. NativeFollows(d)' /\ Listed(d)'
    BY <1>0, <1>1, <2>1, <2>2, <2>3 DEF NativeFollows, Listed, Spent, MayRetry
  <2> QED
    BY <1>1, <2>1, <2>2, <2>4, <2>5, ActsOn, Acts, SettleStep DEF OwnershipSettled, Nearly
<1>3. CASE c.staged # "rejected"
  <2> DEFINE n == Entered(c, "before")
  <2>1. cand' = [cand EXCEPT ![d] = n] /\ quarantined' = quarantined /\ native' = native
    BY <1>3 DEF OwnershipSettled, Enter, Entered
  <2>2. Settled(c)
    BY <1>1, <1>3 DEF CandidateInv, CandidateOK, Settled, StagedAlone, Outstanding, Candidate
  <2>3. /\ CandidateInv(n) /\ n.cursor = "before"
        /\ n.phase = [c.phase EXCEPT !["before"] = IF c.phase["before"] = "none" THEN "running" ELSE c.phase["before"]]
        /\ n.made = c.made /\ n.closed = c.closed /\ n.prompt = c.prompt /\ n.staged = c.staged /\ n.owned = c.owned
        /\ n.raster = c.raster /\ n.retry = c.retry
    BY <1>1, <2>2, EnteredOK DEF Phase
  <2> HIDE DEF n
  <2>4. cand'[d] = n /\ native'[d] = native[d]
    BY <2>1, ActsOn
  <2>5. n.phase["transport"] = c.phase["transport"]
    BY <1>1, <2>3 DEF Candidate, Phase
  <2>6. Tame(c, n)
    BY <1>1, <2>3, <2>5 DEF Tame
  <2>7. NativeFollows(d)' /\ Listed(d)'
    <3>1. n.cursor = "before" /\ n.made = c.made /\ n.staged = c.staged /\ n.raster = c.raster
      BY <2>3
    <3> QED
      BY <1>0, <1>1, <2>1, <2>4, <2>5, <3>1 DEF NativeFollows, Listed, Spent, MayRetry
  <2> QED
    BY <1>1, <2>1, <2>3, <2>6, <2>7, ActsOn, Acts, SettleStep DEF OwnershipSettled, Nearly
<1> QED
  BY <1>2, <1>3

LEMMA OwnershipTimeoutStep ==
  ASSUME ReaderInv, NEW d \in Doc, OwnershipTimeout(d)
  PROVE  ReaderInv'
<1> DEFINE c == cand[d]
           m == Retry(c, TRUE)
           n == Stop(m)
<1>1. CandidateInv(c) /\ c \in Candidate /\ c.made /\ c.cursor = "ownership"
  BY Acts DEF OwnershipTimeout
<1>0. /\ NativeFollows(d) /\ Listed(d)
      /\ UNCHANGED <<current, opening, disposed, pendingCleanups, proc>>
  BY Acts DEF OwnershipTimeout
<1>2. cand' = [cand EXCEPT ![d] = n] /\ quarantined' = quarantined \cup {d} /\ native' = native
  BY DEF OwnershipTimeout, Quarantine
<1>3. CandidateInv(m) /\ SameButRetry(m, c)
  BY <1>1, RetryOK DEF MayRetry
<1> HIDE DEF m
<1>4. /\ CandidateInv(n) /\ n.cursor = "stopped"
      /\ n.made = m.made /\ n.closed = m.closed /\ n.prompt = m.prompt /\ n.staged = m.staged /\ n.owned = m.owned
      /\ n.raster = m.raster /\ n.phase = m.phase
  BY <1>1, <1>3, StopOK DEF Running, SameButRetry
<1> HIDE DEF n
<1>5. cand'[d] = n /\ native'[d] = native[d]
  BY <1>2, ActsOn
<1>6. Tame(c, n)
  BY <1>1, <1>3, <1>4 DEF Tame, SameButRetry
<1>7. NativeFollows(d)' /\ Listed(d)'
  BY <1>0, <1>1, <1>2, <1>3, <1>4, <1>5 DEF NativeFollows, Listed, Spent, MayRetry, SameButRetry
<1> QED
  BY <1>1, <1>2, <1>4, <1>6, <1>7, ActsOn, Acts, SettleStep DEF OwnershipTimeout, Nearly

\* A step that leaves the native session and the last phase alone.
LEMMA QuietStep ==
  ASSUME ReaderInv, NEW d \in Doc, cand[d].made,
         NEW n, CandidateInv(n), Tame(cand[d], n), cand' = [cand EXCEPT ![d] = n],
         n.phase["transport"] = cand[d].phase["transport"],
         quarantined' \in {quarantined, quarantined \cup {d}}, d \in quarantined' => MayRetry(n),
         n.cursor = "stopped" => cand[d].cursor = "stopped" \/ d \in quarantined',
         UNCHANGED <<native, current, opening, disposed, pendingCleanups, proc>>
  PROVE  ReaderInv'
<1> DEFINE c == cand[d]
<1>1. NativeFollows(d) /\ Listed(d) /\ native[d] \in {"open", "tearing", "closed"}
  BY Acts
<1>2. cand'[d] = n
  BY ActsOn
<1>3. native' = [native EXCEPT ![d] = native[d]]
  BY ActsOn
<1>4. quarantined' \in Nearly(quarantined, d) /\ pendingCleanups' \in Nearly(pendingCleanups, d)
  BY DEF Nearly
<1>5. n.made = c.made /\ (n.raster => c.raster) /\ (n.cursor = "none" <=> c.cursor = "none")
  BY DEF Tame
<1>6. NativeFollows(d)'
  BY <1>1, <1>2, <1>5 DEF NativeFollows, Spent
<1>7. Listed(d)'
  BY <1>1, <1>2, <1>5 DEF Listed
<1> QED
  BY <1>1, <1>3, <1>4, <1>6, <1>7, SettleStep

LEMMA PhaseResolvesStep ==
  ASSUME ReaderInv, NEW d \in Doc, PhaseResolves(d)
  PROVE  ReaderInv'
<1> DEFINE c == cand[d]
<1>1. PICK k \in {"before", "pdf", "finish"}, v \in {"none", "resolved"} :
        /\ c.phase[k] = "running"
        /\ cand' = [cand EXCEPT ![d] = Retry(Ended(c, k, v), d \in quarantined)]
  BY DEF PhaseResolves, Ended
<1> DEFINE m == Ended(c, k, v)
           n == Retry(m, d \in quarantined)
<1>2. CandidateInv(c) /\ c \in Candidate /\ c.made /\ Listed(d)
  BY <1>1, Acts DEF Phase
<1>3. /\ CandidateInv(m) /\ m.phase = [c.phase EXCEPT ![k] = v]
      /\ m.made = c.made /\ m.closed = c.closed /\ m.prompt = c.prompt /\ m.staged = c.staged /\ m.owned = c.owned
      /\ m.raster = c.raster /\ m.cursor = c.cursor /\ m.retry = c.retry
  <2>1. k \in Phase /\ v \in PhaseState
    BY DEF Phase, PhaseState
  <2> QED
    BY <1>1, <1>2, <2>1, PhaseEndsOK
<1>4. m.phase["transport"] = c.phase["transport"]
  BY <1>2, <1>3 DEF Candidate, Phase
<1> HIDE DEF m
<1>5. d \in quarantined => MayRetry(m)
  BY <1>2, <1>3 DEF Listed, MayRetry
<1>6. CandidateInv(n) /\ SameButRetry(n, m)
  BY <1>3, <1>5, RetryOK
<1>7. cand' = [cand EXCEPT ![d] = n]
  BY <1>1 DEF m
<1> HIDE DEF n
<1>8. Tame(c, n) /\ n.phase["transport"] = c.phase["transport"] /\ (d \in quarantined => MayRetry(n)) /\ n.cursor = c.cursor
  <2>1. /\ n.made = c.made /\ n.owned = c.owned /\ (n.raster => c.raster) /\ (n.prompt => c.prompt)
        /\ n.cursor = c.cursor /\ n.staged = c.staged /\ n.phase["transport"] = c.phase["transport"]
    BY <1>3, <1>4, <1>6 DEF SameButRetry
  <2> QED
    BY <1>3, <1>5, <2>1 DEF Tame, MayRetry
<1>9. UNCHANGED <<native, current, opening, disposed, quarantined, pendingCleanups, proc>>
  BY DEF PhaseResolves
<1> QED
  BY <1>2, <1>6, <1>7, <1>8, <1>9, QuietStep

LEMMA PhaseRejectsStep ==
  ASSUME ReaderInv, NEW d \in Doc, PhaseRejects(d)
  PROVE  ReaderInv'
<1> DEFINE c == cand[d]
<1>1. PICK k \in {"before", "pdf", "finish"}, v \in {"none", "rejected"} :
        /\ c.phase[k] = "running"
        /\ \E w \in {Ended(c, k, v), Retry(Ended(c, k, v), TRUE)} :
              cand' = [cand EXCEPT ![d] = IF c.cursor = k THEN Stop(w) ELSE w]
  BY DEF PhaseRejects, Ended
<1> DEFINE m == Ended(c, k, v)
<1>2. CandidateInv(c) /\ c \in Candidate /\ c.made /\ c.cursor # "none"
  BY <1>1, Acts DEF Phase
<1>3. /\ CandidateInv(m) /\ m.phase = [c.phase EXCEPT ![k] = v]
      /\ m.made = c.made /\ m.closed = c.closed /\ m.prompt = c.prompt /\ m.staged = c.staged /\ m.owned = c.owned
      /\ m.raster = c.raster /\ m.cursor = c.cursor /\ m.retry = c.retry
  <2>1. k \in Phase /\ v \in PhaseState
    BY DEF Phase, PhaseState
  <2>2. c.phase[k] = "running"
    BY <1>1
  <2> QED
    BY <1>2, <2>1, <2>2, PhaseEndsOK
<1>4. m.phase["transport"] = c.phase["transport"]
  BY <1>2, <1>3 DEF Candidate, Phase
<1>5. PICK w : w \in {m, Retry(m, TRUE)} /\ cand' = [cand EXCEPT ![d] = IF c.cursor = k THEN Stop(w) ELSE w]
  BY <1>1
<1> HIDE DEF m
<1>6. CandidateInv(w) /\ SameButRetry(w, m)
  <2>1. MayRetry(m)
    BY <1>2, <1>3 DEF MayRetry
  <2>2. CandidateInv(Retry(m, TRUE)) /\ SameButRetry(Retry(m, TRUE), m) /\ SameButRetry(m, m)
    BY <1>3, <2>1, RetryOK DEF SameButRetry
  <2> QED
    BY <1>3, <1>5, <2>2
<1> DEFINE n == IF c.cursor = k THEN Stop(w) ELSE w
<1>7. CandidateInv(n) /\ n.made = w.made /\ n.prompt = w.prompt /\ n.staged = w.staged /\ n.owned = w.owned
        /\ n.raster = w.raster /\ n.phase = w.phase /\ n.cursor = IF c.cursor = k THEN "stopped" ELSE w.cursor
  <2>1. CASE c.cursor = k
    <3>1. w.cursor \in Running
      BY <1>3, <1>6, <2>1 DEF SameButRetry, Running, Phase
    <3> QED
      BY <1>6, <2>1, <3>1, StopOK
  <2>2. CASE c.cursor # k
    BY <1>6, <2>2
  <2> QED
    BY <2>1, <2>2
<1>8. cand' = [cand EXCEPT ![d] = n]
  BY <1>5
<1> HIDE DEF n
<1>9. Tame(c, n) /\ n.phase["transport"] = c.phase["transport"] /\ MayRetry(n)
  <2>1. /\ n.made = c.made /\ n.owned = c.owned /\ (n.raster => c.raster) /\ (n.prompt => c.prompt)
        /\ n.cursor # "none" /\ n.staged = c.staged /\ n.phase["transport"] = c.phase["transport"]
    BY <1>2, <1>3, <1>4, <1>6, <1>7 DEF SameButRetry
  <2> QED
    BY <1>2, <2>1 DEF Tame, MayRetry
<1>10. quarantined' = quarantined \cup {d} /\ UNCHANGED <<native, current, opening, disposed, pendingCleanups, proc>>
  BY DEF PhaseRejects, Quarantine
<1> QED
  BY <1>2, <1>7, <1>8, <1>9, <1>10, QuietStep

LEMMA PhaseTimeoutStep ==
  ASSUME ReaderInv, NEW d \in Doc, PhaseTimeout(d)
  PROVE  ReaderInv'
<1> DEFINE c == cand[d]
           m == IF c.cursor = "transport" THEN Released(Stop(c)) ELSE Stop(c)
           n == [m EXCEPT !.retryable = @ \/ c.cursor = "before"]
<1>1. CandidateInv(c) /\ c \in Candidate /\ c.made /\ c.cursor \in Phase
  BY Acts DEF PhaseTimeout, Phase
<1>2. /\ cand' = [cand EXCEPT ![d] = n] /\ quarantined' = quarantined \cup {d}
      /\ UNCHANGED <<native, current, opening, disposed, pendingCleanups, proc>>
  BY DEF PhaseTimeout, Quarantine
<1>3. /\ CandidateInv(m) /\ m.cursor = "stopped" /\ m.made = c.made /\ m.prompt = c.prompt /\ m.staged = c.staged
      /\ m.owned = c.owned /\ (m.raster => c.raster) /\ m.phase = c.phase
  <2> DEFINE s == Stop(c)
  <2>1. /\ CandidateInv(s) /\ s.cursor = "stopped" /\ s.made = c.made /\ s.prompt = c.prompt /\ s.staged = c.staged
        /\ s.owned = c.owned /\ s.raster = c.raster /\ s.phase = c.phase
    BY <1>1, StopOK DEF Running
  <2> HIDE DEF s
  <2>2. /\ CandidateInv(Released(s)) /\ Released(s).cursor = "stopped" /\ Released(s).made = c.made
        /\ Released(s).prompt = c.prompt /\ Released(s).staged = c.staged
        /\ Released(s).owned = c.owned /\ ~Released(s).raster /\ Released(s).phase = c.phase
    BY <2>1, ReleasedOK
  <2> QED
    BY <2>1, <2>2 DEF s
<1> HIDE DEF m
<1>4. /\ CandidateInv(n) /\ n.cursor = m.cursor /\ n.made = m.made /\ n.prompt = m.prompt /\ n.staged = m.staged
      /\ n.owned = m.owned /\ n.raster = m.raster /\ n.phase = m.phase
  <2>1. m \in Candidate
    BY <1>3 DEF CandidateInv
  <2>2. n \in Candidate
    BY <2>1 DEF Candidate
  <2>3. /\ n.cursor = m.cursor /\ n.made = m.made /\ n.prompt = m.prompt /\ n.staged = m.staged
        /\ n.owned = m.owned /\ n.raster = m.raster /\ n.phase = m.phase /\ n.closed = m.closed /\ n.retry = m.retry
        /\ n.passwordPending = m.passwordPending /\ n.challenge = m.challenge
    BY <2>1 DEF Candidate
  <2> HIDE DEF n
  <2>4. CandidateOK(n)
    BY <1>3, <2>3 DEF CandidateInv, CandidateOK, Begun, Settled, PhasesInOrder, StagedAlone
  <2> QED
    BY <2>2, <2>3, <2>4 DEF CandidateInv
<1> HIDE DEF n
<1>5. Tame(c, n) /\ n.phase["transport"] = c.phase["transport"] /\ MayRetry(n)
  <2>1. /\ n.made = c.made /\ n.owned = c.owned /\ (n.raster => c.raster) /\ (n.prompt => c.prompt)
        /\ n.cursor = "stopped" /\ c.cursor # "none" /\ n.staged = c.staged /\ n.phase = c.phase
    BY <1>1, <1>3, <1>4 DEF Phase
  <2> QED
    BY <2>1 DEF Tame, MayRetry
<1> QED
  BY <1>1, <1>2, <1>4, <1>5, QuietStep

LEMMA StoppedReleased ==
  ASSUME NEW c, CandidateInv(c), c.cursor \in Running
  PROVE  LET n == Released(Stop(c)) IN
         /\ CandidateInv(n) /\ n.cursor = "stopped" /\ ~n.raster /\ n.made = c.made /\ n.prompt = c.prompt
         /\ n.staged = c.staged /\ n.owned = c.owned /\ n.phase = c.phase /\ n.closed = c.closed
<1> DEFINE s == Stop(c)
<1>1. /\ CandidateInv(s) /\ s.cursor = "stopped" /\ s.made = c.made /\ s.prompt = c.prompt /\ s.staged = c.staged
      /\ s.owned = c.owned /\ s.phase = c.phase /\ s.closed = c.closed
  BY StopOK
<1> HIDE DEF s
<1>2. /\ CandidateInv(Released(s)) /\ Released(s).cursor = "stopped" /\ ~Released(s).raster
      /\ Released(s).made = s.made /\ Released(s).prompt = s.prompt /\ Released(s).staged = s.staged
      /\ Released(s).owned = s.owned /\ Released(s).phase = s.phase /\ Released(s).closed = s.closed
  BY <1>1, ReleasedOK
<1> QED
  BY <1>1, <1>2 DEF s

LEMMA PhaseDoneStep ==
  ASSUME ReaderInv, NEW d \in Doc, PhaseDone(d)
  PROVE  ReaderInv'
<1> DEFINE c == cand[d]
<1>1. CandidateInv(c) /\ c \in Candidate /\ c.made /\ c.cursor \in Phase /\ c.phase[c.cursor] = "resolved"
  BY Acts DEF PhaseDone, Phase
<1>2. /\ NativeFollows(d) /\ Listed(d) /\ native[d] \in {"open", "tearing", "closed"}
      /\ UNCHANGED <<current, opening, disposed, proc>>
  BY Acts DEF PhaseDone
<1>3. CASE c.cursor = "transport"
  <2> DEFINE m == Released(Stop(c))
             n == [m EXCEPT !.cursor = "finished"]
  <2>1. cand' = [cand EXCEPT ![d] = n] /\ quarantined' = quarantined \ {d} /\ pendingCleanups' = pendingCleanups \ {d}
          /\ native' = native
    BY <1>3 DEF PhaseDone
  <2>2. /\ CandidateInv(m) /\ m.cursor = "stopped" /\ ~m.raster /\ m.made = c.made /\ m.prompt = c.prompt
        /\ m.staged = c.staged /\ m.owned = c.owned /\ m.phase = c.phase /\ m.closed = c.closed
    BY <1>1, StoppedReleased DEF Running
  <2>3. c.phase["transport"] = "resolved" /\ Settled(c) /\ PhasesInOrder(c)
    BY <1>1, <1>3 DEF CandidateInv, CandidateOK, Begun
  <2> HIDE DEF m
  <2>4. /\ n \in Candidate /\ n.cursor = "finished" /\ n.raster = m.raster /\ n.made = m.made /\ n.prompt = m.prompt
        /\ n.staged = m.staged /\ n.owned = m.owned /\ n.phase = m.phase /\ n.closed = m.closed /\ n.retry = m.retry
        /\ n.passwordPending = m.passwordPending /\ n.challenge = m.challenge
    <3>1. m \in Candidate
      BY <2>2 DEF CandidateInv
    <3>2. n \in Candidate
      BY <3>1, FieldTyped
    <3> QED
      BY <3>1, <3>2 DEF Candidate
  <2> HIDE DEF n
  <2>5. CandidateInv(n)
    BY <2>2, <2>3, <2>4 DEF CandidateInv, CandidateOK, Begun, Settled, PhasesInOrder, StagedAlone, Running, Phase
  <2>6. Tame(c, n)
    <3>1. /\ n.made = c.made /\ n.owned = c.owned /\ ~n.raster /\ (n.prompt => c.prompt)
          /\ n.cursor # "none" /\ c.cursor # "none" /\ n.staged = c.staged /\ n.phase = c.phase
      BY <1>3, <2>2, <2>4
    <3> QED
      BY <3>1 DEF Tame
  <2>7. cand'[d] = n /\ native[d] = "closed"
    BY <1>2, <2>1, <2>3, ActsOn DEF NativeFollows
  <2>8. NativeFollows(d)' /\ Listed(d)'
    <3>1. n.phase["transport"] = "resolved" /\ n.cursor = "finished" /\ ~n.raster /\ native'[d] = "closed"
      BY <2>1, <2>2, <2>3, <2>4, <2>7
    <3> QED
      BY <1>2, <2>1, <2>7, <3>1 DEF NativeFollows, Listed, Spent
  <2>9. native' = [native EXCEPT ![d] = native[d]] /\ quarantined' \in Nearly(quarantined, d)
          /\ pendingCleanups' \in Nearly(pendingCleanups, d)
    BY <2>1, ActsOn DEF Nearly
  <2> QED
    BY <1>1, <1>2, <2>1, <2>5, <2>6, <2>7, <2>8, <2>9, SettleStep
<1>4. CASE c.cursor # "transport"
  <2> DEFINE k == After[c.cursor]
             n == Entered(c, k)
  <2>1. cand' = [cand EXCEPT ![d] = n] /\ UNCHANGED <<quarantined, pendingCleanups>>
    BY <1>4 DEF PhaseDone, Enter, Entered, NextCursor
  <2>2. k \in {"pdf", "finish", "transport"} /\ k \in Phase
          /\ (k = "pdf" => c.cursor = "before") /\ (k = "finish" => c.cursor = "pdf") /\ (k = "transport" => c.cursor = "finish")
    BY <1>1, <1>4 DEF After, Phase
  <2>3. Settled(c) /\ PhasesInOrder(c)
    BY <1>1 DEF CandidateInv, CandidateOK, Begun
  <2>4. /\ (k \in {"finish", "transport"} => c.phase["pdf"] = "resolved")
        /\ (k = "transport" => c.phase["finish"] = "resolved")
    BY <1>1, <2>2, <2>3 DEF PhasesInOrder
  <2>5. native' = IF c.phase[k] = "none" /\ k = "transport" /\ native[d] = "open"
                  THEN [native EXCEPT ![d] = "tearing"] ELSE native
    BY <1>4 DEF PhaseDone, Enter, NextCursor
  <2> HIDE DEF k
  <2>6. /\ CandidateInv(n) /\ n.cursor = k
        /\ n.phase = [c.phase EXCEPT ![k] = IF c.phase[k] = "none" THEN "running" ELSE c.phase[k]]
        /\ n.made = c.made /\ n.closed = c.closed /\ n.prompt = c.prompt /\ n.staged = c.staged /\ n.owned = c.owned
        /\ n.raster = c.raster /\ n.retry = c.retry
    BY <1>1, <2>2, <2>3, <2>4, EnteredOK
  <2>7. cand'[d] = n
    BY <2>1, ActsOn
  <2> DEFINE starts == k = "transport" /\ c.phase["transport"] = "none"
  <2>8. n.phase["transport"] = IF starts THEN "running" ELSE c.phase["transport"]
    BY <1>1, <2>2, <2>6 DEF Candidate, Phase
  <2> HIDE DEF n
  <2>9. Tame(c, n)
    <3>1. /\ n.made = c.made /\ n.owned = c.owned /\ (n.raster => c.raster) /\ (n.prompt => c.prompt)
          /\ n.cursor # "none" /\ c.cursor # "none" /\ n.staged = c.staged
          /\ (c.phase["transport"] # "none" => n.phase["transport"] # "none")
      BY <1>1, <2>2, <2>6, <2>8 DEF Phase
    <3> QED
      BY <3>1 DEF Tame
  <2>10. c.cursor # "none" /\ n.cursor \notin {"none", "stopped"} /\ n.made = c.made /\ (n.raster => c.raster)
    BY <1>1, <2>2, <2>6 DEF Phase
  <2>11. CASE starts
    <3>1. native[d] = "open" /\ d \notin pendingCleanups
      BY <1>2, <2>10, <2>11 DEF NativeFollows, Spent
    <3>2. native' = [native EXCEPT ![d] = "tearing"] /\ native'[d] = "tearing"
      BY <2>5, <2>11, <3>1 DEF ReaderInv, Shape
    <3>3. NativeFollows(d)' /\ Listed(d)'
      BY <1>1, <1>2, <2>1, <2>7, <2>8, <2>10, <2>11, <3>2 DEF NativeFollows, Listed, Spent, MayRetry
    <3> QED
      BY <1>1, <1>2, <2>1, <2>6, <2>9, <3>2, <3>3, SettleStep DEF Nearly
  <2>12. CASE ~starts
    <3>1. native' = native /\ native' = [native EXCEPT ![d] = native[d]]
      BY <2>5, <2>12, ActsOn
    <3>2. NativeFollows(d)' /\ Listed(d)'
      BY <1>1, <1>2, <2>1, <2>7, <2>8, <2>10, <2>12, <3>1 DEF NativeFollows, Listed, Spent, MayRetry
    <3> QED
      BY <1>1, <1>2, <2>1, <2>6, <2>9, <3>1, <3>2, SettleStep DEF Nearly
  <2> QED
    BY <2>11, <2>12
<1> QED
  BY <1>3, <1>4

LEMMA PhaseBarredStep ==
  ASSUME ReaderInv, NEW d \in Doc, PhaseBarred(d)
  PROVE  ReaderInv'
<1> DEFINE c == cand[d]
<1>1. CandidateInv(c) /\ c \in Candidate /\ c.made /\ c.cursor \in Phase /\ c.phase[c.cursor] = "rejected"
  BY Acts DEF PhaseBarred, Phase
<1>2. /\ NativeFollows(d) /\ Listed(d) /\ native[d] \in {"open", "tearing", "closed"}
      /\ UNCHANGED <<native, current, opening, disposed, proc>>
  BY Acts DEF PhaseBarred
<1>3. CASE c.cursor = "transport"
  <2> DEFINE n == Released(Stop(c))
  <2>1. cand' = [cand EXCEPT ![d] = n] /\ quarantined' = quarantined \ {d} /\ pendingCleanups' = pendingCleanups \cup {d}
    BY <1>3 DEF PhaseBarred
  <2>2. /\ CandidateInv(n) /\ n.cursor = "stopped" /\ ~n.raster /\ n.made = c.made /\ n.prompt = c.prompt
        /\ n.staged = c.staged /\ n.owned = c.owned /\ n.phase = c.phase /\ n.closed = c.closed
    BY <1>1, StoppedReleased DEF Running
  <2> HIDE DEF n
  <2>3. Tame(c, n)
    <3>1. /\ n.made = c.made /\ n.owned = c.owned /\ ~n.raster /\ (n.prompt => c.prompt)
          /\ n.cursor # "none" /\ c.cursor # "none" /\ n.staged = c.staged /\ n.phase = c.phase
      BY <1>3, <2>2
    <3> QED
      BY <3>1 DEF Tame
  <2>4. cand'[d] = n /\ native' = [native EXCEPT ![d] = native[d]]
    BY <1>2, <2>1, ActsOn
  <2>5. NativeFollows(d)' /\ Listed(d)'
    <3>1. n.phase["transport"] = "rejected" /\ n.cursor = "stopped" /\ ~n.raster /\ n.made
      BY <1>1, <1>3, <2>2
    <3> QED
      BY <1>2, <2>1, <2>4, <3>1 DEF NativeFollows, Listed, Spent
  <2> QED
    BY <1>1, <1>2, <2>1, <2>2, <2>3, <2>4, <2>5, SettleStep DEF Nearly
<1>4. CASE c.cursor # "transport"
  <2> DEFINE n == Stop(c)
  <2>1. cand' = [cand EXCEPT ![d] = n] /\ quarantined' = quarantined \cup {d} /\ UNCHANGED pendingCleanups
    BY <1>4 DEF PhaseBarred
  <2>2. /\ CandidateInv(n) /\ n.cursor = "stopped" /\ n.made = c.made /\ n.prompt = c.prompt
        /\ n.staged = c.staged /\ n.owned = c.owned /\ n.phase = c.phase /\ n.raster = c.raster
    BY <1>1, StopOK DEF Running
  <2> HIDE DEF n
  <2>3. Tame(c, n) /\ MayRetry(n)
    <3>1. /\ n.made = c.made /\ n.owned = c.owned /\ (n.raster => c.raster) /\ (n.prompt => c.prompt)
          /\ n.cursor # "none" /\ c.cursor # "none" /\ n.staged = c.staged /\ n.phase = c.phase
      BY <1>1, <2>2 DEF Phase
    <3> QED
      BY <3>1 DEF Tame, MayRetry
  <2> QED
    BY <1>1, <1>2, <2>1, <2>2, <2>3, QuietStep
<1> QED
  BY <1>3, <1>4

LEMMA RetryFieldOK ==
  ASSUME NEW c, CandidateInv(c), NEW r \in {"none", "waiting", "due", "running"},
         r # "none" => c.cursor # "none", r = "running" => c.cursor \in Running
  PROVE  CandidateInv([c EXCEPT !.retry = r]) /\ SameButRetry([c EXCEPT !.retry = r], c)
<1> DEFINE n == [c EXCEPT !.retry = r]
<1>1. c \in Candidate
  BY DEF CandidateInv
<1>2. n \in Candidate
  BY <1>1, FieldTyped
<1>3. SameButRetry(n, c) /\ n.retry = r /\ n.passwordPending = c.passwordPending /\ n.challenge = c.challenge
  BY <1>1 DEF Candidate, SameButRetry
<1> HIDE DEF n
<1>4. CandidateOK(n)
  BY <1>1, <1>3 DEF CandidateInv, CandidateOK, Begun, Settled, PhasesInOrder, StagedAlone, SameButRetry
<1> QED
  BY <1>2, <1>3, <1>4 DEF CandidateInv, n

\* Retrying what changed only in work that settled.
LEMMA WatchStep ==
  ASSUME ReaderInv, NEW d \in Doc, cand[d].made,
         NEW m, CandidateInv(m), Tame(cand[d], m), m.phase = cand[d].phase, m.cursor = cand[d].cursor,
         d \in quarantined => MayRetry(m),
         cand' = [cand EXCEPT ![d] = Retry(m, d \in quarantined)],
         UNCHANGED <<native, current, opening, disposed, quarantined, pendingCleanups, proc>>
  PROVE  ReaderInv'
<1> DEFINE n == Retry(m, d \in quarantined)
<1>1. CandidateInv(n) /\ SameButRetry(n, m)
  BY RetryOK
<1>2. cand' = [cand EXCEPT ![d] = n]
  OBVIOUS
<1> HIDE DEF n
<1>3. Tame(cand[d], n) /\ n.phase = cand[d].phase /\ n.cursor = cand[d].cursor /\ (d \in quarantined => MayRetry(n))
  BY <1>1 DEF Tame, SameButRetry, MayRetry
<1> QED
  BY <1>1, <1>2, <1>3, QuietStep

LEMMA RetryWaitedStep ==
  ASSUME ReaderInv, NEW d \in Doc, RetryWaited(d)
  PROVE  ReaderInv'
<1> DEFINE c == cand[d]
           m == [c EXCEPT !.retry = "none"]
<1>1. CandidateInv(c) /\ Listed(d)
  BY Acts
<1>2. c.cursor # "none" /\ c.made
  <2>1. c.cursor # "none"
    BY <1>1 DEF RetryWaited, CandidateInv, CandidateOK
  <2> QED
    BY <2>1, Acts
<1>3. CandidateInv(m) /\ SameButRetry(m, c)
  BY <1>1, RetryFieldOK
<1>4. cand' = [cand EXCEPT ![d] = Retry(m, d \in quarantined)]
      /\ UNCHANGED <<native, current, opening, disposed, quarantined, pendingCleanups, proc>>
  BY DEF RetryWaited
<1> HIDE DEF m
<1>5. Tame(c, m) /\ m.phase = c.phase /\ m.cursor = c.cursor /\ MayRetry(m)
  BY <1>2, <1>3 DEF SameButRetry, Tame, MayRetry
<1> QED
  BY <1>2, <1>3, <1>4, <1>5, WatchStep

LEMMA RetryRunsStep ==
  ASSUME ReaderInv, NEW d \in Doc, RetryRuns(d)
  PROVE  ReaderInv'
<1> DEFINE c == cand[d]
           m == CloseAgain(c)
           n == [m EXCEPT !.retry = "running"]
<1>1. CandidateInv(c) /\ Listed(d) /\ Shown(d)
  BY Acts
<1>2. c.cursor # "none" /\ c.closed /\ c.made
  <2>1. c.cursor # "none" /\ c.closed
    BY <1>1 DEF RetryRuns, CandidateInv, CandidateOK
  <2> QED
    BY <2>1, Acts
<1>3. /\ CandidateInv(m)
      /\ m.closed /\ ~m.prompt /\ m.cursor \in Running
      /\ m.made = c.made /\ m.owned = c.owned /\ m.phase = c.phase /\ m.raster = c.raster /\ m.retry = c.retry
      /\ m.staged = IF c.cursor \notin Running /\ c.staged \in {"registered", "rejected"} THEN "running" ELSE c.staged
  BY <1>1, CloseAgainOK
<1>4. cand' = [cand EXCEPT ![d] = n] /\ UNCHANGED <<native, disposed, quarantined, pendingCleanups, proc>>
  BY DEF RetryRuns
<1> HIDE DEF m
<1>5. CandidateInv(n) /\ SameButRetry(n, m)
  BY <1>3, RetryFieldOK DEF Running, Phase
<1> HIDE DEF n
<1>6. Tame(c, n) /\ n.phase = c.phase /\ MayRetry(n) /\ n.cursor # "stopped"
  <2>1. /\ n.made = c.made /\ n.owned = c.owned /\ (n.raster => c.raster) /\ ~n.prompt /\ n.phase = c.phase
        /\ n.cursor \in Running /\ (c.staged = "none" => n.staged = "none")
    BY <1>3, <1>5 DEF SameButRetry
  <2>2. n.cursor \notin {"none", "stopped"}
    BY <2>1 DEF Running, Phase
  <2> QED
    BY <1>2, <2>1, <2>2 DEF Tame, MayRetry
<1>7. UNCHANGED <<current, opening>>
  BY <1>1, <1>2 DEF RetryRuns, LetGo, Shown
<1> QED
  BY <1>2, <1>4, <1>5, <1>6, <1>7, QuietStep

SameButOwned(n, c) ==
  /\ n.made = c.made /\ n.closed = c.closed /\ n.prompt = c.prompt /\ n.staged = c.staged /\ n.raster = c.raster
  /\ n.cursor = c.cursor /\ n.phase = c.phase /\ n.retry = c.retry

LEMMA DropsOK ==
  ASSUME NEW c, CandidateInv(c), NEW w
  PROVE  CandidateInv(Drops(c, w)) /\ SameButOwned(Drops(c, w), c) /\ Drops(c, w).owned = c.owned \ {w}
<1> DEFINE n == Drops(c, w)
<1>1. c \in Candidate
  BY DEF CandidateInv
<1>2. c.owned \ {w} \in SUBSET Work
  BY <1>1 DEF Candidate
<1>3. n \in Candidate
  BY <1>1, <1>2, FieldTyped DEF Drops
<1>4. /\ SameButOwned(n, c) /\ n.owned = c.owned \ {w}
      /\ n.passwordPending = c.passwordPending /\ n.challenge = c.challenge
  BY <1>1 DEF Drops, Candidate, SameButOwned
<1> HIDE DEF n
<1>5. CandidateOK(n)
  BY <1>1, <1>4 DEF CandidateInv, CandidateOK, Begun, Settled, PhasesInOrder, StagedAlone, SameButOwned
<1> QED
  BY <1>3, <1>4, <1>5 DEF CandidateInv, n

LEMMA OwnsOK ==
  ASSUME NEW c, CandidateInv(c), NEW w \in Work, ~c.closed, c.staged = "none"
  PROVE  CandidateInv(Owns(c, w)) /\ SameButOwned(Owns(c, w), c) /\ Owns(c, w).owned = c.owned \cup {w}
<1> DEFINE n == Owns(c, w)
<1>1. c \in Candidate
  BY DEF CandidateInv
<1>2. c.owned \cup {w} \in SUBSET Work
  BY <1>1 DEF Candidate
<1>3. n \in Candidate
  BY <1>1, <1>2, FieldTyped DEF Owns
<1>4. /\ SameButOwned(n, c) /\ n.owned = c.owned \cup {w}
      /\ n.passwordPending = c.passwordPending /\ n.challenge = c.challenge
  BY <1>1 DEF Owns, Candidate, SameButOwned
<1> HIDE DEF n
<1>5. CandidateOK(n)
  BY <1>1, <1>4 DEF CandidateInv, CandidateOK, Begun, Settled, PhasesInOrder, StagedAlone, SameButOwned
<1> QED
  BY <1>3, <1>4, <1>5 DEF CandidateInv, n

LEMMA OwnedSettlesStep ==
  ASSUME ReaderInv, NEW d \in Doc, OwnedSettles(d)
  PROVE  ReaderInv'
<1> DEFINE c == cand[d]
<1>1. PICK w \in c.owned : cand' = [cand EXCEPT ![d] = Retry(Drops(c, w), d \in quarantined)]
  BY DEF OwnedSettles
<1> DEFINE m == Drops(c, w)
<1>2. CandidateInv(c) /\ Listed(d) /\ c.made
  BY <1>1, Acts
<1>3. CandidateInv(m) /\ SameButOwned(m, c) /\ m.owned = c.owned \ {w}
  BY <1>2, DropsOK
<1>4. cand' = [cand EXCEPT ![d] = Retry(m, d \in quarantined)]
      /\ UNCHANGED <<native, current, opening, disposed, quarantined, pendingCleanups, proc>>
  BY <1>1 DEF OwnedSettles
<1> HIDE DEF m
<1>5. Tame(c, m) /\ m.phase = c.phase /\ m.cursor = c.cursor /\ (d \in quarantined => MayRetry(m))
  BY <1>2, <1>3 DEF Tame, MayRetry, Listed, SameButOwned
<1> QED
  BY <1>2, <1>3, <1>4, <1>5, WatchStep

LEMMA StagedSettlesStep ==
  ASSUME ReaderInv, NEW d \in Doc, StagedSettles(d)
  PROVE  ReaderInv'
<1> DEFINE c == cand[d]
<1>1. CandidateInv(c) /\ c \in Candidate /\ Listed(d) /\ c.made /\ c.staged = "running"
  BY Acts DEF StagedSettles
<1>2. ASSUME NEW s \in {"completed", "rejected"}
      PROVE  LET m == [c EXCEPT !.staged = s] IN
             CandidateInv(m) /\ Tame(c, m) /\ m.phase = c.phase /\ m.cursor = c.cursor /\ m.staged = s
  <2> DEFINE m == [c EXCEPT !.staged = s]
  <2>1. /\ m \in Candidate /\ m.owned = c.owned /\ m.phase = c.phase /\ m.retry = c.retry
        /\ m.made = c.made /\ m.closed = c.closed /\ m.prompt = c.prompt /\ m.staged = s /\ m.raster = c.raster
        /\ m.cursor = c.cursor /\ m.passwordPending = c.passwordPending /\ m.challenge = c.challenge
    <3>1. m \in Candidate
      BY <1>1, FieldTyped
    <3> QED
      BY <1>1, <3>1 DEF Candidate
  <2> HIDE DEF m
  <2>2. CandidateInv(m)
    BY <1>1, <1>2, <2>1 DEF CandidateInv, CandidateOK, Begun, Settled, PhasesInOrder, StagedAlone
  <2>3. Tame(c, m)
    BY <1>1, <2>1 DEF Tame
  <2> QED
    BY <2>1, <2>2, <2>3 DEF m
<1>3. UNCHANGED <<native, current, opening, disposed, pendingCleanups, proc>>
  BY DEF StagedSettles
<1>4. CASE cand' = [cand EXCEPT ![d] = Retry([c EXCEPT !.staged = "completed"], d \in quarantined)] /\ UNCHANGED quarantined
  <2> DEFINE m == [c EXCEPT !.staged = "completed"]
  <2>1. CandidateInv(m) /\ Tame(c, m) /\ m.phase = c.phase /\ m.cursor = c.cursor
    BY <1>2
  <2>2. d \in quarantined => MayRetry(m)
    BY <1>1, <2>1 DEF Listed, MayRetry
  <2> HIDE DEF m
  <2>3. cand' = [cand EXCEPT ![d] = Retry(m, d \in quarantined)]
    BY <1>4 DEF m
  <2> QED
    BY <1>1, <1>3, <1>4, <2>1, <2>2, <2>3, WatchStep
<1>5. CASE cand' = [cand EXCEPT ![d].staged = "rejected"] /\ quarantined' = quarantined \cup {d}
  <2> DEFINE n == [c EXCEPT !.staged = "rejected"]
  <2>1. CandidateInv(n) /\ Tame(c, n) /\ n.phase = c.phase /\ n.cursor = c.cursor /\ MayRetry(n)
    BY <1>2 DEF MayRetry
  <2>2. cand' = [cand EXCEPT ![d] = n]
    BY <1>5
  <2> HIDE DEF n
  <2> QED
    BY <1>1, <1>3, <1>5, <2>1, <2>2, QuietStep
<1> QED
  BY <1>4, <1>5 DEF StagedSettles, Quarantine

LEMMA TeardownSettlesStep ==
  ASSUME ReaderInv, NEW d \in Doc, TeardownSettles(d)
  PROVE  ReaderInv'
<1> DEFINE c == cand[d]
           inPhase == c.phase["transport"] = "running"
<1>1. /\ CandidateInv(c) /\ c \in Candidate /\ NativeFollows(d) /\ Listed(d) /\ native[d] = "tearing"
      /\ UNCHANGED <<current, opening, disposed, proc>>
  BY Acts DEF TeardownSettles
<1>2. c.made /\ Spent(d)
  <2>1. Untouched(d)
    BY DEF ReaderInv, DocInv
  <2> QED
    BY <1>1, <2>1 DEF Untouched, NativeFollows
<1>3. ASSUME NEW v \in {"resolved", "rejected"}, inPhase
      PROVE  LET m == Ended(c, "transport", v) IN
             /\ CandidateInv(m) /\ m.phase["transport"] = v
             /\ m.made = c.made /\ m.closed = c.closed /\ m.prompt = c.prompt /\ m.staged = c.staged /\ m.owned = c.owned
             /\ m.raster = c.raster /\ m.cursor = c.cursor
  <2> DEFINE m == Ended(c, "transport", v)
  <2>1. "transport" \in Phase /\ v \in PhaseState
    BY DEF Phase, PhaseState
  <2>2. c.phase["transport"] = "running"
    BY <1>3
  <2>3. /\ CandidateInv(m) /\ m.phase = [c.phase EXCEPT !["transport"] = v]
        /\ m.made = c.made /\ m.closed = c.closed /\ m.prompt = c.prompt /\ m.staged = c.staged /\ m.owned = c.owned
        /\ m.raster = c.raster /\ m.cursor = c.cursor /\ m.retry = c.retry
    BY <1>1, <2>1, <2>2, PhaseEndsOK
  <2> HIDE DEF m
  <2>4. m.phase["transport"] = v
    BY <1>1, <2>1, <2>3 DEF Candidate
  <2> QED
    BY <2>3, <2>4 DEF m
<1>4. inPhase => c.cursor # "none"
  BY Acts DEF Phase
<1>5. CASE /\ native' = [native EXCEPT ![d] = "closed"] /\ pendingCleanups' = pendingCleanups \ {d}
           /\ cand' = IF inPhase
                      THEN [cand EXCEPT ![d] = Retry(Ended(c, "transport", "resolved"), d \in quarantined)]
                      ELSE cand
           /\ UNCHANGED quarantined
  <2> DEFINE m == Ended(c, "transport", "resolved")
             n == IF inPhase THEN Retry(m, d \in quarantined) ELSE c
  <2>1. /\ CandidateInv(n) /\ n.made = c.made /\ n.prompt = c.prompt /\ n.staged = c.staged
        /\ n.owned = c.owned /\ n.raster = c.raster /\ n.cursor = c.cursor
        /\ n.phase["transport"] = IF inPhase THEN "resolved" ELSE c.phase["transport"]
    <3>1. CASE inPhase
      <4>1. /\ CandidateInv(m) /\ m.phase["transport"] = "resolved"
            /\ m.made = c.made /\ m.closed = c.closed /\ m.prompt = c.prompt /\ m.staged = c.staged /\ m.owned = c.owned
            /\ m.raster = c.raster /\ m.cursor = c.cursor
        BY <1>3, <3>1
      <4>2. MayRetry(m)
        BY <1>4, <3>1, <4>1 DEF MayRetry
      <4> HIDE DEF m
      <4>3. CandidateInv(Retry(m, d \in quarantined)) /\ SameButRetry(Retry(m, d \in quarantined), m)
        BY <4>1, <4>2, RetryOK
      <4> QED
        BY <3>1, <4>1, <4>3 DEF SameButRetry
    <3>2. CASE ~inPhase
      BY <1>1, <3>2
    <3> QED
      BY <3>1, <3>2
  <2>2. cand' = [cand EXCEPT ![d] = n]
    BY <1>5, ActsOn
  <2> HIDE DEF n
  <2>3. cand'[d] = n /\ native'[d] = "closed"
    BY <1>5, <2>2 DEF ReaderInv, Shape
  <2>4. Tame(c, n)
    <3>1. c.phase["transport"] # "none" => n.phase["transport"] # "none"
      BY <2>1
    <3> QED
      BY <2>1, <3>1 DEF Tame
  <2>5. NativeFollows(d)' /\ Listed(d)'
    <3>1. n.made = c.made /\ n.raster = c.raster /\ n.cursor = c.cursor /\ n.staged = c.staged
            /\ n.phase["transport"] # "running" /\ (c.phase["transport"] # "none" => n.phase["transport"] # "none")
      BY <2>1
    <3> QED
      BY <1>1, <1>2, <1>5, <2>3, <3>1 DEF NativeFollows, Listed, Spent, MayRetry
  <2> QED
    BY <1>1, <1>2, <1>5, <2>1, <2>2, <2>3, <2>4, <2>5, SettleStep DEF Nearly
<1>6. CASE /\ native' = [native EXCEPT ![d] = "open"] /\ pendingCleanups' = pendingCleanups \cup {d}
           /\ IF inPhase
              THEN /\ quarantined' = quarantined \ {d}
                   /\ cand' = [cand EXCEPT ![d] = IF c.cursor = "transport" THEN Stop(Released(Ended(c, "transport", "rejected")))
                                                  ELSE Released(Ended(c, "transport", "rejected"))]
              ELSE UNCHANGED <<cand, quarantined>>
  <2> DEFINE m == Ended(c, "transport", "rejected")
             r == Released(m)
             n == IF inPhase THEN IF c.cursor = "transport" THEN Stop(r) ELSE r ELSE c
  <2>1. /\ CandidateInv(n) /\ n.made = c.made /\ n.prompt = c.prompt /\ n.staged = c.staged
        /\ n.owned = c.owned /\ (n.raster => c.raster /\ ~inPhase)
        /\ (n.cursor = c.cursor \/ (inPhase /\ n.cursor = "stopped"))
        /\ n.phase["transport"] = IF inPhase THEN "rejected" ELSE c.phase["transport"]
    <3>1. CASE inPhase
      <4>1. /\ CandidateInv(m) /\ m.phase["transport"] = "rejected"
            /\ m.made = c.made /\ m.closed = c.closed /\ m.prompt = c.prompt /\ m.staged = c.staged /\ m.owned = c.owned
            /\ m.raster = c.raster /\ m.cursor = c.cursor
        BY <1>3, <3>1
      <4> HIDE DEF m
      <4>2. /\ CandidateInv(r) /\ r.phase["transport"] = "rejected"
            /\ r.made = c.made /\ r.closed = c.closed /\ r.prompt = c.prompt /\ r.staged = c.staged /\ r.owned = c.owned
            /\ ~r.raster /\ r.cursor = c.cursor
        BY <4>1, ReleasedOK
      <4> HIDE DEF r
      <4>3. CASE c.cursor = "transport"
        <5>1. r.cursor \in Running
          BY <4>2, <4>3 DEF Running, Phase
        <5>2. /\ CandidateInv(Stop(r)) /\ Stop(r).cursor = "stopped"
              /\ Stop(r).made = r.made /\ Stop(r).closed = r.closed /\ Stop(r).prompt = r.prompt
              /\ Stop(r).staged = r.staged /\ Stop(r).owned = r.owned
              /\ Stop(r).raster = r.raster /\ Stop(r).phase = r.phase
          BY <4>2, <5>1, StopOK
        <5> QED
          BY <3>1, <4>2, <4>3, <5>2
      <4>4. CASE c.cursor # "transport"
        BY <3>1, <4>2, <4>4
      <4> QED
        BY <4>3, <4>4
    <3>2. CASE ~inPhase
      BY <1>1, <3>2
    <3> QED
      BY <3>1, <3>2
  <2>2. cand' = [cand EXCEPT ![d] = n] /\ quarantined' \in Nearly(quarantined, d)
    BY <1>6, ActsOn DEF Nearly
  <2> HIDE DEF n
  <2>3. cand'[d] = n /\ native'[d] = "open"
    BY <1>6, <2>2 DEF ReaderInv, Shape
  <2>4. Tame(c, n)
    <3>1. /\ c.phase["transport"] # "none" => n.phase["transport"] # "none"
          /\ n.cursor = "none" <=> c.cursor = "none"
          /\ n.raster => c.raster
      BY <1>4, <2>1
    <3> QED
      BY <2>1, <3>1 DEF Tame
  <2>5. NativeFollows(d)' /\ Listed(d)'
    <3>1. n.made = c.made /\ (n.raster => c.raster /\ ~inPhase) /\ n.staged = c.staged
            /\ n.phase["transport"] \notin {"running", "resolved"}
            /\ (c.phase["transport"] # "none" => n.phase["transport"] # "none")
      BY <1>1, <2>1 DEF NativeFollows
    <3>2. n.cursor = c.cursor \/ (inPhase /\ n.cursor = "stopped")
      BY <2>1
    <3>3. quarantined' = IF inPhase THEN quarantined \ {d} ELSE quarantined
      BY <1>6
    <3>4. NativeFollows(d)'
      BY <1>1, <1>2, <1>4, <1>6, <2>3, <3>1, <3>2 DEF NativeFollows, Spent
    <3>5. Listed(d)'
      BY <1>1, <1>2, <1>4, <1>6, <2>3, <3>1, <3>2, <3>3 DEF Listed, MayRetry
    <3> QED
      BY <3>4, <3>5
  <2> QED
    BY <1>1, <1>2, <1>6, <2>1, <2>2, <2>3, <2>4, <2>5, SettleStep DEF Nearly
<1> QED
  BY <1>5, <1>6 DEF TeardownSettles, Ended

-----------------------------------------------------------------------------
(***************************************************************************)
(* The steps of the calls.                                                 *)
(***************************************************************************)
\* What a call has to retry comes from what it had, or from a list.
ListsFrom(p) ==
  \A e \in Doc : e \in proc'[p].todo \/ e = proc'[p].wait =>
    \/ proc'[p].at \notin {"quarantine", "cleanups", "unload"}
    \/ proc'[p].at = proc[p].at /\ (e \in proc[p].todo \/ e = proc[p].wait)
    \/ proc'[p].at = "quarantine" /\ e \in quarantined
    \/ proc'[p].at \in {"cleanups", "unload"} /\ (e \in pendingCleanups \/ Spent(e)')

LEMMA Compose ==
  ASSUME ReaderInv, NEW D \in SUBSET Doc,
         \A e \in D : DocInv(e)' /\ Keeps(e),
         \A e \in Doc \ D : Bystands(e),
         Shape', CallsOK', ListsFrom("open"), ListsFrom("dispose"), OpenStage', DisposeStage'
  PROVE  ReaderInv'
<1>1. \A e \in Doc : DocInv(e)' /\ Keeps(e)
  BY Bystander DEF ReaderInv
<1>2. ASSUME NEW p \in {"open", "dispose"} PROVE ListsOK(p)'
  <2> SUFFICES ASSUME NEW e \in Doc, e \in proc'[p].todo \/ e = proc'[p].wait
               PROVE  /\ proc'[p].at = "quarantine" => MayRetry(cand'[e])
                      /\ proc'[p].at \in {"cleanups", "unload"} => Spent(e)'
    BY DEF ListsOK
  <2>1. ListsFrom(p)
    OBVIOUS
  <2>2. Keeps(e)
    BY <1>1
  <2>3. /\ e \in quarantined => MayRetry(cand[e])
        /\ e \in pendingCleanups => Spent(e)
    BY DEF ReaderInv, DocInv, Listed, NativeFollows
  <2>4. e \in proc[p].todo \/ e = proc[p].wait =>
          /\ proc[p].at = "quarantine" => MayRetry(cand[e])
          /\ proc[p].at \in {"cleanups", "unload"} => Spent(e)
    BY DEF ReaderInv, ListsOK
  <2> QED
    BY <2>1, <2>2, <2>3, <2>4 DEF ListsFrom, Keeps
<1> QED
  BY <1>1, <1>2 DEF ReaderInv

LEMMA FinishOK ==
  ASSUME NEW c, CandidateInv(c), NEW terminal \in BOOLEAN
  PROVE  LET n == FinishPassword(c, terminal) IN
         /\ CandidateInv(n) /\ ~n.prompt
         /\ n.made = c.made /\ n.closed = c.closed /\ n.staged = c.staged /\ n.owned = c.owned /\ n.raster = c.raster
         /\ n.cursor = c.cursor /\ n.phase = c.phase /\ n.retry = c.retry
<1> DEFINE n == FinishPassword(c, terminal)
<1>1. c \in Candidate
  BY DEF CandidateInv
<1>2. n \in Candidate
  BY <1>1, FinishTyped
<1>3. /\ ~n.prompt
      /\ n.made = c.made /\ n.closed = c.closed /\ n.staged = c.staged /\ n.owned = c.owned /\ n.raster = c.raster
      /\ n.cursor = c.cursor /\ n.phase = c.phase /\ n.retry = c.retry
  BY <1>1 DEF FinishPassword, AbortPasswordPrompt, Candidate
<1> HIDE DEF n
<1>4. CandidateOK(n)
  BY <1>3 DEF CandidateInv, CandidateOK, Begun, Settled, PhasesInOrder, StagedAlone
<1> QED
  BY <1>2, <1>3, <1>4 DEF CandidateInv, n

LEMMA CallsUnchanged ==
  ASSUME ReaderInv
  PROVE  /\ UNCHANGED proc => CallsOK' /\ ListsFrom("open") /\ ListsFrom("dispose")
         /\ Op'.at = Op.at /\ Op'.todo = Op.todo /\ Op'.wait = Op.wait => ListsFrom("open")
         /\ Disposal' = Disposal => ListsFrom("dispose")
         /\ Op.at # "idle" => Op.doc \in Doc /\ cand[Op.doc].made /\ current = None
         /\ opening # None => opening = Op.doc /\ opening \in Doc /\ Op.at \in Opening
         /\ \A d \in Doc : cand[d].closed => d \notin {current, opening}
BY DEF ReaderInv, CallsOK, ListsFrom, OpenStage, Early, Opening, DocInv, Shown, Shape

\* Others stand by while one document is dealt with.
LEMMA Others ==
  ASSUME ReaderInv, NEW d \in Doc, NEW n, cand' = [cand EXCEPT ![d] = n], UNCHANGED native,
         quarantined' \in Nearly(quarantined, d), pendingCleanups' \in Nearly(pendingCleanups, d),
         opening' \in {opening, None, d}, opening' # opening => opening \in {None, d},
         current' \in {current, None, d}, current' # current => current \in {None, d},
         (Op'.doc = Op.doc /\ Op'.at = Op.at) \/ (Op.doc \in {None, d} /\ Op'.doc \in {None, d}),
         disposed' = disposed
  PROVE  /\ \A e \in Doc \ {d} : Bystands(e)
         /\ Shape' /\ cand'[d] = n /\ native'[d] = native[d]
<1>1. None \notin Doc
  BY ReaderAssumption
<1>2. Shape' /\ cand'[d] = n /\ native'[d] = native[d]
  BY DEF ReaderInv, Shape, Nearly
<1>3. ASSUME NEW e \in Doc \ {d} PROVE Bystands(e)
  <2>1. cand'[e] = cand[e] /\ native'[e] = native[e]
    BY DEF ReaderInv, Shape
  <2>2. /\ current' = e <=> current = e
        /\ opening' = e <=> opening = e
        /\ e \in quarantined' <=> e \in quarantined
        /\ e \in pendingCleanups' <=> e \in pendingCleanups
    BY <1>1 DEF Nearly
  <2>3. /\ Op'.doc = e <=> Op.doc = e
        /\ Op.doc = e => Op'.at = Op.at
    BY <1>1
  <2> QED
    BY <2>1, <2>2, <2>3 DEF Bystands
<1> QED
  BY <1>2, <1>3

\* Closing the candidate of the document that is shown or being opened.
LEMMA DisposeOK ==
  ASSUME ReaderInv, NEW d \in Doc, cand[d].made,
         d \in {current, opening} \/ (Op.doc = d /\ Op.at # "unload") \/ cand[d].cursor # "none",
         NEW n, CandidateInv(n), n.closed, ~n.prompt, n.made, n.cursor # "none", n.cursor # "stopped" \/ n.cursor = cand[d].cursor,
         n.phase = cand[d].phase, n.raster = cand[d].raster,
         cand' = [cand EXCEPT ![d] = n],
         opening' = IF opening = d THEN None ELSE opening,
         current' = IF current = d THEN None ELSE current,
         Op'.doc = Op.doc, Op.doc = d \/ Op'.at = Op.at,
         UNCHANGED <<native, disposed, quarantined, pendingCleanups>>
  PROVE  /\ \A e \in {d} : DocInv(e)' /\ Keeps(e)
         /\ \A e \in Doc \ {d} : Bystands(e)
         /\ Shape' /\ cand'[d] = n
<1>1. /\ \A e \in Doc \ {d} : Bystands(e)
      /\ Shape' /\ cand'[d] = n /\ native'[d] = native[d]
  BY Others DEF Nearly
<1>2. CandidateInv(cand[d]) /\ NativeFollows(d) /\ Listed(d) /\ Shown(d) /\ native[d] \in {"open", "tearing", "closed"}
  BY Acts
<1>3. Spent(d) => cand[d].phase["transport"] # "none"
  BY DEF Spent
<1>4. Keeps(d)
  BY <1>1, <1>3 DEF Keeps, Spent, MayRetry
<1>5. NativeFollows(d)'
  BY <1>1, <1>2, <1>4 DEF NativeFollows, Keeps
<1>6. d \notin {current', opening'}
  BY ReaderAssumption
<1>7. Listed(d)' /\ Shown(d)' /\ Untouched(d)'
  BY <1>1, <1>2, <1>6 DEF Listed, Shown, Untouched, MayRetry
<1> QED
  BY <1>1, <1>2, <1>4, <1>5, <1>7 DEF DocInv, CandidateInv

LEMMA DisposeCandidateOK ==
  ASSUME ReaderInv, NEW d \in Doc, DisposeCandidate(d)
  PROVE  LET n == Close(cand[d]) IN
         /\ cand' = [cand EXCEPT ![d] = n] /\ CandidateInv(n)
         /\ n.closed /\ ~n.prompt /\ n.made = cand[d].made /\ n.cursor # "none"
         /\ n.cursor # "stopped" \/ n.cursor = cand[d].cursor
         /\ n.owned = cand[d].owned /\ n.phase = cand[d].phase /\ n.raster = cand[d].raster
         /\ opening' = IF opening = d THEN None ELSE opening
         /\ current' = IF current = d THEN None ELSE current
<1> DEFINE n == Close(cand[d])
<1>1. CandidateInv(cand[d]) /\ Shown(d)
  BY Acts
<1>2. /\ CandidateInv(n)
      /\ n.closed /\ ~n.prompt
      /\ n.made = cand[d].made /\ n.owned = cand[d].owned /\ n.phase = cand[d].phase /\ n.raster = cand[d].raster
      /\ n.cursor = IF cand[d].cursor = "none" THEN "ownership" ELSE cand[d].cursor
  BY <1>1, CloseOK
<1>3. cand' = [cand EXCEPT ![d] = n]
  BY DEF DisposeCandidate
<1> HIDE DEF n
<1>4. cand[d].cursor # "none" => d \notin {current, opening}
  BY <1>1 DEF CandidateInv, CandidateOK, Shown
<1>5. /\ opening' = IF opening = d THEN None ELSE opening
      /\ current' = IF current = d THEN None ELSE current
  BY <1>4 DEF DisposeCandidate, LetGo
<1> QED
  BY <1>2, <1>3, <1>5 DEF n

LEMMA GotoOK ==
  ASSUME ReaderInv, NEW at \in OpenStages, Op.at # "idle", at # "idle", Goto(at)
  PROVE  /\ CallsOK' /\ Op'.at = at /\ Op'.doc = Op.doc /\ Op'.todo = {} /\ Op'.wait = Op.wait /\ Disposal' = Disposal
         /\ at \notin {"quarantine", "cleanups", "unload"} => ListsFrom("open")
         /\ ListsFrom("dispose")
<1>1. /\ proc \in [{"open", "dispose"} ->
             [at : OpenStages \cup DisposeStages, doc : Doc \cup {None},
              todo : SUBSET Doc, wait : Doc \cup {None}, attempt : Nat]]
      /\ Disposal.at \in DisposeStages /\ (Op.doc = None <=> Op.at = "idle")
  BY DEF ReaderInv, CallsOK
<1>2. /\ Op'.at = at /\ Op'.doc = Op.doc /\ Op'.todo = {} /\ Op'.wait = Op.wait /\ Disposal' = Disposal
      /\ proc' \in [{"open", "dispose"} ->
             [at : OpenStages \cup DisposeStages, doc : Doc \cup {None},
              todo : SUBSET Doc, wait : Doc \cup {None}, attempt : Nat]]
  BY <1>1 DEF Goto
<1>3. CallsOK'
  BY <1>1, <1>2 DEF CallsOK
<1> QED
  BY <1>2, <1>3, CallsUnchanged DEF ListsFrom

LEMMA DisposeStays == ReaderInv /\ Disposal' = Disposal /\ disposed' = disposed /\ current' \in {current, None} => DisposeStage'
BY DEF ReaderInv, DisposeStage

\* The open fails: its candidate is closed, whoever closed it.
LEMMA FailedStep ==
  ASSUME ReaderInv, Op.at \notin {"idle", "unload"}, NEW d \in Doc, Op.doc = d, Goto("failed"),
         NEW n, CandidateInv(n), n.closed, ~n.prompt, n.made = cand[d].made, n.cursor # "none",
         n.cursor # "stopped" \/ n.cursor = cand[d].cursor,
         n.phase = cand[d].phase, n.raster = cand[d].raster,
         cand' = [cand EXCEPT ![d] = n],
         opening' = IF opening = d THEN None ELSE opening,
         current' = IF current = d THEN None ELSE current,
         UNCHANGED <<native, disposed, quarantined, pendingCleanups>>
  PROVE  ReaderInv'
<1>1. cand[d].made /\ current = None /\ (opening # None => opening = d)
  BY CallsUnchanged
<1>2. /\ CallsOK' /\ Op'.at = "failed" /\ Op'.doc = d /\ Disposal' = Disposal
      /\ ListsFrom("open") /\ ListsFrom("dispose")
  BY GotoOK DEF OpenStages
<1>3. /\ \A e \in {d} : DocInv(e)' /\ Keeps(e)
      /\ \A e \in Doc \ {d} : Bystands(e)
      /\ Shape' /\ cand'[d] = n
  BY <1>1, <1>2, DisposeOK
<1>4. OpenStage'
  <2>1. opening' = None /\ current' = None
    BY <1>1
  <2> QED
    BY <1>1, <1>2, <1>3, <2>1 DEF OpenStage, Early, Opening
<1>5. DisposeStage'
  BY <1>1, <1>2, DisposeStays
<1>6. {d} \in SUBSET Doc
  OBVIOUS
<1> QED
  BY <1>2, <1>3, <1>4, <1>5, <1>6, Compose

LEMMA FailStep ==
  ASSUME ReaderInv, Op.at \notin {"idle", "unload"}, Fail,
         UNCHANGED <<native, disposed, quarantined, pendingCleanups>>
  PROVE  ReaderInv'
<1>1. PICK d \in Doc : Op.doc = d
  BY CallsUnchanged
<1> DEFINE n == Close(cand[d])
<1>2. Goto("failed") /\ DisposeCandidate(d)
  BY <1>1 DEF Fail
<1>3. /\ cand' = [cand EXCEPT ![d] = n] /\ CandidateInv(n)
      /\ n.closed /\ ~n.prompt /\ n.made = cand[d].made /\ n.cursor # "none"
      /\ n.cursor # "stopped" \/ n.cursor = cand[d].cursor
      /\ n.phase = cand[d].phase /\ n.raster = cand[d].raster
      /\ opening' = IF opening = d THEN None ELSE opening
      /\ current' = IF current = d THEN None ELSE current
  BY <1>2, DisposeCandidateOK
<1> HIDE DEF n
<1> QED
  BY <1>1, <1>2, <1>3, FailedStep

\* A document is given up while the open stays where it is.
LEMMA WithdrawStep ==
  ASSUME ReaderInv, NEW d \in Doc, cand[d].made,
         d \in {current, opening} \/ (Op.doc = d /\ Op.at # "unload") \/ cand[d].cursor # "none",
         Op.doc = d => Op.at \notin Early,
         Op'.doc = Op.doc, Op'.at = Op.at, Op.at \in {"source", "unload"} => Op' = Op,
         CallsOK', ListsFrom("open"), ListsFrom("dispose"), DisposeStage',
         NEW n, CandidateInv(n), n.closed, ~n.prompt, n.made = cand[d].made, n.cursor # "none",
         n.cursor # "stopped" \/ n.cursor = cand[d].cursor,
         n.owned = cand[d].owned, n.phase = cand[d].phase, n.raster = cand[d].raster,
         cand[d].staged = "none" => n.staged = "none",
         cand' = [cand EXCEPT ![d] = n],
         opening' = IF opening = d THEN None ELSE opening,
         current' = IF current = d THEN None ELSE current,
         UNCHANGED <<native, disposed, quarantined, pendingCleanups>>
  PROVE  ReaderInv'
<1>1. /\ \A e \in {d} : DocInv(e)' /\ Keeps(e)
      /\ \A e \in Doc \ {d} : Bystands(e)
      /\ Shape' /\ cand'[d] = n
  BY DisposeOK
<1>2. OpenStage'
  <2>1. CASE Op.doc = d
    <3>1. Op.at # "idle" /\ current = None /\ (opening # None => opening = d)
      BY <2>1, CallsUnchanged, ReaderAssumption DEF ReaderInv, CallsOK
    <3>2. /\ Op.at = "page" => n.owned \subseteq {"page"} /\ n.staged = "none"
          /\ Op.at = "render" => n.owned \subseteq {"render"} /\ n.staged = "none"
          /\ Op.at = "loading" => n.owned = {} /\ n.staged = "none"
      BY <2>1 DEF ReaderInv, OpenStage
    <3>3. opening' = None /\ current' = None /\ n.made /\ Op.at \notin Early
      BY <2>1, <3>1
    <3> QED
      BY <1>1, <2>1, <3>1, <3>2, <3>3 DEF OpenStage, Early
  <2>2. CASE Op.doc # d
    <3>1. opening # d /\ opening' = opening
      BY <2>2, CallsUnchanged, ReaderAssumption
    <3>2. CASE Op.at = "idle"
      BY <3>1, <3>2 DEF ReaderInv, OpenStage, Opening, Early
    <3>3. CASE Op.at # "idle"
      <4>1. Bystands(Op.doc)
        BY <1>1, <2>2, <3>3, CallsUnchanged
      <4>2. current' = None
        BY <3>3, CallsUnchanged
      <4> QED
        BY <3>1, <3>3, <4>1, <4>2 DEF ReaderInv, OpenStage, Bystands
    <3> QED
      BY <3>2, <3>3
  <2> QED
    BY <2>1, <2>2
<1>3. {d} \in SUBSET Doc
  OBVIOUS
<1> QED
  BY <1>1, <1>2, <1>3, Compose

\* A document leaves the display; the calls stay where they are.
LEMMA LeaveStep ==
  ASSUME ReaderInv, NEW d \in Doc, d \in {current, opening}, UNCHANGED proc,
         NEW n, CandidateInv(n), n.closed, ~n.prompt, n.made = cand[d].made, n.cursor # "none",
         n.cursor # "stopped" \/ n.cursor = cand[d].cursor,
         n.owned = cand[d].owned, n.phase = cand[d].phase, n.raster = cand[d].raster,
         cand[d].staged = "none" => n.staged = "none",
         cand' = [cand EXCEPT ![d] = n],
         opening' = IF opening = d THEN None ELSE opening,
         current' = IF current = d THEN None ELSE current,
         UNCHANGED <<native, disposed, quarantined, pendingCleanups>>
  PROVE  ReaderInv'
<1>1. cand[d].made
  BY DEF ReaderInv, DocInv, Untouched
<1>2. Op.doc = d => Op.at \notin Early
  <2>1. Op.doc = d => Op.at # "idle" /\ current # d
    BY CallsUnchanged, ReaderAssumption DEF ReaderInv, CallsOK
  <2> QED
    BY <2>1, CallsUnchanged, ReaderAssumption DEF Opening, Early
<1>3. /\ CallsOK' /\ ListsFrom("open") /\ ListsFrom("dispose") /\ DisposeStage'
      /\ Op'.doc = Op.doc /\ Op'.at = Op.at /\ Op' = Op
  BY CallsUnchanged, DisposeStays
<1> QED
  BY <1>1, <1>2, <1>3, WithdrawStep

LEMMA CloseStaged ==
  ASSUME NEW c, CandidateInv(c)
  PROVE  c.staged = "none" => Close(c).staged = "none"
BY CloseOK

LEMMA TransportFailsStep ==
  ASSUME ReaderInv, NEW d \in Doc, TransportFails(d)
  PROVE  ReaderInv'
<1> DEFINE n == Close(cand[d])
<1>1. /\ d \in {current, opening} /\ DisposeCandidate(d)
      /\ UNCHANGED <<native, disposed, quarantined, pendingCleanups, proc>>
  BY DEF TransportFails
<1>2. /\ cand' = [cand EXCEPT ![d] = n] /\ CandidateInv(n)
      /\ n.closed /\ ~n.prompt /\ n.made = cand[d].made /\ n.cursor # "none"
      /\ n.cursor # "stopped" \/ n.cursor = cand[d].cursor
      /\ n.owned = cand[d].owned /\ n.phase = cand[d].phase /\ n.raster = cand[d].raster
      /\ opening' = IF opening = d THEN None ELSE opening
      /\ current' = IF current = d THEN None ELSE current
  BY <1>1, DisposeCandidateOK
<1>3. cand[d].staged = "none" => n.staged = "none"
  BY Acts, CloseStaged
<1> HIDE DEF n
<1> QED
  BY <1>1, <1>2, <1>3, LeaveStep

LEMMA PasswordAskedStep ==
  ASSUME ReaderInv, PasswordAsked
  PROVE  ReaderInv'
<1>0. PICK d \in Doc : d = opening
  BY CallsUnchanged DEF PasswordAsked
<1> DEFINE c == cand[d]
           n == [AbortPasswordPrompt(c) EXCEPT !.challenge = TRUE, !.passwordPending = TRUE, !.prompt = TRUE]
<1>1. opening = d /\ Op.doc = d /\ Op.at = "loading" /\ ~c.closed /\ ~disposed /\ c.made
  BY <1>0, CallsUnchanged DEF PasswordAsked
<1>2. /\ cand' = [cand EXCEPT ![d] = n]
      /\ UNCHANGED <<native, current, opening, disposed, quarantined, pendingCleanups, proc>>
  BY <1>0 DEF PasswordAsked
<1>3. CandidateInv(c) /\ c \in Candidate /\ NativeFollows(d) /\ Listed(d) /\ Shown(d) /\ native[d] \in {"open", "tearing", "closed"}
  BY <1>1, Acts
<1>4. /\ n \in Candidate /\ n.made = c.made /\ n.closed = c.closed /\ n.staged = c.staged /\ n.owned = c.owned
      /\ n.raster = c.raster /\ n.cursor = c.cursor /\ n.phase = c.phase /\ n.retry = c.retry
      /\ n.prompt /\ n.passwordPending /\ n.challenge
  BY <1>3 DEF AbortPasswordPrompt, Candidate
<1> HIDE DEF n
<1>5. CandidateInv(n)
  BY <1>1, <1>3, <1>4 DEF CandidateInv, CandidateOK, Begun, Settled, PhasesInOrder, StagedAlone
<1>6. /\ \A e \in Doc \ {d} : Bystands(e)
      /\ Shape' /\ cand'[d] = n /\ native'[d] = native[d]
  BY <1>1, <1>2, Others DEF Nearly
<1>7. DocInv(d)' /\ Keeps(d)
  <2>1. Keeps(d)
    BY <1>2, <1>4, <1>6 DEF Keeps, Spent, MayRetry
  <2>2. NativeFollows(d)'
    BY <1>2, <1>3, <1>4, <1>6, <2>1 DEF NativeFollows, Keeps
  <2>3. Listed(d)' /\ Untouched(d)'
    BY <1>1, <1>2, <1>3, <1>4, <1>6 DEF Listed, Untouched, MayRetry
  <2>4. Shown(d)'
    BY <1>1, <1>2, <1>3, <1>4, <1>6 DEF Shown
  <2> QED
    BY <1>3, <1>5, <1>6, <2>1, <2>2, <2>3, <2>4 DEF DocInv, CandidateInv
<1>8. OpenStage'
  <2>1. n.owned = {} /\ n.staged = "none" /\ n.made /\ current = None
    BY <1>1, <1>4 DEF ReaderInv, OpenStage
  <2>2. Op' = Op /\ opening' = opening /\ current' = current
    BY <1>2
  <2> QED
    BY <1>1, <1>6, <2>1, <2>2 DEF OpenStage, Early, Opening
<1>9. /\ DisposeStage' /\ CallsOK' /\ ListsFrom("open") /\ ListsFrom("dispose") /\ {d} \in SUBSET Doc
      /\ \A e \in {d} : DocInv(e)' /\ Keeps(e)
  BY <1>1, <1>2, <1>7, CallsUnchanged, DisposeStays
<1> QED
  BY <1>6, <1>8, <1>9, Compose

LEMMA PromptEndsStep ==
  ASSUME ReaderInv, NEW d \in Doc, cand[d].prompt, cand' = [cand EXCEPT ![d] = AbortPasswordPrompt(@)],
         UNCHANGED <<native, current, opening, disposed, quarantined, pendingCleanups, proc>>
  PROVE  ReaderInv'
<1> DEFINE c == cand[d]
           n == AbortPasswordPrompt(c)
<1>1. CandidateInv(c) /\ c \in Candidate /\ Listed(d)
  BY Acts
<1>2. c.made
  BY <1>1 DEF ReaderInv, DocInv, Untouched, NewCandidate
<1>3. /\ n \in Candidate /\ n.made = c.made /\ n.closed = c.closed /\ n.staged = c.staged /\ n.owned = c.owned
      /\ n.raster = c.raster /\ n.cursor = c.cursor /\ n.phase = c.phase /\ n.retry = c.retry /\ ~n.prompt
  BY <1>1 DEF AbortPasswordPrompt, Candidate
<1>4. cand' = [cand EXCEPT ![d] = n]
  OBVIOUS
<1> HIDE DEF n
<1>5. CandidateInv(n)
  BY <1>1, <1>3 DEF CandidateInv, CandidateOK, Begun, Settled, PhasesInOrder, StagedAlone
<1>6. Tame(c, n) /\ (d \in quarantined => MayRetry(n))
  BY <1>1, <1>3 DEF Tame, MayRetry, Listed
<1> QED
  BY <1>2, <1>3, <1>4, <1>5, <1>6, QuietStep

LEMMA PasswordAnsweredStep ==
  ASSUME ReaderInv, NEW d \in Doc, PasswordAnswered(d)
  PROVE  ReaderInv'
<1>1. cand[d].prompt /\ UNCHANGED <<native, disposed, quarantined, pendingCleanups, proc>>
  BY DEF PasswordAnswered
<1>2. CASE cand' = [cand EXCEPT ![d] = AbortPasswordPrompt(@)] /\ UNCHANGED <<opening, current>>
  BY <1>1, <1>2, PromptEndsStep
<1>3. CASE opening = d /\ DisposeCandidate(d)
  <2> DEFINE n == Close(cand[d])
  <2>1. /\ cand' = [cand EXCEPT ![d] = n] /\ CandidateInv(n)
        /\ n.closed /\ ~n.prompt /\ n.made = cand[d].made /\ n.cursor # "none"
        /\ n.cursor # "stopped" \/ n.cursor = cand[d].cursor
        /\ n.owned = cand[d].owned /\ n.phase = cand[d].phase /\ n.raster = cand[d].raster
        /\ opening' = IF opening = d THEN None ELSE opening
        /\ current' = IF current = d THEN None ELSE current
    BY <1>3, DisposeCandidateOK
  <2>2. cand[d].staged = "none" => n.staged = "none"
    BY Acts, CloseStaged
  <2> HIDE DEF n
  <2> QED
    BY <1>1, <1>3, <2>1, <2>2, LeaveStep
<1> QED
  BY <1>2, <1>3 DEF PasswordAnswered

LEMMA CancelStep ==
  ASSUME ReaderInv, CancelPasswordOpening
  PROVE  ReaderInv'
<1>0. PICK d \in Doc : d = opening
  BY CallsUnchanged DEF CancelPasswordOpening
<1> DEFINE m == Close(cand[d])
           n == [m EXCEPT !.cancelled = TRUE]
<1>1. cand[d].made /\ ~cand[d].closed
  BY <1>0, CallsUnchanged DEF CancelPasswordOpening, Opening
<1>2. /\ cand' = [cand EXCEPT ![d] = n] /\ UNCHANGED <<native, disposed, quarantined, pendingCleanups, proc>>
  BY <1>0 DEF CancelPasswordOpening
<1>3. CandidateInv(cand[d]) /\ cand[d].cursor = "none"
  BY <1>1, Acts DEF CandidateInv, CandidateOK
<1>4. /\ CandidateInv(m)
      /\ m.closed /\ ~m.prompt
      /\ m.made = cand[d].made /\ m.owned = cand[d].owned /\ m.phase = cand[d].phase /\ m.raster = cand[d].raster
      /\ m.cursor = "ownership" /\ (cand[d].staged = "none" => m.staged = "none")
  BY <1>3, CloseOK
<1> HIDE DEF m
<1>5. /\ n \in Candidate /\ n.made = m.made /\ n.closed = m.closed /\ n.staged = m.staged /\ n.owned = m.owned
      /\ n.raster = m.raster /\ n.cursor = m.cursor /\ n.phase = m.phase /\ n.retry = m.retry /\ n.prompt = m.prompt
      /\ n.passwordPending = m.passwordPending /\ n.challenge = m.challenge
  <2>1. m \in Candidate
    BY <1>4 DEF CandidateInv
  <2> QED
    BY <2>1 DEF Candidate
<1> HIDE DEF n
<1>6. CandidateInv(n)
  BY <1>4, <1>5 DEF CandidateInv, CandidateOK, Begun, Settled, PhasesInOrder, StagedAlone
<1>7. opening' = None /\ (current' = IF current = d THEN None ELSE current)
  BY <1>0, <1>3 DEF CancelPasswordOpening, LetGo
<1>8. /\ n.closed /\ ~n.prompt /\ n.made = cand[d].made /\ n.cursor # "none" /\ n.cursor # "stopped"
      /\ n.owned = cand[d].owned /\ n.phase = cand[d].phase /\ n.raster = cand[d].raster
      /\ (cand[d].staged = "none" => n.staged = "none")
  BY <1>4, <1>5
<1>9. opening' = (IF opening = d THEN None ELSE opening) /\ d \in {current, opening} /\ UNCHANGED proc
  BY <1>0, <1>2, <1>7
<1>10. UNCHANGED <<native, disposed, quarantined, pendingCleanups>>
  BY <1>2
<1> QED
  BY <1>1, <1>2, <1>6, <1>7, <1>8, <1>9, <1>10, LeaveStep

\* Work on the document that is being opened.
LEMMA WorkOK ==
  ASSUME ReaderInv, NEW d \in Doc, Op.doc = d, Op'.doc = d, Op.at \notin {"idle", "unload"}, Op'.at # "unload",
         NEW n, CandidateInv(n), n.made, n.prompt => cand[d].prompt, n.cursor = cand[d].cursor,
         n.phase["transport"] = cand[d].phase["transport"], n.raster => n.cursor = "none" \/ cand[d].raster,
         n.staged # "none" /\ n.cursor = "none" => Op'.at \in {"staging", "unstaging"},
         MayRetry(cand[d]) => MayRetry(n),
         cand' = [cand EXCEPT ![d] = n],
         UNCHANGED <<native, current, opening, disposed, quarantined, pendingCleanups>>
  PROVE  /\ \A e \in {d} : DocInv(e)' /\ Keeps(e)
         /\ \A e \in Doc \ {d} : Bystands(e)
         /\ Shape' /\ cand'[d] = n /\ native'[d] = native[d] /\ {d} \in SUBSET Doc
<1> DEFINE c == cand[d]
<1>1. /\ \A e \in Doc \ {d} : Bystands(e)
      /\ Shape' /\ cand'[d] = n /\ native'[d] = native[d]
  BY Others DEF Nearly
<1>2. CandidateInv(c) /\ NativeFollows(d) /\ Listed(d) /\ Shown(d) /\ native[d] \in {"open", "tearing", "closed"}
  BY Acts
<1>3. Keeps(d)
  BY <1>1 DEF Keeps, Spent
<1>4. NativeFollows(d)'
  BY <1>1, <1>2, <1>3 DEF NativeFollows, Keeps
<1>5. Listed(d)'
  BY <1>1, <1>2 DEF Listed
<1>6. Shown(d)'
  <2>1. n.closed => c.closed
    BY <1>2 DEF CandidateInv, CandidateOK
  <2>2. c.closed => d \notin {current, opening}
    BY <1>2 DEF Shown
  <2>3. n.prompt => opening = d /\ ~disposed
    BY <1>2 DEF Shown
  <2> QED
    BY <1>1, <2>1, <2>2, <2>3 DEF Shown
<1>7. Untouched(d)'
  BY <1>1 DEF Untouched
<1> QED
  BY <1>1, <1>2, <1>3, <1>4, <1>5, <1>6, <1>7 DEF DocInv, CandidateInv

LEMMA LoadedStep ==
  ASSUME ReaderInv, Loaded
  PROVE  ReaderInv'
<1>1. Op.at = "loading" /\ UNCHANGED <<native, disposed, quarantined, pendingCleanups>>
  BY DEF Loaded
<1>2. PICK d \in Doc : Op.doc = d
  BY <1>1, CallsUnchanged
<1>3. CASE Fail
  BY <1>1, <1>3, FailStep
<1>4. CASE /\ ~cand[d].closed /\ Goto("page") /\ UNCHANGED <<opening, current>>
           /\ cand' = [cand EXCEPT ![d] = Owns(FinishPassword(@, FALSE), "page")]
  <2> DEFINE c == cand[d]
             m == FinishPassword(c, FALSE)
             n == Owns(m, "page")
  <2>1. CandidateInv(c) /\ c.made /\ c.staged = "none" /\ c.owned = {} /\ current = None
    BY <1>1, <1>2, Acts DEF ReaderInv, OpenStage
  <2>2. /\ CandidateInv(m) /\ ~m.prompt
        /\ m.made = c.made /\ m.closed = c.closed /\ m.staged = c.staged /\ m.owned = c.owned /\ m.raster = c.raster
        /\ m.cursor = c.cursor /\ m.phase = c.phase
    BY <2>1, FinishOK
  <2> HIDE DEF m
  <2>3. CandidateInv(n) /\ SameButOwned(n, m) /\ n.owned = m.owned \cup {"page"}
    BY <1>4, <2>1, <2>2, OwnsOK DEF Work
  <2>4. cand' = [cand EXCEPT ![d] = n]
    BY <1>4 DEF m
  <2> HIDE DEF n
  <2>5. /\ CallsOK' /\ Op'.at = "page" /\ Op'.doc = d /\ Disposal' = Disposal
        /\ ListsFrom("open") /\ ListsFrom("dispose")
    BY <1>1, <1>2, <1>4, GotoOK DEF OpenStages, Opening
  <2>6. /\ n.made /\ ~n.prompt /\ n.cursor = c.cursor /\ n.phase = c.phase /\ (n.raster => c.raster)
        /\ n.staged = "none" /\ n.owned = {"page"}
    BY <2>1, <2>2, <2>3 DEF SameButOwned
  <2>7. MayRetry(c) => MayRetry(n)
    BY <2>1, <2>6 DEF MayRetry
  <2>8. /\ \A e \in {d} : DocInv(e)' /\ Keeps(e)
        /\ \A e \in Doc \ {d} : Bystands(e)
        /\ Shape' /\ cand'[d] = n /\ {d} \in SUBSET Doc
    BY <1>1, <1>2, <1>4, <2>3, <2>4, <2>5, <2>6, <2>7, WorkOK
  <2>9. OpenStage'
    <3>1. opening # None => opening = d
      BY <1>2, CallsUnchanged
    <3> QED
      BY <1>4, <2>1, <2>5, <2>6, <2>8, <3>1 DEF OpenStage, Early, Opening
  <2>10. DisposeStage'
    BY <1>1, <1>4, <2>5, DisposeStays
  <2> QED
    BY <2>5, <2>8, <2>9, <2>10, Compose
<1> QED
  BY <1>2, <1>3, <1>4 DEF Loaded

LEMMA FirstPageStep ==
  ASSUME ReaderInv, FirstPage
  PROVE  ReaderInv'
<1>1. Op.at = "page" /\ UNCHANGED <<native, current, disposed, quarantined, pendingCleanups>>
  BY DEF FirstPage
<1>2. PICK d \in Doc : Op.doc = d
  BY <1>1, CallsUnchanged
<1> DEFINE c == cand[d]
<1>3. CandidateInv(c) /\ c.made /\ c.staged = "none" /\ c.owned \subseteq {"page"} /\ current = None /\ Listed(d)
  BY <1>1, <1>2, Acts DEF ReaderInv, OpenStage
<1>4. CASE c.closed
  <2> DEFINE m == Close(c)
             l == Drops(m, "page")
             n == Retry(l, d \in quarantined)
  <2>1. /\ CandidateInv(m)
        /\ m.closed /\ ~m.prompt
        /\ m.made = c.made /\ m.phase = c.phase /\ m.raster = c.raster
        /\ m.cursor = IF c.cursor = "none" THEN "ownership" ELSE c.cursor
    BY <1>3, CloseOK
  <2> HIDE DEF m
  <2>2. CandidateInv(l) /\ SameButOwned(l, m)
    BY <2>1, DropsOK
  <2> HIDE DEF l
  <2>3. l.cursor # "none" /\ MayRetry(l)
    BY <2>1, <2>2 DEF SameButOwned, MayRetry
  <2>4. CandidateInv(n) /\ SameButRetry(n, l)
    BY <2>2, <2>3, RetryOK
  <2>5. /\ cand' = [cand EXCEPT ![d] = n] /\ Goto("failed")
        /\ opening' = IF opening = d THEN None ELSE opening
    BY <1>2, <1>4 DEF FirstPage, m, l
  <2> HIDE DEF n
  <2>6. /\ n.closed /\ ~n.prompt /\ n.made = c.made /\ n.cursor # "none" /\ (n.cursor # "stopped" \/ n.cursor = c.cursor)
        /\ n.phase = c.phase /\ n.raster = c.raster
    BY <2>1, <2>2, <2>3, <2>4 DEF SameButOwned, SameButRetry
  <2>7. current' = IF current = d THEN None ELSE current
    BY <1>1, <1>3, ReaderAssumption
  <2> QED
    BY <1>1, <1>2, <2>4, <2>5, <2>6, <2>7, FailedStep
<1>5. CASE ~c.closed
  <2> DEFINE m == Drops(c, "page")
             n == Owns(m, "render")
  <2>1. CandidateInv(m) /\ SameButOwned(m, c) /\ m.owned = c.owned \ {"page"}
    BY <1>3, DropsOK
  <2> HIDE DEF m
  <2>2. CandidateInv(n) /\ SameButOwned(n, m) /\ n.owned = m.owned \cup {"render"}
    <3>1. ~m.closed /\ m.staged = "none" /\ "render" \in Work
      BY <1>3, <1>5, <2>1 DEF SameButOwned, Work
    <3> QED
      BY <2>1, <3>1, OwnsOK
  <2>3. cand' = [cand EXCEPT ![d] = n] /\ Goto("render") /\ UNCHANGED opening
    BY <1>2, <1>5 DEF FirstPage, m
  <2> HIDE DEF n
  <2>4. /\ CallsOK' /\ Op'.at = "render" /\ Op'.doc = d /\ Disposal' = Disposal
        /\ ListsFrom("open") /\ ListsFrom("dispose")
    BY <1>1, <1>2, <2>3, GotoOK DEF OpenStages, Opening
  <2>5. /\ n.made /\ (n.prompt => c.prompt) /\ n.cursor = c.cursor /\ n.phase = c.phase /\ (n.raster => c.raster)
        /\ n.staged = "none" /\ n.owned \subseteq {"render"}
    BY <1>3, <2>1, <2>2 DEF SameButOwned
  <2>6. MayRetry(c) => MayRetry(n)
    BY <1>3, <2>5 DEF MayRetry
  <2>7. /\ \A e \in {d} : DocInv(e)' /\ Keeps(e)
        /\ \A e \in Doc \ {d} : Bystands(e)
        /\ Shape' /\ cand'[d] = n /\ {d} \in SUBSET Doc
    BY <1>1, <1>2, <2>2, <2>3, <2>4, <2>5, <2>6, WorkOK
  <2>8. OpenStage'
    <3>1. opening # None => opening = d
      BY <1>2, CallsUnchanged
    <3> QED
      BY <1>1, <1>3, <2>3, <2>4, <2>5, <2>7, <3>1 DEF OpenStage, Early, Opening
  <2>9. DisposeStage'
    BY <1>1, <2>4, DisposeStays
  <2> QED
    BY <2>4, <2>7, <2>8, <2>9, Compose
<1> QED
  BY <1>4, <1>5

LEMMA RenderedStep ==
  ASSUME ReaderInv, Rendered
  PROVE  ReaderInv'
<1>1. Op.at = "render" /\ UNCHANGED <<native, current, disposed, quarantined, pendingCleanups>>
  BY DEF Rendered
<1>2. PICK d \in Doc : Op.doc = d
  BY <1>1, CallsUnchanged
<1> DEFINE c == cand[d]
           l == Drops(c, "render")
<1>3. CandidateInv(c) /\ c.made /\ c.staged = "none" /\ c.owned \subseteq {"render"} /\ current = None
  BY <1>1, <1>2, Acts DEF ReaderInv, OpenStage
<1>4. CandidateInv(l) /\ SameButOwned(l, c) /\ l.owned = c.owned \ {"render"}
  BY <1>3, DropsOK
<1>5. CASE c.closed \/ disposed \/ opening # d
  <2> DEFINE m == Close(l)
             n == Retry(m, d \in quarantined)
  <2>1. /\ cand' = [cand EXCEPT ![d] = n] /\ Goto("failed")
        /\ opening' = IF opening = d THEN None ELSE opening
    BY <1>2, <1>5 DEF Rendered
  <2> HIDE DEF l
  <2>2. /\ CandidateInv(m)
        /\ m.closed /\ ~m.prompt
        /\ m.made = l.made /\ m.phase = l.phase /\ m.raster = l.raster
        /\ m.cursor = IF l.cursor = "none" THEN "ownership" ELSE l.cursor
    BY <1>4, CloseOK
  <2> HIDE DEF m
  <2>3. m.cursor # "none" /\ MayRetry(m)
    BY <2>2 DEF MayRetry
  <2>4. CandidateInv(n) /\ SameButRetry(n, m)
    BY <2>2, <2>3, RetryOK
  <2> HIDE DEF n
  <2>5. /\ n.closed /\ ~n.prompt /\ n.made = c.made /\ n.cursor # "none" /\ (n.cursor # "stopped" \/ n.cursor = c.cursor)
        /\ n.phase = c.phase /\ n.raster = c.raster
    BY <1>4, <2>2, <2>3, <2>4 DEF SameButOwned, SameButRetry
  <2>6. current' = IF current = d THEN None ELSE current
    BY <1>1, <1>3, ReaderAssumption
  <2> QED
    BY <1>1, <1>2, <2>1, <2>4, <2>5, <2>6, FailedStep
<1>6. CASE ~(c.closed \/ disposed \/ opening # d)
  <2> DEFINE n == [l EXCEPT !.raster = TRUE, !.staged = "registered"]
  <2>1. cand' = [cand EXCEPT ![d] = n] /\ Goto("staging") /\ UNCHANGED opening
    BY <1>2, <1>6 DEF Rendered
  <2>2. l \in Candidate /\ l.owned = {} /\ ~l.closed /\ l.cursor = "none" /\ l.made
    BY <1>3, <1>4, <1>6 DEF CandidateInv, CandidateOK, SameButOwned
  <2> HIDE DEF l
  <2>3. /\ n \in Candidate /\ n.made = l.made /\ n.closed = l.closed /\ n.prompt = l.prompt /\ n.staged = "registered"
        /\ n.owned = l.owned /\ n.raster /\ n.cursor = l.cursor /\ n.phase = l.phase /\ n.retry = l.retry
        /\ n.passwordPending = l.passwordPending /\ n.challenge = l.challenge
    BY <2>2 DEF Candidate
  <2> HIDE DEF n
  <2>4. CandidateInv(n)
    BY <1>4, <2>2, <2>3 DEF CandidateInv, CandidateOK, Begun, Settled, PhasesInOrder, StagedAlone
  <2>5. /\ CallsOK' /\ Op'.at = "staging" /\ Op'.doc = d /\ Disposal' = Disposal
        /\ ListsFrom("open") /\ ListsFrom("dispose")
    BY <1>1, <1>2, <2>1, GotoOK DEF OpenStages, Opening
  <2>6. /\ n.made /\ (n.prompt => c.prompt) /\ n.cursor = c.cursor /\ n.phase = c.phase /\ n.cursor = "none"
        /\ ~MayRetry(c)
    BY <1>3, <1>4, <2>2, <2>3 DEF SameButOwned, MayRetry
  <2>7. /\ \A e \in {d} : DocInv(e)' /\ Keeps(e)
        /\ \A e \in Doc \ {d} : Bystands(e)
        /\ Shape' /\ cand'[d] = n /\ {d} \in SUBSET Doc
    BY <1>1, <1>2, <2>1, <2>4, <2>5, <2>6, WorkOK
  <2>8. OpenStage'
    BY <1>1, <1>3, <1>6, <2>1, <2>3, <2>5, <2>6, <2>7 DEF OpenStage, Early, Opening
  <2>9. DisposeStage'
    BY <1>1, <2>5, DisposeStays
  <2> QED
    BY <2>5, <2>7, <2>8, <2>9, Compose
<1> QED
  BY <1>5, <1>6

LEMMA TimeoutsStep ==
  ASSUME ReaderInv, WorkTimeout \/ MetadataTimeout \/ CommitFails
  PROVE  ReaderInv'
<1>1. Op.at \notin {"idle", "unload"} /\ Fail /\ UNCHANGED <<native, disposed, quarantined, pendingCleanups>>
  BY DEF WorkTimeout, MetadataTimeout, CommitFails
<1> QED
  BY <1>1, FailStep

LEMMA IdleOK ==
  ASSUME ReaderInv, proc' = [proc EXCEPT !["open"] = Idle]
  PROVE  /\ CallsOK' /\ Op'.at = "idle" /\ Op'.doc = None /\ Disposal' = Disposal
         /\ ListsFrom("open") /\ ListsFrom("dispose")
<1>1. /\ proc \in [{"open", "dispose"} ->
             [at : OpenStages \cup DisposeStages, doc : Doc \cup {None},
              todo : SUBSET Doc, wait : Doc \cup {None}, attempt : Nat]]
      /\ Disposal.at \in DisposeStages
  BY DEF ReaderInv, CallsOK
<1>2. Idle \in [at : OpenStages \cup DisposeStages, doc : Doc \cup {None},
              todo : SUBSET Doc, wait : Doc \cup {None}, attempt : Nat]
  BY DEF Idle, OpenStages
<1>3. /\ Op' = Idle /\ Disposal' = Disposal
      /\ proc' \in [{"open", "dispose"} ->
             [at : OpenStages \cup DisposeStages, doc : Doc \cup {None},
              todo : SUBSET Doc, wait : Doc \cup {None}, attempt : Nat]]
  BY <1>1, <1>2
<1>4. Op'.at = "idle" /\ Op'.doc = None
  BY <1>3 DEF Idle
<1>5. CallsOK'
  BY <1>1, <1>3, <1>4 DEF CallsOK, OpenStages
<1>6. ListsFrom("open")
  BY <1>4 DEF ListsFrom
<1> QED
  BY <1>3, <1>4, <1>5, <1>6, CallsUnchanged

\* What is known of the document that may be committed.
LEMMA CommittableOK ==
  ASSUME ReaderInv, Op.at \in {"staging", "unstaging"}, NEW d \in Doc, Op.doc = d, MayCommit(d)
  PROVE  LET c == cand[d] IN
         /\ CandidateInv(c) /\ c.made /\ ~c.closed /\ c.cursor = "none" /\ opening = d /\ current = None /\ ~disposed
         /\ Op.at = "staging" => c.staged = "registered"
         /\ native[d] = "open" /\ d \notin pendingCleanups
         /\ d \in quarantined => c.staged = "rejected"
         /\ c.staged # "none" => c.owned = {}
<1>1. /\ CandidateInv(cand[d]) /\ NativeFollows(d) /\ Listed(d) /\ Shown(d) /\ opening = d /\ ~disposed
      /\ cand[d].made /\ current = None
  BY Acts, CallsUnchanged DEF MayCommit
<1>2. ~cand[d].closed /\ cand[d].cursor = "none"
  BY <1>1 DEF Shown, CandidateInv, CandidateOK
<1>3. Op.at = "staging" => cand[d].staged = "registered"
  BY <1>2 DEF ReaderInv, OpenStage
<1>4. native[d] = "open" /\ d \notin pendingCleanups
  BY <1>1, <1>2 DEF NativeFollows, Spent
<1>5. d \in quarantined => cand[d].staged = "rejected"
  BY <1>1, <1>2 DEF Listed, MayRetry
<1>6. cand[d].staged # "none" => cand[d].owned = {}
  BY <1>1 DEF CandidateInv, CandidateOK, StagedAlone
<1> QED
  BY <1>1, <1>2, <1>3, <1>4, <1>5, <1>6

LEMMA CommitCanvasStep ==
  ASSUME ReaderInv, CommitCanvas
  PROVE  ReaderInv'
<1>1. Op.at = "staging" /\ UNCHANGED <<native, disposed, quarantined, pendingCleanups>>
  BY DEF CommitCanvas
<1>2. PICK d \in Doc : Op.doc = d
  BY <1>1, CallsUnchanged
<1> DEFINE c == cand[d]
           m == FinishPassword(c, TRUE)
           n == [m EXCEPT !.staged = "none"]
<1>3. /\ MayCommit(d) /\ current' = d /\ opening' = None /\ cand' = [cand EXCEPT ![d] = n]
      /\ proc' = [proc EXCEPT !["open"] = Idle]
  BY <1>2 DEF CommitCanvas
<1>4. /\ CandidateInv(c) /\ c.made /\ ~c.closed /\ c.cursor = "none" /\ opening = d /\ current = None /\ ~disposed
      /\ c.staged = "registered" /\ native[d] = "open" /\ d \notin pendingCleanups /\ d \notin quarantined
  BY <1>1, <1>2, <1>3, CommittableOK
<1>5. /\ CandidateInv(m) /\ ~m.prompt
      /\ m.made = c.made /\ m.closed = c.closed /\ m.staged = c.staged /\ m.owned = c.owned /\ m.raster = c.raster
      /\ m.cursor = c.cursor /\ m.phase = c.phase /\ m.retry = c.retry
  BY <1>4, FinishOK
<1> HIDE DEF m
<1>6. /\ n \in Candidate /\ n.made = m.made /\ n.closed = m.closed /\ n.prompt = m.prompt /\ n.staged = "none"
      /\ n.owned = m.owned /\ n.raster = m.raster /\ n.cursor = m.cursor /\ n.phase = m.phase /\ n.retry = m.retry
      /\ n.passwordPending = m.passwordPending /\ n.challenge = m.challenge
  <2>1. m \in Candidate
    BY <1>5 DEF CandidateInv
  <2> QED
    BY <2>1 DEF Candidate
<1> HIDE DEF n
<1>7. CandidateInv(n)
  BY <1>4, <1>5, <1>6 DEF CandidateInv, CandidateOK, Begun, Settled, PhasesInOrder, StagedAlone
<1>8. /\ CallsOK' /\ Op'.at = "idle" /\ Op'.doc = None /\ Disposal' = Disposal
      /\ ListsFrom("open") /\ ListsFrom("dispose")
  BY <1>3, IdleOK
<1>9. /\ \A e \in Doc \ {d} : Bystands(e)
      /\ Shape' /\ cand'[d] = n /\ native'[d] = native[d]
  BY <1>1, <1>2, <1>3, <1>4, <1>8, Others DEF Nearly
<1>10. n.made /\ ~n.closed /\ ~n.prompt /\ n.cursor = "none" /\ n.staged = "none" /\ n.phase = c.phase
  BY <1>4, <1>5, <1>6
<1>11. \A k \in Phase : c.phase[k] = "none"
  BY <1>4, Acts
<1>12. DocInv(d)' /\ Keeps(d)
  <2>1. Keeps(d)
    BY <1>1, <1>4 DEF Keeps, Spent, MayRetry
  <2>2. NativeFollows(d)'
    BY <1>1, <1>4, <1>9, <1>10, <1>11 DEF NativeFollows, Phase
  <2>3. Listed(d)' /\ Shown(d)' /\ Untouched(d)'
    BY <1>1, <1>3, <1>4, <1>9, <1>10 DEF Listed, Shown, Untouched
  <2> QED
    BY <1>4, <1>7, <1>9, <2>1, <2>2, <2>3 DEF DocInv, CandidateInv
<1>13. OpenStage'
  BY <1>3, <1>8 DEF OpenStage, Early, Opening
<1>14. DisposeStage'
  BY <1>1, <1>4, <1>8 DEF ReaderInv, DisposeStage
<1>15. \A e \in {d} : DocInv(e)' /\ Keeps(e)
  BY <1>12
<1>16. {d} \in SUBSET Doc
  OBVIOUS
<1> QED
  BY <1>8, <1>9, <1>13, <1>14, <1>15, <1>16, Compose

LEMMA GeometryChangedStep ==
  ASSUME ReaderInv, GeometryChanged
  PROVE  ReaderInv'
<1>1. Op.at = "staging" /\ UNCHANGED <<native, current, opening, disposed, quarantined, pendingCleanups>>
  BY DEF GeometryChanged
<1>2. PICK d \in Doc : Op.doc = d
  BY <1>1, CallsUnchanged
<1> DEFINE c == cand[d]
           n == BeginStaged(c)
<1>3. MayCommit(d) /\ cand' = [cand EXCEPT ![d] = n] /\ Goto("unstaging")
  BY <1>2 DEF GeometryChanged
<1>4. /\ CandidateInv(c) /\ c.made /\ ~c.closed /\ c.cursor = "none" /\ opening = d /\ current = None
      /\ c.staged = "registered" /\ c.owned = {}
  BY <1>1, <1>2, <1>3, CommittableOK
<1>5. /\ n \in Candidate /\ n.made = c.made /\ n.closed = c.closed /\ n.prompt = c.prompt /\ n.staged = "running"
      /\ n.owned = c.owned /\ n.raster = c.raster /\ n.cursor = c.cursor /\ n.phase = c.phase /\ n.retry = c.retry
      /\ n.passwordPending = c.passwordPending /\ n.challenge = c.challenge
  <2>1. c \in Candidate
    BY <1>4 DEF CandidateInv
  <2> QED
    BY <1>4, <2>1 DEF BeginStaged, Candidate
<1> HIDE DEF n
<1>6. CandidateInv(n)
  BY <1>4, <1>5 DEF CandidateInv, CandidateOK, Begun, Settled, PhasesInOrder, StagedAlone
<1>7. /\ CallsOK' /\ Op'.at = "unstaging" /\ Op'.doc = d /\ Disposal' = Disposal
      /\ ListsFrom("open") /\ ListsFrom("dispose")
  BY <1>1, <1>2, <1>3, GotoOK DEF OpenStages, Opening
<1>8. n.made /\ ~MayRetry(c)
  BY <1>4, <1>5 DEF MayRetry
<1>9. /\ \A e \in {d} : DocInv(e)' /\ Keeps(e)
      /\ \A e \in Doc \ {d} : Bystands(e)
      /\ Shape' /\ cand'[d] = n /\ {d} \in SUBSET Doc
  BY <1>1, <1>2, <1>3, <1>5, <1>6, <1>7, <1>8, WorkOK
<1>10. OpenStage'
  BY <1>1, <1>4, <1>7, <1>8, <1>9 DEF OpenStage, Early, Opening
<1>11. DisposeStage'
  BY <1>1, <1>7, DisposeStays
<1> QED
  BY <1>7, <1>9, <1>10, <1>11, Compose

LEMMA RenderAgainStep ==
  ASSUME ReaderInv, RenderAgain
  PROVE  ReaderInv'
<1>1. Op.at = "unstaging" /\ UNCHANGED <<native, current, opening, disposed, quarantined, pendingCleanups>>
  BY DEF RenderAgain
<1>2. PICK d \in Doc : Op.doc = d
  BY <1>1, CallsUnchanged
<1> DEFINE c == cand[d]
           r == Released(c)
           m == [r EXCEPT !.staged = "none"]
           n == Owns(m, "render")
<1>3. /\ MayCommit(d) /\ cand' = [cand EXCEPT ![d] = n] /\ c.staged = "completed"
      /\ proc' = [proc EXCEPT !["open"].at = "render", !["open"].attempt = @ + 1]
  BY <1>2 DEF RenderAgain
<1>4. /\ CandidateInv(c) /\ c.made /\ ~c.closed /\ c.cursor = "none" /\ opening = d /\ current = None /\ c.owned = {}
  BY <1>1, <1>2, <1>3, CommittableOK
<1>5. /\ CandidateInv(r) /\ ~r.raster
      /\ r.made = c.made /\ r.closed = c.closed /\ r.prompt = c.prompt /\ r.staged = c.staged /\ r.owned = c.owned
      /\ r.cursor = c.cursor /\ r.phase = c.phase /\ r.retry = c.retry
  BY <1>4, ReleasedOK
<1> HIDE DEF r
<1>6. /\ m \in Candidate /\ m.made = r.made /\ m.closed = r.closed /\ m.prompt = r.prompt /\ m.staged = "none"
      /\ m.owned = r.owned /\ m.raster = r.raster /\ m.cursor = r.cursor /\ m.phase = r.phase /\ m.retry = r.retry
      /\ m.passwordPending = r.passwordPending /\ m.challenge = r.challenge
  <2>1. r \in Candidate
    BY <1>5 DEF CandidateInv
  <2> QED
    BY <2>1 DEF Candidate
<1> HIDE DEF m
<1>7. CandidateInv(m)
  BY <1>4, <1>5, <1>6 DEF CandidateInv, CandidateOK, Begun, Settled, PhasesInOrder, StagedAlone
<1>8. CandidateInv(n) /\ SameButOwned(n, m) /\ n.owned = m.owned \cup {"render"}
  <2>1. ~m.closed /\ m.staged = "none" /\ "render" \in Work
    BY <1>4, <1>5, <1>6 DEF Work
  <2> QED
    BY <1>7, <2>1, OwnsOK
<1> HIDE DEF n
<1>9. /\ CallsOK' /\ Op'.at = "render" /\ Op'.doc = d /\ Disposal' = Disposal
      /\ ListsFrom("open") /\ ListsFrom("dispose")
  <2>1. /\ proc \in [{"open", "dispose"} ->
             [at : OpenStages \cup DisposeStages, doc : Doc \cup {None},
              todo : SUBSET Doc, wait : Doc \cup {None}, attempt : Nat]]
        /\ Disposal.at \in DisposeStages /\ Op.doc # None
    BY <1>1 DEF ReaderInv, CallsOK
  <2>2. /\ Op'.at = "render" /\ Op'.doc = d /\ Disposal' = Disposal
    BY <1>2, <1>3, <2>1
  <2>3. proc' \in [{"open", "dispose"} ->
             [at : OpenStages \cup DisposeStages, doc : Doc \cup {None},
              todo : SUBSET Doc, wait : Doc \cup {None}, attempt : Nat]]
    BY <1>3, <2>1 DEF OpenStages, Opening
  <2>4. CallsOK'
    BY <1>2, <2>1, <2>2, <2>3 DEF CallsOK, OpenStages, Opening
  <2> QED
    BY <2>2, <2>4, CallsUnchanged DEF ListsFrom
<1>10. /\ n.made /\ (n.prompt => c.prompt) /\ n.cursor = c.cursor /\ n.phase = c.phase /\ ~n.raster
       /\ n.staged = "none" /\ n.owned = {"render"}
  BY <1>4, <1>5, <1>6, <1>8 DEF SameButOwned
<1>11. ~MayRetry(c)
  BY <1>3, <1>4 DEF MayRetry
<1>12. /\ \A e \in {d} : DocInv(e)' /\ Keeps(e)
       /\ \A e \in Doc \ {d} : Bystands(e)
       /\ Shape' /\ cand'[d] = n /\ {d} \in SUBSET Doc
  BY <1>1, <1>2, <1>3, <1>8, <1>9, <1>10, <1>11, WorkOK
<1>13. OpenStage'
  BY <1>1, <1>4, <1>9, <1>10, <1>12 DEF OpenStage, Early, Opening
<1>14. DisposeStage'
  BY <1>1, <1>9, DisposeStays
<1> QED
  BY <1>9, <1>12, <1>13, <1>14, Compose

LEMMA OpenFailedStep ==
  ASSUME ReaderInv, OpenFailed
  PROVE  ReaderInv'
<1>1. /\ Op.at = "failed" /\ proc' = [proc EXCEPT !["open"] = Idle]
      /\ UNCHANGED <<cand, native, current, opening, disposed, quarantined, pendingCleanups>>
  BY DEF OpenFailed
<1>2. PICK d \in Doc : Op.doc = d
  BY <1>1, CallsUnchanged
<1>3. cand[d].cursor # "none" /\ current = None /\ opening = None
  BY <1>1, <1>2, CallsUnchanged DEF ReaderInv, OpenStage, Opening
<1>4. /\ CallsOK' /\ Op'.at = "idle" /\ Op'.doc = None /\ Disposal' = Disposal
      /\ ListsFrom("open") /\ ListsFrom("dispose")
  BY <1>1, IdleOK
<1>5. cand' = [cand EXCEPT ![d] = cand[d]]
  BY <1>1, ActsOn
<1>6. /\ \A e \in Doc \ {d} : Bystands(e)
      /\ Shape' /\ cand'[d] = cand[d] /\ native'[d] = native[d]
  BY <1>1, <1>2, <1>4, <1>5, Others DEF Nearly
<1>7. DocInv(d)
  BY DEF ReaderInv
<1>8. Keeps(d)
  BY <1>1, <1>3, <1>6 DEF Keeps, Spent
<1>9. NativeFollows(d)'
  BY <1>1, <1>6, <1>7, <1>8 DEF NativeFollows, Keeps, DocInv
<1>10. Untouched(d)' /\ Listed(d)' /\ Shown(d)'
  BY <1>1, <1>3, <1>6, <1>7 DEF DocInv, Untouched, Listed, Shown
<1>11. \A e \in {d} : DocInv(e)' /\ Keeps(e)
  BY <1>6, <1>7, <1>8, <1>9, <1>10 DEF DocInv
<1>12. OpenStage'
  BY <1>1, <1>3, <1>4 DEF OpenStage, Early, Opening
<1>13. DisposeStage'
  BY <1>1, <1>4, DisposeStays
<1>14. {d} \in SUBSET Doc
  OBVIOUS
<1> QED
  BY <1>4, <1>6, <1>11, <1>12, <1>13, <1>14, Compose

LEMMA WorkStartsStep ==
  ASSUME ReaderInv, NEW w \in LaterWork, WorkStarts(w)
  PROVE  ReaderInv'
<1>1. /\ current # None /\ ~disposed
      /\ UNCHANGED <<native, current, opening, disposed, quarantined, pendingCleanups, proc>>
  BY DEF WorkStarts
<1>2. PICK d \in Doc : d = current
  BY <1>1 DEF ReaderInv, Shape
<1> DEFINE c == cand[d]
           n == Owns(c, w)
<1>3. cand' = [cand EXCEPT ![d] = n]
  BY <1>2 DEF WorkStarts
<1>4. Op.at = "idle" /\ Op.doc = None /\ opening = None
  BY <1>1, CallsUnchanged DEF Opening, ReaderInv, CallsOK
<1>5. /\ DocInv(d) /\ CandidateInv(c) /\ c.made /\ ~c.closed /\ c.cursor = "none" /\ c.staged = "none"
  <2>1. DocInv(d) /\ CandidateInv(c) /\ Shown(d) /\ c.made
    BY <1>2, Acts DEF ReaderInv, DocInv, Untouched
  <2>2. ~c.closed /\ c.cursor = "none"
    BY <1>2, <2>1 DEF Shown, CandidateInv, CandidateOK
  <2> QED
    BY <1>4, <2>1, <2>2, ReaderAssumption DEF Shown
<1>6. CandidateInv(n) /\ SameButOwned(n, c)
  <2>1. w \in Work
    BY ReaderAssumption DEF Work
  <2> QED
    BY <1>5, <2>1, OwnsOK
<1> HIDE DEF n
<1>7. /\ \A e \in Doc \ {d} : Bystands(e)
      /\ Shape' /\ cand'[d] = n /\ native'[d] = native[d]
  BY <1>1, <1>3, Others DEF Nearly
<1>8. Keeps(d)
  BY <1>1, <1>2, <1>6, <1>7 DEF Keeps, Spent, MayRetry, SameButOwned
<1>9. NativeFollows(d)'
  BY <1>1, <1>5, <1>6, <1>7, <1>8 DEF NativeFollows, Keeps, DocInv, SameButOwned
<1>10. Untouched(d)' /\ Listed(d)' /\ Shown(d)'
  BY <1>1, <1>5, <1>6, <1>7 DEF DocInv, Untouched, Listed, Shown, MayRetry, SameButOwned
<1>11. \A e \in {d} : DocInv(e)' /\ Keeps(e)
  BY <1>5, <1>6, <1>7, <1>8, <1>9, <1>10 DEF DocInv, CandidateInv
<1>12. OpenStage' /\ DisposeStage' /\ CallsOK' /\ ListsFrom("open") /\ ListsFrom("dispose")
  BY <1>1, <1>4, CallsUnchanged, DisposeStays DEF OpenStage, Early, Opening
<1>13. {d} \in SUBSET Doc
  OBVIOUS
<1> QED
  BY <1>7, <1>11, <1>12, <1>13, Compose

-----------------------------------------------------------------------------
(***************************************************************************)
(* The gates of open(), the retries, and dispose().                        *)
(***************************************************************************)
Calls == {"open", "dispose"}
Call == [at : OpenStages \cup DisposeStages, doc : Doc \cup {None}, todo : SUBSET Doc, wait : Doc \cup {None}, attempt : Nat]

\* The open goes on, and no document changes.
LEMMA CallStep ==
  ASSUME ReaderInv, UNCHANGED <<cand, native, current, opening, disposed, quarantined, pendingCleanups>>,
         CallsOK', ListsFrom("open"), ListsFrom("dispose"), OpenStage', DisposeStage',
         \/ Op'.doc = Op.doc /\ Op'.at = Op.at
         \/ Op.at \in Early /\ Op'.doc = Op.doc /\ (Op.at = "unload" => Op'.at = "unload")
         \/ Op.at \in Early /\ Op'.doc = None /\ (native[Op.doc] # "open" \/ Op.doc \in pendingCleanups)
  PROVE  ReaderInv'
<1>1. Shape'
  BY DEF ReaderInv, Shape
<1>2. CASE Op'.doc = Op.doc /\ Op'.at = Op.at
  <2>1. \A e \in Doc : Bystands(e)
    BY <1>2 DEF Bystands
  <2>2. {} \in SUBSET Doc
    OBVIOUS
  <2> QED
    BY <1>1, <2>1, <2>2, Compose
<1>3. CASE Op.at \in Early
  <2>1. PICK d \in Doc : Op.doc = d
    BY <1>3, CallsUnchanged DEF Early
  <2>2. DocInv(d) /\ cand[d].cursor = "none" /\ cand[d].staged = "none" /\ ~cand[d].raster
    BY <1>3, <2>1 DEF ReaderInv, OpenStage
  <2>3. \A e \in Doc \ {d} : Bystands(e)
    BY <2>1, ReaderAssumption DEF Bystands
  <2>4. Spent(d) => Spent(d)'
    <3>1. Spent(d) => Op.at = "unload"
      BY <2>1, <2>2 DEF Spent
    <3>2. Op.at = "unload" => Op'.at = "unload" \/ Op'.doc # d
      BY <2>1, ReaderAssumption
    <3> QED
      BY <2>2, <3>1, <3>2 DEF Spent
  <2>5. Keeps(d)
    BY <2>4 DEF Keeps
  <2>6. NativeFollows(d)'
    BY <2>2, <2>4 DEF DocInv, NativeFollows
  <2>7. Listed(d)'
    BY <2>1, <2>2 DEF DocInv, Listed
  <2>8. Untouched(d)' /\ Shown(d)'
    BY <2>2 DEF DocInv, Untouched, Shown
  <2>9. \A e \in {d} : DocInv(e)' /\ Keeps(e)
    BY <2>2, <2>5, <2>6, <2>7, <2>8 DEF DocInv
  <2>10. {d} \in SUBSET Doc
    OBVIOUS
  <2> QED
    BY <1>1, <2>3, <2>9, <2>10, Compose
<1> QED
  BY <1>2, <1>3

\* The native session of one document is torn down by a call, or late.
LEMMA NativeStep ==
  ASSUME ReaderInv, NEW d \in Doc, Spent(d) \/ (native' = native /\ pendingCleanups' = pendingCleanups),
         NEW v \in {native[d], "tearing"}, v = native[d] \/ native[d] = "open", native' = [native EXCEPT ![d] = v],
         pendingCleanups' \in {pendingCleanups, pendingCleanups \cup {d}},
         UNCHANGED <<cand, current, opening, disposed, quarantined>>,
         CallsOK', ListsFrom("open"), ListsFrom("dispose"), OpenStage', DisposeStage',
         Op'.doc = Op.doc, Op'.at = Op.at
  PROVE  ReaderInv'
<1>1. native'[d] = v
  BY DEF ReaderInv, Shape
<1>2. Shape'
  BY DEF ReaderInv, Shape
<1>3. \A e \in Doc \ {d} : Bystands(e)
  BY DEF ReaderInv, Shape, Bystands
<1>4. DocInv(d)
  BY DEF ReaderInv
<1>5. Spent(d) => Spent(d)' /\ cand[d].made
  BY Acts DEF Spent, Phase
<1>6. Keeps(d)
  BY <1>5 DEF Keeps
<1>7. v \in {"open", "tearing", "closed"}
  BY <1>4 DEF DocInv
<1>8. native' = native /\ pendingCleanups' = pendingCleanups => native'[d] = native[d]
  OBVIOUS
<1>9. NativeFollows(d)'
  BY <1>1, <1>4, <1>5, <1>8 DEF DocInv, NativeFollows
<1>10. Untouched(d)' /\ Listed(d)' /\ Shown(d)'
  BY <1>1, <1>4, <1>5, <1>8 DEF DocInv, Untouched, Listed, Shown
<1>11. \A e \in {d} : DocInv(e)' /\ Keeps(e)
  BY <1>1, <1>4, <1>6, <1>7, <1>9, <1>10 DEF DocInv
<1>12. {d} \in SUBSET Doc
  OBVIOUS
<1> QED
  BY <1>2, <1>3, <1>11, <1>12, Compose

LEMMA CallsTyped == ReaderInv => proc \in [Calls -> Call] /\ None \notin Doc
BY ReaderAssumption DEF ReaderInv, CallsOK, Calls, Call

\* A call takes one document of its list, or is done with it.
LEMMA TurnOK ==
  ASSUME ReaderInv, NEW p \in Calls, NEW t \in SUBSET proc[p].todo, NEW w, w = None \/ w \in proc[p].todo,
         proc' = [proc EXCEPT ![p] = [proc[p] EXCEPT !.wait = w, !.todo = t]]
  PROVE  /\ CallsOK' /\ ListsFrom("open") /\ ListsFrom("dispose")
         /\ Op'.doc = Op.doc /\ Op'.at = Op.at /\ Disposal'.at = Disposal.at
         /\ Op' = IF p = "open" THEN [Op EXCEPT !.wait = w, !.todo = t] ELSE Op
<1>1. proc \in [Calls -> Call] /\ None \notin Doc
  BY CallsTyped
<1> DEFINE s == [proc[p] EXCEPT !.wait = w, !.todo = t]
<1>2. s \in Call /\ s.at = proc[p].at /\ s.doc = proc[p].doc /\ s.todo = t /\ s.wait = w
  BY <1>1 DEF Call
<1>3. proc' \in [Calls -> Call] /\ proc'[p] = s /\ \A q \in Calls : q # p => proc'[q] = proc[q]
  BY <1>1, <1>2
<1>4. \A q \in Calls : proc'[q].at = proc[q].at /\ proc'[q].doc = proc[q].doc
  BY <1>2, <1>3
<1>5. Op' = IF p = "open" THEN s ELSE Op
  BY <1>3 DEF Calls
<1> HIDE DEF s
<1>6. CallsOK'
  BY <1>3, <1>4 DEF ReaderInv, CallsOK, Calls, Call
<1>7. ListsFrom(p)
  BY <1>1, <1>2, <1>3 DEF ListsFrom
<1>8. \A q \in Calls : q # p => ListsFrom(q)
  BY <1>3 DEF ListsFrom
<1>9. ListsFrom("open") /\ ListsFrom("dispose")
  BY <1>7, <1>8 DEF Calls
<1> QED
  BY <1>4, <1>5, <1>6, <1>9 DEF Calls, s

LEMMA TurnedTwice ==
  ASSUME ReaderInv, NEW p \in Calls
  PROVE  /\ \A t : [proc EXCEPT ![p].todo = t] = [proc EXCEPT ![p] = [proc[p] EXCEPT !.wait = proc[p].wait, !.todo = t]]
         /\ \A w : [proc EXCEPT ![p].wait = w] = [proc EXCEPT ![p] = [proc[p] EXCEPT !.wait = w, !.todo = proc[p].todo]]
         /\ \A t, w : [proc EXCEPT ![p].wait = w, ![p].todo = t] = [proc EXCEPT ![p] = [proc[p] EXCEPT !.wait = w, !.todo = t]]
         /\ proc[p].todo \subseteq Doc /\ proc[p].wait \in Doc \cup {None}
BY CallsTyped DEF Call

LEMMA CleanupStartsStep ==
  ASSUME ReaderInv, NEW p \in Calls, CleanupStarts(p)
  PROVE  ReaderInv'
<1>1. /\ proc[p].at \in {"cleanups", "unload"} /\ proc[p].wait = None
      /\ UNCHANGED <<cand, current, opening, disposed, quarantined, pendingCleanups, mayReject>>
  BY DEF CleanupStarts
<1>2. PICK d \in proc[p].todo :
        IF p = "dispose" /\ native[d] = "tearing"
        THEN proc' = [proc EXCEPT ![p].todo = @ \ {d}] /\ UNCHANGED native
        ELSE /\ proc' = [proc EXCEPT ![p].wait = d]
             /\ native' = IF native[d] = "open" THEN [native EXCEPT ![d] = "tearing"] ELSE native
  BY DEF CleanupStarts
<1>3. proc[p].todo \subseteq Doc /\ d \in Doc
  BY TurnedTwice
<1>4. Spent(d)
  BY <1>1, <1>3 DEF ReaderInv, ListsOK, Calls
<1>5. CASE p = "dispose" /\ native[d] = "tearing"
  <2>1. proc' = [proc EXCEPT ![p] = [proc[p] EXCEPT !.wait = None, !.todo = proc[p].todo \ {d}]] /\ UNCHANGED native
    BY <1>1, <1>2, <1>5, TurnedTwice
  <2>2. /\ CallsOK' /\ ListsFrom("open") /\ ListsFrom("dispose")
        /\ Op'.doc = Op.doc /\ Op'.at = Op.at /\ Disposal'.at = Disposal.at /\ Op' = Op
    BY <1>5, <2>1, TurnOK
  <2>3. native' = native
    BY <2>1
  <2>4. OpenStage' /\ DisposeStage'
    BY <1>1, <2>2, <2>3 DEF ReaderInv, OpenStage, DisposeStage
  <2> QED
    BY <1>1, <2>2, <2>3, <2>4, CallStep
<1>6. CASE ~(p = "dispose" /\ native[d] = "tearing")
  <2> DEFINE v == IF native[d] = "open" THEN "tearing" ELSE native[d]
  <2>1. proc' = [proc EXCEPT ![p] = [proc[p] EXCEPT !.wait = d, !.todo = proc[p].todo]]
    BY <1>2, <1>6, TurnedTwice
  <2>2. /\ CallsOK' /\ ListsFrom("open") /\ ListsFrom("dispose")
        /\ Op'.doc = Op.doc /\ Op'.at = Op.at /\ Disposal'.at = Disposal.at
        /\ Op' = IF p = "open" THEN [Op EXCEPT !.wait = d, !.todo = proc[p].todo] ELSE Op
    BY <2>1, TurnOK
  <2>3. native' = [native EXCEPT ![d] = v]
    BY <1>2, <1>3, <1>6, ActsOn
  <2>4. v \in {native[d], "tearing"} /\ (v = native[d] \/ native[d] = "open")
    OBVIOUS
  <2>5. \A e \in Doc : native[e] # "open" => native'[e] # "open"
    BY <2>3 DEF ReaderInv, Shape
  <2>6. native'[d] # "open"
    BY <1>3, <2>3 DEF ReaderInv, Shape
  <2> HIDE DEF v
  <2>7. Op'.at = "unload" =>
          (Op'.todo = {Op'.doc} /\ Op'.wait = None) \/ native'[Op'.doc] # "open" \/ Op'.doc \in pendingCleanups'
    <3> SUFFICES ASSUME Op.at = "unload"
                 PROVE  (Op'.todo = {Op'.doc} /\ Op'.wait = None) \/ native'[Op'.doc] # "open" \/ Op'.doc \in pendingCleanups'
      BY <2>2
    <3>1. Op.doc \in Doc
      BY CallsUnchanged
    <3>2. (Op.todo = {Op.doc} /\ Op.wait = None) \/ native[Op.doc] # "open" \/ Op.doc \in pendingCleanups
      BY DEF ReaderInv, OpenStage
    <3>3. p = "open" /\ Op.todo = {Op.doc} => d = Op.doc
      OBVIOUS
    <3> QED
      BY <1>1, <2>2, <2>5, <2>6, <3>1, <3>2, <3>3
  <2>8. Op'.at = "source" => Op'.wait = None
    BY <1>1, <2>2 DEF ReaderInv, OpenStage
  <2>9. OpenStage' /\ DisposeStage'
    BY <1>1, <2>2, <2>7, <2>8 DEF ReaderInv, OpenStage, DisposeStage
  <2> QED
    BY <1>1, <1>3, <1>4, <2>2, <2>3, <2>4, <2>9, NativeStep
<1> QED
  BY <1>5, <1>6

LEMMA CleanupReturnsStep ==
  ASSUME ReaderInv, NEW p \in Calls, CleanupReturns(p)
  PROVE  ReaderInv'
<1>1. /\ proc[p].at \in {"cleanups", "unload"} /\ proc[p].wait # None
      /\ UNCHANGED <<cand, native, current, opening, disposed, quarantined, mayReject>>
  BY DEF CleanupReturns
<1>2. PICK d \in Doc : d = proc[p].wait
  BY <1>1, TurnedTwice
<1>3. pendingCleanups' \in {pendingCleanups, pendingCleanups \cup {d}}
  BY <1>2 DEF CleanupReturns
<1>4. proc' = [proc EXCEPT ![p] = [proc[p] EXCEPT !.wait = None, !.todo = proc[p].todo \ {d}]]
  BY <1>2, TurnedTwice DEF CleanupReturns
<1>5. /\ CallsOK' /\ ListsFrom("open") /\ ListsFrom("dispose")
      /\ Op'.doc = Op.doc /\ Op'.at = Op.at /\ Disposal'.at = Disposal.at
      /\ Op' = IF p = "open" THEN [Op EXCEPT !.wait = None, !.todo = proc[p].todo \ {d}] ELSE Op
  BY <1>4, TurnOK
<1>6. Spent(d)
  BY <1>1, <1>2 DEF ReaderInv, ListsOK, Calls
<1>7. native' = [native EXCEPT ![d] = native[d]]
  BY <1>1, ActsOn
<1>8. Op'.at = "unload" =>
        (Op'.todo = {Op'.doc} /\ Op'.wait = None) \/ native'[Op'.doc] # "open" \/ Op'.doc \in pendingCleanups'
  <2> SUFFICES ASSUME Op.at = "unload"
               PROVE  (Op'.todo = {Op'.doc} /\ Op'.wait = None) \/ native'[Op'.doc] # "open" \/ Op'.doc \in pendingCleanups'
    BY <1>5
  <2>1. (Op.todo = {Op.doc} /\ Op.wait = None) \/ native[Op.doc] # "open" \/ Op.doc \in pendingCleanups
    BY DEF ReaderInv, OpenStage
  <2> QED
    BY <1>1, <1>3, <1>5, <2>1
<1>9. Op'.at = "source" => Op'.wait = None
  BY <1>1, <1>5 DEF ReaderInv, OpenStage
<1>10. OpenStage' /\ DisposeStage'
  BY <1>1, <1>5, <1>8, <1>9 DEF ReaderInv, OpenStage, DisposeStage
<1> QED
  BY <1>1, <1>3, <1>5, <1>6, <1>7, <1>10, NativeStep

LEMMA QuarantineReturnsStep ==
  ASSUME ReaderInv, NEW p \in Calls, QuarantineReturns(p)
  PROVE  ReaderInv'
<1>1. /\ proc[p].at = "quarantine"
      /\ UNCHANGED <<cand, native, current, opening, disposed, quarantined, pendingCleanups, mayReject>>
  BY DEF QuarantineReturns
<1> DEFINE t == proc[p].todo \ {proc[p].wait}
<1>2. proc' = [proc EXCEPT ![p] = [proc[p] EXCEPT !.wait = None, !.todo = t]]
  BY TurnedTwice DEF QuarantineReturns
<1>3. /\ CallsOK' /\ ListsFrom("open") /\ ListsFrom("dispose")
      /\ Op'.doc = Op.doc /\ Op'.at = Op.at /\ Disposal'.at = Disposal.at
      /\ Op' = IF p = "open" THEN [Op EXCEPT !.wait = None, !.todo = t] ELSE Op
  BY <1>2, TurnOK
<1>4. Op.at \in {"source", "unload"} => Op' = Op
  BY <1>1, <1>3
<1>5. OpenStage' /\ DisposeStage'
  BY <1>1, <1>3, <1>4 DEF ReaderInv, OpenStage, DisposeStage
<1> QED
  BY <1>1, <1>3, <1>5, CallStep

\* A call goes on to another stage.
LEMMA MoveOK ==
  ASSUME ReaderInv, NEW p \in Calls, NEW s \in Call, proc' = [proc EXCEPT ![p] = s],
         p = "open" => s.at \in OpenStages /\ (s.doc = None <=> s.at = "idle"),
         p = "dispose" => s.at \in DisposeStages,
         \A e \in Doc : e \in s.todo \/ e = s.wait =>
            \/ s.at \notin {"quarantine", "cleanups", "unload"}
            \/ s.at = "quarantine" /\ e \in quarantined
            \/ s.at \in {"cleanups", "unload"} /\ (e \in pendingCleanups \/ Spent(e)')
  PROVE  /\ CallsOK' /\ ListsFrom("open") /\ ListsFrom("dispose")
         /\ p = "open" => Op' = s /\ Disposal' = Disposal
         /\ p = "dispose" => Op' = Op /\ Disposal' = s
<1>1. proc \in [Calls -> Call]
  BY CallsTyped
<1>2. proc' \in [Calls -> Call] /\ proc'[p] = s /\ \A q \in Calls : q # p => proc'[q] = proc[q]
  BY <1>1
<1>3. /\ p = "open" => Op' = s /\ Disposal' = Disposal
      /\ p = "dispose" => Op' = Op /\ Disposal' = s
  BY <1>2 DEF Calls
<1>4. CallsOK'
  BY <1>2, <1>3 DEF ReaderInv, CallsOK, Calls, Call
<1>5. ListsFrom(p)
  BY <1>2 DEF ListsFrom
<1>6. \A q \in Calls : q # p => ListsFrom(q)
  BY <1>2 DEF ListsFrom
<1>7. ListsFrom("open") /\ ListsFrom("dispose")
  BY <1>5, <1>6 DEF Calls
<1> QED
  BY <1>3, <1>4, <1>7

LEMMA AdoptStep ==
  ASSUME ReaderInv, NEW d \in Doc, Adopt(d)
  PROVE  ReaderInv'
<1> DEFINE n == [cand[d] EXCEPT !.made = TRUE]
           s == [Idle EXCEPT !.at = "cleanups", !.doc = d, !.todo = pendingCleanups]
<1>1. /\ Op.at = "idle" /\ ~disposed /\ ~cand[d].made /\ current = None
      /\ cand' = [cand EXCEPT ![d] = n] /\ proc' = [proc EXCEPT !["open"] = s]
      /\ UNCHANGED <<native, current, opening, disposed, quarantined, pendingCleanups>>
  BY DEF Adopt
<1>2. Op.doc = None /\ opening = None /\ None \notin Doc
  BY <1>1, CallsUnchanged, ReaderAssumption DEF ReaderInv, CallsOK, Opening
<1>3. DocInv(d) /\ cand[d] = NewCandidate /\ native[d] = "open" /\ cand[d] \in Candidate
  BY <1>1 DEF ReaderInv, DocInv, Untouched
<1>4. /\ n \in Candidate /\ n.made /\ ~n.closed /\ ~n.prompt /\ n.staged = "none" /\ n.owned = {} /\ ~n.raster
      /\ n.cursor = "none" /\ n.phase = [k \in Phase |-> "none"] /\ n.retry = "none"
  <2>1. /\ n \in Candidate /\ n.made /\ n.closed = cand[d].closed /\ n.prompt = cand[d].prompt
        /\ n.staged = cand[d].staged /\ n.owned = cand[d].owned /\ n.raster = cand[d].raster
        /\ n.cursor = cand[d].cursor /\ n.phase = cand[d].phase /\ n.retry = cand[d].retry
    BY <1>3 DEF Candidate
  <2> HIDE DEF n
  <2>2. /\ ~cand[d].closed /\ ~cand[d].prompt /\ cand[d].staged = "none" /\ cand[d].owned = {} /\ ~cand[d].raster
        /\ cand[d].cursor = "none" /\ cand[d].phase = [k \in Phase |-> "none"] /\ cand[d].retry = "none"
    BY <1>3 DEF NewCandidate
  <2> QED
    BY <2>1, <2>2
<1> HIDE DEF n
<1>5. CandidateInv(n)
  BY <1>4 DEF CandidateInv, CandidateOK, Begun, Settled, PhasesInOrder, StagedAlone, Phase, Running
<1>6. s \in Call /\ s.at = "cleanups" /\ s.doc = d /\ s.todo = pendingCleanups /\ s.wait = None
  BY DEF Idle, Call, OpenStages, Early, ReaderInv, Shape
<1> HIDE DEF s
<1>7. /\ CallsOK' /\ ListsFrom("open") /\ ListsFrom("dispose")
      /\ Op' = s /\ Disposal' = Disposal
  BY <1>1, <1>2, <1>6, MoveOK DEF Calls, OpenStages, Early
<1>8. /\ \A e \in Doc \ {d} : Bystands(e)
      /\ Shape' /\ cand'[d] = n /\ native'[d] = native[d]
  BY <1>1, <1>2, <1>6, <1>7, Others DEF Nearly
<1>9. d \notin pendingCleanups /\ d \notin quarantined
  BY <1>1, <1>3 DEF DocInv, Listed
<1>10. Keeps(d)
  BY <1>1, <1>3 DEF Keeps, Spent, MayRetry, NewCandidate, Phase
<1>11. DocInv(d)'
  <2>1. NativeFollows(d)'
    BY <1>1, <1>3, <1>4, <1>8, <1>9 DEF NativeFollows, Phase
  <2>2. Untouched(d)' /\ Listed(d)' /\ Shown(d)'
    BY <1>1, <1>3, <1>4, <1>6, <1>7, <1>8, <1>9 DEF Untouched, Listed, Shown
  <2> QED
    BY <1>3, <1>5, <1>8, <2>1, <2>2 DEF DocInv, CandidateInv
<1>12. OpenStage'
  BY <1>1, <1>2, <1>4, <1>6, <1>7, <1>8 DEF OpenStage, Early, Opening
<1>13. DisposeStage'
  BY <1>1, <1>7, DisposeStays
<1>14. {d} \in SUBSET Doc /\ \A e \in {d} : DocInv(e)' /\ Keeps(e)
  BY <1>10, <1>11
<1> QED
  BY <1>7, <1>8, <1>12, <1>13, <1>14, Compose

\* Before anything is loaded.
LEMMA EarlyOK ==
  ASSUME ReaderInv, Op.at \in Early
  PROVE  /\ Op.doc \in Doc /\ current = None /\ opening = None /\ cand[Op.doc].made
         /\ cand[Op.doc].cursor = "none" /\ ~cand[Op.doc].raster /\ cand[Op.doc].owned = {} /\ cand[Op.doc].staged = "none"
         /\ Op \in Call
<1>1. Op.at # "idle" /\ Op.at \notin Opening
  BY DEF Early, Opening
<1> QED
  BY <1>1, CallsUnchanged, CallsTyped DEF ReaderInv, OpenStage, Calls

LEMMA GateStep ==
  ASSUME ReaderInv, Op.at \in Early \ {"unload"}, NEW s \in Call,
         s.at \in Early, s.doc = Op.doc, s.wait = None,
         \/ s.at = "source" /\ s.todo = {}
         \/ s.at = "quarantine" /\ s.todo = quarantined
         \/ s.at = "unload" /\ s.todo = {Op.doc},
         proc' = [proc EXCEPT !["open"] = s],
         UNCHANGED <<cand, native, current, opening, disposed, quarantined, pendingCleanups>>
  PROVE  ReaderInv'
<1>1. /\ Op.doc \in Doc /\ current = None /\ opening = None /\ cand[Op.doc].made
      /\ cand[Op.doc].cursor = "none" /\ ~cand[Op.doc].raster /\ cand[Op.doc].owned = {} /\ cand[Op.doc].staged = "none"
      /\ proc \in [Calls -> Call] /\ None \notin Doc
  BY EarlyOK, CallsTyped
<1>2. Op'.at = s.at /\ Op'.doc = s.doc
  BY <1>1 DEF Calls
<1>3. s.at = "unload" => Spent(Op.doc)'
  BY <1>1, <1>2 DEF Spent
<1>4. /\ CallsOK' /\ ListsFrom("open") /\ ListsFrom("dispose")
      /\ Op' = s /\ Disposal' = Disposal
  <2>1. "open" \in Calls /\ s.at \in OpenStages /\ (s.doc = None <=> s.at = "idle")
    BY <1>1 DEF Calls, OpenStages, Early
  <2>2. \A e \in Doc : e \in s.todo \/ e = s.wait =>
            \/ s.at \notin {"quarantine", "cleanups", "unload"}
            \/ s.at = "quarantine" /\ e \in quarantined
            \/ s.at \in {"cleanups", "unload"} /\ (e \in pendingCleanups \/ Spent(e)')
    BY <1>1, <1>3
  <2> QED
    BY <2>1, <2>2, MoveOK
<1>5. OpenStage'
  BY <1>1, <1>4 DEF OpenStage, Early, Opening
<1>6. DisposeStage'
  BY <1>4, DisposeStays
<1>7. Op.at \in Early /\ Op'.doc = Op.doc /\ (Op.at = "unload" => Op'.at = "unload")
  BY <1>2
<1> QED
  BY <1>4, <1>5, <1>6, <1>7, CallStep

LEMMA UnloadStep ==
  ASSUME ReaderInv, Op.at \in Early \ {"unload"}, Op.wait = None, Unload,
         UNCHANGED <<cand, native, current, opening, disposed, quarantined, pendingCleanups>>
  PROVE  ReaderInv'
<1> DEFINE s == [Op EXCEPT !.at = "unload", !.todo = {Op.doc}]
<1>1. Op \in Call /\ Op.doc \in Doc /\ proc \in [Calls -> Call]
  BY EarlyOK, CallsTyped
<1>2. s \in Call /\ s.at = "unload" /\ s.doc = Op.doc /\ s.wait = None /\ s.todo = {Op.doc}
  BY <1>1 DEF Call, OpenStages, Early
<1>3. proc' = [proc EXCEPT !["open"] = s]
  BY <1>1 DEF Unload, Call, Calls
<1> HIDE DEF s
<1>4. s.at \in Early
  BY <1>2 DEF Early
<1> QED
  BY <1>2, <1>3, <1>4, GateStep

LEMMA OpenGateStep ==
  ASSUME ReaderInv, OpenGate
  PROVE  ReaderInv'
<1>1. /\ Op.todo = {} /\ Op.wait = None /\ Op.at \in {"cleanups", "quarantine", "unload"}
      /\ UNCHANGED <<cand, native, current, opening, disposed, quarantined, pendingCleanups>>
  BY DEF OpenGate
<1>2. Op.at \in Early /\ Op \in Call /\ proc \in [Calls -> Call]
  BY <1>1, EarlyOK, CallsTyped DEF Early
<1>3. CASE Op.at = "cleanups" /\ pendingCleanups = {}
  <2> DEFINE s == [Op EXCEPT !.at = "quarantine", !.todo = quarantined]
  <2>1. proc' = [proc EXCEPT !["open"].at = "quarantine", !["open"].todo = quarantined]
    BY <1>3 DEF OpenGate
  <2>2. proc' = [proc EXCEPT !["open"] = s]
    BY <1>2, <2>1 DEF Call, Calls
  <2>3. quarantined \subseteq Doc
    BY DEF ReaderInv, Shape
  <2>4. s \in Call /\ s.at = "quarantine" /\ s.doc = Op.doc /\ s.wait = None /\ s.todo = quarantined
    BY <1>1, <1>2, <2>3 DEF Call, OpenStages, Early
  <2> HIDE DEF s
  <2>5. s.at \in Early /\ Op.at \in Early \ {"unload"}
    BY <1>3, <2>4 DEF Early
  <2> QED
    BY <1>1, <2>2, <2>4, <2>5, GateStep
<1>4. CASE Op.at \in {"cleanups", "quarantine"} /\ Unload
  <2>1. Op.at \in Early \ {"unload"}
    BY <1>4 DEF Early
  <2> QED
    BY <1>1, <1>4, <2>1, UnloadStep
<1>5. CASE Op.at = "quarantine" /\ Goto("source")
  <2> DEFINE s == [Op EXCEPT !.at = "source", !.todo = {}]
  <2>1. proc' = [proc EXCEPT !["open"] = s]
    BY <1>2, <1>5 DEF Goto, Call, Calls
  <2>2. s \in Call /\ s.at = "source" /\ s.doc = Op.doc /\ s.wait = None /\ s.todo = {}
    BY <1>1, <1>2 DEF Call, OpenStages, Early
  <2> HIDE DEF s
  <2>3. s.at \in Early /\ Op.at \in Early \ {"unload"}
    BY <1>5, <2>2 DEF Early
  <2> QED
    BY <1>1, <2>1, <2>2, <2>3, GateStep
<1>6. CASE Op.at = "unload"
  <2>1. proc' = [proc EXCEPT !["open"] = Idle]
    BY <1>6 DEF OpenGate
  <2>2. /\ CallsOK' /\ Op'.at = "idle" /\ Op'.doc = None /\ Disposal' = Disposal
        /\ ListsFrom("open") /\ ListsFrom("dispose")
    BY <2>1, IdleOK
  <2>3. native[Op.doc] # "open" \/ Op.doc \in pendingCleanups
    BY <1>1, <1>6 DEF ReaderInv, OpenStage
  <2>4. OpenStage' /\ DisposeStage'
    BY <1>1, <1>2, <2>2, EarlyOK, DisposeStays DEF OpenStage, Early, Opening
  <2> QED
    BY <1>1, <1>2, <2>2, <2>3, <2>4, CallStep
<1> QED
  BY <1>3, <1>4, <1>5, <1>6 DEF OpenGate

LEMMA OpenSourceStep ==
  ASSUME ReaderInv, OpenSource
  PROVE  ReaderInv'
<1>1. /\ Op.at = "source" /\ UNCHANGED <<native, disposed, quarantined, pendingCleanups>>
  BY DEF OpenSource
<1>2. Op.wait = None /\ Op.at \in Early \ {"unload"}
  BY <1>1 DEF ReaderInv, OpenStage, Early
<1>3. CASE Unload /\ UNCHANGED <<cand, opening, current>>
  BY <1>1, <1>2, <1>3, UnloadStep
<1>4. CASE Goto("failed") /\ DisposeCandidate(Op.doc)
  BY <1>1, <1>4, FailStep DEF Fail
<1>5. CASE Goto("loading") /\ opening' = Op.doc /\ UNCHANGED <<cand, current>>
  <2>1. PICK d \in Doc : Op.doc = d
    BY <1>2, EarlyOK
  <2>2. /\ current = None /\ opening = None /\ cand[d].made /\ cand[d].cursor = "none" /\ ~cand[d].raster
        /\ cand[d].owned = {} /\ cand[d].staged = "none" /\ DocInv(d)
    BY <1>2, <2>1, EarlyOK DEF ReaderInv
  <2>3. /\ CallsOK' /\ Op'.at = "loading" /\ Op'.doc = d /\ Disposal' = Disposal
        /\ ListsFrom("open") /\ ListsFrom("dispose")
    BY <1>1, <1>5, <2>1, GotoOK DEF OpenStages, Opening
  <2>4. cand' = [cand EXCEPT ![d] = cand[d]]
    BY <1>5, ActsOn
  <2>5. /\ \A e \in Doc \ {d} : Bystands(e)
        /\ Shape' /\ cand'[d] = cand[d] /\ native'[d] = native[d]
    BY <1>1, <1>5, <2>1, <2>2, <2>3, <2>4, Others DEF Nearly
  <2>6. ~Spent(d) /\ ~cand[d].closed /\ ~cand[d].prompt /\ ~MayRetry(cand[d])
    BY <1>1, <2>1, <2>2, ReaderAssumption DEF DocInv, Spent, CandidateOK, Shown, MayRetry
  <2>7. NativeFollows(d)'
    BY <1>1, <2>2, <2>5, <2>6 DEF DocInv, NativeFollows
  <2>8. Untouched(d)' /\ Listed(d)' /\ Shown(d)'
    BY <1>1, <1>5, <2>1, <2>2, <2>3, <2>5, <2>6 DEF DocInv, Untouched, Listed, Shown
  <2>9. \A e \in {d} : DocInv(e)' /\ Keeps(e)
    BY <2>2, <2>5, <2>6, <2>7, <2>8 DEF DocInv, Keeps
  <2>10. OpenStage'
    BY <1>5, <2>1, <2>2, <2>3, <2>5 DEF OpenStage, Early, Opening
  <2>11. DisposeStage' /\ {d} \in SUBSET Doc
    BY <1>1, <1>5, <2>2, <2>3, DisposeStays
  <2> QED
    BY <2>3, <2>5, <2>9, <2>10, <2>11, Compose
<1> QED
  BY <1>3, <1>4, <1>5 DEF OpenSource

\* A document on the list of a call is asked once more.
LEMMA QuarantineRetriedStep ==
  ASSUME ReaderInv, NEW p \in Calls, QuarantineRetried(p)
  PROVE  ReaderInv'
<1>1. /\ proc[p].at = "quarantine" /\ proc[p].wait = None
      /\ UNCHANGED <<native, disposed, quarantined, pendingCleanups>>
  BY DEF QuarantineRetried
<1> DEFINE Forgiven(c) == IF c.staged = "rejected" THEN [c EXCEPT !.staged = "registered"] ELSE c
<1>2. PICK d \in proc[p].todo :
        /\ ~(cand[d].cursor = "ownership" /\ Outstanding(cand[d]) = {})
        /\ IF cand[d].retry # "none" \/ ~Unblocked(cand[d])
           THEN /\ cand' = [cand EXCEPT ![d] = Forgiven(cand[d])]
                /\ proc' = [proc EXCEPT ![p].todo = @ \ {d}]
                /\ UNCHANGED <<opening, current>>
           ELSE /\ cand' = [cand EXCEPT ![d] = CloseAgain(Forgiven(cand[d]))]
                /\ proc' = [proc EXCEPT ![p].wait = d]
                /\ LetGo(d)
  BY DEF QuarantineRetried
<1> DEFINE c == cand[d]
           m == Forgiven(c)
<1>3. d \in Doc
  BY TurnedTwice
<1>4. /\ CandidateInv(c) /\ c \in Candidate /\ Shown(d) /\ MayRetry(c) /\ c.made
      /\ \A k \in Phase : c.phase[k] # "none" => c.cursor # "none"
  <2>1. MayRetry(c)
    BY <1>1, <1>3 DEF ReaderInv, ListsOK, Calls
  <2> QED
    BY <1>3, <2>1, Acts DEF MayRetry
<1>5. /\ CandidateInv(m) /\ m.made = c.made /\ m.owned = c.owned /\ m.phase = c.phase /\ m.raster = c.raster
      /\ m.cursor = c.cursor /\ m.closed = c.closed /\ m.prompt = c.prompt
      /\ (c.staged = "none" => m.staged = "none")
  <2>1. CASE c.staged # "rejected"
    BY <1>4, <2>1
  <2>2. CASE c.staged = "rejected"
    <3>1. /\ m \in Candidate /\ m.made = c.made /\ m.owned = c.owned /\ m.phase = c.phase /\ m.raster = c.raster
          /\ m.cursor = c.cursor /\ m.closed = c.closed /\ m.prompt = c.prompt /\ m.staged = "registered"
          /\ m.retry = c.retry /\ m.passwordPending = c.passwordPending /\ m.challenge = c.challenge
      BY <1>4, <2>2 DEF Candidate
    <3>2. c.owned = {} /\ c.cursor # "ownership"
      BY <1>2, <1>4, <2>2 DEF CandidateInv, CandidateOK, StagedAlone, Outstanding
    <3>3. ~Begun(c)
      BY <1>4, <2>2 DEF CandidateInv, CandidateOK, Settled
    <3> HIDE DEF m
    <3>4. CandidateOK(m)
      BY <1>4, <3>1, <3>2, <3>3 DEF CandidateInv, CandidateOK, Begun, PhasesInOrder, StagedAlone
    <3> QED
      BY <2>2, <3>1, <3>4 DEF CandidateInv
  <2> QED
    BY <2>1, <2>2
<1>6. Op.doc = d => Op.at \notin Early
  BY <1>4, EarlyOK DEF MayRetry
<1>7. d \in {current, opening} \/ (Op.doc = d /\ Op.at # "unload") \/ c.cursor # "none"
  BY <1>4 DEF MayRetry, Shown
<1>8. CASE c.retry # "none" \/ ~Unblocked(c)
  <2>1. /\ cand' = [cand EXCEPT ![d] = m] /\ UNCHANGED <<opening, current>>
        /\ proc' = [proc EXCEPT ![p].todo = @ \ {d}]
    BY <1>2, <1>8
  <2> HIDE DEF m
  <2>2. c.cursor # "none"
    BY <1>4, <1>8 DEF CandidateInv, CandidateOK, Unblocked
  <2>3. c.closed /\ ~c.prompt /\ d \notin {current, opening}
    BY <1>4, <2>2 DEF CandidateInv, CandidateOK, Shown
  <2>4. proc' = [proc EXCEPT ![p] = [proc[p] EXCEPT !.wait = None, !.todo = proc[p].todo \ {d}]]
    BY <1>1, <2>1, TurnedTwice
  <2>5. /\ CallsOK' /\ ListsFrom("open") /\ ListsFrom("dispose")
        /\ Op'.doc = Op.doc /\ Op'.at = Op.at /\ Disposal'.at = Disposal.at
        /\ (p # "open" => Op' = Op)
    BY <2>4, TurnOK
  <2>6. DisposeStage'
    BY <1>1, <2>1, <2>5 DEF ReaderInv, DisposeStage
  <2>7. Op.at \in {"source", "unload"} => Op' = Op
    BY <1>1, <2>5
  <2>8. opening' = (IF opening = d THEN None ELSE opening) /\ current' = (IF current = d THEN None ELSE current)
    BY <2>1, <2>3
  <2>9. m.closed /\ ~m.prompt /\ m.cursor # "none" /\ (m.cursor # "stopped" \/ m.cursor = c.cursor)
    BY <1>5, <2>2, <2>3
  <2>10. cand[d].made
    BY <1>4
  <2> QED
    BY <1>1, <1>3, <1>5, <1>6, <1>7, <2>1, <2>5, <2>6, <2>7, <2>8, <2>9, <2>10, WithdrawStep
<1>9. CASE ~(c.retry # "none" \/ ~Unblocked(c))
  <2> DEFINE n == CloseAgain(m)
  <2>1. /\ cand' = [cand EXCEPT ![d] = n] /\ LetGo(d)
        /\ proc' = [proc EXCEPT ![p].wait = d]
    BY <1>2, <1>9
  <2> HIDE DEF m
  <2>2. /\ CandidateInv(n)
        /\ n.closed /\ ~n.prompt /\ n.cursor \in Running
        /\ n.made = m.made /\ n.owned = m.owned /\ n.phase = m.phase /\ n.raster = m.raster
        /\ (m.staged = "none" => n.staged = "none")
    BY <1>5, CloseAgainOK
  <2> HIDE DEF n
  <2>3. n.cursor # "none" /\ n.cursor # "stopped"
    BY <2>2 DEF Running, Phase
  <2>4. proc' = [proc EXCEPT ![p] = [proc[p] EXCEPT !.wait = d, !.todo = proc[p].todo]]
    BY <2>1, TurnedTwice
  <2>5. /\ CallsOK' /\ ListsFrom("open") /\ ListsFrom("dispose")
        /\ Op'.doc = Op.doc /\ Op'.at = Op.at /\ Disposal'.at = Disposal.at
        /\ (p # "open" => Op' = Op)
    BY <2>4, TurnOK
  <2>6. opening' = (IF opening = d THEN None ELSE opening) /\ current' = (IF current = d THEN None ELSE current)
    BY <2>1 DEF LetGo
  <2>7. DisposeStage'
    BY <1>1, <2>5, <2>6 DEF ReaderInv, DisposeStage
  <2>8. Op.at \in {"source", "unload"} => Op' = Op
    BY <1>1, <2>5
  <2>9. /\ n.made = c.made /\ n.owned = c.owned /\ n.phase = c.phase /\ n.raster = c.raster
        /\ (c.staged = "none" => n.staged = "none") /\ cand[d].made
    BY <1>4, <1>5, <2>2
  <2> QED
    BY <1>1, <1>3, <1>6, <1>7, <2>1, <2>2, <2>3, <2>5, <2>6, <2>7, <2>8, <2>9, WithdrawStep
<1> QED
  BY <1>8, <1>9

LEMMA DisposeCalledStep ==
  ASSUME ReaderInv, Dispose
  PROVE  ReaderInv'
<1> DEFINE s == [Idle EXCEPT !.at = "quarantine", !.todo = quarantined, !.attempt = Disposal.attempt + 1]
<1>1. /\ opening # None => ~cand[opening].challenge
      /\ disposed' = TRUE /\ proc' = [proc EXCEPT !["dispose"] = s]
      /\ UNCHANGED <<cand, native, current, opening, quarantined, pendingCleanups>>
  BY DEF Dispose
<1>2. proc \in [Calls -> Call] /\ None \notin Doc /\ quarantined \subseteq Doc
  BY CallsTyped DEF ReaderInv, Shape
<1>3. s \in Call /\ s.at = "quarantine" /\ s.todo = quarantined /\ s.wait = None
  <2>1. Disposal.attempt + 1 \in Nat
    BY <1>2 DEF Calls, Call
  <2> QED
    BY <1>2, <2>1 DEF Idle, Call, DisposeStages
<1> HIDE DEF s
<1>4. /\ CallsOK' /\ ListsFrom("open") /\ ListsFrom("dispose") /\ Op' = Op /\ Disposal' = s
  BY <1>1, <1>2, <1>3, MoveOK DEF Calls, DisposeStages
<1>5. ASSUME NEW e \in Doc PROVE Bystands(e)
  <2>1. ~cand[e].prompt
    BY <1>1, <1>2 DEF ReaderInv, DocInv, Shown, CandidateOK
  <2> QED
    BY <1>1, <1>4, <2>1 DEF Bystands
<1>6. Shape' /\ OpenStage' /\ DisposeStage'
  BY <1>1, <1>3, <1>4 DEF ReaderInv, Shape, OpenStage, DisposeStage
<1>7. {} \in SUBSET Doc
  OBVIOUS
<1> QED
  BY <1>4, <1>5, <1>6, <1>7, Compose

LEMMA OpenStays == ReaderInv /\ Op' = Op /\ UNCHANGED <<cand, native, current, opening, pendingCleanups>> => OpenStage'
BY DEF ReaderInv, OpenStage

LEMMA DisposeNextStep ==
  ASSUME ReaderInv, disposed, NEW next \in {opening, current},
         NEW at \in {"opening", "current"}, at = "current" => next = current,
         proc' = [proc EXCEPT !["dispose"].at = at, !["dispose"].wait = next],
         IF next = None THEN UNCHANGED <<cand, opening, current>> ELSE DisposeCandidate(next),
         UNCHANGED <<native, disposed, quarantined, pendingCleanups>>
  PROVE  ReaderInv'
<1> DEFINE s == [Disposal EXCEPT !.at = at, !.wait = next]
<1>1. proc \in [Calls -> Call] /\ None \notin Doc /\ next \in Doc \cup {None}
  BY CallsTyped DEF ReaderInv, Shape
<1>2. s \in Call /\ s.at = at
  BY <1>1 DEF Calls, Call, DisposeStages
<1>3. proc' = [proc EXCEPT !["dispose"] = s]
  BY <1>1 DEF Calls, Call
<1> HIDE DEF s
<1>4. /\ CallsOK' /\ ListsFrom("open") /\ ListsFrom("dispose") /\ Op' = Op /\ Disposal' = s
  <2>1. "dispose" \in Calls /\ s.at \in DisposeStages /\ s.at \notin {"quarantine", "cleanups", "unload"}
    BY <1>2 DEF Calls, DisposeStages
  <2> QED
    BY <1>2, <1>3, <2>1, MoveOK
<1>5. CASE next = None
  <2>1. UNCHANGED <<cand, opening, current>>
    BY <1>5
  <2>2. OpenStage'
    BY <1>4, <2>1, OpenStays
  <2>3. DisposeStage'
    <3>1. at = "current" => current' = None
      BY <1>5, <2>1
    <3> QED
      BY <1>2, <1>4, <3>1 DEF DisposeStage
  <2> QED
    BY <1>4, <2>1, <2>2, <2>3, CallStep
<1>6. CASE next # None
  <2>1. PICK d \in Doc : d = next
    BY <1>1, <1>6
  <2> DEFINE n == Close(cand[d])
  <2>2. DisposeCandidate(d) /\ d \in {current, opening}
    BY <1>6, <2>1
  <2>3. /\ cand' = [cand EXCEPT ![d] = n] /\ CandidateInv(n)
        /\ n.closed /\ ~n.prompt /\ n.made = cand[d].made /\ n.cursor # "none"
        /\ n.cursor # "stopped" \/ n.cursor = cand[d].cursor
        /\ n.owned = cand[d].owned /\ n.phase = cand[d].phase /\ n.raster = cand[d].raster
        /\ opening' = IF opening = d THEN None ELSE opening
        /\ current' = IF current = d THEN None ELSE current
    BY <2>2, DisposeCandidateOK
  <2>4. (cand[d].staged = "none" => n.staged = "none") /\ cand[d].made
    BY <2>2, Acts, CloseStaged DEF ReaderInv, DocInv, Untouched
  <2> HIDE DEF n
  <2>5. Op.doc = d => Op.at \notin Early
    <3>1. Op.at \in Early => current = None /\ opening = None
      BY EarlyOK
    <3> QED
      BY <1>1, <2>2, <3>1
  <2>6. DisposeStage'
    <3>1. at = "current" => current' = None
      BY <2>1, <2>3
    <3> QED
      BY <1>2, <1>4, <3>1 DEF DisposeStage
  <2> QED
    BY <1>4, <2>2, <2>3, <2>4, <2>5, <2>6, WithdrawStep
<1> QED
  BY <1>5, <1>6

LEMMA DisposeCleanupsStep ==
  ASSUME ReaderInv, DisposeCleanups
  PROVE  ReaderInv'
<1> DEFINE s == [Idle EXCEPT !.at = "cleanups", !.todo = pendingCleanups, !.attempt = Disposal.attempt]
<1>1. /\ opening' = None /\ current' = None /\ proc' = [proc EXCEPT !["dispose"] = s]
      /\ UNCHANGED <<cand, native, disposed, quarantined, pendingCleanups>>
  BY DEF DisposeCleanups, Then
<1>2. disposed /\ current = None
  BY DEF DisposeCleanups, ReaderInv, DisposeStage
<1>3. proc \in [Calls -> Call] /\ None \notin Doc /\ pendingCleanups \subseteq Doc
  BY CallsTyped DEF ReaderInv, Shape
<1>4. s \in Call /\ s.at = "cleanups" /\ s.todo = pendingCleanups /\ s.wait = None
  BY <1>3 DEF Idle, Calls, Call, DisposeStages
<1> HIDE DEF s
<1>5. /\ CallsOK' /\ ListsFrom("open") /\ ListsFrom("dispose") /\ Op' = Op /\ Disposal' = s
  BY <1>1, <1>3, <1>4, MoveOK DEF Calls, DisposeStages
<1>6. ASSUME NEW e \in Doc PROVE DocInv(e)' /\ Keeps(e)
  <2>1. DocInv(e) /\ (opening = e => Op.doc = e)
    BY CallsUnchanged, <1>3 DEF ReaderInv
  <2>2. Spent(e) => Spent(e)'
    BY <1>1, <1>3, <1>5 DEF Spent
  <2>3. NativeFollows(e)'
    BY <1>1, <2>1, <2>2 DEF DocInv, NativeFollows
  <2>4. Untouched(e)' /\ Shown(e)'
    BY <1>1, <1>2, <1>3, <1>5, <2>1 DEF DocInv, Untouched, Shown
  <2>5. Listed(e)'
    BY <1>1, <1>2, <1>3, <1>5, <2>1 DEF DocInv, Listed
  <2> QED
    BY <1>1, <2>1, <2>2, <2>3, <2>4, <2>5 DEF DocInv, Keeps
<1>7. Shape' /\ OpenStage' /\ DisposeStage'
  BY <1>1, <1>2, <1>4, <1>5 DEF ReaderInv, Shape, OpenStage, DisposeStage
<1>8. Doc \in SUBSET Doc
  OBVIOUS
<1> QED
  BY <1>5, <1>6, <1>7, <1>8, Compose

LEMMA DisposeReturnsStep ==
  ASSUME ReaderInv, DisposeReturns
  PROVE  ReaderInv'
<1>1. PICK at \in {"resolved", "rejected"} :
        proc' = [proc EXCEPT !["dispose"] = [Idle EXCEPT !.at = at, !.todo = {}, !.attempt = Disposal.attempt]]
  BY DEF DisposeReturns, Then
<1> DEFINE s == [Idle EXCEPT !.at = at, !.todo = {}, !.attempt = Disposal.attempt]
<1>2. /\ Disposal.at = "cleanups"
      /\ UNCHANGED <<cand, native, current, opening, disposed, quarantined, pendingCleanups>>
  BY DEF DisposeReturns
<1>3. proc \in [Calls -> Call] /\ None \notin Doc
  BY CallsTyped
<1>4. s \in Call /\ s.at = at /\ s.todo = {} /\ s.wait = None
  BY <1>3 DEF Idle, Calls, Call, DisposeStages
<1>5. proc' = [proc EXCEPT !["dispose"] = s]
  BY <1>1
<1> HIDE DEF s
<1>6. /\ CallsOK' /\ ListsFrom("open") /\ ListsFrom("dispose") /\ Op' = Op /\ Disposal' = s
  BY <1>3, <1>4, <1>5, MoveOK DEF Calls, DisposeStages
<1>7. OpenStage' /\ DisposeStage'
  BY <1>2, <1>4, <1>6 DEF ReaderInv, OpenStage, DisposeStage
<1> QED
  BY <1>2, <1>6, <1>7, CallStep

-----------------------------------------------------------------------------
(***************************************************************************)
(* The invariant, and what follows from it.                                *)
(***************************************************************************)
LEMMA ReaderInit == Init => ReaderInv
<1> SUFFICES ASSUME Init PROVE ReaderInv
  OBVIOUS
<1>1. /\ \A d \in Doc : cand[d] = NewCandidate /\ native[d] = "open"
      /\ current = None /\ opening = None /\ disposed = FALSE /\ quarantined = {} /\ pendingCleanups = {}
      /\ proc = [p \in {"open", "dispose"} |-> Idle] /\ None \notin Doc
  BY ReaderAssumption DEF Init
<1>2. Shape
  BY DEF Init, Shape
<1>3. Idle \in Call /\ Op = Idle /\ Disposal = Idle
  BY <1>1 DEF Idle, Call, OpenStages
<1>4. Idle.at = "idle" /\ Idle.doc = None /\ Idle.todo = {} /\ Idle.wait = None
  BY DEF Idle
<1>5. CallsOK
  <2>1. proc \in [{"open", "dispose"} -> Call]
    BY <1>1, <1>3
  <2> QED
    BY <1>3, <1>4, <2>1 DEF CallsOK, Call, OpenStages, DisposeStages
<1>6. ASSUME NEW d \in Doc PROVE DocInv(d)
  <2>1. cand[d] \in Candidate
    <3>1. [k \in Phase |-> "none"] \in [Phase -> {"none", "running", "resolved", "rejected"}]
      OBVIOUS
    <3>2. {} \in SUBSET Work /\ "none" \in Running \cup {"none", "stopped", "finished"}
      OBVIOUS
    <3>3. NewCandidate \in Candidate
      BY <3>1, <3>2 DEF NewCandidate, Candidate
    <3> QED
      BY <1>1, <3>3
  <2>2. LET c == cand[d] IN
        /\ ~c.made /\ ~c.closed /\ ~c.prompt /\ c.staged = "none" /\ c.owned = {} /\ ~c.raster
        /\ c.cursor = "none" /\ c.phase = [k \in Phase |-> "none"] /\ c.retry = "none"
    BY <1>1 DEF NewCandidate
  <2>3. CandidateOK(cand[d])
    BY <2>2 DEF CandidateOK, Begun, PhasesInOrder, StagedAlone, Phase
  <2>4. Untouched(d) /\ NativeFollows(d) /\ Listed(d) /\ Shown(d)
    BY <1>1, <2>2 DEF Untouched, NativeFollows, Listed, Shown, Phase
  <2> QED
    BY <1>1, <2>1, <2>3, <2>4 DEF DocInv
<1>7. \A p \in {"open", "dispose"} : ListsOK(p)
  BY <1>1, <1>4 DEF ListsOK
<1>8. OpenStage /\ DisposeStage
  BY <1>1, <1>3, <1>4 DEF OpenStage, DisposeStage, Early, Opening
<1> QED
  BY <1>2, <1>5, <1>6, <1>7, <1>8 DEF ReaderInv

LEMMA ReaderStep == ReaderInv /\ [Next]_vars => ReaderInv'
<1> SUFFICES ASSUME ReaderInv, [Next]_vars PROVE ReaderInv'
  OBVIOUS
<1>1. ASSUME NEW d \in Doc, Adopt(d) \/ PasswordAnswered(d) PROVE ReaderInv'
  BY <1>1, AdoptStep, PasswordAnsweredStep
<1>2. ASSUME NEW d \in Doc, Settlements(d) PROVE ReaderInv'
  BY <1>2, OwnershipSettledStep, PhaseResolvesStep, PhaseDoneStep, PhaseBarredStep, RetryWaitedStep, RetryRunsStep,
     OwnedSettlesStep, StagedSettlesStep, TeardownSettlesStep DEF Settlements
<1>3. ASSUME NEW d \in Doc, Deadlines(d) PROVE ReaderInv'
  BY <1>3, OwnershipTimeoutStep, PhaseTimeoutStep, PhaseRejectsStep, TransportFailsStep DEF Deadlines
<1>4. CASE PasswordAsked \/ CancelPasswordOpening
  BY <1>4, PasswordAskedStep, CancelStep
<1>5. CASE OpenStep
  BY <1>5, OpenGateStep, OpenSourceStep, LoadedStep, TimeoutsStep, FirstPageStep, RenderedStep, CommitCanvasStep,
     GeometryChangedStep, RenderAgainStep, OpenFailedStep DEF OpenStep
<1>6. CASE Dispose \/ DisposeStep
  <2>1. CASE Dispose
    BY <2>1, DisposeCalledStep
  <2>2. CASE DisposeOpening
    <3>1. disposed
      BY <2>2 DEF DisposeOpening, ReaderInv, DisposeStage
    <3>2. PICK next \in {opening} :
            /\ proc' = [proc EXCEPT !["dispose"].at = "opening", !["dispose"].wait = next]
            /\ IF next = None THEN UNCHANGED <<cand, opening, current>> ELSE DisposeCandidate(next)
      BY <2>2 DEF DisposeOpening
    <3>3. UNCHANGED <<native, disposed, quarantined, pendingCleanups>>
      BY <2>2 DEF DisposeOpening
    <3> QED
      BY <3>1, <3>2, <3>3, DisposeNextStep
  <2>3. CASE DisposeCurrent
    <3>1. disposed
      BY <2>3 DEF DisposeCurrent, ReaderInv, DisposeStage
    <3>2. PICK next \in {current} :
            /\ proc' = [proc EXCEPT !["dispose"].at = "current", !["dispose"].wait = next]
            /\ IF next = None THEN UNCHANGED <<cand, opening, current>> ELSE DisposeCandidate(next)
      BY <2>3 DEF DisposeCurrent
    <3>3. UNCHANGED <<native, disposed, quarantined, pendingCleanups>>
      BY <2>3 DEF DisposeCurrent
    <3> QED
      BY <3>1, <3>2, <3>3, DisposeNextStep
  <2> QED
    BY <1>6, <2>1, <2>2, <2>3, DisposeCleanupsStep, DisposeReturnsStep DEF DisposeStep
<1>7. ASSUME NEW p \in {"open", "dispose"}, Retries(p) PROVE ReaderInv'
  <2>1. p \in Calls
    BY DEF Calls
  <2> QED
    BY <1>7, <2>1, CleanupStartsStep, CleanupReturnsStep, QuarantineRetriedStep, QuarantineReturnsStep DEF Retries
<1>8. ASSUME NEW w \in LaterWork, WorkStarts(w) PROVE ReaderInv'
  BY <1>8, WorkStartsStep
<1>9. CASE UNCHANGED vars
  <2>1. /\ UNCHANGED <<cand, native, current, opening, disposed, quarantined, pendingCleanups>>
        /\ UNCHANGED proc
    BY <1>9 DEF vars
  <2>2. CallsOK' /\ ListsFrom("open") /\ ListsFrom("dispose")
    BY <2>1, CallsUnchanged
  <2>3. OpenStage' /\ DisposeStage'
    BY <2>1, OpenStays, DisposeStays
  <2>4. Op'.doc = Op.doc /\ Op'.at = Op.at
    BY <2>1
  <2> QED
    BY <2>1, <2>2, <2>3, <2>4, CallStep
<1> QED
  BY <1>1, <1>2, <1>3, <1>4, <1>5, <1>6, <1>7, <1>8, <1>9 DEF Next

LEMMA ReaderAlways == Spec => []ReaderInv
<1> QED
  BY ReaderInit, ReaderStep, PTL DEF Spec

\* The reader keeps the types of its state, lists only documents it adopted, and a retry
\* that is under way disposes of its candidate (PdfReaderController.ts, its fields).
THEOREM ReaderTyped == Spec => []TypeOK
<1>1. ReaderInv => TypeOK
  <2> SUFFICES ASSUME ReaderInv PROVE TypeOK
    OBVIOUS
  <2>1. \A d \in Doc : DocInv(d)
    BY DEF ReaderInv
  <2>2. Shape
    BY DEF ReaderInv
  <2>3. \A d \in Doc : cand[d] \in Candidate /\ native[d] \in {"open", "tearing", "closed"}
    BY <2>1 DEF DocInv
  <2>4. cand \in [Doc -> Candidate] /\ native \in [Doc -> {"open", "tearing", "closed"}]
    BY <2>2, <2>3 DEF Shape
  <2>5. \A d \in quarantined \cup pendingCleanups : d \in Doc /\ cand[d].made
    BY <2>1, <2>2 DEF DocInv, Listed, Shape
  <2>6. \A d \in Doc : cand[d].retry = "running" => cand[d].cursor \in Running
    BY <2>1 DEF DocInv, CandidateOK
  <2> QED
    BY <2>2, <2>4, <2>5, <2>6 DEF TypeOK, Shape
<1> QED
  BY <1>1, ReaderAlways, PTL

\* Whatever timed out, failed or was retried before, the native session of a document is
\* torn down only after PDF.js and all work on its pages are done; and a document that was
\* given up is neither displayed nor asks for its password (disposeCandidateOnce).
THEOREM ReaderClosesInOrder == Spec => []ClosingIsOrderly
<1>1. ReaderInv => ClosingIsOrderly
  <2> SUFFICES ASSUME ReaderInv PROVE ClosingIsOrderly
    OBVIOUS
  <2>1. TeardownAfterPdf
    <3> SUFFICES ASSUME NEW d \in Doc, cand[d].cursor # "none", native[d] # "open"
                 PROVE  /\ cand[d].phase["pdf"] = "resolved" /\ cand[d].phase["finish"] = "resolved"
                        /\ Outstanding(cand[d]) = {}
      BY DEF TeardownAfterPdf
    <3>1. cand[d].phase["transport"] # "none" /\ CandidateOK(cand[d])
      BY DEF ReaderInv, DocInv, NativeFollows, Spent
    <3>2. Settled(cand[d]) /\ PhasesInOrder(cand[d])
      BY <3>1 DEF CandidateOK, Begun, Phase
    <3> QED
      BY <3>1, <3>2 DEF Settled, PhasesInOrder, Outstanding
  <2>2. ClosedIsHidden
    BY DEF ReaderInv, DocInv, Shown, CandidateOK, ClosedIsHidden
  <2> QED
    BY <2>1, <2>2 DEF ClosingIsOrderly
<1> QED
  BY <1>1, ReaderAlways, PTL

\* Every document that was adopted is shown, being opened or torn down, closed, or on a list
\* from which it is retried, and a reserved canvas always has somebody who returns it
\* (quarantinedCandidates, pendingSessionCleanups).
THEOREM ReaderForgetsNothing == Spec => []NothingForgotten
<1>1. ReaderInv => NothingForgotten
  <2> SUFFICES ASSUME ReaderInv, NEW d \in Doc
               PROVE  /\ cand[d].made =>
                           \/ native[d] = "closed" \/ d \in {current, opening} \cup quarantined \cup pendingCleanups
                           \/ Op.doc = d \/ cand[d].cursor \in Running \/ native[d] = "tearing"
                      /\ cand[d].raster =>
                           d \in {current, opening} \cup quarantined \/ Op.doc = d \/ cand[d].cursor \in Running
    BY DEF NothingForgotten, NoForgottenDocument, RasterIsOwned
  <2>1. /\ cand[d] \in Candidate /\ CandidateOK(cand[d]) /\ NativeFollows(d) /\ Listed(d)
        /\ native[d] \in {"open", "tearing", "closed"}
    BY DEF ReaderInv, DocInv
  <2>2. cand[d].cursor \in Running \cup {"none", "stopped", "finished"}
    BY <2>1 DEF Candidate
  <2>3. cand[d].cursor = "finished" => native[d] = "closed" /\ ~cand[d].raster
    BY <2>1 DEF CandidateOK, PhasesInOrder, NativeFollows
  <2> QED
    BY <2>1, <2>2, <2>3 DEF Listed
<1> QED
  BY <1>1, ReaderAlways, PTL

\* Nobody is timed out while typing a password: as long as nothing rejects, the open whose
\* prompt is up does not fail by itself (awaitOpeningDocument pauses its deadline).
THEOREM ReaderAwaitsPassword == Spec => PasswordIsAwaited
<1>1. ReaderInv /\ [Next]_vars =>
        [Op.at = "loading" /\ cand[Op.doc].prompt /\ ~cand[Op.doc].closed
           => proc'["open"].at # "failed" \/ mayReject]_vars
  <2> SUFFICES ASSUME ReaderInv, Next, Op.at = "loading", cand[Op.doc].prompt, ~cand[Op.doc].closed, ~mayReject
               PROVE  proc'["open"].at # "failed"
    OBVIOUS
  <2>1. proc \in [Calls -> Call] /\ Op.doc \in Doc
    BY CallsTyped, CallsUnchanged
  <2>2. CASE UNCHANGED proc
    BY <2>2
  <2>3. ASSUME NEW s, proc' = [proc EXCEPT !["dispose"] = s] PROVE proc'["open"].at # "failed"
    BY <2>1, <2>3 DEF Calls
  <2>4. ASSUME NEW d \in Doc, Adopt(d) \/ Settlements(d) \/ Deadlines(d) \/ PasswordAnswered(d)
        PROVE  proc'["open"].at # "failed"
    <3>1. ~Adopt(d)
      BY DEF Adopt
    <3>2. Settlements(d) => UNCHANGED proc
      BY DEF Settlements, OwnershipSettled, PhaseResolves, PhaseDone, PhaseBarred, RetryWaited, RetryRuns, OwnedSettles,
             StagedSettles, TeardownSettles
    <3>3. Deadlines(d) \/ PasswordAnswered(d) => UNCHANGED proc
      BY DEF Deadlines, OwnershipTimeout, PhaseTimeout, PhaseRejects, TransportFails, PasswordAnswered
    <3> QED
      BY <2>2, <2>4, <3>1, <3>2, <3>3
  <2>5. CASE PasswordAsked \/ CancelPasswordOpening \/ \E w \in LaterWork : WorkStarts(w)
    BY <2>2, <2>5 DEF PasswordAsked, CancelPasswordOpening, WorkStarts
  <2>6. CASE OpenStep
    <3>1. cand[Op.doc].passwordPending
      BY <2>1 DEF ReaderInv, DocInv, CandidateOK
    <3>2. ~MetadataTimeout
      BY <3>1 DEF MetadataTimeout, MayTimeOut
    <3>3. CASE Loaded
      <4>1. Goto("page")
        BY <3>3 DEF Loaded
      <4> QED
        BY <2>1, <4>1 DEF Goto, Calls, Call
    <3> QED
      BY <2>6, <3>2, <3>3 DEF OpenStep, OpenGate, OpenSource, FirstPage, Rendered, WorkTimeout, CommitCanvas,
         CommitFails, GeometryChanged, RenderAgain, OpenFailed
  <2>7. CASE Dispose \/ DisposeStep
    <3>1. Dispose \/ DisposeCleanups \/ DisposeReturns => \E s : proc' = [proc EXCEPT !["dispose"] = s]
      BY DEF Dispose, DisposeCleanups, DisposeReturns, Then
    <3>2. DisposeOpening \/ DisposeCurrent =>
            \E at, next : proc' = [proc EXCEPT !["dispose"].at = at, !["dispose"].wait = next]
      BY DEF DisposeOpening, DisposeCurrent
    <3>3. ASSUME NEW at, NEW next, proc' = [proc EXCEPT !["dispose"].at = at, !["dispose"].wait = next]
          PROVE  proc'["open"].at # "failed"
      BY <2>1, <3>3 DEF Calls
    <3> QED
      BY <2>3, <2>7, <3>1, <3>2, <3>3 DEF DisposeStep
  <2>8. ASSUME NEW p \in {"open", "dispose"}, Retries(p) PROVE proc'["open"].at # "failed"
    <3>1. p = "dispose"
      BY <2>8 DEF Retries, CleanupStarts, CleanupReturns, QuarantineRetried, QuarantineReturns
    <3>2. \/ \E t : proc' = [proc EXCEPT !["dispose"].todo = t]
          \/ \E w : proc' = [proc EXCEPT !["dispose"].wait = w]
          \/ \E t, w : proc' = [proc EXCEPT !["dispose"].wait = w, !["dispose"].todo = t]
      BY <2>8, <3>1 DEF Retries, CleanupStarts, CleanupReturns, QuarantineRetried, QuarantineReturns
    <3> QED
      BY <2>1, <3>2 DEF Calls
  <2> QED
    BY <2>4, <2>5, <2>6, <2>7, <2>8 DEF Next
<1> QED
  BY <1>1, ReaderAlways, PTL DEF Spec, PasswordIsAwaited
=============================================================================
