---------------------------- MODULE Window_proofs ----------------------------
(***************************************************************************)
(* Three parts of a window that share no state, for every size: the stacks *)
(* of one tab's navigation, the tabs with the transitions that rearrange   *)
(* them, and the registry of a document's external links.                  *)
(*                                                                         *)
(* Navigation.  A traversal pops a stack, so the bound on the stacks rests *)
(* on the stack not being empty, and that on the target a live transaction *)
(* was prepared with still being on top: whatever moves a stack must make  *)
(* every older transaction stale, which it does by raising the generation  *)
(* (HeldOld says that no transaction is ahead of it).                      *)
(*                                                                         *)
(* Tabs.  OwnedInv says who answers for each document in a tab: the        *)
(* adoption under way, the request whose native answer is awaited, the     *)
(* rollback that waits, or, once it is adopted, the user (DocsOK).  It     *)
(* follows an adoption's record from the transition that makes it, through *)
(* the queue, to the one that settles it (RunOK, ItemOK, AdoptionsOK), and *)
(* knows that nobody else needs the queue's room while an answer is        *)
(* awaited (Bare), which is why a rollback is never refused.               *)
(* SessionsInv says what the sessions of the tabs do under each promise of *)
(* the environment.  That one tab is in the foreground is inductive only   *)
(* with what makes a rollback harmless: it never runs (NoRollback), or it  *)
(* finds its own tab selected because the user waited (IdleOK).            *)
(*                                                                         *)
(* Links.  That the native registry serves one call at a time is the work  *)
(* of three mechanisms, which LinkInv ties together.  The turns let a      *)
(* publication go on only when those before it are over (InOrder); the     *)
(* quarantine stands for the one that is over but still owes an answer or  *)
(* an abort (Status), so that it is closed or quarantined whenever the     *)
(* registry is not free; and an abort waits for the answer of the call it  *)
(* takes back (StepOK).  The one that is Engaged is then the only one.     *)
(* Deadlines pass in order, so a render that gives up before its turn      *)
(* leaves nobody behind it that would be let in too soon (Passed).  A      *)
(* render whose own timer fires before that of its prepare is the          *)
(* exception: it passes the turn on before the registry is quarantined.    *)
(* From then on (Hurried, which no step takes back) only LinkTyped holds,  *)
(* so LinksInv is inductive with both.                                     *)
(***************************************************************************)
EXTENDS NavigationHistory, Workspace, LinkRegistry, SequenceTheorems, FiniteSetTheorems, TLAPS

-----------------------------------------------------------------------------
(* Navigation                                                              *)

\* Pushing adds one position.
LEMMA PushFacts ==
    ASSUME NEW s \in Seq(Position), NEW p \in Position
    PROVE  Push(s, p) \in Seq(Position) /\ Len(Push(s, p)) = Len(s) + 1
    BY DEF Push

\* A prefix has the length asked for.
LEMMA SubSeqFromOne ==
    ASSUME NEW s \in Seq(Position), NEW n \in Nat, n <= Len(s)
    PROVE  Len(SubSeq(s, 1, n)) = n
<1>1. CASE n = 0
    BY <1>1
<1>2. CASE n > 0
    BY <1>2
<1>. QED
    BY <1>1, <1>2

\* A stack that is not empty has a top, and popping takes one position off.
LEMMA PopFacts ==
    ASSUME NEW s \in Seq(Position), s # <<>>
    PROVE  Pop(s) \in Seq(Position) /\ Len(Pop(s)) = Len(s) - 1 /\ Top(s) \in Position
<1>1. Len(s) \in Nat /\ Len(s) > 0
    OBVIOUS
<1>2. Top(s) \in Position
    BY <1>1 DEF Top
<1>3. Pop(s) \in Seq(Position)
    BY <1>1 DEF Pop
<1>4. Len(Pop(s)) = Len(s) - 1
    <2>1. Len(s) - 1 \in Nat /\ Len(s) - 1 <= Len(s)
        BY <1>1
    <2>2. Len(SubSeq(s, 1, Len(s) - 1)) = Len(s) - 1
        BY <1>1, <2>1, SubSeqFromOne
    <2>. QED
        BY <2>2 DEF Pop
<1>. QED
    BY <1>2, <1>3, <1>4

\* A stack is cut to the limit less the live position.
LEMMA TrimFacts ==
    ASSUME NEW s \in Seq(Position)
    PROVE  TrimBack(s) \in Seq(Position) /\ Len(TrimBack(s)) <= Limit - 1
<1>1. Len(s) \in Nat /\ Limit \in Nat /\ Limit >= 1
    BY NavigationAssumption DEF NavigationAssumption
<1>2. CASE Len(s) > Limit - 1
    <2>1. TrimBack(s) = SubSeq(s, Len(s) - Limit + 2, Len(s))
        BY <1>2 DEF TrimBack
    <2>2. Len(s) - Limit + 2 \in 1..(Len(s) + 1)
        BY <1>1, <1>2
    <2>3. SubSeq(s, Len(s) - Limit + 2, Len(s)) \in Seq(Position)
        BY <1>1, <2>2
    <2>4. Len(SubSeq(s, Len(s) - Limit + 2, Len(s))) = Limit - 1
        BY <1>1, <1>2, <2>2
    <2>. QED
        BY <2>1, <2>3, <2>4, <1>1
<1>3. CASE ~(Len(s) > Limit - 1)
    BY <1>1, <1>3 DEF TrimBack
<1>. QED
    BY <1>2, <1>3

-----------------------------------------------------------------------------
\* No transaction was prepared in a generation still to come.
HeldOld == \A t \in held : t.generation <= generation

HistoryInv ==
    /\ HistoryTypeOK /\ HeldOld
    /\ HistoryBounded /\ LiveTraversalFits /\ EpochRecordedOnce /\ OnePending

LEMMA HistoryInitInv == HistoryInit => HistoryInv
    BY NavigationAssumption
    DEF HistoryInit, HistoryInv, HistoryTypeOK, HeldOld, HistoryBounded, LiveTraversalFits, EpochRecordedOnce, OnePending,
        NavigationAssumption, None

\* Once the generation has moved on, no transaction prepared before is live,
\* and what is said of live ones holds of none.
LEMMA MovedOn ==
    ASSUME HistoryTypeOK, HeldOld, generation' = generation + 1, held' \subseteq held
    PROVE  HeldOld' /\ LiveTraversalFits' /\ EpochRecordedOnce'
<1>1. \A t \in held' : t.generation \in Nat /\ t.generation <= generation
    BY DEF HistoryTypeOK, HeldOld, Transaction
<1>2. \A t \in held' : ~Live(t)'
    BY <1>1 DEF HistoryTypeOK, Live
<1>3. HeldOld'
    BY <1>1 DEF HistoryTypeOK, HeldOld
<1>. QED
    BY <1>2, <1>3 DEF LiveTraversalFits, EpochRecordedOnce

\* The transaction just prepared is the only one that is live.
LEMMA PrepareStep ==
    ASSUME HistoryInv, NEW kind \in {"jump", "back", "forward"},
           NEW origin \in Position, NEW target \in Position, NEW epoch \in Epochs \cup {None},
           Prepare(kind, origin, target, epoch),
           kind = "back" => back # <<>> /\ target = Top(back),
           kind = "forward" => forward # <<>> /\ target = Top(forward),
           epoch # None => epoch # recordedSearchEpoch
    PROVE  HistoryInv'
<1> DEFINE t0 == [id |-> transactionSequence + 1, generation |-> GenerationOnCancel, kind |-> kind,
                  origin |-> origin, target |-> target, searchEpoch |-> epoch]
<1>1. /\ generation' = GenerationOnCancel /\ transactionSequence' = transactionSequence + 1
      /\ pending' = {transactionSequence + 1} /\ held' = held \cup {t0}
      /\ UNCHANGED <<back, forward, recordedSearchEpoch>>
    BY DEF Prepare, NextId, PendingAfter
<1>2. transactionSequence \in Nat /\ generation \in Nat /\ generation' \in {generation, generation + 1}
    BY <1>1 DEF HistoryInv, HistoryTypeOK, GenerationOnCancel
<1>3. t0 \in Transaction
    BY <1>1, <1>2 DEF Transaction
<1>4. HistoryTypeOK'
    <2>1. \A t \in held' : t.id \in 1..transactionSequence'
        BY <1>1, <1>2 DEF HistoryInv, HistoryTypeOK
    <2>. QED
        BY <1>1, <1>2, <1>3, <2>1 DEF HistoryInv, HistoryTypeOK
<1>5. HeldOld'
    BY <1>1, <1>2 DEF HistoryInv, HistoryTypeOK, HeldOld, Transaction
<1>6. \A t \in held' : Live(t)' => t = t0
    BY <1>1, <1>2 DEF HistoryInv, HistoryTypeOK, Live
<1>7. LiveTraversalFits'
    BY <1>1, <1>6 DEF LiveTraversalFits, Top
<1>8. EpochRecordedOnce'
    BY <1>1, <1>6 DEF EpochRecordedOnce
<1>9. HistoryBounded' /\ OnePending'
    BY <1>1 DEF HistoryInv, HistoryBounded, OnePending
<1>. QED
    BY <1>4, <1>5, <1>7, <1>8, <1>9 DEF HistoryInv

\* A commit moves the stacks as the bound needs it.
LEMMA CommitStep ==
    ASSUME HistoryInv, NEW t \in held, NEW displayed \in Position, NEW verificationTarget \in Position,
           Commit(t, displayed, verificationTarget)
    PROVE  HistoryInv'
<1>1. /\ t \in Transaction /\ Live(t)
      /\ back \in Seq(Position) /\ forward \in Seq(Position)
      /\ Len(back) \in Nat /\ Len(forward) \in Nat /\ Len(back) + Len(forward) <= Limit - 1
      /\ Limit \in Nat
    BY NavigationAssumption DEF HistoryInv, HistoryTypeOK, HistoryBounded, Commit, NavigationAssumption
<1>2. t.origin \in Position /\ t.searchEpoch \in Epochs \cup {None}
    BY <1>1 DEF Transaction
<1>3. /\ generation' = generation + 1 /\ held' = held \ {t} /\ pending' = pending \ {t.id}
      /\ transactionSequence' = transactionSequence
    BY DEF Commit, Returned
<1>4. HeldOld' /\ LiveTraversalFits' /\ EpochRecordedOnce'
    BY <1>3, MovedOn DEF HistoryInv
<1>5. /\ back' \in Seq(Position) /\ forward' \in Seq(Position)
      /\ recordedSearchEpoch' \in Epochs \cup {None}
      /\ Len(back') + Len(forward') <= Limit - 1
    <2>1. CASE t.kind = "jump"
        <3>1. /\ back' = TrimBack(Push(back, t.origin)) /\ forward' = <<>>
              /\ recordedSearchEpoch' = IF t.searchEpoch = None THEN recordedSearchEpoch ELSE t.searchEpoch
            BY <2>1 DEF Commit
        <3>2. back' \in Seq(Position) /\ Len(back') <= Limit - 1
            BY <3>1, <1>1, <1>2, PushFacts, TrimFacts
        <3>3. forward' \in Seq(Position) /\ Len(forward') = 0
            BY <3>1
        <3>4. recordedSearchEpoch' \in Epochs \cup {None}
            BY <3>1, <1>2 DEF HistoryInv, HistoryTypeOK
        <3>. QED
            BY <3>2, <3>3, <3>4, <1>1
    <2>2. CASE t.kind = "back"
        <3>1. back' = Pop(back) /\ forward' = Push(forward, t.origin) /\ recordedSearchEpoch' = recordedSearchEpoch
            BY <2>2 DEF Commit
        <3>2. back # <<>>
            BY <2>2, <1>1 DEF HistoryInv, LiveTraversalFits
        <3>3. back' \in Seq(Position) /\ Len(back') = Len(back) - 1
            BY <3>1, <3>2, <1>1, PopFacts
        <3>4. forward' \in Seq(Position) /\ Len(forward') = Len(forward) + 1
            BY <3>1, <1>1, <1>2, PushFacts
        <3>. QED
            BY <3>1, <3>3, <3>4, <1>1 DEF HistoryInv, HistoryTypeOK
    <2>3. CASE t.kind = "forward"
        <3>1. forward' = Pop(forward) /\ back' = Push(back, t.origin) /\ recordedSearchEpoch' = recordedSearchEpoch
            BY <2>3 DEF Commit
        <3>2. forward # <<>>
            BY <2>3, <1>1 DEF HistoryInv, LiveTraversalFits
        <3>3. forward' \in Seq(Position) /\ Len(forward') = Len(forward) - 1
            BY <3>1, <3>2, <1>1, PopFacts
        <3>4. back' \in Seq(Position) /\ Len(back') = Len(back) + 1
            BY <3>1, <1>1, <1>2, PushFacts
        <3>. QED
            BY <3>1, <3>3, <3>4, <1>1 DEF HistoryInv, HistoryTypeOK
    <2>. QED
        BY <2>1, <2>2, <2>3 DEF Commit
<1>6. HistoryTypeOK'
    <2>1. generation' \in Nat /\ transactionSequence' \in Nat
        BY <1>3 DEF HistoryInv, HistoryTypeOK
    <2>2. pending' \in SUBSET (1..transactionSequence')
        BY <1>3 DEF HistoryInv, HistoryTypeOK
    <2>3. held' \in SUBSET Transaction /\ \A u \in held' : u.id \in 1..transactionSequence'
        BY <1>3 DEF HistoryInv, HistoryTypeOK
    <2>. QED
        BY <1>5, <2>1, <2>2, <2>3 DEF HistoryTypeOK
<1>7. HistoryBounded' /\ OnePending'
    BY <1>3, <1>5 DEF HistoryInv, HistoryBounded, OnePending
<1>. QED
    BY <1>4, <1>6, <1>7 DEF HistoryInv

LEMMA HistoryNextInv == HistoryInv /\ [HistoryNext]_historyVars => HistoryInv'
<1> SUFFICES ASSUME HistoryInv, [HistoryNext]_historyVars PROVE HistoryInv'
    OBVIOUS
<1>1. ASSUME NEW origin \in Position, NEW target \in Position, NEW epoch \in Epochs \cup {None},
             PrepareJump(origin, target, epoch)
      PROVE  HistoryInv'
    BY <1>1, PrepareStep DEF PrepareJump, MayRecord
<1>2. ASSUME NEW origin \in Position, PrepareBack(origin) PROVE HistoryInv'
    <2>1. back # <<>> /\ Top(back) \in Position
        BY <1>2, PopFacts DEF PrepareBack, CanBack, HistoryInv, HistoryTypeOK
    <2>. QED
        BY <1>2, <2>1, PrepareStep DEF PrepareBack
<1>3. ASSUME NEW origin \in Position, PrepareForward(origin) PROVE HistoryInv'
    <2>1. forward # <<>> /\ Top(forward) \in Position
        BY <1>3, PopFacts DEF PrepareForward, CanForward, HistoryInv, HistoryTypeOK
    <2>. QED
        BY <1>3, <2>1, PrepareStep DEF PrepareForward
<1>4. CASE CancelPending
    <2>1. HeldOld' /\ LiveTraversalFits' /\ EpochRecordedOnce'
        BY <1>4, MovedOn DEF CancelPending, HistoryInv
    <2>. QED
        BY <1>4, <2>1 DEF CancelPending, HistoryInv, HistoryTypeOK, HistoryBounded, OnePending
<1>5. ASSUME NEW t \in held, Stale(t) PROVE HistoryInv'
    <2>1. \A u \in held' : u \in held /\ (Live(u)' <=> Live(u))
        BY <1>5 DEF Stale, Returned, Live
    <2>2. LiveTraversalFits' /\ EpochRecordedOnce' /\ HeldOld'
        BY <1>5, <2>1 DEF Stale, HistoryInv, LiveTraversalFits, EpochRecordedOnce, HeldOld, Top
    <2>. QED
        BY <1>5, <2>2 DEF Stale, Returned, HistoryInv, HistoryTypeOK, HistoryBounded, OnePending
<1>6. ASSUME NEW t \in held, Abandon(t) PROVE HistoryInv'
    <2>1. HeldOld' /\ LiveTraversalFits' /\ EpochRecordedOnce'
        BY <1>6, MovedOn DEF Abandon, Returned, HistoryInv
    <2>2. HistoryTypeOK'
        <3>1. generation' \in Nat /\ transactionSequence' \in Nat
            BY <1>6 DEF Abandon, HistoryInv, HistoryTypeOK
        <3>2. pending' \in SUBSET (1..transactionSequence')
            BY <1>6 DEF Abandon, HistoryInv, HistoryTypeOK
        <3>3. held' \in SUBSET Transaction /\ \A u \in held' : u.id \in 1..transactionSequence'
            BY <1>6 DEF Abandon, Returned, HistoryInv, HistoryTypeOK
        <3>. QED
            BY <1>6, <3>1, <3>2, <3>3 DEF Abandon, HistoryInv, HistoryTypeOK
    <2>3. HistoryBounded' /\ OnePending'
        BY <1>6 DEF Abandon, HistoryInv, HistoryBounded, OnePending
    <2>. QED
        BY <2>1, <2>2, <2>3 DEF HistoryInv
<1>7. ASSUME NEW t \in held, NEW displayed \in Position, NEW verificationTarget \in Position,
             Commit(t, displayed, verificationTarget)
      PROVE  HistoryInv'
    BY <1>7, CommitStep
<1>8. CASE Reset
    <2>1. HeldOld' /\ LiveTraversalFits' /\ EpochRecordedOnce'
        BY <1>8, MovedOn DEF Reset, HistoryInv
    <2>2. Len(back') + Len(forward') <= Limit - 1
        BY <1>8, NavigationAssumption DEF Reset, NavigationAssumption
    <2>. QED
        BY <1>8, <2>1, <2>2 DEF Reset, HistoryInv, HistoryTypeOK, HistoryBounded, OnePending, None
<1>9. CASE UNCHANGED historyVars
    BY <1>9 DEF historyVars, HistoryInv, HistoryTypeOK, HeldOld, HistoryBounded, LiveTraversalFits, EpochRecordedOnce, OnePending, Live, Top
<1>. QED
    BY <1>1, <1>2, <1>3, <1>4, <1>5, <1>6, <1>7, <1>8, <1>9 DEF HistoryNext

LEMMA HistoryAlways == HistorySpec => []HistoryInv
    BY HistoryInitInv, HistoryNextInv, PTL DEF HistorySpec

-----------------------------------------------------------------------------
\* Back, the live position and Forward never exceed the limit (trimBack, commit).
THEOREM StacksBounded == HistorySpec => []HistoryBounded
    BY HistoryAlways, PTL DEF HistoryInv

\* A commit pops exactly the position its transaction was prepared with, and never
\* an empty stack (prepareBack, prepareForward, commit).
THEOREM TraversalFits == HistorySpec => []LiveTraversalFits
    BY HistoryAlways, PTL DEF HistoryInv

\* Whatever may still be committed fits the stacks (commit).
THEOREM LiveCommitsFit == HistorySpec => []LiveMayCommit
<1>1. HistoryInv => LiveMayCommit
    BY DEF HistoryInv, LiveMayCommit
<1>. QED
    BY <1>1, HistoryAlways, PTL

\* A search epoch is recorded once (recordedSearchEpoch), and the set of pending
\* ids holds one id at most (pending).
THEOREM SearchAndPending == HistorySpec => [](EpochRecordedOnce /\ OnePending)
<1>1. HistoryInv => EpochRecordedOnce /\ OnePending
    BY DEF HistoryInv
<1>. QED
    BY <1>1, HistoryAlways, PTL

\* The fields keep their types.
THEOREM HistoryTypeCorrect == HistorySpec => []HistoryTypeOK
<1>1. HistoryInv => HistoryTypeOK
    BY DEF HistoryInv
<1>. QED
    BY <1>1, HistoryAlways, PTL

-----------------------------------------------------------------------------
(* A workspace seen as its tabs by id                                      *)

Ids(w) == {w.tabs[i].id : i \in DOMAIN w.tabs}

Tab == [id : Nat, doc : Requests \cup {Nothing}, session : Sessions, staged : BOOLEAN, previousActiveId : Nat]

\* Ids are used once, in the order in which they are given out.
Shape(w) ==
    /\ w \in [tabs : Seq(Tab), activeId : Nat, nextId : Nat \ {0}]
    /\ \A i \in DOMAIN w.tabs : w.tabs[i].id \in 1 .. (w.nextId - 1)
    /\ \A i, j \in DOMAIN w.tabs : w.tabs[i].id = w.tabs[j].id => i = j

\* The window shows one of its tabs, and has no more than it may have.
Shown(w) == Shape(w) /\ Len(w.tabs) <= MaximumTabs /\ w.activeId \in Ids(w)

\* A tab is staged before it has its document; an empty one that is not staged is alone.
TabsSound(w) ==
    /\ \A i \in Ids(w) : TabOf(w, i).doc = Nothing /\ ~TabOf(w, i).staged => Ids(w) = {i}
    /\ \A i \in Ids(w) : TabOf(w, i).staged => TabOf(w, i).doc = Nothing

-----------------------------------------------------------------------------
(* The inductive invariant: what holds of documents and tabs                *)

ItemType == [op : Ops, tab : Nat, prior : Nat, req : Requests \cup {Nothing}]
RunType == [op : Ops, tab : Nat, prior : Nat, req : Requests \cup {Nothing}, await : Awaits]
AdoptionType == [id : Nat, priorActiveId : Nat, pending : BOOLEAN]
RequestState == {"queued", "adopting", "ack", "reject", "adopted", "refused"}

WorkspaceTypes ==
    /\ queue \in Seq(ItemType) /\ run \in RunType
    /\ requests \in [Requests -> RequestState]
    /\ adoptions \in [Requests -> AdoptionType]
    /\ closes \in 0 .. MaxCloses /\ conditions \in Conditions

\* An adoption under way is its client's request; a rollback is that of a refused request, and
\* the tab it names has that request's document for as long as it is there.
ItemOK(it, w, reqs) ==
    /\ it.op = "adopt" => it.req \in Requests /\ reqs[it.req] = "adopting"
    /\ it.op = "rollback" =>
          /\ it.req \in Requests /\ reqs[it.req] = "refused" /\ it.tab < w.nextId
          /\ it.tab \in Ids(w) => TabOf(w, it.tab).doc = it.req
    /\ it.op = "close" => it.tab # Nothing

\* No transition that waits settles an adoption.
Bare(q) == \A i \in DOMAIN q : Kind(q[i].op) # "ownership"

\* Nothing is settled behind an adoption that waits.
QueueOK(q, w, reqs) ==
    /\ \A i \in DOMAIN q : ItemOK(q[i], w, reqs)
    /\ \A i, j \in DOMAIN q : q[i].op = "adopt" /\ i < j => Kind(q[j].op) # "ownership"

\* The transition under way, by what it awaits.
RunOK(r, q, w, reqs, ad) ==
    /\ r = NoRun => q = <<>>
    /\ r.await = "start" => ItemOK(r, w, reqs)
    /\ r.await \in {"opening", "presenting", "undone"} => r.op = "adopt"
    /\ r.op = "adopt" => r.req \in Requests /\ reqs[r.req] = "adopting" /\ Bare(q)
    /\ r.await = "leaving" =>
          r.prior = w.activeId /\ (r.op = "adopt" => TabOf(w, r.prior).doc # Nothing)
    /\ r.await \in {"entering", "opening"} /\ r.op = "adopt" =>
          r.tab = w.activeId /\ TabOf(w, r.tab).doc = Nothing /\ ad[r.req].id = r.tab
    /\ r.await = "presenting" =>
          r.tab = w.activeId /\ TabOf(w, r.tab).doc = r.req /\ ad[r.req].id = r.tab

\* Only the adoption under way has a staged tab.
StagedHeld(w, r) ==
    \A i \in Ids(w) : TabOf(w, i).staged => r.op = "adopt" /\ r.tab = i /\ r.await \in {"entering", "opening"}

Flying(reqs) == {r \in Requests : reqs[r] \in {"adopting", "ack", "reject"}}

\* One request is in flight; what its refusal would undo is its own document, and nobody is
\* in the way.
AdoptionsOK(ad, q, w, reqs) ==
    /\ \A r, s \in Flying(reqs) : r = s
    /\ \A r \in Requests : r \notin Flying(reqs) => ad[r].id = Nothing
    /\ \A r \in Requests : ad[r].id < w.nextId
    /\ \A r \in Requests : reqs[r] \in {"ack", "reject"} /\ ad[r].id # Nothing =>
          Bare(q) /\ (ad[r].id \in Ids(w) => TabOf(w, ad[r].id).doc = r)

\* The rollback of document d in tab i waits or is about to begin.
Rolling(i, d, r, q) ==
    \/ r.op = "rollback" /\ r.await = "start" /\ r.tab = i /\ r.req = d
    \/ \E k \in DOMAIN q : q[k].op = "rollback" /\ q[k].tab = i /\ q[k].req = d

\* Every document is adopted, or somebody will settle it.
DocOK(i, d, r, q, reqs, ad) ==
    \/ reqs[d] = "adopted"
    \/ r.op = "adopt" /\ r.await = "presenting" /\ r.tab = i /\ r.req = d
    \/ reqs[d] \in {"ack", "reject"} /\ ad[d].id = i
    \/ Rolling(i, d, r, q)

DocsOK(w, r, q, reqs, ad) ==
    \A i \in Ids(w) : TabOf(w, i).doc # Nothing => DocOK(i, TabOf(w, i).doc, r, q, reqs, ad)

\* Tabs, transitions, adoptions and documents agree.
Standing(w, r, q, reqs, ad) ==
    /\ Shown(w) /\ TabsSound(w)
    /\ QueueOK(q, w, reqs) /\ RunOK(r, q, w, reqs, ad) /\ StagedHeld(w, r)
    /\ AdoptionsOK(ad, q, w, reqs) /\ DocsOK(w, r, q, reqs, ad)

OwnedInv == WorkspaceTypes /\ Standing(workspace, run, queue, requests, adoptions)

-----------------------------------------------------------------------------
(* The inductive invariant: what holds of sessions                          *)

SelectedTab(w) == TabOf(w, w.activeId)

Well(w) == \A i \in Ids(w) : TabOf(w, i).session # "quarantined"
Clear(w) == \A i \in Ids(w) : TabOf(w, i).session \notin Foreground
ClearBut(w, id) == \A i \in Ids(w) : TabOf(w, i).session \in Foreground => i = id

\* If sessions never fail, none is quarantined and no opening is rejected; between two
\* transitions the selected tab is active.
HealthOK(w, r, reqs, ad) ==
    /\ Well(w)
    /\ \A s \in Requests : reqs[s] = "reject" => ad[s].id = Nothing
    /\ (r = NoRun \/ r.await = "start") /\ SelectedTab(w).doc # Nothing => SelectedTab(w).session = "active"

\* If nothing ever fails, nothing is rolled back.
NoRollback(r, q) == r.op # "rollback" /\ \A i \in DOMAIN q : q[i].op # "rollback"

\* If the user waits for an open to end, its settling finds the workspace as the open left it.
IdleOK(w, r, q, reqs, ad) ==
    /\ \A i \in DOMAIN q : Kind(q[i].op) = "ownership" => q[i].op = "adopt" /\ i = Len(q)
    /\ r.op = "adopt" => q = <<>>
    /\ \A s \in Requests : reqs[s] \in {"ack", "reject"} /\ ad[s].id # Nothing => r = NoRun /\ w.activeId = ad[s].id
    /\ r.op = "rollback" /\ r.await = "start" => w.activeId = r.tab

\* Only the selected tab is in the foreground, and a switch that entered a tab began it.
CalmOK(w, r) ==
    /\ ClearBut(w, w.activeId)
    /\ Kind(r.op) = "activation" /\ r.await = "entering" => SelectedTab(w).session # "active"

Calm == ~(conditions.userActsDuringOpen /\ (conditions.sessionsMayFail \/ conditions.ackMayFail))

SessionsInv ==
    /\ ~conditions.sessionsMayFail => HealthOK(workspace, run, requests, adoptions)
    /\ ~conditions.sessionsMayFail /\ ~conditions.ackMayFail => NoRollback(run, queue)
    /\ ~conditions.userActsDuringOpen => IdleOK(workspace, run, queue, requests, adoptions)
    /\ Calm => CalmOK(workspace, run)
-----------------------------------------------------------------------------
(* Lemmas: a workspace seen as its tabs by id                               *)

\* Finding a tab by its id.
LEMMA FindFacts ==
    ASSUME NEW w, Shape(w), NEW id
    PROVE  /\ id \in Ids(w) <=> Has(w, id)
           /\ id \in Ids(w) => /\ FindTabIndex(w, id) \in 1 .. Len(w.tabs)
                               /\ w.tabs[FindTabIndex(w, id)].id = id
                               /\ TabOf(w, id) \in Tab
           /\ id \notin Ids(w) => FindTabIndex(w, id) = 0
           /\ FindTabIndex(w, id) \in Nat
<1> DEFINE I == {i \in 1 .. Len(w.tabs) : w.tabs[i].id = id}
<1>1. w.tabs \in Seq(Tab) /\ Len(w.tabs) \in Nat /\ DOMAIN w.tabs = 1 .. Len(w.tabs)
    BY DEF Shape
<1>2. FindTabIndex(w, id) = IF I # {} THEN Min(I) ELSE 0
    BY DEF FindTabIndex, SelectInSeq
<1>3. id \in Ids(w) <=> I # {}
    BY <1>1 DEF Ids
<1>4. ASSUME NEW k \in I PROVE Min(I) = k
    <2>1. \A j \in I : j = k
        BY <1>1, <1>4 DEF Shape
    <2>2. k \in Nat
        BY <1>1, <1>4
    <2>3. k \in I /\ \A y \in I : k <= y
        BY <1>4, <2>1, <2>2
    <2> HIDE DEF I
    <2>4. Min(I) \in I
        BY <2>3 DEF Min
    <2>. QED
        BY <2>1, <2>4
<1>5. ASSUME id \in Ids(w)
      PROVE  /\ FindTabIndex(w, id) \in 1 .. Len(w.tabs) /\ w.tabs[FindTabIndex(w, id)].id = id
             /\ TabOf(w, id) \in Tab
    <2>1. PICK k \in I : TRUE
        BY <1>3, <1>5
    <2>2. FindTabIndex(w, id) = k
        BY <1>2, <1>4, <2>1
    <2>3. w.tabs[k] \in Tab
        BY <1>1, <2>1
    <2>. QED
        BY <2>1, <2>2, <2>3 DEF TabOf
<1>6. id \notin Ids(w) => FindTabIndex(w, id) = 0
    BY <1>2, <1>3
<1>7. FindTabIndex(w, id) \in Nat
    BY <1>1, <1>5, <1>6
<1>8. id \in Ids(w) <=> Has(w, id)
    BY <1>1, <1>5, <1>6 DEF Has
<1>. QED
    BY <1>5, <1>6, <1>7, <1>8

\* A tab in the sequence is the tab of its id.
LEMMA TabAt ==
    ASSUME NEW w, Shape(w), NEW k \in DOMAIN w.tabs
    PROVE  w.tabs[k].id \in Ids(w) /\ FindTabIndex(w, w.tabs[k].id) = k /\ TabOf(w, w.tabs[k].id) = w.tabs[k]
<1> DEFINE id == w.tabs[k].id
<1>1. id \in Ids(w)
    BY DEF Ids
<1>2. FindTabIndex(w, id) \in 1 .. Len(w.tabs) /\ w.tabs[FindTabIndex(w, id)].id = id
    BY <1>1, FindFacts
<1>3. DOMAIN w.tabs = 1 .. Len(w.tabs)
    BY DEF Shape
<1>4. FindTabIndex(w, id) = k
    BY <1>2, <1>3 DEF Shape
<1>. QED
    BY <1>1, <1>4 DEF TabOf

\* What is known of the id of a tab.
LEMMA IdFacts ==
    ASSUME NEW w, Shape(w), NEW id \in Ids(w)
    PROVE  /\ id \in 1 .. (w.nextId - 1) /\ id \in Nat /\ id # Nothing /\ id < w.nextId
           /\ TabOf(w, id).id = id /\ TabOf(w, id) \in Tab
<1>1. PICK i \in DOMAIN w.tabs : id = w.tabs[i].id
    BY DEF Ids
<1>2. id \in 1 .. (w.nextId - 1) /\ w.nextId \in Nat
    BY <1>1 DEF Shape
<1>3. TabOf(w, id).id = id /\ TabOf(w, id) \in Tab
    BY FindFacts DEF TabOf
<1>. QED
    BY <1>2, <1>3 DEF Nothing

\* How many tabs there are, by their ids.
LEMMA CountFacts ==
    ASSUME NEW w, Shape(w)
    PROVE  /\ Len(w.tabs) \in Nat
           /\ w.tabs = <<>> <=> Ids(w) = {}
           /\ Len(w.tabs) = 0 <=> Ids(w) = {}
           /\ \A id : Ids(w) = {id} => Len(w.tabs) = 1
           /\ Len(w.tabs) = 1 => \A id \in Ids(w) : Ids(w) = {id}
<1>1. w.tabs \in Seq(Tab) /\ Len(w.tabs) \in Nat /\ DOMAIN w.tabs = 1 .. Len(w.tabs)
    BY DEF Shape
<1>2. Len(w.tabs) = 0 <=> Ids(w) = {}
    <2>1. Len(w.tabs) = 0 => DOMAIN w.tabs = {}
        BY <1>1
    <2>2. Len(w.tabs) # 0 => 1 \in DOMAIN w.tabs
        BY <1>1
    <2>. QED
        BY <2>1, <2>2 DEF Ids
<1>3. w.tabs = <<>> <=> Len(w.tabs) = 0
    BY <1>1
<1>4. ASSUME NEW id, Ids(w) = {id} PROVE Len(w.tabs) = 1
    <2>1. Len(w.tabs) # 0
        BY <1>2, <1>4
    <2>2. ASSUME Len(w.tabs) > 1 PROVE FALSE
        <3>1. 1 \in DOMAIN w.tabs /\ 2 \in DOMAIN w.tabs
            BY <1>1, <2>2
        <3>2. w.tabs[1].id = id /\ w.tabs[2].id = id
            BY <1>4, <3>1 DEF Ids
        <3>. QED
            BY <3>1, <3>2 DEF Shape
    <2>3. Len(w.tabs) \in Nat
        BY <1>1
    <2>4. \A n \in Nat : n # 0 /\ ~(n > 1) => n = 1
        OBVIOUS
    <2>. QED
        BY <2>1, <2>2, <2>3, <2>4, Zenon
<1>5. ASSUME Len(w.tabs) = 1, NEW id \in Ids(w) PROVE Ids(w) = {id}
    <2>1. DOMAIN w.tabs = {1}
        BY <1>1, <1>5
    <2>2. Ids(w) = {w.tabs[1].id}
        BY <2>1 DEF Ids
    <2>. QED
        BY <1>5, <2>2
<1>. QED
    BY <1>1, <1>2, <1>3, <1>4, <1>5

\* Replacing a tab by one with its id.
LEMMA WithTabFacts ==
    ASSUME NEW w, Shape(w), NEW id \in Ids(w), NEW tab \in Tab, tab.id = id
    PROVE  LET v == WithTab(w, id, tab) IN
           /\ Shape(v) /\ Ids(v) = Ids(w) /\ Len(v.tabs) = Len(w.tabs)
           /\ v.activeId = w.activeId /\ v.nextId = w.nextId
           /\ TabOf(v, id) = tab
           /\ \A j \in Ids(w) : j # id => TabOf(v, j) = TabOf(w, j)
<1> DEFINE k == FindTabIndex(w, id)
           v == WithTab(w, id, tab)
<1>1. k \in 1 .. Len(w.tabs) /\ w.tabs[k].id = id
    BY FindFacts
<1>2. w.tabs \in Seq(Tab) /\ Len(w.tabs) \in Nat /\ DOMAIN w.tabs = 1 .. Len(w.tabs)
    BY DEF Shape
<1>3. v.tabs = [w.tabs EXCEPT ![k] = tab] /\ v.activeId = w.activeId /\ v.nextId = w.nextId
      /\ v = [tabs |-> v.tabs, activeId |-> w.activeId, nextId |-> w.nextId]
    BY DEF WithTab, Shape
<1> HIDE DEF k, v
<1>4. v.tabs \in Seq(Tab) /\ Len(v.tabs) = Len(w.tabs) /\ DOMAIN v.tabs = DOMAIN w.tabs
    BY <1>1, <1>2, <1>3
<1>5. \A i \in DOMAIN w.tabs : v.tabs[i] = IF i = k THEN tab ELSE w.tabs[i]
    BY <1>2, <1>3
<1>6. \A i \in DOMAIN w.tabs : v.tabs[i].id = w.tabs[i].id
    BY <1>1, <1>5
<1>7. Ids(v) = Ids(w)
    BY <1>4, <1>6 DEF Ids
<1>8. Shape(v)
    <2>1. v \in [tabs : Seq(Tab), activeId : Nat, nextId : Nat \ {0}]
        BY <1>3, <1>4 DEF Shape
    <2>2. \A i \in DOMAIN v.tabs : v.tabs[i].id \in 1 .. (v.nextId - 1)
        BY <1>3, <1>4, <1>6 DEF Shape
    <2>3. \A i, j \in DOMAIN v.tabs : v.tabs[i].id = v.tabs[j].id => i = j
        BY <1>4, <1>6 DEF Shape
    <2>. QED
        BY <2>1, <2>2, <2>3 DEF Shape
<1>9. ASSUME NEW j \in Ids(w) PROVE TabOf(v, j) = IF j = id THEN tab ELSE TabOf(w, j)
    <2>1. PICK i \in DOMAIN w.tabs : j = w.tabs[i].id
        BY DEF Ids
    <2>2. TabOf(w, j) = w.tabs[i]
        BY <2>1, TabAt
    <2>3. TabOf(v, j) = v.tabs[i]
        BY <1>4, <1>6, <1>8, <2>1, TabAt
    <2>4. j = id <=> i = k
        BY <1>1, <1>2, <2>1 DEF Shape
    <2>. QED
        BY <1>5, <2>2, <2>3, <2>4
<1>10. TabOf(v, id) = tab /\ \A j \in Ids(w) : j # id => TabOf(v, j) = TabOf(w, j)
    BY <1>9
<1>. QED
    BY <1>3, <1>4, <1>7, <1>8, <1>10 DEF v
-----------------------------------------------------------------------------
(* Lemmas: what TabWorkspace does to the tabs and the selection             *)

\* A sequence less one element.
LEMMA RemoveAtFacts ==
    ASSUME NEW T, NEW s \in Seq(T), NEW k \in 1 .. Len(s)
    PROVE  LET u == RemoveAt(s, k) IN
           /\ u \in Seq(T) /\ Len(u) = Len(s) - 1
           /\ \A i \in 1 .. Len(u) : u[i] = IF i < k THEN s[i] ELSE s[i + 1]
<1> DEFINE f == SubSeq(s, 1, k - 1)
           g == SubSeq(s, k + 1, Len(s))
<1>1. Len(s) \in Nat /\ k \in Nat /\ k >= 1 /\ k <= Len(s)
    OBVIOUS
<1>2. f \in Seq(T) /\ Len(f) = k - 1 /\ \A i \in 1 .. (k - 1) : f[i] = s[i]
    BY <1>1, SubSeqProperties
<1>3. g \in Seq(T) /\ Len(g) = Len(s) - k /\ \A i \in 1 .. (Len(s) - k) : g[i] = s[k + i]
    BY <1>1, SubSeqProperties
<1>4. RemoveAt(s, k) = f \o g
    BY DEF RemoveAt
<1> HIDE DEF f, g
<1>5. f \o g \in Seq(T) /\ Len(f \o g) = Len(s) - 1
    <2>1. f \o g \in Seq(T) /\ Len(f \o g) = Len(f) + Len(g)
        BY <1>2, <1>3, ConcatProperties
    <2>. QED
        BY <1>1, <1>2, <1>3, <2>1
<1>6. ASSUME NEW i \in 1 .. (Len(s) - 1) PROVE (f \o g)[i] = IF i < k THEN s[i] ELSE s[i + 1]
    <2>1. CASE i < k
        <3>1. i \in 1 .. Len(f) /\ i \in 1 .. (k - 1)
            BY <1>1, <1>2, <2>1
        <3>2. (f \o g)[i] = f[i]
            BY <1>2, <1>3, <3>1
        <3>. QED
            BY <1>2, <2>1, <3>1, <3>2
    <2>2. CASE ~(i < k)
        <3>1. i - k + 1 \in 1 .. (Len(s) - k) /\ i > Len(f) /\ i <= Len(f) + Len(g) /\ i - Len(f) = i - k + 1
            BY <1>1, <1>2, <1>3, <2>2
        <3>2. (f \o g)[i] = g[i - k + 1]
            BY <1>2, <1>3, <3>1
        <3>3. k + (i - k + 1) = i + 1
            BY <1>1
        <3>. QED
            BY <1>3, <2>2, <3>1, <3>2, <3>3
    <2>. QED
        BY <2>1, <2>2
<1>. QED
    BY <1>4, <1>5, <1>6

\* Removing a tab.
LEMMA WithoutFacts ==
    ASSUME NEW w, Shape(w), NEW id \in Ids(w)
    PROVE  LET v == Without(w, id) IN
           /\ Shape(v) /\ Ids(v) = Ids(w) \ {id} /\ Len(v.tabs) = Len(w.tabs) - 1
           /\ v.activeId = w.activeId /\ v.nextId = w.nextId
           /\ \A j \in Ids(v) : TabOf(v, j) = TabOf(w, j)
<1> DEFINE k == FindTabIndex(w, id)
           v == Without(w, id)
<1>1. k \in 1 .. Len(w.tabs) /\ w.tabs[k].id = id
    BY FindFacts
<1>2. w.tabs \in Seq(Tab) /\ Len(w.tabs) \in Nat /\ DOMAIN w.tabs = 1 .. Len(w.tabs)
    BY DEF Shape
<1>3. v.tabs = RemoveAt(w.tabs, k) /\ v.activeId = w.activeId /\ v.nextId = w.nextId
      /\ v = [tabs |-> v.tabs, activeId |-> w.activeId, nextId |-> w.nextId]
    BY DEF Without, Shape
<1> HIDE DEF k, v
<1>4. /\ v.tabs \in Seq(Tab) /\ Len(v.tabs) = Len(w.tabs) - 1
      /\ \A i \in 1 .. Len(v.tabs) : v.tabs[i] = IF i < k THEN w.tabs[i] ELSE w.tabs[i + 1]
    BY <1>1, <1>2, <1>3, RemoveAtFacts
<1>5. DOMAIN v.tabs = 1 .. (Len(w.tabs) - 1)
    BY <1>2, <1>4
<1> DEFINE from(i) == IF i < k THEN i ELSE i + 1
<1>6. \A i \in DOMAIN v.tabs : from(i) \in DOMAIN w.tabs /\ from(i) # k /\ v.tabs[i] = w.tabs[from(i)]
    BY <1>1, <1>2, <1>4, <1>5
<1>7. \A m \in DOMAIN w.tabs : m # k => \E i \in DOMAIN v.tabs : from(i) = m
    <2>. TAKE m \in DOMAIN w.tabs
    <2>. HAVE m # k
    <2>1. CASE m < k
        <3>1. m \in DOMAIN v.tabs /\ from(m) = m
            BY <1>1, <1>2, <1>5, <2>1
        <3>. QED
            BY <3>1
    <2>2. CASE m > k
        <3>1. m - 1 \in DOMAIN v.tabs /\ from(m - 1) = m
            BY <1>1, <1>2, <1>5, <2>2
        <3>. QED
            BY <3>1
    <2>. QED
        BY <1>1, <1>2, <2>1, <2>2
<1>8. \A i, j \in DOMAIN v.tabs : from(i) = from(j) => i = j
    BY <1>1, <1>2, <1>5
<1> HIDE DEF from
<1>9. Shape(v)
    <2>1. v \in [tabs : Seq(Tab), activeId : Nat, nextId : Nat \ {0}]
        BY <1>3, <1>4 DEF Shape
    <2>2. \A i \in DOMAIN v.tabs : v.tabs[i].id \in 1 .. (v.nextId - 1)
        BY <1>3, <1>6 DEF Shape
    <2>3. \A i, j \in DOMAIN v.tabs : v.tabs[i].id = v.tabs[j].id => i = j
        BY <1>6, <1>8 DEF Shape
    <2>. QED
        BY <2>1, <2>2, <2>3 DEF Shape
<1>10. Ids(v) = Ids(w) \ {id}
    <2>1. ASSUME NEW j \in Ids(v) PROVE j \in Ids(w) /\ j # id
        <3>1. PICK i \in DOMAIN v.tabs : j = v.tabs[i].id
            BY DEF Ids
        <3>2. j = w.tabs[from(i)].id /\ from(i) \in DOMAIN w.tabs /\ from(i) # k
            BY <1>6, <3>1
        <3>3. j # id
            BY <1>1, <1>2, <3>2 DEF Shape
        <3>. QED
            BY <3>2, <3>3 DEF Ids
    <2>2. ASSUME NEW j \in Ids(w), j # id PROVE j \in Ids(v)
        <3>1. PICK m \in DOMAIN w.tabs : j = w.tabs[m].id
            BY DEF Ids
        <3>2. PICK i \in DOMAIN v.tabs : from(i) = m
            BY <1>1, <1>7, <2>2, <3>1
        <3>. QED
            BY <1>6, <3>1, <3>2 DEF Ids
    <2>. QED
        BY <2>1, <2>2
<1>11. ASSUME NEW j \in Ids(v) PROVE TabOf(v, j) = TabOf(w, j)
    <2>1. PICK i \in DOMAIN v.tabs : j = v.tabs[i].id
        BY DEF Ids
    <2>2. TabOf(v, j) = v.tabs[i]
        BY <1>9, <2>1, TabAt
    <2>3. from(i) \in DOMAIN w.tabs /\ v.tabs[i] = w.tabs[from(i)]
        BY <1>6
    <2>4. TabOf(w, j) = w.tabs[from(i)]
        BY <2>1, <2>3, TabAt
    <2>. QED
        BY <2>2, <2>3, <2>4
<1>. QED
    BY <1>3, <1>4, <1>9, <1>10, <1>11 DEF v

\* Another selection.
LEMMA SelectFacts ==
    ASSUME NEW w, Shape(w), NEW id
    PROVE  LET v == Select(w, id) IN
           /\ Shape(v) /\ Ids(v) = Ids(w) /\ Len(v.tabs) = Len(w.tabs) /\ v.nextId = w.nextId
           /\ \A j \in Ids(w) : TabOf(v, j) = TabOf(w, j)
           /\ v.activeId = IF id \in Ids(w) THEN id ELSE w.activeId
<1> DEFINE v == Select(w, id)
<1>1. CASE id \notin Ids(w)
    <2>1. v = w
        BY <1>1, FindFacts DEF Select
    <2>. QED
        BY <1>1, <2>1
<1>2. CASE id \in Ids(w)
    <2>1. v = [w EXCEPT !.activeId = id]
        BY <1>2, FindFacts DEF Select
    <2>2. id \in Nat
        BY <1>2, IdFacts
    <2>3. v \in [tabs : Seq(Tab), activeId : Nat, nextId : Nat \ {0}] /\ v.tabs = w.tabs /\ v.activeId = id
          /\ v.nextId = w.nextId
        BY <2>1, <2>2 DEF Shape
    <2> HIDE DEF v
    <2>4. Shape(v)
        BY <2>3 DEF Shape
    <2>5. Ids(v) = Ids(w)
        BY <2>3 DEF Ids
    <2>6. \A j : TabOf(v, j) = TabOf(w, j)
        BY <2>3, Zenon DEF TabOf, FindTabIndex
    <2>. QED
        BY <1>2, <2>3, <2>4, <2>5, <2>6 DEF v
<1>. QED
    BY <1>1, <1>2
\* A new tab at the end, selected.
LEMMA AppendFacts ==
    ASSUME NEW w, Shape(w), NEW staged \in BOOLEAN, NEW prior \in Nat
    PROVE  LET v == AppendAndSelect(w, staged, prior) IN
           /\ Shape(v) /\ Ids(v) = Ids(w) \cup {w.nextId} /\ Len(v.tabs) = Len(w.tabs) + 1
           /\ w.nextId \notin Ids(w) /\ w.nextId \in Nat /\ w.nextId # Nothing
           /\ v.activeId = w.nextId /\ v.nextId = w.nextId + 1
           /\ TabOf(v, w.nextId) = NewTab(w, staged, prior)
           /\ \A j \in Ids(w) : TabOf(v, j) = TabOf(w, j)
<1> DEFINE v == AppendAndSelect(w, staged, prior)
           new == NewTab(w, staged, prior)
<1>1. w.tabs \in Seq(Tab) /\ Len(w.tabs) \in Nat /\ DOMAIN w.tabs = 1 .. Len(w.tabs)
    BY DEF Shape
<1>2. w.nextId \in Nat /\ w.nextId # 0 /\ w.nextId >= 1
    BY DEF Shape
<1>3. new \in Tab /\ new.id = w.nextId
    BY <1>2 DEF NewTab, Tab, Sessions, Nothing
<1>4. v.tabs = Append(w.tabs, new) /\ v.activeId = w.nextId /\ v.nextId = w.nextId + 1
      /\ v = [tabs |-> v.tabs, activeId |-> v.activeId, nextId |-> v.nextId]
    BY DEF AppendAndSelect
<1> HIDE DEF v, new
<1>5. /\ v.tabs \in Seq(Tab) /\ Len(v.tabs) = Len(w.tabs) + 1 /\ DOMAIN v.tabs = 1 .. (Len(w.tabs) + 1)
      /\ v.tabs[Len(w.tabs) + 1] = new
      /\ \A i \in DOMAIN w.tabs : v.tabs[i] = w.tabs[i]
    BY <1>1, <1>3, <1>4
<1>6. w.nextId \notin Ids(w)
    <2>1. SUFFICES ASSUME w.nextId \in Ids(w) PROVE FALSE
        OBVIOUS
    <2>2. w.nextId < w.nextId
        BY <2>1, IdFacts
    <2>. QED
        BY <1>2, <2>2
<1>7. \A i \in DOMAIN v.tabs : i \in DOMAIN w.tabs \/ i = Len(w.tabs) + 1
    BY <1>1, <1>5
<1>8. Shape(v)
    <2>1. v.tabs \in Seq(Tab) /\ v.activeId \in Nat /\ v.nextId \in Nat \ {0}
        BY <1>2, <1>4, <1>5
    <2>2. v \in [tabs : Seq(Tab), activeId : Nat, nextId : Nat \ {0}]
        BY <1>4, <2>1
    <2>3. ASSUME NEW i \in DOMAIN v.tabs PROVE v.tabs[i].id \in 1 .. (v.nextId - 1)
        <3>1. CASE i \in DOMAIN w.tabs
            <4>1. w.tabs[i].id \in 1 .. (w.nextId - 1)
                BY <3>1 DEF Shape
            <4>2. v.tabs[i].id = w.tabs[i].id
                BY <1>5, <3>1
            <4>. QED
                BY <1>2, <1>4, <4>1, <4>2
        <3>2. CASE i = Len(w.tabs) + 1
            BY <1>2, <1>3, <1>4, <1>5, <3>2
        <3>. QED
            BY <1>7, <3>1, <3>2
    <2>4. ASSUME NEW i \in DOMAIN v.tabs, NEW j \in DOMAIN v.tabs, v.tabs[i].id = v.tabs[j].id PROVE i = j
        <3>1. \A m \in DOMAIN w.tabs : v.tabs[m].id \in Ids(w)
            BY <1>5 DEF Ids
        <3>2. v.tabs[Len(w.tabs) + 1].id \notin Ids(w)
            BY <1>3, <1>5, <1>6
        <3>3. CASE i \in DOMAIN w.tabs /\ j \in DOMAIN w.tabs
            BY <1>5, <2>4, <3>3 DEF Shape
        <3>. QED
            BY <1>7, <2>4, <3>1, <3>2, <3>3
    <2>. QED
        BY <2>2, <2>3, <2>4 DEF Shape
<1>9. ASSUME NEW j \in Ids(w) PROVE j \in Ids(v) /\ TabOf(v, j) = TabOf(w, j)
    <2>1. PICK i \in DOMAIN w.tabs : j = w.tabs[i].id
        BY DEF Ids
    <2>2. i \in DOMAIN v.tabs /\ v.tabs[i] = w.tabs[i]
        BY <1>1, <1>5
    <2>. QED
        BY <1>8, <2>1, <2>2, TabAt
<1>10. w.nextId \in Ids(v) /\ TabOf(v, w.nextId) = new
    <2>1. Len(w.tabs) + 1 \in DOMAIN v.tabs /\ v.tabs[Len(w.tabs) + 1].id = w.nextId
        BY <1>1, <1>3, <1>5
    <2>. QED
        BY <1>5, <1>8, <2>1, TabAt
<1>11. ASSUME NEW j \in Ids(v) PROVE j \in Ids(w) \/ j = w.nextId
    <2>1. PICK i \in DOMAIN v.tabs : j = v.tabs[i].id
        BY DEF Ids
    <2>. QED
        BY <1>3, <1>5, <1>7, <2>1 DEF Ids
<1>12. Ids(v) = Ids(w) \cup {w.nextId}
    BY <1>9, <1>10, <1>11
<1>. QED
    BY <1>2, <1>4, <1>5, <1>6, <1>8, <1>9, <1>10, <1>12 DEF v, new, Nothing

-----------------------------------------------------------------------------
(* Relations between a workspace and what an operation makes of it          *)

\* The same tabs with the same documents; sessions and the selection may differ.
Like(w, v) ==
    /\ Shape(v) /\ Ids(v) = Ids(w) /\ Len(v.tabs) = Len(w.tabs) /\ v.nextId = w.nextId
    /\ \A i \in Ids(w) : TabOf(v, i).doc = TabOf(w, i).doc /\ TabOf(v, i).staged = TabOf(w, i).staged
                         /\ TabOf(v, i).previousActiveId = TabOf(w, i).previousActiveId

\* Only the session of tab id may differ.
Resettled(w, v, id) ==
    /\ Like(w, v) /\ v.activeId = w.activeId
    /\ \A i \in Ids(w) : i # id => TabOf(v, i) = TabOf(w, i)

\* An empty tab of its own.
Emptied(v, w) ==
    /\ Ids(v) = {w.nextId} /\ v.nextId = w.nextId + 1 /\ Len(v.tabs) = 1
    /\ TabOf(v, w.nextId).doc = Nothing /\ TabOf(v, w.nextId).session = "inactive"
    /\ TabOf(v, w.nextId).staged = FALSE

\* Tab id is removed; an empty one takes its place if it was the only one.
Removed(w, v, id) ==
    /\ Shape(v) /\ v.activeId \in Ids(v)
    /\ \/ /\ Ids(v) = Ids(w) \ {id} /\ v.nextId = w.nextId /\ Len(v.tabs) < Len(w.tabs)
          /\ \A i \in Ids(v) : TabOf(v, i) = TabOf(w, i)
       \/ Ids(w) = {id} /\ Emptied(v, w)

\* A session is set.
LEMMA SessionSet ==
    ASSUME NEW w, Shape(w), NEW id \in Ids(w), NEW s \in Sessions
    PROVE  Resettled(w, WithSession(w, id, s), id) /\ TabOf(WithSession(w, id, s), id).session = s
<1> DEFINE tab == [TabOf(w, id) EXCEPT !.session = s]
           v == WithTab(w, id, tab)
<1>1. TabOf(w, id) \in Tab /\ TabOf(w, id).id = id
    BY IdFacts
<1>2. /\ tab \in Tab /\ tab.id = id /\ tab.session = s /\ tab.doc = TabOf(w, id).doc
      /\ tab.staged = TabOf(w, id).staged /\ tab.previousActiveId = TabOf(w, id).previousActiveId
    BY <1>1 DEF Tab
<1> HIDE DEF tab
<1>3. /\ Shape(v) /\ Ids(v) = Ids(w) /\ Len(v.tabs) = Len(w.tabs)
      /\ v.activeId = w.activeId /\ v.nextId = w.nextId
      /\ TabOf(v, id) = tab /\ \A j \in Ids(w) : j # id => TabOf(v, j) = TabOf(w, j)
    BY <1>2, WithTabFacts
<1>4. WithSession(w, id, s) = v
    BY DEF WithSession, tab
<1> HIDE DEF v
<1>. QED
    BY <1>2, <1>3, <1>4 DEF Resettled, Like

LEMMA SameResettled ==
    ASSUME NEW w, Shape(w), NEW id
    PROVE  Resettled(w, w, id)
    BY DEF Resettled, Like

\* The selected session begins to activate.
LEMMA ActivateFacts ==
    ASSUME NEW w, Shape(w), w.activeId \in Ids(w)
    PROVE  LET v == ActivateCurrent(w) IN
           /\ Resettled(w, v, w.activeId)
           /\ TabOf(v, w.activeId).session =
                 IF TabOf(w, w.activeId).session = "inactive" THEN "activating" ELSE TabOf(w, w.activeId).session
<1>1. CASE TabOf(w, w.activeId).session = "inactive"
    <2>1. ActivateCurrent(w) = WithSession(w, w.activeId, "activating")
        BY <1>1 DEF ActivateCurrent
    <2>. QED
        BY <1>1, <2>1, SessionSet DEF Sessions
<1>2. CASE TabOf(w, w.activeId).session # "inactive"
    <2>1. ActivateCurrent(w) = w
        BY <1>2 DEF ActivateCurrent
    <2>. QED
        BY <1>2, <2>1, SameResettled
<1>. QED
    BY <1>1, <1>2

\* How an activation that was awaited may have settled.
LEMMA ActivationFacts ==
    ASSUME NEW w, Shape(w), w.activeId \in Ids(w), NEW out \in ActivationOutcomes(w)
    PROVE  /\ out.ok \in BOOLEAN /\ Resettled(w, out.w, w.activeId)
           /\ out.ok => TabOf(out.w, w.activeId).session = "active"
           /\ ~out.ok => \/ TabOf(w, w.activeId).session = "quarantined"
                         \/ conditions.sessionsMayFail
           /\ ~out.ok /\ TabOf(w, w.activeId).session # "active" =>
                 TabOf(out.w, w.activeId).session \in {"inactive", "quarantined"}
<1> DEFINE id == w.activeId
           now == TabOf(w, id).session
<1>1. CASE now = "quarantined"
    <2>1. out = [ok |-> FALSE, w |-> w]
        BY <1>1 DEF ActivationOutcomes, Failed
    <2>. QED
        BY <1>1, <2>1, SameResettled
<1>2. CASE now = "active"
    <2>1. \/ out = [ok |-> TRUE, w |-> w]
          \/ conditions.sessionsMayFail /\ out = [ok |-> FALSE, w |-> w]
        BY <1>2 DEF ActivationOutcomes, Failed, Settled
    <2>2. out.w = w /\ (out.ok = TRUE \/ (out.ok = FALSE /\ conditions.sessionsMayFail))
        BY <2>1
    <2>3. Resettled(w, out.w, w.activeId)
        BY <2>2, SameResettled
    <2>. QED
        BY <1>2, <2>2, <2>3
<1>3. CASE now \notin {"quarantined", "active"}
    <2>1. \/ out = [ok |-> TRUE, w |-> WithSession(w, id, "active")]
          \/ /\ conditions.sessionsMayFail
             /\ \E s \in {"inactive", "quarantined"} : out = [ok |-> FALSE, w |-> WithSession(w, id, s)]
        BY <1>3 DEF ActivationOutcomes, Failed, Settled
    <2>2. CASE out = [ok |-> TRUE, w |-> WithSession(w, id, "active")]
        <3>1. out.ok = TRUE /\ out.w = WithSession(w, id, "active")
            BY <2>2
        <3>2. "active" \in Sessions
            BY DEF Sessions
        <3>3. Resettled(w, out.w, id) /\ TabOf(out.w, id).session = "active"
            BY <3>1, <3>2, SessionSet
        <3>. QED
            BY <3>1, <3>3
    <2>3. ASSUME NEW s \in {"inactive", "quarantined"}, conditions.sessionsMayFail,
                 out = [ok |-> FALSE, w |-> WithSession(w, id, s)]
          PROVE  out.ok = FALSE /\ Resettled(w, out.w, id) /\ TabOf(out.w, id).session = s
        <3>1. out.ok = FALSE /\ out.w = WithSession(w, id, s)
            BY <2>3
        <3>2. s \in Sessions
            BY DEF Sessions
        <3>. QED
            BY <3>1, <3>2, SessionSet
    <2>. QED
        BY <2>1, <2>2, <2>3
<1>. QED
    BY <1>1, <1>2, <1>3

\* How a deactivation that was awaited may have settled.
LEMMA DeactivationFacts ==
    ASSUME NEW w, Shape(w), NEW id \in Ids(w), NEW out \in DeactivationOutcomes(w, id)
    PROVE  /\ out.ok \in BOOLEAN /\ Resettled(w, out.w, id)
           /\ TabOf(out.w, id).session = IF out.ok THEN "inactive" ELSE "quarantined"
           /\ ~out.ok => TabOf(w, id).session = "quarantined" \/ conditions.sessionsMayFail
<1>1. CASE TabOf(w, id).session = "quarantined"
    <2>1. out = [ok |-> FALSE, w |-> w]
        BY <1>1 DEF DeactivationOutcomes, Failed
    <2>. QED
        BY <1>1, <2>1, SameResettled
<1>2. CASE TabOf(w, id).session # "quarantined"
    <2>1. \/ out = [ok |-> TRUE, w |-> WithSession(w, id, "inactive")]
          \/ conditions.sessionsMayFail /\ out = [ok |-> FALSE, w |-> WithSession(w, id, "quarantined")]
        BY <1>2 DEF DeactivationOutcomes, Failed, Settled
    <2>2. "inactive" \in Sessions /\ "quarantined" \in Sessions
        BY DEF Sessions
    <2>3. CASE out = [ok |-> TRUE, w |-> WithSession(w, id, "inactive")]
        <3>1. out.ok = TRUE /\ out.w = WithSession(w, id, "inactive")
            BY <2>3
        <3>. QED
            BY <2>2, <3>1, SessionSet
    <2>4. CASE conditions.sessionsMayFail /\ out = [ok |-> FALSE, w |-> WithSession(w, id, "quarantined")]
        <3>1. out.ok = FALSE /\ out.w = WithSession(w, id, "quarantined")
            BY <2>4
        <3>. QED
            BY <2>2, <2>4, <3>1, SessionSet
    <2>. QED
        BY <2>1, <2>3, <2>4
<1>. QED
    BY <1>1, <1>2
\* The tab that is selected after one was removed.
LEMMA AfterRemoval ==
    ASSUME NEW u, Shape(u), NEW index \in 1 .. (Len(u.tabs) + 1), NEW preferred \in Nat
    PROVE  LET v == SelectAfterRemoval(u, index, preferred) IN
           /\ Shape(v) /\ v.activeId \in Ids(v)
           /\ Ids(u) # {} => /\ Ids(v) = Ids(u) /\ v.nextId = u.nextId /\ Len(v.tabs) = Len(u.tabs)
                             /\ \A i \in Ids(u) : TabOf(v, i) = TabOf(u, i)
           /\ Ids(u) = {} => Emptied(v, u)
<1>1. Len(u.tabs) \in Nat /\ DOMAIN u.tabs = 1 .. Len(u.tabs)
    BY DEF Shape
<1>2. CASE preferred \in Ids(u)
    <2>1. SelectAfterRemoval(u, index, preferred) = Select(u, preferred)
        BY <1>2, FindFacts DEF SelectAfterRemoval
    <2>. QED
        BY <1>2, <2>1, SelectFacts
<1>3. CASE preferred \notin Ids(u) /\ Ids(u) = {}
    <2>1. u.tabs = <<>>
        BY <1>3, CountFacts
    <2>2. SelectAfterRemoval(u, index, preferred) = AppendAndSelect(u, FALSE, Nothing)
        BY <1>3, <2>1, FindFacts DEF SelectAfterRemoval
    <2> DEFINE v == AppendAndSelect(u, FALSE, Nothing)
    <2>3. /\ Shape(v) /\ Ids(v) = Ids(u) \cup {u.nextId} /\ Len(v.tabs) = Len(u.tabs) + 1
          /\ v.activeId = u.nextId /\ v.nextId = u.nextId + 1
          /\ TabOf(v, u.nextId) = NewTab(u, FALSE, Nothing)
        BY AppendFacts DEF Nothing
    <2> HIDE DEF v
    <2>4. Len(u.tabs) = 0
        BY <2>1
    <2>5. Emptied(v, u)
        BY <1>3, <2>3, <2>4 DEF Emptied, NewTab
    <2>. QED
        BY <1>3, <2>2, <2>3, <2>5 DEF v
<1>4. CASE preferred \notin Ids(u) /\ Ids(u) # {}
    <2> DEFINE k == IF index <= Len(u.tabs) THEN index ELSE index - 1
    <2>1. u.tabs # <<>> /\ Len(u.tabs) # 0
        BY <1>4, CountFacts
    <2>2. SelectAfterRemoval(u, index, preferred) = Select(u, u.tabs[k].id)
        BY <1>4, <2>1, FindFacts DEF SelectAfterRemoval
    <2>3. k \in DOMAIN u.tabs
        BY <1>1, <2>1
    <2> HIDE DEF k
    <2>4. u.tabs[k].id \in Ids(u)
        BY <2>3 DEF Ids
    <2> DEFINE id == u.tabs[k].id
               v == Select(u, id)
    <2> HIDE DEF id
    <2>5. /\ Shape(v) /\ Ids(v) = Ids(u) /\ Len(v.tabs) = Len(u.tabs) /\ v.nextId = u.nextId
          /\ \A j \in Ids(u) : TabOf(v, j) = TabOf(u, j)
          /\ v.activeId = IF id \in Ids(u) THEN id ELSE u.activeId
        BY SelectFacts
    <2> HIDE DEF v
    <2>6. v.activeId \in Ids(v)
        BY <2>4, <2>5 DEF id
    <2>. QED
        BY <1>4, <2>2, <2>5, <2>6 DEF v, id
<1>. QED
    BY <1>2, <1>3, <1>4

LEMMA RemovedFacts ==
    ASSUME NEW w, Shape(w), NEW id \in Ids(w), NEW preferred \in Nat
    PROVE  Removed(w, SelectAfterRemoval(Without(w, id), FindTabIndex(w, id), preferred), id)
<1> DEFINE u == Without(w, id)
           k == FindTabIndex(w, id)
           v == SelectAfterRemoval(u, k, preferred)
<1>1. /\ Shape(u) /\ Ids(u) = Ids(w) \ {id} /\ Len(u.tabs) = Len(w.tabs) - 1
      /\ u.nextId = w.nextId /\ \A j \in Ids(u) : TabOf(u, j) = TabOf(w, j)
    BY WithoutFacts
<1>2. k \in 1 .. Len(w.tabs) /\ Len(w.tabs) \in Nat
    BY FindFacts DEF Shape
<1> HIDE DEF u, k
<1>3. k \in 1 .. (Len(u.tabs) + 1)
    BY <1>1, <1>2
<1>4. /\ Shape(v) /\ v.activeId \in Ids(v)
      /\ Ids(u) # {} => /\ Ids(v) = Ids(u) /\ v.nextId = u.nextId /\ Len(v.tabs) = Len(u.tabs)
                        /\ \A i \in Ids(u) : TabOf(v, i) = TabOf(u, i)
      /\ Ids(u) = {} => Emptied(v, u)
    BY <1>1, <1>3, AfterRemoval
<1> HIDE DEF v
<1>5. CASE Ids(u) # {}
    <2>1. Len(v.tabs) < Len(w.tabs)
        BY <1>1, <1>2, <1>4, <1>5
    <2>2. \A i \in Ids(v) : TabOf(v, i) = TabOf(w, i)
        BY <1>1, <1>4, <1>5
    <2>. QED
        BY <1>1, <1>4, <1>5, <2>1, <2>2 DEF Removed, u, k, v
<1>6. CASE Ids(u) = {}
    <2>1. Ids(w) = {id}
        BY <1>1, <1>6
    <2>2. Emptied(v, w)
        BY <1>1, <1>4, <1>6 DEF Emptied
    <2>. QED
        BY <1>4, <2>1, <2>2 DEF Removed, u, k, v
<1>. QED
    BY <1>5, <1>6

\* Closing a tab.
LEMMA CloseFacts ==
    ASSUME NEW w, Shape(w), w.activeId \in Ids(w), NEW id
    PROVE  LET v == Close(w, id) IN
           /\ id \notin Ids(w) => v = w
           /\ id \in Ids(w) => Removed(w, v, id)
           /\ id # w.activeId => v.activeId = w.activeId
<1> DEFINE v == Close(w, id)
<1>1. CASE id \notin Ids(w)
    <2>1. v = w
        BY <1>1, FindFacts DEF Close
    <2>. QED
        BY <1>1, <2>1
<1>2. CASE id \in Ids(w) /\ w.activeId = id
    <2>1. v = SelectAfterRemoval(Without(w, id), FindTabIndex(w, id), Nothing)
        BY <1>2, FindFacts DEF Close
    <2>2. Nothing \in Nat
        BY DEF Nothing
    <2>. QED
        BY <1>2, <2>1, <2>2, RemovedFacts
<1>3. CASE id \in Ids(w) /\ w.activeId # id
    <2>1. v = Without(w, id)
        BY <1>3, FindFacts DEF Close
    <2>2. /\ Shape(v) /\ Ids(v) = Ids(w) \ {id} /\ Len(v.tabs) = Len(w.tabs) - 1
          /\ v.activeId = w.activeId /\ v.nextId = w.nextId
          /\ \A j \in Ids(v) : TabOf(v, j) = TabOf(w, j)
        BY <1>3, <2>1, WithoutFacts
    <2>3. Len(w.tabs) \in Nat
        BY DEF Shape
    <2> HIDE DEF v
    <2>4. Removed(w, v, id)
        BY <1>3, <2>2, <2>3 DEF Removed
    <2>. QED
        BY <1>3, <2>2, <2>4 DEF v
<1>. QED
    BY <1>1, <1>2, <1>3

\* Another tab is selected after a removal.
LEMMA RemovedThenSelected ==
    ASSUME NEW w, NEW v, NEW id, Removed(w, v, id), NEW other
    PROVE  Removed(w, Select(v, other), id)
<1> DEFINE u == Select(v, other)
<1>1. Shape(v) /\ v.activeId \in Ids(v)
    BY DEF Removed
<1>2. /\ Shape(u) /\ Ids(u) = Ids(v) /\ Len(u.tabs) = Len(v.tabs) /\ u.nextId = v.nextId
      /\ \A j \in Ids(v) : TabOf(u, j) = TabOf(v, j)
      /\ u.activeId = IF other \in Ids(v) THEN other ELSE v.activeId
    BY <1>1, SelectFacts
<1> HIDE DEF u
<1>3. u.activeId \in Ids(u)
    BY <1>1, <1>2
<1>4. Emptied(v, w) => Emptied(u, w)
    BY <1>2 DEF Emptied
<1>. QED
    BY <1>2, <1>3, <1>4 DEF Removed, u

\* Undoing an adoption that was recorded.
LEMMA RollbackFacts ==
    ASSUME NEW w, Shape(w), w.activeId \in Ids(w), NEW id, NEW prior
    PROVE  LET v == RollbackOwnership(w, id, prior) IN
           /\ id \in Ids(w) => Removed(w, v, id)
           /\ id \notin Ids(w) => Like(w, v) /\ v.activeId \in Ids(v) /\ \A i \in Ids(w) : TabOf(v, i) = TabOf(w, i)
<1>1. CASE id \in Ids(w)
    <2>1. Removed(w, Close(w, id), id)
        BY <1>1, CloseFacts
    <2>. QED
        BY <1>1, <2>1, RemovedThenSelected DEF RollbackOwnership
<1>2. CASE id \notin Ids(w)
    <2>1. Close(w, id) = w
        BY <1>2, CloseFacts
    <2>2. RollbackOwnership(w, id, prior) = w \/ RollbackOwnership(w, id, prior) = Select(w, prior)
        BY <2>1 DEF RollbackOwnership
    <2> DEFINE u == Select(w, prior)
    <2>3. /\ Shape(u) /\ Ids(u) = Ids(w) /\ Len(u.tabs) = Len(w.tabs) /\ u.nextId = w.nextId
          /\ \A j \in Ids(w) : TabOf(u, j) = TabOf(w, j)
          /\ u.activeId = IF prior \in Ids(w) THEN prior ELSE w.activeId
        BY SelectFacts
    <2> HIDE DEF u
    <2>4. Like(w, u) /\ u.activeId \in Ids(u)
        BY <2>3 DEF Like
    <2>5. Like(w, w)
        BY DEF Like
    <2>. QED
        BY <1>2, <2>2, <2>3, <2>4, <2>5 DEF u
<1>. QED
    BY <1>1, <1>2
-----------------------------------------------------------------------------
(* Lemmas: what a change of the tabs leaves true of those who hold one      *)

\* Every tab is one that was there, with the document it had, or new and empty.
DocsKept(w, v) ==
    /\ w.nextId <= v.nextId
    /\ \A i \in Ids(v) : \/ i \in Ids(w) /\ TabOf(v, i).doc = TabOf(w, i).doc
                         \/ i >= w.nextId /\ TabOf(v, i).doc = Nothing

Unstaged(w) == \A i \in Ids(w) : TabOf(w, i).staged = FALSE

LEMMA LikeKeeps ==
    ASSUME NEW w, Shape(w), NEW v, Like(w, v)
    PROVE  /\ DocsKept(w, v)
           /\ TabsSound(w) => TabsSound(v)
           /\ Unstaged(w) => Unstaged(v)
           /\ \A r : StagedHeld(w, r) => StagedHeld(v, r)
           /\ Shown(w) /\ v.activeId \in Ids(v) => Shown(v)
<1>1. w.nextId \in Nat
    BY DEF Shape
<1>2. DocsKept(w, v)
    BY <1>1 DEF Like, DocsKept
<1>3. TabsSound(w) => TabsSound(v)
    BY DEF Like, TabsSound
<1>4. Unstaged(w) => Unstaged(v)
    BY DEF Like, Unstaged
<1>5. \A r : StagedHeld(w, r) => StagedHeld(v, r)
    BY DEF Like, StagedHeld
<1>6. Shown(w) /\ v.activeId \in Ids(v) => Shown(v)
    BY DEF Like, Shown
<1>. QED
    BY <1>2, <1>3, <1>4, <1>5, <1>6

LEMMA RemovedKeeps ==
    ASSUME NEW w, Shown(w), TabsSound(w), NEW v, NEW id, Removed(w, v, id), MaximumTabs >= 1, MaximumTabs \in Nat
    PROVE  Shown(v) /\ TabsSound(v) /\ DocsKept(w, v)
<1>1. Shape(w) /\ Shape(v) /\ v.activeId \in Ids(v) /\ w.nextId \in Nat /\ Len(w.tabs) \in Nat /\ Len(v.tabs) \in Nat
    BY DEF Shown, Removed, Shape
<1>2. CASE /\ Ids(v) = Ids(w) \ {id} /\ v.nextId = w.nextId /\ Len(v.tabs) < Len(w.tabs)
           /\ \A i \in Ids(v) : TabOf(v, i) = TabOf(w, i)
    <2>1. Len(v.tabs) <= MaximumTabs
        BY <1>1, <1>2 DEF Shown
    <2>2. DocsKept(w, v)
        BY <1>1, <1>2 DEF DocsKept
    <2>3. ASSUME NEW i \in Ids(v), TabOf(v, i).doc = Nothing, ~TabOf(v, i).staged PROVE Ids(v) = {i}
        <3>1. Ids(w) = {i}
            BY <1>2, <2>3 DEF TabsSound
        <3>. QED
            BY <1>2, <2>3, <3>1
    <2>4. \A i \in Ids(v) : TabOf(v, i).staged => TabOf(v, i).doc = Nothing
        BY <1>2 DEF TabsSound
    <2>. QED
        BY <1>1, <2>1, <2>2, <2>3, <2>4 DEF Shown, TabsSound
<1>3. CASE Ids(w) = {id} /\ Emptied(v, w)
    <2>1. Len(v.tabs) <= MaximumTabs
        BY <1>3 DEF Emptied
    <2>2. DocsKept(w, v)
        BY <1>1, <1>3 DEF DocsKept, Emptied
    <2>3. TabsSound(v)
        BY <1>3 DEF TabsSound, Emptied
    <2>. QED
        BY <1>1, <2>1, <2>2, <2>3 DEF Shown
<1>. QED
    BY <1>2, <1>3 DEF Removed

\* No tab is staged after a removal but those that were before.
LEMMA RemovedUnstaged ==
    ASSUME NEW w, NEW v, NEW id, Removed(w, v, id), \A i \in Ids(w) : i # id => TabOf(w, i).staged = FALSE
    PROVE  Unstaged(v)
<1>1. CASE Ids(v) = Ids(w) \ {id} /\ \A i \in Ids(v) : TabOf(v, i) = TabOf(w, i)
    BY <1>1 DEF Unstaged
<1>2. CASE Emptied(v, w)
    BY <1>2 DEF Unstaged, Emptied
<1>. QED
    BY <1>1, <1>2 DEF Removed

LEMMA KeptTwice ==
    ASSUME NEW u, NEW v, NEW w, Shape(u), Shape(v), Shape(w), DocsKept(u, v), DocsKept(v, w)
    PROVE  DocsKept(u, w)
<1>1. u.nextId \in Nat /\ v.nextId \in Nat /\ w.nextId \in Nat /\ u.nextId <= v.nextId /\ v.nextId <= w.nextId
    BY DEF Shape, DocsKept
<1>2. ASSUME NEW i \in Ids(w)
      PROVE  \/ i \in Ids(u) /\ TabOf(w, i).doc = TabOf(u, i).doc
             \/ i >= u.nextId /\ TabOf(w, i).doc = Nothing
    <2>1. i \in Nat
        BY IdFacts
    <2>2. CASE i \in Ids(v) /\ TabOf(w, i).doc = TabOf(v, i).doc
        BY <2>2 DEF DocsKept
    <2>3. CASE i >= v.nextId /\ TabOf(w, i).doc = Nothing
        BY <1>1, <2>1, <2>3
    <2>. QED
        BY <2>2, <2>3 DEF DocsKept
<1>. QED
    BY <1>1, <1>2 DEF DocsKept

\* What a transition says of tab i holds of it for as long as it is there.
LEMMA TabKept ==
    ASSUME NEW w, Shape(w), NEW v, Shape(v), DocsKept(w, v), NEW i \in Nat, i < w.nextId, NEW d,
           i \in Ids(w) => TabOf(w, i).doc = d
    PROVE  i < v.nextId /\ (i \in Ids(v) => TabOf(v, i).doc = d)
<1>1. w.nextId \in Nat /\ v.nextId \in Nat
    BY DEF Shape
<1>. QED
    BY <1>1 DEF DocsKept

\* What has been decided of a request is not taken back, and an adoption that waits is not settled.
RequestsKept(q, reqs, news) ==
    /\ \A r \in Requests : reqs[r] = "refused" => news[r] = "refused"
    /\ Bare(q) \/ \A r \in Requests : reqs[r] = "adopting" => news[r] = "adopting"

LEMMA ItemKept ==
    ASSUME NEW it, it.tab \in Nat, NEW w, Shape(w), NEW v, Shape(v), DocsKept(w, v), NEW reqs, NEW news,
           \A r \in Requests : reqs[r] = "refused" => news[r] = "refused",
           it.op = "adopt" => \A r \in Requests : reqs[r] = "adopting" => news[r] = "adopting",
           ItemOK(it, w, reqs)
    PROVE  ItemOK(it, v, news)
<1>1. it.op = "adopt" => it.req \in Requests /\ news[it.req] = "adopting"
    BY DEF ItemOK
<1>2. ASSUME it.op = "rollback"
      PROVE  /\ it.req \in Requests /\ news[it.req] = "refused" /\ it.tab < v.nextId
             /\ it.tab \in Ids(v) => TabOf(v, it.tab).doc = it.req
    <2>1. it.req \in Requests /\ reqs[it.req] = "refused" /\ it.tab < w.nextId
          /\ (it.tab \in Ids(w) => TabOf(w, it.tab).doc = it.req)
        BY <1>2 DEF ItemOK
    <2>2. it.tab < v.nextId /\ (it.tab \in Ids(v) => TabOf(v, it.tab).doc = it.req)
        BY <2>1, TabKept
    <2>3. news[it.req] = "refused"
        BY <2>1
    <2>. QED
        BY <2>1, <2>2, <2>3
<1>3. it.op = "close" => it.tab # Nothing
    BY DEF ItemOK
<1>. QED
    BY <1>1, <1>2, <1>3 DEF ItemOK

LEMMA QueueKept ==
    ASSUME NEW q \in Seq(ItemType), NEW w, Shape(w), NEW v, Shape(v), DocsKept(w, v), NEW reqs, NEW news,
           RequestsKept(q, reqs, news), QueueOK(q, w, reqs)
    PROVE  QueueOK(q, v, news)
<1>1. ASSUME NEW k \in DOMAIN q PROVE ItemOK(q[k], v, news)
    <2>0. q[k] \in ItemType
        OBVIOUS
    <2>1. ItemOK(q[k], w, reqs) /\ q[k].tab \in Nat
        BY <2>0 DEF QueueOK, ItemType
    <2>2. q[k].op = "adopt" => ~Bare(q)
        BY DEF Bare, Kind
    <2>. QED
        BY <2>1, <2>2, ItemKept DEF RequestsKept
<1>. QED
    BY <1>1 DEF QueueOK

LEMMA AdoptionsKept ==
    ASSUME NEW ad \in [Requests -> AdoptionType], NEW w, Shape(w), NEW v, Shape(v), DocsKept(w, v),
           NEW q, NEW reqs, AdoptionsOK(ad, q, w, reqs)
    PROVE  AdoptionsOK(ad, q, v, reqs)
<1>1. ASSUME NEW r \in Requests PROVE ad[r].id < v.nextId
    <2>1. ad[r].id \in Nat /\ ad[r].id < w.nextId /\ w.nextId \in Nat /\ v.nextId \in Nat
        BY DEF AdoptionsOK, AdoptionType, Shape
    <2>. QED
        BY <2>1 DEF DocsKept
<1>2. ASSUME NEW r \in Requests, reqs[r] \in {"ack", "reject"}, ad[r].id # Nothing
      PROVE  Bare(q) /\ (ad[r].id \in Ids(v) => TabOf(v, ad[r].id).doc = r)
    <2>1. ad[r].id \in Nat /\ ad[r].id < w.nextId
        BY DEF AdoptionsOK, AdoptionType
    <2>2. Bare(q) /\ (ad[r].id \in Ids(w) => TabOf(w, ad[r].id).doc = r)
        BY <1>2 DEF AdoptionsOK
    <2>. QED
        BY <2>1, <2>2, TabKept
<1>. QED
    BY <1>1, <1>2 DEF AdoptionsOK

LEMMA DocumentsKept ==
    ASSUME NEW w, NEW v, DocsKept(w, v), NEW r, NEW q, NEW reqs, NEW ad, DocsOK(w, r, q, reqs, ad)
    PROVE  DocsOK(v, r, q, reqs, ad)
    BY DEF DocsKept, DocsOK

-----------------------------------------------------------------------------
(* Lemmas: the queue                                                        *)

LEMMA NoRunFacts ==
    /\ NoRun \in RunType /\ NoRun.op = "close" /\ NoRun.await = "last" /\ NoRun.tab = Nothing
    /\ NoRun.req = Nothing
    BY DEF NoRun, Running, Item, RunType, Ops, Awaits, Nothing

\* A transition that begins.
LEMMA RunningFacts ==
    ASSUME NEW it \in ItemType
    PROVE  /\ Running(it, "start") \in RunType /\ Running(it, "start").await = "start"
           /\ Running(it, "start").op = it.op /\ Running(it, "start").tab = it.tab
           /\ Running(it, "start").prior = it.prior /\ Running(it, "start").req = it.req
           /\ Running(it, "start") # NoRun
           /\ \A w, reqs : ItemOK(it, w, reqs) => ItemOK(Running(it, "start"), w, reqs)
<1> DEFINE r == Running(it, "start")
<1>1. r.await = "start" /\ r.op = it.op /\ r.tab = it.tab /\ r.prior = it.prior /\ r.req = it.req
      /\ r = [op |-> r.op, tab |-> r.tab, prior |-> r.prior, req |-> r.req, await |-> r.await]
    BY DEF Running
<1> HIDE DEF r
<1>2. r \in RunType
    BY <1>1 DEF RunType, ItemType, Awaits
<1>3. r # NoRun
    BY <1>1, NoRunFacts
<1>4. \A w, reqs : ItemOK(it, w, reqs) => ItemOK(r, w, reqs)
    BY <1>1 DEF ItemOK
<1>. QED
    BY <1>1, <1>2, <1>3, <1>4 DEF r

LEMMA TailFacts ==
    ASSUME NEW q \in Seq(ItemType), q # <<>>
    PROVE  /\ Tail(q) \in Seq(ItemType) /\ Head(q) \in ItemType /\ Head(q) = q[1] /\ 1 \in DOMAIN q
           /\ \A k \in DOMAIN Tail(q) : k + 1 \in DOMAIN q /\ Tail(q)[k] = q[k + 1]
           /\ \A k \in DOMAIN q : k = 1 \/ (k - 1 \in DOMAIN Tail(q) /\ Tail(q)[k - 1] = q[k])
<1>1. Len(q) \in Nat /\ Len(q) # 0 /\ DOMAIN q = 1 .. Len(q)
    OBVIOUS
<1>2. /\ Tail(q) \in Seq(ItemType) /\ Head(q) \in ItemType /\ Len(Tail(q)) = Len(q) - 1
      /\ \A k \in 1 .. Len(Tail(q)) : Tail(q)[k] = q[k + 1]
    BY HeadTailProperties
<1>3. DOMAIN Tail(q) = 1 .. (Len(q) - 1)
    BY <1>1, <1>2
<1>4. Head(q) = q[1]
    BY <1>1
<1>5. \A k \in DOMAIN q : k = 1 \/ (k - 1 \in DOMAIN Tail(q) /\ Tail(q)[k - 1] = q[k])
    <2>. TAKE k \in DOMAIN q
    <2>1. k = 1 \/ (k - 1 \in 1 .. (Len(q) - 1) /\ (k - 1) + 1 = k)
        BY <1>1
    <2>. QED
        BY <1>2, <1>3, <2>1
<1>. QED
    BY <1>1, <1>2, <1>3, <1>4, <1>5

\* Nothing hangs on the transition under way.
Ready(w, q, reqs, ad) ==
    /\ Shown(w) /\ TabsSound(w) /\ Unstaged(w)
    /\ QueueOK(q, w, reqs) /\ AdoptionsOK(ad, q, w, reqs) /\ DocsOK(w, NoRun, q, reqs, ad)

\* The transition is over, and the next one begins.
LEMMA DoneOwned ==
    ASSUME queue \in Seq(ItemType), Done, NEW w, NEW reqs, NEW ad, Ready(w, queue, reqs, ad)
    PROVE  /\ run' \in RunType /\ queue' \in Seq(ItemType)
           /\ Standing(w, run', queue', reqs, ad)
           /\ run' = NoRun \/ run'.await = "start"
<1>1. CASE queue = <<>>
    <2>1. run' = NoRun /\ queue' = queue
        BY <1>1 DEF Done
    <2>2. RunOK(NoRun, queue, w, reqs, ad)
        BY <1>1, NoRunFacts DEF RunOK
    <2>3. StagedHeld(w, NoRun)
        BY DEF Ready, Unstaged, StagedHeld
    <2>. QED
        BY <2>1, <2>2, <2>3, NoRunFacts DEF Ready, Standing
<1>2. CASE queue # <<>>
    <2> DEFINE it == Head(queue)
               q == Tail(queue)
               r == Running(it, "start")
    <2>1. run' = r /\ queue' = q
        BY <1>2 DEF Done
    <2>2. /\ q \in Seq(ItemType) /\ it \in ItemType /\ it = queue[1] /\ 1 \in DOMAIN queue
          /\ \A k \in DOMAIN q : k + 1 \in DOMAIN queue /\ q[k] = queue[k + 1]
          /\ \A k \in DOMAIN queue : k = 1 \/ (k - 1 \in DOMAIN q /\ q[k - 1] = queue[k])
        BY <1>2, TailFacts
    <2>3. DOMAIN q \subseteq Nat
        BY <2>2
    <2> HIDE DEF q, it
    <2>4. /\ r \in RunType /\ r.await = "start" /\ r.op = it.op /\ r.tab = it.tab /\ r.req = it.req /\ r # NoRun
          /\ (ItemOK(it, w, reqs) => ItemOK(r, w, reqs))
        BY <2>2, RunningFacts
    <2> HIDE DEF r
    <2>5. QueueOK(q, w, reqs)
        <3>1. \A k \in DOMAIN q : ItemOK(q[k], w, reqs)
            BY <2>2 DEF Ready, QueueOK
        <3>2. ASSUME NEW i \in DOMAIN q, NEW j \in DOMAIN q, q[i].op = "adopt", i < j PROVE Kind(q[j].op) # "ownership"
            <4>1. i + 1 \in DOMAIN queue /\ j + 1 \in DOMAIN queue /\ i + 1 < j + 1 /\ queue[i + 1].op = "adopt"
                BY <2>2, <2>3, <3>2
            <4>2. Kind(queue[j + 1].op) # "ownership"
                BY <4>1 DEF Ready, QueueOK
            <4>. QED
                BY <2>2, <4>2
        <3>. QED
            BY <3>1, <3>2 DEF QueueOK
    <2>6. it.op = "adopt" => Bare(q)
        <3>1. ASSUME it.op = "adopt", NEW k \in DOMAIN q PROVE Kind(q[k].op) # "ownership"
            <4>1. k + 1 \in DOMAIN queue /\ q[k] = queue[k + 1] /\ k \in Nat /\ k >= 1
                BY <2>2
            <4>2. 1 < k + 1
                BY <4>1
            <4>. QED
                BY <2>2, <3>1, <4>1, <4>2 DEF Ready, QueueOK
        <3>. QED
            BY <3>1 DEF Bare
    <2>7. ItemOK(it, w, reqs)
        BY <2>2 DEF Ready, QueueOK
    <2>8. RunOK(r, q, w, reqs, ad)
        BY <2>4, <2>6, <2>7 DEF RunOK, ItemOK
    <2>9. StagedHeld(w, r)
        BY DEF Ready, Unstaged, StagedHeld
    <2>10. AdoptionsOK(ad, q, w, reqs)
        <3>1. Bare(queue) => Bare(q)
            BY <2>2 DEF Bare
        <3>. QED
            BY <3>1 DEF Ready, AdoptionsOK
    <2>11. ASSUME NEW i, NEW d, Rolling(i, d, NoRun, queue) PROVE Rolling(i, d, r, q)
        <3>1. PICK k \in DOMAIN queue : queue[k].op = "rollback" /\ queue[k].tab = i /\ queue[k].req = d
            BY <2>11, NoRunFacts DEF Rolling
        <3>2. CASE k = 1
            BY <2>2, <2>4, <3>1, <3>2 DEF Rolling
        <3>3. CASE k # 1
            <4>1. k - 1 \in DOMAIN q /\ q[k - 1] = queue[k]
                BY <2>2, <3>3
            <4>. QED
                BY <3>1, <4>1 DEF Rolling
        <3>. QED
            BY <3>2, <3>3
    <2>12. DocsOK(w, r, q, reqs, ad)
        BY <2>11, NoRunFacts DEF Ready, DocsOK, DocOK
    <2>. QED
        BY <2>1, <2>2, <2>4, <2>5, <2>8, <2>9, <2>10, <2>12 DEF Ready, Standing
<1>. QED
    BY <1>1, <1>2
\* A queue that has an item more, and may have lost its last activation.
Grown(q, b, item, new) ==
    /\ new = Append(b, item) /\ b \in Seq(ItemType)
    /\ \A k \in DOMAIN b : k \in DOMAIN q /\ b[k] = q[k]
    /\ \A k \in DOMAIN q : k \in DOMAIN b \/ Kind(q[k].op) = "activation"

LEMMA GrownFacts ==
    ASSUME NEW q \in Seq(ItemType), NEW b, NEW item \in ItemType, NEW new, Grown(q, b, item, new)
    PROVE  /\ new \in Seq(ItemType) /\ Len(b) \in Nat /\ DOMAIN new = 1 .. (Len(b) + 1)
           /\ Len(b) + 1 \in DOMAIN new /\ new[Len(b) + 1] = item
           /\ \A k \in DOMAIN b : k \in DOMAIN new /\ new[k] = b[k] /\ k < Len(b) + 1
           /\ \A k \in DOMAIN new : k \in DOMAIN b \/ k = Len(b) + 1
<1>1. b \in Seq(ItemType) /\ Len(b) \in Nat /\ DOMAIN b = 1 .. Len(b) /\ new = Append(b, item)
    BY DEF Grown
<1>2. /\ new \in Seq(ItemType) /\ Len(new) = Len(b) + 1 /\ DOMAIN new = 1 .. (Len(b) + 1)
      /\ new[Len(b) + 1] = item
      /\ \A k \in 1 .. Len(b) : new[k] = b[k]
    BY <1>1
<1>. QED
    BY <1>1, <1>2

LEMMA GrownOwned ==
    ASSUME NEW q \in Seq(ItemType), NEW b, NEW item \in ItemType, NEW new, Grown(q, b, item, new),
           NEW w, NEW reqs, NEW ad, NEW r \in RunType, r # NoRun, QueueOK(q, w, reqs), RunOK(r, q, w, reqs, ad),
           AdoptionsOK(ad, q, w, reqs), ItemOK(item, w, reqs),
           Kind(item.op) = "ownership" =>
               /\ r.op # "adopt" /\ \A k \in DOMAIN q : q[k].op # "adopt"
               /\ \A s \in Requests : reqs[s] \in {"ack", "reject"} => ad[s].id = Nothing
    PROVE  /\ QueueOK(new, w, reqs) /\ RunOK(r, new, w, reqs, ad) /\ AdoptionsOK(ad, new, w, reqs)
           /\ \A i, d : Rolling(i, d, r, q) => Rolling(i, d, r, new)
           /\ item.op = "rollback" => Rolling(item.tab, item.req, r, new)
<1> DEFINE n == Len(b) + 1
<1>1. /\ new \in Seq(ItemType) /\ Len(b) \in Nat /\ DOMAIN new = 1 .. n
      /\ n \in DOMAIN new /\ new[n] = item
      /\ \A k \in DOMAIN b : k \in DOMAIN new /\ new[k] = b[k] /\ k < n
      /\ \A k \in DOMAIN new : k \in DOMAIN b \/ k = n
    BY GrownFacts
<1>2. /\ \A k \in DOMAIN b : k \in DOMAIN q /\ b[k] = q[k]
      /\ \A k \in DOMAIN q : k \in DOMAIN b \/ Kind(q[k].op) = "activation"
    BY DEF Grown
<1>3. n \in Nat /\ DOMAIN new \subseteq Nat
    BY <1>1
<1> HIDE DEF n
<1>4. QueueOK(new, w, reqs)
    <2>1. \A k \in DOMAIN new : ItemOK(new[k], w, reqs)
        BY <1>1, <1>2 DEF QueueOK
    <2>2. ASSUME NEW i \in DOMAIN new, NEW j \in DOMAIN new, new[i].op = "adopt", i < j
          PROVE  Kind(new[j].op) # "ownership"
        <3>1. j <= n /\ i < n /\ i \in DOMAIN b
            BY <1>1, <1>3, <2>2
        <3>2. i \in DOMAIN q /\ q[i].op = "adopt"
            BY <1>1, <1>2, <2>2, <3>1
        <3>3. CASE j = n
            BY <1>1, <3>2, <3>3
        <3>4. CASE j \in DOMAIN b
            BY <1>1, <1>2, <2>2, <3>2, <3>4 DEF QueueOK
        <3>. QED
            BY <1>1, <3>3, <3>4
    <2>. QED
        BY <2>1, <2>2 DEF QueueOK
<1>5. Kind(item.op) # "ownership" /\ Bare(q) => Bare(new)
    BY <1>1, <1>2 DEF Bare
<1>6. RunOK(r, new, w, reqs, ad)
    BY <1>5, Zenon DEF RunOK
<1>7. AdoptionsOK(ad, new, w, reqs)
    BY <1>5 DEF AdoptionsOK
<1>8. ASSUME NEW i, NEW d, Rolling(i, d, r, q) PROVE Rolling(i, d, r, new)
    <2>1. CASE r.op = "rollback" /\ r.await = "start" /\ r.tab = i /\ r.req = d
        BY <2>1 DEF Rolling
    <2>2. ASSUME NEW k \in DOMAIN q, q[k].op = "rollback" /\ q[k].tab = i /\ q[k].req = d PROVE Rolling(i, d, r, new)
        <3>1. Kind(q[k].op) # "activation"
            BY <2>2 DEF Kind
        <3>2. k \in DOMAIN new /\ new[k] = q[k]
            BY <1>1, <1>2, <3>1
        <3>. QED
            BY <2>2, <3>2 DEF Rolling
    <2>. QED
        BY <1>8, <2>1, <2>2 DEF Rolling
<1>9. item.op = "rollback" => Rolling(item.tab, item.req, r, new)
    BY <1>1 DEF Rolling
<1>. QED
    BY <1>4, <1>6, <1>7, <1>8, <1>9

\* A queue without settlements has room for one.
LEMMA BareHasRoom ==
    ASSUME WorkspaceAssumption, Bare(queue)
    PROVE  ~Full("ownership")
<1>1. {i \in DOMAIN queue : Kind(queue[i].op) = "ownership"} = {}
    BY DEF Bare
<1>2. Count("ownership") = 0
    BY <1>1, FS_EmptySet DEF Count
<1>3. KindLimit("ownership") = OwnershipLimit
    BY DEF KindLimit
<1>. QED
    BY <1>2, <1>3 DEF Full, WorkspaceAssumption

\* The last activation gives way to a new one.
LEMMA FrontGrown ==
    ASSUME queue \in Seq(ItemType), NEW item, Coalesces(item), NEW new, new = Append(Front(queue), item)
    PROVE  Grown(queue, Front(queue), item, new)
<1> DEFINE b == Front(queue)
<1>1. queue # <<>> /\ Kind(queue[Len(queue)].op) = "activation"
    BY DEF Coalesces, Last
<1>2. Len(queue) \in Nat /\ Len(queue) # 0 /\ DOMAIN queue = 1 .. Len(queue)
    BY <1>1
<1>3. b = SubSeq(queue, 1, Len(queue) - 1)
    BY DEF Front
<1>4. b \in Seq(ItemType) /\ Len(b) = Len(queue) - 1 /\ \A k \in 1 .. (Len(queue) - 1) : b[k] = queue[k]
    BY <1>2, <1>3, SubSeqProperties
<1>5. DOMAIN b = 1 .. (Len(queue) - 1)
    BY <1>2, <1>4
<1> HIDE DEF b
<1>6. \A k \in DOMAIN queue : k \in DOMAIN b \/ k = Len(queue)
    BY <1>2, <1>5
<1>7. \A k \in DOMAIN b : k \in DOMAIN queue /\ b[k] = queue[k]
    BY <1>2, <1>4, <1>5
<1>8. new = Append(b, item)
    BY DEF b
<1>9. Grown(queue, b, item, new)
    BY <1>1, <1>4, <1>6, <1>7, <1>8 DEF Grown
<1>. QED
    BY <1>9 DEF b

\* A transition is handed to the queue; a document whose rollback it is need have no other owner.
LEMMA EnqueueOwned ==
    ASSUME WorkspaceAssumption, queue \in Seq(ItemType), run \in RunType, NEW item \in ItemType, Enqueue(item),
           NEW w, NEW reqs, NEW ad,
           Shown(w), TabsSound(w), QueueOK(queue, w, reqs), RunOK(run, queue, w, reqs, ad), StagedHeld(w, run),
           AdoptionsOK(ad, queue, w, reqs), ItemOK(item, w, reqs),
           \A i \in Ids(w) : TabOf(w, i).doc # Nothing =>
               \/ DocOK(i, TabOf(w, i).doc, run, queue, reqs, ad)
               \/ item.op = "rollback" /\ item.tab = i /\ item.req = TabOf(w, i).doc,
           item.op = "rollback" => Bare(queue),
           Kind(item.op) = "ownership" =>
               /\ run.op # "adopt" /\ \A k \in DOMAIN queue : queue[k].op # "adopt"
               /\ \A s \in Requests : reqs[s] \in {"ack", "reject"} => ad[s].id = Nothing
    PROVE  run' \in RunType /\ queue' \in Seq(ItemType) /\ Standing(w, run', queue', reqs, ad)
<1>1. CASE run = NoRun
    <2> DEFINE r == Running(item, "start")
    <2>1. run' = r /\ queue' = queue /\ queue = <<>>
        BY <1>1 DEF Enqueue, RunOK
    <2>2. /\ r \in RunType /\ r.await = "start" /\ r.op = item.op /\ r.tab = item.tab /\ r.req = item.req
          /\ ItemOK(r, w, reqs) /\ r # NoRun
        BY RunningFacts
    <2> HIDE DEF r
    <2>3. Bare(queue)
        BY <2>1 DEF Bare
    <2>4. RunOK(r, queue, w, reqs, ad)
        BY <2>2, <2>3 DEF RunOK, ItemOK
    <2>5. StagedHeld(w, r)
        BY <1>1, NoRunFacts DEF StagedHeld
    <2>6. ASSUME NEW i \in Ids(w), TabOf(w, i).doc # Nothing
          PROVE  DocOK(i, TabOf(w, i).doc, r, queue, reqs, ad)
        BY <1>1, <2>2, <2>6, NoRunFacts DEF DocOK, Rolling
    <2>. QED
        BY <2>1, <2>2, <2>4, <2>5, <2>6 DEF Standing, DocsOK
<1>2. CASE run # NoRun
    <2>1. run' = run
        BY <1>2 DEF Enqueue
    <2>2. ASSUME NEW b, Grown(queue, b, item, queue')
          PROVE  queue' \in Seq(ItemType) /\ Standing(w, run, queue', reqs, ad)
        <3>1. queue' \in Seq(ItemType)
            BY <2>2, GrownFacts
        <3>2. /\ QueueOK(queue', w, reqs) /\ RunOK(run, queue', w, reqs, ad) /\ AdoptionsOK(ad, queue', w, reqs)
              /\ \A i, d : Rolling(i, d, run, queue) => Rolling(i, d, run, queue')
              /\ item.op = "rollback" => Rolling(item.tab, item.req, run, queue')
            BY <1>2, <2>2, GrownOwned
        <3>3. DocsOK(w, run, queue', reqs, ad)
            BY <3>2 DEF DocsOK, DocOK
        <3>. QED
            BY <3>1, <3>2, <3>3 DEF Standing
    <2>3. CASE Coalesces(item)
        <3>1. queue' = Append(Front(queue), item)
            BY <1>2, <2>3 DEF Enqueue
        <3>2. Grown(queue, Front(queue), item, queue')
            BY <2>3, <3>1, FrontGrown
        <3>. QED
            BY <2>1, <2>2, <3>2
    <2>4. CASE ~Coalesces(item) /\ Full(Kind(item.op))
        <3>1. queue' = queue
            BY <1>2, <2>4 DEF Enqueue
        <3>2. item.op # "rollback"
            BY <2>4, BareHasRoom DEF Kind
        <3>3. DocsOK(w, run, queue, reqs, ad)
            BY <3>2 DEF DocsOK
        <3>. QED
            BY <2>1, <3>1, <3>3 DEF Standing
    <2>5. CASE ~Coalesces(item) /\ ~Full(Kind(item.op))
        <3>1. queue' = Append(queue, item)
            BY <1>2, <2>5 DEF Enqueue
        <3>2. Grown(queue, queue, item, queue')
            BY <3>1 DEF Grown
        <3>. QED
            BY <2>1, <2>2, <3>2
    <2>. QED
        BY <2>3, <2>4, <2>5
<1>. QED
    BY <1>1, <1>2
-----------------------------------------------------------------------------
(* Lemmas: how a step goes on                                                *)

LEMMA LikeItself ==
    ASSUME NEW w, Shape(w)
    PROVE  Like(w, w)
    BY DEF Like

LEMMA LikeTwice ==
    ASSUME NEW u, NEW v, NEW w, Like(u, v), Like(v, w)
    PROVE  Like(u, w)
    BY DEF Like

\* Only the adoption under way has a staged tab.
LEMMA NotStaged ==
    ASSUME OwnedInv, run.op # "adopt" \/ run.await \notin {"entering", "opening"}
    PROVE  Unstaged(workspace)
<1>1. \A i \in Ids(workspace) : TabOf(workspace, i).staged \in BOOLEAN
    BY IdFacts DEF OwnedInv, Standing, Shown, Tab
<1>2. \A i \in Ids(workspace) : ~TabOf(workspace, i).staged
    BY DEF OwnedInv, Standing, StagedHeld
<1>. QED
    BY <1>1, <1>2 DEF Unstaged

\* No document depends on a transition that is neither presenting one nor about to roll one back.
LEMMA FreeDocs ==
    ASSUME OwnedInv, run.await # "presenting", run.op # "rollback" \/ run.await # "start"
    PROVE  DocsOK(workspace, NoRun, queue, requests, adoptions)
    BY DEF OwnedInv, Standing, DocsOK, DocOK, Rolling

LEMMA AnyRun ==
    ASSUME NEW w, NEW q, NEW reqs, NEW ad, DocsOK(w, NoRun, q, reqs, ad), NEW r
    PROVE  DocsOK(w, r, q, reqs, ad)
<1>1. ASSUME NEW i, NEW d, Rolling(i, d, NoRun, q) PROVE Rolling(i, d, r, q)
    BY <1>1, NoRunFacts DEF Rolling
<1>. QED
    BY <1>1, NoRunFacts DEF DocsOK, DocOK

\* A queue, adoptions and documents stand a change of the tabs that keeps the documents, and a
\* change of what the adoption under way would undo.
LEMMA KeptOwned ==
    ASSUME OwnedInv, NEW v, Shape(v), DocsKept(workspace, v),
           NEW ad \in [Requests -> AdoptionType],
           \A s \in Requests : \/ ad[s] = adoptions[s]
                               \/ run.op = "adopt" /\ s = run.req /\ ad[s].id < v.nextId
    PROVE  /\ QueueOK(queue, v, requests) /\ AdoptionsOK(ad, queue, v, requests)
           /\ \A r : DocsOK(v, r, queue, requests, adoptions) => DocsOK(v, r, queue, requests, ad)
<1>1. Shape(workspace) /\ queue \in Seq(ItemType) /\ adoptions \in [Requests -> AdoptionType]
    BY DEF OwnedInv, Standing, Shown, WorkspaceTypes
<1>2. RequestsKept(queue, requests, requests)
    BY DEF RequestsKept
<1>3. QueueOK(queue, v, requests)
    BY <1>1, <1>2, QueueKept DEF OwnedInv, Standing
<1>4. AdoptionsOK(adoptions, queue, v, requests)
    BY <1>1, AdoptionsKept DEF OwnedInv, Standing
<1>5. run.op = "adopt" => run.req \in Requests /\ requests[run.req] = "adopting"
    BY DEF OwnedInv, Standing, RunOK
<1>6. ASSUME NEW s \in Requests, requests[s] # "adopting" PROVE ad[s] = adoptions[s]
    BY <1>5, <1>6
<1>7. AdoptionsOK(ad, queue, v, requests)
    <2>1. \A s \in Requests : s \notin Flying(requests) => ad[s].id = Nothing
        BY <1>4, <1>6 DEF AdoptionsOK, Flying
    <2>2. \A s \in Requests : ad[s].id < v.nextId
        BY <1>4 DEF AdoptionsOK
    <2>3. \A s \in Requests : requests[s] \in {"ack", "reject"} /\ ad[s].id # Nothing =>
              Bare(queue) /\ (ad[s].id \in Ids(v) => TabOf(v, ad[s].id).doc = s)
        BY <1>4, <1>6 DEF AdoptionsOK
    <2>. QED
        BY <1>4, <2>1, <2>2, <2>3 DEF AdoptionsOK
<1>8. ASSUME NEW r, DocsOK(v, r, queue, requests, adoptions) PROVE DocsOK(v, r, queue, requests, ad)
    <2>1. ASSUME NEW i \in Ids(v), TabOf(v, i).doc # Nothing
          PROVE  DocOK(i, TabOf(v, i).doc, r, queue, requests, ad)
        <3>1. TabOf(v, i).doc \in Requests
            BY <2>1, IdFacts DEF Tab
        <3>. QED
            BY <1>6, <1>8, <2>1, <3>1 DEF DocsOK, DocOK
    <2>. QED
        BY <2>1 DEF DocsOK
<1>. QED
    BY <1>3, <1>7, <1>8

\* The transition goes on: the queue and the requests are as they were.
LEMMA StayOwned ==
    ASSUME OwnedInv, Shown(workspace'), TabsSound(workspace'), DocsKept(workspace, workspace'),
           adoptions' \in [Requests -> AdoptionType],
           \A s \in Requests : \/ adoptions'[s] = adoptions[s]
                               \/ run.op = "adopt" /\ s = run.req /\ adoptions'[s].id < workspace'.nextId,
           DocsOK(workspace', NoRun, queue, requests, adoptions),
           UNCHANGED <<queue, requests, closes, conditions>>, run' \in RunType,
           RunOK(run', queue, workspace', requests, adoptions'), StagedHeld(workspace', run')
    PROVE  OwnedInv'
<1>1. Shape(workspace')
    BY DEF Shown
<1>2. /\ QueueOK(queue, workspace', requests) /\ AdoptionsOK(adoptions', queue, workspace', requests)
      /\ DocsOK(workspace', NoRun, queue, requests, adoptions')
    BY <1>1, KeptOwned
<1>3. DocsOK(workspace', run', queue, requests, adoptions')
    BY <1>2, AnyRun
<1>4. WorkspaceTypes'
    BY DEF OwnedInv, WorkspaceTypes
<1>5. Standing(workspace', run', queue, requests, adoptions')
    BY <1>2, <1>3 DEF Standing
<1>6. queue' = queue /\ requests' = requests
    OBVIOUS
<1>. QED
    BY <1>4, <1>5, <1>6 DEF OwnedInv

\* The transition is over.
LEMMA OverOwned ==
    ASSUME OwnedInv, Done, Ready(workspace', queue, requests', adoptions'),
           requests' \in [Requests -> RequestState], adoptions' \in [Requests -> AdoptionType],
           UNCHANGED <<closes, conditions>>
    PROVE  OwnedInv'
<1>1. queue \in Seq(ItemType)
    BY DEF OwnedInv, WorkspaceTypes
<1>2. run' \in RunType /\ queue' \in Seq(ItemType) /\ Standing(workspace', run', queue', requests', adoptions')
    BY <1>1, DoneOwned
<1>3. WorkspaceTypes'
    BY <1>2 DEF OwnedInv, WorkspaceTypes
<1>. QED
    BY <1>2, <1>3 DEF OwnedInv

\* The transition is over, and nothing but tabs has changed.
LEMMA OverKept ==
    ASSUME OwnedInv, Done, Shown(workspace'), TabsSound(workspace'), Unstaged(workspace'),
           DocsKept(workspace, workspace'), DocsOK(workspace', NoRun, queue, requests, adoptions),
           UNCHANGED <<requests, adoptions, closes, conditions>>
    PROVE  OwnedInv'
<1>1. Shape(workspace')
    BY DEF Shown
<1>2. requests \in [Requests -> RequestState] /\ adoptions \in [Requests -> AdoptionType]
    BY DEF OwnedInv, WorkspaceTypes
<1>3. QueueOK(queue, workspace', requests) /\ AdoptionsOK(adoptions, queue, workspace', requests)
    BY <1>1, <1>2, KeptOwned
<1>4. Ready(workspace', queue, requests, adoptions)
    BY <1>3 DEF Ready
<1>5. requests' = requests /\ adoptions' = adoptions
    OBVIOUS
<1>. QED
    BY <1>2, <1>4, <1>5, OverOwned

\* activateCurrentTab() on tabs like those that were there.
LEMMA ThenFacts ==
    ASSUME OwnedInv, NEW u, Shape(u), u.activeId \in Ids(u), NEW r \in RunType, NEW await \in Awaits,
           ActivateThen(u, r, await)
    PROVE  /\ Resettled(u, workspace', u.activeId) /\ Like(u, workspace')
           /\ workspace'.activeId = u.activeId /\ workspace'.activeId \in Ids(workspace')
           /\ queue' = queue /\ run' \in RunType /\ run'.await = await
           /\ run'.op = r.op /\ run'.tab = r.tab /\ run'.prior = r.prior /\ run'.req = r.req
<1>1. Resettled(u, workspace', u.activeId)
    BY ActivateFacts DEF ActivateThen
<1>2. Like(u, workspace') /\ workspace'.activeId = u.activeId /\ workspace'.activeId \in Ids(workspace')
    BY <1>1 DEF Resettled, Like
<1>3. run' = [r EXCEPT !.await = await] /\ queue' = queue
    BY DEF ActivateThen, Await
<1>4. run' \in RunType /\ run'.await = await /\ run'.op = r.op /\ run'.tab = r.tab /\ run'.prior = r.prior
      /\ run'.req = r.req
    BY <1>3 DEF RunType
<1>. QED
    BY <1>1, <1>2, <1>3, <1>4

\* Nothing but an activation is left to await.
LEMMA LastOwned ==
    ASSUME OwnedInv, Shown(workspace'), TabsSound(workspace'), Unstaged(workspace'), DocsKept(workspace, workspace'),
           DocsOK(workspace', NoRun, queue, requests, adoptions),
           UNCHANGED <<requests, adoptions, closes, conditions>>,
           queue' = queue, run' \in RunType, run'.await = "last", run'.op # "adopt", run' # NoRun
    PROVE  OwnedInv'
<1>1. RunOK(run', queue, workspace', requests, adoptions')
    BY DEF RunOK
<1>2. StagedHeld(workspace', run')
    BY DEF Unstaged, StagedHeld
<1>3. adoptions \in [Requests -> AdoptionType] /\ adoptions' = adoptions
    BY DEF OwnedInv, WorkspaceTypes
<1>. QED
    BY <1>1, <1>2, <1>3, StayOwned

\* The tabs are like those that were there, nobody is staged, and no document hangs on the transition.
LEMMA LikeFacts ==
    ASSUME OwnedInv, NEW v, Like(workspace, v), v.activeId \in Ids(v)
    PROVE  /\ Shown(v) /\ TabsSound(v) /\ DocsKept(workspace, v)
           /\ Unstaged(workspace) => Unstaged(v)
           /\ \A r : StagedHeld(workspace, r) => StagedHeld(v, r)
           /\ \A r : DocsOK(workspace, r, queue, requests, adoptions) => DocsOK(v, r, queue, requests, adoptions)
<1>1. Shape(workspace) /\ Shown(workspace) /\ TabsSound(workspace)
    BY DEF OwnedInv, Standing, Shown
<1>2. /\ DocsKept(workspace, v) /\ TabsSound(v) /\ Shown(v) /\ (Unstaged(workspace) => Unstaged(v))
      /\ \A r : StagedHeld(workspace, r) => StagedHeld(v, r)
    BY <1>1, LikeKeeps
<1>. QED
    BY <1>2, DocumentsKept
-----------------------------------------------------------------------------
(* Every step preserves OwnedInv                                             *)

LEMMA OwnedParts ==
    ASSUME OwnedInv
    PROVE  /\ Shape(workspace) /\ Shown(workspace) /\ TabsSound(workspace)
           /\ workspace.activeId \in Ids(workspace) /\ workspace.activeId \in Nat
           /\ queue \in Seq(ItemType) /\ run \in RunType
           /\ requests \in [Requests -> RequestState] /\ adoptions \in [Requests -> AdoptionType]
           /\ RunOK(run, queue, workspace, requests, adoptions) /\ QueueOK(queue, workspace, requests)
           /\ AdoptionsOK(adoptions, queue, workspace, requests) /\ StagedHeld(workspace, run)
           /\ Like(workspace, workspace) /\ DocsKept(workspace, workspace)
<1>1. Shape(workspace) /\ workspace.activeId \in Nat
    BY DEF OwnedInv, Standing, Shown, Shape
<1>2. Like(workspace, workspace) /\ DocsKept(workspace, workspace)
    BY <1>1, LikeItself, LikeKeeps
<1>. QED
    BY <1>1, <1>2 DEF OwnedInv, WorkspaceTypes, Standing, Shown

\* The user asks for a transition, which settles nothing.
LEMMA AskOwned ==
    ASSUME WorkspaceAssumption, OwnedInv, NEW item \in ItemType, Enqueue(item), item.op \in {"switch", "next", "previous", "close"},
           item.op = "close" => item.tab # Nothing,
           UNCHANGED <<workspace, requests, adoptions, conditions>>, closes' \in 0 .. MaxCloses
    PROVE  OwnedInv'
<1>1. ItemOK(item, workspace, requests)
    BY DEF ItemOK
<1>2. Kind(item.op) # "ownership" /\ item.op # "rollback"
    BY DEF Kind
<1>3. \A i \in Ids(workspace) : TabOf(workspace, i).doc # Nothing =>
          DocOK(i, TabOf(workspace, i).doc, run, queue, requests, adoptions)
    BY DEF OwnedInv, Standing, DocsOK
<1>4. /\ run' \in RunType /\ queue' \in Seq(ItemType)
      /\ Standing(workspace, run', queue', requests, adoptions)
    BY <1>1, <1>2, <1>3, OwnedParts, EnqueueOwned
<1>5. WorkspaceTypes'
    BY <1>4 DEF OwnedInv, WorkspaceTypes
<1>6. workspace' = workspace /\ requests' = requests /\ adoptions' = adoptions
    OBVIOUS
<1>. QED
    BY <1>4, <1>5, <1>6 DEF OwnedInv

LEMMA UserOwned ==
    ASSUME WorkspaceAssumption, OwnedInv, User, UNCHANGED conditions
    PROVE  OwnedInv'
<1>1. closes \in 0 .. MaxCloses /\ MaxCloses \in Nat
    BY DEF OwnedInv, WorkspaceTypes, WorkspaceAssumption
<1>2. \A op \in {"switch", "next", "previous", "close"}, id \in Nat :
          LET item == Item(op, id, Nothing, Nothing) IN item \in ItemType /\ item.op = op /\ item.tab = id
    BY DEF Item, ItemType, Ops, Nothing
<1>3. \A id \in TabIds : id \in Nat /\ id # Nothing
    BY OwnedParts, IdFacts DEF TabIds, Ids
<1>4. ASSUME NEW id \in TabIds, SwitchTab(id) PROVE OwnedInv'
    <2>1. Enqueue(Item("switch", id, Nothing, Nothing)) /\ UNCHANGED <<workspace, requests, adoptions, closes>>
        BY <1>4 DEF SwitchTab
    <2>. QED
        BY <1>1, <1>2, <1>3, <2>1, AskOwned
<1>5. ASSUME NEW op \in {"next", "previous"}, SwitchAdjacentTab(op) PROVE OwnedInv'
    <2>1. Enqueue(Item(op, Nothing, Nothing, Nothing)) /\ UNCHANGED <<workspace, requests, adoptions, closes>>
        BY <1>5 DEF SwitchAdjacentTab
    <2>2. Nothing \in Nat
        BY DEF Nothing
    <2>. QED
        BY <1>1, <1>2, <2>1, <2>2, AskOwned
<1>6. ASSUME NEW id \in TabIds, CloseTab(id) PROVE OwnedInv'
    <2>1. Enqueue(Item("close", id, Nothing, Nothing)) /\ UNCHANGED <<workspace, requests, adoptions>>
          /\ closes' \in 0 .. MaxCloses
        BY <1>1, <1>6 DEF CloseTab
    <2>. QED
        BY <1>2, <1>3, <2>1, AskOwned
<1>. QED
    BY <1>4, <1>5, <1>6 DEF User

\* The neighbour of the selected tab.
LEMMA AdjacentFacts ==
    ASSUME NEW w, Shape(w), w.activeId \in Ids(w), NEW step \in Nat
    PROVE  AdjacentId(w, step) \in Ids(w)
<1> DEFINE n == Len(w.tabs)
           m == FindTabIndex(w, w.activeId) - 1 + step + n
<1>1. FindTabIndex(w, w.activeId) \in 1 .. n /\ n \in Nat /\ DOMAIN w.tabs = 1 .. n
    BY FindFacts DEF Shape
<1>2. m \in Nat /\ n >= 1
    BY <1>1
<1>3. AdjacentId(w, step) = w.tabs[(m % n) + 1].id
    BY DEF AdjacentId
<1> HIDE DEF m
<1>4. \A x, y \in Nat : y >= 1 => (x % y) + 1 \in 1 .. y
    OBVIOUS
<1> HIDE DEF n
<1>5. (m % n) + 1 \in 1 .. n
    BY <1>1, <1>2, <1>4, Zenon
<1>. QED
    BY <1>1, <1>3, <1>5 DEF Ids

LEMMA SwitchTargetIsId ==
    ASSUME OwnedInv
    PROVE  SwitchTarget \in Nat
<1>1. Len(workspace.tabs) \in Nat /\ Len(workspace.tabs) >= 1
    <2>1. Len(workspace.tabs) \in Nat /\ Len(workspace.tabs) # 0
        BY OwnedParts, CountFacts
    <2>. QED
        BY <2>1
<1>2. AdjacentId(workspace, 1) \in Nat
    BY OwnedParts, AdjacentFacts, IdFacts
<1>3. AdjacentId(workspace, Len(workspace.tabs) - 1) \in Nat
    <2>1. Len(workspace.tabs) - 1 \in Nat
        BY <1>1
    <2>. QED
        BY <2>1, OwnedParts, AdjacentFacts, IdFacts
<1>4. run.tab \in Nat
    BY OwnedParts DEF RunType
<1>. QED
    BY <1>2, <1>3, <1>4 DEF SwitchTarget

\* A switch goes on with tabs like those that were there.
LEMMA SwitchGoesOn ==
    ASSUME OwnedInv, Like(workspace, workspace'), workspace'.activeId \in Ids(workspace'), Unstaged(workspace),
           DocsOK(workspace, NoRun, queue, requests, adoptions),
           UNCHANGED <<requests, adoptions, closes, conditions>>, queue' = queue, run' \in RunType,
           run'.await \in {"entering", "last"}, run'.op = run.op, run.op \notin {"adopt", "close"}
    PROVE  OwnedInv'
<1>1. RunOK(run', queue, workspace', requests, adoptions')
    BY NoRunFacts DEF RunOK
<1>2. Shown(workspace') /\ TabsSound(workspace') /\ DocsKept(workspace, workspace') /\ Unstaged(workspace')
      /\ DocsOK(workspace', NoRun, queue, requests, adoptions)
    BY LikeFacts
<1>3. StagedHeld(workspace', run')
    BY <1>2 DEF Unstaged, StagedHeld
<1>4. adoptions' = adoptions
    OBVIOUS
<1>. QED
    BY <1>1, <1>2, <1>3, <1>4, OwnedParts, StayOwned

LEMMA SwitchStartsOwned ==
    ASSUME OwnedInv, SwitchStarts, UNCHANGED conditions
    PROVE  OwnedInv'
<1> DEFINE prior == workspace.activeId
           r == [run EXCEPT !.tab = SwitchTarget, !.prior = prior]
<1>1. run.await = "start" /\ run.op # "adopt" /\ run.op # "rollback" /\ run.op # "close"
      /\ UNCHANGED <<requests, adoptions, closes>>
    BY DEF SwitchStarts, Switching, Kind
<1>2. /\ r \in RunType /\ r.op = run.op /\ r.tab = SwitchTarget /\ r.prior = prior
    BY OwnedParts, SwitchTargetIsId DEF RunType
<1>3. Unstaged(workspace) /\ DocsOK(workspace, NoRun, queue, requests, adoptions)
    BY <1>1, NotStaged, FreeDocs
<1>4. \/ Await(r, "leaving") /\ UNCHANGED workspace
      \/ Done /\ UNCHANGED workspace
      \/ ActivateThen(workspace, r, "last")
    BY DEF SwitchStarts
<1> HIDE DEF r
<1>5. CASE Done /\ UNCHANGED workspace
    <2>1. workspace' = workspace
        BY <1>5
    <2>. QED
        BY <1>1, <1>3, <1>5, <2>1, OwnedParts, OverKept
<1>6. CASE Await(r, "leaving") /\ UNCHANGED workspace
    <2>1. run' \in RunType /\ run'.await = "leaving" /\ run'.op = run.op /\ run'.prior = prior /\ queue' = queue
        BY <1>2, <1>6 DEF Await, RunType, Awaits
    <2>2. RunOK(run', queue, workspace, requests, adoptions)
        BY <1>1, <2>1, NoRunFacts DEF RunOK
    <2>3. StagedHeld(workspace, run')
        BY <1>3 DEF Unstaged, StagedHeld
    <2>4. workspace' = workspace
        BY <1>6
    <2>. QED
        BY <1>1, <1>3, <2>1, <2>2, <2>3, <2>4, OwnedParts, StayOwned
<1>7. CASE ActivateThen(workspace, r, "last")
    <2>1. "last" \in Awaits
        BY DEF Awaits
    <2>2. /\ Like(workspace, workspace') /\ workspace'.activeId \in Ids(workspace')
          /\ queue' = queue /\ run' \in RunType /\ run'.await = "last" /\ run'.op = r.op
        BY <1>2, <1>7, <2>1, OwnedParts, ThenFacts
    <2>3. run'.op # "adopt" /\ run' # NoRun
        BY <1>1, <1>2, <2>2, NoRunFacts
    <2>. QED
        BY <1>1, <1>3, <2>2, <2>3, LikeFacts, LastOwned
<1>. QED
    BY <1>4, <1>5, <1>6, <1>7

\* A session was deactivated, or not: the tabs are like they were.
LEMMA LeftFacts ==
    ASSUME OwnedInv, NEW id \in Ids(workspace), NEW out \in DeactivationOutcomes(workspace, id)
    PROVE  /\ out.ok \in BOOLEAN /\ Like(workspace, out.w) /\ Shape(out.w)
           /\ out.w.activeId = workspace.activeId /\ out.w.activeId \in Ids(out.w)
    BY OwnedParts, DeactivationFacts DEF Resettled, Like

\* A session was activated, or not: the tabs are like they were.
LEMMA EnteredFacts ==
    ASSUME OwnedInv, NEW out \in ActivationOutcomes(workspace)
    PROVE  /\ out.ok \in BOOLEAN /\ Like(workspace, out.w) /\ Shape(out.w)
           /\ out.w.activeId = workspace.activeId /\ out.w.activeId \in Ids(out.w)
    BY OwnedParts, ActivationFacts DEF Resettled, Like

LEMMA SelectLike ==
    ASSUME NEW w, Shape(w), w.activeId \in Ids(w), NEW id
    PROVE  /\ Like(w, Select(w, id)) /\ Shape(Select(w, id)) /\ Select(w, id).activeId \in Ids(Select(w, id))
           /\ Select(w, id).activeId = IF id \in Ids(w) THEN id ELSE w.activeId
    BY SelectFacts DEF Like

LEMMA PriorLeftOwned ==
    ASSUME OwnedInv, PriorLeft, UNCHANGED conditions
    PROVE  OwnedInv'
<1>1. run.await = "leaving" /\ run.op # "adopt" /\ run.op # "close" /\ run.op # "rollback"
      /\ UNCHANGED <<requests, adoptions, closes>>
    BY DEF PriorLeft, Switching, Kind
<1>2. run.prior = workspace.activeId
    BY <1>1, OwnedParts DEF RunOK
<1>3. Unstaged(workspace) /\ DocsOK(workspace, NoRun, queue, requests, adoptions)
    BY <1>1, NotStaged, FreeDocs
<1>4. PICK out \in DeactivationOutcomes(workspace, run.prior) :
          IF ~out.ok THEN Done /\ workspace' = out.w
          ELSE ActivateThen(Select(out.w, run.tab), run, IF Has(out.w, run.tab) THEN "entering" ELSE "last")
    BY DEF PriorLeft
<1>5. /\ Like(workspace, out.w) /\ Shape(out.w) /\ out.w.activeId \in Ids(out.w)
    BY <1>2, OwnedParts, LeftFacts
<1>6. CASE ~out.ok
    <2>1. Done /\ workspace' = out.w
        BY <1>4, <1>6
    <2>. QED
        BY <1>1, <1>3, <1>5, <2>1, LikeFacts, OverKept
<1>7. CASE out.ok
    <2> DEFINE u == Select(out.w, run.tab)
               await == IF Has(out.w, run.tab) THEN "entering" ELSE "last"
    <2>1. ActivateThen(u, run, await) /\ await \in Awaits
        BY <1>4, <1>7 DEF Awaits
    <2>2. Like(out.w, u) /\ Shape(u) /\ u.activeId \in Ids(u)
        BY <1>5, SelectLike
    <2> HIDE DEF u
    <2>3. /\ Like(u, workspace') /\ workspace'.activeId \in Ids(workspace')
          /\ queue' = queue /\ run' \in RunType /\ run'.await = await /\ run'.op = run.op
        BY <2>1, <2>2, OwnedParts, ThenFacts
    <2>4. Like(workspace, workspace')
        BY <1>5, <2>2, <2>3, LikeTwice
    <2>5. run'.await \in {"entering", "last"}
        BY <2>3
    <2>. QED
        BY <1>1, <1>3, <2>3, <2>4, <2>5, SwitchGoesOn
<1>. QED
    BY <1>6, <1>7

LEMMA TargetEnteredOwned ==
    ASSUME OwnedInv, TargetEntered, UNCHANGED conditions
    PROVE  OwnedInv'
<1>1. run.await = "entering" /\ run.op # "adopt" /\ run.op # "close" /\ run.op # "rollback"
      /\ UNCHANGED <<requests, adoptions, closes>>
    BY DEF TargetEntered, Switching, Kind
<1>2. Unstaged(workspace) /\ DocsOK(workspace, NoRun, queue, requests, adoptions)
    BY <1>1, NotStaged, FreeDocs
<1>3. PICK out \in ActivationOutcomes(workspace) :
          IF out.ok THEN Done /\ workspace' = out.w
          ELSE ActivateThen(Select(out.w, run.prior), run, "last")
    BY DEF TargetEntered
<1>4. /\ Like(workspace, out.w) /\ Shape(out.w) /\ out.w.activeId \in Ids(out.w)
    BY EnteredFacts
<1>5. CASE out.ok
    <2>1. Done /\ workspace' = out.w
        BY <1>3, <1>5
    <2>. QED
        BY <1>1, <1>2, <1>4, <2>1, LikeFacts, OverKept
<1>6. CASE ~out.ok
    <2> DEFINE u == Select(out.w, run.prior)
    <2>1. ActivateThen(u, run, "last") /\ "last" \in Awaits
        BY <1>3, <1>6 DEF Awaits
    <2>2. Like(out.w, u) /\ Shape(u) /\ u.activeId \in Ids(u)
        BY <1>4, SelectLike
    <2> HIDE DEF u
    <2>3. /\ Like(u, workspace') /\ workspace'.activeId \in Ids(workspace')
          /\ queue' = queue /\ run' \in RunType /\ run'.await = "last" /\ run'.op = run.op
        BY <2>1, <2>2, OwnedParts, ThenFacts
    <2>4. Like(workspace, workspace')
        BY <1>4, <2>2, <2>3, LikeTwice
    <2>. QED
        BY <1>1, <1>2, <2>3, <2>4, SwitchGoesOn
<1>. QED
    BY <1>5, <1>6

LEMMA LastEndsOwned ==
    ASSUME OwnedInv, LastActivationEnds, UNCHANGED conditions
    PROVE  OwnedInv'
<1>1. run.await = "last" /\ Done /\ UNCHANGED <<requests, adoptions, closes>>
    BY DEF LastActivationEnds
<1>2. Unstaged(workspace) /\ DocsOK(workspace, NoRun, queue, requests, adoptions)
    BY <1>1, NotStaged, FreeDocs
<1>3. PICK out \in ActivationOutcomes(workspace) : workspace' = out.w
    BY DEF LastActivationEnds
<1>4. Like(workspace, workspace') /\ workspace'.activeId \in Ids(workspace')
    BY <1>3, EnteredFacts
<1>. QED
    BY <1>1, <1>2, <1>4, LikeFacts, OverKept
\* A tab was removed, or none; what is selected now begins to activate.
LEMMA ThenLastOwned ==
    ASSUME OwnedInv, NEW u, Shown(u), TabsSound(u), Unstaged(u), DocsKept(workspace, u),
           DocsOK(u, NoRun, queue, requests, adoptions), ActivateThen(u, run, "last"),
           run.op # "adopt", run.op # "close" \/ run.tab # Nothing,
           UNCHANGED <<requests, adoptions, closes, conditions>>
    PROVE  OwnedInv'
<1>1. "last" \in Awaits /\ Shape(u) /\ u.activeId \in Ids(u)
    BY DEF Awaits, Shown
<1>2. /\ Like(u, workspace') /\ workspace'.activeId \in Ids(workspace')
      /\ queue' = queue /\ run' \in RunType /\ run'.await = "last" /\ run'.op = run.op /\ run'.tab = run.tab
    BY <1>1, OwnedParts, ThenFacts
<1>3. /\ DocsKept(u, workspace') /\ TabsSound(workspace') /\ Unstaged(workspace') /\ Shown(workspace')
    BY <1>1, <1>2, LikeKeeps
<1>4. DocsOK(workspace', NoRun, queue, requests, adoptions)
    BY <1>3, DocumentsKept
<1>5. Shape(workspace) /\ Shape(workspace')
    BY <1>3, OwnedParts DEF Shown
<1>6. DocsKept(workspace, workspace')
    BY <1>1, <1>3, <1>5, KeptTwice
<1>7. run' # NoRun
    BY <1>2, NoRunFacts
<1>. QED
    BY <1>2, <1>3, <1>4, <1>6, <1>7, LastOwned

LEMMA CloseStartsOwned ==
    ASSUME WorkspaceAssumption, OwnedInv, CloseStarts, UNCHANGED conditions
    PROVE  OwnedInv'
<1> DEFINE u == Close(workspace, run.tab)
<1>1. run.await = "start" /\ run.op = "close" /\ UNCHANGED <<requests, adoptions, closes>>
    BY DEF CloseStarts
<1>2. run.tab # Nothing
    BY <1>1, OwnedParts DEF RunOK, ItemOK
<1>3. Unstaged(workspace) /\ DocsOK(workspace, NoRun, queue, requests, adoptions)
    BY <1>1, NotStaged, FreeDocs
<1>4. Shown(u) /\ TabsSound(u) /\ DocsKept(workspace, u) /\ Unstaged(u)
    <2>1. CASE run.tab \notin Ids(workspace)
        <3>1. u = workspace
            BY <2>1, OwnedParts, CloseFacts
        <3>. QED
            BY <1>3, <3>1, OwnedParts
    <2>2. CASE run.tab \in Ids(workspace)
        <3>1. Removed(workspace, u, run.tab)
            BY <2>2, OwnedParts, CloseFacts
        <3>2. MaximumTabs \in Nat /\ MaximumTabs >= 1
            BY DEF WorkspaceAssumption
        <3> HIDE DEF u
        <3>3. Shown(u) /\ TabsSound(u) /\ DocsKept(workspace, u)
            BY <3>1, <3>2, OwnedParts, RemovedKeeps
        <3>4. Unstaged(u)
            BY <1>3, <3>1, RemovedUnstaged DEF Unstaged
        <3>. QED
            BY <3>3, <3>4
    <2>. QED
        BY <2>1, <2>2
<1>5. DocsOK(u, NoRun, queue, requests, adoptions)
    BY <1>3, <1>4, DocumentsKept
<1>6. ActivateThen(u, run, "last") \/ (Done /\ workspace' = u)
    BY DEF CloseStarts
<1> HIDE DEF u
<1>7. CASE ActivateThen(u, run, "last")
    BY <1>1, <1>2, <1>4, <1>5, <1>7, ThenLastOwned
<1>8. CASE Done /\ workspace' = u
    BY <1>1, <1>4, <1>5, <1>8, OverKept
<1>. QED
    BY <1>6, <1>7, <1>8

LEMMA SettleStartsOwned ==
    ASSUME WorkspaceAssumption, OwnedInv, SettleStarts, UNCHANGED conditions
    PROVE  OwnedInv'
<1>1. run.await = "start" /\ run.op \in {"accept", "rollback"} /\ UNCHANGED <<requests, adoptions, closes>>
    BY DEF SettleStarts
<1>2. Unstaged(workspace)
    BY <1>1, NotStaged
<1>3. CASE run.op = "accept"
    <2>1. ActivateThen(workspace, run, "last")
        BY <1>3 DEF SettleStarts
    <2>2. DocsOK(workspace, NoRun, queue, requests, adoptions)
        BY <1>1, <1>3, FreeDocs
    <2>. QED
        BY <1>1, <1>2, <1>3, <2>1, <2>2, OwnedParts, ThenLastOwned
<1>4. CASE run.op = "rollback"
    <2> DEFINE u == RollbackOwnership(workspace, run.tab, run.prior)
    <2>1. ActivateThen(u, run, "last")
        BY <1>4 DEF SettleStarts
    <2>2. /\ run.tab \in Ids(workspace) => Removed(workspace, u, run.tab)
          /\ run.tab \notin Ids(workspace) => Like(workspace, u) /\ u.activeId \in Ids(u)
        BY OwnedParts, RollbackFacts
    <2>3. MaximumTabs \in Nat /\ MaximumTabs >= 1
        BY DEF WorkspaceAssumption
    <2> HIDE DEF u
    <2>4. Shown(u) /\ TabsSound(u) /\ DocsKept(workspace, u) /\ Unstaged(u)
        <3>1. CASE run.tab \notin Ids(workspace)
            BY <1>2, <2>2, <3>1, LikeFacts
        <3>2. CASE run.tab \in Ids(workspace)
            <4>1. Shown(u) /\ TabsSound(u) /\ DocsKept(workspace, u)
                BY <2>2, <2>3, <3>2, OwnedParts, RemovedKeeps
            <4>2. Unstaged(u)
                BY <1>2, <2>2, <3>2, RemovedUnstaged DEF Unstaged
            <4>. QED
                BY <4>1, <4>2
        <3>. QED
            BY <3>1, <3>2
    <2>5. ASSUME NEW i \in Ids(u), TabOf(u, i).doc # Nothing
          PROVE  i \in Ids(workspace) /\ i # run.tab /\ TabOf(u, i).doc = TabOf(workspace, i).doc
        <3>1. CASE run.tab \notin Ids(workspace)
            BY <2>2, <3>1 DEF Like
        <3>2. CASE run.tab \in Ids(workspace)
            BY <2>2, <2>5, <3>2 DEF Removed, Emptied
        <3>. QED
            BY <3>1, <3>2
    <2>6. DocsOK(u, NoRun, queue, requests, adoptions)
        <3>1. ASSUME NEW i \in Ids(u), TabOf(u, i).doc # Nothing
              PROVE  DocOK(i, TabOf(u, i).doc, NoRun, queue, requests, adoptions)
            <4>1. DocOK(i, TabOf(u, i).doc, run, queue, requests, adoptions)
                BY <2>5, <3>1 DEF OwnedInv, Standing, DocsOK
            <4>2. i # run.tab
                BY <2>5, <3>1
            <4>. QED
                BY <1>1, <4>1, <4>2 DEF DocOK, Rolling
        <3>. QED
            BY <3>1 DEF DocsOK
    <2>. QED
        BY <1>1, <1>4, <2>1, <2>4, <2>6, ThenLastOwned
<1>. QED
    BY <1>1, <1>3, <1>4

-----------------------------------------------------------------------------
(* The adoption                                                              *)

LEMMA AdoptRunFacts ==
    ASSUME OwnedInv, run.op = "adopt"
    PROVE  /\ run.req \in Requests /\ requests[run.req] = "adopting" /\ Bare(queue)
           /\ \A s \in Requests : s \in Flying(requests) => s = run.req
           /\ \A s \in Requests : requests[s] \notin {"ack", "reject"}
<1>1. run.req \in Requests /\ requests[run.req] = "adopting" /\ Bare(queue)
    BY OwnedParts DEF RunOK
<1>2. \A s \in Requests : s \in Flying(requests) => s = run.req
    BY <1>1, OwnedParts DEF AdoptionsOK, Flying
<1>3. \A s \in Requests : requests[s] \notin {"ack", "reject"}
    BY <1>1, <1>2 DEF Flying
<1>. QED
    BY <1>1, <1>2, <1>3

\* The adoption is given up: its request is to be rejected, and nothing is left to undo.
LEMMA AdoptionFailsOwned ==
    ASSUME OwnedInv, run.op = "adopt", run.await \notin {"entering", "opening", "presenting"},
           NEW w, Like(workspace, w), w.activeId \in Ids(w), AdoptionFails(w), UNCHANGED <<closes, conditions>>
    PROVE  OwnedInv'
<1>1. /\ run.req \in Requests /\ requests[run.req] = "adopting" /\ Bare(queue)
      /\ \A s \in Requests : s \in Flying(requests) => s = run.req
      /\ \A s \in Requests : requests[s] \notin {"ack", "reject"}
    BY AdoptRunFacts
<1>2. /\ workspace' = w /\ Done
      /\ adoptions' = [adoptions EXCEPT ![run.req] = NoAdoption]
      /\ requests' = [requests EXCEPT ![run.req] = "reject"]
    BY DEF AdoptionFails
<1>3. NoAdoption \in AdoptionType /\ NoAdoption.id = Nothing /\ Nothing = 0
    BY DEF NoAdoption, AdoptionType, Nothing
<1>4. requests' \in [Requests -> RequestState] /\ adoptions' \in [Requests -> AdoptionType]
    BY <1>2, <1>3, OwnedParts DEF RequestState
<1>5. \A s \in Requests : /\ requests'[s] = IF s = run.req THEN "reject" ELSE requests[s]
                          /\ adoptions'[s] = IF s = run.req THEN NoAdoption ELSE adoptions[s]
    BY <1>2, OwnedParts
<1>6. Unstaged(workspace) /\ DocsOK(workspace, NoRun, queue, requests, adoptions)
    BY NotStaged, FreeDocs
<1>7. /\ Shown(w) /\ TabsSound(w) /\ DocsKept(workspace, w) /\ Unstaged(w) /\ Shape(w)
      /\ DocsOK(w, NoRun, queue, requests, adoptions)
    BY <1>6, LikeFacts DEF Shown
<1>8. QueueOK(queue, w, requests')
    <2>1. RequestsKept(queue, requests, requests')
        BY <1>1, <1>5 DEF RequestsKept
    <2>. QED
        BY <1>7, <2>1, OwnedParts, QueueKept
<1>9. AdoptionsOK(adoptions', queue, w, requests')
    <2>1. AdoptionsOK(adoptions, queue, w, requests)
        BY <1>7, OwnedParts, AdoptionsKept
    <2>2. \A s \in Requests : s \in Flying(requests') => s = run.req
        BY <1>1, <1>5 DEF Flying
    <2>3. \A s \in Requests : s \notin Flying(requests') => adoptions'[s].id = Nothing
        BY <1>1, <1>3, <1>5, <2>1 DEF Flying, AdoptionsOK
    <2>4. w.nextId \in Nat /\ 0 < w.nextId
        BY <1>7 DEF Shape
    <2>5. \A s \in Requests : adoptions'[s].id < w.nextId
        BY <1>3, <1>5, <2>1, <2>4 DEF AdoptionsOK
    <2>6. \A s \in Requests : requests'[s] \in {"ack", "reject"} => adoptions'[s].id = Nothing
        BY <1>1, <1>3, <1>5
    <2>7. \A s, t \in Flying(requests') : s = t
        BY <2>2 DEF Flying
    <2>. QED
        BY <2>3, <2>5, <2>6, <2>7 DEF AdoptionsOK
<1>10. DocsOK(w, NoRun, queue, requests', adoptions')
    <2>1. ASSUME NEW i \in Ids(w), TabOf(w, i).doc # Nothing
          PROVE  DocOK(i, TabOf(w, i).doc, NoRun, queue, requests', adoptions')
        <3>1. TabOf(w, i).doc \in Requests
            BY <1>7, <2>1, IdFacts DEF Tab
        <3>2. DocOK(i, TabOf(w, i).doc, NoRun, queue, requests, adoptions)
            BY <1>7, <2>1 DEF DocsOK
        <3>. QED
            BY <1>1, <1>5, <3>1, <3>2 DEF DocOK
    <2>. QED
        BY <2>1 DEF DocsOK
<1>11. Ready(workspace', queue, requests', adoptions')
    BY <1>2, <1>7, <1>8, <1>9, <1>10 DEF Ready
<1>. QED
    BY <1>2, <1>4, <1>11, OverOwned
LEMMA AdoptStartsOwned ==
    ASSUME OwnedInv, AdoptStarts, UNCHANGED conditions
    PROVE  OwnedInv'
<1> DEFINE prior == workspace.activeId
           r(tab) == [run EXCEPT !.tab = tab, !.prior = prior]
<1>1. run.await = "start" /\ run.op = "adopt" /\ UNCHANGED <<requests, closes>>
    BY DEF AdoptStarts
<1>2. /\ run.req \in Requests /\ requests[run.req] = "adopting" /\ Bare(queue)
    BY <1>1, AdoptRunFacts
<1>3. Unstaged(workspace) /\ DocsOK(workspace, NoRun, queue, requests, adoptions)
    BY <1>1, NotStaged, FreeDocs
<1>4. \A tab \in Nat : /\ r(tab) \in RunType /\ r(tab).op = run.op /\ r(tab).tab = tab /\ r(tab).prior = prior
                       /\ r(tab).req = run.req
    BY OwnedParts DEF RunType
<1>5. \/ /\ TabOf(workspace, prior).doc # Nothing
         /\ Await(r(Nothing), "leaving") /\ UNCHANGED <<workspace, adoptions>>
      \/ /\ TabOf(workspace, prior).doc = Nothing
         /\ ActivateThen(workspace, r(prior), "entering")
         /\ adoptions' = [adoptions EXCEPT ![run.req] = Adoption(prior, prior)]
    BY DEF AdoptStarts
<1>6. Nothing \in Nat /\ "leaving" \in Awaits /\ "entering" \in Awaits
    BY DEF Nothing, Awaits
<1> HIDE DEF r
<1>7. CASE /\ TabOf(workspace, prior).doc # Nothing
           /\ Await(r(Nothing), "leaving") /\ UNCHANGED <<workspace, adoptions>>
    <2>1. /\ run' \in RunType /\ run'.await = "leaving" /\ run'.op = "adopt" /\ run'.prior = prior
          /\ run'.req = run.req /\ queue' = queue
        BY <1>1, <1>4, <1>6, <1>7 DEF Await, RunType
    <2>2. RunOK(run', queue, workspace, requests, adoptions)
        BY <1>2, <1>7, <2>1, NoRunFacts DEF RunOK
    <2>3. StagedHeld(workspace, run')
        BY <1>3 DEF Unstaged, StagedHeld
    <2>4. workspace' = workspace /\ adoptions' = adoptions
        BY <1>7
    <2>. QED
        BY <1>1, <1>3, <2>1, <2>2, <2>3, <2>4, OwnedParts, StayOwned
<1>8. CASE /\ TabOf(workspace, prior).doc = Nothing
           /\ ActivateThen(workspace, r(prior), "entering")
           /\ adoptions' = [adoptions EXCEPT ![run.req] = Adoption(prior, prior)]
    <2>1. prior \in Nat /\ prior < workspace.nextId /\ r(prior) \in RunType
        BY <1>4, OwnedParts, IdFacts
    <2>2. /\ Like(workspace, workspace') /\ workspace'.activeId = prior /\ workspace'.activeId \in Ids(workspace')
          /\ queue' = queue /\ run' \in RunType /\ run'.await = "entering" /\ run'.op = "adopt" /\ run'.tab = prior
          /\ run'.req = run.req
        BY <1>1, <1>4, <1>6, <1>8, <2>1, OwnedParts, ThenFacts
    <2>3. /\ Shown(workspace') /\ TabsSound(workspace') /\ DocsKept(workspace, workspace') /\ Unstaged(workspace')
          /\ DocsOK(workspace', NoRun, queue, requests, adoptions)
        BY <1>3, <2>2, LikeFacts
    <2>4. Adoption(prior, prior) \in AdoptionType /\ Adoption(prior, prior).id = prior
        BY <2>1 DEF Adoption, AdoptionType
    <2>5. /\ adoptions' \in [Requests -> AdoptionType]
          /\ \A s \in Requests : adoptions'[s] = IF s = run.req THEN Adoption(prior, prior) ELSE adoptions[s]
        BY <1>8, <2>4, OwnedParts
    <2>6. adoptions'[run.req].id = prior
        BY <1>2, <2>4, <2>5
    <2>7. prior < workspace'.nextId
        BY <2>1, <2>2 DEF Like
    <2>8. \A s \in Requests : \/ adoptions'[s] = adoptions[s]
                              \/ run.op = "adopt" /\ s = run.req /\ adoptions'[s].id < workspace'.nextId
        BY <1>1, <2>5, <2>6, <2>7
    <2>9. TabOf(workspace', prior).doc = Nothing
        BY <1>8, <2>2, OwnedParts DEF Like
    <2>10. RunOK(run', queue, workspace', requests, adoptions')
        BY <1>2, <2>2, <2>6, <2>9, NoRunFacts DEF RunOK
    <2>11. StagedHeld(workspace', run')
        BY <2>3 DEF Unstaged, StagedHeld
    <2>. QED
        BY <1>1, <2>2, <2>3, <2>5, <2>8, <2>10, <2>11, StayOwned
<1>. QED
    BY <1>5, <1>7, <1>8

\* A staged tab is added when there is room.
LEMMA StageOwned ==
    ASSUME WorkspaceAssumption, OwnedInv, run.op = "adopt", run.await = "leaving", NEW u, Like(workspace, u),
           u.activeId = workspace.activeId, ~AtCapacity(u),
           ActivateThen(StageAdoption(u), [run EXCEPT !.tab = StageAdoption(u).activeId], "entering"),
           adoptions' = [adoptions EXCEPT ![run.req] = Adoption(StageAdoption(u).activeId, run.prior)],
           UNCHANGED <<requests, closes, conditions>>
    PROVE  OwnedInv'
<1> DEFINE w == StageAdoption(u)
           id == u.nextId
           r == [run EXCEPT !.tab = id]
<1>1. /\ run.req \in Requests /\ requests[run.req] = "adopting" /\ Bare(queue)
    BY AdoptRunFacts
<1>2. Unstaged(workspace) /\ DocsOK(workspace, NoRun, queue, requests, adoptions)
    BY NotStaged, FreeDocs
<1>3. run.prior = workspace.activeId /\ TabOf(workspace, run.prior).doc # Nothing
    BY OwnedParts DEF RunOK
<1>4. u.activeId \in Ids(u) /\ Shape(u) /\ u.activeId \in Nat
    BY OwnedParts DEF Like
<1>5. Shown(u) /\ TabsSound(u) /\ DocsKept(workspace, u) /\ Unstaged(u)
    BY <1>2, <1>4, LikeFacts
<1>6. /\ Shape(w) /\ Ids(w) = Ids(u) \cup {id} /\ Len(w.tabs) = Len(u.tabs) + 1
      /\ id \notin Ids(u) /\ id \in Nat /\ id # Nothing
      /\ w.activeId = id /\ w.nextId = id + 1
      /\ TabOf(w, id) = NewTab(u, TRUE, u.activeId)
      /\ \A j \in Ids(u) : TabOf(w, j) = TabOf(u, j)
    BY <1>4, AppendFacts DEF StageAdoption
<1>7. TabOf(w, id).doc = Nothing /\ TabOf(w, id).staged = TRUE
    BY <1>6 DEF NewTab
<1>8. ActivateThen(w, r, "entering") /\ adoptions' = [adoptions EXCEPT ![run.req] = Adoption(id, run.prior)]
    BY <1>6
<1>9. r \in RunType /\ r.op = run.op /\ r.tab = id /\ r.req = run.req
    BY <1>6, OwnedParts DEF RunType
<1> HIDE DEF w, r
<1>10. Shown(w)
    <2>1. Len(u.tabs) < MaximumTabs
        BY <1>4 DEF AtCapacity, Shape, WorkspaceAssumption
    <2>. QED
        BY <1>4, <1>6, <2>1 DEF Shown, Shape, WorkspaceAssumption
<1>11. TabsSound(w)
    <2>1. ASSUME NEW i \in Ids(w), TabOf(w, i).doc = Nothing, ~TabOf(w, i).staged PROVE FALSE
        <3>1. i \in Ids(u) /\ TabOf(u, i).doc = Nothing /\ ~TabOf(u, i).staged
            BY <1>6, <1>7, <2>1
        <3>2. Ids(u) = {i}
            BY <1>5, <3>1 DEF TabsSound
        <3>3. TabOf(u, u.activeId).doc # Nothing
            BY <1>3, OwnedParts DEF Like
        <3>. QED
            BY <1>4, <3>1, <3>2, <3>3
    <2>2. \A i \in Ids(w) : TabOf(w, i).staged => TabOf(w, i).doc = Nothing
        BY <1>5, <1>6, <1>7 DEF TabsSound
    <2>. QED
        BY <2>1, <2>2 DEF TabsSound
<1>12. /\ Like(w, workspace') /\ workspace'.activeId = id /\ workspace'.activeId \in Ids(workspace')
       /\ queue' = queue /\ run' \in RunType /\ run'.await = "entering" /\ run'.op = "adopt" /\ run'.tab = id
       /\ run'.req = run.req
    <2>1. "entering" \in Awaits /\ w.activeId \in Ids(w)
        BY <1>6 DEF Awaits
    <2>. QED
        BY <1>6, <1>8, <1>9, <2>1, OwnedParts, ThenFacts
<1>13. /\ Shown(workspace') /\ TabsSound(workspace') /\ DocsKept(w, workspace')
       /\ \A x : StagedHeld(w, x) => StagedHeld(workspace', x)
    BY <1>6, <1>10, <1>11, <1>12, LikeKeeps
<1>14. DocsKept(workspace, w)
    <2>1. workspace.nextId = id
        BY DEF Like
    <2>2. \A i \in Ids(w) : \/ i \in Ids(workspace) /\ TabOf(w, i).doc = TabOf(workspace, i).doc
                            \/ i = id /\ TabOf(w, i).doc = Nothing
        BY <1>6, <1>7 DEF Like
    <2>. QED
        BY <1>6, <2>1, <2>2 DEF DocsKept
<1>15. DocsKept(workspace, workspace')
    BY <1>6, <1>13, <1>14, OwnedParts, KeptTwice DEF Shown
<1>16. DocsOK(workspace', NoRun, queue, requests, adoptions)
    BY <1>2, <1>15, DocumentsKept
<1>17. StagedHeld(workspace', run')
    <2>1. StagedHeld(w, run')
        BY <1>5, <1>6, <1>12 DEF StagedHeld, Unstaged
    <2>. QED
        BY <1>13, <2>1
<1>18. Adoption(id, run.prior) \in AdoptionType /\ Adoption(id, run.prior).id = id
    BY <1>6, OwnedParts DEF Adoption, AdoptionType, RunType
<1>19. /\ adoptions' \in [Requests -> AdoptionType]
       /\ \A s \in Requests : adoptions'[s] = IF s = run.req THEN Adoption(id, run.prior) ELSE adoptions[s]
    BY <1>8, <1>18, OwnedParts
<1>20. adoptions'[run.req].id = id
    BY <1>1, <1>18, <1>19
<1>21. id < workspace'.nextId
    BY <1>6, <1>12 DEF Like
<1>22. \A s \in Requests : \/ adoptions'[s] = adoptions[s]
                           \/ run.op = "adopt" /\ s = run.req /\ adoptions'[s].id < workspace'.nextId
    BY <1>19, <1>20, <1>21
<1>23. TabOf(workspace', id).doc = Nothing
    BY <1>6, <1>7, <1>12 DEF Like
<1>24. RunOK(run', queue, workspace', requests, adoptions')
    BY <1>1, <1>12, <1>20, <1>23, NoRunFacts DEF RunOK
<1>. QED
    BY <1>12, <1>13, <1>15, <1>16, <1>17, <1>19, <1>22, <1>24, StayOwned

\* The prior tab is activated again; what the adoption had made is gone.
LEMMA UndoneOwned ==
    ASSUME OwnedInv, run.op = "adopt", run.await # "presenting",
           NEW u, Shown(u), TabsSound(u), Unstaged(u), DocsKept(workspace, u), ActivateThen(u, run, "undone"),
           adoptions' \in {adoptions, [adoptions EXCEPT ![run.req] = NoAdoption]},
           UNCHANGED <<requests, closes, conditions>>
    PROVE  OwnedInv'
<1>1. /\ run.req \in Requests /\ requests[run.req] = "adopting" /\ Bare(queue)
    BY AdoptRunFacts
<1>2. DocsOK(workspace, NoRun, queue, requests, adoptions)
    BY FreeDocs
<1>3. "undone" \in Awaits /\ Shape(u) /\ u.activeId \in Ids(u)
    BY DEF Awaits, Shown
<1>4. /\ Like(u, workspace') /\ workspace'.activeId \in Ids(workspace')
      /\ queue' = queue /\ run' \in RunType /\ run'.await = "undone" /\ run'.op = "adopt" /\ run'.req = run.req
    BY <1>3, OwnedParts, ThenFacts
<1>5. /\ DocsKept(u, workspace') /\ TabsSound(workspace') /\ Unstaged(workspace') /\ Shown(workspace')
    BY <1>3, <1>4, LikeKeeps
<1>6. DocsKept(workspace, workspace')
    BY <1>3, <1>5, OwnedParts, KeptTwice DEF Shown
<1>7. DocsOK(workspace', NoRun, queue, requests, adoptions)
    BY <1>2, <1>6, DocumentsKept
<1>8. StagedHeld(workspace', run')
    BY <1>5 DEF Unstaged, StagedHeld
<1>9. NoAdoption \in AdoptionType /\ NoAdoption.id = 0
    BY DEF NoAdoption, AdoptionType, Nothing
<1>10. /\ adoptions' \in [Requests -> AdoptionType]
       /\ \A s \in Requests : adoptions'[s] = adoptions[s] \/ (s = run.req /\ adoptions'[s] = NoAdoption)
    BY <1>9, OwnedParts
<1>11. workspace'.nextId \in Nat /\ 0 < workspace'.nextId
    BY <1>5 DEF Shown, Shape
<1>12. \A s \in Requests : \/ adoptions'[s] = adoptions[s]
                           \/ run.op = "adopt" /\ s = run.req /\ adoptions'[s].id < workspace'.nextId
    BY <1>9, <1>10, <1>11
<1>13. RunOK(run', queue, workspace', requests, adoptions')
    BY <1>1, <1>4, NoRunFacts DEF RunOK
<1>. QED
    BY <1>4, <1>5, <1>6, <1>7, <1>8, <1>10, <1>12, <1>13, StayOwned

LEMMA AdoptLeftOwned ==
    ASSUME WorkspaceAssumption, OwnedInv, AdoptLeft, UNCHANGED conditions
    PROVE  OwnedInv'
<1>1. run.await = "leaving" /\ run.op = "adopt" /\ UNCHANGED closes
    BY DEF AdoptLeft
<1>2. run.prior = workspace.activeId
    BY <1>1, OwnedParts DEF RunOK
<1>3. PICK out \in DeactivationOutcomes(workspace, run.prior) :
          \/ ~out.ok /\ AdoptionFails(out.w)
          \/ /\ out.ok /\ AtCapacity(out.w)
             /\ ActivateThen(out.w, run, "undone")
             /\ UNCHANGED <<requests, adoptions>>
          \/ /\ out.ok /\ ~AtCapacity(out.w)
             /\ ActivateThen(StageAdoption(out.w), [run EXCEPT !.tab = StageAdoption(out.w).activeId], "entering")
             /\ adoptions' = [adoptions EXCEPT ![run.req] = Adoption(StageAdoption(out.w).activeId, run.prior)]
             /\ UNCHANGED requests
    BY DEF AdoptLeft
<1>4. /\ Like(workspace, out.w) /\ Shape(out.w) /\ out.w.activeId = workspace.activeId /\ out.w.activeId \in Ids(out.w)
    BY <1>2, OwnedParts, LeftFacts
<1>5. CASE AdoptionFails(out.w)
    BY <1>1, <1>4, <1>5, AdoptionFailsOwned
<1>6. CASE ActivateThen(out.w, run, "undone") /\ UNCHANGED <<requests, adoptions>>
    <2>1. Unstaged(workspace)
        BY <1>1, NotStaged
    <2>2. Shown(out.w) /\ TabsSound(out.w) /\ Unstaged(out.w) /\ DocsKept(workspace, out.w)
        BY <1>4, <2>1, LikeFacts
    <2>. QED
        BY <1>1, <1>6, <2>2, UndoneOwned
<1>7. CASE /\ ~AtCapacity(out.w)
           /\ ActivateThen(StageAdoption(out.w), [run EXCEPT !.tab = StageAdoption(out.w).activeId], "entering")
           /\ adoptions' = [adoptions EXCEPT ![run.req] = Adoption(StageAdoption(out.w).activeId, run.prior)]
           /\ UNCHANGED requests
    BY <1>1, <1>4, <1>7, StageOwned
<1>. QED
    BY <1>3, <1>5, <1>6, <1>7
LEMMA UndoOwned ==
    ASSUME WorkspaceAssumption, OwnedInv, run.op = "adopt", run.await \in {"entering", "opening"},
           NEW w, Like(workspace, w), w.activeId = workspace.activeId, Undo(w), UNCHANGED <<closes, conditions>>
    PROVE  OwnedInv'
<1> DEFINE id == run.tab
           u == IF TabOf(w, id).staged THEN RollbackAdoption(w, id) ELSE w
<1>1. id = workspace.activeId /\ TabOf(workspace, id).doc = Nothing
    BY OwnedParts DEF RunOK
<1>2. id \in Ids(workspace) /\ id \in Ids(w) /\ Shape(w) /\ w.activeId \in Ids(w)
    BY <1>1, OwnedParts DEF Like
<1>3. Shown(w) /\ TabsSound(w) /\ DocsKept(workspace, w) /\ StagedHeld(w, run)
    BY <1>2, OwnedParts, LikeFacts
<1>4. /\ adoptions' = [adoptions EXCEPT ![run.req] = NoAdoption] /\ UNCHANGED requests
      /\ ActivateThen(u, run, "undone")
    BY DEF Undo
<1>5. \A i \in Ids(w) : i # id => TabOf(w, i).staged = FALSE
    <2>1. \A i \in Ids(w) : TabOf(w, i).staged \in BOOLEAN
        BY <1>2, IdFacts DEF Tab
    <2>2. \A i \in Ids(w) : i # id => ~TabOf(w, i).staged
        BY <1>3 DEF StagedHeld
    <2>. QED
        BY <2>1, <2>2
<1>6. Shown(u) /\ TabsSound(u) /\ Unstaged(u) /\ DocsKept(workspace, u)
    <2>1. CASE TabOf(w, id).staged
        <3>1. u = SelectAfterRemoval(Without(w, id), FindTabIndex(w, id), TabOf(w, id).previousActiveId)
            BY <2>1 DEF RollbackAdoption
        <3>2. TabOf(w, id).previousActiveId \in Nat
            BY <1>2, IdFacts DEF Tab
        <3>3. Removed(w, u, id)
            BY <1>2, <3>1, <3>2, RemovedFacts
        <3>4. MaximumTabs \in Nat /\ MaximumTabs >= 1
            BY DEF WorkspaceAssumption
        <3> HIDE DEF u
        <3>5. Shown(u) /\ TabsSound(u) /\ DocsKept(w, u)
            BY <1>3, <3>3, <3>4, RemovedKeeps
        <3>6. Unstaged(u)
            BY <1>5, <3>3, RemovedUnstaged
        <3>7. DocsKept(workspace, u)
            BY <1>2, <1>3, <3>5, OwnedParts, KeptTwice DEF Shown
        <3>. QED
            BY <3>5, <3>6, <3>7
    <2>2. CASE ~TabOf(w, id).staged
        <3>1. u = w
            BY <2>2
        <3>2. Unstaged(w)
            BY <1>3, <2>2, IdFacts, <1>2, Zenon DEF StagedHeld, Unstaged, Tab
        <3>. QED
            BY <1>3, <3>1, <3>2
    <2>. QED
        BY <2>1, <2>2
<1> HIDE DEF u
<1>. QED
    BY <1>4, <1>6, UndoneOwned

LEMMA AdoptEnteredOwned ==
    ASSUME WorkspaceAssumption, OwnedInv, AdoptEntered, UNCHANGED conditions
    PROVE  OwnedInv'
<1>1. run.await = "entering" /\ run.op = "adopt" /\ UNCHANGED closes
    BY DEF AdoptEntered
<1>2. PICK out \in ActivationOutcomes(workspace) :
          \/ Await(run, "opening") /\ workspace' = out.w /\ UNCHANGED <<requests, adoptions>>
          \/ Undo(out.w)
    BY DEF AdoptEntered
<1>3. /\ Like(workspace, out.w) /\ Shape(out.w) /\ out.w.activeId = workspace.activeId /\ out.w.activeId \in Ids(out.w)
    BY EnteredFacts
<1>4. CASE Undo(out.w)
    BY <1>1, <1>3, <1>4, UndoOwned
<1>5. CASE Await(run, "opening") /\ workspace' = out.w /\ UNCHANGED <<requests, adoptions>>
    <2>1. /\ run.req \in Requests /\ requests[run.req] = "adopting" /\ Bare(queue)
        BY <1>1, AdoptRunFacts
    <2>2. DocsOK(workspace, NoRun, queue, requests, adoptions)
        BY <1>1, FreeDocs
    <2>3. run.tab = workspace.activeId /\ TabOf(workspace, run.tab).doc = Nothing /\ adoptions[run.req].id = run.tab
        BY <1>1, OwnedParts DEF RunOK
    <2>4. /\ run' \in RunType /\ run'.await = "opening" /\ run'.op = "adopt" /\ run'.tab = run.tab
          /\ run'.req = run.req /\ queue' = queue
        BY <1>1, <1>5, OwnedParts DEF Await, RunType, Awaits
    <2>5. Shown(workspace') /\ TabsSound(workspace') /\ DocsKept(workspace, workspace') /\ StagedHeld(workspace', run)
          /\ DocsOK(workspace', NoRun, queue, requests, adoptions)
        BY <1>3, <1>5, <2>2, OwnedParts, LikeFacts
    <2>6. StagedHeld(workspace', run')
        BY <2>4, <2>5 DEF StagedHeld
    <2>7. TabOf(workspace', run.tab).doc = Nothing /\ workspace'.activeId = run.tab
        BY <1>3, <1>5, <2>3, OwnedParts DEF Like
    <2>8. RunOK(run', queue, workspace', requests, adoptions')
        BY <1>5, <2>1, <2>3, <2>4, <2>7, NoRunFacts DEF RunOK
    <2>. QED
        BY <1>1, <1>5, <2>4, <2>5, <2>6, <2>8, OwnedParts, StayOwned
<1>. QED
    BY <1>2, <1>4, <1>5

\* The document is put into its tab, which is committed.
\* The document is in the tab that was opened for it, which is committed.
LEMMA CommittedFacts ==
    ASSUME WorkspaceAssumption, OwnedInv, run.await = "opening"
    PROVE  LET id == run.tab
               u == CommitAdoption(WithTab(workspace, id, [TabOf(workspace, id) EXCEPT !.doc = run.req]), id) IN
           /\ Shape(u) /\ Ids(u) = Ids(workspace) /\ Len(u.tabs) = Len(workspace.tabs)
           /\ u.activeId = id /\ u.nextId = workspace.nextId /\ id \in Ids(workspace)
           /\ TabOf(u, id).doc = run.req /\ TabOf(u, id).staged = FALSE
           /\ TabOf(u, id).session = TabOf(workspace, id).session
           /\ \A j \in Ids(workspace) : j # id => TabOf(u, j) = TabOf(workspace, j)
<1> DEFINE id == run.tab
           tab == [TabOf(workspace, id) EXCEPT !.doc = run.req]
           w == WithTab(workspace, id, tab)
           kept == [TabOf(w, id) EXCEPT !.staged = FALSE]
           u == WithTab(w, id, kept)
<1>1. run.op = "adopt" /\ run.req \in Requests /\ id = workspace.activeId
    BY OwnedParts DEF RunOK
<1>2. id \in Ids(workspace) /\ TabOf(workspace, id) \in Tab /\ TabOf(workspace, id).id = id
    BY <1>1, OwnedParts, IdFacts
<1>3. tab \in Tab /\ tab.id = id /\ tab.doc = run.req /\ tab.session = TabOf(workspace, id).session
    BY <1>1, <1>2 DEF Tab
<1> HIDE DEF tab
<1>4. /\ Shape(w) /\ Ids(w) = Ids(workspace) /\ Len(w.tabs) = Len(workspace.tabs)
      /\ w.activeId = workspace.activeId /\ w.nextId = workspace.nextId
      /\ TabOf(w, id) = tab
      /\ \A j \in Ids(workspace) : j # id => TabOf(w, j) = TabOf(workspace, j)
    BY <1>2, <1>3, OwnedParts, WithTabFacts
<1>5. CommitAdoption(w, id) = u
    BY DEF CommitAdoption
<1> HIDE DEF w
<1>6. kept \in Tab /\ kept.id = id /\ kept.doc = run.req /\ kept.staged = FALSE /\ kept.session = tab.session
    BY <1>3, <1>4 DEF Tab
<1> HIDE DEF kept
<1>7. /\ Shape(u) /\ Ids(u) = Ids(w) /\ Len(u.tabs) = Len(w.tabs)
      /\ u.activeId = w.activeId /\ u.nextId = w.nextId
      /\ TabOf(u, id) = kept
      /\ \A j \in Ids(w) : j # id => TabOf(u, j) = TabOf(w, j)
    BY <1>2, <1>4, <1>6, WithTabFacts
<1> HIDE DEF u
<1>8. /\ Shape(u) /\ Ids(u) = Ids(workspace) /\ Len(u.tabs) = Len(workspace.tabs)
      /\ u.activeId = id /\ u.nextId = workspace.nextId
      /\ TabOf(u, id).doc = run.req /\ TabOf(u, id).staged = FALSE
      /\ TabOf(u, id).session = TabOf(workspace, id).session
      /\ \A j \in Ids(workspace) : j # id => TabOf(u, j) = TabOf(workspace, j)
    BY <1>1, <1>3, <1>4, <1>6, <1>7
<1>. QED
    BY <1>2, <1>5, <1>8 DEF w, tab

LEMMA DocumentOpenedOwned ==
    ASSUME WorkspaceAssumption, OwnedInv, DocumentOpened, UNCHANGED conditions
    PROVE  OwnedInv'
<1> DEFINE id == run.tab
           w == WithTab(workspace, id, [TabOf(workspace, id) EXCEPT !.doc = run.req])
           u == CommitAdoption(w, id)
<1>1. run.await = "opening" /\ UNCHANGED closes
    BY DEF DocumentOpened
<1>2. run.op = "adopt"
    BY <1>1, OwnedParts DEF RunOK
<1>3. \/ ActivateThen(u, run, "presenting") /\ UNCHANGED <<requests, adoptions>>
      \/ Undo(workspace)
    BY DEF DocumentOpened
<1>4. CASE Undo(workspace)
    BY <1>1, <1>2, <1>4, OwnedParts, UndoOwned
<1>5. CASE ActivateThen(u, run, "presenting") /\ UNCHANGED <<requests, adoptions>>
    <2>1. /\ run.req \in Requests /\ requests[run.req] = "adopting" /\ Bare(queue)
          /\ \A s \in Requests : requests[s] \notin {"ack", "reject"}
        BY <1>2, AdoptRunFacts
    <2>2. DocsOK(workspace, NoRun, queue, requests, adoptions)
        BY <1>1, FreeDocs
    <2>3. id = workspace.activeId /\ TabOf(workspace, id).doc = Nothing /\ adoptions[run.req].id = id
        BY <1>1, <1>2, OwnedParts DEF RunOK
    <2>4. run.req # Nothing
        BY <2>1 , OwnedParts DEF WorkspaceAssumption, Nothing
    <2>5. /\ Shape(u) /\ Ids(u) = Ids(workspace) /\ Len(u.tabs) = Len(workspace.tabs)
           /\ u.activeId = id /\ u.nextId = workspace.nextId /\ id \in Ids(workspace)
           /\ TabOf(u, id).doc = run.req /\ TabOf(u, id).staged = FALSE
           /\ \A j \in Ids(workspace) : j # id => TabOf(u, j) = TabOf(workspace, j)
        BY <1>1, CommittedFacts
    <2> HIDE DEF u
    <2>6. Shown(u)
        BY <2>5, OwnedParts DEF Shown
    <2>7. TabsSound(u)
        <3>1. ASSUME NEW i \in Ids(u), TabOf(u, i).doc = Nothing, ~TabOf(u, i).staged PROVE Ids(u) = {i}
            BY <2>4, <2>5, <3>1, OwnedParts DEF TabsSound
        <3>2. ASSUME NEW i \in Ids(u), TabOf(u, i).staged PROVE TabOf(u, i).doc = Nothing
            BY <2>5, <3>2, OwnedParts DEF TabsSound
        <3>. QED
            BY <3>1, <3>2 DEF TabsSound
    <2>8. Unstaged(u)
        <3>1. ASSUME NEW i \in Ids(workspace), i # id PROVE TabOf(workspace, i).staged = FALSE
            BY <3>1, OwnedParts, IdFacts, Zenon DEF StagedHeld, Tab
        <3>. QED
            BY <2>5, <3>1 DEF Unstaged
    <2>9. /\ Like(u, workspace') /\ workspace'.activeId = id /\ workspace'.activeId \in Ids(workspace')
           /\ queue' = queue /\ run' \in RunType /\ run'.await = "presenting" /\ run'.op = "adopt"
           /\ run'.tab = id /\ run'.req = run.req
        <3>1. "presenting" \in Awaits /\ u.activeId \in Ids(u)
            BY <2>6 DEF Awaits, Shown
        <3>. QED
            BY <1>2, <1>5, <2>5, <3>1, OwnedParts, ThenFacts
    <2>10. Shown(workspace') /\ TabsSound(workspace') /\ Unstaged(workspace') /\ Shape(workspace')
        BY <2>5, <2>6, <2>7, <2>8, <2>9, LikeKeeps DEF Shown
    <2>11. /\ Ids(workspace') = Ids(workspace) /\ TabOf(workspace', id).doc = run.req
           /\ workspace'.nextId = workspace.nextId
           /\ \A i \in Ids(workspace) : i # id => TabOf(workspace', i).doc = TabOf(workspace, i).doc
        BY <2>5, <2>9 DEF Like
    <2>12. QueueOK(queue, workspace', requests)
        <3>1. ASSUME NEW k \in DOMAIN queue PROVE ItemOK(queue[k], workspace', requests)
            <4>1. Kind(queue[k].op) # "ownership" /\ ItemOK(queue[k], workspace, requests)
                BY <2>1, OwnedParts DEF Bare, QueueOK
            <4>2. queue[k].op # "adopt" /\ queue[k].op # "rollback"
                BY <4>1 DEF Kind
            <4>. QED
                BY <4>1, <4>2 DEF ItemOK
        <3>. QED
            BY <3>1, OwnedParts DEF QueueOK
    <2>13. AdoptionsOK(adoptions, queue, workspace', requests)
        BY <2>1, <2>11, OwnedParts DEF AdoptionsOK
    <2>14. RunOK(run', queue, workspace', requests, adoptions)
        BY <2>1, <2>3, <2>9, <2>11, NoRunFacts DEF RunOK
    <2>15. StagedHeld(workspace', run')
        BY <2>10 DEF Unstaged, StagedHeld
    <2>16. DocsOK(workspace', run', queue, requests, adoptions)
        <3>1. ASSUME NEW i \in Ids(workspace'), TabOf(workspace', i).doc # Nothing
              PROVE  DocOK(i, TabOf(workspace', i).doc, run', queue, requests, adoptions)
            <4>1. CASE i = id
                BY <2>9, <2>11, <4>1 DEF DocOK
            <4>2. CASE i # id
                <5>1. DocsOK(workspace, run', queue, requests, adoptions)
                    BY <2>2, AnyRun
                <5>. QED
                    BY <2>11, <3>1, <4>2, <5>1 DEF DocsOK
            <4>. QED
                BY <4>1, <4>2
        <3>. QED
            BY <3>1 DEF DocsOK
    <2>17. queue' = queue /\ requests' = requests /\ adoptions' = adoptions
        BY <1>5, <2>9
    <2>18. Standing(workspace', run', queue', requests', adoptions')
        BY <2>10, <2>12, <2>13, <2>14, <2>15, <2>16, <2>17 DEF Standing
    <2>19. WorkspaceTypes'
        BY <1>1, <2>9, <2>17 DEF OwnedInv, WorkspaceTypes
    <2>. QED
        BY <2>18, <2>19 DEF OwnedInv
<1>. QED
    BY <1>3, <1>4, <1>5

LEMMA PresentedOwned ==
    ASSUME OwnedInv, Presented, UNCHANGED conditions
    PROVE  OwnedInv'
<1>1. run.await = "presenting" /\ Done /\ UNCHANGED <<adoptions, closes>>
    BY DEF Presented
<1>2. run.op = "adopt" /\ run.tab = workspace.activeId /\ TabOf(workspace, run.tab).doc = run.req
      /\ adoptions[run.req].id = run.tab
    BY <1>1, OwnedParts DEF RunOK
<1>3. /\ run.req \in Requests /\ requests[run.req] = "adopting" /\ Bare(queue)
      /\ \A s \in Requests : s \in Flying(requests) => s = run.req
      /\ \A s \in Requests : requests[s] \notin {"ack", "reject"}
    BY <1>2, AdoptRunFacts
<1>4. PICK out \in ActivationOutcomes(workspace) :
          /\ workspace' = out.w
          /\ requests' = [requests EXCEPT ![run.req] = IF out.ok THEN "ack" ELSE "reject"]
    BY DEF Presented
<1>5. PICK s \in {"ack", "reject"} : requests' = [requests EXCEPT ![run.req] = s]
    BY <1>4
<1>6. Like(workspace, workspace') /\ workspace'.activeId \in Ids(workspace')
    BY <1>4, EnteredFacts
<1>7. Unstaged(workspace)
    BY <1>1, NotStaged
<1>8. Shown(workspace') /\ TabsSound(workspace') /\ DocsKept(workspace, workspace') /\ Unstaged(workspace')
      /\ Shape(workspace')
    BY <1>6, <1>7, LikeFacts DEF Shown
<1>9. requests' \in [Requests -> RequestState]
      /\ \A r \in Requests : requests'[r] = IF r = run.req THEN s ELSE requests[r]
    BY <1>5, OwnedParts DEF RequestState
<1>10. QueueOK(queue, workspace', requests')
    <2>1. RequestsKept(queue, requests, requests')
        BY <1>3, <1>9 DEF RequestsKept
    <2>. QED
        BY <1>8, <2>1, OwnedParts, QueueKept
<1>11. AdoptionsOK(adoptions, queue, workspace', requests')
    <2>1. AdoptionsOK(adoptions, queue, workspace', requests)
        BY <1>8, OwnedParts, AdoptionsKept
    <2>2. \A r \in Requests : r \in Flying(requests') => r = run.req
        BY <1>3, <1>9 DEF Flying
    <2>3. \A r \in Requests : r \notin Flying(requests') => adoptions[r].id = Nothing
        BY <1>3, <1>9, <2>1 DEF Flying, AdoptionsOK
    <2>4. TabOf(workspace', run.tab).doc = run.req
        BY <1>2, <1>6, OwnedParts DEF Like
    <2>5. \A r \in Requests : requests'[r] \in {"ack", "reject"} => r = run.req
        BY <1>3, <1>9
    <2>6. \A r, t \in Flying(requests') : r = t
        BY <2>2 DEF Flying
    <2>. QED
        BY <1>2, <1>3, <2>1, <2>3, <2>4, <2>5, <2>6 DEF AdoptionsOK
<1>12. DocsOK(workspace', NoRun, queue, requests', adoptions)
    <2>1. DocsOK(workspace', run, queue, requests, adoptions)
        BY <1>8, DocumentsKept DEF OwnedInv, Standing
    <2>2. ASSUME NEW i \in Ids(workspace'), TabOf(workspace', i).doc # Nothing
          PROVE  DocOK(i, TabOf(workspace', i).doc, NoRun, queue, requests', adoptions)
        <3>1. TabOf(workspace', i).doc \in Requests
            BY <1>8, <2>2, IdFacts DEF Tab
        <3>2. DocOK(i, TabOf(workspace', i).doc, run, queue, requests, adoptions)
            BY <2>1, <2>2 DEF DocsOK
        <3>. QED
            BY <1>2, <1>3, <1>9, <3>1, <3>2 DEF DocOK, Rolling
    <2>. QED
        BY <2>2 DEF DocsOK
<1>13. adoptions' = adoptions
    BY <1>1
<1>14. Ready(workspace', queue, requests', adoptions')
    BY <1>8, <1>10, <1>11, <1>12, <1>13 DEF Ready
<1>. QED
    BY <1>1, <1>9, <1>13, <1>14, OwnedParts, OverOwned

LEMMA AdoptUndoneOwned ==
    ASSUME OwnedInv, AdoptUndone, UNCHANGED conditions
    PROVE  OwnedInv'
<1>1. run.await = "undone" /\ UNCHANGED closes
    BY DEF AdoptUndone
<1>2. run.op = "adopt"
    BY <1>1, OwnedParts DEF RunOK
<1>3. PICK out \in ActivationOutcomes(workspace) : AdoptionFails(out.w)
    BY DEF AdoptUndone
<1>4. Like(workspace, out.w) /\ out.w.activeId \in Ids(out.w)
    BY EnteredFacts
<1>. QED
    BY <1>1, <1>2, <1>3, <1>4, AdoptionFailsOwned
-----------------------------------------------------------------------------
(* The request client                                                       *)

\* If no request is being adopted, no transition adopts one.
LEMMA NobodyAdopts ==
    ASSUME OwnedInv, \A s \in Requests : requests[s] # "adopting"
    PROVE  run.op # "adopt" /\ \A k \in DOMAIN queue : queue[k].op # "adopt"
<1>1. run.op # "adopt"
    BY OwnedParts DEF RunOK
<1>2. \A k \in DOMAIN queue : queue[k].op # "adopt"
    BY OwnedParts DEF QueueOK, ItemOK
<1>. QED
    BY <1>1, <1>2

\* Request r changes while nothing adopts it, and no adoption is left to undo.
LEMMA RequestMoved ==
    ASSUME OwnedInv, NEW r \in Requests, NEW reqs \in [Requests -> RequestState], NEW ad \in [Requests -> AdoptionType],
           \A s \in Requests : requests[s] # "adopting", requests[r] # "refused",
           \A s \in Requests : s # r => reqs[s] = requests[s],
           \A s \in Requests : ad[s].id = Nothing,
           \A s, t \in Flying(reqs) : s = t
    PROVE  /\ QueueOK(queue, workspace, reqs) /\ RunOK(run, queue, workspace, reqs, ad)
           /\ AdoptionsOK(ad, queue, workspace, reqs)
<1>1. run.op # "adopt" /\ \A k \in DOMAIN queue : queue[k].op # "adopt"
    BY NobodyAdopts
<1>2. Shape(workspace) /\ queue \in Seq(ItemType) /\ run \in RunType
    BY OwnedParts
<1>3. DocsKept(workspace, workspace)
    BY <1>2, LikeItself, LikeKeeps
<1>4. \A s \in Requests : requests[s] = "refused" => reqs[s] = "refused"
    OBVIOUS
<1>5. RequestsKept(queue, requests, reqs)
    BY <1>4 DEF RequestsKept
<1>6. QueueOK(queue, workspace, requests) /\ RunOK(run, queue, workspace, requests, adoptions)
    BY OwnedParts
<1>7. QueueOK(queue, workspace, reqs)
    BY ONLY <1>2, <1>3, <1>5, <1>6, QueueKept
<1>8. run.tab \in Nat
    BY <1>2 DEF RunType
<1>9. ItemOK(run, workspace, requests) => ItemOK(run, workspace, reqs)
    BY ONLY <1>1, <1>2, <1>3, <1>4, <1>8, ItemKept
<1>10. RunOK(run, queue, workspace, reqs, ad)
    BY ONLY <1>1, <1>6, <1>9 DEF RunOK
<1>11. \A s \in Requests : ad[s].id < workspace.nextId
    BY <1>2 DEF Shape, Nothing
<1>12. AdoptionsOK(ad, queue, workspace, reqs)
    BY <1>11 DEF AdoptionsOK
<1>. QED
    BY <1>7, <1>10, <1>12

LEMMA AdoptOwned ==
    ASSUME WorkspaceAssumption, OwnedInv, NEW r \in Requests, Adopt(r), UNCHANGED conditions
    PROVE  OwnedInv'
<1> DEFINE w == workspace
           item == Item("adopt", Nothing, Nothing, r)
<1>1. /\ \A s \in Requests : requests[s] \notin {"adopting", "ack", "reject"}
      /\ requests[r] = "queued" /\ workspace' = workspace /\ closes' = closes
    BY DEF Adopt, InFlight, Unseen
<1>2. /\ requests \in [Requests -> RequestState] /\ adoptions \in [Requests -> AdoptionType]
      /\ queue \in Seq(ItemType) /\ run \in RunType
      /\ Shown(w) /\ TabsSound(w) /\ StagedHeld(w, run) /\ DocsOK(w, run, queue, requests, adoptions)
    BY OwnedParts DEF OwnedInv, Standing
<1>3. \A s \in Requests : adoptions[s].id = Nothing
    BY <1>1, OwnedParts DEF AdoptionsOK, Flying
<1>4. run.op # "adopt" /\ \A k \in DOMAIN queue : queue[k].op # "adopt"
    BY <1>1, NobodyAdopts
<1>5. ASSUME NEW reqs, NEW x \in {"adopting", "reject"}, reqs = [requests EXCEPT ![r] = x],
             NEW ad \in [Requests -> AdoptionType], \A s \in Requests : ad[s].id = Nothing
      PROVE  /\ reqs \in [Requests -> RequestState]
             /\ QueueOK(queue, w, reqs) /\ RunOK(run, queue, w, reqs, ad) /\ AdoptionsOK(ad, queue, w, reqs)
             /\ DocsOK(w, run, queue, reqs, ad)
    <2>1. reqs \in [Requests -> RequestState] /\ \A s \in Requests : s # r => reqs[s] = requests[s]
        BY <1>2, <1>5 DEF RequestState
    <2>2. \A s, t \in Flying(reqs) : s = t
        BY <1>1, <2>1 DEF Flying
    <2>3. QueueOK(queue, w, reqs) /\ RunOK(run, queue, w, reqs, ad) /\ AdoptionsOK(ad, queue, w, reqs)
        BY <1>1, <1>5, <2>1, <2>2, RequestMoved
    <2>4. ASSUME NEW i \in Ids(w), TabOf(w, i).doc # Nothing PROVE DocOK(i, TabOf(w, i).doc, run, queue, reqs, ad)
        <3> DEFINE d == TabOf(w, i).doc
        <3>1. d \in Requests /\ DocOK(i, d, run, queue, requests, adoptions)
            BY <1>2, <2>4, IdFacts DEF DocsOK, Tab, Shown
        <3> HIDE DEF d
        <3>2. requests[d] = "adopted" \/ Rolling(i, d, run, queue)
            BY <1>1, <1>4, <3>1 DEF DocOK
        <3>3. requests[d] = "adopted" => reqs[d] = "adopted"
            BY <1>1, <2>1, <3>1
        <3>4. DocOK(i, d, run, queue, reqs, ad)
            BY <3>2, <3>3 DEF DocOK
        <3>. QED
            BY <3>4 DEF d
    <2>. QED
        BY <2>1, <2>3, <2>4 DEF DocsOK
<1>6. CASE run # NoRun /\ Full("ownership")
    <2>1. requests' = [requests EXCEPT ![r] = "reject"] /\ queue' = queue /\ run' = run /\ adoptions' = adoptions
        BY <1>6 DEF Adopt
    <2>2. /\ requests' \in [Requests -> RequestState]
          /\ QueueOK(queue, w, requests') /\ RunOK(run, queue, w, requests', adoptions)
          /\ AdoptionsOK(adoptions, queue, w, requests') /\ DocsOK(w, run, queue, requests', adoptions)
        BY <1>2, <1>3, <1>5, <2>1
    <2>3. Standing(workspace, run, queue, requests', adoptions)
        BY <1>2, <2>2 DEF Standing
    <2>4. WorkspaceTypes'
        BY <1>1, <2>1, <2>2 DEF OwnedInv, WorkspaceTypes
    <2>. QED
        BY <1>1, <2>1, <2>3, <2>4 DEF OwnedInv
<1>7. CASE ~(run # NoRun /\ Full("ownership"))
    <2>1. /\ requests' = [requests EXCEPT ![r] = "adopting"]
          /\ adoptions' = [adoptions EXCEPT ![r] = Adoption(Nothing, Nothing)]
          /\ Enqueue(item)
        BY <1>7 DEF Adopt
    <2>2. adoptions' \in [Requests -> AdoptionType] /\ \A s \in Requests : adoptions'[s].id = Nothing
        BY <1>2, <1>3, <2>1 DEF Adoption, AdoptionType, Nothing
    <2>3. /\ requests' \in [Requests -> RequestState]
          /\ QueueOK(queue, w, requests') /\ RunOK(run, queue, w, requests', adoptions')
          /\ AdoptionsOK(adoptions', queue, w, requests') /\ DocsOK(w, run, queue, requests', adoptions')
        BY <1>5, <2>1, <2>2
    <2>4. item \in ItemType /\ item.op = "adopt" /\ item.req = r
        BY DEF Item, ItemType, Ops, Nothing
    <2>5. ItemOK(item, w, requests')
        BY <1>2, <2>1, <2>4 DEF ItemOK
    <2> HIDE DEF item
    <2>6. run' \in RunType /\ queue' \in Seq(ItemType) /\ Standing(w, run', queue', requests', adoptions')
        BY <1>2, <1>4, <2>1, <2>2, <2>3, <2>4, <2>5, EnqueueOwned DEF DocsOK
    <2>7. WorkspaceTypes'
        BY <1>1, <2>2, <2>3, <2>6 DEF OwnedInv, WorkspaceTypes
    <2>. QED
        BY <1>1, <2>6, <2>7 DEF OwnedInv
<1>. QED
    BY <1>6, <1>7

LEMMA TerminalOwned ==
    ASSUME WorkspaceAssumption, OwnedInv, NEW r \in Requests, requests[r] \in {"ack", "reject"},
           NEW accepted \in BOOLEAN, HandleOpenTerminal(r, accepted), UNCHANGED conditions
    PROVE  OwnedInv'
<1> DEFINE w == workspace
           id == adoptions[r].id
           item == Item(IF accepted THEN "accept" ELSE "rollback", id, adoptions[r].priorActiveId, r)
<1>1. /\ requests' = [requests EXCEPT ![r] = IF accepted THEN "adopted" ELSE "refused"]
      /\ adoptions' = [adoptions EXCEPT ![r] = NoAdoption]
      /\ IF id = Nothing THEN UNCHANGED <<queue, run>> ELSE Enqueue(item)
      /\ workspace' = workspace /\ closes' = closes
    BY DEF HandleOpenTerminal
<1>2. /\ requests \in [Requests -> RequestState] /\ adoptions \in [Requests -> AdoptionType]
      /\ queue \in Seq(ItemType) /\ run \in RunType
      /\ Shown(w) /\ TabsSound(w) /\ StagedHeld(w, run) /\ DocsOK(w, run, queue, requests, adoptions)
      /\ AdoptionsOK(adoptions, queue, w, requests)
    BY OwnedParts DEF OwnedInv, Standing
<1>3. \A s \in Flying(requests) : s = r
    BY <1>2 DEF AdoptionsOK, Flying
<1>4. \A s \in Requests : requests[s] # "adopting"
    BY <1>3 DEF Flying
<1>5. run.op # "adopt" /\ \A k \in DOMAIN queue : queue[k].op # "adopt"
    BY <1>4, NobodyAdopts
<1>6. requests' \in [Requests -> RequestState] /\ \A s \in Requests : s # r => requests'[s] = requests[s]
    BY <1>1, <1>2 DEF RequestState
<1>7. requests'[r] = IF accepted THEN "adopted" ELSE "refused"
    BY <1>1, <1>2
<1>8. adoptions' \in [Requests -> AdoptionType] /\ \A s \in Requests : adoptions'[s].id = Nothing
    <2>1. adoptions' \in [Requests -> AdoptionType]
        BY <1>1, <1>2 DEF NoAdoption, AdoptionType, Nothing
    <2>2. adoptions'[r].id = Nothing
        BY <1>1, <1>2 DEF NoAdoption
    <2>3. ASSUME NEW s \in Requests, s # r PROVE adoptions'[s].id = Nothing
        BY <1>1, <1>2, <1>3, <2>3 DEF AdoptionsOK
    <2>. QED
        BY <2>1, <2>2, <2>3
<1>9. Flying(requests') = {}
    BY <1>3, <1>6, <1>7 DEF Flying
<1>10. /\ QueueOK(queue, w, requests') /\ RunOK(run, queue, w, requests', adoptions')
       /\ AdoptionsOK(adoptions', queue, w, requests')
    BY <1>4, <1>6, <1>8, <1>9, RequestMoved
<1>11. ASSUME NEW i \in Ids(w), TabOf(w, i).doc # Nothing
       PROVE  \/ DocOK(i, TabOf(w, i).doc, run, queue, requests', adoptions')
              \/ id # Nothing /\ ~accepted /\ i = id /\ TabOf(w, i).doc = r
    <2> DEFINE d == TabOf(w, i).doc
    <2>1. d \in Requests /\ DocOK(i, d, run, queue, requests, adoptions) /\ i # Nothing
        BY <1>2, <1>11, IdFacts DEF DocsOK, Tab, Shown
    <2> HIDE DEF d
    <2>2. requests[d] = "adopted" => requests'[d] = "adopted"
        BY <1>6, <2>1
    <2>3. ASSUME requests[d] \in {"ack", "reject"}, adoptions[d].id = i
          PROVE  d = r /\ id = i /\ id # Nothing
        BY <1>3, <2>1, <2>3 DEF Flying
    <2>4. accepted => requests'[r] = "adopted"
        BY <1>7
    <2>5. \/ requests[d] = "adopted" \/ Rolling(i, d, run, queue)
          \/ requests[d] \in {"ack", "reject"} /\ adoptions[d].id = i
        BY <1>5, <2>1 DEF DocOK
    <2> HIDE DEF id
    <2>6. \/ DocOK(i, d, run, queue, requests', adoptions')
          \/ id # Nothing /\ ~accepted /\ i = id /\ d = r
        BY ONLY <2>2, <2>3, <2>4, <2>5 DEF DocOK
    <2>. QED
        BY <2>6 DEF d
<1>12. CASE id = Nothing
    <2>1. queue' = queue /\ run' = run
        BY <1>1, <1>12
    <2>2. Standing(w, run, queue, requests', adoptions')
        BY <1>2, <1>10, <1>11, <1>12 DEF Standing, DocsOK
    <2>3. WorkspaceTypes'
        BY <1>1, <1>6, <1>8, <2>1 DEF OwnedInv, WorkspaceTypes
    <2>. QED
        BY <1>1, <2>1, <2>2, <2>3 DEF OwnedInv
<1>13. CASE id # Nothing
    <2>1. Enqueue(item)
        BY <1>1, <1>13
    <2>2. id \in Nat /\ adoptions[r].priorActiveId \in Nat
        BY <1>2 DEF AdoptionType
    <2>3. /\ item \in ItemType /\ item.tab = id /\ item.req = r
          /\ item.op = IF accepted THEN "accept" ELSE "rollback"
        BY <2>2 DEF Item, ItemType, Ops
    <2>4. Bare(queue) /\ id < w.nextId /\ (id \in Ids(w) => TabOf(w, id).doc = r)
        BY <1>2, <1>13 DEF AdoptionsOK
    <2> HIDE DEF item
    <2>5. ItemOK(item, w, requests')
        BY <1>7, <2>3, <2>4 DEF ItemOK
    <2>6. run' \in RunType /\ queue' \in Seq(ItemType) /\ Standing(w, run', queue', requests', adoptions')
        BY <1>2, <1>5, <1>8, <1>10, <1>11, <2>1, <2>3, <2>4, <2>5, EnqueueOwned
    <2>7. WorkspaceTypes'
        BY <1>1, <1>6, <1>8, <2>6 DEF OwnedInv, WorkspaceTypes
    <2>. QED
        BY <1>1, <2>6, <2>7 DEF OwnedInv
<1>. QED
    BY <1>12, <1>13

LEMMA ClientOwned ==
    ASSUME WorkspaceAssumption, OwnedInv, RequestClient, UNCHANGED conditions
    PROVE  OwnedInv'
<1>1. PICK r \in Requests : Adopt(r) \/ Acknowledged(r) \/ AckRefused(r) \/ Rejected(r)
    BY DEF RequestClient
<1>2. CASE Adopt(r)
    BY <1>2, AdoptOwned
<1>3. CASE Acknowledged(r)
    BY <1>3, TerminalOwned DEF Acknowledged
<1>4. CASE AckRefused(r)
    BY <1>4, TerminalOwned DEF AckRefused
<1>5. CASE Rejected(r)
    BY <1>5, TerminalOwned DEF Rejected
<1>. QED
    BY <1>1, <1>2, <1>3, <1>4, <1>5
-----------------------------------------------------------------------------
(* The invariant holds always                                               *)

LEMMA InitOwned ==
    ASSUME WorkspaceAssumption, Init
    PROVE  OwnedInv
<1> DEFINE e == [tabs |-> <<>>, activeId |-> Nothing, nextId |-> 1]
           w == workspace
<1>1. w = AppendAndSelect(e, FALSE, Nothing)
    BY DEF Init
<1>2. Shape(e) /\ e.nextId = 1 /\ Ids(e) = {} /\ Len(e.tabs) = 0
    BY DEF Shape, Ids, Nothing
<1> HIDE DEF e
<1>3. /\ Shape(w) /\ Ids(w) = {1} /\ Len(w.tabs) = 1 /\ w.activeId = 1 /\ TabOf(w, 1) = NewTab(e, FALSE, Nothing)
    <2>1. Nothing \in Nat
        BY DEF Nothing
    <2>2. /\ Shape(w) /\ Ids(w) = Ids(e) \cup {e.nextId} /\ Len(w.tabs) = Len(e.tabs) + 1
          /\ w.activeId = e.nextId /\ TabOf(w, e.nextId) = NewTab(e, FALSE, Nothing)
        BY <1>1, <1>2, <2>1, AppendFacts
    <2>3. Len(w.tabs) = 1
        BY ONLY <1>2, <2>2
    <2>4. Ids(w) = {1}
        BY ONLY <1>2, <2>2
    <2>. QED
        BY ONLY <1>2, <2>2, <2>3, <2>4
<1>4. TabOf(w, 1).doc = Nothing /\ TabOf(w, 1).staged = FALSE
    BY <1>3 DEF NewTab
<1>5. /\ queue = <<>> /\ run = NoRun /\ closes = 0 /\ conditions \in Conditions
      /\ requests = [r \in Requests |-> "queued"] /\ adoptions = [r \in Requests |-> NoAdoption]
    BY DEF Init
<1>6. /\ requests \in [Requests -> RequestState] /\ adoptions \in [Requests -> AdoptionType]
      /\ \A r \in Requests : requests[r] = "queued" /\ adoptions[r].id = Nothing /\ adoptions[r].id = 0
    BY <1>5 DEF RequestState, AdoptionType, NoAdoption, Nothing
<1>7. WorkspaceTypes
    <2>1. queue \in Seq(ItemType)
        BY <1>5
    <2>2. run \in RunType
        BY <1>5, NoRunFacts
    <2>3. closes \in 0 .. MaxCloses
        BY <1>5 DEF WorkspaceAssumption
    <2>. QED
        BY <1>5, <1>6, <2>1, <2>2, <2>3 DEF WorkspaceTypes
<1>8. Shown(w) /\ TabsSound(w) /\ StagedHeld(w, run)
    BY <1>3, <1>4 DEF Shown, TabsSound, StagedHeld, WorkspaceAssumption
<1>9. QueueOK(queue, w, requests) /\ RunOK(run, queue, w, requests, adoptions)
    BY <1>5, NoRunFacts DEF QueueOK, RunOK
<1>10. AdoptionsOK(adoptions, queue, w, requests) /\ DocsOK(w, run, queue, requests, adoptions)
    <2>1. w.nextId \in Nat /\ w.nextId > 0
        BY <1>3 DEF Shape
    <2>2. Flying(requests) = {}
        BY <1>6 DEF Flying
    <2>3. AdoptionsOK(adoptions, queue, w, requests)
        BY <1>6, <2>1, <2>2 DEF AdoptionsOK
    <2>. QED
        BY <1>3, <1>4, <2>3 DEF DocsOK
<1>. QED
    BY <1>7, <1>8, <1>9, <1>10 DEF OwnedInv, Standing

LEMMA TransitionOwned ==
    ASSUME WorkspaceAssumption, OwnedInv, Transition, UNCHANGED conditions
    PROVE  OwnedInv'
<1>1. CASE SwitchStarts
    BY <1>1, SwitchStartsOwned
<1>2. CASE PriorLeft
    BY <1>2, PriorLeftOwned
<1>3. CASE TargetEntered
    BY <1>3, TargetEnteredOwned
<1>4. CASE CloseStarts
    BY <1>4, CloseStartsOwned
<1>5. CASE LastActivationEnds
    BY <1>5, LastEndsOwned
<1>6. CASE AdoptStarts
    BY <1>6, AdoptStartsOwned
<1>7. CASE AdoptLeft
    BY <1>7, AdoptLeftOwned
<1>8. CASE AdoptEntered
    BY <1>8, AdoptEnteredOwned
<1>9. CASE DocumentOpened
    BY <1>9, DocumentOpenedOwned
<1>10. CASE Presented
    BY <1>10, PresentedOwned
<1>11. CASE AdoptUndone
    BY <1>11, AdoptUndoneOwned
<1>12. CASE SettleStarts
    BY <1>12, SettleStartsOwned
<1>. QED
    BY <1>1, <1>2, <1>3, <1>4, <1>5, <1>6, <1>7, <1>8, <1>9, <1>10, <1>11, <1>12 DEF Transition

LEMMA NextOwned ==
    ASSUME WorkspaceAssumption, OwnedInv, [Next]_vars
    PROVE  OwnedInv'
<1>1. CASE User /\ UNCHANGED conditions
    BY <1>1, UserOwned
<1>2. CASE Transition /\ UNCHANGED conditions
    BY <1>2, TransitionOwned
<1>3. CASE RequestClient /\ UNCHANGED conditions
    BY <1>3, ClientOwned
<1>4. CASE UNCHANGED vars
    BY <1>4 DEF vars, OwnedInv, WorkspaceTypes
<1>. QED
    BY <1>1, <1>2, <1>3, <1>4 DEF Next

LEMMA OwnedAlways == WorkspaceAssumption => (Spec => []OwnedInv)
<1> SUFFICES ASSUME WorkspaceAssumption PROVE Spec => []OwnedInv
    OBVIOUS
<1>1. Init => OwnedInv
    BY InitOwned
<1>2. OwnedInv /\ [Next]_vars => OwnedInv'
    BY NextOwned
<1>. QED
    BY <1>1, <1>2, PTL DEF Spec

-----------------------------------------------------------------------------
(* What it says of the window's properties                                  *)

\* Shapes: the selected tab is one of the tabs, which are never more than MAX_TAB_COUNT.
THEOREM TabsTypeCorrect == WorkspaceAssumption => (Spec => []TypeOK)
<1> SUFFICES ASSUME WorkspaceAssumption PROVE Spec => []TypeOK
    OBVIOUS
<1>1. ASSUME OwnedInv PROVE TypeOK
    <2> DEFINE w == workspace
    <2>1. Shape(w) /\ Len(w.tabs) <= MaximumTabs /\ w.activeId \in Ids(w)
        BY <1>1, OwnedParts DEF Shown
    <2>2. w.tabs \in Seq(Tab) /\ Len(w.tabs) \in Nat /\ DOMAIN w.tabs = 1 .. Len(w.tabs)
        BY <2>1 DEF Shape
    <2>3. Len(w.tabs) \in 1 .. MaximumTabs
        <3>1. Len(w.tabs) # 0
            BY <2>1, CountFacts
        <3>. QED
            BY <1>1, <2>1, <2>2, <3>1 DEF WorkspaceAssumption
    <2>4. ASSUME NEW i \in DOMAIN w.tabs
          PROVE  /\ w.tabs[i].id \in 1..(w.nextId - 1) /\ w.tabs[i].doc \in Requests \cup {Nothing}
                 /\ w.tabs[i].session \in Sessions /\ w.tabs[i].staged \in BOOLEAN
                 /\ \A j \in DOMAIN w.tabs : w.tabs[j].id = w.tabs[i].id => i = j
        <3>1. w.tabs[i] \in Tab
            BY <2>2
        <3>. QED
            BY <2>1, <3>1 DEF Shape, Tab
    <2>5. Has(w, w.activeId)
        BY <2>1, FindFacts
    <2>6. ASSUME NEW i \in DOMAIN queue PROVE queue[i].op \in Ops
        <3>1. queue[i] \in ItemType
            BY <1>1, OwnedParts
        <3>. QED
            BY <3>1 DEF ItemType
    <2>7. run.op \in Ops /\ run.await \in Awaits
        BY <1>1, OwnedParts DEF RunType
    <2>8. /\ requests \in [Requests -> {"queued", "adopting", "ack", "reject", "adopted", "refused"}]
          /\ \A r \in Requests : adoptions[r].pending \in BOOLEAN
        BY <1>1, OwnedParts DEF RequestState, AdoptionType
    <2>9. closes \in 0..MaxCloses /\ conditions \in Conditions
        BY <1>1 DEF OwnedInv, WorkspaceTypes
    <2>. QED
        BY <2>3, <2>4, <2>5, <2>6, <2>7, <2>8, <2>9 DEF TypeOK
<1>2. OwnedInv => TypeOK
    BY <1>1
<1>3. Spec => []OwnedInv
    BY OwnedAlways
<1>. QED
    BY <1>2, <1>3, PTL

\* No staged tab outlives its adoption, no empty one stays beside others, and a rollback finds room
\* in the queue: however switches, closes, adoptions and their settlements come together.
THEOREM TabsAlwaysOwned == WorkspaceAssumption => (Spec => []TabsAreOwned)
<1> SUFFICES ASSUME WorkspaceAssumption PROVE Spec => []TabsAreOwned
    OBVIOUS
<1>1. ASSUME OwnedInv PROVE TabsAreOwned
    <2> DEFINE w == workspace
    <2>1. Shape(w) /\ TabsSound(w) /\ StagedHeld(w, run) /\ AdoptionsOK(adoptions, queue, w, requests)
        BY <1>1, OwnedParts
    <2>2. StagedIsOwned
        BY <2>1, TabAt DEF StagedIsOwned, StagedHeld
    <2>3. ASSUME NEW i \in DOMAIN w.tabs, w.tabs[i].doc = Nothing, ~w.tabs[i].staged PROVE Len(w.tabs) = 1
        <3>1. w.tabs[i].id \in Ids(w) /\ TabOf(w, w.tabs[i].id) = w.tabs[i]
            BY <2>1, TabAt
        <3>2. Ids(w) = {w.tabs[i].id}
            BY <2>1, <2>3, <3>1 DEF TabsSound
        <3>. QED
            BY <2>1, <3>2, CountFacts
    <2>4. EmptyIsAlone
        BY <2>3 DEF EmptyIsAlone
    <2>5. RollbackNeverRefused
        BY <1>1, <2>1, BareHasRoom DEF RollbackNeverRefused, AdoptionsOK
    <2>. QED
        BY <2>2, <2>4, <2>5 DEF TabsAreOwned
<1>2. OwnedInv => TabsAreOwned
    BY <1>1
<1>3. Spec => []OwnedInv
    BY OwnedAlways
<1>. QED
    BY <1>2, <1>3, PTL

\* Nothing that is waiting or under way holds a document that is not adopted.
LEMMA OwnedRemain ==
    ASSUME OwnedInv
    PROVE  OnlyAdoptedRemain
<1> SUFFICES ASSUME Quiet, NEW i \in DOMAIN workspace.tabs, workspace.tabs[i].doc # Nothing
             PROVE  requests[workspace.tabs[i].doc] = "adopted"
    BY DEF OnlyAdoptedRemain
<1> DEFINE id == workspace.tabs[i].id
           d == workspace.tabs[i].doc
<1>1. id \in Ids(workspace) /\ TabOf(workspace, id) = workspace.tabs[i]
    BY OwnedParts, TabAt
<1>2. DocOK(id, d, run, queue, requests, adoptions)
    BY <1>1 DEF OwnedInv, Standing, DocsOK
<1>3. d \in Requests
    BY <1>1, OwnedParts, IdFacts DEF Tab
<1>4. requests[d] \notin {"adopting", "ack", "reject"}
    BY <1>3 DEF Quiet, InFlight
<1>5. run.op = "close" /\ queue = <<>>
    BY NoRunFacts DEF Quiet
<1>6. ~Rolling(id, d, run, queue)
    BY <1>5 DEF Rolling
<1>. QED
    BY <1>2, <1>4, <1>5, <1>6 DEF DocOK

-----------------------------------------------------------------------------
(* What a step removes                                                       *)

\* A tab that goes has been closed, or its document was not adopted.
LossIsDue ==
    \A i \in Ids(workspace) :
        \/ i \in Ids(workspace')
        \/ run.op = "close" /\ run.tab = i
        \/ TabOf(workspace, i).doc = Nothing
        \/ requests[TabOf(workspace, i).doc] # "adopted"

LEMMA ThenKeepsIds ==
    ASSUME NEW u, Shape(u), u.activeId \in Ids(u), NEW r, NEW await, ActivateThen(u, r, await)
    PROVE  Ids(workspace') = Ids(u)
    BY ActivateFacts DEF ActivateThen, Resettled, Like

LEMMA StageFacts ==
    ASSUME NEW u, Shape(u), u.activeId \in Ids(u)
    PROVE  LET w == StageAdoption(u) IN
           /\ Shape(w) /\ Ids(w) = Ids(u) \cup {u.nextId} /\ u.nextId \notin Ids(u)
           /\ w.activeId = u.nextId /\ w.nextId = u.nextId + 1
           /\ TabOf(w, u.nextId).doc = Nothing /\ TabOf(w, u.nextId).session = "inactive"
           /\ \A j \in Ids(u) : TabOf(w, j) = TabOf(u, j)
<1> DEFINE w == AppendAndSelect(u, TRUE, u.activeId)
           new == NewTab(u, TRUE, u.activeId)
<1>1. u.activeId \in Nat
    BY IdFacts
<1>2. TRUE \in BOOLEAN
    OBVIOUS
<1>3. /\ Shape(w) /\ Ids(w) = Ids(u) \cup {u.nextId} /\ u.nextId \notin Ids(u)
      /\ w.activeId = u.nextId /\ w.nextId = u.nextId + 1
      /\ TabOf(w, u.nextId) = new
      /\ \A j \in Ids(u) : TabOf(w, j) = TabOf(u, j)
    BY <1>1, <1>2, AppendFacts
<1>4. new.doc = Nothing /\ new.session = "inactive"
    BY DEF NewTab
<1>5. StageAdoption(u) = w
    BY DEF StageAdoption
<1> HIDE DEF w, new
<1>. QED
    BY <1>3, <1>4, <1>5

LEMMA RemovedKeepsIds ==
    ASSUME NEW w, NEW v, NEW id, Removed(w, v, id), NEW i \in Ids(w), i # id
    PROVE  i \in Ids(v)
    BY DEF Removed

LEMMA SwitchLoss ==
    ASSUME OwnedInv, SwitchStarts \/ PriorLeft \/ TargetEntered \/ LastActivationEnds
    PROVE  Ids(workspace') = Ids(workspace)
<1>1. CASE SwitchStarts
    <2> DEFINE r == [run EXCEPT !.tab = SwitchTarget, !.prior = workspace.activeId]
    <2>1. workspace' = workspace \/ ActivateThen(workspace, r, "last")
        BY <1>1 DEF SwitchStarts
    <2>. QED
        BY <2>1, OwnedParts, ThenKeepsIds
<1>2. CASE PriorLeft
    <2>1. run.prior = workspace.activeId
        BY <1>2, OwnedParts DEF RunOK, PriorLeft
    <2> DEFINE await(w) == IF Has(w, run.tab) THEN "entering" ELSE "last"
    <2>2. PICK out \in DeactivationOutcomes(workspace, run.prior) :
              workspace' = out.w \/ ActivateThen(Select(out.w, run.tab), run, await(out.w))
        BY <1>2 DEF PriorLeft
    <2>3. Like(workspace, out.w) /\ Shape(out.w) /\ out.w.activeId \in Ids(out.w)
        BY <2>1, OwnedParts, LeftFacts
    <2> HIDE DEF await
    <2>. QED
        BY <2>2, <2>3, SelectLike, ThenKeepsIds DEF Like
<1>3. CASE TargetEntered
    <2>1. PICK out \in ActivationOutcomes(workspace) :
              workspace' = out.w \/ ActivateThen(Select(out.w, run.prior), run, "last")
        BY <1>3 DEF TargetEntered
    <2>2. Like(workspace, out.w) /\ Shape(out.w) /\ out.w.activeId \in Ids(out.w)
        BY EnteredFacts
    <2>. QED
        BY <2>1, <2>2, SelectLike, ThenKeepsIds DEF Like
<1>4. CASE LastActivationEnds
    BY <1>4, EnteredFacts DEF LastActivationEnds, Like
<1>. QED
    BY <1>1, <1>2, <1>3, <1>4

\* What is undone is the staged tab, which has no document.
LEMMA UndoLoss ==
    ASSUME OwnedInv, NEW w, Like(workspace, w), w.activeId \in Ids(w), run.tab \in Ids(w), Undo(w)
    PROVE  LossIsDue
<1> DEFINE id == run.tab
           u == IF TabOf(w, id).staged THEN RollbackAdoption(w, id) ELSE w
<1>1. Shape(w) /\ Ids(w) = Ids(workspace) /\ Shown(w) /\ TabsSound(w)
    BY LikeFacts DEF Like
<1>2. TabOf(w, id).staged \/ Ids(u) = Ids(w)
    BY <1>1
<1>3. /\ Shape(u) /\ u.activeId \in Ids(u)
      /\ TabOf(w, id).staged => Removed(w, u, id)
    <2>1. TabOf(w, id).previousActiveId \in Nat
        BY <1>1, IdFacts DEF Tab
    <2>2. Removed(w, RollbackAdoption(w, id), id)
        BY <1>1, <2>1, RemovedFacts DEF RollbackAdoption
    <2>3. Shape(RollbackAdoption(w, id)) /\ RollbackAdoption(w, id).activeId \in Ids(RollbackAdoption(w, id))
        BY <2>2 DEF Removed
    <2>. QED
        BY <1>1, <2>2, <2>3
<1>4. ActivateThen(u, run, "undone")
    BY DEF Undo
<1> HIDE DEF u
<1>5. Ids(workspace') = Ids(u)
    BY <1>3, <1>4, ThenKeepsIds
<1>6. TabOf(w, id).staged => TabOf(workspace, id).doc = Nothing
    BY <1>1 DEF TabsSound, Like
<1>7. ASSUME NEW i \in Ids(workspace) PROVE i \in Ids(workspace') \/ TabOf(workspace, i).doc = Nothing
    <2>1. CASE i = id /\ TabOf(w, id).staged
        BY <1>6, <2>1
    <2>2. CASE ~TabOf(w, id).staged
        BY <1>1, <1>2, <1>5, <2>2
    <2>3. CASE i # id /\ TabOf(w, id).staged
        BY <1>1, <1>3, <1>5, <2>3, RemovedKeepsIds
    <2>. QED
        BY <2>1, <2>2, <2>3
<1>. QED
    BY <1>7 DEF LossIsDue

LEMMA AdoptLoss ==
    ASSUME WorkspaceAssumption, OwnedInv, AdoptStarts \/ AdoptLeft \/ AdoptEntered \/ DocumentOpened \/ Presented \/ AdoptUndone
    PROVE  LossIsDue
<1>1. (\A i \in Ids(workspace) : i \in Ids(workspace')) => LossIsDue
    BY DEF LossIsDue
<1>2. CASE AdoptStarts
    <2> DEFINE r == [run EXCEPT !.tab = workspace.activeId, !.prior = workspace.activeId]
    <2>1. workspace' = workspace \/ ActivateThen(workspace, r, "entering")
        BY <1>2 DEF AdoptStarts
    <2>2. Ids(workspace') = Ids(workspace)
        BY <2>1, OwnedParts, ThenKeepsIds
    <2>. QED
        BY <1>1, <2>2
<1>3. CASE AdoptLeft
    <2>1. run.prior = workspace.activeId
        BY <1>3, OwnedParts DEF RunOK, AdoptLeft
    <2> DEFINE r(w) == [run EXCEPT !.tab = StageAdoption(w).activeId]
    <2>2. PICK out \in DeactivationOutcomes(workspace, run.prior) :
              \/ workspace' = out.w \/ ActivateThen(out.w, run, "undone")
              \/ ActivateThen(StageAdoption(out.w), r(out.w), "entering")
        BY <1>3 DEF AdoptLeft, AdoptionFails
    <2>3. Like(workspace, out.w) /\ Shape(out.w) /\ out.w.activeId \in Ids(out.w)
        BY <2>1, OwnedParts, LeftFacts
    <2>4. /\ Shape(StageAdoption(out.w)) /\ Ids(StageAdoption(out.w)) = Ids(out.w) \cup {out.w.nextId}
          /\ StageAdoption(out.w).activeId \in Ids(StageAdoption(out.w))
        BY <2>3, StageFacts
    <2> HIDE DEF r
    <2>5. Ids(workspace') = Ids(out.w) \/ Ids(workspace') = Ids(out.w) \cup {out.w.nextId}
        BY <2>2, <2>3, <2>4, ThenKeepsIds
    <2>. QED
        BY <1>1, <2>3, <2>5 DEF Like
<1>4. CASE AdoptEntered
    <2>1. run.tab \in Ids(workspace)
        BY <1>4, OwnedParts DEF RunOK, AdoptEntered
    <2>2. PICK out \in ActivationOutcomes(workspace) : workspace' = out.w \/ Undo(out.w)
        BY <1>4 DEF AdoptEntered
    <2>3. Like(workspace, out.w) /\ out.w.activeId \in Ids(out.w) /\ run.tab \in Ids(out.w)
        BY <2>1, EnteredFacts DEF Like
    <2>4. CASE workspace' = out.w
        BY <1>1, <2>3, <2>4 DEF Like
    <2>5. CASE Undo(out.w)
        BY <2>3, <2>5, UndoLoss
    <2>. QED
        BY <2>2, <2>4, <2>5
<1>5. CASE DocumentOpened
    <2> DEFINE u == CommitAdoption(WithTab(workspace, run.tab, [TabOf(workspace, run.tab) EXCEPT !.doc = run.req]), run.tab)
    <2>1. run.await = "opening" /\ (ActivateThen(u, run, "presenting") \/ Undo(workspace))
        BY <1>5 DEF DocumentOpened
    <2>2. Shape(u) /\ Ids(u) = Ids(workspace) /\ u.activeId = run.tab /\ run.tab \in Ids(workspace)
        BY <2>1, CommittedFacts
    <2> HIDE DEF u
    <2>3. CASE ActivateThen(u, run, "presenting")
        BY <1>1, <2>2, <2>3, ThenKeepsIds
    <2>4. CASE Undo(workspace)
        BY <2>2, <2>4, OwnedParts, UndoLoss
    <2>. QED
        BY <2>1, <2>3, <2>4
<1>6. CASE Presented
    BY <1>1, <1>6, EnteredFacts DEF Presented, Like
<1>7. CASE AdoptUndone
    BY <1>1, <1>7, EnteredFacts DEF AdoptUndone, AdoptionFails, Like
<1>. QED
    BY <1>2, <1>3, <1>4, <1>5, <1>6, <1>7

LEMMA CloseLoss ==
    ASSUME OwnedInv, CloseStarts
    PROVE  LossIsDue
<1> DEFINE u == Close(workspace, run.tab)
<1>1. run.op = "close" /\ (ActivateThen(u, run, "last") \/ workspace' = u)
    BY DEF CloseStarts
<1>2. /\ run.tab \notin Ids(workspace) => u = workspace
      /\ run.tab \in Ids(workspace) => Removed(workspace, u, run.tab)
    BY OwnedParts, CloseFacts
<1> HIDE DEF u
<1>3. Shape(u) /\ u.activeId \in Ids(u)
    BY <1>2, OwnedParts DEF Removed
<1>4. Ids(workspace') = Ids(u)
    BY <1>1, <1>3, ThenKeepsIds
<1>. QED
    BY <1>1, <1>2, <1>4, RemovedKeepsIds DEF LossIsDue

\* A rollback removes the tab of the request that was refused.
LEMMA SettleLoss ==
    ASSUME OwnedInv, SettleStarts
    PROVE  LossIsDue
<1> DEFINE u == RollbackOwnership(workspace, run.tab, run.prior)
<1>1. /\ run.await = "start" /\ run.op \in {"accept", "rollback"}
      /\ ActivateThen(IF run.op = "accept" THEN workspace ELSE u, run, "last")
    BY DEF SettleStarts
<1>2. CASE run.op = "accept"
    <2>1. Ids(workspace') = Ids(workspace)
        BY <1>1, <1>2, OwnedParts, ThenKeepsIds
    <2>. QED
        BY <2>1 DEF LossIsDue
<1>3. CASE run.op = "rollback"
    <2>1. ActivateThen(u, run, "last")
        BY <1>1, <1>3
    <2>2. /\ run.tab \in Ids(workspace) => Removed(workspace, u, run.tab)
          /\ run.tab \notin Ids(workspace) => Like(workspace, u) /\ u.activeId \in Ids(u)
        BY OwnedParts, RollbackFacts
    <2> HIDE DEF u
    <2>3. Shape(u) /\ u.activeId \in Ids(u)
        BY <2>2 DEF Removed, Like
    <2>4. Ids(workspace') = Ids(u)
        BY <2>1, <2>3, ThenKeepsIds
    <2>5. /\ run.req \in Requests /\ requests[run.req] = "refused"
          /\ run.tab \in Ids(workspace) => TabOf(workspace, run.tab).doc = run.req
        BY <1>1, <1>3, OwnedParts DEF RunOK, ItemOK
    <2>6. ASSUME NEW i \in Ids(workspace), i \notin Ids(workspace')
          PROVE  requests[TabOf(workspace, i).doc] # "adopted"
        <3>1. i = run.tab
            BY <2>2, <2>4, <2>6, RemovedKeepsIds DEF Like
        <3>. QED
            BY <2>5, <3>1
    <2>. QED
        BY <2>6 DEF LossIsDue
<1>. QED
    BY <1>1, <1>2, <1>3

LEMMA NextLoss ==
    ASSUME WorkspaceAssumption, OwnedInv, [Next]_vars
    PROVE  LossIsDue
<1>1. workspace' = workspace => LossIsDue
    BY DEF LossIsDue
<1>2. CASE User
    BY <1>1, <1>2 DEF User, SwitchTab, SwitchAdjacentTab, CloseTab
<1>3. CASE RequestClient
    BY <1>1, <1>3 DEF RequestClient, Adopt, Acknowledged, AckRefused, Rejected, HandleOpenTerminal
<1>4. CASE Transition
    <2>1. Ids(workspace') = Ids(workspace) => LossIsDue
        BY DEF LossIsDue
    <2>. QED
        BY <1>4, <2>1, SwitchLoss, CloseLoss, AdoptLoss, SettleLoss DEF Transition
<1>5. CASE UNCHANGED vars
    BY <1>1, <1>5 DEF vars
<1>. QED
    BY <1>2, <1>3, <1>4, <1>5 DEF Next

\* A document the native side has acknowledged leaves the window only because the user closes its
\* tab: no failed adoption, no undoing and no late rollback takes it away.
THEOREM AdoptedAlwaysKept == WorkspaceAssumption => (Spec => AdoptedIsKept)
<1> SUFFICES ASSUME WorkspaceAssumption PROVE Spec => AdoptedIsKept
    OBVIOUS
<1> DEFINE A == \A i \in DOMAIN workspace.tabs :
                    LET tab == workspace.tabs[i] IN
                    tab.doc # Nothing /\ requests[tab.doc] = "adopted" /\ ~Has(workspace', tab.id)
                       => run.op = "close" /\ run.tab = tab.id
<1>1. ASSUME OwnedInv, [Next]_vars PROVE A
    <2>1. LossIsDue /\ OwnedInv'
        BY <1>1, NextLoss, NextOwned
    <2>2. Shape(workspace')
        BY <2>1 DEF OwnedInv, Standing, Shown
    <2>3. ASSUME NEW i \in DOMAIN workspace.tabs,
                 workspace.tabs[i].doc # Nothing, requests[workspace.tabs[i].doc] = "adopted",
                 ~Has(workspace', workspace.tabs[i].id)
          PROVE  run.op = "close" /\ run.tab = workspace.tabs[i].id
        <3> DEFINE id == workspace.tabs[i].id
        <3>1. id \in Ids(workspace) /\ TabOf(workspace, id) = workspace.tabs[i]
            BY <1>1, OwnedParts, TabAt
        <3>2. id \notin Ids(workspace')
            BY <2>2, <2>3, FindFacts
        <3>. QED
            BY <2>1, <2>3, <3>1, <3>2 DEF LossIsDue
    <2>. QED
        BY <2>3
<1>2. OwnedInv /\ [Next]_vars => [A]_vars
    BY <1>1
<1>3. Spec => []OwnedInv
    BY OwnedAlways
<1>4. AdoptedIsKept <=> [][A]_vars
    BY DEF AdoptedIsKept
<1>. QED
    BY <1>2, <1>3, <1>4, PTL DEF Spec
-----------------------------------------------------------------------------
(* Lemmas: what becomes of sessions                                          *)

LEMMA ClearIsClearBut ==
    ASSUME NEW w, Clear(w), NEW id
    PROVE  ClearBut(w, id)
    BY DEF Clear, ClearBut

\* The session of tab id is what it was, or another.
LEMMA ResettledSessions ==
    ASSUME NEW w, NEW v, NEW id, Resettled(w, v, id)
    PROVE  /\ ClearBut(w, id) => ClearBut(v, id)
           /\ ClearBut(w, id) /\ TabOf(v, id).session \notin Foreground => Clear(v)
           /\ Well(w) /\ TabOf(v, id).session # "quarantined" => Well(v)
<1>1. Ids(v) = Ids(w) /\ \A i \in Ids(w) : i # id => TabOf(v, i) = TabOf(w, i)
    BY DEF Resettled, Like
<1>2. ClearBut(w, id) => ClearBut(v, id)
    BY <1>1 DEF ClearBut
<1>3. ClearBut(w, id) /\ TabOf(v, id).session \notin Foreground => Clear(v)
    BY <1>1 DEF ClearBut, Clear
<1>4. Well(w) /\ TabOf(v, id).session # "quarantined" => Well(v)
    BY <1>1 DEF Well
<1>. QED
    BY <1>2, <1>3, <1>4

LEMMA SelectSessions ==
    ASSUME NEW w, Shape(w), w.activeId \in Ids(w), NEW id
    PROVE  LET v == Select(w, id) IN
           /\ Well(w) => Well(v)
           /\ Clear(w) => Clear(v)
<1> DEFINE v == Select(w, id)
<1>1. Ids(v) = Ids(w) /\ \A j \in Ids(w) : TabOf(v, j) = TabOf(w, j)
    BY SelectFacts
<1> HIDE DEF v
<1>2. (Well(w) => Well(v)) /\ (Clear(w) => Clear(v))
    BY <1>1 DEF Well, Clear
<1>. QED
    BY <1>2 DEF v

LEMMA RemovedSessions ==
    ASSUME NEW w, NEW v, NEW id, Removed(w, v, id)
    PROVE  /\ Well(w) => Well(v)
           /\ ClearBut(w, id) => Clear(v)
           /\ \A other \in Ids(w) : ClearBut(w, other) /\ other # id => ClearBut(v, other)
<1>1. CASE Ids(v) = Ids(w) \ {id} /\ \A i \in Ids(v) : TabOf(v, i) = TabOf(w, i)
    BY <1>1 DEF Well, Clear, ClearBut
<1>2. CASE Ids(w) = {id} /\ Emptied(v, w)
    <2>1. \A i \in Ids(v) : TabOf(v, i).session = "inactive"
        BY <1>2 DEF Emptied
    <2>2. Well(v)
        BY <2>1 DEF Well
    <2>3. Clear(v)
        BY <2>1 DEF Clear, Foreground
    <2>. QED
        BY <1>2, <2>2, <2>3
<1>. QED
    BY <1>1, <1>2 DEF Removed

\* The selected tab begins to activate.
LEMMA ThenSessions ==
    ASSUME NEW u, Shape(u), u.activeId \in Ids(u), NEW r, NEW await, ActivateThen(u, r, await)
    PROVE  /\ Well(u) => Well(workspace')
           /\ ClearBut(u, u.activeId) => ClearBut(workspace', workspace'.activeId)
           /\ SelectedTab(u).session # "active" => SelectedTab(workspace').session # "active"
<1> DEFINE id == u.activeId
<1>1. /\ Resettled(u, workspace', id)
      /\ TabOf(workspace', id).session =
            IF TabOf(u, id).session = "inactive" THEN "activating" ELSE TabOf(u, id).session
    BY ActivateFacts DEF ActivateThen
<1>2. workspace'.activeId = id
    BY <1>1 DEF Resettled
<1>3. ClearBut(u, id) => ClearBut(workspace', id)
    BY <1>1, ResettledSessions
<1>4. Well(u) => Well(workspace')
    <2>1. Well(u) => TabOf(workspace', id).session # "quarantined"
        BY <1>1 DEF Well
    <2>. QED
        BY <1>1, <2>1, ResettledSessions
<1>5. SelectedTab(u).session # "active" => SelectedTab(workspace').session # "active"
    BY <1>1, <1>2 DEF SelectedTab
<1>. QED
    BY <1>2, <1>3, <1>4, <1>5

\* How the selected session settles.
LEMMA EnteredSessions ==
    ASSUME OwnedInv, NEW out \in ActivationOutcomes(workspace)
    PROVE  /\ ClearBut(workspace, workspace.activeId) => ClearBut(out.w, out.w.activeId)
           /\ ~conditions.sessionsMayFail /\ Well(workspace) =>
                 out.ok /\ Well(out.w) /\ SelectedTab(out.w).session = "active"
           /\ ~out.ok /\ SelectedTab(workspace).session # "active" /\ ClearBut(workspace, workspace.activeId) =>
                 Clear(out.w)
<1> DEFINE id == workspace.activeId
<1>1. /\ out.ok \in BOOLEAN /\ Resettled(workspace, out.w, id)
      /\ out.ok => TabOf(out.w, id).session = "active"
      /\ ~out.ok => TabOf(workspace, id).session = "quarantined" \/ conditions.sessionsMayFail
      /\ ~out.ok /\ TabOf(workspace, id).session # "active" =>
            TabOf(out.w, id).session \in {"inactive", "quarantined"}
    BY OwnedParts, ActivationFacts
<1>2. out.w.activeId = id /\ id \in Ids(workspace)
    BY <1>1, OwnedParts DEF Resettled
<1>3. ClearBut(workspace, id) => ClearBut(out.w, out.w.activeId)
    BY <1>1, <1>2, ResettledSessions
<1>4. ASSUME ~conditions.sessionsMayFail, Well(workspace)
      PROVE  out.ok /\ Well(out.w) /\ SelectedTab(out.w).session = "active"
    <2>1. out.ok
        BY <1>1, <1>2, <1>4 DEF Well
    <2>2. TabOf(out.w, id).session = "active"
        BY <1>1, <2>1
    <2>3. Well(out.w)
        BY <1>1, <1>4, <2>2, ResettledSessions
    <2>. QED
        BY <1>2, <2>1, <2>2, <2>3 DEF SelectedTab
<1>5. ASSUME ~out.ok, SelectedTab(workspace).session # "active", ClearBut(workspace, id) PROVE Clear(out.w)
    <2>1. TabOf(out.w, id).session \notin Foreground
        BY <1>1, <1>5 DEF SelectedTab, Foreground
    <2>. QED
        BY <1>1, <1>5, <2>1, ResettledSessions
<1>. QED
    BY <1>3, <1>4, <1>5

\* How the session of the selected tab, which is left, settles.
LEMMA LeftSessions ==
    ASSUME OwnedInv, NEW out \in DeactivationOutcomes(workspace, workspace.activeId)
    PROVE  /\ ClearBut(workspace, workspace.activeId) => Clear(out.w)
           /\ ~conditions.sessionsMayFail /\ Well(workspace) => out.ok /\ Well(out.w)
<1> DEFINE id == workspace.activeId
<1>1. id \in Ids(workspace) /\ Shape(workspace)
    BY OwnedParts
<1>2. /\ out.ok \in BOOLEAN /\ Resettled(workspace, out.w, id)
      /\ TabOf(out.w, id).session = IF out.ok THEN "inactive" ELSE "quarantined"
      /\ ~out.ok => TabOf(workspace, id).session = "quarantined" \/ conditions.sessionsMayFail
    BY <1>1, DeactivationFacts
<1>3. TabOf(out.w, id).session \notin Foreground
    BY <1>2 DEF Foreground
<1>4. ASSUME ~conditions.sessionsMayFail, Well(workspace) PROVE out.ok /\ Well(out.w)
    <2>1. out.ok
        BY <1>1, <1>2, <1>4 DEF Well
    <2>2. TabOf(out.w, id).session # "quarantined"
        BY <1>2, <2>1
    <2>. QED
        BY <1>2, <1>4, <2>1, <2>2, ResettledSessions
<1>. QED
    BY <1>2, <1>3, <1>4, ResettledSessions

-----------------------------------------------------------------------------
(* Every step keeps the foreground with the selected tab                     *)

\* A transition that is over gives way to one that starts, or to none.
LEMMA DoneFacts ==
    ASSUME Done
    PROVE  run' = NoRun \/ run'.await = "start"
    BY DEF Done, Running

LEMMA CalmOver ==
    ASSUME Done, ClearBut(workspace', workspace'.activeId)
    PROVE  CalmOK(workspace', run')
<1>1. run'.await # "entering"
    BY DoneFacts, NoRunFacts
<1>. QED
    BY <1>1 DEF CalmOK

LEMMA CalmThen ==
    ASSUME OwnedInv, NEW u, Shape(u), u.activeId \in Ids(u), ClearBut(u, u.activeId),
           NEW r \in RunType, NEW await \in Awaits, ActivateThen(u, r, await),
           Kind(r.op) = "activation" /\ await = "entering" => SelectedTab(u).session # "active"
    PROVE  CalmOK(workspace', run')
<1>1. ClearBut(workspace', workspace'.activeId)
      /\ (SelectedTab(u).session # "active" => SelectedTab(workspace').session # "active")
    BY ThenSessions
<1>2. run'.await = await /\ run'.op = r.op
    BY ThenFacts
<1>. QED
    BY <1>1, <1>2 DEF CalmOK

LEMMA CalmSwitch ==
    ASSUME OwnedInv, CalmOK(workspace, run), SwitchStarts \/ PriorLeft \/ TargetEntered \/ LastActivationEnds
    PROVE  CalmOK(workspace', run')
<1>1. ClearBut(workspace, workspace.activeId)
    BY DEF CalmOK
<1>2. "last" \in Awaits /\ "entering" \in Awaits /\ "leaving" \in Awaits
    BY DEF Awaits
<1>3. CASE SwitchStarts
    <2> DEFINE r == [run EXCEPT !.tab = SwitchTarget, !.prior = workspace.activeId]
    <2>1. r \in RunType
        BY OwnedParts, SwitchTargetIsId DEF RunType
    <2>2. \/ Await(r, "leaving") /\ UNCHANGED workspace
          \/ Done /\ UNCHANGED workspace
          \/ ActivateThen(workspace, r, "last")
        BY <1>3 DEF SwitchStarts
    <2> HIDE DEF r
    <2>3. CASE Await(r, "leaving") /\ UNCHANGED workspace
        <3>1. run'.await = "leaving"
            BY <2>1, <2>3 DEF Await, RunType
        <3>. QED
            BY <1>1, <2>3, <3>1 DEF CalmOK
    <2>4. CASE Done /\ UNCHANGED workspace
        BY <1>1, <2>4, CalmOver
    <2>5. CASE ActivateThen(workspace, r, "last")
        BY <1>1, <1>2, <2>1, <2>5, OwnedParts, CalmThen
    <2>. QED
        BY <2>2, <2>3, <2>4, <2>5
<1>4. CASE PriorLeft
    <2>1. run.prior = workspace.activeId
        BY <1>4, OwnedParts DEF RunOK, PriorLeft
    <2>2. PICK out \in DeactivationOutcomes(workspace, workspace.activeId) :
              IF ~out.ok THEN Done /\ workspace' = out.w
              ELSE ActivateThen(Select(out.w, run.tab), run, IF Has(out.w, run.tab) THEN "entering" ELSE "last")
        BY <1>4, <2>1 DEF PriorLeft
    <2>3. Clear(out.w) /\ Shape(out.w) /\ out.w.activeId \in Ids(out.w)
        BY <1>1, OwnedParts, LeftFacts, LeftSessions
    <2>4. CASE ~out.ok
        <3>1. Done /\ workspace' = out.w
            BY <2>2, <2>4
        <3>. QED
            BY <2>3, <3>1, ClearIsClearBut, CalmOver
    <2>5. CASE out.ok
        <3> DEFINE u == Select(out.w, run.tab)
                   await == IF Has(out.w, run.tab) THEN "entering" ELSE "last"
        <3>1. ActivateThen(u, run, await) /\ await \in Awaits
            BY <1>2, <2>2, <2>5
        <3>2. Shape(u) /\ u.activeId \in Ids(u) /\ Clear(u)
            BY <2>3, SelectLike, SelectSessions
        <3> HIDE DEF u, await
        <3>3. ClearBut(u, u.activeId)
            BY <3>2, ClearIsClearBut
        <3>4. SelectedTab(u).session # "active"
            BY <3>2 DEF Clear, SelectedTab, Foreground
        <3>. QED
            BY <3>1, <3>2, <3>3, <3>4, OwnedParts, CalmThen
    <2>. QED
        BY <2>4, <2>5
<1>5. CASE TargetEntered
    <2>1. SelectedTab(workspace).session # "active"
        BY <1>5 DEF TargetEntered, Switching, CalmOK
    <2>2. PICK out \in ActivationOutcomes(workspace) :
              IF out.ok THEN Done /\ workspace' = out.w
              ELSE ActivateThen(Select(out.w, run.prior), run, "last")
        BY <1>5 DEF TargetEntered
    <2>3. Shape(out.w) /\ out.w.activeId \in Ids(out.w)
        BY EnteredFacts
    <2>4. CASE out.ok
        <3>1. Done /\ workspace' = out.w
            BY <2>2, <2>4
        <3>. QED
            BY <1>1, <3>1, EnteredSessions, CalmOver
    <2>5. CASE ~out.ok
        <3> DEFINE u == Select(out.w, run.prior)
        <3>1. ActivateThen(u, run, "last")
            BY <2>2, <2>5
        <3>2. Clear(out.w)
            BY <1>1, <2>1, <2>5, EnteredSessions
        <3>3. Shape(u) /\ u.activeId \in Ids(u) /\ Clear(u)
            BY <2>3, <3>2, SelectLike, SelectSessions
        <3> HIDE DEF u
        <3>4. ClearBut(u, u.activeId)
            BY <3>3, ClearIsClearBut
        <3>. QED
            BY <1>2, <3>1, <3>3, <3>4, OwnedParts, CalmThen
    <2>. QED
        BY <2>4, <2>5
<1>6. CASE LastActivationEnds
    BY <1>1, <1>6, EnteredSessions, CalmOver DEF LastActivationEnds
<1>. QED
    BY <1>3, <1>4, <1>5, <1>6

\* The selected tab is removed, and nothing is left in the foreground; or another one is.
LEMMA CalmClose ==
    ASSUME OwnedInv, CalmOK(workspace, run), CloseStarts
    PROVE  CalmOK(workspace', run')
<1> DEFINE u == Close(workspace, run.tab)
           id == workspace.activeId
<1>1. ClearBut(workspace, id) /\ id \in Ids(workspace)
    BY OwnedParts DEF CalmOK
<1>2. /\ run.tab \notin Ids(workspace) => u = workspace
      /\ run.tab \in Ids(workspace) => Removed(workspace, u, run.tab)
      /\ run.tab # id => u.activeId = id
    BY OwnedParts, CloseFacts
<1>3. \/ run.tab = id /\ ActivateThen(u, run, "last")
      \/ run.tab # id /\ Done /\ workspace' = u
    BY <1>1, OwnedParts, FindFacts DEF CloseStarts
<1> HIDE DEF u
<1>4. CASE run.tab = id /\ ActivateThen(u, run, "last")
    <2>1. Shape(u) /\ u.activeId \in Ids(u) /\ Clear(u)
        BY <1>1, <1>2, <1>4, RemovedSessions DEF Removed
    <2>2. ClearBut(u, u.activeId) /\ "last" \in Awaits
        BY <2>1, ClearIsClearBut DEF Awaits
    <2>. QED
        BY <1>4, <2>1, <2>2, OwnedParts, CalmThen
<1>5. CASE run.tab # id /\ Done /\ workspace' = u
    <2>1. ClearBut(u, id)
        BY <1>1, <1>2, <1>5, RemovedSessions
    <2>. QED
        BY <1>2, <1>5, <2>1, CalmOver
<1>. QED
    BY <1>3, <1>4, <1>5

\* A rollback that finds its tab selected removes it.
LEMMA CalmSettle ==
    ASSUME OwnedInv, CalmOK(workspace, run), SettleStarts,
           run.op = "rollback" => run.tab = workspace.activeId
    PROVE  CalmOK(workspace', run')
<1> DEFINE u == RollbackOwnership(workspace, run.tab, run.prior)
<1>1. ClearBut(workspace, workspace.activeId) /\ workspace.activeId \in Ids(workspace) /\ "last" \in Awaits
    BY OwnedParts DEF CalmOK, Awaits
<1>2. /\ run.op \in {"accept", "rollback"}
      /\ ActivateThen(IF run.op = "accept" THEN workspace ELSE u, run, "last")
    BY DEF SettleStarts
<1>3. CASE run.op = "accept"
    <2>1. ActivateThen(workspace, run, "last")
        BY <1>2, <1>3
    <2>. QED
        BY <1>1, <2>1, OwnedParts, CalmThen
<1>4. CASE run.op = "rollback"
    <2>1. ActivateThen(u, run, "last")
        BY <1>2, <1>4
    <2>2. Removed(workspace, u, workspace.activeId)
        BY <1>1, <1>4, OwnedParts, RollbackFacts
    <2> HIDE DEF u
    <2>3. Shape(u) /\ u.activeId \in Ids(u) /\ Clear(u)
        BY <1>1, <2>2, RemovedSessions DEF Removed
    <2>4. ClearBut(u, u.activeId)
        BY <2>3, ClearIsClearBut
    <2>. QED
        BY <1>1, <2>1, <2>3, <2>4, OwnedParts, CalmThen
<1>. QED
    BY <1>2, <1>3, <1>4

\* What is undone is the tab that was being entered.
LEMMA CalmUndo ==
    ASSUME OwnedInv, NEW w, Like(workspace, w), w.activeId \in Ids(w), run.tab = w.activeId,
           ClearBut(w, w.activeId), Undo(w)
    PROVE  CalmOK(workspace', run')
<1> DEFINE id == run.tab
           u == IF TabOf(w, id).staged THEN RollbackAdoption(w, id) ELSE w
<1>1. Shape(w) /\ "undone" \in Awaits
    BY DEF Like, Awaits
<1>2. Shape(u) /\ u.activeId \in Ids(u) /\ ClearBut(u, u.activeId)
    <2>1. CASE TabOf(w, id).staged
        <3> DEFINE v == RollbackAdoption(w, id)
        <3>1. TabOf(w, id).previousActiveId \in Nat
            BY <1>1, IdFacts DEF Tab
        <3>2. Removed(w, v, id)
            BY <1>1, <3>1, RemovedFacts DEF RollbackAdoption
        <3>3. u = v
            BY <2>1
        <3> HIDE DEF v, u
        <3>4. Shape(v) /\ v.activeId \in Ids(v) /\ Clear(v)
            BY <3>2, RemovedSessions DEF Removed
        <3>. QED
            BY <3>3, <3>4, ClearIsClearBut
    <2>2. CASE ~TabOf(w, id).staged
        BY <1>1, <2>2
    <2>. QED
        BY <2>1, <2>2
<1>3. ActivateThen(u, run, "undone")
    BY DEF Undo
<1> HIDE DEF u
<1>. QED
    BY <1>1, <1>2, <1>3, OwnedParts, CalmThen

LEMMA CalmAdopt ==
    ASSUME WorkspaceAssumption, OwnedInv, CalmOK(workspace, run),
           AdoptStarts \/ AdoptLeft \/ AdoptEntered \/ DocumentOpened \/ Presented \/ AdoptUndone
    PROVE  CalmOK(workspace', run')
<1>1. ClearBut(workspace, workspace.activeId)
    BY DEF CalmOK
<1>2. {"leaving", "undone", "entering", "presenting", "opening"} \subseteq Awaits
    BY DEF Awaits
<1>3. Kind("adopt") # "activation"
    BY DEF Kind
<1>4. CASE AdoptStarts
    <2> DEFINE r(tab) == [run EXCEPT !.tab = tab, !.prior = workspace.activeId]
    <2>1. \A tab \in Nat : r(tab) \in RunType /\ r(tab).op = "adopt"
        BY <1>4, OwnedParts DEF RunType, AdoptStarts
    <2>2. Nothing \in Nat
        BY DEF Nothing
    <2>3. \/ Await(r(Nothing), "leaving") /\ UNCHANGED workspace
          \/ ActivateThen(workspace, r(workspace.activeId), "entering")
        BY <1>4 DEF AdoptStarts
    <2> HIDE DEF r
    <2>4. CASE Await(r(Nothing), "leaving") /\ UNCHANGED workspace
        <3>1. run'.await = "leaving"
            BY <2>1, <2>2, <2>4 DEF Await, RunType
        <3>. QED
            BY <1>1, <2>4, <3>1 DEF CalmOK
    <2>5. CASE ActivateThen(workspace, r(workspace.activeId), "entering")
        BY <1>1, <1>2, <1>3, <2>1, <2>5, OwnedParts, CalmThen
    <2>. QED
        BY <2>3, <2>4, <2>5
<1>5. CASE AdoptLeft
    <2> DEFINE r(w) == [run EXCEPT !.tab = StageAdoption(w).activeId]
    <2>1. run.op = "adopt" /\ run.prior = workspace.activeId
        BY <1>5, OwnedParts DEF RunOK, AdoptLeft
    <2>2. PICK out \in DeactivationOutcomes(workspace, workspace.activeId) :
              \/ Done /\ workspace' = out.w
              \/ ActivateThen(out.w, run, "undone")
              \/ ActivateThen(StageAdoption(out.w), r(out.w), "entering")
        BY <1>5, <2>1 DEF AdoptLeft, AdoptionFails
    <2>3. Clear(out.w) /\ Shape(out.w) /\ out.w.activeId \in Ids(out.w)
        BY <1>1, OwnedParts, LeftFacts, LeftSessions
    <2>4. ClearBut(out.w, out.w.activeId)
        BY <2>3, ClearIsClearBut
    <2>5. CASE Done /\ workspace' = out.w
        BY <2>4, <2>5, CalmOver
    <2>6. CASE ActivateThen(out.w, run, "undone")
        BY <1>2, <1>3, <2>1, <2>3, <2>4, <2>6, OwnedParts, CalmThen
    <2>7. CASE ActivateThen(StageAdoption(out.w), r(out.w), "entering")
        <3> DEFINE u == StageAdoption(out.w)
                   id == out.w.nextId
        <3>1. /\ Shape(u) /\ Ids(u) = Ids(out.w) \cup {id} /\ u.activeId = id
              /\ TabOf(u, id).session = "inactive" /\ \A j \in Ids(out.w) : TabOf(u, j) = TabOf(out.w, j)
            BY <2>3, StageFacts
        <3> HIDE DEF u
        <3>2. ClearBut(u, u.activeId)
            BY <2>3, <3>1 DEF Clear, ClearBut, Foreground
        <3>3. u.activeId \in Nat
            BY <3>1 DEF Shape
        <3>4. r(out.w) \in RunType /\ r(out.w).op = "adopt"
            BY <2>1, <3>3, OwnedParts DEF RunType, u
        <3> HIDE DEF r
        <3>5. ActivateThen(u, r(out.w), "entering")
            BY <2>7 DEF u
        <3>. QED
            BY <1>2, <1>3, <3>1, <3>2, <3>4, <3>5, CalmThen
    <2>. QED
        BY <2>2, <2>5, <2>6, <2>7
<1>6. CASE AdoptEntered
    <2>1. run.tab = workspace.activeId
        BY <1>6, OwnedParts DEF RunOK, AdoptEntered
    <2>2. PICK out \in ActivationOutcomes(workspace) :
              (Await(run, "opening") /\ workspace' = out.w) \/ Undo(out.w)
        BY <1>6 DEF AdoptEntered
    <2>3. Like(workspace, out.w) /\ out.w.activeId \in Ids(out.w) /\ run.tab = out.w.activeId
        BY <2>1, EnteredFacts
    <2>4. ClearBut(out.w, out.w.activeId)
        BY <1>1, EnteredSessions
    <2>5. CASE Await(run, "opening") /\ workspace' = out.w
        <3>1. run'.await = "opening"
            BY <2>5, OwnedParts DEF Await, RunType
        <3>. QED
            BY <2>4, <2>5, <3>1 DEF CalmOK
    <2>6. CASE Undo(out.w)
        BY <2>3, <2>4, <2>6, CalmUndo
    <2>. QED
        BY <2>2, <2>5, <2>6
<1>7. CASE DocumentOpened
    <2> DEFINE u == CommitAdoption(WithTab(workspace, run.tab, [TabOf(workspace, run.tab) EXCEPT !.doc = run.req]), run.tab)
    <2>1. run.await = "opening" /\ (ActivateThen(u, run, "presenting") \/ Undo(workspace))
        BY <1>7 DEF DocumentOpened
    <2>2. run.op = "adopt" /\ run.tab = workspace.activeId
        BY <2>1, OwnedParts DEF RunOK
    <2>3. /\ Shape(u) /\ Ids(u) = Ids(workspace) /\ u.activeId = run.tab
          /\ TabOf(u, run.tab).session = TabOf(workspace, run.tab).session
          /\ \A j \in Ids(workspace) : j # run.tab => TabOf(u, j) = TabOf(workspace, j)
        BY <2>1, CommittedFacts
    <2> HIDE DEF u
    <2>4. ClearBut(u, u.activeId) /\ u.activeId \in Ids(u)
        BY <1>1, <2>2, <2>3, OwnedParts DEF ClearBut
    <2>5. CASE ActivateThen(u, run, "presenting")
        BY <1>2, <1>3, <2>2, <2>3, <2>4, <2>5, OwnedParts, CalmThen
    <2>6. CASE Undo(workspace)
        BY <1>1, <2>2, <2>6, OwnedParts, CalmUndo
    <2>. QED
        BY <2>1, <2>5, <2>6
<1>8. CASE Presented
    BY <1>1, <1>8, EnteredSessions, CalmOver DEF Presented
<1>9. CASE AdoptUndone
    <2>1. PICK out \in ActivationOutcomes(workspace) : workspace' = out.w /\ Done
        BY <1>9 DEF AdoptUndone, AdoptionFails
    <2>. QED
        BY <1>1, <2>1, EnteredSessions, CalmOver
<1>. QED
    BY <1>4, <1>5, <1>6, <1>7, <1>8, <1>9

\* The transition under way is as it was, or one has begun.
LEMMA EnqueueFacts ==
    ASSUME NEW item, Enqueue(item)
    PROVE  run' = run \/ (run = NoRun /\ run' = Running(item, "start") /\ queue' = queue)
    BY DEF Enqueue

LEMMA AskFacts ==
    ASSUME User \/ RequestClient
    PROVE  workspace' = workspace /\ (run' = run \/ run'.await = "start")
<1>1. \A item : Enqueue(item) => run' = run \/ run'.await = "start"
    BY EnqueueFacts DEF Running
<1>2. CASE User
    BY <1>1, <1>2 DEF User, SwitchTab, SwitchAdjacentTab, CloseTab
<1>3. CASE RequestClient
    BY <1>1, <1>3 DEF RequestClient, Adopt, Acknowledged, AckRefused, Rejected, HandleOpenTerminal
<1>. QED
    BY <1>2, <1>3

LEMMA CalmNext ==
    ASSUME WorkspaceAssumption, OwnedInv, CalmOK(workspace, run), [Next]_vars,
           run.op = "rollback" /\ run.await = "start" => run.tab = workspace.activeId
    PROVE  CalmOK(workspace', run')
<1>1. CASE User \/ RequestClient
    <2>1. workspace' = workspace /\ (run' = run \/ run'.await = "start")
        BY <1>1, AskFacts
    <2>. QED
        BY <2>1 DEF CalmOK
<1>2. CASE Transition
    <2>1. SettleStarts => run.await = "start"
        BY DEF SettleStarts
    <2>. QED
        BY <1>2, <2>1, CalmSwitch, CalmClose, CalmAdopt, CalmSettle DEF Transition
<1>3. CASE UNCHANGED vars
    BY <1>3 DEF vars
<1>. QED
    BY <1>1, <1>2, <1>3 DEF Next

-----------------------------------------------------------------------------
(* What every transition does with the queue and with requests               *)

LEMMA AwaitFacts ==
    ASSUME run \in RunType, NEW tab, NEW prior, NEW await,
           \/ Await(run, await)
           \/ Await([run EXCEPT !.tab = tab], await)
           \/ Await([run EXCEPT !.tab = tab, !.prior = prior], await)
    PROVE  run'.op = run.op /\ run'.await = await /\ queue' = queue
    BY DEF Await, RunType

\* A transition goes on until it is over.
GoesOn == run'.op = run.op /\ queue' = queue /\ run'.await # "start" /\ run' # NoRun

LEMMA LastStep ==
    ASSUME run'.op = run.op, queue' = queue, run'.await = "last", run.op # "close"
    PROVE  GoesOn
    BY NoRunFacts DEF GoesOn

LEMMA NotLastStep ==
    ASSUME run'.op = run.op, queue' = queue, run'.await \notin {"last", "start"}
    PROVE  GoesOn
    BY NoRunFacts DEF GoesOn

LEMMA SwitchStep ==
    ASSUME OwnedInv, SwitchStarts \/ PriorLeft \/ TargetEntered \/ LastActivationEnds
    PROVE  run # NoRun /\ (Done \/ GoesOn) /\ UNCHANGED <<requests, adoptions>>
<1>1. run \in RunType
    BY OwnedParts
<1>2. CASE SwitchStarts
    <2> DEFINE r == [run EXCEPT !.tab = SwitchTarget, !.prior = workspace.activeId]
    <2>1. run.await = "start" /\ run.op # "close" /\ UNCHANGED <<requests, adoptions>>
        BY <1>2 DEF SwitchStarts, Switching, Kind
    <2>2. Done \/ Await(r, "leaving") \/ Await(r, "last")
        BY <1>2 DEF SwitchStarts, ActivateThen
    <2>3. Done \/ (run'.op = run.op /\ queue' = queue /\ run'.await \in {"leaving", "last"})
        BY <1>1, <2>2, AwaitFacts
    <2>. QED
        BY <2>1, <2>3, LastStep, NotLastStep, NoRunFacts
<1>3. CASE PriorLeft
    <2>1. run.await = "leaving" /\ run.op # "close" /\ UNCHANGED <<requests, adoptions>>
        BY <1>3 DEF PriorLeft, Switching, Kind
    <2>2. Done \/ Await(run, "entering") \/ Await(run, "last")
        BY <1>3 DEF PriorLeft, ActivateThen
    <2>3. Done \/ (run'.op = run.op /\ queue' = queue /\ run'.await \in {"entering", "last"})
        BY <1>1, <2>2, AwaitFacts
    <2>. QED
        BY <2>1, <2>3, LastStep, NotLastStep, NoRunFacts
<1>4. CASE TargetEntered
    <2>1. run.await = "entering" /\ run.op # "close" /\ UNCHANGED <<requests, adoptions>>
        BY <1>4 DEF TargetEntered, Switching, Kind
    <2>2. Done \/ Await(run, "last")
        BY <1>4 DEF TargetEntered, ActivateThen
    <2>3. Done \/ (run'.op = run.op /\ queue' = queue /\ run'.await = "last")
        BY <1>1, <2>2, AwaitFacts
    <2>. QED
        BY <2>1, <2>3, LastStep, NoRunFacts
<1>5. CASE LastActivationEnds
    BY <1>5 DEF LastActivationEnds
<1>. QED
    BY <1>2, <1>3, <1>4, <1>5

LEMMA CloseStep ==
    ASSUME OwnedInv, CloseStarts \/ SettleStarts
    PROVE  run # NoRun /\ (Done \/ GoesOn) /\ UNCHANGED <<requests, adoptions>>
<1>1. run \in RunType
    BY OwnedParts
<1>2. CASE CloseStarts
    <2>1. run.await = "start" /\ run.op = "close" /\ UNCHANGED <<requests, adoptions>>
        BY <1>2 DEF CloseStarts
    <2>2. run.tab # Nothing
        BY <2>1, OwnedParts DEF RunOK, ItemOK
    <2>3. Done \/ Await(run, "last")
        BY <1>2 DEF CloseStarts, ActivateThen
    <2>4. ASSUME Await(run, "last") PROVE GoesOn
        <3>1. run'.op = run.op /\ run'.tab = run.tab /\ run'.await = "last" /\ queue' = queue
            BY <1>1, <2>4 DEF Await, RunType
        <3>. QED
            BY <2>2, <3>1, NoRunFacts DEF GoesOn
    <2>. QED
        BY <2>1, <2>3, <2>4, NoRunFacts
<1>3. CASE SettleStarts
    <2>1. run.await = "start" /\ run.op # "close" /\ UNCHANGED <<requests, adoptions>>
        BY <1>3 DEF SettleStarts
    <2>2. Await(run, "last")
        BY <1>3 DEF SettleStarts, ActivateThen
    <2>. QED
        BY <1>1, <2>1, <2>2, AwaitFacts, LastStep, NoRunFacts
<1>. QED
    BY <1>2, <1>3

\* An adoption changes what is recorded of its own request, which is being adopted until it ends.
AdoptRecorded ==
    \/ requests' = requests /\ \A s \in Requests : s # run.req => adoptions'[s] = adoptions[s]
    \/ AdoptionFails(workspace')

LEMMA AdoptStep ==
    ASSUME OwnedInv, AdoptStarts \/ AdoptLeft \/ AdoptEntered \/ DocumentOpened \/ AdoptUndone
    PROVE  run.op = "adopt" /\ run # NoRun /\ (Done \/ GoesOn) /\ AdoptRecorded
<1>1. run \in RunType /\ run.op = "adopt" /\ adoptions \in [Requests -> AdoptionType]
    BY OwnedParts DEF RunOK, AdoptStarts, AdoptLeft, AdoptEntered, DocumentOpened, AdoptUndone
<1>2. run # NoRun
    BY <1>1, NoRunFacts
<1>3. ASSUME NEW x, adoptions' = [adoptions EXCEPT ![run.req] = x], requests' = requests PROVE AdoptRecorded
    BY <1>1, <1>3 DEF AdoptRecorded
<1>4. adoptions' = adoptions /\ requests' = requests => AdoptRecorded
    BY DEF AdoptRecorded
<1>5. ASSUME NEW w, Undo(w) PROVE GoesOn /\ AdoptRecorded
    <2>1. Await(run, "undone") /\ requests' = requests /\ adoptions' = [adoptions EXCEPT ![run.req] = NoAdoption]
        BY <1>5 DEF Undo, ActivateThen
    <2>2. run'.op = run.op /\ run'.await = "undone" /\ queue' = queue
        BY <1>1, <2>1, AwaitFacts
    <2>. QED
        BY <1>3, <2>1, <2>2, NotLastStep
<1>6. ASSUME NEW w, AdoptionFails(w) PROVE Done /\ AdoptRecorded
    BY <1>6 DEF AdoptionFails, AdoptRecorded
<1>7. CASE AdoptStarts
    <2> DEFINE prior == workspace.activeId
               r(tab) == [run EXCEPT !.tab = tab, !.prior = prior]
    <2>1. \/ Await(r(Nothing), "leaving") /\ adoptions' = adoptions
          \/ Await(r(prior), "entering") /\ adoptions' = [adoptions EXCEPT ![run.req] = Adoption(prior, prior)]
        BY <1>7 DEF AdoptStarts, ActivateThen
    <2>2. requests' = requests
        BY <1>7 DEF AdoptStarts
    <2>3. run'.op = run.op /\ run'.await \in {"leaving", "entering"} /\ queue' = queue
        BY <1>1, <2>1, AwaitFacts
    <2> HIDE DEF r
    <2>. QED
        BY <1>1, <1>2, <1>3, <1>4, <2>1, <2>2, <2>3, NotLastStep
<1>8. CASE AdoptLeft
    <2> DEFINE id(w) == StageAdoption(w).activeId
               r(w) == [run EXCEPT !.tab = id(w)]
    <2>1. PICK out \in DeactivationOutcomes(workspace, run.prior) :
              \/ AdoptionFails(out.w)
              \/ Await(run, "undone") /\ UNCHANGED <<requests, adoptions>>
              \/ /\ Await(r(out.w), "entering") /\ UNCHANGED requests
                 /\ adoptions' = [adoptions EXCEPT ![run.req] = Adoption(id(out.w), run.prior)]
        BY <1>8 DEF AdoptLeft, ActivateThen
    <2> HIDE DEF id
    <2>2. Await(run, "undone") \/ Await(r(out.w), "entering") =>
              run'.op = run.op /\ run'.await \in {"undone", "entering"} /\ queue' = queue
        BY <1>1, AwaitFacts
    <2> HIDE DEF r
    <2>3. CASE AdoptionFails(out.w)
        BY <1>1, <1>2, <1>6, <2>3
    <2>4. CASE Await(run, "undone") /\ UNCHANGED <<requests, adoptions>>
        BY <1>1, <1>2, <1>4, <2>2, <2>4, NotLastStep
    <2>5. CASE /\ Await(r(out.w), "entering") /\ UNCHANGED requests
               /\ adoptions' = [adoptions EXCEPT ![run.req] = Adoption(id(out.w), run.prior)]
        BY <1>1, <1>2, <1>3, <2>2, <2>5, NotLastStep
    <2>. QED
        BY <2>1, <2>3, <2>4, <2>5
<1>9. CASE AdoptEntered
    <2>1. PICK out \in ActivationOutcomes(workspace) :
              (Await(run, "opening") /\ UNCHANGED <<requests, adoptions>>) \/ Undo(out.w)
        BY <1>9 DEF AdoptEntered
    <2>2. Await(run, "opening") => run'.op = run.op /\ run'.await = "opening" /\ queue' = queue
        BY <1>1, AwaitFacts
    <2>. QED
        BY <1>1, <1>2, <1>4, <1>5, <2>1, <2>2, NotLastStep
<1>10. CASE DocumentOpened
    <2>1. (Await(run, "presenting") /\ UNCHANGED <<requests, adoptions>>) \/ Undo(workspace)
        BY <1>10 DEF DocumentOpened, ActivateThen
    <2>2. Await(run, "presenting") => run'.op = run.op /\ run'.await = "presenting" /\ queue' = queue
        BY <1>1, AwaitFacts
    <2>. QED
        BY <1>1, <1>2, <1>4, <1>5, <2>1, <2>2, NotLastStep
<1>11. CASE AdoptUndone
    BY <1>1, <1>2, <1>6, <1>11 DEF AdoptUndone
<1>. QED
    BY <1>7, <1>8, <1>9, <1>10, <1>11

-----------------------------------------------------------------------------
(* If the user waits for an open to end, its settling finds the window as    *)
(* the open left it.                                                         *)

\* At most the last item of the queue settles something, and it adopts.
AdoptsLast(q) == \A i \in DOMAIN q : Kind(q[i].op) = "ownership" => q[i].op = "adopt" /\ i = Len(q)

LEMMA IdleQueue ==
    ASSUME OwnedInv, AdoptsLast(queue), run.op = "adopt" => queue = <<>>, Done \/ GoesOn
    PROVE  /\ AdoptsLast(queue') /\ (run'.op = "adopt" => queue' = <<>>)
           /\ ~(run'.op = "rollback" /\ run'.await = "start")
           /\ run.op = "adopt" /\ Done => run' = NoRun
<1>1. queue \in Seq(ItemType)
    BY OwnedParts
<1>2. CASE GoesOn
    <2>1. ~Done \/ run.op # "adopt" \/ run' = NoRun
        BY DEF Done
    <2>. QED
        BY <1>2, <2>1 DEF GoesOn
<1>3. CASE Done /\ queue = <<>>
    <2>1. run' = NoRun /\ queue' = <<>>
        BY <1>3 DEF Done
    <2>. QED
        BY <2>1, NoRunFacts DEF AdoptsLast
<1>4. CASE Done /\ queue # <<>>
    <2> DEFINE it == Head(queue)
    <2>1. run' = Running(it, "start") /\ queue' = Tail(queue)
        BY <1>4 DEF Done
    <2>2. /\ Tail(queue) \in Seq(ItemType) /\ it \in ItemType /\ it = queue[1] /\ 1 \in DOMAIN queue
          /\ \A k \in DOMAIN Tail(queue) : k + 1 \in DOMAIN queue /\ Tail(queue)[k] = queue[k + 1]
        BY <1>1, <1>4, TailFacts
    <2>3. Len(queue) \in Nat /\ Len(queue) # 0 /\ Len(queue') = Len(queue) - 1 /\ DOMAIN queue' \subseteq Nat
        BY <1>1, <1>4, <2>1
    <2> HIDE DEF it
    <2>4. run'.op = it.op
        BY <2>1, <2>2, RunningFacts
    <2>5. AdoptsLast(queue')
        <3> SUFFICES ASSUME NEW k \in DOMAIN queue', Kind(queue'[k].op) = "ownership"
                     PROVE  queue'[k].op = "adopt" /\ k = Len(queue')
            BY DEF AdoptsLast
        <3>1. k + 1 \in DOMAIN queue /\ queue'[k] = queue[k + 1] /\ k \in Nat
            BY <2>1, <2>2, <2>3
        <3>2. queue[k + 1].op = "adopt" /\ k + 1 = Len(queue)
            BY <3>1 DEF AdoptsLast
        <3>. QED
            BY <2>3, <3>1, <3>2
    <2>6. Kind(it.op) = "ownership" => it.op = "adopt" /\ Len(queue) = 1
        BY <2>2 DEF AdoptsLast
    <2>7. run'.op = "adopt" => queue' = <<>>
        <3>1. it.op = "adopt" => Len(queue) = 1
            BY <2>6 DEF Kind
        <3>2. it.op = "adopt" => Len(queue') = 0
            <4>1. 1 - 1 = 0
                OBVIOUS
            <4>. QED
                BY <2>3, <3>1, <4>1, Zenon
        <3>3. queue' \in Seq(ItemType)
            BY <2>1, <2>2
        <3>. QED
            BY <2>4, <3>2, <3>3
    <2>8. run'.op # "rollback"
        BY <2>4, <2>6 DEF Kind
    <2>. QED
        BY <1>4, <2>5, <2>7, <2>8
<1>. QED
    BY <1>2, <1>3, <1>4

LEMMA IdleTransition ==
    ASSUME WorkspaceAssumption, OwnedInv, IdleOK(workspace, run, queue, requests, adoptions), Transition
    PROVE  IdleOK(workspace', run', queue', requests', adoptions')
<1>1. AdoptsLast(queue) /\ (run.op = "adopt" => queue = <<>>)
    BY DEF IdleOK, AdoptsLast
<1>2. ASSUME Done \/ GoesOn, run # NoRun,
             \A s \in Requests : requests'[s] \in {"ack", "reject"} /\ adoptions'[s].id # Nothing =>
                 requests'[s] = requests[s] /\ adoptions'[s] = adoptions[s]
      PROVE  IdleOK(workspace', run', queue', requests', adoptions')
    <2>1. \A s \in Requests : ~(requests'[s] \in {"ack", "reject"} /\ adoptions'[s].id # Nothing)
        BY <1>2 DEF IdleOK
    <2>. QED
        BY <1>1, <1>2, <2>1, IdleQueue DEF IdleOK, AdoptsLast
<1>3. CASE SwitchStarts \/ PriorLeft \/ TargetEntered \/ LastActivationEnds \/ CloseStarts \/ SettleStarts
    <2>1. run # NoRun /\ (Done \/ GoesOn) /\ UNCHANGED <<requests, adoptions>>
        BY <1>3, SwitchStep, CloseStep
    <2>. QED
        BY <1>2, <2>1
<1>4. CASE AdoptStarts \/ AdoptLeft \/ AdoptEntered \/ DocumentOpened \/ AdoptUndone
    <2>1. run.op = "adopt" /\ run # NoRun /\ (Done \/ GoesOn) /\ AdoptRecorded
        BY <1>4, AdoptStep
    <2>2. /\ run.req \in Requests /\ requests[run.req] = "adopting"
          /\ requests \in [Requests -> RequestState] /\ adoptions \in [Requests -> AdoptionType]
        BY <2>1, OwnedParts DEF RunOK
    <2>3. ASSUME NEW s \in Requests, requests'[s] \in {"ack", "reject"}, adoptions'[s].id # Nothing
          PROVE  requests'[s] = requests[s] /\ adoptions'[s] = adoptions[s]
        <3>1. CASE requests' = requests /\ \A t \in Requests : t # run.req => adoptions'[t] = adoptions[t]
            BY <2>2, <2>3, <3>1
        <3>2. CASE AdoptionFails(workspace')
            <4>1. adoptions' = [adoptions EXCEPT ![run.req] = NoAdoption] /\ requests' = [requests EXCEPT ![run.req] = "reject"]
                BY <3>2 DEF AdoptionFails
            <4>2. s # run.req
                BY <2>2, <2>3, <4>1 DEF NoAdoption
            <4>. QED
                BY <2>2, <4>1, <4>2
        <3>. QED
            BY <2>1, <3>1, <3>2 DEF AdoptRecorded
    <2>. QED
        BY <1>2, <2>1, <2>3
<1>5. CASE Presented
    <2>1. run.await = "presenting" /\ Done /\ adoptions' = adoptions
        BY <1>5 DEF Presented
    <2>2. /\ run.op = "adopt" /\ run.req \in Requests
          /\ run.tab = workspace.activeId /\ adoptions[run.req].id = run.tab
        BY <2>1, OwnedParts DEF RunOK
    <2>3. PICK out \in ActivationOutcomes(workspace) :
              /\ workspace' = out.w
              /\ requests' = [requests EXCEPT ![run.req] = IF out.ok THEN "ack" ELSE "reject"]
        BY <1>5 DEF Presented
    <2>4. workspace'.activeId = workspace.activeId
        BY <2>3, EnteredFacts
    <2>5. AdoptsLast(queue') /\ (run'.op = "adopt" => queue' = <<>>) /\ run' = NoRun
          /\ ~(run'.op = "rollback" /\ run'.await = "start")
        BY <1>1, <2>1, <2>2, IdleQueue
    <2>6. ASSUME NEW s \in Requests, requests'[s] \in {"ack", "reject"}, adoptions'[s].id # Nothing
          PROVE  run' = NoRun /\ workspace'.activeId = adoptions'[s].id
        <3>1. CASE s = run.req
            BY <2>1, <2>2, <2>4, <2>5, <3>1
        <3>2. CASE s # run.req
            <4>1. requests'[s] = requests[s]
                BY <2>3, <3>2, OwnedParts
            <4>2. run = NoRun
                BY <2>1, <2>6, <4>1 DEF IdleOK
            <4>. QED
                BY <2>2, <4>2, NoRunFacts
        <3>. QED
            BY <3>1, <3>2
    <2>. QED
        BY <2>5, <2>6 DEF IdleOK, AdoptsLast
<1>. QED
    BY <1>3, <1>4, <1>5 DEF Transition

\* An item that settles nothing, or the adoption of a request when nothing is settled.
LEMMA IdleEnqueue ==
    ASSUME OwnedInv, AdoptsLast(queue), NEW item \in ItemType, Enqueue(item), item.op \notin {"accept", "rollback"},
           \A k \in DOMAIN queue : Kind(queue[k].op) # "ownership"
    PROVE  /\ AdoptsLast(queue')
           /\ run' = run \/ (queue' = <<>> /\ run'.op = item.op)
<1>1. queue \in Seq(ItemType) /\ (run = NoRun => queue = <<>>)
    BY OwnedParts DEF RunOK
<1>2. CASE run = NoRun
    <2>1. run' = Running(item, "start") /\ queue' = <<>>
        BY <1>1, <1>2 DEF Enqueue
    <2>2. run'.op = item.op
        BY <2>1, RunningFacts
    <2>. QED
        BY <2>1, <2>2 DEF AdoptsLast
<1>3. CASE run # NoRun
    <2>1. run' = run /\ queue' = IF Coalesces(item) THEN Append(Front(queue), item)
                                 ELSE IF Full(Kind(item.op)) THEN queue ELSE Append(queue, item)
        BY <1>3 DEF Enqueue
    <2>2. ASSUME NEW b, Grown(queue, b, item, queue') PROVE AdoptsLast(queue')
        <3>1. /\ queue' \in Seq(ItemType) /\ Len(b) \in Nat /\ DOMAIN queue' = 1 .. (Len(b) + 1)
              /\ queue'[Len(b) + 1] = item
              /\ \A k \in DOMAIN b : k \in DOMAIN queue /\ queue'[k] = queue[k]
              /\ \A k \in DOMAIN queue' : k \in DOMAIN b \/ k = Len(b) + 1
            BY <1>1, <2>2, GrownFacts DEF Grown
        <3>2. Len(queue') = Len(b) + 1
            BY <3>1
        <3>3. Kind(item.op) = "ownership" => item.op = "adopt"
            BY DEF Kind, ItemType, Ops
        <3>. QED
            BY <3>1, <3>2, <3>3 DEF AdoptsLast
    <2>3. \/ queue' = queue
          \/ \E b : Grown(queue, b, item, queue')
        <3>1. CASE Coalesces(item)
            <4>1. queue' = Append(Front(queue), item)
                BY <2>1, <3>1
            <4>2. Grown(queue, Front(queue), item, queue')
                BY <1>1, <3>1, <4>1, FrontGrown
            <4>. QED
                BY <4>2
        <3>2. CASE ~Coalesces(item)
            <4>1. queue' = queue \/ queue' = Append(queue, item)
                BY <2>1, <3>2
            <4>2. queue' = Append(queue, item) => Grown(queue, queue, item, queue')
                BY <1>1 DEF Grown
            <4>. QED
                BY <4>1, <4>2
        <3>. QED
            BY <3>1, <3>2
    <2>4. AdoptsLast(queue')
        BY <2>2, <2>3
    <2>. QED
        BY <2>1, <2>4
<1>. QED
    BY <1>2, <1>3

LEMMA IdleUser ==
    ASSUME OwnedInv, IdleOK(workspace, run, queue, requests, adoptions), User, ~conditions.userActsDuringOpen
    PROVE  IdleOK(workspace', run', queue', requests', adoptions')
<1>1. ~OpenUnderWay /\ UNCHANGED <<workspace, requests, adoptions>>
    BY DEF User, SwitchTab, SwitchAdjacentTab, CloseTab, UserMayAct
<1>2. /\ \A s \in Requests : requests[s] \notin {"adopting", "ack", "reject"}
      /\ run.op # "rollback" /\ \A k \in DOMAIN queue : Kind(queue[k].op) # "ownership"
    BY <1>1 DEF OpenUnderWay
<1>3. run.op # "adopt"
    BY <1>2, NobodyAdopts
<1>4. PICK op \in {"switch", "next", "previous", "close"}, id \in Nat : Enqueue(Item(op, id, Nothing, Nothing))
    <2>1. \A id \in TabIds : id \in Nat
        BY OwnedParts, IdFacts DEF TabIds, Ids
    <2>2. Nothing \in Nat
        BY DEF Nothing
    <2>. QED
        BY <2>1, <2>2 DEF User, SwitchTab, SwitchAdjacentTab, CloseTab
<1> DEFINE item == Item(op, id, Nothing, Nothing)
<1>5. item \in ItemType /\ item.op \notin {"accept", "rollback"}
    BY DEF Item, ItemType, Ops, Nothing
<1> HIDE DEF item
<1>6. Enqueue(item)
    BY <1>4 DEF item
<1>7. AdoptsLast(queue)
    BY DEF IdleOK, AdoptsLast
<1>8. AdoptsLast(queue') /\ (run' = run \/ (queue' = <<>> /\ run'.op = item.op))
    BY <1>2, <1>5, <1>6, <1>7, IdleEnqueue
<1>. QED
    BY <1>1, <1>2, <1>3, <1>5, <1>8 DEF IdleOK, AdoptsLast

\* What the request client does with a request that is handed over.
LEMMA TerminalFacts ==
    ASSUME OwnedInv, NEW r \in Requests, requests[r] \in {"ack", "reject"}, NEW accepted, HandleOpenTerminal(r, accepted)
    PROVE  /\ \A s \in Requests : requests'[s] \notin {"ack", "reject"}
           /\ \A k \in DOMAIN queue : queue[k].op # "adopt"
<1>1. /\ requests \in [Requests -> RequestState] /\ AdoptionsOK(adoptions, queue, workspace, requests)
    BY OwnedParts
<1>2. \A s \in Flying(requests) : s = r
    BY <1>1 DEF AdoptionsOK, Flying
<1>3. requests' = [requests EXCEPT ![r] = IF accepted THEN "adopted" ELSE "refused"]
    BY DEF HandleOpenTerminal
<1>4. \A s \in Requests : s # r => requests[s] \notin {"adopting", "ack", "reject"}
    BY <1>2 DEF Flying
<1>5. \A s \in Requests : requests'[s] \notin {"ack", "reject"}
    BY <1>1, <1>3, <1>4
<1>6. \A s \in Requests : requests[s] # "adopting"
    BY <1>4
<1>. QED
    BY <1>5, <1>6, NobodyAdopts

LEMMA IdleTerminal ==
    ASSUME OwnedInv, IdleOK(workspace, run, queue, requests, adoptions),
           NEW r \in Requests, requests[r] \in {"ack", "reject"}, NEW accepted, HandleOpenTerminal(r, accepted)
    PROVE  IdleOK(workspace', run', queue', requests', adoptions')
<1> DEFINE id == adoptions[r].id
           item == Item(IF accepted THEN "accept" ELSE "rollback", id, adoptions[r].priorActiveId, r)
<1>1. /\ workspace' = workspace /\ \A s \in Requests : requests'[s] \notin {"ack", "reject"}
    BY TerminalFacts DEF HandleOpenTerminal
<1>2. IF id = Nothing THEN UNCHANGED <<queue, run>> ELSE Enqueue(item)
    BY DEF HandleOpenTerminal
<1>3. CASE id = Nothing
    BY <1>1, <1>2, <1>3 DEF IdleOK
<1>4. CASE id # Nothing
    <2>1. run = NoRun /\ workspace.activeId = id
        BY <1>4 DEF IdleOK
    <2>2. run' = Running(item, "start") /\ queue' = queue
        BY <1>2, <1>4, <2>1 DEF Enqueue
    <2>3. run'.op \in {"accept", "rollback"} /\ run'.tab = id
        BY <2>2 DEF Running, Item
    <2>. QED
        BY <1>1, <2>1, <2>2, <2>3 DEF IdleOK
<1>. QED
    BY <1>3, <1>4

LEMMA IdleClient ==
    ASSUME OwnedInv, IdleOK(workspace, run, queue, requests, adoptions), RequestClient
    PROVE  IdleOK(workspace', run', queue', requests', adoptions')
<1>1. PICK r \in Requests : Adopt(r) \/ Acknowledged(r) \/ AckRefused(r) \/ Rejected(r)
    BY DEF RequestClient
<1>2. CASE Acknowledged(r) \/ AckRefused(r) \/ Rejected(r)
    BY <1>2, IdleTerminal DEF Acknowledged, AckRefused, Rejected
<1>3. CASE Adopt(r)
    <2> DEFINE item == Item("adopt", Nothing, Nothing, r)
    <2>1. (\A s \in Requests : requests[s] \notin {"adopting", "ack", "reject"}) /\ workspace' = workspace
        BY <1>3 DEF Adopt, InFlight
    <2>2. /\ \A s \in Requests : adoptions[s].id = Nothing
          /\ requests \in [Requests -> RequestState] /\ adoptions \in [Requests -> AdoptionType]
        BY <2>1, OwnedParts DEF AdoptionsOK, Flying
    <2>3. run.op # "adopt" /\ \A k \in DOMAIN queue : queue[k].op # "adopt"
        BY <2>1, NobodyAdopts
    <2>4. \/ /\ requests' = [requests EXCEPT ![r] = "reject"] /\ UNCHANGED <<queue, run, adoptions>>
          \/ /\ requests' = [requests EXCEPT ![r] = "adopting"] /\ Enqueue(item)
        BY <1>3 DEF Adopt
    <2>5. CASE /\ requests' = [requests EXCEPT ![r] = "reject"] /\ UNCHANGED <<queue, run, adoptions>>
        BY <2>1, <2>2, <2>5 DEF IdleOK
    <2>6. CASE /\ requests' = [requests EXCEPT ![r] = "adopting"] /\ Enqueue(item)
        <3>1. \A s \in Requests : requests'[s] \notin {"ack", "reject"}
            BY <2>1, <2>2, <2>6
        <3>2. AdoptsLast(queue) /\ \A k \in DOMAIN queue : Kind(queue[k].op) # "ownership"
            BY <2>3 DEF IdleOK, AdoptsLast
        <3>3. item \in ItemType /\ item.op = "adopt"
            BY DEF Item, ItemType, Ops, Nothing
        <3> HIDE DEF item
        <3>4. AdoptsLast(queue') /\ (run' = run \/ (queue' = <<>> /\ run'.op = "adopt"))
            BY <2>6, <3>2, <3>3, IdleEnqueue
        <3>. QED
            BY <2>1, <2>3, <3>1, <3>4 DEF IdleOK, AdoptsLast
    <2>. QED
        BY <2>4, <2>5, <2>6
<1>. QED
    BY <1>1, <1>2, <1>3

-----------------------------------------------------------------------------
(* If sessions never fail, the selected tab is active between transitions    *)

Fit(w) == SelectedTab(w).doc # Nothing => SelectedTab(w).session = "active"

NoneRejected(reqs, ad) == \A s \in Requests : reqs[s] = "reject" => ad[s].id = Nothing

LEMMA HealthKept ==
    ASSUME Well(workspace'), NoneRejected(requests', adoptions'), GoesOn \/ Fit(workspace')
    PROVE  HealthOK(workspace', run', requests', adoptions')
    BY DEF HealthOK, NoneRejected, Fit, GoesOn

LEMMA ThenGoesOn ==
    ASSUME run \in RunType, run.op # "close", NEW u, NEW tab, NEW prior, NEW await, await # "start",
           \/ ActivateThen(u, run, await)
           \/ ActivateThen(u, [run EXCEPT !.tab = tab], await)
           \/ ActivateThen(u, [run EXCEPT !.tab = tab, !.prior = prior], await)
    PROVE  GoesOn
<1>1. run'.op = run.op /\ run'.await = await /\ queue' = queue
    BY AwaitFacts DEF ActivateThen
<1>. QED
    BY <1>1, NoRunFacts DEF GoesOn

LEMMA HealthSwitch ==
    ASSUME OwnedInv, ~conditions.sessionsMayFail, HealthOK(workspace, run, requests, adoptions),
           SwitchStarts \/ PriorLeft \/ TargetEntered \/ LastActivationEnds
    PROVE  Well(workspace') /\ (GoesOn \/ Fit(workspace'))
<1>1. Well(workspace) /\ run \in RunType
    BY OwnedParts DEF HealthOK
<1>2. CASE SwitchStarts
    <2> DEFINE r == [run EXCEPT !.tab = SwitchTarget, !.prior = workspace.activeId]
    <2>1. run.await = "start" /\ run.op # "close"
        BY <1>2 DEF SwitchStarts, Switching, Kind
    <2>2. workspace' = workspace \/ ActivateThen(workspace, r, "last")
        BY <1>2 DEF SwitchStarts
    <2>3. CASE workspace' = workspace
        BY <1>1, <2>1, <2>3 DEF HealthOK, Fit
    <2>4. CASE ActivateThen(workspace, r, "last")
        BY <1>1, <2>1, <2>4, OwnedParts, ThenSessions, ThenGoesOn
    <2>. QED
        BY <2>2, <2>3, <2>4
<1>3. CASE PriorLeft
    <2> DEFINE await(w) == IF Has(w, run.tab) THEN "entering" ELSE "last"
    <2>1. run.prior = workspace.activeId /\ run.op # "close"
        BY <1>3, OwnedParts DEF RunOK, PriorLeft, Switching, Kind
    <2>2. PICK out \in DeactivationOutcomes(workspace, workspace.activeId) :
              out.ok => ActivateThen(Select(out.w, run.tab), run, await(out.w))
        BY <1>3, <2>1 DEF PriorLeft
    <2>3. out.ok /\ Well(out.w) /\ Shape(out.w) /\ out.w.activeId \in Ids(out.w)
        BY <1>1, OwnedParts, LeftFacts, LeftSessions
    <2>4. await(out.w) # "start"
        OBVIOUS
    <2> HIDE DEF await
    <2> DEFINE u == Select(out.w, run.tab)
    <2>5. ActivateThen(u, run, await(out.w))
        BY <2>2, <2>3
    <2>6. Shape(u) /\ u.activeId \in Ids(u) /\ Well(u)
        BY <2>3, SelectLike, SelectSessions
    <2> HIDE DEF u
    <2>7. Well(workspace')
        BY <2>5, <2>6, ThenSessions
    <2>8. GoesOn
        BY <1>1, <2>1, <2>4, <2>5, ThenGoesOn
    <2>. QED
        BY <2>7, <2>8
<1>4. CASE TargetEntered
    <2>1. PICK out \in ActivationOutcomes(workspace) : out.ok => workspace' = out.w
        BY <1>4 DEF TargetEntered
    <2>. QED
        BY <1>1, <2>1, EnteredSessions DEF Fit
<1>5. CASE LastActivationEnds
    BY <1>1, <1>5, EnteredSessions DEF LastActivationEnds, Fit
<1>. QED
    BY <1>2, <1>3, <1>4, <1>5

LEMMA HealthClose ==
    ASSUME OwnedInv, HealthOK(workspace, run, requests, adoptions), CloseStarts
    PROVE  Well(workspace') /\ (GoesOn \/ Fit(workspace'))
<1> DEFINE u == Close(workspace, run.tab)
           id == workspace.activeId
<1>1. /\ run.await = "start" /\ run.op = "close"
      /\ \/ run.tab = id /\ ActivateThen(u, run, "last")
         \/ run.tab # id /\ workspace' = u
    BY OwnedParts, FindFacts DEF CloseStarts
<1>2. Well(workspace) /\ Fit(workspace)
    BY <1>1 DEF HealthOK, Fit
<1>3. /\ run.tab \notin Ids(workspace) => u = workspace
      /\ run.tab \in Ids(workspace) => Removed(workspace, u, run.tab)
      /\ run.tab # id => u.activeId = id
    BY OwnedParts, CloseFacts
<1> HIDE DEF u
<1>4. Well(u) /\ Shape(u) /\ u.activeId \in Ids(u)
    BY <1>2, <1>3, OwnedParts, RemovedSessions DEF Removed
<1>5. CASE run.tab = id /\ ActivateThen(u, run, "last")
    <2>1. run'.op = run.op /\ run'.tab = run.tab /\ run'.await = "last" /\ queue' = queue
        BY <1>5, OwnedParts DEF ActivateThen, Await, RunType
    <2>2. run.tab # Nothing
        BY <1>5, OwnedParts, IdFacts
    <2>3. GoesOn
        BY <2>1, <2>2, NoRunFacts DEF GoesOn
    <2>. QED
        BY <1>4, <1>5, <2>3, ThenSessions
<1>6. CASE run.tab # id /\ workspace' = u
    <2>1. TabOf(u, id) = TabOf(workspace, id)
        BY <1>3, <1>6, OwnedParts DEF Removed
    <2>. QED
        BY <1>2, <1>3, <1>4, <1>6, <2>1 DEF Fit, SelectedTab
<1>. QED
    BY <1>1, <1>5, <1>6

LEMMA HealthSettle ==
    ASSUME OwnedInv, HealthOK(workspace, run, requests, adoptions), SettleStarts
    PROVE  Well(workspace') /\ GoesOn
<1> DEFINE v == RollbackOwnership(workspace, run.tab, run.prior)
           u == IF run.op = "accept" THEN workspace ELSE v
<1>1. run.op # "close" /\ ActivateThen(u, run, "last")
    BY DEF SettleStarts
<1>2. Well(workspace)
    BY DEF HealthOK
<1>3. Shape(v) /\ v.activeId \in Ids(v) /\ Well(v)
    <2>1. /\ run.tab \in Ids(workspace) => Removed(workspace, v, run.tab)
          /\ run.tab \notin Ids(workspace) =>
                Like(workspace, v) /\ v.activeId \in Ids(v) /\ \A i \in Ids(workspace) : TabOf(v, i) = TabOf(workspace, i)
        BY OwnedParts, RollbackFacts
    <2> HIDE DEF v
    <2>2. CASE run.tab \in Ids(workspace)
        BY <1>2, <2>1, <2>2, RemovedSessions DEF Removed
    <2>3. CASE run.tab \notin Ids(workspace)
        BY <1>2, <2>1, <2>3 DEF Like, Well
    <2>. QED
        BY <2>2, <2>3
<1> HIDE DEF v
<1>4. Shape(u) /\ u.activeId \in Ids(u) /\ Well(u)
    BY <1>2, <1>3, OwnedParts
<1> HIDE DEF u
<1>5. Well(workspace')
    BY <1>1, <1>4, ThenSessions
<1>6. GoesOn
    BY <1>1, OwnedParts, ThenGoesOn
<1>. QED
    BY <1>5, <1>6

LEMMA HealthAdopt ==
    ASSUME WorkspaceAssumption, OwnedInv, ~conditions.sessionsMayFail, HealthOK(workspace, run, requests, adoptions),
           AdoptStarts \/ AdoptLeft \/ AdoptEntered \/ DocumentOpened \/ Presented \/ AdoptUndone
    PROVE  Well(workspace') /\ (GoesOn \/ Fit(workspace'))
<1>1. Well(workspace) /\ run \in RunType /\ run.op # "close"
    BY OwnedParts DEF HealthOK, RunOK, AdoptStarts, AdoptLeft, AdoptEntered, DocumentOpened, Presented, AdoptUndone
<1>2. CASE AdoptStarts
    <2> DEFINE prior == workspace.activeId
               r(tab) == [run EXCEPT !.tab = tab, !.prior = prior]
    <2>1. \/ Await(r(Nothing), "leaving") /\ workspace' = workspace
          \/ ActivateThen(workspace, r(prior), "entering")
        BY <1>2 DEF AdoptStarts
    <2>2. CASE Await(r(Nothing), "leaving") /\ workspace' = workspace
        <3>1. run'.op = run.op /\ run'.await = "leaving" /\ queue' = queue
            BY <1>1, <2>2, AwaitFacts
        <3>. QED
            BY <1>1, <2>2, <3>1, NotLastStep
    <2>3. CASE ActivateThen(workspace, r(prior), "entering")
        BY <1>1, <2>3, OwnedParts, ThenSessions, ThenGoesOn
    <2>. QED
        BY <2>1, <2>2, <2>3
<1>3. CASE AdoptLeft
    <2> DEFINE r(w) == [run EXCEPT !.tab = StageAdoption(w).activeId]
    <2>1. run.prior = workspace.activeId
        BY <1>3, OwnedParts DEF RunOK, AdoptLeft
    <2>2. PICK out \in DeactivationOutcomes(workspace, workspace.activeId) :
              out.ok => \/ ActivateThen(out.w, run, "undone")
                        \/ ActivateThen(StageAdoption(out.w), r(out.w), "entering")
        BY <1>3, <2>1 DEF AdoptLeft
    <2>3. out.ok /\ Well(out.w) /\ Shape(out.w) /\ out.w.activeId \in Ids(out.w)
        BY <1>1, OwnedParts, LeftFacts, LeftSessions
    <2>4. CASE ActivateThen(out.w, run, "undone")
        BY <1>1, <2>3, <2>4, ThenSessions, ThenGoesOn
    <2>5. CASE ActivateThen(StageAdoption(out.w), r(out.w), "entering")
        <3> DEFINE u == StageAdoption(out.w)
                   id == out.w.nextId
        <3>1. /\ Shape(u) /\ Ids(u) = Ids(out.w) \cup {id} /\ u.activeId = id
              /\ TabOf(u, id).session = "inactive" /\ \A j \in Ids(out.w) : TabOf(u, j) = TabOf(out.w, j)
            BY <2>3, StageFacts
        <3>2. GoesOn
            BY <1>1, <2>5, ThenGoesOn
        <3> HIDE DEF r
        <3>3. ActivateThen(u, r(out.w), "entering")
            BY <2>5
        <3> HIDE DEF u
        <3>4. Well(u) /\ u.activeId \in Ids(u)
            BY <2>3, <3>1 DEF Well
        <3>. QED
            BY <3>1, <3>2, <3>3, <3>4, ThenSessions
    <2>. QED
        BY <2>2, <2>3, <2>4, <2>5
<1>4. CASE AdoptEntered
    <2>1. PICK out \in ActivationOutcomes(workspace) :
              out.ok => Await(run, "opening") /\ workspace' = out.w
        BY <1>4 DEF AdoptEntered
    <2>2. out.ok /\ Well(out.w)
        BY <1>1, EnteredSessions
    <2>3. run'.op = run.op /\ run'.await = "opening" /\ queue' = queue
        BY <1>1, <2>1, <2>2, AwaitFacts
    <2>. QED
        BY <2>1, <2>2, <2>3, NotLastStep
<1>5. CASE DocumentOpened
    <2> DEFINE u == CommitAdoption(WithTab(workspace, run.tab, [TabOf(workspace, run.tab) EXCEPT !.doc = run.req]), run.tab)
    <2>1. run.await = "opening" /\ ActivateThen(u, run, "presenting")
        BY <1>5 DEF DocumentOpened
    <2>2. /\ Shape(u) /\ Ids(u) = Ids(workspace) /\ u.activeId = run.tab /\ run.tab \in Ids(workspace)
          /\ TabOf(u, run.tab).session = TabOf(workspace, run.tab).session
          /\ \A j \in Ids(workspace) : j # run.tab => TabOf(u, j) = TabOf(workspace, j)
        BY <2>1, CommittedFacts
    <2> HIDE DEF u
    <2>3. Well(u)
        BY <1>1, <2>2 DEF Well
    <2>4. Well(workspace')
        BY <2>1, <2>2, <2>3, ThenSessions
    <2>5. GoesOn
        BY <1>1, <2>1, ThenGoesOn
    <2>. QED
        BY <2>4, <2>5
<1>6. CASE Presented
    BY <1>1, <1>6, EnteredSessions DEF Presented, Fit
<1>7. CASE AdoptUndone
    BY <1>1, <1>7, EnteredSessions DEF AdoptUndone, AdoptionFails, Fit
<1>. QED
    BY <1>2, <1>3, <1>4, <1>5, <1>6, <1>7

LEMMA RejectedNext ==
    ASSUME OwnedInv, ~conditions.sessionsMayFail, HealthOK(workspace, run, requests, adoptions),
           User \/ Transition \/ RequestClient
    PROVE  NoneRejected(requests', adoptions')
<1>1. /\ NoneRejected(requests, adoptions) /\ Well(workspace)
      /\ requests \in [Requests -> RequestState] /\ adoptions \in [Requests -> AdoptionType]
    BY OwnedParts DEF HealthOK, NoneRejected
<1>2. UNCHANGED <<requests, adoptions>> => NoneRejected(requests', adoptions')
    BY <1>1
<1>3. CASE User
    BY <1>2, <1>3 DEF User, SwitchTab, SwitchAdjacentTab, CloseTab
<1>4. CASE SwitchStarts \/ PriorLeft \/ TargetEntered \/ LastActivationEnds \/ CloseStarts \/ SettleStarts
    BY <1>2, <1>4, SwitchStep, CloseStep
<1>5. CASE AdoptStarts \/ AdoptLeft \/ AdoptEntered \/ DocumentOpened \/ AdoptUndone
    <2>1. AdoptRecorded /\ run.req \in Requests /\ requests[run.req] = "adopting"
        BY <1>5, AdoptStep, OwnedParts DEF RunOK
    <2>2. CASE requests' = requests /\ \A s \in Requests : s # run.req => adoptions'[s] = adoptions[s]
        BY <1>1, <2>1, <2>2 DEF NoneRejected
    <2>3. CASE AdoptionFails(workspace')
        <3>1. adoptions' = [adoptions EXCEPT ![run.req] = NoAdoption] /\ requests' = [requests EXCEPT ![run.req] = "reject"]
            BY <2>3 DEF AdoptionFails
        <3>2. NoAdoption.id = Nothing
            BY DEF NoAdoption
        <3>. QED
            BY <1>1, <3>1, <3>2 DEF NoneRejected
    <2>. QED
        BY <2>1, <2>2, <2>3 DEF AdoptRecorded
<1>6. CASE Presented
    <2>1. PICK out \in ActivationOutcomes(workspace) :
              requests' = [requests EXCEPT ![run.req] = IF out.ok THEN "ack" ELSE "reject"]
        BY <1>6 DEF Presented
    <2>2. requests' = [requests EXCEPT ![run.req] = "ack"] /\ adoptions' = adoptions
        BY <1>1, <1>6, <2>1, EnteredSessions DEF Presented
    <2>. QED
        BY <1>1, <2>2 DEF NoneRejected
<1>7. CASE RequestClient
    <2>1. PICK r \in Requests : Adopt(r) \/ Acknowledged(r) \/ AckRefused(r) \/ Rejected(r)
        BY <1>7 DEF RequestClient
    <2>2. CASE Adopt(r)
        <3>1. requests[r] \notin {"adopting", "ack", "reject"}
            BY <2>2 DEF Adopt, InFlight
        <3>2. adoptions[r].id = Nothing
            BY <3>1, OwnedParts DEF AdoptionsOK, Flying
        <3>3. \/ requests' = [requests EXCEPT ![r] = "reject"] /\ adoptions' = adoptions
              \/ /\ requests' = [requests EXCEPT ![r] = "adopting"]
                 /\ adoptions' = [adoptions EXCEPT ![r] = Adoption(Nothing, Nothing)]
            BY <2>2 DEF Adopt
        <3>. QED
            BY <1>1, <3>2, <3>3 DEF NoneRejected
    <2>3. CASE Acknowledged(r) \/ AckRefused(r) \/ Rejected(r)
        <3>1. PICK x \in {"adopted", "refused"} :
                  requests' = [requests EXCEPT ![r] = x] /\ adoptions' = [adoptions EXCEPT ![r] = NoAdoption]
            BY <2>3 DEF Acknowledged, AckRefused, Rejected, HandleOpenTerminal
        <3>. QED
            BY <1>1, <3>1 DEF NoneRejected
    <2>. QED
        BY <2>1, <2>2, <2>3
<1>. QED
    BY <1>3, <1>4, <1>5, <1>6, <1>7 DEF Transition

LEMMA HealthNext ==
    ASSUME WorkspaceAssumption, OwnedInv, ~conditions.sessionsMayFail,
           HealthOK(workspace, run, requests, adoptions), [Next]_vars
    PROVE  HealthOK(workspace', run', requests', adoptions')
<1>1. CASE Transition
    <2>1. Well(workspace') /\ (GoesOn \/ Fit(workspace'))
        BY <1>1, HealthSwitch, HealthClose, HealthSettle, HealthAdopt DEF Transition
    <2>. QED
        BY <1>1, <2>1, RejectedNext, HealthKept
<1>2. CASE User \/ RequestClient
    <2>1. workspace' = workspace /\ (run' = run \/ run = NoRun)
        <3>1. \A item : Enqueue(item) => run' = run \/ run = NoRun
            BY EnqueueFacts
        <3>2. CASE User
            BY <3>1, <3>2 DEF User, SwitchTab, SwitchAdjacentTab, CloseTab
        <3>3. CASE RequestClient
            BY <3>1, <3>3 DEF RequestClient, Adopt, Acknowledged, AckRefused, Rejected, HandleOpenTerminal
        <3>. QED
            BY <1>2, <3>2, <3>3
    <2>2. NoneRejected(requests', adoptions')
        BY <1>2, RejectedNext
    <2>. QED
        BY <2>1, <2>2 DEF HealthOK, NoneRejected
<1>3. CASE UNCHANGED vars
    BY <1>3 DEF vars
<1>. QED
    BY <1>1, <1>2, <1>3 DEF Next

-----------------------------------------------------------------------------
(* If nothing ever fails, nothing is rolled back                             *)

LEMMA RollbackTransition ==
    ASSUME OwnedInv, NoRollback(run, queue), Done \/ GoesOn
    PROVE  NoRollback(run', queue')
<1>1. CASE GoesOn
    BY <1>1 DEF GoesOn, NoRollback
<1>2. CASE Done /\ queue = <<>>
    BY <1>2, NoRunFacts DEF Done, NoRollback
<1>3. CASE Done /\ queue # <<>>
    <2>1. run' = Running(Head(queue), "start") /\ queue' = Tail(queue)
        BY <1>3 DEF Done
    <2>2. /\ Head(queue) \in ItemType /\ Head(queue) = queue[1] /\ 1 \in DOMAIN queue
          /\ \A k \in DOMAIN Tail(queue) : k + 1 \in DOMAIN queue /\ Tail(queue)[k] = queue[k + 1]
        BY <1>3, OwnedParts, TailFacts
    <2>3. run'.op = queue[1].op
        BY <2>1, <2>2, RunningFacts
    <2>. QED
        BY <2>1, <2>2, <2>3 DEF NoRollback
<1>. QED
    BY <1>1, <1>2, <1>3

LEMMA RollbackEnqueue ==
    ASSUME OwnedInv, NoRollback(run, queue), NEW item \in ItemType, item.op # "rollback", Enqueue(item)
    PROVE  NoRollback(run', queue')
<1>1. queue \in Seq(ItemType)
    BY OwnedParts
<1>2. CASE run = NoRun
    <2>1. run' = Running(item, "start") /\ queue' = queue
        BY <1>2 DEF Enqueue
    <2>. QED
        BY <2>1, RunningFacts DEF NoRollback
<1>3. CASE run # NoRun
    <2>1. run' = run /\ queue' = IF Coalesces(item) THEN Append(Front(queue), item)
                                 ELSE IF Full(Kind(item.op)) THEN queue ELSE Append(queue, item)
        BY <1>3 DEF Enqueue
    <2>2. ASSUME NEW b, Grown(queue, b, item, queue') PROVE NoRollback(run', queue')
        <3>1. /\ queue'[Len(b) + 1] = item
              /\ \A k \in DOMAIN b : k \in DOMAIN queue /\ queue'[k] = queue[k]
              /\ \A k \in DOMAIN queue' : k \in DOMAIN b \/ k = Len(b) + 1
            BY <1>1, <2>2, GrownFacts DEF Grown
        <3>. QED
            BY <2>1, <3>1 DEF NoRollback
    <2>3. CASE Coalesces(item)
        <3>1. Grown(queue, Front(queue), item, queue')
            BY <1>1, <2>1, <2>3, FrontGrown
        <3>. QED
            BY <2>2, <3>1
    <2>4. CASE ~Coalesces(item) /\ queue' = queue
        BY <2>1, <2>4 DEF NoRollback
    <2>5. CASE ~Coalesces(item) /\ queue' = Append(queue, item)
        <3>1. Grown(queue, queue, item, queue')
            BY <1>1, <2>5 DEF Grown
        <3>. QED
            BY <2>2, <3>1
    <2>. QED
        BY <2>1, <2>3, <2>4, <2>5
<1>. QED
    BY <1>2, <1>3

LEMMA RollbackNext ==
    ASSUME OwnedInv, ~conditions.ackMayFail, HealthOK(workspace, run, requests, adoptions),
           NoRollback(run, queue), [Next]_vars
    PROVE  NoRollback(run', queue')
<1>1. CASE Transition
    <2>1. Done \/ GoesOn
        BY <1>1, SwitchStep, CloseStep, AdoptStep DEF Transition, Presented
    <2>. QED
        BY <2>1, RollbackTransition
<1>2. CASE User
    <2>1. PICK op \in {"switch", "next", "previous", "close"}, id \in Nat : Enqueue(Item(op, id, Nothing, Nothing))
        <3>1. \A id \in TabIds : id \in Nat
            BY OwnedParts, IdFacts DEF TabIds, Ids
        <3>2. Nothing \in Nat
            BY DEF Nothing
        <3>. QED
            BY <1>2, <3>1, <3>2 DEF User, SwitchTab, SwitchAdjacentTab, CloseTab
    <2> DEFINE item == Item(op, id, Nothing, Nothing)
    <2>2. item \in ItemType /\ item.op # "rollback"
        BY DEF Item, ItemType, Ops, Nothing
    <2> HIDE DEF item
    <2>3. Enqueue(item)
        BY <2>1 DEF item
    <2>. QED
        BY <2>2, <2>3, RollbackEnqueue
<1>3. CASE RequestClient
    <2>1. PICK r \in Requests : Adopt(r) \/ Acknowledged(r) \/ AckRefused(r) \/ Rejected(r)
        BY <1>3 DEF RequestClient
    <2>2. adoptions[r].id \in Nat /\ adoptions[r].priorActiveId \in Nat
        BY OwnedParts DEF AdoptionType
    <2> DEFINE adopt == Item("adopt", Nothing, Nothing, r)
               accept == Item("accept", adoptions[r].id, adoptions[r].priorActiveId, r)
    <2>3. /\ adopt \in ItemType /\ adopt.op # "rollback"
          /\ accept \in ItemType /\ accept.op # "rollback"
        BY <2>2 DEF Item, ItemType, Ops, Nothing
    <2>4. CASE Adopt(r)
        <3>1. UNCHANGED <<queue, run>> \/ Enqueue(adopt)
            BY <2>4 DEF Adopt
        <3> HIDE DEF adopt
        <3>. QED
            BY <2>3, <3>1, RollbackEnqueue
    <2>5. CASE Acknowledged(r)
        <3>1. UNCHANGED <<queue, run>> \/ Enqueue(accept)
            BY <2>5 DEF Acknowledged, HandleOpenTerminal
        <3> HIDE DEF accept
        <3>. QED
            BY <2>3, <3>1, RollbackEnqueue
    <2>6. CASE AckRefused(r)
        BY <2>6 DEF AckRefused
    <2>7. CASE Rejected(r)
        <3>1. adoptions[r].id = Nothing
            BY <2>7 DEF Rejected, HealthOK
        <3>2. UNCHANGED <<queue, run>>
            BY <2>7, <3>1 DEF Rejected, HandleOpenTerminal
        <3>. QED
            BY <3>2
    <2>. QED
        BY <2>1, <2>4, <2>5, <2>6, <2>7
<1>4. CASE UNCHANGED vars
    BY <1>4 DEF vars
<1>. QED
    BY <1>1, <1>2, <1>3, <1>4 DEF Next

-----------------------------------------------------------------------------
(* The second invariant holds always                                        *)

LEMMA InitSessions ==
    ASSUME WorkspaceAssumption, Init
    PROVE  SessionsInv
<1> DEFINE e == [tabs |-> <<>>, activeId |-> Nothing, nextId |-> 1]
           w == workspace
<1>1. w = AppendAndSelect(e, FALSE, Nothing)
    BY DEF Init
<1>2. Shape(e) /\ e.nextId = 1 /\ Ids(e) = {}
    BY DEF Shape, Ids, Nothing
<1> HIDE DEF e
<1>3. /\ Ids(w) = {1} /\ w.activeId = 1 /\ TabOf(w, 1) = NewTab(e, FALSE, Nothing)
    <2>1. Nothing \in Nat
        BY DEF Nothing
    <2>2. /\ Ids(w) = Ids(e) \cup {e.nextId} /\ w.activeId = e.nextId
          /\ TabOf(w, e.nextId) = NewTab(e, FALSE, Nothing)
        BY <1>1, <1>2, <2>1, AppendFacts
    <2>. QED
        BY ONLY <1>2, <2>2
<1>4. TabOf(w, 1).doc = Nothing /\ TabOf(w, 1).session = "inactive"
    BY <1>3 DEF NewTab
<1>5. queue = <<>> /\ run = NoRun /\ \A r \in Requests : requests[r] = "queued"
    BY DEF Init
<1>6. HealthOK(w, run, requests, adoptions)
    BY <1>3, <1>4, <1>5 DEF HealthOK, Well, SelectedTab
<1>7. NoRollback(run, queue) /\ IdleOK(w, run, queue, requests, adoptions)
    BY <1>5, NoRunFacts DEF NoRollback, IdleOK
<1>8. CalmOK(w, run)
    BY <1>3, <1>4, <1>5, NoRunFacts DEF CalmOK, ClearBut, Foreground
<1>. QED
    BY <1>6, <1>7, <1>8 DEF SessionsInv

LEMMA NextSessions ==
    ASSUME WorkspaceAssumption, OwnedInv, SessionsInv, [Next]_vars
    PROVE  SessionsInv'
<1>1. conditions' = conditions
    BY DEF Next, vars
<1>2. ~conditions.sessionsMayFail => HealthOK(workspace', run', requests', adoptions')
    BY HealthNext DEF SessionsInv
<1>3. ~conditions.sessionsMayFail /\ ~conditions.ackMayFail => NoRollback(run', queue')
    BY RollbackNext DEF SessionsInv
<1>4. ASSUME ~conditions.userActsDuringOpen
      PROVE  IdleOK(workspace', run', queue', requests', adoptions')
    <2>1. IdleOK(workspace, run, queue, requests, adoptions)
        BY <1>4 DEF SessionsInv
    <2>2. UNCHANGED vars => IdleOK(workspace', run', queue', requests', adoptions')
        BY <2>1 DEF vars
    <2>. QED
        BY <1>4, <2>1, <2>2, IdleTransition, IdleUser, IdleClient DEF Next
<1>5. ASSUME Calm PROVE CalmOK(workspace', run')
    <2>1. run.op = "rollback" /\ run.await = "start" => run.tab = workspace.activeId
        <3>1. ~conditions.userActsDuringOpen \/ (~conditions.sessionsMayFail /\ ~conditions.ackMayFail)
            BY <1>5 DEF Calm
        <3>. QED
            BY <3>1 DEF SessionsInv, IdleOK, NoRollback
    <2>. QED
        BY <1>5, <2>1, CalmNext DEF SessionsInv
<1>6. Calm' = Calm
    BY <1>1 DEF Calm
<1>. QED
    BY <1>1, <1>2, <1>3, <1>4, <1>5, <1>6 DEF SessionsInv

LEMMA SessionsAlways == WorkspaceAssumption => (Spec => [](OwnedInv /\ SessionsInv))
<1> SUFFICES ASSUME WorkspaceAssumption PROVE Spec => [](OwnedInv /\ SessionsInv)
    OBVIOUS
<1>1. Init => OwnedInv /\ SessionsInv
    BY InitOwned, InitSessions
<1>2. (OwnedInv /\ SessionsInv) /\ [Next]_vars => (OwnedInv /\ SessionsInv)'
    BY NextOwned, NextSessions
<1>. QED
    BY <1>1, <1>2, PTL DEF Spec

\* Once everything has settled, no refused, failed or half-adopted document is left in a tab, and
\* if sessions never fail the selected tab is the one that is active.
THEOREM SettledAlwaysClean == WorkspaceAssumption => (Spec => []SettledIsClean)
<1> SUFFICES ASSUME WorkspaceAssumption PROVE Spec => []SettledIsClean
    OBVIOUS
<1>1. ASSUME OwnedInv, SessionsInv PROVE SettledIsClean
    <2>1. OnlyAdoptedRemain
        BY <1>1, OwnedRemain
    <2>2. SelectedIsActive
        BY <1>1 DEF SelectedIsActive, Quiet, SessionsInv, HealthOK, SelectedTab
    <2>. QED
        BY <2>1, <2>2 DEF SettledIsClean
<1>2. OwnedInv /\ SessionsInv => SettledIsClean
    BY <1>1
<1>3. Spec => [](OwnedInv /\ SessionsInv)
    BY SessionsAlways
<1>. QED
    BY <1>2, <1>3, PTL

\* At most one session holds the foreground, unless the user switches or closes while a failed open
\* is undone: every way to select another tab first makes the one it leaves inactive.
THEOREM OneActiveInCalm == WorkspaceAssumption => (Spec => []CalmKeepsOneActive)
<1> SUFFICES ASSUME WorkspaceAssumption PROVE Spec => []CalmKeepsOneActive
    OBVIOUS
<1>1. ASSUME OwnedInv, SessionsInv PROVE CalmKeepsOneActive
    <2> SUFFICES ASSUME Calm PROVE AtMostOneActive
        BY DEF CalmKeepsOneActive, Calm
    <2> DEFINE F == {i \in DOMAIN workspace.tabs : workspace.tabs[i].session \in Foreground}
    <2>1. ClearBut(workspace, workspace.activeId) /\ Shape(workspace)
        BY <1>1, OwnedParts DEF SessionsInv, CalmOK
    <2>2. ASSUME NEW i \in F PROVE workspace.tabs[i].id = workspace.activeId
        <3>1. workspace.tabs[i].id \in Ids(workspace) /\ TabOf(workspace, workspace.tabs[i].id) = workspace.tabs[i]
            BY <2>1, TabAt
        <3>. QED
            BY <2>1, <2>2, <3>1 DEF ClearBut
    <2>3. \A i, j \in F : i = j
        BY <2>1, <2>2 DEF Shape
    <2>4. Cardinality(F) <= 1
        <3>1. CASE F = {}
            BY <3>1, FS_EmptySet
        <3>2. CASE F # {}
            <4>1. PICK i \in F : TRUE
                BY <3>2
            <4>2. F = {i}
                BY <2>3, <4>1
            <4>3. Cardinality({i}) = 1
                BY FS_Singleton
            <4> HIDE DEF F
            <4>. QED
                BY <4>2, <4>3
        <3>. QED
            BY <3>1, <3>2
    <2>. QED
        BY <2>4 DEF AtMostOneActive
<1>2. OwnedInv /\ SessionsInv => CalmKeepsOneActive
    BY <1>1
<1>3. Spec => [](OwnedInv /\ SessionsInv)
    BY SessionsAlways
<1>. QED
    BY <1>2, <1>3, PTL

-----------------------------------------------------------------------------
(* Links: the inductive invariant                                          *)

Rev == 0 .. MaxRevision
LinksOf == [LinkPage -> Rev]
Steps == {"waiting", "settling", "preparing", "committing", "held", "aborting", "closing", "finalizing", "done"}
Kinds == {"render", "hold", "restore", "sync"}
Calling == {"none", "prepare", "commit", "finalize", "abort"}

Pub ==
    [kind : Kinds, page : LinkPage \cup {0}, pages : SUBSET LinkPage, links : LinksOf,
     next : LinksOf, prior : LinksOf, step : Steps, wait : Nat,
     raw : Calling, answer : {"none", "sent", "ok", "error"},
     expired : BOOLEAN, stale : BOOLEAN, applied : BOOLEAN,
     ahead : {"no", "due", "over"}, awaited : BOOLEAN,
     late : {"no", "armed", "sent", "ok", "error", "failed", "done"},
     finalizer : {"none", "pending", "failed", "skipped"}]

LinkTransaction ==
    [st : {"none", "prepared", "committed"}, rev : Rev, links : LinksOf, prevRev : Rev, prevLinks : LinksOf]
Registry == [rev : Rev, links : LinksOf, txn : LinkTransaction, finalized : Rev, aborted : Rev]

PubsTyped == pubs \in Seq(Pub) /\ Len(pubs) <= MaxRevision /\ quarantined \in 0 .. Len(pubs)
ShownTyped == overlay \in LinksOf /\ groups \in LinksOf /\ entries \in LinksOf
TabTyped ==
    /\ native \in Registry /\ click.n \in Nat
    /\ activity \in {"on", "revoking", "off", "activating", "broken"}
    /\ closing \in {"no", "unmounting", "failing", "pending", "gone"}

\* What a publication is doing is told by its step; once it is over, a call may still be under
\* way, and an abort may be owed.
StepOK(p) ==
    /\ p.raw = "none" <=> p.answer = "none"
    /\ p.step \in {"waiting", "settling", "held", "closing"} => p.raw = "none"
    /\ p.step = "preparing" => p.raw = "prepare"
    /\ p.step = "committing" => p.raw = "commit"
    /\ p.step = "aborting" => p.raw = "abort"
    /\ p.step = "finalizing" => p.raw = "finalize"
    /\ p.raw = "finalize" <=> p.finalizer = "pending"
    /\ p.step # "done" => p.late = "no" /\ p.finalizer \in {"none", "pending"}
    /\ p.step = "done" /\ p.raw \notin {"none", "finalize"} => p.late = "armed"
    /\ p.late \notin {"no", "done"} => p.finalizer = "none"
    /\ p.late \notin {"no", "armed"} => p.raw = "none"
    /\ p.expired => p.step \in {"waiting", "held"} /\ p.kind # "render"
    /\ p.step = "held" => p.kind = "hold"

\* It is over, or its turn comes too late for it to do anything.
Passed(p) == p.step = "done" \/ (p.step = "waiting" /\ p.kind = "sync" /\ p.expired)

\* It has the registry for itself.
Engaged(p) == p.step \notin {"waiting", "settling", "done"} \/ p.raw # "none" \/ p.late \notin {"no", "done"}

InOrder(s) == \A q, r \in DOMAIN s : q < r /\ s[r].step # "waiting" => Passed(s[q])
Reading(p) == p.kind # "sync" /\ p.step \in Begun
OneReader(s) == \A q, r \in DOMAIN s : Reading(s[q]) /\ Reading(s[r]) => q = r
OneEngaged(s) == \A q, r \in DOMAIN s : Engaged(s[q]) /\ Engaged(s[r]) => q = r

\* What keeps others from the registry when it is over, and what an abort that is owed waits for.
Status(p, r, k, c) ==
    /\ p.step # "done" => k = 0
    /\ p.step = "done" => k # 0 \/ c # "no"
    /\ p.late \notin {"no", "done"} => k = r

Queue(s, k, c) ==
    /\ \A r \in DOMAIN s : StepOK(s[r])
    /\ InOrder(s) /\ OneReader(s) /\ OneEngaged(s)
    /\ \A r \in DOMAIN s : Engaged(s[r]) => Status(s[r], r, k, c)
    /\ c = "gone" => \A r \in DOMAIN s : ~Engaged(s[r]) /\ s[r].step \in {"waiting", "done"}

LinkInv ==
    /\ PubsTyped /\ ShownTyped /\ TabTyped
    /\ Queue(pubs, quarantined, closing) /\ (closing = "gone" => ~Dispatching)

-----------------------------------------------------------------------------
(* Lemmas about the queue                                                   *)

\* One publication goes on.
LEMMA QueueSet ==
    ASSUME NEW s \in Seq(Pub), NEW k \in Nat, NEW c, Queue(s, k, c), NEW r \in DOMAIN s, NEW p \in Pub, NEW m \in Nat,
           StepOK(p), p.kind = s[r].kind, p.step \in Begun => s[r].step \in Begun,
           s[r].step # "waiting" => p.step # "waiting", Passed(s[r]) => Passed(p),
           p.step # "waiting" /\ s[r].step = "waiting" => \A q \in DOMAIN s : q < r => Passed(s[q]),
           Engaged(s[r]) \/ (m = k /\ (Engaged(p) => \A q \in DOMAIN s : ~Engaged(s[q]))),
           Engaged(p) => Status(p, r, m, c),
           c = "gone" => ~Engaged(p) /\ p.step \in {"waiting", "done"}
    PROVE  Queue([s EXCEPT ![r] = p], m, c)
<1> DEFINE t == [s EXCEPT ![r] = p]
<1>1. DOMAIN t = DOMAIN s /\ t[r] = p /\ \A q \in DOMAIN s : q # r => t[q] = s[q]
    OBVIOUS
<1>2. r \in Nat /\ \A q \in DOMAIN s : q \in Nat
    OBVIOUS
<1> HIDE DEF t
<1>3. \A q \in DOMAIN t : StepOK(t[q])
    BY <1>1 DEF Queue
<1>4. InOrder(t)
    <2> SUFFICES ASSUME NEW q \in DOMAIN t, NEW u \in DOMAIN t, q < u, t[u].step # "waiting" PROVE Passed(t[q])
        BY Zenon DEF InOrder
    <2>1. q # u
        BY <1>1, <1>2
    <2>2. CASE u = r
        <3>1. Passed(s[q])
            BY <1>1, <2>2 DEF Queue, InOrder
        <3>. QED
            BY <1>1, <2>1, <2>2, <3>1
    <2>3. CASE u # r
        <3>1. Passed(s[q])
            BY <1>1, <2>3 DEF Queue, InOrder
        <3>. QED
            BY <1>1, <3>1
    <2>. QED
        BY <2>2, <2>3
<1>5. OneReader(t)
    <2>1. \A q \in DOMAIN s : Reading(t[q]) => Reading(s[q])
        BY <1>1 DEF Reading
    <2>. QED
        BY <1>1, <2>1, Zenon DEF OneReader, Queue
<1>6. OneEngaged(t)
    BY <1>1, Zenon DEF OneEngaged, Queue
<1>7. \A q \in DOMAIN t : Engaged(t[q]) => Status(t[q], q, m, c)
    <2> SUFFICES ASSUME NEW q \in DOMAIN t, Engaged(t[q]) PROVE Status(t[q], q, m, c)
        OBVIOUS
    <2>1. CASE q = r
        BY <1>1, <2>1
    <2>2. CASE q # r
        <3>1. Engaged(s[q]) /\ ~Engaged(s[r])
            BY <1>1, <2>2, Zenon DEF Queue, OneEngaged
        <3>. QED
            BY <1>1, <2>2, <3>1 DEF Queue
    <2>. QED
        BY <2>1, <2>2
<1>8. c = "gone" => \A q \in DOMAIN t : ~Engaged(t[q]) /\ t[q].step \in {"waiting", "done"}
    BY <1>1 DEF Queue
<1>. QED
    BY <1>3, <1>4, <1>5, <1>6, <1>7, <1>8, Zenon DEF Queue, t

\* Marks and repeated aborts change nothing of it.
Alike(p, q) ==
    /\ p.kind = q.kind /\ p.step = q.step /\ p.expired = q.expired
    /\ p.raw = q.raw /\ p.answer = q.answer /\ p.finalizer = q.finalizer /\ p.ahead = q.ahead
    /\ p.late = q.late \/ (p.late = "failed" /\ q.late = "sent")

LEMMA QueueAlike ==
    ASSUME NEW s \in Seq(Pub), NEW t, DOMAIN t = DOMAIN s, NEW k, NEW c, Queue(s, k, c),
           \A r \in DOMAIN s : Alike(s[r], t[r])
    PROVE  Queue(t, k, c)
<1>1. \A r \in DOMAIN s : StepOK(t[r])
    BY DEF Queue, StepOK, Alike
<1>2. \A r \in DOMAIN s : /\ Passed(t[r]) <=> Passed(s[r])
                          /\ Reading(t[r]) <=> Reading(s[r])
                          /\ t[r].step = s[r].step
    BY DEF Alike, Passed, Reading
<1>3. \A r \in DOMAIN s : Engaged(t[r]) <=> Engaged(s[r])
    BY DEF Alike, Engaged
<1>4. InOrder(t)
    BY <1>2, Zenon DEF Queue, InOrder
<1>5. OneReader(t) /\ OneEngaged(t)
    BY <1>2, <1>3, Zenon DEF Queue, OneReader, OneEngaged
<1>6. \A r \in DOMAIN s : Engaged(t[r]) => Status(t[r], r, k, c)
    BY <1>3 DEF Queue, Alike, Status
<1>7. c = "gone" => \A r \in DOMAIN t : ~Engaged(t[r]) /\ t[r].step \in {"waiting", "done"}
    BY <1>2, <1>3 DEF Queue
<1>. QED
    BY <1>1, <1>4, <1>5, <1>6, <1>7, Zenon DEF Queue

\* Another publication is begun.
LEMMA QueueAppend ==
    ASSUME NEW s \in Seq(Pub), NEW k, NEW c, Queue(s, k, c), NEW p \in Pub,
           StepOK(p), p.step = "waiting", p.raw = "none", p.late = "no",
           p.kind # "sync" => \A q \in DOMAIN s : ~Reading(s[q])
    PROVE  Queue(Append(s, p), k, c)
<1> DEFINE t == Append(s, p)
           n == Len(s) + 1
<1>1. DOMAIN t = DOMAIN s \cup {n} /\ t[n] = p /\ \A q \in DOMAIN s : t[q] = s[q] /\ q < n /\ q # n
    OBVIOUS
<1>2. \A q \in DOMAIN t : q \in Nat
    OBVIOUS
<1>3. n \in Nat
    OBVIOUS
<1> HIDE DEF t, n
<1>4. ~Engaged(p)
    BY DEF Engaged
<1>5. \A q \in DOMAIN t : StepOK(t[q])
    BY <1>1 DEF Queue
<1>6. InOrder(t)
    <2> SUFFICES ASSUME NEW q \in DOMAIN t, NEW u \in DOMAIN t, q < u, t[u].step # "waiting" PROVE Passed(t[q])
        BY Zenon DEF InOrder
    <2>1. u \in DOMAIN s
        BY <1>1
    <2>2. q \in DOMAIN s
        BY <1>1, <1>2, <1>3, <2>1
    <2>. QED
        BY <1>1, <2>1, <2>2 DEF Queue, InOrder
<1>7. OneReader(t)
    BY <1>1, Zenon DEF OneReader, Queue, Reading
<1>8. OneEngaged(t)
    BY <1>1, <1>4, Zenon DEF OneEngaged, Queue
<1>9. \A q \in DOMAIN t : Engaged(t[q]) => Status(t[q], q, k, c)
    BY <1>1, <1>4, Zenon DEF Queue
<1>10. c = "gone" => \A q \in DOMAIN t : ~Engaged(t[q]) /\ t[q].step \in {"waiting", "done"}
    BY <1>1, <1>4 DEF Queue
<1>. QED
    BY <1>5, <1>6, <1>7, <1>8, <1>9, <1>10, Zenon DEF Queue, t

\* An attempt at unmounting changes what a publication does later, never what it is doing.
LEMMA QueueClosing ==
    ASSUME NEW s, NEW k, NEW c, NEW d, Queue(s, k, c), c # "gone", d \notin {"no", "gone"}
    PROVE  Queue(s, k, d)
<1>1. \A r \in DOMAIN s : Engaged(s[r]) => Status(s[r], r, k, d)
    BY DEF Queue, Status
<1>. QED
    BY <1>1 DEF Queue

-----------------------------------------------------------------------------
(* Lemmas about publications                                                *)

LEMMA NobodyLinked == MaxRevision \in Nat => Nobody \in LinksOf
    BY DEF Nobody, LinksOf, Rev

LEMMA RestrictedTyped ==
    ASSUME NEW links \in LinksOf, NEW pages, MaxRevision \in Nat
    PROVE  Restricted(links, pages) \in LinksOf
    BY DEF Restricted, LinksOf, Rev

\* What stays of a publication until it is over.
SamePlan(p, q) ==
    /\ q.kind = p.kind /\ q.stale = p.stale /\ q.page = p.page /\ q.pages = p.pages /\ q.next = p.next
    /\ q.applied = p.applied /\ q.wait = p.wait

\* Of a publication that is over only the call and the abort it owes are left.
LEMMA EndedFacts ==
    ASSUME MaxRevision \in Nat, NEW p \in Pub
    PROVE  LET q == Ended(p) IN
           /\ q \in Pub /\ q.step = "done" /\ ~q.expired /\ q.applied = p.applied
           /\ q.kind = p.kind /\ q.raw = p.raw /\ q.answer = p.answer /\ q.late = p.late /\ q.finalizer = p.finalizer
           /\ q.ahead = p.ahead
    BY NobodyLinked DEF Ended, Pub, Steps

LEMMA EndedBadlyFacts ==
    ASSUME MaxRevision \in Nat, NEW p \in Pub
    PROVE  LET q == EndedBadly(p) IN
           /\ q \in Pub /\ q.step = "done" /\ ~q.expired /\ q.applied = p.applied
           /\ q.kind = p.kind /\ q.raw = p.raw /\ q.answer = p.answer /\ q.finalizer = p.finalizer
           /\ q.late = (IF p.late = "no" THEN "armed" ELSE p.late) /\ q.ahead = p.ahead
<1> DEFINE e == Ended(p)
<1>1. /\ e \in Pub /\ e.step = "done" /\ ~e.expired /\ e.applied = p.applied
      /\ e.kind = p.kind /\ e.raw = p.raw /\ e.answer = p.answer /\ e.late = p.late /\ e.finalizer = p.finalizer
      /\ e.ahead = p.ahead
    BY EndedFacts
<1>2. EndedBadly(p) = [e EXCEPT !.late = IF e.late = "no" THEN "armed" ELSE e.late]
    BY DEF EndedBadly
<1> HIDE DEF e
<1>. QED
    BY <1>1, <1>2 DEF Pub

LEMMA SentFacts ==
    ASSUME NEW p \in Pub, NEW call \in Calling, NEW step \in Steps
    PROVE  LET q == Sent(p, call, step) IN
           /\ q \in Pub /\ q.step = step /\ q.raw = call /\ q.answer = "sent"
           /\ q.kind = p.kind /\ q.expired = p.expired /\ q.late = p.late /\ q.finalizer = p.finalizer
           /\ SamePlan(p, q) /\ q.links = p.links /\ q.ahead = p.ahead
    BY DEF Sent, Pub, SamePlan

LEMMA AnsweredFacts ==
    ASSUME MaxRevision \in Nat, PubsTyped, NEW r \in Revision
    PROVE  LET p == pubs[r] q == Answered(r) IN
           /\ p \in Pub /\ q \in Pub /\ q.raw = "none" /\ q.answer = "none"
           /\ q.kind = p.kind /\ q.step = p.step /\ q.expired = p.expired /\ q.late = p.late /\ q.finalizer = p.finalizer
           /\ SamePlan(p, q) /\ q.ahead = p.ahead
<1>1. pubs[r] \in Pub
    BY DEF PubsTyped, Revision
<1>. QED
    BY <1>1, NobodyLinked DEF Answered, Pub, Calling, SamePlan

LEMMA QuarantineFacts ==
    ASSUME PubsTyped, NEW r \in Revision
    PROVE  /\ r \in 1 .. Len(pubs) /\ Quarantine(r) \in 1 .. Len(pubs)
           /\ quarantined = 0 => Quarantine(r) = r
    BY DEF PubsTyped, Revision, Quarantine

-----------------------------------------------------------------------------
(* The steps that concern one publication                                   *)

\* An attempt at unmounting can no longer succeed.
Attempt == closing' = closing \/ (closing = "unmounting" /\ closing' = "failing")

\* Publication r becomes p, and the quarantine m; the tab and the native side stay.
LEMMA SetStep ==
    ASSUME LinkAssumption, LinkInv, NEW r \in Revision, NEW p \in Pub, Set(r, p), quarantined' \in 0 .. Len(pubs),
           Attempt, ShownTyped', TabTyped', click'.st = click.st,
           StepOK(p), p.kind = pubs[r].kind, p.step \in Begun => pubs[r].step \in Begun,
           pubs[r].step # "waiting" => p.step # "waiting", Passed(pubs[r]) => Passed(p),
           p.step # "waiting" /\ pubs[r].step = "waiting" => \A q \in Revision : q < r => Passed(pubs[q]),
           \/ Engaged(pubs[r])
           \/ quarantined' = quarantined /\ (Engaged(p) => \A q \in Revision : ~Engaged(pubs[q])),
           Engaged(p) => Status(p, r, quarantined', closing),
           closing = "gone" => ~Engaged(p) /\ p.step \in {"waiting", "done"}
    PROVE  LinkInv'
<1>1. pubs' = [pubs EXCEPT ![r] = p] /\ pubs \in Seq(Pub) /\ r \in DOMAIN pubs /\ quarantined \in Nat
      /\ quarantined' \in Nat
    BY DEF Set, LinkInv, PubsTyped, Revision
<1>2. Queue(pubs, quarantined, closing)
    BY DEF LinkInv
<1>3. Queue([pubs EXCEPT ![r] = p], quarantined', closing)
    BY ONLY <1>1, <1>2, QueueSet, LinkInv, p \in Pub,
            StepOK(p), p.kind = pubs[r].kind, p.step \in Begun => pubs[r].step \in Begun,
            pubs[r].step # "waiting" => p.step # "waiting", Passed(pubs[r]) => Passed(p),
            p.step # "waiting" /\ pubs[r].step = "waiting" => \A q \in Revision : q < r => Passed(pubs[q]),
            \/ Engaged(pubs[r])
            \/ quarantined' = quarantined /\ (Engaged(p) => \A q \in Revision : ~Engaged(pubs[q])),
            Engaged(p) => Status(p, r, quarantined', closing),
            closing = "gone" => ~Engaged(p) /\ p.step \in {"waiting", "done"}, Zenon
       DEF Revision
<1>4. PubsTyped'
    <2>1. pubs' \in Seq(Pub) /\ Len(pubs') = Len(pubs)
        BY <1>1
    <2>. QED
        BY <2>1 DEF PubsTyped, LinkInv
<1>5. Queue(pubs', quarantined', closing')
    <2> DEFINE t == [pubs EXCEPT ![r] = p]
    <2>1. Queue(t, quarantined', closing) /\ pubs' = t
        BY <1>1, <1>3
    <2> HIDE DEF t
    <2>2. closing = "unmounting" => Queue(t, quarantined', "failing")
        BY <2>1, QueueClosing
    <2>. QED
        BY <2>1, <2>2 DEF Attempt
<1>6. closing' = "gone" => ~Dispatching'
    BY DEF LinkInv, Dispatching, Attempt
<1>. QED
    BY <1>4, <1>5, <1>6 DEF LinkInv

\* The same, when nothing else moves.
LEMMA OnlySetStep ==
    ASSUME LinkAssumption, LinkInv, NEW r \in Revision, NEW p \in Pub, Set(r, p), quarantined' \in 0 .. Len(pubs),
           UNCHANGED <<shown, native, click, activity, closing>>,
           StepOK(p), p.kind = pubs[r].kind, p.step \in Begun => pubs[r].step \in Begun,
           pubs[r].step # "waiting" => p.step # "waiting", Passed(pubs[r]) => Passed(p),
           p.step # "waiting" /\ pubs[r].step = "waiting" => \A q \in Revision : q < r => Passed(pubs[q]),
           \/ Engaged(pubs[r])
           \/ quarantined' = quarantined /\ (Engaged(p) => \A q \in Revision : ~Engaged(pubs[q])),
           Engaged(p) => Status(p, r, quarantined', closing),
           closing = "gone" => ~Engaged(p) /\ p.step \in {"waiting", "done"}
    PROVE  LinkInv'
<1>1. ShownTyped' /\ TabTyped' /\ click'.st = click.st /\ Attempt
    BY DEF Attempt, LinkInv, ShownTyped, TabTyped, shown
<1>. QED
    BY <1>1, SetStep, Zenon

Phases == {"preparing", "committing", "held", "aborting", "closing", "finalizing"}

\* A publication that has the registry finds it free, and owes nothing.
LEMMA PhaseFacts ==
    ASSUME LinkInv, NEW r \in Revision, pubs[r].step \in Phases
    PROVE  /\ pubs[r] \in Pub /\ StepOK(pubs[r]) /\ Engaged(pubs[r]) /\ ~Passed(pubs[r])
           /\ quarantined = 0 /\ closing # "gone" /\ pubs[r].late = "no"
<1>1. pubs[r] \in Pub /\ StepOK(pubs[r])
    BY DEF LinkInv, PubsTyped, Queue, Revision
<1>2. Engaged(pubs[r]) /\ ~Passed(pubs[r])
    BY DEF Engaged, Passed, Phases
<1>3. Status(pubs[r], r, quarantined, closing)
    BY <1>2, Zenon DEF LinkInv, Queue, Revision
<1>4. quarantined = 0 /\ pubs[r].late = "no"
    BY <1>1, <1>3 DEF Status, StepOK, Phases
<1>5. closing # "gone"
    BY <1>2, Zenon DEF LinkInv, Queue, Revision
<1>. QED
    BY <1>1, <1>2, <1>4, <1>5

\* It goes on, or is over.
LEMMA PhaseStep ==
    ASSUME LinkAssumption, LinkInv, NEW r \in Revision, pubs[r].step \in Phases,
           NEW p \in Pub, Set(r, p), quarantined' \in 0 .. Len(pubs),
           UNCHANGED closing, ShownTyped', TabTyped', click'.st = click.st,
           StepOK(p), p.kind = pubs[r].kind, p.step \in Phases \cup {"done"},
           p.step \in Begun => pubs[r].step \in Begun,
           p.step # "done" => quarantined' = 0,
           p.step = "done" /\ p.raw # "none" => quarantined' # 0 \/ closing # "no",
           p.late # "no" => quarantined' = r
    PROVE  LinkInv'
<1>1. /\ Engaged(pubs[r]) /\ ~Passed(pubs[r]) /\ closing # "gone" /\ pubs[r].step # "waiting"
    BY PhaseFacts DEF Phases
<1>2. p.step # "waiting"
    BY DEF Phases
<1>3. Engaged(p) => Status(p, r, quarantined', closing)
    <2>1. r # 0
        BY DEF LinkInv, PubsTyped, Revision
    <2>. QED
        BY <2>1 DEF Engaged, Status, Phases, Pub
<1>4. Attempt
    BY DEF Attempt
<1>. QED
    BY <1>1, <1>2, <1>3, <1>4, SetStep, Zenon

LEMMA MaxIsNat == LinkAssumption => MaxRevision \in Nat
    BY DEF LinkAssumption

\* The next call is sent, or its deadline has passed.
LEMMA CallStep ==
    ASSUME LinkAssumption, LinkInv, NEW r \in Revision, pubs[r].step \in Phases \cap Begun, NEW p \in Pub,
           p.kind = pubs[r].kind, p.raw = "none", p.answer = "none", p.late = "no", p.finalizer = "none",
           p.expired = pubs[r].expired,
           NEW call, NEW step, <<call, step>> \in {<<"abort", "aborting">>, <<"commit", "committing">>},
           NextCall(r, p, call, step), ShownTyped', TabTyped', click'.st = click.st, UNCHANGED closing
    PROVE  LinkInv'
<1>1. MaxRevision \in Nat
    BY MaxIsNat
<1>2. pubs[r].step \in Phases
    OBVIOUS
<1>3. quarantined = 0 /\ StepOK(pubs[r])
    BY <1>2, PhaseFacts
<1>4. r \in 1 .. Len(pubs) /\ Quarantine(r) = r /\ Len(pubs) \in Nat
    BY <1>3, QuarantineFacts DEF LinkInv, PubsTyped
<1>5. CASE p.expired
    <2> DEFINE q == EndedBadly(p)
    <2>1. Set(r, q) /\ quarantined' = r
        BY <1>4, <1>5 DEF NextCall
    <2>2. /\ q \in Pub /\ q.step = "done" /\ ~q.expired /\ q.kind = p.kind /\ q.raw = "none" /\ q.answer = "none"
          /\ q.late = "armed" /\ q.finalizer = "none"
        BY <1>1, EndedBadlyFacts
    <2> HIDE DEF q
    <2>3. StepOK(q)
        BY <2>2 DEF StepOK
    <2>. QED
        BY <1>2, <1>4, <2>1, <2>2, <2>3, PhaseStep DEF Begun
<1>6. CASE ~p.expired
    <2> DEFINE q == Sent(p, call, step)
    <2>1. Set(r, q) /\ quarantined' = 0
        BY <1>3, <1>6 DEF NextCall
    <2>2. /\ call \in {"abort", "commit"} /\ step \in {"aborting", "committing"}
          /\ step = "aborting" => call = "abort"
          /\ step = "committing" => call = "commit"
        OBVIOUS
    <2>3. /\ q \in Pub /\ q.step = step /\ q.raw = call /\ q.answer = "sent"
          /\ q.kind = p.kind /\ q.expired = p.expired /\ q.late = "no" /\ q.finalizer = "none"
        BY <2>2, SentFacts DEF Calling, Steps
    <2> HIDE DEF q
    <2>4. StepOK(q)
        BY <1>6, <2>2, <2>3 DEF StepOK, Pub
    <2>5. step \in Phases \cup {"done"} /\ (step \in Begun => pubs[r].step \in Begun)
        BY <2>2 DEF Phases
    <2>. QED
        BY <1>2, <1>4, <2>1, <2>3, <2>4, <2>5, PhaseStep
<1>. QED
    BY <1>5, <1>6

\* It is finalized once the clicks have settled, or finalizing is skipped.
LEMMA FinishingStep ==
    ASSUME LinkAssumption, LinkInv, NEW r \in Revision, pubs[r].step \in Phases, NEW p \in Pub,
           p.kind = pubs[r].kind, p.raw = "none", p.answer = "none", p.late = "no", p.finalizer = "none",
           Finishing(r, p), ShownTyped', TabTyped', click'.st = click.st, UNCHANGED closing
    PROVE  LinkInv'
<1>1. MaxRevision \in Nat
    BY MaxIsNat
<1>3. quarantined = 0 /\ StepOK(pubs[r])
    BY PhaseFacts
<1>4. r \in 1 .. Len(pubs) /\ Quarantine(r) = r /\ Len(pubs) \in Nat
    BY <1>3, QuarantineFacts DEF LinkInv, PubsTyped
<1>5. CASE closing # "no" \/ p.expired
    <2> DEFINE e == Ended(p)
               q == [e EXCEPT !.finalizer = "skipped"]
    <2>1. Set(r, q) /\ quarantined' \in 0 .. Len(pubs)
        BY <1>3, <1>4, <1>5 DEF Finishing
    <2>2. /\ e \in Pub /\ e.step = "done" /\ ~e.expired /\ e.kind = p.kind /\ e.raw = "none" /\ e.answer = "none"
          /\ e.late = "no" /\ e.finalizer = "none"
        BY <1>1, EndedFacts
    <2> HIDE DEF e
    <2>3. /\ q \in Pub /\ q.step = "done" /\ ~q.expired /\ q.kind = p.kind /\ q.raw = "none" /\ q.answer = "none"
          /\ q.late = "no" /\ q.finalizer = "skipped"
        BY <2>2 DEF Pub
    <2> HIDE DEF q
    <2>4. StepOK(q)
        BY <2>3 DEF StepOK
    <2>. QED
        BY <2>1, <2>3, <2>4, PhaseStep DEF Begun
<1>6. CASE ~(closing # "no" \/ p.expired)
    <2> DEFINE q == [p EXCEPT !.step = "closing", !.wait = click.n]
    <2>1. Set(r, q) /\ quarantined' = 0
        BY <1>3, <1>6 DEF Finishing
    <2>2. click.n \in Nat
        BY DEF LinkInv, TabTyped
    <2>3. /\ q \in Pub /\ q.step = "closing" /\ q.raw = "none" /\ q.answer = "none"
          /\ q.kind = p.kind /\ ~q.expired /\ q.late = "no" /\ q.finalizer = "none"
        BY <1>6, <2>2 DEF Pub, Steps
    <2> HIDE DEF q
    <2>4. StepOK(q)
        BY <2>3 DEF StepOK
    <2>. QED
        BY <1>4, <2>1, <2>3, <2>4, PhaseStep DEF Begun, Phases
<1>. QED
    BY <1>5, <1>6

\* It fails: the registry is quarantined, and an abort is owed.
LEMMA FailStep ==
    ASSUME LinkAssumption, LinkInv, NEW r \in Revision, pubs[r].step \in {"preparing", "committing", "aborting"},
           NEW p \in Pub, p.kind = pubs[r].kind, p.late = "no", p.finalizer = "none",
           p.raw = "none" <=> p.answer = "none", p.raw # "finalize",
           Set(r, EndedBadly(p)), quarantined' = Quarantine(r),
           ShownTyped', TabTyped', click'.st = click.st, UNCHANGED closing
    PROVE  LinkInv'
<1>1. MaxRevision \in Nat
    BY MaxIsNat
<1>2. pubs[r].step \in Phases
    BY DEF Phases
<1>3. quarantined = 0
    BY <1>2, PhaseFacts
<1>4. r \in 1 .. Len(pubs) /\ Quarantine(r) = r /\ Len(pubs) \in Nat
    BY <1>3, QuarantineFacts DEF LinkInv, PubsTyped
<1> DEFINE q == EndedBadly(p)
<1>5. /\ q \in Pub /\ q.step = "done" /\ ~q.expired /\ q.kind = p.kind /\ q.raw = p.raw /\ q.answer = p.answer
      /\ q.late = "armed" /\ q.finalizer = "none"
    BY <1>1, EndedBadlyFacts
<1>6. Set(r, q)
    OBVIOUS
<1> HIDE DEF q
<1>7. StepOK(q)
    BY <1>5 DEF StepOK
<1>. QED
    BY <1>2, <1>4, <1>5, <1>6, <1>7, PhaseStep DEF Begun

-----------------------------------------------------------------------------
(* The answers                                                              *)

\* What nothing else moves.
LEMMA TabStays ==
    ASSUME LinkInv, UNCHANGED <<native, click, activity, closing>>
    PROVE  TabTyped' /\ click'.st = click.st /\ closing' = closing
    BY DEF LinkInv, TabTyped

LEMMA AnsweredPhase ==
    ASSUME LinkAssumption, LinkInv, NEW r \in Revision, pubs[r].step \in Phases \ {"finalizing"}
    PROVE  LET p == pubs[r] q == Answered(r) IN
           /\ q \in Pub /\ q.raw = "none" /\ q.answer = "none" /\ q.late = "no" /\ q.finalizer = "none"
           /\ q.kind = p.kind /\ q.step = p.step /\ q.expired = p.expired /\ SamePlan(p, q)
<1>1. MaxRevision \in Nat /\ PubsTyped
    BY MaxIsNat DEF LinkInv
<1>2. StepOK(pubs[r]) /\ pubs[r].late = "no"
    BY PhaseFacts
<1>. QED
    BY <1>1, <1>2, AnsweredFacts DEF StepOK, Phases

LEMMA PrepareAnsweredSafe ==
    ASSUME LinkAssumption, LinkInv, NEW r \in Revision, PrepareAnswered(r)
    PROVE  LinkInv'
<1>1. TabTyped' /\ click'.st = click.st /\ closing' = closing /\ ShownTyped'
    BY TabStays DEF PrepareAnswered, LinkInv, ShownTyped, shown
<1>2. pubs[r].step = "preparing" /\ pubs[r].step \in Phases /\ pubs[r].step \in Begun /\ pubs[r].step \in Phases \ {"finalizing"}
    BY DEF PrepareAnswered, Phases, Begun
<1> DEFINE q == Answered(r)
<1>3. /\ q \in Pub /\ q.raw = "none" /\ q.answer = "none" /\ q.late = "no" /\ q.finalizer = "none"
      /\ q.kind = pubs[r].kind /\ q.expired = pubs[r].expired
    BY <1>2, AnsweredPhase
<1>4. \/ Set(r, EndedBadly(q)) /\ quarantined' = Quarantine(r)
      \/ NextCall(r, q, "abort", "aborting")
      \/ NextCall(r, q, "commit", "committing")
    BY Zenon DEF PrepareAnswered
<1> HIDE DEF q
<1>5. CASE Set(r, EndedBadly(q)) /\ quarantined' = Quarantine(r)
    BY <1>1, <1>2, <1>3, <1>5, FailStep
<1>6. CASE NextCall(r, q, "abort", "aborting")
    BY <1>1, <1>2, <1>3, <1>6, CallStep
<1>7. CASE NextCall(r, q, "commit", "committing")
    BY <1>1, <1>2, <1>3, <1>7, CallStep
<1>. QED
    BY <1>4, <1>5, <1>6, <1>7

LEMMA RebasedTyped ==
    ASSUME LinkAssumption, PubsTyped, ShownTyped, NEW r \in Revision
    PROVE  Rebased(r) \in LinksOf
<1>1. MaxRevision \in Nat /\ r \in Rev
    BY MaxIsNat DEF PubsTyped, Revision, Rev
<1>. QED
    BY <1>1 DEF Rebased, ShownTyped, LinksOf

LEMMA RenderCommittedSafe ==
    ASSUME LinkAssumption, LinkInv, NEW r \in Revision, NEW taken \in BOOLEAN, NEW evicts \in BOOLEAN,
           RenderCommitted(r, taken, evicts)
    PROVE  LinkInv'
<1> DEFINE p == pubs[r]
           Shows(f) == [q \in LinkPage |-> IF q = p.page THEN r ELSE IF evicts /\ q \notin p.pages THEN 0 ELSE f[q]]
           a == Answered(r)
<1>1. TabTyped' /\ click'.st = click.st /\ closing' = closing
    BY TabStays DEF RenderCommitted
<1>2. p.step = "committing" /\ p.step \in Phases /\ p.step \in Begun /\ p.step \in Phases \ {"finalizing"}
    BY DEF RenderCommitted, Phases, Begun
<1>3. /\ a \in Pub /\ a.raw = "none" /\ a.answer = "none" /\ a.late = "no" /\ a.finalizer = "none"
      /\ a.kind = p.kind /\ a.expired = p.expired
    BY <1>2, AnsweredPhase
<1>4. \/ NextCall(r, a, "abort", "aborting") /\ UNCHANGED shown
      \/ /\ overlay' = Shows(overlay) /\ groups' = Shows(Rebased(r)) /\ entries' = p.next
         /\ Finishing(r, [a EXCEPT !.applied = TRUE])
    BY Zenon DEF RenderCommitted
<1>5. CASE NextCall(r, a, "abort", "aborting") /\ UNCHANGED shown
    <2>1. ShownTyped'
        BY <1>5 DEF LinkInv, ShownTyped, shown
    <2> HIDE DEF a
    <2>. QED
        BY <1>1, <1>2, <1>3, <1>5, <2>1, CallStep
<1>6. CASE /\ overlay' = Shows(overlay) /\ groups' = Shows(Rebased(r)) /\ entries' = p.next
           /\ Finishing(r, [a EXCEPT !.applied = TRUE])
    <2>1. r \in Rev /\ 0 \in Rev /\ p \in Pub
        BY MaxIsNat, <1>2, PhaseFacts DEF LinkInv, PubsTyped, Revision, Rev
    <2>2. \A f \in LinksOf : Shows(f) \in LinksOf
        BY <2>1 DEF LinksOf
    <2>3. ShownTyped'
        BY <1>6, <2>1, <2>2, RebasedTyped DEF LinkInv, ShownTyped, Pub
    <2> DEFINE q == [a EXCEPT !.applied = TRUE]
    <2> HIDE DEF a, Shows
    <2>4. /\ q \in Pub /\ q.raw = "none" /\ q.answer = "none" /\ q.late = "no" /\ q.finalizer = "none"
          /\ q.kind = p.kind
        BY <1>3 DEF Pub
    <2>5. Finishing(r, q)
        BY <1>6
    <2> HIDE DEF q
    <2>. QED
        BY <1>1, <1>2, <2>3, <2>4, <2>5, FinishingStep
<1>. QED
    BY <1>4, <1>5, <1>6

LEMMA AuthorityCommittedSafe ==
    ASSUME LinkAssumption, LinkInv, NEW r \in Revision, AuthorityCommitted(r)
    PROVE  LinkInv'
<1> DEFINE a == Answered(r)
           p == [a EXCEPT !.applied = TRUE]
           h == [p EXCEPT !.step = "held"]
<1>1. TabTyped' /\ click'.st = click.st /\ closing' = closing
    BY TabStays DEF AuthorityCommitted
<1>2. pubs[r].step = "committing" /\ pubs[r].step \in Phases /\ pubs[r].step \in Phases \ {"finalizing"} /\ pubs[r].kind # "render"
    BY DEF AuthorityCommitted, Phases
<1>3. /\ a \in Pub /\ a.raw = "none" /\ a.answer = "none" /\ a.late = "no" /\ a.finalizer = "none"
      /\ a.kind = pubs[r].kind /\ a.expired = pubs[r].expired
    BY <1>2, AnsweredPhase
<1>4. ShownTyped'
    BY RebasedTyped DEF AuthorityCommitted, LinkInv, ShownTyped
<1>5. IF p.kind = "hold" THEN Set(r, h) /\ quarantined' = quarantined ELSE Finishing(r, p)
    BY Zenon DEF AuthorityCommitted
<1>6. quarantined = 0 /\ StepOK(pubs[r])
    BY <1>2, PhaseFacts
<1> HIDE DEF a
<1>7. /\ p \in Pub /\ p.raw = "none" /\ p.answer = "none" /\ p.late = "no" /\ p.finalizer = "none"
      /\ p.kind = pubs[r].kind /\ p.expired = pubs[r].expired
    BY <1>3 DEF Pub
<1> HIDE DEF p
<1>8. CASE p.kind # "hold"
    BY <1>1, <1>2, <1>4, <1>5, <1>7, <1>8, FinishingStep
<1>9. CASE p.kind = "hold"
    <2>1. /\ h \in Pub /\ h.raw = "none" /\ h.answer = "none" /\ h.late = "no" /\ h.finalizer = "none"
          /\ h.kind = pubs[r].kind /\ ~h.expired /\ h.step = "held" /\ h.kind = "hold"
        BY <1>2, <1>6, <1>7, <1>9 DEF Pub, Steps, StepOK
    <2>2. Set(r, h) /\ quarantined' = 0
        BY <1>5, <1>6, <1>9
    <2> HIDE DEF h
    <2>3. StepOK(h)
        BY <2>1 DEF StepOK
    <2>4. 0 \in 0 .. Len(pubs)
        BY DEF LinkInv, PubsTyped
    <2>. QED
        BY <1>1, <1>2, <1>4, <2>1, <2>2, <2>3, <2>4, PhaseStep DEF Phases, Begun
<1>. QED
    BY <1>8, <1>9

LEMMA CommitFailedSafe ==
    ASSUME LinkAssumption, LinkInv, NEW r \in Revision, CommitFailed(r)
    PROVE  LinkInv'
<1>1. TabTyped' /\ click'.st = click.st /\ closing' = closing /\ ShownTyped'
    BY TabStays DEF CommitFailed, LinkInv, ShownTyped, shown
<1>2. pubs[r].step = "committing" /\ pubs[r].step \in Phases \ {"finalizing"}
    BY DEF CommitFailed, Phases
<1> DEFINE q == Answered(r)
<1>3. q \in Pub /\ q.raw = "none" /\ q.answer = "none" /\ q.late = "no" /\ q.finalizer = "none" /\ q.kind = pubs[r].kind
    BY <1>2, AnsweredPhase
<1>4. Set(r, EndedBadly(q)) /\ quarantined' = Quarantine(r)
    BY Zenon DEF CommitFailed
<1> HIDE DEF q
<1>. QED
    BY <1>1, <1>2, <1>3, <1>4, FailStep


-----------------------------------------------------------------------------
(* Holding, finalizing and rolling back                                     *)

\* A publication that waits within its phase has no call under way.
LEMMA RestingFacts ==
    ASSUME LinkInv, NEW r \in Revision, pubs[r].step \in {"held", "closing"}
    PROVE  LET p == pubs[r] IN
           /\ p \in Pub /\ p.step \in Phases /\ p.raw = "none" /\ p.answer = "none" /\ p.late = "no" /\ p.finalizer = "none"
           /\ quarantined = 0 /\ StepOK(p)
<1>1. pubs[r].step \in Phases
    BY DEF Phases
<1>. QED
    BY <1>1, PhaseFacts DEF StepOK

LEMMA ShownStays == LinkInv /\ UNCHANGED shown => ShownTyped'
    BY DEF LinkInv, ShownTyped, shown

LEMMA HoldFinalizeSafe ==
    ASSUME LinkAssumption, LinkInv, NEW r \in Revision, HoldFinalize(r)
    PROVE  LinkInv'
<1>1. TabTyped' /\ click'.st = click.st /\ closing' = closing /\ ShownTyped'
    BY TabStays, ShownStays DEF HoldFinalize
<1>2. pubs[r].step \in {"held", "closing"} /\ Finishing(r, pubs[r])
    BY DEF HoldFinalize
<1>. QED
    BY <1>1, <1>2, RestingFacts, FinishingStep

LEMMA HoldRollbackSafe ==
    ASSUME LinkAssumption, LinkInv, NEW r \in Revision, HoldRollback(r)
    PROVE  LinkInv'
<1>1. TabTyped' /\ click'.st = click.st /\ closing' = closing /\ ShownTyped'
    BY TabStays, ShownStays DEF HoldRollback
<1>2. pubs[r].step \in {"held", "closing"} /\ pubs[r].step \in Begun /\ NextCall(r, pubs[r], "abort", "aborting")
    BY DEF HoldRollback, Begun
<1>. QED
    BY <1>1, <1>2, RestingFacts, CallStep

LEMMA RollbackAnsweredSafe ==
    ASSUME LinkAssumption, LinkInv, NEW r \in Revision, RollbackAnswered(r)
    PROVE  LinkInv'
<1> DEFINE a == Answered(r)
           e == Ended(a)
           u == [e EXCEPT !.applied = FALSE]
<1>1. TabTyped' /\ click'.st = click.st /\ closing' = closing
    BY TabStays DEF RollbackAnswered
<1>2. pubs[r].step = "aborting" /\ pubs[r].step \in Phases \ {"finalizing"} /\ pubs[r].step \in Phases
    BY DEF RollbackAnswered, Phases
<1>3. a \in Pub /\ a.raw = "none" /\ a.answer = "none" /\ a.late = "no" /\ a.finalizer = "none" /\ a.kind = pubs[r].kind
    BY <1>2, AnsweredPhase
<1>4. ShownTyped'
    <2>1. pubs[r].prior \in LinksOf
        BY <1>2, PhaseFacts DEF Pub
    <2>2. 0 \in Rev
        BY MaxIsNat DEF Rev
    <2>3. groups' = groups \/ groups' = [p \in LinkPage |-> IF overlay[p] # 0 THEN pubs[r].prior[p] ELSE 0]
        BY DEF RollbackAnswered
    <2>4. overlay' = overlay /\ entries' = entries
        BY DEF RollbackAnswered
    <2>. QED
        BY <2>1, <2>2, <2>3, <2>4 DEF LinkInv, ShownTyped, LinksOf
<1>5. \/ Set(r, u) /\ quarantined' = quarantined
      \/ Set(r, EndedBadly(a)) /\ quarantined' = Quarantine(r)
    BY DEF RollbackAnswered
<1>6. quarantined = 0 /\ 0 \in 0 .. Len(pubs)
    BY <1>2, PhaseFacts DEF LinkInv, PubsTyped
<1> HIDE DEF a
<1>7. CASE Set(r, u) /\ quarantined' = quarantined
    <2>1. /\ e \in Pub /\ e.step = "done" /\ ~e.expired /\ e.kind = a.kind /\ e.raw = "none" /\ e.answer = "none"
          /\ e.late = "no" /\ e.finalizer = "none"
        BY <1>3, MaxIsNat, EndedFacts
    <2> HIDE DEF e
    <2>2. /\ u \in Pub /\ u.step = "done" /\ ~u.expired /\ u.kind = a.kind /\ u.raw = "none" /\ u.answer = "none"
          /\ u.late = "no" /\ u.finalizer = "none"
        BY <2>1 DEF Pub
    <2> HIDE DEF u
    <2>3. StepOK(u)
        BY <2>2 DEF StepOK
    <2>. QED
        BY <1>1, <1>2, <1>3, <1>4, <1>6, <1>7, <2>2, <2>3, PhaseStep DEF Begun
<1>8. CASE Set(r, EndedBadly(a)) /\ quarantined' = Quarantine(r)
    BY <1>1, <1>2, <1>3, <1>4, <1>8, FailStep
<1>. QED
    BY <1>5, <1>7, <1>8

LEMMA StartFinalizeSafe ==
    ASSUME LinkAssumption, LinkInv, NEW r \in Revision, StartFinalize(r)
    PROVE  LinkInv'
<1> DEFINE s == Sent(pubs[r], "finalize", "finalizing")
           q == [s EXCEPT !.finalizer = "pending"]
<1>1. TabTyped' /\ click'.st = click.st /\ closing' = closing /\ ShownTyped'
    BY TabStays, ShownStays DEF StartFinalize
<1>2. pubs[r].step = "closing" /\ pubs[r].step \in {"held", "closing"}
    BY DEF StartFinalize
<1>3. Finishing(r, pubs[r]) \/ (Set(r, q) /\ quarantined' = quarantined)
    BY DEF StartFinalize
<1>4. LET p == pubs[r] IN
      /\ p \in Pub /\ p.step \in Phases /\ p.raw = "none" /\ p.answer = "none" /\ p.late = "no" /\ p.finalizer = "none"
      /\ quarantined = 0 /\ StepOK(p)
    BY <1>2, RestingFacts
<1>5. CASE Finishing(r, pubs[r])
    BY <1>1, <1>4, <1>5, FinishingStep
<1>6. CASE Set(r, q) /\ quarantined' = quarantined
    <2>1. /\ s \in Pub /\ s.step = "finalizing" /\ s.raw = "finalize" /\ s.answer = "sent"
          /\ s.kind = pubs[r].kind /\ s.expired = pubs[r].expired /\ s.late = "no"
        BY <1>4, SentFacts DEF Calling, Steps
    <2> HIDE DEF s
    <2>2. ~pubs[r].expired
        BY <1>2, <1>4 DEF StepOK
    <2>3. /\ q \in Pub /\ q.step = "finalizing" /\ q.raw = "finalize" /\ q.answer = "sent"
          /\ q.kind = pubs[r].kind /\ ~q.expired /\ q.late = "no" /\ q.finalizer = "pending"
        BY <2>1, <2>2 DEF Pub
    <2> HIDE DEF q
    <2>4. StepOK(q)
        BY <2>3 DEF StepOK
    <2>5. 0 \in 0 .. Len(pubs)
        BY DEF LinkInv, PubsTyped
    <2>. QED
        BY <1>1, <1>4, <1>6, <2>3, <2>4, <2>5, PhaseStep DEF Phases, Begun
<1>. QED
    BY <1>3, <1>5, <1>6

\* What is known of every publication.
LEMMA EachFacts ==
    ASSUME LinkInv, NEW r \in Revision
    PROVE  /\ pubs[r] \in Pub /\ StepOK(pubs[r]) /\ r \in 1 .. Len(pubs) /\ quarantined \in 0 .. Len(pubs)
           /\ r \in Nat \ {0} /\ Len(pubs) \in Nat
           /\ Engaged(pubs[r]) => Status(pubs[r], r, quarantined, closing) /\ closing # "gone"
    BY DEF LinkInv, PubsTyped, Queue, Revision

\* A call or a late abort of a publication that has the registry was answered.
LEMMA EngagedStep ==
    ASSUME LinkAssumption, LinkInv, NEW r \in Revision, Engaged(pubs[r]), pubs[r].step # "waiting",
           NEW p \in Pub, Set(r, p), quarantined' \in 0 .. Len(pubs),
           Attempt, ShownTyped', TabTyped', click'.st = click.st,
           StepOK(p), p.kind = pubs[r].kind, p.step = pubs[r].step \/ p.step = "done",
           p.expired = pubs[r].expired,
           Engaged(p) => Status(p, r, quarantined', closing)
    PROVE  LinkInv'
<1>1. closing # "gone"
    BY EachFacts
<1>2. Passed(pubs[r]) => Passed(p)
    BY DEF Passed
<1>3. (p.step \in Begun => pubs[r].step \in Begun) /\ p.step # "waiting"
    BY DEF Begun
<1>. QED
    BY <1>1, <1>2, <1>3, SetStep, Zenon

LEMMA FinalizeAnsweredSafe ==
    ASSUME LinkAssumption, LinkInv, NEW r \in Revision, FinalizeAnswered(r)
    PROVE  LinkInv'
<1> DEFINE a == Answered(r)
           e == Ended(a)
<1>1. TabTyped' /\ click'.st = click.st /\ closing' = closing /\ ShownTyped'
    BY TabStays, ShownStays DEF FinalizeAnswered
<1>2. MaxRevision \in Nat /\ PubsTyped
    BY MaxIsNat DEF LinkInv
<1>3. /\ pubs[r] \in Pub /\ a \in Pub /\ a.raw = "none" /\ a.answer = "none"
      /\ a.kind = pubs[r].kind /\ a.late = pubs[r].late
    BY <1>2, AnsweredFacts
<1>4. StepOK(pubs[r]) /\ pubs[r].raw = "finalize" /\ r \in 1 .. Len(pubs) /\ quarantined \in 0 .. Len(pubs) /\ Len(pubs) \in Nat
    BY EachFacts DEF FinalizeAnswered
<1>5. PICK f \in {"none", "failed"} : Set(r, [e EXCEPT !.finalizer = f])
    BY DEF FinalizeAnswered
<1>6. quarantined' \in 0 .. Len(pubs)
    BY <1>4 DEF FinalizeAnswered, Quarantine
<1>7. Engaged(pubs[r]) /\ pubs[r].step # "waiting" /\ ~pubs[r].expired /\ a.late \in {"no", "done"}
    BY <1>3, <1>4 DEF StepOK, Engaged
<1> HIDE DEF a
<1>8. /\ e \in Pub /\ e.step = "done" /\ ~e.expired /\ e.kind = a.kind /\ e.raw = "none" /\ e.answer = "none"
      /\ e.late = a.late
    BY <1>2, <1>3, EndedFacts
<1> HIDE DEF e
<1> DEFINE q == [e EXCEPT !.finalizer = f]
<1>9. /\ q \in Pub /\ q.step = "done" /\ ~q.expired /\ q.kind = pubs[r].kind /\ q.raw = "none" /\ q.answer = "none"
      /\ q.late \in {"no", "done"} /\ q.finalizer = f
    BY <1>3, <1>7, <1>8 DEF Pub
<1>10. Set(r, q)
    BY <1>5
<1> HIDE DEF q
<1>11. StepOK(q) /\ ~Engaged(q)
    BY <1>9 DEF StepOK, Engaged
<1>12. q.expired = pubs[r].expired
    BY <1>3, <1>7, <1>9 DEF Pub
<1>. QED
    BY <1>1, <1>6, <1>7, <1>9, <1>10, <1>11, <1>12, EngagedStep DEF Attempt

LEMMA LateAnswerSafe ==
    ASSUME LinkAssumption, LinkInv, NEW r \in Revision, LateAnswer(r), ~Hurried
    PROVE  LinkInv'
<1> DEFINE a == Answered(r)
<1>0. pubs[r].ahead # "due"
    BY DEF Hurried
<1>1. TabTyped' /\ click'.st = click.st /\ closing' = closing /\ ShownTyped' /\ quarantined' = quarantined
    BY <1>0, TabStays, ShownStays DEF LateAnswer
<1>2. MaxRevision \in Nat /\ PubsTyped
    BY MaxIsNat DEF LinkInv
<1>3. /\ pubs[r] \in Pub /\ a \in Pub /\ a.raw = "none" /\ a.answer = "none" /\ a.expired = pubs[r].expired
      /\ a.kind = pubs[r].kind /\ a.late = pubs[r].late /\ a.step = pubs[r].step /\ a.finalizer = pubs[r].finalizer
    BY <1>2, AnsweredFacts
<1>4. /\ StepOK(pubs[r]) /\ quarantined \in 0 .. Len(pubs) /\ r # 0
      /\ Engaged(pubs[r]) => Status(pubs[r], r, quarantined, closing)
    BY EachFacts
<1>5. pubs[r].step = "done" /\ pubs[r].raw # "finalize" /\ pubs[r].answer # "none" /\ Set(r, a)
    BY <1>0 DEF LateAnswer
<1>6. pubs[r].late = "armed" /\ Engaged(pubs[r])
    BY <1>4, <1>5 DEF StepOK, Engaged
<1>7. quarantined = r
    BY <1>4, <1>6 DEF Status
<1> HIDE DEF a
<1>8. StepOK(a)
    BY <1>3, <1>4, <1>5, <1>6 DEF StepOK
<1>9. Status(a, r, quarantined', closing)
    BY <1>1, <1>3, <1>4, <1>5, <1>7 DEF Status
<1>. QED
    BY <1>1, <1>3, <1>4, <1>5, <1>6, <1>8, <1>9, EngagedStep DEF Attempt

\* The abort that was owed goes on.
LateMoves(p, q, l) ==
    /\ q.kind = p.kind /\ q.step = p.step /\ q.expired = p.expired /\ q.raw = p.raw
    /\ q.answer = p.answer /\ q.finalizer = p.finalizer /\ q.late = l

LEMMA LateFacts ==
    ASSUME LinkInv, NEW r \in Revision, pubs[r].late \in {"sent", "ok", "error", "failed"}
    PROVE  LET p == pubs[r] IN
           /\ p \in Pub /\ StepOK(p) /\ Engaged(p) /\ p.step = "done" /\ p.raw = "none" /\ p.finalizer = "none"
           /\ quarantined = r /\ r # 0 /\ quarantined \in 0 .. Len(pubs) /\ Status(p, r, r, closing)
<1>1. /\ pubs[r] \in Pub /\ StepOK(pubs[r]) /\ r # 0 /\ quarantined \in 0 .. Len(pubs)
      /\ Engaged(pubs[r]) => Status(pubs[r], r, quarantined, closing)
    BY EachFacts
<1>2. Engaged(pubs[r])
    BY DEF Engaged
<1>3. quarantined = r
    BY <1>1, <1>2 DEF Status
<1>4. pubs[r].step = "done" /\ pubs[r].raw = "none" /\ pubs[r].finalizer = "none"
    BY <1>1 DEF StepOK
<1>. QED
    BY <1>1, <1>2, <1>3, <1>4

LEMMA LateStep ==
    ASSUME LinkAssumption, LinkInv, NEW r \in Revision, pubs[r].late \in {"sent", "ok", "error", "failed"},
           NEW l \in {"sent", "ok", "error", "failed", "done"},
           NEW q \in Pub, LateMoves(pubs[r], q, l), Set(r, q),
           quarantined' \in 0 .. Len(pubs), quarantined' = r \/ l = "done",
           Attempt, ShownTyped', TabTyped', click'.st = click.st
    PROVE  LinkInv'
<1>1. LET p == pubs[r] IN
      /\ p \in Pub /\ StepOK(p) /\ Engaged(p) /\ p.step = "done" /\ p.raw = "none" /\ p.finalizer = "none"
      /\ quarantined = r /\ r # 0 /\ quarantined \in 0 .. Len(pubs) /\ Status(p, r, r, closing)
    BY LateFacts
<1>2. StepOK(q)
    BY <1>1 DEF StepOK, LateMoves
<1>3. Engaged(q) => Status(q, r, quarantined', closing)
    BY <1>1 DEF Status, Engaged, LateMoves
<1>4. q.kind = pubs[r].kind /\ q.step = pubs[r].step /\ q.expired = pubs[r].expired /\ pubs[r].step # "waiting"
    BY <1>1 DEF LateMoves
<1>. QED
    BY <1>1, <1>2, <1>3, <1>4, EngagedStep

LEMMA LateAbortAnsweredSafe ==
    ASSUME LinkAssumption, LinkInv, NEW r \in Revision, LateAbortAnswered(r)
    PROVE  LinkInv'
<1>1. UNCHANGED <<native, click, activity, shown>> /\ Attempt
    BY DEF LateAbortAnswered, Attempt
<1>2. TabTyped' /\ click'.st = click.st /\ ShownTyped'
    BY <1>1, ShownStays DEF LinkInv, TabTyped, Attempt
<1>3. pubs[r].late \in {"sent", "ok", "error", "failed"}
    BY DEF LateAbortAnswered
<1>4. pubs[r] \in Pub /\ r \in 1 .. Len(pubs) /\ quarantined \in 0 .. Len(pubs) /\ Len(pubs) \in Nat
    BY EachFacts
<1>5. PICK l \in {"done", "failed"} :
          /\ Set(r, [pubs[r] EXCEPT !.late = l, !.awaited = FALSE])
          /\ l = "done" => quarantined' = IF quarantined = r THEN 0 ELSE quarantined
          /\ l = "failed" => quarantined' = r
    BY DEF LateAbortAnswered
<1>6. quarantined' \in 0 .. Len(pubs) /\ (quarantined' = r \/ l = "done")
    BY <1>4, <1>5
<1> DEFINE q == [pubs[r] EXCEPT !.late = l, !.awaited = FALSE]
<1>7. q \in Pub /\ LateMoves(pubs[r], q, l) /\ Set(r, q)
    BY <1>4, <1>5 DEF Pub, LateMoves
<1> HIDE DEF q
<1>. QED
    BY <1>1, <1>2, <1>3, <1>6, <1>7, LateStep

-----------------------------------------------------------------------------
(* Deadlines and turns                                                      *)

LEMMA ExpireSafe ==
    ASSUME LinkAssumption, LinkInv, NEW r \in Revision, Expire(r)
    PROVE  LinkInv'
<1> DEFINE p == pubs[r]
           q == [p EXCEPT !.expired = TRUE]
<1>1. UNCHANGED <<shown, native, click, activity, closing>> /\ quarantined' = quarantined /\ Set(r, q)
      /\ ~p.expired /\ p.step # "done"
      /\ \/ p.step = "waiting" /\ p.kind # "render"
         \/ p.step = "held"
    BY DEF Expire, Due, Timed
<1>2. p \in Pub /\ StepOK(p) /\ quarantined \in 0 .. Len(pubs)
    BY EachFacts
<1>3. Engaged(p) => Status(p, r, quarantined, closing) /\ closing # "gone"
    BY EachFacts
<1> HIDE DEF p
<1>4. /\ q \in Pub /\ q.kind = p.kind /\ q.step = p.step /\ q.expired /\ q.raw = p.raw
      /\ q.answer = p.answer /\ q.finalizer = p.finalizer /\ q.late = p.late
    BY <1>2 DEF Pub
<1> HIDE DEF q
<1>5. StepOK(q)
    BY <1>1, <1>2, <1>4 DEF StepOK
<1>6. (Engaged(q) <=> Engaged(p)) /\ (Status(q, r, quarantined, closing) <=> Status(p, r, quarantined, closing))
    BY <1>4 DEF Engaged, Status
<1>7. Passed(p) => Passed(q)
    BY <1>1 DEF Passed
<1>8. closing = "gone" => ~Engaged(q) /\ q.step \in {"waiting", "done"}
    BY <1>3, <1>4, <1>6 DEF LinkInv, Queue, Revision, p
<1>9. Engaged(p) \/ (quarantined' = quarantined /\ (Engaged(q) => \A u \in Revision : ~Engaged(pubs[u])))
    BY <1>1, <1>6
<1>10. Engaged(q) => Status(q, r, quarantined', closing)
    BY <1>1, <1>3, <1>6
<1>. QED
    BY <1>1, <1>2, <1>4, <1>5, <1>7, <1>8, <1>9, <1>10, OnlySetStep DEF p

\* One that has not yet got the registry is over, or waits for the clicks.
LEMMA IdleStep ==
    ASSUME LinkAssumption, LinkInv, NEW r \in Revision, pubs[r].step \in {"waiting", "settling"},
           NEW p \in Pub, Set(r, p), UNCHANGED <<quarantined, shown, native, click, activity, closing>>,
           p.kind = pubs[r].kind, p.raw = "none", p.answer = "none", p.late = "no", p.finalizer = "none", ~p.expired,
           p.step = "done" \/ (p.step = "settling" /\ closing = "no" /\ ~pubs[r].expired),
           pubs[r].step = "waiting" => \A q \in Revision : q < r => Passed(pubs[q])
    PROVE  LinkInv'
<1>1. StepOK(p) /\ ~Engaged(p)
    BY DEF StepOK, Engaged
<1>2. quarantined' = quarantined /\ quarantined' \in 0 .. Len(pubs)
    BY EachFacts
<1>3. (p.step \in Begun => pubs[r].step \in Begun) /\ p.step # "waiting" /\ (Passed(pubs[r]) => Passed(p))
    <2>2. CASE p.step = "done"
        BY <2>2 DEF Begun, Passed
    <2>3. CASE p.step = "settling"
        BY <2>3 DEF Begun, Passed
    <2>. QED
        BY <2>2, <2>3
<1>4. closing = "gone" => p.step \in {"waiting", "done"}
    OBVIOUS
<1>. QED
    BY <1>1, <1>2, <1>3, <1>4, OnlySetStep, Zenon

LEMMA IdleFacts ==
    ASSUME LinkAssumption, LinkInv, NEW r \in Revision, pubs[r].step \in {"waiting", "settling"}
    PROVE  LET p == pubs[r] e == Ended(p) IN
           /\ p \in Pub /\ p.raw = "none" /\ p.answer = "none" /\ p.late = "no" /\ p.finalizer = "none"
           /\ p.step = "settling" => ~p.expired
           /\ e \in Pub /\ e.kind = p.kind /\ e.step = "done" /\ ~e.expired
           /\ e.raw = "none" /\ e.answer = "none" /\ e.late = "no" /\ e.finalizer = "none"
<1>1. pubs[r] \in Pub /\ StepOK(pubs[r])
    BY EachFacts
<1>2. LET p == pubs[r] IN
      p.raw = "none" /\ p.answer = "none" /\ p.late = "no" /\ p.finalizer = "none" /\ (p.step = "settling" => ~p.expired)
    BY <1>1 DEF StepOK
<1>3. LET p == pubs[r] q == Ended(p) IN
           /\ q \in Pub /\ q.step = "done" /\ ~q.expired
           /\ q.kind = p.kind /\ q.raw = p.raw /\ q.answer = p.answer /\ q.late = p.late /\ q.finalizer = p.finalizer
    BY <1>1, MaxIsNat, EndedFacts
<1>. QED
    BY <1>1, <1>2, <1>3

LEMMA TakeTurnSafe ==
    ASSUME LinkAssumption, LinkInv, NEW r \in Revision, TakeTurn(r)
    PROVE  LinkInv'
<1> DEFINE p == pubs[r]
           e == Ended(p)
           w == [p EXCEPT !.step = "settling", !.wait = click.n]
<1>1. UNCHANGED <<quarantined, shown, native, click, activity, closing>> /\ p.step = "waiting"
      /\ IF p.expired \/ closing # "no" \/ quarantined # 0 THEN Set(r, e) ELSE Set(r, w)
    BY DEF TakeTurn
<1>2. pubs[r].step \in {"waiting", "settling"}
    BY <1>1
<1>3. \A q \in Revision : q < r => Passed(pubs[q])
    <2> SUFFICES ASSUME NEW q \in Revision, q < r PROVE Passed(pubs[q])
        OBVIOUS
    <2>1. q \in 1 .. Len(pubs) /\ r \in 1 .. Len(pubs) /\ Len(pubs) \in Nat
        BY EachFacts
    <2>2. r - 1 \in Revision /\ pubs[r - 1].step = "done"
        BY <2>1 DEF TakeTurn, Turn, LinkInv, PubsTyped, Revision
    <2>3. CASE q = r - 1
        BY <2>2, <2>3 DEF Passed
    <2>4. CASE q < r - 1
        BY <2>2, <2>4 DEF LinkInv, Queue, InOrder, Revision
    <2>. QED
        BY <2>1, <2>3, <2>4
<1>4. /\ p \in Pub /\ p.raw = "none" /\ p.answer = "none" /\ p.late = "no" /\ p.finalizer = "none"
      /\ e \in Pub /\ e.kind = p.kind /\ e.step = "done" /\ ~e.expired
      /\ e.raw = "none" /\ e.answer = "none" /\ e.late = "no" /\ e.finalizer = "none"
    BY <1>2, IdleFacts
<1>5. click.n \in Nat
    BY DEF LinkInv, TabTyped
<1> HIDE DEF e, p
<1>6. CASE Set(r, e)
    BY <1>1, <1>2, <1>3, <1>4, <1>6, IdleStep DEF p
<1>7. CASE Set(r, w) /\ ~p.expired /\ closing = "no"
    <2>1. /\ w \in Pub /\ w.step = "settling" /\ w.kind = p.kind /\ ~w.expired
          /\ w.raw = "none" /\ w.answer = "none" /\ w.late = "no" /\ w.finalizer = "none"
        BY <1>4, <1>5, <1>7 DEF Pub, Steps
    <2> HIDE DEF w
    <2>. QED
        BY <1>1, <1>2, <1>3, <1>7, <2>1, IdleStep DEF p
<1>. QED
    BY <1>1, <1>6, <1>7

\* While a publication waits for the clicks nobody has the registry.
LEMMA NobodyEngaged ==
    ASSUME LinkInv, NEW r \in Revision, pubs[r].step = "settling", closing = "no", quarantined = 0
    PROVE  \A q \in Revision : ~Engaged(pubs[q])
<1> SUFFICES ASSUME NEW q \in Revision, Engaged(pubs[q]) PROVE FALSE
    OBVIOUS
<1>1. StepOK(pubs[q]) /\ Status(pubs[q], q, 0, "no") /\ pubs[q] \in Pub /\ q \in Nat
    BY EachFacts
<1>2. pubs[q].step \notin {"waiting", "settling", "done"}
    BY <1>1 DEF StepOK, Status, Engaged
<1>3. q # r /\ q \in Nat /\ r \in Nat
    BY <1>1, <1>2, EachFacts
<1>4. CASE q < r
    <2>1. Passed(pubs[q])
        BY <1>4 DEF LinkInv, Queue, InOrder, Revision
    <2>. QED
        BY <1>2, <2>1 DEF Passed
<1>5. CASE r < q
    <2>1. Passed(pubs[r])
        BY <1>2, <1>5 DEF LinkInv, Queue, InOrder, Revision
    <2>. QED
        BY <2>1 DEF Passed
<1>. QED
    BY <1>3, <1>4, <1>5

LEMMA StartPrepareSafe ==
    ASSUME LinkAssumption, LinkInv, NEW r \in Revision, StartPrepare(r)
    PROVE  LinkInv'
<1> DEFINE p == pubs[r]
           e == Ended(p)
           s == Sent(p, "prepare", "preparing")
<1>1. UNCHANGED <<quarantined, shown, native, click, activity, closing>> /\ p.step = "settling"
      /\ IF closing # "no" \/ quarantined # 0 THEN Set(r, e) ELSE Set(r, s)
    BY DEF StartPrepare
<1>2. pubs[r].step \in {"waiting", "settling"}
    BY <1>1
<1>3. /\ p \in Pub /\ p.raw = "none" /\ p.answer = "none" /\ p.late = "no" /\ p.finalizer = "none" /\ ~p.expired
      /\ e \in Pub /\ e.kind = p.kind /\ e.step = "done" /\ ~e.expired
      /\ e.raw = "none" /\ e.answer = "none" /\ e.late = "no" /\ e.finalizer = "none"
    BY <1>1, <1>2, IdleFacts
<1>4. CASE Set(r, e)
    <2> HIDE DEF e, p
    <2>. QED
        BY <1>1, <1>2, <1>3, <1>4, IdleStep DEF p
<1>5. CASE Set(r, s) /\ closing = "no" /\ quarantined = 0
    <2>1. /\ s \in Pub /\ s.step = "preparing" /\ s.raw = "prepare" /\ s.answer = "sent"
          /\ s.kind = p.kind /\ ~s.expired /\ s.late = "no" /\ s.finalizer = "none"
        BY <1>3, SentFacts DEF Calling, Steps
    <2>2. \A q \in Revision : ~Engaged(pubs[q])
        BY <1>1, <1>5, NobodyEngaged
    <2>3. quarantined' = quarantined /\ quarantined' \in 0 .. Len(pubs) /\ r # 0
        BY <1>1, EachFacts
    <2> HIDE DEF s
    <2>4. StepOK(s)
        BY <2>1 DEF StepOK
    <2>5. Status(s, r, quarantined', closing)
        BY <1>5, <2>1, <2>3 DEF Status
    <2>6. (s.step \in Begun => pubs[r].step \in Begun) /\ s.step # "waiting" /\ ~Passed(pubs[r]) /\ pubs[r].step # "waiting"
        BY <1>1, <2>1 DEF Begun, Passed
    <2>7. closing # "gone" /\ UNCHANGED <<shown, native, click, activity, closing>> /\ Set(r, s)
        BY <1>1, <1>5
    <2>. QED
        BY <2>1, <2>2, <2>3, <2>4, <2>5, <2>6, <2>7, OnlySetStep, Zenon
<1>. QED
    BY <1>1, <1>4, <1>5

LEMMA TimeoutSafe ==
    ASSUME LinkAssumption, LinkInv, NEW r \in Revision, Timeout(r)
    PROVE  LinkInv'
<1> DEFINE p == pubs[r]
           e == Ended(p)
<1>1. UNCHANGED <<shown, native, click, activity, closing>> /\ Due(r) /\ Timed(p) /\ closing' = closing
    BY DEF Timeout
<1>2. TabTyped' /\ click'.st = click.st /\ closing' = closing /\ ShownTyped'
    BY <1>1, TabStays, ShownStays
<1>3. p \in Pub /\ StepOK(p) /\ r \in 1 .. Len(pubs) /\ quarantined \in 0 .. Len(pubs) /\ Len(pubs) \in Nat
    BY EachFacts
<1>4. \/ p.step \in {"waiting", "settling"} /\ Set(r, e) /\ quarantined' = quarantined
      \/ p.step \in {"preparing", "committing", "aborting"} /\ Set(r, EndedBadly(p)) /\ quarantined' = Quarantine(r)
      \/ p.step = "closing" /\ Finishing(r, [p EXCEPT !.expired = TRUE])
      \/ /\ p.step = "finalizing"
         /\ Set(r, e) /\ quarantined' = IF closing = "no" THEN Quarantine(r) ELSE quarantined
    BY DEF Timeout
<1>5. CASE p.step \in {"waiting", "settling"} /\ Set(r, e) /\ quarantined' = quarantined
    <2>1. p.step = "waiting" => \A q \in Revision : q < r => Passed(pubs[q])
        <3> SUFFICES ASSUME p.step = "waiting", NEW q \in Revision, q < r PROVE Passed(pubs[q])
            OBVIOUS
        <3>1. q \in 1 .. Len(pubs) /\ StepOK(pubs[q])
            BY EachFacts
        <3>2. pubs[q].step = "done" \/ pubs[q].expired
            BY <1>1, <1>3, <3>1 DEF Due
        <3>3. p.kind = "render"
            BY <1>1 DEF Timed
        <3>4. Reading(p) /\ q # r
            BY <1>3, <3>1, <3>3 DEF Reading, Begun
        <3>5. ~Reading(pubs[q])
            BY <3>4 DEF LinkInv, Queue, OneReader, Revision
        <3>6. pubs[q].kind \in Kinds
            BY EachFacts DEF Pub
        <3>. QED
            BY <3>1, <3>2, <3>5, <3>6 DEF StepOK, Reading, Begun, Passed
    <2>2. /\ e \in Pub /\ e.kind = p.kind /\ e.step = "done" /\ ~e.expired
          /\ e.raw = "none" /\ e.answer = "none" /\ e.late = "no" /\ e.finalizer = "none"
        BY <1>5, IdleFacts
    <2>3. UNCHANGED <<quarantined, shown, native, click, activity, closing>> /\ Set(r, e)
        BY <1>1, <1>5
    <2> HIDE DEF e
    <2>. QED
        BY <1>5, <2>1, <2>2, <2>3, IdleStep
<1>6. CASE p.step \in {"preparing", "committing", "aborting"} /\ Set(r, EndedBadly(p)) /\ quarantined' = Quarantine(r)
    <2>1. /\ p.late = "no" /\ p.finalizer = "none" /\ (p.raw = "none" <=> p.answer = "none") /\ p.raw # "finalize"
        BY <1>3, <1>6 DEF StepOK
    <2>. QED
        BY <1>2, <1>3, <1>6, <2>1, FailStep
<1>7. CASE p.step = "closing" /\ Finishing(r, [p EXCEPT !.expired = TRUE])
    <2> DEFINE q == [p EXCEPT !.expired = TRUE]
    <2>1. p.raw = "none" /\ p.answer = "none" /\ p.late = "no" /\ p.finalizer = "none" /\ p.step \in Phases
        BY <1>7, RestingFacts
    <2>2. /\ q \in Pub /\ q.kind = p.kind /\ q.raw = "none" /\ q.answer = "none" /\ q.late = "no" /\ q.finalizer = "none"
        BY <1>3, <2>1 DEF Pub
    <2>3. Finishing(r, q)
        BY <1>7
    <2> HIDE DEF q
    <2>. QED
        BY <1>2, <2>1, <2>2, <2>3, FinishingStep
<1>8. CASE p.step = "finalizing" /\ Set(r, e) /\ quarantined' = IF closing = "no" THEN Quarantine(r) ELSE quarantined
    <2>1. quarantined = 0 /\ p.step \in Phases
        BY <1>8, PhaseFacts DEF Phases
    <2>2. p.raw = "finalize" /\ p.late = "no" /\ p.finalizer = "pending" /\ p.answer # "none" /\ ~p.expired
        BY <1>3, <1>8 DEF StepOK
    <2>3. /\ e \in Pub /\ e.step = "done" /\ ~e.expired
          /\ e.kind = p.kind /\ e.raw = p.raw /\ e.answer = p.answer /\ e.late = p.late /\ e.finalizer = p.finalizer
        BY <1>3, MaxIsNat, EndedFacts
    <2>4. quarantined' \in 0 .. Len(pubs) /\ (quarantined' # 0 \/ closing # "no") /\ Set(r, e)
        BY <1>3, <1>8, <2>1 DEF Quarantine
    <2> HIDE DEF e
    <2>5. StepOK(e)
        BY <2>2, <2>3 DEF StepOK
    <2>. QED
        BY <1>2, <2>1, <2>2, <2>3, <2>4, <2>5, PhaseStep DEF Begun
<1>. QED
    BY <1>4, <1>5, <1>6, <1>7, <1>8

-----------------------------------------------------------------------------
(* The native side                                                          *)

\* Whatever the native session is asked, its registry keeps its shape.
LEMMA PreparedTyped ==
    ASSUME LinkAssumption, NEW n \in Registry, NEW r \in Rev, NEW links \in LinksOf
    PROVE  PrepareLinks(n, r, links).n \in Registry
<1>1. NoTransaction \in LinkTransaction
    BY MaxIsNat, NobodyLinked DEF NoTransaction, LinkTransaction, Rev
<1>2. 0 \in Rev
    BY MaxIsNat DEF Rev
<1> DEFINE t == [NoTransaction EXCEPT !.st = "prepared", !.rev = r, !.links = links]
<1>3. t \in LinkTransaction
    BY <1>1 DEF LinkTransaction
<1> HIDE DEF t
<1>4. n.txn.rev \in Rev
    BY DEF Registry, LinkTransaction
<1>5. [n EXCEPT !.finalized = IF n.txn.st = "committed" THEN n.txn.rev ELSE @, !.aborted = 0, !.txn = t] \in Registry
    BY <1>2, <1>3, <1>4 DEF Registry
<1>. QED
    BY <1>5 DEF PrepareLinks, t

LEMMA CommittedTyped ==
    ASSUME NEW n \in Registry, NEW r \in Rev, MaxRevision \in Nat
    PROVE  CommitLinks(n, r).n \in Registry
<1> DEFINE t == [st |-> "committed", rev |-> r, links |-> Nobody, prevRev |-> n.rev, prevLinks |-> n.links]
<1>1. t \in LinkTransaction
    BY NobodyLinked DEF LinkTransaction, Registry
<1> HIDE DEF t
<1>2. [n EXCEPT !.rev = r, !.links = n.txn.links, !.txn = t] \in Registry
    BY <1>1 DEF Registry, LinkTransaction
<1>. QED
    BY <1>2 DEF CommitLinks, t

LEMMA FinalizedTyped ==
    ASSUME NEW n \in Registry, NEW r \in Rev, MaxRevision \in Nat
    PROVE  FinalizeLinks(n, r).n \in Registry
<1>1. NoTransaction \in LinkTransaction
    BY NobodyLinked DEF NoTransaction, LinkTransaction, Rev
<1>2. [n EXCEPT !.finalized = r, !.txn = NoTransaction] \in Registry
    BY <1>1 DEF Registry
<1>. QED
    BY <1>2 DEF FinalizeLinks

LEMMA AbortedTyped ==
    ASSUME NEW n \in Registry, NEW r \in Rev, MaxRevision \in Nat
    PROVE  AbortLinks(n, r).n \in Registry
<1>1. NoTransaction \in LinkTransaction
    BY NobodyLinked DEF NoTransaction, LinkTransaction, Rev
<1>2. [n EXCEPT !.rev = IF n.txn.st = "committed" THEN n.txn.prevRev ELSE @,
                !.links = IF n.txn.st = "committed" THEN n.txn.prevLinks ELSE @,
                !.aborted = r, !.txn = NoTransaction] \in Registry
    BY <1>1 DEF Registry, LinkTransaction
<1>3. [n EXCEPT !.aborted = r] \in Registry
    BY DEF Registry
<1>. QED
    BY <1>2, <1>3 DEF AbortLinks

LEMMA HandleSafe ==
    ASSUME LinkAssumption, LinkInv, NEW r \in Revision, Handle(r)
    PROVE  LinkInv'
<1> DEFINE p == pubs[r]
<1>1. MaxRevision \in Nat /\ r \in Rev
    BY MaxIsNat DEF LinkInv, PubsTyped, Revision, Rev
<1>2. p \in Pub /\ StepOK(p) /\ quarantined \in 0 .. Len(pubs) /\ (Engaged(p) => Status(p, r, quarantined, closing))
    BY EachFacts
<1>3. PICK ans \in {"ok", "error"} : Set(r, [p EXCEPT !.answer = ans])
    BY DEF Handle
<1>4. /\ p.answer = "sent" /\ native' = Handled(r).n
      /\ UNCHANGED <<quarantined, shown, click, activity, closing>>
    BY DEF Handle
<1>5. p.raw \in {"prepare", "commit", "finalize", "abort"}
    BY <1>2, <1>4 DEF StepOK, Pub, Calling
<1>6. native \in Registry /\ p.links \in LinksOf
    BY <1>2 DEF LinkInv, TabTyped, Pub
<1>7. native' \in Registry
    BY <1>1, <1>4, <1>5, <1>6, PreparedTyped, CommittedTyped, FinalizedTyped, AbortedTyped DEF Handled
<1>8. TabTyped' /\ click'.st = click.st /\ closing' = closing /\ ShownTyped' /\ quarantined' = quarantined
    BY <1>4, <1>7, ShownStays DEF LinkInv, TabTyped
<1>9. Engaged(p) /\ p.step # "waiting"
    BY <1>2, <1>5 DEF Engaged, StepOK
<1> HIDE DEF p
<1> DEFINE q == [p EXCEPT !.answer = ans]
<1>10. /\ q \in Pub /\ q.kind = p.kind /\ q.step = p.step /\ q.expired = p.expired /\ q.raw = p.raw
       /\ q.answer = ans /\ q.finalizer = p.finalizer /\ q.late = p.late
    BY <1>2 DEF Pub
<1>11. Set(r, q)
    BY <1>3
<1> HIDE DEF q
<1>12. StepOK(q)
    BY <1>2, <1>5, <1>10 DEF StepOK
<1>13. Status(q, r, quarantined', closing)
    BY <1>2, <1>8, <1>9, <1>10 DEF Status
<1>. QED
    BY <1>2, <1>8, <1>9, <1>10, <1>11, <1>12, <1>13, EngagedStep DEF p, Attempt

LEMMA HandleLateAbortSafe ==
    ASSUME LinkAssumption, LinkInv, NEW r \in Revision, HandleLateAbort(r)
    PROVE  LinkInv'
<1>1. MaxRevision \in Nat /\ r \in Rev /\ native \in Registry
    BY MaxIsNat DEF LinkInv, PubsTyped, TabTyped, Revision, Rev
<1>2. native' \in Registry
    BY <1>1, AbortedTyped DEF HandleLateAbort
<1>3. TabTyped' /\ click'.st = click.st /\ closing' = closing /\ ShownTyped' /\ quarantined' = quarantined
    BY <1>2, ShownStays DEF LinkInv, TabTyped, HandleLateAbort
<1>4. PICK l \in {"ok", "error"} : Set(r, [pubs[r] EXCEPT !.late = l])
    BY DEF HandleLateAbort
<1>5. pubs[r].late \in {"sent", "ok", "error", "failed"}
    BY DEF HandleLateAbort
<1>6. quarantined = r /\ quarantined \in 0 .. Len(pubs) /\ pubs[r] \in Pub
    BY <1>5, LateFacts
<1> DEFINE q == [pubs[r] EXCEPT !.late = l]
<1>7. q \in Pub /\ LateMoves(pubs[r], q, l) /\ Set(r, q)
    BY <1>4, <1>6 DEF Pub, LateMoves
<1> HIDE DEF q
<1>. QED
    BY <1>3, <1>5, <1>6, <1>7, LateStep DEF Attempt

LEMMA FaultSafe ==
    ASSUME LinkAssumption, LinkInv, NEW r \in Revision, Fault(r)
    PROVE  LinkInv'
<1>1. TabTyped' /\ click'.st = click.st /\ closing' = closing /\ ShownTyped' /\ quarantined' = quarantined
    BY TabStays, ShownStays DEF Fault
<1>2. CASE pubs[r].answer = "sent" /\ Set(r, [pubs[r] EXCEPT !.answer = "error"])
    <2> DEFINE p == pubs[r]
    <2>1. p \in Pub /\ StepOK(p) /\ quarantined \in 0 .. Len(pubs) /\ (Engaged(p) => Status(p, r, quarantined, closing))
        BY EachFacts
    <2>2. p.raw # "none" /\ p.answer = "sent"
        BY <1>2, <2>1 DEF StepOK
    <2>3. Engaged(p) /\ p.step # "waiting"
        BY <2>1, <2>2 DEF Engaged, StepOK
    <2> HIDE DEF p
    <2> DEFINE q == [p EXCEPT !.answer = "error"]
    <2>4. /\ q \in Pub /\ q.kind = p.kind /\ q.step = p.step /\ q.expired = p.expired /\ q.raw = p.raw
          /\ q.answer = "error" /\ q.finalizer = p.finalizer /\ q.late = p.late
        BY <2>1 DEF Pub
    <2>5. Set(r, q)
        BY <1>2 DEF p
    <2> HIDE DEF q
    <2>6. StepOK(q)
        BY <2>1, <2>2, <2>4 DEF StepOK
    <2>7. Status(q, r, quarantined', closing)
        BY <1>1, <2>1, <2>3, <2>4 DEF Status
    <2>. QED
        BY <1>1, <2>1, <2>3, <2>4, <2>5, <2>6, <2>7, EngagedStep DEF p, Attempt
<1>3. CASE pubs[r].late = "sent" /\ Set(r, [pubs[r] EXCEPT !.late = "error"])
    <2>1. quarantined = r /\ quarantined \in 0 .. Len(pubs) /\ pubs[r] \in Pub
        BY <1>3, LateFacts
    <2> DEFINE q == [pubs[r] EXCEPT !.late = "error"]
    <2>2. q \in Pub /\ LateMoves(pubs[r], q, "error") /\ Set(r, q)
        BY <1>3, <2>1 DEF Pub, LateMoves
    <2> HIDE DEF q
    <2>. QED
        BY <1>1, <1>3, <2>1, <2>2, LateStep DEF Attempt
<1>. QED
    BY <1>2, <1>3 DEF Fault

-----------------------------------------------------------------------------
(* Aborts that are repeated                                                 *)

LEMMA ResendFacts ==
    ASSUME NEW p \in Pub
    PROVE  Resend(p) \in Pub /\ Alike(p, Resend(p)) /\ Resend(p).ahead = p.ahead
    BY DEF Resend, Pub, Alike

LEMMA AgainFacts ==
    ASSUME NEW p \in Pub
    PROVE  LET q == AwaitedLate(Resend(p)) IN q \in Pub /\ Alike(p, q)
<1> DEFINE t == Resend(p)
           b == t.late \notin {"no", "done"}
<1>1. t \in Pub /\ Alike(p, t)
    BY ResendFacts
<1>2. AwaitedLate(t) = [t EXCEPT !.awaited = b] /\ b \in BOOLEAN
    BY DEF AwaitedLate
<1> HIDE DEF t, b
<1>3. AwaitedLate(t) \in Pub /\ Alike(p, AwaitedLate(t))
    BY <1>1, <1>2 DEF Pub, Alike
<1>. QED
    BY <1>3 DEF t

\* The queue is a sequence of publications again.
LEMMA MappedTyped ==
    ASSUME NEW s \in Seq(Pub), NEW f, DOMAIN f = DOMAIN s, f = [r \in DOMAIN s |-> f[r]], \A r \in DOMAIN s : f[r] \in Pub
    PROVE  f \in Seq(Pub) /\ Len(f) = Len(s)
<1>1. DOMAIN s = 1 .. Len(s) /\ Len(s) \in Nat
    OBVIOUS
<1>2. f \in [1 .. Len(s) -> Pub]
    BY <1>1
<1>. QED
    BY <1>1, <1>2

LEMMA SendLateAbortSafe ==
    ASSUME LinkAssumption, LinkInv, NEW r \in Revision, SendLateAbort(r)
    PROVE  LinkInv'
<1> DEFINE p == [pubs[r] EXCEPT !.late = "sent"]
           t == [pubs EXCEPT ![r] = p]
           u == [q \in Revision |-> Resend(t[q])]
<1>1. TabTyped' /\ click'.st = click.st /\ closing' = closing /\ ShownTyped' /\ quarantined' = quarantined
    BY TabStays, ShownStays DEF SendLateAbort
<1>2. /\ pubs[r] \in Pub /\ StepOK(pubs[r]) /\ quarantined \in 0 .. Len(pubs) /\ r # 0
      /\ Engaged(pubs[r]) => Status(pubs[r], r, quarantined, closing) /\ closing # "gone"
    BY EachFacts
<1>3. pubs[r].late = "armed" /\ pubs[r].raw = "none"
    BY DEF SendLateAbort, AbortDue
<1>4. Engaged(pubs[r]) /\ pubs[r].step = "done" /\ pubs[r].answer = "none" /\ pubs[r].finalizer = "none" /\ ~pubs[r].expired
    BY <1>2, <1>3 DEF Engaged, StepOK
<1>5. quarantined = r
    BY <1>2, <1>3, <1>4 DEF Status
<1>6. /\ p \in Pub /\ p.kind = pubs[r].kind /\ p.step = "done" /\ ~p.expired
      /\ p.raw = "none" /\ p.answer = "none" /\ p.finalizer = "none" /\ p.late = "sent"
    BY <1>2, <1>3, <1>4 DEF Pub
<1>7. pubs \in Seq(Pub) /\ r \in DOMAIN pubs /\ DOMAIN pubs = Revision
    BY DEF LinkInv, PubsTyped, Revision
<1>8. pubs' = u
    <2>1. pubs' = [q \in Revision |-> IF q = r THEN p ELSE Resend(pubs[q])]
        BY DEF SendLateAbort
    <2>2. Resend(p) = p
        BY <1>6 DEF Resend
    <2>. QED
        BY <1>7, <2>1, <2>2, Zenon
<1> HIDE DEF p
<1>9. StepOK(p) /\ Status(p, r, quarantined, closing) /\ (p.step \in Begun => pubs[r].step \in Begun) /\ Passed(p)
    BY <1>2, <1>5, <1>6 DEF StepOK, Status, Begun, Passed
<1>10. Queue(t, quarantined, closing)
    <2>1. Queue(pubs, quarantined, closing) /\ quarantined \in Nat /\ closing # "gone"
        BY <1>2, <1>4 DEF LinkInv
    <2>2. pubs[r].step # "waiting" /\ p.step # "waiting"
        BY <1>4, <1>6
    <2>. QED
        BY ONLY <1>4, <1>6, <1>7, <1>9, <2>1, <2>2, QueueSet
<1>11. t \in Seq(Pub) /\ Len(t) = Len(pubs) /\ DOMAIN t = Revision
    BY <1>6, <1>7
<1> HIDE DEF t
<1>12. \A q \in Revision : t[q] \in Pub
    BY <1>11
<1>13. \A q \in Revision : u[q] \in Pub /\ Alike(t[q], u[q])
    BY <1>12, ResendFacts
<1>14. DOMAIN u = DOMAIN t
    BY <1>11
<1>15. u \in Seq(Pub) /\ Len(u) = Len(pubs)
    BY <1>11, <1>13, <1>14, MappedTyped
<1> HIDE DEF u
<1>16. Queue(u, quarantined, closing)
    BY <1>10, <1>11, <1>13, <1>14, QueueAlike
<1>17. Queue(pubs', quarantined', closing')
    BY <1>1, <1>8, <1>16
<1>18. PubsTyped'
    BY <1>1, <1>8, <1>15 DEF LinkInv, PubsTyped
<1>19. closing' = "gone" => ~Dispatching'
    BY <1>1, <1>2, <1>4
<1>. QED
    BY <1>1, <1>17, <1>18, <1>19 DEF LinkInv

-----------------------------------------------------------------------------
(* Publications that are begun                                              *)

LEMMA PublicationFacts ==
    ASSUME LinkAssumption, ShownTyped, NEW kind \in Kinds, NEW page \in LinkPage \cup {0},
           NEW pages \in SUBSET LinkPage, NEW links \in LinksOf
    PROVE  LET p == Publication(kind, page, pages, links) IN
           /\ p \in Pub /\ StepOK(p) /\ p.kind = kind /\ p.step = "waiting" /\ p.raw = "none" /\ p.late = "no"
<1> DEFINE p == Publication(kind, page, pages, links)
<1>1. Restricted(links, pages) \in LinksOf /\ groups \in LinksOf
    BY MaxIsNat, RestrictedTyped DEF ShownTyped
<1>2. p \in Pub /\ p.kind = kind /\ p.step = "waiting" /\ p.raw = "none" /\ p.late = "no" /\ p.answer = "none"
      /\ p.finalizer = "none" /\ ~p.expired
    BY <1>1 DEF Publication, Pub, Steps, Calling
<1> HIDE DEF p
<1>3. StepOK(p)
    BY <1>2 DEF StepOK
<1>. QED
    BY <1>2, <1>3 DEF p

LEMMA BeginStep ==
    ASSUME LinkAssumption, LinkInv, NEW s \in Seq(Pub), Len(s) = Len(pubs), Queue(s, quarantined, closing),
           Len(pubs) < MaxRevision,
           NEW kind \in Kinds, NEW page \in LinkPage \cup {0},
           NEW pages \in SUBSET LinkPage, NEW links \in LinksOf,
           pubs' = Append(s, Publication(kind, page, pages, links)),
           kind # "sync" => \A q \in DOMAIN s : ~Reading(s[q]),
           UNCHANGED <<quarantined, closing, click>>, ShownTyped', TabTyped'
    PROVE  LinkInv'
<1> DEFINE p == Publication(kind, page, pages, links)
<1>1. p \in Pub /\ StepOK(p) /\ p.kind = kind /\ p.step = "waiting" /\ p.raw = "none" /\ p.late = "no"
    BY ONLY PublicationFacts, LinkAssumption, LinkInv, kind \in Kinds, page \in LinkPage \cup {0},
            pages \in SUBSET LinkPage, links \in LinksOf DEF LinkInv
<1>2. pubs' = Append(s, p)
    OBVIOUS
<1> HIDE DEF p
<1>3. Queue(pubs', quarantined', closing')
    <2>1. Queue(Append(s, p), quarantined, closing)
        BY <1>1, QueueAppend
    <2>. QED
        BY <1>2, <2>1
<1>4. PubsTyped'
    <2>1. pubs' \in Seq(Pub) /\ Len(pubs') = Len(pubs) + 1
        BY <1>1, <1>2
    <2>2. Len(pubs) \in Nat /\ quarantined \in 0 .. Len(pubs) /\ MaxRevision \in Nat /\ quarantined' = quarantined
        BY MaxIsNat DEF LinkInv, PubsTyped
    <2>. QED
        BY <2>1, <2>2 DEF PubsTyped
<1>5. closing' = "gone" => ~Dispatching'
    BY DEF LinkInv, Dispatching
<1>. QED
    BY <1>3, <1>4, <1>5 DEF LinkInv

LEMMA NotReading ==
    ASSUME LinkInv, ~ReaderBusy
    PROVE  \A q \in DOMAIN pubs : ~Reading(pubs[q])
    BY EachFacts DEF ReaderBusy, Busy, Reading, Revision, Pub, Kinds

LEMMA PubsFacts == LinkInv => pubs \in Seq(Pub) /\ Queue(pubs, quarantined, closing)
    BY DEF LinkInv, PubsTyped

LEMMA RenderSafe ==
    ASSUME LinkAssumption, LinkInv, NEW p \in LinkPage, NEW kept \in SUBSET LinkPage, Render(p, kept)
    PROVE  LinkInv'
<1>1. UNCHANGED <<shown, native, click, activity, closing, quarantined>> /\ ~ReaderBusy /\ Len(pubs) + 1 <= MaxRevision
    BY DEF Render
<1>2. TabTyped' /\ click'.st = click.st /\ closing' = closing /\ ShownTyped'
    BY <1>1, TabStays, ShownStays
<1>3. MaxRevision \in Nat /\ Len(pubs) \in Nat
    BY MaxIsNat DEF LinkInv, PubsTyped
<1>4. [entries EXCEPT ![p] = Len(pubs) + 1] \in LinksOf
    <2>1. Len(pubs) + 1 \in Rev
        BY <1>1, <1>3 DEF Rev
    <2>. QED
        BY <2>1 DEF LinkInv, ShownTyped, LinksOf
<1>5. pubs' = Append(pubs, Publication("render", p, kept, [entries EXCEPT ![p] = Len(pubs) + 1]))
    BY DEF Render, Begin
<1>6. Len(pubs) < MaxRevision
    BY <1>1, <1>3
<1>. QED
    BY <1>1, <1>2, <1>4, <1>5, <1>6, PubsFacts, NotReading, BeginStep DEF Kinds

LEMMA HoldSafe ==
    ASSUME LinkAssumption, LinkInv, NEW pages \in SUBSET LinkPage, Hold(pages) \/ Restore(pages)
    PROVE  LinkInv'
<1>1. UNCHANGED <<shown, native, click, activity, closing, quarantined>> /\ ~ReaderBusy /\ Len(pubs) < MaxRevision
    BY DEF Hold, Restore
<1>2. TabTyped' /\ click'.st = click.st /\ closing' = closing /\ ShownTyped'
    BY <1>1, TabStays, ShownStays
<1>3. entries \in LinksOf
    BY DEF LinkInv, ShownTyped
<1>4. PICK kind \in {"hold", "restore"} : pubs' = Append(pubs, Publication(kind, 0, pages, entries))
    BY DEF Hold, Restore, Begin
<1>5. kind \in Kinds
    BY DEF Kinds
<1>. QED
    BY <1>1, <1>2, <1>3, <1>4, <1>5, PubsFacts, NotReading, BeginStep

\* A render that is no longer wanted goes on as before.
LEMMA OutdatedFacts ==
    ASSUME PubsTyped
    PROVE  LET t == Outdated(pubs) IN
           /\ t \in Seq(Pub) /\ Len(t) = Len(pubs) /\ DOMAIN t = Revision
           /\ \A r \in Revision : t[r] \in Pub /\ Alike(pubs[r], t[r])
<1> DEFINE t == Outdated(pubs)
<1>1. pubs \in Seq(Pub) /\ DOMAIN pubs = Revision /\ DOMAIN t = Revision /\ t = [r \in Revision |-> t[r]]
    BY DEF PubsTyped, Revision, Outdated
<1>2. \A r \in Revision : t[r] \in Pub /\ Alike(pubs[r], t[r])
    <2> SUFFICES ASSUME NEW r \in Revision PROVE t[r] \in Pub /\ Alike(pubs[r], t[r])
        OBVIOUS
    <2> DEFINE p == pubs[r]
    <2>1. p \in Pub
        BY DEF PubsTyped, Revision
    <2>2. t[r] = p \/ t[r] = [p EXCEPT !.stale = TRUE]
        BY DEF Outdated, Revision
    <2> HIDE DEF t, p
    <2>3. t[r] \in Pub /\ Alike(p, t[r])
        BY <2>1, <2>2 DEF Pub, Alike
    <2>. QED
        BY <2>3 DEF p
<1> HIDE DEF t
<1>3. t \in Seq(Pub) /\ Len(t) = Len(pubs)
    BY <1>1, <1>2, MappedTyped
<1>. QED
    BY <1>1, <1>2, <1>3 DEF t

LEMMA SettleInactiveSafe ==
    ASSUME LinkAssumption, LinkInv, SettleInactive, UNCHANGED <<quarantined, shown, native, click, closing>>
    PROVE  LinkInv'
<1> DEFINE t == Outdated(pubs)
<1>1. /\ t \in Seq(Pub) /\ Len(t) = Len(pubs) /\ DOMAIN t = Revision
      /\ \A r \in Revision : Alike(pubs[r], t[r])
    BY OutdatedFacts DEF LinkInv
<1>2. pubs' = Append(t, Publication("sync", 0, {}, entries)) /\ Len(pubs) < MaxRevision /\ activity' = "revoking"
    BY DEF SettleInactive, Sync
<1> HIDE DEF t
<1>3. Queue(t, quarantined, closing)
    <2>1. pubs \in Seq(Pub) /\ Queue(pubs, quarantined, closing) /\ DOMAIN t = DOMAIN pubs /\ DOMAIN pubs = Revision
        BY <1>1, PubsFacts DEF Revision
    <2>. QED
        BY <1>1, <2>1, QueueAlike
<1>4. ShownTyped' /\ entries \in LinksOf
    BY ShownStays DEF LinkInv, ShownTyped
<1>5. TabTyped'
    BY <1>2 DEF LinkInv, TabTyped
<1>. QED
    BY <1>1, <1>2, <1>3, <1>4, <1>5, BeginStep DEF Kinds

LEMMA ActivateSafe ==
    ASSUME LinkAssumption, LinkInv, Activate
    PROVE  LinkInv'
<1>1. UNCHANGED <<quarantined, shown, native, click, closing>> /\ Len(pubs) < MaxRevision /\ activity' = "activating"
      /\ pubs' = Append(pubs, Publication("sync", 0, Resident, entries))
    BY DEF Activate, Begin, Sync
<1>2. ShownTyped' /\ entries \in LinksOf /\ Resident \in SUBSET LinkPage
    BY <1>1, ShownStays DEF LinkInv, ShownTyped, Resident
<1>3. TabTyped'
    BY <1>1 DEF LinkInv, TabTyped
<1>. QED
    BY <1>1, <1>2, <1>3, PubsFacts, BeginStep DEF Kinds

-----------------------------------------------------------------------------
(* The clicks, the pages, and the end                                       *)

\* Nothing of the queue moves.
LEMMA QueueStays ==
    ASSUME LinkInv, UNCHANGED <<pubs, quarantined, closing>>, ShownTyped', TabTyped', closing = "gone" => ~Dispatching'
    PROVE  LinkInv'
    BY DEF LinkInv, PubsTyped

LEMMA ClickSafe ==
    ASSUME LinkAssumption, LinkInv, NEW p \in LinkPage, Click(p)
    PROVE  LinkInv'
<1>1. UNCHANGED <<pubs, quarantined, shown, native, activity, closing>> /\ closing # "gone" /\ click'.n = click.n + 1
    BY DEF Click
<1>2. TabTyped'
    BY <1>1 DEF LinkInv, TabTyped
<1>. QED
    BY <1>1, <1>2, ShownStays, QueueStays

LEMMA DispatchSafe ==
    ASSUME LinkAssumption, LinkInv, Dispatch
    PROVE  LinkInv'
<1>1. UNCHANGED <<pubs, quarantined, shown, native, activity, closing>> /\ Dispatching
      /\ click' = [click EXCEPT !.st = LinkTarget(native, click.rev, click.page, click.id)]
    BY DEF Dispatch, Dispatching
<1>2. click'.n = click.n
    BY <1>1
<1>3. TabTyped'
    BY <1>1, <1>2 DEF LinkInv, TabTyped
<1>4. closing # "gone"
    BY <1>1 DEF LinkInv
<1>. QED
    BY <1>1, <1>3, <1>4, ShownStays, QueueStays

LEMMA ClickSettledSafe ==
    ASSUME LinkAssumption, LinkInv, ClickSettled
    PROVE  LinkInv'
<1>1. UNCHANGED <<pubs, quarantined, shown, native, activity, closing>> /\ Dispatching
      /\ click' = [click EXCEPT !.st = "none"]
    BY DEF ClickSettled, Dispatching
<1>2. click'.n = click.n
    BY <1>1
<1>3. TabTyped'
    BY <1>1, <1>2 DEF LinkInv, TabTyped
<1>4. closing # "gone"
    BY <1>1 DEF LinkInv
<1>. QED
    BY <1>1, <1>3, <1>4, ShownStays, QueueStays

LEMMA EvictPageSafe ==
    ASSUME LinkAssumption, LinkInv, NEW p \in LinkPage, EvictPage(p)
    PROVE  LinkInv'
<1>1. UNCHANGED <<pubs, quarantined, native, click, activity, closing>>
    BY DEF EvictPage
<1>2. ShownTyped'
    BY MaxIsNat DEF EvictPage, LinkInv, ShownTyped, LinksOf, Rev
<1>3. TabTyped' /\ click'.st = click.st
    BY <1>1, TabStays
<1>4. closing = "gone" => ~Dispatching'
    BY <1>1 DEF LinkInv, Dispatching
<1>. QED
    BY <1>1, <1>2, <1>3, <1>4, QueueStays

\* The tab's activity goes on.
LEMMA ActivityStep ==
    ASSUME LinkInv, UNCHANGED <<pubs, quarantined, shown, native, click, closing>>, activity' \in {"on", "off", "broken"}
    PROVE  LinkInv'
<1>1. TabTyped'
    BY DEF LinkInv, TabTyped
<1>2. closing = "gone" => ~Dispatching'
    BY DEF LinkInv, Dispatching
<1>. QED
    BY <1>1, <1>2, ShownStays, QueueStays

LEMMA ActivitySafe ==
    ASSUME LinkAssumption, LinkInv, Suspend \/ Revoked \/ Activated
    PROVE  LinkInv'
<1>1. CASE Suspend
    BY <1>1, SettleInactiveSafe DEF Suspend
<1>2. CASE Revoked
    BY <1>2, ActivityStep DEF Revoked
<1>3. CASE Activated
    <2>1. UNCHANGED <<quarantined, shown, native, click, closing>> /\ (SettleInactive \/ (activity' = "on" /\ UNCHANGED pubs))
        BY <1>3 DEF Activated
    <2>. QED
        BY <2>1, SettleInactiveSafe, ActivityStep
<1>. QED
    BY <1>1, <1>2, <1>3

LEMMA UnmountSafe ==
    ASSUME LinkAssumption, LinkInv, Unmount
    PROVE  LinkInv'
<1> DEFINE t == Outdated(pubs)
           u == [r \in Revision |-> AwaitedLate(Resend(t[r]))]
<1>1. UNCHANGED <<quarantined, shown, native, click, activity>> /\ closing \in {"no", "pending"}
      /\ closing' = "unmounting" /\ pubs' = u
    BY DEF Unmount
<1>2. /\ t \in Seq(Pub) /\ Len(t) = Len(pubs) /\ DOMAIN t = Revision
      /\ \A r \in Revision : t[r] \in Pub /\ Alike(pubs[r], t[r])
    BY OutdatedFacts DEF LinkInv
<1> HIDE DEF t
<1>3. \A r \in Revision : u[r] \in Pub /\ Alike(t[r], u[r])
    BY <1>2, AgainFacts
<1>4. DOMAIN u = DOMAIN t /\ DOMAIN t = DOMAIN pubs /\ DOMAIN pubs = Revision /\ pubs \in Seq(Pub)
    BY <1>2, PubsFacts DEF Revision
<1>5. u \in Seq(Pub) /\ Len(u) = Len(pubs)
    BY <1>2, <1>3, <1>4, MappedTyped
<1> HIDE DEF u
<1>6. Queue(t, quarantined, closing)
    BY <1>2, <1>4, PubsFacts, QueueAlike
<1>7. Queue(u, quarantined, closing)
    BY <1>2, <1>3, <1>4, <1>6, QueueAlike
<1>8. Queue(pubs', quarantined', closing')
    <2>1. Queue(u, quarantined, "unmounting")
        BY <1>1, <1>7, QueueClosing
    <2>. QED
        BY <1>1, <2>1
<1>9. PubsTyped'
    BY <1>1, <1>5 DEF LinkInv, PubsTyped
<1>10. ShownTyped' /\ TabTyped'
    BY <1>1, ShownStays DEF LinkInv, TabTyped
<1>. QED
    BY <1>1, <1>8, <1>9, <1>10 DEF LinkInv

LEMMA UnmountPendingSafe ==
    ASSUME LinkAssumption, LinkInv, UnmountPending
    PROVE  LinkInv'
<1>1. /\ UNCHANGED <<pubs, quarantined, shown, native, click, activity>>
      /\ closing # "gone" /\ closing' = "pending"
    BY DEF UnmountPending
<1>2. Queue(pubs, quarantined, "pending")
    BY <1>1, PubsFacts, QueueClosing
<1>3. Queue(pubs', quarantined', closing')
    BY <1>1, <1>2
<1>4. ShownTyped' /\ TabTyped' /\ PubsTyped'
    BY <1>1, ShownStays DEF LinkInv, TabTyped, PubsTyped
<1>. QED
    BY <1>1, <1>3, <1>4 DEF LinkInv

LEMMA UnmountDoneSafe ==
    ASSUME LinkAssumption, LinkInv, UnmountDone
    PROVE  LinkInv'
<1>1. /\ UNCHANGED <<pubs, native, click, activity>> /\ closing' = "gone" /\ quarantined' = 0 /\ ~Dispatching
      /\ \A r \in Revision : ~Outstanding(r)
      /\ quarantined # 0 => Published(quarantined)
      /\ overlay' = Nobody /\ groups' = Nobody /\ entries' = Nobody
    BY DEF UnmountDone
<1>2. \A r \in DOMAIN pubs : ~Engaged(pubs[r]) /\ pubs[r].step = "done"
    <2> SUFFICES ASSUME NEW r \in Revision PROVE ~Engaged(pubs[r]) /\ pubs[r].step = "done"
        BY DEF Revision
    <2>1. pubs[r] \in Pub /\ StepOK(pubs[r]) /\ (Engaged(pubs[r]) => Status(pubs[r], r, quarantined, closing)) /\ r # 0
        BY EachFacts
    <2>2. pubs[r].step = "done" /\ pubs[r].finalizer # "pending"
        BY <1>1 DEF Outstanding
    <2>3. pubs[r].late \notin {"no", "done"} => quarantined = r /\ pubs[r].finalizer = "none"
        BY <2>1 DEF StepOK, Status, Engaged
    <2>4. quarantined = r => pubs[r].finalizer \in {"failed", "skipped"}
        BY <1>1, <2>1 DEF Published
    <2>. QED
        BY <2>1, <2>2, <2>3, <2>4 DEF StepOK, Engaged
<1>3. Queue(pubs, 0, "gone")
    <2>1. \A r \in DOMAIN pubs : Engaged(pubs[r]) => Status(pubs[r], r, 0, "gone")
        BY <1>2
    <2>. QED
        BY <1>2, <2>1, PubsFacts DEF Queue
<1>4. Queue(pubs', quarantined', closing')
    BY <1>1, <1>3
<1>5. PubsTyped' /\ TabTyped' /\ ShownTyped'
    <2>1. Len(pubs) \in Nat
        BY DEF LinkInv, PubsTyped
    <2>. QED
        BY <1>1, <2>1, MaxIsNat, NobodyLinked DEF LinkInv, PubsTyped, TabTyped, ShownTyped
<1>6. ~Dispatching'
    BY <1>1 DEF Dispatching
<1>. QED
    BY <1>4, <1>5, <1>6 DEF LinkInv

-----------------------------------------------------------------------------
(* The types, also after a render was hurried                               *)

Answerable(p) == p.raw = "none" => p.answer = "none"

\* What holds of the links whatever happens.
LinkTyped == PubsTyped /\ ShownTyped /\ TabTyped /\ \A r \in Revision : Answerable(pubs[r])

\* A step never forgets that a render was hurried.
Onward == LinkTyped' /\ (Hurried => Hurried')
Forward(p, q) == q \in Pub /\ Answerable(q) /\ (p.ahead # "no" => q.ahead # "no")

LEMMA TypedFacts ==
    ASSUME LinkAssumption, LinkTyped, NEW r \in Revision
    PROVE  /\ pubs[r] \in Pub /\ Answerable(pubs[r]) /\ Forward(pubs[r], pubs[r])
           /\ r \in Rev /\ r \in 0 .. Len(pubs) /\ Len(pubs) \in Nat
           /\ quarantined \in 0 .. Len(pubs) /\ Quarantine(r) \in 0 .. Len(pubs)
    BY MaxIsNat DEF LinkTyped, PubsTyped, Revision, Rev, Quarantine, Forward

LEMMA TypedStays ==
    ASSUME LinkTyped
    PROVE  /\ UNCHANGED shown => ShownTyped'
           /\ UNCHANGED <<native, click, activity, closing>> => TabTyped'
    BY DEF LinkTyped, ShownTyped, TabTyped, shown

LEMMA ForwardTwice ==
    ASSUME NEW p, NEW q, NEW s, Forward(p, q), Forward(q, s)
    PROVE  Forward(p, s)
    BY DEF Forward

\* Every publication goes on.
LEMMA OnwardAll ==
    ASSUME LinkAssumption, LinkTyped, pubs' \in Seq(Pub), Len(pubs') = Len(pubs), quarantined' \in 0 .. Len(pubs),
           ShownTyped', TabTyped', \A r \in Revision : Forward(pubs[r], pubs'[r])
    PROVE  Onward
<1>1. Revision' = Revision /\ Len(pubs) <= MaxRevision
    BY DEF LinkTyped, PubsTyped, Revision
<1>2. PubsTyped'
    BY <1>1 DEF PubsTyped
<1>3. \A r \in Revision' : Answerable(pubs'[r])
    BY <1>1 DEF Forward
<1>4. Hurried => Hurried'
    BY <1>1, Zenon DEF Hurried, Forward
<1>. QED
    BY <1>2, <1>3, <1>4 DEF Onward, LinkTyped

LEMMA OnwardSet ==
    ASSUME LinkAssumption, LinkTyped, NEW r \in Revision, NEW q, Forward(pubs[r], q), Set(r, q),
           quarantined' \in 0 .. Len(pubs), ShownTyped', TabTyped'
    PROVE  Onward
<1>1. pubs \in Seq(Pub) /\ q \in Pub /\ DOMAIN pubs = Revision
    BY DEF LinkTyped, PubsTyped, Revision, Forward
<1>2. pubs' \in Seq(Pub) /\ Len(pubs') = Len(pubs) /\ pubs'[r] = q /\ \A u \in Revision : u # r => pubs'[u] = pubs[u]
    BY <1>1 DEF Set
<1>3. \A u \in Revision : Forward(pubs[u], pubs'[u])
    BY <1>2, TypedFacts
<1>. QED
    BY <1>2, <1>3, OnwardAll

LEMMA OnwardAppend ==
    ASSUME LinkAssumption, LinkTyped, NEW s \in Seq(Pub), Len(s) = Len(pubs), Len(pubs) < MaxRevision,
           \A r \in Revision : Forward(pubs[r], s[r]),
           NEW kind \in Kinds, NEW page \in LinkPage \cup {0}, NEW pages \in SUBSET LinkPage, NEW links \in LinksOf,
           pubs' = Append(s, Publication(kind, page, pages, links)),
           UNCHANGED quarantined, ShownTyped', TabTyped'
    PROVE  Onward
<1> DEFINE p == Publication(kind, page, pages, links)
           n == Len(pubs)
<1>1. p \in Pub /\ Answerable(p)
    BY PublicationFacts DEF LinkTyped, StepOK, Answerable
<1>2. pubs' = Append(s, p) /\ n \in Nat /\ MaxRevision \in Nat /\ quarantined \in 0 .. n /\ Revision = 1 .. n
    BY MaxIsNat DEF LinkTyped, PubsTyped, Revision
<1> HIDE DEF p, n
<1>3. Len(pubs) = n
    BY DEF n
<1>4. /\ pubs' \in Seq(Pub) /\ Len(pubs') = n + 1 /\ pubs'[n + 1] = p
      /\ \A r \in 1 .. n : pubs'[r] = s[r]
    BY <1>1, <1>2, <1>3
<1>5. DOMAIN pubs' = 1 .. n + 1
    BY <1>4
<1>6. PubsTyped'
    BY <1>2, <1>3, <1>4 DEF PubsTyped
<1>7. \A r \in Revision' : Answerable(pubs'[r])
    BY <1>1, <1>2, <1>4, <1>5 DEF Forward, Revision
<1>8. Hurried => Hurried'
    <2> SUFFICES ASSUME NEW r \in Revision, pubs[r].ahead # "no" PROVE Hurried'
        BY DEF Hurried
    <2>1. r \in DOMAIN pubs' /\ pubs'[r].ahead # "no"
        BY <1>2, <1>4, <1>5 DEF Forward
    <2>. QED
        BY <2>1 DEF Hurried, Revision
<1>. QED
    BY <1>6, <1>7, <1>8 DEF Onward, LinkTyped

LEMMA OnwardStays ==
    ASSUME LinkAssumption, LinkTyped, UNCHANGED pubs, quarantined' \in 0 .. Len(pubs), ShownTyped', TabTyped'
    PROVE  Onward
<1>1. pubs' \in Seq(Pub) /\ Len(pubs') = Len(pubs)
    BY DEF LinkTyped, PubsTyped
<1>2. \A r \in Revision : Forward(pubs[r], pubs'[r])
    BY TypedFacts
<1>. QED
    BY <1>1, <1>2, OnwardAll

\* The ways in which a publication goes on.
LEMMA EndedForward ==
    ASSUME LinkAssumption, NEW p, NEW q, Forward(p, q)
    PROVE  Forward(p, Ended(q)) /\ Forward(p, EndedBadly(q)) /\ Ended(q) \in Pub
<1>1. q \in Pub /\ MaxRevision \in Nat
    BY MaxIsNat DEF Forward
<1>2. Ended(q) \in Pub /\ Ended(q).raw = q.raw /\ Ended(q).answer = q.answer /\ Ended(q).ahead = q.ahead
    BY <1>1, EndedFacts
<1>3. EndedBadly(q) \in Pub /\ EndedBadly(q).raw = q.raw /\ EndedBadly(q).answer = q.answer /\ EndedBadly(q).ahead = q.ahead
    BY <1>1, EndedBadlyFacts
<1>. QED
    BY <1>2, <1>3 DEF Forward, Answerable

LEMMA SentForward ==
    ASSUME NEW p, NEW q, Forward(p, q), NEW call \in Calling \ {"none"}, NEW step \in Steps
    PROVE  Forward(p, Sent(q, call, step))
<1>1. Sent(q, call, step) \in Pub /\ Sent(q, call, step).raw = call /\ Sent(q, call, step).ahead = q.ahead
    BY SentFacts DEF Forward
<1>. QED
    BY <1>1 DEF Forward, Answerable

LEMMA AnsweredForward ==
    ASSUME LinkAssumption, LinkTyped, NEW r \in Revision
    PROVE  Forward(pubs[r], Answered(r))
<1>1. MaxRevision \in Nat /\ PubsTyped
    BY MaxIsNat DEF LinkTyped
<1>. QED
    BY <1>1, AnsweredFacts DEF Forward, Answerable

\* Marks, which leave the call alone.
LEMMA MarkedForward ==
    ASSUME NEW p, NEW q, Forward(p, q)
    PROVE  /\ Forward(p, [q EXCEPT !.step = "held"])
           /\ \A b \in BOOLEAN : Forward(p, [q EXCEPT !.applied = b]) /\ Forward(p, [q EXCEPT !.expired = b])
           /\ \A f \in {"none", "pending", "failed", "skipped"} : Forward(p, [q EXCEPT !.finalizer = f])
           /\ \A a \in {"due", "over"} : Forward(p, [q EXCEPT !.ahead = a])
           /\ \A n \in Nat, s \in {"settling", "closing"} : Forward(p, [q EXCEPT !.step = s, !.wait = n])
           /\ \A l \in {"sent", "ok", "error"} : Forward(p, [q EXCEPT !.late = l])
           /\ \A l \in {"done", "failed"} : Forward(p, [q EXCEPT !.late = l, !.awaited = FALSE])
<1>1. q \in Pub
    BY DEF Forward
<1>2. Forward(p, [q EXCEPT !.step = "held"])
    BY <1>1 DEF Forward, Answerable, Pub, Steps
<1>3. ASSUME NEW b \in BOOLEAN PROVE Forward(p, [q EXCEPT !.applied = b]) /\ Forward(p, [q EXCEPT !.expired = b])
    BY <1>1 DEF Forward, Answerable, Pub
<1>4. ASSUME NEW f \in {"none", "pending", "failed", "skipped"} PROVE Forward(p, [q EXCEPT !.finalizer = f])
    BY <1>1 DEF Forward, Answerable, Pub
<1>5. ASSUME NEW a \in {"due", "over"} PROVE Forward(p, [q EXCEPT !.ahead = a])
    BY <1>1 DEF Forward, Answerable, Pub
<1>6. ASSUME NEW n \in Nat, NEW s \in {"settling", "closing"} PROVE Forward(p, [q EXCEPT !.step = s, !.wait = n])
    BY <1>1 DEF Forward, Answerable, Pub, Steps
<1>7. ASSUME NEW l \in {"sent", "ok", "error"} PROVE Forward(p, [q EXCEPT !.late = l])
    BY <1>1 DEF Forward, Answerable, Pub
<1>8. ASSUME NEW l \in {"done", "failed"} PROVE Forward(p, [q EXCEPT !.late = l, !.awaited = FALSE])
    BY <1>1 DEF Forward, Answerable, Pub
<1>. QED
    BY <1>2, <1>3, <1>4, <1>5, <1>6, <1>7, <1>8

LEMMA AlikeForward ==
    ASSUME NEW p, Answerable(p), NEW q \in Pub, Alike(p, q)
    PROVE  Forward(p, q)
    BY DEF Forward, Answerable, Alike

LEMMA NextCallOnward ==
    ASSUME LinkAssumption, LinkTyped, NEW r \in Revision, NEW p, Forward(pubs[r], p), NEW call, NEW step,
           <<call, step>> \in {<<"abort", "aborting">>, <<"commit", "committing">>},
           NextCall(r, p, call, step), ShownTyped', TabTyped'
    PROVE  Onward
<1>1. call \in Calling \ {"none"} /\ step \in Steps
    BY DEF Calling, Steps
<1>2. quarantined' \in 0 .. Len(pubs)
    BY TypedFacts DEF NextCall
<1>3. PICK q : Set(r, q) /\ q \in {EndedBadly(p), Sent(p, call, step)}
    BY DEF NextCall
<1>4. Forward(pubs[r], q)
    BY <1>1, <1>3, EndedForward, SentForward
<1>. QED
    BY <1>2, <1>3, <1>4, OnwardSet

LEMMA FinishingOnward ==
    ASSUME LinkAssumption, LinkTyped, NEW r \in Revision, NEW p, Forward(pubs[r], p), Finishing(r, p), ShownTyped', TabTyped'
    PROVE  Onward
<1>1. click.n \in Nat
    BY DEF LinkTyped, TabTyped
<1>2. quarantined' \in 0 .. Len(pubs)
    BY TypedFacts DEF Finishing
<1>3. PICK q : Set(r, q) /\ q \in {[Ended(p) EXCEPT !.finalizer = "skipped"], [p EXCEPT !.step = "closing", !.wait = click.n]}
    BY DEF Finishing
<1>4. Forward(pubs[r], q)
    <2>1. Forward(pubs[r], Ended(p))
        BY EndedForward
    <2>2. Forward(pubs[r], [Ended(p) EXCEPT !.finalizer = "skipped"])
        BY <2>1, MarkedForward
    <2>3. Forward(pubs[r], [p EXCEPT !.step = "closing", !.wait = click.n])
        BY <1>1, MarkedForward
    <2>. QED
        BY <1>3, <2>2, <2>3
<1>. QED
    BY <1>2, <1>3, <1>4, OnwardSet

\* The answers.
LEMMA AnswersOnward ==
    ASSUME LinkAssumption, LinkTyped, NEW r \in Revision,
           PrepareAnswered(r) \/ CommitFailed(r) \/ RollbackAnswered(r) \/ FinalizeAnswered(r) \/ LateAnswer(r) \/ LateAbortAnswered(r)
    PROVE  Onward
<1> DEFINE a == Answered(r)
<1>1. Forward(pubs[r], a) /\ Forward(pubs[r], pubs[r])
    BY AnsweredForward, TypedFacts
<1>2. quarantined \in 0 .. Len(pubs) /\ Quarantine(r) \in 0 .. Len(pubs) /\ r \in 0 .. Len(pubs) /\ 0 \in 0 .. Len(pubs)
    BY TypedFacts
<1>3. Forward(pubs[r], EndedBadly(a)) /\ Forward(pubs[r], Ended(a))
    BY <1>1, EndedForward
<1>4. CASE PrepareAnswered(r)
    <2>1. ShownTyped' /\ TabTyped'
        BY <1>4, TypedStays DEF PrepareAnswered
    <2>2. CASE Set(r, EndedBadly(a)) /\ quarantined' = Quarantine(r)
        BY <1>2, <1>3, <2>1, <2>2, OnwardSet
    <2>3. CASE NextCall(r, a, "abort", "aborting") \/ NextCall(r, a, "commit", "committing")
        BY <1>1, <2>1, <2>3, NextCallOnward
    <2>. QED
        BY <1>4, <2>2, <2>3 DEF PrepareAnswered
<1>5. CASE CommitFailed(r)
    <2>1. ShownTyped' /\ TabTyped'
        BY <1>5, TypedStays DEF CommitFailed
    <2>. QED
        BY <1>2, <1>3, <1>5, <2>1, OnwardSet DEF CommitFailed
<1>6. CASE RollbackAnswered(r)
    <2>1. TabTyped'
        BY <1>6, TypedStays DEF RollbackAnswered
    <2>2. ShownTyped'
        <3>1. overlay \in LinksOf /\ entries \in LinksOf /\ groups \in LinksOf /\ pubs[r].prior \in LinksOf /\ 0 \in Rev
            BY MaxIsNat, TypedFacts DEF LinkTyped, ShownTyped, Pub, Rev
        <3>2. groups' \in LinksOf /\ overlay' = overlay /\ entries' = entries
            BY <1>6, <3>1 DEF RollbackAnswered, LinksOf
        <3>. QED
            BY <3>1, <3>2 DEF ShownTyped
    <2>3. Forward(pubs[r], [Ended(a) EXCEPT !.applied = FALSE])
        BY <1>3, MarkedForward
    <2>4. PICK q : Set(r, q) /\ Forward(pubs[r], q)
        BY <1>3, <1>6, <2>3 DEF RollbackAnswered
    <2>5. quarantined' \in 0 .. Len(pubs)
        BY <1>2, <1>6 DEF RollbackAnswered
    <2>. QED
        BY <2>1, <2>2, <2>4, <2>5, OnwardSet
<1>7. CASE FinalizeAnswered(r)
    <2>1. ShownTyped' /\ TabTyped'
        BY <1>7, TypedStays DEF FinalizeAnswered
    <2>2. quarantined' \in 0 .. Len(pubs)
        BY <1>2, <1>7 DEF FinalizeAnswered
    <2>3. PICK f \in {"none", "failed"} : Set(r, [Ended(a) EXCEPT !.finalizer = f])
        BY <1>7 DEF FinalizeAnswered
    <2>4. Forward(pubs[r], [Ended(a) EXCEPT !.finalizer = f])
        BY <1>3, MarkedForward
    <2>. QED
        BY <2>1, <2>2, <2>3, <2>4, OnwardSet
<1>8. CASE LateAnswer(r)
    <2>1. ShownTyped' /\ TabTyped'
        BY <1>8, TypedStays DEF LateAnswer
    <2>2. quarantined' \in 0 .. Len(pubs)
        BY <1>2, <1>8 DEF LateAnswer
    <2>3. Forward(pubs[r], [a EXCEPT !.ahead = "over"])
        BY <1>1, MarkedForward
    <2>4. PICK q : Set(r, q) /\ Forward(pubs[r], q)
        BY <1>1, <1>8, <2>3 DEF LateAnswer
    <2>. QED
        BY <2>1, <2>2, <2>4, OnwardSet
<1>9. CASE LateAbortAnswered(r)
    <2>1. UNCHANGED <<shown, native, click, activity>> /\ closing' \in {closing, "failing"}
        BY <1>9 DEF LateAbortAnswered
    <2>2. ShownTyped' /\ TabTyped'
        BY <2>1, TypedStays DEF LinkTyped, TabTyped
    <2>3. quarantined' \in 0 .. Len(pubs)
        BY <1>2, <1>9 DEF LateAbortAnswered
    <2>4. PICK l \in {"done", "failed"} : Set(r, [pubs[r] EXCEPT !.late = l, !.awaited = FALSE])
        BY <1>9 DEF LateAbortAnswered
    <2>5. Forward(pubs[r], [pubs[r] EXCEPT !.late = l, !.awaited = FALSE])
        BY <1>1, MarkedForward
    <2>. QED
        BY <2>2, <2>3, <2>4, <2>5, OnwardSet
<1>. QED
    BY <1>4, <1>5, <1>6, <1>7, <1>8, <1>9

LEMMA CommittedOnward ==
    ASSUME LinkAssumption, LinkTyped, NEW r \in Revision,
           (\E taken, evicts \in BOOLEAN : RenderCommitted(r, taken, evicts)) \/ AuthorityCommitted(r)
    PROVE  Onward
<1> DEFINE a == Answered(r)
           b == [a EXCEPT !.applied = TRUE]
<1>1. Forward(pubs[r], a)
    BY AnsweredForward
<1>2. Forward(pubs[r], b)
    BY <1>1, MarkedForward
<1>3. Rebased(r) \in LinksOf /\ overlay \in LinksOf /\ entries \in LinksOf /\ pubs[r].next \in LinksOf /\ 0 \in Rev /\ r \in Rev
    BY RebasedTyped, MaxIsNat, TypedFacts DEF LinkTyped, ShownTyped, Pub, Rev
<1>4. TabTyped'
    BY TypedStays DEF RenderCommitted, AuthorityCommitted
<1>5. ASSUME NEW taken \in BOOLEAN, NEW evicts \in BOOLEAN, RenderCommitted(r, taken, evicts) PROVE Onward
    <2> DEFINE Shows(f) == [q \in LinkPage |-> IF q = pubs[r].page THEN r ELSE IF evicts /\ q \notin pubs[r].pages THEN 0 ELSE f[q]]
    <2>1. CASE NextCall(r, a, "abort", "aborting") /\ UNCHANGED shown
        <3>1. ShownTyped'
            BY <2>1, TypedStays
        <3>. QED
            BY <1>1, <1>4, <2>1, <3>1, NextCallOnward
    <2>2. CASE overlay' = Shows(overlay) /\ groups' = Shows(Rebased(r)) /\ entries' = pubs[r].next /\ Finishing(r, b)
        <3>1. \A f \in LinksOf : Shows(f) \in LinksOf
            BY <1>3 DEF LinksOf
        <3> HIDE DEF Shows, b
        <3>2. ShownTyped'
            BY <1>3, <2>2, <3>1 DEF ShownTyped
        <3>. QED
            BY <1>2, <1>4, <2>2, <3>2, FinishingOnward
    <2>. QED
        BY <1>5, <2>1, <2>2 DEF RenderCommitted
<1>6. CASE AuthorityCommitted(r)
    <2>1. ShownTyped'
        BY <1>3, <1>6 DEF AuthorityCommitted, ShownTyped
    <2>2. CASE Set(r, [b EXCEPT !.step = "held"]) /\ UNCHANGED quarantined
        <3>1. Forward(pubs[r], [b EXCEPT !.step = "held"])
            BY <1>2, MarkedForward
        <3>. QED
            BY <1>4, <2>1, <2>2, <3>1, TypedFacts, OnwardSet
    <2>3. CASE Finishing(r, b)
        BY <1>2, <1>4, <2>1, <2>3, FinishingOnward
    <2>. QED
        BY <1>6, <2>2, <2>3 DEF AuthorityCommitted
<1>. QED
    BY <1>5, <1>6

\* The turns and the deadlines.
LEMMA TurnsOnward ==
    ASSUME LinkAssumption, LinkTyped, NEW r \in Revision,
           TakeTurn(r) \/ StartPrepare(r) \/ HoldFinalize(r) \/ HoldRollback(r) \/ StartFinalize(r)
    PROVE  Onward
<1> DEFINE p == pubs[r]
<1>1. p \in Pub /\ Forward(p, p) /\ quarantined \in 0 .. Len(pubs)
    BY TypedFacts
<1>2. ShownTyped' /\ TabTyped'
    BY TypedStays DEF TakeTurn, StartPrepare, HoldFinalize, HoldRollback, StartFinalize
<1>3. Forward(p, Ended(p))
    BY <1>1, EndedForward
<1>4. CASE TakeTurn(r)
    <2>1. click.n \in Nat
        BY DEF LinkTyped, TabTyped
    <2>2. Forward(p, [p EXCEPT !.step = "settling", !.wait = click.n])
        BY <1>1, <2>1, MarkedForward
    <2>3. PICK q : Set(r, q) /\ Forward(p, q) /\ UNCHANGED quarantined
        BY <1>3, <1>4, <2>2 DEF TakeTurn
    <2>. QED
        BY <1>1, <1>2, <2>3, OnwardSet
<1>5. CASE StartPrepare(r)
    <2>1. Forward(p, Sent(p, "prepare", "preparing"))
        BY <1>1, SentForward DEF Calling, Steps
    <2>2. PICK q : Set(r, q) /\ Forward(p, q) /\ UNCHANGED quarantined
        BY <1>3, <1>5, <2>1 DEF StartPrepare
    <2>. QED
        BY <1>1, <1>2, <2>2, OnwardSet
<1>6. CASE HoldFinalize(r)
    BY <1>1, <1>2, <1>6, FinishingOnward DEF HoldFinalize
<1>7. CASE HoldRollback(r)
    BY <1>1, <1>2, <1>7, NextCallOnward DEF HoldRollback
<1>8. CASE StartFinalize(r)
    <2>1. CASE Finishing(r, p)
        BY <1>1, <1>2, <2>1, FinishingOnward
    <2>2. CASE Set(r, [Sent(p, "finalize", "finalizing") EXCEPT !.finalizer = "pending"]) /\ UNCHANGED quarantined
        <3>1. Forward(p, Sent(p, "finalize", "finalizing"))
            BY <1>1, SentForward DEF Calling, Steps
        <3>2. Forward(p, [Sent(p, "finalize", "finalizing") EXCEPT !.finalizer = "pending"])
            BY <3>1, MarkedForward
        <3>. QED
            BY <1>1, <1>2, <2>2, <3>2, OnwardSet
    <2>. QED
        BY <1>8, <2>1, <2>2 DEF StartFinalize
<1>. QED
    BY <1>4, <1>5, <1>6, <1>7, <1>8

LEMMA DeadlinesOnward ==
    ASSUME LinkAssumption, LinkTyped, NEW r \in Revision,
           Expire(r) \/ Timeout(r) \/ GiveUp(r) \/ CallTimeout(r) \/ SendLateAbort(r)
    PROVE  Onward
<1> DEFINE p == pubs[r]
<1>1. p \in Pub /\ Forward(p, p) /\ quarantined \in 0 .. Len(pubs) /\ Quarantine(r) \in 0 .. Len(pubs)
    BY TypedFacts
<1>2. ShownTyped' /\ TabTyped'
    BY TypedStays DEF Expire, Timeout, GiveUp, CallTimeout, SendLateAbort
<1>3. Forward(p, Ended(p)) /\ Forward(p, EndedBadly(p)) /\ Forward(p, [p EXCEPT !.expired = TRUE])
    BY <1>1, EndedForward, MarkedForward
<1>4. CASE Expire(r)
    BY <1>1, <1>2, <1>3, <1>4, OnwardSet DEF Expire
<1>5. CASE Timeout(r)
    <2>1. CASE Finishing(r, [p EXCEPT !.expired = TRUE])
        BY <1>2, <1>3, <2>1, FinishingOnward
    <2>2. CASE (Set(r, Ended(p)) \/ Set(r, EndedBadly(p))) /\ quarantined' \in {quarantined, Quarantine(r)}
        BY <1>1, <1>2, <1>3, <2>2, OnwardSet
    <2>. QED
        BY <1>5, <2>1, <2>2 DEF Timeout
<1>6. CASE GiveUp(r)
    <2>1. Forward(p, [EndedBadly(p) EXCEPT !.ahead = "due"])
        BY <1>3, MarkedForward
    <2>. QED
        BY <1>1, <1>2, <1>6, <2>1, OnwardSet DEF GiveUp
<1>7. CASE CallTimeout(r)
    <2>1. Forward(p, [p EXCEPT !.ahead = "over"])
        BY <1>1, MarkedForward
    <2>. QED
        BY <1>1, <1>2, <1>7, <2>1, OnwardSet DEF CallTimeout
<1>8. CASE SendLateAbort(r)
    <2>1. /\ UNCHANGED quarantined
          /\ pubs' = [q \in Revision |-> IF q = r THEN [pubs[q] EXCEPT !.late = "sent"] ELSE Resend(pubs[q])]
        BY <1>8 DEF SendLateAbort
    <2>2. \A q \in Revision : Forward(pubs[q], pubs'[q])
        <3> SUFFICES ASSUME NEW q \in Revision PROVE Forward(pubs[q], pubs'[q])
            OBVIOUS
        <3>1. pubs[q] \in Pub /\ Forward(pubs[q], pubs[q]) /\ Answerable(pubs[q])
            BY TypedFacts
        <3>2. Forward(pubs[q], [pubs[q] EXCEPT !.late = "sent"]) /\ Forward(pubs[q], Resend(pubs[q]))
            BY <3>1, ResendFacts, AlikeForward, MarkedForward
        <3>. QED
            BY <2>1, <3>2
    <2>3. \A q \in Revision : pubs'[q] \in Pub
        BY <2>2 DEF Forward
    <2>4. pubs' \in Seq(Pub) /\ Len(pubs') = Len(pubs)
        BY <2>1, <2>3, MappedTyped DEF LinkTyped, PubsTyped, Revision
    <2>. QED
        BY <1>1, <1>2, <2>1, <2>2, <2>4, OnwardAll
<1>. QED
    BY <1>4, <1>5, <1>6, <1>7, <1>8

\* The native side.
LEMMA NativeOnward ==
    ASSUME LinkAssumption, LinkTyped, NEW r \in Revision, Handle(r) \/ HandleLateAbort(r) \/ Fault(r)
    PROVE  Onward
<1> DEFINE p == pubs[r]
<1>1. p \in Pub /\ Answerable(p) /\ Forward(p, p) /\ quarantined \in 0 .. Len(pubs) /\ r \in Rev /\ MaxRevision \in Nat
    BY TypedFacts, MaxIsNat
<1>2. ShownTyped' /\ UNCHANGED <<quarantined, click, activity, closing>>
    BY TypedStays DEF Handle, HandleLateAbort, Fault
<1>3. native \in Registry /\ p.links \in LinksOf
    BY <1>1 DEF LinkTyped, TabTyped, Pub
<1>4. Handle(r) => native' \in Registry
    <2> SUFFICES ASSUME Handle(r) PROVE native' \in Registry
        OBVIOUS
    <2>1. p.answer = "sent" /\ native' = Handled(r).n
        BY DEF Handle
    <2>2. p.raw \in {"prepare", "commit", "finalize", "abort"}
        BY <1>1, <2>1 DEF Answerable, Pub, Calling
    <2>. QED
        BY <1>1, <1>3, <2>1, <2>2, PreparedTyped, CommittedTyped, FinalizedTyped, AbortedTyped DEF Handled
<1>5. HandleLateAbort(r) => native' \in Registry
    BY <1>1, <1>3, AbortedTyped DEF HandleLateAbort
<1>6. Fault(r) => native' = native
    BY DEF Fault
<1>7. TabTyped'
    BY <1>2, <1>3, <1>4, <1>5, <1>6 DEF LinkTyped, TabTyped
<1>8. PICK ans \in {"ok", "error"} : \/ p.answer = "sent" /\ Set(r, [p EXCEPT !.answer = ans])
                                     \/ Set(r, [p EXCEPT !.late = ans])
    BY DEF Handle, HandleLateAbort, Fault
<1>9. CASE Set(r, [p EXCEPT !.late = ans])
    <2>1. Forward(p, [p EXCEPT !.late = ans])
        BY <1>1, MarkedForward
    <2>. QED
        BY <1>1, <1>2, <1>7, <1>9, <2>1, OnwardSet
<1>10. CASE p.answer = "sent" /\ Set(r, [p EXCEPT !.answer = ans])
    <2>1. Forward(p, [p EXCEPT !.answer = ans])
        BY <1>1, <1>10 DEF Forward, Answerable, Pub
    <2>. QED
        BY <1>1, <1>2, <1>7, <1>10, <2>1, OnwardSet
<1>. QED
    BY <1>8, <1>9, <1>10

\* The reader, the tab and the unmounting.
LEMMA BegunOnward ==
    ASSUME LinkAssumption, LinkTyped,
           \/ \E p \in LinkPage, kept \in SUBSET LinkPage : Render(p, kept)
           \/ \E pages \in SUBSET LinkPage : Hold(pages) \/ Restore(pages)
           \/ Activate
    PROVE  Onward
<1>1. UNCHANGED <<quarantined, shown, native, click, closing>> /\ activity' \in {activity, "activating"}
    BY DEF Render, Hold, Restore, Activate
<1>2. ShownTyped' /\ TabTyped'
    BY <1>1, TypedStays DEF LinkTyped, TabTyped
<1>3. /\ MaxRevision \in Nat /\ Len(pubs) \in Nat /\ pubs \in Seq(Pub) /\ entries \in LinksOf
      /\ \A r \in Revision : Forward(pubs[r], pubs[r])
    BY MaxIsNat, TypedFacts DEF LinkTyped, PubsTyped, ShownTyped
<1>4. PICK kind \in Kinds, page \in LinkPage \cup {0}, pages \in SUBSET LinkPage, links \in LinksOf :
          pubs' = Append(pubs, Publication(kind, page, pages, links)) /\ Len(pubs) < MaxRevision
    <2>1. ASSUME NEW p \in LinkPage, NEW kept \in SUBSET LinkPage, Render(p, kept)
          PROVE  /\ pubs' = Append(pubs, Publication("render", p, kept, [entries EXCEPT ![p] = Len(pubs) + 1]))
                 /\ Len(pubs) < MaxRevision /\ [entries EXCEPT ![p] = Len(pubs) + 1] \in LinksOf
        <3>1. Len(pubs) + 1 <= MaxRevision /\ Len(pubs) + 1 \in Rev
            BY <1>3, <2>1 DEF Render, Rev
        <3>. QED
            BY <1>3, <2>1, <3>1 DEF Render, Begin, LinksOf
    <2>2. ASSUME NEW pages \in SUBSET LinkPage, Hold(pages) \/ Restore(pages)
          PROVE  \E kind \in {"hold", "restore"} :
                     pubs' = Append(pubs, Publication(kind, 0, pages, entries)) /\ Len(pubs) < MaxRevision
        BY <2>2 DEF Hold, Restore, Begin
    <2>3. ASSUME Activate
          PROVE  /\ pubs' = Append(pubs, Publication("sync", 0, Resident, entries)) /\ Len(pubs) < MaxRevision
                 /\ Resident \in SUBSET LinkPage
        BY <2>3 DEF Activate, Begin, Sync, Resident
    <2>4. {"render", "hold", "restore", "sync"} \subseteq Kinds
        BY DEF Kinds
    <2>5. ASSUME NEW kind \in Kinds, NEW page \in LinkPage \cup {0}, NEW pages \in SUBSET LinkPage, NEW links \in LinksOf
          PROVE  pubs' = Append(pubs, Publication(kind, page, pages, links)) /\ Len(pubs) < MaxRevision =>
                     \E k \in Kinds, p \in LinkPage \cup {0}, kept \in SUBSET LinkPage, list \in LinksOf :
                         pubs' = Append(pubs, Publication(k, p, kept, list)) /\ Len(pubs) < MaxRevision
        OBVIOUS
    <2>6. CASE \E p \in LinkPage, kept \in SUBSET LinkPage : Render(p, kept)
        BY <2>1, <2>4, <2>5, <2>6
    <2>7. CASE \E pages \in SUBSET LinkPage : Hold(pages) \/ Restore(pages)
        <3>1. PICK pages \in SUBSET LinkPage : Hold(pages) \/ Restore(pages)
            BY <2>7
        <3>2. PICK kind \in {"hold", "restore"} :
                  pubs' = Append(pubs, Publication(kind, 0, pages, entries)) /\ Len(pubs) < MaxRevision
            BY <2>2, <3>1
        <3>3. kind \in Kinds /\ 0 \in LinkPage \cup {0}
            BY <2>4
        <3>. QED
            BY <1>3, <2>5, <3>2, <3>3
    <2>8. CASE Activate
        BY <1>3, <2>3, <2>4, <2>5, <2>8
    <2>. QED
        BY <2>6, <2>7, <2>8
<1>. QED
    BY <1>1, <1>2, <1>3, <1>4, OnwardAppend

LEMMA SettleInactiveOnward ==
    ASSUME LinkAssumption, LinkTyped, SettleInactive, UNCHANGED <<quarantined, shown, native, click, closing>>
    PROVE  Onward
<1> DEFINE t == Outdated(pubs)
<1>1. /\ t \in Seq(Pub) /\ Len(t) = Len(pubs) /\ DOMAIN t = Revision
      /\ \A r \in Revision : t[r] \in Pub /\ Alike(pubs[r], t[r])
    BY OutdatedFacts DEF LinkTyped
<1>2. pubs' = Append(t, Publication("sync", 0, {}, entries)) /\ Len(pubs) < MaxRevision /\ activity' = "revoking"
    BY DEF SettleInactive, Sync
<1> HIDE DEF t
<1>3. \A r \in Revision : Forward(pubs[r], t[r])
    BY <1>1, TypedFacts, AlikeForward
<1>4. ShownTyped' /\ TabTyped' /\ entries \in LinksOf
    BY <1>2, TypedStays DEF LinkTyped, ShownTyped, TabTyped
<1>. QED
    BY <1>1, <1>2, <1>3, <1>4, OnwardAppend DEF Kinds

LEMMA TabOnward ==
    ASSUME LinkAssumption, LinkTyped, Suspend \/ Revoked \/ Activated \/ UnmountPending \/ UnmountDone
    PROVE  Onward
<1>1. quarantined \in 0 .. Len(pubs) /\ Len(pubs) \in Nat
    BY DEF LinkTyped, PubsTyped
<1>2. CASE SettleInactive /\ UNCHANGED <<quarantined, shown, native, click, closing>>
    BY <1>2, SettleInactiveOnward
<1>3. CASE UNCHANGED <<pubs, quarantined, shown, native, click>> /\ activity' \in {activity, "on", "off", "broken"}
           /\ closing' \in {closing, "pending"}
    <2>1. ShownTyped' /\ TabTyped'
        BY <1>3, TypedStays DEF LinkTyped, TabTyped
    <2>. QED
        BY <1>1, <1>3, <2>1, OnwardStays
<1>4. CASE UnmountDone
    <2>1. ShownTyped' /\ TabTyped'
        BY <1>4, MaxIsNat, NobodyLinked DEF UnmountDone, LinkTyped, ShownTyped, TabTyped
    <2>. QED
        BY <1>1, <1>4, <2>1, OnwardStays DEF UnmountDone
<1>. QED
    BY <1>2, <1>3, <1>4 DEF Suspend, Revoked, Activated, UnmountPending

LEMMA UnmountOnward ==
    ASSUME LinkAssumption, LinkTyped, Unmount
    PROVE  Onward
<1> DEFINE t == Outdated(pubs)
           u == [r \in Revision |-> AwaitedLate(Resend(t[r]))]
<1>1. UNCHANGED <<quarantined, shown, native, click, activity>> /\ closing' = "unmounting" /\ pubs' = u
    BY DEF Unmount
<1>2. /\ t \in Seq(Pub) /\ Len(t) = Len(pubs) /\ DOMAIN t = Revision
      /\ \A r \in Revision : t[r] \in Pub /\ Alike(pubs[r], t[r])
    BY OutdatedFacts DEF LinkTyped
<1> HIDE DEF t
<1>3. \A r \in Revision : Forward(pubs[r], u[r])
    <2> SUFFICES ASSUME NEW r \in Revision PROVE Forward(pubs[r], u[r])
        OBVIOUS
    <2>1. Forward(pubs[r], t[r])
        BY <1>2, TypedFacts, AlikeForward
    <2>2. Forward(t[r], u[r])
        BY <1>2, <2>1, AgainFacts, AlikeForward DEF Forward
    <2>. QED
        BY <2>1, <2>2, ForwardTwice
<1>4. u \in Seq(Pub) /\ Len(u) = Len(pubs)
    BY <1>2, <1>3, MappedTyped DEF Forward
<1>5. ShownTyped' /\ TabTyped' /\ quarantined \in 0 .. Len(pubs)
    BY <1>1, TypedStays DEF LinkTyped, TabTyped, PubsTyped
<1>. QED
    BY <1>1, <1>3, <1>4, <1>5, OnwardAll

LEMMA ClicksOnward ==
    ASSUME LinkAssumption, LinkTyped,
           (\E p \in LinkPage : Click(p) \/ EvictPage(p)) \/ Dispatch \/ ClickSettled \/ UNCHANGED linksVars
    PROVE  Onward
<1>1. UNCHANGED <<pubs, quarantined, native, activity, closing>>
    BY DEF Click, EvictPage, Dispatch, ClickSettled, linksVars
<1>2. click'.n \in Nat
    <2>1. click.n \in Nat
        BY DEF LinkTyped, TabTyped
    <2>2. ASSUME NEW p \in LinkPage, Click(p) PROVE click'.n = click.n + 1
        BY <2>2 DEF Click
    <2>3. CASE Dispatch
        BY <2>1, <2>3 DEF Dispatch
    <2>4. CASE ClickSettled
        BY <2>1, <2>4 DEF ClickSettled
    <2>5. UNCHANGED click => click'.n \in Nat
        BY <2>1
    <2>6. (\E p \in LinkPage : EvictPage(p)) \/ UNCHANGED linksVars => UNCHANGED click
        BY DEF EvictPage, linksVars
    <2>. QED
        BY <2>1, <2>2, <2>3, <2>4, <2>5, <2>6
<1>3. TabTyped'
    BY <1>1, <1>2 DEF LinkTyped, TabTyped
<1>4. ShownTyped'
    <2>1. CASE \E p \in LinkPage : EvictPage(p)
        BY <2>1, MaxIsNat DEF EvictPage, LinkTyped, ShownTyped, LinksOf, Rev
    <2>2. CASE UNCHANGED shown
        BY <2>2, TypedStays
    <2>. QED
        BY <2>1, <2>2 DEF Click, Dispatch, ClickSettled, linksVars, shown
<1>5. quarantined \in 0 .. Len(pubs)
    BY DEF LinkTyped, PubsTyped
<1>. QED
    BY <1>1, <1>3, <1>4, <1>5, OnwardStays

LEMMA LinksOnward ==
    ASSUME LinkAssumption, LinkTyped, [LinksNext]_linksVars
    PROVE  Onward
<1>1. CASE \/ \E p \in LinkPage, kept \in SUBSET LinkPage : Render(p, kept)
           \/ \E pages \in SUBSET LinkPage : Hold(pages) \/ Restore(pages)
           \/ Activate
    BY <1>1, BegunOnward
<1>2. CASE (\E p \in LinkPage : Click(p) \/ EvictPage(p)) \/ Dispatch \/ ClickSettled \/ UNCHANGED linksVars
    BY <1>2, ClicksOnward
<1>3. CASE \E r \in Revision : TakeTurn(r) \/ StartPrepare(r) \/ HoldFinalize(r) \/ HoldRollback(r) \/ StartFinalize(r)
    BY <1>3, TurnsOnward
<1>4. CASE \E r \in Revision : Answers(r)
    BY <1>4, AnswersOnward, CommittedOnward DEF Answers
<1>5. CASE \E r \in Revision : Expire(r) \/ Timeout(r) \/ GiveUp(r) \/ CallTimeout(r) \/ SendLateAbort(r)
    BY <1>5, DeadlinesOnward
<1>6. CASE \E r \in Revision : Handle(r) \/ HandleLateAbort(r) \/ Fault(r)
    BY <1>6, NativeOnward
<1>7. CASE Suspend \/ Revoked \/ Activated \/ UnmountPending \/ UnmountDone
    BY <1>7, TabOnward
<1>8. CASE Unmount
    BY <1>8, UnmountOnward
<1>9. (\E pages \in SUBSET Resident : Restore(pages)) => \E pages \in SUBSET LinkPage : Restore(pages)
    BY DEF Resident
<1>10. LinksNext => \/ \E p \in LinkPage, kept \in SUBSET LinkPage : Render(p, kept)
                    \/ \E p \in LinkPage : Click(p) \/ EvictPage(p)
                    \/ \E pages \in SUBSET LinkPage : Hold(pages)
                    \/ \E pages \in SUBSET Resident : Restore(pages)
                    \/ \E r \in Revision : TakeTurn(r) \/ StartPrepare(r) \/ HoldFinalize(r) \/ HoldRollback(r) \/ StartFinalize(r)
                    \/ \E r \in Revision : Answers(r)
                    \/ \E r \in Revision : Expire(r) \/ Timeout(r) \/ GiveUp(r) \/ CallTimeout(r) \/ SendLateAbort(r)
                    \/ \E r \in Revision : Handle(r) \/ HandleLateAbort(r) \/ Fault(r)
                    \/ Dispatch \/ ClickSettled \/ Activate \/ Unmount
                    \/ Suspend \/ Revoked \/ Activated \/ UnmountPending \/ UnmountDone
    BY Zenon DEF LinksNext
<1>. QED
    BY <1>1, <1>2, <1>3, <1>4, <1>5, <1>6, <1>7, <1>8, <1>9, <1>10

-----------------------------------------------------------------------------
(* The theorems                                                             *)

LEMMA LinksBegin == LinkAssumption /\ LinksInit => LinkInv
<1> SUFFICES ASSUME LinkAssumption, LinksInit PROVE LinkInv
    OBVIOUS
<1>1. MaxRevision \in Nat /\ Nobody \in LinksOf /\ 0 \in Rev
    BY MaxIsNat, NobodyLinked DEF Rev
<1>2. pubs = << >> /\ DOMAIN pubs = {} /\ Len(pubs) = 0 /\ pubs \in Seq(Pub)
    BY DEF LinksInit
<1>3. PubsTyped /\ ShownTyped
    BY <1>1, <1>2 DEF LinksInit, PubsTyped, ShownTyped
<1>4. NoTransaction \in LinkTransaction
    BY <1>1 DEF NoTransaction, LinkTransaction
<1>5. TabTyped
    BY <1>1, <1>4 DEF LinksInit, TabTyped, Registry
<1>6. Queue(pubs, quarantined, closing)
    BY <1>2 DEF Queue, InOrder, OneReader, OneEngaged
<1>7. closing # "gone"
    BY DEF LinksInit
<1>. QED
    BY <1>3, <1>5, <1>6, <1>7 DEF LinkInv

LEMMA LinksGoOn ==
    ASSUME LinkAssumption, LinkInv, [LinksNext]_linksVars, ~Hurried, ~Hurried'
    PROVE  LinkInv'
<1>1. CASE \E p \in LinkPage : Click(p) \/ EvictPage(p) \/ \E kept \in SUBSET LinkPage : Render(p, kept)
    BY <1>1, ClickSafe, EvictPageSafe, RenderSafe
<1>2. CASE \/ \E pages \in SUBSET LinkPage : Hold(pages)
           \/ \E pages \in SUBSET Resident : Restore(pages)
    BY <1>2, HoldSafe DEF Resident
<1>3. CASE \E r \in Revision : TakeTurn(r) \/ StartPrepare(r) \/ HoldFinalize(r) \/ HoldRollback(r) \/ StartFinalize(r)
    BY <1>3, TakeTurnSafe, StartPrepareSafe, HoldFinalizeSafe, HoldRollbackSafe, StartFinalizeSafe
<1>4. CASE \E r \in Revision : Answers(r)
    BY <1>4, PrepareAnsweredSafe, RenderCommittedSafe, AuthorityCommittedSafe, CommitFailedSafe,
       RollbackAnsweredSafe, FinalizeAnsweredSafe, LateAnswerSafe, LateAbortAnsweredSafe DEF Answers
<1>5. CASE \E r \in Revision : Expire(r) \/ Timeout(r) \/ SendLateAbort(r)
    BY <1>5, ExpireSafe, TimeoutSafe, SendLateAbortSafe
<1>6. ASSUME NEW r \in Revision PROVE ~GiveUp(r) /\ ~CallTimeout(r)
    <2>1. ~CallTimeout(r)
        BY DEF CallTimeout, Hurried
    <2>2. ASSUME GiveUp(r) PROVE FALSE
        <3>1. pubs' = [pubs EXCEPT ![r] = [EndedBadly(pubs[r]) EXCEPT !.ahead = "due"]]
            BY <2>2 DEF GiveUp, Set
        <3>2. EndedBadly(pubs[r]) \in Pub
            BY EachFacts, MaxIsNat, EndedBadlyFacts
        <3>3. r \in DOMAIN pubs' /\ pubs'[r].ahead = "due"
            BY <3>1, <3>2 DEF Pub, Revision
        <3>. QED
            BY <3>3 DEF Hurried, Revision
    <2>. QED
        BY <2>1, <2>2
<1>7. CASE \E r \in Revision : Handle(r) \/ HandleLateAbort(r) \/ Fault(r)
    BY <1>7, HandleSafe, HandleLateAbortSafe, FaultSafe
<1>8. CASE Dispatch \/ ClickSettled
    BY <1>8, DispatchSafe, ClickSettledSafe
<1>9. CASE Suspend \/ Revoked \/ Activate \/ Activated
    BY <1>9, ActivitySafe, ActivateSafe
<1>10. CASE Unmount \/ UnmountDone \/ UnmountPending
    BY <1>10, UnmountSafe, UnmountDoneSafe, UnmountPendingSafe
<1>11. CASE UNCHANGED linksVars
    BY <1>11, ShownStays, TabStays, QueueStays DEF linksVars, shown, Dispatching, LinkInv
<1>12. LinksNext => \/ \E p \in LinkPage : Click(p) \/ EvictPage(p) \/ \E kept \in SUBSET LinkPage : Render(p, kept)
                    \/ \E pages \in SUBSET LinkPage : Hold(pages)
                    \/ \E pages \in SUBSET Resident : Restore(pages)
                    \/ \E r \in Revision : TakeTurn(r) \/ StartPrepare(r) \/ HoldFinalize(r) \/ HoldRollback(r) \/ StartFinalize(r)
                    \/ \E r \in Revision : Answers(r)
                    \/ \E r \in Revision : Expire(r) \/ Timeout(r) \/ SendLateAbort(r)
                    \/ \E r \in Revision : GiveUp(r) \/ CallTimeout(r)
                    \/ \E r \in Revision : Handle(r) \/ HandleLateAbort(r) \/ Fault(r)
                    \/ Dispatch \/ ClickSettled
                    \/ Suspend \/ Revoked \/ Activate \/ Activated
                    \/ Unmount \/ UnmountDone \/ UnmountPending
    BY Zenon DEF LinksNext
<1>. QED
    BY <1>1, <1>2, <1>3, <1>4, <1>5, <1>6, <1>7, <1>8, <1>9, <1>10, <1>11, <1>12

\* As long as no render is hurried the queue keeps to its rules; the types hold in any case.
LinksInv == LinkTyped /\ (Hurried \/ LinkInv)

LEMMA LinksInvAlways ==
    ASSUME LinkAssumption
    PROVE  LinksSpec => []LinksInv
<1>1. LinkInv => LinkTyped
    BY EachFacts DEF LinkInv, LinkTyped, Answerable, StepOK
<1>2. LinksInit => LinksInv
    BY <1>1, LinksBegin DEF LinksInv
<1>3. LinksInv /\ [LinksNext]_linksVars => LinksInv'
    <2> SUFFICES ASSUME LinksInv, [LinksNext]_linksVars PROVE LinksInv'
        OBVIOUS
    <2>1. LinkTyped' /\ (Hurried => Hurried')
        BY LinksOnward DEF LinksInv, Onward
    <2>2. ~Hurried /\ ~Hurried' => LinkInv'
        BY LinksGoOn DEF LinksInv
    <2>. QED
        BY <2>1, <2>2 DEF LinksInv
<1>. QED
    BY <1>2, <1>3, PTL DEF LinksSpec

\* At most one of the publications has the registry, and only that one has a call or an abort under way.
LEMMA CallsFollow == LinkInv => OneCallAtATime /\ UnmountedIsQuiet
<1> SUFFICES ASSUME LinkInv PROVE OneCallAtATime /\ UnmountedIsQuiet
    OBVIOUS
<1>1. \A r \in Revision : StepOK(pubs[r])
    BY EachFacts
<1>2. Calls \cap LateAborts = {}
    BY <1>1 DEF Calls, LateAborts, StepOK
<1>3. \A r \in Calls \cup LateAborts : r \in Revision /\ Engaged(pubs[r])
    BY <1>1 DEF Calls, LateAborts, StepOK, Engaged
<1>4. \A q, r \in Calls \cup LateAborts : q = r
    BY <1>3, Zenon DEF LinkInv, Queue, OneEngaged, Revision
<1>5. Cardinality({}) = 0
    BY FS_EmptySet
<1>6. OneCallAtATime
    <2>1. CASE Calls = {} /\ LateAborts = {}
        BY <1>5, <2>1 DEF OneCallAtATime
    <2>2. ASSUME NEW r \in Calls PROVE OneCallAtATime
        <3>1. Calls = {r} /\ LateAborts = {}
            BY <1>2, <1>4, <2>2
        <3>2. Cardinality({r}) = 1
            BY FS_Singleton
        <3>. QED
            BY <1>5, <3>1, <3>2 DEF OneCallAtATime
    <2>3. ASSUME NEW r \in LateAborts PROVE OneCallAtATime
        <3>1. LateAborts = {r} /\ Calls = {}
            BY <1>2, <1>4, <2>3
        <3>2. Cardinality({r}) = 1
            BY FS_Singleton
        <3>. QED
            BY <1>5, <3>1, <3>2 DEF OneCallAtATime
    <2>. QED
        BY <2>1, <2>2, <2>3
<1>7. UnmountedIsQuiet
    <2>1. closing = "gone" => \A r \in Revision : ~Engaged(pubs[r])
        BY DEF LinkInv, Queue, Revision
    <2>2. closing = "gone" => Calls \cup LateAborts = {}
        BY <1>3, <2>1
    <2>. QED
        BY <2>2 DEF UnmountedIsQuiet, LinkInv
<1>. QED
    BY <1>6, <1>7

\* Whatever the deadlines, the late answers, the faults and the attempts at unmounting, the native
\* registry has one call of the content layer to serve at a time, a late abort included, and none
\* once the document is unmounted, as long as no render has given up ahead of the timer of its
\* prepare (PdfContentController.stageExternalLinks, quarantineExternalLinks, unmount).
THEOREM CallsAlwaysOrdered == LinkAssumption => (LinksSpec => []CallsAreOrdered)
<1> SUFFICES ASSUME LinkAssumption PROVE LinksSpec => []CallsAreOrdered
    OBVIOUS
<1>1. LinksSpec => []LinksInv
    BY LinksInvAlways
<1>2. LinksInv => CallsAreOrdered
    BY CallsFollow DEF LinksInv, CallsAreOrdered
<1>. QED
    BY <1>1, <1>2, PTL

\* The publications, the registry and the tab keep the values that the code gives them, also when
\* calls overtake one another after a hurried render.
THEOREM LinksTypeCorrect == LinkAssumption => (LinksSpec => []LinksTypeOK)
<1> SUFFICES ASSUME LinkAssumption PROVE LinksSpec => []LinksTypeOK
    OBVIOUS
<1>1. LinksSpec => []LinksInv
    BY LinksInvAlways
<1>2. LinksInv => LinksTypeOK
    BY DEF LinksInv, LinkTyped, PubsTyped, ShownTyped, TabTyped, LinksTypeOK, LinksOf, Rev, Registry, LinkTransaction
<1>. QED
    BY <1>1, <1>2, PTL
=============================================================================
