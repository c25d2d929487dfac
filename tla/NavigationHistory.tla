-------------------------- MODULE NavigationHistory --------------------------
(***************************************************************************)
(* The Back and Forward stacks of one tab (domain/navigation/              *)
(* NavigationHistory.ts) as PdfTabSession drives them: every navigation    *)
(* cancels what is pending, prepares a transaction, moves the view, which  *)
(* takes several awaits, and then commits the transaction it still holds   *)
(* or rolls it back.  Meanwhile another navigation may have started, or    *)
(* another document may have been mounted.                                 *)
(*                                                                         *)
(* Where the reader stands is supplied by the caller and may be anywhere,  *)
(* since ordinary scrolling records nothing.  Positions are compared with  *)
(* a tolerance, which is not transitive.                                   *)
(***************************************************************************)
EXTENDS Integers, Sequences, FiniteSets

CONSTANTS
    Position,       \* places of the document
    PageOf,         \* their pages
    Near,           \* pairs of positions within NAVIGATION_HISTORY_TOLERANCE
    Limit,          \* NAVIGATION_HISTORY_LIMIT: back, forward and the live position
    Epochs,         \* search epochs
    MaxHeld         \* bound: navigations under way at once

None == 0

ASSUME NavigationAssumption ==
    /\ PageOf \in [Position -> Nat]
    /\ Near \subseteq Position \X Position
    /\ Limit \in Nat \ {0}
    /\ Epochs \subseteq Nat \ {0}
    /\ MaxHeld \in Nat

VARIABLES
    back, forward,        \* the two stacks, the newest position last
    generation,           \* raised by whatever makes prepared transactions stale
    transactionSequence,  \* the last transaction id
    pending,              \* ids that may still be committed or rolled back
    recordedSearchEpoch,  \* the search epoch the newest recorded search belongs to
    held                  \* the transactions of the navigations under way

historyVars == <<back, forward, generation, transactionSequence, pending, recordedSearchEpoch, held>>

Transaction ==
    [id : Nat, generation : Nat, kind : {"jump", "back", "forward"},
     origin : Position, target : Position, searchEpoch : Epochs \cup {None}]

Same(p, q) == <<p, q>> \in Near \/ p = q

Push(stack, p) == Append(stack, p)
Pop(stack) == SubSeq(stack, 1, Len(stack) - 1)
Top(stack) == stack[Len(stack)]

-----------------------------------------------------------------------------
\* Mutant: one position too many is kept.
TrimBackLate(b) ==
    IF Len(b) > Limit THEN SubSeq(b, Len(b) - Limit + 1, Len(b)) ELSE b

\* A jump leaves no forward positions: the oldest ones of back make room.
TrimBack(b) ==
    IF Len(b) > Limit - 1 THEN SubSeq(b, Len(b) - Limit + 2, Len(b)) ELSE b

NextId == transactionSequence + 1

PendingAfter(id) == {id}

GenerationOnCancel == IF pending = {} THEN generation ELSE generation + 1

\* cancelPending() and then prepare(): the only id left is the new one.
Prepare(kind, origin, target, epoch) ==
    /\ Cardinality(held) < MaxHeld
    /\ generation' = GenerationOnCancel
    /\ transactionSequence' = transactionSequence + 1
    /\ pending' = PendingAfter(NextId)
    /\ held' = held \cup {[id |-> NextId, generation |-> GenerationOnCancel, kind |-> kind,
                           origin |-> origin, target |-> target, searchEpoch |-> epoch]}
    /\ UNCHANGED <<back, forward, recordedSearchEpoch>>

\* Mutant: a search records each of its landings.
MayRecordAlways(epoch) == TRUE
MayRecord(epoch) == epoch = None \/ epoch # recordedSearchEpoch

PrepareJump(origin, target, epoch) ==
    /\ ~Same(origin, target) /\ MayRecord(epoch)
    /\ Prepare("jump", origin, target, epoch)

CanBack == Len(back) > 0
CanForward == Len(forward) > 0

PrepareBack(origin) == CanBack /\ Prepare("back", origin, Top(back), None)
PrepareForward(origin) == CanForward /\ Prepare("forward", origin, Top(forward), None)

CancelPending ==
    /\ pending # {}
    /\ pending' = {} /\ generation' = generation + 1
    /\ UNCHANGED <<back, forward, transactionSequence, recordedSearchEpoch, held>>

Live(t) == t.generation = generation /\ t.id \in pending

\* The transaction leaves the hands of its navigation, whatever becomes of it.
Returned(t) == held' = held \ {t}

Stale(t) ==
    /\ t \in held /\ ~Live(t)
    /\ Returned(t)
    /\ UNCHANGED <<back, forward, generation, transactionSequence, pending, recordedSearchEpoch>>

\* rollback(), or a commit that fails its verification or ends where it began.
Abandon(t) ==
    /\ t \in held /\ Live(t)
    /\ Returned(t)
    /\ pending' = pending \ {t.id} /\ generation' = generation + 1
    /\ UNCHANGED <<back, forward, transactionSequence, recordedSearchEpoch>>

\* The view displays a position near the one verified, which is on the page aimed at.
Verified(t, displayed, verificationTarget) ==
    /\ PageOf[verificationTarget] = PageOf[t.target]
    /\ Same(verificationTarget, displayed)
    /\ ~Same(t.origin, displayed)

Commit(t, displayed, verificationTarget) ==
    /\ t \in held /\ Live(t)
    /\ Verified(t, displayed, verificationTarget)
    /\ Returned(t)
    /\ pending' = pending \ {t.id} /\ generation' = generation + 1
    /\ \/ /\ t.kind = "jump"
          /\ back' = TrimBack(Push(back, t.origin)) /\ forward' = <<>>
          /\ recordedSearchEpoch' = IF t.searchEpoch = None THEN recordedSearchEpoch ELSE t.searchEpoch
       \/ /\ t.kind = "back"
          /\ back' = Pop(back) /\ forward' = Push(forward, t.origin)
          /\ UNCHANGED recordedSearchEpoch
       \/ /\ t.kind = "forward"
          /\ forward' = Pop(forward) /\ back' = Push(back, t.origin)
          /\ UNCHANGED recordedSearchEpoch
    /\ UNCHANGED transactionSequence

\* Mutant: the stacks are emptied under a navigation that may still commit.
ResetKeepsPending ==
    /\ back' = <<>> /\ forward' = <<>> /\ recordedSearchEpoch' = None
    /\ UNCHANGED <<generation, pending, transactionSequence, held>>

\* Another document is mounted.
Reset ==
    /\ back' = <<>> /\ forward' = <<>> /\ pending' = {} /\ recordedSearchEpoch' = None
    /\ generation' = generation + 1
    /\ UNCHANGED <<transactionSequence, held>>

-----------------------------------------------------------------------------
HistoryInit ==
    /\ back = <<>> /\ forward = <<>>
    /\ generation = 0 /\ transactionSequence = 0
    /\ pending = {} /\ recordedSearchEpoch = None /\ held = {}

HistoryNext ==
    \/ \E origin, target \in Position, epoch \in Epochs \cup {None} : PrepareJump(origin, target, epoch)
    \/ \E origin \in Position : PrepareBack(origin)
    \/ \E origin \in Position : PrepareForward(origin)
    \/ CancelPending
    \/ \E t \in held : Stale(t)
    \/ \E t \in held : Abandon(t)
    \/ \E t \in held, displayed, verificationTarget \in Position : Commit(t, displayed, verificationTarget)
    \/ Reset

HistorySpec == HistoryInit /\ [][HistoryNext]_historyVars

-----------------------------------------------------------------------------
(* Properties *)

\* The fields of the history keep their types; ids are never reused.
HistoryTypeOK ==
    /\ back \in Seq(Position) /\ forward \in Seq(Position)
    /\ generation \in Nat /\ transactionSequence \in Nat
    /\ pending \in SUBSET (1..transactionSequence)
    /\ recordedSearchEpoch \in Epochs \cup {None}
    /\ held \in SUBSET Transaction
    /\ \A t \in held : t.id \in 1..transactionSequence

\* Back, the live position and Forward together never exceed the limit: a
\* traversal moves a position from one stack to the other, and trimBack cuts
\* what a jump adds.
HistoryBounded == Len(back) + Len(forward) <= Limit - 1

\* A traversal that can still be committed aims at the position on top of its
\* stack: however navigations overlap, the entry a commit pops is the one the
\* view was moved to, and never one of an empty stack.
LiveTraversalFits ==
    \A t \in held : Live(t) =>
        /\ t.kind = "back" => back # <<>> /\ t.target = Top(back)
        /\ t.kind = "forward" => forward # <<>> /\ t.target = Top(forward)

\* A search epoch records one position at most: no transaction of an epoch that is
\* recorded already can still be committed.
EpochRecordedOnce ==
    \A t \in held : Live(t) /\ t.searchEpoch # None => t.searchEpoch # recordedSearchEpoch

\* Whatever may still be committed fits the stacks as they are now, though others moved them meanwhile.
LiveMayCommit == HistoryBounded /\ LiveTraversalFits /\ EpochRecordedOnce

\* The set of pending ids does not grow: at most one navigation may commit, and it
\* is the newest.
OnePending == pending \subseteq {transactionSequence}
=============================================================================
