---------------------------- MODULE PdfAssembly ----------------------------
(***************************************************************************)
(* The assembly ledger: process-wide credits for the buffers in which the  *)
(* renderers assemble logical ranges.  A document has at most one active   *)
(* lease and one waiting request; the waiting documents queue in strict    *)
(* FIFO order, and every call that gives credit back pumps the queue.      *)
(*                                                                         *)
(* An action is one call, which holds the ledger's mutex throughout.  The  *)
(* calls come from renderers over an asynchronous boundary, so a request,  *)
(* its cancellation and a release may arrive in any order and repeatedly.  *)
(* A refused call changes nothing and is a stuttering step.                *)
(***************************************************************************)
EXTENDS Integers, Sequences, FiniteSets, SequencesExt

CONSTANTS
  Doc,              \* document keys: a session id with its generation
  Owner, OwnerOf,   \* the window each document belongs to
  MaxBytes,         \* MAX_ASSEMBLY_BYTES
  Sizes,            \* byte lengths requested
  MaxSequence,      \* bound: request sequences 1..MaxSequence
  MaxLease,         \* bound: lease ids count up to it and start again at 1
  MaxReleased,      \* MAX_RELEASED_LEASES
  MaxClosed         \* MAX_CLOSED_DOCUMENTS

ASSUME LedgerAssumption ==
  /\ IsFiniteSet(Doc)
  /\ OwnerOf \in [Doc -> Owner]
  /\ MaxBytes \in Nat /\ Sizes \subseteq 1..MaxBytes
  /\ MaxSequence \in Nat /\ MaxLease \in Nat \ {0}
  /\ MaxReleased \in Nat \ {0} /\ MaxClosed \in Nat \ {0}

\* The sequence of a cancellation of everything, u64::MAX.
Everything == MaxSequence + 1

VARIABLES
  documents,     \* the documents the ledger knows
  pending,       \* documents with a waiting request, in order of arrival
  closedOrder,   \* finished documents, oldest first
  currentBytes,
  nextLease

vars == <<documents, pending, closedOrder, currentBytes, nextLease>>

NoLease   == [id |-> 0, bytes |-> 0]
NoRequest == [sequence |-> 0, bytes |-> 0]

\* `last` is history: the id of the last lease granted.
NewDocument == [cancelThrough |-> 0, active |-> NoLease, waiting |-> NoRequest,
                finished |-> FALSE, released |-> <<>>, last |-> 0]

Known(d) == d \in DOMAIN documents
DocumentOr(docs, d) == IF d \in DOMAIN docs THEN docs[d] ELSE NewDocument

HasLease(doc)   == doc.active # NoLease
HasRequest(doc) == doc.waiting # NoRequest

\* The ledger as a value, for the calls that change it in several steps.
Ledger == [documents |-> documents, pending |-> pending, closed |-> closedOrder,
           bytes |-> currentBytes, next |-> nextLease]

Becomes(st) ==
  \E v \in {st} :
    /\ documents' = v.documents /\ pending' = v.pending /\ closedOrder' = v.closed
    /\ currentBytes' = v.bytes /\ nextLease' = v.next

Put(st, d, doc) == [st EXCEPT !.documents = [k \in DOMAIN @ \cup {d} |-> IF k = d THEN doc ELSE @[k]]]

Init ==
  /\ documents = <<>>
  /\ pending = <<>> /\ closedOrder = <<>>
  /\ currentBytes = 0 /\ nextLease = 1

-----------------------------------------------------------------------------
Newest(s, n) == IF Len(s) <= n THEN s ELSE SubSeq(s, Len(s) - n + 1, Len(s))

\* Mutant: a released lease is not remembered.
RecordReleaseForgets(doc) == doc

\* record_release, of the lease the document had.
RecordRelease(doc) ==
  IF Contains(doc.released, doc.active.id) THEN doc
  ELSE [doc EXCEPT !.released = Newest(Append(@, doc.active.id), MaxReleased)]

MarkClosed(st, d) == IF Contains(st.closed, d) THEN st ELSE [st EXCEPT !.closed = Append(@, d)]

\* prune_closed: the finished documents beyond the newest MaxClosed are forgotten.
PruneClosed(st) ==
  LET kept == Newest(st.closed, MaxClosed)
      Removable(d) ==
        /\ d \in DOMAIN st.documents /\ Contains(st.closed, d) /\ ~Contains(kept, d)
        /\ st.documents[d].finished
        /\ ~HasLease(st.documents[d]) /\ ~HasRequest(st.documents[d])
  IN [st EXCEPT !.closed = kept,
                !.documents = [d \in {k \in DOMAIN @ : ~Removable(k)} |-> @[d]]]

\* grant, to a document that is not waiting any more.
Grant(st, d, doc, bytes) ==
  Put([st EXCEPT !.bytes = @ + bytes, !.next = (@ % MaxLease) + 1], d,
      [doc EXCEPT !.active = [id |-> st.next, bytes |-> bytes], !.last = st.next])

\* Mutant: a document whose request does not fit is passed over.
PumpOnceWithBypass(st) ==
  LET Fit(i) == LET doc == st.documents[st.pending[i]]
                IN ~HasLease(doc) /\ st.bytes + doc.waiting.bytes <= MaxBytes
      fit == {i \in DOMAIN st.pending : Fit(i)}
  IN IF fit = {} THEN st
     ELSE LET d   == st.pending[Min(fit)]
              doc == st.documents[d]
          IN Grant([st EXCEPT !.pending = RemoveFirst(@, d)], d,
                   [doc EXCEPT !.waiting = NoRequest], doc.waiting.bytes)

\* Mutant: the head of the queue is granted over the budget.
PumpOnceOverBudget(st) ==
  IF st.pending = <<>> THEN st
  ELSE LET d   == Head(st.pending)
           doc == st.documents[d]
       IN IF HasLease(doc) THEN st
          ELSE Grant([st EXCEPT !.pending = Tail(@)], d,
                     [doc EXCEPT !.waiting = NoRequest], doc.waiting.bytes)

(***************************************************************************)
(* One round of pump: the head of the queue is dropped if it does not wait *)
(* any more, is granted if its document has no lease and it fits, and      *)
(* stops the pump otherwise: it is never bypassed.                         *)
(***************************************************************************)
PumpOnce(st) ==
  IF st.pending = <<>> THEN st
  ELSE LET d    == Head(st.pending)
           doc  == DocumentOr(st.documents, d)
           rest == [st EXCEPT !.pending = Tail(@)]
       IN IF ~HasRequest(doc) THEN rest
          ELSE IF doc.finished \/ HasLease(doc) \/ st.bytes + doc.waiting.bytes > MaxBytes THEN st
          ELSE Grant(rest, d, [doc EXCEPT !.waiting = NoRequest], doc.waiting.bytes)

Pump(st) ==
  LET after[n \in 0..Len(st.pending)] == IF n = 0 THEN st ELSE PumpOnce(after[n - 1])
  IN after[Len(st.pending)]

-----------------------------------------------------------------------------
(* The calls.                                                              *)

\* Mutant: a request that fits is granted although others wait.
RequestPastQueue(d, q, n) ==
  LET doc == DocumentOr(documents, d)
  IN /\ ~doc.finished /\ q > doc.cancelThrough /\ ~HasRequest(doc)
     /\ Becomes(IF ~HasLease(doc) /\ currentBytes + n <= MaxBytes
                THEN PruneClosed(Grant(Ledger, d, doc, n))
                ELSE Put([Ledger EXCEPT !.pending = Append(@, d)], d,
                         [doc EXCEPT !.waiting = [sequence |-> q, bytes |-> n]]))

\* Mutant: a request is accepted although it was cancelled before it came.
RequestUnfenced(d, q, n) ==
  LET doc == DocumentOr(documents, d)
  IN /\ ~doc.finished /\ ~HasRequest(doc)
     /\ Becomes(IF ~HasLease(doc) /\ pending = <<>> /\ currentBytes + n <= MaxBytes
                THEN PruneClosed(Grant(Ledger, d, doc, n))
                ELSE Put([Ledger EXCEPT !.pending = Append(@, d)], d,
                         [doc EXCEPT !.waiting = [sequence |-> q, bytes |-> n]]))

Request(d, q, n) ==
  LET doc == DocumentOr(documents, d)
  IN /\ ~doc.finished /\ q > doc.cancelThrough /\ ~HasRequest(doc)
     /\ Becomes(IF ~HasLease(doc) /\ pending = <<>> /\ currentBytes + n <= MaxBytes
                THEN PruneClosed(Grant(Ledger, d, doc, n))
                ELSE Put([Ledger EXCEPT !.pending = Append(@, d)], d,
                         [doc EXCEPT !.waiting = [sequence |-> q, bytes |-> n]]))

\* Mutant: a cancellation of everything finishes a document that holds a lease.
CancelFinishesHolder(d, q) ==
  LET doc  == DocumentOr(documents, d)
      hit  == HasRequest(doc) /\ doc.waiting.sequence <= q
      left == [doc EXCEPT !.waiting = IF hit THEN NoRequest ELSE @,
                          !.cancelThrough = IF q > @ THEN q ELSE @]
      ends == q = Everything
      st   == Put([Ledger EXCEPT !.pending = IF hit THEN RemoveFirst(@, d) ELSE @], d,
                  [left EXCEPT !.finished = @ \/ ends])
  IN Becomes(PruneClosed(IF ends THEN MarkClosed(st, d) ELSE st))

\* The watermark fences the requests up to q, one that waits and those to come.
\* An active lease stays.
Cancel(d, q) ==
  LET doc  == DocumentOr(documents, d)
      hit  == HasRequest(doc) /\ doc.waiting.sequence <= q
      left == [doc EXCEPT !.waiting = IF hit THEN NoRequest ELSE @,
                          !.cancelThrough = IF q > @ THEN q ELSE @]
      ends == q = Everything /\ ~HasLease(left) /\ ~HasRequest(left)
      st   == Put([Ledger EXCEPT !.pending = IF hit THEN RemoveFirst(@, d) ELSE @], d,
                  [left EXCEPT !.finished = @ \/ ends])
  IN Becomes(PruneClosed(IF ends THEN MarkClosed(st, d) ELSE st))

Release(d, id) ==
  /\ Known(d) /\ id # 0 /\ documents[d].active.id = id
  /\ LET doc  == documents[d]
         left == [RecordRelease(doc) EXCEPT !.active = NoLease]
         ends == left.cancelThrough = Everything /\ ~HasRequest(left)
         st   == Put([Ledger EXCEPT !.bytes = @ - doc.active.bytes], d,
                     [left EXCEPT !.finished = @ \/ ends])
     IN Becomes(Pump(PruneClosed(IF ends THEN MarkClosed(st, d) ELSE st)))

\* What finish and discard_owner do to one document.
Finished(st, d) ==
  LET doc  == DocumentOr(st.documents, d)
      left == IF HasLease(doc) THEN RecordRelease(doc) ELSE doc
  IN MarkClosed(Put([st EXCEPT !.pending = RemoveFirst(@, d), !.bytes = @ - doc.active.bytes], d,
                    [left EXCEPT !.active = NoLease, !.waiting = NoRequest, !.finished = TRUE]),
                d)

Finish(d) ==
  /\ ~DocumentOr(documents, d).finished
  /\ Becomes(PruneClosed(Pump(Finished(Ledger, d))))

\* The documents are visited in the order of a hash map.
DiscardOwner(o) ==
  \E order \in SetToSeqs({d \in DOMAIN documents : OwnerOf[d] = o}) :
    LET after[n \in 0..Len(order)] == IF n = 0 THEN Ledger ELSE Finished(after[n - 1], order[n])
    IN Becomes(PruneClosed(Pump(after[Len(order)])))

Next ==
  \/ \E d \in Doc :
       \/ \E q \in 1..MaxSequence, n \in Sizes : Request(d, q, n)
       \/ \E q \in 1..Everything : Cancel(d, q)
       \/ \E id \in 1..MaxLease : Release(d, id)
       \/ Finish(d)
  \/ \E o \in Owner : DiscardOwner(o)

Spec == Init /\ [][Next]_vars

\* A renderer gives every lease back in the end, by a release or by the
\* destruction of its window; nothing else is assumed.  This is the weak fairness
\* of the releases of d, with the condition that enables them written out.
Fairness ==
  \A d \in Doc : []<>(~Known(d) \/ ~HasLease(documents[d]))
                  \/ []<><<\E id \in 1..MaxLease : Release(d, id)>>_vars
FairSpec == Spec /\ Fairness

-----------------------------------------------------------------------------
(***************************************************************************)
(* Every field of the ledger is in the range its type allows.              *)
(***************************************************************************)
TypeOK ==
  /\ DOMAIN documents \subseteq Doc
  /\ documents \in [DOMAIN documents ->
       [cancelThrough : 0..Everything, active : [id : 0..MaxLease, bytes : 0..MaxBytes],
        waiting : [sequence : 0..MaxSequence, bytes : 0..MaxBytes],
        finished : BOOLEAN, released : Seq(1..MaxLease), last : 0..MaxLease]]
  /\ pending \in Seq(Doc) /\ closedOrder \in Seq(Doc)
  /\ currentBytes \in Nat
  /\ nextLease \in 1..MaxLease

Holders == {d \in DOMAIN documents : HasLease(documents[d])}
Waiters == {d \in DOMAIN documents : HasRequest(documents[d])}

\* The charge is exactly the bytes of the active leases, and never over the budget:
\* no interleaving of grants, releases, finishes and discards loses or invents credit.
CreditExact ==
  /\ currentBytes = MapThenSumSet(LAMBDA d : documents[d].active.bytes, Holders)
  /\ currentBytes <= MaxBytes

\* The watermark fences: a waiting request is beyond its document's watermark, and a
\* finished document has neither lease nor request, so no grant comes late.
FencedNeverGranted ==
  \A d \in DOMAIN documents :
    /\ HasRequest(documents[d]) =>
         documents[d].waiting.sequence > documents[d].cancelThrough /\ ~documents[d].finished
    /\ documents[d].finished => ~HasLease(documents[d])

\* The release of a document's last lease may be repeated: as long as the ledger knows
\* the document, it answers the retry of a release whose answer was lost.
LostAckSafe ==
  \A d \in DOMAIN documents :
    LET doc == documents[d]
    IN doc.last # 0 /\ ~HasLease(doc) => Contains(doc.released, doc.last)

\* The ledger owes nothing that was not asked for and forgets nothing it owes, whatever message
\* overtakes another or is lost.
LedgerIsExact == CreditExact /\ FencedNeverGranted /\ LostAckSafe

Granted(d) == d \in Holders' /\ (d \in Holders => documents'[d].active # documents[d].active)

\* Strict FIFO: when a document gets a lease, nobody who waited before it goes on
\* waiting.  A request that did not wait gets one only if nobody waited.
NoBypass ==
  [][\A d \in Doc : Granted(d) =>
       \A i \in DOMAIN pending :
         (\A j \in 1..i : pending[j] # d) => ~Contains(pending', pending[i])]_vars

\* No request starves: one that waits is granted or withdrawn in the end, however
\* large it is, if every lease is given back in the end.
WaitingIsServed == \A d \in Doc : []<>(d \notin Waiters)

-----------------------------------------------------------------------------
(***************************************************************************)
(* The view of the session manager.                                        *)
(***************************************************************************)
\* What the manager sees of a document: whether it works, and whether it ever will again.
Look(doc) ==
  IF doc.finished THEN "finished"
  ELSE IF HasRequest(doc) THEN IF HasLease(doc) THEN "both" ELSE "waiting"
  ELSE IF ~HasLease(doc) THEN "idle"
  ELSE IF doc.cancelThrough = Everything THEN "closing" ELSE "active"

ShadowOf(d) == IF Known(d) THEN Look(documents[d]) ELSE "absent"

Shadow == INSTANCE AssemblyShadow WITH Session <- Doc, asm <- [d \in Doc |-> ShadowOf(d)]

\* Every call changes the manager's view of the documents the way PdfSession does:
\* what a release or a finish promotes there is never more than the queue and the
\* bytes allow here.
ShadowImplemented == Shadow!ShadowSpec
=============================================================================
