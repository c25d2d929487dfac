--------------------------- MODULE PdfRangeAssembly ---------------------------
(***************************************************************************)
(* The assembly of logical ranges for PDF.js (pdf/PdfRangeAssembly.ts) of  *)
(* one document, over the ledger of PdfAssembly.  One other document of    *)
(* the process competes for the credit.                                    *)
(*                                                                         *)
(* A step of the assembly is the code between two awaits.  An invocation   *)
(* is sent, handled by the native side and answered in three steps, so     *)
(* that they overtake each other; its answer may be lost.  PDF.js asks for *)
(* ranges, detaches the buffer it was handed when its worker takes it, and *)
(* reports progress only then.  The physical parts of a range are read in  *)
(* one step, which ends well, fails or is aborted.                         *)
(***************************************************************************)
EXTENDS Integers, Sequences, FiniteSets

CONSTANTS
    Mine, Other,   \* the document of this assembly, and one of another window
    Sizes,         \* byte lengths of ranges
    MaxBytes,      \* PDF_ASSEMBLY_MAX_BYTES
    Limit,         \* PDF_ASSEMBLY_DESCRIPTOR_LIMIT
    MaxRequests,   \* bound: ranges asked for
    MaxFaults      \* bound: lost answers, refusals, failures of reads, memory and PDF.js

RangeAssumption ==
    /\ Mine # Other
    /\ MaxBytes \in Nat /\ Sizes \subseteq 1..MaxBytes
    /\ {Limit, MaxRequests} \subseteq Nat \ {0} /\ MaxFaults \in Nat

VARIABLES
    documents, pending, closedOrder, currentBytes, nextLease,  \* the ledger
    assembly,
    call,          \* the invocations of the assembly
    pdf,           \* PDF.js: alive, and the lease of the buffer it holds, 0 for none
    asked, faults

Native == INSTANCE PdfAssembly WITH
    Doc <- {Mine, Other}, Owner <- {Mine, Other}, OwnerOf <- [d \in {Mine, Other} |-> d],
    MaxSequence <- MaxRequests, MaxLease <- MaxRequests + 1, MaxReleased <- MaxRequests, MaxClosed <- 2

ledger == <<documents, pending, closedOrder, currentBytes, nextLease>>
vars == <<ledger, assembly, call, pdf, asked, faults>>

\* at: reserving, reading, returned (its credit is given back or was never there), handed.
\* bytes: none, whole, detached.
NoActive == [at |-> "none", size |-> 0, lease |-> 0, bytes |-> "none",
             cancelled |-> FALSE, completed |-> FALSE, error |-> FALSE]

\* The sequence of the active range, if there is one, is next - 1.
NewAssembly == [queue |-> <<>>, next |-> 1, active |-> NoActive, stopped |-> FALSE, finished |-> FALSE,
                failed |-> FALSE, finishing |-> "idle"]

Kinds == {"reserve", "cancel", "release", "finish"}
Fault == faults < MaxFaults /\ faults' = faults + 1
NoFault == UNCHANGED faults

-----------------------------------------------------------------------------
(* The assembly.  Its synchronous methods, as functions of the assembly and its  *)
(* invocations, in one record s.                                                 *)

State == [a |-> assembly, c |-> call]
Becomes(s) == assembly' = s.a /\ call' = s.c
Issue(s, k) == [s EXCEPT !.c[k] = "sent"]
Flying(s) == s.c["release"] # "none"
Closed(s) == s.a.stopped \/ s.a.finished \/ s.a.failed

\* Mutant: the next range is left in the queue.
PumpNothing(s) == s
\* pump; PDF.js never asks for as many ranges as there are sequences.
Pump(s) ==
    IF Closed(s) \/ s.a.active # NoActive \/ s.a.queue = <<>> THEN s
    ELSE Issue([s EXCEPT !.a.queue = Tail(@), !.a.next = @ + 1,
                         !.a.active = [NoActive EXCEPT !.at = "reserving", !.size = Head(s.a.queue)]],
               "reserve")

\* cancelActiveNativeWaiter
CancelWaiter(s) ==
    IF s.a.active = NoActive \/ s.a.active.cancelled THEN s
    ELSE Issue([s EXCEPT !.a.active.cancelled = TRUE], "cancel")

\* What abort, fail and finishAfterPdfDestroy begin with.
Stop(s) == CancelWaiter([s EXCEPT !.a.stopped = TRUE, !.a.queue = <<>>])

Fail(s) == IF s.a.failed \/ s.a.finished THEN s ELSE Stop([s EXCEPT !.a.failed = TRUE])

FinishActive(s) ==
    IF s.a.active.error \/ (s.a.active.lease # 0 /\ ~s.a.active.completed) THEN s
    ELSE Pump([s EXCEPT !.a.active = NoActive])

\* releaseHandoff, with the holder's removal that precedes it everywhere.
ReleaseHandoff(s) ==
    LET t == [s EXCEPT !.a.active.bytes = "none"] IN
    IF s.a.active.completed \/ Flying(s) THEN t
    ELSE IF s.a.active.lease = 0 THEN FinishActive([t EXCEPT !.a.active.completed = TRUE])
    ELSE Issue(t, "release")

\* Has execute returned for the active range?
Settled(s) ==
    \/ s.a.active.at = "handed"
    \/ s.a.active.at = "returned" /\ ~Flying(s)

-----------------------------------------------------------------------------
(* PDF.js *)

\* A range of no length stands for every malformed one.
RequestDataRange(n) ==
    /\ pdf.alive /\ asked < MaxRequests /\ asked' = asked + 1
    /\ ~Closed(State)
    /\ LET count == Len(assembly.queue) + (IF assembly.active = NoActive THEN 0 ELSE 1)
       IN Becomes(IF n = 0 \/ count >= Limit THEN Fail(State)
                  ELSE Pump([State EXCEPT !.a.queue = Append(@, n)]))
    /\ NoFault /\ UNCHANGED <<ledger, pdf>>

Detach ==
    /\ pdf.holds # 0 /\ pdf' = [pdf EXCEPT !.holds = 0]
    /\ assembly' = [assembly EXCEPT !.active.bytes = IF @ = "whole" THEN "detached" ELSE @]
    /\ NoFault /\ UNCHANGED <<ledger, call, asked>>

\* Mutant: any progress gives the credit back, whether the buffer was taken or not.
NotifyAnyProgress ==
    /\ pdf.alive
    /\ assembly.active.at = "handed" /\ assembly.active.bytes # "none"
    /\ ~Flying(State) /\ ~assembly.active.completed
    /\ Becomes(ReleaseHandoff(State))
    /\ NoFault /\ UNCHANGED <<ledger, pdf, asked>>
NotifyProgress ==
    /\ pdf.alive
    /\ assembly.active.at = "handed" /\ assembly.active.bytes = "detached"
    /\ ~Flying(State) /\ ~assembly.active.completed
    /\ Becomes(ReleaseHandoff(State))
    /\ NoFault /\ UNCHANGED <<ledger, pdf, asked>>

Abort ==
    /\ pdf.alive /\ ~assembly.stopped /\ ~assembly.finished
    /\ Becomes(Stop(State))
    /\ NoFault /\ UNCHANGED <<ledger, pdf, asked>>

Destroy ==
    /\ pdf.alive /\ pdf' = [alive |-> FALSE, holds |-> 0]
    /\ NoFault /\ UNCHANGED <<ledger, assembly, call, asked>>

-----------------------------------------------------------------------------
(* execute *)

Doc == Native!DocumentOr(documents, Mine)
Granted == call["reserve"] = "waiting" /\ ~Native!HasRequest(Doc) /\ Native!HasLease(Doc)

\* The grant arrives, and the buffer is allocated.
ReserveGranted ==
    /\ Granted
    /\ LET s == [State EXCEPT !.c["reserve"] = "none", !.a.active.lease = Doc.active.id,
                              !.a.active.at = "returned"]
       IN IF assembly.stopped THEN Becomes(ReleaseHandoff(s)) /\ NoFault
          ELSE \/ Becomes([s EXCEPT !.a.active.at = "reading", !.a.active.bytes = "whole"]) /\ NoFault
               \/ Fault /\ Becomes(ReleaseHandoff(Fail(s)))
    /\ UNCHANGED <<ledger, pdf, asked>>

\* The reservation is refused, was withdrawn, or its answer is lost or malformed.
ReserveFailed ==
    /\ \/ call["reserve"] = "refused" /\ NoFault
       \/ call["reserve"] = "waiting" /\ ~Native!HasRequest(Doc) /\ ~Native!HasLease(Doc) /\ NoFault
       \/ Granted /\ Fault
    /\ LET s == [State EXCEPT !.c["reserve"] = "none", !.a.active.at = "returned"]
       IN Becomes(FinishActive(IF assembly.stopped THEN s ELSE Fail(s)))
    /\ UNCHANGED <<ledger, pdf, asked>>

\* The parts are read; an aborted or failed read gives the credit back.
PartsFailed ==
    /\ assembly.active.at = "reading"
    /\ LET s == [State EXCEPT !.a.active.at = "returned"]
       IN \/ assembly.stopped /\ NoFault /\ Becomes(ReleaseHandoff(s))
          \/ ~assembly.stopped /\ Fault /\ Becomes(ReleaseHandoff(Fail([s EXCEPT !.a.active.bytes = "none"])))
    /\ UNCHANGED <<ledger, pdf, asked>>

\* The whole buffer is handed to PDF.js; onDataRange may throw after it took the buffer.
HandOff ==
    /\ assembly.active.at = "reading" /\ ~assembly.stopped
    /\ LET s == [State EXCEPT !.a.active.at = "handed"]
       IN (Becomes(s) /\ NoFault) \/ (Fault /\ Becomes(Fail(s)))
    /\ pdf' = IF pdf.alive THEN [pdf EXCEPT !.holds = assembly.active.lease] ELSE pdf
    /\ UNCHANGED <<ledger, asked>>

\* The two ends of the promise of release.
ReleaseAnswered ==
    /\ LET s == [State EXCEPT !.c["release"] = "none"]
       IN \/ /\ call["release"] = "done" /\ NoFault
             /\ Becomes(FinishActive([s EXCEPT !.a.active.completed = TRUE, !.a.active.error = FALSE]))
          \/ /\ (call["release"] = "refused" /\ NoFault) \/ (call["release"] = "done" /\ Fault)
             /\ Becomes(Fail([s EXCEPT !.a.active.error = TRUE]))
    /\ UNCHANGED <<ledger, pdf, asked>>

\* There is one cancellation at most: what cancels also stops.  Its promise is kept.
CancelAnswered ==
    /\ call["cancel"] = "done"
    /\ \/ call' = [call EXCEPT !["cancel"] = "ok"] /\ UNCHANGED assembly /\ NoFault
       \/ /\ Fault
          /\ Becomes(Fail([State EXCEPT !.c["cancel"] = "failed",
                                        !.a.active.error = @ \/ assembly.active # NoActive]))
    /\ UNCHANGED <<ledger, pdf, asked>>

-----------------------------------------------------------------------------
(* finishAfterPdfDestroy.  A finish that was rejected is tried again. *)

\* Mutant: a rejected finish is remembered, and nobody can try again.
FinishOnce ==
    /\ ~pdf.alive /\ assembly.finishing = "idle"
    /\ Becomes(Stop([State EXCEPT !.a.finishing = "cancelling"]))
    /\ NoFault /\ UNCHANGED <<ledger, pdf, asked>>
FinishAfterPdfDestroy ==
    /\ ~pdf.alive /\ assembly.finishing \in {"idle", "rejected"}
    /\ Becomes(Stop([State EXCEPT !.a.finishing = "cancelling"]))
    /\ NoFault /\ UNCHANGED <<ledger, pdf, asked>>

CancellationAwaited ==
    /\ assembly.finishing = "cancelling" /\ call["cancel"] \in {"none", "ok", "failed"}
    /\ assembly' = [assembly EXCEPT !.finishing = IF call["cancel"] = "failed" THEN "rejected" ELSE "settling"]
    /\ NoFault /\ UNCHANGED <<ledger, call, pdf, asked>>

\* Mutant: the finish does not wait until the active range has settled.
FinishUnsettled ==
    /\ assembly.finishing = "settling"
    /\ Becomes(Issue([State EXCEPT !.a.finishing = "finishing"], "finish"))
    /\ NoFault /\ UNCHANGED <<ledger, pdf, asked>>
ActiveSettled ==
    /\ assembly.finishing = "settling"
    /\ IF assembly.active = NoActive
       THEN Becomes(Issue([State EXCEPT !.a.finishing = "finishing"], "finish"))
       ELSE Settled(State) /\ Becomes(ReleaseHandoff([State EXCEPT !.a.finishing = "releasing"]))
    /\ NoFault /\ UNCHANGED <<ledger, pdf, asked>>

ReleaseAwaited ==
    /\ assembly.finishing = "releasing" /\ ~Flying(State)
    /\ Becomes(IF assembly.active # NoActive THEN [State EXCEPT !.a.finishing = "rejected"]
               ELSE Issue([State EXCEPT !.a.finishing = "finishing"], "finish"))
    /\ NoFault /\ UNCHANGED <<ledger, pdf, asked>>

FinishAnswered ==
    /\ call["finish"] = "done" /\ call' = [call EXCEPT !["finish"] = "none"]
    /\ \/ assembly' = [assembly EXCEPT !.finished = TRUE, !.finishing = "done"] /\ NoFault
       \/ assembly' = [assembly EXCEPT !.finishing = "rejected"] /\ Fault
    /\ UNCHANGED <<ledger, pdf, asked>>

-----------------------------------------------------------------------------
(* The commands of lib.rs, each over the ledger. *)

Handled(k, answer) == call[k] = "sent" /\ call' = [call EXCEPT ![k] = answer] /\ UNCHANGED <<assembly, pdf, asked>>

\* A session that is closing refuses.
NativeReserve ==
    LET q == assembly.next - 1
        Accepted == ~Doc.finished /\ q > Doc.cancelThrough /\ ~Native!HasRequest(Doc)
    IN \/ Handled("reserve", "waiting") /\ NoFault /\ Native!Request(Mine, q, assembly.active.size)
       \/ Handled("reserve", "refused") /\ UNCHANGED ledger /\ ((~Accepted /\ NoFault) \/ (Accepted /\ Fault))

NativeCancel == Handled("cancel", "done") /\ NoFault /\ Native!Cancel(Mine, assembly.next - 1)

NativeRelease ==
    LET id == assembly.active.lease IN
    /\ NoFault
    /\ \/ Handled("release", "done") /\ Native!Release(Mine, id)
       \/ /\ Doc.active.id # id /\ UNCHANGED ledger
          /\ Handled("release", IF ~Native!HasLease(Doc) /\ \E i \in DOMAIN Doc.released : Doc.released[i] = id
                                THEN "done" ELSE "refused")

NativeFinish ==
    /\ Handled("finish", "done") /\ NoFault
    /\ Native!Finish(Mine) \/ (Doc.finished /\ UNCHANGED ledger)

OtherAsks ==
    /\ ~Native!Known(Other) /\ \E n \in Sizes : Native!Request(Other, 1, n)
    /\ NoFault /\ UNCHANGED <<assembly, call, pdf, asked>>

OtherReturns ==
    /\ \E id \in 1..(MaxRequests + 1) : Native!Release(Other, id)
    /\ NoFault /\ UNCHANGED <<assembly, call, pdf, asked>>

-----------------------------------------------------------------------------
Init ==
    /\ Native!Init
    /\ assembly = NewAssembly
    /\ call = [k \in Kinds |-> "none"]
    /\ pdf = [alive |-> TRUE, holds |-> 0]
    /\ asked = 0 /\ faults = 0

Commands == NativeReserve \/ NativeCancel \/ NativeRelease \/ NativeFinish
Assembly ==
    \/ ReserveGranted \/ ReserveFailed \/ PartsFailed \/ HandOff \/ ReleaseAnswered \/ CancelAnswered
    \/ CancellationAwaited \/ ActiveSettled \/ ReleaseAwaited \/ FinishAnswered

Next ==
    \/ \E n \in Sizes \cup {0} : RequestDataRange(n)
    \/ Detach \/ NotifyProgress \/ Abort \/ Destroy
    \/ Commands \/ Assembly \/ FinishAfterPdfDestroy
    \/ OtherAsks \/ OtherReturns

Spec == Init /\ [][Next]_vars

\* The native side answers, PDF.js takes what it was handed and reports it, the reader
\* tries a rejected finish again, and the other window gives its credit back.  Nobody has
\* to ask, abort or destroy.
Fairness ==
    /\ WF_vars(Commands) /\ WF_vars(Assembly) /\ WF_vars(OtherReturns)
    /\ WF_vars(Detach) /\ WF_vars(NotifyProgress) /\ WF_vars(FinishAfterPdfDestroy)

FairSpec == Spec /\ Fairness

-----------------------------------------------------------------------------
(* Properties *)

TypeOK ==
    /\ Native!TypeOK
    /\ assembly.queue \in Seq(Sizes) /\ assembly.next \in 1..(MaxRequests + 1)
    /\ assembly.active.at \in {"none", "reserving", "reading", "returned", "handed"}
    /\ assembly.active.bytes \in {"none", "whole", "detached"}
    /\ assembly.finishing \in {"idle", "cancelling", "settling", "releasing", "finishing", "rejected", "done"}
    /\ call \in [Kinds -> {"none", "sent", "waiting", "done", "refused", "ok", "failed"}]
    /\ pdf.holds \in 0..(MaxRequests + 1) /\ asked \in 0..MaxRequests /\ faults \in 0..MaxFaults

\* Every buffer in the window's memory, the assembly's own or the one PDF.js has not yet passed on,
\* is charged to the process under the lease it was granted: neither a late answer, a lost one, an
\* abort nor a finish gives credit back before its buffer is gone, and a finished assembly owes nothing.
CreditCoversBuffer ==
    /\ assembly.active.bytes = "whole" => Doc.active.id = assembly.active.lease /\ Native!HasLease(Doc)
    /\ pdf.holds # 0 => Doc.active.id = pdf.holds
    /\ assembly.finished => ~Native!HasLease(Doc) /\ ~Native!HasRequest(Doc)

\* The q-th range that was queued is over.
Over(q) == assembly.stopped \/ assembly.next > q + 1 \/ (assembly.next = q + 1 /\ assembly.active = NoActive)

\* Every range is delivered in turn unless the assembly stops, and once PDF.js is destroyed the
\* assembly is finished, whatever was under way and whichever answers were lost but the cancellation's:
\* time and again, as ranges are asked for, nothing is owed any more.
RangesEnd ==
    []<>(/\ \A q \in 1..MaxRequests : assembly.next + Len(assembly.queue) > q => Over(q)
         /\ pdf.alive \/ assembly.finished \/ call["cancel"] = "failed")
=============================================================================
