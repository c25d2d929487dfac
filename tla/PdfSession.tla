----------------------------- MODULE PdfSession -----------------------------
(***************************************************************************)
(* The native session manager: admission of opens, the work that keeps a   *)
(* retained file handle busy, the cancel barrier, close, the lifecycle     *)
(* teardown of windows and of the application, and the cleanup worker that *)
(* physically disposes the handles.                                        *)
(*                                                                         *)
(* Every action is one critical section of the `sessions` mutex; a handler *)
(* that releases the mutex in between is several actions, and a command    *)
(* thread has a program counter.  Waiting on the `drained` condvar is a    *)
(* guard: every section that changes a waited-for field is followed by     *)
(* notify_all.  An error return changes nothing and is a stuttering step.  *)
(* The byte budget of the assembly ledger and the queues of the file       *)
(* dispatcher are modules of their own (PdfAssembly, FileDispatch); here a *)
(* session only keeps a shadow of that work (AssemblyShadow, FileShadow).  *)
(***************************************************************************)
EXTENDS Integers, FiniteSets, Sequences, AssemblyShadow

\* Session (AssemblyShadow) are the session ids SessionId::random may return.
CONSTANTS
  Label,                 \* window labels
  MaxOwnerGeneration,    \* bound: generations a window label goes through
  Caller,                \* threads running cancel and close commands
  LateCommands,          \* whether a destroyed window's commands may still run
  MaxSessions,           \* MAX_SESSIONS, also the length of the cleanup queue
  MaxOpening,            \* MAX_OPEN_PROCESS_IN_FLIGHT
  MaxSessionQueue,       \* MAX_SESSION_QUEUE
  MaxSessionInFlight,    \* MAX_SESSION_IN_FLIGHT
  MaxProcessQueue,       \* MAX_PROCESS_QUEUE
  MaxProcessInFlight,    \* MAX_PROCESS_IN_FLIGHT
  MaxSessionLinks,       \* MAX_EXTERNAL_LINK_SESSION_IN_FLIGHT
  MaxProcessLinks,       \* MAX_EXTERNAL_LINK_PROCESS_IN_FLIGHT
  MaxTombstones,         \* MAX_CLOSED_SESSION_TOMBSTONES
  MaxOwnerFences         \* MAX_OWNER_FENCES

ASSUME BoundsAssumption ==
  /\ IsFiniteSet(Session) /\ Session # {}
  /\ Label # {}
  /\ MaxOwnerGeneration \in Nat \ {0}
  /\ LateCommands \in BOOLEAN
  /\ MaxSessions \in Nat \ {0}
  /\ MaxOpening \in Nat
  /\ MaxSessionQueue \in Nat /\ MaxSessionInFlight \in Nat
  /\ MaxProcessQueue \in Nat /\ MaxProcessInFlight \in Nat
  /\ MaxSessionLinks \in Nat /\ MaxProcessLinks \in Nat
  /\ MaxTombstones \in Nat /\ MaxOwnerFences \in Nat

Owner == [label : Label, gen : 1..MaxOwnerGeneration]

\* TeardownOwner.
Teardown == {"Active", "CommandCancelling", "LifecycleDeferred"}

(***************************************************************************)
(* Where a session id is in its life.  "opening" is an entry of            *)
(* opening_operations, "live" an entry of `entries`; a "cleanup" session   *)
(* is a CleanupTask in the channel, "disposing" the one the worker drops,  *)
(* and "disposed" has no handle left.                                      *)
(***************************************************************************)
Stage == {"unused", "opening", "live", "cleanup", "disposing", "disposed"}

(***************************************************************************)
(* The Destroyed handler of a window: not begun, after it invalidated the  *)
(* print leases, after it discarded the assemblies, after it deferred the  *)
(* owner's sessions.                                                       *)
(***************************************************************************)
Window == {"open", "destroying", "discarded", "destroyed"}

CallerPC == {"idle", "cancelAssembly", "draining", "linkWait", "timedOut", "closing", "closed"}

VARIABLES
  stage, owner, teardown,
  invalidated,           \* OpeningOperation.invalidated
  queued, inFlight,      \* file reservations of a session: queued, selected
  links,                 \* external_link_in_flight
  print,                 \* print_lease: "none", "held", or "cancelled" (flag set)
  printInvalidated,
  barrier,               \* Session.barrier, 0 for None
  closing,               \* pending_closes
  tombstones,            \* closed_tombstones, oldest first
  processQueued, processInFlight, processLinks,
  openingInFlight,       \* process_opening_in_flight
  cleanupPending,        \* cleanup_pending
  nextBarrier,
  fences, fenceAll,      \* owner_generation_fences, lifecycle_fence_all
  window,                \* how far the Destroyed handler of an owner's window is
  quit,                  \* the quit thread in drain_all, or the Exit handler
  caller                 \* the command threads

fileVars  == <<queued, inFlight, processQueued, processInFlight>>
linkVars  == <<links, processLinks>>
printVars == <<print, printInvalidated>>
openVars  == <<invalidated, openingInFlight>>
closeVars == <<closing, tombstones>>
barrierVars == <<barrier, nextBarrier>>
fenceVars == <<fences, fenceAll>>
lifeVars  == <<window, quit>>
workVars  == <<queued, inFlight, processQueued, processInFlight, links, processLinks,
               print, printInvalidated, asm>>
vars == <<stage, owner, teardown, cleanupPending, caller, openVars, workVars, closeVars,
          barrierVars, fenceVars, lifeVars>>

Live    == {s \in Session : stage[s] = "live"}
Opening == {s \in Session : stage[s] = "opening"}
Channel == {s \in Session : stage[s] = "cleanup"}
Cleanup == {s \in Session : stage[s] \in {"cleanup", "disposing"}}

\* The condition under which a session's handle has no user left.
Drained(s) ==
  /\ queued[s] = 0 /\ inFlight[s] = 0
  /\ links[s] = 0
  /\ print[s] = "none"
  /\ ~AssemblyWork(s)

AnySession == CHOOSE s \in Session : TRUE
AnyOwner   == CHOOSE o \in Owner : TRUE
IdleCaller == [pc |-> "idle", s |-> AnySession, b |-> 0]

Init ==
  /\ stage = [s \in Session |-> "unused"]
  /\ owner = [s \in Session |-> AnyOwner]
  /\ teardown = [s \in Session |-> "Active"]
  /\ invalidated = [s \in Session |-> FALSE]
  /\ queued = [s \in Session |-> 0] /\ inFlight = [s \in Session |-> 0]
  /\ links = [s \in Session |-> 0]
  /\ print = [s \in Session |-> "none"]
  /\ printInvalidated = [s \in Session |-> FALSE]
  /\ asm = [s \in Session |-> "absent"]
  /\ barrier = [s \in Session |-> 0]
  /\ closing = {} /\ tombstones = <<>>
  /\ processQueued = 0 /\ processInFlight = 0 /\ processLinks = 0
  /\ openingInFlight = 0 /\ cleanupPending = 0
  /\ nextBarrier = 1
  /\ fences = <<>> /\ fenceAll = FALSE
  /\ window = [o \in Owner |-> "open"]
  /\ quit = "no"
  /\ caller = [c \in Caller |-> IdleCaller]

-----------------------------------------------------------------------------
(***************************************************************************)
(* Hand-over to the cleanup worker.  try_send accepts as many of the       *)
(* sessions R as the channel has room for; the loop stops at the first one *)
(* it refuses, which stays an entry.                                       *)
(***************************************************************************)
Accepted(R) ==
  {A \in SUBSET R :
     /\ Cardinality(Channel) + Cardinality(A) <= MaxSessions
     /\ A # R => Cardinality(Channel) + Cardinality(A) = MaxSessions}

Enqueue(A) ==
  /\ stage' = [s \in Session |-> IF s \in A THEN "cleanup" ELSE stage[s]]
  /\ cleanupPending' = cleanupPending + Cardinality(A)

\* Mutant: the reap forgets print leases.
IdleDeferredIgnoringPrint(s) ==
  /\ teardown[s] = "LifecycleDeferred"
  /\ queued[s] = 0 /\ inFlight[s] = 0 /\ links[s] = 0 /\ ~AssemblyWork(s)

\* A session lifecycle teardown may dispose: it was deferred and has no user left.
IdleDeferred(s) == teardown[s] = "LifecycleDeferred" /\ Drained(s)

\* queue_deferred_drained_session, at the end of a step that may have ended the
\* last work of a session of S.
Reap(S) == \E A \in Accepted({s \in S \cap Live : IdleDeferred(s)'}) : Enqueue(A)

-----------------------------------------------------------------------------
(***************************************************************************)
(* Opening.  A command of a window runs while the window exists; the       *)
(* commands that were already running when it was destroyed may still run  *)
(* afterwards when LateCommands.  A label is claimed again, with the next  *)
(* generation, only after its previous window was destroyed.               *)
(***************************************************************************)
Claimed(o) == \A g \in 1..(o.gen - 1) : window[[label |-> o.label, gen |-> g]] = "destroyed"

CommandMayRun(o) ==
  /\ Claimed(o)
  /\ window[o] # "open" => LateCommands

Fenced(o) ==
  \/ fenceAll
  \/ \E i \in DOMAIN fences : fences[i].label = o.label /\ o.gen <= fences[i].gen

AdmitOpen(s, o) ==
  /\ stage[s] = "unused"
  /\ CommandMayRun(o)
  /\ ~Fenced(o)
  /\ Cardinality(Live) < MaxSessions
  /\ openingInFlight < MaxOpening
  /\ Cardinality(Live) + openingInFlight + cleanupPending < MaxSessions
  /\ stage' = [stage EXCEPT ![s] = "opening"]
  /\ owner' = [owner EXCEPT ![s] = o]
  /\ openingInFlight' = openingInFlight + 1
  /\ UNCHANGED <<teardown, cleanupPending, caller, invalidated, workVars, closeVars,
                 barrierVars, fenceVars, lifeVars>>

\* The path, the handle or the header is refused, or the open is found
\* invalidated when it publishes: the admission is dropped.
DropOpen(s) ==
  /\ stage[s] = "opening"
  /\ stage' = [stage EXCEPT ![s] = "unused"]
  /\ owner' = [owner EXCEPT ![s] = AnyOwner]
  /\ invalidated' = [invalidated EXCEPT ![s] = FALSE]
  /\ openingInFlight' = openingInFlight - 1
  /\ UNCHANGED <<teardown, cleanupPending, caller, workVars, closeVars, barrierVars,
                 fenceVars, lifeVars>>

\* Mutant: the publication keeps its admission.
PublishOpenStillAdmitted(s) ==
  /\ stage[s] = "opening" /\ ~invalidated[s] /\ ~Fenced(owner[s])
  /\ stage' = [stage EXCEPT ![s] = "live"]
  /\ UNCHANGED <<owner, teardown, cleanupPending, caller, openVars, workVars, closeVars,
                 barrierVars, fenceVars, lifeVars>>

PublishOpen(s) ==
  /\ stage[s] = "opening"
  /\ ~invalidated[s] /\ ~Fenced(owner[s])
  /\ Cardinality(Live) < MaxSessions
  /\ stage' = [stage EXCEPT ![s] = "live"]
  /\ openingInFlight' = openingInFlight - 1
  /\ UNCHANGED <<owner, teardown, cleanupPending, caller, invalidated, workVars, closeVars,
                 barrierVars, fenceVars, lifeVars>>

-----------------------------------------------------------------------------
(***************************************************************************)
(* File work: the counters of FileShadow, on the sessions of the table.    *)
(***************************************************************************)
Active(s) == stage[s] = "live" /\ teardown[s] = "Active"

INSTANCE FileShadow WITH admitting <- {s \in Session : Active(s)}, known <- Live

EnqueueFile(s) ==
  /\ QueueJob(s)
  /\ UNCHANGED <<stage, owner, teardown, cleanupPending, caller, openVars, linkVars, printVars,
                 asm, closeVars, barrierVars, fenceVars, lifeVars>>

SelectFile(s) ==
  /\ SelectJob(s)
  /\ UNCHANGED <<stage, owner, teardown, cleanupPending, caller, openVars, linkVars, printVars,
                 asm, closeVars, barrierVars, fenceVars, lifeVars>>

\* Mutant: the token of a selected job does not reap its session.
FinishSelectedWithoutReap(s) ==
  /\ SettleSelected(s)
  /\ UNCHANGED <<stage, owner, teardown, cleanupPending, caller, openVars, linkVars, printVars,
                 asm, closeVars, barrierVars, fenceVars, lifeVars>>

\* The token of a selected job is dropped.
FinishSelected(s) ==
  /\ SettleSelected(s)
  /\ UNCHANGED <<owner, teardown, caller, openVars, linkVars, printVars, asm, closeVars,
                 barrierVars, fenceVars, lifeVars>>
  /\ Reap({s})

\* Mutant: only the session's counter is given back.
FinishRevokedKeepsProcess(s) ==
  /\ stage[s] = "live" /\ teardown[s] # "Active"
  /\ queued[s] > 0
  /\ queued' = [queued EXCEPT ![s] = @ - 1]
  /\ UNCHANGED <<owner, teardown, caller, openVars, inFlight, processQueued, processInFlight,
                 linkVars, printVars, asm, closeVars, barrierVars, fenceVars, lifeVars>>
  /\ Reap({s})

\* Mutant: the token of a revoked job does not reap its session.
FinishRevokedWithoutReap(s) ==
  /\ SettleRevoked(s)
  /\ UNCHANGED <<stage, owner, teardown, cleanupPending, caller, openVars, linkVars, printVars,
                 asm, closeVars, barrierVars, fenceVars, lifeVars>>

\* The token of a revoked job is dropped.
FinishRevoked(s) ==
  /\ SettleRevoked(s)
  /\ UNCHANGED <<owner, teardown, caller, openVars, linkVars, printVars, asm, closeVars,
                 barrierVars, fenceVars, lifeVars>>
  /\ Reap({s})

-----------------------------------------------------------------------------
\* Mutant: a replaced renderer may still start a print.
AcquirePrintUnchecked(s) ==
  /\ Active(s) /\ print[s] = "none"
  /\ print' = [print EXCEPT ![s] = "held"]
  /\ UNCHANGED <<stage, owner, teardown, cleanupPending, caller, openVars, fileVars, linkVars,
                 printInvalidated, asm, closeVars, barrierVars, fenceVars, lifeVars>>

(***************************************************************************)
(* Print leases and external-link launches.                                *)
(***************************************************************************)
AcquirePrint(s) ==
  /\ Active(s)
  /\ ~printInvalidated[s] /\ print[s] = "none"
  /\ print' = [print EXCEPT ![s] = "held"]
  /\ UNCHANGED <<stage, owner, teardown, cleanupPending, caller, openVars, fileVars, linkVars,
                 printInvalidated, asm, closeVars, barrierVars, fenceVars, lifeVars>>

DropPrint(s) ==
  /\ stage[s] = "live" /\ print[s] # "none"
  /\ print' = [print EXCEPT ![s] = "none"]
  /\ UNCHANGED <<owner, teardown, caller, openVars, fileVars, linkVars, printInvalidated, asm,
                 closeVars, barrierVars, fenceVars, lifeVars>>
  /\ Reap({s})

\* The print leases of S with their cancellation flag set.
Flagged(S) == [s \in Session |-> IF s \in S /\ print[s] = "held" THEN "cancelled" ELSE print[s]]

Labelled(l) == {s \in Live : owner[s].label = l}

InvalidatePrint(l) ==
  /\ printInvalidated' = [s \in Session |-> printInvalidated[s] \/ s \in Labelled(l)]
  /\ print' = Flagged(Labelled(l))
  /\ UNCHANGED <<stage, owner, teardown, cleanupPending, caller, openVars, fileVars, linkVars,
                 asm, closeVars, barrierVars, fenceVars>>

\* A page load that replaces the renderer, or a close request.
InvalidatePrintOwner(o) ==
  /\ window[o] = "open" /\ Labelled(o.label) # {}
  /\ InvalidatePrint(o.label)
  /\ UNCHANGED lifeVars

AdmitLink(s) ==
  /\ Active(s)
  /\ links[s] < MaxSessionLinks /\ processLinks < MaxProcessLinks
  /\ links' = [links EXCEPT ![s] = @ + 1]
  /\ processLinks' = processLinks + 1
  /\ UNCHANGED <<stage, owner, teardown, cleanupPending, caller, openVars, fileVars, printVars,
                 asm, closeVars, barrierVars, fenceVars, lifeVars>>

SettleLink(s) ==
  /\ stage[s] = "live" /\ links[s] > 0
  /\ links' = [links EXCEPT ![s] = @ - 1]
  /\ processLinks' = processLinks - 1
  /\ UNCHANGED <<owner, teardown, caller, openVars, fileVars, printVars, asm, closeVars,
                 barrierVars, fenceVars, lifeVars>>
  /\ Reap({s})

-----------------------------------------------------------------------------
(* Assembly leases.                                                        *)

\* A renderer names only a session it was told of: one that was an entry when
\* its window's Destroyed handler invalidated the print leases, if it did.
RequestAssembly(s) ==
  /\ Active(s)
  /\ window[owner[s]] # "open" => LateCommands /\ printInvalidated[s]
  /\ RequestDocument(s)
  /\ UNCHANGED <<stage, owner, teardown, cleanupPending, caller, openVars, fileVars, linkVars,
                 printVars, closeVars, barrierVars, fenceVars, lifeVars>>

\* The renderer withdraws its waiting request.
CancelRequest(s) ==
  /\ stage[s] = "live"
  /\ WithdrawRequest(s)
  /\ UNCHANGED <<owner, teardown, caller, openVars, fileVars, linkVars, printVars, closeVars,
                 barrierVars, fenceVars, lifeVars>>
  /\ Reap({s})

ReleaseAssembly(s) ==
  /\ stage[s] = "live"
  /\ ReleaseDocument(s)
  /\ UNCHANGED <<owner, teardown, caller, openVars, fileVars, linkVars, printVars, closeVars,
                 barrierVars, fenceVars, lifeVars>>
  /\ Reap({s})

FinishAssemblies(s) ==
  /\ stage[s] = "live"
  /\ FinishDocument(s)
  /\ UNCHANGED <<owner, teardown, caller, openVars, fileVars, linkVars, printVars, closeVars,
                 barrierVars, fenceVars, lifeVars>>
  /\ Reap({s})

-----------------------------------------------------------------------------
(***************************************************************************)
(* The cancel command: mark the session, cancel its assembly, pump the     *)
(* dispatcher, wait for the work to drain, wait for the launches with a    *)
(* deadline, and hand out the session's barrier.                           *)
(***************************************************************************)
Goto(c, pc) == caller' = [caller EXCEPT ![c].pc = pc]
Return(c)   == caller' = [caller EXCEPT ![c] = IdleCaller]

CancelBegin(c, s) ==
  /\ caller[c].pc = "idle"
  /\ stage[s] = "live" /\ teardown[s] # "LifecycleDeferred"
  /\ teardown' = [teardown EXCEPT ![s] = "CommandCancelling"]
  /\ print' = Flagged({s})
  /\ caller' = [caller EXCEPT ![c] = [pc |-> "cancelAssembly", s |-> s, b |-> barrier[s]]]
  /\ UNCHANGED <<stage, owner, cleanupPending, openVars, fileVars, linkVars, printInvalidated,
                 asm, closeVars, barrierVars, fenceVars, lifeVars>>

CancelAssembly(c) ==
  LET s == caller[c].s
  IN /\ caller[c].pc = "cancelAssembly"
     /\ IF stage[s] = "live" THEN CancelDocument(s) ELSE asm' = asm
     /\ Goto(c, "draining")
     /\ UNCHANGED <<owner, teardown, openVars, fileVars, linkVars, printVars, closeVars,
                    barrierVars, fenceVars, lifeVars>>
     /\ Reap({s})

\* What cancel does once nothing is left to wait for: the barrier the session
\* already has, or a new one.
TakeBarrier(s) ==
  IF teardown[s] = "CommandCancelling" /\ barrier[s] = 0
  THEN /\ barrier' = [barrier EXCEPT ![s] = nextBarrier]
       /\ nextBarrier' = nextBarrier + 1
  ELSE UNCHANGED barrierVars

\* Mutant: cancel does not wait for assembly leases.
FileDrainedIgnoringAssembly(s) == queued[s] = 0 /\ inFlight[s] = 0 /\ print[s] = "none"

FileDrained(s) ==
  /\ queued[s] = 0 /\ inFlight[s] = 0 /\ print[s] = "none" /\ ~AssemblyWork(s)

\* A barrier read in the first section is returned at once; an entry that is
\* gone is SessionNotFound.
CancelReturnEarly(c) ==
  /\ caller[c].pc \in {"draining", "linkWait"}
  /\ \/ caller[c].pc = "draining" /\ caller[c].b # 0
     \/ stage[caller[c].s] # "live"
  /\ Return(c)
  /\ UNCHANGED <<stage, owner, teardown, cleanupPending, openVars, workVars, closeVars,
                 barrierVars, fenceVars, lifeVars>>

CancelDrained(c) ==
  LET s == caller[c].s
  IN /\ caller[c].pc = "draining" /\ caller[c].b = 0
     /\ stage[s] = "live" /\ FileDrained(s)
     /\ IF links[s] = 0 THEN TakeBarrier(s) /\ Return(c)
                        ELSE Goto(c, "linkWait") /\ UNCHANGED barrierVars
     /\ UNCHANGED <<stage, owner, teardown, cleanupPending, openVars, workVars, closeVars,
                    fenceVars, lifeVars>>

CancelLinksSettled(c) ==
  LET s == caller[c].s
  IN /\ caller[c].pc = "linkWait"
     /\ stage[s] = "live" /\ links[s] = 0
     /\ TakeBarrier(s) /\ Return(c)
     /\ UNCHANGED <<stage, owner, teardown, cleanupPending, openVars, workVars, closeVars,
                    fenceVars, lifeVars>>

\* ExternalLinkDrainTimeout: the renderer's command returns the error, the open
\* coordinator's one (pc "timedOut") defers the session.
CancelTimeout(c) ==
  /\ caller[c].pc = "linkWait"
  /\ stage[caller[c].s] = "live" /\ links[caller[c].s] # 0
  /\ Return(c) \/ Goto(c, "timedOut")
  /\ UNCHANGED <<stage, owner, teardown, cleanupPending, openVars, workVars, closeVars,
                 barrierVars, fenceVars, lifeVars>>

DeferCommandCancellation(c) ==
  LET s == caller[c].s
  IN /\ caller[c].pc = "timedOut"
     /\ teardown' = IF stage[s] = "live" /\ teardown[s] = "CommandCancelling"
                    THEN [teardown EXCEPT ![s] = "LifecycleDeferred"] ELSE teardown
     /\ Return(c)
     /\ UNCHANGED <<owner, openVars, workVars, closeVars, barrierVars, fenceVars, lifeVars>>
     /\ Reap({s})

\* The open coordinator looks at a deferred session again.
ReapDeferredCancellation(s) ==
  /\ stage[s] = "live" /\ IdleDeferred(s)
  /\ UNCHANGED <<owner, teardown, caller, openVars, workVars, closeVars, barrierVars,
                 fenceVars, lifeVars>>
  /\ Reap({s})

-----------------------------------------------------------------------------
(***************************************************************************)
(* The close command, with the barrier of the session (a wrong one is an   *)
(* error): the entry goes to the cleanup worker and the command waits for  *)
(* the tombstone, with a deadline.                                         *)
(***************************************************************************)
Closed(s) == \E i \in DOMAIN tombstones : tombstones[i] = s

CloseBegin(c, s) ==
  /\ caller[c].pc = "idle"
  /\ stage[s] = "live" /\ teardown[s] = "CommandCancelling"
  /\ Drained(s)
  /\ barrier[s] # 0
  /\ \E A \in Accepted({s}) :
       /\ Enqueue(A)
       /\ closing' = closing \cup A
       /\ caller' = IF s \in A
                    THEN [caller EXCEPT ![c] = [pc |-> "closing", s |-> s, b |-> barrier[s]]]
                    ELSE caller
  /\ UNCHANGED <<owner, teardown, openVars, workVars, tombstones, barrierVars, fenceVars,
                 lifeVars>>

\* A repeated close of a session that is gone: its tombstone answers.
CloseAgain(c, s) ==
  /\ caller[c].pc = "idle"
  /\ stage[s] # "live" /\ s \notin closing /\ Closed(s)
  /\ caller' = [caller EXCEPT ![c] = [pc |-> "closed", s |-> s, b |-> barrier[s]]]
  /\ UNCHANGED <<stage, owner, teardown, cleanupPending, openVars, workVars, closeVars,
                 barrierVars, fenceVars, lifeVars>>

\* Mutant: the close reports success as soon as the entry is gone.
CloseSettledEarly(c) ==
  /\ caller[c].pc = "closing" /\ stage[caller[c].s] # "live"
  /\ Goto(c, "closed")
  /\ UNCHANGED <<stage, owner, teardown, cleanupPending, openVars, workVars, closeVars,
                 barrierVars, fenceVars, lifeVars>>

\* Without a tombstone (evicted before the waiter looked) it is SessionNotFound.
CloseSettled(c) ==
  /\ caller[c].pc = "closing" /\ caller[c].s \notin closing
  /\ IF Closed(caller[c].s) THEN Goto(c, "closed") ELSE Return(c)
  /\ UNCHANGED <<stage, owner, teardown, cleanupPending, openVars, workVars, closeVars,
                 barrierVars, fenceVars, lifeVars>>

CloseTimeout(c) ==
  /\ caller[c].pc = "closing" /\ caller[c].s \in closing
  /\ Return(c)
  /\ UNCHANGED <<stage, owner, teardown, cleanupPending, openVars, workVars, closeVars,
                 barrierVars, fenceVars, lifeVars>>

\* The renderer receives the success.
CloseReturn(c) ==
  /\ caller[c].pc = "closed"
  /\ Return(c)
  /\ UNCHANGED <<stage, owner, teardown, cleanupPending, openVars, workVars, closeVars,
                 barrierVars, fenceVars, lifeVars>>

-----------------------------------------------------------------------------
(***************************************************************************)
(* The cleanup worker.  The task of a close carries the tombstone; a       *)
(* lifecycle task leaves none.                                             *)
(***************************************************************************)
WorkerTake(s) ==
  /\ stage[s] = "cleanup"
  /\ \A s2 \in Session : stage[s2] # "disposing"
  /\ stage' = [stage EXCEPT ![s] = "disposing"]
  /\ UNCHANGED <<owner, teardown, cleanupPending, caller, openVars, workVars, closeVars,
                 barrierVars, fenceVars, lifeVars>>

LastTombstones(ts) ==
  IF Len(ts) <= MaxTombstones THEN ts ELSE SubSeq(ts, Len(ts) - MaxTombstones + 1, Len(ts))

WorkerFinish(s) ==
  /\ stage[s] = "disposing"
  /\ stage' = [stage EXCEPT ![s] = "disposed"]
  /\ cleanupPending' = cleanupPending - 1
  /\ closing' = closing \ {s}
  /\ tombstones' = IF s \in closing THEN LastTombstones(Append(tombstones, s)) ELSE tombstones
  /\ UNCHANGED <<owner, teardown, caller, openVars, workVars, barrierVars, fenceVars, lifeVars>>

-----------------------------------------------------------------------------
(***************************************************************************)
(* Lifecycle teardown.  defer_matching fences the owners, invalidates the  *)
(* opens in flight, defers every matching session and disposes the idle    *)
(* ones, in one section; then it cancels the assembly of each session, a   *)
(* section per session.                                                    *)
(***************************************************************************)
RaisedFences(o) ==
  IF \E i \in DOMAIN fences : fences[i].label = o.label
  THEN [i \in DOMAIN fences |->
          IF fences[i].label = o.label /\ fences[i].gen < o.gen THEN o ELSE fences[i]]
  ELSE LET fs == Append(fences, o)
       IN IF Len(fs) <= MaxOwnerFences THEN fs ELSE Tail(fs)

\* Mutant: the opens in flight are left alone.
DeferMatchingSparesOpens(S, O) ==
  /\ print' = Flagged(S)
  /\ teardown' = [s \in Session |-> IF s \in S THEN "LifecycleDeferred" ELSE teardown[s]]
  /\ UNCHANGED <<owner, caller, openVars, fileVars, linkVars, printInvalidated, closeVars,
                 barrierVars>>

\* The sessions matched are S, the opens matched are O.
DeferMatching(S, O) ==
  /\ invalidated' = [s \in Session |-> invalidated[s] \/ s \in O]
  /\ print' = Flagged(S)
  /\ teardown' = [s \in Session |-> IF s \in S THEN "LifecycleDeferred" ELSE teardown[s]]
  /\ UNCHANGED <<owner, caller, openingInFlight, fileVars, linkVars, printInvalidated, closeVars,
                 barrierVars>>

Owned(S, o) == {s \in S : owner[s] = o}

\* The five-second close timeout, or the quit of a window that is still there.
DeferOwned(o) ==
  /\ window[o] = "open" /\ Claimed(o)
  /\ fences' = RaisedFences(o)
  /\ DeferMatching(Owned(Live, o), Owned(Opening, o))
  /\ UNCHANGED <<asm, fenceAll, lifeVars>>
  /\ Reap(Owned(Live, o))

LifecycleCancelAssembly(s) ==
  /\ stage[s] = "live" /\ teardown[s] = "LifecycleDeferred"
  /\ asm[s] # Cancelled(asm[s])
  /\ CancelDocument(s)
  /\ UNCHANGED <<owner, teardown, caller, openVars, fileVars, linkVars, printVars, closeVars,
                 barrierVars, fenceVars, lifeVars>>
  /\ Reap({s})

\* The Destroyed event of a window: the handler invalidates its print leases,
\* discards its documents, and defers its sessions.
DestroyBegin(o) ==
  /\ window[o] = "open" /\ Claimed(o)
  /\ window' = [window EXCEPT ![o] = "destroying"]
  /\ InvalidatePrint(o.label)
  /\ UNCHANGED quit

\* Mutant: only the waiting requests of a destroyed window are discarded.
DestroyDiscardWaiting(o) ==
  /\ window[o] = "destroying"
  /\ window' = [window EXCEPT ![o] = "discarded"]
  /\ asm' = [s \in Session |-> IF owner[s] = o THEN Cancelled(asm[s]) ELSE asm[s]]
  /\ UNCHANGED <<stage, owner, teardown, cleanupPending, caller, openVars, fileVars, linkVars,
                 printVars, closeVars, barrierVars, fenceVars, quit>>

DestroyDiscard(o) ==
  /\ window[o] = "destroying"
  /\ window' = [window EXCEPT ![o] = "discarded"]
  /\ DiscardDocuments(Owned(Session, o))
  /\ UNCHANGED <<stage, owner, teardown, cleanupPending, caller, openVars, fileVars, linkVars,
                 printVars, closeVars, barrierVars, fenceVars, quit>>

DestroyDefer(o) ==
  /\ window[o] = "discarded"
  /\ window' = [window EXCEPT ![o] = "destroyed"]
  /\ fences' = RaisedFences(o)
  /\ DeferMatching(Owned(Live, o), Owned(Opening, o))
  /\ UNCHANGED <<asm, fenceAll, quit>>
  /\ Reap(Owned(Live, o))

\* defer_all, by the quit thread that goes on to drain or by the Exit event.
DeferAll ==
  /\ quit = "no"
  /\ quit' \in {"draining", "exiting"}
  /\ fenceAll' = TRUE
  /\ DeferMatching(Live, Opening)
  /\ UNCHANGED <<asm, fences, window>>
  /\ Reap(Live)

\* One round of drain_all that finds an idle session.
QuitScheduleIdle ==
  /\ quit = "draining"
  /\ \E s \in Live : IdleDeferred(s)
  /\ UNCHANGED <<owner, teardown, caller, openVars, workVars, closeVars, barrierVars, fenceVars,
                 lifeVars>>
  /\ Reap(Live)

\* Mutant: the drain does not wait for the cleanup worker.
QuitWorkIgnoringCleanup ==
  Opening # {} \/ \E s \in Live : teardown[s] = "LifecycleDeferred"

QuitWork == Opening # {} \/ Cleanup # {} \/ \E s \in Live : teardown[s] = "LifecycleDeferred"

QuitDrained ==
  /\ quit = "draining" /\ ~QuitWork
  /\ quit' = "drained"
  /\ UNCHANGED <<stage, owner, teardown, cleanupPending, caller, openVars, workVars, closeVars,
                 barrierVars, fenceVars, window>>

QuitTimeout ==
  /\ quit = "draining" /\ QuitWork
  /\ quit' = "timedOut"
  /\ UNCHANGED <<stage, owner, teardown, cleanupPending, caller, openVars, workVars, closeVars,
                 barrierVars, fenceVars, window>>

-----------------------------------------------------------------------------
SessionNext(s) ==
  \/ \E o \in Owner : AdmitOpen(s, o)
  \/ DropOpen(s) \/ PublishOpen(s)
  \/ EnqueueFile(s) \/ SelectFile(s) \/ FinishSelected(s) \/ FinishRevoked(s)
  \/ AcquirePrint(s) \/ DropPrint(s) \/ AdmitLink(s) \/ SettleLink(s)
  \/ RequestAssembly(s) \/ CancelRequest(s) \/ ReleaseAssembly(s) \/ FinishAssemblies(s)
  \/ ReapDeferredCancellation(s) \/ LifecycleCancelAssembly(s)
  \/ WorkerTake(s) \/ WorkerFinish(s)

CallerNext(c) ==
  \/ \E s \in Session : CancelBegin(c, s) \/ CloseBegin(c, s) \/ CloseAgain(c, s)
  \/ CancelAssembly(c) \/ CancelReturnEarly(c) \/ CancelDrained(c) \/ CancelLinksSettled(c)
  \/ CancelTimeout(c) \/ DeferCommandCancellation(c)
  \/ CloseSettled(c) \/ CloseTimeout(c) \/ CloseReturn(c)

LifecycleNext ==
  \/ \E o \in Owner : InvalidatePrintOwner(o) \/ DeferOwned(o)
                       \/ DestroyBegin(o) \/ DestroyDiscard(o) \/ DestroyDefer(o)
  \/ DeferAll \/ QuitScheduleIdle \/ QuitDrained \/ QuitTimeout

Next ==
  \/ \E s \in Session : SessionNext(s)
  \/ \E c \in Caller : CallerNext(c)
  \/ LifecycleNext

Spec == Init /\ [][Next]_vars

(***************************************************************************)
(* What runs by itself: a spawned file job and a revoked one drop their    *)
(* token, a cancelled print job and a launch end, the worker thread loops, *)
(* the event thread finishes a Destroyed handler, and a lifecycle thread   *)
(* cancels the assemblies it listed.  Nothing is assumed of a renderer.    *)
(***************************************************************************)
Fairness ==
  /\ \A s \in Session :
       /\ WF_vars(FinishSelected(s)) /\ WF_vars(FinishRevoked(s))
       /\ WF_vars(print[s] = "cancelled" /\ DropPrint(s))
       /\ WF_vars(SettleLink(s))
       /\ WF_vars(LifecycleCancelAssembly(s))
       /\ WF_vars(WorkerTake(s)) /\ WF_vars(WorkerFinish(s))
  /\ \A o \in Owner : WF_vars(DestroyDiscard(o)) /\ WF_vars(DestroyDefer(o))
  /\ \A c \in Caller :
       /\ WF_vars(CloseSettled(c))
       /\ WF_vars(CancelAssembly(c)) /\ WF_vars(CancelReturnEarly(c))
       /\ WF_vars(CancelDrained(c)) /\ WF_vars(CancelLinksSettled(c))
       /\ WF_vars(DeferCommandCancellation(c))

FairSpec == Spec /\ Fairness

-----------------------------------------------------------------------------
\* The units of work the sessions of L hold by a per-session counter f.
Units(f, L, bound) == {u \in L \X (1..bound) : u[2] <= f[u[1]]}

(***************************************************************************)
(* Every field of the manager is in the range its type allows.             *)
(***************************************************************************)
TypeOK ==
  /\ stage \in [Session -> Stage]
  /\ owner \in [Session -> Owner]
  /\ teardown \in [Session -> Teardown]
  /\ invalidated \in [Session -> BOOLEAN]
  /\ queued \in [Session -> 0..MaxSessionQueue]
  /\ inFlight \in [Session -> 0..MaxSessionInFlight]
  /\ links \in [Session -> 0..MaxSessionLinks]
  /\ print \in [Session -> {"none", "held", "cancelled"}]
  /\ printInvalidated \in [Session -> BOOLEAN]
  /\ asm \in [Session -> Document]
  /\ barrier \in [Session -> Nat]
  /\ closing \subseteq Session
  /\ tombstones \in Seq(Session)
  /\ processQueued \in Nat /\ processInFlight \in Nat /\ processLinks \in Nat
  /\ openingInFlight \in Nat /\ cleanupPending \in Nat
  /\ nextBarrier \in Nat \ {0}
  /\ fences \in Seq(Owner) /\ fenceAll \in BOOLEAN
  /\ window \in [Owner -> Window]
  /\ quit \in {"no", "draining", "exiting", "drained", "timedOut"}
  /\ caller \in [Caller -> [pc : CallerPC, s : Session, b : Nat]]

\* Admissions in flight, entries and handles not yet disposed together never
\* exceed MAX_SESSIONS, whatever the interleaving of opens, publications, closes
\* and the cleanup worker: no file handle is held beyond the quota.
Occupied == {s \in Session : stage[s] \in {"opening", "live", "cleanup", "disposing"}}
HandleQuota ==
  /\ openingInFlight = Cardinality(Opening)
  /\ cleanupPending = Cardinality(Cleanup)
  /\ Cardinality(Occupied) <= MaxSessions

\* The cleanup channel has room for every live session, so try_send never
\* refuses one: no session is put back as an entry after its close began.
CleanupAlwaysAccepted == Cardinality(Channel \cup Live) <= MaxSessions

\* The process-wide counters count the work of the sessions in the table: none of
\* them left it with work whose completion will still be subtracted (checked_sub
\* would panic under the lock).
CountersAgree ==
  /\ processQueued = Cardinality(Units(queued, Live, MaxSessionQueue))
  /\ processInFlight = Cardinality(Units(inFlight, Live, MaxSessionInFlight))
  /\ processLinks = Cardinality(Units(links, Live, MaxSessionLinks))

\* A session leaves the table only when no job, launch, print or assembly uses its
\* handle, and outside the table nothing does.
CleanupIsDrained == \A s \in Session \ Live : Drained(s)

\* Once a session has a barrier it has no work, and will not get any: the promise
\* cancel makes to the close that presents the barrier.
BarrierMeansDrained ==
  \A s \in Live : barrier[s] # 0 => Drained(s) /\ teardown[s] # "Active"

\* A print lease whose cancellation flag is still clear belongs to a session that
\* is active and whose renderer has not been replaced: a print job never goes on
\* sending pages after its session began to close or its renderer went away.
LiveLeaseIsWanted ==
  \A s \in Live : print[s] = "held" => teardown[s] = "Active" /\ ~printInvalidated[s]

\* A successful close means that the handle was physically disposed.
ClosedMeansDisposed ==
  /\ \A c \in Caller : caller[c].pc = "closed" => stage[caller[c].s] = "disposed"
  /\ \A i \in DOMAIN tombstones : stage[tombstones[i]] = "disposed"

\* A deferred session without work is not left in the table, except between the
\* two sections of its window's Destroyed handler: somebody always reaps it.
NoForgottenSession ==
  \A s \in Live : IdleDeferred(s) => window[owner[s]] = "discarded"

\* After a window's Destroyed handler an open of that window cannot publish, and
\* its sessions belong to lifecycle teardown.
DestroyedOwnerIsFenced ==
  \A s \in Session : window[owner[s]] = "destroyed" =>
    /\ stage[s] = "opening" => invalidated[s]
    /\ stage[s] = "live" => teardown[s] = "LifecycleDeferred"

\* When drain_all ends without a timeout the manager is empty, the whole of what
\* assert_empty asks, and stays so: the quit is recorded as a success only then.
QuitDrainedIsEmpty ==
  quit = "drained" =>
    /\ Occupied = {} /\ closing = {}
    /\ processQueued = 0 /\ processInFlight = 0 /\ processLinks = 0
    /\ openingInFlight = 0 /\ cleanupPending = 0

\* What is reported as drained, closed or ended by a quit is so: no answer runs
\* ahead of what the other threads still have to do.
ReportsAreTrue == BarrierMeansDrained /\ ClosedMeansDisposed /\ QuitDrainedIsEmpty

\* Work goes on only for a renderer that is there and wants it.
OwnersAreRespected == LiveLeaseIsWanted /\ DestroyedOwnerIsFenced

\* After a window is destroyed, each of its sessions is eventually disposed.
DestroyedIsDisposed ==
  \A s \in Session : \A o \in Owner :
    stage[s] = "live" /\ owner[s] = o /\ window[o] # "open" ~> stage[s] # "live"

\* A close command that handed its session over eventually returns.  A cancel
\* command has no deadline for file, print and assembly work, but it does not
\* outlive its window: destruction releases what only the renderer could.
CommandsReturn ==
  \A c \in Caller :
    /\ caller[c].pc = "closing" ~> caller[c].pc # "closing"
    /\ caller[c].pc \in {"cancelAssembly", "draining", "linkWait", "timedOut"}
         /\ window[owner[caller[c].s]] # "open" ~> caller[c].pc = "idle"
=============================================================================
