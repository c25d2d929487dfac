---------------------------- MODULE FileDispatch ----------------------------
(***************************************************************************)
(* The file dispatcher: one queue of jobs per session, a rotation of the   *)
(* sessions that have one, and the pump that every enqueue, every teardown *)
(* and every dropped completion token runs on its own thread.              *)
(*                                                                         *)
(* An action is one section under the `sessions` mutex.  Between the       *)
(* sections of a pump other threads run, and the pump nests: the token of  *)
(* a revoked job is dropped inside a pump and pumps again.  A thread is    *)
(* therefore a stack of pumps, each with what its last round found.        *)
(***************************************************************************)
EXTENDS Integers, Sequences, FiniteSets, SequencesExt, Subsequences

CONSTANTS
  Session,               \* entries of the session table
  Client,                \* threads of range requests, cancels and teardowns
  Job,                   \* bound: ids of the reservations that exist at a time
  None,                  \* no job
  MaxOpens,              \* bound: sessions opened after the first ones
  MaxSessionQueue,       \* MAX_SESSION_QUEUE
  MaxSessionInFlight,    \* MAX_SESSION_IN_FLIGHT
  MaxProcessQueue,       \* MAX_PROCESS_QUEUE
  MaxProcessInFlight     \* MAX_PROCESS_IN_FLIGHT

ASSUME DispatchAssumption ==
  /\ IsFiniteSet(Session) /\ IsFiniteSet(Job) /\ None \notin Job
  /\ Client \cap Job = {}
  /\ MaxOpens \in Nat
  /\ MaxSessionQueue \in Nat /\ MaxSessionInFlight \in Nat
  /\ MaxProcessQueue \in Nat /\ MaxProcessInFlight \in Nat

\* A selected job runs and completes on a blocking thread of its own, named after it.
Thread == Client \cup Job

VARIABLES
  table,           \* a session of the table is "active" or "closing", others "gone"
  queues, order,
  jobs,            \* jobs waiting in a queue
  reservations,    \* reservation -> its session and phase
  selectedFiles,   \* sessions whose handle a selected job uses
  queuedTotal, selectedTotal,      \* DispatcherState.queued, selected
  queued, inFlight, processQueued, processInFlight,     \* the manager's counters
  running,         \* jobs spawned, whose token is not dropped
  stack,           \* the pumps of a thread, the innermost first
  opens            \* sessions opened since the beginning

dispatchVars == <<queues, order, jobs, reservations, selectedFiles, queuedTotal, selectedTotal>>
counters == <<queued, inFlight, processQueued, processInFlight>>
vars == <<table, dispatchVars, counters, running, stack, opens>>

Of(s, phase) == {j \in DOMAIN reservations : reservations[j] = [of |-> s, phase |-> phase]}

\* A pump that begins or begins another round.
NewPump == [revoked |-> {}, chosen |-> None]

Init ==
  /\ table = [s \in Session |-> "active"]
  /\ queues = [s \in Session |-> <<>>] /\ order = <<>>
  /\ jobs = {} /\ reservations = <<>> /\ selectedFiles = {}
  /\ queuedTotal = 0 /\ selectedTotal = 0
  /\ queued = [s \in Session |-> 0] /\ inFlight = [s \in Session |-> 0]
  /\ processQueued = 0 /\ processInFlight = 0
  /\ running = {}
  /\ stack = [t \in Thread |-> <<>>]
  /\ opens = 0

-----------------------------------------------------------------------------
Reserve(s, j) ==
  reservations' = [k \in DOMAIN reservations \cup {j} |->
                     IF k = j THEN [of |-> s, phase |-> "Queued"] ELSE reservations[k]]

\* Mutant: the pump is left to the next completion.
EnqueueWithoutPump(c, s, j) ==
  /\ stack[c] = <<>> /\ stack[j] = <<>> /\ j \notin DOMAIN reservations
  /\ table[s] = "active"
  /\ queued[s] < MaxSessionQueue /\ processQueued < MaxProcessQueue
  /\ queuedTotal < MaxProcessQueue
  /\ queues' = [queues EXCEPT ![s] = Append(@, j)]
  /\ order' = IF queues[s] = <<>> THEN Append(order, s) ELSE order
  /\ jobs' = jobs \cup {j}
  /\ Reserve(s, j)
  /\ queuedTotal' = queuedTotal + 1
  /\ queued' = [queued EXCEPT ![s] = @ + 1] /\ processQueued' = processQueued + 1
  /\ UNCHANGED <<table, selectedFiles, selectedTotal, inFlight, processInFlight, running, stack,
                 opens>>

\* Mutant: every job puts its session into the rotation.
EnqueueAlwaysOrders(c, s, j) ==
  /\ stack[c] = <<>> /\ stack[j] = <<>> /\ j \notin DOMAIN reservations
  /\ table[s] = "active"
  /\ queued[s] < MaxSessionQueue /\ processQueued < MaxProcessQueue
  /\ queuedTotal < MaxProcessQueue
  /\ queues' = [queues EXCEPT ![s] = Append(@, j)]
  /\ order' = Append(order, s)
  /\ jobs' = jobs \cup {j}
  /\ Reserve(s, j)
  /\ queuedTotal' = queuedTotal + 1
  /\ queued' = [queued EXCEPT ![s] = @ + 1] /\ processQueued' = processQueued + 1
  /\ stack' = [stack EXCEPT ![c] = <<NewPump>>]
  /\ UNCHANGED <<table, selectedFiles, selectedTotal, inFlight, processInFlight, running, opens>>

\* A range read or an identity request: the reservation, then a pump.
Enqueue(c, s, j) ==
  /\ stack[c] = <<>> /\ stack[j] = <<>> /\ j \notin DOMAIN reservations
  /\ table[s] = "active"
  /\ queued[s] < MaxSessionQueue /\ processQueued < MaxProcessQueue
  /\ queuedTotal < MaxProcessQueue
  /\ queues' = [queues EXCEPT ![s] = Append(@, j)]
  /\ order' = IF queues[s] = <<>> THEN Append(order, s) ELSE order
  /\ jobs' = jobs \cup {j}
  /\ Reserve(s, j)
  /\ queuedTotal' = queuedTotal + 1
  /\ queued' = [queued EXCEPT ![s] = @ + 1] /\ processQueued' = processQueued + 1
  /\ stack' = [stack EXCEPT ![c] = <<NewPump>>]
  /\ UNCHANGED <<table, selectedFiles, selectedTotal, inFlight, processInFlight, running, opens>>

\* A cancel or a lifecycle teardown ends the session, then pumps.
Teardown(c, s) ==
  /\ stack[c] = <<>>
  /\ table[s] = "active"
  /\ table' = [table EXCEPT ![s] = "closing"]
  /\ stack' = [stack EXCEPT ![c] = <<NewPump>>]
  /\ UNCHANGED <<dispatchVars, counters, running, opens>>

\* The drained session leaves the table, and another one is opened.
Close(s) ==
  /\ table[s] = "closing" /\ queued[s] = 0 /\ inFlight[s] = 0
  /\ table' = [table EXCEPT ![s] = "gone"]
  /\ UNCHANGED <<dispatchVars, counters, running, stack, opens>>

Open(s) ==
  /\ table[s] = "gone"
  /\ opens < MaxOpens /\ opens' = opens + 1
  /\ table' = [table EXCEPT ![s] = "active"]
  /\ UNCHANGED <<dispatchVars, counters, running, stack>>

-----------------------------------------------------------------------------
\* The order after a revocation: sessions without a queue are dropped from it.
RevokedOrder(qs) == Kept(order, {s \in Session : qs[s] # <<>>})

\* revoke_where: the waiting jobs of sessions that are not active.
Revoked == {j \in jobs : table[reservations[j].of] # "active"}

RevokedQueues == [s \in Session |-> Kept(queues[s], jobs \ Revoked)]

\* The head of s may be selected: its handle is free and the limits allow it.
Eligible(s, qs) ==
  /\ qs[s] # <<>>
  /\ s \notin selectedFiles
  /\ table[s] = "active"
  /\ processInFlight < MaxProcessInFlight /\ inFlight[s] < MaxSessionInFlight

\* Mutant: a session that was served keeps its place in the rotation.
RotatedInPlace(i, qs, ord) ==
  IF Len(qs[ord[i]]) = 1 THEN RemoveAt(ord, i) ELSE ord

(***************************************************************************)
(* The rotation when the session at place i of ord is served: those before *)
(* it were looked at and went to the end, and it follows them if it still  *)
(* has a queue.                                                            *)
(***************************************************************************)
Rotated(i, qs, ord) ==
  SubSeq(ord, i + 1, Len(ord)) \o SubSeq(ord, 1, i - 1)
    \o (IF Len(qs[ord[i]]) = 1 THEN <<>> ELSE <<ord[i]>>)

\* Mutant: the handle of the selected job is not marked.
SelectUnmarked(i, qs, ord) ==
  LET s == ord[i]
      j == Head(qs[s])
  IN /\ queues' = [qs EXCEPT ![s] = Tail(@)]
     /\ order' = Rotated(i, qs, ord)
     /\ jobs' = jobs \ (Revoked \cup {j})
     /\ reservations' = [reservations EXCEPT ![j].phase = "Selected"]
     /\ queuedTotal' = queuedTotal - Cardinality(Revoked) - 1
     /\ selectedTotal' = selectedTotal + 1
     /\ queued' = [queued EXCEPT ![s] = @ - 1] /\ processQueued' = processQueued - 1
     /\ inFlight' = [inFlight EXCEPT ![s] = @ + 1] /\ processInFlight' = processInFlight + 1
     /\ UNCHANGED selectedFiles

\* take_next finds the session at place i.
Select(i, qs, ord) ==
  LET s == ord[i]
      j == Head(qs[s])
  IN /\ queues' = [qs EXCEPT ![s] = Tail(@)]
     /\ order' = Rotated(i, qs, ord)
     /\ jobs' = jobs \ (Revoked \cup {j})
     /\ reservations' = [reservations EXCEPT ![j].phase = "Selected"]
     /\ selectedFiles' = selectedFiles \cup {s}
     /\ queuedTotal' = queuedTotal - Cardinality(Revoked) - 1
     /\ selectedTotal' = selectedTotal + 1
     /\ queued' = [queued EXCEPT ![s] = @ - 1] /\ processQueued' = processQueued - 1
     /\ inFlight' = [inFlight EXCEPT ![s] = @ + 1] /\ processInFlight' = processInFlight + 1

\* take_next finds nobody: the rotation comes round to where it began.
SelectNobody(qs, ord) ==
  /\ queues' = qs /\ order' = ord
  /\ jobs' = jobs \ Revoked
  /\ queuedTotal' = queuedTotal - Cardinality(Revoked)
  /\ UNCHANGED <<reservations, selectedFiles, selectedTotal, counters>>

Pumping(t) == stack[t] # <<>>
Top(t)     == Head(stack[t])

\* What a round leaves to its pump; a round that found nothing ends it.
RoundResult(t, revoked, chosen) ==
  stack' = [stack EXCEPT ![t] = IF revoked = {} /\ chosen = None THEN Tail(@)
                                ELSE <<[revoked |-> revoked, chosen |-> chosen]>> \o Tail(@)]

\* One round of the pump: revoke, then select at most one job, in one section.
PumpRound(t) ==
  LET qs  == RevokedQueues
      ord == RevokedOrder(qs)
      may == IF selectedTotal >= MaxProcessInFlight THEN {}
             ELSE {i \in DOMAIN ord : Eligible(ord[i], qs)}
  IN /\ Pumping(t) /\ Top(t) = NewPump
     /\ IF may = {}
        THEN SelectNobody(qs, ord) /\ RoundResult(t, Revoked, None)
        ELSE LET first == CHOOSE i \in may : \A k \in may : i <= k
             IN Select(first, qs, ord) /\ RoundResult(t, Revoked, Head(qs[ord[first]]))
     /\ UNCHANGED <<table, running, opens>>

Release(j) ==
  /\ reservations' = [k \in DOMAIN reservations \ {j} |-> reservations[k]]
  /\ IF reservations[j].phase = "Selected"
     THEN /\ selectedTotal' = selectedTotal - 1
          /\ selectedFiles' = selectedFiles \ {reservations[j].of}
     ELSE UNCHANGED <<selectedTotal, selectedFiles>>

\* Mutant: the token gives its counters back by the state of the session.
SettleBySession(j) ==
  LET s == reservations[j].of
  IN IF table[s] = "active"
     THEN /\ inFlight' = [inFlight EXCEPT ![s] = @ - 1]
          /\ processInFlight' = processInFlight - 1
          /\ UNCHANGED <<queued, processQueued>>
     ELSE /\ queued' = [queued EXCEPT ![s] = @ - 1]
          /\ processQueued' = processQueued - 1
          /\ UNCHANGED <<inFlight, processInFlight>>

Settle(j) ==
  LET s == reservations[j].of
  IN IF reservations[j].phase = "Queued"
     THEN /\ queued' = [queued EXCEPT ![s] = @ - 1]
          /\ processQueued' = processQueued - 1
          /\ UNCHANGED <<inFlight, processInFlight>>
     ELSE /\ inFlight' = [inFlight EXCEPT ![s] = @ - 1]
          /\ processInFlight' = processInFlight - 1
          /\ UNCHANGED <<queued, processQueued>>

\* The drop of a completion token, which pumps inside the pumps of its thread.
DropToken(t, j, pumps) ==
  /\ Release(j) /\ Settle(j)
  /\ stack' = [stack EXCEPT ![t] = <<NewPump>> \o pumps]
  /\ UNCHANGED <<table, queues, order, jobs, queuedTotal, opens>>

\* A pump answers one of the jobs it revoked with an error.
AnswerRevoked(t, j) ==
  /\ Pumping(t) /\ j \in Top(t).revoked
  /\ DropToken(t, j, <<[Top(t) EXCEPT !.revoked = @ \ {j}]>> \o Tail(stack[t]))
  /\ UNCHANGED running

\* A pump spawns the job it selected, after the revoked ones are answered.
Spawn(t) ==
  /\ Pumping(t) /\ Top(t).revoked = {} /\ Top(t).chosen # None
  /\ running' = running \cup {Top(t).chosen}
  /\ stack' = [stack EXCEPT ![t] = <<NewPump>> \o Tail(@)]
  /\ UNCHANGED <<table, dispatchVars, counters, opens>>

\* The job has read, or failed or panicked, and its answer is on its way.
Complete(j) ==
  /\ j \in running
  /\ running' = running \ {j}
  /\ DropToken(j, j, <<>>)

-----------------------------------------------------------------------------
PumpNext(t) == PumpRound(t) \/ Spawn(t) \/ \E j \in Job : AnswerRevoked(t, j)

Next ==
  \/ \E c \in Client, s \in Session : Teardown(c, s) \/ \E j \in Job : Enqueue(c, s, j)
  \/ \E s \in Session : Close(s) \/ Open(s)
  \/ \E t \in Thread : PumpNext(t)
  \/ \E j \in Job : Complete(j)

Spec == Init /\ [][Next]_vars

\* Threads run, and a read of a file ends.
Fairness ==
  /\ \A t \in Thread : WF_vars(PumpNext(t))
  /\ \A j \in Job : WF_vars(Complete(j))

FairSpec == Spec /\ Fairness

-----------------------------------------------------------------------------
(***************************************************************************)
(* Every field of the dispatcher is in the range its type allows.          *)
(***************************************************************************)
TypeOK ==
  /\ table \in [Session -> {"active", "closing", "gone"}]
  /\ queues \in [Session -> Seq(Job)] /\ order \in Seq(Session)
  /\ jobs \subseteq DOMAIN reservations /\ DOMAIN reservations \subseteq Job
  /\ reservations \in [DOMAIN reservations -> [of : Session, phase : {"Queued", "Selected"}]]
  /\ selectedFiles \subseteq Session
  /\ queuedTotal \in 0..MaxProcessQueue /\ selectedTotal \in 0..MaxProcessInFlight
  /\ queued \in [Session -> 0..MaxSessionQueue]
  /\ inFlight \in [Session -> 0..MaxSessionInFlight]
  /\ processQueued \in 0..MaxProcessQueue /\ processInFlight \in 0..MaxProcessInFlight
  /\ running \subseteq Job /\ opens \in 0..MaxOpens
  /\ stack \in [Thread -> Seq([revoked : SUBSET Job, chosen : Job \cup {None}])]

\* The rotation lists the sessions that have a queue, each once: no session with a job
\* falls out of it, and none gets two turns.  The waiting jobs are those of the queues,
\* each in the queue of its own session.
RotationIsComplete ==
  /\ IsInjective(order)
  /\ ToSet(order) = {s \in Session : queues[s] # <<>>}
  /\ jobs = UNION {ToSet(queues[s]) : s \in Session} /\ queuedTotal = Cardinality(jobs)
  /\ \A s \in Session : IsInjective(queues[s]) /\ ToSet(queues[s]) \subseteq Of(s, "Queued")

\* A handle is used by one job at a time: two reads never share its position.
HandleIsExclusive ==
  \A s \in Session : /\ Cardinality(Of(s, "Selected")) <= 1
                     /\ s \in selectedFiles <=> Of(s, "Selected") # {}

\* The queues, the rotation and the handles in use always fit together.
QueuesAreSound == RotationIsComplete /\ HandleIsExclusive

\* Nobody waits for nothing: when no pump is running, no queued job is one that a pump
\* would select or revoke.
NoStrandedJob ==
  (\A t \in Thread : ~Pumping(t)) =>
    /\ Revoked = {}
    /\ \A s \in Session : ~Eligible(s, queues)

\* No queued job starves: whatever the other sessions go on asking for, it is selected
\* or revoked in the end, provided that every pump ends.  Under endless requests one need
\* not: a pump nested in the answer of a revoked job may select for ever, while the job
\* its outer pump selected is not spawned and keeps its session's handle.
QueuedIsTaken ==
  (\A t \in Thread : []<>~Pumping(t)) => \A j \in Job : []<>(j \notin jobs)

-----------------------------------------------------------------------------
Manager == INSTANCE FileShadow
  WITH admitting <- {s \in Session : table[s] = "active"},
       known <- {s \in Session : table[s] # "gone"}

\* The dispatcher changes the manager's counters only the way PdfSession does.
CountersImplemented == Manager!CountersSpec
=============================================================================
