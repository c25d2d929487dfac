----------------------------- MODULE FileShadow -----------------------------
(***************************************************************************)
(* What the session manager counts of the file dispatcher's work: how many *)
(* jobs of a session are reserved in the queue and how many are selected.  *)
(* The manager's file actions (PdfSession) are the changes below, and the  *)
(* dispatcher (FileDispatch) implements the specification they make.       *)
(***************************************************************************)
EXTENDS Integers

CONSTANTS
  Session,
  MaxSessionQueue,       \* MAX_SESSION_QUEUE
  MaxSessionInFlight,    \* MAX_SESSION_IN_FLIGHT
  MaxProcessQueue,       \* MAX_PROCESS_QUEUE
  MaxProcessInFlight     \* MAX_PROCESS_IN_FLIGHT

VARIABLES
  admitting,             \* the sessions in the table whose teardown is Active
  known,                 \* the sessions in the table
  queued, inFlight,      \* Session.queued, Session.in_flight
  processQueued, processInFlight

counters == <<queued, inFlight, processQueued, processInFlight>>

QueueJob(s) ==
  /\ s \in admitting
  /\ queued[s] < MaxSessionQueue /\ processQueued < MaxProcessQueue
  /\ queued' = [queued EXCEPT ![s] = @ + 1]
  /\ processQueued' = processQueued + 1
  /\ UNCHANGED <<inFlight, processInFlight>>

\* One handle runs one job at a time (selected_files).
SelectJob(s) ==
  /\ s \in admitting
  /\ queued[s] > 0 /\ inFlight[s] = 0
  /\ inFlight[s] < MaxSessionInFlight /\ processInFlight < MaxProcessInFlight
  /\ queued' = [queued EXCEPT ![s] = @ - 1]
  /\ processQueued' = processQueued - 1
  /\ inFlight' = [inFlight EXCEPT ![s] = @ + 1]
  /\ processInFlight' = processInFlight + 1

SettleSelected(s) ==
  /\ inFlight[s] > 0
  /\ inFlight' = [inFlight EXCEPT ![s] = @ - 1]
  /\ processInFlight' = processInFlight - 1
  /\ UNCHANGED <<queued, processQueued>>

\* A job whose session is no longer active is revoked; its reservation lives until
\* its completion token is dropped.
SettleRevoked(s) ==
  /\ s \in known \ admitting
  /\ queued[s] > 0
  /\ queued' = [queued EXCEPT ![s] = @ - 1]
  /\ processQueued' = processQueued - 1
  /\ UNCHANGED <<inFlight, processInFlight>>

CountersInit ==
  /\ queued = [s \in Session |-> 0] /\ inFlight = [s \in Session |-> 0]
  /\ processQueued = 0 /\ processInFlight = 0

CountersNext ==
  \E s \in Session : QueueJob(s) \/ SelectJob(s) \/ SettleSelected(s) \/ SettleRevoked(s)

CountersSpec == CountersInit /\ [][CountersNext]_counters
=============================================================================
