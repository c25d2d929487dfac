----------------------------- MODULE OpenRequests -----------------------------
(***************************************************************************)
(* How a document that was chosen, dropped or passed to the process comes  *)
(* to one window: the native coordinator (open_request.rs), the client of  *)
(* the window (platform/OpenRequestClient.ts), and the flow of the window's*)
(* own dialogue (platform/ShellOpenCoordinator.ts).                        *)
(*                                                                         *)
(* A command is sent, handled and answered in separate steps; any of them  *)
(* may fail or lose its answer.  A step of the client is the code between  *)
(* two awaits.  The requests of a window are numbered in the order in      *)
(* which they were reserved.  Failures of opening, which travel along, the *)
(* registration of listeners and the delays of retries are left out, and   *)
(* so are the limits of the histories, which are beyond Requests here.     *)
(***************************************************************************)
EXTENDS Integers, Sequences, FiniteSets, SequencesExt

CONSTANTS
    N,            \* requests of the window
    MaxTroubles   \* bound: failed commands, lost answers, drains that time out, password
                  \* dialogues, the disposal of the shell and the destruction of the window

OpenAssumption == N \in Nat \ {0} /\ MaxTroubles \in Nat

Request == 1..N

VARIABLES
    native,   \* of each request: its state, was it claimed, is its cleanup deferred, its session
    window,   \* the owner: "open", "destroyed" (not registered any more), "lost", "deferred"
    shell,    \* disposed, modal, and the flow: 0 idle, -1 the dialogue, or the request admitted
    client,
    item,     \* the client's record of each request
    cmd,      \* the commands about each request
    listing,  \* list_pending_open_ingress
    doc,      \* the document in the window: none, adopting, failed, open, kept, undone
    troubles

vars == <<native, window, shell, client, item, cmd, listing, doc, troubles>>

Sent == {"claim", "ack", "reject"}
Answers == {"ok", "notFound", "cancelled", "rejected", "error"}
Terminal(answer) == answer \in {"notFound", "cancelled", "rejected"}

Trouble == troubles < MaxTroubles /\ troubles' = troubles + 1
NoTrouble == UNCHANGED troubles

NewNative == [st |-> "new", claimed |-> FALSE, deferred |-> FALSE, session |-> "none"]
NewItem == [st |-> "unknown", blocked |-> FALSE, rejecting |-> FALSE, watched |-> FALSE,
            outcome |-> "none", cleanup |-> "none"]
NewClient == [active |-> TRUE, run |-> "idle", again |-> TRUE, fifo |-> <<>>, timer |-> FALSE,
              explicit |-> {}, refused |-> {}, sweep |-> "idle", enums |-> <<>>]

Native(r, n) == native' = [native EXCEPT ![r] = n]
NativeOnly == UNCHANGED <<shell, client, item, doc>>

-----------------------------------------------------------------------------
(* OpenRequestCoordinator *)

\* reserve_open; by the dialogue of this window or by another way in.
Reserve(r) ==
    /\ window = "open" /\ native[r].st = "new" /\ (r > 1 => native[r - 1].st # "new")
    /\ Native(r, [native[r] EXCEPT !.st = "reserved"])
    /\ NoTrouble /\ UNCHANGED <<window, cmd, listing>> /\ NativeOnly

\* ingest_reserved: the file does not open, or its session is published, or it is drained
\* because the reservation was invalidated or its owner destroyed meanwhile.
OpenFails(r) ==
    /\ native[r].st \in {"reserved", "invalid"} /\ Native(r, [native[r] EXCEPT !.st = "failed"])
    /\ NoTrouble /\ UNCHANGED <<window, cmd, listing>> /\ NativeOnly

\* Mutant: the reservation is not looked at again after the file was opened.
CommitBlindly(r) ==
    /\ native[r].st \in {"reserved", "invalid"}
    /\ Native(r, [native[r] EXCEPT !.st = "live", !.session = "open"])
    /\ NoTrouble /\ UNCHANGED <<window, cmd, listing>> /\ NativeOnly
CommitReserved(r) ==
    /\ native[r].st \in {"reserved", "invalid"}
    /\ Native(r, IF native[r].st = "reserved" /\ window = "open"
                 THEN [native[r] EXCEPT !.st = "live", !.session = "open"]
                 ELSE [native[r] EXCEPT !.st = "unpublished", !.session = "draining"])
    /\ NoTrouble /\ UNCHANGED <<window, cmd, listing>> /\ NativeOnly

\* What is not live any more; the tombstones outlast the requests of a window.
Tombstone(r) ==
    CASE native[r].st = "cancelled" -> "cancelled"
      [] native[r].st = "rejected"  -> "rejected"
      [] OTHER                      -> "notFound"

\* A command is handled, and its answer arrives or is lost.
Handled(r, k, answer) ==
    /\ \/ cmd' = [cmd EXCEPT ![r][k] = answer] /\ NoTrouble
       \/ answer # "error" /\ Trouble /\ cmd' = [cmd EXCEPT ![r][k] = "error"]
    /\ UNCHANGED <<window, listing>> /\ NativeOnly

Claim(r) ==
    /\ cmd[r].claim = "claim"
    /\ IF window # "open" THEN UNCHANGED native /\ Handled(r, "claim", "error")
       ELSE IF native[r].st # "live" THEN UNCHANGED native /\ Handled(r, "claim", Tombstone(r))
       ELSE Native(r, [native[r] EXCEPT !.claimed = TRUE]) /\ Handled(r, "claim", "ok")

Acknowledge(r) ==
    /\ cmd[r].finish = "ack"
    /\ IF window # "open" \/ (native[r].st = "live" /\ ~native[r].claimed)
       THEN UNCHANGED native /\ Handled(r, "finish", "error")
       ELSE IF native[r].st = "live"
       THEN Native(r, [native[r] EXCEPT !.st = "acknowledged"]) /\ Handled(r, "finish", "ok")
       ELSE UNCHANGED native /\ Handled(r, "finish", IF native[r].st = "acknowledged" THEN "ok" ELSE Tombstone(r))

\* reject: the request ends and its cleanup is remembered at once; then its session is drained.
\* A duplicate joins the cleanup, if there is one left.
\* Mutant: the duplicate of a rejection answers at once.
RejectEarly(r, k) ==
    /\ cmd[r][k] = "reject"
    /\ IF window # "open" THEN UNCHANGED native /\ Handled(r, k, "error")
       ELSE IF native[r].st = "live"
       THEN /\ Native(r, [native[r] EXCEPT !.st = "rejected", !.deferred = TRUE])
            /\ cmd' = [cmd EXCEPT ![r][k] = "draining"] /\ NoTrouble /\ UNCHANGED <<window, listing>> /\ NativeOnly
       ELSE UNCHANGED native /\ Handled(r, k, IF native[r].st = "rejected" THEN "ok" ELSE Tombstone(r))
Reject(r, k) ==
    /\ cmd[r][k] = "reject"
    /\ IF window # "open" THEN UNCHANGED native /\ Handled(r, k, "error")
       ELSE IF native[r].st = "live" \/ (native[r].deferred /\ native[r].session # "closed")
       THEN /\ Native(r, IF native[r].st = "live"
                         THEN [native[r] EXCEPT !.st = "rejected", !.deferred = TRUE] ELSE native[r])
            /\ cmd' = [cmd EXCEPT ![r][k] = "draining"] /\ NoTrouble /\ UNCHANGED <<window, listing>> /\ NativeOnly
       ELSE /\ Native(r, [native[r] EXCEPT !.deferred = FALSE])
            /\ Handled(r, k, IF native[r].st = "rejected" THEN "ok" ELSE Tombstone(r))

\* drain_for_request: the session closes, is closed already, or its cancellation times out
\* and is deferred to the cleanup worker.
Drain(r, k) ==
    /\ cmd[r][k] = "draining"
    /\ \/ /\ native[r].session \in {"open", "closed"}
          /\ Native(r, [native[r] EXCEPT !.session = "closed", !.deferred = FALSE])
          /\ Handled(r, k, "ok")
       \/ /\ native[r].session = "open" /\ Trouble
          /\ Native(r, [native[r] EXCEPT !.session = "draining", !.deferred = TRUE])
          /\ cmd' = [cmd EXCEPT ![r][k] = "error"] /\ UNCHANGED <<window, listing>> /\ NativeOnly
       \/ /\ native[r].session = "draining" /\ UNCHANGED native /\ Handled(r, k, "error")

\* The cleanup worker, and the reader, which closes the session of what it could not open.
SessionCloses(r) ==
    /\ \/ native[r].session = "draining"
       \/ native[r].session = "open" /\ doc[r] \in {"failed", "undone"}
    /\ Native(r, [native[r] EXCEPT !.session = "closed"])
    /\ NoTrouble /\ UNCHANGED <<window, cmd, listing>> /\ NativeOnly

\* list_pending_open_ingress, which reaps the deferred cleanups first.
List ==
    /\ client.enums # <<>> /\ listing.at = "none"
    /\ native' = [r \in Request |-> [native[r] EXCEPT !.deferred =
                                        @ /\ (window # "open" \/ native[r].session # "closed")]]
    /\ \/ /\ window = "open" /\ NoTrouble
          /\ listing' = [at |-> "ok", ids |-> {r \in Request : native[r].st = "live"}]
       \/ /\ IF window = "open" THEN Trouble ELSE NoTrouble
          /\ listing' = [at |-> "error", ids |-> {}]
    /\ UNCHANGED <<window, cmd>> /\ NativeOnly

\* drain_owner_for_lifecycle: the owner is unregistered, its requests are cancelled and its
\* reservations invalidated (target_lost_for_lifecycle), its sessions are deferred.
\* Mutant: the reservations of the window stay valid, and its requests live.
LoseOnlySessions ==
    /\ window = "destroyed" /\ window' = "lost" /\ UNCHANGED native
    /\ NoTrouble /\ UNCHANGED <<cmd, listing>> /\ NativeOnly
TargetLost ==
    /\ window = "destroyed" /\ window' = "lost"
    /\ native' = [r \in Request |-> [native[r] EXCEPT !.st = CASE @ = "live" -> "cancelled"
                                                              [] @ = "reserved" -> "invalid"
                                                              [] OTHER -> @]]
    /\ NoTrouble /\ UNCHANGED <<cmd, listing>> /\ NativeOnly

DestroyWindow ==
    /\ window = "open" /\ window' = "destroyed"
    /\ Trouble /\ UNCHANGED <<native, cmd, listing>> /\ NativeOnly

DeferOwned ==
    /\ window = "lost" /\ window' = "deferred"
    /\ native' = [r \in Request |-> [native[r] EXCEPT !.session = IF @ = "open" THEN "draining" ELSE @]]
    /\ NoTrouble /\ UNCHANGED <<cmd, listing>> /\ NativeOnly

-----------------------------------------------------------------------------
(* OpenRequestClient: the functions that only change its own state. *)

\* runBlockedEnumeration
RunSweep(c) ==
    IF ~c.active THEN c
    ELSE IF c.sweep # "idle" THEN [c EXCEPT !.sweep = "dirty"]
    ELSE [c EXCEPT !.sweep = "queued", !.enums = Append(@, [by |-> "sweep", blocked |-> TRUE])]

\* retryPending
RetryPending(c) ==
    IF ~c.active THEN c ELSE IF shell.modal THEN RunSweep(c) ELSE [c EXCEPT !.again = TRUE]

Timed(c) == [c EXCEPT !.timer = c.active]

\* completeRequest, with what the flow and the window make of the outcome: handleOpenTerminal
\* keeps or undoes the document, unless the window is being disposed.
Complete(r, c, i, outcome, cleanup) ==
    IF i[r].st = "done" THEN item' = i /\ client' = c /\ UNCHANGED <<shell, doc>>
    ELSE /\ item' = [i EXCEPT ![r].st = "done", ![r].outcome = outcome, ![r].cleanup = cleanup]
         /\ client' = [c EXCEPT !.refused = IF i[r].blocked THEN @ \ {r} ELSE @]
         /\ shell' = [shell EXCEPT !.flow = IF i[r].watched /\ @ = r THEN 0 ELSE @]
         /\ doc' = [doc EXCEPT ![r] = IF @ = "open" /\ ~shell.disposed
                                      THEN IF outcome = "rejected" THEN "undone" ELSE "kept" ELSE @]

ClientOnly == UNCHANGED <<native, window, listing>>

\* A task of the tail begins with an enumeration, if the client is still active.
StartRun ==
    /\ client.run = "idle" /\ client.again
    /\ client' = IF client.active
                 THEN [client EXCEPT !.again = FALSE, !.run = "enumerating",
                                     !.enums = Append(@, [by |-> "run", blocked |-> shell.modal])]
                 ELSE [client EXCEPT !.again = FALSE]
    /\ NoTrouble /\ ClientOnly /\ UNCHANGED <<shell, item, cmd, doc>>

\* Mutant: a rejection that failed is not tried again.
AgainNever == {}
\* The rejections of blocked requests that failed and are tried again.
Again == {r \in Request : item[r].blocked /\ item[r].st = "reject" /\ ~item[r].rejecting}

\* enumerate, and what is done at its end by whom it was for.
Enumerated ==
    LET by == Head(client.enums).by
        blocked == Head(client.enums).blocked \/ shell.modal
        unknown == {r \in listing.ids : item[r].st = "unknown"}
        refuse == IF client.active
                  THEN {r \in unknown : r \notin client.explicit /\ (blocked \/ r \in client.refused)} ELSE {}
        admit == IF client.active THEN unknown \ refuse ELSE {}
        dispose == unknown \ (refuse \cup admit)
        retried == IF listing.at = "ok" THEN Again ELSE {}
        known == {r \in listing.ids \ unknown : ~(item[r].blocked /\ item[r].st = "reject")}
        c == [client EXCEPT !.enums = Tail(@), !.fifo = @ \o SetToSortSeq(admit, <),
                            !.explicit = @ \ unknown, !.refused = (@ \cup refuse) \ known]
    IN
    /\ listing.at \in {"ok", "error"} /\ listing' = [at |-> "none", ids |-> {}]
    /\ item' = [r \in Request |->
                  IF r \in admit THEN [item[r] EXCEPT !.st = "queued"]
                  ELSE IF r \in refuse THEN [item[r] EXCEPT !.st = "reject", !.blocked = TRUE, !.rejecting = TRUE]
                  ELSE IF r \in dispose THEN [item[r] EXCEPT !.st = "reject", !.rejecting = TRUE]
                  ELSE IF r \in retried THEN [item[r] EXCEPT !.rejecting = TRUE]
                  ELSE item[r]]
    /\ cmd' = [r \in Request |-> [cmd[r] EXCEPT !.finish = IF r \in refuse \cup retried THEN "reject" ELSE @,
                                                !.dispose = IF r \in dispose THEN "reject" ELSE @]]
    /\ client' = IF by = "run" THEN Timed([c EXCEPT !.run = "draining"])
                 ELSE IF c.active /\ c.sweep = "dirty" THEN RunSweep([c EXCEPT !.sweep = "idle"])
                 ELSE Timed([c EXCEPT !.sweep = "idle"])
    /\ NoTrouble /\ UNCHANGED <<native, window, shell, doc>>

-----------------------------------------------------------------------------
(* drain: one request at a time, in the order of their arrival. *)

First == Head(client.fifo)
Issue(r, k, command) == cmd' = [cmd EXCEPT ![r][k] = command]
Answered(r, k) == cmd[r][k] \in Answers
Consumed(r, k) == cmd' = [cmd EXCEPT ![r][k] = "none"]
Shifted(c) == [c EXCEPT !.run = "draining", !.fifo = Tail(@)]
Rest(c) == Timed([c EXCEPT !.run = "idle"])

TakeFront ==
    /\ client.run = "draining"
    /\ IF ~client.active \/ client.fifo = <<>> THEN client' = Rest(client) /\ UNCHANGED cmd
       ELSE IF item[First].st = "queued"
       THEN client' = [client EXCEPT !.run = "claiming"] /\ Issue(First, "claim", "claim")
       ELSE IF item[First].st = "done" THEN client' = Shifted(client) /\ UNCHANGED cmd
       ELSE client' = [client EXCEPT !.run = "finishing"] /\ Issue(First, "finish", item[First].st)
    /\ NoTrouble /\ ClientOnly /\ UNCHANGED <<shell, item, doc>>

ClaimAnswered ==
    /\ client.run = "claiming" /\ Answered(First, "claim") /\ Consumed(First, "claim")
    /\ LET answer == cmd[First].claim IN
       IF ~client.active THEN client' = Rest(client) /\ UNCHANGED <<shell, item, doc>>
       ELSE IF answer = "ok"
       THEN /\ client' = [client EXCEPT !.run = "adopting"] /\ doc' = [doc EXCEPT ![First] = "adopting"]
            /\ UNCHANGED <<shell, item>>
       ELSE IF Terminal(answer) THEN Complete(First, Shifted(client), item, "rejected", "lifecycle")
       ELSE client' = Rest(client) /\ UNCHANGED <<shell, item, doc>>
    /\ NoTrouble /\ ClientOnly

\* The adoption ends either way (Workspace); a window under disposal keeps its record as it is.
Adopted ==
    /\ client.run = "adopting"
    /\ \E outcome \in {"open", "failed"} :
         /\ doc' = [doc EXCEPT ![First] = outcome]
         /\ IF ~client.active THEN client' = Rest(client) /\ UNCHANGED <<item, cmd>>
            ELSE LET next == IF outcome = "open" THEN "ack" ELSE "reject" IN
                 /\ item' = [item EXCEPT ![First].st = next]
                 /\ client' = [client EXCEPT !.run = "finishing"] /\ Issue(First, "finish", next)
    /\ NoTrouble /\ ClientOnly /\ UNCHANGED shell

\* finishRequest, of the queue's front or of a blocked request.
Finished(r) ==
    LET answer == cmd[r].finish
        acknowledging == item[r].st = "ack"
        blocked == item[r].blocked
        settled == answer = "ok" \/ Terminal(answer)
        i == [item EXCEPT ![r].rejecting = IF blocked THEN FALSE ELSE @]
        c == IF blocked THEN (IF settled THEN client ELSE Timed(client))
             ELSE IF settled THEN Shifted(client) ELSE Rest(client)
    IN
    /\ blocked \/ (client.run = "finishing" /\ First = r)
    /\ Answered(r, "finish") /\ Consumed(r, "finish")
    /\ IF answer = "ok" /\ acknowledging THEN Complete(r, c, i, "acknowledged", "none")
       ELSE IF answer = "notFound" /\ acknowledging THEN Complete(r, c, i, "warned", "none")
       ELSE IF settled THEN Complete(r, c, i, "rejected", "native")
       ELSE IF blocked /\ ~client.active THEN Complete(r, c, i, "rejected", "lifecycle")
       ELSE item' = i /\ client' = c /\ UNCHANGED <<shell, doc>>
    /\ NoTrouble /\ ClientOnly

-----------------------------------------------------------------------------
(* Disposal, wakes, and the flow of the dialogue *)

\* The window disposes its shell: the flow ends, and whatever is not done is rejected.
Dispose ==
    LET rejects == {r \in Request : \/ item[r].st \notin {"unknown", "done"} /\ ~item[r].rejecting
                                    \/ item[r].st = "unknown" /\ item[r].watched}
    IN
    /\ ~shell.disposed /\ shell' = [shell EXCEPT !.disposed = TRUE, !.flow = 0]
    /\ client' = [client EXCEPT !.active = FALSE, !.timer = FALSE, !.explicit = {}, !.refused = {}]
    /\ item' = [r \in Request |->
                  IF r \in rejects
                  THEN [item[r] EXCEPT !.rejecting = TRUE, !.st = IF @ = "unknown" THEN "reject" ELSE @]
                  ELSE item[r]]
    /\ cmd' = [r \in Request |-> [cmd[r] EXCEPT !.dispose = IF r \in rejects THEN "reject" ELSE @]]
    /\ Trouble /\ ClientOnly /\ UNCHANGED doc

\* rejectDisposedRequest settles whatever the answer is.
DisposedRejected(r) ==
    /\ Answered(r, "dispose") /\ Consumed(r, "dispose")
    /\ Complete(r, client, [item EXCEPT ![r].rejecting = FALSE], "rejected",
                IF cmd[r].dispose = "ok" THEN "native"
                ELSE IF doc[r] = "none" THEN "lifecycle" ELSE "transferred")
    /\ NoTrouble /\ ClientOnly

\* wakePending by the timer, and the event of a request's publication, which may never come.
Wake ==
    /\ client.timer /\ client' = RetryPending([client EXCEPT !.timer = FALSE])
    /\ NoTrouble /\ ClientOnly /\ UNCHANGED <<shell, item, cmd, doc>>

Notified(r) ==
    /\ native[r].st = "live" /\ client.active
    /\ client' = IF ~shell.modal THEN RetryPending(client)
                 ELSE IF client.sweep = "idle" \/ r \notin client.refused
                 THEN RunSweep([client EXCEPT !.refused = @ \cup {r}]) ELSE client
    /\ NoTrouble /\ ClientOnly /\ UNCHANGED <<shell, item, cmd, doc>>

SetModal ==
    /\ shell' = [shell EXCEPT !.modal = ~@]
    /\ \/ shell.modal /\ NoTrouble
       \/ ~shell.modal /\ ~shell.disposed /\ Trouble
    /\ UNCHANGED <<native, window, listing, client, item, cmd, doc>>

RequestOpen ==
    /\ ~shell.disposed /\ ~shell.modal /\ shell.flow = 0
    /\ shell' = [shell EXCEPT !.flow = -1]
    /\ NoTrouble /\ ClientOnly /\ UNCHANGED <<client, item, cmd, doc>>

DialogCancelled ==
    /\ shell.flow = -1 /\ shell' = [shell EXCEPT !.flow = 0]
    /\ NoTrouble /\ ClientOnly /\ UNCHANGED <<client, item, cmd, doc>>

\* The dialogue's answer names its request: admitNotice.  The client may know the request
\* already, by its enumerations, and may even be done with it.
Admitted(r) ==
    LET watched == [item EXCEPT ![r].watched = TRUE] IN
    /\ shell.flow = -1 /\ native[r].st \notin {"new", "reserved", "invalid", "failed", "unpublished"}
    /\ ~item[r].watched
    /\ IF item[r].st = "done"
       THEN shell' = [shell EXCEPT !.flow = 0] /\ client' = RetryPending(client) /\ UNCHANGED <<item, cmd>>
       ELSE /\ shell' = [shell EXCEPT !.flow = r]
            /\ IF item[r].st # "unknown" THEN item' = watched /\ client' = RetryPending(client) /\ UNCHANGED cmd
               ELSE IF shell.modal
               THEN /\ item' = [watched EXCEPT ![r].st = "reject", ![r].blocked = TRUE, ![r].rejecting = TRUE]
                    /\ client' = [client EXCEPT !.refused = @ \cup {r}, !.explicit = @ \ {r}]
                    /\ Issue(r, "finish", "reject")
               ELSE /\ item' = watched /\ UNCHANGED cmd
                    /\ client' = RetryPending([client EXCEPT !.explicit = @ \cup {r}, !.refused = @ \ {r}])
    /\ NoTrouble /\ ClientOnly /\ UNCHANGED doc

-----------------------------------------------------------------------------
Init ==
    /\ native = [r \in Request |-> NewNative] /\ window = "open"
    /\ shell = [disposed |-> FALSE, modal |-> FALSE, flow |-> 0]
    /\ client = NewClient
    /\ item = [r \in Request |-> NewItem]
    /\ cmd = [r \in Request |-> [claim |-> "none", finish |-> "none", dispose |-> "none"]]
    /\ listing = [at |-> "none", ids |-> {}]
    /\ doc = [r \in Request |-> "none"]
    /\ troubles = 0

Opening(r) == OpenFails(r) \/ CommitReserved(r)
Command(r) ==
    \/ Claim(r) \/ Acknowledge(r)
    \/ \E k \in {"finish", "dispose"} : Reject(r, k) \/ Drain(r, k)
Lifecycle == TargetLost \/ DeferOwned
Run == StartRun \/ TakeFront \/ ClaimAnswered \/ Adopted
Enumeration == List \/ Enumerated

Next ==
    \/ \E r \in Request :
         \/ Reserve(r) \/ Opening(r) \/ Command(r) \/ SessionCloses(r)
         \/ Finished(r) \/ DisposedRejected(r) \/ Notified(r) \/ Admitted(r)
    \/ DestroyWindow \/ Lifecycle \/ Run \/ Enumeration \/ Dispose \/ Wake \/ SetModal
    \/ RequestOpen \/ DialogCancelled

Spec == Init /\ [][Next]_vars

\* The native side answers, adoptions end, the cleanup worker works, timers fire, and a password
\* dialogue is answered in the end.  No event of a publication needs to arrive.
Fairness ==
    /\ \A r \in Request :
         /\ WF_vars(Opening(r)) /\ WF_vars(Command(r)) /\ WF_vars(SessionCloses(r))
         /\ WF_vars(Finished(r)) /\ WF_vars(DisposedRejected(r))
    /\ WF_vars(Lifecycle) /\ WF_vars(Run) /\ WF_vars(Enumeration) /\ WF_vars(Wake)
    /\ WF_vars(shell.modal /\ SetModal)

FairSpec == Spec /\ Fairness

-----------------------------------------------------------------------------
(* Properties *)

\* What the window makes of a request agrees with what the process made of it: a document that
\* stays was acknowledged and its session is open; an acknowledged request is not one that failed to
\* open; a rejection reported as complete left no session open, however often it was repeated or
\* joined; and nobody is done with a request that the process still holds, until disposal.
OutcomesAgree ==
    \A r \in Request :
        /\ item[r].outcome = "acknowledged" => native[r].st = "acknowledged"
        /\ item[r].outcome # "warned"
        /\ native[r].st = "acknowledged" => doc[r] \in {"open", "kept"}
        /\ doc[r] = "kept" => native[r].st = "acknowledged" /\ (native[r].session = "open" \/ window = "deferred")
        /\ item[r].outcome = "rejected" /\ item[r].cleanup = "native" /\ ~shell.disposed =>
             \/ native[r].st = "rejected" /\ native[r].session = "closed"
             \/ native[r].st = "cancelled"
        /\ client.active /\ item[r].st = "done" => native[r].st # "live"

\* A request that is published ends, and the flow of the dialogue with it, unless the shell is
\* disposed or the window lost; and what ended without being acknowledged has its session closed:
\* whenever requests come, they are settled in the end.
Settled(r) ==
    /\ native[r].st # "live" \/ shell.disposed
    /\ shell.flow # r \/ window # "open"
    /\ native[r].st \in {"rejected", "cancelled", "unpublished"} => native[r].session = "closed"
OpensEnd == []<>(\A r \in Request : Settled(r))
=============================================================================
