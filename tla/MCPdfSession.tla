---------------------------- MODULE MCPdfSession ----------------------------
(***************************************************************************)
(* Model values and bounds for TLC.  A constraint is a union of scenarios: *)
(* each takes some kinds of work out, so that the others are explored to   *)
(* their limits.                                                           *)
(***************************************************************************)
EXTENDS PdfSession

CONSTANTS s1, s2, s3, c1, c2, c3

\* Documents are not forgotten while the sessions of a run last: it takes 64 others.
Remembered == \A s \in Session :
  asm[s] = "absent" => stage[s] \in {"unused", "opening"} \/ barrier[s] = 0

Used(S)       == \A s \in Session \ S : stage[s] = "unused"
Commanding(C) == \A c \in Caller \ C : caller[c].pc = "idle"
Links(n)      == processLinks <= n
Files(n)      == \A s \in Session : queued[s] <= n
NoPrint       == \A s \in Session : print[s] = "none"
NoAssembly    == \A s \in Session : asm[s] \in {"absent", "finished"}
FirstWindow   == \A o \in Owner : o.gen > 1 => window[o] = "open" /\ Owned(Session, o) = {}
EveryWindow   == \A o \in Owner : window[o] = "open"
NoQuit        == quit = "no"

\* Two sessions of one window and one command thread.
Work == /\ Used({s1, s2}) /\ Commanding({c1}) /\ FirstWindow /\ NoQuit
        /\ Links(1) /\ (Links(0) \/ (NoPrint /\ NoAssembly))

\* Three command threads and every kind of work on one session.
Contention == Used({s1}) /\ Files(1) /\ FirstWindow /\ NoQuit

\* Three ids compete for the handle slots.
Quota == /\ Commanding({c1}) /\ EveryWindow /\ NoQuit
         /\ Files(0) /\ Links(0) /\ NoPrint /\ NoAssembly

\* A reload of the window label, late opens, and the quit.
Lifecycle == Used({s1, s2}) /\ Commanding({}) /\ Files(1) /\ Links(0) /\ NoPrint

Scenarios == Remembered /\ (Work \/ Contention \/ Quota \/ Lifecycle)

\* One window, and no quit.
OneWindow == Remembered /\ NoQuit
=============================================================================
