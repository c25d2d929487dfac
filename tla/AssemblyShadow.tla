--------------------------- MODULE AssemblyShadow ---------------------------
(***************************************************************************)
(* What the session manager relies on of the assembly ledger: of the       *)
(* credits and the queue only which documents work, hold or wait.  The     *)
(* manager's actions (PdfSession) are built from the changes below, and    *)
(* the ledger (PdfAssembly) implements the specification they make.        *)
(***************************************************************************)
CONSTANT Session
VARIABLE asm       \* the document of a session

(***************************************************************************)
(* A document is not there, without work, with an active lease, with a     *)
(* waiting request, with both, with a lease left after everything was      *)
(* cancelled, or finished.                                                 *)
(***************************************************************************)
Document == {"absent", "idle", "active", "waiting", "both", "closing", "finished"}

AssemblyWork(s) == asm[s] \in {"active", "waiting", "both", "closing"}

Holding(docs) == {s \in Session : docs[s] \in {"active", "both", "closing"}}
Waiting(docs) == {s \in Session : docs[s] = "waiting"}

(***************************************************************************)
(* The end of every call that gives credit back: which waiting documents   *)
(* get a lease depends on bytes and queue order, here it is any of them,   *)
(* and at least one when no lease is left, since any single request fits   *)
(* the budget.  The ledger forgets the documents that finished long ago.   *)
(***************************************************************************)
ForgottenOf(docs, old) ==
  {[s \in Session |-> IF s \in F THEN "absent" ELSE docs[s]] :
     F \in SUBSET {s \in old : docs[s] = "finished"}}

Forgotten(docs) == ForgottenOf(docs, {s \in Session : asm[s] = "finished"})

Promoted(docs) ==
  {[s \in Session |-> IF s \in G THEN "active" ELSE docs[s]] :
     G \in {G \in SUBSET Waiting(docs) : Holding(docs) = {} /\ Waiting(docs) # {} => G # {}}}

Settled(docs) == UNION {Forgotten(d) : d \in Promoted(docs)}

\* A request is granted at once or waits; it never waits for nobody.
RequestDocument(s) ==
  \/ /\ asm[s] \in {"absent", "idle"}
     /\ \A r \in Session : asm[r] \notin {"waiting", "both"}
     /\ asm' \in Forgotten([asm EXCEPT ![s] = "active"])
  \/ /\ asm[s] \in {"absent", "idle"}
     /\ Holding(asm) # {}
     /\ asm' = [asm EXCEPT ![s] = "waiting"]
  \/ /\ asm[s] = "active"
     /\ asm' = [asm EXCEPT ![s] = "both"]

\* The waiting request is withdrawn; a withdrawal that is early makes a document.
WithdrawRequest(s) ==
  /\ asm[s] \in {"absent", "waiting", "both"}
  /\ asm' \in Forgotten([asm EXCEPT ![s] = IF @ = "both" THEN "active" ELSE "idle"])

\* The document after a cancellation of everything (watermark u64::MAX).
Cancelled(d) == IF d \in {"active", "both", "closing"} THEN "closing" ELSE "finished"

CancelDocument(s) == asm' \in Forgotten([asm EXCEPT ![s] = Cancelled(@)])

Returned(d) == [active |-> "idle", both |-> "waiting", closing |-> "finished"][d]

ReleaseDocument(s) ==
  /\ s \in Holding(asm)
  /\ asm' \in Settled([asm EXCEPT ![s] = Returned(@)])

FinishDocument(s) ==
  /\ asm[s] # "finished"
  /\ asm' \in Settled([asm EXCEPT ![s] = "finished"])

\* Every document of S that is there is finished.  They may be so many that the ledger
\* does not remember all of them.
DiscardDocuments(S) ==
  LET docs == [s \in Session |-> IF s \in S /\ asm[s] # "absent" THEN "finished" ELSE asm[s]]
  IN asm' \in UNION {ForgottenOf(d, Session) : d \in Promoted(docs)}

ShadowInit == asm = [s \in Session |-> "absent"]

\* What a call changes, if it changes anything.
ShadowNext ==
  /\ asm' # asm
  /\ \/ \E s \in Session : \/ RequestDocument(s) \/ WithdrawRequest(s) \/ CancelDocument(s)
                           \/ ReleaseDocument(s) \/ FinishDocument(s)
     \/ \E S \in SUBSET Session : DiscardDocuments(S)

ShadowSpec == ShadowInit /\ [][ShadowNext]_asm
=============================================================================
