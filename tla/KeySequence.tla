---------------------------- MODULE KeySequence ----------------------------
(***************************************************************************)
(* The keyboard of one window: sequences of keys in a trie                 *)
(* (domain/input/KeySequenceTrie.ts) and the router that owns their timer  *)
(* (platform/RootKeyboardRouter.ts).  A prefix waits for the next key or   *)
(* for its timeout, when the binding it spells itself is dispatched.  The  *)
(* input meanwhile passes from one owner to another (window, tab,          *)
(* document, prompt), and the router learns of it when it next looks.      *)
(*                                                                         *)
(* A step is a key event or a callback.  A node of the trie is the prefix  *)
(* that leads to it.  Of the time only matters whether the timeout has     *)
(* passed since a key was accepted.  The branch of advance for a deadline  *)
(* that has passed is never reached: the router expires the prefix first.  *)
(***************************************************************************)
EXTENDS Integers, SequencesExt

CONSTANTS
    Key,               \* canonical tokens
    Digits,            \* those that a page prompt takes
    Accelerators,      \* the keys of the history, Alt with an arrow: bound to its actions, if at all
    Bindings,          \* records [keys, action, contexts]
    Owner, ContextOf,  \* who may own the input, and in which input context
    Suppressed,        \* actions that a held key does not repeat
    Prompt,            \* the action that opens the page prompt
    Disabled,          \* instead of an owner: the action is disabled, or deferred to others
    MaxSeen            \* bound: keys that are remembered for the properties

Nothing == [keys |-> <<>>, action |-> "none", contexts |-> {}]

\* KeySequenceTrie.insert refuses two bindings of one sequence in one context.
KeyAssumption ==
    /\ Digits \cup Accelerators \subseteq Key /\ MaxSeen \in Nat /\ Nothing \notin Bindings /\ Disabled \notin Owner
    /\ \A b \in Bindings : b.keys \in Seq(Key) /\ b.keys # <<>> /\ b.contexts # {}
    /\ \A b \in Bindings : Len(b.keys) <= MaxSeen
    /\ \A b, c \in Bindings : b.keys = c.keys /\ b.contexts \cap c.contexts # {} => b = c

VARIABLES
    input,   \* the owner of the input
    owner,   \* the owner the router knows of
    node,    \* the prefix typed, <<>> when nothing is pending
    due,     \* its deadline has passed
    timer,   \* the timer: set, for which owner, and of the present epoch
    alive,   \* the router has not been disposed of
    seen,    \* observer: the keys pressed under the present owner, and was there a pause since
    said     \* observer: the last dispatch
vars == <<input, owner, node, due, timer, alive, seen, said>>

NoTimer == [set |-> FALSE, owner |-> CHOOSE o \in Owner : TRUE, current |-> FALSE]
NothingSeen == [keys |-> <<>>, late |-> FALSE]
NothingSaid == [binding |-> Nothing, context |-> "none", typed |-> <<>>, by |-> "none", alive |-> TRUE]

Init ==
    /\ input \in Owner /\ owner = input
    /\ node = <<>> /\ due = FALSE /\ timer = NoTimer /\ alive = TRUE
    /\ seen = NothingSeen /\ said = NothingSaid

-----------------------------------------------------------------------------
(* The trie *)

IsNode(n) == \E b \in Bindings : IsPrefix(n, b.keys)
HasChild(n) == \E b \in Bindings : IsStrictPrefix(n, b.keys)
Binding(n, context) ==
    LET found == {b \in Bindings : b.keys = n /\ context \in b.contexts} IN
    IF found = {} THEN Nothing ELSE CHOOSE b \in found : TRUE

-----------------------------------------------------------------------------
(* What the handlers are made of, as functions of the state s *)

State == [input |-> input, owner |-> owner, node |-> node, due |-> due, timer |-> timer,
          seen |-> seen, said |-> said]
Becomes(s) ==
    /\ input' = s.input /\ owner' = s.owner /\ node' = s.node /\ due' = s.due
    /\ timer' = s.timer /\ seen' = s.seen /\ said' = s.said

\* Every reset begins an epoch, in which a timer of another is stale.
Reset(s) == [s EXCEPT !.node = <<>>, !.due = FALSE, !.timer.current = FALSE]
Clear(s) == [s EXCEPT !.timer = NoTimer]
CancelPending(s) == Reset(Clear(s))

\* Mutant: the prefix survives a change of the owner.
SyncKeepingPrefix(s) == [s EXCEPT !.owner = s.input]
SyncContext(s) == IF s.input = s.owner THEN s ELSE CancelPending([s EXCEPT !.owner = s.input])

Schedule(s) ==
    IF s.node = <<>> THEN Clear(s)
    ELSE [s EXCEPT !.timer = [set |-> TRUE, owner |-> s.owner, current |-> TRUE]]

\* Another owner has seen no keys.
Passed(s, o) == IF o = s.input THEN s ELSE [s EXCEPT !.input = o, !.seen = NothingSeen]

\* emit; o is the owner of the input afterwards, or Disabled when the action has no effect.
Emit(s, b, by, typed, o) ==
    IF b = Nothing \/ o = Disabled THEN s
    ELSE Passed([s EXCEPT !.seen = NothingSeen,
                          !.said = [binding |-> b, context |-> ContextOf[s.input], typed |-> typed,
                                    by |-> by, alive |-> alive]], o)

\* The observer notes a key, of a new sequence when there was a pause.
Noted(s, key) ==
    LET keys == IF s.seen.late THEN <<key>> ELSE Append(s.seen.keys, key) IN
    [s EXCEPT !.seen = [keys |-> IF Len(keys) > MaxSeen THEN Tail(keys) ELSE keys, late |-> FALSE]]

\* expire, when the deadline has passed.
Expire(s, o) == Emit(Reset(s), Binding(s.node, ContextOf[s.input]), "timeout", s.seen.keys, o)

\* advance and the emission of its result; typed is what the observer has noted.
Unknown(s, key, typed, o) ==
    LET b == Binding(s.node, ContextOf[s.input]) IN
    IF b.action = Prompt /\ key \in Digits THEN Emit(Reset(s), b, "digit", Front(typed), o) ELSE Reset(s)
Leaf(s, n, repeat, typed, o) ==
    LET b == Binding(n, ContextOf[s.input]) IN
    IF repeat /\ b.action \in Suppressed THEN Reset(s) ELSE Emit(Reset(s), b, "key", typed, o)
Inner(s, n, repeat) ==
    IF repeat THEN Reset(s) ELSE [s EXCEPT !.node = n, !.due = FALSE, !.timer.current = FALSE]

\* Mutant: a key that is held counts as pressed again.
AdvanceHeld(s, key, repeat, typed, o) ==
    LET n == Append(s.node, key) IN
    IF ~IsNode(n) THEN Unknown(s, key, typed, o)
    ELSE IF HasChild(n) THEN Inner(s, n, FALSE)
    ELSE Leaf(s, n, repeat, typed, o)
Advance(s, key, repeat, typed, o) ==
    LET n == Append(s.node, key) IN
    IF repeat /\ s.node # <<>> THEN s
    ELSE IF ~IsNode(n) THEN Unknown(s, key, typed, o)
    ELSE IF HasChild(n) THEN Inner(s, n, repeat)
    ELSE Leaf(s, n, repeat, typed, o)

-----------------------------------------------------------------------------
(* The handlers *)

\* handleKeyDown.  A prefix whose deadline has passed before its timer ran is expired first.
KeyDown(key, repeat, o1, o2) ==
    /\ alive
    /\ LET known == SyncContext(State)
           late  == known.node # <<>> /\ known.due
           ready == IF late THEN SyncContext(Expire(Clear(known), o1)) ELSE known
           noted == IF repeat THEN ready ELSE Noted(ready, key)
           typed == IF repeat THEN <<key>> ELSE noted.seen.keys
       IN /\ ~late => o1 = o2
          /\ Becomes(Schedule(Advance(noted, key, repeat, typed, o2)))
    /\ UNCHANGED alive

\* A key that another owner takes first, or that is no token; and the accelerators of the
\* history, which are looked up directly and only while the document is navigated.
OtherKey ==
    /\ alive
    /\ Becomes([CancelPending(SyncContext(State)) EXCEPT !.seen = NothingSeen])
    /\ UNCHANGED alive

HistoryKey(key, repeat, o) ==
    /\ alive
    /\ LET s == CancelPending(SyncContext(State))
           b == Binding(<<key>>, "navigation")
       IN Becomes(IF repeat \/ ContextOf[s.input] # "navigation" THEN [s EXCEPT !.seen = NothingSeen]
                  ELSE Emit([s EXCEPT !.seen = NothingSeen], b, "history", <<key>>, o))
    /\ UNCHANGED alive

\* Mutant: a timer that fires early, or in another epoch, is not set again.
FiresOnce(o) ==
    /\ timer.set
    /\ LET s == Clear(State) IN
       Becomes(IF s.input # timer.owner THEN SyncContext(s)
               ELSE IF timer.current /\ due THEN Schedule(Expire(s, o))
               ELSE s)
    /\ UNCHANGED alive

\* The callback of schedule.  A timer that fires early is set again.
Fires(o) ==
    /\ timer.set
    /\ LET s == Clear(State) IN
       Becomes(IF s.input # timer.owner THEN SyncContext(s)
               ELSE IF timer.current /\ due THEN Schedule(Expire(s, o))
               ELSE Schedule(s))
    /\ UNCHANGED alive

\* The deadline passes, and so does the time in which keys belong together.
Pause ==
    /\ (node # <<>> /\ ~due) \/ (seen.keys # <<>> /\ ~seen.late)
    /\ due' = (node # <<>>) /\ seen' = [seen EXCEPT !.late = TRUE]
    /\ UNCHANGED <<input, owner, node, timer, alive, said>>

\* The input passes to another owner.  The router is told at once (Told) or later, but before the
\* former owner has it again: generations only grow, and what shows another tab or prompt renders
\* the window in the same turn, which tells the router.
PassInput(o) == o \notin {input, owner} /\ Becomes(Passed(State, o)) /\ UNCHANGED alive
Told == alive /\ Becomes(SyncContext(State)) /\ UNCHANGED alive
Revoked == alive /\ Becomes(CancelPending(State)) /\ UNCHANGED alive

\* Mutant: the timer outlives the router.
DisposeLeavingTimer == alive /\ alive' = FALSE /\ UNCHANGED <<input, owner, node, due, timer, seen, said>>
Dispose ==
    /\ alive /\ alive' = FALSE /\ timer' = NoTimer
    /\ UNCHANGED <<input, owner, node, due, seen, said>>

Keys == \E key \in Key, repeat \in BOOLEAN, o1, o2 \in Owner \cup {Disabled} :
    IF key \in Accelerators THEN o1 = o2 /\ HistoryKey(key, repeat, o2) ELSE KeyDown(key, repeat, o1, o2)
Timer == \E o \in Owner \cup {Disabled} : Fires(o)

Next == Keys \/ OtherKey \/ Timer \/ Pause \/ (\E o \in Owner : PassInput(o)) \/ Told \/ Revoked \/ Dispose

\* The clock goes on, and a timer that is due runs.
Fairness == WF_vars(Pause) /\ WF_vars(due /\ Timer)

Spec == Init /\ [][Next]_vars /\ Fairness

-----------------------------------------------------------------------------
\* Whatever keys, timers and changes of ownership come together, an action is dispatched only for keys
\* that were pressed one after the other, without a pause, by the owner to whom the action belongs; no
\* sooner than the trie allows (of which the accelerators of the history know nothing), and never by a
\* router that was disposed of; and what is pending is what the owner has just typed.
KeysAreTrue ==
    /\ said.binding # Nothing =>
         /\ said.context \in said.binding.contexts
         /\ IsSuffix(said.binding.keys, said.typed)
         /\ said.by = "key" => ~HasChild(said.binding.keys)
         /\ said.alive
    /\ owner = input => IsSuffix(node, seen.keys)

\* No prefix stays beyond its deadline for ever: its timer, or the key that comes before the timer
\* runs, deals with it, unless the router is disposed of.
PrefixEnds == []<>(~due \/ ~alive)
=============================================================================
