-------------------------- MODULE KeySequence_proofs --------------------------
(***************************************************************************)
(* Proof that the keyboard of a window dispatches what was typed, for every*)
(* table of bindings, any number of owners and whatever contexts they have.*)
(*                                                                         *)
(* The handlers are functions of a state; each lemma says of one of these  *)
(* functions what it keeps, and the proof of a handler puts them together. *)
(***************************************************************************)
EXTENDS KeySequence, SequenceTheorems, TLAPS

USE DEF Nothing, NothingSeen

-----------------------------------------------------------------------------
(* Suffixes *)

\* A suffix, place by place from the end.
LEMMA SuffixIs ==
    ASSUME NEW S, NEW s \in Seq(S), NEW t \in Seq(S)
    PROVE  IsSuffix(s, t) <=> /\ Len(s) <= Len(t)
                              /\ \A i \in 1..Len(s) : s[Len(s) - i + 1] = t[Len(t) - i + 1]
<1> DEFINE r == Reverse(s)
           u == Reverse(t)
<1>1. /\ r \in Seq(S) /\ u \in Seq(S) /\ Len(r) = Len(s) /\ Len(u) = Len(t)
      /\ \A i \in 1..Len(s) : r[i] = s[Len(s) - i + 1]
      /\ \A i \in 1..Len(t) : u[i] = t[Len(t) - i + 1]
  BY DEF Reverse
<1>2. IsSuffix(s, t) <=> Len(r) <= Len(u) /\ SubSeq(r, 1, Len(r)) = SubSeq(u, 1, Len(r))
  BY DEF IsSuffix, IsPrefix
<1> HIDE DEF r, u
<1>3. Len(r) \in Nat /\ Len(u) \in Nat
  BY <1>1
<1>4. ASSUME Len(r) <= Len(u)
      PROVE  SubSeq(r, 1, Len(r)) = SubSeq(u, 1, Len(r)) <=> \A i \in 1..Len(r) : r[i] = u[i]
  <2>1. /\ SubSeq(r, 1, Len(r)) = [i \in 1..Len(r) |-> r[i]]
        /\ SubSeq(u, 1, Len(r)) = [i \in 1..Len(r) |-> u[i]]
    BY <1>1, <1>3, <1>4
  <2> QED
    BY <2>1
<1>5. Len(r) <= Len(u) =>
        ((\A i \in 1..Len(r) : r[i] = u[i]) <=> \A i \in 1..Len(s) : s[Len(s) - i + 1] = t[Len(t) - i + 1])
  <2>1. ASSUME Len(r) <= Len(u), NEW i \in 1..Len(s)
        PROVE  r[i] = s[Len(s) - i + 1] /\ u[i] = t[Len(t) - i + 1]
    <3>1. i \in 1..Len(t)
      BY <1>1, <1>3, <2>1
    <3> QED
      BY <1>1, <3>1
  <2> QED
    BY <1>1, <2>1
<1> QED
  BY <1>1, <1>2, <1>4, <1>5

\* Every sequence ends with nothing, and with itself.
LEMMA SuffixSimple ==
    ASSUME NEW S, NEW t \in Seq(S)
    PROVE  IsSuffix(<<>>, t) /\ IsSuffix(t, t)
<1>1. <<>> \in Seq(S) /\ Len(<<>>) = 0 /\ Len(t) \in Nat
  OBVIOUS
<1>2. IsSuffix(<<>>, t)
  <2>1. ASSUME NEW e \in Seq(S), Len(e) = 0
        PROVE  IsSuffix(e, t)
    <3>1. Len(e) <= Len(t) /\ \A i \in 1..Len(e) : e[Len(e) - i + 1] = t[Len(t) - i + 1]
      BY <1>1, <2>1
    <3> QED
      BY <2>1, <3>1, SuffixIs
  <2> QED
    BY <1>1, <2>1
<1>3. IsSuffix(t, t)
  BY <1>1, SuffixIs
<1> QED
  BY <1>2, <1>3

\* A key typed makes both longer.
LEMMA SuffixAppend ==
    ASSUME NEW S, NEW s \in Seq(S), NEW t \in Seq(S), NEW k \in S, IsSuffix(s, t)
    PROVE  IsSuffix(Append(s, k), Append(t, k))
<1> DEFINE a == Append(s, k)
           b == Append(t, k)
<1>1. /\ a \in Seq(S) /\ Len(a) = Len(s) + 1 /\ a[Len(s) + 1] = k
      /\ \A i \in 1..Len(s) : a[i] = s[i]
  OBVIOUS
<1>2. /\ b \in Seq(S) /\ Len(b) = Len(t) + 1 /\ b[Len(t) + 1] = k
      /\ \A i \in 1..Len(t) : b[i] = t[i]
  OBVIOUS
<1>3. Len(s) \in Nat /\ Len(t) \in Nat /\ Len(s) <= Len(t)
      /\ \A i \in 1..Len(s) : s[Len(s) - i + 1] = t[Len(t) - i + 1]
  BY SuffixIs
<1> HIDE DEF a, b
<1>4. ASSUME NEW i \in 1..Len(a)
      PROVE  a[Len(a) - i + 1] = b[Len(b) - i + 1]
  <2>1. CASE i = 1
    BY <1>1, <1>2, <1>3, <2>1
  <2>2. CASE i # 1
    <3>1. i - 1 \in 1..Len(s)
      BY <1>1, <1>3, <2>2
    <3>2. s[Len(s) - (i - 1) + 1] = t[Len(t) - (i - 1) + 1]
      BY <1>3, <3>1
    <3>3. /\ Len(s) - (i - 1) + 1 = Len(a) - i + 1 /\ Len(t) - (i - 1) + 1 = Len(b) - i + 1
          /\ Len(a) - i + 1 \in 1..Len(s) /\ Len(b) - i + 1 \in 1..Len(t)
      BY <1>1, <1>2, <1>3, <3>1
    <3> QED
      BY <1>1, <1>2, <3>2, <3>3
  <2> QED
    BY <2>1, <2>2
<1>5. Len(a) <= Len(b)
  BY <1>1, <1>2, <1>3
<1>6. IsSuffix(a, b)
  BY <1>1, <1>2, <1>4, <1>5, SuffixIs
<1> QED
  BY <1>6 DEF a, b

\* What is forgotten at the front of a longer sequence does not matter.
LEMMA SuffixTail ==
    ASSUME NEW S, NEW s \in Seq(S), NEW t \in Seq(S), IsSuffix(s, t), Len(s) < Len(t)
    PROVE  IsSuffix(s, Tail(t)) /\ Tail(t) \in Seq(S)
<1> DEFINE u == Tail(t)
<1>1. Len(s) \in Nat /\ Len(t) \in Nat /\ t # <<>>
      /\ \A i \in 1..Len(s) : s[Len(s) - i + 1] = t[Len(t) - i + 1]
  BY SuffixIs
<1>2. /\ u \in Seq(S) /\ Len(u) = Len(t) - 1 /\ \A i \in 1..Len(u) : u[i] = t[i + 1]
  BY <1>1
<1> HIDE DEF u
<1>3. ASSUME NEW i \in 1..Len(s)
      PROVE  s[Len(s) - i + 1] = u[Len(u) - i + 1]
  <2>1. Len(u) - i + 1 \in 1..Len(u) /\ (Len(u) - i + 1) + 1 = Len(t) - i + 1
    BY <1>1, <1>2
  <2>2. u[Len(u) - i + 1] = t[(Len(u) - i + 1) + 1]
    BY <1>2, <2>1
  <2> QED
    BY <1>1, <2>1, <2>2
<1>4. Len(s) <= Len(u)
  BY <1>1, <1>2
<1>5. IsSuffix(s, u)
  BY <1>2, <1>3, <1>4, SuffixIs
<1> QED
  BY <1>2, <1>5 DEF u

\* What came before the last key.
LEMMA FrontIs ==
    ASSUME NEW S, NEW t \in Seq(S), NEW k \in S
    PROVE  /\ Front(Append(t, k)) = t
           /\ t # <<>> => Front(Tail(Append(t, k))) = Tail(t)
<1> DEFINE b == Append(t, k)
<1>1. /\ b \in Seq(S) /\ Len(b) = Len(t) + 1 /\ Len(t) \in Nat
      /\ \A i \in 1..Len(t) : b[i] = t[i]
  OBVIOUS
<1>2. t = [i \in 1..Len(t) |-> t[i]]
  OBVIOUS
<1>3. Front(b) = t
  <2>1. SubSeq(b, 1, Len(b) - 1) = [i \in 1..Len(t) |-> b[i]]
    BY <1>1
  <2> QED
    BY <1>1, <1>2, <2>1 DEF Front
<1>4. ASSUME t # <<>>
      PROVE  Front(Tail(b)) = Tail(t)
  <2> DEFINE c == Tail(b)
  <2>1. c \in Seq(S) /\ Len(c) = Len(t) /\ \A i \in 1..Len(c) : c[i] = b[i + 1]
    BY <1>1
  <2>2. Len(Tail(t)) = Len(t) - 1 /\ Tail(t) = [i \in 1..(Len(t) - 1) |-> t[i + 1]]
    <3> DEFINE d == Tail(t)
    <3>1. d \in Seq(S) /\ Len(d) = Len(t) - 1 /\ \A i \in 1..Len(d) : d[i] = t[i + 1]
      BY <1>1, <1>4
    <3> HIDE DEF d
    <3>2. d = [i \in 1..Len(d) |-> d[i]]
      BY <3>1
    <3>3. d = [i \in 1..(Len(t) - 1) |-> t[i + 1]]
      BY <3>1, <3>2
    <3> QED
      BY <3>1, <3>3 DEF d
  <2> HIDE DEF c, b
  <2>3. SubSeq(c, 1, Len(c) - 1) = [i \in 1..(Len(t) - 1) |-> c[i]]
    BY <1>1, <2>1
  <2>4. \A i \in 1..(Len(t) - 1) : c[i] = t[i + 1]
    BY <1>1, <2>1
  <2> QED
    BY <2>2, <2>3, <2>4 DEF Front, c
<1> QED
  BY <1>3, <1>4

-----------------------------------------------------------------------------
(* The trie *)

\* A node is no longer than what is remembered, and one with children is shorter.
LEMMA NodesAreShort ==
    ASSUME KeyAssumption, NEW n \in Seq(Key)
    PROVE  /\ IsNode(n) => Len(n) <= MaxSeen
           /\ HasChild(n) => IsNode(n) /\ Len(n) < MaxSeen
<1>1. MaxSeen \in Nat /\ Len(n) \in Nat
      /\ \A b \in Bindings : b.keys \in Seq(Key) /\ Len(b.keys) <= MaxSeen
  BY DEF KeyAssumption
<1>2. ASSUME NEW b \in Bindings, IsPrefix(n, b.keys)
      PROVE  Len(n) <= MaxSeen /\ (n # b.keys => Len(n) < MaxSeen)
  <2> DEFINE m == b.keys
  <2>1. m \in Seq(Key) /\ Len(m) \in Nat /\ Len(m) <= MaxSeen
    BY <1>1
  <2>2. Len(n) <= Len(m) /\ SubSeq(n, 1, Len(n)) = SubSeq(m, 1, Len(n))
    BY <1>2 DEF IsPrefix
  <2> HIDE DEF m
  <2>3. Len(n) = Len(m) => n = m
    <3>1. /\ n = SubSeq(n, 1, Len(n)) /\ m = SubSeq(m, 1, Len(m))
      BY <2>1
    <3> QED
      BY <2>2, <3>1
  <2>4. Len(n) <= MaxSeen /\ (n # m => Len(n) < MaxSeen)
    BY <1>1, <2>1, <2>2, <2>3
  <2> QED
    BY <2>4 DEF m
<1> QED
  BY <1>2 DEF IsNode, HasChild, IsStrictPrefix

\* A binding that is found has the keys and the context, and none has no keys.
LEMMA BindingIs ==
    ASSUME KeyAssumption, NEW n, NEW c
    PROVE  /\ Binding(n, c) \in Bindings \cup {Nothing}
           /\ Binding(n, c) # Nothing => Binding(n, c).keys = n /\ c \in Binding(n, c).contexts
           /\ n = <<>> => Binding(n, c) = Nothing
<1> DEFINE found == {b \in Bindings : b.keys = n /\ c \in b.contexts}
<1>1. CASE found = {}
  BY <1>1 DEF Binding
<1>2. CASE found # {}
  <2>1. Binding(n, c) = CHOOSE b \in found : TRUE
    BY <1>2 DEF Binding
  <2>2. Binding(n, c) \in found
    BY <1>2, <2>1
  <2>3. \A b \in Bindings : b.keys # <<>>
    BY DEF KeyAssumption
  <2> QED
    BY <2>2, <2>3
<1> QED
  BY <1>1, <1>2

-----------------------------------------------------------------------------
(* The inductive invariant, as a predicate of a state s *)

Contexts == {ContextOf[o] : o \in Owner} \cup {"none"}
By == {"none", "key", "timeout", "digit", "history"}
Speech == [binding : Bindings \cup {Nothing}, context : Contexts, typed : Seq(Key),
           by : By, alive : BOOLEAN]
Condition == [input : Owner, owner : Owner, node : Seq(Key), due : BOOLEAN,
              timer : [set : BOOLEAN, owner : Owner, current : BOOLEAN],
              seen : [keys : Seq(Key), late : BOOLEAN], said : Speech]

\* The first half of KeysAreTrue.
SpokenTruly(u) ==
    u.binding # Nothing => /\ u.context \in u.binding.contexts
                           /\ IsSuffix(u.binding.keys, u.typed)
                           /\ u.by = "key" => ~HasChild(u.binding.keys)
                           /\ u.alive

\* What is pending waits for more keys.
Sound(s) == s \in Condition /\ SpokenTruly(s.said) /\ (s.node # <<>> => HasChild(s.node))

\* The timer belongs to a living router, and in the present epoch to the owner it knows of.
Timed(s) == s.timer.set => alive /\ (s.timer.current => s.timer.owner = s.owner)
Orderly(s) == Sound(s) /\ Timed(s)

\* What is pending was just typed by the owner the router knows of, if that one has the input still;
\* and a pause in it has passed the deadline.
Pending(s) ==
    s.owner = s.input => IsSuffix(s.node, s.seen.keys) /\ (s.node # <<>> /\ s.seen.late => s.due)

KeysInv == alive \in BOOLEAN /\ Orderly(State) /\ Pending(State)

-----------------------------------------------------------------------------
(* What the functions of a state keep *)

\* Without a prefix nothing can be wrong with it.
LEMMA NothingPending ==
    ASSUME NEW s \in Condition, s.node = <<>>
    PROVE  Pending(s)
<1>1. s.seen.keys \in Seq(Key)
  BY DEF Condition
<1>2. IsSuffix(<<>>, s.seen.keys)
  BY <1>1, SuffixSimple
<1> QED
  BY <1>2 DEF Pending

LEMMA ResetKeeps ==
    ASSUME NEW s, Orderly(s)
    PROVE  /\ Orderly(Reset(s)) /\ Pending(Reset(s)) /\ Reset(s).node = <<>>
           /\ Reset(s).input = s.input /\ Reset(s).owner = s.owner
           /\ Reset(s).seen = s.seen /\ Reset(s).said = s.said
<1> DEFINE tm == [s.timer EXCEPT !.current = FALSE]
<1>1. s \in Condition /\ s.timer \in [set : BOOLEAN, owner : Owner, current : BOOLEAN]
  BY DEF Orderly, Sound, Condition
<1>2. tm \in [set : BOOLEAN, owner : Owner, current : BOOLEAN] /\ tm.current = FALSE
  BY <1>1
<1>3. tm.set = s.timer.set
  BY <1>1
<1>4. <<>> \in Seq(Key)
  OBVIOUS
<1>5. Reset(s) = [s EXCEPT !.node = <<>>, !.due = FALSE, !.timer = tm]
  BY <1>1 DEF Reset, Condition
<1> HIDE DEF tm
<1>6. /\ Reset(s) \in Condition /\ Reset(s).node = <<>> /\ Reset(s).timer = tm
      /\ Reset(s).input = s.input /\ Reset(s).owner = s.owner
      /\ Reset(s).seen = s.seen /\ Reset(s).said = s.said
  BY <1>1, <1>2, <1>4, <1>5 DEF Condition
<1>7. Orderly(Reset(s))
  BY <1>2, <1>3, <1>6 DEF Orderly, Sound, Timed
<1> QED
  BY <1>6, <1>7, NothingPending

LEMMA ClearKeeps ==
    ASSUME NEW s, Sound(s)
    PROVE  /\ Orderly(Clear(s)) /\ Clear(s).timer = NoTimer
           /\ Clear(s).input = s.input /\ Clear(s).owner = s.owner /\ Clear(s).node = s.node
           /\ Clear(s).due = s.due /\ Clear(s).seen = s.seen /\ Clear(s).said = s.said
<1>1. s \in Condition
  BY DEF Sound
<1>2. NoTimer \in [set : BOOLEAN, owner : Owner, current : BOOLEAN] /\ NoTimer.set = FALSE
  <2>1. Owner # {}
    BY <1>1 DEF Condition
  <2> QED
    BY <2>1 DEF NoTimer
<1>3. /\ Clear(s) \in Condition /\ Clear(s).timer = NoTimer
      /\ Clear(s).input = s.input /\ Clear(s).owner = s.owner /\ Clear(s).node = s.node
      /\ Clear(s).due = s.due /\ Clear(s).seen = s.seen /\ Clear(s).said = s.said
  BY <1>1, <1>2 DEF Condition, Clear
<1> QED
  BY <1>2, <1>3 DEF Orderly, Sound, Timed

LEMMA SyncKeeps ==
    ASSUME NEW s, Orderly(s), Pending(s)
    PROVE  /\ Orderly(SyncContext(s)) /\ Pending(SyncContext(s))
           /\ SyncContext(s).owner = s.input /\ SyncContext(s).input = s.input
           /\ SyncContext(s) = s \/ SyncContext(s).node = <<>>
<1>1. CASE s.input = s.owner
  BY <1>1 DEF SyncContext
<1>2. CASE s.input # s.owner
  <2> DEFINE u == [s EXCEPT !.owner = s.input]
  <2>1. /\ u \in Condition /\ u.owner = s.input /\ u.input = s.input
        /\ u.node = s.node /\ u.said = s.said
    BY DEF Orderly, Sound, Condition
  <2>2. SyncContext(s) = Reset(Clear(u))
    BY <1>2 DEF SyncContext, CancelPending
  <2> HIDE DEF u
  <2>3. Sound(u)
    BY <2>1 DEF Orderly, Sound
  <2>4. Orderly(Clear(u)) /\ Clear(u).owner = s.input /\ Clear(u).input = s.input
    BY <2>1, <2>3, ClearKeeps
  <2> QED
    BY <2>2, <2>4, ResetKeeps
<1> QED
  BY <1>1, <1>2

LEMMA ScheduleKeeps ==
    ASSUME NEW s, Orderly(s), Pending(s), alive
    PROVE  Orderly(Schedule(s)) /\ Pending(Schedule(s))
<1>1. CASE s.node = <<>>
  BY <1>1, ClearKeeps DEF Schedule, Orderly, Pending
<1>2. CASE s.node # <<>>
  <2> DEFINE tm == [set |-> TRUE, owner |-> s.owner, current |-> TRUE]
  <2>1. s \in Condition /\ tm \in [set : BOOLEAN, owner : Owner, current : BOOLEAN] /\ tm.owner = s.owner
    BY DEF Orderly, Sound, Condition
  <2>2. Schedule(s) = [s EXCEPT !.timer = tm]
    BY <1>2 DEF Schedule
  <2> HIDE DEF tm
  <2>3. /\ Schedule(s) \in Condition /\ Schedule(s).timer = tm
        /\ Schedule(s).input = s.input /\ Schedule(s).owner = s.owner /\ Schedule(s).node = s.node
        /\ Schedule(s).due = s.due /\ Schedule(s).seen = s.seen /\ Schedule(s).said = s.said
    BY <2>1, <2>2 DEF Condition
  <2> QED
    BY <2>1, <2>3 DEF Orderly, Sound, Timed, Pending
<1> QED
  BY <1>1, <1>2

\* Without a binding nothing is dispatched.
LEMMA NothingEmitted ==
    ASSUME NEW s, NEW by, NEW typed, NEW o
    PROVE  Emit(s, Nothing, by, typed, o) = s
  BY DEF Emit

\* A dispatch is true if its binding fits what was typed.
LEMMA EmitKeeps ==
    ASSUME alive, NEW s, Orderly(s), s.node = <<>>,
           NEW b \in Bindings \cup {Nothing}, NEW by \in By, NEW typed \in Seq(Key),
           NEW o \in Owner \cup {Disabled}, alive \in BOOLEAN,
           b # Nothing => /\ ContextOf[s.input] \in b.contexts /\ IsSuffix(b.keys, typed)
                          /\ by = "key" => ~HasChild(b.keys)
    PROVE  /\ Orderly(Emit(s, b, by, typed, o)) /\ Pending(Emit(s, b, by, typed, o))
           /\ Emit(s, b, by, typed, o).node = <<>>
<1>1. s \in Condition
  BY DEF Orderly, Sound
<1>2. CASE b = Nothing \/ o = Disabled
  BY <1>1, <1>2, NothingPending DEF Emit
<1>3. CASE b # Nothing /\ o # Disabled
  <2> DEFINE word == [binding |-> b, context |-> ContextOf[s.input], typed |-> typed,
                      by |-> by, alive |-> alive]
             t == [s EXCEPT !.seen = NothingSeen, !.said = word]
             u == Emit(s, b, by, typed, o)
  <2>1. word \in Speech /\ SpokenTruly(word)
    <3>1. s.input \in Owner
      BY <1>1 DEF Condition
    <3>2. ContextOf[s.input] \in Contexts
      BY <3>1 DEF Contexts
    <3>3. word \in Speech
      BY <3>2 DEF Speech, By
    <3>4. SpokenTruly(word)
      BY DEF SpokenTruly
    <3> QED
      BY <3>3, <3>4
  <2>2. NothingSeen \in [keys : Seq(Key), late : BOOLEAN]
    OBVIOUS
  <2>3. u = IF o = t.input THEN t ELSE [t EXCEPT !.input = o, !.seen = NothingSeen]
    BY <1>3 DEF Emit, Passed
  <2> HIDE DEF word
  <2>4. /\ t \in Condition /\ t.node = <<>> /\ t.said = word /\ t.timer = s.timer /\ t.owner = s.owner
    BY <1>1, <2>1, <2>2 DEF Condition
  <2> HIDE DEF t, u
  <2>5. /\ u \in Condition /\ u.node = <<>> /\ u.said = word /\ u.timer = s.timer /\ u.owner = s.owner
    BY <1>3, <2>2, <2>3, <2>4 DEF Condition
  <2>6. Orderly(u)
    BY <2>1, <2>5 DEF Orderly, Sound, Timed
  <2>7. Pending(u)
    BY <2>5, NothingPending
  <2> QED
    BY <2>5, <2>6, <2>7 DEF u
<1> QED
  BY <1>2, <1>3

\* The binding of what is pending is the one that was typed.
LEMMA ExpireKeeps ==
    ASSUME KeyAssumption, alive, alive \in BOOLEAN, NEW s, Orderly(s), Pending(s), s.owner = s.input,
           NEW o \in Owner \cup {Disabled}
    PROVE  Orderly(Expire(s, o)) /\ Pending(Expire(s, o)) /\ Expire(s, o).node = <<>>
<1> DEFINE b == Binding(s.node, ContextOf[s.input])
           r == Reset(s)
<1>1. Orderly(r) /\ r.node = <<>> /\ r.input = s.input
  BY ResetKeeps
<1>2. /\ b \in Bindings \cup {Nothing}
      /\ b # Nothing => b.keys = s.node /\ ContextOf[s.input] \in b.contexts
  BY BindingIs
<1>3. s.seen.keys \in Seq(Key) /\ IsSuffix(s.node, s.seen.keys)
  BY DEF Orderly, Sound, Pending, Condition
<1>4. Expire(s, o) = Emit(r, b, "timeout", s.seen.keys, o)
  BY DEF Expire
<1> HIDE DEF b, r
<1>5. "timeout" \in By /\ "timeout" # "key"
  BY DEF By
<1>6. b # Nothing => /\ ContextOf[r.input] \in b.contexts /\ IsSuffix(b.keys, s.seen.keys)
                     /\ "timeout" = "key" => ~HasChild(b.keys)
  BY <1>1, <1>2, <1>3, <1>5
<1> QED
  BY <1>1, <1>2, <1>3, <1>4, <1>5, <1>6, EmitKeeps

\* What is remembered of the keys k and another one: m, of which the last are kept.  It ends with the
\* prefix n and the key, and before the key with the prefix.
LEMMA KeysRemembered ==
    ASSUME KeyAssumption, NEW n \in Seq(Key), NEW k \in Seq(Key), NEW key \in Key, NEW late \in BOOLEAN,
           IsSuffix(n, k), n # <<>> => ~late /\ HasChild(n),
           NEW m, m = IF late THEN <<key>> ELSE Append(k, key),
           NEW typed, typed = IF Len(m) > MaxSeen THEN Tail(m) ELSE m
    PROVE  /\ typed \in Seq(Key)
           /\ IsNode(Append(n, key)) => IsSuffix(Append(n, key), typed)
           /\ n # <<>> => IsSuffix(n, Front(typed)) /\ Front(typed) \in Seq(Key)
<1>1. MaxSeen \in Nat /\ Len(k) \in Nat /\ Len(n) \in Nat
  BY DEF KeyAssumption
<1>2. PICK a \in Seq(Key) : a = Append(n, key) /\ Len(a) = Len(n) + 1 /\ Len(a) \in Nat
  <2>1. Append(n, key) \in Seq(Key) /\ Len(Append(n, key)) = Len(n) + 1
    OBVIOUS
  <2>2. Len(Append(n, key)) \in Nat
    BY <2>1
  <2> QED
    BY <2>1, <2>2, Zenon
<1>3. IsSuffix(a, m) /\ m \in Seq(Key) /\ Len(m) \in Nat /\ m # <<>>
  <2>1. CASE late
    <3>1. n = <<>> /\ m = <<key>>
      BY <2>1
    <3>2. Append(<<>>, key) = <<key>>
      OBVIOUS
    <3>3. a = m
      BY <1>2, <3>1, <3>2
    <3>4. m \in Seq(Key) /\ Len(m) \in Nat /\ m # <<>>
      BY <3>1
    <3>5. IsSuffix(m, m)
      BY <3>4, SuffixSimple
    <3> QED
      BY <3>3, <3>4, <3>5
  <2>2. CASE ~late
    <3>1. m = Append(k, key)
      BY <2>2
    <3>2. IsSuffix(Append(n, key), Append(k, key))
      BY SuffixAppend
    <3>3. m \in Seq(Key) /\ Len(m) \in Nat /\ m # <<>>
      BY <3>1
    <3> QED
      BY <1>2, <3>1, <3>2, <3>3
  <2> QED
    BY <2>1, <2>2
<1>4. typed \in Seq(Key)
  BY <1>3
<1>5. IsNode(a) => IsSuffix(a, typed)
  <2>1. CASE Len(m) > MaxSeen
    <3>1. IsNode(a) => Len(a) <= MaxSeen
      BY <1>2, NodesAreShort
    <3>2. IsNode(a) => Len(a) < Len(m)
      BY <1>1, <1>2, <1>3, <2>1, <3>1
    <3>3. IsNode(a) => IsSuffix(a, Tail(m))
      BY <1>2, <1>3, <3>2, SuffixTail
    <3> QED
      BY <2>1, <3>3
  <2>2. CASE ~(Len(m) > MaxSeen)
    BY <1>3, <2>2
  <2> QED
    BY <2>1, <2>2
<1>6. ASSUME n # <<>>
      PROVE  IsSuffix(n, Front(typed)) /\ Front(typed) \in Seq(Key)
  <2>1. m = Append(k, key) /\ HasChild(n) /\ Len(m) = Len(k) + 1
    BY <1>6
  <2>2. Len(n) < MaxSeen
    BY <2>1, NodesAreShort
  <2>3. Len(n) <= Len(k)
    BY SuffixIs
  <2>4. k # <<>>
    BY <1>1, <1>6, <2>3
  <2>5. CASE Len(m) > MaxSeen
    <3>1. Len(n) < Len(k)
      BY <1>1, <2>1, <2>2, <2>5
    <3>2. IsSuffix(n, Tail(k)) /\ Tail(k) \in Seq(Key)
      BY <3>1, SuffixTail
    <3>3. Front(Tail(Append(k, key))) = Tail(k)
      BY <2>4, FrontIs
    <3> QED
      BY <2>1, <2>5, <3>2, <3>3
  <2>6. CASE ~(Len(m) > MaxSeen)
    <3>1. Front(Append(k, key)) = k
      BY FrontIs
    <3> QED
      BY <2>1, <2>6, <3>1
  <2> QED
    BY <2>5, <2>6
<1> QED
  BY <1>2, <1>4, <1>5, <1>6

\* What the observer notes of a key, unless the prefix is to be expired first.
LEMMA NotedIs ==
    ASSUME KeyAssumption, NEW s, Orderly(s), Pending(s), s.owner = s.input, NEW key \in Key,
           s.node # <<>> => ~s.due
    PROVE  /\ Orderly(Noted(s, key)) /\ Noted(s, key).owner = Noted(s, key).input
           /\ Noted(s, key).node = s.node /\ ~Noted(s, key).seen.late
           /\ Noted(s, key).seen.keys \in Seq(Key)
           /\ IsNode(Append(s.node, key)) => IsSuffix(Append(s.node, key), Noted(s, key).seen.keys)
           /\ s.node # <<>> => /\ IsSuffix(s.node, Front(Noted(s, key).seen.keys))
                               /\ Front(Noted(s, key).seen.keys) \in Seq(Key)
<1>1. /\ s \in Condition /\ IsSuffix(s.node, s.seen.keys)
      /\ s.node # <<>> => ~s.seen.late /\ HasChild(s.node)
  BY DEF Orderly, Sound, Pending
<1>2. s.seen.keys \in Seq(Key) /\ s.node \in Seq(Key) /\ s.seen.late \in BOOLEAN
  BY <1>1 DEF Condition
<1>3. PICK m : m = IF s.seen.late THEN <<key>> ELSE Append(s.seen.keys, key)
  OBVIOUS
<1>4. PICK typed : typed = IF Len(m) > MaxSeen THEN Tail(m) ELSE m
  OBVIOUS
<1>5. /\ typed \in Seq(Key)
      /\ IsNode(Append(s.node, key)) => IsSuffix(Append(s.node, key), typed)
      /\ s.node # <<>> => IsSuffix(s.node, Front(typed)) /\ Front(typed) \in Seq(Key)
  <2> DEFINE n == s.node
             k == s.seen.keys
             late == s.seen.late
  <2>1. /\ n \in Seq(Key) /\ k \in Seq(Key) /\ late \in BOOLEAN /\ IsSuffix(n, k)
        /\ n # <<>> => ~late /\ HasChild(n)
        /\ m = IF late THEN <<key>> ELSE Append(k, key)
    BY <1>1, <1>2, <1>3
  <2> HIDE DEF n, k, late
  <2>2. /\ typed \in Seq(Key)
        /\ IsNode(Append(n, key)) => IsSuffix(Append(n, key), typed)
        /\ n # <<>> => IsSuffix(n, Front(typed)) /\ Front(typed) \in Seq(Key)
    BY <1>4, <2>1, KeysRemembered
  <2> QED
    BY <2>2 DEF n
<1>6. PICK note : note = [keys |-> typed, late |-> FALSE]
  OBVIOUS
<1>7. Noted(s, key) = [s EXCEPT !.seen = note]
  BY <1>3, <1>4, <1>6 DEF Noted
<1>8. note \in [keys : Seq(Key), late : BOOLEAN] /\ note.keys = typed /\ ~note.late
  BY <1>5, <1>6
<1>9. /\ Noted(s, key) \in Condition /\ Noted(s, key).seen = note
      /\ Noted(s, key).input = s.input /\ Noted(s, key).owner = s.owner /\ Noted(s, key).node = s.node
      /\ Noted(s, key).timer = s.timer /\ Noted(s, key).said = s.said
  BY <1>1, <1>7, <1>8 DEF Condition
<1>10. Orderly(Noted(s, key))
  BY <1>9 DEF Orderly, Sound, Timed
<1> QED
  BY <1>5, <1>8, <1>9, <1>10

\* What a key does after it was noted (or, held, was not).
LEMMA AdvanceKeeps ==
    ASSUME KeyAssumption, alive, alive \in BOOLEAN, NEW s, Orderly(s), s.owner = s.input,
           NEW key \in Key, NEW repeat \in BOOLEAN, NEW typed \in Seq(Key), NEW o \in Owner \cup {Disabled},
           repeat => Pending(s) /\ typed = <<key>>,
           ~repeat => /\ typed = s.seen.keys /\ ~s.seen.late
                      /\ IsNode(Append(s.node, key)) => IsSuffix(Append(s.node, key), typed)
                      /\ s.node # <<>> => IsSuffix(s.node, Front(typed)) /\ Front(typed) \in Seq(Key)
    PROVE  Orderly(Advance(s, key, repeat, typed, o)) /\ Pending(Advance(s, key, repeat, typed, o))
<1> DEFINE n == Append(s.node, key)
           r == Reset(s)
           c == ContextOf[s.input]
<1>1. s \in Condition /\ s.node \in Seq(Key) /\ n \in Seq(Key)
  BY DEF Orderly, Sound, Condition
<1>2. Orderly(r) /\ Pending(r) /\ r.node = <<>> /\ r.input = s.input
  BY ResetKeeps
<1>3. CASE repeat /\ s.node # <<>>
  BY <1>3 DEF Advance
<1>4. ASSUME ~(repeat /\ s.node # <<>>), ~IsNode(n)
      PROVE  Orderly(Advance(s, key, repeat, typed, o)) /\ Pending(Advance(s, key, repeat, typed, o))
  <2> DEFINE b == Binding(s.node, c)
  <2>1. Advance(s, key, repeat, typed, o) = Unknown(s, key, typed, o)
    BY <1>4 DEF Advance
  <2>2. /\ b \in Bindings \cup {Nothing}
        /\ b # Nothing => b.keys = s.node /\ c \in b.contexts /\ s.node # <<>>
    BY BindingIs
  <2>3. \/ Unknown(s, key, typed, o) = r
        \/ Unknown(s, key, typed, o) = Emit(r, b, "digit", Front(typed), o)
    BY DEF Unknown
  <2> HIDE DEF b, c, r
  <2>4. CASE b = Nothing
    BY <1>2, <2>1, <2>3, <2>4, NothingEmitted
  <2>5. CASE b # Nothing
    <3>1. ~repeat /\ IsSuffix(b.keys, Front(typed)) /\ Front(typed) \in Seq(Key)
      BY <1>4, <2>2, <2>5
    <3>2. "digit" \in By /\ "digit" # "key"
      BY DEF By
    <3>3. /\ ContextOf[r.input] \in b.contexts /\ IsSuffix(b.keys, Front(typed))
          /\ "digit" = "key" => ~HasChild(b.keys)
      BY <1>2, <2>2, <2>5, <3>1, <3>2 DEF c
    <3>4. /\ Orderly(Emit(r, b, "digit", Front(typed), o))
          /\ Pending(Emit(r, b, "digit", Front(typed), o))
      BY <1>2, <2>2, <3>1, <3>2, <3>3, EmitKeeps
    <3> QED
      BY <1>2, <2>1, <2>3, <3>4
  <2> QED
    BY <2>4, <2>5
<1>5. ASSUME ~(repeat /\ s.node # <<>>), IsNode(n), HasChild(n)
      PROVE  Orderly(Advance(s, key, repeat, typed, o)) /\ Pending(Advance(s, key, repeat, typed, o))
  <2>1. Advance(s, key, repeat, typed, o) = Inner(s, n, repeat)
    BY <1>5 DEF Advance
  <2>2. CASE repeat
    BY <1>2, <2>1, <2>2 DEF Inner
  <2>3. CASE ~repeat
    <3> DEFINE tm == [s.timer EXCEPT !.current = FALSE]
               u == Inner(s, n, repeat)
    <3>1. s.timer \in [set : BOOLEAN, owner : Owner, current : BOOLEAN]
      BY <1>1 DEF Condition
    <3>2. tm \in [set : BOOLEAN, owner : Owner, current : BOOLEAN] /\ tm.current = FALSE
      BY <3>1
    <3>3. tm.set = s.timer.set
      BY <3>1
    <3>4. u = [s EXCEPT !.node = n, !.due = FALSE, !.timer = tm]
      BY <1>1, <2>3 DEF Inner, Condition
    <3> HIDE DEF tm, u, n
    <3>5. /\ u \in Condition /\ u.node = n /\ u.timer = tm /\ u.input = s.input /\ u.owner = s.owner
          /\ u.seen = s.seen /\ u.said = s.said
      BY <1>1, <3>2, <3>4 DEF Condition
    <3>6. Orderly(u)
      BY <1>5, <3>2, <3>3, <3>5 DEF Orderly, Sound, Timed
    <3>7. IsSuffix(n, s.seen.keys) /\ ~s.seen.late
      BY <1>5, <2>3 DEF n
    <3>8. Pending(u)
      BY <3>5, <3>7 DEF Pending
    <3> QED
      BY <2>1, <3>6, <3>8 DEF u
  <2> QED
    BY <2>2, <2>3
<1>6. ASSUME ~(repeat /\ s.node # <<>>), IsNode(n), ~HasChild(n)
      PROVE  Orderly(Advance(s, key, repeat, typed, o)) /\ Pending(Advance(s, key, repeat, typed, o))
  <2> DEFINE b == Binding(n, c)
  <2>1. Advance(s, key, repeat, typed, o) = Leaf(s, n, repeat, typed, o)
    BY <1>6 DEF Advance
  <2>2. /\ b \in Bindings \cup {Nothing}
        /\ b # Nothing => b.keys = n /\ c \in b.contexts
    BY BindingIs
  <2>3. \/ Leaf(s, n, repeat, typed, o) = r
        \/ Leaf(s, n, repeat, typed, o) = Emit(r, b, "key", typed, o)
    BY DEF Leaf
  <2>4. IsSuffix(n, typed)
    <3>1. CASE repeat
      <4>1. s.node = <<>> /\ typed = <<key>>
        BY <1>6, <3>1
      <4>2. Append(<<>>, key) = <<key>>
        OBVIOUS
      <4>3. n = typed
        BY <4>1, <4>2
      <4> QED
        BY <1>1, <4>3, SuffixSimple
    <3>2. CASE ~repeat
      BY <1>6, <3>2
    <3> QED
      BY <3>1, <3>2
  <2> HIDE DEF b, c, r, n
  <2>5. "key" \in By
    BY DEF By
  <2>6. b # Nothing => /\ ContextOf[r.input] \in b.contexts /\ IsSuffix(b.keys, typed)
                       /\ "key" = "key" => ~HasChild(b.keys)
    BY <1>2, <1>6, <2>2, <2>4 DEF c
  <2>7. Orderly(Emit(r, b, "key", typed, o)) /\ Pending(Emit(r, b, "key", typed, o))
    BY <1>2, <2>2, <2>5, <2>6, EmitKeeps
  <2> QED
    BY <1>2, <2>1, <2>3, <2>7
<1> QED
  BY <1>3, <1>4, <1>5, <1>6

LEMMA CancelKeeps ==
    ASSUME NEW s, Orderly(s)
    PROVE  /\ Orderly(CancelPending(s)) /\ Pending(CancelPending(s)) /\ CancelPending(s).node = <<>>
           /\ CancelPending(s).input = s.input
<1>1. Orderly(Clear(s)) /\ Clear(s).input = s.input
  BY ClearKeeps DEF Orderly
<1> QED
  BY <1>1, ResetKeeps DEF CancelPending

\* The observer begins anew, when nothing is pending or the input passes to one who is not known of.
LEMMA ForgetKeeps ==
    ASSUME NEW s, Orderly(s), NEW i \in Owner, s.node = <<>> \/ s.owner # i
    PROVE  /\ Orderly([s EXCEPT !.input = i, !.seen = NothingSeen])
           /\ Pending([s EXCEPT !.input = i, !.seen = NothingSeen])
<1>1. PICK t : t = [s EXCEPT !.input = i, !.seen = NothingSeen]
  OBVIOUS
<1>2. NothingSeen \in [keys : Seq(Key), late : BOOLEAN]
  OBVIOUS
<1>3. s \in Condition
  BY DEF Orderly, Sound
<1>4. /\ t \in Condition /\ t.node = s.node /\ t.said = s.said /\ t.timer = s.timer /\ t.owner = s.owner
      /\ t.input = i
  BY <1>1, <1>2, <1>3 DEF Condition
<1>5. Orderly(t)
  BY <1>4 DEF Orderly, Sound, Timed
<1>6. Pending(t)
  BY <1>4, NothingPending DEF Pending
<1> QED
  BY <1>1, <1>5, <1>6

-----------------------------------------------------------------------------
(* The handlers *)

\* What becomes of the state is what the functions say.
LEMMA BecomesKeeps ==
    ASSUME alive \in BOOLEAN, UNCHANGED alive, NEW s, Orderly(s), Pending(s), Becomes(s)
    PROVE  KeysInv'
<1>1. s \in Condition
  BY DEF Orderly, Sound
<1>2. State' = s
  BY <1>1 DEF Becomes, State, Condition
<1>3. Orderly(State)'
  BY <1>2 DEF Orderly, Sound, Timed
<1>4. Pending(State)'
  BY <1>2 DEF Pending
<1> QED
  BY <1>3, <1>4 DEF KeysInv

LEMMA KeyDownKeeps ==
    ASSUME KeyAssumption, KeysInv, NEW key \in Key, NEW repeat \in BOOLEAN,
           NEW o1 \in Owner \cup {Disabled}, NEW o2 \in Owner \cup {Disabled}, KeyDown(key, repeat, o1, o2)
    PROVE  KeysInv'
<1>1. alive /\ alive \in BOOLEAN /\ UNCHANGED alive
  BY DEF KeyDown, KeysInv
<1>2. PICK known : known = SyncContext(State)
  OBVIOUS
<1>3. Orderly(known) /\ Pending(known) /\ known.owner = known.input
  BY <1>2, SyncKeeps DEF KeysInv
<1>4. PICK late \in BOOLEAN : late = (known.node # <<>> /\ known.due)
  OBVIOUS
<1>5. PICK ready : ready = IF late THEN SyncContext(Expire(Clear(known), o1)) ELSE known
  OBVIOUS
<1>6. /\ Orderly(ready) /\ Pending(ready) /\ ready.owner = ready.input
      /\ ready.node # <<>> => ~ready.due
  <2>1. CASE ~late
    BY <1>3, <1>4, <1>5, <2>1
  <2>2. CASE late
    <3>1. PICK c : c = Clear(known)
      OBVIOUS
    <3>2. /\ Orderly(c) /\ c.input = known.input /\ c.owner = known.owner /\ c.node = known.node
          /\ c.due = known.due /\ c.seen = known.seen
      BY <1>3, <3>1, ClearKeeps DEF Orderly
    <3>3. Pending(c) /\ c.owner = c.input
      BY <1>3, <3>2 DEF Pending
    <3>4. PICK e : e = Expire(c, o1)
      OBVIOUS
    <3>5. Orderly(e) /\ Pending(e) /\ e.node = <<>>
      BY <1>1, <3>2, <3>3, <3>4, ExpireKeeps
    <3>6. ready = SyncContext(e)
      BY <1>5, <2>2, <3>1, <3>4
    <3> QED
      BY <3>5, <3>6, SyncKeeps
  <2> QED
    BY <2>1, <2>2
<1>7. PICK noted : noted = IF repeat THEN ready ELSE Noted(ready, key)
  OBVIOUS
<1>8. PICK typed : typed = IF repeat THEN <<key>> ELSE noted.seen.keys
  OBVIOUS
<1>9. PICK t : t = Advance(noted, key, repeat, typed, o2)
  OBVIOUS
<1>10. Orderly(t) /\ Pending(t)
  <2>1. CASE repeat
    <3>1. noted = ready /\ typed = <<key>> /\ typed \in Seq(Key)
      BY <1>7, <1>8, <2>1
    <3> QED
      BY <1>1, <1>6, <1>9, <2>1, <3>1, AdvanceKeeps
  <2>2. CASE ~repeat
    <3>1. noted = Noted(ready, key) /\ typed = noted.seen.keys
      BY <1>7, <1>8, <2>2
    <3>2. /\ Orderly(noted) /\ noted.owner = noted.input
          /\ noted.node = ready.node /\ ~noted.seen.late /\ typed \in Seq(Key)
          /\ IsNode(Append(noted.node, key)) => IsSuffix(Append(noted.node, key), typed)
          /\ noted.node # <<>> => IsSuffix(noted.node, Front(typed)) /\ Front(typed) \in Seq(Key)
      BY <1>6, <3>1, NotedIs
    <3> QED
      BY <1>1, <1>9, <2>2, <3>1, <3>2, AdvanceKeeps
  <2> QED
    BY <2>1, <2>2
<1>11. Becomes(Schedule(t))
  BY <1>2, <1>4, <1>5, <1>7, <1>8, <1>9 DEF KeyDown
<1>12. PICK u : u = Schedule(t)
  OBVIOUS
<1>13. Orderly(u) /\ Pending(u)
  BY <1>1, <1>10, <1>12, ScheduleKeeps
<1> QED
  BY <1>1, <1>11, <1>12, <1>13, BecomesKeeps

LEMMA HistoryKeyKeeps ==
    ASSUME KeyAssumption, KeysInv, NEW key \in Key, NEW repeat \in BOOLEAN,
           NEW o \in Owner \cup {Disabled}, HistoryKey(key, repeat, o)
    PROVE  KeysInv'
<1>1. alive /\ alive \in BOOLEAN /\ UNCHANGED alive
  BY DEF HistoryKey, KeysInv
<1>2. PICK s : s = CancelPending(SyncContext(State))
  OBVIOUS
<1>3. Orderly(s) /\ Pending(s) /\ s.node = <<>>
  BY <1>2, SyncKeeps, CancelKeeps DEF KeysInv
<1>4. PICK f : f = [s EXCEPT !.seen = NothingSeen]
  OBVIOUS
<1>5. Orderly(f) /\ Pending(f) /\ f.node = <<>> /\ f.input = s.input
  <2>1. s \in Condition
    BY <1>3 DEF Orderly, Sound
  <2>2. f = [s EXCEPT !.input = s.input, !.seen = NothingSeen] /\ s.input \in Owner
        /\ f.node = s.node /\ f.input = s.input
    BY <1>4, <2>1 DEF Condition
  <2> QED
    BY <1>3, <2>2, ForgetKeeps
<1>6. PICK b : b = Binding(<<key>>, "navigation")
  OBVIOUS
<1>7. PICK t : t = IF repeat \/ ContextOf[s.input] # "navigation" THEN f
                   ELSE Emit(f, b, "history", <<key>>, o)
  OBVIOUS
<1>8. Becomes(t)
  BY <1>2, <1>4, <1>6, <1>7 DEF HistoryKey
<1>9. Orderly(t) /\ Pending(t)
  <2>1. CASE repeat \/ ContextOf[s.input] # "navigation"
    BY <1>5, <1>7, <2>1
  <2>2. CASE ContextOf[s.input] = "navigation" /\ ~repeat
    <3>1. /\ b \in Bindings \cup {Nothing}
          /\ b # Nothing => b.keys = <<key>> /\ "navigation" \in b.contexts
      BY <1>6, BindingIs
    <3>2. <<key>> \in Seq(Key)
      OBVIOUS
    <3>3. IsSuffix(<<key>>, <<key>>)
      BY <3>2, SuffixSimple
    <3>4. "history" \in By /\ "history" # "key"
      BY DEF By
    <3>5. b # Nothing => /\ ContextOf[f.input] \in b.contexts /\ IsSuffix(b.keys, <<key>>)
                         /\ "history" = "key" => ~HasChild(b.keys)
      BY <1>5, <2>2, <3>1, <3>3, <3>4
    <3>6. Orderly(Emit(f, b, "history", <<key>>, o)) /\ Pending(Emit(f, b, "history", <<key>>, o))
      BY <1>1, <1>5, <3>1, <3>2, <3>4, <3>5, EmitKeeps
    <3> QED
      BY <1>7, <2>2, <3>6
  <2> QED
    BY <2>1, <2>2
<1> QED
  BY <1>1, <1>8, <1>9, BecomesKeeps

LEMMA FiresKeeps ==
    ASSUME KeyAssumption, KeysInv, NEW o \in Owner \cup {Disabled}, Fires(o)
    PROVE  KeysInv'
<1>1. PICK st : st = State
  OBVIOUS
<1>2. Orderly(st) /\ Pending(st) /\ alive \in BOOLEAN /\ UNCHANGED alive
      /\ st.timer = timer /\ st.due = due
  BY <1>1 DEF KeysInv, Fires, State
<1>3. alive
  BY <1>2 DEF Fires, Orderly, Timed
<1>4. PICK s : s = Clear(st)
  OBVIOUS
<1>5. /\ Orderly(s) /\ s.input = st.input /\ s.owner = st.owner /\ s.node = st.node
      /\ s.due = st.due /\ s.seen = st.seen
  BY <1>2, <1>4, ClearKeeps DEF Orderly
<1>6. Pending(s)
  BY <1>2, <1>5 DEF Pending
<1>7. PICK t : t = IF s.input # timer.owner THEN SyncContext(s)
                   ELSE IF timer.current /\ due THEN Schedule(Expire(s, o))
                   ELSE Schedule(s)
  OBVIOUS
<1>8. Becomes(t)
  BY <1>1, <1>4, <1>7 DEF Fires
<1>9. Orderly(t) /\ Pending(t)
  <2>1. CASE s.input # timer.owner
    BY <1>5, <1>6, <1>7, <2>1, SyncKeeps
  <2>2. CASE s.input = timer.owner /\ timer.current /\ due
    <3>1. s.owner = s.input
      BY <1>2, <1>5, <2>2 DEF Fires, Orderly, Timed
    <3>2. PICK e : e = Expire(s, o)
      OBVIOUS
    <3>3. Orderly(e) /\ Pending(e)
      BY <1>2, <1>3, <1>5, <1>6, <3>1, <3>2, ExpireKeeps
    <3>4. t = Schedule(e)
      BY <1>7, <2>2, <3>2
    <3> QED
      BY <1>3, <3>3, <3>4, ScheduleKeeps
  <2>3. CASE s.input = timer.owner /\ ~(timer.current /\ due)
    BY <1>3, <1>5, <1>6, <1>7, <2>3, ScheduleKeeps
  <2> QED
    BY <2>1, <2>2, <2>3
<1> QED
  BY <1>2, <1>8, <1>9, BecomesKeeps

\* The other handlers.
LEMMA OthersKeep ==
    ASSUME KeysInv, OtherKey \/ Told \/ Revoked \/ \E o \in Owner : PassInput(o)
    PROVE  KeysInv'
<1>1. PICK st : st = State
  OBVIOUS
<1>2. Orderly(st) /\ Pending(st) /\ alive \in BOOLEAN /\ UNCHANGED alive
  BY <1>1 DEF KeysInv, OtherKey, Told, Revoked, PassInput
<1>3. CASE OtherKey
  <2>1. PICK s : s = CancelPending(SyncContext(st))
    OBVIOUS
  <2>2. Orderly(s) /\ s.node = <<>>
    BY <1>2, <2>1, SyncKeeps, CancelKeeps
  <2>3. PICK t : t = [s EXCEPT !.seen = NothingSeen]
    OBVIOUS
  <2>4. t = [s EXCEPT !.input = s.input, !.seen = NothingSeen] /\ s.input \in Owner
    BY <2>2, <2>3 DEF Orderly, Sound, Condition
  <2>5. Orderly(t) /\ Pending(t)
    BY <2>2, <2>4, ForgetKeeps
  <2>6. Becomes(t)
    BY <1>1, <1>3, <2>1, <2>3 DEF OtherKey
  <2> QED
    BY <1>2, <2>5, <2>6, BecomesKeeps
<1>4. CASE Told
  <2>1. PICK t : t = SyncContext(st)
    OBVIOUS
  <2>2. Orderly(t) /\ Pending(t) /\ Becomes(t)
    BY <1>1, <1>2, <1>4, <2>1, SyncKeeps DEF Told
  <2> QED
    BY <1>2, <2>2, BecomesKeeps
<1>5. CASE Revoked
  <2>1. PICK t : t = CancelPending(st)
    OBVIOUS
  <2>2. Orderly(t) /\ Pending(t) /\ Becomes(t)
    BY <1>1, <1>2, <1>5, <2>1, CancelKeeps DEF Revoked
  <2> QED
    BY <1>2, <2>2, BecomesKeeps
<1>6. ASSUME NEW o \in Owner, PassInput(o)
      PROVE  KeysInv'
  <2>1. st.input # o /\ st.owner # o
    BY <1>1, <1>6 DEF PassInput, State
  <2>2. PICK t : t = [st EXCEPT !.input = o, !.seen = NothingSeen]
    OBVIOUS
  <2>3. Becomes(t)
    BY <1>1, <1>6, <2>1, <2>2 DEF PassInput, Passed
  <2>4. Orderly(t) /\ Pending(t)
    BY <1>2, <2>1, <2>2, ForgetKeeps
  <2> QED
    BY <1>2, <2>3, <2>4, BecomesKeeps
<1> QED
  BY <1>3, <1>4, <1>5, <1>6

LEMMA PauseKeeps ==
    ASSUME KeysInv, Pause
    PROVE  KeysInv'
<1>1. /\ Orderly(State) /\ Pending(State) /\ alive \in BOOLEAN
      /\ UNCHANGED <<input, owner, node, timer, alive, said>> /\ due' = (node # <<>>)
      /\ seen' = [seen EXCEPT !.late = TRUE]
  BY DEF KeysInv, Pause
<1>2. State \in Condition /\ seen \in [keys : Seq(Key), late : BOOLEAN]
  BY <1>1 DEF Orderly, Sound, Condition, State
<1>3. seen' \in [keys : Seq(Key), late : BOOLEAN] /\ seen'.keys = seen.keys /\ due' \in BOOLEAN
  BY <1>1, <1>2
<1>4. /\ input' \in Owner /\ owner' \in Owner /\ node' \in Seq(Key) /\ said' \in Speech
      /\ timer' \in [set : BOOLEAN, owner : Owner, current : BOOLEAN]
  BY <1>1, <1>2 DEF State, Condition
<1>5. /\ State' \in Condition
      /\ State'.input = State.input /\ State'.owner = State.owner /\ State'.node = State.node
      /\ State'.timer = State.timer /\ State'.said = State.said /\ State'.due = due'
      /\ State'.seen = seen' /\ State.seen = seen /\ State.node = node
  <2>1. State' \in Condition
    BY <1>3, <1>4 DEF State, Condition
  <2> QED
    BY <1>1, <2>1 DEF State
<1>6. Orderly(State)'
  BY <1>1, <1>5 DEF Orderly, Sound, Timed
<1>7. Pending(State)'
  BY <1>1, <1>3, <1>5 DEF Pending
<1> QED
  BY <1>1, <1>6, <1>7 DEF KeysInv

LEMMA DisposeKeeps ==
    ASSUME KeysInv, Dispose
    PROVE  KeysInv'
<1>1. PICK s : s = Clear(State)
  OBVIOUS
<1>2. /\ Orderly(s) /\ s.timer = NoTimer
      /\ s.input = input /\ s.owner = owner /\ s.node = node
      /\ s.due = due /\ s.seen = seen /\ s.said = said
  BY <1>1, ClearKeeps DEF KeysInv, Orderly, State
<1>3. s \in Condition /\ ~NoTimer.set
  BY <1>2 DEF Orderly, Sound, NoTimer
<1>4. State' = s
  BY <1>2, <1>3 DEF Dispose, State, Condition
<1>5. Orderly(State)'
  BY <1>2, <1>3, <1>4 DEF Orderly, Sound, Timed
<1>6. Pending(State)'
  <2>1. Pending(s)
    BY <1>2 DEF KeysInv, Pending, State
  <2> QED
    BY <1>4, <2>1 DEF Pending
<1> QED
  BY <1>5, <1>6 DEF KeysInv, Dispose

-----------------------------------------------------------------------------
(* The theorem *)

LEMMA KeysInitially == ASSUME KeyAssumption, Init PROVE KeysInv
<1>1. <<>> \in Seq(Key) /\ NothingSeen \in [keys : Seq(Key), late : BOOLEAN]
  OBVIOUS
<1>2. NoTimer \in [set : BOOLEAN, owner : Owner, current : BOOLEAN] /\ NoTimer.set = FALSE
  <2>1. Owner # {}
    BY DEF Init
  <2> QED
    BY <2>1 DEF NoTimer
<1>3. NothingSaid \in Speech /\ NothingSaid.binding = Nothing
  BY <1>1 DEF NothingSaid, Speech, By, Contexts
<1>4. State \in Condition
  BY <1>1, <1>2, <1>3 DEF Init, State, Condition
<1>5. Orderly(State)
  BY <1>2, <1>3, <1>4 DEF Init, State, Orderly, Sound, Timed, SpokenTruly
<1>6. Pending(State)
  BY <1>4, NothingPending DEF Init, State
<1> QED
  BY <1>5, <1>6 DEF KeysInv, Init

LEMMA KeysStep ==
    ASSUME KeyAssumption, KeysInv, [Next]_vars
    PROVE  KeysInv'
<1>1. CASE Keys
  <2>1. PICK key \in Key, repeat \in BOOLEAN, o1, o2 \in Owner \cup {Disabled} :
          IF key \in Accelerators THEN o1 = o2 /\ HistoryKey(key, repeat, o2)
          ELSE KeyDown(key, repeat, o1, o2)
    BY <1>1, Zenon DEF Keys
  <2> QED
    BY <2>1, HistoryKeyKeeps, KeyDownKeeps
<1>2. CASE Timer
  BY <1>2, FiresKeeps DEF Timer
<1>3. CASE Pause
  BY <1>3, PauseKeeps
<1>4. CASE OtherKey \/ Told \/ Revoked \/ \E o \in Owner : PassInput(o)
  BY <1>4, OthersKeep
<1>5. CASE Dispose
  BY <1>5, DisposeKeeps
<1>6. CASE UNCHANGED vars
  BY <1>6 DEF vars, KeysInv, State, Orderly, Sound, Timed, Pending
<1> QED
  BY <1>1, <1>2, <1>3, <1>4, <1>5, <1>6 DEF Next

\* An action is dispatched only for keys that the owner of the input pressed one after the other, in a
\* context it belongs to, by a router that lives; and what is pending is what was just typed
\* (RootKeyboardRouter.handleKeyDown and schedule, KeySequenceEngine.advance and expire): for every
\* table that KeySequenceTrie.insert accepts.
THEOREM KeysHold == ASSUME KeyAssumption PROVE Spec => []KeysAreTrue
<1>1. Init => KeysInv
  BY KeysInitially
<1>2. KeysInv /\ [Next]_vars => KeysInv'
  BY KeysStep
<1>3. KeysInv => KeysAreTrue
  BY DEF KeysInv, Orderly, Sound, SpokenTruly, Pending, State, KeysAreTrue
<1> QED
  BY <1>1, <1>2, <1>3, PTL DEF Spec
=============================================================================
