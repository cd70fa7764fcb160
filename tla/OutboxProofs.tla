------------------------------ MODULE OutboxProofs ------------------------------
(***************************************************************************)
(* Proofs about Outbox for any number of threads, operations and           *)
(* transactions and calls nested to any depth.                             *)
(***************************************************************************)
EXTENDS Outbox, SequenceTheorems, TLAPS

Frames == ReleaseCalls \cup ReleaseAllCalls

\* The frame at position i of thread t is a call of release(o), and inside.
Releasing(t, i, o) ==
    /\ i \in DOMAIN stack[t]
    /\ stack[t][i].call = "release"
    /\ stack[t][i].op = o
    /\ stack[t][i].site # "acquire"

\* The same, with the handler running.
Handling(t, i, o) == Releasing(t, i, o) /\ stack[t][i].site = "handler"

\* A call with another one inside it runs a handler, or the loop of release_all().
Nesting ==
    \A t \in Threads : \A i \in DOMAIN stack[t] :
        i < Len(stack[t]) =>
            \/ stack[t][i].call = "release" /\ stack[t][i].site = "handler"
            \/ /\ stack[t][i].call = "release_all"
               /\ stack[t][i + 1].call = "release"
               /\ stack[t][i + 1].op \in stack[t][i].todo

\* Whoever is inside owns the lock.
Ownership ==
    \A t \in Threads, o \in Operations : \A i \in DOMAIN stack[t] :
        Releasing(t, i, o) => lock = t

\* What a thread looked up is still staged, except under its own handler.
LookedUp ==
    \A t \in Threads, o \in Operations : \A i \in DOMAIN stack[t] :
        Releasing(t, i, o) =>
            /\ operations[o].status # "absent"
            /\ o \notin reentered => operations[o].status = "staged"

\* Two releases of one operation in a thread are a release from its handler.
Alone ==
    \A t \in Threads, o \in Operations : \A i, j \in DOMAIN stack[t] :
        i # j /\ Releasing(t, i, o) /\ Releasing(t, j, o) => o \in reentered

\* A handler that is running was counted, one that is about to run was not.
Counted ==
    /\ \A t \in Threads, o \in Operations : \A i \in DOMAIN stack[t] :
          Releasing(t, i, o) =>
              IF stack[t][i].site = "handler" THEN effects[o] > 0
              ELSE o \in unstored \cup reentered \/ effects[o] = 0
    /\ \A o \in Operations : operations[o].status \in Terminal => effects[o] > 0
    /\ \A o \in Operations \ unstored :
          effects[o] > 0 =>
              \/ operations[o].status \in Terminal
              \/ \E t \in Threads : \E i \in DOMAIN stack[t] : Handling(t, i, o)

\* The lists of a call of release_all() are true, and stay so: nobody who could
\* change the outcome of a listed operation is inside, but the call's callers.
Listed ==
    \A t \in Threads : \A i \in DOMAIN stack[t] :
        stack[t][i].call = "release_all" =>
            LET all == stack[t][i]
            IN  /\ all.snapshot = all.todo \cup all.released \cup all.failed
                /\ \A o \in all.snapshot : operations[o].transaction = all.transaction
                /\ \A o \in all.released : operations[o].status = "released"
                /\ \A o \in all.failed : operations[o].status = "failed"
                /\ \A o \in all.released \cup all.failed, u \in Threads :
                      \A j \in DOMAIN stack[u] : Releasing(u, j, o) => u = t /\ j < i

IInv ==
    /\ TypeOK
    /\ Nesting
    /\ Ownership
    /\ LookedUp
    /\ Alone
    /\ Counted
    /\ Listed
    /\ DuplicatesAreExplained

-----------------------------------------------------------------------------
(***************************************************************************)
(* Stacks of calls.                                                        *)
(***************************************************************************)

\* A frame is of one kind, and the kind gives its fields.
LEMMA FrameKinds ==
    ASSUME NEW f \in Frames
    PROVE  /\ f.call = "release" => f \in ReleaseCalls
           /\ f.call = "release_all" => f \in ReleaseAllCalls
           /\ f.call \in {"release", "release_all"}
BY DEF Frames, ReleaseCalls, ReleaseAllCalls

\* The stacks are lists of frames.
LEMMA StackTyped ==
    ASSUME TypeOK, NEW t \in Threads
    PROVE  /\ stack[t] \in Seq(Frames)
           /\ Len(stack[t]) \in Nat
           /\ DOMAIN stack[t] = 1..Len(stack[t])
           /\ \A i \in DOMAIN stack[t] : stack[t][i] \in Frames
           /\ stack[t] # <<>> => Len(stack[t]) > 0 /\ Len(stack[t]) \in DOMAIN stack[t]
           /\ stack[t] # <<>> => Innermost(t) \in Frames
<1>1. stack[t] \in Seq(Frames)
    BY DEF TypeOK, Frames
<1>2. Len(stack[t]) \in Nat /\ DOMAIN stack[t] = 1..Len(stack[t])
    BY <1>1
<1>3. \A i \in DOMAIN stack[t] : stack[t][i] \in Frames
    BY <1>1
<1>4. stack[t] # <<>> => Len(stack[t]) > 0 /\ Len(stack[t]) \in DOMAIN stack[t]
    BY <1>1, <1>2, EmptySeq
<1> QED BY <1>1, <1>2, <1>3, <1>4 DEF Innermost

\* All but the innermost call.
LEMMA OuterCalls ==
    ASSUME NEW s \in Seq(Frames), s # <<>>
    PROVE  LET outer == SubSeq(s, 1, Len(s) - 1)
           IN  /\ outer \in Seq(Frames)
               /\ Len(outer) = Len(s) - 1
               /\ DOMAIN outer = 1..Len(outer)
               /\ \A i \in DOMAIN outer : outer[i] = s[i]
               /\ outer # <<>> => Len(outer) > 0 /\ Len(outer) \in DOMAIN outer
<1> DEFINE outer == SubSeq(s, 1, Len(s) - 1)
<1>1. Len(s) \in Nat /\ Len(s) > 0 /\ \A i \in 1..Len(s) : s[i] \in Frames
    BY EmptySeq, ElementOfSeq
<1>2. \A i \in 1..(Len(s) - 1) : s[i] \in Frames
    BY <1>1
<1>3. /\ outer \in Seq(Frames)
      /\ Len(outer) = Len(s) - 1
      /\ \A i \in 1..(Len(s) - 1) : outer[i] = s[i]
    <2> DEFINE n == Len(s) - 1
    <2>1. n \in Nat /\ n \in Int /\ 1 \in Int
        BY <1>1
    <2>2. \A i \in 1..n : s[i] \in Frames
        BY <1>2
    <2> HIDE DEF n
    <2>3. /\ SubSeq(s, 1, n) \in Seq(Frames)
          /\ Len(SubSeq(s, 1, n)) = IF 1 <= n THEN n - 1 + 1 ELSE 0
          /\ \A i \in 1..(n - 1 + 1) : SubSeq(s, 1, n)[i] = s[1 + i - 1]
        BY <2>1, <2>2, SubSeqProperties
    <2>4. n - 1 + 1 = n /\ \A i \in 1..n : 1 + i - 1 = i
        BY <2>1
    <2>5. Len(SubSeq(s, 1, n)) = n
        BY <2>1, <2>3, <2>4
    <2>6. \A i \in 1..n : SubSeq(s, 1, n)[i] = s[i]
        BY <2>3, <2>4
    <2> QED BY <2>3, <2>5, <2>6 DEF n
<1>4. DOMAIN outer = 1..Len(outer)
    BY <1>3
<1>5. outer # <<>> => Len(outer) > 0 /\ Len(outer) \in DOMAIN outer
    BY <1>3, <1>4, EmptySeq
<1> QED BY <1>1, <1>3, <1>4, <1>5

\* Collected() gives a call of release_all() with one operation less to do.
LEMMA CollectedTyped ==
    ASSUME NEW all \in ReleaseAllCalls, NEW o \in Operations, NEW status, NEW next,
           next = Collected(all, o, status)
    PROVE  /\ next \in ReleaseAllCalls
           /\ next.todo = all.todo \ {o}
           /\ next.snapshot = all.snapshot /\ next.transaction = all.transaction
           /\ next.released = IF status = "released" THEN all.released \cup {o} ELSE all.released
           /\ next.failed = IF status = "released" THEN all.failed ELSE all.failed \cup {o}
BY DEF Collected, ReleaseAllCalls

(***************************************************************************)
(* Unwinding to `calls': a shorter stack of the same calls, of which the   *)
(* last may be a release_all() that has collected a result.                *)
(***************************************************************************)
Unwound(t, calls) ==
    /\ calls \in Seq(Frames)
    /\ Len(calls) < Len(stack[t])
    /\ \A i \in DOMAIN calls :
          \/ calls[i] = stack[t][i]
          \/ /\ i + 1 = Len(stack[t])
             /\ stack[t][i].call = "release_all"
             /\ Innermost(t).call = "release"
             /\ CanLock(t)
             /\ operations'[Innermost(t).op].status \in Terminal
             /\ calls[i] = Collected(stack[t][i], Innermost(t).op,
                                     operations'[Innermost(t).op].status)

\* Only the innermost call is left, and the release_all() that made it.
OneCallLeft(t, calls) ==
    \A i \in DOMAIN stack[t] \ DOMAIN calls :
        i = Len(stack[t]) \/ stack[t][i].call = "release_all"

\* An exception unwinds one call, or two when a release_all() is the caller.
LEMMA RaiseUnwinds ==
    ASSUME TypeOK, NEW t \in Threads, stack[t] # <<>>, Raise(t)
    PROVE  \E calls : Unwound(t, calls) /\ OneCallLeft(t, calls) /\ Unwind(t, calls)
<1> DEFINE outer == SubSeq(stack[t], 1, Len(stack[t]) - 1)
           both  == SubSeq(outer, 1, Len(outer) - 1)
<1>1. stack[t] \in Seq(Frames) /\ Len(stack[t]) \in Nat /\ DOMAIN stack[t] = 1..Len(stack[t])
    BY StackTyped
<1>2. /\ outer \in Seq(Frames)
      /\ Len(outer) = Len(stack[t]) - 1
      /\ DOMAIN outer = 1..Len(outer)
      /\ \A i \in DOMAIN outer : outer[i] = stack[t][i]
    BY <1>1, OuterCalls
<1>3. outer # <<>> =>
          /\ both \in Seq(Frames)
          /\ Len(both) = Len(outer) - 1
          /\ DOMAIN both = 1..Len(both)
          /\ \A i \in DOMAIN both : both[i] = outer[i]
    BY <1>2, OuterCalls
<1>4. Unwound(t, outer) /\ OneCallLeft(t, outer)
    BY <1>1, <1>2 DEF Unwound, OneCallLeft
<1>5. outer # <<>> /\ outer[Len(outer)].call = "release_all" =>
          Unwound(t, both) /\ OneCallLeft(t, both)
    <2> SUFFICES ASSUME outer # <<>>, outer[Len(outer)].call = "release_all"
                 PROVE  Unwound(t, both) /\ OneCallLeft(t, both)
        OBVIOUS
    <2>1. Len(both) < Len(stack[t]) /\ DOMAIN both \subseteq DOMAIN outer
        BY <1>1, <1>2, <1>3
    <2>2. \A i \in DOMAIN both : both[i] = stack[t][i]
        BY <1>2, <1>3, <2>1
    <2>3. Unwound(t, both)
        BY <1>3, <2>1, <2>2 DEF Unwound
    <2>4. OneCallLeft(t, both)
        BY <1>1, <1>2, <1>3 DEF OneCallLeft
    <2> QED BY <2>3, <2>4
<1>6. \/ outer # <<>> /\ outer[Len(outer)].call = "release_all" /\ Unwind(t, both)
      \/ Unwind(t, outer)
    BY DEF Raise
<1> QED BY <1>4, <1>5, <1>6

\* A result unwinds one call, and a release_all() that made it collects it.
LEMMA ReturnUnwinds ==
    ASSUME TypeOK, NEW t \in Threads, stack[t] # <<>>, Innermost(t).call = "release", CanLock(t),
           NEW status \in Terminal, status = operations'[Innermost(t).op].status,
           Return(t, Innermost(t).op, status)
    PROVE  \E calls : Unwound(t, calls) /\ OneCallLeft(t, calls) /\ Unwind(t, calls)
<1> DEFINE outer == SubSeq(stack[t], 1, Len(stack[t]) - 1)
           o     == Innermost(t).op
           last  == Len(outer)
           next  == [outer EXCEPT ![last] = Collected(@, o, status)]
<1>1. /\ stack[t] \in Seq(Frames) /\ Len(stack[t]) \in Nat
      /\ DOMAIN stack[t] = 1..Len(stack[t]) /\ o \in Operations
    BY StackTyped, FrameKinds DEF ReleaseCalls
<1>2. /\ outer \in Seq(Frames)
      /\ Len(outer) = Len(stack[t]) - 1
      /\ DOMAIN outer = 1..Len(outer)
      /\ \A i \in DOMAIN outer : outer[i] = stack[t][i]
      /\ outer # <<>> => Len(outer) \in DOMAIN outer
    BY <1>1, OuterCalls
<1>3. CASE ~(outer # <<>> /\ outer[last].call = "release_all")
    <2>1. Unwound(t, outer) /\ OneCallLeft(t, outer)
        BY <1>1, <1>2 DEF Unwound, OneCallLeft
    <2>2. Unwind(t, outer)
        BY <1>3 DEF Return
    <2> QED BY <2>1, <2>2
<1>4. CASE outer # <<>> /\ outer[last].call = "release_all"
    <2>1. outer[last] \in ReleaseAllCalls /\ last \in 1..Len(outer)
        <3>1. outer[last] \in Frames /\ last \in 1..Len(outer)
            BY <1>2, <1>4
        <3> QED BY <1>4, <3>1, FrameKinds
    <2>2. Collected(outer[last], o, status) \in Frames
        BY <1>1, <2>1, CollectedTyped DEF Frames
    <2>3. next = [outer EXCEPT ![last] = Collected(outer[last], o, status)]
        OBVIOUS
    <2>4. /\ next \in Seq(Frames)
          /\ Len(next) = Len(outer)
          /\ \A j \in 1..Len(outer) :
                next[j] = IF j = last THEN Collected(outer[last], o, status) ELSE outer[j]
        <3> DEFINE c == Collected(outer[last], o, status)
        <3> HIDE DEF c, last, outer, next
        <3> QED BY <1>2, <2>1, <2>2, <2>3, ExceptSeq DEF c
    <2>5. DOMAIN next = 1..Len(outer)
        BY <2>4
    <2> HIDE DEF next
    <2>6. Unwound(t, next)
        <3>1. Len(next) < Len(stack[t]) /\ last + 1 = Len(stack[t])
            BY <1>1, <1>2, <2>4
        <3>2. \A i \in DOMAIN next : i # last => next[i] = stack[t][i]
            BY <1>2, <2>4, <2>5
        <3>3. stack[t][last] = outer[last] /\ last \in DOMAIN outer
            BY <1>2, <2>1
        <3>4. next[last] = Collected(stack[t][last], o, operations'[o].status)
            BY <2>1, <2>4, <3>3
        <3> HIDE DEF last, outer
        <3> QED BY <1>4, <2>4, <3>1, <3>2, <3>3, <3>4 DEF Unwound
    <2>7. Unwind(t, next)
        BY <1>4 DEF Return, next
    <2>8. OneCallLeft(t, next)
        BY <1>1, <1>2, <2>5 DEF OneCallLeft
    <2> QED BY <2>6, <2>7, <2>8
<1> QED BY <1>3, <1>4

-----------------------------------------------------------------------------
(***************************************************************************)
(* The invariant.                                                          *)
(***************************************************************************)

\* A new outbox holds no operations and nobody is in it.
LEMMA InitIInv == Init => IInv
<1> SUFFICES ASSUME Init PROVE IInv
    OBVIOUS
<1>1. TypeOK
    <2>1. order \in Seq(Operations) /\ stack \in [Threads -> Seq(ReleaseCalls \cup ReleaseAllCalls)]
        BY DEF Init
    <2>2. operations \in [Operations -> Operation]
        BY DEF Init, Absent, Operation, Statuses
    <2>3. effects \in [Operations -> 0..2]
        BY DEF Init
    <2> QED BY <2>1, <2>2, <2>3 DEF Init, TypeOK
<1>2. \A t \in Threads : DOMAIN stack[t] = {}
    BY DEF Init
<1>3. Nesting /\ Ownership /\ LookedUp /\ Alone /\ Listed
    BY <1>2 DEF Nesting, Ownership, LookedUp, Alone, Listed
<1>4. Counted /\ DuplicatesAreExplained
    BY <1>2 DEF Init, Counted, DuplicatesAreExplained, Absent, Terminal
<1> QED BY <1>1, <1>3, <1>4 DEF IInv

\* A step that leaves the stacks alone leaves everybody where he is.
LEMMA StacksKept ==
    ASSUME stack' = stack
    PROVE  \A u, i, o : /\ Releasing(u, i, o)' <=> Releasing(u, i, o)
                        /\ Handling(u, i, o)' <=> Handling(u, i, o)
BY DEF Releasing, Handling

\* An operation is stored under an id that nobody has looked up.
LEMMA StageInv ==
    ASSUME IInv, NEW t \in Threads, NEW o \in Operations, NEW x \in Transactions, Stage(t, o, x)
    PROVE  IInv'
<1> USE DEF IInv
<1>1. /\ operations[o] = Absent
      /\ operations' = [operations EXCEPT ![o] = [status |-> "staged", transaction |-> x]]
      /\ order' = Append(order, o)
      /\ UNCHANGED <<lock, stack, effects, unstored, reentered>>
    BY DEF Stage
<1>2. /\ operations'[o].status = "staged"
      /\ \A p \in Operations : p # o => operations'[p] = operations[p]
      /\ operations[o].status = "absent" /\ operations[o].transaction = None
      /\ operations' \in [Operations -> Operation]
    BY <1>1 DEF TypeOK, Absent, Operation, Statuses
<1>3. TypeOK'
    <2>1. order' \in Seq(Operations)
        BY <1>1, AppendProperties DEF TypeOK
    <2> QED BY <1>1, <1>2, <2>1 DEF TypeOK
<1>4. \A u, i, p : /\ Releasing(u, i, p)' <=> Releasing(u, i, p)
                   /\ Handling(u, i, p)' <=> Handling(u, i, p)
    BY <1>1, StacksKept
<1>5. Nesting' /\ Ownership' /\ Alone' /\ DuplicatesAreExplained'
    BY <1>1, <1>4 DEF Nesting, Ownership, Alone, DuplicatesAreExplained
<1>6. LookedUp'
    BY <1>1, <1>2, <1>4 DEF LookedUp
<1>7. Counted'
    BY <1>1, <1>2, <1>4 DEF Counted, Terminal
<1>8. Listed'
    <2> SUFFICES ASSUME NEW u \in Threads, NEW i \in DOMAIN stack[u],
                        stack[u][i].call = "release_all"
                 PROVE  /\ \A p \in stack[u][i].snapshot :
                              operations'[p].transaction = stack[u][i].transaction
                        /\ \A p \in stack[u][i].released : operations'[p].status = "released"
                        /\ \A p \in stack[u][i].failed : operations'[p].status = "failed"
        BY <1>1, <1>4 DEF Listed
    <2>1. stack[u][i] \in ReleaseAllCalls
        BY StackTyped, FrameKinds
    <2>2. o \notin stack[u][i].snapshot
        BY <1>2, <2>1, NoneIsNoThread DEF Listed, ReleaseAllCalls
    <2>3. /\ stack[u][i].snapshot \subseteq Operations
          /\ stack[u][i].released \subseteq stack[u][i].snapshot
          /\ stack[u][i].failed \subseteq stack[u][i].snapshot
        BY <2>1 DEF Listed, ReleaseAllCalls
    <2> QED BY <1>2, <2>2, <2>3 DEF Listed
<1> QED BY <1>3, <1>5, <1>6, <1>7, <1>8

\* A new call, from outside, from a handler or from the loop of release_all().
LEMMA PushKeepsIInv ==
    ASSUME IInv, NEW t \in Threads, NEW c \in Frames,
           \/ MayCall(t)
           \/ In(t, "release_all") /\ c.call = "release" /\ c.op \in Innermost(t).todo,
           c.call = "release" => c.site = "acquire",
           c.call = "release_all" =>
               /\ c.todo = c.snapshot /\ c.released = {} /\ c.failed = {}
               /\ \A o \in c.snapshot : operations[o].transaction = c.transaction,
           stack' = [stack EXCEPT ![t] = Append(@, c)],
           UNCHANGED <<operations, order, lock, effects, unstored, reentered>>
    PROVE  IInv'
<1> USE DEF IInv
<1> DEFINE n == Len(stack[t])
<1>1. /\ stack[t] \in Seq(Frames) /\ n \in Nat /\ DOMAIN stack[t] = 1..n
      /\ stack \in [Threads -> Seq(Frames)]
    BY StackTyped DEF TypeOK, Frames
<1>2. /\ stack'[t] = Append(stack[t], c)
      /\ \A u \in Threads : u # t => stack'[u] = stack[u]
    BY <1>1
<1>3. /\ stack'[t] \in Seq(Frames) /\ Len(stack'[t]) = n + 1
      /\ \A i \in 1..n : stack'[t][i] = stack[t][i]
      /\ stack'[t][n + 1] = c
    BY <1>1, <1>2, AppendProperties
<1>4. DOMAIN stack'[t] = 1..(n + 1)
    BY <1>3
<1>5. TypeOK'
    <2>1. stack' \in [Threads -> Seq(Frames)]
        BY <1>1, <1>3
    <2> QED BY <2>1 DEF TypeOK, Frames
<1> HIDE DEF n
<1>6. \A u \in Threads : \A i, o : /\ Releasing(u, i, o)' <=> Releasing(u, i, o)
                                   /\ Handling(u, i, o)' <=> Handling(u, i, o)
    <2>1. \A i, o : Releasing(t, i, o)' <=> Releasing(t, i, o)
        BY <1>1, <1>3, <1>4 DEF Releasing
    <2>2. \A i, o : Handling(t, i, o)' <=> Handling(t, i, o)
        BY <1>1, <1>3, <1>4, <2>1 DEF Handling, Releasing
    <2>3. ASSUME NEW u \in Threads, u # t
          PROVE  \A i, o : /\ Releasing(u, i, o)' <=> Releasing(u, i, o)
                           /\ Handling(u, i, o)' <=> Handling(u, i, o)
        BY <1>2, <2>3 DEF Releasing, Handling
    <2> QED BY <2>1, <2>2, <2>3
<1>7. Nesting'
    <2> SUFFICES ASSUME NEW i \in DOMAIN stack'[t], i < Len(stack'[t])
                 PROVE  \/ stack'[t][i].call = "release" /\ stack'[t][i].site = "handler"
                        \/ /\ stack'[t][i].call = "release_all"
                           /\ stack'[t][i + 1].call = "release"
                           /\ stack'[t][i + 1].op \in stack'[t][i].todo
        BY <1>2 DEF Nesting
    <2>1. i \in 1..n /\ stack'[t][i] = stack[t][i]
        BY <1>1, <1>3, <1>4
    <2>2. CASE i < n
        BY <1>1, <1>3, <2>1, <2>2 DEF Nesting
    <2>3. CASE i = n
        BY <1>1, <1>3, <2>1, <2>3 DEF MayCall, At, In, Innermost, n
    <2> QED BY <1>1, <2>1, <2>2, <2>3
<1>8. \A u, o, i : Releasing(u, i, o) => i \in DOMAIN stack[u]
    BY DEF Releasing
<1>9. Ownership' /\ LookedUp' /\ Alone'
    BY <1>6, <1>8 DEF Ownership, LookedUp, Alone
<1>10. Counted' /\ DuplicatesAreExplained'
    <2>1. ASSUME NEW u \in Threads, NEW o \in Operations, NEW i \in DOMAIN stack'[u],
                 Releasing(u, i, o)'
          PROVE  IF stack'[u][i].site = "handler" THEN effects[o] > 0
                 ELSE o \in unstored \cup reentered \/ effects[o] = 0
        <3>1. Releasing(u, i, o) /\ (Handling(u, i, o)' <=> Handling(u, i, o))
            BY <1>6, <2>1
        <3>2. stack'[u][i].site = "handler" <=> stack[u][i].site = "handler"
            BY <2>1, <3>1 DEF Handling
        <3> QED BY <1>8, <3>1, <3>2 DEF Counted
    <2>2. ASSUME NEW o \in Operations \ unstored, effects[o] > 0
          PROVE  \/ operations[o].status \in Terminal
                 \/ \E u \in Threads : \E i \in DOMAIN stack'[u] : Handling(u, i, o)'
        <3>1. CASE operations[o].status \in Terminal
            BY <3>1
        <3>2. CASE \E u \in Threads : \E i \in DOMAIN stack[u] : Handling(u, i, o)
            BY <1>6, <3>2 DEF Handling, Releasing
        <3> QED BY <2>2, <3>1, <3>2 DEF Counted
    <2> QED BY <2>1, <2>2 DEF Counted, DuplicatesAreExplained
<1>11. Listed'
    <2> SUFFICES ASSUME NEW u \in Threads, NEW i \in DOMAIN stack'[u],
                        stack'[u][i].call = "release_all"
                 PROVE  LET all == stack'[u][i]
                        IN  /\ all.snapshot = all.todo \cup all.released \cup all.failed
                            /\ \A o \in all.snapshot : operations[o].transaction = all.transaction
                            /\ \A o \in all.released : operations[o].status = "released"
                            /\ \A o \in all.failed : operations[o].status = "failed"
                            /\ \A o \in all.released \cup all.failed, v \in Threads :
                                  \A j \in DOMAIN stack'[v] : Releasing(v, j, o)' => v = u /\ j < i
        BY DEF Listed
    <2>1. CASE u = t /\ i = n + 1
        BY <1>3, <2>1
    <2>2. CASE ~(u = t /\ i = n + 1)
        <3>1. i \in DOMAIN stack[u] /\ stack'[u][i] = stack[u][i]
            BY <1>1, <1>2, <1>3, <1>4, <2>2
        <3>2. \A o, v : v \in Threads => \A j : Releasing(v, j, o)' => j \in DOMAIN stack[v] /\ Releasing(v, j, o)
            BY <1>6 DEF Releasing
        <3> QED BY <3>1, <3>2 DEF Listed
    <2> QED BY <2>1, <2>2
<1> QED BY <1>5, <1>7, <1>9, <1>10, <1>11

\* A call of release() is the call of its operation.
LEMMA ReleasingTyped ==
    ASSUME TypeOK, NEW t \in Threads, NEW i, NEW o, Releasing(t, i, o)
    PROVE  o \in Operations /\ i \in DOMAIN stack[t]
BY StackTyped, FrameKinds DEF Releasing, ReleaseCalls

\* The innermost call, when it is past the lookup.
LEMMA InnermostReleasing ==
    ASSUME TypeOK, NEW t \in Threads, NEW site \in {"invoke", "handler"}, At(t, site)
    PROVE  /\ Releasing(t, Len(stack[t]), Innermost(t).op)
           /\ site = "handler" => Handling(t, Len(stack[t]), Innermost(t).op)
           /\ Innermost(t).op \in Operations
BY StackTyped, FrameKinds DEF At, In, Innermost, Releasing, Handling, ReleaseCalls

(***************************************************************************)
(* Every way out of the outbox keeps the invariant: a handler that has     *)
(* stored its outcome or is known to have left none, and a call that found *)
(* nothing to do.                                                          *)
(***************************************************************************)
LEMMA UnwindKeepsIInv ==
    ASSUME IInv, NEW t \in Threads, NEW calls, Unwound(t, calls), Unwind(t, calls),
           \/ operations' = operations
           \/ /\ At(t, "handler")
              /\ \E status \in Terminal :
                    operations' = [operations EXCEPT ![Innermost(t).op].status = status],
           unstored \subseteq unstored', unstored' \subseteq Operations,
           \A i, o : Handling(t, i, o) /\ i \notin DOMAIN calls =>
               o \in unstored' \/ operations'[o].status \in Terminal,
           UNCHANGED <<order, effects, reentered>>
    PROVE  IInv'
<1> USE DEF IInv
<1> DEFINE n == Len(stack[t])
           top == Innermost(t).op
<1>1. /\ stack[t] \in Seq(Frames) /\ n \in Nat /\ DOMAIN stack[t] = 1..n
      /\ \A i \in DOMAIN stack[t] : stack[t][i] \in Frames
      /\ stack \in [Threads -> Seq(Frames)]
    BY StackTyped DEF TypeOK, Frames
<1>2. /\ stack'[t] = calls
      /\ \A u \in Threads : u # t => stack'[u] = stack[u]
      /\ lock' = IF Inside(calls) THEN t ELSE IF lock = t THEN None ELSE lock
    BY <1>1 DEF Unwind
<1>3. /\ calls \in Seq(Frames) /\ Len(calls) \in Nat /\ DOMAIN calls = 1..Len(calls)
      /\ Len(calls) < n /\ DOMAIN calls \subseteq DOMAIN stack[t]
    BY <1>1 DEF Unwound
<1>4. stack[t] # <<>> /\ n \in DOMAIN stack[t] /\ Innermost(t) = stack[t][n]
    BY <1>1, <1>3 DEF Innermost
<1>5. /\ operations' \in [Operations -> Operation]
      /\ \A o \in Operations :
            /\ operations'[o].transaction = operations[o].transaction
            /\ \/ operations'[o] = operations[o]
               \/ o = top /\ At(t, "handler") /\ operations'[o].status \in Terminal
    <2>1. CASE operations' = operations
        BY <2>1 DEF TypeOK
    <2>2. CASE /\ At(t, "handler")
               /\ \E status \in Terminal :
                     operations' = [operations EXCEPT ![top].status = status]
        <3>1. PICK status \in Terminal : operations' = [operations EXCEPT ![top].status = status]
            BY <2>2
        <3>2. top \in Operations
            BY <2>2, InnermostReleasing
        <3>3. operations \in [Operations -> Operation] /\ status \in Statuses
            BY DEF TypeOK, Statuses
        <3>4. operations[top] \in Operation
            BY <3>2, <3>3
        <3>5. operations'[top] = [operations[top] EXCEPT !.status = status]
            BY <3>1, <3>2, <3>3
        <3>6. /\ operations'[top] \in Operation
              /\ operations'[top].status = status
              /\ operations'[top].transaction = operations[top].transaction
            BY <3>3, <3>4, <3>5 DEF Operation
        <3>7. \A o \in Operations : o # top => operations'[o] = operations[o]
            BY <3>1, <3>2, <3>3
        <3>8. operations' \in [Operations -> Operation]
            BY <3>1, <3>2, <3>3, <3>6, <3>7
        <3> QED BY <2>2, <3>6, <3>7, <3>8
    <2> QED BY <2>1, <2>2
\* A call that is left is the call it was, or a release_all() that has collected.
<1>6. ASSUME NEW i \in DOMAIN calls
      PROVE  \/ calls[i] = stack[t][i]
             \/ /\ i + 1 = n
                /\ stack[t][i].call = "release_all" /\ calls[i].call = "release_all"
                /\ Innermost(t).call = "release" /\ top \in Operations
                /\ CanLock(t)
                /\ operations'[top].status \in Terminal
                /\ stack[t][i] \in ReleaseAllCalls
                /\ calls[i] = Collected(stack[t][i], top, operations'[top].status)
    <2>1. CASE calls[i] = stack[t][i]
        BY <2>1
    <2>2. CASE /\ i + 1 = n
               /\ stack[t][i].call = "release_all"
               /\ Innermost(t).call = "release"
               /\ CanLock(t)
               /\ operations'[top].status \in Terminal
               /\ calls[i] = Collected(stack[t][i], top, operations'[top].status)
        <3>1. stack[t][i] \in ReleaseAllCalls /\ top \in Operations
            BY <1>1, <1>3, <1>4, <2>2, FrameKinds DEF ReleaseCalls
        <3>2. calls[i].call = "release_all"
            <4>1. PICK all, o, status, next : /\ all = stack[t][i] /\ o = top
                                              /\ status = operations'[top].status
                                              /\ next = calls[i]
                OBVIOUS
            <4>2. all \in ReleaseAllCalls /\ o \in Operations /\ next = Collected(all, o, status)
                BY <2>2, <3>1, <4>1
            <4>3. next \in ReleaseAllCalls
                BY ONLY <4>2, CollectedTyped
            <4> QED BY <4>1, <4>3 DEF ReleaseAllCalls
        <3> QED BY <2>2, <3>1, <3>2
    <2> QED BY <2>1, <2>2 DEF Unwound
<1>7. TypeOK'
    <2>1. stack' \in [Threads -> Seq(Frames)]
        BY <1>1, <1>3 DEF Unwind
    <2>2. lock' \in Threads \cup {None}
        BY <1>2 DEF TypeOK
    <2> QED BY <1>5, <2>1, <2>2 DEF TypeOK, Frames
<1> HIDE DEF n, top
<1>8. /\ \A i, o : Releasing(t, i, o)' <=> i \in DOMAIN calls /\ Releasing(t, i, o)
      /\ \A i, o : Handling(t, i, o)' <=> i \in DOMAIN calls /\ Handling(t, i, o)
      /\ \A u \in Threads \ {t} : \A i, o : /\ Releasing(u, i, o)' <=> Releasing(u, i, o)
                                            /\ Handling(u, i, o)' <=> Handling(u, i, o)
    <2>1. ASSUME NEW i, NEW o
          PROVE  /\ Releasing(t, i, o)' <=> i \in DOMAIN calls /\ Releasing(t, i, o)
                 /\ Handling(t, i, o)' <=> i \in DOMAIN calls /\ Handling(t, i, o)
        <3>1. CASE i \in DOMAIN calls /\ calls[i] = stack[t][i]
            BY <1>2, <1>3, <3>1 DEF Releasing, Handling
        <3>2. CASE i \in DOMAIN calls /\ stack[t][i].call = "release_all"
                                      /\ calls[i].call = "release_all"
            BY <1>2, <3>2 DEF Releasing, Handling
        <3>3. CASE i \notin DOMAIN calls
            BY <1>2, <3>3 DEF Releasing, Handling
        <3> QED BY <1>6, <3>1, <3>2, <3>3
    <2>2. ASSUME NEW u \in Threads \ {t}, NEW i, NEW o
          PROVE  /\ Releasing(u, i, o)' <=> Releasing(u, i, o)
                 /\ Handling(u, i, o)' <=> Handling(u, i, o)
        BY <1>2 DEF Releasing, Handling
    <2> QED BY <2>1, <2>2
<1>9. \A u \in Threads : \A i, o : Releasing(u, i, o)' => Releasing(u, i, o)
    BY <1>8
<1>10. \A u \in Threads : \A i, o : Releasing(u, i, o) => o \in Operations /\ i \in DOMAIN stack[u]
    BY ReleasingTyped
<1>11. Nesting'
    <2> SUFFICES ASSUME NEW i \in DOMAIN calls, i < Len(calls)
                 PROVE  \/ calls[i].call = "release" /\ calls[i].site = "handler"
                        \/ /\ calls[i].call = "release_all"
                           /\ calls[i + 1].call = "release"
                           /\ calls[i + 1].op \in calls[i].todo
        BY <1>2 DEF Nesting
    <2>1. i + 1 \in DOMAIN calls /\ i \in DOMAIN stack[t] /\ i + 1 < n /\ i < n
        BY <1>1, <1>3
    <2>2. calls[i] = stack[t][i]
        BY <1>1, <1>6, <2>1
    <2>3. \/ calls[i + 1] = stack[t][i + 1]
          \/ stack[t][i + 1].call = "release_all"
        BY <1>6, <2>1
    <2> QED BY <2>1, <2>2, <2>3 DEF Nesting, n
<1>12. Ownership'
    <2> SUFFICES ASSUME NEW u \in Threads, NEW o \in Operations, NEW i, Releasing(u, i, o)'
                 PROVE  lock' = u
        BY DEF Ownership
    <2>1. lock = u
        BY <1>9, <1>10 DEF Ownership
    <2>2. CASE u = t
        <3>1. Inside(calls)
            BY <1>2, <2>2 DEF Inside, Releasing
        <3> QED BY <1>2, <2>2, <3>1
    <2>3. CASE u # t
        <3>1. ~Inside(calls)
            <4> SUFFICES ASSUME Inside(calls) PROVE FALSE
                OBVIOUS
            <4>1. PICK j \in DOMAIN calls : calls[j].call = "release" /\ calls[j].site # "acquire"
                BY DEF Inside
            <4>2. Releasing(t, j, calls[j].op)'
                BY <1>2, <4>1 DEF Releasing
            <4>3. lock = t
                BY <1>9, <1>10, <4>2 DEF Ownership
            <4> QED BY <2>1, <2>3, <4>3
        <3> QED BY <1>2, <2>1, <2>3, <3>1
    <2> QED BY <2>2, <2>3
<1>13. ASSUME NEW o \in Operations, operations'[o] # operations[o]
       PROVE  /\ o = top /\ Releasing(t, n, o) /\ Handling(t, n, o) /\ lock = t
              /\ operations'[o].status \in Terminal
    BY <1>5, <1>10, <1>13, InnermostReleasing DEF Ownership, n, top
<1>14. n \notin DOMAIN calls
    BY <1>1, <1>3
<1>15. LookedUp'
    <2> SUFFICES ASSUME NEW u \in Threads, NEW o \in Operations, NEW i, Releasing(u, i, o)'
                 PROVE  /\ operations'[o].status # "absent"
                        /\ o \notin reentered => operations'[o].status = "staged"
        BY DEF LookedUp
    <2>1. Releasing(u, i, o) /\ i \in DOMAIN stack[u]
        BY <1>9, <1>10
    <2>2. CASE operations'[o] = operations[o]
        BY <2>1, <2>2 DEF LookedUp
    <2>3. CASE operations'[o] # operations[o]
        <3>1. Releasing(t, n, o) /\ lock = t /\ operations'[o].status \in Terminal
            BY <1>13, <2>3
        <3>2. u = t
            BY <2>1, <3>1 DEF Ownership
        <3>3. i # n
            BY <1>8, <1>14, <3>2
        <3>4. o \in reentered
            BY <1>10, <2>1, <3>1, <3>2, <3>3 DEF Alone
        <3> QED BY <3>1, <3>4 DEF Terminal
    <2> QED BY <2>2, <2>3
<1>16. Alone' /\ DuplicatesAreExplained'
    BY <1>9, <1>10 DEF Alone, DuplicatesAreExplained
<1>17. Counted'
    <2>1. ASSUME NEW u \in Threads, NEW o \in Operations, NEW i, Releasing(u, i, o)'
          PROVE  IF stack'[u][i].site = "handler" THEN effects[o] > 0
                 ELSE o \in unstored' \cup reentered \/ effects[o] = 0
        <3>1. Releasing(u, i, o) /\ i \in DOMAIN stack[u]
            BY <1>9, <1>10, <2>1
        <3>2. Handling(u, i, o)' <=> Handling(u, i, o)
            BY <1>8, <2>1
        <3>3. stack'[u][i].site = "handler" <=> stack[u][i].site = "handler"
            BY <2>1, <3>1, <3>2 DEF Handling
        <3> QED BY <3>1, <3>3 DEF Counted
    <2>2. ASSUME NEW o \in Operations, operations'[o].status \in Terminal
          PROVE  effects[o] > 0
        <3>1. CASE operations'[o] = operations[o]
            BY <2>2, <3>1 DEF Counted
        <3>2. CASE operations'[o] # operations[o]
            BY <1>10, <1>13, <3>2 DEF Counted, Handling
        <3> QED BY <3>1, <3>2
    <2>3. ASSUME NEW o \in Operations \ unstored', effects[o] > 0
          PROVE  \/ operations'[o].status \in Terminal
                 \/ \E u \in Threads : \E i \in DOMAIN stack'[u] : Handling(u, i, o)'
        <3>1. CASE operations[o].status \in Terminal
            BY <1>5, <3>1
        <3>2. CASE \E u \in Threads : \E i \in DOMAIN stack[u] : Handling(u, i, o)
            <4>1. PICK u \in Threads : \E i \in DOMAIN stack[u] : Handling(u, i, o)
                BY <3>2
            <4>2. PICK i \in DOMAIN stack[u] : Handling(u, i, o)
                BY <4>1
            <4>3. CASE u # t \/ i \in DOMAIN calls
                <5>1. Handling(u, i, o)'
                    BY <1>8, <4>2, <4>3
                <5>2. i \in DOMAIN stack'[u]
                    BY <5>1 DEF Handling, Releasing
                <5> QED BY <5>1, <5>2
            <4>4. CASE u = t /\ i \notin DOMAIN calls
                BY <2>3, <4>2, <4>4
            <4> QED BY <4>3, <4>4
        <3> QED BY <2>3, <3>1, <3>2 DEF Counted
    <2> QED BY <2>1, <2>2, <2>3 DEF Counted
<1>18. Listed'
    <2> SUFFICES ASSUME NEW u \in Threads, NEW i \in DOMAIN stack'[u],
                        stack'[u][i].call = "release_all"
                 PROVE  LET all == stack'[u][i]
                        IN  /\ all.snapshot = all.todo \cup all.released \cup all.failed
                            /\ \A o \in all.snapshot : operations'[o].transaction = all.transaction
                            /\ \A o \in all.released : operations'[o].status = "released"
                            /\ \A o \in all.failed : operations'[o].status = "failed"
                            /\ \A o \in all.released \cup all.failed, v \in Threads :
                                  \A j \in DOMAIN stack'[v] : Releasing(v, j, o)' => v = u /\ j < i
        BY DEF Listed
    <2> DEFINE old == stack[u][i]
    <2>1. /\ i \in DOMAIN stack[u]
          /\ old \in ReleaseAllCalls
          /\ u = t => i \in DOMAIN calls /\ i < n
        <3>1. i \in DOMAIN stack[u] /\ (u = t => i \in DOMAIN calls /\ i < n)
            BY <1>1, <1>2, <1>3
        <3>2. old.call = "release_all"
            BY <1>2, <1>6, <3>1
        <3> QED BY <3>1, <3>2, StackTyped, FrameKinds
    <2>2. /\ old.snapshot = old.todo \cup old.released \cup old.failed
          /\ old.snapshot \subseteq Operations
          /\ \A o \in old.snapshot : operations'[o].transaction = old.transaction
          /\ \A o \in old.released : operations[o].status = "released"
          /\ \A o \in old.failed : operations[o].status = "failed"
          /\ \A o \in old.released \cup old.failed, v \in Threads :
                \A j \in DOMAIN stack[v] : Releasing(v, j, o) => v = u /\ j < i
        <3>1. old.call = "release_all" /\ old.snapshot \subseteq Operations
            BY <2>1 DEF ReleaseAllCalls
        <3> QED BY <1>5, <2>1, <3>1 DEF Listed
    \* What is listed is not what has just been stored.
    <2>3. \A o \in old.released \cup old.failed : operations'[o] = operations[o]
        <3> SUFFICES ASSUME NEW o \in old.released \cup old.failed, operations'[o] # operations[o]
                     PROVE  FALSE
            OBVIOUS
        <3>1. Releasing(t, n, o) /\ n \in DOMAIN stack[t]
            BY <1>4, <1>13, <2>2 DEF n
        <3>2. t = u /\ n < i
            BY <2>2, <3>1
        <3> QED BY <1>1, <1>3, <2>1, <3>2
    <2>4. \A o \in old.released \cup old.failed, v \in Threads :
              \A j : Releasing(v, j, o)' => v = u /\ j < i
        BY <1>9, <1>10, <2>2
    <2>5. CASE stack'[u][i] = old
        BY <2>2, <2>3, <2>4, <2>5
    <2>6. CASE u = t /\ calls[i] # old
        <3> DEFINE new == calls[i]
        <3>1. PICK o, status : o = top /\ status = operations'[top].status
            OBVIOUS
        <3>2. /\ i + 1 = n
              /\ Innermost(t).call = "release" /\ o \in Operations
              /\ CanLock(t)
              /\ operations'[o].status = status /\ status \in {"released", "failed"}
              /\ new = Collected(old, o, status)
            BY <1>6, <2>1, <2>6, <3>1 DEF Terminal
        <3>3. /\ new.todo = old.todo \ {o}
              /\ new.snapshot = old.snapshot /\ new.transaction = old.transaction
              /\ new.released = IF status = "released" THEN old.released \cup {o} ELSE old.released
              /\ new.failed = IF status = "released" THEN old.failed ELSE old.failed \cup {o}
            <4>1. PICK all, next : all = old /\ next = new
                OBVIOUS
            <4>2. all \in ReleaseAllCalls /\ o \in Operations /\ next = Collected(all, o, status)
                BY <2>1, <3>2, <4>1
            <4>3. /\ next.todo = all.todo \ {o}
                  /\ next.snapshot = all.snapshot /\ next.transaction = all.transaction
                  /\ next.released = IF status = "released" THEN all.released \cup {o} ELSE all.released
                  /\ next.failed = IF status = "released" THEN all.failed ELSE all.failed \cup {o}
                BY ONLY <4>2 DEF Collected, ReleaseAllCalls
            <4> QED BY <4>1, <4>3
        <3>4. o \in old.todo
            <4>1. i < Len(stack[t]) /\ old.call = "release_all"
                BY <2>1, <2>6, <3>2 DEF ReleaseAllCalls, n
            <4>2. stack[t][i + 1].op = o
                BY <1>4, <3>1, <3>2 DEF n, top
            <4> QED BY <2>1, <2>6, <4>1, <4>2 DEF Nesting
        <3>5. ASSUME NEW v \in Threads, NEW j, Releasing(v, j, o)'
              PROVE  v = t /\ j < i
            <4>1. Releasing(v, j, o) /\ j \in DOMAIN stack[v]
                BY <1>9, <1>10, <3>5
            <4>2. lock = v
                BY <3>2, <4>1 DEF Ownership
            <4>3. v = t
                BY <3>2, <4>2, NoneIsNoThread DEF CanLock
            <4>4. j \in DOMAIN calls /\ j # i
                BY <1>8, <2>1, <2>6, <3>5, <4>1, <4>3 DEF Releasing, ReleaseAllCalls
            <4> QED BY <1>1, <1>3, <2>1, <2>6, <3>2, <4>3, <4>4
        <3> HIDE DEF old, new
        <3>6. new.snapshot = new.todo \cup new.released \cup new.failed
            BY <2>2, <3>3, <3>4
        <3>7. /\ \A p \in new.released : operations'[p].status = "released"
              /\ \A p \in new.failed : operations'[p].status = "failed"
            BY <2>2, <2>3, <3>2, <3>3
        <3>8. \A p \in new.released \cup new.failed, v \in Threads :
                  \A j : Releasing(v, j, p)' => v = u /\ j < i
            BY <2>4, <2>6, <3>3, <3>5
        <3>9. stack'[u][i] = new
            BY <1>2, <2>6 DEF new
        <3> QED BY <2>2, <3>3, <3>6, <3>7, <3>8, <3>9
    <2> QED BY <1>2, <2>5, <2>6
<1> QED BY <1>7, <1>11, <1>12, <1>15, <1>16, <1>17, <1>18

\* The innermost call of release() moves on to another site.
LEMMA AdvanceFacts ==
    ASSUME TypeOK, NEW t \in Threads, In(t, "release"), NEW site \in {"invoke", "handler"},
           stack' = Advance(t, site)
    PROVE  LET n == Len(stack[t])
           IN  /\ stack' \in [Threads -> Seq(Frames)]
               /\ \A u \in Threads : DOMAIN stack'[u] = DOMAIN stack[u]
                                       /\ Len(stack'[u]) = Len(stack[u])
               /\ \A u \in Threads : \A i \in DOMAIN stack[u] :
                     u # t \/ i # n => stack'[u][i] = stack[u][i]
               /\ stack'[t][n].call = "release" /\ stack'[t][n].site = site
               /\ stack'[t][n].op = Innermost(t).op
<1> DEFINE n == Len(stack[t])
           f == [stack[t][n] EXCEPT !.site = site]
<1>1. /\ stack \in [Threads -> Seq(Frames)] /\ stack[t] \in Seq(Frames)
      /\ n \in 1..Len(stack[t]) /\ DOMAIN stack[t] = 1..n
      /\ stack[t][n] \in ReleaseCalls /\ Innermost(t) = stack[t][n]
    BY StackTyped, FrameKinds DEF TypeOK, Frames, In, Innermost
<1>2. f \in Frames /\ f.call = "release" /\ f.site = site /\ f.op = stack[t][n].op
    BY <1>1 DEF Frames, ReleaseCalls
<1>3. stack' = [stack EXCEPT ![t] = [stack[t] EXCEPT ![n] = f]]
    BY DEF Advance
<1> HIDE DEF n, f
<1>4. /\ [stack[t] EXCEPT ![n] = f] \in Seq(Frames)
      /\ Len([stack[t] EXCEPT ![n] = f]) = Len(stack[t])
      /\ \A j \in 1..Len(stack[t]) :
            [stack[t] EXCEPT ![n] = f][j] = IF j = n THEN f ELSE stack[t][j]
    BY <1>1, <1>2, ExceptSeq
<1>5. stack'[t] = [stack[t] EXCEPT ![n] = f] /\ \A u \in Threads : u # t => stack'[u] = stack[u]
    BY <1>1, <1>3
<1>6. stack' \in [Threads -> Seq(Frames)]
    BY <1>1, <1>3, <1>4
<1>7. \A u \in Threads : DOMAIN stack'[u] = DOMAIN stack[u] /\ Len(stack'[u]) = Len(stack[u])
    BY <1>1, <1>4, <1>5
<1>8. \A u \in Threads : \A i \in DOMAIN stack[u] :
          u # t \/ i # n => stack'[u][i] = stack[u][i]
    BY <1>1, <1>4, <1>5
<1>9. stack'[t][n] = f
    BY <1>1, <1>4, <1>5
<1> QED BY <1>1, <1>2, <1>6, <1>7, <1>8, <1>9 DEF n

\* The nesting of the calls does not depend on the site of the innermost one.
LEMMA AdvanceKeepsNesting ==
    ASSUME TypeOK, Nesting, NEW t \in Threads, In(t, "release"),
           NEW site \in {"invoke", "handler"}, stack' = Advance(t, site)
    PROVE  Nesting'
<1> DEFINE n == Len(stack[t])
<1>1. /\ \A u \in Threads : DOMAIN stack'[u] = DOMAIN stack[u] /\ Len(stack'[u]) = Len(stack[u])
      /\ \A u \in Threads : \A i \in DOMAIN stack[u] :
            u # t \/ i # n => stack'[u][i] = stack[u][i]
      /\ stack'[t][n].call = "release" /\ stack'[t][n].op = Innermost(t).op
    BY AdvanceFacts
<1>2. Innermost(t) = stack[t][n] /\ stack[t][n].call = "release"
    BY DEF In, Innermost
<1>3. \A u \in Threads : Len(stack[u]) \in Nat /\ DOMAIN stack[u] = 1..Len(stack[u])
    BY StackTyped
<1> SUFFICES ASSUME NEW u \in Threads, NEW i \in DOMAIN stack[u], i < Len(stack[u])
             PROVE  \/ stack'[u][i].call = "release" /\ stack'[u][i].site = "handler"
                    \/ /\ stack'[u][i].call = "release_all"
                       /\ stack'[u][i + 1].call = "release"
                       /\ stack'[u][i + 1].op \in stack'[u][i].todo
    BY <1>1 DEF Nesting
<1>4. stack'[u][i] = stack[u][i] /\ i + 1 \in DOMAIN stack[u]
    BY <1>1, <1>3
<1>5. /\ stack'[u][i + 1].call = stack[u][i + 1].call
      /\ stack[u][i + 1].call = "release" => stack'[u][i + 1].op = stack[u][i + 1].op
    BY <1>1, <1>2, <1>4
<1> QED BY <1>4, <1>5 DEF Nesting

\* release() finds its operation staged.
LEMMA LookUpInv ==
    ASSUME IInv, NEW t \in Threads, At(t, "acquire"), CanLock(t),
           operations[Innermost(t).op].status = "staged",
           stack' = Advance(t, "invoke"), lock' = t,
           reentered' = IF InOwnHandler(t, Innermost(t).op)
                        THEN reentered \cup {Innermost(t).op} ELSE reentered,
           UNCHANGED <<operations, order, effects, unstored>>
    PROVE  IInv'
<1> USE DEF IInv
<1> DEFINE n == Len(stack[t])
<1>1. PICK op : op = Innermost(t).op
    OBVIOUS
<1>2. /\ In(t, "release") /\ n \in DOMAIN stack[t] /\ op \in Operations
      /\ stack[t][n].call = "release" /\ stack[t][n].site = "acquire" /\ stack[t][n].op = op
      /\ n \in Nat /\ DOMAIN stack[t] = 1..n
    BY <1>1, StackTyped, FrameKinds DEF At, In, Innermost, ReleaseCalls
<1>3. /\ stack' \in [Threads -> Seq(Frames)]
      /\ \A u \in Threads : DOMAIN stack'[u] = DOMAIN stack[u] /\ Len(stack'[u]) = Len(stack[u])
      /\ \A u \in Threads : \A i \in DOMAIN stack[u] :
            u # t \/ i # n => stack'[u][i] = stack[u][i]
      /\ stack'[t][n].call = "release" /\ stack'[t][n].site = "invoke" /\ stack'[t][n].op = op
    BY <1>1, <1>2, AdvanceFacts
<1>4. TypeOK'
    BY <1>1, <1>2, <1>3 DEF TypeOK, Frames
<1>5. Nesting'
    BY <1>2, AdvanceKeepsNesting
<1> HIDE DEF n
<1>6. ASSUME NEW u \in Threads, NEW i, NEW o
      PROVE  /\ Releasing(u, i, o)' <=> Releasing(u, i, o) \/ (u = t /\ i = n /\ o = op)
             /\ Handling(u, i, o)' <=> Handling(u, i, o)
    BY <1>2, <1>3 DEF Releasing, Handling
\* Nobody else is inside, and what this thread is inside of runs its handler.
<1>7. ASSUME NEW u \in Threads, NEW i, NEW o, Releasing(u, i, o)
      PROVE  u = t /\ i \in DOMAIN stack[t] /\ i # n /\ Handling(t, i, o) /\ o \in Operations
    <2>1. i \in DOMAIN stack[u] /\ o \in Operations
        BY <1>7, ReleasingTyped
    <2>2. u = t
        BY <1>7, <2>1, NoneIsNoThread DEF Ownership, CanLock
    <2>3. i # n
        BY <1>2, <1>7, <2>2 DEF Releasing
    <2>4. stack[t][i].site = "handler"
        BY <1>2, <1>7, <2>1, <2>2, <2>3 DEF Nesting, Releasing, n
    <2> QED BY <1>7, <2>1, <2>2, <2>3, <2>4 DEF Handling
<1>8. ASSUME NEW i, Releasing(t, i, op)
      PROVE  op \in reentered'
    <2>1. InOwnHandler(t, op)
        BY <1>7, <1>8 DEF InOwnHandler, Handling, Releasing
    <2> QED BY <1>1, <2>1
<1>9. reentered \subseteq reentered'
    OBVIOUS
<1>10. Ownership'
    BY <1>6, <1>7 DEF Ownership
<1>11. LookedUp'
    BY <1>1, <1>6, <1>7, <1>9 DEF LookedUp
<1>12. Alone'
    BY <1>6, <1>7, <1>8, <1>9 DEF Alone
<1>13. DuplicatesAreExplained'
    BY <1>9 DEF DuplicatesAreExplained
<1>14. Counted'
    <2>1. ASSUME NEW u \in Threads, NEW o \in Operations, NEW i, Releasing(u, i, o)'
          PROVE  IF stack'[u][i].site = "handler" THEN effects[o] > 0
                 ELSE o \in unstored \cup reentered' \/ effects[o] = 0
        <3>1. CASE Releasing(u, i, o)
            <4>1. u = t /\ i \in DOMAIN stack[t] /\ Handling(t, i, o) /\ i # n
                BY <1>7, <3>1
            <4>2. stack'[t][i] = stack[t][i] /\ stack[t][i].site = "handler"
                BY <1>3, <4>1 DEF Handling
            <4> QED BY <3>1, <4>1, <4>2 DEF Counted
        <3>2. CASE u = t /\ i = n /\ o = op
            <4>1. effects[op] \in 0..2
                BY <1>2 DEF TypeOK
            <4>2. ASSUME effects[op] > 0, op \notin unstored
                  PROVE  op \in reentered'
                <5>1. \E v \in Threads : \E j \in DOMAIN stack[v] : Handling(v, j, op)
                    BY <1>1, <1>2, <4>2 DEF Counted, Terminal
                <5> QED BY <1>7, <1>8, <5>1 DEF Handling
            <4>3. op \in unstored \cup reentered' \/ effects[op] = 0
                BY <4>1, <4>2
            <4> QED BY <1>3, <3>2, <4>3
        <3> QED BY <1>6, <2>1, <3>1, <3>2
    <2>2. ASSUME NEW o \in Operations \ unstored, effects[o] > 0
          PROVE  \/ operations[o].status \in Terminal
                 \/ \E u \in Threads : \E i \in DOMAIN stack'[u] : Handling(u, i, o)'
        <3>1. CASE \E u \in Threads : \E i \in DOMAIN stack[u] : Handling(u, i, o)
            BY <1>3, <1>6, <3>1
        <3> QED BY <2>2, <3>1 DEF Counted
    <2> QED BY <2>1, <2>2 DEF Counted
<1>15. Listed'
    <2> SUFFICES ASSUME NEW u \in Threads, NEW i \in DOMAIN stack'[u],
                        stack'[u][i].call = "release_all"
                 PROVE  LET all == stack'[u][i]
                        IN  /\ all.snapshot = all.todo \cup all.released \cup all.failed
                            /\ \A o \in all.snapshot : operations[o].transaction = all.transaction
                            /\ \A o \in all.released : operations[o].status = "released"
                            /\ \A o \in all.failed : operations[o].status = "failed"
                            /\ \A o \in all.released \cup all.failed, v \in Threads :
                                  \A j \in DOMAIN stack'[v] : Releasing(v, j, o)' => v = u /\ j < i
        BY DEF Listed
    <2>1. stack'[u][i] = stack[u][i] /\ i \in DOMAIN stack[u]
        BY <1>3
    <2>2. op \notin stack[u][i].released \cup stack[u][i].failed
        BY <1>1, <2>1 DEF Listed
    <2>3. \A v \in Threads : \A j, o : Releasing(v, j, o)' /\ o # op =>
              Releasing(v, j, o) /\ j \in DOMAIN stack[v]
        BY <1>6 DEF Releasing
    <2> QED BY <2>1, <2>2, <2>3 DEF Listed
<1> QED BY <1>4, <1>5, <1>10, <1>11, <1>12, <1>13, <1>14, <1>15

\* The handler is entered.
LEMMA InvokeInv == ASSUME IInv, NEW t \in Threads, Invoke(t) PROVE IInv'
<1> USE DEF IInv
<1> DEFINE n == Len(stack[t])
<1>1. PICK op : op = Innermost(t).op
    OBVIOUS
<1>2. /\ At(t, "invoke")
      /\ stack' = Advance(t, "handler")
      /\ effects' = [effects EXCEPT ![op] = IF @ = 2 THEN 2 ELSE @ + 1]
      /\ UNCHANGED <<operations, order, lock, unstored, reentered>>
    BY <1>1 DEF Invoke
<1>3. /\ In(t, "release") /\ n \in DOMAIN stack[t] /\ op \in Operations
      /\ stack[t][n].call = "release" /\ stack[t][n].site = "invoke" /\ stack[t][n].op = op
      /\ n \in Nat /\ DOMAIN stack[t] = 1..n
      /\ Releasing(t, n, op)
    BY <1>1, <1>2, StackTyped, FrameKinds DEF At, In, Innermost, ReleaseCalls, Releasing
<1>4. /\ stack' \in [Threads -> Seq(Frames)]
      /\ \A u \in Threads : DOMAIN stack'[u] = DOMAIN stack[u] /\ Len(stack'[u]) = Len(stack[u])
      /\ \A u \in Threads : \A i \in DOMAIN stack[u] :
            u # t \/ i # n => stack'[u][i] = stack[u][i]
      /\ stack'[t][n].call = "release" /\ stack'[t][n].site = "handler" /\ stack'[t][n].op = op
    BY <1>1, <1>2, <1>3, AdvanceFacts
<1>5. /\ effects' \in [Operations -> 0..2]
      /\ effects'[op] > 0 /\ (effects'[op] > 1 => effects[op] > 0)
      /\ \A o \in Operations : o # op => effects'[o] = effects[o]
      /\ \A o \in Operations : effects[o] > 0 => effects'[o] > 0
    <2>1. effects \in [Operations -> 0..2] /\ effects[op] \in 0..2
        BY <1>3 DEF TypeOK
    <2>2. effects'[op] = IF effects[op] = 2 THEN 2 ELSE effects[op] + 1
        BY <1>2, <1>3, <2>1
    <2>3. effects'[op] \in 0..2 /\ effects'[op] > 0 /\ (effects'[op] > 1 => effects[op] > 0)
        BY <2>1, <2>2
    <2>4. \A o \in Operations : o # op => effects'[o] = effects[o]
        BY <1>2, <2>1
    <2>5. effects' \in [Operations -> 0..2]
        BY <1>2, <2>1, <2>2, <2>3
    <2> QED BY <2>3, <2>4, <2>5
<1>6. TypeOK'
    BY <1>2, <1>4, <1>5 DEF TypeOK, Frames
<1>7. Nesting'
    BY <1>2, <1>3, AdvanceKeepsNesting
<1> HIDE DEF n
<1>8. ASSUME NEW u \in Threads, NEW i, NEW o
      PROVE  /\ Releasing(u, i, o)' <=> Releasing(u, i, o)
             /\ Handling(u, i, o)' <=> Handling(u, i, o) \/ (u = t /\ i = n /\ o = op)
    BY <1>3, <1>4 DEF Releasing, Handling
<1>9. \A u \in Threads : \A i, o : Releasing(u, i, o) => o \in Operations /\ i \in DOMAIN stack[u]
    BY ReleasingTyped
<1>10. Ownership' /\ LookedUp' /\ Alone'
    BY <1>2, <1>8, <1>9 DEF Ownership, LookedUp, Alone
<1>11. effects[op] > 0 => op \in unstored \cup reentered
    <2>1. op \in unstored \cup reentered \/ effects[op] = 0
        BY <1>3 DEF Counted
    <2> QED BY <2>1
<1>12. DuplicatesAreExplained'
    BY <1>2, <1>5, <1>11 DEF DuplicatesAreExplained
<1>13. Counted'
    <2>1. ASSUME NEW u \in Threads, NEW o \in Operations, NEW i, Releasing(u, i, o)'
          PROVE  IF stack'[u][i].site = "handler" THEN effects'[o] > 0
                 ELSE o \in unstored \cup reentered \/ effects'[o] = 0
        <3>1. Releasing(u, i, o) /\ i \in DOMAIN stack[u]
            BY <1>8, <1>9, <2>1
        <3>2. CASE u = t /\ i = n
            <4>1. o = op
                BY <1>3, <3>1, <3>2 DEF Releasing
            <4> QED BY <1>4, <1>5, <3>2, <4>1
        <3>3. CASE ~(u = t /\ i = n)
            <4>1. stack'[u][i] = stack[u][i]
                BY <1>4, <3>1, <3>3
            <4>2. u = t
                BY <1>3, <3>1 DEF Ownership
            <4>3. stack[u][i].site = "handler"
                BY <1>3, <3>1, <3>3, <4>2 DEF Nesting, Releasing, n
            <4>4. effects[o] > 0
                BY <3>1, <4>3 DEF Counted
            <4> QED BY <1>5, <4>1, <4>3, <4>4
        <3> QED BY <3>2, <3>3
    <2>2. \A o \in Operations : operations[o].status \in Terminal => effects'[o] > 0
        BY <1>5 DEF Counted
    <2>3. ASSUME NEW o \in Operations \ unstored, effects'[o] > 0
          PROVE  \/ operations[o].status \in Terminal
                 \/ \E u \in Threads : \E i \in DOMAIN stack'[u] : Handling(u, i, o)'
        <3>1. CASE o = op
            BY <1>3, <1>4, <1>8, <3>1
        <3>2. CASE o # op
            <4>1. \/ operations[o].status \in Terminal
                  \/ \E u \in Threads : \E i \in DOMAIN stack[u] : Handling(u, i, o)
                BY <1>5, <2>3, <3>2 DEF Counted
            <4> QED BY <1>4, <1>8, <4>1
        <3> QED BY <3>1, <3>2
    <2> QED BY <1>2, <2>1, <2>2, <2>3 DEF Counted
<1>14. Listed'
    <2> SUFFICES ASSUME NEW u \in Threads, NEW i \in DOMAIN stack'[u],
                        stack'[u][i].call = "release_all"
                 PROVE  LET all == stack'[u][i]
                        IN  /\ all.snapshot = all.todo \cup all.released \cup all.failed
                            /\ \A o \in all.snapshot : operations[o].transaction = all.transaction
                            /\ \A o \in all.released : operations[o].status = "released"
                            /\ \A o \in all.failed : operations[o].status = "failed"
                            /\ \A o \in all.released \cup all.failed, v \in Threads :
                                  \A j \in DOMAIN stack'[v] : Releasing(v, j, o)' => v = u /\ j < i
        BY <1>2 DEF Listed
    <2>1. stack'[u][i] = stack[u][i] /\ i \in DOMAIN stack[u]
        BY <1>4
    <2> QED BY <1>8, <1>9, <2>1 DEF Listed
<1> QED BY <1>6, <1>7, <1>10, <1>12, <1>13, <1>14

\* A frame that waits for the lock is a frame.
LEMMA WaitingTyped == \A o \in Operations : Waiting(o) \in Frames
BY DEF Waiting, Frames, ReleaseCalls

\* The calls from outside and from handlers.
LEMMA CallInv == ASSUME IInv, NEW t \in Threads, Call(t) PROVE IInv'
<1>1. CASE \E o \in Operations, x \in Transactions : Stage(t, o, x)
    BY <1>1, StageInv
<1>2. CASE \E o \in Operations : CallRelease(t, o)
    <2>1. PICK o \in Operations : CallRelease(t, o)
        BY <1>2
    <2>2. PICK c : c = Waiting(o)
        OBVIOUS
    <2>3. c \in Frames /\ c.call = "release" /\ c.site = "acquire"
        BY <2>2, WaitingTyped DEF Waiting
    <2>4. /\ MayCall(t)
          /\ stack' = [stack EXCEPT ![t] = Append(@, c)]
          /\ UNCHANGED <<operations, order, lock, effects, unstored, reentered>>
        BY <2>1, <2>2 DEF CallRelease, Push
    <2> QED BY <2>3, <2>4, PushKeepsIInv
<1>3. CASE \E x \in Transactions : CallReleaseAll(t, x)
    <2>1. PICK x \in Transactions : CallReleaseAll(t, x)
        BY <1>3
    <2>2. PICK staged : staged = {o \in list_operations(x) : operations[o].status = "staged"}
        OBVIOUS
    <2>3. PICK c : c = [call |-> "release_all", transaction |-> x, snapshot |-> staged,
                        todo |-> staged, released |-> {}, failed |-> {}]
        OBVIOUS
    <2>4. staged \subseteq Operations /\ \A o \in staged : operations[o].transaction = x
        BY <2>2 DEF list_operations
    <2>5. /\ c \in Frames /\ c.call = "release_all" /\ c.todo = c.snapshot
          /\ c.released = {} /\ c.failed = {}
          /\ \A o \in c.snapshot : operations[o].transaction = c.transaction
        BY <2>3, <2>4 DEF Frames, ReleaseAllCalls
    <2>6. /\ MayCall(t)
          /\ stack' = [stack EXCEPT ![t] = Append(@, c)]
          /\ UNCHANGED <<operations, order, lock, effects, unstored, reentered>>
        BY <2>1, <2>2, <2>3 DEF CallReleaseAll, Push
    <2> QED BY <2>5, <2>6, PushKeepsIInv
<1> QED BY <1>1, <1>2, <1>3 DEF Call

\* The loop of release_all() makes its next call.
LEMMA ReleaseNextInv == ASSUME IInv, NEW t \in Threads, ReleaseNext(t) PROVE IInv'
<1>1. PICK o \in Innermost(t).todo : stack' = [stack EXCEPT ![t] = Append(@, Waiting(o))]
    BY DEF ReleaseNext
<1>2. PICK c : c = Waiting(o)
    OBVIOUS
<1>3. In(t, "release_all") /\ Innermost(t) \in ReleaseAllCalls
    BY StackTyped, FrameKinds DEF ReleaseNext, In, IInv
<1>4. o \in Operations
    BY <1>1, <1>3 DEF ReleaseAllCalls
<1>5. c \in Frames /\ c.call = "release" /\ c.site = "acquire" /\ c.op = o
    BY <1>2, <1>4, WaitingTyped DEF Waiting
<1>6. /\ stack' = [stack EXCEPT ![t] = Append(@, c)]
      /\ UNCHANGED <<operations, order, lock, effects, unstored, reentered>>
    BY <1>1, <1>2 DEF ReleaseNext
<1> QED BY <1>1, <1>3, <1>5, <1>6, PushKeepsIInv

\* release_all() returns.
LEMMA ReturnSummaryInv == ASSUME IInv, NEW t \in Threads, ReturnSummary(t) PROVE IInv'
<1> DEFINE outer == SubSeq(stack[t], 1, Len(stack[t]) - 1)
<1>1. /\ stack[t] # <<>> /\ Innermost(t).call = "release_all" /\ Unwind(t, outer)
      /\ UNCHANGED <<operations, order, effects, unstored, reentered>>
    BY DEF ReturnSummary, In
<1>2. /\ stack[t] \in Seq(Frames) /\ Len(stack[t]) \in Nat /\ DOMAIN stack[t] = 1..Len(stack[t])
    BY StackTyped DEF IInv
<1>3. /\ outer \in Seq(Frames)
      /\ Len(outer) = Len(stack[t]) - 1
      /\ DOMAIN outer = 1..Len(outer)
      /\ \A i \in DOMAIN outer : outer[i] = stack[t][i]
    BY <1>1, <1>2, OuterCalls
<1> HIDE DEF outer
<1>4. Unwound(t, outer)
    BY <1>2, <1>3 DEF Unwound
<1>5. \A i, o : Handling(t, i, o) => i \in DOMAIN outer
    BY <1>1, <1>2, <1>3 DEF Handling, Releasing, Innermost
<1>6. unstored' \subseteq Operations
    BY <1>1 DEF IInv, TypeOK
<1> QED BY <1>1, <1>4, <1>5, <1>6, UnwindKeepsIInv

\* A call that is left at its lookup has no handler that runs.
LEMMA LeavesNoHandler ==
    ASSUME IInv, NEW t \in Threads, At(t, "acquire"), NEW calls, OneCallLeft(t, calls), NEW i, NEW o,
           Handling(t, i, o)
    PROVE  i \in DOMAIN calls
BY DEF Handling, Releasing, OneCallLeft, At, In, Innermost

\* The lookup: unknown, settled, or staged.
LEMMA AcquireInv == ASSUME IInv, NEW t \in Threads, Acquire(t) PROVE IInv'
<1> DEFINE o == Innermost(t).op
<1>1. /\ At(t, "acquire") /\ CanLock(t) /\ stack[t] # <<>> /\ Innermost(t).call = "release"
      /\ UNCHANGED <<operations, order, effects, unstored>>
      /\ TypeOK /\ unstored' \subseteq Operations
    BY DEF Acquire, At, In, IInv, TypeOK
<1>2. CASE operations[o].status = "absent" /\ Raise(t) /\ UNCHANGED reentered
    <2>1. PICK calls : Unwound(t, calls) /\ OneCallLeft(t, calls) /\ Unwind(t, calls)
        BY <1>1, <1>2, RaiseUnwinds
    <2>2. \A i, p : Handling(t, i, p) => i \in DOMAIN calls
        BY <1>1, <2>1, LeavesNoHandler
    <2> QED BY <1>1, <1>2, <2>1, <2>2, UnwindKeepsIInv
<1>3. CASE operations[o].status \in Terminal /\ Return(t, o, operations[o].status)
              /\ UNCHANGED reentered
    <2>1. PICK status \in Terminal : status = operations'[o].status /\ Return(t, o, status)
        BY <1>1, <1>3
    <2>2. PICK calls : Unwound(t, calls) /\ OneCallLeft(t, calls) /\ Unwind(t, calls)
        BY <1>1, <2>1, ReturnUnwinds
    <2>3. \A i, p : Handling(t, i, p) => i \in DOMAIN calls
        BY <1>1, <2>2, LeavesNoHandler
    <2> QED BY <1>1, <1>3, <2>2, <2>3, UnwindKeepsIInv
<1>4. CASE /\ operations[o].status = "staged"
           /\ stack' = Advance(t, "invoke")
           /\ lock' = t
           /\ reentered' = IF InOwnHandler(t, o) THEN reentered \cup {o} ELSE reentered
    BY <1>1, <1>4, LookUpInv
<1> QED BY <1>2, <1>3, <1>4 DEF Acquire

\* A handler that has ended leaves an outcome, or is known to have left none.
LEMMA FinishInv == ASSUME IInv, NEW t \in Threads, Finish(t) PROVE IInv'
<1> DEFINE o == Innermost(t).op
           n == Len(stack[t])
<1>1. /\ At(t, "handler") /\ stack[t] # <<>> /\ Innermost(t).call = "release"
      /\ UNCHANGED <<order, effects, reentered>>
      /\ TypeOK /\ unstored \subseteq Operations
    BY DEF Finish, HandlerReturns, HandlerRaises, OutputRejected, At, In, IInv, TypeOK
<1>2. Handling(t, n, o) /\ Releasing(t, n, o) /\ o \in Operations /\ CanLock(t)
    <2>1. Handling(t, n, o) /\ Releasing(t, n, o) /\ o \in Operations
        BY <1>1, InnermostReleasing
    <2>2. n \in DOMAIN stack[t]
        BY <2>1 DEF Releasing
    <2> QED BY <2>1, <2>2 DEF IInv, Ownership, CanLock
<1>3. ASSUME NEW calls, OneCallLeft(t, calls), NEW i, NEW p, Handling(t, i, p), i \notin DOMAIN calls
      PROVE  p = o
    BY <1>3 DEF Handling, Releasing, OneCallLeft, Innermost
<1>4. ASSUME NEW status \in Terminal, Store(t, status) PROVE IInv'
    <2>1. /\ operations' = [operations EXCEPT ![o].status = status]
          /\ UNCHANGED unstored
          /\ Return(t, o, status) \/ Raise(t)
        BY <1>4 DEF Store
    <2>2. operations'[o].status = status
        <3>1. operations[o] \in Operation /\ operations \in [Operations -> Operation]
            BY <1>1, <1>2 DEF TypeOK
        <3>2. operations'[o] = [operations[o] EXCEPT !.status = status]
            BY <1>2, <2>1, <3>1
        <3> QED BY <3>1, <3>2 DEF Operation
    <2>3. PICK calls : Unwound(t, calls) /\ OneCallLeft(t, calls) /\ Unwind(t, calls)
        <3>1. CASE Raise(t)
            BY <1>1, <3>1, RaiseUnwinds
        <3>2. CASE Return(t, o, status)
            BY <1>1, <1>2, <2>2, <3>2, ReturnUnwinds
        <3> QED BY <2>1, <3>1, <3>2
    <2>4. \A i, p : Handling(t, i, p) /\ i \notin DOMAIN calls => operations'[p].status \in Terminal
        BY <1>3, <2>2, <2>3
    <2>5. unstored \subseteq unstored' /\ unstored' \subseteq Operations
        BY <1>1, <2>1
    <2> QED BY <1>1, <2>1, <2>3, <2>4, <2>5, UnwindKeepsIInv
<1>5. CASE HandlerRaises(t) \/ HandlerReturns(t)
    BY <1>4, <1>5 DEF HandlerRaises, HandlerReturns, Terminal
<1>6. CASE OutputRejected(t)
    <2>1. unstored' = unstored \cup {o} /\ Raise(t) /\ operations' = operations
        BY <1>6 DEF OutputRejected
    <2>2. PICK calls : Unwound(t, calls) /\ OneCallLeft(t, calls) /\ Unwind(t, calls)
        BY <1>1, <2>1, RaiseUnwinds
    <2>3. \A i, p : Handling(t, i, p) /\ i \notin DOMAIN calls => p \in unstored'
        BY <1>3, <2>1, <2>2
    <2>4. unstored \subseteq unstored' /\ unstored' \subseteq Operations
        BY <1>1, <1>2, <2>1
    <2> QED BY <1>1, <2>1, <2>2, <2>3, <2>4, UnwindKeepsIInv
<1> QED BY <1>5, <1>6 DEF Finish

\* An interrupt leaves every handler of the thread without an outcome.
LEMMA InterruptInv == ASSUME IInv, NEW t \in Threads, Interrupt(t) PROVE IInv'
<1>1. /\ stack[t] # <<>> /\ Unwind(t, <<>>)
      /\ unstored' = unstored \cup {o \in Operations : InOwnHandler(t, o)}
      /\ UNCHANGED <<operations, order, effects, reentered>>
      /\ TypeOK
    BY DEF Interrupt, At, In, IInv
<1>2. PICK calls : calls = <<>>
    OBVIOUS
<1>3. Unwound(t, calls)
    <2>1. Len(stack[t]) > 0 /\ calls \in Seq(Frames) /\ Len(calls) = 0 /\ DOMAIN calls = {}
        BY <1>1, <1>2, StackTyped
    <2> QED BY <2>1 DEF Unwound
<1>4. \A i, o : Handling(t, i, o) => o \in unstored'
    <2>1. \A i, o : Handling(t, i, o) => o \in Operations /\ InOwnHandler(t, o)
        BY <1>1, ReleasingTyped DEF Handling, Releasing, InOwnHandler
    <2> QED BY <1>1, <2>1
<1>5. unstored \subseteq unstored' /\ unstored' \subseteq Operations
    BY <1>1 DEF TypeOK
<1> QED BY <1>1, <1>2, <1>3, <1>4, <1>5, UnwindKeepsIInv

\* Whatever a thread does in the outbox keeps the invariant.
LEMMA StepInv ==
    ASSUME IInv, NEW t \in Threads, Call(t) \/ Proceed(t) \/ Interrupt(t)
    PROVE  IInv'
<1>1. CASE Call(t)          BY <1>1, CallInv
<1>2. CASE ReleaseNext(t)   BY <1>2, ReleaseNextInv
<1>3. CASE ReturnSummary(t) BY <1>3, ReturnSummaryInv
<1>4. CASE Acquire(t)       BY <1>4, AcquireInv
<1>5. CASE Invoke(t)        BY <1>5, InvokeInv
<1>6. CASE Finish(t)        BY <1>6, FinishInv
<1>7. CASE Interrupt(t)     BY <1>7, InterruptInv
<1> QED BY <1>1, <1>2, <1>3, <1>4, <1>5, <1>6, <1>7 DEF Proceed

\* Nothing happens to the outbox.
LEMMA StutterInv == ASSUME IInv, UNCHANGED vars PROVE IInv'
<1>1. \A u, i, o : /\ Releasing(u, i, o)' <=> Releasing(u, i, o)
                   /\ Handling(u, i, o)' <=> Handling(u, i, o)
    BY StacksKept DEF vars
<1> QED BY <1>1 DEF vars, IInv, TypeOK, Nesting, Ownership, LookedUp, Alone, Counted, Listed,
                    DuplicatesAreExplained

(***************************************************************************)
(* The inductive invariant of the outbox: whoever is past the lookup owns  *)
(* the lock and finds what it looked up, its own reentrant calls apart.    *)
(***************************************************************************)
THEOREM InvariantHolds == Spec => []IInv
<1>1. IInv /\ [Next]_vars => IInv'
    BY StepInv, StutterInv DEF Next
<1> QED BY InitIInv, <1>1, PTL DEF Spec

-----------------------------------------------------------------------------
\* Type correctness of the outbox, with calls nested to any depth.
THEOREM TypeCorrect == Spec => []TypeOK
BY InvariantHolds, PTL DEF IInv

(***************************************************************************)
(* Concurrent and repeated releases never run a handler twice: that takes  *)
(* a run without an outcome or a handler that releases its own operation.  *)
(***************************************************************************)
THEOREM DuplicatesHaveAReason == Spec => []DuplicatesAreExplained
BY InvariantHolds, PTL DEF IInv

(***************************************************************************)
(* The summary of release_all() covers its snapshot and agrees with the    *)
(* store, whoever released the operations and in whatever nesting.         *)
(***************************************************************************)
THEOREM SummariesAreTruthful == Spec => []SummaryIsTruthful
<1>1. IInv => SummaryIsTruthful
    <2> SUFFICES ASSUME IInv, NEW t \in Threads, In(t, "release_all"), Innermost(t).todo = {}
                 PROVE  LET all == Innermost(t)
                        IN  /\ all.released \cup all.failed = all.snapshot
                            /\ \A o \in all.snapshot : operations[o].transaction = all.transaction
                            /\ \A o \in all.released : operations[o].status = "released"
                            /\ \A o \in all.failed : operations[o].status = "failed"
        BY DEF SummaryIsTruthful
    <2>1. Len(stack[t]) \in DOMAIN stack[t] /\ Innermost(t) = stack[t][Len(stack[t])]
        BY StackTyped DEF IInv, In, Innermost
    <2> QED BY <2>1 DEF IInv, Listed, In
<1> QED BY <1>1, InvariantHolds, PTL

(***************************************************************************)
(* The outcome of a handler that has run is in the store once the handler  *)
(* is done, also when the ledger raises (backend.py:143).                  *)
(***************************************************************************)
THEOREM OutcomesAreKept == Spec => []LedgerFailureKeepsOutcome
<1>1. IInv => LedgerFailureKeepsOutcome
    <2>1. \A t, i, o : Handling(t, i, o) => InOwnHandler(t, o)
        BY DEF Handling, Releasing, InOwnHandler
    <2> QED BY <2>1 DEF IInv, Counted, LedgerFailureKeepsOutcome
<1> QED BY <1>1, InvariantHolds, PTL

\* A step that changes an outcome is that of a handler that released itself.
LEMMA OutcomesStay ==
    ASSUME IInv, NEW t \in Threads, Call(t) \/ Proceed(t) \/ Interrupt(t),
           NEW o \in Operations \ reentered, operations[o].status \in Terminal
    PROVE  operations'[o] = operations[o]
<1>1. CASE \E p \in Operations, x \in Transactions : Stage(t, p, x)
    BY <1>1 DEF Stage, Absent, Terminal, IInv, TypeOK
<1>2. CASE HandlerRaises(t) \/ HandlerReturns(t)
    <2>1. Releasing(t, Len(stack[t]), Innermost(t).op) /\ Innermost(t).op \in Operations
        BY <1>2, InnermostReleasing DEF HandlerRaises, HandlerReturns, IInv
    <2>2. Innermost(t).op \notin reentered => operations[Innermost(t).op].status = "staged"
        BY <2>1 DEF IInv, LookedUp, Releasing
    <2>3. o # Innermost(t).op
        BY <2>2 DEF Terminal
    <2> QED BY <1>2, <2>1, <2>3 DEF HandlerRaises, HandlerReturns, Store, IInv, TypeOK
<1>3. CASE operations' = operations
    BY <1>3
<1> QED BY <1>1, <1>2, <1>3 DEF Call, CallRelease, CallReleaseAll, Proceed, ReleaseNext,
        ReturnSummary, Acquire, Invoke, Finish, OutputRejected, Interrupt

(***************************************************************************)
(* A stored outcome is final against every thread that waits for the lock; *)
(* only a handler that released its own operation overwrites it.           *)
(***************************************************************************)
THEOREM OutcomesAreFinal == Spec => OutcomeIsFinal
<1>1. IInv /\ [Next]_vars =>
          [\A o \in Operations \ reentered :
              operations[o].status \in Terminal => operations'[o] = operations[o]]_vars
    BY OutcomesStay DEF Next
<1> QED BY <1>1, InvariantHolds, PTL DEF Spec, OutcomeIsFinal
=============================================================================
