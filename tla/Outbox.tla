------------------------------- MODULE Outbox -------------------------------
(***************************************************************************)
(* InMemoryOutboxBackend (src/agentactum/outbox/backend.py) called by      *)
(* several threads.  release() keeps self._lock while the handler runs,    *)
(* and the lock is reentrant: the handler may call the outbox again from   *)
(* its own thread, also for the operation that is being released.  The     *)
(* ledger may raise on any append.                                         *)
(*                                                                         *)
(* stack[t] holds the calls of release() and release_all() that thread t   *)
(* is in, the innermost last.  What happens under the lock between two     *)
(* callbacks is one step.                                                  *)
(***************************************************************************)
EXTENDS Naturals, Sequences, FiniteSets

CONSTANTS
    Threads,
    Operations,     \* operation ids that uuid4() may draw
    Transactions,
    MaxDepth,       \* bound on the calls nested in one thread
    None

ASSUME MaxDepthAssumption == MaxDepth \in Nat

ASSUME NoneIsNoThread == None \notin Threads /\ None \notin Transactions

Terminal == {"released", "failed"}
Statuses == {"absent", "staged"} \cup Terminal

Operation == [status : Statuses, transaction : Transactions \cup {None}]

Absent == [status |-> "absent", transaction |-> None]

\* A call of release(): it waits for the lock, is about to run the handler,
\* or the handler is running.
ReleaseCalls == [call : {"release"}, site : {"acquire", "invoke", "handler"}, op : Operations]

\* A call of release_all(): what is left of its snapshot and its two lists.
ReleaseAllCalls ==
    [call : {"release_all"}, transaction : Transactions, snapshot : SUBSET Operations,
     todo : SUBSET Operations, released : SUBSET Operations, failed : SUBSET Operations]

VARIABLES
    operations,     \* self._operations
    order,          \* the keys of self._operations in insertion order
    lock,           \* the thread that owns self._lock, or None
    stack,          \* the calls each thread is in
    effects,        \* history: how often each handler was entered, 2 for more
    unstored,       \* history: operations whose handler ran and left no outcome
    reentered       \* history: operations released again from their own handler

vars == <<operations, order, lock, stack, effects, unstored, reentered>>

TypeOK ==
    /\ operations \in [Operations -> Operation]
    /\ order \in Seq(Operations)
    /\ lock \in Threads \cup {None}
    /\ stack \in [Threads -> Seq(ReleaseCalls \cup ReleaseAllCalls)]
    /\ effects \in [Operations -> 0..2]
    /\ unstored \subseteq Operations
    /\ reentered \subseteq Operations

\* __init__
Init ==
    /\ operations = [o \in Operations |-> Absent]
    /\ order      = <<>>
    /\ lock       = None
    /\ stack      = [t \in Threads |-> <<>>]
    /\ effects    = [o \in Operations |-> 0]
    /\ unstored   = {}
    /\ reentered  = {}

-----------------------------------------------------------------------------
Innermost(t) == stack[t][Len(stack[t])]

\* Thread t is in a call of this kind that has come to this site.
In(t, call) == stack[t] # <<>> /\ Innermost(t).call = call
At(t, site) == In(t, "release") /\ Innermost(t).site = site

\* A thread calls the outbox from outside or from the handler it is running.
MayCall(t) == stack[t] = <<>> \/ At(t, "handler")

\* `with self._lock' gets through, for the owner too.
CanLock(t) == lock \in {t, None}

\* The calls that are inside the critical section of release().
Inside(calls) ==
    \E i \in DOMAIN calls : calls[i].call = "release" /\ calls[i].site # "acquire"

\* The calls of t become `calls'; t keeps the lock while one of them is inside.
Unwind(t, calls) ==
    /\ stack' = [stack EXCEPT ![t] = calls]
    /\ lock' = IF Inside(calls) THEN t ELSE IF lock = t THEN None ELSE lock

\* @mutant of Raise: an exception leaves the method with the lock held.
RaiseKeepsLock(t) ==
    LET outer == SubSeq(stack[t], 1, Len(stack[t]) - 1)
    IN  /\ stack' = [stack EXCEPT ![t] =
              IF outer # <<>> /\ outer[Len(outer)].call = "release_all"
              THEN SubSeq(outer, 1, Len(outer) - 1) ELSE outer]
        /\ UNCHANGED lock

\* An exception leaves release() and the loop of release_all(), if it is in one.
Raise(t) ==
    LET outer == SubSeq(stack[t], 1, Len(stack[t]) - 1)
    IN  Unwind(t, IF outer # <<>> /\ outer[Len(outer)].call = "release_all"
                  THEN SubSeq(outer, 1, Len(outer) - 1) ELSE outer)

\* @mutant of Collected: the lists take statuses in place of operations.
CollectedStatuses(all, o, status) ==
    IF status = "released"
    THEN [all EXCEPT !.todo = @ \ {o}, !.released = @ \cup {status}]
    ELSE [all EXCEPT !.todo = @ \ {o}, !.failed = @ \cup {status}]

\* @mutant of Collected: every operation of the snapshot counts as released.
CollectedAsReleased(all, o, status) ==
    [all EXCEPT !.todo = @ \ {o}, !.released = @ \cup {o}]

\* release_all() takes the result of one release() into its lists.
Collected(all, o, status) ==
    IF status = "released"
    THEN [all EXCEPT !.todo = @ \ {o}, !.released = @ \cup {o}]
    ELSE [all EXCEPT !.todo = @ \ {o}, !.failed = @ \cup {o}]

\* release(o) returns an operation with this status to its caller.
Return(t, o, status) ==
    LET outer == SubSeq(stack[t], 1, Len(stack[t]) - 1)
        last  == Len(outer)
    IN  Unwind(t, IF outer # <<>> /\ outer[last].call = "release_all"
                  THEN [outer EXCEPT ![last] = Collected(@, o, status)] ELSE outer)

\* stage(): a ledger that raises comes too late, the operation is stored.
Stage(t, o, x) ==
    /\ MayCall(t)
    /\ CanLock(t)
    /\ operations[o] = Absent
    /\ operations' = [operations EXCEPT ![o] = [status |-> "staged", transaction |-> x]]
    /\ order' = Append(order, o)
    /\ UNCHANGED <<lock, stack, effects, unstored, reentered>>

Push(t, call) ==
    /\ Len(stack[t]) < MaxDepth
    /\ stack' = [stack EXCEPT ![t] = Append(@, call)]

Waiting(o) == [call |-> "release", site |-> "acquire", op |-> o]

CallRelease(t, o) ==
    /\ MayCall(t)
    /\ Push(t, Waiting(o))
    /\ UNCHANGED <<operations, order, lock, effects, unstored, reentered>>

\* The operations of a transaction; Earliest() takes them in insertion order.
list_operations(x) == {o \in Operations : operations[o].transaction = x}

\* o comes before the other operations of a set.
Earliest(o, ops) ==
    \A p \in ops : \E i, j \in DOMAIN order : i <= j /\ order[i] = o /\ order[j] = p

\* release_all() starts from the staged operations of list_operations().
CallReleaseAll(t, x) ==
    LET staged == {o \in list_operations(x) : operations[o].status = "staged"}
    IN  /\ MayCall(t)
        /\ CanLock(t)
        /\ Push(t, [call |-> "release_all", transaction |-> x, snapshot |-> staged,
                    todo |-> staged, released |-> {}, failed |-> {}])
        /\ UNCHANGED <<operations, order, lock, effects, unstored, reentered>>

\* One iteration of the loop of release_all().
ReleaseNext(t) ==
    /\ In(t, "release_all")
    /\ \E o \in Innermost(t).todo :
          /\ Earliest(o, Innermost(t).todo)
          /\ stack' = [stack EXCEPT ![t] = Append(@, Waiting(o))]
    /\ UNCHANGED <<operations, order, lock, effects, unstored, reentered>>

\* The summary is returned.
ReturnSummary(t) ==
    /\ In(t, "release_all")
    /\ Innermost(t).todo = {}
    /\ Unwind(t, SubSeq(stack[t], 1, Len(stack[t]) - 1))
    /\ UNCHANGED <<operations, order, effects, unstored, reentered>>

\* The handler of o is running in an outer call of this thread.
InOwnHandler(t, o) ==
    \E i \in DOMAIN stack[t] :
        stack[t][i].call = "release" /\ stack[t][i].op = o /\ stack[t][i].site = "handler"

Advance(t, site) == [stack EXCEPT ![t][Len(stack[t])].site = site]

\* @mutant of Acquire: release() looks the operation up without the lock.
AcquireNothing(t) ==
    LET o == Innermost(t).op
    IN  /\ At(t, "acquire")
        /\ \/ operations[o].status = "absent" /\ Raise(t) /\ UNCHANGED reentered
           \/ operations[o].status \in Terminal /\ Return(t, o, operations[o].status)
                /\ UNCHANGED reentered
           \/ /\ operations[o].status = "staged"
              /\ stack' = Advance(t, "invoke")
              /\ reentered' = IF InOwnHandler(t, o) THEN reentered \cup {o} ELSE reentered
              /\ UNCHANGED lock
        /\ UNCHANGED <<operations, order, effects, unstored>>

\* The lock is taken and the operation looked up: unknown, done, or staged.
Acquire(t) ==
    LET o == Innermost(t).op
    IN  /\ At(t, "acquire")
        /\ CanLock(t)
        /\ \/ operations[o].status = "absent" /\ Raise(t) /\ UNCHANGED reentered
           \/ operations[o].status \in Terminal /\ Return(t, o, operations[o].status)
                /\ UNCHANGED reentered
           \/ /\ operations[o].status = "staged"
              /\ stack' = Advance(t, "invoke")
              /\ lock' = t
              /\ reentered' = IF InOwnHandler(t, o) THEN reentered \cup {o} ELSE reentered
        /\ UNCHANGED <<operations, order, effects, unstored>>

\* handler(**operation.arguments); from here on its effect may have happened.
Invoke(t) ==
    LET o == Innermost(t).op
    IN  /\ At(t, "invoke")
        /\ stack' = Advance(t, "handler")
        /\ effects' = [effects EXCEPT ![o] = IF @ = 2 THEN 2 ELSE @ + 1]
        /\ UNCHANGED <<operations, order, lock, unstored, reentered>>

\* @mutant of Store: the event comes first and a ledger that raises loses the outcome.
LogThenStore(t, status) ==
    LET o == Innermost(t).op
    IN  /\ \/ operations' = [operations EXCEPT ![o].status = status] /\ Return(t, o, status)
           \/ UNCHANGED operations /\ Raise(t)
        /\ UNCHANGED unstored

(***************************************************************************)
(* The outcome is stored, then logged: _append_event() lets the call       *)
(* return, or raises out of it.                                            *)
(***************************************************************************)
Store(t, status) ==
    LET o == Innermost(t).op
    IN  /\ operations' = [operations EXCEPT ![o].status = status]
        /\ Return(t, o, status) \/ Raise(t)
        /\ UNCHANGED unstored

\* The handler raises an Exception.
HandlerRaises(t) ==
    /\ At(t, "handler")
    /\ Store(t, "failed")
    /\ UNCHANGED <<order, effects, reentered>>

\* The handler returns a JSON value.
HandlerReturns(t) ==
    /\ At(t, "handler")
    /\ Store(t, "released")
    /\ UNCHANGED <<order, effects, reentered>>

(***************************************************************************)
(* The handler has run, but no outcome can be stored: its output is no     *)
(* JsonValue and the constructor of the new record raises, or the host's   *)
(* clock does, after a handler that raised too.                            *)
(***************************************************************************)
OutputRejected(t) ==
    /\ At(t, "handler")
    /\ unstored' = unstored \cup {Innermost(t).op}
    /\ Raise(t)
    /\ UNCHANGED <<operations, order, effects, reentered>>

\* A BaseException crosses the handler and everything that called it.
Interrupt(t) ==
    /\ At(t, "handler")
    /\ unstored' = unstored \cup {o \in Operations : InOwnHandler(t, o)}
    /\ Unwind(t, <<>>)
    /\ UNCHANGED <<operations, order, effects, reentered>>

Finish(t) == HandlerReturns(t) \/ HandlerRaises(t) \/ OutputRejected(t)

Proceed(t) == ReleaseNext(t) \/ ReturnSummary(t) \/ Acquire(t) \/ Invoke(t) \/ Finish(t)

Call(t) ==
    \/ \E o \in Operations, x \in Transactions : Stage(t, o, x)
    \/ \E o \in Operations : CallRelease(t, o)
    \/ \E x \in Transactions : CallReleaseAll(t, x)

Next == \E t \in Threads : Call(t) \/ Proceed(t) \/ Interrupt(t)

(***************************************************************************)
(* A thread inside the outbox keeps running, and a handler ends: however   *)
(* many calls it makes, it is not kept from returning for ever.  (At       *)
(* MaxDepth a handler makes no calls.)                                     *)
(***************************************************************************)
Fairness ==
    \A t \in Threads :
        /\ WF_vars(Proceed(t))
        /\ \A depth \in 1..(MaxDepth - 1) : SF_vars(Len(stack[t]) = depth /\ Finish(t))

Spec == Init /\ [][Next]_vars /\ Fairness

-----------------------------------------------------------------------------
(***************************************************************************)
(* A handler runs more than once for exactly two reasons: an earlier run   *)
(* left no outcome (backend.py:131) or the handler released its own        *)
(* operation through the reentrant lock (backend.py:106).  Concurrent and  *)
(* repeated releases alone never duplicate an effect.                      *)
(***************************************************************************)
DuplicatesAreExplained ==
    \A o \in Operations : effects[o] > 1 => o \in unstored \cup reentered

(***************************************************************************)
(* A stored outcome is final, also against threads that wait for the lock; *)
(* only a handler that released its own operation overwrites it.           *)
(***************************************************************************)
OutcomeIsFinal ==
    [][\A o \in Operations \ reentered :
          operations[o].status \in Terminal => operations'[o] = operations[o]]_vars

(***************************************************************************)
(* The summary that release_all() is about to return covers every          *)
(* operation of its transaction that its snapshot found staged, and says   *)
(* of each what the store says, whoever released it (backend.py:153-171).  *)
(***************************************************************************)
SummaryIsTruthful ==
    \A t \in Threads :
        In(t, "release_all") /\ Innermost(t).todo = {} =>
            LET all == Innermost(t)
            IN  /\ all.released \cup all.failed = all.snapshot
                /\ \A o \in all.snapshot : operations[o].transaction = all.transaction
                /\ \A o \in all.released : operations[o].status = "released"
                /\ \A o \in all.failed : operations[o].status = "failed"

(***************************************************************************)
(* The handler has run for every operation with an outcome, and an outcome *)
(* is stored whenever its handler is done, unless no record of it could be *)
(* made: a ledger that raises afterwards (backend.py:143) loses no outcome.*)
(***************************************************************************)
LedgerFailureKeepsOutcome ==
    \A o \in Operations \ unstored :
        /\ operations[o].status \in Terminal => effects[o] > 0
        /\ effects[o] > 0 /\ (\A t \in Threads : ~InOwnHandler(t, o)) =>
              operations[o].status \in Terminal

(***************************************************************************)
(* "Releasing the same operation twice does not duplicate the side effect" *)
(* (tests/unit/test_outbox.py:60): release() is idempotent, however often  *)
(* and from wherever it is called.                                         *)
(***************************************************************************)
ReleaseIsIdempotent == \A o \in Operations : effects[o] <= 1

(***************************************************************************)
(* Whoever takes the lock gives it back, by a result, an exception of the  *)
(* outbox, the ledger or a record, or an interrupt (backend.py:90-149).    *)
(***************************************************************************)
LockIsFreed == \A t \in Threads : lock = t ~> lock # t
=============================================================================
