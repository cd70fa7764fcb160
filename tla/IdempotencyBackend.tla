------------------------- MODULE IdempotencyBackend -------------------------
(***************************************************************************)
(* InMemoryIdempotencyBackend (src/agentactum/idempotency/backend.py) with *)
(* the interleavings of its callers: every method takes self._lock, looks  *)
(* the key up, decides on what it read, stores, and leaves the `with`      *)
(* block, normally or by an exception.  Threads call it for ever.          *)
(***************************************************************************)
EXTENDS IdempotencyRecords, Naturals, FiniteSets

CONSTANT Threads

VARIABLES
    records,    \* self._records
    lock,       \* the thread that holds self._lock, or None
    pc,         \* where each thread is
    request,    \* the call a thread is making, or None
    existing,   \* what the thread read from the dict
    answer,     \* what the call is about to return or raise, or None
    granted     \* history: the pairs <<key, token>> that claim() acquired

vars == <<records, lock, pc, request, existing, answer, granted>>

ASSUME NoneIsNoValue ==
    /\ None \notin Threads
    /\ None \notin Tokens
    /\ None \notin Results
    /\ None \notin Requests
    /\ None \notin Answers

ASSUME EnoughTokens == Cardinality(Tokens) >= Cardinality(Keys)

Sites == {"idle", "acquire", "read", "decide", "release"}

TypeOK ==
    /\ records \in [Keys -> Record]
    /\ lock \in Threads \cup {None}
    /\ pc \in [Threads -> Sites]
    /\ request \in [Threads -> Requests \cup {None}]
    /\ existing \in [Threads -> Record]
    /\ answer \in [Threads -> Answers \cup {None}]
    /\ granted \subseteq Keys \X Tokens

\* __init__
Init ==
    /\ records  = [k \in Keys |-> Absent]
    /\ lock     = None
    /\ pc       = [t \in Threads |-> "idle"]
    /\ request  = [t \in Threads |-> None]
    /\ existing = [t \in Threads |-> Absent]
    /\ answer   = [t \in Threads |-> None]
    /\ granted  = {}

Goto(t, from, to) == pc[t] = from /\ pc' = [pc EXCEPT ![t] = to]

Call(t, r) ==
    /\ Goto(t, "idle", "acquire")
    /\ request' = [request EXCEPT ![t] = r]
    /\ UNCHANGED <<records, lock, existing, answer, granted>>

\* @mutant of Acquire: the method runs without taking the lock.
AcquireNothing(t) ==
    /\ Goto(t, "acquire", "read")
    /\ UNCHANGED <<records, lock, request, existing, answer, granted>>

\* with self._lock:
Acquire(t) ==
    /\ Goto(t, "acquire", "read")
    /\ lock = None
    /\ lock' = t
    /\ UNCHANGED <<records, request, existing, answer, granted>>

\* self._records.get(key), or self._records[key]
Read(t) ==
    /\ Goto(t, "read", "decide")
    /\ existing' = [existing EXCEPT ![t] = records[request[t].key]]
    /\ UNCHANGED <<records, lock, request, answer, granted>>

FreshTokens == {token \in Tokens : \A k \in Keys : <<k, token>> \notin granted}

\* uuid4() is only reached when claim() finds no record.
DrawnTokens(t) ==
    IF request[t].op = "claim" /\ existing[t].status = "absent"
    THEN FreshTokens ELSE {None}

Grants(r, effect) ==
    IF effect.answer.outcome = "acquired"
    THEN {<<r.key, effect.record.owner>>} ELSE {}

Decide(t) ==
    /\ Goto(t, "decide", "release")
    /\ \E token \in DrawnTokens(t) :
          LET r      == request[t]
              effect == Perform(existing[t], r, token)
          IN  /\ records' = [records EXCEPT ![r.key] = effect.record]
              /\ answer'  = [answer EXCEPT ![t] = effect.answer]
              /\ granted' = granted \cup Grants(r, effect)
    /\ UNCHANGED <<lock, request, existing>>

\* @mutant of Release: an exception leaves the method with the lock held.
ReleaseUnlessRaised(t) ==
    /\ Goto(t, "release", "idle")
    /\ lock'     = IF answer[t].outcome = "KeyError" THEN lock ELSE None
    /\ request'  = [request EXCEPT ![t] = None]
    /\ existing' = [existing EXCEPT ![t] = Absent]
    /\ answer'   = [answer EXCEPT ![t] = None]
    /\ UNCHANGED <<records, granted>>

\* The end of the `with` block; the caller has its answer.
Release(t) ==
    /\ Goto(t, "release", "idle")
    /\ lock'     = None
    /\ request'  = [request EXCEPT ![t] = None]
    /\ existing' = [existing EXCEPT ![t] = Absent]
    /\ answer'   = [answer EXCEPT ![t] = None]
    /\ UNCHANGED <<records, granted>>

Proceed(t) == Acquire(t) \/ Read(t) \/ Decide(t) \/ Release(t)

Next == \E t \in Threads : (\E r \in Requests : Call(t, r)) \/ Proceed(t)

(***************************************************************************)
(* A thread inside a method keeps running.  Python's RLock is not fair, so *)
(* nothing says that a given waiting thread ever gets the lock: Proceed is *)
(* weakly fair, which a thread that is overtaken again and again satisfies.*)
(***************************************************************************)
Fairness == \A t \in Threads : WF_vars(Proceed(t))

Spec == Init /\ [][Next]_vars /\ Fairness

-----------------------------------------------------------------------------
(***************************************************************************)
(* claim() grants a key to at most one owner for the life of the process,  *)
(* however the calls of the threads interleave (backend.py:60-74).         *)
(***************************************************************************)
SingleOwner ==
    \A g, h \in granted : g[1] = h[1] => g[2] = h[2]

(***************************************************************************)
(* The store agrees with the grants that were handed out: the owner of a   *)
(* record is the token its claimant was given, before and after completion.*)
(***************************************************************************)
OwnerIsGrantee ==
    \A k \in Keys : records[k].status # "absent" => <<k, records[k].owner>> \in granted

(***************************************************************************)
(* A record only moves forward, absent to in progress to completed, and a  *)
(* completed record never changes, even when mark_completed is repeated    *)
(* with another result (backend.py:94-95).                                 *)
(***************************************************************************)
CompletionIsFinal ==
    [][\A k \in Keys :
          /\ records[k].status = "completed" => records'[k] = records[k]
          /\ records[k].status = "in_progress" =>
                /\ records'[k].status # "absent"
                /\ records'[k].owner = records[k].owner]_vars

(***************************************************************************)
(* The methods are linearizable: every behaviour of the locked code is one *)
(* of AtomicIdempotency, in which each call takes effect at one instant.   *)
(***************************************************************************)
Atomic == INSTANCE AtomicIdempotency

Linearizable == Atomic!Spec

(***************************************************************************)
(* Whenever a thread waits for the lock, some call finishes its critical   *)
(* section: no path out of a method, exceptions included, keeps the lock.  *)
(***************************************************************************)
LockProgress ==
    (\E t \in Threads : pc[t] = "acquire") ~> (\E t \in Threads : pc[t] = "release")
=============================================================================
