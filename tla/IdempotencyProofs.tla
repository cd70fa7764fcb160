-------------------------- MODULE IdempotencyProofs --------------------------
(***************************************************************************)
(* Proofs about IdempotencyBackend for any number of threads, keys, tokens *)
(* and results: its safety invariants and that it implements               *)
(* AtomicIdempotency.                                                      *)
(***************************************************************************)
EXTENDS IdempotencyBackend, TLAPS

\* The lock is held exactly by the thread inside a critical section.
MutualExclusion ==
    \A t \in Threads : pc[t] \in {"read", "decide", "release"} <=> lock = t

\* Where a thread is tells whether it has a request and an answer.
CallStage ==
    \A t \in Threads :
        /\ pc[t] = "idle" <=> request[t] = None
        /\ pc[t] = "release" <=> answer[t] # None

\* What a thread has read is still in the store when it decides on it.
ReadIsCurrent ==
    \A t \in Threads : pc[t] = "decide" => existing[t] = records[request[t].key]

\* A grant that was handed out is the owner in the store.
GranteeIsOwner ==
    \A k \in Keys, u \in Tokens :
        <<k, u>> \in granted => records[k].status # "absent" /\ records[k].owner = u

(***************************************************************************)
(* The inductive invariant.  SingleOwner alone is not inductive: it needs  *)
(* that a claim decides on a record that is still current, which needs the *)
(* lock.                                                                   *)
(***************************************************************************)
IInv ==
    /\ TypeOK
    /\ MutualExclusion
    /\ CallStage
    /\ ReadIsCurrent
    /\ GranteeIsOwner
    /\ OwnerIsGrantee

-----------------------------------------------------------------------------
\* A critical section leaves a record in the store and answers its caller.
LEMMA EffectType ==
    ASSUME NEW e \in Record, NEW r \in Requests, NEW token \in Tokens \cup {None}
    PROVE  /\ Perform(e, r, token).record \in Record
           /\ Perform(e, r, token).answer \in Answers
BY DEF Perform, claim, get_record, mark_completed, Effect, InProgress, Completed,
       Record, Statuses, Requests, Answers, Outcomes

(***************************************************************************)
(* What a critical section may do to a record: leave it alone, claim it    *)
(* when it is absent, or complete it for its owner.                        *)
(***************************************************************************)
LEMMA EffectShape ==
    ASSUME NEW e \in Record, NEW r \in Requests, NEW token \in Tokens \cup {None}
    PROVE  LET effect == Perform(e, r, token)
           IN  \/ effect.record = e /\ effect.answer.outcome # "acquired"
               \/ /\ e.status = "absent" /\ r.op = "claim"
                  /\ effect.record = InProgress(token)
                  /\ effect.answer.outcome = "acquired"
               \/ /\ e.status = "in_progress"
                  /\ effect.record = Completed(e, r.result)
                  /\ effect.answer.outcome # "acquired"
BY DEF Perform, claim, get_record, mark_completed, Effect, InProgress, Completed,
       Record, Statuses, Requests

\* The token of a critical section is fresh, or None when none is drawn.
LEMMA DrawnType ==
    ASSUME NEW t \in Threads
    PROVE  DrawnTokens(t) \subseteq Tokens \cup {None}
BY DEF DrawnTokens, FreshTokens

\* An empty backend satisfies IInv.
LEMMA InitInvariant == Init => IInv
BY NoneIsNoValue DEF Init, IInv, TypeOK, MutualExclusion, CallStage, ReadIsCurrent,
   GranteeIsOwner, OwnerIsGrantee, Record, Statuses, Absent, Sites

-----------------------------------------------------------------------------
\* A host may call one of the operations.
LEMMA CallInvariant ==
    ASSUME IInv, NEW t \in Threads, NEW r \in Requests, Call(t, r)
    PROVE  IInv'
<1> USE DEF Call, Goto, IInv
<1>1. TypeOK'
    BY DEF TypeOK, Sites
<1>2. MutualExclusion'
    BY DEF TypeOK, MutualExclusion
<1>3. CallStage'
    BY NoneIsNoValue DEF TypeOK, CallStage
<1>4. ReadIsCurrent'
    BY DEF TypeOK, ReadIsCurrent
<1>5. GranteeIsOwner' /\ OwnerIsGrantee'
    BY DEF GranteeIsOwner, OwnerIsGrantee
<1> QED BY <1>1, <1>2, <1>3, <1>4, <1>5

\* The thread takes the free lock.
LEMMA AcquireInvariant ==
    ASSUME IInv, NEW t \in Threads, Acquire(t)
    PROVE  IInv'
<1> USE DEF Acquire, Goto, IInv
<1>1. TypeOK'
    BY DEF TypeOK, Sites
<1>2. MutualExclusion'
    BY NoneIsNoValue DEF TypeOK, MutualExclusion
<1>3. CallStage'
    BY DEF TypeOK, CallStage
<1>4. ReadIsCurrent'
    BY DEF TypeOK, ReadIsCurrent
<1>5. GranteeIsOwner' /\ OwnerIsGrantee'
    BY DEF GranteeIsOwner, OwnerIsGrantee
<1> QED BY <1>1, <1>2, <1>3, <1>4, <1>5

\* A thread past its call has a request with a key.
LEMMA RequestOf ==
    ASSUME IInv, NEW t \in Threads, pc[t] # "idle"
    PROVE  request[t] \in Requests /\ request[t].key \in Keys
<1>1. request[t] \in Requests
    BY DEF IInv, TypeOK, CallStage
<1> QED BY <1>1 DEF Requests

\* The record is read under the lock.
LEMMA ReadInvariant ==
    ASSUME IInv, NEW t \in Threads, Read(t)
    PROVE  IInv'
<1> USE DEF Read, Goto, IInv
<1>1. request[t].key \in Keys
    BY RequestOf
<1>2. TypeOK'
    BY <1>1 DEF TypeOK, Sites
<1>3. MutualExclusion'
    BY DEF TypeOK, MutualExclusion
<1>4. CallStage'
    BY DEF TypeOK, CallStage
<1>5. ReadIsCurrent'
    BY DEF TypeOK, ReadIsCurrent
<1>6. GranteeIsOwner' /\ OwnerIsGrantee'
    BY DEF GranteeIsOwner, OwnerIsGrantee
<1> QED BY <1>2, <1>3, <1>4, <1>5, <1>6

\* The lock is left, with an answer or an error.
LEMMA ReleaseInvariant ==
    ASSUME IInv, NEW t \in Threads, Release(t)
    PROVE  IInv'
<1> USE DEF Release, Goto, IInv
<1>1. TypeOK'
    BY DEF TypeOK, Sites, Absent, Record, Statuses
<1>2. MutualExclusion'
    BY NoneIsNoValue DEF TypeOK, MutualExclusion
<1>3. CallStage'
    BY DEF TypeOK, CallStage
<1>4. ReadIsCurrent'
    BY DEF TypeOK, ReadIsCurrent
<1>5. GranteeIsOwner' /\ OwnerIsGrantee'
    BY DEF GranteeIsOwner, OwnerIsGrantee
<1> QED BY <1>1, <1>2, <1>3, <1>4, <1>5

(***************************************************************************)
(* The critical section.  The record decided on is the record in the store *)
(* and no other thread is between its read and its decision.               *)
(***************************************************************************)
LEMMA DecideInvariant ==
    ASSUME IInv, NEW t \in Threads, Decide(t)
    PROVE  IInv'
<1> DEFINE r == request[t]
<1>1. pc[t] = "decide" /\ r \in Requests /\ r.key \in Keys
    BY RequestOf DEF Decide, Goto
<1>2. PICK token \in DrawnTokens(t) :
          /\ records' = [records EXCEPT ![r.key] = Perform(existing[t], r, token).record]
          /\ answer' = [answer EXCEPT ![t] = Perform(existing[t], r, token).answer]
          /\ granted' = granted \cup Grants(r, Perform(existing[t], r, token))
    BY DEF Decide
<1> DEFINE effect == Perform(existing[t], r, token)
<1>3. /\ existing[t] = records[r.key]
      /\ existing[t] \in Record
      /\ token \in Tokens \cup {None}
    BY <1>1, DrawnType DEF IInv, TypeOK, ReadIsCurrent
<1>4. effect.record \in Record /\ effect.answer \in Answers
    BY <1>1, <1>3, EffectType
<1>5. \/ effect.record = existing[t] /\ effect.answer.outcome # "acquired"
      \/ /\ existing[t].status = "absent" /\ r.op = "claim"
         /\ effect.record = InProgress(token)
         /\ effect.answer.outcome = "acquired"
      \/ /\ existing[t].status = "in_progress"
         /\ effect.record = Completed(existing[t], r.result)
         /\ effect.answer.outcome # "acquired"
    BY <1>1, <1>3, EffectShape
<1> HIDE DEF effect
<1>6. /\ records' = [records EXCEPT ![r.key] = effect.record]
      /\ answer' = [answer EXCEPT ![t] = effect.answer]
      /\ granted' = granted \cup Grants(r, effect)
    BY <1>2 DEF effect
<1>7. effect.answer.outcome = "acquired" => token \in Tokens /\ effect.record.owner = token
    BY <1>5 DEF DrawnTokens, FreshTokens, InProgress
<1>8. /\ pc' = [pc EXCEPT ![t] = "release"]
      /\ UNCHANGED <<lock, request, existing>>
    BY DEF Decide, Goto
<1> HIDE DEF r
<1>9. TypeOK'
    BY <1>1, <1>4, <1>6, <1>7, <1>8 DEF IInv, TypeOK, Sites, Grants
<1>10. MutualExclusion'
    BY <1>1, <1>8 DEF IInv, TypeOK, MutualExclusion
<1>11. CallStage'
    BY <1>1, <1>4, <1>6, <1>8, NoneIsNoValue DEF IInv, TypeOK, CallStage
<1>12. ReadIsCurrent'
    BY <1>1, <1>8 DEF IInv, TypeOK, ReadIsCurrent, MutualExclusion
<1>13. GranteeIsOwner' /\ OwnerIsGrantee'
    BY <1>1, <1>3, <1>5, <1>6, <1>7
       DEF IInv, TypeOK, GranteeIsOwner, OwnerIsGrantee, Grants, InProgress, Completed,
           Record, Statuses
<1> QED BY <1>9, <1>10, <1>11, <1>12, <1>13 DEF IInv

\* Every step keeps IInv.
LEMMA NextInvariant == IInv /\ [Next]_vars => IInv'
<1> SUFFICES ASSUME IInv, [Next]_vars PROVE IInv'
    OBVIOUS
<1>1. ASSUME NEW t \in Threads, NEW r \in Requests, Call(t, r) PROVE IInv'
    BY <1>1, CallInvariant
<1>2. ASSUME NEW t \in Threads, Proceed(t) PROVE IInv'
    BY <1>2, AcquireInvariant, ReadInvariant, DecideInvariant, ReleaseInvariant DEF Proceed
<1>3. CASE UNCHANGED vars
    BY <1>3 DEF vars, IInv, TypeOK, MutualExclusion, CallStage, ReadIsCurrent,
                GranteeIsOwner, OwnerIsGrantee
<1> QED BY <1>1, <1>2, <1>3 DEF Next

\* IInv holds of the backend in every reachable state.
THEOREM Invariance == Spec => []IInv
BY InitInvariant, NextInvariant, PTL DEF Spec

(***************************************************************************)
(* TypeOK holds of InMemoryIdempotencyBackend in every reachable state.    *)
(***************************************************************************)
THEOREM TypeCorrect == Spec => []TypeOK
<1>1. IInv => TypeOK
    BY DEF IInv
<1> QED BY <1>1, Invariance, PTL

(***************************************************************************)
(* claim() (backend.py:60-74) never grants one key to two owners.          *)
(***************************************************************************)
THEOREM SingleOwnerHolds == Spec => []SingleOwner
<1>1. IInv => SingleOwner
    BY DEF IInv, TypeOK, GranteeIsOwner, SingleOwner
<1> QED BY <1>1, Invariance, PTL

(***************************************************************************)
(* The owner in the store is always a token that claim() handed out.       *)
(***************************************************************************)
THEOREM OwnerIsGranteeHolds == Spec => []OwnerIsGrantee
<1>1. IInv => OwnerIsGrantee
    BY DEF IInv
<1> QED BY <1>1, Invariance, PTL

-----------------------------------------------------------------------------
(***************************************************************************)
(* What one step of any thread does to the store: nothing, or one critical *)
(* section whose effect is computed from the record now in the store.      *)
(***************************************************************************)
LEMMA DecideIsAtomic ==
    ASSUME IInv, NEW t \in Threads, Decide(t)
    PROVE  \E token \in Tokens \cup {None} :
              LET r      == request[t]
                  effect == Perform(records[r.key], r, token)
              IN  /\ r \in Requests /\ r.key \in Keys /\ records[r.key] \in Record
                  /\ token \in Atomic!DrawnTokens(r, records[r.key])
                  /\ records' = [records EXCEPT ![r.key] = effect.record]
                  /\ answer'  = [answer EXCEPT ![t] = effect.answer]
                  /\ granted' = granted \cup Grants(r, effect)
<1>1. pc[t] = "decide" /\ request[t] \in Requests /\ request[t].key \in Keys
    BY RequestOf DEF Decide, Goto
<1>2. existing[t] = records[request[t].key] /\ existing[t] \in Record
    BY <1>1 DEF IInv, TypeOK, ReadIsCurrent
<1>3. PICK token \in DrawnTokens(t) :
          LET r      == request[t]
              effect == Perform(existing[t], r, token)
          IN  /\ records' = [records EXCEPT ![r.key] = effect.record]
              /\ answer' = [answer EXCEPT ![t] = effect.answer]
              /\ granted' = granted \cup Grants(r, effect)
    BY DEF Decide
<1>4. token \in Tokens \cup {None}
    BY DrawnType
<1>5. token \in Atomic!DrawnTokens(request[t], records[request[t].key])
    BY <1>2 DEF DrawnTokens, FreshTokens, Atomic!DrawnTokens, Atomic!FreshTokens
<1> QED BY <1>1, <1>2, <1>3, <1>4, <1>5

\* Only Decide changes the store.
LEMMA StoreStep ==
    ASSUME IInv, [Next]_vars
    PROVE  \/ UNCHANGED records
           \/ \E t \in Threads : Decide(t)
BY DEF Next, vars, Call, Proceed, Acquire, Read, Release

(***************************************************************************)
(* A completed record never changes and an in-progress record keeps its    *)
(* owner, also under repeated or foreign mark_completed() calls.           *)
(***************************************************************************)
THEOREM CompletionIsFinalHolds == Spec => CompletionIsFinal
<1> DEFINE Forward ==
        \A k \in Keys :
            /\ records[k].status = "completed" => records'[k] = records[k]
            /\ records[k].status = "in_progress" =>
                  /\ records'[k].status # "absent"
                  /\ records'[k].owner = records[k].owner
<1>1. IInv /\ [Next]_vars => Forward
    <2> SUFFICES ASSUME IInv, [Next]_vars PROVE Forward
        OBVIOUS
    <2>1. CASE UNCHANGED records
        BY <2>1
    <2>2. ASSUME NEW t \in Threads, Decide(t) PROVE Forward
        <3>1. PICK token \in Tokens \cup {None} :
                  LET r == request[t]
                  IN  /\ r \in Requests /\ r.key \in Keys /\ records[r.key] \in Record
                      /\ records' = [records EXCEPT
                                       ![r.key] = Perform(records[r.key], r, token).record]
            BY <2>2, DecideIsAtomic
        <3> DEFINE new == Perform(records[request[t].key], request[t], token).record
        <3>2. LET old == records[request[t].key]
              IN  \/ new = old
                  \/ old.status = "absent"
                  \/ old.status = "in_progress" /\ new = Completed(old, request[t].result)
            BY <3>1, EffectShape
        <3>3. records' = [records EXCEPT ![request[t].key] = new]
            BY <3>1
        <3> HIDE DEF new
        <3> QED BY <3>2, <3>3 DEF IInv, TypeOK, Completed
    <2> QED BY <2>1, <2>2, StoreStep
<1>2. IInv /\ [Next]_vars => [Forward]_vars
    BY <1>1
<1> QED BY <1>2, Invariance, PTL DEF Spec, CompletionIsFinal

-----------------------------------------------------------------------------
(***************************************************************************)
(* Refinement.  The store, the requests, the answers and the grants are    *)
(* those of the abstract specification; the call takes effect in Decide,   *)
(* and taking the lock and reading are stuttering steps.                   *)
(***************************************************************************)
LEMMA InitRefines == Init => Atomic!Init
BY DEF Init, Atomic!Init, Absent, Atomic!Absent

\* A call is a call of the atomic backend.
LEMMA CallRefines ==
    ASSUME IInv, NEW t \in Threads, NEW r \in Requests, Call(t, r)
    PROVE  Atomic!Call(t, r)
BY DEF IInv, CallStage, Call, Goto, Atomic!Call

\* Leaving the lock is a return of the atomic backend.
LEMMA ReleaseRefines ==
    ASSUME IInv, NEW t \in Threads, Release(t)
    PROVE  Atomic!Return(t)
BY DEF IInv, CallStage, Release, Goto, Atomic!Return

\* The decision is where the atomic operation happens.
LEMMA DecideRefines ==
    ASSUME IInv, NEW t \in Threads, Decide(t)
    PROVE  Atomic!TakeEffect(t)
<1>1. request[t] # None /\ answer[t] = None /\ UNCHANGED request
    BY DEF IInv, CallStage, Decide, Goto
<1>2. \A e, r, token : Atomic!Perform(e, r, token) = Perform(e, r, token)
    BY DEF Atomic!Perform, Perform, Atomic!claim, claim, Atomic!get_record, get_record,
           Atomic!mark_completed, mark_completed, Atomic!Effect, Effect,
           Atomic!InProgress, InProgress, Atomic!Completed, Completed
<1>3. \A r, effect : Atomic!Grants(r, effect) = Grants(r, effect)
    BY DEF Atomic!Grants, Grants
<1> QED BY <1>1, <1>2, <1>3, DecideIsAtomic DEF Atomic!TakeEffect

\* Every step is one of the atomic backend, or stutters.
LEMMA StepRefines == IInv /\ [Next]_vars => [Atomic!Next]_(Atomic!vars)
<1> SUFFICES ASSUME IInv, [Next]_vars PROVE [Atomic!Next]_(Atomic!vars)
    OBVIOUS
<1>1. Atomic!Requests = Requests
    BY DEF Atomic!Requests, Requests
<1>2. ASSUME NEW t \in Threads, NEW r \in Requests, Call(t, r) PROVE Atomic!Next
    BY <1>1, <1>2, CallRefines DEF Atomic!Next
<1>3. ASSUME NEW t \in Threads, Proceed(t) PROVE [Atomic!Next]_(Atomic!vars)
    <2>1. CASE Acquire(t) \/ Read(t)
        BY <2>1 DEF Acquire, Read, Atomic!vars
    <2>2. CASE Decide(t)
        BY <2>2, DecideRefines DEF Atomic!Next
    <2>3. CASE Release(t)
        BY <2>3, ReleaseRefines DEF Atomic!Next
    <2> QED BY <1>3, <2>1, <2>2, <2>3 DEF Proceed
<1>4. CASE UNCHANGED vars
    BY <1>4 DEF vars, Atomic!vars
<1> QED BY <1>2, <1>3, <1>4 DEF Next

(***************************************************************************)
(* The locked methods of InMemoryIdempotencyBackend are linearizable, for  *)
(* any number of threads, keys and tokens.                                 *)
(***************************************************************************)
THEOREM Refinement == Spec => Linearizable
<1>1. Spec => Atomic!Init /\ [][Atomic!Next]_(Atomic!vars)
    BY InitRefines, StepRefines, Invariance, PTL DEF Spec
<1> QED BY <1>1 DEF Linearizable, Atomic!Spec
=============================================================================
