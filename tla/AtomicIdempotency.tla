------------------------- MODULE AtomicIdempotency --------------------------
(***************************************************************************)
(* The promise of the IdempotencyBackend protocol (backend.py:31-48): each *)
(* of claim, get_record and mark_completed takes effect at one instant     *)
(* between its call and its return.  IdempotencyBackend implements this.   *)
(***************************************************************************)
EXTENDS IdempotencyRecords

CONSTANT Threads

VARIABLES
    records,    \* [Keys -> Record]: the store
    request,    \* [Threads -> request under way, or None]
    answer,     \* [Threads -> answer about to be returned, or None]
    granted     \* history: the pairs <<key, token>> that claim() acquired

vars == <<records, request, answer, granted>>

Init ==
    /\ records = [k \in Keys |-> Absent]
    /\ request = [t \in Threads |-> None]
    /\ answer  = [t \in Threads |-> None]
    /\ granted = {}

\* uuid4() never repeats a token, and draws one only for an absent key.
FreshTokens == {token \in Tokens : \A k \in Keys : <<k, token>> \notin granted}

DrawnTokens(r, existing) ==
    IF r.op = "claim" /\ existing.status = "absent" THEN FreshTokens ELSE {None}

Grants(r, effect) ==
    IF effect.answer.outcome = "acquired"
    THEN {<<r.key, effect.record.owner>>} ELSE {}

Call(t, r) ==
    /\ request[t] = None
    /\ request' = [request EXCEPT ![t] = r]
    /\ UNCHANGED <<records, answer, granted>>

TakeEffect(t) ==
    /\ request[t] # None
    /\ answer[t] = None
    /\ \E token \in DrawnTokens(request[t], records[request[t].key]) :
          LET r      == request[t]
              effect == Perform(records[r.key], r, token)
          IN  /\ records' = [records EXCEPT ![r.key] = effect.record]
              /\ answer'  = [answer EXCEPT ![t] = effect.answer]
              /\ granted' = granted \cup Grants(r, effect)
    /\ UNCHANGED request

Return(t) ==
    /\ answer[t] # None
    /\ request' = [request EXCEPT ![t] = None]
    /\ answer'  = [answer EXCEPT ![t] = None]
    /\ UNCHANGED <<records, granted>>

Next ==
    \E t \in Threads :
        \/ \E r \in Requests : Call(t, r)
        \/ TakeEffect(t)
        \/ Return(t)

Spec == Init /\ [][Next]_vars
=============================================================================
