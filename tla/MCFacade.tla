------------------------------ MODULE MCFacade ------------------------------
(***************************************************************************)
(* A protected tool that requires a key and one that does not, with a      *)
(* payment and an amount as parameters.  idempotency_fields is left out    *)
(* (and then the schema may have no usable "required"), a list, a list     *)
(* that names no parameter, or an iterator.                                *)
(***************************************************************************)
EXTENDS Facade

CONSTANT Refund

MCNames == {Refund}
MCFields == {"payment", "amount", "trace"}
MCArguments == {[payment |-> 1, amount |-> 1], [payment |-> 1, amount |-> 2]}

Tool(key_required, required) ==
    [name |-> Refund, version |-> 1, risk |-> LOW, accepts |-> MCArguments,
     idempotency_key_required |-> key_required, required |-> required]

Keyed   == Tool(TRUE, <<"payment", "amount">>)
Unkeyed == Tool(FALSE, <<"payment", "amount">>)
NoList  == Tool(TRUE, None)

MCContracts == {Keyed, Unkeyed, NoList}

Choice(fields, iterator) == [fields |-> fields, iterator |-> iterator]

MCWrappers ==
    {[contract |-> Unkeyed, choice |-> None], [contract |-> NoList, choice |-> None],
     [contract |-> Keyed, choice |-> None],
     [contract |-> Keyed, choice |-> Choice(<<"payment">>, FALSE)],
     [contract |-> Keyed, choice |-> Choice(<<"trace">>, FALSE)],
     [contract |-> Keyed, choice |-> Choice(<<"payment", "amount">>, TRUE)]}

MCKeys ==
    {[tool |-> Refund, fields |-> fields,
      values |-> [i \in DOMAIN fields |-> arguments[fields[i]]]] :
        fields \in {<<"payment", "amount">>, <<"amount", "payment">>, <<"payment">>, <<"amount">>},
        arguments \in MCArguments}

MCIntents ==
    [id : Calls, tool : MCNames, version : {1}, arguments : MCArguments,
     key : MCKeys \cup {None}]

QuietPolicies == {<<>>}
=============================================================================
