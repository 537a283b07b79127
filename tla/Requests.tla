------------------------------- MODULE Requests -------------------------------
(***************************************************************************)
(* What the gateway promises about one kind of request, deposits or        *)
(* redemptions, without its counters, timestamps, prices, fees, pauses and *)
(* lists: a request under an id is opened for a user and an amount, given  *)
(* a priceId once, and settled once, at that priceId and for that amount,  *)
(* alone or in a batch; then its id is free.  Only the manager's word, and *)
(* a relayer's who takes an id that is not its own, stand above this: they *)
(* may amend what is under an id, and that is counted.                     *)
(***************************************************************************)
EXTENDS Naturals

CONSTANTS Ids, Users, NoUser

VARIABLES
  request,      \* what is open under an id
  settled,      \* the amounts settled under an id so far
  amendments    \* amendments of an id

vars == <<request, settled, amendments>>

Request(user, amount, priceId) == [user |-> user, amount |-> amount, priceId |-> priceId]
Closed == Request(NoUser, 0, 0)

IsOpen(id) == request[id].user # NoUser

Init ==
  /\ request = [id \in Ids |-> Closed]
  /\ settled = [id \in Ids |-> 0]
  /\ amendments = [id \in Ids |-> 0]

\* An open request is never replaced by another; what was put under an id by
\* an amendment may be.
Open(id) ==
  /\ ~IsOpen(id) \/ amendments[id] # 0
  /\ \E user \in Users :
       request' = [request EXCEPT ![id] = Request(user, request'[id].amount, 0)]
  /\ UNCHANGED <<settled, amendments>>

Price(ids) ==
  /\ \A id \in ids : IsOpen(id) /\ request[id].priceId = 0
  /\ request' =
       [id \in Ids |->
          IF id \in ids
            THEN Request(request[id].user, request[id].amount, request'[id].priceId)
            ELSE request[id]]
  /\ UNCHANGED <<settled, amendments>>

Settle(ids) ==
  /\ \A id \in ids : IsOpen(id) /\ request[id].priceId # 0
  /\ request' = [id \in Ids |-> IF id \in ids THEN Closed ELSE request[id]]
  /\ settled' =
       [id \in Ids |-> IF id \in ids THEN settled[id] + request[id].amount ELSE settled[id]]
  /\ UNCHANGED amendments

Amend(id) ==
  /\ request' = [request EXCEPT ![id] = request'[id]]
  /\ amendments' = [amendments EXCEPT ![id] = amendments[id] + 1]
  /\ UNCHANGED settled

Next ==
  \/ \E id \in Ids : Open(id) \/ Amend(id)
  \/ \E ids \in SUBSET Ids : Price(ids) \/ Settle(ids)

Spec == Init /\ [][Next]_vars
=============================================================================
