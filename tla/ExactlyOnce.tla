---------------------------- MODULE ExactlyOnce -----------------------------
(***************************************************************************)
(* What the exactly-once guard promises its callers, without saying how:   *)
(* the abstract specification that run_once of                             *)
(* app/services/idempotency.py implements (module Idempotency).            *)
(*                                                                         *)
(* The world holds purchases, numbered as they are made.  The guard may    *)
(* buy while nothing is settled and every earlier purchase went unheard,   *)
(* it settles on one purchase for good, and it tells callers of that one   *)
(* only.  All of it is promised for as long as the key has one owner at a  *)
(* time; nothing is promised after that.                                   *)
(***************************************************************************)
EXTENDS Naturals

CONSTANT Callers

VARIABLES
    bought,     \* purchases made
    unheard,    \* those whose answer never came back
    result,     \* the purchase settled on, 0 before
    told,       \* caller -> the purchase it was told of, 0 before
    exclusive   \* no two callers have owned the key at once

vars == <<bought, unheard, result, told, exclusive>>

Init ==
    /\ bought = 0 /\ unheard = 0
    /\ result = 0
    /\ told = [c \in Callers |-> 0]
    /\ exclusive = TRUE

\* A key is bought; the answer may get lost.
Buy ==
    /\ result = 0 /\ bought = unheard
    /\ bought' = bought + 1
    /\ unheard' \in {unheard, unheard + 1}
    /\ UNCHANGED <<result, told>>

\* The guard settles on a purchase and tells the caller that found it.
Settle(c) ==
    /\ result = 0
    /\ result' \in 1..bought
    /\ told' = [told EXCEPT ![c] = result']
    /\ UNCHANGED <<bought, unheard>>

\* A later caller is told of the same purchase.
Tell(c) ==
    /\ result # 0
    /\ told' = [told EXCEPT ![c] = result]
    /\ UNCHANGED <<bought, unheard, result>>

Next ==
    \/ exclusive' /\ exclusive /\ (Buy \/ \E c \in Callers : Settle(c) \/ Tell(c))
    \/ ~exclusive'

Spec == Init /\ [][Next]_vars
=============================================================================
