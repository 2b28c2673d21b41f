----------------------------- MODULE CodePromise -----------------------------
(***************************************************************************)
(* What the shop promises the holder of a redemption code, and the owner   *)
(* of the payment cards, whatever the handlers, pollers and restarts do:   *)
(*                                                                         *)
(*  - a code is on offer until it is withdrawn or committed to one card;   *)
(*  - a commitment is never taken back: it ends delivered or void;         *)
(*  - a card carries one commitment at a time;                             *)
(*  - every delivery of a counted plan is counted once on its card.        *)
(***************************************************************************)
EXTENDS Naturals

CONSTANTS Codes,    \* the redemption codes
          Cards,    \* the payment cards
          Counted,  \* the codes whose delivery counts as a use of the card
          NoCard    \* "not committed to any card"

VARIABLES promise,  \* what has become of each code
          on,       \* the card a code was committed to
          uses      \* successful uses per card

vars == <<promise, on, uses>>

States == {"offered", "withdrawn", "committed", "delivered", "void"}

Init == /\ promise \in [Codes -> {"offered"}]
        /\ on = [c \in Codes |-> NoCard]
        /\ uses = [k \in Cards |-> 0]

Withdraw(c) == /\ promise[c] = "offered"
               /\ promise' = [promise EXCEPT ![c] = "withdrawn"]
               /\ UNCHANGED <<on, uses>>

Commit(c, k) == /\ promise[c] = "offered"
                /\ \A d \in Codes : ~ (promise[d] = "committed" /\ on[d] = k)
                /\ promise' = [promise EXCEPT ![c] = "committed"]
                /\ on' = [on EXCEPT ![c] = k]
                /\ UNCHANGED uses

Deliver(c) == /\ promise[c] = "committed"
              /\ promise' = [promise EXCEPT ![c] = "delivered"]
              /\ uses' = IF c \in Counted
                           THEN [uses EXCEPT ![on[c]] = @ + 1]
                           ELSE uses
              /\ UNCHANGED on

Void(c) == /\ promise[c] = "committed"
           /\ promise' = [promise EXCEPT ![c] = "void"]
           /\ UNCHANGED <<on, uses>>

Next == \E c \in Codes : \/ Withdraw(c)
                         \/ \E k \in Cards : Commit(c, k)
                         \/ Deliver(c)
                         \/ Void(c)

Spec == Init /\ [][Next]_vars
=============================================================================
