---------------------------- MODULE NoticePromise ----------------------------
(***************************************************************************)
(* What the shop promises the marketplace about its orders, whatever is    *)
(* lost on the way:                                                        *)
(*                                                                         *)
(*  - a notice is owed for a code and the order it was sold by, one for    *)
(*    each code and one for each order, and the debt stands;               *)
(*  - the marketplace is told nothing that is not owed, perhaps repeatedly;*)
(*  - a debt is closed only when the marketplace has been told.            *)
(***************************************************************************)
CONSTANTS Codes,    \* the codes sold
          Orders    \* the marketplace's orders

VARIABLES owed,     \* the notices due
          told,     \* the notices the marketplace has accepted
          closed    \* the notices the shop regards as delivered

vars == <<owed, told, closed>>

Init == owed = {} /\ told = {} /\ closed = {}

Owe(c, o) == /\ \A n \in owed : n[1] # c /\ n[2] # o
             /\ owed' = owed \cup {<<c, o>>}
             /\ UNCHANGED <<told, closed>>

Tell(c, o) == /\ <<c, o>> \in owed
              /\ told' = told \cup {<<c, o>>}
              /\ UNCHANGED <<owed, closed>>

Close(c, o) == /\ <<c, o>> \in told
               /\ closed' = closed \cup {<<c, o>>}
               /\ UNCHANGED <<owed, told>>

Next == \E c \in Codes, o \in Orders : Owe(c, o) \/ Tell(c, o) \/ Close(c, o)

Spec == Init /\ [][Next]_vars
=============================================================================
