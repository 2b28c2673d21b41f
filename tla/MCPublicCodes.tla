---------------------------- MODULE MCPublicCodes ----------------------------
(***************************************************************************)
(* Small instances of PublicCodes for TLC.                                 *)
(***************************************************************************)
EXTENDS PublicCodes, TLC

CONSTANTS a1, a2, a3, t1, t2, f1, f2, f3, r1, r2, r3, l1, ann, bob

\* Two previews are given one token, the third has its own.
ReusedToken == [a \in Attempts |-> IF a = a3 THEN t2 ELSE t1]
TwoAccounts == [f \in Checks |-> IF f = f1 THEN ann ELSE bob]

\* The third preflight, and with it a third submission, comes after the others
\* and while nobody queries.
ThirdIsLast == check[f3] # NewCheck => /\ \A f \in {f1, f2} : check[f] # NewCheck
                                       /\ \A l \in Lookups : query[l] = NoQuery

Interchangeable == Permutations({a1, a2}) \cup Permutations(Requests) 
=============================================================================
