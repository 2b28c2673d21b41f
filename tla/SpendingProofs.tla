--------------------------- MODULE SpendingProofs ----------------------------
(***************************************************************************)
(* Two action properties of MoneyShop, for any constants: what is recorded *)
(* stays within the budget of the moment, and a recharge that is recorded  *)
(* spares the cards of the dedicated orders; and that the cards opened for *)
(* such orders stay apart from all others.                                 *)
(***************************************************************************)
EXTENDS MoneyProofs, WellFoundedInduction

------------------------------------------------------------------------------
\* Sums.  ReservedSince folds over a set in an order that CHOOSE picks; that it is the
\* sum in any order, and grows with the set, takes an induction on the operations.

LEMMA Least == ASSUME NEW T \in SUBSET Nat, T # {} PROVE \E x \in T : \A y \in T : x <= y
<1>1. PICK x \in T : \A y \in T : ~ (<<y, x>> \in OpToRel(<, Nat))
  BY WFMin, NatLessThanWellFounded
<1>2. \A y \in T : ~(y < x)
  BY <1>1 DEF OpToRel
<1> QED
  BY <1>2

\* F adds up f over the sets of the first n operations, in any order.
Adds(n, F, f) == /\ F \in [SUBSET (1 .. n) -> Nat]
                 /\ F[{}] = 0
                 /\ \A S \in SUBSET (1 .. n) : \A x \in S : F[S] = f[x] + F[S \ {x}]
Below(n, F, f, G, g) ==
  \A S, T \in SUBSET (1 .. n) : S \subseteq T /\ (\A x \in S : f[x] <= g[x]) => F[S] <= G[T]
Sums(n, F, f, G, g) == Adds(n, F, f) /\ Adds(n, G, g) /\ Below(n, F, f, G, g)

\* The sums over one more operation.
Longer(n, F, f) == [S \in SUBSET (1 .. n + 1) |->
                      F[S \ {n + 1}] + (IF n + 1 \in S THEN f[n + 1] ELSE 0)]

LEMMA Lengthen ==
  ASSUME NEW n \in Nat, NEW f \in [1 .. n + 1 -> Nat], NEW F, Adds(n, F, f)
  PROVE  Adds(n + 1, Longer(n, F, f), f)
<1> DEFINE G == Longer(n, F, f)
<1>0. n + 1 \in 1 .. n + 1 /\ f[n + 1] \in Nat
  OBVIOUS
<1>1. \A S \in SUBSET (1 .. n + 1) : S \ {n + 1} \in SUBSET (1 .. n)
  <2>1. \A x \in 1 .. n + 1 : x # n + 1 => x \in 1 .. n
    OBVIOUS
  <2> QED
    BY <2>1
<1>2. \A S \in SUBSET (1 .. n + 1) :
        G[S] = F[S \ {n + 1}] + (IF n + 1 \in S THEN f[n + 1] ELSE 0)
  BY DEF Longer
<1>3. \A S \in SUBSET (1 .. n + 1) : F[S \ {n + 1}] \in Nat
  BY <1>1 DEF Adds
<1>4. G \in [SUBSET (1 .. n + 1) -> Nat]
  <2>1. \A S \in SUBSET (1 .. n + 1) : G[S] \in Nat
    <3> TAKE S \in SUBSET (1 .. n + 1)
    <3>1. (IF n + 1 \in S THEN f[n + 1] ELSE 0) \in Nat
      BY <1>0
    <3>2. F[S \ {n + 1}] \in Nat
      BY <1>3
    <3>3. \A i, j \in Nat : i + j \in Nat
      OBVIOUS
    <3> QED
      BY <1>2, <3>1, <3>2, <3>3
  <2> QED
    BY <2>1 DEF Longer
<1>5. G[{}] = 0
  <2>1. {} \ {n + 1} = {} /\ {} \in SUBSET (1 .. n + 1)
    OBVIOUS
  <2> QED
    BY <1>2, <2>1 DEF Adds
<1>6. ASSUME NEW S \in SUBSET (1 .. n + 1), NEW x \in S PROVE G[S] = f[x] + G[S \ {x}]
  <2> DEFINE R == S \ {x}
  <2>0. R \in SUBSET (1 .. n + 1) /\ f[x] \in Nat
    BY <1>6
  <2>1. CASE x = n + 1
    <3>1. R \ {n + 1} = S \ {n + 1} /\ n + 1 \notin R /\ n + 1 \in S
      BY <2>1
    <3>2. G[S] = F[S \ {n + 1}] + f[n + 1] /\ G[R] = F[S \ {n + 1}] + 0
      BY <1>2, <2>0, <3>1
    <3>3. F[S \ {n + 1}] \in Nat
      BY <1>3
    <3> HIDE DEF G
    <3> QED
      BY <1>0, <2>1, <3>2, <3>3
  <2>2. CASE x # n + 1
    <3>1. R \ {n + 1} = (S \ {n + 1}) \ {x} /\ (n + 1 \in R) = (n + 1 \in S) /\ x \in S \ {n + 1}
      BY <2>2
    <3>2. F[S \ {n + 1}] = f[x] + F[R \ {n + 1}]
      <4>1. PICK Q \in SUBSET (1 .. n) : Q = S \ {n + 1}
        BY <1>1
      <4>2. F[Q] = f[x] + F[Q \ {x}]
        BY <3>1, <4>1 DEF Adds
      <4> QED
        BY <3>1, <4>1, <4>2
    <3>3. /\ G[S] = F[S \ {n + 1}] + (IF n + 1 \in S THEN f[n + 1] ELSE 0)
          /\ G[R] = F[R \ {n + 1}] + (IF n + 1 \in S THEN f[n + 1] ELSE 0)
      BY <1>2, <2>0, <3>1
    <3>4. F[R \ {n + 1}] \in Nat
      BY <1>3, <2>0
    <3>5. (IF n + 1 \in S THEN f[n + 1] ELSE 0) \in Nat
      BY <1>0
    <3> HIDE DEF G
    <3> QED
      BY <2>0, <3>2, <3>3, <3>4, <3>5
  <2> QED
    BY <2>1, <2>2
<1> QED
  BY <1>4, <1>5, <1>6 DEF Adds

LEMMA LengthenBelow ==
  ASSUME NEW n \in Nat, NEW f \in [1 .. n + 1 -> Nat], NEW g \in [1 .. n + 1 -> Nat],
         NEW F, NEW G, Sums(n, F, f, G, g)
  PROVE  Below(n + 1, Longer(n, F, f), f, Longer(n, G, g), g)
<1> SUFFICES ASSUME NEW S \in SUBSET (1 .. n + 1), NEW T \in SUBSET (1 .. n + 1), S \subseteq T,
                    \A x \in S : f[x] <= g[x]
             PROVE  Longer(n, F, f)[S] <= Longer(n, G, g)[T]
  BY DEF Below
<1>1. S \ {n + 1} \in SUBSET (1 .. n) /\ T \ {n + 1} \in SUBSET (1 .. n)
  <2>1. \A x \in 1 .. n + 1 : x # n + 1 => x \in 1 .. n
    OBVIOUS
  <2> QED
    BY <2>1
<1>2. F[S \ {n + 1}] <= G[T \ {n + 1}] /\ F[S \ {n + 1}] \in Nat /\ G[T \ {n + 1}] \in Nat
  <2>1. S \ {n + 1} \subseteq T \ {n + 1} /\ \A x \in S \ {n + 1} : f[x] <= g[x]
    OBVIOUS
  <2> QED
    BY <1>1, <2>1 DEF Sums, Below, Adds
<1>3. n + 1 \in 1 .. n + 1 /\ f[n + 1] \in Nat /\ g[n + 1] \in Nat
  OBVIOUS
<1>4. (IF n + 1 \in S THEN f[n + 1] ELSE 0) <= (IF n + 1 \in T THEN g[n + 1] ELSE 0)
  BY <1>3
<1>5. /\ Longer(n, F, f)[S] = F[S \ {n + 1}] + (IF n + 1 \in S THEN f[n + 1] ELSE 0)
      /\ Longer(n, G, g)[T] = G[T \ {n + 1}] + (IF n + 1 \in T THEN g[n + 1] ELSE 0)
  BY DEF Longer
<1>6. (IF n + 1 \in S THEN f[n + 1] ELSE 0) \in Nat /\ (IF n + 1 \in T THEN g[n + 1] ELSE 0) \in Nat
  BY <1>3
<1> QED
  BY <1>2, <1>4, <1>5, <1>6

\* Two weights of the operations have sums, and those of the greater are greater.
LEMMA SumsExist ==
  ASSUME NEW N \in Nat, NEW f \in [1 .. N -> Nat], NEW g \in [1 .. N -> Nat]
  PROVE  \E F, G : Sums(N, F, f, G, g)
<1> DEFINE Bad == {n \in 0 .. N : \A F, G : ~Sums(n, F, f, G, g)}
<1> SUFFICES ASSUME Bad # {} PROVE FALSE
  <2>1. N \in 0 .. N
    OBVIOUS
  <2> QED
    BY <2>1
<1>1. PICK m \in Bad : \A k \in Bad : m <= k
  <2>1. Bad \in SUBSET Nat
    OBVIOUS
  <2> HIDE DEF Bad
  <2> QED
    BY <2>1, Least
<1> HIDE DEF Bad
<1>2. m \in 0 .. N /\ \A F, G : ~Sums(m, F, f, G, g)
  BY DEF Bad
<1>3. CASE m = 0
  <2> DEFINE Z == [S \in {{}} |-> 0]
  <2>1. SUBSET (1 .. 0) = {{}}
    OBVIOUS
  <2>2. Adds(0, Z, f) /\ Adds(0, Z, g)
    BY <2>1 DEF Adds
  <2>3. Below(0, Z, f, Z, g)
    BY <2>1 DEF Below
  <2> QED
    BY <1>2, <1>3, <2>2, <2>3 DEF Sums
<1>4. CASE m # 0
  <2>1. m - 1 \in 0 .. N /\ m - 1 < m /\ m - 1 \in Nat /\ (m - 1) + 1 = m
    BY <1>2, <1>4
  <2>2. m - 1 \notin Bad
    BY <1>1, <1>2, <2>1
  <2>3. PICK F, G : Sums(m - 1, F, f, G, g)
    BY <2>1, <2>2 DEF Bad
  <2> DEFINE k == m - 1
             ff == [i \in 1 .. m |-> f[i]]
             gg == [i \in 1 .. m |-> g[i]]
  <2>4. 1 .. m \subseteq 1 .. N /\ 1 .. k \subseteq 1 .. m
    BY <1>2, <2>1
  <2>5. ff \in [1 .. k + 1 -> Nat] /\ gg \in [1 .. k + 1 -> Nat]
    BY <2>1, <2>4
  <2>6. \A i \in 1 .. m : ff[i] = f[i] /\ gg[i] = g[i]
    OBVIOUS
  <2> HIDE DEF ff, gg
  <2>7. Sums(k, F, ff, G, gg)
    <3>1. \A S \in SUBSET (1 .. k) : \A x \in S : ff[x] = f[x] /\ gg[x] = g[x]
      BY <2>4, <2>6
    <3>2. Adds(k, F, ff) /\ Adds(k, G, gg)
      BY <2>3, <3>1 DEF Sums, Adds
    <3>3. Below(k, F, ff, G, gg)
      BY <2>3, <3>1 DEF Sums, Below
    <3> QED
      BY <3>2, <3>3 DEF Sums
  <2>8. /\ Adds(k + 1, Longer(k, F, ff), ff) /\ Adds(k + 1, Longer(k, G, gg), gg)
        /\ Below(k + 1, Longer(k, F, ff), ff, Longer(k, G, gg), gg)
    <3> HIDE DEF k
    <3>1. k \in Nat
      BY <2>1 DEF k
    <3>2. Adds(k, F, ff) /\ Adds(k, G, gg)
      BY <2>7 DEF Sums
    <3> QED
      BY <2>5, <2>7, <3>1, <3>2, Lengthen, LengthenBelow
  <2>9. Sums(m, Longer(k, F, ff), f, Longer(k, G, gg), g)
    <3>1. \A S \in SUBSET (1 .. m) : \A x \in S : ff[x] = f[x] /\ gg[x] = g[x]
      BY <2>6
    <3>2. k + 1 = m
      BY <2>1
    <3>3. \A H : /\ Adds(m, H, ff) => Adds(m, H, f)
                 /\ Adds(m, H, gg) => Adds(m, H, g)
      BY <3>1 DEF Adds
    <3>4. Below(m, Longer(k, F, ff), f, Longer(k, G, gg), g)
      BY <2>8, <3>1, <3>2 DEF Below
    <3> QED
      BY <2>8, <3>2, <3>3, <3>4 DEF Sums
  <2> QED
    BY <1>2, <2>9
<1> QED
  BY <1>3, <1>4

\* The sum that ReservedSince computes, of the operations of S as the table m has them.
Total(m, S) == MapThenSumSet(LAMBDA o : m[o].reserved, S)

LEMMA ReservedIsTotal ==
  /\ \A t : ReservedSince(t) = Total(money, Since(t))
  /\ \A t : ReservedSince(t)' = Total(money', Since(t)')
  BY DEF ReservedSince, Total, MapThenSumSet, MapThenFoldSet

\* The order of the fold does not matter.
LEMMA TotalIsSum ==
  ASSUME NEW m, NEW f, NEW F, \A o \in Ops : f[o] = m[o].reserved, Adds(MaxOps, F, f),
         NEW S \in SUBSET Ops
  PROVE  Total(m, S) = F[S]
<1> DEFINE Folded(R, iter) == IF R = {} THEN 0
                              ELSE m[CHOOSE x \in R : TRUE].reserved
                                     + iter[R \ {CHOOSE x \in R : TRUE}]
           Iter == CHOOSE iter : iter = [R \in SUBSET S |-> Folded(R, iter)]
           Restricted == [R \in SUBSET S |-> F[R]]
<1>1. Total(m, S) = Iter[S]
  BY DEF Total, MapThenSumSet, MapThenFoldSet
<1>2. ASSUME NEW R \in SUBSET S, R # {}
      PROVE  /\ (CHOOSE x \in R : TRUE) \in R
             /\ F[R] = m[CHOOSE x \in R : TRUE].reserved + F[R \ {CHOOSE x \in R : TRUE}]
  <2>1. (CHOOSE x \in R : TRUE) \in R
    BY <1>2
  <2>2. R \in SUBSET (1 .. MaxOps) /\ R \in SUBSET Ops
    BY DEF Ops
  <2> QED
    BY <2>1, <2>2 DEF Adds
<1>3. Restricted = [R \in SUBSET S |-> Folded(R, Restricted)]
  <2>1. \A R \in SUBSET S : F[R] = Folded(R, Restricted)
    <3> TAKE R \in SUBSET S
    <3>1. CASE R = {}
      BY <3>1 DEF Adds
    <3>2. CASE R # {}
      <4>1. R \ {CHOOSE x \in R : TRUE} \in SUBSET S
        OBVIOUS
      <4> QED
        BY <1>2, <3>2, <4>1
    <3> QED
      BY <3>1, <3>2
  <2> QED
    BY <2>1
<1>4. Iter = [R \in SUBSET S |-> Folded(R, Iter)]
  <2> HIDE DEF Folded, Restricted
  <2> QED
    BY <1>3
<1> HIDE DEF Iter
<1> DEFINE Bad == {R \in SUBSET S : Iter[R] # F[R]}
<1> SUFFICES ASSUME Bad # {} PROVE FALSE
  <2>1. S \in SUBSET S
    OBVIOUS
  <2> QED
    BY <1>1, <2>1
<1>5. \A R \in SUBSET S : IsFiniteSet(R) /\ Cardinality(R) \in Nat
  <2>1. IsFiniteSet(Ops)
    BY ConstantTypes, FS_Interval DEF Ops
  <2> QED
    BY <2>1, FS_Subset, FS_CardinalityType
<1>6. PICK R \in Bad : \A Q \in Bad : Cardinality(R) <= Cardinality(Q)
  <2> DEFINE Sizes == {Cardinality(Q) : Q \in Bad}
  <2>1. Sizes \in SUBSET Nat /\ Sizes # {}
    BY <1>5
  <2>2. PICK k \in Sizes : \A j \in Sizes : k <= j
    BY <2>1, Least
  <2> QED
    BY <2>2
<1>7. R \in SUBSET S /\ R # {}
  <2>1. Iter[{}] = 0 /\ F[{}] = 0
    BY <1>4 DEF Adds
  <2> QED
    BY <1>6, <2>1
<1> DEFINE Q == R \ {CHOOSE x \in R : TRUE}
<1>8. Q \in SUBSET S /\ Cardinality(Q) < Cardinality(R)
  <2>1. Cardinality(Q) = Cardinality(R) - 1
    BY <1>2, <1>5, <1>7, FS_RemoveElement
  <2> QED
    BY <1>5, <1>7, <2>1
<1>9. Iter[Q] = F[Q]
  BY <1>5, <1>6, <1>8
<1>10. Iter[R] = m[CHOOSE x \in R : TRUE].reserved + Iter[Q]
  BY <1>4, <1>7
<1> QED
  BY <1>2, <1>6, <1>7, <1>9, <1>10

\* One more operation adds at most what it reserves, whatever the table's order.
LEMMA TotalGrows ==
  ASSUME NEW m \in [Ops -> Money], NEW n \in [Ops -> Money], NEW o \in Ops,
         \A p \in Ops \ {o} : n[p].reserved = m[p].reserved,
         NEW S \in SUBSET Ops, NEW T \in SUBSET Ops, S \subseteq T \cup {o}
  PROVE  /\ Total(n, S) <= Total(m, T) + n[o].reserved
         /\ Total(n, S) \in Nat /\ Total(m, T) \in Nat /\ n[o].reserved \in Nat
<1> DEFINE f == [p \in Ops |-> n[p].reserved]
           g == [p \in Ops |-> m[p].reserved]
<1>1. f \in [1 .. MaxOps -> Nat] /\ g \in [1 .. MaxOps -> Nat]
  <2>1. \A p \in Ops : n[p].reserved \in Nat /\ m[p].reserved \in Nat
    BY DEF Money
  <2> QED
    BY <2>1 DEF Ops
<1>2. /\ \A p \in Ops : f[p] = n[p].reserved /\ g[p] = m[p].reserved
      /\ f[o] \in Nat /\ f[o] = n[o].reserved
  BY <1>1 DEF Ops
<1> HIDE DEF f, g
<1>3. PICK F, G : Sums(MaxOps, F, f, G, g)
  BY <1>1, ConstantTypes, SumsExist
<1>4. Adds(MaxOps, F, f) /\ Adds(MaxOps, G, g)
  BY <1>3 DEF Sums
<1>5. Total(n, S) = F[S] /\ Total(m, T) = G[T]
  BY <1>2, <1>4, TotalIsSum
<1> DEFINE R == S \ {o}
<1>6. R \in SUBSET Ops /\ R \subseteq T /\ \A p \in R : f[p] <= g[p]
  <2>1. \A p \in R : f[p] = g[p] /\ f[p] \in Nat
    BY <1>1, <1>2 DEF Ops
  <2> QED
    BY <2>1
<1>7. F[R] <= G[T]
  <2>1. R \in SUBSET (1 .. MaxOps) /\ T \in SUBSET (1 .. MaxOps)
    BY <1>6 DEF Ops
  <2> QED
    BY <1>3, <1>6, <2>1 DEF Sums, Below
<1>8. F[S] \in Nat /\ F[R] \in Nat /\ G[T] \in Nat
  BY <1>4, <1>6 DEF Adds, Ops
<1>9. F[S] <= F[R] + f[o]
  <2>1. CASE o \in S
    <3>1. F[S] = f[o] + F[R]
      BY <1>4, <2>1 DEF Adds, Ops
    <3> HIDE DEF R
    <3> QED
      BY <1>2, <1>8, <3>1
  <2>2. CASE o \notin S
    <3>1. R = S
      BY <2>2
    <3> HIDE DEF R
    <3> QED
      BY <1>2, <1>8, <3>1
  <2> QED
    BY <2>1, <2>2
<1> HIDE DEF R
<1> QED
  BY <1>2, <1>5, <1>7, <1>8, <1>9

\* What the condition of an INSERT says is so when it is done, even if it looked back
\* further than the last day of that moment.
LEMMA StaysWithin ==
  ASSUME TypeOK, TypeOK', NEW o \in Ops, \A p \in Ops \ {o} : money'[p] = money[p],
         clock' = clock, NEW t \in Int, t <= clock - Day,
         NEW budget \in Nat, ReservedSince(t) + money'[o].reserved <= budget
  PROVE  ReservedSince(clock - Day)' <= budget
<1>1. clock \in Nat /\ Day \in Nat
  BY ConstantTypes DEF TypeOK
<1>2. \A p \in Ops : money[p].at \in Nat
  BY DEF TypeOK, Money
<1> DEFINE S == Since(clock - Day)'
           T == Since(t)
<1>3. S \in SUBSET Ops /\ T \in SUBSET Ops
  BY DEF Since
<1>4. S \subseteq T \cup {o}
  <2> SUFFICES ASSUME NEW p \in S, p # o PROVE p \in T
    OBVIOUS
  <2>1. p \in Ops /\ money'[p].state # "none" /\ money'[p].at > clock' - Day
    BY DEF Since, Recorded
  <2>2. money[p].state # "none" /\ money[p].at > clock - Day
    BY <2>1
  <2>3. money[p].at > t
    BY <1>1, <1>2, <2>1, <2>2
  <2> QED
    BY <2>1, <2>2, <2>3 DEF Since, Recorded
<1>5. ReservedSince(clock - Day)' = Total(money', S) /\ ReservedSince(t) = Total(money, T)
  BY DEF ReservedSince, Total, MapThenSumSet, MapThenFoldSet
<1>6. money \in [Ops -> Money] /\ money' \in [Ops -> Money]
  BY DEF TypeOK
<1> HIDE DEF S, T
<1>7. /\ Total(money', S) <= Total(money, T) + money'[o].reserved
      /\ Total(money', S) \in Nat /\ Total(money, T) \in Nat /\ money'[o].reserved \in Nat
  BY <1>3, <1>4, <1>6, TotalGrows
<1> QED
  BY <1>5, <1>7

------------------------------------------------------------------------------
\* What a step changes on record.

\* Nothing is recorded, and no answer is entered.
FieldsKept == \A o \in Ops : money'[o].action = money[o].action /\ money'[o].result = money[o].result
ActionsKept == \A o \in Ops : money'[o].action = money[o].action
Recording(o) == \/ ReuseAfterTopup(o) \/ PrepareNewCard(o) \/ Insert(o)
                \/ \E d \in Orders : StartPro20(d, o) \/ ClaimReserve(d, o)

LEMMA SetStateKeeps ==
  ASSUME TypeOK, NEW o, NEW state
  PROVE  \A p \in Ops : /\ SetState(o, state)[p].action = money[p].action
                        /\ SetState(o, state)[p].result = money[p].result
<1>1. \A m \in Money : LET n == [m EXCEPT !.state = state]
                       IN  n.action = m.action /\ n.result = m.result
  BY DEF Money
<1> QED
  BY <1>1 DEF SetState, TypeOK

LEMMA FailWithKeeps == ASSUME TypeOK, NEW d, NEW state, FailWith(d, state) PROVE FieldsKept
<1>1. money' = money \/ money' = SetState(dedicated[d].op, state)
  BY DEF FailWith
<1> QED
  BY <1>1, SetStateKeeps DEF FieldsKept

LEMMA VerifyKeeps ==
  ASSUME TypeOK, NEW o \in Ops,
         ConfirmByBalance(o) \/ ConfirmByLedger(o) \/ ProveNoCharge(o) \/ LeaveUnresolved(o)
  PROVE  FieldsKept
<1>1. money' = money \/ \E state : money' = SetState(o, state)
  BY DEF ConfirmByBalance, ConfirmByLedger, ProveNoCharge, LeaveUnresolved, bookVars
<1> QED
  BY <1>1, SetStateKeeps DEF FieldsKept

LEMMA RestartKeeps == ASSUME TypeOK, Restart PROVE FieldsKept
<1>1. \A o \in Ops : money'[o] = money[o] \/ money'[o] = [money[o] EXCEPT !.state = "unknown"]
  BY DEF Restart, RestartedMoney
<1>2. \A m \in Money : LET n == [m EXCEPT !.state = "unknown"]
                       IN  n.action = m.action /\ n.result = m.result
  BY DEF Money
<1> QED
  BY <1>1, <1>2 DEF FieldsKept, TypeOK

LEMMA OutcomeKeeps ==
  ASSUME TypeOK, RecordOutcome
  PROVE  /\ ActionsKept
         /\ \A p \in Ops : money'[p].result \in {money[p].result, made[p]}
<1>1. \A m \in Money : \A s, r : LET n == [m EXCEPT !.state = s, !.result = r]
                                 IN  n.action = m.action /\ n.result = r
  BY DEF Money
<1> DEFINE o == treasurer.op
           s == IF treasurer.ok THEN "pending" ELSE "unknown"
           r == IF treasurer.ok THEN made[o] ELSE money[o].result
<1>2. \A p \in Ops : money'[p] = IF p = o THEN [money[p] EXCEPT !.state = s, !.result = r] ELSE money[p]
  BY DEF RecordOutcome, TypeOK
<1>3. \A p \in Ops : money[p] \in Money
  BY DEF TypeOK
<1>4. o \in Ops => r \in {money[o].result, made[o]}
  OBVIOUS
<1> HIDE DEF o, s, r
<1>5. ASSUME NEW p \in Ops
      PROVE  money'[p].action = money[p].action /\ money'[p].result \in {money[p].result, made[p]}
  <2>1. CASE p = o
    <3>1. money'[p] = [money[p] EXCEPT !.state = s, !.result = r]
      BY <1>2, <2>1
    <3>2. money'[p].action = money[p].action /\ money'[p].result = r
      BY <1>1, <1>3, <3>1
    <3> QED
      BY <1>4, <2>1, <3>2
  <2>2. CASE p # o
    BY <1>2, <2>2
  <2> QED
    BY <2>1, <2>2
<1> QED
  BY <1>5 DEF ActionsKept

LEMMA BindKeeps ==
  ASSUME TypeOK, NEW d \in Orders, BindCard(d)
  PROVE  /\ ActionsKept
         /\ \A p \in Ops : \/ money'[p].result = money[p].result
                           \/ p = dedicated[d].op /\ money'[p].result = worker[d].card
<1>1. \A m \in Money : \A s, r : LET n == [m EXCEPT !.result = r, !.state = s]
                                 IN  n.action = m.action /\ n.result = r
  BY DEF Money
<1>2. \A p \in Ops : money'[p] = IF p = dedicated[d].op
                                 THEN [money[p] EXCEPT !.result = worker[d].card, !.state = "pending"]
                                 ELSE money[p]
  BY DEF BindCard, TypeOK
<1>3. \A p \in Ops : money[p] \in Money
  BY DEF TypeOK
<1>4. ASSUME NEW p \in Ops
      PROVE  /\ money'[p].action = money[p].action
             /\ \/ money'[p].result = money[p].result
                \/ p = dedicated[d].op /\ money'[p].result = worker[d].card
  <2>1. CASE p = dedicated[d].op
    <3>1. money'[p] = [money[p] EXCEPT !.result = worker[d].card, !.state = "pending"]
      BY <1>2, <2>1
    <3> QED
      BY <1>1, <1>3, <2>1, <3>1
  <2>2. CASE p # dedicated[d].op
    BY <1>2, <2>2
  <2> QED
    BY <2>1, <2>2
<1> QED
  BY <1>4 DEF ActionsKept

\* Whatever is not a recording leaves the actions on record as they are.
LEMMA OthersKeep ==
  ASSUME TypeOK, [Next]_vars, \A o \in Ops : ~Recording(o)
  PROVE  ActionsKept
<1>0. FieldsKept => ActionsKept
  BY DEF FieldsKept, ActionsKept
<1>s. money' = money => ActionsKept
  BY DEF ActionsKept
<1>1. CASE TreasurerStep
  <2>1. CASE \/ BeginCycle \/ Scan \/ GiveUp \/ Reconcile \/ ReuseAsItIs \/ LeaveReserve
             \/ ChooseOpening \/ MarkForReview \/ \E c \in Cards : ChooseTopup(c)
             \/ \E ok \in BOOLEAN, c \in Cards \cup {NoCard} : Call(ok, c)
    <3>1. money' = money
      BY <2>1 DEF BeginCycle, Scan, GiveUp, Reconcile, ReuseAsItIs, LeaveReserve, ChooseOpening,
                  MarkForReview, ChooseTopup, Call, bookVars
    <3> QED
      BY <1>s, <3>1
  <2>2. CASE RecordOutcome
    BY <2>2, OutcomeKeeps
  <2>3. ASSUME NEW o \in Ops,
               \/ ConfirmByBalance(o) \/ ConfirmByLedger(o) \/ ProveNoCharge(o)
               \/ LeaveUnresolved(o)
        PROVE  ActionsKept
    BY <1>0, <2>3, VerifyKeeps
  <2> QED
    BY <1>1, <2>1, <2>2, <2>3 DEF TreasurerStep, Recording
<1>2. CASE DedicatedStep
  <2>1. ASSUME NEW d \in Orders, Fail(d) PROVE ActionsKept
    BY <1>0, <2>1, FailWithKeeps DEF Fail
  <2>2. ASSUME NEW d \in Orders,
               GoOn(d) \/ Submit(d) \/ PlaceUnheard(d) \/ RecordCompleted(d) \/ RecordFailed(d)
        PROVE  ActionsKept
    BY <1>s, <2>2 DEF GoOn, Submit, PlaceUnheard, RecordCompleted, RecordFailed
  <2>3. ASSUME NEW d \in Orders, BindCard(d) PROVE ActionsKept
    BY <2>3, BindKeeps
  <2>4. ASSUME NEW d \in Orders, SeeBalance(d) PROVE ActionsKept
    BY <1>0, <2>4, SetStateKeeps DEF SeeBalance, FieldsKept
  <2>5. ASSUME NEW d \in Orders, NEW ok \in BOOLEAN, Pay(d, ok) PROVE ActionsKept
    <3>1. money' = money \/ FailWith(d, "balance_verified")
      BY <2>5 DEF Pay
    <3> QED
      BY <1>0, <1>s, <3>1, FailWithKeeps
  <2>6. ASSUME NEW d \in Orders, NEW ok \in BOOLEAN, NEW c \in Cards \cup {NoCard},
               OpenCard(d, ok, c)
        PROVE  ActionsKept
    <3>1. money' = money \/ FailWith(d, "unknown")
      BY <2>6 DEF OpenCard
    <3> QED
      BY <1>0, <1>s, <3>1, FailWithKeeps
  <2>7. ~ \E d \in Orders, o \in Ops : StartPro20(d, o) \/ ClaimReserve(d, o)
    BY DEF Recording
  <2> QED
    BY <1>2, <2>1, <2>2, <2>3, <2>4, <2>5, <2>6, <2>7 DEF DedicatedStep
<1>3. CASE Restart
  BY <1>0, <1>3, RestartKeeps
<1>4. CASE \/ \E o \in Ops, c \in Cards : LateCharge(o, c)
           \/ \E c \in Cards : OrdinaryPayment(c) \/ \E a \in ManualAmounts : ManualTopup(c, a)
           \/ \E d \in Orders, outcome \in {"completed", "failed"} : SettlePro(d, outcome)
           \/ \E paused \in BOOLEAN, b \in Budgets : SavePolicy(paused, b)
           \/ Tick \/ UNCHANGED vars
  <2>1. money' = money
    BY <1>4 DEF LateCharge, OrdinaryPayment, ManualTopup, SettlePro, SavePolicy, Tick, bookVars, vars
  <2> QED
    BY <1>s, <2>1
<1> QED
  BY <1>1, <1>2, <1>3, <1>4 DEF Next

\* What is recorded names its operation's action and reservation.
LEMMA RecordIs ==
  ASSUME TypeOK, NEW o \in Ops, NEW action, NEW card, NEW amount, NEW reserved, NEW before, NEW at,
         money' = Record(o, action, card, amount, reserved, before, at)
  PROVE  /\ \A p \in Ops \ {o} : money'[p] = money[p]
         /\ money'[o].action = action /\ money'[o].reserved = reserved /\ money'[o].card = card
         /\ money'[o].result = NoCard
  BY DEF Record, TypeOK, Money

------------------------------------------------------------------------------
\* The budget.

LEMMA RecordingStaysWithin ==
  ASSUME IInv, TypeOK', NEW o \in Ops, Recording(o)
  PROVE  ReservedSince(clock - Day)' <= policy.budget
<1> USE DEF IInv, Books
<1>0. /\ policy.budget \in Nat /\ ProBudget <= policy.budget /\ ProBudget \in Nat
      /\ clock \in Nat /\ clock \in Int /\ Day \in Nat /\ treasurer.at \in Nat
      /\ clock - Day \in Int /\ treasurer.at - Day \in Int
  <2>1. policy.budget \in Nat /\ ProDailyMaximum \in Nat
    BY AmountsAreNat DEF TypeOK
  <2>2. clock \in Nat /\ treasurer.at \in Nat /\ Day \in Nat
    BY ConstantTypes DEF TypeOK, Treasurer
  <2> QED
    BY <2>1, <2>2 DEF ProBudget
<1>t. treasurer.pc # "idle" => treasurer.at - Day <= clock - Day
  <2>1. treasurer.pc # "idle" => treasurer.at <= clock
    BY DEF CycleOK, WithinLease
  <2> QED
    BY <1>0, <2>1
<1>n. \A cost : money'[o].reserved = cost => cost \in Nat
  BY DEF TypeOK, Money
<1>r. \A at \in Int : ReservedSince(at) \in Int
  <2> TAKE at \in Int
  <2>1. Since(at) \in SUBSET Ops /\ money \in [Ops -> Money]
    BY DEF Since, TypeOK
  <2>2. Total(money, Since(at)) \in Nat
    BY <2>1, TotalGrows
  <2> QED
    BY <2>2, ReservedIsTotal
<1>1. CASE Insert(o)
  <2> DEFINE p == treasurer.plan
  <2>1. /\ money' = Record(o, p.action, p.card, p.amount, p.cost, p.before, treasurer.at)
        /\ ReservedSince(treasurer.at - Day) + p.cost <= policy.budget
        /\ treasurer.pc = "insert" /\ clock' = clock
    BY <1>1 DEF Insert, TreasurerAt, elsewhere
  <2>2. money'[o].reserved = p.cost /\ \A q \in Ops \ {o} : money'[q] = money[q]
    BY <2>1, RecordIs
  <2> HIDE DEF p
  <2> QED
    BY <1>0, <1>t, <2>1, <2>2, StaysWithin
<1>2. CASE ReuseAfterTopup(o)
  <2> DEFINE amount == Pro5xInitial - treasurer.view[Reusable]
  <2>1. /\ money' = Record(o, "pro5x_reserve_topup", Reusable, amount, amount,
                           treasurer.view[Reusable], treasurer.at)
        /\ ReservedSince(treasurer.at - Day) + amount <= ProBudget
        /\ treasurer.pc = "reserve" /\ clock' = clock
    BY <1>2 DEF ReuseAfterTopup, MayPrepare, TreasurerAt, PreparationAllowed, elsewhere
  <2>2. money'[o].reserved = amount /\ \A q \in Ops \ {o} : money'[q] = money[q]
    BY <2>1, RecordIs
  <2> HIDE DEF amount
  <2>3. ReservedSince(treasurer.at - Day) + amount <= policy.budget
    BY <1>0, <1>n, <1>r, <2>1, <2>2
  <2> QED
    BY <1>0, <1>t, <2>1, <2>2, <2>3, StaysWithin
<1>3. CASE PrepareNewCard(o)
  <2> DEFINE cost == Cost(Pro5xInitial, TRUE)
  <2>1. /\ money' = Record(o, "pro5x_reserve_open", NoCard, Pro5xInitial, cost, 0, treasurer.at)
        /\ ReservedSince(treasurer.at - Day) + cost <= ProBudget
        /\ treasurer.pc = "reserve" /\ clock' = clock
    BY <1>3 DEF PrepareNewCard, MayPrepare, TreasurerAt, PreparationAllowed, elsewhere
  <2> HIDE DEF cost
  <2>2. money'[o].reserved = cost /\ \A q \in Ops \ {o} : money'[q] = money[q]
    BY <2>1, RecordIs
  <2>3. ReservedSince(treasurer.at - Day) + cost <= policy.budget
    BY <1>0, <1>n, <1>r, <2>1, <2>2
  <2> QED
    BY <1>0, <1>t, <2>1, <2>2, <2>3, StaysWithin
<1>4. ASSUME NEW d \in Orders, StartPro20(d, o) PROVE ReservedSince(clock - Day)' <= policy.budget
  <2> DEFINE cost == Cost(ProInitial, TRUE) + ApiFee
  <2>1. /\ money' = Record(o, "pro_open", NoCard, ProInitial, cost, 0, clock)
        /\ ReservedSince(clock - Day) + cost <= ProBudget
        /\ clock' = clock
    BY <1>4 DEF StartPro20, aside
  <2> HIDE DEF cost
  <2>2. money'[o].reserved = cost /\ \A q \in Ops \ {o} : money'[q] = money[q]
    BY <2>1, RecordIs
  <2>3. ReservedSince(clock - Day) + cost <= policy.budget /\ clock - Day <= clock - Day
    BY <1>0, <1>n, <1>r, <2>1, <2>2
  <2> QED
    BY <1>0, <2>1, <2>2, <2>3, StaysWithin
<1>5. ASSUME NEW d \in Orders, ClaimReserve(d, o) PROVE ReservedSince(clock - Day)' <= policy.budget
  <2>1. /\ money' = [Record(o, "pro5x_pay_fee", reserve.card, 0, ApiFee, 0, clock)
                       EXCEPT ![o].state = "balance_verified"]
        /\ ReservedSince(clock - Day) + ApiFee <= ProBudget
        /\ clock' = clock
    BY <1>5 DEF ClaimReserve, aside
  <2>2. money'[o].reserved = ApiFee /\ \A q \in Ops \ {o} : money'[q] = money[q]
    BY <2>1 DEF Record, TypeOK, Money
  <2>3. ReservedSince(clock - Day) + ApiFee <= policy.budget /\ clock - Day <= clock - Day
    BY <1>0, <1>n, <1>r, <2>1, <2>2
  <2> QED
    BY <1>0, <2>1, <2>2, <2>3, StaysWithin
<1> QED
  BY <1>1, <1>2, <1>3, <1>4, <1>5 DEF Recording

\* An operation that a step records was recorded by a statement that looked at the budget.
LEMMA NewlyRecorded ==
  ASSUME IInv, IInv', [Next]_vars, NEW o \in Ops, ~Recorded(o), Recorded(o)'
  PROVE  \E p \in Ops : Recording(p)
<1>1. money'[o].action # money[o].action
  BY DEF IInv, Books, BooksOK, NamedWhenRecorded, Recorded
<1> QED
  BY <1>1, OthersKeep DEF IInv, Books, ActionsKept

LEMMA InvariantStep == ASSUME IInv, [Next]_vars PROVE IInv'
<1>1. CASE \/ \E o \in Ops, c \in Cards : LateCharge(o, c)
           \/ \E c \in Cards : OrdinaryPayment(c) \/ \E a \in ManualAmounts : ManualTopup(c, a)
           \/ \E d \in Orders, outcome \in {"completed", "failed"} : SettlePro(d, outcome)
           \/ \E paused \in BOOLEAN, b \in Budgets : SavePolicy(paused, b)
           \/ Tick
  BY <1>1, OutsideSafe
<1> QED
  BY <1>1, TreasurerSafe, OrderSafe, RestartSafe, UnchangedSafe DEF Next

(* Whichever of the four flows records an operation, what was reserved in the last day,
   this operation included, is within the budget in force at that moment: the statement
   looks at the ledger and the policy as they are then, and a treasurer that reckons from
   the beginning of its cycle counts more operations, never less.                       *)
THEOREM BudgetIsKept == Spec => SpendsWithinBudget
<1> DEFINE Step1 == (\E o \in Ops : ~Recorded(o) /\ Recorded(o)')
                       => ReservedSince(clock - Day)' <= policy.budget
<1>1. ASSUME IInv, IInv', [Next]_vars PROVE Step1
  <2>1. ASSUME NEW o \in Ops, ~Recorded(o), Recorded(o)'
        PROVE  ReservedSince(clock - Day)' <= policy.budget
    <3>1. PICK p \in Ops : Recording(p)
      BY <1>1, <2>1, NewlyRecorded
    <3> QED
      BY <1>1, <3>1, RecordingStaysWithin DEF IInv, Books
  <2> QED
    BY <2>1
<1>2. IInv /\ IInv' /\ [Next]_vars => [Step1]_vars
  BY <1>1
<1> QED
  BY <1>2, Invariance, PTL DEF Spec, SpendsWithinBudget

------------------------------------------------------------------------------
\* A request is sent once, a card is opened by one opening, and a fee by none.
UnsentIsUnmade == \A o \in Ops : charge[o] = "unsent" => made[o] = NoCard
CallIsUnsent == treasurer.pc = "call" => charge[treasurer.op] = "unsent"
OpenIsUnsent == \A d \in Orders : worker[d].pc = "open" => charge[dedicated[d].op] = "unsent"
MadeApart == \A o \in Ops : made[o] # NoCard =>
  made[o] \notin Stock /\ \A p \in Ops : made[p] = made[o] => p = o
MadeByOpenings == \A o \in Ops : made[o] # NoCard => money[o].action \in Openings
FeesAreUnsent == \A o \in Ops : money[o].action = "pro5x_pay_fee" => charge[o] = "unsent"
RequestsOK == /\ UnsentIsUnmade /\ CallIsUnsent /\ OpenIsUnsent /\ MadeApart /\ MadeByOpenings
              /\ FeesAreUnsent

\* What the shop knows of a card that was opened is what the platform did.
ResultIsMade == \A o \in Ops : money[o].result \in {NoCard, made[o]}
BindIsMade == \A d \in Orders : worker[d].pc = "bind" =>
  worker[d].card # NoCard /\ worker[d].card = made[dedicated[d].op]
AnswersOK == ResultIsMade /\ BindIsMade

\* A card that was not opened for a pro_20x order; the shop's lists have no other.
Spare(c) == \/ c \in Stock
            \/ \E o \in Ops : made[o] = c /\ money[o].action \in {"open", "pro5x_reserve_open"}
ListsAreSpare == /\ \A c \in pool : Spare(c)
                 /\ \A i \in DOMAIN used : Spare(used[i])
                 /\ \A c \in treasurer.enrolled : Spare(c)
RowsAreSpare == /\ reserve.card # NoCard => Spare(reserve.card)
                /\ \A d \in Pro5 : code[d].card # NoCard => Spare(code[d].card)

\* A pro_5x order has its card from the beginning and has given it back when it is done.
CardTaken == \A d \in Pro5 : dedicated[d].op \in Ops \/ dedicated[d].state # "none" =>
  code[d].card # NoCard
CardGivenBack == \A d \in Pro5 : dedicated[d].state = "completed" => dedicated[d].card = NoCard

\* What was decided stays right until it is recorded.
PlanSpares == treasurer.pc = "insert" /\ treasurer.plan.action = "topup" =>
  /\ Spare(treasurer.plan.card) /\ ~Prepared(treasurer.plan.card)
  /\ \A d \in Orders : dedicated[d].card # treasurer.plan.card

PInv == /\ RequestsOK /\ AnswersOK /\ ListsAreSpare /\ RowsAreSpare /\ CardTaken /\ CardGivenBack
        /\ PlanSpares

\* Cards that were opened keep their operation, and the operation its action.
MadeStays == \A o \in Ops : made[o] # NoCard => made'[o] = made[o] /\ money'[o].action = money[o].action

LEMMA SpareStays == ASSUME MadeStays, NEW c, c # NoCard, Spare(c) PROVE Spare(c)'
  BY DEF MadeStays, Spare

LEMMA SpareIsNotBought ==
  ASSUME RequestsOK, NEW o \in Ops, money[o].action = "pro_open", made[o] # NoCard
  PROVE  ~Spare(made[o])
<1> SUFFICES ASSUME Spare(made[o]) PROVE FALSE
  OBVIOUS
<1>1. made[o] \notin Stock
  BY DEF RequestsOK, MadeApart
<1>2. PICK p \in Ops : made[p] = made[o] /\ money[p].action \in {"open", "pro5x_reserve_open"}
  BY <1>1 DEF Spare
<1>3. p = o
  BY <1>2 DEF RequestsOK, MadeApart
<1> QED
  BY <1>2, <1>3

\* Nothing is sent.
LEMMA RequestsKept ==
  ASSUME RequestsOK, charge' = charge, made' = made,
         \A p \in Ops : money'[p].action = money[p].action \/ charge[p] = "unsent",
         CallIsUnsent', OpenIsUnsent'
  PROVE  RequestsOK' /\ MadeStays
<1> USE DEF RequestsOK
<1>1. UnsentIsUnmade' /\ MadeApart'
  BY DEF UnsentIsUnmade, MadeApart
<1>2. MadeByOpenings' /\ FeesAreUnsent' /\ MadeStays
  BY DEF UnsentIsUnmade, MadeByOpenings, FeesAreUnsent, MadeStays
<1> QED
  BY <1>1, <1>2

\* A request is sent or executed.
Opens(o) == /\ made[o] = NoCard /\ money[o].action \in Openings
            /\ \E c \in Cards \ Owned : made' = [made EXCEPT ![o] = c]
LEMMA RequestsSent ==
  ASSUME TypeOK, RequestsOK, NEW o \in Ops, made' = made \/ Opens(o), ActionsKept,
         charge'[o] # "unsent", \A p \in Ops \ {o} : charge'[p] = charge[p],
         money[o].action # "pro5x_pay_fee", CallIsUnsent', OpenIsUnsent'
  PROVE  RequestsOK' /\ MadeStays
<1> USE DEF RequestsOK, ActionsKept
<1>0. made \in [Ops -> Cards \cup {NoCard}]
  BY DEF TypeOK
<1>1. \A p \in Ops \ {o} : made'[p] = made[p]
  BY <1>0 DEF Opens
<1>2. UnsentIsUnmade' /\ MadeByOpenings' /\ FeesAreUnsent'
  BY <1>1 DEF UnsentIsUnmade, MadeByOpenings, FeesAreUnsent, Opens
<1>3. MadeStays
  BY <1>1 DEF MadeStays, Opens
<1>4. MadeApart'
  <2>1. CASE made' = made
    BY <2>1 DEF MadeApart
  <2>2. CASE Opens(o)
    <3>1. PICK c \in Cards \ Owned : made' = [made EXCEPT ![o] = c]
      BY <2>2 DEF Opens
    <3>2. c \notin Stock /\ \A p \in Ops : made[p] # c
      BY ConstantTypes DEF Owned
    <3>3. made'[o] = c
      BY <1>0, <3>1
    <3> QED
      BY <1>1, <3>2, <3>3 DEF MadeApart
  <2> QED
    BY <2>1, <2>2
<1> QED
  BY <1>2, <1>3, <1>4

LEMMA RequestMakes ==
  ASSUME TypeOK, RequestsOK, NEW o \in Ops, charge[o] = "unsent",
         NEW accepted \in BOOLEAN, NEW c \in Cards \cup {NoCard}, Requested(o, accepted, c)
  PROVE  /\ made' = made \/ Opens(o)
         /\ charge'[o] # "unsent" /\ \A p \in Ops \ {o} : charge'[p] = charge[p]
         /\ accepted /\ money[o].action \in Openings => made'[o] = c /\ c \in Cards
<1>0. made \in [Ops -> Cards \cup {NoCard}] /\ charge \in [Ops -> Fates] /\ made[o] = NoCard
  BY DEF TypeOK, RequestsOK, UnsentIsUnmade
<1>1. \/ /\ charge' = [charge EXCEPT ![o] = "done"]
         /\ money[o].action \in Openings => made' = [made EXCEPT ![o] = c] /\ c \in Cards \ Owned
         /\ money[o].action \notin Openings => made' = made
      \/ /\ charge' = [charge EXCEPT ![o] = "late"]
         /\ IF money[o].action \in Openings /\ accepted
            THEN made' = [made EXCEPT ![o] = c] /\ c \in Cards \ Owned
            ELSE made' = made
      \/ ~accepted /\ charge' = [charge EXCEPT ![o] = "never"] /\ made' = made
  BY DEF Requested
<1>2. made' = made \/ Opens(o)
  BY <1>0, <1>1 DEF Opens
<1>3. charge'[o] # "unsent" /\ \A p \in Ops \ {o} : charge'[p] = charge[p]
  BY <1>0, <1>1
<1>4. accepted /\ money[o].action \in Openings => made'[o] = c /\ c \in Cards
  BY <1>0, <1>1
<1> QED
  BY <1>2, <1>3, <1>4

LEMMA AnswersKept ==
  ASSUME AnswersOK, MadeStays,
         \A p \in Ops : money'[p].result \in {NoCard, money[p].result, made[p], made'[p]},
         BindIsMade'
  PROVE  AnswersOK'
<1>1. ResultIsMade'
  BY DEF AnswersOK, ResultIsMade, MadeStays
<1> QED
  BY <1>1 DEF AnswersOK

\* The lists, the rows and the orders stay as they are, or take what is spare.
LEMMA ListsKept ==
  ASSUME TypeOK, ListsAreSpare, MadeStays,
         pool' \subseteq pool \cup {c \in Cards : Spare(c)},
         used' = used,
         treasurer'.enrolled \subseteq treasurer.enrolled \cup pool
  PROVE  ListsAreSpare'
<1>0. /\ NoCard \notin Cards /\ pool \subseteq Cards /\ treasurer.enrolled \subseteq Cards
      /\ \A i \in DOMAIN used : used[i] \in Cards
  BY ConstantTypes DEF TypeOK, Treasurer
<1>1. \A c \in Cards : Spare(c) => Spare(c)'
  BY <1>0, SpareStays
<1> QED
  BY <1>0, <1>1 DEF ListsAreSpare

LEMMA RowsKept ==
  ASSUME TypeOK, RowsAreSpare, MadeStays,
         \/ reserve'.card \in {reserve.card, NoCard} \/ Spare(reserve'.card)
         \/ Spare(reserve.card)',
         \A d \in Pro5 : \/ code'[d].card \in {code[d].card, NoCard}
                         \/ Spare(code'[d].card)
  PROVE  RowsAreSpare'
<1>1. \A c : c # NoCard /\ Spare(c) => Spare(c)'
  BY SpareStays
<1>2. (reserve.card # NoCard => Spare(reserve.card))'
  BY <1>1 DEF RowsAreSpare
<1>3. (\A d \in Pro5 : code[d].card # NoCard => Spare(code[d].card))'
  <2> SUFFICES ASSUME NEW d \in Pro5, code'[d].card # NoCard PROVE Spare(code[d].card)'
    OBVIOUS
  <2>1. Spare(code'[d].card)
    BY DEF RowsAreSpare
  <2> QED
    BY <1>1, <2>1
<1> QED
  BY <1>2, <1>3 DEF RowsAreSpare

LEMMA OrdersHoldCards ==
  ASSUME CardTaken, CardGivenBack,
         \A d \in Pro5 : \/ dedicated'[d] = dedicated[d]
                         \/ /\ dedicated'[d].op \in Ops \/ dedicated'[d].state # "none" =>
                                 \/ dedicated[d].op \in Ops \/ dedicated[d].state # "none"
                                 \/ code'[d].card # NoCard
                            /\ dedicated'[d].state = "completed" => dedicated'[d].card = NoCard,
         \A d \in Pro5 : code[d].card # NoCard => code'[d].card # NoCard
  PROVE  CardTaken' /\ CardGivenBack'
  BY DEF CardTaken, CardGivenBack

\* What was decided stays right while the decision waits.
LEMMA PlanKept ==
  ASSUME TypeOK, PlanSpares, MadeStays, treasurer' = treasurer,
         reserve' = reserve \/ reserve'.state = "empty",
         treasurer.pc = "insert" /\ treasurer.plan.action = "topup" =>
           \A d \in Orders : dedicated'[d].card = treasurer.plan.card =>
              dedicated[d].card = treasurer.plan.card,
         PlanIsWhole
  PROVE  PlanSpares'
<1> SUFFICES ASSUME treasurer.pc = "insert", treasurer.plan.action = "topup"
             PROVE  PlanSpares'
  BY DEF PlanSpares
<1>1. treasurer.plan.card # NoCard
  BY ConstantTypes DEF PlanIsWhole
<1>2. Spare(treasurer.plan.card)'
  BY <1>1, SpareStays DEF PlanSpares
<1>3. (~Prepared(treasurer.plan.card))'
  BY DEF PlanSpares, Prepared
<1> QED
  BY <1>2, <1>3 DEF PlanSpares

------------------------------------------------------------------------------
\* The treasurer's steps.

\* Where no order and no request is touched, only the lists, the prepared card and the
\* decision remain to be looked at.
LEMMA TreasurerSpares ==
  ASSUME TypeOK, PInv, FieldsKept, charge' = charge, made' = made, worker' = worker,
         code' = code, dedicated' = dedicated, used' = used, treasurer'.pc # "call",
         pool' \subseteq pool \cup {c \in Cards : Spare(c)},
         treasurer'.enrolled \subseteq treasurer.enrolled \cup pool,
         reserve'.card \in {reserve.card, NoCard} \/ Spare(reserve'.card),
         PlanSpares'
  PROVE  PInv'
<1> USE DEF PInv, FieldsKept
<1>1. RequestsOK' /\ MadeStays
  <2>1. CallIsUnsent' /\ OpenIsUnsent'
    BY DEF RequestsOK, CallIsUnsent, OpenIsUnsent
  <2> QED
    BY <2>1, RequestsKept
<1>2. AnswersOK'
  <2>1. BindIsMade'
    BY DEF AnswersOK, BindIsMade
  <2> QED
    BY <1>1, <2>1, AnswersKept
<1>3. ListsAreSpare'
  BY <1>1, ListsKept
<1>4. RowsAreSpare'
  BY <1>1, RowsKept
<1>5. CardTaken' /\ CardGivenBack'
  BY OrdersHoldCards
<1> QED
  BY <1>1, <1>2, <1>3, <1>4, <1>5

LEMMA NoPlanSpares == ASSUME treasurer'.pc # "insert" PROVE PlanSpares'
  BY DEF PlanSpares

LEMMA RestForgets == Rest => treasurer'.enrolled = {} /\ treasurer'.pc = "idle"
  BY DEF Rest, IdleTreasurer

LEMMA CycleSpares ==
  ASSUME IInv, PInv, \/ BeginCycle \/ Scan \/ GiveUp \/ LeaveReserve \/ ChooseOpening
                     \/ MarkForReview
  PROVE  PInv'
<1>0. TypeOK /\ treasurer \in Treasurer /\ reserve \in Reserve
  BY DEF IInv, Books, TypeOK
<1>1. /\ FieldsKept /\ charge' = charge /\ made' = made /\ worker' = worker /\ code' = code
      /\ dedicated' = dedicated /\ used' = used /\ pool' = pool
  BY DEF FieldsKept, BeginCycle, Scan, GiveUp, LeaveReserve, ChooseOpening, MarkForReview,
         bookVars, elsewhere
<1>e. pool' \subseteq pool \cup {c \in Cards : Spare(c)}
  BY <1>1
<1>2. reserve'.card = reserve.card
  BY <1>0 DEF BeginCycle, Scan, GiveUp, LeaveReserve, ChooseOpening, MarkForReview, bookVars, Reserve
<1>3. /\ treasurer'.pc # "call"
      /\ treasurer'.enrolled \in {treasurer.enrolled, {}, pool}
      /\ treasurer'.pc = "insert" => treasurer'.plan.action = "open"
  <2>1. CASE BeginCycle
    BY <2>1 DEF BeginCycle, IdleTreasurer
  <2>2. CASE GiveUp \/ MarkForReview
    BY <2>2, RestForgets DEF GiveUp, MarkForReview
  <2>3. CASE Scan \/ LeaveReserve
    BY <1>0, <2>3 DEF Scan, LeaveReserve, Treasurer
  <2>4. CASE ChooseOpening
    BY <1>0, <2>4 DEF ChooseOpening, Treasurer
  <2> QED
    BY <2>1, <2>2, <2>3, <2>4
<1>4. PlanSpares'
  BY <1>3 DEF PlanSpares
<1>5. treasurer'.enrolled \subseteq treasurer.enrolled \cup pool
  BY <1>3
<1> QED
  BY <1>0, <1>1, <1>e, <1>2, <1>3, <1>4, <1>5, TreasurerSpares

LEMMA ChooseSpares == ASSUME IInv, PInv, NEW c \in Cards, ChooseTopup(c) PROVE PInv'
<1>0. TypeOK /\ treasurer \in Treasurer
  BY DEF IInv, Books, TypeOK
<1>1. /\ FieldsKept /\ charge' = charge /\ made' = made /\ worker' = worker /\ code' = code
      /\ dedicated' = dedicated /\ used' = used /\ pool' = pool /\ reserve' = reserve
      /\ money' = money
  BY DEF FieldsKept, ChooseTopup, bookVars, elsewhere
<1>2. treasurer'.pc = "insert" /\ treasurer'.enrolled = treasurer.enrolled /\ treasurer'.plan.card = c
  BY <1>0 DEF ChooseTopup, Treasurer
<1>3. Spare(c)
  BY DEF ChooseTopup, PInv, ListsAreSpare
<1>4. \A d \in Orders : dedicated[d].card # c
  <2> SUFFICES ASSUME NEW d \in Orders, dedicated[d].card = c PROVE FALSE
    OBVIOUS
  <2>1. d \in Pro5 /\ dedicated[d].state = "completed"
    BY DEF ChooseTopup, HeldByOrder
  <2> QED
    BY <2>1, ConstantTypes DEF PInv, CardGivenBack
<1>5. PlanSpares'
  <2>1. Spare(c)' /\ ~Prepared(c)'
    BY <1>1, <1>3 DEF Spare, Prepared, ChooseTopup
  <2> QED
    BY <1>1, <1>2, <1>4, <2>1 DEF PlanSpares
<1>6. /\ pool' \subseteq pool \cup {k \in Cards : Spare(k)}
      /\ treasurer'.enrolled \subseteq treasurer.enrolled \cup pool
      /\ reserve'.card = reserve.card /\ treasurer'.pc # "call"
  BY <1>1, <1>2
<1> QED
  BY <1>0, <1>1, <1>5, <1>6, TreasurerSpares

LEMMA VerifySpares ==
  ASSUME IInv, PInv, NEW o \in Ops,
         ConfirmByBalance(o) \/ ConfirmByLedger(o) \/ ProveNoCharge(o) \/ LeaveUnresolved(o)
  PROVE  PInv'
<1>0. TypeOK /\ treasurer \in Treasurer
  BY DEF IInv, Books, TypeOK
<1>1. /\ charge' = charge /\ made' = made /\ worker' = worker /\ code' = code
      /\ dedicated' = dedicated /\ used' = used /\ reserve' = reserve
  BY DEF ConfirmByBalance, ConfirmByLedger, ProveNoCharge, LeaveUnresolved, bookVars, elsewhere
<1>2. FieldsKept
  BY <1>0, VerifyKeeps
<1>3. treasurer'.pc = "verify" /\ treasurer'.enrolled = treasurer.enrolled
  BY <1>0 DEF ConfirmByBalance, ConfirmByLedger, ProveNoCharge, LeaveUnresolved, IsDue, Checked,
              TreasurerAt, Treasurer
<1>4. pool' \subseteq pool \cup {c \in Cards : Spare(c)}
  <2>1. CASE ConfirmByBalance(o)
    <3>1. pool' = pool \/ (money[o].action = "open" /\ pool' = pool \cup {Target(o)})
      BY <2>1 DEF ConfirmByBalance, Enrolled
    <3>2. money[o].action = "open" => Target(o) = made[o] /\ Target(o) # NoCard
      BY <2>1 DEF ConfirmByBalance, SeenInBalance, Target, PInv, AnswersOK, ResultIsMade
    <3>3. money[o].action = "open" => Target(o) \in Cards /\ Spare(Target(o))
      BY <1>0, <3>2 DEF Spare, TypeOK
    <3>4. CASE pool' = pool
      BY <3>4
    <3>5. CASE money[o].action = "open" /\ pool' = pool \cup {Target(o)}
      BY <3>3, <3>5
    <3> QED
      BY <3>1, <3>4, <3>5
  <2>2. CASE ~ConfirmByBalance(o)
    <3>1. pool' = pool
      BY <2>2 DEF ConfirmByLedger, ProveNoCharge, LeaveUnresolved, bookVars
    <3> QED
      BY <3>1
  <2> QED
    BY <2>1, <2>2
<1>5. PlanSpares'
  BY <1>3, NoPlanSpares
<1>6. treasurer'.enrolled \subseteq treasurer.enrolled \cup pool /\ treasurer'.pc # "call"
  BY <1>3
<1> QED
  BY <1>0, <1>1, <1>2, <1>4, <1>5, <1>6, TreasurerSpares

LEMMA ReusableSpare == ASSUME TypeOK, PInv, Reusable # NoCard PROVE Spare(Reusable)
<1>1. used # <<>> /\ Reusable = Head(used)
  BY DEF Reusable
<1>2. 1 \in DOMAIN used /\ Head(used) = used[1]
  BY <1>1 DEF TypeOK
<1> QED
  BY <1>1, <1>2 DEF PInv, ListsAreSpare

LEMMA ReconcileSpares == ASSUME IInv, PInv, Reconcile \/ ReuseAsItIs PROVE PInv'
<1>0. TypeOK /\ treasurer \in Treasurer /\ reserve \in Reserve
  BY DEF IInv, Books, TypeOK
<1>1. /\ FieldsKept /\ charge' = charge /\ made' = made /\ worker' = worker /\ code' = code
      /\ dedicated' = dedicated /\ used' = used
  BY DEF FieldsKept, Reconcile, ReuseAsItIs, elsewhere
<1>2. treasurer'.pc \in {"idle", "reserve"} /\ treasurer'.enrolled \in {treasurer.enrolled, {}}
  <2>1. Rest \/ treasurer' = [treasurer EXCEPT !.pc = "reserve", !.uncertain = FALSE]
    BY DEF Reconcile, ReuseAsItIs
  <2> QED
    BY <1>0, <2>1, RestForgets DEF Treasurer
<1>3. PlanSpares'
  BY <1>2, NoPlanSpares
<1>4. \A c \in Enrollable : c \in Cards /\ Spare(c)
  <2> TAKE c \in Enrollable
  <2>1. CASE \E i \in DOMAIN used : used[i] = c
    BY <2>1 DEF Enrollable, PInv, ListsAreSpare
  <2>2. CASE ~ \E i \in DOMAIN used : used[i] = c
    <3>1. PICK o \in Ops : money[o].action = "open" /\ money[o].result = c
      BY <2>2 DEF Enrollable
    <3>2. c \in Cards /\ made[o] = c
      BY <3>1, ConstantTypes DEF Enrollable, PInv, AnswersOK, ResultIsMade
    <3> QED
      BY <3>1, <3>2 DEF Spare
  <2> QED
    BY <2>1, <2>2
<1>5. pool' \subseteq pool \cup {c \in Cards : Spare(c)}
  <2>1. pool' \in {pool, pool \cup Enrollable}
    BY DEF Reconcile, ReuseAsItIs
  <2>2. Enrollable \subseteq {c \in Cards : Spare(c)}
    BY <1>4
  <2> QED
    BY <2>1, <2>2
<1>6. reserve'.card = reserve.card \/ Spare(reserve'.card)
  <2>1. CASE Reconcile
    <3>1. reserve' = reserve \/ reserve' = [reserve EXCEPT !.state = NextReserveState]
      BY <2>1 DEF Reconcile
    <3> QED
      BY <1>0, <3>1 DEF Reserve
  <2>2. CASE ReuseAsItIs
    <3>1. reserve'.card = Reusable /\ Reusable # NoCard
      BY <2>2 DEF ReuseAsItIs
    <3>2. Spare(Reusable)
      BY <1>0, <3>1, ReusableSpare
    <3> QED
      BY <3>1, <3>2
  <2> QED
    BY <2>1, <2>2
<1>7. treasurer'.enrolled \subseteq treasurer.enrolled \cup pool /\ treasurer'.pc # "call"
  BY <1>2
<1> QED
  BY <1>0, <1>1, <1>3, <1>5, <1>6, <1>7, TreasurerSpares

\* A recording: what is recorded has not been sent.
LEMMA SpendSpares ==
  ASSUME IInv, PInv, NEW o \in Ops, ReuseAfterTopup(o) \/ PrepareNewCard(o) \/ Insert(o)
  PROVE  PInv'
<1> USE DEF PInv
<1>0. TypeOK /\ treasurer \in Treasurer
  BY DEF IInv, Books, TypeOK
<1>1. /\ charge' = charge /\ made' = made /\ worker' = worker /\ code' = code
      /\ dedicated' = dedicated /\ used' = used /\ pool' = pool
      /\ Calling(o) /\ ~Recorded(o)
  BY DEF ReuseAfterTopup, PrepareNewCard, Insert, Fresh, elsewhere
<1>2. /\ \A p \in Ops \ {o} : money'[p] = money[p]
      /\ money'[o].result = NoCard
      /\ charge[o] = "unsent" /\ made[o] = NoCard
  <2>1. \E action, card, amount, reserved, before, at :
          money' = Record(o, action, card, amount, reserved, before, at)
    BY DEF ReuseAfterTopup, PrepareNewCard, Insert
  <2>2. charge[o] = "unsent"
    BY <1>1 DEF IInv, ChargesOK, UnrecordedIsUnsent
  <2> QED
    BY <1>0, <2>1, <2>2, RecordIs DEF RequestsOK, UnsentIsUnmade
<1>3. treasurer'.pc = "call" /\ treasurer'.op = o /\ treasurer'.enrolled = {}
  BY <1>1 DEF Calling, IdleTreasurer
<1>4. RequestsOK' /\ MadeStays
  <2>1. CallIsUnsent' /\ OpenIsUnsent'
    BY <1>1, <1>2, <1>3 DEF RequestsOK, CallIsUnsent, OpenIsUnsent
  <2> QED
    BY <1>1, <1>2, <2>1, RequestsKept
<1>5. AnswersOK'
  <2>1. BindIsMade'
    BY <1>1 DEF AnswersOK, BindIsMade
  <2> QED
    BY <1>2, <1>4, <2>1, AnswersKept
<1>6. ListsAreSpare'
  <2>1. /\ pool' \subseteq pool \cup {c \in Cards : Spare(c)}
        /\ treasurer'.enrolled \subseteq treasurer.enrolled \cup pool
    BY <1>1, <1>3
  <2> QED
    BY <1>0, <1>1, <2>1, <1>4, ListsKept
<1>7. reserve'.card \in {reserve.card, NoCard} \/ Spare(reserve'.card)
  <2>1. CASE ReuseAfterTopup(o)
    <3>1. reserve'.card = Reusable /\ Reusable # NoCard
      BY <2>1 DEF ReuseAfterTopup
    <3> QED
      BY <1>0, <3>1, ReusableSpare
  <2>2. CASE PrepareNewCard(o) \/ Insert(o)
    <3>1. reserve'.card \in {reserve.card, NoCard}
      <4>1. CASE PrepareNewCard(o)
        BY <4>1 DEF PrepareNewCard
      <4>2. CASE Insert(o)
        BY <4>2 DEF Insert
      <4> QED
        BY <2>2, <4>1, <4>2
    <3> QED
      BY <3>1
  <2> QED
    BY <2>1, <2>2
<1>8. RowsAreSpare'
  BY <1>0, <1>1, <1>4, <1>7, RowsKept
<1>9. CardTaken' /\ CardGivenBack' /\ PlanSpares'
  BY <1>1, <1>3, OrdersHoldCards, NoPlanSpares
<1> QED
  BY <1>4, <1>5, <1>6, <1>8, <1>9

LEMMA CallSpares ==
  ASSUME IInv, IInv', PInv, NEW ok \in BOOLEAN, NEW c \in Cards \cup {NoCard}, Call(ok, c)
  PROVE  PInv'
<1> USE DEF PInv
<1>0. TypeOK /\ treasurer \in Treasurer
  BY DEF IInv, Books, TypeOK
<1>1. /\ money' = money /\ worker' = worker /\ code' = code /\ dedicated' = dedicated
      /\ used' = used /\ pool' = pool /\ reserve' = reserve
      /\ treasurer.pc = "call" /\ treasurer'.pc = "record"
      /\ treasurer'.enrolled = treasurer.enrolled
  BY <1>0 DEF Call, TreasurerAt, bookVars, orderVars, Treasurer
<1>2. PICK o \in Ops : o = treasurer.op /\ money[o].action \in Treasury
  BY <1>1 DEF IInv, Books, CycleOK, TreasurerHasOp
<1>3. charge[o] = "unsent" /\ Requested(o, ok, c)
  BY <1>1, <1>2 DEF Call, RequestsOK, CallIsUnsent
<1>4. /\ made' = made \/ Opens(o)
      /\ charge'[o] # "unsent" /\ \A p \in Ops \ {o} : charge'[p] = charge[p]
  BY <1>0, <1>3, RequestMakes
<1>5. OpenIsUnsent' /\ CallIsUnsent'
  <2>1. ASSUME NEW d \in Orders, worker[d].pc = "open"
        PROVE  dedicated[d].op \in Ops /\ dedicated[d].op # o
    <3>1. d \in Pro20 /\ dedicated[d].op \in Ops
      BY <2>1 DEF IInv, Books, DeskOK, WorkersHaveOps
    <3>2. money[dedicated[d].op].action = "pro_open"
      BY <3>1 DEF IInv, Books, DeskOK, OrdersHaveOps
    <3> QED
      BY <1>2, <3>1, <3>2 DEF Treasury
  <2> QED
    BY <1>1, <1>4, <2>1 DEF OpenIsUnsent, CallIsUnsent, RequestsOK
<1>6. RequestsOK' /\ MadeStays
  <2>1. money[o].action # "pro5x_pay_fee" /\ ActionsKept
    BY <1>1, <1>2 DEF Treasury, ActionsKept
  <2> QED
    BY <1>0, <1>4, <1>5, <2>1, RequestsSent
<1>7. AnswersOK'
  <2>1. BindIsMade'
    <3> SUFFICES ASSUME NEW d \in Orders, worker[d].pc = "bind"
                 PROVE  worker[d].card # NoCard /\ worker[d].card = made'[dedicated[d].op]
      BY <1>1 DEF BindIsMade
    <3>1. worker[d].card # NoCard /\ worker[d].card = made[dedicated[d].op]
      BY DEF AnswersOK, BindIsMade
    <3>2. dedicated[d].op \in Ops
      BY DEF IInv, Books, DeskOK, WorkersHaveOps
    <3> QED
      BY <1>6, <3>1, <3>2 DEF MadeStays
  <2> QED
    BY <1>1, <1>6, <2>1, AnswersKept
<1>8. ListsAreSpare' /\ RowsAreSpare'
  <2>1. /\ pool' \subseteq pool \cup {k \in Cards : Spare(k)}
        /\ treasurer'.enrolled \subseteq treasurer.enrolled \cup pool
    BY <1>1
  <2> QED
    BY <1>0, <1>1, <2>1, <1>6, ListsKept, RowsKept
<1>9. CardTaken' /\ CardGivenBack' /\ PlanSpares'
  BY <1>1, OrdersHoldCards, NoPlanSpares
<1> QED
  BY <1>6, <1>7, <1>8, <1>9

LEMMA OutcomeSpares == ASSUME IInv, PInv, RecordOutcome PROVE PInv'
<1> USE DEF PInv
<1>0. TypeOK /\ treasurer \in Treasurer /\ reserve \in Reserve
  BY DEF IInv, Books, TypeOK
<1>1. /\ charge' = charge /\ made' = made /\ worker' = worker /\ code' = code
      /\ dedicated' = dedicated /\ used' = used /\ pool' = pool
  BY DEF RecordOutcome, elsewhere
<1>2. PICK o \in Ops : o = treasurer.op /\ money[o].action \in Treasury
  BY DEF RecordOutcome, TreasurerAt, IInv, Books, CycleOK, TreasurerHasOp
<1>3. treasurer'.pc \in {"idle", "mark"} /\ treasurer'.enrolled \in {treasurer.enrolled, {}}
  BY <1>0, RestForgets DEF RecordOutcome, Treasurer
<1>4. ActionsKept /\ \A p \in Ops : money'[p].result \in {money[p].result, made[p]}
  BY <1>0, OutcomeKeeps
<1>5. RequestsOK' /\ MadeStays
  <2>1. CallIsUnsent' /\ OpenIsUnsent'
    BY <1>1, <1>3 DEF RequestsOK, CallIsUnsent, OpenIsUnsent
  <2> QED
    BY <1>1, <1>4, <2>1, RequestsKept DEF ActionsKept
<1>6. AnswersOK'
  <2>1. BindIsMade'
    BY <1>1 DEF AnswersOK, BindIsMade
  <2> QED
    BY <1>4, <1>5, <2>1, AnswersKept
<1>7. ListsAreSpare'
  <2>1. /\ pool' \subseteq pool \cup {c \in Cards : Spare(c)}
        /\ treasurer'.enrolled \subseteq treasurer.enrolled \cup pool
    BY <1>1, <1>3
  <2> QED
    BY <1>0, <1>1, <2>1, <1>5, ListsKept
<1>8. reserve'.card \in {reserve.card, NoCard} \/ Spare(reserve'.card)
  <2>1. reserve'.card \in {reserve.card, made[o]}
    BY <1>0, <1>2 DEF RecordOutcome, Reserve
  <2>2. made[o] # NoCard => money[o].action \in {"open", "pro5x_reserve_open"}
    BY <1>2 DEF RequestsOK, MadeByOpenings, Treasury, Openings
  <2>3. made[o] # NoCard => Spare(made[o])
    BY <2>2 DEF Spare
  <2> QED
    BY <2>1, <2>3
<1>9. RowsAreSpare'
  BY <1>0, <1>1, <1>5, <1>8, RowsKept
<1>10. CardTaken' /\ CardGivenBack' /\ PlanSpares'
  BY <1>1, <1>3, OrdersHoldCards, NoPlanSpares
<1> QED
  BY <1>5, <1>6, <1>7, <1>9, <1>10

LEMMA TreasurerStepSpares == ASSUME IInv, IInv', PInv, TreasurerStep PROVE PInv'
  BY CycleSpares, ChooseSpares, VerifySpares, ReconcileSpares, SpendSpares, CallSpares,
     OutcomeSpares DEF TreasurerStep

------------------------------------------------------------------------------
\* The orders' steps.

LEMMA UsedKept ==
  ASSUME TypeOK, MadeStays, ListsAreSpare, pool' = pool, treasurer'.enrolled \subseteq treasurer.enrolled,
         \A i \in DOMAIN used' : used'[i] \in Cards /\ Spare(used'[i])
  PROVE  ListsAreSpare'
<1>0. /\ NoCard \notin Cards /\ pool \subseteq Cards /\ treasurer.enrolled \subseteq Cards
  BY ConstantTypes DEF TypeOK, Treasurer
<1>1. \A c \in Cards : Spare(c) => Spare(c)'
  BY <1>0, SpareStays
<1> QED
  BY <1>0, <1>1 DEF ListsAreSpare

\* The cards of the orders that are being opened are nobody else's.
LEMMA BoughtIsNotPlanned ==
  ASSUME IInv, PInv, NEW d \in Orders, worker[d].pc = "bind",
         treasurer.pc = "insert", treasurer.plan.action = "topup"
  PROVE  worker[d].card # treasurer.plan.card
<1>1. d \in Pro20 /\ dedicated[d].op \in Ops
  BY DEF IInv, Books, DeskOK, WorkersHaveOps
<1>2. money[dedicated[d].op].action = "pro_open"
  BY <1>1 DEF IInv, Books, DeskOK, OrdersHaveOps
<1>3. worker[d].card # NoCard /\ worker[d].card = made[dedicated[d].op]
  BY DEF PInv, AnswersOK, BindIsMade
<1>4. ~Spare(made[dedicated[d].op])
  BY <1>1, <1>2, <1>3, SpareIsNotBought DEF PInv
<1>5. Spare(treasurer.plan.card)
  BY DEF PInv, PlanSpares
<1> QED
  BY <1>3, <1>4, <1>5

\* A step of one order that sends no request to open a card.
OrderMoved(d) ==
  /\ \A e \in Orders \ {d} : worker'[e] = worker[e] /\ dedicated'[e] = dedicated[e] /\ code'[e] = code[e]
  /\ dedicated'[d].op = dedicated[d].op
  /\ worker'[d].pc = "bind" => worker'[d] = worker[d]
  /\ worker'[d].pc = "open" => charge[dedicated[d].op] = "unsent"
  /\ d \in Pro5 => /\ code'[d].card = code[d].card
                   /\ dedicated'[d].state = "completed" => dedicated'[d].card = NoCard
                   /\ \/ dedicated[d].op \in Ops \/ dedicated[d].state # "none"
                      \/ dedicated'[d].state = "none"
  /\ \/ dedicated'[d].card \in {dedicated[d].card, NoCard}
     \/ worker[d].pc = "bind" /\ dedicated'[d].card = worker[d].card

LEMMA OrderSpares ==
  ASSUME IInv, PInv, NEW d \in Orders, OrderMoved(d), ActionsKept,
         treasurer' = treasurer, pool' = pool, reserve' = reserve, charge' = charge, made' = made,
         \A p \in Ops : money'[p].result \in {NoCard, money[p].result, made[p]},
         \A i \in DOMAIN used' : used'[i] \in Cards /\ Spare(used'[i])
  PROVE  PInv'
<1> USE DEF PInv, OrderMoved
<1>0. TypeOK /\ PlanIsWhole /\ \A e \in Pro5 : e \in Orders
  BY DEF IInv, Books, CycleOK, Orders
<1>1. RequestsOK' /\ MadeStays
  <2>1. CallIsUnsent' /\ OpenIsUnsent'
    BY DEF RequestsOK, CallIsUnsent, OpenIsUnsent
  <2> QED
    BY <2>1, RequestsKept DEF ActionsKept
<1>2. AnswersOK'
  <2>1. BindIsMade'
    BY DEF AnswersOK, BindIsMade
  <2> QED
    BY <1>1, <2>1, AnswersKept
<1>3. ListsAreSpare'
  BY <1>0, <1>1, UsedKept
<1>4. RowsAreSpare'
  <2>1. \A e \in Pro5 : code'[e].card = code[e].card
    BY <1>0
  <2> QED
    BY <1>0, <1>1, <2>1, RowsKept
<1>5. CardTaken' /\ CardGivenBack'
  BY <1>0 DEF CardTaken, CardGivenBack
<1>6. PlanSpares'
  <2>1. ASSUME treasurer.pc = "insert", treasurer.plan.action = "topup", NEW e \in Orders,
               dedicated'[e].card = treasurer.plan.card
        PROVE  dedicated[e].card = treasurer.plan.card
    <3>1. CASE e # d
      BY <2>1, <3>1
    <3>2. CASE e = d
      <4>1. treasurer.plan.card # NoCard
        BY <1>0, <2>1, ConstantTypes DEF PlanIsWhole
      <4>2. worker[d].pc = "bind" => worker[d].card # treasurer.plan.card
        BY <2>1, BoughtIsNotPlanned
      <4> QED
        BY <2>1, <3>2, <4>1, <4>2
    <3> QED
      BY <3>1, <3>2
  <2> QED
    BY <1>0, <1>1, <2>1, PlanKept
<1> QED
  BY <1>1, <1>2, <1>3, <1>4, <1>5, <1>6

LEMMA SameUsed == ASSUME TypeOK, PInv, used' = used
                  PROVE  \A i \in DOMAIN used' : used'[i] \in Cards /\ Spare(used'[i])
  BY DEF TypeOK, PInv, ListsAreSpare

\* A failing order has not completed: it has no card to give back.
LEMMA FailingMoves ==
  ASSUME IInv, PInv, NEW d \in Orders, NEW state, FailWith(d, state), worker[d].pc # "idle"
  PROVE  /\ OrderMoved(d) /\ FieldsKept /\ used' = used
         /\ treasurer' = treasurer /\ pool' = pool /\ reserve' = reserve
<1>0. TypeOK /\ dedicated[d] \in Dedicated /\ code[d] \in Code
  BY DEF IInv, Books, TypeOK
<1>1. /\ used' = used /\ treasurer' = treasurer /\ pool' = pool /\ reserve' = reserve
      /\ dedicated' = dedicated \/ dedicated' = [dedicated EXCEPT ![d].state = "review"]
      /\ code' = code \/ code' = [code EXCEPT ![d].status = "review"]
      /\ worker' = [worker EXCEPT ![d] = IdleWorker]
  BY DEF FailWith, aside, WorkerEnds
<1>2. worker'[d].pc = "idle" /\ \A e \in Orders \ {d} : worker'[e] = worker[e]
  BY <1>0, <1>1 DEF TypeOK, IdleWorker
<1>3. /\ dedicated'[d].op = dedicated[d].op /\ dedicated'[d].card = dedicated[d].card
      /\ dedicated'[d].state \in {dedicated[d].state, "review"} /\ code'[d].card = code[d].card
      /\ \A e \in Orders \ {d} : dedicated'[e] = dedicated[e] /\ code'[e] = code[e]
  BY <1>0, <1>1 DEF TypeOK, Dedicated, Code
<1>4. dedicated[d].op \in Ops
  BY DEF IInv, Books, DeskOK, WorkersHaveOps
<1>5. d \in Pro5 /\ dedicated[d].state = "completed" => dedicated[d].card = NoCard
  BY DEF PInv, CardGivenBack
<1> QED
  BY <1>0, <1>1, <1>2, <1>3, <1>4, <1>5, FailWithKeeps DEF OrderMoved

LEMMA FailSpares == ASSUME IInv, PInv, NEW d \in Orders, Fail(d) PROVE PInv'
<1>1. FailWith(d, SpentWhenFailing(d)) /\ worker[d].pc # "idle" /\ charge' = charge /\ made' = made
  BY DEF Fail, platformSame
<1>2. /\ OrderMoved(d) /\ FieldsKept /\ used' = used
      /\ treasurer' = treasurer /\ pool' = pool /\ reserve' = reserve
  BY <1>1, FailingMoves
<1> QED
  BY <1>1, <1>2, OrderSpares, SameUsed DEF FieldsKept, ActionsKept, IInv, Books

LEMMA PaySpares == ASSUME IInv, PInv, NEW d \in Orders, NEW ok \in BOOLEAN, Pay(d, ok) PROVE PInv'
<1>0. charge' = charge /\ made' = made /\ worker[d].pc = "pay" /\ TypeOK
  BY DEF Pay, WorkerAt, IInv, Books
<1>1. /\ OrderMoved(d) /\ FieldsKept /\ used' = used
      /\ treasurer' = treasurer /\ pool' = pool /\ reserve' = reserve
  <2>1. CASE ok
    <3>1. /\ worker' = [worker EXCEPT ![d] = IdleWorker] /\ money' = money /\ code' = code
          /\ dedicated' = dedicated /\ used' = used /\ treasurer' = treasurer /\ pool' = pool
          /\ reserve' = reserve
      BY <2>1 DEF Pay, WorkerEnds, aside
    <3>2. worker'[d].pc = "idle" /\ \A e \in Orders \ {d} : worker'[e] = worker[e]
      BY <1>0, <3>1 DEF TypeOK, IdleWorker
    <3>3. d \in Pro5 /\ dedicated[d].state = "completed" => dedicated[d].card = NoCard
      BY DEF PInv, CardGivenBack
    <3>4. dedicated[d].op \in Ops
      BY <1>0 DEF IInv, Books, DeskOK, WorkersHaveOps
    <3> QED
      BY <3>1, <3>2, <3>3, <3>4 DEF OrderMoved, FieldsKept
  <2>2. CASE ~ok
    <3>1. FailWith(d, "balance_verified")
      BY <2>2 DEF Pay
    <3> QED
      BY <1>0, <3>1, FailingMoves
  <2> QED
    BY <2>1, <2>2
<1> QED
  BY <1>0, <1>1, OrderSpares, SameUsed DEF FieldsKept, ActionsKept

LEMMA PreparingSpares ==
  ASSUME IInv, PInv, NEW d \in Orders,
         GoOn(d) \/ BindCard(d) \/ SeeBalance(d) \/ Submit(d)
  PROVE  PInv'
<1>0. TypeOK /\ dedicated[d] \in Dedicated /\ code[d] \in Code /\ worker[d] \in Worker
  BY DEF IInv, Books, TypeOK
<1>1. /\ used' = used /\ treasurer' = treasurer /\ pool' = pool /\ reserve' = reserve
      /\ charge' = charge /\ made' = made
      /\ worker[d].pc \in {"check", "bind", "poll", "verified"}
  BY DEF GoOn, BindCard, SeeBalance, Submit, WorkerAt, aside, platformSame
<1>2. dedicated[d].op \in Ops /\ (worker[d].pc \in {"bind", "poll"} => d \in Pro20 /\ d \notin Pro5)
  BY <1>1, ConstantTypes DEF IInv, Books, DeskOK, WorkersHaveOps
<1>3. /\ \A e \in Orders \ {d} : worker'[e] = worker[e] /\ dedicated'[e] = dedicated[e]
                                 /\ code'[e] = code[e]
  BY <1>0 DEF GoOn, BindCard, SeeBalance, Submit, WorkerGoes, TypeOK
<1>4. OrderMoved(d)
  <2>1. CASE GoOn(d)
    <3>1. dedicated' = dedicated /\ code' = code /\ worker[d].pc = "check"
          /\ worker'[d].pc = IF d \in Pro20 THEN "open" ELSE "verified"
      BY <1>0, <2>1 DEF GoOn, WorkerAt, WorkerGoes, TypeOK, Worker
    <3>2. d \in Pro20 => charge[dedicated[d].op] = "unsent"
      BY <3>1 DEF IInv, Books, DeskOK, CheckIsUnsent
    <3>3. d \in Pro5 /\ dedicated[d].state = "completed" => dedicated[d].card = NoCard
      BY DEF PInv, CardGivenBack
    <3> QED
      BY <1>2, <1>3, <3>1, <3>2, <3>3 DEF OrderMoved
  <2>2. CASE BindCard(d)
    <3>1. /\ worker[d].pc = "bind" /\ worker'[d].pc = "poll"
          /\ dedicated'[d].op = dedicated[d].op /\ dedicated'[d].card = worker[d].card
      BY <1>0, <2>2 DEF BindCard, WorkerAt, WorkerGoes, TypeOK, Worker, Dedicated
    <3> QED
      BY <1>2, <1>3, <3>1 DEF OrderMoved
  <2>3. CASE SeeBalance(d)
    <3>1. dedicated' = dedicated /\ code' = code /\ worker[d].pc = "poll" /\ worker'[d].pc = "verified"
      BY <1>0, <2>3 DEF SeeBalance, WorkerAt, WorkerGoes, TypeOK, Worker
    <3> QED
      BY <1>2, <1>3, <3>1 DEF OrderMoved
  <2>4. CASE Submit(d)
    <3>1. /\ worker'[d].pc = "pay" /\ code'[d].card = code[d].card
          /\ dedicated'[d].op = dedicated[d].op /\ dedicated'[d].card = dedicated[d].card
          /\ dedicated'[d].state = "submitted"
      BY <1>0, <2>4 DEF Submit, WorkerGoes, TypeOK, Worker, Dedicated, Code
    <3> QED
      BY <1>2, <1>3, <3>1 DEF OrderMoved
  <2> QED
    BY <2>1, <2>2, <2>3, <2>4
<1>5. ActionsKept /\ \A p \in Ops : money'[p].result \in {NoCard, money[p].result, made[p]}
  <2>1. CASE GoOn(d) \/ Submit(d)
    BY <2>1 DEF GoOn, Submit, ActionsKept
  <2>2. CASE BindCard(d)
    <3>1. worker[d].card = made[dedicated[d].op]
      BY <2>2 DEF BindCard, WorkerAt, PInv, AnswersOK, BindIsMade
    <3> QED
      BY <1>0, <2>2, <3>1, BindKeeps
  <2>3. CASE SeeBalance(d)
    BY <1>0, <2>3, SetStateKeeps DEF SeeBalance, ActionsKept
  <2> QED
    BY <2>1, <2>2, <2>3
<1> QED
  BY <1>0, <1>1, <1>4, <1>5, OrderSpares, SameUsed

\* The list of used cards after a completion has the cards it had, and the order's.
LEMMA MovedToFrontHas ==
  ASSUME TypeOK, NEW c \in Cards
  PROVE  \A i \in DOMAIN MovedToFront(c) :
           MovedToFront(c)[i] = c \/ \E j \in DOMAIN used : MovedToFront(c)[i] = used[j]
<1>1. used \in Seq(Cards) /\ <<c>> \in Seq(Cards) /\ Len(<<c>>) = 1 /\ <<c>>[1] = c
  BY DEF TypeOK
<1>2. ASSUME NEW s \in Seq(Cards), \A i \in DOMAIN s : \E j \in DOMAIN used : s[i] = used[j]
      PROVE  \A i \in DOMAIN (<<c>> \o s) :
               (<<c>> \o s)[i] = c \/ \E j \in DOMAIN used : (<<c>> \o s)[i] = used[j]
  <2> TAKE i \in DOMAIN (<<c>> \o s)
  <2>1. i \in 1 .. Len(s) + 1 /\ Len(s) \in Nat
    BY <1>1
  <2>2. CASE i = 1
    BY <1>1, <2>2
  <2>3. CASE i # 1
    <3>1. (<<c>> \o s)[i] = s[i - 1] /\ i - 1 \in DOMAIN s
      BY <1>1, <2>1, <2>3
    <3> QED
      BY <1>2, <3>1
  <2> QED
    BY <2>2, <2>3
<1>3. ASSUME \E i \in DOMAIN used : used[i] = c
      PROVE  /\ Without(c) \in Seq(Cards)
             /\ \A i \in DOMAIN Without(c) : \E j \in DOMAIN used : Without(c)[i] = used[j]
  <2> DEFINE k == CHOOSE i \in DOMAIN used : used[i] = c
             a == SubSeq(used, 1, k - 1)
             b == SubSeq(used, k + 1, Len(used))
  <2>1. k \in DOMAIN used
    BY <1>3
  <2>2. Without(c) = a \o b
    BY DEF Without
  <2> HIDE DEF k
  <2>3. k \in 1 .. Len(used) /\ Len(used) \in Nat
    BY <1>1, <2>1
  <2>4. /\ a \in Seq(Cards) /\ Len(a) = k - 1 /\ \A i \in 1 .. k - 1 : a[i] = used[i]
        /\ b \in Seq(Cards) /\ Len(b) = Len(used) - k
        /\ \A i \in 1 .. Len(used) - k : b[i] = used[k + i]
    BY <1>1, <2>3
  <2> HIDE DEF a, b
  <2>5. ASSUME NEW i \in DOMAIN (a \o b) PROVE \E j \in DOMAIN used : (a \o b)[i] = used[j]
    <3>1. i \in 1 .. Len(a) + Len(b)
      BY <2>4, <2>5
    <3>2. CASE i <= Len(a)
      <4>1. (a \o b)[i] = used[i] /\ i \in DOMAIN used
        BY <1>1, <2>3, <2>4, <3>1, <3>2
      <4> QED
        BY <4>1
    <3>3. CASE ~(i <= Len(a))
      <4>1. (a \o b)[i] = b[i - (k - 1)] /\ i - (k - 1) \in 1 .. Len(used) - k
        BY <2>3, <2>4, <3>1, <3>3
      <4>2. (a \o b)[i] = used[k + (i - (k - 1))] /\ k + (i - (k - 1)) \in DOMAIN used
        <5>1. k + (i - (k - 1)) \in DOMAIN used
          BY <1>1, <2>3, <4>1
        <5> QED
          BY <2>4, <4>1, <5>1
      <4> QED
        BY <4>2
    <3> QED
      BY <3>2, <3>3
  <2> QED
    BY <2>2, <2>4, <2>5
<1> QED
  BY <1>1, <1>2, <1>3 DEF MovedToFront

LEMMA WatcherSpares ==
  ASSUME IInv, PInv, NEW d \in Orders, PlaceUnheard(d) \/ RecordCompleted(d) \/ RecordFailed(d)
  PROVE  PInv'
<1>0. TypeOK /\ dedicated[d] \in Dedicated /\ code[d] \in Code /\ \A e \in Orders : worker[e] \in Worker
  BY DEF IInv, Books, TypeOK
<1>1. /\ treasurer' = treasurer /\ pool' = pool /\ reserve' = reserve /\ worker' = worker
      /\ charge' = charge /\ made' = made /\ money' = money
  BY DEF PlaceUnheard, RecordCompleted, RecordFailed, aside, platformSame
<1>2. /\ \A e \in Orders \ {d} : dedicated'[e] = dedicated[e] /\ code'[e] = code[e]
      /\ dedicated'[d].op = dedicated[d].op /\ code'[d].card = code[d].card
      /\ dedicated'[d].card \in {dedicated[d].card, NoCard}
      /\ dedicated'[d].state = "none" <=> dedicated[d].state = "none"
  <2>1. CASE PlaceUnheard(d)
    BY <2>1 DEF PlaceUnheard
  <2>2. CASE RecordCompleted(d)
    <3>1. \E st, c : /\ dedicated' = [dedicated EXCEPT ![d] =
                                        [dedicated[d] EXCEPT !.state = st, !.card = c]]
                     /\ c \in {dedicated[d].card, NoCard}
                     /\ st = IF dedicated[d].state \in {"submitted", "completed"}
                             THEN "completed" ELSE dedicated[d].state
      BY <1>0, <2>2 DEF RecordCompleted, TypeOK
    <3>2. PICK st, c : /\ dedicated' = [dedicated EXCEPT ![d] =
                                          [dedicated[d] EXCEPT !.state = st, !.card = c]]
                       /\ c \in {dedicated[d].card, NoCard}
                       /\ st = IF dedicated[d].state \in {"submitted", "completed"}
                               THEN "completed" ELSE dedicated[d].state
      BY <3>1
    <3>3. code' = [code EXCEPT ![d].status = "consumed"]
      BY <2>2 DEF RecordCompleted
    <3>4. LET n == [dedicated[d] EXCEPT !.state = st, !.card = c]
          IN  n.op = dedicated[d].op /\ n.card = c /\ n.state = st
      BY <1>0 DEF Dedicated
    <3>5. dedicated'[d] = [dedicated[d] EXCEPT !.state = st, !.card = c]
          /\ \A e \in Orders \ {d} : dedicated'[e] = dedicated[e]
      BY <1>0, <3>2 DEF TypeOK
    <3>6. code'[d].card = code[d].card /\ \A e \in Orders \ {d} : code'[e] = code[e]
      BY <1>0, <3>3 DEF TypeOK, Code
    <3> QED
      BY <3>2, <3>4, <3>5, <3>6
  <2>3. CASE RecordFailed(d)
    <3>1. /\ code' = [code EXCEPT ![d].status = "failed"]
          /\ dedicated' = [dedicated EXCEPT ![d] = [dedicated[d] EXCEPT !.state =
               IF dedicated[d].state \in {"submitted", "completed"} THEN "failed" ELSE dedicated[d].state]]
      BY <1>0, <2>3 DEF RecordFailed, TypeOK
    <3> QED
      BY <1>0, <3>1 DEF TypeOK, Dedicated, Code
  <2> QED
    BY <2>1, <2>2, <2>3
<1>3. d \in Pro5 /\ dedicated'[d].state = "completed" => dedicated'[d].card = NoCard
  <2>1. CASE PlaceUnheard(d)
    BY <2>1 DEF PlaceUnheard, PInv, CardGivenBack
  <2>2. CASE RecordFailed(d)
    <3>1. dedicated'[d].state # "completed"
      BY <1>0, <2>2 DEF RecordFailed, TypeOK, Dedicated
    <3> QED
      BY <3>1
  <2>3. ASSUME RecordCompleted(d), d \in Pro5, dedicated'[d].state = "completed"
        PROVE  dedicated'[d].card = NoCard
    <3>1. dedicated[d].state \in {"submitted", "completed"}
      BY <1>0, <2>3 DEF RecordCompleted, TypeOK, Dedicated
    <3>2. code[d].card # NoCard
      BY <2>3, <3>1 DEF PInv, CardTaken
    <3> QED
      BY <1>0, <2>3, <3>1, <3>2 DEF RecordCompleted, TypeOK, Dedicated
  <2> QED
    BY <2>1, <2>2, <2>3
<1>4. \A i \in DOMAIN used' : used'[i] \in Cards /\ Spare(used'[i])
  <2>1. CASE used' = used
    BY <1>0, <2>1, SameUsed
  <2>2. CASE used' # used
    <3>1. d \in Pro5 /\ code[d].card # NoCard /\ used' = MovedToFront(code[d].card)
      BY <2>2 DEF PlaceUnheard, RecordCompleted, RecordFailed
    <3>2. code[d].card \in Cards /\ Spare(code[d].card)
      BY <1>0, <3>1 DEF Code, PInv, RowsAreSpare
    <3>3. \A j \in DOMAIN used : used[j] \in Cards /\ Spare(used[j])
      BY <1>0 DEF TypeOK, PInv, ListsAreSpare
    <3> QED
      BY <1>0, <3>1, <3>2, <3>3, MovedToFrontHas
  <2> QED
    BY <2>1, <2>2
<1>5. ActionsKept /\ \A p \in Ops : money'[p].result \in {NoCard, money[p].result, made[p]}
  BY <1>1 DEF ActionsKept
<1>6. OrderMoved(d)
  <2>1. worker[d].pc = "open" => charge[dedicated[d].op] = "unsent"
    BY DEF PInv, RequestsOK, OpenIsUnsent
  <2> QED
    BY <1>1, <1>2, <1>3, <2>1 DEF OrderMoved
<1> QED
  BY <1>1, <1>4, <1>5, <1>6, OrderSpares


\* Taking an order records an operation that has not been sent.
LEMMA RecordedUnsent ==
  ASSUME IInv, PInv, NEW d \in Orders, NEW o \in Ops, StartPro20(d, o) \/ ClaimReserve(d, o)
  PROVE  /\ charge[o] = "unsent" /\ made[o] = NoCard
         /\ \A p \in Ops \ {o} : money'[p] = money[p]
         /\ money'[o].result = NoCard
<1>0. TypeOK
  BY DEF IInv, Books
<1>1. charge[o] = "unsent"
  BY DEF StartPro20, ClaimReserve, Fresh, IInv, ChargesOK, UnrecordedIsUnsent
<1>2. money'[o].result = NoCard /\ \A p \in Ops \ {o} : money'[p] = money[p]
  <2>1. CASE ClaimReserve(d, o)
    BY <1>0, <2>1 DEF ClaimReserve, Record, TypeOK
  <2>2. CASE StartPro20(d, o)
    <3>1. \E cost : money' = Record(o, "pro_open", NoCard, ProInitial, cost, 0, clock)
      BY <2>2 DEF StartPro20
    <3> QED
      BY <1>0, <3>1, RecordIs
  <2> QED
    BY <2>1, <2>2
<1> QED
  BY <1>1, <1>2 DEF PInv, RequestsOK, UnsentIsUnmade

LEMMA TakingSpares ==
  ASSUME IInv, PInv, NEW d \in Orders, NEW o \in Ops, StartPro20(d, o) \/ ClaimReserve(d, o)
  PROVE  PInv'
<1> USE DEF PInv
<1>0. /\ TypeOK /\ PlanIsWhole /\ dedicated[d] \in Dedicated /\ code[d] \in Code
      /\ reserve.card \in Cards \cup {NoCard}
  BY DEF IInv, Books, CycleOK, TypeOK, Reserve
<1>1. treasurer' = treasurer /\ pool' = pool /\ used' = used /\ charge' = charge /\ made' = made
  BY DEF StartPro20, ClaimReserve, aside, platformSame
<1>2. /\ charge[o] = "unsent" /\ made[o] = NoCard
      /\ \A p \in Ops \ {o} : money'[p] = money[p]
      /\ money'[o].result = NoCard
  BY RecordedUnsent
<1>3. /\ \A e \in Orders \ {d} : worker'[e] = worker[e] /\ dedicated'[e] = dedicated[e]
                                 /\ code'[e] = code[e]
      /\ worker'[d].pc = "check"
      /\ \/ d \in Pro20 /\ dedicated'[d].card = NoCard /\ reserve' = reserve
         \/ /\ d \in Pro5 /\ reserve.card # NoCard /\ reserve.state = "ready"
            /\ dedicated'[d].card = reserve.card /\ dedicated'[d].state = "funding"
            /\ code'[d].card = reserve.card
            /\ reserve' = EmptyReserve
  <2>1. CASE StartPro20(d, o)
    BY <1>0, <2>1 DEF StartPro20, TypeOK
  <2>2. CASE ClaimReserve(d, o)
    <3>1. code'[d].card = reserve.card
      BY <1>0, <2>2 DEF ClaimReserve, TypeOK, Code
    <3> QED
      BY <1>0, <2>2, <3>1 DEF ClaimReserve, TypeOK
  <2> QED
    BY <2>1, <2>2
<1>4. d \in Pro5 => d \notin Pro20 /\ \A e \in Pro5 : e \in Orders
  BY ConstantTypes DEF Orders
<1>5. RequestsOK' /\ MadeStays
  <2>1. CallIsUnsent'
    BY <1>1 DEF RequestsOK, CallIsUnsent
  <2>2. OpenIsUnsent'
    BY <1>1, <1>3 DEF RequestsOK, OpenIsUnsent
  <2> QED
    BY <1>1, <1>2, <2>1, <2>2, RequestsKept
<1>6. AnswersOK'
  <2>1. BindIsMade'
    BY <1>1, <1>3 DEF AnswersOK, BindIsMade
  <2> QED
    BY <1>2, <1>5, <2>1, AnswersKept
<1>7. ListsAreSpare'
  <2>1. /\ pool' \subseteq pool \cup {c \in Cards : Spare(c)}
        /\ treasurer'.enrolled \subseteq treasurer.enrolled \cup pool
    BY <1>1
  <2> QED
    BY <1>0, <1>1, <1>5, <2>1, ListsKept
<1>8. RowsAreSpare'
  <2>1. reserve'.card \in {reserve.card, NoCard}
    BY <1>3 DEF EmptyReserve
  <2>2. \A e \in Pro5 : code'[e].card = code[e].card \/ Spare(code'[e].card)
    BY <1>3, <1>4 DEF RowsAreSpare, Orders
  <2> QED
    BY <1>0, <1>5, <2>1, <2>2, RowsKept
<1>9. CardTaken' /\ CardGivenBack'
  <2>1. \A e \in Pro5 : e \in Orders
    BY DEF Orders
  <2>2. d \in Pro5 => d \notin Pro20
    BY <1>4
  <2> QED
    BY <1>3, <2>1, <2>2 DEF CardTaken, CardGivenBack
<1>10. PlanSpares'
  <2>1. ASSUME treasurer.pc = "insert", treasurer.plan.action = "topup", NEW e \in Orders,
               dedicated'[e].card = treasurer.plan.card
        PROVE  dedicated[e].card = treasurer.plan.card
    <3>1. CASE e # d
      BY <1>3, <2>1, <3>1
    <3>2. CASE e = d
      <4>1. treasurer.plan.card # NoCard
        BY <1>0, <2>1, ConstantTypes DEF PlanIsWhole
      <4>2. reserve.state = "ready" => reserve.card # treasurer.plan.card
        BY <2>1 DEF PlanSpares, Prepared
      <4> QED
        BY <1>3, <2>1, <3>2, <4>1, <4>2
    <3> QED
      BY <3>1, <3>2
  <2>2. reserve' = reserve \/ reserve'.state = "empty"
    BY <1>3 DEF EmptyReserve
  <2> QED
    BY <1>0, <1>1, <1>5, <2>1, <2>2, PlanKept
<1> QED
  BY <1>5, <1>6, <1>7, <1>8, <1>9, <1>10

\* Opening the order's card: what the platform made is what the worker goes on with.
LEMMA OpenCardSpares ==
  ASSUME IInv, PInv, NEW d \in Orders, NEW ok \in BOOLEAN, NEW c \in Cards \cup {NoCard},
         OpenCard(d, ok, c)
  PROVE  PInv'
<1> USE DEF PInv
<1>0. /\ TypeOK /\ PlanIsWhole /\ worker[d].pc = "open" /\ worker[d] \in Worker
  BY DEF OpenCard, WorkerAt, IInv, Books, CycleOK, TypeOK
<1>1. PICK o \in Ops : o = dedicated[d].op /\ d \in Pro20 /\ money[o].action = "pro_open"
  BY <1>0 DEF IInv, Books, DeskOK, WorkersHaveOps, OrdersHaveOps
<1>2. charge[o] = "unsent" /\ Requested(o, ok, c)
  BY <1>0, <1>1 DEF OpenCard, RequestsOK, OpenIsUnsent
<1>3. /\ made' = made \/ Opens(o)
      /\ charge'[o] # "unsent" /\ \A p \in Ops \ {o} : charge'[p] = charge[p]
      /\ ok => made'[o] = c /\ c \in Cards
  BY <1>0, <1>1, <1>2, RequestMakes DEF Openings
<1>4. /\ treasurer' = treasurer /\ pool' = pool /\ used' = used /\ reserve' = reserve
      /\ FieldsKept
      /\ \A e \in Orders \ {d} : worker'[e] = worker[e] /\ dedicated'[e] = dedicated[e]
                                 /\ code'[e] = code[e]
      /\ dedicated'[d].op = o /\ dedicated'[d].card = dedicated[d].card
      /\ ok => worker'[d].pc = "bind" /\ worker'[d].card = c
      /\ ~ok => worker'[d].pc = "idle"
  <2>1. CASE ok
    BY <1>0, <1>1, <2>1 DEF OpenCard, aside, FieldsKept, TypeOK, Worker
  <2>2. CASE ~ok
    <3>1. FailWith(d, "unknown") /\ worker[d].pc # "idle"
      BY <1>0, <2>2 DEF OpenCard
    <3>2. /\ dedicated' = dedicated \/ dedicated' = [dedicated EXCEPT ![d].state = "review"]
          /\ worker' = [worker EXCEPT ![d] = IdleWorker]
      BY <3>1 DEF FailWith, WorkerEnds
    <3>3. worker'[d].pc = "idle"
      BY <1>0, <3>2 DEF TypeOK, IdleWorker
    <3>4. dedicated'[d].op = o /\ dedicated'[d].card = dedicated[d].card
      BY <1>0, <1>1, <3>2 DEF TypeOK, Dedicated
    <3> QED
      BY <2>2, <3>1, <3>3, <3>4, FailingMoves DEF OrderMoved
  <2> QED
    BY <2>1, <2>2
<1>5. \A e \in Orders \ {d} : worker[e].pc = "open" => dedicated[e].op \in Ops \ {o}
  BY <1>1 DEF IInv, Books, DeskOK, WorkersHaveOps, OrdersApart
<1>6. CallIsUnsent' /\ OpenIsUnsent'
  <2>1. treasurer.pc = "call" => treasurer.op \in Ops \ {o}
    BY <1>1 DEF IInv, Books, CycleOK, TreasurerHasOp, Treasury
  <2>2. CallIsUnsent'
    BY <1>3, <1>4, <2>1 DEF RequestsOK, CallIsUnsent
  <2>3. OpenIsUnsent'
    BY <1>3, <1>4, <1>5 DEF RequestsOK, OpenIsUnsent
  <2> QED
    BY <2>2, <2>3
<1>7. RequestsOK' /\ MadeStays
  <2>1. ActionsKept /\ money[o].action # "pro5x_pay_fee"
    BY <1>1, <1>4 DEF FieldsKept, ActionsKept
  <2> QED
    BY <1>0, <1>3, <1>6, <2>1, RequestsSent
<1>8. AnswersOK'
  <2>1. BindIsMade'
    <3> SUFFICES ASSUME NEW e \in Orders, worker'[e].pc = "bind"
                 PROVE  worker'[e].card # NoCard /\ worker'[e].card = made'[dedicated'[e].op]
      BY DEF BindIsMade
    <3>1. CASE e = d
      <4>1. c # NoCard
        BY <1>3, <1>4, <3>1, ConstantTypes
      <4> QED
        BY <1>3, <1>4, <3>1, <4>1
    <3>2. CASE e # d
      <4>1. /\ worker'[e] = worker[e] /\ dedicated'[e] = dedicated[e]
            /\ worker[e].card # NoCard /\ worker[e].card = made[dedicated[e].op]
        BY <1>4, <3>2 DEF AnswersOK, BindIsMade
      <4>2. dedicated[e].op \in Ops
        BY <4>1 DEF IInv, Books, DeskOK, WorkersHaveOps
      <4> QED
        BY <1>7, <4>1, <4>2 DEF MadeStays
    <3> QED
      BY <3>1, <3>2
  <2> QED
    BY <1>4, <1>7, <2>1, AnswersKept DEF FieldsKept
<1>9. ListsAreSpare' /\ RowsAreSpare'
  <2>1. /\ pool' \subseteq pool \cup {k \in Cards : Spare(k)}
        /\ treasurer'.enrolled \subseteq treasurer.enrolled \cup pool
    BY <1>4
  <2>2. \A e \in Pro5 : e \in Orders \ {d}
    BY <1>1, ConstantTypes DEF Orders
  <2> QED
    BY <1>0, <1>4, <1>7, <2>1, <2>2, ListsKept, RowsKept
<1>10. CardTaken' /\ CardGivenBack'
  <2>1. \A e \in Pro5 : e \in Orders \ {d}
    BY <1>1, ConstantTypes DEF Orders
  <2> QED
    BY <1>4, <2>1, OrdersHoldCards
<1>11. PlanSpares'
  <2>1. \A e \in Orders : dedicated'[e].card = dedicated[e].card
    BY <1>4
  <2> QED
    BY <1>0, <1>4, <1>7, <2>1, PlanKept
<1> QED
  BY <1>7, <1>8, <1>9, <1>10, <1>11

LEMMA OrderStepSpares == ASSUME IInv, PInv, DedicatedStep PROVE PInv'
  BY FailSpares, PaySpares, PreparingSpares, WatcherSpares, TakingSpares, OpenCardSpares
  DEF DedicatedStep

------------------------------------------------------------------------------
\* Restarts, the platform and the operator.

LEMMA RestartSpares == ASSUME IInv, PInv, Restart PROVE PInv'
<1> USE DEF PInv
<1>0. TypeOK /\ FieldsKept /\ reserve \in Reserve
  BY RestartKeeps DEF IInv, Books, TypeOK
<1>1. /\ charge' = charge /\ made' = made /\ pool' = pool /\ used' = used
      /\ treasurer'.pc = "idle" /\ treasurer'.enrolled = {}
      /\ \A d \in Orders : worker'[d].pc = "idle"
  BY DEF Restart, upVars, IdleTreasurer, IdleWorker
<1>2. \A d \in Pro5 : /\ dedicated'[d] = dedicated[d] /\ code'[d].card = code[d].card
                      \/ /\ dedicated[d].state # "none" /\ dedicated'[d].state = "review"
                         /\ code'[d].card = code[d].card
  <2> TAKE d \in Pro5
  <2>1. d \in Orders /\ dedicated[d] \in Dedicated /\ code[d] \in Code
    BY <1>0 DEF Orders, TypeOK
  <2>2. CASE d \in Interrupted
    <3>1. /\ dedicated'[d] = [dedicated[d] EXCEPT !.state = "review"]
          /\ code'[d] = [code[d] EXCEPT !.status = "review"]
      BY <2>1, <2>2 DEF Restart
    <3>2. dedicated[d].state # "none"
      BY <2>2 DEF Interrupted
    <3> QED
      BY <2>1, <3>1, <3>2 DEF Dedicated, Code
  <2>3. CASE d \notin Interrupted
    BY <2>1, <2>3 DEF Restart
  <2> QED
    BY <2>2, <2>3
<1>3. reserve'.card = reserve.card
  BY <1>0 DEF Restart, Reserve
<1>4. RequestsOK' /\ MadeStays
  <2>1. CallIsUnsent' /\ OpenIsUnsent'
    BY <1>1 DEF CallIsUnsent, OpenIsUnsent
  <2> QED
    BY <1>0, <1>1, <2>1, RequestsKept DEF FieldsKept
<1>5. AnswersOK'
  <2>1. BindIsMade'
    BY <1>1 DEF BindIsMade
  <2> QED
    BY <1>0, <1>4, <2>1, AnswersKept DEF FieldsKept
<1>6. ListsAreSpare' /\ RowsAreSpare'
  <2>1. /\ pool' \subseteq pool \cup {c \in Cards : Spare(c)}
        /\ treasurer'.enrolled \subseteq treasurer.enrolled \cup pool
        /\ \A d \in Pro5 : code'[d].card = code[d].card
    BY <1>1, <1>2
  <2> QED
    BY <1>0, <1>1, <1>3, <1>4, <2>1, ListsKept, RowsKept
<1>7. CardTaken' /\ CardGivenBack' /\ PlanSpares'
  <2>1. CardTaken' /\ CardGivenBack'
    BY <1>2, OrdersHoldCards
  <2> QED
    BY <1>1, <2>1, NoPlanSpares
<1> QED
  BY <1>4, <1>5, <1>6, <1>7

LEMMA LateChargeSpares ==
  ASSUME IInv, PInv, NEW o \in Ops, NEW c \in Cards, LateCharge(o, c) PROVE PInv'
<1> USE DEF PInv
<1>0. TypeOK /\ PlanIsWhole
  BY DEF IInv, Books, CycleOK
<1>1. /\ money' = money /\ treasurer' = treasurer /\ pool' = pool /\ used' = used
      /\ reserve' = reserve /\ code' = code /\ dedicated' = dedicated /\ worker' = worker
      /\ charge[o] = "late" /\ charge' = [charge EXCEPT ![o] = "done"]
  BY DEF LateCharge, bookVars, orderVars, procVars
<1>2. /\ charge'[o] # "unsent" /\ \A p \in Ops \ {o} : charge'[p] = charge[p]
  BY <1>0, <1>1 DEF TypeOK
<1>3. money[o].action \in Openings \cup Topups
  <2>1. Recorded(o)
    BY <1>1 DEF IInv, ChargesOK, UnrecordedIsUnsent
  <2>2. money[o].action # "none" /\ money[o].action # "pro5x_pay_fee" /\ money[o] \in Money
    BY <1>0, <1>1, <2>1 DEF IInv, Books, BooksOK, NamedWhenRecorded, RequestsOK, FeesAreUnsent, Recorded,
       TypeOK
  <2> QED
    BY <2>2 DEF Money, Actions
<1>4. made' = made \/ Opens(o)
  BY <1>3 DEF LateCharge, Opens
<1>5. RequestsOK' /\ MadeStays
  <2>1. CallIsUnsent' /\ OpenIsUnsent'
    BY <1>1, <1>2 DEF RequestsOK, CallIsUnsent, OpenIsUnsent
  <2>2. ActionsKept /\ money[o].action # "pro5x_pay_fee"
    BY <1>1, <1>3 DEF ActionsKept, Openings, Topups
  <2> QED
    BY <1>0, <1>2, <1>4, <2>1, <2>2, RequestsSent
<1>6. AnswersOK'
  <2>1. BindIsMade'
    <3> SUFFICES ASSUME NEW d \in Orders, worker[d].pc = "bind"
                 PROVE  worker[d].card # NoCard /\ worker[d].card = made'[dedicated[d].op]
      BY <1>1 DEF BindIsMade
    <3>1. worker[d].card # NoCard /\ worker[d].card = made[dedicated[d].op]
      BY DEF AnswersOK, BindIsMade
    <3>2. dedicated[d].op \in Ops
      BY DEF IInv, Books, DeskOK, WorkersHaveOps
    <3> QED
      BY <1>5, <3>1, <3>2 DEF MadeStays
  <2> QED
    BY <1>1, <1>5, <2>1, AnswersKept
<1>7. ListsAreSpare' /\ RowsAreSpare'
  <2>1. /\ pool' \subseteq pool \cup {k \in Cards : Spare(k)}
        /\ treasurer'.enrolled \subseteq treasurer.enrolled \cup pool
    BY <1>1
  <2> QED
    BY <1>0, <1>1, <1>5, <2>1, ListsKept, RowsKept
<1>8. CardTaken' /\ CardGivenBack' /\ PlanSpares'
  BY <1>0, <1>1, <1>5, OrdersHoldCards, PlanKept
<1> QED
  BY <1>5, <1>6, <1>7, <1>8

LEMMA OutsideSpares ==
  ASSUME PInv, \/ \E c \in Cards : OrdinaryPayment(c) \/ \E a \in ManualAmounts : ManualTopup(c, a)
               \/ \E d \in Orders, outcome \in {"completed", "failed"} : SettlePro(d, outcome)
               \/ \E paused \in BOOLEAN, b \in Budgets : SavePolicy(paused, b)
               \/ Tick \/ UNCHANGED vars
  PROVE  PInv'
<1>1. /\ money' = money /\ treasurer' = treasurer /\ pool' = pool /\ used' = used
      /\ reserve' = reserve /\ code' = code /\ dedicated' = dedicated /\ worker' = worker
      /\ charge' = charge /\ made' = made
  BY DEF OrdinaryPayment, ManualTopup, SettlePro, SavePolicy, Tick, vars, bookVars, orderVars,
         upVars, procVars
<1>2. RequestsOK' /\ AnswersOK'
  BY <1>1 DEF PInv, RequestsOK, UnsentIsUnmade, CallIsUnsent, OpenIsUnsent, MadeApart,
     MadeByOpenings, FeesAreUnsent, AnswersOK, ResultIsMade, BindIsMade
<1>3. ListsAreSpare' /\ RowsAreSpare'
  BY <1>1 DEF PInv, ListsAreSpare, RowsAreSpare, Spare
<1>4. CardTaken' /\ CardGivenBack' /\ PlanSpares'
  BY <1>1 DEF PInv, CardTaken, CardGivenBack, PlanSpares, Spare, Prepared
<1> QED
  BY <1>2, <1>3, <1>4 DEF PInv

LEMMA InitSpares == Init => PInv
<1> SUFFICES ASSUME Init PROVE PInv
  OBVIOUS
<1>1. /\ money = [o \in Ops |-> NoMoney]
      /\ charge = [o \in Ops |-> "unsent"] /\ made = [o \in Ops |-> NoCard]
      /\ pool = Stock /\ treasurer.pc = "idle" /\ treasurer.enrolled = {}
      /\ \A d \in Orders : worker[d].pc = "idle" /\ dedicated[d] = NoDedicated
                           /\ code[d].card = NoCard
  BY DEF Init, IdleTreasurer, IdleWorker
<1>2. \A i \in DOMAIN used : used[i] \in Stock
  <2>1. used = <<>> \/ \E c \in Stock : used = <<c>>
    BY DEF Init
  <2> QED
    BY <2>1
<1>3. reserve.card = NoCard \/ reserve.card \in Stock
  BY <1>2 DEF Init, EmptyReserve
<1>4. RequestsOK /\ AnswersOK
  BY <1>1 DEF RequestsOK, UnsentIsUnmade, CallIsUnsent, OpenIsUnsent, MadeApart, MadeByOpenings,
     FeesAreUnsent, AnswersOK, ResultIsMade, BindIsMade, NoMoney
<1>5. ListsAreSpare
  BY <1>1, <1>2 DEF ListsAreSpare, Spare
<1>6. RowsAreSpare /\ CardTaken /\ CardGivenBack /\ PlanSpares
  BY <1>1, <1>3 DEF RowsAreSpare, CardTaken, CardGivenBack, PlanSpares, Spare, Orders, NoDedicated,
     Ops, NoOp
<1> QED
  BY <1>4, <1>5, <1>6 DEF PInv

LEMMA SpareStep == ASSUME IInv, IInv', PInv, [Next]_vars PROVE PInv'
  BY TreasurerStepSpares, OrderStepSpares, RestartSpares, LateChargeSpares, OutsideSpares DEF Next

LEMMA SpareInvariance == Spec => []PInv
<1>1. Init => PInv
  BY InitSpares
<1>2. IInv /\ IInv' /\ PInv /\ [Next]_vars => PInv'
  BY SpareStep
<1> QED
  BY <1>1, <1>2, Invariance, PTL DEF Spec

LEMMA RecordedTopupSpares ==
  ASSUME IInv, IInv', PInv, [Next]_vars, NEW o \in Ops, ~Recorded(o), Recorded(o)',
         money'[o].action = "topup"
  PROVE  ~Prepared(money'[o].card) /\ ~HeldByOrder(money'[o].card)
<1>0. TypeOK
  BY DEF IInv, Books
<1>1. money'[o].action # money[o].action
  BY DEF IInv, Books, BooksOK, NamedWhenRecorded, Recorded
<1>2. PICK p \in Ops : Recording(p)
  BY <1>0, <1>1, OthersKeep DEF ActionsKept
<1>3. Insert(o)
  <2>1. CASE Insert(p)
    <3>1. \A q \in Ops \ {p} : money'[q] = money[q]
      BY <1>0, <2>1, RecordIs DEF Insert
    <3> QED
      BY <1>1, <2>1, <3>1
  <2>2. CASE ReuseAfterTopup(p)
    <3>1. money'[p].action = "pro5x_reserve_topup" /\ \A q \in Ops \ {p} : money'[q] = money[q]
      BY <1>0, <2>2, RecordIs DEF ReuseAfterTopup
    <3> QED
      BY <1>1, <3>1
  <2>3. CASE PrepareNewCard(p)
    <3>1. money'[p].action = "pro5x_reserve_open" /\ \A q \in Ops \ {p} : money'[q] = money[q]
      BY <1>0, <2>3, RecordIs DEF PrepareNewCard
    <3> QED
      BY <1>1, <3>1
  <2>4. CASE \E d \in Orders : StartPro20(d, p)
    <3>1. \E cost : money' = Record(p, "pro_open", NoCard, ProInitial, cost, 0, clock)
      BY <2>4 DEF StartPro20
    <3>2. money'[p].action = "pro_open" /\ \A q \in Ops \ {p} : money'[q] = money[q]
      BY <1>0, <3>1, RecordIs
    <3> QED
      BY <1>1, <3>2
  <2>5. CASE \E d \in Orders : ClaimReserve(d, p)
    <3>1. money'[p].action = "pro5x_pay_fee" /\ \A q \in Ops \ {p} : money'[q] = money[q]
      BY <1>0, <2>5 DEF ClaimReserve, Record, TypeOK, Money
    <3> QED
      BY <1>1, <3>1
  <2> QED
    BY <1>2, <2>1, <2>2, <2>3, <2>4, <2>5 DEF Recording
<1>4. /\ treasurer.pc = "insert"
      /\ money'[o].action = treasurer.plan.action /\ money'[o].card = treasurer.plan.card
  BY <1>0, <1>3, RecordIs DEF Insert, TreasurerAt
<1>5. /\ ~Prepared(treasurer.plan.card)
      /\ \A d \in Orders : dedicated[d].card # treasurer.plan.card
  BY <1>4 DEF PInv, PlanSpares
<1> QED
  BY <1>4, <1>5 DEF HeldByOrder

(* A recharge of an ordinary card that is recorded goes to no card that an unfinished
   dedicated order holds or that is prepared for one.  The card was chosen earlier, among
   the enrolled ones; none of those is ever opened for a pro_20x order, and the prepared
   card, which is all a pro_5x order can take, is not the chosen one: the row is filled
   by the treasurer itself, which is busy.                                              *)
THEOREM TopupIsSpared == Spec => TopupSparesDedicated
<1> DEFINE Step1 == \A o \in Ops : ~Recorded(o) /\ Recorded(o)' /\ money'[o].action = "topup"
                      => ~Prepared(money'[o].card) /\ ~HeldByOrder(money'[o].card)
<1>1. IInv /\ IInv' /\ PInv /\ [Next]_vars => [Step1]_vars
  BY RecordedTopupSpares
<1> QED
  BY <1>1, Invariance, SpareInvariance, PTL DEF Spec, TopupSparesDedicated

------------------------------------------------------------------------------
\* The cards that were opened for pro_20x orders.
OwnCards == {made[o] : o \in {p \in Ops : money[p].action = "pro_open" /\ made[p] # NoCard}}
OwnCardsAreApart == /\ OwnCards \cap pool = {}
                    /\ reserve.card \notin OwnCards
                    /\ \A i \in DOMAIN used : used[i] \notin OwnCards

(* A card that was opened for a pro_20x order stays that order's: it is never enrolled for
   ordinary payments, never prepared for a pro_5x order and never among the cards that may be
   prepared next, whichever goroutine learns of it and whatever restarts come between.       *)
THEOREM OwnCardsStayApart == Spec => []OwnCardsAreApart
<1>1. PInv => OwnCardsAreApart
  <2> SUFFICES ASSUME PInv PROVE OwnCardsAreApart
    OBVIOUS
  <2>1. ASSUME NEW c \in OwnCards PROVE c # NoCard /\ ~Spare(c)
    BY <2>1, SpareIsNotBought DEF OwnCards, PInv
  <2> QED
    BY <2>1 DEF OwnCardsAreApart, PInv, ListsAreSpare, RowsAreSpare
<1> QED
  BY <1>1, SpareInvariance, PTL
=============================================================================
