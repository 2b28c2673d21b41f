--------------------------- MODULE CodeReplacement ---------------------------
(***************************************************************************)
(* Codes that the marketplace orders and that customers exchange for codes *)
(* of a prepared reserve: MarketplaceLocalCDKIssue, LocalCDKReplace and    *)
(* MaintainCodeReserve.  Each is one transaction, the last two also under  *)
(* a mutex; what can be lost is the answer, and every request is repeated. *)
(***************************************************************************)
EXTENDS Naturals, FiniteSets

CONSTANTS Sales,          \* orders of the marketplace
          Wares,          \* the codes computed for them
          SaleOf, NumberOf, \* of a ware: its order, its place in the order
          Spares,         \* codes that may be generated for the reserve
          Devices, Asks,  \* of customers, and their request identifiers
          ReserveTarget,  \* codes kept in reserve
          Counts,         \* quantities the marketplace may ask for
          Unsold

LocalCodes == Wares \cup Spares

ASSUME SalesAssumption ==
  SaleOf \in [Wares -> Sales] /\ NumberOf \in [Wares -> Nat] /\ Counts \subseteq Nat
ASSUME SparesAssumption == Wares \cap Spares = {} /\ Unsold \notin LocalCodes
ASSUME ReserveAssumption == ReserveTarget \in Nat \ {0}

VARIABLES shelf,    \* local_cdks: [LocalCodes -> [status, from]]; "from" the ware it stands for
          reserve,  \* local_code_reserve
          swaps,    \* local_code_replacements
          onSale,   \* operations_products: the product is enabled
          told      \* history: [LocalCodes -> the devices that were told the code]

replacementVars == <<shelf, reserve, swaps, onSale, told>>

ShelfStatus == {"none", "unused", "reserved", "failed", "consumed", "disabled"}
NotIssued == [status |-> "none", from |-> Unsold]

ReplacementTypeOK ==
  /\ shelf \in [LocalCodes -> [status : ShelfStatus, from : Wares \cup {Unsold}]]
  /\ reserve \subseteq Spares
  /\ swaps \subseteq [old : LocalCodes, new : Spares, ask : Asks, device : Devices]
  /\ onSale \in BOOLEAN
  /\ told \in [LocalCodes -> SUBSET Devices]

ReplacementInit ==
  /\ shelf = [c \in LocalCodes |-> NotIssued]
  /\ reserve = {}
  /\ swaps = {}
  /\ onSale = TRUE
  /\ told = [c \in LocalCodes |-> {}]

Batch(s) == {c \in Wares : SaleOf[c] = s}
Issued(s) == {c \in Batch(s) : shelf[c].status # "none"}
Ordered(s, n) == {c \in Batch(s) : NumberOf[c] <= n}

\* fillCodeReserve: the codes are new ones, of no sale and no customer.
Unmade == {c \in Spares : shelf[c].status = "none"}
Filled(stock) ==
  {more \in SUBSET Unmade : stock \subseteq more /\ Cardinality(more) = ReserveTarget}

------------------------------------------------------------------------------
SameOrder(s, n) == Issued(s) = {} \/ Cardinality(Issued(s)) = n

\* MarketplaceLocalCDKIssue.  The answer may be lost, and asked for again.
MarketplaceIssues(s, n) ==
  /\ onSale /\ n <= Cardinality(Batch(s)) /\ SameOrder(s, n)
  /\ shelf' = [c \in LocalCodes |->
                 IF c \in Ordered(s, n) /\ shelf[c].status = "none"
                 THEN [status |-> "unused", from |-> c] ELSE shelf[c]]
  /\ UNCHANGED <<reserve, swaps, onSale, told>>

MaintainCodeReserve ==
  /\ onSale
  /\ Cardinality(reserve) < ReserveTarget
  /\ \E more \in Filled(reserve) : reserve' = more
  /\ UNCHANGED <<shelf, swaps, onSale, told>>

Replaced(c) == \E swap \in swaps : swap.old = c
Hear(d, c) == told' = [told EXCEPT ![c] = @ \cup {d}]

\* LocalCDKReplace, for a code that has been replaced: only the request that
\* did it is answered, from the device it came from.
ReplaceAgain(d, c, a) ==
  /\ \E swap \in swaps : swap.old = c /\ swap.ask = a /\ swap.device = d /\ Hear(d, swap.new)
  /\ UNCHANGED <<shelf, reserve, swaps, onSale>>

\* Mutant: the old code is left as it is.
WithdrawnNot(c) == shelf[c].status
Withdrawn(c) == "disabled"

ReplaceCode(d, c, a) ==
  /\ ~Replaced(c)
  /\ shelf[c].status = "unused" /\ onSale
  /\ \E ready \in Filled(reserve) : \E new \in ready :
       /\ shelf' = [shelf EXCEPT ![c].status = Withdrawn(c),
                                 ![new] = [status |-> "unused", from |-> shelf[c].from]]
       /\ swaps' = swaps \cup {[old |-> c, new |-> new, ask |-> a, device |-> d]}
       /\ \E more \in {stock \in SUBSET (Unmade \ {new}) :
                         ready \ {new} \subseteq stock /\ Cardinality(stock) = ReserveTarget} :
            reserve' = more
       /\ Hear(d, new) \/ UNCHANGED told
  /\ UNCHANGED onSale

\* The marketplace hands a code to a customer, and customers pass codes on.
HandOver(d, c) ==
  /\ shelf[c].status # "none" /\ (c \in Wares \/ told[c] # {})
  /\ Hear(d, c)
  /\ UNCHANGED <<shelf, reserve, swaps, onSale>>

\* The rest of the shop: a reservation and its end, the administrator who
\* disables a code and switches the product.
UseCode(c) ==
  /\ \/ /\ shelf[c].status = "unused"
        /\ \E next \in {"reserved", "disabled"} : shelf' = [shelf EXCEPT ![c].status = next]
     \/ /\ shelf[c].status = "reserved"
        /\ \E end \in {"consumed", "failed"} : shelf' = [shelf EXCEPT ![c].status = end]
  /\ UNCHANGED <<reserve, swaps, onSale, told>>

SwitchProduct == /\ onSale' = ~onSale
                 /\ UNCHANGED <<shelf, reserve, swaps, told>>

ReplacementNext ==
  \/ \E s \in Sales, n \in Counts : MarketplaceIssues(s, n)
  \/ MaintainCodeReserve \/ SwitchProduct
  \/ \E d \in Devices, c \in LocalCodes, a \in Asks :
       d \in told[c] /\ (ReplaceAgain(d, c, a) \/ ReplaceCode(d, c, a))
  \/ \E d \in Devices, c \in LocalCodes : HandOver(d, c)
  \/ \E c \in LocalCodes : UseCode(c)

ReplacementSpec == ReplacementInit /\ [][ReplacementNext]_replacementVars

------------------------------------------------------------------------------
\* A customer's purchase is neither doubled nor lost: of the codes that stand
\* for a code sold exactly one has not been replaced, every other one is void,
\* however often requests are repeated and by whichever devices know the code,
\* and a code in the reserve stands for none.
OneLiveCode ==
  /\ \A w \in Wares : shelf[w].status # "none" =>
       Cardinality({c \in LocalCodes : shelf[c].from = w /\ ~Replaced(c)}) = 1
  /\ \A c \in LocalCodes : Replaced(c) => shelf[c].status = "disabled"
  /\ \A c \in reserve : shelf[c].status = "none"
=============================================================================
