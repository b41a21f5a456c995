----------------------------- MODULE Ownership -----------------------------
(***************************************************************************)
(* What the owner ledger promises, without saying how: each share and each *)
(* dollar of the paper account has one owner, only a trade of an owner     *)
(* changes what it owns, and a forward test owns its allocated capital     *)
(* from its start and gives all it owns to "By hand" at its end.           *)
(*                                                                         *)
(* docs/architecture/paper_trading.md 11.10: "Each order, fill, position,  *)
(* and cash amount of the paper account belongs to one owner."             *)
(***************************************************************************)
EXTENDS Integers

CONSTANTS
    ForwardTests,   \* the forward tests
    ByHand,         \* the owner "By hand"
    Capitals,       \* amounts that can be allocated
    StartPosition,  \* position of the account at the ledger start
    StartCash       \* cash of the account at the ledger start

Owners == ForwardTests \cup {ByHand}

VARIABLES
    account,    \* position and cash of the paper account
    shares,     \* shares of each owner
    dollars,    \* cash of each owner
    active,     \* forward tests that have their capital
    over        \* forward tests that gave it back

vars == <<account, shares, dollars, active, over>>

Init ==
    /\ account = [position |-> StartPosition, cash |-> StartCash]
    /\ shares = [o \in Owners |-> IF o = ByHand THEN StartPosition ELSE 0]
    /\ dollars = [o \in Owners |-> IF o = ByHand THEN StartCash ELSE 0]
    /\ active = {}
    /\ over = {}

\* One share for one dollar: 1 buys, -1 sells.
Trade(o, change) ==
    /\ o \in active \cup {ByHand}
    /\ account' = [position |-> account.position + change, cash |-> account.cash - change]
    /\ shares' = [shares EXCEPT ![o] = @ + change]
    /\ dollars' = [dollars EXCEPT ![o] = @ - change]
    /\ UNCHANGED <<active, over>>

Allocate(f, capital) ==
    /\ f \notin active \cup over
    /\ active' = active \cup {f}
    /\ dollars' = [dollars EXCEPT ![ByHand] = @ - capital, ![f] = capital]
    /\ UNCHANGED <<account, shares, over>>

Release(f) ==
    /\ f \in active
    /\ active' = active \ {f}
    /\ shares' = [shares EXCEPT ![ByHand] = @ + shares[f], ![f] = 0]
    /\ dollars' = [dollars EXCEPT ![ByHand] = @ + dollars[f], ![f] = 0]
    /\ over' = over \cup {f}
    /\ UNCHANGED account

Next ==
    \/ \E o \in Owners, change \in {1, -1} : Trade(o, change)
    \/ \E f \in ForwardTests :
        \/ \E capital \in Capitals : Allocate(f, capital)
        \/ Release(f)

Spec == Init /\ [][Next]_vars
=============================================================================
