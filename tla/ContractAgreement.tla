------------------------- MODULE ContractAgreement --------------------------
(***************************************************************************)
(* What the contract of a renter with a host promises: the renter's record *)
(* of the contract is the revision both have agreed on, or it is the one   *)
(* before it and is brought up to date before the next is made.  Neither   *)
(* ever goes back.  ContractLog implements this, with a write-ahead log,   *)
(* lost answers and crashes.                                               *)
(***************************************************************************)
EXTENDS Integers

CONSTANT Roots      \* the Merkle roots a contract can have

VARIABLES
    agreed,         \* the last revision that both have signed
    mine            \* the one that the renter has on disk

vars == <<agreed, mine>>

Revisions == [num : Nat, roots : Roots]

Init ==
    /\ agreed \in Revisions /\ agreed.num = 1
    /\ mine = agreed

Revise ==
    /\ mine = agreed
    /\ agreed' \in Revisions
    /\ agreed'.num = agreed.num + 1
    /\ UNCHANGED mine

CatchUp ==
    /\ mine # agreed
    /\ mine' = agreed
    /\ UNCHANGED agreed

Next == Revise \/ CatchUp

Spec == Init /\ [][Next]_vars

=============================================================================
