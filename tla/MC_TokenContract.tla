------------------------- MODULE MC_TokenContract --------------------------
(***************************************************************************)
(* Model-checking instance of TokenContract, and the properties that need *)
(* a fold over the accounts (Functions reaches a RECURSIVE operator, so   *)
(* they stay out of the module the proofs are about).                     *)
(***************************************************************************)
EXTENDS TokenContract, Functions

CONSTANTS a, b, h1, p1, badTime

MCClients == {a, b}
MCOrg1Clients == {a}
MCAmounts == {-1, 0, 1}

(* The balances of all accounts: every key but the supply key (an HTLC    *)
(* reads as 0, as BalanceOf's Atoi would).                                 *)
Balances == [k \in BalanceKeys |-> Atoi(state[k])]

(* Supply conservation: the total supply equals the sum of the account     *)
(* balances.  Mint and Burn change one balance and the supply together,    *)
(* and transferHelper moves value between two distinct accounts.          *)
SupplyConserved ==
    SumFunctionOnSet(Balances, BalanceKeys) = Atoi(state[TotalSupplyKey])
=============================================================================
