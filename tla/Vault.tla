------------------------------- MODULE Vault -------------------------------
(***************************************************************************)
(* What the modules of one SetToken share: its positions, the component    *)
(* balances that back them, and its supply (SetToken.sol; ModuleBase.sol   *)
(* and Invoke.sol in contracts/protocol/lib).                              *)
(*                                                                         *)
(* Components are standard ERC20 tokens: ExplicitERC20.transferFrom and    *)
(* strictInvokeTransfer revert when a transfer moves any other amount.     *)
(***************************************************************************)
EXTENDS PositionBook

CONSTANTS MaxBalance,  \* bound on each component balance
          MaxSupply    \* bound on totalSupply

ASSUME VaultAssumption ==
    /\ MaxBalance \in Nat
    /\ MaxSupply \in Nat

\* The variable positions of PositionBook is the rest of the state.
VARIABLES balances,    \* the SetToken's balance of each component
          totalSupply  \* the SetTokens in circulation

vaultVars == <<positions, balances, totalSupply>>

VaultInit ==
    /\ PositionsInit
    /\ balances = [c \in Components |-> 0]
    /\ totalSupply = 0

\* Anyone may send components to the SetToken: an airdrop.
donate(c, quantity) ==
    /\ balances[c] + quantity <= MaxBalance
    /\ balances' = [balances EXCEPT ![c] = @ + quantity]
    /\ UNCHANGED <<positions, totalSupply>>

-----------------------------------------------------------------------------
\* ModuleBase.getModuleFee: the protocol's share of a quantity.
getModuleFee(protocolFee, quantity) == preciseMul(quantity, protocolFee)

-----------------------------------------------------------------------------
\* What the SetToken holds beyond what its supply is owed at the real unit,
\* in precise units.
Surplus(c) ==
    balances[c] * PRECISE_UNIT - getDefaultPositionRealUnit(positions, c) * totalSupply

=============================================================================
