--------------------------- MODULE AirdropModule ---------------------------
(***************************************************************************)
(* contracts/protocol/modules/v1/AirdropModule.sol: tokens sent to the     *)
(* SetToken outside an issuance are absorbed into its positions, less a    *)
(* fee.  The fee's recipients are left out.                                *)
(***************************************************************************)
EXTENDS Vault

CONSTANTS AirdropFees,        \* fees the manager may ask for
          AirdropProtocolFee  \* the protocol's share of the fee

ASSUME AirdropAssumption ==
    /\ AirdropFees \subseteq Nat
    /\ AirdropProtocolFee \in Nat

VARIABLES airdropSettings,  \* the SetToken's AirdropSettings
          isAirdrop,        \* the tokens that may be absorbed
          isAirdropModule   \* the module is INITIALIZED on the SetToken

airdropVars == <<airdropSettings, isAirdrop, isAirdropModule>>

NoAirdropSettings == [airdrops |-> <<>>, airdropFee |-> 0, anyoneAbsorb |-> FALSE]

AirdropInit ==
    /\ airdropSettings = NoAirdropSettings
    /\ isAirdrop = [c \in Components |-> FALSE]
    /\ isAirdropModule = FALSE

Callers == {"manager", "anyone"}

isValidCaller(caller) == airdropSettings.anyoneAbsorb \/ caller = "manager"

-----------------------------------------------------------------------------
(***************************************************************************)
(* Absorbing a token turns a vault v, its positions and balances, into one *)
(* of the vaults returned: none when a subtraction or a division reverts.  *)
(***************************************************************************)
handleFees(amountAirdropped) == preciseMul(amountAirdropped, airdropSettings.airdropFee)

\* Faulty variant for mutation: the fees paid are still counted.
getPostAirdropUnitGross(balance, totalFees) ==
    getDefaultPositionUnit(totalSupply, balance)

getPostAirdropUnit(balance, totalFees) ==
    getDefaultPositionUnit(totalSupply, balance - totalFees)

handleAirdropPosition(v, c) ==
    LET amountAirdropped ==
            v.balances[c] - getDefaultTrackedBalance(v.positions, totalSupply, c)
        totalFees == handleFees(amountAirdropped)
    IN  IF amountAirdropped = 0 THEN {v}
        ELSE require(/\ amountAirdropped > 0
                     /\ getModuleFee(AirdropProtocolFee, totalFees) <= totalFees
                     /\ totalSupply > 0,
                     {[positions |-> p,
                       balances |-> [v.balances EXCEPT ![c] = @ - totalFees]] :
                        p \in editDefaultPosition(v.positions, c,
                                  getPostAirdropUnit(v.balances[c], totalFees))})

absorbToken(v, c) == require(isAirdrop[c], handleAirdropPosition(v, c))

absorbFromEach(vaults, c) == UNION {absorbToken(v, c) : v \in vaults}

\* One token after the other; a reverted one leaves no vault to go on from.
absorbTokens(v, tokens) ==
    LET vaults[i \in 0..Len(tokens)] ==
            IF i = 0 THEN {v} ELSE absorbFromEach(vaults[i - 1], tokens[i])
    IN  vaults[Len(tokens)]

AbsorbAll(tokens) ==
    /\ \E v \in absorbTokens([positions |-> positions, balances |-> balances], tokens) :
         /\ positions' = v.positions
         /\ balances' = v.balances
    /\ UNCHANGED totalSupply

-----------------------------------------------------------------------------
\* absorb is the batch of a single token.
batchAbsorb(caller, tokens) ==
    /\ isAirdropModule
    /\ isValidCaller(caller)
    /\ AbsorbAll(tokens)
    /\ UNCHANGED airdropVars

addAirdrop(c) ==
    /\ isAirdropModule
    /\ ~isAirdrop[c]
    /\ airdropSettings' = [airdropSettings EXCEPT !.airdrops = Append(@, c)]
    /\ isAirdrop' = [isAirdrop EXCEPT ![c] = TRUE]
    /\ UNCHANGED <<vaultVars, isAirdropModule>>

removeAirdrop(c) ==
    /\ isAirdropModule
    /\ isAirdrop[c]
    /\ airdropSettings' = [airdropSettings EXCEPT !.airdrops = removeStorage(@, c)]
    /\ isAirdrop' = [isAirdrop EXCEPT ![c] = FALSE]
    /\ UNCHANGED <<vaultVars, isAirdropModule>>

updateAnyoneAbsorb(anyone) ==
    /\ isAirdropModule
    /\ airdropSettings' = [airdropSettings EXCEPT !.anyoneAbsorb = anyone]
    /\ UNCHANGED <<vaultVars, isAirdrop, isAirdropModule>>

\* Faulty variant for mutation: outstanding airdrops are not absorbed.
updateAirdropFeeOnly(newFee) ==
    /\ isAirdropModule
    /\ newFee <= PRECISE_UNIT
    /\ airdropSettings' = [airdropSettings EXCEPT !.airdropFee = newFee]
    /\ UNCHANGED <<vaultVars, isAirdrop, isAirdropModule>>

\* Outstanding airdrops are absorbed at the old fee first.
updateAirdropFee(newFee) ==
    /\ isAirdropModule
    /\ newFee <= PRECISE_UNIT
    /\ AbsorbAll(airdropSettings.airdrops)
    /\ airdropSettings' = [airdropSettings EXCEPT !.airdropFee = newFee]
    /\ UNCHANGED <<isAirdrop, isAirdropModule>>

\* The manager adds and initializes the module.
initializeAirdrop(airdrops, fee, anyone) ==
    /\ ~isAirdropModule
    /\ fee <= PRECISE_UNIT
    /\ ~hasDuplicate(airdrops)
    /\ airdropSettings' = [airdrops |-> airdrops, airdropFee |-> fee,
                           anyoneAbsorb |-> anyone]
    /\ isAirdrop' = [c \in Components |-> isAirdrop[c] \/ contains(airdrops, c)]
    /\ isAirdropModule' = TRUE
    /\ UNCHANGED vaultVars

\* Faulty variant for mutation: the flags of the tokens are not cleared.
removeAirdropModuleOnly ==
    /\ isAirdropModule
    /\ airdropSettings' = NoAirdropSettings
    /\ isAirdropModule' = FALSE
    /\ UNCHANGED <<vaultVars, isAirdrop>>

\* The SetToken calls the module back when the manager removes it.
removeAirdropModule ==
    /\ isAirdropModule
    /\ isAirdrop' = [c \in Components |->
                        isAirdrop[c] /\ ~contains(airdropSettings.airdrops, c)]
    /\ airdropSettings' = NoAirdropSettings
    /\ isAirdropModule' = FALSE
    /\ UNCHANGED vaultVars

-----------------------------------------------------------------------------
\* A token may be absorbed exactly while the settings list it, once; nothing
\* of an earlier installation of the module survives its removal.
AirdropsListed ==
    /\ ~hasDuplicate(airdropSettings.airdrops)
    /\ \A c \in Components : isAirdrop[c] <=> contains(airdropSettings.airdrops, c)
    /\ ~isAirdropModule => airdropSettings = NoAirdropSettings

=============================================================================
