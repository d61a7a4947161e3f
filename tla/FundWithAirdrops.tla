-------------------------- MODULE FundWithAirdrops --------------------------
(***************************************************************************)
(* Fund with the AirdropModule installed beside the other modules.         *)
(***************************************************************************)
EXTENDS Fund, AirdropModule

CONSTANT MaxTokens  \* bound on the length of a list passed to the AirdropModule

ASSUME MaxTokensAssumption == MaxTokens \in Nat

\* Repetitions included.
TokenLists == UNION {[1..k -> Components] : k \in 0..MaxTokens}

airdropFundVars == <<fundVars, airdropVars>>

AirdropFundInit == FundInit /\ AirdropInit

Airdrops ==
    /\ \/ \E caller \in Callers, A \in TokenLists : batchAbsorb(caller, A)
       \/ \E c \in Components : addAirdrop(c) \/ removeAirdrop(c)
       \/ \E b \in BOOLEAN : updateAnyoneAbsorb(b)
       \/ \E f \in AirdropFees : updateAirdropFee(f)
       \/ \E A \in TokenLists, f \in AirdropFees, b \in BOOLEAN :
            initializeAirdrop(A, f, b)
       \/ removeAirdropModule
    /\ UNCHANGED feeVars

AirdropFundNext ==
    \/ FundNext /\ UNCHANGED airdropVars
    \/ Airdrops

AirdropFundSpec == AirdropFundInit /\ [][AirdropFundNext]_airdropFundVars

-----------------------------------------------------------------------------
\* A new airdrop fee never applies to tokens that had arrived before: when it
\* is set, all but a rounding remainder of every listed token is in a
\* position.
AirdropFeeNotRetroactive ==
    [][isAirdropModule /\ isAirdropModule'
        /\ airdropSettings'.airdropFee # airdropSettings.airdropFee =>
         \A c \in Entries(airdropSettings.airdrops) :
            Surplus(c)' <= 2 * totalSupply]_airdropFundVars

=============================================================================
