---------------------------- MODULE TradeModule ----------------------------
(***************************************************************************)
(* contracts/protocol/modules/v1/TradeModule.sol: the manager swaps one    *)
(* component for another on an exchange and the default positions follow   *)
(* the balances.                                                           *)
(***************************************************************************)
EXTENDS Vault

CONSTANT TradeProtocolFee  \* the protocol's share of what a trade receives

ASSUME TradeAssumption == TradeProtocolFee \in Nat

\* The exchange, called through its adapter, takes at most what the SetToken
\* approved and pays any amount of another token.
ExchangeOutcomes(sendToken, totalSendQuantity, receiveToken) ==
    {o \in [sent : 0..totalSendQuantity, paid : 0..MaxBalance] :
        sendToken # receiveToken}

\* _updateSetTokenPositions: the send token's position, then the receive
\* token's.  pre and post are the balances before and after the exchange.
updateSetTokenPositions(p, sendToken, receiveToken, pre, post) ==
    LET editReceive(q) ==
            calculateAndEditDefaultPosition(q, receiveToken, totalSupply,
                                            pre[receiveToken], post[receiveToken])
    IN  Then(calculateAndEditDefaultPosition(p, sendToken, totalSupply,
                                             pre[sendToken], post[sendToken]),
             editReceive)

trade(sendToken, sendQuantity, receiveToken, minReceiveQuantity) ==
    LET totalSendQuantity == getDefaultTotalNotional(totalSupply, sendQuantity)
        totalMinReceiveQuantity ==
            getDefaultTotalNotional(totalSupply, minReceiveQuantity)
    IN  /\ totalSendQuantity > 0
        /\ hasSufficientDefaultUnits(positions, sendToken, sendQuantity)
        /\ \E o \in ExchangeOutcomes(sendToken, totalSendQuantity, receiveToken) :
             LET protocolFee == getModuleFee(TradeProtocolFee, o.paid)
             IN  /\ o.sent <= balances[sendToken]
                 /\ o.paid >= totalMinReceiveQuantity
                 /\ protocolFee <= o.paid
                 /\ balances' = [balances EXCEPT ![sendToken] = @ - o.sent,
                                     ![receiveToken] = @ + o.paid - protocolFee]
                 /\ balances'[receiveToken] <= MaxBalance
                 /\ positions' \in updateSetTokenPositions(positions, sendToken,
                                        receiveToken, balances, balances')
        /\ UNCHANGED totalSupply

=============================================================================
