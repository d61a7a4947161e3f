---------------------------- MODULE DeployHelper ----------------------------
(***************************************************************************)
(* The DeployHelper of utils/deploys: one deploy method per contract, kept  *)
(* in nine classes.  A method is a RECIPE: the kinds of the contracts whose *)
(* addresses it takes, as constructor arguments or as libraries to link.    *)
(* The arguments that are no contracts (accounts, amounts, names) say       *)
(* nothing about what must be on chain and are left out, and so are the     *)
(* get... methods, which attach to an address and send nothing.             *)
(*                                                                         *)
(* A parameter is an untyped address.  Its kind here is the contract the    *)
(* fixtures and the specs pass for it.                                     *)
(***************************************************************************)
EXTENDS Naturals, FiniteSets, TLC

\* The recipes of contracts that take nothing, and of those that take one kind.
Plain(kinds) == [k \in kinds |-> {}]
Under(kind, kinds) == [k \in kinds |-> {kind}]

\* deployLibraries.ts: nothing is linked into a library of the protocol.
DeployLibraries ==
  Plain({"Compound", "AaveV2", "PerpV2", "PositionV2", "PerpV2LibraryV2",
         "PerpV2Positions"})

\* deployCoreContracts.ts
DeployCoreContracts ==
  [ Controller          |-> {},
    SetTokenCreator     |-> {"Controller"},
    SetToken            |-> {"StandardTokenMock", "BasicIssuanceModule", "Controller"},
    PriceOracle         |-> {"Controller", "StandardTokenMock", "WETH9", "OracleMock"},
    IntegrationRegistry |-> {"Controller"},
    SetValuer           |-> {"Controller"} ]

\* deployModules.ts: the modules whose constructor takes addresses only.
DeployModules ==
  Under("Controller",
        {"BasicIssuanceModule", "IssuanceModule", "DebtIssuanceModule",
         "DebtIssuanceModuleV2", "SlippageIssuanceModule", "AmmModule",
         "StreamingFeeModule", "AirdropModule", "TradeModule", "ClaimModule",
         "StakingModule", "GovernanceModule"})
  @@ [ WrapModule                    |-> {"Controller", "WETH9"},
       CustomOracleNavIssuanceModule |-> {"Controller", "WETH9"},
       SingleIndexModule             |-> {"Controller", "WETH9", "UniswapV2Router02",
                                          "ExchangeProxy"},
       GeneralIndexModule            |-> {"Controller", "WETH9"} ]

\* What both PerpV2 modules take: three Perpetual contracts and three libraries.
PerpParams == {"Controller", "PerpV2Vault", "PerpV2Quoter", "PerpV2MarketRegistry",
                     "PositionV2", "PerpV2LibraryV2", "PerpV2Positions"}

\* deployModules.ts: the modules that are linked, or that take the address of
\* another protocol's factory.
DeployLinkedModules ==
  [ CompoundLeverageModule   |-> {"Controller", "Comp", "Comptroller", "CEther", "WETH9",
                                  "Compound"},
    AaveLeverageModule       |-> {"Controller", "AaveV2LendingPoolAddressesProvider",
                                  "AaveV2"},
    NotionalTradeModule      |-> {"Controller", "WrappedfCashFactoryMock", "WETH9"},
    WrapModuleV2             |-> {"Controller", "WETH9"},
    PerpV2LeverageModuleV2   |-> PerpParams,
    PerpV2BasisTradingModule |-> PerpParams ]

\* deployAdapters.ts, up to the Rari migration adapter.
DeployAdapters ==
  Under("UniswapV2Router02",
        {"UniswapV2AmmAdapter", "UniswapV2ExchangeAdapter",
         "UniswapV2TransferFeeExchangeAdapter", "UniswapV2ExchangeAdapterV2",
         "UniswapV2IndexExchangeAdapter"})
  @@ [ KyberExchangeAdapter           |-> {"KyberNetworkProxyMock"},
       OneInchExchangeAdapter         |-> {"OneInchExchangeMock"},
       AaveGovernanceV2Adapter        |-> {"AaveGovernanceV2", "AaveTokenV2Mintable"},
       CompClaimAdapter               |-> {"ComptrollerMock"},
       BalancerV1IndexExchangeAdapter |-> {"ExchangeProxy"},
       CompoundLikeGovernanceAdapter  |-> {"CompoundGovernorAlpha", "Comp"},
       CompoundBravoGovernanceAdapter |-> {"CompoundGovernorBravoDelegator", "Comp"},
       CurveStakingAdapter            |-> {"GaugeControllerMock"},
       RgtMigrationWrapAdapter        |-> {"TribePegExchangerMock"} ]

\* deployAdapters.ts, from the Uniswap pair price adapter on.
DeployMoreAdapters ==
  Under("SwapRouter",
        {"UniswapV3IndexExchangeAdapter", "UniswapV3ExchangeAdapter",
         "UniswapV3ExchangeAdapterV2"})
  @@ [ UniswapPairPriceAdapter     |-> {"Controller", "UniswapV2Factory", "UniswapV2Pair"},
       ZeroExApiAdapter            |-> {"ZeroExMock", "WETH9"},
       SnapshotGovernanceAdapter   |-> {"DelegateRegistry"},
       SynthetixExchangeAdapter    |-> {"SynthetixExchangerMock"},
       KyberV3IndexExchangeAdapter |-> {"DMMRouter02", "DMMFactory"},
       CompoundWrapV2Adapter       |-> {"Compound"},
       YearnWrapV2Adapter          |-> {},
       AaveV2WrapV2Adapter         |-> {"AaveV2LendingPool"},
       CurveExchangeAdapter        |-> {"WETH9", "StandardTokenMock", "CurveStableswapMock"},
       CurveStEthExchangeAdapter   |-> {"WETH9", "StandardTokenMock",
                                        "CurveStableswapMock"} ]

\* deployViewers.ts
DeployViewers ==
  [ ProtocolViewer             |-> {},
    PerpV2LeverageModuleViewer |-> {"PerpV2LeverageModuleV2", "PerpV2AccountBalance",
                                    "PerpV2ClearingHouseConfig", "PerpV2QuoteToken"} ]

\* deployProduct.ts
DeployProduct ==
  [ AssetLimitHook |-> {"SetToken", "StandardTokenMock", "WETH9"},
    AMMSplitter    |-> {"UniswapV2Router02", "UniswapV2Factory"},
    APYRescue      |-> {"StandardTokenMock", "BasicIssuanceModule"},
    TokenEnabler   |-> {"Controller", "StandardTokenMock"} ]

\* deployOracles.ts
DeployOracles ==
  [ CTokenOracle     |-> {"CERc20", "OracleMock"},
    YearnVaultOracle |-> {"Vault", "OracleMock"} ]

\* deployExternal.ts: Compound and WETH.  PriceOracleProxy gets the zero
\* address for its four markets, so it needs the price oracle only.
DeployCompound ==
  Plain({"Comp", "CompoundTimelock", "CompoundGovernorBravoDelegate",
         "CompoundPriceOracleMock", "Comptroller", "Unitroller",
         "WhitePaperInterestRateModel", "WETH9"})
  @@ [ CompoundGovernorAlpha          |-> {"CompoundTimelock", "Comp"},
       CompoundGovernorBravoDelegator |-> {"CompoundTimelock", "Comp",
                                           "CompoundGovernorBravoDelegate"},
       CERc20           |-> {"StandardTokenMock", "Comptroller",
                             "WhitePaperInterestRateModel"},
       CEther           |-> {"Comptroller", "WhitePaperInterestRateModel"},
       PriceOracleProxy |-> {"CompoundPriceOracleMock"} ]

\* deployExternal.ts: Aave V2, its libraries and its governance.
DeployAaveV2 ==
  Plain({"AaveV2LendingPoolAddressesProvider", "AaveV2LendingPoolConfigurator",
         "AaveV2LendingPoolCollateralManager", "AaveV2LendingRateOracle",
         "AaveV2PriceOracle", "AaveV2AToken", "AaveV2StableDebtToken",
         "AaveV2VariableDebtToken", "GenericLogic", "ReserveLogic", "Executor",
         "AaveTokenV2Mintable"})
  @@ [ AaveV2LendingPool |-> {"ValidationLogic", "ReserveLogic"},
       ValidationLogic   |-> {"GenericLogic"},
       AaveV2Oracle      |-> {"AaveV2PriceOracle", "WETH9"},
       AaveV2DefaultReserveInterestRateStrategy |-> {"AaveV2LendingPoolAddressesProvider"},
       AaveV2ProtocolDataProvider               |-> {"AaveV2LendingPoolAddressesProvider"},
       AaveV2StakedTokenIncentivesController    |-> {"AaveTokenV2Mintable", "Executor"},
       AaveGovernanceV2   |-> {"GovernanceStrategy", "Executor"},
       GovernanceStrategy |-> {"AaveTokenV2Mintable"} ]

\* deployExternal.ts: Curve and Uniswap V2.
DeployCurveAndUniswap ==
  Plain({"CurvePoolERC20", "CRVToken", "Uni", "UniswapTimelock", "UniswapV2Factory",
         "UniswapV2Pair"})
  @@ [ CurveDeposit         |-> {"StandardTokenMock", "Stableswap", "CurvePoolERC20"},
       Stableswap           |-> {"StandardTokenMock", "CurvePoolERC20"},
       GaugeController      |-> {"CRVToken"},
       Minter               |-> {"CRVToken", "GaugeController"},
       LiquidityGauge       |-> {"CurvePoolERC20", "Minter"},
       LiquidityGaugeReward |-> {"CurvePoolERC20", "Minter", "StakingRewards", "Uni"},
       UniswapGovernorAlpha |-> {"UniswapTimelock", "Uni"},
       UniswapV2Router02    |-> {"UniswapV2Factory", "WETH9"},
       StakingRewards       |-> {"Uni", "UniswapV2Pair"} ]

\* deployExternal.ts: Balancer, Snapshot, Yearn, Kyber, Uniswap V3, PerpV2 and
\* Notional.  A WrappedfCashFactory takes a beacon, which the spec deploys over a
\* WrappedfCash.
DeployOtherExternal ==
  Plain({"BFactory", "DelegateRegistry", "Vault", "Registry", "KyberNetworkTokenV2",
         "DMMFactory", "DMMPool", "UniswapV3Factory", "NFTDescriptor",
         "PerpV2OrderBook", "PerpV2MarketRegistry", "PerpV2QuoteToken", "PerpV2Vault",
         "PerpV2TestAggregatorV3", "PerpV2ChainlinkPriceFeed", "PerpV2BaseToken",
         "PerpV2ClearingHouseConfig", "PerpV2InsuranceFund", "PerpV2AccountBalance",
         "PerpV2Exchange", "PerpV2ClearingHouse"})
  @@ [ ExchangeProxy |-> {"WETH9"},
       BRegistry     |-> {"BFactory"},
       DMMRouter02   |-> {"DMMFactory", "WETH9"},
       SwapRouter    |-> {"UniswapV3Factory", "WETH9"},
       NonfungiblePositionManager |-> {"UniswapV3Factory", "WETH9", "NFTDescriptor"},
       Quoter        |-> {"UniswapV3Factory", "WETH9"},
       PerpV2Quoter  |-> {"PerpV2MarketRegistry"},
       WrappedfCash  |-> {"WETH9"},
       WrappedfCashFactory |-> {"WrappedfCash"} ]

\* deployMocks.ts, up to the staking adapter mock.
DeployMocks ==
  Plain({"ExplicitERC20Mock", "InvokeMock", "ManagerIssuanceHookMock",
         "ModuleIssuanceHookMock", "NAVIssuanceHookMock", "AddressArrayUtilsMock",
         "Uint256ArrayUtilsMock", "GovernanceAdapterMock", "OracleMock",
         "YearnVaultMock", "PositionMock", "PreciseUnitMathMock",
         "ResourceIdentifierMock"})
  @@ Under("Controller", {"ModuleBaseMock", "ModuleBaseV2Mock", "GodModeMock",
                          "DebtModuleMock"})
  @@ Under("StandardTokenMock", {"CurveStableswapMock", "OracleAdapterMock",
                                 "StakingAdapterMock"})
  @@ [ NAVIssuanceCaller     |-> {"CustomOracleNavIssuanceModule"},
       KyberNetworkProxyMock |-> {"WETH9"},
       OneInchExchangeMock   |-> {"StandardTokenMock", "WETH9"},
       ZeroExMock            |-> {"StandardTokenMock", "WETH9"},
       PositionV2Mock        |-> {"PositionV2"} ]

\* deployMocks.ts: the tokens, and the mocks up to the debt issuance mock.
DeployTokenAndLendingMocks ==
  Plain({"StandardTokenMock", "StandardTokenWithFeeMock",
         "StandardTokenWithRoundingErrorMock", "TradeAdapterMock", "WrapAdapterMock",
         "AaveLendingPoolCoreMock", "UniswapV3MathMock", "UnitConversionUtilsMock",
         "ClaimAdapterMock", "GaugeControllerMock", "ContractCallerMock",
         "DebtIssuanceMock"})
  @@ [ AmmAdapterMock         |-> {"StandardTokenMock"},
       AaveLendingPoolMock    |-> {"AaveLendingPoolCoreMock"},
       AaveV2Mock             |-> {"AaveV2"},
       PerpV2Mock             |-> {"PerpV2"},
       PerpV2LibraryV2Mock    |-> {"PerpV2LibraryV2"},
       PerpV2PositionsMock    |-> {"PerpV2Positions"},
       SetTokenAccessibleMock |-> {"Controller"} ]

\* deployMocks.ts, from the comptroller mock on.
DeployMoreMocks ==
  Plain({"SynthMock", "CustomSetValuerMock", "ForceFunderMock", "WrapV2AdapterMock",
         "ChainlinkAggregatorMock", "StringArrayUtilsMock", "BytesArrayUtilsMock",
         "WrappedfCashFactoryMock"})
  @@ [ ComptrollerMock        |-> {"StandardTokenMock"},
       CompoundMock           |-> {"Compound"},
       SynthetixExchangerMock |-> {"SynthMock"},
       YearnStrategyMock      |-> {"Vault"},
       TribePegExchangerMock  |-> {"StandardTokenMock"},
       WrappedfCashMock       |-> {"StandardTokenMock", "WETH9"} ]

\* The helper holds one instance of every class: whatever one of them deploys
\* can be deployed through it.
Recipes ==
  DeployLibraries @@ DeployCoreContracts @@ DeployModules @@ DeployLinkedModules
  @@ DeployAdapters @@ DeployMoreAdapters @@ DeployViewers @@ DeployProduct
  @@ DeployOracles @@ DeployCompound @@ DeployAaveV2 @@ DeployCurveAndUniswap
  @@ DeployOtherExternal @@ DeployMocks @@ DeployTokenAndLendingMocks
  @@ DeployMoreMocks

Kinds == DOMAIN Recipes

\* What SystemFixture.initialize deploys, one of each kind (it deploys three
\* tokens and four oracles).
SystemFixture ==
  { "Controller", "BasicIssuanceModule", "WETH9", "StandardTokenMock", "OracleMock",
    "SetTokenCreator", "PriceOracle", "IntegrationRegistry", "SetValuer",
    "StreamingFeeModule", "CustomOracleNavIssuanceModule" }

-----------------------------------------------------------------------------
\* Everything that must be on chain before a contract of this kind can be, and
\* the contract itself.  No chain of recipes is longer than MaxDepth.
MaxDepth == 6

Needs ==
  LET upTo[n \in 0..MaxDepth] ==
        IF n = 0 THEN [kind \in Kinds |-> {kind}]
        ELSE LET below == upTo[n - 1] IN
             [kind \in Kinds |-> below[kind] \cup UNION {Recipes[k] : k \in below[kind]}]
  IN  upTo[MaxDepth]

\* No contract needs infinitely many others.
ASSUME NeedsAssumption == IsFiniteSet(SystemFixture) /\ \A kind \in Kinds : IsFiniteSet(Needs[kind])

=============================================================================
