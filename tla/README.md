# Set Protocol V2: TLA+ models and proofs

This directory holds TLA+ models of the contracts of this repository (Set
Protocol V2 with the additions under `contracts/custom`) and of the TypeScript
that builds, deploys and tests them (`utils`, `tasks`), TLC configurations that
check them on small instances, and theorems checked by TLAPS for all instances.

Contents: [the system](#the-system) · [inventory](#inventory) ·
[modules and code](#modules-and-code) · [runs](#runs) ·
[findings](#findings) · [proofs](#proofs) · [what is left out](#what-is-left-out) ·
[plan](#plan) · [running](#running)

## The system

A SetToken is an ERC20 token that stands for a basket of *components*. For each
component it stores a *default position*, the units of the component held per
SetToken, and any number of *external positions*, units that a module holds
elsewhere (staked, lent, owed). All other behaviour is in *modules*, separate
contracts that the SetToken's manager adds and the Controller admits: issuing
and redeeming, trading, charging fees, rebalancing, staking, borrowing. Modules
share nothing but the SetToken: they edit its positions, mint and burn its
supply, and move its components through `invoke`.

Every external call is a transaction: it runs alone and either completes or
reverts without a trace. There are no threads, and no messages get lost. What is
hard is the *order* of transactions of parties that know nothing of each other
(holders, managers, traders, keepers, the protocol's owner, anybody who sends
tokens), over state that is stored twice (an array and a mapping; the
SetToken's units and a module's own), in integer arithmetic that rounds in
every step. A handler is therefore one action of a model, a `require` that fails
is a guard that is false, and the models explore the orders and the roundings.

Stored units are *virtual*: real unit = virtual unit x multiplier / 10^18,
rounded. A fee lowers the multiplier, and with it every position at once, and
mints SetTokens to the fee's recipients.

The TypeScript around the contracts is a system of its own. `yarn build` runs
typechain through a Hardhat subtask that rewrites files under version control
and restores them. `yarn test` starts a Mocha process against a Hardhat node that
was started separately. The hooks of the specs deploy contracts through one
`DeployHelper`, and two *sandboxes* take and restore snapshots of the node around
each test. Here failures are real: a hook may throw half way, a process may be
killed, and the files and the node outlive it.

## Inventory

| part | state | operations | talks to | what makes it correct |
|---|---|---|---|---|
| SetToken | components, units, external positions, multiplier; modules and their states, manager, lock; supply | edits of positions and multiplier, mint/burn, add/initialize/remove module, lock/unlock, setManager, invoke | Controller (is the module enabled?), modules (calls back on removal) | lists match what is stored; no tracked position rounds away; the lock holds; wind-down is final |
| Position, PreciseUnitMath, AddressArrayUtils | none | unit conversions and rounding; list search and removal | used by everything | signs and bounds of roundings; removal removes one entry |
| Controller, IntegrationRegistry | arrays, flags, resource identifiers, fees; integrations per module | the owner's additions, edits and removals; registration of new SetTokens | consulted by all | array = flags = identifiers |
| BasicIssuanceModule, TradeModule, StreamingFeeModule, AirdropModule | the fee state; the airdrop settings | issue, redeem; trade; accrue, update; absorb | SetToken, exchanges, holders | positions stay backed; no rounding favours the caller; fees are not retroactive |
| DebtIssuanceModule (V1, V2), StakingModule | fee settings; stakes per contract | issue/redeem with hooks; stake/unstake | each other through hooks, staking contracts | the two records of a stake agree; stakes and tokens together back the positions |
| GeneralIndexModule | targets, trade sizes, cool-off, permissions, rebalance multiplier | startRebalance, trade, tradeRemainingWETH, raiseAssetTargets, settings | SetToken, exchanges, traders | trades stop at targets; a rebalance settles; nobody unpermitted trades |
| MultiSigOperator | one rebalance and one operation proposal, confirmations | submit, confirm, revoke, execute, priority | ICManager | quorum at execution, one execution per submission |
| ICManager (MutualUpgrade, TimeLockUpgrade) | two roles, fee split, registered calls, time lock | mutual changes, fee changes, distribution, pass-through calls | SetToken, StreamingFeeModule, modules | changes take both parties; splits and fees are not retroactive |
| CustomOracleNAVIssuanceModule, SetValuer | reserve assets, fees, premium, minimum supply | issue and redeem for a reserve asset, the manager's settings; valuation | SetToken, PriceOracle, holders | who enters or leaves at net asset value does not dilute the others |
| test sandboxes (`testingUtils.ts`, `blockchainUtils.ts`) | a stack of snapshot identifiers, a flag and an identifier per sandbox a suite sets up; the node's chain and snapshots | first and later runs of a cache, snapshot and restore around a test | Mocha (order of hooks), the node | every test starts in the world of its fixture; addresses kept by a spec still hold the contract they held |
| `DeployHelper` and `SystemFixture` | none of its own | one deploy method per contract | the hooks of the specs | every contract can be deployed, in some order, from what the helper deploys |
| typechain subtask | artifacts on disk | add gas limits, generate, remove them | typechain, version control | a run that succeeds leaves what is committed |
| reference arithmetic of the tests | none | roundings, expected results of NAV issuance | the specs | agrees with the contracts but for known roundings |
| other issuance modules, leverage modules, Wrap/Amm/Claim/Governance, SingleIndex, oracles, products | | | | see [plan](#plan) |

`PROJECT.json` lists every part with its files and how far it is modelled
(`components`), and the behaviours that are hard to test, each at its line
(`hazards`).

## Modules and code

Names of definitions are those of the source. A function that reverts in some
states is an operator that returns a *set* of results, empty when it reverts
(`require` and `Then` in `Positions`); a transaction takes `positions'` out of
that set. Definitions marked "Faulty variant for mutation" are not part of any
specification: each is a plausible mistake, and replacing the original by it
makes a run report a violation.

| module | models | notes |
|---|---|---|
| `PreciseUnitMath`, `AddressArrayUtils` | `lib/` | pure operators; `PRECISE_UNIT` is a constant, so that small instances round as often as 10^18 does |
| `Positions` | position storage of `SetToken.sol`, `lib/Position.sol` | one record for the storage, functions from record to set of records; the unit arithmetic of the library takes the supply and the balances as arguments |
| `PositionBook` | all edits of positions by any module | the abstract specification: what may happen to positions, whoever acts. `PerpModules` are those that write units in hooks without the library |
| `SetToken` | `SetToken.sol` | module life cycle, lock, manager, supply, Controller flags. An edit through the library is one action for the calls it makes |
| `Vault` | what the modules share: balances, supply, `lib/ModuleBase.sol` | base of the compositions below; `Surplus(c)`, what the SetToken holds beyond what its supply is owed, is the measure their properties share |
| `BasicIssuanceModule`, `TradeModule`, `StreamingFeeModule`, `AirdropModule` | the contracts of these names | an exchange may take and pay anything the module accepts |
| `Fund` | SetToken with the first three | composition: issuance, trades, donations and fees in any order |
| `FundWithAirdrops` | `Fund` with the AirdropModule | composition |
| `DebtIssuanceModule`, `DebtIssuanceModuleV2`, `StakingModule` | the contracts of these names | V2's transfers move up to a wei more or less than asked |
| `StakedFund` | these with the StreamingFeeModule | composition: the staking hooks run inside issue and redeem |
| `GeneralIndexModule`, `IndexFund` | the contract; its composition with issuance and fees | see fairness below |
| `Controller`, `IntegrationRegistry` | the contracts, SetTokenCreator's registration | the registry consults the Controller's flags |
| `SetValuer`, `NAVIssuanceModule` | `SetValuer.sol`, `CustomOracleNAVIssuanceModule.sol` | prices are chosen anew for every call, missing ones included |
| `MathUtils`, `NAVExpectations` | `utils/common/mathUtils.ts`, `navIssuanceModuleUtils.ts` | the tests' own arithmetic, with the division of `BigNumber` |
| `NAVFund` | SetToken with BasicIssuanceModule and NAV issuance | composition; compares the contract with `NAVExpectations`: the supply (`SupplyAsExpected`) and the reserve's side (`ExpectationsWithinRounding`) |
| `DeployHelper` | `utils/deploys`, `SystemFixture.initialize` | a deploy method is a recipe: the kinds of contract it takes |
| `Blockchain` | `utils/common/blockchainUtils.ts` over the node | an address is the place of a deployment in the chain, so a revert frees it for the next one |
| `TestSandbox` | `cacheBeforeEach`, `addSnapshotBeforeRestoreAfterEach` | with Mocha's order of hooks, throwing hooks, killed processes |
| `TestIsolation` | what a sandbox promises | abstract specification, implemented by `TestSandbox` |
| `GasMods` | `tasks/subtasks.ts`, `utils/tasks/artifactUtils.ts` | an artifact is the gas field of each element of its ABI; a file may be torn |
| `Toolchain` | `yarn build && yarn test` | composition: typechain, then a session of tests |
| `MultiSigOperator` | the contract | `assent` is history: whose last word on the current submission is a confirmation |
| `ICManager`, `ManagerConsent` | the contract with MutualUpgrade and TimeLockUpgrade; its next-state relation with the history of calls | a call is a function name and an argument, which is what the hash of the call data identifies |
| `*Proofs` | | theorems, see [proofs](#proofs) |
| `MC*` | | sets and definitions for TLC; the other runs check a composition directly |

Abstractions that matter:

* **Holders.** Who holds how many SetTokens is not tracked, only the supply;
  any part of the supply may be redeemed at any time.
* **Initialization flags.** In the compositions each removable module has a flag
  for "INITIALIZED on the SetToken"; that the flag means what it says, under the
  lock and the Controller, is what `SetToken` and its theorems are about.
* **Tokens** move exactly what they are asked to move, as `ExplicitERC20`
  demands; only V2 of the debt issuance allows deviations, and has them.
* **External**: exchanges (`ExchangeOutcomes`, `Swaps`), donations, the clock,
  the SetToken's manager after the ICManager handed over, whom the ICManager was
  made to approve, and who sends it SetTokens. They may do anything
  the code accepts.
* **Lists**: setters that take arrays are modelled for one entry, except where
  one transaction's entries interact (airdrops absorbed in a batch,
  integrations added in a batch).
* **Prices** (`Quotes`) are whatever an oracle may report at each call; a price of
  zero stands for an asset without one, for which the valuation reverts.
* **Suites.** A spec file is a tree of suites, each with the hooks it registers,
  in order. Flags, snapshots and handles belong to a hook, as they do in the code:
  each call of `cacheBeforeEach` has its own, and `curveExchangeALM.spec.ts` makes
  two in one suite. `Forests` are the shapes the specs of `test/` have;
  `ForestsAssumption` says what the proofs use of them. Suites are numbered as
  Mocha visits them. No file uses both sandboxes, as no spec does. And hooks that
  deploy around a test come in the order of the specs (`DeployedInOrder`): `before`
  hooks ahead of the first `cacheBeforeEach`, which otherwise would take their
  contracts back; a plain `beforeEach` after the last, which otherwise would go back
  to the world of the first test, where the addresses the hook has just stored hold
  something else; and a `before` hook inside of a plain `beforeEach` deploys only what
  takes no other contract, for it runs ahead of every `beforeEach` (the mocks of
  `basicIssuanceModule.spec.ts`). Nothing in the code enforces this order: the
  sandbox promises a spec that breaks it nothing.
* **Chain.** A transaction is an entry of the chain; `by`, `file` and `session` of
  an entry are history, for the properties only. Moving the node's clock is an
  entry like every other.

## Runs

Bounds are chosen so that quotients round: a `PRECISE_UNIT` of 2 or 4 with
units, supplies and balances of the same size makes nearly every product
inexact, which real sizes do too, and finds in few steps what accumulates slowly
with 18 decimals. `MaxBalance`, `MaxSupply`, `MaxTime`, `MaxCalls`,
`MaxSubmissions`, `MaxRoundings` bound counters; each only disables steps.

| run | model and bounds | shows |
|---|---|---|
| `settoken` | `SetToken`: 2 components, a permanent module and a PerpV2 module, units -1..1, multipliers 1..3 at `PRECISE_UNIT` 2 (1 is refused while a position would vanish, 3 makes positive units unrepresentable and debts round up) | position lists exact, nothing left behind, no position vanishes, in any order of openings, resizings, closings and multiplier changes; module list, lock and wind-down |
| `fund` | `Fund`: 2 components, balances to 3, supply to 6, 2 time units | positions backed until a fee; only a fee shrinks a surplus; a fee never raises the total claim; the fee commitment |
| `fund_airdrops` | `Fund` with AirdropModule, lists of up to two tokens with repetitions | absorption never takes tracked collateral, fee not retroactive, flags match the list |
| `controller` | 2 of everything, initial lists and batches of up to 2 entries (`MaxListLength`, `MaxBatch`) | arrays = flags = identifiers |
| `multisig` | 3 owners, quorums 2 and 3, 2 submissions of each kind | counting, quorum, one execution |
| `manager_consent` | 2 interchangeable accounts (symmetry) in 2 roles (one may hold both), 2 splits, periods 0 and 2, 4 time units, the ICManager's balance to 1, so that accruals and transfers in and out are of 1 | consent, split, notice |
| `manager_handover` (violation) | 2 accounts, no fee changes | see findings |
| `staked_fund` | 1 component, 2 staking contracts, both issuance modules, manager fees, no streaming fee | stakes recorded alike, backed, shortfall bounded; V2's checks suffice |
| `staked_fund_fee` (violation) | the same with streaming fees | see findings |
| `index_rebalance` | WETH and a component, `PRECISE_UNIT` 4, supply to 5, balances to 4, a protocol fee of a quarter, one other multiplier, targets 0 and 2, trade size 3, an exchange at par, a cool-off period, tokens sent in one at a time, 2 manager calls | trades stop at targets, uncut trades meet them, permissions cleared, rebalance settles |
| `nav_issuance` | `NAVFund`: a stable coin of 2 base units as master quote asset, a component priced 1, 1.5 or not at all, balances and supply to 4, fee and premium of one half | no rounding of an issuance or redemption at net asset value costs the other holders; the contract and the tests' arithmetic stay within their roundings of each other |
| `toolchain` | `Toolchain`: 2 artifacts, 3 typechain runs on 3 networks; every contract of `DeployHelper` as the subject of a file, and seven sessions of nested suites, one with two caches in a suite, one with a `before` hook inside of a `beforeEach`; 1 kill | tests isolated (refinement of `TestIsolation`), handles live, no leftovers, stack exact, artifacts restored |

Why they are large enough: every action fires, and for every property there is
a mutant of the code, listed in `PROJECT.json`, that the same run catches. Two
components are enough where components only interact through the component list
and a trade's two sides; two staking contracts are enough for roundings to add
up; three owners separate the two quorums. In `index_rebalance` a supply of five
quarters makes the notional amounts of target and holdings inexact, trades of at
most 3 cut the larger ones short, and a multiplier of three quarters brings
the target of 2 down to 1, which is where the module's check of a target reverts
(below); the purchases to a target of 2 that nothing cuts short are among the states. The
theorems about `IndexFund` hold for every set of exchange rates, those about
`ManagerConsent` for every balance.

`index_rebalance`, `nav_issuance` and `toolchain` say `CHECK_DEADLOCK FALSE`: with
balances at their bound and the manager's calls used up nothing may be left to do
in the first, with a supply that no price lets grow or shrink within the bounds in
the second, and a session of tests ends. All others check for deadlock.

**What some properties say precisely.** `CollateralizedUntilFee` is restricted
to multiplier = 1 because it fails afterwards, though StreamingFeeModule says
(line 81) that units are adjusted down "to ensure full collateralization": the
real unit is rounded down from the virtual one, so it may stay the same when
multiplier and supply change, and SetTokens issued at that rounded unit are then
owed more than they brought in. TLC finds it (`CollateralizedUntilFee` without its
premise) after an accrual, an issuance and a second accrual; the shortfall is
below one base unit per whole SetToken and accrual, but the last redemption
reverts. `SurplusKept` and `AccrualConservesClaims` are what remains true with
fees. `BackingKept` is their counterpart for issuance at net asset value: the claim
of the whole supply on components that do not move is compared before rounding,
the surplus of the reserve that moves after it. In
`IndexFund`, `SurplusKept` excepts a trade that leaves none of a token: a
purchase may spend the whole WETH balance, tokens that came in besides included,
and the unit is then set to zero without comparing. `NoOvershoot` and
`FullTradeMeetsTarget` ask for a supply of one whole SetToken, below which a unit
is finer than the balance can express, and for a component that is fully held:
when the SetToken holds less than the units claim, selling all of it closes the
position whatever its target. `NoOvershoot` allows for the one wei that a unit may
lose when it is stored as a virtual unit; the proof needs exactly this allowance,
and a multiplier of at most one.

"Met" is what the module's own check returns (`targetMet`). Its comment
(GeneralIndexModule.sol:986) says that a target of zero is compared exactly "to
avoid subtraction overflow errors"; the subtraction is from the current unit,
though, so that it is a target of one wei, normalized, of a component with no unit
that makes the check revert instead of allowing for the difference. `raiseAssetTargets` then
fails, as it does for a target that is unmet. `approximatelyEquals` says so, and
the properties count such a target as not met: `FullTradeMeetsTarget` and
`RebalanceSettles` promise that the check succeeds. A purchase to a target of one
wei ends with a unit of one, and the proof needs for it that a positive unit, stored
as a virtual one, is never read back as zero (`PositionBookProofs`).

`SplitNotRetroactive` is about what is left to distribute. The operator reaches the
SetToken through `interactModule`, as the holder of the ICManager's balance too:
what it transfers, or approves others to take, goes by no split, and the
methodologist has no part in that. A transfer does not tell of which accrual the
tokens are, so the model keeps the set of splits under which anything came in since
the balance was last empty. Tokens that anyone sends to the ICManager are paid out
with the fees and count as coming in under the split of the day.

`SupplyAsExpected` and `ExpectationsWithinRounding` bound the distance between the
contract and `navIssuanceModuleUtils.ts` instead of asking for equality, which the
specs do for the quantities they try. They differ in four places: the helper
divides before it multiplies in the multiplier, where the contract multiplies first
(its comment "Round inflation up" is from an earlier form); it rounds a unit through
the multiplier once more; it deducts one manager fee where the contract deducts the
protocol's share and the rest separately; and for a reserve with fewer decimals it
converts after the premium and the fees, the contract before them. With equal fees
the minted quantity agrees exactly, and with 18 decimals the redeemed one too. The
first property says what holds of the supply and the multiplier, and is proved for
every size; the second what holds of the reserve, its tolerance being the reserve
quantities' own distance spread over the supply and one rounding in each direction
between real and virtual units. Its bounds of two and three base units for reserves
with fewer decimals are those the run finds sharp enough to catch a mutant.

`HandlesLive`, `NoLeftovers` and `TestsIsolated` speak of the moment a test's body
starts. `TestsIsolated` leaves entries of other files and of killed processes out
of a test's world: no sandbox removes them, because `cacheBeforeEach` reverts
nothing after the last test of a file, and a new process starts on whatever the
node holds. `NoLeftovers` counts them as part of what the sandbox saved, and asks
nothing of tests that no sandbox is around.
`ArtifactsRestored` speaks of runs that succeed. A run that throws or is killed
leaves gas limits in the files, against the comment's "without introducing any git
changes"; the next run that succeeds removes them, unless a file is torn, which
every later run fails on. On networks without a `gas` setting Hardhat's "auto"
makes the subtask throw before it writes anything.

**Fairness.** Only `IndexFund` has liveness, with weak fairness of `Time` (blocks
are mined) and of `Trade(c)`. The module is made for keepers who trade whatever is
tradable, and the comment in `_calculateTradeSizeAndDirection` reasons about
"never being able to meet target" on that basis. No fairness is assumed of
managers, holders, fees, `tradeRemainingWETH` or `raiseAssetTargets`.
`RebalanceSettles` concludes "at its target or not tradable": without enough
WETH, or with a cool-off at the end of the clock, a target is not reached, and
the code does not promise it. A faulty `tradeRemainingWETH` that does not check
the target afterwards makes traders buy and sell for ever.

## Findings

Two runs find what a comment of the code says violated by what it does; three more
such differences (StreamingFeeModule, line 81, GeneralIndexModule, line 986, and the
typechain subtask, line 31) are described with the properties above.

1. `staked_fund_fee`: the StakingModule's own units are real units, which a fee
   does not scale. After an accrual the hooks stake more per issued SetToken
   than the external position says.
2. `manager_handover`: `ICManager.interactModule` accepts the SetToken itself as
   "module", so the operator alone can change the SetToken's manager, for which
   `updateManager` asks both parties.

## Proofs

All proofs are checked by `tlapm`; they hold for every value of the constants
that satisfies the named assumptions (`PRECISE_UNIT` a positive natural number,
finite sets nowhere needed but for `Owners` and `StakingContracts`, units and fees natural or integer).
The theorems `PROJECT.json` lists under `theorems` are the results, the lemmas
are in the same modules.

* **`LibraryProofs`**: floor division is characterised by its bounds
  (`DivFloor`, `DivUnique`); `conservativePreciseMul` and `Div` keep signs;
  `push` and `removeStorage` on a list without duplicates add and remove exactly
  one entry (`AppendAbsent`, `RemoveStorageExact`).
* **`PositionBookProofs`**: `PositionsInv` (types, `ComponentsTracked`,
  `ExternalPositionsTracked`, `NoPositionVanishes` together) is inductive. None
  of its parts is so alone: that a closing position removes its component needs
  the module lists to be exact; that a library module's closed position is gone
  needs that a listed unit is visible, because the library decides by *real*
  units while storage holds *virtual* ones. One lemma per library function; the
  one for `editExternalPosition` passes through `StorageOKBut`, the invariant
  with one module's position excepted, because the library first lists the
  module and then writes unit and data.
* **`SetTokenProofs`**: every SetToken step is a `PositionBook` step or leaves
  `positions` alone, hence the refinement and the invariants carry over. Module
  list and lock follow from `LifecycleInv` (types, list = states, the locker is
  initialized): the lock argument needs that removal is refused while locked.
* **`VaultProofs`**: what issuance and redemption in kind, donations and swaps do
  to positions, balances and supply, for the three compositions below. The core is
  arithmetic: `PreciseMulCeilCovers` and `PreciseMulFloor` bound what an issuer
  pays and a redeemer gets; `StoredUnitBounds` shows that storing a real unit as a
  virtual one and reading it back never raises it (and loses at most one while the
  multiplier is at most one), so a swap's new unit times the supply is covered by
  the balance it left (`CalculateAndEditOK`, `PositionsFollowSwap`).
* **`FundProofs`**: three funds.
  - `Fund`: `FundInv` adds to types and `PositionsInv` that the fee is within its
    maximum, the last accrual is in the past, the multiplier never exceeds parity,
    and backing at parity. `FundStep` shows what each step owes (surplus kept,
    claims not raised), from which the action properties follow.
  - `NAVFund`: `NAVInv` adds to the vault's types and `PositionsInv` the types of
    the settings and a premium below one whole; without the latter a redemption
    could pay out more than its share. The proof follows a quantity through
    premium and fees (`FeesOfQuantity`, `IssuedSupply`, `RedeemedQuantity`), then
    through the division that sets the multiplier (`RescaledKeeps`). Prices do not
    enter: no valuation, right or wrong, lets an issuer dilute claims on what does
    not move.
    `SupplyAsExpected` follows from the same invariant: both sides are squeezed
    between the same products (`ScaledTwice`), whichever division comes first.
  - `FundWithAirdrops`: `AirdropFundInv` joins `FundInv`, the fee's bound and the
    agreement of list and flags, which needs that a removed module leaves an empty
    list behind. A batch is a recursive function over the list of tokens;
    `AbsorbingDefined` shows that the recursion is well founded and
    `AbsorbTokensKeep` is an induction over the list, both by a least
    counterexample (`LeastNatural`). `AbsorbedSoFar` carries through a batch that
    what was backed stays backed, and that no token already absorbed has more than
    a remainder of rounding left outside its position, even when the list names it
    again.
* **`IndexFundProofs`**: `TradersInv` (types, the history lists whom the mapping
  permits, nobody is permitted without the module) is inductive; removing the
  module empties the mapping only because the history reaches all of it. The
  run has one trader, the theorem any number. `IndexFundInv` (the vault's types,
  `PositionsInv`, the types of targets and trade sizes, a multiplier at most at
  parity) carries `SurplusKept`, `NoOvershoot` and `FullTradeMeetsTarget`: a trade
  is sized from the distance to the target in notional amounts, rounded, and the
  proofs turn the bounds on what is traded back into bounds on the unit.
* **`StakedFundProofs`**: everything the two runs of `StakedFund` check but the
  finding, for any set of components, any finite set of staking contracts
  (`StakingAssumption`), any quantities, fees of issuance, splits and roundings of
  transfers.
  - The properties speak of sums over the staking contracts, a fold that takes some
    element first and recurs on the rest. `SumsDefined` shows that this recursion is
    well founded; that a sum moves with one contract's units, is monotonic and
    scales is then an induction over the subsets of a finite set
    (`SubsetInduction`), where what is to be shown is given as the set of the subsets
    it holds of.
  - `StakedInv` is inductive. Beside the properties themselves it holds the types,
    that the positions are well formed, at parity, and external to no module but the
    StakingModule (`PositionsStaked`), and `ShortfallInUnits`, which compares supply
    times units with stakes and roundings *before* it is rounded to base units.
    `ShortfallBounded`, which compares rounded amounts, is not inductive by itself:
    the parts below a base unit that it forgets add up.
  - `DefaultStaysBacked` follows the transfers of DebtIssuanceModuleV2 through its
    checks: what they let through is at least what `getDefaultPositionUnit` of the
    new supply claims, whatever the component hooks have rounded away.
  - All theorems have the hypothesis `[]NoStreamingFee`: with a fee `StakingUnitsMatch` is
    false, which is the finding `staked_fund_fee`. The hypothesis is not empty:
    `StakedFundFeeless` proves it of every instance whose manager may only ask for a
    fee of zero, as that of the run `staked_fund`.
* **`SystemProofs`**: what stands around the SetTokens.
  - Controller and registry: `RegistryInv` states for each array that it lists its
    flags without repetition and for the identifiers that they are one to one with
    the resources flagged; `remove` takes away exactly one entry (`RemoveExact`).
  - MultiSigOperator and ICManager. In the first the counter is the cardinality of
    the flagged owners, for finite `Owners`; quorum and single execution follow. In
    the second `ConsentInv` adds to `MutualConsent` and `SplitNotRetroactive` that a
    registration which is open for a fee was made after the fee's last change
    (`NoticeOpenSinceChange`), without which the notice of an earlier change could
    serve again.
  - `GasMods` within `Toolchain`: `GasInv` says of an artifact that it is torn or
    readable, in the first loop that what is done has the limit of this network, in
    the second that nothing is torn and what is done is as committed. That the
    second loop meets no torn file is why a run that succeeds has restored all: the
    first loop has just read every one of them.
  - `TestSandbox` within `Toolchain`: `StackMatchesSuites`, for every session that
    `ForestsAssumption` allows and any number of kills. `cacheBeforeEach` pops
    the stack in a hook that Mocha runs late, so `StackInv` has to say where Mocha
    stands. `RunOK`: the hooks to run are hooks of suites around that place.
    `Behind`: an initialized cache belongs to a suite that Mocha has entered and
    will not enter again, so that entering a suite finds its caches
    uninitialized. `Stacked`: while a suite is left, only those of its caches count
    whose after hook is still to run. `IsStack`: identifiers grow from the
    bottom of the stack to the top, so that reverting to the topmost one, which makes
    the node forget all later ones, forgets none below it. `NoCacheAround`: where
    the other sandbox reverts, the stack is empty. Neither of the last two would
    hold if a file used both sandboxes.
  - `HandlesLive`, by `HandlesInv` beside `StackInv`. The chain goes back to
    snapshots and its addresses are given again, so it is not enough that handles
    are live now: what is held has to be live in every snapshot that may be restored
    while it is held. For the stack that is each snapshot not older than the
    hook (`Rank`, the number of caches initialized up to it; `BuiltInOrder` and
    `LastCache` say why a new snapshot goes on top of all that precede it), for the
    other sandbox the one its own hook took for this test (`SnapsPlaced`,
    `SnapsLive`). `Held` says when a hook's handles count: a `before` hook's and an
    initialized cache's until Mocha leaves their suite, those of a plain `beforeEach`
    until the test is over, and by `DoneOK` such a hook has not run when a cache
    restores. What a hook deploys is live whenever it stops, also when it
    throws, if what it finds and needs is (`DeploymentsLive`, by the least number at
    which it would not be; `NeedsAssumption`, that no contract needs infinitely many
    others, is what makes the deployments a finite sequence).
  - `NoLeftovers`, by `LeftInv` beside both. A later test goes back to the snapshot
    on top of the stack and saves another in its place, so what is on the stack
    need not be the snapshot that the initializer took: `SavedBuilt` says that the
    chain it holds is still the one the cache of that rank built. `WorldOK` follows a
    test from hook to hook: once a cache has run, the chain is what the last
    initialized cache built (`RankOnStack`: that one is on top) and what `beforeEach`
    hooks have added since, each with a handle to all it sent. That hooks of a test
    start with none of them run (`Settles`) is why nothing added for the test
    before is counted; that a cache comes before the plain `beforeEach`
    hooks around it (`DeployedInOrder`), why a cache takes nothing of this test back.

Only model-checked: the refinement of `TestIsolation` by `TestSandbox`, because the
world of a test is the part of the chain that its own file sent (`OwnWorld`): a
`SelectSeq`, whose facts need an induction over the sequence.
`ExpectationsWithinRounding` of `NAVFund`: its
bounds for reserves with fewer decimals are not claimed for every number of base units.
Liveness and `ENABLED` (`RebalanceSettles`) are outside what TLAPS
1.4.5 proves. The refinement of `PositionBook` by `SetToken` is proved and not
model-checked: the two share the variable `positions`, and the proof covers every
instance.

## What is left out

* Views, events, reentrancy (the `nonReentrant` guards are assumed to work:
  a handler is one step), gas, and overflow of 256 bits, which SafeMath turns
  into reverts.
* Approvals and the encoding of calls in the adapters.
* Manager hooks before issuance, which can only refuse, `IssuanceHook` among them.
* Recipients of fees (`updateFeeRecipient` of the fee and issuance modules,
  `editFeeRecipient` of NAV issuance), and
  who holds the SetTokens.
* `Controller.initialize` with repeated addresses (`InitialLists` has none).
* The registry of module hooks of the DebtIssuanceModule; the calls ICManager
  passes on to the index module; `setExchanges` and `setExchangeData`.
* A SetToken's custom valuer (`_getSetValuer`, CustomOracleNAVIssuanceModule.sol:1121):
  prices are arbitrary, whichever contract asks for them.
* PriceOracle's choice between a direct price, an inverse one and one through the
  master quote asset, and its lists of oracles and adapters: `NAVFund` lets every
  price the run names appear at any time.
* Of the TypeScript code: the `get...` methods of the deploy classes (they attach
  to an address), the fixtures of third-party protocols, the conversions and
  addresses of `utils/common` that no modelled part uses, and the compile subtask,
  which changes artifacts in memory only.
* The parts listed as `not_modelled` in `PROJECT.json`, with reasons.

## Plan

In order of importance:

1. DebtIssuanceModule's registry of module hooks with a leverage module (Aave or
   Compound): registration, removal with failing unregistration, a Controller
   that disables modules in between; debt positions and their sync.
2. ICManager's index calls and MultiSigOperator composed with
   GeneralIndexModule: from proposal to trade.
3. PriceOracle's price paths under `NAVFund`, IssuanceHook;
   SlippageIssuanceModule as V2 with limits.
4. Wrap, Amm, Claim and Governance modules (the position arithmetic of
   TradeModule over other services; lists of integrations); SingleIndexModule.
5. PerpV2 and Notional modules: units recomputed in hooks.
6. AMMSplitter and APYRescue.

Abstract specifications worth stating beside `PositionBook` and `TestIsolation`: a vault that never
owes more than it holds (for all issuance modules), and agreement of two parties
(for ICManager).

Theorems next: the distance of redeemed units in `ExpectationsWithinRounding` for a
reserve with 18 decimals; the refinement of `TestIsolation`, with the worlds stated
as sets of places in the chain, which `NoLeftovers` nearly gives.

## Running

    tlc -config Fund.cfg Fund          # one run; PROJECT.json names all
    tlapm FundProofs.tla                   # one module of proofs
