# A formal model of Caged

Caged locks a token until a date while the lock keeps receiving the holder
rewards of that token. The logic that holds other people's money is one Anchor
program, `programs/holder_locker/src/lib.rs`; a Next.js application in `web/`
builds its transactions, co-signs some of them, and publishes what it reads from
the chain. This directory holds TLA+ modules of the program, of the client that
drives it, of the transactions between builders, signers and program, and of the web
server's caches; TLC runs that check them on small instances; and TLAPS proofs.

    tlc -workers 2 -config MCRewards.cfg MCLocker       # also MCBoost, MCLiveness, and the four
                                                        # of section "What the repository says"
    tlc -workers 2 -config MCClient.cfg MCClient        # also MCClientPool, MCClientLive
    tlc -workers 2 -config MCTransactions.cfg MCTransactions
    tlc -workers 2 -config MCServer.cfg MCServer
    tlapm HolderLockerProofs.tla                        # and the other *Proofs.tla

## 1. Inventory

| component | state | operations | what is hard |
| --- | --- | --- | --- |
| Protocol configuration (`lib.rs`) | `Config`, `CustodyConfig` | `initialize`, `update_config`, `set_custody_authority` | fees, treasury, pause and custody key change between the steps of an owner |
| Locks (`lib.rs`) | a `Lock` account, its vault authority (lamports), its vault, reward token accounts | `create_lock`, `top_up`, `extend_lock`, `withdraw`, `claim_sol_rewards`, `claim_token_rewards`, `close_lock`, their `_custodial` variants, `migrate_lock_to_custodial` | long sequences; re-use of an address; payments that arrive at any moment, also too late; transfer tax; rounding; rent minimum |
| Boost pool (`lib.rs`) | `BoostPool`, its lamports and tokens | `create_`, `update_`, `fund_`, `withdraw_boost_pool`, `withdraw_boost_pool_tokens`; enrollment in create and top-up, release in withdraw, bonus in the claims | the pool account is optional in every instruction of a lock; parameters change under enrolled locks; two locks share the funds and the capacity |
| Token transfers (`transfer_tokens`, `web/lib/hooks.ts`) | withheld tax of token accounts | `transfer_checked`, `close_account` | tax shortens every transfer and blocks the closing of an account |
| Custody service (`web/lib/server/custody.ts`, `/api/custody/*`) | the secret it was deployed with; the table of its throttle | `coSign`, `deriveHolder`, `deriveAuthority`, POST | a list of instructions is checked one by one and signed as a whole; the secret may differ from the registered one |
| Transactions of the client (`useSendTx`, `web/lib/program.ts`, `LockCard`, `CreateLockForm`) | `TxState`, what the page read earlier | build, co-sign, sign, send, confirm, refresh | expiry against a late confirmation, resending, stale lock / treasury / pool |
| Interface description (`web/idl/holder_locker.*`) | none | the accounts of 21 instructions and their privileges | a copy of the program's interface that may lag behind it, also for optional accounts |
| Operator scripts (`scripts/*.ts`) | none | initialise, register the authority, run a pool, clean up a lock | derive keys from a secret of their own |
| Locks API (`web/lib/server/locks.ts`, `/api/locks`, `/api/stats`) | a cache of 20 s | read, aggregate, cache | reads at different slots, concurrent misses |
| Metadata and images (`meta.ts`, `tokens.ts`, `/api/token`, `/api/img`) | a cache of 10 min | batch fetch, gateway retry | failures that are cached, slow answers that are stored late |
| Launchpad detection (`pump.ts`, `stonk.ts`) | none | decode foreign accounts | — |
| Amounts (`format.ts`) | none | `formatUnits`, `parseUnits` | separators |
| Pages, listings | none | — | an answer of a poll that overtakes another |

How they interact: the owner's wallet, the admin, a pool's authority, the reward
distributor and strangers send transactions to the program in any order; each is
atomic. Custodial instructions also need the signature of the lock's holder key,
and creation and migration that of the custody authority: both belong to the
custody service. Everything the web application shows is read from the accounts
afterwards.

What makes each part correct: tokens leave a lock only after its unlock time,
which never moves forward in time except by the owner's extension; the vault
backs what the lock shows; the owner can always get tokens and rewards out; fees
are exact, capped and paid; a pool never promises more capacity than it has, pays
no more bonus than it owes and keeps its rent; custody under a service key ends only with
that key's signature, which the service gives to nothing that does not list the key's lock,
and neither page nor scripts bring a lock under a key that cannot be derived again; what
the server remembers is no older than it says. The list of what can go wrong, line
by line, is `hazards` in PROJECT.json.

## 2. Modules

| module | models |
| --- | --- |
| `LockerMath` | `split_fee`, `bonus_for`, `enroll_boost`: the integer arithmetic, with the widths of u64 and u128 as parameters |
| `HolderLocker` | the whole program: the accounts as variables, one action per instruction, the clock and the outside world |
| `TimeLock` | the abstract promise: escrow that only grows until a release after the unlock time |
| `BonusPool` | the abstract pool: shares of a capacity, bonuses out of free funds, and the books of both |
| `Ledger` | the program as transactions see it: which instruction is accepted, and what it does to the stage and the vault authority of a lock, to config, pool and custody authority |
| `LockerProperties` | type invariant, invariants, action and liveness properties, the mappings onto `TimeLock`, `BonusPool` and `Ledger`, and four statements of the repository that the code does not keep |
| `MCLocker` | the instances for TLC (`MC*.cfg`) |
| `Sums` | the sum of a balance over a set of accounts |
| `LockerMathProofs` | facts about the arithmetic and about sums, proved |
| `LockClient` | the client composed with the program: the form, the card of a lock, `useSendTx`, the co-signing service's answer, the network |
| `ClientProperties` | what the client should guarantee |
| `MCClient` | the instances of the client for TLC |
| `ProgramInterface` | the interface description: per instruction the accounts with their privileges; beside it what the handlers change and whose signature they demand |
| `Transactions` | builders, co-signing, signing, sending and executing on the `Ledger`, the operator scripts, redeployment of the service |
| `TransactionProperties`, `MCTransactions` | what has to hold of transactions; the instances |
| `ServerClock`, `SignThrottle`, `MetaCache`, `LocksApi` | the clock of the server's process, the throttle of the signing route, the metadata cache, the locks API |
| `Server`, `MCServer` | their composition in one process that may be restarted; the instances |
| `HolderLockerProofs` | type correctness of the program, proved |
| `LockerSafetyProofs` | eight safety properties of the program: rent, vaults, pool, rates, what is left behind, proved |
| `LockerAccountingProofs` | the properties of the program that are about sums: totals, enrolment, fees, proved |
| `LockerRefinementProofs` | that the program implements `TimeLock`, `BonusPool` and `Ledger`, proved |
| `ClientProofs` | that the client only does what the program allows, and the client's safety properties, proved |
| `TransactionProofs` | the properties of transactions, proved |
| `ServerProofs` | the properties of the throttle, the caches and the totals of the API, proved |

### How the model corresponds to the code

A transaction is atomic, so an instruction is one action. Its conjuncts are the
account constraints (`has_one`, `seeds`, `init`), then the `require!`s, then the
effects on lamports, token accounts and account fields. A failed instruction has
no effect and is not a step.

* `lock`, `live`: the `Lock` accounts. A lock's address is derived from its owner
  and `lock_id`, so the owner is the constant `OwnerOf[l]`; closing it makes the
  address free again. `custodial` is `vault_bump == CUSTODIAL_MARK`.
* `lamports`, `vaults`, `vault`, `withheld`, `reward`: what lies on a vault
  authority. Each lock address has two: `<<l, "pda">>`, and `<<l, "holder">>`, the
  key the custody service derives from the address. After a migration or a close
  payments can still reach the one that is no longer used.
* `config`, `custody`, `pool`, `poolLamports`, `poolTokens`: the other accounts.
* `sol`, `coin`, `rew`: the wallets, above whatever keeps them rent exempt.
* The two custody modes share their handlers (`CreateLockIn`, `Release`, `ClaimSol`,
  `ClaimTokens`, `CloseWithdrawn`), because lib.rs repeats the same statements with
  another signer. Where the variants differ the actions do: the trustless SOL claim
  computes the bonus before it looks at `pool.active`.
* `withPool` is the optional `boost_pool` account: the caller decides.
* `Option` arguments of the two update instructions are modelled by passing the
  value the field has.

The world: `Tick`; `DistributeSol` and `DistributeTokens` pay a vault authority,
a late one if `LateArrivals`; `DonateLockedMint` is a transfer of the locked mint by
a stranger, who can also create the vault account; `CollectWithheldTax` is the
harvest of a taxed mint. These, `NetOfTax` and `FundPoolTokens` stand for programs
outside the repository and are marked external.

### The client

`LockClient` extends `HolderLocker`. Its steps are the program's, except that a lock
changes only by a transaction that the client has sent.

* `card[l]` is the `lock` and `config.treasury` that a `LockCard` was given (`Load`:
  when its page is opened, after a transaction, or by Refresh); `form` is what
  `CreateLockForm` read. `poolSeen`, `solSeen` and `rewardSeen` are `boost`,
  `claimable` and `tokenRewards`. Each read is one instant of the chain; what matters
  is that clicks come later. A failed read of pool or reward tokens shows none, as the
  `.catch` clauses do (`LoadPool`, `Refresh`); other failed reads change nothing.
* `attempt` is the sequence of clicks. An attempt carries the instruction with the
  accounts it was built from and two positions: `step`, where `run`, `submit` and
  `send` are, and `fate`, what the network did. The answer to a send may be lost
  (`SentUnheard`), the wait may break off (`GivesUp`), a transaction may be executed
  after either, and a component that was left has nobody to tell (`Leave`).
* `status` is the `TxState` of a hook. It is set when `send` starts, so a second click
  while the first instruction is built is a behaviour of the model, and both attempts
  write the same `status`.
* `Instruction` is the program's action with the accounts of the attempt: the treasury
  and the vault authority named at the click must still be those of the chain.
* Addresses of new locks come from the clock (`Fresh`): never used twice. The browser's
  clock is the chain's; the form's margin of 60 seconds is below the model's unit.

`poolKnown` of an attempt is a history field: properties distinguish clicks on a card
that had read the pool.

### Transactions and their signatures

`Transactions` looks at the same client and program from another side: who signs what,
and which accounts an instruction names with which privileges. Of the chain it keeps in
`ledger` what decides acceptance (is there a config, a pool, which authority is
registered, and of each lock the stage and the vault authority). What an instruction does
to it is `Accepts` and `Effect` of the module `Ledger`, which also stands on its own as a
specification (`LedgerSpec`), and `HolderLocker` implements it: the program that the
transactions are proved about is the one whose balances the other modules are about.

* `ProgramInterface` has one operator per instruction of the IDL (`CreateLockAccounts`,
  …), each a set of accounts with `writable` and `signer`, and for optional accounts the
  program's own address when they are not given, as Anchor does it. `Writes` and
  `DemandedSigners` come from `lib.rs` instead; `Privileged` is what the runtime checks.
  Addresses are tuples tagged by their derivation, so two derivations never collide.
* One operator per builder of `program.ts` (`CreateLockIx`, …). `ModeIx` is the choice
  between the trustless and the custodial instruction that the card makes. `Offered` is
  what form and card offer for a lock in its stage; `SeenPool` lets a read of the pool
  fail.
* `tx["browser"]` is the transaction in `useSendTx`: `Build`, `CoSign`, `WalletSigns`,
  `Send`, `Execute` or `Lose`, `NotSent` for every way to stop before.
* `/api/custody/sign` answers whoever calls it, so the same desk also holds transactions that
  the page did not build (`handMade`). `BuildCall` puts together one or two instructions
  (`coSign` has a loop), whose free slots the caller fills in as it likes, the holder of a new
  custody with a key of its own for instance (`HolderSlots`), and to which it may append the
  address of a lock and the key derived for it (`Additions`); `CoSignCall` asks the service for
  any lock, as often as the caller likes. `MayCoSign` looks for the lock and for the holder
  among all accounts of an instruction (`Keys`, `Listed`), as `coSign` does.
* `tx["script"]` is the transaction of an operator's script. The actions carry the
  scripts' names or purposes; a script may have been started with any secret.
* `Deploy` changes the secret of the service, between any two steps; `NoSecret` is a
  service whose secret is missing or too short.

### The web server

Three parts of one process: `SignThrottle`, `MetaCache` and `LocksApi` share only the
clock (`ServerClock`) and a restart, which forgets everything in memory. As they share no
variables, `Server` lets a behaviour exercise one of them (`route`): interleaving them
would multiply the states and show nothing more.

* `SignThrottle`: `hits` is the map of the route, `Post` one request. `log` records every
  request, to state what the throttle guarantees about any stretch of time.
* `MetaCache`: an await is where an action ends, so `AskMeta`, the indexer's answer and
  each gateway's are steps, and requests interleave at them. `versions` is the history of
  the indexer's answers; `lastFailed` when each gateway last failed.
* `LocksApi`: `Ask`, `ReadList`, `ReadMint`, then `ReadVaults` once per chunk, and
  `Finish`, while owners create in either custody mode, top up, withdraw, migrate and close
  (`ChainNext`). A node without the account of the mint makes the route skip the vaults
  (`MintMissing`). The RPC node gives the accounts in any order, which a request keeps
  (`order`), and a chunk is a stretch of it. `chain.tax` is what a transfer of the mint loses;
  `quiet` and `seen` are history variables of a request, `given` one of the chain.

## 3. Runs

Basis points are scaled to quarters (`BPS_DENOMINATOR = 4`), so that rewards of 1 to
3 lamports are split and rounded in every way; the rent minimum is 1. The bounds are
`MaxTime` (clock), `MaxLocks` (creations: two, so that an address is used twice), and
the purses `OwnerSol`, `OwnerCoin`, `AdminSol`, `AdminRew`, `OutsideSol`, `OutsideRew`,
`OutsideCoin`, which bound every deposit and payment: no money is created. The runs of
program and client treat nothing as symmetric, except `MCBoost`, where the owners are
interchangeable together with their locks; in the runs of transactions the locks are, and the
secrets, and in `MCServer` the requests and the locks.

| run | instance | shows |
| --- | --- | --- |
| `MCRewards` | one lock address, two terms, two treasuries, rewards and donations that may arrive late, fees changed and the program paused in between | `VaultBacksAmount`; `OwnerNeverBlocked` (what an owner may do is ENABLED, whatever others did); `RentKept`, `FeeShareCapped`, `TreasuryGetsFees`, `TokenFeeShareCapped`, `TotalsCoverLocks`; `KeepsPromise`, the refinement of `TimeLock` |
| `MCBoost` | two owners and locks, one pool created for SOL or for the reward token and funded with either, whose capacity (1 or 3) and activity change | `TypeOK` (nothing goes below zero), `EnrolledCoversBoosted`, `BoostedWithinAmount`, `PoolSolvent`, `OwnerNeverBlocked`, `BonusWithinRate`; `KeepsPoolBooks`, the refinement of `BonusPool` (which contains `NeverOverEnrolled`) |
| `MCLiveness` | transfer tax of a quarter, amounts 1 and 2 (one is taxed to 0), rewards, pauses, a custody key that may be replaced by another, a pool that may be created, fairness | `OwnerNeverBlocked` up to the harvest, `NoSolLeftBehind`, `KeepsPromise` with escrow net of tax, `KeepsLedger`, the refinement of `Ledger`, `EventuallyReleased`, `EventuallyClaimed` |
| `MCClient` | one lock, three clicks, terms 1 to 3, no pool | `ClientTypeOK`, `StaleCardIsSafe`, `DoneMeansExecuted` |
| `MCClientPool` | one lock, two clicks, a pool that pays in the reward token and is funded, emptied and switched off | `KnownPoolPays`, `CapacityAccounted` |
| `MCClientLive` | one lock, two clicks, a pool that pays in SOL, fairness | `Settles` |
| `MCTransactions` | two locks of one owner, two secrets, either or none deployed, scripts started with either, a pool that pays in the reward token, callers who create and withdraw custodial locks | `TxTypeOK`, `CustodyOpensOnRequest`, `SignaturesComplete`, `PrivilegesSuffice`, `ServiceServesPage`, `HoldersAttested` |
| `MCServer` | one key of the throttle's table and a limit of two in a window of two ticks; two requests, two gateways, one change of the metadata; two requests, two locks of a mint with or without a transfer tax in chunks of one, three changes of the chain | `TwiceLimitAtMost`, `OnlyBusyRefused`, `CachedMetaWasTrue`, `NoImageIsExplained`, `QuietTotalExact`, `CountedWasHeld`, `AnswerAge` |

The bounds are enough for what they are about: one address reaches every pair of
(state of the lock, state of the vaults) in both modes and again after a close; a
second lock matters only where locks share something, which is the pool and the
counters; two locks with three tokens reach every order of enrolment around a
capacity of 1 and of 3. U64 and U128 are far above what an instance can reach, so
overflow is the subject of the proofs (`BonusAtMostRate`), not of the runs.

For the client `MaxClicks` bounds the attempts. Three are a whole life (create, withdraw
or migrate, close) and a creation with two overlapping extensions; two are a creation
and the claim or withdrawal that a property of the pool is about, or two overlapping
clicks. The runs have one lock because a card and the form share nothing but the chain.

Transactions need no bound: a desk has one transaction at a time, and the ledger is
finite. The pool is one that pays in the reward token (`PoolAssets`), because its instructions
have every optional account there is: one that pays in SOL has fewer, and what it funds and
pays is `MCBoost`'s subject. Two locks are what an instruction list can mix; two secrets are
the right one and a wrong one; two instructions are enough for one that names the holder and one that does
not. A caller of the service creates and withdraws (`CallerOps`), and puts two withdrawals
into one transaction (`BatchOps`): where custody begins and where it ends; the proofs have no
such bound. Builds, signatures and execution of browser and script interleave freely, but for
the constraint `Apart`: what one lock needs to meet everything is not multiplied by the
second. Beside two locks there is no pool, no script under way and always a secret; beside a
caller's transaction no pool, and of the scripts the one that registers an authority.

For the server `MaxTime` is two windows and two lifetimes of a cache entry; `MaxPosts` (the
requests of one window) is one above the limit; `MaxVersions` and `MaxChanges` bound what
happens outside the server. `MaxBuild` is not a bound but an assumption: the RPC node
answers, or fails, within that time, so that an answer of the locks API has an age at all.
A chunk of one lock makes two chunks of two locks. Two requests for the locks meet in the
cache only, so beside two the chain changes once (`Together`), beside one three times.

Fairness (`LiveSpec`): weak fairness of the clock; of the owner's withdrawal and of
the claims without pool, because an owner who wants the tokens keeps sending the
transaction, and a transaction that stays valid is executed eventually; of the tax
collection, which the distributor of a taxed mint does continually (README.md,
stonk.fun coins). Nothing is assumed of the admin, the pool's authority, the
custody authority's on-chain setting or strangers, and there is no fairness of
extension, so an owner may extend up to the last possible time. For custodial locks
the withdrawal includes the co-signature of the custody service: a service that
stops signing keeps an owner out, as the README of the repository says.

Fairness of the client (`LiveClientSpec`): a sent transaction does not stay pending for
ever, because blocks are produced and its blockhash expires; and a hook that waits hears
of the outcome, because `confirmTransaction` is given the signature and the last valid
block height. Nothing is assumed of the user, of the wallet or of execution.

### What the repository says and the code does not do

Four runs check a sentence of the documentation and end with a counterexample:

* `MCCapacityReleased` — "Capacity is released on withdrawal." Only if the caller
  passed the pool; afterwards nobody can release it.
* `MCEnrollmentRate` — "Existing enrollments keep their bps." Not after a top-up.
* `MCMigrationTerms` — "Terms are unchanged: same owner, amount, …" The amount
  becomes the balance of the old vault.
* `MCStrandedRewards` — rewards "are claimable at any moment." Token rewards on the
  old authority are not, after a migration.

Other sentences of the repository hold with a limit, which is not a run of its own:

* "Locked amount of a token = sum of `amount` over accounts where `withdrawn == false`"
  (`docs/INTEGRATION.md:71`). The site's own API adds up what the vaults hold (`locks.ts:206`).
  `QuietTotalExact` says when the two agree: for a mint without transfer tax to whose vaults
  nobody has sent tokens directly. With a tax the API's total is lower, with a gift higher.
* "It must co-sign, which also proves it belongs to the signing service (nobody can create a
  'Caged custody' lock with a key they control)" (`docs/DEVELOPMENT.md:44`), and the header of
  `custody.ts`, "in which the holder key appears exactly where the program expects it". The
  program asks for the signatures of a holder and of the authority and does not link the two
  (`lib.rs:1690`), and `coSign` looks for the derived key among all accounts of an instruction
  and then signs as authority too (`custody.ts:91-106`). So the sentences hold of what the
  page and the scripts build, and not of every transaction that the service signs.
  `HoldersAttested` claims the derived holder for the former only, and what remains for every
  caller is stated beside it: registered authority and new holder have both signed.
* "never signs with a key other than the one derived for that lock" (`custody.ts:74`). It
  signs with the authority's key besides, where a transaction asks for it, and the lock may be
  one of the appended accounts: `CustodyOpensOnRequest` says that every instruction lists the
  lock of the key, not that it is about that lock.

Related limits: a comment in `meta.ts:71` says that the raw URI
is the last gateway tried; for IPFS it is a third gateway, and the model tries what the
code tries. For a taxed mint a migration sets the
amount of a lock below its enrolled tokens, so that a lock's share of the bonus can exceed one;
`BoostedWithinAmount` and `BonusWithinRate` are stated for untaxed mints. And the site's "Whenever an enrolled
lock claims rewards, the pool pays an extra percentage on top" holds for a claim clicked
on a card that has read the pool (`KnownPoolPays`); one clicked after a failed read names
no pool and its bonus is lost.

## 4. Proofs

The proofs of program and client hold for every value of the constants that satisfies
`MathAssumption`, `AddressAssumption`, `FiniteAssumption`, `LimitAssumption` and
`ArgumentAssumption`, which TLC evaluates on every run: rates and amounts are naturals,
the cap of the reward fee is at most the whole, the rent minimum is not zero, and there are
finitely many locks, owners and treasuries. The client adds `HookAssumption`: the form is
not a lock, and no component is the one that was left.

Two theorems, `TreasuryHoldsFees` and `TokenFeeShareIsCapped`, have a hypothesis of their
own, `RolesApart`: no treasury is also an owner or an admin, and no owner an admin. The
properties measure by wallet, and who pays a fee to a treasury of its own has paid nothing;
the instances of `MCLocker` assume the same (`OwnersAreNoTreasuries`).

* `LockerMathProofs`: from division facts (`DivFloor`, `DivAtMost`, `MulMono`) follow
  `SplitFeeExact` (fee and payout are naturals, add up to the reward, and the fee is
  at most its rate), and `BonusAtMostRate` (a bonus is at most its rate when the share
  is at most one; the truncation to u64 only lowers it). The sum lemmas (`SumNat`,
  `SumChange`, `SumJoin`, `SumAtLeast`, …) say what a sum over a finite set is and what a
  change at one element does to it. As a theorem of induction cannot be used, they take a
  smallest subset for which the statement fails, which exists because the subsets of a
  finite set are well founded (`SmallestSet`), and the function that a fold defines is given
  explicitly, as the number of units in a set of pairs (`UnitsFold`, `FoldIsUnits`).
* `HolderLockerProofs`: `TypeCorrect`, `Spec => [](TypeOK /\ FeeRateCapped)`. `TypeOK`
  alone is not inductive: that a payout, `gross - fee`, is not negative needs the
  configured rate to be at most BPS_DENOMINATOR, so `TypeInv` adds `FeeRateCapped`
  (the stored rate is within MAX_REWARD_FEE_BPS). One lemma per handler shows that
  its guards keep every subtraction at or above zero; the helpers' lemmas
  (`RewardSplit`, `SweptType`, `BonusType`, `DepositType`, …) are used by several.
* `LockerSafetyProofs`: `ReserveIsKept` (`RentKept`), `VaultsBackLocks`
  (`VaultBacksAmount`), `PoolStaysSolvent` (`PoolSolvent`), `EnrollmentIsBounded`
  (`NeverOverEnrolled`, which also follows from the books of the pool), `FeeShareIsCapped` (`FeeShareCapped`), `NoSolStaysBehind`
  (`NoSolLeftBehind`), `BoostStaysWithinAmount` (`BoostedWithinAmount`) and
  `BonusNeverAboveRate` (`BonusWithinRate`). Each invariant is
  inductive together with `TypeInv`. One lemma per instruction that touches the money
  in question shows that the step keeps the invariant, and frame lemmas (`…Leaves…`)
  settle all other instructions at once; `LockStepCases` splits a step of a lock into
  its instructions. The vault invariant is proved lock by lock, with the predicate
  `Backed`: an instruction disturbs the vault of one lock, and the vaults of two locks
  are different because their authorities are. The fee share uses `SharesAdd`: two
  amounts that each keep the share keep it together, whatever rate each was paid at.
  Three are not inductive alone. That no SOL lies on an abandoned authority follows from
  the stronger `AllAttended`: whatever authority has lamports is the one its live lock
  uses. That the boosted amount of a lock is at most its amount, without transfer tax,
  needs `AllBacked`, because a migration sets the amount to what the vault held; it is then
  known of all locks, also closed ones (`AllWithin`), and with it each bonus is at most its
  rate by `BonusAtMostRate`.
* `LockerAccountingProofs`: `TotalsAreComplete` (`TotalsCoverLocks`),
  `EnrollmentCoversLocks` (`EnrolledCoversBoosted`), `TreasuryHoldsFees`
  (`TreasuryGetsFees`) and `TokenFeeShareIsCapped` (`TokenFeeShareCapped`). An instruction
  changes the part of a sum that its lock, or its treasury, contributes, and the sum lemmas
  carry this to the whole. For enrolment `BoostInv` adds that nothing is enrolled without a
  pool and that a withdrawn lock has nothing boosted: otherwise creating the pool, which
  sets the counter to zero, or closing a lock would lose count.
* `LockerRefinementProofs`: three refinements, each with its own way of mapping a step.
  `ImplementsTimeLock` (`Spec => KeepsPromise`) sends a lock to its phase, unlock time,
  keeper and escrow. Every instruction is first turned into what it does to this view at
  each lock (`…View` lemmas); a view that changes at no lock is a stutter, and one that
  changes at one lock in the right way is an action of `TimeLock` (`Move…` lemmas, one per
  abstract action). `TypeInv` is the only invariant needed: that escrow never shrinks
  before the release follows from what each transfer does.

  `ImplementsBonusPool` (`Spec => KeepsPoolBooks`) sends the pool to its funds above the
  reserve, capacity and counters, and each lock to its share and the bonus it was paid.
  Three invariants carry it: `BoostInv`, without which `saturating_sub` could hide a
  release of more than was enrolled; `PoolSolvent`, without which the free funds would be
  a saturated zero and a top-up by the admin could disappear in the reserve; and
  `CleanSlate` (what does not exist has empty books), because the program overwrites a
  record where the abstract pool opens one.

  `ImplementsLedger` (`Spec => KeepsLedger`) sends a lock to its stage and vault authority.
  The stage `matured` is not stored by the program: it follows from the clock, so a tick is
  the abstract `Mature` of all locks that come due at once. The witness of each step is the
  instruction itself with the addresses it names (`Takes…` lemmas, one per instruction that
  leaves a trace in the ledger); all other instructions are stutters. It needs
  `ConfigFirst`: there is no lock before there is a config, which `Accepts` demands and the
  handlers of an existing lock do not all ask for.

* `ClientProofs`: `ClientUsesProgram`, `ClientSpec => Spec`: whatever the client does,
  with stale cards, overlapping clicks and lost answers, is a behaviour of the program. So
  every theorem above holds of the client, and its proofs use them. For this each attempt
  must carry arguments that the program takes: `ClientInv` is type correctness together with
  `SoundAttempts`, what an attempt says about itself (its arguments, that only what was sent
  has a fate, that it passes a pool only if its card had read one). From it follow
  `ClientTypes` (`ClientTypeOK`) and `DoneIsTrue` (`DoneMeansExecuted`). `StaleCardsAreSafe`
  (`StaleCardIsSafe`) needs `CreationInv`: an address is created by at most one attempt, so
  the lock that a card shows is the one on the chain or an earlier state of it.
  `KnownPoolAlwaysPays` (`KnownPoolPays`) needs `PoolInv`: a pool that was seen exists from
  then on, and in the same currency. `CapacityIsAccounted` (`CapacityAccounted`) compares
  the pool's counter with the sum over the locks (`BoostInv`): the two part only when a
  withdrawal names no pool, and such a withdrawal was clicked before the pool was read.
* `TransactionProofs`: the six properties of transactions, for any sets of locks and secrets
  and any operations of a caller, from `SecretsAssumption`, `LocksAssumption` and
  `AssetsAssumption`. The invariant `TxInv` has three parts. The ledger (`LedgerOK`): a lock
  that exists is under its own address, under a key the service derives, or under a caller's.
  The service's secret. And the transactions (`TransactionOK`): every instruction at a desk is
  one that some builder fills in or a caller (`IxOK`, from `OfferedOK`, `CallersIxOK`), and what
  has signed is what the stage says; in the browser, a derived key has signed only if every
  instruction lists its lock (`Scope`, `ServiceScope`). The third part is needed because a
  signature is given in one step and judged in a later one, after the secret may have changed.

  Of an instruction, the lemmas `WritesListed`, `SignersDemanded` and `AlwaysPrivileged`
  compare the interface with the program, one by one, also with appended accounts. Of an
  execution, `StepIs` says what a single instruction may do to a lock (begin custody:
  `MayEnter`; end it: `MayOpen`), and `StepsCompose` and `OutcomeKeepsLedger` carry it over the
  two instructions of a transaction, of which the first may have changed what the second finds.
  `CustodyIsOpenedByHolder` and `HoldersAreAttested` are these two: a withdrawal demands the
  recorded holder, and a step into custody the holder that it records and the authority, so
  that both are among the signatures; who gave them, and for what, is `Scope`.
* `ServerProofs`: for any number of keys of the throttle's table, requests, gateways and locks,
  from `ThrottleAssumption`, `MetaAssumption` and `ApiAssumption`. The throttle: the requests in
  `log` are numbered within their windows, and two windows of a key begin at least
  `WINDOW` apart, so a stretch of that length meets two of them, with `LIMIT` each
  (`ThrottleBounds`); a refused request carries a number above the limit, and the ones
  with the smaller numbers lie in its window (`RefusedWereBusy`). The caches: a request, and
  then the entry, carries the time at which it began; the indexer's answer held at or
  after it, and each gateway failed after it, which no later step takes away. The age of
  the entry is counted from that time (`CachedMetaIsRecent`, `MissingImageIsRecent`).
  `AnswersAreRecent` needs that a build has never taken longer than `MaxBuild`.
  The totals of the API (`TotalsCountHeldBalances`, `QuietTotalsAreExact`): of the vault of
  a listed lock a request knows nothing, or a balance that the vault has had since the list
  was read (`Tracked`), and what a finished chunk left unread is unread because a call
  failed or was left out, or the vault was gone (`ReadOrMissed`, `ChunksRead`). The chunks together name
  every lock of the list, in whatever order the node gave them (`Covers`), so at the end
  no lock was overlooked, and of a request during which nothing changed and every vault was
  asked for the total is the sum of what the vaults hold. That this is the sum of the amounts
  too, without a tax and gifts, needs `HeldAsRecorded`: whatever the owners do, a migration
  included, then changes both alike.

Only model-checked: the liveness properties `Settles`, `EventuallyReleased` and
`EventuallyClaimed`, and `OwnerNeverBlocked`, which is about ENABLED; both are out of the
prover's reach. Of `OwnerNeverBlocked` the part that other steps could spoil is proved: the
vault of a live lock that was not withdrawn is there and holds its amount
(`VaultsBackLocks`), and an authority keeps the rent minimum (`ReserveIsKept`).

## 5. Not modelled, and why

* In the program: rent of the lock, token and config accounts (paid on creation,
  refunded on closing, no other effect); `checked_add` failures of the u64 counters
  (more than 2^64 lamports do not exist); events; hook accounts. One mint with one
  pool and one reward mint: accounts of different mints share only the config. The
  reward mint is untaxed and is not the locked mint. Wallets are funded accounts: a
  treasury without lamports would make small fee payments fail (a listed hazard).
* A holder key that signs outside the program: the repository says that it can move
  the tokens, and no property survives it.
* In the client: reads that only display (metadata, vault balance, estimates), the
  wallet's own balance check, two open pages on one lock, nodes that lag behind each
  other.
* In transactions: instruction arguments and everything the balances decide, which is
  `HolderLocker`'s; a transaction of more than two instructions; compute-budget
  instructions, which `coSign` skips. The service's key derivation (HMAC) is taken to be
  injective. `sim-custody.ts` only simulates a creation and `verify-pda.ts` only computes
  addresses.
* `HolderLocker`, and with it the refinement of `Ledger`, takes the key in the holder slot to be
  the one derived for the lock, which is so for transactions of the page and the scripts; the
  key that a caller of the service may put there instead occurs in `Transactions` and in
  `Ledger`'s `Effect` only.
* In the server: the fields beside the total (supply, boost pool, launchpad, names); the
  stats route, which reads and keeps nothing; the batching of a metadata request, whose
  tokens are looked up and stored one by one; the image proxy, which streams what a gateway
  serves; a service without a secret, which answers 503 before it counts a request. A server
  that runs as several processes has a throttle and caches in each. The throttle's key is
  the first entry of `X-Forwarded-For`, or "local", whoever wrote it: the properties are about
  requests with one key, not about one client. The answer of the locks route allows browsers
  and proxies to keep it (`max-age=15`); `AnswerAge` is its age when the server gives it.
* Launchpad detection decodes foreign accounts and `format.ts` converts decimal strings:
  both are pure, and tables of examples say more about them than a model. Pages and
  listings keep no state that interacts; that a page shows the answer of an overtaken poll
  until the next one is a listed hazard.

## 6. State of the plan

Done: the program, the client, transactions with the interface description, and the
server's throttle, caches and API, each with its runs; proofs of every safety property that
the runs check, but for `OwnerNeverBlocked`; and of the program the proofs that it implements
the time-lock, the abstract pool and the ledger of the transactions.

What could come next:

1. Instances: an unfunded treasury; a taxed reward mint; words that overflow; a client
   with two treasuries.
2. An abstract custody of the transactions that page and scripts build, and the proof that
   service and program together implement it.
3. Proofs of the guards behind `OwnerNeverBlocked` as invariants without ENABLED.
