-------------------------- MODULE LockerProperties --------------------------
(***************************************************************************)
(* What the program HolderLocker should guarantee, and, at the end, what   *)
(* the repository says of it and the code does not do.                     *)
(***************************************************************************)
EXTENDS HolderLocker, Sums

\* Every variable has the type of its account field.
TypeOK ==
    /\ now \in Nat
    /\ config \in ConfigRecord
    /\ custody \in CustodyKeys \cup {NoKey}
    /\ live \subseteq Locks
    /\ lock \in [Locks -> LockRecord]
    /\ lamports \in [Auth -> Nat]
    /\ vaults \subseteq Auth /\ withheld \subseteq Auth
    /\ vault \in [Auth -> Nat]
    /\ reward \in [Auth -> Nat]
    /\ pool \in PoolRecord
    /\ poolLamports \in Nat /\ poolTokens \in Nat
    /\ sol \in [Wallets -> Nat]
    /\ coin \in [Owners -> Nat]
    /\ rew \in [Wallets -> Nat]
    /\ outside \in [sol : Nat, rew : Nat, coin : Nat]

-----------------------------------------------------------------------------
\* The locked tokens

\* A lock that has not been withdrawn has an open vault that holds at least
\* the amount it shows, whatever was topped up, donated or migrated (a mint
\* without transfer tax; the amount of a taxed one is what was sent).
VaultBacksAmount ==
    \A l \in Locks : Active(l) =>
        /\ VaultAuthority(l) \in vaults
        /\ TaxBps = 0 => vault[VaultAuthority(l)] >= lock[l].amount

\* The state of the abstract time-lock that a state of the program stands for.
PhaseOf == [l \in Locks |-> IF l \notin live THEN "free"
                            ELSE IF lock[l].withdrawn THEN "released" ELSE "locked"]

UnlockOf == [l \in Locks |-> lock[l].unlock_ts]

KeeperOf == [l \in Locks |-> IF lock[l].custodial THEN "service" ELSE "program"]

Escrowed(l) == IF Active(l) THEN vault[VaultAuthority(l)] ELSE 0

EscrowOf == [l \in Locks |-> Escrowed(l)]

Promise == INSTANCE TimeLock WITH
    Net         <- NetOfTax,
    MaxDuration <- MAX_LOCK_DURATION,
    clock       <- now,
    phase       <- PhaseOf,
    unlock      <- UnlockOf,
    keeper      <- KeeperOf,
    escrow      <- EscrowOf

\* The program implements the time-lock it advertises: tokens leave only
\* through a withdrawal after the unlock time, which is never brought forward,
\* and custody is handed over at most once and never back.
KeepsPromise == Promise!AbsSpec

\* Nothing an admin, a pool authority or a stranger does takes from the owner
\* the ability to withdraw an expired lock, to claim what lies on a live lock's
\* authority, or to close a withdrawn one: no pause, fee, pool state, abandoned
\* vault or donation makes the transaction fail.  (Uncollected transfer tax does
\* keep the vault from closing until the mint's tax authority collects it.)
OwnerNeverBlocked ==
    \A l \in live :
        LET a == VaultAuthority(l)
        IN  /\ Active(l) /\ now >= lock[l].unlock_ts /\ a \notin withheld =>
                  ENABLED (Withdraw(l, FALSE) \/ WithdrawCustodial(l, FALSE))
            /\ lamports[a] > Reserve =>
                  ENABLED (ClaimSolRewards(l, FALSE) \/ ClaimSolRewardsCustodial(l, FALSE))
            /\ reward[a] > 0 =>
                  ENABLED (ClaimTokenRewards(l, FALSE) \/ ClaimTokenRewardsCustodial(l, FALSE))
            /\ lock[l].withdrawn => ENABLED (CloseLock(l) \/ CloseLockCustodial(l))

\* An owner who keeps trying gets the tokens of every lock out.
EventuallyReleased == \A l \in Locks : Active(l) ~> ~Active(l)

\* An owner who keeps claiming gets what lies above the reserve of a live lock.
EventuallyClaimed ==
    \A l \in Locks :
        (l \in live /\ lamports[VaultAuthority(l)] > Reserve)
            ~> (l \notin live \/ lamports[VaultAuthority(l)] <= Reserve)

-----------------------------------------------------------------------------
\* Rewards and fees

\* Between transactions every authority is rent exempt or empty, and that of a
\* live lock is rent exempt, so that "a small first distribution can never fail
\* on an empty address": claims, sweeps and migrations all leave it so.
RentKept ==
    /\ \A a \in Auth : lamports[a] = 0 \/ lamports[a] >= Reserve
    /\ \A l \in live : lamports[VaultAuthority(l)] >= Reserve

\* As long as payments reach the authority that a lock has (no late arrivals), no
\* lamport is left behind: closing and migrating sweep the authority they leave.
NoSolLeftBehind ==
    ~LateArrivals =>
        \A a \in Auth : lamports[a] > 0 => a[1] \in live /\ a = VaultAuthority(a[1])

\* Of all SOL rewards paid so far, at most MAX_REWARD_FEE_BPS became fees, however
\* the fee was changed between the claims.
FeeShareCapped ==
    config.total_reward_fees * BPS_DENOMINATOR
        <= MAX_REWARD_FEE_BPS * (config.total_reward_fees + config.total_rewards_paid)

\* Every fee that the config counts has reached a treasury (the fee of a close is
\* paid without being counted), also after the treasury was changed.
TreasuryGetsFees ==
    SumOver(Treasuries, sol) >= config.total_lock_fees + config.total_reward_fees

\* The fee share of the token rewards, for which no counter exists: what the
\* treasuries hold against what the owners and they hold together.
TokenFeeShareCapped ==
    LET fees == SumOver(Treasuries, rew)
    IN  fees * BPS_DENOMINATOR <= MAX_REWARD_FEE_BPS * (fees + SumOver(Owners, rew))

ClaimedOf == [l \in Locks |-> lock[l].sol_rewards_claimed]

\* The protocol-wide counters never fall behind the counters of the live locks.
TotalsCoverLocks ==
    /\ config.total_locks >= Cardinality(live)
    /\ config.total_rewards_paid >= SumOver(live, ClaimedOf)

-----------------------------------------------------------------------------
\* The boost pool

BoostedOf == [l \in Locks |-> lock[l].boosted_amount]

\* The tokens enrolled in the pool are at least the boosted amounts of the live
\* locks, so the saturating subtraction of a withdrawal never saturates, whoever
\* passed the pool or not, and in whatever order locks come and go.
EnrolledCoversBoosted == pool.enrolled >= SumOver(live, BoostedOf)

\* A lock never has more tokens boosted than it locks (a mint without tax), so
\* its bonus share never exceeds the whole.
BoostedWithinAmount ==
    TaxBps = 0 => \A l \in live : lock[l].boosted_amount <= lock[l].amount

\* An enrollment never takes the pool above its capacity, also when the capacity
\* was lowered below what is enrolled.
NeverOverEnrolled ==
    [][pool'.enrolled > pool.enrolled => pool'.enrolled <= pool'.capacity]_vars

\* A claim pays a bonus of at most the lock's bonus_bps of the payout (a mint
\* without tax: after the migration of a taxed lock its share can exceed the whole).
BonusWithinRate ==
    [][TaxBps = 0 => \A l \in live \cap live' :
          (lock'[l].bonus_paid - lock[l].bonus_paid) * BPS_DENOMINATOR
             <= lock[l].bonus_bps
                  * (IF pool.pays_sol
                     THEN lock'[l].sol_rewards_claimed - lock[l].sol_rewards_claimed
                     ELSE RewardPayout(reward[VaultAuthority(l)]))]_vars

\* The pool account keeps its rent reserve through bonuses and withdrawals.
PoolSolvent == pool.exists => poolLamports >= PoolReserve

\* The state of the abstract pool that a state of the program stands for: its funds
\* are what lies above the rent reserve, or the tokens, by what the pool pays in.
PoolFunds ==
    IF ~pool.exists THEN 0
    ELSE IF pool.pays_sol THEN SaturatingSub(poolLamports, PoolReserve) ELSE poolTokens

EarnedOf == [l \in Locks |-> lock[l].bonus_paid]

Bonuses == INSTANCE BonusPool WITH
    open     <- pool.exists,
    capacity <- pool.capacity,
    taken    <- pool.enrolled,
    share    <- BoostedOf,
    earned   <- EarnedOf,
    paid     <- pool.total_bonus_paid,
    funds    <- PoolFunds

\* The program keeps the books of its boost pool: capacity is never given away
\* twice, a bonus is paid only to an enrolled lock, from free funds, and counted
\* once with the lock and once with the pool; no claim, migration, close or change
\* of the terms moves funds or capacity on the side.
KeepsPoolBooks == Bonuses!PoolSpec

-----------------------------------------------------------------------------
\* The program as transactions see it

Address == INSTANCE ProgramInterface WITH NoLock <- NoKey

\* The ledger that a state of the program stands for: a registered key is the authority
\* derived from a secret, and the holders are those of the service's secret.
AttestedOf == IF custody = NoKey THEN Address!Program ELSE Address!AuthorityOf(custody)

PoolKindOf == IF ~pool.exists THEN "none" ELSE IF pool.pays_sol THEN "sol" ELSE "token"

StageOf(l) ==
    IF l \notin live THEN "free"
    ELSE IF lock[l].withdrawn THEN "withdrawn"
    ELSE IF Expired(l) THEN "matured" ELSE "locked"

VaultKeyOf(l) ==
    IF l \notin live THEN Address!Program
    ELSE IF lock[l].custodial THEN Address!HolderOf(ServiceKey, l)
    ELSE Address!VaultAuthorityAt(l)

LedgerOf ==
    [config |-> config.initialized, attested |-> AttestedOf, pool |-> PoolKindOf,
     locks |-> [l \in Locks |-> [stage |-> StageOf(l), auth |-> VaultKeyOf(l)]]]

Accounts == INSTANCE Ledger WITH
    Secrets <- CustodyKeys,
    NoLock  <- NoKey,
    ledger  <- LedgerOf

\* Whatever the program does to its accounts is an instruction that the ledger of the
\* transactions accepts, with the effect it has there, or the passing of unlock times:
\* what holds of transactions executed against the ledger holds of the program.
KeepsLedger == Accounts!LedgerSpec

-----------------------------------------------------------------------------
\* Statements of the repository that the code does not keep

\* docs/DEVELOPMENT.md: "Capacity is released on withdrawal."
CapacityReleased == pool.exists => pool.enrolled = SumOver(live, BoostedOf)

\* lib.rs, update_boost_pool: "Existing enrollments keep their bps."
EnrollmentKeepsRate ==
    [][\A l \in Locks : Active(l) /\ Active(l)' /\ lock[l].boosted_amount > 0
          => lock'[l].bonus_bps = lock[l].bonus_bps]_vars

\* lib.rs, migrate_lock_to_custodial: "Terms are unchanged: same owner, amount,
\* unlock time and boost enrollment."
MigrationKeepsTerms ==
    [][\A l \in Locks : Active(l) /\ ~lock[l].custodial /\ lock'[l].custodial
          => /\ lock'[l].amount = lock[l].amount
             /\ lock'[l].unlock_ts = lock[l].unlock_ts
             /\ lock'[l].boosted_amount = lock[l].boosted_amount]_vars

\* README.md: "SOL rewards (and token-quoted rewards such as XMR or stable-quoted
\* coins) accumulate on the lock and are claimable at any moment."
RewardsStayClaimable ==
    \A l \in live : \A mode \in Modes :
        reward[<<l, mode>>] > 0 => <<l, mode>> = VaultAuthority(l)
=============================================================================
