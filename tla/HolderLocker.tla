---------------------------- MODULE HolderLocker ----------------------------
(***************************************************************************)
(* The on-chain program programs/holder_locker/src/lib.rs: time-locks for  *)
(* one mint, the SOL and token rewards that arrive on the locks' vault     *)
(* authorities, the mint's boost pool, and the protocol configuration.     *)
(*                                                                         *)
(* A transaction is atomic, so every instruction is one action; its guard  *)
(* holds the account constraints and the require! checks, and a failed     *)
(* instruction changes nothing.  The interleaving is that of transactions  *)
(* of different signers, of the clock, and of the payments anybody can     *)
(* send to an address.                                                     *)
(*                                                                         *)
(* A lock address is derived from (owner, lock_id), so its owner is a      *)
(* constant, and a closed lock's address can be used again.  A vault       *)
(* authority is <<l, "pda">> (trustless) or <<l, "holder">> (the key the   *)
(* signing service derives from the lock address).                         *)
(*                                                                         *)
(* Left out: rent of the lock, token and config accounts (paid and         *)
(* refunded), the overflow of the u64 counters, events, and the resolution *)
(* of transfer-hook accounts.                                              *)
(***************************************************************************)
EXTENDS LockerMath, FiniteSets

CONSTANTS
    Locks, Owners, Treasuries, Admins,   \* addresses
    OwnerOf,                             \* the owner in a lock's seeds
    CustodyKeys, ServiceKey, NoKey,      \* values of custody_config.authority
    MAX_REWARD_FEE_BPS, MAX_LOCK_FEE_LAMPORTS, MAX_BONUS_BPS, MAX_LOCK_DURATION,
    Reserve, PoolReserve,                \* rent-exempt minimum: 0 bytes, a pool
    TaxBps                               \* transfer tax of the locked mint

\* The arguments that are tried, and the bounds of an instance.
CONSTANTS
    Amounts, UnlockTimes,                \* create_lock, top_up, extend_lock
    LockFees, FeeRates, PauseArgs,       \* initialize, update_config
    PoolKinds,                           \* pays_sol, at create_boost_pool
    Capacities, MinDurations, BonusRates, ActiveArgs,
    FundSizes,                           \* deposits to and withdrawals from a pool
    RewardSizes, DonationSizes,          \* payments from outside
    LateArrivals,                        \* may they reach an abandoned authority?
    MaxTime, MaxLocks,                   \* bounds of the clock, of total_locks
    OwnerSol, OwnerCoin, AdminSol, AdminRew, OutsideSol, OutsideRew, OutsideCoin

Modes == {"pda", "holder"}
Auth == Locks \X Modes
Wallets == Owners \cup Treasuries \cup Admins

ASSUME AddressAssumption ==
    /\ OwnerOf \in [Locks -> Owners]
    /\ Treasuries # {} /\ Admins # {}
    /\ ServiceKey \in CustodyKeys /\ NoKey \notin CustodyKeys

ASSUME FiniteAssumption ==
    IsFiniteSet(Locks) /\ IsFiniteSet(Owners) /\ IsFiniteSet(Treasuries)

ASSUME LimitAssumption ==
    /\ MAX_REWARD_FEE_BPS \in Nat /\ MAX_REWARD_FEE_BPS <= BPS_DENOMINATOR
    /\ MAX_LOCK_FEE_LAMPORTS \in Nat /\ MAX_BONUS_BPS \in Nat
    /\ MAX_LOCK_DURATION \in Nat
    /\ Reserve \in Nat \ {0} /\ PoolReserve \in Nat
    /\ TaxBps \in Nat /\ TaxBps <= BPS_DENOMINATOR

ASSUME ArgumentAssumption ==
    /\ Amounts \subseteq Nat /\ UnlockTimes \subseteq Int
    /\ LockFees \subseteq Nat /\ FeeRates \subseteq Nat /\ PauseArgs \subseteq BOOLEAN
    /\ PoolKinds \subseteq BOOLEAN /\ Capacities \subseteq Nat
    /\ MinDurations \subseteq Int /\ BonusRates \subseteq Nat
    /\ ActiveArgs \subseteq BOOLEAN
    /\ FundSizes \subseteq Nat /\ RewardSizes \subseteq Nat /\ DonationSizes \subseteq Nat
    /\ LateArrivals \in BOOLEAN /\ MaxTime \in Nat /\ MaxLocks \in Nat
    /\ OwnerSol \in Nat /\ OwnerCoin \in Nat /\ AdminSol \in Nat /\ AdminRew \in Nat
    /\ OutsideSol \in Nat /\ OutsideRew \in Nat /\ OutsideCoin \in Nat

VARIABLES
    now,           \* Clock::get()?.unix_timestamp
    config,        \* the Config account
    custody,       \* custody_config.authority, NoKey before it is set
    live,          \* lock addresses that hold a Lock account
    lock,          \* the Lock accounts
    lamports,      \* lamports on the vault authorities
    vaults,        \* authorities whose token account for the locked mint exists
    vault,         \* what those token accounts hold
    withheld,      \* those that hold transfer tax the mint has not collected
    reward,        \* reward-mint tokens of the vault authorities
    pool,          \* the mint's BoostPool account
    poolLamports,  \* lamports on it
    poolTokens,    \* reward-mint tokens of its token account
    sol, coin, rew,\* wallets: lamports, locked-mint tokens, reward-mint tokens
    outside        \* what the world may still send to the authorities

escrowVars == <<vaults, vault, withheld, coin>>
poolVars == <<pool, poolLamports, poolTokens>>
vars == <<now, config, custody, live, lock, lamports, escrowVars, reward,
          poolVars, sol, rew, outside>>

-----------------------------------------------------------------------------
\* Records of the accounts

LockRecord == [amount : Nat, unlock_ts : Int, withdrawn : BOOLEAN,
               custodial : BOOLEAN,     \* vault_bump = CUSTODIAL_MARK
               sol_rewards_claimed : Nat, boosted_amount : Nat,
               bonus_bps : Nat, bonus_paid : Nat]

NullLock == [amount |-> 0, unlock_ts |-> 0, withdrawn |-> TRUE,
             custodial |-> FALSE, sol_rewards_claimed |-> 0,
             boosted_amount |-> 0, bonus_bps |-> 0, bonus_paid |-> 0]

ConfigRecord == [initialized : BOOLEAN, admin : Admins, treasury : Treasuries,
                 lock_fee_lamports : Nat, reward_fee_bps : Nat, paused : BOOLEAN,
                 total_locks : Nat, total_lock_fees : Nat,
                 total_reward_fees : Nat, total_rewards_paid : Nat]

PoolRecord == [exists : BOOLEAN, authority : Admins, pays_sol : BOOLEAN,
               capacity : Nat, enrolled : Nat, min_duration : Int,
               bonus_bps : Nat, active : BOOLEAN, total_bonus_paid : Nat]

-----------------------------------------------------------------------------
\* Money

Credit(balance, who, n) == [balance EXCEPT ![who] = @ + n]

Debit(balance, who, n) == [balance EXCEPT ![who] = @ - n]

\* The token program delivers an amount less the mint's transfer tax.
NetOfTax(n) == (n * (BPS_DENOMINATOR - TaxBps)) \div BPS_DENOMINATOR

\* Transfer of n locked tokens into the vault of a (transfer_tokens).
Deposit(a, n) ==
    /\ vault' = Credit(vault, a, NetOfTax(n))
    /\ withheld' = IF NetOfTax(n) < n THEN withheld \cup {a} ELSE withheld

VaultAuthority(l) == <<l, IF lock[l].custodial THEN "holder" ELSE "pda">>

Active(l) == l \in live /\ ~lock[l].withdrawn

\* Mutant: the reserve is claimed too.
ClaimableWithReserve(a) == lamports[a]

\* What a claim can take from an authority without touching its reserve.
ClaimableSol(a) == SaturatingSub(lamports[a], Reserve)

\* fund_reserve: the lamports that bring an authority up to rent exemption.
MissingReserve(a) == SaturatingSub(Reserve, lamports[a])

RewardFee(gross) == FeeOf(gross, config.reward_fee_bps)

RewardPayout(gross) == PayoutOf(gross, config.reward_fee_bps)

-----------------------------------------------------------------------------
\* initialize, update_config, set_custody_authority

\* Mutant: the cap of the reward fee is not checked.
FeesWithinLockCap(fee, bps) == fee <= MAX_LOCK_FEE_LAMPORTS

FeesWithinCaps(fee, bps) ==
    fee <= MAX_LOCK_FEE_LAMPORTS /\ bps <= MAX_REWARD_FEE_BPS

Initialize(admin, treasury, fee, bps) ==
    /\ ~config.initialized
    /\ FeesWithinCaps(fee, bps)
    /\ config' = [config EXCEPT !.initialized = TRUE, !.admin = admin,
                                !.treasury = treasury, !.lock_fee_lamports = fee,
                                !.reward_fee_bps = bps]
    /\ UNCHANGED <<now, custody, live, lock, lamports, escrowVars, reward,
                   poolVars, sol, rew, outside>>

\* Signed by config.admin.  An absent argument is the value the field has.
UpdateConfig(admin, treasury, fee, bps, paused) ==
    /\ config.initialized
    /\ FeesWithinCaps(fee, bps)
    /\ config' = [config EXCEPT !.admin = admin, !.treasury = treasury,
                                !.lock_fee_lamports = fee, !.reward_fee_bps = bps,
                                !.paused = paused]
    /\ UNCHANGED <<now, custody, live, lock, lamports, escrowVars, reward,
                   poolVars, sol, rew, outside>>

SetCustodyAuthority(key) ==
    /\ config.initialized
    /\ custody' = key
    /\ UNCHANGED <<now, config, live, lock, lamports, escrowVars, reward,
                   poolVars, sol, rew, outside>>

-----------------------------------------------------------------------------
\* create_lock, create_lock_custodial, top_up, extend_lock

\* Mutant: the pause of create_lock is checked with the pool, by all instructions.
PassableUnpaused(withPool) == ~config.paused /\ (withPool => pool.exists)

\* Mutant: a lock cannot be claimed or withdrawn while the pool is switched off.
PassableActive(withPool) == pool.exists => pool.active

\* An optional boost_pool account can only be passed when it exists.
Passable(withPool) == withPool => pool.exists

Enrollment(withPool, amount, remaining_duration) ==
    IF withPool THEN EnrollBoost(pool, amount, remaining_duration) ELSE 0

ValidTerm(unlock) == unlock > now /\ unlock - now <= MAX_LOCK_DURATION

\* Mutant: the custody mark is forgotten.
NewLockUnmarked(mode, amount, unlock, enrolled) ==
    [amount |-> amount, unlock_ts |-> unlock, withdrawn |-> FALSE,
     custodial |-> FALSE, sol_rewards_claimed |-> 0, boosted_amount |-> enrolled,
     bonus_bps |-> IF enrolled > 0 THEN pool.bonus_bps ELSE 0, bonus_paid |-> 0]

\* A fresh Lock account, with its enrollment.
NewLock(mode, amount, unlock, enrolled) ==
    [amount |-> amount, unlock_ts |-> unlock, withdrawn |-> FALSE,
     custodial |-> mode = "holder", sol_rewards_claimed |-> 0,
     boosted_amount |-> enrolled,
     bonus_bps |-> IF enrolled > 0 THEN pool.bonus_bps ELSE 0, bonus_paid |-> 0]

CreateLockIn(l, mode, amount, unlock, withPool) ==
    LET owner    == OwnerOf[l]
        a        == <<l, mode>>
        fee      == config.lock_fee_lamports
        enrolled == Enrollment(withPool, amount, unlock - now)
    IN  /\ config.initialized /\ ~config.paused /\ Passable(withPool)
        /\ config.total_locks < MaxLocks
        /\ amount > 0 /\ ValidTerm(unlock)
        /\ l \notin live /\ a \notin vaults
        /\ coin[owner] >= amount /\ sol[owner] >= fee + MissingReserve(a)
        /\ sol' = Debit(Credit(Debit(sol, owner, fee), config.treasury, fee),
                        owner, MissingReserve(a))
        /\ lamports' = Credit(lamports, a, MissingReserve(a))
        /\ coin' = Debit(coin, owner, amount)
        /\ Deposit(a, amount)
        /\ vaults' = vaults \cup {a}
        /\ live' = live \cup {l}
        /\ lock' = [lock EXCEPT ![l] = NewLock(mode, amount, unlock, enrolled)]
        /\ pool' = [pool EXCEPT !.enrolled = @ + enrolled]
        /\ config' = [config EXCEPT !.total_lock_fees = @ + fee,
                                    !.total_locks = @ + 1]
        /\ UNCHANGED <<now, custody, reward, poolLamports, poolTokens, rew, outside>>

CreateLock(l, amount, unlock, withPool) ==
    CreateLockIn(l, "pda", amount, unlock, withPool)

\* Mutant: a custody authority is registered, but not compared with the one that signs.
CreateLockUnattested(l, amount, unlock, withPool) ==
    custody # NoKey /\ CreateLockIn(l, "holder", amount, unlock, withPool)

\* The service signs for the holder it derives and, with its one authority
\* key, as custody_authority: accepted while the program names that key.
CreateLockCustodial(l, amount, unlock, withPool) ==
    /\ custody = ServiceKey
    /\ CreateLockIn(l, "holder", amount, unlock, withPool)

\* A top-up of an enrolled amount takes the pool's current rate for the lock.
ToppedUp(r, amount, enrolled) ==
    [r EXCEPT !.amount = @ + amount,
              !.boosted_amount = @ + enrolled,
              !.bonus_bps = IF enrolled > 0 THEN pool.bonus_bps ELSE @]

TopUp(l, amount, withPool) ==
    LET owner    == OwnerOf[l]
        enrolled == Enrollment(withPool, amount, lock[l].unlock_ts - now)
    IN  /\ Active(l) /\ VaultAuthority(l) \in vaults /\ Passable(withPool)
        /\ amount > 0 /\ coin[owner] >= amount
        /\ coin' = Debit(coin, owner, amount)
        /\ Deposit(VaultAuthority(l), amount)
        /\ lock' = [lock EXCEPT ![l] = ToppedUp(@, amount, enrolled)]
        /\ pool' = [pool EXCEPT !.enrolled = @ + enrolled]
        /\ UNCHANGED <<now, config, custody, live, lamports, vaults, reward,
                       poolLamports, poolTokens, sol, rew, outside>>

\* Mutant: only the maximum is checked.
MayMoveTo(l, unlock) == unlock > now /\ unlock - now <= MAX_LOCK_DURATION

MayExtendTo(l, unlock) ==
    unlock > lock[l].unlock_ts /\ unlock - now <= MAX_LOCK_DURATION

ExtendLock(l, unlock) ==
    /\ Active(l)
    /\ MayExtendTo(l, unlock)
    /\ lock' = [lock EXCEPT ![l].unlock_ts = unlock]
    /\ UNCHANGED <<now, config, custody, live, lamports, escrowVars, reward,
                   poolVars, sol, rew, outside>>

-----------------------------------------------------------------------------
\* withdraw, withdraw_custodial

\* Mutant: off by one second.
ExpiredEarly(l) == now + 1 >= lock[l].unlock_ts

Expired(l) == now >= lock[l].unlock_ts

\* Mutant: an empty vault is refused.
ClosableNonEmpty(a) == a \in vaults /\ a \notin withheld /\ vault[a] > 0

\* close_account refuses a token account with uncollected transfer tax.
Closable(a) == a \in vaults /\ a \notin withheld

\* Mutant: the whole amount is released, not the enrolled part.
ReleaseWholeAmount(l, withPool) ==
    IF withPool THEN [pool EXCEPT !.enrolled = SaturatingSub(@, lock[l].amount)]
    ELSE pool

\* Capacity goes back only if the caller passed the pool.
ReleaseCapacity(l, withPool) ==
    IF withPool
    THEN [pool EXCEPT !.enrolled = SaturatingSub(@, lock[l].boosted_amount)]
    ELSE pool

Release(l, withPool) ==
    LET a == VaultAuthority(l)
    IN  /\ Active(l) /\ Expired(l) /\ Closable(a) /\ Passable(withPool)
        /\ vault' = [vault EXCEPT ![a] = 0]
        /\ vaults' = vaults \ {a}
        /\ coin' = Credit(coin, OwnerOf[l], NetOfTax(vault[a]))
        /\ pool' = ReleaseCapacity(l, withPool)
        /\ lock' = [lock EXCEPT ![l].withdrawn = TRUE, ![l].amount = 0,
                                ![l].boosted_amount = 0]
        /\ UNCHANGED <<now, config, custody, live, lamports, withheld, reward,
                       poolLamports, poolTokens, sol, rew, outside>>

Withdraw(l, withPool) == ~lock[l].custodial /\ Release(l, withPool)

WithdrawCustodial(l, withPool) == lock[l].custodial /\ Release(l, withPool)

-----------------------------------------------------------------------------
\* claim_sol_rewards, claim_sol_rewards_custodial

\* Mutant: the funds of the pool are not looked at.
SolBonusUnfunded(l, payout) ==
    IF pool.pays_sol /\ pool.active THEN BonusFor(lock[l], payout) ELSE 0

\* Mutant: a pool that pays in tokens pays a bonus in SOL too.
SolBonusOfAnyPool(l, payout) ==
    IF pool.active
    THEN MinOf(BonusFor(lock[l], payout), SaturatingSub(poolLamports, PoolReserve))
    ELSE 0

\* The bonus for a payout that the pool's funds allow.
SolBonus(l, payout) ==
    IF pool.pays_sol /\ pool.active
    THEN MinOf(BonusFor(lock[l], payout), SaturatingSub(poolLamports, PoolReserve))
    ELSE 0

ClaimSol(l, withPool) ==
    LET a      == VaultAuthority(l)
        gross  == ClaimableSol(a)
        payout == RewardPayout(gross)
        bonus  == IF withPool THEN SolBonus(l, payout) ELSE 0
    IN  /\ l \in live /\ gross > 0 /\ Passable(withPool)
        /\ lamports' = Debit(lamports, a, gross)
        /\ sol' = Credit(Credit(sol, config.treasury, RewardFee(gross)),
                         OwnerOf[l], payout + bonus)
        /\ poolLamports' = poolLamports - bonus
        /\ pool' = [pool EXCEPT !.total_bonus_paid = @ + bonus]
        /\ lock' = [lock EXCEPT ![l].sol_rewards_claimed = @ + payout,
                                ![l].bonus_paid = @ + bonus]
        /\ config' = [config EXCEPT !.total_reward_fees = @ + RewardFee(gross),
                                    !.total_rewards_paid = @ + payout]
        /\ UNCHANGED <<now, custody, live, escrowVars, reward, poolTokens, rew,
                       outside>>

\* The trustless variant computes the bonus before it looks at pool.active.
ClaimSolRewards(l, withPool) ==
    /\ ~lock[l].custodial
    /\ withPool /\ pool.pays_sol =>
          ~BonusOverflows(lock[l], RewardPayout(ClaimableSol(VaultAuthority(l))))
    /\ ClaimSol(l, withPool)

ClaimSolRewardsCustodial(l, withPool) ==
    /\ lock[l].custodial
    /\ withPool /\ pool.pays_sol /\ pool.active =>
          ~BonusOverflows(lock[l], RewardPayout(ClaimableSol(VaultAuthority(l))))
    /\ ClaimSol(l, withPool)

-----------------------------------------------------------------------------
\* claim_token_rewards, claim_token_rewards_custodial

PaysTokens == pool.active /\ ~pool.pays_sol

\* Mutant: the bonus is paid on the gross amount.
TokenBonusOnGross(l, payout) ==
    IF PaysTokens
    THEN MinOf(BonusFor(lock[l], reward[VaultAuthority(l)]), poolTokens)
    ELSE 0

TokenBonus(l, payout) ==
    IF PaysTokens THEN MinOf(BonusFor(lock[l], payout), poolTokens) ELSE 0

\* The whole reward account is emptied and closed; config is not written.
ClaimTokens(l, withPool) ==
    LET a      == VaultAuthority(l)
        gross  == reward[a]
        payout == RewardPayout(gross)
        bonus  == IF withPool THEN TokenBonus(l, payout) ELSE 0
    IN  /\ l \in live /\ gross > 0 /\ Passable(withPool)
        /\ withPool /\ PaysTokens => ~BonusOverflows(lock[l], payout)
        /\ reward' = [reward EXCEPT ![a] = 0]
        /\ rew' = Credit(Credit(rew, config.treasury, RewardFee(gross)),
                         OwnerOf[l], payout + bonus)
        /\ poolTokens' = poolTokens - bonus
        /\ pool' = [pool EXCEPT !.total_bonus_paid = @ + bonus]
        /\ lock' = [lock EXCEPT ![l].bonus_paid = @ + bonus]
        /\ UNCHANGED <<now, config, custody, live, lamports, escrowVars,
                       poolLamports, sol, outside>>

ClaimTokenRewards(l, withPool) == ~lock[l].custodial /\ ClaimTokens(l, withPool)

ClaimTokenRewardsCustodial(l, withPool) ==
    lock[l].custodial /\ ClaimTokens(l, withPool)

-----------------------------------------------------------------------------
\* close_lock, close_lock_custodial, migrate_lock_to_custodial

\* What the sweep of an authority pays: fee and payout on what exceeds the
\* reserve; the reserve itself goes back to the owner untouched.
SweepFee(a) == RewardFee(ClaimableSol(a))

SweepToOwner(a) == lamports[a] - SweepFee(a)

\* Mutant: the fee is counted and not transferred.
SweptWithoutFee(l, a) == Credit(sol, OwnerOf[l], SweepToOwner(a))

Swept(l, a) ==
    Credit(Credit(sol, config.treasury, SweepFee(a)), OwnerOf[l], SweepToOwner(a))

\* Mutant: the reserve stays behind.
AfterSweepOfRewards(a) == [lamports EXCEPT ![a] = MinOf(@, Reserve)]

AfterSweep(a) == [lamports EXCEPT ![a] = 0]

CloseWithdrawn(l) ==
    LET a == VaultAuthority(l)
    IN  /\ l \in live /\ lock[l].withdrawn
        /\ sol' = Swept(l, a)
        /\ lamports' = AfterSweep(a)
        /\ live' = live \ {l}
        /\ lock' = [lock EXCEPT ![l] = NullLock]
        /\ UNCHANGED <<now, config, custody, escrowVars, reward, poolVars, rew,
                       outside>>

CloseLock(l) == ~lock[l].custodial /\ CloseWithdrawn(l)

CloseLockCustodial(l) == lock[l].custodial /\ CloseWithdrawn(l)

\* Mutant: tokens and lamports are mixed up.
MigratedMixedUp(r, balance, payout) ==
    [r EXCEPT !.custodial = TRUE, !.amount = balance,
              !.sol_rewards_claimed = @ + balance]

\* The lock record of a migrated lock: the amount becomes what was sent over.
Migrated(r, balance, payout) ==
    [r EXCEPT !.custodial = TRUE, !.amount = balance,
              !.sol_rewards_claimed = @ + payout]

MigrateLockToCustodial(l) ==
    LET old    == <<l, "pda">>
        new    == <<l, "holder">>
        owner  == OwnerOf[l]
        payout == RewardPayout(ClaimableSol(old))
    IN  /\ Active(l) /\ ~lock[l].custodial /\ custody = ServiceKey
        /\ Closable(old)
        /\ vaults' = (vaults \ {old}) \cup {new}
        /\ vault' = Credit([vault EXCEPT ![old] = 0], new, NetOfTax(vault[old]))
        /\ withheld' = IF NetOfTax(vault[old]) < vault[old]
                       THEN withheld \cup {new} ELSE withheld
        /\ Swept(l, old)[owner] >= MissingReserve(new)
        /\ sol' = Debit(Swept(l, old), owner, MissingReserve(new))
        /\ lamports' = Credit(AfterSweep(old), new, MissingReserve(new))
        /\ lock' = [lock EXCEPT ![l] = Migrated(@, vault[old], payout)]
        /\ config' = [config EXCEPT !.total_reward_fees = @ + SweepFee(old),
                                    !.total_rewards_paid = @ + payout]
        /\ UNCHANGED <<now, custody, live, coin, reward, poolVars, rew, outside>>

-----------------------------------------------------------------------------
\* The boost pool's own instructions

ValidPoolTerms(min_duration, bonus_bps) ==
    min_duration >= 0 /\ bonus_bps > 0 /\ bonus_bps <= MAX_BONUS_BPS

\* Signed by config.admin, who becomes the pool's authority.
CreateBoostPool(pays_sol, capacity, min_duration, bonus_bps) ==
    /\ config.initialized /\ ~pool.exists
    /\ ValidPoolTerms(min_duration, bonus_bps)
    /\ sol[config.admin] >= PoolReserve
    /\ sol' = Debit(sol, config.admin, PoolReserve)
    /\ poolLamports' = poolLamports + PoolReserve
    /\ pool' = [exists |-> TRUE, authority |-> config.admin, pays_sol |-> pays_sol,
                capacity |-> capacity, enrolled |-> 0, min_duration |-> min_duration,
                bonus_bps |-> bonus_bps, active |-> TRUE, total_bonus_paid |-> 0]
    /\ UNCHANGED <<now, config, custody, live, lock, lamports, escrowVars, reward,
                   poolTokens, rew, outside>>

\* Signed by pool.authority.  An absent argument is the value the field has.
UpdateBoostPool(authority, capacity, min_duration, bonus_bps, active) ==
    /\ pool.exists
    /\ ValidPoolTerms(min_duration, bonus_bps)
    /\ pool' = [pool EXCEPT !.authority = authority, !.capacity = capacity,
                            !.min_duration = min_duration,
                            !.bonus_bps = bonus_bps, !.active = active]
    /\ UNCHANGED <<now, config, custody, live, lock, lamports, escrowVars, reward,
                   poolLamports, poolTokens, sol, rew, outside>>

FundBoostPool(funder, n) ==
    /\ pool.exists /\ n > 0 /\ sol[funder] >= n
    /\ sol' = Debit(sol, funder, n)
    /\ poolLamports' = poolLamports + n
    /\ UNCHANGED <<now, config, custody, live, lock, lamports, escrowVars, reward,
                   pool, poolTokens, rew, outside>>

\* Mutant: the rent reserve of the pool can be taken out.
PoolSolWithReserve == poolLamports

PoolSolAvailable == SaturatingSub(poolLamports, PoolReserve)

WithdrawBoostPool(n) ==
    /\ pool.exists /\ n > 0 /\ n <= PoolSolAvailable
    /\ poolLamports' = poolLamports - n
    /\ sol' = Credit(sol, pool.authority, n)
    /\ UNCHANGED <<now, config, custody, live, lock, lamports, escrowVars, reward,
                   pool, poolTokens, rew, outside>>

WithdrawBoostPoolTokens(n) ==
    /\ pool.exists /\ ~pool.pays_sol /\ n > 0 /\ n <= poolTokens
    /\ poolTokens' = poolTokens - n
    /\ rew' = Credit(rew, pool.authority, n)
    /\ UNCHANGED <<now, config, custody, live, lock, lamports, escrowVars, reward,
                   pool, poolLamports, sol, outside>>

\* A plain token transfer into the pool's token account.
FundPoolTokens(funder, n) ==
    /\ pool.exists /\ n > 0 /\ rew[funder] >= n
    /\ rew' = Debit(rew, funder, n)
    /\ poolTokens' = poolTokens + n
    /\ UNCHANGED <<now, config, custody, live, lock, lamports, escrowVars, reward,
                   pool, poolLamports, sol, outside>>

-----------------------------------------------------------------------------
\* The world: the clock, reward distributions, transfers by strangers

Tick ==
    /\ now < MaxTime
    /\ now' = now + 1
    /\ UNCHANGED <<config, custody, live, lock, lamports, escrowVars, reward,
                   poolVars, sol, rew, outside>>

\* A distribution pays the authority that held the tokens when it was computed;
\* a late one may reach an authority its lock has left.
Reachable(a) == LateArrivals \/ (a[1] \in live /\ a = VaultAuthority(a[1]))

\* The runtime refuses a transfer that leaves less than the rent minimum.
DistributeSol(a, n) ==
    /\ Reachable(a)
    /\ n > 0 /\ outside.sol >= n /\ lamports[a] + n >= Reserve
    /\ lamports' = Credit(lamports, a, n)
    /\ outside' = [outside EXCEPT !.sol = @ - n]
    /\ UNCHANGED <<now, config, custody, live, lock, escrowVars, reward, poolVars,
                   sol, rew>>

DistributeTokens(a, n) ==
    /\ Reachable(a)
    /\ n > 0 /\ outside.rew >= n
    /\ reward' = Credit(reward, a, n)
    /\ outside' = [outside EXCEPT !.rew = @ - n]
    /\ UNCHANGED <<now, config, custody, live, lock, lamports, escrowVars, poolVars,
                   sol, rew>>

\* Anybody can send the locked mint to an authority and create its account.
DonateLockedMint(a, n) ==
    /\ Reachable(a)
    /\ n > 0 /\ outside.coin >= n
    /\ Deposit(a, n)
    /\ vaults' = vaults \cup {a}
    /\ outside' = [outside EXCEPT !.coin = @ - n]
    /\ UNCHANGED <<now, config, custody, live, lock, lamports, coin, reward,
                   poolVars, sol, rew>>

\* The mint's tax authority collects what an account withholds.
CollectWithheldTax(a) ==
    /\ a \in withheld
    /\ withheld' = withheld \ {a}
    /\ UNCHANGED <<now, config, custody, live, lock, lamports, vaults, vault, coin,
                   reward, poolVars, sol, rew, outside>>

-----------------------------------------------------------------------------
Init ==
    /\ now = 0
    /\ config = [initialized |-> FALSE, admin |-> CHOOSE a \in Admins : TRUE,
                 treasury |-> CHOOSE t \in Treasuries : TRUE,
                 lock_fee_lamports |-> 0, reward_fee_bps |-> 0, paused |-> FALSE,
                 total_locks |-> 0, total_lock_fees |-> 0,
                 total_reward_fees |-> 0, total_rewards_paid |-> 0]
    /\ custody = NoKey
    /\ live = {}
    /\ lock = [l \in Locks |-> NullLock]
    /\ lamports = [a \in Auth |-> 0]
    /\ vaults = {} /\ withheld = {}
    /\ vault = [a \in Auth |-> 0]
    /\ reward = [a \in Auth |-> 0]
    /\ pool = [exists |-> FALSE, authority |-> CHOOSE a \in Admins : TRUE,
               pays_sol |-> TRUE, capacity |-> 0, enrolled |-> 0,
               min_duration |-> 0, bonus_bps |-> 0, active |-> FALSE,
               total_bonus_paid |-> 0]
    /\ poolLamports = 0 /\ poolTokens = 0
    /\ sol = [w \in Wallets |-> IF w \in Owners THEN OwnerSol
                                ELSE IF w \in Admins THEN AdminSol ELSE 0]
    /\ coin = [w \in Owners |-> OwnerCoin]
    /\ rew = [w \in Wallets |-> IF w \in Admins THEN AdminRew ELSE 0]
    /\ outside = [sol |-> OutsideSol, rew |-> OutsideRew, coin |-> OutsideCoin]

ConfigStep ==
    \/ \E admin \in Admins, treasury \in Treasuries, fee \in LockFees, bps \in FeeRates :
          \/ Initialize(admin, treasury, fee, bps)
          \/ \E paused \in PauseArgs : UpdateConfig(admin, treasury, fee, bps, paused)
    \/ \E key \in CustodyKeys : SetCustodyAuthority(key)

LockStep(l) ==
    \/ \E amount \in Amounts, withPool \in BOOLEAN :
          \/ \E unlock \in UnlockTimes :
                \/ CreateLock(l, amount, unlock, withPool)
                \/ CreateLockCustodial(l, amount, unlock, withPool)
          \/ TopUp(l, amount, withPool)
    \/ \E unlock \in UnlockTimes : ExtendLock(l, unlock)
    \/ \E withPool \in BOOLEAN :
          \/ Withdraw(l, withPool)
          \/ WithdrawCustodial(l, withPool)
          \/ ClaimSolRewards(l, withPool)
          \/ ClaimSolRewardsCustodial(l, withPool)
          \/ ClaimTokenRewards(l, withPool)
          \/ ClaimTokenRewardsCustodial(l, withPool)
    \/ CloseLock(l)
    \/ CloseLockCustodial(l)
    \/ MigrateLockToCustodial(l)

PoolStep ==
    \/ \E capacity \in Capacities, duration \in MinDurations, bps \in BonusRates :
          \/ \E pays_sol \in PoolKinds : CreateBoostPool(pays_sol, capacity, duration, bps)
          \/ \E authority \in Admins, active \in ActiveArgs :
                UpdateBoostPool(authority, capacity, duration, bps, active)
    \/ \E n \in FundSizes :
          \/ \E funder \in Admins : FundBoostPool(funder, n) \/ FundPoolTokens(funder, n)
          \/ WithdrawBoostPool(n)
          \/ WithdrawBoostPoolTokens(n)

WorldStep ==
    \/ Tick
    \/ \E a \in Auth :
          \/ \E n \in RewardSizes : DistributeSol(a, n) \/ DistributeTokens(a, n)
          \/ \E n \in DonationSizes : DonateLockedMint(a, n)
          \/ CollectWithheldTax(a)

Next == ConfigStep \/ (\E l \in Locks : LockStep(l)) \/ PoolStep \/ WorldStep

Spec == Init /\ [][Next]_vars

\* The owners keep trying to withdraw and to claim, time passes, and the tax
\* authority collects: the program never holds an owner back for ever.
Fairness ==
    /\ WF_vars(Tick)
    /\ \A a \in Auth : WF_vars(CollectWithheldTax(a))
    /\ \A l \in Locks :
          /\ WF_vars(\E withPool \in BOOLEAN : Withdraw(l, withPool))
          /\ WF_vars(\E withPool \in BOOLEAN : WithdrawCustodial(l, withPool))
          /\ WF_vars(ClaimSolRewards(l, FALSE))
          /\ WF_vars(ClaimSolRewardsCustodial(l, FALSE))
          /\ WF_vars(ClaimTokenRewards(l, FALSE))
          /\ WF_vars(ClaimTokenRewardsCustodial(l, FALSE))

LiveSpec == Spec /\ Fairness
=============================================================================
