------------------------- MODULE HolderLockerProofs -------------------------
(***************************************************************************)
(* Theorems about HolderLocker, for every set of locks, every argument set *)
(* and every value of the program's constants.  First the types, with the  *)
(* fee cap they depend on; then the safety properties, each from the types *)
(* and from what it needs of the others.                                   *)
(***************************************************************************)
EXTENDS LockerProperties, LockerMathProofs

\* The payout of a claim is a natural only because the fee rate is capped.
FeeRateCapped == config.reward_fee_bps <= MAX_REWARD_FEE_BPS

TypeInv == TypeOK /\ FeeRateCapped

-----------------------------------------------------------------------------
\* The operators of the actions

LEMMA WalletCredit ==
    ASSUME NEW f \in [Wallets -> Nat], NEW x \in Wallets, NEW n \in Nat
    PROVE  /\ Credit(f, x, n) \in [Wallets -> Nat]
           /\ Credit(f, x, n)[x] = f[x] + n
           /\ \A y \in Wallets : y # x => Credit(f, x, n)[y] = f[y]
  BY DEF Credit

LEMMA WalletDebit ==
    ASSUME NEW f \in [Wallets -> Nat], NEW x \in Wallets, NEW n \in Nat, n <= f[x]
    PROVE  /\ Debit(f, x, n) \in [Wallets -> Nat]
           /\ Debit(f, x, n)[x] = f[x] - n
           /\ \A y \in Wallets : y # x => Debit(f, x, n)[y] = f[y]
  BY DEF Debit

LEMMA AuthCredit ==
    ASSUME NEW f \in [Auth -> Nat], NEW x \in Auth, NEW n \in Nat
    PROVE  /\ Credit(f, x, n) \in [Auth -> Nat]
           /\ Credit(f, x, n)[x] = f[x] + n
           /\ \A y \in Auth : y # x => Credit(f, x, n)[y] = f[y]
  BY DEF Credit

LEMMA AuthDebit ==
    ASSUME NEW f \in [Auth -> Nat], NEW x \in Auth, NEW n \in Nat, n <= f[x]
    PROVE  /\ Debit(f, x, n) \in [Auth -> Nat]
           /\ Debit(f, x, n)[x] = f[x] - n
           /\ \A y \in Auth : y # x => Debit(f, x, n)[y] = f[y]
  BY DEF Debit

LEMMA OwnerCredit ==
    ASSUME NEW f \in [Owners -> Nat], NEW x \in Owners, NEW n \in Nat
    PROVE  /\ Credit(f, x, n) \in [Owners -> Nat]
           /\ Credit(f, x, n)[x] = f[x] + n
           /\ \A y \in Owners : y # x => Credit(f, x, n)[y] = f[y]
  BY DEF Credit

LEMMA OwnerDebit ==
    ASSUME NEW f \in [Owners -> Nat], NEW x \in Owners, NEW n \in Nat, n <= f[x]
    PROVE  /\ Debit(f, x, n) \in [Owners -> Nat]
           /\ Debit(f, x, n)[x] = f[x] - n
           /\ \A y \in Owners : y # x => Debit(f, x, n)[y] = f[y]
  BY DEF Debit

\* A transfer delivers at most what was sent, and all of it without tax.
LEMMA NetOfTaxType ==
    ASSUME NEW n \in Nat
    PROVE  /\ NetOfTax(n) \in Nat
           /\ NetOfTax(n) <= n
           /\ TaxBps = 0 => NetOfTax(n) = n
<1> DEFINE d == BPS_DENOMINATOR
           k == BPS_DENOMINATOR - TaxBps
<1>1. d \in Nat \ {0} /\ k \in Nat /\ k <= d
  BY MathAssumption, LimitAssumption
<1>2. n * k \in Nat /\ n * k <= d * n
  BY <1>1, MulMono
<1>3. /\ NetOfTax(n) \in Nat /\ NetOfTax(n) <= n
      /\ n * k < d * NetOfTax(n) + d
  BY <1>1, <1>2, DivFloor, DivAtMost DEF NetOfTax
<1>4. ASSUME TaxBps = 0 PROVE NetOfTax(n) = n
  <2>1. n * d < d * (NetOfTax(n) + 1)
    BY <1>1, <1>3, <1>4
  <2>2. n < NetOfTax(n) + 1
    BY <1>1, <1>3, <2>1
  <2> QED
    BY <1>3, <2>2
<1> QED
  BY <1>3, <1>4

LEMMA AuthorityType ==
    ASSUME TypeOK, NEW l \in Locks
    PROVE  /\ VaultAuthority(l) \in Auth
           /\ VaultAuthority(l)[1] = l
           /\ \A mode \in Modes : <<l, mode>> \in Auth
           /\ OwnerOf[l] \in Owners /\ OwnerOf[l] \in Wallets
           /\ config.treasury \in Wallets /\ config.admin \in Wallets
           /\ pool.authority \in Wallets
  BY AddressAssumption
  DEF TypeOK, VaultAuthority, Auth, Modes, Wallets, ConfigRecord, PoolRecord

LEMMA RewardSplit ==
    ASSUME TypeInv, NEW gross \in Nat
    PROVE  /\ RewardFee(gross) \in Nat /\ RewardPayout(gross) \in Nat
           /\ RewardFee(gross) + RewardPayout(gross) = gross
<1>1. /\ config.reward_fee_bps \in Nat
      /\ config.reward_fee_bps <= BPS_DENOMINATOR
  BY LimitAssumption, MathAssumption
  DEF TypeInv, TypeOK, FeeRateCapped, ConfigRecord
<1> QED
  BY <1>1, SplitFeeExact DEF RewardFee, RewardPayout

LEMMA ReserveType ==
    ASSUME TypeOK, NEW a \in Auth
    PROVE  /\ lamports[a] \in Nat /\ Reserve \in Nat
           /\ ClaimableSol(a) \in Nat /\ ClaimableSol(a) <= lamports[a]
           /\ ClaimableSol(a) > 0 => lamports[a] - ClaimableSol(a) = Reserve
           /\ MissingReserve(a) \in Nat
           /\ lamports[a] + MissingReserve(a) >= Reserve
<1>1. lamports[a] \in Nat /\ Reserve \in Nat
  BY LimitAssumption DEF TypeOK
<1>2. /\ ClaimableSol(a) \in Nat /\ ClaimableSol(a) <= lamports[a]
      /\ ClaimableSol(a) > 0 => ClaimableSol(a) = lamports[a] - Reserve
  BY <1>1, SaturatingSubBounds DEF ClaimableSol
<1>3. /\ MissingReserve(a) \in Nat
      /\ Reserve <= MissingReserve(a) + lamports[a]
  BY <1>1, SaturatingSubBounds DEF MissingReserve
<1> QED
  BY <1>1, <1>2, <1>3

LEMMA SweptType ==
    ASSUME TypeInv, NEW l \in Locks, NEW a \in Auth
    PROVE  /\ Swept(l, a) \in [Wallets -> Nat]
           /\ AfterSweep(a) \in [Auth -> Nat]
           /\ AfterSweep(a)[a] = 0
           /\ \A b \in Auth : b # a => AfterSweep(a)[b] = lamports[b]
           /\ SweepFee(a) \in Nat
<1>1. TypeOK
  BY DEF TypeInv
<1>2. ClaimableSol(a) \in Nat /\ ClaimableSol(a) <= lamports[a] /\ lamports[a] \in Nat
  BY <1>1, ReserveType
<1>3. SweepFee(a) \in Nat /\ SweepToOwner(a) \in Nat
  <2> DEFINE c == ClaimableSol(a)
  <2>1. RewardFee(c) \in Nat /\ RewardFee(c) <= c
    <3>1. c \in Nat
      BY <1>2
    <3> HIDE DEF c
    <3>2. RewardFee(c) + RewardPayout(c) = c /\ RewardPayout(c) \in Nat /\ RewardFee(c) \in Nat
      BY <3>1, RewardSplit
    <3> QED
      BY <3>1, <3>2
  <2> QED
    BY <1>2, <2>1 DEF SweepFee, SweepToOwner
<1>4. Credit(sol, config.treasury, SweepFee(a)) \in [Wallets -> Nat]
  BY <1>1, <1>3, AuthorityType, WalletCredit DEF TypeOK
<1>5. Swept(l, a) \in [Wallets -> Nat]
  BY <1>1, <1>3, <1>4, AuthorityType, WalletCredit DEF Swept
<1> QED
  BY <1>1, <1>3, <1>5 DEF AfterSweep, TypeOK

LEMMA EnrollmentType ==
    ASSUME TypeOK, NEW withPool \in BOOLEAN, NEW amount \in Nat, NEW d \in Int
    PROVE  /\ Enrollment(withPool, amount, d) \in Nat
           /\ Enrollment(withPool, amount, d) <= amount
<1>1. pool.capacity \in Nat /\ pool.enrolled \in Nat
  BY DEF TypeOK, PoolRecord
<1>2. /\ EnrollBoost(pool, amount, d) \in Nat
      /\ EnrollBoost(pool, amount, d) <= amount
  BY <1>1, EnrollBounds
<1> QED
  BY <1>2 DEF Enrollment

\* A record field is all that changes of an account.
LEMMA EnrolledPoolType ==
    ASSUME TypeOK, NEW n \in Nat
    PROVE  [pool EXCEPT !.enrolled = @ + n] \in PoolRecord
  BY DEF TypeOK, PoolRecord

LEMMA BonusPoolType ==
    ASSUME TypeOK, NEW n \in Nat
    PROVE  [pool EXCEPT !.total_bonus_paid = @ + n] \in PoolRecord
  BY DEF TypeOK, PoolRecord

\* The counters of the config do not touch its fee rate.
LEMMA CountLock ==
    ASSUME TypeInv, NEW n \in Nat,
           config' = [config EXCEPT !.total_lock_fees = @ + n, !.total_locks = @ + 1]
    PROVE  config' \in ConfigRecord /\ FeeRateCapped'
<1>1. config \in ConfigRecord /\ FeeRateCapped
  BY DEF TypeInv, TypeOK
<1>2. config.total_lock_fees + n \in Nat /\ config.total_locks + 1 \in Nat
  BY <1>1 DEF ConfigRecord
<1>3. config' \in ConfigRecord
  BY <1>1, <1>2 DEF ConfigRecord
<1>4. config'.reward_fee_bps = config.reward_fee_bps
  BY <1>1 DEF ConfigRecord
<1> QED
  BY <1>1, <1>3, <1>4 DEF FeeRateCapped

LEMMA CountReward ==
    ASSUME TypeInv, NEW n \in Nat, NEW m \in Nat,
           config' = [config EXCEPT !.total_reward_fees = @ + n,
                                    !.total_rewards_paid = @ + m]
    PROVE  config' \in ConfigRecord /\ FeeRateCapped'
<1>1. config \in ConfigRecord /\ FeeRateCapped
  BY DEF TypeInv, TypeOK
<1>2. config.total_reward_fees + n \in Nat /\ config.total_rewards_paid + m \in Nat
  BY <1>1 DEF ConfigRecord
<1>3. config' \in ConfigRecord
  BY <1>1, <1>2 DEF ConfigRecord
<1>4. config'.reward_fee_bps = config.reward_fee_bps
  BY <1>1 DEF ConfigRecord
<1> QED
  BY <1>1, <1>3, <1>4 DEF FeeRateCapped

LEMMA BonusType ==
    ASSUME TypeInv, NEW l \in Locks, NEW payout \in Nat
    PROVE  /\ SolBonus(l, payout) \in Nat
           /\ SolBonus(l, payout) <= SaturatingSub(poolLamports, PoolReserve)
           /\ SolBonus(l, payout) <= poolLamports
           /\ TokenBonus(l, payout) \in Nat /\ TokenBonus(l, payout) <= poolTokens
<1>1. /\ lock[l].amount \in Nat /\ lock[l].bonus_bps \in Nat
      /\ lock[l].boosted_amount \in Nat
      /\ poolLamports \in Nat /\ poolTokens \in Nat /\ PoolReserve \in Nat
  BY LimitAssumption DEF TypeInv, TypeOK, LockRecord
<1>2. BonusFor(lock[l], payout) \in Nat
  BY <1>1, BonusNat
<1>3. /\ SaturatingSub(poolLamports, PoolReserve) \in Nat
      /\ SaturatingSub(poolLamports, PoolReserve) <= poolLamports
  BY <1>1, SaturatingSubBounds
<1> DEFINE free == SaturatingSub(poolLamports, PoolReserve)
           b == BonusFor(lock[l], payout)
<1>4. /\ MinOf(b, free) \in Nat /\ MinOf(b, free) <= free
      /\ MinOf(b, poolTokens) \in Nat /\ MinOf(b, poolTokens) <= poolTokens
  BY <1>1, <1>2, <1>3, MinOfBounds
<1>5. /\ SolBonus(l, payout) \in {0, MinOf(b, free)}
      /\ TokenBonus(l, payout) \in {0, MinOf(b, poolTokens)}
  BY DEF SolBonus, TokenBonus
<1> HIDE DEF free, b
<1>6. free \in Nat /\ free <= poolLamports
  BY <1>3 DEF free
<1>7. /\ SolBonus(l, payout) \in Nat /\ SolBonus(l, payout) <= free
      /\ TokenBonus(l, payout) \in Nat /\ TokenBonus(l, payout) <= poolTokens
  BY <1>1, <1>4, <1>5, <1>6
<1> QED
  BY <1>1, <1>6, <1>7 DEF free
-----------------------------------------------------------------------------
\* Type correctness

LEMMA TypeInit == Init => TypeInv
<1>1. /\ (CHOOSE a \in Admins : TRUE) \in Admins
      /\ (CHOOSE t \in Treasuries : TRUE) \in Treasuries
  BY AddressAssumption
<1>2. 0 \in Nat /\ NullLock \in LockRecord
  BY DEF NullLock, LockRecord
<1> QED
  BY <1>1, <1>2, AddressAssumption, ArgumentAssumption, LimitAssumption
  DEF Init, TypeInv, TypeOK, FeeRateCapped, ConfigRecord, PoolRecord

LEMMA ConfigStepType == ASSUME TypeInv, ConfigStep PROVE TypeInv'
<1>1. ASSUME NEW admin \in Admins, NEW treasury \in Treasuries, NEW fee \in LockFees,
             NEW bps \in FeeRates, Initialize(admin, treasury, fee, bps)
      PROVE  TypeInv'
  <2>1. fee \in Nat /\ bps \in Nat /\ bps <= MAX_REWARD_FEE_BPS
    BY <1>1, ArgumentAssumption DEF Initialize, FeesWithinCaps
  <2>2. config' \in ConfigRecord /\ FeeRateCapped'
    BY <1>1, <2>1 DEF Initialize, TypeInv, TypeOK, FeeRateCapped, ConfigRecord
  <2> QED
    BY <1>1, <2>2 DEF Initialize, TypeInv, TypeOK, escrowVars, poolVars
<1>2. ASSUME NEW admin \in Admins, NEW treasury \in Treasuries, NEW fee \in LockFees,
             NEW bps \in FeeRates, NEW paused \in PauseArgs,
             UpdateConfig(admin, treasury, fee, bps, paused)
      PROVE  TypeInv'
  <2>1. /\ fee \in Nat /\ bps \in Nat /\ bps <= MAX_REWARD_FEE_BPS
        /\ paused \in BOOLEAN
    BY <1>2, ArgumentAssumption DEF UpdateConfig, FeesWithinCaps
  <2>2. config' \in ConfigRecord /\ FeeRateCapped'
    BY <1>2, <2>1 DEF UpdateConfig, TypeInv, TypeOK, FeeRateCapped, ConfigRecord
  <2> QED
    BY <1>2, <2>2 DEF UpdateConfig, TypeInv, TypeOK, escrowVars, poolVars
<1>3. ASSUME NEW key \in CustodyKeys, SetCustodyAuthority(key) PROVE TypeInv'
  BY <1>3 DEF SetCustodyAuthority, TypeInv, TypeOK, FeeRateCapped, escrowVars, poolVars
<1> QED
  BY <1>1, <1>2, <1>3 DEF ConfigStep

\* A deposit of n tokens to an authority.
LEMMA DepositType ==
    ASSUME TypeOK, NEW a \in Auth, NEW n \in Nat, Deposit(a, n)
    PROVE  /\ vault' \in [Auth -> Nat] /\ withheld' \subseteq Auth
           /\ vault'[a] = vault[a] + NetOfTax(n)
           /\ \A b \in Auth : b # a => vault'[b] = vault[b]
<1>1. vault \in [Auth -> Nat] /\ withheld \subseteq Auth
  BY DEF TypeOK
<1>2. NetOfTax(n) \in Nat
  BY NetOfTaxType
<1>3. vault' = Credit(vault, a, NetOfTax(n)) /\ withheld' \in {withheld, withheld \cup {a}}
  BY DEF Deposit
<1> QED
  BY <1>1, <1>2, <1>3, AuthCredit

LEMMA CreateLockType ==
    ASSUME TypeInv, NEW l \in Locks, NEW mode \in Modes, NEW amount \in Amounts,
           NEW unlock \in UnlockTimes, NEW withPool \in BOOLEAN,
           CreateLockIn(l, mode, amount, unlock, withPool)
    PROVE  TypeInv'
<1> DEFINE a == <<l, mode>>
           owner == OwnerOf[l]
           fee == config.lock_fee_lamports
           enrolled == Enrollment(withPool, amount, unlock - now)
<1>1. TypeOK /\ amount \in Nat /\ unlock \in Int /\ now \in Int /\ fee \in Nat
  BY ArgumentAssumption DEF TypeInv, TypeOK, ConfigRecord
<1>2. a \in Auth /\ owner \in Owners /\ owner \in Wallets /\ config.treasury \in Wallets
  BY <1>1, AuthorityType
<1>3. enrolled \in Nat
  <2>1. unlock - now \in Int
    BY <1>1
  <2> QED
    BY <1>1, <2>1, EnrollmentType
<1>4. MissingReserve(a) \in Nat
  BY <1>1, <1>2, ReserveType
<1>5. NewLock(mode, amount, unlock, enrolled) \in LockRecord
  BY <1>1, <1>3 DEF NewLock, LockRecord, TypeOK, PoolRecord
<1>6. lock' \in [Locks -> LockRecord]
  BY <1>1, <1>5 DEF CreateLockIn, TypeOK
<1>7. pool' \in PoolRecord
  BY <1>1, <1>3, EnrolledPoolType DEF CreateLockIn
<1>8. config' \in ConfigRecord /\ FeeRateCapped'
  <2>1. config' = [config EXCEPT !.total_lock_fees = @ + fee, !.total_locks = @ + 1]
    BY DEF CreateLockIn
  <2> QED
    BY <1>1, <2>1, CountLock
<1>9. vault' \in [Auth -> Nat] /\ withheld' \subseteq Auth
  BY <1>1, <1>2, DepositType DEF CreateLockIn
<1>10. coin' \in [Owners -> Nat]
  BY <1>1, <1>2, OwnerDebit DEF CreateLockIn, TypeOK
<1>11. lamports' \in [Auth -> Nat]
  BY <1>1, <1>2, <1>4, AuthCredit DEF CreateLockIn, TypeOK
<1>12. sol' \in [Wallets -> Nat]
  <2>1. sol \in [Wallets -> Nat] /\ sol[owner] \in Nat
    BY <1>1, <1>2 DEF TypeOK
  <2>2. sol[owner] >= fee + MissingReserve(a)
    BY DEF CreateLockIn
  <2> DEFINE s1 == Debit(sol, owner, fee)
             t == config.treasury
             s2 == Credit(s1, t, fee)
  <2>3. s1 \in [Wallets -> Nat] /\ s1[owner] = sol[owner] - fee
    BY <1>1, <1>2, <1>4, <2>1, <2>2, WalletDebit
  <2>4. owner \in Wallets /\ t \in Wallets /\ fee \in Nat
    BY <1>1, <1>2
  <2>5. sol' = Debit(s2, owner, MissingReserve(a))
    BY DEF CreateLockIn
  <2> HIDE DEF s1, t, owner, fee
  <2>6. s1[owner] \in Nat /\ s1[t] \in Nat
    BY <2>3, <2>4
  <2>7. /\ s2 \in [Wallets -> Nat] /\ s2[t] = s1[t] + fee
        /\ \A w \in Wallets : w # t => s2[w] = s1[w]
    <3>1. s1 \in [Wallets -> Nat]
      BY <2>3
    <3> QED
      BY <2>4, <3>1, WalletCredit
  <2> HIDE DEF s2
  <2>8. s2[owner] >= s1[owner]
    BY <2>4, <2>6, <2>7
  <2>9. s1[owner] >= MissingReserve(a)
    BY <1>4, <2>1, <2>2, <2>3, <2>4
  <2>10. s2[owner] \in Nat /\ MissingReserve(a) <= s2[owner]
    BY <1>4, <2>4, <2>6, <2>7, <2>8, <2>9
  <2>11. Debit(s2, owner, MissingReserve(a)) \in [Wallets -> Nat]
    BY <1>4, <2>4, <2>7, <2>10, WalletDebit
  <2> QED
    BY <2>5, <2>11
<1>13. live' \subseteq Locks /\ vaults' \subseteq Auth
  BY <1>1, <1>2 DEF CreateLockIn, TypeOK
<1>14. UNCHANGED <<now, custody, reward, poolLamports, poolTokens, rew, outside>>
  BY DEF CreateLockIn
<1> QED
  BY <1>1, <1>6, <1>7, <1>8, <1>9, <1>10, <1>11, <1>12, <1>13, <1>14
  DEF TypeInv, TypeOK

LEMMA TopUpType ==
    ASSUME TypeInv, NEW l \in Locks, NEW amount \in Amounts, NEW withPool \in BOOLEAN,
           TopUp(l, amount, withPool)
    PROVE  TypeInv'
<1> DEFINE enrolled == Enrollment(withPool, amount, lock[l].unlock_ts - now)
<1>1. /\ TypeOK /\ amount \in Nat /\ lock[l] \in LockRecord
      /\ lock[l].unlock_ts - now \in Int /\ pool.bonus_bps \in Nat
  BY ArgumentAssumption DEF TypeInv, TypeOK, LockRecord, PoolRecord
<1>2. /\ VaultAuthority(l) \in Auth /\ OwnerOf[l] \in Owners
  BY <1>1, AuthorityType
<1>3. enrolled \in Nat
  BY <1>1, EnrollmentType
<1>4. ToppedUp(lock[l], amount, enrolled) \in LockRecord
  <2> HIDE DEF enrolled
  <2>1. /\ lock[l].amount + amount \in Nat /\ lock[l].boosted_amount + enrolled \in Nat
        /\ (IF enrolled > 0 THEN pool.bonus_bps ELSE lock[l].bonus_bps) \in Nat
    BY <1>1, <1>3 DEF LockRecord
  <2> QED
    BY <1>1, <2>1 DEF ToppedUp, LockRecord
<1>5. lock' \in [Locks -> LockRecord]
  BY <1>1, <1>4 DEF TopUp, TypeOK
<1>6. pool' \in PoolRecord
  BY <1>1, <1>3, EnrolledPoolType DEF TopUp
<1>7. coin' \in [Owners -> Nat]
  BY <1>1, <1>2, OwnerDebit DEF TopUp, TypeOK
<1>8. vault' \in [Auth -> Nat] /\ withheld' \subseteq Auth
  BY <1>1, <1>2, DepositType DEF TopUp
<1>9. UNCHANGED <<now, config, custody, live, lamports, vaults, reward,
                  poolLamports, poolTokens, sol, rew, outside>>
  BY DEF TopUp
<1> QED
  BY <1>1, <1>5, <1>6, <1>7, <1>8, <1>9 DEF TypeInv, TypeOK, FeeRateCapped

LEMMA ExtendLockType ==
    ASSUME TypeInv, NEW l \in Locks, NEW unlock \in UnlockTimes, ExtendLock(l, unlock)
    PROVE  TypeInv'
<1>1. unlock \in Int /\ lock[l] \in LockRecord
  BY ArgumentAssumption DEF TypeInv, TypeOK
<1>2. [lock[l] EXCEPT !.unlock_ts = unlock] \in LockRecord
  BY <1>1 DEF LockRecord
<1>3. lock' \in [Locks -> LockRecord]
  BY <1>2 DEF ExtendLock, TypeInv, TypeOK
<1> QED
  BY <1>3 DEF ExtendLock, TypeInv, TypeOK, FeeRateCapped, escrowVars, poolVars

LEMMA ReleaseType ==
    ASSUME TypeInv, NEW l \in Locks, NEW withPool \in BOOLEAN, Release(l, withPool)
    PROVE  TypeInv'
<1> DEFINE a == VaultAuthority(l)
<1>1. TypeOK /\ lock[l] \in LockRecord
  BY DEF TypeInv, TypeOK
<1>2. a \in Auth /\ OwnerOf[l] \in Owners
  BY <1>1, AuthorityType
<1>3. vault' \in [Auth -> Nat] /\ vaults' \subseteq Auth
  BY <1>1 DEF Release, TypeOK
<1>4. coin' \in [Owners -> Nat]
  <2>1. vault[a] \in Nat /\ coin \in [Owners -> Nat]
    BY <1>1, <1>2 DEF TypeOK
  <2> QED
    BY <1>2, <2>1, NetOfTaxType, OwnerCredit DEF Release
<1>5. pool' \in PoolRecord
  <2>1. pool.enrolled \in Nat /\ lock[l].boosted_amount \in Nat /\ pool \in PoolRecord
    BY <1>1 DEF TypeOK, PoolRecord, LockRecord
  <2>2. SaturatingSub(pool.enrolled, lock[l].boosted_amount) \in Nat
    BY <2>1, SaturatingSubBounds
  <2>3. [pool EXCEPT !.enrolled = SaturatingSub(@, lock[l].boosted_amount)] \in PoolRecord
    BY <2>1, <2>2 DEF PoolRecord
  <2> QED
    BY <2>1, <2>3 DEF Release, ReleaseCapacity
<1>6. lock' \in [Locks -> LockRecord]
  <2>1. [lock[l] EXCEPT !.withdrawn = TRUE, !.amount = 0, !.boosted_amount = 0]
           \in LockRecord
    BY <1>1 DEF LockRecord
  <2> QED
    BY <1>1, <2>1 DEF Release, TypeOK
<1>7. UNCHANGED <<now, config, custody, live, lamports, withheld, reward,
                  poolLamports, poolTokens, sol, rew, outside>>
  BY DEF Release
<1> QED
  BY <1>1, <1>3, <1>4, <1>5, <1>6, <1>7 DEF TypeInv, TypeOK, FeeRateCapped

LEMMA ClaimSolType ==
    ASSUME TypeInv, NEW l \in Locks, NEW withPool \in BOOLEAN, ClaimSol(l, withPool)
    PROVE  TypeInv'
<1> DEFINE a == VaultAuthority(l)
           gross == ClaimableSol(a)
           fee == RewardFee(gross)
           payout == RewardPayout(gross)
           bonus == IF withPool THEN SolBonus(l, payout) ELSE 0
<1>1. TypeOK /\ lock[l] \in LockRecord
  BY DEF TypeInv, TypeOK
<1>2. /\ a \in Auth /\ OwnerOf[l] \in Wallets /\ config.treasury \in Wallets
  BY <1>1, AuthorityType
<1>3. gross \in Nat /\ gross <= lamports[a]
  BY <1>1, <1>2, ReserveType
<1>4. fee \in Nat /\ payout \in Nat
  BY <1>3, RewardSplit
<1>5. bonus \in Nat /\ bonus <= poolLamports
  BY <1>1, <1>4, BonusType DEF TypeOK
<1> HIDE DEF bonus
<1>6. lamports' \in [Auth -> Nat]
  BY <1>1, <1>2, <1>3, AuthDebit DEF ClaimSol, TypeOK
<1>7. sol' \in [Wallets -> Nat]
  <2>1. sol' = Credit(Credit(sol, config.treasury, fee), OwnerOf[l], payout + bonus)
    BY DEF ClaimSol, bonus
  <2>2. Credit(sol, config.treasury, fee) \in [Wallets -> Nat]
    BY <1>1, <1>2, <1>4, WalletCredit DEF TypeOK
  <2>3. payout + bonus \in Nat
    BY <1>4, <1>5
  <2> QED
    BY <1>2, <2>1, <2>2, <2>3, WalletCredit
<1>8. pool' \in PoolRecord /\ poolLamports' \in Nat
  <2>1. /\ pool' = [pool EXCEPT !.total_bonus_paid = @ + bonus]
        /\ poolLamports' = poolLamports - bonus
    BY DEF ClaimSol, bonus
  <2> QED
    BY <1>1, <1>5, <2>1, BonusPoolType DEF TypeOK
<1>9. lock' \in [Locks -> LockRecord]
  <2>1. /\ lock[l].sol_rewards_claimed + payout \in Nat
        /\ lock[l].bonus_paid + bonus \in Nat
    BY <1>1, <1>4, <1>5 DEF LockRecord
  <2>2. [lock[l] EXCEPT !.sol_rewards_claimed = @ + payout, !.bonus_paid = @ + bonus]
           \in LockRecord
    BY <1>1, <2>1 DEF LockRecord
  <2>3. lock' = [lock EXCEPT ![l] = [lock[l] EXCEPT !.sol_rewards_claimed = @ + payout,
                                                   !.bonus_paid = @ + bonus]]
    BY <1>1 DEF ClaimSol, bonus, TypeOK
  <2> QED
    BY <1>1, <2>2, <2>3 DEF TypeOK
<1>10. config' \in ConfigRecord /\ FeeRateCapped'
  <2>1. config' = [config EXCEPT !.total_reward_fees = @ + fee,
                                 !.total_rewards_paid = @ + payout]
    BY DEF ClaimSol
  <2> QED
    BY <1>4, <2>1, CountReward
<1>11. UNCHANGED <<now, custody, live, escrowVars, reward, poolTokens, rew, outside>>
  BY DEF ClaimSol
<1> QED
  BY <1>1, <1>6, <1>7, <1>8, <1>9, <1>10, <1>11 DEF TypeInv, TypeOK, escrowVars

LEMMA ClaimTokensType ==
    ASSUME TypeInv, NEW l \in Locks, NEW withPool \in BOOLEAN, ClaimTokens(l, withPool)
    PROVE  TypeInv'
<1> DEFINE a == VaultAuthority(l)
           gross == reward[a]
           fee == RewardFee(gross)
           payout == RewardPayout(gross)
           bonus == IF withPool THEN TokenBonus(l, payout) ELSE 0
<1>1. TypeOK /\ lock[l] \in LockRecord
  BY DEF TypeInv, TypeOK
<1>2. /\ a \in Auth /\ OwnerOf[l] \in Wallets /\ config.treasury \in Wallets
  BY <1>1, AuthorityType
<1>3. gross \in Nat
  BY <1>1, <1>2 DEF TypeOK
<1>4. fee \in Nat /\ payout \in Nat
  BY <1>3, RewardSplit
<1>5. bonus \in Nat /\ bonus <= poolTokens
  BY <1>1, <1>4, BonusType DEF TypeOK
<1> HIDE DEF bonus
<1>6. reward' \in [Auth -> Nat]
  BY <1>1, <1>2 DEF ClaimTokens, TypeOK
<1>7. rew' \in [Wallets -> Nat]
  <2>1. rew' = Credit(Credit(rew, config.treasury, fee), OwnerOf[l], payout + bonus)
    BY DEF ClaimTokens, bonus
  <2>2. Credit(rew, config.treasury, fee) \in [Wallets -> Nat]
    BY <1>1, <1>2, <1>4, WalletCredit DEF TypeOK
  <2>3. payout + bonus \in Nat
    BY <1>4, <1>5
  <2> QED
    BY <1>2, <2>1, <2>2, <2>3, WalletCredit
<1>8. pool' \in PoolRecord /\ poolTokens' \in Nat
  <2>1. /\ pool' = [pool EXCEPT !.total_bonus_paid = @ + bonus]
        /\ poolTokens' = poolTokens - bonus
    BY DEF ClaimTokens, bonus
  <2> QED
    BY <1>1, <1>5, <2>1, BonusPoolType DEF TypeOK
<1>9. lock' \in [Locks -> LockRecord]
  <2>1. [lock[l] EXCEPT !.bonus_paid = @ + bonus] \in LockRecord
    BY <1>1, <1>5 DEF LockRecord
  <2>2. lock' = [lock EXCEPT ![l] = [lock[l] EXCEPT !.bonus_paid = @ + bonus]]
    BY <1>1 DEF ClaimTokens, bonus, TypeOK
  <2> QED
    BY <1>1, <2>1, <2>2 DEF TypeOK
<1>10. UNCHANGED <<now, config, custody, live, lamports, escrowVars, poolLamports,
                   sol, outside>>
  BY DEF ClaimTokens
<1> QED
  BY <1>1, <1>6, <1>7, <1>8, <1>9, <1>10 DEF TypeInv, TypeOK, FeeRateCapped, escrowVars

LEMMA CloseType ==
    ASSUME TypeInv, NEW l \in Locks, CloseWithdrawn(l)
    PROVE  TypeInv'
<1>1. TypeOK /\ VaultAuthority(l) \in Auth /\ NullLock \in LockRecord
  BY AuthorityType DEF TypeInv, NullLock, LockRecord
<1>2. sol' \in [Wallets -> Nat] /\ lamports' \in [Auth -> Nat]
  BY <1>1, SweptType DEF CloseWithdrawn
<1>3. lock' \in [Locks -> LockRecord] /\ live' \subseteq Locks
  BY <1>1 DEF CloseWithdrawn, TypeOK
<1>4. UNCHANGED <<now, config, custody, escrowVars, reward, poolVars, rew, outside>>
  BY DEF CloseWithdrawn
<1> QED
  BY <1>1, <1>2, <1>3, <1>4
  DEF TypeInv, TypeOK, FeeRateCapped, escrowVars, poolVars

LEMMA MigrateType ==
    ASSUME TypeInv, NEW l \in Locks, MigrateLockToCustodial(l)
    PROVE  TypeInv'
<1> DEFINE old == <<l, "pda">>
           new == <<l, "holder">>
           payout == RewardPayout(ClaimableSol(old))
<1>1. TypeOK /\ lock[l] \in LockRecord
  BY DEF TypeInv, TypeOK
<1>2. old \in Auth /\ new \in Auth /\ OwnerOf[l] \in Wallets
  BY <1>1, AuthorityType DEF Modes
<1>3. /\ vault[old] \in Nat /\ NetOfTax(vault[old]) \in Nat
      /\ MissingReserve(new) \in Nat /\ SweepFee(old) \in Nat /\ payout \in Nat
  BY <1>1, <1>2, NetOfTaxType, ReserveType, SweptType, RewardSplit DEF TypeOK
<1>4. vaults' \subseteq Auth /\ withheld' \subseteq Auth
  BY <1>1, <1>2 DEF MigrateLockToCustodial, TypeOK
<1>5. vault' \in [Auth -> Nat]
  <2>1. [vault EXCEPT ![old] = 0] \in [Auth -> Nat]
    BY <1>1 DEF TypeOK
  <2> QED
    BY <1>2, <1>3, <2>1, AuthCredit DEF MigrateLockToCustodial
<1>6. sol' \in [Wallets -> Nat]
  BY <1>2, <1>3, SweptType, WalletDebit DEF MigrateLockToCustodial
<1>7. lamports' \in [Auth -> Nat]
  BY <1>2, <1>3, SweptType, AuthCredit DEF MigrateLockToCustodial
<1>8. lock' \in [Locks -> LockRecord]
  <2>1. lock[l].sol_rewards_claimed + payout \in Nat
    BY <1>1, <1>3 DEF LockRecord
  <2>2. Migrated(lock[l], vault[old], payout) \in LockRecord
    BY <1>1, <1>3, <2>1 DEF Migrated, LockRecord
  <2>3. lock' = [lock EXCEPT ![l] = Migrated(lock[l], vault[old], payout)]
    BY <1>1 DEF MigrateLockToCustodial, TypeOK
  <2> QED
    BY <1>1, <2>2, <2>3 DEF TypeOK
<1>9. config' \in ConfigRecord /\ FeeRateCapped'
  <2>1. config' = [config EXCEPT !.total_reward_fees = @ + SweepFee(old),
                                 !.total_rewards_paid = @ + payout]
    BY DEF MigrateLockToCustodial
  <2> QED
    BY <1>3, <2>1, CountReward
<1>10. UNCHANGED <<now, custody, live, coin, reward, poolVars, rew, outside>>
  BY DEF MigrateLockToCustodial
<1> QED
  BY <1>1, <1>4, <1>5, <1>6, <1>7, <1>8, <1>9, <1>10
  DEF TypeInv, TypeOK, poolVars

LEMMA LockStepType ==
    ASSUME TypeInv, NEW l \in Locks, LockStep(l)
    PROVE  TypeInv'
<1>1. "pda" \in Modes /\ "holder" \in Modes
  BY DEF Modes
<1> QED
  BY <1>1, CreateLockType, TopUpType, ExtendLockType, ReleaseType, ClaimSolType,
     ClaimTokensType, CloseType, MigrateType
  DEF LockStep, CreateLock, CreateLockCustodial, Withdraw, WithdrawCustodial,
      ClaimSolRewards, ClaimSolRewardsCustodial, ClaimTokenRewards,
      ClaimTokenRewardsCustodial, CloseLock, CloseLockCustodial

LEMMA PoolStepType == ASSUME TypeInv, PoolStep PROVE TypeInv'
<1>0. /\ TypeOK /\ FeeRateCapped /\ config.admin \in Admins /\ pool.authority \in Admins
      /\ Admins \subseteq Wallets /\ PoolReserve \in Nat
  BY LimitAssumption DEF TypeInv, TypeOK, ConfigRecord, PoolRecord, Wallets
<1>1. ASSUME NEW pays_sol \in PoolKinds, NEW capacity \in Capacities,
             NEW duration \in MinDurations, NEW bps \in BonusRates,
             CreateBoostPool(pays_sol, capacity, duration, bps)
      PROVE  TypeInv'
  <2>1. pool' \in PoolRecord
    BY <1>0, <1>1, ArgumentAssumption DEF CreateBoostPool, PoolRecord
  <2>2. sol' \in [Wallets -> Nat] /\ poolLamports' \in Nat
    BY <1>0, <1>1, WalletDebit DEF CreateBoostPool, TypeOK
  <2> QED
    BY <1>0, <1>1, <2>1, <2>2
    DEF CreateBoostPool, TypeInv, TypeOK, FeeRateCapped, escrowVars
<1>2. ASSUME NEW authority \in Admins, NEW capacity \in Capacities,
             NEW duration \in MinDurations, NEW bps \in BonusRates,
             NEW active \in ActiveArgs,
             UpdateBoostPool(authority, capacity, duration, bps, active)
      PROVE  TypeInv'
  <2>1. /\ capacity \in Nat /\ duration \in Int /\ bps \in Nat /\ active \in BOOLEAN
        /\ pool \in PoolRecord
    BY <1>0, ArgumentAssumption DEF TypeOK
  <2>2. pool' \in PoolRecord
    BY <1>2, <2>1 DEF UpdateBoostPool, PoolRecord
  <2> QED
    BY <1>0, <1>2, <2>2
    DEF UpdateBoostPool, TypeInv, TypeOK, FeeRateCapped, escrowVars
<1>3. ASSUME NEW n \in FundSizes, NEW funder \in Admins,
             FundBoostPool(funder, n) \/ FundPoolTokens(funder, n)
      PROVE  TypeInv'
  <2>1. n \in Nat /\ funder \in Wallets
    BY <1>0, ArgumentAssumption
  <2>2. CASE FundBoostPool(funder, n)
    <3>1. /\ sol[funder] >= n /\ sol' = Debit(sol, funder, n)
          /\ poolLamports' = poolLamports + n
          /\ sol \in [Wallets -> Nat] /\ poolLamports \in Nat
      BY <1>0, <2>2 DEF FundBoostPool, TypeOK
    <3>2. sol' \in [Wallets -> Nat]
      BY <2>1, <3>1, WalletDebit
    <3>3. poolLamports' \in Nat
      BY <2>1, <3>1
    <3> QED
      BY <1>0, <2>2, <3>2, <3>3
      DEF FundBoostPool, TypeInv, TypeOK, FeeRateCapped, escrowVars
  <2>3. CASE FundPoolTokens(funder, n)
    <3>1. /\ rew[funder] >= n /\ rew' = Debit(rew, funder, n)
          /\ poolTokens' = poolTokens + n
          /\ rew \in [Wallets -> Nat] /\ poolTokens \in Nat
      BY <1>0, <2>3 DEF FundPoolTokens, TypeOK
    <3>2. rew' \in [Wallets -> Nat]
      BY <2>1, <3>1, WalletDebit
    <3>3. poolTokens' \in Nat
      BY <2>1, <3>1
    <3> QED
      BY <1>0, <2>3, <3>2, <3>3
      DEF FundPoolTokens, TypeInv, TypeOK, FeeRateCapped, escrowVars
  <2> QED
    BY <1>3, <2>2, <2>3
<1>4. ASSUME NEW n \in FundSizes, WithdrawBoostPool(n) PROVE TypeInv'
  <2>1. n \in Nat /\ n <= poolLamports
    BY <1>0, <1>4, ArgumentAssumption, SaturatingSubBounds
    DEF WithdrawBoostPool, PoolSolAvailable, TypeOK
  <2>2. /\ sol' = Credit(sol, pool.authority, n) /\ poolLamports' = poolLamports - n
        /\ sol \in [Wallets -> Nat] /\ poolLamports \in Nat
        /\ pool.authority \in Wallets
    BY <1>0, <1>4 DEF WithdrawBoostPool, TypeOK
  <2>3. sol' \in [Wallets -> Nat]
    BY <2>1, <2>2, WalletCredit
  <2>4. poolLamports' \in Nat
    BY <2>1, <2>2
  <2> QED
    BY <1>0, <1>4, <2>3, <2>4
    DEF WithdrawBoostPool, TypeInv, TypeOK, FeeRateCapped, escrowVars
<1>5. ASSUME NEW n \in FundSizes, WithdrawBoostPoolTokens(n) PROVE TypeInv'
  <2>1. n \in Nat
    BY ArgumentAssumption
  <2>2. /\ rew' = Credit(rew, pool.authority, n)
        /\ n <= poolTokens /\ poolTokens' = poolTokens - n
        /\ rew \in [Wallets -> Nat] /\ poolTokens \in Nat
        /\ pool.authority \in Wallets
    BY <1>0, <1>5 DEF WithdrawBoostPoolTokens, TypeOK
  <2>3. rew' \in [Wallets -> Nat]
    BY <2>1, <2>2, WalletCredit
  <2>4. poolTokens' \in Nat
    BY <2>1, <2>2
  <2> QED
    BY <1>0, <1>5, <2>3, <2>4
    DEF WithdrawBoostPoolTokens, TypeInv, TypeOK, FeeRateCapped, escrowVars
<1> QED
  BY <1>1, <1>2, <1>3, <1>4, <1>5 DEF PoolStep

LEMMA WorldStepType == ASSUME TypeInv, WorldStep PROVE TypeInv'
<1>1. CASE Tick
  BY <1>1 DEF Tick, TypeInv, TypeOK, FeeRateCapped, escrowVars, poolVars
<1>2. ASSUME NEW a \in Auth, NEW n \in RewardSizes, DistributeSol(a, n) PROVE TypeInv'
  <2>1. n \in Nat /\ outside \in [sol : Nat, rew : Nat, coin : Nat]
    BY ArgumentAssumption DEF TypeInv, TypeOK
  <2>2. outside' \in [sol : Nat, rew : Nat, coin : Nat]
    BY <1>2, <2>1 DEF DistributeSol
  <2>3. lamports' \in [Auth -> Nat]
    BY <1>2, <2>1, AuthCredit DEF DistributeSol, TypeInv, TypeOK
  <2> QED
    BY <1>2, <2>2, <2>3
    DEF DistributeSol, TypeInv, TypeOK, FeeRateCapped, escrowVars, poolVars
<1>3. ASSUME NEW a \in Auth, NEW n \in RewardSizes, DistributeTokens(a, n) PROVE TypeInv'
  <2>1. n \in Nat /\ outside \in [sol : Nat, rew : Nat, coin : Nat]
    BY ArgumentAssumption DEF TypeInv, TypeOK
  <2>2. outside' \in [sol : Nat, rew : Nat, coin : Nat]
    BY <1>3, <2>1 DEF DistributeTokens
  <2>3. reward' \in [Auth -> Nat]
    BY <1>3, <2>1, AuthCredit DEF DistributeTokens, TypeInv, TypeOK
  <2> QED
    BY <1>3, <2>2, <2>3
    DEF DistributeTokens, TypeInv, TypeOK, FeeRateCapped, escrowVars, poolVars
<1>4. ASSUME NEW a \in Auth, NEW n \in DonationSizes, DonateLockedMint(a, n) PROVE TypeInv'
  <2>1. n \in Nat /\ outside \in [sol : Nat, rew : Nat, coin : Nat] /\ TypeOK
    BY ArgumentAssumption DEF TypeInv, TypeOK
  <2>2. outside' \in [sol : Nat, rew : Nat, coin : Nat]
    BY <1>4, <2>1 DEF DonateLockedMint
  <2>3. /\ vault' \in [Auth -> Nat] /\ withheld' \subseteq Auth
        /\ vaults' \subseteq Auth
    BY <1>4, <2>1, DepositType DEF DonateLockedMint, TypeOK
  <2> QED
    BY <1>4, <2>2, <2>3
    DEF DonateLockedMint, TypeInv, TypeOK, FeeRateCapped, poolVars
<1>5. ASSUME NEW a \in Auth, CollectWithheldTax(a) PROVE TypeInv'
  BY <1>5 DEF CollectWithheldTax, TypeInv, TypeOK, FeeRateCapped, poolVars
<1> QED
  BY <1>1, <1>2, <1>3, <1>4, <1>5 DEF WorldStep

LEMMA TypeStep == TypeInv /\ [Next]_vars => TypeInv'
<1>1. CASE Next
  BY <1>1, ConfigStepType, LockStepType, PoolStepType, WorldStepType DEF Next
<1>2. CASE UNCHANGED vars
  BY <1>2 DEF vars, TypeInv, TypeOK, FeeRateCapped, escrowVars, poolVars
<1> QED
  BY <1>1, <1>2

\* No instruction, in whatever order the signers send them, makes a balance or a
\* counter of an account negative or takes the fee rate above its cap.
THEOREM TypeCorrect == Spec => [](TypeOK /\ FeeRateCapped)
<1>1. Spec => []TypeInv
  BY TypeInit, TypeStep, PTL DEF Spec
<1> QED
  BY <1>1, PTL DEF TypeInv
=============================================================================
