----------------------- MODULE LockerAccountingProofs -----------------------
(***************************************************************************)
(* The accounts of HolderLocker add up: sums over all live locks, or over  *)
(* all wallets of a kind, against the counters of the config and of the    *)
(* pool, for any number of locks, owners and treasuries.  An instruction   *)
(* moves one lock and a few wallets; the sum lemmas of LockerMathProofs    *)
(* turn that into what it does to the sums.                                *)
(***************************************************************************)
EXTENDS LockerSafetyProofs

-----------------------------------------------------------------------------
\* Sums over the live locks

\* An instruction on the lock l leaves the records of the others, and which of
\* them are live.
LEMMA OtherLocksKept ==
    ASSUME TypeInv, NEW l \in Locks, LockStep(l)
    PROVE  \A m \in Locks : m # l => lock'[m] = lock[m] /\ (m \in live' <=> m \in live)
<1>1. lock \in [Locks -> LockRecord]
  BY DEF TypeInv, TypeOK
<1>2. ASSUME NEW mode \in Modes, NEW amount \in Amounts, NEW unlock \in UnlockTimes,
             NEW withPool \in BOOLEAN, CreateLockIn(l, mode, amount, unlock, withPool)
      PROVE  \A m \in Locks : m # l => lock'[m] = lock[m] /\ (m \in live' <=> m \in live)
  BY <1>1, <1>2 DEF CreateLockIn
<1>3. ASSUME NEW amount \in Amounts, NEW withPool \in BOOLEAN, TopUp(l, amount, withPool)
      PROVE  \A m \in Locks : m # l => lock'[m] = lock[m] /\ (m \in live' <=> m \in live)
  BY <1>1, <1>3 DEF TopUp
<1>4. ASSUME NEW unlock \in UnlockTimes, ExtendLock(l, unlock)
      PROVE  \A m \in Locks : m # l => lock'[m] = lock[m] /\ (m \in live' <=> m \in live)
  BY <1>1, <1>4 DEF ExtendLock
<1>5. ASSUME NEW withPool \in BOOLEAN, \/ Release(l, withPool) \/ ClaimSol(l, withPool)
                                       \/ ClaimTokens(l, withPool)
      PROVE  \A m \in Locks : m # l => lock'[m] = lock[m] /\ (m \in live' <=> m \in live)
  BY <1>1, <1>5 DEF Release, ClaimSol, ClaimTokens
<1>6. CASE CloseWithdrawn(l) \/ MigrateLockToCustodial(l)
  BY <1>1, <1>6 DEF CloseWithdrawn, MigrateLockToCustodial
<1> QED
  BY <1>2, <1>3, <1>4, <1>5, <1>6, LockStepCases

\* The part of lock l in a sum over the locks L.
PartOf(l, L, f) == IF l \in L THEN f[l] ELSE 0

\* Two sums whose sets and summands differ only at l.
LEMMA SumAround ==
    ASSUME NEW L \in SUBSET Locks, NEW K \in SUBSET Locks, NEW l \in Locks,
           NEW f \in [Locks -> Nat], NEW g \in [Locks -> Nat],
           \A m \in Locks : m # l => g[m] = f[m] /\ (m \in K <=> m \in L)
    PROVE  \E rest \in Nat : /\ SumOver(L, f) = rest + PartOf(l, L, f)
                             /\ SumOver(K, g) = rest + PartOf(l, K, g)
<1> DEFINE O == L \ {l}
           rest == SumOver(O, f)
<1>1. K \ {l} = O
  OBVIOUS
<1>2. IsFiniteSet(L) /\ IsFiniteSet(K) /\ IsFiniteSet(O)
  BY FiniteAssumption, FS_Subset
<1>3. rest \in Nat /\ SumOver(O, g) = rest
  <2>1. \A m \in O : f[m] \in Nat /\ g[m] = f[m]
    OBVIOUS
  <2> QED
    BY <1>2, <2>1, SumNat, SumSame
<1>4. SumOver(L, f) = rest + PartOf(l, L, f)
  <2>1. CASE l \in L
    BY <1>2, <1>3, <2>1, SumOfOne DEF PartOf
  <2>2. CASE l \notin L
    <3>1. O = L
      BY <2>2
    <3> QED
      BY <1>3, <2>2, <3>1 DEF PartOf
  <2> QED
    BY <2>1, <2>2
<1>5. SumOver(K, g) = rest + PartOf(l, K, g)
  <2>1. CASE l \in K
    <3>1. SumOver(K, g) = g[l] + SumOver(K \ {l}, g)
      BY <1>2, <2>1, SumOfOne
    <3> QED
      BY <1>1, <1>3, <2>1, <3>1 DEF PartOf
  <2>2. CASE l \notin K
    <3>1. O = K
      BY <1>1, <2>2
    <3> QED
      BY <1>3, <2>2, <3>1 DEF PartOf
  <2> QED
    BY <2>1, <2>2
<1> QED
  BY <1>3, <1>4, <1>5

\* Every live lock has these counters.
LEMMA CountersType ==
    ASSUME TypeOK
    PROVE  /\ ClaimedOf \in [Locks -> Nat] /\ BoostedOf \in [Locks -> Nat]
           /\ live \in SUBSET Locks /\ IsFiniteSet(live)
<1>1. lock \in [Locks -> LockRecord] /\ live \in SUBSET Locks
  BY DEF TypeOK
<1>2. IsFiniteSet(live)
  BY <1>1, FiniteAssumption, FS_Subset
<1> QED
  BY <1>1, <1>2 DEF ClaimedOf, BoostedOf, LockRecord

-----------------------------------------------------------------------------
\* The protocol-wide counters

\* What an instruction pays out in SOL it adds to the counter of its lock and to
\* that of the protocol; a closed lock takes its counter along.
LEMMA ClaimedMoves ==
    ASSUME TypeInv, TypeInv', NEW l \in Locks, LockStep(l)
    PROVE  \E n \in Nat :
              /\ config'.total_rewards_paid = config.total_rewards_paid + n
              /\ PartOf(l, live', ClaimedOf') <= PartOf(l, live, ClaimedOf) + n
<1> DEFINE Moved(n) == /\ config'.total_rewards_paid = config.total_rewards_paid + n
                       /\ PartOf(l, live', ClaimedOf') <= PartOf(l, live, ClaimedOf) + n
<1>1. /\ TypeOK /\ TypeOK' /\ lock \in [Locks -> LockRecord] /\ config \in ConfigRecord
      /\ lock[l].sol_rewards_claimed \in Nat /\ lock'[l].sol_rewards_claimed \in Nat
      /\ config.total_rewards_paid \in Nat
  BY DEF TypeInv, TypeOK, LockRecord, ConfigRecord
<1>2. /\ PartOf(l, live, ClaimedOf)
             = IF l \in live THEN lock[l].sol_rewards_claimed ELSE 0
      /\ PartOf(l, live', ClaimedOf')
             = IF l \in live' THEN lock'[l].sol_rewards_claimed ELSE 0
  BY DEF PartOf, ClaimedOf
<1>3. ASSUME NEW mode \in Modes, NEW amount \in Amounts, NEW unlock \in UnlockTimes,
             NEW withPool \in BOOLEAN, CreateLockIn(l, mode, amount, unlock, withPool)
      PROVE  Moved(0)
  <2>1. lock'[l].sol_rewards_claimed = 0
    BY <1>1, <1>3 DEF CreateLockIn, NewLock
  <2>2. config'.total_rewards_paid = config.total_rewards_paid
    BY <1>1, <1>3 DEF CreateLockIn, ConfigRecord
  <2> QED
    BY <1>1, <1>2, <2>1, <2>2
<1>4. ASSUME config' = config, live' \subseteq live,
             \/ lock'[l].sol_rewards_claimed = lock[l].sol_rewards_claimed
             \/ l \notin live'
      PROVE  Moved(0)
  BY <1>1, <1>2, <1>4
<1>5. ASSUME NEW amount \in Amounts, NEW withPool \in BOOLEAN, TopUp(l, amount, withPool)
      PROVE  Moved(0)
  BY <1>1, <1>4, <1>5 DEF TopUp, ToppedUp, LockRecord
<1>6. ASSUME NEW unlock \in UnlockTimes, ExtendLock(l, unlock) PROVE Moved(0)
  BY <1>1, <1>4, <1>6 DEF ExtendLock, LockRecord
<1>7. ASSUME NEW withPool \in BOOLEAN, Release(l, withPool) \/ ClaimTokens(l, withPool)
      PROVE  Moved(0)
  BY <1>1, <1>4, <1>7 DEF Release, ClaimTokens, LockRecord
<1>8. CASE CloseWithdrawn(l)
  <2>1. Moved(0)
    BY <1>1, <1>4, <1>8 DEF CloseWithdrawn
  <2> QED
    BY <2>1
<1>9. ASSUME NEW withPool \in BOOLEAN, ClaimSol(l, withPool) PROVE \E n \in Nat : Moved(n)
  <2> DEFINE n == RewardPayout(ClaimableSol(VaultAuthority(l)))
  <2>1. n \in Nat
    BY <1>1, AuthorityType, ReserveType, RewardSplit
  <2>2. lock'[l].sol_rewards_claimed = lock[l].sol_rewards_claimed + n /\ live' = live
    BY <1>1, <1>9 DEF ClaimSol, LockRecord
  <2>3. config'.total_rewards_paid = config.total_rewards_paid + n
    BY <1>1, <1>9 DEF ClaimSol, ConfigRecord
  <2>4. Moved(n)
    <3> HIDE DEF n
    <3> QED
      BY <1>1, <1>2, <2>1, <2>2, <2>3
  <2> QED
    BY <2>1, <2>4
<1>10. CASE MigrateLockToCustodial(l)
  <2> DEFINE n == RewardPayout(ClaimableSol(<<l, "pda">>))
  <2>1. n \in Nat
    <3>1. <<l, "pda">> \in Auth
      BY <1>1, AuthorityType DEF Modes
    <3> QED
      BY <1>1, <3>1, ReserveType, RewardSplit
  <2>2. lock'[l].sol_rewards_claimed = lock[l].sol_rewards_claimed + n /\ live' = live
    BY <1>1, <1>10 DEF MigrateLockToCustodial, Migrated, LockRecord
  <2>3. config'.total_rewards_paid = config.total_rewards_paid + n
    BY <1>1, <1>10 DEF MigrateLockToCustodial, ConfigRecord
  <2>4. Moved(n)
    <3> HIDE DEF n
    <3> QED
      BY <1>1, <1>2, <2>1, <2>2, <2>3
  <2> QED
    BY <2>1, <2>4
<1> DEFINE Some == \E n \in Nat : Moved(n)
<1>11. Moved(0) => Some
  <2> HIDE DEF Moved
  <2> QED
    OBVIOUS
<1>12. /\ (\E withPool \in BOOLEAN : ClaimSol(l, withPool)) => Some
       /\ CloseWithdrawn(l) \/ MigrateLockToCustodial(l) => Some
  BY <1>8, <1>9, <1>10
<1> HIDE DEF Moved, Some
<1>13. Some
  BY <1>3, <1>5, <1>6, <1>7, <1>11, <1>12, LockStepCases
<1> QED
  BY <1>13 DEF Moved, Some

\* A lock is counted when it is created, and never again.
LEMMA LocksCounted ==
    ASSUME TypeInv, config.total_locks >= Cardinality(live), NEW l \in Locks, LockStep(l)
    PROVE  config'.total_locks >= Cardinality(live')
<1>1. /\ TypeOK /\ IsFiniteSet(live) /\ Cardinality(live) \in Nat
      /\ config \in ConfigRecord /\ config.total_locks \in Nat
  BY CountersType, FS_CardinalityType DEF TypeInv, TypeOK, ConfigRecord
<1>2. ASSUME NEW mode \in Modes, NEW amount \in Amounts, NEW unlock \in UnlockTimes,
             NEW withPool \in BOOLEAN, CreateLockIn(l, mode, amount, unlock, withPool)
      PROVE  config'.total_locks >= Cardinality(live')
  <2>1. live' = live \cup {l} /\ l \notin live
    BY <1>2 DEF CreateLockIn
  <2>2. Cardinality(live') = Cardinality(live) + 1
    BY <1>1, <2>1, FS_AddElement
  <2>3. config'.total_locks = config.total_locks + 1
    BY <1>1, <1>2 DEF CreateLockIn, ConfigRecord
  <2> QED
    BY <1>1, <2>2, <2>3
<1>3. ASSUME config'.total_locks = config.total_locks, live' \in SUBSET live
      PROVE  config'.total_locks >= Cardinality(live')
  <2>1. IsFiniteSet(live') /\ Cardinality(live') <= Cardinality(live)
    BY <1>1, <1>3, FS_Subset
  <2>2. Cardinality(live') \in Nat
    BY <2>1, FS_CardinalityType
  <2> QED
    BY <1>1, <1>3, <2>1, <2>2
<1>4. ASSUME NEW withPool \in BOOLEAN, ClaimSol(l, withPool)
      PROVE  config'.total_locks >= Cardinality(live')
  BY <1>1, <1>3, <1>4 DEF ClaimSol, ConfigRecord
<1>5. CASE MigrateLockToCustodial(l)
  BY <1>1, <1>3, <1>5 DEF MigrateLockToCustodial, ConfigRecord
<1>6. ASSUME config' = config, live' \in SUBSET live
      PROVE  config'.total_locks >= Cardinality(live')
  BY <1>3, <1>6
<1>7. CASE CloseWithdrawn(l)
  BY <1>6, <1>7 DEF CloseWithdrawn
<1>8. ASSUME NEW amount \in Amounts, NEW withPool \in BOOLEAN, TopUp(l, amount, withPool)
      PROVE  config' = config /\ live' = live
  BY <1>8 DEF TopUp
<1>9. ASSUME NEW unlock \in UnlockTimes, ExtendLock(l, unlock)
      PROVE  config' = config /\ live' = live
  BY <1>9 DEF ExtendLock
<1>10. ASSUME NEW withPool \in BOOLEAN, Release(l, withPool) \/ ClaimTokens(l, withPool)
       PROVE  config' = config /\ live' = live
  BY <1>10 DEF Release, ClaimTokens
<1> QED
  BY <1>2, <1>4, <1>5, <1>6, <1>7, <1>8, <1>9, <1>10, LockStepCases

\* The steps of the admin do not touch the counters.
LEMMA ConfigKeepsCounters ==
    ASSUME TypeInv, ConfigStep
    PROVE  /\ config'.total_locks = config.total_locks
           /\ config'.total_lock_fees = config.total_lock_fees
           /\ config'.total_reward_fees = config.total_reward_fees
           /\ config'.total_rewards_paid = config.total_rewards_paid
           /\ UNCHANGED <<sol, rew>>
<1>1. config \in ConfigRecord
  BY DEF TypeInv, TypeOK
<1>2. ASSUME NEW admin \in Admins, NEW treasury \in Treasuries, NEW fee \in LockFees,
             NEW bps \in FeeRates, Initialize(admin, treasury, fee, bps)
      PROVE  /\ config' = [config EXCEPT !.initialized = TRUE, !.admin = admin,
                                         !.treasury = treasury,
                                         !.lock_fee_lamports = fee,
                                         !.reward_fee_bps = bps]
             /\ UNCHANGED <<sol, rew>>
  BY <1>2 DEF Initialize
<1>3. ASSUME NEW admin \in Admins, NEW treasury \in Treasuries, NEW fee \in LockFees,
             NEW bps \in FeeRates, NEW paused \in PauseArgs,
             UpdateConfig(admin, treasury, fee, bps, paused)
      PROVE  /\ config' = [config EXCEPT !.admin = admin, !.treasury = treasury,
                                         !.lock_fee_lamports = fee,
                                         !.reward_fee_bps = bps, !.paused = paused]
             /\ UNCHANGED <<sol, rew>>
  BY <1>3 DEF UpdateConfig
<1>4. ASSUME NEW key \in CustodyKeys, SetCustodyAuthority(key)
      PROVE  UNCHANGED <<config, sol, rew>>
  BY <1>4 DEF SetCustodyAuthority
<1> QED
  BY <1>1, <1>2, <1>3, <1>4 DEF ConfigStep, ConfigRecord

LEMMA TotalsStep ==
    ASSUME TypeInv, TypeInv', TotalsCoverLocks, [Next]_vars
    PROVE  TotalsCoverLocks'
<1>1. TypeOK /\ TypeOK' /\ config.total_rewards_paid \in Nat
  BY DEF TypeInv, TypeOK, ConfigRecord
<1>2. /\ ClaimedOf \in [Locks -> Nat] /\ ClaimedOf' \in [Locks -> Nat]
      /\ live \in SUBSET Locks /\ live' \in SUBSET Locks
  <2>1. ClaimedOf \in [Locks -> Nat] /\ live \in SUBSET Locks
    BY <1>1, CountersType
  <2>2. ClaimedOf' \in [Locks -> Nat] /\ live' \in SUBSET Locks
    BY <1>1 DEF TypeOK, ClaimedOf, LockRecord
  <2> QED
    BY <2>1, <2>2
<1>3. ASSUME NEW l \in Locks, LockStep(l) PROVE TotalsCoverLocks'
  <2>1. PICK n \in Nat :
           /\ config'.total_rewards_paid = config.total_rewards_paid + n
           /\ PartOf(l, live', ClaimedOf') <= PartOf(l, live, ClaimedOf) + n
    BY <1>3, ClaimedMoves
  <2>2. \A m \in Locks : m # l => ClaimedOf'[m] = ClaimedOf[m] /\ (m \in live' <=> m \in live)
    BY <1>3, OtherLocksKept DEF ClaimedOf
  <2>3. PICK rest \in Nat : /\ SumOver(live, ClaimedOf) = rest + PartOf(l, live, ClaimedOf)
                            /\ SumOver(live', ClaimedOf') = rest + PartOf(l, live', ClaimedOf')
    <3> DEFINE f == ClaimedOf
               g == ClaimedOf'
               L == live
               K == live'
    <3>1. /\ f \in [Locks -> Nat] /\ g \in [Locks -> Nat]
          /\ L \in SUBSET Locks /\ K \in SUBSET Locks
          /\ \A m \in Locks : m # l => g[m] = f[m] /\ (m \in K <=> m \in L)
      BY <1>2, <2>2
    <3> HIDE DEF f, g, L, K
    <3>2. \E rest \in Nat : /\ SumOver(L, f) = rest + PartOf(l, L, f)
                            /\ SumOver(K, g) = rest + PartOf(l, K, g)
      BY <3>1, SumAround
    <3> QED
      BY <3>2 DEF f, g, L, K
  <2>4. PartOf(l, live, ClaimedOf) \in Nat /\ PartOf(l, live', ClaimedOf') \in Nat
    BY <1>2 DEF PartOf
  <2>5. config.total_rewards_paid >= SumOver(live, ClaimedOf)
    BY DEF TotalsCoverLocks
  <2>6. config'.total_rewards_paid >= SumOver(live', ClaimedOf')
    BY <1>1, <2>1, <2>3, <2>4, <2>5
  <2>7. config'.total_locks >= Cardinality(live')
    BY <1>3, LocksCounted DEF TotalsCoverLocks
  <2> QED
    BY <2>6, <2>7 DEF TotalsCoverLocks
<1>4. ASSUME UNCHANGED <<live, lock>>, config'.total_locks = config.total_locks,
             config'.total_rewards_paid = config.total_rewards_paid
      PROVE  TotalsCoverLocks'
  <2>1. ClaimedOf' = ClaimedOf
    BY <1>4 DEF ClaimedOf
  <2> QED
    BY <1>4, <2>1 DEF TotalsCoverLocks
<1>5. CASE ConfigStep
  BY <1>4, <1>5, ConfigStepLeaves, ConfigKeepsCounters
<1>6. CASE PoolStep \/ WorldStep \/ UNCHANGED vars
  <2>1. UNCHANGED <<live, lock, config>>
    BY <1>6, PoolStepLeaves, WorldStepLeaves DEF vars
  <2> QED
    BY <1>4, <2>1
<1> QED
  BY <1>3, <1>5, <1>6 DEF Next

\* lib.rs, the counters of Config: every live lock has been counted, and every
\* lamport that the live locks say they were paid is in the total, also after
\* migrations, closings and the creation of a lock at a used address.
THEOREM TotalsAreComplete == Spec => []TotalsCoverLocks
<1>1. Init => TotalsCoverLocks
  <2> SUFFICES ASSUME Init PROVE TotalsCoverLocks
    OBVIOUS
  <2>1. live = {} /\ config.total_locks = 0 /\ config.total_rewards_paid = 0
    BY DEF Init
  <2>2. Cardinality(live) = 0 /\ SumOver(live, ClaimedOf) = 0
    BY <2>1, FS_EmptySet, SumEmpty
  <2> QED
    BY <2>1, <2>2 DEF TotalsCoverLocks
<1>2. TypeInv /\ TypeInv' /\ TotalsCoverLocks /\ [Next]_vars => TotalsCoverLocks'
  BY TotalsStep
<1>3. Spec => []TypeInv
  BY TypeInit, TypeStep, PTL DEF Spec
<1> QED
  BY <1>1, <1>2, <1>3, PTL DEF Spec

-----------------------------------------------------------------------------
\* The enrolled tokens

\* What the sum of the boosted amounts and the pool's counter need of each other:
\* without a pool nothing is enrolled, and a withdrawn lock has nothing boosted.
BoostInv ==
    /\ EnrolledCoversBoosted
    /\ ~pool.exists => pool.enrolled = 0
    /\ \A l \in Locks : lock[l].withdrawn => lock[l].boosted_amount = 0

\* An instruction on l enrolls n tokens, in the pool and in the lock alike.
Enrolls(l, n) ==
    /\ pool'.enrolled = pool.enrolled + n
    /\ PartOf(l, live', BoostedOf') = PartOf(l, live, BoostedOf) + n
    /\ n > 0 => pool.exists
    /\ pool'.exists = pool.exists

LEMMA BoostedPart ==
    ASSUME TypeOK, NEW l \in Locks
    PROVE  /\ PartOf(l, live, BoostedOf) = IF l \in live THEN lock[l].boosted_amount ELSE 0
           /\ PartOf(l, live', BoostedOf') = IF l \in live' THEN lock'[l].boosted_amount ELSE 0
           /\ PartOf(l, live, BoostedOf) \in Nat
           /\ pool.enrolled \in Nat /\ pool \in PoolRecord
           /\ lock \in [Locks -> LockRecord] /\ lock[l] \in LockRecord
           /\ lock[l].boosted_amount \in Nat /\ now \in Int /\ lock[l].unlock_ts \in Int
  BY DEF TypeOK, PartOf, BoostedOf, LockRecord, PoolRecord

LEMMA EnrollsCreated ==
    ASSUME TypeInv, NEW l \in Locks, NEW mode \in Modes, NEW amount \in Amounts,
           NEW unlock \in UnlockTimes, NEW withPool \in BOOLEAN,
           CreateLockIn(l, mode, amount, unlock, withPool)
    PROVE  \E n \in Nat : Enrolls(l, n)
<1> DEFINE n == Enrollment(withPool, amount, unlock - now)
<1>1. TypeOK /\ amount \in Nat /\ unlock - now \in Int
  BY ArgumentAssumption DEF TypeInv, TypeOK
<1>2. n \in Nat
  BY <1>1, EnrollmentType
<1>3. n > 0 => pool.exists
  BY DEF CreateLockIn, Passable, Enrollment
<1>4. l \notin live /\ l \in live' /\ lock'[l].boosted_amount = n
  BY <1>1, BoostedPart DEF CreateLockIn, NewLock
<1>5. pool' = [pool EXCEPT !.enrolled = @ + n]
  BY DEF CreateLockIn
<1> HIDE DEF n
<1>6. pool'.enrolled = pool.enrolled + n /\ pool'.exists = pool.exists
  BY <1>1, <1>5, BoostedPart DEF PoolRecord
<1> QED
  BY <1>1, <1>2, <1>3, <1>4, <1>6, BoostedPart DEF Enrolls

LEMMA EnrollsToppedUp ==
    ASSUME TypeInv, NEW l \in Locks, NEW amount \in Amounts, NEW withPool \in BOOLEAN,
           TopUp(l, amount, withPool)
    PROVE  \E n \in Nat : Enrolls(l, n)
<1> DEFINE n == Enrollment(withPool, amount, lock[l].unlock_ts - now)
<1>1. TypeOK /\ amount \in Nat /\ lock[l].unlock_ts - now \in Int
  BY ArgumentAssumption, BoostedPart DEF TypeInv
<1>2. n \in Nat
  BY <1>1, EnrollmentType
<1>3. n > 0 => pool.exists
  BY DEF TopUp, Passable, Enrollment
<1>4. /\ l \in live /\ live' = live
      /\ lock' = [lock EXCEPT ![l] = ToppedUp(@, amount, n)]
      /\ pool' = [pool EXCEPT !.enrolled = @ + n]
  BY DEF TopUp, Active
<1> HIDE DEF n
<1>5. lock'[l].boosted_amount = lock[l].boosted_amount + n
  BY <1>1, <1>4, BoostedPart DEF ToppedUp, LockRecord
<1>6. pool'.enrolled = pool.enrolled + n /\ pool'.exists = pool.exists
  BY <1>1, <1>4, BoostedPart DEF PoolRecord
<1> QED
  BY <1>1, <1>2, <1>3, <1>4, <1>5, <1>6, BoostedPart DEF Enrolls

\* The other instructions, but for a withdrawal, enroll and release nothing.
LEMMA EnrollsNothing ==
    ASSUME TypeInv, NEW l \in Locks, pool'.enrolled = pool.enrolled,
           pool'.exists = pool.exists, l \in live' <=> l \in live,
           lock'[l].boosted_amount = lock[l].boosted_amount
    PROVE  \E n \in Nat : Enrolls(l, n)
<1>1. TypeOK
  BY DEF TypeInv
<1>2. Enrolls(l, 0)
  BY <1>1, BoostedPart DEF Enrolls
<1> QED
  BY <1>2

LEMMA EnrollsClaimed ==
    ASSUME TypeInv, NEW l \in Locks, NEW withPool \in BOOLEAN,
           ClaimSol(l, withPool) \/ ClaimTokens(l, withPool)
    PROVE  \E n \in Nat : Enrolls(l, n)
<1>1. TypeOK
  BY DEF TypeInv
<1>2. /\ live' = live /\ pool'.enrolled = pool.enrolled /\ pool'.exists = pool.exists
      /\ lock'[l].boosted_amount = lock[l].boosted_amount
  BY <1>1, BoostedPart DEF ClaimSol, ClaimTokens, LockRecord, PoolRecord
<1> QED
  BY <1>2, EnrollsNothing

LEMMA EnrollsExtended ==
    ASSUME TypeInv, NEW l \in Locks, NEW unlock \in UnlockTimes, ExtendLock(l, unlock)
    PROVE  \E n \in Nat : Enrolls(l, n)
<1>1. TypeOK
  BY DEF TypeInv
<1>2. /\ live' = live /\ pool' = pool
      /\ lock'[l].boosted_amount = lock[l].boosted_amount
  BY <1>1, BoostedPart DEF ExtendLock, poolVars, LockRecord
<1> QED
  BY <1>2, EnrollsNothing

LEMMA EnrollsMigrated ==
    ASSUME TypeInv, NEW l \in Locks, MigrateLockToCustodial(l)
    PROVE  \E n \in Nat : Enrolls(l, n)
<1>1. TypeOK
  BY DEF TypeInv
<1>2. /\ live' = live /\ pool' = pool
      /\ lock'[l].boosted_amount = lock[l].boosted_amount
  BY <1>1, BoostedPart DEF MigrateLockToCustodial, Migrated, poolVars, LockRecord
<1> QED
  BY <1>2, EnrollsNothing

LEMMA EnrollsClosed ==
    ASSUME TypeInv, BoostInv, NEW l \in Locks, CloseWithdrawn(l)
    PROVE  \E n \in Nat : Enrolls(l, n)
<1>1. TypeOK
  BY DEF TypeInv
<1>2. pool' = pool /\ l \notin live' /\ lock[l].boosted_amount = 0
  BY DEF CloseWithdrawn, poolVars, BoostInv
<1>3. Enrolls(l, 0)
  BY <1>1, <1>2, BoostedPart DEF Enrolls
<1> QED
  BY <1>3

\* A withdrawal clears the boosted amount, and gives it back if the pool is passed.
LEMMA Releases ==
    ASSUME TypeInv, NEW l \in Locks, NEW withPool \in BOOLEAN, Release(l, withPool)
    PROVE  /\ PartOf(l, live', BoostedOf') = 0
           /\ pool'.enrolled = IF withPool
                               THEN SaturatingSub(pool.enrolled, PartOf(l, live, BoostedOf))
                               ELSE pool.enrolled
           /\ pool'.exists = pool.exists
<1>1. TypeOK
  BY DEF TypeInv
<1>2. /\ l \in live /\ live' = live /\ lock'[l].boosted_amount = 0
      /\ pool' = ReleaseCapacity(l, withPool)
  BY <1>1, BoostedPart DEF Release, Active, LockRecord
<1>3. PartOf(l, live, BoostedOf) = lock[l].boosted_amount
  BY <1>1, <1>2, BoostedPart
<1> QED
  BY <1>1, <1>2, <1>3, BoostedPart DEF ReleaseCapacity, PoolRecord

LEMMA BoostCases ==
    ASSUME TypeInv, BoostInv, NEW l \in Locks, LockStep(l)
    PROVE  \/ \E n \in Nat : Enrolls(l, n)
           \/ \E withPool \in BOOLEAN : Release(l, withPool)
<1> DEFINE Some == \E n \in Nat : Enrolls(l, n)
<1>1. /\ (\E mode \in Modes, amount \in Amounts, unlock \in UnlockTimes,
             withPool \in BOOLEAN : CreateLockIn(l, mode, amount, unlock, withPool)) => Some
      /\ (\E amount \in Amounts, withPool \in BOOLEAN : TopUp(l, amount, withPool)) => Some
  BY EnrollsCreated, EnrollsToppedUp
<1>2. /\ (\E unlock \in UnlockTimes : ExtendLock(l, unlock)) => Some
      /\ (\E withPool \in BOOLEAN : ClaimSol(l, withPool)) => Some
      /\ (\E withPool \in BOOLEAN : ClaimTokens(l, withPool)) => Some
  BY EnrollsExtended, EnrollsClaimed
<1>3. CloseWithdrawn(l) \/ MigrateLockToCustodial(l) => Some
  BY EnrollsClosed, EnrollsMigrated
<1> HIDE DEF Some
<1>4. Some \/ \E withPool \in BOOLEAN : Release(l, withPool)
  BY <1>1, <1>2, <1>3, LockStepCases
<1> QED
  BY <1>4 DEF Some

\* The sum moves by what the instruction does to its own lock.
LEMMA BoostedAround ==
    ASSUME TypeInv, TypeInv', NEW l \in Locks, LockStep(l)
    PROVE  \E rest \in Nat :
              /\ SumOver(live, BoostedOf) = rest + PartOf(l, live, BoostedOf)
              /\ SumOver(live', BoostedOf') = rest + PartOf(l, live', BoostedOf')
<1> DEFINE f == BoostedOf
           g == BoostedOf'
           L == live
           K == live'
<1>1. /\ f \in [Locks -> Nat] /\ g \in [Locks -> Nat]
      /\ L \in SUBSET Locks /\ K \in SUBSET Locks
  BY DEF TypeInv, TypeOK, BoostedOf, LockRecord
<1>2. \A m \in Locks : m # l => g[m] = f[m] /\ (m \in K <=> m \in L)
  BY OtherLocksKept DEF BoostedOf
<1> HIDE DEF f, g, L, K
<1>3. \E rest \in Nat : /\ SumOver(L, f) = rest + PartOf(l, L, f)
                        /\ SumOver(K, g) = rest + PartOf(l, K, g)
  BY <1>1, <1>2, SumAround
<1> QED
  BY <1>3 DEF f, g, L, K

LEMMA BoostedSumNat == ASSUME TypeInv PROVE SumOver(live, BoostedOf) \in Nat
<1>1. BoostedOf \in [Locks -> Nat] /\ live \in SUBSET Locks /\ IsFiniteSet(live)
  BY CountersType DEF TypeInv
<1> QED
  BY <1>1, SumNat

LEMMA CoversLockStep ==
    ASSUME TypeInv, TypeInv', BoostInv, NEW l \in Locks, LockStep(l)
    PROVE  EnrolledCoversBoosted' /\ (~pool'.exists => pool'.enrolled = 0)
<1> DEFINE part == PartOf(l, live, BoostedOf)
<1>1. PICK rest \in Nat : /\ SumOver(live, BoostedOf) = rest + part
                         /\ SumOver(live', BoostedOf') = rest + PartOf(l, live', BoostedOf')
  BY BoostedAround
<1>2. part \in Nat /\ pool.enrolled \in Nat /\ pool.enrolled >= rest + part
  BY <1>1, BoostedPart DEF TypeInv, BoostInv, EnrolledCoversBoosted
<1>3. ~pool.exists => pool.enrolled = 0
  BY DEF BoostInv
<1>4. ASSUME NEW n \in Nat, Enrolls(l, n)
      PROVE  EnrolledCoversBoosted' /\ (~pool'.exists => pool'.enrolled = 0)
  <2>1. pool'.enrolled >= SumOver(live', BoostedOf')
    BY <1>1, <1>2, <1>4 DEF Enrolls
  <2>2. ~pool'.exists => pool'.enrolled = 0
    BY <1>2, <1>3, <1>4 DEF Enrolls
  <2> QED
    BY <2>1, <2>2 DEF EnrolledCoversBoosted
<1>5. ASSUME NEW withPool \in BOOLEAN, Release(l, withPool)
      PROVE  EnrolledCoversBoosted' /\ (~pool'.exists => pool'.enrolled = 0)
  <2>1. /\ PartOf(l, live', BoostedOf') = 0 /\ pool'.exists = pool.exists
        /\ \/ pool'.enrolled = pool.enrolled
           \/ pool'.enrolled = SaturatingSub(pool.enrolled, part)
    BY <1>5, Releases
  <2>2. SumOver(live', BoostedOf') = rest
    BY <1>1, <2>1
  <2> HIDE DEF part
  <2>3. SaturatingSub(pool.enrolled, part) = pool.enrolled - part
    <3>1. pool.enrolled >= part
      BY <1>1, <1>2
    <3> QED
      BY <1>2, <3>1, SaturatingSubBounds
  <2>4. pool'.enrolled >= rest
    BY <1>1, <1>2, <2>1, <2>3
  <2>5. ~pool'.exists => pool'.enrolled = 0
    <3>1. CASE pool.exists
      BY <2>1, <3>1
    <3>2. CASE ~pool.exists
      <4>1. pool.enrolled = 0 /\ part = 0
        BY <1>1, <1>2, <1>3, <3>2
      <4> QED
        BY <2>1, <2>3, <4>1
    <3> QED
      BY <3>1, <3>2
  <2> QED
    BY <2>2, <2>4, <2>5 DEF EnrolledCoversBoosted
<1> QED
  BY <1>4, <1>5, BoostCases

\* A lock that is withdrawn has nothing boosted, closed or not.
LEMMA NothingBoosted ==
    ASSUME TypeInv, BoostInv, NEW l \in Locks, LockStep(l)
    PROVE  \A m \in Locks : lock'[m].withdrawn => lock'[m].boosted_amount = 0
<1>1. lock \in [Locks -> LockRecord]
  BY DEF TypeInv, TypeOK
<1>2. \A m \in Locks : lock[m].withdrawn => lock[m].boosted_amount = 0
  BY DEF BoostInv
<1>3. \A m \in Locks : m # l => lock'[m] = lock[m]
  BY OtherLocksKept
<1>4. lock'[l].withdrawn => lock'[l].boosted_amount = 0
  <2>1. ASSUME NEW mode \in Modes, NEW amount \in Amounts, NEW unlock \in UnlockTimes,
               NEW withPool \in BOOLEAN, CreateLockIn(l, mode, amount, unlock, withPool)
        PROVE  ~lock'[l].withdrawn
    BY <1>1, <2>1 DEF CreateLockIn, NewLock
  <2>2. ASSUME NEW amount \in Amounts, NEW withPool \in BOOLEAN, TopUp(l, amount, withPool)
        PROVE  ~lock'[l].withdrawn
    BY <1>1, <2>2 DEF TopUp, ToppedUp, Active, LockRecord
  <2>3. ASSUME NEW unlock \in UnlockTimes, ExtendLock(l, unlock) PROVE ~lock'[l].withdrawn
    BY <1>1, <2>3 DEF ExtendLock, Active, LockRecord
  <2>4. ASSUME NEW withPool \in BOOLEAN, Release(l, withPool)
        PROVE  lock'[l].boosted_amount = 0
    BY <1>1, <2>4 DEF Release, LockRecord
  <2>5. ASSUME NEW withPool \in BOOLEAN, ClaimSol(l, withPool) \/ ClaimTokens(l, withPool)
        PROVE  /\ lock'[l].withdrawn = lock[l].withdrawn
               /\ lock'[l].boosted_amount = lock[l].boosted_amount
    BY <1>1, <2>5 DEF ClaimSol, ClaimTokens, LockRecord
  <2>6. CASE CloseWithdrawn(l)
    BY <1>1, <2>6 DEF CloseWithdrawn, NullLock
  <2>7. CASE MigrateLockToCustodial(l)
    BY <1>1, <2>7 DEF MigrateLockToCustodial, Migrated, Active, LockRecord
  <2> QED
    BY <1>2, <2>1, <2>2, <2>3, <2>4, <2>5, <2>6, <2>7, LockStepCases
<1> QED
  BY <1>2, <1>3, <1>4

\* A pool starts with nothing enrolled, when nothing is boosted; afterwards its
\* authority has no say in the counter.
LEMMA BoostPoolStep ==
    ASSUME TypeInv, BoostInv, PoolStep
    PROVE  BoostInv'
<1>1. live' = live /\ lock' = lock /\ pool \in PoolRecord
  BY PoolStepLeaves DEF TypeInv, TypeOK
<1>2. BoostedOf' = BoostedOf
  BY <1>1 DEF BoostedOf
<1>3. ASSUME NEW pays_sol \in PoolKinds, NEW capacity \in Capacities,
             NEW duration \in MinDurations, NEW bps \in BonusRates,
             CreateBoostPool(pays_sol, capacity, duration, bps)
      PROVE  pool'.enrolled = pool.enrolled /\ pool'.exists
  <2>1. pool.enrolled = 0
    BY <1>3 DEF CreateBoostPool, BoostInv
  <2> QED
    BY <1>3, <2>1 DEF CreateBoostPool
<1>4. ASSUME NEW authority \in Admins, NEW capacity \in Capacities,
             NEW duration \in MinDurations, NEW bps \in BonusRates,
             NEW active \in ActiveArgs,
             UpdateBoostPool(authority, capacity, duration, bps, active)
      PROVE  pool'.enrolled = pool.enrolled /\ pool'.exists
  BY <1>1, <1>4 DEF UpdateBoostPool, PoolRecord
<1>5. ASSUME NEW funder \in Admins, NEW n \in FundSizes,
             \/ FundBoostPool(funder, n) \/ FundPoolTokens(funder, n)
             \/ WithdrawBoostPool(n) \/ WithdrawBoostPoolTokens(n)
      PROVE  pool'.enrolled = pool.enrolled /\ pool'.exists
  BY <1>5 DEF FundBoostPool, FundPoolTokens, WithdrawBoostPool, WithdrawBoostPoolTokens
<1>6. pool'.enrolled = pool.enrolled /\ pool'.exists
  BY <1>3, <1>4, <1>5, AddressAssumption DEF PoolStep
<1> QED
  BY <1>1, <1>2, <1>6 DEF BoostInv, EnrolledCoversBoosted

LEMMA BoostStep ==
    ASSUME TypeInv, TypeInv', BoostInv, [Next]_vars
    PROVE  BoostInv'
<1>1. ASSUME NEW l \in Locks, LockStep(l) PROVE BoostInv'
  BY <1>1, CoversLockStep, NothingBoosted DEF BoostInv
<1>2. CASE ConfigStep \/ WorldStep \/ UNCHANGED vars
  <2>1. UNCHANGED <<live, lock, pool>>
    BY <1>2, ConfigStepLeaves, WorldStepLeaves DEF vars, poolVars
  <2>2. BoostedOf' = BoostedOf
    BY <2>1 DEF BoostedOf
  <2> QED
    BY <2>1, <2>2 DEF BoostInv, EnrolledCoversBoosted
<1> QED
  BY <1>1, <1>2, BoostPoolStep DEF Next

LEMMA BoostInit == Init => BoostInv
<1> SUFFICES ASSUME Init PROVE BoostInv
  OBVIOUS
<1>1. live = {} /\ pool.enrolled = 0 /\ \A l \in Locks : lock[l].boosted_amount = 0
  BY DEF Init, NullLock
<1>2. SumOver(live, BoostedOf) = 0
  BY <1>1, SumEmpty
<1> QED
  BY <1>1, <1>2 DEF BoostInv, EnrolledCoversBoosted

LEMMA BoostAlways == Spec => []BoostInv
<1>1. Spec => []TypeInv
  BY TypeInit, TypeStep, PTL DEF Spec
<1>2. TypeInv /\ TypeInv' /\ BoostInv /\ [Next]_vars => BoostInv'
  BY BoostStep
<1> QED
  BY <1>1, <1>2, BoostInit, PTL DEF Spec

\* enroll_boost, withdraw and create_boost_pool: the pool never counts less than the
\* live locks have boosted, so no withdrawal takes out more than is enrolled.
THEOREM EnrollmentCoversLocks == Spec => []EnrolledCoversBoosted
<1>1. BoostInv => EnrolledCoversBoosted
  BY DEF BoostInv
<1> QED
  BY <1>1, BoostAlways, PTL

-----------------------------------------------------------------------------
\* What the treasuries hold.  The properties measure by wallet, so they need the
\* wallets of the roles to be apart: a treasury that also locks, or that is also an
\* admin, spends from the same wallet.
RolesApart ==
    Treasuries \cap (Owners \cup Admins) = {} /\ Owners \cap Admins = {}

\* The treasury of the config receives n lamports, of which the config counts at
\* most n; no other treasury's wallet moves.
Pays(n) ==
    /\ \A t \in Treasuries : sol'[t] = IF t = config.treasury THEN sol[t] + n ELSE sol[t]
    /\ config'.total_lock_fees + config'.total_reward_fees
          <= config.total_lock_fees + config.total_reward_fees + n

LEMMA WalletTypes ==
    ASSUME TypeInv, RolesApart
    PROVE  /\ sol \in [Wallets -> Nat] /\ rew \in [Wallets -> Nat]
           /\ config.treasury \in Treasuries /\ config.admin \in Admins
           /\ pool.authority \in Admins /\ config \in ConfigRecord
           /\ config.total_lock_fees \in Nat /\ config.total_reward_fees \in Nat
           /\ config.lock_fee_lamports \in Nat
           /\ \A t \in Treasuries : t \in Wallets /\ t \notin Owners /\ t \notin Admins
           /\ \A o \in Owners : o \in Wallets /\ o \notin Treasuries /\ o \notin Admins
           /\ \A l \in Locks : OwnerOf[l] \in Owners
  BY AddressAssumption
  DEF TypeInv, TypeOK, ConfigRecord, PoolRecord, Wallets, RolesApart

LEMMA PaysOnCreation ==
    ASSUME TypeInv, RolesApart, NEW l \in Locks, NEW mode \in Modes,
           NEW amount \in Amounts, NEW unlock \in UnlockTimes, NEW withPool \in BOOLEAN,
           CreateLockIn(l, mode, amount, unlock, withPool)
    PROVE  Pays(config.lock_fee_lamports)
<1> DEFINE owner == OwnerOf[l]
           fee   == config.lock_fee_lamports
           m     == MissingReserve(<<l, mode>>)
<1>1. sol' = Debit(Credit(Debit(sol, owner, fee), config.treasury, fee), owner, m)
  BY DEF CreateLockIn
<1>2. config' = [config EXCEPT !.total_lock_fees = @ + fee, !.total_locks = @ + 1]
  BY DEF CreateLockIn
<1> HIDE DEF m
<1>3. ASSUME NEW t \in Treasuries
      PROVE  sol'[t] = IF t = config.treasury THEN sol[t] + fee ELSE sol[t]
  BY <1>1, WalletTypes DEF Debit, Credit
<1>4. /\ config'.total_lock_fees = config.total_lock_fees + fee
      /\ config'.total_reward_fees = config.total_reward_fees
  BY <1>2, WalletTypes DEF ConfigRecord
<1> QED
  BY <1>3, <1>4, WalletTypes DEF Pays

LEMMA PaysOnClaim ==
    ASSUME TypeInv, RolesApart, NEW l \in Locks, NEW withPool \in BOOLEAN,
           ClaimSol(l, withPool)
    PROVE  \E n \in Nat : Pays(n)
<1> DEFINE gross == ClaimableSol(VaultAuthority(l))
           fee   == RewardFee(gross)
           paid  == RewardPayout(gross)
                      + (IF withPool THEN SolBonus(l, RewardPayout(gross)) ELSE 0)
<1>1. TypeOK /\ gross \in Nat
  BY AuthorityType, ReserveType DEF TypeInv
<1>2. fee \in Nat
  BY <1>1, RewardSplit
<1>3. /\ sol' = Credit(Credit(sol, config.treasury, fee), OwnerOf[l], paid)
      /\ config' = [config EXCEPT !.total_reward_fees = @ + fee,
                                  !.total_rewards_paid = @ + RewardPayout(gross)]
  BY DEF ClaimSol
<1> HIDE DEF fee, paid
<1>4. ASSUME NEW t \in Treasuries
      PROVE  sol'[t] = IF t = config.treasury THEN sol[t] + fee ELSE sol[t]
  BY <1>3, WalletTypes DEF Credit
<1>5. /\ config'.total_lock_fees = config.total_lock_fees
      /\ config'.total_reward_fees = config.total_reward_fees + fee
  BY <1>3, WalletTypes DEF ConfigRecord
<1>6. Pays(fee)
  BY <1>2, <1>4, <1>5, WalletTypes DEF Pays
<1> QED
  BY <1>2, <1>6

\* A sweep pays its fee to the treasury; nothing else of it reaches a treasury.
LEMMA PaysOnSweep ==
    ASSUME TypeInv, RolesApart, NEW l \in Locks, NEW a \in Auth, NEW t \in Treasuries
    PROVE  /\ Swept(l, a)[t] = IF t = config.treasury THEN sol[t] + SweepFee(a) ELSE sol[t]
           /\ SweepFee(a) \in Nat
<1>1. SweepFee(a) \in Nat
  BY SweptType
<1>2. Swept(l, a)[t] = IF t = config.treasury THEN sol[t] + SweepFee(a) ELSE sol[t]
  BY WalletTypes DEF Swept, Credit
<1> QED
  BY <1>1, <1>2

LEMMA PaysOnClose ==
    ASSUME TypeInv, RolesApart, NEW l \in Locks, CloseWithdrawn(l)
    PROVE  \E n \in Nat : Pays(n)
<1> DEFINE n == SweepFee(VaultAuthority(l))
<1>1. VaultAuthority(l) \in Auth
  BY AuthorityType DEF TypeInv
<1>2. n \in Nat
  BY <1>1, SweptType
<1>3. config' = config /\ sol' = Swept(l, VaultAuthority(l))
  BY DEF CloseWithdrawn
<1>4. \A t \in Treasuries : sol'[t] = IF t = config.treasury THEN sol[t] + n ELSE sol[t]
  BY <1>1, <1>3, PaysOnSweep
<1> HIDE DEF n
<1>5. Pays(n)
  BY <1>2, <1>3, <1>4, WalletTypes DEF Pays
<1> QED
  BY <1>2, <1>5

LEMMA PaysOnMigration ==
    ASSUME TypeInv, RolesApart, NEW l \in Locks, MigrateLockToCustodial(l)
    PROVE  \E n \in Nat : Pays(n)
<1> DEFINE old == <<l, "pda">>
           n == SweepFee(old)
           m == MissingReserve(<<l, "holder">>)
           swept == Swept(l, old)
<1>1. old \in Auth
  BY AuthorityType DEF TypeInv, Modes
<1>2. n \in Nat /\ swept \in [Wallets -> Nat]
  BY <1>1, SweptType
<1>3. /\ sol' = Debit(swept, OwnerOf[l], m)
      /\ config' = [config EXCEPT !.total_reward_fees = @ + n,
                                  !.total_rewards_paid = @ + RewardPayout(ClaimableSol(old))]
  BY DEF MigrateLockToCustodial
<1>4. \A t \in Treasuries : swept[t] = IF t = config.treasury THEN sol[t] + n ELSE sol[t]
  BY <1>1, PaysOnSweep
<1> HIDE DEF n, m, swept
<1>5. \A t \in Treasuries : sol'[t] = swept[t]
  BY <1>2, <1>3, WalletTypes DEF Debit
<1>6. /\ config'.total_lock_fees = config.total_lock_fees
      /\ config'.total_reward_fees = config.total_reward_fees + n
  BY <1>3, WalletTypes DEF ConfigRecord
<1>7. Pays(n)
  BY <1>2, <1>4, <1>5, <1>6, WalletTypes DEF Pays
<1> QED
  BY <1>2, <1>7

LEMMA PaysOnLockStep ==
    ASSUME TypeInv, RolesApart, NEW l \in Locks, LockStep(l)
    PROVE  \E n \in Nat : Pays(n)
<1> DEFINE Some == \E n \in Nat : Pays(n)
<1>1. ASSUME config' = config, sol' = sol PROVE Some
  <2>1. Pays(0)
    BY <1>1, WalletTypes DEF Pays
  <2> QED
    BY <2>1
<1>2. (\E mode \in Modes, amount \in Amounts, unlock \in UnlockTimes,
          withPool \in BOOLEAN : CreateLockIn(l, mode, amount, unlock, withPool)) => Some
  BY PaysOnCreation, WalletTypes
<1>3. /\ (\E withPool \in BOOLEAN : ClaimSol(l, withPool)) => Some
      /\ CloseWithdrawn(l) \/ MigrateLockToCustodial(l) => Some
  BY PaysOnClaim, PaysOnClose, PaysOnMigration
<1>4. /\ (\E amount \in Amounts, withPool \in BOOLEAN : TopUp(l, amount, withPool)) => Some
      /\ (\E unlock \in UnlockTimes : ExtendLock(l, unlock)) => Some
      /\ (\E withPool \in BOOLEAN : Release(l, withPool)) => Some
      /\ (\E withPool \in BOOLEAN : ClaimTokens(l, withPool)) => Some
  <2> HIDE DEF Some
  <2> QED
    BY <1>1 DEF TopUp, ExtendLock, Release, ClaimTokens
<1> HIDE DEF Some
<1>5. Some
  BY <1>2, <1>3, <1>4, LockStepCases
<1> QED
  BY <1>5 DEF Some

\* The pool's instructions move the wallets of admins only.
LEMMA PoolPaysAdmins ==
    ASSUME TypeInv, RolesApart, PoolStep
    PROVE  \A w \in Treasuries \cup Owners : sol'[w] = sol[w] /\ rew'[w] = rew[w]
<1> DEFINE Kept == \A w \in Treasuries \cup Owners : sol'[w] = sol[w] /\ rew'[w] = rew[w]
<1>1. \A w \in Treasuries \cup Owners : w \in Wallets /\ w \notin Admins
  BY WalletTypes
<1>2. ASSUME NEW pays_sol \in PoolKinds, NEW capacity \in Capacities,
             NEW duration \in MinDurations, NEW bps \in BonusRates,
             CreateBoostPool(pays_sol, capacity, duration, bps)
      PROVE  Kept
  BY <1>1, <1>2, WalletTypes DEF CreateBoostPool, Debit
<1>3. ASSUME NEW authority \in Admins, NEW capacity \in Capacities,
             NEW duration \in MinDurations, NEW bps \in BonusRates,
             NEW active \in ActiveArgs,
             UpdateBoostPool(authority, capacity, duration, bps, active)
      PROVE  Kept
  BY <1>3 DEF UpdateBoostPool
<1>4. ASSUME NEW funder \in Admins, NEW n \in FundSizes,
             FundBoostPool(funder, n) \/ FundPoolTokens(funder, n)
      PROVE  Kept
  BY <1>1, <1>4, WalletTypes DEF FundBoostPool, FundPoolTokens, Debit
<1>5. ASSUME NEW n \in FundSizes, WithdrawBoostPool(n) \/ WithdrawBoostPoolTokens(n)
      PROVE  Kept
  BY <1>1, <1>5, WalletTypes DEF WithdrawBoostPool, WithdrawBoostPoolTokens, Credit
<1> QED
  BY <1>2, <1>3, <1>4, <1>5 DEF PoolStep

LEMMA TreasurySums ==
    ASSUME TypeInv
    PROVE  /\ IsFiniteSet(Treasuries) /\ IsFiniteSet(Owners)
           /\ \A t \in Treasuries : sol[t] \in Nat /\ rew[t] \in Nat
           /\ \A o \in Owners : sol[o] \in Nat /\ rew[o] \in Nat
           /\ SumOver(Treasuries, sol) \in Nat
           /\ SumOver(Treasuries, rew) \in Nat /\ SumOver(Owners, rew) \in Nat
<1>1. /\ IsFiniteSet(Treasuries) /\ IsFiniteSet(Owners)
      /\ \A t \in Treasuries : sol[t] \in Nat /\ rew[t] \in Nat
      /\ \A o \in Owners : sol[o] \in Nat /\ rew[o] \in Nat
  BY FiniteAssumption DEF TypeInv, TypeOK, Wallets
<1> QED
  BY <1>1, SumNat

\* A sum of which one summand grew.
LEMMA SumRaised ==
    ASSUME NEW S, IsFiniteSet(S), NEW f, NEW g, NEW x \in S, NEW n \in Nat,
           \A y \in S : f[y] \in Nat /\ g[y] \in Nat,
           \A y \in S : y # x => g[y] = f[y], g[x] = f[x] + n
    PROVE  SumOver(S, g) = SumOver(S, f) + n
<1>1. SumOver(S, g) = SumOver(S, f) - f[x] + g[x]
  BY SumChange
<1>2. SumOver(S, f) \in Nat
  BY SumNat
<1> QED
  BY <1>1, <1>2

LEMMA TreasuryStep ==
    ASSUME TypeInv, TypeInv', RolesApart, TreasuryGetsFees, [Next]_vars
    PROVE  TreasuryGetsFees'
<1> DEFINE f == sol
           g == sol'
           counted == config.total_lock_fees + config.total_reward_fees
<1>1. /\ \A t \in Treasuries : f[t] \in Nat /\ g[t] \in Nat
      /\ IsFiniteSet(Treasuries) /\ config.treasury \in Treasuries
      /\ SumOver(Treasuries, f) \in Nat /\ SumOver(Treasuries, f) >= counted
      /\ counted \in Nat
      /\ config'.total_lock_fees + config'.total_reward_fees \in Nat
  <2>1. \A t \in Treasuries : g[t] \in Nat
    BY DEF TypeInv, TypeOK, Wallets
  <2>2. config'.total_lock_fees + config'.total_reward_fees \in Nat
    BY DEF TypeInv, TypeOK, ConfigRecord
  <2> QED
    BY <2>1, <2>2, TreasurySums, WalletTypes DEF TreasuryGetsFees
<1>2. ASSUME NEW l \in Locks, LockStep(l)
      PROVE  SumOver(Treasuries, g) >= config'.total_lock_fees + config'.total_reward_fees
  <2>1. PICK n \in Nat : Pays(n)
    BY <1>2, PaysOnLockStep
  <2>2. /\ g[config.treasury] = f[config.treasury] + n
        /\ \A t \in Treasuries : t # config.treasury => g[t] = f[t]
    BY <1>1, <2>1 DEF Pays
  <2>3. config'.total_lock_fees + config'.total_reward_fees <= counted + n
    BY <2>1 DEF Pays
  <2> HIDE DEF f, g, counted
  <2>4. SumOver(Treasuries, g) = SumOver(Treasuries, f) + n
    <3> DEFINE tr == config.treasury
    <3>1. /\ IsFiniteSet(Treasuries) /\ tr \in Treasuries /\ n \in Nat
          /\ \A t \in Treasuries : f[t] \in Nat /\ g[t] \in Nat
      BY <1>1
    <3>2. g[tr] = f[tr] + n /\ \A t \in Treasuries : t # tr => g[t] = f[t]
      BY <2>2
    <3> HIDE DEF tr
    <3> QED
      BY <3>1, <3>2, SumRaised
  <2> QED
    BY <1>1, <2>3, <2>4
<1>3. ASSUME \A t \in Treasuries : g[t] = f[t],
             config'.total_lock_fees + config'.total_reward_fees = counted
      PROVE  SumOver(Treasuries, g) >= config'.total_lock_fees + config'.total_reward_fees
  <2> HIDE DEF f, g, counted
  <2>1. SumOver(Treasuries, g) = SumOver(Treasuries, f)
    BY <1>1, <1>3, SumSame
  <2> QED
    BY <1>1, <1>3, <2>1
<1>4. CASE ConfigStep
  BY <1>3, <1>4, ConfigKeepsCounters DEF TreasuryGetsFees
<1>5. CASE PoolStep
  BY <1>3, <1>5, PoolPaysAdmins, PoolStepLeaves DEF TreasuryGetsFees
<1>6. CASE WorldStep
  <2>1. sol' = sol
    BY <1>6 DEF WorldStep, Tick, DistributeSol, DistributeTokens, DonateLockedMint,
                CollectWithheldTax
  <2> QED
    BY <1>3, <1>6, <2>1, WorldStepLeaves DEF TreasuryGetsFees
<1>7. CASE UNCHANGED vars
  BY <1>3, <1>7 DEF vars, TreasuryGetsFees
<1> QED
  BY <1>2, <1>4, <1>5, <1>6, <1>7 DEF Next, TreasuryGetsFees

\* create_lock, claim_sol_rewards and migrate: every lamport that the config counts
\* as a fee lies in a treasury, through any changes of the treasury and of the rates.
THEOREM TreasuryHoldsFees ==
    ASSUME RolesApart
    PROVE  Spec => []TreasuryGetsFees
<1>1. Init => TreasuryGetsFees
  <2> SUFFICES ASSUME Init PROVE TreasuryGetsFees
    OBVIOUS
  <2>1. TypeInv /\ config.total_lock_fees = 0 /\ config.total_reward_fees = 0
    BY TypeInit DEF Init
  <2> QED
    BY <2>1, TreasurySums DEF TreasuryGetsFees
<1>2. TypeInv /\ TypeInv' /\ TreasuryGetsFees /\ [Next]_vars => TreasuryGetsFees'
  BY TreasuryStep
<1>3. Spec => []TypeInv
  BY TypeInit, TypeStep, PTL DEF Spec
<1> QED
  BY <1>1, <1>2, <1>3, PTL DEF Spec

\* A claim of token rewards is split like one of SOL, between the treasury of the
\* config and the owner, who also gets the bonus; no other of these wallets moves.
LEMMA TokensSplit ==
    ASSUME TypeInv, RolesApart, NEW l \in Locks, NEW withPool \in BOOLEAN,
           ClaimTokens(l, withPool)
    PROVE  \E fee \in Nat, paid \in Nat :
              /\ fee * BPS_DENOMINATOR <= MAX_REWARD_FEE_BPS * (fee + paid)
              /\ rew'[config.treasury] = rew[config.treasury] + fee
              /\ rew'[OwnerOf[l]] = rew[OwnerOf[l]] + paid
              /\ \A t \in Treasuries : t # config.treasury => rew'[t] = rew[t]
              /\ \A o \in Owners : o # OwnerOf[l] => rew'[o] = rew[o]
<1> DEFINE gross  == reward[VaultAuthority(l)]
           fee    == RewardFee(gross)
           payout == RewardPayout(gross)
           bonus  == IF withPool THEN TokenBonus(l, payout) ELSE 0
           paid   == payout + bonus
<1>1. gross \in Nat
  BY AuthorityType DEF TypeInv, TypeOK
<1>2. fee \in Nat /\ payout \in Nat
  BY <1>1, RewardSplit
<1>3. bonus \in Nat
  BY <1>2, BonusType
<1>4. rew' = Credit(Credit(rew, config.treasury, fee), OwnerOf[l], paid)
  BY DEF ClaimTokens
<1>5. fee * BPS_DENOMINATOR <= MAX_REWARD_FEE_BPS * (fee + paid)
  <2>1. fee * BPS_DENOMINATOR <= MAX_REWARD_FEE_BPS * (fee + payout)
    BY <1>1, SplitShare
  <2>2. MAX_REWARD_FEE_BPS \in Nat /\ BPS_DENOMINATOR \in Nat
    BY LimitAssumption, MathAssumption
  <2> HIDE DEF fee, payout, bonus
  <2>3. fee + payout \in Nat /\ fee + paid \in Nat /\ fee + payout <= fee + paid
    BY <1>2, <1>3
  <2>4. /\ MAX_REWARD_FEE_BPS * (fee + payout) <= MAX_REWARD_FEE_BPS * (fee + paid)
        /\ (fee + payout) * MAX_REWARD_FEE_BPS \in Nat
        /\ (fee + paid) * MAX_REWARD_FEE_BPS \in Nat
    BY <2>2, <2>3, MulMono
  <2>5. fee * BPS_DENOMINATOR \in Nat /\ MAX_REWARD_FEE_BPS * (fee + payout) \in Nat
        /\ MAX_REWARD_FEE_BPS * (fee + paid) \in Nat
    BY <1>2, <2>2, <2>3, SMT
  <2> QED
    BY <2>1, <2>4, <2>5
<1>6. paid \in Nat
  BY <1>2, <1>3
<1> HIDE DEF fee, paid
<1>7. /\ rew'[config.treasury] = rew[config.treasury] + fee
      /\ rew'[OwnerOf[l]] = rew[OwnerOf[l]] + paid
      /\ \A t \in Treasuries : t # config.treasury => rew'[t] = rew[t]
      /\ \A o \in Owners : o # OwnerOf[l] => rew'[o] = rew[o]
  BY <1>4, WalletTypes DEF Credit
<1> QED
  BY <1>2, <1>5, <1>6, <1>7

LEMMA TokenShareClaim ==
    ASSUME TypeInv, TypeInv', RolesApart, TokenFeeShareCapped, NEW l \in Locks,
           NEW withPool \in BOOLEAN, ClaimTokens(l, withPool)
    PROVE  TokenFeeShareCapped'
<1> DEFINE f     == rew
           g     == rew'
           fees  == SumOver(Treasuries, f)
           held  == SumOver(Owners, f)
           after == SumOver(Treasuries, g)
           owned == SumOver(Owners, g)
           tr    == config.treasury
           owner == OwnerOf[l]
<1>1. /\ IsFiniteSet(Treasuries) /\ IsFiniteSet(Owners) /\ fees \in Nat /\ held \in Nat
      /\ tr \in Treasuries /\ owner \in Owners
      /\ \A t \in Treasuries : f[t] \in Nat /\ g[t] \in Nat
      /\ \A o \in Owners : f[o] \in Nat /\ g[o] \in Nat
  <2>1. (\A t \in Treasuries : g[t] \in Nat) /\ (\A o \in Owners : g[o] \in Nat)
    BY DEF TypeInv, TypeOK, Wallets
  <2> QED
    BY <2>1, TreasurySums, WalletTypes
<1>2. PICK fee \in Nat, paid \in Nat :
         /\ fee * BPS_DENOMINATOR <= MAX_REWARD_FEE_BPS * (fee + paid)
         /\ g[tr] = f[tr] + fee /\ g[owner] = f[owner] + paid
         /\ \A t \in Treasuries : t # tr => g[t] = f[t]
         /\ \A o \in Owners : o # owner => g[o] = f[o]
  BY TokensSplit
<1>3. fees * BPS_DENOMINATOR <= MAX_REWARD_FEE_BPS * (fees + held)
  BY DEF TokenFeeShareCapped
<1>4. BPS_DENOMINATOR \in Nat /\ MAX_REWARD_FEE_BPS \in Nat
  BY MathAssumption, LimitAssumption
<1> HIDE DEF f, g, tr, owner
<1>5. after = fees + fee
  <2>1. /\ IsFiniteSet(Treasuries) /\ tr \in Treasuries /\ fee \in Nat
        /\ \A t \in Treasuries : f[t] \in Nat /\ g[t] \in Nat
    BY <1>1
  <2>2. g[tr] = f[tr] + fee /\ \A t \in Treasuries : t # tr => g[t] = f[t]
    BY <1>2
  <2> HIDE DEF fees, after
  <2>3. SumOver(Treasuries, g) = SumOver(Treasuries, f) + fee
    BY <2>1, <2>2, SumRaised
  <2> QED
    BY <2>3 DEF fees, after
<1>6. owned = held + paid
  <2>1. IsFiniteSet(Owners) /\ owner \in Owners
    BY <1>1
  <2>2. \A o \in Owners : f[o] \in Nat /\ g[o] \in Nat
    BY <1>1
  <2>3. \A o \in Owners : o # owner => g[o] = f[o]
    BY <1>2
  <2>4. g[owner] = f[owner] + paid
    BY <1>2
  <2> HIDE DEF held, owned
  <2>5. SumOver(Owners, g) = SumOver(Owners, f) + paid
    BY <2>1, <2>2, <2>3, <2>4, SumRaised
  <2> QED
    BY <2>5 DEF held, owned
<1>7. after * BPS_DENOMINATOR <= MAX_REWARD_FEE_BPS * (after + owned)
  <2> HIDE DEF fees, held, after, owned
  <2>1. (fees + fee) * BPS_DENOMINATOR
           <= MAX_REWARD_FEE_BPS * ((fees + fee) + (held + paid))
    BY <1>1, <1>2, <1>3, <1>4, SharesAdd
  <2> QED
    BY <1>5, <1>6, <2>1
<1> QED
  BY <1>7 DEF TokenFeeShareCapped, g

LEMMA TokenShareStep ==
    ASSUME TypeInv, TypeInv', RolesApart, TokenFeeShareCapped, [Next]_vars
    PROVE  TokenFeeShareCapped'
<1>1. ASSUME \A w \in Treasuries \cup Owners : rew'[w] = rew[w]
      PROVE  TokenFeeShareCapped'
  <2> DEFINE f == rew
             g == rew'
  <2>1. /\ IsFiniteSet(Treasuries)
        /\ \A t \in Treasuries : f[t] \in Nat /\ g[t] = f[t]
    BY <1>1, TreasurySums
  <2>2. /\ IsFiniteSet(Owners)
        /\ \A o \in Owners : f[o] \in Nat /\ g[o] = f[o]
    BY <1>1, TreasurySums
  <2> HIDE DEF f, g
  <2>3. SumOver(Treasuries, g) = SumOver(Treasuries, f)
    BY <2>1, SumSame
  <2>4. SumOver(Owners, g) = SumOver(Owners, f)
    BY <2>2, SumSame
  <2> QED
    BY <2>3, <2>4 DEF f, g, TokenFeeShareCapped
<1>2. ASSUME NEW l \in Locks, LockStep(l) PROVE TokenFeeShareCapped'
  <2>1. ASSUME NEW mode \in Modes, NEW amount \in Amounts, NEW unlock \in UnlockTimes,
               NEW withPool \in BOOLEAN, CreateLockIn(l, mode, amount, unlock, withPool)
        PROVE  rew' = rew
    BY <2>1 DEF CreateLockIn
  <2>2. ASSUME NEW amount \in Amounts, NEW withPool \in BOOLEAN, TopUp(l, amount, withPool)
        PROVE  rew' = rew
    BY <2>2 DEF TopUp
  <2>3. ASSUME NEW unlock \in UnlockTimes, ExtendLock(l, unlock) PROVE rew' = rew
    BY <2>3 DEF ExtendLock
  <2>4. ASSUME NEW withPool \in BOOLEAN, Release(l, withPool) \/ ClaimSol(l, withPool)
        PROVE  rew' = rew
    BY <2>4 DEF Release, ClaimSol
  <2>5. ASSUME CloseWithdrawn(l) \/ MigrateLockToCustodial(l) PROVE rew' = rew
    BY <2>5 DEF CloseWithdrawn, MigrateLockToCustodial
  <2>6. \/ rew' = rew
        \/ \E withPool \in BOOLEAN : ClaimTokens(l, withPool)
    BY <1>2, <2>1, <2>2, <2>3, <2>4, <2>5, LockStepCases
  <2> QED
    BY <1>1, <2>6, TokenShareClaim
<1>3. CASE ConfigStep
  BY <1>1, <1>3, ConfigKeepsCounters
<1>4. CASE PoolStep
  BY <1>1, <1>4, PoolPaysAdmins
<1>5. CASE WorldStep \/ UNCHANGED vars
  <2>1. rew' = rew
    BY <1>5 DEF WorldStep, Tick, DistributeSol, DistributeTokens, DonateLockedMint,
                CollectWithheldTax, vars
  <2> QED
    BY <1>1, <2>1
<1> QED
  BY <1>2, <1>3, <1>4, <1>5 DEF Next

\* claim_token_rewards: the treasuries never get more than MAX_REWARD_FEE_BPS of the
\* token rewards that they and the owners got, bonus included.
THEOREM TokenFeeShareIsCapped ==
    ASSUME RolesApart
    PROVE  Spec => []TokenFeeShareCapped
<1>1. Init => TokenFeeShareCapped
  <2> SUFFICES ASSUME Init PROVE TokenFeeShareCapped
    OBVIOUS
  <2>1. TypeInv /\ \A t \in Treasuries : rew[t] = 0
    BY TypeInit DEF Init, RolesApart, Wallets
  <2>2. SumOver(Treasuries, rew) = 0 /\ SumOver(Owners, rew) \in Nat
    BY <2>1, TreasurySums, SumZero
  <2>3. BPS_DENOMINATOR \in Nat /\ MAX_REWARD_FEE_BPS \in Nat
    BY MathAssumption, LimitAssumption
  <2>4. MAX_REWARD_FEE_BPS * SumOver(Owners, rew) \in Nat
    BY <2>2, <2>3, SMT
  <2> QED
    BY <2>2, <2>3, <2>4 DEF TokenFeeShareCapped
<1>2. TypeInv /\ TypeInv' /\ TokenFeeShareCapped /\ [Next]_vars => TokenFeeShareCapped'
  BY TokenShareStep
<1>3. Spec => []TypeInv
  BY TypeInit, TypeStep, PTL DEF Spec
<1> QED
  BY <1>1, <1>2, <1>3, PTL DEF Spec
=============================================================================
