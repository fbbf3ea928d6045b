------------------------- MODULE LockerSafetyProofs -------------------------
(***************************************************************************)
(* Safety invariants of HolderLocker, for every value of the constants.    *)
(* Each is inductive relative to the type invariant: that lamports and     *)
(* vaults are functions on the authorities, and that the fee rate is       *)
(* capped, is what the arithmetic of a step needs.                         *)
(***************************************************************************)
EXTENDS HolderLockerProofs

-----------------------------------------------------------------------------
\* The instructions behind a step, without their trustless and custodial variants,
\* and what the steps that are not instructions on locks leave alone.

LEMMA LockStepCases ==
    ASSUME NEW l \in Locks, LockStep(l)
    PROVE  \/ \E mode \in Modes, amount \in Amounts, unlock \in UnlockTimes,
                 withPool \in BOOLEAN : CreateLockIn(l, mode, amount, unlock, withPool)
           \/ \E amount \in Amounts, withPool \in BOOLEAN : TopUp(l, amount, withPool)
           \/ \E unlock \in UnlockTimes : ExtendLock(l, unlock)
           \/ \E withPool \in BOOLEAN : Release(l, withPool)
           \/ \E withPool \in BOOLEAN : ClaimSol(l, withPool)
           \/ \E withPool \in BOOLEAN : ClaimTokens(l, withPool)
           \/ CloseWithdrawn(l)
           \/ MigrateLockToCustodial(l)
<1>1. "pda" \in Modes /\ "holder" \in Modes
  BY DEF Modes
<1> QED
  BY <1>1
  DEF LockStep, CreateLock, CreateLockCustodial, Withdraw, WithdrawCustodial,
      ClaimSolRewards, ClaimSolRewardsCustodial, ClaimTokenRewards,
      ClaimTokenRewardsCustodial, CloseLock, CloseLockCustodial

LEMMA ConfigStepLeaves ==
    ASSUME ConfigStep
    PROVE  UNCHANGED <<now, live, lock, lamports, vaults, vault, pool, poolLamports>>
<1>1. ASSUME NEW admin \in Admins, NEW treasury \in Treasuries, NEW fee \in LockFees,
             NEW bps \in FeeRates, Initialize(admin, treasury, fee, bps)
      PROVE  UNCHANGED <<now, live, lock, lamports, vaults, vault, pool, poolLamports>>
  BY <1>1 DEF Initialize, escrowVars, poolVars
<1>2. ASSUME NEW admin \in Admins, NEW treasury \in Treasuries, NEW fee \in LockFees,
             NEW bps \in FeeRates, NEW paused \in PauseArgs,
             UpdateConfig(admin, treasury, fee, bps, paused)
      PROVE  UNCHANGED <<now, live, lock, lamports, vaults, vault, pool, poolLamports>>
  BY <1>2 DEF UpdateConfig, escrowVars, poolVars
<1>3. ASSUME NEW key \in CustodyKeys, SetCustodyAuthority(key)
      PROVE  UNCHANGED <<now, live, lock, lamports, vaults, vault, pool, poolLamports>>
  BY <1>3 DEF SetCustodyAuthority, escrowVars, poolVars
<1> QED
  BY <1>1, <1>2, <1>3 DEF ConfigStep

LEMMA PoolStepLeaves ==
    ASSUME PoolStep
    PROVE  UNCHANGED <<now, config, live, lock, lamports, vaults, vault>>
<1>1. ASSUME NEW pays_sol \in PoolKinds, NEW capacity \in Capacities,
             NEW duration \in MinDurations, NEW bps \in BonusRates,
             CreateBoostPool(pays_sol, capacity, duration, bps)
      PROVE  UNCHANGED <<now, config, live, lock, lamports, vaults, vault>>
  BY <1>1 DEF CreateBoostPool, escrowVars
<1>2. ASSUME NEW authority \in Admins, NEW capacity \in Capacities,
             NEW duration \in MinDurations, NEW bps \in BonusRates,
             NEW active \in ActiveArgs,
             UpdateBoostPool(authority, capacity, duration, bps, active)
      PROVE  UNCHANGED <<now, config, live, lock, lamports, vaults, vault>>
  BY <1>2 DEF UpdateBoostPool, escrowVars
<1>3. ASSUME NEW funder \in Admins, NEW n \in FundSizes,
             FundBoostPool(funder, n) \/ FundPoolTokens(funder, n)
      PROVE  UNCHANGED <<now, config, live, lock, lamports, vaults, vault>>
  BY <1>3 DEF FundBoostPool, FundPoolTokens, escrowVars
<1>4. ASSUME NEW n \in FundSizes, WithdrawBoostPool(n) \/ WithdrawBoostPoolTokens(n)
      PROVE  UNCHANGED <<now, config, live, lock, lamports, vaults, vault>>
  BY <1>4 DEF WithdrawBoostPool, WithdrawBoostPoolTokens, escrowVars
<1> QED
  BY <1>1, <1>2, <1>3, <1>4, AddressAssumption DEF PoolStep

LEMMA WorldStepLeaves ==
    ASSUME WorldStep
    PROVE  UNCHANGED <<config, live, lock, pool, poolLamports>>
<1>1. Tick => UNCHANGED <<config, live, lock, pool, poolLamports>>
  BY DEF Tick, poolVars
<1>2. ASSUME NEW a \in Auth, NEW n \in RewardSizes, DistributeSol(a, n) \/ DistributeTokens(a, n)
      PROVE  UNCHANGED <<config, live, lock, pool, poolLamports>>
  BY <1>2 DEF DistributeSol, DistributeTokens, poolVars
<1>3. ASSUME NEW a \in Auth, NEW n \in DonationSizes, DonateLockedMint(a, n)
      PROVE  UNCHANGED <<config, live, lock, pool, poolLamports>>
  BY <1>3 DEF DonateLockedMint, poolVars
<1>4. ASSUME NEW a \in Auth, CollectWithheldTax(a)
      PROVE  UNCHANGED <<config, live, lock, pool, poolLamports>>
  BY <1>4 DEF CollectWithheldTax, poolVars
<1> QED
  BY <1>1, <1>2, <1>3, <1>4 DEF WorldStep

-----------------------------------------------------------------------------
\* Authorities of different locks are different, and custody moves only by a
\* creation, a closing or a migration.

LEMMA OtherAuthority ==
    ASSUME TypeOK, NEW l \in Locks, NEW m \in Locks, m # l, NEW mode \in Modes
    PROVE  VaultAuthority(m) # <<l, mode>>
  BY DEF VaultAuthority

LEMMA AuthoritySame ==
    ASSUME NEW m \in Locks, lock'[m].custodial = lock[m].custodial
    PROVE  VaultAuthority(m)' = VaultAuthority(m)
  BY DEF VaultAuthority

-----------------------------------------------------------------------------
\* The reserve of the authorities

\* The lamports stay and no lock changes hands.
LEMMA RentFrame ==
    ASSUME RentKept, lamports' = lamports, live' \subseteq live,
           \A m \in Locks : lock'[m].custodial = lock[m].custodial,
           live \subseteq Locks
    PROVE  RentKept'
  BY AuthoritySame DEF RentKept

\* Authorities outside S keep their lamports, and locks but l their authority, which
\* is not in S.
OthersKeepLamports(S) == \A b \in Auth \ S : lamports'[b] = lamports[b]

OthersKeepAuthority(l, S) ==
    \A m \in Locks \ {l} : /\ VaultAuthority(m)' = VaultAuthority(m)
                           /\ VaultAuthority(m) \in Auth \ S

\* A new lock's authority is brought up to the reserve.
LEMMA CreateFunds ==
    ASSUME TypeInv, NEW l \in Locks, NEW mode \in Modes, NEW amount \in Amounts,
           NEW unlock \in UnlockTimes, NEW withPool \in BOOLEAN,
           CreateLockIn(l, mode, amount, unlock, withPool)
    PROVE  /\ l \notin live /\ live' = live \cup {l} /\ VaultAuthority(l)' = <<l, mode>>
           /\ <<l, mode>> \in Auth /\ lamports'[<<l, mode>>] >= Reserve
           /\ OthersKeepLamports({<<l, mode>>}) /\ OthersKeepAuthority(l, {<<l, mode>>})
<1> DEFINE a == <<l, mode>>
<1>1. TypeOK /\ a \in Auth /\ live \subseteq Locks /\ lamports \in [Auth -> Nat]
      /\ lock \in [Locks -> LockRecord]
  BY AuthorityType DEF TypeInv, TypeOK
<1>2. MissingReserve(a) \in Nat /\ lamports[a] + MissingReserve(a) >= Reserve
  BY <1>1, ReserveType
<1>3. live' = live \cup {l} /\ l \notin live
  BY DEF CreateLockIn
<1>4. lamports'[a] >= Reserve /\ \A b \in Auth : b # a => lamports'[b] = lamports[b]
  <2> DEFINE missing == MissingReserve(a)
  <2>1. lamports' = Credit(lamports, a, missing)
    BY DEF CreateLockIn
  <2>2. a \in Auth /\ missing \in Nat /\ lamports \in [Auth -> Nat]
    BY <1>1, <1>2
  <2>3. lamports[a] + missing >= Reserve
    BY <1>2
  <2> HIDE DEF missing, a
  <2>4. /\ lamports'[a] = lamports[a] + missing
        /\ \A b \in Auth : b # a => lamports'[b] = lamports[b]
    BY <2>1, <2>2, AuthCredit
  <2> QED
    BY <2>3, <2>4
<1>5. VaultAuthority(l)' = a
  <2>1. \E n \in Nat : lock' = [lock EXCEPT ![l] = NewLock(mode, amount, unlock, n)]
    <3>1. Enrollment(withPool, amount, unlock - now) \in Nat
      <4>1. amount \in Nat /\ unlock \in Int /\ now \in Int
        BY <1>1, ArgumentAssumption DEF TypeOK
      <4>2. unlock - now \in Int
        BY <4>1
      <4> QED
        BY <1>1, <4>1, <4>2, EnrollmentType
    <3> QED
      BY <3>1 DEF CreateLockIn
  <2>2. lock'[l].custodial = (mode = "holder")
    BY <1>1, <2>1 DEF NewLock
  <2> QED
    BY <2>2 DEF VaultAuthority, Modes
<1>6. \A m \in Locks : m # l => VaultAuthority(m)' = VaultAuthority(m)
  <2>1. \A m \in Locks : m # l => lock'[m] = lock[m]
    BY <1>1 DEF CreateLockIn
  <2> QED
    BY <2>1, AuthoritySame
<1>7. \A m \in Locks : m # l => VaultAuthority(m) \in Auth /\ VaultAuthority(m) # a
  BY <1>1, AuthorityType, OtherAuthority
<1>8. OthersKeepLamports({a}) /\ OthersKeepAuthority(l, {a})
  BY <1>4, <1>6, <1>7 DEF OthersKeepLamports, OthersKeepAuthority
<1> QED
  BY <1>1, <1>3, <1>4, <1>5, <1>8

LEMMA RentCreate ==
    ASSUME TypeInv, RentKept, NEW l \in Locks, NEW mode \in Modes, NEW amount \in Amounts,
           NEW unlock \in UnlockTimes, NEW withPool \in BOOLEAN,
           CreateLockIn(l, mode, amount, unlock, withPool)
    PROVE  RentKept'
<1>1. live \subseteq Locks
  BY DEF TypeInv, TypeOK
<1>2. /\ live' = live \cup {l} /\ VaultAuthority(l)' = <<l, mode>>
      /\ <<l, mode>> \in Auth /\ lamports'[<<l, mode>>] >= Reserve
      /\ OthersKeepLamports({<<l, mode>>}) /\ OthersKeepAuthority(l, {<<l, mode>>})
  BY CreateFunds
<1> QED
  BY <1>1, <1>2 DEF RentKept, OthersKeepLamports, OthersKeepAuthority

\* A claim leaves the reserve.
LEMMA ClaimFunds ==
    ASSUME TypeInv, NEW l \in Locks, NEW withPool \in BOOLEAN, ClaimSol(l, withPool)
    PROVE  /\ live' = live
           /\ lamports'[VaultAuthority(l)] = Reserve
           /\ lamports[VaultAuthority(l)] >= Reserve
           /\ VaultAuthority(l)' = VaultAuthority(l) /\ VaultAuthority(l) \in Auth
           /\ OthersKeepLamports({VaultAuthority(l)}) /\ OthersKeepAuthority(l, {})
<1> DEFINE a == VaultAuthority(l)
<1>1. TypeOK /\ a \in Auth /\ live \subseteq Locks /\ lamports \in [Auth -> Nat]
      /\ lock \in [Locks -> LockRecord]
  BY AuthorityType DEF TypeInv, TypeOK
<1>2. /\ ClaimableSol(a) \in Nat /\ ClaimableSol(a) <= lamports[a]
      /\ lamports[a] - ClaimableSol(a) = Reserve /\ Reserve \in Nat
  <2>1. ClaimableSol(a) > 0
    BY DEF ClaimSol
  <2> QED
    BY <1>1, <2>1, ReserveType
<1>3. lamports' = Debit(lamports, a, ClaimableSol(a))
  BY DEF ClaimSol
<1>4. lamports'[a] = Reserve /\ \A b \in Auth : b # a => lamports'[b] = lamports[b]
  BY <1>1, <1>2, <1>3, AuthDebit
<1>5. live' = live /\ \A m \in Locks : lock'[m].custodial = lock[m].custodial
  BY <1>1 DEF ClaimSol, LockRecord
<1>6. \A m \in Locks : VaultAuthority(m)' = VaultAuthority(m) /\ VaultAuthority(m) \in Auth
  BY <1>1, <1>5, AuthoritySame, AuthorityType
<1>7. lamports[a] >= Reserve
  BY <1>1, <1>2, ReserveType
<1>8. OthersKeepLamports({a}) /\ OthersKeepAuthority(l, {})
  BY <1>4, <1>6 DEF OthersKeepLamports, OthersKeepAuthority
<1> QED
  BY <1>1, <1>4, <1>5, <1>6, <1>7, <1>8

LEMMA RentClaim ==
    ASSUME TypeInv, RentKept, NEW l \in Locks, NEW withPool \in BOOLEAN,
           ClaimSol(l, withPool)
    PROVE  RentKept'
<1>1. live \subseteq Locks /\ Reserve \in Nat
  BY LimitAssumption DEF TypeInv, TypeOK
<1>2. /\ live' = live /\ lamports'[VaultAuthority(l)] = Reserve
      /\ VaultAuthority(l)' = VaultAuthority(l) /\ VaultAuthority(l) \in Auth
      /\ OthersKeepLamports({VaultAuthority(l)}) /\ OthersKeepAuthority(l, {})
  BY ClaimFunds
<1> QED
  BY <1>1, <1>2 DEF RentKept, OthersKeepLamports, OthersKeepAuthority

\* Closing a lock empties the authority it had.
LEMMA CloseFunds ==
    ASSUME TypeInv, NEW l \in Locks, CloseWithdrawn(l)
    PROVE  /\ live' = live \ {l}
           /\ VaultAuthority(l) \in Auth /\ lamports'[VaultAuthority(l)] = 0
           /\ OthersKeepLamports({VaultAuthority(l)})
           /\ OthersKeepAuthority(l, {VaultAuthority(l)})
<1> DEFINE a == VaultAuthority(l)
<1>1. TypeOK /\ a \in Auth /\ live \subseteq Locks /\ lock \in [Locks -> LockRecord]
  BY AuthorityType DEF TypeInv, TypeOK
<1>2. lamports'[a] = 0 /\ \A b \in Auth : b # a => lamports'[b] = lamports[b]
  BY <1>1, SweptType DEF CloseWithdrawn
<1>3. live' = live \ {l} /\ \A m \in Locks : m # l => lock'[m] = lock[m]
  BY <1>1 DEF CloseWithdrawn
<1>4. \A m \in Locks : m # l => /\ VaultAuthority(m)' = VaultAuthority(m)
                                /\ VaultAuthority(m) \in Auth /\ VaultAuthority(m) # a
  BY <1>1, <1>3, AuthoritySame, AuthorityType
<1> QED
  BY <1>1, <1>2, <1>3, <1>4 DEF OthersKeepLamports, OthersKeepAuthority

LEMMA RentClose ==
    ASSUME TypeInv, RentKept, NEW l \in Locks, CloseWithdrawn(l)
    PROVE  RentKept'
<1>1. live \subseteq Locks
  BY DEF TypeInv, TypeOK
<1>2. /\ live' = live \ {l} /\ lamports'[VaultAuthority(l)] = 0
      /\ OthersKeepLamports({VaultAuthority(l)})
      /\ OthersKeepAuthority(l, {VaultAuthority(l)})
  BY CloseFunds
<1> QED
  BY <1>1, <1>2 DEF RentKept, OthersKeepLamports, OthersKeepAuthority

\* A migration empties the old authority and brings the new one up to the reserve.
LEMMA MigrateFunds ==
    ASSUME TypeInv, NEW l \in Locks, MigrateLockToCustodial(l)
    PROVE  /\ l \in live /\ live' = live /\ VaultAuthority(l)' = <<l, "holder">>
           /\ lamports'[<<l, "pda">>] = 0 /\ lamports'[<<l, "holder">>] >= Reserve
           /\ OthersKeepLamports({<<l, "pda">>, <<l, "holder">>})
           /\ OthersKeepAuthority(l, {<<l, "pda">>, <<l, "holder">>})
<1> DEFINE old == <<l, "pda">>
           new == <<l, "holder">>
<1>1. TypeOK /\ old \in Auth /\ new \in Auth /\ old # new /\ live \subseteq Locks
      /\ lock \in [Locks -> LockRecord]
  BY AuthorityType DEF TypeInv, TypeOK, Modes
<1>2. MissingReserve(new) \in Nat /\ lamports[new] + MissingReserve(new) >= Reserve
  BY <1>1, ReserveType
<1>3. /\ AfterSweep(old) \in [Auth -> Nat] /\ AfterSweep(old)[old] = 0
      /\ \A b \in Auth : b # old => AfterSweep(old)[b] = lamports[b]
  BY <1>1, SweptType
<1>4. /\ lamports' = Credit(AfterSweep(old), new, MissingReserve(new))
      /\ live' = live /\ l \in live
  BY DEF MigrateLockToCustodial, Active
<1>5. /\ lamports'[old] = 0 /\ lamports'[new] >= Reserve
      /\ \A b \in Auth : b # old /\ b # new => lamports'[b] = lamports[b]
  <2> DEFINE swept == AfterSweep(old)
             missing == MissingReserve(new)
  <2>0. /\ new \in Auth /\ swept \in [Auth -> Nat] /\ missing \in Nat
        /\ lamports' = Credit(swept, new, missing)
    BY <1>1, <1>2, <1>3, <1>4
  <2> HIDE DEF swept, missing, new
  <2>1. /\ lamports'[new] = swept[new] + missing
        /\ \A b \in Auth : b # new => lamports'[b] = swept[b]
    BY <2>0, AuthCredit
  <2> USE DEF swept, missing, new
  <2>2. lamports'[new] >= Reserve
    BY <1>1, <1>2, <1>3, <2>1
  <2> QED
    BY <1>1, <1>3, <2>1, <2>2
<1>6. /\ lock'[l].custodial = TRUE
      /\ \A m \in Locks : m # l => lock'[m] = lock[m]
  BY <1>1 DEF MigrateLockToCustodial, Migrated, LockRecord
<1>7. VaultAuthority(l)' = new
  BY <1>6 DEF VaultAuthority
<1>8. \A m \in Locks : m # l =>
         /\ VaultAuthority(m)' = VaultAuthority(m) /\ VaultAuthority(m) \in Auth
         /\ VaultAuthority(m) # old /\ VaultAuthority(m) # new
  BY <1>1, <1>6, AuthoritySame, AuthorityType, OtherAuthority DEF Modes
<1>9. OthersKeepLamports({old, new}) /\ OthersKeepAuthority(l, {old, new})
  BY <1>5, <1>8 DEF OthersKeepLamports, OthersKeepAuthority
<1> QED
  BY <1>4, <1>5, <1>7, <1>9

LEMMA RentMigrate ==
    ASSUME TypeInv, RentKept, NEW l \in Locks, MigrateLockToCustodial(l)
    PROVE  RentKept'
<1>1. live \subseteq Locks
  BY DEF TypeInv, TypeOK
<1>2. /\ live' = live /\ VaultAuthority(l)' = <<l, "holder">>
      /\ lamports'[<<l, "pda">>] = 0 /\ lamports'[<<l, "holder">>] >= Reserve
      /\ OthersKeepLamports({<<l, "pda">>, <<l, "holder">>})
      /\ OthersKeepAuthority(l, {<<l, "pda">>, <<l, "holder">>})
  BY MigrateFunds
<1> QED
  BY <1>1, <1>2 DEF RentKept, OthersKeepLamports, OthersKeepAuthority

LEMMA RentLockStep ==
    ASSUME TypeInv, RentKept, NEW l \in Locks, LockStep(l)
    PROVE  RentKept'
<1>1. live \subseteq Locks /\ lock \in [Locks -> LockRecord]
  BY DEF TypeInv, TypeOK
<1>3. ASSUME NEW amount \in Amounts, NEW withPool \in BOOLEAN, TopUp(l, amount, withPool)
      PROVE  RentKept'
  BY <1>1, <1>3, RentFrame DEF TopUp, ToppedUp, LockRecord
<1>4. ASSUME NEW unlock \in UnlockTimes, ExtendLock(l, unlock) PROVE RentKept'
  BY <1>1, <1>4, RentFrame DEF ExtendLock, LockRecord
<1>5. ASSUME NEW withPool \in BOOLEAN, Release(l, withPool) PROVE RentKept'
  BY <1>1, <1>5, RentFrame DEF Release, LockRecord
<1>6. ASSUME NEW withPool \in BOOLEAN, ClaimTokens(l, withPool) PROVE RentKept'
  BY <1>1, <1>6, RentFrame DEF ClaimTokens, LockRecord
<1> QED
  BY <1>3, <1>4, <1>5, <1>6, LockStepCases, RentCreate, RentClaim, RentClose, RentMigrate

LEMMA RentWorldStep == ASSUME TypeInv, RentKept, WorldStep PROVE RentKept'
<1>1. TypeOK /\ live \subseteq Locks /\ lamports \in [Auth -> Nat]
  BY DEF TypeInv, TypeOK
<1>2. ASSUME NEW a \in Auth, NEW n \in RewardSizes, DistributeSol(a, n) PROVE RentKept'
  <2>1. n \in Nat /\ lamports[a] + n >= Reserve /\ Reserve \in Nat
    BY <1>2, ArgumentAssumption, LimitAssumption DEF DistributeSol
  <2>2. lamports'[a] >= Reserve /\ \A b \in Auth : b # a => lamports'[b] = lamports[b]
    BY <1>1, <1>2, <2>1, AuthCredit DEF DistributeSol
  <2>3. live' = live /\ lock' = lock
    BY <1>2 DEF DistributeSol
  <2>4. \A m \in Locks : VaultAuthority(m)' = VaultAuthority(m) /\ VaultAuthority(m) \in Auth
    BY <1>1, <2>3, AuthoritySame, AuthorityType
  <2> QED
    BY <1>1, <2>2, <2>3, <2>4 DEF RentKept
<1>3. WorldStep => \/ lamports' = lamports /\ live' = live /\ lock' = lock
                   \/ \E a \in Auth, n \in RewardSizes : DistributeSol(a, n)
  BY DEF WorldStep, Tick, DistributeTokens, DonateLockedMint, CollectWithheldTax
<1> QED
  BY <1>1, <1>2, <1>3, RentFrame

\* lib.rs, fund_reserve and the claims: every authority of a live lock stays rent
\* exempt and every other is rent exempt or empty, in whatever order locks are
\* created, claimed, migrated and closed.
THEOREM ReserveIsKept == Spec => []RentKept
<1>1. Init => RentKept
  BY LimitAssumption DEF Init, RentKept
<1>2. TypeInv /\ RentKept /\ [Next]_vars => RentKept'
  <2> SUFFICES ASSUME TypeInv, RentKept, [Next]_vars PROVE RentKept'
    OBVIOUS
  <2>1. live \subseteq Locks
    BY DEF TypeInv, TypeOK
  <2>2. CASE ConfigStep
    BY <2>1, <2>2, RentFrame, ConfigStepLeaves
  <2>3. CASE PoolStep
    BY <2>1, <2>3, RentFrame, PoolStepLeaves
  <2>4. CASE UNCHANGED vars
    BY <2>1, <2>4, RentFrame DEF vars
  <2> QED
    BY <2>2, <2>3, <2>4, RentLockStep, RentWorldStep DEF Next
<1>3. Spec => []TypeInv
  BY TypeInit, TypeStep, PTL DEF Spec
<1> QED
  BY <1>1, <1>2, <1>3, PTL DEF Spec

-----------------------------------------------------------------------------
\* The vaults

Backed(m) ==
    Active(m) => /\ VaultAuthority(m) \in vaults
                 /\ TaxBps = 0 => vault[VaultAuthority(m)] >= lock[m].amount

\* What a step has to leave alone to leave a lock backed: its record, and its two
\* vaults, which may only receive tokens.
LEMMA BackedFrame ==
    ASSUME TypeInv, TypeInv', NEW m \in Locks, Backed(m),
           m \in live' => m \in live,
           /\ lock'[m].custodial = lock[m].custodial
           /\ lock'[m].amount = lock[m].amount
           /\ lock'[m].withdrawn = lock[m].withdrawn,
           \A mode \in Modes : /\ <<m, mode>> \in vaults => <<m, mode>> \in vaults'
                               /\ vault'[<<m, mode>>] >= vault[<<m, mode>>]
    PROVE  Backed(m)'
<1>1. VaultAuthority(m)' = VaultAuthority(m)
  BY AuthoritySame
<1>2. PICK mode \in Modes : VaultAuthority(m) = <<m, mode>>
  BY DEF VaultAuthority, Modes
<1>3. /\ VaultAuthority(m) \in vaults => VaultAuthority(m) \in vaults'
      /\ vault'[VaultAuthority(m)] >= vault[VaultAuthority(m)]
  BY <1>2
<1>4. /\ vault[VaultAuthority(m)] \in Nat /\ vault'[VaultAuthority(m)] \in Nat
      /\ lock[m].amount \in Nat
  BY <1>1, AuthorityType DEF TypeInv, TypeOK, LockRecord
<1> QED
  BY <1>1, <1>3, <1>4 DEF Backed, Active

\* A transfer into the vault of one lock does not touch the vaults of another.
LEMMA DepositElsewhere ==
    ASSUME TypeInv, NEW a \in Auth, NEW n \in Nat, Deposit(a, n), NEW m \in Locks,
           NEW mode \in Modes
    PROVE  vault'[<<m, mode>>] >= vault[<<m, mode>>]
<1>1. TypeOK /\ <<m, mode>> \in Auth
  BY AuthorityType DEF TypeInv
<1>2. /\ vault'[a] = vault[a] + NetOfTax(n)
      /\ \A b \in Auth : b # a => vault'[b] = vault[b]
  BY <1>1, DepositType
<1>3. vault[a] \in Nat /\ vault[<<m, mode>>] \in Nat /\ NetOfTax(n) \in Nat
  BY <1>1, NetOfTaxType DEF TypeOK
<1> QED
  BY <1>1, <1>2, <1>3

LEMMA BackedCreate ==
    ASSUME TypeInv, TypeInv', \A m \in Locks : Backed(m),
           NEW l \in Locks, NEW mode \in Modes, NEW amount \in Amounts,
           NEW unlock \in UnlockTimes, NEW withPool \in BOOLEAN,
           CreateLockIn(l, mode, amount, unlock, withPool)
    PROVE  \A m \in Locks : Backed(m)'
<1> DEFINE a == <<l, mode>>
<1>1. TypeOK /\ a \in Auth /\ amount \in Nat /\ lock \in [Locks -> LockRecord]
  BY AuthorityType, ArgumentAssumption DEF TypeInv, TypeOK
<1>2. Deposit(a, amount) /\ vaults' = vaults \cup {a} /\ live' = live \cup {l}
  BY DEF CreateLockIn
<1>3. ASSUME NEW m \in Locks, m # l PROVE Backed(m)'
  <2>1. lock'[m] = lock[m]
    BY <1>1, <1>3 DEF CreateLockIn
  <2>2. \A md \in Modes : vault'[<<m, md>>] >= vault[<<m, md>>]
    BY <1>1, <1>2, DepositElsewhere
  <2> QED
    BY <1>2, <1>3, <2>1, <2>2, BackedFrame
<1>4. Backed(l)'
  <2> DEFINE n == Enrollment(withPool, amount, unlock - now)
             r == NewLock(mode, amount, unlock, n)
  <2>1. lock' = [lock EXCEPT ![l] = r]
    BY DEF CreateLockIn
  <2>2. lock'[l].amount = amount /\ lock'[l].custodial = (mode = "holder")
    BY <1>1, <2>1 DEF NewLock
  <2>3. VaultAuthority(l)' = a
    BY <2>2 DEF VaultAuthority, Modes
  <2>4. vault'[a] = vault[a] + NetOfTax(amount) /\ vault[a] \in Nat
    BY <1>1, <1>2, DepositType DEF TypeOK
  <2>5. TaxBps = 0 => NetOfTax(amount) = amount
    BY <1>1, NetOfTaxType
  <2>6. TaxBps = 0 => vault'[a] >= amount
    BY <1>1, <2>4, <2>5
  <2> QED
    BY <1>2, <2>2, <2>3, <2>6 DEF Backed
<1> QED
  BY <1>3, <1>4

LEMMA BackedTopUp ==
    ASSUME TypeInv, TypeInv', \A m \in Locks : Backed(m),
           NEW l \in Locks, NEW amount \in Amounts, NEW withPool \in BOOLEAN,
           TopUp(l, amount, withPool)
    PROVE  \A m \in Locks : Backed(m)'
<1> DEFINE a == VaultAuthority(l)
<1>1. TypeOK /\ a \in Auth /\ amount \in Nat /\ lock \in [Locks -> LockRecord]
  BY AuthorityType, ArgumentAssumption DEF TypeInv, TypeOK
<1>2. Deposit(a, amount) /\ vaults' = vaults /\ live' = live /\ Active(l) /\ a \in vaults
  BY DEF TopUp
<1>3. ASSUME NEW m \in Locks, m # l PROVE Backed(m)'
  <2>1. lock'[m] = lock[m]
    BY <1>1, <1>3 DEF TopUp
  <2>2. \A md \in Modes : vault'[<<m, md>>] >= vault[<<m, md>>]
    BY <1>1, <1>2, DepositElsewhere
  <2> QED
    BY <1>2, <2>1, <2>2, BackedFrame
<1>4. Backed(l)'
  <2>1. /\ lock'[l].amount = lock[l].amount + amount /\ lock[l].amount \in Nat
        /\ lock'[l].custodial = lock[l].custodial
    BY <1>1 DEF TopUp, ToppedUp, LockRecord
  <2>2. VaultAuthority(l)' = a
    BY <2>1, AuthoritySame
  <2>3. vault'[a] = vault[a] + NetOfTax(amount) /\ vault[a] \in Nat
    BY <1>1, <1>2, DepositType DEF TypeOK
  <2>4. TaxBps = 0 => NetOfTax(amount) = amount /\ vault[a] >= lock[l].amount
    BY <1>1, <1>2, NetOfTaxType DEF Backed
  <2>5. TaxBps = 0 => vault'[a] >= lock'[l].amount
    BY <1>1, <2>1, <2>3, <2>4
  <2> QED
    BY <1>2, <2>2, <2>5 DEF Backed
<1> QED
  BY <1>3, <1>4

LEMMA BackedRelease ==
    ASSUME TypeInv, TypeInv', \A m \in Locks : Backed(m),
           NEW l \in Locks, NEW withPool \in BOOLEAN, Release(l, withPool)
    PROVE  \A m \in Locks : Backed(m)'
<1> DEFINE a == VaultAuthority(l)
<1>1. TypeOK /\ a \in Auth /\ lock \in [Locks -> LockRecord] /\ vault \in [Auth -> Nat]
  BY AuthorityType DEF TypeInv, TypeOK
<1>2. /\ vault' = [vault EXCEPT ![a] = 0] /\ vaults' = vaults \ {a} /\ live' = live
      /\ lock'[l].withdrawn = TRUE
  BY <1>1 DEF Release, LockRecord
<1>3. ASSUME NEW m \in Locks, m # l PROVE Backed(m)'
  <2>1. lock'[m] = lock[m]
    BY <1>1, <1>3 DEF Release
  <2>2. ASSUME NEW md \in Modes
        PROVE  /\ <<m, md>> \in vaults => <<m, md>> \in vaults'
               /\ vault'[<<m, md>>] >= vault[<<m, md>>]
    <3>1. <<m, md>> \in Auth /\ <<m, md>> # a /\ vault[<<m, md>>] \in Nat
      BY <1>1, <1>3, AuthorityType DEF VaultAuthority
    <3> QED
      BY <1>1, <1>2, <3>1
  <2> QED
    BY <1>2, <2>1, <2>2, BackedFrame
<1>4. Backed(l)'
  BY <1>2 DEF Backed, Active
<1> QED
  BY <1>3, <1>4

LEMMA BackedMigrate ==
    ASSUME TypeInv, TypeInv', \A m \in Locks : Backed(m),
           NEW l \in Locks, MigrateLockToCustodial(l)
    PROVE  \A m \in Locks : Backed(m)'
<1> DEFINE old == <<l, "pda">>
           new == <<l, "holder">>
           v0  == [vault EXCEPT ![old] = 0]
<1>1. /\ TypeOK /\ old \in Auth /\ new \in Auth /\ old # new
      /\ lock \in [Locks -> LockRecord] /\ vault \in [Auth -> Nat]
  BY AuthorityType DEF TypeInv, TypeOK, Modes
<1>2. /\ vault' = Credit(v0, new, NetOfTax(vault[old]))
      /\ vaults' = (vaults \ {old}) \cup {new} /\ live' = live
  BY DEF MigrateLockToCustodial
<1>3. v0 \in [Auth -> Nat] /\ NetOfTax(vault[old]) \in Nat /\ vault[new] \in Nat
      /\ v0[new] = vault[new] /\ \A b \in Auth : b # old => v0[b] = vault[b]
  BY <1>1, NetOfTaxType
<1> HIDE DEF v0
<1>4. /\ vault'[new] = v0[new] + NetOfTax(vault[old])
      /\ \A b \in Auth : b # new => vault'[b] = v0[b]
  <2> DEFINE n == NetOfTax(vault[old])
  <2>1. n \in Nat /\ new \in Auth /\ v0 \in [Auth -> Nat] /\ vault' = Credit(v0, new, n)
    BY <1>1, <1>2, <1>3
  <2> HIDE DEF n, new
  <2>2. /\ Credit(v0, new, n)[new] = v0[new] + n
        /\ \A b \in Auth : b # new => Credit(v0, new, n)[b] = v0[b]
    BY <2>1, AuthCredit
  <2> QED
    BY <2>1, <2>2 DEF n
<1>5. ASSUME NEW m \in Locks, m # l PROVE Backed(m)'
  <2>1. lock'[m] = lock[m]
    BY <1>1, <1>5 DEF MigrateLockToCustodial
  <2>2. ASSUME NEW md \in Modes
        PROVE  /\ <<m, md>> \in vaults => <<m, md>> \in vaults'
               /\ vault'[<<m, md>>] >= vault[<<m, md>>]
    <3>1. /\ <<m, md>> \in Auth /\ <<m, md>> # old /\ <<m, md>> # new
          /\ vault[<<m, md>>] \in Nat
      BY <1>1, <1>5, AuthorityType
    <3> QED
      BY <1>2, <1>3, <1>4, <3>1
  <2> QED
    BY <1>2, <2>1, <2>2, BackedFrame
<1>6. Backed(l)'
  <2>1. lock'[l].custodial = TRUE /\ lock'[l].amount = vault[old]
    BY <1>1 DEF MigrateLockToCustodial, Migrated, LockRecord
  <2>2. VaultAuthority(l)' = new
    BY <2>1 DEF VaultAuthority
  <2>3. TaxBps = 0 => NetOfTax(vault[old]) = vault[old]
    BY <1>1, NetOfTaxType
  <2>4. TaxBps = 0 => vault'[new] >= lock'[l].amount
    BY <1>1, <1>3, <1>4, <2>1, <2>3
  <2> QED
    BY <1>2, <2>2, <2>4 DEF Backed
<1> QED
  BY <1>5, <1>6

\* Every other step leaves what the vaults hold, or adds to it.
LEMMA BackedQuiet ==
    ASSUME TypeInv, TypeInv', \A m \in Locks : Backed(m),
           live' \subseteq live, vaults \subseteq vaults',
           \A m \in live' : /\ lock'[m].custodial = lock[m].custodial
                            /\ lock'[m].amount = lock[m].amount
                            /\ lock'[m].withdrawn = lock[m].withdrawn,
           \A m \in Locks, mode \in Modes : vault'[<<m, mode>>] >= vault[<<m, mode>>]
    PROVE  \A m \in Locks : Backed(m)'
<1> SUFFICES ASSUME NEW m \in Locks PROVE Backed(m)'
  OBVIOUS
<1>1. CASE m \in live'
  BY <1>1, BackedFrame
<1>2. CASE m \notin live'
  BY <1>2 DEF Backed, Active
<1> QED
  BY <1>1, <1>2

LEMMA BackedStep ==
    ASSUME TypeInv, TypeInv', \A m \in Locks : Backed(m), [Next]_vars
    PROVE  \A m \in Locks : Backed(m)'
<1>1. /\ live \subseteq Locks /\ lock \in [Locks -> LockRecord]
  BY DEF TypeInv, TypeOK
<1>2. \A m \in Locks, mode \in Modes : vault[<<m, mode>>] >= vault[<<m, mode>>]
  <2> SUFFICES ASSUME NEW m \in Locks, NEW mode \in Modes
               PROVE  vault[<<m, mode>>] >= vault[<<m, mode>>]
    OBVIOUS
  <2>1. vault[<<m, mode>>] \in Nat
    BY AuthorityType DEF TypeInv, TypeOK
  <2> QED
    BY <2>1
<1>3. ASSUME NEW l \in Locks, LockStep(l) PROVE \A m \in Locks : Backed(m)'
  <2>1. ASSUME NEW unlock \in UnlockTimes, ExtendLock(l, unlock)
        PROVE  \A m \in Locks : Backed(m)'
    BY <1>1, <1>2, <2>1, BackedQuiet DEF ExtendLock, escrowVars, LockRecord
  <2>2. ASSUME NEW withPool \in BOOLEAN, ClaimSol(l, withPool)
        PROVE  \A m \in Locks : Backed(m)'
    BY <1>1, <1>2, <2>2, BackedQuiet DEF ClaimSol, escrowVars, LockRecord
  <2>3. ASSUME NEW withPool \in BOOLEAN, ClaimTokens(l, withPool)
        PROVE  \A m \in Locks : Backed(m)'
    BY <1>1, <1>2, <2>3, BackedQuiet DEF ClaimTokens, escrowVars, LockRecord
  <2>4. ASSUME CloseWithdrawn(l) PROVE \A m \in Locks : Backed(m)'
    <3>1. \A m \in live' : lock'[m] = lock[m]
      BY <1>1, <2>4 DEF CloseWithdrawn
    <3> QED
      BY <1>2, <2>4, <3>1, BackedQuiet DEF CloseWithdrawn, escrowVars
  <2> QED
    BY <1>3, <2>1, <2>2, <2>3, <2>4, LockStepCases, BackedCreate, BackedTopUp,
       BackedRelease, BackedMigrate
<1>4. ASSUME NEW a \in Auth, NEW n \in DonationSizes, DonateLockedMint(a, n)
      PROVE  \A m \in Locks : Backed(m)'
  <2>1. n \in Nat
    BY ArgumentAssumption
  <2>2. \A m \in Locks, mode \in Modes : vault'[<<m, mode>>] >= vault[<<m, mode>>]
    BY <1>4, <2>1, DepositElsewhere DEF DonateLockedMint
  <2> QED
    BY <1>4, <2>2, BackedQuiet DEF DonateLockedMint
<1>5. CASE UNCHANGED <<live, lock, vaults, vault>>
  BY <1>2, <1>5, BackedQuiet
<1>6. ConfigStep => UNCHANGED <<live, lock, vaults, vault>>
  BY ConfigStepLeaves
<1>7. PoolStep => UNCHANGED <<live, lock, vaults, vault>>
  BY PoolStepLeaves
<1>8. WorldStep => \/ UNCHANGED <<live, lock, vaults, vault>>
                   \/ \E a \in Auth, n \in DonationSizes : DonateLockedMint(a, n)
  BY DEF WorldStep, Tick, DistributeSol, DistributeTokens, CollectWithheldTax, escrowVars
<1>9. UNCHANGED vars => UNCHANGED <<live, lock, vaults, vault>>
  BY DEF vars, escrowVars
<1> QED
  BY <1>3, <1>4, <1>5, <1>6, <1>7, <1>8, <1>9 DEF Next

\* Of a mint without transfer tax, every lock that was not withdrawn has its whole
\* amount in an open vault: top-ups, migrations, withdrawals of other locks and
\* donations of strangers included.
THEOREM VaultsBackLocks == Spec => []VaultBacksAmount
<1>1. Init => \A m \in Locks : Backed(m)
  BY DEF Init, Backed, Active
<1>2. Spec => []TypeInv
  BY TypeInit, TypeStep, PTL DEF Spec
<1>3. TypeInv /\ TypeInv' /\ (\A m \in Locks : Backed(m)) /\ [Next]_vars
         => (\A m \in Locks : Backed(m))'
  BY BackedStep
<1>4. (\A m \in Locks : Backed(m)) => VaultBacksAmount
  BY DEF Backed, VaultBacksAmount
<1> QED
  BY <1>1, <1>2, <1>3, <1>4, PTL DEF Spec

-----------------------------------------------------------------------------
\* The boost pool

LEMMA SolventClaim ==
    ASSUME TypeInv, PoolSolvent, NEW l \in Locks, NEW withPool \in BOOLEAN,
           ClaimSol(l, withPool)
    PROVE  PoolSolvent'
<1> DEFINE a == VaultAuthority(l)
           payout == RewardPayout(ClaimableSol(a))
           bonus == IF withPool THEN SolBonus(l, payout) ELSE 0
           free == SaturatingSub(poolLamports, PoolReserve)
<1>1. /\ TypeOK /\ a \in Auth /\ poolLamports \in Nat /\ PoolReserve \in Nat
      /\ pool \in PoolRecord
  BY AuthorityType, LimitAssumption DEF TypeInv, TypeOK
<1>2. payout \in Nat
  <2>1. ClaimableSol(a) \in Nat
    BY <1>1, ReserveType
  <2> QED
    BY <2>1, RewardSplit
<1>3. SolBonus(l, payout) \in Nat /\ SolBonus(l, payout) <= free
  BY <1>2, BonusType
<1>4. free \in Nat /\ (poolLamports >= PoolReserve => free = poolLamports - PoolReserve)
  BY <1>1, SaturatingSubBounds
<1>5. /\ poolLamports' = poolLamports - bonus
      /\ pool' = [pool EXCEPT !.total_bonus_paid = @ + bonus]
  BY DEF ClaimSol
<1>6. bonus \in Nat /\ bonus <= free
  BY <1>3, <1>4
<1> HIDE DEF bonus, free
<1>7. pool'.exists = pool.exists
  BY <1>1, <1>5 DEF PoolRecord
<1> QED
  BY <1>1, <1>4, <1>5, <1>6, <1>7 DEF PoolSolvent

LEMMA SolventStep == TypeInv /\ PoolSolvent /\ [Next]_vars => PoolSolvent'
<1> SUFFICES ASSUME TypeInv, PoolSolvent, [Next]_vars PROVE PoolSolvent'
  OBVIOUS
<1>1. poolLamports \in Nat /\ PoolReserve \in Nat /\ pool \in PoolRecord
  BY LimitAssumption DEF TypeInv, TypeOK
<1>2. CASE PoolStep
  <2>1. ASSUME NEW pays_sol \in PoolKinds, NEW capacity \in Capacities,
               NEW duration \in MinDurations, NEW bps \in BonusRates,
               CreateBoostPool(pays_sol, capacity, duration, bps)
        PROVE  PoolSolvent'
    BY <1>1, <2>1 DEF CreateBoostPool, PoolSolvent
  <2>2. ASSUME NEW authority \in Admins, NEW capacity \in Capacities,
               NEW duration \in MinDurations, NEW bps \in BonusRates,
               NEW active \in ActiveArgs,
               UpdateBoostPool(authority, capacity, duration, bps, active)
        PROVE  PoolSolvent'
    BY <1>1, <2>2 DEF UpdateBoostPool, PoolSolvent
  <2>3. ASSUME NEW funder \in Admins, NEW n \in FundSizes, FundBoostPool(funder, n)
        PROVE  PoolSolvent'
    BY <1>1, <2>3, ArgumentAssumption DEF FundBoostPool, PoolSolvent
  <2>4. ASSUME NEW n \in FundSizes, WithdrawBoostPool(n) PROVE PoolSolvent'
    <3>1. n \in Nat /\ n <= SaturatingSub(poolLamports, PoolReserve)
      BY <2>4, ArgumentAssumption DEF WithdrawBoostPool, PoolSolAvailable
    <3>2. poolLamports >= PoolReserve
             => SaturatingSub(poolLamports, PoolReserve) = poolLamports - PoolReserve
      BY <1>1, SaturatingSubBounds
    <3> QED
      BY <1>1, <2>4, <3>1, <3>2 DEF WithdrawBoostPool, PoolSolvent
  <2>5. ASSUME NEW funder \in Admins, NEW n \in FundSizes,
               FundPoolTokens(funder, n) \/ WithdrawBoostPoolTokens(n)
        PROVE  PoolSolvent'
    BY <2>5 DEF FundPoolTokens, WithdrawBoostPoolTokens, PoolSolvent
  <2>6. Admins # {}
    BY AddressAssumption
  <2> QED
    BY <1>2, <2>1, <2>2, <2>3, <2>4, <2>5, <2>6 DEF PoolStep
<1>3. ASSUME pool'.exists = pool.exists, poolLamports' = poolLamports
      PROVE  PoolSolvent'
  BY <1>3 DEF PoolSolvent
<1>4. ASSUME NEW l \in Locks, LockStep(l) PROVE PoolSolvent'
  <2>1. ASSUME NEW mode \in Modes, NEW amount \in Amounts, NEW unlock \in UnlockTimes,
               NEW withPool \in BOOLEAN, CreateLockIn(l, mode, amount, unlock, withPool)
        PROVE  PoolSolvent'
    BY <1>1, <1>3, <2>1 DEF CreateLockIn, PoolRecord
  <2>2. ASSUME NEW amount \in Amounts, NEW withPool \in BOOLEAN, TopUp(l, amount, withPool)
        PROVE  PoolSolvent'
    BY <1>1, <1>3, <2>2 DEF TopUp, PoolRecord
  <2>3. ASSUME NEW withPool \in BOOLEAN, Release(l, withPool) \/ ClaimTokens(l, withPool)
        PROVE  PoolSolvent'
    BY <1>1, <1>3, <2>3 DEF Release, ReleaseCapacity, ClaimTokens, PoolRecord
  <2>4. ASSUME NEW unlock \in UnlockTimes, ExtendLock(l, unlock) PROVE PoolSolvent'
    BY <1>3, <2>4 DEF ExtendLock, poolVars
  <2>5. ASSUME CloseWithdrawn(l) \/ MigrateLockToCustodial(l) PROVE PoolSolvent'
    BY <1>3, <2>5 DEF CloseWithdrawn, MigrateLockToCustodial, poolVars
  <2> QED
    BY <1>4, <2>1, <2>2, <2>3, <2>4, <2>5, LockStepCases, SolventClaim
<1>5. CASE ConfigStep \/ WorldStep \/ UNCHANGED vars
  <2>1. pool' = pool /\ poolLamports' = poolLamports
    BY <1>5, ConfigStepLeaves, WorldStepLeaves DEF vars, poolVars
  <2> QED
    BY <1>3, <2>1
<1> QED
  BY <1>2, <1>4, <1>5 DEF Next

\* The bonuses of claims and the withdrawals of the pool authority, in any order and
\* with the pool's terms changed in between, leave the pool its rent reserve.
THEOREM PoolStaysSolvent == Spec => []PoolSolvent
<1>1. Init => PoolSolvent
  BY DEF Init, PoolSolvent
<1>2. Spec => []TypeInv
  BY TypeInit, TypeStep, PTL DEF Spec
<1> QED
  BY <1>1, <1>2, SolventStep, PTL DEF Spec

\* Only create_lock and top_up enroll, and each of them what enroll_boost allows.
LEMMA EnrolledBy ==
    ASSUME TypeInv, NEW withPool \in BOOLEAN, NEW amount \in Amounts, NEW until \in Int,
           pool' = [pool EXCEPT !.enrolled = @ + Enrollment(withPool, amount, until - now)]
    PROVE  pool'.enrolled > pool.enrolled => pool'.enrolled <= pool'.capacity
<1> DEFINE n == Enrollment(withPool, amount, until - now)
<1>1. /\ pool \in PoolRecord /\ amount \in Nat /\ until - now \in Int
  BY ArgumentAssumption DEF TypeInv, TypeOK
<1>2. pool.capacity \in Nat /\ pool.enrolled \in Nat
  BY <1>1 DEF PoolRecord
<1>3. n \in Nat /\ (n > 0 => pool.enrolled + n <= pool.capacity)
  BY <1>1, <1>2, EnrollBounds DEF Enrollment
<1> HIDE DEF n
<1>4. pool'.enrolled = pool.enrolled + n /\ pool'.capacity = pool.capacity
  BY <1>1 DEF n, PoolRecord
<1> QED
  BY <1>2, <1>3, <1>4

LEMMA EnrolledStep ==
    ASSUME TypeInv, [Next]_vars
    PROVE  pool'.enrolled > pool.enrolled => pool'.enrolled <= pool'.capacity
<1> DEFINE Within == pool'.enrolled > pool.enrolled => pool'.enrolled <= pool'.capacity
<1>1. /\ pool \in PoolRecord /\ pool.enrolled \in Nat /\ now \in Int
      /\ lock \in [Locks -> LockRecord]
  BY DEF TypeInv, TypeOK, PoolRecord
<1>2. ASSUME pool'.enrolled \in Nat, pool'.enrolled <= pool.enrolled PROVE Within
  BY <1>1, <1>2
<1>3. ASSUME NEW l \in Locks, LockStep(l) PROVE Within
  <2>1. ASSUME NEW mode \in Modes, NEW amount \in Amounts, NEW unlock \in UnlockTimes,
               NEW withPool \in BOOLEAN, CreateLockIn(l, mode, amount, unlock, withPool)
        PROVE  Within
    <3>1. unlock \in Int
      BY ArgumentAssumption
    <3> QED
      BY <2>1, <3>1, EnrolledBy DEF CreateLockIn
  <2>2. ASSUME NEW amount \in Amounts, NEW withPool \in BOOLEAN, TopUp(l, amount, withPool)
        PROVE  Within
    <3>1. lock[l].unlock_ts \in Int
      BY <1>1 DEF LockRecord
    <3> QED
      BY <2>2, <3>1, EnrolledBy DEF TopUp
  <2>3. ASSUME NEW withPool \in BOOLEAN, Release(l, withPool) PROVE Within
    <3>1. lock[l].boosted_amount \in Nat
      BY <1>1 DEF LockRecord
    <3>2. /\ SaturatingSub(pool.enrolled, lock[l].boosted_amount) \in Nat
          /\ SaturatingSub(pool.enrolled, lock[l].boosted_amount) <= pool.enrolled
      BY <1>1, <3>1, SaturatingSubBounds
    <3> QED
      BY <1>1, <1>2, <2>3, <3>2 DEF Release, ReleaseCapacity, PoolRecord
  <2>4. ASSUME NEW withPool \in BOOLEAN, ClaimSol(l, withPool) \/ ClaimTokens(l, withPool)
        PROVE  Within
    BY <1>1, <1>2, <2>4 DEF ClaimSol, ClaimTokens, PoolRecord
  <2>5. ASSUME pool' = pool PROVE Within
    BY <1>1, <1>2, <2>5
  <2> QED
    BY <1>3, <2>1, <2>2, <2>3, <2>4, <2>5, LockStepCases
    DEF ExtendLock, CloseWithdrawn, MigrateLockToCustodial, poolVars
<1>4. CASE PoolStep
  <2>1. ASSUME NEW pays_sol \in PoolKinds, NEW capacity \in Capacities,
               NEW duration \in MinDurations, NEW bps \in BonusRates,
               CreateBoostPool(pays_sol, capacity, duration, bps)
        PROVE  pool'.enrolled = 0
    BY <2>1 DEF CreateBoostPool
  <2>2. ASSUME NEW authority \in Admins, NEW capacity \in Capacities,
               NEW duration \in MinDurations, NEW bps \in BonusRates,
               NEW active \in ActiveArgs,
               UpdateBoostPool(authority, capacity, duration, bps, active)
        PROVE  pool'.enrolled = pool.enrolled
    BY <1>1, <2>2 DEF UpdateBoostPool, PoolRecord
  <2>3. ASSUME NEW funder \in Admins, NEW n \in FundSizes,
               \/ FundBoostPool(funder, n) \/ FundPoolTokens(funder, n)
               \/ WithdrawBoostPool(n) \/ WithdrawBoostPoolTokens(n)
        PROVE  pool' = pool
    BY <2>3 DEF FundBoostPool, FundPoolTokens, WithdrawBoostPool, WithdrawBoostPoolTokens
  <2>4. pool'.enrolled = 0 \/ pool'.enrolled = pool.enrolled
    BY <1>4, <2>1, <2>2, <2>3, AddressAssumption DEF PoolStep
  <2> QED
    BY <1>1, <1>2, <2>4
<1>5. CASE ConfigStep \/ WorldStep \/ UNCHANGED vars
  <2>1. pool' = pool
    BY <1>5, ConfigStepLeaves, WorldStepLeaves DEF vars, poolVars
  <2> QED
    BY <1>1, <1>2, <2>1
<1> QED
  BY <1>3, <1>4, <1>5 DEF Next

\* enroll_boost: no enrollment takes the pool above the capacity it has at that
\* moment, whatever the authority did to the capacity before.
THEOREM EnrollmentIsBounded == Spec => NeverOverEnrolled
<1>1. Spec => []TypeInv
  BY TypeInit, TypeStep, PTL DEF Spec
<1>2. TypeInv /\ [Next]_vars
         => [pool'.enrolled > pool.enrolled => pool'.enrolled <= pool'.capacity]_vars
  BY EnrolledStep
<1> QED
  BY <1>1, <1>2, PTL DEF Spec, NeverOverEnrolled

-----------------------------------------------------------------------------
\* The fees on SOL rewards

\* What a split adds to the two counters is within the cap.
LEMMA SplitShare ==
    ASSUME TypeInv, NEW gross \in Nat
    PROVE  RewardFee(gross) * BPS_DENOMINATOR
               <= MAX_REWARD_FEE_BPS * (RewardFee(gross) + RewardPayout(gross))
<1>1. /\ config.reward_fee_bps \in Nat /\ config.reward_fee_bps <= MAX_REWARD_FEE_BPS
      /\ MAX_REWARD_FEE_BPS \in Nat
  BY LimitAssumption DEF TypeInv, TypeOK, FeeRateCapped, ConfigRecord
<1>2. RewardFee(gross) * BPS_DENOMINATOR <= MAX_REWARD_FEE_BPS * gross
  BY <1>1, FeeShare DEF RewardFee
<1>3. RewardFee(gross) + RewardPayout(gross) = gross
  BY RewardSplit
<1> QED
  BY <1>2, <1>3

LEMMA SharesAdd ==
    ASSUME NEW f \in Nat, NEW p \in Nat, NEW g \in Nat, NEW q \in Nat,
           NEW d \in Nat, NEW m \in Nat, f * d <= m * (f + p), g * d <= m * (g + q)
    PROVE  (f + g) * d <= m * ((f + g) + (p + q))
<1>1. (f + g) * d = f * d + g * d
  BY SMT
<1>2. m * ((f + g) + (p + q)) = m * (f + p) + m * (g + q)
  BY SMT
<1>3. f * d \in Nat /\ g * d \in Nat /\ m * (f + p) \in Nat /\ m * (g + q) \in Nat
  BY SMT
<1> QED
  BY <1>1, <1>2, <1>3

LEMMA ShareCounted ==
    ASSUME TypeInv, FeeShareCapped, NEW gross \in Nat,
           config' = [config EXCEPT !.total_reward_fees = @ + RewardFee(gross),
                                    !.total_rewards_paid = @ + RewardPayout(gross)]
    PROVE  FeeShareCapped'
<1> DEFINE f == config.total_reward_fees
           p == config.total_rewards_paid
           g == RewardFee(gross)
           q == RewardPayout(gross)
<1>1. config \in ConfigRecord /\ f \in Nat /\ p \in Nat
  BY DEF TypeInv, TypeOK, ConfigRecord
<1>2. g \in Nat /\ q \in Nat
  BY RewardSplit
<1>3. BPS_DENOMINATOR \in Nat /\ MAX_REWARD_FEE_BPS \in Nat
  BY MathAssumption, LimitAssumption
<1>4. config'.total_reward_fees = f + g /\ config'.total_rewards_paid = p + q
  BY <1>1 DEF ConfigRecord
<1>5. f * BPS_DENOMINATOR <= MAX_REWARD_FEE_BPS * (f + p)
  BY DEF FeeShareCapped
<1>6. g * BPS_DENOMINATOR <= MAX_REWARD_FEE_BPS * (g + q)
  BY SplitShare
<1> HIDE DEF f, p, g, q
<1>7. (f + g) * BPS_DENOMINATOR <= MAX_REWARD_FEE_BPS * ((f + g) + (p + q))
  BY <1>1, <1>2, <1>3, <1>5, <1>6, SharesAdd
<1> QED
  BY <1>4, <1>7 DEF FeeShareCapped

LEMMA ShareStep == TypeInv /\ FeeShareCapped /\ [Next]_vars => FeeShareCapped'
<1> SUFFICES ASSUME TypeInv, FeeShareCapped, [Next]_vars PROVE FeeShareCapped'
  OBVIOUS
<1>1. TypeOK /\ config \in ConfigRecord
  BY DEF TypeInv, TypeOK
<1>2. ASSUME config'.total_reward_fees = config.total_reward_fees,
             config'.total_rewards_paid = config.total_rewards_paid
      PROVE  FeeShareCapped'
  BY <1>2 DEF FeeShareCapped
<1>3. ASSUME NEW l \in Locks, LockStep(l) PROVE FeeShareCapped'
  <2>1. ASSUME NEW withPool \in BOOLEAN, ClaimSol(l, withPool) PROVE FeeShareCapped'
    <3>1. ClaimableSol(VaultAuthority(l)) \in Nat
      BY <1>1, AuthorityType, ReserveType
    <3> QED
      BY <2>1, <3>1, ShareCounted DEF ClaimSol
  <2>2. ASSUME MigrateLockToCustodial(l) PROVE FeeShareCapped'
    <3>1. <<l, "pda">> \in Auth
      BY <1>1, AuthorityType DEF Modes
    <3>2. ClaimableSol(<<l, "pda">>) \in Nat
      BY <1>1, <3>1, ReserveType
    <3> QED
      BY <2>2, <3>2, ShareCounted DEF MigrateLockToCustodial, SweepFee
  <2>3. ASSUME NEW mode \in Modes, NEW amount \in Amounts, NEW unlock \in UnlockTimes,
               NEW withPool \in BOOLEAN, CreateLockIn(l, mode, amount, unlock, withPool)
        PROVE  FeeShareCapped'
    BY <1>1, <1>2, <2>3 DEF CreateLockIn, ConfigRecord
  <2>4. ASSUME config' = config PROVE FeeShareCapped'
    BY <1>2, <2>4
  <2> QED
    BY <1>3, <2>1, <2>2, <2>3, <2>4, LockStepCases
    DEF TopUp, ExtendLock, Release, ClaimTokens, CloseWithdrawn
<1>4. CASE ConfigStep
  <2>1. ASSUME NEW admin \in Admins, NEW treasury \in Treasuries, NEW fee \in LockFees,
               NEW bps \in FeeRates, Initialize(admin, treasury, fee, bps)
        PROVE  FeeShareCapped'
    BY <1>1, <1>2, <2>1 DEF Initialize, ConfigRecord
  <2>2. ASSUME NEW admin \in Admins, NEW treasury \in Treasuries, NEW fee \in LockFees,
               NEW bps \in FeeRates, NEW paused \in PauseArgs,
               UpdateConfig(admin, treasury, fee, bps, paused)
        PROVE  FeeShareCapped'
    BY <1>1, <1>2, <2>2 DEF UpdateConfig, ConfigRecord
  <2>3. ASSUME NEW key \in CustodyKeys, SetCustodyAuthority(key) PROVE FeeShareCapped'
    BY <1>2, <2>3 DEF SetCustodyAuthority
  <2> QED
    BY <1>4, <2>1, <2>2, <2>3 DEF ConfigStep
<1>5. CASE PoolStep \/ WorldStep \/ UNCHANGED vars
  <2>1. config' = config
    BY <1>5, PoolStepLeaves, WorldStepLeaves DEF vars
  <2> QED
    BY <1>2, <2>1
<1> QED
  BY <1>3, <1>4, <1>5 DEF Next

\* split_fee and update_config: of all SOL rewards paid so far, claims and
\* migrations together, at most MAX_REWARD_FEE_BPS went to the treasuries, however
\* often the rate was changed.
THEOREM FeeShareIsCapped == Spec => []FeeShareCapped
<1>1. Init => FeeShareCapped
  BY MathAssumption, LimitAssumption DEF Init, FeeShareCapped
<1>2. Spec => []TypeInv
  BY TypeInit, TypeStep, PTL DEF Spec
<1> QED
  BY <1>1, <1>2, ShareStep, PTL DEF Spec

-----------------------------------------------------------------------------
\* The lamports of abandoned authorities

\* Every authority with lamports on it is the one that a live lock has.
Attended(a) == lamports[a] > 0 => a[1] \in live /\ a = VaultAuthority(a[1])

AllAttended == \A a \in Auth : Attended(a)

LEMMA AuthorityParts ==
    ASSUME NEW b \in Auth
    PROVE  /\ b[1] \in Locks
           /\ b = <<b[1], "pda">> \/ b = <<b[1], "holder">>
  BY DEF Auth, Modes

\* Lamports stay, and with them the lock that has them.
LEMMA AttendedFrame ==
    ASSUME NEW b \in Auth, Attended(b), lamports'[b] = lamports[b],
           b[1] \in live => b[1] \in live', VaultAuthority(b[1])' = VaultAuthority(b[1])
    PROVE  Attended(b)'
  BY DEF Attended

\* What a step leaves of other locks: their authorities, with what lies on them.
LEMMA AttendedOthers ==
    ASSUME NEW b \in Auth, Attended(b), NEW l, NEW S, b[1] # l, b \notin S,
           OthersKeepLamports(S), OthersKeepAuthority(l, S) \/ OthersKeepAuthority(l, {}),
           live' \cup {l} = live \cup {l}
    PROVE  Attended(b)'
<1>1. b[1] \in Locks \ {l} /\ lamports'[b] = lamports[b]
  BY AuthorityParts DEF OthersKeepLamports
<1>2. VaultAuthority(b[1])' = VaultAuthority(b[1])
  BY <1>1 DEF OthersKeepAuthority
<1>3. b[1] \in live => b[1] \in live'
  OBVIOUS
<1> QED
  BY <1>1, <1>2, <1>3, AttendedFrame

LEMMA AttendedCreate ==
    ASSUME TypeInv, AllAttended, NEW l \in Locks, NEW mode \in Modes,
           NEW amount \in Amounts, NEW unlock \in UnlockTimes, NEW withPool \in BOOLEAN,
           CreateLockIn(l, mode, amount, unlock, withPool)
    PROVE  AllAttended'
<1> DEFINE a == <<l, mode>>
<1>1. /\ l \notin live /\ live' = live \cup {l} /\ VaultAuthority(l)' = a
      /\ a \in Auth /\ lamports'[a] >= Reserve
      /\ OthersKeepLamports({a}) /\ OthersKeepAuthority(l, {a})
  BY CreateFunds
<1>2. a[1] = l
  OBVIOUS
<1> HIDE DEF a
<1> SUFFICES ASSUME NEW b \in Auth PROVE Attended(b)'
  BY DEF AllAttended
<1>3. CASE b = a
  BY <1>1, <1>2, <1>3 DEF Attended
<1>4. CASE b # a /\ b[1] = l
  <2>1. lamports'[b] = lamports[b]
    BY <1>1, <1>4 DEF OthersKeepLamports
  <2> QED
    BY <1>1, <1>4, <2>1 DEF AllAttended, Attended
<1>5. CASE b[1] # l
  <2>1. live' \cup {l} = live \cup {l} /\ b \notin {a} /\ Attended(b)
    BY <1>1, <1>2, <1>5 DEF AllAttended
  <2> QED
    BY <1>1, <1>5, <2>1, AttendedOthers
<1> QED
  BY <1>3, <1>4, <1>5

LEMMA AttendedClaim ==
    ASSUME TypeInv, AllAttended, NEW l \in Locks, NEW withPool \in BOOLEAN,
           ClaimSol(l, withPool)
    PROVE  AllAttended'
<1> DEFINE a == VaultAuthority(l)
<1>1. /\ live' = live /\ a \in Auth /\ VaultAuthority(l)' = a /\ lamports[a] >= Reserve
      /\ OthersKeepLamports({a}) /\ OthersKeepAuthority(l, {})
  BY ClaimFunds
<1>2. Reserve \in Nat \ {0} /\ lamports[a] \in Nat
  BY <1>1, LimitAssumption DEF TypeInv, TypeOK
<1>3. a[1] \in live /\ a[1] = l
  <2>1. a[1] = l
    BY DEF VaultAuthority
  <2> HIDE DEF a
  <2> QED
    BY <1>1, <1>2, <2>1 DEF AllAttended, Attended
<1> HIDE DEF a
<1> SUFFICES ASSUME NEW b \in Auth PROVE Attended(b)'
  BY DEF AllAttended
<1>4. CASE b = a
  BY <1>1, <1>3, <1>4 DEF Attended
<1>5. CASE b # a /\ b[1] = l
  <2>1. lamports'[b] = lamports[b]
    BY <1>1, <1>5 DEF OthersKeepLamports
  <2> QED
    BY <1>1, <1>5, <2>1, AttendedFrame DEF a, AllAttended
<1>6. CASE b[1] # l
  <2>1. live' \cup {l} = live \cup {l} /\ b \notin {a} /\ Attended(b)
    BY <1>1, <1>3, <1>6 DEF AllAttended
  <2> QED
    BY <1>1, <1>6, <2>1, AttendedOthers
<1> QED
  BY <1>4, <1>5, <1>6

LEMMA AttendedClose ==
    ASSUME TypeInv, AllAttended, NEW l \in Locks, CloseWithdrawn(l)
    PROVE  AllAttended'
<1> DEFINE a == VaultAuthority(l)
<1>1. /\ live' = live \ {l} /\ lamports'[a] = 0
      /\ OthersKeepLamports({a}) /\ OthersKeepAuthority(l, {a})
  BY CloseFunds
<1>2. a[1] = l
  BY DEF VaultAuthority
<1> SUFFICES ASSUME NEW b \in Auth PROVE Attended(b)'
  BY DEF AllAttended
<1>3. CASE b = a
  <2> HIDE DEF a
  <2> QED
    BY <1>1, <1>3 DEF Attended
<1>4. CASE b # a /\ b[1] = l
  <2>1. lamports'[b] = lamports[b]
    BY <1>1, <1>4 DEF OthersKeepLamports
  <2> QED
    BY <1>4, <2>1 DEF AllAttended, Attended
<1>5. CASE b[1] # l
  <2> HIDE DEF a
  <2>1. live' \cup {l} = live \cup {l} /\ b \notin {a} /\ Attended(b)
    <3>1. live' \cup {l} = live \cup {l}
      BY <1>1
    <3> QED
      BY <1>2, <1>5, <3>1 DEF AllAttended
  <2> QED
    BY <1>1, <1>5, <2>1, AttendedOthers
<1> QED
  BY <1>3, <1>4, <1>5

LEMMA AttendedMigrate ==
    ASSUME TypeInv, AllAttended, NEW l \in Locks, MigrateLockToCustodial(l)
    PROVE  AllAttended'
<1> DEFINE old == <<l, "pda">>
           new == <<l, "holder">>
<1>1. /\ l \in live /\ live' = live /\ VaultAuthority(l)' = new /\ lamports'[old] = 0
      /\ OthersKeepLamports({old, new}) /\ OthersKeepAuthority(l, {old, new})
  BY MigrateFunds
<1>2. old[1] = l /\ new[1] = l
  OBVIOUS
<1> SUFFICES ASSUME NEW b \in Auth PROVE Attended(b)'
  BY DEF AllAttended
<1>3. b = old \/ b = new \/ b[1] # l
  BY AuthorityParts
<1> HIDE DEF old, new
<1>4. CASE b = old
  BY <1>1, <1>4 DEF Attended
<1>5. CASE b = new
  BY <1>1, <1>2, <1>5 DEF Attended
<1>6. CASE b[1] # l
  <2>1. live' \cup {l} = live \cup {l} /\ b \notin {old, new} /\ Attended(b)
    BY <1>1, <1>2, <1>6 DEF AllAttended
  <2> QED
    BY <1>1, <1>6, <2>1, AttendedOthers
<1> QED
  BY <1>3, <1>4, <1>5, <1>6

LEMMA AttendedLockStep ==
    ASSUME TypeInv, AllAttended, NEW l \in Locks, LockStep(l)
    PROVE  AllAttended'
<1>1. lock \in [Locks -> LockRecord]
  BY DEF TypeInv, TypeOK
<1>4. ASSUME lamports' = lamports, live' = live,
             \A m \in Locks : lock'[m].custodial = lock[m].custodial
      PROVE  AllAttended'
  BY <1>4, AuthoritySame, AuthorityParts, AttendedFrame DEF AllAttended
<1>5. ASSUME NEW amount \in Amounts, NEW withPool \in BOOLEAN, TopUp(l, amount, withPool)
      PROVE  AllAttended'
  BY <1>1, <1>4, <1>5 DEF TopUp, ToppedUp, LockRecord
<1>6. ASSUME NEW unlock \in UnlockTimes, ExtendLock(l, unlock)
      PROVE  AllAttended'
  BY <1>1, <1>4, <1>6 DEF ExtendLock, LockRecord
<1>7. ASSUME NEW withPool \in BOOLEAN, Release(l, withPool) \/ ClaimTokens(l, withPool)
      PROVE  AllAttended'
  BY <1>1, <1>4, <1>7 DEF Release, ClaimTokens, LockRecord
<1> QED
  BY <1>5, <1>6, <1>7, LockStepCases, AttendedCreate, AttendedClaim, AttendedClose,
     AttendedMigrate

LEMMA AttendedStep ==
    ASSUME ~LateArrivals, TypeInv, AllAttended, [Next]_vars
    PROVE  AllAttended'
<1>1. ASSUME UNCHANGED <<lamports, live, lock>> PROVE AllAttended'
  BY <1>1 DEF AllAttended, Attended, VaultAuthority
<1>2. ASSUME NEW a \in Auth, NEW n \in RewardSizes, DistributeSol(a, n)
      PROVE  AllAttended'
  <2>1. a[1] \in live /\ a = VaultAuthority(a[1]) /\ live' = live /\ lock' = lock
    BY <1>2 DEF DistributeSol, Reachable
  <2>2. \A b \in Auth : b # a => lamports'[b] = lamports[b]
    <3>1. n \in Nat /\ lamports \in [Auth -> Nat]
      BY ArgumentAssumption DEF TypeInv, TypeOK
    <3> QED
      BY <1>2, <3>1, AuthCredit DEF DistributeSol
  <2>3. \A m \in Locks : VaultAuthority(m)' = VaultAuthority(m)
    BY <2>1, AuthoritySame
  <2> QED
    BY <2>1, <2>2, <2>3, AuthorityParts DEF AllAttended, Attended
<1>3. WorldStep => \/ UNCHANGED <<lamports, live, lock>>
                   \/ \E a \in Auth, n \in RewardSizes : DistributeSol(a, n)
  BY DEF WorldStep, Tick, DistributeTokens, DonateLockedMint, CollectWithheldTax
<1>4. ConfigStep \/ PoolStep \/ UNCHANGED vars => UNCHANGED <<lamports, live, lock>>
  BY ConfigStepLeaves, PoolStepLeaves DEF vars
<1> QED
  BY <1>1, <1>2, <1>3, <1>4, AttendedLockStep DEF Next

\* close_lock and migrate_lock_to_custodial sweep the authority they leave, claims
\* leave its reserve on the one of a live lock, and a closed address can be used in
\* the other mode: as long as payments reach the authority of a lock, all lamports
\* stay with one.
THEOREM NoSolStaysBehind == Spec => []NoSolLeftBehind
<1>1. CASE LateArrivals
  BY <1>1, PTL DEF NoSolLeftBehind
<1>2. CASE ~LateArrivals
  <2>1. Init => AllAttended
    BY DEF Init, AllAttended, Attended
  <2>2. TypeInv /\ AllAttended /\ [Next]_vars => AllAttended'
    BY <1>2, AttendedStep
  <2>3. AllAttended => NoSolLeftBehind
    BY DEF AllAttended, Attended, NoSolLeftBehind
  <2>4. Spec => []TypeInv
    BY TypeInit, TypeStep, PTL DEF Spec
  <2> QED
    BY <2>1, <2>2, <2>3, <2>4, PTL DEF Spec
<1> QED
  BY <1>1, <1>2

-----------------------------------------------------------------------------
\* The share of a lock that earns a bonus

Within(m) == TaxBps = 0 => lock[m].boosted_amount <= lock[m].amount

AllWithin == \A m \in Locks : Within(m)

AllBacked == \A m \in Locks : Backed(m)

\* A step on the lock l leaves the records of the others.
LEMMA OthersKeepRecord ==
    ASSUME TypeOK, NEW l \in Locks, LockStep(l), NEW m \in Locks, m # l
    PROVE  lock'[m] = lock[m]
<1> DEFINE KeepsOthers == \E r : lock' = [lock EXCEPT ![l] = r]
<1>1. ASSUME KeepsOthers PROVE lock'[m] = lock[m]
  BY <1>1 DEF TypeOK
<1>2. ASSUME NEW mode \in Modes, NEW amount \in Amounts, NEW unlock \in UnlockTimes,
             NEW withPool \in BOOLEAN, CreateLockIn(l, mode, amount, unlock, withPool)
      PROVE  KeepsOthers
  BY <1>2 DEF CreateLockIn
<1>3. ASSUME NEW amount \in Amounts, NEW withPool \in BOOLEAN, TopUp(l, amount, withPool)
      PROVE  KeepsOthers
  BY <1>3 DEF TopUp
<1>4. ASSUME NEW unlock \in UnlockTimes, ExtendLock(l, unlock) PROVE lock'[m] = lock[m]
  BY <1>4 DEF ExtendLock, TypeOK
<1>5. ASSUME NEW withPool \in BOOLEAN, Release(l, withPool) PROVE lock'[m] = lock[m]
  BY <1>5 DEF Release, TypeOK
<1>6. ASSUME NEW withPool \in BOOLEAN, ClaimSol(l, withPool) \/ ClaimTokens(l, withPool)
      PROVE  lock'[m] = lock[m]
  BY <1>6 DEF ClaimSol, ClaimTokens, TypeOK
<1>7. CASE CloseWithdrawn(l) \/ MigrateLockToCustodial(l)
  BY <1>7 DEF CloseWithdrawn, MigrateLockToCustodial, TypeOK
<1> HIDE DEF KeepsOthers
<1> QED
  BY <1>1, <1>2, <1>3, <1>4, <1>5, <1>6, <1>7, LockStepCases

LEMMA LockFields ==
    ASSUME TypeOK, NEW l \in Locks
    PROVE  /\ lock \in [Locks -> LockRecord] /\ lock[l] \in LockRecord
           /\ lock[l].amount \in Nat /\ lock[l].boosted_amount \in Nat
           /\ lock[l].bonus_bps \in Nat /\ lock[l].bonus_paid \in Nat
           /\ lock[l].sol_rewards_claimed \in Nat /\ lock[l].unlock_ts \in Int
           /\ now \in Int
  BY DEF TypeOK, LockRecord

LEMMA WithinLockStep ==
    ASSUME TypeInv, AllBacked, AllWithin, NEW l \in Locks, LockStep(l)
    PROVE  Within(l)'
<1>1. /\ TypeOK /\ lock \in [Locks -> LockRecord] /\ lock[l] \in LockRecord /\ Within(l)
      /\ lock[l].amount \in Nat /\ lock[l].boosted_amount \in Nat
      /\ lock[l].unlock_ts - now \in Int
  BY LockFields DEF TypeInv, AllWithin
<1>2. ASSUME NEW mode \in Modes, NEW amount \in Amounts, NEW unlock \in UnlockTimes,
             NEW withPool \in BOOLEAN, CreateLockIn(l, mode, amount, unlock, withPool)
      PROVE  Within(l)'
  <2> DEFINE n == Enrollment(withPool, amount, unlock - now)
  <2>1. amount \in Nat /\ unlock - now \in Int
    BY <1>1, ArgumentAssumption DEF TypeOK
  <2>2. n <= amount
    BY <1>1, <2>1, EnrollmentType
  <2>3. lock'[l].boosted_amount = n /\ lock'[l].amount = amount
    BY <1>1, <1>2 DEF CreateLockIn, NewLock
  <2> QED
    BY <2>2, <2>3 DEF Within
<1>3. ASSUME NEW amount \in Amounts, NEW withPool \in BOOLEAN, TopUp(l, amount, withPool)
      PROVE  Within(l)'
  <2> DEFINE n == Enrollment(withPool, amount, lock[l].unlock_ts - now)
  <2>1. amount \in Nat
    BY ArgumentAssumption
  <2>2. n \in Nat /\ n <= amount
    BY <1>1, <2>1, EnrollmentType
  <2>3. lock' = [lock EXCEPT ![l] = ToppedUp(@, amount, n)]
    BY <1>3 DEF TopUp
  <2> HIDE DEF n
  <2>4. /\ lock'[l].boosted_amount = lock[l].boosted_amount + n
        /\ lock'[l].amount = lock[l].amount + amount
    BY <1>1, <2>3 DEF ToppedUp, LockRecord
  <2> QED
    BY <1>1, <2>1, <2>2, <2>4 DEF Within
<1>4. ASSUME NEW unlock \in UnlockTimes, ExtendLock(l, unlock) PROVE Within(l)'
  BY <1>1, <1>4 DEF ExtendLock, LockRecord, Within
<1>5. ASSUME NEW withPool \in BOOLEAN, Release(l, withPool) PROVE Within(l)'
  BY <1>1, <1>5 DEF Release, LockRecord, Within
<1>6. ASSUME NEW withPool \in BOOLEAN, ClaimSol(l, withPool) \/ ClaimTokens(l, withPool)
      PROVE  Within(l)'
  BY <1>1, <1>6 DEF ClaimSol, ClaimTokens, LockRecord, Within
<1>7. CASE CloseWithdrawn(l)
  BY <1>1, <1>7 DEF CloseWithdrawn, NullLock, Within
<1>8. CASE MigrateLockToCustodial(l)
  <2> DEFINE old == <<l, "pda">>
  <2>1. Active(l) /\ VaultAuthority(l) = old /\ vault[old] \in Nat
    BY <1>1, <1>8, AuthorityType DEF MigrateLockToCustodial, VaultAuthority, TypeOK, Modes
  <2>2. TaxBps = 0 => vault[old] >= lock[l].amount
    BY <2>1 DEF AllBacked, Backed
  <2>3. /\ lock'[l].amount = vault[old]
        /\ lock'[l].boosted_amount = lock[l].boosted_amount
    BY <1>1, <1>8 DEF MigrateLockToCustodial, Migrated, LockRecord
  <2> HIDE DEF old
  <2> QED
    BY <1>1, <2>1, <2>2, <2>3 DEF Within
<1> QED
  BY <1>2, <1>3, <1>4, <1>5, <1>6, <1>7, <1>8, LockStepCases

LEMMA WithinStep ==
    ASSUME TypeInv, AllBacked, AllWithin, [Next]_vars
    PROVE  AllWithin'
<1> SUFFICES ASSUME NEW m \in Locks PROVE Within(m)'
  BY DEF AllWithin
<1>1. TypeOK /\ Within(m)
  BY DEF TypeInv, AllWithin
<1>2. ASSUME NEW l \in Locks, LockStep(l) PROVE Within(m)'
  <2>1. CASE m = l
    BY <1>2, <2>1, WithinLockStep
  <2>2. CASE m # l
    BY <1>1, <1>2, <2>2, OthersKeepRecord DEF Within
  <2> QED
    BY <2>1, <2>2
<1>3. CASE ConfigStep \/ PoolStep \/ WorldStep \/ UNCHANGED vars
  BY <1>1, <1>3, ConfigStepLeaves, PoolStepLeaves, WorldStepLeaves DEF vars, Within
<1> QED
  BY <1>2, <1>3 DEF Next

LEMMA BackedAlways == Spec => []AllBacked
<1>1. Init => AllBacked
  BY DEF Init, AllBacked, Backed, Active
<1>2. Spec => []TypeInv
  BY TypeInit, TypeStep, PTL DEF Spec
<1>3. TypeInv /\ TypeInv' /\ AllBacked /\ [Next]_vars => AllBacked'
  BY BackedStep DEF AllBacked
<1> QED
  BY <1>1, <1>2, <1>3, PTL DEF Spec

LEMMA WithinAlways == Spec => []AllWithin
<1>1. Init => AllWithin
  BY DEF Init, AllWithin, Within, NullLock
<1>2. Spec => []TypeInv
  BY TypeInit, TypeStep, PTL DEF Spec
<1>3. TypeInv /\ AllBacked /\ AllWithin /\ [Next]_vars => AllWithin'
  BY WithinStep
<1> QED
  BY <1>1, <1>2, <1>3, BackedAlways, PTL DEF Spec

\* enroll_boost, withdraw and migrate_lock_to_custodial, for a mint without transfer
\* tax: no lock has more tokens enrolled than it locks, a migration included, which
\* sets the amount anew.
THEOREM BoostStaysWithinAmount == Spec => []BoostedWithinAmount
<1>1. TypeInv /\ AllWithin => BoostedWithinAmount
  BY DEF AllWithin, Within, BoostedWithinAmount, TypeInv, TypeOK
<1>2. Spec => []TypeInv
  BY TypeInit, TypeStep, PTL DEF Spec
<1> QED
  BY <1>1, <1>2, WithinAlways, PTL

-----------------------------------------------------------------------------
\* The bonus of a step

\* What a step pays out as rewards in the pool's currency.
Earned(l) ==
    IF pool.pays_sol
    THEN lock'[l].sol_rewards_claimed - lock[l].sol_rewards_claimed
    ELSE RewardPayout(reward[VaultAuthority(l)])

BonusInRate(l) ==
    (lock'[l].bonus_paid - lock[l].bonus_paid) * BPS_DENOMINATOR
        <= lock[l].bonus_bps * Earned(l)

LEMMA TokenPayout ==
    ASSUME TypeInv, NEW l \in Locks
    PROVE  RewardPayout(reward[VaultAuthority(l)]) \in Nat
<1>1. reward[VaultAuthority(l)] \in Nat
  BY AuthorityType DEF TypeInv, TypeOK
<1> QED
  BY <1>1, RewardSplit

\* Without a bonus the bound is a natural number.
LEMMA NoBonus ==
    ASSUME TypeInv, NEW l \in Locks, lock'[l].bonus_paid = lock[l].bonus_paid,
           \/ lock'[l].sol_rewards_claimed = lock[l].sol_rewards_claimed
           \/ \E n \in Nat : lock'[l].sol_rewards_claimed = lock[l].sol_rewards_claimed + n
    PROVE  BonusInRate(l)
<1>1. /\ lock[l].bonus_bps \in Nat /\ lock[l].bonus_paid \in Nat
      /\ lock[l].sol_rewards_claimed \in Nat
  BY LockFields DEF TypeInv
<1>2. Earned(l) \in Nat
  BY <1>1, TokenPayout DEF Earned
<1>3. lock[l].bonus_bps * Earned(l) \in Nat
  BY <1>1, <1>2
<1>4. (lock'[l].bonus_paid - lock[l].bonus_paid) * BPS_DENOMINATOR = 0
  BY <1>1, MathAssumption
<1> QED
  BY <1>3, <1>4 DEF BonusInRate

\* bonus_for, with what a pool's funds leave of it.
LEMMA BonusPaidInRate ==
    ASSUME TypeInv, TaxBps = 0, AllWithin, NEW l \in Locks, NEW payout \in Nat,
           NEW bonus \in Nat, bonus <= BonusFor(lock[l], payout)
    PROVE  bonus * BPS_DENOMINATOR <= lock[l].bonus_bps * payout
<1>1. /\ lock[l].amount \in Nat /\ lock[l].boosted_amount \in Nat
      /\ lock[l].bonus_bps \in Nat /\ lock[l].boosted_amount <= lock[l].amount
  BY LockFields DEF TypeInv, AllWithin, Within
<1> DEFINE full == BonusFor(lock[l], payout)
<1>2. full \in Nat
  BY <1>1, BonusNat
<1>3. full * BPS_DENOMINATOR <= lock[l].bonus_bps * payout
  BY <1>1, BonusAtMostRate
<1>4. bonus <= full
  OBVIOUS
<1> HIDE DEF full
<1>5. /\ bonus * BPS_DENOMINATOR <= full * BPS_DENOMINATOR
      /\ bonus * BPS_DENOMINATOR \in Nat /\ full * BPS_DENOMINATOR \in Nat
      /\ lock[l].bonus_bps * payout \in Nat
  BY <1>1, <1>2, <1>4, MathAssumption, MulMono
<1> QED
  BY <1>3, <1>5

LEMMA ClaimInRate ==
    ASSUME TypeInv, TaxBps = 0, AllWithin, NEW l \in Locks, NEW withPool \in BOOLEAN,
           ClaimSol(l, withPool) \/ ClaimTokens(l, withPool)
    PROVE  BonusInRate(l)
<1>1. /\ TypeOK /\ lock \in [Locks -> LockRecord] /\ lock[l] \in LockRecord
      /\ lock[l].amount \in Nat /\ lock[l].boosted_amount \in Nat
      /\ lock[l].bonus_bps \in Nat /\ lock[l].bonus_paid \in Nat
      /\ lock[l].sol_rewards_claimed \in Nat
  BY LockFields DEF TypeInv
<1>2. ASSUME NEW payout \in Nat
      PROVE  BonusFor(lock[l], payout) \in Nat
  BY <1>1, BonusNat
<1>3. CASE ClaimSol(l, withPool)
  <2> DEFINE gross  == ClaimableSol(VaultAuthority(l))
             payout == RewardPayout(gross)
             bonus  == IF withPool THEN SolBonus(l, payout) ELSE 0
  <2>1. gross \in Nat
    BY <1>1, AuthorityType, ReserveType
  <2>2. payout \in Nat
    BY <2>1, RewardSplit
  <2>3. lock' = [lock EXCEPT ![l].sol_rewards_claimed = @ + payout,
                             ![l].bonus_paid = @ + bonus]
    BY <1>3 DEF ClaimSol
  <2>4. bonus \in Nat
    BY <2>2, BonusType
  <2>5. pool.pays_sol => bonus <= BonusFor(lock[l], payout)
    <3>1. bonus = 0 \/ bonus = SolBonus(l, payout)
      OBVIOUS
    <3> HIDE DEF bonus, payout
    <3> QED
      BY <1>2, <2>2, <2>4, <3>1 DEF SolBonus, MinOf
  <2>6. ~pool.pays_sol => bonus = 0
    BY DEF SolBonus
  <2> HIDE DEF bonus, payout
  <2>7. /\ lock'[l].bonus_paid = lock[l].bonus_paid + bonus
        /\ lock'[l].sol_rewards_claimed = lock[l].sol_rewards_claimed + payout
    BY <1>1, <2>2, <2>3, <2>4 DEF LockRecord
  <2>8. CASE pool.pays_sol
    <3>1. Earned(l) = payout
      BY <1>1, <2>2, <2>7, <2>8 DEF Earned
    <3>2. lock'[l].bonus_paid - lock[l].bonus_paid = bonus
      BY <1>1, <2>4, <2>7
    <3>3. bonus * BPS_DENOMINATOR <= lock[l].bonus_bps * payout
      BY <2>2, <2>4, <2>5, <2>8, BonusPaidInRate
    <3> QED
      BY <3>1, <3>2, <3>3 DEF BonusInRate
  <2>9. CASE ~pool.pays_sol
    <3>1. lock'[l].bonus_paid = lock[l].bonus_paid
      BY <1>1, <2>6, <2>7, <2>9
    <3> QED
      BY <2>2, <2>7, <3>1, NoBonus
  <2> QED
    BY <2>8, <2>9
<1>4. CASE ClaimTokens(l, withPool)
  <2> DEFINE payout == RewardPayout(reward[VaultAuthority(l)])
             bonus  == IF withPool THEN TokenBonus(l, payout) ELSE 0
  <2>1. payout \in Nat
    BY TokenPayout
  <2>2. lock' = [lock EXCEPT ![l].bonus_paid = @ + bonus]
    BY <1>4 DEF ClaimTokens
  <2>3. bonus \in Nat
    BY <2>1, BonusType
  <2>4. ~pool.pays_sol => bonus <= BonusFor(lock[l], payout)
    <3>1. bonus = 0 \/ bonus = TokenBonus(l, payout)
      OBVIOUS
    <3> HIDE DEF bonus, payout
    <3>2. poolTokens \in Nat
      BY <1>1 DEF TypeOK
    <3> QED
      BY <1>2, <2>1, <2>3, <3>1, <3>2 DEF TokenBonus, MinOf
  <2>5. pool.pays_sol => bonus = 0
    BY DEF TokenBonus, PaysTokens
  <2>6. ~pool.pays_sol => Earned(l) = payout
    BY DEF Earned
  <2> HIDE DEF bonus, payout
  <2>7. /\ lock'[l].bonus_paid = lock[l].bonus_paid + bonus
        /\ lock'[l].sol_rewards_claimed = lock[l].sol_rewards_claimed
    BY <1>1, <2>2, <2>3 DEF LockRecord
  <2>8. CASE ~pool.pays_sol
    <3>1. lock'[l].bonus_paid - lock[l].bonus_paid = bonus
      BY <1>1, <2>3, <2>7
    <3>2. bonus * BPS_DENOMINATOR <= lock[l].bonus_bps * payout
      BY <2>1, <2>3, <2>4, <2>8, BonusPaidInRate
    <3> QED
      BY <2>6, <2>8, <3>1, <3>2 DEF BonusInRate
  <2>9. CASE pool.pays_sol
    <3>1. lock'[l].bonus_paid = lock[l].bonus_paid
      BY <1>1, <2>5, <2>7, <2>9
    <3> QED
      BY <2>7, <3>1, NoBonus
  <2> QED
    BY <2>8, <2>9
<1> QED
  BY <1>3, <1>4

LEMMA RateLockStep ==
    ASSUME TypeInv, TaxBps = 0, AllWithin, NEW l \in Locks, LockStep(l),
           l \in live, l \in live'
    PROVE  BonusInRate(l)
<1>1. /\ TypeOK /\ lock \in [Locks -> LockRecord] /\ lock[l] \in LockRecord
  BY LockFields DEF TypeInv
<1>2. ASSUME NEW mode \in Modes, NEW amount \in Amounts, NEW unlock \in UnlockTimes,
             NEW withPool \in BOOLEAN, CreateLockIn(l, mode, amount, unlock, withPool)
      PROVE  FALSE
  BY <1>2 DEF CreateLockIn
<1>3. ASSUME NEW amount \in Amounts, NEW withPool \in BOOLEAN, TopUp(l, amount, withPool)
      PROVE  BonusInRate(l)
  BY <1>1, <1>3, NoBonus DEF TopUp, ToppedUp, LockRecord
<1>4. ASSUME NEW unlock \in UnlockTimes, ExtendLock(l, unlock) PROVE BonusInRate(l)
  BY <1>1, <1>4, NoBonus DEF ExtendLock, LockRecord
<1>5. ASSUME NEW withPool \in BOOLEAN, Release(l, withPool) PROVE BonusInRate(l)
  BY <1>1, <1>5, NoBonus DEF Release, LockRecord
<1>6. CASE CloseWithdrawn(l)
  BY <1>6 DEF CloseWithdrawn
<1>7. CASE MigrateLockToCustodial(l)
  <2> DEFINE old    == <<l, "pda">>
             payout == RewardPayout(ClaimableSol(old))
  <2>1. old \in Auth
    BY <1>1, AuthorityType DEF Modes
  <2>2. payout \in Nat
    BY <1>1, <2>1, ReserveType, RewardSplit
  <2>3. lock' = [lock EXCEPT ![l] = Migrated(@, vault[old], payout)]
    BY <1>7 DEF MigrateLockToCustodial
  <2> HIDE DEF payout, old
  <2>4. /\ lock'[l].bonus_paid = lock[l].bonus_paid
        /\ lock'[l].sol_rewards_claimed = lock[l].sol_rewards_claimed + payout
    BY <1>1, <2>3 DEF Migrated, LockRecord
  <2> QED
    BY <2>2, <2>4, NoBonus
<1> QED
  BY <1>2, <1>3, <1>4, <1>5, <1>6, <1>7, LockStepCases, ClaimInRate

LEMMA RateStep ==
    ASSUME TypeInv, TaxBps = 0, AllWithin, [Next]_vars, NEW m \in live, m \in live'
    PROVE  BonusInRate(m)
<1>1. TypeOK /\ m \in Locks
  BY DEF TypeInv, TypeOK
<1>2. ASSUME NEW l \in Locks, LockStep(l) PROVE BonusInRate(m)
  <2>1. CASE m = l
    BY <1>2, <2>1, RateLockStep
  <2>2. CASE m # l
    <3>1. lock'[m] = lock[m]
      BY <1>1, <1>2, <2>2, OthersKeepRecord
    <3> QED
      BY <1>1, <3>1, NoBonus
  <2> QED
    BY <2>1, <2>2
<1>3. CASE ConfigStep \/ PoolStep \/ WorldStep \/ UNCHANGED vars
  <2>1. lock' = lock
    BY <1>3, ConfigStepLeaves, PoolStepLeaves, WorldStepLeaves DEF vars
  <2> QED
    BY <1>1, <2>1, NoBonus
<1> QED
  BY <1>2, <1>3 DEF Next

\* bonus_for: a claim never pays a bonus above the lock's rate, neither by its
\* rounding and truncation nor by what was enrolled, topped up or migrated before.
THEOREM BonusNeverAboveRate == Spec => BonusWithinRate
<1> DEFINE InRate == TaxBps = 0 => \A l \in live \cap live' : BonusInRate(l)
<1>1. TypeInv /\ AllWithin /\ [Next]_vars => InRate
  BY RateStep
<1>2. InRate => (TaxBps = 0 => \A l \in live \cap live' :
          (lock'[l].bonus_paid - lock[l].bonus_paid) * BPS_DENOMINATOR
             <= lock[l].bonus_bps
                  * (IF pool.pays_sol
                     THEN lock'[l].sol_rewards_claimed - lock[l].sol_rewards_claimed
                     ELSE RewardPayout(reward[VaultAuthority(l)])))
  BY DEF BonusInRate, Earned
<1> HIDE DEF InRate
<1>3. Spec => []TypeInv
  BY TypeInit, TypeStep, PTL DEF Spec
<1> QED
  BY <1>1, <1>2, <1>3, WithinAlways, PTL DEF Spec, BonusWithinRate
=============================================================================
