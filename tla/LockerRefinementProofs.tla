----------------------- MODULE LockerRefinementProofs -----------------------
(***************************************************************************)
(* HolderLocker implements TimeLock, BonusPool and Ledger: the initial     *)
(* states map to their initial states, and every step to one of their      *)
(* actions or to a stutter.  The mappings are those of LockerProperties.   *)
(* For TimeLock the type invariant is enough; the books of the pool need   *)
(* that the enrolled tokens cover the boosted ones (BoostInv), the pool's  *)
(* reserve, and that nothing is left of a lock or a pool that does not     *)
(* exist (CleanSlate); the ledger needs that there is a config before      *)
(* there is a lock (ConfigFirst).                                          *)
(***************************************************************************)
EXTENDS LockerAccountingProofs

\* What TimeLock sees of a lock stays as it is.
SameView(m) ==
    /\ PhaseOf'[m] = PhaseOf[m]
    /\ UnlockOf'[m] = UnlockOf[m]
    /\ KeeperOf'[m] = KeeperOf[m]
    /\ EscrowOf'[m] = EscrowOf[m]

LEMMA ViewOf ==
    ASSUME NEW m \in Locks
    PROVE  /\ PhaseOf[m] = IF m \notin live THEN "free"
                           ELSE IF lock[m].withdrawn THEN "released" ELSE "locked"
           /\ UnlockOf[m] = lock[m].unlock_ts
           /\ KeeperOf[m] = IF lock[m].custodial THEN "service" ELSE "program"
           /\ EscrowOf[m] = Escrowed(m)
<1>1. PhaseOf[m] = IF m \notin live THEN "free"
                   ELSE IF lock[m].withdrawn THEN "released" ELSE "locked"
  BY DEF PhaseOf
<1>2. UnlockOf[m] = lock[m].unlock_ts
  BY DEF UnlockOf
<1>3. KeeperOf[m] = IF lock[m].custodial THEN "service" ELSE "program"
  BY DEF KeeperOf
<1>4. EscrowOf[m] = Escrowed(m)
  BY DEF EscrowOf
<1> QED
  BY <1>1, <1>2, <1>3, <1>4

LEMMA ViewOfNext ==
    ASSUME NEW m \in Locks
    PROVE  /\ PhaseOf'[m] = IF m \notin live' THEN "free"
                           ELSE IF lock'[m].withdrawn THEN "released" ELSE "locked"
           /\ UnlockOf'[m] = lock'[m].unlock_ts
           /\ KeeperOf'[m] = IF lock'[m].custodial THEN "service" ELSE "program"
           /\ EscrowOf'[m] = Escrowed(m)'
<1>1. PhaseOf'[m] = IF m \notin live' THEN "free"
                    ELSE IF lock'[m].withdrawn THEN "released" ELSE "locked"
  BY DEF PhaseOf
<1>2. UnlockOf'[m] = lock'[m].unlock_ts
  BY DEF UnlockOf
<1>3. KeeperOf'[m] = IF lock'[m].custodial THEN "service" ELSE "program"
  BY DEF KeeperOf
<1>4. EscrowOf'[m] = Escrowed(m)'
  BY DEF EscrowOf
<1> QED
  BY <1>1, <1>2, <1>3, <1>4

LEMMA SameViewFrame ==
    ASSUME NEW m \in Locks, m \in live' <=> m \in live,
           lock'[m].withdrawn = lock[m].withdrawn,
           lock'[m].custodial = lock[m].custodial,
           lock'[m].unlock_ts = lock[m].unlock_ts,
           Active(m) => vault'[VaultAuthority(m)] = vault[VaultAuthority(m)]
    PROVE  SameView(m)
<1>1. VaultAuthority(m)' = VaultAuthority(m)
  BY AuthoritySame
<1>2. Active(m)' <=> Active(m)
  BY DEF Active
<1>3. Escrowed(m)' = Escrowed(m)
  BY <1>1, <1>2 DEF Escrowed
<1> QED
  BY <1>3, ViewOf, ViewOfNext DEF SameView

\* A step that changes the view of at most one lock changes the functions there only.
LEMMA OneLock ==
    ASSUME NEW l \in Locks, \A m \in Locks : m # l => SameView(m)
    PROVE  /\ PhaseOf' = [PhaseOf EXCEPT ![l] = PhaseOf'[l]]
           /\ UnlockOf' = [UnlockOf EXCEPT ![l] = UnlockOf'[l]]
           /\ KeeperOf' = [KeeperOf EXCEPT ![l] = KeeperOf'[l]]
           /\ EscrowOf' = [EscrowOf EXCEPT ![l] = EscrowOf'[l]]
<1>1. PhaseOf' = [PhaseOf EXCEPT ![l] = PhaseOf'[l]]
  BY DEF SameView, PhaseOf
<1>2. UnlockOf' = [UnlockOf EXCEPT ![l] = UnlockOf'[l]]
  BY DEF SameView, UnlockOf
<1>3. KeeperOf' = [KeeperOf EXCEPT ![l] = KeeperOf'[l]]
  BY DEF SameView, KeeperOf
<1>4. EscrowOf' = [EscrowOf EXCEPT ![l] = EscrowOf'[l]]
  <2>1. \A m \in Locks : m # l => EscrowOf'[m] = EscrowOf[m]
    BY DEF SameView
  <2> QED
    BY <2>1 DEF EscrowOf
<1> QED
  BY <1>1, <1>2, <1>3, <1>4

LEMMA NoLock ==
    ASSUME \A m \in Locks : SameView(m)
    PROVE  UNCHANGED <<PhaseOf, UnlockOf, KeeperOf, EscrowOf>>
<1>1. PhaseOf' = PhaseOf
  BY DEF SameView, PhaseOf
<1>2. UnlockOf' = UnlockOf
  BY DEF SameView, UnlockOf
<1>3. KeeperOf' = KeeperOf
  BY DEF SameView, KeeperOf
<1>4. EscrowOf' = EscrowOf
  <2>1. \A m \in Locks : EscrowOf'[m] = EscrowOf[m]
    BY DEF SameView
  <2> QED
    BY <2>1 DEF EscrowOf
<1> QED
  BY <1>1, <1>2, <1>3, <1>4

LEMMA StartsRight == Init => Promise!Start
<1> SUFFICES ASSUME Init PROVE Promise!Start
  OBVIOUS
<1>1. live = {} /\ lock = [l \in Locks |-> NullLock] /\ now = 0
  BY DEF Init
<1>2. PhaseOf = [l \in Locks |-> "free"]
  BY <1>1 DEF PhaseOf
<1>3. UnlockOf = [l \in Locks |-> 0]
  BY <1>1 DEF UnlockOf, NullLock
<1>4. KeeperOf = [l \in Locks |-> "program"]
  BY <1>1 DEF KeeperOf, NullLock
<1>5. \A l \in Locks : Escrowed(l) = 0
  BY <1>1 DEF Escrowed, Active
<1>6. EscrowOf = [l \in Locks |-> 0]
  BY <1>5 DEF EscrowOf
<1> QED
  BY <1>1, <1>2, <1>3, <1>4, <1>6 DEF Promise!Start

LEMMA AdvanceStep ==
    ASSUME now' = now + 1, UNCHANGED <<live, lock, vault>>
    PROVE  Promise!AbsNext
<1>1. \A m \in Locks : SameView(m)
  BY SameViewFrame
<1> QED
  BY <1>1, NoLock DEF Promise!AbsNext, Promise!Advance

LEMMA Stutter ==
    ASSUME now' = now, \A m \in Locks : SameView(m)
    PROVE  UNCHANGED Promise!absVars
  BY NoLock DEF Promise!absVars

-----------------------------------------------------------------------------
\* A step that changes the view of one lock as an action of TimeLock does is that
\* action.

OnlyView(l) ==
    /\ now' = now
    /\ \A m \in Locks : m # l => SameView(m)

LEMMA SamePhase == ASSUME \A m \in Locks : PhaseOf'[m] = PhaseOf[m] PROVE PhaseOf' = PhaseOf
  BY DEF PhaseOf

LEMMA SameUnlock == ASSUME \A m \in Locks : UnlockOf'[m] = UnlockOf[m] PROVE UnlockOf' = UnlockOf
  BY DEF UnlockOf

LEMMA SameKeeper == ASSUME \A m \in Locks : KeeperOf'[m] = KeeperOf[m] PROVE KeeperOf' = KeeperOf
  BY DEF KeeperOf

LEMMA SameEscrow == ASSUME \A m \in Locks : EscrowOf'[m] = EscrowOf[m] PROVE EscrowOf' = EscrowOf
  BY DEF EscrowOf

LEMMA MoveLock ==
    ASSUME NEW l \in Locks, OnlyView(l),
           PhaseOf[l] = "free", PhaseOf'[l] = "locked",
           now < UnlockOf'[l], UnlockOf'[l] <= now + MAX_LOCK_DURATION
    PROVE  Promise!LockMoves(l)
<1>1. Promise!Lock(l, UnlockOf'[l], KeeperOf'[l], EscrowOf'[l])
  BY OneLock DEF OnlyView, Promise!Lock
<1> QED
  BY <1>1 DEF Promise!LockMoves

LEMMA MoveGrow ==
    ASSUME NEW l \in Locks, OnlyView(l),
           PhaseOf[l] = "locked", PhaseOf'[l] = PhaseOf[l],
           UnlockOf'[l] = UnlockOf[l], KeeperOf'[l] = KeeperOf[l],
           EscrowOf'[l] >= EscrowOf[l]
    PROVE  Promise!LockMoves(l)
<1>1. PhaseOf' = PhaseOf /\ UnlockOf' = UnlockOf /\ KeeperOf' = KeeperOf
  BY SamePhase, SameUnlock, SameKeeper DEF OnlyView, SameView
<1>2. Promise!Grow(l, EscrowOf'[l])
  BY <1>1, OneLock DEF OnlyView, Promise!Grow
<1> QED
  BY <1>2 DEF Promise!LockMoves

LEMMA MoveExtend ==
    ASSUME NEW l \in Locks, OnlyView(l),
           PhaseOf[l] = "locked", PhaseOf'[l] = PhaseOf[l],
           KeeperOf'[l] = KeeperOf[l], EscrowOf'[l] = EscrowOf[l],
           UnlockOf[l] < UnlockOf'[l], UnlockOf'[l] <= now + MAX_LOCK_DURATION
    PROVE  Promise!LockMoves(l)
<1>1. PhaseOf' = PhaseOf /\ EscrowOf' = EscrowOf /\ KeeperOf' = KeeperOf
  BY SamePhase, SameEscrow, SameKeeper DEF OnlyView, SameView
<1>2. Promise!Extend(l, UnlockOf'[l])
  BY <1>1, OneLock DEF OnlyView, Promise!Extend
<1> QED
  BY <1>2 DEF Promise!LockMoves

LEMMA MoveEntrust ==
    ASSUME NEW l \in Locks, OnlyView(l),
           PhaseOf[l] = "locked", PhaseOf'[l] = PhaseOf[l],
           KeeperOf[l] = "program", KeeperOf'[l] = "service",
           UnlockOf'[l] = UnlockOf[l], EscrowOf'[l] >= NetOfTax(EscrowOf[l])
    PROVE  Promise!LockMoves(l)
<1>1. PhaseOf' = PhaseOf /\ UnlockOf' = UnlockOf
  BY SamePhase, SameUnlock DEF OnlyView, SameView
<1>2. Promise!Entrust(l, EscrowOf'[l])
  BY <1>1, OneLock DEF OnlyView, Promise!Entrust
<1> QED
  BY <1>2 DEF Promise!LockMoves

LEMMA MoveRelease ==
    ASSUME NEW l \in Locks, OnlyView(l),
           PhaseOf[l] = "locked", PhaseOf'[l] = "released",
           UnlockOf[l] <= now, UnlockOf'[l] = UnlockOf[l],
           KeeperOf'[l] = KeeperOf[l], EscrowOf'[l] = 0
    PROVE  Promise!LockMoves(l)
<1>1. KeeperOf' = KeeperOf /\ UnlockOf' = UnlockOf
  BY SameKeeper, SameUnlock DEF OnlyView, SameView
<1>2. Promise!Release(l)
  BY <1>1, OneLock DEF OnlyView, Promise!Release
<1> QED
  BY <1>2 DEF Promise!LockMoves

LEMMA MoveFree ==
    ASSUME NEW l \in Locks, OnlyView(l),
           PhaseOf[l] = "released", PhaseOf'[l] = "free", UnlockOf'[l] = 0,
           KeeperOf'[l] = "program", EscrowOf'[l] = EscrowOf[l]
    PROVE  Promise!LockMoves(l)
<1>1. EscrowOf' = EscrowOf
  BY SameEscrow DEF OnlyView, SameView
<1>2. Promise!Free(l)
  BY <1>1, OneLock DEF OnlyView, Promise!Free
<1> QED
  BY <1>2 DEF Promise!LockMoves

-----------------------------------------------------------------------------
\* The steps of the program

\* A step on one lock leaves the records and the vaults of the others.
LEMMA OthersKeepView ==
    ASSUME TypeInv, NEW l \in Locks, now' = now,
           \A m \in Locks : m # l => lock'[m] = lock[m] /\ (m \in live' <=> m \in live),
           \A a \in Auth : a[1] # l => vault'[a] = vault[a]
    PROVE  OnlyView(l)
<1> SUFFICES ASSUME NEW m \in Locks, m # l PROVE SameView(m)
  BY DEF OnlyView
<1>1. VaultAuthority(m) \in Auth /\ VaultAuthority(m)[1] = m
  BY AuthorityType DEF TypeInv, VaultAuthority
<1> QED
  BY <1>1, SameViewFrame

\* What an active lock looks like, and the type of what its view is made of.
LEMMA ActiveView ==
    ASSUME TypeInv, NEW l \in Locks, Active(l)
    PROVE  /\ PhaseOf[l] = "locked" /\ UnlockOf[l] = lock[l].unlock_ts
           /\ EscrowOf[l] = vault[VaultAuthority(l)] /\ EscrowOf[l] \in Nat
           /\ lock \in [Locks -> LockRecord] /\ l \in live
<1>1. VaultAuthority(l) \in Auth /\ vault \in [Auth -> Nat]
  BY AuthorityType DEF TypeInv, TypeOK
<1> QED
  BY <1>1, ViewOf DEF Active, Escrowed, TypeInv, TypeOK

LEMMA CreateView ==
    ASSUME TypeInv, NEW l \in Locks, NEW mode \in Modes, NEW amount \in Amounts,
           NEW unlock \in UnlockTimes, NEW withPool \in BOOLEAN,
           CreateLockIn(l, mode, amount, unlock, withPool)
    PROVE  Promise!LockMoves(l)
<1> DEFINE a == <<l, mode>>
           n == Enrollment(withPool, amount, unlock - now)
           r == NewLock(mode, amount, unlock, n)
<1>1. /\ TypeOK /\ a \in Auth /\ amount \in Nat /\ lock \in [Locks -> LockRecord]
      /\ now \in Nat /\ unlock \in Int /\ MAX_LOCK_DURATION \in Nat
  BY AuthorityType, ArgumentAssumption, LimitAssumption DEF TypeInv, TypeOK
<1>2. /\ Deposit(a, amount) /\ live' = live \cup {l} /\ l \notin live /\ now' = now
      /\ ValidTerm(unlock) /\ lock' = [lock EXCEPT ![l] = r]
  BY DEF CreateLockIn
<1>3. \A b \in Auth : b[1] # l => vault'[b] = vault[b]
  BY <1>1, <1>2, DepositType
<1>4. lock'[l].unlock_ts = unlock /\ lock'[l].withdrawn = FALSE
  BY <1>1, <1>2 DEF NewLock
<1> HIDE DEF r
<1>5. OnlyView(l)
  BY <1>1, <1>2, <1>3, OthersKeepView
<1>6. /\ PhaseOf[l] = "free" /\ PhaseOf'[l] = "locked" /\ UnlockOf'[l] = unlock
  BY <1>2, <1>4, ViewOf, ViewOfNext
<1>7. now < unlock /\ unlock <= now + MAX_LOCK_DURATION
  BY <1>1, <1>2 DEF ValidTerm
<1> QED
  BY <1>5, <1>6, <1>7, MoveLock

\* A payment of locked tokens to the authority of an active lock: nothing else
\* about it changes.
LEMMA DepositView ==
    ASSUME TypeInv, NEW l \in Locks, Active(l), now' = now, live' = live,
           NEW n \in Nat, Deposit(VaultAuthority(l), n),
           \A m \in Locks : m # l => lock'[m] = lock[m],
           lock'[l].withdrawn = lock[l].withdrawn,
           lock'[l].custodial = lock[l].custodial,
           lock'[l].unlock_ts = lock[l].unlock_ts
    PROVE  Promise!LockMoves(l)
<1> DEFINE a == VaultAuthority(l)
<1>1. TypeOK /\ a \in Auth /\ a[1] = l /\ vault \in [Auth -> Nat]
  BY AuthorityType DEF TypeInv, TypeOK
<1>2. /\ vault'[a] = vault[a] + NetOfTax(n)
      /\ \A b \in Auth : b # a => vault'[b] = vault[b]
  BY <1>1, DepositType
<1>3. OnlyView(l)
  BY <1>1, <1>2, OthersKeepView
<1>4. Active(l)' /\ VaultAuthority(l)' = a
  BY AuthoritySame DEF Active
<1>5. vault'[a] >= vault[a]
  BY <1>1, <1>2, NetOfTaxType
<1>6. EscrowOf'[l] = vault'[a] /\ EscrowOf[l] = vault[a]
  BY <1>4, ViewOf, ViewOfNext DEF Escrowed
<1>7. /\ PhaseOf[l] = "locked" /\ PhaseOf'[l] = PhaseOf[l]
      /\ UnlockOf'[l] = UnlockOf[l] /\ KeeperOf'[l] = KeeperOf[l]
  BY ActiveView, ViewOf, ViewOfNext
<1> QED
  BY <1>3, <1>5, <1>6, <1>7, MoveGrow

LEMMA TopUpView ==
    ASSUME TypeInv, NEW l \in Locks, NEW amount \in Amounts, NEW withPool \in BOOLEAN,
           TopUp(l, amount, withPool)
    PROVE  Promise!LockMoves(l)
<1>1. Active(l) /\ amount \in Nat /\ lock \in [Locks -> LockRecord]
  BY ArgumentAssumption DEF TopUp, TypeInv, TypeOK
<1>2. Deposit(VaultAuthority(l), amount) /\ now' = now /\ live' = live
  BY DEF TopUp
<1>3. \A m \in Locks : m # l => lock'[m] = lock[m]
  BY <1>1 DEF TopUp
<1>4. /\ lock'[l].withdrawn = lock[l].withdrawn
      /\ lock'[l].custodial = lock[l].custodial
      /\ lock'[l].unlock_ts = lock[l].unlock_ts
  BY <1>1 DEF TopUp, ToppedUp, LockRecord
<1> QED
  BY <1>1, <1>2, <1>3, <1>4, DepositView

LEMMA ExtendView ==
    ASSUME TypeInv, NEW l \in Locks, NEW unlock \in UnlockTimes, ExtendLock(l, unlock)
    PROVE  Promise!LockMoves(l)
<1>1. /\ Active(l) /\ lock \in [Locks -> LockRecord] /\ now \in Nat /\ unlock \in Int
      /\ MAX_LOCK_DURATION \in Nat
  BY ArgumentAssumption, LimitAssumption DEF ExtendLock, TypeInv, TypeOK
<1>2. /\ now' = now /\ live' = live /\ vault' = vault
      /\ lock' = [lock EXCEPT ![l].unlock_ts = unlock]
  BY DEF ExtendLock, escrowVars
<1>3. /\ lock'[l].unlock_ts = unlock /\ lock'[l].withdrawn = lock[l].withdrawn
      /\ lock'[l].custodial = lock[l].custodial
      /\ \A m \in Locks : m # l => lock'[m] = lock[m]
  BY <1>1, <1>2 DEF LockRecord
<1>4. OnlyView(l)
  BY <1>2, <1>3, OthersKeepView
<1>5. VaultAuthority(l)' = VaultAuthority(l) /\ (Active(l)' <=> Active(l))
  BY <1>2, <1>3, AuthoritySame DEF Active
<1>6. Escrowed(l)' = Escrowed(l)
  BY <1>2, <1>5 DEF Escrowed
<1>7. /\ PhaseOf[l] = "locked" /\ PhaseOf'[l] = PhaseOf[l] /\ UnlockOf'[l] = unlock
      /\ UnlockOf[l] = lock[l].unlock_ts
      /\ KeeperOf'[l] = KeeperOf[l] /\ EscrowOf'[l] = EscrowOf[l]
  BY <1>1, <1>2, <1>3, <1>6, ActiveView, ViewOf, ViewOfNext
<1>8. lock[l].unlock_ts < unlock /\ unlock <= now + MAX_LOCK_DURATION
  <2>1. lock[l].unlock_ts \in Int
    BY <1>1 DEF LockRecord
  <2> QED
    BY <1>1, <2>1 DEF ExtendLock, MayExtendTo
<1> QED
  BY <1>4, <1>7, <1>8, MoveExtend

LEMMA ReleaseView ==
    ASSUME TypeInv, NEW l \in Locks, NEW withPool \in BOOLEAN, Release(l, withPool)
    PROVE  Promise!LockMoves(l)
<1> DEFINE a == VaultAuthority(l)
<1>1. /\ Active(l) /\ lock \in [Locks -> LockRecord] /\ now \in Nat
      /\ vault \in [Auth -> Nat] /\ a \in Auth /\ a[1] = l
  BY AuthorityType DEF Release, TypeInv, TypeOK
<1>2. /\ now' = now /\ live' = live /\ vault' = [vault EXCEPT ![a] = 0]
      /\ lock'[l].withdrawn = TRUE /\ lock'[l].unlock_ts = lock[l].unlock_ts
      /\ lock'[l].custodial = lock[l].custodial
      /\ \A m \in Locks : m # l => lock'[m] = lock[m]
  BY <1>1 DEF Release, LockRecord
<1>3. OnlyView(l)
  BY <1>1, <1>2, OthersKeepView
<1>4. Escrowed(l)' = 0
  BY <1>2 DEF Escrowed, Active
<1>5. /\ PhaseOf[l] = "locked" /\ PhaseOf'[l] = "released"
      /\ UnlockOf'[l] = UnlockOf[l] /\ UnlockOf[l] = lock[l].unlock_ts
      /\ KeeperOf'[l] = KeeperOf[l] /\ EscrowOf'[l] = 0
  BY <1>1, <1>2, <1>4, ActiveView, ViewOf, ViewOfNext
<1>6. lock[l].unlock_ts <= now
  <2>1. lock[l].unlock_ts \in Int
    BY <1>1 DEF LockRecord
  <2> QED
    BY <1>1, <2>1 DEF Release, Expired
<1> QED
  BY <1>3, <1>5, <1>6, MoveRelease

LEMMA CloseView ==
    ASSUME TypeInv, NEW l \in Locks, CloseWithdrawn(l)
    PROVE  Promise!LockMoves(l)
<1>1. l \in live /\ lock[l].withdrawn /\ lock \in [Locks -> LockRecord]
  BY DEF CloseWithdrawn, TypeInv, TypeOK
<1>2. /\ now' = now /\ live' = live \ {l} /\ vault' = vault
      /\ lock'[l] = NullLock /\ \A m \in Locks : m # l => lock'[m] = lock[m]
  BY <1>1 DEF CloseWithdrawn, escrowVars
<1>3. OnlyView(l)
  BY <1>2, OthersKeepView
<1>4. Escrowed(l)' = 0 /\ Escrowed(l) = 0
  BY <1>1, <1>2 DEF Escrowed, Active
<1>5. NullLock.unlock_ts = 0 /\ NullLock.custodial = FALSE
  BY DEF NullLock
<1>6. /\ PhaseOf[l] = "released" /\ PhaseOf'[l] = "free" /\ UnlockOf'[l] = 0
      /\ KeeperOf'[l] = "program" /\ EscrowOf'[l] = EscrowOf[l]
  BY <1>1, <1>2, <1>4, <1>5, ViewOf, ViewOfNext
<1> QED
  BY <1>3, <1>6, MoveFree

LEMMA MigrateView ==
    ASSUME TypeInv, NEW l \in Locks, MigrateLockToCustodial(l)
    PROVE  Promise!LockMoves(l)
<1> DEFINE old == <<l, "pda">>
           new == <<l, "holder">>
           v0  == [vault EXCEPT ![old] = 0]
           n   == NetOfTax(vault[old])
<1>1. /\ TypeOK /\ old \in Auth /\ new \in Auth /\ old # new
      /\ lock \in [Locks -> LockRecord] /\ vault \in [Auth -> Nat]
  BY AuthorityType DEF TypeInv, TypeOK, Modes
<1>2. /\ Active(l) /\ ~lock[l].custodial /\ vault' = Credit(v0, new, n)
      /\ live' = live /\ now' = now
  BY DEF MigrateLockToCustodial
<1>3. /\ v0 \in [Auth -> Nat] /\ n \in Nat
      /\ \A b \in Auth : b # old => v0[b] = vault[b]
  BY <1>1, NetOfTaxType
<1>4. /\ vault'[new] = v0[new] + n /\ v0[new] \in Nat
      /\ \A b \in Auth : b # new => vault'[b] = v0[b]
  <2> HIDE DEF v0, n
  <2> QED
    BY <1>1, <1>2, <1>3, AuthCredit
<1>5. /\ \A m \in Locks : m # l => lock'[m] = lock[m]
      /\ lock'[l].custodial = TRUE /\ lock'[l].withdrawn = lock[l].withdrawn
      /\ lock'[l].unlock_ts = lock[l].unlock_ts
  BY <1>1 DEF MigrateLockToCustodial, Migrated, LockRecord
<1>6. \A b \in Auth : b[1] # l => vault'[b] = vault[b]
  BY <1>3, <1>4
<1>7. OnlyView(l)
  BY <1>2, <1>5, <1>6, OthersKeepView
<1>8. VaultAuthority(l) = old /\ VaultAuthority(l)' = new /\ Active(l)'
  BY <1>2, <1>5 DEF VaultAuthority, Active
<1>9. EscrowOf[l] = vault[old] /\ EscrowOf'[l] = vault'[new]
  BY <1>2, <1>8, ViewOf, ViewOfNext DEF Escrowed
<1>10. vault'[new] >= n
  BY <1>3, <1>4
<1>11. /\ PhaseOf[l] = "locked" /\ PhaseOf'[l] = PhaseOf[l]
       /\ KeeperOf[l] = "program" /\ KeeperOf'[l] = "service"
       /\ UnlockOf'[l] = UnlockOf[l]
  BY <1>2, <1>5, ActiveView, ViewOf, ViewOfNext
<1> QED
  BY <1>7, <1>9, <1>10, <1>11, MoveEntrust

\* Claims touch neither the vaults nor the terms of a lock.
LEMMA QuietView ==
    ASSUME now' = now, live' = live, vault' = vault,
           \A m \in Locks : /\ lock'[m].withdrawn = lock[m].withdrawn
                            /\ lock'[m].custodial = lock[m].custodial
                            /\ lock'[m].unlock_ts = lock[m].unlock_ts
    PROVE  UNCHANGED Promise!absVars
<1>1. \A m \in Locks : SameView(m)
  BY SameViewFrame
<1> QED
  BY <1>1, Stutter

LEMMA LockStepView ==
    ASSUME TypeInv, NEW l \in Locks, LockStep(l)
    PROVE  Promise!AbsNext \/ UNCHANGED Promise!absVars
<1>1. ASSUME NEW withPool \in BOOLEAN, ClaimSol(l, withPool) \/ ClaimTokens(l, withPool)
      PROVE  UNCHANGED Promise!absVars
  <2>1. lock \in [Locks -> LockRecord]
    BY DEF TypeInv, TypeOK
  <2>2. now' = now /\ live' = live /\ vault' = vault
    BY <1>1 DEF ClaimSol, ClaimTokens, escrowVars
  <2>3. \A m \in Locks : /\ lock'[m].withdrawn = lock[m].withdrawn
                         /\ lock'[m].custodial = lock[m].custodial
                         /\ lock'[m].unlock_ts = lock[m].unlock_ts
    BY <1>1, <2>1 DEF ClaimSol, ClaimTokens, LockRecord
  <2> QED
    BY <2>2, <2>3, QuietView
<1>2. Promise!LockMoves(l) => Promise!AbsNext
  BY DEF Promise!AbsNext
<1> QED
  BY <1>1, <1>2, LockStepCases, CreateView, TopUpView, ExtendView, ReleaseView,
     CloseView, MigrateView

\* A donation grows the escrow of the lock it reaches, if it reaches one.
LEMMA DonationView ==
    ASSUME TypeInv, NEW a \in Auth, NEW n \in DonationSizes, DonateLockedMint(a, n)
    PROVE  Promise!AbsNext \/ UNCHANGED Promise!absVars
<1>1. /\ n \in Nat /\ Deposit(a, n) /\ now' = now /\ live' = live /\ lock' = lock
  BY ArgumentAssumption DEF DonateLockedMint
<1>2. ASSUME NEW l \in Locks, Active(l), a = VaultAuthority(l)
      PROVE  Promise!AbsNext
  <2>1. Promise!LockMoves(l)
    BY <1>1, <1>2, DepositView
  <2> QED
    BY <2>1 DEF Promise!AbsNext
<1>3. ASSUME \A l \in Locks : Active(l) => a # VaultAuthority(l)
      PROVE  UNCHANGED Promise!absVars
  <2>1. \A b \in Auth : b # a => vault'[b] = vault[b]
    BY <1>1, DepositType DEF TypeInv
  <2>2. \A m \in Locks : VaultAuthority(m) \in Auth
    BY AuthorityType DEF TypeInv
  <2>3. \A m \in Locks : SameView(m)
    BY <1>1, <1>3, <2>1, <2>2, SameViewFrame
  <2> QED
    BY <1>1, <2>3, Stutter
<1> QED
  BY <1>2, <1>3

LEMMA StepView ==
    ASSUME TypeInv, [Next]_vars
    PROVE  Promise!AbsNext \/ UNCHANGED Promise!absVars
<1>1. CASE UNCHANGED <<now, live, lock, vault>>
  BY <1>1, QuietView
<1>2. ConfigStep => UNCHANGED <<now, live, lock, vault>>
  BY ConfigStepLeaves
<1>3. PoolStep => UNCHANGED <<now, live, lock, vault>>
  BY PoolStepLeaves
<1>4. UNCHANGED vars => UNCHANGED <<now, live, lock, vault>>
  BY DEF vars, escrowVars
<1>5. CASE Tick
  BY <1>5, AdvanceStep DEF Tick, escrowVars
<1>6. WorldStep => \/ Tick \/ UNCHANGED <<now, live, lock, vault>>
                   \/ \E a \in Auth, n \in DonationSizes : DonateLockedMint(a, n)
  BY DEF WorldStep, DistributeSol, DistributeTokens, CollectWithheldTax, escrowVars
<1> QED
  BY <1>1, <1>2, <1>3, <1>4, <1>5, <1>6, LockStepView, DonationView DEF Next

\* Whatever the signers, the clock and the world do, the program is the time-lock it
\* advertises: locked tokens leave a vault only in a withdrawal by its lock after the
\* unlock time, or to the custody service's vault in the one migration, less one tax.
THEOREM ImplementsTimeLock == Spec => KeepsPromise
<1>1. Init => Promise!Start
  BY StartsRight
<1>2. Spec => []TypeInv
  BY TypeInit, TypeStep, PTL DEF Spec
<1>3. TypeInv /\ [Next]_vars => [Promise!AbsNext]_(Promise!absVars)
  BY StepView
<1> QED
  BY <1>1, <1>2, <1>3, PTL DEF Spec, KeepsPromise, Promise!AbsSpec

-----------------------------------------------------------------------------
\* The boost pool.  What does not exist holds nothing.

FreshPool ==
    ~pool.exists => poolLamports = 0 /\ poolTokens = 0 /\ pool.total_bonus_paid = 0

FreshLocks == \A m \in Locks : m \notin live => lock[m] = NullLock

CleanSlate == FreshPool /\ FreshLocks

\* Every instruction that moves lamports or tokens of a pool names an existing one.
LEMMA PoolKept ==
    ASSUME TypeInv, NEW l \in Locks, LockStep(l)
    PROVE  /\ pool'.exists = pool.exists /\ pool'.pays_sol = pool.pays_sol
           /\ pool'.capacity = pool.capacity
           /\ ~pool.exists => /\ poolLamports' = poolLamports /\ poolTokens' = poolTokens
                              /\ pool'.total_bonus_paid = pool.total_bonus_paid
<1> DEFINE Kept == /\ pool'.exists = pool.exists /\ pool'.pays_sol = pool.pays_sol
                   /\ pool'.capacity = pool.capacity
                   /\ ~pool.exists => /\ poolLamports' = poolLamports
                                      /\ poolTokens' = poolTokens
                                      /\ pool'.total_bonus_paid = pool.total_bonus_paid
<1>1. pool \in PoolRecord /\ poolLamports \in Nat /\ poolTokens \in Nat
  BY DEF TypeInv, TypeOK
<1>2. ASSUME NEW mode \in Modes, NEW amount \in Amounts, NEW unlock \in UnlockTimes,
             NEW withPool \in BOOLEAN, CreateLockIn(l, mode, amount, unlock, withPool)
      PROVE  Kept
  BY <1>1, <1>2 DEF CreateLockIn, PoolRecord
<1>3. ASSUME NEW amount \in Amounts, NEW withPool \in BOOLEAN, TopUp(l, amount, withPool)
      PROVE  Kept
  BY <1>1, <1>3 DEF TopUp, PoolRecord
<1>4. ASSUME NEW withPool \in BOOLEAN, Release(l, withPool) PROVE Kept
  BY <1>1, <1>4 DEF Release, ReleaseCapacity, PoolRecord
<1>5. ASSUME NEW withPool \in BOOLEAN, ClaimSol(l, withPool) PROVE Kept
  <2> DEFINE bonus == IF withPool
                      THEN SolBonus(l, RewardPayout(ClaimableSol(VaultAuthority(l)))) ELSE 0
  <2>1. /\ poolLamports' = poolLamports - bonus /\ poolTokens' = poolTokens
        /\ pool' = [pool EXCEPT !.total_bonus_paid = @ + bonus]
        /\ ~pool.exists => bonus = 0
    BY <1>5 DEF ClaimSol, Passable
  <2> HIDE DEF bonus
  <2> QED
    BY <1>1, <2>1 DEF PoolRecord
<1>6. ASSUME NEW withPool \in BOOLEAN, ClaimTokens(l, withPool) PROVE Kept
  <2> DEFINE bonus == IF withPool
                      THEN TokenBonus(l, RewardPayout(reward[VaultAuthority(l)])) ELSE 0
  <2>1. /\ poolTokens' = poolTokens - bonus /\ poolLamports' = poolLamports
        /\ pool' = [pool EXCEPT !.total_bonus_paid = @ + bonus]
        /\ ~pool.exists => bonus = 0
    BY <1>6 DEF ClaimTokens, Passable
  <2> HIDE DEF bonus
  <2> QED
    BY <1>1, <2>1 DEF PoolRecord
<1>7. ASSUME \/ CloseWithdrawn(l) \/ MigrateLockToCustodial(l)
             \/ \E unlock \in UnlockTimes : ExtendLock(l, unlock)
      PROVE  Kept
  BY <1>7 DEF CloseWithdrawn, MigrateLockToCustodial, ExtendLock, poolVars
<1> HIDE DEF Kept
<1>8. Kept
  BY <1>2, <1>3, <1>4, <1>5, <1>6, <1>7, LockStepCases
<1> QED
  BY <1>8 DEF Kept

LEMMA FreshPoolStep ==
    ASSUME TypeInv, FreshPool, [Next]_vars
    PROVE  FreshPool'
<1>1. CASE PoolStep
  <2>1. ASSUME NEW pays_sol \in PoolKinds, NEW capacity \in Capacities,
               NEW duration \in MinDurations, NEW bps \in BonusRates,
               CreateBoostPool(pays_sol, capacity, duration, bps)
        PROVE  FreshPool'
    BY <2>1 DEF CreateBoostPool, FreshPool
  <2>2. ASSUME pool.exists, pool'.exists = pool.exists PROVE FreshPool'
    BY <2>2 DEF FreshPool
  <2>3. PoolStep => \/ pool.exists /\ pool'.exists = pool.exists
                    \/ \E pays_sol \in PoolKinds, capacity \in Capacities,
                          duration \in MinDurations, bps \in BonusRates :
                          CreateBoostPool(pays_sol, capacity, duration, bps)
    <3>1. pool \in PoolRecord
      BY DEF TypeInv, TypeOK
    <3> QED
      BY <3>1 DEF PoolStep, UpdateBoostPool, FundBoostPool, FundPoolTokens,
                  WithdrawBoostPool, WithdrawBoostPoolTokens, PoolRecord
  <2> QED
    BY <1>1, <2>1, <2>2, <2>3
<1>2. ASSUME NEW l \in Locks, LockStep(l) PROVE FreshPool'
  BY <1>2, PoolKept DEF FreshPool
<1>3. CASE ConfigStep \/ WorldStep \/ UNCHANGED vars
  <2>1. UNCHANGED poolVars
    BY <1>3 DEF vars, ConfigStep, Initialize, UpdateConfig, SetCustodyAuthority,
                WorldStep, Tick, DistributeSol, DistributeTokens, DonateLockedMint,
                CollectWithheldTax
  <2> QED
    BY <2>1 DEF FreshPool, poolVars
<1> QED
  BY <1>1, <1>2, <1>3 DEF Next

LEMMA FreshLocksStep ==
    ASSUME TypeInv, FreshLocks, [Next]_vars
    PROVE  FreshLocks'
<1>1. ASSUME NEW l \in Locks, LockStep(l) PROVE FreshLocks'
  <2>1. \A m \in Locks : m # l => lock'[m] = lock[m] /\ (m \in live' <=> m \in live)
    BY <1>1, OtherLocksKept
  <2>2. l \notin live' => lock'[l] = NullLock
    <3> DEFINE Here == l \in live'
    <3>1. /\ \A mode \in Modes, amount \in Amounts, unlock \in UnlockTimes, withPool \in BOOLEAN :
                CreateLockIn(l, mode, amount, unlock, withPool) => Here
          /\ \A amount \in Amounts, withPool \in BOOLEAN : TopUp(l, amount, withPool) => Here
          /\ \A unlock \in UnlockTimes : ExtendLock(l, unlock) => Here
      <4>1. ASSUME NEW mode \in Modes, NEW amount \in Amounts, NEW unlock \in UnlockTimes,
                   NEW withPool \in BOOLEAN, CreateLockIn(l, mode, amount, unlock, withPool)
            PROVE  Here
        BY <4>1 DEF CreateLockIn
      <4>2. ASSUME NEW amount \in Amounts, NEW withPool \in BOOLEAN,
                   TopUp(l, amount, withPool)
            PROVE  Here
        BY <4>2 DEF TopUp, Active
      <4>3. ASSUME NEW unlock \in UnlockTimes, ExtendLock(l, unlock) PROVE Here
        BY <4>3 DEF ExtendLock, Active
      <4> QED
        BY <4>1, <4>2, <4>3
    <3>2. /\ \A withPool \in BOOLEAN :
                Release(l, withPool) \/ ClaimSol(l, withPool) \/ ClaimTokens(l, withPool) => Here
          /\ MigrateLockToCustodial(l) => Here
      <4>1. ASSUME NEW withPool \in BOOLEAN, Release(l, withPool) PROVE Here
        BY <4>1 DEF Release, Active
      <4>2. ASSUME NEW withPool \in BOOLEAN, ClaimSol(l, withPool) PROVE Here
        BY <4>2 DEF ClaimSol
      <4>3. ASSUME NEW withPool \in BOOLEAN, ClaimTokens(l, withPool) PROVE Here
        BY <4>3 DEF ClaimTokens
      <4>4. ASSUME MigrateLockToCustodial(l) PROVE Here
        BY <4>4 DEF MigrateLockToCustodial, Active
      <4> HIDE DEF Here
      <4> QED
        BY <4>1, <4>2, <4>3, <4>4
    <3> HIDE DEF Here
    <3>3. Here \/ CloseWithdrawn(l)
      BY <1>1, <3>1, <3>2, LockStepCases
    <3>4. CloseWithdrawn(l) => lock'[l] = NullLock
      BY DEF CloseWithdrawn, TypeInv, TypeOK
    <3> QED
      BY <3>3, <3>4 DEF Here
  <2> QED
    BY <2>1, <2>2 DEF FreshLocks
<1>2. ASSUME UNCHANGED <<live, lock>> PROVE FreshLocks'
  BY <1>2 DEF FreshLocks
<1> QED
  BY <1>1, <1>2, ConfigStepLeaves, PoolStepLeaves, WorldStepLeaves DEF Next, vars

LEMMA SlateAlways == Spec => []CleanSlate
<1>1. Init => CleanSlate
  BY DEF Init, CleanSlate, FreshPool, FreshLocks
<1>2. TypeInv /\ CleanSlate /\ [Next]_vars => CleanSlate'
  BY FreshPoolStep, FreshLocksStep DEF CleanSlate
<1>3. Spec => []TypeInv
  BY TypeInit, TypeStep, PTL DEF Spec
<1> QED
  BY <1>1, <1>2, <1>3, PTL DEF Spec

-----------------------------------------------------------------------------
\* What BonusPool sees of a state, and the steps that it sees as one action.

\* Of the locks' shares and bonuses, only those of l change.
OnlyBooksOf(l) ==
    \A m \in Locks : m # l => /\ lock'[m].boosted_amount = lock[m].boosted_amount
                              /\ lock'[m].bonus_paid = lock[m].bonus_paid

SameShare(l) == lock'[l].boosted_amount = lock[l].boosted_amount

SameBonus(l) == lock'[l].bonus_paid = lock[l].bonus_paid

LEMMA SharesSame ==
    ASSUME \A m \in Locks : SameShare(m)
    PROVE  BoostedOf' = BoostedOf
  BY DEF BoostedOf, SameShare

LEMMA BonusesSame ==
    ASSUME \A m \in Locks : SameBonus(m)
    PROVE  EarnedOf' = EarnedOf
  BY DEF EarnedOf, SameBonus

\* The functions of the mapping, where one lock changes.
LEMMA BooksOfOne ==
    ASSUME NEW l \in Locks, OnlyBooksOf(l)
    PROVE  /\ BoostedOf[l] = lock[l].boosted_amount /\ EarnedOf[l] = lock[l].bonus_paid
           /\ BoostedOf' = [BoostedOf EXCEPT ![l] = lock'[l].boosted_amount]
           /\ EarnedOf' = [EarnedOf EXCEPT ![l] = lock'[l].bonus_paid]
           /\ SameShare(l) => BoostedOf' = BoostedOf
           /\ SameBonus(l) => EarnedOf' = EarnedOf
<1>1. BoostedOf[l] = lock[l].boosted_amount /\ EarnedOf[l] = lock[l].bonus_paid
  BY DEF BoostedOf, EarnedOf
<1>2. BoostedOf' = [BoostedOf EXCEPT ![l] = lock'[l].boosted_amount]
  BY DEF BoostedOf, OnlyBooksOf
<1>3. EarnedOf' = [EarnedOf EXCEPT ![l] = lock'[l].bonus_paid]
  BY DEF EarnedOf, OnlyBooksOf
<1>4. SameShare(l) => BoostedOf' = BoostedOf
  BY DEF BoostedOf, SameShare, OnlyBooksOf
<1>5. SameBonus(l) => EarnedOf' = EarnedOf
  BY DEF EarnedOf, SameBonus, OnlyBooksOf
<1> QED
  BY <1>1, <1>2, <1>3, <1>4, <1>5

\* What the pool can pay: of a solvent one, all that lies above the reserve.
LEMMA FundsOf ==
    ASSUME TypeInv, PoolSolvent
    PROVE  /\ PoolFunds \in Nat
           /\ pool.exists /\ pool.pays_sol =>
                 /\ PoolFunds = poolLamports - PoolReserve
                 /\ PoolFunds = SaturatingSub(poolLamports, PoolReserve)
           /\ pool.exists /\ ~pool.pays_sol => PoolFunds = poolTokens
           /\ poolLamports \in Nat /\ poolTokens \in Nat /\ PoolReserve \in Nat
<1>1. poolLamports \in Nat /\ poolTokens \in Nat /\ PoolReserve \in Nat
  BY LimitAssumption DEF TypeInv, TypeOK
<1>2. SaturatingSub(poolLamports, PoolReserve) \in Nat
  BY <1>1, SaturatingSubBounds
<1>3. pool.exists => SaturatingSub(poolLamports, PoolReserve) = poolLamports - PoolReserve
  BY <1>1, SaturatingSubBounds DEF PoolSolvent
<1> QED
  BY <1>1, <1>2, <1>3 DEF PoolFunds

LEMMA FundsNext == ASSUME TypeInv', PoolSolvent' PROVE PoolFunds' \in Nat
<1>1. poolLamports' \in Nat /\ poolTokens' \in Nat /\ PoolReserve \in Nat
  BY LimitAssumption DEF TypeInv, TypeOK
<1>2. SaturatingSub(poolLamports', PoolReserve) \in Nat
  BY <1>1, SaturatingSubBounds
<1>3. PoolFunds' = IF ~pool'.exists THEN 0
                   ELSE IF pool'.pays_sol THEN SaturatingSub(poolLamports', PoolReserve)
                   ELSE poolTokens'
  BY DEF PoolFunds
<1> QED
  BY <1>1, <1>2, <1>3

LEMMA FundsSame ==
    ASSUME pool'.exists = pool.exists, pool'.pays_sol = pool.pays_sol,
           poolLamports' = poolLamports, poolTokens' = poolTokens
    PROVE  PoolFunds' = PoolFunds
  BY DEF PoolFunds

\* What moves in the currency the pool pays in moves its funds.
LEMMA FundsMove ==
    ASSUME TypeInv, TypeInv', PoolSolvent, PoolSolvent', pool.exists,
           pool'.exists = pool.exists, pool'.pays_sol = pool.pays_sol, NEW n \in Int,
           \/ pool.pays_sol /\ poolLamports' = poolLamports + n
           \/ ~pool.pays_sol /\ poolTokens' = poolTokens + n
    PROVE  PoolFunds' = PoolFunds + n
<1>1. CASE pool.pays_sol
  <2>1. PoolFunds = poolLamports - PoolReserve /\ poolLamports \in Nat
        /\ PoolReserve \in Nat
    BY <1>1, FundsOf
  <2>2. PoolFunds' = poolLamports' - PoolReserve
    <3>1. poolLamports' >= PoolReserve /\ poolLamports' \in Nat
      BY DEF PoolSolvent, TypeInv, TypeOK
    <3>2. SaturatingSub(poolLamports', PoolReserve) = poolLamports' - PoolReserve
      BY <2>1, <3>1, SaturatingSubBounds
    <3>3. PoolFunds' = SaturatingSub(poolLamports', PoolReserve)
      BY <1>1 DEF PoolFunds
    <3> QED
      BY <3>2, <3>3
  <2> QED
    BY <1>1, <2>1, <2>2
<1>2. CASE ~pool.pays_sol
  BY <1>2, FundsOf DEF PoolFunds
<1> QED
  BY <1>1, <1>2

Unseen ==
    /\ pool'.exists = pool.exists /\ pool'.capacity = pool.capacity
    /\ pool'.enrolled = pool.enrolled
    /\ pool'.total_bonus_paid = pool.total_bonus_paid
    /\ PoolFunds' = PoolFunds
    /\ \A m \in Locks : SameShare(m) /\ SameBonus(m)

LEMMA UnseenStep == ASSUME Unseen PROVE UNCHANGED Bonuses!poolState
  BY SharesSame, BonusesSame DEF Unseen, Bonuses!poolState

\* create_lock and top_up, when the pool takes n of the tokens.
LEMMA SeenEnroll ==
    ASSUME TypeInv, NEW l \in Locks, NEW n \in Nat, OnlyBooksOf(l), SameBonus(l),
           lock'[l].boosted_amount = lock[l].boosted_amount + n,
           pool' = [pool EXCEPT !.enrolled = @ + n],
           n > 0 => pool.exists /\ pool.enrolled + n <= pool.capacity,
           poolLamports' = poolLamports, poolTokens' = poolTokens
    PROVE  Bonuses!PoolNext \/ UNCHANGED Bonuses!poolState
<1>1. pool \in PoolRecord /\ lock[l].boosted_amount \in Nat
  BY LockFields DEF TypeInv, TypeOK
<1>2. /\ pool'.enrolled = pool.enrolled + n /\ pool.enrolled \in Nat
      /\ pool'.exists = pool.exists /\ pool'.capacity = pool.capacity
      /\ pool'.pays_sol = pool.pays_sol
      /\ pool'.total_bonus_paid = pool.total_bonus_paid
  BY <1>1 DEF PoolRecord
<1>3. PoolFunds' = PoolFunds
  BY <1>2, FundsSame
<1>4. CASE n = 0
  <2>1. \A m \in Locks : SameShare(m) /\ SameBonus(m)
    BY <1>1, <1>4 DEF OnlyBooksOf, SameShare, SameBonus
  <2> QED
    BY <1>2, <1>3, <1>4, <2>1, UnseenStep DEF Unseen
<1>5. CASE n > 0
  <2>1. pool'.enrolled - pool.enrolled = n
    BY <1>2
  <2>2. Bonuses!Enroll(l, n)
    BY <1>2, <1>3, <1>5, BooksOfOne DEF Bonuses!Enroll
  <2>3. Bonuses!Enroll(l, pool'.enrolled - pool.enrolled)
    BY <2>1, <2>2
  <2> QED
    BY <2>3 DEF Bonuses!PoolNext
<1> QED
  BY <1>4, <1>5

\* A claim, when the pool pays a bonus of n.
LEMMA SeenPay ==
    ASSUME TypeInv, TypeInv', PoolSolvent, PoolSolvent',
           NEW l \in Locks, NEW n \in Nat, OnlyBooksOf(l), SameShare(l),
           lock'[l].bonus_paid = lock[l].bonus_paid + n,
           pool' = [pool EXCEPT !.total_bonus_paid = @ + n],
           n > 0 => pool.exists /\ lock[l].boosted_amount # 0,
           \/ poolLamports' = poolLamports - n /\ poolTokens' = poolTokens
              /\ (n > 0 => pool.pays_sol)
           \/ poolTokens' = poolTokens - n /\ poolLamports' = poolLamports
              /\ (n > 0 => ~pool.pays_sol)
    PROVE  Bonuses!PoolNext \/ UNCHANGED Bonuses!poolState
<1>1. /\ pool \in PoolRecord /\ lock[l].boosted_amount \in Nat
      /\ lock[l].bonus_paid \in Nat /\ poolLamports \in Nat /\ poolTokens \in Nat
  BY LockFields DEF TypeInv, TypeOK
<1>2. /\ pool'.total_bonus_paid = pool.total_bonus_paid + n
      /\ pool.total_bonus_paid \in Nat
      /\ pool'.exists = pool.exists /\ pool'.capacity = pool.capacity
      /\ pool'.pays_sol = pool.pays_sol /\ pool'.enrolled = pool.enrolled
  BY <1>1 DEF PoolRecord
<1>3. CASE n = 0
  <2>1. \A m \in Locks : SameShare(m) /\ SameBonus(m)
    BY <1>1, <1>3 DEF OnlyBooksOf, SameShare, SameBonus
  <2>2. PoolFunds' = PoolFunds
    BY <1>1, <1>2, <1>3, FundsSame
  <2> QED
    BY <1>2, <1>3, <2>1, <2>2, UnseenStep DEF Unseen
<1>4. CASE n > 0
  <2>1. PoolFunds' = PoolFunds + (-n)
    BY <1>1, <1>2, <1>4, FundsMove
  <2>2. PoolFunds \in Nat
    BY FundsOf
  <2>3. n <= PoolFunds
    BY <2>1, <2>2, FundsNext
  <2>4. Bonuses!Pay(l, n)
    BY <1>1, <1>2, <1>4, <2>1, <2>2, <2>3, BooksOfOne DEF Bonuses!Pay
  <2>5. pool'.total_bonus_paid - pool.total_bonus_paid = n
    BY <1>2
  <2>6. Bonuses!Pay(l, pool'.total_bonus_paid - pool.total_bonus_paid)
    BY <2>4, <2>5
  <2> QED
    BY <2>6 DEF Bonuses!PoolNext
<1> QED
  BY <1>3, <1>4

\* A withdrawal: the lock leaves the pool, with its capacity if the pool is passed.
LEMMA SeenLeave ==
    ASSUME TypeInv, NEW l \in Locks, OnlyBooksOf(l), SameBonus(l),
           lock'[l].boosted_amount = 0, lock[l].boosted_amount <= pool.enrolled,
           \/ pool' = pool
           \/ pool' = [pool EXCEPT
                         !.enrolled = SaturatingSub(@, lock[l].boosted_amount)],
           poolLamports' = poolLamports, poolTokens' = poolTokens
    PROVE  Bonuses!PoolNext \/ UNCHANGED Bonuses!poolState
<1> DEFINE n == lock[l].boosted_amount
<1>1. pool \in PoolRecord /\ n \in Nat
  BY LockFields DEF TypeInv, TypeOK
<1>2. pool.enrolled \in Nat
  BY <1>1 DEF PoolRecord
<1>3. SaturatingSub(pool.enrolled, n) = pool.enrolled - n
  BY <1>1, <1>2, SaturatingSubBounds
<1>4. /\ pool'.enrolled \in {pool.enrolled, pool.enrolled - n}
      /\ pool'.exists = pool.exists /\ pool'.capacity = pool.capacity
      /\ pool'.pays_sol = pool.pays_sol
      /\ pool'.total_bonus_paid = pool.total_bonus_paid
  BY <1>1, <1>3 DEF PoolRecord
<1>5. PoolFunds' = PoolFunds
  BY <1>4, FundsSame
<1>6. CASE n = 0
  <2>1. \A m \in Locks : SameShare(m) /\ SameBonus(m)
    BY <1>6 DEF OnlyBooksOf, SameShare, SameBonus
  <2>2. pool'.enrolled = pool.enrolled
    BY <1>2, <1>4, <1>6
  <2> QED
    BY <1>4, <1>5, <2>1, <2>2, UnseenStep DEF Unseen
<1>7. CASE n > 0
  <2>1. Bonuses!Leave(l)
    BY <1>4, <1>5, <1>7, BooksOfOne DEF Bonuses!Leave
  <2> QED
    BY <2>1 DEF Bonuses!PoolNext
<1> QED
  BY <1>1, <1>6, <1>7

\* The boosted amount of any address is part of what is enrolled.
LEMMA BoostedEnrolled ==
    ASSUME TypeInv, BoostInv, FreshLocks, NEW l \in Locks
    PROVE  lock[l].boosted_amount <= pool.enrolled
<1>1. TypeOK /\ pool.enrolled \in Nat /\ lock[l].boosted_amount \in Nat
  BY LockFields DEF TypeInv, TypeOK, PoolRecord
<1>2. CASE l \notin live
  BY <1>1, <1>2 DEF FreshLocks, NullLock
<1>3. CASE l \in live
  <2>1. /\ IsFiniteSet(live) /\ BoostedOf[l] = lock[l].boosted_amount
        /\ \A m \in live : BoostedOf[m] \in Nat
    BY <1>1, CountersType DEF BoostedOf
  <2>2. BoostedOf[l] <= SumOver(live, BoostedOf)
    BY <1>3, <2>1, SumAtLeast
  <2>3. SumOver(live, BoostedOf) \in Nat
    BY BoostedSumNat
  <2> QED
    BY <1>1, <2>1, <2>2, <2>3 DEF BoostInv, EnrolledCoversBoosted
<1> QED
  BY <1>2, <1>3

LEMMA OthersBooks ==
    ASSUME TypeInv, NEW l \in Locks, LockStep(l)
    PROVE  OnlyBooksOf(l)
<1>1. \A m \in Locks : m # l => lock'[m] = lock[m]
  BY OtherLocksKept
<1> QED
  BY <1>1 DEF OnlyBooksOf

\* What enroll_boost takes of a deposit fits.
LEMMA EnrollmentFits ==
    ASSUME TypeInv, NEW withPool \in BOOLEAN, NEW amount \in Nat, NEW d \in Int,
           Passable(withPool)
    PROVE  /\ Enrollment(withPool, amount, d) \in Nat
           /\ Enrollment(withPool, amount, d) > 0 =>
                 /\ pool.exists
                 /\ pool.enrolled + Enrollment(withPool, amount, d) <= pool.capacity
<1>1. pool.capacity \in Nat /\ pool.enrolled \in Nat
  BY DEF TypeInv, TypeOK, PoolRecord
<1>2. CASE withPool
  <2>1. Enrollment(withPool, amount, d) = EnrollBoost(pool, amount, d) /\ pool.exists
    BY <1>2 DEF Enrollment, Passable
  <2> QED
    BY <1>1, <2>1, EnrollBounds
<1>3. CASE ~withPool
  BY <1>3 DEF Enrollment
<1> QED
  BY <1>2, <1>3

LEMMA BooksCreate ==
    ASSUME TypeInv, CleanSlate, NEW l \in Locks, NEW mode \in Modes,
           NEW amount \in Amounts, NEW unlock \in UnlockTimes, NEW withPool \in BOOLEAN,
           OnlyBooksOf(l), CreateLockIn(l, mode, amount, unlock, withPool)
    PROVE  Bonuses!PoolNext \/ UNCHANGED Bonuses!poolState
<1> DEFINE n == Enrollment(withPool, amount, unlock - now)
<1>1. /\ amount \in Nat /\ unlock - now \in Int /\ lock \in [Locks -> LockRecord]
  BY ArgumentAssumption DEF TypeInv, TypeOK
<1>2. /\ Passable(withPool) /\ l \notin live
      /\ lock' = [lock EXCEPT ![l] = NewLock(mode, amount, unlock, n)]
      /\ pool' = [pool EXCEPT !.enrolled = @ + n]
      /\ poolLamports' = poolLamports /\ poolTokens' = poolTokens
  BY DEF CreateLockIn
<1>3. n \in Nat /\ (n > 0 => pool.exists /\ pool.enrolled + n <= pool.capacity)
  BY <1>1, <1>2, EnrollmentFits
<1> HIDE DEF n
<1>4. lock[l].boosted_amount = 0 /\ lock[l].bonus_paid = 0
  BY <1>2 DEF CleanSlate, FreshLocks, NullLock
<1>5. lock'[l].boosted_amount = n /\ lock'[l].bonus_paid = 0
  BY <1>1, <1>2 DEF NewLock
<1>6. lock'[l].boosted_amount = lock[l].boosted_amount + n /\ SameBonus(l)
  BY <1>3, <1>4, <1>5 DEF SameBonus
<1> QED
  BY <1>2, <1>3, <1>6, SeenEnroll

LEMMA BooksTopUp ==
    ASSUME TypeInv, NEW l \in Locks, NEW amount \in Amounts, NEW withPool \in BOOLEAN,
           OnlyBooksOf(l), TopUp(l, amount, withPool)
    PROVE  Bonuses!PoolNext \/ UNCHANGED Bonuses!poolState
<1> DEFINE n == Enrollment(withPool, amount, lock[l].unlock_ts - now)
<1>1. /\ amount \in Nat /\ lock[l].unlock_ts - now \in Int
      /\ lock \in [Locks -> LockRecord]
  BY ArgumentAssumption, LockFields DEF TypeInv
<1>2. /\ Passable(withPool)
      /\ lock' = [lock EXCEPT ![l] = ToppedUp(@, amount, n)]
      /\ pool' = [pool EXCEPT !.enrolled = @ + n]
      /\ poolLamports' = poolLamports /\ poolTokens' = poolTokens
  BY DEF TopUp
<1>3. n \in Nat /\ (n > 0 => pool.exists /\ pool.enrolled + n <= pool.capacity)
  BY <1>1, <1>2, EnrollmentFits
<1> HIDE DEF n
<1>4. lock'[l].boosted_amount = lock[l].boosted_amount + n /\ SameBonus(l)
  BY <1>1, <1>2 DEF ToppedUp, LockRecord, SameBonus
<1> QED
  BY <1>2, <1>3, <1>4, SeenEnroll

LEMMA BooksRelease ==
    ASSUME TypeInv, BoostInv, CleanSlate, NEW l \in Locks, NEW withPool \in BOOLEAN,
           OnlyBooksOf(l), Release(l, withPool)
    PROVE  Bonuses!PoolNext \/ UNCHANGED Bonuses!poolState
<1>1. lock \in [Locks -> LockRecord]
  BY DEF TypeInv, TypeOK
<1>2. lock'[l].boosted_amount = 0 /\ SameBonus(l)
  BY <1>1 DEF Release, LockRecord, SameBonus
<1>3. /\ pool' = ReleaseCapacity(l, withPool)
      /\ poolLamports' = poolLamports /\ poolTokens' = poolTokens
  BY DEF Release
<1>4. lock[l].boosted_amount <= pool.enrolled
  BY BoostedEnrolled DEF CleanSlate
<1> QED
  BY <1>2, <1>3, <1>4, SeenLeave DEF ReleaseCapacity

\* A bonus that is not zero is one for enrolled tokens.
LEMMA BonusEarned ==
    ASSUME TypeInv, NEW l \in Locks, NEW payout \in Nat
    PROVE  /\ SolBonus(l, payout) > 0 => pool.pays_sol /\ lock[l].boosted_amount # 0
           /\ TokenBonus(l, payout) > 0 => ~pool.pays_sol /\ lock[l].boosted_amount # 0
<1>1. BonusFor(lock[l], payout) > 0 => lock[l].boosted_amount # 0
  BY DEF BonusFor, EarnsBonus
<1>2. /\ poolTokens \in Nat /\ SaturatingSub(poolLamports, PoolReserve) \in Nat
      /\ BonusFor(lock[l], payout) \in Nat
  BY SaturatingSubBounds, LimitAssumption, LockFields, BonusNat DEF TypeInv, TypeOK
<1> DEFINE b    == BonusFor(lock[l], payout)
           free == SaturatingSub(poolLamports, PoolReserve)
<1>3. /\ SolBonus(l, payout) > 0 => pool.pays_sol /\ MinOf(b, free) > 0
      /\ TokenBonus(l, payout) > 0 => ~pool.pays_sol /\ MinOf(b, poolTokens) > 0
  BY DEF SolBonus, TokenBonus, PaysTokens
<1> HIDE DEF b, free
<1>4. \A m \in Nat : MinOf(b, m) > 0 => b > 0
  BY <1>2 DEF MinOf, b
<1> QED
  BY <1>1, <1>2, <1>3, <1>4 DEF b, free

LEMMA BooksClaimSol ==
    ASSUME TypeInv, TypeInv', PoolSolvent, PoolSolvent', NEW l \in Locks,
           NEW withPool \in BOOLEAN, OnlyBooksOf(l), ClaimSol(l, withPool)
    PROVE  Bonuses!PoolNext \/ UNCHANGED Bonuses!poolState
<1> DEFINE gross  == ClaimableSol(VaultAuthority(l))
           payout == RewardPayout(gross)
           bonus  == IF withPool THEN SolBonus(l, payout) ELSE 0
<1>1. gross \in Nat
  BY AuthorityType, ReserveType DEF TypeInv
<1>2. payout \in Nat
  BY <1>1, RewardSplit
<1>3. /\ Passable(withPool) /\ poolLamports' = poolLamports - bonus
      /\ poolTokens' = poolTokens
      /\ pool' = [pool EXCEPT !.total_bonus_paid = @ + bonus]
      /\ lock' = [lock EXCEPT ![l].sol_rewards_claimed = @ + payout,
                              ![l].bonus_paid = @ + bonus]
  BY DEF ClaimSol
<1> HIDE DEF payout
<1>4. bonus \in Nat
  BY <1>2, BonusType
<1>5. bonus > 0 => pool.exists /\ pool.pays_sol /\ lock[l].boosted_amount # 0
  BY <1>2, <1>3, BonusEarned DEF Passable
<1> HIDE DEF bonus
<1>6. lock'[l].bonus_paid = lock[l].bonus_paid + bonus /\ SameShare(l)
  <2>1. lock \in [Locks -> LockRecord]
    BY DEF TypeInv, TypeOK
  <2> QED
    BY <1>3, <2>1 DEF LockRecord, SameShare
<1> QED
  BY <1>3, <1>4, <1>5, <1>6, SeenPay

LEMMA BooksClaimTokens ==
    ASSUME TypeInv, TypeInv', PoolSolvent, PoolSolvent', NEW l \in Locks,
           NEW withPool \in BOOLEAN, OnlyBooksOf(l), ClaimTokens(l, withPool)
    PROVE  Bonuses!PoolNext \/ UNCHANGED Bonuses!poolState
<1> DEFINE gross  == reward[VaultAuthority(l)]
           payout == RewardPayout(gross)
           bonus  == IF withPool THEN TokenBonus(l, payout) ELSE 0
<1>1. gross \in Nat
  BY AuthorityType DEF TypeInv, TypeOK
<1>2. payout \in Nat
  BY <1>1, RewardSplit
<1>3. /\ Passable(withPool) /\ poolTokens' = poolTokens - bonus
      /\ poolLamports' = poolLamports
      /\ pool' = [pool EXCEPT !.total_bonus_paid = @ + bonus]
      /\ lock' = [lock EXCEPT ![l].bonus_paid = @ + bonus]
  BY DEF ClaimTokens
<1> HIDE DEF payout
<1>4. bonus \in Nat
  BY <1>2, BonusType
<1>5. bonus > 0 => pool.exists /\ ~pool.pays_sol /\ lock[l].boosted_amount # 0
  BY <1>2, <1>3, BonusEarned DEF Passable
<1> HIDE DEF bonus
<1>6. lock'[l].bonus_paid = lock[l].bonus_paid + bonus /\ SameShare(l)
  <2>1. lock \in [Locks -> LockRecord]
    BY DEF TypeInv, TypeOK
  <2> QED
    BY <1>3, <2>1 DEF LockRecord, SameShare
<1> QED
  BY <1>3, <1>4, <1>5, <1>6, SeenPay

\* A closed lock has no share any more; what it earned is forgotten.
LEMMA BooksClose ==
    ASSUME TypeInv, BoostInv, NEW l \in Locks, OnlyBooksOf(l), CloseWithdrawn(l)
    PROVE  Bonuses!PoolNext \/ UNCHANGED Bonuses!poolState
<1>1. /\ lock[l].withdrawn /\ lock' = [lock EXCEPT ![l] = NullLock]
      /\ lock \in [Locks -> LockRecord] /\ UNCHANGED poolVars
  BY DEF CloseWithdrawn, TypeInv, TypeOK
<1>2. lock[l].boosted_amount = 0
  BY <1>1 DEF BoostInv
<1>3. lock'[l].boosted_amount = 0 /\ lock'[l].bonus_paid = 0
  BY <1>1 DEF NullLock
<1>4. PoolFunds' = PoolFunds
  BY <1>1, FundsSame DEF poolVars
<1>5. Bonuses!Forget(l)
  BY <1>1, <1>2, <1>3, <1>4, BooksOfOne DEF Bonuses!Forget, SameShare, poolVars
<1> QED
  BY <1>5 DEF Bonuses!PoolNext

LEMMA BooksQuiet ==
    ASSUME UNCHANGED poolVars, \A m \in Locks : SameShare(m) /\ SameBonus(m)
    PROVE  UNCHANGED Bonuses!poolState
<1>1. PoolFunds' = PoolFunds
  BY FundsSame DEF poolVars
<1> QED
  BY <1>1, UnseenStep DEF Unseen, poolVars

LEMMA BooksLockStep ==
    ASSUME TypeInv, TypeInv', BoostInv, CleanSlate, PoolSolvent, PoolSolvent',
           NEW l \in Locks, LockStep(l)
    PROVE  Bonuses!PoolNext \/ UNCHANGED Bonuses!poolState
<1> DEFINE Seen == Bonuses!PoolNext \/ UNCHANGED Bonuses!poolState
<1>1. OnlyBooksOf(l)
  BY OthersBooks
<1>2. ASSUME MigrateLockToCustodial(l) \/ \E unlock \in UnlockTimes : ExtendLock(l, unlock)
      PROVE  Seen
  <2>1. lock \in [Locks -> LockRecord]
    BY DEF TypeInv, TypeOK
  <2>2. SameShare(l) /\ SameBonus(l) /\ UNCHANGED poolVars
    <3>1. CASE MigrateLockToCustodial(l)
      BY <2>1, <3>1 DEF MigrateLockToCustodial, Migrated, LockRecord, SameShare, SameBonus
    <3>2. CASE \E unlock \in UnlockTimes : ExtendLock(l, unlock)
      BY <2>1, <3>2 DEF ExtendLock, LockRecord, SameShare, SameBonus
    <3> QED
      BY <1>2, <3>1, <3>2
  <2>3. \A m \in Locks : SameShare(m) /\ SameBonus(m)
    BY <1>1, <2>2 DEF OnlyBooksOf, SameShare, SameBonus
  <2> QED
    BY <2>2, <2>3, BooksQuiet
<1>3. /\ (\E mode \in Modes, amount \in Amounts, unlock \in UnlockTimes,
             withPool \in BOOLEAN : CreateLockIn(l, mode, amount, unlock, withPool)) => Seen
      /\ (\E amount \in Amounts, withPool \in BOOLEAN : TopUp(l, amount, withPool)) => Seen
      /\ (\E withPool \in BOOLEAN : Release(l, withPool)) => Seen
  BY <1>1, BooksCreate, BooksTopUp, BooksRelease
<1>4. /\ (\E withPool \in BOOLEAN : ClaimSol(l, withPool)) => Seen
      /\ (\E withPool \in BOOLEAN : ClaimTokens(l, withPool)) => Seen
      /\ CloseWithdrawn(l) => Seen
  BY <1>1, BooksClaimSol, BooksClaimTokens, BooksClose
<1> HIDE DEF Seen
<1>5. Seen
  BY <1>2, <1>3, <1>4, LockStepCases
<1> QED
  BY <1>5 DEF Seen

LEMMA BooksPoolStep ==
    ASSUME TypeInv, TypeInv', BoostInv, CleanSlate, PoolSolvent, PoolSolvent', PoolStep
    PROVE  Bonuses!PoolNext \/ UNCHANGED Bonuses!poolState
<1> DEFINE Seen == Bonuses!PoolNext \/ UNCHANGED Bonuses!poolState
<1>1. /\ pool \in PoolRecord /\ poolLamports \in Nat /\ poolTokens \in Nat
      /\ PoolReserve \in Nat /\ PoolFunds \in Nat /\ PoolFunds' \in Nat
      /\ FundSizes \subseteq Nat
  BY LimitAssumption, ArgumentAssumption, FundsOf, FundsNext DEF TypeInv, TypeOK
<1>2. BoostedOf' = BoostedOf /\ EarnedOf' = EarnedOf
  BY PoolStepLeaves DEF BoostedOf, EarnedOf
<1>3. ASSUME NEW pays_sol \in PoolKinds, NEW capacity \in Capacities,
             NEW duration \in MinDurations, NEW bps \in BonusRates,
             CreateBoostPool(pays_sol, capacity, duration, bps)
      PROVE  Seen
  <2>1. /\ ~pool.exists /\ pool.enrolled = 0 /\ pool.total_bonus_paid = 0
        /\ poolLamports = 0 /\ poolTokens = 0
    BY <1>3 DEF CreateBoostPool, BoostInv, CleanSlate, FreshPool
  <2>2. /\ pool'.exists /\ pool'.enrolled = 0 /\ pool'.total_bonus_paid = 0
        /\ pool'.exists = TRUE /\ poolLamports' = PoolReserve /\ poolTokens' = 0
    BY <1>1, <1>3, <2>1 DEF CreateBoostPool
  <2>3. PoolFunds = 0 /\ PoolFunds' = 0
    <3>1. PoolFunds' = IF pool'.pays_sol THEN SaturatingSub(PoolReserve, PoolReserve) ELSE 0
      BY <2>2 DEF PoolFunds
    <3> QED
      BY <1>1, <2>1, <3>1 DEF PoolFunds, SaturatingSub
  <2>4. Bonuses!Open(pool'.capacity)
    BY <1>2, <2>1, <2>2, <2>3 DEF Bonuses!Open
  <2> QED
    BY <2>4 DEF Bonuses!PoolNext
<1>4. ASSUME NEW authority \in Admins, NEW capacity \in Capacities,
             NEW duration \in MinDurations, NEW bps \in BonusRates,
             NEW active \in ActiveArgs,
             UpdateBoostPool(authority, capacity, duration, bps, active)
      PROVE  Seen
  <2>1. /\ pool.exists /\ pool'.exists = pool.exists /\ pool'.enrolled = pool.enrolled
        /\ pool'.pays_sol = pool.pays_sol /\ pool'.total_bonus_paid = pool.total_bonus_paid
        /\ poolLamports' = poolLamports /\ poolTokens' = poolTokens
    BY <1>1, <1>4 DEF UpdateBoostPool, PoolRecord
  <2>2. PoolFunds' = PoolFunds
    BY <2>1, FundsSame
  <2>3. Bonuses!Resize(pool'.capacity)
    BY <1>2, <2>1, <2>2 DEF Bonuses!Resize
  <2> QED
    BY <2>3 DEF Bonuses!PoolNext
<1>5. ASSUME NEW n \in Nat, n > 0, pool.exists, pool' = pool, PoolFunds' = PoolFunds + n
      PROVE  Seen
  <2>1. PoolFunds' = PoolFunds + n
    BY <1>1, <1>5
  <2>2. Bonuses!Fund(n)
    BY <1>2, <1>5, <2>1 DEF Bonuses!Fund
  <2>3. PoolFunds' - PoolFunds = n
    BY <1>1, <2>1
  <2>4. Bonuses!Fund(PoolFunds' - PoolFunds)
    BY <2>2, <2>3
  <2> QED
    BY <2>4 DEF Bonuses!PoolNext
<1>6. ASSUME NEW n \in Nat, n > 0, pool.exists, pool' = pool, PoolFunds' = PoolFunds + (-n)
      PROVE  Seen
  <2>1. PoolFunds' = PoolFunds - n /\ n <= PoolFunds
    BY <1>1, <1>6
  <2>2. Bonuses!Drain(n)
    BY <1>2, <1>6, <2>1 DEF Bonuses!Drain
  <2>3. PoolFunds - PoolFunds' = n
    BY <1>1, <2>1
  <2>4. Bonuses!Drain(PoolFunds - PoolFunds')
    BY <2>2, <2>3
  <2> QED
    BY <2>4 DEF Bonuses!PoolNext
<1>7. ASSUME pool' = pool, PoolFunds' = PoolFunds PROVE Seen
  <2>1. UNCHANGED Bonuses!poolState
    BY <1>2, <1>7 DEF Bonuses!poolState
  <2> QED
    BY <2>1
<1> HIDE DEF Seen
<1>8. /\ pool' = pool => pool'.exists = pool.exists /\ pool'.pays_sol = pool.pays_sol
      /\ \A n \in FundSizes : n \in Int /\ -n \in Int
  <2>1. pool' = pool => pool'.exists = pool.exists /\ pool'.pays_sol = pool.pays_sol
    BY Zenon
  <2>2. \A n \in FundSizes : n \in Int /\ -n \in Int
    BY <1>1
  <2> QED
    BY <2>1, <2>2
<1>9. ASSUME NEW funder \in Admins, NEW n \in FundSizes, FundBoostPool(funder, n)
      PROVE  Seen
  <2>1. /\ n \in Nat /\ n > 0 /\ pool.exists /\ pool' = pool
        /\ poolLamports' = poolLamports + n /\ poolTokens' = poolTokens
    BY <1>1, <1>9 DEF FundBoostPool
  <2>2. CASE pool.pays_sol
    <3>1. PoolFunds' = PoolFunds + n
      BY <1>8, <2>1, <2>2, FundsMove
    <3> QED
      BY <1>5, <2>1, <3>1
  <2>3. CASE ~pool.pays_sol
    BY <1>7, <2>1, <2>3 DEF PoolFunds
  <2> QED
    BY <2>2, <2>3
<1>10. ASSUME NEW funder \in Admins, NEW n \in FundSizes, FundPoolTokens(funder, n)
      PROVE  Seen
  <2>1. /\ n \in Nat /\ n > 0 /\ pool.exists /\ pool' = pool
        /\ poolTokens' = poolTokens + n /\ poolLamports' = poolLamports
    BY <1>1, <1>10 DEF FundPoolTokens
  <2>2. CASE ~pool.pays_sol
    <3>1. PoolFunds' = PoolFunds + n
      BY <1>8, <2>1, <2>2, FundsMove
    <3> QED
      BY <1>5, <2>1, <3>1
  <2>3. CASE pool.pays_sol
    BY <1>7, <2>1, <2>3 DEF PoolFunds
  <2> QED
    BY <2>2, <2>3
<1>11. ASSUME NEW n \in FundSizes, WithdrawBoostPool(n) PROVE Seen
  <2>1. /\ n \in Nat /\ n > 0 /\ pool.exists /\ pool' = pool
        /\ poolLamports' = poolLamports + (-n) /\ poolTokens' = poolTokens
    BY <1>1, <1>11 DEF WithdrawBoostPool
  <2>2. CASE pool.pays_sol
    <3>1. PoolFunds' = PoolFunds + (-n)
      BY <1>8, <2>1, <2>2, FundsMove
    <3> QED
      BY <1>6, <2>1, <3>1
  <2>3. CASE ~pool.pays_sol
    BY <1>7, <2>1, <2>3 DEF PoolFunds
  <2> QED
    BY <2>2, <2>3
<1>12. ASSUME NEW n \in FundSizes, WithdrawBoostPoolTokens(n) PROVE Seen
  <2>1. /\ n \in Nat /\ n > 0 /\ pool.exists /\ pool' = pool /\ ~pool.pays_sol
        /\ poolTokens' = poolTokens + (-n) /\ poolLamports' = poolLamports
    BY <1>1, <1>12 DEF WithdrawBoostPoolTokens
  <2> QED
    <3>1. PoolFunds' = PoolFunds + (-n)
      BY <1>8, <2>1, FundsMove
    <3> QED
      BY <1>6, <2>1, <3>1
<1>13. Seen
  BY <1>3, <1>4, <1>9, <1>10, <1>11, <1>12 DEF PoolStep
<1> QED
  BY <1>13 DEF Seen

LEMMA BooksStep ==
    ASSUME TypeInv, TypeInv', BoostInv, CleanSlate, PoolSolvent, PoolSolvent', [Next]_vars
    PROVE  Bonuses!PoolNext \/ UNCHANGED Bonuses!poolState
<1>1. CASE ConfigStep \/ WorldStep \/ UNCHANGED vars
  <2>1. UNCHANGED poolVars /\ lock' = lock
    BY <1>1 DEF vars, ConfigStep, Initialize, UpdateConfig, SetCustodyAuthority,
                WorldStep, Tick, DistributeSol, DistributeTokens, DonateLockedMint,
                CollectWithheldTax
  <2>2. \A m \in Locks : SameShare(m) /\ SameBonus(m)
    BY <2>1 DEF SameShare, SameBonus
  <2> QED
    BY <2>1, <2>2, BooksQuiet
<1> QED
  BY <1>1, BooksLockStep, BooksPoolStep DEF Next

LEMMA BooksStart == Init => Bonuses!Start
<1> SUFFICES ASSUME Init PROVE Bonuses!Start
  OBVIOUS
<1>1. lock = [l \in Locks |-> NullLock] /\ pool.exists = FALSE
      /\ pool.capacity = 0 /\ pool.enrolled = 0 /\ pool.total_bonus_paid = 0
  BY DEF Init
<1>2. BoostedOf = [l \in Locks |-> 0]
  BY <1>1 DEF BoostedOf, NullLock
<1>3. EarnedOf = [l \in Locks |-> 0]
  BY <1>1 DEF EarnedOf, NullLock
<1>4. PoolFunds = 0
  BY <1>1 DEF PoolFunds
<1> QED
  BY <1>1, <1>2, <1>3, <1>4 DEF Bonuses!Start

\* enroll_boost, the claims with a bonus, withdraw with and without the pool, close and
\* the pool's own instructions keep the books of the pool: capacity is never given away
\* twice, and every bonus comes out of free funds, goes to an enrolled lock and is
\* counted once with each.
THEOREM ImplementsBonusPool == Spec => KeepsPoolBooks
<1>1. Init => Bonuses!Start
  BY BooksStart
<1>2. Spec => []TypeInv
  BY TypeInit, TypeStep, PTL DEF Spec
<1>3. TypeInv /\ TypeInv' /\ BoostInv /\ CleanSlate /\ PoolSolvent /\ PoolSolvent'
         /\ [Next]_vars => [Bonuses!PoolNext]_(Bonuses!poolState)
  BY BooksStep
<1> QED
  BY <1>1, <1>2, <1>3, BoostAlways, SlateAlways, PoolStaysSolvent, PTL
  DEF Spec, KeepsPoolBooks, Bonuses!PoolSpec

-----------------------------------------------------------------------------
(***************************************************************************)
(* The ledger of the transactions.  An instruction is accepted only with a *)
(* config, and one about a lock is possible only if the lock exists: the   *)
(* invariant is that there is no lock before there is a config.            *)
(***************************************************************************)
ConfigFirst == live # {} => config.initialized

Entry(stage, key) == [stage |-> stage, auth |-> key]

Book(c, a, p, f) == [config |-> c, attested |-> a, pool |-> p, locks |-> f]

EntriesOf == [l \in Locks |-> Entry(StageOf(l), VaultKeyOf(l))]

LEMMA LedgerIs ==
    /\ LedgerOf = Book(config.initialized, AttestedOf, PoolKindOf, EntriesOf)
    /\ LedgerOf' = Book(config'.initialized, AttestedOf', PoolKindOf', EntriesOf')
BY DEF LedgerOf, Book, EntriesOf, Entry

LEMMA BookFields ==
    ASSUME NEW c, NEW a, NEW p, NEW f
    PROVE  /\ Book(c, a, p, f).config = c /\ Book(c, a, p, f).attested = a
           /\ Book(c, a, p, f).pool = p /\ Book(c, a, p, f).locks = f
BY DEF Book

LEMMA EntryFields ==
    ASSUME NEW stage, NEW key
    PROVE  /\ Entry(stage, key).stage = stage /\ Entry(stage, key).auth = key
           /\ \A new : [Entry(stage, key) EXCEPT !.stage = new] = Entry(new, key)
           /\ \A new : [Entry(stage, key) EXCEPT !.auth = new] = Entry(stage, new)
BY DEF Entry

\* What the ledger shows of the protocol, and of a lock, stays as it is.
SameProtocol ==
    config'.initialized = config.initialized /\ AttestedOf' = AttestedOf /\ PoolKindOf' = PoolKindOf

SameEntry(m) == StageOf(m)' = StageOf(m) /\ VaultKeyOf(m)' = VaultKeyOf(m)

OnlyEntry(l) == SameProtocol /\ \A m \in Locks : m # l => SameEntry(m)

LEMMA EntriesSame ==
    ASSUME \A m \in Locks : SameEntry(m) PROVE EntriesOf' = EntriesOf
BY DEF EntriesOf, SameEntry

LEMMA LedgerSame ==
    ASSUME SameProtocol, \A m \in Locks : SameEntry(m) PROVE LedgerOf' = LedgerOf
BY LedgerIs, EntriesSame DEF SameProtocol

LEMMA EntriesMove ==
    ASSUME NEW l \in Locks, \A m \in Locks : m # l => SameEntry(m),
           NEW k, k = Entry(StageOf(l)', VaultKeyOf(l)')
    PROVE  EntriesOf' = [EntriesOf EXCEPT ![l] = k]
BY DEF EntriesOf, SameEntry

LEMMA LedgerMove ==
    ASSUME NEW l \in Locks, OnlyEntry(l), NEW k, k = Entry(StageOf(l)', VaultKeyOf(l)')
    PROVE  LedgerOf' = [LedgerOf EXCEPT !.locks = [LedgerOf.locks EXCEPT ![l] = k]]
<1>1. PICK f : f = [EntriesOf EXCEPT ![l] = k]
  OBVIOUS
<1>2. PICK c, a, p : c = config.initialized /\ a = AttestedOf /\ p = PoolKindOf
  OBVIOUS
<1>3. LedgerOf = Book(c, a, p, EntriesOf)
  BY <1>2, LedgerIs
<1>4. LedgerOf' = Book(c, a, p, f)
  <2>1. EntriesOf' = f
    BY <1>1, EntriesMove DEF OnlyEntry
  <2> QED
    BY <1>2, <2>1, LedgerIs DEF OnlyEntry, SameProtocol
<1>5. PICK led : led = LedgerOf
  OBVIOUS
<1>6. [led EXCEPT !.locks = f] = Book(c, a, p, f)
  BY <1>3, <1>5 DEF Book
<1>7. led.locks = EntriesOf
  BY <1>3, <1>5, BookFields
<1> QED
  BY <1>1, <1>4, <1>5, <1>6, <1>7

LEMMA LedgerLock ==
    ASSUME NEW l \in Locks
    PROVE  LedgerOf.locks[l] = Entry(StageOf(l), VaultKeyOf(l))
BY LedgerIs, BookFields DEF EntriesOf

(***************************************************************************)
(* The instructions that the ledger knows, one by one.                     *)
(***************************************************************************)
LEMMA LockInstructionIs ==
    ASSUME NEW name, NEW l, NEW ix, ix = Accounts!LockInstruction(name, l, ServiceKey)
    PROVE  /\ ix.name = name /\ ix.lock = l /\ ~ix.pool /\ ~ix.poolTokens
           /\ ix.auth = Address!VaultAuthorityAt(l)
           /\ ix.holder = Address!HolderOf(ServiceKey, l)
           /\ ix.attester = Address!AuthorityOf(ServiceKey)
BY DEF Accounts!LockInstruction, Accounts!Blank, Accounts!VaultAuthorityAt, Accounts!HolderOf,
       Accounts!AuthorityOf, Address!VaultAuthorityAt, Address!HolderOf, Address!AuthorityOf

LEMMA ProtocolInstructionIs ==
    ASSUME NEW name, NEW s, NEW tokens, NEW ix,
           ix = Accounts!ProtocolInstruction(name, s, tokens)
    PROVE  /\ ix.name = name /\ ~ix.pool /\ ix.poolTokens = tokens
           /\ ix.attester = Address!AuthorityOf(s)
BY DEF Accounts!ProtocolInstruction, Accounts!Blank, Accounts!AuthorityOf, Address!AuthorityOf

LEMMA TakesLock ==
    ASSUME NEW name \in Accounts!LockNames, NEW l \in Locks,
           NEW ix, ix = Accounts!LockInstruction(name, l, ServiceKey),
           Accounts!Accepts(ix, LedgerOf), LedgerOf' = Accounts!Effect(ix, LedgerOf)
    PROVE  Accounts!LedgerNext
<1>1. Accounts!Take(ix)
  BY DEF Accounts!Take
<1>2. ServiceKey \in CustodyKeys
  BY AddressAssumption
<1> QED
  BY <1>1, <1>2 DEF Accounts!LedgerNext

LEMMA TakesProtocol ==
    ASSUME NEW name \in Accounts!ProtocolNames, NEW s \in CustodyKeys, NEW tokens \in BOOLEAN,
           NEW ix, ix = Accounts!ProtocolInstruction(name, s, tokens),
           Accounts!Accepts(ix, LedgerOf), LedgerOf' = Accounts!Effect(ix, LedgerOf)
    PROVE  Accounts!LedgerNext
<1>1. Accounts!Take(ix)
  BY DEF Accounts!Take
<1> QED
  BY <1>1 DEF Accounts!LedgerNext

LEMMA TakesEntry ==
    ASSUME NEW name \in Accounts!LockNames, NEW l \in Locks, OnlyEntry(l),
           NEW ix, ix = Accounts!LockInstruction(name, l, ServiceKey),
           Accounts!Accepts(ix, LedgerOf),
           NEW k, k = Entry(StageOf(l)', VaultKeyOf(l)'),
           Accounts!Effect(ix, LedgerOf)
               = [LedgerOf EXCEPT !.locks = [LedgerOf.locks EXCEPT ![l] = k]]
    PROVE  Accounts!LedgerNext
<1>1. LedgerOf' = Accounts!Effect(ix, LedgerOf)
  BY LedgerMove
<1> QED
  BY <1>1, TakesLock

LEMMA ConfigSeen == ASSUME config.initialized PROVE LedgerOf.config
BY DEF LedgerOf

LEMMA AttestedSeen ==
    /\ LedgerOf.attested = AttestedOf
    /\ custody = ServiceKey =>
          AttestedOf = Address!AuthorityOf(ServiceKey) /\ AttestedOf # Accounts!Program
<1>1. LedgerOf.attested = AttestedOf
  BY LedgerIs, BookFields
<1>2. NoKey # ServiceKey
  BY AddressAssumption
<1>3. Address!AuthorityOf(ServiceKey) # Accounts!Program
  BY DEF Address!AuthorityOf, Accounts!Program
<1> QED
  BY <1>1, <1>2, <1>3 DEF AttestedOf

LEMMA OwnerOfVault ==
    ASSUME NEW l \in Locks, StageOf(l) # "free", NEW ix, ix.lock = l,
           ix.auth = Address!VaultAuthorityAt(l), ix.holder = Address!HolderOf(ServiceKey, l),
           IF ix.name \in {"withdrawCustodial", "closeLockCustodial"}
           THEN VaultKeyOf(l) = ix.holder
           ELSE ix.name \in {"withdraw", "closeLock"} /\ VaultKeyOf(l) = ix.auth
    PROVE  Accounts!OwnsVault(ix, LedgerOf)
<1>1. LedgerOf.locks[l] = Entry(StageOf(l), VaultKeyOf(l))
  BY LedgerLock
<1>2. Accounts!LockExists(ix, LedgerOf) /\ Accounts!LockOf(ix, LedgerOf).auth = VaultKeyOf(l)
  BY <1>1, EntryFields DEF Accounts!LockExists, Accounts!LockOf
<1>3. Accounts!VaultAuthorityAt(ix.lock) = ix.auth
  BY DEF Accounts!VaultAuthorityAt, Address!VaultAuthorityAt
<1> QED
  BY <1>2, <1>3 DEF Accounts!OwnsVault, Accounts!OwnsByHolder, Accounts!OwnsByAddress,
                    Accounts!Custodial

LEMMA TakesCreate ==
    ASSUME NEW l \in Locks, OnlyEntry(l), config.initialized,
           StageOf(l) = "free", StageOf(l)' = "locked",
           VaultKeyOf(l)' = Address!VaultAuthorityAt(l)
    PROVE  Accounts!LedgerNext
<1>1. PICK ix : ix = Accounts!LockInstruction("createLock", l, ServiceKey)
  OBVIOUS
<1>2. /\ ix.name = "createLock" /\ ix.lock = l /\ ~ix.pool
      /\ ix.auth = Address!VaultAuthorityAt(l)
  BY <1>1, LockInstructionIs
<1>3. Accounts!Accepts(ix, LedgerOf)
  BY <1>2, ConfigSeen, LedgerLock, EntryFields
  DEF Accounts!Accepts, Accounts!PoolExists, Accounts!LockOf
<1>4. PICK k : k = Entry("locked", ix.auth)
  OBVIOUS
<1>5. Accounts!Effect(ix, LedgerOf)
          = [LedgerOf EXCEPT !.locks = [LedgerOf.locks EXCEPT ![l] = k]]
  BY <1>2, <1>4 DEF Accounts!Effect, Entry, Accounts!VaultOwner, Accounts!Custodial
<1>6. k = Entry(StageOf(l)', VaultKeyOf(l)')
  BY <1>2, <1>4
<1> QED
  BY <1>1, <1>3, <1>5, <1>6, TakesEntry DEF Accounts!LockNames

LEMMA TakesCreateCustodial ==
    ASSUME NEW l \in Locks, OnlyEntry(l), config.initialized, custody = ServiceKey,
           StageOf(l) = "free", StageOf(l)' = "locked",
           VaultKeyOf(l)' = Address!HolderOf(ServiceKey, l)
    PROVE  Accounts!LedgerNext
<1>1. PICK ix : ix = Accounts!LockInstruction("createLockCustodial", l, ServiceKey)
  OBVIOUS
<1>2. /\ ix.name = "createLockCustodial" /\ ix.lock = l /\ ~ix.pool
      /\ ix.holder = Address!HolderOf(ServiceKey, l)
      /\ ix.attester = Address!AuthorityOf(ServiceKey)
  BY <1>1, LockInstructionIs
<1>3. Accounts!Attested(ix, LedgerOf)
  BY <1>2, AttestedSeen DEF Accounts!Attested, Accounts!Nobody
<1>4. Accounts!Accepts(ix, LedgerOf)
  BY <1>2, <1>3, ConfigSeen, LedgerLock, EntryFields
  DEF Accounts!Accepts, Accounts!PoolExists, Accounts!LockOf
<1>5. PICK k : k = Entry("locked", ix.holder)
  OBVIOUS
<1>6. Accounts!Effect(ix, LedgerOf)
          = [LedgerOf EXCEPT !.locks = [LedgerOf.locks EXCEPT ![l] = k]]
  BY <1>2, <1>5 DEF Accounts!Effect, Entry, Accounts!VaultOwner, Accounts!Custodial
<1>7. k = Entry(StageOf(l)', VaultKeyOf(l)')
  BY <1>2, <1>5
<1> QED
  BY <1>1, <1>4, <1>6, <1>7, TakesEntry DEF Accounts!LockNames

LEMMA TakesExtend ==
    ASSUME NEW l \in Locks, OnlyEntry(l), config.initialized,
           StageOf(l) \in {"locked", "matured"}, StageOf(l)' = "locked",
           VaultKeyOf(l)' = VaultKeyOf(l)
    PROVE  Accounts!LedgerNext
<1>1. PICK ix : ix = Accounts!LockInstruction("extendLock", l, ServiceKey)
  OBVIOUS
<1>2. ix.name = "extendLock" /\ ix.lock = l /\ ~ix.pool
  BY <1>1, LockInstructionIs
<1>3. LedgerOf.locks[l] = Entry(StageOf(l), VaultKeyOf(l))
  BY LedgerLock
<1>4. Accounts!Accepts(ix, LedgerOf)
  BY <1>2, <1>3, ConfigSeen, EntryFields
  DEF Accounts!Accepts, Accounts!PoolExists, Accounts!NotWithdrawn, Accounts!LockOf
<1>5. PICK k : k = [LedgerOf.locks[l] EXCEPT !.stage = "locked"]
  OBVIOUS
<1>6. Accounts!Effect(ix, LedgerOf)
          = [LedgerOf EXCEPT !.locks = [LedgerOf.locks EXCEPT ![l] = k]]
  BY <1>2, <1>5 DEF Accounts!Effect
<1>7. k = Entry(StageOf(l)', VaultKeyOf(l)')
  BY <1>3, <1>5 DEF Entry
<1> QED
  BY <1>1, <1>4, <1>6, <1>7, TakesEntry DEF Accounts!LockNames

\* The vault's key is the one that the trustless, or the custodial, instruction names.
LEMMA TakesWithdraw ==
    ASSUME NEW l \in Locks, OnlyEntry(l), config.initialized,
           StageOf(l) = "matured", StageOf(l)' = "withdrawn",
           VaultKeyOf(l)' = VaultKeyOf(l),
           VaultKeyOf(l) \in {Address!VaultAuthorityAt(l), Address!HolderOf(ServiceKey, l)}
    PROVE  Accounts!LedgerNext
<1>1. PICK name : name = IF VaultKeyOf(l) = Address!VaultAuthorityAt(l) THEN "withdraw"
                                                                     ELSE "withdrawCustodial"
  OBVIOUS
<1>2. PICK ix : ix = Accounts!LockInstruction(name, l, ServiceKey)
  OBVIOUS
<1>3. /\ ix.name = name /\ ix.lock = l /\ ~ix.pool
      /\ ix.auth = Address!VaultAuthorityAt(l) /\ ix.holder = Address!HolderOf(ServiceKey, l)
  BY <1>2, LockInstructionIs
<1>4. LedgerOf.locks[l] = Entry(StageOf(l), VaultKeyOf(l))
  BY LedgerLock
<1>5. Accounts!OwnsVault(ix, LedgerOf)
  BY <1>1, <1>3, <1>4, EntryFields, OwnerOfVault
<1>6. Accounts!Accepts(ix, LedgerOf)
  BY <1>1, <1>3, <1>4, <1>5, ConfigSeen, EntryFields
  DEF Accounts!Accepts, Accounts!PoolExists, Accounts!LockOf
<1>7. PICK k : k = [LedgerOf.locks[l] EXCEPT !.stage = "withdrawn"]
  OBVIOUS
<1>8. Accounts!Effect(ix, LedgerOf)
          = [LedgerOf EXCEPT !.locks = [LedgerOf.locks EXCEPT ![l] = k]]
  BY <1>1, <1>3, <1>7 DEF Accounts!Effect
<1>9. k = Entry(StageOf(l)', VaultKeyOf(l)')
  BY <1>4, <1>7 DEF Entry
<1>10. name \in Accounts!LockNames
  BY <1>1 DEF Accounts!LockNames
<1> QED
  BY <1>2, <1>6, <1>8, <1>9, <1>10, TakesEntry

LEMMA TakesClose ==
    ASSUME NEW l \in Locks, OnlyEntry(l), config.initialized,
           StageOf(l) = "withdrawn", StageOf(l)' = "free", VaultKeyOf(l)' = Address!Program,
           VaultKeyOf(l) \in {Address!VaultAuthorityAt(l), Address!HolderOf(ServiceKey, l)}
    PROVE  Accounts!LedgerNext
<1>1. PICK name : name = IF VaultKeyOf(l) = Address!VaultAuthorityAt(l) THEN "closeLock"
                                                                     ELSE "closeLockCustodial"
  OBVIOUS
<1>2. PICK ix : ix = Accounts!LockInstruction(name, l, ServiceKey)
  OBVIOUS
<1>3. /\ ix.name = name /\ ix.lock = l /\ ~ix.pool
      /\ ix.auth = Address!VaultAuthorityAt(l) /\ ix.holder = Address!HolderOf(ServiceKey, l)
  BY <1>2, LockInstructionIs
<1>4. LedgerOf.locks[l] = Entry(StageOf(l), VaultKeyOf(l))
  BY LedgerLock
<1>5. Accounts!OwnsVault(ix, LedgerOf)
  BY <1>1, <1>3, <1>4, EntryFields, OwnerOfVault
<1>6. Accounts!Accepts(ix, LedgerOf)
  BY <1>1, <1>3, <1>4, <1>5, ConfigSeen, EntryFields
  DEF Accounts!Accepts, Accounts!PoolExists, Accounts!LockOf
<1>7. PICK k : k = Entry("free", Address!Program)
  OBVIOUS
<1>8. Accounts!Effect(ix, LedgerOf)
          = [LedgerOf EXCEPT !.locks = [LedgerOf.locks EXCEPT ![l] = k]]
  BY <1>1, <1>3, <1>7 DEF Accounts!Effect, Entry, Accounts!Nobody, Accounts!Program,
                          Address!Program
<1>9. k = Entry(StageOf(l)', VaultKeyOf(l)')
  BY <1>7
<1>10. name \in Accounts!LockNames
  BY <1>1 DEF Accounts!LockNames
<1> QED
  BY <1>2, <1>6, <1>8, <1>9, <1>10, TakesEntry

LEMMA TakesMigrate ==
    ASSUME NEW l \in Locks, OnlyEntry(l), config.initialized, custody = ServiceKey,
           StageOf(l) \in {"locked", "matured"}, StageOf(l)' = StageOf(l),
           VaultKeyOf(l) = Address!VaultAuthorityAt(l),
           VaultKeyOf(l)' = Address!HolderOf(ServiceKey, l)
    PROVE  Accounts!LedgerNext
<1>1. PICK ix : ix = Accounts!LockInstruction("migrateLockToCustodial", l, ServiceKey)
  OBVIOUS
<1>2. /\ ix.name = "migrateLockToCustodial" /\ ix.lock = l /\ ~ix.pool
      /\ ix.auth = Address!VaultAuthorityAt(l) /\ ix.holder = Address!HolderOf(ServiceKey, l)
      /\ ix.attester = Address!AuthorityOf(ServiceKey)
  BY <1>1, LockInstructionIs
<1>3. LedgerOf.locks[l] = Entry(StageOf(l), VaultKeyOf(l))
  BY LedgerLock
<1>4. Accounts!Attested(ix, LedgerOf)
  BY <1>2, AttestedSeen DEF Accounts!Attested, Accounts!Nobody
<1>5. Accounts!OwnsByAddress(ix, LedgerOf) /\ Accounts!NotWithdrawn(ix, LedgerOf)
  BY <1>2, <1>3, EntryFields
  DEF Accounts!OwnsByAddress, Accounts!NotWithdrawn, Accounts!LockExists, Accounts!LockOf,
      Accounts!VaultAuthorityAt, Address!VaultAuthorityAt
<1>6. Accounts!Accepts(ix, LedgerOf)
  BY <1>2, <1>4, <1>5, ConfigSeen DEF Accounts!Accepts, Accounts!PoolExists
<1>7. PICK k : k = [LedgerOf.locks[l] EXCEPT !.auth = ix.holder]
  OBVIOUS
<1>8. Accounts!Effect(ix, LedgerOf)
          = [LedgerOf EXCEPT !.locks = [LedgerOf.locks EXCEPT ![l] = k]]
  BY <1>2, <1>7 DEF Accounts!Effect
<1>9. k = Entry(StageOf(l)', VaultKeyOf(l)')
  BY <1>2, <1>3, <1>7 DEF Entry
<1> QED
  BY <1>1, <1>6, <1>8, <1>9, TakesEntry DEF Accounts!LockNames

LEMMA TakesInitialize ==
    ASSUME ~config.initialized, config'.initialized = TRUE, AttestedOf' = AttestedOf,
           PoolKindOf' = PoolKindOf, \A m \in Locks : SameEntry(m)
    PROVE  Accounts!LedgerNext
<1>0. PICK tokens \in BOOLEAN : TRUE
  OBVIOUS
<1>1. PICK ix : ix = Accounts!ProtocolInstruction("initialize", ServiceKey, tokens)
  OBVIOUS
<1>2. ix.name = "initialize" /\ ~ix.pool
  BY <1>1, ProtocolInstructionIs
<1>3. ~LedgerOf.config
  BY DEF LedgerOf
<1>4. Accounts!Accepts(ix, LedgerOf)
  BY <1>2, <1>3 DEF Accounts!Accepts, Accounts!PoolExists
<1>5. PICK c, a, p : c = config.initialized /\ a = AttestedOf /\ p = PoolKindOf
  OBVIOUS
<1>6. PICK led : led = LedgerOf
  OBVIOUS
<1>a. PICK yes : yes = TRUE
  OBVIOUS
<1>7. led = Book(c, a, p, EntriesOf) /\ LedgerOf' = Book(yes, a, p, EntriesOf)
  BY <1>5, <1>6, <1>a, LedgerIs, EntriesSame
<1>8. [led EXCEPT !.config = yes] = Book(yes, a, p, EntriesOf)
  BY <1>7 DEF Book
<1>9. Accounts!Effect(ix, led) = [led EXCEPT !.config = yes]
  BY <1>2, <1>a DEF Accounts!Effect
<1>10. LedgerOf' = Accounts!Effect(ix, LedgerOf)
  BY <1>6, <1>7, <1>8, <1>9
<1> QED
  BY <1>1, <1>4, <1>10, AddressAssumption, TakesProtocol DEF Accounts!ProtocolNames

LEMMA TakesSetCustody ==
    ASSUME NEW key \in CustodyKeys, config.initialized,
           config'.initialized = config.initialized, PoolKindOf' = PoolKindOf,
           AttestedOf' = Address!AuthorityOf(key), \A m \in Locks : SameEntry(m)
    PROVE  Accounts!LedgerNext
<1>0. PICK tokens \in BOOLEAN : TRUE
  OBVIOUS
<1>1. PICK ix : ix = Accounts!ProtocolInstruction("setCustodyAuthority", key, tokens)
  OBVIOUS
<1>2. ix.name = "setCustodyAuthority" /\ ~ix.pool /\ ix.attester = Address!AuthorityOf(key)
  BY <1>1, ProtocolInstructionIs
<1>3. Accounts!Accepts(ix, LedgerOf)
  BY <1>2, ConfigSeen DEF Accounts!Accepts, Accounts!PoolExists
<1>4. PICK c, a, p : c = config.initialized /\ a = AttestedOf /\ p = PoolKindOf
  OBVIOUS
<1>5. PICK led : led = LedgerOf
  OBVIOUS
<1>6. led = Book(c, a, p, EntriesOf) /\ LedgerOf' = Book(c, ix.attester, p, EntriesOf)
  BY <1>2, <1>4, <1>5, LedgerIs, EntriesSame
<1>7. [led EXCEPT !.attested = ix.attester] = Book(c, ix.attester, p, EntriesOf)
  BY <1>6 DEF Book
<1>8. Accounts!Effect(ix, led) = [led EXCEPT !.attested = ix.attester]
  BY <1>2 DEF Accounts!Effect
<1>9. LedgerOf' = Accounts!Effect(ix, LedgerOf)
  BY <1>5, <1>6, <1>7, <1>8
<1> QED
  BY <1>1, <1>3, <1>9, TakesProtocol DEF Accounts!ProtocolNames

LEMMA TakesCreatePool ==
    ASSUME config.initialized, config'.initialized = config.initialized,
           AttestedOf' = AttestedOf, PoolKindOf = "none", PoolKindOf' \in {"sol", "token"},
           \A m \in Locks : SameEntry(m)
    PROVE  Accounts!LedgerNext
<1>1. PICK tokens \in BOOLEAN : tokens <=> PoolKindOf' = "token"
  OBVIOUS
<1>2. PICK ix : ix = Accounts!ProtocolInstruction("createBoostPool", ServiceKey, tokens)
  OBVIOUS
<1>3. ix.name = "createBoostPool" /\ ~ix.pool /\ ix.poolTokens = tokens
  BY <1>2, ProtocolInstructionIs
<1>4. LedgerOf.pool = "none"
  BY DEF LedgerOf
<1>5. Accounts!Accepts(ix, LedgerOf)
  BY <1>3, <1>4, ConfigSeen DEF Accounts!Accepts, Accounts!PoolExists
<1>6. PICK c, a, p : c = config.initialized /\ a = AttestedOf /\ p = PoolKindOf'
  OBVIOUS
<1>7. PICK led : led = LedgerOf
  OBVIOUS
<1>8. led = Book(c, a, "none", EntriesOf) /\ LedgerOf' = Book(c, a, p, EntriesOf)
  BY <1>6, <1>7, LedgerIs, EntriesSame
<1>9. [led EXCEPT !.pool = p] = Book(c, a, p, EntriesOf)
  BY <1>8 DEF Book
<1>10. p = IF ix.poolTokens THEN "token" ELSE "sol"
  BY <1>1, <1>3, <1>6
<1>11. Accounts!Effect(ix, led) = [led EXCEPT !.pool = p]
  BY <1>3, <1>10 DEF Accounts!Effect
<1>12. LedgerOf' = Accounts!Effect(ix, LedgerOf)
  BY <1>7, <1>8, <1>9, <1>11
<1> QED
  BY <1>2, <1>5, <1>12, AddressAssumption, TakesProtocol DEF Accounts!ProtocolNames

LEMMA Matures ==
    ASSUME SameProtocol, NEW locks \in SUBSET Locks,
           \A m \in Locks : VaultKeyOf(m)' = VaultKeyOf(m),
           \A m \in Locks : m \notin locks => StageOf(m)' = StageOf(m),
           \A m \in locks : StageOf(m) = "locked" /\ StageOf(m)' = "matured"
    PROVE  Accounts!LedgerNext
<1>1. PICK c, a, p : c = config.initialized /\ a = AttestedOf /\ p = PoolKindOf
  OBVIOUS
<1>2. PICK led : led = LedgerOf
  OBVIOUS
<1>3. led = Book(c, a, p, EntriesOf) /\ LedgerOf' = Book(c, a, p, EntriesOf')
  BY <1>1, <1>2, LedgerIs DEF SameProtocol
<1>4. \A m \in Locks : Accounts!At(m) = Entry(StageOf(m), VaultKeyOf(m))
  BY LedgerLock DEF Accounts!At
<1>5. PICK f : f = [l \in Locks |-> IF l \in locks
                                    THEN [Accounts!At(l) EXCEPT !.stage = "matured"]
                                    ELSE Accounts!At(l)]
  OBVIOUS
<1>6. ASSUME NEW m \in Locks PROVE f[m] = Entry(StageOf(m)', VaultKeyOf(m)')
  <2>1. CASE m \in locks
    BY <1>4, <1>5, <2>1, EntryFields
  <2>2. CASE m \notin locks
    BY <1>4, <1>5, <2>2
  <2> QED
    BY <2>1, <2>2
<1>7. EntriesOf' = f
  BY <1>5, <1>6 DEF EntriesOf
<1>8. [led EXCEPT !.locks = f] = Book(c, a, p, f)
  BY <1>3 DEF Book
<1>9. \A m \in locks : Accounts!At(m).stage = "locked"
  BY <1>4, EntryFields
<1>10. Accounts!Mature(locks)
  BY <1>2, <1>3, <1>5, <1>7, <1>8, <1>9 DEF Accounts!Mature
<1> QED
  BY <1>10 DEF Accounts!LedgerNext

(***************************************************************************)
(* The steps of the program, as the ledger sees them.                      *)
(***************************************************************************)
LEMMA LockStepFrame ==
    ASSUME TypeInv, NEW l \in Locks, LockStep(l)
    PROVE  now' = now /\ custody' = custody /\ config'.initialized = config.initialized
<1> DEFINE Kept ==
      now' = now /\ custody' = custody /\ config'.initialized = config.initialized
<1>1. config \in ConfigRecord
  BY DEF TypeInv, TypeOK
<1>2. ASSUME NEW mode \in Modes, NEW amount \in Amounts, NEW unlock \in UnlockTimes,
             NEW withPool \in BOOLEAN, CreateLockIn(l, mode, amount, unlock, withPool)
      PROVE  Kept
  BY <1>1, <1>2 DEF CreateLockIn, ConfigRecord
<1>3. ASSUME NEW withPool \in BOOLEAN, ClaimSol(l, withPool) PROVE Kept
  BY <1>1, <1>3 DEF ClaimSol, ConfigRecord
<1>4. ASSUME MigrateLockToCustodial(l) PROVE Kept
  BY <1>1, <1>4 DEF MigrateLockToCustodial, ConfigRecord
<1>5. config' = config => config'.initialized = config.initialized
  BY Zenon
<1>6. ASSUME NEW amount \in Amounts, NEW withPool \in BOOLEAN, TopUp(l, amount, withPool)
      PROVE  Kept
  BY <1>5, <1>6 DEF TopUp
<1>7. ASSUME NEW unlock \in UnlockTimes, ExtendLock(l, unlock) PROVE Kept
  BY <1>5, <1>7 DEF ExtendLock
<1>8. ASSUME NEW withPool \in BOOLEAN, Release(l, withPool) PROVE Kept
  BY <1>5, <1>8 DEF Release
<1>9. ASSUME NEW withPool \in BOOLEAN, ClaimTokens(l, withPool) PROVE Kept
  BY <1>5, <1>9 DEF ClaimTokens
<1>10. ASSUME CloseWithdrawn(l) PROVE Kept
  BY <1>5, <1>10 DEF CloseWithdrawn
<1> HIDE DEF Kept
<1>11. Kept
  BY <1>2, <1>3, <1>4, <1>6, <1>7, <1>8, <1>9, <1>10, LockStepCases
<1> QED
  BY <1>11 DEF Kept

LEMMA OthersEntries ==
    ASSUME TypeInv, NEW l \in Locks, LockStep(l)
    PROVE  OnlyEntry(l)
<1>1. AttestedOf' = AttestedOf
  BY LockStepFrame DEF AttestedOf
<1>2. PoolKindOf' = PoolKindOf
  BY PoolKept DEF PoolKindOf
<1>3. ASSUME NEW m \in Locks, m # l PROVE SameEntry(m)
  <2>1. lock'[m] = lock[m] /\ (m \in live' <=> m \in live) /\ now' = now
    BY <1>3, OtherLocksKept, LockStepFrame
  <2> QED
    BY <2>1 DEF SameEntry, StageOf, VaultKeyOf, Expired
<1> QED
  BY <1>1, <1>2, <1>3, LockStepFrame DEF OnlyEntry, SameProtocol

\* Stage and key of a live lock.
LEMMA LiveEntry ==
    ASSUME NEW l \in Locks, l \in live
    PROVE  /\ StageOf(l) = IF lock[l].withdrawn THEN "withdrawn"
                           ELSE IF now >= lock[l].unlock_ts THEN "matured" ELSE "locked"
           /\ VaultKeyOf(l) = IF lock[l].custodial THEN Address!HolderOf(ServiceKey, l)
                              ELSE Address!VaultAuthorityAt(l)
BY DEF StageOf, VaultKeyOf, Expired

LEMMA LiveEntryNext ==
    ASSUME NEW l \in Locks, l \in live'
    PROVE  /\ StageOf(l)' = IF lock'[l].withdrawn THEN "withdrawn"
                            ELSE IF now' >= lock'[l].unlock_ts THEN "matured" ELSE "locked"
           /\ VaultKeyOf(l)' = IF lock'[l].custodial THEN Address!HolderOf(ServiceKey, l)
                               ELSE Address!VaultAuthorityAt(l)
BY DEF StageOf, VaultKeyOf, Expired

Accounted == Accounts!LedgerNext \/ LedgerOf' = LedgerOf

LEMMA AccountsQuiet ==
    ASSUME NEW l \in Locks, OnlyEntry(l), SameEntry(l) PROVE Accounted
BY LedgerSame DEF OnlyEntry, Accounted

LEMMA AccountsCreate ==
    ASSUME TypeInv, NEW l \in Locks, OnlyEntry(l), NEW mode \in Modes, NEW amount \in Amounts,
           NEW unlock \in UnlockTimes, NEW withPool \in BOOLEAN,
           CreateLockIn(l, mode, amount, unlock, withPool),
           mode = "holder" => custody = ServiceKey
    PROVE  Accounted
<1>1. lock \in [Locks -> LockRecord] /\ now \in Nat /\ unlock \in Int
  BY ArgumentAssumption DEF TypeInv, TypeOK
<1>2. PICK r : r = NewLock(mode, amount, unlock, Enrollment(withPool, amount, unlock - now))
  OBVIOUS
<1>3. /\ config.initialized /\ l \notin live /\ live' = live \cup {l} /\ now' = now
      /\ unlock > now /\ lock' = [lock EXCEPT ![l] = r]
  BY <1>2 DEF CreateLockIn, ValidTerm
<1>4. ~r.withdrawn /\ r.unlock_ts = unlock /\ (r.custodial <=> mode = "holder")
  BY <1>2 DEF NewLock
<1>5. lock'[l] = r /\ l \in live'
  BY <1>1, <1>3
<1>6. StageOf(l) = "free" /\ StageOf(l)' = "locked"
  <2>1. StageOf(l) = "free"
    BY <1>3 DEF StageOf
  <2> QED
    BY <1>1, <1>3, <1>4, <1>5, <2>1, LiveEntryNext
<1>7. CASE mode = "holder"
  <2>1. VaultKeyOf(l)' = Address!HolderOf(ServiceKey, l)
    BY <1>4, <1>5, <1>7, LiveEntryNext
  <2> QED
    BY <1>3, <1>6, <1>7, <2>1, TakesCreateCustodial DEF Accounted
<1>8. CASE mode # "holder"
  <2>1. VaultKeyOf(l)' = Address!VaultAuthorityAt(l)
    BY <1>4, <1>5, <1>8, LiveEntryNext
  <2> QED
    BY <1>3, <1>6, <2>1, TakesCreate DEF Accounted
<1> QED
  BY <1>7, <1>8

LEMMA AccountsExtend ==
    ASSUME TypeInv, ConfigFirst, NEW l \in Locks, OnlyEntry(l), NEW unlock \in UnlockTimes,
           ExtendLock(l, unlock)
    PROVE  Accounted
<1>1. lock \in [Locks -> LockRecord] /\ now \in Nat /\ unlock \in Int /\ lock[l].unlock_ts \in Int
  BY ArgumentAssumption DEF TypeInv, TypeOK, LockRecord
<1>2. /\ l \in live /\ ~lock[l].withdrawn /\ live' = live /\ now' = now
      /\ unlock > lock[l].unlock_ts /\ lock' = [lock EXCEPT ![l].unlock_ts = unlock]
  BY DEF ExtendLock, Active, MayExtendTo
<1>3. /\ lock'[l].unlock_ts = unlock /\ lock'[l].withdrawn = lock[l].withdrawn
      /\ lock'[l].custodial = lock[l].custodial
  BY <1>1, <1>2 DEF LockRecord
<1>4. VaultKeyOf(l)' = VaultKeyOf(l)
  BY <1>2, <1>3, LiveEntry, LiveEntryNext
<1>5. StageOf(l) \in {"locked", "matured"}
  BY <1>2, LiveEntry
<1>6. StageOf(l)' = "locked" \/ StageOf(l)' = StageOf(l)
  BY <1>1, <1>2, <1>3, LiveEntry, LiveEntryNext
<1>7. CASE StageOf(l)' = "locked"
  BY <1>2, <1>4, <1>5, <1>7, TakesExtend DEF Accounted, ConfigFirst
<1>8. CASE StageOf(l)' = StageOf(l)
  BY <1>4, <1>8, AccountsQuiet DEF SameEntry
<1> QED
  BY <1>6, <1>7, <1>8

LEMMA AccountsRelease ==
    ASSUME TypeInv, ConfigFirst, NEW l \in Locks, OnlyEntry(l), NEW withPool \in BOOLEAN,
           Release(l, withPool)
    PROVE  Accounted
<1>1. lock \in [Locks -> LockRecord]
  BY DEF TypeInv, TypeOK
<1>2. /\ l \in live /\ ~lock[l].withdrawn /\ now >= lock[l].unlock_ts /\ live' = live
      /\ lock' = [lock EXCEPT ![l].withdrawn = TRUE, ![l].amount = 0, ![l].boosted_amount = 0]
  BY DEF Release, Active, Expired
<1>3. lock'[l].withdrawn /\ lock'[l].custodial = lock[l].custodial
  BY <1>1, <1>2 DEF LockRecord
<1>4. StageOf(l) = "matured" /\ StageOf(l)' = "withdrawn" /\ VaultKeyOf(l)' = VaultKeyOf(l)
  BY <1>2, <1>3, LiveEntry, LiveEntryNext
<1>5. VaultKeyOf(l) \in {Address!VaultAuthorityAt(l), Address!HolderOf(ServiceKey, l)}
  BY <1>2, LiveEntry
<1> QED
  BY <1>2, <1>4, <1>5, TakesWithdraw DEF Accounted, ConfigFirst

LEMMA AccountsClose ==
    ASSUME ConfigFirst, NEW l \in Locks, OnlyEntry(l), CloseWithdrawn(l) PROVE Accounted
<1>1. l \in live /\ lock[l].withdrawn /\ l \notin live'
  BY DEF CloseWithdrawn
<1>2. StageOf(l) = "withdrawn" /\ StageOf(l)' = "free" /\ VaultKeyOf(l)' = Address!Program
  BY <1>1 DEF StageOf, VaultKeyOf
<1>3. VaultKeyOf(l) \in {Address!VaultAuthorityAt(l), Address!HolderOf(ServiceKey, l)}
  BY <1>1, LiveEntry
<1> QED
  BY <1>1, <1>2, <1>3, TakesClose DEF Accounted, ConfigFirst

LEMMA AccountsMigrate ==
    ASSUME TypeInv, ConfigFirst, NEW l \in Locks, OnlyEntry(l), LockStep(l),
           MigrateLockToCustodial(l)
    PROVE  Accounted
<1>1. lock \in [Locks -> LockRecord]
  BY DEF TypeInv, TypeOK
<1>2. PICK r : r = Migrated(lock[l], vault[<<l, "pda">>],
                            RewardPayout(ClaimableSol(<<l, "pda">>)))
  OBVIOUS
<1>3. /\ l \in live /\ ~lock[l].withdrawn /\ ~lock[l].custodial /\ custody = ServiceKey
      /\ live' = live /\ lock' = [lock EXCEPT ![l] = r]
  BY <1>2 DEF MigrateLockToCustodial, Active
<1>4. r.custodial /\ r.withdrawn = lock[l].withdrawn /\ r.unlock_ts = lock[l].unlock_ts
  BY <1>1, <1>2 DEF Migrated, LockRecord
<1>5. lock'[l] = r /\ now' = now
  BY <1>1, <1>3, LockStepFrame
<1>6. /\ StageOf(l) \in {"locked", "matured"} /\ StageOf(l)' = StageOf(l)
      /\ VaultKeyOf(l) = Address!VaultAuthorityAt(l)
      /\ VaultKeyOf(l)' = Address!HolderOf(ServiceKey, l)
  BY <1>3, <1>4, <1>5, LiveEntry, LiveEntryNext
<1> QED
  BY <1>3, <1>6, TakesMigrate DEF Accounted, ConfigFirst

LEMMA AccountsLockStep ==
    ASSUME TypeInv, ConfigFirst, NEW l \in Locks, LockStep(l) PROVE Accounted
<1>1. OnlyEntry(l)
  BY OthersEntries
<1>2. ASSUME NEW amount \in Amounts, NEW unlock \in UnlockTimes, NEW withPool \in BOOLEAN,
             \/ CreateLock(l, amount, unlock, withPool)
             \/ CreateLockCustodial(l, amount, unlock, withPool)
      PROVE  Accounted
  <2>1. "pda" \in Modes /\ "holder" \in Modes /\ "pda" # "holder"
    BY DEF Modes
  <2> QED
    BY <1>1, <1>2, <2>1, AccountsCreate DEF CreateLock, CreateLockCustodial
<1>3. ASSUME NEW withPool \in BOOLEAN,
             \/ \E amount \in Amounts : TopUp(l, amount, withPool)
             \/ ClaimSol(l, withPool) \/ ClaimTokens(l, withPool)
      PROVE  Accounted
  <2> DEFINE Frame ==
        /\ live' = live /\ now' = now
        /\ lock'[l].withdrawn <=> lock[l].withdrawn
        /\ lock'[l].custodial <=> lock[l].custodial
        /\ lock'[l].unlock_ts = lock[l].unlock_ts
  <2>1. lock \in [Locks -> LockRecord]
    BY DEF TypeInv, TypeOK
  <2>2. ASSUME NEW amount \in Amounts, TopUp(l, amount, withPool) PROVE Frame
    BY <2>1, <2>2 DEF TopUp, ToppedUp, LockRecord
  <2>3. ASSUME ClaimSol(l, withPool) PROVE Frame
    BY <2>1, <2>3 DEF ClaimSol, LockRecord
  <2>4. ASSUME ClaimTokens(l, withPool) PROVE Frame
    BY <2>1, <2>4 DEF ClaimTokens, LockRecord
  <2>5. Frame
    BY <1>3, <2>2, <2>3, <2>4
  <2>6. SameEntry(l)
    BY <2>5 DEF SameEntry, StageOf, VaultKeyOf, Expired
  <2> QED
    BY <1>1, <2>6, AccountsQuiet
<1>4. ASSUME NEW withPool \in BOOLEAN, Withdraw(l, withPool) \/ WithdrawCustodial(l, withPool)
      PROVE  Accounted
  BY <1>1, <1>4, AccountsRelease DEF Withdraw, WithdrawCustodial
<1>5. ASSUME NEW withPool \in BOOLEAN,
             \/ ClaimSolRewards(l, withPool) \/ ClaimSolRewardsCustodial(l, withPool)
             \/ ClaimTokenRewards(l, withPool) \/ ClaimTokenRewardsCustodial(l, withPool)
      PROVE  Accounted
  BY <1>3, <1>5 DEF ClaimSolRewards, ClaimSolRewardsCustodial, ClaimTokenRewards,
                    ClaimTokenRewardsCustodial
<1>6. CASE CloseLock(l) \/ CloseLockCustodial(l)
  BY <1>1, <1>6, AccountsClose DEF CloseLock, CloseLockCustodial
<1> QED
  BY <1>1, <1>2, <1>3, <1>4, <1>5, <1>6, AccountsExtend, AccountsMigrate DEF LockStep

\* No lock is looked at, nor the clock: every entry stays.
LEMMA EntriesKept ==
    ASSUME UNCHANGED <<now, live, lock>>
    PROVE  \A m \in Locks : SameEntry(m)
BY DEF SameEntry, StageOf, VaultKeyOf, Expired

LEMMA PoolStepLeavesCustody ==
    ASSUME PoolStep PROVE custody' = custody
<1>1. ASSUME NEW pays_sol \in PoolKinds, NEW capacity \in Capacities,
             NEW duration \in MinDurations, NEW bps \in BonusRates,
             CreateBoostPool(pays_sol, capacity, duration, bps)
      PROVE  custody' = custody
  BY <1>1 DEF CreateBoostPool
<1>2. ASSUME NEW authority \in Admins, NEW capacity \in Capacities,
             NEW duration \in MinDurations, NEW bps \in BonusRates,
             NEW active \in ActiveArgs,
             UpdateBoostPool(authority, capacity, duration, bps, active)
      PROVE  custody' = custody
  BY <1>2 DEF UpdateBoostPool
<1>3. ASSUME NEW funder \in Admins, NEW n \in FundSizes,
             FundBoostPool(funder, n) \/ FundPoolTokens(funder, n)
      PROVE  custody' = custody
  BY <1>3 DEF FundBoostPool, FundPoolTokens
<1>4. ASSUME NEW n \in FundSizes, WithdrawBoostPool(n) \/ WithdrawBoostPoolTokens(n)
      PROVE  custody' = custody
  BY <1>4 DEF WithdrawBoostPool, WithdrawBoostPoolTokens
<1> QED
  BY <1>1, <1>2, <1>3, <1>4, AddressAssumption DEF PoolStep

\* A pool is created of either kind, and keeps it.
LEMMA PoolStepKinds ==
    ASSUME TypeInv, PoolStep
    PROVE  \/ config.initialized /\ PoolKindOf = "none" /\ PoolKindOf' \in {"sol", "token"}
           \/ PoolKindOf' = PoolKindOf
<1> DEFINE Created == /\ config.initialized /\ PoolKindOf = "none"
                      /\ PoolKindOf' \in {"sol", "token"}
           Kept == PoolKindOf' = PoolKindOf
<1>1. ASSUME NEW pays_sol \in PoolKinds, NEW capacity \in Capacities,
             NEW duration \in MinDurations, NEW bps \in BonusRates,
             CreateBoostPool(pays_sol, capacity, duration, bps)
      PROVE  Created
  <2>1. config.initialized /\ ~pool.exists /\ pool'.exists
    BY <1>1 DEF CreateBoostPool
  <2> QED
    BY <2>1 DEF PoolKindOf
<1>2. ASSUME NEW authority \in Admins, NEW capacity \in Capacities,
             NEW duration \in MinDurations, NEW bps \in BonusRates,
             NEW active \in ActiveArgs,
             UpdateBoostPool(authority, capacity, duration, bps, active)
      PROVE  Kept
  <2>1. pool \in PoolRecord
    BY DEF TypeInv, TypeOK
  <2>2. (pool'.exists <=> pool.exists) /\ (pool'.pays_sol <=> pool.pays_sol)
    BY <1>2, <2>1 DEF UpdateBoostPool, PoolRecord
  <2> QED
    BY <2>2 DEF PoolKindOf
<1>3. pool' = pool => Kept
  BY DEF PoolKindOf
<1>4. ASSUME NEW funder \in Admins, NEW n \in FundSizes,
             FundBoostPool(funder, n) \/ FundPoolTokens(funder, n)
      PROVE  Kept
  BY <1>3, <1>4 DEF FundBoostPool, FundPoolTokens
<1>5. ASSUME NEW n \in FundSizes, WithdrawBoostPool(n) \/ WithdrawBoostPoolTokens(n)
      PROVE  Kept
  BY <1>3, <1>5 DEF WithdrawBoostPool, WithdrawBoostPoolTokens
<1> HIDE DEF Created, Kept
<1>6. Created \/ Kept
  BY <1>1, <1>2, <1>4, <1>5, AddressAssumption DEF PoolStep
<1> QED
  BY <1>6 DEF Created, Kept

LEMMA AccountsPoolStep ==
    ASSUME TypeInv, PoolStep PROVE Accounted
<1>1. \A m \in Locks : SameEntry(m)
  BY PoolStepLeaves, EntriesKept
<1>2. config' = config /\ custody' = custody
  BY PoolStepLeaves, PoolStepLeavesCustody
<1>3. config'.initialized = config.initialized
  BY <1>2, Zenon
<1>4. AttestedOf' = AttestedOf
  BY <1>2 DEF AttestedOf
<1>5. CASE PoolKindOf' = PoolKindOf
  BY <1>1, <1>3, <1>4, <1>5, LedgerSame DEF SameProtocol, Accounted
<1>6. CASE config.initialized /\ PoolKindOf = "none" /\ PoolKindOf' \in {"sol", "token"}
  BY <1>1, <1>3, <1>4, <1>6, TakesCreatePool DEF Accounted
<1> QED
  BY <1>5, <1>6, PoolStepKinds

LEMMA AccountsConfigStep ==
    ASSUME TypeInv, ConfigStep PROVE Accounted
<1>1. \A m \in Locks : SameEntry(m)
  BY ConfigStepLeaves, EntriesKept
<1>2. PoolKindOf' = PoolKindOf
  BY ConfigStepLeaves DEF PoolKindOf
<1>3. config \in ConfigRecord
  BY DEF TypeInv, TypeOK
<1>4. custody' = custody => AttestedOf' = AttestedOf
  BY DEF AttestedOf
<1>5. ASSUME NEW admin \in Admins, NEW treasury \in Treasuries, NEW fee \in LockFees,
             NEW bps \in FeeRates, Initialize(admin, treasury, fee, bps)
      PROVE  Accounted
  <2>1. ~config.initialized /\ config'.initialized = TRUE /\ custody' = custody
    BY <1>3, <1>5 DEF Initialize, ConfigRecord
  <2> QED
    BY <1>1, <1>2, <1>4, <2>1, TakesInitialize DEF Accounted
<1>6. ASSUME NEW admin \in Admins, NEW treasury \in Treasuries, NEW fee \in LockFees,
             NEW bps \in FeeRates, NEW paused \in PauseArgs,
             UpdateConfig(admin, treasury, fee, bps, paused)
      PROVE  Accounted
  <2>1. config'.initialized = config.initialized /\ custody' = custody
    BY <1>3, <1>6 DEF UpdateConfig, ConfigRecord
  <2> QED
    BY <1>1, <1>2, <1>4, <2>1, LedgerSame DEF SameProtocol, Accounted
<1>7. ASSUME NEW key \in CustodyKeys, SetCustodyAuthority(key) PROVE Accounted
  <2>1. config.initialized /\ config' = config /\ custody' = key /\ key # NoKey
    BY <1>7, AddressAssumption DEF SetCustodyAuthority
  <2>2. config'.initialized = config.initialized
    BY <2>1, Zenon
  <2>3. AttestedOf' = Address!AuthorityOf(key)
    BY <2>1 DEF AttestedOf
  <2> QED
    BY <1>1, <1>2, <2>1, <2>2, <2>3, TakesSetCustody DEF Accounted
<1> QED
  BY <1>5, <1>6, <1>7 DEF ConfigStep

\* A second passes: the locks whose unlock time it is mature.
LEMMA AccountsTick ==
    ASSUME TypeInv, Tick, SameProtocol PROVE Accounted
<1> DEFINE due == {m \in Locks : StageOf(m) = "locked" /\ now + 1 >= lock[m].unlock_ts}
<1>1. /\ now \in Nat /\ now' = now + 1 /\ live' = live /\ lock' = lock
      /\ \A m \in Locks : lock[m].unlock_ts \in Int
  BY DEF Tick, TypeInv, TypeOK, LockRecord
<1>2. ASSUME NEW m \in Locks PROVE VaultKeyOf(m)' = VaultKeyOf(m)
  BY <1>1 DEF VaultKeyOf
<1>3. ASSUME NEW m \in Locks, m \notin due PROVE StageOf(m)' = StageOf(m)
  BY <1>1, <1>3 DEF StageOf, Expired
<1>4. ASSUME NEW m \in due PROVE StageOf(m) = "locked" /\ StageOf(m)' = "matured"
  BY <1>1, <1>4 DEF StageOf, Expired
<1>5. due \in SUBSET Locks
  OBVIOUS
<1> HIDE DEF due
<1> QED
  BY <1>2, <1>3, <1>4, <1>5, Matures DEF Accounted

LEMMA WorldStepLeavesCustody ==
    ASSUME WorldStep PROVE custody' = custody /\ (Tick \/ now' = now)
<1>1. Tick => custody' = custody
  BY DEF Tick
<1>2. ASSUME NEW a \in Auth, NEW n \in RewardSizes, DistributeSol(a, n) \/ DistributeTokens(a, n)
      PROVE  custody' = custody /\ now' = now
  BY <1>2 DEF DistributeSol, DistributeTokens
<1>3. ASSUME NEW a \in Auth, NEW n \in DonationSizes, DonateLockedMint(a, n)
      PROVE  custody' = custody /\ now' = now
  BY <1>3 DEF DonateLockedMint
<1>4. ASSUME NEW a \in Auth, CollectWithheldTax(a)
      PROVE  custody' = custody /\ now' = now
  BY <1>4 DEF CollectWithheldTax
<1> QED
  BY <1>1, <1>2, <1>3, <1>4 DEF WorldStep

LEMMA SameProtocolIf ==
    ASSUME UNCHANGED <<config, custody, pool>> PROVE SameProtocol
<1>1. config'.initialized = config.initialized
  BY Zenon
<1>2. AttestedOf' = AttestedOf
  BY DEF AttestedOf
<1>3. PoolKindOf' = PoolKindOf
  BY DEF PoolKindOf
<1> QED
  BY <1>1, <1>2, <1>3 DEF SameProtocol

LEMMA AccountsStep ==
    ASSUME TypeInv, ConfigFirst, [Next]_vars PROVE Accounted
<1>1. ASSUME WorldStep PROVE Accounted
  <2>1. SameProtocol
    BY <1>1, WorldStepLeaves, WorldStepLeavesCustody, SameProtocolIf
  <2>2. CASE Tick
    BY <2>1, <2>2, AccountsTick
  <2>3. CASE now' = now
    BY <1>1, <2>1, <2>3, WorldStepLeaves, EntriesKept, LedgerSame DEF Accounted
  <2> QED
    BY <1>1, <2>2, <2>3, WorldStepLeavesCustody
<1>2. ASSUME UNCHANGED vars PROVE Accounted
  <2>1. UNCHANGED <<now, live, lock, config, custody, pool>>
    BY <1>2 DEF vars, poolVars
  <2> QED
    BY <2>1, SameProtocolIf, EntriesKept, LedgerSame DEF Accounted
<1> QED
  BY <1>1, <1>2, AccountsLockStep, AccountsPoolStep, AccountsConfigStep DEF Next

LEMMA AccountsStart == Init => Accounts!LedgerInit
<1> SUFFICES ASSUME Init PROVE Accounts!LedgerInit
  OBVIOUS
<1>1. AttestedOf = Address!Program
  BY DEF Init, AttestedOf
<1>2. PoolKindOf = "none"
  BY DEF Init, PoolKindOf
<1>3. \A m \in Locks : StageOf(m) = "free" /\ VaultKeyOf(m) = Address!Program
  BY DEF Init, StageOf, VaultKeyOf
<1>4. config.initialized = FALSE
  BY DEF Init
<1>5. LedgerOf = [config |-> FALSE, attested |-> Address!Program, pool |-> "none",
                  locks |-> [m \in Locks |-> [stage |-> "free", auth |-> Address!Program]]]
  BY <1>1, <1>2, <1>3, <1>4 DEF LedgerOf
<1> QED
  BY <1>5 DEF Accounts!LedgerInit, Accounts!Nobody, Accounts!Program, Address!Program

\* A lock is created only when there is a config, and a config is never taken back.
LEMMA ConfigFirstAlways == Spec => []ConfigFirst
<1>1. Init => ConfigFirst
  BY DEF Init, ConfigFirst
<1>2. ASSUME TypeInv, ConfigFirst, [Next]_vars PROVE ConfigFirst'
  <2>1. ASSUME NEW l \in Locks, LockStep(l) PROVE ConfigFirst'
    <3>1. config'.initialized = config.initialized
      BY <1>2, <2>1, LockStepFrame
    <3>2. config.initialized \/ l \notin live'
      <4> DEFINE Fine == config.initialized \/ l \notin live'
      <4>1. ASSUME NEW mode \in Modes, NEW amount \in Amounts, NEW unlock \in UnlockTimes,
                   NEW withPool \in BOOLEAN, CreateLockIn(l, mode, amount, unlock, withPool)
            PROVE  Fine
        BY <4>1 DEF CreateLockIn
      <4>2. ASSUME l \in live PROVE Fine
        BY <1>2, <4>2 DEF ConfigFirst
      <4>3. /\ \A amount \in Amounts, withPool \in BOOLEAN :
                  TopUp(l, amount, withPool) => l \in live
            /\ \A unlock \in UnlockTimes : ExtendLock(l, unlock) => l \in live
            /\ \A withPool \in BOOLEAN :
                  /\ Release(l, withPool) => l \in live
                  /\ ClaimSol(l, withPool) => l \in live
                  /\ ClaimTokens(l, withPool) => l \in live
            /\ CloseWithdrawn(l) => l \in live
            /\ MigrateLockToCustodial(l) => l \in live
        BY DEF TopUp, ExtendLock, Release, ClaimSol, ClaimTokens, CloseWithdrawn,
               MigrateLockToCustodial, Active
      <4> HIDE DEF Fine
      <4>4. Fine
        BY <2>1, <4>1, <4>2, <4>3, LockStepCases
      <4> QED
        BY <4>4 DEF Fine
    <3>3. live' \subseteq Locks /\ \A m \in Locks : m # l => (m \in live' <=> m \in live)
      BY <1>2, <2>1, OtherLocksKept, TypeStep DEF TypeInv, TypeOK
    <3> QED
      BY <1>2, <3>1, <3>2, <3>3 DEF ConfigFirst
  <2>2. ASSUME live' = live, config.initialized => config'.initialized PROVE ConfigFirst'
    BY <1>2, <2>2 DEF ConfigFirst
  <2>3. ASSUME ConfigStep PROVE config.initialized => config'.initialized
    <3>1. config \in ConfigRecord
      BY <1>2 DEF TypeInv, TypeOK
    <3>2. ASSUME NEW admin \in Admins, NEW treasury \in Treasuries, NEW fee \in LockFees,
                 NEW bps \in FeeRates, Initialize(admin, treasury, fee, bps)
          PROVE  config.initialized => config'.initialized
      BY <3>2 DEF Initialize
    <3>3. ASSUME NEW admin \in Admins, NEW treasury \in Treasuries, NEW fee \in LockFees,
                 NEW bps \in FeeRates, NEW paused \in PauseArgs,
                 UpdateConfig(admin, treasury, fee, bps, paused)
          PROVE  config.initialized => config'.initialized
      BY <3>1, <3>3 DEF UpdateConfig, ConfigRecord
    <3>4. ASSUME NEW key \in CustodyKeys, SetCustodyAuthority(key)
          PROVE  config.initialized => config'.initialized
      <4>1. config' = config
        BY <3>4 DEF SetCustodyAuthority
      <4> QED
        BY <4>1, Zenon
    <3> QED
      BY <2>3, <3>2, <3>3, <3>4 DEF ConfigStep
  <2> QED
    BY <1>2, <2>1, <2>2, <2>3, ConfigStepLeaves, PoolStepLeaves, WorldStepLeaves DEF Next, vars
<1>3. Spec => []TypeInv
  BY TypeInit, TypeStep, PTL DEF Spec
<1> QED
  BY <1>1, <1>2, <1>3, PTL DEF Spec

\* Every instruction of lib.rs is one that the ledger of the transactions accepts, with
\* the effect it has there, and nothing but the passing of unlock times changes a stage
\* otherwise: what is proved of transactions executed against the ledger, the program
\* with its balances keeps.
THEOREM ImplementsLedger == Spec => KeepsLedger
<1>1. Init => Accounts!LedgerInit
  BY AccountsStart
<1>2. Spec => []TypeInv
  BY TypeInit, TypeStep, PTL DEF Spec
<1>3. TypeInv /\ ConfigFirst /\ [Next]_vars => [Accounts!LedgerNext]_LedgerOf
  BY AccountsStep DEF Accounted
<1> QED
  BY <1>1, <1>2, <1>3, ConfigFirstAlways, PTL DEF Spec, KeepsLedger, Accounts!LedgerSpec

=============================================================================
