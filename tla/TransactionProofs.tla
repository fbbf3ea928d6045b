-------------------------- MODULE TransactionProofs --------------------------
(***************************************************************************)
(* Invariants of the transactions, for any number of locks and of master   *)
(* secrets, and whatever a caller of the service puts together.            *)
(***************************************************************************)
EXTENDS TransactionProperties, TLAPS

(***************************************************************************)
(* The interface: privileges and signatures, instruction by instruction.   *)
(***************************************************************************)
LEMMA ListedWritable ==
    ASSUME NEW ix, NEW a, W(a) \in AccountsOf(ix) \/ WS(a) \in AccountsOf(ix)
    PROVE  a \in Writable(ix)
BY DEF Writable, Keys, W, WS

\* The accounts a handler changes are writable in the interface, for every instruction.
LEMMA WritesListed ==
    ASSUME NEW ix
    PROVE  Writes(ix) \subseteq Writable(ix)
<1> USE ListedWritable DEF AccountsOf, Writes
<1>1. CASE ix.name = "initialize"
  BY <1>1 DEF InitializeAccounts
<1>2. CASE ix.name = "updateConfig"
  BY <1>2 DEF UpdateConfigAccounts
<1>3. CASE ix.name = "setCustodyAuthority"
  BY <1>3 DEF SetCustodyAuthorityAccounts
<1>4. CASE ix.name = "createLock"
  BY <1>4 DEF CreateLockAccounts, CreateWrites, PoolWrites, VaultOwner, Custodial, Pool, Optional
<1>5. CASE ix.name = "createLockCustodial"
  BY <1>5 DEF CreateLockCustodialAccounts, CreateWrites, PoolWrites, VaultOwner, Custodial, Pool,
              Optional
<1>6. CASE ix.name = "topUp"
  BY <1>6 DEF TopUpAccounts, TopUpWrites, PoolWrites, Pool, Optional
<1>7. CASE ix.name = "extendLock"
  BY <1>7 DEF ExtendLockAccounts
<1>8. CASE ix.name = "withdraw"
  BY <1>8 DEF WithdrawAccounts, WithdrawWrites, PoolWrites, VaultOwner, Custodial, Pool, Optional
<1>9. CASE ix.name = "withdrawCustodial"
  BY <1>9 DEF WithdrawCustodialAccounts, WithdrawWrites, PoolWrites, VaultOwner, Custodial, Pool,
              Optional
<1>10. CASE ix.name = "claimSolRewards"
  BY <1>10 DEF ClaimSolRewardsAccounts, ClaimSolWrites, PoolWrites, VaultOwner, Custodial, Pool,
               Optional
<1>11. CASE ix.name = "claimSolRewardsCustodial"
  BY <1>11 DEF ClaimSolRewardsCustodialAccounts, ClaimSolWrites, PoolWrites, VaultOwner,
               Custodial, Pool, Optional
<1>12. CASE ix.name = "claimTokenRewards"
  BY <1>12 DEF ClaimTokenRewardsAccounts, ClaimTokenWrites, VaultOwner, Custodial, Pool,
               PoolTokens, Optional
<1>13. CASE ix.name = "claimTokenRewardsCustodial"
  BY <1>13 DEF ClaimTokenRewardsCustodialAccounts, ClaimTokenWrites, VaultOwner, Custodial, Pool,
               PoolTokens, Optional
<1>14. CASE ix.name = "closeLock"
  BY <1>14 DEF CloseLockAccounts, CloseWrites, VaultOwner, Custodial
<1>15. CASE ix.name = "closeLockCustodial"
  BY <1>15 DEF CloseLockCustodialAccounts, CloseWrites, VaultOwner, Custodial
<1>16. CASE ix.name = "migrateLockToCustodial"
  BY <1>16 DEF MigrateLockToCustodialAccounts, MigrateWrites
<1>17. CASE ix.name = "createBoostPool"
  BY <1>17 DEF CreateBoostPoolAccounts
<1>18. CASE ix.name = "updateBoostPool"
  BY <1>18 DEF UpdateBoostPoolAccounts
<1>19. CASE ix.name = "fundBoostPool"
  BY <1>19 DEF FundBoostPoolAccounts
<1>20. CASE ix.name = "withdrawBoostPool"
  BY <1>20 DEF WithdrawBoostPoolAccounts
<1>21. CASE ix.name = "withdrawBoostPoolTokens"
  BY <1>21 DEF WithdrawBoostPoolTokensAccounts, PoolTokenWrites
<1>22. CASE ix.name \notin Names \ {"spl"}
  BY <1>22 DEF Names, LockNames, ProtocolNames, SplAccounts, PoolTokenWrites
<1> QED
  BY <1>1, <1>2, <1>3, <1>4, <1>5, <1>6, <1>7, <1>8, <1>9, <1>10, <1>11, <1>12, <1>13, <1>14,
     <1>15, <1>16, <1>17, <1>18, <1>19, <1>20, <1>21, <1>22 DEF Names, LockNames, ProtocolNames

LEMMA Privileges ==
    /\ \A a : R(a).signer = FALSE /\ W(a).signer = FALSE
    /\ \A a : S(a).signer = TRUE /\ S(a).at = a
    /\ \A a : WS(a).signer = TRUE /\ WS(a).at = a
    /\ \A ix : Pool(ix).signer = FALSE /\ PoolTokens(ix).signer = FALSE
    /\ \A m \in Programs : m.signer = FALSE
BY DEF R, W, S, WS, Pool, PoolTokens, Optional, Programs

SignersAre(A, T) ==
    /\ \A m \in A : m.signer = FALSE \/ (m.signer = TRUE /\ m.at \in T)
    /\ \A a \in T : S(a) \in A \/ WS(a) \in A

LEMMA ListedSigners ==
    ASSUME NEW ix, NEW T, SignersAre(AccountsOf(ix), T)
    PROVE  T \subseteq Signers(ix) /\ (ix.extra = {} => Signers(ix) = T)
<1>1. T \subseteq Signers(ix)
  BY Privileges DEF Signers, Keys, SignersAre
<1>2. ASSUME ix.extra = {} PROVE Signers(ix) \subseteq T
  <2>1. Keys(ix) = AccountsOf(ix)
    BY <1>2 DEF Keys
  <2> QED
    BY <2>1 DEF Signers, SignersAre
<1> QED
  BY <1>1, <1>2

\* The interface asks for the signatures that the program demands; others are asked for only
\* by appended accounts.
LEMMA SignersDemanded ==
    ASSUME NEW ix, ix.name \in Names
    PROVE  /\ DemandedSigners(ix) \subseteq Signers(ix)
           /\ ix.extra = {} => Signers(ix) = DemandedSigners(ix)
<1> SUFFICES SignersAre(AccountsOf(ix), DemandedSigners(ix))
  BY ListedSigners
<1>1. CASE ix.name = "initialize"
  <2>1. AccountsOf(ix) = InitializeAccounts(ix) /\ DemandedSigners(ix) = {ix.wallet}
    BY <1>1 DEF AccountsOf, DemandedSigners, Custodial
  <2>2. SignersAre(InitializeAccounts(ix), {ix.wallet})
    BY Privileges DEF InitializeAccounts, SignersAre
  <2> QED
    BY <2>1, <2>2
<1>2. CASE ix.name = "updateConfig"
  <2>1. AccountsOf(ix) = UpdateConfigAccounts(ix) /\ DemandedSigners(ix) = {ix.wallet}
    BY <1>2 DEF AccountsOf, DemandedSigners, Custodial
  <2>2. SignersAre(UpdateConfigAccounts(ix), {ix.wallet})
    BY Privileges DEF UpdateConfigAccounts, SignersAre
  <2> QED
    BY <2>1, <2>2
<1>3. CASE ix.name = "setCustodyAuthority"
  <2>1. AccountsOf(ix) = SetCustodyAuthorityAccounts(ix) /\ DemandedSigners(ix) = {ix.wallet}
    BY <1>3 DEF AccountsOf, DemandedSigners, Custodial
  <2>2. SignersAre(SetCustodyAuthorityAccounts(ix), {ix.wallet})
    BY Privileges DEF SetCustodyAuthorityAccounts, SignersAre
  <2> QED
    BY <2>1, <2>2
<1>4. CASE ix.name = "createLock"
  <2>1. AccountsOf(ix) = CreateLockAccounts(ix) /\ DemandedSigners(ix) = {ix.wallet}
    BY <1>4 DEF AccountsOf, DemandedSigners, Custodial
  <2>2. SignersAre(CreateLockAccounts(ix), {ix.wallet})
    BY Privileges DEF CreateLockAccounts, SignersAre
  <2> QED
    BY <2>1, <2>2
<1>5. CASE ix.name = "createLockCustodial"
  <2>1. AccountsOf(ix) = CreateLockCustodialAccounts(ix) /\ DemandedSigners(ix) = {ix.wallet, ix.holder, ix.attester}
    BY <1>5 DEF AccountsOf, DemandedSigners, Custodial
  <2>2. SignersAre(CreateLockCustodialAccounts(ix), {ix.wallet, ix.holder, ix.attester})
    BY Privileges DEF CreateLockCustodialAccounts, SignersAre
  <2> QED
    BY <2>1, <2>2
<1>6. CASE ix.name = "topUp"
  <2>1. AccountsOf(ix) = TopUpAccounts(ix) /\ DemandedSigners(ix) = {ix.wallet}
    BY <1>6 DEF AccountsOf, DemandedSigners, Custodial
  <2>2. SignersAre(TopUpAccounts(ix), {ix.wallet})
    BY Privileges DEF TopUpAccounts, SignersAre
  <2> QED
    BY <2>1, <2>2
<1>7. CASE ix.name = "extendLock"
  <2>1. AccountsOf(ix) = ExtendLockAccounts(ix) /\ DemandedSigners(ix) = {ix.wallet}
    BY <1>7 DEF AccountsOf, DemandedSigners, Custodial
  <2>2. SignersAre(ExtendLockAccounts(ix), {ix.wallet})
    BY Privileges DEF ExtendLockAccounts, SignersAre
  <2> QED
    BY <2>1, <2>2
<1>8. CASE ix.name = "withdraw"
  <2>1. AccountsOf(ix) = WithdrawAccounts(ix) /\ DemandedSigners(ix) = {ix.wallet}
    BY <1>8 DEF AccountsOf, DemandedSigners, Custodial
  <2>2. SignersAre(WithdrawAccounts(ix), {ix.wallet})
    BY Privileges DEF WithdrawAccounts, SignersAre
  <2> QED
    BY <2>1, <2>2
<1>9. CASE ix.name = "withdrawCustodial"
  <2>1. AccountsOf(ix) = WithdrawCustodialAccounts(ix) /\ DemandedSigners(ix) = {ix.wallet, ix.holder}
    BY <1>9 DEF AccountsOf, DemandedSigners, Custodial
  <2>2. SignersAre(WithdrawCustodialAccounts(ix), {ix.wallet, ix.holder})
    BY Privileges DEF WithdrawCustodialAccounts, SignersAre
  <2> QED
    BY <2>1, <2>2
<1>10. CASE ix.name = "claimSolRewards"
  <2>1. AccountsOf(ix) = ClaimSolRewardsAccounts(ix) /\ DemandedSigners(ix) = {ix.wallet}
    BY <1>10 DEF AccountsOf, DemandedSigners, Custodial
  <2>2. SignersAre(ClaimSolRewardsAccounts(ix), {ix.wallet})
    BY Privileges DEF ClaimSolRewardsAccounts, SignersAre
  <2> QED
    BY <2>1, <2>2
<1>11. CASE ix.name = "claimSolRewardsCustodial"
  <2>1. AccountsOf(ix) = ClaimSolRewardsCustodialAccounts(ix) /\ DemandedSigners(ix) = {ix.wallet, ix.holder}
    BY <1>11 DEF AccountsOf, DemandedSigners, Custodial
  <2>2. SignersAre(ClaimSolRewardsCustodialAccounts(ix), {ix.wallet, ix.holder})
    BY Privileges DEF ClaimSolRewardsCustodialAccounts, SignersAre
  <2> QED
    BY <2>1, <2>2
<1>12. CASE ix.name = "claimTokenRewards"
  <2>1. AccountsOf(ix) = ClaimTokenRewardsAccounts(ix) /\ DemandedSigners(ix) = {ix.wallet}
    BY <1>12 DEF AccountsOf, DemandedSigners, Custodial
  <2>2. SignersAre(ClaimTokenRewardsAccounts(ix), {ix.wallet})
    BY Privileges DEF ClaimTokenRewardsAccounts, SignersAre
  <2> QED
    BY <2>1, <2>2
<1>13. CASE ix.name = "claimTokenRewardsCustodial"
  <2>1. AccountsOf(ix) = ClaimTokenRewardsCustodialAccounts(ix) /\ DemandedSigners(ix) = {ix.wallet, ix.holder}
    BY <1>13 DEF AccountsOf, DemandedSigners, Custodial
  <2>2. SignersAre(ClaimTokenRewardsCustodialAccounts(ix), {ix.wallet, ix.holder})
    BY Privileges DEF ClaimTokenRewardsCustodialAccounts, SignersAre
  <2> QED
    BY <2>1, <2>2
<1>14. CASE ix.name = "closeLock"
  <2>1. AccountsOf(ix) = CloseLockAccounts(ix) /\ DemandedSigners(ix) = {ix.wallet}
    BY <1>14 DEF AccountsOf, DemandedSigners, Custodial
  <2>2. SignersAre(CloseLockAccounts(ix), {ix.wallet})
    BY Privileges DEF CloseLockAccounts, SignersAre
  <2> QED
    BY <2>1, <2>2
<1>15. CASE ix.name = "closeLockCustodial"
  <2>1. AccountsOf(ix) = CloseLockCustodialAccounts(ix) /\ DemandedSigners(ix) = {ix.wallet, ix.holder}
    BY <1>15 DEF AccountsOf, DemandedSigners, Custodial
  <2>2. SignersAre(CloseLockCustodialAccounts(ix), {ix.wallet, ix.holder})
    BY Privileges DEF CloseLockCustodialAccounts, SignersAre
  <2> QED
    BY <2>1, <2>2
<1>16. CASE ix.name = "migrateLockToCustodial"
  <2>1. AccountsOf(ix) = MigrateLockToCustodialAccounts(ix) /\ DemandedSigners(ix) = {ix.wallet, ix.holder, ix.attester}
    BY <1>16 DEF AccountsOf, DemandedSigners, Custodial
  <2>2. SignersAre(MigrateLockToCustodialAccounts(ix), {ix.wallet, ix.holder, ix.attester})
    BY Privileges DEF MigrateLockToCustodialAccounts, SignersAre
  <2> QED
    BY <2>1, <2>2
<1>17. CASE ix.name = "createBoostPool"
  <2>1. AccountsOf(ix) = CreateBoostPoolAccounts(ix) /\ DemandedSigners(ix) = {ix.wallet}
    BY <1>17 DEF AccountsOf, DemandedSigners, Custodial
  <2>2. SignersAre(CreateBoostPoolAccounts(ix), {ix.wallet})
    BY Privileges DEF CreateBoostPoolAccounts, SignersAre
  <2> QED
    BY <2>1, <2>2
<1>18. CASE ix.name = "updateBoostPool"
  <2>1. AccountsOf(ix) = UpdateBoostPoolAccounts(ix) /\ DemandedSigners(ix) = {ix.wallet}
    BY <1>18 DEF AccountsOf, DemandedSigners, Custodial
  <2>2. SignersAre(UpdateBoostPoolAccounts(ix), {ix.wallet})
    BY Privileges DEF UpdateBoostPoolAccounts, SignersAre
  <2> QED
    BY <2>1, <2>2
<1>19. CASE ix.name = "fundBoostPool"
  <2>1. AccountsOf(ix) = FundBoostPoolAccounts(ix) /\ DemandedSigners(ix) = {ix.wallet}
    BY <1>19 DEF AccountsOf, DemandedSigners, Custodial
  <2>2. SignersAre(FundBoostPoolAccounts(ix), {ix.wallet})
    BY Privileges DEF FundBoostPoolAccounts, SignersAre
  <2> QED
    BY <2>1, <2>2
<1>20. CASE ix.name = "withdrawBoostPool"
  <2>1. AccountsOf(ix) = WithdrawBoostPoolAccounts(ix) /\ DemandedSigners(ix) = {ix.wallet}
    BY <1>20 DEF AccountsOf, DemandedSigners, Custodial
  <2>2. SignersAre(WithdrawBoostPoolAccounts(ix), {ix.wallet})
    BY Privileges DEF WithdrawBoostPoolAccounts, SignersAre
  <2> QED
    BY <2>1, <2>2
<1>21. CASE ix.name = "withdrawBoostPoolTokens"
  <2>1. AccountsOf(ix) = WithdrawBoostPoolTokensAccounts(ix) /\ DemandedSigners(ix) = {ix.wallet}
    BY <1>21 DEF AccountsOf, DemandedSigners, Custodial
  <2>2. SignersAre(WithdrawBoostPoolTokensAccounts(ix), {ix.wallet})
    BY Privileges DEF WithdrawBoostPoolTokensAccounts, SignersAre
  <2> QED
    BY <2>1, <2>2
<1>22. CASE ix.name = "spl"
  <2>1. AccountsOf(ix) = SplAccounts(ix) /\ DemandedSigners(ix) = {ix.wallet}
    BY <1>22 DEF AccountsOf, DemandedSigners, Custodial
  <2>2. SignersAre(SplAccounts(ix), {ix.wallet})
    BY Privileges DEF SplAccounts, SignersAre
  <2> QED
    BY <2>1, <2>2
<1> QED
  BY <1>1, <1>2, <1>3, <1>4, <1>5, <1>6, <1>7, <1>8, <1>9, <1>10, <1>11, <1>12, <1>13, <1>14, <1>15, <1>16, <1>17, <1>18, <1>19, <1>20, <1>21, <1>22 DEF Names, LockNames, ProtocolNames

\* Whatever an instruction passes as optional, no runtime check of its privileges fails.
LEMMA AlwaysPrivileged ==
    ASSUME NEW ix, ix.name \in Names
    PROVE  Privileged(ix)
BY WritesListed, SignersDemanded DEF Privileged

(***************************************************************************)
(* What the builders fill in.                                              *)
(***************************************************************************)
Fields == {"name", "wallet", "lock", "auth", "holder", "attester", "treasury", "pool", "poolTokens",
           "extra"}

Filled(b, name, w, l, auth, holder, attester, treasury) ==
    /\ DOMAIN b = Fields
    /\ b.name = name /\ b.wallet = w /\ b.lock = l /\ b.auth = auth
    /\ b.holder = holder /\ b.attester = attester /\ b.treasury = treasury
    /\ b.extra = {}

LEMMA BlankIs ==
    ASSUME NEW name, NEW w
    PROVE  Filled(Blank(name, w), name, w, NoLock, Nobody, Nobody, Nobody, Nobody)
BY DEF Blank, Fields, Nobody, Filled

LEMMA LockIxIs ==
    ASSUME NEW name, NEW l
    PROVE  Filled(LockIx(name, l), name, Owner, l, Nobody, Nobody, Nobody, Nobody)
<1>1. PICK b : b = Blank(name, Owner)
  OBVIOUS
<1>2. PICK c : c = [b EXCEPT !.lock = l]
  OBVIOUS
<1>3. Filled(b, name, Owner, NoLock, Nobody, Nobody, Nobody, Nobody)
  BY <1>1, BlankIs
<1>4. Filled(c, name, Owner, l, Nobody, Nobody, Nobody, Nobody)
  BY <1>2, <1>3 DEF Filled, Fields
<1> QED
  BY <1>1, <1>2, <1>4 DEF LockIx

LEMMA CreateLockIxIs ==
    ASSUME NEW l, NEW pool
    PROVE  Filled(CreateLockIx(l, pool), "createLock", Owner, l,
                  VaultAuthorityAt(l), Nobody, Nobody, Treasury)
<1>1. PICK b : b = LockIx("createLock", l)
  OBVIOUS
<1>2. PICK c : c = [b EXCEPT !.auth = VaultAuthorityAt(l), !.treasury = Treasury, !.pool = pool]
  OBVIOUS
<1>3. Filled(b, "createLock", Owner, l, Nobody, Nobody, Nobody, Nobody)
  BY <1>1, LockIxIs
<1>4. Filled(c, "createLock", Owner, l,
                  VaultAuthorityAt(l), Nobody, Nobody, Treasury)
  BY <1>2, <1>3 DEF Filled, Fields
<1> QED
  BY <1>1, <1>2, <1>4 DEF CreateLockIx

LEMMA CreateLockCustodialIxIs ==
    ASSUME NEW l, NEW pool, NEW s
    PROVE  Filled(CreateLockCustodialIx(l, pool, s), "createLockCustodial", Owner, l,
                  Nobody, HolderOf(s, l), AuthorityOf(s), Treasury)
<1>1. PICK b : b = LockIx("createLockCustodial", l)
  OBVIOUS
<1>2. PICK c : c = [b EXCEPT !.holder = HolderOf(s, l), !.attester = AuthorityOf(s),
                          !.treasury = Treasury, !.pool = pool]
  OBVIOUS
<1>3. Filled(b, "createLockCustodial", Owner, l, Nobody, Nobody, Nobody, Nobody)
  BY <1>1, LockIxIs
<1>4. Filled(c, "createLockCustodial", Owner, l,
                  Nobody, HolderOf(s, l), AuthorityOf(s), Treasury)
  BY <1>2, <1>3 DEF Filled, Fields
<1> QED
  BY <1>1, <1>2, <1>4 DEF CreateLockCustodialIx

LEMMA MigrateLockIxIs ==
    ASSUME NEW l, NEW s
    PROVE  Filled(MigrateLockIx(l, s), "migrateLockToCustodial", Owner, l,
                  At(l).auth, HolderOf(s, l), AuthorityOf(s), Treasury)
<1>1. PICK b : b = LockIx("migrateLockToCustodial", l)
  OBVIOUS
<1>2. PICK c : c = [b EXCEPT !.auth = At(l).auth, !.treasury = Treasury,
                          !.holder = HolderOf(s, l), !.attester = AuthorityOf(s)]
  OBVIOUS
<1>3. Filled(b, "migrateLockToCustodial", Owner, l, Nobody, Nobody, Nobody, Nobody)
  BY <1>1, LockIxIs
<1>4. Filled(c, "migrateLockToCustodial", Owner, l,
                  At(l).auth, HolderOf(s, l), AuthorityOf(s), Treasury)
  BY <1>2, <1>3 DEF Filled, Fields
<1> QED
  BY <1>1, <1>2, <1>4 DEF MigrateLockIx

LEMMA TopUpIxIs ==
    ASSUME NEW l, NEW pool
    PROVE  Filled(TopUpIx(l, pool), "topUp", Owner, l, At(l).auth, Nobody, Nobody, Nobody)
<1>1. PICK b : b = LockIx("topUp", l)
  OBVIOUS
<1>2. PICK c : c = [b EXCEPT !.auth = At(l).auth, !.pool = pool]
  OBVIOUS
<1>3. Filled(b, "topUp", Owner, l, Nobody, Nobody, Nobody, Nobody)
  BY <1>1, LockIxIs
<1>4. Filled(c, "topUp", Owner, l, At(l).auth, Nobody, Nobody, Nobody)
  BY <1>2, <1>3 DEF Filled, Fields
<1> QED
  BY <1>1, <1>2, <1>4 DEF TopUpIx

ModeFilled(b, trustless, custodial, l, treasury) ==
    IF IsCustodial(l)
    THEN Filled(b, custodial, Owner, l, Nobody, At(l).auth, Nobody, treasury)
    ELSE Filled(b, trustless, Owner, l, At(l).auth, Nobody, Nobody, treasury)

LEMMA ModeIxIs ==
    ASSUME NEW trustless, NEW custodial, NEW l
    PROVE  ModeFilled(ModeIx(trustless, custodial, l), trustless, custodial, l, Nobody)
<1>1. CASE IsCustodial(l)
  <2>1. PICK b : b = LockIx(custodial, l)
    OBVIOUS
  <2>2. PICK c : c = [b EXCEPT !.holder = At(l).auth]
    OBVIOUS
  <2>3. Filled(b, custodial, Owner, l, Nobody, Nobody, Nobody, Nobody)
    BY <2>1, LockIxIs
  <2>4. Filled(c, custodial, Owner, l, Nobody, At(l).auth, Nobody, Nobody)
    BY <2>2, <2>3 DEF Filled, Fields
  <2> QED
    BY <1>1, <2>1, <2>2, <2>4 DEF ModeIx, ModeFilled
<1>2. CASE ~IsCustodial(l)
  <2>1. PICK b : b = LockIx(trustless, l)
    OBVIOUS
  <2>2. PICK c : c = [b EXCEPT !.auth = At(l).auth]
    OBVIOUS
  <2>3. Filled(b, trustless, Owner, l, Nobody, Nobody, Nobody, Nobody)
    BY <2>1, LockIxIs
  <2>4. Filled(c, trustless, Owner, l, At(l).auth, Nobody, Nobody, Nobody)
    BY <2>2, <2>3 DEF Filled, Fields
  <2> QED
    BY <1>2, <2>1, <2>2, <2>4 DEF ModeIx, ModeFilled
<1> QED
  BY <1>1, <1>2

LEMMA WithdrawIxIs ==
    ASSUME NEW l, NEW pool
    PROVE  ModeFilled(WithdrawIx(l, pool), "withdraw", "withdrawCustodial", l,
                      Nobody)
<1>1. PICK b : b = ModeIx("withdraw", "withdrawCustodial", l)
  OBVIOUS
<1>2. PICK c : c = [b EXCEPT !.pool = pool]
  OBVIOUS
<1>3. ModeFilled(b, "withdraw", "withdrawCustodial", l, Nobody)
  BY <1>1, ModeIxIs
<1>4. ModeFilled(c, "withdraw", "withdrawCustodial", l, Nobody)
  BY <1>2, <1>3 DEF ModeFilled, Filled, Fields
<1> QED
  BY <1>1, <1>2, <1>4 DEF WithdrawIx

LEMMA ClaimSolRewardsIxIs ==
    ASSUME NEW l, NEW pool
    PROVE  ModeFilled(ClaimSolRewardsIx(l, pool), "claimSolRewards", "claimSolRewardsCustodial", l,
                      Treasury)
<1>1. PICK b : b = ModeIx("claimSolRewards", "claimSolRewardsCustodial", l)
  OBVIOUS
<1>2. PICK c : c = [b EXCEPT !.treasury = Treasury, !.pool = pool]
  OBVIOUS
<1>3. ModeFilled(b, "claimSolRewards", "claimSolRewardsCustodial", l, Nobody)
  BY <1>1, ModeIxIs
<1>4. ModeFilled(c, "claimSolRewards", "claimSolRewardsCustodial", l, Treasury)
  BY <1>2, <1>3 DEF ModeFilled, Filled, Fields
<1> QED
  BY <1>1, <1>2, <1>4 DEF ClaimSolRewardsIx

LEMMA ClaimTokenRewardsIxIs ==
    ASSUME NEW l, NEW pool
    PROVE  ModeFilled(ClaimTokenRewardsIx(l, pool), "claimTokenRewards", "claimTokenRewardsCustodial", l,
                      Treasury)
<1>1. PICK b : b = ModeIx("claimTokenRewards", "claimTokenRewardsCustodial", l)
  OBVIOUS
<1>2. PICK c : c = [b EXCEPT !.treasury = Treasury, !.pool = pool, !.poolTokens = pool]
  OBVIOUS
<1>3. ModeFilled(b, "claimTokenRewards", "claimTokenRewardsCustodial", l, Nobody)
  BY <1>1, ModeIxIs
<1>4. ModeFilled(c, "claimTokenRewards", "claimTokenRewardsCustodial", l, Treasury)
  BY <1>2, <1>3 DEF ModeFilled, Filled, Fields
<1> QED
  BY <1>1, <1>2, <1>4 DEF ClaimTokenRewardsIx

LEMMA CloseLockIxIs ==
    ASSUME NEW l
    PROVE  ModeFilled(CloseLockIx(l), "closeLock", "closeLockCustodial", l,
                      Treasury)
<1>1. PICK b : b = ModeIx("closeLock", "closeLockCustodial", l)
  OBVIOUS
<1>2. PICK c : c = [b EXCEPT !.treasury = Treasury]
  OBVIOUS
<1>3. ModeFilled(b, "closeLock", "closeLockCustodial", l, Nobody)
  BY <1>1, ModeIxIs
<1>4. ModeFilled(c, "closeLock", "closeLockCustodial", l, Treasury)
  BY <1>2, <1>3 DEF ModeFilled, Filled, Fields
<1> QED
  BY <1>1, <1>2, <1>4 DEF CloseLockIx

LEMMA SetCustodyAuthorityIs ==
    ASSUME NEW s
    PROVE  Filled([Blank("setCustodyAuthority", Admin) EXCEPT !.attester = AuthorityOf(s)],
                  "setCustodyAuthority", Admin, NoLock, Nobody, Nobody, AuthorityOf(s), Nobody)
<1>1. PICK b : b = Blank("setCustodyAuthority", Admin)
  OBVIOUS
<1>2. PICK c : c = [b EXCEPT !.attester = AuthorityOf(s)]
  OBVIOUS
<1>3. Filled(b, "setCustodyAuthority", Admin, NoLock, Nobody, Nobody, Nobody, Nobody)
  BY <1>1, BlankIs
<1>4. Filled(c, "setCustodyAuthority", Admin, NoLock, Nobody, Nobody, AuthorityOf(s), Nobody)
  BY <1>2, <1>3 DEF Filled, Fields
<1> QED
  BY <1>1, <1>2, <1>4

LEMMA CreateBoostPoolIs ==
    ASSUME NEW paysTokens
    PROVE  Filled([Blank("createBoostPool", Admin) EXCEPT !.poolTokens = paysTokens],
                  "createBoostPool", Admin, NoLock, Nobody, Nobody, Nobody, Nobody)
<1>1. PICK b : b = Blank("createBoostPool", Admin)
  OBVIOUS
<1>2. PICK c : c = [b EXCEPT !.poolTokens = paysTokens]
  OBVIOUS
<1>3. Filled(b, "createBoostPool", Admin, NoLock, Nobody, Nobody, Nobody, Nobody)
  BY <1>1, BlankIs
<1>4. Filled(c, "createBoostPool", Admin, NoLock, Nobody, Nobody, Nobody, Nobody)
  BY <1>2, <1>3 DEF Filled, Fields
<1> QED
  BY <1>1, <1>2, <1>4

LEMMA CallersIxIs ==
    ASSUME NEW name, NEW l, NEW holder, NEW extra
    PROVE  /\ CallersIx(name, l, holder, extra).name = name
           /\ CallersIx(name, l, holder, extra).lock = l
           /\ CallersIx(name, l, holder, extra).holder = holder
<1>1. PICK b : b = LockIx(name, l)
  OBVIOUS
<1>2. PICK c : c = [b EXCEPT !.auth = VaultAuthorityAt(l), !.holder = holder,
                          !.attester = ledger.attested, !.treasury = Treasury, !.extra = extra]
  OBVIOUS
<1>3. Filled(b, name, Owner, l, Nobody, Nobody, Nobody, Nobody)
  BY <1>1, LockIxIs
<1>4. c.name = name /\ c.lock = l /\ c.holder = holder
  BY <1>2, <1>3 DEF Filled, Fields
<1> QED
  BY <1>1, <1>2, <1>4 DEF CallersIx

\* Derived addresses differ when what they are derived from differs.
LEMMA DerivedKeys ==
    /\ \A s, k, u, l : HolderOf(s, k) = HolderOf(u, l) => s = u /\ k = l
    /\ \A s, k, u : HolderOf(s, k) # AuthorityOf(u)
    /\ \A s, k, l : HolderOf(s, k) # VaultAuthorityAt(l)
    /\ \A s, k : HolderOf(s, k) # Owner /\ HolderOf(s, k) # Nobody
    /\ \A s, k : HolderOf(s, k) # CallersKey
    /\ \A l : VaultAuthorityAt(l) # Nobody
    /\ \A s : AuthorityOf(s) # Nobody /\ AuthorityOf(s) # Owner
BY DEF HolderOf, AuthorityOf, VaultAuthorityAt, Owner, CallersKey, Nobody, Wallet, Program

(***************************************************************************)
(* The invariant: the ledger, an instruction, a transaction, and the       *)
(* transaction of the browser.                                             *)
(***************************************************************************)
Authorities == {AuthorityOf(s) : s \in Secrets}

\* The keys under which custody can begin.
DerivedHolders == {HolderOf(s, k) : s \in Secrets, k \in Locks}
Holders        == DerivedHolders \cup {CallersKey}

RecordOK(k, l) ==
    /\ DOMAIN k = {"stage", "auth"}
    /\ k.stage \in {"free", "locked", "matured", "withdrawn"}
    /\ k.auth \in {Nobody, VaultAuthorityAt(l)} \cup Holders
    /\ k.stage = "free" => k.auth = Nobody

LedgerOK(led) ==
    /\ DOMAIN led = {"config", "attested", "pool", "locks"}
    /\ led.config \in BOOLEAN
    /\ led.attested \in {Nobody} \cup Authorities
    /\ led.pool \in {"none", "sol", "token"}
    /\ DOMAIN led.locks = Locks
    /\ \A l \in Locks : RecordOK(led.locks[l], l)

Attests(ix) == ix.name \in {"createLockCustodial", "migrateLockToCustodial"}

IxOK(ix) ==
    /\ ix.name \in Names /\ ix.lock \in Locks \cup {NoLock}
    /\ ix.name \in LockNames => ix.lock \in Locks
    /\ ix.name = "createLock" => ix.auth = VaultAuthorityAt(ix.lock)
    /\ Attests(ix) => ix.holder \in Holders
    /\ ix.name = "setCustodyAuthority" => ix.attester \in Authorities

\* What the page and the scripts build besides: nothing is appended, and where custody
\* begins the holder is that of the lock, derived from the secret of the authority.
Standard(ix) ==
    /\ ix.extra = {}
    /\ Attests(ix) => \E s \in Secrets : /\ ix.holder = HolderOf(s, ix.lock)
                                         /\ ix.attester = AuthorityOf(s)

OwnersIx(ix, l) ==
    /\ IxOK(ix) /\ Standard(ix)
    /\ ix.wallet = Owner /\ ix.lock = l /\ ix.name \in LockNames

LEMMA CreateLockOK ==
    ASSUME NEW l \in Locks, NEW pool
    PROVE  OwnersIx(CreateLockIx(l, pool), l) /\ ~NeedsCoSign(CreateLockIx(l, pool))
<1>1. PICK ix : ix = CreateLockIx(l, pool)
  OBVIOUS
<1>2. Filled(ix, "createLock", Owner, l, VaultAuthorityAt(l), Nobody, Nobody, Treasury)
  BY <1>1, CreateLockIxIs
<1>3. ~NeedsCoSign(ix) /\ ~Attests(ix)
  BY <1>2 DEF Filled, NeedsCoSign, Custodial, Attests
<1>4. OwnersIx(ix, l)
  BY <1>2, <1>3 DEF Filled, OwnersIx, IxOK, Standard, Names, LockNames
<1> QED
  BY <1>1, <1>3, <1>4

LEMMA AttestingIxOK ==
    ASSUME NEW ix, NEW l \in Locks, NEW s \in Secrets,
           \/ ix = MigrateLockIx(l, s)
           \/ \E pool : ix = CreateLockCustodialIx(l, pool, s)
    PROVE  /\ OwnersIx(ix, l) /\ NeedsCoSign(ix)
           /\ ix.holder = HolderOf(s, l) /\ ix.attester = AuthorityOf(s)
<1>1. PICK name, auth : /\ name \in {"createLockCustodial", "migrateLockToCustodial"}
                        /\ Filled(ix, name, Owner, l, auth, HolderOf(s, l), AuthorityOf(s),
                                  Treasury)
  BY MigrateLockIxIs, CreateLockCustodialIxIs
<1>2. NeedsCoSign(ix) /\ ix.holder = HolderOf(s, l) /\ ix.attester = AuthorityOf(s)
  BY <1>1 DEF Filled, NeedsCoSign, Custodial
<1>3. ix.holder \in Holders
  BY <1>2 DEF Holders, DerivedHolders
<1>4. OwnersIx(ix, l)
  BY <1>1, <1>2, <1>3 DEF Filled, OwnersIx, IxOK, Standard, Names, LockNames
<1> QED
  BY <1>2, <1>4

LEMMA PlainIxOK ==
    ASSUME NEW ix, NEW l \in Locks, ix = ExtendLockIx(l) \/ \E pool : ix = TopUpIx(l, pool)
    PROVE  OwnersIx(ix, l) /\ ~NeedsCoSign(ix)
<1>1. PICK name, auth : /\ name \in {"extendLock", "topUp"}
                        /\ Filled(ix, name, Owner, l, auth, Nobody, Nobody, Nobody)
  BY LockIxIs, TopUpIxIs DEF ExtendLockIx
<1>2. ~NeedsCoSign(ix) /\ ~Attests(ix)
  BY <1>1 DEF Filled, NeedsCoSign, Custodial, Attests
<1>3. OwnersIx(ix, l)
  BY <1>1, <1>2 DEF Filled, OwnersIx, IxOK, Standard, Names, LockNames
<1> QED
  BY <1>2, <1>3

\* Withdrawing, claiming and closing, in either mode.
LEMMA ModeIxOK ==
    ASSUME NEW ix, NEW l \in Locks,
           \/ \E pool : ix = WithdrawIx(l, pool)
           \/ \E pool : ix = ClaimSolRewardsIx(l, pool)
           \/ \E pool : ix = ClaimTokenRewardsIx(l, pool)
           \/ ix = CloseLockIx(l)
    PROVE  /\ OwnersIx(ix, l) /\ ~Attests(ix)
           /\ NeedsCoSign(ix) => ix.holder = At(l).auth
<1>1. PICK treasury \in {Nobody, Treasury} :
           \/ ModeFilled(ix, "withdraw", "withdrawCustodial", l, treasury)
           \/ ModeFilled(ix, "claimSolRewards", "claimSolRewardsCustodial", l, treasury)
           \/ ModeFilled(ix, "claimTokenRewards", "claimTokenRewardsCustodial", l, treasury)
           \/ ModeFilled(ix, "closeLock", "closeLockCustodial", l, treasury)
  BY WithdrawIxIs, ClaimSolRewardsIxIs, ClaimTokenRewardsIxIs, CloseLockIxIs
<1>2. CASE IsCustodial(l)
  <2>1. PICK name : /\ name \in {"withdrawCustodial", "claimSolRewardsCustodial",
                                 "claimTokenRewardsCustodial", "closeLockCustodial"}
                    /\ Filled(ix, name, Owner, l, Nobody, At(l).auth, Nobody, treasury)
    BY <1>1, <1>2 DEF ModeFilled
  <2>2. ~Attests(ix)
    BY <2>1 DEF Filled, Attests
  <2> QED
    BY <2>1, <2>2 DEF Filled, OwnersIx, IxOK, Standard, Names, LockNames
<1>3. CASE ~IsCustodial(l)
  <2>1. PICK name : /\ name \in {"withdraw", "claimSolRewards", "claimTokenRewards",
                                 "closeLock"}
                    /\ Filled(ix, name, Owner, l, At(l).auth, Nobody, Nobody, treasury)
    BY <1>1, <1>3 DEF ModeFilled
  <2>2. ~NeedsCoSign(ix) /\ ~Attests(ix)
    BY <2>1 DEF Filled, NeedsCoSign, Custodial, Attests
  <2> QED
    BY <2>1, <2>2 DEF Filled, OwnersIx, IxOK, Standard, Names, LockNames
<1> QED
  BY <1>2, <1>3

\* What the page offers for a lock is about that lock.
LEMMA OfferedOK ==
    ASSUME NEW l \in Locks, LedgerOK(ledger), NEW ix \in Offered(l)
    PROVE  OwnersIx(ix, l)
<1>1. At(l).stage \in {"free", "locked", "matured", "withdrawn"}
  BY DEF LedgerOK, RecordOK, At
<1>2. ASSUME ix \in CreateForms(l) PROVE OwnersIx(ix, l)
  BY <1>2, CreateLockOK, AttestingIxOK DEF CreateForms
<1>3. ASSUME ix \in LockButtons(l) PROVE OwnersIx(ix, l)
  BY <1>3, PlainIxOK, AttestingIxOK DEF LockButtons, MigrateButton
<1>4. ASSUME ix \in ClaimButtons(l) \cup WithdrawButton(l) \cup {CloseLockIx(l)}
      PROVE  OwnersIx(ix, l)
  BY <1>4, ModeIxOK DEF ClaimButtons, WithdrawButton
<1>5. ix \in CreateForms(l) \cup LockButtons(l) \cup ClaimButtons(l) \cup WithdrawButton(l)
                \cup {CloseLockIx(l)}
  BY <1>1 DEF Offered
<1> QED
  BY <1>2, <1>3, <1>4, <1>5

\* What a caller puts together has none of that but the name and the lock.
LEMMA CallersIxOK ==
    ASSUME NEW names, NEW ix \in CallersIxs(names)
    PROVE  IxOK(ix) /\ ix.name # "setCustodyAuthority"
<1>0. PICK name \in AllowedIxNames, l \in Locks :
          \E holder \in HolderSlots(name, l), extra \in Additions :
              ix = CallersIx(name, l, holder, extra)
  BY DEF CallersIxs
<1>1. PICK holder \in HolderSlots(name, l), extra \in Additions :
          ix = CallersIx(name, l, holder, extra)
  BY <1>0
<1>2. ix.name = name /\ ix.lock = l /\ ix.holder = holder
  BY <1>1, CallersIxIs
<1>3. ASSUME Attests(ix) PROVE holder \in Holders
  BY <1>1, <1>2, <1>3 DEF Attests, HolderSlots, HolderAnswer, Holders, DerivedHolders
<1>4. name \in LockNames /\ name # "createLock" /\ name # "setCustodyAuthority"
  BY <1>1 DEF AllowedIxNames, LockNames
<1> QED
  BY <1>1, <1>2, <1>3, <1>4 DEF IxOK, Names

(***************************************************************************)
(* Execution: one instruction, then a transaction.                         *)
(***************************************************************************)
Cust(led, l) == led.locks[l].auth \notin {Nobody, VaultAuthorityAt(l)}

\* A lock that goes into custody under another key than before goes there with the
\* signatures of that key and of the registered authority.
Entered(old, new, t) ==
    \A l \in Locks : Cust(new, l) =>
        \/ new.locks[l].auth = old.locks[l].auth
        \/ /\ {old.attested, new.locks[l].auth} \subseteq t.signed
           /\ \/ t.handMade
              \/ \E s \in Secrets : /\ new.locks[l].auth = HolderOf(s, l)
                                    /\ old.attested = AuthorityOf(s)

\* A lock under a derived key stays locked or withdrawn as it is, or its lock time changes,
\* unless that key has signed.
Opened(old, new, t) ==
    \A l \in Locks : \A h \in DerivedHolders : old.locks[l].auth = h =>
        \/ h \in t.signed
        \/ /\ new.locks[l].auth = h
           /\ \/ new.locks[l].stage = old.locks[l].stage
              \/ new.locks[l].stage \in {"locked", "matured"}

Steps(old, new, t) == Entered(old, new, t) /\ Opened(old, new, t)

LEMMA SameLocks ==
    ASSUME NEW old, NEW new, new.locks = old.locks, NEW t
    PROVE  Steps(old, new, t)
BY DEF Steps, Entered, Opened, Cust

LEMMA RecordFieldChange ==
    ASSUME NEW k, DOMAIN k = {"stage", "auth"}, NEW e
    PROVE  /\ DOMAIN [k EXCEPT !.stage = e] = {"stage", "auth"}
           /\ [k EXCEPT !.stage = e].stage = e /\ [k EXCEPT !.stage = e].auth = k.auth
           /\ DOMAIN [k EXCEPT !.auth = e] = {"stage", "auth"}
           /\ [k EXCEPT !.auth = e].auth = e /\ [k EXCEPT !.auth = e].stage = k.stage
OBVIOUS

\* One record changes: what has to be known of the new one, and of the old one.
MayEnter(k, led, l, t) ==
    \/ k.auth \in {Nobody, VaultAuthorityAt(l), led.locks[l].auth}
    \/ /\ {led.attested, k.auth} \subseteq t.signed
       /\ \/ t.handMade
          \/ \E s \in Secrets : k.auth = HolderOf(s, l) /\ led.attested = AuthorityOf(s)

MayOpen(k, led, l, t) ==
    \/ led.locks[l].auth \notin DerivedHolders
    \/ led.locks[l].auth \in t.signed
    \/ k.auth = led.locks[l].auth /\ k.stage = "locked"

LEMMA RecordChange ==
    ASSUME NEW led, LedgerOK(led), NEW l \in Locks, NEW k, RecordOK(k, l), NEW new,
           new = [led EXCEPT !.locks[l] = k], NEW t,
           MayEnter(k, led, l, t), MayOpen(k, led, l, t)
    PROVE  LedgerOK(new) /\ new.attested = led.attested /\ Steps(led, new, t)
<1>1. DOMAIN led = {"config", "attested", "pool", "locks"} /\ DOMAIN led.locks = Locks
  BY DEF LedgerOK
<1>2. PICK f : f = [led.locks EXCEPT ![l] = k]
  OBVIOUS
<1>3. DOMAIN f = Locks /\ f[l] = k /\ \A j \in Locks : j # l => f[j] = led.locks[j]
  BY <1>1, <1>2
<1>4. new = [led EXCEPT !.locks = f]
  BY <1>2
<1>5. /\ DOMAIN new = DOMAIN led /\ new.locks = f /\ new.attested = led.attested
      /\ new.config = led.config /\ new.pool = led.pool
  BY <1>1, <1>4
<1>6. LedgerOK(new)
  BY <1>3, <1>5 DEF LedgerOK
<1>7. Entered(led, new, t)
  BY <1>3, <1>5 DEF Entered, Cust, MayEnter
<1>8. Opened(led, new, t)
  BY <1>3, <1>5 DEF Opened, MayOpen
<1> QED
  BY <1>5, <1>6, <1>7, <1>8 DEF Steps

\* The holder and the authority of an instruction sign it.
LEMMA HolderDemanded ==
    ASSUME NEW ix
    PROVE  /\ Custodial(ix) \/ Attests(ix) => ix.holder \in DemandedSigners(ix)
           /\ Attests(ix) => ix.attester \in DemandedSigners(ix)
BY DEF DemandedSigners, Attests, Custodial

LEMMA EffectKeepsLedger ==
    ASSUME NEW ix, IxOK(ix), NEW led, LedgerOK(led), Accepts(ix, led),
           NEW t, DemandedSigners(ix) \subseteq t.signed, t.handMade \/ Standard(ix)
    PROVE  /\ LedgerOK(Effect(ix, led))
           /\ Steps(led, Effect(ix, led), t)
           /\ ix.name # "setCustodyAuthority" => Effect(ix, led).attested = led.attested
<1>0. PICK new : new = Effect(ix, led)
  OBVIOUS
<1> DEFINE l == ix.lock
<1>a. DOMAIN led = {"config", "attested", "pool", "locks"} /\ DOMAIN led.locks = Locks
      /\ \A k \in Locks : RecordOK(led.locks[k], k)
  BY DEF LedgerOK
<1>b. ix.name \in LockNames => l \in Locks
  BY DEF IxOK
<1>1. CASE ix.name = "initialize"
  <2>1. new = [led EXCEPT !.config = TRUE]
    BY <1>0, <1>1 DEF Effect
  <2>2. /\ DOMAIN new = DOMAIN led /\ new.config = TRUE /\ new.attested = led.attested
        /\ new.pool = led.pool /\ new.locks = led.locks
    BY <1>a, <2>1
  <2> QED
    BY <1>0, <2>2, SameLocks DEF LedgerOK
<1>2. CASE ix.name = "setCustodyAuthority"
  <2>1. new = [led EXCEPT !.attested = ix.attester]
    BY <1>0, <1>2 DEF Effect
  <2>2. /\ DOMAIN new = DOMAIN led /\ new.config = led.config /\ new.attested = ix.attester
        /\ new.pool = led.pool /\ new.locks = led.locks
    BY <1>a, <2>1
  <2>3. ix.attester \in Authorities
    BY <1>2 DEF IxOK
  <2> QED
    BY <1>0, <1>2, <2>2, <2>3, SameLocks DEF LedgerOK
<1>3. CASE ix.name = "createBoostPool"
  <2>1. PICK p \in {"token", "sol"} : new = [led EXCEPT !.pool = p]
    BY <1>0, <1>3 DEF Effect
  <2>2. /\ DOMAIN new = DOMAIN led /\ new.config = led.config /\ new.attested = led.attested
        /\ new.pool = p /\ new.locks = led.locks
    BY <1>a, <2>1
  <2> QED
    BY <1>0, <2>1, <2>2, SameLocks DEF LedgerOK
<1>4. CASE ix.name \in {"createLock", "createLockCustodial"}
  <2>1. l \in Locks /\ led.locks[l].stage = "free"
    BY <1>b, <1>4 DEF LockNames, Accepts, LockOf
  <2>2. PICK k : k = [stage |-> "locked", auth |-> VaultOwner(ix)]
    OBVIOUS
  <2>3. new = [led EXCEPT !.locks[l] = k]
    BY <1>0, <1>4, <2>2 DEF Effect
  <2>4. led.locks[l].auth \notin DerivedHolders
    BY <1>a, <2>1, DerivedKeys DEF RecordOK, DerivedHolders
  <2>5. CASE ix.name = "createLock"
    <3>1. k.auth = VaultAuthorityAt(l)
      BY <2>2, <2>5 DEF IxOK, VaultOwner, Custodial
    <3>2. RecordOK(k, l)
      BY <2>2, <3>1 DEF RecordOK
    <3> QED
      BY <1>0, <2>1, <2>3, <2>4, <3>1, <3>2, RecordChange DEF MayEnter, MayOpen
  <2>6. CASE ix.name = "createLockCustodial"
    <3>1. k.auth = ix.holder /\ Attests(ix)
      BY <2>2, <2>6 DEF VaultOwner, Custodial, Attests
    <3>2. RecordOK(k, l)
      BY <2>2, <3>1, DerivedKeys DEF RecordOK, IxOK
    <3>3. led.attested = ix.attester
      BY <2>6 DEF Accepts, Attested
    <3>4. {led.attested, k.auth} \subseteq t.signed
      BY <3>1, <3>3, HolderDemanded
    <3>5. \/ t.handMade
          \/ \E s \in Secrets : k.auth = HolderOf(s, l) /\ led.attested = AuthorityOf(s)
      BY <3>1, <3>3 DEF Standard
    <3> QED
      BY <1>0, <2>1, <2>3, <2>4, <3>2, <3>4, <3>5, RecordChange
       DEF MayEnter, MayOpen
  <2> QED
    BY <1>4, <2>5, <2>6
<1>5. CASE ix.name = "migrateLockToCustodial"
  <2>1. l \in Locks /\ Attests(ix)
    BY <1>b, <1>5 DEF LockNames, Attests
  <2>2. PICK k : k = [led.locks[l] EXCEPT !.auth = ix.holder]
    OBVIOUS
  <2>3. new = [led EXCEPT !.locks[l] = k]
    BY <1>0, <1>5, <2>2 DEF Effect
  <2>4. /\ led.locks[l].stage \in {"locked", "matured"} /\ led.attested = ix.attester
        /\ led.locks[l].auth = VaultAuthorityAt(l)
    BY <1>5 DEF Accepts, Attested, NotWithdrawn, OwnsByAddress, LockOf
  <2>5. RecordOK(k, l) /\ k.auth = ix.holder
    BY <1>a, <2>1, <2>2, <2>4, RecordFieldChange DEF RecordOK, IxOK
  <2>6. led.locks[l].auth \notin DerivedHolders
    BY <2>4, DerivedKeys DEF DerivedHolders
  <2>7. {led.attested, k.auth} \subseteq t.signed
    BY <2>1, <2>4, <2>5, HolderDemanded
  <2>8. \/ t.handMade
        \/ \E s \in Secrets : k.auth = HolderOf(s, l) /\ led.attested = AuthorityOf(s)
    BY <2>1, <2>4, <2>5 DEF Standard
  <2> QED
    BY <1>0, <2>1, <2>3, <2>5, <2>6, <2>7, <2>8, RecordChange
       DEF MayEnter, MayOpen
<1>6. CASE ix.name = "extendLock"
  <2>1. l \in Locks /\ led.locks[l].stage # "free"
    BY <1>b, <1>6 DEF LockNames, Accepts, NotWithdrawn, LockOf
  <2>2. PICK k : k = [led.locks[l] EXCEPT !.stage = "locked"]
    OBVIOUS
  <2>3. RecordOK(k, l) /\ k.auth = led.locks[l].auth /\ k.stage = "locked"
    BY <1>a, <2>1, <2>2, RecordFieldChange DEF RecordOK
  <2>4. new = [led EXCEPT !.locks[l] = k]
    BY <1>0, <1>6, <2>2 DEF Effect
  <2> QED
    BY <1>0, <2>1, <2>3, <2>4, RecordChange DEF MayEnter, MayOpen
<1>7. CASE ix.name \in {"withdraw", "withdrawCustodial", "closeLock", "closeLockCustodial"}
  <2>1. l \in Locks
    BY <1>b, <1>7 DEF LockNames
  <2>2. OwnsVault(ix, led)
    BY <1>7 DEF Accepts
  <2>3. led.locks[l].auth \notin DerivedHolders \/ led.locks[l].auth \in t.signed
    <3>1. CASE Custodial(ix)
      BY <2>2, <3>1, HolderDemanded DEF OwnsVault, OwnsByHolder, LockOf
    <3>2. CASE ~Custodial(ix)
      BY <2>2, <3>2, DerivedKeys DEF OwnsVault, OwnsByAddress, LockOf, DerivedHolders
    <3> QED
      BY <3>1, <3>2
  <2>4. CASE ix.name \in {"withdraw", "withdrawCustodial"}
    <3>1. PICK k : k = [led.locks[l] EXCEPT !.stage = "withdrawn"]
      OBVIOUS
    <3>2. RecordOK(k, l) /\ k.auth = led.locks[l].auth
      BY <1>a, <2>1, <3>1, RecordFieldChange DEF RecordOK
    <3>3. new = [led EXCEPT !.locks[l] = k]
      BY <1>0, <2>4, <3>1 DEF Effect
    <3> QED
      BY <1>0, <2>1, <2>3, <3>2, <3>3, RecordChange DEF MayEnter, MayOpen
  <2>5. CASE ix.name \in {"closeLock", "closeLockCustodial"}
    <3>1. PICK k : k = [stage |-> "free", auth |-> Nobody]
      OBVIOUS
    <3>2. RecordOK(k, l) /\ k.auth = Nobody
      BY <3>1 DEF RecordOK
    <3>3. new = [led EXCEPT !.locks[l] = k]
      BY <1>0, <2>5, <3>1 DEF Effect
    <3> QED
      BY <1>0, <2>1, <2>3, <3>2, <3>3, RecordChange DEF MayEnter, MayOpen
  <2> QED
    BY <1>7, <2>4, <2>5
<1>8. CASE ix.name \notin {"initialize", "setCustodyAuthority", "createBoostPool",
                           "createLock", "createLockCustodial", "extendLock",
                           "migrateLockToCustodial", "withdraw", "withdrawCustodial",
                           "closeLock", "closeLockCustodial"}
  <2>1. new = led
    BY <1>0, <1>8 DEF Effect
  <2> QED
    BY <1>0, <2>1, SameLocks
<1> QED
  BY <1>1, <1>2, <1>3, <1>4, <1>5, <1>6, <1>7, <1>8

LEMMA StepIs ==
    ASSUME NEW run, DOMAIN run = {"ok", "led"}, run.ok \in BOOLEAN, NEW ix
    PROVE  /\ DOMAIN Step(run, ix) = {"ok", "led"} /\ Step(run, ix).ok \in BOOLEAN
           /\ Step(run, ix).ok = TRUE =>
                 run.ok = TRUE /\ Accepts(ix, run.led) /\ Step(run, ix).led = Effect(ix, run.led)
<1>1. CASE run.ok /\ Privileged(ix) /\ Accepts(ix, run.led)
  <2>1. PICK e : e = Effect(ix, run.led)
    OBVIOUS
  <2>2. Step(run, ix) = [run EXCEPT !.led = e]
    BY <1>1, <2>1 DEF Step
  <2>3. DOMAIN Step(run, ix) = {"ok", "led"} /\ Step(run, ix).ok = run.ok
        /\ Step(run, ix).led = e
    BY <2>2
  <2> QED
    BY <1>1, <2>1, <2>3
<1>2. CASE ~(run.ok /\ Privileged(ix) /\ Accepts(ix, run.led))
  <2>1. Step(run, ix) = [run EXCEPT !.ok = FALSE]
    BY <1>2 DEF Step
  <2> QED
    BY <2>1
<1> QED
  BY <1>1, <1>2

LEMMA InstructionsOf ==
    ASSUME NEW t
    PROVE  /\ \A ix : t.ixs = <<ix>> => Instructions(t) = {ix} /\ Len(t.ixs) = 1 /\ t.ixs[1] = ix
           /\ \A ix, iy : t.ixs = <<ix, iy>> =>
                 Instructions(t) = {ix, iy} /\ Len(t.ixs) = 2 /\ t.ixs[1] = ix /\ t.ixs[2] = iy
           /\ t.ixs = << >> => Instructions(t) = {}
<1>1. ASSUME NEW ix, t.ixs = <<ix>>
      PROVE  Instructions(t) = {ix} /\ Len(t.ixs) = 1 /\ t.ixs[1] = ix
  <2>1. DOMAIN t.ixs = {1}
    BY <1>1
  <2> QED
    BY <1>1, <2>1 DEF Instructions
<1>2. ASSUME NEW ix, NEW iy, t.ixs = <<ix, iy>>
      PROVE  Instructions(t) = {ix, iy} /\ Len(t.ixs) = 2 /\ t.ixs[1] = ix /\ t.ixs[2] = iy
  <2>1. DOMAIN t.ixs = {1, 2}
    BY <1>2
  <2> QED
    BY <1>2, <2>1 DEF Instructions
<1>3. ASSUME t.ixs = << >> PROVE Instructions(t) = {}
  <2>1. DOMAIN t.ixs = {}
    BY <1>3
  <2> QED
    BY <2>1 DEF Instructions
<1> QED
  BY <1>1, <1>2, <1>3

\* One instruction, or two of which the first does not register an authority.
Listing(ixs) ==
    \/ \E ix : ixs = <<ix>>
    \/ \E ix, iy : ixs = <<ix, iy>> /\ ix.name # "setCustodyAuthority"

\* Two steps of one transaction, of which the first registers no authority.
LEMMA StepsCompose ==
    ASSUME NEW old, NEW mid, NEW new, NEW t, LedgerOK(old), LedgerOK(mid),
           Steps(old, mid, t), Steps(mid, new, t), mid.attested = old.attested
    PROVE  Steps(old, new, t)
<1>1. Entered(old, new, t)
  <2> SUFFICES ASSUME NEW l \in Locks, Cust(new, l), new.locks[l].auth # old.locks[l].auth
               PROVE  /\ {old.attested, new.locks[l].auth} \subseteq t.signed
                      /\ \/ t.handMade
                         \/ \E s \in Secrets : /\ new.locks[l].auth = HolderOf(s, l)
                                               /\ old.attested = AuthorityOf(s)
    BY DEF Entered
  <2>1. CASE new.locks[l].auth = mid.locks[l].auth
    BY <2>1 DEF Steps, Entered, Cust
  <2>2. CASE new.locks[l].auth # mid.locks[l].auth
    BY <2>2 DEF Steps, Entered
  <2> QED
    BY <2>1, <2>2
<1>2. Opened(old, new, t)
  BY DEF Steps, Opened
<1> QED
  BY <1>1, <1>2 DEF Steps

LEMMA OutcomeKeepsLedger ==
    ASSUME NEW t, Listing(t.ixs), LedgerOK(ledger), Outcome(t).ok,
           \A ix \in Instructions(t) : /\ IxOK(ix) /\ (t.handMade \/ Standard(ix))
                                       /\ DemandedSigners(ix) \subseteq t.signed
    PROVE  LedgerOK(Outcome(t).led) /\ Steps(ledger, Outcome(t).led, t)
<1>1. PICK run : run = [ok |-> TRUE, led |-> ledger]
  OBVIOUS
<1>2. DOMAIN run = {"ok", "led"} /\ run.ok = TRUE /\ run.led = ledger
  BY <1>1
<1>3. PICK first : first = Step(run, t.ixs[1])
  OBVIOUS
<1>4. DOMAIN first = {"ok", "led"} /\ first.ok \in BOOLEAN
      /\ (first.ok = TRUE => /\ Accepts(t.ixs[1], ledger)
                             /\ first.led = Effect(t.ixs[1], ledger))
  BY <1>2, <1>3, StepIs
<1>5. CASE \E ix : t.ixs = <<ix>>
  <2>1. PICK ix : t.ixs = <<ix>>
    BY <1>5
  <2>2. ix \in Instructions(t) /\ Len(t.ixs) = 1 /\ t.ixs[1] = ix
    BY <2>1, InstructionsOf
  <2>3. Outcome(t) = first
    BY <1>1, <1>3, <2>2 DEF Outcome
  <2>4. Accepts(ix, ledger) /\ Outcome(t).led = Effect(ix, ledger)
    BY <1>4, <2>2, <2>3
  <2> QED
    BY <2>2, <2>4, EffectKeepsLedger
<1>6. CASE \E ix, iy : t.ixs = <<ix, iy>> /\ ix.name # "setCustodyAuthority"
  <2>1. PICK ix, iy : t.ixs = <<ix, iy>> /\ ix.name # "setCustodyAuthority"
    BY <1>6
  <2>2. /\ ix \in Instructions(t) /\ iy \in Instructions(t)
        /\ Len(t.ixs) = 2 /\ t.ixs[1] = ix /\ t.ixs[2] = iy
    BY <2>1, InstructionsOf
  <2>3. Outcome(t) = Step(first, iy)
    BY <1>1, <1>3, <2>2 DEF Outcome
  <2>4. /\ first.ok = TRUE /\ Accepts(iy, first.led)
        /\ Outcome(t).led = Effect(iy, first.led)
    BY <1>4, <2>3, StepIs
  <2>5. Accepts(ix, ledger) /\ first.led = Effect(ix, ledger)
    BY <1>4, <2>2, <2>4
  <2>6. /\ LedgerOK(first.led) /\ Steps(ledger, first.led, t)
        /\ first.led.attested = ledger.attested
    BY <2>1, <2>2, <2>5, EffectKeepsLedger
  <2>7. LedgerOK(Outcome(t).led) /\ Steps(first.led, Outcome(t).led, t)
    BY <2>2, <2>4, <2>6, EffectKeepsLedger
  <2> QED
    BY <2>6, <2>7, StepsCompose
<1> QED
  BY <1>5, <1>6 DEF Listing

(***************************************************************************)
(* Transactions.                                                           *)
(***************************************************************************)
TransactionOK(t) ==
    /\ DOMAIN t = {"stage", "ixs", "coSign", "signed", "handMade"}
    /\ t.stage \in Stages /\ t.coSign \in Locks \cup {NoLock} /\ t.handMade \in BOOLEAN
    /\ t.stage = "coSigned" => t.coSign \in Locks
    /\ t.stage # "idle" => Listing(t.ixs)
    /\ \A ix \in Instructions(t) : IxOK(ix) /\ (t.handMade \/ Standard(ix))
    /\ t.stage = "sent" => FullySigned(t)

\* One instruction; when a co-signature is asked for it is for the lock of that instruction.
BuiltOK(t) ==
    /\ t.signed = {}
    /\ \E ix : /\ t.ixs = <<ix>> /\ ix.wallet = Owner
               /\ t.coSign = NoLock => ~NeedsCoSign(ix)
               /\ t.coSign # NoLock => NeedsCoSign(ix) /\ ix.lock = t.coSign

CoSignedOK(t) == \A ix \in Instructions(t) : Signers(ix) \subseteq t.signed \cup {Owner}

\* A derived key has signed only where the lock it was derived for is listed.
Scope(t) ==
    \A s \in Secrets, l \in Locks :
        HolderOf(s, l) \in t.signed => \A ix \in Instructions(t) : LockAt(l) \in Listed(ix)

BrowserOK(t) ==
    /\ t.handMade => t.stage \notin {"built", "coSigned"} /\ t.coSign = NoLock
    /\ t.stage = "built" => BuiltOK(t)
    /\ t.stage = "coSigned" => CoSignedOK(t)
    /\ t.stage = "signed" /\ ~t.handMade => FullySigned(t)
    /\ Scope(t)

\* A script signs, simulates and sends at once.
ScriptOK(t) == ~t.handMade /\ t.stage \in {"idle", "sent"}

TxInv ==
    /\ LedgerOK(ledger)
    /\ secret \in Secrets \cup {NoSecret}
    /\ DOMAIN tx = Desks
    /\ \A d \in Desks : TransactionOK(tx[d])
    /\ BrowserOK(tx["browser"])
    /\ ScriptOK(tx["script"])

LEMMA NoTxOK == TransactionOK(NoTx) /\ BrowserOK(NoTx) /\ ScriptOK(NoTx)
<1>1. PICK t : t = NoTx
  OBVIOUS
<1>2. /\ DOMAIN t = {"stage", "ixs", "coSign", "signed", "handMade"} /\ t.stage = "idle"
      /\ t.ixs = << >> /\ t.coSign = NoLock /\ t.signed = {} /\ t.handMade = FALSE
  BY <1>1 DEF NoTx
<1>3. Instructions(t) = {}
  BY <1>2, InstructionsOf
<1> QED
  BY <1>1, <1>2, <1>3 DEF TransactionOK, BrowserOK, ScriptOK, Stages, Scope

\* An action that changes the transaction of one desk only.
LEMMA DeskChange ==
    ASSUME TxInv, NEW d \in Desks, NEW q, tx' = [tx EXCEPT ![d] = q],
           TransactionOK(q), d = "browser" => BrowserOK(q), d = "script" => ScriptOK(q),
           LedgerOK(ledger'), secret' \in Secrets \cup {NoSecret}
    PROVE  TxInv'
<1>1. DOMAIN tx' = Desks /\ tx'[d] = q /\ \A k \in Desks : k # d => tx'[k] = tx[k]
  BY DEF TxInv
<1>2. "browser" \in Desks /\ "script" \in Desks
  BY DEF Desks
<1>3. BrowserOK(tx'["browser"])
  BY <1>1, <1>2 DEF TxInv
<1>4. \A k \in Desks : TransactionOK(tx'[k])
  BY <1>1 DEF TxInv
<1>5. ScriptOK(tx'["script"])
  BY <1>1, <1>2 DEF TxInv
<1> QED
  BY <1>1, <1>3, <1>4, <1>5 DEF TxInv

\* Who signs an instruction of the owner that the page or a script has built.
LEMMA OwnersSigners ==
    ASSUME NEW ix, ix.name \in Names, ix.wallet = Owner, Standard(ix)
    PROVE  /\ ~NeedsCoSign(ix) => Signers(ix) = {Owner}
           /\ NeedsCoSign(ix) => ix.holder \in Signers(ix)
           /\ NeedsCoSign(ix) /\ ~Attests(ix) => Signers(ix) = {Owner, ix.holder}
           /\ Attests(ix) => NeedsCoSign(ix) /\ Signers(ix) = {Owner, ix.holder, ix.attester}
<1>1. Signers(ix) = DemandedSigners(ix)
  BY SignersDemanded DEF Standard
<1> QED
  BY <1>1 DEF DemandedSigners, NeedsCoSign, Attests, Custodial

LEMMA InitInv == Init => TxInv
<1> SUFFICES ASSUME Init PROVE TxInv
  OBVIOUS
<1>1. LedgerOK(ledger)
  <2>1. PICK k : k = [stage |-> "free", auth |-> Nobody]
    OBVIOUS
  <2>2. \A l \in Locks : RecordOK(k, l)
    BY <2>1 DEF RecordOK
  <2>3. PICK f : f = [l \in Locks |-> k]
    OBVIOUS
  <2>4. ledger = [config |-> FALSE, attested |-> Nobody, pool |-> "none", locks |-> f]
    BY <2>1, <2>3 DEF Init, LedgerInit
  <2> QED
    BY <2>2, <2>3, <2>4 DEF LedgerOK
<1>2. DOMAIN tx = Desks /\ \A d \in Desks : tx[d] = NoTx
  BY DEF Init
<1>3. secret \in Secrets \cup {NoSecret}
  BY DEF Init
<1>4. "browser" \in Desks /\ "script" \in Desks
  BY DEF Desks
<1> QED
  BY <1>1, <1>2, <1>3, <1>4, NoTxOK DEF TxInv

LEMMA BuildKeeps == ASSUME TxInv, NEW l \in Locks, Build(l) PROVE TxInv'
<1>1. PICK ix \in Offered(l) :
          tx' = [tx EXCEPT !["browser"] =
                    [NoTx EXCEPT !.stage = "built", !.ixs = <<ix>>,
                                 !.coSign = IF NeedsCoSign(ix) THEN l ELSE NoLock]]
  BY DEF Build
<1>2. OwnersIx(ix, l)
  BY OfferedOK DEF TxInv
<1>3. PICK c : c = IF NeedsCoSign(ix) THEN l ELSE NoLock
  OBVIOUS
<1>4. PICK n : n = NoTx
  OBVIOUS
<1>5. PICK q : q = [n EXCEPT !.stage = "built", !.ixs = <<ix>>, !.coSign = c]
  OBVIOUS
<1>6. /\ DOMAIN n = {"stage", "ixs", "coSign", "signed", "handMade"} /\ n.signed = {}
      /\ n.handMade = FALSE
  BY <1>4 DEF NoTx
<1>7. /\ DOMAIN q = {"stage", "ixs", "coSign", "signed", "handMade"} /\ q.stage = "built"
      /\ q.ixs = <<ix>> /\ q.coSign = c /\ q.signed = {} /\ q.handMade = FALSE
  BY <1>5, <1>6
<1>8. Instructions(q) = {ix}
  BY <1>7, InstructionsOf
<1>9. TransactionOK(q)
  BY <1>2, <1>3, <1>7, <1>8 DEF TransactionOK, Stages, Listing, OwnersIx
<1>10. BuiltOK(q)
  BY <1>2, <1>3, <1>7, LocksAssumption DEF BuiltOK, OwnersIx
<1>11. BrowserOK(q)
  BY <1>7, <1>10 DEF BrowserOK, Scope
<1>12. tx' = [tx EXCEPT !["browser"] = q]
  BY <1>1, <1>3, <1>4, <1>5
<1>13. LedgerOK(ledger') /\ secret' \in Secrets \cup {NoSecret} /\ "browser" \in Desks
  BY DEF Build, TxInv, Desks
<1> QED
  BY <1>9, <1>11, <1>12, <1>13, DeskChange

LEMMA BuildCallKeeps == ASSUME TxInv, BuildCall PROVE TxInv'
<1>1. PICK ixs \in CallersLists :
          tx' = [tx EXCEPT !["browser"] =
                    [NoTx EXCEPT !.stage = "signed", !.ixs = ixs, !.handMade = TRUE,
                                 !.signed = {Owner, CallersKey}]]
  BY DEF BuildCall
<1>2. \/ \E ix : ixs = <<ix>> /\ ix \in CallersIxs(CallerOps)
      \/ \E ix, iy : ixs = <<ix, iy>> /\ {ix, iy} \subseteq CallersIxs(BatchOps)
  BY <1>1 DEF CallersLists
<1>3. PICK X : X = {Owner, CallersKey}
  OBVIOUS
<1>4. PICK n : n = NoTx
  OBVIOUS
<1>5. PICK q : q = [n EXCEPT !.stage = "signed", !.ixs = ixs, !.handMade = TRUE, !.signed = X]
  OBVIOUS
<1>6. DOMAIN n = {"stage", "ixs", "coSign", "signed", "handMade"} /\ n.coSign = NoLock
  BY <1>4 DEF NoTx
<1>7. /\ DOMAIN q = {"stage", "ixs", "coSign", "signed", "handMade"} /\ q.stage = "signed"
      /\ q.ixs = ixs /\ q.coSign = NoLock /\ q.signed = X /\ q.handMade = TRUE
  BY <1>5, <1>6
<1>8. Listing(q.ixs) /\ \A ix \in Instructions(q) : IxOK(ix)
  <2>1. CASE \E ix : ixs = <<ix>> /\ ix \in CallersIxs(CallerOps)
    BY <1>7, <2>1, CallersIxOK, InstructionsOf DEF Listing
  <2>2. CASE \E ix, iy : ixs = <<ix, iy>> /\ {ix, iy} \subseteq CallersIxs(BatchOps)
    BY <1>7, <2>2, CallersIxOK, InstructionsOf DEF Listing
  <2> QED
    BY <1>2, <2>1, <2>2
<1>9. TransactionOK(q)
  BY <1>7, <1>8 DEF TransactionOK, Stages
<1>10. BrowserOK(q)
  BY <1>3, <1>7, DerivedKeys DEF BrowserOK, Scope
<1>11. tx' = [tx EXCEPT !["browser"] = q]
  BY <1>1, <1>3, <1>4, <1>5
<1>12. LedgerOK(ledger') /\ secret' \in Secrets \cup {NoSecret} /\ "browser" \in Desks
  BY DEF BuildCall, TxInv, Desks
<1> QED
  BY <1>9, <1>10, <1>11, <1>12, DeskChange

Advanced(stage, X) ==
    [tx EXCEPT !["browser"].stage = stage, !["browser"].signed = tx["browser"].signed \cup X]

LEMMA BrowserChange ==
    ASSUME TxInv, NEW stage, NEW X, tx' = Advanced(stage, X)
    PROVE  \E q : /\ tx' = [tx EXCEPT !["browser"] = q]
                  /\ DOMAIN q = {"stage", "ixs", "coSign", "signed", "handMade"}
                  /\ q.stage = stage /\ q.ixs = tx["browser"].ixs
                  /\ q.coSign = tx["browser"].coSign
                  /\ q.handMade = tx["browser"].handMade
                  /\ q.signed = tx["browser"].signed \cup X
                  /\ Instructions(q) = Instructions(tx["browser"])
<1>1. PICK t : t = tx["browser"]
  OBVIOUS
<1>2. "browser" \in Desks /\ DOMAIN tx = Desks
  BY DEF Desks, TxInv
<1>3. DOMAIN t = {"stage", "ixs", "coSign", "signed", "handMade"}
  BY <1>1, <1>2 DEF TxInv, TransactionOK
<1>4. PICK q : q = [t EXCEPT !.stage = stage, !.signed = t.signed \cup X]
  OBVIOUS
<1>5. /\ DOMAIN q = {"stage", "ixs", "coSign", "signed", "handMade"} /\ q.stage = stage
      /\ q.ixs = t.ixs /\ q.coSign = t.coSign /\ q.handMade = t.handMade
      /\ q.signed = t.signed \cup X
  BY <1>3, <1>4
<1>6. tx' = [tx EXCEPT !["browser"] = q]
  BY <1>1, <1>2, <1>3, <1>4 DEF Advanced
<1>7. Instructions(q) = Instructions(t)
  BY <1>5 DEF Instructions
<1> QED
  BY <1>1, <1>5, <1>6, <1>7

\* The service signs with the holder of the lock that is asked for and perhaps as authority,
\* and every instruction lists that lock.
LEMMA ServiceScope ==
    ASSUME NEW t, NEW l \in Locks, MayCoSign(t, l), Scope(t),
           NEW q, Instructions(q) = Instructions(t),
           q.signed = t.signed \cup ServiceSignatures(t, l)
    PROVE  Scope(q)
<1> SUFFICES ASSUME NEW s \in Secrets, NEW k \in Locks, HolderOf(s, k) \in q.signed,
                    NEW ix \in Instructions(t)
             PROVE  LockAt(k) \in Listed(ix)
  BY DEF Scope
<1>1. CASE HolderOf(s, k) \in t.signed
  BY <1>1 DEF Scope
<1>2. CASE HolderOf(s, k) \in ServiceSignatures(t, l)
  <2>1. k = l
    BY <1>2, DerivedKeys DEF ServiceSignatures
  <2> QED
    BY <2>1 DEF MayCoSign
<1> QED
  BY <1>1, <1>2

LEMMA CoSignKeeps == ASSUME TxInv, CoSign PROVE TxInv'
<1>1. PICK t : t = tx["browser"]
  OBVIOUS
<1>2. PICK X : X = ServiceSignatures(t, t.coSign)
  OBVIOUS
<1>3. "browser" \in Desks
  BY DEF Desks
<1>4. /\ t.stage = "built" /\ t.coSign \in Locks /\ t.coSign # NoLock
      /\ MayCoSign(t, t.coSign) /\ TransactionOK(t) /\ BrowserOK(t) /\ BuiltOK(t)
      /\ ~t.handMade
  BY <1>1, <1>3 DEF CoSign, TxInv, TransactionOK, BrowserOK
<1>5. tx' = Advanced("coSigned", X)
  BY <1>1, <1>2 DEF CoSign, Advanced
<1>6. PICK q : /\ tx' = [tx EXCEPT !["browser"] = q]
               /\ DOMAIN q = {"stage", "ixs", "coSign", "signed", "handMade"}
               /\ q.stage = "coSigned" /\ q.ixs = t.ixs /\ q.coSign = t.coSign
               /\ q.handMade = t.handMade /\ q.signed = t.signed \cup X
               /\ Instructions(q) = Instructions(t)
  BY <1>1, <1>5, BrowserChange
<1>7. TransactionOK(q)
  BY <1>4, <1>6 DEF TransactionOK, Stages
<1>8. PICK ix : /\ t.ixs = <<ix>> /\ ix.wallet = Owner /\ NeedsCoSign(ix)
                /\ ix.lock = t.coSign
  BY <1>4 DEF BuiltOK
<1>9. Instructions(t) = {ix} /\ IxOK(ix) /\ Standard(ix)
  BY <1>4, <1>8, InstructionsOf DEF TransactionOK
<1>10. HolderOf(secret, t.coSign) \in Signers(ix)
  BY <1>4, <1>9 DEF MayCoSign
<1>11. Signers(ix) \subseteq X \cup {Owner}
  <2>1. HolderOf(secret, t.coSign) \in X
    BY <1>2 DEF ServiceSignatures
  <2>2. CASE ~Attests(ix)
    <3>1. Signers(ix) = {Owner, ix.holder}
      BY <1>8, <1>9, <2>2, OwnersSigners DEF IxOK
    <3> QED
      BY <1>10, <2>1, <3>1, DerivedKeys
  <2>3. CASE Attests(ix)
    <3>1. Signers(ix) = {Owner, ix.holder, ix.attester}
      BY <1>8, <1>9, <2>3, OwnersSigners DEF IxOK
    <3>2. PICK s \in Secrets : ix.holder = HolderOf(s, t.coSign) /\ ix.attester = AuthorityOf(s)
      BY <1>8, <1>9, <2>3 DEF Standard
    <3>3. s = secret
      BY <1>10, <3>1, <3>2, DerivedKeys
    <3>4. AuthorityOf(secret) \in X
      BY <1>2, <1>9, <3>1, <3>2, <3>3 DEF ServiceSignatures
    <3> QED
      BY <2>1, <3>1, <3>2, <3>3, <3>4
  <2> QED
    BY <2>2, <2>3
<1>12. Scope(q)
  BY <1>2, <1>4, <1>6, ServiceScope DEF BrowserOK
<1>13. BrowserOK(q)
  BY <1>4, <1>6, <1>9, <1>11, <1>12 DEF BrowserOK, CoSignedOK
<1>14. LedgerOK(ledger') /\ secret' \in Secrets \cup {NoSecret}
  BY DEF CoSign, TxInv
<1> QED
  BY <1>3, <1>6, <1>7, <1>13, <1>14, DeskChange

LEMMA CoSignCallKeeps == ASSUME TxInv, NEW l \in Locks, CoSignCall(l) PROVE TxInv'
<1>1. PICK t : t = tx["browser"]
  OBVIOUS
<1>2. PICK X : X = ServiceSignatures(t, l)
  OBVIOUS
<1>3. "browser" \in Desks /\ DOMAIN tx = Desks
  BY DEF Desks, TxInv
<1>4. /\ t.stage = "signed" /\ t.handMade /\ MayCoSign(t, l)
      /\ TransactionOK(t) /\ BrowserOK(t)
  BY <1>1, <1>3 DEF CoSignCall, TxInv
<1>5. tx' = [tx EXCEPT !["browser"].signed = t.signed \cup X]
  BY <1>1, <1>2 DEF CoSignCall
<1>6. PICK q : q = [t EXCEPT !.signed = t.signed \cup X]
  OBVIOUS
<1>7. tx' = [tx EXCEPT !["browser"] = q]
  BY <1>1, <1>3, <1>5, <1>6
<1>8. /\ DOMAIN q = {"stage", "ixs", "coSign", "signed", "handMade"} /\ q.stage = "signed"
      /\ q.ixs = t.ixs /\ q.coSign = t.coSign /\ q.handMade = t.handMade
      /\ q.signed = t.signed \cup X
  BY <1>4, <1>6 DEF TransactionOK
<1>9. Instructions(q) = Instructions(t)
  BY <1>8 DEF Instructions
<1>10. TransactionOK(q)
  BY <1>4, <1>8, <1>9 DEF TransactionOK, Stages
<1>11. Scope(q)
  BY <1>2, <1>4, <1>8, <1>9, ServiceScope DEF BrowserOK
<1>12. BrowserOK(q)
  BY <1>4, <1>8, <1>11 DEF BrowserOK
<1>13. LedgerOK(ledger') /\ secret' \in Secrets \cup {NoSecret}
  BY DEF CoSignCall, TxInv
<1> QED
  BY <1>3, <1>7, <1>10, <1>12, <1>13, DeskChange

LEMMA WalletSignsKeeps == ASSUME TxInv, WalletSigns PROVE TxInv'
<1>1. PICK t : t = tx["browser"]
  OBVIOUS
<1>2. "browser" \in Desks
  BY DEF Desks
<1>3. /\ t.stage = IF t.coSign = NoLock THEN "built" ELSE "coSigned"
      /\ TransactionOK(t) /\ BrowserOK(t)
  BY <1>1, <1>2 DEF WalletSigns, TxInv
<1>4. PICK X : X = {Owner}
  OBVIOUS
<1>5. tx' = Advanced("signed", X)
  BY <1>4 DEF WalletSigns, Advanced
<1>6. PICK q : /\ tx' = [tx EXCEPT !["browser"] = q]
               /\ DOMAIN q = {"stage", "ixs", "coSign", "signed", "handMade"}
               /\ q.stage = "signed" /\ q.ixs = t.ixs /\ q.coSign = t.coSign
               /\ q.handMade = t.handMade /\ q.signed = t.signed \cup X
               /\ Instructions(q) = Instructions(t)
  BY <1>1, <1>5, BrowserChange
<1>7. FullySigned(q)
  <2>1. CASE t.coSign = NoLock
    <3>1. PICK ix : t.ixs = <<ix>> /\ ix.wallet = Owner /\ ~NeedsCoSign(ix)
      BY <1>3, <2>1 DEF BrowserOK, BuiltOK
    <3>2. Instructions(t) = {ix} /\ IxOK(ix) /\ Standard(ix)
      BY <1>3, <2>1, <3>1, InstructionsOf DEF TransactionOK, BrowserOK
    <3>3. Signers(ix) = {Owner}
      BY <3>1, <3>2, OwnersSigners DEF IxOK
    <3> QED
      BY <1>4, <1>6, <3>2, <3>3 DEF FullySigned
  <2>2. CASE t.coSign # NoLock
    BY <1>3, <1>4, <1>6, <2>2 DEF BrowserOK, CoSignedOK, FullySigned
  <2> QED
    BY <2>1, <2>2
<1>8. TransactionOK(q)
  BY <1>3, <1>6 DEF TransactionOK, Stages
<1>9. Scope(q)
  BY <1>3, <1>4, <1>6, DerivedKeys DEF BrowserOK, Scope
<1>10. BrowserOK(q)
  BY <1>3, <1>6, <1>7, <1>9 DEF BrowserOK
<1>11. LedgerOK(ledger') /\ secret' \in Secrets \cup {NoSecret}
  BY DEF WalletSigns, TxInv
<1> QED
  BY <1>2, <1>6, <1>8, <1>10, <1>11, DeskChange

LEMMA SendKeeps == ASSUME TxInv, Send PROVE TxInv'
<1>1. PICK t : t = tx["browser"]
  OBVIOUS
<1>2. "browser" \in Desks
  BY DEF Desks
<1>3. t.stage = "signed" /\ TransactionOK(t) /\ BrowserOK(t) /\ FullySigned(t)
  BY <1>1, <1>2 DEF Send, TxInv
<1>4. PICK q : q = [t EXCEPT !.stage = "sent"]
  OBVIOUS
<1>5. /\ DOMAIN q = {"stage", "ixs", "coSign", "signed", "handMade"} /\ q.stage = "sent"
      /\ q.ixs = t.ixs /\ q.coSign = t.coSign /\ q.signed = t.signed
      /\ q.handMade = t.handMade
  BY <1>3, <1>4 DEF TransactionOK
<1>6. tx' = [tx EXCEPT !["browser"] = q]
  BY <1>1, <1>2, <1>4 DEF Send, TxInv
<1>7. Instructions(q) = Instructions(t)
  BY <1>5 DEF Instructions
<1>8. TransactionOK(q)
  BY <1>3, <1>5, <1>7 DEF TransactionOK, Stages, FullySigned
<1>9. BrowserOK(q)
  BY <1>3, <1>5, <1>7 DEF BrowserOK, Scope
<1>10. LedgerOK(ledger') /\ secret' \in Secrets \cup {NoSecret}
  BY DEF Send, TxInv
<1> QED
  BY <1>2, <1>6, <1>8, <1>9, <1>10, DeskChange

LEMMA ScriptKeeps ==
    ASSUME TxInv, NEW ixs, NEW signed, Script(ixs, signed), Listing(ixs),
           \A ix : (\E i \in DOMAIN ixs : ix = ixs[i]) =>
                       IxOK(ix) /\ Standard(ix) /\ Signers(ix) \subseteq signed
    PROVE  TxInv'
<1>1. PICK n : n = NoTx
  OBVIOUS
<1>2. PICK q : q = [n EXCEPT !.stage = "sent", !.ixs = ixs, !.signed = signed]
  OBVIOUS
<1>3. /\ DOMAIN n = {"stage", "ixs", "coSign", "signed", "handMade"} /\ n.coSign = NoLock
      /\ n.handMade = FALSE
  BY <1>1 DEF NoTx
<1>4. /\ DOMAIN q = {"stage", "ixs", "coSign", "signed", "handMade"} /\ q.stage = "sent"
      /\ q.ixs = ixs /\ q.coSign = NoLock /\ q.signed = signed /\ q.handMade = FALSE
  BY <1>2, <1>3
<1>5. \A ix \in Instructions(q) : IxOK(ix) /\ Standard(ix) /\ Signers(ix) \subseteq signed
  BY <1>4 DEF Instructions
<1>6. TransactionOK(q)
  BY <1>4, <1>5 DEF TransactionOK, Stages, FullySigned
<1>7. tx' = [tx EXCEPT !["script"] = q]
  BY <1>1, <1>2 DEF Script
<1>8. LedgerOK(ledger') /\ secret' \in Secrets \cup {NoSecret} /\ "script" \in Desks
      /\ "script" # "browser"
  BY DEF Script, TxInv, Desks
<1> QED
  BY <1>4, <1>6, <1>7, <1>8, DeskChange DEF ScriptOK

LEMMA SingleScript ==
    ASSUME TxInv, NEW ix, NEW signed, Script(<<ix>>, signed), IxOK(ix), Standard(ix),
           Signers(ix) \subseteq signed
    PROVE  TxInv'
<1>1. Listing(<<ix>>) /\ DOMAIN <<ix>> = {1} /\ <<ix>>[1] = ix
  BY DEF Listing
<1> QED
  BY <1>1, ScriptKeeps

\* An instruction of the operator's own.
LEMMA AdminIx ==
    ASSUME NEW ix, NEW name, NEW attester,
           Filled(ix, name, Admin, NoLock, Nobody, Nobody, attester, Nobody),
           name \in Names \ LockNames,
           name = "setCustodyAuthority" => attester \in Authorities
    PROVE  IxOK(ix) /\ Standard(ix) /\ Signers(ix) = {Admin}
<1>1. /\ ~Attests(ix) /\ DemandedSigners(ix) = {Admin} /\ ix.name # "createLock"
      /\ ix.extra = {} /\ ix.name \in Names
  BY DEF Filled, Attests, Custodial, DemandedSigners, Names, LockNames
<1>2. Signers(ix) = {Admin}
  BY <1>1, SignersDemanded
<1> QED
  BY <1>1, <1>2 DEF IxOK, Standard, Filled

LEMMA AdminScript ==
    ASSUME TxInv, NEW name \in Names \ LockNames, name # "setCustodyAuthority",
           Script(<<Blank(name, Admin)>>, {Admin})
    PROVE  TxInv'
BY BlankIs, AdminIx, SingleScript

LEMMA PoolScriptsKeep == ASSUME TxInv, PoolScripts PROVE TxInv'
<1>1. ASSUME NEW k \in BOOLEAN, CreatePool(k) PROVE TxInv'
  <2>1. PICK c : c = [Blank("createBoostPool", Admin) EXCEPT !.poolTokens = k]
    OBVIOUS
  <2>2. PICK e : e = Spl
    OBVIOUS
  <2>a. Filled(c, "createBoostPool", Admin, NoLock, Nobody, Nobody, Nobody, Nobody)
    BY <2>1, CreateBoostPoolIs
  <2>b. Filled(e, "spl", Admin, NoLock, Nobody, Nobody, Nobody, Nobody)
    BY <2>2, BlankIs DEF Spl
  <2>c. {"createBoostPool", "spl"} \subseteq Names \ LockNames
    BY DEF Names, LockNames, ProtocolNames
  <2>3. /\ IxOK(c) /\ Standard(c) /\ Signers(c) = {Admin} /\ c.name # "setCustodyAuthority"
        /\ IxOK(e) /\ Standard(e) /\ Signers(e) = {Admin}
    <3>1. c.name = "createBoostPool"
      BY <2>a DEF Filled
    <3>2. IxOK(c) /\ Standard(c) /\ Signers(c) = {Admin}
      BY <2>a, <2>c, AdminIx
    <3>3. IxOK(e) /\ Standard(e) /\ Signers(e) = {Admin}
      BY <2>b, <2>c, AdminIx
    <3> QED
      BY <3>1, <3>2, <3>3
  <2>4. CASE k
    <3>1. Script(<<c, e>>, {Admin})
      BY <1>1, <2>1, <2>2, <2>4 DEF CreatePool
    <3>2. Listing(<<c, e>>) /\ DOMAIN <<c, e>> = {1, 2} /\ <<c, e>>[1] = c /\ <<c, e>>[2] = e
      BY <2>3 DEF Listing
    <3> QED
      BY <2>3, <3>1, <3>2, ScriptKeeps
  <2>5. CASE ~k
    <3>1. Script(<<c>>, {Admin})
      BY <1>1, <2>1, <2>5 DEF CreatePool
    <3> QED
      BY <2>3, <3>1, SingleScript
  <2> QED
    BY <2>4, <2>5
<1>2. CASE FundPool \/ WithdrawPool \/ UpdatePool
  BY <1>2, AdminScript DEF FundPool, WithdrawPool, UpdatePool, Spl, Names, LockNames, ProtocolNames
<1> QED
  BY <1>1, <1>2, AssetsAssumption DEF PoolScripts

\* The owner's instructions: who signs them is in what the script signs with.
LEMMA OwnerScript ==
    ASSUME TxInv, NEW ix, NEW l \in Locks, NEW signed, Script(<<ix>>, signed), OwnersIx(ix, l),
           Owner \in signed, NeedsCoSign(ix) => ix.holder \in signed,
           Attests(ix) => ix.attester \in signed
    PROVE  TxInv'
<1>1. Signers(ix) \subseteq signed
  BY OwnersSigners DEF OwnersIx, IxOK
<1> QED
  BY <1>1, SingleScript DEF OwnersIx

LEMMA CleanUpKeeps ==
    ASSUME TxInv, NEW s \in Secrets, NEW l \in Locks, CleanUp(s, l)
    PROVE  TxInv'
<1>1. PICK ix : /\ ix = CloseLockIx(l) \/ \E pool : ix = WithdrawIx(l, pool)
                /\ Script(<<ix>>, Locally(s, l))
  BY DEF CleanUp
<1>2. At(l).auth = HolderOf(s, l)
  BY DEF CleanUp
<1>3. OwnersIx(ix, l) /\ ~Attests(ix) /\ (NeedsCoSign(ix) => ix.holder = At(l).auth)
  BY <1>1, ModeIxOK
<1> QED
  BY <1>1, <1>2, <1>3, OwnerScript DEF Locally

LEMMA SmokeTestKeeps ==
    ASSUME TxInv, NEW s \in Secrets, NEW l \in Locks, SmokeTest(s, l)
    PROVE  TxInv'
<1>1. ASSUME NEW ix, Script(<<ix>>, Locally(s, l)),
             ix = MigrateLockIx(l, s) \/ \E pool : ix = CreateLockCustodialIx(l, pool, s)
      PROVE  TxInv'
  <2>1. /\ OwnersIx(ix, l)
        /\ ix.holder = HolderOf(s, l) /\ ix.attester = AuthorityOf(s)
    BY <1>1, AttestingIxOK
  <2> QED
    BY <1>1, <2>1, OwnerScript DEF Locally
<1>2. ASSUME NEW pool, Script(<<CreateLockIx(l, pool)>>, {Owner})
      PROVE  TxInv'
  <2>1. PICK ix : ix = CreateLockIx(l, pool)
    OBVIOUS
  <2>2. OwnersIx(ix, l) /\ ~NeedsCoSign(ix) /\ ~Attests(ix)
    BY <2>1, CreateLockOK DEF NeedsCoSign, Attests, Custodial
  <2> QED
    BY <1>2, <2>1, <2>2, OwnerScript
<1>3. ASSUME NEW pool, At(l).auth = HolderOf(s, l),
             Script(<<ClaimSolRewardsIx(l, pool)>>, Locally(s, l))
      PROVE  TxInv'
  <2>1. PICK ix : ix = ClaimSolRewardsIx(l, pool)
    OBVIOUS
  <2>2. OwnersIx(ix, l) /\ ~Attests(ix) /\ (NeedsCoSign(ix) => ix.holder = At(l).auth)
    BY <2>1, ModeIxOK
  <2> QED
    BY <1>3, <2>1, <2>2, OwnerScript DEF Locally
<1> QED
  BY <1>1, <1>2, <1>3 DEF SmokeTest

LEMMA ScriptNextKeeps == ASSUME TxInv, ScriptNext PROVE TxInv'
<1>1. CASE InitConfig
  BY <1>1, AdminScript DEF InitConfig, Names, LockNames, ProtocolNames
<1>2. ASSUME NEW s \in Secrets, SetCustodyAuthority(s) PROVE TxInv'
  <2>1. PICK ix : ix = [Blank("setCustodyAuthority", Admin) EXCEPT !.attester = AuthorityOf(s)]
    OBVIOUS
  <2>2. IxOK(ix) /\ Standard(ix) /\ Signers(ix) = {Admin}
    BY <2>1, SetCustodyAuthorityIs, AdminIx DEF Authorities, Names, LockNames, ProtocolNames
  <2> QED
    BY <1>2, <2>1, <2>2, SingleScript DEF SetCustodyAuthority
<1> QED
  BY <1>1, <1>2, PoolScriptsKeep, CleanUpKeeps, SmokeTestKeeps DEF ScriptNext

\* What a step does to a lock, if it does anything, is done by a transaction.
Justified ==
    \/ \A t : Steps(ledger, ledger', t)
    \/ \E d \in Desks : /\ tx[d].stage = "sent" /\ tx'[d] = NoTx
                        /\ Steps(ledger, ledger', tx[d])

LEMMA ExecuteKeeps ==
    ASSUME TxInv, NEW d \in Desks, Execute(d)
    PROVE  TxInv' /\ Justified
<1>1. PICK t : t = tx[d]
  OBVIOUS
<1>2. t.stage = "sent" /\ TransactionOK(t) /\ LedgerOK(ledger) /\ Outcome(t).ok
  BY <1>1 DEF Execute, TxInv
<1>3. \A ix \in Instructions(t) : DemandedSigners(ix) \subseteq t.signed
  BY <1>2, SignersDemanded DEF TransactionOK, FullySigned, IxOK
<1>4. LedgerOK(ledger') /\ Steps(ledger, ledger', t)
  BY <1>1, <1>2, <1>3, OutcomeKeepsLedger DEF Execute, TransactionOK
<1>5. PICK q : q = NoTx
  OBVIOUS
<1>6. tx' = [tx EXCEPT ![d] = q] /\ DOMAIN tx = Desks
  BY <1>5 DEF Execute, TxInv
<1>7. tx'[d] = NoTx
  BY <1>5, <1>6
<1>8. TxInv'
  BY <1>4, <1>5, <1>6, NoTxOK, DeskChange DEF Execute, TxInv
<1> QED
  BY <1>1, <1>2, <1>4, <1>7, <1>8 DEF Justified

LEMMA TimePassesKeeps ==
    ASSUME TxInv, NEW locks \in SUBSET Locks, TimePasses(locks)
    PROVE  TxInv' /\ Justified
<1>1. \A l \in Locks : RecordOK(ledger.locks[l], l)
  BY DEF TxInv, LedgerOK
<1>2. PICK f : f = [l \in Locks |-> IF l \in locks THEN [At(l) EXCEPT !.stage = "matured"]
                                                   ELSE At(l)]
  OBVIOUS
<1>3. ASSUME NEW l \in Locks
      PROVE  /\ RecordOK(f[l], l) /\ f[l].auth = ledger.locks[l].auth
             /\ f[l].stage = ledger.locks[l].stage \/ f[l].stage = "matured"
  <2>1. CASE l \in locks
    <3>1. ledger.locks[l].stage = "locked"
      BY <2>1 DEF TimePasses, Mature, At
    <3>2. PICK k : k = [ledger.locks[l] EXCEPT !.stage = "matured"]
      OBVIOUS
    <3>3. RecordOK(k, l) /\ k.auth = ledger.locks[l].auth /\ k.stage = "matured"
      BY <1>1, <3>1, <3>2, RecordFieldChange DEF RecordOK
    <3> QED
      BY <1>2, <2>1, <3>2, <3>3 DEF At
  <2>2. CASE l \notin locks
    BY <1>1, <1>2, <2>2 DEF At
  <2> QED
    BY <2>1, <2>2
<1>4. ledger' = [ledger EXCEPT !.locks = f]
  BY <1>2 DEF TimePasses, Mature
<1>5. /\ DOMAIN ledger' = DOMAIN ledger /\ ledger'.config = ledger.config
      /\ ledger'.attested = ledger.attested /\ ledger'.pool = ledger.pool /\ ledger'.locks = f
  BY <1>4 DEF TxInv, LedgerOK
<1>6. DOMAIN f = Locks
  BY <1>2
<1>7. LedgerOK(ledger')
  BY <1>3, <1>5, <1>6 DEF TxInv, LedgerOK
<1>8. \A t : Steps(ledger, ledger', t)
  BY <1>3, <1>5, <1>6 DEF Steps, Entered, Opened, Cust
<1> QED
  BY <1>7, <1>8 DEF TxInv, TimePasses, Justified

LEMMA NotSentKeeps == ASSUME TxInv, NotSent PROVE TxInv'
<1>1. PICK q : q = NoTx
  OBVIOUS
<1>2. tx' = [tx EXCEPT !["browser"] = q]
  BY <1>1 DEF NotSent
<1>3. TransactionOK(q) /\ BrowserOK(q)
  BY <1>1, NoTxOK
<1>4. LedgerOK(ledger') /\ secret' \in Secrets \cup {NoSecret} /\ "browser" \in Desks
  BY DEF NotSent, TxInv, Desks
<1> QED
  BY <1>2, <1>3, <1>4, DeskChange

LEMMA NextKeeps == TxInv /\ [Next]_vars => TxInv' /\ Justified
<1> SUFFICES ASSUME TxInv, [Next]_vars PROVE TxInv' /\ Justified
  OBVIOUS
<1>1. ledger' = ledger => Justified
  BY SameLocks DEF Justified
<1>2. CASE BrowserNext
  <2>1. ledger' = ledger
    BY <1>2 DEF BrowserNext, Build, BuildCall, CoSign, CoSignCall, NotSent, WalletSigns, Send
  <2> QED
    BY <1>1, <1>2, <2>1, NotSentKeeps, BuildKeeps, BuildCallKeeps, CoSignKeeps, CoSignCallKeeps,
       WalletSignsKeeps, SendKeeps DEF BrowserNext
<1>3. CASE ScriptNext
  <2>1. ledger' = ledger
    BY <1>3 DEF ScriptNext, InitConfig, SetCustodyAuthority, PoolScripts, CreatePool, FundPool,
                WithdrawPool, UpdatePool, CleanUp, SmokeTest, Script
  <2> QED
    BY <1>1, <1>3, <2>1, ScriptNextKeeps
<1>4. CASE \E d \in Desks : Execute(d)
  BY <1>4, ExecuteKeeps
<1>5. CASE \E d \in Desks : Lose(d)
  BY <1>1, <1>5, NoTxOK, DeskChange DEF Lose, TxInv
<1>6. CASE \E locks \in SUBSET Locks : TimePasses(locks)
  BY <1>6, TimePassesKeeps
<1>7. CASE \E s \in Secrets \cup {NoSecret} : Deploy(s)
  BY <1>1, <1>7 DEF Deploy, TxInv
<1>8. CASE UNCHANGED vars
  BY <1>1, <1>8 DEF vars, TxInv
<1> QED
  BY <1>2, <1>3, <1>4, <1>5, <1>6, <1>7, <1>8 DEF Next, WorldNext

\* What changes the custody of a lock, or opens it, is an executed transaction.
LEMMA ByTransaction ==
    ASSUME Justified, NEW l \in Locks, LedgerOK(ledger), LedgerOK(ledger'),
           \/ ~IsCustodial(l) /\ IsCustodial(l)'
           \/ Opens(l) /\ At(l).auth \in DerivedHolders
    PROVE  \E d \in Desks : Executed(d) /\ Steps(ledger, ledger', tx[d])
<1>1. ledger' # ledger
  BY DEF IsCustodial, Opens, At
<1>2. CASE \A t : Steps(ledger, ledger', t)
  <2>1. PICK t : t = [signed |-> {}, handMade |-> FALSE]
    OBVIOUS
  <2>2. t.signed = {}
    BY <2>1
  <2>3. Entered(ledger, ledger', t) /\ Opened(ledger, ledger', t)
    BY <1>2 DEF Steps
  <2>4. CASE ~IsCustodial(l) /\ IsCustodial(l)'
    BY <2>2, <2>3, <2>4 DEF Entered, Cust, IsCustodial, At
  <2>5. CASE Opens(l) /\ At(l).auth \in DerivedHolders
    BY <2>2, <2>3, <2>5 DEF Opened, Opens, At
  <2> QED
    BY <2>4, <2>5
<1>3. CASE \E d \in Desks : /\ tx[d].stage = "sent" /\ tx'[d] = NoTx
                            /\ Steps(ledger, ledger', tx[d])
  BY <1>1, <1>3 DEF Executed
<1> QED
  BY <1>2, <1>3 DEF Justified

(***************************************************************************)
(* The theorems.                                                           *)
(***************************************************************************)
\* The inductive invariant holds of every state.
THEOREM TransactionsInv == Spec => []TxInv
<1>1. Init => TxInv
  BY InitInv
<1>2. TxInv /\ [Next]_vars => TxInv'
  BY NextKeeps
<1> QED
  BY <1>1, <1>2, PTL DEF Spec

\* The types of the ledger, the service and the transactions, and nothing more.
THEOREM TransactionTypes == Spec => []TxTypeOK
<1>1. TxInv => TxTypeOK
  <2> SUFFICES ASSUME TxInv PROVE TxTypeOK
    OBVIOUS
  <2>1. /\ ledger.config \in BOOLEAN
        /\ ledger.attested \in {Nobody} \cup {AuthorityOf(s) : s \in Secrets}
        /\ ledger.pool \in {"none", "sol", "token"}
    BY DEF TxInv, LedgerOK, Authorities
  <2>2. \A l \in Locks :
           /\ At(l).stage \in {"free", "locked", "matured", "withdrawn"}
           /\ At(l).auth \in {Nobody, VaultAuthorityAt(l), CallersKey}
                                \cup {HolderOf(s, k) : s \in Secrets, k \in Locks}
    BY DEF TxInv, LedgerOK, RecordOK, At, Holders, DerivedHolders
  <2>3. ASSUME NEW d \in Desks
        PROVE  /\ tx[d].stage \in Stages
               /\ \A ix \in Instructions(tx[d]) :
                     ix.name \in Names /\ ix.lock \in Locks \cup {NoLock}
               /\ tx[d].coSign \in Locks \cup {NoLock}
               /\ tx[d].stage = "coSigned" => tx[d].coSign # NoLock
               /\ tx[d].handMade => d = "browser" /\ tx[d].coSign = NoLock
    BY <2>3, LocksAssumption DEF TxInv, TransactionOK, IxOK, BrowserOK, ScriptOK, Desks
  <2> QED
    BY <2>1, <2>2, <2>3 DEF TxInv, TxTypeOK
<1> QED
  BY <1>1, TransactionsInv, PTL

\* A lock under a key of the service is withdrawn or closed only with the signature of that
\* key; and the service gives it only to transactions that list, in every instruction, the
\* lock that the key was derived for, whatever callers put together.
THEOREM CustodyIsOpenedByHolder == Spec => CustodyOpensOnRequest
<1>1. TxInv /\ [Next]_vars =>
         [\A l \in Locks : Opens(l) =>
             \A s \in Secrets, k \in Locks : At(l).auth = HolderOf(s, k) =>
                 \E d \in Desks :
                     /\ Executed(d)
                     /\ HolderOf(s, k) \in tx[d].signed
                     /\ d = "browser" =>
                           \A ix \in Instructions(tx[d]) : LockAt(k) \in Listed(ix)]_vars
  <2> SUFFICES ASSUME TxInv, [Next]_vars, NEW l \in Locks, Opens(l),
                      NEW s \in Secrets, NEW k \in Locks, At(l).auth = HolderOf(s, k)
               PROVE  \E d \in Desks :
                         /\ Executed(d)
                         /\ HolderOf(s, k) \in tx[d].signed
                         /\ d = "browser" =>
                               \A ix \in Instructions(tx[d]) : LockAt(k) \in Listed(ix)
    OBVIOUS
  <2>1. Justified /\ LedgerOK(ledger) /\ LedgerOK(ledger')
    BY NextKeeps DEF TxInv
  <2>2. At(l).auth \in DerivedHolders
    BY DEF DerivedHolders
  <2>3. PICK d \in Desks : Executed(d) /\ Steps(ledger, ledger', tx[d])
    BY <2>1, <2>2, ByTransaction
  <2>4. HolderOf(s, k) \in tx[d].signed
    BY <2>2, <2>3 DEF Steps, Opened, Opens, At
  <2>5. d = "browser" => \A ix \in Instructions(tx[d]) : LockAt(k) \in Listed(ix)
    BY <2>4 DEF TxInv, BrowserOK, Scope
  <2> QED
    BY <2>3, <2>4, <2>5
<1> QED
  BY <1>1, TransactionsInv, PTL DEF Spec, CustodyOpensOnRequest

\* Page, service, interface and program agree on who has to sign.
THEOREM NoSignatureMissing == Spec => []SignaturesComplete
<1>1. TxInv => SignaturesComplete
  <2> SUFFICES ASSUME TxInv, NEW d \in Desks,
                      tx[d].stage \in (IF tx[d].handMade THEN {"sent"} ELSE {"signed", "sent"}),
                      NEW ix \in Instructions(tx[d])
               PROVE  Signers(ix) \cup DemandedSigners(ix) \subseteq tx[d].signed
    BY DEF SignaturesComplete
  <2>1. FullySigned(tx[d]) /\ IxOK(ix)
    <3>1. CASE tx[d].stage = "sent"
      BY <3>1 DEF TxInv, TransactionOK
    <3>2. CASE d = "browser" /\ tx[d].stage = "signed" /\ ~tx[d].handMade
      BY <3>2 DEF TxInv, TransactionOK, BrowserOK
    <3>3. d = "script" => tx[d].stage # "signed"
      BY DEF TxInv, ScriptOK
    <3> QED
      BY <3>1, <3>2, <3>3 DEF Desks
  <2> QED
    BY <2>1, SignersDemanded DEF FullySigned, IxOK
<1> QED
  BY <1>1, TransactionsInv, PTL

\* No instruction that is built fails a privilege check of the runtime.
THEOREM InterfaceFitsProgram == Spec => []PrivilegesSuffice
<1>1. TxInv => PrivilegesSuffice
  BY AlwaysPrivileged DEF TxInv, TransactionOK, IxOK, PrivilegesSuffice
<1> QED
  BY <1>1, TransactionsInv, PTL

\* The service signs what the page asks for, unless its secret was replaced.
THEOREM PageIsServed == Spec => []ServiceServesPage
<1>1. TxInv => ServiceServesPage
  <2> SUFFICES ASSUME TxInv PROVE ServiceServesPage
    OBVIOUS
  <2>1. PICK t : t = tx["browser"]
    OBVIOUS
  <2>2. "browser" \in Desks
    BY DEF Desks
  <2>3. TransactionOK(t) /\ BrowserOK(t)
    BY <2>1, <2>2 DEF TxInv
  <2> SUFFICES ASSUME t.stage = "built", t.coSign # NoLock,
                      secret \in Secrets, t.ixs[1].holder = HolderOf(secret, t.coSign)
               PROVE  MayCoSign(t, t.coSign)
    BY <2>1 DEF ServiceServesPage
  <2>4. PICK ix : /\ t.ixs = <<ix>> /\ ix.wallet = Owner /\ NeedsCoSign(ix)
                  /\ ix.lock = t.coSign
    BY <2>3 DEF BrowserOK, BuiltOK
  <2>5. t.ixs[1] = ix /\ Instructions(t) = {ix} /\ IxOK(ix) /\ Standard(ix)
    BY <2>3, <2>4, InstructionsOf DEF TransactionOK, BrowserOK
  <2>6. ix.name \in AllowedIxNames
    BY <2>4 DEF NeedsCoSign, Custodial, AllowedIxNames
  <2>7. LockAt(t.coSign) \in Listed(ix)
    <3>1. W(LockAt(ix.lock)) \in AccountsOf(ix)
      BY <2>6 DEF AllowedIxNames, AccountsOf, CreateLockCustodialAccounts,
         MigrateLockToCustodialAccounts, WithdrawCustodialAccounts,
         ClaimSolRewardsCustodialAccounts, ClaimTokenRewardsCustodialAccounts,
         CloseLockCustodialAccounts
    <3> QED
      BY <2>4, <3>1 DEF Listed, Keys, W
  <2>8. HolderOf(secret, t.coSign) \in Signers(ix)
    BY <2>4, <2>5, OwnersSigners DEF IxOK
  <2> QED
    BY <2>5, <2>6, <2>7, <2>8 DEF MayCoSign
<1> QED
  BY <1>1, TransactionsInv, PTL

\* Custody begins with the signatures of the registered authority and of the key that becomes
\* the holder; in what page and scripts build, that key is the one derived for the lock from
\* the authority's secret, whichever secret the service runs with by then.
THEOREM HoldersAreAttested == Spec => HoldersAttested
<1>1. TxInv /\ [Next]_vars =>
         [\A l \in Locks :
             ~IsCustodial(l) /\ IsCustodial(l)' =>
                 \E d \in Desks :
                     /\ Executed(d)
                     /\ {ledger.attested, At(l)'.auth} \subseteq tx[d].signed
                     /\ \/ tx[d].handMade
                        \/ \E s \in Secrets : /\ At(l)'.auth = HolderOf(s, l)
                                              /\ ledger.attested = AuthorityOf(s)]_vars
  <2> SUFFICES ASSUME TxInv, [Next]_vars, NEW l \in Locks, ~IsCustodial(l), IsCustodial(l)'
               PROVE  \E d \in Desks :
                         /\ Executed(d)
                         /\ {ledger.attested, At(l)'.auth} \subseteq tx[d].signed
                         /\ \/ tx[d].handMade
                            \/ \E s \in Secrets : /\ At(l)'.auth = HolderOf(s, l)
                                                  /\ ledger.attested = AuthorityOf(s)
    OBVIOUS
  <2>1. Justified /\ LedgerOK(ledger) /\ LedgerOK(ledger')
    BY NextKeeps DEF TxInv
  <2>2. PICK d \in Desks : Executed(d) /\ Steps(ledger, ledger', tx[d])
    BY <2>1, ByTransaction
  <2>3. Cust(ledger', l) /\ ledger'.locks[l].auth # ledger.locks[l].auth
    BY DEF IsCustodial, Cust, At
  <2>4. /\ {ledger.attested, At(l)'.auth} \subseteq tx[d].signed
        /\ \/ tx[d].handMade
           \/ \E s \in Secrets : /\ At(l)'.auth = HolderOf(s, l)
                                 /\ ledger.attested = AuthorityOf(s)
    BY <2>2, <2>3 DEF Steps, Entered, At
  <2> QED
    BY <2>2, <2>4
<1> QED
  BY <1>1, TransactionsInv, PTL DEF Spec, HoldersAttested
=============================================================================
