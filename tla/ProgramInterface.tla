-------------------------- MODULE ProgramInterface --------------------------
(***************************************************************************)
(* The interface description of the holder_locker program, from which the  *)
(* web client, the custody service and the operator scripts build their    *)
(* instructions: the accounts that each instruction lists and the          *)
(* privileges, writable and signer, that it asks for each of them.  Beside *)
(* it, from the program's own source, the accounts that each handler       *)
(* changes and the signatures that its account structure demands.  The     *)
(* runtime fails an instruction that changes an account not listed as      *)
(* writable, and Anchor one that lacks a signature.                        *)
(*                                                                         *)
(* Addresses are tuples, tagged by what they are derived from, so that     *)
(* different derivations give different addresses.                         *)
(***************************************************************************)
CONSTANT NoLock    \* the lock of an instruction that names none

(***************************************************************************)
(* Addresses.                                                              *)
(***************************************************************************)
Config               == <<"config">>
CustodyConfig        == <<"custody">>
BoostPool            == <<"boost">>
LockAt(l)            == <<"lock", l>>
VaultAuthorityAt(l)  == <<"vault", l>>
Wallet(w)            == <<"wallet", w>>
Mint                 == <<"mint">>
RewardMint           == <<"rewardMint">>
Ata(owner, mint)     == <<"ata", owner, mint>>
Program              == <<"program", "holderLocker">>
TokenProgram         == <<"program", "token">>
SystemProgram        == <<"program", "system">>
AtaProgram           == <<"program", "associatedToken">>

\* The keys the service derives from its master secret: one for each lock, one authority.
HolderOf(s, l)       == <<"holder", s, l>>
AuthorityOf(s)       == <<"attester", s>>

(***************************************************************************)
(* An account of an instruction, with its privileges.                      *)
(***************************************************************************)
R(a)  == [at |-> a, writable |-> FALSE, signer |-> FALSE]
W(a)  == [at |-> a, writable |-> TRUE,  signer |-> FALSE]
S(a)  == [at |-> a, writable |-> FALSE, signer |-> TRUE]
WS(a) == [at |-> a, writable |-> TRUE,  signer |-> TRUE]

\* Mutant: optional accounts are listed as read-only.
OptionalReadOnly(given, a) == R(IF given THEN a ELSE Program)

\* An optional account that is not given is replaced by the program's own address.
Optional(given, a) == IF given THEN W(a) ELSE R(Program)

Programs == {R(TokenProgram), R(AtaProgram), R(SystemProgram)}

(***************************************************************************)
(* An instruction: its name and the addresses its builder filled in.       *)
(* "wallet" is the owner, the admin, the funder or the pool's authority;   *)
(* "auth" the vault authority; "holder" the custodial holder; "attester"   *)
(* the custody authority; "extra" the accounts appended to those of the    *)
(* interface, which the program does not look at.                          *)
(***************************************************************************)
Blank(name, wallet) ==
    [name |-> name, wallet |-> wallet, lock |-> NoLock, auth |-> Program, holder |-> Program,
     attester |-> Program, treasury |-> Program, pool |-> FALSE, poolTokens |-> FALSE,
     extra |-> {}]

Pool(ix)       == Optional(ix.pool, BoostPool)
PoolTokens(ix) == Optional(ix.poolTokens, Ata(BoostPool, RewardMint))

(***************************************************************************)
(* The accounts of each instruction.                                       *)
(***************************************************************************)
InitializeAccounts(ix)   == {W(Config), WS(ix.wallet), R(SystemProgram)}
UpdateConfigAccounts(ix) == {W(Config), S(ix.wallet)}

SetCustodyAuthorityAccounts(ix) ==
    {R(Config), WS(ix.wallet), W(CustodyConfig), R(SystemProgram)}

CreateLockAccounts(ix) ==
    {W(Config), W(ix.treasury), WS(ix.wallet), R(Mint), W(Ata(ix.wallet, Mint)),
     W(LockAt(ix.lock)), W(ix.auth), W(Ata(ix.auth, Mint)), Pool(ix)} \cup Programs

CreateLockCustodialAccounts(ix) ==
    {W(Config), W(ix.treasury), WS(ix.wallet), R(Mint), W(Ata(ix.wallet, Mint)),
     W(LockAt(ix.lock)), R(CustodyConfig), S(ix.attester), WS(ix.holder),
     W(Ata(ix.holder, Mint)), Pool(ix)} \cup Programs

TopUpAccounts(ix) ==
    {WS(ix.wallet), W(LockAt(ix.lock)), R(Mint), W(Ata(ix.wallet, Mint)), R(ix.auth),
     W(Ata(ix.auth, Mint)), Pool(ix), R(TokenProgram)}

ExtendLockAccounts(ix) == {S(ix.wallet), W(LockAt(ix.lock))}

WithdrawAccounts(ix) ==
    {WS(ix.wallet), W(LockAt(ix.lock)), R(Mint), W(Ata(ix.wallet, Mint)), W(ix.auth),
     W(Ata(ix.auth, Mint)), Pool(ix)} \cup Programs

WithdrawCustodialAccounts(ix) ==
    {WS(ix.wallet), W(LockAt(ix.lock)), R(Mint), W(Ata(ix.wallet, Mint)), WS(ix.holder),
     W(Ata(ix.holder, Mint)), Pool(ix)} \cup Programs

ClaimSolRewardsAccounts(ix) ==
    {W(Config), W(ix.treasury), WS(ix.wallet), W(LockAt(ix.lock)), W(ix.auth), Pool(ix),
     R(SystemProgram)}

ClaimSolRewardsCustodialAccounts(ix) ==
    {W(Config), W(ix.treasury), WS(ix.wallet), W(LockAt(ix.lock)), WS(ix.holder), Pool(ix),
     R(SystemProgram)}

ClaimTokenRewardsAccounts(ix) ==
    {R(Config), R(ix.treasury), WS(ix.wallet), W(LockAt(ix.lock)), W(ix.auth), R(RewardMint),
     W(Ata(ix.auth, RewardMint)), W(Ata(ix.wallet, RewardMint)),
     W(Ata(ix.treasury, RewardMint)), Pool(ix), PoolTokens(ix)} \cup Programs

ClaimTokenRewardsCustodialAccounts(ix) ==
    {R(Config), R(ix.treasury), WS(ix.wallet), W(LockAt(ix.lock)), WS(ix.holder), R(RewardMint),
     W(Ata(ix.holder, RewardMint)), W(Ata(ix.wallet, RewardMint)),
     W(Ata(ix.treasury, RewardMint)), Pool(ix), PoolTokens(ix)} \cup Programs

CloseLockAccounts(ix) ==
    {R(Config), W(ix.treasury), WS(ix.wallet), W(LockAt(ix.lock)), W(ix.auth), R(SystemProgram)}

CloseLockCustodialAccounts(ix) ==
    {R(Config), W(ix.treasury), WS(ix.wallet), W(LockAt(ix.lock)), WS(ix.holder),
     R(SystemProgram)}

MigrateLockToCustodialAccounts(ix) ==
    {W(Config), W(ix.treasury), WS(ix.wallet), W(LockAt(ix.lock)), R(Mint), W(ix.auth),
     W(Ata(ix.auth, Mint)), R(CustodyConfig), S(ix.attester), WS(ix.holder),
     W(Ata(ix.holder, Mint))} \cup Programs

CreateBoostPoolAccounts(ix) ==
    {R(Config), WS(ix.wallet), R(Mint), W(BoostPool), R(SystemProgram)} \cup
        (IF ix.poolTokens THEN {R(RewardMint), R(TokenProgram)} ELSE {R(Program)})

UpdateBoostPoolAccounts(ix)   == {WS(ix.wallet), W(BoostPool)}
FundBoostPoolAccounts(ix)     == {WS(ix.wallet), W(BoostPool), R(SystemProgram)}
WithdrawBoostPoolAccounts(ix) == {WS(ix.wallet), W(BoostPool)}

WithdrawBoostPoolTokensAccounts(ix) ==
    {WS(ix.wallet), R(BoostPool), R(RewardMint), W(Ata(BoostPool, RewardMint)),
     W(Ata(ix.wallet, RewardMint))} \cup Programs

\* Instructions of the token programs, which the pool script adds to its transactions: the
\* pool's token account is created, and funded from the operator's own.
SplAccounts(ix) ==
    {WS(ix.wallet), W(Ata(BoostPool, RewardMint)), W(Ata(ix.wallet, RewardMint)),
     R(BoostPool), R(RewardMint)} \cup Programs

AccountsOf(ix) ==
    CASE ix.name = "initialize"                 -> InitializeAccounts(ix)
      [] ix.name = "updateConfig"               -> UpdateConfigAccounts(ix)
      [] ix.name = "setCustodyAuthority"        -> SetCustodyAuthorityAccounts(ix)
      [] ix.name = "createLock"                 -> CreateLockAccounts(ix)
      [] ix.name = "createLockCustodial"        -> CreateLockCustodialAccounts(ix)
      [] ix.name = "topUp"                      -> TopUpAccounts(ix)
      [] ix.name = "extendLock"                 -> ExtendLockAccounts(ix)
      [] ix.name = "withdraw"                   -> WithdrawAccounts(ix)
      [] ix.name = "withdrawCustodial"          -> WithdrawCustodialAccounts(ix)
      [] ix.name = "claimSolRewards"            -> ClaimSolRewardsAccounts(ix)
      [] ix.name = "claimSolRewardsCustodial"   -> ClaimSolRewardsCustodialAccounts(ix)
      [] ix.name = "claimTokenRewards"          -> ClaimTokenRewardsAccounts(ix)
      [] ix.name = "claimTokenRewardsCustodial" -> ClaimTokenRewardsCustodialAccounts(ix)
      [] ix.name = "closeLock"                  -> CloseLockAccounts(ix)
      [] ix.name = "closeLockCustodial"         -> CloseLockCustodialAccounts(ix)
      [] ix.name = "migrateLockToCustodial"     -> MigrateLockToCustodialAccounts(ix)
      [] ix.name = "createBoostPool"            -> CreateBoostPoolAccounts(ix)
      [] ix.name = "updateBoostPool"            -> UpdateBoostPoolAccounts(ix)
      [] ix.name = "fundBoostPool"              -> FundBoostPoolAccounts(ix)
      [] ix.name = "withdrawBoostPool"          -> WithdrawBoostPoolAccounts(ix)
      [] ix.name = "withdrawBoostPoolTokens"    -> WithdrawBoostPoolTokensAccounts(ix)
      [] OTHER                                  -> SplAccounts(ix)

\* Everything that an instruction lists.
Keys(ix) == AccountsOf(ix) \cup ix.extra

Writable(ix) == {m.at : m \in {n \in Keys(ix) : n.writable}}
Signers(ix)  == {m.at : m \in {n \in Keys(ix) : n.signer}}
Listed(ix)   == {m.at : m \in Keys(ix)}

(***************************************************************************)
(* The program's side: the accounts each handler changes, rent paid or     *)
(* returned included, and the signatures its account structure demands.    *)
(***************************************************************************)
Custodial(ix) == ix.name \in {"createLockCustodial", "withdrawCustodial", "closeLockCustodial",
                              "claimSolRewardsCustodial", "claimTokenRewardsCustodial"}

\* The account that owns the vault: in custody the holder, else an address of the program.
VaultOwner(ix) == IF Custodial(ix) THEN ix.holder ELSE ix.auth

PoolWrites(ix) == IF ix.pool THEN {BoostPool} ELSE {}

CreateWrites(ix) ==
    {Config, ix.treasury, ix.wallet, Ata(ix.wallet, Mint), LockAt(ix.lock), VaultOwner(ix),
     Ata(VaultOwner(ix), Mint)} \cup PoolWrites(ix)

TopUpWrites(ix) ==
    {LockAt(ix.lock), Ata(ix.wallet, Mint), Ata(ix.auth, Mint)} \cup PoolWrites(ix)

WithdrawWrites(ix) ==
    {ix.wallet, LockAt(ix.lock), Ata(ix.wallet, Mint), Ata(VaultOwner(ix), Mint)}
        \cup PoolWrites(ix)

ClaimSolWrites(ix) ==
    {Config, ix.treasury, ix.wallet, LockAt(ix.lock), VaultOwner(ix)} \cup PoolWrites(ix)

ClaimTokenWrites(ix) ==
    {ix.wallet, LockAt(ix.lock), Ata(VaultOwner(ix), RewardMint), Ata(ix.wallet, RewardMint),
     Ata(ix.treasury, RewardMint)}
        \cup (IF ix.pool /\ ix.poolTokens THEN {BoostPool, Ata(BoostPool, RewardMint)} ELSE {})

CloseWrites(ix) == {ix.treasury, ix.wallet, LockAt(ix.lock), VaultOwner(ix)}

MigrateWrites(ix) ==
    {Config, ix.treasury, ix.wallet, LockAt(ix.lock), ix.auth, Ata(ix.auth, Mint), ix.holder,
     Ata(ix.holder, Mint)}

PoolTokenWrites(ix) == {ix.wallet, Ata(BoostPool, RewardMint), Ata(ix.wallet, RewardMint)}

Writes(ix) ==
    CASE ix.name = "initialize"                       -> {Config, ix.wallet}
      [] ix.name = "updateConfig"                     -> {Config}
      [] ix.name = "setCustodyAuthority"              -> {CustodyConfig, ix.wallet}
      [] ix.name \in {"createLock", "createLockCustodial"}             -> CreateWrites(ix)
      [] ix.name = "topUp"                                             -> TopUpWrites(ix)
      [] ix.name = "extendLock"                                        -> {LockAt(ix.lock)}
      [] ix.name \in {"withdraw", "withdrawCustodial"}                 -> WithdrawWrites(ix)
      [] ix.name \in {"claimSolRewards", "claimSolRewardsCustodial"}   -> ClaimSolWrites(ix)
      [] ix.name \in {"claimTokenRewards", "claimTokenRewardsCustodial"}
                                                                       -> ClaimTokenWrites(ix)
      [] ix.name \in {"closeLock", "closeLockCustodial"}               -> CloseWrites(ix)
      [] ix.name = "migrateLockToCustodial"                            -> MigrateWrites(ix)
      [] ix.name \in {"createBoostPool", "fundBoostPool", "withdrawBoostPool"}
                                                      -> {BoostPool, ix.wallet}
      [] ix.name = "updateBoostPool"                  -> {BoostPool}
      [] OTHER                                        -> PoolTokenWrites(ix)

DemandedSigners(ix) ==
    {ix.wallet}
        \cup (IF Custodial(ix) THEN {ix.holder} ELSE {})
        \cup (IF ix.name = "createLockCustodial" THEN {ix.attester} ELSE {})
        \cup (IF ix.name = "migrateLockToCustodial" THEN {ix.holder, ix.attester} ELSE {})

\* The runtime lets the handler run to its end.
Privileged(ix) == Writes(ix) \subseteq Writable(ix) /\ DemandedSigners(ix) \subseteq Signers(ix)
=============================================================================
