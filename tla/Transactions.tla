---------------------------- MODULE Transactions ----------------------------
(***************************************************************************)
(* Transactions on their way to the program: built by the web client or by *)
(* an operator's script from what the chain held at the time, co-signed by *)
(* the custody service where a holder key has to sign, signed by the       *)
(* wallet, sent, and executed against whatever the chain holds by then.    *)
(* Meanwhile the service may be deployed with another master secret, and   *)
(* an administrator may register another custody authority.                *)
(*                                                                         *)
(* Of the chain only the Ledger is kept, what decides whether an           *)
(* instruction is accepted; the balances are HolderLocker's.  One owner    *)
(* and one mint.                                                           *)
(***************************************************************************)
EXTENDS Ledger, Sequences, Naturals

CONSTANTS
    NoSecret,   \* the service runs without one, or with one that is too short
    Treasury,   \* the treasury's wallet
    CallerOps,  \* the operations that a caller of the service sends by itself
    BatchOps,   \* those of which a caller puts two in one transaction
    PoolAssets  \* what the operator creates pools for: the reward token (TRUE) or SOL

ASSUME SecretsAssumption == NoSecret \notin Secrets
ASSUME LocksAssumption   == NoLock \notin Locks
ASSUME AssetsAssumption  == PoolAssets \subseteq BOOLEAN

VARIABLES
    secret,     \* LOCK_MASTER_SECRET of the running service
    tx          \* the transaction in the owner's browser and that of the operator's script

vars == <<ledger, secret, tx>>

Desks  == {"browser", "script"}
Stages == {"idle", "built", "coSigned", "signed", "sent"}

\* "handMade" is a transaction that neither the page nor a script has put together;
\* "coSign" the lock that the page names to the service.
NoTx == [stage |-> "idle", ixs |-> << >>, coSign |-> NoLock, signed |-> {}, handMade |-> FALSE]

-----------------------------------------------------------------------------
(***************************************************************************)
(* The builders of instructions.  Each reads the chain, or what the page   *)
(* has read of it, and fills in the addresses.                             *)
(***************************************************************************)
IsCustodial(l) == At(l).auth \notin {Nobody, VaultAuthorityAt(l)}

\* Mutant: the migration is forgotten in the list.
AllowedWithoutMigration ==
    {"createLockCustodial", "withdrawCustodial", "claimSolRewardsCustodial",
     "claimTokenRewardsCustodial", "closeLockCustodial"}

\* ALLOWED_IX_NAMES: what a holder key may sign.
AllowedIxNames ==
    {"createLockCustodial", "migrateLockToCustodial", "withdrawCustodial",
     "claimSolRewardsCustodial", "claimTokenRewardsCustodial", "closeLockCustodial"}

LockIx(name, l) == [Blank(name, Owner) EXCEPT !.lock = l]

\* Mutant: the owner is filled in for the vault authority.
CreateLockOwnVaultIx(l, pool) ==
    [LockIx("createLock", l) EXCEPT !.auth = Owner, !.treasury = Treasury, !.pool = pool]

CreateLockIx(l, pool) ==
    [LockIx("createLock", l) EXCEPT !.auth = VaultAuthorityAt(l), !.treasury = Treasury,
                                    !.pool = pool]

\* fetchCustody: the holder and the authority are those of the service's secret s.
CreateLockCustodialIx(l, pool, s) ==
    [LockIx("createLockCustodial", l) EXCEPT !.holder = HolderOf(s, l),
        !.attester = AuthorityOf(s), !.treasury = Treasury, !.pool = pool]

MigrateLockIx(l, s) ==
    [LockIx("migrateLockToCustodial", l) EXCEPT !.auth = At(l).auth, !.treasury = Treasury,
        !.holder = HolderOf(s, l), !.attester = AuthorityOf(s)]

ExtendLockIx(l) == LockIx("extendLock", l)

TopUpIx(l, pool) == [LockIx("topUp", l) EXCEPT !.auth = At(l).auth, !.pool = pool]

\* In custody the recorded vault authority goes to the holder's slot.
ModeIx(trustless, custodial, l) ==
    IF IsCustodial(l) THEN [LockIx(custodial, l) EXCEPT !.holder = At(l).auth]
                      ELSE [LockIx(trustless, l) EXCEPT !.auth = At(l).auth]

WithdrawIx(l, pool) == [ModeIx("withdraw", "withdrawCustodial", l) EXCEPT !.pool = pool]

ClaimSolRewardsIx(l, pool) ==
    [ModeIx("claimSolRewards", "claimSolRewardsCustodial", l) EXCEPT !.treasury = Treasury,
                                                                     !.pool = pool]

\* A pool is passed, with its token account, when it pays in the reward token.
ClaimTokenRewardsIx(l, pool) ==
    [ModeIx("claimTokenRewards", "claimTokenRewardsCustodial", l) EXCEPT !.treasury = Treasury,
        !.pool = pool, !.poolTokens = pool]

CloseLockIx(l) == [ModeIx("closeLock", "closeLockCustodial", l) EXCEPT !.treasury = Treasury]

\* The pool that the page has read; the reading of it may have failed.
SeenPool(kinds) == {FALSE} \cup {ledger.pool \in kinds}

(***************************************************************************)
(* What the page offers for an address without a lock, and for a lock.     *)
(***************************************************************************)
CreateForms(l) ==
    {CreateLockIx(l, pool) : pool \in SeenPool({"sol", "token"})}
        \cup {CreateLockCustodialIx(l, pool, s) :
                 pool \in SeenPool({"sol", "token"}), s \in Secrets \cap {secret}}

ClaimButtons(l) ==
    {ClaimSolRewardsIx(l, pool) : pool \in SeenPool({"sol"})}
        \cup {ClaimTokenRewardsIx(l, pool) : pool \in SeenPool({"token"})}

MigrateButton(l) ==
    IF IsCustodial(l) THEN {} ELSE {MigrateLockIx(l, s) : s \in Secrets \cap {secret}}

LockButtons(l) ==
    {ExtendLockIx(l)} \cup MigrateButton(l)
        \cup {TopUpIx(l, pool) : pool \in SeenPool({"sol", "token"})}

WithdrawButton(l) == {WithdrawIx(l, pool) : pool \in SeenPool({"sol", "token"})}

Offered(l) ==
    CASE At(l).stage = "free"      -> CreateForms(l)
      [] At(l).stage = "locked"    -> ClaimButtons(l) \cup LockButtons(l)
      [] At(l).stage = "matured"   -> ClaimButtons(l) \cup LockButtons(l) \cup WithdrawButton(l)
      [] At(l).stage = "withdrawn" -> ClaimButtons(l) \cup {CloseLockIx(l)}

\* In custody the holder signs too, except for what moves nothing out of the vault.
NeedsCoSign(ix) == Custodial(ix) \/ ix.name = "migrateLockToCustodial"

-----------------------------------------------------------------------------
\* One that is refused fails the whole transaction.
Step(run, ix) ==
    IF run.ok /\ Accepts(ix, run.led) /\ Privileged(ix)
    THEN [run EXCEPT !.led = Effect(ix, run.led)] ELSE [run EXCEPT !.ok = FALSE]

Instructions(t) == {t.ixs[i] : i \in DOMAIN t.ixs}

\* The instructions in order: nothing here sends more than two.
Outcome(t) ==
    LET first == Step([ok |-> TRUE, led |-> ledger], t.ixs[1])
    IN  IF Len(t.ixs) = 1 THEN first ELSE Step(first, t.ixs[2])

-----------------------------------------------------------------------------
(***************************************************************************)
(* The owner's browser and the custody service.                            *)
(***************************************************************************)
Build(l) ==
    /\ tx["browser"].stage = "idle"
    /\ \E ix \in Offered(l) :
           tx' = [tx EXCEPT !["browser"] =
                     [NoTx EXCEPT !.stage = "built", !.ixs = <<ix>>,
                                  !.coSign = IF NeedsCoSign(ix) THEN l ELSE NoLock]]
    /\ UNCHANGED <<ledger, secret>>

-----------------------------------------------------------------------------
(***************************************************************************)
(* The signing route answers whoever calls it.  A caller fills in the      *)
(* slots that the program does not derive as it likes, and may append      *)
(* accounts; it asks for as many locks as it likes, and sends.             *)
(***************************************************************************)
CallersKey == Wallet("caller")      \* a key pair of the caller's own

\* The address that the service answers for lock k.
HolderAnswer(k) == {HolderOf(s, k) : s \in Secrets \cap {secret}}

\* Custody can begin under any key; later the program insists on the recorded one.
HolderSlots(name, l) ==
    IF name \in {"createLockCustodial", "migrateLockToCustodial"}
    THEN {CallersKey} \cup UNION {HolderAnswer(k) : k \in Locks} ELSE {At(l).auth}

\* Nothing is appended, or the address of a lock and the key derived for it.
Additions ==
    {{}} \cup UNION {{{R(LockAt(k)), S(h)} : h \in HolderAnswer(k)} : k \in Locks}

CallersIx(name, l, holder, extra) ==
    [LockIx(name, l) EXCEPT !.auth = VaultAuthorityAt(l), !.holder = holder,
        !.attester = ledger.attested, !.treasury = Treasury, !.extra = extra]

CallersIxs(names) ==
    UNION {{CallersIx(name, l, holder, extra) :
               holder \in HolderSlots(name, l), extra \in Additions} :
           name \in names \cap AllowedIxNames, l \in Locks}

CallersLists ==
    {<<ix>> : ix \in CallersIxs(CallerOps)}
        \cup {<<first, second>> : first \in CallersIxs(BatchOps), second \in CallersIxs(BatchOps)}

\* The caller has signed with its own keys.
BuildCall ==
    /\ tx["browser"].stage = "idle"
    /\ \E ixs \in CallersLists :
           tx' = [tx EXCEPT !["browser"] =
                     [NoTx EXCEPT !.stage = "signed", !.ixs = ixs, !.handMade = TRUE,
                                  !.signed = {Owner, CallersKey}]]
    /\ UNCHANGED <<ledger, secret>>

\* Mutant: the lock need not be named by every instruction.
MayCoSignUnnamed(t, l) ==
    /\ secret \in Secrets
    /\ \A ix \in Instructions(t) : ix.name \in AllowedIxNames
    /\ \E ix \in Instructions(t) : HolderOf(secret, l) \in Signers(ix)

\* coSign: every instruction is one a holder may sign and lists the lock, in whatever place,
\* and one of them lists the lock's holder as a signer.  The fee payer is the wallet.
MayCoSign(t, l) ==
    /\ secret \in Secrets
    /\ \A ix \in Instructions(t) : ix.name \in AllowedIxNames /\ LockAt(l) \in Listed(ix)
    /\ \E ix \in Instructions(t) : HolderOf(secret, l) \in Signers(ix)

\* Mutant: only creations are attested.
SignaturesOfCreation(t, l) ==
    {HolderOf(secret, l)}
        \cup {a \in {AuthorityOf(secret)} :
                 \E ix \in Instructions(t) : ix.name = "createLockCustodial"}

ServiceSignatures(t, l) ==
    {HolderOf(secret, l)}
        \cup {a \in {AuthorityOf(secret)} : \E ix \in Instructions(t) : a \in Signers(ix)}

\* The page asks, for the lock of its one instruction.
CoSign ==
    LET t == tx["browser"] IN
    /\ t.stage = "built" /\ t.coSign # NoLock
    /\ MayCoSign(t, t.coSign)
    /\ tx' = [tx EXCEPT !["browser"].stage = "coSigned",
                        !["browser"].signed = @ \cup ServiceSignatures(t, t.coSign)]
    /\ UNCHANGED <<ledger, secret>>

\* A caller asks, for any lock.
CoSignCall(l) ==
    LET t == tx["browser"] IN
    /\ t.stage = "signed" /\ t.handMade
    /\ MayCoSign(t, l)
    /\ ~(ServiceSignatures(t, l) \subseteq t.signed)
    /\ tx' = [tx EXCEPT !["browser"].signed = @ \cup ServiceSignatures(t, l)]
    /\ UNCHANGED <<ledger, secret>>

\* The service refuses, is throttled, or has no secret; or the wallet refuses; or the
\* simulation before sending fails.
NotSent ==
    /\ tx["browser"].stage \in {"built", "coSigned", "signed"}
    /\ tx' = [tx EXCEPT !["browser"] = NoTx]
    /\ UNCHANGED <<ledger, secret>>

WalletSigns ==
    LET t == tx["browser"] IN
    /\ t.stage = IF t.coSign = NoLock THEN "built" ELSE "coSigned"
    /\ tx' = [tx EXCEPT !["browser"].stage = "signed", !["browser"].signed = @ \cup {Owner}]
    /\ UNCHANGED <<ledger, secret>>

FullySigned(t) == \A ix \in Instructions(t) : Signers(ix) \subseteq t.signed

\* The serialisation checks that no signature is missing; then the transaction is simulated.
Send ==
    /\ tx["browser"].stage = "signed"
    /\ FullySigned(tx["browser"])
    /\ Outcome(tx["browser"]).ok
    /\ tx' = [tx EXCEPT !["browser"].stage = "sent"]
    /\ UNCHANGED <<ledger, secret>>

-----------------------------------------------------------------------------
(***************************************************************************)
(* The operator's scripts sign with key files, and with the keys that they *)
(* derive from the secret they are given, simulate and send.               *)
(***************************************************************************)
Script(ixs, signed) ==
    LET t == [NoTx EXCEPT !.stage = "sent", !.ixs = ixs, !.signed = signed] IN
    /\ tx["script"].stage = "idle"
    /\ Outcome(t).ok
    /\ tx' = [tx EXCEPT !["script"] = t]
    /\ UNCHANGED <<ledger, secret>>

InitConfig ==
    Script(<<Blank(IF ledger.config THEN "updateConfig" ELSE "initialize", Admin)>>, {Admin})

\* The authority of secret s is the instruction's argument.
SetCustodyAuthority(s) ==
    Script(<<[Blank("setCustodyAuthority", Admin) EXCEPT !.attester = AuthorityOf(s)]>>, {Admin})

Spl == Blank("spl", Admin)

CreatePool(paysTokens) ==
    LET create == [Blank("createBoostPool", Admin) EXCEPT !.poolTokens = paysTokens] IN
    Script(IF paysTokens THEN <<create, Spl>> ELSE <<create>>, {Admin})

\* What a pool pays in decides which instruction funds it and empties it.
FundPool ==
    Script(<<IF ledger.pool = "token" THEN Spl ELSE Blank("fundBoostPool", Admin)>>, {Admin})

WithdrawPool ==
    Script(<<Blank(IF ledger.pool = "token" THEN "withdrawBoostPoolTokens"
                                            ELSE "withdrawBoostPool", Admin)>>, {Admin})

UpdatePool == Script(<<Blank("updateBoostPool", Admin)>>, {Admin})

\* Signers derived from the secret the script was started with.
Locally(s, l) == {Owner, HolderOf(s, l), AuthorityOf(s)}

\* Withdraw, then close, a custodial lock; the script stops unless its holder is the lock's.
CleanUp(s, l) ==
    /\ At(l).auth = HolderOf(s, l)
    /\ Script(<<IF At(l).stage = "withdrawn"
                THEN CloseLockIx(l) ELSE WithdrawIx(l, ledger.pool # "none")>>, Locally(s, l))

\* The smoke test: create in custody, claim, then withdraw and close as CleanUp does;
\* create without custody, migrate.
SmokeTest(s, l) ==
    \/ At(l).stage = "free"
       /\ \/ Script(<<CreateLockCustodialIx(l, ledger.pool # "none", s)>>, Locally(s, l))
          \/ Script(<<CreateLockIx(l, ledger.pool # "none")>>, {Owner})
    \/ At(l).auth = HolderOf(s, l)
       /\ Script(<<ClaimSolRewardsIx(l, ledger.pool # "none")>>, Locally(s, l))
    \/ At(l).auth = VaultAuthorityAt(l) /\ At(l).stage # "withdrawn"
       /\ Script(<<MigrateLockIx(l, s)>>, Locally(s, l))

-----------------------------------------------------------------------------
(***************************************************************************)
(* The network, the clock and the operator of the service.                 *)
(***************************************************************************)
Execute(d) ==
    LET run == Outcome(tx[d]) IN
    /\ tx[d].stage = "sent"
    /\ run.ok
    /\ ledger' = run.led
    /\ tx' = [tx EXCEPT ![d] = NoTx]
    /\ UNCHANGED secret

\* Refused by the program, or dropped until its blockhash has expired.
Lose(d) ==
    /\ tx[d].stage = "sent"
    /\ tx' = [tx EXCEPT ![d] = NoTx]
    /\ UNCHANGED <<ledger, secret>>

TimePasses(locks) == locks # {} /\ Mature(locks) /\ UNCHANGED <<secret, tx>>

\* The service is deployed with another environment.
Deploy(s) ==
    /\ s # secret
    /\ secret' = s
    /\ UNCHANGED <<ledger, tx>>

-----------------------------------------------------------------------------
Init ==
    /\ LedgerInit
    /\ secret \in Secrets \cup {NoSecret}
    /\ tx = [d \in Desks |-> NoTx]

BrowserNext ==
    \/ \E l \in Locks : Build(l) \/ CoSignCall(l)
    \/ BuildCall \/ CoSign \/ NotSent \/ WalletSigns \/ Send

PoolScripts == (\E k \in PoolAssets : CreatePool(k)) \/ FundPool \/ WithdrawPool \/ UpdatePool

ScriptNext ==
    \/ InitConfig
    \/ \E s \in Secrets : SetCustodyAuthority(s)
    \/ PoolScripts
    \/ \E s \in Secrets, l \in Locks : CleanUp(s, l) \/ SmokeTest(s, l)

WorldNext ==
    \/ \E d \in Desks : Execute(d) \/ Lose(d)
    \/ \E locks \in SUBSET Locks : TimePasses(locks)
    \/ \E s \in Secrets \cup {NoSecret} : Deploy(s)

Next == BrowserNext \/ ScriptNext \/ WorldNext

Spec == Init /\ [][Next]_vars
=============================================================================
