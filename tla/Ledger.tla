------------------------------- MODULE Ledger -------------------------------
(***************************************************************************)
(* The program as far as it decides which transactions are accepted: is    *)
(* there a config, and a pool and of which kind, which custody authority   *)
(* is registered, and of every lock the stage and the key that owns its    *)
(* vault.  Transactions executes against this ledger; the program with its *)
(* balances is HolderLocker, which implements it.                          *)
(***************************************************************************)
EXTENDS ProgramInterface

CONSTANTS
    Locks,      \* the locks of the owner
    Secrets     \* master secrets of at least 32 characters

VARIABLE ledger     \* what the program's accounts hold

Owner == Wallet("owner")
Admin == Wallet("admin")
Nobody == Program                    \* in a slot that holds no address

\* The instructions about a lock, and the others.
LockNames ==
    {"createLock", "createLockCustodial", "topUp", "extendLock", "withdraw",
     "withdrawCustodial", "claimSolRewards", "claimSolRewardsCustodial", "claimTokenRewards",
     "claimTokenRewardsCustodial", "closeLock", "closeLockCustodial", "migrateLockToCustodial"}

ProtocolNames ==
    {"initialize", "updateConfig", "setCustodyAuthority", "createBoostPool", "updateBoostPool",
     "fundBoostPool", "withdrawBoostPool", "withdrawBoostPoolTokens", "spl"}

Names == LockNames \cup ProtocolNames

At(l) == ledger.locks[l]

-----------------------------------------------------------------------------
LockOf(ix, led) == led.locks[ix.lock]
LockExists(ix, led) == LockOf(ix, led).stage # "free"
NotWithdrawn(ix, led) == LockOf(ix, led).stage \in {"locked", "matured"}
PoolExists(ix, led) == ix.pool => led.pool # "none"

\* The vault authority of a trustless lock, recorded and derived.
OwnsByAddress(ix, led) ==
    LockExists(ix, led) /\ ix.auth = LockOf(ix, led).auth /\ ix.auth = VaultAuthorityAt(ix.lock)

OwnsByHolder(ix, led) == LockExists(ix, led) /\ ix.holder = LockOf(ix, led).auth

OwnsVault(ix, led) == IF Custodial(ix) THEN OwnsByHolder(ix, led) ELSE OwnsByAddress(ix, led)

\* Mutant: any signing authority will do.
AttestedByAnybody(ix, led) == ix.attester # Nobody

\* custody_authority.key() == custody_config.authority
Attested(ix, led) == ix.attester # Nobody /\ ix.attester = led.attested

Accepts(ix, led) ==
    /\ ix.name # "initialize" => led.config
    /\ PoolExists(ix, led)
    /\ CASE ix.name = "initialize"          -> ~led.config
         [] ix.name = "createLock"          -> LockOf(ix, led).stage = "free"
         [] ix.name = "createLockCustodial" -> LockOf(ix, led).stage = "free" /\ Attested(ix, led)
         [] ix.name = "topUp"      -> NotWithdrawn(ix, led) /\ ix.auth = LockOf(ix, led).auth
         [] ix.name = "extendLock" -> NotWithdrawn(ix, led)
         [] ix.name \in {"withdraw", "withdrawCustodial"} ->
                OwnsVault(ix, led) /\ LockOf(ix, led).stage = "matured"
         [] ix.name \in {"claimSolRewards", "claimSolRewardsCustodial"} -> OwnsVault(ix, led)
         [] ix.name \in {"claimTokenRewards", "claimTokenRewardsCustodial"} ->
                OwnsVault(ix, led) /\ (ix.poolTokens => led.pool = "token")
         [] ix.name \in {"closeLock", "closeLockCustodial"} ->
                OwnsVault(ix, led) /\ LockOf(ix, led).stage = "withdrawn"
         [] ix.name = "migrateLockToCustodial" ->
                NotWithdrawn(ix, led) /\ OwnsByAddress(ix, led) /\ Attested(ix, led)
         [] ix.name = "createBoostPool" -> led.pool = "none"
         [] ix.name \in {"updateBoostPool", "fundBoostPool", "withdrawBoostPool"} ->
                led.pool # "none"
         [] ix.name \in {"withdrawBoostPoolTokens", "spl"} -> led.pool = "token"
         [] OTHER -> TRUE

\* An extended lock is locked again.
Effect(ix, led) ==
    CASE ix.name = "initialize"          -> [led EXCEPT !.config = TRUE]
      [] ix.name = "setCustodyAuthority" -> [led EXCEPT !.attested = ix.attester]
      [] ix.name = "createBoostPool"     ->
             [led EXCEPT !.pool = IF ix.poolTokens THEN "token" ELSE "sol"]
      [] ix.name \in {"createLock", "createLockCustodial"} ->
             [led EXCEPT !.locks[ix.lock] = [stage |-> "locked", auth |-> VaultOwner(ix)]]
      [] ix.name = "extendLock"             -> [led EXCEPT !.locks[ix.lock].stage = "locked"]
      [] ix.name = "migrateLockToCustodial" -> [led EXCEPT !.locks[ix.lock].auth = ix.holder]
      [] ix.name \in {"withdraw", "withdrawCustodial"} ->
             [led EXCEPT !.locks[ix.lock].stage = "withdrawn"]
      [] ix.name \in {"closeLock", "closeLockCustodial"} ->
             [led EXCEPT !.locks[ix.lock] = [stage |-> "free", auth |-> Nobody]]
      [] OTHER -> led

-----------------------------------------------------------------------------
\* Time passes the unlock times of these locks.
Mature(locks) ==
    /\ \A l \in locks : At(l).stage = "locked"
    /\ ledger' = [ledger EXCEPT !.locks =
                     [l \in Locks |-> IF l \in locks THEN [At(l) EXCEPT !.stage = "matured"]
                                                     ELSE At(l)]]

\* The instruction is accepted and takes its effect.
Take(ix) == Accepts(ix, ledger) /\ ledger' = Effect(ix, ledger)

\* An instruction about a lock names the addresses that are derived for that lock, from
\* some secret; one about the protocol can name an authority, and a pool's token account.
LockInstruction(name, l, s) ==
    [Blank(name, Owner) EXCEPT !.lock = l, !.auth = VaultAuthorityAt(l),
                               !.holder = HolderOf(s, l), !.attester = AuthorityOf(s)]

ProtocolInstruction(name, s, tokens) ==
    [Blank(name, Admin) EXCEPT !.attester = AuthorityOf(s), !.poolTokens = tokens]

LedgerInit ==
    ledger = [config |-> FALSE, attested |-> Nobody, pool |-> "none",
              locks |-> [l \in Locks |-> [stage |-> "free", auth |-> Nobody]]]

LedgerNext ==
    \/ \E s \in Secrets :
          \/ \E name \in LockNames, l \in Locks : Take(LockInstruction(name, l, s))
          \/ \E name \in ProtocolNames, tokens \in BOOLEAN :
                Take(ProtocolInstruction(name, s, tokens))
    \/ \E locks \in SUBSET Locks : Mature(locks)

LedgerSpec == LedgerInit /\ [][LedgerNext]_ledger
=============================================================================
