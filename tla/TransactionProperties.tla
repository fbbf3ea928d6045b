----------------------- MODULE TransactionProperties -----------------------
(***************************************************************************)
(* What has to hold of the transactions between the builders, the custody  *)
(* service, the wallet and the program.                                    *)
(***************************************************************************)
EXTENDS Transactions

\* What the types are, and what a transaction has been through at each stage.
TxTypeOK ==
    /\ ledger.config \in BOOLEAN
    /\ ledger.attested \in {Nobody} \cup {AuthorityOf(s) : s \in Secrets}
    /\ ledger.pool \in {"none", "sol", "token"}
    /\ \A l \in Locks :
           /\ At(l).stage \in {"free", "locked", "matured", "withdrawn"}
           /\ At(l).auth \in {Nobody, VaultAuthorityAt(l), CallersKey}
                                \cup {HolderOf(s, k) : s \in Secrets, k \in Locks}
    /\ secret \in Secrets \cup {NoSecret}
    /\ \A d \in Desks :
           /\ tx[d].stage \in Stages
           /\ \A ix \in Instructions(tx[d]) : ix.name \in Names /\ ix.lock \in Locks \cup {NoLock}
           /\ tx[d].coSign \in Locks \cup {NoLock}
           /\ tx[d].stage = "coSigned" => tx[d].coSign # NoLock
           /\ tx[d].handMade => d = "browser" /\ tx[d].coSign = NoLock

\* Transaction d has been executed.
Executed(d) == tx[d].stage = "sent" /\ tx'[d] = NoTx /\ ledger' # ledger

\* The lock is withdrawn or closed.
Opens(l) == At(l)'.stage \in {"withdrawn", "free"} /\ At(l)'.stage # At(l).stage

\* No lock under a key of the service is withdrawn or closed without that key's signature;
\* and the service gives it, whoever asks and whatever else the transaction contains, only
\* to a transaction all of whose instructions list the lock that the key was derived for.
\* coSign looks for the lock among all accounts of an instruction, the appended ones
\* included: an instruction about another lock may be among them.
CustodyOpensOnRequest ==
    [][\A l \in Locks : Opens(l) =>
          \A s \in Secrets, k \in Locks : At(l).auth = HolderOf(s, k) =>
              \E d \in Desks :
                  /\ Executed(d)
                  /\ HolderOf(s, k) \in tx[d].signed
                  /\ d = "browser" =>
                        \A ix \in Instructions(tx[d]) : LockAt(k) \in Listed(ix)]_vars

\* When wallet and service have signed, no signature is missing that an account of the
\* interface or of the program asks for, although the page that chose whom to ask, the
\* service that chose which keys to sign with and the interface are three pieces of code.
SignaturesComplete ==
    \A d \in Desks : tx[d].stage \in (IF tx[d].handMade THEN {"sent"} ELSE {"signed", "sent"}) =>
        \A ix \in Instructions(tx[d]) :
            Signers(ix) \cup DemandedSigners(ix) \subseteq tx[d].signed

\* Every account that a handler changes is listed as writable by the interface that the
\* clients use, for whatever they pass as optional, so that no runtime error stops it.
PrivilegesSuffice ==
    \A d \in Desks : \A ix \in Instructions(tx[d]) : Privileged(ix)

\* The service signs every transaction the page asks it for, unless it was deployed with
\* another secret since the lock, or the transaction, was made.
ServiceServesPage ==
    LET t == tx["browser"] IN
    /\ t.stage = "built" /\ t.coSign # NoLock
    /\ secret \in Secrets /\ t.ixs[1].holder = HolderOf(secret, t.coSign)
    => MayCoSign(t, t.coSign)

\* A lock goes into custody only in a transaction signed by the authority that is registered
\* at that moment and by the key that becomes the holder.  And unless a caller of the
\* service has put the transaction together, that key is the one derived for this lock from
\* the secret whose authority is registered: a page, or a script, that was started under
\* another secret cannot lock tokens away under a key that the service does not derive.
HoldersAttested ==
    [][\A l \in Locks :
          ~IsCustodial(l) /\ IsCustodial(l)' =>
              \E d \in Desks :
                  /\ Executed(d)
                  /\ {ledger.attested, At(l)'.auth} \subseteq tx[d].signed
                  /\ \/ tx[d].handMade
                     \/ \E s \in Secrets : /\ At(l)'.auth = HolderOf(s, l)
                                           /\ ledger.attested = AuthorityOf(s)]_vars
=============================================================================
