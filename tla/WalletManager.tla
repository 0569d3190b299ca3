---------------------------- MODULE WalletManager ----------------------------
(***************************************************************************)
(* The accounts a wallet manager gives out: cached by derivation path, the *)
(* only state this package keeps between calls.  An account holds a key in *)
(* memory until it is disposed, by itself or with the wallet.              *)
(***************************************************************************)
CONSTANTS
  Path,     \* the derivation paths callers ask for
  Account,  \* account objects; one without a key and out of the cache may be anew
  None      \* no account

VARIABLES
  _accounts,  \* per path: the cached account, None if there is none
  live        \* the accounts whose key is in memory

vars == <<_accounts, live>>

Cached == {_accounts[p] : p \in Path} \ {None}

Init ==
  /\ _accounts = [p \in Path |-> None]
  /\ live = {}

\* Mutant: every request makes an account.
MakesAccountAlways(p) == TRUE

MakesAccount(p) == _accounts[p] = None

\* getAccount(index) asks for the path of the index.  There is no await between
\* the look at the cache and the entry into it.  Once there, the account is given
\* out as it is, disposed or not.
GetAccountByPath(p) ==
  /\ MakesAccount(p)
  /\ Account \ (live \cup Cached) # {}
  /\ LET account == CHOOSE a \in Account \ (live \cup Cached) : TRUE
     IN  /\ _accounts' = [_accounts EXCEPT ![p] = account]
         /\ live' = live \cup {account}

\* The account stays in the cache.
DisposeAccount(account) ==
  /\ account \in live
  /\ live' = live \ {account}
  /\ UNCHANGED _accounts

\* Of the base class: disposes the cached accounts and empties the cache.
DisposeWallet ==
  /\ live' = live \ Cached
  /\ _accounts' = [p \in Path |-> None]

Next ==
  \/ \E p \in Path : GetAccountByPath(p)
  \/ \E account \in Account : DisposeAccount(account)
  \/ DisposeWallet

Spec == Init /\ [][Next]_vars

(***************************************************************************)
(* Properties.                                                             *)
(***************************************************************************)

\* The values the variables take.
TypeOK ==
  /\ _accounts \in [Path -> Account \cup {None}]
  /\ live \subseteq Account

\* Disposing the wallet leaves no key behind: an account that still holds one is
\* the one its path is cached under, whatever was asked for and disposed before.
LiveIsCached == live \subseteq Cached
=============================================================================
