----------------------------- MODULE WalletState -----------------------------
(***************************************************************************)
(* The plaintext of the wallet (state/types.ts) and what each operation of *)
(* walletStore makes of it.  An edit is a record [do, at, with]: the       *)
(* operation, the account, site or address it is about, and its argument.  *)
(***************************************************************************)
EXTENDS Naturals, SequencesExt

CONSTANTS
    Accounts,      \* account ids
    Discontinued,  \* those linked through a provider that is gone
    Sites,         \* origins
    MaxKept,       \* bound: MAX_RECENT_RECIPIENTS and MAX_CONTACTS
    None

(* DEFAULT_STATE with the one account of completeOnboarding.  `old` says   *)
(* that migrateState would change the state.                               *)
Fresh(a) == [accounts |-> <<a>>, active |-> a, sites |-> [s \in Sites |-> None],
             trusted |-> {}, recents |-> <<>>, contacts |-> <<>>,
             network |-> "testnet4", old |-> FALSE]

Without(list, x) == SelectSeq(list, LAMBDA y : y # x)
Kept(list) == SubSeq(list, 1, IF Len(list) > MaxKept THEN MaxKept ELSE Len(list))

(* The account that is active when the active one has gone.                *)
FirstOf(list) == IF list = <<>> THEN None ELSE Head(list)

(* migrateState: discontinued accounts are dropped, and then an active     *)
(* account that is not there is replaced.                                  *)
Migrate(c) ==
    LET left == SelectSeq(c.accounts, LAMBDA a : a \notin Discontinued)
    IN  [c EXCEPT !.accounts = left,
                  !.active = IF left = c.accounts \/ @ \in ToSet(left) THEN @ ELSE FirstOf(left),
                  !.old = FALSE]

-----------------------------------------------------------------------------
AddAccount(c, a) == [c EXCEPT !.accounts = Append(@, a), !.active = a]

SetActive(c, a) == [c EXCEPT !.active = a]

(* The last account is not removed here: Keystore wipes instead.           *)
Forget(c, a) ==
    LET left == Without(c.accounts, a)
    IN  [c EXCEPT !.accounts = left, !.active = IF @ = a THEN FirstOf(left) ELSE @]

(* updateAccount with a patch that gives the account another id.           *)
Update(c, a, b) ==
    [c EXCEPT !.accounts = [i \in DOMAIN @ |-> IF @[i] = a THEN b ELSE @[i]],
              !.active = IF @ = a THEN b ELSE @]

(* A site connects with the permissions the caller gives it, or the safe   *)
(* ones.                                                                   *)
Connect(c, s, a) == [c EXCEPT !.sites[s] = a, !.trusted = @ \ {s}]
Permit(c, s) == [c EXCEPT !.trusted = @ \union {s}]
Disconnect(c, s) == [c EXCEPT !.sites[s] = None, !.trusted = @ \ {s}]

(* An address used before moves to the front.                              *)
Remember(c, x) == [c EXCEPT !.recents = Kept(<<x>> \o Without(@, x))]
ForgetRecipient(c, x) == [c EXCEPT !.recents = Without(@, x)]
ClearRecents(c) == [c EXCEPT !.recents = <<>>]

(* A contact that is there stays in its place.                             *)
UpsertContact(c, x) == [c EXCEPT !.contacts = IF x \in ToSet(@) THEN @ ELSE Kept(<<x>> \o @)]
RemoveContact(c, x) == [c EXCEPT !.contacts = Without(@, x)]

(* setNetwork, and every other setter of a plain field.                    *)
SetNetwork(c, n) == [c EXCEPT !.network = n]

-----------------------------------------------------------------------------
(* The early returns: what finds nothing to do does not write.             *)
Applies(c, e) ==
    /\ e.do \in {"forget", "update"} => e.at \in ToSet(c.accounts)
    /\ e.do = "permit" => c.sites[e.at] # None

Edited(c, e) ==
    CASE e.do = "none" -> c
      [] e.do = "add" -> AddAccount(c, e.at)
      [] e.do = "activate" -> SetActive(c, e.at)
      [] e.do = "forget" -> Forget(c, e.at)
      [] e.do = "update" -> Update(c, e.at, e.with)
      [] e.do = "connect" -> Connect(c, e.at, e.with)
      [] e.do = "permit" -> Permit(c, e.at)
      [] e.do = "disconnect" -> Disconnect(c, e.at)
      [] e.do = "remember" -> Remember(c, e.at)
      [] e.do = "unremember" -> ForgetRecipient(c, e.at)
      [] e.do = "clear" -> ClearRecents(c)
      [] e.do = "contact" -> UpsertContact(c, e.at)
      [] e.do = "uncontact" -> RemoveContact(c, e.at)
      [] e.do = "network" -> SetNetwork(c, e.with)
=============================================================================
