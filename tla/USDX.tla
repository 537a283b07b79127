--------------------------------- MODULE USDX ---------------------------------
(***************************************************************************)
(* usdx/USDX.sol with the lists it consults before every movement: the     *)
(* allowlist, blocklist/Blocklist.sol and Chainalysis' sanctions list,     *)
(* each of which may change, or be replaced by another, between any two    *)
(* steps.  The manager is seen from the token: it burns what a redeemer    *)
(* has approved, and mints a deposit that is priced and released when its  *)
(* depositor claims it; `due` are the users with such a deposit, each one  *)
(* of one unit.  The manager and the burner (the guardian's Safe) are      *)
(* contracts.                                                              *)
(*                                                                         *)
(* Changes of a list, of its terms, of an account's status or of the pause *)
(* are counted, and MaxChanges bounds them: the administrators come to an  *)
(* end.  What users do is not bounded.                                     *)
(***************************************************************************)
EXTENDS AllowlistUpgradeable

CONSTANTS
  manager, burner,
  Listable,     \* the accounts that may be blocked or sanctioned
  MaxChanges

NoAddress == "address(0)"
Accounts == Users \cup Contracts

ASSUME TokenAssumption ==
  /\ {manager, burner} \subseteq Contracts /\ manager # burner
  /\ NoAddress \notin Accounts
  /\ Listable \subseteq Accounts
  /\ MaxChanges \in Nat

VARIABLES balances, allowances, paused, blocked, sanctioned, due, changes

tokenVars == <<balances, allowances, due>>
controlVars == <<paused, blocked, sanctioned>>
vars == <<allowlistVars, tokenVars, controlVars, changes>>

Init ==
  /\ AllowlistInit
  /\ balances = [a \in Accounts |-> 0]
  /\ allowances = [p \in Users \X (Users \cup {manager}) |-> 0]
  /\ paused = FALSE /\ blocked = {} /\ sanctioned = {}
  /\ due = Users
  /\ changes = 0
-----------------------------------------------------------------------------
\* What the three lists say of an account.
Clear(account) ==
  account \notin blocked /\ account \notin sanctioned /\ isAllowed(account)

_beforeTokenTransfer_FaultySenderUnchecked(sender, from, to) ==
  /\ ~paused
  /\ from # NoAddress => Clear(from)
  /\ to # NoAddress => Clear(to)

\* The sender is checked when it is a third party, as the manager is when it
\* mints and burns, and the burner.
_beforeTokenTransfer(sender, from, to) ==
  /\ ~paused
  /\ sender \notin {from, to} => Clear(sender)
  /\ from # NoAddress => Clear(from)
  /\ to # NoAddress => Clear(to)

Debited(b, from, amount) == [b EXCEPT ![from] = @ - amount]
Credited(b, to, amount) == [b EXCEPT ![to] = @ + amount]

_spendAllowance(owner, spender, amount) ==
  /\ allowances[<<owner, spender>>] >= amount
  /\ allowances' = [allowances EXCEPT ![<<owner, spender>>] = @ - amount]

Approve(owner, spender, amount) ==
  /\ allowances' = [allowances EXCEPT ![<<owner, spender>>] = amount]
  /\ UNCHANGED <<allowlistVars, controlVars, balances, due, changes>>

Transfer(from, to, amount) ==
  /\ _beforeTokenTransfer(from, from, to)
  /\ balances[from] >= amount
  /\ balances' = Credited(Debited(balances, from, amount), to, amount)
  /\ UNCHANGED <<allowlistVars, controlVars, allowances, due, changes>>

TransferFrom(spender, from, to, amount) ==
  /\ _beforeTokenTransfer(spender, from, to)
  /\ _spendAllowance(from, spender, amount)
  /\ balances[from] >= amount
  /\ balances' = Credited(Debited(balances, from, amount), to, amount)
  /\ UNCHANGED <<allowlistVars, controlVars, due, changes>>

_burn_FaultyUnchecked(sender, from, amount) ==
  /\ _beforeTokenTransfer(sender, from, NoAddress)
  /\ balances' = Debited(balances, from, amount)
  /\ UNCHANGED <<allowlistVars, controlVars, due, changes>>

_burn(sender, from, amount) ==
  /\ _beforeTokenTransfer(sender, from, NoAddress)
  /\ balances[from] >= amount
  /\ balances' = Debited(balances, from, amount)
  /\ UNCHANGED <<allowlistVars, controlVars, due, changes>>

\* The manager burns for requestRedemption, which the holder calls; any other
\* spender calls burnFrom itself.
BurnFrom(spender, from, amount) ==
  _spendAllowance(from, spender, amount) /\ _burn(spender, from, amount)

\* The holder itself, or an admin burn.  No exception for a blocked holder.
Burn(sender, from, amount) ==
  /\ sender \in {from, burner}
  /\ _burn(sender, from, amount) /\ UNCHANGED allowances

Minted(batch) == [a \in Accounts |-> balances[a] + (IF a \in batch THEN 1 ELSE 0)]

\* claimMint of a batch: one mint per deposit, all or none.
ClaimMint(batch) ==
  /\ batch # {} /\ batch \subseteq due
  /\ \A u \in batch : _beforeTokenTransfer(manager, NoAddress, u)
  /\ balances' = Minted(batch)
  /\ due' = due \ batch
  /\ UNCHANGED <<allowlistVars, controlVars, allowances, changes>>
-----------------------------------------------------------------------------
Change == changes < MaxChanges /\ changes' = changes + 1

AddToBlocklist(accounts) ==
  /\ Change /\ blocked' = blocked \cup accounts
  /\ UNCHANGED <<allowlistVars, tokenVars, paused, sanctioned>>

RemoveFromBlocklist(accounts) ==
  /\ Change /\ blocked' = blocked \ accounts
  /\ UNCHANGED <<allowlistVars, tokenVars, paused, sanctioned>>

\* A blocklist just deployed.
SetBlocklist ==
  /\ Change /\ blocked' = {}
  /\ UNCHANGED <<allowlistVars, tokenVars, paused, sanctioned>>

\* The external list changes, or another is set.
SanctionsChange(accounts) ==
  /\ Change /\ sanctioned' = accounts
  /\ UNCHANGED <<allowlistVars, tokenVars, paused, blocked>>

\* An allowlist just deployed.
SetAllowlist ==
  /\ Change
  /\ terms' = <<>> /\ currentTermIndex' = 0 /\ validIndexes' = {}
  /\ verifications' = {} /\ placed' = {}
  /\ UNCHANGED <<signed, agreed, tokenVars, controlVars>>

SetPaused(status) ==
  /\ Change /\ paused # status
  /\ paused' = status
  /\ UNCHANGED <<allowlistVars, tokenVars, blocked, sanctioned>>

AllowlistAdministration ==
  /\ \/ \E text \in Texts : AddTerm(text)
     \/ \E i \in TermIndexes : SetCurrentTermIndex(i)
     \/ \E indexes \in SUBSET TermIndexes : SetValidTermIndexes(indexes)
     \/ \E u \in Users, i \in TermIndexes, status \in BOOLEAN :
          SetAccountStatus(u, i, status)
  /\ Change
  /\ UNCHANGED <<tokenVars, controlVars>>

Administration ==
  \/ AllowlistAdministration
  \/ \E a \in Listable : AddToBlocklist({a}) \/ RemoveFromBlocklist({a})
  \/ \E S \in SUBSET Listable : SanctionsChange(S)
  \/ SetBlocklist \/ SetAllowlist
  \/ \E status \in BOOLEAN : SetPaused(status)

Joins(u) ==
  /\ \/ \E i \in TermIndexes : AddSelfToAllowlist(u, i)
     \/ \E i \in TermIndexes : AddAccountToAllowlist(i, u)
     \/ \E text \in Texts : Signs(u, text)
  /\ UNCHANGED <<tokenVars, controlVars, changes>>

HolderActs(u) ==
  \/ \E s \in Users \cup {manager}, n \in {0, 1} : Approve(u, s, n)
  \/ \E to \in Users : Transfer(u, to, 1)
  \/ \E from, to \in Users : TransferFrom(u, from, to, 1)
  \/ \E from \in Users : BurnFrom(u, from, 1)
  \/ BurnFrom(manager, u, 1)
  \/ Burn(u, u, 1) \/ Burn(burner, u, 1)

Next ==
  \/ Administration
  \/ \E u \in Users : Joins(u) \/ HolderActs(u)
  \/ \E batch \in SUBSET due : ClaimMint(batch)

\* A depositor joins under a term that counts, and claims alone.
Accepts(u) ==
  /\ \E i \in validIndexes : AddSelfToAllowlist(u, i)
  /\ UNCHANGED <<tokenVars, controlVars, changes>>

Fairness ==
  \A u \in Users : WF_vars(Accepts(u)) /\ WF_vars(ClaimMint({u}))

Spec == Init /\ [][Next]_vars /\ Fairness
-----------------------------------------------------------------------------
\* The type of the state, with what the lists keep whatever the order of
\* calls: nobody is verified for a term not published, what the setter placed
\* is in force, and no balance or allowance falls below zero.
TypeOK ==
  /\ terms \in Seq(Texts) /\ currentTermIndex \in 0 .. Len(terms)
  /\ validIndexes \subseteq TermIndexes
  /\ verifications \subseteq Users \X TermIndexes /\ placed \subseteq verifications
  /\ signed \subseteq agreed /\ agreed \subseteq Users \X Texts
  /\ balances \in [Accounts -> Nat]
  /\ allowances \in [Users \X (Users \cup {manager}) -> Nat]
  /\ paused \in BOOLEAN
  /\ blocked \subseteq Listable /\ sanctioned \subseteq Listable
  /\ due \subseteq Users /\ changes \in 0 .. MaxChanges

\* On neither list, and holding a valid term unless it is a contract.
Welcome(a) ==
  /\ a \notin blocked \cup sanctioned
  /\ a \in Users => \E i \in validIndexes : <<a, i>> \in verifications

\* USDX.sol:74-105.  Whoever gains or loses USDX, whoever spends an allowance
\* for it and the manager that mints it are clear on the lists of that moment,
\* and nothing moves while the token is paused: by a transfer, a redemption,
\* an admin burn or a batch of claims alike.
MovementsPassTheLists ==
  [][balances' # balances =>
       /\ ~paused
       /\ \A a \in Accounts : balances'[a] # balances[a] => Welcome(a)
       /\ \A p \in DOMAIN allowances : allowances'[p] # allowances[p] => Welcome(p[2])
       /\ due' # due => Welcome(manager)]_vars

\* README.md:60: an account is allowed for a term it has agreed to, by its
\* own call or signature, or because the setter put it there; whatever the
\* order of publishing, revoking, replacing the list and replaying old
\* signatures.
AllowedByConsent ==
  \A u \in Users : isAllowed(u) =>
    \E i \in validIndexes \cap TermIndexes :
      <<u, TextOf(i)>> \in agreed \/ <<u, i>> \in placed

\* README.md:56, the manager need not check the allowlist "because the user
\* can always add itself": a deposit that is due is minted in the end if its
\* depositor and the manager are finally on neither list, the token is not
\* paused and some term is valid, whatever happened to the lists before and
\* however its batch was refused.
ClaimsArrive ==
  \A u \in Users :
    <>[](/\ {u, manager} \cap (blocked \cup sanctioned) = {}
         /\ ~paused /\ validIndexes # {})
      => <>(u \notin due)
=============================================================================
