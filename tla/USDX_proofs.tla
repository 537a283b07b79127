------------------------------ MODULE USDX_proofs ------------------------------
(***************************************************************************)
(* What holds of the token and its lists, for any number of accounts,      *)
(* terms and changes.                                                      *)
(*                                                                         *)
(* The inductive invariant says of every verification that counts or may   *)
(* count again where it comes from: the account agreed to the text of its  *)
(* term, or the setter placed it.  Terms are only ever appended to a list, *)
(* so the text under an index stays; a new list starts without any.        *)
(***************************************************************************)
EXTENDS USDX, TLAPS, SequenceTheorems

\* Every verification, of a term that is valid or not, has an origin.
VerifiedByConsent ==
  \A u \in Users, i \in TermIndexes :
    <<u, i>> \in verifications
      => <<u, TextOf(i)>> \in agreed \/ <<u, i>> \in placed

TokenInvariant == TypeOK /\ VerifiedByConsent

ListTypes ==
  /\ terms \in Seq(Texts) /\ currentTermIndex \in 0 .. Len(terms)
  /\ validIndexes \subseteq TermIndexes
  /\ verifications \subseteq Users \X TermIndexes /\ placed \subseteq verifications
  /\ signed \subseteq agreed /\ agreed \subseteq Users \X Texts

TokenTypes ==
  /\ balances \in [Accounts -> Nat]
  /\ allowances \in [Users \X (Users \cup {manager}) -> Nat]
  /\ paused \in BOOLEAN
  /\ blocked \subseteq Listable /\ sanctioned \subseteq Listable
  /\ due \subseteq Users /\ changes \in 0 .. MaxChanges

ListInvariant == ListTypes /\ VerifiedByConsent

LEMMA InvariantParts == TokenInvariant <=> ListInvariant /\ TokenTypes
BY DEF TokenInvariant, TypeOK, ListInvariant, ListTypes, TokenTypes
-----------------------------------------------------------------------------
(* The lists                                                               *)

LEMMA AddTermKeeps ==
  ASSUME ListInvariant, NEW text \in Texts, AddTerm(text)
  PROVE  ListInvariant'
<1> USE DEF ListInvariant
<1>1. /\ terms' = Append(terms, text) /\ currentTermIndex' = Len(terms)
      /\ UNCHANGED <<validIndexes, verifications, signed, agreed, placed>>
  BY DEF AddTerm
<1>2. terms' \in Seq(Texts) /\ Len(terms') = Len(terms) + 1 /\ Len(terms) \in Nat
  BY <1>1 DEF ListTypes
<1>3. TermIndexes \subseteq TermIndexes'
  BY <1>2 DEF TermIndexes
<1>4. \A i \in TermIndexes : TextOf(i)' = TextOf(i)
  BY <1>1, <1>2 DEF TermIndexes, TextOf, ListTypes
<1>5. ListTypes'
  BY <1>1, <1>2, <1>3 DEF ListTypes
<1>6. VerifiedByConsent'
  BY <1>1, <1>4 DEF VerifiedByConsent, ListTypes
<1> QED BY <1>5, <1>6

LEMMA SetTermIndexesKeeps ==
  ASSUME ListInvariant,
         \/ \E i \in TermIndexes : SetCurrentTermIndex(i)
         \/ \E indexes \in SUBSET TermIndexes : SetValidTermIndexes(indexes)
  PROVE  ListInvariant'
<1>1. /\ currentTermIndex' \in 0 .. Len(terms) /\ validIndexes' \subseteq TermIndexes
      /\ UNCHANGED <<terms, verifications, signed, agreed, placed>>
  <2>1. /\ Len(terms) \in Nat
        /\ currentTermIndex \in 0 .. Len(terms) /\ validIndexes \subseteq TermIndexes
    BY DEF ListInvariant, ListTypes
  <2>2. ASSUME NEW i \in TermIndexes, SetCurrentTermIndex(i)
        PROVE  /\ currentTermIndex' \in 0 .. Len(terms)
               /\ UNCHANGED <<terms, validIndexes, verifications, signed, agreed, placed>>
    BY <2>1, <2>2 DEF SetCurrentTermIndex, TermIndexes
  <2>3. ASSUME NEW indexes \in SUBSET TermIndexes, SetValidTermIndexes(indexes)
        PROVE  /\ validIndexes' \subseteq TermIndexes
               /\ UNCHANGED <<terms, currentTermIndex, verifications, signed, agreed, placed>>
    BY <2>3 DEF SetValidTermIndexes
  <2> QED BY <2>1, <2>2, <2>3
<1> QED BY <1>1 DEF ListInvariant, ListTypes, VerifiedByConsent, TermIndexes, TextOf

LEMMA SetAccountStatusKeeps ==
  ASSUME ListInvariant, NEW u \in Users, NEW i \in TermIndexes, NEW status \in BOOLEAN,
         SetAccountStatus(u, i, status)
  PROVE  ListInvariant'
<1>1. /\ \/ /\ verifications' = verifications \cup {<<u, i>>}
            /\ placed' = placed \cup {<<u, i>>}
         \/ /\ verifications' = verifications \ {<<u, i>>}
            /\ placed' = placed \ {<<u, i>>}
      /\ UNCHANGED <<terms, currentTermIndex, validIndexes, signed, agreed>>
  BY DEF SetAccountStatus, _setAccountStatus
<1>2. ListTypes'
  BY <1>1 DEF ListInvariant, ListTypes, TermIndexes
<1>3. VerifiedByConsent'
  BY <1>1 DEF ListInvariant, VerifiedByConsent, TermIndexes, TextOf
<1> QED BY <1>2, <1>3 DEF ListInvariant

LEMMA JoiningKeeps ==
  ASSUME ListInvariant, NEW u \in Users, NEW i \in TermIndexes,
         AddSelfToAllowlist(u, i) \/ AddAccountToAllowlist(i, u)
  PROVE  ListInvariant'
<1>1. /\ verifications' = verifications \cup {<<u, i>>}
      /\ agreed \subseteq agreed' /\ agreed' \subseteq Users \X Texts
      /\ <<u, TextOf(i)>> \in agreed'
      /\ UNCHANGED <<terms, currentTermIndex, validIndexes, signed, placed>>
  <2>1. TextOf(i) \in Texts
    BY DEF ListInvariant, ListTypes, TextOf, TermIndexes
  <2>2. CASE AddSelfToAllowlist(u, i)
    BY <2>1, <2>2 DEF AddSelfToAllowlist, _setAccountStatus, ListInvariant, ListTypes
  <2>3. CASE AddAccountToAllowlist(i, u)
    BY <2>3 DEF AddAccountToAllowlist, _setAccountStatus, SignatureFits,
                ListInvariant, ListTypes
  <2> QED BY <2>2, <2>3
<1>2. ListTypes'
  BY <1>1 DEF ListInvariant, ListTypes, TermIndexes
<1>3. VerifiedByConsent'
  BY <1>1 DEF ListInvariant, VerifiedByConsent, TermIndexes, TextOf
<1> QED BY <1>2, <1>3 DEF ListInvariant

LEMMA SigningKeeps ==
  ASSUME ListInvariant, NEW u \in Users, NEW text \in Texts, Signs(u, text)
  PROVE  ListInvariant'
<1>1. /\ signed' = signed \cup {<<u, text>>} /\ agreed' = agreed \cup {<<u, text>>}
      /\ UNCHANGED listVars
  BY DEF Signs
<1>2. ListTypes'
  BY <1>1 DEF ListInvariant, ListTypes, TermIndexes, listVars
<1>3. VerifiedByConsent'
  BY <1>1 DEF ListInvariant, VerifiedByConsent, TermIndexes, TextOf, listVars
<1> QED BY <1>2, <1>3 DEF ListInvariant

\* A list just deployed has no terms.
LEMMA NewAllowlistKeeps == ListInvariant /\ SetAllowlist => ListInvariant'
<1> SUFFICES ASSUME ListInvariant, SetAllowlist PROVE ListInvariant'
  OBVIOUS
<1>1. /\ terms' = <<>> /\ currentTermIndex' = 0 /\ validIndexes' = {}
      /\ verifications' = {} /\ placed' = {} /\ UNCHANGED <<signed, agreed>>
  BY DEF SetAllowlist
<1>2. terms' \in Seq(Texts) /\ Len(terms') = 0
  BY <1>1
<1>3. ListTypes'
  BY <1>1, <1>2 DEF ListInvariant, ListTypes
<1>4. VerifiedByConsent'
  BY <1>1 DEF VerifiedByConsent
<1> QED BY <1>3, <1>4 DEF ListInvariant

LEMMA ListUnchanged == ListInvariant /\ UNCHANGED allowlistVars => ListInvariant'
BY DEF ListInvariant, ListTypes, VerifiedByConsent, TermIndexes, TextOf,
       allowlistVars, listVars
-----------------------------------------------------------------------------
(* The token                                                               *)

LEMMA DebitedType ==
  ASSUME NEW b \in [Accounts -> Nat], NEW from \in Accounts, NEW amount \in Nat,
         b[from] >= amount
  PROVE  Debited(b, from, amount) \in [Accounts -> Nat]
<1> DEFINE left == b[from] - amount
<1>1. left \in Nat
  OBVIOUS
<1>2. Debited(b, from, amount) = [b EXCEPT ![from] = left]
  BY DEF Debited
<1> HIDE DEF left
<1> QED BY <1>1, <1>2

LEMMA CreditedType ==
  ASSUME NEW b \in [Accounts -> Nat], NEW to \in Accounts, NEW amount \in Nat
  PROVE  Credited(b, to, amount) \in [Accounts -> Nat]
<1> DEFINE total == b[to] + amount
<1>1. total \in Nat
  OBVIOUS
<1>2. Credited(b, to, amount) = [b EXCEPT ![to] = total]
  BY DEF Credited
<1> HIDE DEF total
<1> QED BY <1>1, <1>2

LEMMA SpentType ==
  ASSUME TokenTypes, NEW owner, NEW spender,
         <<owner, spender>> \in Users \X (Users \cup {manager}), NEW amount \in Nat,
         _spendAllowance(owner, spender, amount)
  PROVE  /\ allowances' \in [Users \X (Users \cup {manager}) -> Nat]
         /\ \A p \in DOMAIN allowances : allowances'[p] # allowances[p] => p[2] = spender
<1> DEFINE p == <<owner, spender>>
           left == allowances[p] - amount
<1>1. left \in Nat /\ allowances' = [allowances EXCEPT ![p] = left]
  BY DEF _spendAllowance, TokenTypes
<1> HIDE DEF left
<1>2. p[2] = spender
  OBVIOUS
<1> HIDE DEF p
<1> QED BY <1>1, <1>2 DEF TokenTypes

\* Nobody but the two parties gains or loses.
LEMMA MovedOnlyBetween ==
  ASSUME NEW b \in [Accounts -> Nat], NEW from \in Accounts, NEW to \in Accounts,
         NEW amount \in Nat, NEW a \in Accounts \ {from, to}
  PROVE  /\ Debited(b, from, amount)[a] = b[a]
         /\ Credited(Debited(b, from, amount), to, amount)[a] = b[a]
BY DEF Debited, Credited
-----------------------------------------------------------------------------
(* The invariant                                                           *)

LEMMA TokenInitial == Init => TokenInvariant
<1> SUFFICES ASSUME Init PROVE TokenInvariant
  OBVIOUS
<1>1. ListInvariant
  BY DEF Init, AllowlistInit, ListInvariant, ListTypes, VerifiedByConsent
<1>2. TokenTypes
  <2>1. allowances \in [Users \X (Users \cup {manager}) -> Nat]
    <3> DEFINE Pairs == Users \X (Users \cup {manager})
    <3>1. allowances = [p \in Pairs |-> 0]
      BY DEF Init
    <3> HIDE DEF Pairs
    <3>2. allowances \in [Pairs -> Nat]
      BY <3>1
    <3> QED BY <3>2 DEF Pairs
  <2>2. balances \in [Accounts -> Nat]
    BY DEF Init
  <2>3. paused \in BOOLEAN
    BY DEF Init
  <2>4. /\ blocked \subseteq Listable /\ sanctioned \subseteq Listable
        /\ due \subseteq Users /\ changes \in 0 .. MaxChanges
    BY TokenAssumption DEF Init
  <2> QED BY <2>1, <2>2, <2>3, <2>4 DEF TokenTypes
<1> QED BY <1>1, <1>2, InvariantParts

\* What users do and the manager mints changes neither list nor control.
LEMMA HolderKeepsTypes ==
  ASSUME TokenTypes, NEW u \in Users, HolderActs(u)
  PROVE  TokenTypes' /\ UNCHANGED allowlistVars
<1>1. /\ Users \cup {manager} \subseteq Accounts /\ 0 \in Nat /\ 1 \in Nat
      /\ balances \in [Accounts -> Nat]
  BY TokenAssumption DEF Accounts, TokenTypes
<1>2. ASSUME NEW s \in Users \cup {manager}, NEW n \in {0, 1}, Approve(u, s, n)
      PROVE  TokenTypes' /\ UNCHANGED allowlistVars
  BY <1>2 DEF Approve, TokenTypes, controlVars
<1>3. ASSUME NEW to \in Users, Transfer(u, to, 1)
      PROVE  TokenTypes' /\ UNCHANGED allowlistVars
  <2>1. balances' \in [Accounts -> Nat]
    BY <1>1, <1>3, DebitedType, CreditedType DEF Transfer
  <2> QED BY <1>3, <2>1 DEF Transfer, TokenTypes, controlVars
<1>4. ASSUME NEW from \in Users, NEW to \in Users, TransferFrom(u, from, to, 1)
      PROVE  TokenTypes' /\ UNCHANGED allowlistVars
  <2>1. balances' \in [Accounts -> Nat]
    BY <1>1, <1>4, DebitedType, CreditedType DEF TransferFrom
  <2>2. allowances' \in [Users \X (Users \cup {manager}) -> Nat]
    BY <1>1, <1>4, SpentType DEF TransferFrom
  <2> QED BY <1>4, <2>1, <2>2 DEF TransferFrom, TokenTypes, controlVars
<1>5. ASSUME NEW from \in Users, NEW spender \in Users \cup {manager},
             BurnFrom(spender, from, 1)
      PROVE  TokenTypes' /\ UNCHANGED allowlistVars
  <2>1. balances' \in [Accounts -> Nat]
    BY <1>1, <1>5, DebitedType DEF BurnFrom, _burn
  <2>2. allowances' \in [Users \X (Users \cup {manager}) -> Nat]
    BY <1>1, <1>5, SpentType DEF BurnFrom
  <2> QED BY <1>5, <2>1, <2>2 DEF BurnFrom, _burn, TokenTypes, controlVars
<1>6. ASSUME NEW sender, Burn(sender, u, 1)
      PROVE  TokenTypes' /\ UNCHANGED allowlistVars
  <2>1. balances' \in [Accounts -> Nat]
    BY <1>1, <1>6, DebitedType DEF Burn, _burn
  <2> QED BY <1>6, <2>1 DEF Burn, _burn, TokenTypes, controlVars
<1> QED BY <1>2, <1>3, <1>4, <1>5, <1>6 DEF HolderActs

LEMMA ClaimKeepsTypes ==
  ASSUME TokenTypes, NEW batch \in SUBSET due, ClaimMint(batch)
  PROVE  TokenTypes' /\ UNCHANGED allowlistVars
<1>1. balances' = Minted(batch)
  BY DEF ClaimMint
<1>2. Minted(batch) \in [Accounts -> Nat]
  BY DEF Minted, TokenTypes
<1>3. due' \subseteq Users
  BY DEF ClaimMint, TokenTypes
<1> QED BY <1>1, <1>2, <1>3 DEF ClaimMint, TokenTypes, controlVars

LEMMA AdministrationKeeps ==
  ASSUME TokenInvariant, Administration
  PROVE  TokenInvariant'
<1>1. ListInvariant /\ TokenTypes
  BY InvariantParts
<1>2. ASSUME Change PROVE changes' \in 0 .. MaxChanges
  BY <1>1, <1>2, TokenAssumption DEF Change, TokenTypes
<1>3. CASE AllowlistAdministration
  <2>1. ListInvariant'
    <3>1. ASSUME NEW text \in Texts, AddTerm(text) PROVE ListInvariant'
      BY <1>1, <3>1, AddTermKeeps
    <3>2. ASSUME NEW u \in Users, NEW i \in TermIndexes, NEW status \in BOOLEAN,
                 SetAccountStatus(u, i, status)
          PROVE  ListInvariant'
      BY <1>1, <3>2, SetAccountStatusKeeps
    <3>3. ASSUME \/ \E i \in TermIndexes : SetCurrentTermIndex(i)
                 \/ \E indexes \in SUBSET TermIndexes : SetValidTermIndexes(indexes)
          PROVE  ListInvariant'
      BY <1>1, <3>3, SetTermIndexesKeeps
    <3> QED BY <1>3, <3>1, <3>2, <3>3 DEF AllowlistAdministration
  <2>2. TokenTypes'
    BY <1>1, <1>2, <1>3 DEF AllowlistAdministration, TokenTypes, tokenVars, controlVars
  <2> QED BY <2>1, <2>2 DEF TokenInvariant, TypeOK, ListInvariant, ListTypes, TokenTypes
<1>4. CASE \/ \E a \in Listable : AddToBlocklist({a}) \/ RemoveFromBlocklist({a})
           \/ \E S \in SUBSET Listable : SanctionsChange(S)
           \/ SetBlocklist
           \/ \E status \in BOOLEAN : SetPaused(status)
  <2>1. UNCHANGED allowlistVars /\ TokenTypes'
    <3>1. ASSUME NEW a \in Listable, AddToBlocklist({a}) \/ RemoveFromBlocklist({a})
          PROVE  UNCHANGED allowlistVars /\ TokenTypes'
      BY <1>1, <1>2, <3>1 DEF AddToBlocklist, RemoveFromBlocklist, TokenTypes, tokenVars
    <3>2. ASSUME NEW S \in SUBSET Listable, SanctionsChange(S)
          PROVE  UNCHANGED allowlistVars /\ TokenTypes'
      BY <1>1, <1>2, <3>2 DEF SanctionsChange, TokenTypes, tokenVars
    <3>3. ASSUME SetBlocklist PROVE UNCHANGED allowlistVars /\ TokenTypes'
      BY <1>1, <1>2, <3>3 DEF SetBlocklist, TokenTypes, tokenVars
    <3>4. ASSUME NEW status \in BOOLEAN, SetPaused(status)
          PROVE  UNCHANGED allowlistVars /\ TokenTypes'
      BY <1>1, <1>2, <3>4 DEF SetPaused, TokenTypes, tokenVars
    <3> QED BY <1>4, <3>1, <3>2, <3>3, <3>4
  <2>2. ListInvariant'
    BY <1>1, <2>1, ListUnchanged
  <2> QED BY <2>1, <2>2 DEF TokenInvariant, TypeOK, ListInvariant, ListTypes, TokenTypes
<1>5. CASE SetAllowlist
  <2>1. ListInvariant'
    BY <1>1, <1>5, NewAllowlistKeeps
  <2>2. TokenTypes'
    BY <1>1, <1>2, <1>5 DEF SetAllowlist, TokenTypes, tokenVars, controlVars
  <2> QED BY <2>1, <2>2 DEF TokenInvariant, TypeOK, ListInvariant, ListTypes, TokenTypes
<1> QED BY <1>3, <1>4, <1>5 DEF Administration

LEMMA TokenStep == TokenInvariant /\ [Next]_vars => TokenInvariant'
<1> SUFFICES ASSUME TokenInvariant, [Next]_vars PROVE TokenInvariant'
  OBVIOUS
<1>1. ListInvariant /\ TokenTypes
  BY InvariantParts
<1>2. CASE Administration
  BY <1>2, AdministrationKeeps
<1>3. ASSUME NEW u \in Users, Joins(u) PROVE TokenInvariant'
  <2>1. ListInvariant'
    BY <1>1, <1>3, JoiningKeeps, SigningKeeps DEF Joins
  <2>2. TokenTypes'
    BY <1>1, <1>3 DEF Joins, TokenTypes, tokenVars, controlVars
  <2> QED BY <2>1, <2>2 DEF TokenInvariant, TypeOK, ListInvariant, ListTypes, TokenTypes
<1>4. ASSUME UNCHANGED allowlistVars, TokenTypes' PROVE TokenInvariant'
  <2>1. ListInvariant'
    BY <1>1, <1>4, ListUnchanged
  <2> QED BY <1>4, <2>1 DEF TokenInvariant, TypeOK, ListInvariant, ListTypes, TokenTypes
<1>5. ASSUME NEW u \in Users, HolderActs(u) PROVE TokenInvariant'
  BY <1>1, <1>4, <1>5, HolderKeepsTypes
<1>6. ASSUME NEW batch \in SUBSET due, ClaimMint(batch) PROVE TokenInvariant'
  BY <1>1, <1>4, <1>6, ClaimKeepsTypes
<1>7. CASE UNCHANGED vars
  <2>1. UNCHANGED allowlistVars /\ TokenTypes'
    BY <1>1, <1>7 DEF vars, tokenVars, controlVars, TokenTypes
  <2> QED BY <1>4, <2>1
<1> QED BY <1>2, <1>3, <1>5, <1>6, <1>7 DEF Next

LEMMA TokenInvariantHolds == Spec => []TokenInvariant
BY TokenInitial, TokenStep, PTL DEF Spec

\* The types, and what the lists keep.  (AllowlistUpgradeable.sol, USDX.sol.)
THEOREM TokenTypeCorrect == Spec => []TypeOK
<1>1. TokenInvariant => TypeOK
  BY DEF TokenInvariant
<1> QED BY <1>1, TokenInvariantHolds, PTL

\* An account is allowed for a term it agreed to or was placed under, after
\* any sequence of publishing, revoking, replacing and replaying signatures.
\* (AllowlistUpgradeable.sol:71-98, 151-236.)
THEOREM AllowedConsented == Spec => []AllowedByConsent
<1>1. TokenInvariant => AllowedByConsent
  BY AllowlistAssumption
     DEF TokenInvariant, TypeOK, VerifiedByConsent, AllowedByConsent, isAllowed
<1> QED BY <1>1, TokenInvariantHolds, PTL
-----------------------------------------------------------------------------
(* The transfer hook                                                       *)

LEMMA ClearIsWelcome ==
  ASSUME NEW a, Clear(a) PROVE Welcome(a)
BY AllowlistAssumption DEF Clear, Welcome, isAllowed

\* What a call that passes the hook leaves to be shown: that it moves nothing
\* but from, to and the allowance of sender.
Passes(sender, from, to) ==
  /\ ~paused
  /\ \A a \in {sender, from, to} \ {NoAddress} : Welcome(a)

LEMMA HookPasses ==
  ASSUME NEW sender, NEW from, NEW to, sender # NoAddress,
         _beforeTokenTransfer(sender, from, to)
  PROVE  Passes(sender, from, to)
BY ClearIsWelcome DEF _beforeTokenTransfer, Passes

Movement ==
  balances' # balances =>
    /\ ~paused
    /\ \A a \in Accounts : balances'[a] # balances[a] => Welcome(a)
    /\ \A p \in DOMAIN allowances : allowances'[p] # allowances[p] => Welcome(p[2])
    /\ due' # due => Welcome(manager)

LEMMA HolderMovesPass ==
  ASSUME TokenTypes, NEW u \in Users, HolderActs(u)
  PROVE  Movement
<1>1. /\ Users \subseteq Accounts \ {NoAddress} /\ manager \in Accounts \ {NoAddress}
      /\ burner \in Accounts \ {NoAddress} /\ 1 \in Nat
      /\ balances \in [Accounts -> Nat]
  BY TokenAssumption DEF Accounts, TokenTypes
<1>2. ASSUME NEW to \in Users, Transfer(u, to, 1) PROVE Movement
  BY <1>1, <1>2, HookPasses, MovedOnlyBetween DEF Transfer, Passes, Movement
<1>3. ASSUME NEW from \in Users, NEW to \in Users, TransferFrom(u, from, to, 1)
      PROVE  Movement
  <2>1. Passes(u, from, to)
    BY <1>1, <1>3, HookPasses DEF TransferFrom
  <2>2. \A p \in DOMAIN allowances : allowances'[p] # allowances[p] => p[2] = u
    BY <1>1, <1>3, SpentType DEF TransferFrom
  <2>3. \A a \in Accounts \ {from, to} : balances'[a] = balances[a]
    BY <1>1, <1>3, MovedOnlyBetween DEF TransferFrom
  <2> QED BY <1>1, <1>3, <2>1, <2>2, <2>3 DEF TransferFrom, Passes, Movement
<1>4. ASSUME NEW from \in Users, NEW spender \in Users \cup {manager},
             BurnFrom(spender, from, 1)
      PROVE  Movement
  <2>1. Passes(spender, from, NoAddress)
    BY <1>1, <1>4, HookPasses DEF BurnFrom, _burn
  <2>2. \A p \in DOMAIN allowances : allowances'[p] # allowances[p] => p[2] = spender
    BY <1>1, <1>4, SpentType DEF BurnFrom
  <2>3. \A a \in Accounts \ {from} : balances'[a] = balances[a]
    <3>1. balances' = Debited(balances, from, 1)
      BY <1>4 DEF BurnFrom, _burn
    <3> QED BY <1>1, <3>1 DEF Debited
  <2>4. ~paused /\ Welcome(spender) /\ Welcome(from)
    BY <1>1, <2>1 DEF Passes
  <2>5. UNCHANGED due
    BY <1>4 DEF BurnFrom, _burn
  <2>6. \A p \in DOMAIN allowances : allowances'[p] # allowances[p] => Welcome(p[2])
    BY <2>2, <2>4
  <2>7. \A a \in Accounts : balances'[a] # balances[a] => Welcome(a)
    BY <2>3, <2>4
  <2> QED BY <2>4, <2>5, <2>6, <2>7 DEF Movement
<1>5. ASSUME NEW sender \in {u, burner}, Burn(sender, u, 1) PROVE Movement
  <2>1. Passes(sender, u, NoAddress)
    BY <1>1, <1>5, HookPasses DEF Burn, _burn
  <2>2. \A a \in Accounts \ {u} : balances'[a] = balances[a]
    <3>1. balances' = Debited(balances, u, 1)
      BY <1>5 DEF Burn, _burn
    <3> QED BY <1>1, <3>1 DEF Debited
  <2> QED BY <1>1, <1>5, <2>1, <2>2 DEF Burn, _burn, Passes, Movement
<1>6. ASSUME NEW s \in Users \cup {manager}, NEW n \in {0, 1}, Approve(u, s, n)
      PROVE  Movement
  BY <1>6 DEF Approve, Movement
<1> QED BY <1>2, <1>3, <1>4, <1>5, <1>6 DEF HolderActs

LEMMA ClaimsPass ==
  ASSUME TokenTypes, NEW batch \in SUBSET due, ClaimMint(batch)
  PROVE  Movement
<1>1. /\ batch # {} /\ batch \subseteq Users /\ balances \in [Accounts -> Nat]
      /\ balances' = Minted(batch) /\ UNCHANGED allowances
      /\ \A u \in batch : _beforeTokenTransfer(manager, NoAddress, u)
  BY DEF ClaimMint, TokenTypes
<1>2. \A u \in batch : Passes(manager, NoAddress, u) /\ u # NoAddress
  BY <1>1, HookPasses, TokenAssumption DEF Accounts
<1>3. \A a \in Accounts : a \notin batch => balances'[a] = balances[a]
  BY <1>1 DEF Minted
<1>4. manager # NoAddress
  BY TokenAssumption DEF Accounts
<1> QED BY <1>1, <1>2, <1>3, <1>4 DEF Passes, Movement

\* Every movement of USDX passes the lists and the pause in force, with its
\* sender: transfers, redemptions, admin burns and batches of claims alike.
\* (USDX.sol:74-105.)
THEOREM MovementsChecked == Spec => MovementsPassTheLists
<1>1. TokenInvariant /\ [Next]_vars => [Movement]_vars
  <2> SUFFICES ASSUME TokenInvariant, Next PROVE Movement
    OBVIOUS
  <2>1. TokenTypes
    BY InvariantParts
  <2>2. CASE Administration
    <3>1. UNCHANGED balances
      BY <2>2 DEF Administration, AllowlistAdministration, AddToBlocklist,
                  RemoveFromBlocklist, SetBlocklist, SanctionsChange, SetAllowlist,
                  SetPaused, tokenVars
    <3> QED BY <3>1 DEF Movement
  <2>3. ASSUME NEW u \in Users, Joins(u) PROVE Movement
    BY <2>3 DEF Joins, tokenVars, Movement
  <2> QED BY <2>1, <2>2, <2>3, HolderMovesPass, ClaimsPass DEF Next
<1> QED BY <1>1, TokenInvariantHolds, PTL DEF Spec, MovementsPassTheLists, Movement
=============================================================================
