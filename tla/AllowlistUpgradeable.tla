------------------------ MODULE AllowlistUpgradeable ------------------------
(***************************************************************************)
(* allowlist/AllowlistUpgradeable.sol: who has accepted which terms, and   *)
(* which terms count.  A term is a text, published under an index; the     *)
(* same text may be published twice.  Contracts are always allowed.        *)
(*                                                                         *)
(* A signature is of the text alone: neither the index nor the list is     *)
(* part of what is signed, so it serves wherever the text is published,    *)
(* and whoever has seen it may submit it.  `signed` are the signatures     *)
(* that exist.  agreed and placed are history variables: the texts an      *)
(* account accepted itself, and the entries in force that the setter made. *)
(***************************************************************************)
EXTENDS Naturals, Sequences

CONSTANTS
  Users,        \* externally owned accounts
  Contracts,
  Texts,
  MaxTerms      \* bounds the terms of a list

ASSUME AllowlistAssumption == Users \cap Contracts = {} /\ MaxTerms \in Nat

VARIABLES terms, currentTermIndex, validIndexes, verifications, signed, agreed, placed

listVars == <<terms, currentTermIndex, validIndexes, verifications, placed>>
allowlistVars == <<listVars, signed, agreed>>

TermIndexes == 0 .. Len(terms) - 1
TextOf(termIndex) == terms[termIndex + 1]

AllowlistInit ==
  /\ terms = <<>> /\ currentTermIndex = 0 /\ validIndexes = {}
  /\ verifications = {} /\ signed = {} /\ agreed = {} /\ placed = {}

AddTerm(text) ==
  /\ Len(terms) < MaxTerms
  /\ terms' = Append(terms, text)
  /\ currentTermIndex' = Len(terms)
  /\ UNCHANGED <<validIndexes, verifications, signed, agreed, placed>>

SetCurrentTermIndex(termIndex) ==
  /\ termIndex \in TermIndexes
  /\ currentTermIndex' = termIndex
  /\ UNCHANGED <<terms, validIndexes, verifications, signed, agreed, placed>>

SetValidTermIndexes(indexes) ==
  /\ indexes \subseteq TermIndexes
  /\ validIndexes' = indexes
  /\ UNCHANGED <<terms, currentTermIndex, verifications, signed, agreed, placed>>

isAllowed(account) ==
  \/ account \in Contracts
  \/ \E i \in validIndexes : <<account, i>> \in verifications

_setAccountStatus(account, termIndex, status) ==
  /\ termIndex \in TermIndexes
  /\ verifications' = IF status THEN verifications \cup {<<account, termIndex>>}
                                ELSE verifications \ {<<account, termIndex>>}

AddSelfToAllowlist_FaultyCurrentOnly(account, termIndex) ==
  /\ termIndex = currentTermIndex
  /\ <<account, termIndex>> \notin verifications
  /\ _setAccountStatus(account, termIndex, TRUE)
  /\ agreed' = agreed \cup {<<account, TextOf(termIndex)>>}
  /\ UNCHANGED <<terms, currentTermIndex, validIndexes, signed, placed>>

\* Also for a term that is not valid, or not the current one.
AddSelfToAllowlist(account, termIndex) ==
  /\ <<account, termIndex>> \notin verifications
  /\ _setAccountStatus(account, termIndex, TRUE)
  /\ agreed' = agreed \cup {<<account, TextOf(termIndex)>>}
  /\ UNCHANGED <<terms, currentTermIndex, validIndexes, signed, placed>>

SetAccountStatus(account, termIndex, status) ==
  /\ _setAccountStatus(account, termIndex, status)
  /\ placed' = IF status THEN placed \cup {<<account, termIndex>>}
                         ELSE placed \ {<<account, termIndex>>}
  /\ UNCHANGED <<terms, currentTermIndex, validIndexes, signed, agreed>>

SignatureFits_FaultyUnchecked(account, termIndex) == termIndex \in TermIndexes

\* ECDSA.recover answers the account.
SignatureFits(account, termIndex) ==
  termIndex \in TermIndexes /\ <<account, TextOf(termIndex)>> \in signed

\* By anyone.
AddAccountToAllowlist(termIndex, account) ==
  /\ <<account, termIndex>> \notin verifications
  /\ SignatureFits(account, termIndex)
  /\ _setAccountStatus(account, termIndex, TRUE)
  /\ UNCHANGED <<terms, currentTermIndex, validIndexes, signed, agreed, placed>>

\* Off chain, the account signs a text it is shown.
Signs(account, text) ==
  /\ signed' = signed \cup {<<account, text>>}
  /\ agreed' = agreed \cup {<<account, text>>}
  /\ UNCHANGED listVars
=============================================================================
