-------------------------------- MODULE Wallet --------------------------------
(***************************************************************************)
(* What prepaid billing promises, with no request, price or handler in it: *)
(* a balance per gateway key and a ledger of the amounts added and taken.  *)
(* Money leaves a balance only together with its ledger entry and only if  *)
(* it is there; an administrator may write off a balance but never raise   *)
(* one without an entry.                                                   *)
(***************************************************************************)
EXTENDS Integers

CONSTANT Users  \* key values

VARIABLES
  balance,  \* the amount a key can spend, 0 for a key that does not exist
  ledger    \* sum of the key's entries in billing_txns

Accounts == [Users -> Nat]

Open == balance \in Accounts /\ ledger = [u \in Users |-> 0]

Debit(u) ==
  \E n \in 1..balance[u] :
    /\ balance' = [balance EXCEPT ![u] = @ - n]
    /\ ledger' = [ledger EXCEPT ![u] = @ - n]

\* the amount an entry adds to the ledger of u
Entered(u) == ledger'[u] - ledger[u]

Credit(u) ==
  /\ Entered(u) > 0
  /\ balance' = [balance EXCEPT ![u] = @ + Entered(u)]
  /\ ledger' = [ledger EXCEPT ![u] = @ + Entered(u)]

\* a top-up addressed to a key that does not exist
CreditNobody(u) ==
  /\ Entered(u) > 0
  /\ balance[u] = 0
  /\ ledger' = [ledger EXCEPT ![u] = @ + Entered(u)]
  /\ UNCHANGED balance

WriteOff(gone) ==
  /\ balance' = [u \in Users |-> IF u \in gone THEN 0 ELSE balance[u]]
  /\ UNCHANGED ledger

Move ==
  \/ \E u \in Users : Debit(u) \/ Credit(u) \/ CreditNobody(u)
  \/ \E gone \in SUBSET Users : WriteOff(gone)

WalletSpec == Open /\ [][Move]_<<balance, ledger>>
=============================================================================
