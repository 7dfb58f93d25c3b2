--------------------------- MODULE EvidenceLedger ---------------------------
(***************************************************************************)
(* What an evidence store promises its callers, whatever the backend: one  *)
(* ledger per tenant that only grows at its end, and an acknowledgement    *)
(* that always names a prefix of the tenant's ledger.  The ledger is the   *)
(* sequence of records; a chain hash is what it commits to, so the hash    *)
(* handed back by append() is the ledger as it was just after the append.  *)
(***************************************************************************)
EXTENDS Naturals, Sequences

CONSTANTS Tenants,    \* the tenant ids, the "_unscoped_" sentinel included
          Records     \* the records that can be appended

VARIABLES ledger,     \* ledger[t]: the records appended under tenant t
          acked       \* the <<tenant, hash>> pairs returned to callers

ledgerVars == <<ledger, acked>>

\* s commits to an initial part of the ledger l.
CommitsTo(s, l) == Len(s) <= Len(l) /\ s = SubSeq(l, 1, Len(s))

LedgerInit ==
  /\ ledger = [t \in Tenants |-> <<>>]
  /\ acked = {}

\* A record joins the end of one tenant's ledger.
Extend(t, r) ==
  /\ ledger' = [ledger EXCEPT ![t] = Append(@, r)]
  /\ UNCHANGED acked

\* A caller is told the hash of a prefix of its tenant's ledger.
Acknowledge(t, h) ==
  /\ CommitsTo(h, ledger[t])
  /\ acked' = acked \cup {<<t, h>>}
  /\ UNCHANGED ledger

LedgerNext ==
  \/ \E t \in Tenants, r \in Records : Extend(t, r)
  \/ \E t \in Tenants : \E n \in 0..Len(ledger[t]) :
        Acknowledge(t, SubSeq(ledger[t], 1, n))

LedgerSpec == LedgerInit /\ [][LedgerNext]_ledgerVars
=============================================================================
