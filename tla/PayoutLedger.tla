------------------------------ MODULE PayoutLedger ------------------------------
(***************************************************************************)
(* What the statement import promises the owner of the payouts: a          *)
(* statement row stands for one payout and a payout for at most one row.   *)
(* A payout without a row is its owner's, who enters and removes it; any   *)
(* payout is the owner's to change.  One that was created from a row is    *)
(* corrected only while it is still as that row has it, and goes when the  *)
(* row is retracted; one that was linked to a row stays.                   *)
(***************************************************************************)
CONSTANTS FlowIds, Months, Identities,
          Rows,     \* what a statement, or the owner, says of a payout
          Sources,  \* where a payout is said to come from
          None

VARIABLES payouts,  \* the stored payouts
          standing  \* the rows that are applied: identity, payout, mode and what they say

ledgerVars == <<payouts, standing>>

Entered(m, row, source) ==
  [month |-> m, date |-> row.date, gross |-> row.gross, tax |-> row.tax, net |-> row.net,
   source |-> source]
Stated(row) == Entered(row.date, row, "statement")

Stored == {f \in FlowIds : payouts[f] # None}

\* No row stands for the payout.
OwnersFree(f) == f \in Stored /\ \A x \in standing : x.flow # f

LedgerInit ==
  /\ payouts = [f \in FlowIds |-> None]
  /\ standing = {}

-----------------------------------------------------------------------------
(* The owner. *)

Enter(f) ==
  /\ f \notin Stored
  /\ \E m \in Months, row \in Rows, source \in Sources :
       payouts' = [payouts EXCEPT ![f] = Entered(m, row, source)]
  /\ UNCHANGED standing

\* Anything but the month, and whether or not a row stands for the payout.
Amend(f) ==
  /\ f \in Stored /\ payouts'[f] # None
  /\ payouts'[f].month = payouts[f].month
  /\ \A g \in FlowIds \ {f} : payouts'[g] = payouts[g]
  /\ UNCHANGED standing

Remove(f) ==
  /\ OwnersFree(f)
  /\ payouts' = [payouts EXCEPT ![f] = None]
  /\ UNCHANGED standing

-----------------------------------------------------------------------------
(* The statements. *)

New(i) == \A x \in standing : x.identity # i

Stand(i, f, mode, row) ==
  {[identity |-> i, flow |-> f, mode |-> mode, row |-> row]}

Apply(i, f, row) ==
  /\ New(i) /\ f \notin Stored
  /\ payouts' = [payouts EXCEPT ![f] = Stated(row)]
  /\ standing' = standing \cup Stand(i, f, "created", row)

Link(i, f, row) ==
  /\ New(i) /\ OwnersFree(f)
  /\ standing' = standing \cup Stand(i, f, "linked", row)
  /\ UNCHANGED payouts

\* Nobody has changed the payout since the row was applied or last corrected.
Correct(x, row) ==
  /\ x.mode = "created" /\ payouts[x.flow] = Stated(x.row)
  /\ payouts' = [payouts EXCEPT ![x.flow] = Stated(row)]
  /\ standing' = (standing \ {x}) \cup Stand(x.identity, x.flow, "created", row)

Retract(x) ==
  /\ payouts' = IF x.mode = "created" THEN [payouts EXCEPT ![x.flow] = None] ELSE payouts
  /\ standing' = standing \ {x}

LedgerNext ==
  \/ \E f \in FlowIds : Amend(f) \/ Enter(f) \/ Remove(f)
  \/ \E i \in Identities, f \in FlowIds, row \in Rows : Apply(i, f, row) \/ Link(i, f, row)
  \/ \E x \in standing : Retract(x) \/ \E row \in Rows : Correct(x, row)

LedgerSpec == LedgerInit /\ [][LedgerNext]_ledgerVars

=============================================================================
