------------------------------- MODULE MonthBook -------------------------------
(***************************************************************************)
(* What the rest of the system relies on of reporting months: one month    *)
(* per period, opened as a draft, empty or as a copy of another one;       *)
(* changed while it is a draft, closed and reopened as a whole, taken out  *)
(* with everything it holds; and one month at a time.                      *)
(***************************************************************************)
CONSTANTS MonthIds, Periods, Dates, Sources, NoRows, Rows,
          Copied(_),  \* what a clone takes over
          None

VARIABLES header,  \* period, date, source and status of each month
          rows     \* what each month holds

bookVars == <<header, rows>>

Header == [period: Periods, date: Dates, source: Sources, status: {"draft", "closed"}]

BookInit ==
  /\ header = [m \in MonthIds |-> None]
  /\ rows = [m \in MonthIds |-> NoRows]

Stored == {m \in MonthIds : header[m] # None}
Drafts == {m \in Stored : header[m].status = "draft"}

\* A month that is opened is a draft of a period without a month.
OpenMonth(m, h) ==
  /\ m \notin Stored
  /\ h.status = "draft"
  /\ \A n \in Stored : header[n].period # h.period
  /\ header' = [header EXCEPT ![m] = h]
  /\ \/ rows[m] = NoRows /\ UNCHANGED rows
     \/ \E n \in Stored : rows' = [rows EXCEPT ![m] = Copied(rows[n])]

EditHeader(m, h) ==
  /\ m \in Drafts
  /\ h.period = header[m].period /\ h.status = "draft"
  /\ header' = [header EXCEPT ![m] = h]
  /\ UNCHANGED rows

EditRows(m) ==
  /\ m \in Drafts
  /\ \E r \in Rows : rows' = [rows EXCEPT ![m] = r]
  /\ UNCHANGED header

\* Nothing but the status changes.
SwitchStatus(m, from, to) ==
  /\ m \in Stored /\ header[m].status = from
  /\ header' = [header EXCEPT ![m].status = to]
  /\ UNCHANGED rows

RemoveMonth(m) ==
  /\ m \in Drafts
  /\ header' = [header EXCEPT ![m] = None]
  /\ rows' = [rows EXCEPT ![m] = NoRows]

BookNext ==
  \E m \in MonthIds :
    \/ \E h \in Header : OpenMonth(m, h) \/ EditHeader(m, h)
    \/ EditRows(m) \/ RemoveMonth(m)
    \/ SwitchStatus(m, "draft", "closed") \/ SwitchStatus(m, "closed", "draft")

BookSpec == BookInit /\ [][BookNext]_bookVars

=============================================================================
