------------------------- MODULE RecurringInvoices --------------------------
(***************************************************************************)
(* Recurring invoices of a tenant (src/src/financials): requests that make *)
(* the invoices of the schedules that are due.  A pass lists the schedules *)
(* and then saves, for each, an invoice, the count of invoices, and the    *)
(* next date, every save on its own and from the row the list held.        *)
(***************************************************************************)
EXTENDS Integers

CONSTANTS
    Billers,            \* passes under way at a time
    Schedules,          \* rows of recurring_invoices
    Terms,              \* the pairs of count and end date schedules may have; 0 stands for null
    LastDay,            \* bound: days and dates
    MaxInvoices,        \* bound: invoices
    MaxInvoiceFaults    \* bound: awaits that reject, and crashes

Days == 1 .. LastDay
Schedule == [isActive: BOOLEAN, next: 1 .. LastDay + 1, total: 0 .. MaxInvoices,
             recurrenceCount: 0 .. LastDay, endDate: 0 .. LastDay]

ASSUME RecurringAssumption ==
    Terms \subseteq (0 .. LastDay) \X (0 .. LastDay) /\ LastDay \in Nat \ {0} /\ MaxInvoices \in Nat /\ MaxInvoiceFaults \in Nat

VARIABLES
    schedules,
    invoiced,       \* schedule -> the number of its invoices, by the date it was due
    lastNumber,     \* last of the invoice numbers, which are unique
    today,
    vpc,            \* biller -> the await it stands at
    due,            \* biller -> schedules of its list still to be done, with the rows listed
    inHand,         \* biller -> the schedule it is at, with its row
    number,         \* biller -> the invoice number it has computed
    invoiceFaults,
    repeats         \* history: schedules invoiced from a row that was behind, or left half-way

recurringVars == <<schedules, invoiced, lastNumber, today, vpc, due, inHand, number,
                   invoiceFaults, repeats>>
tables == <<schedules, invoiced, lastNumber>>

NoSchedule == [isActive |-> FALSE, next |-> 1, total |-> 0, recurrenceCount |-> 0, endDate |-> 0]
Listed(s, row) == [id |-> s, row |-> row]
NothingInHand == Listed("none", NoSchedule)

RecurringInit ==
    /\ schedules \in [Schedules -> {[isActive |-> TRUE, next |-> 1, total |-> 0,
                                     recurrenceCount |-> t[1], endDate |-> t[2]] : t \in Terms}]
    /\ invoiced = [s \in Schedules |-> [d \in Days |-> 0]]
    /\ lastNumber = 0
    /\ today = 1
    /\ vpc = [b \in Billers |-> "idle"]
    /\ due = [b \in Billers |-> {}]
    /\ inHand = [b \in Billers |-> NothingInHand]
    /\ number = [b \in Billers |-> 0]
    /\ invoiceFaults = 0
    /\ repeats = {}

BillerAt(b, label, rest, h, n) ==
    /\ vpc' = [vpc EXCEPT ![b] = label]
    /\ due' = [due EXCEPT ![b] = rest]
    /\ inHand' = [inHand EXCEPT ![b] = h]
    /\ number' = [number EXCEPT ![b] = n]
Onward(b) ==
    BillerAt(b, IF due[b] = {} THEN "idle" ELSE "next", due[b], NothingInHand, 0)

-----------------------------------------------------------------------------
NewDay ==
    /\ today < LastDay
    /\ today' = today + 1
    /\ UNCHANGED <<tables, vpc, due, inHand, number, invoiceFaults, repeats>>

(* executeBilling and generateRecurringInvoices take the date from the client. *)
GenerateRecurringInvoices(b) ==
    /\ vpc[b] = "idle"
    /\ \E date \in Days :
         LET found == {s \in Schedules : schedules[s].isActive /\ schedules[s].next <= date} IN
         /\ found # {}
         /\ BillerAt(b, "next", {Listed(s, schedules[s]) : s \in found}, NothingInHand, 0)
    /\ UNCHANGED <<tables, today, invoiceFaults, repeats>>

IsComplete(r) ==
    \/ r.endDate # 0 /\ today > r.endDate
    \/ r.recurrenceCount # 0 /\ r.total >= r.recurrenceCount

(* The next of the list: complete, or the number of its invoice is computed. *)
NextSchedule(b) ==
    /\ vpc[b] = "next"
    /\ \E h \in due[b] :
         IF IsComplete(h.row)
         THEN BillerAt(b, "complete", due[b] \ {h}, [h EXCEPT !.row.isActive = FALSE], 0)
         ELSE BillerAt(b, "insert", due[b] \ {h}, h, lastNumber + 1)
    /\ UNCHANGED <<tables, today, invoiceFaults, repeats>>

(* Another pass is in the schedule's turn, or has ended it since the list was read. *)
Overtaken(b, h) ==
    \/ schedules[h.id] # h.row
    \/ \E o \in Billers \ {b} : inHand[o].id = h.id /\ vpc[o] \in {"track", "save"}

(* A number that was given meanwhile is refused; the pass goes on with the others. *)
InsertNumbered(b, counted) ==
    LET h == inHand[b] IN
    /\ vpc[b] = "insert"
    /\ lastNumber < MaxInvoices
    /\ IF number[b] <= lastNumber THEN Onward(b) /\ UNCHANGED <<invoiced, lastNumber, repeats>>
       ELSE /\ invoiced' = [invoiced EXCEPT ![h.id][h.row.next] = @ + 1]
            /\ lastNumber' = number[b]
            /\ repeats' = IF Overtaken(b, h) THEN repeats \cup {h.id} ELSE repeats
            /\ BillerAt(b, "track", due[b], [h EXCEPT !.row.total = @ + counted], 0)
    /\ UNCHANGED <<schedules, today, invoiceFaults>>

(* Mutant: the invoice is not counted. *)
InsertInvoiceUncounted(b) == InsertNumbered(b, 0)

InsertInvoice(b) == InsertNumbered(b, 1)

(* The count and the invoice are noted in the schedule; then its next date is computed. *)
Advanced(r) ==
    LET n == r.next + 1 IN
    [r EXCEPT !.next = n,
              !.isActive = ~(\/ r.endDate # 0 /\ n > r.endDate
                             \/ r.recurrenceCount # 0 /\ r.total >= r.recurrenceCount)]
TrackInvoice(b) ==
    LET h == inHand[b] IN
    /\ vpc[b] = "track"
    /\ schedules' = [schedules EXCEPT ![h.id] = h.row]
    /\ BillerAt(b, "save", due[b], [h EXCEPT !.row = Advanced(h.row)], 0)
    /\ UNCHANGED <<invoiced, lastNumber, today, invoiceFaults, repeats>>

(* The save that ends a schedule's turn, in either branch. *)
SaveSchedule(b) ==
    LET h == inHand[b] IN
    /\ vpc[b] \in {"save", "complete"}
    /\ schedules' = [schedules EXCEPT ![h.id] = h.row]
    /\ Onward(b)
    /\ UNCHANGED <<invoiced, lastNumber, today, invoiceFaults, repeats>>

(* A save rejects, which is caught and logged for the schedule in hand, that of a *)
(* complete one excepted; or the server stops.                                    *)
InvoiceFault(b) ==
    /\ vpc[b] \in {"insert", "track", "save", "complete"}
    /\ invoiceFaults < MaxInvoiceFaults
    /\ invoiceFaults' = invoiceFaults + 1
    /\ repeats' = IF vpc[b] \in {"insert", "complete"} THEN repeats ELSE repeats \cup {inHand[b].id}
    /\ \/ vpc[b] # "complete" /\ Onward(b)
       \/ BillerAt(b, "idle", {}, NothingInHand, 0)
    /\ UNCHANGED <<tables, today>>

RecurringNext ==
    \/ NewDay
    \/ \E b \in Billers :
         \/ GenerateRecurringInvoices(b) \/ NextSchedule(b) \/ InsertInvoice(b)
         \/ TrackInvoice(b) \/ SaveSchedule(b) \/ InvoiceFault(b)

RecurringSpec == RecurringInit /\ [][RecurringNext]_recurringVars

-----------------------------------------------------------------------------
(* Properties. *)

(* The rows keep the shape of their columns. *)
RecurringTypeOK ==
    /\ schedules \in [Schedules -> Schedule]
    /\ invoiced \in [Schedules -> [Days -> 0 .. MaxInvoices]]
    /\ lastNumber \in 0 .. MaxInvoices
    /\ vpc \in [Billers -> {"idle", "next", "insert", "track", "save", "complete"}]

Invoices(s) == {d \in Days : invoiced[s][d] > 0}

(* No date is passed over; none is invoiced twice, nor more dates than the        *)
(* schedule asks for, unless a pass saved over another's work or was cut short    *)
(* after the invoice.                                                             *)
InvoicedOnce == \A s \in Schedules :
    /\ \A d \in Days : d < schedules[s].next => invoiced[s][d] > 0
    /\ s \notin repeats =>
         /\ \A d \in Days : invoiced[s][d] <= 1
         /\ schedules[s].recurrenceCount # 0 =>
              \A d \in Invoices(s) : d <= schedules[s].recurrenceCount
=============================================================================
