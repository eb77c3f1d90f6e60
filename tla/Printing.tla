------------------------------- MODULE Printing -------------------------------
(***************************************************************************)
(* The kitchen-ticket queue of one vendor.  Its printers poll for a job,   *)
(* which leases it to them for two minutes, fetch the ticket, print it and *)
(* report.  A report is a request of its own: it may arrive when the lease *)
(* has moved on, or not at all.                                            *)
(***************************************************************************)
EXTENDS Integers, FiniteSets

CONSTANTS
    Orders,
    Tests,        \* sample tickets, jobs without an order
    Printers,
    Tokenless,    \* printers whose firmware reports without the job's token
    MaxAttempts,  \* PRINT_MAX_ATTEMPTS
    MaxReprints,  \* bound: reprints of each order
    MaxMishaps,   \* bound: see the variable
    Removable,    \* bound: printers the vendor may revoke
    Closing,      \* bound: jobs whose window may close
    None

Jobs == Orders \cup Tests

PrintingAssumption ==
    /\ Orders \cap Tests = {}
    /\ Tokenless \subseteq Printers /\ Removable \subseteq Printers
    /\ Closing \subseteq Jobs
    /\ MaxAttempts \in Nat \ {0}
    /\ {MaxReprints, MaxMishaps} \subseteq Nat
    /\ None \notin Printers \cup Jobs

VARIABLES
    order,     \* "unpaid", "paid", or "over": cancelled, expired or refunded
    job,       \* print_jobs.status, "none" without a row
    lease,     \* leased_printer_id
    fresh,     \* jobs leased less than PRINT_LEASE_SECONDS ago
    when,      \* print_after: ahead, due, or older than PRINT_WINDOW_HOURS
    attempts,
    by,        \* printed_by_printer_id
    printer,   \* "new", "live" or "revoked"
    enabled,   \* the cloud_printing flag is on for the vendor
    device,    \* what each printer is doing, and with which job
    late,      \* reports whose printer did not wait for the answer
    onPaper,   \* jobs whose ticket came out at least once
    spare,     \* history: copies there is a reason for, less those printed
    reprints,
    mishaps    \* leases that ran out on a busy printer, jams and late reports

rows == <<job, lease, fresh, when, attempts, by>>
paper == <<device, late, onPaper>>
counts == <<spare, reprints, mishaps>>
vars == <<order, rows, printer, enabled, paper, counts>>

Idle == [stage |-> "ready", job |-> None]

Init ==
    /\ order = [o \in Orders |-> "unpaid"]
    /\ job = [j \in Jobs |-> "none"]
    /\ lease = [j \in Jobs |-> None]
    /\ fresh = {}
    /\ when = [j \in Jobs |-> "ahead"]
    /\ attempts = [j \in Jobs |-> 0]
    /\ by = [j \in Jobs |-> None]
    /\ printer = [p \in Printers |-> "new"]
    /\ enabled \in BOOLEAN
    /\ device = [p \in Printers |-> Idle]
    /\ late = {}
    /\ onPaper = {}
    /\ spare = [j \in Jobs |-> 1]
    /\ reprints = [o \in Orders |-> 0]
    /\ mishaps = 0

LivePrinters == {p \in Printers : printer[p] = "live"}

-----------------------------------------------------------------------------
(* The vendor and the orders.                                              *)

RegisterPrinter(p) ==
    /\ enabled /\ printer[p] = "new"
    /\ printer' = [printer EXCEPT ![p] = "live"]
    /\ UNCHANGED <<order, rows, enabled, paper, counts>>

\* The key is no longer accepted; the lease stays until it runs out.
RevokePrinter(p) ==
    /\ printer[p] = "live"
    /\ printer' = [printer EXCEPT ![p] = "revoked"]
    /\ UNCHANGED <<order, rows, enabled, paper, counts>>

SetFlag ==
    /\ enabled' = ~enabled
    /\ UNCHANGED <<order, rows, printer, paper, counts>>

Queue(j, time) ==
    /\ job' = [job EXCEPT ![j] = "pending"]
    /\ when' = [when EXCEPT ![j] = time]
    /\ lease' = [lease EXCEPT ![j] = None]
    /\ fresh' = fresh \ {j}
    /\ attempts' = [attempts EXCEPT ![j] = 0]
    /\ by' = by

\* The trigger on the first paid_at; the flag is not looked at.
Pay(o) ==
    /\ order[o] = "unpaid"
    /\ order' = [order EXCEPT ![o] = "paid"]
    /\ IF LivePrinters # {} /\ job[o] = "none"
         THEN \E time \in {"ahead", "due"} : Queue(o, time)
         ELSE UNCHANGED rows
    /\ UNCHANGED <<printer, enabled, paper, counts>>

CloseOrder(o) ==
    /\ order[o] = "paid"
    /\ order' = [order EXCEPT ![o] = "over"]
    /\ UNCHANGED <<rows, printer, enabled, paper, counts>>

TestPrint(t) ==
    /\ enabled /\ LivePrinters # {} /\ job[t] = "none"
    /\ Queue(t, "due")
    /\ UNCHANGED <<order, printer, enabled, paper, counts>>

\* The order's only row starts again, even while a printer holds it.
Reprint(o) ==
    /\ enabled /\ LivePrinters # {} /\ order[o] # "unpaid"
    /\ reprints[o] < MaxReprints
    /\ Queue(o, "due")
    /\ reprints' = [reprints EXCEPT ![o] = @ + 1]
    /\ spare' = [spare EXCEPT ![o] = @ + 1]
    /\ UNCHANGED <<order, printer, enabled, paper, mishaps>>

-----------------------------------------------------------------------------
(* Time.                                                                   *)

BecomesDue(j) ==
    /\ job[j] # "none" /\ when[j] = "ahead"
    /\ when' = [when EXCEPT ![j] = "due"]
    /\ UNCHANGED <<order, job, lease, fresh, attempts, by, printer, enabled, paper,
                   counts>>

WindowCloses(j) ==
    /\ job[j] # "none" /\ when[j] = "due"
    /\ when' = [when EXCEPT ![j] = "old"]
    /\ UNCHANGED <<order, job, lease, fresh, attempts, by, printer, enabled, paper,
                   counts>>

Working(j) == \E p \in LivePrinters : device[p].job = j /\ lease[j] = p

LeaseRunsOut(j) ==
    /\ j \in fresh
    /\ IF Working(j) THEN mishaps < MaxMishaps /\ mishaps' = mishaps + 1
                     ELSE mishaps' = mishaps
    /\ fresh' = fresh \ {j}
    /\ spare' = [spare EXCEPT ![j] = @ + 1]
    /\ UNCHANGED <<order, job, lease, when, attempts, by, printer, enabled, paper,
                   reprints>>

-----------------------------------------------------------------------------
(* The printer's three requests.                                           *)

\* claim_print_job looks for the printer's own live lease first.
Held(p) == {j \in fresh : lease[j] = p /\ job[j] = "printing"}

\* A printer's poll takes whatever is being printed.
ClaimableThoughLeased ==
    {j \in Jobs : /\ job[j] \in {"pending", "printing"}
                  /\ when[j] = "due"
                  /\ j \in Orders => order[j] # "over"}

\* Only tickets nobody has started on are offered.
ClaimablePending ==
    {j \in Jobs : /\ job[j] = "pending"
                  /\ when[j] = "due"
                  /\ j \in Orders => order[j] # "over"}

Claimable ==
    {j \in Jobs : /\ job[j] = "pending" \/ (job[j] = "printing" /\ j \notin fresh)
                  /\ when[j] = "due"
                  /\ j \in Orders => order[j] # "over"}

Announce(p, j) == device' = [device EXCEPT ![p] = [stage |-> "told", job |-> j]]

CanPoll(p) == printer[p] = "live" /\ enabled /\ device[p] = Idle

\* A printer whose report is late or lost is told of the same job again.
PollAgain(p) ==
    /\ CanPoll(p)
    /\ \E j \in Held(p) :
        /\ Announce(p, j)
        /\ spare' = [spare EXCEPT ![j] = @ + 1]
    /\ UNCHANGED <<order, rows, printer, enabled, late, onPaper, reprints, mishaps>>

Poll(p) ==
    /\ CanPoll(p) /\ Held(p) = {}
    /\ \E j \in Claimable :
        /\ Announce(p, j)
        /\ job' = [job EXCEPT ![j] = "printing"]
        /\ lease' = [lease EXCEPT ![j] = p]
        /\ fresh' = fresh \cup {j}
    /\ UNCHANGED <<order, when, attempts, by, printer, enabled, late, onPaper,
                   counts>>

\* leasedJob: the job the token names if this printer holds it, however old
\* the lease; without a token, the printer's live lease.
Leased(p, j) ==
    IF p \in Tokenless THEN Held(p)
    ELSE {k \in {j} : lease[k] = p /\ job[k] = "printing"}

Serving(p, j) == IF printer[p] = "live" THEN Leased(p, j) ELSE {}

\* A printer that is not given the ticket goes back to polling.  The branch of
\* an order that vanished from the vendor's view is never taken: a job's order
\* is paid and stays the vendor's.
FetchRefused(p) ==
    /\ device[p].stage = "told" /\ Serving(p, device[p].job) = {}
    /\ device' = [device EXCEPT ![p] = Idle]
    /\ UNCHANGED <<order, rows, printer, enabled, late, onPaper, counts>>

\* The ticket comes out, or the printer jams.
FetchAndPrint(p) ==
    /\ device[p].stage = "told"
    /\ \E j \in Serving(p, device[p].job) :
        \/ /\ device' = [device EXCEPT ![p] = [stage |-> "done", job |-> j]]
           /\ onPaper' = onPaper \cup {j}
           /\ spare' = [spare EXCEPT ![j] = @ - 1]
           /\ mishaps' = mishaps
        \/ /\ mishaps < MaxMishaps
           /\ device' = [device EXCEPT ![p] = [stage |-> "jammed", job |-> j]]
           /\ mishaps' = mishaps + 1
           /\ UNCHANGED <<onPaper, spare>>
    /\ UNCHANGED <<order, rows, printer, enabled, late, reprints>>

\* complete_print_job takes any report for a success.
CompleteBlindly(j, ok) ==
    /\ job' = [job EXCEPT ![j] = "printed"]
    /\ UNCHANGED <<attempts, spare>>

CompleteJob(j, ok) ==
    /\ job' = [job EXCEPT ![j] = IF ok THEN "printed"
                                 ELSE IF attempts[j] + 1 >= MaxAttempts THEN "failed"
                                 ELSE "pending"]
    /\ IF ok THEN UNCHANGED <<attempts, spare>>
       ELSE /\ attempts' = [attempts EXCEPT ![j] = @ + 1]
            /\ spare' = [spare EXCEPT ![j] = @ + 1]

Acknowledge(p, j, ok) ==
    \/ Serving(p, j) = {} /\ UNCHANGED <<rows, spare>>
    \/ \E k \in Serving(p, j) :
         /\ CompleteJob(k, ok)
         /\ lease' = [lease EXCEPT ![k] = None]
         /\ fresh' = fresh \ {k}
         /\ when' = when
         /\ by' = IF ok THEN [by EXCEPT ![k] = p] ELSE by

Reporting == {"done", "jammed"}

ReportArrives(p) ==
    /\ device[p].stage \in Reporting
    /\ Acknowledge(p, device[p].job, device[p].stage = "done")
    /\ device' = [device EXCEPT ![p] = Idle]
    /\ UNCHANGED <<order, printer, enabled, late, onPaper, reprints, mishaps>>

\* The request times out at the printer, which polls again.
ReportDelayed(p) ==
    /\ device[p].stage \in Reporting
    /\ mishaps < MaxMishaps
    /\ mishaps' = mishaps + 1
    /\ late' = late \cup {[printer |-> p, job |-> device[p].job,
                           ok |-> device[p].stage = "done"]}
    /\ device' = [device EXCEPT ![p] = Idle]
    /\ UNCHANGED <<order, rows, printer, enabled, onPaper, spare, reprints>>

LateReportArrives(r) ==
    /\ late' = late \ {r}
    /\ Acknowledge(r.printer, r.job, r.ok)
    /\ UNCHANGED <<order, printer, enabled, device, onPaper, reprints, mishaps>>

ReportLost(r) ==
    /\ late' = late \ {r}
    /\ UNCHANGED <<order, rows, printer, enabled, device, onPaper, counts>>

-----------------------------------------------------------------------------
PrinterStep(p) ==
    \/ PollAgain(p) \/ Poll(p)
    \/ FetchRefused(p) \/ FetchAndPrint(p) \/ ReportArrives(p)

Next ==
    \/ \E p \in Printers :
        \/ RegisterPrinter(p)
        \/ PrinterStep(p) \/ ReportDelayed(p)
    \/ \E p \in Removable : RevokePrinter(p)
    \/ SetFlag
    \/ \E o \in Orders : Pay(o) \/ CloseOrder(o) \/ Reprint(o)
    \/ \E t \in Tests : TestPrint(t)
    \/ \E j \in Jobs : BecomesDue(j) \/ LeaseRunsOut(j)
    \/ \E j \in Closing : WindowCloses(j)
    \/ \E r \in late : LateReportArrives(r) \/ ReportLost(r)

Spec == Init /\ [][Next]_vars

\* Printers keep polling and finish what they fetched, and time passes.
Clock == \E j \in Jobs : BecomesDue(j) \/ LeaseRunsOut(j)
LiveSpec ==
    /\ Spec
    /\ \A p \in Printers : WF_vars(PrinterStep(p))
    /\ WF_vars(Clock)

-----------------------------------------------------------------------------
(* Properties.                                                             *)

\* A job marked printed came out on paper, whenever the printer that is said
\* to have printed it names its jobs: a late report marks no other job.
PrintedIsOnPaper ==
    \A j \in Jobs : job[j] = "printed" /\ by[j] \notin Tokenless => j \in onPaper

\* A kitchen does not cook twice without a reason: beyond the first, every
\* ticket that came out had a reprint, a failed attempt, a lease that ran out or
\* a poll repeated before the report arrived.
ExtraCopiesHaveReasons == \A j \in Jobs : spare[j] >= 0

\* So the paper and the table agree, neither too little printed nor too much.
PaperMatchesJobs == PrintedIsOnPaper /\ ExtraCopiesHaveReasons

\* While the feature is on and a printer lives, an order's queued ticket comes
\* out, fails for good or outlives its window: a lease of a printer that was
\* revoked or went silent does not keep it.
Unwanted(o) ==
    when[o] = "old" \/ order[o] = "over" \/ ~enabled \/ LivePrinters = {}
TicketsComeOut ==
    \A o \in Orders :
        job[o] \in {"pending", "printing"} ~>
            (job[o] \in {"printed", "failed"} \/ Unwanted(o))
=============================================================================
