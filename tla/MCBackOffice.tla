---------------------------- MODULE MCBackOffice ----------------------------
(***************************************************************************)
(* The kitchen printers, the accounts, the fleet, the catalogue and the    *)
(* fees share neither state nor steps.  They are checked side by side:     *)
(* "part" says which of them moves, the others stay as they begin.         *)
(***************************************************************************)
EXTENDS Accounts, FeeCases, TLC

CONSTANTS o1, t1, p1, p2, u1, v1, v2, i1, r1, f1, f2, b1,
          k1, k2, k3, c1, c2, m1, m2, s1, s2, e1, e2

CONSTANTS Orders, Tests, Printers, Tokenless, MaxAttempts, MaxReprints,
          MaxMishaps, Removable, Closing, None

CONSTANTS Riders, Partners, Batches, Own, Nobody, MaxMoves

CONSTANTS Images, Again, Confirms, Items, Slots, Store, Edits

CONSTANTS Editors, Choices, ZoneFees, Baskets, Cap, SurchargeBps, SurchargeFlat,
          Credits, NoEdit, NoOrder

VARIABLE part

VARIABLES order, job, lease, fresh, when, attempts, by, printer, enabled,
          device, late, onPaper, spare, reprints, mishaps

VARIABLES partner, marking, employer, available, suspended, moving,
          assignment, picked, desk, ending, shared, fix, excused

VARIABLES stored, shown, confirming, confirmed, schedule, edit, active, stock,
          overdue

VARIABLES setting, zoneFee, editing, stale, contested, bill

K == INSTANCE Printing
F == INSTANCE Fleet
C == INSTANCE Catalogue
P == INSTANCE Fees

ASSUME PrintersAssumption == K!PrintingAssumption
ASSUME PicturesAssumption == None \notin Images
ASSUME PricesAssumption == P!FeesAssumption

InvitesOneUser == i1 :> u1
InvitesToOneVendor == i1 :> v1

\* "enabled" is the one choice among the initial states.
BackOfficeInit ==
    /\ part \in {"printing", "accounts", "fleet", "pictures", "hours", "fees"}
    /\ K!Init /\ Init /\ F!Init /\ C!Init /\ P!Init
    /\ part # "printing" => enabled

printing == <<order, job, lease, fresh, when, attempts, by, printer, enabled,
              device, late, onPaper, spare, reprints, mishaps>>
fleet == <<partner, marking, employer, available, suspended, moving,
           assignment, picked, desk, ending, shared, fix, excused>>
pictures == <<stored, shown, confirming, confirmed>>
hours == <<schedule, edit, active, stock, overdue>>
prices == <<setting, zoneFee, editing, stale, contested, bill>>

PrintingMoves == /\ part = "printing" /\ K!Next
                 /\ UNCHANGED <<part, vars, fleet, pictures, hours, prices>>

AccountsMove == /\ part = "accounts" /\ Next
                /\ UNCHANGED <<part, printing, fleet, pictures, hours, prices>>

FleetMoves == /\ part = "fleet" /\ F!Next
              /\ UNCHANGED <<part, printing, vars, pictures, hours, prices>>

PicturesMove == /\ part = "pictures" /\ C!PictureStep
                /\ UNCHANGED <<part, printing, vars, fleet, prices>>

HoursMove == /\ part = "hours" /\ C!HoursStep
             /\ UNCHANGED <<part, printing, vars, fleet, prices>>

FeesMove == /\ part = "fees" /\ P!Next
            /\ UNCHANGED <<part, printing, vars, fleet, pictures, hours>>

BackOfficeNext ==
    PrintingMoves \/ AccountsMove \/ FleetMoves \/ PicturesMove \/ HoursMove
    \/ FeesMove

all == <<part, printing, vars, fleet, pictures, hours, prices>>
BackOfficeSpec ==
    /\ BackOfficeInit
    /\ [][BackOfficeNext]_all
    /\ \A p \in Printers : WF_printing(K!PrinterStep(p))
    /\ WF_printing(K!Clock)

-----------------------------------------------------------------------------
\* What is marked printed came out of a printer (complete_print_job), and a
\* second copy has a reason (claim_print_job, the late reports).
PaperMatchesJobs == K!PaperMatchesJobs

\* Wanted tickets come out while a printer lives (the poll, the lease).
TicketsComeOut == K!TicketsComeOut

\* No rider passes from partner to partner directly (setRiderFleet).
NoPoaching == F!NoPoaching

\* A manager's assignment rests on what is still true (fleet_assign_batch).
DecidedOnFacts == F!DecidedOnFacts

\* Off-duty positions are deleted, but for three races (the two triggers).
OffDutyPositionsHaveReasons == F!OffDutyPositionsHaveReasons

\* The picture shown is stored (confirmMenuItemImage, confirmLogo).
ShownImageIsStored == C!ShownImageIsStored

\* Open slots have stock rows (regenerateInventoryHorizon).
MissingStockHasReasons == C!MissingStockHasReasons

\* Negative residuals have only the causes named (assertFeeConfigValid).
ResidualsHaveReasons == P!ResidualsHaveReasons

\* Charges differ from quotes, and top-ups from their cost, only for the causes
\* named (buildQuote, create_pending_order_and_reserve_inventory, the gross-up).
PricesHaveReasons == P!PricesHaveReasons
=============================================================================
