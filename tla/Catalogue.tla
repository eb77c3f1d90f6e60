----------------------------- MODULE Catalogue -----------------------------
(***************************************************************************)
(* A vendor's menu as its staff edit it: the picture of an item, whose key *)
(* is in the database and whose object is in a bucket, and the schedules   *)
(* of store and items, from which the stock rows customers order against   *)
(* are generated.  Several of the staff may be at it at once.  Stock is of *)
(* one service date of the seven-day horizon.                              *)
(***************************************************************************)
EXTENDS Naturals, FiniteSets

CONSTANTS
    Images,    \* keys that an upload was signed for
    Again,     \* bound: those whose confirmation may be sent a second time
    Confirms,  \* bound: confirmations in progress at once
    Items, Slots,
    Store,     \* the owner of vendor_slot_availability
    Edits,     \* bound: schedule replacements; each writes rows of its own
    None

VARIABLES
    stored,     \* objects in the bucket
    shown,      \* image_url of the item, or logo_url of the vendor
    confirming, \* confirmMenuItemImage, confirmLogo
    confirmed,  \* history: keys confirmed before
    schedule,   \* of the store and each item: slot -> the edit it is from
    edit,       \* replaceVendorAvailability, replaceMenuItemSchedules
    active,     \* items on the menu
    stock,      \* rows of menu_item_inventory, as <<item, slot>>
    overdue     \* history: rows nobody will make before the night

images == <<stored, shown, confirming, confirmed>>
hours == <<schedule, edit, active, stock, overdue>>
vars == <<images, hours>>

Nothing == [stage |-> "idle", key |-> None, previous |-> None]
Unsent == [stage |-> "unsent", owner |-> None, slots |-> {},
           seen |-> [s \in Slots |-> None]]
Owners == Items \cup {Store}

Init ==
    /\ stored = {} /\ shown = None /\ confirmed = {}
    /\ confirming = [c \in Confirms |-> Nothing]
    /\ schedule = [o \in Owners |-> [s \in Slots |-> None]]
    /\ edit = [e \in Edits |-> Unsent]
    /\ active = {} /\ stock = {} /\ overdue = {}

-----------------------------------------------------------------------------
(* Pictures.                                                               *)

Upload(k) ==
    /\ k \notin stored \cup confirmed
    /\ stored' = stored \cup {k}
    /\ UNCHANGED <<shown, confirming, confirmed, hours>>

\* confirmUpload: the object is there.
ConfirmUpload(c, k) ==
    /\ confirming[c].stage = "idle"
    /\ k \in stored /\ (k \notin confirmed \/ k \in Again)
    /\ confirming' = [confirming EXCEPT ![c] =
                          [stage |-> "there", key |-> k, previous |-> None]]
    /\ confirmed' = confirmed \cup {k}
    /\ UNCHANGED <<stored, shown, hours>>

\* Mutant: the old object goes before the new one is shown.
RemoveFound(c) ==
    /\ confirming[c].stage = "there"
    /\ confirming' = [confirming EXCEPT ![c].stage = "read",
                                        ![c].previous = shown]
    /\ stored' = stored \ ({shown} \ {confirming[c].key})
    /\ UNCHANGED <<shown, confirmed, hours>>

FindPrevious(c) ==
    /\ confirming[c].stage = "there"
    /\ confirming' = [confirming EXCEPT ![c].stage = "read",
                                        ![c].previous = shown]
    /\ UNCHANGED <<stored, shown, confirmed, hours>>

ShowImage(c) ==
    /\ confirming[c].stage = "read"
    /\ shown' = confirming[c].key
    /\ confirming' = [confirming EXCEPT ![c].stage = "shown"]
    /\ UNCHANGED <<stored, confirmed, hours>>

\* removeIfKey is best effort; the request may also end before it.
RemovePrevious(c) ==
    LET call == confirming[c] IN
    /\ call.stage = "shown"
    /\ confirming' = [confirming EXCEPT ![c] = Nothing]
    /\ stored' \in {stored, stored \ ({call.previous} \ {call.key})}
    /\ UNCHANGED <<shown, confirmed, hours>>

-----------------------------------------------------------------------------
(* Schedules and the stock rows they call for.                             *)

\* The rows generate_menu_item_inventory makes, if they are missing.
Wanted == {row \in active \X Slots : /\ schedule[row[1]][row[2]] # None
                                     /\ schedule[Store][row[2]] # None}

\* The transaction's DELETE takes the rows it can see.
BeginReplace(e) ==
    /\ edit[e].stage = "unsent"
    /\ \E owner \in Owners, slots \in SUBSET Slots :
          edit' = [edit EXCEPT ![e] = [stage |-> "deleted", owner |-> owner,
                                       slots |-> slots,
                                       seen |-> schedule[owner]]]
    /\ UNCHANGED <<images, schedule, active, stock, overdue>>

\* Rows another replacement committed meanwhile are not deleted: they stay
\* beside the new ones, and for one slot the unique key refuses the second.
Left(e) == {s \in Slots : schedule[edit[e].owner][s] \notin
                              {None, edit[e].seen[s]}}

\* Mutant: the item's schedule is replaced and no stock is generated.
CommitOnly(e) ==
    /\ edit[e].stage = "deleted" /\ Left(e) \cap edit[e].slots = {}
    /\ schedule' = [schedule EXCEPT ![edit[e].owner] =
           [s \in Slots |-> IF s \in edit[e].slots THEN e
                            ELSE IF s \in Left(e) THEN @[s] ELSE None]]
    /\ edit' = [edit EXCEPT ![e].stage =
                    IF edit[e].owner = Store THEN "committed" ELSE "over"]
    /\ UNCHANGED <<images, active, stock, overdue>>

CommitReplace(e) ==
    /\ edit[e].stage = "deleted" /\ Left(e) \cap edit[e].slots = {}
    /\ schedule' = [schedule EXCEPT ![edit[e].owner] =
           [s \in Slots |-> IF s \in edit[e].slots THEN e
                            ELSE IF s \in Left(e) THEN @[s] ELSE None]]
    /\ edit' = [edit EXCEPT ![e].stage = "committed"]
    /\ UNCHANGED <<images, active, stock, overdue>>

ReplaceRefused(e) ==
    /\ edit[e].stage = "deleted" /\ Left(e) \cap edit[e].slots # {}
    /\ edit' = [edit EXCEPT ![e].stage = "over"]
    /\ UNCHANGED <<images, schedule, active, stock, overdue>>

\* regenerateInventoryHorizon, for every item of the vendor.
RegenerateHorizon(e) ==
    /\ edit[e].stage = "committed"
    /\ edit' = [edit EXCEPT ![e].stage = "over"]
    /\ stock' = stock \cup Wanted
    /\ overdue' = {}
    /\ UNCHANGED <<images, schedule, active>>

\* The process stops, or the statement fails, after the commit.
ReplaceDies(e) ==
    /\ edit[e].stage = "committed"
    /\ edit' = [edit EXCEPT ![e].stage = "over"]
    /\ overdue' = overdue \cup (Wanted \ stock)
    /\ UNCHANGED <<images, schedule, active, stock>>

\* setMenuItemActive generates nothing; nor does the creation of an item.
SetMenuItemActive(i) ==
    /\ active' = IF i \in active THEN active \ {i} ELSE active \cup {i}
    /\ UNCHANGED <<images, schedule, edit, stock>>
    /\ overdue' = overdue \cup (Wanted' \ stock)

\* generate_inventory_horizon, every night.
NightlyHorizon ==
    /\ stock' = stock \cup Wanted
    /\ overdue' = {}
    /\ UNCHANGED <<images, schedule, edit, active>>

PictureStep ==
    \/ \E k \in Images : Upload(k)
    \/ \E c \in Confirms, k \in Images : ConfirmUpload(c, k)
    \/ \E c \in Confirms :
          FindPrevious(c) \/ ShowImage(c) \/ RemovePrevious(c)

HoursStep ==
    \/ \E e \in Edits :
          \/ BeginReplace(e) \/ CommitReplace(e) \/ ReplaceRefused(e)
          \/ RegenerateHorizon(e) \/ ReplaceDies(e)
    \/ \E i \in Items : SetMenuItemActive(i)
    \/ NightlyHorizon

Next == PictureStep \/ HoursStep

Spec == Init /\ [][Next]_vars

-----------------------------------------------------------------------------
\* The picture shown has its object, however confirmations of different
\* pictures overlap; one confirmed again after another may be gone.
ShownImageIsStored == shown \in stored \cup Again \cup {None}

\* "So items become stockable today instead of after the nightly cron": a row
\* the schedules call for is missing only while a replacement that committed
\* has yet to generate it, or because one died there, or the item was put on
\* the menu since.
MissingStockHasReasons ==
    \/ \E e \in Edits : edit[e].stage = "committed"
    \/ Wanted \subseteq stock \cup overdue
=============================================================================
