------------------------------ MODULE Accounts ------------------------------
(***************************************************************************)
(* Who a user is.  Roles are granted by rows of the database (vendor_users,*)
(* riders, admin_memberships) and copied into the user's app_metadata at   *)
(* Supabase, which is what a token carries: two stores that no transaction *)
(* spans.  Every copy is setUserAppMetadata, a read of the metadata and a  *)
(* later write of all of it, and several may be in flight for one user.    *)
(*                                                                         *)
(* A handler is one action per call it makes: the rows it writes, then the *)
(* metadata write it leaves in "copying".                                  *)
(***************************************************************************)
EXTENDS Naturals, FiniteSets

CONSTANTS
    Users, Vendors,
    OwnVendors,     \* vendors an onboarding creates; admins made the others
    Invites, InvitedUser, InvitedTo,   \* vendor_invitations: email and vendor
    AdminRoles,     \* bound: the admin roles granted
    SelfService,    \* bound: the roles users sign up as
    Copies,         \* bound: metadata writes in flight at once, numbered
    MaxCopies,      \* bound: metadata writes altogether
    NoRole, NoVendor, Unread

\* Nobody signs up as an administrator, and no role is not a role.
Roles == {"customer", "vendor", "rider", "campus_admin", "super_admin"}

ASSUME AccountsAssumption ==
    /\ SelfService \subseteq {"customer", "vendor", "rider"}
    /\ AdminRoles \subseteq Roles
    /\ InvitedUser \in [Invites -> Users]
    /\ InvitedTo \in [Invites -> Vendors]
    /\ OwnVendors \subseteq Vendors
    /\ NoRole \notin Roles

VARIABLES
    account,    \* auth.users: "none", "live", "banned" or "deleted"
    claimed,    \* user_metadata.meal_direct_role
    app,        \* app_metadata: meal_direct_role, vendor_id, rider_id
    session,    \* the role in the user's last token
    profile,    \* users with a profiles row
    history,    \* users with orders or other append-only rows
    linked,     \* active vendor_users rows
    riding,     \* users with a riders row
    admins,     \* active admin_memberships, as <<user, role>>
    invitation, \* "none", "open", "accepted", "expired"
    accepting,  \* where an acceptance stands: "no", "found", "signed_up"
    onboarding, \* <<user, vendor>>: an onboarding past its check
    removing,   \* users whose rows are purged or scrubbed, login still there
    copying,    \* setUserAppMetadata calls in flight
    copies,     \* how many there were
    granted     \* history: every <<user, role or vendor>> a row ever granted

rows == <<profile, history, linked, riding, admins, granted>>
login == <<account, claimed, session>>
flows == <<invitation, accepting, onboarding, removing>>
calls == <<copying, copies>>
vars == <<login, app, rows, flows, calls>>

Portals == {"customer", "vendor", "rider", "admin"}
AllowedRoles(portal) ==
    IF portal = "admin" THEN {"campus_admin", "super_admin"} ELSE {portal}

Metadata == [role: Roles \cup {NoRole}, vendor: Vendors \cup {NoVendor},
             rider: BOOLEAN]
Blank == [role |-> NoRole, vendor |-> NoVendor, rider |-> FALSE]
Idle == [user |-> NoRole, set |-> Blank, seen |-> Unread]

Init ==
    /\ account = [u \in Users |-> "none"]
    /\ claimed = [u \in Users |-> NoRole]
    /\ app = [u \in Users |-> Blank]
    /\ session = [u \in Users |-> NoRole]
    /\ profile = {} /\ history = {} /\ linked = {} /\ riding = {}
    /\ admins = {} /\ granted = {}
    /\ invitation = [i \in Invites |-> "none"]
    /\ accepting = [i \in Invites |-> "no"]
    /\ onboarding = {} /\ removing = {}
    /\ copying = [c \in Copies |-> Idle]
    /\ copies = 0

-----------------------------------------------------------------------------
(* setUserAppMetadata: read all keys, lay the new ones over them, write all.*)

AsRole(r) == [role |-> r]
AsVendor(v) == [role |-> "vendor", vendor |-> v]
AsRider == [role |-> "rider", rider |-> TRUE]

Merged(seen, set) ==
    [k \in DOMAIN seen |-> IF k \in DOMAIN set THEN set[k] ELSE seen[k]]

\* A handler reaches its call: the write of "set" is in flight.
Copy(u, set) ==
    /\ copies < MaxCopies /\ copies' = copies + 1
    /\ \E c \in Copies :
          /\ copying[c] = Idle
          /\ \A d \in Copies : d < c => copying[d] # Idle
          /\ copying' = [copying EXCEPT ![c] =
                             [user |-> u, set |-> set, seen |-> Unread]]

ReadMetadata(c) ==
    /\ copying[c] # Idle /\ copying[c].seen = Unread
    /\ account[copying[c].user] # "deleted"
    /\ copying' = [copying EXCEPT ![c].seen = app[copying[c].user]]
    /\ UNCHANGED <<login, app, rows, flows, copies>>

WriteMetadata(c) ==
    LET call == copying[c] IN
    /\ call # Idle /\ call.seen # Unread
    /\ account[call.user] # "deleted"
    /\ app' = [app EXCEPT ![call.user] = Merged(call.seen, call.set)]
    /\ copying' = [copying EXCEPT ![c] = Idle]
    /\ UNCHANGED <<login, rows, flows, copies>>

\* Supabase is down, or the process stops: what was written before stays.
CopyFails(c) ==
    /\ copying[c] # Idle
    /\ copying' = [copying EXCEPT ![c] = Idle]
    /\ UNCHANGED <<login, app, rows, flows, copies>>

-----------------------------------------------------------------------------
(* Signing up, invitations and onboarding.                                 *)

\* auth.signUp, and the trigger that gives every auth user a profile.
NewLogin(u, role) ==
    /\ account[u] = "none"
    /\ account' = [account EXCEPT ![u] = "live"]
    /\ claimed' = [claimed EXCEPT ![u] = role]
    /\ profile' = profile \cup {u}

SignUp(u) ==
    \E role \in SelfService :
        /\ NewLogin(u, role)
        /\ Copy(u, AsRole(role))
        /\ UNCHANGED <<app, session, history, linked, riding, admins, granted,
                       flows>>

Invite(i) ==
    /\ invitation[i] = "none"
    /\ invitation' = [invitation EXCEPT ![i] = "open"]
    /\ UNCHANGED <<login, app, rows, accepting, onboarding, removing, calls>>

InviteExpires(i) ==
    /\ invitation[i] = "open"
    /\ invitation' = [invitation EXCEPT ![i] = "expired"]
    /\ UNCHANGED <<login, app, rows, accepting, onboarding, removing, calls>>

FindInvite(i) ==
    /\ invitation[i] = "open" /\ accepting[i] = "no"
    /\ accepting' = [accepting EXCEPT ![i] = "found"]
    /\ UNCHANGED <<login, app, rows, invitation, onboarding, removing, calls>>

\* An address that is registered already cannot accept: signUp refuses it.
SignUpInvited(i) ==
    /\ accepting[i] = "found"
    /\ NewLogin(InvitedUser[i], "vendor")
    /\ accepting' = [accepting EXCEPT ![i] = "signed_up"]
    /\ UNCHANGED <<app, session, history, linked, riding, admins, granted,
                   invitation, onboarding, removing, calls>>

AcceptRefused(i) ==
    /\ \/ accepting[i] = "found" /\ account[InvitedUser[i]] # "none"
       \/ accepting[i] = "signed_up" /\ invitation[i] # "open"
    /\ accepting' = [accepting EXCEPT ![i] = "no"]
    /\ UNCHANGED <<login, app, rows, invitation, onboarding, removing, calls>>

\* Mutant: the result of the acceptance is not looked at.
AcceptUnseen(i) ==
    LET u == InvitedUser[i]
        v == InvitedTo[i] IN
    /\ accepting[i] = "signed_up"
    /\ accepting' = [accepting EXCEPT ![i] = "no"]
    /\ Copy(u, AsVendor(v))
    /\ IF invitation[i] = "open"
       THEN /\ invitation' = [invitation EXCEPT ![i] = "accepted"]
            /\ linked' = linked \cup {<<u, v>>}
            /\ granted' = granted \cup {<<u, v>>}
       ELSE UNCHANGED <<invitation, linked, granted>>
    /\ UNCHANGED <<login, app, profile, history, riding, admins, onboarding,
                   removing>>

\* The accept statement finds the invitation open still, links the user and
\* closes it; then the metadata.
Accept(i) ==
    LET u == InvitedUser[i]
        v == InvitedTo[i] IN
    /\ accepting[i] = "signed_up" /\ invitation[i] = "open"
    /\ accepting' = [accepting EXCEPT ![i] = "no"]
    /\ invitation' = [invitation EXCEPT ![i] = "accepted"]
    /\ profile' = profile \cup {u}
    /\ linked' = linked \cup {<<u, v>>}
    /\ granted' = granted \cup {<<u, v>>}
    /\ Copy(u, AsVendor(v))
    /\ UNCHANGED <<login, app, history, riding, admins, onboarding, removing>>

LinksOf(u) == {v \in Vendors : <<u, v>> \in linked}

\* onboardVendor: the check, and in a later transaction the vendor and link.
BeginOnboarding(u) ==
    /\ account[u] = "live" /\ session[u] = "vendor"
    /\ LinksOf(u) = {}
    /\ \E v \in OwnVendors :
          /\ \A w \in Users : <<w, v>> \notin onboarding \cup granted
          /\ onboarding' = onboarding \cup {<<u, v>>}
    /\ UNCHANGED <<login, app, rows, invitation, accepting, removing, calls>>

OnboardVendor(u, v) ==
    /\ <<u, v>> \in onboarding
    /\ onboarding' = onboarding \ {<<u, v>>}
    /\ profile' = profile \cup {u}
    /\ linked' = linked \cup {<<u, v>>}
    /\ granted' = granted \cup {<<u, v>>}
    /\ Copy(u, AsVendor(v))
    /\ UNCHANGED <<login, app, history, riding, admins, invitation, accepting,
                   removing>>

\* A second row of the campus hits the unique key: the check is the insert.
OnboardRider(u) ==
    /\ account[u] = "live" /\ session[u] = "rider"
    /\ u \notin riding /\ u \in profile
    /\ riding' = riding \cup {u}
    /\ granted' = granted \cup {<<u, "rider">>}
    /\ Copy(u, AsRider)
    /\ UNCHANGED <<login, app, profile, history, linked, admins, flows>>

-----------------------------------------------------------------------------
(* Administration.                                                         *)

AddVendorUser(u) ==
    \E v \in Vendors \ OwnVendors :
        /\ u \in profile
        /\ linked' = linked \cup {<<u, v>>}
        /\ granted' = granted \cup {<<u, v>>}
        /\ Copy(u, AsVendor(v))
        /\ UNCHANGED <<login, app, profile, history, riding, admins, flows>>

\* inviteAdminByEmail and ensureProfile, for an address without an account.
InviteAdmin(u) ==
    /\ NewLogin(u, NoRole)
    /\ UNCHANGED <<app, session, history, linked, riding, admins, granted,
                   flows, calls>>

GrantAdmin(u) ==
    \E role \in AdminRoles :
        /\ u \in profile /\ <<u, role>> \notin admins
        /\ admins' = admins \cup {<<u, role>>}
        /\ granted' = granted \cup {<<u, role>>}
        /\ Copy(u, AsRole(role))
        /\ UNCHANGED <<login, app, profile, history, linked, riding, flows>>

\* setAdminMembershipActive(false) tells the database only.
RevokeAdmin(u) ==
    \E role \in AdminRoles :
        /\ <<u, role>> \in admins
        /\ admins' = admins \ {<<u, role>>}
        /\ UNCHANGED <<login, app, profile, history, linked, riding, granted,
                       flows, calls>>

\* setAdminMembershipActive(true), unless the role was granted anew meanwhile.
RestoreAdmin(u) ==
    \E role \in AdminRoles :
        /\ u \in profile /\ <<u, role>> \in granted
        /\ <<u, role>> \notin admins
        /\ admins' = admins \cup {<<u, role>>}
        /\ UNCHANGED <<login, app, profile, history, linked, riding, granted,
                       flows, calls>>

PlaceOrder(u) ==
    /\ account[u] = "live" /\ u \in profile
    /\ history' = history \cup {u}
    /\ UNCHANGED <<login, app, profile, linked, riding, admins, granted, flows,
                   calls>>

OthersRows(u) == {row \in linked : row[1] # u}

\* deleteUser, the transaction: a user without history loses every row (the
\* foreign keys refuse it to one who has got some since the snapshot), one
\* with history keeps a scrubbed profile and inactive roles.
RemoveRows(u) ==
    /\ u \in profile /\ u \notin removing
    /\ linked' = OthersRows(u)
    /\ admins' = {row \in admins : row[1] # u}
    /\ removing' = removing \cup {u}
    /\ \/ /\ u \notin history
          /\ profile' = profile \ {u} /\ riding' = riding \ {u}
       \/ u \in history /\ UNCHANGED <<profile, riding>>
    /\ UNCHANGED <<login, app, history, granted, invitation, accepting,
                   onboarding, calls>>

\* ... then the login: deleted with the rows, or banned.
RemoveLogin(u) ==
    /\ u \in removing
    /\ account' = [account EXCEPT ![u] =
                       IF u \in profile THEN "banned" ELSE "deleted"]
    /\ removing' = removing \ {u}
    /\ UNCHANGED <<claimed, session, app, rows, invitation, accepting,
                   onboarding, calls>>

RemoveLoginFails(u) ==
    /\ u \in removing
    /\ removing' = removing \ {u}
    /\ UNCHANGED <<login, app, rows, invitation, accepting, onboarding, calls>>

-----------------------------------------------------------------------------
(* Signing in.                                                             *)

ResolveUserRole(u) ==
    IF app[u].role # NoRole THEN app[u].role
    ELSE IF claimed[u] # NoRole THEN claimed[u] ELSE "customer"

SelfServiceBase(u) == {claimed[u]} \cap {"rider", "customer"}

\* findAdminGrantForUser: the highest of the user's active memberships.
AdminGrant(u) ==
    IF <<u, "super_admin">> \in admins THEN {"super_admin"}
    ELSE {role \in {"campus_admin"} : <<u, role>> \in admins}

\* resolveGrantForLogin: what a sign-in whose role the portal does not allow
\* may write instead; nothing is a refusal.
LoginGrants(u, portal) ==
    IF SelfServiceBase(u) \cap AllowedRoles(portal) # {}
    THEN {AsRole(claimed[u])}
    ELSE CASE portal = "admin" -> {AsRole(r) : r \in AdminGrant(u)}
           [] portal = "vendor" -> {AsVendor(v) : v \in LinksOf(u)}
           [] portal = "customer" -> {AsRole("customer")}
           [] OTHER -> {}

SignIn(u, portal) ==
    /\ account[u] = "live"
    /\ ResolveUserRole(u) \in AllowedRoles(portal)
    /\ session' = [session EXCEPT ![u] = ResolveUserRole(u)]
    /\ UNCHANGED <<account, claimed, app, rows, flows, calls>>

SignInByGrant(u, portal) ==
    /\ account[u] = "live"
    /\ ResolveUserRole(u) \notin AllowedRoles(portal)
    /\ \E set \in LoginGrants(u, portal) : Copy(u, set)
    /\ UNCHANGED <<login, app, rows, flows>>

\* refresh, by the client or by the sign-in once its grant is written.
Refresh(u) ==
    /\ account[u] = "live"
    /\ session' = [session EXCEPT ![u] = ResolveUserRole(u)]
    /\ UNCHANGED <<account, claimed, app, rows, flows, calls>>

\* A password reset fills in a missing role from the grants.
UpdatePassword(u) ==
    /\ account[u] = "live" /\ app[u].role = NoRole
    /\ \E set \in
          IF AdminGrant(u) # {} THEN {AsRole(r) : r \in AdminGrant(u)}
          ELSE IF LinksOf(u) # {} THEN {AsVendor(v) : v \in LinksOf(u)}
          ELSE IF SelfServiceBase(u) # {} THEN {AsRole(claimed[u])}
          ELSE {AsRole("customer")} : Copy(u, set)
    /\ UNCHANGED <<login, app, rows, flows>>

Next ==
    \/ \E c \in Copies : ReadMetadata(c) \/ WriteMetadata(c) \/ CopyFails(c)
    \/ \E i \in Invites :
          \/ Invite(i) \/ InviteExpires(i) \/ FindInvite(i)
          \/ SignUpInvited(i) \/ AcceptRefused(i) \/ Accept(i)
    \/ \E u \in Users :
          \/ SignUp(u) \/ BeginOnboarding(u) \/ OnboardRider(u)
          \/ AddVendorUser(u) \/ InviteAdmin(u) \/ GrantAdmin(u)
          \/ RevokeAdmin(u) \/ RestoreAdmin(u) \/ PlaceOrder(u) \/ RemoveRows(u)
          \/ RemoveLogin(u) \/ RemoveLoginFails(u) \/ Refresh(u)
          \/ UpdatePassword(u)
    \/ \E u \in Users, v \in OwnVendors : OnboardVendor(u, v)
    \/ \E u \in Users, p \in Portals : SignIn(u, p) \/ SignInByGrant(u, p)

Spec == Init /\ [][Next]_vars

-----------------------------------------------------------------------------
\* What the metadata says was granted by a row at some time: a vendor_id is a
\* vendor the user was linked to, an admin role one the user held, a rider_id
\* a riders row, whatever writes overlapped, failed or came back late.
KeysWereGranted ==
    \A u \in Users :
        /\ app[u].vendor # NoVendor => <<u, app[u].vendor>> \in granted
        /\ app[u].rider => <<u, "rider">> \in granted
        /\ app[u].role \in {"campus_admin", "super_admin"} =>
               <<u, app[u].role>> \in granted
=============================================================================
