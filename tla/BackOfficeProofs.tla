-------------------------- MODULE BackOfficeProofs --------------------------
(***************************************************************************)
(* Theorems about the components that MCBackOffice checks side by side,    *)
(* for all values of its constants: the accounts (Accounts itself), the    *)
(* kitchen printers (K), the fleet (F), the catalogue (C) and the fees     *)
(* (P).  Each is proved of the component's own specification.              *)
(***************************************************************************)
EXTENDS MCBackOffice, TLAPS

-----------------------------------------------------------------------------
(* Accounts.                                                               *)
(*                                                                         *)
(* A metadata write lays what its handler was entitled to over what it     *)
(* read, perhaps long ago.  Both were granted when they were taken, and a  *)
(* grant once given stays in the history: so every mixture of them, in     *)
(* whatever order the writes land, is of granted values.                   *)

AdministratorRoles == {"campus_admin", "super_admin"}

\* The metadata m may stand for the user u.
Granted(u, m) ==
    /\ m.vendor # NoVendor => <<u, m.vendor>> \in granted
    /\ m.rider => <<u, "rider">> \in granted
    /\ m.role \in AdministratorRoles => <<u, m.role>> \in granted

\* What a handler may be about to write of the user u.
Entitled(u) ==
    {AsRole(r) : r \in {q \in Roles : q \in AdministratorRoles =>
                                          <<u, q>> \in granted}}
    \cup {AsVendor(v) : v \in {w \in Vendors : <<u, w>> \in granted}}
    \cup {m \in {AsRider} : <<u, "rider">> \in granted}

Shapes ==
    /\ account \in [Users -> {"none", "live", "banned", "deleted"}]
    /\ claimed \in [Users -> SelfService \cup {"vendor", NoRole}]
    /\ app \in [Users -> Metadata]
    /\ linked \subseteq Users \X Vendors
    /\ onboarding \subseteq Users \X OwnVendors

RowsGranted == linked \subseteq granted /\ admins \subseteq granted

AppGranted == \A u \in Users : Granted(u, app[u])

CallGranted(call) ==
    call = Idle
    \/ /\ call.user \in Users
       /\ call.set \in Entitled(call.user)
       /\ call = [user |-> call.user, set |-> call.set, seen |-> call.seen]
       /\ \/ call.seen = Unread
          \/ call.seen \in Metadata /\ Granted(call.user, call.seen)

CallsGranted ==
    /\ copying = [c \in Copies |-> copying[c]]
    /\ \A c \in Copies : CallGranted(copying[c])

GrantInv == Shapes /\ RowsGranted /\ AppGranted /\ CallsGranted

-----------------------------------------------------------------------------
(* The overlay of one set of keys over a whole metadata.                   *)

LEMMA RoleOverlay ==
    ASSUME NEW m \in Metadata, NEW r \in Roles
    PROVE  LET w == Merged(m, AsRole(r)) IN
           /\ w \in Metadata
           /\ w.role = r /\ w.vendor = m.vendor /\ w.rider = m.rider
  <1> DEFINE set == AsRole(r)
             w == Merged(m, set)
  <1>1. DOMAIN m = {"role", "vendor", "rider"}
    BY DEF Metadata
  <1>2. DOMAIN set = {"role"}
    BY DEF AsRole
  <1>3. /\ set.role = r
    BY DEF AsRole
  <1> HIDE DEF set
  <1>4. w = [k \in {"role", "vendor", "rider"} |->
                IF k \in DOMAIN set THEN set[k] ELSE m[k]]
    BY <1>1 DEF Merged
  <1>5. w.role = r /\ w.vendor = m.vendor /\ w.rider = m.rider
    BY <1>2, <1>3, <1>4
  <1>6. w \in Metadata
    BY <1>4, <1>5 DEF Metadata
  <1> QED BY <1>5, <1>6 DEF set

LEMMA VendorOverlay ==
    ASSUME NEW m \in Metadata, NEW v \in Vendors
    PROVE  LET w == Merged(m, AsVendor(v)) IN
           /\ w \in Metadata
           /\ w.role = "vendor" /\ w.vendor = v /\ w.rider = m.rider
  <1> DEFINE set == AsVendor(v)
             w == Merged(m, set)
  <1>1. DOMAIN m = {"role", "vendor", "rider"}
    BY DEF Metadata
  <1>2. DOMAIN set = {"role", "vendor"}
    BY DEF AsVendor
  <1>3. /\ set.role = "vendor" /\ set.vendor = v
    BY DEF AsVendor
  <1> HIDE DEF set
  <1>4. w = [k \in {"role", "vendor", "rider"} |->
                IF k \in DOMAIN set THEN set[k] ELSE m[k]]
    BY <1>1 DEF Merged
  <1>5. w.role = "vendor" /\ w.vendor = v /\ w.rider = m.rider
    BY <1>2, <1>3, <1>4
  <1>6. w \in Metadata
    BY <1>4, <1>5 DEF Metadata, Roles
  <1> QED BY <1>5, <1>6 DEF set

LEMMA RiderOverlay ==
    ASSUME NEW m \in Metadata
    PROVE  LET w == Merged(m, AsRider) IN
           /\ w \in Metadata
           /\ w.role = "rider" /\ w.vendor = m.vendor /\ w.rider = TRUE
  <1> DEFINE set == AsRider
             w == Merged(m, set)
  <1>1. DOMAIN m = {"role", "vendor", "rider"}
    BY DEF Metadata
  <1>2. DOMAIN set = {"role", "rider"}
    BY DEF AsRider
  <1>3. /\ set.role = "rider" /\ set.rider = TRUE
    BY DEF AsRider
  <1> HIDE DEF set
  <1>4. w = [k \in {"role", "vendor", "rider"} |->
                IF k \in DOMAIN set THEN set[k] ELSE m[k]]
    BY <1>1 DEF Merged
  <1>5. w.role = "rider" /\ w.vendor = m.vendor /\ w.rider = TRUE
    BY <1>2, <1>3, <1>4
  <1>6. w \in Metadata
    BY <1>4, <1>5 DEF Metadata, Roles
  <1> QED BY <1>5, <1>6 DEF set

LEMMA OverlayGranted ==
    ASSUME NEW u \in Users, NEW m \in Metadata, Granted(u, m),
           NEW set \in Entitled(u)
    PROVE  Merged(m, set) \in Metadata /\ Granted(u, Merged(m, set))
  <1>1. CASE \E r \in Roles :
                /\ set = AsRole(r)
                /\ r \in AdministratorRoles => <<u, r>> \in granted
    BY <1>1, RoleOverlay DEF Granted
  <1>2. CASE \E v \in Vendors : set = AsVendor(v) /\ <<u, v>> \in granted
    BY <1>2, VendorOverlay DEF Granted, AdministratorRoles
  <1>3. CASE set = AsRider /\ <<u, "rider">> \in granted
    BY <1>3, RiderOverlay DEF Granted, AdministratorRoles
  <1> QED BY <1>1, <1>2, <1>3 DEF Entitled

-----------------------------------------------------------------------------
(* Grants are for ever.                                                    *)

LEMMA GrantsStay ==
    ASSUME granted \subseteq granted'
    PROVE  /\ \A u \in Users : Entitled(u) \subseteq Entitled(u)'
           /\ \A u, m : Granted(u, m) => Granted(u, m)'
           /\ \A call : CallGranted(call) => CallGranted(call)'
  <1>1. \A u \in Users : Entitled(u) \subseteq Entitled(u)'
    BY DEF Entitled
  <1>2. \A u, m : Granted(u, m) => Granted(u, m)'
    BY DEF Granted
  <1> QED BY <1>1, <1>2 DEF CallGranted

\* What stands stays granted.
LEMMA AppStays ==
    ASSUME AppGranted, granted \subseteq granted', UNCHANGED app
    PROVE  AppGranted'
  BY GrantsStay DEF AppGranted, Granted

\* A handler that reaches its write with what it is entitled to by then.
LEMMA CopyEntitled ==
    ASSUME CallsGranted, granted \subseteq granted',
           NEW u \in Users, NEW set, Copy(u, set), set \in Entitled(u)'
    PROVE  CallsGranted'
  <1> DEFINE call == [user |-> u, set |-> set, seen |-> Unread]
  <1>1. PICK c \in Copies : copying' = [copying EXCEPT ![c] = call]
    BY DEF Copy
  <1>2. CallGranted(call)'
    BY DEF CallGranted
  <1>3. \A d \in Copies : copying'[d] = call \/ copying'[d] = copying[d]
    BY <1>1
  <1>4. copying' = [d \in Copies |-> copying'[d]]
    BY <1>1 DEF CallsGranted
  <1>5. \A d \in Copies : CallGranted(copying[d])'
    <2> SUFFICES ASSUME NEW d \in Copies PROVE CallGranted(copying[d])'
      OBVIOUS
    <2>1. CASE copying'[d] = call
      BY <1>2, <2>1 DEF CallGranted
    <2>2. CASE copying'[d] = copying[d]
      <3>1. PICK old : old = copying[d] /\ CallGranted(old)
        BY DEF CallsGranted
      <3>2. CallGranted(old)'
        BY <3>1, GrantsStay
      <3> QED BY <2>2, <3>1, <3>2 DEF CallGranted
    <2> QED BY <1>3, <2>1, <2>2
  <1> QED BY <1>4, <1>5 DEF CallsGranted

LEMMA CallsStay ==
    ASSUME CallsGranted, granted \subseteq granted', UNCHANGED copying
    PROVE  CallsGranted'
  <1>1. \A c \in Copies : CallGranted(copying[c])'
    <2> SUFFICES ASSUME NEW c \in Copies PROVE CallGranted(copying[c])'
      OBVIOUS
    <2>1. PICK now : now = copying'[c] /\ CallGranted(now)
      BY DEF CallsGranted
    <2>2. CallGranted(now)'
      BY <2>1, GrantsStay
    <2> QED BY <2>1, <2>2 DEF CallGranted
  <1>2. copying' = [c \in Copies |-> copying'[c]]
    BY DEF CallsGranted
  <1> QED BY <1>1, <1>2 DEF CallsGranted

-----------------------------------------------------------------------------
(* The three steps of a metadata write.                                    *)

\* A call changes to one that is granted, or ends.
LEMMA CallChanges ==
    ASSUME CallsGranted, UNCHANGED granted, NEW c \in Copies, NEW call,
           CallGranted(call), copying' = [copying EXCEPT ![c] = call]
    PROVE  CallsGranted'
  <1>1. \A d \in Copies : CallGranted(copying[d])'
    <2> SUFFICES ASSUME NEW d \in Copies PROVE CallGranted(copying[d])'
      OBVIOUS
    <2>1. PICK now : now = copying'[d] /\ CallGranted(now)
      BY DEF CallsGranted
    <2>2. CallGranted(now)'
      BY <2>1, GrantsStay
    <2> QED BY <2>1, <2>2 DEF CallGranted
  <1>2. copying' = [d \in Copies |-> copying'[d]]
    BY DEF CallsGranted
  <1> QED BY <1>1, <1>2 DEF CallsGranted

LEMMA ReadKeeps ==
    ASSUME GrantInv, NEW c \in Copies, ReadMetadata(c)
    PROVE  GrantInv'
  <1> DEFINE call == copying[c]
             read == [call EXCEPT !.seen = app[call.user]]
  <1>1. CallGranted(call) /\ call # Idle
    BY DEF GrantInv, CallsGranted, ReadMetadata
  <1>2. call.user \in Users /\ call.set \in Entitled(call.user)
    BY <1>1 DEF CallGranted
  <1>3. read = [user |-> call.user, set |-> call.set, seen |-> app[call.user]]
    BY <1>1 DEF CallGranted
  <1>4. app[call.user] \in Metadata /\ Granted(call.user, app[call.user])
    BY <1>2 DEF GrantInv, Shapes, AppGranted
  <1>5. CallGranted(read)
    BY <1>2, <1>3, <1>4 DEF CallGranted
  <1>6. copying' = [copying EXCEPT ![c] = read]
    BY DEF ReadMetadata
  <1>7. UNCHANGED <<login, app, rows, flows>>
    BY DEF ReadMetadata
  <1> HIDE DEF read
  <1>8. CallsGranted'
    BY <1>5, <1>6, <1>7, CallChanges DEF GrantInv, rows
  <1> QED
    BY <1>7, <1>8, AppStays
       DEF GrantInv, Shapes, RowsGranted, login, rows, flows

LEMMA WriteKeeps ==
    ASSUME GrantInv, NEW c \in Copies, WriteMetadata(c)
    PROVE  GrantInv'
  <1> DEFINE call == copying[c]
             written == Merged(call.seen, call.set)
  <1>1. CallGranted(call) /\ call # Idle /\ call.seen # Unread
    BY DEF GrantInv, CallsGranted, WriteMetadata
  <1>2. /\ call.user \in Users /\ call.set \in Entitled(call.user)
        /\ call.seen \in Metadata /\ Granted(call.user, call.seen)
    BY <1>1 DEF CallGranted
  <1>3. written \in Metadata /\ Granted(call.user, written)
    BY <1>2, OverlayGranted
  <1>4. /\ app' = [app EXCEPT ![call.user] = written]
        /\ copying' = [copying EXCEPT ![c] = Idle]
        /\ UNCHANGED <<login, rows, flows>>
    BY DEF WriteMetadata
  <1>5. CallGranted(Idle)
    BY DEF CallGranted
  <1>6. CallsGranted'
    BY <1>4, <1>5, CallChanges DEF GrantInv, rows
  <1> HIDE DEF written
  <1>7. AppGranted'
    BY <1>2, <1>3, <1>4 DEF GrantInv, Shapes, AppGranted, Granted, rows
  <1>8. Shapes'
    BY <1>2, <1>3, <1>4 DEF GrantInv, Shapes, login, rows, flows
  <1> QED BY <1>4, <1>6, <1>7, <1>8 DEF GrantInv, RowsGranted, rows

LEMMA FailKeeps ==
    ASSUME GrantInv, NEW c \in Copies, CopyFails(c)
    PROVE  GrantInv'
  <1>1. /\ copying' = [copying EXCEPT ![c] = Idle]
        /\ UNCHANGED <<login, app, rows, flows>>
    BY DEF CopyFails
  <1>2. CallGranted(Idle)
    BY DEF CallGranted
  <1>3. CallsGranted'
    BY <1>1, <1>2, CallChanges DEF GrantInv, rows
  <1> QED
    BY <1>1, <1>3, AppStays
       DEF GrantInv, Shapes, RowsGranted, login, rows, flows

-----------------------------------------------------------------------------
(* The handlers.                                                           *)

\* A handler that copies nothing and whose rows, if any, are granted.
LEMMA RowsKeep ==
    ASSUME GrantInv, UNCHANGED <<app, copying>>, Shapes', RowsGranted',
           granted \subseteq granted'
    PROVE  GrantInv'
  BY AppStays, CallsStay DEF GrantInv

\* A handler that copies what it is entitled to.
LEMMA CopyKeeps ==
    ASSUME GrantInv, UNCHANGED app, Shapes', RowsGranted',
           granted \subseteq granted',
           NEW u \in Users, NEW set, Copy(u, set), set \in Entitled(u)'
    PROVE  GrantInv'
  BY AppStays, CopyEntitled DEF GrantInv

LEMMA SelfRole ==
    ASSUME NEW u \in Users, NEW r \in {"customer", "vendor", "rider"}
    PROVE  AsRole(r) \in Entitled(u) /\ AsRole(r) \in Entitled(u)'
  BY DEF Entitled, Roles, AdministratorRoles

LEMMA LinkEntitles ==
    ASSUME NEW u \in Users, NEW v \in Vendors, <<u, v>> \in granted
    PROVE  AsVendor(v) \in Entitled(u)
  BY DEF Entitled

LEMMA MembershipEntitles ==
    ASSUME NEW u \in Users, NEW r \in Roles, <<u, r>> \in granted
    PROVE  AsRole(r) \in Entitled(u)
  BY DEF Entitled

LEMMA BasesAreSelfService ==
    ASSUME NEW u \in Users, SelfServiceBase(u) # {}
    PROVE  claimed[u] \in {"customer", "vendor", "rider"}
  BY DEF SelfServiceBase

LEMMA AdminGrantEntitles ==
    ASSUME RowsGranted, NEW u \in Users, NEW r \in AdminGrant(u)
    PROVE  AsRole(r) \in Entitled(u)
  <1>1. r \in Roles /\ <<u, r>> \in admins
    BY DEF AdminGrant, Roles
  <1> QED BY <1>1, MembershipEntitles DEF RowsGranted

LEMMA LinksEntitle ==
    ASSUME RowsGranted, NEW u \in Users, NEW v \in LinksOf(u)
    PROVE  AsVendor(v) \in Entitled(u)
  BY LinkEntitles DEF LinksOf, RowsGranted

-----------------------------------------------------------------------------
LEMMA InvitationsKeep ==
    ASSUME GrantInv, NEW i \in Invites,
           \/ Invite(i) \/ InviteExpires(i) \/ FindInvite(i)
           \/ SignUpInvited(i) \/ AcceptRefused(i) \/ Accept(i)
    PROVE  GrantInv'
  <1> DEFINE u == InvitedUser[i]
             v == InvitedTo[i]
  <1>0. u \in Users /\ v \in Vendors
    BY AccountsAssumption
  <1>1. CASE Invite(i) \/ InviteExpires(i) \/ FindInvite(i) \/ AcceptRefused(i)
    <2>1. UNCHANGED <<login, app, rows, onboarding, calls>>
      BY <1>1 DEF Invite, InviteExpires, FindInvite, AcceptRefused
    <2> QED
      BY <2>1, RowsKeep
         DEF GrantInv, Shapes, RowsGranted, login, rows, calls
  <1>2. CASE SignUpInvited(i)
    <2>1. /\ account' = [account EXCEPT ![u] = "live"]
          /\ claimed' = [claimed EXCEPT ![u] = "vendor"]
          /\ UNCHANGED <<app, linked, admins, granted, onboarding, calls>>
      BY <1>2 DEF SignUpInvited, NewLogin
    <2> QED
      BY <1>0, <2>1, RowsKeep DEF GrantInv, Shapes, RowsGranted, calls
  <1>3. CASE Accept(i)
    <2>1. /\ linked' = linked \cup {<<u, v>>}
          /\ granted' = granted \cup {<<u, v>>}
          /\ Copy(u, AsVendor(v))
          /\ UNCHANGED <<login, app, admins, onboarding>>
      BY <1>3 DEF Accept
    <2>2. AsVendor(v) \in Entitled(u)'
      BY <1>0, <2>1 DEF Entitled
    <2>3. Shapes' /\ RowsGranted'
      BY <1>0, <2>1 DEF GrantInv, Shapes, RowsGranted, login
    <2> QED BY <1>0, <2>1, <2>2, <2>3, CopyKeeps
  <1> QED BY <1>1, <1>2, <1>3

LEMMA SignUpKeeps ==
    ASSUME GrantInv, NEW u \in Users, SignUp(u)
    PROVE  GrantInv'
  <1>1. PICK role \in SelfService :
            /\ NewLogin(u, role) /\ Copy(u, AsRole(role))
            /\ UNCHANGED <<app, linked, admins, granted, flows>>
    BY DEF SignUp
  <1>2. AsRole(role) \in Entitled(u)'
    BY SelfRole, AccountsAssumption
  <1>3. Shapes' /\ RowsGranted'
    BY <1>1 DEF NewLogin, GrantInv, Shapes, RowsGranted, flows
  <1> QED BY <1>1, <1>2, <1>3, CopyKeeps

LEMMA OnboardingKeeps ==
    ASSUME GrantInv, NEW u \in Users,
           \/ BeginOnboarding(u) \/ OnboardRider(u)
           \/ \E v \in OwnVendors : OnboardVendor(u, v)
    PROVE  GrantInv'
  <1>1. CASE BeginOnboarding(u)
    <2>1. /\ onboarding' \subseteq Users \X OwnVendors
          /\ UNCHANGED <<login, app, rows, calls>>
      BY <1>1 DEF BeginOnboarding, GrantInv, Shapes
    <2> QED
      BY <2>1, RowsKeep
         DEF GrantInv, Shapes, RowsGranted, login, rows, calls
  <1>2. CASE OnboardRider(u)
    <2>1. /\ granted' = granted \cup {<<u, "rider">>}
          /\ Copy(u, AsRider)
          /\ UNCHANGED <<login, app, linked, admins, onboarding>>
      BY <1>2 DEF OnboardRider, flows
    <2>2. AsRider \in Entitled(u)'
      BY <2>1 DEF Entitled
    <2>3. Shapes' /\ RowsGranted'
      BY <2>1 DEF GrantInv, Shapes, RowsGranted, login
    <2> QED BY <2>1, <2>2, <2>3, CopyKeeps
  <1>3. ASSUME NEW v \in OwnVendors, OnboardVendor(u, v)
        PROVE  GrantInv'
    <2>0. v \in Vendors
      BY AccountsAssumption
    <2>1. /\ linked' = linked \cup {<<u, v>>}
          /\ granted' = granted \cup {<<u, v>>}
          /\ onboarding' = onboarding \ {<<u, v>>}
          /\ Copy(u, AsVendor(v))
          /\ UNCHANGED <<login, app, admins>>
      BY <1>3 DEF OnboardVendor
    <2>2. AsVendor(v) \in Entitled(u)'
      BY <2>0, <2>1 DEF Entitled
    <2>3. Shapes' /\ RowsGranted'
      BY <2>0, <2>1 DEF GrantInv, Shapes, RowsGranted, login
    <2> QED BY <2>1, <2>2, <2>3, CopyKeeps
  <1> QED BY <1>1, <1>2, <1>3

LEMMA AdministrationKeeps ==
    ASSUME GrantInv, NEW u \in Users,
           \/ AddVendorUser(u) \/ InviteAdmin(u) \/ GrantAdmin(u)
           \/ RevokeAdmin(u) \/ RestoreAdmin(u)
    PROVE  GrantInv'
  <1>1. CASE AddVendorUser(u)
    <2>1. PICK v \in Vendors \ OwnVendors :
              /\ linked' = linked \cup {<<u, v>>}
              /\ granted' = granted \cup {<<u, v>>}
              /\ Copy(u, AsVendor(v))
              /\ UNCHANGED <<login, app, admins, flows>>
      BY <1>1 DEF AddVendorUser
    <2>2. AsVendor(v) \in Entitled(u)'
      BY <2>1 DEF Entitled
    <2>3. Shapes' /\ RowsGranted'
      BY <2>1 DEF GrantInv, Shapes, RowsGranted, login, flows
    <2> QED BY <2>1, <2>2, <2>3, CopyKeeps
  <1>2. CASE InviteAdmin(u)
    <2>1. /\ account' = [account EXCEPT ![u] = "live"]
          /\ claimed' = [claimed EXCEPT ![u] = NoRole]
          /\ UNCHANGED <<app, linked, admins, granted, flows, calls>>
      BY <1>2 DEF InviteAdmin, NewLogin
    <2> QED
      BY <2>1, RowsKeep DEF GrantInv, Shapes, RowsGranted, calls, flows
  <1>3. CASE GrantAdmin(u)
    <2>1. PICK role \in AdminRoles :
              /\ admins' = admins \cup {<<u, role>>}
              /\ granted' = granted \cup {<<u, role>>}
              /\ Copy(u, AsRole(role))
              /\ UNCHANGED <<login, app, linked, flows>>
      BY <1>3 DEF GrantAdmin
    <2>2. AsRole(role) \in Entitled(u)'
      BY <2>1, AccountsAssumption DEF Entitled
    <2>3. Shapes' /\ RowsGranted'
      BY <2>1 DEF GrantInv, Shapes, RowsGranted, login, flows
    <2> QED BY <2>1, <2>2, <2>3, CopyKeeps
  <1>4. CASE RevokeAdmin(u) \/ RestoreAdmin(u)
    <2>1. /\ admins' \subseteq admins \cup granted
          /\ UNCHANGED <<login, app, linked, granted, flows, calls>>
      BY <1>4 DEF RevokeAdmin, RestoreAdmin
    <2> QED
      BY <2>1, RowsKeep DEF GrantInv, Shapes, RowsGranted, login, calls, flows
  <1> QED BY <1>1, <1>2, <1>3, <1>4

LEMMA RemovalKeeps ==
    ASSUME GrantInv, NEW u \in Users,
           \/ PlaceOrder(u) \/ RemoveRows(u) \/ RemoveLogin(u)
           \/ RemoveLoginFails(u)
    PROVE  GrantInv'
  <1>1. /\ linked' \subseteq linked /\ admins' \subseteq admins
        /\ UNCHANGED <<claimed, app, granted, onboarding, calls>>
    BY DEF PlaceOrder, RemoveRows, RemoveLogin, RemoveLoginFails, OthersRows,
           login, rows, flows
  <1>2. account' \in [Users -> {"none", "live", "banned", "deleted"}]
    BY DEF PlaceOrder, RemoveRows, RemoveLogin, RemoveLoginFails, login,
           GrantInv, Shapes
  <1> QED
    BY <1>1, <1>2, RowsKeep DEF GrantInv, Shapes, RowsGranted, calls

LEMMA SessionKeeps ==
    ASSUME GrantInv, NEW u \in Users,
           Refresh(u) \/ \E p \in Portals : SignIn(u, p)
    PROVE  GrantInv'
  <1>1. UNCHANGED <<account, claimed, app, rows, flows, calls>>
    BY DEF Refresh, SignIn
  <1> QED
    BY <1>1, RowsKeep DEF GrantInv, Shapes, RowsGranted, rows, flows, calls

LEMMA SignInByGrantKeeps ==
    ASSUME GrantInv, NEW u \in Users, NEW p \in Portals,
           SignInByGrant(u, p)
    PROVE  GrantInv'
  <1>1. PICK set \in LoginGrants(u, p) : Copy(u, set)
    BY DEF SignInByGrant
  <1>2. UNCHANGED <<login, app, rows, flows>>
    BY DEF SignInByGrant
  <1>3. set \in Entitled(u)
    <2>1. CASE SelfServiceBase(u) \cap AllowedRoles(p) # {}
      BY <1>1, <2>1, BasesAreSelfService, SelfRole DEF LoginGrants
    <2>2. CASE SelfServiceBase(u) \cap AllowedRoles(p) = {}
      <3>1. CASE p = "admin"
        BY <1>1, <2>2, <3>1, AdminGrantEntitles DEF LoginGrants, GrantInv
      <3>2. CASE p = "vendor"
        BY <1>1, <2>2, <3>2, LinksEntitle DEF LoginGrants, GrantInv
      <3>3. CASE p = "customer"
        BY <1>1, <2>2, <3>3, SelfRole DEF LoginGrants
      <3>4. CASE p = "rider"
        BY <1>1, <2>2, <3>4 DEF LoginGrants
      <3> QED BY <3>1, <3>2, <3>3, <3>4 DEF Portals
    <2> QED BY <2>1, <2>2
  <1>4. set \in Entitled(u)'
    BY <1>2, <1>3, GrantsStay DEF rows
  <1>5. Shapes' /\ RowsGranted'
    BY <1>2 DEF GrantInv, Shapes, RowsGranted, login, rows, flows
  <1> QED BY <1>1, <1>2, <1>4, <1>5, CopyKeeps DEF rows

LEMMA UpdatePasswordKeeps ==
    ASSUME GrantInv, NEW u \in Users, UpdatePassword(u)
    PROVE  GrantInv'
  <1>1. PICK set :
            /\ Copy(u, set)
            /\ \/ \E r \in AdminGrant(u) : set = AsRole(r)
               \/ \E v \in LinksOf(u) : set = AsVendor(v)
               \/ SelfServiceBase(u) # {} /\ set = AsRole(claimed[u])
               \/ set = AsRole("customer")
    BY DEF UpdatePassword
  <1>2. UNCHANGED <<login, app, rows, flows>>
    BY DEF UpdatePassword
  <1>3. set \in Entitled(u)
    BY <1>1, AdminGrantEntitles, LinksEntitle, BasesAreSelfService, SelfRole
       DEF GrantInv
  <1>4. set \in Entitled(u)'
    BY <1>2, <1>3, GrantsStay DEF rows
  <1>5. Shapes' /\ RowsGranted'
    BY <1>2 DEF GrantInv, Shapes, RowsGranted, login, rows, flows
  <1> QED BY <1>1, <1>2, <1>4, <1>5, CopyKeeps DEF rows

-----------------------------------------------------------------------------
LEMMA InitGranted ==
    ASSUME Init
    PROVE  GrantInv
  <1>1. Blank \in Metadata
    BY DEF Blank, Metadata
  <1>2. \A u \in Users : Granted(u, Blank)
    BY AccountsAssumption DEF Granted, Blank, AdministratorRoles, Roles
  <1> QED
    BY <1>1, <1>2
       DEF Init, GrantInv, Shapes, RowsGranted, AppGranted, CallsGranted,
           CallGranted, Granted

LEMMA StutterKeeps == ASSUME GrantInv, UNCHANGED vars PROVE GrantInv'
  BY RowsKeep
     DEF GrantInv, Shapes, RowsGranted, vars, login, rows, flows, calls

LEMMA NextKeepsGrants == ASSUME GrantInv, [Next]_vars PROVE GrantInv'
  <1>1. CASE \E c \in Copies : ReadMetadata(c) \/ WriteMetadata(c) \/ CopyFails(c)
    BY <1>1, ReadKeeps, WriteKeeps, FailKeeps
  <1>2. CASE \E i \in Invites :
                \/ Invite(i) \/ InviteExpires(i) \/ FindInvite(i)
                \/ SignUpInvited(i) \/ AcceptRefused(i) \/ Accept(i)
    BY <1>2, InvitationsKeep
  <1>3. ASSUME NEW u \in Users,
               \/ SignUp(u) \/ BeginOnboarding(u) \/ OnboardRider(u)
               \/ AddVendorUser(u) \/ InviteAdmin(u) \/ GrantAdmin(u)
               \/ RevokeAdmin(u) \/ RestoreAdmin(u) \/ PlaceOrder(u)
               \/ RemoveRows(u) \/ RemoveLogin(u) \/ RemoveLoginFails(u)
               \/ Refresh(u) \/ UpdatePassword(u)
        PROVE  GrantInv'
    <2>1. CASE SignUp(u)
      BY <2>1, SignUpKeeps
    <2>2. CASE BeginOnboarding(u) \/ OnboardRider(u)
      BY <2>2, OnboardingKeeps
    <2>3. CASE \/ AddVendorUser(u) \/ InviteAdmin(u) \/ GrantAdmin(u)
               \/ RevokeAdmin(u) \/ RestoreAdmin(u)
      BY <2>3, AdministrationKeeps
    <2>4. CASE \/ PlaceOrder(u) \/ RemoveRows(u) \/ RemoveLogin(u)
               \/ RemoveLoginFails(u)
      BY <2>4, RemovalKeeps
    <2>5. CASE Refresh(u)
      BY <2>5, SessionKeeps
    <2>6. CASE UpdatePassword(u)
      BY <2>6, UpdatePasswordKeeps
    <2> QED BY <1>3, <2>1, <2>2, <2>3, <2>4, <2>5, <2>6
  <1>4. CASE \E u \in Users, v \in OwnVendors : OnboardVendor(u, v)
    BY <1>4, OnboardingKeeps
  <1>5. CASE \E u \in Users, p \in Portals : SignIn(u, p) \/ SignInByGrant(u, p)
    BY <1>5, SessionKeeps, SignInByGrantKeeps
  <1> QED
    BY <1>1, <1>2, <1>3, <1>4, <1>5, StutterKeeps DEF Next

\* Whatever metadata writes overlap, fail or land late, the metadata of a
\* user names only vendors, an administrator's role or a rider's post that a
\* row of the database granted to that user.
THEOREM MetadataWasGranted == Spec => []KeysWereGranted
  <1>1. Init => GrantInv
    BY InitGranted
  <1>2. GrantInv /\ [Next]_vars => GrantInv'
    BY NextKeepsGrants
  <1>3. GrantInv => KeysWereGranted
    BY DEF GrantInv, AppGranted, Granted, AdministratorRoles, KeysWereGranted
  <1> QED BY <1>1, <1>2, <1>3, PTL DEF Spec

-----------------------------------------------------------------------------
(* Printing.                                                               *)

PrintStates == {"none", "pending", "printing", "printed", "failed"}
Devices == [stage : {"ready", "told", "done", "jammed"}, job : K!Jobs \cup {None}]
Reports == [printer : Printers, job : K!Jobs, ok : BOOLEAN]

RowShapes ==
    /\ job \in [K!Jobs -> PrintStates]
    /\ lease \in [K!Jobs -> Printers \cup {None}]
    /\ fresh \subseteq K!Jobs
    /\ by \in [K!Jobs -> Printers \cup {None}]
    /\ attempts \in [K!Jobs -> Nat]

DeviceShapes ==
    /\ device \in [Printers -> Devices]
    /\ \A p \in Printers : device[p].stage # "ready" => device[p].job \in K!Jobs
    /\ late \subseteq Reports

PrintShapes == RowShapes /\ DeviceShapes

\* What a printer says it printed, now or in a report on its way.
ReportsAreTrue ==
    /\ \A p \in Printers : device[p].stage = "done" => device[p].job \in onPaper
    /\ \A r \in late : r.ok => r.job \in onPaper

PaperInv == PrintShapes /\ ReportsAreTrue /\ K!PrintedIsOnPaper

LEMMA JobsFacts ==
    /\ Orders \subseteq K!Jobs /\ Tests \subseteq K!Jobs
    /\ None \notin Printers /\ None \notin K!Jobs
    /\ Tokenless \subseteq Printers /\ Removable \subseteq Printers
    /\ Closing \subseteq K!Jobs
  BY PrintersAssumption DEF K!PrintingAssumption, K!Jobs

LEMMA PrintInitTyped == ASSUME K!Init PROVE PrintShapes
  BY DEF K!Init, PrintShapes, RowShapes, DeviceShapes, K!Idle, PrintStates,
         Devices, Reports

\* A job that is queued is pending and leased to nobody.
LEMMA QueueTyped ==
    ASSUME RowShapes, NEW j \in K!Jobs, NEW time, K!Queue(j, time)
    PROVE  RowShapes'
  BY DEF K!Queue, RowShapes, PrintStates

\* The job that is served is leased to the printer and being printed; a
\* printer that names its jobs is served no other.
LEMMA ServingFacts ==
    ASSUME PrintShapes, NEW p \in Printers, NEW j \in K!Jobs,
           NEW k \in K!Serving(p, j)
    PROVE  /\ k \in K!Jobs /\ lease[k] = p /\ job[k] = "printing"
           /\ p \notin Tokenless => k = j
           /\ p \in Tokenless => k \in fresh
  BY DEF K!Serving, K!Leased, K!Held, PrintShapes, RowShapes

LEMMA AcknowledgeTyped ==
    ASSUME PrintShapes, NEW p \in Printers, NEW j \in K!Jobs, NEW ok \in BOOLEAN,
           K!Acknowledge(p, j, ok)
    PROVE  RowShapes'
  <1>1. CASE UNCHANGED K!rows
    BY <1>1 DEF PrintShapes, RowShapes, K!rows
  <1>2. ASSUME NEW k \in K!Serving(p, j),
               K!CompleteJob(k, ok),
               lease' = [lease EXCEPT ![k] = None],
               fresh' = fresh \ {k},
               by' = IF ok THEN [by EXCEPT ![k] = p] ELSE by
        PROVE  RowShapes'
    <2>1. job' \in [K!Jobs -> PrintStates]
      BY <1>2, ServingFacts
         DEF K!CompleteJob, PrintShapes, RowShapes, PrintStates
    <2>2. attempts' \in [K!Jobs -> Nat]
      BY <1>2, ServingFacts DEF K!CompleteJob, PrintShapes, RowShapes
    <2> QED BY <1>2, <2>1, <2>2 DEF PrintShapes, RowShapes
  <1> QED BY <1>1, <1>2 DEF K!Acknowledge

LEMMA AnnounceTyped ==
    ASSUME DeviceShapes, NEW p \in Printers, NEW state \in Devices,
           state.stage # "ready" => state.job \in K!Jobs,
           device' = [device EXCEPT ![p] = state], late' \subseteq Reports
    PROVE  DeviceShapes'
  BY DEF DeviceShapes

LEMMA IdleIsADevice == K!Idle \in Devices /\ K!Idle.stage = "ready"
  BY DEF K!Idle, Devices

LEMMA PrintStepTyped == ASSUME PrintShapes, [K!Next]_(K!vars) PROVE PrintShapes'
  <1>1. CASE UNCHANGED <<K!rows, device, late>>
    BY <1>1 DEF PrintShapes, RowShapes, DeviceShapes, K!rows
  <1>2. ASSUME NEW o \in Orders, K!Pay(o) \/ K!Reprint(o)
        PROVE  PrintShapes'
    <2>1. RowShapes'
      BY <1>2, JobsFacts, QueueTyped
         DEF K!Pay, K!Reprint, PrintShapes, RowShapes, K!rows
    <2> QED BY <1>2, <2>1
               DEF K!Pay, K!Reprint, K!paper, PrintShapes, DeviceShapes
  <1>3. ASSUME NEW t \in Tests, K!TestPrint(t)
        PROVE  PrintShapes'
    BY <1>3, JobsFacts, QueueTyped
       DEF K!TestPrint, K!paper, PrintShapes, DeviceShapes
  <1>4. ASSUME NEW j \in K!Jobs, K!BecomesDue(j) \/ K!WindowCloses(j)
                                 \/ K!LeaseRunsOut(j)
        PROVE  PrintShapes'
    BY <1>4 DEF K!BecomesDue, K!WindowCloses, K!LeaseRunsOut, K!paper,
                PrintShapes, RowShapes, DeviceShapes
  <1>5. ASSUME NEW p \in Printers, K!PollAgain(p)
        PROVE  PrintShapes'
    <2>1. PICK j \in K!Held(p) : K!Announce(p, j)
      BY <1>5 DEF K!PollAgain
    <2>2. j \in K!Jobs
      BY <2>1 DEF K!Held, PrintShapes, RowShapes
    <2>3. UNCHANGED <<K!rows, late>>
      BY <1>5 DEF K!PollAgain
    <2>4. DeviceShapes'
      BY <2>1, <2>2, <2>3, AnnounceTyped
         DEF K!Announce, Devices, PrintShapes, DeviceShapes
    <2> QED BY <2>3, <2>4 DEF PrintShapes, RowShapes, K!rows
  <1>6. ASSUME NEW p \in Printers, K!Poll(p)
        PROVE  PrintShapes'
    <2>1. PICK j \in K!Claimable :
              /\ K!Announce(p, j)
              /\ job' = [job EXCEPT ![j] = "printing"]
              /\ lease' = [lease EXCEPT ![j] = p]
              /\ fresh' = fresh \cup {j}
      BY <1>6 DEF K!Poll
    <2>2. j \in K!Jobs
      BY <2>1 DEF K!Claimable
    <2>3. UNCHANGED <<by, attempts, late>>
      BY <1>6 DEF K!Poll
    <2>4. DeviceShapes'
      BY <2>1, <2>2, <2>3, AnnounceTyped
         DEF K!Announce, Devices, PrintShapes, DeviceShapes
    <2>5. RowShapes'
      BY <2>1, <2>2, <2>3 DEF PrintShapes, RowShapes, PrintStates
    <2> QED BY <2>4, <2>5 DEF PrintShapes
  <1>7. ASSUME NEW p \in Printers, K!FetchRefused(p) \/ K!ReportDelayed(p)
        PROVE  PrintShapes'
    <2>1. /\ UNCHANGED K!rows
          /\ device' = [device EXCEPT ![p] = K!Idle]
      BY <1>7 DEF K!FetchRefused, K!ReportDelayed
    <2>2. late' \subseteq Reports
      <3>1. CASE K!FetchRefused(p)
        BY <3>1 DEF K!FetchRefused, PrintShapes, DeviceShapes
      <3>2. CASE K!ReportDelayed(p)
        <4>1. device[p].stage # "ready"
          BY <3>2 DEF K!ReportDelayed, K!Reporting
        <4>2. device[p].job \in K!Jobs
          BY <4>1 DEF PrintShapes, DeviceShapes
        <4>3. \A ok \in BOOLEAN :
                  [printer |-> p, job |-> device[p].job, ok |-> ok] \in Reports
          BY <4>2 DEF Reports
        <4>4. (device[p].stage = "done") \in BOOLEAN
          OBVIOUS
        <4> DEFINE report(ok) == [printer |-> p, job |-> device[p].job, ok |-> ok]
        <4>5. report(device[p].stage = "done") \in Reports
          BY <4>3, <4>4
        <4>6. late' = late \cup {report(device[p].stage = "done")}
          BY <3>2 DEF K!ReportDelayed
        <4> HIDE DEF report
        <4> QED BY <4>5, <4>6 DEF PrintShapes, DeviceShapes
      <3> QED BY <1>7, <3>1, <3>2
    <2> QED BY <2>1, <2>2, AnnounceTyped, IdleIsADevice
               DEF PrintShapes, RowShapes, K!rows
  <1>8. ASSUME NEW p \in Printers, K!FetchAndPrint(p)
        PROVE  PrintShapes'
    <2>1. device[p].job \in K!Jobs
      BY <1>8 DEF K!FetchAndPrint, PrintShapes, DeviceShapes
    <2>2. PICK j \in K!Serving(p, device[p].job), stage \in {"done", "jammed"} :
              device' = [device EXCEPT ![p] = [stage |-> stage, job |-> j]]
      BY <1>8 DEF K!FetchAndPrint
    <2>3. UNCHANGED <<K!rows, late>>
      BY <1>8 DEF K!FetchAndPrint
    <2>4. j \in K!Jobs
      BY <2>1, <2>2, ServingFacts
    <2>5. DeviceShapes'
      BY <2>2, <2>3, <2>4, AnnounceTyped DEF Devices, PrintShapes, DeviceShapes
    <2> QED BY <2>3, <2>5 DEF PrintShapes, RowShapes, K!rows
  <1>9. ASSUME NEW p \in Printers, K!ReportArrives(p)
        PROVE  PrintShapes'
    <2>1. device[p].job \in K!Jobs
      BY <1>9 DEF K!ReportArrives, K!Reporting, PrintShapes, DeviceShapes
    <2>2. RowShapes'
      BY <1>9, <2>1, AcknowledgeTyped DEF K!ReportArrives
    <2>3. DeviceShapes'
      BY <1>9, AnnounceTyped, IdleIsADevice
         DEF K!ReportArrives, PrintShapes, DeviceShapes
    <2> QED BY <2>2, <2>3 DEF PrintShapes
  <1>10. ASSUME NEW r \in late, K!LateReportArrives(r) \/ K!ReportLost(r)
         PROVE  PrintShapes'
    <2>1. r.printer \in Printers /\ r.job \in K!Jobs /\ r.ok \in BOOLEAN
      BY DEF PrintShapes, DeviceShapes, Reports
    <2>2. RowShapes'
      BY <1>10, <2>1, AcknowledgeTyped
         DEF K!LateReportArrives, K!ReportLost, PrintShapes, RowShapes, K!rows
    <2> QED
      BY <1>10, <2>2
         DEF K!LateReportArrives, K!ReportLost, PrintShapes, DeviceShapes
  <1>11. ASSUME NEW p \in Printers, K!RegisterPrinter(p) \/ K!RevokePrinter(p)
         PROVE  PrintShapes'
    BY <1>1, <1>11 DEF K!RegisterPrinter, K!RevokePrinter, K!paper
  <1>12. ASSUME NEW o \in Orders, K!CloseOrder(o)
         PROVE  PrintShapes'
    BY <1>1, <1>12 DEF K!CloseOrder, K!paper
  <1>13. CASE K!SetFlag
    BY <1>1, <1>13 DEF K!SetFlag, K!paper
  <1>14. CASE UNCHANGED K!vars
    BY <1>1, <1>14 DEF K!vars, K!paper
  <1> QED
    BY <1>2, <1>3, <1>4, <1>5, <1>6, <1>7, <1>8, <1>9, <1>10, <1>11, <1>12,
       <1>13, <1>14, JobsFacts
       DEF K!Next, K!PrinterStep

-----------------------------------------------------------------------------
\* Every job that is newly said to be printed, by a row or by a report, is on
\* paper.
NewlySaidIsTrue ==
    /\ onPaper \subseteq onPaper'
    /\ \A j \in K!Jobs :
          job'[j] = "printed" =>
              \/ job[j] = "printed" /\ by'[j] = by[j]
              \/ j \in onPaper \/ by'[j] \in Tokenless
    /\ \A p \in Printers :
          device'[p].stage = "done" =>
              device'[p] = device[p] \/ device'[p].job \in onPaper'
    /\ \A r \in late' : r \in late \/ (r.ok => r.job \in onPaper)

LEMMA PaperStays ==
    ASSUME PaperInv, PrintShapes', NewlySaidIsTrue
    PROVE  PaperInv'
  BY DEF PaperInv, ReportsAreTrue, NewlySaidIsTrue, K!PrintedIsOnPaper

LEMMA AcknowledgeIsTrue ==
    ASSUME PaperInv, NEW p \in Printers, NEW j \in K!Jobs, NEW ok \in BOOLEAN,
           ok => j \in onPaper, K!Acknowledge(p, j, ok),
           NEW i \in K!Jobs, job'[i] = "printed"
    PROVE  \/ job[i] = "printed" /\ by'[i] = by[i]
           \/ i \in onPaper \/ by'[i] \in Tokenless
  <1>1. CASE UNCHANGED K!rows
    BY <1>1 DEF K!rows
  <1>2. ASSUME NEW k \in K!Serving(p, j),
               K!CompleteJob(k, ok),
               by' = IF ok THEN [by EXCEPT ![k] = p] ELSE by
        PROVE  \/ job[i] = "printed" /\ by'[i] = by[i]
               \/ i \in onPaper \/ by'[i] \in Tokenless
    <2>1. /\ k \in K!Jobs
          /\ p \notin Tokenless => k = j
      BY ServingFacts DEF PaperInv
    <2>2. job \in [K!Jobs -> PrintStates] /\ by \in [K!Jobs -> Printers \cup {None}]
      BY DEF PaperInv, PrintShapes, RowShapes
    <2>3. CASE i = k /\ ok
      BY <1>2, <2>1, <2>2, <2>3
    <2>4. CASE i = k /\ ~ok
      BY <1>2, <2>1, <2>2, <2>4 DEF K!CompleteJob
    <2>5. CASE i # k
      BY <1>2, <2>1, <2>2, <2>5 DEF K!CompleteJob
    <2> QED BY <2>3, <2>4, <2>5
  <1> QED BY <1>1, <1>2 DEF K!Acknowledge

LEMMA PaperStep == ASSUME PaperInv, [K!Next]_(K!vars) PROVE PaperInv'
  <1>0. PrintShapes /\ PrintShapes'
    BY PrintStepTyped DEF PaperInv
  <1>1. CASE UNCHANGED <<job, by, device, late, onPaper>>
    BY <1>0, <1>1, PaperStays DEF NewlySaidIsTrue
  <1>2. ASSUME NEW j \in K!Jobs, NEW time, K!Queue(j, time), UNCHANGED K!paper
        PROVE  PaperInv'
    BY <1>0, <1>2, PaperStays
       DEF K!Queue, K!paper, NewlySaidIsTrue, PrintShapes, RowShapes
  <1>3. ASSUME NEW p \in Printers, K!PollAgain(p) \/ K!Poll(p)
        PROVE  PaperInv'
    <2>1. PICK j : K!Announce(p, j)
      BY <1>3 DEF K!PollAgain, K!Poll
    <2>2. \A q \in Printers : device'[q].stage = "done" => device'[q] = device[q]
      BY <1>0, <2>1 DEF K!Announce, PrintShapes, DeviceShapes
    <2>3. \A i \in K!Jobs : job'[i] = "printed" => job[i] = "printed"
      BY <1>0, <1>3
         DEF K!PollAgain, K!Poll, K!Claimable, K!rows, PrintShapes, RowShapes
    <2>4. UNCHANGED <<by, late, onPaper>>
      BY <1>3 DEF K!PollAgain, K!Poll, K!rows
    <2> QED BY <1>0, <2>2, <2>3, <2>4, PaperStays DEF NewlySaidIsTrue
  <1>4. ASSUME NEW p \in Printers, K!FetchRefused(p) \/ K!ReportDelayed(p)
        PROVE  PaperInv'
    <2>1. \A q \in Printers : device'[q].stage = "done" => device'[q] = device[q]
      BY <1>0, <1>4, IdleIsADevice
         DEF K!FetchRefused, K!ReportDelayed, PrintShapes, DeviceShapes
    <2>2. UNCHANGED <<job, by, onPaper>>
      BY <1>4 DEF K!FetchRefused, K!ReportDelayed, K!rows
    <2> DEFINE report(ok) == [printer |-> p, job |-> device[p].job, ok |-> ok]
    <2>3. \A ok \in BOOLEAN : report(ok).ok = ok /\ report(ok).job = device[p].job
      OBVIOUS
    <2>4. (device[p].stage = "done") \in BOOLEAN
      OBVIOUS
    <2>5. late' \subseteq late \cup {report(device[p].stage = "done")}
      BY <1>4 DEF K!FetchRefused, K!ReportDelayed
    <2>6. device[p].stage = "done" => device[p].job \in onPaper
      BY DEF PaperInv, ReportsAreTrue
    <2> HIDE DEF report
    <2>7. \A r \in late' : r \in late \/ (r.ok => r.job \in onPaper)
      BY <2>3, <2>4, <2>5, <2>6
    <2> QED BY <1>0, <2>1, <2>2, <2>7, PaperStays DEF NewlySaidIsTrue
  <1>5. ASSUME NEW p \in Printers, K!FetchAndPrint(p)
        PROVE  PaperInv'
    <2>1. UNCHANGED <<job, by, late>> /\ onPaper \subseteq onPaper'
      BY <1>5 DEF K!FetchAndPrint, K!rows
    <2>2. \A q \in Printers :
              device'[q].stage = "done" =>
                  device'[q] = device[q] \/ device'[q].job \in onPaper'
      BY <1>0, <1>5 DEF K!FetchAndPrint, PrintShapes, DeviceShapes
    <2> QED BY <1>0, <2>1, <2>2, PaperStays DEF NewlySaidIsTrue
  <1>6. ASSUME NEW p \in Printers, K!ReportArrives(p)
        PROVE  PaperInv'
    <2>1. /\ device[p].job \in K!Jobs
          /\ device[p].stage = "done" => device[p].job \in onPaper
      BY <1>0, <1>6
         DEF K!ReportArrives, K!Reporting, PrintShapes, DeviceShapes, PaperInv,
             ReportsAreTrue
    <2>2. K!Acknowledge(p, device[p].job, device[p].stage = "done")
      BY <1>6 DEF K!ReportArrives
    <2>3. \A i \in K!Jobs :
              job'[i] = "printed" =>
                  \/ job[i] = "printed" /\ by'[i] = by[i]
                  \/ i \in onPaper \/ by'[i] \in Tokenless
      BY <2>1, <2>2, AcknowledgeIsTrue
    <2>4. UNCHANGED <<late, onPaper>> /\ device' = [device EXCEPT ![p] = K!Idle]
      BY <1>6 DEF K!ReportArrives
    <2>5. \A q \in Printers : device'[q].stage = "done" => device'[q] = device[q]
      BY <1>0, <2>4, IdleIsADevice DEF PrintShapes, DeviceShapes
    <2> QED BY <1>0, <2>3, <2>4, <2>5, PaperStays DEF NewlySaidIsTrue
  <1>7. ASSUME NEW r \in late, K!LateReportArrives(r)
        PROVE  PaperInv'
    <2>1. /\ r.printer \in Printers /\ r.job \in K!Jobs /\ r.ok \in BOOLEAN
          /\ r.ok => r.job \in onPaper
      BY <1>0 DEF PrintShapes, DeviceShapes, Reports, PaperInv, ReportsAreTrue
    <2>2. K!Acknowledge(r.printer, r.job, r.ok)
      BY <1>7 DEF K!LateReportArrives
    <2>3. \A i \in K!Jobs :
              job'[i] = "printed" =>
                  \/ job[i] = "printed" /\ by'[i] = by[i]
                  \/ i \in onPaper \/ by'[i] \in Tokenless
      BY <2>1, <2>2, AcknowledgeIsTrue
    <2>4. UNCHANGED <<device, onPaper>> /\ late' = late \ {r}
      BY <1>7 DEF K!LateReportArrives
    <2>5. NewlySaidIsTrue
      BY <2>3, <2>4 DEF NewlySaidIsTrue
    <2> QED BY <1>0, <2>5, PaperStays
  <1>8. ASSUME NEW r \in late, K!ReportLost(r)
        PROVE  PaperInv'
    BY <1>0, <1>8, PaperStays DEF K!ReportLost, K!rows, NewlySaidIsTrue
  <1>9. ASSUME NEW o \in Orders, K!Pay(o) \/ K!Reprint(o)
        PROVE  PaperInv'
    BY <1>1, <1>2, <1>9, JobsFacts DEF K!Pay, K!Reprint, K!rows, K!paper
  <1>10. ASSUME NEW t \in Tests, K!TestPrint(t)
         PROVE  PaperInv'
    BY <1>2, <1>10, JobsFacts DEF K!TestPrint
  <1>11. ASSUME NEW j \in K!Jobs, K!BecomesDue(j) \/ K!WindowCloses(j)
                                  \/ K!LeaseRunsOut(j)
         PROVE  PaperInv'
    BY <1>1, <1>11 DEF K!BecomesDue, K!WindowCloses, K!LeaseRunsOut, K!paper
  <1>12. ASSUME NEW p \in Printers, K!RegisterPrinter(p) \/ K!RevokePrinter(p)
         PROVE  PaperInv'
    BY <1>1, <1>12 DEF K!RegisterPrinter, K!RevokePrinter, K!rows, K!paper
  <1>13. ASSUME NEW o \in Orders, K!CloseOrder(o)
         PROVE  PaperInv'
    BY <1>1, <1>13 DEF K!CloseOrder, K!rows, K!paper
  <1>14. CASE K!SetFlag
    BY <1>1, <1>14 DEF K!SetFlag, K!rows, K!paper
  <1>15. CASE UNCHANGED K!vars
    BY <1>1, <1>15 DEF K!vars, K!rows, K!paper
  <1> QED
    BY <1>3, <1>4, <1>5, <1>6, <1>7, <1>8, <1>9, <1>10, <1>11, <1>12, <1>13,
       <1>14, <1>15, JobsFacts
       DEF K!Next, K!PrinterStep

\* A job that complete_print_job marks printed came out on paper, whenever the
\* printer that is said to have printed it names its jobs: leases that run out
\* (claim_print_job) and reports that arrive late or never mark no other job.
THEOREM PrintedTicketsAreOnPaper == K!Spec => []K!PrintedIsOnPaper
  <1>1. K!Init => PaperInv
    BY PrintInitTyped
       DEF K!Init, K!Idle, PaperInv, ReportsAreTrue, K!PrintedIsOnPaper
  <1>2. PaperInv /\ [K!Next]_(K!vars) => PaperInv'
    BY PaperStep
  <1>3. PaperInv => K!PrintedIsOnPaper
    BY DEF PaperInv
  <1> QED BY <1>1, <1>2, <1>3, PTL DEF K!Spec

-----------------------------------------------------------------------------
(* Copies that are spare, and those that may still come out.               *)

Told(p, j) == device[p].stage = "told" /\ device[p].job = j
ToldByLease(j) == lease[j] \in Printers /\ Told(lease[j], j)

\* The copies that may come out with no further reason: of a queued job the
\* first; of one whose lease ran out, that of the next printer; and that of the
\* printer that was told and still has the lease.
Reserved(j) ==
    IF job[j] \in {"none", "pending"} THEN 1
    ELSE IF job[j] = "printing"
         THEN (IF j \in fresh THEN 0 ELSE 1) + (IF ToldByLease(j) THEN 1 ELSE 0)
    ELSE 0

\* A printer holds one live lease, and is told of no other job than it.
HeldOnce ==
    \A p \in Printers : \A i, j \in K!Held(p) :
        i = j /\ (device[p].stage = "told" => device[p].job = j)

CopiesInv ==
    /\ PrintShapes
    /\ spare \in [K!Jobs -> Int]
    /\ HeldOnce
    /\ \A j \in K!Jobs : spare[j] >= Reserved(j)

LEMMA ReservedIsNat == \A j \in K!Jobs : Reserved(j) \in {0, 1, 2}
  BY DEF Reserved

\* What a step has to establish, job by job.
LEMMA CopiesStay ==
    ASSUME CopiesInv, PrintShapes', spare' \in [K!Jobs -> Int],
           \A p \in Printers : K!Held(p)' \subseteq K!Held(p),
           \A p \in Printers :
               device'[p].stage = "told" => device'[p] = device[p],
           \A j \in K!Jobs : spare'[j] >= Reserved(j)'
    PROVE  CopiesInv'
  BY DEF CopiesInv, HeldOnce

\* Nothing is reserved for a job that nothing happens to.
LEMMA SameReserve ==
    ASSUME CopiesInv, NEW j \in K!Jobs,
           job'[j] = job[j], lease'[j] = lease[j], j \in fresh' <=> j \in fresh,
           lease[j] \in Printers /\ Told(lease[j], j)' => Told(lease[j], j)
    PROVE  Reserved(j)' <= Reserved(j)
  BY DEF Reserved, ToldByLease, Told

LEMMA QueueReserves ==
    ASSUME CopiesInv, PrintShapes', NEW j \in K!Jobs, NEW time,
           K!Queue(j, time), UNCHANGED K!paper,
           \/ UNCHANGED spare /\ job[j] = "none"
           \/ spare' = [spare EXCEPT ![j] = @ + 1]
    PROVE  CopiesInv'
  <1>0. RowShapes /\ spare \in [K!Jobs -> Int]
    BY DEF CopiesInv, PrintShapes
  <1>1. spare' \in [K!Jobs -> Int]
    BY <1>0
  <1>2. \A p \in Printers : K!Held(p)' \subseteq K!Held(p)
    BY <1>0, JobsFacts DEF K!Queue, K!Held, RowShapes
  <1>3. \A i \in K!Jobs : spare'[i] >= Reserved(i)'
    <2> TAKE i \in K!Jobs
    <2>1. spare[i] \in Int /\ spare[i] >= Reserved(i) /\ Reserved(i) \in {0, 1, 2}
      BY <1>0, ReservedIsNat DEF CopiesInv
    <2>2. CASE i = j
      <3>1. Reserved(i)' = 1
        BY <1>0, <2>2 DEF K!Queue, RowShapes, Reserved
      <3>2. job[j] = "none" => Reserved(i) = 1
        BY <2>2 DEF Reserved
      <3> QED BY <1>0, <2>1, <2>2, <3>1, <3>2
    <2>3. CASE i # j
      <3>1. Reserved(i)' <= Reserved(i)
        BY <1>0, <2>3, SameReserve DEF K!Queue, RowShapes, K!paper, Told
      <3>2. spare'[i] = spare[i] /\ Reserved(i)' \in {0, 1, 2}
        BY <1>0, <2>3 DEF Reserved
      <3> QED BY <2>1, <3>1, <3>2
    <2> QED BY <2>2, <2>3
  <1> QED BY <1>1, <1>2, <1>3, CopiesStay DEF K!paper

LEMMA AcknowledgeReserves ==
    ASSUME CopiesInv, PrintShapes', NEW p \in Printers, NEW j \in K!Jobs,
           NEW ok \in BOOLEAN, K!Acknowledge(p, j, ok),
           \A q \in Printers : device'[q] = device[q] \/ device'[q] = K!Idle
    PROVE  CopiesInv'
  <1>0. RowShapes /\ spare \in [K!Jobs -> Int]
    BY DEF CopiesInv, PrintShapes
  <1>1. \A q \in Printers : device'[q].stage = "told" => device'[q] = device[q]
    BY IdleIsADevice
  <1>2. CASE UNCHANGED <<K!rows, spare>>
    <2>1. \A i \in K!Jobs : spare'[i] >= Reserved(i)'
      <3> TAKE i \in K!Jobs
      <3>1. Reserved(i)' <= Reserved(i)
        BY <1>1, <1>2, SameReserve DEF K!rows, Told
      <3>2. Reserved(i)' \in {0, 1, 2} /\ Reserved(i) \in {0, 1, 2}
        BY DEF Reserved
      <3> QED BY <1>0, <1>2, <3>1, <3>2 DEF CopiesInv
    <2> QED BY <1>0, <1>1, <1>2, <2>1, CopiesStay DEF K!rows, K!Held
  <1>3. ASSUME NEW k \in K!Serving(p, j),
               K!CompleteJob(k, ok),
               lease' = [lease EXCEPT ![k] = None],
               fresh' = fresh \ {k}
        PROVE  CopiesInv'
    <2>1. k \in K!Jobs /\ job[k] = "printing"
      BY ServingFacts DEF CopiesInv
    <2>2. spare' \in [K!Jobs -> Int]
      BY <1>0, <1>3, <2>1 DEF K!CompleteJob
    <2>3. \A q \in Printers : K!Held(q)' \subseteq K!Held(q)
      BY <1>0, <1>3, <2>1, JobsFacts DEF K!CompleteJob, K!Held, RowShapes
    <2>4. \A i \in K!Jobs : spare'[i] >= Reserved(i)'
      <3> TAKE i \in K!Jobs
      <3>1. spare[i] \in Int /\ spare[i] >= Reserved(i) /\ Reserved(i) \in {0, 1, 2}
        BY <1>0, ReservedIsNat DEF CopiesInv
      <3>2. CASE i = k
        <4>1. Reserved(i)' = IF ok \/ job'[k] = "failed" THEN 0 ELSE 1
          BY <1>0, <1>3, <2>1, <3>2 DEF K!CompleteJob, RowShapes, Reserved
        <4>2. spare'[k] = IF ok THEN spare[k] ELSE spare[k] + 1
          BY <1>0, <1>3, <2>1 DEF K!CompleteJob
        <4> QED BY <3>1, <3>2, <4>1, <4>2
      <3>3. CASE i # k
        <4>1. /\ job'[i] = job[i] /\ lease'[i] = lease[i]
              /\ i \in fresh' <=> i \in fresh
              /\ spare'[i] = spare[i]
          BY <1>0, <1>3, <2>1, <3>3 DEF K!CompleteJob, RowShapes
        <4>2. Reserved(i)' <= Reserved(i)
          BY <1>1, <4>1, SameReserve DEF Told
        <4>3. Reserved(i)' \in {0, 1, 2}
          BY DEF Reserved
        <4> QED BY <3>1, <4>1, <4>2, <4>3
      <3> QED BY <3>2, <3>3
    <2> QED BY <1>1, <2>2, <2>3, <2>4, CopiesStay
  <1> QED BY <1>2, <1>3 DEF K!Acknowledge

\* A step that leaves the rows alone, tells no printer and prints nothing.
LEMMA NothingReserved ==
    ASSUME CopiesInv, PrintShapes', UNCHANGED <<job, lease, fresh, spare>>,
           \A p \in Printers : device'[p].stage = "told" => device'[p] = device[p]
    PROVE  CopiesInv'
  <1>1. \A j \in K!Jobs : Reserved(j)' <= Reserved(j)
    BY SameReserve DEF Told
  <1>2. \A j \in K!Jobs : Reserved(j)' \in {0, 1, 2} /\ Reserved(j) \in {0, 1, 2}
    BY DEF Reserved
  <1>3. \A j \in K!Jobs : spare'[j] >= Reserved(j)'
    BY <1>1, <1>2 DEF CopiesInv
  <1>4. \A p \in Printers : K!Held(p)' \subseteq K!Held(p)
    BY DEF K!Held
  <1> QED BY <1>3, <1>4, CopiesStay DEF CopiesInv

LEMMA LeaseRunsOutReserves ==
    ASSUME CopiesInv, PrintShapes', NEW j \in K!Jobs, K!LeaseRunsOut(j)
    PROVE  CopiesInv'
  <1>0. RowShapes /\ spare \in [K!Jobs -> Int]
    BY DEF CopiesInv, PrintShapes
  <1>1. /\ fresh' = fresh \ {j}
        /\ spare' = [spare EXCEPT ![j] = @ + 1]
        /\ UNCHANGED <<job, lease, device>>
    BY DEF K!LeaseRunsOut, K!paper
  <1>2. \A i \in K!Jobs : spare'[i] >= Reserved(i)'
    <2> TAKE i \in K!Jobs
    <2>1. spare[i] \in Int /\ spare[i] >= Reserved(i) /\ Reserved(i) \in {0, 1, 2}
      BY <1>0, ReservedIsNat DEF CopiesInv
    <2>2. CASE i = j
      <3>1. Reserved(i)' \in {0, 1, 2} /\ Reserved(i)' <= Reserved(i) + 1
        BY <1>1, <2>2 DEF Reserved, ToldByLease, Told
      <3> QED BY <1>0, <1>1, <2>1, <2>2, <3>1
    <2>3. CASE i # j
      <3>1. Reserved(i)' = Reserved(i) /\ spare'[i] = spare[i]
        BY <1>0, <1>1, <2>3 DEF Reserved, ToldByLease, Told
      <3> QED BY <2>1, <3>1
    <2> QED BY <2>2, <2>3
  <1>3. \A p \in Printers : K!Held(p)' \subseteq K!Held(p)
    BY <1>1 DEF K!Held
  <1> QED BY <1>0, <1>1, <1>2, <1>3, CopiesStay

LEMMA PollAgainReserves ==
    ASSUME CopiesInv, PrintShapes', NEW p \in Printers, K!PollAgain(p)
    PROVE  CopiesInv'
  <1>0. RowShapes /\ DeviceShapes /\ spare \in [K!Jobs -> Int]
    BY DEF CopiesInv, PrintShapes
  <1>1. PICK j \in K!Held(p) :
            /\ device' = [device EXCEPT ![p] = [stage |-> "told", job |-> j]]
            /\ spare' = [spare EXCEPT ![j] = @ + 1]
    BY DEF K!PollAgain, K!Announce
  <1>2. j \in K!Jobs /\ UNCHANGED <<job, lease, fresh>>
    BY <1>0 DEF K!Held, RowShapes, K!PollAgain, K!rows
  <1>3. \A q \in Printers : K!Held(q)' = K!Held(q)
    BY <1>2 DEF K!Held
  <1>4. \A i \in K!Held(p) : i = j
    BY DEF CopiesInv, HeldOnce
  <1>5. HeldOnce'
    <2> SUFFICES ASSUME NEW q \in Printers, NEW i \in K!Held(q), NEW l \in K!Held(q)
                 PROVE  i = l /\ (device'[q].stage = "told" => device'[q].job = l)
      BY <1>3 DEF HeldOnce
    <2>1. i = l /\ (device[q].stage = "told" => device[q].job = l)
      BY DEF CopiesInv, HeldOnce
    <2>2. CASE q = p
      BY <1>0, <1>1, <1>4, <2>1, <2>2 DEF DeviceShapes
    <2>3. CASE q # p
      BY <1>0, <1>1, <2>1, <2>3 DEF DeviceShapes
    <2> QED BY <2>2, <2>3
  <1>6. \A i \in K!Jobs : spare'[i] >= Reserved(i)'
    <2> TAKE i \in K!Jobs
    <2>1. spare[i] \in Int /\ spare[i] >= Reserved(i) /\ Reserved(i) \in {0, 1, 2}
      BY <1>0, ReservedIsNat DEF CopiesInv
    <2>2. CASE i = j
      <3>1. j \in fresh /\ job[j] = "printing"
        BY <1>1 DEF K!Held
      <3>2. Reserved(i)' <= 1 /\ Reserved(i)' \in {0, 1, 2}
        BY <1>2, <2>2, <3>1 DEF Reserved
      <3> QED BY <1>0, <1>1, <2>1, <2>2, <3>2
    <2>3. CASE i # j
      <3>1. \A q \in Printers : Told(q, i)' => Told(q, i)
        BY <1>0, <1>1, <2>3 DEF Told, DeviceShapes
      <3>2. Reserved(i)' <= Reserved(i) /\ Reserved(i)' \in {0, 1, 2}
        BY <1>2, <3>1, SameReserve DEF Reserved
      <3>3. spare'[i] = spare[i]
        BY <1>0, <1>1, <2>3
      <3> QED BY <2>1, <3>2, <3>3
    <2> QED BY <2>2, <2>3
  <1>7. spare' \in [K!Jobs -> Int]
    BY <1>0, <1>1, <1>2
  <1> QED BY <1>5, <1>6, <1>7 DEF CopiesInv

LEMMA PollReserves ==
    ASSUME CopiesInv, PrintShapes', NEW p \in Printers, K!Poll(p)
    PROVE  CopiesInv'
  <1>0. RowShapes /\ DeviceShapes /\ spare \in [K!Jobs -> Int]
    BY DEF CopiesInv, PrintShapes
  <1>1. PICK j \in K!Claimable :
            /\ device' = [device EXCEPT ![p] = [stage |-> "told", job |-> j]]
            /\ job' = [job EXCEPT ![j] = "printing"]
            /\ lease' = [lease EXCEPT ![j] = p]
            /\ fresh' = fresh \cup {j}
    BY DEF K!Poll, K!Announce
  <1>2. /\ j \in K!Jobs /\ UNCHANGED spare
        /\ job[j] = "pending" \/ (job[j] = "printing" /\ j \notin fresh)
    BY <1>1 DEF K!Claimable, K!Poll, K!counts
  <1>3. K!Held(p) = {}
    BY DEF K!Poll
  <1>4. K!Held(p)' \subseteq {j}
    BY <1>0, <1>1, <1>2, <1>3 DEF K!Held, RowShapes
  <1>5. ASSUME NEW q \in Printers \ {p}, NEW i \in K!Held(q)'
        PROVE  i \in K!Held(q)
    <2>1. i \in fresh' /\ lease'[i] = q /\ job'[i] = "printing"
      BY <1>5 DEF K!Held
    <2>2. i # j /\ i \in K!Jobs
      BY <1>0, <1>1, <1>2, <2>1 DEF RowShapes
    <2> QED BY <1>0, <1>1, <1>2, <2>1, <2>2 DEF K!Held, RowShapes
  <1>6. HeldOnce'
    <2> SUFFICES ASSUME NEW q \in Printers, NEW i \in K!Held(q)', NEW l \in K!Held(q)'
                 PROVE  i = l /\ (device'[q].stage = "told" => device'[q].job = l)
      BY DEF HeldOnce
    <2>1. CASE q = p
      BY <1>0, <1>1, <1>4, <2>1 DEF DeviceShapes
    <2>2. CASE q # p
      <3>1. i = l /\ (device[q].stage = "told" => device[q].job = l)
        BY <1>5, <2>2 DEF CopiesInv, HeldOnce
      <3> QED BY <1>0, <1>1, <2>2, <3>1 DEF DeviceShapes
    <2> QED BY <2>1, <2>2
  <1>7. \A i \in K!Jobs : spare'[i] >= Reserved(i)'
    <2> TAKE i \in K!Jobs
    <2>1. spare[i] \in Int /\ spare[i] >= Reserved(i) /\ Reserved(i) \in {0, 1, 2}
      BY <1>0, ReservedIsNat DEF CopiesInv
    <2>2. CASE i = j
      <3>1. Reserved(i) >= 1
        BY <1>2, <2>2 DEF Reserved
      <3>2. job'[i] = "printing" /\ i \in fresh'
        BY <1>0, <1>1, <1>2, <2>2 DEF RowShapes
      <3>3. Reserved(i)' <= 1 /\ Reserved(i)' \in {0, 1, 2}
        BY <3>2 DEF Reserved
      <3> QED BY <1>2, <2>1, <3>1, <3>3
    <2>3. CASE i # j
      <3>1. \A q \in Printers : Told(q, i)' => Told(q, i)
        BY <1>0, <1>1, <2>3 DEF Told, DeviceShapes
      <3>2. /\ job'[i] = job[i] /\ lease'[i] = lease[i]
            /\ i \in fresh' <=> i \in fresh
        BY <1>0, <1>1, <1>2, <2>3 DEF RowShapes
      <3>3. Reserved(i)' <= Reserved(i) /\ Reserved(i)' \in {0, 1, 2}
        BY <3>1, <3>2, SameReserve DEF Reserved
      <3> QED BY <1>2, <2>1, <3>3
    <2> QED BY <2>2, <2>3
  <1> QED BY <1>0, <1>2, <1>6, <1>7 DEF CopiesInv

LEMMA FetchReserves ==
    ASSUME CopiesInv, PrintShapes', NEW p \in Printers, K!FetchAndPrint(p)
    PROVE  CopiesInv'
  <1>0. RowShapes /\ DeviceShapes /\ spare \in [K!Jobs -> Int]
    BY DEF CopiesInv, PrintShapes
  <1>1. device[p].stage = "told" /\ device[p].job \in K!Jobs
    BY <1>0 DEF K!FetchAndPrint, DeviceShapes
  <1>2. PICK j \in K!Serving(p, device[p].job), stage \in {"done", "jammed"} :
            /\ device' = [device EXCEPT ![p] = [stage |-> stage, job |-> j]]
            /\ spare' \in {spare, [spare EXCEPT ![j] = @ - 1]}
    BY DEF K!FetchAndPrint
  <1>3. /\ j \in K!Jobs /\ lease[j] = p /\ job[j] = "printing"
        /\ p \notin Tokenless => j = device[p].job
        /\ p \in Tokenless => j \in fresh
    BY <1>0, <1>1, <1>2, ServingFacts DEF CopiesInv
  <1>4. j = device[p].job
    <2>1. CASE p \in Tokenless
      <3>1. j \in K!Held(p)
        BY <1>3, <2>1 DEF K!Held
      <3> QED BY <1>1, <3>1 DEF CopiesInv, HeldOnce
    <2> QED BY <1>3, <2>1
  <1>5. UNCHANGED <<job, lease, fresh>>
    BY DEF K!FetchAndPrint, K!rows
  <1>6. \A q \in Printers : device'[q].stage = "told" => device'[q] = device[q]
    BY <1>0, <1>2 DEF DeviceShapes
  <1>7. \A i \in K!Jobs : spare'[i] >= Reserved(i)'
    <2> TAKE i \in K!Jobs
    <2>1. spare[i] \in Int /\ spare[i] >= Reserved(i) /\ Reserved(i) \in {0, 1, 2}
      BY <1>0, ReservedIsNat DEF CopiesInv
    <2>2. CASE i = j
      <3>1. ToldByLease(i)
        BY <1>1, <1>3, <1>4, <2>2 DEF ToldByLease, Told
      <3>2. ~ToldByLease(i)'
        BY <1>0, <1>2, <1>3, <1>5, <2>2 DEF ToldByLease, Told, DeviceShapes
      <3>3. Reserved(i)' <= Reserved(i) - 1 /\ Reserved(i)' \in {0, 1, 2}
        BY <1>3, <1>5, <2>2, <3>1, <3>2 DEF Reserved
      <3> QED BY <1>0, <1>2, <1>3, <2>1, <2>2, <3>3
    <2>3. CASE i # j
      <3>1. Reserved(i)' <= Reserved(i) /\ Reserved(i)' \in {0, 1, 2}
        BY <1>5, <1>6, SameReserve DEF Reserved, Told
      <3>2. spare'[i] = spare[i]
        BY <1>0, <1>2, <2>3
      <3> QED BY <2>1, <3>1, <3>2
    <2> QED BY <2>2, <2>3
  <1>8. spare' \in [K!Jobs -> Int]
    BY <1>0, <1>2, <1>3
  <1>9. \A q \in Printers : K!Held(q)' \subseteq K!Held(q)
    BY <1>5 DEF K!Held
  <1> QED BY <1>6, <1>7, <1>8, <1>9, CopiesStay

LEMMA CopiesStep == ASSUME CopiesInv, [K!Next]_(K!vars) PROVE CopiesInv'
  <1>0. PrintShapes /\ PrintShapes'
    BY PrintStepTyped DEF CopiesInv
  <1>1. CASE UNCHANGED <<job, lease, fresh, spare, device>>
    BY <1>0, <1>1, NothingReserved
  <1>2. ASSUME NEW o \in Orders, K!Pay(o)
        PROVE  CopiesInv'
    <2>1. CASE UNCHANGED K!rows
      BY <1>1, <1>2, <2>1 DEF K!Pay, K!rows, K!paper, K!counts
    <2>2. CASE job[o] = "none" /\ \E time \in {"ahead", "due"} : K!Queue(o, time)
      BY <1>0, <1>2, <2>2, QueueReserves, JobsFacts DEF K!Pay, K!counts
    <2> QED BY <1>2, <2>1, <2>2 DEF K!Pay
  <1>3. ASSUME NEW o \in Orders, K!Reprint(o)
        PROVE  CopiesInv'
    BY <1>0, <1>3, QueueReserves, JobsFacts DEF K!Reprint
  <1>4. ASSUME NEW t \in Tests, K!TestPrint(t)
        PROVE  CopiesInv'
    BY <1>0, <1>4, QueueReserves, JobsFacts DEF K!TestPrint, K!counts
  <1>5. ASSUME NEW p \in Printers, K!FetchRefused(p) \/ K!ReportDelayed(p)
        PROVE  CopiesInv'
    <2>1. UNCHANGED <<job, lease, fresh, spare>>
      BY <1>5 DEF K!FetchRefused, K!ReportDelayed, K!rows, K!counts
    <2>2. device' = [device EXCEPT ![p] = K!Idle]
      BY <1>5 DEF K!FetchRefused, K!ReportDelayed
    <2>3. \A q \in Printers : device'[q].stage = "told" => device'[q] = device[q]
      BY <1>0, <2>2, IdleIsADevice DEF PrintShapes, DeviceShapes
    <2> QED BY <1>0, <2>1, <2>3, NothingReserved
  <1>6. ASSUME NEW p \in Printers, K!ReportArrives(p)
        PROVE  CopiesInv'
    <2>1. device[p].job \in K!Jobs
      BY <1>0, <1>6 DEF K!ReportArrives, K!Reporting, PrintShapes, DeviceShapes
    <2>2. \A q \in Printers : device'[q] = device[q] \/ device'[q] = K!Idle
      BY <1>0, <1>6 DEF K!ReportArrives, PrintShapes, DeviceShapes
    <2>3. K!Acknowledge(p, device[p].job, device[p].stage = "done")
      BY <1>6 DEF K!ReportArrives
    <2> QED BY <1>0, <2>1, <2>2, <2>3, AcknowledgeReserves
  <1>7. ASSUME NEW r \in late, K!LateReportArrives(r)
        PROVE  CopiesInv'
    <2>1. r.printer \in Printers /\ r.job \in K!Jobs /\ r.ok \in BOOLEAN
      BY <1>0 DEF PrintShapes, DeviceShapes, Reports
    <2>2. K!Acknowledge(r.printer, r.job, r.ok) /\ UNCHANGED device
      BY <1>7 DEF K!LateReportArrives
    <2> QED BY <1>0, <2>1, <2>2, AcknowledgeReserves
  <1>8. ASSUME NEW j \in K!Jobs, K!BecomesDue(j) \/ K!WindowCloses(j)
        PROVE  CopiesInv'
    BY <1>1, <1>8 DEF K!BecomesDue, K!WindowCloses, K!paper, K!counts
  <1>9. ASSUME NEW p \in Printers, K!RegisterPrinter(p) \/ K!RevokePrinter(p)
        PROVE  CopiesInv'
    BY <1>1, <1>9
       DEF K!RegisterPrinter, K!RevokePrinter, K!rows, K!paper, K!counts
  <1>10. ASSUME NEW o \in Orders, K!CloseOrder(o)
         PROVE  CopiesInv'
    BY <1>1, <1>10 DEF K!CloseOrder, K!rows, K!paper, K!counts
  <1>11. CASE K!SetFlag \/ UNCHANGED K!vars
    BY <1>1, <1>11 DEF K!SetFlag, K!vars, K!rows, K!paper, K!counts
  <1>12. ASSUME NEW r \in late, K!ReportLost(r)
         PROVE  CopiesInv'
    BY <1>1, <1>12 DEF K!ReportLost, K!rows, K!counts
  <1> QED
    BY <1>0, <1>2, <1>3, <1>4, <1>5, <1>6, <1>7, <1>8, <1>9, <1>10, <1>11,
       <1>12, PollAgainReserves, PollReserves, FetchReserves,
       LeaseRunsOutReserves, JobsFacts
       DEF K!Next, K!PrinterStep

\* Beyond the first, every ticket of an order that came out had its reason: a
\* reprint, a failed attempt, a lease claim_print_job found run out, or a poll
\* repeated before the report arrived.
THEOREM CopiesHaveReasons == K!Spec => []K!ExtraCopiesHaveReasons
  <1>1. ASSUME K!Init PROVE CopiesInv
    <2>1. \A p \in Printers : K!Held(p) = {}
      BY <1>1 DEF K!Init, K!Held
    <2>2. \A j \in K!Jobs : spare[j] = 1 /\ Reserved(j) = 1
      BY <1>1 DEF K!Init, Reserved
    <2>3. spare \in [K!Jobs -> Int]
      BY <1>1 DEF K!Init
    <2> QED BY <1>1, <2>1, <2>2, <2>3, PrintInitTyped DEF CopiesInv, HeldOnce
  <1>2. CopiesInv /\ [K!Next]_(K!vars) => CopiesInv'
    BY CopiesStep
  <1>3. ASSUME CopiesInv PROVE K!ExtraCopiesHaveReasons
    <2>1. \A j \in K!Jobs : spare[j] \in Int /\ spare[j] >= Reserved(j)
      BY <1>3 DEF CopiesInv
    <2> QED
      BY <2>1, ReservedIsNat
         DEF K!ExtraCopiesHaveReasons
  <1> QED BY <1>1, <1>2, <1>3, PTL DEF K!Spec

\* So the paper and print_jobs agree: what reads printed came out, and nothing
\* came out again without a reason (claim_print_job, complete_print_job).
THEOREM PaperAccountsForJobs == K!Spec => []PaperMatchesJobs
  <1>1. K!PrintedIsOnPaper /\ K!ExtraCopiesHaveReasons => PaperMatchesJobs
    BY DEF PaperMatchesJobs, K!PaperMatchesJobs
  <1> QED BY <1>1, PrintedTicketsAreOnPaper, CopiesHaveReasons, PTL

-----------------------------------------------------------------------------
(* The fleet.                                                              *)

Employers == Partners \cup {Own}

\* A change of employer starts or ends at the campus.
EmployersShape ==
    /\ employer \in [Riders -> Employers]
    /\ moving \subseteq Riders \X Employers \X Employers
    /\ \A move \in moving : Own \in {move[2], move[3]}
    /\ available \subseteq Riders

Assignments ==
    [state : {"none", "assigned", "accepted", "completed", "cancelled"},
     rider : Riders \cup {Nobody}, fleet : Employers]
Desks == [stage : {"free", "read", "locked"}, fleet : Employers,
          rider : Riders \cup {Nobody}]

BatchShapes ==
    /\ assignment \in [Batches -> Assignments]
    /\ picked \in [Batches -> Riders \cup {Nobody}]
    /\ desk \in [Batches -> Desks]
    /\ \A b \in Batches : desk[b].stage # "free" => desk[b].rider \in Riders

\* Off shift and without a delivery, a rider whose position is stored is
\* excused: more than the property says, as an end under way is no delivery.
PositionsExcused ==
    \A r \in shared :
        r \in available \/ F!Carries(r, Batches) \/ r \in excused

BatchInv == EmployersShape /\ BatchShapes /\ DecidedOnFacts

-----------------------------------------------------------------------------
(* Employers.                                                              *)

LEMMA MoveKeepsEmployers ==
    ASSUME EmployersShape, NEW move \in moving, F!MoveRider(move)
    PROVE  /\ EmployersShape'
           /\ \A r \in Riders :
                 employer'[r] # employer[r] =>
                     Own \in {employer[r], employer'[r]} /\ r \notin available'
  <1>1. /\ move[1] \in Riders /\ move[2] \in Employers /\ move[3] \in Employers
        /\ Own \in {move[2], move[3]}
    BY DEF EmployersShape
  <1>2. moving' = moving \ {move}
    BY DEF F!MoveRider
  <1>3. CASE UNCHANGED <<employer, available>>
    BY <1>2, <1>3 DEF EmployersShape
  <1>4. CASE /\ employer[move[1]] = move[2]
             /\ employer' = [employer EXCEPT ![move[1]] = move[3]]
             /\ available' = available \ {move[1]}
    BY <1>1, <1>2, <1>4 DEF EmployersShape
  <1> QED BY <1>3, <1>4 DEF F!MoveRider, F!SetRiderFleet

LEMMA BeginMoveKeepsEmployers ==
    ASSUME EmployersShape, NEW r \in Riders, NEW from \in Employers,
           NEW to \in Employers, Own \in {from, to}, F!BeginMove(<<r, from, to>>)
    PROVE  EmployersShape'
  BY DEF EmployersShape, F!BeginMove

LEMMA EmployersStep ==
    ASSUME EmployersShape, [F!Next]_(F!vars)
    PROVE  /\ EmployersShape'
           /\ \A r \in Riders :
                 employer'[r] # employer[r] =>
                     Own \in {employer[r], employer'[r]} /\ r \notin available'
  <1> DEFINE Goal ==
          /\ EmployersShape'
          /\ \A r \in Riders :
                employer'[r] # employer[r] =>
                    Own \in {employer[r], employer'[r]} /\ r \notin available'
  <1>1. CASE UNCHANGED <<employer, moving>> /\ available' \subseteq Riders
    BY <1>1 DEF EmployersShape
  <1>2. ASSUME NEW r \in Riders, NEW p \in Partners,
               F!JoinFleet(r, p) \/ F!AttachRider(r, p)
        PROVE  Goal
    <2>1. EmployersShape'
      BY <1>2, BeginMoveKeepsEmployers DEF F!JoinFleet, F!AttachRider, Employers
    <2> QED BY <1>2, <2>1 DEF F!JoinFleet, F!AttachRider, F!BeginMove
  <1>3. ASSUME NEW r \in Riders, F!LeaveFleet(r)
        PROVE  Goal
    <2>1. employer[r] \in Employers /\ Own \in Employers
      BY DEF EmployersShape, Employers
    <2>2. EmployersShape'
      BY <1>3, <2>1, BeginMoveKeepsEmployers DEF F!LeaveFleet
    <2> QED BY <1>3, <2>2 DEF F!LeaveFleet, F!BeginMove
  <1>4. CASE \E move \in moving : F!MoveRider(move)
    BY <1>4, MoveKeepsEmployers
  <1>5. ASSUME NEW p \in Partners,
               F!UpdatePartner(p) \/ F!MarkFleetRidersUnavailable(p)
        PROVE  Goal
    BY <1>1, <1>5
       DEF F!UpdatePartner, F!MarkFleetRidersUnavailable, EmployersShape
  <1>6. ASSUME NEW r \in Riders,
               \/ F!SetAvailability(r) \/ F!SetRiderStatus(r)
               \/ F!CheckFix(r) \/ F!StoreFix(r) \/ F!StopSharing(r)
        PROVE  Goal
    BY <1>1, <1>6 DEF F!SetAvailability, F!SetRiderStatus, F!CheckFix,
                      F!StoreFix, F!StopSharing, F!employers, EmployersShape
  <1>7. ASSUME NEW b \in Batches,
               \/ F!AutoPick(b) \/ F!AutoAssign(b) \/ F!FleetRead(b)
               \/ F!FleetCheck(b) \/ F!FleetAssign(b) \/ F!FleetDeadlocks(b)
               \/ F!AdminAssign(b) \/ F!Accept(b) \/ F!EndAssignment(b)
               \/ F!CommitEnd(b)
        PROVE  Goal
    <2>1. UNCHANGED <<F!employers, available>>
      BY <1>7 DEF F!AutoPick, F!AutoAssign, F!FleetRead, F!FleetCheck,
                  F!FleetAssign, F!FleetDeadlocks, F!AdminAssign, F!Accept,
                  F!EndAssignment, F!CommitEnd
    <2> QED BY <1>1, <2>1 DEF F!employers, EmployersShape
  <1>8. CASE UNCHANGED F!vars
    BY <1>1, <1>8 DEF F!vars, F!employers, EmployersShape
  <1> QED BY <1>2, <1>3, <1>4, <1>5, <1>6, <1>7, <1>8 DEF F!Next

\* However setRiderFleet, which checks the employer in the statement that
\* writes it, is overtaken by other moves, no rider goes from one partner to
\* another directly, and none takes a shift along.
THEOREM NobodyIsPoached == F!Spec => NoPoaching
  <1>1. F!Init => EmployersShape
    BY DEF F!Init, EmployersShape, Employers
  <1>2. EmployersShape /\ [F!Next]_(F!vars) => EmployersShape'
    BY EmployersStep
  <1>3. EmployersShape /\ [F!Next]_(F!vars) =>
            [\A r \in Riders :
                employer'[r] # employer[r] =>
                    Own \in {employer[r], employer'[r]} /\ r \notin available']_(F!vars)
    BY EmployersStep
  <1> QED BY <1>1, <1>2, <1>3, PTL DEF F!Spec, NoPoaching, F!NoPoaching

-----------------------------------------------------------------------------
(* Batches.                                                                *)

LEMMA AssignTyped ==
    ASSUME EmployersShape, BatchShapes, NEW b \in Batches,
           NEW r \in Riders \cup {Nobody}, F!Assign(b, r)
    PROVE  /\ assignment' \in [Batches -> Assignments]
           /\ \A a \in Batches \ {b} : assignment'[a] = assignment[a]
  <1> DEFINE home == IF r \in Riders THEN employer[r] ELSE Own
             new == [state |-> "assigned", rider |-> r, fleet |-> home]
  <1>1. home \in Employers
    BY DEF EmployersShape, Employers
  <1>2. new \in Assignments
    BY <1>1 DEF Assignments
  <1>3. assignment' = [assignment EXCEPT ![b] = new]
    BY DEF F!Assign
  <1> HIDE DEF new
  <1> QED BY <1>2, <1>3 DEF BatchShapes

\* What a locked decision rests on stays as it is.
LEMMA FactsStay ==
    ASSUME DecidedOnFacts,
           \A b \in Batches :
               desk'[b].stage = "locked" =>
                   /\ desk'[b] = desk[b] /\ assignment'[b] = assignment[b]
                   /\ employer'[desk[b].rider] = employer[desk[b].rider]
                   /\ desk[b].rider \in suspended' => desk[b].rider \in suspended
    PROVE  DecidedOnFacts'
  BY DEF DecidedOnFacts, F!DecidedOnFacts, F!MayTake

LEMMA AssignKeepsBatches ==
    ASSUME BatchInv, EmployersShape', NEW b \in Batches,
           NEW r \in Riders \cup {Nobody}, F!Assign(b, r),
           UNCHANGED <<employer, suspended>>,
           picked' \in [Batches -> Riders \cup {Nobody}],
           \/ UNCHANGED desk /\ desk[b].stage # "locked"
           \/ desk' = [desk EXCEPT ![b] = F!Free]
    PROVE  BatchInv'
  <1>1. /\ assignment' \in [Batches -> Assignments]
        /\ \A a \in Batches \ {b} : assignment'[a] = assignment[a]
    BY AssignTyped DEF BatchInv
  <1>2. F!Free \in Desks /\ F!Free.stage = "free"
    BY DEF F!Free, Desks, Employers
  <1>3. BatchShapes'
    BY <1>1, <1>2 DEF BatchInv, BatchShapes
  <1>4. \A a \in Batches : desk'[a].stage = "locked" => a # b /\ desk'[a] = desk[a]
    BY <1>2 DEF BatchInv, BatchShapes
  <1>5. DecidedOnFacts'
    BY <1>1, <1>4, FactsStay DEF BatchInv
  <1> QED BY <1>3, <1>5 DEF BatchInv

LEMMA MoveKeepsBatches ==
    ASSUME BatchInv, EmployersShape', NEW move \in moving, F!MoveRider(move)
    PROVE  BatchInv'
  <1>1. UNCHANGED <<suspended, assignment, picked, desk>>
    BY DEF F!MoveRider, F!dispatch
  <1>2. F!RiderUnlocked(move[1])
    BY DEF F!MoveRider
  <1>3. \A r \in Riders \ {move[1]} : employer'[r] = employer[r]
    BY DEF F!MoveRider, F!SetRiderFleet, BatchInv, EmployersShape
  <1>4. \A b \in Batches :
            desk[b].stage = "locked" =>
                desk[b].rider \in Riders /\ desk[b].rider # move[1]
    BY <1>2 DEF F!RiderUnlocked, BatchInv, BatchShapes
  <1>5. DecidedOnFacts'
    BY <1>1, <1>3, <1>4, FactsStay DEF BatchInv
  <1> QED BY <1>1, <1>5 DEF BatchInv, BatchShapes

LEMMA DeskKeepsBatches ==
    ASSUME BatchInv, EmployersShape', NEW b \in Batches,
           F!FleetRead(b) \/ F!FleetCheck(b) \/ F!FleetDeadlocks(b)
    PROVE  BatchInv'
  <1>0. F!Free \in Desks /\ F!Free.stage = "free"
    BY DEF F!Free, Desks, Employers
  <1>1. UNCHANGED <<employer, suspended, assignment, picked>>
    BY DEF F!FleetRead, F!FleetCheck, F!FleetDeadlocks, F!employers
  <1>2. PICK new \in Desks :
            /\ desk' = [desk EXCEPT ![b] = new]
            /\ new.stage # "free" => new.rider \in Riders
            /\ new.stage = "locked" => F!MayTake(b, new.fleet, new.rider)
    <2>1. CASE F!FleetRead(b)
      <3>1. PICK p \in Partners, r \in Riders :
                desk' = [desk EXCEPT ![b] =
                             [stage |-> "read", fleet |-> p, rider |-> r]]
        BY <2>1 DEF F!FleetRead
      <3>2. [stage |-> "read", fleet |-> p, rider |-> r] \in Desks
        BY DEF Desks, Employers
      <3> QED BY <3>1, <3>2
    <2>2. CASE F!FleetDeadlocks(b)
      BY <1>0, <2>2 DEF F!FleetDeadlocks
    <2>3. CASE F!FleetCheck(b)
      <3> DEFINE locked == [desk[b] EXCEPT !.stage = "locked"]
      <3>1. desk[b] \in Desks /\ desk[b].rider \in Riders
        BY <2>3 DEF F!FleetCheck, BatchInv, BatchShapes
      <3>2. /\ locked \in Desks /\ locked.rider = desk[b].rider
            /\ locked.fleet = desk[b].fleet
        BY <3>1 DEF Desks
      <3>3. \/ desk' = [desk EXCEPT ![b] = F!Free]
            \/ /\ desk' = [desk EXCEPT ![b] = locked]
               /\ F!MayTake(b, desk[b].fleet, desk[b].rider)
        BY <2>3 DEF F!FleetCheck
      <3> HIDE DEF locked
      <3> QED BY <1>0, <3>1, <3>2, <3>3
    <2> QED BY <2>1, <2>2, <2>3
  <1>3. BatchShapes'
    BY <1>1, <1>2 DEF BatchInv, BatchShapes
  <1>4. DecidedOnFacts'
    BY <1>1, <1>2
       DEF DecidedOnFacts, F!DecidedOnFacts, F!MayTake, BatchInv, BatchShapes
  <1> QED BY <1>3, <1>4 DEF BatchInv

LEMMA EndKeepsBatches ==
    ASSUME BatchInv, EmployersShape', NEW b \in Batches,
           F!Accept(b) \/ F!EndAssignment(b)
    PROVE  BatchInv'
  <1>1. PICK state \in {"accepted", "completed", "cancelled"} :
            assignment' = [assignment EXCEPT ![b].state = state]
    BY DEF F!Accept, F!EndAssignment
  <1>2. UNCHANGED <<employer, suspended, picked, desk>> /\ desk[b].stage # "locked"
    BY DEF F!Accept, F!EndAssignment, F!AssignmentUnlocked, F!employers
  <1>3. BatchShapes'
    BY <1>1, <1>2 DEF BatchInv, BatchShapes, Assignments
  <1>4. \A a \in Batches \ {b} : assignment'[a] = assignment[a]
    BY <1>1 DEF BatchInv, BatchShapes
  <1>5. DecidedOnFacts'
    BY <1>2, <1>4, FactsStay DEF BatchInv
  <1> QED BY <1>3, <1>5 DEF BatchInv

LEMMA BatchStep == ASSUME BatchInv, [F!Next]_(F!vars) PROVE BatchInv'
  <1>0. EmployersShape'
    BY EmployersStep DEF BatchInv
  <1>1. CASE UNCHANGED <<employer, suspended, assignment, picked, desk>>
    BY <1>0, <1>1, FactsStay DEF BatchInv, BatchShapes
  <1>2. ASSUME NEW b \in Batches, F!AutoPick(b)
        PROVE  BatchInv'
    <2>1. PICK r \in available \ suspended : picked' = [picked EXCEPT ![b] = r]
      BY <1>2 DEF F!AutoPick
    <2>2. r \in Riders
      BY <2>1 DEF BatchInv, EmployersShape
    <2>3. UNCHANGED <<employer, suspended, assignment, desk>>
      BY <1>2 DEF F!AutoPick, F!employers
    <2>4. BatchShapes'
      BY <2>1, <2>2, <2>3 DEF BatchInv, BatchShapes
    <2>5. DecidedOnFacts'
      BY <2>3, FactsStay DEF BatchInv
    <2> QED BY <1>0, <2>4, <2>5 DEF BatchInv
  <1>3. ASSUME NEW b \in Batches, F!AutoAssign(b)
        PROVE  BatchInv'
    <2>1. /\ picked[b] \in Riders \cup {Nobody}
          /\ picked' \in [Batches -> Riders \cup {Nobody}]
      BY <1>3 DEF F!AutoAssign, BatchInv, BatchShapes
    <2>2. UNCHANGED <<employer, suspended, desk>> /\ desk[b].stage # "locked"
      BY <1>3 DEF F!AutoAssign, F!AssignmentUnlocked, F!employers
    <2>3. CASE F!Assign(b, picked[b])
      BY <1>0, <2>1, <2>2, <2>3, AssignKeepsBatches
    <2>4. CASE UNCHANGED assignment
      <3>1. BatchShapes'
        BY <2>1, <2>2, <2>4 DEF BatchInv, BatchShapes
      <3>2. DecidedOnFacts'
        BY <2>2, <2>4, FactsStay DEF BatchInv
      <3> QED BY <1>0, <3>1, <3>2 DEF BatchInv
    <2> QED BY <1>3, <2>3, <2>4 DEF F!AutoAssign
  <1>4. ASSUME NEW b \in Batches, F!FleetAssign(b)
        PROVE  BatchInv'
    <2>1. desk[b].rider \in Riders
      BY <1>4 DEF F!FleetAssign, BatchInv, BatchShapes
    <2>2. /\ UNCHANGED <<employer, suspended, picked>>
          /\ desk' = [desk EXCEPT ![b] = F!Free] /\ F!Assign(b, desk[b].rider)
      BY <1>4 DEF F!FleetAssign, F!employers
    <2>3. picked' \in [Batches -> Riders \cup {Nobody}]
      BY <2>2 DEF BatchInv, BatchShapes
    <2> QED BY <1>0, <2>1, <2>2, <2>3, AssignKeepsBatches
  <1>5. ASSUME NEW b \in Batches, F!AdminAssign(b)
        PROVE  BatchInv'
    <2>1. PICK who \in Riders \cup {Nobody} : F!Assign(b, who)
      BY <1>5 DEF F!AdminAssign
    <2>2. UNCHANGED <<employer, suspended, picked, desk>> /\ desk[b].stage # "locked"
      BY <1>5 DEF F!AdminAssign, F!AssignmentUnlocked, F!employers
    <2>3. picked' \in [Batches -> Riders \cup {Nobody}]
      BY <2>2 DEF BatchInv, BatchShapes
    <2> QED BY <1>0, <2>1, <2>2, <2>3, AssignKeepsBatches
  <1>6. ASSUME NEW r \in Riders, F!SetRiderStatus(r)
        PROVE  BatchInv'
    <2>1. UNCHANGED <<employer, assignment, picked, desk>>
      BY <1>6 DEF F!SetRiderStatus, F!employers, F!dispatch
    <2>2. F!RiderUnlocked(r) /\ suspended' \subseteq suspended \cup {r}
      BY <1>6 DEF F!SetRiderStatus
    <2>3. DecidedOnFacts'
      BY <2>1, <2>2, FactsStay DEF F!RiderUnlocked, BatchInv
    <2> QED BY <1>0, <2>1, <2>3 DEF BatchInv, BatchShapes
  <1>7. ASSUME NEW p \in Partners,
               F!UpdatePartner(p) \/ F!MarkFleetRidersUnavailable(p)
        PROVE  BatchInv'
    BY <1>1, <1>7 DEF F!UpdatePartner, F!MarkFleetRidersUnavailable, F!dispatch
  <1>8. ASSUME NEW r \in Riders,
               \/ \E p \in Partners : F!JoinFleet(r, p) \/ F!AttachRider(r, p)
               \/ F!LeaveFleet(r)
        PROVE  BatchInv'
    BY <1>1, <1>8
       DEF F!JoinFleet, F!AttachRider, F!LeaveFleet, F!BeginMove, F!dispatch
  <1>9. ASSUME NEW r \in Riders,
               \/ F!SetAvailability(r) \/ F!CheckFix(r) \/ F!StoreFix(r)
               \/ F!StopSharing(r)
        PROVE  BatchInv'
    BY <1>1, <1>9 DEF F!SetAvailability, F!CheckFix, F!StoreFix, F!StopSharing,
                      F!employers, F!dispatch
  <1>10. CASE (\E b \in Batches : F!CommitEnd(b)) \/ UNCHANGED F!vars
    BY <1>1, <1>10 DEF F!CommitEnd, F!vars, F!employers, F!dispatch
  <1> QED
    BY <1>2, <1>3, <1>4, <1>5, <1>6, <1>7, <1>8, <1>9, <1>10, MoveKeepsBatches,
       DeskKeepsBatches, EndKeepsBatches, <1>0
       DEF F!Next

LEMMA FleetInitTyped == ASSUME F!Init PROVE BatchInv
  <1>1. F!NoAssignment \in Assignments /\ F!Free \in Desks
    BY DEF F!NoAssignment, F!Free, Assignments, Desks, Employers
  <1> QED
    BY <1>1
       DEF F!Init, F!Free, BatchInv, EmployersShape, Employers, BatchShapes,
           DecidedOnFacts, F!DecidedOnFacts

\* What fleet_assign_batch allowed an assignment on, under its row locks, is
\* still so when the assignment is written, whatever the dispatcher, the
\* administrators and the riders do in between.
THEOREM AssignmentsDecidedOnFacts == F!Spec => []DecidedOnFacts
  <1>1. F!Init => BatchInv
    BY FleetInitTyped
  <1>2. BatchInv /\ [F!Next]_(F!vars) => BatchInv'
    BY BatchStep
  <1>3. BatchInv => DecidedOnFacts
    BY DEF BatchInv
  <1> QED BY <1>1, <1>2, <1>3, PTL DEF F!Spec

-----------------------------------------------------------------------------
(* Positions.                                                              *)

ExcuseInv == BatchInv /\ PositionsExcused

\* Positions that are stored after a step belong to riders on shift, carrying
\* or excused.
LEMMA ClearOffDutyExcuses ==
    ASSUME PositionsExcused, NEW gone, F!ClearOffDuty(gone),
           UNCHANGED assignment, available \subseteq available' \cup gone
    PROVE  PositionsExcused'
  <1> DEFINE cleared == {r \in gone : ~F!Delivering(r)}
  <1>1. /\ shared' = shared \ cleared
        /\ excused' = (excused \ cleared) \cup
              {r \in (gone \cap shared) \ cleared : ~F!Carries(r, Batches)}
    BY DEF F!ClearOffDuty
  <1>2. cleared \subseteq gone
    OBVIOUS
  <1>3. \A r : F!Carries(r, Batches)' <=> F!Carries(r, Batches)
    BY DEF F!Carries
  <1> HIDE DEF cleared
  <1> QED BY <1>1, <1>2, <1>3 DEF PositionsExcused

LEMMA AssignExcuses ==
    ASSUME ExcuseInv, NEW b \in Batches, NEW r, F!Assign(b, r),
           UNCHANGED available
    PROVE  PositionsExcused'
  <1> DEFINE old == assignment[b].rider
  <1>1. /\ assignment'[b].rider = r /\ assignment'[b].state = "assigned"
        /\ \A a \in Batches \ {b} : assignment'[a] = assignment[a]
    BY DEF F!Assign, ExcuseInv, BatchInv, BatchShapes
  <1>2. UNCHANGED shared
    BY DEF F!Assign
  <1>3. /\ excused \subseteq excused'
        /\ old \in shared \ (available \cup {r}) /\ F!Carries(old, {b})
           /\ ~F!Carries(old, Batches \ {b}) => old \in excused'
    BY DEF F!Assign
  <1>4. ASSUME NEW x \in shared, x \notin available, ~F!Carries(x, Batches)'
        PROVE  x \in excused'
    <2>1. CASE ~F!Carries(x, Batches)
      BY <1>3, <1>4, <2>1 DEF ExcuseInv, PositionsExcused
    <2>2. CASE F!Carries(x, Batches)
      <3>1. x # r
        BY <1>1, <1>4 DEF F!Carries
      <3>2. ~F!Carries(x, Batches \ {b})
        BY <1>1, <1>4 DEF F!Carries
      <3>3. F!Carries(x, {b}) /\ x = old
        BY <2>2, <3>2 DEF F!Carries
      <3> QED BY <1>3, <1>4, <3>1, <3>2, <3>3
    <2> QED BY <2>1, <2>2
  <1> QED BY <1>2, <1>4 DEF PositionsExcused

LEMMA EndExcuses ==
    ASSUME ExcuseInv, NEW b \in Batches, F!EndAssignment(b)
    PROVE  PositionsExcused'
  <1> DEFINE old == assignment[b].rider
  <1>1. /\ \A a \in Batches \ {b} : assignment'[a] = assignment[a]
        /\ UNCHANGED available
    BY DEF F!EndAssignment, ExcuseInv, BatchInv, BatchShapes
  <1>2. F!ClearAfter(b, old)
    BY DEF F!EndAssignment
  <1>3. PICK cleared \in {{}, {old}} :
            /\ shared' = shared \ cleared
            /\ excused' = (excused \ cleared) \cup
                 ({old} \cap IF F!Carries(old, Batches \ {b}) THEN {}
                             ELSE shared \ (available \cup cleared))
    BY <1>2 DEF F!ClearAfter
  <1>4. ASSUME NEW x \in shared', x \notin available, ~F!Carries(x, Batches)'
        PROVE  x \in excused'
    <2>1. ~F!Carries(x, Batches \ {b})
      BY <1>1, <1>4 DEF F!Carries
    <2>2. CASE x = old
      BY <1>3, <1>4, <2>1, <2>2
    <2>3. CASE x # old
      <3>1. ~F!Carries(x, Batches)
        BY <2>1, <2>3 DEF F!Carries
      <3> QED BY <1>3, <1>4, <2>3, <3>1 DEF ExcuseInv, PositionsExcused
    <2> QED BY <2>2, <2>3
  <1> QED BY <1>1, <1>4 DEF PositionsExcused

LEMMA ExcuseStep == ASSUME ExcuseInv, [F!Next]_(F!vars) PROVE ExcuseInv'
  <1>0. BatchInv'
    BY BatchStep DEF ExcuseInv
  <1>1. CASE UNCHANGED <<assignment, available, shared, excused>>
    BY <1>0, <1>1 DEF ExcuseInv, PositionsExcused, F!Carries
  <1>2. ASSUME NEW p \in Partners, F!MarkFleetRidersUnavailable(p)
        PROVE  ExcuseInv'
    <2>1. PICK off : available' = available \ off /\ F!ClearOffDuty(off)
      BY <1>2 DEF F!MarkFleetRidersUnavailable
    <2>2. UNCHANGED assignment
      BY <1>2 DEF F!MarkFleetRidersUnavailable, F!dispatch
    <2> QED BY <1>0, <2>1, <2>2, ClearOffDutyExcuses DEF ExcuseInv
  <1>3. ASSUME NEW move \in moving, F!MoveRider(move)
        PROVE  ExcuseInv'
    <2>1. UNCHANGED assignment
      BY <1>3 DEF F!MoveRider, F!dispatch
    <2>2. CASE UNCHANGED <<available, F!positions>>
      BY <1>1, <2>1, <2>2 DEF F!positions
    <2>3. CASE available' = available \ {move[1]} /\ F!ClearOffDuty({move[1]})
      BY <1>0, <2>1, <2>3, ClearOffDutyExcuses DEF ExcuseInv
    <2> QED BY <1>3, <2>2, <2>3 DEF F!MoveRider, F!SetRiderFleet
  <1>4. ASSUME NEW r \in Riders, F!SetAvailability(r)
        PROVE  ExcuseInv'
    <2>1. UNCHANGED assignment
      BY <1>4 DEF F!SetAvailability, F!dispatch
    <2>2. CASE available \subseteq available' /\ UNCHANGED F!positions
      BY <1>0, <2>1, <2>2
         DEF ExcuseInv, PositionsExcused, F!Carries, F!positions
    <2>3. CASE available' = available \ {r} /\ F!ClearOffDuty({r})
      BY <1>0, <2>1, <2>3, ClearOffDutyExcuses DEF ExcuseInv
    <2> QED BY <1>4, <2>2, <2>3 DEF F!SetAvailability
  <1>5. ASSUME NEW r \in Riders, F!SetRiderStatus(r)
        PROVE  ExcuseInv'
    <2>1. UNCHANGED <<assignment, available>> /\ F!ClearOffDuty({r} \ available)
      BY <1>5 DEF F!SetRiderStatus, F!dispatch
    <2> QED BY <1>0, <2>1, ClearOffDutyExcuses DEF ExcuseInv
  <1>6. ASSUME NEW b \in Batches,
               F!AutoAssign(b) \/ F!FleetAssign(b) \/ F!AdminAssign(b)
        PROVE  ExcuseInv'
    <2>1. UNCHANGED available
      BY <1>6 DEF F!AutoAssign, F!FleetAssign, F!AdminAssign
    <2>2. CASE \E r : F!Assign(b, r)
      BY <1>0, <2>1, <2>2, AssignExcuses DEF ExcuseInv
    <2>3. CASE UNCHANGED <<assignment, F!positions>>
      BY <1>1, <2>1, <2>3 DEF F!positions
    <2> QED BY <1>6, <2>2, <2>3 DEF F!AutoAssign, F!FleetAssign, F!AdminAssign
  <1>7. ASSUME NEW b \in Batches, F!Accept(b)
        PROVE  ExcuseInv'
    <2>1. /\ assignment[b].state = "assigned"
          /\ assignment' = [assignment EXCEPT ![b].state = "accepted"]
          /\ UNCHANGED <<available, shared, excused>>
      BY <1>7 DEF F!Accept, F!positions
    <2>2. \A a \in Batches :
              /\ assignment'[a].rider = assignment[a].rider
              /\ assignment[a].state \in {"assigned", "accepted"} =>
                     assignment'[a].state \in {"assigned", "accepted"}
      BY <2>1 DEF ExcuseInv, BatchInv, BatchShapes, Assignments
    <2> QED BY <1>0, <2>1, <2>2 DEF ExcuseInv, PositionsExcused, F!Carries
  <1>8. ASSUME NEW r \in Riders, F!StoreFix(r) \/ F!StopSharing(r)
        PROVE  ExcuseInv'
    <2>1. UNCHANGED <<available, assignment>>
      BY <1>8 DEF F!StoreFix, F!StopSharing, F!dispatch
    <2>2. \A x : F!Carries(x, Batches)' <=> F!Carries(x, Batches)
      BY <2>1 DEF F!Carries
    <2>3. PositionsExcused'
      BY <1>8, <2>1, <2>2
         DEF F!StoreFix, F!StopSharing, ExcuseInv, PositionsExcused
    <2> QED BY <1>0, <2>3 DEF ExcuseInv
  <1>9. CASE \E b \in Batches : F!EndAssignment(b)
    BY <1>0, <1>9, EndExcuses DEF ExcuseInv
  <1>10. ASSUME NEW b \in Batches,
                \/ F!AutoPick(b) \/ F!FleetRead(b) \/ F!FleetCheck(b)
                \/ F!FleetDeadlocks(b) \/ F!CommitEnd(b)
         PROVE  ExcuseInv'
    BY <1>1, <1>10 DEF F!AutoPick, F!FleetRead, F!FleetCheck, F!FleetDeadlocks,
                       F!CommitEnd, F!positions
  <1>11. ASSUME NEW p \in Partners,
                \/ F!UpdatePartner(p)
                \/ \E r \in Riders : F!JoinFleet(r, p) \/ F!AttachRider(r, p)
         PROVE  ExcuseInv'
    BY <1>1, <1>11 DEF F!UpdatePartner, F!JoinFleet, F!AttachRider, F!BeginMove,
                       F!dispatch, F!positions
  <1>12. ASSUME NEW r \in Riders, F!LeaveFleet(r) \/ F!CheckFix(r)
         PROVE  ExcuseInv'
    BY <1>1, <1>12
       DEF F!LeaveFleet, F!CheckFix, F!BeginMove, F!dispatch, F!positions
  <1>13. CASE UNCHANGED F!vars
    BY <1>1, <1>13 DEF F!vars, F!dispatch, F!positions
  <1> QED
    BY <1>2, <1>3, <1>4, <1>5, <1>6, <1>7, <1>8, <1>9, <1>10, <1>11, <1>12,
       <1>13
       DEF F!Next

\* The two triggers that delete positions leave one stored for a rider off
\* duty only by a fix that came late, a batch given to someone else, or a shift
\* that ended while the last delivery was ending.
THEOREM PositionsHaveReasons == F!Spec => []OffDutyPositionsHaveReasons
  <1>1. ASSUME F!Init PROVE ExcuseInv
    BY <1>1, FleetInitTyped DEF F!Init, ExcuseInv, PositionsExcused
  <1>2. ExcuseInv /\ [F!Next]_(F!vars) => ExcuseInv'
    BY ExcuseStep
  <1>3. ExcuseInv => OffDutyPositionsHaveReasons
    BY DEF ExcuseInv, PositionsExcused, OffDutyPositionsHaveReasons,
           F!OffDutyPositionsHaveReasons, F!OffDuty, F!Delivering
  <1> QED BY <1>1, <1>2, <1>3, PTL DEF F!Spec

-----------------------------------------------------------------------------
(* Pictures.                                                               *)

Keys == Images \cup {None}

\* A call that began carries keys that were confirmed.
CallTrue(call) ==
    call.stage # "idle" => /\ call.key \in confirmed
                           /\ call.previous \in confirmed \cup {None}

CallShapes ==
    /\ confirming \in [Confirms ->
           [stage : {"idle", "there", "read", "shown"},
            key : Keys, previous : Keys]]
    /\ confirmed \subseteq Images
    /\ shown \in confirmed \cup {None}
    /\ \A c \in Confirms : CallTrue(confirming[c])

\* The picture k was not shown yet, and no call could have found it.
Unshown(k) ==
    /\ k \in stored /\ shown # k
    /\ \A d \in Confirms :
          confirming[d].stage # "idle" => confirming[d].previous # k

\* Of a key that is confirmed once there is one call, and until it shows the
\* picture nobody knows of it.
FreshCall(c) ==
    confirming[c].stage # "idle" /\ confirming[c].key \notin Again =>
        /\ \A d \in Confirms \ {c} :
              confirming[d].stage # "idle" => confirming[d].key # confirming[c].key
        /\ confirming[c].stage # "shown" => Unshown(confirming[c].key)
FreshKeys == \A c \in Confirms : FreshCall(c)

\* The picture shown is stored, and no call is about to remove it.
ShownIsSafe ==
    shown \notin Again \cup {None} =>
        /\ shown \in stored
        /\ \A c \in Confirms :
              LET call == confirming[c] IN
              call.stage = "shown" /\ call.previous = shown => call.key = shown

PictureInv == CallShapes /\ FreshKeys /\ ShownIsSafe

LEMMA UploadKeepsPictures ==
    ASSUME PictureInv, NEW k \in Images, C!Upload(k)
    PROVE  PictureInv'
  BY DEF C!Upload, PictureInv, CallShapes, CallTrue, FreshKeys, FreshCall,
         Unshown, ShownIsSafe

LEMMA ConfirmKeepsPictures ==
    ASSUME PictureInv, NEW c \in Confirms, NEW k \in Images, C!ConfirmUpload(c, k)
    PROVE  PictureInv'
  <1> DEFINE new == [stage |-> "there", key |-> k, previous |-> None]
  <1>1. /\ confirming' = [confirming EXCEPT ![c] = new]
        /\ confirmed' = confirmed \cup {k}
        /\ UNCHANGED <<stored, shown>>
        /\ confirming[c].stage = "idle"
        /\ k \in stored /\ (k \notin confirmed \/ k \in Again)
    BY DEF C!ConfirmUpload
  <1>2. /\ new \in [stage : {"idle", "there", "read", "shown"},
                    key : Keys, previous : Keys]
        /\ new.stage = "there" /\ new.key = k /\ new.previous = None
    BY DEF Keys
  <1> HIDE DEF new
  <1>3. \A d \in Confirms :
            confirming'[d] = IF d = c THEN new ELSE confirming[d]
    BY <1>1 DEF PictureInv, CallShapes
  <1>4. CallShapes'
    BY <1>1, <1>2 DEF PictureInv, CallShapes, CallTrue
  <1>5. k \notin Again => Unshown(k)
    BY <1>1, PicturesAssumption DEF PictureInv, CallShapes, CallTrue, Unshown
  <1>6. \A q : Unshown(q) /\ q \in Images => Unshown(q)'
    BY <1>1, <1>2, <1>3, PicturesAssumption DEF Unshown
  <1>7. FreshCall(c)'
    <2>1. \A d \in Confirms \ {c} :
              confirming[d].stage # "idle" => confirming[d].key \in confirmed
      BY DEF PictureInv, CallShapes, CallTrue
    <2> QED BY <1>1, <1>2, <1>3, <1>5, <1>6, <2>1 DEF FreshCall
  <1>8. ASSUME NEW d \in Confirms \ {c} PROVE FreshCall(d)'
    <2>1. FreshCall(d) /\ confirming'[d] = confirming[d]
      BY <1>3 DEF PictureInv, FreshKeys
    <2>2. confirming[d].stage # "idle" => confirming[d].key \in confirmed
      BY DEF PictureInv, CallShapes, CallTrue
    <2>3. confirmed \subseteq Images
      BY DEF PictureInv, CallShapes
    <2> QED BY <1>1, <1>2, <1>3, <1>6, <2>1, <2>2, <2>3 DEF FreshCall
  <1>9. ShownIsSafe'
    BY <1>1, <1>2, <1>3 DEF PictureInv, ShownIsSafe
  <1> QED BY <1>4, <1>7, <1>8, <1>9 DEF PictureInv, FreshKeys

LEMMA FindKeepsPictures ==
    ASSUME PictureInv, NEW c \in Confirms, C!FindPrevious(c)
    PROVE  PictureInv'
  <1>0. confirming[c].stage = "there" /\ UNCHANGED <<stored, shown, confirmed>>
    BY DEF C!FindPrevious
  <1>1. \A d \in Confirms \ {c} : confirming'[d] = confirming[d]
    BY DEF C!FindPrevious, PictureInv, CallShapes
  <1>2. /\ confirming'[c].stage = "read" /\ confirming'[c].previous = shown
        /\ confirming'[c].key = confirming[c].key
    BY DEF C!FindPrevious, PictureInv, CallShapes
  <1>3. CallShapes'
    <2>1. shown \in Keys
      BY DEF PictureInv, CallShapes, Keys
    <2>2. confirming' \in [Confirms -> [stage : {"idle", "there", "read", "shown"},
                                        key : Keys, previous : Keys]]
      BY <2>1 DEF C!FindPrevious, PictureInv, CallShapes
    <2> QED BY <1>0, <1>1, <1>2, <2>2 DEF PictureInv, CallShapes, CallTrue
  <1>4. \A q : Unshown(q) => Unshown(q)'
    BY <1>0, <1>1, <1>2 DEF Unshown
  <1>5. FreshKeys'
    BY <1>0, <1>1, <1>2, <1>4 DEF PictureInv, FreshKeys, FreshCall
  <1>6. ShownIsSafe'
    BY <1>0, <1>1, <1>2 DEF PictureInv, ShownIsSafe
  <1> QED BY <1>3, <1>5, <1>6 DEF PictureInv

LEMMA ShowKeepsPictures ==
    ASSUME PictureInv, NEW c \in Confirms, C!ShowImage(c)
    PROVE  PictureInv'
  <1> DEFINE k == confirming[c].key
  <1>0. /\ confirming[c].stage = "read" /\ shown' = k
        /\ UNCHANGED <<stored, confirmed>>
    BY DEF C!ShowImage
  <1>1. \A d \in Confirms \ {c} : confirming'[d] = confirming[d]
    BY DEF C!ShowImage, PictureInv, CallShapes
  <1>2. /\ confirming'[c].stage = "shown"
        /\ confirming'[c].previous = confirming[c].previous
        /\ confirming'[c].key = k
    BY DEF C!ShowImage, PictureInv, CallShapes
  <1>3. CallShapes'
    <2>1. confirming' \in [Confirms -> [stage : {"idle", "there", "read", "shown"},
                                        key : Keys, previous : Keys]]
      BY DEF C!ShowImage, PictureInv, CallShapes
    <2>2. k \in confirmed
      BY <1>0 DEF PictureInv, CallShapes, CallTrue
    <2> QED BY <1>0, <1>1, <1>2, <2>1, <2>2 DEF PictureInv, CallShapes, CallTrue
  <1>4. k \notin Again => Unshown(k)
    BY <1>0 DEF PictureInv, FreshKeys, FreshCall
  <1>5. \A q : Unshown(q) /\ q # k => Unshown(q)'
    BY <1>0, <1>1, <1>2 DEF Unshown
  <1>6. FreshKeys'
    BY <1>0, <1>1, <1>2, <1>5 DEF PictureInv, FreshKeys, FreshCall
  <1>7. ShownIsSafe'
    BY <1>0, <1>1, <1>2, <1>4 DEF ShownIsSafe, Unshown
  <1> QED BY <1>3, <1>6, <1>7 DEF PictureInv

LEMMA RemoveKeepsPictures ==
    ASSUME PictureInv, NEW c \in Confirms, C!RemovePrevious(c)
    PROVE  PictureInv'
  <1> DEFINE k == confirming[c].key
             gone == {confirming[c].previous} \ {k}
  <1>0. /\ confirming[c].stage = "shown"
        /\ confirming' = [confirming EXCEPT ![c] = C!Nothing]
        /\ stored' \in {stored, stored \ gone}
        /\ UNCHANGED <<shown, confirmed>>
    BY DEF C!RemovePrevious
  <1>1. /\ C!Nothing \in [stage : {"idle", "there", "read", "shown"},
                          key : Keys, previous : Keys]
        /\ C!Nothing.stage = "idle"
    BY DEF C!Nothing, Keys
  <1>2. \A d \in Confirms :
            confirming'[d] = IF d = c THEN C!Nothing ELSE confirming[d]
    BY <1>0 DEF PictureInv, CallShapes
  <1>3. CallShapes'
    BY <1>0, <1>1 DEF PictureInv, CallShapes, CallTrue
  <1>4. \A q : Unshown(q) => Unshown(q)'
    BY <1>0, <1>1, <1>2 DEF Unshown
  <1>5. FreshKeys'
    BY <1>0, <1>1, <1>2, <1>4 DEF PictureInv, FreshKeys, FreshCall
  <1>6. ShownIsSafe'
    BY <1>0, <1>1, <1>2 DEF PictureInv, ShownIsSafe
  <1> QED BY <1>3, <1>5, <1>6 DEF PictureInv

LEMMA PictureStepKeeps == ASSUME PictureInv, [C!Next]_(C!vars) PROVE PictureInv'
  <1>1. CASE UNCHANGED C!images
    BY <1>1
       DEF C!images, PictureInv, CallShapes, CallTrue, FreshKeys, FreshCall,
           Unshown, ShownIsSafe
  <1>2. CASE C!PictureStep
    BY <1>2, UploadKeepsPictures, ConfirmKeepsPictures, FindKeepsPictures,
       ShowKeepsPictures, RemoveKeepsPictures DEF C!PictureStep
  <1>3. CASE C!HoursStep
    BY <1>1, <1>3
       DEF C!HoursStep, C!BeginReplace, C!CommitReplace, C!ReplaceRefused,
           C!RegenerateHorizon, C!ReplaceDies, C!SetMenuItemActive, C!NightlyHorizon
  <1> QED BY <1>1, <1>2, <1>3 DEF C!Next, C!vars

\* The picture that confirmMenuItemImage (or confirmLogo) shows has its object
\* in the bucket, however confirmations overlap and whichever removes its
\* predecessor last, except one that was confirmed again.
THEOREM ShownImagesAreStored == C!Spec => []ShownImageIsStored
  <1>1. ASSUME C!Init PROVE PictureInv
    <2>1. C!Nothing.stage = "idle"
      BY DEF C!Nothing
    <2> QED
      BY <1>1, <2>1
         DEF C!Init, C!Nothing, Keys, PictureInv, CallShapes, CallTrue,
             FreshKeys, FreshCall, ShownIsSafe
  <1>2. PictureInv /\ [C!Next]_(C!vars) => PictureInv'
    BY PictureStepKeeps
  <1>3. PictureInv => ShownImageIsStored
    BY DEF PictureInv, ShownIsSafe, ShownImageIsStored, C!ShownImageIsStored
  <1> QED BY <1>1, <1>2, <1>3, PTL DEF C!Spec

-----------------------------------------------------------------------------
(* Schedules and stock rows.                                               *)

EditsShape ==
    edit \in [Edits -> [stage : {"unsent", "deleted", "committed", "over"},
                        owner : C!Owners \cup {None}, slots : SUBSET Slots,
                        seen : [Slots -> Edits \cup {None}]]]
SchedulesShape == schedule \in [C!Owners -> [Slots -> Edits \cup {None}]]

StockInv == EditsShape /\ SchedulesShape /\ MissingStockHasReasons

LEMMA StockStep == ASSUME StockInv, [C!Next]_(C!vars) PROVE StockInv'
  <1>1. CASE UNCHANGED C!hours
    BY <1>1 DEF C!hours, StockInv, EditsShape, SchedulesShape,
                MissingStockHasReasons, C!MissingStockHasReasons, C!Wanted
  <1>2. ASSUME NEW e \in Edits, C!BeginReplace(e)
        PROVE  StockInv'
    <2>1. PICK owner \in C!Owners, slots \in SUBSET Slots :
              edit' = [edit EXCEPT ![e] = [stage |-> "deleted", owner |-> owner,
                                           slots |-> slots,
                                           seen |-> schedule[owner]]]
      BY <1>2 DEF C!BeginReplace
    <2>2. edit[e].stage = "unsent" /\ UNCHANGED <<schedule, active, stock, overdue>>
      BY <1>2 DEF C!BeginReplace
    <2>3. schedule[owner] \in [Slots -> Edits \cup {None}]
      BY DEF StockInv, SchedulesShape
    <2>4. EditsShape'
      BY <2>1, <2>3 DEF StockInv, EditsShape
    <2>5. \A d \in Edits : edit[d].stage = "committed" => edit'[d] = edit[d]
      BY <2>1, <2>2 DEF StockInv, EditsShape
    <2> QED
      BY <2>2, <2>4, <2>5 DEF StockInv, SchedulesShape, MissingStockHasReasons,
                              C!MissingStockHasReasons, C!Wanted
  <1>3. ASSUME NEW e \in Edits, C!CommitReplace(e)
        PROVE  StockInv'
    <2>1. edit' = [edit EXCEPT ![e].stage = "committed"]
      BY <1>3 DEF C!CommitReplace
    <2>2. EditsShape' /\ edit'[e].stage = "committed"
      BY <2>1 DEF StockInv, EditsShape
    <2>3. SchedulesShape'
      <3>1. PICK owner \in C!Owners \cup {None} :
                schedule' = [schedule EXCEPT ![owner] =
                    [s \in Slots |-> IF s \in edit[e].slots THEN e
                                     ELSE IF s \in C!Left(e) THEN @[s] ELSE None]]
        BY <1>3 DEF C!CommitReplace, StockInv, EditsShape
      <3> QED BY <3>1 DEF StockInv, SchedulesShape
    <2> QED
      BY <2>2, <2>3
         DEF StockInv, MissingStockHasReasons, C!MissingStockHasReasons
  <1>4. ASSUME NEW e \in Edits, C!ReplaceRefused(e)
        PROVE  StockInv'
    <2>1. /\ edit[e].stage = "deleted" /\ edit' = [edit EXCEPT ![e].stage = "over"]
          /\ UNCHANGED <<schedule, active, stock, overdue>>
      BY <1>4 DEF C!ReplaceRefused
    <2>2. EditsShape'
      BY <2>1 DEF StockInv, EditsShape
    <2>3. \A d \in Edits : edit[d].stage = "committed" => edit'[d] = edit[d]
      BY <2>1 DEF StockInv, EditsShape
    <2> QED
      BY <2>1, <2>2, <2>3 DEF StockInv, SchedulesShape, MissingStockHasReasons,
                              C!MissingStockHasReasons, C!Wanted
  <1>5. ASSUME NEW e \in Edits, C!RegenerateHorizon(e) \/ C!ReplaceDies(e)
        PROVE  StockInv'
    <2>1. /\ edit' = [edit EXCEPT ![e].stage = "over"]
          /\ UNCHANGED <<schedule, active>>
          /\ C!Wanted \subseteq stock' \cup overdue'
      BY <1>5 DEF C!RegenerateHorizon, C!ReplaceDies
    <2>2. EditsShape'
      BY <2>1 DEF StockInv, EditsShape
    <2> QED
      BY <2>1, <2>2 DEF StockInv, SchedulesShape, MissingStockHasReasons,
                        C!MissingStockHasReasons, C!Wanted
  <1>6. ASSUME NEW i \in Items, C!SetMenuItemActive(i)
        PROVE  StockInv'
    <2>1. C!Wanted' \subseteq stock' \cup overdue' /\ UNCHANGED <<schedule, edit>>
      BY <1>6 DEF C!SetMenuItemActive
    <2> QED
      BY <2>1 DEF StockInv, EditsShape, SchedulesShape, MissingStockHasReasons,
                  C!MissingStockHasReasons
  <1>7. CASE C!NightlyHorizon
    <2>1. C!Wanted \subseteq stock' /\ UNCHANGED <<schedule, edit, active>>
      BY <1>7 DEF C!NightlyHorizon
    <2> QED
      BY <2>1 DEF StockInv, EditsShape, SchedulesShape, MissingStockHasReasons,
                  C!MissingStockHasReasons, C!Wanted
  <1>8. CASE C!PictureStep
    BY <1>1, <1>8 DEF C!PictureStep, C!Upload, C!ConfirmUpload, C!FindPrevious,
                      C!ShowImage, C!RemovePrevious
  <1>9. CASE UNCHANGED C!vars
    BY <1>1, <1>9 DEF C!vars
  <1> QED
    BY <1>2, <1>3, <1>4, <1>5, <1>6, <1>7, <1>8, <1>9 DEF C!Next, C!HoursStep

\* After regenerateInventoryHorizon or the nightly job, a stock row that the
\* schedules call for is missing only while a committed replacement has yet to
\* generate it, because one died there, or for an item put on the menu since.
THEOREM MissingRowsHaveReasons == C!Spec => []MissingStockHasReasons
  <1>1. ASSUME C!Init PROVE StockInv
    <2>1. C!Wanted = {}
      BY <1>1 DEF C!Init, C!Wanted
    <2> QED
      BY <1>1, <2>1 DEF C!Init, C!Unsent, StockInv, EditsShape, SchedulesShape,
                        MissingStockHasReasons, C!MissingStockHasReasons
  <1>2. StockInv /\ [C!Next]_(C!vars) => StockInv'
    BY StockStep
  <1>3. StockInv => MissingStockHasReasons
    BY DEF StockInv
  <1> QED BY <1>1, <1>2, <1>3, PTL DEF C!Spec

-----------------------------------------------------------------------------
(* Fees.                                                                   *)

Fields == DOMAIN P!Seeds
Edited == [key : Fields, value : Nat]
Bill == [phase : {"quoted", "placed"}, basket : Baskets, zone : Nat,
         quote : Int, fee : Nat, total : Int, raised : BOOLEAN,
         underpaid : BOOLEAN]

FeeShapes ==
    /\ setting \in [Fields -> Nat] /\ zoneFee \in Nat /\ contested \in BOOLEAN
    /\ editing \in [Editors -> Edited \cup {NoEdit}]
    /\ bill \in [Orders -> Bill \cup {NoOrder}]

LEMMA FieldsAre ==
    Fields = {"base", "surcharge", "riderOntime", "riderLate", "vendorOntime",
              "pointRider"}
  BY DEF Fields, P!Seeds

LEMMA SeedsAreNat == P!Seeds \in [Fields -> Nat]
  BY FieldsAre DEF P!Seeds

-----------------------------------------------------------------------------
(* Arithmetic.                                                             *)

\* A share of a larger amount is no smaller.
LEMMA ShareGrows ==
    ASSUME NEW x \in Nat, NEW y \in Nat, NEW bps \in Nat, x <= y
    PROVE  /\ P!BasisPoints(x, bps) \in Nat
           /\ P!BasisPoints(x, bps) <= P!BasisPoints(y, bps)
  <1>1. PICK d \in Nat : y = x + d
    <2>1. y - x \in Nat /\ y = x + (y - x)
      OBVIOUS
    <2> QED BY <2>1
  <1>2. x * bps \in Nat /\ y * bps \in Nat /\ d * bps \in Nat
    OBVIOUS
  <1>3. y * bps = x * bps + d * bps
    BY <1>1
  <1> DEFINE m == x * bps
             n == y * bps
  <1>4. m \in Nat /\ n \in Nat /\ m <= n
    BY <1>2, <1>3
  <1> HIDE DEF m, n
  <1>5. /\ (m + 5000) \div 10000 \in Nat
        /\ (m + 5000) \div 10000 <= (n + 5000) \div 10000
    BY <1>4
  <1> QED BY <1>5 DEF P!BasisPoints, m, n

LEMMA SurchargeGrows ==
    ASSUME NEW x \in Nat, NEW y \in Nat, x <= y
    PROVE  P!Surcharge(x) \in Nat /\ P!Surcharge(x) <= P!Surcharge(y)
  <1>1. SurchargeBps \in Nat /\ SurchargeFlat \in Nat
    BY PricesAssumption DEF P!FeesAssumption
  <1>2. /\ P!BasisPoints(x, SurchargeBps) \in Nat
        /\ P!BasisPoints(x, SurchargeBps) <= P!BasisPoints(y, SurchargeBps)
    BY <1>1, ShareGrows
  <1>3. P!BasisPoints(y, SurchargeBps) \in Nat
    <2>1. y <= y
      OBVIOUS
    <2> QED BY <1>1, <2>1, ShareGrows
  <1> QED BY <1>1, <1>2, <1>3 DEF P!Surcharge

\* Paystack's fee is a whole number between nothing and its cap.
LEMMA FeeBounds ==
    ASSUME NEW charge \in Nat
    PROVE  /\ P!PaystackFee(charge) \in Nat
           /\ P!PaystackFee(charge) <= 200000
           /\ 1000 * P!PaystackFee(charge) <=
                 charge * 15 + 500 + (IF charge < 250000 THEN 0 ELSE 10000000)
  BY DEF P!PaystackFee, P!Least, P!FeeCap, P!FlatFee, P!FlatFeeWaivedBelow

\* A charge above the waiver pays the flat part.
LEMMA RestCovers ==
    ASSUME NEW credit \in Nat, NEW flat \in Nat, NEW rest \in Nat, NEW fee \in Nat,
           3 * (credit + flat) <= 197 * rest,
           1000 * fee <= (credit + flat + rest + 1) * 15 + 500 + 1000 * flat
    PROVE  credit + flat + rest + 1 - fee >= credit
  OBVIOUS

\* The charge of a top-up covers the fee on it, but in the band of the waiver.
LEMMA ChargeCovers ==
    ASSUME NEW credit \in Nat
    PROVE  P!Net(P!TopupCharge(credit)) >= credit \/ P!PaysFlatUnasked(credit)
  <1> DEFINE flat == IF credit < 250000 THEN 0 ELSE 10000
             charge == P!TopupCharge(credit)
             fee == P!PaystackFee(charge)
  <1>0. flat \in Nat /\ P!Net(charge) = charge - fee
    BY DEF P!Net
  <1>1. CASE credit * 15 + flat * 1000 > 200000 * 1000
    <2>1. charge = credit + 200000
      BY <1>1 DEF P!TopupCharge, P!FlatFee, P!FlatFeeWaivedBelow, P!FeeCap
    <2>2. charge \in Nat
      BY <2>1
    <2>3. fee \in Nat /\ fee <= 200000
      BY <2>2, FeeBounds
    <2> HIDE DEF fee, charge
    <2>4. charge - fee >= credit
      BY <2>1, <2>3
    <2> QED BY <1>0, <2>4 DEF charge
  <1>2. CASE ~(credit * 15 + flat * 1000 > 200000 * 1000)
    <2> DEFINE whole == credit + flat
               rest == (3 * whole + 196) \div 197
    <2>1. charge = credit + flat + rest + 1
      BY <1>2 DEF P!TopupCharge, P!FlatFee, P!FlatFeeWaivedBelow, P!FeeCap
    <2>2. \A n \in Nat : /\ (3 * n + 196) \div 197 \in Nat
                         /\ 3 * n <= 197 * ((3 * n + 196) \div 197)
      OBVIOUS
    <2>3. rest \in Nat /\ 3 * whole <= 197 * rest
      BY <1>0, <2>2
    <2>4. charge \in Nat
      BY <1>0, <2>1, <2>3
    <2>5. fee \in Nat /\ 1000 * fee <= charge * 15 + 500
                               + (IF charge < 250000 THEN 0 ELSE 10000000)
      BY <2>4, FeeBounds
    <2>6. charge >= 250000 => flat = 10000 \/ P!PaysFlatUnasked(credit)
      BY DEF P!PaysFlatUnasked, P!FlatFeeWaivedBelow
    <2> HIDE DEF fee, charge, rest, flat
    <2>7. 1000 * fee <= charge * 15 + 500 + 1000 * flat \/ P!PaysFlatUnasked(credit)
      BY <1>0, <2>4, <2>5, <2>6
    <2>8. charge - fee >= credit \/ P!PaysFlatUnasked(credit)
      BY <1>0, <2>1, <2>3, <2>5, <2>7, RestCovers
    <2> QED BY <1>0, <2>8 DEF charge
  <1> QED BY <1>1, <1>2

-----------------------------------------------------------------------------
(* Shapes.                                                                 *)

LEMMA FeesInitTyped == ASSUME P!Init PROVE FeeShapes
  BY SeedsAreNat DEF P!Init, FeeShapes, P!DefaultZoneFee

LEMMA ChoicesTyped ==
    ASSUME NEW choice \in Choices
    PROVE  choice[1] \in Fields /\ choice[2] \in Nat
  BY PricesAssumption DEF P!FeesAssumption, Fields

\* The edit is written over the settings as they are by then.
LEMMA UpsertTyped ==
    ASSUME FeeShapes, NEW a \in Editors, P!UpsertSetting(a)
    PROVE  /\ editing[a] \in Edited
           /\ setting' = [setting EXCEPT ![editing[a].key] = editing[a].value]
           /\ setting' \in [Fields -> Nat]
  BY DEF FeeShapes, P!UpsertSetting, Edited

\* A note changes nothing of an order but the mark.
LEMMA NotingTyped ==
    ASSUME FeeShapes, NEW after, bill' = P!Noting(after), NEW o \in Orders
    PROVE  /\ bill'[o] \in Bill \cup {NoOrder}
           /\ bill[o] = NoOrder => bill'[o] = NoOrder
           /\ bill[o] # NoOrder =>
                 /\ bill[o] \in Bill /\ DOMAIN bill'[o] = DOMAIN bill[o]
                 /\ \A f \in DOMAIN bill[o] \ {"raised"} : bill'[o][f] = bill[o][f]
                 /\ bill[o].raised => bill'[o].raised
                 /\ (\E k \in {"riderOntime", "vendorOntime", "pointRider"} :
                         after[k] > setting[k]) => bill'[o].raised
  <1> DEFINE dearer == \E k \in {"riderOntime", "vendorOntime", "pointRider"} :
                           after[k] > setting[k]
             noted(mark) == [bill[o] EXCEPT !.raised = mark]
  <1>1. bill[o] \in Bill \cup {NoOrder}
    BY DEF FeeShapes
  <1>2. \A mark \in BOOLEAN :
            bill[o] \in Bill =>
                /\ noted(mark) \in Bill /\ DOMAIN noted(mark) = DOMAIN bill[o]
                /\ noted(mark).raised = mark
                /\ \A f \in DOMAIN bill[o] \ {"raised"} : noted(mark)[f] = bill[o][f]
    BY DEF Bill
  <1>3. (bill[o].raised \/ dearer) \in BOOLEAN
    OBVIOUS
  <1>4. bill'[o] = IF bill[o] = NoOrder THEN NoOrder
                   ELSE noted(bill[o].raised \/ dearer)
    BY DEF P!Noting
  <1> HIDE DEF noted, dearer
  <1>5. CASE bill[o] = NoOrder
    BY <1>4, <1>5
  <1>6. CASE bill[o] # NoOrder
    <2>1. bill[o] \in Bill /\ bill'[o] = noted(bill[o].raised \/ dearer)
      BY <1>1, <1>4, <1>6
    <2>2. bill'[o].raised = (bill[o].raised \/ dearer)
      BY <1>2, <1>3, <2>1
    <2>3. /\ bill'[o] \in Bill /\ DOMAIN bill'[o] = DOMAIN bill[o]
          /\ \A f \in DOMAIN bill[o] \ {"raised"} : bill'[o][f] = bill[o][f]
      BY <1>2, <1>3, <2>1
    <2> QED BY <1>6, <2>1, <2>2, <2>3 DEF dearer
  <1> QED BY <1>5, <1>6

LEMMA BasketsTyped ==
    ASSUME NEW b \in Baskets
    PROVE  /\ b.food \in Nat /\ b.service \in Nat /\ b.discount \in Nat
           /\ b.point \in BOOLEAN /\ b.accepted \in BOOLEAN /\ b.wallet \in BOOLEAN
  BY PricesAssumption DEF P!FeesAssumption

\* What a customer pays for an amount: more, if it is above the cap.
Charge(b, amount) ==
    IF ~b.wallet /\ amount > Cap THEN amount + P!Surcharge(amount) ELSE amount
GrossAt(b, zone) == b.food + zone + b.service
NetAt(b, fee) == b.food + fee + b.service - P!Discount(b)

LEMMA ChargeIsNat ==
    ASSUME NEW b, NEW amount \in Nat
    PROVE  Charge(b, amount) \in Nat
  <1>1. P!Surcharge(amount) \in Nat
    <2>1. amount <= amount
      OBVIOUS
    <2> QED BY <2>1, SurchargeGrows
  <1> QED BY <1>1 DEF Charge

LEMMA AmountsAreNat ==
    ASSUME NEW b \in Baskets, NEW fee \in Nat
    PROVE  /\ GrossAt(b, fee) \in Nat /\ NetAt(b, fee) \in Nat
           /\ P!Discount(b) \in Nat /\ P!Discount(b) <= b.discount
           /\ NetAt(b, fee) = GrossAt(b, fee) - P!Discount(b)
  BY BasketsTyped DEF GrossAt, NetAt, P!Discount

\* A quote as the function's own formula.
LEMMA QuoteIsCharge ==
    ASSUME FeeShapes, NEW b \in Baskets
    PROVE  P!Quoted(b) = Charge(b, GrossAt(b, zoneFee))
  BY DEF P!Quoted, P!Gross, Charge, GrossAt

LEMMA DeliveryFeeIsNat ==
    ASSUME FeeShapes, NEW b \in Baskets
    PROVE  P!DeliveryFee(b) \in Nat
  <1>1. setting.surcharge \in Nat
    BY FieldsAre DEF FeeShapes
  <1> QED BY <1>1 DEF P!DeliveryFee, FeeShapes

\* The order as Quote writes it.
LEMMA QuoteWrites ==
    ASSUME FeeShapes, NEW o \in Orders, NEW b \in Baskets, P!Quote(o, b)
    PROVE  \E r \in Bill :
              /\ bill' = [bill EXCEPT ![o] = r]
              /\ r.phase = "quoted" /\ r.basket = b /\ r.zone = zoneFee
              /\ r.quote = Charge(b, GrossAt(b, zoneFee))
  <1> DEFINE r == [phase |-> "quoted", basket |-> b, zone |-> zoneFee,
                   quote |-> P!Quoted(b), fee |-> 0, total |-> 0,
                   raised |-> FALSE, underpaid |-> FALSE]
  <1>1. zoneFee \in Nat
    BY DEF FeeShapes
  <1>2. P!Quoted(b) \in Int
    BY <1>1, QuoteIsCharge, AmountsAreNat, ChargeIsNat
  <1>3. r \in Bill
    BY <1>1, <1>2 DEF Bill
  <1>4. bill' = [bill EXCEPT ![o] = r]
    BY DEF P!Quote
  <1> QED BY <1>3, <1>4, QuoteIsCharge

\* ... and as Place does.
LEMMA PlaceWrites ==
    ASSUME FeeShapes, NEW o \in Orders, P!Place(o)
    PROVE  /\ bill[o] \in Bill
           /\ \E r \in Bill :
                /\ bill' = [bill EXCEPT ![o] = r]
                /\ r.phase = "placed" /\ r.basket = bill[o].basket
                /\ r.zone = bill[o].zone /\ r.quote = bill[o].quote
                /\ r.fee = P!DeliveryFee(r.basket)
                /\ r.total = Charge(r.basket, NetAt(r.basket, r.fee))
                /\ ~r.underpaid => ~contested /\ zoneFee >= setting.base
  <1> DEFINE b == bill[o].basket
             net == P!NetTotal(b)
             total == net + (IF P!OverCap(b) THEN P!Surcharge(net) ELSE 0)
             r(mark) == [bill[o] EXCEPT !.phase = "placed",
                                        !.fee = P!DeliveryFee(b),
                                        !.total = total, !.raised = FALSE,
                                        !.underpaid = mark]
             cheap == contested \/ zoneFee < setting.base
  <1>1. bill[o] \in Bill
    BY DEF P!Place, FeeShapes
  <1>2. b \in Baskets
    BY <1>1 DEF Bill
  <1>3. P!DeliveryFee(b) \in Nat
    BY <1>2, DeliveryFeeIsNat
  <1>4. net = NetAt(b, P!DeliveryFee(b)) /\ net \in Nat
    BY <1>2, <1>3, AmountsAreNat DEF P!NetTotal, NetAt
  <1>5. total = Charge(b, net)
    BY <1>4 DEF Charge, P!OverCap
  <1>6. total \in Int
    BY <1>4, <1>5, ChargeIsNat
  <1>7. cheap \in BOOLEAN
    BY DEF FeeShapes
  <1>8. bill' = [bill EXCEPT ![o] = r(cheap)]
    BY DEF P!Place
  <1> HIDE DEF total, net, b, cheap
  <1>9. \A mark \in BOOLEAN :
            /\ r(mark) \in Bill /\ r(mark).phase = "placed"
            /\ r(mark).basket = bill[o].basket
            /\ r(mark).zone = bill[o].zone /\ r(mark).quote = bill[o].quote
            /\ r(mark).fee = P!DeliveryFee(b) /\ r(mark).total = total
            /\ r(mark).underpaid = mark
    BY <1>1, <1>3, <1>6 DEF Bill
  <1> HIDE DEF r
  <1>10. ~cheap => ~contested /\ zoneFee >= setting.base
    <2>1. zoneFee \in Nat /\ setting.base \in Nat
      BY FieldsAre DEF FeeShapes
    <2> QED BY <2>1 DEF cheap
  <1> QED BY <1>1, <1>4, <1>5, <1>7, <1>8, <1>9, <1>10 DEF b

LEMMA FeesStepTyped == ASSUME FeeShapes, [P!Next]_(P!vars) PROVE FeeShapes'
  <1>1. ASSUME NEW a \in Editors, NEW choice \in Choices,
               P!ReadSettings(a, choice[1], choice[2])
        PROVE  FeeShapes'
    <2>1. [key |-> choice[1], value |-> choice[2]] \in Edited
      BY ChoicesTyped DEF Edited
    <2> QED BY <1>1, <2>1 DEF P!ReadSettings, FeeShapes
  <1>2. ASSUME NEW a \in Editors, P!UpsertSetting(a)
        PROVE  FeeShapes'
    <2>1. setting' \in [Fields -> Nat]
      BY <1>2, UpsertTyped
    <2>2. /\ editing' = [editing EXCEPT ![a] = NoEdit]
          /\ UNCHANGED zoneFee /\ bill' = P!Noting(setting')
          /\ contested' \in BOOLEAN
      BY <1>2 DEF P!UpsertSetting, FeeShapes
    <2>3. \A o \in Orders : bill'[o] \in Bill \cup {NoOrder}
      BY <2>2, NotingTyped
    <2>4. bill' = [o \in Orders |-> bill'[o]]
      BY <2>2 DEF P!Noting
    <2> QED BY <2>1, <2>2, <2>3, <2>4 DEF FeeShapes
  <1>3. ASSUME NEW fee \in ZoneFees, P!UpdateZone(fee)
        PROVE  FeeShapes'
    BY <1>3, PricesAssumption DEF P!UpdateZone, P!FeesAssumption, FeeShapes
  <1>4. ASSUME NEW o \in Orders, NEW b \in Baskets, P!Quote(o, b)
        PROVE  FeeShapes'
    <2>1. PICK r \in Bill : bill' = [bill EXCEPT ![o] = r]
      BY <1>4, QuoteWrites
    <2>2. UNCHANGED P!fees
      BY <1>4 DEF P!Quote
    <2> QED BY <2>1, <2>2 DEF P!fees, FeeShapes
  <1>5. ASSUME NEW o \in Orders, P!Place(o)
        PROVE  FeeShapes'
    <2>1. PICK r \in Bill : bill' = [bill EXCEPT ![o] = r]
      BY <1>5, PlaceWrites
    <2>2. UNCHANGED P!fees
      BY <1>5 DEF P!Place
    <2> QED BY <2>1, <2>2 DEF P!fees, FeeShapes
  <1>6. ASSUME NEW o \in Orders, P!PlaceRefused(o) \/ P!Deliver(o)
        PROVE  FeeShapes'
    BY <1>6 DEF P!PlaceRefused, P!Deliver, P!fees, FeeShapes
  <1>7. CASE UNCHANGED P!vars
    BY <1>7 DEF P!vars, FeeShapes
  <1> QED BY <1>1, <1>2, <1>3, <1>4, <1>5, <1>6, <1>7 DEF P!Next

-----------------------------------------------------------------------------
(* Residuals.                                                              *)

Edit(a) == [setting EXCEPT ![editing[a].key] = editing[a].value]

\* An edit nobody overtook is still valid beside the settings.
EditsChecked ==
    \A a \in Editors :
        editing[a] # NoEdit /\ a \notin stale =>
            P!FeeConfigValid(Edit(a), editing[a].key)

\* What a timely delivery pays out.
TimelyShares(s, b) ==
    s.riderOntime + s.vendorOntime + (IF b.point THEN s.pointRider ELSE 0)

\* The fee of an order placed under valid settings, in a zone that pays the
\* base, covers the shares until one of them is raised.
SharesCovered ==
    \A o \in Orders :
        bill[o] # NoOrder /\ bill[o].phase = "placed" =>
            \/ bill[o].underpaid \/ bill[o].raised
            \/ TimelyShares(setting, bill[o].basket) <= bill[o].fee

ResidualInv ==
    FeeShapes /\ P!SettingsStayValid /\ EditsChecked /\ SharesCovered

LEMMA ReadKeepsResiduals ==
    ASSUME ResidualInv, FeeShapes', NEW a \in Editors, NEW k \in Fields,
           NEW v \in Nat, P!ReadSettings(a, k, v)
    PROVE  ResidualInv'
  <1>1. /\ P!FeeConfigValid([setting EXCEPT ![k] = v], k)
        /\ editing' = [editing EXCEPT ![a] = [key |-> k, value |-> v]]
        /\ stale' = stale \ {a}
        /\ UNCHANGED <<setting, contested, bill>>
    BY DEF P!ReadSettings
  <1>2. /\ editing'[a].key = k /\ editing'[a].value = v
        /\ \A b \in Editors \ {a} : editing'[b] = editing[b]
    BY <1>1 DEF ResidualInv, FeeShapes
  <1>3. P!FeeConfigValid(Edit(a)', editing'[a].key)
    BY <1>1, <1>2 DEF Edit
  <1>4. \A b \in Editors \ {a} : Edit(b)' = Edit(b)
    BY <1>1, <1>2 DEF Edit
  <1>5. EditsChecked'
    <2> SUFFICES ASSUME NEW b \in Editors, editing'[b] # NoEdit, b \notin stale'
                 PROVE  P!FeeConfigValid(Edit(b)', editing'[b].key)
      BY DEF EditsChecked, P!FeeConfigValid, P!PaysBase, P!PaysPoint,
             P!ResidualKeys
    <2>1. CASE b = a
      BY <1>3, <2>1
    <2>2. CASE b # a
      BY <1>1, <1>2, <1>4, <2>2 DEF ResidualInv, EditsChecked
    <2> QED BY <2>1, <2>2
  <1>6. P!SettingsStayValid' /\ SharesCovered'
    BY <1>1 DEF ResidualInv, P!SettingsStayValid, P!PaysBase, P!PaysPoint,
                SharesCovered, TimelyShares
  <1> QED BY <1>5, <1>6 DEF ResidualInv

LEMMA UpsertKeepsResiduals ==
    ASSUME ResidualInv, FeeShapes', NEW a \in Editors, P!UpsertSetting(a)
    PROVE  ResidualInv'
  <1> DEFINE k == editing[a].key
             v == editing[a].value
  <1>1. /\ k \in Fields /\ v \in Nat /\ setting' = Edit(a)
        /\ setting \in [Fields -> Nat] /\ setting' \in [Fields -> Nat]
        /\ editing[a] # NoEdit
    BY UpsertTyped DEF ResidualInv, Edit, Edited, P!UpsertSetting, FeeShapes
  <1>2. \A f \in Fields \ {k} : setting'[f] = setting[f]
    BY <1>1 DEF Edit
  <1>3. /\ editing' = [editing EXCEPT ![a] = NoEdit]
        /\ stale' = (stale \ {a}) \cup {b \in Editors \ {a} : editing[b] # NoEdit}
        /\ contested' = (a \in stale \/ (contested /\ k \notin P!ResidualKeys))
        /\ bill' = P!Noting(setting')
    BY DEF P!UpsertSetting
  <1>4. P!SettingsStayValid'
    <2>1. CASE a \in stale
      <3>1. contested'
        BY <1>3, <2>1
      <3> QED BY <3>1 DEF P!SettingsStayValid
    <2>2. CASE a \notin stale /\ k \in P!ResidualKeys
      <3>1. P!FeeConfigValid(Edit(a), k)
        BY <1>1, <2>2 DEF ResidualInv, EditsChecked
      <3> QED BY <1>1, <2>2, <3>1 DEF P!FeeConfigValid, P!SettingsStayValid
    <2>3. CASE a \notin stale /\ k \notin P!ResidualKeys
      <3>1. contested' <=> contested
        BY <1>3, <2>3
      <3>2. \A f \in {"base", "surcharge", "riderOntime", "vendorOntime", "pointRider"} :
                setting'[f] = setting[f]
        BY <1>2, <2>3, FieldsAre DEF P!ResidualKeys
      <3> QED
        BY <3>1, <3>2
           DEF ResidualInv, P!SettingsStayValid, P!PaysBase, P!PaysPoint
    <2> QED BY <2>1, <2>2, <2>3
  <1>5. EditsChecked'
    <2> SUFFICES ASSUME NEW b \in Editors, editing'[b] # NoEdit
                 PROVE  b \in stale'
      BY DEF EditsChecked
    <2>1. b # a /\ editing'[b] = editing[b]
      BY <1>3 DEF ResidualInv, FeeShapes
    <2> QED BY <1>3, <2>1
  <1>6. SharesCovered'
    <2> SUFFICES ASSUME NEW o \in Orders, bill'[o] # NoOrder,
                        bill'[o].phase = "placed", ~bill'[o].underpaid,
                        ~bill'[o].raised
                 PROVE  TimelyShares(setting', bill'[o].basket) <= bill'[o].fee
      BY DEF SharesCovered
    <2>1. /\ bill[o] # NoOrder /\ bill[o] \in Bill
          /\ \A f \in DOMAIN bill[o] \ {"raised"} : bill'[o][f] = bill[o][f]
          /\ ~bill[o].raised
          /\ ~\E f \in {"riderOntime", "vendorOntime", "pointRider"} :
                 setting'[f] > setting[f]
      BY <1>3, NotingTyped DEF ResidualInv
    <2>2. /\ bill'[o].phase = bill[o].phase /\ bill'[o].underpaid = bill[o].underpaid
          /\ bill'[o].basket = bill[o].basket /\ bill'[o].fee = bill[o].fee
      BY <2>1 DEF Bill
    <2>3. TimelyShares(setting, bill[o].basket) <= bill[o].fee
      BY <2>1, <2>2 DEF ResidualInv, SharesCovered
    <2>4. /\ setting'.riderOntime <= setting.riderOntime
          /\ setting'.vendorOntime <= setting.vendorOntime
          /\ setting'.pointRider <= setting.pointRider
          /\ setting.riderOntime \in Nat /\ setting'.riderOntime \in Nat
          /\ setting.vendorOntime \in Nat /\ setting'.vendorOntime \in Nat
          /\ setting.pointRider \in Nat /\ setting'.pointRider \in Nat
      BY <1>1, <2>1, FieldsAre
    <2>5. bill[o].fee \in Nat
      BY <2>1 DEF Bill
    <2> QED BY <2>2, <2>3, <2>4, <2>5 DEF TimelyShares
  <1> QED BY <1>4, <1>5, <1>6 DEF ResidualInv

LEMMA PlaceKeepsResiduals ==
    ASSUME ResidualInv, FeeShapes', NEW o \in Orders, P!Place(o)
    PROVE  ResidualInv'
  <1>1. UNCHANGED <<setting, editing, stale, contested>>
    BY DEF P!Place, P!fees
  <1>2. PICK r \in Bill :
            /\ bill' = [bill EXCEPT ![o] = r]
            /\ r.fee = P!DeliveryFee(r.basket)
            /\ ~r.underpaid => ~contested /\ zoneFee >= setting.base
    BY PlaceWrites DEF ResidualInv
  <1>3. r.underpaid \/ TimelyShares(setting, r.basket) <= r.fee
    <2>1. /\ setting.base \in Nat /\ setting.surcharge \in Nat
          /\ setting.riderOntime \in Nat /\ setting.vendorOntime \in Nat
          /\ setting.pointRider \in Nat /\ zoneFee \in Nat
      BY FieldsAre DEF ResidualInv, FeeShapes
    <2>2. ~r.underpaid => P!PaysBase(setting) /\ P!PaysPoint(setting)
      BY <1>2 DEF ResidualInv, P!SettingsStayValid
    <2> QED
      BY <1>2, <2>1, <2>2
         DEF P!PaysBase, P!PaysPoint, TimelyShares, P!DeliveryFee
  <1>4. SharesCovered'
    <2> SUFFICES ASSUME NEW i \in Orders, bill'[i] # NoOrder,
                        bill'[i].phase = "placed"
                 PROVE  \/ bill'[i].underpaid \/ bill'[i].raised
                        \/ TimelyShares(setting', bill'[i].basket) <= bill'[i].fee
      BY DEF SharesCovered
    <2>1. CASE i = o
      BY <1>1, <1>2, <1>3, <2>1 DEF ResidualInv, FeeShapes
    <2>2. CASE i # o
      BY <1>1, <1>2, <2>2 DEF ResidualInv, FeeShapes, SharesCovered
    <2> QED BY <2>1, <2>2
  <1>5. P!SettingsStayValid' /\ EditsChecked'
    BY <1>1 DEF ResidualInv, P!SettingsStayValid, P!PaysBase, P!PaysPoint,
                EditsChecked, Edit, P!FeeConfigValid, P!ResidualKeys
  <1> QED BY <1>4, <1>5 DEF ResidualInv

LEMMA ResidualStep == ASSUME ResidualInv, [P!Next]_(P!vars) PROVE ResidualInv'
  <1>0. FeeShapes'
    BY FeesStepTyped DEF ResidualInv
  <1>1. ASSUME NEW a \in Editors, NEW choice \in Choices,
               P!ReadSettings(a, choice[1], choice[2])
        PROVE  ResidualInv'
    BY <1>0, <1>1, ChoicesTyped, ReadKeepsResiduals
  <1>2. ASSUME UNCHANGED <<setting, editing, stale, contested>>,
               \A o \in Orders :
                   \/ bill'[o] = bill[o] \/ bill'[o] = NoOrder
                   \/ bill'[o].phase = "quoted"
        PROVE  ResidualInv'
    <2>1. P!SettingsStayValid' /\ EditsChecked'
      BY <1>2 DEF ResidualInv, P!SettingsStayValid, P!PaysBase, P!PaysPoint,
                  EditsChecked, Edit, P!FeeConfigValid, P!ResidualKeys
    <2>2. SharesCovered'
      BY <1>2 DEF ResidualInv, SharesCovered, TimelyShares
    <2> QED BY <1>0, <2>1, <2>2 DEF ResidualInv
  <1>3. ASSUME NEW fee \in ZoneFees, P!UpdateZone(fee)
        PROVE  ResidualInv'
    BY <1>2, <1>3 DEF P!UpdateZone
  <1>4. ASSUME NEW o \in Orders, NEW b \in Baskets, P!Quote(o, b)
        PROVE  ResidualInv'
    <2>1. PICK r : bill' = [bill EXCEPT ![o] = r] /\ r.phase = "quoted"
      BY <1>4, QuoteWrites DEF ResidualInv
    <2>2. UNCHANGED <<setting, editing, stale, contested>>
      BY <1>4 DEF P!Quote, P!fees
    <2> QED BY <1>2, <2>1, <2>2 DEF ResidualInv, FeeShapes
  <1>5. ASSUME NEW o \in Orders, P!PlaceRefused(o) \/ P!Deliver(o)
        PROVE  ResidualInv'
    <2>1. bill' = [bill EXCEPT ![o] = NoOrder]
      BY <1>5 DEF P!PlaceRefused, P!Deliver
    <2>2. UNCHANGED <<setting, editing, stale, contested>>
      BY <1>5 DEF P!PlaceRefused, P!Deliver, P!fees
    <2> QED BY <1>2, <2>1, <2>2 DEF ResidualInv, FeeShapes
  <1>6. CASE UNCHANGED P!vars
    BY <1>2, <1>6 DEF P!vars
  <1> QED
    BY <1>0, <1>1, <1>3, <1>4, <1>5, <1>6, UpsertKeepsResiduals,
       PlaceKeepsResiduals DEF P!Next

\* assertFeeConfigValid keeps the fee settings payable unless two of its checks
\* overlapped, and resolve_order_delivery_shares fails for want of a fee only
\* for an order that was underpaid or whose shares were raised since, under
\* contested settings, or where a late rider earns more than a timely one.
THEOREM ResidualsHaveCauses == P!Spec => []ResidualsHaveReasons
  <1>1. ASSUME P!Init PROVE ResidualInv
    <2>1. P!PaysBase(P!Seeds) /\ P!PaysPoint(P!Seeds)
      BY DEF P!Seeds, P!PaysBase, P!PaysPoint
    <2>2. P!SettingsStayValid
      BY <1>1, <2>1 DEF P!Init, P!SettingsStayValid
    <2>3. EditsChecked /\ SharesCovered
      BY <1>1 DEF P!Init, EditsChecked, SharesCovered
    <2> QED BY <1>1, <2>2, <2>3, FeesInitTyped DEF ResidualInv
  <1>2. ResidualInv /\ [P!Next]_(P!vars) => ResidualInv'
    BY ResidualStep
  <1>3. ASSUME ResidualInv PROVE ResidualsHaveReasons
    <2> SUFFICES ASSUME NEW o \in Orders, bill[o] # NoOrder,
                        bill[o].phase = "placed", P!CanBlock(o),
                        ~bill[o].underpaid, ~bill[o].raised,
                        ~(setting.riderLate > setting.riderOntime)
                 PROVE  FALSE
      BY <1>3 DEF ResidualInv, ResidualsHaveReasons, P!ResidualsHaveReasons,
                  P!BlockedHasReasons
    <2>1. PICK ready, onTime \in BOOLEAN : ~P!Resolves(o, ready, onTime)
      BY DEF P!CanBlock
    <2>2. TimelyShares(setting, bill[o].basket) <= bill[o].fee /\ bill[o].fee \in Nat
      BY <1>3 DEF ResidualInv, SharesCovered, FeeShapes, Bill
    <2>3. /\ setting.riderOntime \in Nat /\ setting.vendorOntime \in Nat
          /\ setting.pointRider \in Nat /\ setting.riderLate \in Nat
      BY <1>3, FieldsAre DEF ResidualInv, FeeShapes
    <2>4. P!PaidOut(bill[o].basket, ready, onTime) <= TimelyShares(setting, bill[o].basket)
      BY <2>3
         DEF P!PaidOut, P!LegShare, P!PointShare, P!CookingShare, TimelyShares
    <2>5. P!PaidOut(bill[o].basket, ready, onTime) \in Nat
          /\ TimelyShares(setting, bill[o].basket) \in Nat
      BY <2>3
         DEF P!PaidOut, P!LegShare, P!PointShare, P!CookingShare, TimelyShares
    <2> QED BY <2>1, <2>2, <2>4, <2>5 DEF P!Resolves
  <1> QED BY <1>1, <1>2, <1>3, PTL DEF P!Spec

-----------------------------------------------------------------------------
(* Prices.                                                                 *)

\* An order carries the quote of its zone's fee, and is charged the same
\* formula of its own fee, less the discount.
Priced(r) ==
    /\ r.quote = Charge(r.basket, GrossAt(r.basket, r.zone))
    /\ r.phase = "placed" =>
          /\ r.total = Charge(r.basket, NetAt(r.basket, r.fee))

PriceInv ==
    /\ FeeShapes
    /\ \A o \in Orders : bill[o] # NoOrder => Priced(bill[o])

\* A note prices nothing anew.
LEMMA NotingKeepsPrice ==
    ASSUME FeeShapes, NEW after, bill' = P!Noting(after), NEW o \in Orders,
           bill[o] # NoOrder, Priced(bill[o])
    PROVE  Priced(bill'[o])
  <1>1. /\ bill[o] \in Bill
        /\ \A f \in DOMAIN bill[o] \ {"raised"} : bill'[o][f] = bill[o][f]
    BY NotingTyped
  <1>2. /\ bill'[o].phase = bill[o].phase /\ bill'[o].basket = bill[o].basket
        /\ bill'[o].zone = bill[o].zone /\ bill'[o].fee = bill[o].fee
        /\ bill'[o].quote = bill[o].quote /\ bill'[o].total = bill[o].total
    BY <1>1 DEF Bill
  <1> QED BY <1>2 DEF Priced

\* An order that is written with its price leaves the others as they are.
LEMMA PricedRowKeeps ==
    ASSUME PriceInv, FeeShapes', NEW o \in Orders, NEW r,
           bill' = [bill EXCEPT ![o] = r], r # NoOrder => Priced(r)
    PROVE  PriceInv'
  BY DEF PriceInv, FeeShapes

LEMMA PriceStep == ASSUME PriceInv, [P!Next]_(P!vars) PROVE PriceInv'
  <1>0. FeeShapes /\ FeeShapes'
    BY FeesStepTyped DEF PriceInv
  <1>1. CASE UNCHANGED bill
    BY <1>0, <1>1 DEF PriceInv
  <1>2. ASSUME NEW a \in Editors, P!UpsertSetting(a)
        PROVE  PriceInv'
    <2>1. bill' = P!Noting(setting')
      BY <1>2 DEF P!UpsertSetting
    <2>2. ASSUME NEW o \in Orders, bill'[o] # NoOrder
          PROVE  Priced(bill'[o])
      <3>1. bill[o] # NoOrder
        BY <1>0, <2>1, <2>2, NotingTyped
      <3> QED BY <1>0, <2>1, <3>1, NotingKeepsPrice DEF PriceInv
    <2> QED BY <1>0, <2>2 DEF PriceInv
  <1>3. ASSUME NEW o \in Orders, NEW b \in Baskets, P!Quote(o, b)
        PROVE  PriceInv'
    <2>1. PICK r \in Bill :
              /\ bill' = [bill EXCEPT ![o] = r]
              /\ r.phase = "quoted" /\ r.basket = b /\ r.zone = zoneFee
              /\ r.quote = Charge(b, GrossAt(b, zoneFee))
      BY <1>0, <1>3, QuoteWrites
    <2>2. Priced(r)
      BY <2>1 DEF Priced
    <2> QED BY <1>0, <2>1, <2>2, PricedRowKeeps
  <1>4. ASSUME NEW o \in Orders, P!Place(o)
        PROVE  PriceInv'
    <2>1. PICK r \in Bill :
              /\ bill' = [bill EXCEPT ![o] = r]
              /\ r.basket = bill[o].basket
              /\ r.zone = bill[o].zone /\ r.quote = bill[o].quote
              /\ r.total = Charge(r.basket, NetAt(r.basket, r.fee))
      BY <1>0, <1>4, PlaceWrites
    <2>2. Priced(bill[o])
      BY <1>4 DEF P!Place, PriceInv
    <2>3. Priced(r)
      BY <2>1, <2>2 DEF Priced
    <2> QED BY <1>0, <2>1, <2>3, PricedRowKeeps
  <1>5. ASSUME NEW o \in Orders, P!PlaceRefused(o) \/ P!Deliver(o)
        PROVE  PriceInv'
    BY <1>0, <1>5, PricedRowKeeps DEF P!PlaceRefused, P!Deliver
  <1>6. ASSUME NEW a \in Editors, NEW choice \in Choices,
               P!ReadSettings(a, choice[1], choice[2])
        PROVE  PriceInv'
    BY <1>1, <1>6 DEF P!ReadSettings
  <1>7. ASSUME NEW fee \in ZoneFees, P!UpdateZone(fee)
        PROVE  PriceInv'
    BY <1>1, <1>7 DEF P!UpdateZone
  <1>8. CASE UNCHANGED P!vars
    BY <1>1, <1>8 DEF P!vars
  <1> QED BY <1>2, <1>3, <1>4, <1>5, <1>6, <1>7, <1>8 DEF P!Next

\* A smaller amount costs less, surcharge and all.
LEMMA ChargeGrows ==
    ASSUME NEW b, NEW x \in Nat, NEW y \in Nat, x < y
    PROVE  Charge(b, x) < Charge(b, y)
  <1>1. P!Surcharge(x) \in Nat /\ P!Surcharge(x) <= P!Surcharge(y)
    BY SurchargeGrows
  <1>2. P!Surcharge(y) \in Nat
    <2>1. y <= y
      OBVIOUS
    <2> QED BY <2>1, SurchargeGrows
  <1>3. Cap \in Nat
    BY PricesAssumption DEF P!FeesAssumption
  <1> QED BY <1>1, <1>2, <1>3 DEF Charge

\* Customers are charged what they were quoted, but for the causes named.
LEMMA ChargedIsQuoted ==
    ASSUME PriceInv
    PROVE  P!ChargedAsQuoted
  <1> SUFFICES ASSUME NEW o \in Orders, bill[o] # NoOrder,
                      bill[o].phase = "placed", bill[o].fee = bill[o].zone
               PROVE  \/ bill[o].total = bill[o].quote
                      \/ /\ bill[o].basket.discount > 0
                         /\ bill[o].total < bill[o].quote
    BY DEF P!ChargedAsQuoted
  <1> DEFINE b == bill[o].basket
             fee == bill[o].fee
  <1>1. bill[o] \in Bill
    BY DEF PriceInv, FeeShapes
  <1>2. b \in Baskets /\ fee \in Nat
    BY <1>1 DEF Bill
  <1>3. /\ bill[o].quote = Charge(b, GrossAt(b, fee))
        /\ bill[o].total = Charge(b, NetAt(b, fee))
    BY DEF PriceInv, Priced
  <1>4. /\ GrossAt(b, fee) \in Nat /\ NetAt(b, fee) \in Nat
        /\ P!Discount(b) \in Nat /\ P!Discount(b) <= b.discount
        /\ NetAt(b, fee) = GrossAt(b, fee) - P!Discount(b)
        /\ b.discount \in Nat
    BY <1>2, AmountsAreNat, BasketsTyped
  <1> HIDE DEF b, fee
  <1>5. CASE P!Discount(b) = 0
    BY <1>3, <1>4, <1>5
  <1>6. CASE P!Discount(b) # 0
    <2>1. NetAt(b, fee) < GrossAt(b, fee) /\ b.discount > 0
      BY <1>4, <1>6
    <2> QED BY <1>3, <1>4, <2>1, ChargeGrows DEF b
  <1> QED BY <1>5, <1>6

\* What the creation functions charge is what buildQuote quoted, less the
\* discount, unless the zone's fee changed or the point surcharge is due; and
\* what the gross-up charges for a top-up covers its cost, but for the band
\* where Paystack's flat fee falls due that nobody added.
THEOREM PricesHaveCauses == P!Spec => []PricesHaveReasons
  <1>1. P!Init => PriceInv
    BY FeesInitTyped DEF P!Init, PriceInv
  <1>2. PriceInv /\ [P!Next]_(P!vars) => PriceInv'
    BY PriceStep
  <1>3. PriceInv => PricesHaveReasons
    <2>1. P!TopupsCoverFees
      BY ChargeCovers, PricesAssumption DEF P!TopupsCoverFees, P!FeesAssumption
    <2> QED BY <2>1, ChargedIsQuoted DEF PricesHaveReasons, P!PricesHaveReasons
  <1> QED BY <1>1, <1>2, <1>3, PTL DEF P!Spec

-----------------------------------------------------------------------------
(* Side by side.                                                           *)

LEMMA PartsStart ==
    BackOfficeInit => K!Init /\ Init /\ F!Init /\ C!Init /\ P!Init
  BY DEF BackOfficeInit
LEMMA PartsMove ==
    ASSUME [BackOfficeNext]_all
    PROVE  /\ [K!Next]_(K!vars) /\ [Next]_vars /\ [F!Next]_(F!vars)
           /\ [C!Next]_(C!vars) /\ [P!Next]_(P!vars)
  <1>1. UNCHANGED printing => UNCHANGED K!vars
    BY DEF printing, K!vars, K!rows, K!paper, K!counts
  <1>2. UNCHANGED fleet => UNCHANGED F!vars
    BY DEF fleet, F!vars, F!employers, F!dispatch, F!positions
  <1>3. UNCHANGED <<pictures, hours>> => UNCHANGED C!vars
    BY DEF pictures, hours, C!vars, C!images, C!hours
  <1>4. UNCHANGED prices => UNCHANGED P!vars
    BY DEF prices, P!vars, P!fees
  <1> USE <1>1, <1>2, <1>3, <1>4
  <1>5. CASE PrintingMoves
    BY <1>5 DEF PrintingMoves
  <1>6. CASE AccountsMove
    BY <1>6 DEF AccountsMove
  <1>7. CASE FleetMoves
    BY <1>7 DEF FleetMoves
  <1>8. CASE PicturesMove
    BY <1>8 DEF PicturesMove, C!Next
  <1>9. CASE HoursMove
    BY <1>9 DEF HoursMove, C!Next
  <1>10. CASE FeesMove
    BY <1>10 DEF FeesMove
  <1>11. CASE UNCHANGED all
    BY <1>11 DEF all
  <1> QED BY <1>5, <1>6, <1>7, <1>8, <1>9, <1>10, <1>11 DEF BackOfficeNext

\* Every behaviour of MCBackOffice is, seen by each of the five components, a
\* behaviour of that component on its own: the others never disturb it.
THEOREM PartsStandAlone ==
    BackOfficeSpec => K!Spec /\ Spec /\ F!Spec /\ C!Spec /\ P!Spec
  <1>1. BackOfficeSpec => BackOfficeInit /\ [][BackOfficeNext]_all
    BY PTL DEF BackOfficeSpec
  <1>2. BackOfficeInit => K!Init /\ Init /\ F!Init /\ C!Init /\ P!Init
    BY PartsStart
  <1>3. [BackOfficeNext]_all =>
           /\ [K!Next]_(K!vars) /\ [Next]_vars /\ [F!Next]_(F!vars)
           /\ [C!Next]_(C!vars) /\ [P!Next]_(P!vars)
    BY PartsMove
  <1> QED BY <1>1, <1>2, <1>3, PTL DEF Spec, K!Spec, F!Spec, C!Spec, P!Spec

\* So what was proved of the five holds of the model that TLC checks.
COROLLARY CheckedTogether ==
    BackOfficeSpec =>
        /\ []PaperMatchesJobs /\ []KeysWereGranted
        /\ NoPoaching /\ []DecidedOnFacts /\ []OffDutyPositionsHaveReasons
        /\ []ShownImageIsStored /\ []MissingStockHasReasons
        /\ []ResidualsHaveReasons /\ []PricesHaveReasons
  BY PartsStandAlone, PaperAccountsForJobs, MetadataWasGranted,
     NobodyIsPoached, AssignmentsDecidedOnFacts, PositionsHaveReasons,
     ShownImagesAreStored, MissingRowsHaveReasons, ResidualsHaveCauses,
     PricesHaveCauses, PTL
=============================================================================
