--------------------------- MODULE AccountAccess ---------------------------
(* Who may come in (account-auth.ts, account-auth-store.ts,                *)
(* admin-auth-password.ts, account-auth-otp.ts) and who decides it         *)
(* (admin-store-core.ts). Administrators named by the configuration enter  *)
(* with a password, invited ones with a code sent by mail; each session    *)
(* belongs to a membership, and ROOT suspends memberships while logins,    *)
(* switches and requests that read them before are still on their way.     *)
(* A read and the write that depends on it are two steps.                  *)
EXTENDS Integers

CONSTANTS
    Configured,  \* memberships of the administrators of the configuration
    Invited,     \* memberships of the administrators who are invited
    HomeOf,      \* the membership the account of an invited one has of its own
    Sessions,    \* rows of the session tables
    Visits,      \* requests in flight
    MaxCodes,    \* bound: codes mailed to one address
    NoMember

Homes   == {HomeOf[x] : x \in Invited}
Members == Configured \cup Invited \cup Homes

ASSUME AccountAccessAssumption ==
    /\ MaxCodes \in Nat /\ NoMember \notin Members
    /\ DOMAIN HomeOf = Invited
    /\ Configured \cap (Invited \cup Homes) = {} /\ Invited \cap Homes = {}
    /\ {"ROOT", "OTHER"} \cap Invited = {}

VARIABLES
    member,   \* admin_memberships: status, roles, and the management row
    root,     \* admin_root_membership
    session,  \* the three session tables
    code,     \* admin_email_otp_challenges: the latest, how many, and used ones
    visit     \* requests in flight

accessVars == <<member, root, session, code, visit>>

NoVisit   == [act |-> "none"]
NoSession == [status |-> "NONE", m |-> NoMember]

AccessInit ==
    /\ member = [m \in Members |-> [status |-> "NONE", roles |-> "none", managed |-> FALSE]]
    /\ root = NoMember
    /\ session = [s \in Sessions |-> NoSession]
    /\ code = [x \in Invited |-> [open |-> FALSE, mailed |-> 0, entered |-> 0]]
    /\ visit = [v \in Visits |-> NoVisit]

-----------------------------------------------------------------------------
(* A request: what it is about, and whether the management row it read is  *)
(* still the one it will write over.                                       *)
Come(v, act, m, s, to) ==
    /\ visit[v] = NoVisit
    /\ visit' = [visit EXCEPT ![v] = [act |-> act, m |-> m, s |-> s, to |-> to, fresh |-> TRUE]]

At(v, act) == visit[v].act = act
Turn(v, act, m) == visit' = [visit EXCEPT ![v].act = act, ![v].m = m]
Gone(v) == visit' = [visit EXCEPT ![v] = NoVisit]

Leave(v) ==
    /\ visit[v] # NoVisit
    /\ Gone(v)
    /\ UNCHANGED <<member, root, session, code>>

(* A session is written for a membership that may come in at that moment.  *)
MayEnter(m) == member[m].status \in {"PENDING", "ACTIVE"}

Issue(s, m) ==
    /\ session[s] = NoSession
    /\ session' = [session EXCEPT ![s] = [status |-> "LIVE", m |-> m]]

(* Mutant: the membership is not tested again at the write.                *)
CreateSessionFromRead(v, s) ==
    /\ At(v, "session")
    /\ Issue(s, visit[v].m)
    /\ code' = [x \in Invited |-> IF visit[v].to = x THEN [code[x] EXCEPT !.entered = @ + 1] ELSE code[x]]
    /\ Gone(v)
    /\ UNCHANGED <<member, root>>

(* createSession, for a login.                                             *)
CreateSession(v, s) ==
    /\ At(v, "session")
    /\ MayEnter(visit[v].m)
    /\ Issue(s, visit[v].m)
    /\ code' = [x \in Invited |-> IF visit[v].to = x THEN [code[x] EXCEPT !.entered = @ + 1] ELSE code[x]]
    /\ Gone(v)
    /\ UNCHANGED <<member, root>>

-----------------------------------------------------------------------------
Resolved(m) ==
    member' = [member EXCEPT ![m].status = IF @ = "NONE" THEN "PENDING" ELSE @]

(* The login with a password: the account is found or created, it is not   *)
(* suspended, it is activated with the role of the configuration, and a    *)
(* session is issued.                                                      *)
ResolvePassword(v, m, role) ==
    /\ m \in Configured
    /\ member[m].status # "SUSPENDED"
    /\ Resolved(m)
    /\ Come(v, "activate", m, NoMember, role)
    /\ UNCHANGED <<root, session, code>>

(* activateMembership: for the role ROOT there is one, for good.           *)
Activate(v) ==
    LET m == visit[v].m IN
    /\ At(v, "activate")
    /\ MayEnter(m)
    /\ visit[v].to = "ROOT" => root \in {NoMember, m}
    /\ root' = IF visit[v].to = "ROOT" THEN m ELSE root
    /\ member' = [member EXCEPT ![m].status = "ACTIVE",
                                ![m].roles = IF visit[v].to = "ROOT" THEN "none" ELSE "config"]
    /\ Turn(v, "session", m)
    /\ UNCHANGED <<session, code>>

(* requestEmailOtp; a code mailed later replaces the one before.           *)
MailCode(x) ==
    /\ code[x].mailed < MaxCodes
    /\ code' = [code EXCEPT ![x].open = TRUE, ![x].mailed = @ + 1]
    /\ UNCHANGED <<member, root, session, visit>>

(* verifyEmailOtp: the challenge is read, and consumed by one.             *)
ReadCode(v, x) ==
    /\ code[x].open
    /\ Come(v, "consume", NoMember, NoMember, x)
    /\ UNCHANGED <<member, root, session, code>>

Consume(v, x) ==
    /\ At(v, "consume") /\ visit[v].to = x
    /\ code[x].open
    /\ code' = [code EXCEPT ![x].open = FALSE]
    /\ Turn(v, "resolve", NoMember)
    /\ UNCHANGED <<member, root, session>>

(* resolveOrCreateIdentity: the address leads to the membership it was     *)
(* invited to, or to one of its own, and that one is not suspended.        *)
Resolve(v, x) ==
    LET m == IF member[x].status # "NONE" THEN x ELSE HomeOf[x] IN
    /\ At(v, "resolve") /\ visit[v].to = x
    /\ member[m].status # "SUSPENDED"
    /\ Resolved(m)
    /\ Turn(v, "session", m)
    /\ UNCHANGED <<root, session, code>>

-----------------------------------------------------------------------------
(* resolveAccountSession, then touchSession; between the two the row may   *)
(* have expired or have been revoked.                                      *)
ReadSession(v, s) ==
    /\ session[s].status = "LIVE"
    /\ MayEnter(session[s].m)
    /\ Come(v, "touch", session[s].m, s, "none")
    /\ UNCHANGED <<member, root, session, code>>

Touch(v) ==
    /\ At(v, "touch")
    /\ session[visit[v].s].status # "REVOKED"
    /\ session' = [session EXCEPT ![visit[v].s].status = "LIVE"]
    /\ Turn(v, "in", visit[v].m)
    /\ UNCHANGED <<member, root, code>>

Expire(s) ==
    /\ session[s].status = "LIVE"
    /\ session' = [session EXCEPT ![s].status = "EXPIRED"]
    /\ UNCHANGED <<member, root, code, visit>>

(* logoutAccountSession, of a session that is suspended or expired too.    *)
LogOut(s) ==
    /\ session[s].status \in {"LIVE", "EXPIRED"}
    /\ session' = [session EXCEPT ![s].status = "REVOKED"]
    /\ UNCHANGED <<member, root, code, visit>>

(* switchAccountOrganization, for a request that is in: the other          *)
(* membership of the account is read, a session is written for it, and     *)
(* then the one before is revoked.                                         *)
ReadSwitch(v, x) ==
    /\ At(v, "in") /\ visit[v].m \in {x, HomeOf[x]}
    /\ \E m \in {x, HomeOf[x]} :
          /\ member[m].status = "ACTIVE"
          /\ Turn(v, "switch", m)
    /\ UNCHANGED <<member, root, session, code>>

WriteSwitch(v, s) ==
    /\ At(v, "switch")
    /\ MayEnter(visit[v].m)
    /\ Issue(s, visit[v].m)
    /\ Turn(v, "revoke", visit[v].m)
    /\ UNCHANGED <<member, root, code>>

RevokeOld(v) ==
    /\ At(v, "revoke")
    /\ session' = [session EXCEPT ![visit[v].s].status = "REVOKED"]
    /\ Gone(v)
    /\ UNCHANGED <<member, root, code>>

-----------------------------------------------------------------------------
IsPrincipal(m) == member[m].managed \/ member[m].roles # "none" \/ root = m

(* A management row is written, at the version its writer read.            *)
Managed(v, m) ==
    /\ visit[v].fresh
    /\ visit' = [u \in Visits |->
          IF u = v THEN NoVisit
          ELSE IF visit[u].act \in {"status", "roles", "invite"} /\ visit[u].m = m
          THEN [visit[u] EXCEPT !.fresh = FALSE] ELSE visit[u]]

(* invitePrincipal: nobody holds the membership when it is read; the keys  *)
(* of the identity and of the management row are unique.                   *)
ReadInvite(v, x) ==
    /\ ~IsPrincipal(x)
    /\ Come(v, "invite", x, NoMember, "none")
    /\ UNCHANGED <<member, root, session, code>>

(* Mutant: the membership is activated again by an invitation sent twice.  *)
InviteTwice(v) ==
    /\ At(v, "invite")
    /\ member' = [member EXCEPT ![visit[v].m] = [status |-> "ACTIVE", roles |-> "assigned", managed |-> TRUE]]
    /\ Gone(v)
    /\ UNCHANGED <<root, session, code>>

Invite(v) ==
    /\ At(v, "invite")
    /\ ~member[visit[v].m].managed
    /\ member' = [member EXCEPT ![visit[v].m] = [status |-> "ACTIVE", roles |-> "assigned", managed |-> TRUE]]
    /\ Managed(v, visit[v].m)
    /\ UNCHANGED <<root, session, code>>

(* updatePrincipalStatus: ROOT is not suspended, neither as it was read    *)
(* nor as it is written; a suspension revokes the sessions with it.        *)
ReadStatus(v, m, to) ==
    /\ IsPrincipal(m)
    /\ to = "SUSPENDED" => root # m
    /\ Come(v, "status", m, NoMember, to)
    /\ UNCHANGED <<member, root, session, code>>

Revoked(m) == session' = [s \in Sessions |->
    IF session[s].m = m THEN [session[s] EXCEPT !.status = "REVOKED"] ELSE session[s]]

UpdateStatus(v, m) ==
    /\ At(v, "status") /\ visit[v].m = m
    /\ visit[v].to = "SUSPENDED" => root # m
    /\ member' = [member EXCEPT ![m].status = visit[v].to, ![m].managed = TRUE]
    /\ Managed(v, m)
    /\ IF visit[v].to = "SUSPENDED" THEN Revoked(m) ELSE UNCHANGED session
    /\ UNCHANGED <<root, code>>

(* assignPrincipalRoles.                                                   *)
ReadRoles(v, m) ==
    /\ IsPrincipal(m)
    /\ Come(v, "roles", m, NoMember, "none")
    /\ UNCHANGED <<member, root, session, code>>

AssignRoles(v) ==
    /\ At(v, "roles")
    /\ member' = [member EXCEPT ![visit[v].m].roles = "assigned", ![visit[v].m].managed = TRUE]
    /\ Managed(v, visit[v].m)
    /\ UNCHANGED <<root, session, code>>

-----------------------------------------------------------------------------
AccessNext ==
    \/ \E v \in Visits :
          \/ \E m \in Members, role \in {"ROOT", "OTHER"} : ResolvePassword(v, m, role)
          \/ Activate(v) \/ Touch(v) \/ RevokeOld(v) \/ Invite(v) \/ AssignRoles(v) \/ Leave(v)
          \/ \E x \in Invited :
                ReadCode(v, x) \/ Consume(v, x) \/ Resolve(v, x) \/ ReadSwitch(v, x) \/ ReadInvite(v, x)
          \/ \E s \in Sessions : CreateSession(v, s) \/ ReadSession(v, s) \/ WriteSwitch(v, s)
          \/ \E m \in Members :
                \/ \E to \in {"ACTIVE", "SUSPENDED"} : ReadStatus(v, m, to)
                \/ UpdateStatus(v, m) \/ ReadRoles(v, m)
    \/ \E x \in Invited : MailCode(x)
    \/ \E s \in Sessions : Expire(s) \/ LogOut(s)

AccessSpec == AccessInit /\ [][AccessNext]_accessVars

-----------------------------------------------------------------------------
AccessTypeOK ==
    /\ member \in [Members -> [status: {"NONE", "PENDING", "ACTIVE", "SUSPENDED"},
                               roles: {"none", "config", "assigned"}, managed: BOOLEAN]]
    /\ root \in Members \cup {NoMember}
    /\ session \in [Sessions -> [status: {"NONE", "LIVE", "EXPIRED", "REVOKED"}, m: Members \cup {NoMember}]]
    /\ code \in [Invited -> [open: BOOLEAN, mailed: 0..MaxCodes, entered: Nat]]
    /\ \A v \in Visits : visit[v] # NoVisit =>
           visit[v].act \in {"activate", "session", "consume", "resolve", "touch", "in", "switch",
                             "revoke", "invite", "status", "roles"}

(* A suspension ends access at once and for every way in: no session of a  *)
(* suspended membership can be used, whichever login, switch or request    *)
(* was under way when it was suspended.                                    *)
SuspensionEndsAccess ==
    \A s \in Sessions : session[s].status \in {"LIVE", "EXPIRED"} => MayEnter(session[s].m)

(* The only ROOT is never locked out, although the login that made it ROOT *)
(* and its suspension may have read the rows before one another.           *)
RootStaysActive == root # NoMember => member[root].status = "ACTIVE"

(* A code that was mailed lets in once.                                    *)
CodesEnterOnce == \A x \in Invited : code[x].entered <= code[x].mailed

(* ROOT never changes, and what ROOT suspended only an administrator who   *)
(* saw that lifts: no login and no invitation on its way does.             *)
SuspensionLasts ==
    /\ root # NoMember => root' = root
    /\ \A m \in Members : member[m].status = "SUSPENDED" /\ member'[m].status # "SUSPENDED" =>
           \E v \in Visits : /\ visit[v].act = "status" /\ visit[v].m = m
                             /\ visit[v].to = "ACTIVE" /\ visit[v].fresh

(* Roles that ROOT assigned stay. The code does not keep this one: see     *)
(* "Disagreements" in the README.                                          *)
AssignedRolesStay == \A m \in Members : member[m].roles = "assigned" => member'[m].roles = "assigned"
=============================================================================
