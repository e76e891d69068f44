------------------------ MODULE HostingDevicesProofs ------------------------
(* What MCHostingDevices checks on a few machines and administrators, for  *)
(* any number of them. The two desks share no row; a step of the one       *)
(* leaves the invariant of the other alone.                                *)
(*                                                                         *)
(* "Welcome" is the invariant of the desk of access: a request carries the *)
(* rows it is about, every session in use is of a membership that may come *)
(* in, only management suspends, and every code that was mailed is with    *)
(* the address, with one request, or spent. "InHand" is the one of the     *)
(* machines: what a handler has read of a listing, a contract or a command *)
(* is still so where its batch does not look again, or was overtaken by a  *)
(* version that it will compare.                                           *)
EXTENDS MCHostingDevices, FiniteSetTheorems, TLAPS

-----------------------------------------------------------------------------
(* Who may come in.                                                        *)

(* A request for someone carries the rows it is about.                     *)
Asked  == {"activate", "session", "touch", "in", "switch", "revoke", "invite", "status", "roles"}
Inside == {"touch", "in", "switch", "revoke"}
WithCode == {"resolve", "session"}

Errands ==
    {e \in [act : Asked \cup {"consume", "resolve"}, m : Members \cup {NoMember},
            s : Sessions \cup {NoMember},
            to : Invited \cup {"ROOT", "OTHER", "ACTIVE", "SUSPENDED", "none"}, fresh : BOOLEAN] :
        /\ e.act \in Asked => e.m \in Members
        /\ e.act \in Inside => e.s \in Sessions
        /\ e.act = "activate" => e.to \in {"ROOT", "OTHER"}
        /\ e.act = "status" => e.to \in {"ACTIVE", "SUSPENDED"}}

(* The rows, as AccessTypeOK has them.                                     *)
Rows ==
    /\ member \in [Members -> [status: {"NONE", "PENDING", "ACTIVE", "SUSPENDED"},
                               roles: {"none", "config", "assigned"}, managed: BOOLEAN]]
    /\ root \in Members \cup {NoMember}
    /\ session \in [Sessions -> [status: {"NONE", "LIVE", "EXPIRED", "REVOKED"}, m: Members \cup {NoMember}]]
    /\ code \in [Invited -> [open: BOOLEAN, mailed: 0..MaxCodes, entered: Nat]]

(* The requests and the sessions they have in hand.                        *)
Visiting ==
    /\ visit \in [Visits -> {NoVisit} \cup Errands]
    /\ \A v \in Visits : visit[v].act \in Inside => session[visit[v].s].status # "NONE"

(* A session that was written is someone's, a suspension is by management. *)
Belonging ==
    /\ \A s \in Sessions : session[s].status # "NONE" => session[s].m \in Members
    /\ \A m \in Members : member[m].status = "SUSPENDED" => member[m].managed

(* The requests that come in with a code mailed to the address.            *)
ByCode(x) == {v \in Visits : visit[v].act \in WithCode /\ visit[v].to = x}

(* Every code is with the address, with a request, or spent.               *)
Spent ==
    \A x \in Invited :
        /\ IsFiniteSet(ByCode(x))
        /\ code[x].entered + Cardinality(ByCode(x)) + (IF code[x].open THEN 1 ELSE 0) <= code[x].mailed

Welcome == Rows /\ Visiting /\ Belonging /\ SuspensionEndsAccess /\ RootStaysActive /\ Spent

(* The invariant says what MCHostingDevices checks of access.              *)
LEMMA WelcomeSays == Welcome => AccessTypeOK /\ SuspensionEndsAccess /\ RootStaysActive /\ CodesEnterOnce
<1>1. ASSUME Welcome PROVE AccessTypeOK
  BY <1>1 DEF Welcome, Rows, Visiting, AccessTypeOK, NoVisit, Errands, Asked
<1>2. ASSUME Welcome PROVE CodesEnterOnce
  <2> SUFFICES ASSUME NEW x \in Invited PROVE code[x].entered <= code[x].mailed
    BY DEF CodesEnterOnce
  <2>1. Cardinality(ByCode(x)) \in Nat
    BY <1>2, FS_CardinalityType DEF Welcome, Spent
  <2>2. code[x].entered \in Nat /\ code[x].mailed \in Int /\ code[x].open \in BOOLEAN
    BY <1>2, AccountAccessAssumption DEF Welcome, Rows
  <2> QED BY <1>2, <2>1, <2>2 DEF Welcome, Spent
<1> QED BY <1>1, <1>2 DEF Welcome

(* Every member is someone, and nobody is a word of the protocol.          *)
LEMMA Names ==
    /\ Invited \subseteq Members /\ \A x \in Invited : HomeOf[x] \in Members
    /\ Configured \subseteq Members /\ NoMember \notin Members /\ MaxCodes \in Nat
    /\ "ROOT" \notin Invited /\ "OTHER" \notin Invited
  BY AccountAccessAssumption DEF Members, Homes

(* Before anyone came, there is no request, no session and no code.        *)
LEMMA WelcomeInit == AccessInit => Welcome
<1> SUFFICES ASSUME AccessInit PROVE Welcome
  OBVIOUS
<1>1. Rows
  BY Names DEF AccessInit, Rows, NoSession
<1>2. Visiting
  BY DEF AccessInit, Visiting, NoVisit, Inside
<1>3. Belonging /\ SuspensionEndsAccess /\ RootStaysActive
  BY DEF AccessInit, Belonging, SuspensionEndsAccess, RootStaysActive, NoSession
<1>4. Spent
  <2> SUFFICES ASSUME NEW x \in Invited
               PROVE /\ IsFiniteSet(ByCode(x))
                     /\ code[x].entered + Cardinality(ByCode(x)) + (IF code[x].open THEN 1 ELSE 0) <= code[x].mailed
    BY DEF Spent
  <2>1. ByCode(x) = {}
    BY DEF AccessInit, ByCode, NoVisit, WithCode
  <2>2. code[x].entered = 0 /\ code[x].mailed = 0 /\ code[x].open = FALSE
    BY DEF AccessInit
  <2> QED BY <2>1, <2>2, FS_EmptySet
<1> QED BY <1>1, <1>2, <1>3, <1>4 DEF Welcome

(* Sessions that were written stay written.                                *)
Lasting == \A s \in Sessions : session[s].status # "NONE" => session'[s].status # "NONE"

(* Nobody else comes with a code.                                          *)
NoNewcomer == \A x \in Invited : ByCode(x)' \subseteq ByCode(x)

(* A request that begins has no code in hand yet.                          *)
LEMMA Coming ==
    ASSUME Visiting, Lasting, NEW v \in Visits, NEW act, NEW m, NEW s, NEW to,
           Come(v, act, m, s, to),
           [act |-> act, m |-> m, s |-> s, to |-> to, fresh |-> TRUE] \in Errands,
           act \notin WithCode, act \in Inside => session'[s].status # "NONE"
    PROVE  Visiting' /\ NoNewcomer
<1> DEFINE e == [act |-> act, m |-> m, s |-> s, to |-> to, fresh |-> TRUE]
<1>1. visit \in [Visits -> {NoVisit} \cup Errands] /\ visit' = [visit EXCEPT ![v] = e] /\ e \in Errands
  BY DEF Come, Visiting
<1>2. \A u \in Visits : u # v => visit'[u] = visit[u]
  BY <1>1
<1>3. visit'[v] = e /\ e.act = act /\ e.s = s
  BY <1>1
<1> HIDE DEF e
<1>4. visit' \in [Visits -> {NoVisit} \cup Errands]
  BY <1>1
<1>5. ASSUME NEW u \in Visits, visit'[u].act \in Inside PROVE session'[visit'[u].s].status # "NONE"
  <2>1. CASE u = v
    BY <2>1, <1>3, <1>5
  <2>2. CASE u # v
    <3>1. visit[u] \in Errands
      BY <2>2, <1>2, <1>5, <1>1 DEF NoVisit, Inside
    <3>2. visit[u].s \in Sessions
      BY <3>1, <2>2, <1>2, <1>5 DEF Errands
    <3> QED BY <3>2, <2>2, <1>2, <1>5 DEF Visiting, Lasting
  <2> QED BY <2>1, <2>2
<1>6. ASSUME NEW x \in Invited PROVE ByCode(x)' \subseteq ByCode(x)
  BY <1>2, <1>3 DEF ByCode
<1> QED BY <1>4, <1>5, <1>6 DEF Visiting, NoNewcomer

(* The rows of a request that goes on are those it came with, but for its  *)
(* step and the one it is about.                                           *)
LEMMA Turning ==
    ASSUME Visiting, Lasting, NEW v \in Visits, NEW act, NEW m, visit[v] \in Errands,
           Turn(v, act, m),
           [visit[v] EXCEPT !.act = act, !.m = m] \in Errands,
           act \in Inside => session'[visit[v].s].status # "NONE"
    PROVE  /\ Visiting'
           /\ \A u \in Visits : u # v => visit'[u] = visit[u]
           /\ visit'[v].act = act /\ visit'[v].to = visit[v].to
<1> DEFINE e == [visit[v] EXCEPT !.act = act, !.m = m]
<1>1. visit \in [Visits -> {NoVisit} \cup Errands] /\ visit' = [visit EXCEPT ![v] = e] /\ e \in Errands
  BY DEF Turn, Visiting
<1>2. \A u \in Visits : u # v => visit'[u] = visit[u]
  BY <1>1
<1>3. visit'[v] = e /\ e.act = act /\ e.s = visit[v].s /\ e.to = visit[v].to
  BY <1>1 DEF Errands
<1> HIDE DEF e
<1>4. visit' \in [Visits -> {NoVisit} \cup Errands]
  BY <1>1
<1>5. ASSUME NEW u \in Visits, visit'[u].act \in Inside PROVE session'[visit'[u].s].status # "NONE"
  <2>1. CASE u = v
    BY <2>1, <1>3, <1>5
  <2>2. CASE u # v
    <3>1. visit[u] \in Errands
      BY <2>2, <1>2, <1>5, <1>1 DEF NoVisit, Inside
    <3>2. visit[u].s \in Sessions
      BY <3>1, <2>2, <1>2, <1>5 DEF Errands
    <3> QED BY <3>2, <2>2, <1>2, <1>5 DEF Visiting, Lasting
  <2> QED BY <2>1, <2>2
<1> QED BY <1>2, <1>3, <1>4, <1>5 DEF Visiting

(* A request that is gone has nothing in hand.                             *)
LEMMA Going ==
    ASSUME Visiting, Lasting, NEW v \in Visits, Gone(v)
    PROVE  /\ Visiting' /\ NoNewcomer
           /\ \A u \in Visits : u # v => visit'[u] = visit[u]
           /\ visit'[v] = NoVisit
<1>1. /\ visit \in [Visits -> {NoVisit} \cup Errands]
      /\ visit' \in [Visits -> {NoVisit} \cup Errands]
      /\ visit'[v] = NoVisit
      /\ \A u \in Visits : u # v => visit'[u] = visit[u]
  BY DEF Gone, Visiting
<1>2. ASSUME NEW u \in Visits, visit'[u].act \in Inside PROVE session'[visit'[u].s].status # "NONE"
  <2>1. u # v
    BY <1>1, <1>2 DEF NoVisit, Inside
  <2>2. visit[u] \in Errands
    BY <2>1, <1>1, <1>2 DEF NoVisit, Inside
  <2>3. visit[u].s \in Sessions
    BY <2>2, <2>1, <1>1, <1>2 DEF Errands
  <2> QED BY <2>3, <2>1, <1>1, <1>2 DEF Visiting, Lasting
<1>3. ASSUME NEW x \in Invited PROVE ByCode(x)' \subseteq ByCode(x)
  BY <1>1 DEF ByCode, NoVisit, WithCode
<1> QED BY <1>1, <1>2, <1>3 DEF Visiting, NoNewcomer

(* Who writes a management row outdates what others read of it.            *)
LEMMA Managing ==
    ASSUME Visiting, Lasting, NEW v \in Visits, NEW m, Managed(v, m)
    PROVE  Visiting' /\ NoNewcomer
<1>1. ASSUME NEW u \in Visits
      PROVE  /\ visit'[u] \in {NoVisit} \cup Errands
             /\ visit'[u] = NoVisit \/ (/\ visit[u] \in Errands /\ visit'[u].act = visit[u].act
                                        /\ visit'[u].to = visit[u].to /\ visit'[u].s = visit[u].s)
  <2>1. visit[u] \in {NoVisit} \cup Errands
    BY DEF Visiting
  <2>2. CASE u = v
    BY <2>2 DEF Managed
  <2>3. CASE u # v /\ visit[u].act \in {"status", "roles", "invite"} /\ visit[u].m = m
    <3>1. visit'[u] = [visit[u] EXCEPT !.fresh = FALSE]
      BY <2>3 DEF Managed
    <3>2. visit[u] \in Errands
      BY <2>1, <2>3 DEF NoVisit
    <3> QED BY <3>1, <3>2 DEF Errands
  <2>4. CASE u # v /\ ~(visit[u].act \in {"status", "roles", "invite"} /\ visit[u].m = m)
    <3>1. visit'[u] = visit[u]
      BY <2>4 DEF Managed
    <3> QED BY <3>1, <2>1
  <2> QED BY <2>2, <2>3, <2>4
<1>2. visit' \in [Visits -> {NoVisit} \cup Errands]
  BY <1>1 DEF Managed
<1>3. ASSUME NEW u \in Visits, visit'[u].act \in Inside PROVE session'[visit'[u].s].status # "NONE"
  <2>1. /\ visit[u] \in Errands /\ visit'[u].act = visit[u].act
        /\ visit'[u].to = visit[u].to /\ visit'[u].s = visit[u].s
    BY <1>1, <1>3 DEF NoVisit, Inside
  <2>2. visit[u].s \in Sessions
    BY <2>1, <1>3 DEF Errands
  <2> QED BY <2>2, <2>1, <1>3 DEF Visiting, Lasting
<1>4. ASSUME NEW x \in Invited PROVE ByCode(x)' \subseteq ByCode(x)
  BY <1>1 DEF ByCode, NoVisit, WithCode
<1> QED BY <1>2, <1>3, <1>4 DEF Visiting, NoNewcomer

-----------------------------------------------------------------------------
(* Codes. *)

(* A code is spent once if nobody new comes with one.                      *)
LEMMA SpentStays == ASSUME Rows, Spent, NoNewcomer, UNCHANGED code PROVE Spent'
<1> SUFFICES ASSUME NEW x \in Invited
             PROVE  /\ IsFiniteSet(ByCode(x)')
                    /\ code[x].entered + Cardinality(ByCode(x)') + (IF code[x].open THEN 1 ELSE 0) <= code[x].mailed
  BY DEF Spent
<1>1. IsFiniteSet(ByCode(x)') /\ Cardinality(ByCode(x)') <= Cardinality(ByCode(x))
  BY FS_Subset DEF Spent, NoNewcomer
<1>2. Cardinality(ByCode(x)') \in Nat /\ Cardinality(ByCode(x)) \in Nat
  BY <1>1, FS_CardinalityType DEF Spent
<1>3. code[x].entered \in Nat /\ code[x].mailed \in Int
  BY Names DEF Rows
<1> QED BY <1>1, <1>2, <1>3 DEF Spent

(* A code that is consumed passes to the request that consumed it.         *)
LEMMA SpentByConsuming ==
    ASSUME Rows, Spent, NEW v \in Visits, NEW y \in Invited, code[y].open,
           code' = [code EXCEPT ![y].open = FALSE],
           visit[v].act = "consume", visit[v].to = y, visit'[v].to = y,
           \A u \in Visits : u # v => visit'[u] = visit[u]
    PROVE  Spent'
<1> SUFFICES ASSUME NEW x \in Invited
             PROVE  /\ IsFiniteSet(ByCode(x)')
                    /\ code'[x].entered + Cardinality(ByCode(x)') + (IF code'[x].open THEN 1 ELSE 0) <= code'[x].mailed
  BY DEF Spent
<1>1. code[x].entered \in Nat /\ code[x].mailed \in Int /\ code[x].open \in BOOLEAN
  BY Names DEF Rows
<1>2. IsFiniteSet(ByCode(x)) /\ Cardinality(ByCode(x)) \in Nat
  BY FS_CardinalityType DEF Spent
<1>3. CASE x = y
  <2>1. ByCode(x)' \subseteq ByCode(x) \cup {v}
    BY <1>3 DEF ByCode
  <2>2. IsFiniteSet(ByCode(x) \cup {v}) /\ Cardinality(ByCode(x) \cup {v}) <= Cardinality(ByCode(x)) + 1
    <3>1. /\ IsFiniteSet(ByCode(x) \cup {v})
          /\ \/ Cardinality(ByCode(x) \cup {v}) = Cardinality(ByCode(x))
             \/ Cardinality(ByCode(x) \cup {v}) = Cardinality(ByCode(x)) + 1
      BY <1>2, FS_AddElement, Zenon
    <3> QED BY <3>1, <1>2
  <2>3. IsFiniteSet(ByCode(x)') /\ Cardinality(ByCode(x)') <= Cardinality(ByCode(x) \cup {v})
    BY <2>1, <2>2, FS_Subset
  <2>4. Cardinality(ByCode(x)') \in Nat /\ Cardinality(ByCode(x) \cup {v}) \in Nat
    BY <2>2, <2>3, FS_CardinalityType
  <2>5. code'[x].entered = code[x].entered /\ code'[x].mailed = code[x].mailed /\ code'[x].open = FALSE
    BY <1>3 DEF Rows
  <2>6. code[x].entered + Cardinality(ByCode(x)) + 1 <= code[x].mailed
    BY <1>3 DEF Spent
  <2> QED BY <2>2, <2>3, <2>4, <2>5, <2>6, <1>1, <1>2
<1>4. CASE x # y
  <2>1. ByCode(x)' = ByCode(x)
    BY <1>4 DEF ByCode
  <2>2. code'[x] = code[x]
    BY <1>4 DEF Rows
  <2> QED BY <2>1, <2>2 DEF Spent
<1> QED BY <1>3, <1>4

(* Who enters with a code has spent it.                                    *)
LEMMA SpentByEntering ==
    ASSUME Rows, Spent, NEW v \in Visits, visit[v].act = "session", visit'[v] = NoVisit,
           code' = [x \in Invited |-> IF visit[v].to = x THEN [code[x] EXCEPT !.entered = @ + 1] ELSE code[x]],
           \A u \in Visits : u # v => visit'[u] = visit[u]
    PROVE  Spent'
<1> SUFFICES ASSUME NEW x \in Invited
             PROVE  /\ IsFiniteSet(ByCode(x)')
                    /\ code'[x].entered + Cardinality(ByCode(x)') + (IF code'[x].open THEN 1 ELSE 0) <= code'[x].mailed
  BY DEF Spent
<1>1. code[x].entered \in Nat /\ code[x].mailed \in Int /\ code[x].open \in BOOLEAN
  BY Names DEF Rows
<1>2. IsFiniteSet(ByCode(x)) /\ Cardinality(ByCode(x)) \in Nat
  BY FS_CardinalityType DEF Spent
<1>3. code[x].entered + Cardinality(ByCode(x)) + (IF code[x].open THEN 1 ELSE 0) <= code[x].mailed
  BY DEF Spent
<1>4. CASE visit[v].to = x
  <2>1. ByCode(x)' = ByCode(x) \ {v} /\ v \in ByCode(x)
    BY <1>4 DEF ByCode, NoVisit, WithCode
  <2>2. IsFiniteSet(ByCode(x)') /\ Cardinality(ByCode(x)') = Cardinality(ByCode(x)) - 1
    BY <2>1, <1>2, FS_RemoveElement
  <2>3. code'[x].entered = code[x].entered + 1 /\ code'[x].mailed = code[x].mailed /\ code'[x].open = code[x].open
    BY <1>4 DEF Rows
  <2> QED BY <2>2, <2>3, <1>1, <1>2, <1>3
<1>5. CASE visit[v].to # x
  <2>1. ByCode(x)' = ByCode(x)
    BY <1>5 DEF ByCode, NoVisit, WithCode
  <2>2. code'[x] = code[x]
    BY <1>5
  <2> QED BY <2>1, <2>2 DEF Spent
<1> QED BY <1>4, <1>5

(* A code that is mailed is with the address.                              *)
LEMMA SpentByMailing ==
    ASSUME Rows, Spent, NEW y \in Invited, UNCHANGED visit,
           code' = [code EXCEPT ![y].open = TRUE, ![y].mailed = @ + 1]
    PROVE  Spent'
<1> SUFFICES ASSUME NEW x \in Invited
             PROVE  /\ IsFiniteSet(ByCode(x)')
                    /\ code'[x].entered + Cardinality(ByCode(x)') + (IF code'[x].open THEN 1 ELSE 0) <= code'[x].mailed
  BY DEF Spent
<1>1. code[x].entered \in Nat /\ code[x].mailed \in Int /\ code[x].open \in BOOLEAN
  BY Names DEF Rows
<1>2. IsFiniteSet(ByCode(x)) /\ Cardinality(ByCode(x)) \in Nat
  BY FS_CardinalityType DEF Spent
<1>3. code[x].entered + Cardinality(ByCode(x)) + (IF code[x].open THEN 1 ELSE 0) <= code[x].mailed
  BY DEF Spent
<1>4. ByCode(x)' = ByCode(x)
  BY DEF ByCode
<1>5. \/ code'[x] = code[x]
      \/ code'[x].entered = code[x].entered /\ code'[x].mailed = code[x].mailed + 1 /\ code'[x].open
  BY DEF Rows
<1> QED BY <1>1, <1>2, <1>3, <1>4, <1>5

-----------------------------------------------------------------------------
(* Members and sessions. *)

(* A change of members that shuts nobody out shuts no session out.         *)
LEMMA MembersKeep ==
    ASSUME Rows, Belonging, SuspensionEndsAccess, UNCHANGED session,
           \A n \in Members : /\ MayEnter(n) => member'[n].status \in {"PENDING", "ACTIVE"}
                              /\ member'[n].status = "SUSPENDED" => member'[n].managed
    PROVE  Belonging' /\ SuspensionEndsAccess'
<1>1. Belonging'
  BY DEF Belonging
<1>2. ASSUME NEW s \in Sessions, session[s].status \in {"LIVE", "EXPIRED"} PROVE MayEnter(session[s].m)'
  BY <1>2 DEF Belonging, SuspensionEndsAccess, MayEnter
<1> QED BY <1>1, <1>2 DEF SuspensionEndsAccess

(* What may happen to a session: it begins for who may come in, or it goes *)
(* on or ends for the one it is of.                                        *)
Begins(s) ==
    /\ session'[s].status = "LIVE" /\ session'[s].m \in Members /\ MayEnter(session'[s].m)
Follows(s) ==
    /\ session'[s].m = session[s].m /\ session[s].status # "NONE"
    /\ session'[s].status \in {"LIVE", "EXPIRED", "REVOKED"}
    /\ session'[s].status # "REVOKED" => session[s].status \in {"LIVE", "EXPIRED"}

(* A step that writes sessions, each of a membership that may come in or   *)
(* on its way out, keeps who belongs and who is out.                       *)
LEMMA SessionsKeep ==
    ASSUME Rows, Belonging, SuspensionEndsAccess, UNCHANGED member,
           session' \in [Sessions -> [status: {"NONE", "LIVE", "EXPIRED", "REVOKED"},
                                      m: Members \cup {NoMember}]],
           \A s \in Sessions : session'[s] = session[s] \/ Begins(s) \/ Follows(s)
    PROVE  Belonging' /\ SuspensionEndsAccess' /\ Lasting
<1>1. ASSUME NEW s \in Sessions
      PROVE  /\ session'[s].status # "NONE" => session'[s].m \in Members
             /\ session'[s].status \in {"LIVE", "EXPIRED"} => MayEnter(session'[s].m)
             /\ session[s].status # "NONE" => session'[s].status # "NONE"
  <2>1. CASE session'[s] = session[s]
    BY <2>1 DEF Belonging, SuspensionEndsAccess
  <2>2. CASE Begins(s)
    BY <2>2 DEF Begins
  <2>3. CASE Follows(s)
    BY <2>3 DEF Follows, Belonging, SuspensionEndsAccess
  <2> QED BY <2>1, <2>2, <2>3
<1>2. Belonging'
  BY <1>1 DEF Belonging
<1>3. SuspensionEndsAccess'
  BY <1>1 DEF SuspensionEndsAccess, MayEnter
<1> QED BY <1>1, <1>2, <1>3 DEF Lasting

(* A session is issued to who may come in.                                 *)
LEMMA IssueBegins ==
    ASSUME Rows, NEW s \in Sessions, NEW m \in Members, Issue(s, m), MayEnter(m)
    PROVE  /\ session' \in [Sessions -> [status: {"NONE", "LIVE", "EXPIRED", "REVOKED"},
                                         m: Members \cup {NoMember}]]
           /\ \A t \in Sessions : session'[t] = session[t] \/ Begins(t)
<1>1. session' = [session EXCEPT ![s] = [status |-> "LIVE", m |-> m]]
  BY DEF Issue
<1> QED BY <1>1 DEF Rows, Begins

(* The status of one session moves on.                                     *)
LEMMA StatusFollows ==
    ASSUME Rows, NEW s \in Sessions, NEW to \in {"LIVE", "EXPIRED", "REVOKED"},
           session' = [session EXCEPT ![s].status = to], session[s].status # "NONE",
           to = "REVOKED" \/ session[s].status \in {"LIVE", "EXPIRED"}
    PROVE  /\ session' \in [Sessions -> [status: {"NONE", "LIVE", "EXPIRED", "REVOKED"},
                                         m: Members \cup {NoMember}]]
           /\ \A t \in Sessions : session'[t] = session[t] \/ Follows(t)
<1> DEFINE row == [session[s] EXCEPT !.status = to]
<1>1. row.status = to /\ row.m = session[s].m
      /\ row \in [status: {"NONE", "LIVE", "EXPIRED", "REVOKED"}, m: Members \cup {NoMember}]
  BY DEF Rows
<1>2. session' = [session EXCEPT ![s] = row]
  OBVIOUS
<1> HIDE DEF row
<1>3. \A t \in Sessions : t # s => session'[t] = session[t]
  BY <1>2 DEF Rows
<1>4. session'[s] = row
  BY <1>2 DEF Rows
<1>5. Follows(s)
  BY <1>1, <1>4 DEF Follows
<1> QED BY <1>1, <1>2, <1>3, <1>5 DEF Rows

(* The first login makes a member of someone; nobody else changes.         *)
LEMMA ResolvedMember ==
    ASSUME Rows, NEW m \in Members, Resolved(m)
    PROVE  /\ member' \in [Members -> [status: {"NONE", "PENDING", "ACTIVE", "SUSPENDED"},
                                       roles: {"none", "config", "assigned"}, managed: BOOLEAN]]
           /\ \A n \in Members : /\ member'[n].managed = member[n].managed
                                 /\ \/ member'[n].status = member[n].status
                                    \/ /\ member[n].status = "NONE" /\ member'[n].status = "PENDING"
           /\ member'[m].status # "NONE"
<1> DEFINE row == [member[m] EXCEPT !.status = IF @ = "NONE" THEN "PENDING" ELSE @]
<1>1. /\ row \in [status: {"NONE", "PENDING", "ACTIVE", "SUSPENDED"},
                  roles: {"none", "config", "assigned"}, managed: BOOLEAN]
      /\ row.managed = member[m].managed /\ row.status # "NONE"
      /\ row.status = member[m].status \/ (member[m].status = "NONE" /\ row.status = "PENDING")
  BY DEF Rows
<1>2. member' = [member EXCEPT ![m] = row]
  BY DEF Resolved
<1> HIDE DEF row
<1>3. \A n \in Members : n # m => member'[n] = member[n]
  BY <1>2 DEF Rows
<1>4. member'[m] = row
  BY <1>2 DEF Rows
<1> QED BY <1>1, <1>2, <1>3, <1>4 DEF Rows

(* A step that changes requests alone.                                     *)
LEMMA ReadsKeep ==
    ASSUME Welcome, UNCHANGED <<member, root, session, code>>, Visiting', NoNewcomer
    PROVE  Welcome'
<1>1. Rows'
  BY DEF Welcome, Rows
<1>2. Belonging' /\ SuspensionEndsAccess' /\ RootStaysActive'
  BY DEF Welcome, Belonging, SuspensionEndsAccess, RootStaysActive, MayEnter
<1>3. Spent'
  BY SpentStays DEF Welcome
<1> QED BY <1>1, <1>2, <1>3 DEF Welcome

(* Nothing about sessions changes: they last.                              *)
LEMMA Still == UNCHANGED session => Lasting
  BY DEF Lasting

(* A request has the rows its step is about.                               *)
LEMMA InErrands ==
    ASSUME Visiting, NEW v \in Visits, NEW act \in Asked \cup {"consume", "resolve"}, At(v, act)
    PROVE  /\ visit[v] \in Errands /\ visit[v].act = act
           /\ act \in Asked => visit[v].m \in Members
           /\ act \in Inside => visit[v].s \in Sessions /\ session[visit[v].s].status # "NONE"
<1>1. visit[v] \in {NoVisit} \cup Errands /\ visit[v].act = act
  BY DEF Visiting, At
<1>2. visit[v] \in Errands
  BY <1>1 DEF NoVisit, Asked
<1> QED BY <1>1, <1>2 DEF Errands, Visiting

-----------------------------------------------------------------------------
(* The steps of the desk of access, one after the other. *)

(* A request that ends touches no row.                                     *)
LEMMA LeaveKeeps == ASSUME Welcome, NEW v \in Visits, Leave(v) PROVE Welcome'
<1>1. Visiting' /\ NoNewcomer
  BY Going, Still DEF Welcome, Leave
<1> QED BY <1>1, ReadsKeep DEF Leave

(* A login by code starts from the address alone.                          *)
LEMMA ReadCodeKeeps == ASSUME Welcome, NEW v \in Visits, NEW x \in Invited, ReadCode(v, x) PROVE Welcome'
<1>1. [act |-> "consume", m |-> NoMember, s |-> NoMember, to |-> x, fresh |-> TRUE] \in Errands
  BY DEF Errands, Asked, Inside
<1>2. Visiting' /\ NoNewcomer
  BY <1>1, Coming, Still DEF Welcome, ReadCode, WithCode, Inside
<1> QED BY <1>2, ReadsKeep DEF ReadCode

(* An invitation carries the member it is for.                             *)
LEMMA ReadInviteKeeps ==
    ASSUME Welcome, NEW v \in Visits, NEW x \in Invited, ReadInvite(v, x) PROVE Welcome'
<1>1. [act |-> "invite", m |-> x, s |-> NoMember, to |-> "none", fresh |-> TRUE] \in Errands
  BY Names DEF Errands, Asked, Inside
<1>2. Visiting' /\ NoNewcomer
  BY <1>1, Coming, Still DEF Welcome, ReadInvite, WithCode, Inside
<1> QED BY <1>2, ReadsKeep DEF ReadInvite

(* A change of roles carries the member it is for.                         *)
LEMMA ReadRolesKeeps ==
    ASSUME Welcome, NEW v \in Visits, NEW m \in Members, ReadRoles(v, m) PROVE Welcome'
<1>1. [act |-> "roles", m |-> m, s |-> NoMember, to |-> "none", fresh |-> TRUE] \in Errands
  BY DEF Errands, Asked, Inside
<1>2. Visiting' /\ NoNewcomer
  BY <1>1, Coming, Still DEF Welcome, ReadRoles, WithCode, Inside
<1> QED BY <1>2, ReadsKeep DEF ReadRoles

(* A change of status carries the member and what he is to become.         *)
LEMMA ReadStatusKeeps ==
    ASSUME Welcome, NEW v \in Visits, NEW m \in Members, NEW to \in {"ACTIVE", "SUSPENDED"},
           ReadStatus(v, m, to)
    PROVE  Welcome'
<1>1. [act |-> "status", m |-> m, s |-> NoMember, to |-> to, fresh |-> TRUE] \in Errands
  BY DEF Errands, Asked, Inside
<1>2. Visiting' /\ NoNewcomer
  BY <1>1, Coming, Still DEF Welcome, ReadStatus, WithCode, Inside
<1> QED BY <1>2, ReadsKeep DEF ReadStatus

(* A request that is authenticated carries a session that was written, and *)
(* its member.                                                             *)
LEMMA ReadSessionKeeps ==
    ASSUME Welcome, NEW v \in Visits, NEW s \in Sessions, ReadSession(v, s) PROVE Welcome'
<1>1. session[s].m \in Members /\ session'[s].status # "NONE"
  BY DEF ReadSession, Welcome, Belonging
<1>2. [act |-> "touch", m |-> session[s].m, s |-> s, to |-> "none", fresh |-> TRUE] \in Errands
  BY <1>1 DEF Errands, Asked, Inside
<1>3. Visiting' /\ NoNewcomer
  BY <1>1, <1>2, Coming, Still DEF Welcome, ReadSession, WithCode
<1> QED BY <1>3, ReadsKeep DEF ReadSession

(* A switch of membership goes on from the session it was authenticated    *)
(* with.                                                                   *)
LEMMA ReadSwitchKeeps ==
    ASSUME Welcome, NEW v \in Visits, NEW x \in Invited, ReadSwitch(v, x) PROVE Welcome'
<1>1. PICK m \in {x, HomeOf[x]} : Turn(v, "switch", m)
  BY DEF ReadSwitch
<1>2. visit[v] \in Errands /\ visit[v].s \in Sessions /\ session[visit[v].s].status # "NONE"
  BY InErrands DEF Welcome, ReadSwitch, Asked, Inside
<1>3. [visit[v] EXCEPT !.act = "switch", !.m = m] \in Errands
  BY <1>1, <1>2, Names DEF Errands, Asked, Inside
<1>4. session' = session
  BY DEF ReadSwitch
<1>5. /\ Visiting' /\ visit'[v].act = "switch"
      /\ \A u \in Visits : u # v => visit'[u] = visit[u]
  BY <1>1, <1>2, <1>3, <1>4, Turning, Still DEF Welcome
<1>6. NoNewcomer
  BY <1>5 DEF NoNewcomer, ByCode, WithCode
<1> QED BY <1>5, <1>6, ReadsKeep DEF ReadSwitch

(* Who comes with a password is not suspended, and waits to be activated.  *)
LEMMA ResolvePasswordKeeps ==
    ASSUME Welcome, NEW v \in Visits, NEW m \in Members, NEW role \in {"ROOT", "OTHER"},
           ResolvePassword(v, m, role)
    PROVE  Welcome'
<1>1. [act |-> "activate", m |-> m, s |-> NoMember, to |-> role, fresh |-> TRUE] \in Errands
  BY DEF Errands, Asked, Inside
<1>2. Visiting' /\ NoNewcomer
  BY <1>1, Coming, Still DEF Welcome, ResolvePassword, WithCode, Inside
<1>3. /\ member' \in [Members -> [status: {"NONE", "PENDING", "ACTIVE", "SUSPENDED"},
                                  roles: {"none", "config", "assigned"}, managed: BOOLEAN]]
      /\ \A n \in Members : /\ member'[n].managed = member[n].managed
                            /\ \/ member'[n].status = member[n].status
                               \/ /\ member[n].status = "NONE" /\ member'[n].status = "PENDING"
  BY ResolvedMember DEF Welcome, ResolvePassword
<1>4. Rows'
  BY <1>3 DEF Welcome, Rows, ResolvePassword
<1>5. \A n \in Members : /\ MayEnter(n) => member'[n].status \in {"PENDING", "ACTIVE"}
                         /\ member'[n].status = "SUSPENDED" => member'[n].managed
  BY <1>3 DEF Welcome, Belonging, MayEnter
<1>6. Belonging' /\ SuspensionEndsAccess'
  BY <1>5, MembersKeep DEF Welcome, ResolvePassword
<1>7. RootStaysActive'
  BY <1>3 DEF Welcome, Rows, RootStaysActive, ResolvePassword
<1>8. Spent'
  BY <1>2, SpentStays DEF Welcome, ResolvePassword
<1> QED BY <1>2, <1>4, <1>6, <1>7, <1>8 DEF Welcome

(* ROOT is activated as ROOT or not at all; others never take its place.   *)
LEMMA ActivateKeeps == ASSUME Welcome, NEW v \in Visits, Activate(v) PROVE Welcome'
<1> DEFINE m == visit[v].m
           row == [member[m] EXCEPT !.status = "ACTIVE",
                                    !.roles = IF visit[v].to = "ROOT" THEN "none" ELSE "config"]
<1>1. visit[v] \in Errands /\ m \in Members /\ visit[v].to \in {"ROOT", "OTHER"}
  <2>1. visit[v] \in Errands /\ visit[v].act = "activate"
    BY InErrands DEF Welcome, Activate, Asked
  <2> QED BY <2>1 DEF Errands, Asked
<1>2. /\ MayEnter(m) /\ Turn(v, "session", m) /\ UNCHANGED <<session, code>>
      /\ visit[v].to = "ROOT" => root \in {NoMember, m}
      /\ root' = IF visit[v].to = "ROOT" THEN m ELSE root
      /\ member' = [member EXCEPT ![m] = row]
  BY DEF Activate
<1>3. /\ row \in [status: {"NONE", "PENDING", "ACTIVE", "SUSPENDED"},
                  roles: {"none", "config", "assigned"}, managed: BOOLEAN]
      /\ row.status = "ACTIVE"
  <2>1. member[m] \in [status: {"NONE", "PENDING", "ACTIVE", "SUSPENDED"},
                       roles: {"none", "config", "assigned"}, managed: BOOLEAN]
    BY <1>1 DEF Welcome, Rows
  <2>2. \A roles \in {"none", "config"} :
           LET made == [member[m] EXCEPT !.status = "ACTIVE", !.roles = roles] IN
           /\ made \in [status: {"NONE", "PENDING", "ACTIVE", "SUSPENDED"},
                        roles: {"none", "config", "assigned"}, managed: BOOLEAN]
           /\ made.status = "ACTIVE"
    BY <2>1
  <2>3. (IF visit[v].to = "ROOT" THEN "none" ELSE "config") \in {"none", "config"}
    OBVIOUS
  <2> QED BY <2>2, <2>3
<1>4. [visit[v] EXCEPT !.act = "session", !.m = m] \in Errands
  BY <1>1 DEF Errands, Asked, Inside
<1> HIDE DEF m, row
<1>5. /\ Visiting' /\ visit'[v].to = visit[v].to
      /\ \A u \in Visits : u # v => visit'[u] = visit[u]
  BY <1>1, <1>2, <1>4, Turning, Still DEF Welcome, Inside
<1>6. NoNewcomer
  <2> SUFFICES ASSUME NEW x \in Invited PROVE ByCode(x)' \subseteq ByCode(x)
    BY DEF NoNewcomer
  <2>1. visit'[v].to # x
    BY <1>1, <1>5, Names
  <2> QED BY <2>1, <1>5 DEF ByCode
<1>7. /\ member' \in [Members -> [status: {"NONE", "PENDING", "ACTIVE", "SUSPENDED"},
                                  roles: {"none", "config", "assigned"}, managed: BOOLEAN]]
      /\ member'[m].status = "ACTIVE"
      /\ \A n \in Members : n # m => member'[n] = member[n]
  BY <1>1, <1>2, <1>3 DEF Welcome, Rows
<1>8. Rows'
  BY <1>1, <1>2, <1>7 DEF Welcome, Rows
<1>9. \A n \in Members : /\ MayEnter(n) => member'[n].status \in {"PENDING", "ACTIVE"}
                         /\ member'[n].status = "SUSPENDED" => member'[n].managed
  BY <1>7 DEF Welcome, Belonging, MayEnter
<1>10. Belonging' /\ SuspensionEndsAccess'
  BY <1>2, <1>9, MembersKeep DEF Welcome
<1>11. RootStaysActive'
  BY <1>2, <1>7 DEF Welcome, Rows, RootStaysActive
<1>12. Spent'
  BY <1>2, <1>6, SpentStays DEF Welcome
<1> QED BY <1>5, <1>8, <1>10, <1>11, <1>12 DEF Welcome

(* Who comes with a code: one request holds it.                            *)
LEMMA ConsumeKeeps ==
    ASSUME Welcome, NEW v \in Visits, NEW x \in Invited, Consume(v, x) PROVE Welcome'
<1>1. visit[v] \in Errands /\ visit[v].act = "consume" /\ visit[v].to = x
  BY InErrands DEF Welcome, Consume
<1>2. [visit[v] EXCEPT !.act = "resolve", !.m = NoMember] \in Errands
  BY <1>1 DEF Errands, Asked, Inside
<1>3. /\ Visiting' /\ visit'[v].to = x
      /\ \A u \in Visits : u # v => visit'[u] = visit[u]
  BY <1>1, <1>2, Turning, Still DEF Welcome, Consume, Inside
<1>4. Spent'
  BY <1>1, <1>3, SpentByConsuming DEF Welcome, Consume
<1>5. Rows'
  BY Names DEF Welcome, Rows, Consume
<1>6. Belonging' /\ SuspensionEndsAccess' /\ RootStaysActive'
  BY DEF Welcome, Belonging, SuspensionEndsAccess, RootStaysActive, MayEnter, Consume
<1> QED BY <1>3, <1>4, <1>5, <1>6 DEF Welcome

(* A membership that is resolved for a code is created or left as it is,   *)
(* never brought back, and its request keeps its code.                     *)
LEMMA ResolveKeeps ==
    ASSUME Welcome, NEW v \in Visits, NEW x \in Invited, Resolve(v, x) PROVE Welcome'
<1>1. visit[v] \in Errands /\ visit[v].act = "resolve" /\ visit[v].to = x
  BY InErrands DEF Welcome, Resolve
<1>2. PICK m \in Members : Resolved(m) /\ Turn(v, "session", m) /\ UNCHANGED <<root, session, code>>
  BY Names DEF Resolve
<1>3. [visit[v] EXCEPT !.act = "session", !.m = m] \in Errands
  BY <1>1 DEF Errands, Asked, Inside
<1>4. /\ Visiting' /\ visit'[v].act = "session" /\ visit'[v].to = x
      /\ \A u \in Visits : u # v => visit'[u] = visit[u]
  BY <1>1, <1>2, <1>3, Turning, Still DEF Welcome, Inside
<1>5. NoNewcomer
  BY <1>1, <1>4 DEF NoNewcomer, ByCode, WithCode
<1>6. /\ member' \in [Members -> [status: {"NONE", "PENDING", "ACTIVE", "SUSPENDED"},
                                  roles: {"none", "config", "assigned"}, managed: BOOLEAN]]
      /\ \A n \in Members : /\ member'[n].managed = member[n].managed
                            /\ \/ member'[n].status = member[n].status
                               \/ /\ member[n].status = "NONE" /\ member'[n].status = "PENDING"
  BY <1>2, ResolvedMember DEF Welcome
<1>7. Rows'
  BY <1>2, <1>6 DEF Welcome, Rows
<1>8. \A n \in Members : /\ MayEnter(n) => member'[n].status \in {"PENDING", "ACTIVE"}
                         /\ member'[n].status = "SUSPENDED" => member'[n].managed
  BY <1>6 DEF Welcome, Belonging, MayEnter
<1>9. Belonging' /\ SuspensionEndsAccess'
  BY <1>2, <1>8, MembersKeep DEF Welcome
<1>10. RootStaysActive'
  BY <1>2, <1>6 DEF Welcome, Rows, RootStaysActive
<1>11. Spent'
  BY <1>2, <1>5, SpentStays DEF Welcome
<1> QED BY <1>4, <1>7, <1>9, <1>10, <1>11 DEF Welcome

(* A code that is mailed adds one to what may be spent.                    *)
LEMMA MailCodeKeeps == ASSUME Welcome, NEW x \in Invited, MailCode(x) PROVE Welcome'
<1>1. Spent'
  BY SpentByMailing DEF Welcome, MailCode
<1>2. Rows'
  <2>1. code[x].mailed + 1 \in 0 .. MaxCodes
    BY Names DEF Welcome, Rows, MailCode
  <2> DEFINE row == [code[x] EXCEPT !.open = TRUE, !.mailed = @ + 1]
  <2>2. row \in [open: BOOLEAN, mailed: 0..MaxCodes, entered: Nat]
    BY <2>1 DEF Welcome, Rows
  <2>3. code' = [code EXCEPT ![x] = row]
    BY DEF MailCode
  <2> HIDE DEF row
  <2> QED BY <2>2, <2>3 DEF Welcome, Rows, MailCode
<1>3. Visiting' /\ Belonging' /\ SuspensionEndsAccess' /\ RootStaysActive'
  BY DEF Welcome, Visiting, Belonging, SuspensionEndsAccess, RootStaysActive, MayEnter, MailCode
<1> QED BY <1>1, <1>2, <1>3 DEF Welcome

(* Sessions: the membership is tested where the row is written.            *)
LEMMA CreateSessionKeeps ==
    ASSUME Welcome, NEW v \in Visits, NEW s \in Sessions, CreateSession(v, s) PROVE Welcome'
<1>1. visit[v] \in Errands /\ visit[v].act = "session" /\ visit[v].m \in Members
  BY InErrands DEF Welcome, CreateSession, Asked
<1>2. /\ session' \in [Sessions -> [status: {"NONE", "LIVE", "EXPIRED", "REVOKED"},
                                    m: Members \cup {NoMember}]]
      /\ \A t \in Sessions : session'[t] = session[t] \/ Begins(t)
  BY <1>1, IssueBegins DEF Welcome, CreateSession
<1>3. Belonging' /\ SuspensionEndsAccess' /\ Lasting
  BY <1>2, SessionsKeep DEF Welcome, CreateSession
<1>4. /\ Visiting' /\ visit'[v] = NoVisit
      /\ \A u \in Visits : u # v => visit'[u] = visit[u]
  BY <1>3, Going DEF Welcome, CreateSession
<1>5. Spent'
  BY <1>1, <1>4, SpentByEntering DEF Welcome, CreateSession
<1>6. Rows'
  <2>1. ASSUME NEW x \in Invited
        PROVE  [code[x] EXCEPT !.entered = @ + 1] \in [open: BOOLEAN, mailed: 0..MaxCodes, entered: Nat]
    BY DEF Welcome, Rows
  <2> QED BY <1>2, <2>1 DEF Welcome, Rows, CreateSession
<1>7. RootStaysActive'
  BY DEF Welcome, RootStaysActive, CreateSession
<1> QED BY <1>3, <1>4, <1>5, <1>6, <1>7 DEF Welcome

(* The session of a switch is written only for a membership that may come  *)
(* in when it is.                                                          *)
LEMMA WriteSwitchKeeps ==
    ASSUME Welcome, NEW v \in Visits, NEW s \in Sessions, WriteSwitch(v, s) PROVE Welcome'
<1>1. /\ visit[v] \in Errands /\ visit[v].act = "switch" /\ visit[v].m \in Members
      /\ visit[v].s \in Sessions /\ session[visit[v].s].status # "NONE"
  BY InErrands DEF Welcome, WriteSwitch, Asked, Inside
<1>2. /\ session' \in [Sessions -> [status: {"NONE", "LIVE", "EXPIRED", "REVOKED"},
                                    m: Members \cup {NoMember}]]
      /\ \A t \in Sessions : session'[t] = session[t] \/ Begins(t)
  BY <1>1, IssueBegins DEF Welcome, WriteSwitch
<1>3. Belonging' /\ SuspensionEndsAccess' /\ Lasting
  BY <1>2, SessionsKeep DEF Welcome, WriteSwitch
<1>4. [visit[v] EXCEPT !.act = "revoke", !.m = visit[v].m] \in Errands
  BY <1>1 DEF Errands, Asked, Inside
<1>5. session'[visit[v].s].status # "NONE"
  BY <1>1, <1>3 DEF Lasting
<1>6. /\ Visiting' /\ visit'[v].act = "revoke"
      /\ \A u \in Visits : u # v => visit'[u] = visit[u]
  BY <1>1, <1>3, <1>4, <1>5, Turning DEF Welcome, WriteSwitch
<1>7. NoNewcomer
  BY <1>6 DEF NoNewcomer, ByCode, WithCode
<1>8. Spent'
  BY <1>7, SpentStays DEF Welcome, WriteSwitch
<1>9. Rows' /\ RootStaysActive'
  BY <1>2 DEF Welcome, Rows, RootStaysActive, WriteSwitch
<1> QED BY <1>3, <1>6, <1>8, <1>9 DEF Welcome

(* A request that is authenticated renews its session unless it was        *)
(* revoked since, and so only where its membership may still come in.      *)
LEMMA TouchKeeps == ASSUME Welcome, NEW v \in Visits, Touch(v) PROVE Welcome'
<1>1. /\ visit[v] \in Errands /\ visit[v].act = "touch" /\ visit[v].m \in Members
      /\ visit[v].s \in Sessions /\ session[visit[v].s].status # "NONE"
  BY InErrands DEF Welcome, Touch, Asked, Inside
<1>2. session[visit[v].s].status \in {"LIVE", "EXPIRED"}
  BY <1>1 DEF Welcome, Rows, Touch
<1>3. /\ session' \in [Sessions -> [status: {"NONE", "LIVE", "EXPIRED", "REVOKED"},
                                    m: Members \cup {NoMember}]]
      /\ \A t \in Sessions : session'[t] = session[t] \/ Follows(t)
  BY <1>1, <1>2, StatusFollows DEF Welcome, Touch
<1>4. Belonging' /\ SuspensionEndsAccess' /\ Lasting
  BY <1>3, SessionsKeep DEF Welcome, Touch
<1>5. [visit[v] EXCEPT !.act = "in", !.m = visit[v].m] \in Errands
  BY <1>1 DEF Errands, Asked, Inside
<1>6. session'[visit[v].s].status # "NONE"
  BY <1>1, <1>4 DEF Lasting
<1>7. /\ Visiting' /\ visit'[v].act = "in"
      /\ \A u \in Visits : u # v => visit'[u] = visit[u]
  BY <1>1, <1>4, <1>5, <1>6, Turning DEF Welcome, Touch
<1>8. NoNewcomer
  BY <1>7 DEF NoNewcomer, ByCode, WithCode
<1>9. Spent'
  BY <1>8, SpentStays DEF Welcome, Touch
<1>10. Rows' /\ RootStaysActive'
  BY <1>3 DEF Welcome, Rows, RootStaysActive, Touch
<1> QED BY <1>4, <1>7, <1>9, <1>10 DEF Welcome

(* The session that was switched from is revoked: it comes back for        *)
(* nobody.                                                                 *)
LEMMA RevokeOldKeeps == ASSUME Welcome, NEW v \in Visits, RevokeOld(v) PROVE Welcome'
<1>1. /\ visit[v] \in Errands /\ visit[v].act = "revoke"
      /\ visit[v].s \in Sessions /\ session[visit[v].s].status # "NONE"
  BY InErrands DEF Welcome, RevokeOld, Asked, Inside
<1>2. /\ session' \in [Sessions -> [status: {"NONE", "LIVE", "EXPIRED", "REVOKED"},
                                    m: Members \cup {NoMember}]]
      /\ \A t \in Sessions : session'[t] = session[t] \/ Follows(t)
  BY <1>1, StatusFollows DEF Welcome, RevokeOld
<1>3. Belonging' /\ SuspensionEndsAccess' /\ Lasting
  BY <1>2, SessionsKeep DEF Welcome, RevokeOld
<1>4. Visiting' /\ NoNewcomer
  BY <1>3, Going DEF Welcome, RevokeOld
<1>5. Spent'
  BY <1>4, SpentStays DEF Welcome, RevokeOld
<1>6. Rows' /\ RootStaysActive'
  BY <1>2 DEF Welcome, Rows, RootStaysActive, RevokeOld
<1> QED BY <1>3, <1>4, <1>5, <1>6 DEF Welcome

(* A session ends by the clock or by its owner.                            *)
LEMMA EndingKeeps == ASSUME Welcome, NEW s \in Sessions, Expire(s) \/ LogOut(s) PROVE Welcome'
<1>1. UNCHANGED <<member, root, code, visit>>
  BY DEF Expire, LogOut
<1>2. /\ session' \in [Sessions -> [status: {"NONE", "LIVE", "EXPIRED", "REVOKED"},
                                    m: Members \cup {NoMember}]]
      /\ \A t \in Sessions : session'[t] = session[t] \/ Follows(t)
  BY StatusFollows DEF Welcome, Expire, LogOut
<1>3. Belonging' /\ SuspensionEndsAccess' /\ Lasting
  BY <1>1, <1>2, SessionsKeep DEF Welcome
<1>4. Visiting'
  <2> SUFFICES ASSUME NEW v \in Visits, visit[v].act \in Inside
               PROVE  session'[visit[v].s].status # "NONE"
    BY <1>1 DEF Welcome, Visiting
  <2>1. visit[v] \in Errands
    BY DEF Welcome, Visiting, NoVisit, Inside
  <2>2. visit[v].s \in Sessions
    BY <2>1 DEF Errands
  <2> QED BY <2>2, <1>3 DEF Welcome, Visiting, Lasting
<1>5. NoNewcomer
  BY <1>1 DEF NoNewcomer, ByCode
<1>6. Spent'
  BY <1>1, <1>5, SpentStays DEF Welcome
<1>7. Rows' /\ RootStaysActive'
  BY <1>1, <1>2 DEF Welcome, Rows, RootStaysActive
<1> QED BY <1>3, <1>4, <1>6, <1>7 DEF Welcome

(* The two writes of a management row that leave sessions alone.           *)
LEMMA InviteKeeps == ASSUME Welcome, NEW v \in Visits, Invite(v) PROVE Welcome'
<1> DEFINE m == visit[v].m
<1>1. m \in Members
  BY InErrands DEF Welcome, Invite, Asked
<1>2. /\ member' = [member EXCEPT ![m] = [status |-> "ACTIVE", roles |-> "assigned", managed |-> TRUE]]
      /\ Managed(v, m) /\ UNCHANGED <<root, session, code>>
  BY DEF Invite
<1> HIDE DEF m
<1>3. Visiting' /\ NoNewcomer
  BY <1>2, Managing, Still DEF Welcome
<1>4. /\ member' \in [Members -> [status: {"NONE", "PENDING", "ACTIVE", "SUSPENDED"},
                                  roles: {"none", "config", "assigned"}, managed: BOOLEAN]]
      /\ member'[m].status = "ACTIVE"
      /\ \A n \in Members : n # m => member'[n] = member[n]
  BY <1>1, <1>2 DEF Welcome, Rows
<1>5. Rows'
  BY <1>2, <1>4 DEF Welcome, Rows
<1>6. \A n \in Members : /\ MayEnter(n) => member'[n].status \in {"PENDING", "ACTIVE"}
                         /\ member'[n].status = "SUSPENDED" => member'[n].managed
  BY <1>4 DEF Welcome, Belonging, MayEnter
<1>7. Belonging' /\ SuspensionEndsAccess'
  BY <1>2, <1>6, MembersKeep DEF Welcome
<1>8. RootStaysActive'
  BY <1>2, <1>4 DEF Welcome, Rows, RootStaysActive
<1>9. Spent'
  BY <1>2, <1>3, SpentStays DEF Welcome
<1> QED BY <1>3, <1>5, <1>7, <1>8, <1>9 DEF Welcome

(* A change of roles leaves the status of the member alone.                *)
LEMMA AssignRolesKeeps == ASSUME Welcome, NEW v \in Visits, AssignRoles(v) PROVE Welcome'
<1> DEFINE m == visit[v].m
           row == [member[m] EXCEPT !.roles = "assigned", !.managed = TRUE]
<1>1. m \in Members
  BY InErrands DEF Welcome, AssignRoles, Asked
<1>2. /\ member' = [member EXCEPT ![m] = row]
      /\ Managed(v, m) /\ UNCHANGED <<root, session, code>>
  BY DEF AssignRoles
<1>3. /\ row \in [status: {"NONE", "PENDING", "ACTIVE", "SUSPENDED"},
                  roles: {"none", "config", "assigned"}, managed: BOOLEAN]
      /\ row.status = member[m].status /\ row.managed
  <2>1. member[m] \in [status: {"NONE", "PENDING", "ACTIVE", "SUSPENDED"},
                       roles: {"none", "config", "assigned"}, managed: BOOLEAN]
    BY <1>1 DEF Welcome, Rows
  <2> HIDE DEF m
  <2> QED BY <2>1
<1> HIDE DEF m, row
<1>4. Visiting' /\ NoNewcomer
  BY <1>2, Managing, Still DEF Welcome
<1>5. /\ member' \in [Members -> [status: {"NONE", "PENDING", "ACTIVE", "SUSPENDED"},
                                  roles: {"none", "config", "assigned"}, managed: BOOLEAN]]
      /\ \A n \in Members : /\ member'[n].status = member[n].status
                            /\ member'[n].managed = member[n].managed \/ member'[n].managed
  <2>1. member' \in [Members -> [status: {"NONE", "PENDING", "ACTIVE", "SUSPENDED"},
                                 roles: {"none", "config", "assigned"}, managed: BOOLEAN]]
    BY <1>1, <1>2, <1>3 DEF Welcome, Rows
  <2>2. member'[m] = row /\ \A n \in Members : n # m => member'[n] = member[n]
    BY <1>1, <1>2 DEF Welcome, Rows
  <2> QED BY <1>3, <2>1, <2>2
<1>6. Rows'
  BY <1>2, <1>5 DEF Welcome, Rows
<1>7. \A n \in Members : /\ MayEnter(n) => member'[n].status \in {"PENDING", "ACTIVE"}
                         /\ member'[n].status = "SUSPENDED" => member'[n].managed
  BY <1>5 DEF Welcome, Belonging, MayEnter
<1>8. Belonging' /\ SuspensionEndsAccess'
  BY <1>2, <1>7, MembersKeep DEF Welcome
<1>9. RootStaysActive'
  BY <1>2, <1>5 DEF Welcome, Rows, RootStaysActive
<1>10. Spent'
  BY <1>2, <1>4, SpentStays DEF Welcome
<1> QED BY <1>4, <1>6, <1>8, <1>9, <1>10 DEF Welcome

(* A suspension takes the sessions with it, and never ROOT.                *)
LEMMA UpdateStatusKeeps ==
    ASSUME Welcome, NEW v \in Visits, NEW m \in Members, UpdateStatus(v, m) PROVE Welcome'
<1> DEFINE to == visit[v].to
           row == [member[m] EXCEPT !.status = to, !.managed = TRUE]
<1>1. to \in {"ACTIVE", "SUSPENDED"}
  <2>1. visit[v] \in Errands /\ visit[v].act = "status"
    BY InErrands DEF Welcome, UpdateStatus, Asked
  <2> QED BY <2>1 DEF Errands
<1>2. /\ to = "SUSPENDED" => root # m
      /\ member' = [member EXCEPT ![m] = row] /\ Managed(v, m) /\ UNCHANGED <<root, code>>
      /\ IF to = "SUSPENDED" THEN Revoked(m) ELSE UNCHANGED session
  BY DEF UpdateStatus
<1>3. /\ row \in [status: {"NONE", "PENDING", "ACTIVE", "SUSPENDED"},
                  roles: {"none", "config", "assigned"}, managed: BOOLEAN]
      /\ row.status = to /\ row.managed
  <2>1. member[m] \in [status: {"NONE", "PENDING", "ACTIVE", "SUSPENDED"},
                       roles: {"none", "config", "assigned"}, managed: BOOLEAN]
    BY DEF Welcome, Rows
  <2>2. to \in {"NONE", "PENDING", "ACTIVE", "SUSPENDED"}
    BY <1>1
  <2> HIDE DEF to
  <2> QED BY <2>1, <2>2
<1> HIDE DEF to, row
<1>4. /\ member' \in [Members -> [status: {"NONE", "PENDING", "ACTIVE", "SUSPENDED"},
                                  roles: {"none", "config", "assigned"}, managed: BOOLEAN]]
      /\ member'[m].status = to /\ member'[m].managed
      /\ \A n \in Members : n # m => member'[n] = member[n]
  BY <1>2, <1>3 DEF Welcome, Rows
<1>5. ASSUME NEW s \in Sessions
      PROVE  /\ session'[s] \in [status: {"NONE", "LIVE", "EXPIRED", "REVOKED"}, m: Members \cup {NoMember}]
             /\ session'[s].m = session[s].m
             /\ session'[s] = session[s] \/ session'[s].status = "REVOKED"
             /\ to = "SUSPENDED" /\ session[s].m = m => session'[s].status = "REVOKED"
             /\ session'[s].status = "NONE" => session[s].status = "NONE"
             /\ session'[s].status = "REVOKED" => session[s].status = "REVOKED" \/ session[s].m = m
  <2>1. session[s] \in [status: {"NONE", "LIVE", "EXPIRED", "REVOKED"}, m: Members \cup {NoMember}]
    BY DEF Welcome, Rows
  <2>2. CASE to = "SUSPENDED" /\ session[s].m = m
    <3>1. session'[s] = [session[s] EXCEPT !.status = "REVOKED"]
      BY <1>2, <2>2 DEF Revoked
    <3> QED BY <3>1, <2>1, <2>2
  <2>3. CASE ~(to = "SUSPENDED" /\ session[s].m = m)
    <3>1. session'[s] = session[s]
      BY <1>2, <2>3 DEF Revoked
    <3> QED BY <3>1, <2>1, <2>3
  <2> QED BY <2>2, <2>3
<1>6. session' \in [Sessions -> [status: {"NONE", "LIVE", "EXPIRED", "REVOKED"}, m: Members \cup {NoMember}]]
  <2>1. DOMAIN session' = Sessions /\ session' = [s \in Sessions |-> session'[s]]
    BY <1>2 DEF Welcome, Rows, Revoked
  <2> QED BY <2>1, <1>5
<1>7. Lasting
  BY <1>5 DEF Lasting
<1>8. Visiting' /\ NoNewcomer
  BY <1>2, <1>7, Managing DEF Welcome
<1>9. Rows'
  BY <1>2, <1>4, <1>6 DEF Welcome, Rows
<1>10. Belonging'
  <2>1. ASSUME NEW s \in Sessions, session'[s].status # "NONE" PROVE session'[s].m \in Members
    BY <2>1, <1>5 DEF Welcome, Belonging
  <2>2. ASSUME NEW n \in Members, member'[n].status = "SUSPENDED" PROVE member'[n].managed
    BY <2>2, <1>4 DEF Welcome, Belonging
  <2> QED BY <2>1, <2>2 DEF Belonging
<1>11. SuspensionEndsAccess'
  <2> SUFFICES ASSUME NEW s \in Sessions, session'[s].status \in {"LIVE", "EXPIRED"}
               PROVE  member'[session'[s].m].status \in {"PENDING", "ACTIVE"}
    BY DEF SuspensionEndsAccess, MayEnter
  <2>1. session'[s] = session[s] /\ ~(to = "SUSPENDED" /\ session[s].m = m)
    BY <1>5
  <2>2. session[s].m \in Members /\ member[session[s].m].status \in {"PENDING", "ACTIVE"}
    BY <2>1 DEF Welcome, Belonging, SuspensionEndsAccess, MayEnter
  <2> QED BY <2>1, <2>2, <1>1, <1>4
<1>12. RootStaysActive'
  BY <1>1, <1>2, <1>4 DEF Welcome, Rows, RootStaysActive
<1>13. Spent'
  BY <1>2, <1>8, SpentStays DEF Welcome
<1> QED BY <1>8, <1>9, <1>10, <1>11, <1>12, <1>13 DEF Welcome

(* Every step of the desk of access keeps the invariant.                   *)
LEMMA WelcomeStays == Welcome /\ [AccessNext]_accessVars => Welcome'
<1> SUFFICES ASSUME Welcome, [AccessNext]_accessVars PROVE Welcome'
  OBVIOUS
<1>1. CASE UNCHANGED accessVars
  <2>1. Visiting' /\ NoNewcomer
    BY <1>1 DEF Welcome, Visiting, NoNewcomer, ByCode, accessVars
  <2> QED BY <1>1, <2>1, ReadsKeep DEF accessVars
<1>2. ASSUME NEW v \in Visits, NEW m \in Members, NEW role \in {"ROOT", "OTHER"}, ResolvePassword(v, m, role)
      PROVE  Welcome'
  BY <1>2, ResolvePasswordKeeps
<1>3. ASSUME NEW v \in Visits, Activate(v) \/ Touch(v) \/ RevokeOld(v) \/ Invite(v) \/ AssignRoles(v) \/ Leave(v)
      PROVE  Welcome'
  BY <1>3, ActivateKeeps, TouchKeeps, RevokeOldKeeps, InviteKeeps, AssignRolesKeeps, LeaveKeeps
<1>4. ASSUME NEW v \in Visits, NEW x \in Invited,
             ReadCode(v, x) \/ Consume(v, x) \/ Resolve(v, x) \/ ReadSwitch(v, x) \/ ReadInvite(v, x)
      PROVE  Welcome'
  BY <1>4, ReadCodeKeeps, ConsumeKeeps, ResolveKeeps, ReadSwitchKeeps, ReadInviteKeeps
<1>5. ASSUME NEW v \in Visits, NEW s \in Sessions,
             CreateSession(v, s) \/ ReadSession(v, s) \/ WriteSwitch(v, s)
      PROVE  Welcome'
  BY <1>5, CreateSessionKeeps, ReadSessionKeeps, WriteSwitchKeeps
<1>6. ASSUME NEW v \in Visits, NEW m \in Members, NEW to \in {"ACTIVE", "SUSPENDED"}, ReadStatus(v, m, to)
      PROVE  Welcome'
  BY <1>6, ReadStatusKeeps
<1>7. ASSUME NEW v \in Visits, NEW m \in Members, UpdateStatus(v, m) \/ ReadRoles(v, m)
      PROVE  Welcome'
  BY <1>7, UpdateStatusKeeps, ReadRolesKeeps
<1>8. ASSUME NEW x \in Invited, MailCode(x) PROVE Welcome'
  BY <1>8, MailCodeKeeps
<1>9. ASSUME NEW s \in Sessions, Expire(s) \/ LogOut(s) PROVE Welcome'
  BY <1>9, EndingKeeps
<1> QED BY <1>1, <1>2, <1>3, <1>4, <1>5, <1>6, <1>7, <1>8, <1>9 DEF AccessNext

-----------------------------------------------------------------------------
(* The desk of access, in the specification MCHostingDevices checks. *)

WelcomeAtDesk == desk = "access" => Welcome

(* The desk that moves is settled by the first state, and the other desk   *)
(* changes no row of this one.                                             *)
LEMMA WelcomeAlways == IdentitySpec => []WelcomeAtDesk
<1>1. IdentityInit => WelcomeAtDesk
  BY WelcomeInit DEF IdentityInit, WelcomeAtDesk
<1>2. WelcomeAtDesk /\ [IdentityNext]_identityVars => WelcomeAtDesk'
  <2> SUFFICES ASSUME WelcomeAtDesk, [IdentityNext]_identityVars, desk' = "access" PROVE Welcome'
    BY DEF WelcomeAtDesk
  <2>1. desk = "access" /\ Welcome /\ [AccessNext]_accessVars
    BY DEF WelcomeAtDesk, IdentityNext, identityVars
  <2> QED BY <2>1, WelcomeStays
<1> QED BY <1>1, <1>2, PTL DEF IdentitySpec

(* Whatever logins, switches and requests were under way when it was       *)
(* suspended, no session of a suspended membership can be used; ROOT is    *)
(* active; a code that was mailed lets in once (account-auth-store.ts).    *)
THEOREM AccessStaysSound == IdentitySpec => []AccessIsSound
<1>1. WelcomeAtDesk => AccessIsSound
  BY WelcomeSays DEF WelcomeAtDesk, AccessIsSound
<1> QED BY <1>1, WelcomeAlways, PTL

(* What a step does to ROOT and to a suspension.                           *)
LEMMA SuspensionStep == Welcome /\ [AccessNext]_accessVars => SuspensionLasts
<1> SUFFICES ASSUME Welcome, [AccessNext]_accessVars PROVE SuspensionLasts
  OBVIOUS
<1>1. ASSUME root # NoMember PROVE root' = root
  <2>1. CASE UNCHANGED root
    BY <2>1
  <2>2. ASSUME NEW v \in Visits, Activate(v) PROVE root' = root
    BY <1>1, <2>2 DEF Activate
  <2> QED BY <2>1, <2>2 DEF AccessNext, accessVars, ResolvePassword, Touch, RevokeOld, Invite, AssignRoles,
             Leave, ReadCode, Consume, Resolve, ReadSwitch, ReadInvite, CreateSession, ReadSession,
             WriteSwitch, ReadStatus, UpdateStatus, ReadRoles, MailCode, Expire, LogOut
<1>2. ASSUME NEW n \in Members, member[n].status = "SUSPENDED", member'[n].status # "SUSPENDED"
      PROVE  \E v \in Visits : /\ visit[v].act = "status" /\ visit[v].m = n
                               /\ visit[v].to = "ACTIVE" /\ visit[v].fresh
  <2>1. CASE UNCHANGED member
    BY <1>2, <2>1
  <2>2. ASSUME NEW m \in Members, Resolved(m) PROVE FALSE
    BY <1>2, <2>2, ResolvedMember DEF Welcome
  <2>3. ASSUME NEW v \in Visits, Activate(v) PROVE FALSE
    BY <1>2, <2>3 DEF Activate, MayEnter, Welcome, Rows
  <2>4. ASSUME NEW v \in Visits, Invite(v) PROVE FALSE
    BY <1>2, <2>4 DEF Invite, Welcome, Belonging, Rows
  <2>5. ASSUME NEW v \in Visits, AssignRoles(v) PROVE FALSE
    BY <1>2, <2>5 DEF AssignRoles, Welcome, Rows
  <2>6. ASSUME NEW v \in Visits, NEW m \in Members, UpdateStatus(v, m)
        PROVE  visit[v].act = "status" /\ visit[v].m = n /\ visit[v].to = "ACTIVE" /\ visit[v].fresh
    <3>1. visit[v] \in Errands /\ visit[v].act = "status" /\ visit[v].m = m /\ visit[v].fresh
      BY <2>6, InErrands DEF Welcome, UpdateStatus, Asked, Managed
    <3>2. n = m /\ member'[n].status = visit[v].to
      BY <1>2, <2>6 DEF UpdateStatus, Welcome, Rows
    <3> QED BY <1>2, <3>1, <3>2 DEF Errands
  <2>7. ASSUME NEW v \in Visits, NEW m \in Members, NEW role \in {"ROOT", "OTHER"}, ResolvePassword(v, m, role)
        PROVE  FALSE
    BY <2>2, <2>7 DEF ResolvePassword
  <2>8. ASSUME NEW v \in Visits, NEW x \in Invited, Resolve(v, x) PROVE FALSE
    BY <2>2, <2>8, Names DEF Resolve
  <2> QED BY <2>1, <2>3, <2>4, <2>5, <2>6, <2>7, <2>8 DEF AccessNext, accessVars, Touch, RevokeOld,
             Leave, ReadCode, Consume, ReadSwitch, ReadInvite, CreateSession, ReadSession,
             WriteSwitch, ReadStatus, ReadRoles, MailCode, Expire, LogOut
<1> QED BY <1>1, <1>2 DEF SuspensionLasts

(* ROOT is ROOT for good, and a suspension is lifted by a management       *)
(* request that saw it, never by a login, an invitation or a change of     *)
(* roles that had read the membership before (updatePrincipalStatus).      *)
THEOREM SuspensionsLast == IdentitySpec => SuspensionIsFinal
<1>1. WelcomeAtDesk /\ [IdentityNext]_identityVars => [desk = "access" => SuspensionLasts]_identityVars
  <2> SUFFICES ASSUME WelcomeAtDesk, [IdentityNext]_identityVars, desk = "access" PROVE SuspensionLasts
    OBVIOUS
  <2>1. Welcome /\ [AccessNext]_accessVars
    BY DEF WelcomeAtDesk, IdentityNext, identityVars
  <2> QED BY <2>1, SuspensionStep
<1> QED BY <1>1, WelcomeAlways, PTL DEF IdentitySpec, SuspensionIsFinal

-----------------------------------------------------------------------------
(* The machines of a supplier. *)

DeviceRow ==
    [status : {"ONLINE", "OFFLINE", "VERIFYING", "VERIFIED", "BUSY", "DRAINING", "REVOKED"},
     verification : {"NOT_RUN", "PENDING", "PASSED", "FAILED", "EXPIRED"},
     seq : 0 .. MaxBeats, challenge : Challenges]
RetirementRow ==
    [mode : {"GRACEFUL"}, status : {"DRAINING", "FINALIZED"}]
        \cup [mode : {"EMERGENCY"}, status : {"MANUAL_ACTION_REQUIRED", "FINALIZED"}]
OfferRow ==
    [status : {"DRAFT", "PUBLISHED", "PAUSED", "RESERVED", "SUSPENDED", "UNLISTED"},
     version : Nat, device : Devices]
ContractRow ==
    [status : {"HELD", "CANCELLED", "PROVISIONING", "READY", "IN_SERVICE", "AWAITING_ACCEPTANCE",
               "DISPUTED", "FAILED", "CLEANING", "CLEANED"}, offer : Offers]
CommandRow ==
    [type : {"VERIFY", "PROVISION", "CLEANUP"}, device : Devices,
     contract : Contracts \cup {"none"}, status : {"OPEN", "SUCCEEDED", "FAILED"}]

(* What a handler under way may have read.                                 *)
Steps == {Idle}
    \cup [step : {"review"}, status : {"APPROVED", "REJECTED", "SUSPENDED"}, version : Nat]
    \cup [step : {"register"}, challenge : Challenges]
    \cup [step : {"beat"}, device : Devices, seq : 1 .. MaxBeats, changed : BOOLEAN,
          next : {"ONLINE", "OFFLINE", "VERIFYING", "VERIFIED", "BUSY", "DRAINING"}]
    \cup [step : {"cleanup"}, command : Nat, fresh : BOOLEAN]
    \cup [step : {"create"}, offer : Offers, device : Devices]
    \cup [step : {"offer"}, offer : Offers, status : {"PUBLISHED", "PAUSED", "UNLISTED"},
          version : Nat \ {0}]
    \cup [step : {"reserve"}, contract : Contracts, offer : Offers]

(* TypeOK, and the requests.                                               *)
Typed ==
    /\ mode \in Modes
    /\ profile.version \in Nat
    /\ profile.status \in {"NONE", "DRAFT", "SUBMITTED", "APPROVED", "REJECTED", "SUSPENDED"}
    /\ challenge \in [Challenges -> {"NONE", "OPEN", "LAPSED", "CONSUMED", "REVOKED"}]
    /\ device \in [Devices -> {NoDevice} \cup DeviceRow]
    /\ retirement \in [Devices -> {NoRetirement} \cup RetirementRow]
    /\ offer \in [Offers -> {NoOffer} \cup OfferRow]
    /\ contract \in [Contracts -> {NoContract} \cup ContractRow]
    /\ cmds \in Seq(CommandRow)
    /\ req \in [Requests -> Steps]

(* A heartbeat is of a machine, a cleanup of a command for it.             *)
Reading ==
    \A r \in Requests :
        /\ req[r].step = "beat" => Known(req[r].device)
        /\ req[r].step = "cleanup" =>
               req[r].command \in DOMAIN cmds /\ cmds[req[r].command].type = "CLEANUP"

(* What is listed is a machine that hosts.                                 *)
Hosting(d) == Known(d) /\ mode[device[d].challenge] = "FULL_HOST"

(* A listing is created by one request, and new; a change of its status    *)
(* that still has the version it read has the status it read, and the      *)
(* machine has not been retired since.                                     *)
CreatesNew(r) ==
    /\ offer[req[r].offer] = NoOffer /\ Hosting(req[r].device)
    /\ \A q \in Requests : req[q].step = "create" => q = r

Relists(r) ==
    LET o == req[r].offer IN
    /\ req[r].version <= offer[o].version
    /\ offer[o].version = req[r].version /\ req[r].status = "PUBLISHED" =>
           offer[o].status \in {"DRAFT", "PAUSED"} /\ ~Retired(offer[o].device)
    /\ offer[o].version = req[r].version /\ req[r].status = "PAUSED" =>
           offer[o].status = "PUBLISHED"

Listing ==
    /\ \A o \in Offers : offer[o] # NoOffer => Hosting(offer[o].device)
    /\ \A r \in Requests : /\ req[r].step = "create" => CreatesNew(r)
                           /\ req[r].step = "offer" => Relists(r)

(* A contract is on a listing, and a reservation is of a new one.          *)
Renting ==
    /\ \A k \in Contracts : contract[k] # NoContract => offer[contract[k].offer] # NoOffer
    /\ \A r \in Requests : req[r].step = "reserve" =>
          /\ contract[req[r].contract] = NoContract
          /\ \A q \in Requests : req[q].step = "reserve" => q = r

(* A command for a renter is on the machine of his contract; while it is   *)
(* open it is the only one, and the contract is in its status.             *)
ForRenter == {"PROVISION", "CLEANUP"}

Addressed(i) ==
    LET k == cmds[i].contract IN
    /\ k \in Contracts /\ contract[k] # NoContract /\ cmds[i].device = DeviceOf(k)
    /\ cmds[i].status = "OPEN" =>
           contract[k].status = IF cmds[i].type = "CLEANUP" THEN "CLEANING" ELSE "PROVISIONING"

Commanding ==
    /\ \A i \in DOMAIN cmds : cmds[i].type \in ForRenter => Addressed(i)
    /\ \A i, j \in DOMAIN cmds :
          (/\ cmds[i].type \in ForRenter /\ cmds[j].type \in ForRenter
           /\ cmds[i].status = "OPEN" /\ cmds[j].status = "OPEN"
           /\ cmds[i].contract = cmds[j].contract) => i = j

(* RetirementIsFinal, row by row.                                          *)
Ended(d) == Retired(d) /\ (retirement[d].mode = "GRACEFUL" \/ retirement[d].status = "FINALIZED")

RetiredMachines ==
    \A d \in Devices : Retired(d) =>
        /\ device[d].status \in {"DRAINING", "REVOKED"} /\ device[d].verification = "EXPIRED"
        /\ retirement[d].status = "FINALIZED" => device[d].status = "REVOKED"
RetiredListings ==
    \A o \in Offers : offer[o] # NoOffer /\ Retired(offer[o].device)
        => offer[o].status \in {"DRAFT", "SUSPENDED", "UNLISTED"}
RetiredCommands ==
    \A i \in DOMAIN cmds : cmds[i].status = "OPEN" /\ Retired(cmds[i].device) => cmds[i].type = "CLEANUP"
RetiredContracts ==
    \A k \in Contracts : contract[k].status \notin Over => ~Ended(DeviceOf(k))

InHand == /\ Typed /\ Reading /\ QuotaIsKept /\ Listing /\ Renting /\ Commanding
          /\ RetiredMachines /\ RetiredListings /\ RetiredCommands /\ RetiredContracts

(* Rows that are there have their fields.                                  *)
LEMMA Kinds ==
    ASSUME Typed
    PROVE  /\ \A d \in Devices : Known(d) => device[d] \in DeviceRow /\ device[d].challenge \in Challenges
           /\ \A o \in Offers : offer[o] # NoOffer => offer[o] \in OfferRow /\ offer[o].device \in Devices
           /\ \A o \in Offers : offer[o].version \in Nat
           /\ \A k \in Contracts : contract[k] # NoContract => contract[k] \in ContractRow
                                                               /\ contract[k].offer \in Offers
           /\ \A k \in Contracts : contract[k].status # "NONE" => contract[k] # NoContract
           /\ \A i \in DOMAIN cmds : cmds[i] \in CommandRow /\ cmds[i].device \in Devices
           /\ \A o \in Offers : offer[o].status # "NONE" => offer[o] # NoOffer
           /\ \A d \in Devices : device[d].status # "NONE" => Known(d)
<1>1. \A d \in Devices : Known(d) => device[d] \in DeviceRow /\ device[d].challenge \in Challenges
  BY DEF Typed, Known, DeviceRow
<1>2. \A o \in Offers : /\ offer[o] # NoOffer => offer[o] \in OfferRow /\ offer[o].device \in Devices
                        /\ offer[o].version \in Nat
  BY DEF Typed, OfferRow, NoOffer
<1>3. \A k \in Contracts : contract[k] # NoContract => contract[k] \in ContractRow
                                                       /\ contract[k].offer \in Offers
  BY DEF Typed, ContractRow
<1>4. \A i \in DOMAIN cmds : cmds[i] \in CommandRow /\ cmds[i].device \in Devices
  <2>1. \A i \in DOMAIN cmds : cmds[i] \in CommandRow
    BY DEF Typed
  <2> QED BY <2>1 DEF CommandRow
<1>5. /\ \A k \in Contracts : contract[k].status # "NONE" => contract[k] # NoContract
      /\ \A o \in Offers : offer[o].status # "NONE" => offer[o] # NoOffer
      /\ \A d \in Devices : device[d].status # "NONE" => Known(d)
  BY DEF NoContract, NoOffer, NoDevice, Known
<1> QED BY <1>1, <1>2, <1>3, <1>4, <1>5

(* The invariant says what MCHostingDevices checks of machines.            *)
LEMMA InHandSays == InHand => TypeOK /\ QuotaIsKept /\ RetirementIsFinal
<1> SUFFICES ASSUME InHand PROVE TypeOK /\ QuotaIsKept /\ RetirementIsFinal
  OBVIOUS
<1>1. TypeOK
  BY DEF InHand, Typed, TypeOK, DeviceRow, RetirementRow, OfferRow, ContractRow, CommandRow
<1>2. ASSUME NEW d \in Devices, Retired(d)
      PROVE  /\ device[d].status \in {"DRAINING", "REVOKED"} /\ device[d].verification = "EXPIRED"
             /\ \A o \in OffersOf(d) : offer[o].status \in {"DRAFT", "SUSPENDED", "UNLISTED"}
             /\ \A i \in OpenOn(d) : cmds[i].type = "CLEANUP"
             /\ retirement[d].mode = "GRACEFUL" \/ retirement[d].status = "FINALIZED"
                    => ActiveOn(d) = {} /\ OpenOn(d) = {}
             /\ retirement[d].status = "FINALIZED" => device[d].status = "REVOKED"
  <2>1. /\ device[d].status \in {"DRAINING", "REVOKED"} /\ device[d].verification = "EXPIRED"
        /\ retirement[d].status = "FINALIZED" => device[d].status = "REVOKED"
    BY <1>2 DEF InHand, RetiredMachines
  <2>2. \A o \in OffersOf(d) : offer[o].status \in {"DRAFT", "SUSPENDED", "UNLISTED"}
    BY <1>2 DEF InHand, RetiredListings, OffersOf
  <2>3. \A i \in OpenOn(d) : cmds[i].type = "CLEANUP"
    BY <1>2 DEF InHand, RetiredCommands, OpenOn
  <2>4. ASSUME Ended(d) PROVE ActiveOn(d) = {}
    BY <2>4 DEF InHand, RetiredContracts, ActiveOn
  <2>5. ASSUME Ended(d) PROVE OpenOn(d) = {}
    <3> SUFFICES ASSUME NEW i \in OpenOn(d) PROVE FALSE
      OBVIOUS
    <3>1. i \in DOMAIN cmds /\ cmds[i].device = d /\ cmds[i].status = "OPEN" /\ cmds[i].type = "CLEANUP"
      BY <2>3 DEF OpenOn
    <3>2. /\ cmds[i].contract \in Contracts /\ DeviceOf(cmds[i].contract) = d
          /\ contract[cmds[i].contract].status = "CLEANING"
      BY <3>1 DEF InHand, Commanding, ForRenter, Addressed
    <3>3. cmds[i].contract \in ActiveOn(d)
      BY <3>2 DEF ActiveOn, Over
    <3> QED BY <3>3, <2>4, <2>5
  <2> QED BY <1>2, <2>1, <2>2, <2>3, <2>4, <2>5 DEF Ended
<1>3. RetirementIsFinal
  BY <1>2 DEF RetirementIsFinal
<1> QED BY <1>1, <1>3 DEF InHand

(* Before the supplier came there is no row at all.                        *)
LEMMA InHandInit == Init => InHand
<1> SUFFICES ASSUME Init PROVE InHand
  OBVIOUS
<1>1. Typed
  BY DEF Init, Typed, Steps
<1>2. Reading /\ Renting
  BY DEF Init, Reading, Renting, Idle, NoContract
<1>3. QuotaIsKept
  <2>1. OnTelemetry = {} /\ \A d \in Devices : ~Known(d)
    BY DEF Init, OnTelemetry, Known
  <2> QED BY <2>1, FS_EmptySet, DevicesAssumption DEF QuotaIsKept
<1>4. Listing
  BY DEF Init, Listing, Idle
<1>5. Commanding /\ RetiredCommands
  BY DEF Init, Commanding, RetiredCommands
<1>6. RetiredMachines /\ RetiredListings /\ RetiredContracts
  BY DEF Init, RetiredMachines, RetiredListings, RetiredContracts, Retired, Ended, NoContract, Over
<1> QED BY <1>1, <1>2, <1>3, <1>4, <1>5, <1>6 DEF InHand

(* What the rows of a step that creates none, or one, are allowed to be.   *)
MachineMoves(d) ==
    \/ device'[d] = device[d]
    \/ /\ Known(d) /\ device'[d] \in DeviceRow /\ device'[d].challenge = device[d].challenge
    \/ /\ ~Known(d) /\ device'[d] \in DeviceRow

ListingMoves(o) ==
    \/ offer'[o] = offer[o]
    \/ /\ offer[o] # NoOffer /\ offer'[o] \in OfferRow
       /\ offer'[o].device = offer[o].device /\ offer'[o].version > offer[o].version
    \/ /\ offer[o] = NoOffer /\ offer'[o] \in OfferRow
       /\ Hosting(offer'[o].device) /\ \A r \in Requests : req'[r].step # "create"

ContractMoves(k) ==
    \/ contract'[k] = contract[k]
    \/ /\ contract[k] # NoContract /\ contract'[k] \in ContractRow
       /\ contract'[k].offer = contract[k].offer
    \/ /\ contract[k] = NoContract /\ contract'[k] \in ContractRow
       /\ offer[contract'[k].offer] # NoOffer /\ \A r \in Requests : req'[r].step # "reserve"

Leaving == \A r \in Requests : req'[r] = req[r] \/ req'[r] = Idle

(* A row that exists is not lost.                                          *)
LEMMA Lasts ==
    ASSUME Typed, Renting, \A d \in Devices : MachineMoves(d), \A o \in Offers : ListingMoves(o),
           \A k \in Contracts : ContractMoves(k), UNCHANGED mode
    PROVE  /\ \A d \in Devices : Known(d) => Known(d)' /\ device'[d].challenge = device[d].challenge
           /\ \A d \in Devices : Hosting(d) => Hosting(d)'
           /\ \A o \in Offers : offer[o] # NoOffer => /\ offer'[o] # NoOffer
                                                      /\ offer'[o].device = offer[o].device
           /\ \A k \in Contracts : contract[k] # NoContract =>
                  contract'[k] # NoContract /\ contract'[k].offer = contract[k].offer
           /\ \A k \in Contracts : contract[k] # NoContract =>
                  offer'[contract'[k].offer].device = DeviceOf(k)
<1>1. ASSUME NEW d \in Devices, Known(d) PROVE Known(d)' /\ device'[d].challenge = device[d].challenge
  BY <1>1 DEF MachineMoves, Known, DeviceRow, NoDevice
<1>2. \A d \in Devices : Hosting(d) => Hosting(d)'
  BY <1>1 DEF Hosting
<1>3. \A o \in Offers : offer[o] # NoOffer => offer'[o] # NoOffer /\ offer'[o].device = offer[o].device
  BY DEF ListingMoves, OfferRow, NoOffer
<1>4. \A k \in Contracts : contract[k] # NoContract =>
          contract'[k] # NoContract /\ contract'[k].offer = contract[k].offer
  BY DEF ContractMoves, ContractRow, NoContract
<1>5. \A k \in Contracts : contract[k] # NoContract => contract[k].offer \in Offers
  BY Kinds
<1>6. \A k \in Contracts : contract[k] # NoContract => offer'[contract'[k].offer].device = DeviceOf(k)
  <2> SUFFICES ASSUME NEW k \in Contracts, contract[k] # NoContract,
                      offer[contract[k].offer] # NoOffer
               PROVE  offer'[contract'[k].offer].device = DeviceOf(k)
    BY DEF Renting
  <2> QED BY <1>3, <1>4, <1>5 DEF DeviceOf
<1> QED BY <1>1, <1>2, <1>3, <1>4, <1>6

(* The types, for a step of these.                                         *)
LEMMA TypedStays ==
    ASSUME Typed, UNCHANGED mode, Leaving,
           profile'.version \in Nat,
           profile'.status \in {"NONE", "DRAFT", "SUBMITTED", "APPROVED", "REJECTED", "SUSPENDED"},
           challenge' \in [Challenges -> {"NONE", "OPEN", "LAPSED", "CONSUMED", "REVOKED"}],
           retirement' \in [Devices -> {NoRetirement} \cup RetirementRow],
           cmds' \in Seq(CommandRow),
           device' = [d \in Devices |-> device'[d]], \A d \in Devices : MachineMoves(d),
           offer' = [o \in Offers |-> offer'[o]], \A o \in Offers : ListingMoves(o),
           contract' = [k \in Contracts |-> contract'[k]], \A k \in Contracts : ContractMoves(k),
           req' = [r \in Requests |-> req'[r]]
    PROVE  Typed'
<1>1. device' \in [Devices -> {NoDevice} \cup DeviceRow]
  BY DEF Typed, MachineMoves
<1>2. offer' \in [Offers -> {NoOffer} \cup OfferRow]
  BY DEF Typed, ListingMoves
<1>3. contract' \in [Contracts -> {NoContract} \cup ContractRow]
  BY DEF Typed, ContractMoves
<1>4. req' \in [Requests -> Steps]
  <2>1. \A r \in Requests : req'[r] \in Steps
    BY DEF Typed, Leaving, Steps
  <2> QED BY <2>1
<1> QED BY <1>1, <1>2, <1>3, <1>4 DEF Typed

(* What a heartbeat or a cleanup has read is still there.                  *)
LEMMA ReadingStays ==
    ASSUME Typed, Reading, Renting, UNCHANGED mode, Leaving, DOMAIN cmds \subseteq DOMAIN cmds',
           \A i \in DOMAIN cmds : cmds'[i].type = cmds[i].type,
           \A d \in Devices : MachineMoves(d), \A o \in Offers : ListingMoves(o),
           \A k \in Contracts : ContractMoves(k)
    PROVE  Reading'
<1>1. ASSUME NEW r \in Requests, req'[r].step = "beat" PROVE Known(req[r].device)'
  <2>1. req'[r] = req[r] /\ req[r].step = "beat"
    BY <1>1 DEF Leaving, Idle
  <2>2. req[r].device \in Devices /\ Known(req[r].device)
    BY <2>1 DEF Typed, Steps, Reading, Idle
  <2>3. device'[req[r].device] # NoDevice
    BY <2>2, Lasts DEF Known
  <2> QED BY <2>1, <2>3 DEF Known
<1>2. ASSUME NEW r \in Requests, req'[r].step = "cleanup" 
      PROVE  req'[r].command \in DOMAIN cmds' /\ cmds'[req'[r].command].type = "CLEANUP"
  BY <1>2 DEF Leaving, Idle, Reading
<1> QED BY <1>1, <1>2 DEF Reading

(* A listing that a step touches has a new version, so whoever read it     *)
(* before will not touch it.                                               *)
LEMMA ListingStays ==
    ASSUME Typed, Listing, Renting, UNCHANGED mode, Leaving,
           \A d \in Devices : MachineMoves(d), \A o \in Offers : ListingMoves(o),
           \A k \in Contracts : ContractMoves(k),
           \A o \in Offers : offer'[o] = offer[o] /\ offer[o].status \in {"DRAFT", "PAUSED"}
               => (Retired(offer[o].device)' => Retired(offer[o].device))
    PROVE  Listing'
<1>1. ASSUME NEW o \in Offers, offer'[o] # NoOffer PROVE Hosting(offer[o].device)'
  <2>1. CASE offer[o] # NoOffer
    <3>1. Hosting(offer[o].device) /\ offer[o].device \in Devices /\ offer'[o].device = offer[o].device
      BY <2>1, Lasts, Kinds DEF Listing
    <3>2. device'[offer[o].device] # NoDevice /\ mode'[device'[offer[o].device].challenge] = "FULL_HOST"
      BY <3>1, Lasts DEF Hosting, Known
    <3> QED BY <3>1, <3>2 DEF Hosting, Known
  <2>2. CASE offer[o] = NoOffer
    <3>1. Hosting(offer'[o].device) /\ offer'[o].device \in Devices
      BY <1>1, <2>2 DEF ListingMoves, OfferRow
    <3> DEFINE d == offer'[o].device
    <3>2. device'[d] # NoDevice /\ mode'[device'[d].challenge] = "FULL_HOST"
      BY <3>1, Lasts DEF Hosting, Known
    <3> QED BY <3>2 DEF Hosting, Known
  <2> QED BY <2>1, <2>2
<1>2. ASSUME NEW r \in Requests, req'[r].step = "create" PROVE CreatesNew(r)'
  <2>1. req'[r] = req[r] /\ req[r].step = "create" /\ CreatesNew(r)
    BY <1>2 DEF Leaving, Idle, Listing
  <2>2. req[r].offer \in Offers /\ req[r].device \in Devices
    BY <2>1 DEF Typed, Steps, Idle
  <2>3. offer'[req[r].offer] = NoOffer
    BY <1>2, <2>1, <2>2 DEF ListingMoves, CreatesNew
  <2>4. Hosting(req[r].device)'
    BY <2>1, <2>2, Lasts DEF CreatesNew
  <2>5. \A q \in Requests : req'[q].step = "create" => q = r
    BY <2>1 DEF CreatesNew, Leaving, Idle
  <2> QED BY <2>1, <2>3, <2>4, <2>5 DEF CreatesNew, Hosting, Known
<1>3. ASSUME NEW r \in Requests, req'[r].step = "offer" PROVE Relists(r)'
  <2> DEFINE o == req[r].offer
  <2>1. req'[r] = req[r] /\ req[r].step = "offer" /\ Relists(r)
    BY <1>3 DEF Leaving, Idle, Listing
  <2>2. o \in Offers /\ req[r].version \in Nat /\ req[r].version # 0
    BY <2>1 DEF Typed, Steps, Idle
  <2>3. req[r].version <= offer[o].version /\ offer[o].version \in Nat
    BY <2>1, <2>2, Kinds DEF Relists
  <2>4. offer[o] # NoOffer
    BY <2>2, <2>3 DEF NoOffer
  <2> HIDE DEF o
  <2>5. CASE offer'[o] = offer[o]
    <3>1. /\ req[r].version <= offer[o].version
          /\ offer[o].version = req[r].version /\ req[r].status = "PUBLISHED" =>
                 offer[o].status \in {"DRAFT", "PAUSED"} /\ ~Retired(offer[o].device)
          /\ offer[o].version = req[r].version /\ req[r].status = "PAUSED" =>
                 offer[o].status = "PUBLISHED"
      BY <2>1 DEF Relists, o
    <3>2. offer[o].status \in {"DRAFT", "PAUSED"} /\ ~Retired(offer[o].device)
              => retirement'[offer'[o].device] = NoRetirement
      BY <2>2, <2>5 DEF Retired
    <3>3. /\ req'[r].version <= offer'[o].version
          /\ offer'[o].version = req'[r].version /\ req'[r].status = "PUBLISHED" =>
                 offer'[o].status \in {"DRAFT", "PAUSED"} /\ retirement'[offer'[o].device] = NoRetirement
          /\ offer'[o].version = req'[r].version /\ req'[r].status = "PAUSED" =>
                 offer'[o].status = "PUBLISHED"
      BY <2>1, <2>5, <3>1, <3>2
    <3> QED BY <2>1, <3>3 DEF Relists, Retired, o
  <2>6. CASE offer'[o] # offer[o]
    <3>1. offer'[o].version > offer[o].version /\ offer'[o].version \in Nat
      BY <2>2, <2>4, <2>6 DEF ListingMoves, OfferRow
    <3>2. req[r].version < offer'[o].version
      BY <2>2, <2>3, <3>1
    <3> QED BY <2>1, <2>2, <3>1, <3>2 DEF Relists, o
  <2> QED BY <2>5, <2>6
<1> QED BY <1>1, <1>2, <1>3 DEF Listing

(* A contract keeps its listing, and a reservation its contract that is    *)
(* not there yet.                                                          *)
LEMMA RentingStays ==
    ASSUME Typed, Renting, UNCHANGED mode, Leaving,
           \A d \in Devices : MachineMoves(d), \A o \in Offers : ListingMoves(o),
           \A k \in Contracts : ContractMoves(k)
    PROVE  Renting'
<1>1. ASSUME NEW k \in Contracts, contract'[k] # NoContract PROVE offer'[contract'[k].offer] # NoOffer
  <2>1. contract'[k].offer \in Offers /\ offer[contract'[k].offer] # NoOffer
    <3>1. CASE contract[k] # NoContract
      BY <3>1, Lasts, Kinds DEF Renting
    <3>2. CASE contract[k] = NoContract
      BY <1>1, <3>2 DEF ContractMoves, ContractRow
    <3> QED BY <3>1, <3>2
  <2> QED BY <2>1, Lasts
<1>2. ASSUME NEW r \in Requests, req'[r].step = "reserve"
      PROVE  /\ contract'[req'[r].contract] = NoContract
             /\ \A q \in Requests : req'[q].step = "reserve" => q = r
  <2>1. req'[r] = req[r] /\ req[r].step = "reserve"
    BY <1>2 DEF Leaving, Idle
  <2>2. req[r].contract \in Contracts /\ contract[req[r].contract] = NoContract
    BY <2>1 DEF Typed, Steps, Idle, Renting
  <2>3. contract'[req[r].contract] = NoContract
    BY <1>2, <2>2 DEF ContractMoves
  <2>4. \A q \in Requests : req'[q].step = "reserve" => q = r
    BY <2>1 DEF Leaving, Idle, Renting
  <2> QED BY <2>1, <2>3, <2>4
<1> QED BY <1>1, <1>2 DEF Renting

-----------------------------------------------------------------------------
(* The usual step: it creates no row but commands, retires nothing, and    *)
(* does to what is retired only what may be done to it. A machine that is  *)
(* revoked comes back only if it hosts: nothing does that to telemetry.    *)

MachineHolds(d) ==
    \/ device'[d] = device[d]
    \/ /\ Known(d) /\ device'[d] \in DeviceRow /\ device'[d].challenge = device[d].challenge
       /\ device[d].status # "REVOKED" \/ Hosting(d) \/ device'[d].status = "REVOKED"
       /\ Retired(d) => /\ device'[d].status \in {"DRAINING", "REVOKED"}
                        /\ device'[d].verification = "EXPIRED"
                        /\ retirement[d].status = "FINALIZED" => device'[d].status = "REVOKED"

ListingHolds(o) ==
    \/ offer'[o] = offer[o]
    \/ /\ offer[o] # NoOffer /\ offer'[o] \in OfferRow
       /\ offer'[o].device = offer[o].device /\ offer'[o].version > offer[o].version
       /\ Retired(offer[o].device) => offer'[o].status \in {"DRAFT", "SUSPENDED", "UNLISTED"}

ContractHolds(k) ==
    \/ contract'[k] = contract[k]
    \/ /\ contract[k].status \notin Over /\ contract'[k] \in ContractRow
       /\ contract'[k].offer = contract[k].offer

CommandsHold ==
    /\ cmds' \in Seq(CommandRow) /\ DOMAIN cmds \subseteq DOMAIN cmds'
    /\ \A i \in DOMAIN cmds :
          /\ cmds'[i].type = cmds[i].type /\ cmds'[i].device = cmds[i].device
          /\ cmds'[i].contract = cmds[i].contract
          /\ cmds'[i].status = "OPEN" => cmds[i].status = "OPEN"
    /\ \A i \in DOMAIN cmds' \ DOMAIN cmds :
          cmds'[i].type = "CLEANUP" \/ (cmds'[i].device \in Devices /\ ~Retired(cmds'[i].device))

(* The quota: no step of these adds a machine.                             *)
LEMMA QuotaStays ==
    ASSUME Typed, QuotaIsKept, UNCHANGED mode, \A d \in Devices : MachineHolds(d),
           \A c \in Challenges : challenge[c] = "CONSUMED" => challenge'[c] = "CONSUMED"
    PROVE  QuotaIsKept'
<1>1. ASSUME NEW d \in Devices
      PROVE  /\ Known(d)' <=> Known(d)
             /\ Known(d) => device'[d].challenge = device[d].challenge /\ device[d].challenge \in Challenges
             /\ Known(d) /\ device[d].status = "REVOKED" =>
                    device'[d].status = "REVOKED" \/ mode[device[d].challenge] = "FULL_HOST"
  <2>1. Known(d) => device[d].challenge \in Challenges
    BY Kinds
  <2>2. CASE device'[d] = device[d]
    BY <2>1, <2>2 DEF Known
  <2>3. CASE device'[d] # device[d]
    BY <2>1, <2>3 DEF MachineHolds, Known, DeviceRow, NoDevice, Hosting
  <2> QED BY <2>2, <2>3
<1>2. OnTelemetry' \subseteq OnTelemetry
  BY <1>1 DEF OnTelemetry, Known
<1>3. Cardinality(OnTelemetry') <= Quantity
  <2>1. IsFiniteSet(OnTelemetry)
    BY DevicesAssumption, FS_Subset DEF OnTelemetry
  <2>2. IsFiniteSet(OnTelemetry') /\ Cardinality(OnTelemetry') <= Cardinality(OnTelemetry)
    BY <1>2, <2>1, FS_Subset
  <2>3. Cardinality(OnTelemetry) \in Nat /\ Cardinality(OnTelemetry') \in Nat
    BY <2>1, <2>2, FS_CardinalityType
  <2> QED BY <2>2, <2>3, DevicesAssumption DEF QuotaIsKept
<1>4. \A d \in Devices : Known(d)' => challenge'[device'[d].challenge] = "CONSUMED"
  BY <1>1 DEF QuotaIsKept
<1>5. \A d, e \in Devices :
          Known(d)' /\ Known(e)' /\ device'[d].challenge = device'[e].challenge => d = e
  BY <1>1 DEF QuotaIsKept
<1> QED BY <1>3, <1>4, <1>5 DEF QuotaIsKept

(* What is retired stays so in a usual step.                               *)
LEMMA RetiredStays ==
    ASSUME Typed, Renting, UNCHANGED <<mode, retirement>>,
           \A d \in Devices : MachineHolds(d), \A o \in Offers : ListingHolds(o),
           \A k \in Contracts : ContractHolds(k), CommandsHold,
           RetiredMachines, RetiredListings, RetiredCommands, RetiredContracts
    PROVE  RetiredMachines' /\ RetiredListings' /\ RetiredCommands' /\ RetiredContracts'
<1>1. RetiredMachines'
  BY DEF RetiredMachines, MachineHolds, Retired
<1>2. RetiredListings'
  <2> SUFFICES ASSUME NEW o \in Offers, offer'[o] # NoOffer, retirement'[offer'[o].device] # NoRetirement
               PROVE  offer'[o].status \in {"DRAFT", "SUSPENDED", "UNLISTED"}
    BY DEF RetiredListings, Retired
  <2> QED BY DEF RetiredListings, ListingHolds, Retired
<1>3. RetiredCommands'
  <2> SUFFICES ASSUME NEW i \in DOMAIN cmds', cmds'[i].status = "OPEN",
                      retirement'[cmds'[i].device] # NoRetirement
               PROVE  cmds'[i].type = "CLEANUP"
    BY DEF RetiredCommands, Retired
  <2> QED BY DEF RetiredCommands, CommandsHold, Retired
<1>4. RetiredContracts'
  <2> SUFFICES ASSUME NEW k \in Contracts, contract'[k].status \notin Over
               PROVE  ~Ended(DeviceOf(k))'
    BY DEF RetiredContracts, Over
  <2>1. contract[k].status \notin Over /\ contract'[k].offer = contract[k].offer
    BY DEF ContractHolds
  <2>2. contract[k] # NoContract /\ contract[k].offer \in Offers /\ offer[contract[k].offer] # NoOffer
    BY <2>1, Kinds DEF Over, Renting, NoContract
  <2>3. DeviceOf(k)' = DeviceOf(k)
    BY <2>1, <2>2 DEF DeviceOf, ListingHolds
  <2>4. ~Ended(DeviceOf(k))
    BY <2>1 DEF RetiredContracts
  <2> QED BY <2>3, <2>4 DEF Ended, Retired
<1> QED BY <1>1, <1>2, <1>3, <1>4

Usual ==
    /\ UNCHANGED <<mode, retirement>>
    /\ Leaving /\ req' = [r \in Requests |-> req'[r]]
    /\ profile'.version \in Nat
    /\ profile'.status \in {"NONE", "DRAFT", "SUBMITTED", "APPROVED", "REJECTED", "SUSPENDED"}
    /\ challenge' \in [Challenges -> {"NONE", "OPEN", "LAPSED", "CONSUMED", "REVOKED"}]
    /\ \A c \in Challenges : challenge[c] = "CONSUMED" => challenge'[c] = "CONSUMED"
    /\ device' = [d \in Devices |-> device'[d]] /\ \A d \in Devices : MachineHolds(d)
    /\ offer' = [o \in Offers |-> offer'[o]] /\ \A o \in Offers : ListingHolds(o)
    /\ contract' = [k \in Contracts |-> contract'[k]] /\ \A k \in Contracts : ContractHolds(k)

(* Such a step is one of those above.                                      *)
LEMMA UsualMoves ==
    ASSUME Typed, Renting, Usual
    PROVE  /\ \A d \in Devices : MachineMoves(d)
           /\ \A o \in Offers : ListingMoves(o)
           /\ \A k \in Contracts : ContractMoves(k)
           /\ \A k \in Contracts : contract[k] # NoContract =>
                  contract'[k] # NoContract /\ offer'[contract'[k].offer].device = DeviceOf(k)
<1>1. \A d \in Devices : MachineMoves(d)
  BY DEF MachineHolds, MachineMoves, Usual
<1>2. \A o \in Offers : ListingMoves(o)
  BY DEF ListingHolds, ListingMoves, Usual
<1>3. \A k \in Contracts : ContractMoves(k)
  BY Kinds DEF ContractHolds, ContractMoves, Over, NoContract, Usual
<1> QED BY <1>1, <1>2, <1>3, Lasts DEF Usual

(* It keeps the invariant, if the commands it leaves are addressed.        *)
LEMMA UsualKeeps == ASSUME InHand, Usual, CommandsHold, Commanding' PROVE InHand'
<1>0. Typed /\ Reading /\ QuotaIsKept /\ Listing /\ Renting
  BY DEF InHand
<1>1. \A d \in Devices : MachineMoves(d)
  BY <1>0, UsualMoves
<1>2. \A o \in Offers : ListingMoves(o)
  BY <1>0, UsualMoves
<1>3. \A k \in Contracts : ContractMoves(k)
  BY <1>0, UsualMoves
<1>5. retirement' \in [Devices -> {NoRetirement} \cup RetirementRow]
  BY <1>0 DEF Typed, Usual
<1>6. /\ cmds' \in Seq(CommandRow) /\ DOMAIN cmds \subseteq DOMAIN cmds'
      /\ \A i \in DOMAIN cmds : cmds'[i].type = cmds[i].type
  BY DEF CommandsHold
<1>7. Typed'
  BY <1>1, <1>2, <1>3, <1>0, <1>5, <1>6, TypedStays DEF Usual
<1>8. Reading'
  BY <1>1, <1>2, <1>3, <1>0, <1>6, ReadingStays DEF Usual
<1>9. Listing'
  <2>1. \A o \in Offers : offer'[o] = offer[o] /\ offer[o].status \in {"DRAFT", "PAUSED"}
            => (Retired(offer[o].device)' => Retired(offer[o].device))
    BY DEF Retired, Usual
  <2> QED BY <1>1, <1>2, <1>3, <1>0, <2>1, ListingStays DEF Usual
<1>10. Renting'
  BY <1>1, <1>2, <1>3, <1>0, RentingStays DEF Usual
<1>11. QuotaIsKept'
  BY <1>0, QuotaStays DEF Usual
<1>12. RetiredMachines' /\ RetiredListings' /\ RetiredCommands' /\ RetiredContracts'
  BY <1>0, RetiredStays DEF InHand, Usual
<1> QED BY <1>7, <1>8, <1>9, <1>10, <1>11, <1>12 DEF InHand

-----------------------------------------------------------------------------
(* Commands. *)

(* A command that is done is closed, the others are as they were.          *)
LEMMA DoneHolds ==
    ASSUME Typed, NEW i \in DOMAIN cmds, NEW status \in {"SUCCEEDED", "FAILED"}, Done(i, status)
    PROVE  /\ CommandsHold /\ DOMAIN cmds' = DOMAIN cmds /\ cmds'[i].status = status
           /\ \A j \in DOMAIN cmds : j # i => cmds'[j] = cmds[j]
<1> DEFINE row == [cmds[i] EXCEPT !.status = status]
<1>1. /\ row \in CommandRow /\ row.status = status /\ row.type = cmds[i].type
      /\ row.device = cmds[i].device /\ row.contract = cmds[i].contract
  <2>1. cmds[i] \in CommandRow
    BY Kinds
  <2> QED BY <2>1 DEF CommandRow
<1>2. cmds' = [cmds EXCEPT ![i] = row] /\ cmds \in Seq(CommandRow)
  BY DEF Done, Typed
<1> HIDE DEF row
<1>3. cmds' \in Seq(CommandRow) /\ DOMAIN cmds' = DOMAIN cmds /\ cmds'[i] = row
  BY <1>1, <1>2
<1>4. \A j \in DOMAIN cmds : j # i => cmds'[j] = cmds[j]
  BY <1>2
<1>5. CommandsHold
  BY <1>1, <1>3, <1>4 DEF CommandsHold
<1> QED BY <1>1, <1>3, <1>4, <1>5

(* A command that is queued is the last.                                   *)
LEMMA QueueHolds ==
    ASSUME Typed, NEW row \in CommandRow, cmds' = Append(cmds, row),
           row.type = "CLEANUP" \/ (row.device \in Devices /\ ~Retired(row.device))
    PROVE  /\ CommandsHold
           /\ \A i \in DOMAIN cmds' : i \in DOMAIN cmds \/ cmds'[i] = row
           /\ \A i, j \in DOMAIN cmds' : i \notin DOMAIN cmds /\ j \notin DOMAIN cmds => i = j
           /\ \A i \in DOMAIN cmds : cmds'[i] = cmds[i]
<1>1. cmds \in Seq(CommandRow)
  BY DEF Typed
<1>2. /\ cmds' \in Seq(CommandRow) /\ DOMAIN cmds' = 1 .. Len(cmds) + 1
      /\ DOMAIN cmds = 1 .. Len(cmds) /\ Len(cmds) \in Nat
      /\ cmds'[Len(cmds) + 1] = row
      /\ \A i \in DOMAIN cmds : cmds'[i] = cmds[i]
  BY <1>1
<1>3. \A i \in DOMAIN cmds' : i \in DOMAIN cmds \/ i = Len(cmds) + 1
  BY <1>2
<1>4. CommandsHold
  BY <1>2, <1>3 DEF CommandsHold
<1> QED BY <1>2, <1>3, <1>4

(* What is addressed stays so where the contract of every command that is  *)
(* still open is left alone.                                               *)
LEMMA ClosingKeeps ==
    ASSUME Typed, Renting, Commanding, CommandsHold, DOMAIN cmds' = DOMAIN cmds,
           \A k \in Contracts : contract[k] # NoContract =>
               contract'[k] # NoContract /\ offer'[contract'[k].offer].device = DeviceOf(k),
           \A i \in DOMAIN cmds : cmds[i].type \in ForRenter /\ cmds'[i].status = "OPEN"
               => contract'[cmds[i].contract] = contract[cmds[i].contract]
    PROVE  Commanding'
<1>1. ASSUME NEW i \in DOMAIN cmds', cmds'[i].type \in ForRenter PROVE Addressed(i)'
  <2> DEFINE k == cmds[i].contract
  <2>1. i \in DOMAIN cmds /\ cmds[i].type \in ForRenter /\ Addressed(i)
    BY <1>1 DEF CommandsHold, Commanding
  <2>2. /\ k \in Contracts /\ contract[k] # NoContract /\ cmds[i].device = DeviceOf(k)
        /\ cmds[i].status = "OPEN" =>
               contract[k].status = IF cmds[i].type = "CLEANUP" THEN "CLEANING" ELSE "PROVISIONING"
    BY <2>1 DEF Addressed
  <2>3. /\ cmds'[i].contract = k /\ cmds'[i].type = cmds[i].type /\ cmds'[i].device = cmds[i].device
        /\ cmds'[i].status = "OPEN" => cmds[i].status = "OPEN" /\ contract'[k] = contract[k]
    BY <2>1 DEF CommandsHold
  <2> HIDE DEF k
  <2>4. contract'[k] # NoContract /\ offer'[contract'[k].offer].device = DeviceOf(k)
    BY <2>2
  <2> QED BY <2>2, <2>3, <2>4 DEF Addressed, DeviceOf
<1>2. ASSUME NEW i \in DOMAIN cmds', NEW j \in DOMAIN cmds',
             cmds'[i].type \in ForRenter, cmds'[j].type \in ForRenter,
             cmds'[i].status = "OPEN", cmds'[j].status = "OPEN", cmds'[i].contract = cmds'[j].contract
      PROVE  i = j
  BY <1>2 DEF CommandsHold, Commanding
<1> QED BY <1>1, <1>2 DEF Commanding

(* A command may be queued for a contract that has none open.              *)
LEMMA QueueingKeeps ==
    ASSUME Typed, Renting, Commanding, NEW row \in CommandRow, cmds' = Append(cmds, row),
           row.type = "CLEANUP" \/ (row.device \in Devices /\ ~Retired(row.device)),
           \A k \in Contracts : contract[k] # NoContract =>
               contract'[k] # NoContract /\ offer'[contract'[k].offer].device = DeviceOf(k),
           \A i \in DOMAIN cmds : cmds[i].type \in ForRenter /\ cmds[i].status = "OPEN"
               => contract'[cmds[i].contract] = contract[cmds[i].contract],
           row.type \in ForRenter =>
               /\ row.contract \in Contracts /\ contract[row.contract] # NoContract
               /\ row.device = DeviceOf(row.contract)
               /\ contract'[row.contract].status =
                      IF row.type = "CLEANUP" THEN "CLEANING" ELSE "PROVISIONING"
               /\ \A i \in DOMAIN cmds : cmds[i].type \in ForRenter /\ cmds[i].status = "OPEN"
                      => cmds[i].contract # row.contract
    PROVE  CommandsHold /\ Commanding'
<1>1. /\ CommandsHold
      /\ \A i \in DOMAIN cmds' : i \in DOMAIN cmds \/ cmds'[i] = row
      /\ \A i, j \in DOMAIN cmds' : i \notin DOMAIN cmds /\ j \notin DOMAIN cmds => i = j
      /\ \A i \in DOMAIN cmds : cmds'[i] = cmds[i]
  BY QueueHolds
<1>2. ASSUME NEW i \in DOMAIN cmds', cmds'[i].type \in ForRenter PROVE Addressed(i)'
  <2> DEFINE k == cmds'[i].contract
  <2>1. /\ k \in Contracts /\ contract[k] # NoContract /\ cmds'[i].device = DeviceOf(k)
        /\ cmds'[i].status = "OPEN" =>
               contract'[k].status = IF cmds'[i].type = "CLEANUP" THEN "CLEANING" ELSE "PROVISIONING"
    <3>1. CASE i \in DOMAIN cmds
      BY <1>1, <1>2, <3>1 DEF Commanding, Addressed
    <3>2. CASE i \notin DOMAIN cmds
      BY <1>1, <1>2, <3>2
    <3> QED BY <3>1, <3>2
  <2> HIDE DEF k
  <2>2. contract'[k] # NoContract /\ offer'[contract'[k].offer].device = DeviceOf(k)
    BY <2>1
  <2> QED BY <2>1, <2>2 DEF Addressed, DeviceOf, k
<1>3. ASSUME NEW i \in DOMAIN cmds', NEW j \in DOMAIN cmds',
             cmds'[i].type \in ForRenter, cmds'[j].type \in ForRenter,
             cmds'[i].status = "OPEN", cmds'[j].status = "OPEN", cmds'[i].contract = cmds'[j].contract
      PROVE  i = j
  <2>1. CASE i \in DOMAIN cmds /\ j \in DOMAIN cmds
    BY <1>1, <1>3, <2>1 DEF Commanding
  <2>2. CASE i \in DOMAIN cmds /\ j \notin DOMAIN cmds
    BY <1>1, <1>3, <2>2
  <2>3. CASE i \notin DOMAIN cmds /\ j \in DOMAIN cmds
    BY <1>1, <1>3, <2>3
  <2>4. CASE i \notin DOMAIN cmds /\ j \notin DOMAIN cmds
    BY <1>1, <2>4
  <2> QED BY <2>1, <2>2, <2>3, <2>4
<1> QED BY <1>1, <1>2, <1>3 DEF Commanding

(* The same for a usual step that closes commands or none.                 *)
LEMMA ClosingStep ==
    ASSUME InHand, Usual, CommandsHold, DOMAIN cmds' = DOMAIN cmds,
           \A i \in DOMAIN cmds : cmds[i].type \in ForRenter /\ cmds'[i].status = "OPEN"
               => contract'[cmds[i].contract] = contract[cmds[i].contract]
    PROVE  InHand'
<1>1. Typed /\ Renting /\ Commanding
  BY DEF InHand
<1>2. \A k \in Contracts : contract[k] # NoContract =>
          contract'[k] # NoContract /\ offer'[contract'[k].offer].device = DeviceOf(k)
  BY <1>1, UsualMoves
<1>3. Commanding'
  BY <1>1, <1>2, ClosingKeeps
<1> QED BY <1>3, UsualKeeps

(* And for one that queues a command.                                      *)
LEMMA QueueingStep ==
    ASSUME InHand, Usual, NEW row \in CommandRow, cmds' = Append(cmds, row),
           row.type = "CLEANUP" \/ (row.device \in Devices /\ ~Retired(row.device)),
           \A i \in DOMAIN cmds : cmds[i].type \in ForRenter /\ cmds[i].status = "OPEN"
               => contract'[cmds[i].contract] = contract[cmds[i].contract],
           row.type \in ForRenter =>
               /\ row.contract \in Contracts /\ contract[row.contract] # NoContract
               /\ row.device = DeviceOf(row.contract)
               /\ contract'[row.contract].status =
                      IF row.type = "CLEANUP" THEN "CLEANING" ELSE "PROVISIONING"
               /\ \A i \in DOMAIN cmds : cmds[i].type \in ForRenter /\ cmds[i].status = "OPEN"
                      => cmds[i].contract # row.contract
    PROVE  InHand'
<1>1. Typed /\ Renting /\ Commanding
  BY DEF InHand
<1>2. \A k \in Contracts : contract[k] # NoContract =>
          contract'[k] # NoContract /\ offer'[contract'[k].offer].device = DeviceOf(k)
  BY <1>1, UsualMoves
<1>3. CommandsHold /\ Commanding'
  BY <1>1, <1>2, QueueingKeeps
<1> QED BY <1>3, UsualKeeps

(* Commands that are left alone.                                           *)
LEMMA CommandsRest == ASSUME Typed, UNCHANGED cmds PROVE CommandsHold /\ DOMAIN cmds' = DOMAIN cmds
  BY DEF CommandsHold, Typed

(* No command is open for a contract that is in neither of their statuses. *)
LEMMA NoneOpen ==
    ASSUME Commanding, NEW k, contract[k].status \notin {"PROVISIONING", "CLEANING"}
    PROVE  \A i \in DOMAIN cmds : cmds[i].type \in ForRenter /\ cmds[i].status = "OPEN"
               => cmds[i].contract # k
  BY DEF Commanding, Addressed, ForRenter

(* The rest of a usual step: what is left alone holds.                     *)
LEMMA Rest ==
    ASSUME Typed
    PROVE  /\ UNCHANGED device => /\ device' = [d \in Devices |-> device'[d]]
                                  /\ \A d \in Devices : MachineHolds(d)
           /\ UNCHANGED offer => /\ offer' = [o \in Offers |-> offer'[o]]
                                 /\ \A o \in Offers : ListingHolds(o)
           /\ UNCHANGED contract => /\ contract' = [k \in Contracts |-> contract'[k]]
                                    /\ \A k \in Contracts : ContractHolds(k)
           /\ UNCHANGED challenge =>
                 /\ challenge' \in [Challenges -> {"NONE", "OPEN", "LAPSED", "CONSUMED", "REVOKED"}]
                 /\ \A c \in Challenges : challenge[c] = "CONSUMED" => challenge'[c] = "CONSUMED"
           /\ UNCHANGED profile =>
                 /\ profile'.version \in Nat
                 /\ profile'.status \in {"NONE", "DRAFT", "SUBMITTED", "APPROVED", "REJECTED", "SUSPENDED"}
           /\ UNCHANGED req => Leaving /\ req' = [r \in Requests |-> req'[r]]
<1>1. UNCHANGED device => /\ device' = [d \in Devices |-> device'[d]]
                          /\ \A d \in Devices : MachineHolds(d)
  BY DEF Typed, MachineHolds
<1>2. UNCHANGED offer => /\ offer' = [o \in Offers |-> offer'[o]]
                         /\ \A o \in Offers : ListingHolds(o)
  BY DEF Typed, ListingHolds
<1>3. UNCHANGED contract => /\ contract' = [k \in Contracts |-> contract'[k]]
                            /\ \A k \in Contracts : ContractHolds(k)
  BY DEF Typed, ContractHolds
<1>4. UNCHANGED req => Leaving /\ req' = [r \in Requests |-> req'[r]]
  BY DEF Typed, Leaving
<1> QED BY <1>1, <1>2, <1>3, <1>4 DEF Typed

(* A handler that finishes leaves the other ones as they were.             *)
LEMMA FinishLeaves ==
    ASSUME Typed, NEW r \in Requests, Finish(r)
    PROVE  Leaving /\ req' = [q \in Requests |-> req'[q]]
  BY DEF Typed, Finish, Leaving

(* A listing that changes its status has another version.                  *)
LEMMA ListingRow ==
    ASSUME NEW x \in OfferRow,
           NEW s \in {"DRAFT", "PUBLISHED", "PAUSED", "RESERVED", "SUSPENDED", "UNLISTED"}
    PROVE  LET row == [x EXCEPT !.status = s, !.version = @ + 1] IN
           /\ row \in OfferRow /\ row.device = x.device /\ row.status = s
           /\ row.version > x.version
<1>1. x.version \in Nat /\ x.version + 1 \in Nat /\ x.version + 1 > x.version /\ x.device \in Devices
  <2>1. x.version \in Nat /\ x.device \in Devices
    BY DEF OfferRow
  <2> QED BY <2>1
<1>2. \A v \in Nat : LET row == [x EXCEPT !.status = s, !.version = v] IN
          /\ row \in OfferRow /\ row.device = x.device /\ row.status = s /\ row.version = v
  BY DEF OfferRow
<1> DEFINE v == x.version + 1
<1>3. v \in Nat /\ v > x.version
  BY <1>1
<1>4. [x EXCEPT !.status = s, !.version = @ + 1] = [x EXCEPT !.status = s, !.version = v]
  OBVIOUS
<1> HIDE DEF v
<1> QED BY <1>2, <1>3, <1>4

(* Listings that are suspended, and one that becomes something.            *)
LEMMA SuspendedHolds ==
    ASSUME Typed, NEW os, NEW from, "NONE" \notin from, offer' = Suspended(os, from)
    PROVE  /\ offer' = [o \in Offers |-> offer'[o]] /\ \A o \in Offers : ListingHolds(o)
           /\ \A o \in Offers : /\ o \in os /\ offer[o].status \in from
                                       => /\ offer'[o].status = "SUSPENDED"
                                          /\ offer'[o].version > offer[o].version
                                /\ ~(o \in os /\ offer[o].status \in from) => offer'[o] = offer[o]
<1>1. ASSUME NEW o \in Offers
      PROVE  /\ ListingHolds(o)
             /\ o \in os /\ offer[o].status \in from
                     => /\ offer'[o].status = "SUSPENDED" /\ offer'[o].version > offer[o].version
             /\ ~(o \in os /\ offer[o].status \in from) => offer'[o] = offer[o]
  <2>1. CASE o \in os /\ offer[o].status \in from
    <3>1. offer[o] # NoOffer
      BY <2>1 DEF NoOffer
    <3>2. offer[o] \in OfferRow /\ offer'[o] = [offer[o] EXCEPT !.status = "SUSPENDED", !.version = @ + 1]
      BY <2>1, <3>1, Kinds DEF Suspended
    <3>3. /\ offer'[o] \in OfferRow /\ offer'[o].device = offer[o].device
          /\ offer'[o].status = "SUSPENDED" /\ offer'[o].version > offer[o].version
      <4> DEFINE row == [offer[o] EXCEPT !.status = "SUSPENDED", !.version = @ + 1]
      <4>1. /\ row \in OfferRow /\ row.device = offer[o].device /\ row.status = "SUSPENDED"
            /\ row.version > offer[o].version
        BY <3>2, ListingRow
      <4>2. offer'[o] = row
        BY <3>2
      <4> HIDE DEF row
      <4> QED BY <4>1, <4>2
    <3> QED BY <2>1, <3>1, <3>3 DEF ListingHolds
  <2>2. CASE ~(o \in os /\ offer[o].status \in from)
    <3>1. offer'[o] = offer[o]
      BY <2>2 DEF Suspended
    <3> QED BY <2>2, <3>1 DEF ListingHolds
  <2> QED BY <2>1, <2>2
<1>2. offer' = [o \in Offers |-> offer'[o]]
  BY DEF Suspended
<1> QED BY <1>1, <1>2

(* A listing that becomes something is a usual change of it.               *)
LEMMA BecomesHolds ==
    ASSUME Typed, NEW o \in Offers, offer[o] # NoOffer,
           NEW status \in {"DRAFT", "PUBLISHED", "PAUSED", "RESERVED", "SUSPENDED", "UNLISTED"},
           Retired(offer[o].device) => status \in {"DRAFT", "SUSPENDED", "UNLISTED"},
           offer' = Becomes(o, status)
    PROVE  /\ offer' = [p \in Offers |-> offer'[p]] /\ \A p \in Offers : ListingHolds(p)
           /\ offer'[o].status = status
<1> DEFINE row == [offer[o] EXCEPT !.status = status, !.version = @ + 1]
<1>1. /\ row \in OfferRow /\ row.device = offer[o].device /\ row.status = status
      /\ row.version > offer[o].version
  <2>1. offer[o] \in OfferRow
    BY Kinds
  <2> QED BY <2>1, ListingRow
<1>2. offer' = [offer EXCEPT ![o] = row]
  BY DEF Becomes
<1> HIDE DEF row
<1>3. offer'[o] = row /\ \A p \in Offers : p # o => offer'[p] = offer[p]
  BY <1>2 DEF Typed
<1>4. offer' = [p \in Offers |-> offer'[p]]
  BY <1>2 DEF Typed
<1>5. \A p \in Offers : ListingHolds(p)
  BY <1>1, <1>3 DEF ListingHolds
<1> QED BY <1>1, <1>3, <1>4, <1>5

(* A machine that gets another status.                                     *)
LEMMA StatusRow ==
    ASSUME NEW x \in DeviceRow, NEW row,
           NEW s \in {"ONLINE", "OFFLINE", "VERIFYING", "VERIFIED", "BUSY", "DRAINING", "REVOKED"},
           row = [x EXCEPT !.status = s]
    PROVE  /\ row \in DeviceRow /\ row.status = s
           /\ row.verification = x.verification /\ row.challenge = x.challenge
  BY DEF DeviceRow

(* Such a row in place of the one of a machine.                            *)
LEMMA MachineHoldsAt ==
    ASSUME Typed, NEW d \in Devices, Known(d), NEW row \in DeviceRow,
           row.challenge = device[d].challenge,
           device[d].status # "REVOKED" \/ Hosting(d) \/ row.status = "REVOKED",
           Retired(d) => /\ row.status \in {"DRAINING", "REVOKED"} /\ row.verification = "EXPIRED"
                         /\ retirement[d].status = "FINALIZED" => row.status = "REVOKED",
           device' = [device EXCEPT ![d] = row]
    PROVE  device' = [e \in Devices |-> device'[e]] /\ \A e \in Devices : MachineHolds(e)
<1>1. device'[d] = row /\ \A e \in Devices : e # d => device'[e] = device[e]
  BY DEF Typed
<1>2. device' = [e \in Devices |-> device'[e]]
  BY DEF Typed
<1>3. \A e \in Devices : MachineHolds(e)
  BY <1>1 DEF MachineHolds
<1> QED BY <1>2, <1>3

(* A contract that goes on.                                                *)
LEMMA ContractHoldsAt ==
    ASSUME Typed, NEW k \in Contracts, contract[k].status \notin Over,
           NEW status \in {"HELD", "CANCELLED", "PROVISIONING", "READY", "IN_SERVICE",
                           "AWAITING_ACCEPTANCE", "DISPUTED", "FAILED", "CLEANING", "CLEANED"},
           contract' = [contract EXCEPT ![k].status = status]
    PROVE  /\ contract' = [n \in Contracts |-> contract'[n]] /\ \A n \in Contracts : ContractHolds(n)
           /\ contract'[k].status = status
           /\ \A n \in Contracts : n # k => contract'[n] = contract[n]
<1> DEFINE row == [contract[k] EXCEPT !.status = status]
<1>1. row \in ContractRow /\ row.status = status /\ row.offer = contract[k].offer
  <2>1. contract[k] \in ContractRow
    BY Kinds DEF Over
  <2> QED BY <2>1 DEF ContractRow
<1>2. contract' = [contract EXCEPT ![k] = row]
  OBVIOUS
<1> HIDE DEF row
<1>3. contract'[k] = row /\ \A n \in Contracts : n # k => contract'[n] = contract[n]
  BY <1>2 DEF Typed
<1>4. contract' = [n \in Contracts |-> contract'[n]]
  BY <1>2 DEF Typed
<1>5. \A n \in Contracts : ContractHolds(n)
  BY <1>1, <1>3 DEF ContractHolds
<1> QED BY <1>1, <1>3, <1>4, <1>5

-----------------------------------------------------------------------------
(* The steps of the machines, one after the other: first those that read.  *)

(* A handler that has read writes no row, and what it has read is so.      *)
LEMMA AwaitKeeps ==
    ASSUME InHand, NEW r \in Requests, NEW e \in Steps, Await(r, e),
           UNCHANGED <<mode, profile, challenge, device, retirement, offer, contract, cmds>>,
           e.step = "beat" => Known(e.device),
           e.step = "cleanup" => e.command \in DOMAIN cmds /\ cmds[e.command].type = "CLEANUP",
           e.step = "create" => /\ offer[e.offer] = NoOffer /\ Hosting(e.device)
                                /\ \A q \in Requests : req[q].step # "create",
           e.step = "offer" =>
               /\ e.version = offer[e.offer].version
               /\ e.status = "PUBLISHED" => /\ offer[e.offer].status \in {"DRAFT", "PAUSED"}
                                            /\ ~Retired(offer[e.offer].device)
               /\ e.status = "PAUSED" => offer[e.offer].status = "PUBLISHED",
           e.step = "reserve" => /\ contract[e.contract] = NoContract
                                 /\ \A q \in Requests : req[q].step # "reserve"
    PROVE  InHand'
<1>1. Typed /\ Reading /\ Listing /\ Renting
  BY DEF InHand
<1>2. req'[r] = e /\ \A q \in Requests : q # r => req'[q] = req[q]
  BY <1>1 DEF Await, Typed
<1>3. Typed'
  BY <1>1 DEF Await, Typed
<1>4. Reading'
  BY <1>1, <1>2 DEF Reading, Known
<1>5. Renting'
  BY <1>1, <1>2 DEF Renting
<1>6. Listing'
  <2>1. \A o \in Offers : offer[o] # NoOffer => Hosting(offer[o].device)'
    BY <1>1 DEF Listing, Hosting, Known
  <2>2. ASSUME NEW q \in Requests, req'[q].step = "create" PROVE CreatesNew(q)'
    <3>1. CASE q = r
      BY <1>2, <2>2, <3>1 DEF CreatesNew, Hosting, Known
    <3>2. CASE q # r
      <4>1. req'[q] = req[q] /\ CreatesNew(q)
        BY <1>1, <1>2, <2>2, <3>2 DEF Listing
      <4> QED BY <1>2, <2>2, <4>1 DEF CreatesNew, Hosting, Known
    <3> QED BY <3>1, <3>2
  <2>3. ASSUME NEW q \in Requests, req'[q].step = "offer" PROVE Relists(q)'
    <3>1. CASE q = r
      <4>1. e.offer \in Offers
        BY <1>2, <2>3, <3>1 DEF Steps, Idle
      <4>2. offer[e.offer].version \in Nat
        BY <1>1, <4>1, Kinds
      <4> QED BY <1>2, <2>3, <3>1, <4>2 DEF Relists, Retired
    <3>2. CASE q # r
      <4>1. req'[q] = req[q] /\ Relists(q)
        BY <1>1, <1>2, <2>3, <3>2 DEF Listing
      <4> QED BY <4>1 DEF Relists, Retired
    <3> QED BY <3>1, <3>2
  <2> QED BY <2>1, <2>2, <2>3 DEF Listing
<1>7. QuotaIsKept'
  BY DEF InHand, QuotaIsKept, OnTelemetry, Known
<1>8. Commanding'
  BY DEF InHand, Commanding, Addressed, DeviceOf
<1>9. RetiredMachines' /\ RetiredListings' /\ RetiredCommands' /\ RetiredContracts'
  BY DEF InHand, RetiredMachines, RetiredListings, RetiredCommands, RetiredContracts, Retired, Ended, DeviceOf
<1> QED BY <1>3, <1>4, <1>5, <1>6, <1>7, <1>8, <1>9 DEF InHand

(* The review of the profile has read its version.                         *)
LEMMA ReadReviewKeeps ==
    ASSUME InHand, NEW r \in Requests, NEW s \in {"APPROVED", "REJECTED", "SUSPENDED"}, ReadReview(r, s)
    PROVE  InHand'
<1> DEFINE e == [step |-> "review", status |-> s, version |-> profile.version]
<1>1. e \in Steps /\ e.step = "review"
  BY DEF InHand, Typed, Steps
<1>2. Await(r, e)
  BY DEF ReadReview
<1> HIDE DEF e
<1> QED BY <1>1, <1>2, AwaitKeeps DEF ReadReview

(* A registration has read its challenge.                                  *)
LEMMA ReadRegisterKeeps ==
    ASSUME InHand, NEW r \in Requests, NEW c \in Challenges, ReadRegister(r, c) PROVE InHand'
<1> DEFINE e == [step |-> "register", challenge |-> c]
<1>1. e \in Steps /\ e.step = "register"
  BY DEF Steps
<1>2. Await(r, e)
  BY DEF ReadRegister
<1> HIDE DEF e
<1> QED BY <1>1, <1>2, AwaitKeeps DEF ReadRegister

(* A heartbeat is of a machine that is known.                              *)
LEMMA ReadHeartbeatKeeps ==
    ASSUME InHand, NEW r \in Requests, NEW d \in Devices, NEW seq \in 1 .. MaxBeats,
           NEW offline \in BOOLEAN, NEW changed \in BOOLEAN, ReadHeartbeat(r, d, seq, offline, changed)
    PROVE  InHand'
<1> DEFINE e == [step |-> "beat", device |-> d, seq |-> seq, changed |-> changed,
                 next |-> NextStatus(d, offline, changed)]
<1>1. NextStatus(d, offline, changed) \in
          {"ONLINE", "OFFLINE", "VERIFYING", "VERIFIED", "BUSY", "DRAINING"}
  BY DEF NextStatus
<1>2. e \in Steps /\ e.step = "beat" /\ e.device = d
  BY <1>1 DEF Steps
<1>3. Await(r, e) /\ Known(d)
  BY DEF ReadHeartbeat
<1> HIDE DEF e
<1> QED BY <1>2, <1>3, AwaitKeeps DEF ReadHeartbeat

(* The completion of a cleanup has read a command for one.                 *)
LEMMA ReadCleanupKeeps ==
    ASSUME InHand, NEW r \in Requests, NEW i \in DOMAIN cmds, NEW fresh \in BOOLEAN, ReadCleanup(r, i, fresh)
    PROVE  InHand'
<1> DEFINE e == [step |-> "cleanup", command |-> i, fresh |-> fresh]
<1>1. i \in Nat
  BY DEF InHand, Typed
<1>2. e \in Steps /\ e.step = "cleanup" /\ e.command = i
  BY <1>1 DEF Steps
<1>3. Await(r, e)
  BY DEF ReadCleanup
<1> HIDE DEF e
<1> QED BY <1>2, <1>3, AwaitKeeps DEF ReadCleanup

(* A machine that may be listed hosts and is not retired.                  *)
LEMMA FitHosts == ASSUME InHand, NEW d \in Devices, Fit(d) PROVE Hosting(d) /\ ~Retired(d)
  BY DEF Fit, Hosting, InHand, RetiredMachines

(* A listing is created for a machine that is fit, and by one request.     *)
LEMMA ReadCreateOfferKeeps ==
    ASSUME InHand, NEW r \in Requests, NEW o \in Offers, NEW d \in Devices, ReadCreateOffer(r, o, d)
    PROVE  InHand'
<1> DEFINE e == [step |-> "create", offer |-> o, device |-> d]
<1>1. e \in Steps /\ e.step = "create" /\ e.offer = o /\ e.device = d
  BY DEF Steps
<1>2. Await(r, e) /\ offer[o] = NoOffer /\ Hosting(d)
  BY FitHosts DEF ReadCreateOffer
<1>3. \A q \in Requests : req[q].step # "create"
  BY DEF ReadCreateOffer, Idle
<1> HIDE DEF e
<1> QED BY <1>1, <1>2, <1>3, AwaitKeeps DEF ReadCreateOffer

(* A change of a listing has read its status and its version together.     *)
LEMMA ReadOfferStatusKeeps ==
    ASSUME InHand, NEW r \in Requests, NEW o \in Offers,
           NEW s \in {"PUBLISHED", "PAUSED", "UNLISTED"}, ReadOfferStatus(r, o, s)
    PROVE  InHand'
<1> DEFINE e == [step |-> "offer", offer |-> o, status |-> s, version |-> offer[o].version]
<1>1. offer[o].version \in Nat \ {0} /\ offer[o] # NoOffer
  BY DevicesAssumption DEF ReadOfferStatus, NoOffer
<1>2. offer[o].device \in Devices
  BY <1>1, Kinds DEF InHand
<1>3. e \in Steps /\ e.step = "offer" /\ e.offer = o /\ e.status = s /\ e.version = offer[o].version
  BY <1>1 DEF Steps
<1>4. /\ Await(r, e)
      /\ s = "PUBLISHED" => offer[o].status \in {"DRAFT", "PAUSED"} /\ ~Retired(offer[o].device)
      /\ s = "PAUSED" => offer[o].status = "PUBLISHED"
  BY <1>2, FitHosts DEF ReadOfferStatus
<1> HIDE DEF e
<1> QED BY <1>3, <1>4, AwaitKeeps DEF ReadOfferStatus

(* A reservation has read a listing, and its contract is not there yet.    *)
LEMMA ReadReserveKeeps ==
    ASSUME InHand, NEW r \in Requests, NEW k \in Contracts, NEW o \in Offers, ReadReserve(r, k, o)
    PROVE  InHand'
<1> DEFINE e == [step |-> "reserve", contract |-> k, offer |-> o]
<1>1. e \in Steps /\ e.step = "reserve" /\ e.contract = k
  BY DEF Steps
<1>2. Await(r, e) /\ contract[k] = NoContract
  BY DEF ReadReserve
<1>3. \A q \in Requests : req[q].step # "reserve"
  BY DEF ReadReserve, Idle
<1> HIDE DEF e
<1> QED BY <1>1, <1>2, <1>3, AwaitKeeps DEF ReadReserve

-----------------------------------------------------------------------------
(* Profile, challenges, heartbeats. *)

(* The supplier's own changes of his profile touch nothing else.           *)
LEMMA ProfileKeeps == ASSUME InHand, SaveProfile \/ SubmitProfile PROVE InHand'
<1>1. Typed
  BY DEF InHand
<1>2. UNCHANGED <<mode, challenge, device, retirement, offer, contract, cmds, req>>
  BY DEF SaveProfile, SubmitProfile
<1>3. /\ profile'.version \in Nat
      /\ profile'.status \in {"NONE", "DRAFT", "SUBMITTED", "APPROVED", "REJECTED", "SUSPENDED"}
  BY <1>1 DEF Typed, SaveProfile, SubmitProfile
<1>4. Usual
  BY <1>1, <1>2, <1>3, Rest DEF Usual
<1>5. CommandsHold /\ DOMAIN cmds' = DOMAIN cmds
  BY <1>1, <1>2, CommandsRest
<1> QED BY <1>2, <1>4, <1>5, ClosingStep

(* A challenge that is consumed is not issued, lapsed or revoked again.    *)
LEMMA ChallengeKeeps ==
    ASSUME InHand, NEW c \in Challenges, IssueAgentChallenge(c) \/ Lapse(c) \/ RevokeAgentChallenge(c)
    PROVE  InHand'
<1>1. Typed
  BY DEF InHand
<1>2. UNCHANGED <<mode, profile, device, retirement, offer, contract, cmds, req>>
  BY DEF IssueAgentChallenge, Lapse, RevokeAgentChallenge
<1>3. /\ challenge' \in [Challenges -> {"NONE", "OPEN", "LAPSED", "CONSUMED", "REVOKED"}]
      /\ \A b \in Challenges : challenge[b] = "CONSUMED" => challenge'[b] = "CONSUMED"
  BY <1>1 DEF Typed, IssueAgentChallenge, Lapse, RevokeAgentChallenge
<1>4. Usual
  BY <1>1, <1>2, <1>3, Rest DEF Usual
<1>5. CommandsHold /\ DOMAIN cmds' = DOMAIN cmds
  BY <1>1, <1>2, CommandsRest
<1> QED BY <1>2, <1>4, <1>5, ClosingStep

(* A review that suspends the supplier suspends his listings, and brings   *)
(* none back.                                                              *)
LEMMA PostReviewKeeps == ASSUME InHand, NEW r \in Requests, PostReview(r) PROVE InHand'
<1>1. Typed
  BY DEF InHand
<1>2. UNCHANGED <<mode, challenge, device, retirement, contract, cmds>> /\ Finish(r)
  BY DEF PostReview
<1>3. req[r] \in Steps /\ req[r].step = "review"
  BY <1>1 DEF Typed, PostReview
<1>4. req[r].status \in {"APPROVED", "REJECTED", "SUSPENDED"}
  BY <1>3 DEF Steps, Idle
<1>5. /\ profile'.version \in Nat
      /\ profile'.status \in {"NONE", "DRAFT", "SUBMITTED", "APPROVED", "REJECTED", "SUSPENDED"}
  BY <1>1, <1>4 DEF Typed, PostReview
<1>6. offer' = [o \in Offers |-> offer'[o]] /\ \A o \in Offers : ListingHolds(o)
  <2>1. CASE UNCHANGED offer
    BY <1>1, <2>1, Rest
  <2>2. CASE offer' = Suspended(Offers, {"DRAFT", "PUBLISHED", "PAUSED"})
    BY <1>1, <2>2, SuspendedHolds
  <2> QED BY <2>1, <2>2 DEF PostReview
<1>7. Usual
  BY <1>1, <1>2, <1>5, <1>6, Rest, FinishLeaves DEF Usual
<1>8. CommandsHold /\ DOMAIN cmds' = DOMAIN cmds
  BY <1>1, <1>2, CommandsRest
<1> QED BY <1>2, <1>7, <1>8, ClosingStep

(* A heartbeat leaves a machine that is revoked alone, and finds out about *)
(* a retirement where it writes.                                           *)
LEMMA PostHeartbeatKeeps == ASSUME InHand, NEW r \in Requests, PostHeartbeat(r) PROVE InHand'
<1> DEFINE d == req[r].device
           expired == req[r].changed \/ Retired(d)
           status == IF Retired(d) THEN "DRAINING" ELSE req[r].next
           row == [device[d] EXCEPT !.status = status, !.verification = IF expired THEN "EXPIRED" ELSE @,
                                    !.seq = req[r].seq]
<1>1. Typed
  BY DEF InHand
<1>2. UNCHANGED <<mode, profile, challenge, retirement, contract, cmds>> /\ Finish(r)
  BY DEF PostHeartbeat
<1>3. /\ d \in Devices /\ Known(d) /\ req[r].seq \in 0 .. MaxBeats
      /\ req[r].next \in {"ONLINE", "OFFLINE", "VERIFYING", "VERIFIED", "BUSY", "DRAINING"}
  <2>1. req[r] \in Steps /\ req[r].step = "beat" /\ Known(d)
    BY DEF PostHeartbeat, InHand, Typed, Reading
  <2>2. req[r].seq \in 1 .. MaxBeats
    BY <2>1 DEF Steps, Idle
  <2> QED BY <2>1, <2>2 DEF Steps, Idle
<1>4. CASE UNCHANGED <<device, offer>>
  <2>1. Usual
    BY <1>1, <1>2, <1>4, Rest, FinishLeaves DEF Usual
  <2>2. CommandsHold /\ DOMAIN cmds' = DOMAIN cmds
    BY <1>1, <1>2, CommandsRest
  <2> QED BY <1>2, <2>1, <2>2, ClosingStep
<1>5. CASE /\ device[d].status # "REVOKED" /\ device' = [device EXCEPT ![d] = row]
           /\ offer' = IF expired THEN Suspended(OffersOf(d), {"PUBLISHED", "PAUSED"}) ELSE offer
  <2>1. /\ row \in DeviceRow /\ row.challenge = device[d].challenge /\ row.status = status
        /\ Retired(d) => row.verification = "EXPIRED"
    <3>1. device[d] \in DeviceRow /\ status \in {"ONLINE", "OFFLINE", "VERIFYING", "VERIFIED", "BUSY", "DRAINING"}
      BY <1>1, <1>3, Kinds
    <3>2. \A v \in {"NOT_RUN", "PENDING", "PASSED", "FAILED", "EXPIRED"} :
              LET made == [device[d] EXCEPT !.status = status, !.verification = v, !.seq = req[r].seq] IN
              /\ made \in DeviceRow /\ made.challenge = device[d].challenge
              /\ made.status = status /\ made.verification = v
      <4> HIDE DEF status, d
      <4> QED BY <1>3, <3>1 DEF DeviceRow
    <3>3. device[d].verification \in {"NOT_RUN", "PENDING", "PASSED", "FAILED", "EXPIRED"}
      BY <3>1 DEF DeviceRow
    <3>4. (IF expired THEN "EXPIRED" ELSE device[d].verification)
              \in {"NOT_RUN", "PENDING", "PASSED", "FAILED", "EXPIRED"}
      BY <3>3
    <3>5. row = [device[d] EXCEPT !.status = status,
                                  !.verification = IF expired THEN "EXPIRED" ELSE device[d].verification,
                                  !.seq = req[r].seq]
      OBVIOUS
    <3> HIDE DEF row, status, d
    <3> QED BY <3>2, <3>4, <3>5
  <2>2. Retired(d) => status = "DRAINING" /\ retirement[d].status # "FINALIZED"
    BY <1>3, <1>5 DEF InHand, RetiredMachines
  <2>3. status # "REVOKED"
    BY <1>3
  <2> HIDE DEF row, status
  <2>4. device' = [e \in Devices |-> device'[e]] /\ \A e \in Devices : MachineHolds(e)
    BY <1>1, <1>3, <1>5, <2>1, <2>2, <2>3, MachineHoldsAt
  <2>5. offer' = [o \in Offers |-> offer'[o]] /\ \A o \in Offers : ListingHolds(o)
    <3>1. CASE UNCHANGED offer
      BY <1>1, <3>1, Rest
    <3>2. CASE offer' = Suspended(OffersOf(d), {"PUBLISHED", "PAUSED"})
      BY <1>1, <3>2, SuspendedHolds
    <3> QED BY <1>5, <3>1, <3>2
  <2>6. Usual
    BY <1>1, <1>2, <2>4, <2>5, Rest, FinishLeaves DEF Usual
  <2>7. CommandsHold /\ DOMAIN cmds' = DOMAIN cmds
    BY <1>1, <1>2, CommandsRest
  <2> QED BY <1>2, <2>6, <2>7, ClosingStep
<1> QED BY <1>4, <1>5 DEF PostHeartbeat

-----------------------------------------------------------------------------
(* Contracts and commands. *)

(* What a contract is about.                                               *)
LEMMA Rented ==
    ASSUME InHand, NEW k \in Contracts, contract[k] # NoContract
    PROVE  /\ contract[k].offer \in Offers /\ offer[contract[k].offer] # NoOffer
           /\ DeviceOf(k) = offer[contract[k].offer].device
           /\ DeviceOf(k) \in Devices /\ Known(DeviceOf(k)) /\ Hosting(DeviceOf(k))
  BY Kinds DEF InHand, Renting, Listing, DeviceOf, Hosting

(* What a command is about.                                                *)
LEMMA ForRented ==
    ASSUME InHand, NEW i \in DOMAIN cmds, cmds[i].type \in ForRenter
    PROVE  LET k == cmds[i].contract IN
           /\ k \in Contracts /\ contract[k] # NoContract /\ cmds[i].device = DeviceOf(k)
           /\ cmds[i].status = "OPEN" =>
                  /\ contract[k].status = IF cmds[i].type = "CLEANUP" THEN "CLEANING" ELSE "PROVISIONING"
                  /\ contract[k].status \notin Over
  BY DEF InHand, Commanding, Addressed, Over

(* Once one is done, none is open for the same contract.                   *)
LEMMA OthersElsewhere ==
    ASSUME InHand, NEW i \in DOMAIN cmds, cmds[i].type \in ForRenter, cmds[i].status = "OPEN",
           NEW status \in {"SUCCEEDED", "FAILED"}, Done(i, status)
    PROVE  \A j \in DOMAIN cmds : cmds[j].type \in ForRenter /\ cmds'[j].status = "OPEN"
               => cmds[j].contract \in Contracts /\ cmds[j].contract # cmds[i].contract
<1> SUFFICES ASSUME NEW j \in DOMAIN cmds, cmds[j].type \in ForRenter, cmds'[j].status = "OPEN"
             PROVE  cmds[j].contract \in Contracts /\ cmds[j].contract # cmds[i].contract
  OBVIOUS
<1>1. Typed /\ Commanding
  BY DEF InHand
<1>2. j # i /\ cmds[j].status = "OPEN"
  BY <1>1, DoneHolds
<1> QED BY <1>1, <1>2, ForRented DEF Commanding

(* A verification is queued for a machine that is not being retired.       *)
LEMMA QueueVerificationKeeps == ASSUME InHand, NEW d \in Devices, QueueVerification(d) PROVE InHand'
<1> DEFINE row == [device[d] EXCEPT !.status = "VERIFYING", !.verification = "PENDING"]
           command == [type |-> "VERIFY", device |-> d, contract |-> "none", status |-> "OPEN"]
<1>1. Typed
  BY DEF InHand
<1>2. /\ UNCHANGED <<mode, profile, challenge, retirement, offer, contract, req>>
      /\ Known(d) /\ device[d].status \in {"ONLINE", "VERIFIED"} /\ ~Retired(d)
      /\ device' = [device EXCEPT ![d] = row] /\ cmds' = Append(cmds, command)
  BY DEF QueueVerification, Queue
<1>3. row \in DeviceRow /\ row.challenge = device[d].challenge
  <2>1. device[d] \in DeviceRow
    BY <1>1, <1>2, Kinds
  <2>2. row = [device[d] EXCEPT !.status = "VERIFYING", !.verification = "PENDING"]
    OBVIOUS
  <2> HIDE DEF row
  <2> QED BY <2>1, <2>2 DEF DeviceRow
<1>4. /\ command \in CommandRow /\ command.type = "VERIFY" /\ command.device = d
  BY DEF CommandRow
<1> HIDE DEF row, command
<1>5. device' = [e \in Devices |-> device'[e]] /\ \A e \in Devices : MachineHolds(e)
  BY <1>1, <1>2, <1>3, MachineHoldsAt
<1>6. Usual
  BY <1>1, <1>2, <1>5, Rest DEF Usual
<1>7. command.type \notin ForRenter
  BY <1>4 DEF ForRenter
<1> QED BY <1>2, <1>4, <1>6, <1>7, QueueingStep

(* A verification changes no machine that is being retired: its command    *)
(* was failed or is refused.                                               *)
LEMMA CompleteVerifyKeeps ==
    ASSUME InHand, NEW i \in DOMAIN cmds, NEW ok \in BOOLEAN, CompleteVerify(i, ok) PROVE InHand'
<1> DEFINE d == cmds[i].device
           row == [device[d] EXCEPT !.status = IF ok THEN "VERIFIED" ELSE "ONLINE",
                                    !.verification = IF ok THEN "PASSED" ELSE "FAILED"]
<1>1. Typed /\ d \in Devices
  BY Kinds DEF InHand
<1>2. /\ UNCHANGED <<mode, profile, challenge, retirement, contract, req>>
      /\ cmds[i].type = "VERIFY" /\ cmds[i].status = "OPEN" /\ ~Retired(d)
      /\ Done(i, IF ok THEN "SUCCEEDED" ELSE "FAILED")
      /\ device[d].status = "VERIFYING" /\ device' = [device EXCEPT ![d] = row]
      /\ offer' = IF ok THEN offer ELSE Suspended(OffersOf(d), {"PUBLISHED", "PAUSED"})
  BY DEF CompleteVerify, Completes
<1>3. Known(d)
  BY <1>1, <1>2, Kinds
<1>4. row \in DeviceRow /\ row.challenge = device[d].challenge
  <2>1. device[d] \in DeviceRow
    BY <1>1, <1>3, Kinds
  <2>2. /\ (IF ok THEN "VERIFIED" ELSE "ONLINE") \in
               {"ONLINE", "OFFLINE", "VERIFYING", "VERIFIED", "BUSY", "DRAINING", "REVOKED"}
        /\ (IF ok THEN "PASSED" ELSE "FAILED") \in {"NOT_RUN", "PENDING", "PASSED", "FAILED", "EXPIRED"}
    OBVIOUS
  <2>3. row = [device[d] EXCEPT !.status = IF ok THEN "VERIFIED" ELSE "ONLINE",
                                !.verification = IF ok THEN "PASSED" ELSE "FAILED"]
    OBVIOUS
  <2> HIDE DEF row, d
  <2>4. \A s \in {"VERIFIED", "ONLINE"}, v \in {"PASSED", "FAILED"} :
           [device[d] EXCEPT !.status = s, !.verification = v] \in DeviceRow
    BY <2>1 DEF DeviceRow
  <2>5. row.challenge = device[d].challenge
    BY <2>1, <2>3 DEF DeviceRow
  <2> QED BY <2>3, <2>4, <2>5
<1> HIDE DEF d, row
<1>5. device' = [e \in Devices |-> device'[e]] /\ \A e \in Devices : MachineHolds(e)
  BY <1>1, <1>2, <1>3, <1>4, MachineHoldsAt
<1>6. offer' = [o \in Offers |-> offer'[o]] /\ \A o \in Offers : ListingHolds(o)
  <2>1. CASE UNCHANGED offer
    BY <1>1, <2>1, Rest
  <2>2. CASE offer' = Suspended(OffersOf(d), {"PUBLISHED", "PAUSED"})
    BY <1>1, <2>2, SuspendedHolds
  <2> QED BY <1>2, <2>1, <2>2
<1>7. Usual
  BY <1>1, <1>2, <1>5, <1>6, Rest DEF Usual
<1>8. CommandsHold /\ DOMAIN cmds' = DOMAIN cmds
  BY <1>1, <1>2, DoneHolds
<1> QED BY <1>2, <1>7, <1>8, ClosingStep

(* A provision is completed by a machine that does not drain, and closes   *)
(* the only command of its contract.                                       *)
LEMMA CompleteProvisionKeeps ==
    ASSUME InHand, NEW i \in DOMAIN cmds, CompleteProvision(i) PROVE InHand'
<1> DEFINE d == cmds[i].device
           k == cmds[i].contract
           row == [device[d] EXCEPT !.status = "BUSY"]
<1>1. Typed /\ d \in Devices
  BY Kinds DEF InHand
<1>2. /\ UNCHANGED <<mode, profile, challenge, retirement, offer, req>>
      /\ cmds[i].type \in ForRenter /\ cmds[i].status = "OPEN" /\ ~Retired(d) /\ device[d].status # "REVOKED"
      /\ Done(i, "SUCCEEDED")
      /\ contract' = [contract EXCEPT ![k].status = "READY"]
      /\ device' = [device EXCEPT ![d] = row]
  BY DEF CompleteProvision, Completes, ForRenter
<1>3. k \in Contracts /\ contract[k].status \notin Over /\ Known(d)
  BY <1>2, ForRented, Rented
<1>4. row \in DeviceRow /\ row.challenge = device[d].challenge
  <2>1. device[d] \in DeviceRow /\ row = [device[d] EXCEPT !.status = "BUSY"]
    BY <1>1, <1>3, Kinds
  <2> HIDE DEF row, d
  <2> QED BY <2>1, StatusRow
<1>5. \A j \in DOMAIN cmds : cmds[j].type \in ForRenter /\ cmds'[j].status = "OPEN"
          => cmds[j].contract \in Contracts /\ cmds[j].contract # k
  BY <1>2, OthersElsewhere
<1> HIDE DEF d, k, row
<1>6. device' = [e \in Devices |-> device'[e]] /\ \A e \in Devices : MachineHolds(e)
  BY <1>1, <1>2, <1>3, <1>4, MachineHoldsAt
<1>7. /\ contract' = [n \in Contracts |-> contract'[n]] /\ \A n \in Contracts : ContractHolds(n)
      /\ \A n \in Contracts : n # k => contract'[n] = contract[n]
  BY <1>1, <1>2, <1>3, ContractHoldsAt
<1>8. Usual
  BY <1>1, <1>2, <1>6, <1>7, Rest DEF Usual
<1>9. CommandsHold /\ DOMAIN cmds' = DOMAIN cmds
  BY <1>1, <1>2, DoneHolds
<1> QED BY <1>5, <1>7, <1>8, <1>9, ClosingStep

(* A failure takes machine and listing off the market, retired or not.     *)
LEMMA FailCommandKeeps == ASSUME InHand, NEW i \in DOMAIN cmds, FailCommand(i) PROVE InHand'
<1> DEFINE d == cmds[i].device
           k == cmds[i].contract
           o == contract[k].offer
           row == [device[d] EXCEPT !.status = "DRAINING"]
           status == IF cmds[i].type = "CLEANUP" THEN "CLEANING" ELSE "FAILED"
<1>1. Typed /\ d \in Devices
  BY Kinds DEF InHand
<1>2. /\ UNCHANGED <<mode, profile, challenge, retirement, req>>
      /\ cmds[i].type \in ForRenter /\ cmds[i].status = "OPEN" /\ device[d].status # "REVOKED"
      /\ Done(i, "FAILED")
      /\ contract' = [contract EXCEPT ![k].status = status]
      /\ device' = [device EXCEPT ![d] = row]
      /\ offer' = Becomes(o, "SUSPENDED")
  BY DEF FailCommand, Completes, ForRenter
<1>3. /\ k \in Contracts /\ contract[k].status \notin Over /\ Known(d)
      /\ o \in Offers /\ offer[o] # NoOffer
  BY <1>2, ForRented, Rented
<1>4. row \in DeviceRow /\ row.challenge = device[d].challenge /\ row.status = "DRAINING"
      /\ row.verification = device[d].verification
  <2>1. device[d] \in DeviceRow /\ row = [device[d] EXCEPT !.status = "DRAINING"]
    BY <1>1, <1>3, Kinds
  <2> HIDE DEF row, d
  <2> QED BY <2>1, StatusRow
<1>5. Retired(d) => row.verification = "EXPIRED" /\ retirement[d].status # "FINALIZED"
  BY <1>1, <1>2, <1>4 DEF InHand, RetiredMachines
<1>6. \A j \in DOMAIN cmds : cmds[j].type \in ForRenter /\ cmds'[j].status = "OPEN"
          => cmds[j].contract \in Contracts /\ cmds[j].contract # k
  BY <1>2, OthersElsewhere
<1>7. status \in {"CLEANING", "FAILED"}
  OBVIOUS
<1> HIDE DEF d, k, o, row, status
<1>8. device' = [e \in Devices |-> device'[e]] /\ \A e \in Devices : MachineHolds(e)
  BY <1>1, <1>2, <1>3, <1>4, <1>5, MachineHoldsAt
<1>9. /\ contract' = [n \in Contracts |-> contract'[n]] /\ \A n \in Contracts : ContractHolds(n)
      /\ \A n \in Contracts : n # k => contract'[n] = contract[n]
  BY <1>1, <1>2, <1>3, <1>7, ContractHoldsAt
<1>10. offer' = [p \in Offers |-> offer'[p]] /\ \A p \in Offers : ListingHolds(p)
  BY <1>1, <1>2, <1>3, BecomesHolds
<1>11. Usual
  BY <1>1, <1>2, <1>8, <1>9, <1>10, Rest DEF Usual
<1>12. CommandsHold /\ DOMAIN cmds' = DOMAIN cmds
  BY <1>1, <1>2, DoneHolds
<1> QED BY <1>6, <1>9, <1>11, <1>12, ClosingStep

(* A cleanup that arrives after a retirement does not publish the listing. *)
LEMMA PostCleanupKeeps == ASSUME InHand, NEW r \in Requests, PostCleanup(r) PROVE InHand'
<1> DEFINE i == req[r].command
           d == cmds[i].device
           k == cmds[i].contract
           o == contract[k].offer
           back == req[r].fresh /\ ~Retired(d)
           status == IF Retired(d) THEN "DRAINING" ELSE IF back THEN "VERIFIED" ELSE "ONLINE"
           verification == IF back THEN "PASSED" ELSE "EXPIRED"
           row == [device[d] EXCEPT !.status = status, !.verification = verification]
<1>1. Typed /\ i \in DOMAIN cmds /\ cmds[i].type = "CLEANUP"
  BY DEF InHand, Reading, PostCleanup
<1>2. UNCHANGED <<mode, profile, challenge, retirement>> /\ Finish(r)
  BY DEF PostCleanup
<1>3. CASE UNCHANGED <<cmds, contract, device, offer>>
  <2>1. Usual
    BY <1>1, <1>2, <1>3, Rest, FinishLeaves DEF Usual
  <2>2. CommandsHold /\ DOMAIN cmds' = DOMAIN cmds
    BY <1>1, <1>3, CommandsRest
  <2> QED BY <1>3, <2>1, <2>2, ClosingStep
<1>4. CASE /\ Completes(i) /\ Done(i, "SUCCEEDED")
           /\ contract' = [contract EXCEPT ![k].status = "CLEANED"]
           /\ device' = [device EXCEPT ![d] = row]
           /\ offer' = IF offer[o].status \notin {"RESERVED", "SUSPENDED"} THEN offer
                       ELSE Becomes(o, IF back THEN "PUBLISHED" ELSE "SUSPENDED")
  <2>1. d \in Devices /\ cmds[i].type \in ForRenter /\ cmds[i].status = "OPEN" /\ device[d].status # "REVOKED"
    BY <1>1, <1>4, Kinds DEF ForRenter, Completes
  <2>2. /\ k \in Contracts /\ contract[k].status \notin Over /\ Known(d)
        /\ o \in Offers /\ offer[o] # NoOffer /\ offer[o].device = d
    BY <1>1, <2>1, ForRented, Rented
  <2>3. /\ status \in {"DRAINING", "VERIFIED", "ONLINE"} /\ verification \in {"PASSED", "EXPIRED"}
        /\ Retired(d) => status = "DRAINING" /\ verification = "EXPIRED" /\ ~back
    OBVIOUS
  <2>4. /\ row \in DeviceRow /\ row.challenge = device[d].challenge
        /\ row.status = status /\ row.verification = verification
    <3>1. device[d] \in DeviceRow
      BY <1>1, <2>1, <2>2, Kinds
    <3>2. row = [device[d] EXCEPT !.status = status, !.verification = verification]
      OBVIOUS
    <3> HIDE DEF row, status, verification, d
    <3> QED BY <2>3, <3>1, <3>2 DEF DeviceRow
  <2>5. Retired(d) => retirement[d].status # "FINALIZED"
    BY <2>1 DEF InHand, RetiredMachines
  <2>6. \A j \in DOMAIN cmds : cmds[j].type \in ForRenter /\ cmds'[j].status = "OPEN"
            => cmds[j].contract \in Contracts /\ cmds[j].contract # k
    BY <1>1, <1>4, <2>1, OthersElsewhere
  <2> HIDE DEF i, d, k, o, back, status, verification, row
  <2>7. device' = [e \in Devices |-> device'[e]] /\ \A e \in Devices : MachineHolds(e)
    BY <1>1, <1>4, <2>1, <2>2, <2>3, <2>4, <2>5, MachineHoldsAt
  <2>8. /\ contract' = [n \in Contracts |-> contract'[n]] /\ \A n \in Contracts : ContractHolds(n)
        /\ \A n \in Contracts : n # k => contract'[n] = contract[n]
    BY <1>1, <1>4, <2>2, ContractHoldsAt
  <2>9. offer' = [p \in Offers |-> offer'[p]] /\ \A p \in Offers : ListingHolds(p)
    <3>1. CASE UNCHANGED offer
      BY <1>1, <3>1, Rest
    <3>2. CASE back /\ offer' = Becomes(o, "PUBLISHED")
      BY <1>1, <2>2, <2>3, <3>2, BecomesHolds
    <3>3. CASE offer' = Becomes(o, "SUSPENDED")
      BY <1>1, <2>2, <3>3, BecomesHolds
    <3> QED BY <1>4, <3>1, <3>2, <3>3
  <2>10. Usual
    BY <1>1, <1>2, <2>7, <2>8, <2>9, Rest, FinishLeaves DEF Usual
  <2>11. CommandsHold /\ DOMAIN cmds' = DOMAIN cmds
    BY <1>1, <1>4, DoneHolds
  <2> QED BY <2>6, <2>8, <2>10, <2>11, ClosingStep
<1> QED BY <1>3, <1>4 DEF PostCleanup

(* A listing that still has the version that was read is published only if *)
(* its machine has not been retired since.                                 *)
LEMMA PostOfferStatusKeeps == ASSUME InHand, NEW r \in Requests, PostOfferStatus(r) PROVE InHand'
<1> DEFINE o == req[r].offer
           status == req[r].status
<1>1. Typed
  BY DEF InHand
<1>2. UNCHANGED <<mode, profile, challenge, device, retirement, contract, cmds>> /\ Finish(r)
  BY DEF PostOfferStatus
<1>3. /\ o \in Offers /\ status \in {"PUBLISHED", "PAUSED", "UNLISTED"}
      /\ req[r].version \in Nat /\ req[r].version # 0 /\ Relists(r)
  <2>1. req[r] \in Steps /\ req[r].step = "offer" /\ Relists(r)
    BY <1>1 DEF PostOfferStatus, InHand, Listing, Typed
  <2> QED BY <2>1 DEF Steps, Idle
<1>4. offer' = [p \in Offers |-> offer'[p]] /\ \A p \in Offers : ListingHolds(p)
  <2>1. CASE UNCHANGED offer
    BY <1>1, <2>1, Rest
  <2>2. CASE offer[o].version = req[r].version /\ offer' = Becomes(o, status)
    <3>1. offer[o] # NoOffer
      BY <1>3, <2>2 DEF NoOffer
    <3>2. Retired(offer[o].device) => status = "UNLISTED"
      <4>1. status = "PUBLISHED" => ~Retired(offer[o].device)
        BY <1>3, <2>2 DEF Relists
      <4>2. status = "PAUSED" => offer[o].status = "PUBLISHED"
        BY <1>3, <2>2 DEF Relists
      <4>3. offer[o].status = "PUBLISHED" => ~Retired(offer[o].device)
        BY <1>3, <3>1 DEF InHand, RetiredListings
      <4> QED BY <1>3, <4>1, <4>2, <4>3
    <3> HIDE DEF o, status
    <3> QED BY <1>1, <1>3, <2>2, <3>1, <3>2, BecomesHolds
  <2> QED BY <2>1, <2>2 DEF PostOfferStatus
<1>5. Usual
  BY <1>1, <1>2, <1>4, Rest, FinishLeaves DEF Usual
<1>6. CommandsHold /\ DOMAIN cmds' = DOMAIN cmds
  BY <1>1, <1>2, CommandsRest
<1> QED BY <1>2, <1>5, <1>6, ClosingStep

(* A contract that goes on while no command is open for it.                *)
LEMMA ContractStep ==
    ASSUME InHand, NEW k \in Contracts, contract[k].status \notin Over,
           contract[k].status \notin {"PROVISIONING", "CLEANING"},
           NEW status \in {"HELD", "CANCELLED", "PROVISIONING", "READY", "IN_SERVICE",
                           "AWAITING_ACCEPTANCE", "DISPUTED", "FAILED", "CLEANING", "CLEANED"},
           contract' = [contract EXCEPT ![k].status = status],
           UNCHANGED <<mode, profile, challenge, retirement, cmds, req>>,
           device' = [e \in Devices |-> device'[e]], \A e \in Devices : MachineHolds(e),
           offer' = [p \in Offers |-> offer'[p]], \A p \in Offers : ListingHolds(p)
    PROVE  InHand'
<1>1. Typed /\ Commanding
  BY DEF InHand
<1>2. /\ contract' = [n \in Contracts |-> contract'[n]] /\ \A n \in Contracts : ContractHolds(n)
      /\ \A n \in Contracts : n # k => contract'[n] = contract[n]
  BY <1>1, ContractHoldsAt
<1>3. Usual
  BY <1>1, <1>2, Rest DEF Usual
<1>4. CommandsHold /\ DOMAIN cmds' = DOMAIN cmds
  BY <1>1, CommandsRest
<1>5. \A i \in DOMAIN cmds : cmds[i].type \in ForRenter /\ cmds'[i].status = "OPEN"
          => cmds[i].contract \in Contracts /\ cmds[i].contract # k
  BY <1>1, NoneOpen, ForRented
<1> QED BY <1>2, <1>3, <1>4, <1>5, ClosingStep

(* A cancelled contract gives its listing back, suspended if the machine   *)
(* is being retired.                                                       *)
LEMMA CancelContractKeeps == ASSUME InHand, NEW k \in Contracts, CancelContract(k) PROVE InHand'
<1> DEFINE o == contract[k].offer
<1>1. Typed
  BY DEF InHand
<1>2. /\ contract[k].status = "HELD" /\ contract' = [contract EXCEPT ![k].status = "CANCELLED"]
      /\ offer' = IF offer[o].status # "RESERVED" THEN offer
                  ELSE Becomes(o, IF Retired(offer[o].device) THEN "SUSPENDED" ELSE "PUBLISHED")
      /\ UNCHANGED <<mode, profile, challenge, device, retirement, cmds, req>>
  BY DEF CancelContract
<1>3. contract[k].status \notin Over /\ o \in Offers /\ offer[o] # NoOffer
  BY <1>1, <1>2, Kinds, Rented DEF Over
<1> HIDE DEF o
<1>4. offer' = [p \in Offers |-> offer'[p]] /\ \A p \in Offers : ListingHolds(p)
  <2>1. CASE UNCHANGED offer
    BY <1>1, <2>1, Rest
  <2>2. CASE Retired(offer[o].device) /\ offer' = Becomes(o, "SUSPENDED")
    BY <1>1, <1>3, <2>2, BecomesHolds
  <2>3. CASE ~Retired(offer[o].device) /\ offer' = Becomes(o, "PUBLISHED")
    BY <1>1, <1>3, <2>3, BecomesHolds
  <2> QED BY <1>2, <2>1, <2>2, <2>3
<1>5. device' = [e \in Devices |-> device'[e]] /\ \A e \in Devices : MachineHolds(e)
  BY <1>1, <1>2, Rest
<1> QED BY <1>2, <1>3, <1>4, <1>5, ContractStep

(* A service that goes on touches no machine.                              *)
LEMMA ServeKeeps == ASSUME InHand, NEW k \in Contracts, Serve(k) PROVE InHand'
<1>1. Typed
  BY DEF InHand
<1>2. UNCHANGED <<mode, profile, challenge, device, retirement, offer, cmds, req>>
  BY DEF Serve
<1>3. PICK status \in {"IN_SERVICE", "AWAITING_ACCEPTANCE"} :
          contract[k].status \in {"READY", "IN_SERVICE"} /\ contract' = [contract EXCEPT ![k].status = status]
  BY DEF Serve
<1>4. contract[k].status \notin Over /\ contract[k].status \notin {"PROVISIONING", "CLEANING"}
  BY <1>3 DEF Over
<1>5. device' = [e \in Devices |-> device'[e]] /\ \A e \in Devices : MachineHolds(e)
  BY <1>1, <1>2, Rest
<1>6. offer' = [p \in Offers |-> offer'[p]] /\ \A p \in Offers : ListingHolds(p)
  BY <1>1, <1>2, Rest
<1> QED BY <1>2, <1>3, <1>4, <1>5, <1>6, ContractStep

(* A dispute overwrites the status of the machine, and there is a renter,  *)
(* so its retirement is not over.                                          *)
LEMMA DisputeContractKeeps == ASSUME InHand, NEW k \in Contracts, DisputeContract(k) PROVE InHand'
<1> DEFINE d == DeviceOf(k)
           row == [device[d] EXCEPT !.status = "DRAINING"]
<1>1. Typed
  BY DEF InHand
<1>2. /\ contract[k].status = "AWAITING_ACCEPTANCE"
      /\ contract' = [contract EXCEPT ![k].status = "DISPUTED"]
      /\ device' = [device EXCEPT ![d] = row]
      /\ offer' = Suspended({contract[k].offer}, {"RESERVED"})
      /\ UNCHANGED <<mode, profile, challenge, retirement, cmds, req>>
  BY DEF DisputeContract
<1>3. contract[k].status \notin Over /\ contract[k].status \notin {"PROVISIONING", "CLEANING"}
  BY <1>2 DEF Over
<1>4. d \in Devices /\ Known(d) /\ Hosting(d)
  BY <1>1, <1>2, Kinds, Rented
<1>5. /\ row \in DeviceRow /\ row.challenge = device[d].challenge /\ row.status = "DRAINING"
      /\ row.verification = device[d].verification
  <2>1. device[d] \in DeviceRow /\ row = [device[d] EXCEPT !.status = "DRAINING"]
    BY <1>1, <1>4, Kinds
  <2> HIDE DEF row, d
  <2> QED BY <2>1, StatusRow
<1>6. Retired(d) => row.verification = "EXPIRED" /\ retirement[d].status # "FINALIZED"
  BY <1>3, <1>4, <1>5 DEF InHand, RetiredMachines, RetiredContracts, Ended
<1> HIDE DEF d, row
<1>7. device' = [e \in Devices |-> device'[e]] /\ \A e \in Devices : MachineHolds(e)
  BY <1>1, <1>2, <1>4, <1>5, <1>6, MachineHoldsAt
<1>8. offer' = [p \in Offers |-> offer'[p]] /\ \A p \in Offers : ListingHolds(p)
  BY <1>1, <1>2, SuspendedHolds
<1> QED BY <1>2, <1>3, <1>7, <1>8, ContractStep

(* A contract that waits for its key has no command, and gets one unless   *)
(* its machine is being retired.                                           *)
LEMMA AttachSshKeyKeeps == ASSUME InHand, NEW k \in Contracts, AttachSshKey(k) PROVE InHand'
<1> DEFINE d == DeviceOf(k)
           row == [type |-> "PROVISION", device |-> d, contract |-> k, status |-> "OPEN"]
<1>1. Typed /\ Commanding
  BY DEF InHand
<1>2. /\ contract[k].status = "HELD" /\ ~Retired(d) /\ cmds' = Append(cmds, row)
      /\ contract' = [contract EXCEPT ![k].status = "PROVISIONING"]
      /\ UNCHANGED <<mode, profile, challenge, device, retirement, offer, req>>
  BY DEF AttachSshKey, Queue
<1>3. contract[k].status \notin Over /\ contract[k].status \notin {"PROVISIONING", "CLEANING"}
      /\ contract[k] # NoContract
  BY <1>1, <1>2, Kinds DEF Over
<1>4. d \in Devices
  BY <1>3, Rented
<1>5. /\ row \in CommandRow /\ row.type = "PROVISION" /\ row.device = d /\ row.contract = k
  BY <1>4 DEF CommandRow
<1>6. /\ contract' = [n \in Contracts |-> contract'[n]] /\ \A n \in Contracts : ContractHolds(n)
      /\ contract'[k].status = "PROVISIONING"
      /\ \A n \in Contracts : n # k => contract'[n] = contract[n]
  BY <1>1, <1>2, <1>3, ContractHoldsAt
<1>7. Usual
  BY <1>1, <1>2, <1>6, Rest DEF Usual
<1>8. \A i \in DOMAIN cmds : cmds[i].type \in ForRenter /\ cmds[i].status = "OPEN"
          => cmds[i].contract \in Contracts /\ cmds[i].contract # k
  BY <1>1, <1>3, NoneOpen, ForRented
<1>9. d = DeviceOf(k)
  OBVIOUS
<1> HIDE DEF d, row
<1> QED BY <1>2, <1>3, <1>4, <1>5, <1>6, <1>7, <1>8, <1>9, QueueingStep

(* A cleanup is queued when none is open for the contract, whether or not  *)
(* the machine is being retired.                                           *)
LEMMA QueueCleanupKeeps == ASSUME InHand, NEW k \in Contracts, QueueCleanup(k) PROVE InHand'
<1> DEFINE d == DeviceOf(k)
           row == [type |-> "CLEANUP", device |-> d, contract |-> k, status |-> "OPEN"]
<1>1. Typed /\ Commanding
  BY DEF InHand
<1>2. /\ contract[k].status \in {"AWAITING_ACCEPTANCE", "DISPUTED", "FAILED", "CLEANING"}
      /\ contract[k].status = "CLEANING" =>
             \A i \in DOMAIN cmds : cmds[i].type = "CLEANUP" /\ cmds[i].contract = k
                                        => cmds[i].status = "FAILED"
      /\ cmds' = Append(cmds, row)
      /\ contract' = [contract EXCEPT ![k].status = "CLEANING"]
      /\ UNCHANGED <<mode, profile, challenge, device, retirement, offer, req>>
  BY DEF QueueCleanup, Queue
<1>3. contract[k].status \notin Over /\ contract[k] # NoContract
  BY <1>1, <1>2, Kinds DEF Over
<1>4. d \in Devices
  BY <1>3, Rented
<1>5. /\ row \in CommandRow /\ row.type = "CLEANUP" /\ row.device = d /\ row.contract = k
  BY <1>4 DEF CommandRow
<1>6. /\ contract' = [n \in Contracts |-> contract'[n]] /\ \A n \in Contracts : ContractHolds(n)
      /\ contract'[k].status = "CLEANING"
      /\ \A n \in Contracts : n # k => contract'[n] = contract[n]
  BY <1>1, <1>2, <1>3, ContractHoldsAt
<1>7. Usual
  BY <1>1, <1>2, <1>6, Rest DEF Usual
<1>8. ASSUME NEW i \in DOMAIN cmds, cmds[i].type \in ForRenter, cmds[i].status = "OPEN"
      PROVE  cmds[i].contract \in Contracts /\ cmds[i].contract # k
  <2>1. /\ cmds[i].contract \in Contracts
        /\ contract[cmds[i].contract].status =
               IF cmds[i].type = "CLEANUP" THEN "CLEANING" ELSE "PROVISIONING"
    BY <1>8, ForRented
  <2> QED BY <1>2, <1>8, <2>1
<1>9. d = DeviceOf(k)
  OBVIOUS
<1> HIDE DEF d, row
<1> QED BY <1>2, <1>3, <1>4, <1>5, <1>6, <1>7, <1>8, <1>9, QueueingStep

-----------------------------------------------------------------------------
(* The steps that create a row. *)

(* A listing that is created is a draft, and new.                          *)
LEMMA PostCreateOfferKeeps == ASSUME InHand, NEW r \in Requests, PostCreateOffer(r) PROVE InHand'
<1> DEFINE o == req[r].offer
           row == [status |-> "DRAFT", version |-> 1, device |-> req[r].device]
<1>1. Typed /\ Reading /\ QuotaIsKept /\ Listing /\ Renting /\ Commanding
  BY DEF InHand
<1>2. /\ UNCHANGED <<mode, profile, challenge, device, retirement, contract, cmds>> /\ Finish(r)
      /\ offer' = [offer EXCEPT ![o] = row] /\ req[r].step = "create" /\ CreatesNew(r)
  BY <1>1 DEF PostCreateOffer, Listing
<1>3. req[r] \in Steps
  BY <1>1 DEF Typed
<1>4. o \in Offers /\ req[r].device \in Devices
  BY <1>2, <1>3 DEF Steps, Idle
<1>5. offer[o] = NoOffer /\ Hosting(row.device) /\ row \in OfferRow /\ row.status = "DRAFT"
  BY <1>2, <1>4 DEF CreatesNew, OfferRow
<1>6. \A q \in Requests : req'[q].step # "create"
  BY <1>1, <1>2 DEF CreatesNew, Finish, Typed, Idle
<1>7. Leaving /\ req' = [q \in Requests |-> req'[q]]
  BY <1>1, <1>2, FinishLeaves
<1> HIDE DEF o, row
<1>8. offer'[o] = row /\ \A p \in Offers : p # o => offer'[p] = offer[p]
  BY <1>1, <1>2, <1>4 DEF Typed
<1>9. offer' = [p \in Offers |-> offer'[p]] /\ \A p \in Offers : ListingMoves(p)
  <2>1. offer' = [p \in Offers |-> offer'[p]]
    BY <1>1, <1>2 DEF Typed
  <2> QED BY <2>1, <1>5, <1>6, <1>8 DEF ListingMoves
<1>10. device' = [d \in Devices |-> device'[d]] /\ \A d \in Devices : MachineMoves(d)
  BY <1>1, <1>2 DEF Typed, MachineMoves
<1>11. contract' = [k \in Contracts |-> contract'[k]] /\ \A k \in Contracts : ContractMoves(k)
  BY <1>1, <1>2 DEF Typed, ContractMoves
<1>12. CommandsHold /\ DOMAIN cmds' = DOMAIN cmds
  BY <1>1, <1>2, CommandsRest
<1>13. \A k \in Contracts : contract[k] # NoContract =>
           contract'[k] # NoContract /\ offer'[contract'[k].offer].device = DeviceOf(k)
  BY <1>1, <1>2, <1>9, <1>10, <1>11, Lasts
<1>14. Typed'
  BY <1>1, <1>2, <1>7, <1>9, <1>10, <1>11, TypedStays DEF Typed
<1>15. Reading'
  BY <1>1, <1>2, <1>7, <1>9, <1>10, <1>11, ReadingStays
<1>16. Listing'
  BY <1>1, <1>2, <1>7, <1>9, <1>10, <1>11, ListingStays DEF Retired
<1>17. Renting'
  BY <1>1, <1>2, <1>7, <1>9, <1>10, <1>11, RentingStays
<1>18. Commanding'
  BY <1>1, <1>2, <1>12, <1>13, ClosingKeeps
<1>19. QuotaIsKept'
  BY <1>1, <1>2 DEF QuotaIsKept, OnTelemetry, Known
<1>20. RetiredMachines' /\ RetiredCommands'
  BY <1>2 DEF InHand, RetiredMachines, RetiredCommands, Retired
<1>21. RetiredListings'
  BY <1>2, <1>5, <1>8 DEF InHand, RetiredListings, Retired
<1>22. RetiredContracts'
  <2> SUFFICES ASSUME NEW k \in Contracts, contract[k].status \notin Over PROVE ~Ended(DeviceOf(k))'
    BY <1>2 DEF RetiredContracts, Over
  <2>1. contract[k] # NoContract /\ ~Ended(DeviceOf(k))
    BY <1>1, Kinds DEF InHand, RetiredContracts, Over, NoContract
  <2>2. DeviceOf(k)' = DeviceOf(k)
    BY <1>13, <2>1 DEF DeviceOf
  <2> QED BY <1>2, <2>1, <2>2 DEF Ended, Retired
<1> QED BY <1>14, <1>15, <1>16, <1>17, <1>18, <1>19, <1>20, <1>21, <1>22 DEF InHand

(* A listing that can be reserved is of a machine that is not retired.     *)
LEMMA PostReserveKeeps == ASSUME InHand, NEW r \in Requests, PostReserve(r) PROVE InHand'
<1> DEFINE o == req[r].offer
           k == req[r].contract
           row == [status |-> "HELD", offer |-> o]
<1>1. Typed /\ Reading /\ QuotaIsKept /\ Listing /\ Renting /\ Commanding
  BY DEF InHand
<1>2. /\ UNCHANGED <<mode, profile, challenge, device, retirement, cmds>> /\ Finish(r)
      /\ req[r].step = "reserve" /\ req[r] \in Steps
  BY <1>1 DEF PostReserve, Typed
<1>3. o \in Offers /\ k \in Contracts /\ contract[k] = NoContract
  BY <1>1, <1>2 DEF Steps, Idle, Renting
<1>4. Leaving /\ req' = [q \in Requests |-> req'[q]]
  BY <1>1, <1>2, FinishLeaves
<1>5. CommandsHold /\ DOMAIN cmds' = DOMAIN cmds
  BY <1>1, <1>2, CommandsRest
<1>6. CASE UNCHANGED <<contract, offer>>
  <2>1. Usual
    BY <1>1, <1>2, <1>4, <1>6, Rest DEF Usual
  <2> QED BY <1>5, <1>6, <2>1, ClosingStep
<1>7. CASE /\ offer[o].status = "PUBLISHED" /\ contract' = [contract EXCEPT ![k] = row]
           /\ offer' = Becomes(o, "RESERVED")
  <2>1. \A q \in Requests : req'[q].step # "reserve"
    BY <1>1, <1>2 DEF Renting, Finish, Typed, Idle
  <2>2. row \in ContractRow /\ row.offer = o
    BY <1>3 DEF ContractRow
  <2> HIDE DEF o, k, row
  <2>3. offer[o] # NoOffer /\ ~Retired(offer[o].device)
    BY <1>1, <1>3, <1>7, Kinds DEF InHand, RetiredListings
  <2>4. offer' = [p \in Offers |-> offer'[p]] /\ \A p \in Offers : ListingHolds(p)
    BY <1>1, <1>3, <1>7, <2>3, BecomesHolds
  <2>5. contract'[k] = row /\ \A n \in Contracts : n # k => contract'[n] = contract[n]
    BY <1>1, <1>3, <1>7 DEF Typed
  <2>6. contract' = [n \in Contracts |-> contract'[n]] /\ \A n \in Contracts : ContractMoves(n)
    <3>1. contract' = [n \in Contracts |-> contract'[n]]
      BY <1>1, <1>7 DEF Typed
    <3> QED BY <3>1, <1>3, <2>1, <2>2, <2>3, <2>5 DEF ContractMoves
  <2>7. \A p \in Offers : ListingMoves(p)
    BY <2>4 DEF ListingHolds, ListingMoves
  <2>8. device' = [d \in Devices |-> device'[d]] /\ \A d \in Devices : MachineMoves(d)
    BY <1>1, <1>2 DEF Typed, MachineMoves
  <2>9. \A n \in Contracts : contract[n] # NoContract =>
            contract'[n] # NoContract /\ offer'[contract'[n].offer].device = DeviceOf(n)
    BY <1>1, <1>2, <2>6, <2>7, <2>8, Lasts
  <2>10. Typed'
    BY <1>1, <1>2, <1>4, <2>4, <2>6, <2>7, <2>8, TypedStays DEF Typed
  <2>11. Reading'
    BY <1>1, <1>2, <1>4, <2>6, <2>7, <2>8, ReadingStays
  <2>12. Listing'
    BY <1>1, <1>2, <1>4, <2>6, <2>7, <2>8, ListingStays DEF Retired
  <2>13. Renting'
    BY <1>1, <1>2, <1>4, <2>6, <2>7, <2>8, RentingStays
  <2>14. \A i \in DOMAIN cmds : cmds[i].type \in ForRenter /\ cmds'[i].status = "OPEN"
             => contract'[cmds[i].contract] = contract[cmds[i].contract]
    BY <1>2, <1>3, <2>5, ForRented
  <2>15. Commanding'
    BY <1>1, <1>5, <2>9, <2>14, ClosingKeeps
  <2>16. QuotaIsKept'
    BY <1>1, <1>2 DEF QuotaIsKept, OnTelemetry, Known
  <2>17. RetiredMachines' /\ RetiredCommands'
    BY <1>2 DEF InHand, RetiredMachines, RetiredCommands, Retired
  <2>18. RetiredListings'
    BY <1>2, <2>4 DEF InHand, RetiredListings, Retired, ListingHolds
  <2>19. RetiredContracts'
    <3> SUFFICES ASSUME NEW n \in Contracts, contract'[n].status \notin Over
                 PROVE  ~Ended(offer'[contract'[n].offer].device)
      BY <1>2 DEF RetiredContracts, Over, DeviceOf, Ended, Retired
    <3>1. CASE n = k
      <4>1. offer'[o].device = offer[o].device
        BY <1>3, <2>4 DEF ListingHolds
      <4> QED BY <2>2, <2>3, <2>5, <3>1, <4>1 DEF Ended
    <3>2. CASE n # k
      <4>1. contract[n] # NoContract /\ ~Ended(DeviceOf(n))
        BY <1>1, <2>5, <3>2, Kinds DEF InHand, RetiredContracts, Over, NoContract
      <4> QED BY <2>9, <4>1
    <3> QED BY <3>1, <3>2
  <2> QED BY <2>10, <2>11, <2>12, <2>13, <2>15, <2>16, <2>17, <2>18, <2>19 DEF InHand
<1> QED BY <1>6, <1>7 DEF PostReserve

(* A registration takes the challenge it was issued for, and a place of    *)
(* the quota.                                                              *)
LEMMA PostRegisterKeeps ==
    ASSUME InHand, NEW r \in Requests, NEW d \in Devices, PostRegister(r, d) PROVE InHand'
<1> DEFINE c == req[r].challenge
           row == [status |-> "ONLINE", verification |-> "NOT_RUN", seq |-> 0, challenge |-> c]
<1>1. Typed /\ Reading /\ QuotaIsKept /\ Listing /\ Renting /\ Commanding
  BY DEF InHand
<1>2. /\ UNCHANGED <<mode, profile, retirement, offer, contract, cmds>> /\ Finish(r)
      /\ req[r].step = "register" /\ req[r] \in Steps /\ ~Known(d)
  BY <1>1 DEF PostRegister, Typed
<1>3. c \in Challenges
  BY <1>2 DEF Steps, Idle
<1>4. Leaving /\ req' = [q \in Requests |-> req'[q]]
  BY <1>1, <1>2, FinishLeaves
<1>5. CommandsHold /\ DOMAIN cmds' = DOMAIN cmds
  BY <1>1, <1>2, CommandsRest
<1>6. CASE UNCHANGED <<device, challenge>>
  <2>1. Usual
    BY <1>1, <1>2, <1>4, <1>6, Rest DEF Usual
  <2> QED BY <1>2, <1>5, <2>1, ClosingStep
<1>7. CASE /\ challenge[c] \in {"OPEN", "LAPSED"}
           /\ mode[c] = "TELEMETRY_ONLY" => Cardinality(OnTelemetry) < Quantity
           /\ Registered(c, d)
  <2>1. row \in DeviceRow /\ row.challenge = c
    BY <1>3, DevicesAssumption DEF DeviceRow
  <2>2. device' = [device EXCEPT ![d] = row] /\ challenge' = [challenge EXCEPT ![c] = "CONSUMED"]
    BY <1>7 DEF Registered
  <2> HIDE DEF c, row
  <2>3. device'[d] = row /\ \A e \in Devices : e # d => device'[e] = device[e]
    BY <1>1, <2>2 DEF Typed
  <2>4. device' = [e \in Devices |-> device'[e]] /\ \A e \in Devices : MachineMoves(e)
    <3>1. device' = [e \in Devices |-> device'[e]]
      BY <1>1, <2>2 DEF Typed
    <3> QED BY <3>1, <1>2, <2>1, <2>3 DEF MachineMoves
  <2>5. offer' = [p \in Offers |-> offer'[p]] /\ \A p \in Offers : ListingMoves(p)
    BY <1>1, <1>2 DEF Typed, ListingMoves
  <2>6. contract' = [k \in Contracts |-> contract'[k]] /\ \A k \in Contracts : ContractMoves(k)
    BY <1>1, <1>2 DEF Typed, ContractMoves
  <2>7. challenge' \in [Challenges -> {"NONE", "OPEN", "LAPSED", "CONSUMED", "REVOKED"}]
    BY <1>1, <2>2 DEF Typed
  <2>8. Typed'
    BY <1>1, <1>2, <1>4, <2>4, <2>5, <2>6, <2>7, TypedStays DEF Typed
  <2>9. Reading'
    BY <1>1, <1>2, <1>4, <2>4, <2>5, <2>6, ReadingStays
  <2>10. Listing'
    BY <1>1, <1>2, <1>4, <2>4, <2>5, <2>6, ListingStays DEF Retired
  <2>11. Renting'
    BY <1>1, <1>2, <1>4, <2>4, <2>5, <2>6, RentingStays
  <2>12. Commanding'
    BY <1>2 DEF InHand, Commanding, Addressed, DeviceOf
  <2>13. ~Retired(d)
    BY <1>2 DEF InHand, RetiredMachines, Known, NoDevice
  <2>14. RetiredMachines' /\ RetiredListings' /\ RetiredCommands' /\ RetiredContracts'
    BY <1>2, <2>3, <2>13 DEF InHand, RetiredMachines, RetiredListings, RetiredCommands, RetiredContracts,
           Retired, Ended, DeviceOf
  <2>15. Known(d)' /\ \A e \in Devices : e # d => (Known(e)' <=> Known(e))
    BY <2>1, <2>3 DEF Known, DeviceRow, NoDevice
  <2>16. \A e \in Devices : Known(e) => device[e].challenge # c /\ challenge[device[e].challenge] = "CONSUMED"
    BY <1>1, <1>7 DEF QuotaIsKept
  <2>17. QuotaIsKept'
    <3>1. Cardinality(OnTelemetry') <= Quantity
      <4>1. IsFiniteSet(OnTelemetry) /\ Cardinality(OnTelemetry) \in Nat
        BY DevicesAssumption, FS_Subset, FS_CardinalityType DEF OnTelemetry
      <4>2. CASE mode[c] = "TELEMETRY_ONLY"
        <5>1. OnTelemetry' \subseteq OnTelemetry \cup {d}
          BY <1>2, <2>3 DEF OnTelemetry, Known
        <5>2. d \notin OnTelemetry
          BY <1>2 DEF OnTelemetry
        <5>3. /\ IsFiniteSet(OnTelemetry \cup {d})
              /\ Cardinality(OnTelemetry \cup {d}) = Cardinality(OnTelemetry) + 1
          BY <4>1, <5>2, FS_AddElement, Zenon
        <5>4. IsFiniteSet(OnTelemetry') /\ Cardinality(OnTelemetry') <= Cardinality(OnTelemetry \cup {d})
          BY <5>1, <5>3, FS_Subset
        <5>5. Cardinality(OnTelemetry') \in Nat
          BY <5>4, FS_CardinalityType
        <5> QED BY <1>7, <4>1, <4>2, <5>3, <5>4, <5>5, DevicesAssumption
      <4>3. CASE mode[c] # "TELEMETRY_ONLY"
        <5>1. OnTelemetry' \subseteq OnTelemetry
          BY <1>2, <2>1, <2>3, <4>3 DEF OnTelemetry, Known
        <5>2. IsFiniteSet(OnTelemetry') /\ Cardinality(OnTelemetry') <= Cardinality(OnTelemetry)
          BY <4>1, <5>1, FS_Subset
        <5>3. Cardinality(OnTelemetry') \in Nat
          BY <5>2, FS_CardinalityType
        <5> QED BY <1>1, <4>1, <5>2, <5>3, DevicesAssumption DEF QuotaIsKept
      <4> QED BY <4>2, <4>3
    <3>2. \A e \in Devices : Known(e)' => challenge'[device'[e].challenge] = "CONSUMED"
      <4> SUFFICES ASSUME NEW e \in Devices, Known(e)' PROVE challenge'[device'[e].challenge] = "CONSUMED"
        OBVIOUS
      <4>1. CASE e = d
        BY <1>1, <1>3, <2>1, <2>2, <2>3, <4>1 DEF Typed
      <4>2. CASE e # d
        <5>1. Known(e) /\ device'[e] = device[e]
          BY <2>3, <2>15, <4>2
        <5>2. device[e].challenge \in Challenges
          BY <1>1, <5>1, Kinds
        <5> QED BY <1>1, <2>2, <2>16, <5>1, <5>2 DEF Typed
      <4> QED BY <4>1, <4>2
    <3>3. \A e, f \in Devices :
              Known(e)' /\ Known(f)' /\ device'[e].challenge = device'[f].challenge => e = f
      <4> SUFFICES ASSUME NEW e \in Devices, NEW f \in Devices, Known(e)', Known(f)',
                          device'[e].challenge = device'[f].challenge
                   PROVE  e = f
        OBVIOUS
      <4>1. CASE e = d \/ f = d
        BY <2>1, <2>3, <2>15, <2>16, <4>1
      <4>2. CASE e # d /\ f # d
        BY <1>1, <2>3, <2>15, <4>2 DEF QuotaIsKept
      <4> QED BY <4>1, <4>2
    <3> QED BY <3>1, <3>2, <3>3 DEF QuotaIsKept
  <2> QED BY <2>8, <2>9, <2>10, <2>11, <2>12, <2>14, <2>17 DEF InHand
<1> QED BY <1>6, <1>7 DEF PostRegister

-----------------------------------------------------------------------------
(* Retirement. *)

(* What both of its steps do: the row of the machine and the one of its    *)
(* retirement are written, its listings are suspended, each with a new     *)
(* version, and no command stays open on it but a cleanup. A request that  *)
(* has read one of the listings finds another version.                     *)
LEMMA RetiringKeeps ==
    ASSUME InHand, NEW d \in Devices, Known(d), NEW drow \in DeviceRow, NEW row \in RetirementRow,
           UNCHANGED <<mode, profile, challenge, contract, req>>,
           device' = [device EXCEPT ![d] = drow], drow.challenge = device[d].challenge,
           device[d].status # "REVOKED" \/ drow.status = "REVOKED",
           drow.status \in {"DRAINING", "REVOKED"}, drow.verification = "EXPIRED",
           Retired(d) => drow.status = "REVOKED",
           row.status = "FINALIZED" => drow.status = "REVOKED",
           retirement' = [retirement EXCEPT ![d] = row],
           offer' = Suspended(OffersOf(d), {"DRAFT", "PUBLISHED", "RESERVED", "PAUSED"}),
           CommandsHold, DOMAIN cmds' = DOMAIN cmds,
           \A i \in DOMAIN cmds : cmds'[i].status = "OPEN" /\ cmds[i].device = d => cmds[i].type = "CLEANUP",
           row.mode = "GRACEFUL" \/ row.status = "FINALIZED" => ActiveOn(d) = {}
    PROVE  InHand'
<1>1. Typed /\ Reading /\ QuotaIsKept /\ Listing /\ Renting /\ Commanding
  BY DEF InHand
<1>2. device' = [e \in Devices |-> device'[e]] /\ \A e \in Devices : MachineHolds(e)
  BY <1>1, MachineHoldsAt
<1>3. /\ offer' = [o \in Offers |-> offer'[o]] /\ \A o \in Offers : ListingHolds(o)
      /\ \A o \in Offers :
            o \in OffersOf(d) /\ offer[o].status \in {"DRAFT", "PUBLISHED", "RESERVED", "PAUSED"}
                => offer'[o].status = "SUSPENDED" /\ offer'[o].version > offer[o].version
  BY <1>1, SuspendedHolds
<1>4. contract' = [k \in Contracts |-> contract'[k]] /\ \A k \in Contracts : ContractMoves(k)
  BY <1>1 DEF Typed, ContractMoves
<1>5. Leaving /\ req' = [r \in Requests |-> req'[r]]
  BY <1>1, Rest
<1>6. /\ \A e \in Devices : MachineMoves(e)
      /\ \A o \in Offers : ListingMoves(o)
  BY <1>2, <1>3 DEF MachineHolds, MachineMoves, ListingHolds, ListingMoves
<1>7. /\ \A o \in Offers : offer[o] # NoOffer => offer'[o] # NoOffer /\ offer'[o].device = offer[o].device
      /\ \A k \in Contracts : contract[k] # NoContract =>
            contract'[k] # NoContract /\ offer'[contract'[k].offer].device = DeviceOf(k)
  BY <1>1, <1>4, <1>6, Lasts
<1>8. /\ retirement' \in [Devices -> {NoRetirement} \cup RetirementRow] /\ retirement'[d] = row
      /\ \A e \in Devices : e # d => retirement'[e] = retirement[e]
  BY <1>1 DEF Typed
<1>9. /\ device'[d] = drow /\ \A e \in Devices : e # d => device'[e] = device[e]
  BY <1>1 DEF Typed
<1>10. Typed'
  BY <1>1, <1>2, <1>3, <1>4, <1>5, <1>6, <1>8, TypedStays DEF Typed, CommandsHold
<1>11. Reading'
  BY <1>1, <1>4, <1>5, <1>6, ReadingStays DEF CommandsHold
<1>12. Listing'
  <2>1. ASSUME NEW o \in Offers, offer'[o] = offer[o], offer[o].status \in {"DRAFT", "PAUSED"},
               retirement'[offer[o].device] # NoRetirement
        PROVE  Retired(offer[o].device)
    <3>1. offer[o] # NoOffer /\ offer[o].device \in Devices /\ offer[o].version \in Nat
      BY <1>1, <2>1, Kinds
    <3>2. o \notin OffersOf(d)
      BY <1>3, <2>1, <3>1
    <3>3. offer[o].device # d
      BY <3>1, <3>2 DEF OffersOf
    <3> QED BY <1>8, <2>1, <3>1, <3>3 DEF Retired
  <2>2. \A o \in Offers : offer'[o] = offer[o] /\ offer[o].status \in {"DRAFT", "PAUSED"}
            => (Retired(offer[o].device)' => Retired(offer[o].device))
    BY <2>1 DEF Retired
  <2> QED BY <1>1, <1>4, <1>5, <1>6, <2>2, ListingStays
<1>13. Renting'
  BY <1>1, <1>4, <1>5, <1>6, RentingStays
<1>14. Commanding'
  BY <1>1, <1>7, ClosingKeeps
<1>15. QuotaIsKept'
  BY <1>1, <1>2, QuotaStays
<1>16. RetiredMachines'
  BY <1>8, <1>9 DEF InHand, RetiredMachines, Retired
<1>17. RetiredListings'
  <2> SUFFICES ASSUME NEW o \in Offers, offer'[o] # NoOffer, retirement'[offer'[o].device] # NoRetirement
               PROVE  offer'[o].status \in {"DRAFT", "SUSPENDED", "UNLISTED"}
    BY DEF RetiredListings, Retired
  <2>1. offer[o] # NoOffer /\ offer'[o].device = offer[o].device
    BY <1>3 DEF ListingHolds
  <2>2. offer[o] \in OfferRow /\ offer[o].device \in Devices
    BY <1>1, <2>1, Kinds
  <2>3. CASE offer[o].device = d
    <3>1. o \in OffersOf(d)
      BY <2>1, <2>3 DEF OffersOf
    <3>2. CASE offer[o].status \in {"DRAFT", "PUBLISHED", "RESERVED", "PAUSED"}
      BY <1>3, <3>1, <3>2
    <3>3. CASE offer[o].status \in {"SUSPENDED", "UNLISTED"}
      <4>1. offer'[o] = offer[o]
        BY <3>3 DEF Suspended
      <4> QED BY <3>3, <4>1
    <3> QED BY <2>2, <3>2, <3>3 DEF OfferRow
  <2>4. CASE offer[o].device # d
    <3>1. Retired(offer[o].device)
      BY <1>8, <2>1, <2>2, <2>4 DEF Retired
    <3> QED BY <1>3, <2>1, <3>1 DEF ListingHolds, InHand, RetiredListings
  <2> QED BY <2>3, <2>4
<1>18. RetiredCommands'
  <2> SUFFICES ASSUME NEW i \in DOMAIN cmds, cmds'[i].status = "OPEN",
                      retirement'[cmds[i].device] # NoRetirement
               PROVE  cmds[i].type = "CLEANUP"
    BY DEF RetiredCommands, Retired, CommandsHold
  <2>1. cmds[i].status = "OPEN" /\ cmds[i].device \in Devices
    BY <1>1, Kinds DEF CommandsHold
  <2> QED BY <1>8, <2>1 DEF InHand, RetiredCommands, Retired
<1>19. RetiredContracts'
  <2> SUFFICES ASSUME NEW k \in Contracts, contract[k].status \notin Over PROVE ~Ended(DeviceOf(k))'
    BY DEF RetiredContracts, Over
  <2>1. contract[k] # NoContract /\ DeviceOf(k) \in Devices /\ ~Ended(DeviceOf(k))
    <3>1. contract[k] # NoContract
      BY DEF Over, NoContract
    <3> QED BY <3>1, Rented DEF InHand, RetiredContracts
  <2>2. DeviceOf(k)' = DeviceOf(k)
    BY <1>7, <2>1 DEF DeviceOf
  <2>3. CASE DeviceOf(k) = d
    <3>1. k \in ActiveOn(d)
      BY <2>3 DEF ActiveOn
    <3>2. ~(row.mode = "GRACEFUL" \/ row.status = "FINALIZED")
      BY <3>1
    <3> QED BY <1>8, <2>2, <2>3, <3>2 DEF Ended
  <2>4. CASE DeviceOf(k) # d
    BY <1>8, <2>1, <2>2, <2>4 DEF Ended, Retired
  <2> QED BY <2>3, <2>4
<1> QED BY <1>10, <1>11, <1>12, <1>13, <1>14, <1>15, <1>16, <1>17, <1>18, <1>19 DEF InHand

(* A retirement that is requested fails the open commands but, where it is *)
(* graceful, the cleanup.                                                  *)
LEMMA RequestRetirementKeeps ==
    ASSUME InHand, NEW d \in Devices, NEW how \in {"GRACEFUL", "EMERGENCY"}, RequestDeviceRetirement(d, how)
    PROVE  InHand'
<1> DEFINE drow == [device[d] EXCEPT !.status = IF how = "EMERGENCY" THEN "REVOKED" ELSE "DRAINING",
                                     !.verification = "EXPIRED"]
           row == [mode |-> how, status |-> FirstStatus(how)]
<1>1. Typed
  BY DEF InHand
<1>2. /\ Known(d) /\ ~Retired(d) /\ device[d].status # "REVOKED"
      /\ how = "GRACEFUL" => ActiveOn(d) = {}
      /\ retirement' = [retirement EXCEPT ![d] = row]
      /\ device' = [device EXCEPT ![d] = drow]
      /\ offer' = Suspended(OffersOf(d), {"DRAFT", "PUBLISHED", "RESERVED", "PAUSED"})
      /\ UNCHANGED <<mode, profile, challenge, contract, req>>
  BY DEF RequestDeviceRetirement
<1>3. /\ row \in RetirementRow /\ row.mode = how /\ row.status # "FINALIZED"
  BY DEF RetirementRow, FirstStatus
<1>4. /\ drow \in DeviceRow /\ drow.challenge = device[d].challenge
      /\ drow.status \in {"DRAINING", "REVOKED"} /\ drow.verification = "EXPIRED"
  <2>1. device[d] \in DeviceRow
    BY <1>1, <1>2, Kinds
  <2>2. \A s \in {"DRAINING", "REVOKED"} :
            LET x == [device[d] EXCEPT !.status = s, !.verification = "EXPIRED"] IN
            x \in DeviceRow /\ x.challenge = device[d].challenge /\ x.status = s /\ x.verification = "EXPIRED"
    BY <2>1 DEF DeviceRow
  <2> QED BY <2>2
<1>5. /\ CommandsHold /\ DOMAIN cmds' = DOMAIN cmds
      /\ \A i \in DOMAIN cmds : cmds'[i].status = "OPEN" /\ cmds[i].device = d => cmds[i].type = "CLEANUP"
  <2>1. cmds' = [i \in DOMAIN cmds |->
                    IF i \in OpenOn(d) /\ (how = "EMERGENCY" \/ cmds[i].type # "CLEANUP")
                    THEN [cmds[i] EXCEPT !.status = "FAILED"] ELSE cmds[i]]
    BY DEF RequestDeviceRetirement
  <2>2. cmds \in Seq(CommandRow) /\ DOMAIN cmds = 1 .. Len(cmds) /\ Len(cmds) \in Nat
    BY <1>1 DEF Typed
  <2>3. ASSUME NEW i \in DOMAIN cmds
        PROVE  LET x == [cmds[i] EXCEPT !.status = "FAILED"] IN
               /\ x \in CommandRow /\ x.status = "FAILED" /\ x.type = cmds[i].type
               /\ x.device = cmds[i].device /\ x.contract = cmds[i].contract
    <3>1. cmds[i] \in CommandRow
      BY <1>1, Kinds
    <3> QED BY <3>1 DEF CommandRow
  <2>4. ASSUME NEW i \in DOMAIN cmds
        PROVE  /\ cmds'[i] \in CommandRow
               /\ cmds'[i].type = cmds[i].type /\ cmds'[i].device = cmds[i].device
               /\ cmds'[i].contract = cmds[i].contract
               /\ cmds'[i].status = "OPEN" => cmds[i].status = "OPEN"
               /\ cmds'[i].status = "OPEN" /\ cmds[i].device = d => cmds[i].type = "CLEANUP"
    <3>1. CASE i \in OpenOn(d) /\ (how = "EMERGENCY" \/ cmds[i].type # "CLEANUP")
      BY <2>1, <2>3, <3>1
    <3>2. CASE ~(i \in OpenOn(d) /\ (how = "EMERGENCY" \/ cmds[i].type # "CLEANUP"))
      <4>1. cmds'[i] = cmds[i] /\ cmds[i] \in CommandRow
        BY <1>1, <2>1, <3>2, Kinds
      <4> QED BY <3>2, <4>1 DEF OpenOn
    <3> QED BY <3>1, <3>2
  <2>5. DOMAIN cmds' = DOMAIN cmds
    BY <2>1
  <2>6. cmds' \in Seq(CommandRow)
    <3>1. cmds' = [i \in 1 .. Len(cmds) |-> cmds'[i]]
      BY <2>1, <2>2
    <3>2. \A i \in 1 .. Len(cmds) : cmds'[i] \in CommandRow
      BY <2>2, <2>4
    <3> HIDE DEF drow, row
    <3> QED BY <2>2, <3>1, <3>2
  <2> QED BY <2>4, <2>5, <2>6 DEF CommandsHold
<1> HIDE DEF drow, row
<1> QED BY <1>2, <1>3, <1>4, <1>5, RetiringKeeps

(* One that is finalized has nothing left to wait for.                     *)
LEMMA FinalizeRetirementKeeps ==
    ASSUME InHand, NEW d \in Devices, FinalizeDeviceRetirement(d) PROVE InHand'
<1> DEFINE drow == [device[d] EXCEPT !.status = "REVOKED"]
           row == [retirement[d] EXCEPT !.status = "FINALIZED"]
<1>1. Typed
  BY DEF InHand
<1>2. /\ Retired(d) /\ device[d].status \in {"DRAINING", "REVOKED"} /\ ActiveOn(d) = {}
      /\ retirement' = [retirement EXCEPT ![d] = row]
      /\ device' = [device EXCEPT ![d] = drow]
      /\ offer' = Suspended(OffersOf(d), {"DRAFT", "PUBLISHED", "RESERVED", "PAUSED"})
      /\ UNCHANGED <<mode, profile, challenge, contract, cmds, req>>
  BY DEF FinalizeDeviceRetirement
<1>3. row \in RetirementRow
  <2>1. retirement[d] \in RetirementRow
    BY <1>1, <1>2 DEF Typed, Retired
  <2> QED BY <2>1 DEF RetirementRow
<1>4. Known(d)
  BY <1>1, <1>2, Kinds
<1>5. /\ drow \in DeviceRow /\ drow.challenge = device[d].challenge /\ drow.status = "REVOKED"
      /\ drow.verification = device[d].verification
  <2>1. device[d] \in DeviceRow /\ drow = [device[d] EXCEPT !.status = "REVOKED"]
    BY <1>1, <1>4, Kinds
  <2> HIDE DEF drow
  <2> QED BY <2>1, StatusRow
<1>6. drow.verification = "EXPIRED"
  BY <1>2, <1>5 DEF InHand, RetiredMachines
<1>7. CommandsHold /\ DOMAIN cmds' = DOMAIN cmds
  BY <1>1, <1>2, CommandsRest
<1>8. \A i \in DOMAIN cmds : cmds'[i].status = "OPEN" /\ cmds[i].device = d => cmds[i].type = "CLEANUP"
  BY <1>2 DEF InHand, RetiredCommands
<1> HIDE DEF drow, row
<1> QED BY <1>2, <1>3, <1>4, <1>5, <1>6, <1>7, <1>8, RetiringKeeps

-----------------------------------------------------------------------------
(* Every step of a handler keeps the invariant.                            *)
LEMMA HandlerKeeps == ASSUME InHand, NEW r \in Requests, Handler(r) PROVE InHand'
<1>1. ASSUME NEW s \in {"APPROVED", "REJECTED", "SUSPENDED"}, ReadReview(r, s) PROVE InHand'
  BY <1>1, ReadReviewKeeps
<1>2. ASSUME NEW c \in Challenges, ReadRegister(r, c) PROVE InHand'
  BY <1>2, ReadRegisterKeeps
<1>3. ASSUME NEW d \in Devices, NEW seq \in 1 .. MaxBeats, NEW offline \in BOOLEAN, NEW changed \in BOOLEAN,
             ReadHeartbeat(r, d, seq, offline, changed)
      PROVE  InHand'
  BY <1>3, ReadHeartbeatKeeps
<1>4. ASSUME NEW i \in DOMAIN cmds, NEW fresh \in BOOLEAN, ReadCleanup(r, i, fresh) PROVE InHand'
  BY <1>4, ReadCleanupKeeps
<1>5. ASSUME NEW o \in Offers, NEW d \in Devices, ReadCreateOffer(r, o, d) PROVE InHand'
  BY <1>5, ReadCreateOfferKeeps
<1>6. ASSUME NEW o \in Offers, NEW s \in {"PUBLISHED", "PAUSED", "UNLISTED"}, ReadOfferStatus(r, o, s)
      PROVE  InHand'
  BY <1>6, ReadOfferStatusKeeps
<1>7. ASSUME NEW k \in Contracts, NEW o \in Offers, ReadReserve(r, k, o) PROVE InHand'
  BY <1>7, ReadReserveKeeps
<1>8. ASSUME NEW d \in Devices, PostRegister(r, d) PROVE InHand'
  BY <1>8, PostRegisterKeeps
<1>9. ASSUME PostReview(r) \/ PostHeartbeat(r) \/ PostCleanup(r) PROVE InHand'
  BY <1>9, PostReviewKeeps, PostHeartbeatKeeps, PostCleanupKeeps
<1>10. ASSUME PostCreateOffer(r) \/ PostOfferStatus(r) \/ PostReserve(r) PROVE InHand'
  BY <1>10, PostCreateOfferKeeps, PostOfferStatusKeeps, PostReserveKeeps
<1> QED BY <1>1, <1>2, <1>3, <1>4, <1>5, <1>6, <1>7, <1>8, <1>9, <1>10 DEF Handler

(* Every step of the machines does, and none is one.                       *)
LEMMA InHandStays == InHand /\ [Next]_vars => InHand'
<1> SUFFICES ASSUME InHand, [Next]_vars PROVE InHand'
  OBVIOUS
<1>1. CASE UNCHANGED vars
  <2>1. /\ UNCHANGED <<mode, profile, challenge, device, retirement, offer, contract, cmds, req>> /\ Typed
    BY <1>1 DEF vars, InHand
  <2>2. Usual
    BY <2>1, Rest DEF Usual
  <2>3. CommandsHold /\ DOMAIN cmds' = DOMAIN cmds
    BY <2>1, CommandsRest
  <2> QED BY <2>1, <2>2, <2>3, ClosingStep
<1>2. ASSUME NEW r \in Requests, Handler(r) PROVE InHand'
  BY <1>2, HandlerKeeps
<1>3. ASSUME SaveProfile \/ SubmitProfile PROVE InHand'
  BY <1>3, ProfileKeeps
<1>4. ASSUME NEW c \in Challenges, IssueAgentChallenge(c) \/ Lapse(c) \/ RevokeAgentChallenge(c)
      PROVE  InHand'
  BY <1>4, ChallengeKeeps
<1>5. ASSUME NEW d \in Devices, QueueVerification(d) \/ FinalizeDeviceRetirement(d) PROVE InHand'
  BY <1>5, QueueVerificationKeeps, FinalizeRetirementKeeps
<1>6. ASSUME NEW d \in Devices, NEW how \in {"GRACEFUL", "EMERGENCY"}, RequestDeviceRetirement(d, how)
      PROVE  InHand'
  BY <1>6, RequestRetirementKeeps
<1>7. ASSUME NEW i \in DOMAIN cmds, CompleteProvision(i) \/ FailCommand(i) PROVE InHand'
  BY <1>7, CompleteProvisionKeeps, FailCommandKeeps
<1>8. ASSUME NEW i \in DOMAIN cmds, NEW ok \in BOOLEAN, CompleteVerify(i, ok) PROVE InHand'
  BY <1>8, CompleteVerifyKeeps
<1>9. ASSUME NEW k \in Contracts, CancelContract(k) \/ AttachSshKey(k) \/ Serve(k)
                                  \/ DisputeContract(k) \/ QueueCleanup(k)
      PROVE  InHand'
  BY <1>9, CancelContractKeeps, AttachSshKeyKeeps, ServeKeeps, DisputeContractKeeps, QueueCleanupKeeps
<1> QED BY <1>1, <1>2, <1>3, <1>4, <1>5, <1>6, <1>7, <1>8, <1>9 DEF Next

(* It holds at either desk: that of access leaves the machines alone.      *)
LEMMA InHandAlways == IdentitySpec => []InHand
<1>1. IdentityInit => InHand
  BY InHandInit DEF IdentityInit
<1>2. InHand /\ [IdentityNext]_identityVars => InHand'
  BY InHandStays DEF IdentityNext, identityVars
<1> QED BY <1>1, <1>2, PTL DEF IdentitySpec

(* However many registrations run against issued, lapsed and revoked       *)
(* challenges, no more telemetry machines are registered than the supply   *)
(* offer has, and a challenge registers one machine (registerAgent).       *)
THEOREM DevicesStayWithinQuota == IdentitySpec => []DevicesAreWithinQuota
<1>1. InHand => DevicesAreWithinQuota
  BY InHandSays DEF DevicesAreWithinQuota
<1> QED BY <1>1, InHandAlways, PTL

(* A machine that is being retired drains or is revoked, is not listed,    *)
(* gets no command but a cleanup, and has no renter once its retirement is *)
(* graceful or final, whatever heartbeats, reservations, completions and   *)
(* changes of listings had read it before (hosting-v2-store-core.ts).      *)
THEOREM RetirementsAreFinal == IdentitySpec => []RetirementIsFinal
<1>1. InHand => RetirementIsFinal
  BY InHandSays
<1> QED BY <1>1, InHandAlways, PTL
=============================================================================
