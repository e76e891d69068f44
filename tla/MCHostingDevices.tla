-------------------------- MODULE MCHostingDevices --------------------------
(* The instances TLC checks of who may act: the machines of a supplier,    *)
(* and the administrators. The machines are one that is hosted, with its   *)
(* listings, or those of one supply offer whose telemetry challenges       *)
(* compete for its quantity; the set of modes is closed under the          *)
(* permutations of the challenges. Machines and administrators share no    *)
(* row, so the first state settles which of the two desks moves.           *)
EXTENDS HostingDevices, AccountAccess, TLC

CONSTANTS c1, c2, d1, d2, r1, r2, x1, h1

VARIABLE desk

Hosted(c)  == [b \in Challenges |-> IF b = c THEN "FULL_HOST" ELSE "NONE"]
Telemetry  == [c \in Challenges |-> "TELEMETRY_ONLY"]
MCModes    == {Hosted(c) : c \in Challenges} \cup {Telemetry}
MCHomeOf   == x1 :> h1

identityVars == <<desk, vars, accessVars>>

IdentityInit ==
    /\ desk \in {"devices", "access"}
    /\ Init /\ AccessInit
    /\ desk = "access" => mode = Telemetry

IdentityNext ==
    \/ desk = "devices" /\ Next /\ UNCHANGED <<desk, accessVars>>
    \/ desk = "access" /\ AccessNext /\ UNCHANGED <<desk, vars>>

IdentitySpec == IdentityInit /\ [][IdentityNext]_identityVars

-----------------------------------------------------------------------------
(* No more machines are registered than a supply offer has: QuotaIsKept.   *)
DevicesAreWithinQuota == desk = "devices" => TypeOK /\ QuotaIsKept

(* Who is suspended is out, ROOT is never, and a code lets in once.        *)
AccessIsSound ==
    desk = "access" => AccessTypeOK /\ SuspensionEndsAccess /\ RootStaysActive /\ CodesEnterOnce

(* ROOT is ROOT for good, and only ROOT lifts a suspension.                *)
SuspensionIsFinal == [][desk = "access" => SuspensionLasts]_identityVars

-----------------------------------------------------------------------------
MCSymmetry == Permutations({c1, c2}) \cup Permutations({d1, d2}) \cup Permutations({r1, r2})

(* Bound: those who are invited do not come together with those of the     *)
(* configuration.                                                          *)
OneKind ==
    \/ \A m \in Configured : member[m].status = "NONE"
    \/ \A x \in Invited : code[x].mailed = 0 /\ member[x].status = "NONE"
=============================================================================
