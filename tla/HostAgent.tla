----------------------------- MODULE HostAgent -----------------------------
(* The supplier's machine: the agent loop that takes one command at a time *)
(* (host-agent/src/client.mjs, cli.mjs) and the actuator that executes it  *)
(* against one workload's manifest and container (actuator.mjs).           *)
(*                                                                         *)
(* The manifest is written before and after the container is touched, so   *)
(* every operation is two steps with a crash possible in between. The      *)
(* actuator is a process of its own that takes one request after the other *)
(* (actuator-server.mjs) and goes on when the agent has given up waiting.  *)
(* A report is a message: it may be lost, delayed behind later ones, or    *)
(* arrive too late to be adopted. What the platform does with commands and *)
(* reports is HostingDelivery, which extends this module.                  *)
EXTENDS Naturals, Sequences

CONSTANT MaxFaults      \* bound on operation failures, crashes and lost reports

VARIABLES
    cmds,       \* hosting_v2_agent_commands in order of creation: [type, status]
    leaseOver,  \* the lease has run out
    host,       \* manifest and container of the workload
    agent,      \* the command the agent is executing, 0 when it is idle
    reports,    \* COMPLETE_COMMAND requests under way: [cmd, ok]
    faults      \* faults so far

hostVars == <<host, agent, reports, faults>>

(* status of the manifest; by: the command whose digest it carries; live:  *)
(* the actuator is executing it; err: the last STOP or CLEANUP recorded an *)
(* error; box: the container and its files; stale: the recorded observation *)
(* is more than ten minutes old; late: the workload stopped after the lease *)
(* the platform granted had ended.                                         *)
NewHost == [status |-> "NONE", by |-> 0, live |-> FALSE, err |-> FALSE, box |-> "NONE",
            stale |-> FALSE, late |-> FALSE]

Type(c) == cmds[c].type

Underway == [PROVISION |-> "CREATING", START |-> "STARTING",
             STOP |-> "STOPPING", CLEANUP |-> "CLEANING"]
Done     == [PROVISION |-> "READY", START |-> "RUNNING",
             STOP |-> "STOPPED", CLEANUP |-> "CLEANED"]
DoneBox  == [PROVISION |-> "MADE", START |-> "RUNNING",
             STOP |-> "MADE", CLEANUP |-> "NONE"]

(* The states an operation that did not end may leave the container in.    *)
HalfDone(c) ==
    {host.box, DoneBox[Type(c)]}
      \cup {b \in {"MADE"} : Type(c) = "CLEANUP" /\ host.box = "RUNNING"}

(* The manifest lets the actuator begin command c, or begin it again.      *)
Admits(c) ==
    CASE Type(c) = "PROVISION" -> host.status = "NONE"
      [] Type(c) = "START"     -> \/ host.status = "READY"
                                  \/ host.status = "STARTING" /\ host.by = c
      [] Type(c) = "STOP"      -> \/ host.status = "RUNNING"
                                  \/ host.status = "STOPPING" /\ (host.by = c \/ host.err)
      [] Type(c) = "CLEANUP"   -> \/ host.status \in {"STOPPED", "FAILED", "READY", "STARTING", "RUNNING"}
                                  \/ host.status = "CLEANING" /\ (host.by = c \/ host.err)

(* Command c is already done and its recorded result is returned again.    *)
Replays(c) ==
    /\ host.status = Done[Type(c)]
    /\ Type(c) \in {"START", "CLEANUP"} => host.by = c
    /\ Type(c) = "START" => host.box = "RUNNING"

Executing(c) == host.live /\ host.by = c

Report(c, ok) == reports \cup {[cmd |-> c, ok |-> ok]}
CanFail == faults < MaxFaults

-----------------------------------------------------------------------------
(* Mutant: a stop and a cleanup claim their result before the container is *)
(* touched.                                                                *)
BeginWorkEager(c) ==
    /\ agent = c
    /\ ~host.live
    /\ Admits(c)
    /\ LET eager == Type(c) \in {"STOP", "CLEANUP"}
       IN host' = [host EXCEPT !.status = IF eager THEN Done[Type(c)] ELSE Underway[Type(c)],
                               !.by = c, !.live = ~eager]
    /\ UNCHANGED <<agent, reports, faults>>

(* executeProvision, executeStart, executeStop, executeCleanup up to the   *)
(* write of the status that claims the workload. What is observed next is  *)
(* fresh, except that a STOP reports when the watchdog stopped the workload. *)
BeginWork(c) ==
    /\ agent = c
    /\ ~host.live
    /\ Admits(c)
    /\ host' = [host EXCEPT !.status = Underway[Type(c)], !.by = c, !.live = TRUE,
                            !.stale = @ /\ Type(c) = "STOP" /\ host.box # "RUNNING"]
    /\ UNCHANGED <<agent, reports, faults>>

(* ... and from there to the write of the result, whether or not the agent *)
(* still waits for it.                                                     *)
FinishWork(c) ==
    /\ Executing(c)
    /\ \E late \in IF Type(c) = "STOP" /\ host.box = "RUNNING" /\ leaseOver
                  THEN BOOLEAN ELSE {host.late} :
         host' = [host EXCEPT !.status = Done[Type(c)], !.box = DoneBox[Type(c)],
                              !.live = FALSE, !.err = FALSE, !.late = late]
    /\ UNCHANGED <<agent, reports, faults>>

(* The operation throws after the claim: the catch block records the error *)
(* and the agent reports a failure, or keeps quiet when the code may be    *)
(* retried on a later lease.                                               *)
FailWork(c) ==
    /\ Executing(c)
    /\ CanFail
    /\ \E box \in HalfDone(c) :
         host' = [host EXCEPT !.box = box, !.live = FALSE,
                              !.status = IF Type(c) = "PROVISION" THEN "FAILED" ELSE @,
                              !.err = Type(c) \in {"STOP", "CLEANUP"}]
    /\ faults' = faults + 1
    /\ IF agent = c THEN agent' = 0 /\ reports' \in {reports, Report(c, FALSE)}
                    ELSE UNCHANGED <<agent, reports>>

(* The agent reports a failure without the actuator's help: the manifest   *)
(* refuses the command, or an error outside the actuator is final or has   *)
(* come for the fifth time, whatever the actuator does meanwhile.          *)
Refused(c) == ~host.live /\ ~Admits(c) /\ ~Replays(c)

Refuse(c) ==
    /\ agent = c
    /\ Refused(c) \/ CanFail
    /\ reports' = Report(c, FALSE)
    /\ agent' = 0
    /\ faults' = IF Refused(c) THEN faults ELSE faults + 1
    /\ UNCHANGED host

ReportSuccess(c) ==
    /\ agent = c
    /\ Replays(c)
    /\ reports' = Report(c, TRUE)
    /\ agent' = 0
    /\ UNCHANGED <<host, faults>>

(* The agent stops, or a retryable error (a timeout of the actuator's      *)
(* socket, say) ends its round without a report.                           *)
AgentGivesUp ==
    /\ agent # 0
    /\ CanFail
    /\ agent' = 0
    /\ faults' = faults + 1
    /\ UNCHANGED <<host, reports>>

(* The actuator stops in the middle of an operation and loses it; nothing  *)
(* is recorded, and the agent's request ends with a retryable error.       *)
ActuatorCrash ==
    /\ host.live
    /\ CanFail
    /\ \E box \in HalfDone(host.by) : host' = [host EXCEPT !.box = box, !.live = FALSE]
    /\ agent' = 0
    /\ faults' = faults + 1
    /\ UNCHANGED reports

LoseReport(m) ==
    /\ m \in reports
    /\ CanFail
    /\ reports' = reports \ {m}
    /\ faults' = faults + 1
    /\ UNCHANGED <<host, agent>>

(* enforceExpiredWorkloads: the local watchdog stops a workload at the     *)
(* deadline it computed itself; the platform's deadline counts from the    *)
(* arrival of the START report, a little later.                            *)
Watchdog ==
    /\ leaseOver
    /\ host.status = "RUNNING"
    /\ host.box = "RUNNING"
    /\ \E late \in BOOLEAN : host' = [host EXCEPT !.box = "MADE", !.stale = FALSE, !.late = late]
    /\ UNCHANGED <<agent, reports, faults>>

(* The machine is cut off for ten minutes after it wrote a result.         *)
Outage ==
    /\ CanFail
    /\ host.status \in {"READY", "RUNNING", "STOPPED", "CLEANED"}
    /\ ~host.stale
    /\ host' = [host EXCEPT !.stale = TRUE]
    /\ reports' = {}
    /\ agent' = 0
    /\ faults' = faults + 1
=============================================================================
