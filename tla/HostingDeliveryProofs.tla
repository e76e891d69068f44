----------------------- MODULE HostingDeliveryProofs -----------------------
(* Proofs about HostingDelivery, for any number of faults, commands,       *)
(* retries, start and stop requests, and whatever else may happen.         *)
EXTENDS HostingDelivery, TLAPS

-----------------------------------------------------------------------------
(* The queue of commands.                                                  *)

Command == [type : CommandTypes, status : Unfinished \cup {"SUCCEEDED", "FAILED"}]

(* p is q, with commands added and some of the statuses changed.           *)
Continues(p, q) ==
    /\ p \in Seq(Command)
    /\ DOMAIN q \subseteq DOMAIN p
    /\ \A c \in DOMAIN q : p[c].type = q[c].type

(* A queued command comes last and leaves the others as they are.          *)
LEMMA QueuedComesLast ==
    ASSUME NEW q \in Seq(Command), NEW t \in CommandTypes
    PROVE  /\ Queued(q, t) \in Seq(Command)
           /\ Len(q) + 1 \notin DOMAIN q
           /\ DOMAIN Queued(q, t) = DOMAIN q \cup {Len(q) + 1}
           /\ \A c \in DOMAIN q : Queued(q, t)[c] = q[c]
           /\ Queued(q, t)[Len(q) + 1] = [type |-> t, status |-> "PENDING"]
           /\ Continues(Queued(q, t), q)
  <1>1. [type |-> t, status |-> "PENDING"] \in Command
    BY DEF Command, Unfinished
  <1> DEFINE p == Queued(q, t)
  <1>2. p \in Seq(Command) /\ Len(p) = Len(q) + 1
    BY <1>1 DEF Queued
  <1>3. \A c \in 1 .. Len(q) : p[c] = q[c]
    BY <1>1 DEF Queued
  <1>4. p[Len(q) + 1] = [type |-> t, status |-> "PENDING"]
    BY <1>1 DEF Queued
  <1>5. DOMAIN p = 1 .. Len(q) + 1 /\ DOMAIN q = 1 .. Len(q) /\ Len(q) \in Nat
    BY <1>2
  <1> QED BY <1>2, <1>3, <1>4, <1>5 DEF Continues

(* A command that is marked keeps its type, and the others their status.   *)
LEMMA MarkedAlone ==
    ASSUME NEW q \in Seq(Command), NEW c \in DOMAIN q,
           NEW s \in Unfinished \cup {"SUCCEEDED", "FAILED"}
    PROVE  LET p == [q EXCEPT ![c].status = s]
           IN  /\ p \in Seq(Command)
               /\ DOMAIN p = DOMAIN q
               /\ \A d \in DOMAIN q : d # c => p[d] = q[d]
               /\ p[c].type = q[c].type /\ p[c].status = s
               /\ Continues(p, q)
  <1> DEFINE p == [q EXCEPT ![c].status = s]
  <1>1. DOMAIN p = DOMAIN q /\ Len(q) \in Nat /\ DOMAIN q = 1 .. Len(q)
    OBVIOUS
  <1>2. \A d \in DOMAIN q : q[d] \in Command /\ (d # c => p[d] = q[d])
    OBVIOUS
  <1>3. p[c] = [q[c] EXCEPT !.status = s]
    OBVIOUS
  <1>4. p[c] \in Command /\ p[c].type = q[c].type /\ p[c].status = s
    BY <1>2, <1>3 DEF Command
  <1>5. p \in Seq(Command)
    <2>1. p = [d \in 1 .. Len(q) |-> p[d]]
      BY <1>1
    <2>2. \A d \in 1 .. Len(q) : p[d] \in Command
      BY <1>1, <1>2, <1>4
    <2> HIDE DEF p
    <2> QED BY <1>1, <2>1, <2>2
  <1> QED BY <1>1, <1>2, <1>4, <1>5 DEF Continues

(* A retirement fails what is not finished, and nothing else.              *)
LEMMA RetirementFailsAll ==
    ASSUME NEW q \in Seq(Command)
    PROVE  LET p == [c \in DOMAIN q |-> IF q[c].status \in Unfinished
                                       THEN [q[c] EXCEPT !.status = "FAILED"] ELSE q[c]]
           IN  /\ p \in Seq(Command)
               /\ DOMAIN p = DOMAIN q
               /\ \A c \in DOMAIN q : p[c].type = q[c].type
               /\ \A c \in DOMAIN q : p[c].status \notin Unfinished
               /\ Continues(p, q)
  <1> DEFINE p == [c \in DOMAIN q |-> IF q[c].status \in Unfinished
                                       THEN [q[c] EXCEPT !.status = "FAILED"] ELSE q[c]]
  <1>1. DOMAIN p = DOMAIN q /\ Len(q) \in Nat /\ DOMAIN q = 1 .. Len(q)
    OBVIOUS
  <1>2. ASSUME NEW c \in DOMAIN q
        PROVE  p[c] \in Command /\ p[c].type = q[c].type /\ p[c].status \notin Unfinished
    <2>1. q[c] \in Command
      OBVIOUS
    <2>2. CASE q[c].status \in Unfinished
      <3>1. p[c] = [q[c] EXCEPT !.status = "FAILED"]
        BY <2>2
      <3> HIDE DEF p
      <3> QED BY <2>1, <3>1 DEF Command, Unfinished
    <2>3. CASE q[c].status \notin Unfinished
      BY <2>1, <2>3
    <2> QED BY <2>2, <2>3
  <1>3. p \in Seq(Command)
    <2>1. p = [c \in 1 .. Len(q) |-> p[c]]
      BY <1>1
    <2> HIDE DEF p
    <2> QED BY <1>1, <1>2, <2>1
  <1> QED BY <1>1, <1>2, <1>3 DEF Continues

-----------------------------------------------------------------------------
(* Types. DeliveryTypeOK in parts: what names no command, and what does.           *)

Plain ==
    /\ contract \in {"PROVISIONING", "READY", "IN_SERVICE", "AWAITING_ACCEPTANCE", "DISPUTED",
                     "SETTLED", "REFUNDED", "CLEANING", "CLEANED", "FAILED"}
    /\ instance \in {"NONE", "READY", "RUNNING", "STOPPED", "CLEANED"}
    /\ metered \in BOOLEAN /\ accepted \in BOOLEAN /\ occasion \in Occasions
    /\ hold \in {"HELD", "SETTLED", "RELEASED"}
    /\ income = IF hold = "SETTLED" THEN 1 ELSE 0
    /\ device \in {"VERIFIED", "BUSY", "DRAINING", "OFFLINE", "ONLINE", "REVOKED"}
    /\ verified \in BOOLEAN /\ retired \in BOOLEAN
    /\ offer \in {"RESERVED", "SUSPENDED", "PUBLISHED", "UNLISTED"}
    /\ proposal \in [resolution : {"NONE", "REFUND", "SETTLE"}, queued : BOOLEAN,
                     status : {"NONE", "REQUESTED", "APPROVED", "REJECTED", "APPLIED"}]
    /\ asked \in [Requests -> {"NEW", "READ", "DONE"}]
    /\ leaseOver \in BOOLEAN /\ windowOver \in BOOLEAN
    /\ faults \in 0 .. MaxFaults

Failures(ids) ==
    [cmd : ids, status : {"RECORDED", "REFUNDED", "CLEANING", "CLEANED"}] \cup {NoFailure}
StopFailures(ids) ==
    [cmd : ids, recovery : {0} \cup ids,
     status : {"RECORDED", "RETRYING", "RECOVERED", "RETRY_FAILED", "EXHAUSTED"}]
HostStatuses == {"NONE", "CREATING", "READY", "STARTING", "RUNNING", "STOPPING",
                 "STOPPED", "CLEANING", "CLEANED", "FAILED"}
Manifests(ids) ==
    [status : HostStatuses, by : {0} \cup ids, live : BOOLEAN, err : BOOLEAN, box : {"NONE", "MADE", "RUNNING"},
     stale : BOOLEAN, late : BOOLEAN]

Typed ==
    /\ Plain
    /\ cmds \in Seq(Command)
    /\ delivery \in Failures(DOMAIN cmds)
    /\ stops \in Seq(StopFailures(DOMAIN cmds))
    /\ host \in Manifests(DOMAIN cmds)
    /\ host.live => host.by \in DOMAIN cmds
    /\ agent \in {0} \cup DOMAIN cmds
    /\ reports \subseteq [cmd : DOMAIN cmds, ok : BOOLEAN]

(* The parts of the types together are DeliveryTypeOK.                             *)
LEMMA TypedIsTypeOK == Typed => DeliveryTypeOK
  <1>1. Typed => income \in {0, 1}
    BY DEF Typed, Plain
  <1> QED BY <1>1 DEF Typed, Plain, Command, Failures, StopFailures, Manifests, HostStatuses, DeliveryTypeOK

(* A queue of failures stays well typed while commands are added.          *)
LEMMA TypesGrow ==
    ASSUME Typed, Continues(cmds', cmds)
    PROVE  /\ cmds' \in Seq(Command)
           /\ delivery \in Failures(DOMAIN cmds')
           /\ stops \in Seq(StopFailures(DOMAIN cmds'))
           /\ host \in Manifests(DOMAIN cmds') /\ (host.live => host.by \in DOMAIN cmds')
           /\ agent \in {0} \cup DOMAIN cmds'
           /\ reports \subseteq [cmd : DOMAIN cmds', ok : BOOLEAN]
  <1>1. DOMAIN cmds \subseteq DOMAIN cmds' /\ cmds' \in Seq(Command)
    BY DEF Continues
  <1>2. delivery \in Failures(DOMAIN cmds')
    BY <1>1 DEF Typed, Failures
  <1>3. stops \in Seq(StopFailures(DOMAIN cmds'))
    <2>1. StopFailures(DOMAIN cmds) \subseteq StopFailures(DOMAIN cmds')
      BY <1>1 DEF StopFailures
    <2>2. \A s \in 1 .. Len(stops) : stops[s] \in StopFailures(DOMAIN cmds')
      BY <2>1 DEF Typed
    <2>3. Len(stops) \in Nat /\ stops = [s \in 1 .. Len(stops) |-> stops[s]]
      BY DEF Typed
    <2> QED BY <2>2, <2>3
  <1>4. host \in Manifests(DOMAIN cmds') /\ (host.live => host.by \in DOMAIN cmds')
    BY <1>1 DEF Typed, Manifests
  <1> QED BY <1>1, <1>2, <1>3, <1>4 DEF Typed

(* A contract begins well typed, with its first command queued.            *)
LEMMA TypedInit == Init => Typed
  <1> SUFFICES ASSUME Init PROVE Typed
    OBVIOUS
  <1>1. /\ cmds \in Seq(Command)
        /\ DOMAIN cmds = {1}
        /\ cmds[1] = [type |-> "PROVISION", status |-> "PENDING"]
    <2>1. << >> \in Seq(Command) /\ Len(<< >>) = 0 /\ "PROVISION" \in CommandTypes
      BY DEF CommandTypes
    <2>2. cmds = Queued(<< >>, "PROVISION")
      BY DEF Init
    <2>3. /\ Queued(<< >>, "PROVISION") \in Seq(Command)
          /\ DOMAIN Queued(<< >>, "PROVISION") = DOMAIN << >> \cup {Len(<< >>) + 1}
          /\ Queued(<< >>, "PROVISION")[Len(<< >>) + 1] = [type |-> "PROVISION", status |-> "PENDING"]
      BY <2>1, QueuedComesLast
    <2>4. DOMAIN << >> = {} /\ Len(<< >>) + 1 = 1
      OBVIOUS
    <2> QED BY <2>2, <2>3, <2>4
  <1>2. Plain
    <2>1. proposal \in [resolution : {"NONE", "REFUND", "SETTLE"}, queued : BOOLEAN,
                       status : {"NONE", "REQUESTED", "APPROVED", "REJECTED", "APPLIED"}]
      BY DEF Init, NoProposal
    <2>2. asked \in [Requests -> {"NEW", "READ", "DONE"}] /\ faults \in 0 .. MaxFaults
      BY DeliveryAssumption DEF Init
    <2> QED BY <2>1, <2>2 DEF Init, Plain
  <1>3. delivery \in Failures(DOMAIN cmds) /\ stops \in Seq(StopFailures(DOMAIN cmds))
    BY DEF Init, Failures
  <1>4. host \in Manifests(DOMAIN cmds) /\ ~host.live
    BY DEF Init, Manifests, HostStatuses, NewHost
  <1> QED BY <1>1, <1>2, <1>3, <1>4 DEF Init, Typed

(* What the steps do to the queue: they add one command at its end, or     *)
(* change statuses; no command disappears or becomes another.              *)
LEMMA CommandsStay ==
    ASSUME Typed, [Next]_vars PROVE Continues(cmds', cmds)
  <1>c. cmds \in Seq(Command) /\ {"PROVISION", "START", "STOP", "CLEANUP"} = CommandTypes
    BY DEF Typed, CommandTypes
  <1>u. cmds' = cmds => Continues(cmds', cmds)
    BY <1>c DEF Continues
  <1>q. ASSUME NEW t \in CommandTypes, cmds' = Queued(cmds, t) PROVE Continues(cmds', cmds)
    BY <1>c, <1>q, QueuedComesLast
  <1>m. ASSUME NEW q \in Seq(Command), Continues(q, cmds), NEW c \in DOMAIN q,
               NEW s \in Unfinished \cup {"SUCCEEDED", "FAILED"}, cmds' = [q EXCEPT ![c].status = s]
        PROVE  Continues(cmds', cmds)
    <2>1. Continues(cmds', q)
      BY <1>m, MarkedAlone
    <2> QED BY <1>m, <2>1 DEF Continues
  <1>1. ASSUME NEW r \in StartRequests, BeginStart(r) \/ PostStart(r) PROVE Continues(cmds', cmds)
    BY <1>1, <1>u, <1>q, <1>c DEF BeginStart, PostStart
  <1>2. ASSUME NEW r \in StopRequests, BeginStop(r) \/ PostStop(r) PROVE Continues(cmds', cmds)
    BY <1>2, <1>u, <1>q, <1>c DEF BeginStop, PostStop
  <1>3. ASSUME NEW c \in 1 .. MaxCommands, PollCommand(c) PROVE Continues(cmds', cmds)
    <2>1. Continues(ExpiredStop, cmds) /\ ExpiredStop \in Seq(Command)
      <3>1. ExpiredStop \in {cmds, Queued(cmds, "STOP")}
        BY DEF ExpiredStop
      <3>2. Continues(Queued(cmds, "STOP"), cmds)
        BY <1>c, QueuedComesLast
      <3>3. Continues(cmds, cmds)
        BY <1>c DEF Continues
      <3> QED BY <3>1, <3>2, <3>3 DEF Continues
    <2>2. c \in DOMAIN ExpiredStop /\ cmds' = [ExpiredStop EXCEPT ![c].status = "DELIVERED"]
      BY <1>3 DEF PollCommand, Eligible
    <2> QED BY <1>m, <2>1, <2>2 DEF Unfinished
  <1>4. ASSUME NEW m \in reports, Receive(m) PROVE Continues(cmds', cmds)
    <2>1. m.cmd \in DOMAIN cmds
      BY DEF Typed
    <2>2. \/ cmds' = cmds
          \/ \E s \in {"SUCCEEDED", "FAILED"} : cmds' = [cmds EXCEPT ![m.cmd].status = s]
      BY <1>4 DEF Receive, Provisioned, Started, Stopped, Cleaned, RecordFailure, RejectReport,
                  Completed
    <2>3. Continues(cmds, cmds)
      BY <1>c DEF Continues
    <2> QED BY <1>c, <1>u, <1>m, <2>1, <2>2, <2>3
  <1>5. ASSUME PollStep \/ BuyerAccepts PROVE Continues(cmds', cmds)
    BY <1>5, <1>u, <1>q, <1>c DEF PollStep, BuyerAccepts, WindowCloses, Settle, RefundFailedDelivery,
       QueueFailedDeliveryCleanup, QueueFailedStopRecovery
  <1>6. ASSUME MarkContractSettled \/ RetryCleanup \/ RetryFailedStop \/ DisputeStep
        PROVE  Continues(cmds', cmds)
    BY <1>6, <1>u, <1>q, <1>c DEF MarkContractSettled, RetryCleanup, RetryFailedStop, DisputeStep,
       DisputeContract, RequestDisputeResolution, DecideDisputeResolution, ResolveHostingDispute,
       QueueDisputeCleanup
  <1>7. ASSUME RetireDevice PROVE Continues(cmds', cmds)
    BY <1>7, <1>c, RetirementFailsAll DEF RetireDevice
  <1>8. ASSUME HostStep \/ LeaseEnds \/ WindowEnds \/ UnlistOffer PROVE cmds' = cmds
    BY <1>8 DEF HostStep, LeaseEnds, WindowEnds, UnlistOffer
  <1>9. ASSUME NEW offline \in BOOLEAN, NEW changed \in BOOLEAN, Heartbeat(offline, changed)
        PROVE  cmds' = cmds
    BY <1>9 DEF Heartbeat
  <1>10. ASSUME UNCHANGED vars PROVE cmds' = cmds
    BY <1>10 DEF vars
  <1> QED BY <1>u, <1>1, <1>2, <1>3, <1>4, <1>5, <1>6, <1>7, <1>8, <1>9, <1>10
         DEF Next, Course, Interference

(* Who adds a command of which type.                                       *)
Calls(t) ==
    \/ t = "START" /\ \E r \in StartRequests : PostStart(r)
    \/ t = "STOP"
    \/ /\ t = "CLEANUP"
       /\ \/ QueueFailedDeliveryCleanup \/ MarkContractSettled
          \/ QueueDisputeCleanup \/ RetryCleanup

(* A command that is new in the queue was called for.                      *)
LEMMA NewCommandsCalled ==
    ASSUME Typed, [Next]_vars, NEW c \in DOMAIN cmds' \ DOMAIN cmds PROVE Calls(Type(c)')
  <1>c. cmds \in Seq(Command) /\ {"PROVISION", "START", "STOP", "CLEANUP"} = CommandTypes
    BY DEF Typed, CommandTypes
  <1>q. ASSUME NEW t \in CommandTypes, cmds' = Queued(cmds, t), Calls(t) PROVE Calls(Type(c)')
    <2>1. /\ DOMAIN cmds' = DOMAIN cmds \cup {Len(cmds) + 1}
          /\ cmds'[Len(cmds) + 1] = [type |-> t, status |-> "PENDING"]
      BY <1>c, <1>q, QueuedComesLast
    <2>2. c = Len(cmds) + 1
      BY <2>1
    <2>3. Type(c)' = t
      BY <2>1, <2>2 DEF Type
    <2> QED BY <1>q, <2>3
  <1>m. ASSUME NEW q \in Seq(Command), NEW d \in DOMAIN q,
               NEW s \in {"DELIVERED", "SUCCEEDED", "FAILED"}, cmds' = [q EXCEPT ![d].status = s]
        PROVE  DOMAIN cmds' = DOMAIN q /\ \A e \in DOMAIN q : cmds'[e].type = q[e].type
    <2>1. /\ DOMAIN cmds' = DOMAIN q /\ cmds'[d].type = q[d].type
          /\ \A e \in DOMAIN q : e # d => cmds'[e] = q[e]
      BY <1>m, MarkedAlone DEF Unfinished
    <2> QED BY <2>1
  <1>1. ASSUME NEW r \in StartRequests, BeginStart(r) \/ PostStart(r) PROVE Calls(Type(c)')
    <2>1. cmds' # cmds
      OBVIOUS
    <2> QED BY <1>1, <1>q, <1>c, <2>1 DEF BeginStart, PostStart, Calls
  <1>2. ASSUME NEW r \in StopRequests, BeginStop(r) \/ PostStop(r) PROVE Calls(Type(c)')
    <2>1. cmds' # cmds
      OBVIOUS
    <2> QED BY <1>2, <1>q, <1>c, <2>1 DEF BeginStop, PostStop, Calls
  <1>3. ASSUME NEW d \in 1 .. MaxCommands, PollCommand(d) PROVE Calls(Type(c)')
    <2>1. d \in DOMAIN ExpiredStop /\ cmds' = [ExpiredStop EXCEPT ![d].status = "DELIVERED"]
      BY <1>3 DEF PollCommand, Eligible
    <2>2. CASE ExpiredStop = cmds
      BY <1>c, <1>m, <2>1, <2>2
    <2>3. CASE ExpiredStop = Queued(cmds, "STOP")
      <3>1. /\ ExpiredStop \in Seq(Command) /\ DOMAIN ExpiredStop = DOMAIN cmds \cup {Len(cmds) + 1}
            /\ ExpiredStop[Len(cmds) + 1] = [type |-> "STOP", status |-> "PENDING"]
        BY <1>c, <2>3, QueuedComesLast
      <3>2. DOMAIN cmds' = DOMAIN ExpiredStop /\ cmds'[c].type = ExpiredStop[c].type
        BY <1>m, <2>1, <3>1
      <3>3. Type(c)' = "STOP"
        BY <3>1, <3>2 DEF Type
      <3> QED BY <3>3 DEF Calls
    <2> QED BY <2>2, <2>3 DEF ExpiredStop
  <1>4. ASSUME NEW m \in reports, Receive(m) PROVE FALSE
    <2>1. m.cmd \in DOMAIN cmds
      BY DEF Typed
    <2>2. \/ cmds' = cmds
          \/ \E s \in {"SUCCEEDED", "FAILED"} : cmds' = [cmds EXCEPT ![m.cmd].status = s]
      BY <1>4 DEF Receive, Provisioned, Started, Stopped, Cleaned, RecordFailure, RejectReport,
                  Completed
    <2> QED BY <1>c, <1>m, <2>1, <2>2
  <1>5. ASSUME PollStep \/ BuyerAccepts \/ MarkContractSettled \/ RetryCleanup \/ RetryFailedStop
        PROVE  Calls(Type(c)')
    <2>1. cmds' # cmds
      OBVIOUS
    <2> QED BY <1>5, <1>q, <1>c, <2>1 DEF PollStep, BuyerAccepts, WindowCloses, Settle,
            RefundFailedDelivery, QueueFailedDeliveryCleanup, QueueFailedStopRecovery,
            MarkContractSettled, RetryCleanup, RetryFailedStop, Calls
  <1>6. ASSUME DisputeStep PROVE Calls(Type(c)')
    <2>1. cmds' # cmds
      OBVIOUS
    <2> QED BY <1>6, <1>q, <1>c, <2>1 DEF DisputeStep, DisputeContract, RequestDisputeResolution,
            DecideDisputeResolution, ResolveHostingDispute, QueueDisputeCleanup, Calls
  <1>7. ASSUME RetireDevice PROVE FALSE
    BY <1>7, <1>c, RetirementFailsAll DEF RetireDevice
  <1>8. ASSUME \/ HostStep \/ LeaseEnds \/ WindowEnds \/ UnlistOffer \/ UNCHANGED vars
               \/ \E offline, changed \in BOOLEAN : Heartbeat(offline, changed)
        PROVE  cmds' = cmds
    BY <1>8 DEF HostStep, LeaseEnds, WindowEnds, UnlistOffer, Heartbeat, vars
  <1> QED BY <1>1, <1>2, <1>3, <1>4, <1>5, <1>6, <1>7, <1>8 DEF Next, Course, Interference

(* Only a start request makes a contract started twice, and for good.      *)
LEMMA SecondStart ==
    ASSUME Typed, [Next]_vars
    PROVE  /\ StartedTwice => StartedTwice'
           /\ StartedTwice' => StartedTwice \/ \E r \in StartRequests : PostStart(r)
  <1>1. DOMAIN cmds \subseteq DOMAIN cmds' /\ \A c \in DOMAIN cmds : Type(c)' = Type(c)
    BY CommandsStay DEF Continues, Type
  <1>2. StartedTwice => StartedTwice'
    BY <1>1 DEF StartedTwice
  <1>3. ASSUME StartedTwice', ~\E r \in StartRequests : PostStart(r) PROVE StartedTwice
    <2>1. PICK c, d \in DOMAIN cmds' : c # d /\ Type(c)' = "START" /\ Type(d)' = "START"
      BY <1>3 DEF StartedTwice
    <2>2. c \in DOMAIN cmds /\ d \in DOMAIN cmds
      BY <1>3, <2>1, NewCommandsCalled DEF Calls
    <2> QED BY <1>1, <2>1, <2>2 DEF StartedTwice
  <1> QED BY <1>2, <1>3

(* What an operation makes of the machine is a state of the machine.       *)
LEMMA OperationsTyped ==
    ASSUME NEW t \in CommandTypes
    PROVE  /\ Underway[t] \in {"CREATING", "STARTING", "STOPPING", "CLEANING"}
           /\ Done[t] \in {"READY", "RUNNING", "STOPPED", "CLEANED"}
           /\ DoneBox[t] \in {"NONE", "MADE", "RUNNING"}
  BY DEF CommandTypes, Underway, Done, DoneBox

(* The machine stays a machine, whatever it does or goes through.          *)
LEMMA MachineTyped ==
    ASSUME Typed, HostStep PROVE Typed'
  <1> DEFINE D == DOMAIN cmds
             Boxes == {"NONE", "MADE", "RUNNING"}
  <1>c. \A c \in D : Type(c) \in CommandTypes
    <2>1. \A c \in D : cmds[c] \in Command
      BY DEF Typed
    <2> QED BY <2>1 DEF Type, Command
  <1>h. /\ host \in Manifests(D) /\ agent \in {0} \cup D
        /\ reports \subseteq [cmd : D, ok : BOOLEAN] /\ faults \in 0 .. MaxFaults
        /\ MaxFaults \in Nat
    BY DeliveryAssumption DEF Typed, Plain
  <1>f. /\ host.box \in Boxes /\ host.stale \in BOOLEAN /\ host.late \in BOOLEAN
        /\ host.live => host.by \in D
    BY <1>h DEF Manifests, Typed
  <1>b. ASSUME NEW c \in D PROVE HalfDone(c) \subseteq Boxes
    <2>1. DoneBox[Type(c)] \in Boxes
      BY <1>c, OperationsTyped
    <2> QED BY <1>f, <2>1 DEF HalfDone
  <1>r. \A c \in D, ok \in BOOLEAN : Report(c, ok) \subseteq [cmd : D, ok : BOOLEAN]
    BY <1>h DEF Report
  <1> DEFINE Kept == /\ host' \in Manifests(D) /\ (host'.live => host'.by # 0)
                     /\ agent' \in {0} \cup D
                     /\ reports' \subseteq [cmd : D, ok : BOOLEAN] /\ faults' \in 0 .. MaxFaults
  <1>n. 0 \notin D
    BY DEF Typed
  <1>1. ASSUME NEW c \in D, BeginWork(c) PROVE Kept
    <2>1. PICK st \in HostStatuses, stale \in BOOLEAN :
            host' = [host EXCEPT !.status = st, !.by = c, !.live = TRUE, !.stale = stale]
      <3>1. Underway[Type(c)] \in HostStatuses
        BY <1>c, OperationsTyped DEF HostStatuses
      <3>2. (host.stale /\ Type(c) = "STOP" /\ host.box # "RUNNING") \in BOOLEAN
        OBVIOUS
      <3> QED BY <1>1, <3>1, <3>2 DEF BeginWork
    <2>2. host' \in Manifests(D)
      BY <1>h, <2>1 DEF Manifests
    <2>3. host'.by = c
      BY <1>h, <2>1 DEF Manifests
    <2> QED BY <1>1, <1>h, <1>n, <2>2, <2>3 DEF BeginWork
  <1>2. ASSUME NEW c \in D, FinishWork(c) PROVE Kept
    <2>1. PICK st \in HostStatuses, box \in Boxes, late \in BOOLEAN :
            host' = [host EXCEPT !.status = st, !.box = box, !.live = FALSE, !.err = FALSE,
                                 !.late = late]
      <3>1. Done[Type(c)] \in HostStatuses /\ DoneBox[Type(c)] \in Boxes
        BY <1>c, OperationsTyped DEF HostStatuses
      <3>2. host.late \in BOOLEAN
        BY <1>f
      <3> QED BY <1>2, <3>1, <3>2 DEF FinishWork
    <2>2. host' \in Manifests(D)
      BY <1>h, <1>f, <2>1 DEF Manifests
    <2>3. ~host'.live
      BY <1>h, <2>1 DEF Manifests
    <2> QED BY <1>2, <1>h, <2>2, <2>3 DEF FinishWork
  <1>3. ASSUME NEW c \in D, FailWork(c) PROVE Kept
    <2>1. PICK st \in HostStatuses, box \in Boxes, err \in BOOLEAN :
            host' = [host EXCEPT !.box = box, !.live = FALSE, !.status = st, !.err = err]
      <3>1. (IF Type(c) = "PROVISION" THEN "FAILED" ELSE host.status) \in HostStatuses
        BY <1>h DEF Manifests, HostStatuses
      <3>2. (Type(c) \in {"STOP", "CLEANUP"}) \in BOOLEAN
        OBVIOUS
      <3> QED BY <1>3, <1>b, <3>1, <3>2 DEF FailWork
    <2>2. host' \in Manifests(D)
      BY <1>h, <1>f, <2>1 DEF Manifests
    <2>3. ~host'.live
      BY <1>h, <2>1 DEF Manifests
    <2>4. /\ faults' = faults + 1 /\ faults < MaxFaults
          /\ agent' \in {0, agent} /\ reports' \in {reports, Report(c, FALSE)}
      BY <1>3 DEF FailWork, CanFail
    <2>5. reports' \subseteq [cmd : D, ok : BOOLEAN]
      BY <1>h, <1>r, <2>4
    <2> QED BY <1>h, <2>2, <2>3, <2>4, <2>5
  <1>4. ASSUME NEW c \in D, Refuse(c) \/ ReportSuccess(c) PROVE Kept
    <2>1. /\ host' = host /\ agent' = 0 /\ faults' \in {faults, faults + 1}
          /\ faults' # faults => faults < MaxFaults
          /\ \E ok \in BOOLEAN : reports' = Report(c, ok)
      BY <1>4 DEF Refuse, ReportSuccess, CanFail
    <2> QED BY <1>h, <1>r, <1>f, <1>n, <2>1
  <1>5. ASSUME AgentGivesUp \/ \E m \in reports : LoseReport(m) PROVE Kept
    BY <1>5, <1>h, <1>f, <1>n DEF AgentGivesUp, LoseReport, CanFail
  <1>6. ASSUME ActuatorCrash PROVE Kept
    <2>1. PICK box \in Boxes : host' = [host EXCEPT !.box = box, !.live = FALSE]
      BY <1>6, <1>b, <1>f DEF ActuatorCrash
    <2>2. host.by \in D
      BY <1>6, <1>f DEF ActuatorCrash
    <2>q. host' \in Manifests(D)
      BY <1>h, <1>f, <2>1, <2>2 DEF Manifests
    <2>3. ~host'.live
      BY <1>h, <2>1 DEF Manifests
    <2>4. faults' = faults + 1 /\ faults < MaxFaults /\ agent' = 0 /\ reports' = reports
      BY <1>6 DEF ActuatorCrash, CanFail
    <2> QED BY <1>h, <2>q, <2>3, <2>4
  <1>7. ASSUME Watchdog PROVE Kept
    <2>1. PICK late \in BOOLEAN :
            host' = [host EXCEPT !.box = "MADE", !.stale = FALSE, !.late = late]
      BY <1>7 DEF Watchdog
    <2>2. host' \in Manifests(D) /\ host'.live = host.live /\ host'.by = host.by
      BY <1>h, <2>1 DEF Manifests
    <2> QED BY <1>7, <1>h, <1>f, <1>n, <2>2 DEF Watchdog
  <1>8. ASSUME Outage PROVE Kept
    <2>1. host' = [host EXCEPT !.stale = TRUE]
      BY <1>8 DEF Outage
    <2>2. host' \in Manifests(D) /\ host'.live = host.live /\ host'.by = host.by
      BY <1>h, <2>1 DEF Manifests
    <2>3. faults' = faults + 1 /\ faults < MaxFaults /\ agent' = 0 /\ reports' = {}
      BY <1>8 DEF Outage, CanFail
    <2> QED BY <1>h, <1>f, <1>n, <2>2, <2>3
  <1>9. Kept
    BY <1>1, <1>2, <1>3, <1>4, <1>5, <1>6, <1>7, <1>8 DEF HostStep
  <1>10. UNCHANGED <<service, money, market, trouble, clocks, asked, cmds>>
    BY DEF HostStep
  <1>11. Plain'
    BY <1>9, <1>10 DEF Typed, Plain, service, money, market, trouble, clocks
  <1>12. host'.live => host'.by \in D
    BY <1>9 DEF Manifests
  <1> QED BY <1>9, <1>10, <1>11, <1>12 DEF Typed, trouble

(* Failed stops keep their types when some are marked, or the last one is  *)
(* given a command.                                                        *)
StopStatuses == {"RECORDED", "RETRYING", "RECOVERED", "RETRY_FAILED", "EXHAUSTED"}

(* Marking recorded stop failures keeps them well typed.                   *)
LEMMA StopsMarked ==
    ASSUME NEW ids, NEW q \in Seq(StopFailures(ids)), NEW st \in StopStatuses, NEW p,
           p = [s \in DOMAIN q |-> p[s]],
           \A s \in DOMAIN q : p[s] = q[s] \/ p[s] = [q[s] EXCEPT !.status = st]
    PROVE  p \in Seq(StopFailures(ids)) /\ Len(p) = Len(q) /\ DOMAIN p = DOMAIN q
  <1>1. Len(q) \in Nat /\ DOMAIN q = 1 .. Len(q)
    OBVIOUS
  <1>2. ASSUME NEW s \in DOMAIN q PROVE p[s] \in StopFailures(ids)
    <2>1. q[s] \in StopFailures(ids)
      OBVIOUS
    <2>2. [q[s] EXCEPT !.status = st] \in StopFailures(ids)
      BY <2>1 DEF StopFailures, StopStatuses
    <2> QED BY <2>1, <2>2
  <1>3. p = [s \in 1 .. Len(q) |-> p[s]]
    BY <1>1
  <1> QED BY <1>1, <1>2, <1>3

(* So does marking the last one, alone or with its new command.            *)
LEMMA LastStopMarked ==
    ASSUME NEW ids, NEW q \in Seq(StopFailures(ids)), q # << >>, NEW st \in StopStatuses, NEW c \in ids
    PROVE  /\ Len(q) \in DOMAIN q
           /\ [q EXCEPT ![Len(q)].status = st] \in Seq(StopFailures(ids))
           /\ [q EXCEPT ![Len(q)].status = st, ![Len(q)].recovery = c] \in Seq(StopFailures(ids))
  <1>1. Len(q) \in Nat /\ Len(q) > 0 /\ DOMAIN q = 1 .. Len(q)
    OBVIOUS
  <1>2. q[Len(q)] \in StopFailures(ids)
    BY <1>1
  <1>3. [q[Len(q)] EXCEPT !.status = st] \in StopFailures(ids)
    BY <1>2 DEF StopFailures, StopStatuses
  <1>4. [[q[Len(q)] EXCEPT !.status = st] EXCEPT !.recovery = c] \in StopFailures(ids)
    BY <1>2 DEF StopFailures, StopStatuses
  <1>5. [q EXCEPT ![Len(q)].status = st] \in Seq(StopFailures(ids))
    BY <1>1, <1>3
  <1>6. [q EXCEPT ![Len(q)].status = st, ![Len(q)].recovery = c] \in Seq(StopFailures(ids))
    <2> DEFINE n == Len(q)
               half == [q EXCEPT ![n].status = st]
               p == [q EXCEPT ![n].status = st, ![n].recovery = c]
    <2>1. p[n] = [[q[n] EXCEPT !.status = st] EXCEPT !.recovery = c]
      <3>1. half[n] = [q[n] EXCEPT !.status = st] /\ n \in DOMAIN half
        BY <1>1
      <3>2. p = [half EXCEPT ![n].recovery = c]
        OBVIOUS
      <3> HIDE DEF half, p
      <3> QED BY <3>1, <3>2
    <2>2. DOMAIN p = 1 .. n /\ p = [s \in 1 .. n |-> p[s]]
      BY <1>1
    <2>3. \A s \in 1 .. n : s # n => p[s] = q[s]
      BY <1>1
    <2> HIDE DEF p
    <2>4. \A s \in 1 .. n : p[s] \in StopFailures(ids)
      BY <1>1, <1>4, <2>1, <2>3
    <2>5. p \in Seq(StopFailures(ids))
      BY <1>1, <2>2, <2>4
    <2> QED BY <2>5 DEF p
  <1> QED BY <1>1, <1>5, <1>6

(* A report changes the records it is about, within their types.           *)
LEMMA ReceiveTyped ==
    ASSUME Typed, NEW m \in reports, Receive(m), Continues(cmds', cmds)
    PROVE  Typed'
  <1>m. m.cmd \in DOMAIN cmds' /\ m.cmd \in DOMAIN cmds
    BY DEF Typed, Continues
  <1>g. /\ cmds' \in Seq(Command)
        /\ delivery \in Failures(DOMAIN cmds')
        /\ stops \in Seq(StopFailures(DOMAIN cmds'))
        /\ host \in Manifests(DOMAIN cmds') /\ (host.live => host.by \in DOMAIN cmds')
        /\ agent \in {0} \cup DOMAIN cmds'
        /\ reports \subseteq [cmd : DOMAIN cmds', ok : BOOLEAN]
    BY TypesGrow
  <1>h. /\ host' = host /\ agent' = agent /\ reports' \subseteq reports
        /\ UNCHANGED <<hold, income, proposal, asked, clocks, faults, accepted>>
    BY DEF Receive, Received, Provisioned, Started, Stopped, Cleaned, RecordFailure, RejectReport,
           service, money, market, trouble
  <1>1. Plain'
    <2>1. CASE Provisioned(m)
      BY <1>h, <2>1 DEF Typed, Plain, Provisioned, money, clocks
    <2>4. CASE Started(m)
      BY <1>h, <2>4 DEF Typed, Plain, Started, money, market, clocks
    <2>5. CASE Stopped(m)
      BY <1>h, <2>5 DEF Typed, Plain, Stopped, money, market, clocks
    <2>2. CASE Cleaned(m)
      BY <1>h, <2>2 DEF Typed, Plain, Cleaned, clocks
    <2>3. CASE RecordFailure(m) \/ RejectReport(m)
      BY <1>h, <2>3 DEF Typed, Plain, RecordFailure, RejectReport, service, money, market, clocks
    <2> QED BY <2>1, <2>2, <2>3, <2>4, <2>5 DEF Receive
  <1>2. delivery' \in Failures(DOMAIN cmds')
    <2>1. CASE Cleaned(m)
      <3>1. CASE delivery.status = "CLEANING"
        <4>1. delivery' = [delivery EXCEPT !.status = "CLEANED"]
          BY <2>1, <3>1 DEF Cleaned
        <4>2. delivery \in [cmd : DOMAIN cmds',
                           status : {"RECORDED", "REFUNDED", "CLEANING", "CLEANED"}]
          BY <1>g, <3>1 DEF Failures, NoFailure
        <4> QED BY <4>1, <4>2 DEF Failures
      <3>2. CASE delivery.status # "CLEANING"
        BY <1>g, <2>1, <3>2 DEF Cleaned
      <3> QED BY <3>1, <3>2
    <2>2. CASE RecordFailure(m)
      BY <1>g, <1>m, <2>2 DEF RecordFailure, Failures
    <2>3. CASE Provisioned(m) \/ Started(m) \/ Stopped(m) \/ RejectReport(m)
      BY <1>g, <2>3 DEF Provisioned, Started, Stopped, RejectReport, trouble
    <2> QED BY <2>1, <2>2, <2>3 DEF Receive
  <1>3. stops' \in Seq(StopFailures(DOMAIN cmds'))
    <2>1. CASE Stopped(m)
      <3>1. /\ stops' = [s \in DOMAIN stops |-> stops'[s]]
            /\ \A s \in DOMAIN stops : stops'[s] = stops[s]
                                       \/ stops'[s] = [stops[s] EXCEPT !.status = "RECOVERED"]
        BY <2>1 DEF Stopped
      <3>2. "RECOVERED" \in StopStatuses
        BY DEF StopStatuses
      <3> QED BY <1>g, <3>1, <3>2, StopsMarked
    <2>2. CASE RecordFailure(m)
      <3> DEFINE p == [s \in DOMAIN stops |-> IF s \in Retrying(m.cmd)
                                              THEN [stops[s] EXCEPT !.status = "RETRY_FAILED"]
                                              ELSE stops[s]]
                 x == [cmd |-> m.cmd, status |-> "RECORDED", recovery |-> 0]
      <3>1. p \in Seq(StopFailures(DOMAIN cmds'))
        <4>1. /\ p = [s \in DOMAIN stops |-> p[s]]
              /\ \A s \in DOMAIN stops : p[s] = stops[s]
                                         \/ p[s] = [stops[s] EXCEPT !.status = "RETRY_FAILED"]
          OBVIOUS
        <4>2. "RETRY_FAILED" \in StopStatuses
          BY DEF StopStatuses
        <4> HIDE DEF p
        <4> QED BY <1>g, <4>1, <4>2, StopsMarked
      <3>2. x \in StopFailures(DOMAIN cmds')
        BY <1>m DEF StopFailures
      <3>3. stops' \in {stops, Append(p, x)}
        BY <2>2 DEF RecordFailure
      <3> HIDE DEF p, x
      <3> DEFINE S == StopFailures(DOMAIN cmds')
      <3> HIDE DEF S
      <3>4. p \in Seq(S) /\ x \in S /\ stops \in Seq(S)
        BY <1>g, <3>1, <3>2 DEF S
      <3>5. Append(p, x) \in Seq(S)
        BY <3>4
      <3>6. stops' \in Seq(S)
        BY <3>3, <3>4, <3>5
      <3> QED BY <3>6 DEF S
    <2>3. CASE Provisioned(m) \/ Started(m) \/ Cleaned(m) \/ RejectReport(m)
      BY <1>g, <2>3 DEF Provisioned, Started, Cleaned, RejectReport, trouble
    <2> QED BY <2>1, <2>2, <2>3 DEF Receive
  <1> QED BY <1>g, <1>h, <1>1, <1>2, <1>3 DEF Typed

(* The steps that leave the failures and the machine alone.                *)
LEMMA OtherwiseTyped ==
    ASSUME Typed, Continues(cmds', cmds), Plain', UNCHANGED hostVars,
           delivery' \in Failures(DOMAIN cmds'), stops' \in Seq(StopFailures(DOMAIN cmds'))
    PROVE  Typed'
  BY TypesGrow DEF hostVars, Typed

(* Every step of buyer, supplier, platform and machine keeps the types.    *)
LEMMA TypedStep ==
    ASSUME Typed, [Next]_vars PROVE Typed'
  <1>c. Continues(cmds', cmds)
    BY CommandsStay
  <1>g. /\ cmds' \in Seq(Command) /\ agent \in {0} \cup DOMAIN cmds'
        /\ delivery \in Failures(DOMAIN cmds') /\ stops \in Seq(StopFailures(DOMAIN cmds'))
        /\ host \in Manifests(DOMAIN cmds') /\ (host.live => host.by \in DOMAIN cmds')
        /\ reports \subseteq [cmd : DOMAIN cmds', ok : BOOLEAN]
    BY <1>c, TypesGrow
  <1>f. ASSUME Plain', UNCHANGED <<hostVars, delivery, stops>> PROVE Typed'
    BY <1>c, <1>f, <1>g, OtherwiseTyped
  <1>1. ASSUME NEW r \in Requests, BeginStart(r) \/ PostStart(r) \/ BeginStop(r) \/ PostStop(r)
        PROVE  Typed'
    <2>1. UNCHANGED <<service, money, market, trouble, clocks, hostVars>>
      BY <1>1 DEF BeginStart, PostStart, BeginStop, PostStop
    <2>2. \E a \in {"READ", "DONE"} : asked' = [asked EXCEPT ![r] = a]
      BY <1>1 DEF BeginStart, PostStart, BeginStop, PostStop
    <2>3. Plain'
      BY <2>1, <2>2 DEF Typed, Plain, service, money, market, trouble, clocks, hostVars
    <2> QED BY <1>f, <2>1, <2>3 DEF trouble
  <1>2. ASSUME NEW c \in 1 .. MaxCommands, PollCommand(c) PROVE Typed'
    <2>1. UNCHANGED <<service, money, market, trouble, clocks, asked, host, reports, faults>>
      BY <1>2 DEF PollCommand
    <2>2. agent' = c /\ c \in DOMAIN cmds'
      <3>1. DOMAIN cmds' = DOMAIN ExpiredStop
        BY <1>2 DEF PollCommand
      <3> QED BY <1>2, <3>1 DEF PollCommand, Eligible
    <2>3. Plain'
      BY <2>1 DEF Typed, Plain, service, money, market, trouble, clocks
    <2> QED BY <1>g, <2>1, <2>2, <2>3 DEF Typed, trouble
  <1>3. ASSUME RefundFailedDelivery \/ QueueFailedDeliveryCleanup PROVE Typed'
    <2>1. UNCHANGED <<hostVars, stops>>
      BY <1>3 DEF RefundFailedDelivery, QueueFailedDeliveryCleanup
    <2>2. delivery' \in Failures(DOMAIN cmds')
      <3>1. /\ delivery.status \in {"RECORDED", "REFUNDED"}
            /\ \E st \in {"REFUNDED", "CLEANING"} : delivery' = [delivery EXCEPT !.status = st]
        BY <1>3 DEF RefundFailedDelivery, QueueFailedDeliveryCleanup
      <3>2. delivery \in [cmd : DOMAIN cmds', status : {"RECORDED", "REFUNDED", "CLEANING", "CLEANED"}]
        BY <1>g, <3>1 DEF Failures, NoFailure
      <3> QED BY <3>1, <3>2 DEF Failures
    <2>3. Plain'
      BY <1>3 DEF Typed, Plain, RefundFailedDelivery, QueueFailedDeliveryCleanup,
         service, money, market, clocks, hostVars
    <2> QED BY <1>c, <1>g, <2>1, <2>2, <2>3, OtherwiseTyped
  <1>4. ASSUME QueueFailedStopRecovery \/ RetryFailedStop PROVE Typed'
    <2>1. UNCHANGED <<service, money, market, delivery, proposal, clocks, asked, hostVars>>
      BY <1>4 DEF QueueFailedStopRecovery, RetryFailedStop
    <2>2. Plain'
      BY <2>1 DEF Typed, Plain, service, money, market, clocks, hostVars
    <2>3. stops' \in Seq(StopFailures(DOMAIN cmds'))
      <3>1. CASE stops' = [stops EXCEPT ![Len(stops)].status = "EXHAUSTED"] /\ stops # << >>
        <4>1. 1 \in DOMAIN cmds' \/ DOMAIN cmds' = {}
          BY <1>g
        <4>2. stops[Len(stops)] \in StopFailures(DOMAIN cmds')
          BY <1>g, <3>1
        <4>3. DOMAIN cmds' # {}
          BY <4>2 DEF StopFailures
        <4>4. "EXHAUSTED" \in StopStatuses
          BY DEF StopStatuses
        <4> QED BY <1>g, <3>1, <4>1, <4>3, <4>4, LastStopMarked
      <3>2. CASE /\ cmds' = Queued(cmds, "STOP") /\ stops # << >>
                 /\ stops' = [stops EXCEPT ![Len(stops)].status = "RETRYING",
                                          ![Len(stops)].recovery = Len(cmds) + 1]
        <4>1. Len(cmds) + 1 \in DOMAIN cmds'
          BY <3>2, QueuedComesLast DEF Typed, CommandTypes
        <4>2. "RETRYING" \in StopStatuses
          BY DEF StopStatuses
        <4> QED BY <1>g, <3>2, <4>1, <4>2, LastStopMarked
      <3> QED BY <1>4, <3>1, <3>2 DEF QueueFailedStopRecovery, RetryFailedStop
    <2> QED BY <1>c, <1>g, <2>1, <2>2, <2>3, OtherwiseTyped
  <1>5. ASSUME WindowCloses \/ BuyerAccepts \/ ResolveHostingDispute PROVE Typed'
    <2>1. UNCHANGED <<hostVars, delivery, stops>>
      BY <1>5 DEF WindowCloses, BuyerAccepts, Settle, ResolveHostingDispute, trouble
    <2>2. CASE WindowCloses \/ BuyerAccepts
      <3>1. Plain'
        <4>1. /\ UNCHANGED <<instance, metered, market, trouble, clocks, asked, hostVars>>
              /\ accepted' = TRUE /\ contract' = "SETTLED" /\ hold = "HELD" /\ hold' = "SETTLED"
              /\ income' = income + 1
          BY <2>2 DEF WindowCloses, BuyerAccepts, Settle
        <4> QED BY <4>1 DEF Typed, Plain, market, trouble, clocks, hostVars
      <3> QED BY <1>f, <2>1, <3>1
    <2>3. CASE ResolveHostingDispute
      <3>1. proposal' \in [resolution : {"NONE", "REFUND", "SETTLE"}, queued : BOOLEAN,
                           status : {"NONE", "REQUESTED", "APPROVED", "REJECTED", "APPLIED"}]
        BY <2>3 DEF Typed, Plain, ResolveHostingDispute
      <3> QED BY <1>f, <2>1, <2>3, <3>1 DEF Typed, Plain, ResolveHostingDispute, market, clocks,
              hostVars
    <2> QED BY <1>5, <2>2, <2>3
  <1>6. ASSUME \/ \E resolution \in {"REFUND", "SETTLE"} : RequestDisputeResolution(resolution)
               \/ \E status \in {"APPROVED", "REJECTED"} : DecideDisputeResolution(status)
               \/ QueueDisputeCleanup
        PROVE  Typed'
    <2>1. UNCHANGED <<hostVars, delivery, stops, hold, income, market, clocks, asked, instance,
                      metered, accepted>>
          /\ contract' \in {contract, "CLEANING"}
      BY <1>6 DEF RequestDisputeResolution, DecideDisputeResolution, QueueDisputeCleanup,
         service, money
    <2>2. proposal' \in [resolution : {"NONE", "REFUND", "SETTLE"}, queued : BOOLEAN,
                         status : {"NONE", "REQUESTED", "APPROVED", "REJECTED", "APPLIED"}]
      <3>1. ASSUME NEW resolution \in {"REFUND", "SETTLE"}, RequestDisputeResolution(resolution)
            PROVE  proposal' = [resolution |-> resolution, status |-> "REQUESTED", queued |-> FALSE]
        BY <3>1 DEF RequestDisputeResolution
      <3>2. ASSUME NEW status \in {"APPROVED", "REJECTED"}, DecideDisputeResolution(status)
            PROVE  proposal' = [proposal EXCEPT !.status = status]
        BY <3>2 DEF DecideDisputeResolution
      <3>3. ASSUME QueueDisputeCleanup PROVE proposal' = [proposal EXCEPT !.queued = TRUE]
        BY <3>3 DEF QueueDisputeCleanup
      <3>4. proposal \in [resolution : {"NONE", "REFUND", "SETTLE"}, queued : BOOLEAN,
                         status : {"NONE", "REQUESTED", "APPROVED", "REJECTED", "APPLIED"}]
        BY DEF Typed, Plain
      <3>5. CASE QueueDisputeCleanup
        BY <3>3, <3>4, <3>5
      <3>6. CASE \E status \in {"APPROVED", "REJECTED"} : DecideDisputeResolution(status)
        BY <3>2, <3>4, <3>6
      <3>7. CASE \E resolution \in {"REFUND", "SETTLE"} : RequestDisputeResolution(resolution)
        <4>1. PICK resolution \in {"REFUND", "SETTLE"} :
                proposal' = [resolution |-> resolution, status |-> "REQUESTED", queued |-> FALSE]
          BY <3>1, <3>7
        <4> QED BY <4>1
      <3> QED BY <1>6, <3>5, <3>6, <3>7
    <2>3. Plain'
      BY <2>1, <2>2 DEF Typed, Plain, market, clocks, hostVars
    <2> QED BY <1>f, <2>1, <2>3
  <1>7. ASSUME DisputeContract \/ MarkContractSettled \/ RetryCleanup \/ LeaseEnds \/ WindowEnds
               \/ UnlistOffer \/ \E offline, changed \in BOOLEAN : Heartbeat(offline, changed)
        PROVE  Typed'
    <2>1. UNCHANGED <<hostVars, delivery, stops>>
      BY <1>7 DEF DisputeContract, MarkContractSettled, RetryCleanup, LeaseEnds, WindowEnds,
         UnlistOffer, Heartbeat, trouble
    <2>2. CASE DisputeContract \/ MarkContractSettled \/ RetryCleanup
      BY <1>f, <2>1, <2>2 DEF Typed, Plain, DisputeContract, MarkContractSettled, RetryCleanup,
         service, money, market, trouble, clocks, hostVars
    <2>3. CASE LeaseEnds \/ WindowEnds \/ UnlistOffer
      <3>1. Plain'
        <4>1. /\ UNCHANGED <<service, money, trouble, occasion, asked, hostVars>>
              /\ UNCHANGED <<device, verified, retired>>
              /\ leaseOver' \in {leaseOver, TRUE} /\ windowOver' \in {windowOver, TRUE}
              /\ offer' \in {offer, "UNLISTED"}
          BY <2>3 DEF LeaseEnds, WindowEnds, UnlistOffer, market, clocks
        <4>2. leaseOver' \in BOOLEAN /\ windowOver' \in BOOLEAN
          BY <4>1 DEF Typed, Plain
        <4> QED BY <4>1, <4>2 DEF Typed, Plain, service, money, trouble, hostVars
      <3> QED BY <1>f, <2>1, <3>1
    <2>4. CASE \E offline, changed \in BOOLEAN : Heartbeat(offline, changed)
      BY <1>f, <2>1, <2>4 DEF Typed, Plain, Heartbeat, service, money, trouble, clocks, hostVars
    <2> QED BY <1>7, <2>2, <2>3, <2>4
  <1>8. ASSUME RetireDevice PROVE Typed'
    <2>1. Plain' /\ UNCHANGED <<hostVars, delivery, stops>>
      <3>1. /\ UNCHANGED <<service, money, trouble, clocks, asked, hostVars>>
            /\ device' = "REVOKED" /\ retired' = TRUE /\ verified' = FALSE
            /\ offer' \in {offer, "SUSPENDED"}
        BY <1>8 DEF RetireDevice
      <3>2. verified' \in BOOLEAN /\ retired' \in BOOLEAN
        BY <3>1
      <3> QED BY <3>1, <3>2 DEF Typed, Plain, service, money, trouble, clocks, hostVars
    <2> QED BY <1>f, <2>1
  <1>9. ASSUME UNCHANGED vars PROVE Typed'
    BY <1>9, <1>f DEF Typed, Plain, vars, service, money, market, trouble, clocks, hostVars
  <1>10. ASSUME NEW m \in reports, Receive(m) PROVE Typed'
    BY <1>10, <1>c, ReceiveTyped
  <1> QED BY <1>1, <1>2, <1>3, <1>4, <1>5, <1>6, <1>7, <1>8, <1>9, <1>10, MachineTyped
          DEF Next, Course, Interference, DisputeStep, PollStep, Requests

(* Every state of a delivery is well typed, however the machine, the agent *)
(* and the reports fail (hosting-v2-store-core.ts, actuator.mjs).          *)
THEOREM TypeCorrect == Spec => []DeliveryTypeOK
  <1>1. Init => Typed
    BY TypedInit
  <1>2. Typed /\ [Next]_vars => Typed'
    BY TypedStep
  <1>3. Typed => DeliveryTypeOK
    BY TypedIsTypeOK
  <1> QED BY <1>1, <1>2, <1>3, PTL DEF Spec

-----------------------------------------------------------------------------
(* What is on record is true of the machine: the manifest only moves       *)
(* forward, so what it said when the agent reported, it says now.          *)

(* What the manifest tells of the container.                               *)
Manifested ==
    /\ host.live => host.status = Underway[Type(host.by)]
    /\ host.status = "CLEANED" => host.box = "NONE"
    /\ host.status = "STOPPED" => host.box # "RUNNING"

Reported(type) == \E m \in reports : m.ok /\ Type(m.cmd) = type
Gone   == host.status = "CLEANED"
Halted == host.status \in {"STOPPED", "CLEANING", "CLEANED"} /\ host.box # "RUNNING"

CleanOnRecord ==
    \/ contract = "CLEANED" \/ instance = "CLEANED" \/ delivery.status = "CLEANED"
    \/ offer = "PUBLISHED" \/ Reported("CLEANUP")

(* A cleanup or a stop that is recorded, or reported, did happen.          *)
Evidence ==
    /\ Manifested
    /\ CleanOnRecord => Gone
    /\ metered \/ Reported("STOP") => Halted

(* The result of each operation, one by one.                               *)
LEMMA OperationResults ==
    /\ Underway["PROVISION"] = "CREATING" /\ Underway["START"] = "STARTING"
    /\ Underway["STOP"] = "STOPPING" /\ Underway["CLEANUP"] = "CLEANING"
    /\ Done["PROVISION"] = "READY" /\ Done["START"] = "RUNNING"
    /\ Done["STOP"] = "STOPPED" /\ Done["CLEANUP"] = "CLEANED"
    /\ DoneBox["PROVISION"] = "MADE" /\ DoneBox["START"] = "RUNNING"
    /\ DoneBox["STOP"] = "MADE" /\ DoneBox["CLEANUP"] = "NONE"
  BY DEF Underway, Done, DoneBox

(* A machine that is clean stays clean, one that is halted stays halted,   *)
(* and the agent reports only what the manifest says.                      *)
LEMMA MachineMovesForward ==
    ASSUME Typed, Manifested, HostStep
    PROVE  /\ Manifested'
           /\ Gone => Gone'
           /\ Halted => Halted'
           /\ Reported("CLEANUP")' => Reported("CLEANUP") \/ Gone'
           /\ Reported("STOP")' => Reported("STOP") \/ Halted'
  <1> DEFINE D == DOMAIN cmds
             Forward == Manifested' /\ (Gone => Gone') /\ (Halted => Halted')
             Silent == \A m \in reports' : m \in reports \/ ~m.ok
  <1>u. cmds' = cmds
    BY DEF HostStep
  <1>t. \A c \in D : Type(c) \in {"PROVISION", "START", "STOP", "CLEANUP"}
    <2>1. \A c \in D : cmds[c] \in Command
      BY DEF Typed
    <2> QED BY <2>1 DEF Type, Command, CommandTypes
  <1>h. host \in Manifests(D) /\ (host.live => host.by \in D)
    BY DEF Typed
  <1>k. ASSUME host' = host PROVE Forward
    BY <1>k, <1>u DEF Manifested, Gone, Halted, Type
  <1>s. ASSUME Silent PROVE \A type \in CommandTypes : Reported(type)' => Reported(type)
    BY <1>s, <1>u DEF Reported, Type
  <1>1. ASSUME NEW c \in D, BeginWork(c) PROVE Forward /\ Silent
    <2>1. /\ host'.status = Underway[Type(c)] /\ host'.by = c /\ host'.box = host.box
          /\ reports' = reports /\ Admits(c)
      BY <1>1, <1>h DEF BeginWork, Manifests
    <2>2. Halted \/ Gone => Type(c) = "CLEANUP" /\ ~Gone
      BY <1>t, <2>1 DEF Admits, Halted, Gone
    <2> QED BY <1>t, <1>u, <2>1, <2>2, OperationResults DEF Manifested, Gone, Halted, Type
  <1>2. ASSUME NEW c \in D, FinishWork(c) PROVE Forward /\ Silent
    <2>1. /\ host'.status = Done[Type(c)] /\ host'.box = DoneBox[Type(c)] /\ ~host'.live
          /\ reports' = reports /\ host.status = Underway[Type(c)]
      BY <1>2, <1>h DEF FinishWork, Executing, Manifests, Manifested
    <2> QED BY <1>t, <1>u, <2>1, OperationResults DEF Manifested, Gone, Halted
  <1>3. ASSUME NEW c \in D, FailWork(c) PROVE Forward /\ Silent
    <2>1. /\ host'.status = IF Type(c) = "PROVISION" THEN "FAILED" ELSE host.status
          /\ host'.box \in HalfDone(c) /\ ~host'.live /\ host.status = Underway[Type(c)]
      BY <1>3, <1>h DEF FailWork, Executing, Manifests, Manifested
    <2>2. Silent
      BY <1>3 DEF FailWork, Report
    <2>3. Forward
      BY <1>t, <1>u, <2>1, OperationResults DEF Manifested, Gone, Halted, HalfDone
    <2> QED BY <2>2, <2>3
  <1>4. ASSUME NEW c \in D, Refuse(c) PROVE Forward /\ Silent
    BY <1>4, <1>k DEF Refuse, Report
  <1>5. ASSUME NEW c \in D, ReportSuccess(c)
        PROVE  /\ Forward
               /\ Reported("CLEANUP")' => Reported("CLEANUP") \/ Gone'
               /\ Reported("STOP")' => Reported("STOP") \/ Halted'
    <2>1. /\ host' = host /\ reports' = reports \cup {[cmd |-> c, ok |-> TRUE]}
          /\ host.status = Done[Type(c)]
      BY <1>5 DEF ReportSuccess, Replays, Report
    <2>2. /\ Type(c) = "CLEANUP" => Gone'
          /\ Type(c) = "STOP" => Halted'
      BY <2>1, OperationResults DEF Gone, Halted, Manifested
    <2>3. \A m \in reports' : m \in reports \/ m.cmd = c
      BY <2>1
    <2> QED BY <1>k, <1>u, <2>1, <2>2, <2>3 DEF Reported, Type
  <1>6. ASSUME AgentGivesUp \/ \E m \in reports : LoseReport(m) PROVE Forward /\ Silent
    BY <1>6, <1>k DEF AgentGivesUp, LoseReport
  <1>7. ASSUME ActuatorCrash PROVE Forward /\ Silent
    <2>1. /\ host'.status = host.status /\ host'.box \in HalfDone(host.by) /\ ~host'.live
          /\ host.status = Underway[Type(host.by)] /\ host.by \in D /\ reports' = reports
      BY <1>7, <1>h DEF ActuatorCrash, Manifests, Manifested
    <2> QED BY <1>t, <1>u, <2>1, OperationResults DEF Manifested, Gone, Halted, HalfDone
  <1>8. ASSUME Watchdog PROVE Forward /\ Silent
    <2>1. /\ host'.status = "RUNNING" /\ host.status = "RUNNING"
          /\ host'.live = host.live /\ host'.by = host.by /\ reports' = reports
      BY <1>8, <1>h DEF Watchdog, Manifests
    <2> QED BY <1>u, <2>1 DEF Manifested, Gone, Halted, Type
  <1>9. ASSUME Outage PROVE Forward /\ Silent
    <2>1. /\ host'.status = host.status /\ host'.box = host.box
          /\ host'.live = host.live /\ host'.by = host.by /\ reports' = {}
      BY <1>9, <1>h DEF Outage, Manifests
    <2> QED BY <1>u, <2>1 DEF Manifested, Gone, Halted, Type
  <1>10. {"STOP", "CLEANUP"} \subseteq CommandTypes
    BY DEF CommandTypes
  <1> QED BY <1>1, <1>2, <1>3, <1>4, <1>5, <1>6, <1>7, <1>8, <1>9, <1>10, <1>s DEF HostStep

(* The platform records a cleanup or a stop only on a report of it.        *)
LEMMA RecordsFollowReports ==
    ASSUME Typed, [Next]_vars
    PROVE  \/ HostStep
           \/ /\ host' = host /\ reports' \subseteq reports
              /\ contract' = "CLEANED" => contract = "CLEANED" \/ Reported("CLEANUP")
              /\ instance' = "CLEANED" => instance = "CLEANED" \/ Reported("CLEANUP")
              /\ delivery'.status = "CLEANED" => delivery.status = "CLEANED" \/ Reported("CLEANUP")
              /\ offer' = "PUBLISHED" => offer = "PUBLISHED" \/ Reported("CLEANUP")
              /\ metered' => metered \/ Reported("STOP")
  <1> DEFINE Closing == \/ contract' = "CLEANED" /\ contract # "CLEANED"
                        \/ instance' = "CLEANED" /\ instance # "CLEANED"
                        \/ delivery'.status = "CLEANED" /\ delivery.status # "CLEANED"
                        \/ offer' = "PUBLISHED" /\ offer # "PUBLISHED"
             Follows == /\ host' = host /\ reports' \subseteq reports
                        /\ Closing => Reported("CLEANUP")
                        /\ metered' /\ ~metered => Reported("STOP")
  <1>1. ASSUME NEW r \in Requests, BeginStart(r) \/ PostStart(r) \/ BeginStop(r) \/ PostStop(r)
        PROVE  Follows
    <2>1. UNCHANGED <<service, money, market, trouble, clocks, hostVars>>
      BY <1>1 DEF BeginStart, PostStart, BeginStop, PostStop
    <2> QED BY <2>1 DEF service, money, market, trouble, hostVars
  <1>2. ASSUME NEW c \in 1 .. MaxCommands, PollCommand(c) PROVE Follows
    <2>1. UNCHANGED <<service, money, market, trouble, clocks, host, reports>>
      BY <1>2 DEF PollCommand
    <2> QED BY <2>1 DEF service, money, market, trouble
  <1>3. ASSUME RefundFailedDelivery \/ QueueFailedDeliveryCleanup PROVE Follows
    <2>1. /\ UNCHANGED <<hostVars, instance, metered, offer>> /\ contract' \in {contract, "CLEANING"}
          /\ \E st \in {"REFUNDED", "CLEANING"} : delivery' = [delivery EXCEPT !.status = st]
      BY <1>3 DEF RefundFailedDelivery, QueueFailedDeliveryCleanup, service, market
    <2>2. delivery'.status # "CLEANED"
      BY <2>1 DEF Typed, Failures, NoFailure
    <2> QED BY <2>1, <2>2 DEF hostVars
  <1>4. ASSUME QueueFailedStopRecovery \/ RetryFailedStop PROVE Follows
    <2>1. UNCHANGED <<service, money, market, delivery, hostVars>>
      BY <1>4 DEF QueueFailedStopRecovery, RetryFailedStop
    <2> QED BY <2>1 DEF service, market, hostVars
  <1>5. ASSUME WindowCloses \/ BuyerAccepts \/ DisputeStep PROVE Follows
    <2>1. /\ UNCHANGED <<hostVars, instance, metered, delivery>> /\ offer' \in {offer, "SUSPENDED"}
          /\ contract' \in {contract, "SETTLED", "REFUNDED", "CLEANING", "DISPUTED"}
      BY <1>5 DEF WindowCloses, BuyerAccepts, Settle, DisputeStep, DisputeContract,
         RequestDisputeResolution, DecideDisputeResolution, ResolveHostingDispute,
         QueueDisputeCleanup, service, market, trouble
    <2> QED BY <2>1 DEF hostVars
  <1>6. ASSUME \/ MarkContractSettled \/ RetryCleanup \/ LeaseEnds \/ WindowEnds \/ UnlistOffer
               \/ RetireDevice \/ \E offline, changed \in BOOLEAN : Heartbeat(offline, changed)
        PROVE  Follows
    <2>1. /\ UNCHANGED <<hostVars, instance, metered, delivery>>
          /\ offer' \in {offer, "SUSPENDED", "UNLISTED"} /\ contract' \in {contract, "CLEANING"}
      BY <1>6 DEF MarkContractSettled, RetryCleanup, LeaseEnds, WindowEnds, UnlistOffer,
         RetireDevice, Heartbeat, service, market, trouble
    <2> QED BY <2>1 DEF hostVars
  <1>7. ASSUME UNCHANGED vars PROVE Follows
    BY <1>7 DEF vars, service, market, trouble, hostVars
  <1>8. ASSUME NEW m \in reports, Receive(m) PROVE Follows
    <2>1. host' = host /\ reports' \subseteq reports
      BY <1>8 DEF Receive, Received, Provisioned, Started, Stopped, Cleaned, RecordFailure,
         RejectReport
    <2>2. CASE Cleaned(m)
      BY <2>1, <2>2 DEF Cleaned, CleanupFits, Open, Reported
    <2>3. CASE Stopped(m)
      BY <2>1, <2>3 DEF Stopped, StopFits, Open, Reported, market
    <2>4. CASE Provisioned(m) \/ Started(m)
      BY <2>1, <2>4 DEF Provisioned, Started, trouble, market
    <2>5. CASE RecordFailure(m)
      <3>1. /\ UNCHANGED <<instance, metered>> /\ offer' = "SUSPENDED"
            /\ contract' \in {"CLEANING", "FAILED"}
            /\ delivery' \in {delivery, [cmd |-> m.cmd, status |-> "RECORDED"]}
        BY <2>5 DEF RecordFailure
      <3> QED BY <2>1, <3>1
    <2>6. CASE RejectReport(m)
      BY <2>1, <2>6 DEF RejectReport, service, market, trouble
    <2> QED BY <1>8, <2>2, <2>3, <2>4, <2>5, <2>6 DEF Receive
  <1> HIDE DEF Closing
  <1>9. HostStep \/ Follows
    <2> HIDE DEF Follows
    <2> QED BY <1>1, <1>2, <1>3, <1>4, <1>5, <1>6, <1>7, <1>8
            DEF Next, Course, Interference, PollStep, Requests
  <1> QED BY <1>9 DEF Closing

(* No step records, relists or reports what did not happen.                *)
LEMMA EvidenceStep ==
    ASSUME Typed, Evidence, [Next]_vars PROVE Evidence'
  <1>1. CASE HostStep
    <2>1. UNCHANGED <<contract, instance, metered, delivery, offer>>
      BY <1>1 DEF HostStep, service, market, trouble
    <2> QED BY <1>1, <2>1, MachineMovesForward DEF Evidence, CleanOnRecord
  <1>2. CASE ~HostStep
    <2>1. Continues(cmds', cmds)
      BY CommandsStay
    <2>2. \A c \in DOMAIN cmds : Type(c)' = Type(c)
      BY <2>1 DEF Continues, Type
    <2>3. \A m \in reports : m.cmd \in DOMAIN cmds
      BY DEF Typed
    <2>4. host' = host /\ reports' \subseteq reports
      BY <1>2, RecordsFollowReports
    <2>5. \A type \in {"STOP", "CLEANUP"} : Reported(type)' => Reported(type)
      BY <2>2, <2>3, <2>4 DEF Reported
    <2>6. Manifested'
      BY <2>2, <2>4 DEF Evidence, Manifested, Typed
    <2>7. (Gone <=> Gone') /\ (Halted <=> Halted')
      BY <2>4 DEF Gone, Halted
    <2>8. /\ contract' = "CLEANED" => contract = "CLEANED" \/ Reported("CLEANUP")
          /\ instance' = "CLEANED" => instance = "CLEANED" \/ Reported("CLEANUP")
          /\ delivery'.status = "CLEANED" => delivery.status = "CLEANED" \/ Reported("CLEANUP")
          /\ offer' = "PUBLISHED" => offer = "PUBLISHED" \/ Reported("CLEANUP")
          /\ metered' => metered \/ Reported("STOP")
      BY <1>2, RecordsFollowReports
    <2>9. Reported("CLEANUP")' => Reported("CLEANUP")
      BY <2>5
    <2>10. Reported("STOP")' => Reported("STOP")
      BY <2>5
    <2>11. CleanOnRecord' => CleanOnRecord
      BY <2>8, <2>9 DEF CleanOnRecord
    <2>12. metered' \/ Reported("STOP")' => Halted'
      BY <2>7, <2>8, <2>10 DEF Evidence
    <2> QED BY <2>6, <2>7, <2>11, <2>12 DEF Evidence
  <1> QED BY <1>1, <1>2

(* Nothing is recorded at the beginning.                                   *)
LEMMA EvidenceInit == Init => Evidence
  BY DEF Init, Evidence, CleanOnRecord, Manifested, Reported, NewHost, NoFailure

-----------------------------------------------------------------------------
(* A stop that is being retried has its command under way.                 *)

(* Nothing ends a retry but its own command: a step that leaves the stops  *)
(* and the active STOP commands alone keeps it.                            *)
LEMMA RetriesKept ==
    ASSUME RetryingHasCommand, stops' = stops, retired => retired',
           Active("STOP") \subseteq Active("STOP")'
    PROVE  RetryingHasCommand'
  BY DEF RetryingHasCommand

(* An added command, or one whose status changes to another unfinished one. *)
LEMMA ActiveKept ==
    ASSUME Typed, NEW t \in CommandTypes, cmds' = cmds \/ cmds' = Queued(cmds, t)
    PROVE  Active("STOP") \subseteq Active("STOP")'
  <1>1. /\ DOMAIN Queued(cmds, t) = DOMAIN cmds \cup {Len(cmds) + 1}
        /\ \A c \in DOMAIN cmds : Queued(cmds, t)[c] = cmds[c]
    BY QueuedComesLast DEF Typed
  <1> QED BY <1>1 DEF Active

(* A report ends the retry it is about, or is about something else.        *)
LEMMA RetriesReceive ==
    ASSUME Typed, RetryingHasCommand, NEW m \in reports, Receive(m)
    PROVE  RetryingHasCommand'
  <1>m. m.cmd \in DOMAIN cmds /\ cmds \in Seq(Command)
    BY DEF Typed
  <1>q. stops \in Seq(StopFailures(DOMAIN cmds))
    BY DEF Typed
  <1>r. retired' = retired
    BY DEF Receive, Provisioned, Started, Stopped, Cleaned, RecordFailure, RejectReport, market
  <1>c. ASSUME NEW s \in {"SUCCEEDED", "FAILED"}, cmds' = Completed(m.cmd, s)
        PROVE  \A c \in Active("STOP") : c # m.cmd => c \in Active("STOP")'
    <2>1. /\ DOMAIN cmds' = DOMAIN cmds
          /\ \A d \in DOMAIN cmds : d # m.cmd => cmds'[d] = cmds[d]
      BY <1>c, <1>m, MarkedAlone DEF Completed
    <2> QED BY <2>1 DEF Active
  <1>1. ASSUME NEW s \in {"SUCCEEDED", "FAILED"}, cmds' = Completed(m.cmd, s),
               Type(m.cmd) # "STOP", stops' = stops
        PROVE  RetryingHasCommand'
    <2>1. m.cmd \notin Active("STOP")
      BY <1>1 DEF Active, Type
    <2> QED BY <1>1, <1>c, <1>r, <2>1, RetriesKept
  <1>2. CASE Provisioned(m) \/ Started(m) \/ Cleaned(m)
    <2>1. cmds' = Completed(m.cmd, "SUCCEEDED") /\ Type(m.cmd) # "STOP" /\ stops' = stops
      BY <1>2 DEF Provisioned, ProvisionFits, Started, StartFits, Cleaned, CleanupFits, trouble
    <2> QED BY <1>1, <2>1
  <1>3. CASE RejectReport(m)
    <2>1. UNCHANGED <<stops, cmds>>
      BY <1>3 DEF RejectReport, trouble
    <2> QED BY <2>1, <1>r, RetriesKept DEF Active
  <1>4. CASE RecordFailure(m) /\ Type(m.cmd) # "STOP"
    <2>1. cmds' = Completed(m.cmd, "FAILED") /\ stops' = stops
      BY <1>4 DEF RecordFailure
    <2> QED BY <1>1, <1>4, <2>1
  <1>5. ASSUME NEW st \in {"RECOVERED", "RETRY_FAILED"}, NEW p,
               p = [s \in DOMAIN stops |-> IF s \in Retrying(m.cmd)
                                           THEN [stops[s] EXCEPT !.status = st] ELSE stops[s]]
        PROVE  /\ DOMAIN p = DOMAIN stops
               /\ \A s \in DOMAIN stops : p[s].status = "RETRYING" =>
                      /\ p[s] = stops[s]
                      /\ stops[s].recovery # m.cmd
    <2>1. ASSUME NEW s \in DOMAIN stops, s \in Retrying(m.cmd) PROVE p[s].status = st
      <3>1. p[s] = [stops[s] EXCEPT !.status = st]
        BY <1>5, <2>1
      <3>2. stops[s] \in StopFailures(DOMAIN cmds)
        BY <1>q
      <3> QED BY <3>1, <3>2 DEF StopFailures
    <2>2. ASSUME NEW s \in DOMAIN stops, s \notin Retrying(m.cmd) PROVE p[s] = stops[s]
      BY <1>5, <2>2
    <2> QED BY <1>5, <2>1, <2>2 DEF Retrying
  <1>6. CASE Stopped(m)
    <2>1. cmds' = Completed(m.cmd, "SUCCEEDED")
      BY <1>6 DEF Stopped
    <2>2. /\ DOMAIN stops' = DOMAIN stops
          /\ \A s \in DOMAIN stops : stops'[s].status = "RETRYING" =>
                 stops'[s] = stops[s] /\ stops[s].recovery # m.cmd
      BY <1>5, <1>6 DEF Stopped
    <2>3. \A c \in Active("STOP") : c # m.cmd => c \in Active("STOP")'
      BY <1>c, <2>1
    <2> QED BY <1>r, <2>2, <2>3 DEF RetryingHasCommand
  <1>7. CASE RecordFailure(m) /\ Type(m.cmd) = "STOP"
    <2> DEFINE p == [s \in DOMAIN stops |-> IF s \in Retrying(m.cmd)
                                            THEN [stops[s] EXCEPT !.status = "RETRY_FAILED"]
                                            ELSE stops[s]]
               x == [cmd |-> m.cmd, status |-> "RECORDED", recovery |-> 0]
    <2>1. cmds' = Completed(m.cmd, "FAILED") /\ stops' = Append(p, x)
      BY <1>7 DEF RecordFailure
    <2>2. /\ DOMAIN p = DOMAIN stops
          /\ \A s \in DOMAIN stops : p[s].status = "RETRYING" =>
                 p[s] = stops[s] /\ stops[s].recovery # m.cmd
      BY <1>5
    <2>3. p \in Seq(StopFailures(DOMAIN cmds)) /\ x.status = "RECORDED"
      <3>1. /\ p = [s \in DOMAIN stops |-> p[s]]
            /\ \A s \in DOMAIN stops : p[s] = stops[s]
                                       \/ p[s] = [stops[s] EXCEPT !.status = "RETRY_FAILED"]
        OBVIOUS
      <3>2. "RETRY_FAILED" \in StopStatuses
        BY DEF StopStatuses
      <3> HIDE DEF p
      <3> QED BY <1>q, <3>1, <3>2, StopsMarked
    <2> HIDE DEF p, x
    <2>4. /\ DOMAIN stops' = DOMAIN stops \cup {Len(p) + 1}
          /\ \A s \in DOMAIN stops : stops'[s] = p[s]
          /\ stops'[Len(p) + 1] = x
      BY <2>1, <2>2, <2>3
    <2>5. \A c \in Active("STOP") : c # m.cmd => c \in Active("STOP")'
      BY <1>c, <2>1
    <2> QED BY <1>r, <2>2, <2>3, <2>4, <2>5 DEF RetryingHasCommand
  <1> QED BY <1>2, <1>3, <1>4, <1>6, <1>7 DEF Receive

(* No step but an emergency retirement takes its command from a retry.     *)
LEMMA RetriesStep ==
    ASSUME Typed, RetryingHasCommand, [Next]_vars PROVE RetryingHasCommand'
  <1>c. cmds \in Seq(Command) /\ {"PROVISION", "START", "STOP", "CLEANUP"} = CommandTypes
    BY DEF Typed, CommandTypes
  <1>q. stops \in Seq(StopFailures(DOMAIN cmds))
    BY DEF Typed
  <1>1. ASSUME NEW t \in CommandTypes, cmds' = cmds \/ cmds' = Queued(cmds, t),
               stops' = stops, retired' = retired
        PROVE  RetryingHasCommand'
    BY <1>1, ActiveKept, RetriesKept
  <1>2. ASSUME NEW r \in Requests, BeginStart(r) \/ PostStart(r) \/ BeginStop(r) \/ PostStop(r)
        PROVE  RetryingHasCommand'
    BY <1>1, <1>2, <1>c DEF BeginStart, PostStart, BeginStop, PostStop, market, trouble
  <1>3. ASSUME NEW c \in 1 .. MaxCommands, PollCommand(c) PROVE RetryingHasCommand'
    <2>1. Active("STOP") \subseteq Active("STOP")'
      <3>1. /\ ExpiredStop \in Seq(Command) /\ DOMAIN cmds \subseteq DOMAIN ExpiredStop
            /\ \A d \in DOMAIN cmds : ExpiredStop[d] = cmds[d]
        <4>1. ExpiredStop \in {cmds, Queued(cmds, "STOP")}
          BY DEF ExpiredStop
        <4>2. /\ Queued(cmds, "STOP") \in Seq(Command)
              /\ DOMAIN cmds \subseteq DOMAIN Queued(cmds, "STOP")
              /\ \A d \in DOMAIN cmds : Queued(cmds, "STOP")[d] = cmds[d]
          BY <1>c, QueuedComesLast
        <4> QED BY <1>c, <4>1, <4>2
      <3>2. c \in DOMAIN ExpiredStop /\ cmds' = [ExpiredStop EXCEPT ![c].status = "DELIVERED"]
        BY <1>3 DEF PollCommand, Eligible
      <3>3. /\ DOMAIN cmds' = DOMAIN ExpiredStop
            /\ \A d \in DOMAIN ExpiredStop : d # c => cmds'[d] = ExpiredStop[d]
            /\ cmds'[c].type = ExpiredStop[c].type /\ cmds'[c].status \in Unfinished
        BY <3>1, <3>2, MarkedAlone DEF Unfinished
      <3>4. ASSUME NEW d \in Active("STOP") PROVE d \in Active("STOP")'
        <4>1. /\ d \in DOMAIN ExpiredStop /\ d \in DOMAIN cmds' /\ ExpiredStop[d] = cmds[d]
              /\ cmds[d].type = "STOP" /\ cmds[d].status \in Unfinished
          BY <3>1, <3>3 DEF Active
        <4>2. cmds'[d].type = "STOP" /\ cmds'[d].status \in Unfinished
          BY <3>3, <4>1
        <4> QED BY <4>1, <4>2 DEF Active
      <3> QED BY <3>4
    <2>2. stops' = stops /\ retired' = retired
      BY <1>3 DEF PollCommand, market, trouble
    <2> QED BY <2>1, <2>2, RetriesKept
  <1>4. ASSUME QueueFailedStopRecovery \/ RetryFailedStop PROVE RetryingHasCommand'
    <2> DEFINE n == Len(stops)
    <2>n. stops # << >> /\ n \in DOMAIN stops
      BY <1>4, <1>q DEF QueueFailedStopRecovery, RetryFailedStop
    <2>l. stops[n] \in StopFailures(DOMAIN cmds)
      BY <1>q, <2>n
    <2>r. retired' = retired
      BY <1>4 DEF QueueFailedStopRecovery, RetryFailedStop, market
    <2>1. CASE stops' = [stops EXCEPT ![n].status = "EXHAUSTED"] /\ cmds' = cmds
      <3>1. /\ DOMAIN stops' = DOMAIN stops /\ stops'[n].status = "EXHAUSTED"
            /\ \A s \in DOMAIN stops : s # n => stops'[s] = stops[s]
        BY <2>1, <2>n, <2>l DEF StopFailures
      <3> QED BY <2>1, <2>r, <3>1 DEF RetryingHasCommand, Active
    <2>2. CASE /\ cmds' = Queued(cmds, "STOP")
               /\ stops' = [stops EXCEPT ![n].status = "RETRYING", ![n].recovery = Len(cmds) + 1]
      <3>1. /\ DOMAIN stops' = DOMAIN stops /\ stops'[n].recovery = Len(cmds) + 1
            /\ \A s \in DOMAIN stops : s # n => stops'[s] = stops[s]
        <4> DEFINE half == [stops EXCEPT ![n].status = "RETRYING"]
        <4>1. stops' = [half EXCEPT ![n].recovery = Len(cmds) + 1]
          BY <2>2
        <4>2. /\ DOMAIN half = DOMAIN stops /\ half[n] = [stops[n] EXCEPT !.status = "RETRYING"]
              /\ \A s \in DOMAIN stops : s # n => half[s] = stops[s]
          BY <2>n
        <4> HIDE DEF half
        <4>3. stops'[n] = [half[n] EXCEPT !.recovery = Len(cmds) + 1]
          BY <2>n, <4>1, <4>2
        <4>4. stops'[n].recovery = Len(cmds) + 1
          BY <2>l, <4>2, <4>3 DEF StopFailures
        <4> QED BY <2>n, <4>1, <4>2, <4>4
      <3>2. Len(cmds) + 1 \in Active("STOP")'
        <4>1. /\ Len(cmds) + 1 \in DOMAIN cmds'
              /\ cmds'[Len(cmds) + 1] = [type |-> "STOP", status |-> "PENDING"]
          BY <1>c, <2>2, QueuedComesLast
        <4> QED BY <4>1 DEF Active, Unfinished
      <3>3. Active("STOP") \subseteq Active("STOP")'
        BY <1>c, <2>2, ActiveKept
      <3> QED BY <2>r, <3>1, <3>2, <3>3 DEF RetryingHasCommand
    <2> QED BY <1>4, <2>1, <2>2 DEF QueueFailedStopRecovery, RetryFailedStop
  <1>5. ASSUME \/ RefundFailedDelivery \/ QueueFailedDeliveryCleanup \/ MarkContractSettled
               \/ WindowCloses \/ BuyerAccepts \/ RetryCleanup
        PROVE  RetryingHasCommand'
    BY <1>5, <1>1, <1>c DEF RefundFailedDelivery, QueueFailedDeliveryCleanup, MarkContractSettled,
       WindowCloses, BuyerAccepts, Settle, RetryCleanup, market, trouble
  <1>6. ASSUME DisputeStep PROVE RetryingHasCommand'
    BY <1>6, <1>1, <1>c DEF DisputeStep, DisputeContract, RequestDisputeResolution,
       DecideDisputeResolution, ResolveHostingDispute, QueueDisputeCleanup, market, trouble
  <1>7. ASSUME RetireDevice PROVE RetryingHasCommand'
    BY <1>7 DEF RetireDevice, RetryingHasCommand
  <1>8. ASSUME \/ HostStep \/ LeaseEnds \/ WindowEnds \/ UnlistOffer \/ UNCHANGED vars
               \/ \E offline, changed \in BOOLEAN : Heartbeat(offline, changed)
        PROVE  RetryingHasCommand'
    <2>1. UNCHANGED <<cmds, stops, retired>>
      BY <1>8 DEF HostStep, LeaseEnds, WindowEnds, UnlistOffer, Heartbeat, vars, market, trouble
    <2> QED BY <1>1, <1>c, <2>1
  <1> QED BY <1>2, <1>3, <1>4, <1>5, <1>6, <1>7, <1>8, RetriesReceive
          DEF Next, Course, Interference, PollStep, Requests

(* A contract is closed, and its listing for sale again, only when the     *)
(* machine is clean, and a failed STOP that counts as being retried has    *)
(* its command under way, whatever fails (completeCommand,                 *)
(* queueFailedStopRecovery, retryFailedStop).                              *)
THEOREM MachineIsLookedAfter == Spec => []NothingIsLeftBehind
  <1> DEFINE Inv == Typed /\ Evidence /\ RetryingHasCommand
  <1>1. Init => Inv
    BY TypedInit, EvidenceInit DEF Init, RetryingHasCommand
  <1>2. Inv /\ [Next]_vars => Inv'
    BY TypedStep, EvidenceStep, RetriesStep
  <1>3. Inv => NothingIsLeftBehind
    BY DEF NothingIsLeftBehind, ClosedMeansClean, Finished, Evidence, Manifested, CleanOnRecord, Gone
  <1> QED BY <1>1, <1>2, <1>3, PTL DEF Spec

-----------------------------------------------------------------------------
(* The card-hours and the service on record, however often it is started.  *)
Spent == \/ contract \in {"SETTLED", "REFUNDED", "CLEANING", "CLEANED"}
         \/ delivery.status \in {"REFUNDED", "CLEANING", "CLEANED"}
         \/ \E c \in DOMAIN cmds : Type(c) = "CLEANUP"

Books ==
    /\ Spent => hold # "HELD"
    /\ hold = "SETTLED" => metered
    /\ contract \in {"PROVISIONING", "READY"} => hold = "HELD" /\ ~metered
    /\ contract \in {"AWAITING_ACCEPTANCE", "DISPUTED"} => metered
    /\ instance = "RUNNING" => ~metered

(* The books are about these variables and the cleanups only.              *)
LEMMA BooksKept ==
    ASSUME Typed, [Next]_vars, Books, UNCHANGED <<contract, instance, metered, hold>>,
           delivery'.status \in {delivery.status, "RECORDED"},
           \A c \in DOMAIN cmds' \ DOMAIN cmds : Type(c)' # "CLEANUP"
    PROVE  Books'
  <1>1. \A c \in DOMAIN cmds : Type(c)' = Type(c)
    BY CommandsStay DEF Continues, Type
  <1>2. Spent' => Spent
    BY <1>1 DEF Spent
  <1> QED BY <1>2 DEF Books

(* A report moves the books to what it tells.                              *)
LEMMA BooksReceive ==
    ASSUME Typed, Books, [Next]_vars, NEW m \in reports, Receive(m) PROVE Books'
  <1>c. /\ DOMAIN cmds' = DOMAIN cmds /\ m.cmd \in DOMAIN cmds
        /\ \A c \in DOMAIN cmds : Type(c)' = Type(c)
    <2>1. m.cmd \in DOMAIN cmds /\ cmds \in Seq(Command)
      BY DEF Typed
    <2>2. cmds' = cmds \/ \E s \in {"SUCCEEDED", "FAILED"} : cmds' = [cmds EXCEPT ![m.cmd].status = s]
      BY DEF Receive, Provisioned, Started, Stopped, Cleaned, RecordFailure, RejectReport, Completed
    <2>3. ASSUME NEW s \in {"SUCCEEDED", "FAILED"}, cmds' = [cmds EXCEPT ![m.cmd].status = s]
          PROVE  DOMAIN cmds' = DOMAIN cmds
      BY <2>1, <2>3, MarkedAlone
    <2>4. \A c \in DOMAIN cmds : Type(c)' = Type(c)
      BY CommandsStay DEF Continues, Type
    <2> QED BY <2>1, <2>2, <2>3, <2>4
  <1>1. ASSUME Provisioned(m) PROVE Books'
    BY <1>1, <1>c DEF Provisioned, ProvisionFits, Books, Spent, money, trouble
  <1>2. ASSUME Started(m) PROVE Books'
    BY <1>2, <1>c DEF Started, StartFits, Books, Spent, money, trouble
  <1>3. ASSUME Stopped(m) PROVE Books'
    <2>1. /\ contract' = "AWAITING_ACCEPTANCE" /\ instance' = "STOPPED" /\ metered' = TRUE
          /\ hold' = hold /\ delivery' = delivery
      BY <1>3 DEF Stopped, money
    <2> QED BY <1>c, <2>1 DEF Books, Spent
  <1>4. ASSUME Cleaned(m) PROVE Books'
    <2>1. /\ hold' = hold /\ metered' = metered /\ instance' # "RUNNING" /\ contract = "CLEANING"
          /\ contract' \in {"REFUNDED", "CLEANED"}
      BY <1>4 DEF Cleaned, CleanupFits, money
    <2> QED BY <2>1 DEF Books, Spent
  <1>5. ASSUME RecordFailure(m) PROVE Books'
    <2>1. /\ UNCHANGED <<hold, metered, instance>>
          /\ contract' = IF Type(m.cmd) = "CLEANUP" THEN "CLEANING" ELSE "FAILED"
          /\ delivery' = delivery \/ delivery' = [cmd |-> m.cmd, status |-> "RECORDED"]
      BY <1>5 DEF RecordFailure, money
    <2>2. Spent' => Spent
      BY <1>c, <2>1 DEF Spent
    <2> QED BY <2>1, <2>2 DEF Books
  <1>6. ASSUME RejectReport(m) PROVE Books'
    BY <1>6, <1>c, BooksKept DEF RejectReport, service, money, trouble
  <1> QED BY <1>1, <1>2, <1>3, <1>4, <1>5, <1>6 DEF Receive

(* Every step keeps the books.                                             *)
LEMMA BooksStep ==
    ASSUME Typed, Books, [Next]_vars PROVE Books'
  <1>n. ASSUME ~(\/ QueueFailedDeliveryCleanup \/ MarkContractSettled
                 \/ QueueDisputeCleanup \/ RetryCleanup)
        PROVE  \A c \in DOMAIN cmds' \ DOMAIN cmds : Type(c)' # "CLEANUP"
    BY <1>n, NewCommandsCalled DEF Calls
  <1>s. ASSUME Spent, UNCHANGED <<hold, metered, instance>>,
               contract' \notin {"PROVISIONING", "READY", "AWAITING_ACCEPTANCE", "DISPUTED"}
        PROVE  Books'
    BY <1>s DEF Books
  <1>1. ASSUME RefundFailedDelivery PROVE Books'
    BY <1>1 DEF RefundFailedDelivery, Books, service
  <1>2. ASSUME QueueFailedDeliveryCleanup \/ MarkContractSettled \/ QueueDisputeCleanup PROVE Books'
    <2>1. /\ Spent /\ contract' = "CLEANING" /\ UNCHANGED <<hold, metered, instance>>
      BY <1>2 DEF QueueFailedDeliveryCleanup, MarkContractSettled, QueueDisputeCleanup, Spent, money
    <2> QED BY <1>s, <2>1
  <1>3. ASSUME RetryCleanup PROVE Books'
    <2>1. /\ Spent /\ contract' = "CLEANING" /\ UNCHANGED <<hold, metered, instance>>
      BY <1>3 DEF RetryCleanup, Spent, service, money
    <2> QED BY <1>s, <2>1
  <1>4. ASSUME WindowCloses \/ BuyerAccepts PROVE Books'
    BY <1>4 DEF WindowCloses, BuyerAccepts, Settle, Books
  <1>5. ASSUME DisputeContract PROVE Books'
    <2>1. /\ contract = "AWAITING_ACCEPTANCE" /\ contract' = "DISPUTED" /\ cmds' = cmds
          /\ UNCHANGED <<hold, metered, instance, delivery>>
      BY <1>5 DEF DisputeContract, money, trouble
    <2> QED BY <2>1 DEF Books, Spent, Type
  <1>6. ASSUME ResolveHostingDispute PROVE Books'
    BY <1>6 DEF ResolveHostingDispute, Books
  <1>k. ASSUME UNCHANGED <<contract, instance, metered, hold, delivery>> PROVE Books'
    <2>1. CASE QueueFailedDeliveryCleanup \/ MarkContractSettled \/ QueueDisputeCleanup \/ RetryCleanup
      BY <1>2, <1>3, <2>1
    <2>2. CASE ~(\/ QueueFailedDeliveryCleanup \/ MarkContractSettled
                 \/ QueueDisputeCleanup \/ RetryCleanup)
      BY <1>k, <1>n, <2>2, BooksKept
    <2> QED BY <2>1, <2>2
  <1>7. ASSUME NEW r \in Requests, BeginStart(r) \/ PostStart(r) \/ BeginStop(r) \/ PostStop(r)
        PROVE  Books'
    BY <1>7, <1>k DEF BeginStart, PostStart, BeginStop, PostStop, service, money, trouble
  <1>8. ASSUME NEW c \in 1 .. MaxCommands, PollCommand(c) PROVE Books'
    BY <1>8, <1>k DEF PollCommand, service, money, trouble
  <1>9. ASSUME \/ QueueFailedStopRecovery \/ RetryFailedStop \/ RetireDevice \/ UnlistOffer
               \/ HostStep \/ LeaseEnds \/ WindowEnds \/ UNCHANGED vars
               \/ \E resolution \in {"REFUND", "SETTLE"} : RequestDisputeResolution(resolution)
               \/ \E status \in {"APPROVED", "REJECTED"} : DecideDisputeResolution(status)
               \/ \E offline, changed \in BOOLEAN : Heartbeat(offline, changed)
        PROVE  Books'
    BY <1>9, <1>k DEF QueueFailedStopRecovery, RetryFailedStop, RetireDevice, UnlistOffer, HostStep,
       LeaseEnds, WindowEnds, vars, RequestDisputeResolution, DecideDisputeResolution, Heartbeat,
       service, money, trouble
  <1> QED BY <1>1, <1>2, <1>3, <1>4, <1>5, <1>6, <1>7, <1>8, <1>9, BooksReceive
          DEF Next, Course, Interference, PollStep, DisputeStep, Requests

-----------------------------------------------------------------------------
(* The course of a contract that is started once. Of two START commands    *)
(* the second may be refused while the service runs, which the code takes  *)
(* for a failed delivery: see "Disagreements" in the README.               *)
Unserved == ~metered /\ ~accepted /\ proposal = NoProposal
Reserved == hold = "HELD" /\ delivery = NoFailure

(* The phases a contract goes through. Delivery:                           *)
Waiting == contract = "PROVISIONING" /\ instance = "NONE" /\ Unserved /\ Reserved /\ stops = << >>
Ready   == contract = "READY" /\ instance = "READY" /\ Unserved /\ Reserved /\ stops = << >>
Serving == contract \in {"IN_SERVICE", "FAILED"} /\ instance = "RUNNING" /\ Unserved /\ Reserved

(* a failed delivery:                                                      *)
Untouched   == Unserved /\ stops = << >> /\ delivery # NoFailure
Undelivered == /\ contract = "FAILED" /\ instance \in {"NONE", "READY"} /\ Untouched
               /\ \/ delivery.status = "RECORDED" /\ hold = "HELD"
                  \/ delivery.status = "REFUNDED" /\ hold = "RELEASED"
Recovering  == /\ contract = "CLEANING" /\ instance \in {"NONE", "READY"} /\ Untouched
               /\ delivery.status = "CLEANING" /\ hold = "RELEASED"
Recovered   == /\ contract = "REFUNDED" /\ instance \in {"NONE", "CLEANED"} /\ Untouched
               /\ delivery.status = "CLEANED" /\ hold = "RELEASED"

(* and a service that was metered: accepted, or disputed and resolved.     *)
Metered  == metered /\ delivery = NoFailure
Served   == /\ contract = "AWAITING_ACCEPTANCE" /\ instance = "STOPPED" /\ Metered
            /\ hold = "HELD" /\ ~accepted /\ proposal = NoProposal
Disputed == /\ contract = "DISPUTED" /\ instance = "STOPPED" /\ Metered
            /\ hold = "HELD" /\ ~accepted /\ ~proposal.queued /\ proposal.status # "APPLIED"
Resolved == ~accepted /\ ~proposal.queued /\ proposal.status = "APPLIED"
Paid     == /\ contract = "SETTLED" /\ instance = "STOPPED" /\ Metered /\ hold = "SETTLED"
            /\ (accepted /\ proposal = NoProposal) \/ Resolved
Returned == /\ contract = "REFUNDED" /\ instance = "STOPPED" /\ Metered /\ hold = "RELEASED"
            /\ Resolved
Over     == proposal.status \in {"NONE", "APPLIED"} /\ (proposal.status = "APPLIED" => proposal.queued)
Cleaning == contract = "CLEANING" /\ instance = "STOPPED" /\ Metered /\ hold # "HELD" /\ Over
Closed   == /\ contract \in {"CLEANED", "REFUNDED"} /\ instance = "CLEANED" /\ Metered
            /\ hold # "HELD" /\ Over

Phase == \/ Waiting \/ Ready \/ Serving \/ Undelivered \/ Recovering \/ Recovered
         \/ Served \/ Disputed \/ Paid \/ Returned \/ Cleaning \/ Closed

(* When a command of each type may still be unfinished.                    *)
Expected(type) ==
    /\ type = "PROVISION" => contract = "PROVISIONING"
    /\ type = "START"     => contract = "READY"
    /\ type = "STOP"      => instance = "RUNNING"
    /\ type = "CLEANUP"   => contract = "CLEANING"

Fits(c) ==
    /\ Type(c) = "PROVISION" <=> c = 1
    /\ Type(c) = "CLEANUP" => contract = "CLEANING" \/ Finished
    /\ cmds[c].status = "PENDING" => agent # c /\ \A m \in reports : m.cmd # c
    /\ cmds[c].status \in Unfinished => Expected(Type(c))

(* Of those alike there is one: one START ever, one unfinished STOP, one   *)
(* unfinished CLEANUP.                                                     *)
Alike(c, d) ==
    /\ Type(c) = Type(d)
    /\ Type(c) = "START" \/ (cmds[c].status \in Unfinished /\ cmds[d].status \in Unfinished)

(* A request to stop that has read, but not yet queued, finds the service  *)
(* running and no STOP that a machine has seen.                            *)
StopsAreTimely ==
    \A r \in StopRequests : asked[r] = "READ" =>
        contract = "IN_SERVICE" /\ \A c \in Active("STOP") : cmds[c].status = "PENDING"

InOrder ==
    /\ 1 \in DOMAIN cmds
    /\ \A c \in DOMAIN cmds : Fits(c)
    /\ \A c, d \in DOMAIN cmds : Alike(c, d) => c = d
    /\ StopsAreTimely

(* A contract in each status is in one of the phases that have it.         *)
LEMMA PhaseOfStatus ==
    ASSUME Phase
    PROVE  /\ contract = "PROVISIONING" => Waiting
           /\ contract = "READY" => Ready
           /\ contract = "IN_SERVICE" \/ instance = "RUNNING" => Serving
           /\ contract = "FAILED" => Serving \/ Undelivered
           /\ contract = "CLEANING" => Recovering \/ Cleaning
           /\ contract = "AWAITING_ACCEPTANCE" => Served
           /\ contract = "DISPUTED" => Disputed
           /\ contract = "SETTLED" => Paid
           /\ contract = "REFUNDED" => Recovered \/ Returned \/ Closed
           /\ contract = "CLEANED" => Closed
           /\ Finished <=> Recovered \/ Closed
  BY DEF Phase, Waiting, Ready, Serving, Undelivered, Recovering, Recovered, Served, Disputed,
         Paid, Returned, Cleaning, Closed, Finished, Reserved, Metered, NoFailure

(* The phases are about these variables only.                              *)
LEMMA PhaseKept ==
    ASSUME Phase, UNCHANGED <<contract, instance, metered, accepted, hold, delivery, stops, proposal>>
    PROVE  Phase'
  BY DEF Phase, Waiting, Ready, Serving, Undelivered, Recovering, Recovered, Served, Disputed,
         Paid, Returned, Cleaning, Closed, Unserved, Reserved, Untouched, Metered, Resolved, Over

(* What is cleaned is closed: after a failed delivery or after a service.  *)
LEMMA CleanedCloses ==
    ASSUME Typed, Phase, NEW m \in reports, Cleaned(m) PROVE Recovered' \/ Closed'
  <1>1. /\ UNCHANGED <<metered, accepted, hold, stops, proposal>>
        /\ instance' = IF instance = "NONE" THEN "NONE" ELSE "CLEANED"
    BY DEF Cleaned, money
  <1>2. CASE Recovering
    <2>1. contract' = "REFUNDED" /\ delivery' = [delivery EXCEPT !.status = "CLEANED"]
      BY <1>2 DEF Cleaned, Recovering
    <2>2. delivery'.status = "CLEANED"
      BY <1>2, <2>1 DEF Typed, Failures, NoFailure, Recovering
    <2>3. delivery' # NoFailure
      BY <2>2 DEF NoFailure
    <2> QED BY <1>1, <1>2, <2>1, <2>2, <2>3 DEF Recovering, Recovered, Untouched, Unserved
  <1>3. CASE Cleaning
    <2>1. delivery.status = "NONE" /\ delivery = NoFailure
      BY <1>3 DEF Cleaning, Metered, NoFailure
    <2>2. contract' \in {"REFUNDED", "CLEANED"} /\ delivery' = delivery
      BY <2>1 DEF Cleaned
    <2> QED BY <1>1, <1>3, <2>1, <2>2 DEF Cleaning, Closed, Metered, Over
  <1> QED BY <1>2, <1>3, PhaseOfStatus DEF Cleaned, CleanupFits

(* Each report moves the contract from one phase to another.               *)
LEMMA PhaseReceive ==
    ASSUME Typed, Phase, InOrder, NEW m \in reports, Receive(m) PROVE Phase'
  <1>m. m.cmd \in DOMAIN cmds /\ Type(m.cmd) \in CommandTypes
    <2>1. m.cmd \in DOMAIN cmds /\ cmds[m.cmd] \in Command
      BY DEF Typed
    <2> QED BY <2>1 DEF Type, Command
  <1>e. cmds[m.cmd].status \in Unfinished => Expected(Type(m.cmd))
    BY <1>m DEF InOrder, Fits
  <1>1. ASSUME Provisioned(m) PROVE Ready'
    <2>1. Waiting
      BY <1>1, PhaseOfStatus DEF Provisioned, ProvisionFits
    <2> QED BY <1>1, <2>1 DEF Provisioned, Waiting, Ready, Unserved, Reserved, money, trouble
  <1>2. ASSUME Started(m) PROVE Serving'
    <2>1. Ready
      BY <1>2, PhaseOfStatus DEF Started, StartFits
    <2> QED BY <1>2, <2>1 DEF Started, Ready, Serving, Unserved, Reserved, money, trouble
  <1>3. ASSUME Stopped(m) PROVE Served'
    <2>1. Serving
      BY <1>3, PhaseOfStatus DEF Stopped, StopFits
    <2> QED BY <1>3, <2>1 DEF Stopped, Serving, Served, Unserved, Reserved, Metered, money
  <1>4. ASSUME Cleaned(m) PROVE Recovered' \/ Closed'
    BY <1>4, CleanedCloses
  <1>5. ASSUME RecordFailure(m) PROVE Undelivered' \/ Serving' \/ Phase'
    <2>1. /\ UNCHANGED <<instance, metered, accepted, money, proposal>>
          /\ cmds[m.cmd].status \in Unfinished
          /\ Type(m.cmd) \in {"PROVISION", "START"} => delivery = NoFailure
      BY <1>5 DEF RecordFailure, FailureFits, Open
    <2>2. CASE Type(m.cmd) \in {"PROVISION", "START"}
      <3>1. Waiting \/ Ready
        BY <1>e, <2>1, <2>2, PhaseOfStatus DEF Expected
      <3>2. /\ contract' = "FAILED" /\ stops' = stops
            /\ delivery' = [cmd |-> m.cmd, status |-> "RECORDED"]
        BY <1>5, <2>2 DEF RecordFailure
      <3>3. delivery'.status = "RECORDED" /\ delivery' # NoFailure
        BY <3>2 DEF NoFailure
      <3> QED BY <2>1, <3>1, <3>2, <3>3 DEF Waiting, Ready, Undelivered, Untouched, Unserved,
              Reserved, money
    <2>3. CASE Type(m.cmd) = "STOP"
      <3>1. Serving
        BY <1>e, <2>1, <2>3, PhaseOfStatus DEF Expected
      <3>2. contract' = "FAILED" /\ delivery' = delivery
        BY <1>5, <2>3 DEF RecordFailure
      <3> QED BY <2>1, <3>1, <3>2 DEF Serving, Unserved, Reserved, money
    <2>4. CASE Type(m.cmd) = "CLEANUP"
      <3>1. contract' = "CLEANING" /\ contract = "CLEANING" /\ UNCHANGED <<delivery, stops>>
        BY <1>5, <1>e, <2>1, <2>4 DEF RecordFailure, Expected
      <3> QED BY <2>1, <3>1, PhaseKept DEF money
    <2> QED BY <1>m, <2>2, <2>3, <2>4 DEF CommandTypes
  <1>6. ASSUME RejectReport(m) PROVE Phase'
    BY <1>6, PhaseKept DEF RejectReport, service, money, trouble
  <1> QED BY <1>1, <1>2, <1>3, <1>4, <1>5, <1>6 DEF Receive, Phase

(* Every step keeps the phase or moves the contract to the next one.       *)
LEMMA PhaseStep ==
    ASSUME Typed, Phase, InOrder, [Next]_vars PROVE Phase'
  <1>1. ASSUME RefundFailedDelivery PROVE Undelivered'
    <2>1. Undelivered
      <3>1. delivery # NoFailure
        BY <1>1 DEF RefundFailedDelivery, NoFailure
      <3> QED BY <1>1, <3>1, PhaseOfStatus DEF RefundFailedDelivery, Serving, Reserved
    <2>2. delivery' = [delivery EXCEPT !.status = "REFUNDED"]
      BY <1>1 DEF RefundFailedDelivery
    <2>3. delivery'.status = "REFUNDED"
      BY <2>1, <2>2 DEF Typed, Failures, NoFailure, Undelivered
    <2>4. delivery' # NoFailure
      BY <2>3 DEF NoFailure
    <2> QED BY <1>1, <2>1, <2>3, <2>4
            DEF RefundFailedDelivery, Undelivered, Untouched, Unserved, service
  <1>2. ASSUME QueueFailedDeliveryCleanup PROVE Recovering'
    <2>1. Undelivered
      <3>1. delivery # NoFailure /\ delivery.status = "REFUNDED"
        BY <1>2 DEF QueueFailedDeliveryCleanup, NoFailure
      <3>2. contract \in {"FAILED", "CLEANING"}
        BY <1>2 DEF QueueFailedDeliveryCleanup
      <3> QED BY <3>1, <3>2, PhaseOfStatus DEF Serving, Reserved, Recovering, Cleaning, Metered
    <2>2. delivery' = [delivery EXCEPT !.status = "CLEANING"]
      BY <1>2 DEF QueueFailedDeliveryCleanup
    <2>3. delivery'.status = "CLEANING"
      BY <2>1, <2>2 DEF Typed, Failures, NoFailure, Undelivered
    <2>4. delivery' # NoFailure /\ hold = "RELEASED"
      BY <1>2, <2>1, <2>3 DEF NoFailure, QueueFailedDeliveryCleanup, Undelivered
    <2> QED BY <1>2, <2>1, <2>3, <2>4
            DEF QueueFailedDeliveryCleanup, Undelivered, Recovering, Untouched, Unserved, money
  <1>3. ASSUME QueueFailedStopRecovery \/ RetryFailedStop PROVE Serving'
    <2>1. Serving
      BY <1>3, PhaseOfStatus DEF QueueFailedStopRecovery, RetryFailedStop, Undelivered, Untouched
    <2> QED BY <1>3, <2>1 DEF QueueFailedStopRecovery, RetryFailedStop, Serving, Unserved, Reserved,
            service, money
  <1>4. ASSUME WindowCloses \/ BuyerAccepts PROVE Paid'
    <2>1. Served
      BY <1>4, PhaseOfStatus DEF WindowCloses, BuyerAccepts, Settle
    <2> QED BY <1>4, <2>1 DEF WindowCloses, BuyerAccepts, Settle, Served, Paid, Metered, Resolved, trouble
  <1>5. ASSUME MarkContractSettled PROVE Cleaning'
    <2>1. Paid /\ proposal = NoProposal
      BY <1>5, PhaseOfStatus DEF MarkContractSettled, Paid, Resolved
    <2>2. proposal'.status = "NONE"
      BY <1>5, <2>1 DEF MarkContractSettled, trouble, NoProposal
    <2> QED BY <1>5, <2>1, <2>2 DEF MarkContractSettled, Paid, Cleaning, Metered, Over, money, trouble
  <1>6. ASSUME DisputeContract PROVE Disputed'
    <2>1. Served
      BY <1>6, PhaseOfStatus DEF DisputeContract
    <2>2. proposal'.status = "NONE" /\ ~proposal'.queued
      BY <1>6, <2>1 DEF DisputeContract, trouble, NoProposal, Served
    <2> QED BY <1>6, <2>1, <2>2 DEF DisputeContract, Served, Disputed, Metered, money, trouble
  <1>p. proposal \in [resolution : {"NONE", "REFUND", "SETTLE"}, queued : BOOLEAN,
                      status : {"NONE", "REQUESTED", "APPROVED", "REJECTED", "APPLIED"}]
    BY DEF Typed, Plain
  <1>7. ASSUME \/ \E resolution \in {"REFUND", "SETTLE"} : RequestDisputeResolution(resolution)
               \/ \E status \in {"APPROVED", "REJECTED"} : DecideDisputeResolution(status)
        PROVE  Disputed'
    <2>1. Disputed
      <3>1. contract = "DISPUTED" \/ proposal.status = "REQUESTED"
        BY <1>7 DEF RequestDisputeResolution, DecideDisputeResolution
      <3>2. proposal.status = "REQUESTED" => proposal # NoProposal
        BY DEF NoProposal
      <3>3. proposal.status = "REQUESTED" => Disputed
        BY <3>2 DEF Phase, Waiting, Ready, Serving, Undelivered, Recovering, Recovered, Served, Paid,
           Returned, Cleaning, Closed, Unserved, Untouched, Resolved, Over
      <3> QED BY <3>1, <3>3, PhaseOfStatus
    <2>2. proposal'.status # "APPLIED" /\ ~proposal'.queued
      <3>1. ASSUME NEW resolution \in {"REFUND", "SETTLE"}, RequestDisputeResolution(resolution)
            PROVE  proposal' = [resolution |-> resolution, status |-> "REQUESTED", queued |-> FALSE]
        BY <3>1 DEF RequestDisputeResolution
      <3>2. ASSUME NEW status \in {"APPROVED", "REJECTED"}, DecideDisputeResolution(status)
            PROVE  proposal' = [proposal EXCEPT !.status = status]
        BY <3>2 DEF DecideDisputeResolution
      <3>3. ~proposal.queued
        BY <2>1 DEF Disputed
      <3> QED BY <1>7, <1>p, <3>1, <3>2, <3>3
    <2>3. UNCHANGED <<service, money, delivery, stops>>
      BY <1>7 DEF RequestDisputeResolution, DecideDisputeResolution
    <2> QED BY <2>1, <2>2, <2>3 DEF Disputed, Metered, service, money
  <1>8. ASSUME ResolveHostingDispute PROVE Paid' \/ Returned'
    <2>1. Disputed
      BY <1>8, PhaseOfStatus DEF ResolveHostingDispute
    <2>2. proposal' = [proposal EXCEPT !.status = "APPLIED"]
      BY <1>8 DEF ResolveHostingDispute
    <2>3. proposal'.status = "APPLIED" /\ ~proposal'.queued
      BY <1>p, <2>1, <2>2 DEF Disputed
    <2> QED BY <1>8, <2>1, <2>3
            DEF ResolveHostingDispute, Disputed, Paid, Returned, Metered, Resolved
  <1>9. ASSUME QueueDisputeCleanup PROVE Cleaning'
    <2>1. Paid \/ Returned
      <3>1. proposal # NoProposal
        BY <1>9 DEF QueueDisputeCleanup, NoProposal
      <3> QED BY <1>9, <3>1, PhaseOfStatus
              DEF QueueDisputeCleanup, Recovered, Untouched, Unserved, Closed, Over
    <2>2. proposal' = [proposal EXCEPT !.queued = TRUE] /\ proposal.status = "APPLIED"
      BY <1>9 DEF QueueDisputeCleanup
    <2>3. proposal'.status = "APPLIED" /\ proposal'.queued
      BY <1>p, <2>2
    <2> QED BY <1>9, <2>1, <2>3 DEF QueueDisputeCleanup, Paid, Returned, Cleaning, Metered, Over, money
  <1>10. ASSUME NEW r \in Requests, BeginStart(r) \/ PostStart(r) \/ BeginStop(r) \/ PostStop(r)
         PROVE  Phase'
    BY <1>10, PhaseKept DEF BeginStart, PostStart, BeginStop, PostStop, service, money, trouble
  <1>11. ASSUME NEW c \in 1 .. MaxCommands, PollCommand(c) PROVE Phase'
    BY <1>11, PhaseKept DEF PollCommand, service, money, trouble
  <1>12. ASSUME HostStep \/ LeaseEnds \/ WindowEnds \/ RetryCleanup \/ RetireDevice \/ UnlistOffer
         PROVE  Phase'
    BY <1>12, PhaseKept DEF HostStep, LeaseEnds, WindowEnds, RetryCleanup, RetireDevice, UnlistOffer,
       service, money, trouble
  <1>13. ASSUME NEW offline \in BOOLEAN, NEW changed \in BOOLEAN, Heartbeat(offline, changed)
         PROVE  Phase'
    BY <1>13, PhaseKept DEF Heartbeat, service, money, trouble
  <1>14. ASSUME UNCHANGED vars PROVE Phase'
    BY <1>14, PhaseKept DEF vars, service, money, trouble
  <1> QED BY <1>1, <1>2, <1>3, <1>4, <1>5, <1>6, <1>7, <1>8, <1>9, <1>10, <1>11, <1>12, <1>13,
             <1>14, PhaseReceive
          DEF Next, Course, Interference, PollStep, DisputeStep, Requests, Phase

(* A phase without work in hand has no unfinished command and no request   *)
(* that has read.                                                          *)
LEMMA NothingInHand ==
    ASSUME Typed, Phase, InOrder, contract \notin {"PROVISIONING", "READY", "CLEANING"},
           instance # "RUNNING"
    PROVE  /\ \A c \in DOMAIN cmds : cmds[c].status \notin Unfinished
           /\ \A r \in StopRequests : asked[r] # "READ"
  <1>1. \A c \in DOMAIN cmds : Type(c) \in CommandTypes
    <2>1. \A c \in DOMAIN cmds : cmds[c] \in Command
      BY DEF Typed
    <2> QED BY <2>1 DEF Type, Command
  <1>2. \A c \in DOMAIN cmds : cmds[c].status \in Unfinished => Expected(Type(c))
    BY DEF InOrder, Fits
  <1>3. contract # "IN_SERVICE"
    BY PhaseOfStatus DEF Serving
  <1> QED BY <1>1, <1>2, <1>3 DEF Expected, CommandTypes, InOrder, StopsAreTimely

(* A step may leave the commands it does not touch in order: those still   *)
(* unfinished are expected, no cleanup is known before its time, and no    *)
(* request that has read is overtaken.                                     *)
Unhurried(touched) ==
    /\ \A c \in DOMAIN cmds \ touched : cmds[c].status \in Unfinished => Expected(Type(c))'
    /\ (\E c \in DOMAIN cmds : Type(c) = "CLEANUP") => contract' = "CLEANING" \/ Finished'
    /\ \A r \in StopRequests : asked'[r] = "READ" => asked[r] = "READ" /\ contract' = "IN_SERVICE"

(* A new command is expected and the only one of its kind.                 *)
Joins(t) ==
    /\ t \in {"START", "STOP", "CLEANUP"}
    /\ cmds' = Queued(cmds, t) /\ agent' = agent /\ reports' = reports
    /\ Expected(t)'
    /\ t = "CLEANUP" => contract' = "CLEANING"
    /\ IF t = "START" THEN ~StartedTwice' ELSE Active(t) = {}

(* An expected command that joins the queue keeps the commands in order.   *)
LEMMA InOrderQueued ==
    ASSUME Typed, InOrder, NEW t, Joins(t), Unhurried({}) PROVE InOrder'
  <1>n. PICK n : n = Len(cmds) + 1
    OBVIOUS
  <1>t. t \in CommandTypes /\ t # "PROVISION"
    BY DEF Joins, CommandTypes
  <1>q. cmds \in Seq(Command) /\ cmds' = Queued(cmds, t) /\ agent' = agent /\ reports' = reports
    BY DEF Joins, Typed
  <1>1. /\ n \notin DOMAIN cmds
        /\ DOMAIN cmds' = DOMAIN cmds \cup {n}
        /\ \A c \in DOMAIN cmds : cmds'[c] = cmds[c]
        /\ cmds'[n] = [type |-> t, status |-> "PENDING"]
    BY <1>n, <1>q, <1>t, QueuedComesLast
  <1>2. \A c \in DOMAIN cmds : Type(c)' = Type(c)
    BY <1>1 DEF Type
  <1>3. Type(n)' = t /\ cmds'[n].status = "PENDING" /\ n \in DOMAIN cmds'
    BY <1>1 DEF Type
  <1>4. agent # n /\ \A m \in reports : m.cmd # n
    <2>1. n # 0
      BY <1>n, <1>q
    <2> QED BY <1>1, <2>1 DEF Typed
  <1>5. 1 \in DOMAIN cmds /\ n # 1
    BY <1>1 DEF InOrder
  <1>6. ASSUME NEW c \in DOMAIN cmds PROVE Fits(c)'
    <2>1. Fits(c) /\ cmds'[c] = cmds[c] /\ Type(c)' = Type(c)
      BY <1>1, <1>2 DEF InOrder
    <2>3. cmds[c].status \in Unfinished => Expected(Type(c))'
      BY DEF Unhurried
    <2>4. Type(c) = "CLEANUP" => contract' = "CLEANING" \/ Finished'
      BY DEF Unhurried
    <2> QED BY <1>q, <2>1, <2>3, <2>4 DEF Fits
  <1>7. Fits(n)'
    <2>2. Expected(t)' /\ (t = "CLEANUP" => contract' = "CLEANING")
      BY DEF Joins
    <2> QED BY <1>q, <1>t, <1>3, <1>4, <1>5, <2>2 DEF Fits
  <1>8. ASSUME NEW c \in DOMAIN cmds, NEW d \in DOMAIN cmds, Alike(c, d)' PROVE c = d
    <2>1. Alike(c, d)
      BY <1>1, <1>2, <1>8 DEF Alike
    <2> QED BY <2>1 DEF InOrder
  <1>9. ASSUME NEW c \in DOMAIN cmds, Alike(c, n)' \/ Alike(n, c)' PROVE FALSE
    <2>1. Type(c) = t /\ (t = "START" \/ cmds[c].status \in Unfinished)
      BY <1>1, <1>2, <1>3, <1>9 DEF Alike
    <2>2. CASE t = "START"
      BY <1>1, <1>2, <1>3, <2>1, <2>2 DEF Joins, StartedTwice
    <2>3. CASE t # "START"
      BY <2>1, <2>3 DEF Joins, Active, Type
    <2> QED BY <2>2, <2>3
  <1>10. StopsAreTimely'
    <2>1. \A c \in Active("STOP")' : cmds'[c].status = "PENDING" \/ c \in Active("STOP")
      BY <1>1, <1>3 DEF Active
    <2>2. ASSUME NEW r \in StopRequests, asked'[r] = "READ"
          PROVE  contract' = "IN_SERVICE" /\ \A c \in Active("STOP") : cmds[c].status = "PENDING"
      BY <2>2 DEF Unhurried, InOrder, StopsAreTimely
    <2>3. \A c \in Active("STOP") : c \in DOMAIN cmds
      BY DEF Active
    <2> QED BY <1>1, <2>1, <2>2, <2>3 DEF StopsAreTimely
  <1>11. \A c \in DOMAIN cmds' : Fits(c)'
    BY <1>1, <1>6, <1>7
  <1>12. \A c, d \in DOMAIN cmds' : Alike(c, d)' => c = d
    BY <1>1, <1>8, <1>9
  <1>13. 1 \in DOMAIN cmds'
    BY <1>1, <1>5
  <1> QED BY <1>10, <1>11, <1>12, <1>13 DEF InOrder

(* A report finishes its command.                                          *)
Finishes(m) ==
    /\ \E s \in {"SUCCEEDED", "FAILED"} : cmds' = Completed(m.cmd, s)
    /\ agent' = agent /\ reports' \subseteq reports

(* A command that is finished keeps the others in order.                   *)
LEMMA InOrderCompleted ==
    ASSUME Typed, InOrder, NEW m \in reports, Finishes(m), Unhurried({m.cmd}) PROVE InOrder'
  <1>1. m.cmd \in DOMAIN cmds
    BY DEF Typed
  <1>2. /\ DOMAIN cmds' = DOMAIN cmds
        /\ \A d \in DOMAIN cmds : d # m.cmd => cmds'[d] = cmds[d]
        /\ cmds'[m.cmd].type = cmds[m.cmd].type /\ cmds'[m.cmd].status \notin Unfinished
    <2>1. PICK s \in {"SUCCEEDED", "FAILED"} : cmds' = [cmds EXCEPT ![m.cmd].status = s]
      BY DEF Finishes, Completed
    <2>2. cmds \in Seq(Command)
      BY DEF Typed
    <2> QED BY <1>1, <2>1, <2>2, MarkedAlone DEF Unfinished
  <1>3. \A c \in DOMAIN cmds : Type(c)' = Type(c)
    BY <1>2 DEF Type
  <1>4. \A c \in DOMAIN cmds : cmds'[c].status \in Unfinished => c # m.cmd /\ cmds'[c] = cmds[c]
    BY <1>2
  <1>5. ASSUME NEW c \in DOMAIN cmds PROVE Fits(c)'
    <2>1. Fits(c) /\ Type(c)' = Type(c)
      BY <1>3 DEF InOrder
    <2>2. cmds'[c].status = "PENDING" => agent' # c /\ \A x \in reports' : x.cmd # c
      <3>1. cmds'[c].status = "PENDING" => cmds[c].status = "PENDING"
        BY <1>4 DEF Unfinished
      <3>2. agent' = agent /\ reports' \subseteq reports
        BY DEF Finishes
      <3> QED BY <2>1, <3>1, <3>2 DEF Fits
    <2>3. cmds'[c].status \in Unfinished => Expected(Type(c))'
      BY <1>4 DEF Unhurried
    <2>4. Type(c) = "CLEANUP" => contract' = "CLEANING" \/ Finished'
      BY DEF Unhurried
    <2> QED BY <2>1, <2>2, <2>3, <2>4 DEF Fits
  <1>6. ASSUME NEW c \in DOMAIN cmds, NEW d \in DOMAIN cmds, Alike(c, d)' PROVE c = d
    <2>1. Alike(c, d)
      BY <1>3, <1>4, <1>6 DEF Alike
    <2> QED BY <2>1 DEF InOrder
  <1>7. StopsAreTimely'
    <2>1. \A c \in Active("STOP")' : c \in Active("STOP") /\ cmds'[c] = cmds[c]
      BY <1>2, <1>4 DEF Active
    <2> QED BY <2>1 DEF InOrder, StopsAreTimely, Unhurried
  <1> QED BY <1>2, <1>5, <1>6, <1>7 DEF InOrder

(* While the queue stays as it is, the agent may report on its command.    *)
Attends ==
    /\ cmds' = cmds /\ agent' \in {0, agent}
    /\ \A m \in reports' : m \in reports \/ m.cmd = agent

(* A queue that stays keeps its order where no step is hurried.            *)
LEMMA InOrderKept ==
    ASSUME Typed, InOrder, Attends, Unhurried({}) PROVE InOrder'
  <1>q. cmds' = cmds
    BY DEF Attends
  <1>1. \A c \in DOMAIN cmds : Type(c)' = Type(c)
    BY <1>q DEF Type
  <1>2. ASSUME NEW c \in DOMAIN cmds PROVE Fits(c)'
    <2>1. Fits(c) /\ Type(c)' = Type(c)
      BY <1>1 DEF InOrder
    <2>2. c # 0
      BY DEF Typed
    <2>3. cmds[c].status = "PENDING" => agent' # c /\ \A m \in reports' : m.cmd # c
      BY <2>1, <2>2 DEF Fits, Attends
    <2>4. Type(c) = "CLEANUP" => contract' = "CLEANING" \/ Finished'
      BY DEF Unhurried
    <2>6. cmds[c].status \in Unfinished => Expected(Type(c))'
      BY DEF Unhurried
    <2> QED BY <1>q, <2>1, <2>3, <2>4, <2>6 DEF Fits
  <1>3. ASSUME NEW c \in DOMAIN cmds, NEW d \in DOMAIN cmds, Alike(c, d)' PROVE c = d
    <2>1. Alike(c, d)
      BY <1>q, <1>1, <1>3 DEF Alike
    <2> QED BY <2>1 DEF InOrder
  <1>4. StopsAreTimely'
    BY <1>q DEF InOrder, StopsAreTimely, Unhurried, Active
  <1> QED BY <1>q, <1>2, <1>3, <1>4 DEF InOrder

(* Nothing overtakes the others where contract and instance stay.          *)
LEMMA UnhurriedStill ==
    ASSUME Typed, InOrder, Continues(cmds', cmds), UNCHANGED <<contract, instance, delivery>>,
           \A r \in StopRequests : asked'[r] = "READ" => asked[r] = "READ"
    PROVE  Unhurried({})
  <1>1. \A c \in DOMAIN cmds : Type(c)' = Type(c)
    BY DEF Continues, Type
  <1>2. Finished' = Finished
    BY DEF Finished
  <1>3. ASSUME NEW c \in DOMAIN cmds, cmds[c].status \in Unfinished PROVE Expected(Type(c))'
    <2>1. Expected(Type(c))
      BY <1>3 DEF InOrder, Fits
    <2> QED BY <1>1, <2>1 DEF Expected
  <1>4. (\E c \in DOMAIN cmds : Type(c) = "CLEANUP") => contract' = "CLEANING" \/ Finished'
    BY <1>2 DEF InOrder, Fits
  <1>5. \A r \in StopRequests : asked'[r] = "READ" => contract' = "IN_SERVICE"
    BY DEF InOrder, StopsAreTimely
  <1> QED BY <1>3, <1>4, <1>5 DEF Unhurried

(* Nor where nothing is in hand and no cleanup was ever queued.            *)
LEMMA UnhurriedIdle ==
    ASSUME Typed, Phase, InOrder, contract \notin {"PROVISIONING", "READY", "CLEANING"},
           instance # "RUNNING", ~Finished, asked' = asked
    PROVE  Unhurried({}) /\ \A c \in DOMAIN cmds : Type(c) # "CLEANUP"
  <1>1. \A c \in DOMAIN cmds : Type(c) # "CLEANUP"
    BY DEF InOrder, Fits
  <1> QED BY <1>1, NothingInHand DEF Unhurried

(* A report on a command overtakes no other: while a machine is prepared,  *)
(* serves or is cleaned, its command is the only unfinished one.           *)
LEMMA OnlyOneInHand ==
    ASSUME Typed, Phase, InOrder, NEW m \in reports, cmds[m.cmd].status \in Unfinished,
           NEW c \in DOMAIN cmds, cmds[c].status \in Unfinished
    PROVE  c = m.cmd
  <1>1. m.cmd \in DOMAIN cmds
    BY DEF Typed
  <1>2. Type(c) \in CommandTypes /\ Type(m.cmd) \in CommandTypes
    <2>1. cmds[c] \in Command /\ cmds[m.cmd] \in Command
      BY <1>1 DEF Typed
    <2> QED BY <2>1 DEF Type, Command
  <1>3. Fits(c) /\ Fits(m.cmd) /\ (Alike(c, m.cmd) => c = m.cmd)
    BY <1>1 DEF InOrder
  <1>4. Expected(Type(c)) /\ Expected(Type(m.cmd))
    BY <1>3 DEF Fits
  <1>5. instance = "RUNNING" => contract \in {"IN_SERVICE", "FAILED"}
    BY PhaseOfStatus DEF Serving
  <1>6. Type(c) = Type(m.cmd)
    BY <1>2, <1>4, <1>5 DEF Expected, CommandTypes
  <1> QED BY <1>3, <1>6 DEF Alike

(* A report keeps the commands in order, adopted or rejected.              *)
LEMMA InOrderReceive ==
    ASSUME Typed, Phase, InOrder, NEW m \in reports, Receive(m) PROVE InOrder'
  <1>m. m.cmd \in DOMAIN cmds /\ Type(m.cmd) \in CommandTypes
    <2>1. m.cmd \in DOMAIN cmds /\ cmds[m.cmd] \in Command
      BY DEF Typed
    <2> QED BY <2>1 DEF Type, Command
  <1>a. asked' = asked /\ agent' = agent /\ reports' \subseteq reports
    BY DEF Receive, Received, Provisioned, Started, Stopped, Cleaned, RecordFailure, RejectReport
  <1>1. ASSUME RejectReport(m) PROVE InOrder'
    <2>1. UNCHANGED <<cmds, contract, instance, delivery>>
      BY <1>1 DEF RejectReport, service, trouble
    <2>2. Continues(cmds', cmds)
      BY <2>1 DEF Continues, Typed
    <2>3. Unhurried({})
      BY <1>a, <2>1, <2>2, UnhurriedStill
    <2>4. Attends
      BY <1>a, <2>1 DEF Attends
    <2> QED BY <2>3, <2>4, InOrderKept
  <1>2. ASSUME ~RejectReport(m) PROVE InOrder'
    <2>u. cmds[m.cmd].status \in Unfinished
      BY <1>2 DEF Receive, Provisioned, ProvisionFits, Started, StartFits, Stopped, StopFits, Cleaned,
         CleanupFits, RecordFailure, FailureFits, Open
    <2>e. Fits(m.cmd) /\ Expected(Type(m.cmd))
      BY <1>m, <2>u DEF InOrder, Fits
    <2>1. Finishes(m)
      BY <1>2, <1>a DEF Receive, Finishes, Provisioned, Started, Stopped, Cleaned, RecordFailure
    <2>2. \A c \in DOMAIN cmds \ {m.cmd} : cmds[c].status \notin Unfinished
      BY <2>u, OnlyOneInHand
    <2>3. \A r \in StopRequests : asked[r] # "READ"
      <3> SUFFICES ASSUME NEW r \in StopRequests, asked[r] = "READ" PROVE FALSE
        OBVIOUS
      <3>1. /\ contract = "IN_SERVICE"
            /\ \A c \in Active("STOP") : cmds[c].status = "PENDING"
        BY DEF InOrder, StopsAreTimely
      <3>2. Type(m.cmd) = "STOP"
        <4>1. Serving
          BY <3>1, PhaseOfStatus
        <4> QED BY <1>m, <2>e, <3>1 DEF Expected, CommandTypes
      <3>3. cmds[m.cmd].status = "PENDING"
        BY <1>m, <2>u, <3>1, <3>2 DEF Active, Type
      <3> QED BY <2>e, <3>3 DEF Fits
    <2>4. (\E c \in DOMAIN cmds : Type(c) = "CLEANUP") => contract' = "CLEANING" \/ Finished'
      <3>1. CASE Cleaned(m)
        <4>1. Recovered' \/ Closed'
          BY <3>1, CleanedCloses
        <4> QED BY <4>1 DEF Recovered, Closed, Finished
      <3>2. CASE RecordFailure(m) /\ Type(m.cmd) = "CLEANUP"
        BY <3>2 DEF RecordFailure
      <3>3. CASE ~Cleaned(m) /\ Type(m.cmd) # "CLEANUP"
        <4>1. contract \in {"PROVISIONING", "READY"} \/ instance = "RUNNING"
          BY <1>m, <2>e, <3>3 DEF Expected, CommandTypes
        <4>2. Waiting \/ Ready \/ Serving
          BY <4>1, PhaseOfStatus
        <4>3. contract # "CLEANING" /\ ~Finished
          BY <4>2 DEF Waiting, Ready, Serving, Finished
        <4> QED BY <4>3 DEF InOrder, Fits
      <3> QED BY <1>2, <3>1, <3>2, <3>3 DEF Receive, Provisioned, ProvisionFits, Started, StartFits,
              Stopped, StopFits
    <2> QED BY <1>a, <2>1, <2>2, <2>3, <2>4, InOrderCompleted DEF Unhurried
  <1> QED BY <1>1, <1>2

(* A request that reads, or that queues what it read.                      *)
LEMMA InOrderRequests ==
    ASSUME Typed, Phase, InOrder, ~StartedTwice', [Next]_vars, NEW r \in Requests,
           \/ r \in StartRequests /\ (BeginStart(r) \/ PostStart(r))
           \/ r \in StopRequests /\ (BeginStop(r) \/ PostStop(r))
    PROVE  InOrder'
  <1>c. Continues(cmds', cmds)
    BY CommandsStay
  <1>a. asked \in [Requests -> {"NEW", "READ", "DONE"}] /\ StartRequests \cap StopRequests = {}
    BY DeliveryAssumption DEF Typed, Plain
  <1>u. UNCHANGED <<contract, instance, delivery, agent, reports>>
    BY DEF BeginStart, PostStart, BeginStop, PostStop, service, trouble, hostVars
  <1>1. ASSUME r \in StartRequests, BeginStart(r) PROVE InOrder'
    <2>1. asked' = [asked EXCEPT ![r] = "READ"] /\ asked[r] = "NEW" /\ cmds' = cmds
      BY <1>1 DEF BeginStart
    <2>2. \A s \in StopRequests : asked'[s] = "READ" => asked[s] = "READ"
      BY <1>1, <1>a, <2>1 DEF Requests
    <2> QED BY <1>c, <1>u, <2>1, <2>2, UnhurriedStill, InOrderKept DEF Attends
  <1>2. ASSUME r \in StartRequests, PostStart(r) PROVE InOrder'
    <2>1. asked' = [asked EXCEPT ![r] = "DONE"] /\ asked[r] = "READ"
      BY <1>2 DEF PostStart
    <2>2. \A s \in StopRequests : asked'[s] = "READ" => asked[s] = "READ"
      BY <1>2, <1>a, <2>1 DEF Requests
    <2>3. Unhurried({})
      BY <1>c, <1>u, <2>2, UnhurriedStill
    <2>4. CASE cmds' = cmds
      BY <1>u, <2>3, <2>4, InOrderKept DEF Attends
    <2>5. CASE cmds' # cmds
      <3>1. contract = "READY" /\ cmds' = Queued(cmds, "START")
        BY <1>2, <2>5 DEF PostStart
      <3>2. Joins("START")
        BY <1>2, <1>u, <3>1 DEF Joins, Expected
      <3> QED BY <2>3, <3>2, InOrderQueued
    <2> QED BY <2>4, <2>5
  <1>3. ASSUME r \in StopRequests, BeginStop(r) PROVE InOrder'
    <2>1. /\ asked' = [asked EXCEPT ![r] = "READ"] /\ cmds' = cmds
          /\ contract = "IN_SERVICE" /\ Active("STOP") = {}
      BY <1>3 DEF BeginStop
    <2>3. \A c \in DOMAIN cmds : Type(c)' = Type(c) /\ (Expected(Type(c)) => Expected(Type(c))')
      BY <1>u, <2>1 DEF Type, Expected
    <2>4. Finished' = Finished
      BY <1>u DEF Finished
    <2>5. ASSUME NEW c \in DOMAIN cmds PROVE Fits(c)'
      <3>1. Fits(c)
        BY DEF InOrder
      <3> QED BY <1>u, <2>1, <2>3, <2>4, <3>1 DEF Fits
    <2>6. ASSUME NEW c \in DOMAIN cmds, NEW d \in DOMAIN cmds, Alike(c, d)' PROVE c = d
      <3>1. Alike(c, d)
        BY <2>1, <2>3, <2>6 DEF Alike
      <3> QED BY <3>1 DEF InOrder
    <2>7. StopsAreTimely'
      BY <1>u, <2>1 DEF StopsAreTimely, Active
    <2> QED BY <2>1, <2>5, <2>6, <2>7 DEF InOrder
  <1>4. ASSUME r \in StopRequests, PostStop(r) PROVE InOrder'
    <2>1. asked' = [asked EXCEPT ![r] = "DONE"] /\ asked[r] = "READ"
      BY <1>4 DEF PostStop
    <2>2. \A s \in StopRequests : asked'[s] = "READ" => asked[s] = "READ"
      BY <1>4, <1>a, <2>1 DEF Requests
    <2>3. Unhurried({})
      BY <1>c, <1>u, <2>2, UnhurriedStill
    <2>4. CASE cmds' = cmds
      BY <1>u, <2>3, <2>4, InOrderKept DEF Attends
    <2>5. CASE cmds' # cmds
      <3>1. Active("STOP") = {} /\ cmds' = Queued(cmds, "STOP")
        BY <1>4, <2>5 DEF PostStop
      <3>2. instance = "RUNNING"
        <4>1. contract = "IN_SERVICE"
          BY <1>4, <2>1 DEF InOrder, StopsAreTimely
        <4> QED BY <4>1, PhaseOfStatus DEF Serving
      <3>3. Joins("STOP")
        BY <1>u, <3>1, <3>2 DEF Joins, Expected
      <3> QED BY <2>3, <3>3, InOrderQueued
    <2> QED BY <2>4, <2>5
  <1> QED BY <1>1, <1>2, <1>3, <1>4

(* A poll marks the command it hands out, and may queue the STOP of an     *)
(* expired lease first, when no STOP was ever queued.                      *)
LEMMA InOrderPoll ==
    ASSUME Typed, Phase, InOrder, NEW c \in 1 .. MaxCommands, PollCommand(c) PROVE InOrder'
  <1>1. /\ c \in DOMAIN ExpiredStop /\ ExpiredStop[c].status \in Unfinished
        /\ cmds' = [ExpiredStop EXCEPT ![c].status = "DELIVERED"]
        /\ agent' = c /\ reports' = reports /\ asked' = asked
        /\ \A r \in Requests : asked[r] # "READ"
        /\ UNCHANGED <<contract, instance, delivery>>
    BY DEF PollCommand, Eligible, service, trouble
  <1>n. PICK n : n = Len(cmds) + 1
    OBVIOUS
  <1>c. cmds \in Seq(Command) /\ "STOP" \in CommandTypes
    BY DEF Typed, CommandTypes
  <1>f. Finished' = Finished
    BY <1>1 DEF Finished
  <1>2. /\ ExpiredStop \in Seq(Command) /\ DOMAIN cmds \subseteq DOMAIN ExpiredStop
        /\ \A d \in DOMAIN cmds : ExpiredStop[d] = cmds[d]
        /\ \A d \in DOMAIN ExpiredStop \ DOMAIN cmds :
             /\ d = n /\ ExpiredStop[d].type = "STOP" /\ contract = "IN_SERVICE"
             /\ \A e \in DOMAIN cmds : cmds[e].type # "STOP"
    <2>1. CASE ExpiredStop = cmds
      BY <1>c, <2>1
    <2>2. CASE ExpiredStop # cmds
      <3>1. /\ ExpiredStop = Queued(cmds, "STOP") /\ contract = "IN_SERVICE"
            /\ \A e \in DOMAIN cmds : cmds[e].type # "STOP"
        BY <2>2 DEF ExpiredStop
      <3>2. /\ ExpiredStop \in Seq(Command) /\ DOMAIN ExpiredStop = DOMAIN cmds \cup {n}
            /\ \A d \in DOMAIN cmds : ExpiredStop[d] = cmds[d]
            /\ ExpiredStop[n] = [type |-> "STOP", status |-> "PENDING"]
        BY <1>n, <1>c, <3>1, QueuedComesLast
      <3> QED BY <3>1, <3>2
    <2> QED BY <2>1, <2>2
  <1>3. /\ DOMAIN cmds' = DOMAIN ExpiredStop
        /\ \A d \in DOMAIN ExpiredStop : d # c => cmds'[d] = ExpiredStop[d]
        /\ cmds'[c].type = ExpiredStop[c].type /\ cmds'[c].status = "DELIVERED"
    <2>1. PICK q \in Seq(Command) : q = ExpiredStop
      BY <1>2
    <2>2. c \in DOMAIN q /\ cmds' = [q EXCEPT ![c].status = "DELIVERED"]
      BY <1>1, <2>1
    <2>3. "DELIVERED" \in Unfinished \cup {"SUCCEEDED", "FAILED"}
      BY DEF Unfinished
    <2> QED BY <2>1, <2>2, <2>3, MarkedAlone
  <1>4. ASSUME NEW d \in DOMAIN cmds
        PROVE  /\ Type(d)' = Type(d)
               /\ cmds'[d].status \in Unfinished => cmds[d].status \in Unfinished
               /\ cmds'[d].status = "PENDING" => cmds[d].status = "PENDING" /\ d # c
    <2>1. CASE d = c
      BY <1>1, <1>2, <1>3, <2>1 DEF Type
    <2>2. CASE d # c
      BY <1>2, <1>3, <2>2 DEF Type
    <2> QED BY <2>1, <2>2
  <1>5. ASSUME NEW d \in DOMAIN cmds' \ DOMAIN cmds
        PROVE  /\ d = n /\ Type(d)' = "STOP" /\ contract = "IN_SERVICE"
               /\ \A e \in DOMAIN cmds : Type(e) # "STOP"
    BY <1>2, <1>3 DEF Type
  <1>6. ASSUME NEW d \in DOMAIN cmds PROVE Fits(d)'
    <2>1. Fits(d)
      BY DEF InOrder
    <2>2. Expected(Type(d)) => Expected(Type(d))'
      BY <1>1, <1>4 DEF Expected
    <2> QED BY <1>1, <1>4, <1>f, <2>1, <2>2 DEF Fits
  <1>7. ASSUME NEW d \in DOMAIN cmds' \ DOMAIN cmds PROVE Fits(d)'
    <2>1. d # 1 /\ Type(d)' = "STOP" /\ \A m \in reports : m.cmd # d
      <3>1. \A m \in reports : m.cmd \in DOMAIN cmds
        BY DEF Typed
      <3> QED BY <1>5, <3>1 DEF InOrder
    <2>2. cmds'[d].status = "PENDING" => d # c
      BY <1>3
    <2>3. instance = "RUNNING"
      BY <1>5, PhaseOfStatus DEF Serving
    <2> QED BY <1>1, <2>1, <2>2, <2>3 DEF Fits, Expected
  <1>8. ASSUME NEW d \in DOMAIN cmds', NEW e \in DOMAIN cmds', Alike(d, e)' PROVE d = e
    <2>1. CASE d \in DOMAIN cmds /\ e \in DOMAIN cmds
      <3>1. Alike(d, e)
        BY <1>4, <1>8, <2>1 DEF Alike
      <3> QED BY <2>1, <3>1 DEF InOrder
    <2>2. CASE d \notin DOMAIN cmds /\ e \notin DOMAIN cmds
      BY <1>5, <2>2
    <2>3. CASE d \in DOMAIN cmds /\ e \notin DOMAIN cmds
      BY <1>4, <1>5, <1>8, <2>3 DEF Alike
    <2>4. CASE d \notin DOMAIN cmds /\ e \in DOMAIN cmds
      BY <1>4, <1>5, <1>8, <2>4 DEF Alike
    <2> QED BY <2>1, <2>2, <2>3, <2>4
  <1>9. StopsAreTimely'
    BY <1>1 DEF StopsAreTimely, Requests
  <1>10. 1 \in DOMAIN cmds'
    BY <1>2, <1>3 DEF InOrder
  <1>11. \A d \in DOMAIN cmds' : Fits(d)'
    BY <1>6, <1>7
  <1> QED BY <1>8, <1>9, <1>10, <1>11 DEF InOrder

(* The agent drops its command or reports on it, and touches no other.     *)
LEMMA MachineAttends ==
    ASSUME HostStep PROVE Attends
  <1> SUFFICES agent' \in {0, agent} /\ \A m \in reports' : m \in reports \/ m.cmd = agent
    BY DEF HostStep, Attends
  <1>1. \A c, ok : \A m \in Report(c, ok) : m \in reports \/ m.cmd = c
    BY DEF Report
  <1>2. ASSUME NEW c \in DOMAIN cmds, BeginWork(c) \/ FinishWork(c)
        PROVE  agent' = agent /\ reports' = reports
    BY <1>2 DEF BeginWork, FinishWork
  <1>3. ASSUME NEW c \in DOMAIN cmds, FailWork(c)
        PROVE  agent' \in {0, agent} /\ \A m \in reports' : m \in reports \/ m.cmd = agent
    <2>1. \/ agent = c /\ agent' = 0 /\ (reports' = reports \/ reports' = Report(c, FALSE))
          \/ agent' = agent /\ reports' = reports
      BY <1>3 DEF FailWork
    <2> QED BY <1>1, <2>1
  <1>4. ASSUME NEW c \in DOMAIN cmds, Refuse(c) \/ ReportSuccess(c)
        PROVE  agent' \in {0, agent} /\ \A m \in reports' : m \in reports \/ m.cmd = agent
    BY <1>1, <1>4 DEF Refuse, ReportSuccess
  <1>5. ASSUME AgentGivesUp \/ ActuatorCrash \/ Watchdog \/ Outage
        PROVE  agent' \in {0, agent} /\ reports' \subseteq reports
    BY <1>5 DEF AgentGivesUp, ActuatorCrash, Watchdog, Outage
  <1>6. ASSUME NEW m \in reports, LoseReport(m) PROVE agent' = agent /\ reports' \subseteq reports
    BY <1>6 DEF LoseReport
  <1> QED BY <1>2, <1>3, <1>4, <1>5, <1>6 DEF HostStep

(* The commands stay in order where money moves, a dispute begins or is    *)
(* decided, and where a finished service leaves the machine to be cleaned. *)
LEMMA InOrderOver ==
    ASSUME Typed, Phase, InOrder, [Next]_vars,
           \/ RefundFailedDelivery \/ QueueFailedDeliveryCleanup \/ WindowCloses \/ BuyerAccepts
           \/ MarkContractSettled \/ DisputeContract \/ ResolveHostingDispute \/ QueueDisputeCleanup
    PROVE  InOrder'
  <1>1. asked' = asked /\ agent' = agent /\ reports' = reports
    BY DEF RefundFailedDelivery, QueueFailedDeliveryCleanup, WindowCloses, BuyerAccepts, Settle,
       MarkContractSettled, DisputeContract, ResolveHostingDispute, QueueDisputeCleanup, hostVars
  <1>2. Undelivered \/ Served \/ Paid \/ Disputed \/ Returned
    <2>1. ASSUME RefundFailedDelivery PROVE Undelivered
      <3>1. delivery # NoFailure
        BY <2>1 DEF RefundFailedDelivery, NoFailure
      <3> QED BY <2>1, <3>1, PhaseOfStatus DEF RefundFailedDelivery, Serving, Reserved
    <2>2. ASSUME QueueFailedDeliveryCleanup PROVE Undelivered
      <3>1. delivery # NoFailure /\ delivery.status = "REFUNDED"
        BY <2>2 DEF QueueFailedDeliveryCleanup, NoFailure
      <3>2. contract \in {"FAILED", "CLEANING"}
        BY <2>2 DEF QueueFailedDeliveryCleanup
      <3> QED BY <3>1, <3>2, PhaseOfStatus DEF Serving, Reserved, Recovering, Cleaning, Metered
    <2>3. ASSUME WindowCloses \/ BuyerAccepts \/ DisputeContract PROVE Served
      BY <2>3, PhaseOfStatus DEF WindowCloses, BuyerAccepts, Settle, DisputeContract
    <2>4. ASSUME MarkContractSettled PROVE Paid
      BY <2>4, PhaseOfStatus DEF MarkContractSettled
    <2>5. ASSUME ResolveHostingDispute PROVE Disputed
      BY <2>5, PhaseOfStatus DEF ResolveHostingDispute
    <2>6. ASSUME QueueDisputeCleanup PROVE Paid \/ Returned
      <3>1. proposal # NoProposal
        BY <2>6 DEF QueueDisputeCleanup, NoProposal
      <3> QED BY <2>6, <3>1, PhaseOfStatus
              DEF QueueDisputeCleanup, Recovered, Untouched, Unserved, Closed, Over
    <2> QED BY <2>1, <2>2, <2>3, <2>4, <2>5, <2>6
  <1>3. contract \notin {"PROVISIONING", "READY", "CLEANING"} /\ instance # "RUNNING" /\ ~Finished
    BY <1>2 DEF Undelivered, Served, Paid, Disputed, Returned, Metered, NoFailure, Finished
  <1>4. Unhurried({}) /\ \A c \in DOMAIN cmds : Type(c) # "CLEANUP"
    BY <1>1, <1>3, UnhurriedIdle
  <1>5. CASE cmds' = cmds
    BY <1>1, <1>4, <1>5, InOrderKept DEF Attends
  <1>6. CASE cmds' # cmds
    <2>1. contract' = "CLEANING" /\ cmds' = Queued(cmds, "CLEANUP")
      BY <1>6 DEF RefundFailedDelivery, QueueFailedDeliveryCleanup, WindowCloses, BuyerAccepts, Settle,
         MarkContractSettled, DisputeContract, ResolveHostingDispute, QueueDisputeCleanup
    <2>2. Active("CLEANUP") = {}
      BY <1>4 DEF Active, Type
    <2>3. Joins("CLEANUP")
      BY <1>1, <2>1, <2>2 DEF Joins, Expected
    <2> QED BY <1>4, <2>3, InOrderQueued
  <1> QED BY <1>5, <1>6

(* And where a command that failed is queued again.                        *)
LEMMA InOrderAgain ==
    ASSUME Typed, Phase, InOrder, [Next]_vars,
           QueueFailedStopRecovery \/ RetryFailedStop \/ RetryCleanup
    PROVE  InOrder'
  <1>1. UNCHANGED <<asked, agent, reports, contract, instance, delivery>>
    BY DEF QueueFailedStopRecovery, RetryFailedStop, RetryCleanup, hostVars, service, trouble
  <1>2. Unhurried({})
    BY <1>1, CommandsStay, UnhurriedStill
  <1>3. ASSUME QueueFailedStopRecovery \/ RetryFailedStop PROVE InOrder'
    <2>1. instance = "RUNNING"
      BY <1>3, PhaseOfStatus DEF QueueFailedStopRecovery, RetryFailedStop, Undelivered, Untouched, Serving
    <2>2. CASE cmds' = cmds
      BY <1>1, <1>2, <2>2, InOrderKept DEF Attends
    <2>3. CASE cmds' # cmds
      <3>1. Active("STOP") = {} /\ cmds' = Queued(cmds, "STOP")
        BY <1>3, <2>3 DEF QueueFailedStopRecovery, RetryFailedStop
      <3>2. Joins("STOP")
        BY <1>1, <2>1, <3>1 DEF Joins, Expected
      <3> QED BY <1>2, <3>2, InOrderQueued
    <2> QED BY <2>2, <2>3
  <1>4. ASSUME RetryCleanup PROVE InOrder'
    <2>1. contract = "CLEANING" /\ cmds' = Queued(cmds, "CLEANUP") /\ Active("CLEANUP") = {}
      BY <1>4 DEF RetryCleanup, Active, Unfinished
    <2>2. Joins("CLEANUP")
      BY <1>1, <2>1 DEF Joins, Expected
    <2> QED BY <1>2, <2>2, InOrderQueued
  <1> QED BY <1>3, <1>4

(* An emergency retirement leaves nothing in hand.                         *)
LEMMA InOrderRetired ==
    ASSUME Typed, InOrder, RetireDevice PROVE InOrder'
  <1>1. UNCHANGED <<asked, agent, reports, contract, instance, delivery>>
    BY DEF RetireDevice, hostVars, service, trouble
  <1>2. /\ DOMAIN cmds' = DOMAIN cmds
        /\ \A c \in DOMAIN cmds : Type(c)' = Type(c) /\ cmds'[c].status \notin Unfinished
    <2>1. PICK q \in Seq(Command) : q = cmds
      BY DEF Typed
    <2>2. cmds' = [c \in DOMAIN q |-> IF q[c].status \in Unfinished
                                      THEN [q[c] EXCEPT !.status = "FAILED"] ELSE q[c]]
      BY <2>1 DEF RetireDevice
    <2> QED BY <2>1, <2>2, RetirementFailsAll DEF Type
  <1>3. Finished' = Finished
    BY <1>1 DEF Finished
  <1>4. ASSUME NEW c \in DOMAIN cmds PROVE Fits(c)'
    BY <1>1, <1>2, <1>3 DEF InOrder, Fits, Unfinished
  <1>5. ASSUME NEW c \in DOMAIN cmds, NEW d \in DOMAIN cmds, Alike(c, d)' PROVE c = d
    <2>1. Alike(c, d)
      BY <1>2, <1>5 DEF Alike
    <2> QED BY <2>1 DEF InOrder
  <1>6. StopsAreTimely'
    BY <1>1, <1>2 DEF InOrder, StopsAreTimely, Active
  <1> QED BY <1>2, <1>4, <1>5, <1>6 DEF InOrder

(* Every step keeps the commands in order.                                 *)
LEMMA InOrderStep ==
    ASSUME Typed, Phase, InOrder, ~StartedTwice', [Next]_vars PROVE InOrder'
  <1>k. ASSUME UNCHANGED <<contract, instance, delivery, asked>>, Attends PROVE InOrder'
    <2>1. Unhurried({})
      BY <1>k, CommandsStay, UnhurriedStill
    <2> QED BY <1>k, <2>1, InOrderKept
  <1>s. ASSUME UNCHANGED <<contract, instance, delivery, asked, cmds, agent, reports>> PROVE InOrder'
    BY <1>k, <1>s DEF Attends
  <1>1. ASSUME HostStep PROVE InOrder'
    BY <1>1, <1>k, MachineAttends DEF HostStep, service, trouble
  <1>2. ASSUME LeaseEnds \/ WindowEnds \/ UnlistOffer PROVE InOrder'
    BY <1>2, <1>s DEF LeaseEnds, WindowEnds, UnlistOffer, service, trouble, hostVars
  <1>3. ASSUME NEW offline \in BOOLEAN, NEW changed \in BOOLEAN, Heartbeat(offline, changed)
        PROVE  InOrder'
    BY <1>3, <1>s DEF Heartbeat, service, trouble, hostVars
  <1>4. ASSUME \/ \E resolution \in {"REFUND", "SETTLE"} : RequestDisputeResolution(resolution)
               \/ \E status \in {"APPROVED", "REJECTED"} : DecideDisputeResolution(status)
        PROVE  InOrder'
    BY <1>4, <1>s DEF RequestDisputeResolution, DecideDisputeResolution, service, hostVars
  <1>5. ASSUME UNCHANGED vars PROVE InOrder'
    BY <1>5, <1>s DEF vars, service, trouble, hostVars
  <1>6. ASSUME NEW m \in reports, Receive(m) PROVE InOrder'
    BY <1>6, InOrderReceive
  <1>7. ASSUME NEW r \in StartRequests, BeginStart(r) \/ PostStart(r) PROVE InOrder'
    BY <1>7, InOrderRequests DEF Requests
  <1>8. ASSUME NEW r \in StopRequests, BeginStop(r) \/ PostStop(r) PROVE InOrder'
    BY <1>8, InOrderRequests DEF Requests
  <1>9. ASSUME NEW c \in 1 .. MaxCommands, PollCommand(c) PROVE InOrder'
    BY <1>9, InOrderPoll
  <1> QED BY <1>1, <1>2, <1>3, <1>4, <1>5, <1>6, <1>7, <1>8, <1>9, InOrderOver, InOrderAgain,
             InOrderRetired
          DEF Next, Course, Interference, PollStep, DisputeStep

(* The contract begins waiting for its machine, with one command queued.   *)
LEMMA InOrderInit == Init => Phase /\ InOrder
  <1> SUFFICES ASSUME Init PROVE Phase /\ InOrder
    OBVIOUS
  <1>1. DOMAIN cmds = {1} /\ cmds[1] = [type |-> "PROVISION", status |-> "PENDING"]
    <2>1. << >> \in Seq(Command) /\ "PROVISION" \in CommandTypes
      BY DEF CommandTypes
    <2>2. cmds = Queued(<< >>, "PROVISION")
      BY DEF Init
    <2>3. /\ DOMAIN Queued(<< >>, "PROVISION") = DOMAIN << >> \cup {Len(<< >>) + 1}
          /\ Queued(<< >>, "PROVISION")[Len(<< >>) + 1] = [type |-> "PROVISION", status |-> "PENDING"]
      BY <2>1, QueuedComesLast
    <2>4. DOMAIN << >> = {} /\ Len(<< >>) + 1 = 1
      OBVIOUS
    <2> QED BY <2>2, <2>3, <2>4
  <1>2. Waiting
    BY DEF Init, Waiting, Unserved, Reserved
  <1>3. Fits(1)
    BY <1>1 DEF Init, Fits, Type, Expected
  <1>4. StopsAreTimely
    BY DEF Init, StopsAreTimely, Requests
  <1> QED BY <1>1, <1>2, <1>3, <1>4 DEF Phase, InOrder

-----------------------------------------------------------------------------
(* Money and the escrow. One inductive invariant carries both: the books   *)
(* and the evidence on the machine, and for a contract that is started     *)
(* once the phases and the order of the commands.                          *)
OnCourse ==
    /\ Typed /\ Evidence /\ Books
    /\ ~StartedTwice => Phase /\ InOrder

(* The course holds from the first state on and every step keeps it.       *)
LEMMA CourseIsInductive ==
    /\ Init => OnCourse
    /\ OnCourse /\ [Next]_vars => OnCourse'
  <1>1. Init => OnCourse
    <2>1. ASSUME Init PROVE Books
      <3>1. Phase /\ InOrder
        BY <2>1, InOrderInit
      <3>2. \A c \in DOMAIN cmds : Type(c) # "CLEANUP"
        BY <2>1, <3>1 DEF Init, InOrder, Fits, Finished
      <3> QED BY <2>1, <3>2 DEF Init, Books, Spent, NoFailure
    <2> QED BY <2>1, TypedInit, EvidenceInit, InOrderInit DEF OnCourse
  <1>2. ASSUME OnCourse, [Next]_vars PROVE OnCourse'
    <2>1. Typed' /\ Evidence' /\ Books'
      BY <1>2, TypedStep, EvidenceStep, BooksStep DEF OnCourse
    <2>2. ASSUME ~StartedTwice' PROVE Phase' /\ InOrder'
      <3>1. Phase /\ InOrder
        BY <1>2, <2>2, SecondStart DEF OnCourse
      <3> QED BY <1>2, <2>2, <3>1, PhaseStep, InOrderStep DEF OnCourse
    <2> QED BY <2>1, <2>2 DEF OnCourse
  <1> QED BY <1>1, <1>2

(* Whatever fails or arrives late, for any number of faults and requests:  *)
(* no supplier is paid while the container still runs, and no buyer is     *)
(* refunded in full for a service on record unless two START commands      *)
(* were queued.                                                            *)
THEOREM MoneyIsSound == Spec => []MoneyFollowsService
  <1>1. OnCourse => MoneyFollowsService
    <2> SUFFICES ASSUME OnCourse PROVE MoneyFollowsService
      OBVIOUS
    <2>1. RefundedNeverServed
      BY DEF OnCourse, Phase, RefundedNeverServed, Waiting, Ready, Serving, Undelivered, Recovering,
         Recovered, Served, Disputed, Paid, Returned, Cleaning, Closed, Reserved, Metered, NoFailure
    <2>2. hold = "SETTLED" => metered
      BY DEF OnCourse, Books
    <2> QED BY <2>1, <2>2 DEF OnCourse, Evidence, Halted, MoneyFollowsService
  <1> QED BY <1>1, CourseIsInductive, PTL DEF Spec

(* The service as the escrow sees it.                                      *)
OnRecord == IF metered THEN "METERED" ELSE IF instance = "RUNNING" THEN "RUNNING" ELSE "NONE"

(* While card-hours and service stay, the listing may be withdrawn, and be *)
(* published again once the card-hours are settled or returned.            *)
LEMMA SaleSteps ==
    ASSUME UNCHANGED <<hold, OnRecord, StartedTwice>>,
           offer' = "PUBLISHED" => offer = "PUBLISHED" \/ hold # "HELD"
    PROVE  [Escrow!Next]_Escrow!vars
  <1>1. CASE (offer' = "PUBLISHED") = (offer = "PUBLISHED")
    BY <1>1 DEF Escrow!vars, OnRecord
  <1>2. CASE offer' = "PUBLISHED" /\ offer # "PUBLISHED"
    BY <1>2 DEF Escrow!Next, Escrow!Relist, OnRecord
  <1>3. CASE offer' # "PUBLISHED" /\ offer = "PUBLISHED"
    BY <1>3 DEF Escrow!Next, Escrow!Withdraw, OnRecord
  <1> QED BY <1>1, <1>2, <1>3

(* A start request moves nothing the escrow sees, but may be the second.   *)
LEMMA RepeatSteps ==
    ASSUME Typed, [Next]_vars, NEW r \in StartRequests, PostStart(r)
    PROVE  [Escrow!Next]_Escrow!vars
  <1>1. UNCHANGED <<hold, metered, instance, offer>>
    BY DEF PostStart, service, money, market
  <1>2. CASE StartedTwice' = StartedTwice
    BY <1>1, <1>2 DEF Escrow!vars
  <1>3. CASE StartedTwice' # StartedTwice
    <2>1. StartedTwice' = TRUE /\ StartedTwice = FALSE
      BY <1>3, SecondStart DEF StartedTwice
    <2> QED BY <1>1, <2>1 DEF Escrow!Next, Escrow!Repeat
  <1> QED BY <1>2, <1>3

(* Every step of the delivery is a step of the escrow or none.             *)
LEMMA EscrowStep ==
    ASSUME OnCourse, [Next]_vars PROVE [Escrow!Next]_Escrow!vars
  <1>r. SUFFICES ASSUME ~\E r \in StartRequests : PostStart(r) PROVE [Escrow!Next]_Escrow!vars
    BY RepeatSteps DEF OnCourse
  <1>p. Typed /\ Books /\ (~StartedTwice => Phase /\ InOrder)
    BY DEF OnCourse
  <1>t. StartedTwice' = StartedTwice
    BY <1>r, <1>p, SecondStart DEF StartedTwice
  <1>s. ASSUME UNCHANGED <<hold, metered, instance, offer>> PROVE [Escrow!Next]_Escrow!vars
    BY <1>s, <1>t, SaleSteps DEF OnRecord
  <1>w. ASSUME UNCHANGED <<hold, metered, instance>>, offer' = "PUBLISHED" => offer = "PUBLISHED"
        PROVE  [Escrow!Next]_Escrow!vars
    BY <1>w, <1>t, SaleSteps DEF OnRecord
  <1>1. ASSUME NEW m \in reports, Provisioned(m) PROVE [Escrow!Next]_Escrow!vars
    <2>1. UNCHANGED <<hold, metered, offer>> /\ OnRecord' = OnRecord
      BY <1>1 DEF Provisioned, ProvisionFits, money, OnRecord
    <2> QED BY <1>t, <2>1, SaleSteps
  <1>2. ASSUME NEW m \in reports, Started(m) PROVE [Escrow!Next]_Escrow!vars
    <2>1. contract = "READY" /\ instance = "READY" /\ hold = "HELD" /\ ~metered
      BY <1>2, <1>p DEF Started, StartFits, Books
    <2>2. Escrow!Serve
      BY <1>2, <1>t, <2>1 DEF Started, money, market, Escrow!Serve
    <2> QED BY <2>2 DEF Escrow!Next
  <1>3. ASSUME NEW m \in reports, Stopped(m) PROVE [Escrow!Next]_Escrow!vars
    <2>1. instance = "RUNNING" /\ ~metered
      BY <1>3, <1>p DEF Stopped, StopFits, Books
    <2>2. hold = "HELD" \/ StartedTwice
      BY <1>p, <2>1, PhaseOfStatus DEF Serving, Reserved
    <2>3. Escrow!Meter
      BY <1>3, <1>t, <2>1, <2>2 DEF Stopped, money, market, Escrow!Meter
    <2> QED BY <2>3 DEF Escrow!Next
  <1>4. ASSUME NEW m \in reports, Cleaned(m) PROVE [Escrow!Next]_Escrow!vars
    <2>2. UNCHANGED <<hold, metered>> /\ hold # "HELD"
      BY <1>4, <1>p DEF Cleaned, CleanupFits, money, Books, Spent
    <2>3. OnRecord' = OnRecord
      <3>1. instance # "RUNNING" /\ instance' # "RUNNING"
        BY <1>4 DEF Cleaned, CleanupFits
      <3> QED BY <2>2, <3>1 DEF OnRecord
    <2> QED BY <1>t, <2>2, <2>3, SaleSteps
  <1>5. ASSUME NEW m \in reports, RecordFailure(m) PROVE [Escrow!Next]_Escrow!vars
    BY <1>5, <1>w DEF RecordFailure, money
  <1>6. ASSUME NEW m \in reports, RejectReport(m) PROVE [Escrow!Next]_Escrow!vars
    BY <1>6, <1>s DEF RejectReport, service, money, market
  <1>7. ASSUME RefundFailedDelivery PROVE [Escrow!Next]_Escrow!vars
    <2>1. instance # "RUNNING" \/ StartedTwice
      <3>1. delivery # NoFailure
        BY <1>7 DEF RefundFailedDelivery, NoFailure
      <3> QED BY <1>p, <3>1, PhaseOfStatus DEF Serving, Reserved
    <2>2. Escrow!Return
      BY <1>7, <1>t, <2>1 DEF RefundFailedDelivery, service, market, Escrow!Return
    <2> QED BY <2>2 DEF Escrow!Next
  <1>8. ASSUME WindowCloses \/ BuyerAccepts PROVE [Escrow!Next]_Escrow!vars
    <2>1. Escrow!Pay
      BY <1>8, <1>t DEF WindowCloses, BuyerAccepts, Settle, market, Escrow!Pay
    <2> QED BY <2>1 DEF Escrow!Next
  <1>9. ASSUME ResolveHostingDispute PROVE [Escrow!Next]_Escrow!vars
    <2>1. metered /\ hold = "HELD"
      BY <1>9, <1>p DEF ResolveHostingDispute, Books
    <2>2. Escrow!Pay \/ Escrow!Return
      BY <1>9, <1>t, <2>1 DEF ResolveHostingDispute, market, Escrow!Pay, Escrow!Return
    <2> QED BY <2>2 DEF Escrow!Next
  <1>10. ASSUME DisputeContract \/ RetireDevice \/ UnlistOffer
                \/ \E offline, changed \in BOOLEAN : Heartbeat(offline, changed)
         PROVE  [Escrow!Next]_Escrow!vars
    BY <1>10, <1>w DEF DisputeContract, RetireDevice, UnlistOffer, Heartbeat, service, money
  <1>11. ASSUME \/ QueueFailedDeliveryCleanup \/ QueueFailedStopRecovery \/ MarkContractSettled
                \/ QueueDisputeCleanup \/ RetryCleanup \/ RetryFailedStop \/ LeaseEnds \/ WindowEnds
                \/ HostStep \/ UNCHANGED vars
                \/ \E resolution \in {"REFUND", "SETTLE"} : RequestDisputeResolution(resolution)
                \/ \E status \in {"APPROVED", "REJECTED"} : DecideDisputeResolution(status)
         PROVE  [Escrow!Next]_Escrow!vars
    BY <1>11, <1>s DEF QueueFailedDeliveryCleanup, QueueFailedStopRecovery, MarkContractSettled,
       QueueDisputeCleanup, RetryCleanup, RetryFailedStop, LeaseEnds, WindowEnds, HostStep, vars,
       RequestDisputeResolution, DecideDisputeResolution, service, money, market
  <1>12. ASSUME NEW r \in Requests, BeginStart(r) \/ PostStart(r) \/ BeginStop(r) \/ PostStop(r)
         PROVE  [Escrow!Next]_Escrow!vars
    BY <1>12, <1>s DEF BeginStart, PostStart, BeginStop, PostStop, service, money, market
  <1>13. ASSUME NEW c \in 1 .. MaxCommands, PollCommand(c) PROVE [Escrow!Next]_Escrow!vars
    BY <1>13, <1>s DEF PollCommand, service, money, market
  <1> QED BY <1>1, <1>2, <1>3, <1>4, <1>5, <1>6, <1>7, <1>8, <1>9, <1>10, <1>11, <1>12, <1>13
          DEF Next, Course, Interference, PollStep, DisputeStep, Receive, Requests

(* Card-hours that are paid or returned are never touched again.           *)
LEMMA HoldEnds ==
    ASSUME [Next]_vars, hold # "HELD" PROVE hold' = hold
  <1>1. ASSUME NEW m \in reports, Receive(m) PROVE hold' = hold
    BY <1>1 DEF Receive, Provisioned, Started, Stopped, Cleaned, RecordFailure, RejectReport, money
  <1>2. ASSUME NEW r \in Requests, BeginStart(r) \/ PostStart(r) \/ BeginStop(r) \/ PostStop(r)
        PROVE  hold' = hold
    BY <1>2 DEF BeginStart, PostStart, BeginStop, PostStop, money
  <1>3. ASSUME NEW c \in 1 .. MaxCommands, PollCommand(c) PROVE hold' = hold
    BY <1>3 DEF PollCommand, money
  <1>4. ASSUME PollStep \/ BuyerAccepts \/ MarkContractSettled PROVE hold' = hold
    BY <1>4 DEF PollStep, WindowCloses, BuyerAccepts, Settle, MarkContractSettled,
       RefundFailedDelivery, QueueFailedDeliveryCleanup, QueueFailedStopRecovery, money
  <1>5. ASSUME DisputeStep PROVE hold' = hold
    BY <1>5 DEF DisputeStep, DisputeContract, RequestDisputeResolution, DecideDisputeResolution,
       ResolveHostingDispute, QueueDisputeCleanup, money
  <1>6. ASSUME \/ \E offline, changed \in BOOLEAN : Heartbeat(offline, changed)
               \/ HostStep \/ LeaseEnds \/ WindowEnds \/ RetryCleanup \/ RetryFailedStop
               \/ RetireDevice \/ UnlistOffer \/ UNCHANGED vars
        PROVE  hold' = hold
    BY <1>6 DEF Heartbeat, HostStep, LeaseEnds, WindowEnds, RetryCleanup, RetryFailedStop,
       RetireDevice, UnlistOffer, vars, money
  <1> QED BY <1>1, <1>2, <1>3, <1>4, <1>5, <1>6 DEF Next, Course, Interference, Requests

(* Nothing that arrives late moves a contract that was started once and is *)
(* over.                                                                   *)
LEMMA FinishedStays ==
    ASSUME OnCourse, ~StartedTwice, [Next]_vars, Finished PROVE contract' = contract
  <1>p. Phase /\ Typed /\ InOrder
    BY DEF OnCourse
  <1>f. Recovered \/ Closed
    BY <1>p, PhaseOfStatus
  <1>c. contract \in {"CLEANED", "REFUNDED"} /\ hold # "HELD" /\ instance # "RUNNING"
    BY <1>f DEF Recovered, Closed
  <1>1. ASSUME NEW m \in reports, Receive(m) PROVE contract' = contract
    <2>1. cmds[m.cmd].status \notin Unfinished
      <3>1. m.cmd \in DOMAIN cmds
        BY <1>p DEF Typed
      <3> QED BY <1>p, <1>c, <3>1, NothingInHand
    <2>2. RejectReport(m)
      BY <1>1, <2>1 DEF Receive, Provisioned, ProvisionFits, Started, StartFits, Stopped, StopFits,
         Cleaned, CleanupFits, RecordFailure, FailureFits, Open
    <2> QED BY <2>2 DEF RejectReport, service
  <1>2. ASSUME NEW r \in Requests, BeginStart(r) \/ PostStart(r) \/ BeginStop(r) \/ PostStop(r)
        PROVE  contract' = contract
    BY <1>2 DEF BeginStart, PostStart, BeginStop, PostStop, service
  <1>3. ASSUME NEW c \in 1 .. MaxCommands, PollCommand(c) PROVE contract' = contract
    BY <1>3 DEF PollCommand, service
  <1>4. ASSUME PollStep \/ BuyerAccepts \/ MarkContractSettled PROVE FALSE
    BY <1>4, <1>c DEF PollStep, WindowCloses, BuyerAccepts, Settle, MarkContractSettled,
       RefundFailedDelivery, QueueFailedDeliveryCleanup, QueueFailedStopRecovery
  <1>5. ASSUME DisputeContract \/ ResolveHostingDispute \/ QueueDisputeCleanup PROVE FALSE
    <2>1. proposal.status = "APPLIED" => proposal.queued
      BY <1>f DEF Recovered, Closed, Untouched, Unserved, NoProposal, Over
    <2> QED BY <1>5, <1>c, <2>1 DEF DisputeContract, ResolveHostingDispute, QueueDisputeCleanup
  <1>6. ASSUME \/ \E resolution \in {"REFUND", "SETTLE"} : RequestDisputeResolution(resolution)
               \/ \E status \in {"APPROVED", "REJECTED"} : DecideDisputeResolution(status)
               \/ \E offline, changed \in BOOLEAN : Heartbeat(offline, changed)
               \/ HostStep \/ LeaseEnds \/ WindowEnds \/ RetryCleanup \/ RetryFailedStop
               \/ RetireDevice \/ UnlistOffer \/ UNCHANGED vars
        PROVE  contract' = contract
    BY <1>6 DEF RequestDisputeResolution, DecideDisputeResolution, Heartbeat, HostStep, LeaseEnds,
       WindowEnds, RetryCleanup, RetryFailedStop, RetireDevice, UnlistOffer, vars, service
  <1> QED BY <1>1, <1>2, <1>3, <1>4, <1>5, <1>6 DEF Next, Course, Interference, DisputeStep, Requests

(* The delivery implements the escrow for any number of faults and         *)
(* requests: the card-hours are paid once, after metering, or returned     *)
(* once, and while the service is on record only where two START commands  *)
(* were queued; and a finished contract, with its card-hours, is left be.  *)
THEOREM EscrowIsKept == Spec => ImplementsEscrow
  <1>1. Init => Escrow!Init
    <2>1. ASSUME Init PROVE ~StartedTwice
      <3>1. InOrder
        BY <2>1, InOrderInit
      <3>2. \A c \in DOMAIN cmds : Type(c) # "START" \/ c = 1
        BY <2>1, <3>1 DEF Init, Queued
      <3> QED BY <3>1, <3>2 DEF InOrder, Fits, StartedTwice
    <2> QED BY <2>1 DEF Init, Escrow!Init, StartedTwice
  <1>2. OnCourse /\ [Next]_vars => [Escrow!Next]_Escrow!vars
    BY EscrowStep
  <1>3. OnCourse /\ [Next]_vars
          => [Finished => hold' = hold /\ (contract' = contract \/ StartedTwice)]_vars
    <2>1. ASSUME OnCourse, [Next]_vars, Finished
          PROVE  hold' = hold /\ (contract' = contract \/ StartedTwice)
      <3>1. hold # "HELD"
        BY <2>1 DEF OnCourse, Books, Spent, Finished
      <3> QED BY <2>1, <3>1, HoldEnds, FinishedStays
    <2> QED BY <2>1
  <1> QED BY <1>1, <1>2, <1>3, CourseIsInductive, PTL DEF Spec, ImplementsEscrow, Escrow!Spec
=============================================================================
