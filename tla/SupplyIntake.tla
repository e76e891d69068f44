---------------------------- MODULE SupplyIntake ----------------------------
(* How a supplier's machines come to be sold as trials                      *)
(* (supply-store-core.ts): pools and their nodes, components, the agent of  *)
(* a node, verification jobs, hours a node is free, and the promotion that  *)
(* puts hours on sale, up to where the orders of SupplyPayments begin.      *)
(*                                                                          *)
(* A handler reads, then posts one batch. A call keeps what it read only    *)
(* where the batch does not read it again: every other handler is one       *)
(* action. A call may end between its two steps, and a key that is known is *)
(* answered from its receipt. One supplier, whose machines these are.       *)
EXTENDS Integers, FiniteSetsExt, Functions

CONSTANTS
    Pools, Nodes,     \* external references of pools and nodes
    Jobs,             \* verification jobs
    Spans,            \* [start, end] of the hours a node is free
    Untils,           \* valid_until of a job that passes
    Calls,            \* calls under way at once
    MaxHours,         \* node-hours a pool may have on sale
    MaxStretch,       \* from the first of them to the last
    MaxParts,         \* bound: components registered for a node
    MaxBatch          \* bound: windows of one batch

ASSUME IntakeAssumption ==
    /\ Spans \subseteq [start : Nat, end : Nat] /\ \A s \in Spans : s.start < s.end
    /\ {MaxHours, MaxStretch, MaxParts, MaxBatch} \subseteq Nat /\ Untils \subseteq Nat
    /\ IsFiniteSet(Nodes) /\ IsFiniteSet(Spans)

VARIABLES
    pools,      \* supply_asset_pools
    nodes,      \* supply_asset_members
    parts,      \* supply_asset_components of a node: eight GPUs, and others
    agents,     \* supply_agent_enrollments of a node
    jobs,       \* supply_verification_jobs, and whether the evidence is there
    windows,    \* supply_availability_windows
    promotions, \* supply_promotions, by their window
    bindings,   \* supply_exchange_bindings, by their window
    calls       \* local state of the calls

intakeVars == <<pools, nodes, parts, agents, jobs, windows, promotions, bindings, calls>>
register == <<pools, nodes, parts, agents>>
offered  == <<windows, promotions, bindings>>

Slots == Nodes \X Spans
Batches(set) == {b \in SUBSET set : b # {} /\ Cardinality(b) <= MaxBatch}
NodeBatches == Batches(Nodes)
SlotBatches == Batches(Slots)

NoPool == [kind |-> "none"]
NoNode == [status |-> "NONE"]
NoJob  == [status |-> "NONE"]
NoCall == [step |-> "none"]

IntakeInit ==
    /\ pools = [p \in Pools |-> NoPool]
    /\ nodes = [n \in Nodes |-> NoNode]
    /\ parts = [n \in Nodes |-> <<>>]
    /\ agents = [n \in Nodes |-> "NONE"]
    /\ jobs = [j \in Jobs |-> NoJob]
    /\ windows = <<>> /\ promotions = <<>> /\ bindings = <<>>
    /\ calls = [c \in Calls |-> NoCall]

Begin(c, call) == calls[c] = NoCall /\ calls' = [calls EXCEPT ![c] = call]
End(c) == calls' = [calls EXCEPT ![c] = NoCall]

(* The process dies, or a batch is refused.                                *)
CallEnds(c) ==
    /\ calls[c] # NoCall
    /\ End(c)
    /\ UNCHANGED <<register, jobs, offered>>

-----------------------------------------------------------------------------
(* What a supplier declares.                                               *)

CreatePool(p, kind) ==
    /\ pools[p] = NoPool
    /\ pools' = [pools EXCEPT ![p] = [kind |-> kind, status |-> "DRAFT"]]
    /\ UNCHANGED <<nodes, parts, agents, jobs, offered, calls>>

Declared(p) == [pool |-> p, status |-> "DECLARED", until |-> 0]

BatchMembers(p, batch) ==
    /\ pools[p] # NoPool
    /\ \A n \in batch : nodes[n] # NoNode => nodes[n].pool = p
    /\ nodes' = [n \in Nodes |-> IF n \in batch /\ nodes[n] = NoNode THEN Declared(p) ELSE nodes[n]]
    /\ nodes' # nodes
    /\ UNCHANGED <<pools, parts, agents, jobs, offered, calls>>

(* The pool of a group of Macs is made with its first members.             *)
ImportMacInventory(p, batch) ==
    /\ pools[p].kind \in {"none", "MAC_MINI"}
    /\ pools' = [pools EXCEPT ![p] = IF @ = NoPool THEN [kind |-> "MAC_MINI", status |-> "DRAFT"] ELSE @]
    /\ nodes' = [n \in Nodes |-> IF n \in batch /\ nodes[n] = NoNode THEN Declared(p) ELSE nodes[n]]
    /\ <<pools, nodes>>' # <<pools, nodes>>
    /\ UNCHANGED <<parts, agents, jobs, offered, calls>>

BatchComponents(n, part) ==
    /\ nodes[n] # NoNode /\ part \notin DOMAIN parts[n] /\ Cardinality(DOMAIN parts[n]) < MaxParts
    /\ parts' = [parts EXCEPT ![n] = [x \in DOMAIN @ \cup {part} |->
                                         IF x = part THEN "DECLARED" ELSE @[x]]]
    /\ UNCHANGED <<pools, nodes, agents, jobs, offered, calls>>

CreateEnrollment(n) ==
    /\ nodes[n] # NoNode /\ agents[n] = "NONE"
    /\ agents' = [agents EXCEPT ![n] = "PENDING"]
    /\ UNCHANGED <<pools, nodes, parts, jobs, offered, calls>>

(* A machine that was rejected is online again with its next heartbeat.    *)
Heartbeat(n) ==
    /\ agents[n] # "NONE"
    /\ agents' = [agents EXCEPT ![n] = "ACTIVE"]
    /\ nodes' = [nodes EXCEPT ![n].status = IF @ = "VERIFIED" THEN @ ELSE "ONLINE"]
    /\ UNCHANGED <<pools, parts, jobs, offered, calls>>

-----------------------------------------------------------------------------
(* Verification.                                                           *)

CreateVerificationJob(j, n) ==
    /\ jobs[j] = NoJob /\ nodes[n] # NoNode
    /\ jobs' = [jobs EXCEPT ![j] = [status |-> "PENDING", node |-> n, until |-> 0, proven |-> FALSE]]
    /\ UNCHANGED <<register, offered, calls>>

(* Evidence that was on its way may still be entered after the decision,  *)
(* where nothing reads it.                                                 *)
AddVerificationEvidence(j) ==
    /\ jobs[j].status = "PENDING" /\ ~jobs[j].proven
    /\ jobs' = [jobs EXCEPT ![j].proven = TRUE]
    /\ UNCHANGED <<register, offered, calls>>

(* h100EvidenceValid, macEvidenceValid: of an H100 node, eight GPUs and no *)
(* more; of any node, evidence of each type.                               *)
EvidenceValid(j) ==
    /\ jobs[j].proven
    /\ pools[nodes[jobs[j].node].pool].kind = "H100_8X_NODE" => DOMAIN parts[jobs[j].node] = {"gpus"}

ReadForDecision(c, j, decision, until) ==
    /\ jobs[j].status = "PENDING"
    /\ decision = "PASSED" => EvidenceValid(j)
    /\ Begin(c, [step |-> "decision", j |-> j, decision |-> decision,
                until |-> IF decision = "PASSED" THEN until ELSE 0])
    /\ UNCHANGED <<register, jobs, offered>>

Suspended(table, n) ==
    [w \in DOMAIN table |-> IF w[1] = n THEN "SUSPENDED" ELSE table[w]]

(* What the decision writes.                                               *)
Decide(c) ==
    LET j      == calls[c].j
        n      == jobs[j].node
        passed == calls[c].decision = "PASSED"
        status == IF passed THEN "VERIFIED" ELSE "REJECTED"
    IN /\ jobs' = [jobs EXCEPT ![j].status = calls[c].decision, ![j].until = calls[c].until]
       /\ nodes' = [nodes EXCEPT ![n].status = status, ![n].until = calls[c].until]
       /\ parts' = [parts EXCEPT ![n] = [x \in DOMAIN @ |-> status]]
       /\ pools' = IF passed THEN [pools EXCEPT ![nodes[n].pool].status = "ACTIVE"] ELSE pools
       /\ promotions' = IF passed THEN promotions ELSE Suspended(promotions, n)
       /\ bindings' = IF passed THEN bindings ELSE Suspended(bindings, n)

(* Mutant: the batch trusts the job that was read.                         *)
CompleteVerificationUntested(c) ==
    /\ calls[c].step = "decision"
    /\ Decide(c)
    /\ End(c)
    /\ UNCHANGED <<agents, windows>>
CompleteVerification(c) ==
    /\ calls[c].step = "decision" /\ jobs[calls[c].j].status = "PENDING"
    /\ Decide(c)
    /\ End(c)
    /\ UNCHANGED <<agents, windows>>

-----------------------------------------------------------------------------
(* Hours on offer.                                                         *)

(* The rows of a batch, inserted or brought to a status together.          *)
Entered(table, batch, status) ==
    [w \in DOMAIN table \cup batch |-> IF w \in batch THEN status ELSE table[w]]

Clash(v, w) == v[1] = w[1] /\ v[2].start < w[2].end /\ w[2].start < v[2].end
Covered(w) == nodes[w[1]].status = "VERIFIED" /\ nodes[w[1]].until >= w[2].end

ReadForWindows(c, p, batch) ==
    /\ calls[c] = NoCall
    /\ \A w \in batch : Covered(w) /\ nodes[w[1]].pool = p
    /\ \A v, w \in batch : v # w => ~Clash(v, w)
    /\ Begin(c, [step |-> "windows", batch |-> batch])
    /\ UNCHANGED <<register, jobs, offered>>

(* Mutant of BatchAvailability: only the same hours are looked for.        *)
BatchAvailabilityUnlessSame(c) ==
    /\ calls[c].step = "windows"
    /\ calls[c].batch \cap DOMAIN windows = {}
    /\ windows' = Entered(windows, calls[c].batch, "AVAILABLE")
    /\ End(c)
    /\ UNCHANGED <<register, jobs, promotions, bindings>>

(* The batch looks at the hours again, and not at the node.                *)
BatchAvailability(c) ==
    /\ calls[c].step = "windows"
    /\ \A v \in DOMAIN windows, w \in calls[c].batch : ~Clash(v, w)
    /\ windows' = Entered(windows, calls[c].batch, "AVAILABLE")
    /\ End(c)
    /\ UNCHANGED <<register, jobs, promotions, bindings>>

OnSale(p) == {w \in DOMAIN promotions : promotions[w] = "ACTIVE" /\ nodes[w[1]].pool = p}
NodeHours(set) == MapThenSumSet(LAMBDA w : w[2].end - w[2].start, set)
Stretch(set) == Max({w[2].end : w \in set}) - Min({w[2].start : w \in set})

(* The batch repeats every blocker of previewPromotion.                    *)
CommitPromotion(p, batch) ==
    /\ pools[p].kind = "H100_8X_NODE"
    /\ batch \subseteq DOMAIN windows
    /\ \A w \in batch : windows[w] = "AVAILABLE" /\ nodes[w[1]].pool = p /\ Covered(w)
    /\ \A q \in Pools \ {p} : OnSale(q) = {}
    /\ NodeHours(OnSale(p) \cup batch) <= MaxHours
    /\ Stretch(OnSale(p) \cup batch) <= MaxStretch
    /\ windows' = Entered(windows, batch, "PROMOTED")
    /\ promotions' = Entered(promotions, batch, "ACTIVE")
    /\ bindings' = Entered(bindings, batch, "ACTIVE")
    /\ UNCHANGED <<register, jobs, calls>>

-----------------------------------------------------------------------------
IntakeNext ==
    \/ \E c \in Calls : CallEnds(c)
    \/ \E p \in Pools, kind \in {"H100_8X_NODE", "MAC_MINI"} : CreatePool(p, kind)
    \/ \E p \in Pools, batch \in NodeBatches : BatchMembers(p, batch)
    \/ \E p \in Pools, batch \in NodeBatches : ImportMacInventory(p, batch)
    \/ \E n \in Nodes, part \in {"gpus", "other"} : BatchComponents(n, part)
    \/ \E n \in Nodes : CreateEnrollment(n)
    \/ \E n \in Nodes : Heartbeat(n)
    \/ \E j \in Jobs, n \in Nodes : CreateVerificationJob(j, n)
    \/ \E j \in Jobs : AddVerificationEvidence(j)
    \/ \E c \in Calls, j \in Jobs, d \in {"PASSED", "FAILED"}, u \in Untils : ReadForDecision(c, j, d, u)
    \/ \E c \in Calls : CompleteVerification(c)
    \/ \E c \in Calls, p \in Pools, batch \in SlotBatches : ReadForWindows(c, p, batch)
    \/ \E c \in Calls : BatchAvailability(c)
    \/ \E p \in Pools, batch \in SlotBatches : CommitPromotion(p, batch)

IntakeSpec == IntakeInit /\ [][IntakeNext]_intakeVars

-----------------------------------------------------------------------------
(* The types of the tables.                                                *)
IntakeTypeOK ==
    /\ pools \in [Pools -> {NoPool} \cup [kind : {"H100_8X_NODE", "MAC_MINI"},
                                          status : {"DRAFT", "ACTIVE"}]]
    /\ nodes \in [Nodes -> {NoNode} \cup [pool : Pools, until : {0} \cup Untils,
                                          status : {"DECLARED", "ONLINE", "VERIFIED", "REJECTED"}]]
    /\ agents \in [Nodes -> {"NONE", "PENDING", "ACTIVE"}]
    /\ jobs \in [Jobs -> {NoJob} \cup [status : {"PENDING", "PASSED", "FAILED"}, node : Nodes,
                                       until : {0} \cup Untils, proven : BOOLEAN]]
    /\ DOMAIN windows \subseteq Slots /\ Range(windows) \subseteq {"AVAILABLE", "PROMOTED"}
    /\ Range(promotions) \cup Range(bindings) \subseteq {"ACTIVE", "SUSPENDED"}

(* However reviews, heartbeats and batches overlap: hours on sale are on a *)
(* node that is verified by a job that passed, their binding is as live as *)
(* they are, no hour of a node is offered twice, only one pool of H100     *)
(* nodes sells, and what it sells is within its hours and its stretch.     *)
PromotionsAreSound ==
    /\ promotions = bindings
    /\ DOMAIN promotions = {w \in DOMAIN windows : windows[w] = "PROMOTED"}
    /\ \A w \in DOMAIN promotions : promotions[w] = "ACTIVE" => nodes[w[1]].status = "VERIFIED"
    /\ \A n \in Nodes : nodes[n].status = "VERIFIED" =>
          /\ pools[nodes[n].pool].status = "ACTIVE"
          /\ \E j \in Jobs : jobs[j].status = "PASSED" /\ jobs[j].node = n /\ jobs[j].until = nodes[n].until
    /\ \A v, w \in DOMAIN windows : v # w => ~Clash(v, w)
    /\ \A p \in Pools : OnSale(p) # {} =>
          /\ pools[p].kind = "H100_8X_NODE" /\ \A q \in Pools \ {p} : OnSale(q) = {}
          /\ NodeHours(OnSale(p)) <= MaxHours /\ Stretch(OnSale(p)) <= MaxStretch

(* A decision is final: a second reviewer, or one who was slow, does not   *)
(* turn it; and what was suspended is not put on sale again.               *)
DecisionsStand ==
    /\ \A j \in Jobs : jobs[j].status \in {"PASSED", "FAILED"} =>
          jobs'[j].status = jobs[j].status /\ jobs'[j].until = jobs[j].until
    /\ \A w \in DOMAIN promotions : promotions[w] = "SUSPENDED" => promotions'[w] = "SUSPENDED"
=============================================================================
