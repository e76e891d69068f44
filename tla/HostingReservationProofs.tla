---------------------- MODULE HostingReservationProofs ----------------------
(* Machine-checked proofs about HostingReservation.                        *)
EXTENDS MCHostingReservation, FiniteSetTheorems, TLAPS

-----------------------------------------------------------------------------
(* The local state of a request slot.                                      *)

(* A running request that moves on to another step stays well typed.       *)
LEMMA GotoReserve ==
    ASSUME TypeOK, NEW r \in Requests, ~At(r, "idle"),
           NEW s \in ReserveSteps, Goto(r, s)
    PROVE  /\ req' \in [Requests \cup Cancels -> {Idle} \cup ReserveStates \cup CancelStates]
           /\ \A q \in Requests : req'[q] \notin CancelStates
           /\ \A q \in Cancels : req'[q] \notin ReserveStates
  <1>1. req[r] \in ReserveStates
    BY DEF TypeOK, At, Idle
  <1>2. [req[r] EXCEPT !.step = s] \in ReserveStates \ CancelStates
    BY <1>1 DEF ReserveStates, CancelStates, ReserveSteps
  <1>3. req' = [req EXCEPT ![r] = [req[r] EXCEPT !.step = s]]
    BY DEF Goto
  <1>4. \A q \in Cancels : q # r
    BY ReservationAssumption
  <1> QED BY <1>2, <1>3, <1>4 DEF TypeOK

(* A cancellation that moves on stays a cancellation.                      *)
LEMMA GotoCancel ==
    ASSUME TypeOK, NEW r \in Cancels, ~At(r, "idle"), Goto(r, "cancelled")
    PROVE  /\ req' \in [Requests \cup Cancels -> {Idle} \cup ReserveStates \cup CancelStates]
           /\ \A q \in Requests : req'[q] \notin CancelStates
           /\ \A q \in Cancels : req'[q] \notin ReserveStates
  <1>1. req[r] \in CancelStates
    BY DEF TypeOK, At, Idle
  <1>2. [req[r] EXCEPT !.step = "cancelled"] \in CancelStates \ ReserveStates
    BY <1>1 DEF ReserveStates, CancelStates, ReserveSteps
  <1>3. req' = [req EXCEPT ![r] = [req[r] EXCEPT !.step = "cancelled"]]
    BY DEF Goto
  <1>4. \A q \in Requests : q # r
    BY ReservationAssumption
  <1> QED BY <1>2, <1>3, <1>4 DEF TypeOK

(* So does one that is over.                                               *)
LEMMA FinishType ==
    ASSUME TypeOK, NEW r \in Requests \cup Cancels, Finish(r)
    PROVE  /\ req' \in [Requests \cup Cancels -> {Idle} \cup ReserveStates \cup CancelStates]
           /\ \A q \in Requests : req'[q] \notin CancelStates
           /\ \A q \in Cancels : req'[q] \notin ReserveStates
  <1>1. Idle \notin ReserveStates /\ Idle \notin CancelStates
    BY DEF Idle, ReserveStates, CancelStates, ReserveSteps
  <1> QED BY <1>1 DEF Finish, TypeOK

-----------------------------------------------------------------------------
(* The wallet and the holds.                                               *)
HeldKeys == {k \in Keys : hold[k] = "HELD"}

(* There are finitely many held keys, so they can be counted.              *)
LEMMA HeldFinite == IsFiniteSet(HeldKeys) /\ Cardinality(HeldKeys) \in Nat
  BY ReservationAssumption, FS_Subset, FS_CardinalityType DEF HeldKeys

(* Taking a hold moves one lease to the held column.                       *)
LEMMA HoldTaken ==
    ASSUME TypeOK, HeldMatchesHolds, NEW k \in Keys, hold[k] = "NONE", wallet.available > 0,
           hold' = [hold EXCEPT ![k] = "HELD"],
           wallet' = [available |-> wallet.available - 1, held |-> wallet.held + 1]
    PROVE  /\ hold' \in [Keys -> {"NONE", "HELD", "RELEASED"}]
           /\ wallet' \in [available : Nat, held : Nat]
           /\ HeldMatchesHolds'
  <1>1. wallet.available \in Nat /\ wallet.held \in Nat /\ hold' \in [Keys -> {"NONE", "HELD", "RELEASED"}]
    BY DEF TypeOK
  <1>2. HeldKeys' = HeldKeys \cup {k} /\ k \notin HeldKeys
    BY DEF HeldKeys, TypeOK
  <1>3. Cardinality(HeldKeys') = Cardinality(HeldKeys) + 1
    BY <1>2, HeldFinite, FS_AddElement
  <1>4. wallet.held = Cardinality(HeldKeys) /\ wallet.available + wallet.held = Funds
    BY DEF HeldMatchesHolds, HeldKeys
  <1>5. wallet'.held = Cardinality(HeldKeys') /\ wallet'.available + wallet'.held = Funds
    BY <1>1, <1>3, <1>4
  <1> QED BY <1>1, <1>5 DEF HeldMatchesHolds, HeldKeys

(* Releasing a hold moves it back, and only once.                          *)
LEMMA HoldReleased ==
    ASSUME TypeOK, HeldMatchesHolds, NEW k \in Keys, ReleaseHold(k)
    PROVE  /\ hold' \in [Keys -> {"NONE", "HELD", "RELEASED"}]
           /\ wallet' \in [available : Nat, held : Nat]
           /\ HeldMatchesHolds'
  <1>1. CASE hold[k] # "HELD"
    BY <1>1 DEF ReleaseHold, TypeOK, HeldMatchesHolds
  <1>2. CASE hold[k] = "HELD"
    <2>1. wallet.available \in Nat /\ wallet.held \in Nat /\ hold' \in [Keys -> {"NONE", "HELD", "RELEASED"}]
      BY <1>2 DEF TypeOK, ReleaseHold
    <2>2. HeldKeys' = HeldKeys \ {k} /\ k \in HeldKeys
      BY <1>2 DEF HeldKeys, TypeOK, ReleaseHold
    <2>3. Cardinality(HeldKeys') = Cardinality(HeldKeys) - 1
      BY <2>2, HeldFinite, FS_RemoveElement
    <2>4. wallet.held = Cardinality(HeldKeys) /\ wallet.available + wallet.held = Funds
      BY DEF HeldMatchesHolds, HeldKeys
    <2>5. HeldKeys # {} => Cardinality(HeldKeys) # 0
      BY HeldFinite, FS_EmptySet
    <2>6. /\ wallet' = [available |-> wallet.available + 1, held |-> wallet.held - 1]
          /\ wallet.held > 0
      BY <1>2, <2>1, <2>2, <2>4, <2>5 DEF ReleaseHold
    <2>7. wallet'.held = Cardinality(HeldKeys') /\ wallet'.available + wallet'.held = Funds
      BY <2>1, <2>3, <2>4, <2>6
    <2> QED BY <2>1, <2>6, <2>7 DEF HeldMatchesHolds, HeldKeys
  <1> QED BY <1>1, <1>2

-----------------------------------------------------------------------------
(* Types and money together: a release is well typed only because the      *)
(* held column covers the hold.                                            *)
Accounted == TypeOK /\ HeldMatchesHolds

(* Nothing is held at first.                                               *)
LEMMA AccountedInit == Init => Accounted
  <1> SUFFICES ASSUME Init PROVE Accounted
    OBVIOUS
  <1>1. TypeOK
    BY ReservationAssumption
    DEF Init, TypeOK, Idle, ReserveStates, CancelStates, ReserveSteps
  <1>2. HeldKeys = {}
    BY DEF Init, HeldKeys
  <1>3. Cardinality(HeldKeys) = 0
    BY <1>2, FS_EmptySet
  <1> QED BY <1>1, <1>3, ReservationAssumption DEF Init, HeldMatchesHolds, HeldKeys, Accounted

(* Every step keeps the held column equal to the number of holds.          *)
LEMMA AccountedStep == Accounted /\ [Next]_vars => Accounted'
  <1> SUFFICES ASSUME Accounted, [Next]_vars PROVE Accounted'
    OBVIOUS
  <1>t. TypeOK /\ HeldMatchesHolds
    BY DEF Accounted
  <1>k. ASSUME UNCHANGED <<hold, wallet>>
        PROVE  HeldMatchesHolds'
    BY <1>t, <1>k DEF HeldMatchesHolds
  <1>a. \A r \in Requests : \A k \in Keys : BeginReserve(r, k) => Accounted'
    <2> SUFFICES ASSUME NEW r \in Requests, NEW k \in Keys, BeginReserve(r, k) PROVE Accounted'
      OBVIOUS
    <2>1. /\ req' = [req EXCEPT ![r] = req'[r]]
          /\ req'[r] \in ReserveStates \ CancelStates
      BY <1>t DEF BeginReserve, TypeOK, ReserveStates, CancelStates, ReserveSteps
    <2>2. \A q \in Cancels : q # r
      BY ReservationAssumption
    <2>3. TypeOK'
      BY <1>t, <2>1, <2>2 DEF BeginReserve, TypeOK
    <2> QED BY <2>3, <1>k DEF BeginReserve, Accounted
  <1>b. \A r \in Requests : ReadContract(r) => Accounted'
    <2> SUFFICES ASSUME NEW r \in Requests, ReadContract(r) PROVE Accounted'
      OBVIOUS
    <2>1. CASE Finish(r)
      BY <2>1, <1>t, <1>k, FinishType DEF ReadContract, TypeOK, Accounted
    <2>2. CASE ~Finish(r)
      <3>1. req[r] \in ReserveStates /\ contract[req[r].key] \in {"NONE", "CANCELLED"} \cup Cancellable \cup Delivering
        BY <1>t DEF ReadContract, At, TypeOK, Idle, ReserveStates
      <3>2. /\ req' = [req EXCEPT ![r] = [step |-> "hold", key |-> req[r].key, seen |-> contract[req[r].key]]]
            /\ contract[req[r].key] \in Cancellable \cup Delivering
        BY <2>2, <3>1 DEF ReadContract, ReserveStates
      <3>3. [step |-> "hold", key |-> req[r].key, seen |-> contract[req[r].key]] \in ReserveStates \ CancelStates
        BY <3>1, <3>2 DEF ReserveStates, CancelStates, ReserveSteps
      <3>4. \A q \in Cancels : q # r
        BY ReservationAssumption
      <3>5. TypeOK'
        BY <1>t, <3>2, <3>3, <3>4 DEF ReadContract, TypeOK
      <3> QED BY <3>5, <1>k DEF ReadContract, Accounted
    <2> QED BY <2>1, <2>2
  <1>c. \A r \in Requests : PostReserve(r) => Accounted'
    <2> SUFFICES ASSUME NEW r \in Requests, PostReserve(r) PROVE Accounted'
      OBVIOUS
    <2>1. req[r] \in ReserveStates /\ ~At(r, "idle") /\ req[r].key \in Keys
      BY <1>t DEF PostReserve, At, TypeOK, Idle, ReserveStates
    <2>2. /\ Finish(r) \/ Goto(r, "read")
          /\ UNCHANGED <<device, queued, hold, wallet>>
          /\ offer' \in {offer, "RESERVED"}
          /\ contract' \in {contract, [contract EXCEPT ![req[r].key] = "RESERVED"]}
          /\ receipts' \in {receipts, receipts \cup {<<"RESERVE", req[r].key>>}}
      BY DEF PostReserve
    <2>3. TypeOK'
      BY <1>t, <2>1, <2>2, GotoReserve, FinishType DEF TypeOK, ReserveSteps, Cancellable
    <2> QED BY <2>2, <2>3, <1>k DEF Accounted
  <1>d. \A r \in Requests : ReadHold(r) \/ ReadMark(r) \/ ConfirmMark(r) \/ ReadUndo(r) => Accounted'
    <2> SUFFICES ASSUME NEW r \in Requests, ReadHold(r) \/ ReadMark(r) \/ ConfirmMark(r) \/ ReadUndo(r)
                 PROVE  Accounted'
      OBVIOUS
    <2>1. /\ ~At(r, "idle")
          /\ Finish(r) \/ \E s \in ReserveSteps : Goto(r, s)
          /\ UNCHANGED <<offer, device, contract, queued, receipts, hold, wallet>>
      BY DEF ReadHold, ReadMark, ConfirmMark, ReadUndo, Confirming, At, ReserveSteps
    <2>2. TypeOK'
      BY <1>t, <2>1, GotoReserve, FinishType DEF TypeOK
    <2> QED BY <2>1, <2>2, <1>k DEF Accounted
  <1>e. \A r \in Requests : PostHold(r) => Accounted'
    <2> SUFFICES ASSUME NEW r \in Requests, PostHold(r) PROVE Accounted'
      OBVIOUS
    <2>1. ~At(r, "idle") /\ req[r].key \in Keys
      BY <1>t DEF PostHold, At, TypeOK, Idle, ReserveStates
    <2>2. /\ Finish(r) \/ Goto(r, "mark") \/ Goto(r, "release")
          /\ UNCHANGED <<offer, device, contract, queued, receipts>>
      BY DEF PostHold, Confirming
    <2>3. /\ hold' \in [Keys -> {"NONE", "HELD", "RELEASED"}]
          /\ wallet' \in [available : Nat, held : Nat]
          /\ HeldMatchesHolds'
      <3>1. CASE hold[req[r].key] = "NONE" /\ wallet.available > 0
        BY <1>t, <2>1, <3>1, HoldTaken DEF PostHold
      <3>2. CASE ~(hold[req[r].key] = "NONE" /\ wallet.available > 0)
        BY <1>t, <3>2, <1>k DEF PostHold, TypeOK
      <3> QED BY <3>1, <3>2
    <2>4. TypeOK'
      BY <1>t, <2>1, <2>2, <2>3, GotoReserve, FinishType DEF TypeOK, ReserveSteps
    <2> QED BY <2>3, <2>4 DEF Accounted
  <1>f. \A r \in Requests : PostMark(r) => Accounted'
    <2> SUFFICES ASSUME NEW r \in Requests, PostMark(r) PROVE Accounted'
      OBVIOUS
    <2>1. ~At(r, "idle") /\ req[r].key \in Keys
      BY <1>t DEF PostMark, At, TypeOK, Idle, ReserveStates
    <2>2. /\ Goto(r, "release") \/ Goto(r, "confirm")
          /\ UNCHANGED <<offer, device, queued, hold, wallet>>
          /\ contract' \in {contract, [contract EXCEPT ![req[r].key] = "CARD_HOURS_HELD"]}
          /\ receipts' \in {receipts, receipts \cup {<<"MARK", req[r].key>>}}
      BY DEF PostMark
    <2>3. TypeOK'
      BY <1>t, <2>1, <2>2, GotoReserve DEF TypeOK, ReserveSteps, Cancellable
    <2> QED BY <2>2, <2>3, <1>k DEF Accounted
  <1>g. \A r \in Requests : CompensateRelease(r) => Accounted'
    <2> SUFFICES ASSUME NEW r \in Requests, CompensateRelease(r) PROVE Accounted'
      OBVIOUS
    <2>1. ~At(r, "idle") /\ req[r].key \in Keys
      BY <1>t DEF CompensateRelease, At, TypeOK, Idle, ReserveStates
    <2>2. /\ hold' \in [Keys -> {"NONE", "HELD", "RELEASED"}]
          /\ wallet' \in [available : Nat, held : Nat]
          /\ HeldMatchesHolds'
      BY <1>t, <2>1, HoldReleased DEF CompensateRelease
    <2>3. TypeOK'
      BY <1>t, <2>1, <2>2, GotoReserve DEF CompensateRelease, TypeOK, ReserveSteps
    <2> QED BY <2>2, <2>3 DEF Accounted
  <1>h. \A k \in Keys : CancelBatch(k) =>
            /\ offer' \in {"PUBLISHED", "RESERVED", "PAUSED", "UNLISTED", "SUSPENDED"}
            /\ contract' \in [Keys -> {"NONE", "CANCELLED"} \cup Cancellable \cup Delivering]
    BY <1>t DEF CancelBatch, TypeOK
  <1>i. \A r \in Requests : PostUndo(r) => Accounted'
    <2> SUFFICES ASSUME NEW r \in Requests, PostUndo(r) PROVE Accounted'
      OBVIOUS
    <2>1. req[r].key \in Keys
      BY <1>t DEF PostUndo, At, TypeOK, Idle, ReserveStates
    <2>2. /\ offer' \in {"PUBLISHED", "RESERVED", "PAUSED", "UNLISTED", "SUSPENDED"}
          /\ contract' \in [Keys -> {"NONE", "CANCELLED"} \cup Cancellable \cup Delivering]
          /\ receipts' \in {receipts, receipts \cup {<<"COMPENSATE", req[r].key>>}}
      BY <1>t, <1>h, <2>1 DEF PostUndo, TypeOK
    <2>3. TypeOK'
      BY <1>t, <2>1, <2>2, FinishType DEF PostUndo, TypeOK
    <2> QED BY <2>3, <1>k DEF PostUndo, Accounted
  <1>j. \A r \in Cancels : \A k \in Keys, x \in CancelKeys : BeginCancel(r, k, x) => Accounted'
    <2> SUFFICES ASSUME NEW r \in Cancels, NEW k \in Keys, NEW x \in CancelKeys, BeginCancel(r, k, x)
                 PROVE  Accounted'
      OBVIOUS
    <2>1. /\ req' = [req EXCEPT ![r] = req'[r]]
          /\ req'[r] \in CancelStates \ ReserveStates
      BY <1>t DEF BeginCancel, TypeOK, ReserveStates, CancelStates, ReserveSteps
    <2>2. \A q \in Requests : q # r
      BY ReservationAssumption
    <2>3. TypeOK'
      BY <1>t, <2>1, <2>2 DEF BeginCancel, TypeOK
    <2> QED BY <2>3, <1>k DEF BeginCancel, Accounted
  <1>l. \A r \in Cancels : PostCancel(r) => Accounted'
    <2> SUFFICES ASSUME NEW r \in Cancels, PostCancel(r) PROVE Accounted'
      OBVIOUS
    <2>1. ~At(r, "idle") /\ req[r].key \in Keys /\ req[r].id \in CancelKeys
      BY <1>t DEF PostCancel, At, TypeOK, Idle, CancelStates
    <2>2. /\ Finish(r) \/ Goto(r, "cancelled")
          /\ UNCHANGED <<device, queued, hold, wallet>>
          /\ offer' \in {"PUBLISHED", "RESERVED", "PAUSED", "UNLISTED", "SUSPENDED"}
          /\ contract' \in [Keys -> {"NONE", "CANCELLED"} \cup Cancellable \cup Delivering]
          /\ receipts' \in {receipts, receipts \cup {<<"CANCEL", req[r].key, req[r].id>>}}
      BY <1>t, <1>h, <2>1 DEF PostCancel, TypeOK
    <2>3. TypeOK'
      BY <1>t, <2>1, <2>2, FinishType, GotoCancel DEF TypeOK
    <2> QED BY <2>2, <2>3, <1>k DEF Accounted
  <1>m. \A r \in Cancels : CancelRelease(r) => Accounted'
    <2> SUFFICES ASSUME NEW r \in Cancels, CancelRelease(r) PROVE Accounted'
      OBVIOUS
    <2>1. req[r].key \in Keys
      BY <1>t DEF CancelRelease, At, TypeOK, Idle, CancelStates
    <2>2. /\ hold' \in [Keys -> {"NONE", "HELD", "RELEASED"}]
          /\ wallet' \in [available : Nat, held : Nat]
          /\ HeldMatchesHolds'
      BY <1>t, <2>1, HoldReleased DEF CancelRelease
    <2>3. TypeOK'
      BY <1>t, <2>2, FinishType DEF CancelRelease, TypeOK
    <2> QED BY <2>2, <2>3 DEF Accounted
  <1>n. \A r \in Requests \cup Cancels : Crash(r) => Accounted'
    BY <1>t, <1>k, FinishType DEF Crash, TypeOK, Accounted
  <1>o. \A k \in Keys : AttachSshKey(k) \/ Provision(k) => Accounted'
    BY <1>t, <1>k DEF AttachSshKey, Provision, TypeOK, Accounted, Delivering
  <1>p. \A new \in {"PUBLISHED", "PAUSED", "UNLISTED"} : UpdateOfferStatus(new) => Accounted'
    BY <1>t, <1>k DEF UpdateOfferStatus, TypeOK, Accounted
  <1>q. \A mode \in {"GRACEFUL", "EMERGENCY"} : RetireDevice(mode) => Accounted'
    BY <1>t, <1>k DEF RetireDevice, TypeOK, Accounted, Retired
  <1>r. UNCHANGED vars => Accounted'
    BY <1>t, <1>k DEF vars, TypeOK, Accounted
  <1> QED
    BY <1>a, <1>b, <1>c, <1>d, <1>e, <1>f, <1>g, <1>i, <1>j, <1>l, <1>m, <1>n, <1>o, <1>p, <1>q, <1>r
    DEF Next, ReserveStep, CancelStep

(* Every reachable state is well typed, for any number of requests, keys   *)
(* and cancellations.                                                      *)
THEOREM TypeCorrect == Spec => []TypeOK
  <1>1. Accounted => TypeOK
    BY DEF Accounted
  <1> QED BY <1>1, AccountedInit, AccountedStep, PTL DEF Spec

(* The wallet never disagrees with the holds: however requests, retries,   *)
(* compensations and cancellations overlap and wherever they stop, no      *)
(* card-hour is created, lost, held twice or released twice.               *)
THEOREM WalletAccounted == Spec => []HeldMatchesHolds
  <1>1. Accounted => HeldMatchesHolds
    BY DEF Accounted
  <1> QED BY <1>1, AccountedInit, AccountedStep, PTL DEF Spec

-----------------------------------------------------------------------------
(* A retired device stays off the market: no cancellation, compensation or *)
(* status change brings its listing back.                                  *)
LEMMA RetiredStep == TypeOK /\ RetiredStaysUnlisted /\ [Next]_vars => RetiredStaysUnlisted'
  <1> SUFFICES ASSUME TypeOK, RetiredStaysUnlisted, [Next]_vars PROVE RetiredStaysUnlisted'
    OBVIOUS
  <1>1. \A r \in Requests : ReserveStep(r) => RetiredStaysUnlisted'
    BY DEF ReserveStep, BeginReserve, PostReserve, ReadContract, ReadHold, PostHold, ReadMark, PostMark,
           ConfirmMark, CompensateRelease, ReadUndo, PostUndo, CancelBatch, RetiredStaysUnlisted, Retired
  <1>2. \A r \in Cancels : CancelStep(r) => RetiredStaysUnlisted'
    BY DEF CancelStep, BeginCancel, PostCancel, CancelRelease, CancelBatch, RetiredStaysUnlisted, Retired
  <1>3. \A k \in Keys : AttachSshKey(k) \/ Provision(k) => RetiredStaysUnlisted'
    BY DEF AttachSshKey, Provision, RetiredStaysUnlisted, Retired
  <1>4. \A new \in {"PUBLISHED", "PAUSED", "UNLISTED"} : UpdateOfferStatus(new) => RetiredStaysUnlisted'
    BY DEF UpdateOfferStatus, RetiredStaysUnlisted, Retired
  <1>5. \A mode \in {"GRACEFUL", "EMERGENCY"} : RetireDevice(mode) => RetiredStaysUnlisted'
    BY DEF RetireDevice, RetiredStaysUnlisted, Retired, TypeOK
  <1>6. (\E r \in Requests \cup Cancels : Crash(r)) \/ UNCHANGED vars => RetiredStaysUnlisted'
    BY DEF Crash, vars, RetiredStaysUnlisted
  <1> QED BY <1>1, <1>2, <1>3, <1>4, <1>5, <1>6 DEF Next

(* A listing of a retired device is never offered again, whatever reads of *)
(* it were under way when it retired.                                      *)
THEOREM RetiredIsOffTheMarket == Spec => []RetiredStaysUnlisted
  <1>1. Init => RetiredStaysUnlisted
    BY DEF Init, RetiredStaysUnlisted, Retired
  <1> QED BY <1>1, RetiredStep, TypeCorrect, PTL DEF Spec

(* No retry ever takes a released hold again.                              *)
LEMMA ReleasedStep == TypeOK /\ [Next]_vars =>
                      \A k \in Keys : hold[k] = "RELEASED" => hold'[k] = "RELEASED"
  <1> SUFFICES ASSUME TypeOK, [Next]_vars, NEW k \in Keys, hold[k] = "RELEASED"
               PROVE  hold'[k] = "RELEASED"
    OBVIOUS
  <1>1. \A l \in Keys : ReleaseHold(l) => hold'[k] = "RELEASED"
    BY DEF ReleaseHold, TypeOK
  <1>2. \A r \in Requests : PostHold(r) => hold'[k] = "RELEASED"
    BY DEF PostHold, TypeOK
  <1>3. \A r \in Requests : CompensateRelease(r) => hold'[k] = "RELEASED"
    BY DEF CompensateRelease, ReleaseHold, TypeOK
  <1>4. \A r \in Cancels : CancelRelease(r) => hold'[k] = "RELEASED"
    BY DEF CancelRelease, ReleaseHold, TypeOK
  <1>5. \A r \in Requests : ReserveStep(r) => hold'[k] = "RELEASED"
    BY <1>2, <1>3 DEF ReserveStep, BeginReserve, PostReserve, ReadContract, ReadHold, ReadMark, PostMark,
           ConfirmMark, ReadUndo, PostUndo
  <1>6. \A r \in Cancels : CancelStep(r) => hold'[k] = "RELEASED"
    BY <1>4 DEF CancelStep, BeginCancel, PostCancel
  <1>7. (\E l \in Keys : AttachSshKey(l) \/ Provision(l))
        \/ (\E new \in {"PUBLISHED", "PAUSED", "UNLISTED"} : UpdateOfferStatus(new))
        \/ (\E mode \in {"GRACEFUL", "EMERGENCY"} : RetireDevice(mode))
        \/ (\E r \in Requests \cup Cancels : Crash(r)) \/ UNCHANGED vars => hold'[k] = "RELEASED"
    BY DEF AttachSshKey, Provision, UpdateOfferStatus, RetireDevice, Crash, vars
  <1> QED BY <1>5, <1>6, <1>7 DEF Next

(* Once the hold of a reservation is released no retry of any request      *)
(* takes it again.                                                         *)
THEOREM ReleasedForGood == Spec => ReleasedIsFinal
  <1> QED BY ReleasedStep, TypeCorrect, PTL DEF Spec, ReleasedIsFinal

-----------------------------------------------------------------------------
(* Orderly clients: nobody cancels, and a key is retried only on the slot  *)
(* that owns it, one request after the other.                              *)
Orderly(own) == \A r, s \in Requests : r # s => own[r] \cap own[s] = {}

Starts(own) == \A r \in Requests, k \in Keys : BeginReserve(r, k) => k \in own[r]

Quiet == \A r \in Cancels : At(r, "idle")

Live(k) == contract[k] \in Cancellable \cup Delivering

OwnsItsKey(own) == \A r \in Requests : ~At(r, "idle") => req[r].key \in own[r]

(* A live contract keeps its listing off the market.                       *)
LiveIsOffTheMarket == \A k \in Keys : Live(k) => offer \notin {"PUBLISHED", "PAUSED"}

HeldIsFunded == \A k \in Keys : contract[k] = "CARD_HOURS_HELD" => hold[k] = "HELD"

(* What a request knows at each step, since no other works on its key.     *)
Known(r) ==
    LET k == req[r].key IN
    /\ At(r, "holdPost") => hold[k] = "NONE"
    /\ At(r, "mark") \/ At(r, "markPost") \/ At(r, "confirm") => hold[k] = "HELD"
    /\ At(r, "markPost") => <<"MARK", k>> \notin receipts
    /\ At(r, "release") \/ At(r, "undo") => contract[k] # "CARD_HOURS_HELD"
    /\ At(r, "undoPost") => contract[k] = "RESERVED"

KnownToRequest == \A r \in Requests : Known(r)

OrderlyInv(own) ==
    /\ TypeOK
    /\ OwnsItsKey(own)
    /\ OneReservationPerListing
    /\ LiveIsOffTheMarket
    /\ HeldIsFunded
    /\ KnownToRequest

(* Nobody has asked for anything at first.                                 *)
LEMMA OrderlyInit ==
    ASSUME NEW own, Init PROVE OrderlyInv(own)
  <1>1. TypeOK
    BY AccountedInit DEF Accounted
  <1>2. \A r \in Requests : req[r] = Idle
    BY DEF Init
  <1>3. OwnsItsKey(own) /\ KnownToRequest
    BY <1>2 DEF OwnsItsKey, KnownToRequest, Known, At, Idle
  <1>4. OneReservationPerListing /\ LiveIsOffTheMarket /\ HeldIsFunded
    BY DEF Init, OneReservationPerListing, LiveIsOffTheMarket, Live, HeldIsFunded, Cancellable, Delivering
  <1> QED BY <1>1, <1>3, <1>4 DEF OrderlyInv

(* A step of one request that keeps the contract, the hold and the receipts *)
(* of every other key leaves what the other requests know alone.           *)
LEMMA OthersKnow ==
    ASSUME NEW own, Orderly(own), OrderlyInv(own), NEW r \in Requests, ~At(r, "idle"),
           req' = [req EXCEPT ![r] = req'[r]],
           req'[r].step = "idle" \/ req'[r].key = req[r].key,
           \A l \in Keys : l # req[r].key => /\ contract'[l] = contract[l]
                                             /\ hold'[l] = hold[l]
                                             /\ <<"MARK", l>> \in receipts' => <<"MARK", l>> \in receipts
    PROVE  OwnsItsKey(own)' /\ \A q \in Requests : q # r => Known(q)'
  <1>1. OwnsItsKey(own)'
    BY DEF OrderlyInv, OwnsItsKey, TypeOK, At
  <1>2. ASSUME NEW q \in Requests, q # r PROVE Known(q)'
    <2>1. req'[q] = req[q]
      BY <1>2 DEF OrderlyInv, TypeOK
    <2>2. CASE At(q, "idle")
      BY <2>1, <2>2 DEF Known, At
    <2>3. CASE ~At(q, "idle")
      <3>1. req[q].key \in Keys /\ req[q].key # req[r].key
        <4>1. req[q].key # req[r].key
          BY <1>2, <2>3 DEF OrderlyInv, OwnsItsKey, Orderly
        <4>2. req[q] \in ReserveStates
          BY <2>3 DEF OrderlyInv, TypeOK, At, Idle
        <4> QED BY <4>1, <4>2 DEF ReserveStates
      <3>2. Known(q)
        BY DEF OrderlyInv, KnownToRequest
      <3> QED BY <2>1, <3>1, <3>2 DEF Known, At
    <2> QED BY <2>2, <2>3
  <1> QED BY <1>1, <1>2

(* The same for a request that starts.                                     *)
LEMMA StartKnown ==
    ASSUME NEW own, OrderlyInv(own), Starts(own), NEW r \in Requests, NEW k \in Keys, BeginReserve(r, k)
    PROVE  OwnsItsKey(own)' /\ KnownToRequest'
  <1>0. k \in own[r]
    BY DEF Starts
  <1>1. k \in own[r] /\ req'[r].key = k /\ req'[r].step \in {"read", "insert"}
    BY <1>0 DEF BeginReserve, OrderlyInv, TypeOK
  <1>2. \A q \in Requests : q # r => req'[q] = req[q]
    BY DEF BeginReserve, OrderlyInv, TypeOK
  <1>3. OwnsItsKey(own)'
    BY <1>1, <1>2 DEF OrderlyInv, OwnsItsKey, At
  <1>4. Known(r)'
    BY <1>1 DEF Known, At
  <1>5. \A q \in Requests : q # r => Known(q)'
    BY <1>2 DEF OrderlyInv, KnownToRequest, Known, At, BeginReserve
  <1> QED BY <1>3, <1>4, <1>5 DEF KnownToRequest

(* The market's part is kept by every step that leaves the listing and the *)
(* contracts alone, or only cancels.                                       *)
LEMMA MarketKept ==
    ASSUME OneReservationPerListing, LiveIsOffTheMarket, UNCHANGED <<offer, contract>>
    PROVE  OneReservationPerListing' /\ LiveIsOffTheMarket'
  BY DEF OneReservationPerListing, LiveIsOffTheMarket, Live

(* One step of a reservation by an orderly client.                         *)
LEMMA OrderlyReserveStep ==
    ASSUME NEW own, Orderly(own), OrderlyInv(own), Starts(own), TypeOK', NEW r \in Requests, ReserveStep(r)
    PROVE  OrderlyInv(own)'
  <1> DEFINE k == req[r].key
  <1>i. /\ TypeOK /\ OwnsItsKey(own) /\ OneReservationPerListing
        /\ LiveIsOffTheMarket /\ HeldIsFunded /\ Known(r)
    BY DEF OrderlyInv, KnownToRequest
  <1>1. ASSUME NEW l \in Keys, BeginReserve(r, l) PROVE OrderlyInv(own)'
    <2>1. UNCHANGED <<offer, contract, hold>>
      BY <1>1 DEF BeginReserve
    <2> QED BY <1>1, <1>i, <2>1, StartKnown, MarketKept DEF OrderlyInv, HeldIsFunded
  <1>k. ASSUME ~At(r, "idle") PROVE k \in Keys
    BY <1>i, <1>k DEF TypeOK, At, Idle, ReserveStates
  <1>g. ASSUME NEW s, ~At(r, "idle"), Goto(r, s) \/ Finish(r)
        PROVE  /\ req' = [req EXCEPT ![r] = req'[r]]
               /\ req'[r].step = "idle" \/ req'[r].key = req[r].key
               /\ Goto(r, s) => req'[r].step = s /\ req'[r].key = k
               /\ Finish(r) => req'[r].step = "idle"
    BY <1>i, <1>g DEF Goto, Finish, TypeOK, Idle, At, ReserveStates
  <1>2. CASE PostReserve(r)
    <2>1. ~At(r, "idle") /\ (Finish(r) \/ Goto(r, "read")) /\ UNCHANGED hold
      BY <1>2 DEF PostReserve, At
    <2>2. \A l \in Keys : l # k => /\ contract'[l] = contract[l]
                                   /\ <<"MARK", l>> \in receipts' => <<"MARK", l>> \in receipts
      BY <1>2, <1>i DEF PostReserve, TypeOK
    <2>3. OwnsItsKey(own)' /\ \A q \in Requests : q # r => Known(q)'
      BY <2>1, <2>2, <1>g, OthersKnow
    <2>4. Known(r)'
      BY <2>1, <1>g DEF Known, At
    <2>5. HeldIsFunded'
      BY <1>2, <1>i, <1>k, <2>1 DEF PostReserve, HeldIsFunded, TypeOK
    <2>6. OneReservationPerListing' /\ LiveIsOffTheMarket'
      BY <1>2, <1>i, <1>k, <2>1
      DEF PostReserve, OneReservationPerListing, LiveIsOffTheMarket, Live, TypeOK, Cancellable, Delivering
    <2> QED BY <2>3, <2>4, <2>5, <2>6 DEF OrderlyInv, KnownToRequest
  <1>3. CASE ReadContract(r)
    <2>1. /\ ~At(r, "idle") /\ UNCHANGED <<offer, contract, receipts, hold>>
          /\ req' = [req EXCEPT ![r] = req'[r]]
          /\ req'[r].step \in {"idle", "hold"}
          /\ req'[r].step = "idle" \/ req'[r].key = k
      BY <1>3, <1>i DEF ReadContract, At, Finish, Idle, TypeOK, ReserveStates
    <2>2. OwnsItsKey(own)' /\ \A q \in Requests : q # r => Known(q)'
      BY <2>1, OthersKnow
    <2>3. Known(r)'
      BY <2>1 DEF Known, At
    <2> QED BY <1>i, <2>1, <2>2, <2>3, MarketKept DEF OrderlyInv, KnownToRequest, HeldIsFunded
  <1>4. CASE ReadHold(r)
    <2>1. /\ ~At(r, "idle") /\ UNCHANGED <<offer, contract, receipts, hold>>
          /\ \/ hold[k] = "NONE" /\ Goto(r, "holdPost")
             \/ hold[k] = "HELD" /\ (Goto(r, "mark") \/ Finish(r))
             \/ hold[k] = "RELEASED" /\ Goto(r, "release")
      BY <1>4, <1>i, <1>k DEF ReadHold, Confirming, At, TypeOK
    <2>2. OwnsItsKey(own)' /\ \A q \in Requests : q # r => Known(q)'
      BY <2>1, <1>g, OthersKnow
    <2>3. contract[k] = "CARD_HOURS_HELD" => hold[k] = "HELD"
      BY <1>i, <1>k, <2>1 DEF HeldIsFunded
    <2>4. Known(r)'
      BY <2>1, <2>3, <1>g DEF Known, At
    <2> QED BY <1>i, <2>1, <2>2, <2>4, MarketKept DEF OrderlyInv, KnownToRequest, HeldIsFunded
  <1>5. CASE PostHold(r)
    <2>1. /\ ~At(r, "idle") /\ UNCHANGED <<offer, contract, receipts>> /\ hold[k] = "NONE"
          /\ \/ hold' = [hold EXCEPT ![k] = "HELD"] /\ (Goto(r, "mark") \/ Finish(r))
             \/ hold' = hold /\ Goto(r, "release")
      BY <1>5, <1>i DEF PostHold, Confirming, At, Known
    <2>2. OwnsItsKey(own)' /\ \A q \in Requests : q # r => Known(q)'
      BY <2>1, <1>i, <1>g, OthersKnow DEF TypeOK
    <2>3. contract[k] # "CARD_HOURS_HELD"
      BY <1>i, <1>k, <2>1 DEF HeldIsFunded
    <2>4. Known(r)'
      BY <2>1, <2>3, <1>i, <1>k, <1>g DEF Known, At, TypeOK
    <2>5. HeldIsFunded'
      BY <1>i, <1>k, <2>1 DEF HeldIsFunded, TypeOK
    <2> QED BY <1>i, <2>1, <2>2, <2>4, <2>5, MarketKept DEF OrderlyInv, KnownToRequest
  <1>6. CASE ReadMark(r)
    <2>1. /\ ~At(r, "idle") /\ UNCHANGED <<offer, contract, receipts, hold>> /\ hold[k] = "HELD"
          /\ \/ Goto(r, "confirm")
             \/ <<"MARK", k>> \notin receipts /\ Goto(r, "markPost")
      BY <1>6, <1>i DEF ReadMark, At, Known
    <2>2. OwnsItsKey(own)' /\ \A q \in Requests : q # r => Known(q)'
      BY <2>1, <1>g, OthersKnow
    <2>3. Known(r)'
      BY <2>1, <1>g DEF Known, At
    <2> QED BY <1>i, <2>1, <2>2, <2>3, MarketKept DEF OrderlyInv, KnownToRequest, HeldIsFunded
  <1>7. CASE PostMark(r)
    <2>1. /\ ~At(r, "idle") /\ UNCHANGED <<offer, hold>> /\ hold[k] = "HELD" /\ Goto(r, "confirm")
          /\ receipts' = receipts \cup {<<"MARK", k>>}
          /\ contract' = IF contract[k] = "RESERVED"
                         THEN [contract EXCEPT ![k] = "CARD_HOURS_HELD"] ELSE contract
      BY <1>7, <1>i DEF PostMark, At, Known
    <2>2. \A l \in Keys : l # k => /\ contract'[l] = contract[l]
                                   /\ <<"MARK", l>> \in receipts' => <<"MARK", l>> \in receipts
      BY <2>1, <1>i DEF TypeOK
    <2>3. OwnsItsKey(own)' /\ \A q \in Requests : q # r => Known(q)'
      BY <2>1, <2>2, <1>g, OthersKnow
    <2>4. Known(r)'
      BY <2>1, <1>g DEF Known, At
    <2>5. HeldIsFunded'
      BY <1>i, <1>k, <2>1 DEF HeldIsFunded, TypeOK
    <2>6. OneReservationPerListing' /\ LiveIsOffTheMarket'
      BY <1>i, <1>k, <2>1
      DEF OneReservationPerListing, LiveIsOffTheMarket, Live, TypeOK, Cancellable, Delivering
    <2> QED BY <2>3, <2>4, <2>5, <2>6 DEF OrderlyInv, KnownToRequest
  <1>8. CASE ConfirmMark(r)
    <2>1. /\ ~At(r, "idle") /\ UNCHANGED <<offer, contract, receipts, hold>>
          /\ Finish(r) \/ (contract[k] # "CARD_HOURS_HELD" /\ Goto(r, "release"))
      BY <1>8 DEF ConfirmMark, At
    <2>2. OwnsItsKey(own)' /\ \A q \in Requests : q # r => Known(q)'
      BY <2>1, <1>g, OthersKnow
    <2>3. Known(r)'
      BY <2>1, <1>g DEF Known, At
    <2> QED BY <1>i, <2>1, <2>2, <2>3, MarketKept DEF OrderlyInv, KnownToRequest, HeldIsFunded
  <1>9. CASE CompensateRelease(r)
    <2>1. /\ ~At(r, "idle") /\ UNCHANGED <<offer, contract, receipts>> /\ Goto(r, "undo")
          /\ hold' \in {hold, [hold EXCEPT ![k] = "RELEASED"]}
          /\ contract[k] # "CARD_HOURS_HELD"
      BY <1>9, <1>i DEF CompensateRelease, ReleaseHold, At, Known
    <2>2. OwnsItsKey(own)' /\ \A q \in Requests : q # r => Known(q)'
      BY <2>1, <1>i, <1>g, OthersKnow DEF TypeOK
    <2>3. Known(r)'
      BY <2>1, <1>g DEF Known, At
    <2>4. HeldIsFunded'
      BY <1>i, <1>k, <2>1 DEF HeldIsFunded, TypeOK
    <2> QED BY <1>i, <2>1, <2>2, <2>3, <2>4, MarketKept DEF OrderlyInv, KnownToRequest
  <1>10. CASE ReadUndo(r)
    <2>1. /\ ~At(r, "idle") /\ UNCHANGED <<offer, contract, receipts, hold>>
          /\ Finish(r) \/ (contract[k] = "RESERVED" /\ Goto(r, "undoPost"))
      BY <1>10, <1>i DEF ReadUndo, At, Known, Cancellable
    <2>2. OwnsItsKey(own)' /\ \A q \in Requests : q # r => Known(q)'
      BY <2>1, <1>g, OthersKnow
    <2>3. Known(r)'
      BY <2>1, <1>g DEF Known, At
    <2> QED BY <1>i, <2>1, <2>2, <2>3, MarketKept DEF OrderlyInv, KnownToRequest, HeldIsFunded
  <1>11. CASE PostUndo(r)
    <2>1. /\ ~At(r, "idle") /\ UNCHANGED hold /\ Finish(r) /\ contract[k] = "RESERVED"
          /\ \/ UNCHANGED <<offer, contract>>
             \/ contract' = [contract EXCEPT ![k] = "CANCELLED"]
          /\ receipts' \in {receipts, receipts \cup {<<"COMPENSATE", k>>}}
      BY <1>11, <1>i DEF PostUndo, CancelBatch, At, Known, Cancellable
    <2>2. \A l \in Keys : l # k => /\ contract'[l] = contract[l]
                                   /\ <<"MARK", l>> \in receipts' => <<"MARK", l>> \in receipts
      BY <2>1, <1>i DEF TypeOK
    <2>3. OwnsItsKey(own)' /\ \A q \in Requests : q # r => Known(q)'
      BY <2>1, <2>2, <1>g, OthersKnow
    <2>4. Known(r)'
      BY <2>1, <1>g DEF Known, At
    <2>5. HeldIsFunded'
      BY <1>i, <1>k, <2>1 DEF HeldIsFunded, TypeOK
    <2>6. OneReservationPerListing' /\ LiveIsOffTheMarket'
      BY <1>i, <1>k, <2>1
      DEF OneReservationPerListing, LiveIsOffTheMarket, Live, TypeOK, Cancellable, Delivering
    <2> QED BY <2>3, <2>4, <2>5, <2>6 DEF OrderlyInv, KnownToRequest
  <1> QED BY <1>1, <1>2, <1>3, <1>4, <1>5, <1>6, <1>7, <1>8, <1>9, <1>10, <1>11 DEF ReserveStep

(* Steps of the others that leave the requests alone.                      *)
LEMMA OrderlyOutsideStep ==
    ASSUME NEW own, OrderlyInv(own), TypeOK', UNCHANGED <<hold, receipts, req>>,
           \/ \E k \in Keys : AttachSshKey(k) \/ Provision(k)
           \/ \E new \in {"PUBLISHED", "PAUSED", "UNLISTED"} : UpdateOfferStatus(new)
           \/ \E mode \in {"GRACEFUL", "EMERGENCY"} : RetireDevice(mode)
    PROVE  OrderlyInv(own)'
  <1>i. /\ TypeOK /\ OwnsItsKey(own) /\ OneReservationPerListing
        /\ LiveIsOffTheMarket /\ HeldIsFunded /\ KnownToRequest
    BY DEF OrderlyInv
  <1>1. OwnsItsKey(own)'
    BY <1>i DEF OwnsItsKey, At
  <1>2. ASSUME NEW k \in Keys, AttachSshKey(k) \/ Provision(k) PROVE OrderlyInv(own)'
    <2>1. /\ UNCHANGED offer
          /\ contract[k] \in {"CARD_HOURS_HELD", "PROVISIONING"}
          /\ contract' = [contract EXCEPT ![k] = contract'[k]]
          /\ contract'[k] \in Delivering
      BY <1>2, <1>i DEF AttachSshKey, Provision, TypeOK, Delivering
    <2>2. OneReservationPerListing' /\ LiveIsOffTheMarket'
      BY <1>i, <2>1 DEF OneReservationPerListing, LiveIsOffTheMarket, Live, TypeOK, Cancellable, Delivering
    <2>3. HeldIsFunded'
      BY <1>i, <2>1 DEF HeldIsFunded, TypeOK, Delivering
    <2>4. KnownToRequest'
      <3> SUFFICES ASSUME NEW r \in Requests PROVE Known(r)'
        BY DEF KnownToRequest
      <3>1. CASE req[r] = Idle
        BY <3>1 DEF Known, At, Idle
      <3>2. CASE req[r] # Idle
        <4>1. req[r].key \in Keys
          BY <1>i, <3>2 DEF TypeOK, ReserveStates
        <4>2. /\ contract'[req[r].key] = "CARD_HOURS_HELD" => contract[req[r].key] = "CARD_HOURS_HELD"
              /\ contract[req[r].key] = "RESERVED" => contract'[req[r].key] = "RESERVED"
          BY <1>i, <2>1, <4>1 DEF TypeOK, Delivering
        <4> QED BY <1>i, <4>2 DEF KnownToRequest, Known, At
      <3> QED BY <3>1, <3>2
    <2> QED BY <1>1, <2>2, <2>3, <2>4 DEF OrderlyInv
  <1>3. ASSUME UNCHANGED contract,
               offer' \in {"PUBLISHED", "PAUSED"} => offer \in {"PUBLISHED", "PAUSED"}
        PROVE  OrderlyInv(own)'
    <2>1. OneReservationPerListing' /\ LiveIsOffTheMarket'
      BY <1>i, <1>3 DEF OneReservationPerListing, LiveIsOffTheMarket, Live
    <2>2. HeldIsFunded' /\ KnownToRequest'
      BY <1>i, <1>3 DEF HeldIsFunded, KnownToRequest, Known, At
    <2> QED BY <1>1, <2>1, <2>2 DEF OrderlyInv
  <1>4. ASSUME NEW new \in {"PUBLISHED", "PAUSED", "UNLISTED"}, UpdateOfferStatus(new) PROVE OrderlyInv(own)'
    BY <1>3, <1>4 DEF UpdateOfferStatus
  <1>5. ASSUME NEW mode \in {"GRACEFUL", "EMERGENCY"}, RetireDevice(mode) PROVE OrderlyInv(own)'
    BY <1>3, <1>5 DEF RetireDevice
  <1> QED BY <1>2, <1>4, <1>5

(* No step of the system disturbs the orderly sale.                        *)
LEMMA OrderlyStep ==
    ASSUME NEW own, Orderly(own), OrderlyInv(own), Quiet, TypeOK', Quiet', Starts(own), [Next]_vars
    PROVE  OrderlyInv(own)'
  <1>1. ASSUME NEW r \in Requests, ReserveStep(r) PROVE OrderlyInv(own)'
    BY <1>1, OrderlyReserveStep
  <1>2. ASSUME NEW r \in Cancels PROVE ~CancelStep(r) /\ ~Crash(r)
    <2>1. At(r, "idle") /\ req'[r].step = "idle"
      BY DEF Quiet, At
    <2>2. ASSUME NEW k \in Keys, NEW x \in CancelKeys PROVE ~BeginCancel(r, k, x)
      <3> SUFFICES ASSUME BeginCancel(r, k, x) PROVE FALSE
        OBVIOUS
      <3>1. \E s \in {"cancel", "cancelled"} : req' = [req EXCEPT ![r] = [step |-> s, key |-> k, id |-> x]]
        BY DEF BeginCancel
      <3>2. req'[r].step \in {"cancel", "cancelled"}
        BY <3>1 DEF OrderlyInv, TypeOK
      <3> QED BY <2>1, <3>2
    <2> QED BY <2>1, <2>2 DEF At, CancelStep, PostCancel, CancelRelease, Crash
  <1>3. ASSUME NEW r \in Requests, Crash(r) PROVE OrderlyInv(own)'
    <2>1. /\ ~At(r, "idle") /\ UNCHANGED <<offer, contract, receipts, hold>>
          /\ req' = [req EXCEPT ![r] = req'[r]] /\ req'[r].step = "idle"
      BY <1>3 DEF Crash, Finish, OrderlyInv, TypeOK, Idle
    <2>2. OwnsItsKey(own)' /\ \A q \in Requests : q # r => Known(q)'
      BY <2>1, OthersKnow
    <2>3. Known(r)'
      BY <2>1 DEF Known, At
    <2> QED BY <2>1, <2>2, <2>3, MarketKept DEF OrderlyInv, KnownToRequest, HeldIsFunded
  <1>4. (\E k \in Keys : AttachSshKey(k) \/ Provision(k))
        \/ (\E new \in {"PUBLISHED", "PAUSED", "UNLISTED"} : UpdateOfferStatus(new))
        \/ (\E mode \in {"GRACEFUL", "EMERGENCY"} : RetireDevice(mode)) => OrderlyInv(own)'
    <2> SUFFICES ASSUME \/ \E k \in Keys : AttachSshKey(k) \/ Provision(k)
                        \/ \E new \in {"PUBLISHED", "PAUSED", "UNLISTED"} : UpdateOfferStatus(new)
                        \/ \E mode \in {"GRACEFUL", "EMERGENCY"} : RetireDevice(mode)
                 PROVE  OrderlyInv(own)'
      OBVIOUS
    <2>1. UNCHANGED <<hold, receipts, req>>
      BY DEF AttachSshKey, Provision, UpdateOfferStatus, RetireDevice
    <2> QED BY <2>1, OrderlyOutsideStep
  <1>5. UNCHANGED vars => OrderlyInv(own)'
    <2> SUFFICES ASSUME UNCHANGED vars PROVE OrderlyInv(own)'
      OBVIOUS
    <2>1. UNCHANGED <<offer, contract, receipts, hold, req>>
      BY DEF vars
    <2> QED BY <2>1, MarketKept DEF OrderlyInv, OwnsItsKey, HeldIsFunded, KnownToRequest, Known, At
  <1> QED BY <1>1, <1>2, <1>3, <1>4, <1>5 DEF Next

(* When clients are orderly, any number of buyers may compete for one      *)
(* listing, lose, be compensated, crash and retry: it is sold to one.      *)
OrderlyClients == Cancels = {} /\ Orderly(KeysOf)

(* The invariant of orderly clients holds of every state they reach.       *)
LEMMA OrderlyInvariant ==
    ASSUME OrderlyClients PROVE Spec => []OrderlyInv(KeysOf)
  <1>1. Quiet /\ Starts(KeysOf) /\ Orderly(KeysOf)
    BY DEF OrderlyClients, Quiet, Starts, BeginReserve
  <1>2. Quiet'
    BY DEF OrderlyClients, Quiet
  <1>3. OrderlyInv(KeysOf) /\ TypeOK' /\ [Next]_vars => OrderlyInv(KeysOf)'
    BY <1>1, <1>2, OrderlyStep
  <1>4. Init => OrderlyInv(KeysOf)
    BY OrderlyInit
  <1> QED BY <1>3, <1>4, TypeCorrect, PTL DEF Spec

(* So no two of their reservations hold the listing at once.               *)
THEOREM OrderlyBuyersShareNothing ==
    ASSUME OrderlyClients PROVE Spec => []OneReservationPerListing
  <1>1. OrderlyInv(KeysOf) => OneReservationPerListing
    BY DEF OrderlyInv
  <1> QED BY <1>1, OrderlyInvariant, PTL

(* And a machine in delivery is not for sale.                              *)
THEOREM OrderlyDeliveryIsNotForSale ==
    ASSUME OrderlyClients PROVE Spec => []NotRelistedAfterProvisioning
  <1>1. OrderlyInv(KeysOf) => NotRelistedAfterProvisioning
    BY DEF OrderlyInv, LiveIsOffTheMarket, Live, NotRelistedAfterProvisioning
  <1> QED BY <1>1, OrderlyInvariant, PTL

(* Both of clients who settle among them, before they begin, which slot    *)
(* sends which key, while others of their kind send any key on any slot.   *)
Settled(own) ==
    /\ TypeOK
    /\ keysOf = own /\ own \in {AnyKeys} \cup OwnKey
    /\ own # AnyKeys => OrderlyInv(own) /\ Quiet

(* Nobody has sent anything yet.                                           *)
LEMMA SettledInit ==
    ASSUME NEW own, MCInit, keysOf = own PROVE Settled(own)
  <1>1. TypeOK
    BY AccountedInit DEF MCInit, Accounted
  <1>2. Quiet
    BY DEF MCInit, Init, Quiet, At, Idle
  <1> QED BY <1>1, <1>2, OrderlyInit DEF MCInit, Settled

(* A client keeps to the keys it settled on, so its steps stay orderly.    *)
LEMMA SettledStep ==
    ASSUME NEW own, Settled(own), TypeOK', [MCNext]_<<vars, keysOf>>
    PROVE  Settled(own)'
  <1>1. keysOf' = own /\ [Next]_vars
    BY DEF Settled, MCNext
  <1>2. CASE own = AnyKeys
    BY <1>1, <1>2 DEF Settled
  <1>3. CASE own # AnyKeys
    <2>1. Orderly(own)
      BY <1>3 DEF OwnKey, Orderly, Settled
    <2>2. OrderlyInv(own) /\ Quiet
      BY <1>3 DEF Settled
    <2>3. Quiet'
      BY <1>1, <1>3, <2>2 DEF Settled, MCNext, Quiet, At, Idle, vars
    <2>4. Starts(own)
      <3> SUFFICES ASSUME NEW r \in Requests, NEW k \in Keys, BeginReserve(r, k) PROVE k \in own[r]
        BY DEF Starts
      <3>1. req'[r].key = k /\ req'[r] # Idle /\ req' # req
        BY DEF BeginReserve, Settled, TypeOK, Idle, At
      <3> QED BY <3>1 DEF MCNext, Settled, vars
    <2> QED BY <1>1, <2>1, <2>2, <2>3, <2>4, OrderlyStep DEF Settled
  <1> QED BY <1>2, <1>3

(* Whoever settled on orderly keys shares the listing with nobody, and a   *)
(* machine they have in delivery is not published                          *)
(* (reserveHostingOffer, markContractHeld, releaseReservation).            *)
THEOREM OrderlySales == MCSpec => []OrderlySaleIsExclusive
  <1>1. ASSUME NEW own PROVE MCSpec /\ keysOf = own => []OrderlySaleIsExclusive
    <2>1. Settled(own) => OrderlySaleIsExclusive
      BY DEF Settled, OrderlySaleIsExclusive, OrderlyInv, LiveIsOffTheMarket, Live,
             NotRelistedAfterProvisioning
    <2>2. MCInit /\ keysOf = own => Settled(own)
      BY SettledInit
    <2>3. Settled(own) /\ TypeOK' /\ [MCNext]_<<vars, keysOf>> => Settled(own)'
      BY SettledStep
    <2>4. MCSpec => Spec
      <3>1. MCInit => Init
        BY DEF MCInit
      <3>2. [MCNext]_<<vars, keysOf>> => [Next]_vars
        BY DEF MCNext
      <3> QED BY <3>1, <3>2, PTL DEF MCSpec, Spec
    <2> QED BY <2>1, <2>2, <2>3, <2>4, TypeCorrect, PTL DEF MCSpec
  <1> QED BY <1>1
=============================================================================
