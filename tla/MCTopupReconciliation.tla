----------------------- MODULE MCTopupReconciliation -----------------------
(* Instances of TopupReconciliation for TLC.                               *)
EXTENDS TopupReconciliation, TLC

(* An order belongs to one channel and a caller to one entrance; the two   *)
(* channels share no row and no caller, so their steps commute. TLC looks  *)
(* at each channel with the other at rest.                                 *)
AlipayRests ==
    /\ \A o \in AlipayOrders : status[o] = "PENDING" /\ trade[o] = "open"
    /\ \A c \in AlipayNotifiers : call[c] = IdleCall
QixiangRests ==
    /\ \A o \in QixiangOrders : status[o] = "NONE"
    /\ \A r \in Requests : req[r] = IdleRequest
OneChannelMoves == AlipayRests \/ QixiangRests

(* A member queries while no callback runs and one request at most does.   *)
(* Only the worker is fair, and no bound ever stops the worker.            *)
FewAreBusy ==
    /\ OneChannelMoves
    /\ (\E m \in Members : call[m] # IdleCall) =>
          /\ \A n \in Notifiers : call[n] = IdleCall
          /\ Cardinality({r \in Requests : req[r] # IdleRequest}) <= 1
=============================================================================
