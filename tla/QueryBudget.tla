---------------------------- MODULE QueryBudget ----------------------------
(* The queue in front of the payment provider's query interface            *)
(* (qixiang-query-executor.ts): callback, member and timer share it, one   *)
(* query runs at a time, each has a deadline that counts from when it was  *)
(* queued, and so many may start within a window, which a restart of the   *)
(* process does not reset: it waits a whole window first.                  *)
(*                                                                         *)
(* Times are kept as ages in seconds of the model. Time passes only when   *)
(* the event loop has nothing left to do at this moment. Of the starts it  *)
(* remembers the process asks only how many are younger than a window, so  *)
(* they are kept as so many of each age.                                   *)
EXTENDS Integers, Sequences, SequencesExt

CONSTANTS
    Callers,
    Window,      \* 60 s
    Timeout,     \* 10 s
    Limit,       \* 12 starts
    MaxPending   \* 6 calls

ASSUME QueryBudgetAssumption ==
    /\ Window \in Nat \ {0} /\ Timeout \in 1..Window /\ Limit \in Nat /\ MaxPending \in Nat

VARIABLES
    line,    \* the calls that are pending, the first of them runs or is next
    waited,  \* how long ago a call was queued
    left,    \* what the running call has left, -1 when none runs
    starts,  \* how many starts of each age the process remembers
    up,      \* how long the process is up, up to a window
    sent     \* how many of each age there were, whichever process made them

budgetVars == <<line, waited, left, starts, up, sent>>

Ages     == 0 .. Window - 1
NoStarts == [age \in Ages |-> 0]

BudgetInit ==
    /\ line = <<>> /\ starts = NoStarts /\ sent = NoStarts
    /\ waited = [c \in Callers |-> 0]
    /\ left = -1
    /\ up = 0

-----------------------------------------------------------------------------
(* The starts within a window.                                             *)
Within(count) == MapThenSumSet(LAMBDA age : count[age], Ages)

(* run: a call is refused while the process is young or the line is full.  *)
Enqueue(c) ==
    /\ up >= Window
    /\ Len(line) < MaxPending
    /\ ~Contains(line, c)
    /\ line' = Append(line, c)
    /\ waited' = [waited EXCEPT ![c] = 0]
    /\ UNCHANGED <<left, starts, up, sent>>

ItsTurn(c) == left = -1 /\ line # <<>> /\ Head(line) = c

Start(c) ==
    /\ ItsTurn(c)
    /\ waited[c] < Timeout
    /\ Within(starts) < Limit
    /\ starts' = [starts EXCEPT ![0] = @ + 1]
    /\ sent' = [sent EXCEPT ![0] = @ + 1]
    /\ left' = Timeout - waited[c]
    /\ UNCHANGED <<line, waited, up>>

Refuse(c) ==
    /\ ItsTurn(c)
    /\ waited[c] >= Timeout \/ Within(starts) >= Limit
    /\ line' = Tail(line)
    /\ UNCHANGED <<waited, left, starts, up, sent>>

(* An answer, a failure or the timer.                                      *)
End ==
    /\ left >= 0
    /\ line' = Tail(line)
    /\ left' = -1
    /\ UNCHANGED <<waited, starts, up, sent>>

(* A start that is a window old is not counted any more.                   *)
Older(count) == [age \in Ages |-> IF age = 0 THEN 0 ELSE count[age - 1]]

Tick ==
    /\ IF left = -1 THEN line = <<>> ELSE left > 0
    /\ left' = IF left = -1 THEN -1 ELSE left - 1
    /\ waited' = [c \in Callers |-> IF Contains(line, c) THEN waited[c] + 1 ELSE 0]
    /\ starts' = Older(starts)
    /\ sent' = Older(sent)
    /\ up' = IF up < Window THEN up + 1 ELSE Window
    /\ UNCHANGED line

(* Mutant: a process queries as soon as it is up.                          *)
RestartWarm ==
    /\ line' = <<>> /\ starts' = NoStarts /\ left' = -1
    /\ up' = Window
    /\ UNCHANGED <<waited, sent>>

Restart ==
    /\ line' = <<>> /\ starts' = NoStarts /\ left' = -1
    /\ up' = 0
    /\ UNCHANGED <<waited, sent>>

BudgetNext ==
    \/ \E c \in Callers : Enqueue(c) \/ Start(c) \/ Refuse(c)
    \/ End \/ Tick \/ Restart

BudgetSpec == BudgetInit /\ [][BudgetNext]_budgetVars

-----------------------------------------------------------------------------
BudgetTypeOK ==
    /\ line \in Seq(Callers) /\ Len(line) <= MaxPending
    /\ left \in -1..Timeout /\ up \in 0..Window
    /\ left >= 0 => line # <<>>
    /\ starts \in [Ages -> Nat] /\ sent \in [Ages -> Nat]

(* The provider sees at most so many queries in any window, across         *)
(* restarts, and nobody waits longer than the deadline: queue and query    *)
(* together stay below the lease of who asks.                              *)
BudgetIsKept ==
    /\ Within(sent) <= Limit
    /\ \A i \in DOMAIN line : waited[line[i]] <= Timeout
=============================================================================
