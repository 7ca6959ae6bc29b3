------------------------------ MODULE LoadWait ------------------------------
(***************************************************************************)
(* GlobalStatus.wait_until_load_low(): poll status variables until each is *)
(* at or below its threshold.  The server's load goes its own way.         *)
(***************************************************************************)
EXTENDS Integers

CONSTANTS
    Variables,   \* status variables of the server
    Levels,      \* values that a variable takes
    Thresholds,  \* the thresholds that callers give: functions from names
    WaitLengths, \* the timeouts that callers give; 0 for no timeout
    Sleep,       \* the sleep between two polls
    MaxClock     \* bound of the model: the clock stops there

ASSUME WaitAssumption ==
    /\ Levels \subseteq Nat /\ WaitLengths \subseteq Nat /\ Sleep \in Nat
    /\ MaxClock \in Nat /\ \A t \in WaitLengths : t < MaxClock

VARIABLES
    time,
    load,  \* the server's status variables
    wait   \* the locals of a call

loadVars == <<time, load, wait>>

NoWait == [at |-> "none", thresholds |-> <<>>, timeout |-> 0, start |-> 0,
           current |-> <<>>, wake |-> 0]

LoadInit ==
    /\ time = 0
    /\ load \in [Variables -> Levels]
    /\ wait = NoWait

CallWait(thresholds, timeout) ==
    /\ wait.at = "none"
    /\ wait' = [NoWait EXCEPT !.at = "poll", !.thresholds = thresholds,
                              !.timeout = timeout, !.start = time]
    /\ UNCHANGED <<time, load>>

\* get_many() answers for the names that the server knows, in one statement.
PollOnce(w) ==  \* mutant: looks at the load once only
    IF w.current # <<>> THEN w.current
    ELSE [n \in Variables \cap DOMAIN w.thresholds |-> load[n]]
Polled(w) == [n \in Variables \cap DOMAIN w.thresholds |-> load[n]]

Poll ==
    /\ wait.at = "poll"
    /\ wait' = [wait EXCEPT !.at = "decide", !.current = Polled(wait)]
    /\ UNCHANGED <<time, load>>

Higher(w) == {n \in DOMAIN w.current : w.current[n] > w.thresholds[n]}
TooLateAgain(w) == w.timeout # 0 /\ time > w.wake + w.timeout  \* mutant:
                            \* counts from the latest sleep
TooLate(w) == w.timeout # 0 /\ time > w.start + w.timeout

Decide ==
    /\ wait.at = "decide"
    /\ wait' = IF Higher(wait) = {} THEN [wait EXCEPT !.at = "returned"]
               ELSE IF TooLate(wait) THEN [wait EXCEPT !.at = "TimeoutError"]
               ELSE [wait EXCEPT !.at = "sleep", !.wake = time + Sleep]
    /\ UNCHANGED <<time, load>>

\* At the bound of the clock nothing is left to wait for.
Wake ==
    /\ wait.at = "sleep" /\ (time >= wait.wake \/ time = MaxClock)
    /\ wait' = [wait EXCEPT !.at = "poll"]
    /\ UNCHANGED <<time, load>>

TimePasses ==
    /\ wait.at # "none" /\ time < MaxClock
    /\ time' = time + 1 /\ UNCHANGED <<load, wait>>

LoadChanges ==
    /\ wait.at # "none"
    /\ load' \in [Variables -> Levels] /\ UNCHANGED <<time, wait>>

LoadNext ==
    \/ \E t \in Thresholds, n \in WaitLengths : CallWait(t, n)
    \/ Poll \/ Decide \/ Wake \/ TimePasses \/ LoadChanges

-----------------------------------------------------------------------------
(* Properties *)

Waiting == wait.at \in {"poll", "decide", "sleep"}
LoadLow == \A n \in Variables \cap DOMAIN wait.thresholds :
                load[n] <= wait.thresholds[n]

\* A wait with a timeout ends, whatever the load does.
TimedWaitEnds == Waiting /\ wait.timeout # 0 ~> ~Waiting

\* Once the load stays low a wait ends, even one without a timeout.
LowLoadEndsWait == <>[]LoadLow => (Waiting ~> ~Waiting)

=============================================================================
