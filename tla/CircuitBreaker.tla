--------------------------- MODULE CircuitBreaker ---------------------------
(***************************************************************************)
(* The circuit breaker around the clients of external services             *)
(* (common/circuit_breaker.py), shared by the threads of a process: no     *)
(* lock guards its fields, so a thread may be preempted between reading    *)
(* and writing them.  Time is whether recovery_timeout has elapsed since   *)
(* the last failure.                                                       *)
(***************************************************************************)
EXTENDS Naturals

CONSTANTS
    Threads,      \* threads that call through the breaker
    Threshold,    \* failure_threshold
    MaxProbes,    \* half_open_max_calls
    MaxFailures,  \* bound: calls that fail
    MaxExcluded   \* bound: calls that end in an excluded exception

BreakerAssumption ==
    /\ {Threshold, MaxProbes} \subseteq Nat \ {0}
    /\ {MaxFailures, MaxExcluded} \subseteq Nat

VARIABLES
    state,        \* _state
    failures,     \* _failure_count
    elapsed,      \* recovery_timeout has passed since _last_failure_time
    probes,       \* _half_open_calls
    thread,       \* where each thread is
    ended         \* calls that failed, and that ended in an excluded exception;
                  \* wasted: a probe was among these

vars == <<state, failures, elapsed, probes, thread, ended>>

Init ==
    /\ state = "closed" /\ failures = 0 /\ elapsed = FALSE /\ probes = 0
    /\ thread = [t \in Threads |-> "idle"]
    /\ ended = [failed |-> 0, excluded |-> 0, wasted |-> FALSE]

Elapse ==
    /\ state # "closed" /\ ~elapsed
    /\ elapsed' = TRUE
    /\ UNCHANGED <<state, failures, probes, thread, ended>>

-----------------------------------------------------------------------------
(* The property "state", read at the start of a call: an open circuit whose *)
(* time has come is about to be half-opened; before that the call raises    *)
(* CircuitOpenError, which changes nothing.                                 *)
Look(t) ==
    /\ thread[t] = "idle"
    /\ state = "open" => elapsed
    /\ thread' = [thread EXCEPT ![t] =
          CASE state = "closed" -> "sent"
            [] state = "open" -> "revive"
            [] state = "half_open" -> "admit"]
    /\ UNCHANGED <<state, failures, elapsed, probes, ended>>

(* With a bug: the count of probes is not reset.                            *)
ProbesKept == probes
ProbesReset == 0

Revive(t) ==
    /\ thread[t] = "revive"
    /\ state' = "half_open"
    /\ probes' = ProbesReset
    /\ thread' = [thread EXCEPT ![t] = "admit"]
    /\ UNCHANGED <<failures, elapsed, ended>>

(* The limit of probes is read, and in a later step the probe counted.      *)
Admit(t) ==
    /\ thread[t] = "admit"
    /\ thread' = [thread EXCEPT ![t] = IF probes < MaxProbes THEN "count" ELSE "idle"]
    /\ UNCHANGED <<state, failures, elapsed, probes, ended>>

Count(t) ==
    /\ thread[t] = "count"
    /\ probes' = probes + 1
    /\ thread' = [thread EXCEPT ![t] = "sent"]
    /\ UNCHANGED <<state, failures, elapsed, ended>>

-----------------------------------------------------------------------------
(* _on_success, whatever the circuit has become since the call began.       *)
Succeed(t) ==
    /\ thread[t] = "sent"
    /\ failures' = 0
    /\ state' = "closed"
    /\ thread' = [thread EXCEPT ![t] = "idle"]
    /\ UNCHANGED <<elapsed, probes, ended>>

(* _on_failure.                                                             *)
Fail(t) ==
    /\ thread[t] = "sent" /\ ended.failed < MaxFailures
    /\ failures' = failures + 1
    /\ elapsed' = FALSE
    /\ state' = IF failures + 1 >= Threshold THEN "open" ELSE state
    /\ thread' = [thread EXCEPT ![t] = "idle"]
    /\ ended' = [ended EXCEPT !.failed = @ + 1]
    /\ UNCHANGED probes

(* An excluded exception, NotFoundException for HubSpot, is raised as it is.*)
Exclude(t) ==
    /\ thread[t] = "sent" /\ ended.excluded < MaxExcluded
    /\ thread' = [thread EXCEPT ![t] = "idle"]
    /\ ended' = [ended EXCEPT !.excluded = @ + 1, !.wasted = @ \/ state = "half_open"]
    /\ UNCHANGED <<state, failures, elapsed, probes>>

Call(t) == Look(t) \/ Revive(t) \/ Admit(t) \/ Count(t) \/ Succeed(t) \/ Fail(t) \/ Exclude(t)

Next == Elapse \/ \E t \in Threads : Call(t)

Spec == Init /\ [][Next]_vars

(* Calls keep being made, and the service answers those that do not fail.   *)
FairSpec ==
    /\ Spec
    /\ WF_vars(Elapse)
    /\ \A t \in Threads : WF_vars(Call(t))

-----------------------------------------------------------------------------
(***************************************************************************)
(* Once the service has recovered, calls get through again: the circuit    *)
(* opens, half-opens and closes, however often the probes fail, and never  *)
(* ends up rejecting every call; unless a probe ended in an excluded       *)
(* exception.  This is for the calls of one thread: when a call that began *)
(* before the circuit opened succeeds while another thread half-opens it,  *)
(* the count of failures restarts, and a failing probe no longer opens the *)
(* circuit, which stays half open with no place for a probe.               *)
(***************************************************************************)
CallsGetThrough == []<>(state = "closed" \/ ended.wasted)

(***************************************************************************)
(* "Non-service failure that should not affect circuit health" (the tests  *)
(* of the breaker, of an excluded exception): a half-open circuit has room *)
(* for a probe or one on its way.  Violated: a probe that ends in an       *)
(* excluded exception keeps its place, and nothing ever gives it back.     *)
(***************************************************************************)
HalfOpenCanProbe ==
    state = "half_open" => probes < MaxProbes \/ \E t \in Threads : thread[t] # "idle"
=============================================================================
