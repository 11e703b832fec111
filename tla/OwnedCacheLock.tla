--------------------------- MODULE OwnedCacheLock ---------------------------
(***************************************************************************)
(* The Redis lock with an owner token and an expiry that serializes the    *)
(* entry tasks of a ticket, the recheck of an opening cohort, the refresh  *)
(* of an agent's load and the effect of an assignment attempt (apps/       *)
(* support/owned_cache_lock.py).  Each use draws a new token; a process    *)
(* that works on after its lock expired does not learn of it.              *)
(***************************************************************************)
EXTENDS Naturals

CONSTANTS
    Workers,     \* processes that use the lock
    MaxTokens    \* bound: tokens drawn

ASSUME LockAssumption == MaxTokens \in Nat

VARIABLES
    key,         \* the token stored under the key, 0 when there is none
    worker,      \* worker[w]: the token of its use, 0 outside; overrun: the
                 \* key expired while it worked
    drawn        \* tokens drawn so far

vars == <<key, worker, drawn>>

Outside == [token |-> 0, overrun |-> FALSE]

Init == key = 0 /\ drawn = 0 /\ worker = [w \in Workers |-> Outside]

-----------------------------------------------------------------------------
(* SET NX with an expiry; a worker that does not get the lock gives up.     *)
Acquire(w) ==
    /\ worker[w] = Outside
    /\ drawn < MaxTokens
    /\ key = 0
    /\ drawn' = drawn + 1
    /\ key' = drawn'
    /\ worker' = [worker EXCEPT ![w].token = drawn']

Expire ==
    /\ key # 0
    /\ key' = 0
    /\ worker' = [w \in Workers |->
          IF worker[w].token = key THEN [worker[w] EXCEPT !.overrun = TRUE] ELSE worker[w]]
    /\ UNCHANGED drawn

(* The compare-and-delete script.  With a bug: the key is deleted as it is. *)
Deletes(w) == 0
ComparedDelete(w) == IF key = worker[w].token THEN 0 ELSE key

Release(w) ==
    /\ worker[w].token # 0
    /\ key' = ComparedDelete(w)
    /\ worker' = [worker EXCEPT ![w] = Outside]
    /\ UNCHANGED drawn

(* The worker is killed: the key stays until it expires.                    *)
Die(w) ==
    /\ worker[w].token # 0
    /\ worker' = [worker EXCEPT ![w] = Outside]
    /\ UNCHANGED <<key, drawn>>

Next == Expire \/ \E w \in Workers : Acquire(w) \/ Release(w) \/ Die(w)

Spec == Init /\ [][Next]_vars

-----------------------------------------------------------------------------
(***************************************************************************)
(* Of two workers that hold the lock at once, one has outlived its lock:   *)
(* the worker that overran cannot, when it ends, open the lock of the      *)
(* worker that followed to a third.                                        *)
(***************************************************************************)
InTime(w) == worker[w].token # 0 /\ ~worker[w].overrun

OneInTime == \A v, w \in Workers : InTime(v) /\ InTime(w) => v = w
=============================================================================
