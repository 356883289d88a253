------------------------------- MODULE Relay -------------------------------
(***************************************************************************)
(* Delivery of outbox events to an external sink under leases.  Several    *)
(* workers may try the same event; a worker may stop at any point, and a   *)
(* slow one may outlive its lease.  Time is counted in ticks that are      *)
(* left: a lease is live and a retry is due while its count is positive.   *)
(***************************************************************************)
EXTENDS Naturals

CONSTANTS
    Events,         \* rows of audit_outbox
    Workers,        \* concurrent calls of Worker.Deliver
    LeaseTicks,     \* five minutes, in ticks
    BackoffCap,     \* 12 in the code: the largest exponent of the backoff
    MaxAttempts     \* bound: claims of one event

ASSUME RelayAssumption ==
    /\ LeaseTicks \in Nat \ {0}
    /\ BackoffCap \in Nat
    /\ MaxAttempts \in Nat

VARIABLES
    relay,       \* rows of outbox_relay_state; `token` is the attempt it names
    work,        \* what each worker is doing: event, lease token, result
    received     \* external: the attempts whose event reached the sink

vars == <<relay, work, received>>

Idle == "idle"

\* The state that AppendInTransaction creates with the event.
Pending == [status |-> "pending", attempts |-> 0, token |-> 0, lease |-> 0, wait |-> 0]

Init ==
    /\ relay = [e \in Events |-> Pending]
    /\ work = [w \in Workers |-> <<Idle>>]
    /\ received = {}

DeliveredAgain(e) ==
    /\ ~(relay[e].status = "in_flight" /\ relay[e].lease > 0)
    /\ ~(relay[e].status = "failed" /\ relay[e].wait > 0)

\* Not delivered, not under a live lease, not waiting for its next attempt.
Ready(e) ==
    /\ relay[e].status # "delivered"
    /\ ~(relay[e].status = "in_flight" /\ relay[e].lease > 0)
    /\ ~(relay[e].status = "failed" /\ relay[e].wait > 0)

Claim(w, e) ==
    LET attempt == relay[e].attempts + 1
    IN  /\ work[w] = <<Idle>>
        /\ attempt <= MaxAttempts
        /\ Ready(e)
        /\ relay' = [relay EXCEPT ![e].status = "in_flight", ![e].attempts = attempt,
                                  ![e].token = attempt, ![e].lease = LeaseTicks]
        /\ work' = [work EXCEPT ![w] = <<"sending", e, attempt>>]
        /\ UNCHANGED received

\* External: the sink may take the event although Send reports an error.
Send(w, taken, success) ==
    /\ work[w][1] = "sending"
    /\ success => taken
    /\ received' = IF taken THEN received \cup {<<work[w][2], work[w][3]>>} ELSE received
    /\ work' = [work EXCEPT ![w][1] = IF success THEN "succeeded" ELSE "failed"]
    /\ UNCHANGED relay

LeaseIsLive(e, token) == relay[e].status = "in_flight" /\ relay[e].lease > 0

\* FinishAt finds its row by the lease token and refuses an expired lease.
LeaseIsMine(e, token) ==
    /\ relay[e].status = "in_flight"
    /\ relay[e].token = token
    /\ relay[e].lease > 0

\* next_attempt_at: 2^attempt seconds, a tick being a second.
Backoff(attempts) == 2 ^ (IF attempts > BackoffCap THEN BackoffCap ELSE attempts)

Finished(state, success) ==
    IF success
    THEN [state EXCEPT !.status = "delivered", !.token = 0, !.lease = 0, !.wait = 0]
    ELSE [state EXCEPT !.status = "failed", !.token = 0, !.lease = 0,
                       !.wait = Backoff(state.attempts)]

\* Finish; a lease that is no longer the worker's leaves the row alone.
Finish(w) ==
    LET e == work[w][2]
    IN  /\ work[w][1] \in {"succeeded", "failed"}
        /\ relay' = IF LeaseIsMine(e, work[w][3])
                    THEN [relay EXCEPT ![e] = Finished(@, work[w][1] = "succeeded")]
                    ELSE relay
        /\ work' = [work EXCEPT ![w] = <<Idle>>]
        /\ UNCHANGED received

\* The process stops, or the database refuses the call.
Crash(w) ==
    /\ work[w] # <<Idle>>
    /\ work' = [work EXCEPT ![w] = <<Idle>>]
    /\ UNCHANGED <<relay, received>>

Less(n) == IF n > 0 THEN n - 1 ELSE 0

Tick ==
    /\ \E e \in Events : relay[e].lease > 0 \/ relay[e].wait > 0
    /\ relay' = [e \in Events |-> [relay[e] EXCEPT !.lease = Less(@), !.wait = Less(@)]]
    /\ UNCHANGED <<work, received>>

Next ==
    \/ \E w \in Workers :
         \/ \E e \in Events : Claim(w, e)
         \/ \E taken, success \in BOOLEAN : Send(w, taken, success)
         \/ Finish(w)
         \/ Crash(w)
    \/ Tick

Spec == Init /\ [][Next]_vars

-----------------------------------------------------------------------------
\* An event counts as delivered only when the sink took it in the attempt
\* whose lease was the last one: a late result of an earlier attempt, of a
\* worker that outlived its lease, is never recorded.
DeliveredByLastAttempt ==
    \A e \in Events :
        relay[e].status = "delivered" => <<e, relay[e].attempts>> \in received

\* A delivered event stays delivered and is never claimed again, whatever
\* late workers and retries do.
DeliveredIsFinal ==
    [][\A e \in Events :
          relay[e].status = "delivered" =>
              /\ relay'[e].status = "delivered"
              /\ relay'[e].attempts = relay[e].attempts]_vars

=============================================================================
