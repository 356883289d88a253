---------------------------- MODULE RelayProofs ----------------------------
(***************************************************************************)
(* Proofs about the outbox relay, for any number of events, workers and    *)
(* attempts.                                                               *)
(*                                                                         *)
(* A lease token names one attempt, and while an event is in flight it     *)
(* names the last one: a worker whose token is still that of the row holds *)
(* the result of the last attempt.                                         *)
(***************************************************************************)
EXTENDS Relay, TLAPS

Statuses == {"pending", "in_flight", "failed", "delivered"}

\* The time to wait is a power of two, whose type is not needed.
IsState(state) ==
    /\ DOMAIN state = {"status", "attempts", "token", "lease", "wait"}
    /\ state = [x \in DOMAIN state |-> state[x]]
    /\ state.status \in Statuses
    /\ state.attempts \in Nat
    /\ state.lease \in Nat

Tasks == {"sending", "succeeded", "failed"} \X Events \X Nat

RelayTypeOK ==
    /\ relay = [e \in Events |-> relay[e]]
    /\ \A e \in Events : IsState(relay[e])
    /\ work \in [Workers -> Tasks \cup {<<Idle>>}]
    /\ received \subseteq Events \X Nat

\* The token of an event in flight is that of its last attempt.
TokenIsLastAttempt ==
    \A e \in Events :
        relay[e].status = "in_flight" => relay[e].token = relay[e].attempts

\* A worker whose Send succeeded did reach the sink in its attempt.
SuccessWasReceived ==
    \A w \in Workers :
        work[w][1] = "succeeded" => <<work[w][2], work[w][3]>> \in received

RelayInv ==
    /\ RelayTypeOK
    /\ TokenIsLastAttempt
    /\ SuccessWasReceived
    /\ DeliveredByLastAttempt

\* Nothing was claimed yet.
LEMMA RelayInit == Init => RelayInv
  BY DEF Init, RelayInv, RelayTypeOK, IsState, Statuses, Pending, TokenIsLastAttempt,
     SuccessWasReceived, DeliveredByLastAttempt, Idle

\* A claim makes a new attempt, and its token the row's.
LEMMA ClaimStep ==
    ASSUME RelayInv, NEW w \in Workers, NEW e \in Events, Claim(w, e)
    PROVE  RelayInv'
  <1>. DEFINE attempt == relay[e].attempts + 1
  <1>1. attempt \in Nat /\ LeaseTicks \in Nat
    BY RelayAssumption DEF RelayInv, RelayTypeOK, IsState
  <1>2. /\ relay' = [relay EXCEPT ![e] = [relay[e] EXCEPT
                       !.status = "in_flight", !.attempts = attempt,
                       !.token = attempt, !.lease = LeaseTicks]]
        /\ work' = [work EXCEPT ![w] = <<"sending", e, attempt>>]
        /\ received' = received
        /\ relay[e].status # "delivered"
    BY DEF Claim, Ready, RelayInv, RelayTypeOK
  <1>. HIDE DEF attempt
  <1>3. \A f \in Events : f # e => relay'[f] = relay[f]
    BY <1>2 DEF RelayInv, RelayTypeOK
  <1>4. /\ IsState(relay'[e])
        /\ relay'[e].status = "in_flight"
        /\ relay'[e].token = relay'[e].attempts
    BY <1>1, <1>2 DEF RelayInv, RelayTypeOK, IsState, Statuses
  <1>5. RelayTypeOK'
    <2>1. relay' = [f \in Events |-> relay'[f]]
      BY <1>2 DEF RelayInv, RelayTypeOK
    <2>2. \A f \in Events : IsState(relay'[f])
      BY <1>3, <1>4 DEF RelayInv, RelayTypeOK
    <2>3. work' \in [Workers -> Tasks \cup {<<Idle>>}]
      BY <1>1, <1>2 DEF RelayInv, RelayTypeOK, Tasks
    <2>. QED BY <2>1, <2>2, <2>3, <1>2 DEF RelayTypeOK, RelayInv, IsState
  <1>6. TokenIsLastAttempt'
    BY <1>3, <1>4 DEF RelayInv, TokenIsLastAttempt
  <1>7. SuccessWasReceived'
    BY <1>2 DEF RelayInv, RelayTypeOK, SuccessWasReceived
  <1>8. DeliveredByLastAttempt'
    BY <1>2, <1>3, <1>4 DEF RelayInv, DeliveredByLastAttempt
  <1>. QED BY <1>5, <1>6, <1>7, <1>8 DEF RelayInv

\* Success means that the sink took the event.
LEMMA SendStep ==
    ASSUME RelayInv, NEW w \in Workers, NEW taken \in BOOLEAN, NEW success \in BOOLEAN,
           Send(w, taken, success)
    PROVE  RelayInv'
  <1>1. work[w] \in Tasks
    BY DEF Send, RelayInv, RelayTypeOK, Idle
  <1>2. /\ work[w][2] \in Events /\ work[w][3] \in Nat
        /\ work[w] = <<work[w][1], work[w][2], work[w][3]>>
    BY <1>1 DEF Tasks
  <1>3. \A v \in Workers : v # w => work'[v] = work[v]
    BY DEF Send, RelayInv, RelayTypeOK
  <1>4. work'[w] = <<IF success THEN "succeeded" ELSE "failed", work[w][2], work[w][3]>>
    BY <1>2 DEF Send, RelayInv, RelayTypeOK
  <1>5. /\ received \subseteq received' /\ received' \subseteq Events \X Nat
        /\ success => <<work[w][2], work[w][3]>> \in received'
        /\ relay' = relay
    BY <1>2 DEF Send, RelayInv, RelayTypeOK
  <1>6. work' \in [Workers -> Tasks \cup {<<Idle>>}]
    <2>1. work'[w] \in Tasks
      BY <1>2, <1>4 DEF Tasks
    <2>2. work' = [v \in Workers |-> work'[v]]
      BY DEF Send, RelayInv, RelayTypeOK
    <2>. QED BY <2>1, <2>2, <1>3 DEF RelayInv, RelayTypeOK
  <1>7. RelayTypeOK'
    BY <1>5, <1>6 DEF RelayInv, RelayTypeOK, IsState
  <1>8. SuccessWasReceived'
    <2>. SUFFICES ASSUME NEW v \in Workers, work'[v][1] = "succeeded"
                  PROVE  <<work'[v][2], work'[v][3]>> \in received'
      BY DEF SuccessWasReceived
    <2>1. CASE v = w
      BY <2>1, <1>4, <1>5
    <2>2. CASE v # w
      BY <2>2, <1>3, <1>5 DEF RelayInv, SuccessWasReceived
    <2>. QED BY <2>1, <2>2
  <1>9. TokenIsLastAttempt' /\ DeliveredByLastAttempt'
    BY <1>5 DEF RelayInv, TokenIsLastAttempt, DeliveredByLastAttempt
  <1>. QED BY <1>7, <1>8, <1>9 DEF RelayInv

\* A result is recorded only under the token of the last attempt.
LEMMA FinishStep ==
    ASSUME RelayInv, NEW w \in Workers, Finish(w)
    PROVE  RelayInv'
  <1>. DEFINE e == work[w][2]
              success == work[w][1] = "succeeded"
              mine == LeaseIsMine(e, work[w][3])
  <1>1. e \in Events /\ IsState(relay[e])
    BY DEF Finish, RelayInv, RelayTypeOK, Idle, Tasks
  <1>2. /\ relay' = IF mine THEN [relay EXCEPT ![e] = Finished(relay[e], success)] ELSE relay
        /\ work' = [work EXCEPT ![w] = <<Idle>>]
        /\ received' = received
    BY <1>1 DEF Finish, RelayInv, RelayTypeOK
  <1>3. mine => /\ IsState(relay'[e])
                /\ relay'[e].attempts = relay[e].attempts
                /\ relay'[e].status = IF success THEN "delivered" ELSE "failed"
                /\ \A f \in Events : f # e => relay'[f] = relay[f]
                /\ relay' = [f \in Events |-> relay'[f]]
    BY <1>1, <1>2 DEF RelayInv, RelayTypeOK, IsState, Finished, Statuses
  <1>4. ~mine => relay' = relay
    BY <1>2
  <1>5. mine /\ success => <<e, relay[e].attempts>> \in received
    BY <1>1 DEF LeaseIsMine, RelayInv, TokenIsLastAttempt, SuccessWasReceived
  <1>. HIDE DEF e, success, mine
  <1>6. RelayTypeOK'
    <2>1. relay' = [f \in Events |-> relay'[f]] /\ \A f \in Events : IsState(relay'[f])
      BY <1>1, <1>3, <1>4 DEF RelayInv, RelayTypeOK
    <2>2. work' \in [Workers -> Tasks \cup {<<Idle>>}]
      BY <1>2 DEF RelayInv, RelayTypeOK
    <2>. QED BY <2>1, <2>2, <1>2 DEF RelayTypeOK, RelayInv, IsState
  <1>7. TokenIsLastAttempt'
    BY <1>1, <1>3, <1>4 DEF RelayInv, TokenIsLastAttempt
  <1>8. SuccessWasReceived'
    BY <1>2 DEF RelayInv, RelayTypeOK, SuccessWasReceived, Idle
  <1>9. DeliveredByLastAttempt'
    BY <1>1, <1>2, <1>3, <1>4, <1>5 DEF RelayInv, DeliveredByLastAttempt
  <1>. QED BY <1>6, <1>7, <1>8, <1>9 DEF RelayInv

\* A worker that stops leaves row and sink alone.
LEMMA CrashStep ==
    ASSUME RelayInv, NEW w \in Workers, Crash(w)
    PROVE  RelayInv'
  <1>1. work' = [work EXCEPT ![w] = <<Idle>>] /\ relay' = relay /\ received' = received
    BY DEF Crash
  <1>2. RelayTypeOK'
    BY <1>1 DEF RelayInv, RelayTypeOK, IsState
  <1>3. SuccessWasReceived'
    BY <1>1 DEF RelayInv, RelayTypeOK, SuccessWasReceived, Idle
  <1>. QED BY <1>1, <1>2, <1>3 DEF RelayInv, TokenIsLastAttempt, DeliveredByLastAttempt

\* Time moves neither tokens nor attempts.
LEMMA TickStep ==
    ASSUME RelayInv, Tick
    PROVE  /\ RelayInv'
           /\ \A e \in Events : /\ relay'[e].status = relay[e].status
                                /\ relay'[e].attempts = relay[e].attempts
                                /\ relay'[e].token = relay[e].token
  <1>1. ASSUME NEW e \in Events
        PROVE  /\ IsState(relay'[e])
               /\ relay'[e].status = relay[e].status
               /\ relay'[e].attempts = relay[e].attempts
               /\ relay'[e].token = relay[e].token
    <2>1. relay'[e] = [relay[e] EXCEPT !.lease = Less(@), !.wait = Less(@)]
      BY <1>1 DEF Tick
    <2>2. IsState(relay[e]) /\ Less(relay[e].lease) \in Nat
      BY <1>1 DEF RelayInv, RelayTypeOK, IsState, Less
    <2>. QED BY <2>1, <2>2 DEF IsState
  <1>2. relay' = [e \in Events |-> relay'[e]] /\ work' = work /\ received' = received
    BY DEF Tick
  <1>3. RelayTypeOK'
    BY <1>1, <1>2 DEF RelayInv, RelayTypeOK, IsState
  <1>4. TokenIsLastAttempt' /\ DeliveredByLastAttempt'
    BY <1>1, <1>2 DEF RelayInv, TokenIsLastAttempt, DeliveredByLastAttempt
  <1>5. SuccessWasReceived'
    BY <1>2 DEF RelayInv, SuccessWasReceived
  <1>. QED BY <1>1, <1>3, <1>4, <1>5 DEF RelayInv

\* The inductive invariant of ClaimAt, Deliver and FinishAt: the token of an
\* event in flight is that of its last attempt, and a success was received.
THEOREM RelayInvariant == Spec => []RelayInv
  <1>1. ASSUME RelayInv, [Next]_vars PROVE RelayInv'
    <2>1. CASE \E w \in Workers, e \in Events : Claim(w, e)
      BY <1>1, <2>1, ClaimStep
    <2>2. CASE \E w \in Workers, taken, success \in BOOLEAN : Send(w, taken, success)
      BY <1>1, <2>2, SendStep
    <2>3. CASE \E w \in Workers : Finish(w)
      BY <1>1, <2>3, FinishStep
    <2>4. CASE \E w \in Workers : Crash(w)
      BY <1>1, <2>4, CrashStep
    <2>5. CASE Tick
      BY <1>1, <2>5, TickStep
    <2>6. CASE UNCHANGED vars
      BY <1>1, <2>6 DEF RelayInv, RelayTypeOK, IsState, TokenIsLastAttempt,
         SuccessWasReceived, DeliveredByLastAttempt, vars
    <2>. QED BY <1>1, <2>1, <2>2, <2>3, <2>4, <2>5, <2>6 DEF Next
  <1>. QED BY <1>1, RelayInit, PTL DEF Spec

\* An event counts as delivered only when the sink took it in its last
\* attempt: a late result of an earlier attempt is never recorded.
THEOREM LateResultIgnored == Spec => []DeliveredByLastAttempt
  <1>1. RelayInv => DeliveredByLastAttempt
    BY DEF RelayInv
  <1>. QED BY <1>1, RelayInvariant, PTL

\* A delivered event is never claimed, retried or failed again.
THEOREM DeliveredStaysDelivered == Spec => DeliveredIsFinal
  <1>. DEFINE Final == \A e \in Events :
                         relay[e].status = "delivered" =>
                             /\ relay'[e].status = "delivered"
                             /\ relay'[e].attempts = relay[e].attempts
  <1>1. ASSUME RelayInv, Next PROVE Final
    <2>. SUFFICES ASSUME NEW f \in Events, relay[f].status = "delivered"
                  PROVE  relay'[f].status = "delivered" /\ relay'[f].attempts = relay[f].attempts
      OBVIOUS
    <2>1. ASSUME NEW w \in Workers, NEW e \in Events, Claim(w, e)
          PROVE  relay'[f] = relay[f]
      BY <1>1, <2>1 DEF Claim, Ready, RelayInv, RelayTypeOK
    <2>2. ASSUME NEW w \in Workers, Finish(w)
          PROVE  relay'[f] = relay[f]
      BY <1>1, <2>2 DEF Finish, LeaseIsMine, RelayInv, RelayTypeOK
    <2>3. CASE Tick
      BY <1>1, <2>3, TickStep
    <2>. QED BY <1>1, <2>1, <2>2, <2>3 DEF Next, Send, Crash
  <1>2. ASSUME UNCHANGED vars PROVE Final
    BY <1>2 DEF vars
  <1>3. RelayInv /\ [Next]_vars => [Final]_vars
    BY <1>1, <1>2
  <1>. QED BY <1>3, RelayInvariant, PTL DEF Spec, DeliveredIsFinal

=============================================================================
