-------------------------- MODULE LinkTimersProofs --------------------------
(***************************************************************************)
(* For any intervals and timeouts: how long the router can take a          *)
(* neighbour that is gone for alive, how long it can keep its route, and   *)
(* that it does not give up a neighbour that is there, and how long it     *)
(* takes to have the route that the neighbour offers.                      *)
(***************************************************************************)
EXTENDS LinkTimers, TLAPS

LEMMA Intervals ==
    /\ HELLO_INTERVAL \in Nat /\ HELLO_INTERVAL > 0
    /\ UPDATE_INTERVAL \in Nat /\ UPDATE_INTERVAL > 0
    /\ CLEANUP_INTERVAL \in Nat /\ CLEANUP_INTERVAL > 0
    /\ NEIGHBOR_TIMEOUT \in Nat
    /\ ROUTE_TIMEOUT \in Nat
    /\ NEIGHBOR_TIMEOUT <= ROUTE_TIMEOUT
    /\ MaxLost \in Nat
BY IntervalAssumption, LinkAssumption

(* What a cleanup does, whichever way the ages at a timeout are taken. *)
LEMMA Cleanup ==
    ASSUME perform_cleanup, last_seen \in Nat, last_advertised \in Nat
    PROVE  \E silent, stale \in BOOLEAN :
             /\ silent => last_seen >= NEIGHBOR_TIMEOUT
             /\ ~silent => last_seen <= NEIGHBOR_TIMEOUT
             /\ ~stale => last_advertised <= ROUTE_TIMEOUT
             /\ neighbor' = IF neighbor = "unknown" THEN "unknown"
                            ELSE IF silent THEN "dead" ELSE "alive"
             /\ IF removed(silent, stale)
                THEN route' = NoRoute /\ last_advertised' = 0
                ELSE UNCHANGED <<route, last_advertised>>
<1>1. PICK silent \in expired(last_seen, NEIGHBOR_TIMEOUT),
           stale \in expired(last_advertised, ROUTE_TIMEOUT) :
             /\ neighbor' = IF neighbor = "unknown" THEN "unknown"
                            ELSE IF silent THEN "dead" ELSE "alive"
             /\ IF removed(silent, stale)
                THEN route' = NoRoute /\ last_advertised' = 0
                ELSE UNCHANGED <<route, last_advertised>>
  BY DEF perform_cleanup
<1>2. /\ silent \in BOOLEAN
      /\ silent => last_seen >= NEIGHBOR_TIMEOUT
      /\ ~silent => last_seen <= NEIGHBOR_TIMEOUT
  BY Intervals DEF expired
<1>3. /\ stale \in BOOLEAN
      /\ ~stale => last_advertised <= ROUTE_TIMEOUT
  BY Intervals DEF expired
<1> QED
  BY <1>1, <1>2, <1>3

(* The types, without the bound of differs: it is no part of the argument. *)
Types ==
    /\ sending \in BOOLEAN
    /\ until_hello \in 0 .. HELLO_INTERVAL
    /\ lost \in [Message -> 0 .. MaxLost]
    /\ until_cleanup \in 0 .. CLEANUP_INTERVAL
    /\ neighbor \in {"unknown", "alive", "dead"}
    /\ last_seen \in Nat
    /\ last_advertised \in Nat
    /\ since \in Nat

(* What an age can be when until_cleanup seconds are left to the cleanup   *)
(* that looks whether it is over the timeout.                              *)
Looked(age, timeout) == age + until_cleanup <= timeout + CLEANUP_INTERVAL

(* Until the next cleanup no age is over its timeout by more than the time *)
(* since the last one; and while the neighbour is gone the ages go with    *)
(* the time it has been gone.                                              *)
TimerInv ==
    /\ Types
    /\ neighbor = "alive" => Looked(last_seen, NEIGHBOR_TIMEOUT)
    /\ neighbor = "alive" /\ ~sending => since <= last_seen
    /\ neighbor = "dead" =>
          /\ last_seen >= NEIGHBOR_TIMEOUT
          /\ last_seen = NEIGHBOR_TIMEOUT => until_cleanup > 0
          /\ route = NoRoute
    /\ neighbor = "unknown" /\ route # NoRoute =>
          /\ Looked(last_advertised, ROUTE_TIMEOUT)
          /\ ~sending => since <= last_advertised

LEMMA InitTimerInv == Init => TimerInv
<1> SUFFICES ASSUME Init
             PROVE  TimerInv
  OBVIOUS
<1>1. lost \in [Message -> 0 .. MaxLost]
  BY Intervals DEF Init
<1>2. until_hello \in 0 .. HELLO_INTERVAL
  BY Intervals DEF Init
<1>3. Types
  BY <1>1, <1>2 DEF Init, Types
<1> QED
  BY <1>3 DEF Init, TimerInv

LEMMA NextTypes ==
    ASSUME Types, [Next]_vars
    PROVE  Types'
<1> USE Intervals DEF Types, timers, ages
<1>1. CASE Start
  BY <1>1 DEF Start
<1>2. CASE Stop
  BY <1>2 DEF Stop
<1>3. CASE Change
  BY <1>3 DEF Change
<1>4. CASE handle_hello_message \/ HelloLost
  BY <1>4 DEF handle_hello_message, HelloLost, hello_task, Arrives, Lost
<1>5. CASE handle_update_message \/ UpdateLost
  BY <1>5 DEF handle_update_message, UpdateLost, update_task, Arrives, Lost
<1>6. CASE perform_cleanup
  BY <1>6, Cleanup DEF perform_cleanup
<1>7. CASE SecondPasses
  BY <1>7 DEF SecondPasses, older
<1>8. CASE UNCHANGED vars
  BY <1>8 DEF vars
<1> QED
  BY <1>1, <1>2, <1>3, <1>4, <1>5, <1>6, <1>7, <1>8 DEF Next, Steady

LEMMA NextTimerInv ==
    ASSUME TimerInv, [Next]_vars
    PROVE  TimerInv'
<1> USE Intervals DEF TimerInv, Types, Looked, timers, ages
<1>0. Types'
  BY NextTypes
<1>1. CASE Start
  BY <1>0, <1>1 DEF Start
<1>2. CASE Stop
  BY <1>0, <1>2 DEF Stop
<1>3. CASE Change
  BY <1>0, <1>3 DEF Change
<1>4. CASE handle_hello_message
  BY <1>0, <1>4 DEF handle_hello_message, hello_task
<1>5. CASE HelloLost
  BY <1>0, <1>5 DEF HelloLost, hello_task
<1>6. CASE handle_update_message
  <2>1. sending' /\ UNCHANGED until_cleanup
    BY <1>6 DEF handle_update_message, update_task
  <2>2. CASE neighbor = "unknown"
    <3>1. neighbor' = "unknown"
      BY <1>6, <2>2 DEF handle_update_message
    <3>2. \/ last_advertised' = 0
          \/ route' = route /\ last_advertised' = last_advertised
      BY <1>6 DEF handle_update_message
    <3>3. route' # NoRoute => Looked(last_advertised, ROUTE_TIMEOUT)'
      <4>1. CASE last_advertised' = 0
        BY <2>1, <4>1
      <4>2. CASE route' = route /\ last_advertised' = last_advertised
        <5>1. route # NoRoute => Looked(last_advertised, ROUTE_TIMEOUT)
          BY <2>2
        <5>2. Looked(last_advertised, ROUTE_TIMEOUT)' <=> Looked(last_advertised, ROUTE_TIMEOUT)
          BY <2>1, <4>2
        <5> QED
          BY <4>2, <5>1, <5>2
      <4> QED
        BY <3>2, <4>1, <4>2
    <3> QED
      BY <1>0, <2>1, <3>1, <3>3
  <2>3. CASE neighbor # "unknown"
    BY <1>0, <1>6, <2>1, <2>3 DEF handle_update_message
  <2> QED
    BY <2>2, <2>3
<1>7. CASE perform_cleanup
  <2>1. until_cleanup' = CLEANUP_INTERVAL /\ UNCHANGED <<sending, last_seen, since>>
    BY <1>7 DEF perform_cleanup
  <2>2. until_cleanup = 0
    BY <1>7 DEF perform_cleanup
  <2>3. PICK silent, stale \in BOOLEAN :
             /\ silent => last_seen >= NEIGHBOR_TIMEOUT
             /\ ~silent => last_seen <= NEIGHBOR_TIMEOUT
             /\ ~stale => last_advertised <= ROUTE_TIMEOUT
             /\ neighbor' = IF neighbor = "unknown" THEN "unknown"
                            ELSE IF silent THEN "dead" ELSE "alive"
             /\ IF removed(silent, stale)
                THEN route' = NoRoute /\ last_advertised' = 0
                ELSE UNCHANGED <<route, last_advertised>>
    BY <1>7, Cleanup
  <2>4. CASE neighbor = "unknown"
    <3>1. neighbor' = "unknown"
      BY <2>3, <2>4
    <3>2. \/ route' = NoRoute
          \/ /\ last_advertised <= ROUTE_TIMEOUT
             /\ route' = route /\ last_advertised' = last_advertised
      BY <2>3 DEF removed
    <3>3. route' # NoRoute => /\ Looked(last_advertised, ROUTE_TIMEOUT)'
                              /\ ~sending' => since' <= last_advertised'
      <4> SUFFICES ASSUME route' # NoRoute
                   PROVE  /\ Looked(last_advertised, ROUTE_TIMEOUT)'
                          /\ ~sending' => since' <= last_advertised'
        OBVIOUS
      <4>1. last_advertised <= ROUTE_TIMEOUT /\ last_advertised' = last_advertised /\ route' = route
        BY <3>2
      <4>2. Looked(last_advertised, ROUTE_TIMEOUT)'
        BY <2>1, <4>1
      <4>3. ~sending => since <= last_advertised
        BY <2>4, <4>1
      <4> QED
        BY <2>1, <4>1, <4>2, <4>3
    <3> QED
      BY <1>0, <3>1, <3>3
  <2>5. CASE neighbor = "alive"
    BY <1>0, <2>1, <2>2, <2>3, <2>5 DEF removed
  <2>6. CASE neighbor = "dead"
    BY <1>0, <2>1, <2>2, <2>3, <2>6 DEF removed
  <2> QED
    BY <2>4, <2>5, <2>6
<1>8. CASE SecondPasses
  BY <1>0, <1>8 DEF SecondPasses, older, MaxSeen, MaxAdvertised, MaxSince
<1>9. CASE UpdateLost
  BY <1>0, <1>9 DEF UpdateLost, update_task
<1>10. CASE UNCHANGED vars
  BY <1>0, <1>10 DEF vars
<1> QED
  BY <1>1, <1>2, <1>3, <1>4, <1>5, <1>6, <1>7, <1>8, <1>9, <1>10 DEF Next, Steady

LEMMA TimersInvariant == Spec => []TimerInv
BY InitTimerInv, NextTimerInv, PTL DEF Spec

(* Whatever the intervals: a neighbour that is gone is not taken for alive *)
(* longer than its timeout and one cleanup interval.                       *)
THEOREM DeathIsDetected == Spec => []DeathDetected
<1>1. TimerInv => DeathDetected
  BY Intervals DEF TimerInv, Types, Looked, DeathDetected
<1> QED
  BY TimersInvariant, <1>1, PTL

(* Whatever the intervals: its route goes with it, or expires.             *)
THEOREM DeadRoutesGo == Spec => []DeadRouteGoes
<1>1. TimerInv => DeadRouteGoes
  BY Intervals DEF TimerInv, Types, Looked, DeadRouteGoes
<1> QED
  BY TimersInvariant, <1>1, PTL

(* Since the last HELLO that arrived, or since the neighbour was started,  *)
(* all HELLOs have been lost.                                              *)
HelloInv ==
    sending /\ neighbor = "alive" =>
        \/ last_seen + until_hello <= lost["hello"] * HELLO_INTERVAL + HELLO_INTERVAL
        \/ since + until_hello <= lost["hello"] * HELLO_INTERVAL

LEMMA LossesTakeTime ==
    ASSUME NEW n \in 0 .. MaxLost
    PROVE  /\ n * HELLO_INTERVAL \in Nat
           /\ (n + 1) * HELLO_INTERVAL = n * HELLO_INTERVAL + HELLO_INTERVAL
           /\ n * HELLO_INTERVAL <= MaxLost * HELLO_INTERVAL
BY IntervalAssumption, LinkAssumption

LEMMA NextHelloInv ==
    ASSUME TimerInv, HelloInv, [Next]_vars
    PROVE  HelloInv'
<1> DEFINE n == lost["hello"]
<1> USE Intervals DEF TimerInv, Types, HelloInv, timers, ages, Message
<1>0. /\ n \in 0 .. MaxLost
      /\ n * HELLO_INTERVAL \in Nat
      /\ (n + 1) * HELLO_INTERVAL = n * HELLO_INTERVAL + HELLO_INTERVAL
  BY LossesTakeTime
<1>1. CASE Start
  BY <1>0, <1>1 DEF Start
<1>2. CASE Stop \/ Change
  BY <1>2 DEF Stop, Change
<1>3. CASE handle_hello_message
  BY <1>3 DEF handle_hello_message, hello_task, Arrives
<1>4. CASE HelloLost
  <2>1. lost'["hello"] = n + 1 /\ until_hello = 0 /\ until_hello' = HELLO_INTERVAL
    BY <1>4 DEF HelloLost, hello_task, Lost
  <2>2. UNCHANGED <<sending, neighbor, last_seen, since>>
    BY <1>4 DEF HelloLost, hello_task
  <2> QED
    BY <1>0, <2>1, <2>2
<1>5. CASE handle_update_message
  <2>1. lost'["hello"] = n /\ UNCHANGED <<sending, until_hello, since>>
    BY <1>5 DEF handle_update_message, update_task, Arrives
  <2>2. neighbor' = "alive" => last_seen' = 0
    BY <1>5 DEF handle_update_message
  <2> QED
    BY <1>0, <2>1, <2>2
<1>6. CASE UpdateLost
  BY <1>6 DEF UpdateLost, update_task, Lost
<1>7. CASE perform_cleanup
  BY <1>7, Cleanup DEF perform_cleanup
<1>8. CASE SecondPasses
  BY <1>0, <1>8 DEF SecondPasses, older
<1>9. CASE UNCHANGED vars
  BY <1>9 DEF vars
<1> QED
  BY <1>1, <1>2, <1>3, <1>4, <1>5, <1>6, <1>7, <1>8, <1>9 DEF Next, Steady

(* When NEIGHBOR_TIMEOUT is longer than MaxLost + 1 HELLO intervals, a     *)
(* neighbour that has run for MaxLost of them is never declared dead.      *)
THEOREM NoNeighborDiesFalsely ==
    ASSUME (MaxLost + 1) * HELLO_INTERVAL < NEIGHBOR_TIMEOUT
    PROVE  Spec => NoFalseDeath
<1>1. Init => HelloInv
  BY DEF Init, HelloInv
<1>2. TimerInv /\ HelloInv /\ [Next]_vars => HelloInv'
  BY NextHelloInv
<1>3. TimerInv /\ HelloInv /\ [Next]_vars =>
          [neighbor = "alive" /\ neighbor' = "dead" =>
               ~sending \/ since <= MaxLost * HELLO_INTERVAL]_vars
  <2> SUFFICES ASSUME TimerInv, HelloInv, Next, neighbor = "alive", neighbor' = "dead", sending
               PROVE  since <= MaxLost * HELLO_INTERVAL
    BY DEF vars
  <2> DEFINE n == lost["hello"]
  <2>1. last_seen >= NEIGHBOR_TIMEOUT
    BY Cleanup
    DEF Next, Steady, Start, Stop, Change, handle_hello_message, HelloLost, hello_task,
        handle_update_message, UpdateLost, update_task, SecondPasses, TimerInv, Types
  <2>2. n \in 0 .. MaxLost
    BY DEF TimerInv, Types, Message
  <2>3. /\ n * HELLO_INTERVAL \in Nat
        /\ n * HELLO_INTERVAL <= MaxLost * HELLO_INTERVAL
        /\ (MaxLost + 1) * HELLO_INTERVAL = MaxLost * HELLO_INTERVAL + HELLO_INTERVAL
        /\ MaxLost * HELLO_INTERVAL \in Nat
    BY <2>2, LossesTakeTime, Intervals
  <2>4. ~(last_seen + until_hello <= n * HELLO_INTERVAL + HELLO_INTERVAL)
    BY <2>1, <2>3, Intervals DEF TimerInv, Types
  <2>5. since + until_hello <= n * HELLO_INTERVAL
    BY <2>4 DEF HelloInv
  <2> QED
    BY <2>3, <2>5, Intervals DEF TimerInv, Types
<1> QED
  BY TimersInvariant, <1>1, <1>2, <1>3, PTL DEF Spec, NoFalseDeath

(* The ages are cut off at their bounds, and the metric the router has is  *)
(* always one that the neighbour has offered.                              *)
LEMMA InitTypeOK == Init => TypeOK
<1> SUFFICES ASSUME Init
             PROVE  TypeOK
  OBVIOUS
<1>1. (MaxLost + 1) * UPDATE_INTERVAL \in Nat
  BY Intervals
<1>2. MaxSeen \in Nat /\ MaxAdvertised \in Nat /\ MaxSince \in Nat /\ MaxDiffers \in Nat
  BY <1>1, Intervals DEF MaxSeen, MaxAdvertised, MaxSince, MaxDiffers
<1>3. lost \in [Message -> 0 .. MaxLost]
  BY Intervals DEF Init
<1>4. until_hello \in 0 .. HELLO_INTERVAL /\ until_update \in 0 .. UPDATE_INTERVAL
  BY Intervals DEF Init
<1>5. /\ last_seen \in 0 .. MaxSeen
      /\ last_advertised \in 0 .. MaxAdvertised
      /\ since \in 0 .. MaxSince
      /\ differs \in 0 .. MaxDiffers
  BY <1>2 DEF Init
<1> QED
  BY <1>3, <1>4, <1>5 DEF Init, TypeOK

LEMMA OlderStaysBounded ==
    ASSUME NEW bound \in Nat, NEW age \in 0 .. bound
    PROVE  older(age, bound) \in 0 .. bound
BY DEF older

(* What TypeOK says that Types does not. *)
Bounded ==
    /\ offered \in Offer
    /\ until_update \in 0 .. UPDATE_INTERVAL
    /\ last_seen \in 0 .. MaxSeen
    /\ route \in {m + 1 : m \in Metric} \cup {NoRoute}
    /\ last_advertised \in 0 .. MaxAdvertised
    /\ since \in 0 .. MaxSince
    /\ differs \in 0 .. MaxDiffers

LEMMA TypeOKIsBounded == TypeOK <=> Types /\ Bounded
<1>1. (MaxLost + 1) * UPDATE_INTERVAL \in Nat
  BY Intervals
<1>2. MaxSeen \in Nat /\ MaxAdvertised \in Nat /\ MaxSince \in Nat
  BY Intervals DEF MaxSeen, MaxAdvertised, MaxSince
<1> QED
  BY <1>2 DEF TypeOK, Types, Bounded

LEMMA NextBounded ==
    ASSUME Types, Bounded, [Next]_vars
    PROVE  Bounded'
<1>1. (MaxLost + 1) * UPDATE_INTERVAL \in Nat
  BY Intervals
<1>2. MaxSeen \in Nat /\ MaxAdvertised \in Nat /\ MaxSince \in Nat /\ MaxDiffers \in Nat
  BY <1>1, Intervals DEF MaxSeen, MaxAdvertised, MaxSince, MaxDiffers
<1> USE <1>2, Intervals DEF Bounded, timers, ages
<1>3. CASE Start
  BY <1>3 DEF Start
<1>4. CASE Stop
  BY <1>4 DEF Stop
<1>5. CASE Change
  BY <1>5 DEF Change
<1>6. CASE handle_hello_message \/ HelloLost
  BY <1>6 DEF handle_hello_message, HelloLost, hello_task
<1>7. CASE handle_update_message
  <2>1. until_update' \in 0 .. UPDATE_INTERVAL /\ UNCHANGED <<offered, since>>
    BY <1>7 DEF handle_update_message, update_task
  <2>2. last_seen' \in 0 .. MaxSeen
    BY <1>7 DEF handle_update_message
  <2>3. /\ route' \in {m + 1 : m \in Metric} \cup {NoRoute}
        /\ last_advertised' \in 0 .. MaxAdvertised
        /\ differs' \in 0 .. MaxDiffers
    BY <1>7 DEF handle_update_message, accepted, next_metric, Offer
  <2> QED
    BY <2>1, <2>2, <2>3
<1>8. CASE UpdateLost
  BY <1>8 DEF UpdateLost, update_task
<1>9. CASE perform_cleanup
  <2>1. last_seen \in Nat /\ last_advertised \in Nat
    BY DEF Types
  <2> QED
    BY <1>9, <2>1, Cleanup DEF perform_cleanup
<1>10. CASE SecondPasses
  <2>1. /\ older(last_seen, MaxSeen) \in 0 .. MaxSeen
        /\ older(last_advertised, MaxAdvertised) \in 0 .. MaxAdvertised
        /\ older(since, MaxSince) \in 0 .. MaxSince
        /\ older(differs, MaxDiffers) \in 0 .. MaxDiffers
    BY OlderStaysBounded
  <2> QED
    BY <1>10, <2>1 DEF SecondPasses
<1>11. CASE UNCHANGED vars
  BY <1>11 DEF vars
<1> QED
  BY <1>3, <1>4, <1>5, <1>6, <1>7, <1>8, <1>9, <1>10, <1>11 DEF Next, Steady

(* The types of the state, for any intervals. *)
THEOREM TimersTypeCorrect == Spec => []TypeOK
<1>1. TypeOK /\ [Next]_vars => TypeOK'
  <2> SUFFICES ASSUME TypeOK, [Next]_vars
               PROVE  TypeOK'
    OBVIOUS
  <2>1. Types' /\ Bounded'
    BY TypeOKIsBounded, NextTypes, NextBounded
  <2>2. TypeOK' <=> Types' /\ Bounded'
    BY TypeOKIsBounded, PTL
  <2> QED
    BY <2>1, <2>2
<1> QED
  BY InitTypeOK, <1>1, PTL DEF Spec

(***************************************************************************)
(* How long news of the neighbour's route takes.                           *)
(***************************************************************************)
Rounds == {j * UPDATE_INTERVAL : j \in Nat}

LEMMA RoundsPass ==
    /\ Rounds \subseteq Nat
    /\ 0 \in Rounds
    /\ \A r \in Rounds : r + UPDATE_INTERVAL \in Rounds
    /\ \A r, s \in Rounds : r < s + UPDATE_INTERVAL => r <= s
<1> DEFINE U == UPDATE_INTERVAL
<1>1. U \in Nat /\ U > 0
  BY Intervals
<1>2. \A j \in Nat : j * U \in Nat /\ (j + 1) * U = j * U + U
  BY <1>1
<1>3. \A i, j \in Nat : i * U < j * U + U => i * U <= j * U
  <2> SUFFICES ASSUME NEW i \in Nat, NEW j \in Nat, i * U < j * U + U
               PROVE  i * U <= j * U
    OBVIOUS
  <2>1. CASE i <= j
    BY <1>1, <2>1
  <2>2. CASE i > j
    <3>1. (j + 1) * U <= i * U
      BY <1>1, <2>2
    <3> QED
      BY <1>1, <1>2, <3>1
  <2> QED
    BY <2>1, <2>2
<1>4. 0 \in Rounds
  <2>1. 0 = 0 * U
    BY <1>1
  <2> QED
    BY <2>1 DEF Rounds
<1>5. \A r \in Rounds : r + U \in Rounds
  <2> SUFFICES ASSUME NEW j \in Nat
               PROVE  j * U + U \in Rounds
    BY DEF Rounds
  <2>1. j + 1 \in Nat /\ j * U + U = (j + 1) * U
    BY <1>2
  <2> QED
    BY <2>1 DEF Rounds
<1> QED
  BY <1>2, <1>3, <1>4, <1>5 DEF Rounds

(* An age that was 0 when an UPDATE was sent. *)
Phased(age) == age + until_update \in Rounds

Losses == lost["update"] * UPDATE_INTERVAL

LEMMA LostUpdates ==
    ASSUME Types
    PROVE  /\ Losses \in Nat
           /\ Losses + UPDATE_INTERVAL <= (MaxLost + 1) * UPDATE_INTERVAL
           /\ (MaxLost + 1) * UPDATE_INTERVAL \in Nat
           /\ (lost["update"] + 1) * UPDATE_INTERVAL = Losses + UPDATE_INTERVAL
<1>1. lost["update"] \in 0 .. MaxLost
  BY DEF Types, Message
<1>2. \A n \in 0 .. MaxLost :
         /\ n * UPDATE_INTERVAL \in Nat
         /\ (n + 1) * UPDATE_INTERVAL = n * UPDATE_INTERVAL + UPDATE_INTERVAL
         /\ (n + 1) * UPDATE_INTERVAL <= (MaxLost + 1) * UPDATE_INTERVAL
  BY IntervalAssumption, LinkAssumption
<1> QED
  BY <1>1, <1>2, Intervals DEF Losses

(* While the router has a route, the UPDATEs that are refused or lost do   *)
(* not keep it from expiring, and its age, or the time since the neighbour *)
(* was started, is in phase with them; so when the route goes, the next    *)
(* UPDATE is due at most one round after ROUTE_TIMEOUT, and every one that *)
(* is lost then costs another round.                                       *)
NewsInv ==
    /\ until_update \in 0 .. UPDATE_INTERVAL
    /\ differs \in Nat
    /\ ~sending => differs = 0
    /\ sending => differs <= since \/ since >= MaxSince
    /\ route # NoRoute =>
          /\ Looked(last_advertised, ROUTE_TIMEOUT)
          /\ differs <= last_advertised
          /\ sending => \/ Phased(last_advertised)
                        \/ Phased(since) /\ since <= last_advertised
    /\ sending /\ route = NoRoute =>
          differs + until_update <= ROUTE_TIMEOUT + UPDATE_INTERVAL + Losses

(* A route that is not there and not offered is no news.                   *)
NoNews == route = NoRoute /\ offered = NoRoute => differs = 0

LEMMA NextNoNews ==
    ASSUME Types, Bounded, NoNews, [Next]_vars
    PROVE  NoNews'
<1> USE LinkAssumption DEF NoNews, timers, ages
<1>1. CASE Start \/ Stop \/ Change
  BY <1>1 DEF Start, Stop, Change
<1>2. CASE handle_hello_message \/ HelloLost
  BY <1>2 DEF handle_hello_message, HelloLost, hello_task
<1>3. CASE handle_update_message
  <2>1. UNCHANGED offered
    BY <1>3 DEF handle_update_message, update_task
  <2>2. accepted => differs' = 0
    BY <1>3 DEF handle_update_message
  <2>3. ~accepted => UNCHANGED <<route, differs>>
    BY <1>3 DEF handle_update_message
  <2> QED
    BY <2>1, <2>2, <2>3
<1>4. CASE UpdateLost
  BY <1>4 DEF UpdateLost, update_task
<1>5. CASE perform_cleanup
  <2>1. /\ UNCHANGED offered
        /\ differs' = IF route' = news THEN 0 ELSE differs
    BY <1>5 DEF perform_cleanup
  <2> QED
    BY <2>1 DEF news
<1>6. CASE SecondPasses
  <2>1. UNCHANGED <<offered, route>>
    BY <1>6 DEF SecondPasses
  <2>2. (sending /\ route # news) \/ differs' = 0
    BY <1>6 DEF SecondPasses
  <2> QED
    BY <2>1, <2>2 DEF news
<1>7. CASE UNCHANGED vars
  BY <1>7 DEF vars
<1> QED
  BY <1>1, <1>2, <1>3, <1>4, <1>5, <1>6, <1>7 DEF Next, Steady

LEMMA NextNewsInv ==
    ASSUME ROUTE_TIMEOUT \in Rounds, CLEANUP_INTERVAL < UPDATE_INTERVAL,
           Types, NoNews, NewsInv, [Next]_vars
    PROVE  NewsInv'
<1> USE Intervals DEF Types, NewsInv, Looked, timers, ages
<1>0. Losses \in Nat
  BY LostUpdates
<1>1. CASE Start
  <2>1. sending' /\ since' = 0 /\ until_update' = 0 /\ differs' = 0
    BY <1>1 DEF Start
  <2>2. UNCHANGED <<lost, until_cleanup, route, last_advertised>>
    BY <1>1 DEF Start
  <2>3. Phased(since)' /\ since' <= last_advertised'
    BY <2>1, <2>2, RoundsPass DEF Phased
  <2>4. Losses' = Losses
    BY <2>2 DEF Losses
  <2> QED
    BY <1>0, <2>1, <2>2, <2>3, <2>4
<1>2. CASE Stop
  BY <1>2 DEF Stop
<1>3. CASE Change
  <2>1. differs' = 0
    BY <1>3 DEF Change
  <2>2. UNCHANGED <<sending, lost, until_update, until_cleanup, route, last_advertised, since>>
    BY <1>3 DEF Change
  <2>3. Losses' = Losses /\ (Phased(last_advertised)' <=> Phased(last_advertised))
    BY <2>2 DEF Losses, Phased
  <2>4. Phased(since)' <=> Phased(since)
    BY <2>2 DEF Phased
  <2> QED
    BY <1>0, <2>1, <2>2, <2>3, <2>4
<1>4. CASE handle_hello_message \/ HelloLost
  <2>1. UNCHANGED <<sending, until_update, until_cleanup, route, last_advertised, since, differs>>
    BY <1>4 DEF handle_hello_message, HelloLost, hello_task
  <2>2. lost'["update"] = lost["update"]
    BY <1>4 DEF handle_hello_message, HelloLost, Arrives, Lost, Message
  <2>3. Losses' = Losses /\ (Phased(last_advertised)' <=> Phased(last_advertised))
    BY <2>1, <2>2 DEF Losses, Phased
  <2>4. Phased(since)' <=> Phased(since)
    BY <2>1 DEF Phased
  <2> QED
    BY <2>1, <2>3, <2>4
<1>5. CASE update_task /\ UNCHANGED <<route, last_advertised, differs>> /\ route # NoRoute
  <2>1. sending' /\ until_update = 0 /\ until_update' = UPDATE_INTERVAL
    BY <1>5 DEF update_task
  <2>2. UNCHANGED <<sending, until_cleanup, route, last_advertised, since, differs>>
    BY <1>5 DEF update_task
  <2>3. Phased(last_advertised) => Phased(last_advertised)'
    BY <2>1, <2>2, RoundsPass DEF Phased
  <2>4. Phased(since) => Phased(since)'
    BY <2>1, <2>2, RoundsPass DEF Phased
  <2> QED
    BY <1>5, <2>1, <2>2, <2>3, <2>4
<1>6. CASE handle_update_message
  <2>1. CASE accepted
    <3>1. sending' /\ until_update' = UPDATE_INTERVAL /\ UNCHANGED <<until_cleanup, since>>
      BY <1>6 DEF handle_update_message, update_task
    <3>2. route' = next_metric(offered) /\ last_advertised' = 0 /\ differs' = 0
      BY <1>6, <2>1 DEF handle_update_message
    <3>3. Phased(last_advertised)'
      <4>1. 0 + UPDATE_INTERVAL \in Rounds
        BY RoundsPass
      <4> QED
        BY <3>1, <3>2, <4>1 DEF Phased
    <3>4. sending /\ until_update = 0
      BY <1>6 DEF handle_update_message, update_task
    <3>5. Losses' = 0
      BY <1>6 DEF handle_update_message, Arrives, Losses, Message
    <3> QED
      BY <3>1, <3>2, <3>3, <3>5
  <2>2. CASE ~accepted
    <3>1. UNCHANGED <<route, last_advertised, differs>>
      BY <1>6, <2>2 DEF handle_update_message
    <3>2. CASE route # NoRoute
      BY <1>5, <1>6, <3>1, <3>2 DEF handle_update_message
    <3>3. CASE route = NoRoute
      <4>1. offered = NoRoute
        BY <2>2, <3>3 DEF accepted, should_accept_route
      <4>2. differs' = 0 /\ route' = NoRoute
        BY <3>1, <3>3, <4>1 DEF NoNews
      <4>3. Losses' = 0
        BY <1>6 DEF handle_update_message, Arrives, Losses, Message
      <4>4. sending' /\ until_update' = UPDATE_INTERVAL /\ UNCHANGED since
        BY <1>6 DEF handle_update_message, update_task
      <4>5. differs' + until_update' <= ROUTE_TIMEOUT + UPDATE_INTERVAL + Losses'
        BY <4>2, <4>3, <4>4
      <4> QED
        BY <4>2, <4>4, <4>5
    <3> QED
      BY <3>2, <3>3
  <2> QED
    BY <2>1, <2>2
<1>7. CASE UpdateLost
  <2>1. CASE route = NoRoute
    <3>1. sending /\ until_update = 0 /\ until_update' = UPDATE_INTERVAL
      BY <1>7 DEF UpdateLost, update_task
    <3>2. UNCHANGED <<sending, route, since, differs>>
      BY <1>7 DEF UpdateLost, update_task
    <3>3. lost'["update"] = lost["update"] + 1
      BY <1>7 DEF UpdateLost, Lost, Message
    <3>4. Losses' = Losses + UPDATE_INTERVAL
      BY <3>3, LostUpdates DEF Losses
    <3> QED
      BY <1>0, <2>1, <3>1, <3>2, <3>4
  <2>2. CASE route # NoRoute
    BY <1>5, <1>7, <2>2 DEF UpdateLost
  <2> QED
    BY <2>1, <2>2
<1>8. CASE perform_cleanup
  <2>0. differs' = 0 \/ differs' = differs
    BY <1>8 DEF perform_cleanup
  <2>1. until_cleanup' = CLEANUP_INTERVAL /\ UNCHANGED <<sending, lost, until_update, since>>
    BY <1>8 DEF perform_cleanup
  <2>2. Losses' = Losses
    BY <2>1 DEF Losses
  <2>3. /\ differs' \in Nat
        /\ ~sending => differs' = 0
        /\ sending => differs' <= since' \/ since' >= MaxSince'
    <3>1. MaxSince' = MaxSince /\ MaxSince \in Nat
      BY DEF MaxSince, MaxAdvertised
    <3>2. CASE differs' = 0
      BY <2>1, <3>1, <3>2
    <3>3. CASE differs' = differs
      BY <2>1, <3>1, <3>3
    <3> QED
      BY <2>0, <3>2, <3>3
  <2>4. ASSUME differs + until_update <= ROUTE_TIMEOUT + UPDATE_INTERVAL + Losses
        PROVE  differs' + until_update' <= ROUTE_TIMEOUT + UPDATE_INTERVAL + Losses'
    <3>1. CASE differs' = 0
      BY <1>0, <2>1, <2>2, <3>1
    <3>2. CASE differs' = differs
      BY <1>0, <2>1, <2>2, <2>4, <3>2
    <3> QED
      BY <2>0, <3>1, <3>2
  <2>5. \/ route' = NoRoute
        \/ /\ last_advertised <= ROUTE_TIMEOUT
           /\ route' = route /\ last_advertised' = last_advertised
    BY <1>8, Cleanup DEF removed
  <2>6. CASE route' = NoRoute
    <3>1. CASE sending /\ route # NoRoute
      <4>1. last_advertised <= ROUTE_TIMEOUT + CLEANUP_INTERVAL
        BY <3>1
      <4>2. PICK age \in {last_advertised, since} :
               Phased(age) /\ differs <= age /\ age <= last_advertised
        <5>1. since <= last_advertised => differs <= since
          BY <3>1, <4>1 DEF MaxSince, MaxAdvertised
        <5> QED
          BY <3>1, <5>1
      <4>3. age + until_update < ROUTE_TIMEOUT + UPDATE_INTERVAL + UPDATE_INTERVAL
        BY <4>1, <4>2
      <4>4. age + until_update <= ROUTE_TIMEOUT + UPDATE_INTERVAL
        <5>1. ROUTE_TIMEOUT + UPDATE_INTERVAL \in Rounds
          BY RoundsPass
        <5> QED
          BY <4>2, <4>3, <5>1, RoundsPass DEF Phased
      <4>5. differs + until_update <= ROUTE_TIMEOUT + UPDATE_INTERVAL + Losses
        BY <1>0, <4>2, <4>4
      <4> QED
        BY <2>1, <2>6, <2>3, <2>4, <4>5
    <3>2. CASE ~sending
      BY <2>1, <2>6, <2>3, <3>2
    <3>3. CASE sending /\ route = NoRoute
      BY <2>1, <2>6, <2>3, <2>4, <3>3
    <3> QED
      BY <3>1, <3>2, <3>3
  <2>7. CASE /\ last_advertised <= ROUTE_TIMEOUT
             /\ route' = route /\ last_advertised' = last_advertised
    <3>1. Phased(last_advertised)' <=> Phased(last_advertised)
      BY <2>1, <2>7 DEF Phased
    <3>2. Phased(since)' <=> Phased(since)
      BY <2>1 DEF Phased
    <3>3. route # NoRoute => differs' <= last_advertised'
      <4>1. CASE differs' = 0
        BY <2>7, <4>1
      <4>2. CASE differs' = differs
        BY <2>7, <4>2
      <4> QED
        BY <2>0, <4>1, <4>2
    <3>4. until_update' \in 0 .. UPDATE_INTERVAL
      BY <2>1
    <3> QED
      BY <2>1, <2>7, <2>3, <2>4, <3>1, <3>2, <3>3, <3>4
  <2> QED
    BY <2>5, <2>6, <2>7
<1>9. CASE SecondPasses
  <2>1. /\ until_cleanup > 0 /\ until_cleanup' = until_cleanup - 1
        /\ sending => until_update > 0 /\ until_update' = until_update - 1
        /\ ~sending => until_update' = 0
        /\ UNCHANGED <<sending, lost, route>>
    BY <1>9 DEF SecondPasses
  <2>2. /\ since' \in Nat
        /\ since < MaxSince => since' = since + 1
        /\ since >= MaxSince => since' = since
    BY <1>9 DEF SecondPasses, older, MaxSince, MaxAdvertised
  <2>3. route # NoRoute => last_advertised' = last_advertised + 1
    BY <1>9 DEF SecondPasses, older, MaxAdvertised
  <2>4. /\ differs' \in Nat /\ differs' <= differs + 1
        /\ differs' = differs + 1 \/ differs' = differs \/ differs' = 0
        /\ ~sending => differs' = 0
    BY <1>9 DEF SecondPasses, older
  <2>5. Losses' \in Nat /\ Losses' = Losses
    BY <1>0, <2>1 DEF Losses
  <2>6. CASE route = NoRoute
    <3>1. until_update' \in 0 .. UPDATE_INTERVAL
      BY <2>1
    <3>2. sending' => differs' <= since' \/ since' >= MaxSince
      BY <2>1, <2>2, <2>4 DEF MaxSince, MaxAdvertised
    <3>3. sending' => differs' + until_update' <= ROUTE_TIMEOUT + UPDATE_INTERVAL + Losses'
      <4> SUFFICES ASSUME sending
                   PROVE  differs' + until_update' <= ROUTE_TIMEOUT + UPDATE_INTERVAL + Losses'
        BY <2>1
      <4>1. until_update > 0 /\ until_update' = until_update - 1
        BY <2>1
      <4>2. differs + until_update <= ROUTE_TIMEOUT + UPDATE_INTERVAL + Losses
        BY <2>6
      <4>3. CASE differs' = differs + 1
        BY <1>0, <2>5, <4>1, <4>2, <4>3
      <4>4. CASE differs' = differs
        BY <1>0, <2>5, <4>1, <4>2, <4>4
      <4>5. CASE differs' = 0
        BY <1>0, <2>5, <4>1, <4>2, <4>5
      <4> QED
        BY <2>4, <4>3, <4>4, <4>5
    <3>4. route' = NoRoute /\ differs' \in Nat /\ (~sending' => differs' = 0)
      BY <2>1, <2>4, <2>6
    <3> QED
      BY <3>1, <3>2, <3>3, <3>4
  <2>7. CASE route # NoRoute
    <3>1. sending /\ Phased(last_advertised) => Phased(last_advertised)'
      BY <2>1, <2>3, <2>7 DEF Phased
    <3>2. sending /\ since <= last_advertised => since' = since + 1
      BY <2>2, <2>7 DEF MaxSince, MaxAdvertised
    <3>3. sending /\ Phased(since) /\ since <= last_advertised => Phased(since)'
      BY <2>1, <3>2 DEF Phased
    <3>4. until_update' \in 0 .. UPDATE_INTERVAL
      BY <2>1
    <3>5. sending' => differs' <= since' \/ since' >= MaxSince
      BY <2>1, <2>2, <2>4 DEF MaxSince, MaxAdvertised
    <3>6. Looked(last_advertised, ROUTE_TIMEOUT)' /\ differs' <= last_advertised'
      BY <2>1, <2>3, <2>4, <2>7
    <3>7. sending' => \/ Phased(last_advertised)'
                      \/ Phased(since)' /\ since' <= last_advertised'
      BY <2>1, <2>3, <2>7, <3>1, <3>2, <3>3
    <3> QED
      BY <2>1, <2>4, <2>7, <3>4, <3>5, <3>6, <3>7
  <2> QED
    BY <2>6, <2>7
<1>10. CASE UNCHANGED vars
  BY <1>10 DEF vars, Losses, Phased
<1> QED
  BY <1>1, <1>2, <1>3, <1>4, <1>6, <1>7, <1>8, <1>9, <1>10 DEF Next, Steady

(* Whatever the intervals: if the cleanup is more frequent than the        *)
(* UPDATEs and ROUTE_TIMEOUT a number of UPDATE intervals, as they are in  *)
(* the code, the route becomes what the neighbour offers within            *)
(* ROUTE_TIMEOUT and one UPDATE interval more than can be lost, and goes   *)
(* within that time when the neighbour offers none any more.               *)
THEOREM NewsAlwaysArrives ==
    ASSUME CLEANUP_INTERVAL < UPDATE_INTERVAL,
           \E k \in Nat : ROUTE_TIMEOUT = k * UPDATE_INTERVAL
    PROVE  Spec => []NewsArrives
<1>1. ROUTE_TIMEOUT \in Rounds
  BY DEF Rounds
<1>2. Init => NewsInv
  BY Intervals DEF Init, NewsInv
<1>3. TypeOK /\ NoNews /\ NewsInv /\ [Next]_vars => NewsInv' /\ NoNews'
  BY <1>1, NextNewsInv, NextNoNews, TypeOKIsBounded
<1>5. Init => NoNews
  BY DEF Init, NoNews
<1>4. TimerInv /\ NewsInv => NewsArrives
  <2> SUFFICES ASSUME TimerInv, NewsInv
               PROVE  NewsArrives
    OBVIOUS
  <2>1. /\ Losses \in Nat
        /\ Losses + UPDATE_INTERVAL <= (MaxLost + 1) * UPDATE_INTERVAL
        /\ (MaxLost + 1) * UPDATE_INTERVAL \in Nat
    BY LostUpdates DEF TimerInv
  <2> QED
    BY <2>1, Intervals DEF NewsInv, NewsArrives, TimerInv, Types, Looked
<1> QED
  BY TimersInvariant, TimersTypeCorrect, <1>2, <1>3, <1>4, <1>5, PTL DEF Spec
=============================================================================
