------------------------- MODULE RateLimiterProofs -------------------------
(***************************************************************************)
(* For every number of dispatchers and channels, every rate, resolution    *)
(* and TTL: the limiter keeps its rates and reserves nothing.              *)
(***************************************************************************)
EXTENDS RateLimiter, TLAPS

(* A stored time is within half a grain of the time. *)
LEMMA StoredNear ==
    ASSUME NEW t \in Nat
    PROVE  /\ Stored(t) \in Nat
           /\ 2 * Stored(t) + Grain >= 2 * t
           /\ 2 * Stored(t) <= 2 * t + Grain
<1> DEFINE Near(v) == 2 * v + Grain >= 2 * t /\ 2 * v <= 2 * t + Grain
<1>1. Grain \in Nat
    BY LimiterAssumption
<1>2. t \in 0..(t + Grain) /\ Near(t)
    BY <1>1
<1>3. \E v \in 0..(t + Grain) : Near(v)
    BY <1>2
<1>4. Stored(t) \in 0..(t + Grain) /\ Near(Stored(t))
    BY <1>3 DEF Stored
<1> QED
    BY <1>1, <1>4

(* The keys of a dispatcher are keys. *)
LEMMA KeysAreKeys ==
    ASSUME NEW w \in Dispatchers
    PROVE  KeysOf(w) \subseteq Keys /\ ChannelOf[w] \in Channels
BY LimiterAssumption DEF KeysOf, Keys

(* The types hold at the start. *)
LEMMA InitType == Init => TypeOK
<1> SUFFICES ASSUME Init PROVE TypeOK
    OBVIOUS
<1>1. /\ tat \in [Keys -> Nat] /\ setAt \in [Keys -> Nat] /\ last \in [Keys -> Nat]
      /\ since \in [Keys -> Nat] /\ more \in [Keys -> Nat]
      /\ clock \in Nat /\ fresh \in SUBSET Keys /\ restarts \in Nat
      /\ loaded \in BOOLEAN
    BY DEF Init
<1>2. /\ deadline \in [Dispatchers -> Nat] /\ stamp \in [Dispatchers -> Nat]
      /\ failures \in [Dispatchers -> Nat] /\ shaKnown \in [Dispatchers -> BOOLEAN]
      /\ wpc \in [Dispatchers -> {"idle", "asking", "sent", "granted"}]
    BY DEF Init
<1>3. clock = 0 /\ \A w \in Dispatchers : stamp[w] = 0
    BY DEF Init
<1>4. ASSUME NEW w \in Dispatchers
      PROVE  stamp[w] <= clock
    <2>1. stamp[w] = 0 /\ clock = 0
        BY <1>3
    <2>2. 0 <= 0
        OBVIOUS
    <2> QED
        BY <2>1, <2>2
<1> QED
    BY <1>1, <1>2, <1>4 DEF TypeOK

(* Leaving acquire_blocking keeps the types of a dispatcher's variables.    *)
LEMMA LeaveType ==
    ASSUME TypeOK, NEW w \in Dispatchers,
           NEW pc \in {"idle", "granted"}, Leave(w, pc), clock' = clock
    PROVE  /\ wpc' \in [Dispatchers -> {"idle", "asking", "sent", "granted"}]
           /\ deadline' \in [Dispatchers -> Nat] /\ stamp' \in [Dispatchers -> Nat]
           /\ \A v \in Dispatchers : stamp'[v] <= clock'
BY DEF TypeOK, Leave, To

(* What one counts is a number, from a time on. *)
LEMMA CountType ==
    ASSUME TypeOK, NEW w \in Dispatchers, Count(w)
    PROVE  since' \in [Keys -> Nat] /\ more' \in [Keys -> Nat]
<1>1. PICK first \in SUBSET Keys :
          /\ since' = [k \in Keys |-> IF k \in first THEN stamp[w] ELSE since[k]]
          /\ more' = [k \in Keys |-> IF k \in first THEN 0
                                     ELSE IF k \in KeysOf(w) THEN more[k] + 1 ELSE more[k]]
    BY KeysAreKeys DEF Count
<1> QED
    BY <1>1 DEF TypeOK

(* A grant keeps the types: what it stores are times.                       *)
LEMMA GrantType ==
    ASSUME TypeOK, NEW w \in Dispatchers, Grant(w)
    PROVE  TypeOK'
<1>1. \A k \in Keys : Emission[k] \in Nat /\ stamp[w] + Emission[k] \in Nat
    BY LimiterAssumption DEF TypeOK
<1>2. \A k \in Keys : Stored(stamp[w] + Emission[k]) \in Nat
    BY <1>1, StoredNear
<1>3. tat' \in [Keys -> Nat]
    BY <1>2 DEF Grant, TypeOK
<1>4. setAt' \in [Keys -> Nat] /\ last' \in [Keys -> Nat] /\ fresh' \in SUBSET Keys
    BY KeysAreKeys DEF Grant, TypeOK
<1>5. clock' = clock /\ Leave(w, "granted")
    BY DEF Grant
<1>6. /\ wpc' \in [Dispatchers -> {"idle", "asking", "sent", "granted"}]
      /\ deadline' \in [Dispatchers -> Nat] /\ stamp' \in [Dispatchers -> Nat]
      /\ \A v \in Dispatchers : stamp'[v] <= clock'
    BY <1>5, LeaveType
<1>7. since' \in [Keys -> Nat] /\ more' \in [Keys -> Nat]
    BY CountType DEF Grant
<1> QED
    BY <1>3, <1>4, <1>5, <1>6, <1>7 DEF Grant, TypeOK

(* Every step keeps the types. *)
LEMMA NextType ==
    ASSUME TypeOK, [Next]_vars
    PROVE  TypeOK'
<1> USE DEF vars, redisVars, workerVars, histVars, countVars
<1>1. CASE Tick
    BY <1>1 DEF Tick, TypeOK
<1>2. ASSUME NEW w \in Dispatchers, Ask(w)
      PROVE  TypeOK'
    BY <1>2, LimiterAssumption DEF Ask, To, TypeOK
<1>3. ASSUME NEW w \in Dispatchers, Stamp(w)
      PROVE  TypeOK'
    BY <1>3 DEF Stamp, To, TypeOK
<1>4. ASSUME NEW w \in Dispatchers, GiveUp(w)
      PROVE  TypeOK'
    <2>1. clock' = clock /\ Leave(w, "idle")
        BY <1>4 DEF GiveUp
    <2>2. /\ wpc' \in [Dispatchers -> {"idle", "asking", "sent", "granted"}]
          /\ deadline' \in [Dispatchers -> Nat] /\ stamp' \in [Dispatchers -> Nat]
          /\ \A v \in Dispatchers : stamp'[v] <= clock'
        BY <2>1, LeaveType
    <2> QED
        BY <1>4, <2>2 DEF GiveUp, TypeOK
<1>5. ASSUME NEW w \in Dispatchers, Refuse(w)
      PROVE  TypeOK'
    BY <1>5 DEF Refuse, To, TypeOK
<1>6. ASSUME NEW w \in Dispatchers, NoScript(w)
      PROVE  TypeOK'
    <2>1. clock' = clock /\ Leave(w, "idle")
        BY <1>6 DEF NoScript
    <2>2. /\ wpc' \in [Dispatchers -> {"idle", "asking", "sent", "granted"}]
          /\ deadline' \in [Dispatchers -> Nat] /\ stamp' \in [Dispatchers -> Nat]
          /\ \A v \in Dispatchers : stamp'[v] <= clock'
        BY <2>1, LeaveType
    <2>3. failures' \in [Dispatchers -> Nat]
        BY <1>6 DEF NoScript, TypeOK
    <2> QED
        BY <1>6, <2>2, <2>3 DEF NoScript, TypeOK
<1>7. ASSUME NEW w \in Dispatchers, RestartDispatcher(w)
      PROVE  TypeOK'
    <2>1. clock' = clock /\ Leave(w, "idle")
        BY <1>7 DEF RestartDispatcher
    <2>2. /\ wpc' \in [Dispatchers -> {"idle", "asking", "sent", "granted"}]
          /\ deadline' \in [Dispatchers -> Nat] /\ stamp' \in [Dispatchers -> Nat]
          /\ \A v \in Dispatchers : stamp'[v] <= clock'
        BY <2>1, LeaveType
    <2>3. shaKnown' \in [Dispatchers -> BOOLEAN]
        BY <1>7 DEF RestartDispatcher, TypeOK
    <2> QED
        BY <1>7, <2>2, <2>3 DEF RestartDispatcher, TypeOK
<1>8. CASE RestartRedis
    <2>1. PICK lost \in SUBSET Keys :
              tat' = [k \in Keys |-> IF k \in lost THEN 0 ELSE tat[k]]
        BY <1>8 DEF RestartRedis
    <2>2. tat' \in [Keys -> Nat]
        BY <2>1 DEF TypeOK
    <2>3. /\ loaded' \in BOOLEAN /\ fresh' \in SUBSET Keys
          /\ restarts' = restarts + 1 /\ clock' = clock /\ setAt' = setAt
          /\ last' = last /\ failures' = failures
          /\ since' = since /\ more' = more
          /\ wpc' = wpc /\ deadline' = deadline /\ stamp' = stamp
          /\ shaKnown' = shaKnown
        BY <1>8 DEF RestartRedis
    <2> QED
        BY <2>2, <2>3 DEF TypeOK
<1>9. CASE UNCHANGED vars
    BY <1>9 DEF TypeOK
<1>10. ASSUME NEW w \in Dispatchers, Dispatcher(w)
       PROVE  TypeOK'
    BY <1>2, <1>3, <1>4, <1>5, <1>6, <1>10, GrantType DEF Dispatcher
<1> QED
    BY <1>1, <1>7, <1>8, <1>9, <1>10 DEF Next

(* The variables of the limiter keep their types, and no request carries a  *)
(* time to come.                                                            *)
THEOREM TypeCorrect == Spec => []TypeOK
<1>1. TypeOK /\ [Next]_vars => TypeOK'
    BY NextType
<1> QED
    BY InitType, <1>1, PTL DEF Spec

-----------------------------------------------------------------------------
(* A key granted against since Redis started holds a time at least one      *)
(* interval, less half a grain, after that grant.                           *)
StoredAhead ==
    \A k \in fresh : 2 * tat[k] + Grain >= 2 * (last[k] + Emission[k])

(* The stamps of the grants that are counted are an interval apart.         *)
StampsApart ==
    \A k \in Keys :
        /\ last[k] <= clock
        /\ 2 * (since[k] + more[k] * Emission[k]) <= 2 * last[k] + more[k] * Grain

(* What the key holds, between the two bounds. *)
IndInv == TypeOK /\ StoredAhead /\ NothingReserved /\ StampsApart

(* A grant stores, for both its keys, the time of the next.                 *)
LEMMA GrantStores ==
    ASSUME TypeOK, StoredAhead, NothingReserved,
           NEW w \in Dispatchers, Grant(w)
    PROVE  StoredAhead' /\ NothingReserved'
<1>1. \A k \in Keys : Emission[k] \in Nat /\ stamp[w] + Emission[k] \in Nat
    BY LimiterAssumption DEF TypeOK
<1>2. \A k \in KeysOf(w) :
          /\ tat'[k] = Stored(stamp[w] + Emission[k])
          /\ last'[k] = stamp[w]
    BY KeysAreKeys DEF Grant
<1>3. \A k \in Keys \ KeysOf(w) : tat'[k] = tat[k] /\ last'[k] = last[k]
    BY DEF Grant, TypeOK
<1>4. fresh' = fresh \cup KeysOf(w)
    BY DEF Grant
<1>5. \A k \in KeysOf(w) :
          /\ 2 * tat'[k] + Grain >= 2 * (last'[k] + Emission[k])
          /\ 2 * tat'[k] <= 2 * (last'[k] + Emission[k]) + Grain
    BY <1>1, <1>2, StoredNear, KeysAreKeys
<1>6. StoredAhead'
    BY <1>3, <1>4, <1>5 DEF StoredAhead, TypeOK
<1>7. NothingReserved'
    BY <1>3, <1>5 DEF NothingReserved
<1> QED
    BY <1>6, <1>7

(* One interval more, with the slack of one grain. *)
LEMMA OneMore ==
    ASSUME NEW a \in Nat, NEW n \in Nat, NEW e \in Nat, NEW g \in Nat, NEW l \in Nat,
           NEW t \in Nat,
           2 * (a + n * e) <= 2 * l + n * g,
           2 * t + g >= 2 * (l + e)
    PROVE  2 * (a + (n + 1) * e) <= 2 * t + (n + 1) * g
<1>1. (n + 1) * e = n * e + e /\ (n + 1) * g = n * g + g
    OBVIOUS
<1>2. n * e \in Nat /\ n * g \in Nat
    OBVIOUS
<1>3. ASSUME NEW ne \in Nat, NEW ng \in Nat, 2 * (a + ne) <= 2 * l + ng
      PROVE  2 * (a + (ne + e)) <= 2 * t + (ng + g)
    BY <1>3
<1> QED
    BY <1>1, <1>2, <1>3

(* A grant is one more that is counted, a time the key held, and so an      *)
(* interval, after the last; or the first of a new count.                   *)
LEMMA GrantKeepsApart ==
    ASSUME IndInv, NEW w \in Dispatchers, Grant(w)
    PROVE  StampsApart'
<1>1. PICK first \in SUBSET Keys :
          /\ \A k \in KeysOf(w) \ first : k \in fresh /\ Live(k)
          /\ first \subseteq KeysOf(w)
          /\ since' = [k \in Keys |-> IF k \in first THEN stamp[w] ELSE since[k]]
          /\ more' = [k \in Keys |-> IF k \in first THEN 0
                                     ELSE IF k \in KeysOf(w) THEN more[k] + 1 ELSE more[k]]
    <2>1. Count(w)
        BY DEF Grant
    <2>2. PICK anew \in BOOLEAN :
              LET first == {k \in KeysOf(w) : anew \/ k \notin fresh \/ ~Live(k)}
              IN  /\ since' = [k \in Keys |-> IF k \in first THEN stamp[w] ELSE since[k]]
                  /\ more' = [k \in Keys |-> IF k \in first THEN 0
                                             ELSE IF k \in KeysOf(w) THEN more[k] + 1
                                             ELSE more[k]]
        BY <2>1 DEF Count
    <2>3. {k \in KeysOf(w) : anew \/ k \notin fresh \/ ~Live(k)} \in SUBSET Keys
        BY KeysAreKeys
    <2> QED
        BY <2>2, <2>3
<1>2. /\ last' = [k \in Keys |-> IF k \in KeysOf(w) THEN stamp[w] ELSE last[k]]
      /\ clock' = clock
      /\ \A k \in KeysOf(w) : Live(k) => tat[k] <= stamp[w]
    BY DEF Grant, Open
<1>3. /\ Grain \in Nat
      /\ \A k \in Keys : Emission[k] \in Nat
    BY LimiterAssumption
<1>4. /\ stamp[w] \in Nat /\ clock \in Nat /\ stamp[w] <= clock
      /\ \A k \in Keys : /\ since[k] \in Nat /\ more[k] \in Nat
                          /\ last[k] \in Nat /\ tat[k] \in Nat
    BY DEF IndInv, TypeOK
<1>5. SUFFICES ASSUME NEW k \in Keys
      PROVE  /\ last'[k] <= clock
             /\ 2 * (since'[k] + more'[k] * Emission[k]) <= 2 * last'[k] + more'[k] * Grain
    BY <1>2 DEF StampsApart
<1>6. /\ last[k] <= clock
      /\ 2 * (since[k] + more[k] * Emission[k]) <= 2 * last[k] + more[k] * Grain
    BY DEF IndInv, StampsApart
<1>7. CASE k \in first
    <2>1. since'[k] = stamp[w] /\ more'[k] = 0 /\ last'[k] = stamp[w]
        BY <1>1, <1>2, <1>7
    <2>2. 0 * Emission[k] = 0 /\ 0 * Grain = 0
        BY <1>3
    <2>3. 2 * (stamp[w] + 0) <= 2 * stamp[w] + 0
        BY <1>4
    <2> QED
        BY <1>4, <2>1, <2>2, <2>3
<1>8. CASE k \in KeysOf(w) \ first
    <2>1. since'[k] = since[k] /\ more'[k] = more[k] + 1 /\ last'[k] = stamp[w]
        BY <1>1, <1>2, <1>8
    <2>2. 2 * tat[k] + Grain >= 2 * (last[k] + Emission[k])
        BY <1>1, <1>8 DEF IndInv, StoredAhead
    <2>3. tat[k] <= stamp[w]
        BY <1>1, <1>2, <1>8
    <2>4. 2 * stamp[w] + Grain >= 2 * (last[k] + Emission[k])
        BY <1>3, <1>4, <2>2, <2>3
    <2>5. 2 * (since[k] + (more[k] + 1) * Emission[k]) <= 2 * stamp[w] + (more[k] + 1) * Grain
        BY <1>3, <1>4, <1>6, <2>4, OneMore
    <2> QED
        BY <1>4, <2>1, <2>5
<1>9. CASE k \notin KeysOf(w)
    BY <1>1, <1>2, <1>6, <1>9
<1> QED
    BY <1>7, <1>8, <1>9

(* The invariant is inductive: only a grant and a restart of Redis touch    *)
(* the keys.                                                                *)
LEMMA NextInv ==
    ASSUME IndInv, [Next]_vars
    PROVE  IndInv'
<1>1. TypeOK'
    BY NextType DEF IndInv
<1> DEFINE Keeps == UNCHANGED <<tat, last, fresh, since, more>> /\ clock' >= clock
<1>2. CASE Keeps
    <2>1. /\ clock \in Nat /\ clock' \in Nat
          /\ \A k \in Keys : last[k] \in Nat
        BY <1>1 DEF IndInv, TypeOK
    <2>2. StampsApart'
        BY <1>2, <2>1 DEF IndInv, StampsApart
    <2> QED
        BY <1>1, <1>2, <2>2 DEF IndInv, StoredAhead, NothingReserved
<1>3. ASSUME NEW w \in Dispatchers, Grant(w)
      PROVE  IndInv'
    BY <1>1, <1>3, GrantStores, GrantKeepsApart DEF IndInv
<1>4. CASE RestartRedis
    <2>1. /\ fresh' = {} /\ last' = last /\ clock' = clock
          /\ since' = since /\ more' = more
        BY <1>4 DEF RestartRedis, countVars
    <2>2. \A k \in Keys : tat'[k] \in Nat /\ tat'[k] <= tat[k]
        BY <1>4 DEF RestartRedis, IndInv, TypeOK
    <2>3. \A k \in Keys : Emission[k] \in Nat /\ last[k] \in Nat /\ tat[k] \in Nat
        BY LimiterAssumption DEF IndInv, TypeOK
    <2>4. Grain \in Nat
        BY LimiterAssumption
    <2>5. NothingReserved'
        BY <2>1, <2>2, <2>3, <2>4 DEF IndInv, NothingReserved
    <2>6. StampsApart'
        BY <2>1 DEF IndInv, StampsApart
    <2> QED
        BY <1>1, <2>1, <2>5, <2>6 DEF IndInv, StoredAhead
<1>5. ASSUME Tick
      PROVE  Keeps
    BY <1>5 DEF Tick, redisVars, histVars, countVars, IndInv, TypeOK
<1>6. ASSUME clock' = clock
      PROVE  clock' >= clock
    BY <1>6 DEF IndInv, TypeOK
<1>7. Next => \/ Tick
              \/ UNCHANGED <<tat, last, fresh, since, more, clock>>
              \/ \E w \in Dispatchers : Grant(w)
              \/ RestartRedis
    BY DEF Next, Dispatcher, Ask, Stamp, GiveUp, Refuse, NoScript,
           RestartDispatcher, redisVars, workerVars, histVars, countVars
<1>8. UNCHANGED vars => UNCHANGED <<tat, last, fresh, since, more, clock>>
    BY DEF vars, redisVars, histVars, countVars
<1> QED
    BY <1>2, <1>3, <1>4, <1>5, <1>6, <1>7, <1>8

(* The invariant holds in every state. *)
LEMMA Invariant == Spec => []IndInv
<1>1. Init => StoredAhead /\ NothingReserved
    BY LimiterAssumption DEF Init, StoredAhead, NothingReserved
<1>2. ASSUME Init
      PROVE  StampsApart
    <2>1. \A k \in Keys : /\ since[k] = 0 /\ more[k] = 0 /\ last[k] = 0
                          /\ Emission[k] \in Nat
        BY <1>2, LimiterAssumption DEF Init
    <2>2. clock = 0 /\ Grain \in Nat
        BY <1>2, LimiterAssumption DEF Init
    <2> QED
        BY <2>1, <2>2 DEF StampsApart
<1>3. Init => IndInv
    BY <1>1, <1>2, InitType DEF IndInv
<1>4. IndInv /\ [Next]_vars => IndInv'
    BY NextInv
<1> QED
    BY <1>3, <1>4, PTL DEF Spec

(* No attempt but a granted one takes a slot of any key, whatever the       *)
(* number of dispatchers and the order in which their scripts run.          *)
THEOREM RefusalsAreFree == Spec => []NothingReserved
<1>1. IndInv => NothingReserved
    BY DEF IndInv
<1> QED
    BY <1>1, Invariant, PTL

(* From whatever grant one counts, n more against the same key are there     *)
(* only n emission intervals, less half a grain each, after the first of      *)
(* these calls read its clock, however late their scripts run; unless the     *)
(* key was idle for its TTL or Redis restarted in between.                    *)
THEOREM CeilingIsHard == Spec => []CeilingHolds
<1>1. ASSUME IndInv
      PROVE  CeilingHolds
    <2>1. \A k \in Keys : /\ last[k] <= clock
                          /\ 2 * (since[k] + more[k] * Emission[k])
                                 <= 2 * last[k] + more[k] * Grain
        BY <1>1 DEF IndInv, StampsApart
    <2>2. ASSUME NEW k \in Keys
          PROVE  /\ since[k] \in Nat /\ last[k] \in Nat /\ clock \in Nat
                 /\ more[k] * Emission[k] \in Nat /\ more[k] * Grain \in Nat
        <3>1. more[k] \in Nat /\ Emission[k] \in Nat /\ Grain \in Nat
            BY <1>1, LimiterAssumption DEF IndInv, TypeOK
        <3>2. more[k] * Emission[k] \in Nat /\ more[k] * Grain \in Nat
            BY <3>1
        <3> QED
            BY <1>1, <3>2 DEF IndInv, TypeOK
    <2>3. ASSUME NEW a \in Nat, NEW b \in Nat, NEW l \in Nat, NEW c \in Nat, NEW g \in Nat,
                 l <= c, 2 * (a + b) <= 2 * l + g
          PROVE  2 * (a + b) <= 2 * c + g
        BY <2>3
    <2> QED
        BY <2>1, <2>2, <2>3 DEF CeilingHolds
<1> QED
    BY <1>1, Invariant, PTL
=============================================================================
