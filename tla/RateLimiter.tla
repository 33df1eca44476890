---------------------------- MODULE RateLimiter ----------------------------
(***************************************************************************)
(* The GCRA limiter that paces the calls of Kannel: the dispatchers of the *)
(* channels, each reading its clock before it has Redis run the script,    *)
(* and the two keys the script looks at, the channel's and the global one. *)
(*                                                                         *)
(* Time is in ticks; all processes read the clock of one host.  tostring   *)
(* keeps 14 digits of a time, so that a stored time is off by up to half a *)
(* Grain (0.1 ms at present).  Burst is 0, as try_acquire passes it.       *)
(***************************************************************************)
EXTENDS Naturals

CONSTANTS
    Dispatchers, Channels,
    ChannelOf,        \* the channel of each dispatcher
    Emission,         \* ticks between two grants, of each channel and "global"
    Grain,            \* resolution of a stored time
    KeyTTL,           \* _KEY_TTL_SECONDS
    MaxWait,          \* max_wait_seconds
    \* Bounds of a run of the checker:
    MaxClock, MaxRestarts, MaxFailures

Keys == Channels \cup {"global"}

ASSUME LimiterAssumption ==
    /\ ChannelOf \in [Dispatchers -> Channels]
    /\ "global" \notin Channels
    /\ Emission \in [Keys -> Nat]
    /\ Grain \in Nat /\ KeyTTL \in Nat /\ MaxWait \in Nat
    /\ MaxClock \in Nat /\ MaxRestarts \in Nat /\ MaxFailures \in Nat

VARIABLES
    clock,
    (* Redis *)
    tat,         \* theoretical arrival time of each key, 0 of one that is not there
    setAt,       \* when each was set, from which its TTL runs
    loaded,      \* the script cache has the script
    (* each dispatcher *)
    wpc, deadline, stamp,
    shaKnown,    \* the process has loaded the script: _script_sha
    (* observation and bounds *)
    last,        \* stamp of the last grant against each key
    fresh,       \* keys granted against since Redis last started
    since, more, \* stamp of the grant one counts from, and grants that followed,
                 \* against each key
    failures,    \* attempts of each process that ended in NoScriptError
    restarts     \* of Redis

redisVars == <<tat, setAt, loaded>>
workerVars == <<wpc, deadline, stamp, shaKnown>>
countVars == <<since, more>>
histVars == <<last, fresh, countVars, failures, restarts>>
vars == <<clock, redisVars, workerVars, histVars>>

Init ==
    /\ clock = 0
    /\ tat = [k \in Keys |-> 0] /\ setAt = [k \in Keys |-> 0]
    /\ loaded = FALSE
    /\ wpc = [w \in Dispatchers |-> "idle"]
    /\ deadline = [w \in Dispatchers |-> 0] /\ stamp = [w \in Dispatchers |-> 0]
    /\ shaKnown = [w \in Dispatchers |-> FALSE]
    /\ last = [k \in Keys |-> 0] /\ fresh = {}
    /\ since = [k \in Keys |-> 0] /\ more = [k \in Keys |-> 0]
    /\ failures = [w \in Dispatchers |-> 0] /\ restarts = 0

To(w, pc) == wpc' = [wpc EXCEPT ![w] = pc]

(* acquire_blocking returns or raises, and its locals are gone. *)
Leave(w, pc) ==
    /\ To(w, pc)
    /\ deadline' = [deadline EXCEPT ![w] = 0]
    /\ stamp' = [stamp EXCEPT ![w] = 0]

Tick ==
    /\ clock < MaxClock
    /\ clock' = clock + 1
    /\ UNCHANGED <<redisVars, workerVars, histVars>>

-----------------------------------------------------------------------------
(* acquire_blocking, called for each claimed command. *)

Ask(w) ==
    /\ wpc[w] \in {"idle", "granted"}
    /\ deadline' = [deadline EXCEPT ![w] = clock + MaxWait]
    /\ To(w, "asking")
    /\ UNCHANGED <<clock, redisVars, stamp, shaKnown, histVars>>

(* The first attempt of a process loads the script. *)
Stamp(w) ==
    /\ wpc[w] = "asking"
    /\ clock < deadline[w]
    /\ loaded' = (loaded \/ ~shaKnown[w])
    /\ shaKnown' = [shaKnown EXCEPT ![w] = TRUE]
    /\ stamp' = [stamp EXCEPT ![w] = clock]
    /\ To(w, "sent")
    /\ UNCHANGED <<clock, tat, setAt, deadline, histVars>>

GiveUp(w) ==
    /\ wpc[w] = "asking"
    /\ clock >= deadline[w]
    /\ Leave(w, "idle")
    /\ UNCHANGED <<clock, redisVars, shaKnown, histVars>>

(* An expired key is not seen. *)
Live(k) == clock < setAt[k] + KeyTTL

(* Variant: burst 1, one call more than the rate. *)
OpenWithBurst(k, now) == Live(k) => tat[k] <= now + Emission[k]

Open(k, now) == Live(k) => tat[k] <= now

(* What a time reads as once it is written with 14 digits. *)
Stored(t) ==
    CHOOSE v \in 0..(t + Grain) : 2 * v + Grain >= 2 * t /\ 2 * v <= 2 * t + Grain

KeysOf(w) == {ChannelOf[w], "global"}

(* One may begin to count at any grant, and has to at one against a key     *)
(* that is forgotten.                                                       *)
Count(w) ==
    \E anew \in BOOLEAN :
        LET first == {k \in KeysOf(w) : anew \/ k \notin fresh \/ ~Live(k)}
        IN  /\ since' = [k \in Keys |-> IF k \in first THEN stamp[w] ELSE since[k]]
            /\ more' = [k \in Keys |-> IF k \in first THEN 0
                                       ELSE IF k \in KeysOf(w) THEN more[k] + 1 ELSE more[k]]

Grant(w) ==
    /\ wpc[w] = "sent"
    /\ loaded
    /\ \A k \in KeysOf(w) : Open(k, stamp[w])
    /\ tat' = [k \in Keys |->
                  IF k \in KeysOf(w) THEN Stored(stamp[w] + Emission[k]) ELSE tat[k]]
    /\ setAt' = [k \in Keys |-> IF k \in KeysOf(w) THEN clock ELSE setAt[k]]
    /\ Leave(w, "granted")
    /\ last' = [k \in Keys |-> IF k \in KeysOf(w) THEN stamp[w] ELSE last[k]]
    /\ fresh' = fresh \cup KeysOf(w)
    /\ Count(w)
    /\ UNCHANGED <<clock, loaded, shaKnown, failures, restarts>>

(* Variant: the channel's key written before the global one is looked at. *)
RefuseAfterWrite(w) ==
    /\ wpc[w] = "sent"
    /\ loaded
    /\ Open(ChannelOf[w], stamp[w])
    /\ ~Open("global", stamp[w])
    /\ tat' = [tat EXCEPT ![ChannelOf[w]] = Stored(stamp[w] + Emission[ChannelOf[w]])]
    /\ setAt' = [setAt EXCEPT ![ChannelOf[w]] = clock]
    /\ To(w, "asking")
    /\ UNCHANGED <<clock, loaded, deadline, stamp, shaKnown, histVars>>

Refuse(w) ==
    /\ wpc[w] = "sent"
    /\ loaded
    /\ \E k \in KeysOf(w) : ~Open(k, stamp[w])
    /\ To(w, "asking")
    /\ UNCHANGED <<clock, redisVars, deadline, stamp, shaKnown, histVars>>

(* NoScriptError leaves acquire_blocking; the worker goes on to the next    *)
(* message and keeps the hash it knows.                                     *)
NoScript(w) ==
    /\ wpc[w] = "sent"
    /\ ~loaded
    /\ failures[w] < MaxFailures
    /\ failures' = [failures EXCEPT ![w] = @ + 1]
    /\ Leave(w, "idle")
    /\ UNCHANGED <<clock, redisVars, shaKnown, last, fresh, countVars, restarts>>

-----------------------------------------------------------------------------
RestartDispatcher(w) ==
    /\ shaKnown' = [shaKnown EXCEPT ![w] = FALSE]
    /\ Leave(w, "idle")
    /\ UNCHANGED <<clock, redisVars, histVars>>

(* The append-only file may lack the last writes; a time that comes back    *)
(* from before them lets through no more than a lost one.  Scripts are not  *)
(* in the file.                                                             *)
RestartRedis ==
    /\ restarts < MaxRestarts
    /\ restarts' = restarts + 1
    /\ loaded' = FALSE
    /\ \E lost \in SUBSET Keys :
          tat' = [k \in Keys |-> IF k \in lost THEN 0 ELSE tat[k]]
    /\ fresh' = {}
    /\ UNCHANGED <<clock, setAt, workerVars, last, countVars, failures>>

Dispatcher(w) ==
    \/ Ask(w) \/ Stamp(w) \/ GiveUp(w)
    \/ Grant(w) \/ Refuse(w) \/ NoScript(w)

Next ==
    \/ Tick
    \/ \E w \in Dispatchers : Dispatcher(w) \/ RestartDispatcher(w)
    \/ RestartRedis

Spec == Init /\ [][Next]_vars

-----------------------------------------------------------------------------
(* Every variable keeps its type, and a request carries no time to come.    *)
TypeOK ==
    /\ clock \in Nat
    /\ tat \in [Keys -> Nat] /\ setAt \in [Keys -> Nat]
    /\ loaded \in BOOLEAN
    /\ wpc \in [Dispatchers -> {"idle", "asking", "sent", "granted"}]
    /\ deadline \in [Dispatchers -> Nat] /\ stamp \in [Dispatchers -> Nat]
    /\ shaKnown \in [Dispatchers -> BOOLEAN]
    /\ last \in [Keys -> Nat] /\ fresh \in SUBSET Keys
    /\ since \in [Keys -> Nat] /\ more \in [Keys -> Nat]
    /\ failures \in [Dispatchers -> Nat] /\ restarts \in Nat
    /\ \A w \in Dispatchers : stamp[w] <= clock

(* From whatever grant one counts, n more against the same channel, or      *)
(* against the global limit, are not there before n emission intervals, less *)
(* half a grain each, have passed since the first of these calls read its   *)
(* clock.  Scripts that run late may be granted together, but never more of *)
(* them than had their turns by then; only a key idle for its whole TTL is  *)
(* forgotten, or one of a restarted Redis (_GCRA_SCRIPT, try_acquire).      *)
CeilingHolds ==
    \A k \in Keys :
        2 * (since[k] + more[k] * Emission[k]) <= 2 * clock + more[k] * Grain

(* No slot is taken but by a grant: a refused attempt, whichever key it     *)
(* fails on, makes nobody wait (_GCRA_SCRIPT commits both keys or none).    *)
NothingReserved ==
    \A k \in Keys : 2 * tat[k] <= 2 * (last[k] + Emission[k]) + Grain

=============================================================================
