---------------------------- MODULE LeaderElection ----------------------------
(***************************************************************************)
(* Lease-based leader election of the operator (src/leader_election.rs)    *)
(* with the process around it (src/main.rs) and the flags behind /readyz   *)
(* and /leaderz (src/health.rs).                                           *)
(*                                                                         *)
(* Every replica is a process with two tasks that talk to the API server:  *)
(* the main task, which acquires the Lease, waits in `select!` and finally *)
(* releases it, and the renewal task.  The renewal task is never aborted,  *)
(* so it keeps running while the main task releases.  A write to the Lease *)
(* is a message on `wire`: it is applied some time after it was sent, and  *)
(* possibly after its sender timed out, exited or crashed.                 *)
(*                                                                         *)
(* Time.  Clocks are compared only through "now minus renewTime", so every *)
(* timestamp is kept as its age, in ticks of one retry interval, which     *)
(* Tick advances and which stops at Expired, the first age that every      *)
(* clock agrees to call expired.  The clock of r runs Offset[r] ticks      *)
(* ahead of the reference clock, so a stamp r takes has age -Offset[r] and *)
(* r sees age a as a + Offset[r].                                          *)
(*                                                                         *)
(* The resourceVersion is compared for equality only: a copy of the Lease  *)
(* carries `current`, which is TRUE until the Lease is next written.       *)
(***************************************************************************)
EXTENDS Integers, FiniteSets

CONSTANTS
    Replicas,       \* identities (POD_NAME) of the operator replicas
    Nobody,         \* the absent holderIdentity
    Controllers,    \* the controllers a leader runs
    LeaseDuration,  \* LEASE_DURATION_SECS in ticks
    RenewInterval,  \* RENEW_INTERVAL in ticks
    RetryInterval,  \* RETRY_INTERVAL in ticks
    Skew,           \* how far two clocks may be apart, in ticks
    Offset,         \* Offset[r]: how far the clock of r is ahead
    MaxFaults,      \* bound on failed calls and crashes
    MaxLate         \* bound on writes in flight that nobody waits for

ASSUME LeaderElectionAssumption ==
    /\ Nobody \notin Replicas
    /\ LeaseDuration \in Nat /\ RenewInterval \in Nat /\ RetryInterval \in Nat
    /\ Skew \in Nat
    /\ Offset \in [Replicas -> 0..Skew]
    /\ MaxFaults \in Nat /\ MaxLate \in Nat

VARIABLES
    exists, holder, age,    \* the Lease: holderIdentity and age of renewTime
    main,       \* main[r]: where the main task of r is
    renewer,    \* renewer[r]: where the renewal task of r is
    view,       \* view[r]: the Lease as r last read it
    stamp,      \* stamp[r]: age of the timestamp r is writing
    timer,      \* timer[r]: ticks left to sleep
    wire,       \* writes sent to the API server and not yet applied
    ready, leader,  \* the flags of ReadinessState
    running,    \* running[r]: the controllers of r whose task has not ended
    panicked,   \* history: a task of r ended by panic, its flags as they were
    ack,        \* history: age of the last stamp r knows to be in the Lease
    faults      \* failed calls, panics and crashes so far

leaseVars == <<exists, holder, age>>
flagVars  == <<ready, leader>>
taskVars  == <<running, panicked>>
vars == <<exists, holder, age, main, renewer, view, stamp, timer, wire,
          ready, leader, running, panicked, ack, faults>>

-------------------------------------------------------------------------------
Expired == LeaseDuration + 1
Age     == (-Skew)..Expired
Older(a) == IF a < Expired THEN a + 1 ELSE a

Acquiring == {"retry", "get", "decide", "put", "granted", "refused"}
Releasing == {"relget", "relput", "exit"}
MainPc    == {"down", "setup", "lead"} \cup Acquiring \cup Releasing
RenewPc   == {"off", "sleep", "get", "got", "put", "kept", "lost", "done"}

View    == [holder : Replicas \cup {Nobody}, age : Age, current : BOOLEAN]
NoView  == [holder |-> Nobody, age |-> Expired, current |-> FALSE]
Ops     == {"create", "take", "renew", "free"}
Request == [from : Replicas, op : Ops,
            age : Age, current : BOOLEAN, awaited : BOOLEAN]

TypeOK ==
    /\ exists \in BOOLEAN
    /\ holder \in Replicas \cup {Nobody}
    /\ age \in Age
    /\ main \in [Replicas -> MainPc]
    /\ renewer \in [Replicas -> RenewPc]
    /\ view \in [Replicas -> View]
    /\ stamp \in [Replicas -> Age]
    /\ timer \in [Replicas -> Nat]
    /\ wire \subseteq Request
    /\ ready \in [Replicas -> BOOLEAN]
    /\ leader \in [Replicas -> BOOLEAN]
    /\ running \in [Replicas -> SUBSET Controllers]
    /\ panicked \in [Replicas -> BOOLEAN]
    /\ ack \in [Replicas -> Age]
    /\ faults \in Nat

Init ==
    /\ exists = FALSE /\ holder = Nobody /\ age = Expired
    /\ main = [r \in Replicas |-> "down"]
    /\ renewer = [r \in Replicas |-> "off"]
    /\ view = [r \in Replicas |-> NoView]
    /\ stamp = [r \in Replicas |-> Expired]
    /\ timer = [r \in Replicas |-> 0]
    /\ wire = {}
    /\ ready = [r \in Replicas |-> FALSE]
    /\ leader = [r \in Replicas |-> FALSE]
    /\ running = [r \in Replicas |-> {}]
    /\ panicked = [r \in Replicas |-> FALSE]
    /\ ack = [r \in Replicas |-> Expired]
    /\ faults = 0

-------------------------------------------------------------------------------
\* ReadinessState: the transitions of the two flags.
mark_ready(r)   == ready' = [ready EXCEPT ![r] = TRUE] /\ UNCHANGED leader
mark_leader(r)  == leader' = [leader EXCEPT ![r] = TRUE] /\ UNCHANGED ready
mark_standby(r) == leader' = [leader EXCEPT ![r] = FALSE] /\ UNCHANGED ready
\* Mutant of mark_unready: losing readiness keeps the leader flag.
UnreadyOnly(r) == ready' = [ready EXCEPT ![r] = FALSE] /\ UNCHANGED leader
mark_unready(r) == /\ ready' = [ready EXCEPT ![r] = FALSE]
                   /\ leader' = [leader EXCEPT ![r] = FALSE]

Fault == faults < MaxFaults /\ faults' = faults + 1

Send(r, op, a, cur) ==
    wire' = wire \cup {[from |-> r, op |-> op, age |-> a, current |-> cur,
                        awaited |-> TRUE]}

Late(w) == {q \in w : ~q.awaited}

\* The sender stops waiting for the requests in reqs: they were lost on the
\* way, or they are still going to reach the API server.
Abandon(reqs) ==
    \/ wire' = wire \ reqs
    \/ /\ wire' = (wire \ reqs) \cup {[q EXCEPT !.awaited = FALSE] : q \in reqs}
       /\ Cardinality(Late(wire')) <= MaxLate

Awaited(r, ops) == {q \in wire : q.from = r /\ q.op \in ops /\ q.awaited}

\* Mutants of is_expired: a second too early, and never.
ExpiredAtDuration(r, a) == a + Offset[r] >= LeaseDuration
NeverExpired(r, a) == FALSE
is_expired(r, a) == a + Offset[r] > LeaseDuration

-------------------------------------------------------------------------------
(***************************************************************************)
(* The main task: acquire.                                                 *)
(***************************************************************************)

\* The process starts; it is ready before it has the Lease.
Start(r) ==
    /\ main[r] = "down"
    /\ main' = [main EXCEPT ![r] = "retry"]
    /\ timer' = [timer EXCEPT ![r] = 0]
    /\ mark_ready(r)
    /\ UNCHANGED <<leaseVars, renewer, view, stamp, wire, taskVars, ack, faults>>

\* One attempt of the loop in acquire: `now` is taken before the Lease is read.
BeginAttempt(r) ==
    /\ main[r] = "retry" /\ timer[r] = 0
    /\ main' = [main EXCEPT ![r] = "get"]
    /\ stamp' = [stamp EXCEPT ![r] = -Offset[r]]
    /\ UNCHANGED <<leaseVars, renewer, view, timer, wire, flagVars, taskVars,
                   ack, faults>>

AcquireGet(r) ==
    /\ main[r] = "get" /\ exists
    /\ main' = [main EXCEPT ![r] = "decide"]
    /\ view' = [view EXCEPT ![r] = [holder |-> holder, age |-> age,
                                    current |-> TRUE]]
    /\ UNCHANGED <<leaseVars, renewer, stamp, timer, wire, flagVars, taskVars,
                   ack, faults>>

\* 404: create_lease.
AcquireCreate(r) ==
    /\ main[r] = "get" /\ ~exists
    /\ main' = [main EXCEPT ![r] = "put"]
    /\ Send(r, "create", stamp[r], TRUE)
    /\ UNCHANGED <<leaseVars, renewer, view, stamp, timer, flagVars, taskVars,
                   ack, faults>>

\* Mutant of AcquireTake: the version that was read is not sent along.
TakeUnconditionally(r) ==
    /\ main[r] = "decide"
    /\ view[r].holder = r \/ is_expired(r, view[r].age)
    /\ main' = [main EXCEPT ![r] = "put"]
    /\ Send(r, "take", stamp[r], TRUE)
    /\ view' = [view EXCEPT ![r] = NoView]
    /\ UNCHANGED <<leaseVars, renewer, stamp, timer, flagVars, taskVars, ack,
                   faults>>

\* Ours or expired: replace it, conditional on the version that was read.
AcquireTake(r) ==
    /\ main[r] = "decide"
    /\ view[r].holder = r \/ is_expired(r, view[r].age)
    /\ main' = [main EXCEPT ![r] = "put"]
    /\ Send(r, "take", stamp[r], view[r].current)
    /\ view' = [view EXCEPT ![r] = NoView]
    /\ UNCHANGED <<leaseVars, renewer, stamp, timer, flagVars, taskVars, ack,
                   faults>>

Retry(r) ==
    /\ main' = [main EXCEPT ![r] = "retry"]
    /\ timer' = [timer EXCEPT ![r] = RetryInterval]
    /\ stamp' = [stamp EXCEPT ![r] = Expired]
    /\ view' = [view EXCEPT ![r] = NoView]
    /\ UNCHANGED <<leaseVars, renewer, flagVars, taskVars, ack>>

\* Held by another replica and not expired: Ok(false).
AcquireWait(r) ==
    /\ main[r] = "decide"
    /\ view[r].holder # r /\ ~is_expired(r, view[r].age)
    /\ Retry(r)
    /\ UNCHANGED <<wire, faults>>

\* 409 on create or replace: Ok(false).
AcquireRefused(r) ==
    /\ main[r] = "refused"
    /\ Retry(r)
    /\ UNCHANGED <<wire, faults>>

\* Any other error of the read or of the write: Err, same retry.
AcquireError(r) ==
    /\ main[r] \in {"get", "put"}
    /\ Fault
    /\ Retry(r)
    /\ Abandon(Awaited(r, {"create", "take"}))

\* acquire returns: leadership is announced before anything runs.
MarkLeader(r) ==
    /\ main[r] = "granted"
    /\ main' = [main EXCEPT ![r] = "setup"]
    /\ mark_leader(r)
    /\ ack' = [ack EXCEPT ![r] = stamp[r]]
    /\ stamp' = [stamp EXCEPT ![r] = Expired]
    /\ UNCHANGED <<leaseVars, renewer, view, timer, wire, taskVars, faults>>

\* The HTTP client is built, then the controllers and the renewal task are
\* spawned without an await in between, and main waits in `select!`.
Spawn(r) ==
    /\ main[r] = "setup"
    /\ main' = [main EXCEPT ![r] = "lead"]
    /\ running' = [running EXCEPT ![r] = Controllers]
    /\ renewer' = [renewer EXCEPT ![r] = "sleep"]
    /\ timer' = [timer EXCEPT ![r] = RenewInterval]
    /\ UNCHANGED <<leaseVars, view, stamp, wire, flagVars, panicked, ack,
                   faults>>

-------------------------------------------------------------------------------
(***************************************************************************)
(* The renewal task.                                                       *)
(***************************************************************************)
RenewWake(r) ==
    /\ renewer[r] = "sleep" /\ timer[r] = 0
    /\ renewer' = [renewer EXCEPT ![r] = "get"]
    /\ UNCHANGED <<leaseVars, main, view, stamp, timer, wire, flagVars, taskVars,
                   ack, faults>>

RenewGet(r) ==
    /\ renewer[r] = "get"
    /\ exists /\ holder = r
    /\ renewer' = [renewer EXCEPT ![r] = "got"]
    /\ view' = [view EXCEPT ![r] = [holder |-> holder, age |-> age,
                                    current |-> TRUE]]
    /\ UNCHANGED <<leaseVars, main, stamp, timer, wire, flagVars, taskVars, ack,
                   faults>>

\* The stamp of a renewal is taken after the Lease was read.
RenewPut(r) ==
    /\ renewer[r] = "got"
    /\ renewer' = [renewer EXCEPT ![r] = "put"]
    /\ stamp' = [stamp EXCEPT ![r] = -Offset[r]]
    /\ Send(r, "renew", -Offset[r], view[r].current)
    /\ view' = [view EXCEPT ![r] = NoView]
    /\ UNCHANGED <<leaseVars, main, timer, flagVars, taskVars, ack, faults>>

\* Ok(true): sleep until the next renewal.
RenewKept(r) ==
    /\ renewer[r] = "kept"
    /\ renewer' = [renewer EXCEPT ![r] = "sleep"]
    /\ timer' = [timer EXCEPT ![r] = RenewInterval]
    /\ ack' = [ack EXCEPT ![r] = stamp[r]]
    /\ stamp' = [stamp EXCEPT ![r] = Expired]
    /\ UNCHANGED <<leaseVars, main, view, wire, flagVars, taskVars, faults>>

\* The task ends: leadership is lost at once, the main task shuts down later.
RenewEnd(r) ==
    /\ renewer' = [renewer EXCEPT ![r] = "done"]
    /\ mark_standby(r)
    /\ stamp' = [stamp EXCEPT ![r] = Expired]
    /\ UNCHANGED <<leaseVars, main, view, timer, taskVars, ack>>

\* Mutant of RenewLost: Ok(false) is only logged and the loop goes on.
RenewLostIgnored(r) ==
    /\ \/ renewer[r] = "get" /\ exists /\ holder # r
       \/ renewer[r] = "lost"
    /\ renewer' = [renewer EXCEPT ![r] = "sleep"]
    /\ timer' = [timer EXCEPT ![r] = RenewInterval]
    /\ stamp' = [stamp EXCEPT ![r] = Expired]
    /\ UNCHANGED <<leaseVars, main, view, wire, flagVars, taskVars, ack, faults>>

\* Ok(false): another holder, none, or a 409 on the write.
RenewLost(r) ==
    /\ \/ renewer[r] = "get" /\ exists /\ holder # r
       \/ renewer[r] = "lost"
    /\ RenewEnd(r)
    /\ UNCHANGED <<wire, faults>>

\* Err: any other failure of the read or of the write.
RenewError(r) ==
    /\ renewer[r] \in {"get", "put"}
    /\ Fault
    /\ RenewEnd(r)
    /\ Abandon(Awaited(r, {"renew"}))

\* The task panics: it ends without mark_standby.
RenewPanics(r) ==
    /\ renewer[r] \notin {"off", "done"}
    /\ Fault
    /\ renewer' = [renewer EXCEPT ![r] = "done"]
    /\ stamp' = [stamp EXCEPT ![r] = Expired]
    /\ panicked' = [panicked EXCEPT ![r] = TRUE]
    /\ Abandon(Awaited(r, {"renew"}))
    /\ UNCHANGED <<leaseVars, main, view, timer, flagVars, running, ack>>

-------------------------------------------------------------------------------
(***************************************************************************)
(* The main task: shutdown.                                                *)
(***************************************************************************)

\* run() of a controller returns, on SIGINT or SIGTERM or by itself: its task
\* drops both flags and ends.
ControllerEnds(r, c) ==
    /\ c \in running[r]
    /\ mark_unready(r)
    /\ running' = [running EXCEPT ![r] = @ \ {c}]
    /\ UNCHANGED <<leaseVars, main, renewer, view, stamp, timer, wire, panicked,
                   ack, faults>>

\* A controller panics: its task ends with a JoinError and no flag changes.
ControllerPanics(r, c) ==
    /\ c \in running[r]
    /\ Fault
    /\ running' = [running EXCEPT ![r] = @ \ {c}]
    /\ panicked' = [panicked EXCEPT ![r] = TRUE]
    /\ UNCHANGED <<leaseVars, main, renewer, view, stamp, timer, wire, flagVars,
                   ack>>

ShutDown(r) ==
    /\ main' = [main EXCEPT ![r] = "relget"]
    /\ mark_unready(r)
    /\ UNCHANGED <<leaseVars, renewer, view, stamp, timer, wire, taskVars, ack,
                   faults>>

\* `select!` wakes up on ctrl_c ...
CtrlC(r) == main[r] = "lead" /\ ShutDown(r)

\* ... or when a controller or the renewal task has ended.
TaskEnded(r) ==
    /\ main[r] = "lead"
    /\ running[r] # Controllers \/ renewer[r] = "done"
    /\ ShutDown(r)

\* Mutant of ReleaseGet: the holder is not compared with the own identity.
ReleaseAnyHolder(r) ==
    /\ main[r] = "relget" /\ exists
    /\ main' = [main EXCEPT ![r] = "relput"]
    /\ Send(r, "free", Expired, TRUE)
    /\ UNCHANGED <<leaseVars, renewer, view, stamp, timer, flagVars, taskVars,
                   ack, faults>>

\* release reads the Lease; a replica that still holds it clears the holder.
ReleaseGet(r) ==
    /\ main[r] = "relget" /\ exists /\ holder = r
    /\ main' = [main EXCEPT ![r] = "relput"]
    /\ Send(r, "free", Expired, TRUE)
    /\ UNCHANGED <<leaseVars, renewer, view, stamp, timer, flagVars, taskVars,
                   ack, faults>>

\* Not ours: nothing to release.
ReleaseSkip(r) ==
    /\ main[r] = "relget" /\ exists /\ holder # r
    /\ main' = [main EXCEPT ![r] = "exit"]
    /\ UNCHANGED <<leaseVars, renewer, view, stamp, timer, wire, flagVars,
                   taskVars, ack, faults>>

\* An error of either call is logged and the process goes on to exit.
ReleaseError(r) ==
    /\ main[r] \in {"relget", "relput"}
    /\ Fault
    /\ main' = [main EXCEPT ![r] = "exit"]
    /\ Abandon(Awaited(r, {"free"}))
    /\ UNCHANGED <<leaseVars, renewer, view, stamp, timer, flagVars, taskVars,
                   ack>>

\* The process is gone with all its tasks; requests it sent may still arrive.
Gone(r) ==
    /\ main' = [main EXCEPT ![r] = "down"]
    /\ renewer' = [renewer EXCEPT ![r] = "off"]
    /\ view' = [view EXCEPT ![r] = NoView]
    /\ stamp' = [stamp EXCEPT ![r] = Expired]
    /\ timer' = [timer EXCEPT ![r] = 0]
    /\ ready' = [ready EXCEPT ![r] = FALSE]
    /\ leader' = [leader EXCEPT ![r] = FALSE]
    /\ running' = [running EXCEPT ![r] = {}]
    /\ panicked' = [panicked EXCEPT ![r] = FALSE]
    /\ ack' = [ack EXCEPT ![r] = Expired]
    /\ Abandon(Awaited(r, Ops))
    /\ UNCHANGED leaseVars

Exit(r) == main[r] = "exit" /\ Gone(r) /\ UNCHANGED faults

\* The HTTP client cannot be built: main returns the error, the Lease is kept.
SetupFails(r) == main[r] = "setup" /\ Fault /\ Gone(r)

Crash(r) == main[r] # "down" /\ Fault /\ Gone(r)

-------------------------------------------------------------------------------
(***************************************************************************)
(* The API server and time.                                                *)
(***************************************************************************)

\* The task that waits for request q gets its answer.
Answer(q, ok) ==
    /\ main' = IF q.awaited /\ q.op # "renew"
               THEN [main EXCEPT ![q.from] =
                       IF q.op = "free" THEN "exit"
                       ELSE IF ok THEN "granted" ELSE "refused"]
               ELSE main
    /\ renewer' = IF q.awaited /\ q.op = "renew"
                  THEN [renewer EXCEPT ![q.from] = IF ok THEN "kept" ELSE "lost"]
                  ELSE renewer
    /\ UNCHANGED <<stamp, timer, flagVars, taskVars, ack, faults>>

\* Optimistic concurrency: a create needs the Lease to be absent, a replace
\* needs the version that was read to be the version that is there.
Accepts(q) == IF q.op = "create" THEN ~exists ELSE q.current

Apply(q) ==
    /\ q \in wire /\ Accepts(q)
    /\ exists' = TRUE
    /\ holder' = IF q.op = "free" THEN Nobody ELSE q.from
    /\ age' = IF q.op = "free" THEN age ELSE q.age
    /\ wire' = {[p EXCEPT !.current = FALSE] : p \in wire \ {q}}
    /\ view' = [r \in Replicas |-> [view[r] EXCEPT !.current = FALSE]]
    /\ Answer(q, TRUE)

Reject(q) ==
    /\ q \in wire /\ ~Accepts(q)
    /\ wire' = wire \ {q}
    /\ Answer(q, FALSE)
    /\ UNCHANGED <<leaseVars, view>>

Tick ==
    /\ age' = Older(age)
    /\ view' = [r \in Replicas |-> [view[r] EXCEPT !.age = Older(@)]]
    /\ stamp' = [r \in Replicas |-> Older(stamp[r])]
    /\ ack' = [r \in Replicas |-> Older(ack[r])]
    /\ wire' = {[q EXCEPT !.age = Older(@)] : q \in wire}
    /\ timer' = [r \in Replicas |-> IF timer[r] > 0 THEN timer[r] - 1 ELSE 0]
    /\ UNCHANGED <<exists, holder, main, renewer, flagVars, taskVars, faults>>

-------------------------------------------------------------------------------
MainStep(r) ==
    \/ Start(r) \/ BeginAttempt(r) \/ AcquireGet(r) \/ AcquireCreate(r)
    \/ AcquireTake(r) \/ AcquireWait(r) \/ AcquireRefused(r) \/ MarkLeader(r)
    \/ Spawn(r) \/ TaskEnded(r) \/ ReleaseGet(r) \/ ReleaseSkip(r) \/ Exit(r)

RenewStep(r) ==
    RenewWake(r) \/ RenewGet(r) \/ RenewPut(r) \/ RenewKept(r) \/ RenewLost(r)

Disturb(r) ==
    \/ AcquireError(r) \/ RenewError(r) \/ RenewPanics(r) \/ ReleaseError(r)
    \/ SetupFails(r) \/ Crash(r) \/ CtrlC(r)
    \/ \E c \in Controllers : ControllerEnds(r, c) \/ ControllerPanics(r, c)

\* The two tasks of a replica wait for one request each.
MainOps == {"create", "take", "free"}
RenewOps == {"renew"}

Serve(r, ops) ==
    \E q \in wire : q.from = r /\ q.op \in ops /\ (Apply(q) \/ Reject(q))

Next ==
    \/ \E r \in Replicas : MainStep(r) \/ RenewStep(r) \/ Disturb(r)
    \/ \E r \in Replicas : Serve(r, MainOps) \/ Serve(r, RenewOps)
    \/ Tick

Spec == Init /\ [][Next]_vars

\* Tokio runs every task that can run, the kubelet restarts a process that is
\* gone, the API server serves every request and time passes.  Nothing is
\* assumed of faults, signals and controllers that return.
Fairness ==
    /\ \A r \in Replicas : /\ WF_vars(MainStep(r))
                           /\ WF_vars(RenewStep(r))
                           /\ WF_vars(Serve(r, MainOps))
                           /\ WF_vars(Serve(r, RenewOps))
    /\ WF_vars(Tick)

FairSpec == Spec /\ Fairness

-------------------------------------------------------------------------------
(***************************************************************************)
(* Properties.                                                             *)
(***************************************************************************)

\* A stamp this young is in a Lease that no clock sees expired.
Trusted(a) == a + Skew <= LeaseDuration

\* r knows that it wrote the Lease recently enough.
Fresh(r) == Trusted(ack[r])

Lock == INSTANCE LeaseLock WITH granted <- {r \in Replicas : Fresh(r)}

\* Leader election implements a lock: replicas whose last acknowledged write
\* of the Lease is recent enough never overlap, whatever calls are delayed,
\* lost or applied late, and one never follows another without a gap.
\* (try_acquire, renew and release with the resourceVersion precondition.)
ImplementsLock == Lock!Spec

\* A Lease that somebody holds changes hands only after it expired: a decision
\* to take over that was made on an old read never overwrites a renewal that
\* came in between (is_expired and update_lease).
NoEarlyTakeover ==
    [][exists /\ holder # Nobody /\ holder' \notin {holder, Nobody}
          => age + Skew > LeaseDuration]_leaseVars

\* A replica that shuts down clears its own holder identity only, never the
\* one of the successor that took over while it was stalled (release).
ClearsOwnHolderOnly ==
    [][holder # Nobody /\ holder' = Nobody =>
          \E q \in wire : q.op = "free" /\ q.from = holder]_leaseVars

\* /leaderz says leader only from the moment acquire returned until main shuts
\* down, and while it does, no controller's task has ended and the renewal
\* task has not given up.  The one
\* exception is a task that panics: it runs neither mark_unready nor
\* mark_standby, and the flag stays until main is told.
LeaderFlagHonest ==
    \A r \in Replicas : leader[r] =>
        \/ main[r] = "setup"
        \/ /\ main[r] = "lead"
           /\ ~panicked[r] => /\ running[r] = Controllers
                              /\ renewer[r] \notin {"off", "done"}

\* Whenever no replica leads, one will: after a crash, a shutdown or a lost
\* lease the loop in acquire takes over in the end.
LeadershipRecovers ==
    (\A r \in Replicas : main[r] # "lead") ~> (\E r \in Replicas : main[r] = "lead")

\* r does what it should not: it runs controllers under the Lease of another
\* replica, or says leader without all its controllers and its renewal task.
Impaired(r) ==
    \/ running[r] # {} /\ holder # r
    \/ leader[r] /\ main[r] = "lead"
         /\ (running[r] # Controllers \/ renewer[r] = "done")

\* That never lasts: the renewal task finds out that the Lease is lost, main
\* finds out that a task ended, by panic too, and shuts the replica down.
ImpairedLeaderStops == \A r \in Replicas : Impaired(r) ~> ~Impaired(r)

\* src/leader_election.rs: "ensure only one operator instance runs the
\* controllers at a time".
OneInstanceRunsControllers ==
    \A r, s \in Replicas : running[r] # {} /\ running[s] # {} => r = s

-------------------------------------------------------------------------------
(***************************************************************************)
(* Why it works: the parts of an inductive invariant.                      *)
(***************************************************************************)

\* While a stamp of age a written by r can be trusted, the Lease is r's or
\* released, and at least as young as that stamp.
Covers(r, a) == Trusted(a) => exists /\ holder \in {r, Nobody} /\ age <= a

\* The renewal task lives only in a replica that led; before that nothing is
\* acknowledged.
PcInv ==
    \A r \in Replicas :
        /\ main[r] \in Acquiring \cup {"down", "setup"} => renewer[r] = "off"
        /\ main[r] \in Acquiring \cup {"down"} => ack[r] = Expired

\* No stamp is younger than the clock of its replica allows.
StampInv == \A r \in Replicas : stamp[r] >= -Offset[r] /\ ack[r] >= -Offset[r]

\* A request that is waited for is the one its task waits for.
Waiting(q) ==
    /\ q.op \in {"create", "take"} => main[q.from] = "put" /\ stamp[q.from] = q.age
    /\ q.op = "renew" => renewer[q.from] = "put" /\ stamp[q.from] = q.age
    /\ q.op = "free" => main[q.from] = "relput"
AwaitedInv ==
    /\ \A q \in wire : q.awaited => Waiting(q)
    /\ \A p, q \in wire : p.awaited /\ q.awaited /\ p.from = q.from
                          /\ (p.op \in MainOps <=> q.op \in MainOps) => p = q

\* A current copy is the Lease.
ViewInv ==
    \A r \in Replicas :
        /\ view[r].current => exists /\ view[r].holder = holder /\ view[r].age = age
        /\ renewer[r] = "got" => view[r].holder = r

\* A current write was decided on what the Lease still says.
WireInv ==
    \A q \in wire : q.current /\ q.op # "create" =>
        /\ exists
        /\ holder = q.from \/ (q.op = "take" /\ is_expired(q.from, age))

\* What a replica was told stands ...
AckInv == \A r \in Replicas : Covers(r, ack[r])

\* ... and so does what it is about to be told ...
Granted(r) == main[r] = "granted" \/ renewer[r] = "kept"
GrantInv == \A r \in Replicas : Granted(r) => Covers(r, stamp[r])

\* ... and its own later writes only make the Lease younger.
OrderInv ==
    \A q \in wire : q.op # "free" /\ Accepts(q) =>
        /\ Trusted(ack[q.from]) => q.age <= ack[q.from]
        /\ Granted(q.from) /\ Trusted(stamp[q.from]) => q.age <= stamp[q.from]

\* At most one replica trusts what it was told or is about to be told, even
\* while the Lease names nobody.
Holds(r) == Fresh(r) \/ (Granted(r) /\ Trusted(stamp[r]))
ExclusiveInv == \A r, s \in Replicas : Holds(r) /\ Holds(s) => r = s

IInv ==
    /\ TypeOK /\ PcInv /\ StampInv /\ AwaitedInv /\ ViewInv /\ WireInv
    /\ AckInv /\ GrantInv /\ OrderInv /\ ExclusiveInv
================================================================================
