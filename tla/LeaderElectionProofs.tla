------------------------- MODULE LeaderElectionProofs -------------------------
(***************************************************************************)
(* Proofs about LeaderElection, for any number of replicas, any lease      *)
(* duration and intervals, any bounded clock skew and any number of faults *)
(* and late writes.                                                        *)
(***************************************************************************)
EXTENDS LeaderElection, TLAPS

-------------------------------------------------------------------------------
(***************************************************************************)
(* Ages and requests.                                                      *)
(***************************************************************************)

\* Ages: what Tick does to them and where a new stamp starts.
LEMMA AgeFacts ==
    /\ Expired \in Age
    /\ \A r \in Replicas : Offset[r] \in Nat /\ Offset[r] <= Skew /\ -Offset[r] \in Age
    /\ \A a \in Age : Older(a) \in Age /\ Older(a) >= a
    /\ \A a, b \in Age : a <= b => Older(a) <= Older(b)
    /\ \A a \in Age : a \in Int
  BY LeaderElectionAssumption DEF Age, Expired, Older

\* What is left on the wire when a task stops waiting: the requests in reqs
\* are lost or no longer awaited, all others are as they were.
LEMMA AbandonFacts ==
    ASSUME wire \subseteq Request, NEW reqs, reqs \subseteq wire, Abandon(reqs)
    PROVE  /\ wire' \subseteq Request
           /\ \A q \in wire' : q.awaited => q \in wire \ reqs
           /\ \A q \in wire' : \E p \in wire :
                /\ q.from = p.from /\ q.op = p.op /\ q.age = p.age
                /\ q.current = p.current
  <1>1. \A p \in Request :
            /\ [p EXCEPT !.awaited = FALSE] \in Request
            /\ [p EXCEPT !.awaited = FALSE].awaited = FALSE
            /\ [p EXCEPT !.awaited = FALSE].from = p.from
            /\ [p EXCEPT !.awaited = FALSE].op = p.op
            /\ [p EXCEPT !.awaited = FALSE].age = p.age
            /\ [p EXCEPT !.awaited = FALSE].current = p.current
    BY DEF Request
  <1>2. ASSUME NEW q \in wire', q \notin wire \ reqs
        PROVE  \E p \in reqs : q = [p EXCEPT !.awaited = FALSE]
    BY <1>2, Zenon DEF Abandon
  <1>3. ASSUME NEW q \in wire'
        PROVE  /\ q \in Request
               /\ q.awaited => q \in wire \ reqs
               /\ \E p \in wire : /\ q.from = p.from /\ q.op = p.op
                                  /\ q.age = p.age /\ q.current = p.current
    <2>1. CASE q \in wire \ reqs
      BY <2>1
    <2>2. CASE q \notin wire \ reqs
      <3>1. PICK p \in reqs : q = [p EXCEPT !.awaited = FALSE]
        BY <1>2, <2>2
      <3>2. p \in wire /\ p \in Request
        OBVIOUS
      <3>3. QED
        BY <1>1, <3>1, <3>2
    <2>3. QED
      BY <2>1, <2>2
  <1>4. QED
    BY <1>3

\* Sending one request.
LEMMA SendFacts ==
    ASSUME wire \subseteq Request, NEW r \in Replicas, NEW op \in Ops,
           NEW a \in Age, NEW cur \in BOOLEAN, Send(r, op, a, cur)
    PROVE  wire' \subseteq Request
  <1>1. [from |-> r, op |-> op, age |-> a, current |-> cur, awaited |-> TRUE]
           \in Request
    BY DEF Request
  <1>2. QED
    BY <1>1, Zenon DEF Send

-------------------------------------------------------------------------------
(***************************************************************************)
(* Type correctness.                                                       *)
(***************************************************************************)
LEMMA TypeInit == Init => TypeOK
  <1>1. NoView \in View
    BY AgeFacts DEF NoView, View
  <1>2. Init => view \in [Replicas -> View] /\ wire \subseteq Request
                /\ running \in [Replicas -> SUBSET Controllers]
    BY <1>1 DEF Init
  <1>3. Init => main \in [Replicas -> MainPc] /\ renewer \in [Replicas -> RenewPc]
    BY DEF Init, MainPc, RenewPc
  <1>4. Init => /\ stamp \in [Replicas -> Age] /\ ack \in [Replicas -> Age]
                /\ timer \in [Replicas -> Nat] /\ faults \in Nat
    BY AgeFacts DEF Init
  <1>5. Init => ready \in [Replicas -> BOOLEAN] /\ leader \in [Replicas -> BOOLEAN]
    BY DEF Init
  <1>6. QED
    BY <1>2, <1>3, <1>4, <1>5, AgeFacts DEF Init, TypeOK

LEMMA TypeMain ==
    ASSUME TypeOK, NEW r \in Replicas, MainStep(r)
    PROVE  TypeOK'
  <1> USE AgeFacts DEF TypeOK, leaseVars, flagVars, taskVars, MainPc, Acquiring, Releasing
  <1>1. CASE Start(r)
    BY <1>1 DEF Start, mark_ready
  <1>2. CASE BeginAttempt(r)
    BY <1>2 DEF BeginAttempt
  <1>3. CASE AcquireGet(r)
    BY <1>3 DEF AcquireGet, View
  <1>4. CASE AcquireCreate(r)
    BY <1>4, SendFacts DEF AcquireCreate, Ops
  <1>5. CASE AcquireTake(r)
    <2>1. wire' \subseteq Request
      BY <1>5, SendFacts DEF AcquireTake, Ops, View
    <2>2. QED
      BY <1>5, <2>1 DEF AcquireTake, View, NoView
  <1>6. CASE AcquireWait(r)
    BY <1>6, LeaderElectionAssumption DEF AcquireWait, Retry, View, NoView
  <1>7. CASE AcquireRefused(r)
    BY <1>7, LeaderElectionAssumption DEF AcquireRefused, Retry, View, NoView
  <1>8. CASE MarkLeader(r)
    BY <1>8 DEF MarkLeader, mark_leader
  <1>14. CASE Spawn(r)
    <2>1. running' \in [Replicas -> SUBSET Controllers]
      BY <1>14 DEF Spawn
    <2>2. renewer' \in [Replicas -> RenewPc] /\ main' \in [Replicas -> MainPc]
      BY <1>14 DEF Spawn, RenewPc
    <2>3. timer' \in [Replicas -> Nat]
      BY <1>14, LeaderElectionAssumption DEF Spawn
    <2>4. QED
      BY <1>14, <2>1, <2>2, <2>3 DEF Spawn
  <1>9. CASE TaskEnded(r)
    BY <1>9 DEF TaskEnded, ShutDown, mark_unready
  <1>10. CASE ReleaseGet(r)
    BY <1>10, SendFacts DEF ReleaseGet, Ops
  <1>11. CASE ReleaseSkip(r)
    BY <1>11 DEF ReleaseSkip
  <1>12. CASE Exit(r)
    BY <1>12, AbandonFacts DEF Exit, Gone, Awaited, RenewPc, View, NoView
  <1>13. QED
    BY <1>1, <1>2, <1>3, <1>4, <1>5, <1>6, <1>7, <1>8, <1>9, <1>10, <1>11,
       <1>12, <1>14 DEF MainStep

LEMMA TypeRenew ==
    ASSUME TypeOK, NEW r \in Replicas, RenewStep(r)
    PROVE  TypeOK'
  <1> USE AgeFacts DEF TypeOK, leaseVars, flagVars, taskVars, RenewPc
  <1>1. CASE RenewWake(r)
    BY <1>1 DEF RenewWake
  <1>2. CASE RenewGet(r)
    BY <1>2 DEF RenewGet, View
  <1>3. CASE RenewPut(r)
    <2>1. wire' \subseteq Request
      BY <1>3, SendFacts DEF RenewPut, Ops, View
    <2>2. QED
      BY <1>3, <2>1 DEF RenewPut, View, NoView
  <1>4. CASE RenewKept(r)
    BY <1>4, LeaderElectionAssumption DEF RenewKept
  <1>5. CASE RenewLost(r)
    BY <1>5 DEF RenewLost, RenewEnd, mark_standby
  <1>6. QED
    BY <1>1, <1>2, <1>3, <1>4, <1>5 DEF RenewStep

LEMMA TypeDisturb ==
    ASSUME TypeOK, NEW r \in Replicas, Disturb(r)
    PROVE  TypeOK'
  <1> USE AgeFacts DEF TypeOK, leaseVars, flagVars, taskVars, Fault, Awaited
  <1>1. CASE AcquireError(r)
    <2>1. wire' \subseteq Request
      BY <1>1, AbandonFacts DEF AcquireError
    <2>2. view' \in [Replicas -> View]
      BY <1>1 DEF AcquireError, Retry, View, NoView
    <2>3. QED
      BY <1>1, <2>1, <2>2, LeaderElectionAssumption
         DEF AcquireError, Retry, MainPc, Acquiring
  <1>2. CASE RenewError(r)
    BY <1>2, AbandonFacts DEF RenewError, RenewEnd, mark_standby, RenewPc
  <1>8. CASE RenewPanics(r)
    BY <1>8, AbandonFacts DEF RenewPanics, RenewPc
  <1>3. CASE ReleaseError(r)
    BY <1>3, AbandonFacts DEF ReleaseError, MainPc, Releasing
  <1>4. CASE Crash(r) \/ SetupFails(r)
    <2>1. wire' \subseteq Request
      BY <1>4, AbandonFacts DEF Crash, SetupFails, Gone
    <2>2. Gone(r) /\ faults' \in Nat
      BY <1>4 DEF Crash, SetupFails
    <2>3. view' \in [Replicas -> View]
      BY <2>2 DEF Gone, View, NoView
    <2>4. QED
      BY <2>1, <2>2, <2>3 DEF Gone, RenewPc, MainPc
  <1>5. CASE CtrlC(r)
    BY <1>5 DEF CtrlC, ShutDown, mark_unready, MainPc, Releasing
  <1>6. CASE \E c \in Controllers : ControllerEnds(r, c)
    BY <1>6 DEF ControllerEnds, mark_unready
  <1>9. CASE \E c \in Controllers : ControllerPanics(r, c)
    BY <1>9 DEF ControllerPanics
  <1>7. QED
    BY <1>1, <1>2, <1>3, <1>4, <1>5, <1>6, <1>8, <1>9 DEF Disturb

LEMMA TypeServe ==
    ASSUME TypeOK, NEW q \in wire, Apply(q) \/ Reject(q)
    PROVE  TypeOK'
  <1>1. q \in Request
    BY DEF TypeOK
  <1>2. main' \in [Replicas -> MainPc] /\ renewer' \in [Replicas -> RenewPc]
    <2>1. q.from \in Replicas
      BY <1>1 DEF Request
    <2>2. {"exit", "granted", "refused"} \subseteq MainPc
          /\ {"kept", "lost"} \subseteq RenewPc
      BY DEF MainPc, RenewPc, Acquiring, Releasing
    <2>3. \E ok \in BOOLEAN : Answer(q, ok)
      BY DEF Apply, Reject
    <2>4. QED
      BY <2>1, <2>2, <2>3 DEF Answer, TypeOK
  <1>3. CASE Apply(q)
    <2>1. \A p \in Request : [p EXCEPT !.current = FALSE] \in Request
      BY DEF Request
    <2>2. wire' \subseteq Request
      BY <1>3, <2>1 DEF Apply, TypeOK
    <2>3. view' \in [Replicas -> View]
      BY <1>3 DEF Apply, TypeOK, View
    <2>4. QED
      BY <1>1, <1>2, <1>3, <2>2, <2>3
         DEF Apply, Answer, TypeOK, Request, flagVars, taskVars
  <1>4. CASE Reject(q)
    BY <1>2, <1>4 DEF Reject, Answer, TypeOK, leaseVars, flagVars, taskVars
  <1>5. QED
    BY <1>3, <1>4

LEMMA TypeTick ==
    ASSUME TypeOK, Tick
    PROVE  TypeOK'
  <1>1. wire' \subseteq Request
    <2>1. \A p \in Request : [p EXCEPT !.age = Older(@)] \in Request
      BY AgeFacts DEF Request
    <2>2. QED
      BY <2>1 DEF Tick, TypeOK
  <1>2. view' \in [Replicas -> View]
    BY AgeFacts DEF Tick, TypeOK, View
  <1>3. timer' \in [Replicas -> Nat]
    BY DEF Tick, TypeOK
  <1>4. QED
    BY <1>1, <1>2, <1>3, AgeFacts DEF Tick, TypeOK, flagVars, taskVars

LEMMA TypeStep == TypeOK /\ [Next]_vars => TypeOK'
  <1> SUFFICES ASSUME TypeOK, [Next]_vars PROVE TypeOK'
    OBVIOUS
  <1>1. CASE \E r \in Replicas : MainStep(r) \/ RenewStep(r) \/ Disturb(r)
    BY <1>1, TypeMain, TypeRenew, TypeDisturb
  <1>2. CASE \E r \in Replicas : Serve(r, MainOps) \/ Serve(r, RenewOps)
    BY <1>2, TypeServe DEF Serve
  <1>3. CASE Tick
    BY <1>3, TypeTick
  <1>4. CASE UNCHANGED vars
    BY <1>4 DEF vars, TypeOK
  <1>5. QED
    BY <1>1, <1>2, <1>3, <1>4 DEF Next

\* Every variable of leader election keeps its type.
THEOREM TypeCorrect == Spec => []TypeOK
  BY TypeInit, TypeStep, PTL DEF Spec

-------------------------------------------------------------------------------
(***************************************************************************)
(* The inductive invariant holds initially.                                *)
(***************************************************************************)
LEMMA IInvInit == Init => IInv
  <1> SUFFICES ASSUME Init PROVE IInv
    OBVIOUS
  <1>1. TypeOK
    BY TypeInit
  <1>2. PcInv /\ ViewInv /\ AwaitedInv /\ WireInv /\ OrderInv
    BY DEF Init, PcInv, ViewInv, AwaitedInv, WireInv, OrderInv, NoView
  <1>3. StampInv
    BY LeaderElectionAssumption DEF Init, StampInv, Expired
  <1>4. AckInv /\ GrantInv /\ ExclusiveInv
    BY LeaderElectionAssumption
       DEF Init, AckInv, GrantInv, Covers, Trusted, Granted, Expired, ExclusiveInv,
           Holds, Fresh
  <1>5. QED
    BY <1>1, <1>2, <1>3, <1>4 DEF IInv

-------------------------------------------------------------------------------
(***************************************************************************)
(* The requests on the wire after each kind of step.                       *)
(***************************************************************************)

\* An answer goes to a task that waits for it.
LEMMA AnswerFacts ==
    ASSUME TypeOK, AwaitedInv, NEW q \in wire, NEW ok \in BOOLEAN, Answer(q, ok)
    PROVE  /\ q.from \in Replicas
           /\ \A r \in Replicas :
                \/ main'[r] = main[r]
                \/ /\ r = q.from /\ q.awaited /\ q.op \in {"create", "take"}
                   /\ main[r] = "put" /\ stamp[r] = q.age
                   /\ main'[r] = IF ok THEN "granted" ELSE "refused"
                \/ /\ r = q.from /\ q.awaited /\ q.op = "free"
                   /\ main[r] = "relput" /\ main'[r] = "exit"
           /\ \A r \in Replicas :
                \/ renewer'[r] = renewer[r]
                \/ /\ r = q.from /\ q.awaited /\ q.op = "renew"
                   /\ renewer[r] = "put" /\ stamp[r] = q.age
                   /\ renewer'[r] = IF ok THEN "kept" ELSE "lost"
  <1>1. q \in Request /\ q.from \in Replicas /\ q.op \in Ops
    BY DEF TypeOK, Request
  <1>2. q.awaited => Waiting(q)
    BY DEF AwaitedInv
  <1>3. QED
    BY <1>1, <1>2 DEF Answer, TypeOK, Waiting, Ops

\* Apply: every other copy of the Lease becomes outdated.
LEMMA ApplyFacts ==
    ASSUME TypeOK, NEW q \in wire, Apply(q)
    PROVE  \A p \in wire' :
              /\ p.current = FALSE
              /\ \E w \in wire \ {q} :
                    p = [w EXCEPT !.current = FALSE] /\ p.from = w.from
                    /\ p.op = w.op /\ p.age = w.age /\ p.awaited = w.awaited
  <1> SUFFICES ASSUME NEW p \in wire'
               PROVE  /\ p.current = FALSE
                      /\ \E w \in wire \ {q} :
                            p = [w EXCEPT !.current = FALSE] /\ p.from = w.from
                            /\ p.op = w.op /\ p.age = w.age /\ p.awaited = w.awaited
    OBVIOUS
  <1>1. PICK w \in wire \ {q} : p = [w EXCEPT !.current = FALSE]
    BY Zenon DEF Apply
  <1>2. w \in Request
    BY DEF TypeOK
  <1>3. p.current = FALSE /\ p.from = w.from /\ p.op = w.op /\ p.age = w.age
        /\ p.awaited = w.awaited
    BY <1>1, <1>2 DEF Request
  <1>4. QED
    BY <1>1, <1>3

\* Tick: every request gets older.
LEMMA TickFacts ==
    ASSUME TypeOK, Tick
    PROVE  \A p \in wire' : \E w \in wire :
              /\ p = [w EXCEPT !.age = Older(@)] /\ p.age = Older(w.age)
              /\ p.from = w.from /\ p.op = w.op
              /\ p.current = w.current /\ p.awaited = w.awaited
  <1> SUFFICES ASSUME NEW p \in wire'
               PROVE  \E w \in wire :
                        /\ p = [w EXCEPT !.age = Older(@)] /\ p.age = Older(w.age)
                        /\ p.from = w.from /\ p.op = w.op
                        /\ p.current = w.current /\ p.awaited = w.awaited
    OBVIOUS
  <1>1. PICK w \in wire : p = [w EXCEPT !.age = Older(@)]
    BY Zenon DEF Tick
  <1>2. w \in Request
    BY DEF TypeOK
  <1>3. p.age = Older(w.age) /\ p.from = w.from /\ p.op = w.op
        /\ p.current = w.current /\ p.awaited = w.awaited
    BY <1>1, <1>2 DEF Request
  <1>4. QED
    BY <1>1, <1>3

-------------------------------------------------------------------------------
(***************************************************************************)
(* The tasks: PcInv and StampInv.                                          *)
(***************************************************************************)
LEMMA PcStep == IInv /\ [Next]_vars => PcInv'
  <1> SUFFICES ASSUME TypeOK, PcInv, AwaitedInv, [Next]_vars PROVE PcInv'
    BY DEF IInv
  <1> USE DEF TypeOK, PcInv, Acquiring
  <1>1. ASSUME NEW r \in Replicas, MainStep(r) PROVE PcInv'
    <2>1. CASE Start(r) \/ BeginAttempt(r) \/ AcquireGet(r) \/ AcquireCreate(r)
               \/ AcquireTake(r)
      BY <2>1 DEF Start, BeginAttempt, AcquireGet, AcquireCreate, AcquireTake
    <2>2. CASE AcquireWait(r) \/ AcquireRefused(r)
      BY <2>2 DEF AcquireWait, AcquireRefused, Retry
    <2>3. CASE MarkLeader(r) \/ Spawn(r)
      BY <2>3 DEF MarkLeader, Spawn
    <2>4. CASE TaskEnded(r) \/ ReleaseGet(r) \/ ReleaseSkip(r)
      BY <2>4 DEF TaskEnded, ShutDown, ReleaseGet, ReleaseSkip
    <2>5. CASE Exit(r)
      BY <2>5 DEF Exit, Gone
    <2>6. QED
      BY <1>1, <2>1, <2>2, <2>3, <2>4, <2>5 DEF MainStep
  <1>2. ASSUME NEW r \in Replicas, RenewStep(r) PROVE PcInv'
    BY <1>2 DEF RenewStep, RenewWake, RenewGet, RenewPut, RenewKept, RenewLost,
                RenewEnd
  <1>3. ASSUME NEW r \in Replicas, Disturb(r) PROVE PcInv'
    BY <1>3 DEF Disturb, AcquireError, RenewError, RenewPanics, ReleaseError,
                SetupFails, Crash, CtrlC, ControllerEnds, ControllerPanics, Retry, RenewEnd, Gone, ShutDown
  <1>4. ASSUME NEW q \in wire, Apply(q) \/ Reject(q) PROVE PcInv'
    <2>1. PICK ok \in BOOLEAN : Answer(q, ok)
      BY <1>4 DEF Apply, Reject
    <2>2. ack' = ack
      BY <2>1 DEF Answer
    <2>3. QED
      BY <2>1, <2>2, AnswerFacts
  <1>5. CASE Tick
    <2>1. Older(Expired) = Expired
      BY LeaderElectionAssumption DEF Older, Expired
    <2>2. QED
      BY <1>5, <2>1 DEF Tick
  <1>6. CASE UNCHANGED vars
    BY <1>6 DEF vars
  <1>7. QED
    BY <1>1, <1>2, <1>3, <1>4, <1>5, <1>6 DEF Next, Serve

LEMMA StampStep == IInv /\ [Next]_vars => StampInv'
  <1> SUFFICES ASSUME TypeOK, StampInv, [Next]_vars PROVE StampInv'
    BY DEF IInv
  <1>1. \A r \in Replicas : -Offset[r] \in Int /\ Expired >= -Offset[r]
    BY LeaderElectionAssumption DEF Expired
  <1>2. \A r \in Replicas : stamp[r] \in Int /\ ack[r] \in Int
    BY AgeFacts DEF TypeOK
  <1> USE <1>1, <1>2 DEF TypeOK, StampInv
  <1>3. ASSUME NEW r \in Replicas, MainStep(r) PROVE StampInv'
    <2>1. CASE Start(r) \/ AcquireGet(r) \/ AcquireCreate(r) \/ AcquireTake(r)
               \/ TaskEnded(r) \/ ReleaseGet(r) \/ ReleaseSkip(r)
      BY <2>1 DEF Start, AcquireGet, AcquireCreate, AcquireTake, TaskEnded,
                  ShutDown, ReleaseGet, ReleaseSkip
    <2>2. CASE BeginAttempt(r)
      BY <2>2 DEF BeginAttempt
    <2>3. CASE AcquireWait(r) \/ AcquireRefused(r)
      BY <2>3 DEF AcquireWait, AcquireRefused, Retry
    <2>4. CASE MarkLeader(r) \/ Spawn(r)
      BY <2>4 DEF MarkLeader, Spawn
    <2>5. CASE Exit(r)
      BY <2>5 DEF Exit, Gone
    <2>6. QED
      BY <1>3, <2>1, <2>2, <2>3, <2>4, <2>5 DEF MainStep
  <1>4. ASSUME NEW r \in Replicas, RenewStep(r) PROVE StampInv'
    BY <1>4 DEF RenewStep, RenewWake, RenewGet, RenewPut, RenewKept, RenewLost,
                RenewEnd
  <1>5. ASSUME NEW r \in Replicas, Disturb(r) PROVE StampInv'
    BY <1>5 DEF Disturb, AcquireError, RenewError, RenewPanics, ReleaseError,
                SetupFails, Crash, CtrlC, ControllerEnds, ControllerPanics, Retry, RenewEnd, Gone, ShutDown
  <1>6. ASSUME NEW q \in wire, Apply(q) \/ Reject(q) PROVE StampInv'
    BY <1>6 DEF Apply, Reject, Answer
  <1>7. CASE Tick
    BY <1>7 DEF Tick, Older
  <1>8. CASE UNCHANGED vars
    BY <1>8 DEF vars
  <1>9. QED
    BY <1>3, <1>4, <1>5, <1>6, <1>7, <1>8 DEF Next, Serve

-------------------------------------------------------------------------------
(***************************************************************************)
(* The requests that are waited for: AwaitedInv.                           *)
(***************************************************************************)

\* A step of r that sends one request its task did not wait for before.
LEMMA AwaitedSend ==
    ASSUME TypeOK, AwaitedInv, NEW r \in Replicas, NEW op \in Ops, NEW a,
           NEW cur, Send(r, op, a, cur),
           \A q \in wire : q.awaited /\ q.from = r => ~(q.op \in MainOps <=> op \in MainOps),
           \A q \in wire : q.awaited => Waiting(q)',
           LET q == [from |-> r, op |-> op, age |-> a, current |-> cur,
                     awaited |-> TRUE]
           IN  Waiting(q)'
    PROVE  AwaitedInv'
  <1> DEFINE new == [from |-> r, op |-> op, age |-> a, current |-> cur,
                     awaited |-> TRUE]
  <1>1. \A q \in wire' : q \in wire \/ q = new
    BY Zenon DEF Send
  <1>2. \A q \in wire' : q.awaited => Waiting(q)'
    BY <1>1
  <1>3. new.from = r /\ new.op = op
    OBVIOUS
  <1>4. ASSUME NEW p \in wire', NEW q \in wire', p.awaited, q.awaited,
               p.from = q.from, p.op \in MainOps <=> q.op \in MainOps
        PROVE  p = q
    <2>1. CASE p \in wire /\ q \in wire
      BY <1>4, <2>1 DEF AwaitedInv
    <2>2. CASE p = new /\ q = new
      BY <2>2
    <2>3. CASE p \in wire /\ q = new
      BY <1>3, <1>4, <2>3
    <2>4. CASE p = new /\ q \in wire
      BY <1>3, <1>4, <2>4
    <2>5. QED
      BY <1>1, <2>1, <2>2, <2>3, <2>4
  <1>5. QED
    BY <1>2, <1>4 DEF AwaitedInv

LEMMA AwaitedMain ==
    ASSUME TypeOK, PcInv, AwaitedInv, NEW r \in Replicas, MainStep(r)
    PROVE  AwaitedInv'
  <1>1. \A q \in wire : q.awaited => Waiting(q) /\ q \in Request
    BY DEF AwaitedInv, TypeOK
  <1> USE DEF TypeOK, PcInv, Acquiring, Waiting, Request, Ops
  <1>2. CASE \/ Start(r) \/ BeginAttempt(r) \/ AcquireGet(r) \/ AcquireWait(r)
             \/ AcquireRefused(r) \/ MarkLeader(r) \/ Spawn(r) \/ TaskEnded(r) \/ ReleaseSkip(r)
    <2>1. wire' = wire
      BY <1>2 DEF Start, BeginAttempt, AcquireGet, AcquireWait, AcquireRefused,
                  MarkLeader, Spawn, TaskEnded, ShutDown, ReleaseSkip
    <2>2. \A q \in wire : q.awaited => Waiting(q)'
      <3>1. CASE Start(r) \/ BeginAttempt(r) \/ AcquireGet(r)
        BY <1>1, <3>1 DEF Start, BeginAttempt, AcquireGet
      <3>2. CASE AcquireWait(r) \/ AcquireRefused(r)
        BY <1>1, <3>2 DEF AcquireWait, AcquireRefused, Retry
      <3>3. CASE MarkLeader(r) \/ Spawn(r)
        BY <1>1, <3>3 DEF MarkLeader, Spawn
      <3>4. CASE TaskEnded(r) \/ ReleaseSkip(r)
        BY <1>1, <3>4 DEF TaskEnded, ShutDown, ReleaseSkip
      <3>5. QED
        BY <1>2, <3>1, <3>2, <3>3, <3>4
    <2>3. QED
      BY <2>1, <2>2 DEF AwaitedInv
  <1>3. CASE AcquireCreate(r)
    <2>1. \A q \in wire : q.awaited => q.from # r
      BY <1>1, <1>3 DEF AcquireCreate
    <2>2. QED
      BY <1>1, <1>3, <2>1, AwaitedSend DEF AcquireCreate
  <1>4. CASE AcquireTake(r)
    <2>1. \A q \in wire : q.awaited => q.from # r
      BY <1>1, <1>4 DEF AcquireTake
    <2>2. QED
      BY <1>1, <1>4, <2>1, AwaitedSend DEF AcquireTake
  <1>5. CASE ReleaseGet(r)
    <2>1. \A q \in wire : q.awaited /\ q.from = r => q.op \notin MainOps
      BY <1>1, <1>5 DEF ReleaseGet, MainOps
    <2>2. \A q \in wire : q.awaited => Waiting(q)'
      BY <1>1, <1>5, <2>1 DEF ReleaseGet, MainOps
    <2>3. main'[r] = "relput" /\ Send(r, "free", Expired, TRUE)
      BY <1>5 DEF ReleaseGet
    <2>4. \A q \in wire : q.awaited /\ q.from = r
                          => ~(q.op \in MainOps <=> "free" \in MainOps)
      BY <2>1 DEF MainOps
    <2> DEFINE new == [from |-> r, op |-> "free", age |-> Expired,
                       current |-> TRUE, awaited |-> TRUE]
    <2>5. Waiting(new)'
      BY <2>3
    <2> HIDE DEF Waiting, TypeOK, Request
    <2>6. QED
      BY <2>2, <2>3, <2>4, <2>5, AwaitedSend
  <1>6. CASE Exit(r)
    <2>1. \A q \in wire : q.awaited /\ q \notin Awaited(r, Ops) => q.from # r
      BY DEF Awaited
    <2>2. Awaited(r, Ops) \subseteq wire /\ Abandon(Awaited(r, Ops))
      BY <1>6 DEF Awaited, Exit, Gone
    <2>3. \A q \in wire : q.awaited /\ q \notin Awaited(r, Ops) => Waiting(q)'
      BY <1>1, <1>6, <2>1 DEF Exit, Gone
    <2>4. \A q \in wire' : q.awaited => q \in wire \ Awaited(r, Ops)
      BY <2>2, AbandonFacts
    <2>5. QED
      BY <2>3, <2>4 DEF AwaitedInv
  <1>7. QED
    BY <1>2, <1>3, <1>4, <1>5, <1>6 DEF MainStep

LEMMA AwaitedRenew ==
    ASSUME TypeOK, PcInv, AwaitedInv, NEW r \in Replicas, RenewStep(r)
    PROVE  AwaitedInv'
  <1>1. \A q \in wire : q.awaited => Waiting(q) /\ q \in Request
    BY DEF AwaitedInv, TypeOK
  <1> USE DEF TypeOK, PcInv, Acquiring, Waiting, Request, Ops
  <1>2. CASE RenewWake(r) \/ RenewGet(r) \/ RenewKept(r) \/ RenewLost(r)
    <2>1. wire' = wire
      BY <1>2 DEF RenewWake, RenewGet, RenewKept, RenewLost
    <2>2. \A q \in wire : q.awaited => Waiting(q)'
      BY <1>1, <1>2 DEF RenewWake, RenewGet, RenewKept, RenewLost, RenewEnd
    <2>3. QED
      BY <2>1, <2>2 DEF AwaitedInv
  <1>3. CASE RenewPut(r)
    <2>1. \A q \in wire : q.awaited /\ q.from = r => q.op = "free"
      BY <1>1, <1>3 DEF RenewPut
    <2>2. \A q \in wire : q.awaited => Waiting(q)'
      BY <1>1, <1>3, <2>1 DEF RenewPut
    <2>3. /\ renewer'[r] = "put" /\ stamp'[r] = -Offset[r]
          /\ \E c \in BOOLEAN : Send(r, "renew", -Offset[r], c)
      BY <1>3 DEF RenewPut, View
    <2> PICK c \in BOOLEAN : Send(r, "renew", -Offset[r], c)
      BY <2>3
    <2>4. \A q \in wire : q.awaited /\ q.from = r
                          => ~(q.op \in MainOps <=> "renew" \in MainOps)
      BY <2>1 DEF MainOps
    <2> DEFINE new == [from |-> r, op |-> "renew", age |-> -Offset[r],
                       current |-> c, awaited |-> TRUE]
    <2>5. Waiting(new)'
      BY <2>3
    <2> HIDE DEF Waiting, TypeOK, Request
    <2>6. QED
      BY <2>2, <2>3, <2>4, <2>5, AwaitedSend
  <1>4. QED
    BY <1>2, <1>3 DEF RenewStep

LEMMA AwaitedDisturb ==
    ASSUME TypeOK, PcInv, AwaitedInv, NEW r \in Replicas, Disturb(r)
    PROVE  AwaitedInv'
  <1>1. \A q \in wire : q.awaited => Waiting(q) /\ q \in Request
    BY DEF AwaitedInv, TypeOK
  <1>2. \A ops : Awaited(r, ops) \subseteq wire
    BY DEF Awaited
  <1> USE DEF TypeOK, PcInv, Acquiring, Waiting, Request, Ops
  <1>3. CASE AcquireError(r)
    <2>1. \A q \in wire : q.awaited /\ q \notin Awaited(r, {"create", "take"})
                          => q.from # r
      BY <1>1, <1>3 DEF Awaited, AcquireError
    <2>2. \A q \in wire : q.awaited /\ q \notin Awaited(r, {"create", "take"})
                          => Waiting(q)'
      BY <1>1, <1>3, <2>1 DEF AcquireError, Retry
    <2>3. \A q \in wire' : q.awaited => q \in wire \ Awaited(r, {"create", "take"})
      BY <1>2, <1>3, AbandonFacts DEF AcquireError
    <2>4. QED
      BY <2>2, <2>3 DEF AwaitedInv
  <1>4. CASE RenewError(r) \/ RenewPanics(r)
    <2>1. \A q \in wire : q.awaited /\ q.from = r /\ q \notin Awaited(r, {"renew"})
                          => q.op = "free"
      BY <1>1, <1>4 DEF Awaited, RenewError, RenewPanics
    <2>2. \A q \in wire : q.awaited /\ q \notin Awaited(r, {"renew"}) => Waiting(q)'
      BY <1>1, <1>4, <2>1 DEF RenewError, RenewPanics, RenewEnd
    <2>3. \A q \in wire' : q.awaited => q \in wire \ Awaited(r, {"renew"})
      BY <1>2, <1>4, AbandonFacts DEF RenewError, RenewPanics
    <2>4. QED
      BY <2>2, <2>3 DEF AwaitedInv
  <1>5. CASE ReleaseError(r)
    <2>1. \A q \in wire : q.awaited /\ q.from = r /\ q \notin Awaited(r, {"free"})
                          => q.op = "renew"
      BY <1>1, <1>5 DEF Awaited, ReleaseError
    <2>2. \A q \in wire : q.awaited /\ q \notin Awaited(r, {"free"}) => Waiting(q)'
      BY <1>1, <1>5, <2>1 DEF ReleaseError
    <2>3. \A q \in wire' : q.awaited => q \in wire \ Awaited(r, {"free"})
      BY <1>2, <1>5, AbandonFacts DEF ReleaseError
    <2>4. QED
      BY <2>2, <2>3 DEF AwaitedInv
  <1>6. CASE Crash(r) \/ SetupFails(r)
    <2>1. \A q \in wire : q.awaited /\ q \notin Awaited(r, Ops) => q.from # r
      BY DEF Awaited
    <2>2. \A q \in wire : q.awaited /\ q \notin Awaited(r, Ops) => Waiting(q)'
      BY <1>1, <1>6, <2>1 DEF Crash, SetupFails, Gone
    <2>3. \A q \in wire' : q.awaited => q \in wire \ Awaited(r, Ops)
      BY <1>2, <1>6, AbandonFacts DEF Crash, SetupFails, Gone
    <2>4. QED
      BY <2>2, <2>3 DEF AwaitedInv
  <1>7. CASE CtrlC(r) \/ \E c \in Controllers : ControllerEnds(r, c) \/ ControllerPanics(r, c)
    <2>1. wire' = wire
      BY <1>7 DEF CtrlC, ShutDown, ControllerEnds, ControllerPanics
    <2>2. \A q \in wire : q.awaited => Waiting(q)'
      BY <1>1, <1>7 DEF CtrlC, ShutDown, ControllerEnds, ControllerPanics
    <2>3. QED
      BY <2>1, <2>2 DEF AwaitedInv
  <1>8. QED
    BY <1>3, <1>4, <1>5, <1>6, <1>7 DEF Disturb

LEMMA AwaitedServe ==
    ASSUME TypeOK, AwaitedInv, NEW q \in wire, Apply(q) \/ Reject(q)
    PROVE  AwaitedInv'
  <1>1. PICK ok \in BOOLEAN : Answer(q, ok)
    BY DEF Apply, Reject
  <1>2. q \in Request /\ stamp' = stamp
    BY <1>1 DEF TypeOK, Answer
  \* An awaited request other than q is not the one its task gets an answer to.
  <1>3. ASSUME NEW p \in wire \ {q}, p.awaited PROVE Waiting(p)'
    <2>1. p \in Request /\ Waiting(p)
      BY <1>3 DEF AwaitedInv, TypeOK
    <2>2. q.awaited /\ p.from = q.from => ~(p.op \in MainOps <=> q.op \in MainOps)
      BY <1>3 DEF AwaitedInv
    <2>3. QED
      BY <1>1, <1>2, <2>1, <2>2, AnswerFacts DEF Waiting, Request, Ops, MainOps
  <1>4. CASE Apply(q)
    <2>1. ASSUME NEW p \in wire', p.awaited PROVE Waiting(p)'
      <3>1. PICK w \in wire \ {q} :
               p = [w EXCEPT !.current = FALSE] /\ p.from = w.from
               /\ p.op = w.op /\ p.age = w.age /\ p.awaited = w.awaited
        BY <1>4, ApplyFacts
      <3>2. Waiting(w)'
        BY <1>3, <2>1, <3>1
      <3>3. QED
        BY <3>1, <3>2 DEF Waiting
    <2>2. ASSUME NEW p1 \in wire', NEW p2 \in wire', p1.awaited, p2.awaited,
                 p1.from = p2.from, p1.op \in MainOps <=> p2.op \in MainOps
          PROVE  p1 = p2
      <3>1. PICK w1 \in wire \ {q} :
               p1 = [w1 EXCEPT !.current = FALSE] /\ p1.from = w1.from
               /\ p1.op = w1.op /\ p1.age = w1.age /\ p1.awaited = w1.awaited
        BY <1>4, ApplyFacts
      <3>2. PICK w2 \in wire \ {q} :
               p2 = [w2 EXCEPT !.current = FALSE] /\ p2.from = w2.from
               /\ p2.op = w2.op /\ p2.age = w2.age /\ p2.awaited = w2.awaited
        BY <1>4, ApplyFacts
      <3>3. w1 = w2
        BY <2>2, <3>1, <3>2 DEF AwaitedInv
      <3>4. QED
        BY <3>1, <3>2, <3>3
    <2>3. QED
      BY <2>1, <2>2 DEF AwaitedInv
  <1>5. CASE Reject(q)
    <2>1. wire' = wire \ {q}
      BY <1>5 DEF Reject
    <2>2. QED
      BY <1>3, <2>1 DEF AwaitedInv
  <1>6. QED
    BY <1>4, <1>5

LEMMA AwaitedTick ==
    ASSUME TypeOK, AwaitedInv, Tick
    PROVE  AwaitedInv'
  <1>1. ASSUME NEW p \in wire', p.awaited PROVE Waiting(p)'
    <2>1. PICK w \in wire :
             /\ p.age = Older(w.age) /\ p.from = w.from /\ p.op = w.op
             /\ p.awaited = w.awaited
      BY TickFacts
    <2>2. Waiting(w) /\ w \in Request
      BY <1>1, <2>1 DEF AwaitedInv, TypeOK
    <2>3. main' = main /\ renewer' = renewer
          /\ stamp' = [r \in Replicas |-> Older(stamp[r])]
      BY DEF Tick
    <2>4. QED
      BY <2>1, <2>2, <2>3 DEF Waiting, Request
  <1>2. ASSUME NEW p1 \in wire', NEW p2 \in wire', p1.awaited, p2.awaited,
               p1.from = p2.from, p1.op \in MainOps <=> p2.op \in MainOps
        PROVE  p1 = p2
    <2>1. PICK w1 \in wire :
             /\ p1 = [w1 EXCEPT !.age = Older(@)] /\ p1.from = w1.from
             /\ p1.op = w1.op /\ p1.awaited = w1.awaited
      BY TickFacts
    <2>2. PICK w2 \in wire :
             /\ p2 = [w2 EXCEPT !.age = Older(@)] /\ p2.from = w2.from
             /\ p2.op = w2.op /\ p2.awaited = w2.awaited
      BY TickFacts
    <2>3. w1 = w2
      BY <1>2, <2>1, <2>2 DEF AwaitedInv
    <2>4. QED
      BY <2>1, <2>2, <2>3
  <1>3. QED
    BY <1>1, <1>2 DEF AwaitedInv

LEMMA AwaitedStep == IInv /\ [Next]_vars => AwaitedInv'
  <1> SUFFICES ASSUME TypeOK, PcInv, AwaitedInv, [Next]_vars PROVE AwaitedInv'
    BY DEF IInv
  <1>1. CASE \E r \in Replicas : MainStep(r) \/ RenewStep(r) \/ Disturb(r)
    BY <1>1, AwaitedMain, AwaitedRenew, AwaitedDisturb
  <1>2. CASE \E r \in Replicas : Serve(r, MainOps) \/ Serve(r, RenewOps)
    BY <1>2, AwaitedServe DEF Serve
  <1>3. CASE Tick
    BY <1>3, AwaitedTick
  <1>4. CASE UNCHANGED vars
    BY <1>4 DEF vars, AwaitedInv, Waiting
  <1>5. QED
    BY <1>1, <1>2, <1>3, <1>4 DEF Next

-------------------------------------------------------------------------------
(***************************************************************************)
(* What the steps of a replica can do to the rest.                         *)
(***************************************************************************)
ClientStep(r) == MainStep(r) \/ RenewStep(r) \/ Disturb(r)

\* The Lease changes on the server only; the requests after a step of r are
\* among those before it, but for the one r may have sent.
LEMMA ClientWrites ==
    ASSUME TypeOK, NEW r \in Replicas, ClientStep(r)
    PROVE  /\ UNCHANGED leaseVars
           /\ \A q \in wire' :
                \/ \E p \in wire : /\ q.from = p.from /\ q.op = p.op
                                   /\ q.age = p.age /\ q.current = p.current
                \/ AcquireCreate(r) /\ q.from = r /\ q.op = "create"
                \/ AcquireTake(r) /\ q.from = r /\ q.op = "take"
                   /\ q.current = view[r].current
                \/ RenewPut(r) /\ q.from = r /\ q.op = "renew"
                   /\ q.age = -Offset[r] /\ q.current = view[r].current
                \/ ReleaseGet(r) /\ q.from = r /\ q.op = "free"
  <1>1. UNCHANGED leaseVars
    BY DEF ClientStep, MainStep, Start, BeginAttempt, AcquireGet, AcquireCreate,
           AcquireTake, AcquireWait, AcquireRefused, Retry, MarkLeader, Spawn, TaskEnded,
           ShutDown, ReleaseGet, ReleaseSkip, Exit, Gone, RenewStep, RenewWake,
           RenewGet, RenewPut, RenewKept, RenewLost, RenewEnd, Disturb,
           AcquireError, RenewError, ReleaseError, RenewPanics, SetupFails, Crash, CtrlC,
           ControllerEnds, ControllerPanics
  <1>2. \A ops : Awaited(r, ops) \subseteq wire
    BY DEF Awaited
  <1>3. \/ wire' = wire
        \/ \E ops : Abandon(Awaited(r, ops))
        \/ AcquireCreate(r) /\ Send(r, "create", stamp[r], TRUE)
        \/ AcquireTake(r) /\ Send(r, "take", stamp[r], view[r].current)
        \/ RenewPut(r) /\ Send(r, "renew", -Offset[r], view[r].current)
        \/ ReleaseGet(r) /\ Send(r, "free", Expired, TRUE)
    <2>1. CASE MainStep(r)
      BY <2>1, Zenon
         DEF MainStep, Start, BeginAttempt, AcquireGet, AcquireCreate,
             AcquireTake, AcquireWait, AcquireRefused, MarkLeader, Spawn, TaskEnded,
             ShutDown, ReleaseGet, ReleaseSkip, Exit, Gone
    <2>2. CASE RenewStep(r)
      BY <2>2, Zenon
         DEF RenewStep, RenewWake, RenewGet, RenewPut, RenewKept, RenewLost
    <2>3. CASE Disturb(r)
      BY <2>3, Zenon
         DEF Disturb, AcquireError, RenewError, RenewPanics, ReleaseError,
             SetupFails, Crash, Gone,
             CtrlC, ShutDown, ControllerEnds, ControllerPanics
    <2>4. QED
      BY <2>1, <2>2, <2>3 DEF ClientStep
  <1>4. CASE wire' = wire
    BY <1>1, <1>4
  <1>5. ASSUME NEW ops, Abandon(Awaited(r, ops))
        PROVE  \A q \in wire' : \E p \in wire :
                  /\ q.from = p.from /\ q.op = p.op
                  /\ q.age = p.age /\ q.current = p.current
    BY <1>2, <1>5, AbandonFacts DEF TypeOK
  <1>6. CASE \E ops : Abandon(Awaited(r, ops))
    BY <1>1, <1>5, <1>6
  <1>7. CASE AcquireCreate(r) /\ Send(r, "create", stamp[r], TRUE)
    BY <1>1, <1>7 DEF Send
  <1>8. CASE AcquireTake(r) /\ Send(r, "take", stamp[r], view[r].current)
    BY <1>1, <1>8 DEF Send
  <1>9. CASE RenewPut(r) /\ Send(r, "renew", -Offset[r], view[r].current)
    BY <1>1, <1>9 DEF Send
  <1>10. CASE ReleaseGet(r) /\ Send(r, "free", Expired, TRUE)
    BY <1>1, <1>10 DEF Send
  <1>11. QED
    BY <1>3, <1>4, <1>6, <1>7, <1>8, <1>9, <1>10

\* Only the server grants; what a replica acknowledges was granted to it.
LEMMA ClientAcks ==
    ASSUME TypeOK, PcInv, NEW r \in Replicas, ClientStep(r), NEW s \in Replicas
    PROVE  /\ Granted(s)' => Granted(s) /\ stamp'[s] = stamp[s]
           /\ \/ ack'[s] \in {ack[s], Expired}
              \/ Granted(s) /\ ack'[s] = stamp[s]
  <1> USE DEF TypeOK, PcInv, Acquiring, Granted
  <1>1. CASE MainStep(r)
    <2>1. CASE Start(r) \/ BeginAttempt(r) \/ AcquireGet(r) \/ AcquireCreate(r)
               \/ AcquireTake(r)
      BY <2>1 DEF Start, BeginAttempt, AcquireGet, AcquireCreate, AcquireTake
    <2>2. CASE AcquireWait(r) \/ AcquireRefused(r)
      BY <2>2 DEF AcquireWait, AcquireRefused, Retry
    <2>3. CASE MarkLeader(r) \/ Spawn(r)
      BY <2>3 DEF MarkLeader, Spawn
    <2>4. CASE TaskEnded(r) \/ ReleaseGet(r) \/ ReleaseSkip(r)
      BY <2>4 DEF TaskEnded, ShutDown, ReleaseGet, ReleaseSkip
    <2>5. CASE Exit(r)
      BY <2>5 DEF Exit, Gone
    <2>6. QED
      BY <1>1, <2>1, <2>2, <2>3, <2>4, <2>5 DEF MainStep
  <1>2. CASE RenewStep(r)
    BY <1>2 DEF RenewStep, RenewWake, RenewGet, RenewPut, RenewKept, RenewLost,
                RenewEnd
  <1>3. CASE Disturb(r)
    <2>1. CASE AcquireError(r)
      BY <2>1 DEF AcquireError, Retry
    <2>2. CASE RenewError(r) \/ RenewPanics(r)
      BY <2>2 DEF RenewError, RenewPanics, RenewEnd
    <2>3. CASE ReleaseError(r)
      BY <2>3 DEF ReleaseError
    <2>4. CASE Crash(r) \/ SetupFails(r)
      BY <2>4 DEF Crash, SetupFails, Gone
    <2>5. CASE CtrlC(r) \/ \E c \in Controllers : ControllerEnds(r, c) \/ ControllerPanics(r, c)
      BY <2>5 DEF CtrlC, ShutDown, ControllerEnds, ControllerPanics
    <2>6. QED
      BY <1>3, <2>1, <2>2, <2>3, <2>4, <2>5 DEF Disturb
  <1>4. QED
    BY <1>1, <1>2, <1>3 DEF ClientStep

-------------------------------------------------------------------------------
(***************************************************************************)
(* Copies of the Lease and writes decided on them: ViewInv and WireInv.    *)
(***************************************************************************)
LEMMA ViewStep == IInv /\ [Next]_vars => ViewInv'
  <1> SUFFICES ASSUME TypeOK, PcInv, AwaitedInv, ViewInv, [Next]_vars PROVE ViewInv'
    BY DEF IInv
  <1> USE DEF TypeOK, ViewInv, leaseVars
  <1>1. ASSUME NEW r \in Replicas, MainStep(r) PROVE ViewInv'
    <2>1. CASE Start(r) \/ BeginAttempt(r) \/ AcquireCreate(r) \/ TaskEnded(r)
               \/ ReleaseGet(r) \/ ReleaseSkip(r)
      BY <2>1 DEF Start, BeginAttempt, AcquireCreate, TaskEnded, ShutDown,
                  ReleaseGet, ReleaseSkip
    <2>2. CASE AcquireGet(r)
      BY <2>2 DEF AcquireGet, PcInv, Acquiring
    <2>3. CASE AcquireTake(r)
      BY <2>3 DEF AcquireTake, NoView, PcInv, Acquiring
    <2>4. CASE AcquireWait(r) \/ AcquireRefused(r)
      BY <2>4 DEF AcquireWait, AcquireRefused, Retry, NoView, PcInv, Acquiring
    <2>5. CASE MarkLeader(r) \/ Spawn(r)
      BY <2>5 DEF MarkLeader, Spawn
    <2>6. CASE Exit(r)
      BY <2>6 DEF Exit, Gone, NoView
    <2>7. QED
      BY <1>1, <2>1, <2>2, <2>3, <2>4, <2>5, <2>6 DEF MainStep
  <1>2. ASSUME NEW r \in Replicas, RenewStep(r) PROVE ViewInv'
    BY <1>2 DEF RenewStep, RenewWake, RenewGet, RenewPut, RenewKept, RenewLost,
                RenewEnd, NoView
  <1>3. ASSUME NEW r \in Replicas, Disturb(r) PROVE ViewInv'
    <2>1. CASE AcquireError(r)
      BY <2>1 DEF AcquireError, Retry, NoView, PcInv, Acquiring
    <2>2. CASE RenewError(r) \/ RenewPanics(r)
      BY <2>2 DEF RenewError, RenewPanics, RenewEnd
    <2>3. CASE ReleaseError(r)
      BY <2>3 DEF ReleaseError
    <2>4. CASE Crash(r) \/ SetupFails(r)
      BY <2>4 DEF Crash, SetupFails, Gone, NoView
    <2>5. CASE CtrlC(r) \/ \E c \in Controllers : ControllerEnds(r, c) \/ ControllerPanics(r, c)
      BY <2>5 DEF CtrlC, ShutDown, ControllerEnds, ControllerPanics
    <2>6. QED
      BY <1>3, <2>1, <2>2, <2>3, <2>4, <2>5 DEF Disturb
  <1>4. ASSUME NEW q \in wire, Apply(q) \/ Reject(q) PROVE ViewInv'
    <2>1. \A r \in Replicas : renewer'[r] = "got" => renewer[r] = "got"
      <3>1. PICK ok \in BOOLEAN : Answer(q, ok)
        BY <1>4 DEF Apply, Reject
      <3>2. QED
        BY <3>1, AnswerFacts
    <2>2. CASE Apply(q)
      BY <2>1, <2>2 DEF Apply, View
    <2>3. CASE Reject(q)
      BY <2>1, <2>3 DEF Reject
    <2>4. QED
      BY <1>4, <2>2, <2>3
  <1>5. CASE Tick
    <2>1. \A r \in Replicas : /\ view'[r].current = view[r].current
                              /\ view'[r].holder = view[r].holder
                              /\ view'[r].age = Older(view[r].age)
      BY <1>5 DEF Tick, View
    <2>2. QED
      BY <1>5, <2>1 DEF Tick
  <1>6. CASE UNCHANGED vars
    BY <1>6 DEF vars
  <1>7. QED
    BY <1>1, <1>2, <1>3, <1>4, <1>5, <1>6 DEF Next, Serve

LEMMA WireStep == IInv /\ [Next]_vars => WireInv'
  <1> SUFFICES ASSUME TypeOK, ViewInv, WireInv, [Next]_vars PROVE WireInv'
    BY DEF IInv
  <1>1. ASSUME NEW r \in Replicas, ClientStep(r) PROVE WireInv'
    <2>1. exists' = exists /\ holder' = holder /\ age' = age
      BY <1>1, ClientWrites DEF leaseVars
    <2>2. SUFFICES ASSUME NEW q \in wire', q.current, q.op # "create"
                   PROVE  /\ exists
                          /\ \/ holder = q.from
                             \/ q.op = "take" /\ is_expired(q.from, age)
      BY <2>1 DEF WireInv, is_expired
    <2>3. CASE \E p \in wire : /\ q.from = p.from /\ q.op = p.op
                               /\ q.age = p.age /\ q.current = p.current
      BY <2>2, <2>3 DEF WireInv
    <2>4. CASE AcquireTake(r) /\ q.from = r /\ q.op = "take"
               /\ q.current = view[r].current
      BY <2>2, <2>4 DEF AcquireTake, ViewInv
    <2>5. CASE RenewPut(r) /\ q.from = r /\ q.current = view[r].current
      BY <2>2, <2>5 DEF RenewPut, ViewInv
    <2>6. CASE ReleaseGet(r) /\ q.from = r
      BY <2>6 DEF ReleaseGet
    <2>7. QED
      BY <1>1, <2>2, <2>3, <2>4, <2>5, <2>6, ClientWrites
  <1>2. ASSUME NEW q \in wire, Apply(q) PROVE WireInv'
    BY <1>2, ApplyFacts DEF WireInv
  <1>3. ASSUME NEW q \in wire, Reject(q) PROVE WireInv'
    BY <1>3 DEF Reject, leaseVars, WireInv, is_expired
  <1>4. CASE Tick
    <2>1. exists' = exists /\ holder' = holder /\ age' = Older(age)
      BY <1>4 DEF Tick
    <2>2. \A r \in Replicas : is_expired(r, age) => is_expired(r, age')
      BY <2>1, AgeFacts, LeaderElectionAssumption DEF is_expired, TypeOK
    <2>3. SUFFICES ASSUME NEW q \in wire', q.current, q.op # "create"
                   PROVE  /\ exists
                          /\ \/ holder = q.from
                             \/ q.op = "take" /\ is_expired(q.from, age')
      BY <2>1 DEF WireInv, is_expired
    <2>4. PICK w \in wire : q.from = w.from /\ q.op = w.op /\ q.current = w.current
      BY <1>4, TickFacts
    <2>5. w.from \in Replicas
      BY DEF TypeOK, Request
    <2>6. QED
      BY <2>2, <2>3, <2>4, <2>5 DEF WireInv
  <1>5. CASE UNCHANGED vars
    BY <1>5 DEF vars, WireInv, is_expired
  <1>6. QED
    BY <1>1, <1>2, <1>3, <1>4, <1>5 DEF Next, Serve, ClientStep

-------------------------------------------------------------------------------
(***************************************************************************)
(* What replicas know of the Lease: AckInv, GrantInv and OrderInv.         *)
(***************************************************************************)
LEMMA TrustFacts ==
    /\ ~Trusted(Expired)
    /\ \A a \in Age : Trusted(Older(a)) => Trusted(a)
    /\ \A a \in Age, r \in Replicas : Trusted(a) => ~is_expired(r, a)
    /\ \A a, b \in Age : a <= b /\ Trusted(b) => Trusted(a)
  BY AgeFacts, LeaderElectionAssumption
     DEF Trusted, Expired, Older, is_expired, Age

LEMMA KnowledgeClient ==
    ASSUME IInv, NEW r \in Replicas, ClientStep(r)
    PROVE  AckInv' /\ GrantInv' /\ OrderInv' /\ ExclusiveInv'
  <1> USE DEF IInv
  <1>1. exists' = exists /\ holder' = holder /\ age' = age
    BY ClientWrites DEF leaseVars
  <1>2. \A s \in Replicas : \A a : Covers(s, a) => Covers(s, a)'
    BY <1>1 DEF Covers, Trusted
  <1>3. \A s \in Replicas :
           /\ Granted(s)' => Granted(s) /\ stamp'[s] = stamp[s]
           /\ ack'[s] \in {ack[s], Expired} \/ (Granted(s) /\ ack'[s] = stamp[s])
    BY ClientAcks
  <1>4. AckInv'
    <2> SUFFICES ASSUME NEW s \in Replicas, Trusted(ack'[s])
                 PROVE  exists /\ holder \in {s, Nobody} /\ age <= ack'[s]
      BY <1>1 DEF AckInv, Covers, Trusted
    <2>1. CASE ack'[s] = ack[s]
      BY <2>1 DEF AckInv, Covers
    <2>2. CASE Granted(s) /\ ack'[s] = stamp[s]
      BY <2>2 DEF GrantInv, Covers
    <2>3. QED
      BY <1>3, <2>1, <2>2, TrustFacts
  <1>5. GrantInv'
    <2> SUFFICES ASSUME NEW s \in Replicas, Granted(s)', Trusted(stamp'[s])
                 PROVE  exists /\ holder \in {s, Nobody} /\ age <= stamp'[s]
      BY <1>1 DEF GrantInv, Covers, Trusted
    <2>1. QED
      BY <1>3 DEF GrantInv, Covers
  <1>6. OrderInv'
    <2> SUFFICES ASSUME NEW q \in wire', q.op # "free", Accepts(q)'
                 PROVE  /\ Trusted(ack'[q.from]) => q.age <= ack'[q.from]
                        /\ Granted(q.from)' /\ Trusted(stamp'[q.from])
                              => q.age <= stamp'[q.from]
      BY DEF OrderInv, Trusted
    <2>1. q \in Request /\ q.from \in Replicas
      BY TypeStep DEF TypeOK, Request, Next, ClientStep
    <2>2. CASE \E p \in wire : /\ q.from = p.from /\ q.op = p.op
                               /\ q.age = p.age /\ q.current = p.current
      <3>1. PICK p \in wire : /\ q.from = p.from /\ q.op = p.op
                              /\ q.age = p.age /\ q.current = p.current
        BY <2>2
      <3>2. Accepts(p)
        BY <1>1, <3>1 DEF Accepts
      <3>3. QED
        BY <1>3, <2>1, <3>1, <3>2, TrustFacts DEF OrderInv
    <2>3. CASE (AcquireCreate(r) \/ AcquireTake(r)) /\ q.from = r
      <3>1. main[r] \in Acquiring /\ main[r] # "granted" /\ ack'[r] = ack[r]
        BY <2>3 DEF AcquireCreate, AcquireTake, Acquiring
      <3>2. ack'[r] = Expired /\ ~Granted(r)
        BY <3>1 DEF PcInv, Granted
      <3>3. QED
        BY <1>3, <2>3, <3>2, TrustFacts
    <2>4. CASE RenewPut(r) /\ q.from = r /\ q.age = -Offset[r]
      <3>1. ack'[r] = ack[r] /\ ~Granted(r)
        BY <2>4 DEF RenewPut, PcInv, Granted, Acquiring
      <3>2. QED
        BY <1>3, <2>4, <3>1 DEF StampInv
    <2>5. QED
      BY <2>2, <2>3, <2>4, ClientWrites
  <1>7. ExclusiveInv'
    <2>1. \A s \in Replicas : Holds(s)' => Holds(s)
      BY <1>3, TrustFacts DEF Holds, Fresh, Trusted
    <2>2. QED
      BY <2>1 DEF ExclusiveInv
  <1>8. QED
    BY <1>4, <1>5, <1>6, <1>7

LEMMA KnowledgeApply ==
    ASSUME IInv, NEW q \in wire, Apply(q)
    PROVE  AckInv' /\ GrantInv' /\ OrderInv' /\ ExclusiveInv'
  <1> USE DEF IInv
  <1>1. q \in Request /\ q.from \in Replicas /\ q.age \in Age /\ age \in Age
    BY DEF TypeOK, Request
  <1>2. /\ Answer(q, TRUE) /\ Accepts(q) /\ exists'
        /\ holder' = IF q.op = "free" THEN Nobody ELSE q.from
        /\ age' = IF q.op = "free" THEN age ELSE q.age
    BY DEF Apply
  <1>3. ack' = ack /\ stamp' = stamp
    BY <1>2 DEF Answer
  \* A stamp that can be trusted keeps everybody but its owner from writing.
  <1>4. ASSUME NEW s \in Replicas, NEW a \in Age, Covers(s, a), Trusted(a)
        PROVE  exists /\ q.from = s /\ age <= a /\ q.op # "create"
    <2>1. exists /\ holder \in {s, Nobody} /\ age <= a
      BY <1>4 DEF Covers
    <2>2. q.op # "create" /\ q.current
      BY <1>2, <2>1 DEF Accepts
    <2>3. ~is_expired(q.from, age)
      BY <1>1, <1>4, <2>1, TrustFacts
    <2>4. holder = q.from
      BY <2>2, <2>3 DEF WireInv
    <2>5. QED
      BY <1>1, <2>1, <2>2, <2>4, LeaderElectionAssumption
  <1>5. AckInv'
    <2> SUFFICES ASSUME NEW s \in Replicas, Trusted(ack[s])
                 PROVE  holder' \in {s, Nobody} /\ age' <= ack[s]
      BY <1>2, <1>3 DEF AckInv, Covers, Trusted
    <2>1. q.from = s /\ age <= ack[s]
      BY <1>4 DEF AckInv, TypeOK
    <2>2. q.op # "free" => q.age <= ack[s]
      BY <1>2, <2>1 DEF OrderInv
    <2>3. QED
      BY <1>2, <2>1, <2>2
  <1>6. GrantInv'
    <2> SUFFICES ASSUME NEW s \in Replicas, Granted(s)', Trusted(stamp[s])
                 PROVE  holder' \in {s, Nobody} /\ age' <= stamp[s]
      BY <1>2, <1>3 DEF GrantInv, Covers, Trusted
    <2>1. CASE Granted(s)
      <3>1. q.from = s /\ age <= stamp[s]
        BY <1>4, <2>1 DEF GrantInv, TypeOK
      <3>2. q.op # "free" => q.age <= stamp[s]
        BY <1>2, <2>1, <3>1 DEF OrderInv
      <3>3. QED
        BY <1>2, <3>1, <3>2
    <2>2. CASE ~Granted(s)
      <3>1. s = q.from /\ q.op # "free" /\ stamp[s] = q.age
        BY <1>2, <2>2, AnswerFacts DEF Granted
      <3>2. QED
        BY <1>1, <1>2, <3>1, AgeFacts
    <2>3. QED
      BY <2>1, <2>2
  <1>7. OrderInv'
    BY <1>2, ApplyFacts DEF OrderInv, Accepts
  \* Whoever trusts its stamp afterwards is the one that wrote.
  <1>8. ExclusiveInv'
    <2>1. ASSUME NEW s \in Replicas, Holds(s)' PROVE s = q.from
      <3>1. CASE Trusted(ack[s])
        BY <1>4, <3>1 DEF AckInv, TypeOK
      <3>2. CASE Granted(s) /\ Trusted(stamp[s])
        BY <1>4, <3>2 DEF GrantInv, TypeOK
      <3>3. CASE ~Granted(s) /\ Granted(s)'
        BY <1>2, <3>3, AnswerFacts DEF Granted
      <3>4. QED
        BY <1>3, <2>1, <3>1, <3>2, <3>3 DEF Holds, Fresh, Trusted
    <2>2. QED
      BY <2>1 DEF ExclusiveInv
  <1>9. QED
    BY <1>5, <1>6, <1>7, <1>8

LEMMA KnowledgeReject ==
    ASSUME IInv, NEW q \in wire, Reject(q)
    PROVE  AckInv' /\ GrantInv' /\ OrderInv' /\ ExclusiveInv'
  <1> USE DEF IInv
  <1>1. /\ exists' = exists /\ holder' = holder /\ age' = age
        /\ ack' = ack /\ stamp' = stamp /\ wire' = wire \ {q}
    BY DEF Reject, Answer, leaseVars
  <1>2. \A s \in Replicas : Granted(s)' => Granted(s)
    BY AnswerFacts DEF Reject, Granted
  <1>3. AckInv'
    BY <1>1 DEF AckInv, Covers, Trusted
  <1>4. GrantInv'
    BY <1>1, <1>2 DEF GrantInv, Covers, Trusted
  <1>5. OrderInv'
    <2>1. \A p \in wire : p.from \in Replicas
      BY DEF TypeOK, Request
    <2>2. \A p \in wire : Accepts(p)' => Accepts(p)
      BY <1>1 DEF Accepts
    <2>3. QED
      BY <1>1, <1>2, <2>1, <2>2 DEF OrderInv, Trusted
  <1>6. ExclusiveInv'
    BY <1>1, <1>2 DEF ExclusiveInv, Holds, Fresh, Trusted
  <1>7. QED
    BY <1>3, <1>4, <1>5, <1>6

LEMMA KnowledgeTick ==
    ASSUME IInv, Tick
    PROVE  AckInv' /\ GrantInv' /\ OrderInv' /\ ExclusiveInv'
  <1> USE DEF IInv
  <1>1. /\ exists' = exists /\ holder' = holder /\ age' = Older(age)
        /\ main' = main /\ renewer' = renewer
        /\ \A s \in Replicas : ack'[s] = Older(ack[s]) /\ stamp'[s] = Older(stamp[s])
    BY DEF Tick
  <1>2. \A s \in Replicas : ack[s] \in Age /\ stamp[s] \in Age /\ age \in Age
    BY DEF TypeOK
  <1>3. \A s \in Replicas : Granted(s)' => Granted(s)
    BY <1>1 DEF Granted
  <1>4. AckInv'
    BY <1>1, <1>2, AgeFacts, TrustFacts DEF AckInv, Covers
  <1>5. GrantInv'
    BY <1>1, <1>2, <1>3, AgeFacts, TrustFacts DEF GrantInv, Covers
  <1>6. OrderInv'
    <2> SUFFICES ASSUME NEW p \in wire', p.op # "free", Accepts(p)'
                 PROVE  /\ Trusted(ack'[p.from]) => p.age <= ack'[p.from]
                        /\ Granted(p.from)' /\ Trusted(stamp'[p.from])
                              => p.age <= stamp'[p.from]
      BY DEF OrderInv, Trusted
    <2>1. PICK w \in wire : /\ p.age = Older(w.age) /\ p.from = w.from
                            /\ p.op = w.op /\ p.current = w.current
      BY TickFacts
    <2>2. w.from \in Replicas /\ w.age \in Age /\ Accepts(w)
      BY <1>1, <2>1 DEF TypeOK, Request, Accepts
    <2>3. /\ Trusted(ack[w.from]) => w.age <= ack[w.from]
          /\ Granted(w.from) /\ Trusted(stamp[w.from]) => w.age <= stamp[w.from]
      BY <2>1, <2>2 DEF OrderInv
    <2>4. QED
      BY <1>1, <1>2, <1>3, <2>1, <2>2, <2>3, AgeFacts, TrustFacts
  <1>7. ExclusiveInv'
    <2>1. \A s \in Replicas : Holds(s)' => Holds(s)
      BY <1>1, <1>2, <1>3, TrustFacts DEF Holds, Fresh
    <2>2. QED
      BY <2>1 DEF ExclusiveInv
  <1>8. QED
    BY <1>4, <1>5, <1>6, <1>7

LEMMA KnowledgeStep == IInv /\ [Next]_vars => AckInv' /\ GrantInv' /\ OrderInv' /\ ExclusiveInv'
  <1> SUFFICES ASSUME IInv, [Next]_vars PROVE AckInv' /\ GrantInv' /\ OrderInv' /\ ExclusiveInv'
    OBVIOUS
  <1>1. CASE UNCHANGED vars
    BY <1>1 DEF vars, IInv, AckInv, GrantInv, OrderInv, ExclusiveInv, Covers,
                Trusted, Granted, Accepts, Holds, Fresh
  <1>2. QED
    BY <1>1, KnowledgeClient, KnowledgeApply, KnowledgeReject, KnowledgeTick
       DEF Next, Serve, ClientStep

LEMMA IInvStep == IInv /\ [Next]_vars => IInv'
  <1> SUFFICES ASSUME IInv, [Next]_vars PROVE IInv'
    OBVIOUS
  <1>1. TypeOK'
    BY TypeStep DEF IInv
  <1>2. QED
    BY <1>1, PcStep, StampStep, AwaitedStep, ViewStep, WireStep, KnowledgeStep
       DEF IInv

\* The inductive invariant of leader election holds in every reachable state.
THEOREM Invariance == Spec => []IInv
  BY IInvInit, IInvStep, PTL DEF Spec

-------------------------------------------------------------------------------
(***************************************************************************)
(* What follows from the inductive invariant.                              *)
(***************************************************************************)

\* A Lease passes from one replica to another only after it expired.
THEOREM LeaseNotStolenEarly == Spec => NoEarlyTakeover
  <1>1. IInv /\ [Next]_vars
          => [exists /\ holder' \notin {holder, Nobody}
                => age + Skew > LeaseDuration]_leaseVars
    <2> SUFFICES ASSUME IInv, Next, exists, holder' \notin {holder, Nobody}
                 PROVE  age + Skew > LeaseDuration
      BY DEF vars, leaseVars
    <2>1. CASE \E r \in Replicas : ClientStep(r)
      BY <2>1, ClientWrites DEF IInv, leaseVars
    <2>2. CASE \E q \in wire : Apply(q)
      <3>1. PICK q \in wire : Apply(q)
        BY <2>2
      <3>2. q \in Request /\ q.from \in Replicas /\ age \in Int
        BY AgeFacts DEF IInv, TypeOK, Request
      <3>3. is_expired(q.from, age)
        BY <3>1, <3>2 DEF IInv, WireInv, Apply, Accepts
      <3>4. QED
        BY <3>2, <3>3, AgeFacts, LeaderElectionAssumption DEF is_expired
    <2>3. CASE \E q \in wire : Reject(q)
      BY <2>3 DEF Reject, leaseVars
    <2>4. CASE Tick
      BY <2>4 DEF Tick
    <2>5. QED
      BY <2>1, <2>2, <2>3, <2>4 DEF Next, Serve, ClientStep
  <1>2. QED
    BY <1>1, Invariance, PTL DEF Spec, NoEarlyTakeover

\* Only the holder itself gives the Lease back.
THEOREM ReleaseIsByHolder == Spec => ClearsOwnHolderOnly
  <1>1. IInv /\ [Next]_vars
          => [holder # Nobody /\ holder' = Nobody =>
                \E q \in wire : q.op = "free" /\ q.from = holder]_leaseVars
    <2> SUFFICES ASSUME IInv, Next, holder # Nobody, holder' = Nobody
                 PROVE  \E q \in wire : q.op = "free" /\ q.from = holder
      BY DEF vars, leaseVars
    <2>1. CASE \E r \in Replicas : ClientStep(r)
      BY <2>1, ClientWrites DEF IInv, leaseVars
    <2>2. CASE \E q \in wire : Apply(q)
      <3>1. PICK q \in wire : Apply(q)
        BY <2>2
      <3>2. q.from \in Replicas
        BY DEF IInv, TypeOK, Request
      <3>3. q.op = "free" /\ q.current
        BY <3>1, <3>2, LeaderElectionAssumption DEF Apply, Accepts
      <3>4. QED
        BY <3>3 DEF IInv, WireInv
    <2>3. CASE \E q \in wire : Reject(q)
      BY <2>3 DEF Reject, leaseVars
    <2>4. CASE Tick
      BY <2>4 DEF Tick
    <2>5. QED
      BY <2>1, <2>2, <2>3, <2>4 DEF Next, Serve, ClientStep
  <1>2. QED
    BY <1>1, Invariance, PTL DEF Spec, ClearsOwnHolderOnly

\* /leaderz says leader only between the return of acquire and the shutdown, and
\* with all controllers and a renewal task that goes on, unless one of them
\* panicked: every other step that ends one of them clears the flag (main.rs:219,
\* 241, 247, 305), and no answer moves the main task of a leader.
THEOREM LeaderFlag == Spec => []LeaderFlagHonest
  <1>1. Init => LeaderFlagHonest
    BY DEF Init, LeaderFlagHonest
  <1>2. IInv /\ LeaderFlagHonest /\ [Next]_vars => LeaderFlagHonest'
    <2> SUFFICES ASSUME TypeOK, PcInv, AwaitedInv, LeaderFlagHonest, [Next]_vars
                 PROVE  LeaderFlagHonest'
      BY DEF IInv
    <2> USE DEF TypeOK, LeaderFlagHonest, flagVars, taskVars
    <2>1. ASSUME NEW r \in Replicas, MainStep(r) PROVE LeaderFlagHonest'
      <3>1. CASE Start(r)
        BY <3>1 DEF Start, mark_ready
      <3>2. CASE BeginAttempt(r) \/ AcquireGet(r) \/ AcquireCreate(r) \/ AcquireTake(r)
        BY <3>2 DEF BeginAttempt, AcquireGet, AcquireCreate, AcquireTake
      <3>3. CASE AcquireWait(r) \/ AcquireRefused(r)
        BY <3>3 DEF AcquireWait, AcquireRefused, Retry
      <3>4. CASE MarkLeader(r) \/ Spawn(r)
        BY <3>4 DEF MarkLeader, Spawn, mark_leader
      <3>5. CASE TaskEnded(r)
        BY <3>5 DEF TaskEnded, ShutDown, mark_unready
      <3>6. CASE ReleaseGet(r) \/ ReleaseSkip(r)
        BY <3>6 DEF ReleaseGet, ReleaseSkip
      <3>7. CASE Exit(r)
        BY <3>7 DEF Exit, Gone
      <3> QED  BY <2>1, <3>1, <3>2, <3>3, <3>4, <3>5, <3>6, <3>7 DEF MainStep
    <2>2. ASSUME NEW r \in Replicas, RenewStep(r) PROVE LeaderFlagHonest'
      <3>1. CASE RenewWake(r) \/ RenewGet(r) \/ RenewPut(r) \/ RenewKept(r)
        BY <3>1 DEF RenewWake, RenewGet, RenewPut, RenewKept
      <3>2. CASE RenewLost(r)
        BY <3>2 DEF RenewLost, RenewEnd, mark_standby
      <3> QED  BY <2>2, <3>1, <3>2 DEF RenewStep
    <2>3. ASSUME NEW r \in Replicas, Disturb(r) PROVE LeaderFlagHonest'
      <3>1. CASE AcquireError(r) \/ ReleaseError(r)
        BY <3>1 DEF AcquireError, ReleaseError, Retry
      <3>2. CASE RenewError(r) \/ RenewPanics(r)
        BY <3>2 DEF RenewError, RenewPanics, RenewEnd, mark_standby
      <3>3. CASE Crash(r) \/ SetupFails(r)
        BY <3>3 DEF Crash, SetupFails, Gone
      <3>4. CASE CtrlC(r)
        BY <3>4 DEF CtrlC, ShutDown, mark_unready
      <3>5. CASE \E c \in Controllers : ControllerEnds(r, c) \/ ControllerPanics(r, c)
        BY <3>5 DEF ControllerEnds, ControllerPanics, mark_unready
      <3> QED  BY <2>3, <3>1, <3>2, <3>3, <3>4, <3>5 DEF Disturb
    <2>4. ASSUME NEW q \in wire, Apply(q) \/ Reject(q) PROVE LeaderFlagHonest'
      <3>1. PICK ok \in BOOLEAN : Answer(q, ok)
        BY <2>4 DEF Apply, Reject
      <3>2. leader' = leader /\ running' = running /\ panicked' = panicked
        BY <3>1 DEF Answer
      <3>3. \A r \in Replicas :
               /\ main[r] \in {"setup", "lead"} => main'[r] = main[r]
               /\ renewer[r] \notin {"off", "done"} => renewer'[r] \notin {"off", "done"}
        BY <3>1, AnswerFacts
      <3> QED  BY <3>2, <3>3
    <2>5. CASE Tick
      BY <2>5 DEF Tick
    <2>6. CASE UNCHANGED vars
      BY <2>6 DEF vars
    <2> QED  BY <2>1, <2>2, <2>3, <2>4, <2>5, <2>6 DEF Next, Serve
  <1>3. QED
    BY <1>1, <1>2, Invariance, PTL DEF Spec

\* Leader election implements the lock of LeaseLock: grants never overlap and
\* never follow each other without a gap.
THEOREM Refinement == Spec => ImplementsLock
  <1> DEFINE granted == {r \in Replicas : Fresh(r)}
  <1>1. Init => Lock!Init
    BY TrustFacts DEF Init, Lock!Init, Fresh
  <1>2. IInv /\ [Next]_vars => [Lock!Next]_granted
    <2> SUFFICES ASSUME IInv, [Next]_vars PROVE [Lock!Next]_granted
      OBVIOUS
    \* Whoever is fresh after the step already held a trusted stamp before it.
    <2>1. \A s \in Replicas : Fresh(s)' => Holds(s)
      <3>1. CASE \E r \in Replicas : ClientStep(r)
        <4>1. \A s \in Replicas : ack'[s] \in {ack[s], Expired}
                                  \/ (Granted(s) /\ ack'[s] = stamp[s])
          BY <3>1, ClientAcks DEF IInv
        <4>2. QED
          BY <4>1, TrustFacts DEF Holds, Fresh, Trusted
      <3>2. CASE \E q \in wire : Apply(q) \/ Reject(q)
        BY <3>2 DEF Apply, Reject, Answer, Holds, Fresh, Trusted
      <3>3. CASE Tick
        BY <3>3, TrustFacts DEF Tick, Holds, Fresh, IInv, TypeOK
      <3>4. CASE UNCHANGED vars
        BY <3>4 DEF vars, Holds, Fresh, Trusted
      <3>5. QED
        BY <3>1, <3>2, <3>3, <3>4 DEF Next, Serve, ClientStep
    <2>2. \A s \in Replicas : Fresh(s) => Holds(s)
      BY DEF Holds
    <2>3. \A r, s \in Replicas : Holds(r) /\ Holds(s) => r = s
      BY DEF IInv, ExclusiveInv
    <2>4. CASE granted' = {}
      BY <2>4 DEF Lock!Next, Lock!Lapse
    <2>5. CASE granted' # {}
      <3>1. PICK r \in Replicas : Fresh(r)'
        BY <2>5
      <3>2. granted' = {r} /\ (granted = {} \/ granted = {r})
        BY <2>1, <2>2, <2>3, <3>1
      <3>3. QED
        BY <3>2 DEF Lock!Next, Lock!Grant
    <2>6. QED
      BY <2>4, <2>5
  <1>3. QED
    BY <1>1, <1>2, Invariance, PTL DEF Spec, ImplementsLock, Lock!Spec
================================================================================
