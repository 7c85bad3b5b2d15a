---------------------------- MODULE NudgesProofs ----------------------------
(***************************************************************************)
(* What is proved about the reminders, for any payments, requests, runs,   *)
(* thresholds and lapse of time.                                           *)
(*                                                                         *)
(* The payments of Nudges move as those of Payments do, so all that is     *)
(* proved of Payments holds here.  What is added is Timed, the type of the *)
(* clock readings, and Attended: whoever holds up a payment that a run     *)
(* found stale is on the list of the run until he was reminded.            *)
(***************************************************************************)
EXTENDS Nudges, PaymentsProofs

\* A row of the payments, and a run in progress.
Row == [status : PaymentStatus, version : Nat]

Run == [hours : Hours, at : 0..MaxClock, todo : SUBSET Key, was : [Payment -> Row]]

\* What a run knows of the time is a number of hours.
LEMMA RunFields ==
  ASSUME NEW q \in Run
  PROVE  q.at \in Nat /\ q.hours \in Nat
<1>1. q.at \in 0..MaxClock /\ q.hours \in Hours
  BY DEF Run
<1>2. Hours \subseteq Nat /\ MaxClock \in Nat
  BY NudgesAssumption
<1>3. q.at \in Nat
  BY <1>1, <1>2
<1> QED
  BY <1>1, <1>2, <1>3

\* The types of what is added, and a request in progress knows when it began.
Timed ==
  /\ clock \in 0..MaxClock
  /\ began \in [Request -> 0..MaxClock \cup {NoOne}]
  /\ \A r \in Request : req[r].pc # "idle" => began[r] \in 0..MaxClock
  /\ touched \in [Payment -> 0..MaxClock]
  /\ notified \in [Key -> 0..MaxClock \cup {NoOne}]
  /\ run \in [Runner -> Run \cup {NoOne}]

\* Whoever holds p up was reminded within the threshold of the run q.
Reminded(p, q) ==
  /\ notified[NudgeOf(p)] # NoOne
  /\ notified[NudgeOf(p)] >= q.at - q.hours

\* The payment p has not moved since the run q found it stale.
StillStale(p, q) ==
  /\ pay[p] = q.was[p]
  /\ pay[p].status \in Stalled
  /\ touched[p] < q.at - q.hours

\* What a run knows is of the past, and what it found stale it has seen to or
\* will see to.
Sound(q) ==
  /\ q.at <= clock
  /\ \A p \in Payment :
       /\ q.was[p].version <= pay[p].version
       /\ StillStale(p, q) => NudgeOf(p) \in q.todo \/ Reminded(p, q)

Attended == \A n \in Runner : run[n] # NoOne => Sound(run[n])
-----------------------------------------------------------------------------
\* The part of Payments starts and moves as Payments does.
LEMMA StartsAsPayments == NudgesInit => Init
BY DEF NudgesInit

\* Every step of the reminders is one of the payments, or leaves them alone.
LEMMA MovesAsPayments == [NudgesNext]_allVars => [Next]_vars
<1> SUFFICES ASSUME [NudgesNext]_allVars PROVE [Next]_vars
  OBVIOUS
<1>1. ASSUME NEW r \in Request, Receive(r) \/ Serve(r) \/ Break(r) PROVE Next
  BY <1>1 DEF Receive, Serve, Break, Next
<1>2. ASSUME NEW u \in Member, PromoteMember(u) PROVE Next
  BY <1>2 DEF PromoteMember, Next
<1>3. ASSUME NEW n \in Runner, PostNudges(n) \/ Remind(n) \/ NudgeFails(n)
      PROVE  UNCHANGED vars
  BY <1>3 DEF PostNudges, RunNudges, Remind, Answer, UpsertNudge, NudgeFails
<1>4. CASE Tick
  BY <1>4 DEF Tick
<1>5. CASE UNCHANGED allVars
  BY <1>5 DEF allVars
<1> QED
  BY <1>1, <1>2, <1>3, <1>4, <1>5 DEF NudgesNext

\* All that is proved of Payments holds with the reminders beside it.
THEOREM NudgesArePayments == NudgesSpec => Spec
<1>1. NudgesInit => Init
  BY StartsAsPayments
<1>2. [NudgesNext]_allVars => [Next]_vars
  BY MovesAsPayments
<1> QED
  BY <1>1, <1>2, PTL DEF NudgesSpec, Spec
-----------------------------------------------------------------------------
\* A statement of one request leaves the other requests alone.
LEMMA OthersStay ==
  ASSUME Typed, NEW r \in Request, Arrive(r) \/ Work(r) \/ Fail(r),
         NEW q \in Request \ {r}
  PROVE  req'[q] = req[q]
<1>0. req \in [Request -> Txn]
  BY DEF Typed, TypeOK
<1>1. CASE Arrive(r)
  <2>1. PICK u \in User, a \in paymentAction, p \in Payment, e \in Evidence \cup {NoOne} :
          Begin(r, u, a, p, e)
    BY <1>1, Arrival
  <2> QED
    BY <1>0, <2>1 DEF Begin
<1>2. CASE Work(r)
  <2>1. CASE Put(r) \/ UnsetStart(r) \/ UnsetFinish(r)
    BY <1>0, <2>1 DEF Put, UnsetStart, UnsetFinish
  <2>2. CASE InsertProof(r) \/ Update(r)
    BY <1>0, <2>2 DEF InsertProof, Update, Rollback, End
  <2>3. CASE Count(r) \/ Commit(r)
    BY <1>0, <2>3 DEF Count, Commit, End
  <2> QED
    BY <1>2, <2>1, <2>2, <2>3 DEF Work
<1>3. CASE Fail(r)
  BY <1>0, <1>3 DEF Fail, Rollback, End
<1> QED
  BY <1>1, <1>2, <1>3

\* A payment that moves gets a new version.
LEMMA Moves ==
  ASSUME Typed, [Next]_vars, NEW p \in Payment
  PROVE  pay'[p] = pay[p] \/ pay'[p].version = pay[p].version + 1
<1>1. pay \in [Payment -> Row]
  BY DEF Typed, TypeOK, Row
<1>2. CASE \E r \in Request : Commit(r)
  BY <1>1, <1>2 DEF Commit
<1>3. CASE UNCHANGED pay
  BY <1>3
<1> QED
  BY <1>2, <1>3, OnlyCommitWrites

\* Only a request in progress works.
LEMMA WorkIsBegun == ASSUME NEW r, Work(r) PROVE req[r].pc # "idle"
BY DEF Work, Put, UnsetStart, UnsetFinish, InsertProof, Update, Count, Commit
-----------------------------------------------------------------------------
(***************************************************************************)
(* Types.                                                                  *)
(***************************************************************************)

\* Timed holds when the group has just been closed ...
LEMMA TimedInit == NudgesInit => Timed
<1> SUFFICES ASSUME NudgesInit PROVE Timed
  OBVIOUS
<1>1. MaxClock \in Nat
  BY NudgesAssumption
<1> QED
  BY <1>1 DEF NudgesInit, Init, Idle, Timed

\* What the payments and their requests do to the times.
LEMMA TimedRequests ==
  ASSUME Typed, Timed, NEW r \in Request, Receive(r) \/ Serve(r) \/ Break(r)
  PROVE  Timed'
<1>1. clock' = clock /\ notified' = notified /\ run' = run
  BY DEF Receive, Serve, Break, reminders
<1>2. MaxClock \in Nat /\ clock \in 0..MaxClock
  BY NudgesAssumption DEF Timed
<1>3. \A q \in Request \ {r} : req'[q] = req[q] /\ began'[q] = began[q]
  BY OthersStay DEF Receive, Serve, Break, Leaves, Timed
<1>4. /\ began' \in [Request -> 0..MaxClock \cup {NoOne}]
      /\ req'[r].pc # "idle" => began'[r] \in 0..MaxClock
  <2>1. CASE Receive(r)
    BY <2>1, <1>2 DEF Receive, Timed
  <2>2. CASE Serve(r)
    <3>1. req[r].pc # "idle" /\ Leaves(r)
      BY <2>2, WorkIsBegun DEF Serve
    <3> QED
      BY <3>1 DEF Leaves, Timed
  <2>3. CASE Break(r)
    <3>1. req[r].pc # "idle" /\ Leaves(r)
      BY <2>3 DEF Break, Fail
    <3> QED
      BY <3>1 DEF Leaves, Timed
  <2> QED
    BY <2>1, <2>2, <2>3
<1>5. touched' \in [Payment -> 0..MaxClock]
  <2>1. CASE Serve(r)
    <3>1. began[r] \in 0..MaxClock
      BY <2>1, WorkIsBegun DEF Serve, Timed
    <3> QED
      BY <3>1, <2>1 DEF Serve, Timed
  <2>2. CASE ~Serve(r)
    BY <2>2 DEF Receive, Break, Timed
  <2> QED
    BY <2>1, <2>2
<1>6. \A q \in Request : req'[q].pc # "idle" => began'[q] \in 0..MaxClock
  BY <1>3, <1>4 DEF Timed
<1> QED
  BY <1>1, <1>4, <1>5, <1>6 DEF Timed

\* What a run does to them.
LEMMA TimedRuns ==
  ASSUME Typed, Timed, NEW n \in Runner, PostNudges(n) \/ Remind(n) \/ NudgeFails(n)
  PROVE  Timed'
<1>1. UNCHANGED <<clock, began, touched, req, pay>>
  BY DEF PostNudges, RunNudges, Remind, Answer, UpsertNudge, NudgeFails, times, vars, tables
<1>2. clock \in 0..MaxClock
  BY DEF Timed
<1>3. notified' \in [Key -> 0..MaxClock \cup {NoOne}]
  <2>1. CASE \E k \in Key : UpsertNudge(n, k)
    BY <2>1, <1>2 DEF UpsertNudge, Timed
  <2>2. CASE UNCHANGED notified
    BY <2>2 DEF Timed
  <2> QED
    BY <2>1, <2>2 DEF PostNudges, RunNudges, Remind, Answer, NudgeFails
<1>4. run' \in [Runner -> Run \cup {NoOne}]
  <2>1. CASE PostNudges(n)
    <3>1. PICK u \in User, h \in Hours : RunNudges(n, u, h)
      BY <2>1 DEF PostNudges
    <3>2. \A p \in Payment : NudgeOf(p) \in Key
      BY DEF NudgeOf, Key, NudgeType
    <3>3. {NudgeOf(p) : p \in ListStalePayments(h)} \in SUBSET Key
      BY <3>2 DEF ListStalePayments
    <3>4. pay \in [Payment -> Row]
      BY DEF Typed, TypeOK, Row
    <3>5. [hours |-> h, at |-> clock, todo |-> {NudgeOf(p) : p \in ListStalePayments(h)},
           was |-> pay] \in Run
      BY <3>3, <3>4, <1>2 DEF Run
    <3> QED
      BY <3>1, <3>5 DEF RunNudges, Timed
  <2>2. ASSUME NEW k \in Key, UpsertNudge(n, k)
        PROVE  run' \in [Runner -> Run \cup {NoOne}]
    <3>1. run[n] \in Run /\ run' = [run EXCEPT ![n] = [run[n] EXCEPT !.todo = @ \ {k}]]
      BY <2>2 DEF UpsertNudge, Timed
    <3>2. [run[n] EXCEPT !.todo = @ \ {k}] \in Run
      BY <3>1 DEF Run
    <3> QED
      BY <3>1, <3>2 DEF Timed
  <2>3. CASE Answer(n) \/ NudgeFails(n)
    BY <2>3 DEF Answer, NudgeFails, Timed
  <2> QED
    BY <2>1, <2>2, <2>3 DEF Remind
<1> QED
  BY <1>1, <1>3, <1>4 DEF Timed

\* ... and every step keeps it.
LEMMA TimedNext == Typed /\ Timed /\ [NudgesNext]_allVars => Timed'
<1> SUFFICES ASSUME Typed, Timed, [NudgesNext]_allVars PROVE Timed'
  OBVIOUS
<1>1. ASSUME NEW u \in Member, PromoteMember(u) PROVE Timed'
  BY <1>1 DEF PromoteMember, TransferAdmin, times, reminders, Timed
<1>2. CASE Tick
  <2>1. clock' \in 0..MaxClock
    BY <1>2, NudgesAssumption DEF Tick, Timed
  <2> QED
    BY <2>1, <1>2 DEF Tick, times, reminders, vars, Timed
<1>3. CASE UNCHANGED allVars
  BY <1>3 DEF allVars, times, reminders, vars, Timed
<1> QED
  BY <1>1, <1>2, <1>3, TimedRequests, TimedRuns DEF NudgesNext
-----------------------------------------------------------------------------
(***************************************************************************)
(* Nobody is missed.                                                       *)
(***************************************************************************)

\* No run is in progress at first.
LEMMA AttendedInit == NudgesInit => Attended
BY DEF NudgesInit, Attended

\* The payments move: what moved is no longer what a run found.
LEMMA AttendedMoves ==
  ASSUME Typed, Timed, Attended, [Next]_vars, UNCHANGED reminders,
         clock' = clock,
         \A p \in Payment : pay'[p] = pay[p] => touched'[p] = touched[p]
  PROVE  Attended'
<1>1. notified' = notified /\ run' = run
  BY DEF reminders
<1> SUFFICES ASSUME NEW n \in Runner, run[n] # NoOne
             PROVE  Sound(run[n])'
  BY <1>1 DEF Attended
<1>2. PICK q : q = run[n]
  OBVIOUS
<1>3. Sound(q) /\ q \in Run
  BY <1>2 DEF Attended, Timed
<1>4. ASSUME NEW p \in Payment
      PROVE  /\ q.was[p].version <= pay'[p].version
             /\ StillStale(p, q)' => (NudgeOf(p) \in q.todo \/ Reminded(p, q))'
  <2>1. q.was[p] \in Row /\ pay[p] \in Row /\ q.was[p].version <= pay[p].version
    BY <1>3 DEF Sound, Run, Typed, TypeOK, Row
  <2>2. CASE pay'[p] = pay[p]
    <3>1. StillStale(p, q)' => StillStale(p, q)
      BY <2>2 DEF StillStale
    <3>2. NudgeOf(p)' = NudgeOf(p)
      BY <2>2 DEF NudgeOf
    <3>3. Reminded(p, q) => Reminded(p, q)'
      BY <3>2, <1>1 DEF Reminded
    <3> QED
      BY <3>1, <3>2, <3>3, <2>1, <2>2, <1>3 DEF Sound
  <2>3. CASE pay'[p].version = pay[p].version + 1
    <3>1. pay'[p].version > q.was[p].version
      BY <2>1, <2>3 DEF Row
    <3>2. pay'[p] # q.was[p]
      BY <3>1, <2>1 DEF Row
    <3>3. ~StillStale(p, q)'
      BY <3>2 DEF StillStale
    <3> QED
      BY <2>3, <3>3, <2>1 DEF Row
  <2> QED
    BY <2>2, <2>3, Moves
<1>5. Sound(q)'
  BY <1>3, <1>4 DEF Sound
<1> QED
  BY <1>5, <1>2, <1>1

\* A run begins, reminds, ends or fails.
LEMMA AttendedRuns ==
  ASSUME Typed, Timed, Attended, NEW n \in Runner,
         PostNudges(n) \/ Remind(n) \/ NudgeFails(n)
  PROVE  Attended'
<1>1. UNCHANGED <<clock, touched, pay>>
  BY DEF PostNudges, RunNudges, Remind, Answer, UpsertNudge, NudgeFails, times, vars, tables
<1>2. \A p \in Payment : NudgeOf(p)' = NudgeOf(p) /\ NudgeOf(p) \in Key
  BY <1>1 DEF NudgeOf, Key, NudgeType
<1>3. \A p \in Payment : \A q : StillStale(p, q)' => StillStale(p, q)
  BY <1>1 DEF StillStale
<1>4. clock \in Nat /\ MaxClock \in Nat /\ Hours \subseteq Nat /\ NoOne \notin Nat
  BY NudgesAssumption DEF Timed
<1>5. \A m \in Runner : run[m] # NoOne => run[m] \in Run /\ Sound(run[m])
  BY DEF Attended, Timed
<1>6. CASE PostNudges(n)
  <2>1. PICK u \in User, h \in Hours : RunNudges(n, u, h)
    BY <1>6 DEF PostNudges
  <2>2. PICK q : q = [hours |-> h, at |-> clock,
                      todo |-> {NudgeOf(p) : p \in ListStalePayments(h)}, was |-> pay]
    OBVIOUS
  <2>3. run' = [run EXCEPT ![n] = q] /\ notified' = notified
    BY <2>1, <2>2 DEF RunNudges
  <2>4. Sound(q)'
    <3>1. \A p \in Payment : StillStale(p, q) => NudgeOf(p) \in q.todo
      BY <2>2 DEF StillStale, ListStalePayments, Idles
    <3>2. \A p \in Payment : q.was[p].version <= pay'[p].version
      BY <1>1, <2>2 DEF Typed, TypeOK
    <3>3. q.at <= clock'
      BY <1>1, <1>4, <2>2
    <3> QED
      BY <3>1, <3>2, <3>3, <1>2, <1>3 DEF Sound
  <2>5. \A p \in Payment : \A m : Reminded(p, m) => Reminded(p, m)'
    BY <1>2, <2>3 DEF Reminded
  <2>6. ASSUME NEW m \in Runner \ {n}, run[m] # NoOne
        PROVE  Sound(run[m])'
    <3>1. PICK w : w = run[m] /\ w = run'[m] /\ Sound(w)
      BY <2>3, <2>6, <1>5 DEF Timed
    <3>2. Sound(w)'
      BY <3>1, <2>5, <1>1, <1>2, <1>3 DEF Sound
    <3> QED
      BY <3>1, <3>2
  <2>7. ASSUME NEW m \in Runner, run'[m] # NoOne
        PROVE  Sound(run[m])'
    BY <2>3, <2>4, <2>6, <2>7 DEF Timed
  <2> QED
    BY <2>7 DEF Attended
<1>7. CASE \E k \in Key : UpsertNudge(n, k)
  <2>1. PICK k \in Key : UpsertNudge(n, k)
    BY <1>7
  <2>2. run[n] \in Run /\ run[n] # NoOne /\ run' = [run EXCEPT ![n] = [run[n] EXCEPT !.todo = @ \ {k}]]
    BY <2>1, <1>5 DEF UpsertNudge
  <2>3. \A j \in Key \ {k} : notified'[j] = notified[j]
    BY <2>1 DEF UpsertNudge, Timed
  <2>4. ASSUME NEW m \in Runner, run[m] # NoOne, NEW p \in Payment, Reminded(p, run[m])
        PROVE  notified'[NudgeOf(p)] # NoOne /\ notified'[NudgeOf(p)] >= run[m].at - run[m].hours
    <3>0. run[m] \in Run /\ run[m].at <= clock
      BY <2>4, <1>5 DEF Sound
    <3>1. run[m].at \in Nat /\ run[m].hours \in Nat /\ run[m].at <= clock
      <4>1. PICK v : v = run[m]
        OBVIOUS
      <4>2. v.at \in Nat /\ v.hours \in Nat
        BY <4>1, <3>0, RunFields
      <4> QED
        BY <4>1, <4>2, <3>0
    <3>2. CASE notified'[NudgeOf(p)] = clock
      BY <3>1, <3>2, <1>4
    <3>3. CASE notified'[NudgeOf(p)] = notified[NudgeOf(p)]
      BY <3>3, <2>4 DEF Reminded
    <3> QED
      BY <3>2, <3>3, <2>1, <1>2 DEF UpsertNudge, Timed
  <2>5. notified'[k] # NoOne /\ notified'[k] >= run[n].at - run[n].hours
    <3>1. run[n].at \in Nat /\ run[n].hours \in Nat /\ run[n].at <= clock
      BY <2>2, <1>4, <1>5 DEF Run, Sound
    <3>2. CASE Due(k, run[n].hours)
      <4>1. notified'[k] = clock
        BY <2>1, <3>2 DEF UpsertNudge, Timed
      <4> QED
        BY <4>1, <3>1, <1>4
    <3>3. CASE ~Due(k, run[n].hours)
      <4>1. notified'[k] = notified[k] /\ notified[k] # NoOne /\ ~(notified[k] < clock - run[n].hours)
        BY <2>1, <3>3 DEF UpsertNudge, Due
      <4>2. notified[k] \in Nat
        BY <4>1, <1>4 DEF Timed
      <4> QED
        BY <4>1, <4>2, <3>1, <1>4
    <3> QED
      BY <3>2, <3>3
  <2>6. ASSUME NEW m \in Runner, run'[m] # NoOne
        PROVE  Sound(run[m])'
    <3>1. PICK w : w = run'[m]
      OBVIOUS
    <3>2. PICK v : v = run[m]
      OBVIOUS
    <3>3. v # NoOne /\ v \in Run /\ Sound(v)
      BY <2>2, <2>6, <3>2, <1>5 DEF Timed
    <3>4. /\ w.at = v.at /\ w.hours = v.hours /\ w.was = v.was
          /\ w.todo = v.todo \/ (m = n /\ w.todo = v.todo \ {k})
      <4>1. CASE m = n
        BY <4>1, <3>1, <3>2, <2>2 DEF Run, Timed
      <4>2. CASE m # n
        BY <4>2, <3>1, <3>2, <2>2 DEF Timed
      <4> QED
        BY <4>1, <4>2
    <3>5. ASSUME NEW p \in Payment, StillStale(p, w)'
          PROVE  (NudgeOf(p) \in w.todo \/ Reminded(p, w))'
      <4>1. StillStale(p, v)
        BY <3>4, <3>5, <1>1 DEF StillStale
      <4>2. CASE Reminded(p, v)
        <5>1. notified'[NudgeOf(p)] # NoOne /\ notified'[NudgeOf(p)] >= v.at - v.hours
          BY <4>2, <2>4, <3>2, <3>3
        <5> QED
          BY <5>1, <3>4, <1>2 DEF Reminded
      <4>3. CASE NudgeOf(p) \in v.todo /\ (w.todo = v.todo \/ NudgeOf(p) # k)
        BY <4>3, <3>4, <1>2
      <4>4. CASE m = n /\ NudgeOf(p) = k
        <5>1. notified'[NudgeOf(p)] # NoOne /\ notified'[NudgeOf(p)] >= v.at - v.hours
          BY <4>4, <2>5, <3>2
        <5> QED
          BY <5>1, <3>4, <1>2 DEF Reminded
      <4> QED
        BY <4>1, <4>2, <4>3, <4>4, <3>3, <3>4 DEF Sound
    <3>6. Sound(w)'
      BY <3>3, <3>4, <3>5, <1>1 DEF Sound
    <3> QED
      BY <3>6, <3>1
  <2> QED
    BY <2>6 DEF Attended
<1>8. CASE Answer(n) \/ NudgeFails(n)
  <2>1. run' = [run EXCEPT ![n] = NoOne] /\ notified' = notified
    BY <1>8 DEF Answer, NudgeFails
  <2>2. \A p \in Payment : \A m : Reminded(p, m) => Reminded(p, m)'
    BY <1>2, <2>1 DEF Reminded
  <2>3. ASSUME NEW m \in Runner, run'[m] # NoOne
        PROVE  Sound(run[m])'
    <3>1. PICK w : w = run[m] /\ w = run'[m] /\ Sound(w)
      BY <2>1, <2>3, <1>5 DEF Timed
    <3>2. Sound(w)'
      BY <3>1, <2>2, <1>1, <1>2, <1>3 DEF Sound
    <3> QED
      BY <3>1, <3>2
  <2> QED
    BY <2>3 DEF Attended
<1> QED
  BY <1>6, <1>7, <1>8 DEF Remind

\* Every step of a request, of a run and of the clock keeps Attended.
LEMMA AttendedNext == Typed /\ Timed /\ Attended /\ [NudgesNext]_allVars => Attended'
<1> SUFFICES ASSUME Typed, Timed, Attended, [NudgesNext]_allVars PROVE Attended'
  OBVIOUS
<1>0. [Next]_vars
  BY MovesAsPayments
<1>1. ASSUME NEW r \in Request, Receive(r) \/ Serve(r) \/ Break(r) PROVE Attended'
  <2>1. UNCHANGED reminders /\ clock' = clock
    BY <1>1 DEF Receive, Serve, Break
  <2>2. \A p \in Payment : pay'[p] = pay[p] => touched'[p] = touched[p]
    BY <1>1 DEF Receive, Serve, Break, Timed
  <2> QED
    BY <1>0, <2>1, <2>2, AttendedMoves
<1>2. ASSUME NEW u \in Member, PromoteMember(u) PROVE Attended'
  <2>1. UNCHANGED reminders /\ clock' = clock /\ touched' = touched
    BY <1>2 DEF PromoteMember, times
  <2> QED
    BY <1>0, <2>1, AttendedMoves
<1>3. CASE UNCHANGED allVars
  <2>1. UNCHANGED reminders /\ clock' = clock /\ touched' = touched
    BY <1>3 DEF allVars, times
  <2> QED
    BY <1>0, <2>1, AttendedMoves
<1>4. CASE Tick
  <2>1. UNCHANGED <<pay, touched, notified, run>> /\ clock' = clock + 1
    BY <1>4 DEF Tick, vars, tables, times, reminders
  <2>2. \A p \in Payment : \A q : /\ StillStale(p, q)' <=> StillStale(p, q)
                              /\ NudgeOf(p)' = NudgeOf(p)
    BY <2>1 DEF StillStale, NudgeOf
  <2>3. \A p \in Payment : \A q : Reminded(p, q) => Reminded(p, q)'
    BY <2>1, <2>2 DEF Reminded
  <2>4. ASSUME NEW m \in Runner, run'[m] # NoOne
        PROVE  Sound(run[m])'
    <3>1. PICK w : w = run[m] /\ w = run'[m] /\ w \in Run /\ Sound(w)
      BY <2>1, <2>4 DEF Attended, Timed
    <3>2. w.at <= clock'
      BY <3>1, <2>1, NudgesAssumption DEF Sound, Run, Timed
    <3>3. Sound(w)'
      BY <3>1, <3>2, <2>1, <2>2, <2>3 DEF Sound
    <3> QED
      BY <3>1, <3>3
  <2> QED
    BY <2>4 DEF Attended
<1> QED
  BY <1>1, <1>2, <1>3, <1>4, AttendedRuns DEF NudgesNext
-----------------------------------------------------------------------------
(***************************************************************************)
(* The theorems.                                                           *)
(***************************************************************************)

\* The inductive invariant of the reminders, beside that of the payments.
THEOREM NudgesInvariant == NudgesSpec => [](Typed /\ Timed /\ Attended)
<1> DEFINE P == Typed /\ Guarded /\ Audited /\ Evidenced /\ Counted
<1>1. Spec => []P
  BY Invariant
<1>2. P => Typed
  OBVIOUS
<1>3. NudgesInit => Timed /\ Attended
  BY TimedInit, AttendedInit
<1>4. Typed /\ Timed /\ Attended /\ [NudgesNext]_allVars => Timed' /\ Attended'
  BY TimedNext, AttendedNext
<1> HIDE DEF P
<1> QED
  BY <1>1, <1>2, <1>3, <1>4, NudgesArePayments, PTL DEF NudgesSpec

\* The clock readings, the reminders and the runs keep their types.
THEOREM NudgesTyped == NudgesSpec => []NudgesTypeOK
<1>1. Typed /\ Timed => NudgesTypeOK
  BY DEF Typed, Timed, NudgesTypeOK, Run, Row
<1> QED
  BY <1>1, NudgesInvariant, PTL

\* A run that ends without an error has seen to everybody who held up a payment
\* since before it began, whatever moved and whoever else reminded meanwhile.
THEOREM NobodyMissed == NudgesSpec => NobodyStalledIsMissed
<1> DEFINE A == \A n \in Runner :
       run[n] # NoOne /\ run[n].todo = {} /\ run'[n] = NoOne =>
         \A p \in Payment :
           /\ pay[p] = run[n].was[p]
           /\ pay[p].status \in Stalled
           /\ touched[p] < run[n].at - run[n].hours
           => /\ notified[NudgeOf(p)] # NoOne
              /\ notified[NudgeOf(p)] >= run[n].at - run[n].hours
<1>1. Attended => A
  BY DEF Attended, Sound, StillStale, Reminded
<1>2. NudgesSpec => [][A]_allVars
  BY <1>1, NudgesInvariant, PTL DEF NudgesSpec
<1> QED
  BY <1>2 DEF NobodyStalledIsMissed
=============================================================================
