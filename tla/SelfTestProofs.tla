--------------------------- MODULE SelfTestProofs ---------------------------
(***************************************************************************)
(* Theorems about SelfTest, for any number of tasks, sweeps and foreign    *)
(* events, and any numbers these carry.                                    *)
(*                                                                         *)
(* The invariant follows the sweep through run_full_test: at each syscall  *)
(* it says what the locals, the rows so far and the host's tasks have to   *)
(* do with each other.                                                     *)
(***************************************************************************)
EXTENDS SelfTest, SequenceTheorems, WellFoundedInduction, TLAPS

Row == [of : 1..MaxSweeps, security : BOOLEAN, good : BOOLEAN]

Point == {"idle", "functional", "asked", "pinged", "schedule", "cancel", "probing",
          "probed", "recurring", "extreme", "undo", "report", "paused"}

Sweeps == [at : Point, checks : Nat, due : BOOLEAN, heard : SUBSET {"ping", "recur"},
           held : SUBSET (1..Tasks), next : 1..(Tasks + 3), cancelled : 0..Tasks,
           refused : BOOLEAN, verdict : {"none", "green", "failed", "vulnerable"}]

\* An activation of the recur listener.
Nested == [n : Int, due : BOOLEAN]

\* The points before the sweep has checked its ping, its handles, its recursion.
BeforePing == {"idle", "functional", "asked", "pinged"}
BeforeTasks == BeforePing \cup {"schedule"}
BeforeRecur == BeforeTasks \cup {"cancel", "probing", "probed", "recurring"}

\* A sweep that runs has been started.
Counted == sweep.at # "idle" => started >= 1

\* The index of the next task keeps within the loop that uses it, and counts
\* the cancellations that worked.
LoopsInRange ==
  /\ sweep.at \in {"schedule", "cancel"} => sweep.next <= Tasks + 1
  /\ sweep.at \in BeforePing => sweep.next = 1 /\ sweep.held = {}
  /\ sweep.at \in BeforeTasks => sweep.cancelled = 0
  /\ sweep.at = "cancel" => sweep.cancelled < sweep.next
  /\ sweep.at = "cancel" /\ sweep.next <= Tasks => sweep.next \in sweep.held
  /\ sweep.at \in {"extreme", "undo"} => sweep.next \in {Tasks + 1, Tasks + 2}

\* The host's tasks of this sweep are those whose handles it has yet to cancel.
Mine == {t \in tasks : t[1] = started}

TasksKnown ==
  /\ \A t \in tasks : t[1] <= started
  /\ sweep.at \in BeforePing \ {"idle"} => Mine = {}
  /\ sweep.at = "schedule" => /\ \A i \in sweep.held : i < sweep.next
                              /\ \A t \in Mine : t[2] \in sweep.held
  /\ sweep.at = "cancel" /\ ~sweep.refused =>
       \A t \in Mine : t[2] \in sweep.held /\ t[2] >= sweep.next
  /\ sweep.at \in {"probing", "probed", "recurring", "extreme", "report", "paused"}
       /\ ~sweep.refused => Mine = {}
  /\ sweep.at = "undo" /\ ~sweep.refused => \A t \in Mine : t[2] = sweep.next

AllGood == \A i \in DOMAIN rows : rows[i].good

\* What a row without a fault says of the listeners and of the host.
RowsMean ==
  /\ sweep.at = "pinged" /\ fired => "ping" \in sweep.heard
  /\ sweep.at \notin BeforePing /\ AllGood => "ping" \in sweep.heard
  /\ sweep.at \notin BeforeTasks /\ AllGood => sweep.held = 1..Tasks
  /\ sweep.at = "recurring" /\ (depth # 0 \/ chain # <<>>) => "recur" \in sweep.heard
  /\ sweep.at \notin BeforeRecur /\ AllGood => "recur" \in sweep.heard
  /\ sweep.at # "paused" => sweep.verdict = "none"
  /\ sweep.verdict = "green" => AllGood

SelfTestInv ==
  /\ TypeOK
  /\ OwnRows
  /\ Counted
  /\ LoopsInRange
  /\ TasksKnown
  /\ RowsMean

----------------------------------------------------------------------------
(* Facts about the operators. *)

LEMMA Types ==
  ASSUME TypeOK
  PROVE  /\ rows \in Seq(Row) /\ Len(rows) \in Nat /\ DOMAIN rows = 1..Len(rows)
         /\ sweep \in Sweeps /\ chain \in Seq(Nested)
BY DEF TypeOK, Row, Sweeps, Point, Nested

\* A set of natural numbers has a least element.
LEMMA Least ==
  ASSUME NEW T \in SUBSET Nat, T # {}
  PROVE  \E m \in T : \A k \in T : m <= k
<1> DEFINE R == OpToRel(<, Nat)
<1>1. IsWellFoundedOn(R, Nat)
  BY NatLessThanWellFounded
<1>2. PICK m \in T : \A k \in T : ~(<<k, m>> \in R)
  <2> HIDE DEF R
  <2> QED BY <1>1, WFMin
<1>3. R = {p \in Nat \X Nat : p[1] < p[2]}
  BY DEF OpToRel
<1> HIDE DEF R
<1>4. ASSUME NEW k \in T
      PROVE  m <= k
  <2>1. <<k, m>> \in Nat \X Nat /\ <<k, m>>[1] = k /\ <<k, m>>[2] = m
    OBVIOUS
  <2>2. ~(k < m)
    BY <1>2, <1>3, <2>1
  <2> QED BY <2>2
<1> QED BY <1>4

\* The loop that cancels goes to the next handle, and leaves out none.
LEMMA FirstHeldIsNext ==
  ASSUME TypeOK, NEW from \in 1..(Tasks + 1)
  PROVE  /\ FirstHeld(from) \in from..(Tasks + 1)
         /\ FirstHeld(from) <= Tasks => FirstHeld(from) \in sweep.held
         /\ \A j \in sweep.held : j >= from => j >= FirstHeld(from)
<1>1. sweep.held \subseteq 1..Tasks /\ Tasks \in Nat
  BY Types, BoundsAssumption DEF Sweeps
<1> DEFINE T == {i \in from..(Tasks + 1) : i = Tasks + 1 \/ i \in sweep.held}
<1>2. T \in SUBSET Nat /\ T # {}
  <2>1. Tasks + 1 \in T
    BY <1>1
  <2> QED BY <1>1, <2>1
<1>3. PICK m \in T : \A k \in T : m <= k
  BY <1>2, Least
<1>4. /\ m = Tasks + 1 \/ m \in sweep.held
      /\ \A j \in from..(m - 1) : j \notin sweep.held
  BY <1>1, <1>3
<1>5. /\ FirstHeld(from) \in from..(Tasks + 1)
      /\ FirstHeld(from) = Tasks + 1 \/ FirstHeld(from) \in sweep.held
      /\ \A j \in from..(FirstHeld(from) - 1) : j \notin sweep.held
  BY <1>3, <1>4 DEF FirstHeld
<1> HIDE DEF T
<1> QED BY <1>1, <1>5

\* check and probe put their rows behind those there are.
LEMMA RecordedRows ==
  ASSUME TypeOK, OwnRows, started \in 1..MaxSweeps, sweep.at # "idle",
         NEW security \in BOOLEAN, NEW goods \in Seq(BOOLEAN),
         Recorded(security, goods)
  PROVE  /\ rows' \in Seq(Row)
         /\ Len(rows') = sweep.checks + Len(goods)
         /\ \A i \in DOMAIN rows' : rows'[i].of = started
         /\ AllGood' => AllGood /\ \A i \in DOMAIN goods : goods[i]
<1> DEFINE new == [i \in DOMAIN goods |-> [of |-> started, security |-> security,
                                           good |-> goods[i]]]
<1>1. rows \in Seq(Row) /\ Len(rows) = sweep.checks
      /\ \A i \in DOMAIN rows : rows[i].of = started
  BY Types DEF OwnRows
<1>2. Len(goods) \in Nat /\ DOMAIN goods = 1..Len(goods)
  OBVIOUS
<1>3. \A i \in 1..Len(goods) : new[i] \in Row /\ new[i].of = started /\ new[i].good = goods[i]
  BY <1>2 DEF Row
<1>4. new \in Seq(Row) /\ Len(new) = Len(goods)
  BY <1>2, <1>3
<1>5. rows' = rows \o new
  BY DEF Recorded
<1> HIDE DEF new
<1>6. /\ rows' \in Seq(Row) /\ Len(rows') = Len(rows) + Len(goods)
      /\ \A i \in 1..(Len(rows) + Len(goods)) :
           rows'[i] = IF i <= Len(rows) THEN rows[i] ELSE new[i - Len(rows)]
  BY <1>1, <1>4, <1>5, ConcatProperties
<1>7. DOMAIN rows' = 1..(Len(rows) + Len(goods)) /\ DOMAIN rows = 1..Len(rows) /\ Len(rows) \in Nat
  BY <1>1, <1>6
<1>8. \A i \in DOMAIN rows' : rows'[i].of = started
  <2> SUFFICES ASSUME NEW i \in DOMAIN rows' PROVE rows'[i].of = started
    OBVIOUS
  <2>1. CASE i <= Len(rows)
    BY <1>1, <1>6, <1>7, <2>1
  <2>2. CASE i > Len(rows)
    <3>1. i - Len(rows) \in 1..Len(goods)
      BY <1>2, <1>7, <2>2
    <3> QED BY <1>3, <1>6, <1>7, <2>2, <3>1
  <2> QED BY <1>7, <2>1, <2>2
<1>9. ASSUME AllGood'
      PROVE  AllGood /\ \A i \in DOMAIN goods : goods[i]
  <2>1. \A i \in DOMAIN rows' : rows'[i].good
    BY <1>9 DEF AllGood
  <2>2. ASSUME NEW i \in DOMAIN rows PROVE rows[i].good
    BY <1>2, <1>6, <1>7, <2>1
  <2>3. ASSUME NEW i \in DOMAIN goods PROVE goods[i]
    <3>1. Len(rows) + i \in DOMAIN rows' /\ rows'[Len(rows) + i] = new[i]
      BY <1>2, <1>6, <1>7
    <3> QED BY <1>2, <1>3, <2>1, <3>1
  <2> QED BY <2>2, <2>3 DEF AllGood
<1> QED BY <1>1, <1>6, <1>8, <1>9

LEMMA RecordedRow ==
  ASSUME SelfTestInv, sweep.at # "idle", NEW security \in BOOLEAN, NEW good \in BOOLEAN,
         Recorded(security, <<good>>)
  PROVE  /\ rows' \in Seq(Row) /\ Len(rows') = sweep.checks + 1
         /\ \A i \in DOMAIN rows' : rows'[i].of = started
         /\ AllGood' => AllGood /\ good
<1>1. TypeOK /\ OwnRows /\ started \in 1..MaxSweeps
  BY DEF SelfTestInv, TypeOK, Counted
<1>2. <<good>> \in Seq(BOOLEAN) /\ Len(<<good>>) = 1 /\ 1 \in DOMAIN <<good>> /\ <<good>>[1] = good
  OBVIOUS
<1> HIDE DEF Recorded
<1> QED BY <1>1, <1>2, RecordedRows

LEMMA MadeFits ==
  ASSUME sweep \in Sweeps, NEW n \in Nat, NEW p \in Point
  PROVE  /\ Made(n, p) \in Sweeps /\ Made(n, p).at = p /\ Made(n, p).checks = sweep.checks + n
         /\ Made(n, p).next = sweep.next /\ Made(n, p).held = sweep.held
         /\ Made(n, p).heard = sweep.heard /\ Made(n, p).cancelled = sweep.cancelled
         /\ Made(n, p).refused = sweep.refused /\ Made(n, p).verdict = sweep.verdict
<1> DEFINE c == sweep.checks + n
<1>1. c \in Nat
  BY DEF Sweeps
<1>2. Made(n, p) = [sweep EXCEPT !.at = p, !.checks = c]
  BY DEF Made
<1> HIDE DEF c
<1>3. [sweep EXCEPT !.at = p, !.checks = c] \in Sweeps
  BY <1>1 DEF Sweeps
<1> QED BY <1>1, <1>2, <1>3 DEF Sweeps, c

----------------------------------------------------------------------------
(* The steps of the sweep. *)

LEMMA StartKeeps ==
  ASSUME SelfTestInv, StartSweep
  PROVE  SelfTestInv'
<1>1. TypeOK /\ sweep \in Sweeps /\ started \in 0..MaxSweeps /\ tasks \subseteq (1..MaxSweeps) \X (1..(Tasks + 2))
  BY Types DEF SelfTestInv, TypeOK
<1>2. /\ sweep' \in Sweeps /\ sweep'.at = "functional" /\ sweep'.checks = 0 /\ sweep'.next = 1
      /\ sweep'.held = {} /\ sweep'.cancelled = 0 /\ sweep'.verdict = "none"
  <2>1. Idle \in Sweeps
    BY BoundsAssumption DEF Idle, Sweeps, Point
  <2>2. [Idle EXCEPT !.at = "functional"] \in Sweeps
    BY <2>1 DEF Sweeps, Point
  <2> QED BY <2>1, <2>2 DEF StartSweep, Idle, Sweeps
<1>3. /\ rows' = <<>> /\ started' = started + 1 /\ started' \in 1..MaxSweeps
      /\ UNCHANGED <<fired, data, depth, chain, tasks, foreign>>
  BY <1>1, BoundsAssumption DEF StartSweep, Cleared
<1>4. TypeOK'
  BY <1>2, <1>3 DEF SelfTestInv, TypeOK, Sweeps, Point
<1>5. OwnRows' /\ Counted'
  BY <1>2, <1>3 DEF OwnRows, Counted
<1>6. LoopsInRange'
  BY <1>2, BoundsAssumption DEF LoopsInRange, BeforePing, BeforeTasks
<1>7. TasksKnown'
  <2>1. \A t \in tasks : t[1] <= started /\ t[1] \in Nat
    BY <1>1 DEF SelfTestInv, TasksKnown
  <2>2. Mine' = {}
    BY <1>1, <1>3, <2>1 DEF Mine
  <2> QED BY <1>1, <1>2, <1>3, <2>1, <2>2 DEF TasksKnown
<1>8. RowsMean'
  BY <1>2 DEF RowsMean, BeforePing, BeforeTasks, BeforeRecur
<1> QED BY <1>4, <1>5, <1>6, <1>7, <1>8 DEF SelfTestInv

LEMMA AskKeeps ==
  ASSUME SelfTestInv, NEW good \in BOOLEAN, Ask(good)
  PROVE  SelfTestInv'
<1>1. TypeOK /\ sweep \in Sweeps /\ sweep.at = "functional"
  BY Types DEF SelfTestInv, Ask, At
<1>2. /\ sweep' \in Sweeps /\ sweep'.at = "asked" /\ sweep'.checks = sweep.checks + 1
      /\ sweep'.next = sweep.next /\ sweep'.held = sweep.held /\ sweep'.heard = sweep.heard
      /\ sweep'.cancelled = sweep.cancelled /\ sweep'.verdict = sweep.verdict
      /\ sweep'.refused = sweep.refused
  BY <1>1, MadeFits DEF Ask, Point
<1>3. /\ rows' \in Seq(Row) /\ Len(rows') = sweep.checks + 1
      /\ \A i \in DOMAIN rows' : rows'[i].of = started
      /\ AllGood' => AllGood
  BY <1>1, RecordedRow DEF Ask
<1>4. UNCHANGED <<fired, data, depth, chain, tasks, started, foreign>>
  BY DEF Ask
<1>5. TypeOK'
  BY <1>2, <1>3, <1>4 DEF SelfTestInv, TypeOK, Sweeps, Point, Row
<1>6. OwnRows' /\ Counted'
  BY <1>1, <1>2, <1>3, <1>4 DEF SelfTestInv, OwnRows, Counted
<1>7. LoopsInRange'
  BY <1>1, <1>2 DEF SelfTestInv, LoopsInRange, BeforePing, BeforeTasks
<1>8. TasksKnown'
  BY <1>1, <1>2, <1>4 DEF SelfTestInv, TasksKnown, Mine, BeforePing
<1>9. RowsMean'
  BY <1>1, <1>2, <1>3 DEF SelfTestInv, RowsMean, BeforePing, BeforeTasks, BeforeRecur
<1> QED BY <1>5, <1>6, <1>7, <1>8, <1>9 DEF SelfTestInv

LEMMA EmitPingKeeps ==
  ASSUME SelfTestInv, EmitPing
  PROVE  SelfTestInv'
<1>1. TypeOK /\ sweep \in Sweeps /\ sweep.at = "asked"
  BY Types DEF SelfTestInv, EmitPing, At
<1>2. /\ sweep' \in Sweeps /\ sweep'.at = "pinged" /\ sweep'.checks = sweep.checks
      /\ sweep'.next = sweep.next /\ sweep'.held = sweep.held
      /\ sweep'.cancelled = sweep.cancelled /\ sweep'.verdict = sweep.verdict
  <2>1. [sweep EXCEPT !.at = "pinged", !.due = TRUE] \in Sweeps
    BY <1>1 DEF Sweeps, Point
  <2> QED BY <1>1, <2>1 DEF EmitPing, Sweeps
<1>3. fired' = FALSE /\ data' = "null" /\ UNCHANGED <<rows, depth, chain, tasks, started, foreign>>
  BY DEF EmitPing, Reset
<1>4. TypeOK'
  BY <1>2, <1>3 DEF SelfTestInv, TypeOK, Sweeps, Point
<1>5. OwnRows' /\ Counted'
  BY <1>1, <1>2, <1>3 DEF SelfTestInv, OwnRows, Counted
<1>6. LoopsInRange'
  BY <1>1, <1>2 DEF SelfTestInv, LoopsInRange, BeforePing, BeforeTasks
<1>7. TasksKnown'
  BY <1>1, <1>2, <1>3 DEF SelfTestInv, TasksKnown, Mine, BeforePing
<1>8. RowsMean'
  BY <1>1, <1>2, <1>3
  DEF SelfTestInv, RowsMean, AllGood, BeforePing, BeforeTasks, BeforeRecur
<1> QED BY <1>4, <1>5, <1>6, <1>7, <1>8 DEF SelfTestInv

LEMMA CheckPingKeeps ==
  ASSUME SelfTestInv, CheckPing
  PROVE  SelfTestInv'
<1> DEFINE good == fired /\ data = "seven"
           m == Made(1, "schedule")
<1>1. TypeOK /\ sweep \in Sweeps /\ sweep.at = "pinged" /\ good \in BOOLEAN
  BY Types DEF SelfTestInv, CheckPing, At, TypeOK
<1>2. /\ sweep' \in Sweeps /\ sweep'.at = "schedule" /\ sweep'.checks = sweep.checks + 1
      /\ sweep'.next = sweep.next /\ sweep'.held = sweep.held /\ sweep'.heard = sweep.heard
      /\ sweep'.cancelled = sweep.cancelled /\ sweep'.verdict = sweep.verdict
  <2>1. m \in Sweeps /\ sweep' = [m EXCEPT !.due = FALSE]
    BY <1>1, MadeFits DEF CheckPing, Point
  <2>2. m.at = "schedule" /\ m.checks = sweep.checks + 1 /\ m.next = sweep.next
        /\ m.held = sweep.held /\ m.heard = sweep.heard /\ m.cancelled = sweep.cancelled
        /\ m.verdict = sweep.verdict
    BY <1>1, MadeFits DEF Point
  <2> HIDE DEF m
  <2>3. [m EXCEPT !.due = FALSE] \in Sweeps
    BY <2>1 DEF Sweeps
  <2> QED BY <2>1, <2>2, <2>3 DEF Sweeps
<1>3. Recorded(FALSE, <<good>>) /\ UNCHANGED <<fired, data, depth, chain, tasks, started, foreign>>
  BY DEF CheckPing
<1>4. good => fired
  OBVIOUS
<1> HIDE DEF good
<1>5. /\ rows' \in Seq(Row) /\ Len(rows') = sweep.checks + 1
      /\ \A i \in DOMAIN rows' : rows'[i].of = started
      /\ AllGood' => AllGood /\ fired
  BY <1>1, <1>3, <1>4, RecordedRow
<1>6. TypeOK'
  BY <1>2, <1>3, <1>5 DEF SelfTestInv, TypeOK, Sweeps, Point, Row
<1>7. OwnRows' /\ Counted'
  BY <1>1, <1>2, <1>3, <1>5 DEF SelfTestInv, OwnRows, Counted
<1>8. LoopsInRange'
  BY <1>1, <1>2, BoundsAssumption DEF SelfTestInv, LoopsInRange, BeforePing, BeforeTasks
<1>9. TasksKnown'
  BY <1>1, <1>2, <1>3 DEF SelfTestInv, TasksKnown, LoopsInRange, Mine, BeforePing
<1>10. RowsMean'
  BY <1>1, <1>2, <1>3, <1>5
  DEF SelfTestInv, RowsMean, BeforePing, BeforeTasks, BeforeRecur
<1> QED BY <1>6, <1>7, <1>8, <1>9, <1>10 DEF SelfTestInv

\* A scheduled task is one whose handle the sweep has.
LEMMA ScheduleKeeps ==
  ASSUME SelfTestInv, NEW accepted \in BOOLEAN, Schedule(accepted)
  PROVE  SelfTestInv'
<1> DEFINE n == sweep.next + 1
           h == IF accepted THEN sweep.held \cup {sweep.next} ELSE sweep.held
<1>1. /\ TypeOK /\ sweep \in Sweeps /\ sweep.at = "schedule" /\ sweep.next \in 1..Tasks
      /\ sweep.held \subseteq 1..Tasks /\ started \in 1..MaxSweeps
      /\ \A t \in tasks : t \in (1..MaxSweeps) \X (1..(Tasks + 2))
  BY Types DEF SelfTestInv, Schedule, At, Sweeps, TypeOK, Counted
<1>2. n \in 1..(Tasks + 1) /\ h \subseteq 1..Tasks
  BY <1>1, BoundsAssumption
<1>3. /\ sweep' \in Sweeps /\ sweep'.at = "schedule" /\ sweep'.checks = sweep.checks
      /\ sweep'.next = n /\ sweep'.held = h /\ sweep'.heard = sweep.heard
      /\ sweep'.cancelled = sweep.cancelled /\ sweep'.verdict = sweep.verdict
  <2>1. sweep' = [sweep EXCEPT !.next = n, !.held = h]
    BY DEF Schedule
  <2>2. n \in 1..(Tasks + 3)
    BY <1>2, BoundsAssumption
  <2> HIDE DEF n, h
  <2>3. [sweep EXCEPT !.next = n, !.held = h] \in Sweeps
    BY <1>1, <1>2, <2>2 DEF Sweeps
  <2> QED BY <1>1, <2>1, <2>3 DEF Sweeps
<1>4. /\ tasks' = IF accepted THEN tasks \cup {<<started, sweep.next>>} ELSE tasks
      /\ UNCHANGED <<rows, fired, data, depth, chain, started, foreign>>
  BY DEF Schedule
<1>5. TypeOK'
  <2>1. tasks' \subseteq (1..MaxSweeps) \X (1..(Tasks + 2))
    BY <1>1, <1>4, BoundsAssumption
  <2> QED BY <1>3, <1>4, <2>1 DEF SelfTestInv, TypeOK, Sweeps, Point
<1>6. OwnRows' /\ Counted'
  BY <1>1, <1>3, <1>4 DEF SelfTestInv, OwnRows, Counted
<1>7. LoopsInRange'
  BY <1>1, <1>2, <1>3 DEF SelfTestInv, LoopsInRange, BeforePing, BeforeTasks
<1>8. TasksKnown'
  <2>1. /\ \A t \in tasks : t[1] <= started
        /\ \A i \in sweep.held : i < sweep.next
        /\ \A t \in Mine : t[2] \in sweep.held
    BY <1>1 DEF SelfTestInv, TasksKnown
  <2>2. \A t \in tasks' : t[1] <= started
    BY <1>1, <1>4, <2>1
  <2>3. \A i \in h : i < n
    BY <1>1, <2>1
  <2>4. \A t \in Mine' : t[2] \in h
    BY <1>1, <1>4, <2>1 DEF Mine
  <2> QED BY <1>3, <1>4, <2>2, <2>3, <2>4 DEF TasksKnown, BeforePing
<1>9. RowsMean'
  BY <1>1, <1>3, <1>4
  DEF SelfTestInv, RowsMean, AllGood, BeforePing, BeforeTasks, BeforeRecur
<1> QED BY <1>5, <1>6, <1>7, <1>8, <1>9 DEF SelfTestInv

\* The check of the handles passes only if the host took every task.
LEMMA CheckHandlesKeeps ==
  ASSUME SelfTestInv, CheckHandles
  PROVE  SelfTestInv'
<1> DEFINE goods == [i \in 1..Tasks |-> i \in sweep.held]
           m == Made(Tasks, "cancel")
           n == FirstHeld(1)
<1>1. /\ TypeOK /\ sweep \in Sweeps /\ sweep.at = "schedule" /\ sweep.next = Tasks + 1
      /\ sweep.held \subseteq 1..Tasks /\ started \in 1..MaxSweeps /\ OwnRows /\ Tasks \in Nat
  BY Types, BoundsAssumption
  DEF SelfTestInv, CheckHandles, At, Sweeps, TypeOK, Counted, LoopsInRange
<1>2. /\ n \in 1..(Tasks + 1)
      /\ n <= Tasks => n \in sweep.held
      /\ \A j \in sweep.held : j >= n
  BY <1>1, FirstHeldIsNext
<1>3. goods \in Seq(BOOLEAN) /\ Len(goods) = Tasks /\ DOMAIN goods = 1..Tasks
      /\ \A i \in 1..Tasks : goods[i] => i \in sweep.held
  <2>1. \A i \in 1..Tasks : goods[i] \in BOOLEAN
    OBVIOUS
  <2>2. \A i \in 1..Tasks : goods[i] => i \in sweep.held
    OBVIOUS
  <2>3. goods = [i \in 1..Tasks |-> goods[i]]
    OBVIOUS
  <2> HIDE DEF goods
  <2> QED BY <1>1, <2>1, <2>2, <2>3
<1>4. /\ sweep' \in Sweeps /\ sweep'.at = "cancel" /\ sweep'.checks = sweep.checks + Tasks
      /\ sweep'.next = n /\ sweep'.held = sweep.held /\ sweep'.heard = sweep.heard
      /\ sweep'.cancelled = sweep.cancelled /\ sweep'.verdict = sweep.verdict
  <2>1. m \in Sweeps /\ sweep' = [m EXCEPT !.next = n]
    BY <1>1, MadeFits DEF CheckHandles, Point
  <2>2. m.at = "cancel" /\ m.checks = sweep.checks + Tasks
        /\ m.held = sweep.held /\ m.heard = sweep.heard /\ m.cancelled = sweep.cancelled
        /\ m.verdict = sweep.verdict
    BY <1>1, MadeFits DEF Point
  <2>3. n \in 1..(Tasks + 3)
    BY <1>1, <1>2
  <2> HIDE DEF m, n
  <2>4. [m EXCEPT !.next = n] \in Sweeps
    BY <2>1, <2>3 DEF Sweeps
  <2> QED BY <2>1, <2>2, <2>4 DEF Sweeps
<1>5. Recorded(FALSE, goods) /\ UNCHANGED <<fired, data, depth, chain, tasks, started, foreign>>
  BY DEF CheckHandles
<1> HIDE DEF goods, n, m
<1>6. /\ rows' \in Seq(Row) /\ Len(rows') = sweep.checks + Tasks
      /\ \A i \in DOMAIN rows' : rows'[i].of = started
      /\ AllGood' => AllGood /\ \A i \in 1..Tasks : i \in sweep.held
  BY <1>1, <1>3, <1>5, RecordedRows
<1>7. TypeOK'
  BY <1>4, <1>5, <1>6 DEF SelfTestInv, TypeOK, Sweeps, Point, Row
<1>8. OwnRows' /\ Counted'
  BY <1>1, <1>4, <1>5, <1>6 DEF SelfTestInv, OwnRows, Counted
<1>9. LoopsInRange'
  BY <1>1, <1>2, <1>4 DEF SelfTestInv, LoopsInRange, BeforePing, BeforeTasks
<1>10. TasksKnown'
  <2>1. \A t \in tasks : t[1] <= started
    BY DEF SelfTestInv, TasksKnown
  <2>2. \A t \in Mine : t[2] \in sweep.held /\ t[2] >= n
    BY <1>1, <1>2 DEF SelfTestInv, TasksKnown
  <2> QED BY <1>4, <1>5, <2>1, <2>2 DEF TasksKnown, Mine, BeforePing
<1>11. RowsMean'
  <2>1. AllGood' => sweep.held = 1..Tasks
    BY <1>1, <1>6
  <2> QED BY <1>1, <1>4, <1>5, <1>6, <2>1
          DEF SelfTestInv, RowsMean, BeforePing, BeforeTasks, BeforeRecur
<1> QED BY <1>7, <1>8, <1>9, <1>10, <1>11 DEF SelfTestInv

\* schedule_cancel is called with each handle once; a task it leaves makes the
\* sweep one that was refused.
LEMMA CancelKeeps ==
  ASSUME SelfTestInv, NEW done \in BOOLEAN, Cancel(done)
  PROVE  SelfTestInv'
<1> DEFINE n == FirstHeld(sweep.next + 1)
           c == IF done THEN sweep.cancelled + 1 ELSE sweep.cancelled
           r == Refused(done)
<1>1. /\ TypeOK /\ sweep \in Sweeps /\ sweep.at = "cancel" /\ sweep.next \in 1..Tasks
      /\ sweep.held \subseteq 1..Tasks /\ started \in 1..MaxSweeps
      /\ sweep.cancelled \in Nat /\ sweep.cancelled < sweep.next
      /\ \A t \in tasks : t \in (1..MaxSweeps) \X (1..(Tasks + 2))
  <2>1. TypeOK /\ sweep \in Sweeps /\ sweep.at = "cancel" /\ sweep.next <= Tasks
    BY Types DEF SelfTestInv, Cancel, At
  <2>2. sweep.next \in Nat /\ sweep.next >= 1 /\ sweep.held \subseteq 1..Tasks /\ sweep.cancelled \in Nat
    BY <2>1, BoundsAssumption DEF Sweeps
  <2> QED BY <2>1, <2>2, BoundsAssumption DEF SelfTestInv, TypeOK, Counted, LoopsInRange
<1>2. /\ n \in (sweep.next + 1)..(Tasks + 1)
      /\ n <= Tasks => n \in sweep.held
      /\ \A j \in sweep.held : j > sweep.next => j >= n
  <2>1. sweep.next + 1 \in 1..(Tasks + 1)
    BY <1>1, BoundsAssumption
  <2>2. \A j \in sweep.held : j > sweep.next => j >= sweep.next + 1
    BY <1>1
  <2> QED BY <1>1, <2>1, <2>2, FirstHeldIsNext
<1>3. c \in 0..Tasks /\ c < n /\ n \in 1..(Tasks + 3)
  BY <1>1, <1>2, BoundsAssumption
<1>4. r \in BOOLEAN /\ (~r => ~sweep.refused /\ <<started, sweep.next>> \notin Left(done))
  <2>1. sweep.refused \in BOOLEAN
    BY <1>1 DEF Sweeps
  <2>2. (<<started, sweep.next>> \in Left(done)) \in BOOLEAN
    OBVIOUS
  <2> QED BY <2>1, <2>2 DEF Refused
<1>5. /\ sweep' \in Sweeps /\ sweep'.at = "cancel" /\ sweep'.checks = sweep.checks
      /\ sweep'.next = n /\ sweep'.held = sweep.held /\ sweep'.heard = sweep.heard
      /\ sweep'.cancelled = c /\ sweep'.verdict = sweep.verdict /\ sweep'.refused = r
  <2>1. sweep' = [sweep EXCEPT !.next = n, !.cancelled = c, !.refused = r]
    BY DEF Cancel
  <2> HIDE DEF n, c, r
  <2>2. [sweep EXCEPT !.next = n, !.cancelled = c, !.refused = r] \in Sweeps
    BY <1>1, <1>3, <1>4 DEF Sweeps
  <2> QED BY <1>1, <2>1, <2>2 DEF Sweeps
<1>6. /\ tasks' = Left(done) /\ tasks' \subseteq tasks
      /\ UNCHANGED <<rows, fired, data, depth, chain, started, foreign>>
  BY DEF Cancel, Left
<1> HIDE DEF n, c, r
<1>7. TypeOK'
  <2>1. tasks' \subseteq (1..MaxSweeps) \X (1..(Tasks + 2))
    BY <1>1, <1>6
  <2> QED BY <1>5, <1>6, <2>1 DEF SelfTestInv, TypeOK, Sweeps, Point
<1>8. OwnRows' /\ Counted'
  BY <1>1, <1>5, <1>6 DEF SelfTestInv, OwnRows, Counted
<1>9. LoopsInRange'
  BY <1>2, <1>3, <1>5, BoundsAssumption DEF LoopsInRange, BeforePing, BeforeTasks
<1>10. TasksKnown'
  <2>1. \A t \in tasks' : t[1] <= started
    BY <1>6 DEF SelfTestInv, TasksKnown
  <2>2. ASSUME ~r, NEW t \in Mine'
        PROVE  t[2] \in sweep.held /\ t[2] >= n
    <3>1. t \in Mine /\ t = <<started, t[2]>> /\ t \in Left(done)
      BY <1>1, <1>6, <2>2 DEF Mine
    <3>2. t[2] \in sweep.held /\ t[2] >= sweep.next
      BY <1>1, <1>4, <2>2, <3>1 DEF SelfTestInv, TasksKnown
    <3>3. t[2] # sweep.next
      BY <1>4, <2>2, <3>1
    <3> QED BY <1>1, <1>2, <3>2, <3>3
  <2> QED BY <1>5, <1>6, <2>1, <2>2 DEF TasksKnown, BeforePing
<1>11. RowsMean'
  BY <1>1, <1>5, <1>6
  DEF SelfTestInv, RowsMean, AllGood, BeforePing, BeforeTasks, BeforeRecur
<1> QED BY <1>7, <1>8, <1>9, <1>10, <1>11 DEF SelfTestInv

LEMMA CheckCancelledKeeps ==
  ASSUME SelfTestInv, CheckCancelled
  PROVE  SelfTestInv'
<1> DEFINE good == sweep.cancelled >= 1
<1>1. /\ TypeOK /\ sweep \in Sweeps /\ sweep.at = "cancel" /\ sweep.next > Tasks
      /\ sweep.held \subseteq 1..Tasks /\ sweep.next \in Nat /\ Tasks \in Nat
  BY Types, BoundsAssumption DEF SelfTestInv, CheckCancelled, At, Sweeps
<1>2. /\ sweep' \in Sweeps /\ sweep'.at = "probing" /\ sweep'.checks = sweep.checks + 1
      /\ sweep'.held = sweep.held /\ sweep'.heard = sweep.heard
      /\ sweep'.verdict = sweep.verdict /\ sweep'.refused = sweep.refused
  BY <1>1, MadeFits DEF CheckCancelled, Point
<1>3. Recorded(FALSE, <<good>>) /\ UNCHANGED <<fired, data, depth, chain, tasks, started, foreign>>
  BY DEF CheckCancelled
<1>4. good \in BOOLEAN
  OBVIOUS
<1> HIDE DEF good
<1>5. /\ rows' \in Seq(Row) /\ Len(rows') = sweep.checks + 1
      /\ \A i \in DOMAIN rows' : rows'[i].of = started
      /\ AllGood' => AllGood
  BY <1>1, <1>3, <1>4, RecordedRow
<1>6. TypeOK'
  BY <1>2, <1>3, <1>5 DEF SelfTestInv, TypeOK, Sweeps, Point, Row
<1>7. OwnRows' /\ Counted'
  BY <1>1, <1>2, <1>3, <1>5 DEF SelfTestInv, OwnRows, Counted
<1>8. LoopsInRange'
  BY <1>2 DEF LoopsInRange, BeforePing, BeforeTasks
<1>9. TasksKnown'
  <2>1. \A t \in tasks : t[1] <= started
    BY DEF SelfTestInv, TasksKnown
  <2>2. ASSUME ~sweep.refused
        PROVE  Mine = {}
    <3>1. \A t \in Mine : t[2] \in sweep.held /\ t[2] >= sweep.next
      BY <1>1, <2>2 DEF SelfTestInv, TasksKnown
    <3>2. \A t \in Mine : t[2] \in 1..Tasks /\ t[2] > Tasks
      BY <1>1, <3>1
    <3> QED BY <1>1, <3>2
  <2> QED BY <1>2, <1>3, <2>1, <2>2 DEF TasksKnown, Mine, BeforePing
<1>10. RowsMean'
  BY <1>1, <1>2, <1>3, <1>5
  DEF SelfTestInv, RowsMean, BeforePing, BeforeTasks, BeforeRecur
<1> QED BY <1>6, <1>7, <1>8, <1>9, <1>10 DEF SelfTestInv

LEMMA ProbeKeeps ==
  ASSUME SelfTestInv, NEW blocked \in BOOLEAN, Probe(blocked)
  PROVE  SelfTestInv'
<1>1. TypeOK /\ sweep \in Sweeps /\ sweep.at = "probing"
  BY Types DEF SelfTestInv, Probe, At
<1>2. /\ sweep' \in Sweeps /\ sweep'.at = "probed" /\ sweep'.checks = sweep.checks + 1
      /\ sweep'.held = sweep.held /\ sweep'.heard = sweep.heard
      /\ sweep'.verdict = sweep.verdict /\ sweep'.refused = sweep.refused
  BY <1>1, MadeFits DEF Probe, Point
<1>3. /\ rows' \in Seq(Row) /\ Len(rows') = sweep.checks + 1
      /\ \A i \in DOMAIN rows' : rows'[i].of = started
      /\ AllGood' => AllGood
  BY <1>1, RecordedRow DEF Probe
<1>4. UNCHANGED <<fired, data, depth, chain, tasks, started, foreign>>
  BY DEF Probe
<1>5. TypeOK'
  BY <1>2, <1>3, <1>4 DEF SelfTestInv, TypeOK, Sweeps, Point, Row
<1>6. OwnRows' /\ Counted'
  BY <1>1, <1>2, <1>3, <1>4 DEF SelfTestInv, OwnRows, Counted
<1>7. LoopsInRange'
  BY <1>2 DEF LoopsInRange, BeforePing, BeforeTasks
<1>8. TasksKnown'
  BY <1>1, <1>2, <1>4 DEF SelfTestInv, TasksKnown, Mine, BeforePing
<1>9. RowsMean'
  BY <1>1, <1>2, <1>3, <1>4 DEF SelfTestInv, RowsMean, BeforePing, BeforeTasks, BeforeRecur
<1> QED BY <1>5, <1>6, <1>7, <1>8, <1>9 DEF SelfTestInv

LEMMA EmitRecurKeeps ==
  ASSUME SelfTestInv, EmitRecur
  PROVE  SelfTestInv'
<1>1. TypeOK /\ sweep \in Sweeps /\ sweep.at = "probed" /\ chain = <<>>
  BY Types DEF SelfTestInv, EmitRecur, At
<1>2. /\ sweep' \in Sweeps /\ sweep'.at = "recurring" /\ sweep'.checks = sweep.checks
      /\ sweep'.held = sweep.held /\ sweep'.heard = sweep.heard
      /\ sweep'.verdict = sweep.verdict /\ sweep'.refused = sweep.refused
  <2>1. [sweep EXCEPT !.at = "recurring", !.due = TRUE] \in Sweeps
    BY <1>1 DEF Sweeps, Point
  <2> QED BY <1>1, <2>1 DEF EmitRecur, Sweeps
<1>3. depth' = 0 /\ UNCHANGED <<rows, fired, data, chain, tasks, started, foreign>>
  BY DEF EmitRecur
<1>4. TypeOK'
  BY <1>2, <1>3 DEF SelfTestInv, TypeOK, Sweeps, Point
<1>5. OwnRows' /\ Counted'
  BY <1>1, <1>2, <1>3 DEF SelfTestInv, OwnRows, Counted
<1>6. LoopsInRange'
  BY <1>2 DEF LoopsInRange, BeforePing, BeforeTasks
<1>7. TasksKnown'
  BY <1>1, <1>2, <1>3 DEF SelfTestInv, TasksKnown, Mine, BeforePing
<1>8. RowsMean'
  BY <1>1, <1>2, <1>3
  DEF SelfTestInv, RowsMean, AllGood, BeforePing, BeforeTasks, BeforeRecur
<1> QED BY <1>4, <1>5, <1>6, <1>7, <1>8 DEF SelfTestInv

LEMMA ProbeRecurKeeps ==
  ASSUME SelfTestInv, ProbeRecur
  PROVE  SelfTestInv'
<1> DEFINE good == depth \in 1..4
           m == Made(1, "extreme")
           n == Tasks + 1
<1>1. TypeOK /\ sweep \in Sweeps /\ sweep.at = "recurring"
  BY Types DEF SelfTestInv, ProbeRecur, At
<1>2. /\ sweep' \in Sweeps /\ sweep'.at = "extreme" /\ sweep'.checks = sweep.checks + 1
      /\ sweep'.next = n /\ sweep'.held = sweep.held /\ sweep'.heard = sweep.heard
      /\ sweep'.verdict = sweep.verdict /\ sweep'.refused = sweep.refused
  <2>1. m \in Sweeps /\ sweep' = [m EXCEPT !.due = FALSE, !.next = n]
    BY <1>1, MadeFits DEF ProbeRecur, Point
  <2>2. m.at = "extreme" /\ m.checks = sweep.checks + 1
        /\ m.held = sweep.held /\ m.heard = sweep.heard
        /\ m.verdict = sweep.verdict /\ m.refused = sweep.refused
    BY <1>1, MadeFits DEF Point
  <2>3. n \in 1..(Tasks + 3)
    BY BoundsAssumption
  <2> HIDE DEF m, n
  <2>4. [m EXCEPT !.due = FALSE, !.next = n] \in Sweeps
    BY <2>1, <2>3 DEF Sweeps
  <2> QED BY <2>1, <2>2, <2>4 DEF Sweeps
<1>3. Recorded(TRUE, <<good>>) /\ UNCHANGED <<fired, data, depth, chain, tasks, started, foreign>>
  BY DEF ProbeRecur
<1>4. good => depth # 0
  OBVIOUS
<1>5. good \in BOOLEAN
  OBVIOUS
<1> HIDE DEF good
<1>6. /\ rows' \in Seq(Row) /\ Len(rows') = sweep.checks + 1
      /\ \A i \in DOMAIN rows' : rows'[i].of = started
      /\ AllGood' => AllGood /\ depth # 0
  BY <1>1, <1>3, <1>4, <1>5, RecordedRow
<1>7. TypeOK'
  BY <1>2, <1>3, <1>6 DEF SelfTestInv, TypeOK, Sweeps, Point, Row
<1>8. OwnRows' /\ Counted'
  BY <1>1, <1>2, <1>3, <1>6 DEF SelfTestInv, OwnRows, Counted
<1>9. LoopsInRange'
  BY <1>2 DEF LoopsInRange, BeforePing, BeforeTasks
<1>10. TasksKnown'
  BY <1>1, <1>2, <1>3 DEF SelfTestInv, TasksKnown, Mine, BeforePing
<1>11. RowsMean'
  BY <1>1, <1>2, <1>3, <1>6
  DEF SelfTestInv, RowsMean, BeforePing, BeforeTasks, BeforeRecur
<1> QED BY <1>7, <1>8, <1>9, <1>10, <1>11 DEF SelfTestInv

LEMMA ScheduleExtremeKeeps ==
  ASSUME SelfTestInv, NEW accepted \in BOOLEAN, ScheduleExtreme(accepted)
  PROVE  SelfTestInv'
<1> DEFINE p == IF accepted THEN "undo" ELSE AfterExtreme
           m == Made(1, p)
           n == IF accepted THEN sweep.next ELSE sweep.next + 1
<1>1. /\ TypeOK /\ sweep \in Sweeps /\ sweep.at = "extreme" /\ started \in 1..MaxSweeps
      /\ sweep.next \in {Tasks + 1, Tasks + 2} /\ Tasks \in Nat
      /\ \A t \in tasks : t \in (1..MaxSweeps) \X (1..(Tasks + 2))
  <2>1. TypeOK /\ sweep \in Sweeps /\ sweep.at = "extreme"
    BY Types DEF SelfTestInv, ScheduleExtreme, At
  <2> QED BY <2>1, BoundsAssumption DEF SelfTestInv, TypeOK, Counted, LoopsInRange
<1>2. /\ p \in {"undo", "report", "extreme"} /\ n \in 1..(Tasks + 3)
      /\ p \in {"undo", "extreme"} => n \in {Tasks + 1, Tasks + 2}
      /\ p = "undo" => accepted
      /\ accepted => p = "undo"
  BY <1>1 DEF AfterExtreme
<1>3. /\ sweep' \in Sweeps /\ sweep'.at = p /\ sweep'.checks = sweep.checks + 1
      /\ sweep'.next = n /\ sweep'.held = sweep.held /\ sweep'.heard = sweep.heard
      /\ sweep'.verdict = sweep.verdict /\ sweep'.refused = sweep.refused
  <2>1. /\ m \in Sweeps /\ m.at = p /\ m.checks = sweep.checks + 1 /\ m.next = sweep.next
        /\ m.held = sweep.held /\ m.heard = sweep.heard
        /\ m.verdict = sweep.verdict /\ m.refused = sweep.refused
    <3>1. p \in Point
      BY <1>2 DEF Point
    <3> HIDE DEF p
    <3> QED BY <1>1, <3>1, MadeFits
  <2>2. sweep' = m \/ sweep' = [m EXCEPT !.next = n]
    BY <2>1 DEF ScheduleExtreme
  <2>3. sweep' = m => n = sweep.next \/ sweep' = [m EXCEPT !.next = n]
    BY <2>1 DEF ScheduleExtreme
  <2> HIDE DEF m, n, p
  <2>4. [m EXCEPT !.next = n] \in Sweeps
    BY <2>1, <1>2 DEF Sweeps
  <2> QED BY <2>1, <2>2, <2>3, <2>4 DEF Sweeps
<1>4. /\ Recorded(TRUE, <<TRUE>>)
      /\ tasks' = IF accepted THEN tasks \cup {<<started, sweep.next>>} ELSE tasks
      /\ UNCHANGED <<fired, data, depth, chain, started, foreign>>
  BY DEF ScheduleExtreme
<1>5. accepted => n = sweep.next
  OBVIOUS
<1> HIDE DEF p, n, m
<1>6. /\ rows' \in Seq(Row) /\ Len(rows') = sweep.checks + 1
      /\ \A i \in DOMAIN rows' : rows'[i].of = started
      /\ AllGood' => AllGood
  BY <1>1, <1>4, RecordedRow
<1>7. TypeOK'
  <2>1. tasks' \subseteq (1..MaxSweeps) \X (1..(Tasks + 2))
    BY <1>1, <1>4
  <2> QED BY <1>3, <1>4, <1>6, <2>1 DEF SelfTestInv, TypeOK, Sweeps, Point, Row
<1>8. OwnRows' /\ Counted'
  BY <1>1, <1>3, <1>4, <1>6 DEF SelfTestInv, OwnRows, Counted
<1>9. LoopsInRange'
  BY <1>2, <1>3 DEF LoopsInRange, BeforePing, BeforeTasks
<1>10. TasksKnown'
  <2>1. \A t \in tasks' : t[1] <= started
    BY <1>1, <1>4 DEF SelfTestInv, TasksKnown
  <2>2. ASSUME ~sweep.refused
        PROVE  \A t \in Mine' : accepted /\ t[2] = n
    <3>1. Mine = {}
      BY <1>1, <2>2 DEF SelfTestInv, TasksKnown
    <3> QED BY <1>1, <1>4, <1>5, <3>1 DEF Mine
  <2> QED BY <1>2, <1>3, <1>4, <2>1, <2>2 DEF TasksKnown, BeforePing
<1>11. RowsMean'
  BY <1>1, <1>2, <1>3, <1>6
  DEF SelfTestInv, RowsMean, BeforePing, BeforeTasks, BeforeRecur
<1> QED BY <1>7, <1>8, <1>9, <1>10, <1>11 DEF SelfTestInv

LEMMA CancelExtremeKeeps ==
  ASSUME SelfTestInv, NEW done \in BOOLEAN, CancelExtreme(done)
  PROVE  SelfTestInv'
<1> DEFINE p == AfterExtreme
           n == sweep.next + 1
           r == Refused(done)
<1>1. /\ TypeOK /\ sweep \in Sweeps /\ sweep.at = "undo" /\ started \in 1..MaxSweeps
      /\ sweep.next \in {Tasks + 1, Tasks + 2} /\ Tasks \in Nat
      /\ \A t \in tasks : t \in (1..MaxSweeps) \X (1..(Tasks + 2))
  <2>1. TypeOK /\ sweep \in Sweeps /\ sweep.at = "undo"
    BY Types DEF SelfTestInv, CancelExtreme, At
  <2> QED BY <2>1, BoundsAssumption DEF SelfTestInv, TypeOK, Counted, LoopsInRange
<1>2. /\ p \in {"report", "extreme"} /\ n \in 1..(Tasks + 3)
      /\ p = "extreme" => n \in {Tasks + 1, Tasks + 2}
  BY <1>1 DEF AfterExtreme
<1>3. r \in BOOLEAN /\ (~r => ~sweep.refused /\ <<started, sweep.next>> \notin Left(done))
  <2>1. sweep.refused \in BOOLEAN
    BY <1>1 DEF Sweeps
  <2>2. (<<started, sweep.next>> \in Left(done)) \in BOOLEAN
    OBVIOUS
  <2> QED BY <2>1, <2>2 DEF Refused
<1>4. /\ sweep' \in Sweeps /\ sweep'.at = p /\ sweep'.checks = sweep.checks
      /\ sweep'.next = n /\ sweep'.held = sweep.held /\ sweep'.heard = sweep.heard
      /\ sweep'.verdict = sweep.verdict /\ sweep'.refused = r
  <2>1. sweep' = [sweep EXCEPT !.at = p, !.next = n, !.refused = r]
    BY DEF CancelExtreme
  <2>2. p \in Point
    BY <1>2 DEF Point
  <2> HIDE DEF n, p, r
  <2>3. [sweep EXCEPT !.at = p, !.next = n, !.refused = r] \in Sweeps
    BY <1>1, <1>2, <1>3, <2>2 DEF Sweeps
  <2> QED BY <1>1, <2>1, <2>3 DEF Sweeps
<1>5. /\ tasks' = Left(done) /\ tasks' \subseteq tasks
      /\ UNCHANGED <<rows, fired, data, depth, chain, started, foreign>>
  BY DEF CancelExtreme, Left
<1> HIDE DEF p, n, r
<1>6. TypeOK'
  <2>1. tasks' \subseteq (1..MaxSweeps) \X (1..(Tasks + 2))
    BY <1>1, <1>5
  <2> QED BY <1>4, <1>5, <2>1 DEF SelfTestInv, TypeOK, Sweeps, Point
<1>7. OwnRows' /\ Counted'
  BY <1>1, <1>4, <1>5 DEF SelfTestInv, OwnRows, Counted
<1>8. LoopsInRange'
  BY <1>2, <1>4 DEF LoopsInRange, BeforePing, BeforeTasks
<1>9. TasksKnown'
  <2>1. \A t \in tasks' : t[1] <= started
    BY <1>5 DEF SelfTestInv, TasksKnown
  <2>2. ASSUME ~r, NEW t \in Mine'
        PROVE  FALSE
    <3>1. t \in Mine /\ t = <<started, t[2]>> /\ t \in Left(done)
      BY <1>1, <1>5, <2>2 DEF Mine
    <3>2. t[2] = sweep.next
      BY <1>1, <1>3, <2>2, <3>1 DEF SelfTestInv, TasksKnown
    <3> QED BY <1>3, <2>2, <3>1, <3>2
  <2> QED BY <1>2, <1>4, <1>5, <2>1, <2>2 DEF TasksKnown, BeforePing
<1>10. RowsMean'
  BY <1>1, <1>2, <1>4, <1>5
  DEF SelfTestInv, RowsMean, AllGood, BeforePing, BeforeTasks, BeforeRecur
<1> QED BY <1>6, <1>7, <1>8, <1>9, <1>10 DEF SelfTestInv

LEMMA ReportKeeps ==
  ASSUME SelfTestInv, Report
  PROVE  SelfTestInv'
<1>1. TypeOK /\ sweep \in Sweeps /\ sweep.at = "report"
  BY Types DEF SelfTestInv, Report, At
<1>2. Verdict \in {"green", "failed", "vulnerable"} /\ (Verdict = "green" => AllGood)
  BY DEF Verdict, AllGood
<1>3. /\ sweep' \in Sweeps /\ sweep'.at = "paused" /\ sweep'.checks = sweep.checks
      /\ sweep'.held = sweep.held /\ sweep'.heard = sweep.heard
      /\ sweep'.verdict = Verdict /\ sweep'.refused = sweep.refused
  <2>1. [sweep EXCEPT !.at = "paused", !.verdict = Verdict] \in Sweeps
    BY <1>1, <1>2 DEF Sweeps, Point
  <2> QED BY <1>1, <2>1 DEF Report, Sweeps
<1>4. UNCHANGED <<rows, fired, data, depth, chain, tasks, started, foreign>>
  BY DEF Report
<1>5. TypeOK'
  BY <1>3, <1>4 DEF SelfTestInv, TypeOK, Sweeps, Point
<1>6. OwnRows' /\ Counted'
  BY <1>1, <1>3, <1>4 DEF SelfTestInv, OwnRows, Counted
<1>7. LoopsInRange'
  BY <1>3 DEF LoopsInRange, BeforePing, BeforeTasks
<1>8. TasksKnown'
  BY <1>1, <1>3, <1>4 DEF SelfTestInv, TasksKnown, Mine, BeforePing
<1>9. RowsMean'
  <2>1. AllGood' <=> AllGood
    BY <1>4 DEF AllGood
  <2> QED BY <1>1, <1>2, <1>3, <1>4, <2>1
          DEF SelfTestInv, RowsMean, BeforePing, BeforeTasks, BeforeRecur
<1> QED BY <1>5, <1>6, <1>7, <1>8, <1>9 DEF SelfTestInv

\* The sweep ends, by returning or by a trap, and its locals with it.
LEMMA EndsKeeps ==
  ASSUME SelfTestInv, sweep' = Idle, chain' \in Seq(Nested),
         UNCHANGED <<rows, fired, data, depth, tasks, started, foreign>>
  PROVE  SelfTestInv'
<1>1. /\ sweep' \in Sweeps /\ sweep'.at = "idle" /\ sweep'.next = 1 /\ sweep'.held = {}
      /\ sweep'.cancelled = 0 /\ sweep'.verdict = "none"
  BY BoundsAssumption DEF Idle, Sweeps, Point
<1>2. TypeOK'
  BY <1>1 DEF SelfTestInv, TypeOK, Sweeps, Point, Nested
<1>3. OwnRows' /\ Counted' /\ LoopsInRange'
  BY <1>1, BoundsAssumption DEF OwnRows, Counted, LoopsInRange, BeforePing, BeforeTasks
<1>4. TasksKnown' /\ RowsMean'
  BY <1>1 DEF SelfTestInv, TasksKnown, Mine, RowsMean, BeforePing, BeforeTasks, BeforeRecur
<1> QED BY <1>2, <1>3, <1>4 DEF SelfTestInv

----------------------------------------------------------------------------
(* The listeners and the host. *)

\* A listener changes the globals, and is noted; the locals stay.
LEMMA HearingKeeps ==
  ASSUME SelfTestInv, NEW d, NEW h,
         sweep' = sweep \/ sweep' = [sweep EXCEPT !.heard = h] \/ sweep' = [sweep EXCEPT !.due = d, !.heard = h],
         d \in BOOLEAN, h \subseteq {"ping", "recur"}, sweep.heard \subseteq h
  PROVE  /\ sweep' \in Sweeps /\ sweep'.at = sweep.at /\ sweep'.checks = sweep.checks
         /\ sweep'.next = sweep.next /\ sweep'.held = sweep.held
         /\ sweep'.cancelled = sweep.cancelled /\ sweep'.verdict = sweep.verdict
         /\ sweep'.refused = sweep.refused /\ sweep.heard \subseteq sweep'.heard
         /\ sweep' # sweep => sweep'.heard = h
<1>1. sweep \in Sweeps
  BY Types DEF SelfTestInv
<1>2. [sweep EXCEPT !.heard = h] \in Sweeps
  BY <1>1 DEF Sweeps
<1>3. [sweep EXCEPT !.due = d, !.heard = h] \in Sweeps
  BY <1>1 DEF Sweeps
<1> QED BY <1>1, <1>2, <1>3 DEF Sweeps

\* What it takes for such a step to keep the invariant.
LEMMA ListenerKeeps ==
  ASSUME SelfTestInv,
         sweep' \in Sweeps, sweep'.at = sweep.at, sweep'.checks = sweep.checks,
         sweep'.next = sweep.next, sweep'.held = sweep.held,
         sweep'.cancelled = sweep.cancelled, sweep'.verdict = sweep.verdict,
         sweep'.refused = sweep.refused, sweep.heard \subseteq sweep'.heard,
         UNCHANGED <<rows, tasks, started>>,
         fired' \in BOOLEAN, data' \in Data \cup {"null"}, depth' \in Nat,
         chain' \in Seq(Nested), foreign' \in 0..MaxForeign,
         sweep.at = "pinged" /\ fired' => fired \/ "ping" \in sweep'.heard,
         sweep.at = "recurring" /\ (depth' # 0 \/ chain' # <<>>) =>
           depth # 0 \/ chain # <<>> \/ "recur" \in sweep'.heard
  PROVE  SelfTestInv'
<1>1. TypeOK'
  BY DEF SelfTestInv, TypeOK, Sweeps, Point, Nested
<1>2. OwnRows' /\ Counted' /\ LoopsInRange'
  BY DEF SelfTestInv, OwnRows, Counted, LoopsInRange
<1>3. TasksKnown'
  BY DEF SelfTestInv, TasksKnown, Mine
<1>4. RowsMean'
  <2>1. AllGood' <=> AllGood
    BY DEF AllGood
  <2> QED BY <2>1 DEF SelfTestInv, RowsMean
<1> QED BY <1>1, <1>2, <1>3, <1>4 DEF SelfTestInv

LEMMA PingKeeps ==
  ASSUME SelfTestInv, DeliverPing \/ \E d \in Data : ForeignPing(d)
  PROVE  SelfTestInv'
<1> DEFINE h == Heard("ping", "pinged")
<1>1. sweep \in Sweeps /\ TypeOK
  BY Types DEF SelfTestInv
<1>2. h \subseteq {"ping", "recur"} /\ sweep.heard \subseteq h /\ (sweep.at = "pinged" => "ping" \in h)
  BY <1>1 DEF Heard, Sweeps
<1>3. sweep' = [sweep EXCEPT !.heard = h] \/ sweep' = [sweep EXCEPT !.due = FALSE, !.heard = h]
  BY DEF DeliverPing, ForeignPing
<1>4. /\ fired' = TRUE /\ data' \in Data /\ foreign' \in 0..MaxForeign
      /\ UNCHANGED <<rows, depth, chain, tasks, started>>
  BY <1>1, BoundsAssumption DEF DeliverPing, ForeignPing, HearPing, Data, TypeOK
<1>5. sweep'.heard = h
  BY <1>1, <1>3 DEF Sweeps
<1> HIDE DEF h
<1>6. FALSE \in BOOLEAN
  OBVIOUS
<1> QED BY <1>1, <1>2, <1>3, <1>4, <1>5, <1>6, HearingKeeps, ListenerKeeps, Types DEF TypeOK

\* The recur listener runs on top of an activation of itself, or is noted.
LEMMA RecurKeeps ==
  ASSUME SelfTestInv, NEW n \in Int, NEW below \in Seq(Nested),
         HearRecur(n, below), UNCHANGED <<rows, fired, data, tasks, started>>,
         foreign' \in 0..MaxForeign,
         NEW d \in BOOLEAN,
         \/ sweep' = sweep /\ chain # <<>>
         \/ sweep' = [sweep EXCEPT !.heard = Heard("recur", "recurring")]
         \/ sweep' = [sweep EXCEPT !.due = d, !.heard = Heard("recur", "recurring")]
  PROVE  SelfTestInv'
<1> DEFINE h == Heard("recur", "recurring")
<1>1. sweep \in Sweeps /\ TypeOK
  BY Types DEF SelfTestInv
<1>2. h \subseteq {"ping", "recur"} /\ sweep.heard \subseteq h
      /\ (sweep.at = "recurring" => "recur" \in h)
  BY <1>1 DEF Heard, Sweeps
<1>3. depth' \in Nat /\ chain' \in Seq(Nested)
  <2> DEFINE e == [n |-> NextNumber(n), due |-> TRUE]
  <2>1. e \in Nested
    BY DEF NextNumber, Nested
  <2>2. depth' = depth + 1 /\ chain' = IF n < 3 THEN Append(below, e) ELSE below
    BY DEF HearRecur
  <2> HIDE DEF e
  <2>3. chain' \in Seq(Nested)
    BY <2>1, <2>2
  <2> QED BY <1>1, <2>2, <2>3 DEF TypeOK
<1>4. \/ sweep' = sweep /\ chain # <<>>
      \/ sweep'.heard = h
  BY <1>1 DEF Sweeps
<1>5. sweep' = sweep \/ sweep' = [sweep EXCEPT !.heard = h] \/ sweep' = [sweep EXCEPT !.due = d, !.heard = h]
  OBVIOUS
<1> HIDE DEF h
<1> QED BY <1>1, <1>2, <1>3, <1>4, <1>5, HearingKeeps, ListenerKeeps, Types DEF TypeOK

\* Some activations of the recur listener are left.
LEMMA ChainFits ==
  ASSUME TypeOK, NEW k \in 0..(Len(chain) - 1)
  PROVE  SubSeq(chain, 1, k) \in Seq(Nested) /\ chain # <<>>
<1>1. chain \in Seq(Nested) /\ Len(chain) \in Nat
  BY Types
<1>2. chain # <<>>
  BY <1>1
<1> QED BY <1>1, <1>2, SubSeqProperties

LEMMA UnwindKeeps ==
  ASSUME SelfTestInv, NEW k \in 0..(Len(chain) - 1), chain' = SubSeq(chain, 1, k),
         UNCHANGED <<rows, fired, data, depth, sweep, tasks, started, foreign>>
  PROVE  SelfTestInv'
<1>1. sweep \in Sweeps /\ TypeOK
  BY Types DEF SelfTestInv
<1>2. chain' \in Seq(Nested) /\ chain # <<>>
  BY <1>1, ChainFits
<1> QED BY <1>1, <1>2, ListenerKeeps, Types DEF TypeOK

LEMMA ListenersKeep ==
  ASSUME SelfTestInv,
         \/ DeliverPing \/ DeliverRecur \/ DeliverNested \/ LeaveListener \/ ForeignBad
         \/ \E d \in Data : ForeignPing(d)
         \/ \E n \in Numbers : ForeignRecur(n)
  PROVE  SelfTestInv'
<1>1. /\ sweep \in Sweeps /\ TypeOK /\ chain \in Seq(Nested)
      /\ foreign \in 0..MaxForeign /\ Numbers \subseteq Int /\ MaxForeign \in Nat
      /\ FALSE \in BOOLEAN /\ 0 \in Int
  BY Types, BoundsAssumption DEF SelfTestInv, TypeOK
<1>2. CASE DeliverPing \/ \E d \in Data : ForeignPing(d)
  BY <1>2, PingKeeps
<1>3. CASE DeliverRecur
  BY <1>1, <1>3, RecurKeeps DEF DeliverRecur
<1>4. CASE DeliverNested
  <2>1. chain # <<>> /\ Len(chain) \in DOMAIN chain /\ Last \in Nested
    BY <1>1, <1>4 DEF DeliverNested, Last
  <2>2. [chain EXCEPT ![Len(chain)].due = FALSE] \in Seq(Nested)
    <3> DEFINE e == [Last EXCEPT !.due = FALSE]
    <3>1. e \in Nested
      BY <2>1 DEF Nested
    <3>2. [chain EXCEPT ![Len(chain)].due = FALSE] = [chain EXCEPT ![Len(chain)] = e]
      BY <2>1 DEF Last
    <3> HIDE DEF e
    <3>3. [chain EXCEPT ![Len(chain)] = e] \in Seq(Nested)
      BY <1>1, <2>1, <3>1
    <3> QED BY <3>2, <3>3
  <2>3. Last.n \in Int
    BY <2>1 DEF Nested
  <2> QED BY <1>1, <1>4, <2>1, <2>2, <2>3, RecurKeeps DEF DeliverNested
<1>5. CASE \E n \in Numbers : ForeignRecur(n)
  <2>1. PICK n \in Numbers : ForeignRecur(n)
    BY <1>5
  <2>2. n \in Int /\ foreign' \in 0..MaxForeign
    BY <1>1, <2>1 DEF ForeignRecur
  <2> QED BY <1>1, <2>1, <2>2, RecurKeeps DEF ForeignRecur
<1>6. CASE ForeignBad
  <2> DEFINE h == Heard("recur", "recurring")
  <2>1. h \subseteq {"ping", "recur"} /\ sweep.heard \subseteq h
        /\ (sweep.at = "recurring" => "recur" \in h)
    BY <1>1 DEF Heard, Sweeps
  <2>2. sweep' = [sweep EXCEPT !.heard = h] /\ sweep'.heard = h
    BY <1>1, <1>6 DEF ForeignBad, Sweeps
  <2>3. depth' \in Nat /\ foreign' \in 0..MaxForeign /\ UNCHANGED <<rows, fired, data, chain, tasks, started>>
    BY <1>1, <1>6 DEF ForeignBad, TypeOK
  <2> HIDE DEF h
  <2>4. FALSE \in BOOLEAN
    OBVIOUS
  <2> QED BY <1>1, <2>1, <2>2, <2>3, <2>4, HearingKeeps, ListenerKeeps, Types DEF TypeOK
<1>7. CASE LeaveListener
  <2>1. Len(chain) - 1 \in 0..(Len(chain) - 1)
    BY <1>1, <1>7 DEF LeaveListener
  <2> QED BY <1>7, <2>1, UnwindKeeps DEF LeaveListener
<1> QED BY <1>2, <1>3, <1>4, <1>5, <1>6, <1>7

LEMMA TrapKeeps ==
  ASSUME SelfTestInv, Trap
  PROVE  SelfTestInv'
<1>1. CASE \E k \in 0..(Len(chain) - 1) : chain' = SubSeq(chain, 1, k) /\ sweep' = sweep
  BY <1>1, UnwindKeeps DEF Trap
<1>2. CASE sweep.at # "idle" /\ chain' = <<>> /\ sweep' = Idle
  <2>1. chain' \in Seq(Nested)
    BY <1>2
  <2> QED BY <1>2, <2>1, EndsKeeps DEF Trap
<1> QED BY <1>1, <1>2 DEF Trap

LEMMA TaskEndKeeps ==
  ASSUME SelfTestInv, NEW t \in tasks, TaskEnds(t)
  PROVE  SelfTestInv'
<1>1. /\ tasks' \subseteq tasks /\ UNCHANGED <<rows, fired, data, depth, sweep, chain, started, foreign>>
  BY DEF TaskEnds
<1>2. TypeOK'
  BY <1>1 DEF SelfTestInv, TypeOK
<1>3. OwnRows' /\ Counted' /\ LoopsInRange'
  BY <1>1 DEF SelfTestInv, OwnRows, Counted, LoopsInRange
<1>4. TasksKnown'
  <2>1. Mine' \subseteq Mine
    BY <1>1 DEF Mine
  <2> QED BY <1>1, <2>1 DEF SelfTestInv, TasksKnown
<1>5. RowsMean'
  BY <1>1 DEF SelfTestInv, RowsMean, AllGood
<1> QED BY <1>2, <1>3, <1>4, <1>5 DEF SelfTestInv

----------------------------------------------------------------------------
LEMMA SelfTestInitial ==
  ASSUME Init
  PROVE  SelfTestInv
<1>1. Idle \in Sweeps /\ Idle.at = "idle" /\ Idle.verdict = "none" /\ Idle.next = 1
      /\ Idle.held = {} /\ Idle.cancelled = 0
  BY BoundsAssumption DEF Idle, Sweeps, Point
<1>2. TypeOK
  <2>1. rows \in Seq(Row) /\ chain \in Seq(Nested)
    BY DEF Init
  <2>2. 0 \in 0..MaxSweeps /\ 0 \in 0..MaxForeign
    BY BoundsAssumption
  <2>3. sweep \in Sweeps
    BY <1>1 DEF Init
  <2> QED BY <2>1, <2>2, <2>3 DEF Init, TypeOK, Sweeps, Point, Row, Nested
<1>3. OwnRows /\ Counted /\ LoopsInRange /\ TasksKnown /\ RowsMean
  BY <1>1, BoundsAssumption
  DEF Init, OwnRows, Counted, LoopsInRange, TasksKnown, RowsMean, BeforePing, BeforeTasks,
      BeforeRecur
<1> QED BY <1>2, <1>3 DEF SelfTestInv

LEMMA SelfTestInductive ==
  ASSUME SelfTestInv, [Next]_vars
  PROVE  SelfTestInv'
<1>1. CASE StartSweep \/ EmitPing \/ CheckPing \/ CheckHandles \/ CheckCancelled
           \/ EmitRecur \/ ProbeRecur \/ Report
  BY <1>1, StartKeeps, EmitPingKeeps, CheckPingKeeps, CheckHandlesKeeps, CheckCancelledKeeps,
     EmitRecurKeeps, ProbeRecurKeeps, ReportKeeps
<1>2. CASE LeaveSweep
  BY <1>2, Types, EndsKeeps DEF LeaveSweep, SelfTestInv
<1>3. ASSUME NEW answer \in BOOLEAN,
             \/ Ask(answer) \/ Schedule(answer) \/ Cancel(answer) \/ Probe(answer)
             \/ ScheduleExtreme(answer) \/ CancelExtreme(answer)
      PROVE  SelfTestInv'
  BY <1>3, AskKeeps, ScheduleKeeps, CancelKeeps, ProbeKeeps, ScheduleExtremeKeeps,
     CancelExtremeKeeps
<1>4. CASE \/ DeliverPing \/ DeliverRecur \/ DeliverNested \/ LeaveListener \/ ForeignBad
           \/ \E d \in Data : ForeignPing(d)
           \/ \E n \in Numbers : ForeignRecur(n)
  BY <1>4, ListenersKeep
<1>5. CASE Trap \/ \E t \in tasks : TaskEnds(t)
  BY <1>5, TrapKeeps, TaskEndKeeps
<1>6. CASE UNCHANGED vars
  BY <1>6
  DEF vars, SelfTestInv, TypeOK, OwnRows, Counted, LoopsInRange, TasksKnown, Mine, RowsMean,
      AllGood
<1> QED BY <1>1, <1>2, <1>3, <1>4, <1>5, <1>6 DEF Next

\* What the sweep, its rows, its listeners' globals and the host's tasks have to
\* do with each other holds at every syscall of run_full_test.
THEOREM SelfTestCorrect == Spec => []SelfTestInv
<1>1. Init => SelfTestInv
  BY SelfTestInitial
<1>2. SelfTestInv /\ [Next]_vars => SelfTestInv'
  BY SelfTestInductive
<1> QED BY <1>1, <1>2, PTL DEF Spec

\* Globals, locals and tasks keep their shape.
THEOREM SelfTestTypes == Spec => []TypeOK
<1>1. SelfTestInv => TypeOK
  BY DEF SelfTestInv
<1> QED BY <1>1, SelfTestCorrect, PTL

\* A sweep counts its own checks, each once, also after one that trapped.
THEOREM RowsAreOwn == Spec => []OwnRows
<1>1. SelfTestInv => OwnRows
  BY DEF SelfTestInv
<1> QED BY <1>1, SelfTestCorrect, PTL

\* "ALL GREEN" needs both listeners within this sweep, and every task accepted.
THEOREM GreenMeansWorked == Spec => []GreenIsEarned
<1>1. SelfTestInv => GreenIsEarned
  <2> SUFFICES ASSUME SelfTestInv, sweep.verdict = "green"
               PROVE  sweep.heard = {"ping", "recur"} /\ sweep.held = 1..Tasks
    BY DEF GreenIsEarned
  <2>1. sweep.at = "paused" /\ AllGood
    BY DEF SelfTestInv, RowsMean
  <2>2. sweep.heard \subseteq {"ping", "recur"}
    BY DEF SelfTestInv, TypeOK
  <2> QED BY <2>1, <2>2 DEF SelfTestInv, RowsMean, BeforePing, BeforeTasks, BeforeRecur
<1> QED BY <1>1, SelfTestCorrect, PTL

\* A sweep that reports leaves no task with the host that was not refused.
THEOREM TasksAreCancelled == Spec => []NothingLeft
<1>1. SelfTestInv => NothingLeft
  <2> SUFFICES ASSUME SelfTestInv, sweep.at \in {"report", "paused"}, ~sweep.refused,
                      NEW i \in 1..(Tasks + 2)
               PROVE  <<started, i>> \notin tasks
    BY DEF NothingLeft
  <2>1. Mine = {}
    BY DEF SelfTestInv, TasksKnown
  <2> QED BY <2>1 DEF Mine
<1> QED BY <1>1, SelfTestCorrect, PTL

----------------------------------------------------------------------------
(* Events that emit events come to an end: each activation of the recur       *)
(* listener that is inside its emit has a weight, the runs that emit can still *)
(* cause; what has run and what can still run is paid for by the sweep's event *)
(* and the foreign ones.  The sums of the weights, from below, are a function. *)

Weight(e) == IF e.due THEN 4 - e.n ELSE 0

Sums(s) ==
  /\ s \in [0..Len(chain) -> Nat]
  /\ s[0] = depth
  /\ \A i \in 1..Len(chain) : s[i] = s[i - 1] + Weight(chain[i])
  /\ \A i, j \in 0..Len(chain) : i <= j => s[i] <= s[j]

\* The sweep's own event, while it is due, can cause four runs.
Pending == IF sweep.at = "recurring" /\ sweep.due THEN 4 ELSE 0

Paid(n, total) == total + Pending <= (4 - n) * (1 + foreign)

RunsArePaid ==
  /\ \A i \in DOMAIN chain : chain[i].n <= 3
  /\ \E n \in Numbers \cup {0} : \E s \in [0..Len(chain) -> Nat] :
       n <= 0 /\ Sums(s) /\ Paid(n, s[Len(chain)])

\* A smaller number, and another event, pay for more.
LEMMA MorePays ==
  ASSUME NEW n \in Int, NEW m \in Int, m <= n, n <= 0, NEW k \in Nat
  PROVE  /\ (4 - n) * (1 + k) \in Int /\ (4 - m) * (1 + k) \in Int
         /\ (4 - m) * (1 + (k + 1)) = (4 - m) * (1 + k) + (4 - m)
         /\ (4 - n) * (1 + k) <= (4 - m) * (1 + k)
         /\ 4 <= (4 - n) * (1 + k)
<1>1. (4 - n) * (1 + k) \in Int /\ (4 - m) * (1 + k) \in Int
  OBVIOUS
<1>2. (4 - m) * (1 + (k + 1)) = (4 - m) * (1 + k) + (4 - m)
  OBVIOUS
<1>3. PICK d \in Nat : n = m + d
  <2>1. n - m \in Nat /\ n = m + (n - m)
    OBVIOUS
  <2> QED BY <2>1
<1>4. (4 - m) * (1 + k) = (4 - n) * (1 + k) + d * (1 + k) /\ d * (1 + k) \in Nat
  BY <1>3
<1>5. PICK e \in Nat : 4 - n = 4 + e
  <2>1. 0 - n \in Nat /\ 4 - n = 4 + (0 - n)
    OBVIOUS
  <2> QED BY <2>1
<1>6. (4 - n) * (1 + k) = 4 + e + 4 * k + e * k /\ e * k \in Nat
  BY <1>5
<1>7. (4 - n) * (1 + k) <= (4 - m) * (1 + k)
  BY <1>1, <1>4
<1>8. 4 <= (4 - n) * (1 + k)
  BY <1>1, <1>6
<1> QED BY <1>1, <1>2, <1>7, <1>8

LEMMA WeightIsInt ==
  ASSUME NEW e \in Nested
  PROVE  Weight(e) \in Int
BY DEF Weight, Nested

\* A listener that starts to run with number m on top of the sums s: it has run
\* once, and its emit, if it makes one, is due.
LEMMA HearingSums ==
  ASSUME NEW below \in Seq(Nested), NEW m \in Int, HearRecur(m, below),
         NEW s \in [0..Len(below) -> Nat],
         s[0] = depth,
         \A i \in 1..Len(below) : s[i] = s[i - 1] + Weight(below[i]),
         \A i, j \in 0..Len(below) : i <= j => s[i] <= s[j],
         \A i \in DOMAIN below : below[i].n <= 3,
         depth \in Nat
  PROVE  /\ \A i \in DOMAIN chain' : chain'[i].n <= 3
         /\ \E t \in [0..Len(chain') -> Nat] :
              /\ Sums(t)'
              /\ t[Len(chain')] = s[Len(below)] + (IF m < 3 THEN 4 - m ELSE 1)
<1> DEFINE e == [n |-> NextNumber(m), due |-> TRUE]
           l == Len(below)
<1>1. /\ l \in Nat /\ DOMAIN below = 1..l
      /\ \A i \in 1..l : below[i] \in Nested /\ Weight(below[i]) \in Int
      /\ \A i \in 1..l : i \in 0..l /\ i - 1 \in 0..l
  BY WeightIsInt
<1>2. depth' = depth + 1 /\ chain' = IF m < 3 THEN Append(below, e) ELSE below
  BY DEF HearRecur
<1>3. e \in Nested /\ e.n = m + 1 /\ Weight(e) = 3 - m
  BY DEF NextNumber, Nested, Weight
<1>4. /\ \A i \in 0..l : s[i] \in Nat
      /\ s[0] = depth
      /\ \A i \in 1..l : s[i] = s[i - 1] + Weight(below[i])
      /\ \A i, j \in 0..l : i <= j => s[i] <= s[j]
      /\ \A i \in 1..l : below[i].n <= 3
  BY <1>1
<1>5. l \in 0..l /\ 0 \in 0..l
  BY <1>1
<1>6. l = Len(below)
  OBVIOUS
<1> HIDE DEF e, l
<1>7. CASE m < 3
  <2> DEFINE t == [i \in 0..(l + 1) |-> IF i = l + 1 THEN s[l] + (4 - m) ELSE s[i] + 1]
  <2>1. /\ chain' \in Seq(Nested) /\ Len(chain') = l + 1 /\ chain'[l + 1] = e
        /\ DOMAIN chain' = 1..(l + 1)
        /\ \A i \in 1..l : chain'[i] = below[i]
    BY <1>1, <1>2, <1>3, <1>6, <1>7
  <2>2. /\ s[l] + (4 - m) \in Nat
        /\ \A i \in 0..l : i # l + 1 /\ i \in 0..(l + 1) /\ s[i] + 1 \in Nat
        /\ l + 1 \in 0..(l + 1)
        /\ \A i \in 0..(l + 1) : i \in 0..l \/ i = l + 1
    BY <1>1, <1>4, <1>5, <1>7
  <2>3. t[l + 1] = s[l] + (4 - m) /\ \A i \in 0..l : t[i] = s[i] + 1
    BY <2>2
  <2>4. t \in [0..(l + 1) -> Nat]
    BY <2>2
  <2> HIDE DEF t
  <2>5. ASSUME NEW i \in 1..(l + 1)
        PROVE  t[i] = t[i - 1] + Weight(chain'[i])
    <3>1. CASE i = l + 1
      <4>1. t[i - 1] = s[l] + 1 /\ t[i] = s[l] + (4 - m) /\ Weight(chain'[i]) = 3 - m
        BY <1>1, <1>3, <1>5, <2>1, <2>3, <3>1
      <4>2. s[l] \in Nat
        BY <1>4, <1>5
      <4>3. s[l] + (4 - m) = (s[l] + 1) + (3 - m)
        BY <4>2
      <4> QED BY <4>1, <4>3
    <3>2. CASE i \in 1..l
      <4>1. /\ s[i] = s[i - 1] + Weight(below[i]) /\ chain'[i] = below[i]
            /\ s[i] \in Nat /\ s[i - 1] \in Nat /\ Weight(below[i]) \in Int
            /\ t[i] = s[i] + 1 /\ t[i - 1] = s[i - 1] + 1
        BY <1>1, <1>4, <2>1, <2>3, <3>2
      <4> QED BY <4>1
    <3> QED BY <1>1, <3>1, <3>2
  <2>6. ASSUME NEW i \in 0..(l + 1), NEW j \in 0..(l + 1), i <= j
        PROVE  t[i] <= t[j]
    <3>1. CASE j \in 0..l
      <4>1. i \in 0..l
        BY <1>1, <2>6, <3>1
      <4> QED BY <1>4, <2>3, <2>6, <3>1, <4>1
    <3>2. CASE j = l + 1 /\ i \in 0..l
      <4>1. s[i] <= s[l] /\ s[i] \in Nat /\ s[l] \in Nat
        BY <1>1, <1>4, <1>5, <3>2
      <4> QED BY <1>7, <2>3, <3>2, <4>1
    <3>3. CASE j = l + 1 /\ i = l + 1
      BY <2>2, <2>4, <3>3
    <3> QED BY <2>2, <3>1, <3>2, <3>3
  <2>7. Sums(t)'
    <3>1. t[0] = depth'
      BY <1>2, <1>4, <1>5, <2>3
    <3> QED BY <2>1, <2>4, <2>5, <2>6, <3>1 DEF Sums
  <2>8. ASSUME NEW i \in DOMAIN chain'
        PROVE  chain'[i].n <= 3
    <3>1. i \in 1..l \/ i = l + 1
      BY <1>1, <2>1
    <3> QED BY <1>3, <1>4, <1>7, <2>1, <3>1
  <2> QED BY <1>6, <1>7, <2>1, <2>3, <2>4, <2>7, <2>8
<1>8. CASE ~(m < 3)
  <2> DEFINE t == [i \in 0..l |-> s[i] + 1]
  <2>1. chain' = below
    BY <1>2, <1>8
  <2>2. t \in [0..l -> Nat] /\ \A i \in 0..l : t[i] = s[i] + 1
    BY <1>4
  <2> HIDE DEF t
  <2>3. ASSUME NEW i \in 1..l
        PROVE  t[i] = t[i - 1] + Weight(below[i])
    <3>1. /\ s[i] = s[i - 1] + Weight(below[i])
          /\ s[i] \in Nat /\ s[i - 1] \in Nat /\ Weight(below[i]) \in Int
          /\ t[i] = s[i] + 1 /\ t[i - 1] = s[i - 1] + 1
      BY <1>1, <1>4, <2>2
    <3> QED BY <3>1
  <2>4. \A i, j \in 0..l : i <= j => t[i] <= t[j]
    BY <1>4, <2>2
  <2>5. Sums(t)'
    <3>1. t[0] = depth'
      BY <1>2, <1>4, <1>5, <2>2
    <3> QED BY <1>6, <2>1, <2>2, <2>3, <2>4, <3>1 DEF Sums
  <2>6. t[l] = s[l] + 1
    BY <1>5, <2>2
  <2> QED BY <1>1, <1>4, <1>6, <1>8, <2>1, <2>2, <2>5, <2>6
<1> QED BY <1>7, <1>8

LEMMA PendingIsFew == Pending \in {0, 4}
BY DEF Pending

\* What a reader of RunsArePaid may use.
LEMMA Accounts ==
  ASSUME SelfTestInv, RunsArePaid
  PROVE  /\ chain \in Seq(Nested) /\ Len(chain) \in Nat /\ DOMAIN chain = 1..Len(chain)
         /\ depth \in Nat /\ foreign \in Nat
         /\ \A i \in DOMAIN chain : chain[i].n <= 3
         /\ \E n \in Numbers \cup {0} : \E s \in [0..Len(chain) -> Nat] :
              n \in Int /\ n <= 0 /\ Sums(s) /\ s[Len(chain)] + Pending <= (4 - n) * (1 + foreign)
<1>1. chain \in Seq(Nested) /\ Len(chain) \in Nat /\ DOMAIN chain = 1..Len(chain)
  BY Types DEF SelfTestInv
<1>2. depth \in Nat /\ foreign \in Nat
  BY BoundsAssumption DEF SelfTestInv, TypeOK
<1>3. Numbers \cup {0} \subseteq Int
  BY BoundsAssumption
<1> QED BY <1>1, <1>2, <1>3 DEF RunsArePaid, Paid

LEMMA AccountKept ==
  ASSUME NEW n \in Numbers \cup {0}, n <= 0, NEW s \in [0..Len(chain') -> Nat], Sums(s)',
         \A i \in DOMAIN chain' : chain'[i].n <= 3,
         s[Len(chain')] + Pending' <= (4 - n) * (1 + foreign')
  PROVE  RunsArePaid'
BY DEF RunsArePaid, Paid

\* No listener runs or ends, and the sweep's event is due no more than before.
LEMMA StillPaid ==
  ASSUME SelfTestInv, RunsArePaid, UNCHANGED <<depth, chain, foreign>>, Pending' <= Pending
  PROVE  RunsArePaid'
<1>1. PICK n \in Numbers \cup {0} : \E s \in [0..Len(chain) -> Nat] :
        n \in Int /\ n <= 0 /\ Sums(s) /\ s[Len(chain)] + Pending <= (4 - n) * (1 + foreign)
  BY Accounts
<1>2. PICK s \in [0..Len(chain) -> Nat] :
        n \in Int /\ n <= 0 /\ Sums(s) /\ s[Len(chain)] + Pending <= (4 - n) * (1 + foreign)
  BY <1>1
<1>3. \A i \in DOMAIN chain' : chain'[i].n <= 3
  BY Accounts
<1>4. s \in [0..Len(chain') -> Nat] /\ Sums(s)'
  BY <1>2 DEF Sums
<1>5. s[Len(chain')] + Pending' <= (4 - n) * (1 + foreign')
  <2> DEFINE c == s[Len(chain)]
             b == (4 - n) * (1 + foreign)
  <2>1. c \in Nat /\ b \in Int /\ Pending \in Int /\ Pending' \in Int /\ c + Pending <= b
    <3>1. Len(chain) \in 0..Len(chain) /\ foreign \in Nat
      BY Accounts
    <3>2. Pending \in Int /\ Pending' \in Int
      BY DEF Pending
    <3> QED BY <1>2, <3>1, <3>2
  <2>2. s[Len(chain')] = c /\ (4 - n) * (1 + foreign') = b
    OBVIOUS
  <2> HIDE DEF c, b
  <2> QED BY <2>1, <2>2
<1> QED BY <1>2, <1>3, <1>4, <1>5, AccountKept

\* A listener that starts to run, on top of activations whose sums are s.
LEMMA HearingPaid ==
  ASSUME SelfTestInv, NEW below \in Seq(Nested), NEW m \in Int, HearRecur(m, below),
         NEW s \in [0..Len(below) -> Nat],
         s[0] = depth,
         \A i \in 1..Len(below) : s[i] = s[i - 1] + Weight(below[i]),
         \A i, j \in 0..Len(below) : i <= j => s[i] <= s[j],
         \A i \in DOMAIN below : below[i].n <= 3,
         NEW n \in Numbers \cup {0}, n <= 0,
         s[Len(below)] + (IF m < 3 THEN 4 - m ELSE 1) + Pending' <= (4 - n) * (1 + foreign')
  PROVE  RunsArePaid'
<1>1. depth \in Nat
  BY DEF SelfTestInv, TypeOK
<1>2. /\ \A i \in DOMAIN chain' : chain'[i].n <= 3
      /\ \E t \in [0..Len(chain') -> Nat] :
           /\ Sums(t)'
           /\ t[Len(chain')] = s[Len(below)] + (IF m < 3 THEN 4 - m ELSE 1)
  BY <1>1, HearingSums
<1>3. PICK t \in [0..Len(chain') -> Nat] :
           /\ Sums(t)'
           /\ t[Len(chain')] = s[Len(below)] + (IF m < 3 THEN 4 - m ELSE 1)
  BY <1>2
<1>4. t[Len(chain')] + Pending' <= (4 - n) * (1 + foreign')
  BY <1>3
<1> QED BY <1>2, <1>3, <1>4, AccountKept

LEMMA EmitRecurPaid ==
  ASSUME SelfTestInv, RunsArePaid, EmitRecur
  PROVE  RunsArePaid'
<1>1. foreign \in Nat /\ sweep \in Sweeps
  BY Accounts, Types DEF SelfTestInv
<1>2. chain' = <<>> /\ depth' = 0 /\ foreign' = foreign /\ Len(chain') = 0
  BY DEF EmitRecur, At
<1>3. Pending' = 4
  BY <1>1 DEF EmitRecur, Pending, Sweeps
<1> DEFINE t == [i \in 0..0 |-> 0]
<1>4. t \in [0..Len(chain') -> Nat] /\ t[Len(chain')] = 0 /\ Sums(t)'
  BY <1>2 DEF Sums
<1>5. t[Len(chain')] + Pending' <= (4 - 0) * (1 + foreign')
  BY <1>1, <1>2, <1>3, <1>4
<1>6. \A i \in DOMAIN chain' : chain'[i].n <= 3
  BY <1>2
<1> HIDE DEF t
<1> QED BY <1>4, <1>5, <1>6, AccountKept

LEMMA DeliverRecurPaid ==
  ASSUME SelfTestInv, RunsArePaid, DeliverRecur
  PROVE  RunsArePaid'
<1>1. chain \in Seq(Nested) /\ foreign' = foreign /\ HearRecur(0, chain) /\ foreign \in Nat
  BY Accounts DEF DeliverRecur
<1>2. Pending = 4 /\ Pending' = 0
  <2>1. sweep \in Sweeps
    BY Types DEF SelfTestInv
  <2> QED BY <2>1 DEF DeliverRecur, Pending, At, Sweeps
<1>3. PICK n \in Numbers \cup {0} : \E s \in [0..Len(chain) -> Nat] :
        n \in Int /\ n <= 0 /\ Sums(s) /\ s[Len(chain)] + Pending <= (4 - n) * (1 + foreign)
  BY Accounts
<1>4. PICK s \in [0..Len(chain) -> Nat] :
        n \in Int /\ n <= 0 /\ Sums(s) /\ s[Len(chain)] + Pending <= (4 - n) * (1 + foreign)
  BY <1>3
<1>5. s[Len(chain)] \in Nat
  <2>1. Len(chain) \in 0..Len(chain)
    BY Accounts
  <2> QED BY <2>1
<1>6. s[Len(chain)] + (IF 0 < 3 THEN 4 - 0 ELSE 1) + Pending' <= (4 - n) * (1 + foreign')
  BY <1>1, <1>2, <1>4, <1>5
<1>7. \A i \in DOMAIN chain : chain[i].n <= 3
  BY Accounts
<1>8. /\ s[0] = depth
      /\ \A i \in 1..Len(chain) : s[i] = s[i - 1] + Weight(chain[i])
      /\ \A i, j \in 0..Len(chain) : i <= j => s[i] <= s[j]
  BY <1>4 DEF Sums
<1> QED BY <1>1, <1>4, <1>6, <1>7, <1>8, HearingPaid

LEMMA ForeignRecurPaid ==
  ASSUME SelfTestInv, RunsArePaid, NEW m \in Numbers, ForeignRecur(m)
  PROVE  RunsArePaid'
<1>1. /\ chain \in Seq(Nested) /\ foreign' = foreign + 1 /\ HearRecur(m, chain)
      /\ foreign \in Nat /\ m \in Int
  BY Accounts, BoundsAssumption DEF ForeignRecur
<1>2. Pending' = Pending /\ Pending \in Nat
  <2>1. sweep \in Sweeps
    BY Types DEF SelfTestInv
  <2> QED BY <2>1 DEF ForeignRecur, Pending, Sweeps
<1>3. PICK n \in Numbers \cup {0} : \E s \in [0..Len(chain) -> Nat] :
        n \in Int /\ n <= 0 /\ Sums(s) /\ s[Len(chain)] + Pending <= (4 - n) * (1 + foreign)
  BY Accounts
<1>4. PICK s \in [0..Len(chain) -> Nat] :
        n \in Int /\ n <= 0 /\ Sums(s) /\ s[Len(chain)] + Pending <= (4 - n) * (1 + foreign)
  BY <1>3
<1>5. s[Len(chain)] \in Nat
  <2>1. Len(chain) \in 0..Len(chain)
    BY Accounts
  <2> QED BY <2>1
<1> DEFINE k == IF m < n THEN m ELSE n
<1>6. k \in Numbers \cup {0} /\ k \in Int /\ k <= n /\ k <= 0 /\ k <= m
  BY <1>1, <1>4
<1>7. s[Len(chain)] + (IF m < 3 THEN 4 - m ELSE 1) + Pending' <= (4 - k) * (1 + foreign')
  <2> DEFINE total == s[Len(chain)]
             old == (4 - n) * (1 + foreign)
             new == (4 - k) * (1 + foreign)
  <2>1. old \in Int /\ new \in Int /\ old <= new /\ (4 - k) * (1 + (foreign + 1)) = new + (4 - k)
    <3> HIDE DEF k
    <3> QED BY <1>1, <1>4, <1>6, MorePays
  <2>2. total + Pending <= old /\ total \in Nat
    BY <1>4, <1>5
  <2>3. (IF m < 3 THEN 4 - m ELSE 1) <= 4 - k /\ (IF m < 3 THEN 4 - m ELSE 1) \in Int
    BY <1>1, <1>6
  <2>4. (4 - k) * (1 + foreign') = new + (4 - k)
    BY <1>1, <2>1
  <2> DEFINE more == IF m < 3 THEN 4 - m ELSE 1
  <2>5. more <= 4 - k /\ more \in Int
    BY <2>3
  <2> HIDE DEF total, old, new, k, more
  <2>6. total + more + Pending <= new + (4 - k)
    BY <1>2, <1>6, <2>1, <2>2, <2>5
  <2>7. total + more + Pending' <= (4 - k) * (1 + foreign')
    BY <1>2, <2>4, <2>6
  <2> QED BY <2>7 DEF total, more
<1>8. \A i \in DOMAIN chain : chain[i].n <= 3
  BY Accounts
<1>9. /\ s[0] = depth
      /\ \A i \in 1..Len(chain) : s[i] = s[i - 1] + Weight(chain[i])
      /\ \A i, j \in 0..Len(chain) : i <= j => s[i] <= s[j]
  BY <1>4 DEF Sums
<1> HIDE DEF k
<1> QED BY <1>1, <1>4, <1>6, <1>7, <1>8, <1>9, HearingPaid

\* The run a nested event causes was paid for when it was emitted.
LEMMA DeliverNestedPaid ==
  ASSUME SelfTestInv, RunsArePaid, DeliverNested
  PROVE  RunsArePaid'
<1> DEFINE l == Len(chain)
           e == chain[l]
           below == [chain EXCEPT ![l].due = FALSE]
<1>1. PICK n \in Numbers \cup {0} : \E s \in [0..Len(chain) -> Nat] :
        n \in Int /\ n <= 0 /\ Sums(s) /\ s[Len(chain)] + Pending <= (4 - n) * (1 + foreign)
  BY Accounts
<1>2. PICK s \in [0..Len(chain) -> Nat] :
        n \in Int /\ n <= 0 /\ Sums(s) /\ s[Len(chain)] + Pending <= (4 - n) * (1 + foreign)
  BY <1>1
<1>3. /\ chain \in Seq(Nested) /\ l \in Nat /\ l >= 1 /\ l - 1 \in Nat /\ DOMAIN chain = 1..l
      /\ l \in 1..l /\ e \in Nested /\ e.due /\ e.n <= 3 /\ e.n \in Int
  <2>1. chain \in Seq(Nested) /\ l \in Nat /\ DOMAIN chain = 1..l /\ chain # <<>> /\ e.due
        /\ \A i \in DOMAIN chain : chain[i].n <= 3
    BY Accounts DEF DeliverNested, Last
  <2>2. l >= 1
    BY <2>1
  <2>3. l \in 1..l /\ l - 1 \in Nat /\ e \in Nested
    BY <2>1, <2>2
  <2> QED BY <2>1, <2>2, <2>3 DEF Nested
<1>4. /\ below \in Seq(Nested) /\ Len(below) = l /\ DOMAIN below = 1..l
      /\ \A i \in 1..l : i # l => below[i] = chain[i]
      /\ below[l] = [e EXCEPT !.due = FALSE]
  <2> DEFINE f == [e EXCEPT !.due = FALSE]
  <2>1. f \in Nested
    BY <1>3 DEF Nested
  <2>2. below = [chain EXCEPT ![l] = f]
    OBVIOUS
  <2> HIDE DEF below, e, f
  <2>3. /\ below \in Seq(Nested) /\ Len(below) = l /\ DOMAIN below = 1..l
        /\ \A i \in 1..l : i # l => below[i] = chain[i]
        /\ below[l] = f
    <3>1. /\ below \in Seq(Nested) /\ Len(below) = Len(chain)
          /\ \A i \in 1..Len(chain) : below[i] = IF i = l THEN f ELSE chain[i]
      BY <1>3, <2>1, <2>2, ExceptSeq
    <3>2. DOMAIN below = 1..Len(below)
      BY <3>1
    <3>3. Len(below) = l /\ l = Len(chain) /\ l \in 1..l
      BY <1>3, <3>1
    <3> HIDE DEF l
    <3> QED BY <3>1, <3>2, <3>3
  <2> QED BY <2>3 DEF f
<1>5. HearRecur(e.n, below) /\ foreign' = foreign /\ Pending' = Pending /\ Pending \in Int
  BY DEF DeliverNested, Last, Pending
<1>6. Weight(e) = 4 - e.n
  BY <1>3 DEF Weight
<1>7. Weight(below[l]) = 0
  BY <1>3, <1>4 DEF Weight, Nested
<1>8. /\ \A i \in 0..l : s[i] \in Nat
      /\ s[0] = depth
      /\ \A i \in 1..l : s[i] = s[i - 1] + Weight(chain[i])
      /\ \A i, j \in 0..l : i <= j => s[i] <= s[j]
  BY <1>2 DEF Sums
<1>9. l \in 0..l /\ l - 1 \in 0..l
  BY <1>3
<1>10. \A i \in DOMAIN below : below[i].n <= 3
  <2> SUFFICES ASSUME NEW i \in 1..l
               PROVE  below[i].n <= 3
    BY <1>4
  <2>1. below[l].n = e.n
    BY <1>3, <1>4 DEF Nested
  <2> HIDE DEF l, below, e
  <2>2. CASE i = l
    BY <1>3, <2>1, <2>2
  <2>3. CASE i # l
    BY <1>3, <1>4, <2>3, Accounts
  <2> QED BY <2>2, <2>3
<1>11. s[l] = s[l - 1] + (4 - e.n)
  BY <1>3, <1>6, <1>8
<1> HIDE DEF below, e
<1> DEFINE t == [i \in 0..l |-> IF i = l THEN s[l - 1] ELSE s[i]]
<1>12. /\ t \in [0..Len(below) -> Nat] /\ t[l] = s[l - 1]
       /\ \A i \in 0..l : i # l => t[i] = s[i]
  BY <1>4, <1>8, <1>9
<1> HIDE DEF t, l
<1>13. t[0] = depth
  BY <1>3, <1>8, <1>12
<1>14. ASSUME NEW i \in 1..l
       PROVE  t[i] = t[i - 1] + Weight(below[i])
  <2>1. i - 1 \in 0..l /\ i - 1 # l /\ i \in 0..l /\ s[i - 1] \in Nat
    BY <1>3, <1>8
  <2>2. CASE i = l
    BY <1>7, <1>12, <2>1, <2>2
  <2>3. CASE i # l
    BY <1>4, <1>8, <1>12, <2>1, <2>3
  <2> QED BY <2>2, <2>3
<1>15. ASSUME NEW i \in 0..l, NEW j \in 0..l, i <= j
       PROVE  t[i] <= t[j]
  <2>1. CASE j # l
    BY <1>3, <1>8, <1>12, <1>15, <2>1
  <2>2. CASE j = l /\ i # l
    <3>1. i <= l - 1
      BY <1>3, <2>2
    <3> QED BY <1>8, <1>9, <1>12, <2>2, <3>1
  <2>3. CASE j = l /\ i = l
    BY <1>8, <1>9, <1>12, <2>3
  <2> QED BY <2>1, <2>2, <2>3
<1>16. t[Len(below)] + (IF e.n < 3 THEN 4 - e.n ELSE 1) + Pending' <= (4 - n) * (1 + foreign')
  <2>1. (IF e.n < 3 THEN 4 - e.n ELSE 1) = 4 - e.n
    BY <1>3
  <2>2. t[Len(below)] = s[l - 1] /\ s[l - 1] \in Nat
    BY <1>4, <1>8, <1>9, <1>12
  <2>3. t[Len(below)] + (4 - e.n) = s[l]
    BY <1>11, <2>2
  <2>4. s[l] + Pending' <= (4 - n) * (1 + foreign')
    BY <1>2, <1>5 DEF l
  <2> QED BY <2>1, <2>3, <2>4
<1> QED BY <1>2, <1>3, <1>4, <1>5, <1>10, <1>12, <1>13, <1>14, <1>15, <1>16, HearingPaid

LEMMA ForeignBadPaid ==
  ASSUME SelfTestInv, RunsArePaid, ForeignBad
  PROVE  RunsArePaid'
<1>1. /\ chain \in Seq(Nested) /\ Len(chain) \in Nat /\ depth \in Nat /\ foreign \in Nat
      /\ \A i \in DOMAIN chain : chain[i].n <= 3
      /\ \A i \in 1..Len(chain) : Weight(chain[i]) \in Int /\ i \in 0..Len(chain) /\ i - 1 \in 0..Len(chain)
  BY Accounts, WeightIsInt
<1>2. chain' = chain /\ foreign' = foreign + 1 /\ depth' = depth + 1
  BY DEF ForeignBad
<1>3. Pending' = Pending /\ Pending \in Nat
  <2>1. sweep \in Sweeps
    BY Types DEF SelfTestInv
  <2> QED BY <2>1 DEF ForeignBad, Pending, Sweeps
<1>4. PICK n \in Numbers \cup {0} : \E s \in [0..Len(chain) -> Nat] :
        n \in Int /\ n <= 0 /\ Sums(s) /\ s[Len(chain)] + Pending <= (4 - n) * (1 + foreign)
  BY Accounts
<1>5. PICK s \in [0..Len(chain) -> Nat] :
        n \in Int /\ n <= 0 /\ Sums(s) /\ s[Len(chain)] + Pending <= (4 - n) * (1 + foreign)
  BY <1>4
<1>6. /\ \A i \in 0..Len(chain) : s[i] \in Nat
      /\ s[0] = depth
      /\ \A i \in 1..Len(chain) : s[i] = s[i - 1] + Weight(chain[i])
      /\ \A i, j \in 0..Len(chain) : i <= j => s[i] <= s[j]
  BY <1>5 DEF Sums
<1>7. PICK t \in [0..Len(chain') -> Nat] : \A i \in 0..Len(chain) : t[i] = s[i] + 1
  <2> DEFINE u == [i \in 0..Len(chain) |-> s[i] + 1]
  <2>1. u \in [0..Len(chain') -> Nat] /\ \A i \in 0..Len(chain) : u[i] = s[i] + 1
    BY <1>2, <1>6
  <2> HIDE DEF u
  <2> QED BY <2>1
<1>8. 0 \in 0..Len(chain) /\ Len(chain) \in 0..Len(chain)
  BY <1>1
<1>9. Sums(t)'
  <2>1. t[0] = depth'
    BY <1>2, <1>6, <1>7, <1>8
  <2>2. ASSUME NEW i \in 1..Len(chain)
        PROVE  t[i] = t[i - 1] + Weight(chain[i])
    <3>1. /\ s[i] = s[i - 1] + Weight(chain[i])
          /\ s[i] \in Nat /\ s[i - 1] \in Nat /\ Weight(chain[i]) \in Int
          /\ t[i] = s[i] + 1 /\ t[i - 1] = s[i - 1] + 1
      BY <1>1, <1>6, <1>7
    <3> QED BY <3>1
  <2>3. \A i, j \in 0..Len(chain) : i <= j => t[i] <= t[j]
    BY <1>6, <1>7
  <2>4. \A i \in 1..Len(chain') : t[i] = t[i - 1] + Weight(chain'[i])
    BY <1>2, <2>2
  <2>5. \A i, j \in 0..Len(chain') : i <= j => t[i] <= t[j]
    BY <1>2, <2>3
  <2> QED BY <1>7, <2>1, <2>4, <2>5 DEF Sums
<1>10. t[Len(chain')] + Pending' <= (4 - n) * (1 + foreign')
  <2> DEFINE total == s[Len(chain)]
             old == (4 - n) * (1 + foreign)
  <2>1. old \in Int /\ (4 - n) * (1 + (foreign + 1)) = old + (4 - n)
    <3>1. n \in Int /\ n <= n /\ n <= 0
      BY <1>5
    <3> QED BY <1>1, <3>1, MorePays
  <2>2. total + Pending <= old /\ total \in Nat
    BY <1>5, <1>6, <1>8
  <2>3. t[Len(chain')] = total + 1 /\ (4 - n) * (1 + foreign') = old + (4 - n)
    BY <1>2, <1>7, <1>8, <2>1
  <2>4. n \in Int /\ n <= 0
    BY <1>5
  <2> HIDE DEF total, old
  <2> QED BY <1>3, <2>1, <2>2, <2>3, <2>4
<1>11. \A i \in DOMAIN chain' : chain'[i].n <= 3
  BY <1>1, <1>2
<1>12. n <= 0
  BY <1>5
<1> QED BY <1>7, <1>9, <1>10, <1>11, <1>12, AccountKept

\* Activations that end, or are unwound, can cause no more runs.
LEMMA UnwindPaid ==
  ASSUME SelfTestInv, RunsArePaid, NEW k \in Nat, k <= Len(chain),
         chain' = SubSeq(chain, 1, k), UNCHANGED <<depth, foreign>>, Pending' <= Pending
  PROVE  RunsArePaid'
<1>1. /\ chain \in Seq(Nested) /\ Len(chain) \in Nat /\ foreign \in Nat
      /\ \A i \in 1..Len(chain) : chain[i].n <= 3
  BY Accounts
<1>2. /\ Len(chain') = k /\ DOMAIN chain' = 1..k
      /\ \A i \in 1..k : chain'[i] = chain[i] /\ i \in 1..Len(chain)
  <2>1. 1 + k - 1 = k
    OBVIOUS
  <2> QED BY <1>1, <2>1, SubSeqProperties
<1>3. PICK n \in Numbers \cup {0} : \E s \in [0..Len(chain) -> Nat] :
        n \in Int /\ n <= 0 /\ Sums(s) /\ s[Len(chain)] + Pending <= (4 - n) * (1 + foreign)
  BY Accounts
<1>4. PICK s \in [0..Len(chain) -> Nat] :
        n \in Int /\ n <= 0 /\ Sums(s) /\ s[Len(chain)] + Pending <= (4 - n) * (1 + foreign)
  BY <1>3
<1>5. /\ \A i \in 0..Len(chain) : s[i] \in Nat
      /\ s[0] = depth
      /\ \A i \in 1..Len(chain) : s[i] = s[i - 1] + Weight(chain[i])
      /\ \A i, j \in 0..Len(chain) : i <= j => s[i] <= s[j]
  BY <1>4 DEF Sums
<1>6. /\ \A i \in 0..k : i \in 0..Len(chain)
      /\ 0 \in 0..k /\ k \in 0..k /\ Len(chain) \in 0..Len(chain)
      /\ \A i \in 1..k : i \in 0..k /\ i - 1 \in 0..k
  BY <1>1
<1> DEFINE t == [i \in 0..k |-> s[i]]
<1>7. t \in [0..Len(chain') -> Nat] /\ \A i \in 0..k : t[i] = s[i]
  BY <1>2, <1>5, <1>6
<1> HIDE DEF t
<1>8. Sums(t)'
  <2>1. t[0] = depth'
    BY <1>5, <1>6, <1>7
  <2>2. \A i \in 1..k : t[i] = t[i - 1] + Weight(chain'[i])
    BY <1>2, <1>5, <1>6, <1>7
  <2>3. \A i, j \in 0..k : i <= j => t[i] <= t[j]
    BY <1>5, <1>6, <1>7
  <2> QED BY <1>2, <1>7, <2>1, <2>2, <2>3 DEF Sums
<1>9. t[Len(chain')] + Pending' <= (4 - n) * (1 + foreign')
  <2> DEFINE total == s[Len(chain)]
             old == (4 - n) * (1 + foreign)
             less == s[k]
  <2>1. /\ t[Len(chain')] = less /\ less <= total /\ less \in Nat /\ total \in Nat
    BY <1>2, <1>5, <1>6, <1>7
  <2>2. total + Pending <= old /\ (4 - n) * (1 + foreign') = old /\ old \in Int
    BY <1>1, <1>4
  <2>3. Pending \in Int /\ Pending' \in Int
    BY DEF Pending
  <2> HIDE DEF total, old, less
  <2> QED BY <2>1, <2>2, <2>3
<1>10. \A i \in DOMAIN chain' : chain'[i].n <= 3
  BY <1>1, <1>2
<1> QED BY <1>4, <1>7, <1>8, <1>9, <1>10, AccountKept

LEMMA EndsPaid ==
  ASSUME SelfTestInv, RunsArePaid, LeaveListener \/ Trap
  PROVE  RunsArePaid'
<1>1. chain \in Seq(Nested) /\ Len(chain) \in Nat
  BY Accounts
<1>2. Pending \in Nat
  BY DEF Pending
<1>3. CASE LeaveListener
  <2>1. chain # <<>> /\ chain' = SubSeq(chain, 1, Len(chain) - 1)
        /\ UNCHANGED <<depth, foreign>> /\ Pending' = Pending
    BY <1>3 DEF LeaveListener, Pending
  <2>2. Len(chain) - 1 \in Nat /\ Len(chain) - 1 <= Len(chain)
    BY <1>1, <2>1
  <2> QED BY <1>2, <2>1, <2>2, UnwindPaid
<1>4. ASSUME NEW k \in 0..(Len(chain) - 1), chain' = SubSeq(chain, 1, k), sweep' = sweep,
             UNCHANGED <<depth, foreign>>
      PROVE  RunsArePaid'
  <2>1. Pending' = Pending /\ k \in Nat /\ k <= Len(chain)
    BY <1>1, <1>4 DEF Pending
  <2> QED BY <1>2, <1>4, <2>1, UnwindPaid
<1>5. CASE chain' = <<>> /\ sweep' = Idle /\ UNCHANGED <<depth, foreign>>
  <2>1. Pending' = 0
    BY <1>5 DEF Idle, Pending
  <2>2. SubSeq(chain, 1, 0) = <<>> /\ 0 \in Nat /\ 0 <= Len(chain)
    BY <1>1
  <2> QED BY <1>2, <1>5, <2>1, <2>2, UnwindPaid
<1> QED BY <1>3, <1>4, <1>5 DEF Trap

\* Of the steps of the sweep itself, only its emit of the event can owe more.
LEMMA SweepPaid ==
  ASSUME SelfTestInv, RunsArePaid,
         \/ StartSweep \/ EmitPing \/ CheckPing \/ CheckHandles \/ CheckCancelled
         \/ ProbeRecur \/ Report \/ LeaveSweep
         \/ \E answer \in BOOLEAN :
              \/ Ask(answer) \/ Schedule(answer) \/ Cancel(answer) \/ Probe(answer)
              \/ ScheduleExtreme(answer) \/ CancelExtreme(answer)
  PROVE  RunsArePaid'
<1>1. sweep \in Sweeps
  BY Types DEF SelfTestInv
<1>2. UNCHANGED <<chain, foreign, depth>>
  BY DEF StartSweep, EmitPing, CheckPing, CheckHandles, CheckCancelled, ProbeRecur, Report,
     LeaveSweep, Ask, Schedule, Cancel, Probe, ScheduleExtreme, CancelExtreme
<1>3. sweep'.at # "recurring"
  <2>1. CASE StartSweep \/ EmitPing \/ CheckPing \/ CheckHandles
    BY <1>1, <2>1
    DEF StartSweep, EmitPing, CheckPing, CheckHandles, Made, Idle, Sweeps
  <2>2. CASE CheckCancelled \/ ProbeRecur \/ Report \/ LeaveSweep
    <3>1. CASE CheckCancelled \/ ProbeRecur
      BY <1>1, <3>1 DEF CheckCancelled, ProbeRecur, Made, Sweeps
    <3>2. CASE Report
      BY <1>1, <3>2 DEF Report, Sweeps
    <3>3. CASE LeaveSweep
      BY <3>3 DEF LeaveSweep, Idle
    <3> QED BY <2>2, <3>1, <3>2, <3>3
  <2>3. ASSUME NEW answer \in BOOLEAN,
               Ask(answer) \/ Schedule(answer) \/ Cancel(answer) \/ Probe(answer)
        PROVE  sweep'.at # "recurring"
    BY <1>1, <2>3 DEF Ask, Schedule, Cancel, Probe, Made, At, Sweeps
  <2>4. ASSUME NEW answer \in BOOLEAN, ScheduleExtreme(answer) \/ CancelExtreme(answer)
        PROVE  sweep'.at # "recurring"
    BY <1>1, <2>4 DEF ScheduleExtreme, CancelExtreme, AfterExtreme, Made, Sweeps
  <2> QED BY <2>1, <2>2, <2>3, <2>4
<1>4. Pending' = 0 /\ 0 <= Pending
  BY <1>3 DEF Pending
<1> QED BY <1>2, <1>4, StillPaid

LEMMA RunsArePaidInductive ==
  ASSUME SelfTestInv, RunsArePaid, [Next]_vars
  PROVE  RunsArePaid'
<1>1. CASE EmitRecur
  BY <1>1, EmitRecurPaid
<1>2. CASE DeliverRecur \/ DeliverNested \/ ForeignBad \/ \E n \in Numbers : ForeignRecur(n)
  BY <1>2, DeliverRecurPaid, DeliverNestedPaid, ForeignBadPaid, ForeignRecurPaid
<1>3. CASE LeaveListener \/ Trap
  BY <1>3, EndsPaid
<1>4. CASE DeliverPing \/ (\E t \in tasks : TaskEnds(t)) \/ UNCHANGED vars
  <2>1. UNCHANGED <<depth, chain, foreign>>
    BY <1>4 DEF DeliverPing, TaskEnds, vars
  <2>2. Pending' <= Pending
    <3>1. sweep \in Sweeps
      BY Types DEF SelfTestInv
    <3>2. sweep'.at = sweep.at /\ (sweep' = sweep \/ sweep.at = "pinged")
      BY <1>4, <3>1 DEF DeliverPing, At, TaskEnds, vars, Sweeps
    <3> QED BY <3>2 DEF Pending
  <2> QED BY <2>1, <2>2, StillPaid
<1>5. ASSUME NEW d \in Data, ForeignPing(d)
      PROVE  RunsArePaid'
  <2>1. PICK n \in Numbers \cup {0} : \E s \in [0..Len(chain) -> Nat] :
          n \in Int /\ n <= 0 /\ Sums(s) /\ s[Len(chain)] + Pending <= (4 - n) * (1 + foreign)
    BY Accounts
  <2>2. PICK s \in [0..Len(chain) -> Nat] :
          n \in Int /\ n <= 0 /\ Sums(s) /\ s[Len(chain)] + Pending <= (4 - n) * (1 + foreign)
    BY <2>1
  <2>3. chain' = chain /\ depth' = depth /\ foreign' = foreign + 1 /\ foreign \in Nat
    BY <1>5, Accounts DEF ForeignPing
  <2>4. Pending' = Pending /\ Pending \in Int
    <3>1. sweep \in Sweeps
      BY Types DEF SelfTestInv
    <3> QED BY <1>5, <3>1 DEF ForeignPing, Pending, Sweeps
  <2>5. s[Len(chain')] + Pending' <= (4 - n) * (1 + foreign')
    <3> DEFINE total == s[Len(chain)]
               old == (4 - n) * (1 + foreign)
    <3>1. old \in Int /\ (4 - n) * (1 + (foreign + 1)) = old + (4 - n)
      <4>1. n \in Int /\ n <= n /\ n <= 0
        BY <2>2
      <4> QED BY <2>3, <4>1, MorePays
    <3>2. total + Pending <= old /\ total \in Nat
      <4>1. Len(chain) \in 0..Len(chain)
        BY Accounts
      <4> QED BY <2>2, <4>1
    <3>3. s[Len(chain')] = total /\ (4 - n) * (1 + foreign') = old + (4 - n)
      BY <2>3, <3>1
    <3>4. n \in Int /\ n <= 0
      BY <2>2
    <3> HIDE DEF total, old
    <3> QED BY <2>4, <3>1, <3>2, <3>3, <3>4
  <2>6. s \in [0..Len(chain') -> Nat] /\ Sums(s)'
    BY <2>2, <2>3 DEF Sums
  <2>7. \A i \in DOMAIN chain' : chain'[i].n <= 3
    BY <2>3, Accounts
  <2> QED BY <2>2, <2>5, <2>6, <2>7, AccountKept
<1>6. CASE \/ StartSweep \/ EmitPing \/ CheckPing \/ CheckHandles \/ CheckCancelled
           \/ ProbeRecur \/ Report \/ LeaveSweep
           \/ \E answer \in BOOLEAN :
                \/ Ask(answer) \/ Schedule(answer) \/ Cancel(answer) \/ Probe(answer)
                \/ ScheduleExtreme(answer) \/ CancelExtreme(answer)
  BY <1>6, SweepPaid
<1> QED BY <1>1, <1>2, <1>3, <1>4, <1>5, <1>6 DEF Next

LEMMA InitiallyPaid ==
  ASSUME Init
  PROVE  RunsArePaid
<1>1. chain = <<>> /\ Len(chain) = 0 /\ depth = 0 /\ foreign = 0 /\ Pending = 0
  BY DEF Init, Idle, Pending
<1> DEFINE s == [i \in 0..0 |-> 0]
<1>2. s \in [0..Len(chain) -> Nat] /\ s[Len(chain)] = 0 /\ Sums(s)
  BY <1>1 DEF Sums
<1>3. Paid(0, s[Len(chain)])
  BY <1>1, <1>2 DEF Paid
<1> HIDE DEF s
<1> QED BY <1>1, <1>2, <1>3 DEF RunsArePaid

\* One event, the sweep's or a foreign one, makes the recur listener run at most
\* once for each number up to 3, however the deliveries interleave and unwind.
THEOREM RecursionEnds == Spec => []RecursionBounded
<1>1. Init => RunsArePaid
  BY InitiallyPaid
<1>2. SelfTestInv /\ RunsArePaid /\ [Next]_vars => RunsArePaid'
  BY RunsArePaidInductive
<1>3. SelfTestInv /\ RunsArePaid => RecursionBounded
  <2> SUFFICES ASSUME SelfTestInv, RunsArePaid
               PROVE  RecursionBounded
    OBVIOUS
  <2>1. PICK n \in Numbers \cup {0} : \E s \in [0..Len(chain) -> Nat] :
          n \in Int /\ n <= 0 /\ Sums(s) /\ s[Len(chain)] + Pending <= (4 - n) * (1 + foreign)
    BY Accounts
  <2>2. PICK s \in [0..Len(chain) -> Nat] :
          n \in Int /\ n <= 0 /\ Sums(s) /\ s[Len(chain)] + Pending <= (4 - n) * (1 + foreign)
    BY <2>1
  <2>3. Len(chain) \in Nat /\ depth \in Nat /\ foreign \in Nat
    BY Accounts
  <2>4. 0 \in 0..Len(chain) /\ Len(chain) \in 0..Len(chain)
    BY <2>3
  <2>5. depth <= s[Len(chain)] /\ s[Len(chain)] \in Nat
    BY <2>2, <2>3, <2>4 DEF Sums
  <2>6. Pending \in Nat
    BY DEF Pending
  <2> DEFINE total == s[Len(chain)]
             old == (4 - n) * (1 + foreign)
  <2>7. old \in Int /\ total + Pending <= old /\ depth <= total /\ total \in Nat
    BY <2>2, <2>3, <2>5
  <2> HIDE DEF total, old
  <2>8. depth <= old
    BY <2>3, <2>6, <2>7
  <2> QED BY <2>8 DEF old, RecursionBounded
<1> QED BY <1>1, <1>2, <1>3, SelfTestCorrect, PTL DEF Spec
=============================================================================
