------------------------------- MODULE SelfTest -------------------------------
(***************************************************************************)
(* The sweep of Modules/DevTester.cpp: run_full_test, the listeners it     *)
(* tests itself with, and the globals they share.  (Testerv2.cpp is the    *)
(* same sweep without the scheduler and the nested events.)                *)
(*                                                                         *)
(* The sweep is always inside a syscall: an action runs it from the return *)
(* of one syscall to the next one.  Meanwhile the host may enter the       *)
(* listeners: of the event just emitted, which it may also drop, and of    *)
(* "foreign" events, emitted by other modules or delivered late.  Checks   *)
(* whose outcome the host alone decides are represented by one functional  *)
(* check and one probe.  Sweeps are not nested: the host starts a tool     *)
(* when none of this module runs.                                          *)
(***************************************************************************)
EXTENDS Integers, Sequences

CONSTANTS Tasks,      \* tasks the sweep schedules and then cancels: 5 in the code
          Numbers,    \* the "n" of foreign "devtester.recur" events
          MaxSweeps,  \* bound: sweeps started
          MaxForeign  \* bound: foreign events

ASSUME BoundsAssumption ==
  Tasks \in Nat \ {0} /\ Numbers \subseteq Int /\ MaxSweeps \in Nat /\ MaxForeign \in Nat

\* What a "devtester.ping" carries: {"v": 7}, another object, or no object.
Data == {"seven", "other", "bare"}

VARIABLES rows,     \* g_rows; each with the sweep that made the check
          fired,    \* g_event_fired
          data,     \* g_event_data
          depth,    \* g_recur_depth
          sweep,    \* the activation of run_full_test
          chain,    \* activations of the recur listener above it, each inside
                    \* its emit of n; due while the host may deliver that
          tasks,    \* tasks the host holds: the sweep and the index of each
          started,  \* sweeps so far
          foreign   \* foreign events so far

vars == <<rows, fired, data, depth, sweep, chain, tasks, started, foreign>>

\* at: the syscall it is in; checks: how many it made; due: its event is still
\* to be delivered; heard: its listeners that ran since it reset what they set;
\* held: tasks it has handles of; next: the next task.
Idle == [at |-> "idle", checks |-> 0, due |-> FALSE, heard |-> {}, held |-> {},
         next |-> 1, cancelled |-> 0, refused |-> FALSE, verdict |-> "none"]

----------------------------------------------------------------------------
(* Steps of the sweep. *)

At(point) == sweep.at = point /\ chain = <<>>

\* check and probe append a row; goods are the outcomes, in order.
Recorded(security, goods) ==
  /\ rows' = rows \o [i \in DOMAIN goods |-> [of |-> started, security |-> security,
                                             good |-> goods[i]]]

Made(n, point) == [sweep EXCEPT !.at = point, !.checks = @ + n]

\* The sweep that keeps the rows of the last one.
KeepRows == rows

Cleared == <<>>

StartSweep ==
  /\ At("idle") /\ started < MaxSweeps
  /\ started' = started + 1
  /\ rows' = Cleared
  /\ sweep' = [Idle EXCEPT !.at = "functional"]
  /\ UNCHANGED <<fired, data, depth, chain, tasks, foreign>>

\* Identity, permissions, config, RPC, symbols, ...
Ask(good) ==
  /\ At("functional")
  /\ sweep' = Made(1, "asked")
  /\ Recorded(FALSE, <<good>>)
  /\ UNCHANGED <<fired, data, depth, chain, tasks, started, foreign>>

\* The sweep that trusts its listener to overwrite what it left last time.
NoReset == [fired |-> fired, data |-> data]

Reset == [fired |-> FALSE, data |-> "null"]

EmitPing ==
  /\ At("asked")
  /\ fired' = Reset.fired /\ data' = Reset.data
  /\ sweep' = [sweep EXCEPT !.at = "pinged", !.due = TRUE]
  /\ UNCHANGED <<rows, depth, chain, tasks, started, foreign>>

\* value() of what is no object aborts: then only Trap is possible.
CheckPing ==
  /\ At("pinged")
  /\ fired => data # "bare"
  /\ Recorded(FALSE, <<fired /\ data = "seven">>)
  /\ sweep' = [Made(1, "schedule") EXCEPT !.due = FALSE]
  /\ UNCHANGED <<fired, data, depth, chain, tasks, started, foreign>>

\* A schedule_* returns a handle, or 0.
Schedule(accepted) ==
  /\ At("schedule") /\ sweep.next <= Tasks
  /\ sweep' = [sweep EXCEPT !.next = @ + 1,
                            !.held = IF accepted THEN @ \cup {sweep.next} ELSE @]
  /\ tasks' = IF accepted THEN tasks \cup {<<started, sweep.next>>} ELSE tasks
  /\ UNCHANGED <<rows, fired, data, depth, chain, started, foreign>>

\* The cancelling loop that starts at the second handle.
FirstHeldMutant(from) ==
  CHOOSE i \in from..(Tasks + 1) :
    /\ i = Tasks + 1 \/ (i \in sweep.held /\ i > 1)
    /\ \A j \in from..(i - 1) : j \notin sweep.held \/ j = 1

\* The next handle of the loop that is not 0, or the end of the loop.
FirstHeld(from) ==
  CHOOSE i \in from..(Tasks + 1) :
    /\ i = Tasks + 1 \/ i \in sweep.held
    /\ \A j \in from..(i - 1) : j \notin sweep.held

CheckHandles ==
  /\ At("schedule") /\ sweep.next > Tasks
  /\ Recorded(FALSE, [i \in 1..Tasks |-> i \in sweep.held])
  /\ sweep' = [Made(Tasks, "cancel") EXCEPT !.next = FirstHeld(1)]
  /\ UNCHANGED <<fired, data, depth, chain, tasks, started, foreign>>

\* What schedule_cancel of the next task leaves: the host may refuse, and it
\* may answer false because the task has ended.
Left(done) == IF done THEN tasks \ {<<started, sweep.next>>} ELSE tasks

Refused(done) == sweep.refused \/ <<started, sweep.next>> \in Left(done)

Cancel(done) ==
  /\ At("cancel") /\ sweep.next <= Tasks
  /\ tasks' = Left(done)
  /\ sweep' = [sweep EXCEPT !.next = FirstHeld(sweep.next + 1),
                            !.cancelled = IF done THEN @ + 1 ELSE @,
                            !.refused = Refused(done)]
  /\ UNCHANGED <<rows, fired, data, depth, chain, started, foreign>>

CheckCancelled ==
  /\ At("cancel") /\ sweep.next > Tasks
  /\ Recorded(FALSE, <<sweep.cancelled >= 1>>)
  /\ sweep' = Made(1, "probing")
  /\ UNCHANGED <<fired, data, depth, chain, tasks, started, foreign>>

\* Permissions, privileged writes, isolation, ...
Probe(blocked) ==
  /\ At("probing")
  /\ sweep' = Made(1, "probed")
  /\ Recorded(TRUE, <<blocked>>)
  /\ UNCHANGED <<fired, data, depth, chain, tasks, started, foreign>>

EmitRecur ==
  /\ At("probed")
  /\ depth' = 0
  /\ sweep' = [sweep EXCEPT !.at = "recurring", !.due = TRUE]
  /\ UNCHANGED <<rows, fired, data, chain, tasks, started, foreign>>

ProbeRecur ==
  /\ At("recurring")
  /\ Recorded(TRUE, <<depth \in 1..4>>)
  /\ sweep' = [Made(1, "extreme") EXCEPT !.due = FALSE, !.next = Tasks + 1]
  /\ UNCHANGED <<fired, data, depth, chain, tasks, started, foreign>>

\* Two tasks with delays no scheduler can serve, each cancelled at once; then
\* the sweep draws its report.
OnceTooOften == IF sweep.next > Tasks + 2 THEN "report" ELSE "extreme"

AfterExtreme == IF sweep.next = Tasks + 2 THEN "report" ELSE "extreme"

ScheduleExtreme(accepted) ==
  /\ At("extreme")
  /\ Recorded(TRUE, <<TRUE>>)
  /\ \/ /\ accepted
        /\ tasks' = tasks \cup {<<started, sweep.next>>}
        /\ sweep' = Made(1, "undo")
     \/ /\ ~accepted
        /\ tasks' = tasks
        /\ sweep' = [Made(1, AfterExtreme) EXCEPT !.next = @ + 1]
  /\ UNCHANGED <<fired, data, depth, chain, started, foreign>>

CancelExtreme(done) ==
  /\ At("undo")
  /\ tasks' = Left(done)
  /\ sweep' = [sweep EXCEPT !.at = AfterExtreme, !.next = @ + 1, !.refused = Refused(done)]
  /\ UNCHANGED <<rows, fired, data, depth, chain, started, foreign>>

\* The counts of the report, as far as the last lines tell them apart.
Verdict ==
  CASE \E i \in DOMAIN rows : rows[i].security /\ ~rows[i].good -> "vulnerable"
    [] \A i \in DOMAIN rows : rows[i].good -> "green"
    [] OTHER -> "failed"

Report ==
  /\ At("report")
  /\ sweep' = [sweep EXCEPT !.at = "paused", !.verdict = Verdict]
  /\ UNCHANGED <<rows, fired, data, depth, chain, tasks, started, foreign>>

LeaveSweep ==
  /\ At("paused")
  /\ sweep' = Idle
  /\ UNCHANGED <<rows, fired, data, depth, chain, tasks, started, foreign>>

----------------------------------------------------------------------------
(* The listeners. *)

Heard(listener, point) ==
  IF sweep.at = point THEN sweep.heard \cup {listener} ELSE sweep.heard

HearPing(d) == fired' = TRUE /\ data' = d

DeliverPing ==
  /\ At("pinged") /\ sweep.due
  /\ HearPing("seven")
  /\ sweep' = [sweep EXCEPT !.due = FALSE, !.heard = Heard("ping", "pinged")]
  /\ UNCHANGED <<rows, depth, chain, tasks, started, foreign>>

ForeignPing(d) ==
  /\ foreign < MaxForeign
  /\ foreign' = foreign + 1
  /\ HearPing(d)
  /\ sweep' = [sweep EXCEPT !.heard = Heard("ping", "pinged")]
  /\ UNCHANGED <<rows, depth, chain, tasks, started>>

\* The listener that forgets to count.
SameNumber(n) == n

NextNumber(n) == n + 1

\* The recur listener: it counts, and emits the next number up to 3.
HearRecur(n, below) ==
  /\ depth' = depth + 1
  /\ chain' = IF n < 3 THEN Append(below, [n |-> NextNumber(n), due |-> TRUE])
                       ELSE below

DeliverRecur ==
  /\ At("recurring") /\ sweep.due
  /\ HearRecur(0, chain)
  /\ sweep' = [sweep EXCEPT !.due = FALSE, !.heard = Heard("recur", "recurring")]
  /\ UNCHANGED <<rows, fired, data, tasks, started, foreign>>

Last == chain[Len(chain)]

DeliverNested ==
  /\ chain # <<>> /\ Last.due
  /\ HearRecur(Last.n, [chain EXCEPT ![Len(chain)].due = FALSE])
  /\ UNCHANGED <<rows, fired, data, sweep, tasks, started, foreign>>

ForeignRecur(n) ==
  /\ foreign < MaxForeign
  /\ foreign' = foreign + 1
  /\ HearRecur(n, chain)
  /\ sweep' = [sweep EXCEPT !.heard = Heard("recur", "recurring")]
  /\ UNCHANGED <<rows, fired, data, tasks, started>>

\* A foreign event whose data has no number: the listener counts, then aborts;
\* the host gives up that delivery (or more: Trap).
ForeignBad ==
  /\ foreign < MaxForeign
  /\ foreign' = foreign + 1
  /\ depth' = depth + 1
  /\ sweep' = [sweep EXCEPT !.heard = Heard("recur", "recurring")]
  /\ UNCHANGED <<rows, fired, data, chain, tasks, started>>

LeaveListener ==
  /\ chain # <<>>
  /\ chain' = SubSeq(chain, 1, Len(chain) - 1)
  /\ UNCHANGED <<rows, fired, data, depth, sweep, tasks, started, foreign>>

----------------------------------------------------------------------------
(* The host. *)

\* An abort unwinds some of the activations; the globals stay as they are.
Trap ==
  /\ \/ \E k \in 0..(Len(chain) - 1) : chain' = SubSeq(chain, 1, k) /\ sweep' = sweep
     \/ sweep.at # "idle" /\ chain' = <<>> /\ sweep' = Idle
  /\ UNCHANGED <<rows, fired, data, depth, tasks, started, foreign>>

\* A task has run, or has used up its attempts; its body is empty.
TaskEnds(t) ==
  /\ tasks' = tasks \ {t}
  /\ UNCHANGED <<rows, fired, data, depth, sweep, chain, started, foreign>>

----------------------------------------------------------------------------
Init ==
  /\ rows = <<>>
  /\ fired = FALSE
  /\ data = "null"
  /\ depth = 0
  /\ sweep = Idle
  /\ chain = <<>>
  /\ tasks = {}
  /\ started = 0
  /\ foreign = 0

Next ==
  \/ StartSweep \/ EmitPing \/ CheckPing \/ CheckHandles \/ CheckCancelled
  \/ EmitRecur \/ ProbeRecur \/ Report \/ LeaveSweep
  \/ \E answer \in BOOLEAN :
       \/ Ask(answer) \/ Schedule(answer) \/ Cancel(answer) \/ Probe(answer)
       \/ ScheduleExtreme(answer) \/ CancelExtreme(answer)
  \/ DeliverPing \/ DeliverRecur \/ DeliverNested \/ LeaveListener
  \/ \E d \in Data : ForeignPing(d)
  \/ \E n \in Numbers : ForeignRecur(n)
  \/ ForeignBad
  \/ Trap
  \/ \E t \in tasks : TaskEnds(t)

Spec == Init /\ [][Next]_vars

----------------------------------------------------------------------------
(* Properties. *)

\* The globals, the locals of the sweep and the host's tasks have the shape the
\* code gives them.
TypeOK ==
  /\ rows \in Seq([of : 1..MaxSweeps, security : BOOLEAN, good : BOOLEAN])
  /\ fired \in BOOLEAN
  /\ data \in Data \cup {"null"}
  /\ depth \in Nat
  /\ sweep \in [at : {"idle", "functional", "asked", "pinged", "schedule",
                      "cancel", "probing", "probed", "recurring", "extreme", "undo",
                      "report", "paused"},
                checks : Nat, due : BOOLEAN, heard : SUBSET {"ping", "recur"},
                held : SUBSET (1..Tasks), next : 1..(Tasks + 3), cancelled : 0..Tasks,
                refused : BOOLEAN,
                verdict : {"none", "green", "failed", "vulnerable"}]
  /\ chain \in Seq([n : Int, due : BOOLEAN])
  /\ tasks \subseteq (1..MaxSweeps) \X (1..(Tasks + 2))
  /\ started \in 0..MaxSweeps
  /\ foreign \in 0..MaxForeign

\* A sweep counts exactly the checks it has made itself: none of a sweep that
\* trapped before its report, and none twice.
OwnRows ==
  sweep.at # "idle" =>
    /\ Len(rows) = sweep.checks
    /\ \A i \in DOMAIN rows : rows[i].of = started

\* "ALL GREEN" needs that, in this sweep, both listeners ran while the sweep
\* waited for them, and that the host took every task: nothing an earlier sweep
\* or an earlier event left in the globals can stand in for it.
GreenIsEarned ==
  sweep.verdict = "green" => sweep.heard = {"ping", "recur"} /\ sweep.held = 1..Tasks

\* One foreign event, like the sweep's own, makes the listener run at most
\* once for each number up to 3: events that emit events come to an end.
RecursionBounded ==
  \E n \in Numbers \cup {0} : depth <= (4 - n) * (1 + foreign)

\* A sweep that comes to its report leaves no task with the host, unless the
\* host refused to cancel one.
NothingLeft ==
  sweep.at \in {"report", "paused"} /\ ~sweep.refused =>
    \A i \in 1..(Tasks + 2) : <<started, i>> \notin tasks

\* The report says "ALL GREEN - every syscall works" only if schedule_cancel
\* worked each time.
GreenMeansCancelled == sweep.verdict = "green" => ~sweep.refused
=============================================================================
