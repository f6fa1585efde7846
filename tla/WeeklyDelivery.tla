----------------------------- MODULE WeeklyDelivery -----------------------------
(***************************************************************************)
(* The weekly report, scripts/weekly-savings-delivery.py: a collector on   *)
(* the Mac builds the snapshot of a closed week and copies it to the       *)
(* Hermes host, where an hourly dispatch mails it once.                    *)
(*                                                                         *)
(* The two share nothing but the copied file, so the collector's look at   *)
(* its own delivery record finds none.  A record or snapshot is written    *)
(* whole (atomic_json) and under a lock; the snapshot reaches Hermes       *)
(* through a staged copy, which is not.  Every source of the report is     *)
(* required: what a snapshot says is not modelled, only when it was built. *)
(*                                                                         *)
(* A dispatch is over within minutes (its mail has a timeout), so the      *)
(* clock does not move under it; the Mac may sleep at any point.           *)
(***************************************************************************)
EXTENDS Naturals, FiniteSets

CONSTANTS
    Dispatches,   \* dispatch processes that may run at a time
    Day,          \* ticks per day
    LastWeek      \* bound: the clock stops when this week closes

VARIABLES
    clock,      \* the time, week k closing at Closes(k)
    collector,  \* the Mac's job: its place and the time it began
    uploaded,   \* per week: the build time of the copy next to the snapshot, or Unbuilt
    received,   \* per week: the build time of Hermes' snapshot, or Unbuilt
    moving,     \* weeks whose move was given up on, and may still happen
    delivery,   \* per week: the status in Hermes' delivery record
    dispatch,   \* per process: its place and the time it began
    letters     \* history: what the mail server accepted

mailVars == <<delivery, dispatch, letters>>
copyVars == <<collector, uploaded, received, moving>>
weeklyVars == <<clock, copyVars, mailVars>>

\* cycle_for: the week that closed last.  Its mail is due a day later, for three days.
Weeks == 1..LastWeek
Closes(k) == k * 7 * Day
Nominal(k) == Closes(k) + Day
Deadline(k) == Nominal(k) + 3 * Day
WeekAt(t) == t \div (7 * Day)

\* A snapshot that is missing, or that cannot be read.
Unbuilt == 0

Idle == [at |-> "idle", now |-> 0]
Resting == [at |-> "idle", now |-> 0, built |-> Unbuilt]
Final == {"attempted", "sent", "skipped"}

MailInit ==
    /\ clock = Closes(1)
    /\ collector = Idle
    /\ uploaded = [k \in Weeks |-> Unbuilt]
    /\ received = [k \in Weeks |-> Unbuilt]
    /\ moving = {}
    /\ delivery = [k \in Weeks |-> "none"]
    /\ dispatch = [d \in Dispatches |-> Resting]
    /\ letters = {}

-----------------------------------------------------------------------------
(* The Mac: collect *)

\* The time of the run is read before anything else.  The week is over, and its
\* mail still possible.
Collects ==
    /\ collector = Idle
    /\ clock <= Deadline(WeekAt(clock))
    /\ collector' = [at |-> "building", now |-> clock]
    /\ UNCHANGED <<clock, uploaded, received, moving, mailVars>>

\* build_snapshot; it fails with the first source that does, and nothing is saved.
Builds ==
    /\ collector.at = "building"
    /\ collector' \in {[collector EXCEPT !.at = "copying"], Idle}
    /\ UNCHANGED <<clock, uploaded, received, moving, mailVars>>

\* scp to the staged name.  A copy that fails may be partial, or complete.
Uploads ==
    /\ collector.at = "copying"
    /\ \/ /\ uploaded' = [uploaded EXCEPT ![WeekAt(collector.now)] = collector.now]
          /\ collector' \in {[collector EXCEPT !.at = "moving"], Idle}
       \/ /\ uploaded' = [uploaded EXCEPT ![WeekAt(collector.now)] = Unbuilt]
          /\ collector' = Idle
    /\ UNCHANGED <<clock, received, moving, mailVars>>

\* mv, on the Hermes host; a move that is not answered in time may come later.
Move(k) ==
    /\ received' = [received EXCEPT ![k] = uploaded[k]]
    /\ uploaded' = [uploaded EXCEPT ![k] = Unbuilt]

Moves ==
    LET k == WeekAt(collector.now)
    IN  /\ collector.at = "moving"
        /\ collector' = Idle
        /\ \/ Move(k) /\ UNCHANGED moving
           \/ moving' = moving \union {k} /\ UNCHANGED <<uploaded, received>>
    /\ UNCHANGED <<clock, mailVars>>

\* It may find the staged copy of a later run, complete or not, or none at all.
MovesLate(k) ==
    /\ k \in moving
    /\ moving' = moving \ {k}
    /\ Move(k) \/ UNCHANGED <<uploaded, received>>
    /\ UNCHANGED <<clock, collector, mailVars>>

CollectorDies ==
    /\ collector # Idle
    /\ collector' = Idle
    /\ UNCHANGED <<clock, uploaded, received, moving, mailVars>>

-----------------------------------------------------------------------------
(* The Hermes host: dispatch *)

Locked == \E d \in Dispatches : dispatch[d].at \in {"sending", "accepted"}

\* snapshot_fresh: of this week, built after its close and within the last day.
SnapshotFresh(built, k, now) ==
    /\ built # Unbuilt
    /\ Closes(k) <= built
    /\ built <= now
    /\ now - built <= Day

DispatchBegins(d) ==
    /\ dispatch[d] = Resting
    /\ clock >= Nominal(WeekAt(clock))
    /\ dispatch' = [dispatch EXCEPT ![d] = [at |-> "locking", now |-> clock, built |-> Unbuilt]]
    /\ UNCHANGED <<clock, copyVars, delivery, letters>>

DispatchReturns(d) == dispatch' = [dispatch EXCEPT ![d] = Resting]

\* Mutant: only a recorded success ends the week.
MutAdmitsAgain(d) ==
    LET now == dispatch[d].now
        k == WeekAt(now)
    IN  /\ dispatch[d].at = "locking"
        /\ ~Locked
        /\ delivery[k] \notin {"sent", "skipped"}
        /\ now <= Deadline(k)
        /\ SnapshotFresh(received[k], k, now)
        /\ delivery' = [delivery EXCEPT ![k] = "attempted"]
        /\ dispatch' = [dispatch EXCEPT ![d].at = "sending", ![d].built = received[k]]
        /\ UNCHANGED <<clock, copyVars, letters>>

\* Under the lock: the attempt is on record before it is made.
Admits(d) ==
    LET now == dispatch[d].now
        k == WeekAt(now)
    IN  /\ dispatch[d].at = "locking"
        /\ ~Locked
        /\ delivery[k] \notin Final
        /\ now <= Deadline(k)
        /\ SnapshotFresh(received[k], k, now)
        /\ delivery' = [delivery EXCEPT ![k] = "attempted"]
        /\ dispatch' = [dispatch EXCEPT ![d].at = "sending", ![d].built = received[k]]
        /\ UNCHANGED <<clock, copyVars, letters>>

\* The week is settled, or its snapshot is not there yet; after the deadline it
\* is given up.
Declines(d) ==
    LET now == dispatch[d].now
        k == WeekAt(now)
    IN  /\ dispatch[d].at = "locking"
        /\ ~Locked
        /\ DispatchReturns(d)
        /\ \/ /\ delivery[k] \in Final
              /\ UNCHANGED delivery
           \/ /\ delivery[k] \notin Final
              /\ now > Deadline(k)
              /\ delivery' = [delivery EXCEPT ![k] = "skipped"]
           \/ /\ delivery[k] \notin Final
              /\ now <= Deadline(k)
              /\ ~SnapshotFresh(received[k], k, now)
              /\ UNCHANGED delivery
        /\ UNCHANGED <<clock, copyVars, letters>>

\* send: the mail server accepts the mail or not, and the answer may be lost.
SendsMail(d) ==
    LET now == dispatch[d].now
        k == WeekAt(now)
        copies == {m \in letters : m.week = k}
        letter == [week |-> k, copy |-> Cardinality(copies),
                   built |-> dispatch[d].built, sent |-> now]
    IN  /\ dispatch[d].at = "sending"
        /\ \/ /\ letters' = letters \union {letter}
              /\ \/ dispatch' = [dispatch EXCEPT ![d].at = "accepted"]
                 \/ DispatchReturns(d)
           \/ /\ DispatchReturns(d)
              /\ UNCHANGED letters
        /\ UNCHANGED <<clock, copyVars, delivery>>

Records(d) ==
    /\ dispatch[d].at = "accepted"
    /\ delivery' = [delivery EXCEPT ![WeekAt(dispatch[d].now)] = "sent"]
    /\ DispatchReturns(d)
    /\ UNCHANGED <<clock, copyVars, letters>>

\* The process dies, which frees its lock.
DispatchDies(d) ==
    /\ dispatch[d] # Resting
    /\ DispatchReturns(d)
    /\ UNCHANGED <<clock, copyVars, delivery, letters>>

-----------------------------------------------------------------------------
ClockTicks ==
    /\ clock < Closes(LastWeek + 1) - 1
    /\ \A d \in Dispatches : dispatch[d] = Resting
    /\ clock' = clock + 1
    /\ UNCHANGED <<copyVars, mailVars>>

MailNext ==
    \/ Collects \/ Builds \/ Uploads \/ Moves \/ CollectorDies
    \/ \E k \in Weeks : MovesLate(k)
    \/ \E d \in Dispatches :
          \/ DispatchBegins(d) \/ Admits(d) \/ Declines(d)
          \/ SendsMail(d) \/ Records(d) \/ DispatchDies(d)
    \/ ClockTicks

MailSpec == MailInit /\ [][MailNext]_weeklyVars

-----------------------------------------------------------------------------
(* Properties *)

\* A week is mailed at most once, and never after it was given up, whatever dies,
\* overlaps or goes unanswered: no attempt is repeated that the mail server may
\* have accepted.
MailedOnce ==
    \A k \in Weeks :
        LET mails == {m \in letters : m.week = k}
        IN  /\ Cardinality(mails) <= 1
            /\ mails # {} => delivery[k] \in {"attempted", "sent"}

\* What is mailed is a snapshot of the week it is about, built after the week had
\* closed and at most a day old, and it is mailed within the week's three days,
\* whatever was copied, half copied or moved late in between.
MailIsTimely ==
    \A m \in letters :
        /\ Nominal(m.week) <= m.sent /\ m.sent <= Deadline(m.week)
        /\ Closes(m.week) <= m.built /\ m.built <= m.sent
        /\ m.sent - m.built <= Day

\* Each week is mailed once, in time and with its own numbers.
MailIsRight == MailedOnce /\ MailIsTimely
=============================================================================
