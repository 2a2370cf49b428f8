-------------------------- MODULE FinanceJobsProofs --------------------------
(***************************************************************************)
(* Safety of the finance jobs for every number of users, subscriptions,    *)
(* requests and faults, every day, hour, zone and ticker.                  *)
(***************************************************************************)
EXTENDS FinanceJobs, TLAPS

-----------------------------------------------------------------------------
(* The inductive invariant: types and shapes.                              *)

Reasons == {"edit", "zone", "race", "fault"}

\* the users of the listed digests that are still to be looked at
Listed == IF job.pc \in {"digest", "markDigest"} THEN job.todo ELSE {}

JobShape ==
  /\ DOMAIN job = {"pc", "todo", "copy", "cur", "day"}
  /\ job.day \in Days
  /\ \A u \in Listed : u \in Users /\ job.copy[u] \in ConfRow
  /\ job.pc = "markDigest" => job.cur \notin job.todo

\* the due date can still be moved on
ReqShape == \A r \in Requests : Writes(r, "paid") => req[r].copy.due < MaxDue

HistoryShape ==
  /\ reminded \in [Subs -> [Days -> Nat]]
  /\ digests \in [Users -> [Days -> Nat]]
  /\ paid \in [Subs -> SUBSET DueDays]
  /\ spoilt \in [Subs \cup Users -> SUBSET Reasons]

TypeInv == TypeOK /\ JobShape /\ ReqShape /\ HistoryShape

-----------------------------------------------------------------------------
(* The inductive invariant: the reminders.                                 *)

Clean(k) == spoilt[k] \cap {"fault", "race"} = {}

\* the row of a subscription and what was read of it and will be written back
SubCopies(s) == {sub[s]} \cup {req[r].copy : r \in Open(s)}

\* a reminder that was mailed and is about to be marked
Reminding(s, d) == job.pc = "mark" /\ job.cur = s /\ job.day = d

\* dates of reminders are not in the future
PastInv ==
  /\ \A s \in Subs : \A c \in SubCopies(s) : c.sent = None \/ c.sent <= Today
  /\ job.pc \in {"remind", "mark"} => job.day <= Today

\* a mailed reminder is about to be marked, or every copy of the row says so
MailedIsMarked(s) ==
  \A d \in Days : reminded[s][d] >= 1 =>
    /\ reminded[s][d] = 1 /\ d <= Today
    /\ \/ Reminding(s, d) \/ sub[s].status = "deleted"
       \/ \A c \in SubCopies(s) : c.sent # None /\ c.sent >= d

\* what is listed was not mailed on the day of the list
ListedIsNew(s) == job.pc \in {"remind", "mark"} /\ s \in job.todo => reminded[s][job.day] = 0

RemindInv == \A s \in Subs : Clean(s) => MailedIsMarked(s) /\ ListedIsNew(s)

\* every copy of the row is due after all that was paid
PaidInv ==
  \A s \in Subs : "race" \notin spoilt[s] =>
    \A x \in paid[s] : \A c \in SubCopies(s) : x < c.due

-----------------------------------------------------------------------------
(* The inductive invariant: the digests.                                   *)

\* the settings of a user and what was read of them, by the goroutine too
ConfCopies(u) ==
  {conf[u]} \cup {req[r].copy : r \in Open(u)} \cup {job.copy[v] : v \in Listed \cap {u}}

\* a digest that was mailed and is about to be marked
Digesting(u, d) == job.pc = "markDigest" /\ job.cur = u /\ job.day = d

LocalDay(u) == Day(InZone(now, conf[u].zone))

\* a stored day had its digest
MailedInv ==
  /\ \A u \in Users : \A c \in ConfCopies(u) : c.sent # None => digests[u][c.sent] >= 1
  /\ job.pc = "markDigest" => digests[job.cur][job.day] >= 1

\* while the zone stays, every copy has it, and no stored day is in the future
ZoneInv ==
  \A u \in Users : "zone" \notin spoilt[u] =>
    /\ \A c \in ConfCopies(u) : c.zone = conf[u].zone /\ (c.sent = None \/ c.sent <= LocalDay(u))
    /\ job.pc = "markDigest" /\ job.cur = u => job.day <= LocalDay(u)

\* a mailed digest is about to be marked, or every copy of the settings says so
DigestIsMarked(u) ==
  \A d \in Days : digests[u][d] >= 1 =>
    /\ digests[u][d] = 1 /\ d <= LocalDay(u)
    /\ job.pc = "markDigest" /\ job.cur = u => d <= job.day
    /\ Digesting(u, d) \/ \A c \in ConfCopies(u) : c.sent # None /\ c.sent >= d

DigestInv ==
  \A u \in Users : Clean(u) /\ "zone" \notin spoilt[u] /\ conf[u].zone >= 0 => DigestIsMarked(u)

\* the pass of this tick is past u
Passed(u) ==
  /\ ~ticker
  /\ \/ job.pc = "idle"
     \/ job.pc \in {"digest", "markDigest"} /\ u \notin job.todo

\* when the hour of the digest of u on day d begins, and the last tick before it
Hour(u, d) == DigestTime(u, d) - conf[u].zone * PerHour
Before(u, d) == Ticks(Hour(u, d) - 1)

\* ticks of the hour of the digest that came, the last one not counted before its pass
Chances(u, d) ==
  IF now < Hour(u, d) THEN 0
  ELSE IF now >= Hour(u, d) + PerHour THEN Ticks(Hour(u, d) + PerHour - 1) - Before(u, d)
  ELSE IF Passed(u) THEN Ticks(now) - Before(u, d) ELSE Ticks(now) - Before(u, d) - 1

\* until there is a digest, each pass of its hour met a fault
HourInv ==
  \A u \in Users : ~slow /\ spoilt[u] \cap {"edit", "zone"} = {} /\ conf[u].enabled =>
    /\ u \in Listed => job.copy[u] = conf[u]
    /\ \A d \in Days : InZone(Start, conf[u].zone) < DigestTime(u, d) /\ digests[u][d] = 0
                         => faults >= Chances(u, d)

-----------------------------------------------------------------------------
(* The calendar                                                            *)

LEMMA DayLenType == DayLen \in Nat \ {0} /\ PerHour \in Nat \ {0} /\ Hours \in Nat \ {0} /\ PerHour <= DayLen
  BY Calendar DEF DayLen

\* The ticks are Every apart.
LEMMA TickType ==
  ASSUME NEW t \in Int, started \in Int
  PROVE  Ticks(t) \in Int
  BY Calendar DEF Ticks

LEMMA TicksOfHour ==
  ASSUME NEW t \in Int, started \in Int
  PROVE  Ticks(t + PerHour - 1) >= Ticks(t - 1) + PerHour \div Every
  <1> DEFINE x == t - 1 - started
             q == PerHour \div Every
             a == Ticks(t - 1)
             b == Ticks(t + PerHour - 1)
  <1>1. Every \in Nat \ {0} /\ PerHour \in Nat /\ x \in Int /\ q \in Int /\ a \in Int /\ b \in Int
    BY Calendar DEF Ticks
  <1>2. Every * q <= PerHour
    BY <1>1
  <1>3. Every * a <= x
    BY <1>1 DEF Ticks
  <1>4. x + PerHour < Every * (b + 1)
    BY <1>1 DEF Ticks
  <1>5. Every * (a + q) < Every * (b + 1)
    BY <1>1, <1>2, <1>3, <1>4
  <1>6. a + q < b + 1
    BY <1>1, <1>5
  <1> QED
    BY <1>1, <1>6

\* Hours begin at the multiples of PerHour.
LEMMA HourBegins ==
  ASSUME NEW n \in Int
  PROVE  (n * PerHour) % PerHour = 0
  BY DayLenType

\* Times fall on days, in their order.
LEMMA DayType ==
  ASSUME NEW t \in Int
  PROVE  Day(t) \in Int /\ (t >= 0 => Day(t) \in Nat)
  BY DayLenType DEF Day

LEMMA DayMonotone ==
  ASSUME NEW t \in Int, NEW u \in Int, t <= u
  PROVE  Day(t) <= Day(u)
  BY DayLenType DEF Day

LEMMA DaysNat == Days \subseteq Nat /\ 0 \in Days /\ DueDays \subseteq Nat /\ Start \in Nat /\ MaxTime \in Nat /\ MaxDue \in Nat /\ None \notin Int
  BY DayType, Calendar DEF Days, DueDays

\* A day is DayLen long.
LEMMA DayPlus ==
  ASSUME NEW t \in Int
  PROVE  Day(t + DayLen) = Day(t) + 1 /\ Day(t - DayLen) = Day(t) - 1
  BY DayLenType DEF Day

\* What lies within a day of a midnight is in the day that begins or in the one that ends.
LEMMA OffsetDay ==
  ASSUME NEW n \in Int, NEW o \in Int, -DayLen < o, o < DayLen
  PROVE  Day(n * DayLen + o) = IF o >= 0 THEN n ELSE n - 1
  BY DayLenType DEF Day

\* The days of the program, and those of its zones, are days of the model.
LEMMA TodayInDays ==
  ASSUME NEW t \in Start .. MaxTime
  PROVE  Day(t) \in Days /\ t \in Nat
  <1>1. t \in Int /\ 0 <= t /\ t <= MaxTime
    BY DaysNat
  <1> QED
    BY <1>1, DaysNat, DayMonotone, DayType DEF Days

LEMMA ZoneOffset ==
  ASSUME NEW z \in Zones
  PROVE  z \in Int /\ z * PerHour \in Int /\ -DayLen < z * PerHour /\ z * PerHour < DayLen
  BY Calendar DEF DayLen

LEMMA LocalInDays ==
  ASSUME NEW t \in Start .. MaxTime, NEW z \in Zones
  PROVE  InZone(t, z) \in Nat /\ Day(InZone(t, z)) \in Days
  <1>1. t \in Int /\ 2 * DayLen <= t /\ t <= MaxTime
    BY Calendar, DayLenType
  <1>2. InZone(t, z) \in Int /\ 0 <= InZone(t, z) /\ InZone(t, z) <= MaxTime + DayLen
    BY <1>1, ZoneOffset, DayLenType, DaysNat DEF InZone
  <1>3. MaxTime + DayLen \in Int /\ Day(MaxTime + DayLen) = Day(MaxTime) + 1
    BY DayPlus, DaysNat, DayLenType
  <1> QED
    BY <1>2, <1>3, DayMonotone, DayType, DaysNat DEF Days

\* A date stored as midnight UTC reads as itself from UTC eastwards and as the day before
\* west of it.
LEMMA StoredDay ==
  ASSUME NEW c \in ConfRow, c.sent # None
  PROVE  /\ c.sent \in Nat
         /\ LastDay(c) = IF c.zone >= 0 THEN c.sent ELSE c.sent - 1
  <1>1. c.zone \in Zones /\ c.sent \in Nat
    BY DaysNat DEF ConfRow
  <1>2. PICK o \in Int : o = c.zone * PerHour
    BY <1>1, ZoneOffset
  <1>3. c.zone \in Int /\ -DayLen < o /\ o < DayLen
    BY <1>1, <1>2, ZoneOffset
  <1>4. o >= 0 <=> c.zone >= 0
    BY <1>2, <1>3, DayLenType
  <1>5. c.sent \in Int
    BY <1>1
  <1>6. Day(c.sent * DayLen + o) = IF o >= 0 THEN c.sent ELSE c.sent - 1
    BY <1>3, <1>5, OffsetDay
  <1> QED
    BY <1>1, <1>2, <1>4, <1>6 DEF LastDay, InZone

\* The local times of an hour of a day.
LEMMA HourIsInterval ==
  ASSUME NEW t \in Int, NEW d \in Int, NEW h \in 0 .. Hours - 1
  PROVE  Day(t) = d /\ HourOf(t) = h <=>
           d * DayLen + h * PerHour <= t /\ t < d * DayLen + h * PerHour + PerHour
  BY DayLenType DEF Day, HourOf, DayLen

\* The same hour is a day apart on different days.
LEMMA HoursApart ==
  ASSUME NEW d \in Int, NEW e \in Int, d < e, NEW h \in Int
  PROVE  d * DayLen + h * PerHour + DayLen <= e * DayLen + h * PerHour
  <1>1. (d + 1) * DayLen <= e * DayLen
    BY DayLenType
  <1> QED
    BY <1>1, DayLenType

-----------------------------------------------------------------------------
(* Rows                                                                    *)

\* What a PATCH writes is a row that is not deleted, with the mark that was read.
LEMMA PatchedRow ==
  ASSUME NEW row \in SubRow, NEW f \in SubChanges
  PROVE  /\ With(row, f) \in SubRow /\ With(row, f).sent = row.sent
         /\ With(row, f).due = IF "due" \in DOMAIN f THEN f.due ELSE row.due
  BY Changes DEF With, SubRow

LEMMA PutRow ==
  ASSUME NEW row \in ConfRow, NEW f \in ConfChanges
  PROVE  /\ With(row, f) \in ConfRow /\ With(row, f).sent = row.sent
         /\ "zone" \notin DOMAIN f => With(row, f).zone = row.zone
  BY Changes DEF With, ConfRow

LEMMA SubRowSent ==
  ASSUME NEW row \in SubRow
  PROVE  row.sent \in Days \cup {None} /\ (row.sent # None => row.sent \in Nat)
  BY DaysNat DEF SubRow

LEMMA ConfRowSent ==
  ASSUME NEW row \in ConfRow
  PROVE  row.sent \in Days \cup {None} /\ (row.sent # None => row.sent \in Nat)
  BY DaysNat DEF ConfRow

-----------------------------------------------------------------------------
(* Types                                                                   *)

LEMMA InitType == Init => TypeInv
  <1> SUFFICES ASSUME Init
               PROVE  TypeInv
    OBVIOUS
  <1>1. Day(Start) \in DueDays /\ now \in Start .. MaxTime
    BY Changes, DaysNat, DayType, Calendar DEF Init, DueDays
  <1>2. sub \in [Subs -> SubRow] /\ conf \in [Users -> ConfRow]
    BY <1>1 DEF Init, SubRow, ConfRow
  <1>3. \A d : Mails(d) \in [Days -> Nat]
    BY DEF Mails
  <1>7. ReqShape /\ req \in [Requests -> Handler]
    BY DEF Init, ReqShape, NoRequest, Writes, Handler
  <1>8. job.pc = "idle" /\ faults \in 0 .. MaxFaults
    BY Calendar DEF Init, Idle
  <1>9. ticker \in BOOLEAN /\ slow \in BOOLEAN
    BY DEF Init
  <1>10. started \in Start .. now
    <2>1. started = Start /\ now = Start
      BY DEF Init
    <2> QED
      BY <2>1, DaysNat
  <1>4. TypeOK
    BY <1>1, <1>2, <1>7, <1>8, <1>9, <1>10 DEF TypeOK
  <1>5. JobShape
    BY DaysNat DEF Init, JobShape, Idle, Listed
  <1>6. HistoryShape
    BY <1>3 DEF Init, HistoryShape
  <1> QED
    BY <1>4, <1>5, <1>6, <1>7 DEF TypeInv

\* What a handler that has read holds.
LEMMA RequestType ==
  ASSUME TypeInv, NEW r \in Requests, req[r].pc = "write"
  PROVE  \/ Writes(r, "put") /\ req[r].key \in Users /\ req[r].copy \in ConfRow
         \/ /\ Writes(r, "patch") \/ Writes(r, "paid")
            /\ req[r].key \in Subs /\ req[r].copy \in SubRow
            /\ Writes(r, "paid") => req[r].copy.due < MaxDue
  BY DEF TypeInv, TypeOK, ReqShape, Writes, Handler

\* What is spoilt stays typed.
LEMMA SpoilType ==
  ASSUME TypeInv, NEW k \in Subs \cup Users, NEW why \in Reasons, Spoil(k, why)
  PROVE  spoilt' \in [Subs \cup Users -> SUBSET Reasons]
  BY DEF TypeInv, HistoryShape, Spoil

LEMMA FailureType ==
  ASSUME TypeInv, Failure
  PROVE  faults' \in 0 .. MaxFaults /\ faults' = faults + 1 /\ faults \in Nat
  BY Calendar DEF TypeInv, TypeOK, Failure

\* A handler reads a row.
LEMMA BeginType ==
  ASSUME TypeInv, NEW r \in Requests, NEW kind, NEW key, NEW row, Begin(r, kind, key, row),
         \/ kind = "put" /\ key \in Users /\ row \in ConfRow
         \/ kind \in {"patch", "paid"} /\ key \in Subs /\ row \in SubRow /\ (kind = "paid" => row.due < MaxDue)
  PROVE  TypeInv'
  <1>1. req' = [req EXCEPT ![r] = [pc |-> "write", kind |-> kind, key |-> key, copy |-> row]]
    BY DEF Begin
  <1>2. [pc |-> "write", kind |-> kind, key |-> key, copy |-> row] \in Handler
    BY DEF Handler
  <1>3. req' \in [Requests -> Handler]
    BY <1>1, <1>2 DEF TypeInv, TypeOK
  <1>4. ReqShape'
    BY <1>1 DEF TypeInv, TypeOK, ReqShape, Writes
  <1>5. TypeOK'
    BY <1>3 DEF Begin, tables, history, TypeInv, TypeOK, DueDays, Days, SubRow, ConfRow
  <1>6. JobShape' /\ HistoryShape'
    BY DEF Begin, tables, history, TypeInv, JobShape, Listed, HistoryShape
  <1> QED
    BY <1>4, <1>5, <1>6 DEF TypeInv

\* The goroutine after ListDigests.
LEMMA ListedJob ==
  ASSUME ListDigests
  PROVE  \/ job' = Idle
         \/ /\ DOMAIN job' = {"pc", "todo", "copy", "cur", "day"}
            /\ job'.pc = "digest" /\ job'.day = 0 /\ job'.cur = None
            /\ job'.todo = Enabled /\ job'.copy = [u \in Enabled |-> conf[u]]
  <1>1. CASE job' = Idle
    BY <1>1
  <1>2. CASE job' = [Idle EXCEPT !.pc = "digest", !.todo = Enabled, !.copy = [u \in Enabled |-> conf[u]]]
    BY <1>2 DEF Idle
  <1> QED
    BY <1>1, <1>2 DEF ListDigests

LEMMA TypeStep ==
  ASSUME TypeInv, [Next]_vars
  PROVE  TypeInv'
  <1> USE DEF TypeInv
  <1>1. CASE Clock
    <2>3. ticker' \in BOOLEAN /\ slow' \in BOOLEAN
      BY <1>1, Zenon DEF Clock
    <2>4. now' \in Start .. MaxTime
      BY <1>1, DaysNat DEF Clock, TypeOK
    <2>1. TypeOK'
      BY <1>1, <2>3, <2>4 DEF Clock, tables, history, TypeOK
    <2>2. JobShape' /\ ReqShape' /\ HistoryShape'
      BY <1>1 DEF Clock, tables, history, JobShape, Listed, ReqShape, Writes, HistoryShape
    <2> QED
      BY <2>1, <2>2
  <1>2. CASE ListReminders
    <2>1. Today \in Days
      BY TodayInDays DEF TypeOK, Today
    <2>2. job' = [Idle EXCEPT !.pc = "remind", !.day = Today, !.todo = job'.todo] /\ job'.todo \subseteq Subs
      BY <1>2 DEF ListReminders, Idle
    <2>3. faults' \in 0 .. MaxFaults
      BY <1>2, FailureType DEF ListReminders, TypeOK
    <2>4. TypeOK'
      BY <1>2, <2>2, <2>3 DEF ListReminders, tables, history, TypeOK, Idle, Handler
    <2>5. JobShape'
      BY <2>1, <2>2 DEF JobShape, Listed, Idle
    <2>6. ReqShape' /\ HistoryShape'
      BY <1>2 DEF ListReminders, tables, history, ReqShape, Writes, HistoryShape
    <2> QED
      BY <2>4, <2>5, <2>6
  <1>3. ASSUME NEW s \in Subs, Remind(s)
        PROVE  TypeInv'
    <2>1. /\ \/ job' = [job EXCEPT !.pc = "mark", !.todo = @ \ {s}, !.cur = s, !.day = job.day]
             \/ job' = [job EXCEPT !.pc = "remind", !.todo = @ \ {s}]
          /\ job.pc = "remind" /\ s \in job.todo
      BY <1>3 DEF Remind, Mailed
    <2>2. reminded' \in [Subs -> [Days -> Nat]]
      BY <1>3 DEF Remind, Mailed, JobShape, HistoryShape
    <2>3. faults' \in 0 .. MaxFaults
      BY <1>3, FailureType DEF Remind, Mailed, Fault, TypeOK
    <2>4. spoilt' \in [Subs \cup Users -> SUBSET Reasons]
      BY <1>3, SpoilType DEF Remind, Mailed, Fault, HistoryShape, Reasons
    <2>5. TypeOK'
      BY <1>3, <2>1, <2>3 DEF Remind, tables, TypeOK, JobShape
    <2>6. JobShape'
      BY <2>1 DEF JobShape, Listed
    <2>7. ReqShape' /\ HistoryShape'
      BY <1>3, <2>2, <2>4 DEF Remind, tables, ReqShape, Writes, HistoryShape
    <2> QED
      BY <2>5, <2>6, <2>7
  <1>4. CASE MarkReminder
    <2>1. Today \in Days
      BY TodayInDays DEF TypeOK, Today
    <2>2. sub' \in [Subs -> SubRow]
      BY <1>4, <2>1 DEF MarkReminder, TypeOK, SubRow
    <2>3. faults' \in 0 .. MaxFaults
      BY <1>4, FailureType DEF MarkReminder, Fault, TypeOK
    <2>4. spoilt' \in [Subs \cup Users -> SUBSET Reasons]
      BY <1>4, SpoilType DEF MarkReminder, Fault, TypeOK, HistoryShape, Reasons
    <2>5. job' = [job EXCEPT !.pc = "remind", !.cur = None] /\ job.pc = "mark"
      BY <1>4 DEF MarkReminder
    <2>6. TypeOK'
      BY <1>4, <2>2, <2>3, <2>5 DEF MarkReminder, TypeOK, JobShape
    <2>7. JobShape'
      BY <2>5 DEF JobShape, Listed
    <2>8. ReqShape' /\ HistoryShape'
      BY <1>4, <2>4 DEF MarkReminder, ReqShape, Writes, HistoryShape
    <2> QED
      BY <2>6, <2>7, <2>8
  <1>5. CASE ListDigests
    <2>1. faults' \in 0 .. MaxFaults
      BY <1>5, FailureType DEF ListDigests, TypeOK
    <2>2. \A u \in Enabled : u \in Users /\ conf[u] \in ConfRow
      BY DEF Enabled, TypeOK
    <2>3. TypeOK'
      BY <1>5, <2>1, ListedJob DEF ListDigests, tables, history, TypeOK, Idle
    <2>4. JobShape'
      BY <1>5, <2>2, ListedJob, DaysNat DEF JobShape, Listed, Idle, ConfRow, Days
    <2>5. ReqShape' /\ HistoryShape'
      BY <1>5 DEF ListDigests, tables, history, ReqShape, Writes, HistoryShape
    <2> QED
      BY <2>3, <2>4, <2>5
  <1>6. ASSUME NEW u \in Users, Digest(u)
        PROVE  TypeInv'
    <2> DEFINE d == Day(InZone(now, job.copy[u].zone))
    <2>1. /\ \/ job' = [job EXCEPT !.pc = "markDigest", !.todo = @ \ {u}, !.cur = u, !.day = d]
             \/ job' = [job EXCEPT !.pc = "digest", !.todo = @ \ {u}]
          /\ job.pc = "digest" /\ u \in job.todo
      BY <1>6 DEF Digest, Mailed
    <2>2. d \in Days
      <3>1. job.copy[u].zone \in Zones
        BY <2>1 DEF JobShape, Listed, ConfRow
      <3> QED
        BY <3>1, LocalInDays DEF TypeOK
    <2>3. digests' \in [Users -> [Days -> Nat]]
      BY <1>6, <2>2 DEF Digest, Mailed, HistoryShape
    <2>4. faults' \in 0 .. MaxFaults
      BY <1>6, FailureType DEF Digest, Mailed, Fault, TypeOK
    <2>5. spoilt' \in [Subs \cup Users -> SUBSET Reasons]
      BY <1>6, SpoilType DEF Digest, Mailed, Fault, HistoryShape, Reasons
    <2> HIDE DEF d
    <2>6. TypeOK'
      BY <1>6, <2>1, <2>4 DEF Digest, tables, TypeOK, JobShape
    <2>7. JobShape'
      <3>1. CASE job' = [job EXCEPT !.pc = "markDigest", !.todo = @ \ {u}, !.cur = u, !.day = d]
        BY <2>1, <2>2, <3>1 DEF JobShape, Listed, ConfRow, Days
      <3>2. CASE job' = [job EXCEPT !.pc = "digest", !.todo = @ \ {u}]
        BY <2>1, <3>2 DEF JobShape, Listed, ConfRow, Days
      <3> QED
        BY <2>1, <3>1, <3>2
    <2>8. ReqShape' /\ HistoryShape'
      BY <1>6, <2>3, <2>5 DEF Digest, tables, ReqShape, Writes, HistoryShape
    <2> QED
      BY <2>6, <2>7, <2>8
  <1>7. ASSUME NEW u \in Users, NoDigest(u)
        PROVE  TypeInv'
    <2>1. TypeOK'
      BY <1>7 DEF NoDigest, tables, history, TypeOK, JobShape
    <2>2. JobShape'
      BY <1>7 DEF NoDigest, JobShape, Listed, ConfRow, Days
    <2>3. ReqShape' /\ HistoryShape'
      BY <1>7 DEF NoDigest, tables, history, ReqShape, Writes, HistoryShape
    <2> QED
      BY <2>1, <2>2, <2>3
  <1>8. CASE MarkDigest
    <2>1. conf' \in [Users -> ConfRow]
      BY <1>8 DEF MarkDigest, TypeOK, JobShape, ConfRow
    <2>2. faults' \in 0 .. MaxFaults
      BY <1>8, FailureType DEF MarkDigest, Fault, TypeOK
    <2>3. spoilt' \in [Subs \cup Users -> SUBSET Reasons]
      BY <1>8, SpoilType DEF MarkDigest, Fault, TypeOK, HistoryShape, Reasons
    <2>4. job' = [job EXCEPT !.pc = "digest", !.cur = None] /\ job.pc = "markDigest"
      BY <1>8 DEF MarkDigest
    <2>5. TypeOK'
      BY <1>8, <2>1, <2>2, <2>4 DEF MarkDigest, TypeOK, JobShape
    <2>6. JobShape'
      BY <2>4 DEF JobShape, Listed, ConfRow, Days
    <2>7. ReqShape' /\ HistoryShape'
      BY <1>8, <2>3 DEF MarkDigest, ReqShape, Writes, HistoryShape
    <2> QED
      BY <2>5, <2>6, <2>7
  <1>9. CASE PassEnds
    <2>1. TypeOK'
      BY <1>9 DEF PassEnds, tables, history, TypeOK, Idle
    <2>2. JobShape'
      BY <1>9, DaysNat DEF PassEnds, JobShape, Listed, Idle
    <2>3. ReqShape' /\ HistoryShape'
      BY <1>9 DEF PassEnds, tables, history, ReqShape, Writes, HistoryShape
    <2> QED
      BY <2>1, <2>2, <2>3
  <1>10. ASSUME NEW r \in Requests, NEW kind \in {"patch", "paid"}, NEW s \in Subs, GetSubscription(r, kind, s)
         PROVE  TypeInv'
    BY <1>10, BeginType DEF GetSubscription, TypeOK
  <1>11. ASSUME NEW r \in Requests, NEW u \in Users, GetDigestSettings(r, u)
         PROVE  TypeInv'
    BY <1>11, BeginType DEF GetDigestSettings, TypeOK
  <1>12. ASSUME NEW r \in Requests, NEW f \in SubChanges, PatchSubscription(r, f)
         PROVE  TypeInv'
    <2>1. req' = [req EXCEPT ![r] = [NoRequest EXCEPT !.pc = "over"]] /\ Writes(r, "patch")
      BY <1>12 DEF PatchSubscription, End
    <2>2. req[r].key \in Subs /\ req[r].copy \in SubRow
      BY <2>1, RequestType DEF Writes
    <2>3. sub' \in [Subs -> SubRow]
      BY <1>12, <2>2, PatchedRow DEF PatchSubscription, TypeOK
    <2>4. paid' \in [Subs -> SUBSET DueDays]
      BY <1>12, <2>2 DEF PatchSubscription, HistoryShape
    <2>5. req' \in [Requests -> Handler]
      BY <2>1 DEF TypeOK, NoRequest, Handler
    <2>6. TypeOK' /\ HistoryShape'
      BY <1>12, <2>3, <2>4, <2>5 DEF PatchSubscription, TypeOK, HistoryShape
    <2>7. JobShape' /\ ReqShape'
      BY <1>12, <2>1 DEF PatchSubscription, JobShape, Listed, ReqShape, TypeOK, Writes, NoRequest
    <2> QED
      BY <2>6, <2>7
  <1>13. ASSUME NEW r \in Requests, Paid(r)
         PROVE  TypeInv'
    <2>1. req' = [req EXCEPT ![r] = [NoRequest EXCEPT !.pc = "over"]] /\ Writes(r, "paid")
      BY <1>13 DEF Paid, End
    <2>2. req[r].key \in Subs /\ req[r].copy \in SubRow /\ req[r].copy.due < MaxDue
      BY <2>1, RequestType DEF Writes
    <2>3. [req[r].copy EXCEPT !.due = @ + 1, !.sent = None] \in SubRow
      <3>1. req[r].copy.due + 1 \in DueDays
        <4>1. Day(Start) \in Int /\ MaxDue \in Int /\ req[r].copy.due \in Day(Start) .. MaxDue
          BY <2>2, DaysNat, DayType DEF SubRow, DueDays
        <4> QED
          BY <2>2, <4>1 DEF DueDays
      <3> QED
        BY <2>2, <3>1 DEF SubRow
    <2>4. sub' \in [Subs -> SubRow]
      BY <1>13, <2>2, <2>3 DEF Paid, TypeOK
    <2>5. paid' \in [Subs -> SUBSET DueDays] /\ reminded' \in [Subs -> [Days -> Nat]]
      <3>1. req[r].copy.due \in DueDays
        BY <2>2 DEF SubRow
      <3>2. Mails(None) \in [Days -> Nat]
        BY DEF Mails
      <3>3. paid' \in [Subs -> SUBSET DueDays]
        BY <1>13, <2>2, <3>1 DEF Paid, HistoryShape
      <3>4. reminded' \in [Subs -> [Days -> Nat]]
        BY <1>13, <2>2, <3>2 DEF Paid, HistoryShape
      <3> QED
        BY <3>3, <3>4
    <2>6. spoilt' \in [Subs \cup Users -> SUBSET Reasons]
      BY <1>13, <2>2, SpoilType DEF Paid, HistoryShape, Reasons
    <2>7. req' \in [Requests -> Handler]
      BY <2>1 DEF TypeOK, NoRequest, Handler
    <2>8. TypeOK' /\ HistoryShape'
      BY <1>13, <2>4, <2>5, <2>6, <2>7 DEF Paid, TypeOK, HistoryShape
    <2>9. JobShape' /\ ReqShape'
      BY <1>13, <2>1 DEF Paid, JobShape, Listed, ReqShape, TypeOK, Writes, NoRequest
    <2> QED
      BY <2>8, <2>9
  <1>14. ASSUME NEW r \in Requests, NEW s \in Subs, DeleteSubscription(r, s)
         PROVE  TypeInv'
    <2>1. req' = [req EXCEPT ![r] = [NoRequest EXCEPT !.pc = "over"]]
      BY <1>14 DEF DeleteSubscription, End
    <2>2. sub' \in [Subs -> SubRow]
      BY <1>14 DEF DeleteSubscription, TypeOK, SubRow
    <2>3. req' \in [Requests -> Handler]
      BY <2>1 DEF TypeOK, NoRequest, Handler
    <2>4. TypeOK' /\ HistoryShape'
      BY <1>14, <2>2, <2>3 DEF DeleteSubscription, history, TypeOK, HistoryShape
    <2>5. JobShape' /\ ReqShape'
      BY <1>14, <2>1 DEF DeleteSubscription, JobShape, Listed, ReqShape, TypeOK, Writes, NoRequest
    <2> QED
      BY <2>4, <2>5
  <1>15. ASSUME NEW r \in Requests, NEW f \in ConfChanges, PutDigestSettings(r, f)
         PROVE  TypeInv'
    <2>1. req' = [req EXCEPT ![r] = [NoRequest EXCEPT !.pc = "over"]] /\ Writes(r, "put")
      BY <1>15 DEF PutDigestSettings, End
    <2>2. req[r].key \in Users /\ req[r].copy \in ConfRow
      BY <2>1, RequestType DEF Writes
    <2>3. conf' \in [Users -> ConfRow]
      BY <1>15, <2>2, PutRow DEF PutDigestSettings, TypeOK
    <2>4. spoilt' \in [Subs \cup Users -> SUBSET Reasons]
      <3>1. PICK why \in {"zone", "edit"} : Spoil(req[r].key, why)
        BY <1>15 DEF PutDigestSettings
      <3> QED
        BY <2>2, <3>1, SpoilType DEF Reasons
    <2>5. req' \in [Requests -> Handler]
      BY <2>1 DEF TypeOK, NoRequest, Handler
    <2>6. TypeOK'
      BY <1>15, <2>3, <2>5 DEF PutDigestSettings, TypeOK
    <2>7. HistoryShape'
      BY <1>15, <2>4 DEF PutDigestSettings, HistoryShape
    <2>8. JobShape' /\ ReqShape'
      BY <1>15, <2>1 DEF PutDigestSettings, JobShape, Listed, ReqShape, TypeOK, Writes, NoRequest
    <2> QED
      BY <2>6, <2>7, <2>8
  <1>16. CASE Crash
    <2>1. /\ job' = Idle /\ ticker' = FALSE /\ slow' = TRUE
          /\ UNCHANGED <<now, sub, conf, reminded, digests, paid>>
      BY <1>16 DEF Crash, tables
    <2>2. \A r \in Requests : req'[r] = req[r] \/ req'[r] = [NoRequest EXCEPT !.pc = "over"]
      BY <1>16 DEF Crash
    <2>3. req' \in [Requests -> Handler]
      <3>1. [NoRequest EXCEPT !.pc = "over"] \in Handler
        BY DEF NoRequest, Handler
      <3> QED
        BY <1>16, <2>2, <3>1 DEF Crash, TypeOK
    <2>4. faults' \in 0 .. MaxFaults
      BY <1>16, FailureType DEF Crash
    <2>5. spoilt' \in [Subs \cup Users -> SUBSET Reasons]
      BY <1>16 DEF Crash, HistoryShape, Reasons
    <2>6. ticker' \in BOOLEAN /\ slow' \in BOOLEAN
      BY <2>1
    <2>10. started' \in Start .. now'
      BY <1>16, DaysNat DEF Crash, TypeOK
    <2>7. TypeOK'
      BY <2>1, <2>3, <2>4, <2>6, <2>10 DEF TypeOK, Idle
    <2>8. JobShape'
      BY <2>1, DaysNat DEF JobShape, Listed, Idle
    <2>9. ReqShape' /\ HistoryShape'
      BY <2>1, <2>2, <2>5 DEF ReqShape, HistoryShape, Writes, NoRequest
    <2> QED
      BY <2>7, <2>8, <2>9
  <1>17. CASE UNCHANGED vars
    BY <1>17 DEF vars, tables, history, TypeOK, JobShape, Listed, ReqShape, Writes, HistoryShape
  <1> QED
    BY <1>1, <1>2, <1>3, <1>4, <1>5, <1>6, <1>7, <1>8, <1>9, <1>10, <1>11, <1>12, <1>13, <1>14, <1>15, <1>16, <1>17
       DEF Next, JobStep, RequestStep

-----------------------------------------------------------------------------
(* What a step may do to time, to what is spoilt and to the copies of rows *)

LEMMA TimeGrows ==
  ASSUME TypeInv, [Next]_vars
  PROVE  /\ now \in Int /\ now' \in Int /\ now <= now'
         /\ Today \in Nat /\ Today' \in Nat /\ Today <= Today'
  <1>1. now \in Int /\ now' \in Int /\ now <= now' /\ 0 <= now
    <2>1. now \in Start .. MaxTime /\ (now' = now \/ now' = now + 1)
      BY DEF TypeInv, TypeOK, Next, vars, Clock, JobStep, ListReminders, Remind, MarkReminder, ListDigests,
             Digest, NoDigest, MarkDigest, PassEnds, RequestStep, GetSubscription, GetDigestSettings, Begin,
             PatchSubscription, Paid, DeleteSubscription, PutDigestSettings, Crash
    <2> QED
      BY <2>1, DaysNat
  <1> QED
    BY <1>1, DayMonotone, DayType DEF Today

LEMMA SpoiltGrows ==
  ASSUME TypeInv, [Next]_vars, NEW k \in Subs \cup Users
  PROVE  spoilt[k] \subseteq spoilt'[k]
  <1>1. UNCHANGED spoilt \/ Crash \/ \E j, why : Spoil(j, why)
    BY Zenon DEF Next, vars, history, Clock, JobStep, ListReminders, Remind, MarkReminder, ListDigests,
           Digest, NoDigest, MarkDigest, PassEnds, RequestStep, GetSubscription, GetDigestSettings, Begin,
           PatchSubscription, Paid, DeleteSubscription, PutDigestSettings, Mailed, Fault
  <1>2. CASE Crash
    BY <1>2 DEF Crash
  <1>3. CASE \E j, why : Spoil(j, why)
    BY <1>3 DEF Spoil, TypeInv, HistoryShape
  <1> QED
    BY <1>1, <1>2, <1>3

\* A handler goes on as it was, ends, or reads a row as it is.
LEMMA HandlerStep ==
  ASSUME TypeInv, [Next]_vars, NEW q \in Requests, req'[q].pc = "write"
  PROVE  \/ req'[q] = req[q]
         \/ req'[q].key \in Subs /\ req'[q].copy = sub[req'[q].key]
         \/ req'[q].key \in Users /\ req'[q].copy = conf[req'[q].key]
  <1>1. req \in [Requests -> Handler]
    BY DEF TypeInv, TypeOK
  <1>2. CASE UNCHANGED req
    BY <1>2
  <1>3. ASSUME NEW r \in Requests, End(r)
        PROVE  req'[q] = req[q]
    BY <1>1, <1>3 DEF End, NoRequest
  <1>4. ASSUME NEW r \in Requests, NEW kind, NEW s \in Subs, Begin(r, kind, s, sub[s])
        PROVE  req'[q] = req[q] \/ (req'[q].key \in Subs /\ req'[q].copy = sub[req'[q].key])
    <2>1. req'[q] = IF q = r THEN [pc |-> "write", kind |-> kind, key |-> s, copy |-> sub[s]] ELSE req[q]
      BY <1>1, <1>4 DEF Begin
    <2> QED
      BY <2>1
  <1>5. ASSUME NEW r \in Requests, NEW kind, NEW u \in Users, Begin(r, kind, u, conf[u])
        PROVE  req'[q] = req[q] \/ (req'[q].key \in Users /\ req'[q].copy = conf[req'[q].key])
    <2>1. req'[q] = IF q = r THEN [pc |-> "write", kind |-> kind, key |-> u, copy |-> conf[u]] ELSE req[q]
      BY <1>1, <1>5 DEF Begin
    <2> QED
      BY <2>1
  <1>6. CASE Crash
    BY <1>6 DEF Crash, NoRequest
  <1>7. \/ UNCHANGED req \/ Crash
        \/ \E r \in Requests : End(r)
        \/ \E r \in Requests, kind \in {"patch", "paid"}, s \in Subs : Begin(r, kind, s, sub[s])
        \/ \E r \in Requests, u \in Users : Begin(r, "put", u, conf[u])
    BY Zenon DEF Next, vars, Clock, JobStep, ListReminders, Remind, MarkReminder, ListDigests,
           Digest, NoDigest, MarkDigest, PassEnds, RequestStep, GetSubscription, GetDigestSettings,
           PatchSubscription, Paid, DeleteSubscription, PutDigestSettings
  <1> QED
    BY <1>2, <1>3, <1>4, <1>5, <1>6, <1>7

\* A copy of a subscription is one that was there, or the new row.
LEMMA SubCopiesStep ==
  ASSUME TypeInv, [Next]_vars, NEW s \in Subs
  PROVE  /\ SubCopies(s) \subseteq SubRow /\ sub[s] \in SubCopies(s)
         /\ SubCopies(s)' \subseteq SubCopies(s) \cup {sub'[s]}
  <1>1. \A r \in Open(s) : req[r].copy \in SubRow
    BY RequestType, Calendar DEF Open, Writes, TypeInv, TypeOK, Handler
  <1>2. \A r \in Open(s)' : req'[r].copy \in SubCopies(s)
    <2> TAKE r \in Open(s)'
    <2>1. r \in Requests /\ req'[r].pc = "write" /\ req'[r].key = s
      BY DEF Open
    <2>2. \/ req'[r] = req[r]
          \/ req'[r].key \in Subs /\ req'[r].copy = sub[req'[r].key]
          \/ req'[r].key \in Users /\ req'[r].copy = conf[req'[r].key]
      BY <2>1, HandlerStep
    <2>3. CASE req'[r] = req[r]
      BY <2>1, <2>3 DEF SubCopies, Open
    <2> QED
      BY <2>1, <2>2, <2>3, Calendar DEF SubCopies
  <1> QED
    BY <1>1, <1>2 DEF SubCopies, TypeInv, TypeOK

\* A row changes when its reminder is marked, and when a handler writes or deletes it.
LEMMA RowStep ==
  ASSUME TypeInv, [Next]_vars, NEW s \in Subs
  PROVE  \/ sub'[s] = sub[s]
         \/ MarkReminder /\ job.cur = s /\ sub'[s] = [sub[s] EXCEPT !.sent = Today]
         \/ \E r \in Requests, f \in SubChanges :
              /\ PatchSubscription(r, f) /\ r \in Open(s)
              /\ req[r].copy \in SubRow /\ sub'[s] = With(req[r].copy, f)
         \/ \E r \in Requests :
              /\ Paid(r) /\ r \in Open(s)
              /\ req[r].copy \in SubRow /\ sub'[s] = [req[r].copy EXCEPT !.due = @ + 1, !.sent = None]
         \/ sub'[s] = [sub[s] EXCEPT !.status = "deleted"]
  <1>1. \/ UNCHANGED sub \/ MarkReminder
        \/ \E r \in Requests, f \in SubChanges : PatchSubscription(r, f)
        \/ \E r \in Requests : Paid(r)
        \/ \E r \in Requests, t \in Subs : DeleteSubscription(r, t)
    BY Zenon DEF Next, vars, tables, Clock, JobStep, ListReminders, Remind, ListDigests,
           Digest, NoDigest, MarkDigest, PassEnds, RequestStep, GetSubscription, GetDigestSettings, Begin,
           PutDigestSettings, Crash
  <1>2. sub \in [Subs -> SubRow]
    BY DEF TypeInv, TypeOK
  <1>3. CASE MarkReminder
    BY <1>2, <1>3 DEF MarkReminder
  <1>4. ASSUME NEW r \in Requests, NEW f \in SubChanges, PatchSubscription(r, f)
        PROVE  \/ sub'[s] = sub[s]
               \/ /\ PatchSubscription(r, f) /\ r \in Open(s)
                  /\ req[r].copy \in SubRow /\ sub'[s] = With(req[r].copy, f)
    <2>1. req[r].key \in Subs /\ req[r].copy \in SubRow
      BY <1>4, RequestType DEF PatchSubscription, Writes
    <2> QED
      BY <1>2, <1>4, <2>1 DEF PatchSubscription, Open, Writes
  <1>5. ASSUME NEW r \in Requests, Paid(r)
        PROVE  \/ sub'[s] = sub[s]
               \/ /\ Paid(r) /\ r \in Open(s)
                  /\ req[r].copy \in SubRow /\ sub'[s] = [req[r].copy EXCEPT !.due = @ + 1, !.sent = None]
    <2>1. req[r].key \in Subs /\ req[r].copy \in SubRow
      BY <1>5, RequestType DEF Paid, Writes
    <2> QED
      BY <1>2, <1>5, <2>1 DEF Paid, Open, Writes
  <1>6. ASSUME NEW r \in Requests, NEW t \in Subs, DeleteSubscription(r, t)
        PROVE  sub'[s] = sub[s] \/ sub'[s] = [sub[s] EXCEPT !.status = "deleted"]
    BY <1>2, <1>6 DEF DeleteSubscription
  <1> QED
    BY <1>1, <1>3, <1>4, <1>5, <1>6

-----------------------------------------------------------------------------
(* Reminders                                                               *)

LEMMA PastStep ==
  ASSUME TypeInv, PastInv, [Next]_vars
  PROVE  PastInv'
  <1>1. ASSUME NEW s \in Subs, NEW c \in SubCopies(s)'
        PROVE  c.sent = None \/ c.sent <= Today'
    <2>1. SubCopies(s) \subseteq SubRow /\ sub[s] \in SubCopies(s)
          /\ SubCopies(s)' \subseteq SubCopies(s) \cup {sub'[s]}
      BY SubCopiesStep
    <2>2. \A x \in SubCopies(s) : x.sent = None \/ (x.sent \in Nat /\ x.sent <= Today)
      BY <2>1, SubRowSent DEF PastInv
    <2>3. Today \in Nat /\ Today' \in Nat /\ Today <= Today'
      BY TimeGrows
    <2>4. \A x \in SubCopies(s) : x.sent = None \/ x.sent <= Today'
      BY <2>2, <2>3
    <2>5. CASE c \in SubCopies(s)
      BY <2>4, <2>5
    <2>6. CASE c = sub'[s]
      <3>1. CASE sub'[s] = sub[s]
        BY <2>1, <2>4, <2>6, <3>1
      <3>2. CASE sub'[s] = [sub[s] EXCEPT !.sent = Today]
        BY <2>1, <2>3, <2>6, <3>2 DEF SubRow
      <3>3. ASSUME NEW r \in Open(s), NEW f \in SubChanges, req[r].copy \in SubRow, sub'[s] = With(req[r].copy, f)
            PROVE  c.sent = None \/ c.sent <= Today'
        BY <2>4, <2>6, <3>3, PatchedRow DEF SubCopies
      <3>4. ASSUME NEW r \in Open(s), req[r].copy \in SubRow, sub'[s] = [req[r].copy EXCEPT !.due = @ + 1, !.sent = None]
            PROVE  c.sent = None
        BY <2>6, <3>4 DEF SubRow
      <3>5. CASE sub'[s] = [sub[s] EXCEPT !.status = "deleted"]
        BY <2>1, <2>4, <2>6, <3>5 DEF SubRow
      <3> QED
        BY <3>1, <3>2, <3>3, <3>4, <3>5, RowStep
    <2> QED
      BY <2>1, <2>5, <2>6
  <1>2. ASSUME job'.pc \in {"remind", "mark"}
        PROVE  job'.day <= Today'
    <2>1. \/ job'.day = job.day /\ job.pc \in {"remind", "mark"}
          \/ job'.day = Today
      <3>1. CASE ListReminders
        BY <3>1 DEF ListReminders, Idle
      <3>2. ASSUME NEW s \in Subs, Remind(s)
            PROVE  job'.day = job.day /\ job.pc \in {"remind", "mark"}
        BY <3>2 DEF Remind, Mailed, TypeInv, JobShape
      <3>3. CASE MarkReminder
        BY <3>3 DEF MarkReminder, TypeInv, JobShape
      <3>4. CASE ListDigests
        BY <1>2, <3>4, ListedJob DEF Idle
      <3>5. ASSUME NEW u \in Users, Digest(u) \/ NoDigest(u)
            PROVE  FALSE
        BY <1>2, <3>5 DEF Digest, NoDigest, Mailed, TypeInv, JobShape
      <3>6. CASE MarkDigest
        BY <1>2, <3>6 DEF MarkDigest, TypeInv, JobShape
      <3>9. CASE PassEnds \/ Crash
        <4>1. job' = Idle
          BY <3>9 DEF PassEnds, Crash
        <4> QED
          BY <1>2, <4>1 DEF Idle
      <3>7. CASE UNCHANGED job
        BY <1>2, <3>7
      <3>8. UNCHANGED job \/ JobStep \/ Crash
        BY Zenon DEF Next, vars, Clock, RequestStep, GetSubscription, GetDigestSettings, Begin,
               PatchSubscription, Paid, DeleteSubscription, PutDigestSettings
      <3> QED
        BY <3>1, <3>2, <3>3, <3>4, <3>5, <3>6, <3>7, <3>8, <3>9 DEF JobStep
    <2>2. job.day \in Nat
      BY DaysNat DEF TypeInv, JobShape
    <2> QED
      BY <2>1, <2>2, TimeGrows DEF PastInv
  <1> QED
    BY <1>1, <1>2 DEF PastInv

LEMMA PaidStep ==
  ASSUME TypeInv, PaidInv, [Next]_vars
  PROVE  PaidInv'
  <1> SUFFICES ASSUME NEW s \in Subs, "race" \notin spoilt'[s], NEW x \in paid'[s], NEW c \in SubCopies(s)'
               PROVE  x < c.due
    BY DEF PaidInv
  <1>1. SubCopies(s) \subseteq SubRow /\ sub[s] \in SubCopies(s)
        /\ SubCopies(s)' \subseteq SubCopies(s) \cup {sub'[s]}
    BY SubCopiesStep
  <1>2. "race" \notin spoilt[s]
    BY SpoiltGrows
  <1>3. \A y \in paid[s] : \A z \in SubCopies(s) : y < z.due
    BY <1>2 DEF PaidInv
  <1>4. CASE \E r \in Requests, f \in SubChanges : PatchSubscription(r, f)
    <2>1. PICK r \in Requests, f \in SubChanges : PatchSubscription(r, f)
      BY <1>4
    <2>2. req[r].key \in Subs /\ req[r].copy \in SubRow
      BY <2>1, RequestType DEF PatchSubscription, Writes
    <2>3. CASE UNCHANGED <<sub, paid>> \/ req[r].key # s
      <3>1. sub'[s] = sub[s] /\ paid'[s] = paid[s]
        BY <2>1, <2>3 DEF PatchSubscription, TypeInv, TypeOK, HistoryShape
      <3> QED
        BY <1>1, <1>3, <3>1
    <2>4. CASE ~UNCHANGED <<sub, paid>> /\ req[r].key = s
      <3>1. /\ paid'[s] = IF "due" \in DOMAIN f THEN {d \in paid[s] : d < f.due} ELSE paid[s]
            /\ sub'[s] = With(req[r].copy, f)
        BY <2>1, <2>4 DEF PatchSubscription, TypeInv, TypeOK, HistoryShape
      <3>2. req[r].copy \in SubCopies(s)
        BY <2>1, <2>4 DEF SubCopies, Open, PatchSubscription, Writes
      <3>3. x \in paid[s] /\ x < req[r].copy.due /\ ("due" \in DOMAIN f => x < f.due)
        BY <1>3, <3>1, <3>2
      <3>4. x < With(req[r].copy, f).due
        BY <2>2, <3>3, PatchedRow
      <3> QED
        BY <1>1, <1>3, <3>1, <3>3, <3>4
    <2> QED
      BY <2>3, <2>4
  <1>5. CASE \E r \in Requests : Paid(r)
    <2>1. PICK r \in Requests : Paid(r)
      BY <1>5
    <2>2. req[r].key \in Subs /\ req[r].copy \in SubRow
      BY <2>1, RequestType DEF Paid, Writes
    <2>3. CASE UNCHANGED <<sub, paid>> \/ req[r].key # s
      <3>1. sub'[s] = sub[s] /\ paid'[s] = paid[s]
        BY <2>1, <2>3 DEF Paid, TypeInv, TypeOK, HistoryShape
      <3> QED
        BY <1>1, <1>3, <3>1
    <2>4. CASE ~UNCHANGED <<sub, paid>> /\ req[r].key = s
      <3>1. /\ paid'[s] = paid[s] \cup {req[r].copy.due}
            /\ sub'[s] = [req[r].copy EXCEPT !.due = @ + 1, !.sent = None]
            /\ Overwritten(s, {r}) => Spoil(s, "race")
        BY <2>1, <2>4 DEF Paid, TypeInv, TypeOK, HistoryShape
      <3>2. Open(s) \subseteq {r}
        BY <3>1 DEF Overwritten, Spoil, TypeInv, HistoryShape
      <3>3. req[r].copy \in SubCopies(s) /\ req[r].copy.due \in Nat
        BY <2>1, <2>2, <2>4, DaysNat DEF SubCopies, Open, Paid, Writes, SubRow
      <3>4. sub'[s].due = req[r].copy.due + 1
        BY <2>2, <3>1 DEF SubRow
      <3>5. SubCopies(s)' = {sub'[s]}
        <4>1. Open(s)' = {}
          BY <2>1, <3>2 DEF Paid, End, Open, NoRequest, TypeInv, TypeOK
        <4> QED
          BY <4>1 DEF SubCopies
      <3>6. x \in Nat /\ (x < req[r].copy.due \/ x = req[r].copy.due)
        BY <1>3, <3>1, <3>3, DaysNat DEF TypeInv, HistoryShape
      <3> QED
        BY <3>3, <3>4, <3>5, <3>6
    <2> QED
      BY <2>3, <2>4
  <1>6. CASE UNCHANGED paid /\ sub'[s].due = sub[s].due
    BY <1>1, <1>3, <1>6
  <1>7. \/ \E r \in Requests, f \in SubChanges : PatchSubscription(r, f)
        \/ \E r \in Requests : Paid(r)
        \/ UNCHANGED paid
    BY Zenon DEF Next, vars, history, Clock, JobStep, ListReminders, Remind, MarkReminder, ListDigests,
           Digest, NoDigest, MarkDigest, PassEnds, RequestStep, GetSubscription, GetDigestSettings, Begin,
           DeleteSubscription, PutDigestSettings, Crash
  <1>8. \/ \E r \in Requests, f \in SubChanges : PatchSubscription(r, f)
        \/ \E r \in Requests : Paid(r)
        \/ sub'[s].due = sub[s].due
    BY <1>1, RowStep DEF SubRow
  <1> QED
    BY <1>4, <1>5, <1>6, <1>7, <1>8

LEMMA RemindStep ==
  ASSUME TypeInv, TypeInv', PastInv, RemindInv, [Next]_vars
  PROVE  RemindInv'
  <1> SUFFICES ASSUME NEW s \in Subs, Clean(s)'
               PROVE  MailedIsMarked(s)' /\ ListedIsNew(s)'
    BY DEF RemindInv
  <1>1. Clean(s) /\ MailedIsMarked(s) /\ ListedIsNew(s)
    BY SpoiltGrows DEF Clean, RemindInv
  <1>2. /\ SubCopies(s) \subseteq SubRow /\ sub[s] \in SubCopies(s)
        /\ SubCopies(s)' \subseteq SubCopies(s) \cup {sub'[s]}
    BY SubCopiesStep
  <1>3. /\ \A c \in SubCopies(s) : c.sent # None => c.sent \in Nat
        /\ reminded[s] \in [Days -> Nat] /\ job.day \in Days /\ Days \subseteq Nat
        /\ Today \in Days /\ Today' \in Nat /\ Today <= Today'
    BY <1>2, SubRowSent, TimeGrows, TodayInDays, DaysNat DEF TypeInv, TypeOK, HistoryShape, JobShape, Today
  \* s keeps its row, or the mark of a copy of it, and neither mails nor the goroutine change
  <1>4. ASSUME UNCHANGED job, reminded'[s] = reminded[s],
               sub[s].status = "deleted" => sub'[s].status = "deleted",
               sub'[s].status = "deleted" \/ \E c \in SubCopies(s) : sub'[s].sent = c.sent
        PROVE  MailedIsMarked(s)' /\ ListedIsNew(s)'
    <2>1. ListedIsNew(s)'
      BY <1>1, <1>4 DEF ListedIsNew
    <2>2. ASSUME NEW d \in Days, reminded'[s][d] >= 1
          PROVE  /\ reminded'[s][d] = 1 /\ d <= Today'
                 /\ \/ Reminding(s, d)' \/ sub'[s].status = "deleted"
                    \/ \A c \in SubCopies(s)' : c.sent # None /\ c.sent >= d
      BY <1>1, <1>2, <1>3, <1>4, <2>2 DEF MailedIsMarked, Reminding
    <2> QED
      BY <2>1, <2>2 DEF MailedIsMarked, Days
  \* nothing was about to be marked
  <1>5. ASSUME UNCHANGED <<sub, reminded>>, \A d \in Days : ~Reminding(s, d)
        PROVE  MailedIsMarked(s)'
    <2>1. SubCopies(s)' \subseteq SubCopies(s)
      BY <1>2, <1>5
    <2>2. ASSUME NEW d \in Days, reminded'[s][d] >= 1
          PROVE  /\ reminded'[s][d] = 1 /\ d <= Today'
                 /\ sub'[s].status = "deleted" \/ \A c \in SubCopies(s)' : c.sent # None /\ c.sent >= d
      BY <1>1, <1>3, <1>5, <2>1, <2>2 DEF MailedIsMarked
    <2> QED
      BY <2>2 DEF MailedIsMarked, Days
  <1>6. CASE ListReminders
    <2>1. job.pc = "idle" /\ UNCHANGED <<sub, reminded>>
      BY <1>6 DEF ListReminders, tables, history
    <2>2. MailedIsMarked(s)'
      BY <1>5, <2>1 DEF Reminding
    <2>3. job'.day = Today /\ (s \in job'.todo => DueForReminder(s, Today))
      BY <1>6 DEF ListReminders, Idle
    <2>4. ASSUME s \in job'.todo
          PROVE  reminded[s][Today] = 0
      <3>1. sub[s].status = "active" /\ (sub[s].sent = None \/ sub[s].sent < Today)
        BY <2>3, <2>4 DEF DueForReminder
      <3>2. ~(reminded[s][Today] >= 1)
        BY <1>1, <1>2, <1>3, <2>1, <3>1 DEF MailedIsMarked, Reminding
      <3>3. reminded[s][Today] \in Nat
        BY <1>3
      <3> QED
        BY <3>2, <3>3
    <2> QED
      BY <2>1, <2>2, <2>3, <2>4 DEF ListedIsNew
  <1>7. ASSUME NEW t \in Subs, Remind(t)
        PROVE  MailedIsMarked(s)' /\ ListedIsNew(s)'
    <2>1. job.pc = "remind" /\ t \in job.todo /\ UNCHANGED <<sub, req, now>>
      BY <1>7 DEF Remind, tables
    <2>2. SubCopies(s)' = SubCopies(s) /\ Today' = Today
      BY <2>1 DEF SubCopies, Open, Today
    <2>3. job'.todo = job.todo \ {t} /\ job'.day = job.day
      BY <1>7 DEF Remind, Mailed, TypeInv, JobShape
    <2>4. CASE t # s
      <3>1. reminded'[s] = reminded[s]
        BY <1>7, <2>4 DEF Remind, Mailed, TypeInv, HistoryShape
      <3> QED
        BY <1>1, <2>1, <2>2, <2>3, <2>4, <3>1 DEF MailedIsMarked, ListedIsNew, Reminding
    <2>5. CASE t = s
      <3>1. ~Fault(s)
        BY DEF Fault, Spoil, Clean, TypeInv, HistoryShape
      <3>2. /\ reminded' = [reminded EXCEPT ![s][job.day] = @ + 1]
            /\ job'.pc = "mark" /\ job'.cur = s
        BY <1>7, <2>5, <3>1 DEF Remind, Mailed, TypeInv, JobShape
      <3>3. reminded[s][job.day] = 0 /\ job.day <= Today
        BY <1>1, <2>1, <2>5 DEF ListedIsNew, PastInv
      <3>4. reminded'[s] = [reminded[s] EXCEPT ![job.day] = 1]
        BY <1>3, <3>2, <3>3 DEF TypeInv, HistoryShape
      <3>5. ASSUME NEW d \in Days, reminded'[s][d] >= 1
            PROVE  /\ reminded'[s][d] = 1 /\ d <= Today'
                   /\ \/ Reminding(s, d)' \/ sub'[s].status = "deleted"
                      \/ \A c \in SubCopies(s)' : c.sent # None /\ c.sent >= d
        <4>1. CASE d = job.day
          BY <1>3, <2>2, <2>3, <3>2, <3>3, <3>4, <4>1 DEF Reminding
        <4>2. CASE d # job.day
          <5>1. reminded[s][d] = reminded'[s][d] /\ ~Reminding(s, d)
            BY <1>3, <2>1, <3>4, <4>2 DEF Reminding
          <5> QED
            BY <1>1, <2>1, <2>2, <3>5, <5>1 DEF MailedIsMarked
        <4> QED
          BY <4>1, <4>2
      <3> QED
        BY <2>3, <2>5, <3>5 DEF MailedIsMarked, ListedIsNew, Days
    <2> QED
      BY <2>4, <2>5
  <1>8. CASE MarkReminder
    <2>1. /\ job' = [job EXCEPT !.pc = "remind", !.cur = None] /\ job.pc = "mark"
          /\ UNCHANGED <<reminded, req, now>>
      BY <1>8 DEF MarkReminder
    <2>2. ListedIsNew(s)'
      BY <1>1, <2>1 DEF ListedIsNew, TypeInv, JobShape
    <2>3. CASE job.cur # s
      <3>1. sub'[s] = sub[s]
        BY <1>8, <2>3 DEF MarkReminder, TypeInv, TypeOK
      <3>2. SubCopies(s)' = SubCopies(s) /\ Today' = Today
        BY <2>1, <3>1 DEF SubCopies, Open, Today
      <3> QED
        BY <1>1, <2>1, <2>2, <2>3, <3>1, <3>2 DEF MailedIsMarked, Reminding
    <2>4. CASE job.cur = s
      <3>1. ~Fault(s) /\ ~Spoil(s, "race")
        BY DEF Fault, Spoil, Clean, TypeInv, HistoryShape
      <3>2. /\ Open(s) = {}
            /\ sub' = IF sub[s].status = "deleted" THEN sub ELSE [sub EXCEPT ![s].sent = Today]
        BY <1>8, <2>4, <3>1 DEF MarkReminder, Overwritten
      <3>3. CASE sub[s].status = "deleted"
        BY <1>1, <1>3, <2>1, <2>2, <3>2, <3>3 DEF MailedIsMarked, Today
      <3>4. CASE sub[s].status # "deleted"
        <4>1. SubCopies(s)' = {sub'[s]} /\ sub'[s].sent = Today
          BY <1>2, <2>1, <3>2, <3>4 DEF SubCopies, Open, TypeInv, TypeOK, SubRow
        <4>2. Today # None
          BY <1>3, DaysNat
        <4> QED
          BY <1>1, <1>3, <2>1, <2>2, <4>1, <4>2 DEF MailedIsMarked, Today
      <3> QED
        BY <3>3, <3>4
    <2> QED
      BY <2>3, <2>4
  <1>9. CASE \/ ListDigests \/ MarkDigest \/ PassEnds
            \/ \E u \in Users : Digest(u) \/ NoDigest(u)
    <2>1. UNCHANGED <<sub, reminded>> /\ job.pc \in {"remind", "digest", "markDigest"}
      BY <1>9 DEF ListDigests, Digest, NoDigest, MarkDigest, PassEnds, tables, history
    <2>2. job'.pc \notin {"remind", "mark"}
      <3>1. CASE ListDigests
        BY <3>1, ListedJob DEF Idle
      <3>2. CASE PassEnds
        BY <3>2 DEF PassEnds, Idle
      <3>3. CASE MarkDigest
        BY <3>3 DEF MarkDigest, TypeInv, JobShape
      <3>4. ASSUME NEW u \in Users, Digest(u) \/ NoDigest(u)
            PROVE  job'.pc \notin {"remind", "mark"}
        BY <3>4 DEF Digest, NoDigest, Mailed, TypeInv, JobShape
      <3> QED
        BY <1>9, <3>1, <3>2, <3>3, <3>4
    <2> QED
      BY <1>5, <2>1, <2>2 DEF Reminding, ListedIsNew
  <1>10. CASE Crash
    <2>1. job.cur # s
      BY <1>10 DEF Crash, Clean, TypeInv, HistoryShape
    <2>2. UNCHANGED <<sub, reminded>> /\ job'.pc = "idle"
      BY <1>10 DEF Crash, tables, Idle
    <2> QED
      BY <1>5, <2>1, <2>2 DEF Reminding, ListedIsNew
  <1>11. CASE UNCHANGED <<job, sub, reminded>>
    BY <1>2, <1>4, <1>11
  <1>12. ASSUME NEW r \in Requests, NEW f \in SubChanges, PatchSubscription(r, f)
         PROVE  MailedIsMarked(s)' /\ ListedIsNew(s)'
    <2>1. UNCHANGED <<job, reminded>> /\ (sub[s].status = "deleted" => sub'[s] = sub[s])
      BY <1>12 DEF PatchSubscription, TypeInv, TypeOK
    <2>2. req[r].key \in Subs /\ req[r].copy \in SubRow
      BY <1>12, RequestType DEF PatchSubscription, Writes
    <2>3. sub'[s] = sub[s] \/ (r \in Open(s) /\ sub'[s] = With(req[r].copy, f))
      BY <1>12, <2>2 DEF PatchSubscription, TypeInv, TypeOK, Open, Writes
    <2>4. \E c \in SubCopies(s) : sub'[s].sent = c.sent
      BY <1>2, <2>2, <2>3, PatchedRow DEF SubCopies
    <2> QED
      BY <1>4, <2>1, <2>4
  <1>13. ASSUME NEW r \in Requests, Paid(r)
         PROVE  MailedIsMarked(s)' /\ ListedIsNew(s)'
    <2>1. req[r].key \in Subs /\ UNCHANGED job
      BY <1>13, RequestType DEF Paid, Writes
    <2>2. CASE UNCHANGED <<sub, reminded>> \/ req[r].key # s
      <3>1. sub'[s] = sub[s] /\ reminded'[s] = reminded[s]
        BY <1>13, <2>1, <2>2 DEF Paid, TypeInv, TypeOK, HistoryShape
      <3> QED
        BY <1>2, <1>4, <2>1, <3>1
    <2>3. CASE ~UNCHANGED <<sub, reminded>> /\ req[r].key = s
      <3>1. reminded'[s] = Mails(None)
        BY <1>13, <2>1, <2>3 DEF Paid, TypeInv, HistoryShape
      <3>2. \A d \in Days : reminded'[s][d] = 0
        BY <3>1, DaysNat DEF Mails
      <3> QED
        BY <1>3, <2>1, <3>2 DEF MailedIsMarked, ListedIsNew, Days
    <2> QED
      BY <2>2, <2>3
  <1>14. ASSUME NEW r \in Requests, NEW t \in Subs, DeleteSubscription(r, t)
         PROVE  MailedIsMarked(s)' /\ ListedIsNew(s)'
    <2>1. UNCHANGED <<job, reminded>> /\ (sub'[s] = sub[s] \/ sub'[s] = [sub[s] EXCEPT !.status = "deleted"])
      BY <1>14 DEF DeleteSubscription, history, TypeInv, TypeOK
    <2>2. sub'[s] = sub[s] \/ sub'[s].status = "deleted"
      BY <1>2, <2>1 DEF SubRow
    <2> QED
      BY <1>2, <1>4, <2>1, <2>2
  <1>15. \/ UNCHANGED <<job, sub, reminded>> \/ JobStep \/ Crash
         \/ \E r \in Requests, f \in SubChanges : PatchSubscription(r, f)
         \/ \E r \in Requests : Paid(r)
         \/ \E r \in Requests, t \in Subs : DeleteSubscription(r, t)
    BY Zenon DEF Next, vars, tables, history, Clock, RequestStep, GetSubscription, GetDigestSettings, Begin,
           PutDigestSettings
  <1> QED
    BY <1>6, <1>7, <1>8, <1>9, <1>10, <1>11, <1>12, <1>13, <1>14, <1>15 DEF JobStep

LEMMA InitReminders == Init => PastInv /\ RemindInv /\ PaidInv
  <1> SUFFICES ASSUME Init
               PROVE  PastInv /\ RemindInv /\ PaidInv
    OBVIOUS
  <1>1. \A s \in Subs : SubCopies(s) = {sub[s]} /\ sub[s].sent = None
    BY DEF Init, SubCopies, Open, NoRequest
  <1>2. \A s \in Subs : \A d \in Days : reminded[s][d] = 0
    BY DaysNat DEF Init, Mails
  <1>3. PastInv
    BY <1>1 DEF PastInv, Init, Idle
  <1>4. RemindInv
    BY <1>2 DEF RemindInv, MailedIsMarked, ListedIsNew, Init, Idle
  <1>5. PaidInv
    BY DEF Init, PaidInv
  <1> QED
    BY <1>3, <1>4, <1>5

LEMMA RemindersInv == Spec => [](TypeInv /\ PastInv /\ RemindInv /\ PaidInv)
  <1>1. Init => TypeInv /\ PastInv /\ RemindInv /\ PaidInv
    BY InitType, InitReminders
  <1>2. TypeInv /\ PastInv /\ RemindInv /\ PaidInv /\ [Next]_vars
          => (TypeInv /\ PastInv /\ RemindInv /\ PaidInv)'
    BY TypeStep, PastStep, RemindStep, PaidStep
  <1> QED
    BY <1>1, <1>2, PTL DEF Spec

\* Every reachable state is well typed: rows keep their columns and dates within the
\* calendar, whatever is patched or paid, and the goroutine knows whom it marks.
THEOREM FinanceTypeCorrect == Spec => []TypeOK
  BY RemindersInv, PTL DEF TypeInv

\* Until it is paid a due subscription has one reminder a day, however ticks, handlers,
\* faults and crashes interleave, and a recorded payment is not due again, unless a mark
\* failed, or a mark or a payment was overwritten by a handler that had read the row before.
THEOREM RemindersOnce == Spec => []Reminders
  <1>1. TypeInv /\ RemindInv /\ PaidInv => Reminders
    <2> SUFFICES ASSUME TypeInv, RemindInv, PaidInv, NEW s \in Subs
                 PROVE  /\ \A d \in Days : reminded[s][d] <= 1 \/ spoilt[s] \cap {"fault", "race"} # {}
                        /\ sub[s].status = "active" /\ sub[s].due \in paid[s] => "race" \in spoilt[s]
      BY DEF Reminders
    <2>1. \A d \in Days : reminded[s][d] \in Nat
      BY DEF TypeInv, HistoryShape
    <2>2. Clean(s) => \A d \in Days : reminded[s][d] <= 1
      BY <2>1 DEF RemindInv, MailedIsMarked
    <2>3. sub[s] \in SubCopies(s) /\ sub[s].due \in Nat
      BY DaysNat DEF SubCopies, TypeInv, TypeOK, SubRow
    <2>4. sub[s].due \in paid[s] => "race" \in spoilt[s]
      BY <2>3 DEF PaidInv
    <2> QED
      BY <2>2, <2>4 DEF Clean
  <1> QED
    BY <1>1, RemindersInv, PTL

-----------------------------------------------------------------------------
(* What a step may do to the settings and the digests                      *)

LEMMA DigestsGrow ==
  ASSUME TypeInv, [Next]_vars, NEW u \in Users, NEW d \in Days
  PROVE  digests[u][d] \in Nat /\ digests'[u][d] \in Nat /\ digests[u][d] <= digests'[u][d]
  <1>1. digests \in [Users -> [Days -> Nat]]
    BY DEF TypeInv, HistoryShape
  <1>2. UNCHANGED digests \/ \E v, e : digests' = [digests EXCEPT ![v][e] = @ + 1]
    BY Zenon DEF Next, vars, history, Clock, JobStep, ListReminders, Remind, MarkReminder, ListDigests,
           Digest, NoDigest, MarkDigest, PassEnds, RequestStep, GetSubscription, GetDigestSettings, Begin,
           PatchSubscription, Paid, DeleteSubscription, PutDigestSettings, Mailed, Crash
  <1>3. ASSUME NEW v, NEW e, digests' = [digests EXCEPT ![v][e] = @ + 1]
        PROVE  digests'[u][d] \in Nat /\ digests[u][d] <= digests'[u][d]
    <2>1. digests'[u][d] = digests[u][d] \/ digests'[u][d] = digests[u][d] + 1
      BY <1>1, <1>3
    <2>2. digests[u][d] \in Nat
      BY <1>1
    <2> QED
      BY <2>1, <2>2
  <1>4. digests[u][d] \in Nat
    BY <1>1
  <1> QED
    BY <1>2, <1>3, <1>4

\* What the goroutine has still to look at it had before, or it lists it now.
LEMMA ListedStep ==
  ASSUME TypeInv, [Next]_vars, NEW u \in Listed'
  PROVE  \/ u \in Listed /\ job'.copy[u] = job.copy[u]
         \/ ListDigests /\ u \in Enabled /\ job'.copy[u] = conf[u]
  <1>1. DOMAIN job = {"pc", "todo", "copy", "cur", "day"} /\ job'.pc \in {"digest", "markDigest"} /\ u \in job'.todo
    BY DEF TypeInv, JobShape, Listed
  <1>2. CASE ListDigests
    BY <1>1, <1>2, ListedJob DEF Idle
  <1>3. ASSUME NEW v \in Users, Digest(v) \/ NoDigest(v)
        PROVE  u \in Listed /\ job'.copy[u] = job.copy[u]
    BY <1>1, <1>3 DEF Digest, NoDigest, Mailed, Listed
  <1>4. CASE MarkDigest
    BY <1>1, <1>4 DEF MarkDigest, Listed
  <1>5. ASSUME NEW s \in Subs, Remind(s)
        PROVE  FALSE
    BY <1>1, <1>5 DEF Remind, Mailed
  <1>6. CASE ListReminders \/ MarkReminder
    BY <1>1, <1>6 DEF ListReminders, MarkReminder, Idle
  <1>7. CASE PassEnds \/ Crash
    BY <1>1, <1>7 DEF PassEnds, Crash, Idle
  <1>8. CASE UNCHANGED job
    BY <1>1, <1>8 DEF Listed
  <1>9. UNCHANGED job \/ JobStep \/ Crash
    BY Zenon DEF Next, vars, Clock, RequestStep, GetSubscription, GetDigestSettings, Begin,
           PatchSubscription, Paid, DeleteSubscription, PutDigestSettings
  <1> QED
    BY <1>2, <1>3, <1>4, <1>5, <1>6, <1>7, <1>8, <1>9 DEF JobStep

\* A copy of the settings is one that was there, or the new row.
LEMMA ConfCopiesStep ==
  ASSUME TypeInv, [Next]_vars, NEW u \in Users
  PROVE  /\ ConfCopies(u) \subseteq ConfRow /\ conf[u] \in ConfCopies(u)
         /\ ConfCopies(u)' \subseteq ConfCopies(u) \cup {conf'[u]}
  <1>1. \A r \in Open(u) : req[r].copy \in ConfRow
    BY RequestType, Calendar DEF Open, Writes
  <1>2. \A v \in Listed : job.copy[v] \in ConfRow
    BY DEF TypeInv, JobShape
  <1>3. \A r \in Open(u)' : req'[r].copy \in ConfCopies(u)
    <2> TAKE r \in Open(u)'
    <2>1. r \in Requests /\ req'[r].pc = "write" /\ req'[r].key = u
      BY DEF Open
    <2>2. \/ req'[r] = req[r]
          \/ req'[r].key \in Subs /\ req'[r].copy = sub[req'[r].key]
          \/ req'[r].key \in Users /\ req'[r].copy = conf[req'[r].key]
      BY <2>1, HandlerStep
    <2>3. CASE req'[r] = req[r]
      BY <2>1, <2>3 DEF ConfCopies, Open
    <2> QED
      BY <2>1, <2>2, <2>3, Calendar DEF ConfCopies
  <1>4. \A v \in Listed' \cap {u} : job'.copy[v] \in ConfCopies(u)
    BY ListedStep DEF ConfCopies
  <1> QED
    BY <1>1, <1>2, <1>3, <1>4 DEF ConfCopies, TypeInv, TypeOK

\* The settings change when a digest is marked, and when a handler writes them.
LEMMA SettingsStep ==
  ASSUME TypeInv, [Next]_vars, NEW u \in Users
  PROVE  \/ conf'[u] = conf[u]
         \/ MarkDigest /\ job.cur = u /\ conf'[u] = [conf[u] EXCEPT !.sent = job.day]
         \/ \E r \in Requests, f \in ConfChanges :
              /\ PutDigestSettings(r, f) /\ r \in Open(u)
              /\ req[r].copy \in ConfRow /\ conf'[u] = With(req[r].copy, f)
  <1>1. \/ UNCHANGED conf \/ MarkDigest
        \/ \E r \in Requests, f \in ConfChanges : PutDigestSettings(r, f)
    BY Zenon DEF Next, vars, tables, Clock, JobStep, ListReminders, Remind, MarkReminder, ListDigests,
           Digest, NoDigest, PassEnds, RequestStep, GetSubscription, GetDigestSettings, Begin,
           PatchSubscription, Paid, DeleteSubscription, Crash
  <1>2. conf \in [Users -> ConfRow]
    BY DEF TypeInv, TypeOK
  <1>3. CASE MarkDigest
    BY <1>2, <1>3 DEF MarkDigest
  <1>4. ASSUME NEW r \in Requests, NEW f \in ConfChanges, PutDigestSettings(r, f)
        PROVE  \/ conf'[u] = conf[u]
               \/ /\ PutDigestSettings(r, f) /\ r \in Open(u)
                  /\ req[r].copy \in ConfRow /\ conf'[u] = With(req[r].copy, f)
    <2>1. req[r].key \in Users /\ req[r].copy \in ConfRow
      BY <1>4, RequestType DEF PutDigestSettings, Writes
    <2> QED
      BY <1>2, <1>4, <2>1 DEF PutDigestSettings, Open, Writes
  <1> QED
    BY <1>1, <1>3, <1>4

\* What waits to be marked waited before, or was mailed now.
LEMMA WaitingStep ==
  ASSUME TypeInv, [Next]_vars, job'.pc = "markDigest"
  PROVE  \/ UNCHANGED <<job, digests>>
         \/ \E u \in Users :
              /\ u \in Listed /\ job.pc = "digest" /\ job'.cur = u /\ Wanted(job.copy[u])
              /\ job'.day = Day(InZone(now, job.copy[u].zone)) /\ job'.day \in Days
              /\ digests' = [digests EXCEPT ![u][job'.day] = @ + 1]
              /\ UNCHANGED <<now, conf>>
  <1>1. DOMAIN job = {"pc", "todo", "copy", "cur", "day"}
    BY DEF TypeInv, JobShape
  <1>2. ASSUME NEW u \in Users, Digest(u)
        PROVE  /\ u \in Listed /\ job.pc = "digest" /\ job'.cur = u /\ Wanted(job.copy[u])
               /\ job'.day = Day(InZone(now, job.copy[u].zone)) /\ job'.day \in Days
               /\ digests' = [digests EXCEPT ![u][job'.day] = @ + 1]
               /\ UNCHANGED <<now, conf>>
    <2>1. u \in Listed /\ job.pc = "digest" /\ Wanted(job.copy[u]) /\ UNCHANGED <<now, conf>>
      BY <1>2 DEF Digest, Listed, tables
    <2>2. Day(InZone(now, job.copy[u].zone)) \in Days
      BY <2>1, LocalInDays DEF TypeInv, TypeOK, JobShape, ConfRow
    <2>3. /\ job'.cur = u /\ job'.day = Day(InZone(now, job.copy[u].zone))
          /\ digests' = [digests EXCEPT ![u][Day(InZone(now, job.copy[u].zone))] = @ + 1]
      BY <1>1, <1>2 DEF Digest, Mailed
    <2> QED
      BY <2>1, <2>2, <2>3
  <1>3. CASE ListDigests
    BY <1>3, ListedJob DEF Idle
  <1>4. ASSUME NEW v \in Users, NoDigest(v)
        PROVE  FALSE
    BY <1>1, <1>4 DEF NoDigest
  <1>5. ASSUME NEW s \in Subs, Remind(s)
        PROVE  FALSE
    BY <1>1, <1>5 DEF Remind, Mailed
  <1>6. CASE ListReminders \/ MarkReminder \/ MarkDigest
    BY <1>1, <1>6 DEF ListReminders, MarkReminder, MarkDigest, Idle
  <1>7. CASE PassEnds \/ Crash
    BY <1>7 DEF PassEnds, Crash, Idle
  <1>8. UNCHANGED <<job, digests>> \/ JobStep \/ Crash
    BY Zenon DEF Next, vars, history, Clock, RequestStep, GetSubscription, GetDigestSettings, Begin,
           PatchSubscription, Paid, DeleteSubscription, PutDigestSettings
  <1> QED
    BY <1>2, <1>3, <1>4, <1>5, <1>6, <1>7, <1>8 DEF JobStep

-----------------------------------------------------------------------------
(* Digests                                                                 *)

LEMMA LocalTime ==
  ASSUME TypeInv, NEW u \in Users
  PROVE  /\ conf[u].zone \in Int /\ InZone(now, conf[u].zone) \in Nat
         /\ LocalDay(u) \in Days /\ LocalDay(u) \in Nat
  BY LocalInDays, ZoneOffset, DaysNat DEF TypeInv, TypeOK, ConfRow, LocalDay

LEMMA LocalDayGrows ==
  ASSUME TypeInv, TypeInv', [Next]_vars, NEW u \in Users, conf'[u].zone = conf[u].zone
  PROVE  /\ LocalDay(u) \in Nat /\ LocalDay(u)' \in Nat /\ LocalDay(u) <= LocalDay(u)'
  <1>1. conf[u].zone \in Zones /\ now \in Start .. MaxTime /\ now' \in Start .. MaxTime
    BY DEF TypeInv, TypeOK, ConfRow
  <1>2. /\ InZone(now, conf[u].zone) \in Nat /\ Day(InZone(now, conf[u].zone)) \in Nat
        /\ InZone(now', conf[u].zone) \in Nat /\ Day(InZone(now', conf[u].zone)) \in Nat
    BY <1>1, LocalInDays, DaysNat
  <1>3. InZone(now, conf[u].zone) <= InZone(now', conf[u].zone)
    BY <1>1, TimeGrows, ZoneOffset DEF InZone
  <1> QED
    BY <1>2, <1>3, DayMonotone DEF LocalDay

LEMMA MailedStep ==
  ASSUME TypeInv, MailedInv, [Next]_vars
  PROVE  MailedInv'
  <1>1. ASSUME NEW u \in Users, NEW c \in ConfCopies(u)', c.sent # None
        PROVE  digests'[u][c.sent] >= 1
    <2>1. /\ ConfCopies(u) \subseteq ConfRow /\ conf[u] \in ConfCopies(u)
          /\ ConfCopies(u)' \subseteq ConfCopies(u) \cup {conf'[u]}
      BY ConfCopiesStep
    <2>2. ASSUME NEW d \in Days, digests[u][d] >= 1
          PROVE  digests'[u][d] >= 1
      BY <2>2, DigestsGrow
    <2>3. ASSUME NEW b \in ConfCopies(u), b.sent # None
          PROVE  digests'[u][b.sent] >= 1
      BY <2>1, <2>2, <2>3, ConfRowSent DEF MailedInv
    <2>4. CASE c = conf'[u]
      <3>1. CASE conf'[u] = conf[u]
        BY <1>1, <2>1, <2>3, <2>4, <3>1
      <3>2. CASE MarkDigest /\ job.cur = u /\ conf'[u] = [conf[u] EXCEPT !.sent = job.day]
        <4>1. c.sent = job.day /\ job.day \in Days /\ digests[u][job.day] >= 1
          BY <2>1, <2>4, <3>2 DEF MarkDigest, MailedInv, TypeInv, JobShape, ConfRow
        <4> QED
          BY <2>2, <4>1
      <3>3. ASSUME NEW r \in Requests, NEW f \in ConfChanges, r \in Open(u),
                   req[r].copy \in ConfRow, conf'[u] = With(req[r].copy, f)
            PROVE  digests'[u][c.sent] >= 1
        <4>1. c.sent = req[r].copy.sent /\ req[r].copy \in ConfCopies(u)
          BY <2>4, <3>3, PutRow DEF ConfCopies
        <4> QED
          BY <1>1, <2>3, <4>1
      <3> QED
        BY <3>1, <3>2, <3>3, SettingsStep
    <2> QED
      BY <1>1, <2>1, <2>3, <2>4
  <1>2. ASSUME job'.pc = "markDigest"
        PROVE  digests'[job'.cur][job'.day] >= 1
    <2>1. CASE UNCHANGED <<job, digests>>
      BY <1>2, <2>1 DEF MailedInv
    <2>2. ASSUME NEW u \in Users, job'.cur = u, job'.day \in Days, digests' = [digests EXCEPT ![u][job'.day] = @ + 1]
          PROVE  digests'[job'.cur][job'.day] >= 1
      <3>1. digests[u][job'.day] \in Nat /\ digests'[u][job'.day] = digests[u][job'.day] + 1
        BY <2>2 DEF TypeInv, HistoryShape
      <3> QED
        BY <2>2, <3>1
    <2> QED
      BY <1>2, <2>1, <2>2, WaitingStep
  <1> QED
    BY <1>1, <1>2 DEF MailedInv

\* A zone that was not changed is the zone of before.
LEMMA ZoneKept ==
  ASSUME TypeInv, ZoneInv, [Next]_vars, NEW u \in Users, "zone" \notin spoilt'[u]
  PROVE  /\ "zone" \notin spoilt[u] /\ conf'[u].zone = conf[u].zone
         /\ \/ \E c \in ConfCopies(u) : conf'[u].sent = c.sent
            \/ MarkDigest /\ job.cur = u /\ conf'[u].sent = job.day
  <1>1. "zone" \notin spoilt[u]
    BY SpoiltGrows
  <1>2. /\ ConfCopies(u) \subseteq ConfRow /\ conf[u] \in ConfCopies(u)
        /\ \A c \in ConfCopies(u) : c.zone = conf[u].zone
    BY <1>1, ConfCopiesStep DEF ZoneInv
  <1>3. CASE conf'[u] = conf[u]
    BY <1>1, <1>2, <1>3
  <1>4. CASE MarkDigest /\ job.cur = u /\ conf'[u] = [conf[u] EXCEPT !.sent = job.day]
    BY <1>1, <1>2, <1>4 DEF ConfRow
  <1>5. ASSUME NEW r \in Requests, NEW f \in ConfChanges, PutDigestSettings(r, f), r \in Open(u),
               req[r].copy \in ConfRow, conf'[u] = With(req[r].copy, f)
        PROVE  conf'[u].zone = conf[u].zone /\ \E c \in ConfCopies(u) : conf'[u].sent = c.sent
    <2>1. "zone" \notin DOMAIN f
      <3>1. ~Spoil(u, "zone")
        BY DEF Spoil, TypeInv, HistoryShape
      <3> QED
        BY <1>5, <3>1 DEF PutDigestSettings, Open
    <2>2. req[r].copy \in ConfCopies(u)
      BY <1>5 DEF ConfCopies
    <2> QED
      BY <1>2, <1>5, <2>1, <2>2, PutRow
  <1> QED
    BY <1>1, <1>3, <1>4, <1>5, SettingsStep

LEMMA ZoneStep ==
  ASSUME TypeInv, TypeInv', ZoneInv, [Next]_vars
  PROVE  ZoneInv'
  <1> SUFFICES ASSUME NEW u \in Users, "zone" \notin spoilt'[u]
               PROVE  /\ \A c \in ConfCopies(u)' : c.zone = conf'[u].zone /\ (c.sent = None \/ c.sent <= LocalDay(u)')
                      /\ job'.pc = "markDigest" /\ job'.cur = u => job'.day <= LocalDay(u)'
    BY DEF ZoneInv
  <1>1. /\ "zone" \notin spoilt[u] /\ conf'[u].zone = conf[u].zone
        /\ \/ \E c \in ConfCopies(u) : conf'[u].sent = c.sent
           \/ MarkDigest /\ job.cur = u /\ conf'[u].sent = job.day
    BY ZoneKept
  <1>2. LocalDay(u) \in Nat /\ LocalDay(u)' \in Nat /\ LocalDay(u) <= LocalDay(u)' /\ job.day \in Nat
    BY <1>1, LocalDayGrows, DaysNat DEF TypeInv, JobShape
  <1>3. /\ ConfCopies(u) \subseteq ConfRow /\ conf[u] \in ConfCopies(u)
        /\ ConfCopies(u)' \subseteq ConfCopies(u) \cup {conf'[u]}
    BY ConfCopiesStep
  <1>4. \A c \in ConfCopies(u) : c.zone = conf[u].zone /\ (c.sent = None \/ (c.sent \in Nat /\ c.sent <= LocalDay(u)))
    BY <1>1, <1>3, ConfRowSent DEF ZoneInv
  <1>5. job.pc = "markDigest" /\ job.cur = u => job.day <= LocalDay(u)
    BY <1>1 DEF ZoneInv
  <1>6. conf'[u].sent = None \/ conf'[u].sent <= LocalDay(u)'
    <2>1. CASE \E c \in ConfCopies(u) : conf'[u].sent = c.sent
      BY <1>2, <1>4, <2>1
    <2>2. CASE MarkDigest /\ job.cur = u /\ conf'[u].sent = job.day
      BY <1>2, <1>5, <2>2 DEF MarkDigest
    <2> QED
      BY <1>1, <2>1, <2>2
  <1>7. ASSUME job'.pc = "markDigest", job'.cur = u
        PROVE  job'.day <= LocalDay(u)'
    <2>1. CASE UNCHANGED job
      BY <1>2, <1>5, <1>7, <2>1
    <2>2. CASE u \in Listed /\ job'.day = Day(InZone(now, job.copy[u].zone)) /\ UNCHANGED <<now, conf>>
      <3>1. job.copy[u].zone = conf[u].zone
        BY <1>4, <2>2 DEF ConfCopies
      <3> QED
        BY <1>2, <2>2, <3>1 DEF LocalDay
    <2> QED
      BY <1>7, <2>1, <2>2, WaitingStep
  <1> QED
    BY <1>1, <1>2, <1>3, <1>4, <1>6, <1>7

\* From UTC eastwards nobody is mailed twice.
LEMMA DigestIsNew ==
  ASSUME TypeInv, ZoneInv, NEW u \in Users, u \in Listed, job.pc = "digest", "zone" \notin spoilt[u],
         conf[u].zone >= 0, DigestIsMarked(u), Wanted(job.copy[u])
  PROVE  digests[u][LocalDay(u)] = 0 /\ Day(InZone(now, job.copy[u].zone)) = LocalDay(u)
  <1> DEFINE c == job.copy[u]
  <1>1. c \in ConfRow /\ c \in ConfCopies(u) /\ c.zone = conf[u].zone /\ (c.sent = None \/ c.sent <= LocalDay(u))
    BY DEF TypeInv, JobShape, ConfCopies, ZoneInv
  <1>2. ~SentOn(c, LocalDay(u)) /\ Day(InZone(now, c.zone)) = LocalDay(u)
    BY <1>1 DEF Wanted, LocalDay
  <1>3. LocalDay(u) \in Days /\ LocalDay(u) \in Nat
    BY LocalTime
  <1>4. digests[u][LocalDay(u)] \in Nat
    BY <1>3 DEF TypeInv, HistoryShape
  <1>5. ASSUME digests[u][LocalDay(u)] >= 1
        PROVE  FALSE
    <2>1. c.sent # None /\ c.sent >= LocalDay(u)
      BY <1>1, <1>3, <1>5 DEF DigestIsMarked, Digesting
    <2>2. c.sent = LocalDay(u) /\ LastDay(c) = c.sent
      BY <1>1, <1>3, <2>1, StoredDay
    <2> QED
      BY <1>2, <2>1, <2>2 DEF SentOn
  <1> QED
    BY <1>2, <1>4, <1>5

LEMMA DigestStep ==
  ASSUME TypeInv, TypeInv', ZoneInv, ZoneInv', DigestInv, [Next]_vars
  PROVE  DigestInv'
  <1> SUFFICES ASSUME NEW u \in Users, Clean(u)', "zone" \notin spoilt'[u], conf'[u].zone >= 0
               PROVE  DigestIsMarked(u)'
    BY DEF DigestInv
  <1>1. /\ Clean(u) /\ "zone" \notin spoilt[u] /\ conf'[u].zone = conf[u].zone
        /\ \/ \E c \in ConfCopies(u) : conf'[u].sent = c.sent
           \/ MarkDigest /\ job.cur = u /\ conf'[u].sent = job.day
    BY ZoneKept, SpoiltGrows DEF Clean
  <1>2. conf[u].zone >= 0 /\ DigestIsMarked(u)
    BY <1>1 DEF DigestInv
  <1>3. /\ LocalDay(u) \in Nat /\ LocalDay(u)' \in Nat /\ LocalDay(u) <= LocalDay(u)'
        /\ job.day \in Days /\ job.day # None /\ Days \subseteq Nat
    <2>1. job.day \in Days /\ Days \subseteq Nat /\ None \notin Nat
      BY DaysNat DEF TypeInv, JobShape
    <2> QED
      BY <1>1, <2>1, LocalDayGrows
  <1>4. /\ ConfCopies(u) \subseteq ConfRow /\ conf[u] \in ConfCopies(u)
        /\ ConfCopies(u)' \subseteq ConfCopies(u) \cup {conf'[u]}
        /\ \A c \in ConfCopies(u) : c.sent # None => c.sent \in Nat
    BY ConfCopiesStep, ConfRowSent
  <1>5. ~Fault(u) /\ ~Spoil(u, "race")
    BY DEF Fault, Spoil, Clean, TypeInv, HistoryShape
  \* u keeps its row, or the mark of a copy of it, and has no digest now
  <1>6. ASSUME digests'[u] = digests[u], \E c \in ConfCopies(u) : conf'[u].sent = c.sent,
               \/ UNCHANGED job
               \/ /\ ~(job.pc = "markDigest" /\ job.cur = u)
                  /\ ~(job'.pc = "markDigest" /\ job'.cur = u)
        PROVE  DigestIsMarked(u)'
    <2>1. ASSUME NEW d \in Days, digests'[u][d] >= 1
          PROVE  /\ digests'[u][d] = 1 /\ d <= LocalDay(u)'
                 /\ job'.pc = "markDigest" /\ job'.cur = u => d <= job'.day
                 /\ Digesting(u, d)' \/ \A c \in ConfCopies(u)' : c.sent # None /\ c.sent >= d
      <3>1. /\ digests[u][d] = 1 /\ d <= LocalDay(u)
            /\ job.pc = "markDigest" /\ job.cur = u => d <= job.day
            /\ Digesting(u, d) \/ \A c \in ConfCopies(u) : c.sent # None /\ c.sent >= d
        BY <1>2, <1>6, <2>1 DEF DigestIsMarked
      <3>2. d \in Nat
        BY <1>3
      <3>3. (\A c \in ConfCopies(u) : c.sent # None /\ c.sent >= d)
              => \A c \in ConfCopies(u)' : c.sent # None /\ c.sent >= d
        BY <1>4, <1>6
      <3> QED
        BY <1>3, <1>6, <2>1, <3>1, <3>2, <3>3 DEF Digesting
    <2> QED
      BY <2>1 DEF DigestIsMarked, Days
  <1>7. ASSUME NEW v \in Users, Digest(v)
        PROVE  DigestIsMarked(u)'
    <2>1. v \in Listed /\ job.pc = "digest" /\ Wanted(job.copy[v]) /\ UNCHANGED <<now, conf, req>>
      BY <1>7 DEF Digest, Listed, tables
    <2>2. CASE v # u
      <3>1. digests'[u] = digests[u]
        BY <1>7, <2>2 DEF Digest, Mailed, TypeInv, HistoryShape
      <3>2. ~(job'.pc = "markDigest" /\ job'.cur = u)
        BY <1>7, <2>2 DEF Digest, Mailed, TypeInv, JobShape
      <3> QED
        BY <1>4, <1>6, <2>1, <3>1, <3>2
    <2>3. CASE v = u
      <3>1. digests[u][LocalDay(u)] = 0 /\ Day(InZone(now, job.copy[u].zone)) = LocalDay(u)
        BY <1>1, <1>2, <2>1, <2>3, DigestIsNew
      <3>2. /\ digests' = [digests EXCEPT ![u][LocalDay(u)] = @ + 1]
            /\ job'.pc = "markDigest" /\ job'.cur = u /\ job'.day = LocalDay(u)
        BY <1>5, <1>7, <2>3, <3>1 DEF Digest, Mailed, TypeInv, JobShape
      <3>3. LocalDay(u) \in Days /\ LocalDay(u)' = LocalDay(u)
        BY <2>1, LocalTime DEF LocalDay
      <3>4. digests'[u] = [digests[u] EXCEPT ![LocalDay(u)] = 1] /\ digests[u] \in [Days -> Nat]
        BY <3>1, <3>2, <3>3 DEF TypeInv, HistoryShape
      <3>5. ASSUME NEW d \in Days, digests'[u][d] >= 1
            PROVE  /\ digests'[u][d] = 1 /\ d <= LocalDay(u)' /\ d <= job'.day
                   /\ Digesting(u, d)' \/ \A c \in ConfCopies(u)' : c.sent # None /\ c.sent >= d
        <4>1. CASE d = LocalDay(u)
          BY <1>3, <3>2, <3>3, <3>4, <4>1 DEF Digesting
        <4>2. CASE d # LocalDay(u)
          <5>1. digests[u][d] = digests'[u][d] /\ ~Digesting(u, d)
            BY <2>1, <3>4, <4>2 DEF Digesting
          <5>2. ConfCopies(u)' \subseteq ConfCopies(u)
            BY <1>4, <2>1
          <5> QED
            BY <1>2, <3>2, <3>3, <3>5, <5>1, <5>2 DEF DigestIsMarked
        <4> QED
          BY <4>1, <4>2
      <3> QED
        BY <3>5 DEF DigestIsMarked, Days
    <2> QED
      BY <2>2, <2>3
  <1>8. CASE MarkDigest
    <2>1. /\ job.pc = "markDigest" /\ job'.pc = "digest" /\ job'.todo = job.todo
          /\ UNCHANGED <<digests, req, now>>
      BY <1>8 DEF MarkDigest, TypeInv, JobShape
    <2>2. CASE job.cur # u
      BY <1>1, <1>6, <2>1, <2>2
    <2>3. CASE job.cur = u
      <3>1. Open(u) = {} /\ conf' = [conf EXCEPT ![u].sent = job.day]
        BY <1>5, <1>8, <2>3 DEF MarkDigest, Overwritten
      <3>2. Open(u)' = {} /\ u \notin Listed'
        BY <2>1, <2>3, <3>1 DEF Open, Listed, TypeInv, JobShape
      <3>3. ConfCopies(u)' = {conf'[u]} /\ conf'[u].sent = job.day
        BY <1>4, <3>1, <3>2 DEF ConfCopies, TypeInv, TypeOK, ConfRow
      <3>4. ASSUME NEW d \in Days, digests'[u][d] >= 1
            PROVE  digests'[u][d] = 1 /\ d <= LocalDay(u)' /\ d <= job.day
        BY <1>2, <1>3, <2>1, <2>3, <3>4 DEF DigestIsMarked
      <3> QED
        BY <1>3, <2>1, <3>3, <3>4 DEF DigestIsMarked, Days
    <2> QED
      BY <2>2, <2>3
  <1>9. CASE Crash
    <2>1. job.cur # u /\ UNCHANGED <<digests, conf>> /\ job'.pc = "idle"
      BY <1>9 DEF Crash, Clean, tables, Idle, TypeInv, HistoryShape
    <2> QED
      BY <1>4, <1>6, <2>1
  <1>10. ASSUME UNCHANGED digests, job.pc # "markDigest", job'.pc # "markDigest", ~MarkDigest
         PROVE  DigestIsMarked(u)'
    BY <1>1, <1>6, <1>10
  <1>11. ASSUME UNCHANGED <<job, digests>>, ~MarkDigest
         PROVE  DigestIsMarked(u)'
    BY <1>1, <1>6, <1>11
  <1>12. CASE ListReminders \/ ListDigests \/ PassEnds
    <2>1. UNCHANGED digests /\ job.pc # "markDigest" /\ job'.pc # "markDigest"
      <3>1. CASE ListReminders
        BY <3>1 DEF ListReminders, history, Idle
      <3>2. CASE ListDigests
        BY <3>2, ListedJob DEF ListDigests, history, Idle
      <3>3. CASE PassEnds
        BY <3>3 DEF PassEnds, history, Idle
      <3> QED
        BY <1>12, <3>1, <3>2, <3>3
    <2> QED
      BY <1>10, <2>1 DEF MarkDigest
  <1>13. ASSUME NEW v \in Users, NoDigest(v)
         PROVE  DigestIsMarked(u)'
    <2>1. UNCHANGED digests /\ job.pc # "markDigest" /\ job'.pc # "markDigest"
      BY <1>13 DEF NoDigest, history, TypeInv, JobShape
    <2> QED
      BY <1>10, <2>1 DEF MarkDigest
  <1>14. ASSUME NEW s \in Subs, Remind(s)
         PROVE  DigestIsMarked(u)'
    <2>1. UNCHANGED digests /\ job.pc # "markDigest" /\ job'.pc # "markDigest"
      BY <1>14 DEF Remind, Mailed, TypeInv, JobShape
    <2> QED
      BY <1>10, <2>1 DEF MarkDigest
  <1>15. CASE MarkReminder
    <2>1. UNCHANGED digests /\ job.pc # "markDigest" /\ job'.pc # "markDigest"
      BY <1>15 DEF MarkReminder, TypeInv, JobShape
    <2> QED
      BY <1>10, <2>1 DEF MarkDigest
  <1>16. UNCHANGED <<job, digests>> \/ JobStep \/ Crash
    BY Zenon DEF Next, vars, history, Clock, RequestStep, GetSubscription, GetDigestSettings, Begin,
           PatchSubscription, Paid, DeleteSubscription, PutDigestSettings
  <1> QED
    BY <1>7, <1>8, <1>9, <1>11, <1>12, <1>13, <1>14, <1>15, <1>16 DEF JobStep

-----------------------------------------------------------------------------
(* The hour of a digest                                                    *)

LEMMA HourType ==
  ASSUME TypeInv, NEW u \in Users, NEW d \in Days
  PROVE  /\ DigestTime(u, d) \in Int /\ InZone(now, conf[u].zone) \in Int /\ now \in Int /\ started \in Int
         /\ InZone(now, conf[u].zone) - DigestTime(u, d) = now - Hour(u, d)
         /\ Hour(u, d) \in Int /\ Hour(u, d) % PerHour = 0 /\ (Hour(u, d) + PerHour) % PerHour = 0
  <1>1. conf[u].hour \in Nat /\ conf[u].zone \in Int /\ d \in Nat /\ now \in Int /\ started \in Int
    BY DaysNat, DayLenType, LocalTime DEF TypeInv, TypeOK, ConfRow
  <1>2. DigestTime(u, d) \in Int
    BY <1>1, DayLenType DEF DigestTime
  <1>3. InZone(now, conf[u].zone) \in Int
    BY LocalTime
  <1>4. PICK o \in Int : o = conf[u].zone * PerHour
    BY <1>1, DayLenType
  <1>5. InZone(now, conf[u].zone) - DigestTime(u, d) = now - Hour(u, d) /\ Hour(u, d) \in Int
    BY <1>1, <1>2, <1>4 DEF Hour, InZone
  <1>6. PICK n \in Int : n = d * Hours + conf[u].hour - conf[u].zone
    BY <1>1, DayLenType
  <1>7. Hour(u, d) = n * PerHour
    BY <1>1, <1>6, DayLenType DEF Hour, DigestTime, DayLen
  <1>8. Hour(u, d) + PerHour = (n + 1) * PerHour
    BY <1>6, <1>7, DayLenType
  <1> QED
    BY <1>1, <1>2, <1>3, <1>5, <1>6, <1>7, <1>8, HourBegins

LEMMA ChancesType ==
  ASSUME TypeInv, NEW u \in Users, NEW d \in Days
  PROVE  Chances(u, d) \in Int /\ Ticks(now) \in Int /\ Before(u, d) \in Int
  BY HourType, TickType, DayLenType DEF Chances, Before

\* Out of the hour of the digest of d there is nothing to mail for d.
LEMMA NotWanted ==
  ASSUME TypeInv, ZoneInv, MailedInv, NEW u \in Users, "zone" \notin spoilt[u], NEW d \in Days,
         digests[u][d] = 0, ~Wanted(conf[u])
  PROVE  ~(DigestTime(u, d) <= InZone(now, conf[u].zone) /\ InZone(now, conf[u].zone) < DigestTime(u, d) + PerHour)
  <1> DEFINE t == InZone(now, conf[u].zone)
             c == conf[u]
  <1> SUFFICES ASSUME DigestTime(u, d) <= t, t < DigestTime(u, d) + PerHour
               PROVE  FALSE
    OBVIOUS
  <1>1. c \in ConfRow /\ t \in Int /\ d \in Int /\ c.hour \in 0 .. Hours - 1 /\ c \in ConfCopies(u)
    BY LocalTime, DaysNat DEF TypeInv, TypeOK, ConfRow, ConfCopies
  <1>2. Day(t) = d /\ HourOf(t) = c.hour
    BY <1>1, HourIsInterval DEF DigestTime
  <1>3. c.sent # None /\ LastDay(c) = d
    BY <1>2 DEF Wanted, SentOn
  <1>4. c.sent \in Nat /\ c.sent <= d /\ c.sent \in Days
    BY <1>1, <1>2, <1>3, ConfRowSent DEF ZoneInv, LocalDay
  <1>5. c.sent = d
    BY <1>1, <1>3, <1>4, StoredDay, LocalTime
  <1> QED
    BY <1>1, <1>3, <1>5 DEF MailedInv

\* What is mailed now is not for another day d, whose hour is not now.
LEMMA OtherDay ==
  ASSUME TypeInv, NEW u \in Users, NEW d \in Days, LocalDay(u) # d, Wanted(conf[u])
  PROVE  ~(DigestTime(u, d) <= InZone(now, conf[u].zone) /\ InZone(now, conf[u].zone) < DigestTime(u, d) + PerHour)
  <1>1. InZone(now, conf[u].zone) \in Int /\ d \in Int /\ conf[u].hour \in 0 .. Hours - 1
    BY LocalTime, DaysNat DEF TypeInv, TypeOK, ConfRow
  <1> QED
    BY <1>1, HourIsInterval DEF DigestTime, LocalDay

\* Out of the hour a pass counts for nothing.
LEMMA ChancesOut ==
  ASSUME TypeInv, NEW u \in Users, NEW d \in Days, UNCHANGED <<now, started, conf>>,
         ~(DigestTime(u, d) <= InZone(now, conf[u].zone) /\ InZone(now, conf[u].zone) < DigestTime(u, d) + PerHour)
  PROVE  Chances(u, d)' = Chances(u, d)
  <1>1. ~(Hour(u, d) <= now /\ now < Hour(u, d) + PerHour)
    BY HourType, DayLenType
  <1> QED
    BY <1>1, HourType, DayLenType DEF Chances, Hour, Before, Ticks, DigestTime

\* A pass is one chance; and none as long as it is not past u.
LEMMA ChancesPass ==
  ASSUME TypeInv, NEW u \in Users, NEW d \in Days, UNCHANGED <<now, started>>,
         conf'[u].zone = conf[u].zone, conf'[u].hour = conf[u].hour
  PROVE  /\ Chances(u, d)' \in Int /\ Chances(u, d)' <= Chances(u, d) + 1
         /\ (Passed(u)' => Passed(u)) => Chances(u, d)' <= Chances(u, d)
  <1>1. Hour(u, d)' = Hour(u, d) /\ Before(u, d)' = Before(u, d)
    BY DEF Hour, Before, Ticks, DigestTime
  <1>2. Ticks(now)' = Ticks(now) /\ Ticks(Hour(u, d) + PerHour - 1)' = Ticks(Hour(u, d) + PerHour - 1)
    BY <1>1 DEF Ticks
  <1>3. Ticks(now) \in Int /\ Before(u, d) \in Int /\ Ticks(Hour(u, d) + PerHour - 1) \in Int
    BY ChancesType, HourType, TickType, DayLenType
  <1> QED
    BY <1>1, <1>2, <1>3 DEF Chances

\* The next tick is a chance that is not taken yet; an hour turns between two passes.
LEMMA ChancesClock ==
  ASSUME TypeInv, NEW u \in Users, NEW d \in Days, Clock, ~slow'
  PROVE  Chances(u, d)' = Chances(u, d)
  <1> DEFINE w == Hour(u, d)
  <1>1. /\ now' = now + 1 /\ UNCHANGED <<started, conf, job>>
        /\ ticker' <=> ticker \/ Ticks(now + 1) # Ticks(now)
        /\ Ticks(now + 1) # Ticks(now) \/ (now + 1) % PerHour = 0 => ~ticker /\ job.pc = "idle"
    BY Zenon DEF Clock, tables
  <1>2. w \in Int /\ w % PerHour = 0 /\ (w + PerHour) % PerHour = 0 /\ now \in Int /\ started \in Int
    BY HourType
  <1>3. Hour(u, d)' = w /\ Before(u, d)' = Before(u, d) /\ Ticks(w + PerHour - 1)' = Ticks(w + PerHour - 1)
    BY <1>1 DEF Hour, Before, Ticks, DigestTime
  <1>4. Ticks(now)' = Ticks(now + 1)
    BY <1>1 DEF Ticks
  <1>5. Ticks(now + 1) = Ticks(now) \/ Ticks(now + 1) = Ticks(now) + 1
    BY <1>2, Calendar DEF Ticks
  <1>6. /\ Ticks(now) \in Int /\ Ticks(now + 1) \in Int /\ Before(u, d) \in Int /\ Ticks(w + PerHour - 1) \in Int
        /\ now + 1 = w => Before(u, d) = Ticks(now)
        /\ now + 1 = w + PerHour => Ticks(w + PerHour - 1) = Ticks(now)
    <2>1. now + 1 = w => w - 1 = now
      BY <1>2
    <2>2. now + 1 = w + PerHour => w + PerHour - 1 = now
      BY <1>2, DayLenType
    <2> QED
      BY <1>2, <2>1, <2>2, TickType, DayLenType DEF Before
  <1>10. w \in Int /\ now \in Int
    BY <1>2
  <1> HIDE DEF w
  <1>7. CASE Ticks(now + 1) # Ticks(now)
    <2>1. Passed(u) /\ ~Passed(u)'
      BY <1>1, <1>7 DEF Passed
    <2> QED
      BY <1>1, <1>2, <1>3, <1>4, <1>5, <1>6, <1>7, <2>1, DayLenType DEF Chances, w
  <1>8. CASE Ticks(now + 1) = Ticks(now) /\ (now + 1) % PerHour = 0
    <2>1. Passed(u) /\ Passed(u)'
      BY <1>1, <1>8 DEF Passed
    <2> QED
      BY <1>1, <1>3, <1>4, <1>6, <1>8, <1>10, <2>1, DayLenType DEF Chances, w
  <1>9. CASE Ticks(now + 1) = Ticks(now) /\ (now + 1) % PerHour # 0
    <2>1. Passed(u)' <=> Passed(u)
      BY <1>1, <1>9 DEF Passed
    <2>2. now + 1 # w /\ now + 1 # w + PerHour
      BY <1>2, <1>9
    <2> QED
      BY <1>1, <1>3, <1>4, <1>6, <1>9, <1>10, <2>1, <2>2, DayLenType DEF Chances, w
  <1> QED
    BY <1>7, <1>8, <1>9

LEMMA FaultsGrow ==
  ASSUME TypeInv, [Next]_vars
  PROVE  faults \in Nat /\ faults' \in Nat /\ faults <= faults' /\ (Failure => faults' = faults + 1)
  <1>1. UNCHANGED faults \/ Failure
    BY Zenon DEF Next, vars, Clock, JobStep, ListReminders, Remind, MarkReminder, ListDigests,
           Digest, NoDigest, MarkDigest, PassEnds, RequestStep, GetSubscription, GetDigestSettings, Begin,
           PatchSubscription, Paid, DeleteSubscription, PutDigestSettings, Mailed, Fault, Crash
  <1> QED
    BY <1>1, Calendar DEF TypeInv, TypeOK, Failure

\* The settings of a user who left them alone change in their mark only.
LEMMA SettingsKept ==
  ASSUME TypeInv, [Next]_vars, NEW u \in Users, spoilt'[u] \cap {"edit", "zone"} = {}
  PROVE  /\ spoilt[u] \cap {"edit", "zone"} = {}
         /\ conf'[u].zone = conf[u].zone /\ conf'[u].hour = conf[u].hour /\ conf'[u].enabled = conf[u].enabled
         /\ conf'[u] = conf[u] \/ (MarkDigest /\ job.cur = u)
  <1>1. ASSUME NEW r \in Requests, NEW f \in ConfChanges, PutDigestSettings(r, f), r \in Open(u)
        PROVE  FALSE
    <2>1. ~Spoil(u, "edit") /\ ~Spoil(u, "zone")
      BY DEF Spoil, TypeInv, HistoryShape
    <2> QED
      BY <1>1, <2>1 DEF PutDigestSettings, Open
  <1>2. conf'[u] = conf[u] \/ (MarkDigest /\ job.cur = u /\ conf'[u] = [conf[u] EXCEPT !.sent = job.day])
    BY <1>1, SettingsStep
  <1> QED
    BY <1>2, SpoiltGrows DEF TypeInv, TypeOK, ConfRow

LEMMA HourStep ==
  ASSUME TypeInv, TypeInv', ZoneInv, MailedInv, HourInv, [Next]_vars
  PROVE  HourInv'
  <1> SUFFICES ASSUME NEW u \in Users, ~slow', spoilt'[u] \cap {"edit", "zone"} = {}, conf'[u].enabled
               PROVE  /\ u \in Listed' => job'.copy[u] = conf'[u]
                      /\ \A d \in Days : InZone(Start, conf'[u].zone) < DigestTime(u, d)' /\ digests'[u][d] = 0
                                           => faults' >= Chances(u, d)'
    BY DEF HourInv
  <1>0. UNCHANGED started
    BY Zenon DEF Next, vars, Clock, JobStep, ListReminders, Remind, MarkReminder, ListDigests,
           Digest, NoDigest, MarkDigest, PassEnds, RequestStep, GetSubscription, GetDigestSettings, Begin,
           PatchSubscription, Paid, DeleteSubscription, PutDigestSettings, Crash
  <1>1. ~slow
    BY Zenon DEF Next, vars, Clock, JobStep, ListReminders, Remind, MarkReminder, ListDigests,
           Digest, NoDigest, MarkDigest, PassEnds, RequestStep, GetSubscription, GetDigestSettings, Begin,
           PatchSubscription, Paid, DeleteSubscription, PutDigestSettings, Crash
  <1>2. /\ spoilt[u] \cap {"edit", "zone"} = {}
        /\ conf'[u].zone = conf[u].zone /\ conf'[u].hour = conf[u].hour /\ conf'[u].enabled = conf[u].enabled
        /\ conf'[u] = conf[u] \/ (MarkDigest /\ job.cur = u)
    BY SettingsKept
  <1>3. /\ u \in Listed => job.copy[u] = conf[u]
        /\ \A d \in Days : InZone(Start, conf[u].zone) < DigestTime(u, d) /\ digests[u][d] = 0
                             => faults >= Chances(u, d)
    BY <1>1, <1>2 DEF HourInv
  <1>4. ASSUME u \in Listed'
        PROVE  job'.copy[u] = conf'[u]
    <2>1. CASE u \in Listed /\ job'.copy[u] = job.copy[u]
      <3>1. ~(MarkDigest /\ job.cur = u)
        BY <2>1 DEF MarkDigest, Listed, TypeInv, JobShape
      <3> QED
        BY <1>2, <1>3, <2>1, <3>1
    <2>2. CASE ListDigests /\ job'.copy[u] = conf[u]
      BY <2>2 DEF ListDigests, tables
    <2> QED
      BY <1>4, <2>1, <2>2, ListedStep
  <1>5. ASSUME NEW d \in Days, InZone(Start, conf'[u].zone) < DigestTime(u, d)', digests'[u][d] = 0
        PROVE  faults' >= Chances(u, d)'
    <2>1. digests[u][d] = 0
      BY <1>5, DigestsGrow
    <2>2. faults \in Nat /\ faults' \in Nat /\ faults <= faults' /\ (Failure => faults' = faults + 1)
      BY FaultsGrow
    <2>3. faults >= Chances(u, d) /\ Chances(u, d) \in Int
      BY <1>2, <1>3, <1>5, <2>1, ChancesType DEF DigestTime
    <2>4. ASSUME UNCHANGED now, Passed(u)' => Passed(u)
          PROVE  faults' >= Chances(u, d)'
      BY <1>0, <1>2, <2>2, <2>3, <2>4, ChancesPass
    <2>5. ASSUME UNCHANGED now, Failure
          PROVE  faults' >= Chances(u, d)'
      BY <1>0, <1>2, <2>2, <2>3, <2>5, ChancesPass
    <2>6. CASE Clock
      BY <2>2, <2>3, <2>6, ChancesClock
    <2>7. CASE ListReminders
      <3>1. job'.pc = "remind" /\ UNCHANGED now
        BY <2>7 DEF ListReminders, Idle
      <3> QED
        BY <2>4, <3>1 DEF Passed
    <2>8. CASE ListDigests
      <3>1. CASE Failure
        BY <2>5, <2>8, <3>1 DEF ListDigests
      <3>2. CASE ~Failure
        <4>1. job'.pc = "digest" /\ job'.todo = Enabled
          BY <2>8, <3>2 DEF ListDigests, Idle
        <4>2. u \in Enabled /\ UNCHANGED now
          BY <1>2, <2>8 DEF ListDigests, Enabled
        <4> QED
          BY <2>4, <4>1, <4>2 DEF Passed
      <3> QED
        BY <3>1, <3>2
    <2>9. ASSUME NEW v \in Users, Digest(v)
          PROVE  faults' >= Chances(u, d)'
      <3>1. v \in Listed /\ job.pc = "digest" /\ Wanted(job.copy[v]) /\ UNCHANGED <<now, conf, ticker>>
        BY <2>9 DEF Digest, Listed, tables
      <3>2. job'.todo = job.todo \ {v} /\ job'.pc \in {"digest", "markDigest"}
        BY <2>9 DEF Digest, Mailed, TypeInv, JobShape
      <3>3. CASE v # u
        BY <2>4, <3>1, <3>2, <3>3 DEF Passed
      <3>4. CASE v = u
        <4>1. CASE Failure
          BY <2>5, <3>1, <4>1
        <4>2. CASE ~Failure
          <5>1. job.copy[u] = conf[u]
            BY <1>3, <3>1, <3>4
          <5>2. digests' = [digests EXCEPT ![u][LocalDay(u)] = @ + 1]
            BY <2>9, <3>4, <4>2, <5>1 DEF Digest, Mailed, Fault, LocalDay
          <5>3. LocalDay(u) # d
            <6>1. ASSUME LocalDay(u) = d
                  PROVE  digests'[u][d] = digests[u][d] + 1
              BY <5>2, <6>1 DEF TypeInv, HistoryShape
            <6> QED
              BY <1>5, <2>1, <6>1
          <5> QED
            BY <1>0, <2>2, <2>3, <3>1, <3>4, <5>1, <5>3, OtherDay, ChancesOut
        <4> QED
          BY <4>1, <4>2
      <3> QED
        BY <3>3, <3>4
    <2>10. ASSUME NEW v \in Users, NoDigest(v)
           PROVE  faults' >= Chances(u, d)'
      <3>1. v \in Listed /\ job.pc = "digest" /\ ~Wanted(job.copy[v]) /\ UNCHANGED <<now, conf, ticker>>
        BY <2>10 DEF NoDigest, Listed, tables
      <3>2. job'.todo = job.todo \ {v} /\ job'.pc = "digest"
        BY <2>10 DEF NoDigest, TypeInv, JobShape
      <3>3. CASE v # u
        BY <2>4, <3>1, <3>2, <3>3 DEF Passed
      <3>4. CASE v = u
        <4>1. ~Wanted(conf[u])
          BY <1>3, <3>1, <3>4
        <4> QED
          BY <1>0, <1>2, <2>1, <2>2, <2>3, <3>1, <4>1, NotWanted, ChancesOut
      <3> QED
        BY <3>3, <3>4
    <2>11. CASE MarkDigest
      <3>1. /\ job.pc = "markDigest" /\ job'.pc = "digest" /\ job'.todo = job.todo
            /\ UNCHANGED <<now, ticker>>
        BY <2>11 DEF MarkDigest, TypeInv, JobShape
      <3> QED
        BY <2>4, <3>1 DEF Passed
    <2>12. CASE PassEnds
      BY <2>4, <2>12 DEF PassEnds, Passed
    <2>13. ASSUME NEW s \in Subs, Remind(s)
           PROVE  faults' >= Chances(u, d)'
      <3>1. job'.pc \in {"remind", "mark"} /\ UNCHANGED now
        BY <2>13 DEF Remind, Mailed, TypeInv, JobShape
      <3> QED
        BY <2>4, <3>1 DEF Passed
    <2>14. CASE MarkReminder
      <3>1. job'.pc = "remind" /\ UNCHANGED now
        BY <2>14 DEF MarkReminder, TypeInv, JobShape
      <3> QED
        BY <2>4, <3>1 DEF Passed
    <2>15. CASE UNCHANGED <<now, ticker, job>>
      BY <2>4, <2>15 DEF Passed
    <2>16. ~Crash
      BY Zenon DEF Crash
    <2>17. UNCHANGED <<now, ticker, job>> \/ Clock \/ JobStep
      BY <2>16, Zenon DEF Next, vars, RequestStep, GetSubscription, GetDigestSettings, Begin,
             PatchSubscription, Paid, DeleteSubscription, PutDigestSettings
    <2> QED
      BY <2>6, <2>7, <2>8, <2>9, <2>10, <2>11, <2>12, <2>13, <2>14, <2>15, <2>17 DEF JobStep
  <1> QED
    BY <1>4, <1>5

LEMMA InitDigests == Init => MailedInv /\ ZoneInv /\ DigestInv /\ HourInv
  <1> SUFFICES ASSUME Init
               PROVE  MailedInv /\ ZoneInv /\ DigestInv /\ HourInv
    OBVIOUS
  <1>1. TypeInv
    BY InitType
  <1>2. job = Idle /\ Listed = {} /\ \A k \in Subs \cup Users : Open(k) = {}
    BY DEF Init, Idle, Listed, Open, NoRequest
  <1>3. \A u \in Users : ConfCopies(u) = {conf[u]}
    BY <1>2 DEF ConfCopies
  <1>4. \A u \in Users : conf[u].sent \in Days \cup {None}
    BY <1>1 DEF TypeInv, TypeOK, ConfRow
  <1>5. \A u \in Users, d \in Days : digests[u][d] = IF d = conf[u].sent THEN 1 ELSE 0
    BY DEF Init, Mails
  <1>6. \A u \in Users : conf[u].sent = None \/ (conf[u].sent \in Nat /\ conf[u].sent <= LocalDay(u))
    <2> TAKE u \in Users
    <2>1. conf[u].sent \in {None, LocalDay(u) - 1, LocalDay(u)}
      BY DEF Init, FirstSent, LocalDay
    <2> QED
      BY <1>1, <1>4, <2>1, LocalTime, DaysNat
  <1>7. MailedInv
    BY <1>2, <1>3, <1>4, <1>5 DEF MailedInv, Idle
  <1>8. ZoneInv
    BY <1>2, <1>3, <1>6 DEF ZoneInv, Idle
  <1>9. DigestInv
    <2> SUFFICES ASSUME NEW u \in Users, NEW d \in Days, digests[u][d] >= 1
                 PROVE  /\ digests[u][d] = 1 /\ d <= LocalDay(u)
                        /\ job.pc = "markDigest" /\ job.cur = u => d <= job.day
                        /\ Digesting(u, d) \/ \A c \in ConfCopies(u) : c.sent # None /\ c.sent >= d
      BY DEF DigestInv, DigestIsMarked
    <2>1. d = conf[u].sent /\ d # None /\ d \in Nat
      BY <1>5, DaysNat
    <2> QED
      BY <1>2, <1>3, <1>5, <1>6, <2>1 DEF Idle
  <1>10. HourInv
    <2> SUFFICES ASSUME NEW u \in Users, NEW d \in Days, InZone(Start, conf[u].zone) < DigestTime(u, d)
                 PROVE  faults >= Chances(u, d)
      BY <1>2 DEF HourInv
    <2>1. InZone(now, conf[u].zone) < DigestTime(u, d) /\ faults = 0
      BY DEF Init
    <2>2. now < Hour(u, d)
      BY <1>1, <2>1, HourType
    <2> QED
      BY <2>1, <2>2 DEF Chances
  <1> QED
    BY <1>7, <1>8, <1>9, <1>10

LEMMA DigestsInv == Spec => [](TypeInv /\ MailedInv /\ ZoneInv /\ DigestInv /\ HourInv)
  <1>1. Init => TypeInv /\ MailedInv /\ ZoneInv /\ DigestInv /\ HourInv
    BY InitType, InitDigests
  <1>2. TypeInv /\ MailedInv /\ ZoneInv /\ DigestInv /\ HourInv /\ [Next]_vars
          => (TypeInv /\ MailedInv /\ ZoneInv /\ DigestInv /\ HourInv)'
    <2> SUFFICES ASSUME TypeInv, MailedInv, ZoneInv, DigestInv, HourInv, [Next]_vars
                 PROVE  (TypeInv /\ MailedInv /\ ZoneInv /\ DigestInv /\ HourInv)'
      OBVIOUS
    <2>1. TypeInv'
      BY TypeStep
    <2>2. ZoneInv'
      BY <2>1, ZoneStep
    <2>3. MailedInv' /\ DigestInv' /\ HourInv'
      BY <2>1, <2>2, MailedStep, DigestStep, HourStep
    <2> QED
      BY <2>1, <2>2, <2>3
  <1> QED
    BY <1>1, <1>2, PTL DEF Spec

\* A day has one digest: not two, from UTC eastwards and while the zone stays, unless a mark
\* failed or was overwritten; and not none, in any zone and for any hour, when the user left
\* the settings alone, every pass was over before the next tick and before the hour turned, and
\* there were fewer faults than ticks in an hour.
THEOREM DigestOnce == Spec => []OneDigestADay
  <1>1. TypeInv /\ DigestInv /\ HourInv => OneDigestADay
    <2> SUFFICES ASSUME TypeInv, DigestInv, HourInv, NEW u \in Users, NEW d \in Days
                 PROVE  /\ \/ digests[u][d] <= 1
                           \/ spoilt[u] \cap {"fault", "race", "zone"} # {}
                           \/ conf[u].zone < 0
                        /\ /\ conf[u].enabled /\ spoilt[u] \cap {"edit", "zone"} = {}
                           /\ ~slow /\ faults < PerHour \div Every
                           /\ InZone(Start, conf[u].zone) < DigestTime(u, d)
                           /\ DigestTime(u, d) + PerHour <= InZone(now, conf[u].zone)
                           => digests[u][d] >= 1
      BY DEF OneDigestADay
    <2>1. digests[u][d] \in Nat /\ conf[u].zone \in Int
      BY LocalTime DEF TypeInv, HistoryShape
    <2>2. digests[u][d] <= 1 \/ spoilt[u] \cap {"fault", "race", "zone"} # {} \/ conf[u].zone < 0
      <3>1. CASE Clean(u) /\ "zone" \notin spoilt[u] /\ conf[u].zone >= 0
        BY <2>1, <3>1 DEF DigestInv, DigestIsMarked
      <3>2. CASE ~Clean(u) \/ "zone" \in spoilt[u]
        BY <3>2 DEF Clean
      <3> QED
        BY <2>1, <3>1, <3>2
    <2>3. ASSUME conf[u].enabled, spoilt[u] \cap {"edit", "zone"} = {}, ~slow, faults < PerHour \div Every,
                 InZone(Start, conf[u].zone) < DigestTime(u, d),
                 DigestTime(u, d) + PerHour <= InZone(now, conf[u].zone)
          PROVE  digests[u][d] >= 1
      <3>1. now >= Hour(u, d) + PerHour /\ ~(now < Hour(u, d))
        BY <2>3, HourType, DayLenType
      <3>2. Chances(u, d) = Ticks(Hour(u, d) + PerHour - 1) - Before(u, d)
        BY <3>1 DEF Chances
      <3>3. PICK w \in Int : w = Hour(u, d)
        BY HourType
      <3>4. Ticks(w + PerHour - 1) >= Ticks(w - 1) + PerHour \div Every
        BY <3>3, HourType, TicksOfHour
      <3>6. Ticks(w - 1) \in Int /\ Ticks(w + PerHour - 1) \in Int
        BY HourType, TickType, DayLenType
      <3>7. Chances(u, d) >= PerHour \div Every /\ Chances(u, d) \in Int
        <4>1. Chances(u, d) = Ticks(w + PerHour - 1) - Ticks(w - 1)
          BY <3>2, <3>3 DEF Before
        <4>2. PerHour \div Every \in Int
          BY Calendar
        <4> QED
          BY <3>4, <3>6, <4>1, <4>2
      <3>5. faults \in Int /\ PerHour \div Every \in Int
        BY Calendar DEF TypeInv, TypeOK
      <3> QED
        BY <2>1, <2>3, <3>5, <3>7 DEF HourInv
    <2> QED
      BY <2>2, <2>3
  <1> QED
    BY <1>1, DigestsInv, PTL
=============================================================================
