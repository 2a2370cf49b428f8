---------------------------- MODULE FinanceJobs ----------------------------
(***************************************************************************)
(* The finance jobs of the Go API: on every tick of a ticker the reminders *)
(* of due subscriptions are mailed, then the daily digests of the users    *)
(* for whom it is the hour they chose.  The tables are also written by the *)
(* handlers of subscriptions and of the digest settings, which read a row, *)
(* change some fields and write the whole row back.                        *)
(*                                                                         *)
(* A step is a SQL statement or a mail.  Time is counted in units from the *)
(* epoch, PerHour to the hour and Hours hours to the day.  The ticker      *)
(* starts with the process and ticks every Every units, so that its ticks  *)
(* lie at any distance from the hours and an hour may turn while a pass is *)
(* under way.  Amounts, names, what a digest says and users without an     *)
(* address are left out; so is daylight saving.  A cadence is a day long.  *)
(***************************************************************************)
EXTENDS Integers

CONSTANTS
  Users,      \* users with digest settings
  Subs,       \* subscriptions
  Requests,   \* requests of the users
  Hours,      \* hours of a day
  PerHour,    \* units of time in an hour
  Every,      \* units of time between two ticks
  Zones,      \* offsets from UTC, in hours
  None,       \* NULL
  Start,      \* the time at which the process starts
  SubChanges, \* what a PATCH of a subscription may set, as records
  ConfChanges,\* what a PUT of the settings may set, as records
  MaxTime,    \* the end of time
  MaxDue,     \* the last day a subscription may be due
  MaxFaults   \* mails and statements that fail, and crashes

DayLen == Hours * PerHour

ASSUME Calendar ==
  /\ Hours \in Nat \ {0} /\ PerHour \in Nat \ {0} /\ Every \in Nat \ {0}
  /\ Start \in Nat /\ MaxTime \in Nat /\ MaxDue \in Nat /\ MaxFaults \in Nat
  /\ Start >= 2 * DayLen /\ Start <= MaxTime
  /\ \A z \in Zones : z \in Int /\ -Hours < z /\ z < Hours
  /\ Users \cap Subs = {}
  /\ None \notin Int

VARIABLES
  now,        \* the time
  started,    \* the time at which this process started its ticker
  ticker,     \* a tick waits in the channel of the ticker, which holds one
  sub,        \* laele_finance_subscriptions
  conf,       \* laele_user_digest_settings
  job,        \* the goroutine: its program counter, what it has listed, the day
  req,        \* the handlers of the requests: what they do and the row they read
  faults,     \* faults so far
  reminded,   \* history: reminders mailed per day since the last payment
  digests,    \* history: digests mailed per day
  paid,       \* history: the due dates recorded as paid, before the date the user set since
  spoilt,     \* history: what a row went through: "edit", "zone", "race", "fault"
  slow        \* history: a pass was not over when the next tick came or an hour turned, or was cut off

vars == <<now, started, ticker, sub, conf, job, req, faults, reminded, digests, paid, spoilt, slow>>
tables == <<sub, conf>>
history == <<reminded, digests, paid, spoilt>>

Idle == [pc |-> "idle", todo |-> {}, copy |-> <<>>, cur |-> None, day |-> 0]
NoRequest == [pc |-> "new", kind |-> "none", key |-> None, copy |-> None]

-----------------------------------------------------------------------------
(* The calendar                                                            *)

Day(t) == t \div DayLen
HourOf(t) == (t % DayLen) \div PerHour
InZone(t, z) == t + z * PerHour

Today == Day(now)

\* the ticks of this process up to t
Ticks(t) == (t - started) \div Every

Days == 0 .. Day(MaxTime) + 1
DueDays == Day(Start) .. MaxDue

ASSUME Changes ==
  /\ Day(Start) <= MaxDue
  /\ \A f \in SubChanges :
       /\ DOMAIN f \subseteq {"due", "status"}
       /\ "due" \in DOMAIN f => f.due \in DueDays
       /\ "status" \in DOMAIN f => f.status \in {"active", "paused"}
  /\ \A f \in ConfChanges :
       /\ DOMAIN f \subseteq {"zone", "hour", "enabled"}
       /\ "zone" \in DOMAIN f => f.zone \in Zones
       /\ "hour" \in DOMAIN f => f.hour \in 0 .. Hours - 1
       /\ "enabled" \in DOMAIN f => f.enabled \in BOOLEAN

\* last_digest_sent_on is a date, read back as midnight UTC and taken to the zone
LastDay(c) == Day(InZone(c.sent * DayLen, c.zone))

SentOn(c, d) == c.sent # None /\ LastDay(c) = d

-----------------------------------------------------------------------------
(* The tables at the start: a subscription that is due; the digest of      *)
(* today, of yesterday or none so far.                                     *)

Mails(d) == [x \in Days |-> IF x = d THEN 1 ELSE 0]

FirstSent(z, h) ==
  LET t == InZone(Start, z)
  IN  {None, Day(t) - 1} \cup {d \in {Day(t)} : h <= HourOf(t)}

Init ==
  /\ now = Start /\ started = Start /\ ticker = FALSE
  /\ sub \in [Subs -> [status : {"active"}, due : {Day(Start)}, sent : {None}]]
  /\ conf \in [Users -> [zone : Zones, hour : 0 .. Hours - 1, enabled : {TRUE}, sent : Days \cup {None}]]
  /\ \A u \in Users : conf[u].sent \in FirstSent(conf[u].zone, conf[u].hour)
  /\ job = Idle
  /\ req = [r \in Requests |-> NoRequest]
  /\ faults = 0
  /\ reminded = [s \in Subs |-> Mails(None)]
  /\ digests = [u \in Users |-> Mails(conf[u].sent)]
  /\ paid = [s \in Subs |-> {}]
  /\ spoilt = [k \in Subs \cup Users |-> {}]
  /\ slow = FALSE

-----------------------------------------------------------------------------
(* What goes wrong                                                         *)

Spoil(k, why) == spoilt' = [spoilt EXCEPT ![k] = @ \cup {why}]

Failure == faults < MaxFaults /\ faults' = faults + 1
Fault(k) == Failure /\ Spoil(k, "fault")

\* requests that have read the row of k and will write it back
Open(k) == {r \in Requests : req[r].pc = "write" /\ req[r].key = k}

\* a write under the eyes of such a request is lost when it writes its copy
Overwritten(k, mine) == Open(k) \ mine # {}

-----------------------------------------------------------------------------
(* runFinanceJobs: the reminders                                           *)

Clock ==
  /\ now < MaxTime
  /\ now' = now + 1
  /\ LET tick == Ticks(now + 1) # Ticks(now)
         turn == (now + 1) % PerHour = 0
     IN  /\ ticker' = (ticker \/ tick)
         /\ slow' = (slow \/ ((tick \/ turn) /\ (ticker \/ job.pc # "idle")))
  /\ UNCHANGED <<started, tables, job, req, faults, history>>

\* the rows ListSubscriptionReminders selects
DueForReminder(s, d) ==
  /\ sub[s].status = "active"
  /\ sub[s].due <= d
  /\ sub[s].sent = None \/ sub[s].sent < d

\* a tick is taken and the list read; when that fails the pass goes on to the digests
ListReminders ==
  /\ job.pc = "idle" /\ ticker
  /\ ticker' = FALSE
  /\ \/ /\ job' = [Idle EXCEPT !.pc = "remind", !.day = Today, !.todo = {s \in Subs : DueForReminder(s, Today)}]
        /\ UNCHANGED faults
     \/ /\ Failure
        /\ job' = [Idle EXCEPT !.pc = "remind", !.day = Today]
  /\ UNCHANGED <<now, started, tables, req, history, slow>>

\* a mail goes out, or fails (with the lookup of its user, for a digest) and may have
\* gone out all the same
Mailed(count, k, d, pcDone, pcFailed) ==
  \/ /\ count' = [count EXCEPT ![k][d] = @ + 1]
     /\ job' = [job EXCEPT !.pc = pcDone, !.todo = @ \ {k}, !.cur = k, !.day = d]
     /\ UNCHANGED <<faults, spoilt>>
  \/ /\ \/ count' = [count EXCEPT ![k][d] = @ + 1]
        \/ UNCHANGED count
     /\ Fault(k)
     /\ job' = [job EXCEPT !.pc = pcFailed, !.todo = @ \ {k}]

Remind(s) ==
  /\ job.pc = "remind" /\ s \in job.todo
  /\ Mailed(reminded, s, job.day, "mark", "remind")
  /\ UNCHANGED <<now, started, ticker, tables, req, digests, paid, slow>>

\* the instant in the column of the date
MutMarkReminder ==
  /\ job.pc = "mark"
  /\ sub' = [sub EXCEPT ![job.cur].sent = now]
  /\ job' = [job EXCEPT !.pc = "remind", !.cur = None]
  /\ UNCHANGED <<now, started, ticker, conf, req, faults, history, slow>>

\* MarkSubscriptionReminderSent, with the day of this moment; an error is logged
MarkReminder ==
  /\ job.pc = "mark"
  /\ \/ /\ sub' = IF sub[job.cur].status = "deleted" THEN sub
                  ELSE [sub EXCEPT ![job.cur].sent = Today]
        /\ IF Overwritten(job.cur, {}) THEN Spoil(job.cur, "race") ELSE UNCHANGED spoilt
        /\ UNCHANGED faults
     \/ Fault(job.cur) /\ UNCHANGED sub
  /\ job' = [job EXCEPT !.pc = "remind", !.cur = None]
  /\ UNCHANGED <<now, started, ticker, conf, req, reminded, digests, paid, slow>>

-----------------------------------------------------------------------------
(* runFinanceJobs: the digests                                             *)

Enabled == {u \in Users : conf[u].enabled}

\* ListDigestEnabled; when it fails the pass is over
ListDigests ==
  /\ job.pc = "remind" /\ job.todo = {}
  /\ \/ /\ job' = [Idle EXCEPT !.pc = "digest", !.todo = Enabled, !.copy = [u \in Enabled |-> conf[u]]]
        /\ UNCHANGED faults
     \/ Failure /\ job' = Idle
  /\ UNCHANGED <<now, started, ticker, tables, req, history, slow>>

\* processDigest up to the mail: the hour and the day are those of the zone now, all
\* else is the row that was listed
Wanted(c) ==
  LET t == InZone(now, c.zone)
  IN  HourOf(t) = c.hour /\ ~SentOn(c, Day(t))

Digest(u) ==
  /\ job.pc = "digest" /\ u \in job.todo
  /\ Wanted(job.copy[u])
  /\ Mailed(digests, u, Day(InZone(now, job.copy[u].zone)), "markDigest", "digest")
  /\ UNCHANGED <<now, started, ticker, tables, req, reminded, paid, slow>>

NoDigest(u) ==
  /\ job.pc = "digest" /\ u \in job.todo
  /\ ~Wanted(job.copy[u])
  /\ job' = [job EXCEPT !.todo = @ \ {u}]
  /\ UNCHANGED <<now, started, ticker, tables, req, faults, history, slow>>

\* UpdateDigestLastSentOn, with the day that was mailed; an error is logged
MarkDigest ==
  /\ job.pc = "markDigest"
  /\ \/ /\ conf' = [conf EXCEPT ![job.cur].sent = job.day]
        /\ IF Overwritten(job.cur, {}) THEN Spoil(job.cur, "race") ELSE UNCHANGED spoilt
        /\ UNCHANGED faults
     \/ Fault(job.cur) /\ UNCHANGED conf
  /\ job' = [job EXCEPT !.pc = "digest", !.cur = None]
  /\ UNCHANGED <<now, started, ticker, sub, req, reminded, digests, paid, slow>>

PassEnds ==
  /\ job.pc = "digest" /\ job.todo = {}
  /\ job' = Idle
  /\ UNCHANGED <<now, started, ticker, tables, req, faults, history, slow>>

-----------------------------------------------------------------------------
(* The handlers: what they read first and write back                       *)

Begin(r, kind, key, row) ==
  /\ req[r].pc = "new"
  /\ req' = [req EXCEPT ![r] = [pc |-> "write", kind |-> kind, key |-> key, copy |-> row]]
  /\ UNCHANGED <<now, started, ticker, tables, job, faults, history, slow>>

Writes(r, kind) == req[r].pc = "write" /\ req[r].kind = kind
End(r) == req' = [req EXCEPT ![r] = [NoRequest EXCEPT !.pc = "over"]]

\* the row that was read, with the fields that are set
With(row, fields) == [f \in DOMAIN row |-> IF f \in DOMAIN fields THEN fields[f] ELSE row[f]]

\* GetSubscription
GetSubscription(r, kind, s) ==
  /\ sub[s].status # "deleted" /\ (kind = "paid" => sub[s].due < MaxDue)
  /\ Begin(r, kind, s, sub[s])

\* the rest of PatchSubscription: a date, a status, or other fields; UPDATE finds no
\* row when it was deleted
PatchSubscription(r, fields) ==
  /\ Writes(r, "patch")
  /\ LET s == req[r].key
     IN  IF sub[s].status = "deleted" THEN UNCHANGED <<sub, paid>>
         ELSE /\ sub' = [sub EXCEPT ![s] = With(req[r].copy, fields)]
              /\ paid' = [paid EXCEPT ![s] = IF "due" \in DOMAIN fields THEN {d \in @ : d < fields.due} ELSE @]
  /\ End(r)
  /\ UNCHANGED <<now, started, ticker, conf, job, faults, reminded, digests, spoilt, slow>>

\* the due date left as it is
MutPaid(r) ==
  /\ Writes(r, "paid")
  /\ sub' = [sub EXCEPT ![req[r].key] = [req[r].copy EXCEPT !.sent = None]]
  /\ paid' = [paid EXCEPT ![req[r].key] = @ \cup {req[r].copy.due}]
  /\ End(r)
  /\ UNCHANGED <<now, started, ticker, conf, job, faults, reminded, digests, spoilt, slow>>

\* the rest of PostSubscriptionPaid
Paid(r) ==
  /\ Writes(r, "paid")
  /\ LET s == req[r].key
         copy == req[r].copy
     IN  IF sub[s].status = "deleted" THEN UNCHANGED <<sub, paid, reminded, spoilt>>
         ELSE /\ sub' = [sub EXCEPT ![s] = [copy EXCEPT !.due = @ + 1, !.sent = None]]
              /\ paid' = [paid EXCEPT ![s] = @ \cup {copy.due}]
              /\ reminded' = [reminded EXCEPT ![s] = Mails(None)]
              /\ IF Overwritten(s, {r}) THEN Spoil(s, "race") ELSE UNCHANGED spoilt
  /\ End(r)
  /\ UNCHANGED <<now, started, ticker, conf, job, faults, digests, slow>>

DeleteSubscription(r, s) ==
  /\ req[r].pc = "new" /\ sub[s].status # "deleted"
  /\ sub' = [sub EXCEPT ![s].status = "deleted"]
  /\ End(r)
  /\ UNCHANGED <<now, started, ticker, conf, job, faults, history, slow>>

GetDigestSettings(r, u) == Begin(r, "put", u, conf[u])

\* settings written without the day of the last digest
MutPutDigest(r, fields) ==
  /\ Writes(r, "put")
  /\ conf' = [conf EXCEPT ![req[r].key] = With([req[r].copy EXCEPT !.sent = None], fields)]
  /\ End(r)
  /\ UNCHANGED <<now, started, ticker, sub, job, faults, history, slow>>

\* the rest of PutDigestSettings
PutDigestSettings(r, fields) ==
  /\ Writes(r, "put")
  /\ LET u == req[r].key
     IN  /\ conf' = [conf EXCEPT ![u] = With(req[r].copy, fields)]
         /\ Spoil(u, IF "zone" \in DOMAIN fields THEN "zone" ELSE "edit")
  /\ End(r)
  /\ UNCHANGED <<now, started, ticker, sub, job, faults, reminded, digests, paid, slow>>

\* the process stops and is started again, with a new ticker: the goroutine and the handlers
\* are lost, the tables stay
Crash ==
  /\ Failure
  /\ spoilt' = [k \in Subs \cup Users |->
                  IF k = job.cur THEN spoilt[k] \cup {"fault"} ELSE spoilt[k]]
  /\ job' = Idle /\ started' = now /\ ticker' = FALSE /\ slow' = TRUE
  /\ req' = [r \in Requests |->
               IF req[r].pc = "write" THEN [NoRequest EXCEPT !.pc = "over"] ELSE req[r]]
  /\ UNCHANGED <<now, tables, reminded, digests, paid>>

-----------------------------------------------------------------------------
JobStep ==
  \/ ListReminders \/ MarkReminder \/ ListDigests \/ MarkDigest \/ PassEnds
  \/ \E s \in Subs : Remind(s)
  \/ \E u \in Users : Digest(u) \/ NoDigest(u)

RequestStep(r) ==
  \/ \E s \in Subs : DeleteSubscription(r, s) \/ \E kind \in {"patch", "paid"} : GetSubscription(r, kind, s)
  \/ \E fields \in SubChanges : PatchSubscription(r, fields)
  \/ Paid(r)
  \/ \E u \in Users : GetDigestSettings(r, u)
  \/ \E fields \in ConfChanges : PutDigestSettings(r, fields)

Next == Clock \/ JobStep \/ (\E r \in Requests : RequestStep(r)) \/ Crash

Spec == Init /\ [][Next]_vars

-----------------------------------------------------------------------------
(* Properties                                                              *)

SubRow == [status : {"active", "paused", "deleted"}, due : DueDays, sent : Days \cup {None}]
ConfRow == [zone : Zones, hour : 0 .. Hours - 1, enabled : BOOLEAN, sent : Days \cup {None}]

\* handlers that read nothing yet or are over, or know the row they will write
Handler ==
  [pc : {"new", "over"}, kind : {"none"}, key : {None}, copy : {None}]
  \cup [pc : {"write"}, kind : {"patch", "paid"}, key : Subs, copy : SubRow]
  \cup [pc : {"write"}, kind : {"put"}, key : Users, copy : ConfRow]

\* Types; while the goroutine marks, it knows whom.
TypeOK ==
  /\ now \in Start .. MaxTime /\ started \in Start .. now /\ ticker \in BOOLEAN /\ slow \in BOOLEAN
  /\ sub \in [Subs -> SubRow]
  /\ conf \in [Users -> ConfRow]
  /\ job.pc \in {"idle", "remind", "mark", "digest", "markDigest"}
  /\ job.pc \in {"remind", "mark"} => job.todo \subseteq Subs
  /\ job.pc \in {"digest", "markDigest"} => job.todo \subseteq DOMAIN job.copy
  /\ job.pc = "mark" => job.cur \in Subs
  /\ job.pc = "markDigest" => job.cur \in Users
  /\ req \in [Requests -> Handler]
  /\ faults \in 0 .. MaxFaults

\* A due subscription is reminded of at most once a day until it is paid, and what was
\* recorded as paid is not due again unless the user says so.  The exceptions are a mark that
\* failed, and a mark or a payment overwritten by a handler that had read the row
\* before.
Reminders ==
  \A s \in Subs :
    /\ \A d \in Days : reminded[s][d] <= 1 \/ spoilt[s] \cap {"fault", "race"} # {}
    /\ sub[s].status = "active" /\ sub[s].due \in paid[s] => "race" \in spoilt[s]

\* the hour of the digest of u on day d, as local time
DigestTime(u, d) == d * DayLen + conf[u].hour * PerHour

\* A day has one digest.  Not two, unless a mark failed or was overwritten, the zone was
\* changed, or the zone is west of UTC, where the stored day reads as the one before and
\* each tick of the hour mails again.  And not none, once the hour has come and gone, if
\* the user left the settings alone, every pass was over before the next tick and before the
\* hour turned - a digest whose turn comes in a pass after the hour is lost - and there were
\* fewer faults than ticks in the hour: the date stored for one day never stands in the way
\* of the next, in any zone, and a mail that fails is tried again on the next tick.
OneDigestADay ==
  \A u \in Users, d \in Days :
    /\ \/ digests[u][d] <= 1
       \/ spoilt[u] \cap {"fault", "race", "zone"} # {}
       \/ conf[u].zone < 0
    /\ /\ conf[u].enabled /\ spoilt[u] \cap {"edit", "zone"} = {}
       /\ ~slow /\ faults < PerHour \div Every
       /\ InZone(Start, conf[u].zone) < DigestTime(u, d)
       /\ DigestTime(u, d) + PerHour <= InZone(now, conf[u].zone)
       => digests[u][d] >= 1

=============================================================================
