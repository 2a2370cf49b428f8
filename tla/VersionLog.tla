----------------------------- MODULE VersionLog -----------------------------
(***************************************************************************)
(* What a development project promises, as if its requests were served one *)
(* after the other: a log of versions, to which a snapshot, writes over    *)
(* the latest version or a copy of an earlier one is appended, and of      *)
(* which nothing is ever changed.                                          *)
(***************************************************************************)
EXTENDS Integers, Sequences

CONSTANTS Conversations, Files, NoFiles, Overlay(_, _)

VARIABLE log    \* the versions of each conversation's project, the latest last

Init == log = [c \in Conversations |-> <<>>]

Latest(c) == IF log[c] = <<>> THEN NoFiles ELSE log[c][Len(log[c])].files

\* A version without files is not stored.
Store(c, origin, writes, target, files) ==
  /\ files # NoFiles
  /\ log' = [log EXCEPT ![c] = Append(@, [files |-> files, origin |-> origin,
                                          writes |-> writes, target |-> target])]

Snapshot(c, files) == Store(c, "snapshot", files, 0, files)

\* Operations are made on the version they are stored behind.
Operate(c, writes) == Store(c, "ops", writes, Len(log[c]), Overlay(writes, Latest(c)))

Rollback(c, k) == Store(c, "rollback", NoFiles, k, log[c][k].files)

Next ==
  \E c \in Conversations :
    /\ log'[c] # log[c]
    /\ \/ \E f \in Files : Snapshot(c, f) \/ Operate(c, f)
       \/ \E k \in DOMAIN log[c] : Rollback(c, k)

Spec == Init /\ [][Next]_log
=============================================================================
