----------------------------- MODULE DevProjects -----------------------------
(***************************************************************************)
(* The version history of the development project of a conversation:       *)
(* the recorder that stores a version after an assistant message with code *)
(* operations or project files, and the HTTP handler that rolls back to an *)
(* earlier version.                                                        *)
(*                                                                         *)
(* Each statement and the transaction of SaveVersion are one step; several *)
(* messages and rollbacks of one conversation run side by side.            *)
(***************************************************************************)
EXTENDS Integers

CONSTANTS
  Conversations,
  Recorders,      \* requests recording an assistant message
  Rollbackers,    \* requests to POST /v1/projects/{id}/rollback
  Paths,          \* file paths of a project
  Contents,       \* contents of a file
  MaxSeq          \* bound: no request starts once a project has MaxSeq versions

ASSUME DistinctRequests == Recorders \cap Rollbackers = {} /\ MaxSeq \in Nat \ {0}

Requests == Recorders \cup Rollbackers
Seqs     == 1..MaxSeq
Files    == UNION {[S -> Contents] : S \in SUBSET Paths}
NoFiles  == [p \in {} |-> p]
None     == -1   \* the conversation has no project yet

VARIABLES
  project,    \* laele_dev_projects: latest_version_seq, by conversation
  versions,   \* laele_dev_project_versions with their files, by seq
  req         \* control state of each request

vars == <<project, versions, req>>

-----------------------------------------------------------------------------

\* What the metadata of an assistant message asks for: all the files of the
\* project, or write operations (none when it only deletes files).
Input == [kind : {"snapshot"}, files : Files \ {NoFiles}] \cup [kind : {"ops"}, files : Files]

\* A version.  origin, writes and target say what it was made from (history).
Version ==
  [files : Files, origin : {"none", "snapshot", "ops", "rollback"}, writes : Files, target : 0..MaxSeq]

NoVersion == [files |-> NoFiles, origin |-> "none", writes |-> NoFiles, target |-> 0]

Idle == [pc |-> "idle", conv |-> None, seq |-> 0, kind |-> "none", writes |-> NoFiles,
         base |-> 0, files |-> NoFiles]

Request ==
  [pc : {"idle", "create", "latest", "target", "files", "save"}, conv : Conversations \cup {None},
   seq : 0..(MaxSeq - 1), kind : {"none", "snapshot", "ops", "rollback"}, writes : Files, base : 0..MaxSeq,
   files : Files]

Init ==
  /\ project = [c \in Conversations |-> None]
  /\ versions = [c \in Conversations |-> [k \in Seqs |-> NoVersion]]
  /\ req = [r \in Requests |-> Idle]

\* The sequence numbers of the versions of a project.
Rows(c) == {k \in Seqs : versions[c][k] # NoVersion}

\* Request r returns to its caller, with or without an error.
End(r) == req' = [req EXCEPT ![r] = Idle]

-----------------------------------------------------------------------------
(* The recorder.                                                           *)

\* Files with the written ones on top.
Overlay(writes, files) ==
  [p \in DOMAIN writes \cup DOMAIN files |-> IF p \in DOMAIN writes THEN writes[p] ELSE files[p]]

\* resolveFiles: project files are taken as they are, operations need the
\* latest version first.
Resolve(r, c, kind, files, seq) ==
  req' = [req EXCEPT ![r] = [Idle EXCEPT
            !.pc = IF kind = "snapshot" THEN "save" ELSE "latest",
            !.conv = c, !.seq = seq, !.kind = kind, !.writes = files,
            !.files = IF kind = "snapshot" THEN files ELSE NoFiles]]

\* GetProjectByConversation: latest_version_seq is read here and not again.
EnsureRead(r, c, in) ==
  /\ req[r].pc = "idle"
  /\ project[c] < MaxSeq
  /\ IF project[c] = None
       THEN req' = [req EXCEPT ![r] = [Idle EXCEPT !.pc = "create", !.conv = c,
                                         !.kind = in.kind, !.writes = in.files]]
       ELSE Resolve(r, c, in.kind, in.files, project[c])
  /\ UNCHANGED <<project, versions>>

\* CreateProject: UNIQUE(conversation_id) refuses a second project.
EnsureCreate(r) ==
  LET c == req[r].conv IN
  /\ req[r].pc = "create"
  /\ IF project[c] = None
       THEN /\ project' = [project EXCEPT ![c] = 0]
            /\ Resolve(r, c, req[r].kind, req[r].writes, 0)
       ELSE /\ End(r)
            /\ UNCHANGED project
  /\ UNCHANGED versions

\* The request goes on with these files, or has nothing to save.
Resolved(r, files) ==
  IF files = NoFiles
    THEN End(r)
    ELSE req' = [req EXCEPT ![r].pc = "save", ![r].files = files]

\* GetLatestVersion: ORDER BY seq DESC LIMIT 1.
ReadLatest(r) ==
  LET c == req[r].conv IN
  /\ req[r].pc = "latest"
  /\ IF Rows(c) = {}
       THEN Resolved(r, req[r].writes)
       ELSE \E k \in Rows(c) :
              /\ \A j \in Rows(c) : j <= k
              /\ req' = [req EXCEPT ![r].pc = "files", ![r].base = k]
  /\ UNCHANGED <<project, versions>>

-----------------------------------------------------------------------------
(* The rollback handler.                                                   *)

\* GetProjectByID, with the version k > 0 to go back to.
RollbackRead(b, c, k) ==
  /\ req[b].pc = "idle"
  /\ project[c] # None
  /\ project[c] < MaxSeq
  /\ req' = [req EXCEPT ![b] = [Idle EXCEPT !.pc = "target", !.conv = c, !.seq = project[c],
                                  !.kind = "rollback", !.base = k]]
  /\ UNCHANGED <<project, versions>>

\* GetVersionBySeq
RollbackTarget(b) ==
  /\ req[b].pc = "target"
  /\ IF req[b].base \in Rows(req[b].conv)
       THEN req' = [req EXCEPT ![b].pc = "files"]
       ELSE End(b)
  /\ UNCHANGED <<project, versions>>

-----------------------------------------------------------------------------
(* Both.                                                                   *)

\* Mutant: a rollback copies the latest version it knows of.
MutReadFiles(r) ==
  LET k == IF req[r].kind = "rollback" /\ req[r].seq > 0 THEN req[r].seq ELSE req[r].base
      base == versions[req[r].conv][k].files
  IN
  /\ req[r].pc = "files"
  /\ Resolved(r, IF req[r].kind = "ops" THEN Overlay(req[r].writes, base) ELSE base)
  /\ UNCHANGED <<project, versions>>

\* GetFilesByVersion: the writes of a message go over the files of its base.
ReadFiles(r) ==
  LET base == versions[req[r].conv][req[r].base].files IN
  /\ req[r].pc = "files"
  /\ Resolved(r, IF req[r].kind = "ops" THEN Overlay(req[r].writes, base) ELSE base)
  /\ UNCHANGED <<project, versions>>

NewVersion(r) ==
  [files |-> req[r].files, origin |-> req[r].kind, writes |-> req[r].writes, target |-> req[r].base]

\* Mutants: seq is taken in the transaction; latest_version_seq is not
\* updated, or is the next free number.
MutSaveAtLatest(r) ==
  LET c == req[r].conv IN
  /\ req[r].pc = "save"
  /\ versions' = [versions EXCEPT ![c][project[c] + 1] = NewVersion(r)]
  /\ project' = [project EXCEPT ![c] = @ + 1]
  /\ End(r)
MutSaveNextFree(r) ==
  LET c == req[r].conv
      k == req[r].seq + 1
  IN
  /\ req[r].pc = "save" /\ k \notin Rows(c)
  /\ versions' = [versions EXCEPT ![c][k] = NewVersion(r)]
  /\ project' = [project EXCEPT ![c] = k + 1]
  /\ End(r)

\* SaveVersion, one transaction: UNIQUE(project_id, seq) refuses a number that
\* another request took since latest_version_seq was read.
SaveVersion(r) ==
  LET c == req[r].conv
      k == req[r].seq + 1
  IN
  /\ req[r].pc = "save"
  /\ IF k \in Rows(c)
       THEN /\ End(r)
            /\ UNCHANGED <<project, versions>>
       ELSE /\ versions' = [versions EXCEPT ![c][k] = NewVersion(r)]
            /\ project' = [project EXCEPT ![c] = k]
            /\ End(r)

\* A statement fails because the client went away, or the process ends.
Abort(r) ==
  /\ req[r].pc # "idle"
  /\ End(r)
  /\ UNCHANGED <<project, versions>>

-----------------------------------------------------------------------------

Next ==
  \/ \E r \in Recorders, c \in Conversations, in \in Input : EnsureRead(r, c, in)
  \/ \E r \in Recorders : EnsureCreate(r) \/ ReadLatest(r)
  \/ \E b \in Rollbackers, c \in Conversations, k \in Seqs : RollbackRead(b, c, k)
  \/ \E b \in Rollbackers : RollbackTarget(b)
  \/ \E r \in Requests : ReadFiles(r) \/ SaveVersion(r) \/ Abort(r)

Spec == Init /\ [][Next]_vars

-----------------------------------------------------------------------------
(* Properties.                                                             *)

\* The tables and the requests keep their types.
TypeOK ==
  /\ project \in [Conversations -> 0..MaxSeq \cup {None}]
  /\ versions \in [Conversations -> [Seqs -> Version]]
  /\ req \in [Requests -> Request]

\* The versions of a project are numbered 1, 2, ..., latest_version_seq
\* without a gap, whichever requests race for the next number.
SeqContiguous ==
  \A c \in Conversations :
    Rows(c) = IF project[c] = None THEN {} ELSE 1..project[c]

Predecessor(c, k) == IF k = 1 THEN NoFiles ELSE versions[c][k - 1].files

\* No update of a concurrent message is lost: a version made from operations
\* is its direct predecessor with these writes on top, although its number and
\* its base were read in two statements.
OpsOnPredecessor ==
  \A c \in Conversations : \A k \in Rows(c) :
    versions[c][k].origin = "ops" => versions[c][k].files = Overlay(versions[c][k].writes, Predecessor(c, k))

\* A rollback restores the files of an earlier version exactly.
RollbackExact ==
  \A c \in Conversations : \A k \in Rows(c) :
    versions[c][k].origin = "rollback" =>
      /\ versions[c][k].target \in 1..(k - 1)
      /\ versions[c][k].files = versions[c][versions[c][k].target].files

\* History is preserved: no stored version is changed or removed by a later
\* message or rollback.
HistoryKept ==
  [][\A c \in Conversations : \A k \in Rows(c) : versions'[c][k] = versions[c][k]]_vars

\* The versions of each project, in their order.
logOf == [c \in Conversations |-> [k \in Rows(c) |-> versions[c][k]]]

Log == INSTANCE VersionLog WITH log <- logOf

\* Concurrent messages and rollbacks have the effect of requests served one after the
\* other: each version is a snapshot, writes over its direct predecessor, or an exact
\* copy of an earlier one; numbers have no gap and nothing stored is changed.
ImplementsLog == Log!Spec

=============================================================================
