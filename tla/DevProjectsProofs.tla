-------------------------- MODULE DevProjectsProofs --------------------------
(***************************************************************************)
(* Proofs about DevProjects: type correctness, the numbering of versions,  *)
(* the absence of lost updates between operations of concurrent messages,  *)
(* exact rollbacks, the preservation of history, and that all of it is a   *)
(* log served one request at a time (VersionLog), for every number of      *)
(* conversations and requests.                                             *)
(***************************************************************************)
EXTENDS DevProjects, Sequences, TLAPS

USE DistinctRequests

LEMMA NoFilesTyped == NoFiles \in Files
  <1>1. NoFiles \in [{} -> Contents]
    BY DEF NoFiles
  <1> QED BY <1>1 DEF Files

\* The files a message leaves behind are files again.
LEMMA OverlayTyped == ASSUME NEW w \in Files, NEW b \in Files PROVE Overlay(w, b) \in Files
  <1>1. PICK S \in SUBSET Paths : w \in [S -> Contents]
    BY DEF Files
  <1>2. PICK T \in SUBSET Paths : b \in [T -> Contents]
    BY DEF Files
  <1>3. Overlay(w, b) \in [(S \cup T) -> Contents]
    BY <1>1, <1>2 DEF Overlay
  <1> QED BY <1>3 DEF Files

LEMMA IdleTyped == Idle \in Request
  <1>1. NoFiles \in Files /\ 0 \in 0..(MaxSeq - 1) /\ 0 \in 0..MaxSeq
    BY NoFilesTyped
  <1> QED BY <1>1 DEF Idle, Request

-----------------------------------------------------------------------------
(* The inductive invariant.                                                *)

\* What request r has read and not yet written.
RequestOK(r) ==
  LET q == req[r]
      c == q.conv
  IN
  /\ q.pc # "idle" => c \in Conversations
  /\ q.pc = "create" => q.kind \in {"snapshot", "ops"}
  /\ q.pc \in {"latest", "target", "files", "save"} => project[c] # None /\ q.seq <= project[c]
  /\ q.pc = "latest" => q.kind = "ops"
  /\ q.pc = "target" => q.kind = "rollback"
  /\ q.pc = "files" => /\ q.kind \in {"ops", "rollback"}
                       /\ q.base \in Rows(c)
                       /\ q.kind = "ops" => q.seq <= q.base
  /\ q.pc = "save" =>
       /\ q.kind \in {"snapshot", "ops", "rollback"}
       /\ q.kind = "ops" /\ project[c] = q.seq => q.files = Overlay(q.writes, Predecessor(c, q.seq + 1))
       /\ q.kind = "rollback" => q.base \in Rows(c) /\ q.files = versions[c][q.base].files

Inv ==
  /\ TypeOK
  /\ SeqContiguous
  /\ OpsOnPredecessor
  /\ RollbackExact
  /\ \A r \in Requests : RequestOK(r)

THEOREM InitInv == Init => Inv
  <1> SUFFICES ASSUME Init PROVE Inv
    OBVIOUS
  <1> USE DEF Init
  <1>1. NoVersion \in Version
    BY NoFilesTyped DEF NoVersion, Version
  <1>2. TypeOK
    BY <1>1, IdleTyped DEF TypeOK
  <1>3. \A c \in Conversations : Rows(c) = {} /\ project[c] = None
    BY DEF Rows
  <1>4. SeqContiguous /\ OpsOnPredecessor /\ RollbackExact
    BY <1>3 DEF SeqContiguous, OpsOnPredecessor, RollbackExact
  <1>5. \A r \in Requests : RequestOK(r)
    BY DEF RequestOK, Idle
  <1> QED BY <1>2, <1>4, <1>5 DEF Inv

-----------------------------------------------------------------------------
(* What a step of one request does to the others.                          *)

\* Projects appear and grow, versions stay.
Grows ==
  /\ \A c \in Conversations : project'[c] >= project[c]
  /\ \A c \in Conversations : \A k \in Rows(c) : k \in Rows(c)' /\ versions'[c][k] = versions[c][k]

LEMMA UnchangedGrows == ASSUME Inv, UNCHANGED <<project, versions>> PROVE Grows
  BY DEF Inv, TypeOK, Grows, Rows, None

\* A request that does not move keeps what it knows.
LEMMA OthersKeep ==
  ASSUME Inv, Grows, TypeOK', NEW r \in Requests, req'[r] = req[r]
  PROVE  RequestOK(r)'
  <1> DEFINE q == req[r]
             c == q.conv
  <1>1. RequestOK(r) /\ q \in Request /\ TypeOK /\ SeqContiguous
    BY DEF Inv, TypeOK
  <1>2. q.pc # "idle" => c \in Conversations
    BY <1>1 DEF RequestOK
  <1>3. ASSUME c \in Conversations
        PROVE  /\ project[c] \in 0..MaxSeq \cup {None} /\ project'[c] \in 0..MaxSeq \cup {None}
               /\ project'[c] >= project[c]
               /\ \A k \in Rows(c) : k \in Rows(c)' /\ versions'[c][k] = versions[c][k]
               /\ Rows(c) = IF project[c] = None THEN {} ELSE 1..project[c]
    BY <1>1, <1>3 DEF TypeOK, Grows, SeqContiguous
  <1>4. q.seq \in 0..(MaxSeq - 1)
    BY <1>1 DEF Request
  <1>5. q.pc \in {"latest", "target", "files", "save"} => project'[c] # None /\ q.seq <= project'[c]
    BY <1>1, <1>2, <1>3, <1>4 DEF RequestOK, None
  <1>6. q.pc = "files" => q.base \in Rows(c)'
    BY <1>1, <1>2, <1>3 DEF RequestOK
  <1>7. ASSUME q.pc = "save", q.kind = "ops", project'[c] = q.seq
        PROVE  q.files = Overlay(q.writes, Predecessor(c, q.seq + 1)')
    <2>1. c \in Conversations /\ project[c] # None /\ q.seq <= project[c]
      BY <1>1, <1>2, <1>7 DEF RequestOK
    <2>2. project[c] = q.seq
      BY <2>1, <1>3, <1>4, <1>7 DEF None
    <2>3. q.files = Overlay(q.writes, Predecessor(c, q.seq + 1))
      BY <1>1, <1>7, <2>2 DEF RequestOK
    <2>4. Predecessor(c, q.seq + 1)' = Predecessor(c, q.seq + 1)
      <3>1. CASE q.seq = 0
        BY <3>1 DEF Predecessor
      <3>2. CASE q.seq # 0
        <4>1. q.seq \in Rows(c)
          BY <3>2, <2>1, <2>2, <1>3, <1>4
        <4>2. versions'[c][q.seq] = versions[c][q.seq]
          BY <4>1, <2>1, <1>3
        <4> QED BY <4>2, <3>2, <1>4 DEF Predecessor
      <3> QED BY <3>1, <3>2
    <2> QED BY <2>3, <2>4
  <1>8. q.pc = "save" /\ q.kind = "rollback" =>
          q.base \in Rows(c)' /\ q.files = versions'[c][q.base].files
    BY <1>1, <1>2, <1>3 DEF RequestOK
  <1> QED BY <1>1, <1>2, <1>5, <1>6, <1>7, <1>8 DEF RequestOK

-----------------------------------------------------------------------------
(* The steps.                                                              *)

\* A step that only moves request r, to a state that fits the tables.
LEMMA ReadStep ==
  ASSUME Inv, UNCHANGED <<project, versions>>, NEW r \in Requests, NEW q \in Request,
         req' = [req EXCEPT ![r] = q], RequestOK(r)'
  PROVE  Inv'
  <1>1. TypeOK'
    BY DEF Inv, TypeOK
  <1>2. SeqContiguous' /\ OpsOnPredecessor' /\ RollbackExact'
    BY DEF Inv, SeqContiguous, OpsOnPredecessor, RollbackExact, Rows, Predecessor
  <1>3. ASSUME NEW s \in Requests PROVE RequestOK(s)'
    <2>1. CASE s = r
      BY <2>1
    <2>2. CASE s # r
      <3>1. req'[s] = req[s]
        BY <2>2 DEF Inv, TypeOK
      <3> QED BY <3>1, <1>1, UnchangedGrows, OthersKeep
    <2> QED BY <2>1, <2>2
  <1> QED BY <1>1, <1>2, <1>3 DEF Inv

\* A request that ends knows nothing.
LEMMA EndStep ==
  ASSUME Inv, UNCHANGED <<project, versions>>, NEW r \in Requests, End(r)
  PROVE  Inv'
  <1>1. Idle.pc = "idle"
    BY DEF Idle
  <1>2. req'[r] = Idle
    BY DEF Inv, TypeOK, End
  <1>3. RequestOK(r)'
    BY <1>1, <1>2 DEF RequestOK
  <1> QED BY <1>3, IdleTyped, ReadStep DEF End

\* The states a request enters with EnsureRead and Resolve.
Creating(c, kind, files) == [Idle EXCEPT !.pc = "create", !.conv = c, !.kind = kind, !.writes = files]

Resolving(c, kind, files, seq) ==
  [Idle EXCEPT !.pc = IF kind = "snapshot" THEN "save" ELSE "latest",
               !.conv = c, !.seq = seq, !.kind = kind, !.writes = files,
               !.files = IF kind = "snapshot" THEN files ELSE NoFiles]

LEMMA ResolvingTyped ==
  ASSUME NEW c \in Conversations, NEW kind \in {"snapshot", "ops"}, NEW files \in Files,
         NEW seq \in 0..(MaxSeq - 1)
  PROVE  LET q == Resolving(c, kind, files, seq)
         IN  /\ q \in Request /\ q.conv = c /\ q.seq = seq /\ q.kind = kind
             /\ q.pc = IF kind = "snapshot" THEN "save" ELSE "latest"
  <1>1. NoFiles \in Files /\ 0 \in 0..MaxSeq
    BY NoFilesTyped
  <1> QED BY <1>1 DEF Idle, Request, Resolving

LEMMA CreatingTyped ==
  ASSUME NEW c \in Conversations, NEW kind \in {"snapshot", "ops"}, NEW files \in Files
  PROVE  LET q == Creating(c, kind, files)
         IN  q \in Request /\ q.conv = c /\ q.kind = kind /\ q.pc = "create"
  <1>1. NoFiles \in Files /\ 0 \in 0..MaxSeq /\ 0 \in 0..(MaxSeq - 1)
    BY NoFilesTyped
  <1> QED BY <1>1 DEF Idle, Request, Creating

LEMMA EnsureReadStep ==
  ASSUME Inv, NEW r \in Recorders, NEW c \in Conversations, NEW in \in Input, EnsureRead(r, c, in)
  PROVE  Inv'
  <1>1. /\ in.kind \in {"snapshot", "ops"} /\ in.files \in Files
        /\ r \in Requests /\ project[c] \in 0..MaxSeq \cup {None}
    BY DEF Input, Requests, Inv, TypeOK
  <1>2. CASE project[c] = None
    <2> DEFINE q == Creating(c, in.kind, in.files)
    <2>1. q \in Request /\ q.pc = "create" /\ q.conv = c /\ q.kind = in.kind
      BY <1>1, CreatingTyped
    <2>2. req' = [req EXCEPT ![r] = q] /\ UNCHANGED <<project, versions>>
      BY <1>2 DEF EnsureRead, Creating
    <2>3. req'[r] = q
      BY <2>2, <1>1 DEF Inv, TypeOK
    <2> HIDE DEF q
    <2>4. RequestOK(r)'
      BY <2>1, <2>3, <1>1 DEF RequestOK
    <2> QED BY <1>1, <2>1, <2>2, <2>4, ReadStep
  <1>3. CASE project[c] # None
    <2>1. project[c] \in 0..(MaxSeq - 1)
      BY <1>1, <1>3 DEF EnsureRead
    <2> DEFINE p == Resolving(c, in.kind, in.files, project[c])
    <2>2. /\ p \in Request /\ p.conv = c /\ p.seq = project[c] /\ p.kind = in.kind
          /\ p.pc = IF in.kind = "snapshot" THEN "save" ELSE "latest"
      BY <1>1, <2>1, ResolvingTyped
    <2>3. req' = [req EXCEPT ![r] = p]
      BY <1>3 DEF EnsureRead, Resolve, Resolving
    <2> HIDE DEF p
    <2>4. PICK q \in Request :
            /\ req' = [req EXCEPT ![r] = q]
            /\ q.conv = c /\ q.seq = project[c] /\ q.kind = in.kind
            /\ q.pc = IF in.kind = "snapshot" THEN "save" ELSE "latest"
      BY <2>2, <2>3
    <2>5. req'[r] = q /\ UNCHANGED <<project, versions>>
      BY <2>4, <1>1 DEF Inv, TypeOK, EnsureRead
    <2>6. RequestOK(r)'
      BY <2>1, <2>4, <2>5, <1>1, <1>3 DEF RequestOK
    <2> QED BY <1>1, <2>4, <2>5, <2>6, ReadStep
  <1> QED BY <1>2, <1>3

LEMMA EnsureCreateStep ==
  ASSUME Inv, NEW r \in Recorders, EnsureCreate(r)
  PROVE  Inv'
  <1> DEFINE c == req[r].conv
  <1>1. /\ r \in Requests /\ c \in Conversations /\ req[r].kind \in {"snapshot", "ops"}
        /\ req[r].writes \in Files
    BY DEF Requests, Inv, TypeOK, RequestOK, EnsureCreate, Request
  <1>2. CASE project[c] # None
    BY <1>1, <1>2, EndStep DEF EnsureCreate
  <1>3. CASE project[c] = None
    <2>1. project' = [project EXCEPT ![c] = 0] /\ versions' = versions
      BY <1>3 DEF EnsureCreate
    <2> DEFINE p == Resolving(c, req[r].kind, req[r].writes, 0)
    <2>2. /\ p \in Request /\ p.conv = c /\ p.seq = 0 /\ p.kind = req[r].kind
          /\ p.pc = IF req[r].kind = "snapshot" THEN "save" ELSE "latest"
      BY <1>1, ResolvingTyped
    <2>3. req' = [req EXCEPT ![r] = p]
      BY <1>3 DEF EnsureCreate, Resolve, Resolving
    <2> HIDE DEF p
    <2>4. PICK q \in Request :
            /\ req' = [req EXCEPT ![r] = q]
            /\ q.conv = c /\ q.seq = 0 /\ q.kind = req[r].kind
            /\ q.pc = IF req[r].kind = "snapshot" THEN "save" ELSE "latest"
      BY <2>2, <2>3
    <2> HIDE DEF c
    <2>5. TypeOK'
      BY <1>1, <2>1, <2>4 DEF Inv, TypeOK
    <2>6. Grows
      BY <1>1, <1>3, <2>1 DEF Inv, TypeOK, Grows, Rows, None
    <2>7. SeqContiguous'
      <3>1. Rows(c) = {} /\ \A d \in Conversations : Rows(d)' = Rows(d)
        BY <1>1, <1>3, <2>1 DEF Inv, SeqContiguous, Rows
      <3>2. project'[c] = 0 /\ \A d \in Conversations : d # c => project'[d] = project[d]
        BY <1>1, <2>1 DEF Inv, TypeOK
      <3> QED BY <3>1, <3>2 DEF Inv, SeqContiguous, None
    <2>8. OpsOnPredecessor' /\ RollbackExact'
      BY <2>1 DEF Inv, OpsOnPredecessor, RollbackExact, Rows, Predecessor
    <2>9. ASSUME NEW s \in Requests PROVE RequestOK(s)'
      <3>1. CASE s = r
        <4>1. req'[r] = q /\ project'[c] = 0
          BY <1>1, <2>1, <2>4 DEF Inv, TypeOK
        <4> QED BY <3>1, <4>1, <2>4, <1>1 DEF RequestOK, None
      <3>2. CASE s # r
        <4>1. req'[s] = req[s]
          BY <3>2, <2>4 DEF Inv, TypeOK
        <4> QED BY <4>1, <2>5, <2>6, OthersKeep
      <3> QED BY <3>1, <3>2
    <2> QED BY <2>5, <2>7, <2>8, <2>9 DEF Inv
  <1> QED BY <1>2, <1>3

\* A request that found its files, or has nothing to save.
LEMMA ResolvedStep ==
  ASSUME Inv, UNCHANGED <<project, versions>>, NEW r \in Requests, NEW files \in Files,
         req[r].pc \in {"latest", "files"}, Resolved(r, files),
         req[r].kind \in {"ops", "rollback"},
         req[r].kind = "ops" /\ project[req[r].conv] = req[r].seq =>
           files = Overlay(req[r].writes, Predecessor(req[r].conv, req[r].seq + 1)),
         req[r].kind = "rollback" =>
           req[r].base \in Rows(req[r].conv) /\ files = versions[req[r].conv][req[r].base].files
  PROVE  Inv'
  <1>1. CASE End(r)
    BY <1>1, EndStep
  <1>2. CASE req' = [req EXCEPT ![r].pc = "save", ![r].files = files]
    <2> DEFINE q == [req[r] EXCEPT !.pc = "save", !.files = files]
    <2>1. req[r] \in Request /\ RequestOK(r)
      BY DEF Inv, TypeOK
    <2>2. /\ q \in Request /\ q.pc = "save" /\ q.files = files
          /\ q.conv = req[r].conv /\ q.seq = req[r].seq /\ q.kind = req[r].kind
          /\ q.writes = req[r].writes /\ q.base = req[r].base
      BY <2>1 DEF Request
    <2>3. req' = [req EXCEPT ![r] = q]
      BY <1>2
    <2> HIDE DEF q
    <2>4. PICK p \in Request :
            /\ req' = [req EXCEPT ![r] = p] /\ p.pc = "save" /\ p.files = files
            /\ p.conv = req[r].conv /\ p.seq = req[r].seq /\ p.kind = req[r].kind
            /\ p.writes = req[r].writes /\ p.base = req[r].base
      BY <2>2, <2>3
    <2>5. req'[r] = p
      BY <2>4 DEF Inv, TypeOK
    <2>6. Rows(p.conv)' = Rows(p.conv) /\ Predecessor(p.conv, p.seq + 1)' = Predecessor(p.conv, p.seq + 1)
      BY DEF Rows, Predecessor
    <2>7. RequestOK(r)'
      BY <2>1, <2>4, <2>5, <2>6 DEF RequestOK
    <2> QED BY <2>4, <2>7, ReadStep
  <1> QED BY <1>1, <1>2 DEF Resolved

LEMMA ReadLatestStep == ASSUME Inv, NEW r \in Recorders, ReadLatest(r) PROVE Inv'
  <1> DEFINE c == req[r].conv
  <1>1. /\ r \in Requests /\ req[r] \in Request /\ req[r].pc = "latest" /\ req[r].kind = "ops"
        /\ c \in Conversations /\ project[c] # None /\ req[r].seq <= project[c]
        /\ UNCHANGED <<project, versions>>
    BY DEF Requests, Inv, TypeOK, RequestOK, ReadLatest
  <1>2. project[c] \in 0..MaxSeq /\ Rows(c) = 1..project[c] /\ req[r].seq \in 0..(MaxSeq - 1)
    BY <1>1 DEF Inv, TypeOK, SeqContiguous, Request
  <1>3. CASE Rows(c) = {}
    <2>1. Resolved(r, req[r].writes) /\ req[r].writes \in Files
      BY <1>1, <1>3 DEF ReadLatest, Request
    <2>2. req[r].seq = 0
      <3>1. 1 \notin 1..project[c]
        BY <1>2, <1>3
      <3> QED BY <3>1, <1>1, <1>2
    <2>3. req[r].writes = Overlay(req[r].writes, Predecessor(c, req[r].seq + 1))
      <3>1. Predecessor(c, req[r].seq + 1) = NoFiles
        BY <2>2 DEF Predecessor
      <3>2. PICK S \in SUBSET Paths : req[r].writes \in [S -> Contents]
        BY <2>1 DEF Files
      <3>3. Overlay(req[r].writes, NoFiles) = req[r].writes
        BY <3>2 DEF Overlay, NoFiles
      <3> QED BY <3>1, <3>3
    <2> QED BY <1>1, <2>1, <2>3, ResolvedStep
  <1>4. CASE Rows(c) # {}
    <2>1. PICK k \in Rows(c) : /\ \A j \in Rows(c) : j <= k
                               /\ req' = [req EXCEPT ![r].pc = "files", ![r].base = k]
      BY <1>4 DEF ReadLatest
    <2>2. k \in 0..MaxSeq /\ req[r].seq <= k
      BY <1>1, <1>2, <2>1
    <2> DEFINE q == [req[r] EXCEPT !.pc = "files", !.base = k]
    <2>3. /\ q \in Request /\ q.pc = "files" /\ q.base = k
          /\ q.conv = c /\ q.seq = req[r].seq /\ q.kind = "ops"
      BY <1>1, <2>2 DEF Request
    <2>4. req' = [req EXCEPT ![r] = q]
      BY <2>1
    <2> HIDE DEF q
    <2>5. PICK p \in Request :
            /\ req' = [req EXCEPT ![r] = p] /\ p.pc = "files" /\ p.base = k
            /\ p.conv = c /\ p.seq = req[r].seq /\ p.kind = "ops"
      BY <2>3, <2>4
    <2>6. req'[r] = p
      BY <1>1, <2>5 DEF Inv, TypeOK
    <2>7. Rows(p.conv)' = Rows(p.conv)
      BY <1>1 DEF Rows
    <2> HIDE DEF c
    <2>8. RequestOK(r)'
      BY <1>1, <2>1, <2>2, <2>5, <2>6, <2>7 DEF RequestOK
    <2> QED BY <1>1, <2>5, <2>8, ReadStep
  <1> QED BY <1>3, <1>4

LEMMA RollbackReadStep ==
  ASSUME Inv, NEW b \in Rollbackers, NEW c \in Conversations, NEW k \in Seqs, RollbackRead(b, c, k)
  PROVE  Inv'
  <1> DEFINE q == [Idle EXCEPT !.pc = "target", !.conv = c, !.seq = project[c],
                               !.kind = "rollback", !.base = k]
  <1>1. /\ b \in Requests /\ k \in 0..MaxSeq /\ UNCHANGED <<project, versions>>
        /\ project[c] # None /\ project[c] \in 0..(MaxSeq - 1)
    BY DEF Requests, Seqs, Inv, TypeOK, RollbackRead
  <1>2. /\ q \in Request /\ q.pc = "target" /\ q.conv = c
        /\ q.seq = project[c] /\ q.kind = "rollback"
    BY <1>1, NoFilesTyped DEF Idle, Request
  <1>3. req' = [req EXCEPT ![b] = q]
    BY DEF RollbackRead
  <1> HIDE DEF q
  <1>4. req'[b] = q
    BY <1>1, <1>3 DEF Inv, TypeOK
  <1>5. RequestOK(b)'
    BY <1>1, <1>2, <1>4 DEF RequestOK
  <1> QED BY <1>1, <1>2, <1>3, <1>5, ReadStep

LEMMA RollbackTargetStep == ASSUME Inv, NEW b \in Rollbackers, RollbackTarget(b) PROVE Inv'
  <1> DEFINE c == req[b].conv
  <1>1. /\ b \in Requests /\ req[b] \in Request /\ req[b].pc = "target" /\ req[b].kind = "rollback"
        /\ c \in Conversations /\ project[c] # None /\ req[b].seq <= project[c]
        /\ UNCHANGED <<project, versions>>
    BY DEF Requests, Inv, TypeOK, RequestOK, RollbackTarget
  <1>2. CASE req[b].base \in Rows(c)
    <2> DEFINE q == [req[b] EXCEPT !.pc = "files"]
    <2>1. /\ q \in Request /\ q.pc = "files" /\ q.base = req[b].base
          /\ q.conv = c /\ q.seq = req[b].seq /\ q.kind = "rollback"
      BY <1>1 DEF Request
    <2>2. req' = [req EXCEPT ![b] = q]
      BY <1>2 DEF RollbackTarget
    <2> HIDE DEF q
    <2>3. PICK p \in Request :
            /\ req' = [req EXCEPT ![b] = p] /\ p.pc = "files" /\ p.base = req[b].base
            /\ p.conv = c /\ p.seq = req[b].seq /\ p.kind = "rollback"
      BY <2>1, <2>2
    <2>4. req'[b] = p
      BY <1>1, <2>3 DEF Inv, TypeOK
    <2>5. Rows(p.conv)' = Rows(p.conv)
      BY <1>1 DEF Rows
    <2> HIDE DEF c
    <2>6. RequestOK(b)'
      BY <1>1, <1>2, <2>3, <2>4, <2>5 DEF RequestOK
    <2> QED BY <1>1, <2>3, <2>6, ReadStep
  <1>3. CASE req[b].base \notin Rows(c)
    BY <1>1, <1>3, EndStep DEF RollbackTarget
  <1> QED BY <1>2, <1>3

LEMMA ReadFilesStep == ASSUME Inv, NEW r \in Requests, ReadFiles(r) PROVE Inv'
  <1> DEFINE c == req[r].conv
             base == versions[c][req[r].base].files
  <1>1. /\ req[r] \in Request /\ req[r].pc = "files" /\ req[r].kind \in {"ops", "rollback"}
        /\ c \in Conversations /\ project[c] # None /\ req[r].seq <= project[c]
        /\ req[r].base \in Rows(c) /\ (req[r].kind = "ops" => req[r].seq <= req[r].base)
        /\ UNCHANGED <<project, versions>>
    BY DEF Inv, TypeOK, RequestOK, ReadFiles
  <1>2. /\ project[c] \in 0..MaxSeq /\ Rows(c) = 1..project[c] /\ req[r].seq \in 0..(MaxSeq - 1)
        /\ base \in Files /\ req[r].writes \in Files
    BY <1>1 DEF Inv, TypeOK, SeqContiguous, Request, Rows, Version
  <1>3. CASE req[r].kind = "ops"
    <2>1. Overlay(req[r].writes, base) \in Files /\ Resolved(r, Overlay(req[r].writes, base))
      BY <1>2, <1>3, OverlayTyped DEF ReadFiles
    <2>2. ASSUME project[c] = req[r].seq PROVE base = Predecessor(c, req[r].seq + 1)
      <3>1. req[r].base = req[r].seq /\ req[r].seq # 0
        BY <1>1, <1>2, <1>3, <2>2
      <3> QED BY <3>1, <1>2 DEF Predecessor
    <2> QED BY <1>1, <1>3, <2>1, <2>2, ResolvedStep
  <1>4. CASE req[r].kind = "rollback"
    <2>1. Resolved(r, base)
      BY <1>4 DEF ReadFiles
    <2> QED BY <1>1, <1>2, <1>4, <2>1, ResolvedStep
  <1> QED BY <1>1, <1>3, <1>4

\* A version that takes the next number of its project.
LEMMA SavedStep ==
  ASSUME Inv, NEW r \in Requests, NEW c \in Conversations, NEW k \in Seqs, NEW v \in Version,
         v # NoVersion, k \notin Rows(c), project[c] = k - 1,
         versions' = [versions EXCEPT ![c][k] = v], project' = [project EXCEPT ![c] = k], End(r),
         v.origin = "ops" => v.files = Overlay(v.writes, Predecessor(c, k)),
         v.origin = "rollback" => v.target \in Rows(c) /\ v.files = versions[c][v.target].files
  PROVE  Inv'
  <1>1. /\ \A d \in Conversations : project'[d] = IF d = c THEN k ELSE project[d]
        /\ \A d \in Conversations : \A j \in Seqs :
             versions'[d][j] = IF d = c /\ j = k THEN v ELSE versions[d][j]
        /\ k \in Nat /\ k >= 1 /\ MaxSeq \in Nat
    BY DEF Inv, TypeOK, Seqs
  <1>2. \A d \in Conversations : Rows(d)' = IF d = c THEN Rows(c) \cup {k} ELSE Rows(d)
    BY <1>1 DEF Rows
  <1>3. Rows(c) = 1..(k - 1)
    BY <1>1 DEF Inv, SeqContiguous, None
  <1>4. TypeOK'
    <2>1. project' \in [Conversations -> 0..MaxSeq \cup {None}]
      BY DEF Inv, TypeOK, Seqs
    <2>2. versions' \in [Conversations -> [Seqs -> Version]]
      BY DEF Inv, TypeOK
    <2>3. req' \in [Requests -> Request]
      BY IdleTyped DEF Inv, TypeOK, End
    <2> QED BY <2>1, <2>2, <2>3 DEF TypeOK
  <1>5. SeqContiguous'
    <2>1. Rows(c)' = 1..k
      <3>1. 1..k = 1..(k - 1) \cup {k}
        BY <1>1
      <3> QED BY <3>1, <1>2, <1>3
    <2> QED BY <1>1, <1>2, <2>1 DEF Inv, SeqContiguous, None
  <1>6. OpsOnPredecessor'
    <2> SUFFICES ASSUME NEW d \in Conversations, NEW j \in Rows(d)', versions'[d][j].origin = "ops"
                 PROVE  versions'[d][j].files = Overlay(versions'[d][j].writes, Predecessor(d, j)')
      BY DEF OpsOnPredecessor
    <2>1. Predecessor(d, j)' = Predecessor(d, j)
      <3>1. CASE j = 1
        BY <3>1 DEF Predecessor
      <3>2. CASE j # 1
        <4>1. j \in Seqs /\ j - 1 \in Seqs /\ (d = c => j - 1 # k)
          BY <3>2, <1>1, <1>2, <1>3 DEF Rows, Seqs
        <4> QED BY <4>1, <3>2, <1>1 DEF Predecessor
      <3> QED BY <3>1, <3>2
    <2>2. CASE d = c /\ j = k
      BY <2>1, <2>2, <1>1
    <2>3. CASE ~ (d = c /\ j = k)
      <3>1. j \in Rows(d) /\ versions'[d][j] = versions[d][j]
        BY <2>3, <1>1, <1>2 DEF Rows
      <3> QED BY <3>1, <2>1 DEF Inv, OpsOnPredecessor
    <2> QED BY <2>2, <2>3
  <1>7. RollbackExact'
    <2> SUFFICES ASSUME NEW d \in Conversations, NEW j \in Rows(d)', versions'[d][j].origin = "rollback"
                 PROVE  /\ versions'[d][j].target \in 1..(j - 1)
                        /\ versions'[d][j].files = versions'[d][versions'[d][j].target].files
      BY DEF RollbackExact
    <2>1. CASE d = c /\ j = k
      <3>1. v.target \in 1..(k - 1) /\ v.target \in Seqs /\ v.target # k
        BY <2>1, <1>1, <1>3 DEF Rows
      <3> QED BY <2>1, <3>1, <1>1
    <2>2. CASE ~ (d = c /\ j = k)
      <3>1. j \in Rows(d) /\ versions'[d][j] = versions[d][j]
        BY <2>2, <1>1, <1>2 DEF Rows
      <3> DEFINE t == versions[d][j].target
      <3>2. t \in 1..(j - 1) /\ versions[d][j].files = versions[d][t].files
        BY <3>1 DEF Inv, RollbackExact
      <3>3. t \in Seqs /\ (d = c => t # k)
        BY <3>1, <3>2, <1>1, <1>3 DEF Rows, Seqs
      <3> QED BY <3>1, <3>2, <3>3, <1>1
    <2> QED BY <2>1, <2>2
  <1>8. Grows
    BY <1>1, <1>2 DEF Grows, Rows, Inv, TypeOK, None
  <1>9. ASSUME NEW s \in Requests PROVE RequestOK(s)'
    <2>1. CASE s = r
      <3>1. req'[r] = Idle /\ Idle.pc = "idle"
        BY DEF End, Idle, Inv, TypeOK
      <3> QED BY <2>1, <3>1 DEF RequestOK
    <2>2. CASE s # r
      <3>1. req'[s] = req[s]
        BY <2>2 DEF End, Inv, TypeOK
      <3> QED BY <3>1, <1>4, <1>8, OthersKeep
    <2> QED BY <2>1, <2>2
  <1> QED BY <1>4, <1>5, <1>6, <1>7, <1>9 DEF Inv

LEMMA NewVersionTyped ==
  ASSUME Inv, NEW r \in Requests, req[r].kind # "none"
  PROVE  /\ NewVersion(r) \in Version /\ NewVersion(r) # NoVersion
         /\ NewVersion(r).files = req[r].files /\ NewVersion(r).origin = req[r].kind
         /\ NewVersion(r).writes = req[r].writes /\ NewVersion(r).target = req[r].base
  <1>1. req[r] \in Request
    BY DEF Inv, TypeOK
  <1>2. NewVersion(r).origin # NoVersion.origin
    BY DEF NewVersion, NoVersion
  <1> QED BY <1>1, <1>2 DEF NewVersion, Version, Request

\* The version was numbered from a latest_version_seq read long ago; UNIQUE lets
\* it in only if that is still the latest.
LEMMA SaveVersionStep == ASSUME Inv, NEW r \in Requests, SaveVersion(r) PROVE Inv'
  <1> DEFINE c == req[r].conv
             k == req[r].seq + 1
  <1>1. /\ req[r].pc = "save" /\ c \in Conversations /\ project[c] # None /\ req[r].seq <= project[c]
        /\ req[r].kind # "none" /\ req[r] \in Request /\ RequestOK(r)
    BY DEF Inv, TypeOK, RequestOK, SaveVersion
  <1>2. /\ project[c] \in 0..MaxSeq /\ req[r].seq \in 0..(MaxSeq - 1)
        /\ Rows(c) = 1..project[c] /\ k \in Seqs
    BY <1>1 DEF Inv, TypeOK, SeqContiguous, Request, Seqs
  <1>3. CASE k \in Rows(c)
    BY <1>3, EndStep DEF SaveVersion
  <1>4. CASE k \notin Rows(c)
    <2>1. project[c] = req[r].seq
      BY <1>1, <1>2, <1>4
    <2>2. /\ versions' = [versions EXCEPT ![c][k] = NewVersion(r)]
          /\ project' = [project EXCEPT ![c] = k] /\ End(r)
      BY <1>4 DEF SaveVersion
    <2>3. /\ req[r].kind = "ops" => req[r].files = Overlay(req[r].writes, Predecessor(c, k))
          /\ req[r].kind = "rollback" =>
               req[r].base \in Rows(c) /\ req[r].files = versions[c][req[r].base].files
      BY <1>1, <2>1 DEF RequestOK
    <2>4. PICK n \in Seqs, d \in Conversations, v \in Version :
            n = k /\ d = c /\ v = NewVersion(r)
      BY <1>1, <1>2, NewVersionTyped
    <2>5. /\ v # NoVersion /\ v.files = req[r].files /\ v.origin = req[r].kind
          /\ v.writes = req[r].writes /\ v.target = req[r].base
      BY <1>1, <2>4, NewVersionTyped
    <2>6. /\ n \notin Rows(d) /\ project[d] = n - 1
          /\ versions' = [versions EXCEPT ![d][n] = v] /\ project' = [project EXCEPT ![d] = n]
      BY <1>2, <1>4, <2>1, <2>2, <2>4
    <2>7. /\ v.origin = "ops" => v.files = Overlay(v.writes, Predecessor(d, n))
          /\ v.origin = "rollback" => v.target \in Rows(d) /\ v.files = versions[d][v.target].files
      BY <2>3, <2>4, <2>5
    <2> QED BY <2>2, <2>5, <2>6, <2>7, SavedStep
  <1> QED BY <1>3, <1>4

LEMMA AbortStep == ASSUME Inv, NEW r \in Requests, Abort(r) PROVE Inv'
  BY EndStep DEF Abort

-----------------------------------------------------------------------------
(* The theorems.                                                           *)

THEOREM StepInv == Inv /\ [Next]_vars => Inv'
  <1> SUFFICES ASSUME Inv, [Next]_vars PROVE Inv'
    OBVIOUS
  <1>1. CASE UNCHANGED vars
    BY <1>1 DEF vars, Inv, TypeOK, SeqContiguous, OpsOnPredecessor, RollbackExact, RequestOK, Rows,
                Predecessor
  <1>2. ASSUME NEW r \in Recorders, NEW c \in Conversations, NEW in \in Input, EnsureRead(r, c, in)
        PROVE  Inv'
    BY <1>2, EnsureReadStep
  <1>3. ASSUME NEW r \in Recorders, EnsureCreate(r) \/ ReadLatest(r) PROVE Inv'
    BY <1>3, EnsureCreateStep, ReadLatestStep
  <1>4. ASSUME NEW b \in Rollbackers, NEW c \in Conversations, NEW k \in Seqs, RollbackRead(b, c, k)
        PROVE  Inv'
    BY <1>4, RollbackReadStep
  <1>5. ASSUME NEW b \in Rollbackers, RollbackTarget(b) PROVE Inv'
    BY <1>5, RollbackTargetStep
  <1>6. ASSUME NEW r \in Requests, ReadFiles(r) \/ SaveVersion(r) \/ Abort(r) PROVE Inv'
    BY <1>6, ReadFilesStep, SaveVersionStep, AbortStep
  <1> QED BY <1>1, <1>2, <1>3, <1>4, <1>5, <1>6 DEF Next

\* Inv holds in every reachable state.
THEOREM InvHolds == Spec => []Inv
  BY InitInv, StepInv, PTL DEF Spec

\* The tables and the requests keep their types.
THEOREM DevTypeCorrect == Spec => []TypeOK
  <1>1. Inv => TypeOK
    BY DEF Inv
  <1> QED BY InvHolds, <1>1, PTL

\* Whichever requests race for the next number, the versions of a project are
\* numbered without a gap up to latest_version_seq.
THEOREM VersionsAreContiguous == Spec => []SeqContiguous
  <1>1. Inv => SeqContiguous
    BY DEF Inv
  <1> QED BY InvHolds, <1>1, PTL

\* Operations of concurrent messages never undo each other.
THEOREM NoUpdateLost == Spec => []OpsOnPredecessor
  <1>1. Inv => OpsOnPredecessor
    BY DEF Inv
  <1> QED BY InvHolds, <1>1, PTL

\* A rollback restores the files of the version it was asked for.
THEOREM RollbackIsExact == Spec => []RollbackExact
  <1>1. Inv => RollbackExact
    BY DEF Inv
  <1> QED BY InvHolds, <1>1, PTL

\* No step changes or removes a stored version.
THEOREM HistoryIsKept == Spec => HistoryKept
  <1> DEFINE Kept == \A c \in Conversations : \A k \in Rows(c) : versions'[c][k] = versions[c][k]
  <1>1. ASSUME Inv, [Next]_vars PROVE [Kept]_vars
    <2>1. ASSUME NEW r \in Requests, SaveVersion(r) PROVE Kept
      <3>1. TypeOK /\ req[r] \in Request
        BY <1>1 DEF Inv, TypeOK
      <3> QED BY <2>1, <3>1 DEF SaveVersion, TypeOK, Rows
    <2>2. ASSUME UNCHANGED versions PROVE Kept
      BY <2>2
    <2>3. (\E r \in Requests : SaveVersion(r)) \/ UNCHANGED versions
      BY <1>1 DEF Next, vars, Requests, EnsureRead, EnsureCreate, ReadLatest, RollbackRead, RollbackTarget,
                  ReadFiles, Abort
    <2> QED BY <2>1, <2>2, <2>3
  <1> QED BY InvHolds, <1>1, PTL DEF Spec, HistoryKept

-----------------------------------------------------------------------------
(* The log of versions: the specification implements VersionLog.           *)

\* What RequestOK leaves out and the log shows: what a version was made from.
SourceOK(r) ==
  LET q == req[r] IN
  /\ q.pc \in {"create", "latest"} => q.base = 0
  /\ q.kind = "snapshot" => q.base = 0 /\ q.writes # NoFiles
  /\ q.kind = "rollback" => q.writes = NoFiles
  /\ q.pc = "save" =>
       /\ q.files # NoFiles
       /\ q.kind = "snapshot" => q.files = q.writes
       /\ q.kind = "ops" => q.seq <= q.base /\ q.base <= project[q.conv]

Sources == \A r \in Requests : SourceOK(r)

\* One request goes on, and projects do not shrink.
LEMMA SourcesMove ==
  ASSUME Inv, Sources, Grows, TypeOK', NEW r \in Requests, SourceOK(r)',
         \A s \in Requests : s # r => req'[s] = req[s]
  PROVE  Sources'
  <1>1. ASSUME NEW s \in Requests, s # r PROVE SourceOK(s)'
    <2>1. SourceOK(s) /\ req[s] \in Request /\ req'[s] = req[s] /\ RequestOK(s)
      BY <1>1 DEF Sources, Inv, TypeOK
    <2>2. ASSUME req[s].pc = "save"
          PROVE  /\ req[s].conv \in Conversations
                 /\ project[req[s].conv] \in Int /\ project'[req[s].conv] >= project[req[s].conv]
                 /\ project'[req[s].conv] \in Int
      <3>1. req[s].conv \in Conversations
        BY <2>1, <2>2 DEF RequestOK
      <3>2. project[req[s].conv] \in Int /\ project'[req[s].conv] \in Int
        BY <3>1 DEF Inv, TypeOK, None
      <3> QED
        BY <2>1, <2>2, <3>1, <3>2 DEF Grows
    <2> QED
      BY <2>1, <2>2 DEF SourceOK, Request
  <1> QED
    BY <1>1 DEF Sources

LEMMA SourcesEnd ==
  ASSUME Inv, Sources, Grows, TypeOK', NEW r \in Requests, End(r)
  PROVE  Sources'
  <1>1. req'[r] = Idle /\ \A s \in Requests : s # r => req'[s] = req[s]
    BY DEF Inv, TypeOK, End
  <1>2. SourceOK(r)'
    BY <1>1 DEF SourceOK, Idle
  <1> QED
    BY <1>1, <1>2, SourcesMove

LEMMA StepGrows == ASSUME Inv, [Next]_vars PROVE Grows
  <1>1. CASE UNCHANGED <<project, versions>>
    BY <1>1, UnchangedGrows
  <1>2. ASSUME NEW r \in Recorders, EnsureCreate(r), ~UNCHANGED <<project, versions>> PROVE Grows
    <2>1. /\ req[r].conv \in Conversations /\ project[req[r].conv] = None
          /\ project' = [project EXCEPT ![req[r].conv] = 0] /\ versions' = versions
      BY <1>2 DEF EnsureCreate, Inv, RequestOK, Requests
    <2> QED
      BY <2>1 DEF Inv, TypeOK, Grows, Rows, None
  <1>3. ASSUME NEW r \in Requests, SaveVersion(r), ~UNCHANGED <<project, versions>> PROVE Grows
    <2> DEFINE c == req[r].conv
               k == req[r].seq + 1
    <2>1. /\ c \in Conversations /\ project[c] \in 0..MaxSeq /\ req[r].seq \in 0..(MaxSeq - 1)
          /\ req[r].seq <= project[c] /\ Rows(c) = 1..project[c] /\ k \notin Rows(c)
          /\ versions' = [versions EXCEPT ![c][k] = NewVersion(r)] /\ project' = [project EXCEPT ![c] = k]
      BY <1>3 DEF SaveVersion, Inv, RequestOK, TypeOK, SeqContiguous, Request
    <2>2. project[c] < k
      BY <2>1
    <2> HIDE DEF c, k
    <2>3. \A d \in Conversations : project'[d] >= project[d]
      BY <2>1, <2>2 DEF Inv, TypeOK, None, k
    <2>4. \A d \in Conversations : \A j \in Rows(d) : versions'[d][j] = versions[d][j]
      BY <2>1 DEF Inv, TypeOK, Rows
    <2> QED
      BY <2>3, <2>4 DEF Grows, Rows
  <1>4. UNCHANGED <<project, versions>> \/ (\E r \in Recorders : EnsureCreate(r)) \/ \E r \in Requests : SaveVersion(r)
    BY DEF Next, vars, EnsureRead, ReadLatest, RollbackRead, RollbackTarget, ReadFiles, Abort
  <1> QED
    BY <1>1, <1>2, <1>3, <1>4

LEMMA ResolvingIs ==
  ASSUME NEW c, NEW kind, NEW files, NEW seq
  PROVE  LET q == Resolving(c, kind, files, seq)
         IN  /\ q.pc = IF kind = "snapshot" THEN "save" ELSE "latest"
             /\ q.kind = kind /\ q.base = 0 /\ q.writes = files
             /\ kind = "snapshot" => q.files = files
  BY DEF Resolving, Idle

LEMMA SourcesResolve ==
  ASSUME Inv, Sources, Grows, TypeOK', NEW r \in Requests, NEW c, NEW kind \in {"snapshot", "ops"}, NEW files, NEW seq,
         Resolve(r, c, kind, files, seq), kind = "snapshot" => files # NoFiles
  PROVE  Sources'
  <1>1. req' = [req EXCEPT ![r] = Resolving(c, kind, files, seq)]
    BY DEF Resolve, Resolving
  <1>2. req'[r] = Resolving(c, kind, files, seq) /\ \A s \in Requests : s # r => req'[s] = req[s]
    BY <1>1 DEF Inv, TypeOK
  <1>3. SourceOK(r)'
    BY <1>2, ResolvingIs DEF SourceOK
  <1> QED
    BY <1>2, <1>3, SourcesMove

LEMMA SourcesEnsure ==
  ASSUME Inv, Sources, Grows, TypeOK', NEW r \in Recorders,
         EnsureCreate(r) \/ \E c \in Conversations, in \in Input : EnsureRead(r, c, in)
  PROVE  Sources'
  <1>0. r \in Requests /\ SourceOK(r) /\ RequestOK(r)
    BY DEF Requests, Sources, Inv
  <1>1. CASE EnsureCreate(r)
    <2>1. CASE End(r)
      BY <1>0, <2>1, SourcesEnd
    <2>2. CASE Resolve(r, req[r].conv, req[r].kind, req[r].writes, 0)
      <3>1. req[r].kind \in {"snapshot", "ops"} /\ (req[r].kind = "snapshot" => req[r].writes # NoFiles)
        BY <1>0, <1>1 DEF EnsureCreate, RequestOK, SourceOK
      <3> QED
        BY <1>0, <2>2, <3>1, SourcesResolve
    <2> QED
      BY <1>1, <2>1, <2>2 DEF EnsureCreate
  <1>2. ASSUME NEW c \in Conversations, NEW in \in Input, EnsureRead(r, c, in) PROVE Sources'
    <2>1. in.kind \in {"snapshot", "ops"} /\ (in.kind = "snapshot" => in.files # NoFiles)
      BY DEF Input
    <2>2. CASE Resolve(r, c, in.kind, in.files, project[c])
      BY <1>0, <2>1, <2>2, SourcesResolve
    <2>3. CASE req' = [req EXCEPT ![r] = Creating(c, in.kind, in.files)]
      <3>1. req'[r] = Creating(c, in.kind, in.files) /\ \A s \in Requests : s # r => req'[s] = req[s]
        BY <1>0, <2>3 DEF Inv, TypeOK
      <3>2. SourceOK(r)'
        BY <2>1, <3>1 DEF SourceOK, Creating, Idle
      <3> QED
        BY <1>0, <3>1, <3>2, SourcesMove
    <2> QED
      BY <1>2, <2>2, <2>3 DEF EnsureRead, Creating
  <1> QED
    BY <1>1, <1>2

LEMMA SourcesResolved ==
  ASSUME Inv, Sources, Grows, TypeOK', NEW r \in Requests, NEW files, Resolved(r, files),
         req[r].kind \in {"ops", "rollback"},
         req[r].kind = "ops" => req[r].seq <= req[r].base /\ req[r].base <= project'[req[r].conv]
  PROVE  Sources'
  <1>0. SourceOK(r) /\ req[r] \in Request
    BY DEF Sources, Inv, TypeOK
  <1>1. CASE End(r)
    BY <1>1, SourcesEnd
  <1>2. CASE files # NoFiles /\ req' = [req EXCEPT ![r].pc = "save", ![r].files = files]
    <2>1. /\ req'[r].pc = "save" /\ req'[r].files = files /\ req'[r].kind = req[r].kind
          /\ req'[r].base = req[r].base /\ req'[r].writes = req[r].writes /\ req'[r].seq = req[r].seq
          /\ req'[r].conv = req[r].conv
          /\ \A s \in Requests : s # r => req'[s] = req[s]
      BY <1>0, <1>2 DEF Inv, TypeOK, Request
    <2>2. SourceOK(r)'
      BY <1>0, <1>2, <2>1 DEF SourceOK
    <2> QED
      BY <2>1, <2>2, SourcesMove
  <1> QED
    BY <1>1, <1>2 DEF Resolved

LEMMA SourcesRead ==
  ASSUME Inv, Sources, Grows, TypeOK', NEW r \in Requests, ReadLatest(r) \/ ReadFiles(r)
  PROVE  Sources'
  <1> DEFINE c == req[r].conv
  <1>0. SourceOK(r) /\ req[r] \in Request /\ RequestOK(r) /\ UNCHANGED <<project, versions>>
    BY DEF Sources, Inv, TypeOK, ReadLatest, ReadFiles
  <1>1. /\ c \in Conversations /\ project[c] \in 0..MaxSeq /\ req[r].seq \in 0..(MaxSeq - 1)
        /\ req[r].seq <= project[c] /\ Rows(c) = 1..project[c] /\ project'[c] = project[c]
        /\ req[r].pc \in {"latest", "files"}
    BY <1>0 DEF Inv, TypeOK, SeqContiguous, Request, RequestOK, ReadLatest, ReadFiles
  <1>2. CASE ReadLatest(r) /\ Rows(c) = {}
    <2>1. req[r].kind = "ops" /\ req[r].base = 0 /\ Resolved(r, req[r].writes)
      BY <1>0, <1>2 DEF ReadLatest, RequestOK, SourceOK
    <2>2. req[r].seq = 0 /\ project[c] = 0
      <3>1. 1 \notin 1..project[c]
        BY <1>1, <1>2
      <3> HIDE DEF c
      <3> QED
        BY <1>1, <3>1
    <2> QED
      BY <1>1, <2>1, <2>2, SourcesResolved
  <1>3. ASSUME ReadLatest(r), NEW k \in Rows(c), req' = [req EXCEPT ![r].pc = "files", ![r].base = k]
        PROVE  Sources'
    <2>1. /\ req'[r].pc = "files" /\ req'[r].kind = req[r].kind /\ req[r].kind = "ops"
          /\ \A s \in Requests : s # r => req'[s] = req[s]
      BY <1>0, <1>3 DEF Inv, TypeOK, Request, ReadLatest, RequestOK
    <2>2. SourceOK(r)'
      BY <2>1 DEF SourceOK
    <2> QED
      BY <2>1, <2>2, SourcesMove
  <1>4. CASE ReadFiles(r)
    <2>1. /\ req[r].kind \in {"ops", "rollback"} /\ \E files : Resolved(r, files)
          /\ req[r].base \in Rows(c) /\ (req[r].kind = "ops" => req[r].seq <= req[r].base)
      BY <1>0, <1>4 DEF ReadFiles, RequestOK
    <2>2. req[r].base <= project'[c]
      BY <1>1, <2>1
    <2> QED
      BY <2>1, <2>2, SourcesResolved
  <1> QED
    BY <1>2, <1>3, <1>4 DEF ReadLatest

LEMMA SourcesRollback ==
  ASSUME Inv, Sources, Grows, TypeOK', NEW b \in Rollbackers,
         RollbackTarget(b) \/ \E c \in Conversations, k \in Seqs : RollbackRead(b, c, k)
  PROVE  Sources'
  <1>0. b \in Requests /\ SourceOK(b) /\ req[b] \in Request /\ RequestOK(b)
    BY DEF Requests, Sources, Inv, TypeOK
  <1>1. CASE End(b)
    BY <1>0, <1>1, SourcesEnd
  <1>2. CASE req[b].pc = "target" /\ req' = [req EXCEPT ![b].pc = "files"]
    <2>1. /\ req'[b].pc = "files" /\ req'[b].kind = "rollback" /\ req'[b].writes = req[b].writes
          /\ req[b].kind = "rollback"
          /\ \A s \in Requests : s # b => req'[s] = req[s]
      BY <1>0, <1>2 DEF Inv, TypeOK, Request, RequestOK
    <2>2. SourceOK(b)'
      BY <1>0, <2>1 DEF SourceOK
    <2> QED
      BY <1>0, <2>1, <2>2, SourcesMove
  <1>3. ASSUME NEW c \in Conversations, NEW k \in Seqs, RollbackRead(b, c, k) PROVE Sources'
    <2>1. /\ req'[b] = [Idle EXCEPT !.pc = "target", !.conv = c, !.seq = project[c], !.kind = "rollback", !.base = k]
          /\ \A s \in Requests : s # b => req'[s] = req[s]
      BY <1>0, <1>3 DEF RollbackRead, Inv, TypeOK
    <2>2. req'[b].pc = "target" /\ req'[b].kind = "rollback" /\ req'[b].writes = NoFiles
      BY <2>1 DEF Idle
    <2>3. SourceOK(b)'
      BY <2>2 DEF SourceOK
    <2> QED
      BY <1>0, <2>1, <2>3, SourcesMove
  <1> QED
    BY <1>1, <1>2, <1>3 DEF RollbackTarget

LEMMA SourcesNext == ASSUME Inv, Sources, [Next]_vars PROVE Sources'
  <1>0. Grows /\ TypeOK'
    BY StepGrows, StepInv DEF Inv
  <1>1. CASE UNCHANGED vars
    BY <1>1 DEF vars, Sources, SourceOK
  <1>2. ASSUME NEW r \in Recorders, NEW c \in Conversations, NEW in \in Input, EnsureRead(r, c, in)
        PROVE  Sources'
    BY <1>0, <1>2, SourcesEnsure
  <1>3. ASSUME NEW r \in Recorders, EnsureCreate(r) \/ ReadLatest(r) PROVE Sources'
    <2>1. r \in Requests
      BY DEF Requests
    <2> QED
      BY <1>0, <1>3, <2>1, SourcesEnsure, SourcesRead
  <1>4. ASSUME NEW b \in Rollbackers, RollbackTarget(b) \/ \E c \in Conversations, k \in Seqs : RollbackRead(b, c, k)
        PROVE  Sources'
    BY <1>0, <1>4, SourcesRollback
  <1>5. ASSUME NEW r \in Requests, ReadFiles(r) PROVE Sources'
    BY <1>0, <1>5, SourcesRead
  <1>6. ASSUME NEW r \in Requests, SaveVersion(r) \/ Abort(r) PROVE Sources'
    BY <1>0, <1>6, SourcesEnd DEF SaveVersion, Abort
  <1> QED
    BY <1>1, <1>2, <1>3, <1>4, <1>5, <1>6 DEF Next

LEMMA SourcesHold == Spec => []Sources
  <1>1. Init => Sources
    BY DEF Init, Sources, SourceOK, Idle
  <1>2. Inv /\ Sources /\ [Next]_vars => Sources'
    BY SourcesNext
  <1> QED
    BY <1>1, <1>2, InvHolds, PTL DEF Spec

LEMMA SeqFcn ==
  ASSUME NEW S, NEW n \in Nat, NEW f \in [1..n -> S]
  PROVE  /\ f \in Seq(S) /\ Len(f) = n
         /\ (f = <<>> <=> n = 0)
         /\ \A v \in S : Append(f, v) = [j \in 1..(n + 1) |-> IF j = n + 1 THEN v ELSE f[j]]
  <1>1. f \in Seq(S) /\ Len(f) = n
    OBVIOUS
  <1>2. (f = <<>> <=> n = 0)
    BY <1>1
  <1>3. ASSUME NEW v \in S PROVE Append(f, v) = [j \in 1..(n + 1) |-> IF j = n + 1 THEN v ELSE f[j]]
    <2> DEFINE g == [j \in 1..(n + 1) |-> IF j = n + 1 THEN v ELSE f[j]]
    <2>1. g \in [1..(n + 1) -> S] /\ n + 1 \in Nat
      OBVIOUS
    <2>2. g \in Seq(S) /\ Len(g) = n + 1 /\ \A j \in 1..(n + 1) : g[j] = IF j = n + 1 THEN v ELSE f[j]
      BY <2>1
    <2> DEFINE h == Append(f, v)
    <2>3. h \in Seq(S) /\ Len(h) = n + 1 /\ \A j \in 1..(n + 1) : h[j] = IF j = n + 1 THEN v ELSE f[j]
      BY <1>1
    <2> HIDE DEF g, h
    <2>4. h = g
      BY <2>2, <2>3
    <2> QED
      BY <2>4 DEF g, h
  <1> QED
    BY <1>1, <1>2, <1>3

\* The log of a project is the sequence of its rows.
LEMMA LogIs ==
  ASSUME Inv, NEW c \in Conversations
  PROVE  \E n \in Nat : /\ n = (IF project[c] = None THEN 0 ELSE project[c])
                        /\ Rows(c) = 1..n /\ logOf[c] = [k \in 1..n |-> versions[c][k]]
                        /\ logOf[c] \in [1..n -> Version]
  <1>1. /\ project[c] \in 0..MaxSeq \cup {None} /\ Rows(c) = IF project[c] = None THEN {} ELSE 1..project[c]
        /\ versions[c] \in [Seqs -> Version]
    BY DEF Inv, TypeOK, SeqContiguous
  <1>2. PICK n \in Nat : n = (IF project[c] = None THEN 0 ELSE project[c])
    BY <1>1 DEF None
  <1>3. Rows(c) = 1..n
    BY <1>1, <1>2
  <1>4. \A k \in 1..n : k \in Seqs
    BY <1>3 DEF Rows
  <1>5. logOf[c] = [k \in 1..n |-> versions[c][k]]
    BY <1>3 DEF logOf
  <1>6. logOf[c] \in [1..n -> Version]
    BY <1>1, <1>4, <1>5
  <1> QED
    BY <1>2, <1>3, <1>5, <1>6

LEMMA LogInit == ASSUME Init PROVE Log!Init
  <1>1. Inv
    BY InitInv
  <1>2. ASSUME NEW c \in Conversations PROVE logOf[c] = <<>>
    <2>1. PICK n \in Nat : /\ n = (IF project[c] = None THEN 0 ELSE project[c])
                           /\ logOf[c] \in [1..n -> Version]
      BY <1>1, LogIs
    <2>2. n = 0
      BY <2>1 DEF Init
    <2> QED
      BY <2>1, <2>2, SeqFcn
  <1>3. logOf = [c \in Conversations |-> logOf[c]]
    BY DEF logOf
  <1> QED
    BY <1>2, <1>3 DEF Log!Init

\* What is stored goes behind the log, and it is what VersionLog allows there.
LEMMA LogSave ==
  ASSUME Inv, Inv', Sources, NEW r \in Requests, SaveVersion(r), req[r].seq + 1 \notin Rows(req[r].conv)
  PROVE  Log!Next
  <1> DEFINE q == req[r]
  <1>0. PICK c : c = q.conv
    OBVIOUS
  <1>1. /\ q \in Request /\ q.pc = "save" /\ c \in Conversations /\ project[c] # None
        /\ q.kind \in {"snapshot", "ops", "rollback"} /\ RequestOK(r) /\ SourceOK(r)
        /\ q.seq \in Nat /\ q.seq <= project[c]
    BY <1>0 DEF Inv, TypeOK, RequestOK, SaveVersion, Sources, Request
  <1>2. PICK n \in Nat : /\ n = project[c] /\ Rows(c) = 1..n /\ logOf[c] = [k \in 1..n |-> versions[c][k]]
                         /\ logOf[c] \in [1..n -> Version]
    BY <1>1, LogIs
  <1>3. q.seq = n /\ q.seq + 1 = n + 1 /\ n + 1 \in Seqs
    <2>1. q.seq + 1 \notin 1..n
      BY <1>0, <1>2
    <2>2. q.seq \in 0..(MaxSeq - 1)
      BY <1>1 DEF Request
    <2> QED
      BY <1>1, <1>2, <2>1, <2>2, DistinctRequests DEF Seqs
  <1>4. PICK v \in Version : /\ v = NewVersion(r) /\ v.files = q.files /\ v.origin = q.kind
                             /\ v.writes = q.writes /\ v.target = q.base
    BY <1>1, NewVersionTyped
  <1>5. versions' = [versions EXCEPT ![c][n + 1] = v] /\ project' = [project EXCEPT ![c] = n + 1]
    BY <1>0, <1>3, <1>4 DEF SaveVersion
  <1>6. logOf'[c] = Append(logOf[c], v)
    <2>1. project'[c] = n + 1
      BY <1>1, <1>5 DEF Inv, TypeOK
    <2>2. n + 1 # None /\ (Rows(c))' = 1..(n + 1)
      BY <1>1, <2>1 DEF Inv, TypeOK, SeqContiguous, None
    <2>6. logOf'[c] = [k \in 1..(n + 1) |-> versions'[c][k]]
      BY <1>1, <2>2 DEF logOf
    <2>3. \A k \in 1..(n + 1) : versions'[c][k] = IF k = n + 1 THEN v ELSE versions[c][k]
      BY <1>1, <1>3, <1>5, DistinctRequests DEF Inv, TypeOK, Seqs
    <2>4. \A k \in 1..(n + 1) : k # n + 1 => logOf[c][k] = versions[c][k]
      BY <1>2
    <2>5. Append(logOf[c], v) = [j \in 1..(n + 1) |-> IF j = n + 1 THEN v ELSE logOf[c][j]]
      BY <1>2, SeqFcn
    <2> QED
      BY <2>3, <2>4, <2>5, <2>6
  <1>7. ASSUME NEW d \in Conversations, d # c PROVE logOf'[d] = logOf[d]
    <2>1. versions'[d] = versions[d]
      BY <1>5, <1>7 DEF Inv, TypeOK
    <2> QED
      BY <2>1 DEF logOf, Rows
  <1>8. logOf' = [logOf EXCEPT ![c] = Append(@, v)]
    <2>1. logOf = [d \in Conversations |-> logOf[d]] /\ logOf' = [d \in Conversations |-> logOf'[d]]
      BY DEF logOf
    <2> QED
      BY <1>1, <1>6, <1>7, <2>1
  <1>9. v = [files |-> q.files, origin |-> q.kind, writes |-> q.writes, target |-> q.base] /\ q.files # NoFiles
    BY <1>1, <1>4 DEF NewVersion, SourceOK
  <1>10. logOf'[c] # logOf[c]
    <2>1. Len(logOf[c]) = n /\ Len(Append(logOf[c], v)) = n + 1
      BY <1>2, SeqFcn
    <2> QED
      BY <1>6, <2>1
  <1>11. logOf[c] \in Seq(Version) /\ Len(logOf[c]) = n /\ DOMAIN logOf[c] = 1..n
         /\ (logOf[c] = <<>> <=> n = 0)
    BY <1>2, SeqFcn
  <1>12. CASE q.kind = "snapshot"
    <2>1. q.writes \in Files /\ q.files = q.writes /\ q.base = 0
      BY <1>1, <1>12 DEF SourceOK, Request
    <2>2. Log!Snapshot(c, q.writes)
      BY <1>8, <1>9, <1>12, <2>1 DEF Log!Snapshot, Log!Store
    <2> QED
      BY <1>1, <1>10, <2>1, <2>2 DEF Log!Next
  <1>13. CASE q.kind = "ops"
    <2>1. q.writes \in Files /\ q.base = n
      BY <1>0, <1>1, <1>2, <1>3, <1>13 DEF SourceOK, Request
    <2>2. q.files = Overlay(q.writes, Predecessor(c, n + 1))
      BY <1>0, <1>1, <1>2, <1>3, <1>13 DEF RequestOK
    <2>3. Predecessor(c, n + 1) = Log!Latest(c)
      BY <1>2, <1>11 DEF Predecessor, Log!Latest
    <2>4. Log!Operate(c, q.writes)
      BY <1>8, <1>9, <1>11, <1>13, <2>1, <2>2, <2>3 DEF Log!Operate, Log!Store
    <2> QED
      BY <1>1, <1>10, <2>1, <2>4 DEF Log!Next
  <1>14. CASE q.kind = "rollback"
    <2>1. q.base \in 1..n /\ q.writes = NoFiles /\ q.files = logOf[c][q.base].files
      BY <1>0, <1>1, <1>2, <1>14 DEF RequestOK, SourceOK
    <2>2. Log!Rollback(c, q.base)
      BY <1>8, <1>9, <1>14, <2>1 DEF Log!Rollback, Log!Store
    <2> QED
      BY <1>1, <1>10, <1>11, <2>1, <2>2 DEF Log!Next
  <1> QED
    BY <1>1, <1>12, <1>13, <1>14

LEMMA LogStep == ASSUME Inv, Inv', Sources, [Next]_vars PROVE [Log!Next]_logOf
  <1>1. CASE UNCHANGED versions
    BY <1>1 DEF logOf, Rows
  <1>2. ASSUME NEW r \in Requests, SaveVersion(r), ~UNCHANGED versions PROVE Log!Next
    BY <1>2, LogSave DEF SaveVersion
  <1>3. UNCHANGED versions \/ \E r \in Requests : SaveVersion(r)
    BY DEF Next, vars, EnsureRead, EnsureCreate, ReadLatest, RollbackRead, RollbackTarget, ReadFiles, Abort
  <1> QED
    BY <1>1, <1>2, <1>3

\* Racing messages and rollbacks have the effect of requests served one after the other.
THEOREM RequestsAreSerial == Spec => ImplementsLog
  <1>1. Init => Log!Init
    BY LogInit
  <1>2. Inv /\ Inv' /\ Sources /\ [Next]_vars => [Log!Next]_logOf
    BY LogStep
  <1> QED
    BY <1>1, <1>2, InvHolds, SourcesHold, PTL DEF Spec, ImplementsLog, Log!Spec

=============================================================================
