-------------------------- MODULE ChatEditorProofs --------------------------
(***************************************************************************)
(* What holds of the chat of the editor for any number of turns, sessions  *)
(* and events.  First, whatever the message lists contain: isSending is    *)
(* given back, and a turn is stored once per request that was made for it  *)
(* (ChatInv).  Then, of the lists: they have their types, a question stays *)
(* over merges and restarts, and a stream writes at home (EditInv).        *)
(***************************************************************************)
EXTENDS ChatEditor, Functions, FiniteSetTheorems, TLAPS

(* Sequences of whatever.                                                  *)

IsSeq(s) == s \in Seq({s[i] : i \in DOMAIN s})

LEMMA AppendIs ==
  ASSUME NEW s, IsSeq(s), NEW e
  PROVE  LET r == Append(s, e) IN
         /\ IsSeq(r) /\ Len(s) \in Nat /\ Len(r) = Len(s) + 1
         /\ DOMAIN s = 1 .. Len(s) /\ DOMAIN r = 1 .. Len(s) + 1
         /\ \A i \in DOMAIN s : r[i] = s[i]
         /\ r[Len(s) + 1] = e
  <1> DEFINE S == {s[i] : i \in DOMAIN s} \cup {e}
             r == Append(s, e)
  <1>1. s \in Seq(S)
    BY DEF IsSeq
  <1>2. e \in S
    OBVIOUS
  <1> HIDE DEF S
  <1>3. /\ Len(s) \in Nat /\ Len(r) = Len(s) + 1 /\ r \in Seq(S)
        /\ DOMAIN s = 1 .. Len(s) /\ DOMAIN r = 1 .. Len(s) + 1
        /\ \A i \in DOMAIN s : r[i] = s[i]
        /\ r[Len(s) + 1] = e
    BY <1>1, <1>2
  <1> HIDE DEF r
  <1>4. IsSeq(r)
    BY <1>3 DEF IsSeq
  <1> QED
    BY <1>3, <1>4 DEF r

-----------------------------------------------------------------------------
(* The invariant.                                                          *)

Fields == {"pc", "chat", "session", "files", "lines", "try"}
TurnPc == {"idle", "files", "unread", "create", "set", "post", "stream", "over"}
HandlerPc == {"none", "posted", "refused", "stream", "save", "fail", "over"}

\* Records of turns have their fields; what they say of chats is left open.
Shape ==
  /\ sending \in BOOLEAN
  /\ DOMAIN turn = Turns
  /\ \A t \in Turns : /\ DOMAIN turn[t] = Fields
                      /\ turn[t].pc \in TurnPc /\ turn[t].files \in BOOLEAN /\ turn[t].try \in {1, 2}
  /\ server \in [Handlers -> HandlerPc]
  /\ IsSeq(table)

\* A turn overlaps another, or outlives isSending, only once a turn read files.
SomeFiles == \E v \in Turns : turn[v].files

InputInv ==
  /\ sending => \E t \in Turns : Live(t)
  /\ ~sending => \A t \in Turns : Live(t) => SomeFiles
  /\ \A t, u \in Turns : t # u /\ Live(t) /\ Live(u) => SomeFiles
  /\ \A t \in Turns : turn[t].pc = "files" => turn[t].files

\* A request is made once for each try.
CallInv ==
  \A t \in Turns :
    /\ turn[t].try = 1 => server[<<t, 2>>] = "none"
    /\ turn[t].pc \in {"idle", "files", "unread"} => turn[t].try = 1
    /\ turn[t].pc \in {"idle", "files", "unread", "create", "set"} => server[<<t, 1>>] = "none" /\ server[<<t, 2>>] = "none"
    /\ turn[t].pc = "post" => server[Now(t)] = "none"
    /\ turn[t].pc = "stream" => Now(t) \in gone \/ server[Now(t)] \in {"posted", "stream", "refused"}

\* The handlers that may have stored the question.
Stored(h) == IF server[h] \in {"refused", "stream", "save", "fail", "over"} THEN 1 ELSE 0

RowInv ==
  /\ \A i \in DOMAIN table : /\ table[i].turn \in Turns
                             /\ turn[table[i].turn].pc \in {"post", "stream", "over"}
                             /\ table[i].session = turn[table[i].turn].session
                             /\ \E k \in DOMAIN table : table[k].turn = table[i].turn /\ table[k].role = "user" /\ k <= i
  /\ \A t \in Turns : Cardinality(Questions(t)) <= Stored(<<t, 1>>) + Stored(<<t, 2>>)
  /\ \A h \in Handlers : server[h] \in {"stream", "save", "fail"} => Questions(h[1]) # {}

ChatInv == Shape /\ InputInv /\ CallInv /\ RowInv

LEMMA HandlersAre ==
  /\ \A t \in Turns : <<t, 1>> \in Handlers /\ <<t, 2>> \in Handlers
  /\ \A h \in Handlers : h[1] \in Turns /\ h[2] \in {1, 2} /\ h = <<h[1], h[2]>>
  BY DEF Handlers

LEMMA NowIs == ASSUME Shape, NEW t \in Turns PROVE Now(t) \in Handlers /\ Now(t)[1] = t
  BY HandlersAre DEF Now, Shape

LEMMA RowsFinite ==
  ASSUME Shape
  PROVE  \A t \in Turns : IsFiniteSet(Questions(t)) /\ Cardinality(Questions(t)) \in Nat
  <1>1. Len(table) \in Nat /\ DOMAIN table = 1 .. Len(table)
    BY AppendIs DEF Shape
  <1>2. IsFiniteSet(1 .. Len(table))
    BY <1>1, FS_Interval
  <1>3. \A t \in Turns : Questions(t) \in SUBSET (1 .. Len(table))
    BY <1>1 DEF Questions
  <1> QED
    BY <1>2, <1>3, FS_Subset, FS_CardinalityType

LEMMA ChatInvInit == Init => ChatInv
  <1> SUFFICES ASSUME Init PROVE ChatInv
    OBVIOUS
  <1>1. \A t \in Turns : turn[t] = NoTurn
    BY DEF Init
  <1>0. table = <<>> /\ DOMAIN table = {} /\ IsSeq(table)
    BY DEF Init, IsSeq
  <1>2. Shape
    BY <1>0, <1>1, HandlersAre DEF Init, Shape, NoTurn, Fields, TurnPc, HandlerPc
  <1>3. InputInv
    BY <1>1 DEF Init, InputInv, Live, NoTurn
  <1>4. CallInv
    BY <1>1, HandlersAre DEF Init, CallInv, NoTurn
  <1>5. \A t \in Turns : Questions(t) = {}
    BY <1>0 DEF Questions
  <1>6. RowInv
    <2>1. \A t \in Turns : Cardinality(Questions(t)) = 0 /\ Stored(<<t, 1>>) = 0 /\ Stored(<<t, 2>>) = 0
      BY <1>5, FS_EmptySet, HandlersAre DEF Init, Stored
    <2>2. \A h \in Handlers : server[h] = "none"
      BY DEF Init
    <2> QED
      BY <1>0, <2>1, <2>2 DEF RowInv
  <1> QED
    BY <1>2, <1>3, <1>4, <1>6 DEF ChatInv

-----------------------------------------------------------------------------
(* A step of a turn, seen from its record.                                 *)

Becomes(t, p, n) ==
  /\ DOMAIN turn' = Turns /\ DOMAIN turn'[t] = Fields
  /\ \A u \in Turns : u # t => turn'[u] = turn[u]
  /\ turn'[t].pc = p /\ turn'[t].try = n
  /\ turn'[t].files \in BOOLEAN /\ (turn[t].files => turn'[t].files)

LivePc == {"create", "set", "post", "stream"}

LEMMA ShapeStep ==
  ASSUME Shape, NEW t \in Turns, NEW p \in TurnPc, NEW n \in {1, 2}, Becomes(t, p, n),
         sending' \in BOOLEAN, server' \in [Handlers -> HandlerPc], table' = table
  PROVE  Shape'
  BY DEF Shape, Becomes

LEMMA InputStep ==
  ASSUME Shape, InputInv, NEW t \in Turns, NEW p \in TurnPc, NEW n \in {1, 2}, Becomes(t, p, n),
         \/ p \in LivePc /\ sending' = TRUE /\ turn[t].pc \in {"idle", "files"} /\ (~sending \/ turn[t].files)
         \/ p \in LivePc /\ turn[t].pc \in LivePc /\ sending' = sending
         \/ p = "over" /\ turn[t].pc \in LivePc /\ sending' = FALSE
         \/ p = "unread" /\ turn[t].pc = "files" /\ sending' = sending
         \/ p = "files" /\ turn[t].pc = "idle" /\ turn'[t].files /\ sending' = sending
  PROVE  InputInv'
  <1>1. \A u \in Turns : u # t => turn'[u].pc = turn[u].pc /\ turn'[u].files = turn[u].files
    BY DEF Becomes
  <1>2. turn'[t].pc = p /\ (turn[t].files => turn'[t].files)
    BY DEF Becomes
  <1>3. SomeFiles => SomeFiles'
    BY <1>1, <1>2 DEF SomeFiles
  <1>4. (sending => \E u \in Turns : Live(u))'
    BY <1>1, <1>2 DEF InputInv, Live, LivePc
  <1>5. (\A u \in Turns : turn[u].pc = "files" => turn[u].files)'
    BY <1>1, <1>2 DEF InputInv, LivePc
  <1>6. (\A u, v \in Turns : u # v /\ Live(u) /\ Live(v) => SomeFiles)'
    <2> SUFFICES ASSUME NEW u \in Turns, NEW v \in Turns, u # v, Live(u)', Live(v)' PROVE SomeFiles'
      OBVIOUS
    <2>1. \A x \in Turns : Live(x)' => x = t \/ Live(x)
      BY <1>1 DEF Live
    <2>2. turn[t].files => SomeFiles
      BY DEF SomeFiles
    <2> QED
      BY <1>2, <1>3, <2>1, <2>2 DEF InputInv, Live, LivePc
  <1>7. (~sending => \A u \in Turns : Live(u) => SomeFiles)'
    <2> SUFFICES ASSUME ~sending', NEW u \in Turns, Live(u)' PROVE SomeFiles'
      OBVIOUS
    <2>1. \A x \in Turns : Live(x)' => x = t \/ Live(x)
      BY <1>1 DEF Live
    <2> QED
      BY <1>2, <1>3, <2>1 DEF InputInv, Live, LivePc
  <1> QED
    BY <1>4, <1>5, <1>6, <1>7 DEF InputInv

\* What a step of turn t does to the handlers.
LEMMA CallStep ==
  ASSUME Shape, CallInv, NEW t \in Turns, NEW p \in TurnPc, NEW n \in {1, 2}, Becomes(t, p, n),
         gone \subseteq gone',
         \A h \in Handlers : h # Now(t) => server'[h] = server[h],
         \/ /\ p \in {"files", "unread"} /\ n = turn[t].try
            /\ turn[t].pc \in {"idle", "files"} /\ server' = server
         \/ /\ p \in {"create", "set", "post"} /\ n = turn[t].try
            /\ turn[t].pc \in {"idle", "files", "create"} /\ server' = server
         \/ p = "create" /\ turn[t].pc = "create" /\ n = 2 /\ server' = server
         \/ /\ p = "stream" /\ n = turn[t].try
            /\ turn[t].pc \in {"set", "post"} /\ server'[Now(t)] = "posted"
         \/ p = "stream" /\ n = turn[t].try /\ turn[t].pc = "stream" /\ server' = server
         \/ p = "over" /\ n = turn[t].try
         \/ p = "post" /\ turn[t].pc = "stream" /\ turn[t].try = 1 /\ n = 2 /\ server' = server
  PROVE  CallInv'
  <1>1. ASSUME NEW u \in Turns, u # t
        PROVE  /\ turn'[u] = turn[u] /\ Now(u)' = Now(u)
               /\ server'[<<u, 1>>] = server[<<u, 1>>] /\ server'[<<u, 2>>] = server[<<u, 2>>]
               /\ server'[Now(u)] = server[Now(u)]
    BY <1>1, HandlersAre, NowIs DEF Becomes, Now
  <1>2. turn'[t].pc = p /\ turn'[t].try = n /\ Now(t)' = <<t, n>> /\ Now(t) = <<t, turn[t].try>>
    BY DEF Becomes, Now
  <1>3. turn[t].try \in {1, 2} /\ turn[t].pc \in TurnPc
    BY DEF Shape
  <1>4. turn[t].try = 1 => server'[<<t, 2>>] = server[<<t, 2>>]
    BY <1>2, HandlersAre
  <1>5. ASSUME NEW u \in Turns, u # t
        PROVE  /\ turn'[u].try = 1 => server'[<<u, 2>>] = "none"
               /\ turn'[u].pc \in {"idle", "files", "unread"} => turn'[u].try = 1
               /\ turn'[u].pc \in {"idle", "files", "unread", "create", "set"} =>
                    server'[<<u, 1>>] = "none" /\ server'[<<u, 2>>] = "none"
               /\ turn'[u].pc = "post" => server'[Now(u)'] = "none"
               /\ turn'[u].pc = "stream" => Now(u)' \in gone' \/ server'[Now(u)'] \in {"posted", "stream", "refused"}
    BY <1>1, <1>5 DEF CallInv
  <1>6. /\ turn'[t].try = 1 => server'[<<t, 2>>] = "none"
        /\ turn'[t].pc \in {"idle", "files", "unread"} => turn'[t].try = 1
        /\ turn'[t].pc \in {"idle", "files", "unread", "create", "set"} =>
             server'[<<t, 1>>] = "none" /\ server'[<<t, 2>>] = "none"
        /\ turn'[t].pc = "post" => server'[Now(t)'] = "none"
        /\ turn'[t].pc = "stream" => Now(t)' \in gone' \/ server'[Now(t)'] \in {"posted", "stream", "refused"}
    BY <1>2, <1>3, <1>4 DEF CallInv
  <1>7. \A u \in Turns :
          /\ turn'[u].try = 1 => server'[<<u, 2>>] = "none"
          /\ turn'[u].pc \in {"idle", "files", "unread"} => turn'[u].try = 1
          /\ turn'[u].pc \in {"idle", "files", "unread", "create", "set"} =>
               server'[<<u, 1>>] = "none" /\ server'[<<u, 2>>] = "none"
          /\ turn'[u].pc = "post" => server'[Now(u)'] = "none"
          /\ turn'[u].pc = "stream" => Now(u)' \in gone' \/ server'[Now(u)'] \in {"posted", "stream", "refused"}
    BY <1>5, <1>6
  <1> QED
    BY <1>7 DEF CallInv

\* Handlers move on, the table stays; a turn that has rows keeps its session.
LEMMA RowStep ==
  ASSUME Shape, RowInv, table' = table, DOMAIN turn' = Turns,
         \A u \in Turns : turn[u].pc \in {"post", "stream", "over"} =>
            turn'[u].pc \in {"post", "stream", "over"} /\ turn'[u].session = turn[u].session,
         \A h \in Handlers : \/ server'[h] = server[h]
                             \/ server[h] = "none" /\ server'[h] = "posted"
                             \/ server[h] = "posted" /\ server'[h] \in {"over", "refused"}
                             \/ server[h] = "stream" /\ server'[h] \in {"save", "fail"}
                             \/ server[h] \in {"stream", "save", "fail"} /\ server'[h] = "over"
  PROVE  RowInv'
  <1>1. \A t \in Turns : Questions(t)' = Questions(t)
    BY DEF Questions
  <1>2. \A h \in Handlers : Stored(h) \in {0, 1} /\ Stored(h)' \in {0, 1} /\ Stored(h) <= Stored(h)'
    BY DEF Stored
  <1>3. \A t \in Turns : Cardinality(Questions(t)) \in Nat
    BY RowsFinite
  <1>4. \A t \in Turns : Cardinality(Questions(t)') <= Stored(<<t, 1>>)' + Stored(<<t, 2>>)'
    <2> SUFFICES ASSUME NEW t \in Turns
                 PROVE  Cardinality(Questions(t)') <= Stored(<<t, 1>>)' + Stored(<<t, 2>>)'
      OBVIOUS
    <2>1. PICK c \in Nat : c = Cardinality(Questions(t)) /\ c = Cardinality(Questions(t)')
      BY <1>1, <1>3
    <2>2. PICK a \in {0, 1}, b \in {0, 1} : a = Stored(<<t, 1>>) /\ b = Stored(<<t, 2>>)
      BY <1>2, HandlersAre
    <2>3. PICK d \in {0, 1}, e \in {0, 1} : d = Stored(<<t, 1>>)' /\ e = Stored(<<t, 2>>)'
      BY <1>2, HandlersAre
    <2>4. c <= a + b
      BY <2>1, <2>2 DEF RowInv
    <2>5. a <= d /\ b <= e
      BY <1>2, <2>2, <2>3, HandlersAre
    <2>6. c <= d + e
      BY <2>4, <2>5
    <2> QED
      BY <2>1, <2>3, <2>6
  <1>5. \A h \in Handlers : server'[h] \in {"stream", "save", "fail"} => Questions(h[1])' # {}
    BY <1>1, HandlersAre DEF RowInv
  <1>6. \A i \in DOMAIN table :
          /\ table[i].turn \in Turns
          /\ turn'[table[i].turn].pc \in {"post", "stream", "over"}
          /\ table[i].session = turn'[table[i].turn].session
          /\ \E k \in DOMAIN table : table[k].turn = table[i].turn /\ table[k].role = "user" /\ k <= i
    BY DEF RowInv
  <1> QED
    BY <1>4, <1>5, <1>6 DEF RowInv, Stored

-----------------------------------------------------------------------------
(* The steps of sendMessage.                                               *)

\* What is common to them: the table stays, sessions change before any row is there.
LEMMA TurnMoves ==
  ASSUME ChatInv, NEW t \in Turns, NEW p \in TurnPc, Becomes(t, p, turn[t].try), table' = table,
         \/ turn[t].pc \in {"idle", "files", "create", "set"}
         \/ p \in {"post", "stream", "over"} /\ turn'[t].session = turn[t].session,
         \/ /\ p \in LivePc /\ sending' = TRUE /\ turn[t].pc \in {"idle", "files"}
            /\ ~sending \/ turn[t].files
         \/ p \in LivePc /\ turn[t].pc \in LivePc /\ sending' = sending
         \/ p = "over" /\ turn[t].pc \in LivePc /\ sending' = FALSE
         \/ p = "unread" /\ turn[t].pc = "files" /\ sending' = sending
         \/ p = "files" /\ turn[t].pc = "idle" /\ turn'[t].files /\ sending' = sending,
         gone \subseteq gone',
         \/ /\ server' = server
            /\ \/ p \in {"files", "unread", "create", "set", "post"} /\ turn[t].pc \in {"idle", "files", "create"}
               \/ p = "stream" /\ turn[t].pc = "stream"
               \/ p = "over"
         \/ /\ p = "stream" /\ turn[t].pc \in {"set", "post"}
            /\ server' = [server EXCEPT ![Now(t)] = "posted"]
         \/ /\ p = "over" /\ turn[t].pc = "stream" /\ server[Now(t)] = "stream"
            /\ \E x \in {"save", "fail"} : server' = [server EXCEPT ![Now(t)] = x]
  PROVE  ChatInv'
  <1>0. Shape /\ InputInv /\ CallInv /\ RowInv
    BY DEF ChatInv
  <1>1. turn[t].try \in {1, 2} /\ server \in [Handlers -> HandlerPc] /\ Now(t) \in Handlers
    BY <1>0, NowIs DEF Shape
  <1>2. \A h \in Handlers : h # Now(t) => server'[h] = server[h]
    BY <1>1
  <1>3. server' \in [Handlers -> HandlerPc] /\ sending' \in BOOLEAN
    BY <1>0, <1>1 DEF HandlerPc, Shape
  <1>4. Shape'
    BY <1>0, <1>1, <1>3, ShapeStep
  <1>5. InputInv'
    BY <1>0, <1>1, InputStep
  <1>6. CallInv'
    <2>1. CASE /\ server' = server
               /\ \/ p \in {"files", "unread", "create", "set", "post"} /\ turn[t].pc \in {"idle", "files", "create"}
                  \/ p = "stream" /\ turn[t].pc = "stream"
      <3>1. CASE p \in {"files", "unread", "create", "set", "post"} /\ turn[t].pc \in {"idle", "files", "create"}
        <4>1. turn[t].pc \in {"idle", "files"} => turn[t].try = 1
          BY <1>0 DEF CallInv
        <4>2. server[<<t, 1>>] = "none" /\ server[<<t, 2>>] = "none"
          BY <1>0, <3>1 DEF CallInv
        <4> QED
          BY <1>0, <1>1, <1>2, <2>1, <3>1, <4>1, <4>2, CallStep DEF LivePc
      <3>2. CASE p = "stream" /\ turn[t].pc = "stream"
        BY <1>0, <1>1, <1>2, <2>1, <3>2, CallStep
      <3> QED
        BY <2>1, <3>1, <3>2
    <2>2. CASE p = "stream" /\ turn[t].pc \in {"set", "post"} /\ server' = [server EXCEPT ![Now(t)] = "posted"]
      <3>1. server'[Now(t)] = "posted"
        BY <1>1, <2>2
      <3> QED
        BY <1>0, <1>1, <1>2, <2>2, <3>1, CallStep
    <2>3. CASE p = "over"
      BY <1>0, <1>1, <1>2, <2>3, CallStep
    <2> QED
      BY <2>1, <2>2, <2>3
  <1>7. RowInv'
    <2>1. server'[Now(t)] = server[Now(t)] \/ (server[Now(t)] = "none" /\ server'[Now(t)] = "posted")
          \/ (server[Now(t)] = "stream" /\ server'[Now(t)] \in {"save", "fail"})
      <3>1. turn[t].pc \in {"set", "post"} => server[Now(t)] = "none"
        BY <1>0, <1>1 DEF CallInv, Now
      <3> QED
        BY <1>1, <3>1
    <2>2. \A h \in Handlers : \/ server'[h] = server[h]
                              \/ server[h] = "none" /\ server'[h] = "posted"
                              \/ server[h] = "stream" /\ server'[h] \in {"save", "fail"}
      BY <1>2, <2>1
    <2>3. \A u \in Turns : turn[u].pc \in {"post", "stream", "over"} =>
            turn'[u].pc \in {"post", "stream", "over"} /\ turn'[u].session = turn[u].session
      BY DEF Becomes
    <2>4. DOMAIN turn' = Turns
      BY DEF Becomes
    <2> QED
      BY <1>0, <2>2, <2>3, <2>4, RowStep
  <1> QED
    BY <1>4, <1>5, <1>6, <1>7 DEF ChatInv

\* Records of turns, field by field.
LEMMA FieldsAre ==
  ASSUME NEW x, DOMAIN x = Fields, NEW v
  PROVE  /\ LET y == [x EXCEPT !.pc = v] IN
              DOMAIN y = Fields /\ y.pc = v /\ y.try = x.try /\ y.files = x.files /\ y.session = x.session
         /\ LET y == [x EXCEPT !.try = v] IN
              DOMAIN y = Fields /\ y.pc = x.pc /\ y.try = v /\ y.files = x.files /\ y.session = x.session
         /\ LET y == [x EXCEPT !.files = v] IN
              DOMAIN y = Fields /\ y.pc = x.pc /\ y.try = x.try /\ y.files = v /\ y.session = x.session
         /\ LET y == [x EXCEPT !.session = v] IN
              DOMAIN y = Fields /\ y.pc = x.pc /\ y.try = x.try /\ y.files = x.files /\ y.session = v
         /\ LET y == [x EXCEPT !.chat = v] IN
              DOMAIN y = Fields /\ y.pc = x.pc /\ y.try = x.try /\ y.files = x.files /\ y.session = x.session
         /\ LET y == [x EXCEPT !.lines = v] IN
              DOMAIN y = Fields /\ y.pc = x.pc /\ y.try = x.try /\ y.files = x.files /\ y.session = x.session
  BY DEF Fields

\* The shapes in which the steps write the record of a turn.
LEMMA SetPc ==
  ASSUME Shape, NEW t \in Turns, NEW p, turn' = [turn EXCEPT ![t].pc = p]
  PROVE  Becomes(t, p, turn[t].try) /\ turn'[t].session = turn[t].session /\ turn'[t].files = turn[t].files
  <1>1. DOMAIN turn[t] = Fields /\ DOMAIN turn = Turns /\ turn[t].files \in BOOLEAN
    BY DEF Shape
  <1>2. DOMAIN turn' = Turns /\ turn'[t] = [turn[t] EXCEPT !.pc = p] /\ \A u \in Turns : u # t => turn'[u] = turn[u]
    BY <1>1
  <1>3. LET y == [turn[t] EXCEPT !.pc = p] IN
          DOMAIN y = Fields /\ y.pc = p /\ y.try = turn[t].try /\ y.files = turn[t].files /\ y.session = turn[t].session
    BY <1>1, FieldsAre
  <1> QED
    BY <1>1, <1>2, <1>3 DEF Becomes

LEMMA SetPcAnd ==
  ASSUME Shape, NEW t \in Turns, NEW p, NEW v
  PROVE  /\ turn' = [turn EXCEPT ![t].pc = p, ![t].session = v] => Becomes(t, p, turn[t].try)
         /\ turn' = [turn EXCEPT ![t].pc = p, ![t].lines = v] =>
              Becomes(t, p, turn[t].try) /\ turn'[t].session = turn[t].session
         /\ turn' = [turn EXCEPT ![t].pc = p, ![t].try = v] =>
              Becomes(t, p, v) /\ turn'[t].session = turn[t].session
         /\ turn' = [turn EXCEPT ![t].lines = v] =>
              Becomes(t, turn[t].pc, turn[t].try) /\ turn'[t].session = turn[t].session
         /\ turn' = [turn EXCEPT ![t] = [@ EXCEPT !.pc = p, !.files = TRUE, !.chat = v]] =>
              Becomes(t, p, turn[t].try) /\ turn'[t].files
         /\ \A w : turn' = [turn EXCEPT ![t] = [@ EXCEPT !.pc = p, !.chat = v, !.session = w]] =>
              Becomes(t, p, turn[t].try)
  <1> DEFINE x == turn[t]
             y == [x EXCEPT !.pc = p]
  <1>1. DOMAIN x = Fields /\ DOMAIN turn = Turns /\ x.files \in BOOLEAN
    BY DEF Shape
  <1>2. DOMAIN y = Fields /\ y.pc = p /\ y.try = x.try /\ y.files = x.files /\ y.session = x.session
    BY <1>1, FieldsAre
  <1>3. ASSUME turn' = [turn EXCEPT ![t].pc = p, ![t].session = v]
        PROVE  Becomes(t, p, turn[t].try)
    <2>1. DOMAIN turn' = Turns /\ turn'[t] = [y EXCEPT !.session = v] /\ \A u \in Turns : u # t => turn'[u] = turn[u]
      BY <1>1, <1>3
    <2> HIDE DEF y
    <2>2. LET z == [y EXCEPT !.session = v] IN DOMAIN z = Fields /\ z.pc = p /\ z.try = x.try /\ z.files = x.files
      BY <1>2, FieldsAre
    <2> QED
      BY <1>1, <2>1, <2>2 DEF Becomes
  <1>4. ASSUME turn' = [turn EXCEPT ![t].pc = p, ![t].lines = v]
        PROVE  Becomes(t, p, turn[t].try) /\ turn'[t].session = turn[t].session
    <2>1. DOMAIN turn' = Turns /\ turn'[t] = [y EXCEPT !.lines = v] /\ \A u \in Turns : u # t => turn'[u] = turn[u]
      BY <1>1, <1>4
    <2> HIDE DEF y
    <2>2. LET z == [y EXCEPT !.lines = v] IN
            DOMAIN z = Fields /\ z.pc = p /\ z.try = x.try /\ z.files = x.files /\ z.session = x.session
      BY <1>2, FieldsAre
    <2> QED
      BY <1>1, <2>1, <2>2 DEF Becomes
  <1>5. ASSUME turn' = [turn EXCEPT ![t].pc = p, ![t].try = v]
        PROVE  Becomes(t, p, v) /\ turn'[t].session = turn[t].session
    <2>1. DOMAIN turn' = Turns /\ turn'[t] = [y EXCEPT !.try = v] /\ \A u \in Turns : u # t => turn'[u] = turn[u]
      BY <1>1, <1>5
    <2> HIDE DEF y
    <2>2. LET z == [y EXCEPT !.try = v] IN
            DOMAIN z = Fields /\ z.pc = p /\ z.try = v /\ z.files = x.files /\ z.session = x.session
      BY <1>2, FieldsAre
    <2> QED
      BY <1>1, <2>1, <2>2 DEF Becomes
  <1>6. ASSUME turn' = [turn EXCEPT ![t].lines = v]
        PROVE  Becomes(t, turn[t].pc, turn[t].try) /\ turn'[t].session = turn[t].session
    <2>1. DOMAIN turn' = Turns /\ turn'[t] = [x EXCEPT !.lines = v] /\ \A u \in Turns : u # t => turn'[u] = turn[u]
      BY <1>1, <1>6
    <2>2. LET z == [x EXCEPT !.lines = v] IN
            DOMAIN z = Fields /\ z.pc = x.pc /\ z.try = x.try /\ z.files = x.files /\ z.session = x.session
      BY <1>1, FieldsAre
    <2> QED
      BY <1>1, <2>1, <2>2 DEF Becomes
  <1>7. ASSUME turn' = [turn EXCEPT ![t] = [@ EXCEPT !.pc = p, !.files = TRUE, !.chat = v]]
        PROVE  Becomes(t, p, turn[t].try) /\ turn'[t].files
    <2> DEFINE z == [y EXCEPT !.files = TRUE]
    <2>1. DOMAIN turn' = Turns /\ turn'[t] = [z EXCEPT !.chat = v] /\ \A u \in Turns : u # t => turn'[u] = turn[u]
      BY <1>1, <1>7
    <2> HIDE DEF y
    <2>2. DOMAIN z = Fields /\ z.pc = p /\ z.try = x.try /\ z.files = TRUE
      BY <1>2, FieldsAre
    <2> HIDE DEF z
    <2>3. LET r == [z EXCEPT !.chat = v] IN DOMAIN r = Fields /\ r.pc = p /\ r.try = x.try /\ r.files = TRUE
      BY <2>2, FieldsAre
    <2> QED
      BY <1>1, <2>1, <2>3 DEF Becomes
  <1>8. ASSUME NEW w, turn' = [turn EXCEPT ![t] = [@ EXCEPT !.pc = p, !.chat = v, !.session = w]]
        PROVE  Becomes(t, p, turn[t].try)
    <2> DEFINE z == [y EXCEPT !.chat = v]
    <2>1. DOMAIN turn' = Turns /\ turn'[t] = [z EXCEPT !.session = w] /\ \A u \in Turns : u # t => turn'[u] = turn[u]
      BY <1>1, <1>8
    <2> HIDE DEF y
    <2>2. DOMAIN z = Fields /\ z.pc = p /\ z.try = x.try /\ z.files = x.files
      BY <1>2, FieldsAre
    <2> HIDE DEF z
    <2>3. LET r == [z EXCEPT !.session = w] IN DOMAIN r = Fields /\ r.pc = p /\ r.try = x.try /\ r.files = x.files
      BY <2>2, FieldsAre
    <2> QED
      BY <1>1, <2>1, <2>3 DEF Becomes
  <1> QED
    BY <1>3, <1>4, <1>5, <1>6, <1>7, <1>8

LEMMA AskKeeps ==
  ASSUME ChatInv, NEW t \in Turns, NEW c, Ask(t, c), turn[t].pc \in {"idle", "files"}, ~sending \/ turn[t].files
  PROVE  ChatInv'
  <1>0. Shape
    BY DEF ChatInv
  <1>1. PICK p \in {"create", "post"} : \E s :
          turn' = [turn EXCEPT ![t] = [@ EXCEPT !.pc = p, !.chat = shown, !.session = s]]
    BY DEF Ask
  <1>2. Becomes(t, p, turn[t].try)
    <2>1. PICK s : turn' = [turn EXCEPT ![t] = [@ EXCEPT !.pc = p, !.chat = shown, !.session = s]]
      BY <1>1
    <2> QED
      BY <1>0, <2>1, SetPcAnd
  <1>3. sending' = TRUE /\ gone \subseteq gone' /\ table' = table /\ server' = server
    BY DEF Ask, serverVars
  <1> QED
    BY <1>2, <1>3, TurnMoves DEF TurnPc, LivePc

LEMMA FilesKeep ==
  ASSUME ChatInv, NEW t \in Turns, PickFiles(t) \/ FilesFail(t)
  PROVE  ChatInv'
  <1>0. Shape
    BY DEF ChatInv
  <1>1. gone' = gone /\ table' = table /\ server' = server /\ sending' = sending
    BY DEF PickFiles, FilesFail, serverVars
  <1>2. CASE PickFiles(t)
    <2>1. turn[t].pc = "idle" /\ turn' = [turn EXCEPT ![t] = [@ EXCEPT !.pc = "files", !.files = TRUE, !.chat = shown]]
      BY <1>2 DEF PickFiles
    <2>2. Becomes(t, "files", turn[t].try) /\ turn'[t].files
      BY <1>0, <2>1, SetPcAnd
    <2> QED
      BY <1>1, <2>1, <2>2, TurnMoves DEF TurnPc
  <1>3. CASE FilesFail(t)
    <2>1. turn[t].pc = "files" /\ turn' = [turn EXCEPT ![t].pc = "unread"]
      BY <1>3 DEF FilesFail
    <2>2. Becomes(t, "unread", turn[t].try)
      BY <1>0, <2>1, SetPc
    <2> QED
      BY <1>1, <2>1, <2>2, TurnMoves DEF TurnPc
  <1> QED
    BY <1>2, <1>3

\* The end of sendMessage gives the input back.
LEMMA FinishKeeps ==
  ASSUME ChatInv, NEW t \in Turns, turn[t].pc \in LivePc, sending' = FALSE,
         turn' = [turn EXCEPT ![t].pc = "over"], gone \subseteq gone', table' = table,
         \/ server' = server
         \/ /\ turn[t].pc = "stream" /\ server[Now(t)] = "stream"
            /\ \E x \in {"save", "fail"} : server' = [server EXCEPT ![Now(t)] = x]
  PROVE  ChatInv'
  <1>1. Becomes(t, "over", turn[t].try) /\ turn'[t].session = turn[t].session
    BY SetPc DEF ChatInv
  <1> QED
    BY <1>1, TurnMoves DEF TurnPc

\* The second try is a handler of its own.
LEMMA AgainKeeps ==
  ASSUME ChatInv, NEW t \in Turns, NEW p \in {"create", "post"},
         turn[t].pc \in {"create", "stream"}, (turn[t].pc = "create") <=> (p = "create"),
         Again(t, p), gone \subseteq gone', table' = table, server' = server
  PROVE  ChatInv'
  <1>0. Shape /\ InputInv /\ CallInv /\ RowInv
    BY DEF ChatInv
  <1>1. turn[t].try = 1 /\ turn' = [turn EXCEPT ![t].pc = p, ![t].try = 2] /\ sending' = sending
    BY DEF Again
  <1>2. Becomes(t, p, 2) /\ turn'[t].session = turn[t].session
    BY <1>0, <1>1, SetPcAnd
  <1>3. p \in TurnPc /\ p \in LivePc /\ turn[t].pc \in LivePc
    BY DEF TurnPc, LivePc
  <1>4. Shape'
    BY <1>0, <1>1, <1>2, <1>3, ShapeStep DEF Shape
  <1>5. InputInv'
    BY <1>0, <1>1, <1>2, <1>3, InputStep
  <1>6. CallInv'
    BY <1>0, <1>1, <1>2, <1>3, CallStep
  <1>7. \A u \in Turns : turn[u].pc \in {"post", "stream", "over"} =>
          turn'[u].pc \in {"post", "stream", "over"} /\ turn'[u].session = turn[u].session
    BY <1>2 DEF Becomes
  <1>8. RowInv'
    BY <1>0, <1>2, <1>7, RowStep DEF Becomes
  <1> QED
    BY <1>4, <1>5, <1>6, <1>8 DEF ChatInv

LEMMA RequestKeeps ==
  ASSUME ChatInv, NEW t \in Turns, CreateForTurn(t) \/ SetForTurn(t) \/ Post(t)
  PROVE  ChatInv'
  <1>0. Shape
    BY DEF ChatInv
  <1>1. CASE CreateForTurn(t)
    <2>1. turn[t].pc = "create" /\ gone' = gone /\ table' = table /\ server' = server
      BY <1>1 DEF CreateForTurn
    <2>2. CASE Catch(t)
      BY <2>1, <2>2, FinishKeeps DEF Catch, Finish, LivePc
    <2>3. CASE \E s \in Sessions : turn' = [turn EXCEPT ![t].pc = "set", ![t].session = s] /\ sending' = sending
      <3>1. Becomes(t, "set", turn[t].try) /\ sending' = sending
        BY <1>0, <2>3, SetPcAnd
      <3> QED
        BY <2>1, <3>1, TurnMoves DEF TurnPc, LivePc
    <2>4. CASE Again(t, "create")
      BY <2>1, <2>4, AgainKeeps
    <2>5. \/ \E s \in Sessions : turn' = [turn EXCEPT ![t].pc = "set", ![t].session = s] /\ sending' = sending
          \/ Again(t, "create")
          \/ Catch(t)
      BY <1>1 DEF CreateForTurn
    <2> QED
      BY <2>2, <2>3, <2>4, <2>5
  <1>2. CASE SetForTurn(t) \/ Post(t)
    <2>1. /\ turn[t].pc \in {"set", "post"} /\ gone' = gone /\ table' = table /\ sending' = sending
          /\ server' = [server EXCEPT ![Now(t)] = "posted"]
          /\ turn' = [turn EXCEPT ![t].pc = "stream", ![t].lines = 0]
      BY <1>2 DEF SetForTurn, Post, Call
    <2>2. Becomes(t, "stream", turn[t].try) /\ turn'[t].session = turn[t].session
      BY <1>0, <2>1, SetPcAnd
    <2> QED
      BY <2>1, <2>2, TurnMoves DEF TurnPc, LivePc
  <1> QED
    BY <1>1, <1>2

LEMMA StreamKeeps ==
  ASSUME ChatInv, NEW t \in Turns, Line(t) \/ Done(t) \/ ErrorEvent(t) \/ RequestFails(t)
  PROVE  ChatInv'
  <1>0. Shape
    BY DEF ChatInv
  <1>1. turn[t].pc = "stream" /\ gone' = gone /\ table' = table
    BY DEF Line, Done, ErrorEvent, RequestFails, Streams, serverVars
  <1>2. CASE Line(t)
    <2>1. turn' = [turn EXCEPT ![t].lines = turn[t].lines + 1] /\ sending' = sending /\ server' = server
      BY <1>2 DEF Line, serverVars
    <2>2. Becomes(t, "stream", turn[t].try) /\ turn'[t].session = turn[t].session
      BY <1>0, <1>1, <2>1, SetPcAnd
    <2> QED
      BY <1>1, <2>1, <2>2, TurnMoves DEF TurnPc, LivePc
  <1>3. CASE Done(t)
    BY <1>1, <1>3, FinishKeeps DEF Done, Finish, Streams, LivePc
  <1>4. CASE ErrorEvent(t)
    BY <1>1, <1>4, FinishKeeps DEF ErrorEvent, Finish, Streams, LivePc
  <1>5. CASE RequestFails(t)
    <2>1. server' = server
      BY <1>5 DEF RequestFails, serverVars
    <2>2. CASE Catch(t)
      BY <1>1, <2>1, <2>2, FinishKeeps DEF Catch, Finish, LivePc
    <2>3. CASE Again(t, "post")
      BY <1>1, <2>1, <2>3, AgainKeeps
    <2> QED
      BY <1>5, <2>2, <2>3 DEF RequestFails
  <1> QED
    BY <1>2, <1>3, <1>4, <1>5

\* A broken connection.
LEMMA BreakKeeps ==
  ASSUME ChatInv, NEW t \in Turns, Break(t)
  PROVE  ChatInv'
  <1>1. turn[t].pc = "stream" /\ gone \subseteq gone' /\ table' = table /\ server' = server
    BY DEF Break, serverVars
  <1>2. CASE Catch(t)
    BY <1>1, <1>2, FinishKeeps DEF Catch, Finish, LivePc
  <1>3. CASE Again(t, "post")
    BY <1>1, <1>3, AgainKeeps
  <1> QED
    BY <1>2, <1>3 DEF Break

-----------------------------------------------------------------------------
(* The steps of the server.                                                *)

\* Whatever becomes of a handler that was called, no request depends on it.
LEMMA HandlerCalls ==
  ASSUME Shape, CallInv, NEW h \in Handlers, NEW x \in HandlerPc, server' = [server EXCEPT ![h] = x],
         server[h] # "none", turn' = turn, gone' = gone,
         h \notin gone /\ turn[h[1]].pc = "stream" /\ Now(h[1]) = h => x \in {"stream", "refused"}
  PROVE  CallInv'
  <1>1. server'[h] = x /\ \A g \in Handlers : g # h => server'[g] = server[g]
    BY DEF Shape
  <1>2. \A t \in Turns : Now(t)' = Now(t) /\ Now(t) \in Handlers /\ Now(t)[1] = t
    BY NowIs DEF Now
  <1>3. \A t \in Turns : <<t, 1>> \in Handlers /\ <<t, 2>> \in Handlers
    BY HandlersAre
  <1>4. \A g \in Handlers : server[g] = "none" => server'[g] = "none"
    BY <1>1
  <1>5. \A t \in Turns : turn[t].pc = "stream" => Now(t) \in gone \/ server'[Now(t)] \in {"posted", "stream", "refused"}
    <2> SUFFICES ASSUME NEW t \in Turns, turn[t].pc = "stream"
                 PROVE  Now(t) \in gone \/ server'[Now(t)] \in {"posted", "stream", "refused"}
      OBVIOUS
    <2>1. CASE Now(t) = h
      BY <1>1, <1>2, <2>1
    <2>2. CASE Now(t) # h
      <3>1. server'[Now(t)] = server[Now(t)]
        BY <1>1, <1>2, <2>2
      <3> QED
        BY <3>1 DEF CallInv
    <2> QED
      BY <2>1, <2>2
  <1>6. \A t \in Turns :
          /\ turn[t].try = 1 => server'[<<t, 2>>] = "none"
          /\ turn[t].pc \in {"idle", "files", "unread"} => turn[t].try = 1
          /\ turn[t].pc \in {"idle", "files", "unread", "create", "set"} => server'[<<t, 1>>] = "none" /\ server'[<<t, 2>>] = "none"
          /\ turn[t].pc = "post" => server'[Now(t)] = "none"
    BY <1>2, <1>3, <1>4 DEF CallInv
  <1> QED
    BY <1>2, <1>5, <1>6 DEF CallInv

\* A turn a handler was called for has made its request.
LEMMA CalledIsSent ==
  ASSUME Shape, CallInv, NEW h \in Handlers, server[h] # "none"
  PROVE  turn[h[1]].pc \in {"post", "stream", "over"}
  <1>1. turn[h[1]].pc \in TurnPc /\ h[1] \in Turns /\ (h = <<h[1], 1>> \/ h = <<h[1], 2>>)
    BY HandlersAre DEF Shape
  <1> QED
    BY <1>1 DEF CallInv, TurnPc

LEMMA InsertRows ==
  ASSUME Shape, CallInv, RowInv, NEW h \in Handlers, NEW role, Insert(role, h), turn' = turn, sending' = sending,
         \/ /\ role = "user" /\ server[h] = "posted"
            /\ \E x \in {"stream", "refused"} : server' = [server EXCEPT ![h] = x]
         \/ /\ role # "user" /\ server[h] \in {"stream", "save", "fail"}
            /\ server' = [server EXCEPT ![h] = "over"]
  PROVE  Shape' /\ RowInv'
  <1> DEFINE n == Len(table) + 1
             row == [session |-> turn[h[1]].session, role |-> role, turn |-> h[1]]
  <1>1. IsSeq(table) /\ table' = Append(table, row) /\ server \in [Handlers -> HandlerPc]
    BY DEF Insert, Shape
  <1>0. row.turn = h[1] /\ row.role = role /\ row.session = turn[h[1]].session
    OBVIOUS
  <1> HIDE DEF row
  <1>2. /\ IsSeq(table') /\ n \in Nat /\ n >= 1 /\ DOMAIN table = 1 .. n - 1 /\ DOMAIN table' = 1 .. n
        /\ \A i \in DOMAIN table : table'[i] = table[i]
        /\ table'[n] = row
    BY <1>1, AppendIs
  <1> HIDE DEF n
  <1>3. h[1] \in Turns /\ turn[h[1]].pc \in {"post", "stream", "over"}
    BY HandlersAre, CalledIsSent
  <1>4. \A t \in Turns : Questions(t)' = IF role = "user" /\ t = h[1] THEN Questions(t) \cup {n} ELSE Questions(t)
    <2> SUFFICES ASSUME NEW t \in Turns, NEW i
                 PROVE  i \in Questions(t)' <=>
                          (i \in Questions(t) \/ (role = "user" /\ t = h[1] /\ i = n))
      OBVIOUS
    <2>1. i \in Questions(t)' <=> i \in 1 .. n /\ table'[i].turn = t /\ table'[i].role = "user"
      BY <1>2 DEF Questions
    <2>2. i \in Questions(t) <=> i \in 1 .. n - 1 /\ table[i].turn = t /\ table[i].role = "user"
      BY <1>2 DEF Questions
    <2>3. CASE i = n
      BY <1>0, <1>2, <2>1, <2>2, <2>3
    <2>4. CASE i # n
      <3>1. i \in 1 .. n <=> i \in 1 .. n - 1
        BY <1>2, <2>4
      <3>2. i \in 1 .. n - 1 => table'[i] = table[i]
        BY <1>2
      <3> QED
        BY <2>1, <2>2, <2>4, <3>1, <3>2
    <2> QED
      BY <2>3, <2>4
  <1>5. Shape'
    BY <1>1, <1>2 DEF Shape, HandlerPc
  <1>6. \A g \in Handlers : Stored(g) \in {0, 1} /\ Stored(g)' \in {0, 1} /\ Stored(g) <= Stored(g)'
    BY <1>1 DEF Stored
  <1>7. ASSUME NEW t \in Turns PROVE Cardinality(Questions(t)') <= Stored(<<t, 1>>)' + Stored(<<t, 2>>)'
    <2>1. PICK c \in Nat : c = Cardinality(Questions(t)) /\ IsFiniteSet(Questions(t))
      BY RowsFinite
    <2>2. PICK a \in {0, 1}, b \in {0, 1} : a = Stored(<<t, 1>>) /\ b = Stored(<<t, 2>>)
      BY <1>6, HandlersAre
    <2>3. PICK d \in {0, 1}, e \in {0, 1} : d = Stored(<<t, 1>>)' /\ e = Stored(<<t, 2>>)'
      BY <1>6, HandlersAre
    <2>4. c <= a + b
      BY <2>1, <2>2 DEF RowInv
    <2>5. a <= d /\ b <= e
      BY <1>6, <2>2, <2>3, HandlersAre
    <2>6. CASE role = "user" /\ t = h[1]
      <3>1. Cardinality(Questions(t)') <= c + 1
        <4>1. Questions(t)' = Questions(t) \cup {n}
          BY <1>4, <2>6
        <4>2. Cardinality(Questions(t) \cup {n}) = IF n \in Questions(t) THEN c ELSE c + 1
          BY <2>1, FS_AddElement
        <4> QED
          BY <2>1, <4>1, <4>2
      <3>2. Cardinality(Questions(t)') \in Nat
        <4>1. Questions(t)' = Questions(t) \cup {n}
          BY <1>4, <2>6
        <4> QED
          BY <2>1, <4>1, FS_AddElement, FS_CardinalityType
      <3>3. Stored(h) = 0 /\ Stored(h)' = 1
        BY <1>1, <2>6 DEF Stored
      <3>4. (h = <<t, 1>> /\ a = 0 /\ d = 1) \/ (h = <<t, 2>> /\ b = 0 /\ e = 1)
        BY <2>2, <2>3, <2>6, <3>3, HandlersAre
      <3>5. c + 1 <= d + e
        BY <2>4, <2>5, <3>4
      <3>6. Cardinality(Questions(t)') <= d + e
        BY <3>1, <3>2, <3>5
      <3> QED
        BY <2>3, <3>6
    <2>7. CASE ~(role = "user" /\ t = h[1])
      <3>1. Cardinality(Questions(t)') = c
        BY <1>4, <2>1, <2>7
      <3>2. c <= d + e
        BY <2>4, <2>5
      <3> QED
        BY <2>3, <3>1, <3>2
    <2> QED
      BY <2>6, <2>7
  <1>8. ASSUME NEW g \in Handlers, server'[g] \in {"stream", "save", "fail"} PROVE Questions(g[1])' # {}
    BY <1>1, <1>4, <1>8, HandlersAre DEF RowInv
  <1>9. ASSUME NEW i \in 1 .. n
        PROVE  /\ table'[i].turn \in Turns
               /\ turn[table'[i].turn].pc \in {"post", "stream", "over"}
               /\ table'[i].session = turn[table'[i].turn].session
               /\ \E k \in 1 .. n : table'[k].turn = table'[i].turn /\ table'[k].role = "user" /\ k <= i
    <2>1. CASE i = n
      <3>1. table'[i].turn = h[1] /\ table'[i].session = turn[h[1]].session /\ table'[i].role = role
        BY <1>0, <1>2, <2>1
      <3>2. CASE role = "user"
        BY <1>2, <1>3, <2>1, <3>1, <3>2
      <3>3. CASE role # "user"
        <4>1. PICK k \in Questions(h[1]) : TRUE
          BY <3>3 DEF RowInv
        <4>2. k \in 1 .. n - 1 /\ table'[k].turn = h[1] /\ table'[k].role = "user"
          BY <1>2 DEF Questions
        <4>3. k \in 1 .. n /\ k <= i
          BY <1>2, <2>1, <4>2
        <4> QED
          BY <1>3, <3>1, <4>2, <4>3
      <3> QED
        BY <3>2, <3>3
    <2>2. CASE i # n
      <3>1. i \in DOMAIN table /\ table'[i] = table[i]
        BY <1>2, <2>2
      <3>2. PICK k \in DOMAIN table : table[k].turn = table[i].turn /\ table[k].role = "user" /\ k <= i
        BY <3>1 DEF RowInv
      <3>3. k \in 1 .. n /\ table'[k] = table[k]
        BY <1>2
      <3>4. /\ table[i].turn \in Turns
            /\ turn[table[i].turn].pc \in {"post", "stream", "over"}
            /\ table[i].session = turn[table[i].turn].session
        BY <3>1 DEF RowInv
      <3> QED
        BY <3>1, <3>2, <3>3, <3>4
    <2> QED
      BY <2>1, <2>2
  <1>10. RowInv'
    BY <1>2, <1>7, <1>8, <1>9 DEF RowInv, Stored
  <1> QED
    BY <1>5, <1>10

LEMMA HandlerKeeps ==
  ASSUME ChatInv, NEW h \in Handlers, HandlerStep(h)
  PROVE  ChatInv'
  <1>0. Shape /\ InputInv /\ CallInv /\ RowInv
    BY DEF ChatInv
  <1>1. turn' = turn /\ sending' = sending /\ gone' = gone
    BY DEF HandlerStep, StoreQuestion, StoreReply
  <1>2. InputInv'
    BY <1>0, <1>1 DEF InputInv, Live, SomeFiles
  <1>3. PICK x \in HandlerPc :
          /\ server' = [server EXCEPT ![h] = x] /\ server[h] # "none"
          /\ h \notin gone /\ turn[h[1]].pc = "stream" /\ Now(h[1]) = h => x \in {"stream", "refused"}
    <2>1. CASE StoreQuestion(h)
      BY <2>1 DEF StoreQuestion, HandlerPc
    <2>2. CASE StoreReply(h)
      <3>1. h[1] \in Turns
        BY HandlersAre
      <3>2. ~(h \notin gone /\ turn[h[1]].pc = "stream" /\ Now(h[1]) = h)
        BY <1>0, <2>2, <3>1 DEF StoreReply, Unread, CallInv
      <3> QED
        BY <2>2, <3>2 DEF StoreReply, HandlerPc
    <2> QED
      BY <2>1, <2>2 DEF HandlerStep
  <1>4. CallInv'
    BY <1>0, <1>1, <1>3, HandlerCalls
  <1>5. CASE table' = table
    <2>1. Shape'
      BY <1>0, <1>1, <1>3, <1>5 DEF Shape
    <2>2. \/ server[h] = "posted" /\ server' = [server EXCEPT ![h] = "over"]
          \/ server[h] = "posted" /\ server' = [server EXCEPT ![h] = "refused"]
          \/ server[h] \in {"stream", "save", "fail"} /\ server' = [server EXCEPT ![h] = "over"]
          \/ \E role : Insert(role, h)
      BY DEF HandlerStep, StoreQuestion, StoreReply
    <2>3. \A role : ~Insert(role, h)
      <3>1. \A e : Append(table, e) # table
        BY <1>0, AppendIs DEF Shape
      <3> QED
        BY <1>5, <3>1 DEF Insert
    <2>4. \A g \in Handlers : \/ server'[g] = server[g]
                              \/ server[g] = "posted" /\ server'[g] \in {"over", "refused"}
                              \/ server[g] \in {"stream", "save", "fail"} /\ server'[g] = "over"
      BY <1>0, <2>2, <2>3 DEF Shape
    <2>5. RowInv'
      BY <1>0, <1>1, <1>5, <2>4, RowStep DEF Shape
    <2> QED
      BY <1>2, <1>4, <2>1, <2>5 DEF ChatInv
  <1>6. CASE table' # table
    <2>1. PICK role : /\ Insert(role, h)
                      /\ \/ /\ role = "user" /\ server[h] = "posted"
                            /\ \E y \in {"stream", "refused"} : server' = [server EXCEPT ![h] = y]
                         \/ /\ role # "user" /\ server[h] \in {"stream", "save", "fail"}
                            /\ server' = [server EXCEPT ![h] = "over"]
      BY <1>6 DEF HandlerStep, StoreQuestion, StoreReply
    <2>2. Shape' /\ RowInv'
      BY <1>0, <1>1, <2>1, InsertRows
    <2> QED
      BY <1>2, <1>4, <2>2 DEF ChatInv
  <1> QED
    BY <1>5, <1>6

-----------------------------------------------------------------------------
(* The whole editor.                                                       *)

\* Conversations opened and histories fetched: turns and handlers stand still.
LEMMA AsideKeeps ==
  ASSUME ChatInv, turn' = turn, sending' = sending, table' = table, server' = server, gone' = gone
  PROVE  ChatInv'
  BY DEF ChatInv, Shape, InputInv, Live, SomeFiles, CallInv, Now, RowInv, Questions, Stored

LEMMA RestartKeeps == ASSUME ChatInv, Restart PROVE ChatInv'
  <1>0. Shape /\ InputInv /\ CallInv /\ RowInv
    BY DEF ChatInv
  <1>1. sending' = FALSE /\ table' = table /\ server' = server /\ DOMAIN turn' = Turns
    BY DEF Restart
  <1>2. ASSUME NEW t \in Turns
        PROVE  /\ DOMAIN turn'[t] = Fields /\ turn'[t].try = turn[t].try /\ turn'[t].files = turn[t].files
               /\ turn'[t].session = turn[t].session
               /\ \/ turn[t].pc \in {"idle", "unread", "over"} /\ turn'[t].pc = turn[t].pc
                  \/ turn[t].pc = "files" /\ turn'[t].pc = "unread"
                  \/ turn[t].pc \in LivePc /\ turn'[t].pc = "over"
    <2>1. DOMAIN turn[t] = Fields /\ turn[t].pc \in TurnPc
      BY <1>0 DEF Shape
    <2>2. \/ turn[t].pc \in {"idle", "unread", "over"} /\ turn'[t] = turn[t]
          \/ turn[t].pc = "files" /\ turn'[t] = [turn[t] EXCEPT !.pc = "unread"]
          \/ turn[t].pc \in LivePc /\ turn'[t] = [turn[t] EXCEPT !.pc = "over"]
      BY <2>1 DEF Restart, Busy, TurnPc, LivePc
    <2>3. \A p : LET y == [turn[t] EXCEPT !.pc = p] IN
            /\ DOMAIN y = Fields /\ y.pc = p /\ y.try = turn[t].try
            /\ y.files = turn[t].files /\ y.session = turn[t].session
      BY <2>1, FieldsAre
    <2>4. CASE turn'[t] = turn[t]
      BY <2>1, <2>2, <2>3, <2>4
    <2>5. CASE turn[t].pc = "files" /\ turn'[t] = [turn[t] EXCEPT !.pc = "unread"]
      BY <2>3, <2>5
    <2>6. CASE turn[t].pc \in LivePc /\ turn'[t] = [turn[t] EXCEPT !.pc = "over"]
      BY <2>3, <2>6
    <2> QED
      BY <2>2, <2>4, <2>5, <2>6
  <1>3. Shape'
    BY <1>0, <1>1, <1>2 DEF Shape, TurnPc, LivePc
  <1>4. InputInv'
    <2>1. \A t \in Turns : turn'[t].pc \in {"idle", "unread", "over"}
      BY <1>2
    <2> QED
      BY <1>1, <2>1 DEF InputInv, Live
  <1>5. CallInv'
    BY <1>0, <1>1, <1>2 DEF CallInv, LivePc
  <1>6. RowInv'
    <2>1. \A t \in Turns : turn[t].pc \in {"post", "stream", "over"} =>
            turn'[t].pc \in {"post", "stream", "over"} /\ turn'[t].session = turn[t].session
      BY <1>2
    <2> QED
      BY <1>0, <1>1, <2>1, RowStep
  <1> QED
    BY <1>3, <1>4, <1>5, <1>6 DEF ChatInv

LEMMA ChatInvNext == ASSUME ChatInv, [Next]_vars PROVE ChatInv'
  <1>1. CASE UNCHANGED vars
    BY <1>1, AsideKeeps DEF vars
  <1>2. ASSUME NEW c \in Chats, OpenChat(c) \/ OpenStep(c) PROVE ChatInv'
    BY <1>2, AsideKeeps DEF OpenChat, OpenStep, EnsureApiSession, SessionSet, GetMessages, MergeHistory, serverVars
  <1>3. CASE SyncStep
    BY <1>3, AsideKeeps DEF SyncStep, SyncList, SyncGet, SyncMerge, serverVars
  <1>4. ASSUME NEW t \in Turns, TurnStep(t) PROVE ChatInv'
    <2>1. CASE Send(t)
      BY <2>1, AskKeeps DEF Send
    <2>2. CASE FilesRead(t)
      <3>1. turn[t].pc = "files" /\ turn[t].files /\ Ask(t, turn[t].chat)
        BY <2>2 DEF FilesRead, ChatInv, InputInv
      <3> QED
        BY <3>1, AskKeeps
    <2> QED
      BY <1>4, <2>1, <2>2, FilesKeep, RequestKeeps, StreamKeeps, BreakKeeps DEF TurnStep
  <1>5. ASSUME NEW h \in Handlers, HandlerStep(h) PROVE ChatInv'
    BY <1>5, HandlerKeeps
  <1> QED
    BY <1>1, <1>2, <1>3, <1>4, <1>5, RestartKeeps DEF Next

LEMMA ChatInvCorrect == Spec => []ChatInv
  <1>1. ChatInv /\ [Next]_vars => ChatInv'
    BY ChatInvNext
  <1> QED
    BY <1>1, ChatInvInit, PTL DEF Spec

\* Whatever breaks, is refused or aborted, the input comes back; turns overlap only
\* once files were read; who waits for a stream is served, refused or aborted.
THEOREM InputIsGivenBack == Spec => []InputLock
  <1>1. ChatInv => InputLock
    BY DEF ChatInv, InputInv, SomeFiles, CallInv, InputLock
  <1> QED
    BY <1>1, ChatInvCorrect, PTL

\* On the server a turn has at most one question per request that was made for it (two
\* requests when the first broke, or failed as the helper repeats), all in one conversation,
\* and a reply only behind a question.
THEOREM TurnsAreStoredOnce == Spec => []StoredOnce
  <1>1. ASSUME ChatInv PROVE StoredOnce
    <2>0. Shape /\ CallInv /\ RowInv
      BY <1>1 DEF ChatInv
    <2>1. ASSUME NEW t \in Turns PROVE Cardinality(Questions(t)) <= Cardinality({k \in {1, 2} : server[<<t, k>>] # "none"})
      <3>1. PICK c \in Nat : c = Cardinality(Questions(t))
        BY <2>0, RowsFinite
      <3>2. c <= Stored(<<t, 1>>) + Stored(<<t, 2>>)
        BY <2>0, <3>1 DEF RowInv
      <3>3. Stored(<<t, 1>>) \in {0, 1} /\ Stored(<<t, 2>>) \in {0, 1}
        BY DEF Stored
      <3>4. /\ server[<<t, 1>>] # "none" \/ Stored(<<t, 1>>) = 0
            /\ server[<<t, 2>>] # "none" \/ Stored(<<t, 2>>) = 0
        BY DEF Stored
      <3>5. Cardinality({}) = 0 /\ Cardinality({1}) = 1 /\ Cardinality({2}) = 1 /\ Cardinality({1, 2}) = 2
        <4>1. Cardinality({1} \cup {2}) = Cardinality({1}) + 1 /\ {1} \cup {2} = {1, 2} /\ Cardinality({1}) = 1
          BY FS_Singleton, FS_AddElement
        <4> QED
          BY <4>1, FS_EmptySet, FS_Singleton
      <3>6. PICK K : K = {k \in {1, 2} : server[<<t, k>>] # "none"}
        OBVIOUS
      <3>7. K \in {{}, {1}, {2}, {1, 2}}
        BY <3>6
      <3>8. /\ Stored(<<t, 1>>) = 0 \/ 1 \in K
            /\ Stored(<<t, 2>>) = 0 \/ 2 \in K
        BY <3>4, <3>6
      <3>9. Stored(<<t, 1>>) + Stored(<<t, 2>>) <= Cardinality(K)
        BY <3>3, <3>5, <3>7, <3>8
      <3>10. c <= Cardinality(K)
        <4>1. Cardinality(K) \in Nat
          BY <3>5, <3>7
        <4> QED
          BY <3>2, <3>3, <3>9, <4>1
      <3> QED
        BY <3>1, <3>6, <3>10
    <2>2. \A i, j \in DOMAIN table : table[i].turn = table[j].turn => table[i].session = table[j].session
      BY <2>0 DEF RowInv
    <2>3. ASSUME NEW j \in DOMAIN table PROVE \E i \in Questions(table[j].turn) : i <= j
      BY <2>0 DEF RowInv, Questions
    <2> QED
      BY <2>1, <2>2, <2>3 DEF StoredOnce
  <1> QED
    BY <1>1, ChatInvCorrect, PTL

-----------------------------------------------------------------------------
(* Positions of a list: ranks, the first and the last.                     *)

LEMMA RankIs ==
  ASSUME NEW N \in Nat, NEW S \in SUBSET (1 .. N)
  PROVE  /\ IsFiniteSet(S) /\ Cardinality(S) \in Nat
         /\ \A k \in 1 .. Cardinality(S) : \E i \in S : Cardinality({j \in S : j <= i}) = k
  <1> DEFINE n == Cardinality(S)
             upTo(i) == {j \in S : j <= i}
             f == [i \in S |-> Cardinality(upTo(i))]
  <1>0. S \subseteq Int /\ S \subseteq 1 .. N
    OBVIOUS
  <1>1. IsFiniteSet(S) /\ n \in Nat
    <2>1. IsFiniteSet(1 .. N)
      BY FS_Interval
    <2>2. IsFiniteSet(S)
      BY <2>1, FS_Subset
    <2> QED
      BY <2>2, FS_CardinalityType
  <1>2. \A i \in S : IsFiniteSet(upTo(i)) /\ Cardinality(upTo(i)) \in Nat /\ Cardinality(upTo(i)) <= n
    <2> TAKE i \in S
    <2>1. upTo(i) \in SUBSET S
      OBVIOUS
    <2> HIDE DEF upTo
    <2> QED
      BY <1>1, <2>1, FS_Subset, FS_CardinalityType
  <1>3. \A i \in S : Cardinality(upTo(i)) # 0
    <2> TAKE i \in S
    <2>1. i \in upTo(i)
      OBVIOUS
    <2> HIDE DEF upTo
    <2> QED
      BY <1>2, <2>1, FS_EmptySet
  <1>4. \A i, j \in S : i < j => Cardinality(upTo(i)) # Cardinality(upTo(j))
    <2> SUFFICES ASSUME NEW i \in S, NEW j \in S, i < j PROVE Cardinality(upTo(i)) # Cardinality(upTo(j))
      OBVIOUS
    <2>0. i \in Int /\ j \in Int /\ \A k \in S : k \in Int
      BY <1>0
    <2>1. j \in upTo(j) /\ j \notin upTo(i)
      BY <2>0
    <2>2. \A k \in upTo(i) : k \in upTo(j)
      BY <2>0
    <2> HIDE DEF upTo
    <2>3. upTo(i) \in SUBSET upTo(j)
      BY <2>2
    <2> QED
      BY <1>2, <2>1, <2>3, FS_Subset
  <1>5. f \in [S -> 1 .. n]
    <2>1. \A i \in S : Cardinality(upTo(i)) \in 1 .. n
      BY <1>1, <1>2, <1>3
    <2> HIDE DEF upTo, n
    <2> QED
      BY <2>1
  <1>6. \A i, j \in S : f[i] = f[j] => i = j
    <2>1. \A i, j \in S : i < j \/ j < i \/ i = j
      OBVIOUS
    <2>2. \A i \in S : f[i] = Cardinality(upTo(i))
      BY DEF f
    <2> HIDE DEF upTo, n, f
    <2> QED
      BY <1>4, <2>1, <2>2
  <1>7. f \in Surjection(S, 1 .. n)
    <2>1. f \in Injection(S, 1 .. n)
      BY <1>5, <1>6 DEF Injection, IsInjective
    <2>2. IsFiniteSet(1 .. n) /\ Cardinality(1 .. n) = n
      BY <1>1, FS_Interval
    <2> HIDE DEF f
    <2> QED
      BY <2>1, <2>2, FS_Injection
  <1>8. \A k \in 1 .. n : \E i \in S : f[i] = k
    BY <1>7 DEF Surjection
  <1> QED
    BY <1>1, <1>8

LEMMA LastIs ==
  ASSUME NEW N \in Nat, NEW S \in SUBSET (1 .. N)
  PROVE  /\ S = {} => Last(S) = 0
         /\ S # {} => Last(S) \in S /\ \A j \in S : j <= Last(S)
  <1> SUFFICES ASSUME S # {} PROVE \E i \in S : \A j \in S : j <= i
    BY DEF Last
  <1>1. IsFiniteSet(S) /\ Cardinality(S) \in Nat /\ Cardinality(S) # 0
    BY RankIs, FS_EmptySet
  <1>2. Cardinality(S) \in 1 .. Cardinality(S)
    BY <1>1
  <1>3. PICK i \in S : Cardinality({j \in S : j <= i}) = Cardinality(S)
    BY <1>2, RankIs
  <1>4. {j \in S : j <= i} = S
    <2>1. {j \in S : j <= i} \in SUBSET S
      OBVIOUS
    <2> QED
      BY <1>1, <1>3, <2>1, FS_Subset
  <1> QED
    BY <1>4

LEMMA FirstIs ==
  ASSUME NEW N \in Nat, NEW S \in SUBSET (1 .. N), S # {}
  PROVE  \E i \in S : \A j \in S : i <= j
  <1>1. IsFiniteSet(S) /\ Cardinality(S) \in Nat /\ Cardinality(S) # 0
    BY RankIs, FS_EmptySet
  <1>2. 1 \in 1 .. Cardinality(S)
    BY <1>1
  <1>3. PICK i \in S : Cardinality({j \in S : j <= i}) = 1
    BY <1>2, RankIs
  <1>4. {j \in S : j <= i} = {i}
    <2>1. {i} \in SUBSET {j \in S : j <= i} /\ {j \in S : j <= i} \in SUBSET S
      OBVIOUS
    <2>2. IsFiniteSet({j \in S : j <= i})
      BY <1>1, <2>1, FS_Subset
    <2>3. Cardinality({i}) = 1
      BY FS_Singleton
    <2> DEFINE U == {j \in S : j <= i}
    <2>4. {i} \in SUBSET U
      OBVIOUS
    <2> HIDE DEF U
    <2> QED
      BY <1>3, <2>2, <2>3, <2>4, FS_Subset DEF U
  <1>5. \A j \in S : j <= i => j = i
    BY <1>4
  <1> QED
    BY <1>5

-----------------------------------------------------------------------------
(* Lists of messages.  H are the turns at home in the conversation, A the  *)
(* turns that were sent or given up, rows the rows of the server.          *)

Speaker(role) == IF role = "user" THEN "user" ELSE "assistant"

\* Questions are the user's and carry no mark of the development workflow; copies have
\* their row; what is written here belongs here, or repeats a plain copy above.
CopyAbove(msgs, n, t, says) ==
  \E k \in 1 .. n : msgs[k].id # NoId /\ msgs[k].mark = "plain" /\ msgs[k].says = says /\ msgs[k].turn = t

MessageOK(msgs, i, H, A, rows) ==
  /\ msgs[i].says = "question" => msgs[i].role = "user"
  /\ msgs[i].role = "user" => msgs[i].mark = "plain"
  /\ msgs[i].turn \in A
  /\ msgs[i].id # NoId => msgs[i].id \in DOMAIN rows /\ msgs[i].role = Speaker(rows[msgs[i].id].role)
  /\ msgs[i].id = NoId => msgs[i].turn \in H \/ CopyAbove(msgs, i - 1, msgs[i].turn, msgs[i].says)

ListOK(msgs, H, A, rows) == msgs \in Seq(Message) /\ \A i \in DOMAIN msgs : MessageOK(msgs, i, H, A, rows)

\* Questions stay.
Keeps(msgs, new) == \A i \in DOMAIN msgs : msgs[i].says = "question" => i \in DOMAIN new /\ new[i] = msgs[i]

LEMMA SeqIs ==
  ASSUME NEW S, NEW s
  PROVE  /\ s \in Seq(S) => Len(s) \in Nat /\ DOMAIN s = 1 .. Len(s) /\ s \in [1 .. Len(s) -> S]
         /\ \A n \in Nat : s \in [1 .. n -> S] => s \in Seq(S) /\ Len(s) = n
  OBVIOUS

LEMMA KeepsTrans ==
  ASSUME NEW a, NEW b, NEW c, Keeps(a, b), Keeps(b, c)
  PROVE  Keeps(a, c)
  BY DEF Keeps

LEMMA ListMono ==
  ASSUME NEW msgs, NEW H, NEW A, NEW rows, ListOK(msgs, H, A, rows),
         NEW H2, NEW A2, NEW rows2, H \subseteq H2, A \subseteq A2,
         DOMAIN rows \subseteq DOMAIN rows2, \A i \in DOMAIN rows : rows2[i] = rows[i]
  PROVE  ListOK(msgs, H2, A2, rows2)
  BY DEF ListOK, MessageOK

\* A message is added at the end.
LEMMA AppendOK ==
  ASSUME NEW msgs, NEW H, NEW A, NEW rows, ListOK(msgs, H, A, rows), NEW m \in Message, m.id = NoId,
         m.says = "question" => m.role = "user", m.role = "user" => m.mark = "plain", m.turn \in A,
         m.turn \in H \/ CopyAbove(msgs, Len(msgs), m.turn, m.says)
  PROVE  ListOK(Append(msgs, m), H, A, rows) /\ Keeps(msgs, Append(msgs, m))
  <1> DEFINE n == Len(msgs)
             new == Append(msgs, m)
  <1>1. msgs \in Seq(Message) /\ n \in Nat /\ DOMAIN msgs = 1 .. n
    BY DEF ListOK
  <1>2. new \in Seq(Message) /\ DOMAIN new = 1 .. n + 1 /\ new[n + 1] = m /\ \A i \in 1 .. n : new[i] = msgs[i]
    BY <1>1
  <1> HIDE DEF n, new
  <1>3. ASSUME NEW i \in 1 .. n PROVE MessageOK(new, i, H, A, rows)
    <2>1. MessageOK(msgs, i, H, A, rows) /\ new[i] = msgs[i]
      BY <1>1, <1>2 DEF ListOK
    <2>2. \A k \in 1 .. i - 1 : k \in 1 .. n
      BY <1>1
    <2> QED
      BY <1>2, <2>1, <2>2 DEF MessageOK, CopyAbove
  <1>4. MessageOK(new, n + 1, H, A, rows)
    <2> DEFINE p == n + 1
    <2>1. p - 1 = n /\ new[p] = m
      BY <1>1, <1>2
    <2>2. m.turn \in H \/ CopyAbove(new, n, m.turn, m.says)
      BY <1>2 DEF CopyAbove, n
    <2> HIDE DEF p
    <2>3. m.turn \in H \/ CopyAbove(new, p - 1, m.turn, m.says)
      BY <2>1, <2>2
    <2>4. MessageOK(new, p, H, A, rows)
      BY <2>1, <2>3 DEF MessageOK
    <2> QED
      BY <2>4 DEF p
  <1>5. \A i \in 1 .. n + 1 : i \in 1 .. n \/ i = n + 1
    BY <1>1
  <1>6. ListOK(new, H, A, rows)
    BY <1>2, <1>3, <1>4, <1>5 DEF ListOK
  <1>7. Keeps(msgs, new)
    BY <1>1, <1>2 DEF Keeps
  <1> QED
    BY <1>6, <1>7 DEF new

\* The content of a message of the assistant is replaced: of the last one, or of a response.
Overwrite(msgs, i, t, says) == [msgs EXCEPT ![i] = [@ EXCEPT !.turn = t, !.says = says]]

LEMMA OverwriteOK ==
  ASSUME NEW msgs, NEW H, NEW A, NEW rows, ListOK(msgs, H, A, rows), NEW i \in DOMAIN msgs,
         msgs[i].role = "assistant", i = Len(msgs) \/ msgs[i].mark = "response",
         NEW t \in Turns, NEW says \in Says, says # "question", t \in A,
         msgs[i].id = NoId => t \in H \/ CopyAbove(msgs, i - 1, t, says)
  PROVE  LET new == Overwrite(msgs, i, t, says) IN ListOK(new, H, A, rows) /\ Keeps(msgs, new)
  <1> DEFINE n == Len(msgs)
             m == [msgs[i] EXCEPT !.turn = t, !.says = says]
             new == Overwrite(msgs, i, t, says)
  <1>1. msgs \in Seq(Message) /\ n \in Nat /\ DOMAIN msgs = 1 .. n /\ msgs[i] \in Message
    BY DEF ListOK
  <1>2. /\ m \in Message /\ m.role = msgs[i].role /\ m.mark = msgs[i].mark /\ m.id = msgs[i].id
        /\ m.turn = t /\ m.says = says
    BY <1>1 DEF Message
  <1>3. new \in Seq(Message) /\ DOMAIN new = 1 .. n /\ Len(new) = n /\ new[i] = m /\ \A j \in 1 .. n : j # i => new[j] = msgs[j]
    <2>1. new = [msgs EXCEPT ![i] = m]
      BY DEF Overwrite
    <2> HIDE DEF m, new, n
    <2>2. msgs \in [1 .. n -> Message]
      BY <1>1, SeqIs
    <2>3. new \in [1 .. n -> Message] /\ new[i] = m /\ \A j \in 1 .. n : j # i => new[j] = msgs[j]
      BY <1>1, <1>2, <2>1, <2>2
    <2> QED
      BY <1>1, <2>3, SeqIs
  <1> HIDE DEF m, new, n
  <1>4. ASSUME NEW j \in 1 .. n PROVE MessageOK(new, j, H, A, rows)
    <2>1. \A k \in 1 .. j - 1 : k \in 1 .. n
      BY <1>1
    <2>2. ASSUME NEW u, NEW v, CopyAbove(msgs, j - 1, u, v) PROVE CopyAbove(new, j - 1, u, v)
      <3>1. PICK k \in 1 .. j - 1 : msgs[k].id # NoId /\ msgs[k].mark = "plain" /\ msgs[k].says = v /\ msgs[k].turn = u
        BY <2>2 DEF CopyAbove
      <3>2. k # i
        BY <1>1, <3>1 DEF n
      <3>3. new[k] = msgs[k]
        BY <1>3, <2>1, <3>2
      <3> QED
        BY <3>1, <3>3 DEF CopyAbove
    <2>3. MessageOK(msgs, j, H, A, rows)
      BY <1>1 DEF ListOK
    <2>4. CASE j = i
      <3>1. msgs[i].id = NoId => t \in H \/ CopyAbove(new, j - 1, t, says)
        BY <2>2, <2>4
      <3>2. new[j] = m
        BY <1>3, <2>4
      <3> QED
        BY <1>2, <2>3, <2>4, <3>1, <3>2 DEF MessageOK
    <2>5. CASE j # i
      <3>1. new[j] = msgs[j]
        BY <1>3, <2>5
      <3> QED
        BY <2>2, <2>3, <3>1 DEF MessageOK
    <2> QED
      BY <2>4, <2>5
  <1>5. ListOK(new, H, A, rows)
    BY <1>3, <1>4 DEF ListOK
  <1>6. Keeps(msgs, new)
    <2>1. msgs[i].says # "question" \/ msgs[i].role = "user"
      BY <1>1 DEF ListOK, MessageOK
    <2> QED
      BY <1>1, <1>3, <2>1 DEF Keeps
  <1> QED
    BY <1>3, <1>5, <1>6 DEF new, n

\* The operations of the service keep the lists so.
LEMMA LocalIs ==
  ASSUME NEW role \in {"user", "assistant"}, NEW t \in Turns, NEW says \in Says, NEW mark \in Marks
  PROVE  LET m == Local(role, t, says, mark)
         IN  /\ m \in Message /\ m.role = role /\ m.turn = t /\ m.says = says /\ m.mark = mark /\ m.id = NoId
  BY DEF Local, Message, NoId

LEMMA AddMessageOK ==
  ASSUME NEW msgs, NEW H, NEW A, NEW rows, ListOK(msgs, H, A, rows),
         NEW role \in {"user", "assistant"}, NEW t \in Turns, NEW says \in Says,
         says = "question" => role = "user", t \in A,
         t \in H \/ CopyAbove(msgs, Len(msgs), t, says)
  PROVE  ListOK(AddMessage(msgs, role, t, says), H, A, rows) /\ Keeps(msgs, AddMessage(msgs, role, t, says))
  <1>1. "plain" \in Marks
    BY DEF Marks
  <1> QED
    BY <1>1, LocalIs, AppendOK DEF AddMessage

LEMMA QuestionIsThere ==
  ASSUME NEW msgs \in Seq(Message), NEW t \in Turns
  PROVE  LET new == AddMessage(msgs, "user", t, "question")
         IN  \E i \in DOMAIN new : new[i].turn = t /\ new[i].says = "question"
  <1> DEFINE m == Local("user", t, "question", "plain")
  <1>1. m \in Message /\ m.turn = t /\ m.says = "question"
    BY LocalIs DEF Marks, Says
  <1> HIDE DEF m
  <1>2. Len(msgs) + 1 \in DOMAIN Append(msgs, m) /\ Append(msgs, m)[Len(msgs) + 1] = m
    BY <1>1
  <1> QED
    BY <1>1, <1>2 DEF AddMessage, m

LEMMA UpdateAssistantOK ==
  ASSUME NEW msgs, NEW H, NEW A, NEW rows, ListOK(msgs, H, A, rows),
         NEW t \in Turns, NEW says \in Says, says # "question", t \in A,
         t \in H \/ CopyAbove(msgs, Len(msgs), t, says),
         \/ t \in H
         \/ CopyAbove(msgs, Len(msgs) - 1, t, says)
         \/ Len(msgs) > 0 => msgs[Len(msgs)].id # NoId \/ msgs[Len(msgs)].role # "assistant"
  PROVE  LET new == UpdateAssistant(msgs, t, says) IN ListOK(new, H, A, rows) /\ Keeps(msgs, new)
  <1> DEFINE n == Len(msgs)
  <1>1. msgs \in Seq(Message) /\ n \in Nat /\ DOMAIN msgs = 1 .. n
    BY DEF ListOK
  <1>2. CASE n > 0 /\ msgs[n].role = "assistant" /\ msgs[n].mark # "response"
    <2>1. n \in DOMAIN msgs
      BY <1>1, <1>2
    <2>2. UpdateAssistant(msgs, t, says) = Overwrite(msgs, n, t, says)
      BY <1>2 DEF UpdateAssistant, Overwrite
    <2>3. msgs[n].id = NoId => t \in H \/ CopyAbove(msgs, n - 1, t, says)
      BY <1>2
    <2> HIDE DEF n
    <2>4. n = Len(msgs)
      BY DEF n
    <2> QED
      BY <1>2, <2>1, <2>2, <2>3, <2>4, OverwriteOK
  <1>3. CASE ~(n > 0 /\ msgs[n].role = "assistant" /\ msgs[n].mark # "response")
    <2>1. UpdateAssistant(msgs, t, says) = AddMessage(msgs, "assistant", t, says)
      BY <1>3 DEF UpdateAssistant
    <2> QED
      BY <2>1, AddMessageOK
  <1> QED
    BY <1>2, <1>3

LEMMA AppendDevStepOK ==
  ASSUME NEW msgs, NEW H, NEW A, NEW rows, ListOK(msgs, H, A, rows), NEW t \in Turns, t \in A, t \in H
  PROVE  LET new == AppendDevStep(msgs, t) IN ListOK(new, H, A, rows) /\ Keeps(msgs, new)
  <1>1. "step" \in Marks /\ "label" \in Says
    BY DEF Marks, Says
  <1> QED
    BY <1>1, LocalIs, AppendOK DEF AppendDevStep

LEMMA UpdateDevResponseOK ==
  ASSUME NEW msgs, NEW H, NEW A, NEW rows, ListOK(msgs, H, A, rows), NEW t \in Turns, t \in A, t \in H
  PROVE  LET new == UpdateDevResponse(msgs, t) IN ListOK(new, H, A, rows) /\ Keeps(msgs, new)
  <1> DEFINE S == {i \in DOMAIN msgs : msgs[i].mark = "response"}
             r == ResponseAt(msgs)
  <1>0. "response" \in Marks /\ "answer" \in Says
    BY DEF Marks, Says
  <1>1. msgs \in Seq(Message) /\ Len(msgs) \in Nat /\ DOMAIN msgs = 1 .. Len(msgs)
    BY DEF ListOK
  <1>2. S \in SUBSET (1 .. Len(msgs))
    BY <1>1
  <1>3. r = 0 \/ r \in S
    BY <1>1, <1>2, LastIs DEF ResponseAt
  <1>4. CASE r = 0
    BY <1>0, <1>4, LocalIs, AppendOK DEF UpdateDevResponse
  <1>5. CASE r # 0
    <2>1. r \in DOMAIN msgs /\ msgs[r].mark = "response"
      BY <1>3, <1>5
    <2>2. msgs[r].role = "assistant"
      <3>1. MessageOK(msgs, r, H, A, rows) /\ msgs[r] \in Message
        BY <1>1, <2>1 DEF ListOK
      <3> QED
        BY <2>1, <3>1 DEF MessageOK, Message
    <2>3. UpdateDevResponse(msgs, t) = Overwrite(msgs, r, t, "answer")
      BY <1>5 DEF UpdateDevResponse, Overwrite
    <2> HIDE DEF r
    <2> QED
      BY <1>0, <2>1, <2>2, <2>3, OverwriteOK
  <1> QED
    BY <1>4, <1>5

LEMMA NoteTimeOK ==
  ASSUME NEW msgs, NEW H, NEW A, NEW rows, ListOK(msgs, H, A, rows)
  PROVE  ListOK(NoteTime(msgs), H, A, rows) /\ Keeps(msgs, NoteTime(msgs))
  <1> DEFINE S == {k \in DOMAIN msgs : msgs[k].role = "assistant" /\ msgs[k].mark # "step"}
             i == Last(S)
             n == Len(msgs)
  <1>1. msgs \in Seq(Message) /\ n \in Nat /\ DOMAIN msgs = 1 .. n
    BY DEF ListOK
  <1>2. S \in SUBSET (1 .. n)
    BY <1>1
  <1>3. i = 0 \/ i \in S
    BY <1>1, <1>2, LastIs
  <1>4. NoteTime(msgs) = IF i = 0 \/ msgs[i].mark = "response" THEN msgs
                         ELSE UpdateAssistant(msgs, msgs[i].turn, msgs[i].says)
    BY DEF NoteTime
  <1>5. CASE i = 0 \/ msgs[i].mark = "response"
    BY <1>1, <1>4, <1>5 DEF Keeps
  <1>6. CASE ~(i = 0 \/ msgs[i].mark = "response")
    <2>1. i \in 1 .. n /\ msgs[i].role = "assistant" /\ msgs[i] \in Message
      BY <1>1, <1>3, <1>6
    <2>2. msgs[i].mark = "plain" /\ msgs[i].turn \in Turns /\ msgs[i].says \in Says
      BY <1>3, <1>6, <2>1 DEF Message, Marks
    <2> HIDE DEF i, S, n
    <2>3. MessageOK(msgs, i, H, A, rows)
      BY <1>1, <2>1 DEF ListOK
    <2>4. msgs[i].says # "question" /\ msgs[i].turn \in A
      BY <2>1, <2>3 DEF MessageOK
    <2>5. msgs[i].turn \in H \/ CopyAbove(msgs, i, msgs[i].turn, msgs[i].says)
      <3>1. CASE msgs[i].id = NoId
        <4>1. \A k \in 1 .. i - 1 : k \in 1 .. i
          BY <2>1
        <4> QED
          BY <2>3, <3>1, <4>1 DEF MessageOK, CopyAbove
      <3>2. CASE msgs[i].id # NoId
        <4>1. i \in 1 .. i
          BY <2>1
        <4> QED
          BY <2>2, <3>2, <4>1 DEF CopyAbove
      <3> QED
        BY <3>1, <3>2
    <2>6. msgs[i].turn \in H \/ CopyAbove(msgs, n, msgs[i].turn, msgs[i].says)
      <3>1. \A k \in 1 .. i : k \in 1 .. n
        BY <1>1, <2>1
      <3> QED
        BY <2>5, <3>1 DEF CopyAbove
    <2>7. \/ msgs[i].turn \in H
          \/ CopyAbove(msgs, n - 1, msgs[i].turn, msgs[i].says)
          \/ msgs[n].id # NoId
      <3>1. CASE i = n
        BY <2>3, <3>1 DEF MessageOK
      <3>2. CASE i # n
        <4>1. \A k \in 1 .. i : k \in 1 .. n - 1
          BY <1>1, <2>1, <3>2
        <4> QED
          BY <2>5, <4>1 DEF CopyAbove
      <3> QED
        BY <3>1, <3>2
    <2> DEFINE u == msgs[i].turn
               v == msgs[i].says
    <2>8. u \in Turns /\ v \in Says /\ v # "question" /\ u \in A /\ NoteTime(msgs) = UpdateAssistant(msgs, u, v)
      BY <1>4, <1>6, <2>2, <2>4
    <2>9. /\ u \in H \/ CopyAbove(msgs, Len(msgs), u, v)
          /\ u \in H \/ CopyAbove(msgs, Len(msgs) - 1, u, v) \/ msgs[Len(msgs)].id # NoId
      BY <2>6, <2>7 DEF n
    <2> HIDE DEF u, v
    <2> QED
      BY <2>8, <2>9, UpdateAssistantOK
  <1> QED
    BY <1>5, <1>6

\* What is fetched are copies of rows, and so is what a merge leaves.
FetchedRows(got, A, rows) ==
  /\ got \in Seq(Row)
  /\ \A i \in DOMAIN got : /\ got[i].turn \in A
                           /\ got[i].id \in DOMAIN rows /\ got[i].role = rows[got[i].id].role

Copies(msgs) == \A i \in DOMAIN msgs : msgs[i].id # NoId

LEMMA FetchedMono ==
  ASSUME NEW got, NEW A, NEW rows, FetchedRows(got, A, rows), NEW A2, NEW rows2, A \subseteq A2,
         DOMAIN rows \subseteq DOMAIN rows2, \A i \in DOMAIN rows : rows2[i] = rows[i]
  PROVE  FetchedRows(got, A2, rows2)
  BY DEF FetchedRows

LEMMA FetchedOK ==
  ASSUME NEW got, NEW H, NEW A, NEW rows, FetchedRows(got, A, rows)
  PROVE  ListOK(Fetched(got), H, A, rows) /\ Copies(Fetched(got))
  <1> DEFINE n == Len(got)
             message(i) == [role |-> IF got[i].role = "user" THEN "user" ELSE "assistant",
                            turn |-> got[i].turn,
                            says |-> CASE got[i].role = "user" -> "question"
                                       [] got[i].role = "assistant" -> "answer"
                                       [] OTHER -> "error",
                            mark |-> "plain", id |-> got[i].id]
             new == Fetched(got)
  <1>1. n \in Nat /\ DOMAIN got = 1 .. n /\ \A i \in 1 .. n : got[i] \in Row
    BY DEF FetchedRows
  <1>2. ASSUME NEW i \in 1 .. n
        PROVE  /\ message(i) \in Message /\ message(i).id # NoId /\ message(i).mark = "plain"
               /\ message(i).id = got[i].id /\ message(i).turn = got[i].turn /\ message(i).role = Speaker(got[i].role)
               /\ message(i).says = "question" => message(i).role = "user"
    <2>1. got[i] \in Row
      BY <1>1
    <2>2. got[i].role \in {"user", "assistant", "error"} /\ got[i].turn \in Turns /\ got[i].id \in Nat /\ got[i].id # NoId
      BY <2>1 DEF Row
    <2> QED
      BY <2>2 DEF Message, Says, Marks, Speaker
  <1>3. new = [i \in 1 .. n |-> message(i)]
    BY <1>1 DEF Fetched
  <1> HIDE DEF message, n, new
  <1>4. new \in [1 .. n -> Message]
    BY <1>2, <1>3
  <1>5. new \in Seq(Message) /\ DOMAIN new = 1 .. n
    BY <1>1, <1>4, SeqIs
  <1>6. \A i \in 1 .. n : MessageOK(new, i, H, A, rows)
    BY <1>1, <1>2, <1>3 DEF MessageOK, FetchedRows
  <1>7. Copies(new)
    BY <1>2, <1>3, <1>5 DEF Copies
  <1> QED
    BY <1>5, <1>6, <1>7 DEF ListOK, new

LEMMA CounterpartIs ==
  ASSUME NEW stored \in Seq(Message), NEW local \in Seq(Message), NEW i \in DOMAIN stored,
         Counterpart(stored, local, i) # 0
  PROVE  LET k == Counterpart(stored, local, i)
         IN  /\ k \in DOMAIN local
             /\ local[k].role = stored[i].role \/ (local[k].id # NoId /\ local[k].id = stored[i].id)
  <1> DEFINE S == {k \in DOMAIN local : local[k].id # NoId /\ local[k].id = stored[i].id}
  <1>1. CASE i \in DOMAIN local /\ local[i].role = stored[i].role
    BY <1>1 DEF Counterpart
  <1>2. CASE ~(i \in DOMAIN local /\ local[i].role = stored[i].role)
    <2>1. S # {} /\ Counterpart(stored, local, i) = CHOOSE k \in S : \A l \in S : k <= l
      BY <1>2 DEF Counterpart
    <2>2. Len(local) \in Nat /\ S \in SUBSET (1 .. Len(local))
      BY SeqIs
    <2>3. \E k \in S : \A l \in S : k <= l
      BY <2>1, <2>2, FirstIs
    <2>4. Counterpart(stored, local, i) \in S
      BY <2>1, <2>3
    <2> QED
      BY <2>4
  <1> QED
    BY <1>1, <1>2

LEMMA MergeOK ==
  ASSUME NEW stored, NEW local, NEW H, NEW A, NEW rows,
         ListOK(stored, H, A, rows), Copies(stored), ListOK(local, H, A, rows)
  PROVE  ListOK(MergeLocalExtras(stored, local), H, A, rows)
  <1> DEFINE n == Len(stored)
             merged(i) == LET k == Counterpart(stored, local, i)
                          IN  IF k = 0 THEN stored[i] ELSE Pair(stored[i], local[k])
             new == MergeLocalExtras(stored, local)
  <1>1. /\ n \in Nat /\ DOMAIN stored = 1 .. n /\ stored \in Seq(Message) /\ local \in Seq(Message)
        /\ \A i \in 1 .. n : stored[i] \in Message
    BY DEF ListOK
  <1>2. CASE stored = <<>> \/ local = <<>>
    BY <1>2 DEF MergeLocalExtras
  <1>3. CASE ~(stored = <<>> \/ local = <<>>)
    <2>1. new = [i \in 1 .. n |-> merged(i)]
      BY <1>1, <1>3 DEF MergeLocalExtras
    <2>2. ASSUME NEW i \in 1 .. n
          PROVE  /\ merged(i) \in Message /\ merged(i).role = stored[i].role /\ merged(i).turn = stored[i].turn
                 /\ merged(i).says = stored[i].says /\ merged(i).id = stored[i].id
                 /\ merged(i).role = "user" => merged(i).mark = "plain"
      <3> DEFINE k == Counterpart(stored, local, i)
      <3>1. MessageOK(stored, i, H, A, rows) /\ stored[i] \in Message /\ stored[i].id # NoId
        BY <1>1 DEF ListOK, Copies
      <3>2. CASE k = 0
        BY <3>1, <3>2 DEF MessageOK
      <3>3. CASE k # 0
        <4>1. /\ k \in DOMAIN local
              /\ local[k].role = stored[i].role \/ (local[k].id # NoId /\ local[k].id = stored[i].id)
          BY <1>1, <3>3, CounterpartIs
        <4>2. merged(i) = Pair(stored[i], local[k])
          BY <3>3
        <4> HIDE DEF k, merged
        <4>3. MessageOK(local, k, H, A, rows) /\ local[k] \in Message
          BY <1>1, <4>1 DEF ListOK
        <4>4. local[k].role = stored[i].role
          BY <3>1, <4>1, <4>3 DEF MessageOK
        <4>5. local[k].role = "user" => local[k].mark = "plain"
          BY <4>3 DEF MessageOK
        <4>6. LET p == Pair(stored[i], local[k])
              IN  /\ p \in Message /\ p.role = stored[i].role /\ p.turn = stored[i].turn
                  /\ p.says = stored[i].says /\ p.id = stored[i].id /\ p.mark = local[k].mark
          BY <3>1, <4>3 DEF Pair, Message
        <4> QED
          BY <4>2, <4>4, <4>5, <4>6
      <3> QED
        BY <3>2, <3>3
    <2> HIDE DEF merged, n, new
    <2>3. new \in [1 .. n -> Message]
      BY <2>1, <2>2
    <2>4. new \in Seq(Message) /\ DOMAIN new = 1 .. n
      BY <1>1, <2>3, SeqIs
    <2>5. \A i \in 1 .. n : MessageOK(stored, i, H, A, rows) /\ stored[i].id # NoId
      BY <1>1 DEF ListOK, Copies
    <2>6. ASSUME NEW i \in 1 .. n PROVE MessageOK(new, i, H, A, rows)
      <3>1. new[i] = merged(i)
        BY <2>1
      <3> QED
        BY <2>2, <2>5, <3>1 DEF MessageOK
    <2> QED
      BY <2>4, <2>6 DEF ListOK, new
  <1> QED
    BY <1>2, <1>3

-----------------------------------------------------------------------------
(* The invariant of the lists and of what is fetched.                      *)

Chat == [session : Sessions \cup {None}, msgs : Seq(Message)]
TurnRec == [pc : TurnPc, chat : Chats, session : Sessions \cup {None},
            files : BOOLEAN, lines : 0 .. MaxLines, try : {1, 2}]
OpenRec == [pc : {"idle", "session", "set", "get", "merge"},
            session : Sessions \cup {None}, chat : Chats, got : Seq(Row)]
SyncRec == [pc : {"start", "get", "merge", "done"}, todo : SUBSET Sessions,
            session : Sessions \cup {None}, got : Seq(Row)]
TableRow == [session : Sessions, role : {"user", "assistant", "error"}, turn : Turns]

ChatType == chats \in Seq(Chat) /\ shown \in DOMAIN chats /\ Len(chats) <= MaxChats
TurnType == turn \in [Turns -> TurnRec]
FetchType == open \in [Chats -> OpenRec] /\ sync \in SyncRec
ServerType ==
  /\ table \in Seq(TableRow) /\ created \subseteq Sessions /\ gone \subseteq Handlers
  /\ server \in [Handlers -> HandlerPc] /\ sending \in BOOLEAN

\* What steps refer to is there.
PlaceInv ==
  /\ \A c \in Chats : open[c].chat \in DOMAIN chats
  /\ \A t \in Turns : turn[t].chat \in DOMAIN chats

FetchPc == {"get", "merge"}

\* A session that is used exists on the server.
SessionInv ==
  /\ \A c \in DOMAIN chats : chats[c].session \in created \cup {None}
  /\ \A c \in Chats : /\ open[c].pc = "set" => open[c].session \in created
                      /\ open[c].pc \in FetchPc => chats[open[c].chat].session # None
  /\ sync.pc \in FetchPc => sync.session \in created /\ sync.todo \subseteq created
  /\ \A t \in Turns : /\ turn[t].session \in created \cup {None}
                      /\ turn[t].pc \in {"set", "post", "stream"} => turn[t].session # None
  /\ \A h \in Handlers : server[h] # "none" => turn[h[1]].session # None
  /\ \A i \in DOMAIN table : table[i].session \in created

\* Lists, and rows on their way to them.
Asked == {t \in Turns : turn[t].pc \notin {"idle", "files"}}
HomeOf(c) == {t \in Asked : turn[t].chat = c \/ t \in moved}

ListInv == \A c \in DOMAIN chats : ListOK(chats[c].msgs, HomeOf(c), Asked, table)
FetchInv ==
  /\ \A c \in Chats : FetchedRows(open[c].got, Asked, table)
  /\ FetchedRows(sync.got, Asked, table)

\* A turn that is under way and has not seen the pane change is where the pane is.
HomeInv == \A t \in Turns : Busy(t) /\ t \notin moved => turn[t].chat = shown

\* A conversation is safe from merges if no history is fetched for its session and no
\* other conversation has the session (so that none will be fetched while it has
\* messages).
Has(c, t) == \E i \in DOMAIN chats[c].msgs : chats[c].msgs[i].turn = t /\ chats[c].msgs[i].says = "question"
Wanted(s) ==
  \/ sync.pc \in FetchPc /\ sync.session = s
  \/ \E c \in Chats : open[c].pc \in FetchPc /\ chats[open[c].chat].session = s
Safe(c) ==
  chats[c].session # None => /\ \A d \in DOMAIN chats : chats[d].session = chats[c].session => d = c
                             /\ ~Wanted(chats[c].session)

KeptInv == \A t \in Turns : Sent(t) /\ t \notin raced => \E c \in DOMAIN chats : Has(c, t) /\ Safe(c)

RefInv == ChatType /\ TurnType /\ FetchType /\ ServerType /\ PlaceInv /\ SessionInv
EditInv == RefInv /\ ListInv /\ FetchInv /\ HomeInv /\ KeptInv

LEMMA ChatsAre ==
  ASSUME ChatType
  PROVE  /\ Len(chats) \in Nat /\ Len(chats) \in 1 .. MaxChats /\ DOMAIN chats = 1 .. Len(chats)
         /\ chats \in [1 .. Len(chats) -> Chat] /\ DOMAIN chats \subseteq Chats
         /\ \A c \in DOMAIN chats : /\ chats[c] \in Chat /\ chats[c].msgs \in Seq(Message)
                                    /\ chats[c].session \in Sessions \cup {None}
  <1>1. Len(chats) \in Nat /\ DOMAIN chats = 1 .. Len(chats) /\ chats \in [1 .. Len(chats) -> Chat]
    BY SeqIs DEF ChatType
  <1>2. Len(chats) \in 1 .. MaxChats
    BY <1>1, ChatConstants DEF ChatType
  <1>3. \A c \in DOMAIN chats : c \in Chats
    BY <1>1, <1>2, ChatConstants DEF Chats
  <1>4. \A c \in DOMAIN chats : chats[c] \in Chat
    BY <1>1
  <1> QED
    BY <1>1, <1>2, <1>3, <1>4 DEF Chat

\* One list is written, or one session is set.
LEMMA UpdateIs ==
  ASSUME ChatType, NEW c \in DOMAIN chats, NEW m \in Seq(Message), Update(c, m)
  PROVE  /\ chats' \in Seq(Chat) /\ DOMAIN chats' = DOMAIN chats /\ Len(chats') = Len(chats)
         /\ chats'[c].msgs = m /\ chats'[c].session = chats[c].session
         /\ \A d \in DOMAIN chats : d # c => chats'[d] = chats[d]
  <1> DEFINE n == Len(chats)
             r == [chats[c] EXCEPT !.msgs = m]
  <1>1. n \in Nat /\ DOMAIN chats = 1 .. n /\ chats \in [1 .. n -> Chat] /\ chats[c] \in Chat
    BY ChatsAre
  <1>2. r \in Chat /\ r.msgs = m /\ r.session = chats[c].session
    BY <1>1 DEF Chat
  <1>3. chats' = [chats EXCEPT ![c] = r]
    BY DEF Update
  <1> HIDE DEF n, r
  <1>4. chats' \in [1 .. n -> Chat] /\ chats'[c] = r /\ \A d \in DOMAIN chats : d # c => chats'[d] = chats[d]
    BY <1>1, <1>2, <1>3
  <1>5. chats' \in Seq(Chat) /\ Len(chats') = n
    BY <1>1, <1>4, SeqIs
  <1> QED
    BY <1>1, <1>2, <1>4, <1>5 DEF n

LEMMA SetSessionIs ==
  ASSUME ChatType, NEW c \in DOMAIN chats, NEW s \in Sessions, chats' = [chats EXCEPT ![c].session = s]
  PROVE  /\ chats' \in Seq(Chat) /\ DOMAIN chats' = DOMAIN chats /\ Len(chats') = Len(chats)
         /\ chats'[c].msgs = chats[c].msgs /\ chats'[c].session = s
         /\ \A d \in DOMAIN chats : d # c => chats'[d] = chats[d]
  <1> DEFINE n == Len(chats)
             r == [chats[c] EXCEPT !.session = s]
  <1>1. n \in Nat /\ DOMAIN chats = 1 .. n /\ chats \in [1 .. n -> Chat] /\ chats[c] \in Chat
    BY ChatsAre
  <1>2. r \in Chat /\ r.msgs = chats[c].msgs /\ r.session = s
    BY <1>1 DEF Chat
  <1>3. chats' = [chats EXCEPT ![c] = r]
    OBVIOUS
  <1> HIDE DEF n, r
  <1>4. chats' \in [1 .. n -> Chat] /\ chats'[c] = r /\ \A d \in DOMAIN chats : d # c => chats'[d] = chats[d]
    BY <1>1, <1>2, <1>3
  <1>5. chats' \in Seq(Chat) /\ Len(chats') = n
    BY <1>1, <1>4, SeqIs
  <1> QED
    BY <1>1, <1>2, <1>4, <1>5 DEF n

LEMMA NewChatIs ==
  ASSUME ChatType, NEW r \in Chat, chats' = Append(chats, r)
  PROVE  /\ chats' \in Seq(Chat) /\ Len(chats') = Len(chats) + 1 /\ DOMAIN chats' = 1 .. Len(chats) + 1
         /\ chats'[Len(chats) + 1] = r
         /\ \A d \in DOMAIN chats : d \in DOMAIN chats' /\ chats'[d] = chats[d]
  <1>1. chats \in Seq(Chat) /\ Len(chats) \in Nat /\ DOMAIN chats = 1 .. Len(chats)
    BY ChatsAre DEF ChatType
  <1> QED
    BY <1>1

\* Time only adds: turns that were sent, rows, conversations that were left.
Forward ==
  /\ Asked \subseteq Asked' /\ moved \subseteq moved'
  /\ \A t \in Asked : turn'[t].chat = turn[t].chat
  /\ DOMAIN table \subseteq DOMAIN table' /\ \A i \in DOMAIN table : table'[i] = table[i]

LEMMA ListsKept ==
  ASSUME ListInv, Forward, NEW c \in DOMAIN chats
  PROVE  ListOK(chats[c].msgs, HomeOf(c)', Asked', table')
  <1>1. HomeOf(c) \subseteq HomeOf(c)'
    BY DEF HomeOf, Forward
  <1>2. ListOK(chats[c].msgs, HomeOf(c), Asked, table)
    BY DEF ListInv
  <1> QED
    BY <1>1, <1>2, ListMono DEF Forward

LEMMA FetchedKept ==
  ASSUME FetchInv, Forward
  PROVE  /\ \A c \in Chats : FetchedRows(open[c].got, Asked', table')
         /\ FetchedRows(sync.got, Asked', table')
  BY FetchedMono DEF FetchInv, Forward

LEMMA SafeStays ==
  ASSUME NEW c \in DOMAIN chats, Safe(c), c \in DOMAIN chats', chats'[c].session = chats[c].session,
         \A d \in DOMAIN chats' : chats'[d].session = chats[c].session /\ chats[c].session # None =>
            d \in DOMAIN chats /\ chats[d].session = chats[c].session,
         \A s : s = chats[c].session /\ s # None /\ Wanted(s)' => Wanted(s)
  PROVE  Safe(c)'
  <1>1. PICK s : s = chats[c].session
    OBVIOUS
  <1>2. s # None => ~Wanted(s)'
    BY <1>1 DEF Safe
  <1>3. s # None => \A d \in DOMAIN chats' : chats'[d].session = s => d = c
    BY <1>1 DEF Safe
  <1>4. chats'[c].session = s
    BY <1>1
  <1> HIDE <1>1
  <1>5. (s # None => (\A d \in DOMAIN chats : chats[d].session = s => d = c) /\ ~Wanted(s))'
    BY <1>2, <1>3
  <1> QED
    BY <1>4, <1>5 DEF Safe

-----------------------------------------------------------------------------
(* The steps of sendMessage and the lists.                                 *)

\* What the stream of turn t, or the end of the turn, makes of a list.
WrittenBy(t, msgs) ==
  {AddMessage(msgs, "assistant", t, "error"), UpdateAssistant(msgs, t, "label"), UpdateAssistant(msgs, t, "error"),
   AppendDevStep(msgs, t), UpdateDevResponse(msgs, t)}

LEMMA WritesOK ==
  ASSUME NEW msgs, NEW H, NEW A, NEW rows, ListOK(msgs, H, A, rows), NEW t \in Turns, t \in A, t \in H,
         NEW new \in WrittenBy(t, msgs)
  PROVE  /\ ListOK(new, H, A, rows) /\ Keeps(msgs, new)
         /\ ListOK(NoteTime(new), H, A, rows) /\ Keeps(msgs, NoteTime(new))
  <1>0. "error" \in Says /\ "label" \in Says
    BY DEF Says
  <1>1. CASE new = AddMessage(msgs, "assistant", t, "error")
    BY <1>0, <1>1, AddMessageOK, NoteTimeOK, KeepsTrans
  <1>2. CASE new = UpdateAssistant(msgs, t, "label")
    BY <1>0, <1>2, UpdateAssistantOK, NoteTimeOK, KeepsTrans
  <1>3. CASE new = UpdateAssistant(msgs, t, "error")
    BY <1>0, <1>3, UpdateAssistantOK, NoteTimeOK, KeepsTrans
  <1>4. CASE new = AppendDevStep(msgs, t)
    BY <1>4, AppendDevStepOK, NoteTimeOK, KeepsTrans
  <1>5. CASE new = UpdateDevResponse(msgs, t)
    BY <1>5, UpdateDevResponseOK, NoteTimeOK, KeepsTrans
  <1> QED
    BY <1>1, <1>2, <1>3, <1>4, <1>5 DEF WrittenBy

LEMMA TurnIs ==
  ASSUME TurnType, NEW t \in Turns, NEW r \in TurnRec, turn' = [turn EXCEPT ![t] = r]
  PROVE  /\ turn' \in [Turns -> TurnRec] /\ turn'[t] = r
         /\ \A u \in Turns : u # t => turn'[u] = turn[u]
  BY DEF TurnType

LEMMA NoneIsNot == ASSUME ServerType PROVE None \notin created /\ None \notin Sessions
  BY ChatConstants DEF ServerType

\* Handlers are called for a turn that has its session, and the session stays.
Called(t, s) ==
  \A h \in Handlers : server'[h] # "none" =>
     \/ server[h] # "none" /\ (h[1] = t => s = turn[t].session)
     \/ h[1] = t /\ s # None

\* What a step of turn t has to respect.
LEMMA RefTurn ==
  ASSUME RefInv, NEW t \in Turns, NEW r \in TurnRec, turn' = [turn EXCEPT ![t] = r],
         chats' \in Seq(Chat), DOMAIN chats' = DOMAIN chats, Len(chats') = Len(chats), shown' = shown,
         \A c \in DOMAIN chats : chats'[c].session = chats[c].session \/ chats'[c].session \in created,
         open' = open, sync' = sync, table' = table,
         created \subseteq created', created' \subseteq Sessions, gone' \subseteq Handlers, sending' \in BOOLEAN,
         server' \in [Handlers -> HandlerPc],
         r.chat \in DOMAIN chats, r.session \in created' \cup {None},
         r.pc \in {"set", "post", "stream"} => r.session # None,
         Called(t, r.session)
  PROVE  RefInv'
  <1>0. ChatType /\ TurnType /\ FetchType /\ ServerType /\ PlaceInv /\ SessionInv
    BY DEF RefInv
  <1>1. turn' \in [Turns -> TurnRec] /\ turn'[t] = r /\ \A u \in Turns : u # t => turn'[u] = turn[u]
    BY <1>0, TurnIs
  <1>2. ChatType' /\ TurnType' /\ FetchType' /\ ServerType'
    BY <1>0, <1>1 DEF ChatType, TurnType, FetchType, ServerType
  <1>3. PlaceInv'
    <2>1. \A u \in Turns : turn'[u].chat \in DOMAIN chats
      BY <1>0, <1>1 DEF PlaceInv
    <2> QED
      BY <1>0, <2>1 DEF PlaceInv
  <1>4. SessionInv'
    <2>0. None \notin created /\ None \notin created'
      BY <1>0, NoneIsNot
    <2>1. \A c \in DOMAIN chats' : chats'[c].session \in created' \cup {None}
      BY <1>0 DEF SessionInv
    <2>2. \A c \in Chats : open[c].pc \in FetchPc => chats'[open[c].chat].session # None
      BY <1>0, <2>0 DEF SessionInv, PlaceInv
    <2>3. \A u \in Turns : /\ turn'[u].session \in created' \cup {None}
                           /\ turn'[u].pc \in {"set", "post", "stream"} => turn'[u].session # None
      BY <1>0, <1>1 DEF SessionInv
    <2>4. ASSUME NEW h \in Handlers, server'[h] # "none" PROVE turn'[h[1]].session # None
      <3>1. h[1] \in Turns
        BY HandlersAre
      <3> QED
        BY <1>0, <1>1, <2>4, <3>1 DEF SessionInv, Called
    <2>5. \A c \in Chats : open[c].pc = "set" => open[c].session \in created'
      BY <1>0 DEF SessionInv
    <2>6. sync.pc \in FetchPc => sync.session \in created' /\ sync.todo \subseteq created'
      BY <1>0 DEF SessionInv
    <2>7. \A i \in DOMAIN table : table[i].session \in created'
      BY <1>0 DEF SessionInv
    <2> QED
      BY <2>1, <2>2, <2>3, <2>4, <2>5, <2>6, <2>7 DEF SessionInv
  <1> QED
    BY <1>2, <1>3, <1>4 DEF RefInv

LEMMA ForwardTurn ==
  ASSUME TurnType, NEW t \in Turns, NEW r \in TurnRec, turn' = [turn EXCEPT ![t] = r], moved' = moved, table' = table,
         r.pc \notin {"idle", "files"} \/ turn[t].pc \in {"idle", "files"},
         r.chat = turn[t].chat \/ turn[t].pc \in {"idle", "files"}
  PROVE  /\ Forward
         /\ r.pc \notin {"idle", "files"} => t \in Asked' /\ \A c : r.chat = c \/ t \in moved => t \in HomeOf(c)'
  <1>1. turn'[t] = r /\ \A u \in Turns : u # t => turn'[u] = turn[u]
    BY TurnIs
  <1>2. Asked \subseteq Asked'
    BY <1>1 DEF Asked
  <1>3. \A u \in Asked : turn'[u].chat = turn[u].chat
    BY <1>1 DEF Asked
  <1> QED
    BY <1>1, <1>2, <1>3 DEF Forward, HomeOf, Asked

LEMMA ListsTurn ==
  ASSUME RefInv, ListInv, FetchInv, HomeInv, NEW t \in Turns, NEW r \in TurnRec, turn' = [turn EXCEPT ![t] = r],
         Forward, open' = open, sync' = sync, shown' = shown, moved' = moved, DOMAIN chats' = DOMAIN chats,
         \A c \in DOMAIN chats : \/ chats'[c].msgs = chats[c].msgs
                                 \/ ListOK(chats'[c].msgs, HomeOf(c)', Asked', table'),
         r.pc \in {"idle", "unread", "over"} \/ t \in moved \/ r.chat = shown
  PROVE  ListInv' /\ FetchInv' /\ HomeInv'
  <1>0. TurnType
    BY DEF RefInv
  <1>1. turn'[t] = r /\ \A u \in Turns : u # t => turn'[u] = turn[u]
    BY <1>0, TurnIs
  <1>2. \A c \in DOMAIN chats : ListOK(chats[c].msgs, HomeOf(c)', Asked', table')
    BY ListsKept
  <1>3. \A c \in DOMAIN chats' : ListOK(chats'[c].msgs, HomeOf(c)', Asked', table')
    BY <1>2
  <1>4. ListInv'
    BY <1>3 DEF ListInv
  <1>5. FetchInv'
    BY FetchedKept DEF FetchInv
  <1>6. HomeInv'
    BY <1>1 DEF HomeInv, Busy
  <1> QED
    BY <1>4, <1>5, <1>6

\* Nothing is fetched that was not fetched before.
LEMMA KeptTurn ==
  ASSUME KeptInv, PlaceInv, DOMAIN chats' = DOMAIN chats, open' = open, sync' = sync, raced \subseteq raced',
         \A c \in DOMAIN chats : chats'[c].session = chats[c].session /\ Keeps(chats[c].msgs, chats'[c].msgs),
         \A u \in Turns : Sent(u)' /\ u \notin raced' =>
            Sent(u) \/ \E c \in DOMAIN chats : Has(c, u)' /\ Safe(c)
  PROVE  KeptInv'
  <1>1. \A c \in DOMAIN chats : Safe(c) => Safe(c)'
    <2> SUFFICES ASSUME NEW c \in DOMAIN chats, Safe(c) PROVE Safe(c)'
      OBVIOUS
    <2>1. \A s : Wanted(s)' => Wanted(s)
      BY DEF Wanted, PlaceInv
    <2>2. \A d \in DOMAIN chats' : d \in DOMAIN chats /\ chats'[d].session = chats[d].session
      OBVIOUS
    <2> QED
      BY <2>1, <2>2, SafeStays
  <1>2. \A c \in DOMAIN chats : \A u \in Turns : Has(c, u) => Has(c, u)'
    BY DEF Has, Keeps
  <1> SUFFICES ASSUME NEW u \in Turns, Sent(u)', u \notin raced'
               PROVE  (\E c \in DOMAIN chats : Has(c, u) /\ Safe(c))'
    BY DEF KeptInv
  <1>3. \E c \in DOMAIN chats : Has(c, u)' /\ Safe(c)
    BY <1>2 DEF KeptInv
  <1> QED
    BY <1>1, <1>3

\* A turn under way writes to the conversation shown.
LEMMA ShownWritten ==
  ASSUME EditInv, NEW t \in Turns, Busy(t), NEW r \in TurnRec, turn' = [turn EXCEPT ![t] = r],
         r.chat = turn[t].chat, r.session = turn[t].session,
         r.pc = "unread" \/ (Sent(t) /\ r.pc = "over") \/ (r.pc = "stream" /\ turn[t].pc = "stream"),
         NEW new \in WrittenBy(t, Shown), Update(shown, new) \/ Update(shown, NoteTime(new)),
         UNCHANGED <<shown, open, sync, table, moved, raced>>, created \subseteq created', created' \subseteq Sessions,
         gone' \subseteq Handlers, sending' \in BOOLEAN, server' \in [Handlers -> HandlerPc],
         \A h \in Handlers : server'[h] # "none" => server[h] # "none"
  PROVE  EditInv'
  <1>0. /\ RefInv /\ ListInv /\ FetchInv /\ HomeInv /\ KeptInv
        /\ ChatType /\ TurnType /\ FetchType /\ ServerType /\ PlaceInv /\ SessionInv
    BY DEF EditInv, RefInv
  <1>1. PICK m : (m = new \/ m = NoteTime(new)) /\ Update(shown, m)
    OBVIOUS
  <1>2. r.pc \notin {"idle", "files"} /\ turn[t].pc # "idle" /\ turn[t].pc # "unread"
    BY DEF Busy
  <1>3. Forward /\ t \in Asked' /\ (turn[t].chat = shown \/ t \in moved => t \in HomeOf(shown)')
    BY <1>0, <1>2, ForwardTurn
  <1>4. turn[t].chat = shown \/ t \in moved
    BY <1>0 DEF HomeInv
  <1>5. ListOK(Shown, HomeOf(shown)', Asked', table')
    BY <1>0, <1>3, ListsKept DEF Shown, ChatType
  <1>6. ListOK(m, HomeOf(shown)', Asked', table') /\ Keeps(Shown, m)
    BY <1>1, <1>3, <1>4, <1>5, WritesOK
  <1>7. m \in Seq(Message) /\ shown \in DOMAIN chats
    BY <1>0, <1>6 DEF ListOK, ChatType
  <1>8. /\ chats' \in Seq(Chat) /\ DOMAIN chats' = DOMAIN chats /\ Len(chats') = Len(chats)
        /\ chats'[shown].msgs = m /\ chats'[shown].session = chats[shown].session
        /\ \A d \in DOMAIN chats : d # shown => chats'[d] = chats[d]
    BY <1>0, <1>1, <1>7, UpdateIs
  <1>9. RefInv'
    <2>1. r.chat \in DOMAIN chats /\ r.session \in created' \cup {None}
      BY <1>0 DEF PlaceInv, SessionInv
    <2>2. r.pc \in {"set", "post", "stream"} => r.session # None
      BY <1>0 DEF SessionInv
    <2>3. Called(t, r.session)
      BY DEF Called
    <2>4. \A c \in DOMAIN chats : chats'[c].session = chats[c].session
      BY <1>8
    <2> QED
      BY <1>0, <1>8, <2>1, <2>2, <2>3, <2>4, RefTurn
  <1>10. ListInv' /\ FetchInv' /\ HomeInv'
    <2>1. \A c \in DOMAIN chats : \/ chats'[c].msgs = chats[c].msgs
                                  \/ ListOK(chats'[c].msgs, HomeOf(c)', Asked', table')
      BY <1>6, <1>8
    <2> QED
      BY <1>0, <1>3, <1>4, <1>8, <2>1, ListsTurn
  <1>11. KeptInv'
    <2>1. \A c \in DOMAIN chats : chats'[c].session = chats[c].session /\ Keeps(chats[c].msgs, chats'[c].msgs)
      BY <1>6, <1>8 DEF Keeps, Shown
    <2>2. \A u \in Turns : Sent(u)' => Sent(u)
      BY <1>0, TurnIs DEF Sent
    <2> QED
      BY <1>0, <1>8, <2>1, <2>2, KeptTurn
  <1> QED
    BY <1>9, <1>10, <1>11 DEF EditInv

\* Steps of a turn that write no list.
LEMMA Unwritten ==
  ASSUME EditInv, NEW t \in Turns, NEW r \in TurnRec, turn' = [turn EXCEPT ![t] = r],
         \/ turn[t].pc = "idle" /\ r.pc = "files" /\ r.chat = shown
         \/ Sent(t) /\ Busy(t) /\ r.chat = turn[t].chat /\ r.pc \notin {"idle", "files", "unread"},
         UNCHANGED <<chats, shown, open, sync, table, moved, raced>>,
         created \subseteq created', created' \subseteq Sessions,
         gone' \subseteq Handlers, sending' \in BOOLEAN, server' \in [Handlers -> HandlerPc],
         r.session \in created' \cup {None},
         r.pc \in {"set", "post", "stream"} => r.session # None,
         Called(t, r.session)
  PROVE  EditInv'
  <1>0. /\ RefInv /\ ListInv /\ FetchInv /\ HomeInv /\ KeptInv
        /\ ChatType /\ TurnType /\ FetchType /\ ServerType /\ PlaceInv /\ SessionInv
    BY DEF EditInv, RefInv
  <1>1. r.pc \notin {"idle", "files"} \/ turn[t].pc \in {"idle", "files"}
    BY DEF Sent
  <1>2. Forward
    BY <1>0, <1>1, ForwardTurn
  <1>3. RefInv'
    <2>1. r.chat \in DOMAIN chats
      BY <1>0 DEF PlaceInv, ChatType
    <2>2. /\ chats' \in Seq(Chat) /\ DOMAIN chats' = DOMAIN chats /\ Len(chats') = Len(chats)
          /\ \A c \in DOMAIN chats : chats'[c].session = chats[c].session
      BY <1>0 DEF ChatType
    <2>3. shown' = shown /\ open' = open /\ sync' = sync /\ table' = table
      OBVIOUS
    <2> QED
      BY <1>0, <2>1, <2>2, <2>3, RefTurn
  <1>4. ListInv' /\ FetchInv' /\ HomeInv'
    <2>1. r.pc \in {"idle", "unread", "over"} \/ t \in moved \/ r.chat = shown
      BY <1>0 DEF HomeInv
    <2>2. \A c \in DOMAIN chats : chats'[c].msgs = chats[c].msgs
      OBVIOUS
    <2> QED
      BY <1>0, <1>2, <2>1, <2>2, ListsTurn
  <1>5. KeptInv'
    <2>1. \A c \in DOMAIN chats : chats'[c].session = chats[c].session /\ Keeps(chats[c].msgs, chats'[c].msgs)
      BY DEF Keeps
    <2>2. \A u \in Turns : Sent(u)' => Sent(u)
      BY <1>0, TurnIs DEF Sent
    <2> QED
      BY <1>0, <2>1, <2>2, KeptTurn
  <1> QED
    BY <1>3, <1>4, <1>5 DEF EditInv

LEMMA FilesEdit ==
  ASSUME EditInv, NEW t \in Turns, PickFiles(t) \/ FilesFail(t)
  PROVE  EditInv'
  <1>0. RefInv /\ ChatType /\ TurnType /\ ServerType /\ SessionInv /\ turn[t] \in TurnRec /\ shown \in Chats
    BY ChatsAre DEF EditInv, RefInv, TurnType, ChatType
  <1>1. CASE PickFiles(t)
    <2> DEFINE r == [turn[t] EXCEPT !.pc = "files", !.files = TRUE, !.chat = shown]
    <2>1. r \in TurnRec /\ r.pc = "files" /\ r.chat = shown /\ r.session = turn[t].session
      BY <1>0 DEF TurnRec, TurnPc
    <2>2. turn' = [turn EXCEPT ![t] = r] /\ turn[t].pc = "idle"
      BY <1>1 DEF PickFiles
    <2> HIDE DEF r
    <2>3. /\ UNCHANGED <<chats, shown, open, sync, table, moved, raced>>
          /\ created' = created /\ gone' = gone /\ sending' = sending /\ server' = server
      BY <1>1 DEF PickFiles, fetchVars, serverVars
    <2>4. /\ created \subseteq created' /\ created' \subseteq Sessions /\ gone' \subseteq Handlers
          /\ sending' \in BOOLEAN /\ server' \in [Handlers -> HandlerPc]
      BY <1>0, <2>3 DEF ServerType
    <2>5. Called(t, r.session)
      BY <2>1, <2>3 DEF Called
    <2>6. r.session \in created' \cup {None}
      BY <1>0, <2>1, <2>3 DEF SessionInv
    <2> QED
      BY <2>1, <2>2, <2>3, <2>4, <2>5, <2>6, Unwritten
  <1>2. CASE FilesFail(t)
    <2> DEFINE r == [turn[t] EXCEPT !.pc = "unread"]
    <2>1. r \in TurnRec /\ r.pc = "unread" /\ r.chat = turn[t].chat /\ r.session = turn[t].session
      BY <1>0 DEF TurnRec, TurnPc
    <2>2. turn' = [turn EXCEPT ![t] = r] /\ Busy(t)
      BY <1>2 DEF FilesFail, Busy
    <2> HIDE DEF r
    <2>3. UNCHANGED <<shown, open, sync, table, created, moved, raced, gone, sending, server>>
      BY <1>2 DEF FilesFail, fetchVars, serverVars
    <2>4. /\ gone' \subseteq Handlers /\ sending' \in BOOLEAN /\ server' \in [Handlers -> HandlerPc]
          /\ created' \subseteq Sessions
      BY <1>0, <2>3 DEF ServerType
    <2>5. AddMessage(Shown, "assistant", t, "error") \in WrittenBy(t, Shown)
      BY DEF WrittenBy
    <2>6. Update(shown, AddMessage(Shown, "assistant", t, "error"))
      BY <1>2 DEF FilesFail
    <2> QED
      BY <2>1, <2>2, <2>3, <2>4, <2>5, <2>6, ShownWritten
  <1> QED
    BY <1>1, <1>2

\* The end of sendMessage.
LEMMA FinishEdit ==
  ASSUME EditInv, NEW t \in Turns, turn[t].pc \in LivePc, NEW new \in WrittenBy(t, Shown), Finish(t, new),
         UNCHANGED <<shown, open, sync, table, moved, raced>>, created \subseteq created', created' \subseteq Sessions,
         gone' \subseteq Handlers, server' \in [Handlers -> HandlerPc],
         \A h \in Handlers : server'[h] # "none" => server[h] # "none"
  PROVE  EditInv'
  <1> DEFINE r == [turn[t] EXCEPT !.pc = "over"]
  <1>1. turn[t] \in TurnRec
    BY DEF EditInv, RefInv, TurnType
  <1>2. r \in TurnRec /\ r.pc = "over" /\ r.chat = turn[t].chat /\ r.session = turn[t].session
    BY <1>1 DEF TurnRec, TurnPc
  <1>3. turn' = [turn EXCEPT ![t] = r] /\ sending' \in BOOLEAN /\ (Update(shown, new) \/ Update(shown, NoteTime(new)))
    BY DEF Finish
  <1>4. Busy(t) /\ Sent(t)
    BY DEF LivePc, Busy, Sent
  <1> HIDE DEF r
  <1> QED
    BY <1>2, <1>3, <1>4, ShownWritten

LEMMA CatchEdit ==
  ASSUME EditInv, NEW t \in Turns, turn[t].pc \in LivePc, Catch(t),
         UNCHANGED <<shown, open, sync, table, moved, raced, server>>, gone' \subseteq Handlers,
         created \subseteq created', created' \subseteq Sessions
  PROVE  EditInv'
  <1>1. AddMessage(Shown, "assistant", t, "error") \in WrittenBy(t, Shown)
    BY DEF WrittenBy
  <1>2. server' \in [Handlers -> HandlerPc]
    BY DEF EditInv, RefInv, ServerType
  <1>3. Finish(t, AddMessage(Shown, "assistant", t, "error"))
    BY DEF Catch
  <1> QED
    BY <1>1, <1>2, <1>3, FinishEdit

\* The requests of a turn are repeated.
LEMMA AgainEdit ==
  ASSUME EditInv, NEW t \in Turns, NEW p \in {"create", "post"}, Again(t, p),
         turn[t].pc \in {"create", "stream"}, (turn[t].pc = "create") <=> (p = "create"),
         UNCHANGED <<shown, open, sync, table, moved, raced, server>>, gone' \subseteq Handlers,
         created \subseteq created', created' \subseteq Sessions
  PROVE  EditInv'
  <1> DEFINE r == [turn[t] EXCEPT !.pc = p, !.try = 2]
  <1>0. ServerType /\ TurnType /\ SessionInv /\ turn[t] \in TurnRec
    BY DEF EditInv, RefInv, TurnType
  <1>1. r \in TurnRec /\ r.pc = p /\ r.chat = turn[t].chat /\ r.session = turn[t].session
    BY <1>0 DEF TurnRec, TurnPc
  <1>2. turn' = [turn EXCEPT ![t] = r] /\ UNCHANGED <<chats, sending>>
    BY DEF Again
  <1> HIDE DEF r
  <1>3. sending' \in BOOLEAN /\ server' \in [Handlers -> HandlerPc]
    BY <1>0, <1>2 DEF ServerType
  <1>4. Called(t, r.session)
    BY <1>1 DEF Called
  <1>5. r.session \in created' \cup {None} /\ (r.pc \in {"set", "post", "stream"} => r.session # None)
    BY <1>0, <1>1 DEF SessionInv
  <1>6. Sent(t) /\ Busy(t) /\ r.chat = turn[t].chat /\ r.pc \notin {"idle", "files", "unread"}
    BY <1>1 DEF Sent, Busy
  <1> QED
    BY <1>1, <1>2, <1>3, <1>4, <1>5, <1>6, Unwritten

LEMMA StreamEdit ==
  ASSUME ChatInv, EditInv, NEW t \in Turns, Line(t) \/ Done(t) \/ ErrorEvent(t) \/ RequestFails(t) \/ Break(t)
  PROVE  EditInv'
  <1>0. ServerType /\ TurnType /\ SessionInv /\ turn[t] \in TurnRec
    BY DEF EditInv, RefInv, TurnType
  <1>1. turn[t].pc = "stream" /\ turn[t].pc \in LivePc /\ Sent(t) /\ Busy(t)
    BY DEF Line, Done, ErrorEvent, RequestFails, Break, Streams, LivePc, Sent, Busy
  <1>2. Now(t) \in Handlers
    BY NowIs DEF ChatInv
  <1>3. CASE Line(t)
    <2> DEFINE n == turn[t].lines + 1
               r == [turn[t] EXCEPT !.lines = n]
    <2>1. n \in 0 .. MaxLines
      BY <1>0, <1>3, ChatConstants DEF Line, TurnRec
    <2>2. r \in TurnRec /\ r.pc = "stream" /\ r.chat = turn[t].chat /\ r.session = turn[t].session
      BY <1>0, <1>1, <2>1 DEF TurnRec, TurnPc
    <2>3. turn' = [turn EXCEPT ![t] = r]
      BY <1>3 DEF Line
    <2> HIDE DEF r
    <2>4. UNCHANGED <<shown, open, sync, table, created, moved, raced, gone, sending, server>>
      BY <1>3 DEF Line, fetchVars, serverVars
    <2>5. /\ gone' \subseteq Handlers /\ sending' \in BOOLEAN /\ server' \in [Handlers -> HandlerPc]
          /\ created' \subseteq Sessions
      BY <1>0, <2>4 DEF ServerType
    <2>6. \E new \in WrittenBy(t, Shown) : Update(shown, new)
      BY <1>3 DEF Line, WrittenBy
    <2> QED
      BY <1>1, <2>2, <2>3, <2>4, <2>5, <2>6, ShownWritten
  <1>4. CASE Done(t) \/ ErrorEvent(t)
    <2>1. PICK x \in {"save", "fail"} : server' = [server EXCEPT ![Now(t)] = x]
      BY <1>4 DEF Done, ErrorEvent
    <2>2. server[Now(t)] = "stream"
      BY <1>4 DEF Done, ErrorEvent, Streams
    <2>3. server' \in [Handlers -> HandlerPc] /\ \A h \in Handlers : server'[h] # "none" => server[h] # "none"
      BY <1>0, <1>2, <2>1, <2>2 DEF ServerType, HandlerPc
    <2>4. UNCHANGED <<shown, open, sync, table, created, moved, raced, gone>>
      BY <1>4 DEF Done, ErrorEvent, fetchVars
    <2>5. \E new \in WrittenBy(t, Shown) : Finish(t, new)
      BY <1>4 DEF Done, ErrorEvent, WrittenBy
    <2>6. gone' \subseteq Handlers /\ created' \subseteq Sessions
      BY <1>0, <2>4 DEF ServerType
    <2> QED
      BY <1>1, <2>3, <2>4, <2>5, <2>6, FinishEdit
  <1>5. CASE RequestFails(t)
    <2>1. UNCHANGED <<shown, open, sync, table, created, moved, raced, server, gone>>
      BY <1>5 DEF RequestFails, fetchVars, serverVars
    <2>2. gone' \subseteq Handlers /\ created' \subseteq Sessions
      BY <1>0, <2>1 DEF ServerType
    <2>3. CASE Catch(t)
      BY <1>1, <2>1, <2>2, <2>3, CatchEdit
    <2>4. CASE Again(t, "post")
      BY <1>1, <2>1, <2>2, <2>4, AgainEdit
    <2> QED
      BY <1>5, <2>3, <2>4 DEF RequestFails
  <1>6. CASE Break(t)
    <2>1. UNCHANGED <<shown, open, sync, table, created, moved, raced, server>>
      BY <1>6 DEF Break, fetchVars, serverVars
    <2>2. gone' \subseteq Handlers /\ created' \subseteq Sessions
      BY <1>0, <1>2, <1>6, <2>1 DEF ServerType, Break
    <2>3. CASE Catch(t)
      BY <1>1, <2>1, <2>2, <2>3, CatchEdit
    <2>4. CASE Again(t, "post")
      BY <1>1, <2>1, <2>2, <2>4, AgainEdit
    <2> QED
      BY <1>6, <2>3, <2>4 DEF Break
  <1> QED
    BY <1>3, <1>4, <1>5, <1>6

\* No handler was called for a turn that has not made its request.
LEMMA NotCalled ==
  ASSUME ChatInv, NEW t \in Turns, turn[t].pc \in {"idle", "files", "create", "set"},
         NEW h \in Handlers, h[1] = t
  PROVE  server[h] = "none"
  <1>1. h = <<t, 1>> \/ h = <<t, 2>>
    BY HandlersAre
  <1> QED
    BY <1>1 DEF ChatInv, CallInv

LEMMA RequestEdit ==
  ASSUME ChatInv, EditInv, NEW t \in Turns, CreateForTurn(t) \/ Post(t)
  PROVE  EditInv'
  <1>0. ServerType /\ TurnType /\ SessionInv /\ turn[t] \in TurnRec
    BY DEF EditInv, RefInv, TurnType
  <1>1. turn[t].pc \in {"create", "post"} /\ turn[t].pc \in LivePc /\ Sent(t) /\ Busy(t)
    BY DEF CreateForTurn, Post, LivePc, Sent, Busy
  <1>2. UNCHANGED <<shown, open, sync, table, moved, raced, gone>> /\ gone' \subseteq Handlers
    BY <1>0 DEF CreateForTurn, Post, fetchVars, ServerType
  <1>3. CASE CreateForTurn(t)
    <2>0. UNCHANGED server /\ server' \in [Handlers -> HandlerPc] /\ turn[t].pc = "create"
      BY <1>0, <1>3 DEF CreateForTurn, ServerType
    <2>3. created \subseteq created' /\ created' \subseteq Sessions
      BY <1>0, <1>3 DEF CreateForTurn, Create, ServerType
    <2>1. CASE Catch(t)
      BY <1>1, <1>2, <2>0, <2>1, <2>3, CatchEdit
    <2>4. CASE Again(t, "create")
      BY <1>2, <2>0, <2>3, <2>4, AgainEdit
    <2>2. ASSUME NEW s \in Sessions, Create(s), turn' = [turn EXCEPT ![t].pc = "set", ![t].session = s],
                 UNCHANGED <<chats, sending>>
          PROVE  EditInv'
      <3> DEFINE r == [turn[t] EXCEPT !.pc = "set", !.session = s]
      <3>1. r \in TurnRec /\ r.pc = "set" /\ r.chat = turn[t].chat /\ r.session = s
        BY <1>0 DEF TurnRec, TurnPc
      <3>2. turn' = [turn EXCEPT ![t] = r]
        BY <2>2
      <3> HIDE DEF r
      <3>3. created \subseteq created' /\ created' \subseteq Sessions /\ sending' \in BOOLEAN /\ s \in created'
        BY <1>0, <2>2 DEF ServerType, Create
      <3>4. Called(t, r.session)
        BY <2>0, NotCalled DEF Called
      <3>5. r.session \in created' \cup {None} /\ r.session # None
        BY <1>0, <3>1, <3>3, NoneIsNot
      <3>6. UNCHANGED <<chats, shown, open, sync, table, moved, raced>>
        BY <1>2, <2>2
      <3>7. Sent(t) /\ Busy(t) /\ r.chat = turn[t].chat /\ r.pc \notin {"idle", "files", "unread"}
        BY <1>1, <3>1
      <3> QED
        BY <1>2, <2>0, <3>1, <3>2, <3>3, <3>4, <3>5, <3>6, <3>7, Unwritten
    <2>5. \/ \E s \in Sessions : /\ Create(s)
                                /\ turn' = [turn EXCEPT ![t].pc = "set", ![t].session = s]
                                /\ UNCHANGED <<chats, sending>>
          \/ Again(t, "create")
          \/ Catch(t)
      BY <1>3 DEF CreateForTurn
    <2> QED
      BY <2>1, <2>2, <2>4, <2>5
  <1>4. CASE Post(t)
    <2> DEFINE r == [turn[t] EXCEPT !.pc = "stream", !.lines = 0]
    <2>1. r \in TurnRec /\ r.pc = "stream" /\ r.chat = turn[t].chat /\ r.session = turn[t].session
      <3>1. 0 \in 0 .. MaxLines
        BY ChatConstants
      <3> QED
        BY <1>0, <3>1 DEF TurnRec, TurnPc
    <2>2. turn' = [turn EXCEPT ![t] = r] /\ server' = [server EXCEPT ![Now(t)] = "posted"] /\ turn[t].pc = "post"
      BY <1>4 DEF Post, Call
    <2> HIDE DEF r
    <2>3. UNCHANGED <<chats, shown, open, sync, table, moved, raced>> /\ UNCHANGED <<created, sending>>
      BY <1>4 DEF Post, fetchVars
    <2>4. /\ created \subseteq created' /\ created' \subseteq Sessions
          /\ sending' \in BOOLEAN /\ server' \in [Handlers -> HandlerPc]
      BY <1>0, <2>2, <2>3, NowIs DEF ServerType, HandlerPc
    <2>5. r.session \in created' \cup {None} /\ r.session # None
      BY <1>0, <2>1, <2>2, <2>3 DEF SessionInv
    <2>6. Called(t, r.session)
      <3>1. Now(t) \in Handlers /\ Now(t)[1] = t
        BY NowIs DEF ChatInv
      <3>2. \A h \in Handlers : h # Now(t) => server'[h] = server[h]
        BY <1>0, <2>2 DEF ServerType
      <3> QED
        BY <2>1, <2>5, <3>1, <3>2 DEF Called
    <2>7. Sent(t) /\ Busy(t) /\ r.chat = turn[t].chat /\ r.pc \notin {"idle", "files", "unread"}
      BY <1>1, <2>1
    <2> QED
      BY <1>2, <2>1, <2>2, <2>3, <2>4, <2>5, <2>6, <2>7, Unwritten
  <1> QED
    BY <1>3, <1>4

\* The question of a turn is added to the conversation shown.
LEMMA AskEdit ==
  ASSUME ChatInv, EditInv, NEW t \in Turns, turn[t].pc \in {"idle", "files"}, NEW c \in DOMAIN chats, Ask(t, c)
  PROVE  EditInv'
  <1> DEFINE s == chats[c].session
             p == IF s = None THEN "create" ELSE "post"
             r == [turn[t] EXCEPT !.pc = p, !.chat = shown, !.session = s]
             m == AddMessage(Shown, "user", t, "question")
  <1>0. /\ RefInv /\ ListInv /\ FetchInv /\ HomeInv /\ KeptInv
        /\ ChatType /\ TurnType /\ FetchType /\ ServerType /\ PlaceInv /\ SessionInv
        /\ turn[t] \in TurnRec /\ shown \in Chats /\ shown \in DOMAIN chats
    BY ChatsAre DEF EditInv, RefInv, TurnType, ChatType
  <1>1. s \in created \cup {None} /\ s \in Sessions \cup {None}
    BY <1>0, ChatsAre DEF SessionInv
  <1>2. r \in TurnRec /\ r.pc = p /\ r.chat = shown /\ r.session = s /\ p \in {"create", "post"} /\ (p = "post" => s # None)
    BY <1>0, <1>1 DEF TurnRec, TurnPc
  <1>3. turn' = [turn EXCEPT ![t] = r] /\ Update(shown, m) /\ sending' = TRUE
    BY DEF Ask
  <1>4. UNCHANGED <<shown, open, sync, table, created, server, moved>>
    BY DEF Ask, fetchVars, serverVars
  <1>5. gone' \subseteq Handlers /\ server' \in [Handlers -> HandlerPc] /\ sending' \in BOOLEAN /\ created' \subseteq Sessions
    BY <1>0, <1>3, <1>4 DEF Ask, ServerType
  <1> HIDE DEF r, p, s
  <1>6. Forward /\ t \in Asked' /\ t \in HomeOf(shown)'
    BY <1>0, <1>2, <1>3, <1>4, ForwardTurn
  <1>7. ListOK(Shown, HomeOf(shown)', Asked', table')
    BY <1>0, <1>4, <1>6, ListsKept DEF Shown
  <1>8. ListOK(m, HomeOf(shown)', Asked', table') /\ Keeps(Shown, m)
    <2>1. "question" \in Says
      BY DEF Says
    <2> QED
      BY <1>6, <1>7, <2>1, AddMessageOK
  <1>9. m \in Seq(Message) /\ Shown \in Seq(Message)
    BY <1>7, <1>8 DEF ListOK
  <1>10. /\ chats' \in Seq(Chat) /\ DOMAIN chats' = DOMAIN chats /\ Len(chats') = Len(chats)
         /\ chats'[shown].msgs = m /\ chats'[shown].session = chats[shown].session
         /\ \A d \in DOMAIN chats : d # shown => chats'[d] = chats[d]
    BY <1>0, <1>3, <1>9, UpdateIs
  <1>11. RefInv'
    <2>1. Called(t, r.session)
      BY <1>4, NotCalled DEF Called
    <2>2. \A d \in DOMAIN chats : chats'[d].session = chats[d].session
      BY <1>10
    <2>3. r.chat \in DOMAIN chats /\ r.session \in created' \cup {None} /\ created \subseteq created'
      BY <1>0, <1>1, <1>2, <1>4
    <2>4. r.pc \in {"set", "post", "stream"} => r.session # None
      BY <1>2
    <2> QED
      BY <1>0, <1>2, <1>3, <1>4, <1>5, <1>10, <2>1, <2>2, <2>3, <2>4, RefTurn
  <1>12. ListInv' /\ FetchInv' /\ HomeInv'
    <2>1. \A d \in DOMAIN chats : \/ chats'[d].msgs = chats[d].msgs
                                  \/ ListOK(chats'[d].msgs, HomeOf(d)', Asked', table')
      BY <1>4, <1>8, <1>10
    <2> QED
      BY <1>0, <1>2, <1>3, <1>4, <1>6, <1>10, <2>1, ListsTurn
  <1>13. KeptInv'
    <2>1. \A d \in DOMAIN chats : chats'[d].session = chats[d].session /\ Keeps(chats[d].msgs, chats'[d].msgs)
      BY <1>8, <1>10 DEF Keeps, Shown
    <2>2. raced \subseteq raced'
      BY DEF Ask, Race
    <2>3. \A u \in Turns : u # t /\ Sent(u)' => Sent(u)
      BY <1>0, <1>2, <1>3, TurnIs DEF Sent
    <2>4. Has(shown, t)'
      <3>1. \E i \in DOMAIN m : m[i].turn = t /\ m[i].says = "question"
        BY <1>9, QuestionIsThere
      <3>2. chats'[shown'].msgs = m
        BY <1>4, <1>10
      <3> QED
        BY <3>1, <3>2 DEF Has
    <2>5. t \notin raced' => Safe(shown)
      <3> SUFFICES ASSUME t \notin raced', chats[shown].session # None PROVE Safe(shown)
        BY DEF Safe
      <3>1. ~Fetching /\ Sharing(chats[shown].session) = {shown}
        BY DEF Ask, Race
      <3>2. \A d \in DOMAIN chats : chats[d].session = chats[shown].session => d = shown
        BY <3>1 DEF Sharing
      <3>3. ~Wanted(chats[shown].session)
        BY <3>1 DEF Wanted, Fetching, FetchPc
      <3> QED
        BY <3>2, <3>3 DEF Safe
    <2>6. \A u \in Turns : Sent(u)' /\ u \notin raced' =>
            Sent(u) \/ \E d \in DOMAIN chats : Has(d, u)' /\ Safe(d)
      <3> SUFFICES ASSUME NEW u \in Turns, Sent(u)', u \notin raced'
                   PROVE  Sent(u) \/ \E d \in DOMAIN chats : Has(d, u)' /\ Safe(d)
        OBVIOUS
      <3>1. CASE u # t
        BY <2>3, <3>1
      <3>2. CASE u = t
        <4>1. PICK d \in DOMAIN chats : d = shown
          BY <1>0
        <4>2. Has(d, t)'
          BY <1>4, <2>4, <4>1 DEF Has
        <4> QED
          BY <2>5, <3>2, <4>1, <4>2
      <3> QED
        BY <3>1, <3>2
    <2> QED
      BY <1>0, <1>4, <1>10, <2>1, <2>2, <2>6, KeptTurn
  <1> QED
    BY <1>11, <1>12, <1>13 DEF EditInv

-----------------------------------------------------------------------------
(* Sessions, histories, handlers.                                          *)

\* The conversation shown is given a session: whatever is not safe from merges then is
\* counted as raced.
LEMMA SetSessionKept ==
  ASSUME RefInv, KeptInv, NEW s \in Sessions, SetApiSessionId(shown, s),
         \A u \in Turns : Sent(u)' => Sent(u),
         \A x : Wanted(x)' => Wanted(x) \/ x = s,
         \A x : Wanted(x)' => Fetching \/ Shown = <<>>
  PROVE  KeptInv'
  <1>0. ChatType /\ shown \in DOMAIN chats
    BY DEF RefInv, ChatType
  <1>1. /\ DOMAIN chats' = DOMAIN chats
        /\ chats'[shown].msgs = chats[shown].msgs /\ chats'[shown].session = s
        /\ \A d \in DOMAIN chats : d # shown => chats'[d] = chats[d]
    BY <1>0, SetSessionIs DEF SetApiSessionId
  <1>2. /\ raced \subseteq raced'
        /\ Fetching \/ Sharing(s) \ {shown} # {} => TurnsIn(Sharing(s) \cup {shown}) \subseteq raced'
    BY DEF SetApiSessionId, Race
  <1>3. \A u \in Turns : \A c \in DOMAIN chats : Has(c, u) => Has(c, u)'
    BY <1>1 DEF Has
  <1>4. \A u \in Turns : \A C : \A c \in C : Has(c, u) => u \in TurnsIn(C)
    BY DEF Has, TurnsIn
  <1> SUFFICES ASSUME NEW u \in Turns, Sent(u)', u \notin raced'
               PROVE  (\E c \in DOMAIN chats : Has(c, u) /\ Safe(c))'
    BY DEF KeptInv
  <1>5. PICK c \in DOMAIN chats : Has(c, u) /\ Safe(c)
    BY <1>2 DEF KeptInv
  <1>6. ASSUME NEW x, x = chats'[c].session, x # None
        PROVE  (\A d \in DOMAIN chats' : chats'[d].session = x => d = c) /\ ~Wanted(x)'
    <2>1. CASE c = shown
      <3>1. x = s
        BY <1>1, <1>6, <2>1
      <3>2. ~Fetching /\ Sharing(s) \ {shown} = {}
        BY <1>2, <1>4, <1>5, <2>1
      <3>3. \A d \in DOMAIN chats' : chats'[d].session = x => d = c
        BY <1>1, <2>1, <3>1, <3>2 DEF Sharing
      <3>4. Shown # <<>>
        BY <1>5, <2>1 DEF Has, Shown
      <3> QED
        BY <3>2, <3>3, <3>4
    <2>2. CASE c # shown
      <3>1. chats[c].session = x
        BY <1>1, <1>6, <2>2
      <3>2. x # s
        <4> SUFFICES ASSUME x = s PROVE FALSE
          OBVIOUS
        <4>1. c \in Sharing(s) /\ Sharing(s) \ {shown} # {}
          BY <2>2, <3>1 DEF Sharing
        <4> QED
          BY <1>2, <1>4, <1>5, <4>1
      <3>3. (\A d \in DOMAIN chats : chats[d].session = x => d = c) /\ ~Wanted(x)
        BY <1>5, <1>6, <3>1 DEF Safe
      <3>4. ~Wanted(x)'
        BY <3>2, <3>3
      <3>5. \A d \in DOMAIN chats' : chats'[d].session = x => d = c
        BY <1>1, <3>2, <3>3
      <3> QED
        BY <3>4, <3>5
    <2> QED
      BY <2>1, <2>2
  <1>7. Safe(c)'
    <2>1. PICK x : x = chats'[c].session
      OBVIOUS
    <2>2. (x # None => (\A d \in DOMAIN chats : chats[d].session = x => d = c) /\ ~Wanted(x))'
      BY <1>6, <2>1
    <2>3. \A y : y = x => (y # None => (\A d \in DOMAIN chats : chats[d].session = y => d = c) /\ ~Wanted(y))'
      BY <2>2
    <2> QED
      BY <2>1, <2>2 DEF Safe
  <1> QED
    BY <1>1, <1>3, <1>5, <1>7

LEMMA SetForTurnEdit ==
  ASSUME ChatInv, EditInv, NEW t \in Turns, SetForTurn(t)
  PROVE  EditInv'
  <1> DEFINE s == turn[t].session
             r == [turn[t] EXCEPT !.pc = "stream", !.lines = 0]
  <1>0. /\ RefInv /\ ListInv /\ FetchInv /\ HomeInv /\ KeptInv
        /\ ChatType /\ TurnType /\ FetchType /\ ServerType /\ PlaceInv /\ SessionInv
        /\ turn[t] \in TurnRec /\ shown \in DOMAIN chats
    BY DEF EditInv, RefInv, TurnType, ChatType
  <1>1. turn[t].pc = "set" /\ s \in created /\ s \in Sessions /\ s # None
    BY <1>0 DEF SetForTurn, SessionInv, ServerType
  <1>2. r \in TurnRec /\ r.pc = "stream" /\ r.chat = turn[t].chat /\ r.session = s
    <2>1. 0 \in 0 .. MaxLines
      BY ChatConstants
    <2> QED
      BY <1>0, <2>1 DEF TurnRec, TurnPc
  <1>3. turn' = [turn EXCEPT ![t] = r] /\ server' = [server EXCEPT ![Now(t)] = "posted"] /\ SetApiSessionId(shown, s)
    BY DEF SetForTurn, Call
  <1> HIDE DEF r, s
  <1>4. UNCHANGED <<shown, open, sync, table, created, moved, gone, sending>>
    BY DEF SetForTurn, fetchVars
  <1>5. /\ created \subseteq created' /\ created' \subseteq Sessions /\ gone' \subseteq Handlers
        /\ sending' \in BOOLEAN /\ server' \in [Handlers -> HandlerPc]
    BY <1>0, <1>3, <1>4, NowIs DEF ServerType, HandlerPc
  <1>6. Called(t, r.session)
    <2>1. Now(t) \in Handlers /\ Now(t)[1] = t
      BY NowIs DEF ChatInv
    <2>2. \A h \in Handlers : h # Now(t) => server'[h] = server[h]
      BY <1>0, <1>3 DEF ServerType
    <2> QED
      BY <1>1, <1>2, <2>1, <2>2 DEF Called, s
  <1>7. /\ chats' \in Seq(Chat) /\ DOMAIN chats' = DOMAIN chats /\ Len(chats') = Len(chats)
        /\ chats'[shown].msgs = chats[shown].msgs /\ chats'[shown].session = s
        /\ \A d \in DOMAIN chats : d # shown => chats'[d] = chats[d]
    BY <1>0, <1>1, <1>3, SetSessionIs DEF SetApiSessionId
  <1>8. Forward
    BY <1>0, <1>1, <1>2, <1>3, <1>4, ForwardTurn
  <1>9. RefInv'
    <2>1. \A c \in DOMAIN chats : chats'[c].session = chats[c].session \/ chats'[c].session \in created
      BY <1>1, <1>7
    <2>2. r.chat \in DOMAIN chats /\ r.session \in created' \cup {None} /\ r.session # None
      BY <1>0, <1>1, <1>2, <1>4 DEF PlaceInv
    <2>3. shown' = shown /\ open' = open /\ sync' = sync /\ table' = table
      BY <1>4
    <2> QED
      BY <1>0, <1>2, <1>3, <1>5, <1>6, <1>7, <2>1, <2>2, <2>3, RefTurn
  <1>10. ListInv' /\ FetchInv' /\ HomeInv'
    <2>1. \A c \in DOMAIN chats : chats'[c].msgs = chats[c].msgs
      BY <1>7
    <2>2. t \in moved \/ r.chat = shown
      BY <1>0, <1>1, <1>2 DEF HomeInv, Busy
    <2> QED
      BY <1>0, <1>2, <1>3, <1>4, <1>7, <1>8, <2>1, <2>2, ListsTurn
  <1>11. KeptInv'
    <2>1. \A u \in Turns : Sent(u)' => Sent(u)
      BY <1>0, <1>1, <1>2, <1>3, TurnIs DEF Sent
    <2>2. \A x : Wanted(x)' => Wanted(x) \/ x = s
      BY <1>0, <1>4, <1>7 DEF Wanted, PlaceInv
    <2>3. \A x : Wanted(x)' => Fetching
      BY <1>4 DEF Wanted, Fetching, FetchPc
    <2> QED
      BY <1>0, <1>1, <1>3, <2>1, <2>2, <2>3, SetSessionKept
  <1> QED
    BY <1>9, <1>10, <1>11 DEF EditInv

\* A handler stores rows.
LEMMA HandlerEdit ==
  ASSUME ChatInv, ChatInv', EditInv, NEW h \in Handlers, HandlerStep(h)
  PROVE  EditInv'
  <1>0. /\ RefInv /\ ListInv /\ FetchInv /\ HomeInv /\ KeptInv
        /\ ChatType /\ TurnType /\ FetchType /\ ServerType /\ PlaceInv /\ SessionInv
    BY DEF EditInv, RefInv
  <1>1. UNCHANGED <<chats, shown, sending, turn, open, sync, created, gone, moved, raced>>
    BY DEF HandlerStep, StoreQuestion, StoreReply, fetchVars
  <1>2. server[h] # "none" /\ \E x \in HandlerPc : server' = [server EXCEPT ![h] = x]
    BY DEF HandlerStep, StoreQuestion, StoreReply, HandlerPc
  <1>3. h[1] \in Turns /\ turn[h[1]].session \in created /\ turn[h[1]].session \in Sessions
    <2>1. h[1] \in Turns
      BY HandlersAre
    <2> QED
      BY <1>0, <1>2, <2>1 DEF SessionInv, ServerType
  <1>4. \/ table' = table
        \/ \E role \in {"user", "assistant", "error"} : Insert(role, h)
    BY DEF HandlerStep, StoreQuestion, StoreReply
  <1>5. /\ table' \in Seq(TableRow) /\ DOMAIN table \subseteq DOMAIN table'
        /\ \A i \in DOMAIN table : table'[i] = table[i]
        /\ \A i \in DOMAIN table' : i \in DOMAIN table \/ table'[i].session \in created
    <2>1. CASE table' = table
      BY <1>0, <2>1 DEF ServerType
    <2>2. ASSUME NEW role \in {"user", "assistant", "error"}, Insert(role, h)
          PROVE  /\ table' \in Seq(TableRow) /\ DOMAIN table \subseteq DOMAIN table'
                 /\ \A i \in DOMAIN table : table'[i] = table[i]
                 /\ \A i \in DOMAIN table' : i \in DOMAIN table \/ table'[i].session \in created
      <3> DEFINE row == [session |-> turn[h[1]].session, role |-> role, turn |-> h[1]]
      <3>1. row \in TableRow /\ row.session \in created
        BY <1>3 DEF TableRow
      <3>2. table \in Seq(TableRow) /\ table' = Append(table, row)
        BY <1>0, <2>2 DEF ServerType, Insert
      <3> HIDE DEF row
      <3> QED
        BY <3>1, <3>2
    <2> QED
      BY <1>4, <2>1, <2>2
  <1>6. Forward
    BY <1>1, <1>5 DEF Forward, Asked
  <1>7. RefInv'
    <2>1. ServerType'
      BY <1>0, <1>1, <1>2, <1>5 DEF ServerType
    <2>2. \A g \in Handlers : server'[g] # "none" => server[g] # "none"
      BY <1>0, <1>2 DEF ServerType
    <2>3. SessionInv'
      BY <1>0, <1>1, <1>5, <2>2 DEF SessionInv
    <2>4. ChatType' /\ TurnType' /\ FetchType' /\ PlaceInv'
      BY <1>0, <1>1 DEF ChatType, TurnType, FetchType, PlaceInv
    <2> QED
      BY <2>1, <2>3, <2>4 DEF RefInv
  <1>8. ListInv'
    <2>1. \A c \in DOMAIN chats : ListOK(chats[c].msgs, HomeOf(c)', Asked', table')
      BY <1>0, <1>6, ListsKept
    <2> QED
      BY <1>1, <2>1 DEF ListInv
  <1>9. FetchInv'
    BY <1>0, <1>1, <1>6, FetchedKept DEF FetchInv
  <1>10. HomeInv' /\ KeptInv'
    BY <1>0, <1>1 DEF HomeInv, Busy, KeptInv, Sent, Has, Safe, Wanted
  <1> QED
    BY <1>7, <1>8, <1>9, <1>10 DEF EditInv

-----------------------------------------------------------------------------
(* The pane and the synchronisation: turns and the server stand still.     *)

Still == UNCHANGED <<turn, sending, table, server, gone>> /\ created \subseteq created' /\ created' \subseteq Sessions

LEMMA RefPane ==
  ASSUME RefInv, Still, chats' \in Seq(Chat), DOMAIN chats \subseteq DOMAIN chats', Len(chats') <= MaxChats,
         shown' \in DOMAIN chats', open' \in [Chats -> OpenRec], sync' \in SyncRec,
         \A c \in DOMAIN chats' : chats'[c].session \in created' \cup {None},
         \A c \in DOMAIN chats : chats[c].session # None => chats'[c].session # None,
         \A c \in Chats : \/ open'[c] = open[c]
                          \/ /\ open'[c].chat \in DOMAIN chats'
                             /\ open'[c].pc = "set" => open'[c].session \in created'
                             /\ open'[c].pc \in FetchPc => chats'[open'[c].chat].session # None,
         sync' = sync \/ (sync'.pc \in FetchPc => sync'.session \in created' /\ sync'.todo \subseteq created')
  PROVE  RefInv'
  <1>0. /\ ChatType /\ TurnType /\ FetchType /\ ServerType /\ PlaceInv /\ SessionInv
        /\ UNCHANGED <<turn, sending, table, server, gone>> /\ created \subseteq created' /\ created' \subseteq Sessions
    BY DEF RefInv, Still
  <1>1. ChatType' /\ TurnType' /\ FetchType' /\ ServerType'
    BY <1>0 DEF ChatType, TurnType, FetchType, ServerType
  <1>2. PlaceInv'
    BY <1>0 DEF PlaceInv
  <1>3. SessionInv'
    <2>1. \A c \in Chats : open'[c].pc = "set" => open'[c].session \in created'
      BY <1>0 DEF SessionInv
    <2>2. \A c \in Chats : open'[c].pc \in FetchPc => chats'[open'[c].chat].session # None
      BY <1>0 DEF SessionInv, PlaceInv
    <2>3. sync'.pc \in FetchPc => sync'.session \in created' /\ sync'.todo \subseteq created'
      BY <1>0 DEF SessionInv
    <2>4. \A t \in Turns : /\ turn'[t].session \in created' \cup {None}
                           /\ turn'[t].pc \in {"set", "post", "stream"} => turn'[t].session # None
      BY <1>0 DEF SessionInv
    <2>5. \A h \in Handlers : server'[h] # "none" => turn'[h[1]].session # None
      BY <1>0 DEF SessionInv
    <2>6. \A i \in DOMAIN table' : table'[i].session \in created'
      BY <1>0 DEF SessionInv
    <2> QED
      BY <2>1, <2>2, <2>3, <2>4, <2>5, <2>6 DEF SessionInv
  <1> QED
    BY <1>1, <1>2, <1>3 DEF RefInv

LEMMA ForwardPane ==
  ASSUME Still, moved \subseteq moved'
  PROVE  Forward
  BY DEF Still, Forward, Asked

LEMMA ListsPane ==
  ASSUME ListInv, FetchInv, Still, moved \subseteq moved',
         \A c \in DOMAIN chats' : \/ c \in DOMAIN chats /\ chats'[c].msgs = chats[c].msgs
                                  \/ ListOK(chats'[c].msgs, HomeOf(c)', Asked', table'),
         \A c \in Chats : open'[c].got = open[c].got \/ FetchedRows(open'[c].got, Asked', table'),
         sync'.got = sync.got \/ FetchedRows(sync'.got, Asked', table')
  PROVE  ListInv' /\ FetchInv'
  <1>1. Forward
    BY ForwardPane
  <1>2. \A c \in DOMAIN chats : ListOK(chats[c].msgs, HomeOf(c)', Asked', table')
    BY <1>1, ListsKept
  <1>3. \A c \in DOMAIN chats' : ListOK(chats'[c].msgs, HomeOf(c)', Asked', table')
    BY <1>2
  <1>4. ListInv'
    BY <1>3 DEF ListInv
  <1>5. FetchInv'
    BY <1>1, FetchedKept DEF FetchInv
  <1> QED
    BY <1>4, <1>5

LEMMA KeptPane ==
  ASSUME KeptInv, raced' = raced, \A u \in Turns : Sent(u)' => Sent(u), DOMAIN chats \subseteq DOMAIN chats',
         \A c \in DOMAIN chats : Safe(c) /\ chats[c].msgs # <<>> =>
            Keeps(chats[c].msgs, chats'[c].msgs) /\ chats'[c].session = chats[c].session,
         \A c \in DOMAIN chats : \A x : Safe(c) /\ chats[c].msgs # <<>> /\ chats[c].session = x /\ x # None =>
            /\ ~Wanted(x)'
            /\ \A d \in DOMAIN chats' : chats'[d].session = x => d \in DOMAIN chats /\ chats[d].session = x
  PROVE  KeptInv'
  <1> SUFFICES ASSUME NEW u \in Turns, Sent(u)', u \notin raced'
               PROVE  (\E c \in DOMAIN chats : Has(c, u) /\ Safe(c))'
    BY DEF KeptInv
  <1>1. PICK c \in DOMAIN chats : Has(c, u) /\ Safe(c)
    BY DEF KeptInv
  <1>2. chats[c].msgs # <<>>
    BY <1>1 DEF Has
  <1>3. Keeps(chats[c].msgs, chats'[c].msgs) /\ chats'[c].session = chats[c].session
    BY <1>1, <1>2
  <1>4. Has(c, u)'
    BY <1>1, <1>3 DEF Has, Keeps
  <1>5. Safe(c)'
    BY <1>1, <1>2, <1>3, SafeStays
  <1> QED
    BY <1>1, <1>4, <1>5

\* What is fetched: the rows of a session, in order.
LEMMA ListIs ==
  ASSUME ServerType, RowInv, NEW s
  PROVE  FetchedRows(List(s), Asked, table)
  <1> DEFINE N == Len(table)
             S == {i \in DOMAIN table : table[i].session = s}
             n == Cardinality(S)
             row(k) == LET i == Nth(S, k) IN [role |-> table[i].role, turn |-> table[i].turn, id |-> i]
  <1>1. N \in Nat /\ DOMAIN table = 1 .. N /\ \A i \in 1 .. N : table[i] \in TableRow
    BY SeqIs DEF ServerType
  <1>2. S \in SUBSET (1 .. N)
    BY <1>1
  <1>3. n \in Nat /\ \A k \in 1 .. n : \E i \in S : Cardinality({j \in S : j <= i}) = k
    BY <1>1, <1>2, RankIs
  <1>4. \A k \in 1 .. n : Nth(S, k) \in S
    BY <1>3 DEF Nth
  <1>5. List(s) = [k \in 1 .. n |-> row(k)]
    BY DEF List
  <1> HIDE DEF n, N
  <1>6. ASSUME NEW k \in 1 .. n
        PROVE  /\ row(k) \in Row /\ row(k).turn \in Asked
               /\ row(k).id \in DOMAIN table /\ row(k).role = table[row(k).id].role
    <2>1. PICK i : i = Nth(S, k)
      OBVIOUS
    <2>2. i \in 1 .. N /\ table[i] \in TableRow /\ row(k) = [role |-> table[i].role, turn |-> table[i].turn, id |-> i]
      BY <1>1, <1>2, <1>4, <2>1
    <2>3. table[i].turn \in Asked
      BY <1>1, <2>2 DEF RowInv, Asked
    <2>4. i \in Nat \ {NoId}
      BY <1>1, <2>2 DEF NoId
    <2> HIDE DEF row
    <2> QED
      BY <1>1, <2>2, <2>3, <2>4 DEF Row, TableRow
  <1> HIDE DEF row
  <1>7. List(s) \in [1 .. n -> Row]
    BY <1>5, <1>6
  <1>8. List(s) \in Seq(Row) /\ DOMAIN List(s) = 1 .. n
    BY <1>3, <1>5, <1>7, SeqIs
  <1> QED
    BY <1>5, <1>6, <1>8 DEF FetchedRows

LEMMA WithSessionIs ==
  ASSUME NEW cs \in Seq(Chat), NEW s
  PROVE  LET c == WithSession(s, cs)
         IN  /\ c = 0 => \A d \in DOMAIN cs : cs[d].session # s
             /\ c # 0 => c \in DOMAIN cs /\ cs[c].session = s
  <1> DEFINE S == {c \in DOMAIN cs : cs[c].session = s}
  <1>1. Len(cs) \in Nat /\ S \in SUBSET (1 .. Len(cs))
    BY SeqIs
  <1>2. (S = {} => WithSession(s, cs) = 0) /\ (S # {} => WithSession(s, cs) \in S)
    BY <1>1, LastIs DEF WithSession
  <1>3. 0 \notin S
    BY <1>1
  <1> QED
    BY <1>1, <1>2, <1>3

\* A history is merged into a conversation of its session, or into a new one.
LEMMA UpsertIs ==
  ASSUME ChatType, ListInv, NEW s \in Sessions, NEW rows, FetchedRows(rows, Asked, table), Upsert(s, rows)
  PROVE  /\ chats' \in Seq(Chat) /\ DOMAIN chats \subseteq DOMAIN chats' /\ Len(chats') <= MaxChats
         /\ \A d \in DOMAIN chats : /\ chats'[d].session = chats[d].session
                                    /\ chats[d].session # s => chats'[d] = chats[d]
         /\ \A d \in DOMAIN chats' : d \notin DOMAIN chats =>
               chats'[d].session = s /\ \A e \in DOMAIN chats : chats[e].session # s
         /\ \A d \in DOMAIN chats' : \/ d \in DOMAIN chats /\ chats'[d].msgs = chats[d].msgs
                                     \/ ListOK(chats'[d].msgs, HomeOf(d), Asked, table)
  <1> DEFINE c == WithSession(s, chats)
  <1>0. /\ c = 0 => \A d \in DOMAIN chats : chats[d].session # s
        /\ c # 0 => c \in DOMAIN chats /\ chats[c].session = s
    BY WithSessionIs DEF ChatType
  <1>1. CASE c = 0
    <2> DEFINE r == [session |-> s, msgs |-> Fetched(rows)]
    <2>1. Len(chats) < MaxChats /\ chats' = Append(chats, r)
      BY <1>1 DEF Upsert
    <2>2. \A H : ListOK(Fetched(rows), H, Asked, table)
      BY FetchedOK
    <2>3. r \in Chat /\ r.session = s /\ r.msgs = Fetched(rows)
      BY <2>2 DEF Chat, ListOK
    <2> HIDE DEF r
    <2>4. /\ chats' \in Seq(Chat) /\ Len(chats') = Len(chats) + 1 /\ DOMAIN chats' = 1 .. Len(chats) + 1
          /\ chats'[Len(chats) + 1] = r
          /\ \A d \in DOMAIN chats : d \in DOMAIN chats' /\ chats'[d] = chats[d]
      BY <2>1, <2>3, NewChatIs
    <2>5. Len(chats) \in Nat /\ DOMAIN chats = 1 .. Len(chats)
      BY ChatsAre
    <2>6. \A d \in DOMAIN chats' : d \in DOMAIN chats \/ d = Len(chats) + 1
      BY <2>4, <2>5
    <2>7. Len(chats') <= MaxChats
      BY <2>1, <2>4, <2>5, ChatConstants
    <2>8. \A e \in DOMAIN chats : chats[e].session # s
      BY <1>0, <1>1
    <2> QED
      BY <2>2, <2>3, <2>4, <2>6, <2>7, <2>8
  <1>2. CASE c # 0
    <2> DEFINE m == IF rows = <<>> THEN chats[c].msgs ELSE MergeLocalExtras(Fetched(rows), chats[c].msgs)
    <2>1. c \in DOMAIN chats /\ chats[c].session = s
      BY <1>0, <1>2
    <2>2. Update(c, m)
      BY <1>2 DEF Upsert
    <2> HIDE DEF c
    <2>3. ListOK(m, HomeOf(c), Asked, table)
      <3>1. ListOK(chats[c].msgs, HomeOf(c), Asked, table)
        BY <2>1 DEF ListInv
      <3>2. ListOK(Fetched(rows), HomeOf(c), Asked, table) /\ Copies(Fetched(rows))
        BY FetchedOK
      <3>3. ListOK(MergeLocalExtras(Fetched(rows), chats[c].msgs), HomeOf(c), Asked, table)
        BY <3>1, <3>2, MergeOK
      <3> QED
        BY <3>1, <3>3
    <2> HIDE DEF m
    <2>4. /\ chats' \in Seq(Chat) /\ DOMAIN chats' = DOMAIN chats /\ Len(chats') = Len(chats)
          /\ chats'[c].msgs = m /\ chats'[c].session = chats[c].session
          /\ \A d \in DOMAIN chats : d # c => chats'[d] = chats[d]
      BY <2>1, <2>2, <2>3, UpdateIs DEF ListOK
    <2> QED
      BY <2>1, <2>3, <2>4 DEF ChatType
  <1> QED
    BY <1>1, <1>2

-----------------------------------------------------------------------------
(* The steps of the pane and of the synchronisation.                       *)

LEMMA Records ==
  ASSUME ChatType
  PROVE  /\ NewChat \in Chat /\ NewChat.msgs = <<>> /\ NewChat.session = None
         /\ NoOpen \in OpenRec /\ NoOpen.pc = "idle" /\ NoOpen.got = <<>> /\ NoOpen.chat = 1
         /\ JustOpened \in OpenRec /\ JustOpened.pc = "session" /\ JustOpened.got = <<>> /\ JustOpened.chat = 1
         /\ NoSync \in SyncRec /\ NoSync.pc = "start" /\ NoSync.got = <<>>
         /\ 1 \in DOMAIN chats
         /\ \A A, rows : FetchedRows(<<>>, A, rows)
         /\ \A H, A, rows : ListOK(<<>>, H, A, rows)
  <1>1. 1 \in Chats /\ 1 \in DOMAIN chats
    BY ChatsAre, ChatConstants DEF Chats
  <1>2. <<>> \in Seq(Row) /\ <<>> \in Seq(Message) /\ DOMAIN <<>> = {}
    OBVIOUS
  <1>3. NewChat \in Chat /\ NewChat.msgs = <<>> /\ NewChat.session = None
    BY <1>2 DEF NewChat, Chat
  <1>4. NoOpen \in OpenRec /\ NoOpen.pc = "idle" /\ NoOpen.got = <<>> /\ NoOpen.chat = 1
    BY <1>1, <1>2 DEF NoOpen, OpenRec
  <1>5. JustOpened \in OpenRec /\ JustOpened.pc = "session" /\ JustOpened.got = <<>> /\ JustOpened.chat = 1
    BY <1>1, <1>2 DEF JustOpened, NoOpen, OpenRec
  <1>6. NoSync \in SyncRec /\ NoSync.pc = "start" /\ NoSync.got = <<>>
    BY <1>2 DEF NoSync, SyncRec
  <1>7. \A A, rows : FetchedRows(<<>>, A, rows)
    BY <1>2 DEF FetchedRows
  <1>8. \A H, A, rows : ListOK(<<>>, H, A, rows)
    BY <1>2 DEF ListOK
  <1> QED
    BY <1>1, <1>3, <1>4, <1>5, <1>6, <1>7, <1>8

\* One record of open is written.
LEMMA OpenIs ==
  ASSUME FetchType, NEW c \in Chats, NEW r \in OpenRec, open' = [open EXCEPT ![c] = r]
  PROVE  /\ open' \in [Chats -> OpenRec] /\ open'[c] = r
         /\ \A d \in Chats : d # c => open'[d] = open[d]
  BY DEF FetchType

LEMMA OpenChatEdit ==
  ASSUME EditInv, NEW c \in Chats, OpenChat(c)
  PROVE  EditInv'
  <1> DEFINE n == Len(chats)
  <1>0. /\ RefInv /\ ListInv /\ FetchInv /\ HomeInv /\ KeptInv
        /\ ChatType /\ TurnType /\ FetchType /\ ServerType /\ PlaceInv /\ SessionInv
    BY DEF EditInv, RefInv
  <1>1. /\ c <= n + 1 /\ shown' = c /\ open' = [open EXCEPT ![c] = JustOpened]
        /\ chats' = IF c = n + 1 THEN Append(chats, NewChat) ELSE chats
        /\ moved \subseteq moved' /\ \A t \in Turns : Busy(t) => t \in moved'
        /\ turn' = turn /\ sending' = sending /\ table' = table /\ server' = server /\ gone' = gone
        /\ created' = created /\ sync' = sync /\ raced' = raced
    BY DEF OpenChat, serverVars
  <1>2. n \in Nat /\ DOMAIN chats = 1 .. n /\ c \in 1 .. MaxChats
    BY <1>0, ChatsAre DEF Chats
  <1>3. /\ chats' \in Seq(Chat) /\ DOMAIN chats \subseteq DOMAIN chats' /\ Len(chats') <= MaxChats
        /\ c \in DOMAIN chats'
        /\ \A d \in DOMAIN chats : chats'[d] = chats[d]
        /\ \A d \in DOMAIN chats' : d \in DOMAIN chats \/ chats'[d] = NewChat
    <2>1. CASE c = n + 1
      <3>1. chats' = Append(chats, NewChat) /\ NewChat \in Chat
        BY <1>0, <1>1, <2>1, Records
      <3>2. /\ chats' \in Seq(Chat) /\ Len(chats') = n + 1 /\ DOMAIN chats' = 1 .. n + 1
            /\ chats'[n + 1] = NewChat
            /\ \A d \in DOMAIN chats : d \in DOMAIN chats' /\ chats'[d] = chats[d]
        BY <1>0, <3>1, NewChatIs
      <3> HIDE DEF n
      <3> QED
        BY <1>2, <2>1, <3>2, ChatConstants
    <2>2. CASE c # n + 1
      BY <1>0, <1>1, <1>2, <2>2, ChatConstants DEF ChatType
    <2> QED
      BY <2>1, <2>2
  <1>4. Still
    BY <1>0, <1>1 DEF Still, ServerType
  <1>5. /\ open' \in [Chats -> OpenRec] /\ open'[c] = JustOpened
        /\ \A d \in Chats : d # c => open'[d] = open[d]
    BY <1>0, <1>1, Records, OpenIs
  <1>6. RefInv'
    <2>1. \A d \in DOMAIN chats' : chats'[d].session \in created' \cup {None}
      BY <1>0, <1>1, <1>3, Records DEF SessionInv
    <2>2. \A d \in Chats : \/ open'[d] = open[d]
                           \/ /\ open'[d].chat \in DOMAIN chats'
                              /\ open'[d].pc = "set" => open'[d].session \in created'
                              /\ open'[d].pc \in FetchPc => chats'[open'[d].chat].session # None
      BY <1>0, <1>3, <1>5, Records DEF FetchPc
    <2>3. sync' \in SyncRec /\ shown' \in DOMAIN chats'
      BY <1>0, <1>1, <1>3 DEF FetchType
    <2> QED
      BY <1>0, <1>1, <1>3, <1>4, <1>5, <2>1, <2>2, <2>3, RefPane
  <1>7. ListInv' /\ FetchInv'
    <2>1. \A d \in DOMAIN chats' : \/ d \in DOMAIN chats /\ chats'[d].msgs = chats[d].msgs
                                   \/ ListOK(chats'[d].msgs, HomeOf(d)', Asked', table')
      BY <1>0, <1>3, Records
    <2>2. \A d \in Chats : open'[d].got = open[d].got \/ FetchedRows(open'[d].got, Asked', table')
      BY <1>0, <1>5, Records
    <2> QED
      BY <1>0, <1>1, <1>4, <2>1, <2>2, ListsPane
  <1>8. HomeInv'
    BY <1>1 DEF HomeInv, Busy
  <1>9. KeptInv'
    <2>1. \A u \in Turns : Sent(u)' => Sent(u)
      BY <1>1 DEF Sent
    <2>2. \A d \in DOMAIN chats : Keeps(chats[d].msgs, chats'[d].msgs) /\ chats'[d].session = chats[d].session
      BY <1>3 DEF Keeps
    <2>3. \A x : Wanted(x)' => Wanted(x)
      BY <1>0, <1>1, <1>3, <1>5, Records DEF Wanted, FetchPc, PlaceInv
    <2>4. \A d \in DOMAIN chats : \A x : Safe(d) /\ chats[d].msgs # <<>> /\ chats[d].session = x /\ x # None =>
            /\ ~Wanted(x)'
            /\ \A e \in DOMAIN chats' : chats'[e].session = x => e \in DOMAIN chats /\ chats[e].session = x
      BY <1>0, <1>3, <2>3, Records DEF Safe
    <2> QED
      BY <1>0, <1>1, <1>3, <2>1, <2>2, <2>4, KeptPane
  <1> QED
    BY <1>6, <1>7, <1>8, <1>9 DEF EditInv

\* What may become of the fetches, and what they may not want.
FetchMoves ==
  /\ open' \in [Chats -> OpenRec] /\ sync' \in SyncRec
  /\ \A c \in Chats : \/ open'[c] = open[c]
                      \/ /\ open'[c].chat \in DOMAIN chats
                         /\ open'[c].pc = "set" => open'[c].session \in created'
                         /\ open'[c].pc \in FetchPc => chats[open'[c].chat].session # None
                         /\ FetchedRows(open'[c].got, Asked, table)
  /\ \/ sync' = sync
     \/ /\ sync'.pc \in FetchPc => sync'.session \in created' /\ sync'.todo \subseteq created'
        /\ FetchedRows(sync'.got, Asked, table)

NotWanted == \A c \in DOMAIN chats : \A x :
  Safe(c) /\ chats[c].msgs # <<>> /\ chats[c].session = x /\ x # None => ~Wanted(x)'

LEMMA FetchEdit ==
  ASSUME EditInv, Still, chats' = chats, shown' = shown, moved' = moved, raced' = raced, FetchMoves, NotWanted
  PROVE  EditInv'
  <1>0. /\ RefInv /\ ListInv /\ FetchInv /\ HomeInv /\ KeptInv
        /\ ChatType /\ SessionInv /\ turn' = turn /\ table' = table /\ created \subseteq created'
    BY DEF EditInv, RefInv, Still
  <1>1. RefInv'
    <2>1. \A d \in DOMAIN chats' : chats'[d].session \in created' \cup {None}
      BY <1>0 DEF SessionInv
    <2>2. chats' \in Seq(Chat) /\ Len(chats') <= MaxChats /\ shown' \in DOMAIN chats'
      BY <1>0 DEF ChatType
    <2> QED
      BY <1>0, <2>1, <2>2, RefPane DEF FetchMoves
  <1>2. ListInv' /\ FetchInv'
    <2>1. Asked' = Asked
      BY <1>0 DEF Asked
    <2>2. \A d \in Chats : open'[d].got = open[d].got \/ FetchedRows(open'[d].got, Asked', table')
      BY <1>0, <2>1 DEF FetchMoves
    <2>3. sync'.got = sync.got \/ FetchedRows(sync'.got, Asked', table')
      BY <1>0, <2>1 DEF FetchMoves
    <2> QED
      BY <1>0, <2>2, <2>3, ListsPane
  <1>3. HomeInv'
    BY <1>0 DEF HomeInv, Busy
  <1>4. KeptInv'
    <2>1. \A u \in Turns : Sent(u)' => Sent(u)
      BY <1>0 DEF Sent
    <2>2. \A d \in DOMAIN chats : Keeps(chats[d].msgs, chats'[d].msgs) /\ chats'[d].session = chats[d].session
      BY DEF Keeps
    <2>3. \A d \in DOMAIN chats : \A x : Safe(d) /\ chats[d].msgs # <<>> /\ chats[d].session = x /\ x # None =>
            /\ ~Wanted(x)'
            /\ \A e \in DOMAIN chats' : chats'[e].session = x => e \in DOMAIN chats /\ chats[e].session = x
      BY DEF NotWanted
    <2> QED
      BY <1>0, <2>1, <2>2, <2>3, KeptPane
  <1> QED
    BY <1>1, <1>2, <1>3, <1>4 DEF EditInv

\* A merge for a session that was wanted leaves what is safe alone.
LEMMA MergeEdit ==
  ASSUME EditInv, Still, created' = created, shown' = shown, moved' = moved, raced' = raced,
         NEW s \in created, Wanted(s), NEW rows, FetchedRows(rows, Asked, table), Upsert(s, rows),
         FetchMoves, NotWanted
  PROVE  EditInv'
  <1>0. /\ RefInv /\ ListInv /\ FetchInv /\ HomeInv /\ KeptInv
        /\ ChatType /\ ServerType /\ SessionInv /\ turn' = turn /\ table' = table /\ s \in Sessions /\ s # None
    BY NoneIsNot DEF EditInv, RefInv, Still, ServerType
  <1>1. /\ chats' \in Seq(Chat) /\ DOMAIN chats \subseteq DOMAIN chats' /\ Len(chats') <= MaxChats
        /\ \A d \in DOMAIN chats : /\ chats'[d].session = chats[d].session
                                   /\ chats[d].session # s => chats'[d] = chats[d]
        /\ \A d \in DOMAIN chats' : d \notin DOMAIN chats =>
              chats'[d].session = s /\ \A e \in DOMAIN chats : chats[e].session # s
        /\ \A d \in DOMAIN chats' : \/ d \in DOMAIN chats /\ chats'[d].msgs = chats[d].msgs
                                    \/ ListOK(chats'[d].msgs, HomeOf(d), Asked, table)
    BY <1>0, UpsertIs
  <1>2. RefInv'
    <2>1. \A d \in DOMAIN chats' : chats'[d].session \in created' \cup {None}
      BY <1>0, <1>1 DEF SessionInv
    <2>2. shown' \in DOMAIN chats'
      BY <1>0, <1>1 DEF ChatType
    <2>3. \A c \in Chats : \/ open'[c] = open[c]
                           \/ /\ open'[c].chat \in DOMAIN chats'
                              /\ open'[c].pc = "set" => open'[c].session \in created'
                              /\ open'[c].pc \in FetchPc => chats'[open'[c].chat].session # None
      BY <1>1 DEF FetchMoves
    <2> QED
      BY <1>0, <1>1, <2>1, <2>2, <2>3, RefPane DEF FetchMoves
  <1>3. ListInv' /\ FetchInv'
    <2>1. Asked' = Asked /\ \A d : HomeOf(d)' = HomeOf(d)
      BY <1>0 DEF Asked, HomeOf
    <2>2. \A d \in Chats : open'[d].got = open[d].got \/ FetchedRows(open'[d].got, Asked', table')
      BY <1>0, <2>1 DEF FetchMoves
    <2>3. sync'.got = sync.got \/ FetchedRows(sync'.got, Asked', table')
      BY <1>0, <2>1 DEF FetchMoves
    <2>4. \A d \in DOMAIN chats' : \/ d \in DOMAIN chats /\ chats'[d].msgs = chats[d].msgs
                                   \/ ListOK(chats'[d].msgs, HomeOf(d)', Asked', table')
      BY <1>0, <1>1, <2>1
    <2> QED
      BY <1>0, <2>2, <2>3, <2>4, ListsPane
  <1>4. HomeInv'
    BY <1>0 DEF HomeInv, Busy
  <1>5. KeptInv'
    <2>1. \A u \in Turns : Sent(u)' => Sent(u)
      BY <1>0 DEF Sent
    <2>2. \A d \in DOMAIN chats : Safe(d) => chats[d].session # s
      BY <1>0 DEF Safe
    <2>3. \A d \in DOMAIN chats : Safe(d) /\ chats[d].msgs # <<>> =>
             Keeps(chats[d].msgs, chats'[d].msgs) /\ chats'[d].session = chats[d].session
      BY <1>1, <2>2 DEF Keeps
    <2>4. \A d \in DOMAIN chats : \A x : Safe(d) /\ chats[d].msgs # <<>> /\ chats[d].session = x /\ x # None =>
            /\ ~Wanted(x)'
            /\ \A e \in DOMAIN chats' : chats'[e].session = x => e \in DOMAIN chats /\ chats[e].session = x
      BY <1>1, <2>2 DEF NotWanted
    <2> QED
      BY <1>0, <1>1, <2>1, <2>3, <2>4, KeptPane
  <1> QED
    BY <1>2, <1>3, <1>4, <1>5 DEF EditInv

\* syncConversationMessages starts only for an empty conversation.
LEMMA LookIs ==
  ASSUME RefInv, NEW c \in Chats, NEW s, LookAtHistory(c, s)
  PROVE  \E r \in OpenRec : /\ open' = [open EXCEPT ![c] = r]
                            /\ r.chat \in DOMAIN chats /\ r.pc \in {"idle", "get"} /\ r.got = <<>>
                            /\ r.pc = "get" => r.chat = shown /\ s # None /\ Shown = <<>>
  <1> DEFINE r == [NoOpen EXCEPT !.pc = "get", !.chat = shown]
  <1>0. ChatType /\ shown \in DOMAIN chats /\ shown \in Chats
    BY ChatsAre DEF RefInv, ChatType
  <1>1. r \in OpenRec /\ r.pc = "get" /\ r.chat = shown /\ r.got = <<>>
    BY <1>0, Records DEF OpenRec, NoOpen
  <1>2. open' = [open EXCEPT ![c] = IF s # None /\ Shown = <<>> THEN r ELSE NoOpen]
    BY DEF LookAtHistory
  <1> HIDE DEF r
  <1> QED
    BY <1>0, <1>1, <1>2, Records

LEMMA OpenMoves ==
  ASSUME RefInv, NEW c \in Chats, NEW r \in OpenRec, open' = [open EXCEPT ![c] = r], sync' = sync,
         r.chat \in DOMAIN chats, r.pc = "set" => r.session \in created',
         r.pc \in FetchPc => chats[r.chat].session # None, FetchedRows(r.got, Asked, table)
  PROVE  FetchMoves
  <1>1. FetchType
    BY DEF RefInv
  <1>2. /\ open' \in [Chats -> OpenRec] /\ open'[c] = r
        /\ \A d \in Chats : d # c => open'[d] = open[d]
    BY <1>1, OpenIs
  <1>3. sync' \in SyncRec
    BY <1>1 DEF FetchType
  <1> QED
    BY <1>2, <1>3 DEF FetchMoves

\* An opened conversation begins to want a history only while it has no messages.
LEMMA OpenNotWanted ==
  ASSUME RefInv, NEW c \in Chats, NEW r \in OpenRec, open' = [open EXCEPT ![c] = r], sync' = sync,
         DOMAIN chats \subseteq DOMAIN chats', \A d \in DOMAIN chats : chats'[d].session = chats[d].session,
         r.pc \in FetchPc => \/ open[c].pc \in FetchPc /\ r.chat = open[c].chat
                             \/ r.chat = shown /\ Shown = <<>>
  PROVE  NotWanted
  <1>0. FetchType /\ PlaceInv /\ shown \in DOMAIN chats
    BY DEF RefInv, ChatType
  <1>1. open'[c] = r /\ \A d \in Chats : d # c => open'[d] = open[d]
    BY <1>0, OpenIs
  <1>2. ASSUME NEW x, Wanted(x)' PROVE Wanted(x) \/ (chats[shown].session = x /\ Shown = <<>>)
    BY <1>0, <1>1, <1>2 DEF Wanted, PlaceInv
  <1>3. ASSUME NEW d \in DOMAIN chats, NEW x, Safe(d), chats[d].msgs # <<>>, chats[d].session = x, x # None
        PROVE  ~Wanted(x)'
    <2>1. ~Wanted(x)
      BY <1>3 DEF Safe
    <2>2. chats[shown].session = x => shown = d
      BY <1>0, <1>3 DEF Safe
    <2> QED
      BY <1>2, <1>3, <2>1, <2>2 DEF Shown
  <1> QED
    BY <1>3 DEF NotWanted

OpensNext(c, r) ==
  /\ open' = [open EXCEPT ![c] = r] /\ r.chat \in DOMAIN chats
  /\ r.pc = "set" => r.session \in created'
  /\ FetchedRows(r.got, Asked, table)
  /\ r.pc \in FetchPc => r.chat = shown /\ Shown = <<>> /\ chats[r.chat].session # None

LEMMA EnsureEdit ==
  ASSUME EditInv, NEW c \in Chats, EnsureApiSession(c)
  PROVE  EditInv'
  <1>0. RefInv /\ ChatType /\ ServerType /\ FetchType /\ PlaceInv /\ open[c] \in OpenRec /\ open[c].pc = "session"
    BY DEF EditInv, RefInv, FetchType, EnsureApiSession
  <1>1. /\ turn' = turn /\ sending' = sending /\ table' = table /\ server' = server /\ gone' = gone
        /\ chats' = chats /\ shown' = shown /\ moved' = moved /\ raced' = raced /\ sync' = sync
    BY DEF EnsureApiSession
  <1>2. created \subseteq created' /\ created' \subseteq Sessions
    BY <1>0 DEF EnsureApiSession, Create, ServerType
  <1>3. Still
    BY <1>1, <1>2 DEF Still
  <1>4. \E r \in OpenRec : OpensNext(c, r)
    <2>1. ASSUME NEW n \in Sessions, created' = created \cup {n},
                 open' = [open EXCEPT ![c] = [@ EXCEPT !.pc = "set", !.session = n]]
          PROVE  \E r \in OpenRec : OpensNext(c, r)
      <3> DEFINE r == [open[c] EXCEPT !.pc = "set", !.session = n]
      <3>1. r \in OpenRec /\ r.pc = "set" /\ r.session = n /\ r.chat = open[c].chat /\ r.got = open[c].got
        BY <1>0 DEF OpenRec
      <3>2. open' = [open EXCEPT ![c] = r]
        BY <2>1
      <3>3. FetchedRows(open[c].got, Asked, table) /\ open[c].chat \in DOMAIN chats
        BY <1>0 DEF EditInv, FetchInv, PlaceInv
      <3> HIDE DEF r
      <3> QED
        BY <2>1, <3>1, <3>2, <3>3 DEF FetchPc, OpensNext
    <2>2. ASSUME NEW s, s = chats[shown].session, LookAtHistory(c, s)
          PROVE  \E r \in OpenRec : OpensNext(c, r)
      <3>1. PICK r \in OpenRec : /\ open' = [open EXCEPT ![c] = r]
                                 /\ r.chat \in DOMAIN chats /\ r.pc \in {"idle", "get"} /\ r.got = <<>>
                                 /\ r.pc = "get" => r.chat = shown /\ s # None /\ Shown = <<>>
        BY <1>0, <2>2, LookIs
      <3> QED
        BY <1>0, <2>2, <3>1, Records DEF FetchPc, OpensNext
    <2> QED
      BY <2>1, <2>2 DEF EnsureApiSession, Create
  <1>5. PICK r \in OpenRec : OpensNext(c, r)
    BY <1>4
  <1>6. FetchMoves
    BY <1>0, <1>1, <1>5, OpenMoves DEF OpensNext
  <1>7. NotWanted
    BY <1>0, <1>1, <1>5, OpenNotWanted DEF OpensNext
  <1> QED
    BY <1>1, <1>3, <1>6, <1>7, FetchEdit

LEMMA GetEdit ==
  ASSUME ChatInv, EditInv, NEW c \in Chats, GetMessages(c)
  PROVE  EditInv'
  <1> DEFINE got == List(chats[open[c].chat].session)
             r == [open[c] EXCEPT !.pc = "merge", !.got = got]
  <1>0. /\ RefInv /\ ChatType /\ ServerType /\ FetchType /\ PlaceInv /\ SessionInv
        /\ open[c] \in OpenRec /\ open[c].pc = "get" /\ open[c].chat \in DOMAIN chats /\ RowInv
    BY DEF EditInv, RefInv, FetchType, GetMessages, PlaceInv, ChatInv
  <1>1. FetchedRows(got, Asked, table)
    BY <1>0, ListIs
  <1>2. /\ turn' = turn /\ sending' = sending /\ table' = table /\ server' = server /\ gone' = gone
        /\ chats' = chats /\ shown' = shown /\ moved' = moved /\ raced' = raced /\ sync' = sync
        /\ created' = created /\ open' = [open EXCEPT ![c] = r]
    BY DEF GetMessages, serverVars
  <1> HIDE DEF got
  <1>3. r \in OpenRec /\ r.pc = "merge" /\ r.chat = open[c].chat /\ r.got = got
    BY <1>0, <1>1 DEF OpenRec, FetchedRows
  <1>4. Still
    BY <1>0, <1>2 DEF Still, ServerType
  <1> HIDE DEF r
  <1>5. FetchMoves
    BY <1>0, <1>1, <1>2, <1>3, OpenMoves DEF SessionInv, FetchPc
  <1>6. NotWanted
    BY <1>0, <1>2, <1>3, OpenNotWanted DEF FetchPc
  <1> QED
    BY <1>2, <1>4, <1>5, <1>6, FetchEdit

LEMMA MergeHistoryEdit ==
  ASSUME EditInv, NEW c \in Chats, MergeHistory(c)
  PROVE  EditInv'
  <1> DEFINE s == chats[open[c].chat].session
  <1>0. /\ RefInv /\ ListInv /\ ChatType /\ ServerType /\ FetchType /\ PlaceInv /\ SessionInv
        /\ open[c].pc = "merge" /\ open[c].chat \in DOMAIN chats
        /\ FetchedRows(open[c].got, Asked, table)
    BY DEF EditInv, RefInv, FetchInv, MergeHistory, PlaceInv
  <1>1. s \in created /\ Wanted(s) /\ Upsert(s, open[c].got) /\ s \in Sessions
    BY <1>0 DEF SessionInv, FetchPc, Wanted, MergeHistory, ServerType
  <1>2. /\ turn' = turn /\ sending' = sending /\ table' = table /\ server' = server /\ gone' = gone
        /\ shown' = shown /\ moved' = moved /\ raced' = raced /\ sync' = sync
        /\ created' = created /\ open' = [open EXCEPT ![c] = NoOpen]
    BY DEF MergeHistory, serverVars
  <1> HIDE DEF s
  <1>3. NoOpen \in OpenRec /\ NoOpen.pc = "idle" /\ NoOpen.chat \in DOMAIN chats /\ FetchedRows(NoOpen.got, Asked, table)
    BY <1>0, Records
  <1>4. Still
    BY <1>0, <1>2 DEF Still, ServerType
  <1>5. FetchMoves
    BY <1>0, <1>2, <1>3, OpenMoves DEF FetchPc
  <1>6. DOMAIN chats \subseteq DOMAIN chats' /\ \A d \in DOMAIN chats : chats'[d].session = chats[d].session
    BY <1>0, <1>1, UpsertIs
  <1>7. NotWanted
    BY <1>0, <1>2, <1>3, <1>6, OpenNotWanted DEF FetchPc
  <1> QED
    BY <1>0, <1>1, <1>2, <1>4, <1>5, <1>7, MergeEdit

LEMMA SessionSetEdit ==
  ASSUME EditInv, NEW c \in Chats, SessionSet(c)
  PROVE  EditInv'
  <1> DEFINE s == open[c].session
  <1>0. /\ RefInv /\ ListInv /\ FetchInv /\ HomeInv /\ KeptInv
        /\ ChatType /\ ServerType /\ FetchType /\ PlaceInv /\ SessionInv /\ shown \in DOMAIN chats
        /\ s \in created /\ s \in Sessions /\ s # None
        /\ SetApiSessionId(shown, s) /\ LookAtHistory(c, s)
    BY NoneIsNot DEF EditInv, RefInv, SessionInv, SessionSet, ServerType, ChatType
  <1>1. /\ turn' = turn /\ sending' = sending /\ table' = table /\ server' = server /\ gone' = gone
        /\ shown' = shown /\ moved' = moved /\ sync' = sync /\ created' = created
    BY DEF SessionSet, serverVars
  <1> HIDE DEF s
  <1>2. PICK r \in OpenRec : /\ open' = [open EXCEPT ![c] = r]
                             /\ r.chat \in DOMAIN chats /\ r.pc \in {"idle", "get"} /\ r.got = <<>>
                             /\ r.pc = "get" => r.chat = shown /\ s # None /\ Shown = <<>>
    BY <1>0, LookIs
  <1>3. /\ open' \in [Chats -> OpenRec] /\ open'[c] = r
        /\ \A d \in Chats : d # c => open'[d] = open[d]
    BY <1>0, <1>2, OpenIs
  <1>4. /\ chats' \in Seq(Chat) /\ DOMAIN chats' = DOMAIN chats /\ Len(chats') = Len(chats)
        /\ chats'[shown].msgs = chats[shown].msgs /\ chats'[shown].session = s
        /\ \A d \in DOMAIN chats : d # shown => chats'[d] = chats[d]
    BY <1>0, SetSessionIs DEF SetApiSessionId
  <1>5. Still
    BY <1>0, <1>1 DEF Still, ServerType
  <1>6. RefInv'
    <2>1. /\ \A d \in DOMAIN chats' : chats'[d].session \in created' \cup {None}
          /\ \A d \in DOMAIN chats : chats[d].session # None => chats'[d].session # None
      BY <1>0, <1>1, <1>4 DEF SessionInv
    <2>2. \A d \in Chats : \/ open'[d] = open[d]
                           \/ /\ open'[d].chat \in DOMAIN chats'
                              /\ open'[d].pc = "set" => open'[d].session \in created'
                              /\ open'[d].pc \in FetchPc => chats'[open'[d].chat].session # None
      BY <1>0, <1>2, <1>3, <1>4 DEF FetchPc
    <2>3. sync' \in SyncRec /\ shown' \in DOMAIN chats' /\ Len(chats') <= MaxChats
      BY <1>0, <1>1, <1>4 DEF FetchType, ChatType
    <2> QED
      BY <1>0, <1>1, <1>3, <1>4, <1>5, <2>1, <2>2, <2>3, RefPane
  <1>7. ListInv' /\ FetchInv'
    <2>1. \A d \in DOMAIN chats' : d \in DOMAIN chats /\ chats'[d].msgs = chats[d].msgs
      BY <1>4
    <2>2. \A d \in Chats : open'[d].got = open[d].got \/ FetchedRows(open'[d].got, Asked', table')
      BY <1>0, <1>2, <1>3, Records
    <2> QED
      BY <1>0, <1>1, <1>5, <2>1, <2>2, ListsPane
  <1>8. HomeInv'
    BY <1>0, <1>1 DEF HomeInv, Busy
  <1>9. KeptInv'
    <2>1. \A u \in Turns : Sent(u)' => Sent(u)
      BY <1>1 DEF Sent
    <2>2. \A x : Wanted(x)' => Wanted(x) \/ x = s
      BY <1>0, <1>1, <1>2, <1>3, <1>4 DEF Wanted, PlaceInv, FetchPc
    <2>3. \A x : Wanted(x)' => Fetching \/ Shown = <<>>
      BY <1>1, <1>2, <1>3 DEF Wanted, Fetching, FetchPc
    <2> QED
      BY <1>0, <2>1, <2>2, <2>3, SetSessionKept
  <1> QED
    BY <1>6, <1>7, <1>8, <1>9 DEF EditInv

LEMMA OpenEdit ==
  ASSUME ChatInv, EditInv, NEW c \in Chats, OpenChat(c) \/ OpenStep(c)
  PROVE  EditInv'
  BY OpenChatEdit, EnsureEdit, SessionSetEdit, GetEdit, MergeHistoryEdit DEF OpenStep

\* The loop of syncOnStartup goes on to a session whose conversation is missing or empty.
LEMMA AdvanceIs ==
  ASSUME NEW todo \in SUBSET Sessions, NEW cs, Advance(todo, cs)
  PROVE  /\ sync' \in SyncRec /\ sync'.got = <<>> /\ sync'.todo \subseteq todo /\ sync'.pc \in {"get", "done"}
         /\ sync'.pc = "get" => sync'.session \in todo /\ ~Kept(sync'.session, cs)
  <1>1. <<>> \in Seq(Row)
    OBVIOUS
  <1>2. CASE sync' = [NoSync EXCEPT !.pc = "done"]
    BY <1>1, <1>2 DEF NoSync, SyncRec
  <1>3. ASSUME NEW s \in todo, ~Kept(s, cs), NEW rest \in SUBSET todo,
               sync' = [NoSync EXCEPT !.pc = "get", !.todo = rest, !.session = s]
        PROVE  /\ sync' \in SyncRec /\ sync'.got = <<>> /\ sync'.todo \subseteq todo /\ sync'.pc \in {"get", "done"}
               /\ sync'.pc = "get" => sync'.session \in todo /\ ~Kept(sync'.session, cs)
    <2> DEFINE r == [NoSync EXCEPT !.pc = "get", !.todo = rest, !.session = s]
    <2>1. s \in Sessions /\ rest \in SUBSET Sessions
      OBVIOUS
    <2>2. r \in SyncRec /\ r.pc = "get" /\ r.todo = rest /\ r.session = s /\ r.got = <<>>
      BY <1>1, <2>1 DEF NoSync, SyncRec
    <2>3. sync' = r
      BY <1>3
    <2> HIDE DEF r
    <2> QED
      BY <1>3, <2>2, <2>3
  <1> QED
    <2> DEFINE kept == {s \in todo : Kept(s, cs)}
    <2>1. \/ sync' = [NoSync EXCEPT !.pc = "done"]
          \/ \E s \in todo \ kept, before \in SUBSET kept :
               sync' = [NoSync EXCEPT !.pc = "get", !.todo = todo \ ({s} \cup before), !.session = s]
      BY DEF Advance
    <2>2. ASSUME NEW s \in todo \ kept, NEW before \in SUBSET kept,
                 sync' = [NoSync EXCEPT !.pc = "get", !.todo = todo \ ({s} \cup before), !.session = s]
          PROVE  \E rest \in SUBSET todo : sync' = [NoSync EXCEPT !.pc = "get", !.todo = rest, !.session = s]
      BY <2>2
    <2>3. \A s \in todo \ kept : ~Kept(s, cs)
      OBVIOUS
    <2> HIDE DEF kept
    <2> QED
      BY <1>2, <1>3, <2>1, <2>2, <2>3

\* A conversation with messages, alone with its session, is passed over.
LEMMA KeptIs ==
  ASSUME NEW cs \in Seq(Chat), NEW c \in DOMAIN cs, NEW s, cs[c].session = s, cs[c].msgs # <<>>,
         \A d \in DOMAIN cs : cs[d].session = s => d = c
  PROVE  Kept(s, cs)
  <1>1. WithSession(s, cs) = c /\ WithSession(s, cs) # 0
    BY WithSessionIs
  <1> QED
    BY <1>1 DEF Kept

LEMMA SyncListEdit ==
  ASSUME EditInv, SyncList
  PROVE  EditInv'
  <1>0. /\ RefInv /\ ChatType /\ FetchType /\ PlaceInv /\ SessionInv /\ chats \in Seq(Chat)
        /\ created \in SUBSET Sessions /\ Advance(created, chats)
    BY DEF EditInv, RefInv, ChatType, ServerType, SyncList
  <1>1. /\ turn' = turn /\ sending' = sending /\ table' = table /\ server' = server /\ gone' = gone
        /\ chats' = chats /\ shown' = shown /\ moved' = moved /\ raced' = raced /\ open' = open /\ created' = created
    BY DEF SyncList, serverVars
  <1>2. /\ sync' \in SyncRec /\ sync'.got = <<>> /\ sync'.todo \subseteq created /\ sync'.pc \in {"get", "done"}
        /\ sync'.pc = "get" => sync'.session \in created /\ ~Kept(sync'.session, chats)
    BY <1>0, AdvanceIs
  <1>3. Still
    BY <1>0, <1>1 DEF Still
  <1>4. FetchMoves
    <2>1. FetchedRows(sync'.got, Asked, table)
      BY <1>0, <1>2, Records
    <2> QED
      BY <1>0, <1>1, <1>2, <2>1 DEF FetchMoves, FetchType, FetchPc
  <1>5. NotWanted
    <2>1. ASSUME NEW d \in DOMAIN chats, NEW x, Safe(d), chats[d].msgs # <<>>, chats[d].session = x, x # None, Wanted(x)'
          PROVE  FALSE
      <3>1. ~Wanted(x) /\ \A e \in DOMAIN chats : chats[e].session = x => e = d
        BY <2>1 DEF Safe
      <3>2. sync'.pc = "get" /\ sync'.session = x
        BY <1>1, <1>2, <2>1, <3>1 DEF Wanted, FetchPc
      <3>3. Kept(x, chats)
        BY <1>0, <2>1, <3>1, KeptIs
      <3> QED
        BY <1>2, <3>2, <3>3
    <2> QED
      BY <2>1 DEF NotWanted
  <1> QED
    BY <1>1, <1>3, <1>4, <1>5, FetchEdit

LEMMA SyncGetEdit ==
  ASSUME ChatInv, EditInv, SyncGet
  PROVE  EditInv'
  <1> DEFINE got == List(sync.session)
             r == [sync EXCEPT !.pc = "merge", !.got = got]
  <1>0. /\ RefInv /\ ChatType /\ ServerType /\ FetchType /\ PlaceInv /\ SessionInv
        /\ sync \in SyncRec /\ sync.pc = "get" /\ RowInv
    BY DEF EditInv, RefInv, FetchType, SyncGet, ChatInv
  <1>1. FetchedRows(got, Asked, table)
    BY <1>0, ListIs
  <1>2. /\ turn' = turn /\ sending' = sending /\ table' = table /\ server' = server /\ gone' = gone
        /\ chats' = chats /\ shown' = shown /\ moved' = moved /\ raced' = raced /\ open' = open
        /\ created' = created /\ sync' = r
    BY DEF SyncGet, serverVars
  <1> HIDE DEF got
  <1>3. r \in SyncRec /\ r.pc = "merge" /\ r.session = sync.session /\ r.todo = sync.todo /\ r.got = got
    BY <1>0, <1>1 DEF SyncRec, FetchedRows
  <1>4. Still
    BY <1>0, <1>2 DEF Still, ServerType
  <1> HIDE DEF r
  <1>5. FetchMoves
    BY <1>0, <1>1, <1>2, <1>3 DEF FetchMoves, FetchType, SessionInv, FetchPc
  <1>6. NotWanted
    <2>1. \A x : Wanted(x)' => Wanted(x)
      BY <1>0, <1>2, <1>3 DEF Wanted, FetchPc
    <2> QED
      BY <2>1 DEF NotWanted, Safe
  <1> QED
    BY <1>2, <1>4, <1>5, <1>6, FetchEdit

LEMMA SyncMergeEdit ==
  ASSUME EditInv, SyncMerge
  PROVE  EditInv'
  <1> DEFINE s == sync.session
  <1>0. /\ RefInv /\ ListInv /\ ChatType /\ FetchType /\ ServerType /\ PlaceInv /\ SessionInv
        /\ sync.pc = "merge" /\ s \in created /\ s \in Sessions /\ created \subseteq Sessions
        /\ sync.todo \subseteq created /\ sync.todo \in SUBSET Sessions
        /\ FetchedRows(sync.got, Asked, table) /\ Upsert(s, sync.got) /\ Advance(sync.todo, chats')
    BY DEF EditInv, RefInv, ServerType, FetchInv, SessionInv, FetchPc, SyncMerge
  <1>1. /\ turn' = turn /\ sending' = sending /\ table' = table /\ server' = server /\ gone' = gone
        /\ shown' = shown /\ moved' = moved /\ raced' = raced /\ open' = open /\ created' = created
    BY DEF SyncMerge, serverVars
  <1>2. Wanted(s)
    BY <1>0 DEF Wanted, FetchPc
  <1> HIDE DEF s
  <1>3. /\ sync' \in SyncRec /\ sync'.got = <<>> /\ sync'.todo \subseteq sync.todo /\ sync'.pc \in {"get", "done"}
        /\ sync'.pc = "get" => sync'.session \in sync.todo /\ ~Kept(sync'.session, chats')
    BY <1>0, AdvanceIs
  <1>4. Still
    BY <1>0, <1>1 DEF Still
  <1>5. FetchMoves
    <2>1. FetchedRows(sync'.got, Asked, table)
      BY <1>0, <1>3, Records
    <2> QED
      BY <1>0, <1>1, <1>3, <2>1 DEF FetchMoves, FetchType, FetchPc
  <1>6. /\ chats' \in Seq(Chat) /\ DOMAIN chats \subseteq DOMAIN chats'
        /\ \A d \in DOMAIN chats : /\ chats'[d].session = chats[d].session
                                   /\ chats[d].session # s => chats'[d] = chats[d]
        /\ \A d \in DOMAIN chats' : d \notin DOMAIN chats => chats'[d].session = s
    BY <1>0, UpsertIs
  <1>7. NotWanted
    <2>1. ASSUME NEW d \in DOMAIN chats, NEW x, Safe(d), chats[d].msgs # <<>>, chats[d].session = x, x # None, Wanted(x)'
          PROVE  FALSE
      <3>1. ~Wanted(x) /\ \A e \in DOMAIN chats : chats[e].session = x => e = d
        BY <2>1 DEF Safe
      <3>2. x # s
        BY <1>2, <3>1
      <3>3. sync'.pc = "get" /\ sync'.session = x
        BY <1>0, <1>1, <1>3, <1>6, <2>1, <3>1 DEF Wanted, FetchPc, PlaceInv
      <3>4. /\ d \in DOMAIN chats' /\ chats'[d].session = x /\ chats'[d].msgs # <<>>
            /\ \A e \in DOMAIN chats' : chats'[e].session = x => e = d
        BY <1>6, <2>1, <3>1, <3>2
      <3>5. Kept(x, chats')
        BY <1>6, <3>4, KeptIs
      <3> QED
        BY <1>3, <3>3, <3>5
    <2> QED
      BY <2>1 DEF NotWanted
  <1> QED
    BY <1>0, <1>1, <1>2, <1>4, <1>5, <1>7, MergeEdit

-----------------------------------------------------------------------------
(* The restart, and the invariant.                                         *)

LEMMA RestartTurn ==
  ASSUME TurnType, Restart, NEW t \in Turns
  PROVE  /\ turn'[t] \in TurnRec /\ turn'[t].chat = turn[t].chat /\ turn'[t].session = turn[t].session
         /\ turn'[t].pc \in {"idle", "unread", "over"}
         /\ turn'[t].pc = "over" => Sent(t)
         /\ turn[t].pc \notin {"idle", "files"} => turn'[t].pc # "idle"
  <1>1. turn[t] \in TurnRec
    BY DEF TurnType
  <1>2. \/ turn[t].pc \in {"idle", "unread", "over"} /\ turn'[t] = turn[t]
        \/ turn[t].pc = "files" /\ turn'[t] = [turn[t] EXCEPT !.pc = "unread"]
        \/ turn[t].pc \notin {"idle", "unread", "over", "files"} /\ turn'[t] = [turn[t] EXCEPT !.pc = "over"]
    BY DEF Restart, Busy
  <1>3. ASSUME NEW p \in TurnPc, NEW y, y = [turn[t] EXCEPT !.pc = p]
        PROVE  y \in TurnRec /\ y.pc = p /\ y.chat = turn[t].chat /\ y.session = turn[t].session
    BY <1>1, <1>3 DEF TurnRec
  <1>4. "unread" \in TurnPc /\ "over" \in TurnPc
    BY DEF TurnPc
  <1> QED
    BY <1>1, <1>2, <1>3, <1>4 DEF Sent

LEMMA RestartEdit ==
  ASSUME EditInv, Restart
  PROVE  EditInv'
  <1>0. /\ RefInv /\ ListInv /\ FetchInv /\ HomeInv /\ KeptInv
        /\ ChatType /\ TurnType /\ FetchType /\ ServerType /\ PlaceInv /\ SessionInv
    BY DEF EditInv, RefInv
  <1>1. /\ chats' = chats /\ shown' = shown /\ table' = table /\ created' = created /\ server' = server
        /\ moved' = moved /\ raced' = raced /\ sending' = FALSE /\ sync' = NoSync
        /\ gone' = gone \cup {h \in Handlers : Open(h)}
        /\ open' = [c \in Chats |-> IF c = shown THEN JustOpened ELSE NoOpen]
        /\ DOMAIN turn' = Turns /\ turn' = [t \in Turns |-> turn'[t]]
    BY DEF Restart
  <1>2. \A t \in Turns : /\ turn'[t] \in TurnRec /\ turn'[t].chat = turn[t].chat /\ turn'[t].session = turn[t].session
                         /\ turn'[t].pc \in {"idle", "unread", "over"}
                         /\ turn'[t].pc = "over" => Sent(t)
                         /\ turn[t].pc \notin {"idle", "files"} => turn'[t].pc # "idle"
    BY <1>0, RestartTurn
  <1>3. Forward
    BY <1>1, <1>2 DEF Forward, Asked
  <1>4. /\ open' \in [Chats -> OpenRec] /\ sync' \in SyncRec /\ sync'.pc = "start" /\ sync'.got = <<>>
        /\ \A c \in Chats : open'[c].pc \in {"idle", "session"} /\ open'[c].chat = 1 /\ open'[c].got = <<>>
        /\ 1 \in DOMAIN chats
    BY <1>0, <1>1, Records
  <1>5. RefInv'
    <2>1. ChatType'
      BY <1>0, <1>1 DEF ChatType
    <2>2. TurnType'
      BY <1>1, <1>2 DEF TurnType
    <2>3. FetchType'
      BY <1>4 DEF FetchType
    <2>4. ServerType'
      BY <1>0, <1>1 DEF ServerType
    <2>5. PlaceInv'
      BY <1>0, <1>1, <1>2, <1>4 DEF PlaceInv
    <2>6. SessionInv'
      <3>1. \A h \in Handlers : h[1] \in Turns
        BY HandlersAre
      <3>2. \A t \in Turns : turn'[t].session \in created' \cup {None} /\ turn'[t].pc \notin {"set", "post", "stream"}
        BY <1>0, <1>1, <1>2 DEF SessionInv
      <3>3. \A h \in Handlers : server'[h] # "none" => turn'[h[1]].session # None
        BY <1>0, <1>1, <1>2, <3>1 DEF SessionInv
      <3> QED
        BY <1>0, <1>1, <1>4, <3>2, <3>3 DEF SessionInv, FetchPc
    <2> QED
      BY <2>1, <2>2, <2>3, <2>4, <2>5, <2>6 DEF RefInv
  <1>6. ListInv'
    <2>1. \A c \in DOMAIN chats : ListOK(chats[c].msgs, HomeOf(c)', Asked', table')
      BY <1>0, <1>3, ListsKept
    <2> QED
      BY <1>1, <2>1 DEF ListInv
  <1>7. FetchInv'
    BY <1>0, <1>4, Records DEF FetchInv
  <1>8. HomeInv'
    BY <1>2 DEF HomeInv, Busy
  <1>9. KeptInv'
    <2>1. \A u \in Turns : Sent(u)' => Sent(u)
      BY <1>2 DEF Sent
    <2>2. \A x : ~Wanted(x)'
      BY <1>4 DEF Wanted, FetchPc
    <2>3. \A d \in DOMAIN chats : Keeps(chats[d].msgs, chats'[d].msgs) /\ chats'[d].session = chats[d].session
      BY <1>1 DEF Keeps
    <2>4. \A d \in DOMAIN chats : \A x : Safe(d) /\ chats[d].msgs # <<>> /\ chats[d].session = x /\ x # None =>
            /\ ~Wanted(x)'
            /\ \A e \in DOMAIN chats' : chats'[e].session = x => e \in DOMAIN chats /\ chats[e].session = x
      BY <1>1, <2>2
    <2> QED
      BY <1>0, <1>1, <2>1, <2>3, <2>4, KeptPane
  <1> QED
    BY <1>5, <1>6, <1>7, <1>8, <1>9 DEF EditInv

LEMMA EditInvInit == ASSUME Init PROVE EditInv
  <1>1. 1 \in Chats /\ 0 \in 0 .. MaxLines /\ 1 <= MaxChats
    BY ChatConstants DEF Chats
  <1>2. NewChat \in Chat /\ NewChat.msgs = <<>> /\ NewChat.session = None
    BY DEF NewChat, Chat
  <1>3. chats \in Seq(Chat) /\ Len(chats) = 1 /\ DOMAIN chats = {1} /\ chats[1] = NewChat /\ shown = 1
    BY <1>2 DEF Init
  <1>4. ChatType
    BY <1>1, <1>3 DEF ChatType
  <1>5. NoTurn \in TurnRec /\ NoTurn.pc = "idle" /\ NoTurn.session = None /\ NoTurn.chat = 1
    BY <1>1 DEF NoTurn, TurnRec, TurnPc
  <1>6. turn = [t \in Turns |-> NoTurn]
    BY DEF Init
  <1>7. /\ open \in [Chats -> OpenRec]
        /\ \A c \in Chats : open[c].pc \in {"idle", "session"} /\ open[c].chat = 1 /\ open[c].got = <<>>
    BY <1>4, Records DEF Init
  <1>8. sync \in SyncRec /\ sync.pc = "done" /\ sync.got = <<>>
    <2>1. <<>> \in Seq(Row)
      OBVIOUS
    <2>2. [NoSync EXCEPT !.pc = "done"] \in SyncRec
      BY <2>1 DEF NoSync, SyncRec
    <2> QED
      BY <2>2 DEF Init, NoSync
  <1>9. /\ table = <<>> /\ created = {} /\ gone = {} /\ sending = FALSE /\ server = [h \in Handlers |-> "none"]
        /\ table \in Seq(TableRow) /\ DOMAIN table = {}
    BY DEF Init
  <1>10. RefInv
    <2>1. TurnType
      BY <1>5, <1>6 DEF TurnType
    <2>2. ServerType
      BY <1>9 DEF ServerType, HandlerPc
    <2>3. PlaceInv
      BY <1>3, <1>5, <1>6, <1>7 DEF PlaceInv
    <2>4. SessionInv
      BY <1>2, <1>3, <1>5, <1>6, <1>7, <1>8, <1>9 DEF SessionInv, FetchPc
    <2> QED
      BY <1>4, <1>7, <1>8, <2>1, <2>2, <2>3, <2>4 DEF RefInv, FetchType
  <1>11. ListInv
    BY <1>2, <1>3, <1>4, Records DEF ListInv
  <1>12. FetchInv
    BY <1>4, <1>7, <1>8, Records DEF FetchInv
  <1>13. HomeInv /\ KeptInv
    BY <1>5, <1>6 DEF HomeInv, Busy, KeptInv, Sent
  <1> QED
    BY <1>10, <1>11, <1>12, <1>13 DEF EditInv

LEMMA EditInvNext ==
  ASSUME ChatInv, ChatInv', EditInv, [Next]_vars
  PROVE  EditInv'
  <1>1. ASSUME NEW t \in Turns, TurnStep(t) PROVE EditInv'
    <2>1. CASE Send(t)
      <3>1. turn[t].pc = "idle" /\ shown \in DOMAIN chats /\ Ask(t, shown)
        BY <2>1 DEF Send, EditInv, RefInv, ChatType
      <3> QED
        BY <3>1, AskEdit
    <2>2. CASE FilesRead(t)
      <3>1. turn[t].pc = "files" /\ turn[t].chat \in DOMAIN chats /\ Ask(t, turn[t].chat)
        BY <2>2 DEF FilesRead, EditInv, RefInv, PlaceInv
      <3> QED
        BY <3>1, AskEdit
    <2> QED
      BY <1>1, <2>1, <2>2, FilesEdit, RequestEdit, SetForTurnEdit, StreamEdit DEF TurnStep
  <1>2. ASSUME NEW h \in Handlers, HandlerStep(h) PROVE EditInv'
    BY <1>2, HandlerEdit
  <1>3. ASSUME NEW c \in Chats, OpenChat(c) \/ OpenStep(c) PROVE EditInv'
    BY <1>3, OpenEdit
  <1>4. CASE SyncStep
    BY <1>4, SyncListEdit, SyncGetEdit, SyncMergeEdit DEF SyncStep
  <1>5. CASE UNCHANGED vars
    <2>1. /\ chats' = chats /\ shown' = shown /\ sending' = sending /\ turn' = turn /\ open' = open /\ sync' = sync
          /\ table' = table /\ created' = created /\ server' = server /\ gone' = gone
          /\ moved' = moved /\ raced' = raced
      BY <1>5 DEF vars
    <2>2. RefInv'
      BY <2>1 DEF EditInv, RefInv, ChatType, TurnType, FetchType, ServerType, PlaceInv, SessionInv
    <2>3. Asked' = Asked /\ \A c : HomeOf(c)' = HomeOf(c)
      BY <2>1 DEF Asked, HomeOf
    <2>4. ListInv' /\ FetchInv'
      BY <2>1, <2>3 DEF EditInv, ListInv, FetchInv
    <2>5. HomeInv' /\ KeptInv'
      BY <2>1 DEF EditInv, HomeInv, Busy, KeptInv, Sent, Has, Safe, Wanted
    <2> QED
      BY <2>2, <2>4, <2>5 DEF EditInv
  <1> QED
    BY <1>1, <1>2, <1>3, <1>4, <1>5, RestartEdit DEF Next

LEMMA EditInvCorrect == Spec => []EditInv
  <1>1. ChatInv /\ ChatInv' /\ EditInv /\ [Next]_vars => EditInv'
    BY EditInvNext
  <1>2. Init => EditInv
    BY EditInvInit
  <1> QED
    BY <1>1, <1>2, ChatInvCorrect, PTL DEF Spec

\* Conversations, turns, fetches and rows have their types, and the session of a row
\* exists.
THEOREM EditorTypeCorrect == Spec => []TypeOK
  <1>1. ASSUME EditInv PROVE TypeOK
    <2>1. /\ chats \in Seq([session : Sessions \cup {None}, msgs : Seq(Message)])
          /\ shown \in DOMAIN chats /\ Len(chats) <= MaxChats
      BY <1>1 DEF EditInv, RefInv, ChatType, Chat
    <2>2. turn \in [Turns -> [pc : {"idle", "files", "unread", "create", "set", "post", "stream", "over"},
                              chat : Chats, session : Sessions \cup {None},
                              files : BOOLEAN, lines : 0 .. MaxLines, try : {1, 2}]]
      BY <1>1 DEF EditInv, RefInv, TurnType, TurnRec, TurnPc
    <2>3. open \in [Chats -> OpenRec] /\ sync \in SyncRec
      BY <1>1 DEF EditInv, RefInv, FetchType
    <2>4. table \in Seq(TableRow) /\ created \subseteq Sessions /\ gone \subseteq Handlers /\ sending \in BOOLEAN
      BY <1>1 DEF EditInv, RefInv, ServerType
    <2>5. server \in [Handlers -> HandlerPc] /\ "none" \in HandlerPc
      BY <1>1 DEF EditInv, RefInv, ServerType, HandlerPc
    <2>6. \A i \in DOMAIN table : table[i].session \in created
      BY <1>1 DEF EditInv, RefInv, SessionInv
    <2> QED
      BY <2>1, <2>2, <2>3, <2>4, <2>5, <2>6 DEF TypeOK, OpenRec, SyncRec, TableRow, HandlerPc
  <1> QED
    BY <1>1, EditInvCorrect, PTL

\* A question that was sent stays in the editor over restarts, merges and later turns,
\* unless its conversation raced with a fetch or shared its session.
THEOREM QuestionsStay == Spec => []QuestionsKept
  <1>1. EditInv => QuestionsKept
    BY DEF EditInv, KeptInv, Has, QuestionsKept
  <1> QED
    BY <1>1, EditInvCorrect, PTL

\* What a stream writes goes to the conversation its turn was sent from, unless the pane
\* was given another one meanwhile or the end of the turn copied an answer down.
THEOREM StreamsWriteAtHome == Spec => []AtHome
  <1>1. ASSUME EditInv PROVE AtHome
    <2>1. ASSUME NEW c \in DOMAIN chats, NEW i \in DOMAIN chats[c].msgs, chats[c].msgs[i].id = NoId
          PROVE  LET m == chats[c].msgs[i]
                 IN  \/ c = turn[m.turn].chat
                     \/ m.turn \in moved
                     \/ \E k \in 1 .. i - 1 : /\ chats[c].msgs[k].id # NoId
                                              /\ chats[c].msgs[k].says = m.says
                                              /\ chats[c].msgs[k].turn = m.turn
      <3>1. MessageOK(chats[c].msgs, i, HomeOf(c), Asked, table)
        BY <1>1 DEF EditInv, ListInv, ListOK
      <3> QED
        BY <2>1, <3>1 DEF MessageOK, HomeOf, CopyAbove
    <2> QED
      BY <2>1 DEF AtHome
  <1> QED
    BY <1>1, EditInvCorrect, PTL
=============================================================================
