-------------------------- MODULE SocialPostsProofs --------------------------
(***************************************************************************)
(* Theorems about SocialPosts, for any number of posts, generators,        *)
(* deciders and decisions.                                                 *)
(***************************************************************************)
EXTENDS SocialPosts, FiniteSetTheorems, TLAPS

-----------------------------------------------------------------------------
(* Types.                                                                  *)

LEMMA InitType == Init => TypeOK
BY Parameters DEF Init, TypeOK, Posts, NoPost, GenIdle, DecIdle, Generator, Decider, PostStatus

\* A busy generator has a post, and so has a busy decider.
LEMMA BusyHasPost ==
  ASSUME TypeOK
  PROVE  /\ \A g \in Generators : gen[g].pc # "idle" => gen[g] \in [pc : {"send", "mark"}, post : Posts]
         /\ \A d \in Deciders : dec[d].pc # "idle" =>
              /\ dec[d] \in [pc : {"find", "reject", "approve", "check", "call", "store", "fail"},
                             post : Posts, ok : BOOLEAN, quoted : BOOLEAN]
BY DEF TypeOK, Generator, Decider, GenIdle, DecIdle

\* One step per action.
LEMMA StepType == TypeOK /\ [Next]_vars => TypeOK'
<1>. SUFFICES ASSUME TypeOK, [Next]_vars PROVE TypeOK'
  OBVIOUS
<1>. USE DEF TypeOK, history
<1>1. ASSUME NEW g \in Generators, Generate(g) PROVE TypeOK'
  <2>1. created + 1 \in Posts /\ created' \in 0..NPosts
    BY <1>1, Parameters DEF Generate, Posts
  <2>2. status' \in [Posts -> PostStatus]
    BY <1>1 DEF Generate, UpdateStatus, PostStatus
  <2>3. gen' \in [Generators -> Generator]
    BY <1>1, <2>1 DEF Generate, Generator
  <2>. QED
    BY <1>1, <2>1, <2>2, <2>3 DEF Generate
<1>2. ASSUME NEW g \in Generators, Send(g) PROVE TypeOK'
  <2>1. gen[g] \in [pc : {"send", "mark"}, post : Posts]
    BY <1>2, BusyHasPost DEF Send
  <2>2. gen' \in [Generators -> Generator]
    BY <1>2, <2>1 DEF Send, GenReturn, Generator
  <2>. QED
    BY <1>2, <2>1, <2>2 DEF Send
<1>3. ASSUME NEW g \in Generators, MarkPending(g) PROVE TypeOK'
  BY <1>3 DEF MarkPending, GenReturn, Generator, UpdateStatus, PostStatus
<1>4. ASSUME NEW d \in Deciders, NEW p \in Posts, NEW ok \in BOOLEAN, Press(d, p, ok) PROVE TypeOK'
  <2>1. dec' \in [Deciders -> Decider]
    BY <1>4 DEF Press, Decider, DecIdle
  <2>. QED
    BY <1>4, <2>1, Parameters DEF Press, Ask
<1>5. ASSUME NEW d \in Deciders, NEW p \in Posts, NEW ok \in BOOLEAN, NEW quoted \in Quoting,
             Reply(d, p, ok, quoted) PROVE TypeOK'
  <2>1. dec' \in [Deciders -> Decider]
    BY <1>5, Parameters DEF Reply, Decider
  <2>. QED
    BY <1>5, <2>1, Parameters DEF Reply, Ask
<1>6. ASSUME NEW d \in Deciders, Find(d) PROVE TypeOK'
  <2>1. dec[d].post \in Posts /\ dec[d] \in [pc : {"find", "reject", "approve", "check", "call", "store", "fail"},
             post : Posts, ok : BOOLEAN, quoted : BOOLEAN]
    BY <1>6, BusyHasPost DEF Find
  <2>2. ASSUME NEW p \in Posts, FoundPost(d, p, "approve") PROVE dec' \in [Deciders -> Decider]
    BY <2>2, <2>1 DEF FoundPost, Decider
  <2>3. dec' \in [Deciders -> Decider]
    BY <1>6, <2>1, <2>2 DEF Find, DecReturn, Decider
  <2>4. said' \in [Posts -> {"nothing", "yes", "no", "unclear"}]
    BY <1>6 DEF Find, Unclear
  <2>. QED
    BY <1>6, <2>3, <2>4 DEF Find
<1>7. ASSUME NEW d \in Deciders, Reject(d) PROVE TypeOK'
  BY <1>7 DEF Reject, DecReturn, Decider, UpdateStatus, PostStatus
<1>8. ASSUME NEW d \in Deciders, Approve(d) PROVE TypeOK'
  <2>1. dec' \in [Deciders -> Decider]
    BY <1>8, BusyHasPost DEF Approve, DecGoTo, Decider
  <2>2. dec[d].post \in Posts
    BY <1>8, BusyHasPost DEF Approve
  <2>3. yes' \in [Posts -> Nat]
    BY <1>8, <2>2 DEF Approve
  <2>4. status' \in [Posts -> PostStatus]
    BY <1>8 DEF Approve, UpdateStatus, PostStatus
  <2>. QED
    BY <1>8, <2>1, <2>3, <2>4 DEF Approve
<1>9. ASSUME NEW d \in Deciders, Check(d) PROVE TypeOK'
  <2>1. dec' \in [Deciders -> Decider]
    BY <1>9, BusyHasPost DEF Check, DecGoTo, DecReturn, Decider
  <2>. QED
    BY <1>9, <2>1 DEF Check
<1>10. ASSUME NEW d \in Deciders, Call(d) PROVE TypeOK'
  <2>1. dec' \in [Deciders -> Decider]
    BY <1>10, BusyHasPost DEF Call, DecGoTo, Decider
  <2>. QED
    BY <1>10, <2>1 DEF Call
<1>11. ASSUME NEW d \in Deciders, Finish(d) PROVE TypeOK'
  <2>1. dec[d].post \in Posts
    BY <1>11, BusyHasPost DEF Finish
  <2>. QED
    BY <1>11, <2>1 DEF Finish, DecReturn, Decider, UpdateStatus, PostStatus
<1>12. ASSUME Interrupt PROVE TypeOK'
  <2>1. gen' \in [Generators -> Generator] /\ dec' \in [Deciders -> Decider]
    BY <1>12 DEF Interrupt, GenReturn, DecReturn, Generator, Decider
  <2>2. cut' \subseteq Posts
    BY <1>12, BusyHasPost DEF Interrupt
  <2>. QED
    BY <1>12, <2>1, <2>2 DEF Interrupt
<1>13. CASE UNCHANGED vars
  BY <1>13 DEF vars
<1>. QED
  BY <1>1, <1>2, <1>3, <1>4, <1>5, <1>6, <1>7, <1>8, <1>9, <1>10, <1>11, <1>12, <1>13
     DEF Next, Generating, Deciding, User

\* Every variable stays in its type.
THEOREM PostsTypeCorrect == Spec => []TypeOK
BY InitType, StepType, PTL DEF Spec

-----------------------------------------------------------------------------
(* Each publication has an approval of its own.                            *)

\* What finding a post, and asking, make of the decider.
LEMMA FindStep ==
  ASSUME TypeOK, NEW d \in Deciders, Find(d)
  PROVE  \E r \in Decider : dec' = [dec EXCEPT ![d] = r] /\ r.pc \in {"idle", "approve", "reject"}
<1>. DEFINE found(p) == [dec[d] EXCEPT !.pc = IF dec[d].ok THEN "approve" ELSE "reject", !.post = p]
<1>1. /\ dec \in [Deciders -> Decider]
      /\ dec[d] \in [pc : {"find", "reject", "approve", "check", "call", "store", "fail"},
                     post : Posts, ok : BOOLEAN, quoted : BOOLEAN]
  BY BusyHasPost DEF Find, TypeOK
<1>2. ASSUME NEW p \in Posts PROVE found(p) \in Decider /\ found(p).pc \in {"approve", "reject"}
  BY <1>1 DEF Decider
<1>3. (\E p \in Posts : dec' = [dec EXCEPT ![d] = found(p)]) \/ dec' = [dec EXCEPT ![d] = DecIdle]
  BY <1>1 DEF Find, FoundPost, DecReturn
<1>4. DecIdle \in Decider /\ DecIdle.pc = "idle"
  BY DEF Decider, DecIdle
<1>. HIDE DEF found
<1>. QED
  BY <1>2, <1>3, <1>4

LEMMA UserStep ==
  ASSUME TypeOK, NEW d \in Deciders, User(d)
  PROVE  /\ dec[d].pc = "idle"
         /\ \E r \in Decider : dec' = [dec EXCEPT ![d] = r] /\ r.pc \in {"find", "approve", "reject"}
<1>1. ASSUME NEW p \in Posts, NEW ok \in BOOLEAN, Press(d, p, ok)
      PROVE  \E r \in Decider : dec' = [dec EXCEPT ![d] = r] /\ r.pc \in {"find", "approve", "reject"}
  <2>. DEFINE r == [DecIdle EXCEPT !.pc = IF ok THEN "approve" ELSE "reject", !.post = p]
  <2>1. dec' = [dec EXCEPT ![d] = r]
    BY <1>1 DEF Press
  <2>2. r \in Decider
    BY DEF Decider, DecIdle
  <2>3. r \in Decider /\ r.pc \in {"find", "approve", "reject"}
    BY <2>2 DEF DecIdle
  <2>. HIDE DEF r
  <2>. QED
    BY <2>1, <2>3
<1>2. ASSUME NEW p \in Posts, NEW ok \in BOOLEAN, NEW quoted \in Quoting, Reply(d, p, ok, quoted)
      PROVE  \E r \in Decider : dec' = [dec EXCEPT ![d] = r] /\ r.pc \in {"find", "approve", "reject"}
  <2>. DEFINE r == [pc |-> "find", post |-> p, ok |-> ok, quoted |-> quoted]
  <2>1. dec' = [dec EXCEPT ![d] = r]
    BY <1>2 DEF Reply
  <2>2. r \in Decider /\ r.pc \in {"find", "approve", "reject"}
    BY Parameters DEF Decider
  <2>. HIDE DEF r
  <2>. QED
    BY <2>1, <2>2
<1>3. dec[d].pc = "idle"
  BY DEF User, Press, Reply
<1>. QED
  BY <1>1, <1>2, <1>3 DEF User

\* The approvals of p that are stored and have not reached the platform yet:
\* each may still post p once.
Owing(p) == {d \in Deciders : dec[d].post = p /\ dec[d].pc \in {"check", "call"}}

Covered == \A p \in Posts : posted[p] + Cardinality(Owing(p)) <= yes[p]

LEMMA InitCovered == Init => Covered
<1>. SUFFICES ASSUME Init, NEW p \in Posts PROVE posted[p] + Cardinality(Owing(p)) <= yes[p]
  BY DEF Covered
<1>1. Owing(p) = {}
  BY DEF Init, Owing, DecIdle
<1>. QED
  BY <1>1, FS_EmptySet DEF Init

\* If no decision starts to owe p, and p is neither posted nor approved, p
\* stays covered.
LEMMA NothingOwed ==
  ASSUME TypeOK, Covered, NEW p \in Posts, Owing(p)' \subseteq Owing(p),
         posted'[p] = posted[p], yes'[p] = yes[p]
  PROVE  (posted[p] + Cardinality(Owing(p)) <= yes[p])'
<1>1. IsFiniteSet(Owing(p))
  BY FS_Subset, Parameters DEF Owing
<1>2. Cardinality(Owing(p)') <= Cardinality(Owing(p)) /\ Cardinality(Owing(p)') \in Nat /\ Cardinality(Owing(p)) \in Nat
  BY <1>1, FS_Subset, FS_CardinalityType
<1>3. posted[p] \in Nat /\ yes[p] \in Nat
  BY DEF TypeOK
<1>4. posted[p] + Cardinality(Owing(p)) <= yes[p]
  BY DEF Covered
<1>. QED
  BY <1>2, <1>3, <1>4

LEMMA StepCovered == TypeOK /\ Covered /\ [Next]_vars => Covered'
<1>. SUFFICES ASSUME TypeOK, Covered, [Next]_vars, NEW p \in Posts
              PROVE  (posted[p] + Cardinality(Owing(p)) <= yes[p])'
  BY DEF Covered
<1>. DEFINE Same == posted'[p] = posted[p] /\ yes'[p] = yes[p] /\ Owing(p)' \subseteq Owing(p)
<1>0. dec \in [Deciders -> Decider] /\ posted[p] \in Nat /\ yes[p] \in Nat
      /\ posted \in [Posts -> Nat] /\ yes \in [Posts -> Nat]
  BY DEF TypeOK
<1>1. ASSUME NEW g \in Generators, Generating(g) PROVE Same
  BY <1>1 DEF Generating, Generate, Send, MarkPending, history, Owing
<1>2. ASSUME NEW d \in Deciders, Find(d) \/ Reject(d) \/ Check(d) \/ Finish(d) PROVE Same
  <2>1. posted' = posted /\ yes' = yes
    BY <1>2 DEF Find, Reject, Check, Finish, history
  <2>2. \A e \in Deciders \ {d} : dec'[e] = dec[e]
    BY <1>2, <1>0, FindStep DEF Reject, Check, Finish, DecReturn, DecGoTo
  <2>3. CASE Find(d)
    <3>1. dec'[d].pc \notin {"check", "call"}
      BY <2>3, <1>0, FindStep
    <3>. QED
      BY <2>1, <2>2, <3>1 DEF Owing
  <2>4. CASE Reject(d) \/ Finish(d)
    <3>1. dec'[d].pc \notin {"check", "call"}
      BY <2>4, <1>0 DEF Reject, Finish, DecReturn, DecIdle
    <3>. QED
      BY <2>1, <2>2, <3>1 DEF Owing
  <2>5. CASE Check(d)
    <3>1. dec[d].pc = "check"
      BY <2>5 DEF Check
    <3>2. dec'[d].post = dec[d].post \/ dec'[d].pc \notin {"check", "call"}
      BY <2>5, <1>0, BusyHasPost DEF Check, DecReturn, DecIdle, DecGoTo
    <3>. QED
      BY <2>1, <2>2, <3>1, <3>2 DEF Owing
  <2>. QED
    BY <1>2, <2>3, <2>4, <2>5
<1>3. ASSUME NEW d \in Deciders, User(d) PROVE Same
  <2>1. posted' = posted /\ yes' = yes
    BY <1>3 DEF User, Press, Reply
  <2>2. \A e \in Deciders \ {d} : dec'[e] = dec[e]
    BY <1>3, <1>0, UserStep
  <2>3. dec'[d].pc \notin {"check", "call"}
    BY <1>3, <1>0, UserStep
  <2>. QED
    BY <2>1, <2>2, <2>3 DEF Owing
<1>4. ASSUME NEW d \in Deciders, Approve(d) PROVE (posted[p] + Cardinality(Owing(p)) <= yes[p])'
  <2>1. dec[d].pc = "approve" /\ dec' = [dec EXCEPT ![d].pc = "check"] /\ posted' = posted
        /\ yes' = [yes EXCEPT ![dec[d].post] = @ + 1]
    BY <1>4 DEF Approve, DecGoTo
  <2>2. CASE dec[d].post # p
    <3>1. Owing(p)' \subseteq Owing(p)
      BY <2>1, <2>2, <1>0 DEF Owing
    <3>. QED
      BY <2>1, <2>2, <3>1, NothingOwed
  <2>3. CASE dec[d].post = p
    <3>1. Owing(p)' = Owing(p) \cup {d} /\ d \notin Owing(p)
      BY <2>1, <2>3, <1>0 DEF Owing, Decider
    <3>2. IsFiniteSet(Owing(p))
      BY FS_Subset, Parameters DEF Owing
    <3>3. Cardinality(Owing(p)') = Cardinality(Owing(p)) + 1 /\ Cardinality(Owing(p)) \in Nat
      BY <3>1, <3>2, FS_AddElement, FS_CardinalityType
    <3>4. yes'[p] = yes[p] + 1 /\ posted'[p] = posted[p]
      BY <2>1, <2>3, <1>0
    <3>5. posted[p] + Cardinality(Owing(p)) <= yes[p]
      BY DEF Covered
    <3>. QED
      BY <3>3, <3>4, <3>5, <1>0
  <2>. QED
    BY <2>2, <2>3
<1>5. ASSUME NEW d \in Deciders, Call(d) PROVE (posted[p] + Cardinality(Owing(p)) <= yes[p])'
  <2>1. /\ dec[d].pc = "call"
        /\ \E pc \in {"store", "fail"} : dec' = [dec EXCEPT ![d].pc = pc]
        /\ posted' \in {posted, [posted EXCEPT ![dec[d].post] = @ + 1]}
        /\ yes' = yes
    BY <1>5 DEF Call, DecGoTo
  <2>2. Owing(p)' \subseteq Owing(p)
    BY <2>1, <1>0 DEF Owing, Decider
  <2>3. CASE posted'[p] = posted[p]
    BY <2>1, <2>2, <2>3, NothingOwed
  <2>4. CASE posted'[p] # posted[p]
    <3>1. dec[d].post = p /\ posted'[p] = posted[p] + 1
      BY <2>1, <2>4, <1>0
    <3>2. d \in Owing(p) /\ Owing(p)' \subseteq Owing(p) \ {d}
      BY <2>1, <3>1, <1>0 DEF Owing, Decider
    <3>3. IsFiniteSet(Owing(p))
      BY FS_Subset, Parameters DEF Owing
    <3>4. IsFiniteSet(Owing(p) \ {d}) /\ Cardinality(Owing(p) \ {d}) = Cardinality(Owing(p)) - 1
      BY <3>2, <3>3, FS_RemoveElement
    <3>5. Cardinality(Owing(p)') <= Cardinality(Owing(p) \ {d}) /\ Cardinality(Owing(p)') \in Nat
      BY <3>2, <3>4, FS_Subset, FS_CardinalityType
    <3>6. posted[p] + Cardinality(Owing(p)) <= yes[p] /\ Cardinality(Owing(p)) \in Nat
      BY <3>3, FS_CardinalityType DEF Covered
    <3>. QED
      BY <3>1, <3>4, <3>5, <3>6, <2>1, <1>0
  <2>. QED
    BY <2>3, <2>4
<1>6. ASSUME Interrupt PROVE Same
  BY <1>6, <1>0 DEF Interrupt, DecReturn, DecIdle, Owing
<1>7. CASE UNCHANGED vars
  <2>1. Same
    BY <1>7 DEF vars, Owing
  <2>. QED
    BY <2>1, NothingOwed
<1>. QED
  BY <1>1, <1>2, <1>3, <1>4, <1>5, <1>6, <1>7, NothingOwed DEF Next, Deciding

\* OneYesOnePost: a post appears on the platform at most as often as an
\* approval of it was stored.
THEOREM PostsNeedApproval == Spec => []OneYesOnePost
<1>1. TypeOK /\ Covered => OneYesOnePost
  <2>. SUFFICES ASSUME TypeOK, Covered, NEW p \in Posts PROVE posted[p] <= yes[p]
    BY DEF OneYesOnePost
  <2>1. IsFiniteSet(Owing(p))
    BY FS_Subset, Parameters DEF Owing
  <2>2. Cardinality(Owing(p)) \in Nat /\ posted[p] \in Nat /\ yes[p] \in Nat
    BY <2>1, FS_CardinalityType DEF TypeOK
  <2>. QED
    BY <2>2 DEF Covered
<1>. QED
  BY <1>1, InitType, StepType, InitCovered, StepCovered, PTL DEF Spec

-----------------------------------------------------------------------------
(* An approved post is in hand.                                            *)

LEMMA StepInHand ==
  ASSUME Connected
  PROVE  TypeOK /\ ApprovedInHand /\ [Next]_vars => ApprovedInHand'
<1>. SUFFICES ASSUME TypeOK, ApprovedInHand, [Next]_vars, NEW p \in Posts, status'[p] = "approved", p \notin cut'
              PROVE  \E d \in Deciders : InHand(d, p)'
  BY DEF ApprovedInHand
<1>0. dec \in [Deciders -> Decider] /\ status \in [Posts -> PostStatus] /\ p \notin cut
  <2>1. cut \subseteq cut'
    BY DEF Next, Generating, Generate, Send, MarkPending, Deciding, Find, Reject, Approve, Check, Call,
           Finish, User, Press, Reply, Interrupt, vars, history
  <2>. QED
    BY <2>1 DEF TypeOK
\* A decider that has p in hand keeps it as long as nobody lets go of it.
<1>1. ASSUME status[p] = "approved", \A d \in Deciders : InHand(d, p) => InHand(d, p)'
      PROVE  \E d \in Deciders : InHand(d, p)'
  BY <1>0, <1>1 DEF ApprovedInHand
<1>2. ASSUME NEW g \in Generators, Generating(g) PROVE \E d \in Deciders : InHand(d, p)'
  <2>1. dec' = dec /\ status[p] = "approved"
    BY <1>2, <1>0 DEF Generating, Generate, Send, MarkPending, UpdateStatus
  <2>. QED
    BY <2>1, <1>1 DEF InHand
<1>3. ASSUME NEW d \in Deciders, Find(d) \/ User(d) PROVE \E e \in Deciders : InHand(e, p)'
  <2>1. status' = status /\ ~InHand(d, p)
    BY <1>3 DEF Find, User, Press, Reply, InHand
  <2>2. \A e \in Deciders \ {d} : dec'[e] = dec[e]
    BY <1>3, <1>0, FindStep, UserStep
  <2>. QED
    BY <2>1, <2>2, <1>1 DEF InHand
<1>4. ASSUME NEW d \in Deciders, Reject(d) PROVE \E e \in Deciders : InHand(e, p)'
  <2>1. status[p] = "approved" /\ ~InHand(d, p) /\ \A e \in Deciders \ {d} : dec'[e] = dec[e]
    BY <1>4, <1>0 DEF Reject, DecReturn, UpdateStatus, InHand
  <2>. QED
    BY <2>1, <1>1 DEF InHand
<1>5. ASSUME NEW d \in Deciders, Approve(d) PROVE \E e \in Deciders : InHand(e, p)'
  <2>1. CASE dec[d].post = p
    <3>1. InHand(d, p)'
      BY <1>5, <2>1, <1>0 DEF Approve, DecGoTo, InHand, Decider
    <3>. QED
      BY <3>1
  <2>2. CASE dec[d].post # p
    <3>1. status[p] = "approved" /\ ~InHand(d, p) /\ \A e \in Deciders \ {d} : dec'[e] = dec[e]
      BY <1>5, <2>2, <1>0 DEF Approve, DecGoTo, UpdateStatus, InHand
    <3>. QED
      BY <3>1, <1>1 DEF InHand
  <2>. QED
    BY <2>1, <2>2
<1>6. ASSUME NEW d \in Deciders, Check(d) PROVE \E e \in Deciders : InHand(e, p)'
  <2>1. status[p] = "approved" /\ \A e \in Deciders \ {d} : dec'[e] = dec[e]
    BY <1>6, <1>0 DEF Check, DecGoTo, DecReturn
  <2>2. InHand(d, p) => InHand(d, p)'
    BY <1>6, <2>1, <1>0, BusyHasPost DEF Check, DecGoTo, DecReturn, InHand
  <2>. QED
    BY <2>1, <2>2, <1>1 DEF InHand
<1>7. ASSUME NEW d \in Deciders, Call(d) PROVE \E e \in Deciders : InHand(e, p)'
  <2>1. status[p] = "approved" /\ \A e \in Deciders \ {d} : dec'[e] = dec[e]
    BY <1>7, <1>0 DEF Call, DecGoTo
  <2>2. InHand(d, p) => InHand(d, p)'
    BY <1>7, <1>0, BusyHasPost DEF Call, DecGoTo, InHand
  <2>. QED
    BY <2>1, <2>2, <1>1 DEF InHand
<1>8. ASSUME NEW d \in Deciders, Finish(d) PROVE \E e \in Deciders : InHand(e, p)'
  <2>1. dec[d].post # p /\ status[p] = "approved" /\ \A e \in Deciders \ {d} : dec'[e] = dec[e]
    BY <1>8, <1>0 DEF Finish, UpdateStatus, DecReturn
  <2>. QED
    BY <2>1, <1>1 DEF InHand
<1>9. ASSUME Interrupt PROVE \E e \in Deciders : InHand(e, p)'
  <2>1. status' = status /\ \A d \in Deciders : InHand(d, p) => dec'[d] = dec[d]
    BY <1>9, <1>0 DEF Interrupt, DecReturn, InHand
  <2>. QED
    BY <2>1, <1>1 DEF InHand
<1>10. CASE UNCHANGED vars
  BY <1>10, <1>1 DEF vars, InHand
<1>. QED
  BY <1>2, <1>3, <1>4, <1>5, <1>6, <1>7, <1>8, <1>9, <1>10 DEF Next, Deciding

\* ApprovedInHand: if the accounts are configured, an approved post is being
\* published unless a decision about it was cut off.
THEOREM ApprovedIsInHand == Connected => (Spec => []ApprovedInHand)
<1>. SUFFICES ASSUME Connected PROVE Spec => []ApprovedInHand
  OBVIOUS
<1>1. Init => ApprovedInHand
  BY DEF Init, ApprovedInHand
<1>. QED
  BY <1>1, InitType, StepType, StepInHand, PTL DEF Spec

-----------------------------------------------------------------------------
(* What is stored as published, and what the user wanted.                  *)

\* The answer the platform gave is remembered until it is stored.
Answered ==
  /\ PublishedIsPosted
  /\ \A d \in Deciders : dec[d].pc = "store" => posted[dec[d].post] >= 1

\* A decider on its way to the platform carries what the user said.
MayPost(r) == r.pc \in {"approve", "check", "call"} \/ (r.pc = "find" /\ r.ok)

Carried == \A d \in Deciders : MayPost(dec[d]) => said[dec[d].post] \in {"yes", "unclear"}

LEMMA InitAnswered == Init => Answered /\ Carried
BY DEF Init, Answered, Carried, PublishedIsPosted, DecIdle, MayPost

\* Appearances on the platform are not undone.
LEMMA PostedGrows == TypeOK /\ [Next]_vars => \A p \in Posts : posted'[p] >= posted[p]
<1>. SUFFICES ASSUME TypeOK, [Next]_vars PROVE \A p \in Posts : posted'[p] >= posted[p]
  OBVIOUS
<1>0. posted \in [Posts -> Nat]
  BY DEF TypeOK
<1>1. posted' = posted \/ \E p \in Posts : posted' = [posted EXCEPT ![p] = @ + 1]
  <2>1. ASSUME NEW d \in Deciders, Call(d) PROVE posted' = posted \/ \E p \in Posts : posted' = [posted EXCEPT ![p] = @ + 1]
    BY <2>1, BusyHasPost DEF Call
  <2>. QED
    BY <2>1 DEF Next, Generating, Generate, Send, MarkPending, Deciding, Find, Reject, Approve, Check,
                Finish, User, Press, Reply, Interrupt, vars, history
<1>. QED
  BY <1>0, <1>1

LEMMA StepAnswered == TypeOK /\ Answered /\ [Next]_vars => Answered'
<1>. SUFFICES ASSUME TypeOK, Answered, [Next]_vars PROVE Answered'
  OBVIOUS
<1>0. dec \in [Deciders -> Decider] /\ posted \in [Posts -> Nat] /\ done \subseteq Posts
  BY DEF TypeOK
<1>1. \A p \in Posts : posted[p] >= 1 => posted'[p] >= 1
  <2>1. \A p \in Posts : posted[p] \in Nat /\ posted'[p] >= posted[p] /\ posted'[p] \in Nat
    BY <1>0, PostedGrows, StepType DEF TypeOK
  <2>. QED
    BY <2>1
\* It suffices to look at who comes to store, and at what is new in done.
<1>2. ASSUME \A p \in done' : p \in done \/ \E d \in Deciders : dec[d].pc = "store" /\ dec[d].post = p,
             \A d \in Deciders : dec'[d].pc = "store" => dec'[d] = dec[d] \/ posted'[dec'[d].post] >= 1
      PROVE  Answered'
  <2>1. \A d \in Deciders : dec[d].pc = "store" => dec[d].post \in Posts /\ posted'[dec[d].post] >= 1
    BY <1>1, BusyHasPost DEF Answered
  <2>. QED
    BY <1>0, <1>1, <1>2, <2>1 DEF Answered, PublishedIsPosted
<1>3. ASSUME NEW g \in Generators, Generating(g) PROVE Answered'
  BY <1>3, <1>2 DEF Generating, Generate, Send, MarkPending, history
<1>4. ASSUME NEW d \in Deciders, Find(d) \/ User(d) PROVE Answered'
  <2>1. done' = done
    BY <1>4 DEF Find, User, Press, Reply
  <2>2. dec'[d].pc # "store" /\ \A e \in Deciders \ {d} : dec'[e] = dec[e]
    BY <1>4, <1>0, FindStep, UserStep
  <2>. QED
    BY <2>1, <2>2, <1>2
<1>5. ASSUME NEW d \in Deciders, Reject(d) \/ Approve(d) \/ Check(d) \/ Finish(d) PROVE Answered'
  <2>1. \A p \in done' : p \in done \/ (dec[d].pc = "store" /\ dec[d].post = p)
    BY <1>5 DEF Reject, Approve, Check, Finish, history
  <2>2. dec'[d].pc # "store" /\ \A e \in Deciders \ {d} : dec'[e] = dec[e]
    BY <1>5, <1>0, BusyHasPost DEF Reject, Approve, Check, Finish, DecReturn, DecGoTo, DecIdle
  <2>. QED
    BY <2>1, <2>2, <1>2
<1>6. ASSUME NEW d \in Deciders, Call(d) PROVE Answered'
  <2>1. done' = done /\ \A e \in Deciders \ {d} : dec'[e] = dec[e]
    BY <1>6, <1>0 DEF Call, DecGoTo
  <2>2. dec[d].post \in Posts /\ dec[d] \in [pc : {"find", "reject", "approve", "check", "call", "store", "fail"},
             post : Posts, ok : BOOLEAN, quoted : BOOLEAN]
    BY <1>6, BusyHasPost DEF Call
  <2>3. dec'[d].pc = "store" => posted' = [posted EXCEPT ![dec[d].post] = @ + 1] /\ dec'[d].post = dec[d].post
    BY <1>6, <1>0, <2>2 DEF Call, DecGoTo
  <2>4. dec'[d].pc = "store" => posted'[dec'[d].post] >= 1
    BY <1>0, <2>2, <2>3
  <2>. QED
    BY <2>1, <2>4, <1>2
<1>7. ASSUME Interrupt PROVE Answered'
  <2>1. done' = done /\ \A d \in Deciders : dec'[d] = dec[d] \/ dec'[d] = DecIdle
    BY <1>7, <1>0 DEF Interrupt, DecReturn
  <2>. QED
    BY <2>1, <1>2 DEF DecIdle
<1>8. CASE UNCHANGED vars
  BY <1>8, <1>2 DEF vars
<1>. QED
  BY <1>3, <1>4, <1>5, <1>6, <1>7, <1>8 DEF Next, Deciding

\* PublishedIsPosted: a post is stored as published only after the platform
\* confirmed that it is there.
THEOREM StoredIsThere == Spec => []PublishedIsPosted
<1>1. Answered => PublishedIsPosted
  BY DEF Answered
<1>. QED
  BY <1>1, InitType, StepType, InitAnswered, StepAnswered, PTL DEF Spec

LEMMA StepCarried == TypeOK /\ Carried /\ [Next]_vars => Carried'
<1>. SUFFICES ASSUME TypeOK, Carried, [Next]_vars, NEW d \in Deciders, MayPost(dec'[d])
              PROVE  said'[dec'[d].post] \in {"yes", "unclear"}
  BY DEF Carried
<1>. DEFINE Heard(p) == said'[p] \in {"yes", "unclear"}
<1>0. dec \in [Deciders -> Decider] /\ said \in [Posts -> {"nothing", "yes", "no", "unclear"}]
  BY DEF TypeOK
<1>1. MayPost(dec[d]) => dec[d].post \in Posts /\ said[dec[d].post] \in {"yes", "unclear"}
  BY BusyHasPost DEF Carried, MayPost
\* As long as said is kept, or becomes unclear, a decider that had its post
\* still carries it.
<1>2. ASSUME MayPost(dec[d]), dec'[d].post = dec[d].post,
             \A p \in Posts : said'[p] = said[p] \/ said'[p] = "unclear"
      PROVE  Heard(dec'[d].post)
  BY <1>1, <1>2
<1>3. ASSUME NEW g \in Generators, Generating(g) PROVE Heard(dec'[d].post)
  BY <1>2, <1>3 DEF Generating, Generate, Send, MarkPending, history
<1>4. ASSUME NEW e \in Deciders, Find(e) PROVE Heard(dec'[d].post)
  <2>0. \A p \in Posts : said'[p] = said[p] \/ said'[p] = "unclear"
    BY <1>4, <1>0 DEF Find, Unclear
  <2>1. CASE d # e
    <3>1. dec'[d] = dec[d]
      BY <1>4, <2>1, <1>0, FindStep
    <3>. QED
      BY <1>2, <2>0, <3>1
  <2>2. CASE d = e
    <3>1. dec[d] \in [pc : {"find", "reject", "approve", "check", "call", "store", "fail"},
                      post : Posts, ok : BOOLEAN, quoted : BOOLEAN] /\ dec[d].pc = "find"
      BY <1>4, <2>2, BusyHasPost DEF Find
    <3>2. ASSUME NEW p \in Posts, FoundPost(d, p, "approve") PROVE dec'[d].post = p /\ dec[d].ok
      <4>1. dec'[d] = [dec[d] EXCEPT !.pc = IF dec[d].ok THEN "approve" ELSE "reject", !.post = p]
        BY <3>2, <1>0 DEF FoundPost
      <4>2. dec'[d].pc = (IF dec[d].ok THEN "approve" ELSE "reject") /\ dec'[d].post = p
        BY <3>1, <4>1
      <4>. QED
        BY <4>2 DEF MayPost
    <3>3. ~DecReturn(d)
      BY <1>0 DEF DecReturn, DecIdle, MayPost
    <3>4. CASE dec[d].quoted /\ FoundPost(d, dec[d].post, "approve")
      BY <1>2, <2>0, <3>1, <3>2, <3>4 DEF MayPost
    <3>5. CASE \E p \in Posts : FoundPost(d, p, "approve") /\ Unclear(p)
      BY <3>2, <3>5, <1>0 DEF Unclear
    <3>. QED
      BY <1>4, <2>2, <3>3, <3>4, <3>5 DEF Find
  <2>. QED
    BY <2>1, <2>2
<1>5. ASSUME NEW e \in Deciders, NEW p \in Posts, NEW ok \in BOOLEAN, Ask(p, ok), dec[e].pc = "idle",
             dec'[e].post = p, MayPost(dec'[e]) => ok, \A f \in Deciders \ {e} : dec'[f] = dec[f]
      PROVE  Heard(dec'[d].post)
  <2>1. \A q \in Posts : q # p => said'[q] = said[q]
    BY <1>5, <1>0 DEF Ask
  <2>2. said'[p] = IF \E f \in Deciders : dec[f].post = p THEN "unclear" ELSE IF ok THEN "yes" ELSE "no"
    BY <1>5, <1>0 DEF Ask
  <2>3. CASE d = e
    BY <1>5, <2>2, <2>3
  <2>4. CASE d # e
    <3>1. dec'[d] = dec[d]
      BY <1>5, <2>4
    <3>2. dec[d].post = p => said'[p] = "unclear"
      BY <2>2
    <3>. QED
      BY <1>1, <2>1, <3>1, <3>2
  <2>. QED
    BY <2>3, <2>4
<1>6. ASSUME NEW e \in Deciders, User(e) PROVE Heard(dec'[d].post)
  <2>1. ASSUME NEW p \in Posts, NEW ok \in BOOLEAN, Press(e, p, ok) PROVE Heard(dec'[d].post)
    <3>1. dec'[e] = [DecIdle EXCEPT !.pc = IF ok THEN "approve" ELSE "reject", !.post = p]
          /\ \A f \in Deciders \ {e} : dec'[f] = dec[f]
      BY <2>1, <1>0 DEF Press
    <3>2. dec'[e].post = p /\ (MayPost(dec'[e]) => ok)
      BY <3>1 DEF DecIdle, MayPost
    <3>. QED
      BY <1>5, <2>1, <3>1, <3>2 DEF Press
  <2>2. ASSUME NEW p \in Posts, NEW ok \in BOOLEAN, NEW quoted \in Quoting, Reply(e, p, ok, quoted)
        PROVE  Heard(dec'[d].post)
    <3>1. dec'[e] = [pc |-> "find", post |-> p, ok |-> ok, quoted |-> quoted]
          /\ \A f \in Deciders \ {e} : dec'[f] = dec[f]
      BY <2>2, <1>0 DEF Reply
    <3>2. dec'[e].post = p /\ (MayPost(dec'[e]) => ok)
      BY <3>1 DEF MayPost
    <3>. QED
      BY <1>5, <2>2, <3>1, <3>2 DEF Reply
  <2>. QED
    BY <1>6, <2>1, <2>2 DEF User
<1>7. ASSUME NEW e \in Deciders, Reject(e) \/ Approve(e) \/ Check(e) \/ Call(e) \/ Finish(e) PROVE Heard(dec'[d].post)
  <2>1. said' = said
    BY <1>7 DEF Reject, Approve, Check, Call, Finish, history
  <2>2. MayPost(dec[d]) /\ dec'[d].post = dec[d].post
    <3>1. CASE d # e
      <4>1. dec'[d] = dec[d]
        BY <1>7, <3>1, <1>0 DEF Reject, Approve, Check, Call, Finish, DecReturn, DecGoTo
      <4>. QED
        BY <4>1
    <3>2. CASE d = e
      <4>1. dec'[d] # DecIdle
        BY DEF DecIdle, MayPost
      <4>2. dec[d].pc \in {"approve", "check", "call"}
        BY <1>7, <3>2, <4>1, <1>0 DEF Reject, Approve, Check, Call, Finish, DecReturn
      <4>3. \E pc \in {"check", "call", "store", "fail"} : dec'[d] = [dec[d] EXCEPT !.pc = pc]
        BY <1>7, <3>2, <4>1, <1>0 DEF Reject, Approve, Check, Call, Finish, DecReturn, DecGoTo
      <4>. QED
        BY <4>2, <4>3 DEF MayPost
    <3>. QED
      BY <3>1, <3>2
  <2>. QED
    BY <1>2, <2>1, <2>2
<1>8. ASSUME Interrupt PROVE Heard(dec'[d].post)
  <2>1. said' = said /\ (dec'[d] = dec[d] \/ dec'[d] = DecIdle)
    BY <1>8, <1>0 DEF Interrupt, DecReturn
  <2>2. dec'[d] # DecIdle
    BY DEF DecIdle, MayPost
  <2>. QED
    BY <1>2, <2>1, <2>2
<1>9. CASE UNCHANGED vars
  BY <1>9, <1>2 DEF vars
<1>. QED
  BY <1>3, <1>4, <1>6, <1>7, <1>8, <1>9 DEF Next, Deciding

\* OnlyWanted: what reaches the platform is what the user approved, unless
\* decisions about it overlapped or one did not name its post.
THEOREM OnlyApprovedIsPosted == Spec => OnlyWanted
<1>. DEFINE Wanted == \A p \in Posts : posted'[p] > posted[p] => said[p] \in {"yes", "unclear"}
<1>1. ASSUME TypeOK, Carried, [Next]_vars PROVE Wanted
  <2>0. posted \in [Posts -> Nat]
    BY <1>1 DEF TypeOK
  <2>1. ASSUME NEW d \in Deciders, Call(d) PROVE Wanted
    <3>1. posted' \in {posted, [posted EXCEPT ![dec[d].post] = @ + 1]} /\ MayPost(dec[d])
      BY <2>1 DEF Call, MayPost
    <3>2. said[dec[d].post] \in {"yes", "unclear"}
      BY <1>1, <3>1 DEF Carried
    <3>. QED
      BY <2>0, <3>1, <3>2
  <2>2. CASE posted' = posted
    BY <2>0, <2>2
  <2>3. posted' = posted \/ \E d \in Deciders : Call(d)
    BY <1>1 DEF Next, Generating, Generate, Send, MarkPending, Deciding, Find, Reject, Approve, Check,
                Finish, User, Press, Reply, Interrupt, vars, history
  <2>. QED
    BY <2>1, <2>2, <2>3
<1>2. TypeOK /\ Carried /\ [Next]_vars => [Wanted]_vars
  BY <1>1
<1>. QED
  BY <1>2, InitType, StepType, InitAnswered, StepCarried, PTL DEF Spec, OnlyWanted

=============================================================================
