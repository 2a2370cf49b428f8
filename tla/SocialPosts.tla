----------------------------- MODULE SocialPosts -----------------------------
(***************************************************************************)
(* The posts of the social automation: they are generated, announced on    *)
(* WhatsApp, approved or rejected there or in the application, and given   *)
(* to Facebook or Instagram.                                               *)
(*                                                                         *)
(* Each SQL statement and each call of the Meta API is one step.           *)
(* Generators are the scheduler and the "generate now" requests; Deciders  *)
(* are the approve and reject requests and the goroutines of the webhook.  *)
(* All posts belong to one user.                                           *)
(***************************************************************************)
EXTENDS Integers, FiniteSets

CONSTANTS
  NPosts,       \* bound: posts that may be generated
  Generators, Deciders,
  MaxOpen,      \* decisions in hand at a time
  MaxAsks,      \* bound: decisions of the user
  Quoting,      \* whether a WhatsApp reply quotes the id: a subset of BOOLEAN
  Connected,    \* whether the Meta accounts are configured
  Interrupts    \* whether the context of a handler may be cancelled

ASSUME Parameters ==
  /\ NPosts \in Nat /\ MaxOpen \in Nat /\ MaxAsks \in Nat
  /\ Quoting \subseteq BOOLEAN /\ Connected \in BOOLEAN /\ Interrupts \in BOOLEAN
  /\ IsFiniteSet(Deciders)

VARIABLES
  status,   \* laele_social_posts: the status of each post, in order of creation
  created,  \* how many posts exist
  gen,      \* generators
  dec,      \* deciders
  sent,     \* posts whose approval message reached the user
  said,     \* the last word of the user about a post, "unclear" when decisions
            \* about it overlap or one did not name its post (history)
  yes,      \* how often a post was stored as approved (history)
  posted,   \* how often a post appeared on the platform (history)
  done,     \* posts that were stored as published (history)
  cut,      \* posts of which a decision was cut off (history)
  asks

vars == <<status, created, gen, dec, sent, said, yes, posted, done, cut, asks>>
history == <<sent, said, yes, posted, done, cut, asks>>

-----------------------------------------------------------------------------

NoPost == 0
Posts  == 1..NPosts
Exists(p) == p <= created

\* "new" is a row not yet created; StatusGenerating is declared, never stored.
PostStatus == {"new", "pending_approval", "approved", "rejected", "published", "failed"}

GenIdle == [pc |-> "idle", post |-> NoPost]
DecIdle == [pc |-> "idle", post |-> NoPost, ok |-> FALSE, quoted |-> FALSE]

Generator == {GenIdle} \cup [pc : {"send", "mark"}, post : Posts]
Decider   == {DecIdle} \cup
  [pc : {"find", "reject", "approve", "check", "call", "store", "fail"},
   post : Posts, ok : BOOLEAN, quoted : BOOLEAN]

Init ==
  /\ status = [p \in Posts |-> "new"]
  /\ created = 0
  /\ gen = [g \in Generators |-> GenIdle]
  /\ dec = [d \in Deciders |-> DecIdle]
  /\ sent = {}
  /\ said = [p \in Posts |-> "nothing"]
  /\ yes = [p \in Posts |-> 0]
  /\ posted = [p \in Posts |-> 0]
  /\ done = {}
  /\ cut = {}
  /\ asks = 0

UpdateStatus(p, s) == status' = [status EXCEPT ![p] = s]
DecGoTo(d, pc)     == dec' = [dec EXCEPT ![d].pc = pc]
DecReturn(d)       == dec' = [dec EXCEPT ![d] = DecIdle]
GenReturn(g)       == gen' = [gen EXCEPT ![g] = GenIdle]

-----------------------------------------------------------------------------
(* Generation.                                                             *)

\* Mutant: the post is stored while its text is still being generated.
MutGenerate(g) ==
  LET p == created + 1 IN
  /\ gen[g].pc = "idle" /\ created < NPosts
  /\ created' = p
  /\ UpdateStatus(p, "generating")
  /\ \/ gen' = [gen EXCEPT ![g] = [pc |-> "send", post |-> p]]
     \/ UNCHANGED gen
  /\ UNCHANGED <<dec, history>>

\* GenerateAndStore; there may be no phone number to send the post to.
Generate(g) ==
  LET p == created + 1 IN
  /\ gen[g].pc = "idle" /\ created < NPosts
  /\ created' = p
  /\ UpdateStatus(p, "pending_approval")
  /\ \/ gen' = [gen EXCEPT ![g] = [pc |-> "send", post |-> p]]
     \/ UNCHANGED gen
  /\ UNCHANGED <<dec, history>>

\* SendWhatsAppText; a call that ends in an error may have been carried out.
Send(g) ==
  /\ gen[g].pc = "send"
  /\ \/ gen' = [gen EXCEPT ![g].pc = "mark"] /\ sent' = sent \cup {gen[g].post}
     \/ GenReturn(g) /\ sent' \in {sent, sent \cup {gen[g].post}}
  /\ UNCHANGED <<status, created, dec, said, yes, posted, done, cut, asks>>

\* approval_sent_at is stored together with the status pending_approval.
MarkPending(g) ==
  /\ gen[g].pc = "mark"
  /\ UpdateStatus(gen[g].post, "pending_approval")
  /\ GenReturn(g)
  /\ UNCHANGED <<created, dec, history>>

-----------------------------------------------------------------------------
(* Decisions.                                                              *)

\* The user decides about post p.
Ask(p, ok) ==
  /\ Exists(p) /\ asks < MaxAsks
  /\ Cardinality({d \in Deciders : dec[d].pc # "idle"}) < MaxOpen
  /\ asks' = asks + 1
  /\ said' = [said EXCEPT ![p] = IF \E d \in Deciders : dec[d].post = p THEN "unclear"
                                ELSE IF ok THEN "yes" ELSE "no"]

\* ... in the application: POST .../approve or .../reject.
Press(d, p, ok) ==
  /\ dec[d].pc = "idle" /\ Ask(p, ok)
  /\ dec' = [dec EXCEPT ![d] = [DecIdle EXCEPT !.pc = IF ok THEN "approve" ELSE "reject", !.post = p]]
  /\ UNCHANGED <<status, created, gen, sent, yes, posted, done, cut>>

\* ... or as an answer to the message about p.
Reply(d, p, ok, quoted) ==
  /\ dec[d].pc = "idle" /\ p \in sent /\ Ask(p, ok)
  /\ dec' = [dec EXCEPT ![d] = [pc |-> "find", post |-> p, ok |-> ok, quoted |-> quoted]]
  /\ UNCHANGED <<status, created, gen, sent, yes, posted, done, cut>>

Pending == {p \in Posts : status[p] = "pending_approval"}

Latest(p) == p \in Pending /\ \A q \in Pending : q <= p

FoundPost(d, p, yesStep) ==
  dec' = [dec EXCEPT ![d].pc = IF dec[d].ok THEN yesStep ELSE "reject", ![d].post = p]

Unclear(p) == said' = [said EXCEPT ![p] = "unclear"]

\* Mutants: a reply publishes without approving; the quoted id is not used.
MutFindPublish(d) ==
  /\ dec[d].pc = "find"
  /\ \/ dec[d].quoted /\ FoundPost(d, dec[d].post, "check") /\ UNCHANGED said
     \/ ~dec[d].quoted /\ \E p \in Posts : Latest(p) /\ FoundPost(d, p, "check") /\ Unclear(p)
     \/ ~dec[d].quoted /\ Pending = {} /\ DecReturn(d) /\ UNCHANGED said
  /\ UNCHANGED <<status, created, gen, sent, yes, posted, done, cut, asks>>
MutFindQuote(d) ==
  /\ dec[d].pc = "find"
  /\ \/ \E p \in Posts : Latest(p) /\ FoundPost(d, p, "approve") /\ (IF dec[d].quoted THEN UNCHANGED said ELSE Unclear(p))
     \/ Pending = {} /\ DecReturn(d) /\ UNCHANGED said
  /\ UNCHANGED <<status, created, gen, sent, yes, posted, done, cut, asks>>

\* HandleWhatsAppReply: the post of the quoted id, else the latest pending one.
Find(d) ==
  /\ dec[d].pc = "find"
  /\ \/ dec[d].quoted /\ FoundPost(d, dec[d].post, "approve") /\ UNCHANGED said
     \/ ~dec[d].quoted /\ \E p \in Posts : Latest(p) /\ FoundPost(d, p, "approve") /\ Unclear(p)
     \/ ~dec[d].quoted /\ Pending = {} /\ DecReturn(d) /\ UNCHANGED said
  /\ UNCHANGED <<status, created, gen, sent, yes, posted, done, cut, asks>>

\* RejectPost, whatever the status.
Reject(d) ==
  /\ dec[d].pc = "reject"
  /\ UpdateStatus(dec[d].post, "rejected")
  /\ DecReturn(d)
  /\ UNCHANGED <<created, gen, history>>

\* ApprovePost, whatever the status.
Approve(d) ==
  /\ dec[d].pc = "approve"
  /\ UpdateStatus(dec[d].post, "approved")
  /\ yes' = [yes EXCEPT ![dec[d].post] = @ + 1]
  /\ DecGoTo(d, "check")
  /\ UNCHANGED <<created, gen, sent, said, posted, done, cut, asks>>

\* Mutant: Execute wants posts that are waiting for approval.
MutCheck(d) ==
  /\ dec[d].pc = "check"
  /\ \/ status[dec[d].post] = "pending_approval" /\ Connected /\ DecGoTo(d, "call")
     \/ status[dec[d].post] # "pending_approval" /\ DecReturn(d)
     \/ ~Connected /\ DecReturn(d)
  /\ UNCHANGED <<status, created, gen, history>>

\* PublishPost.Execute reads the post again, then the accounts.
Check(d) ==
  LET ready == status[dec[d].post] \in {"approved", "pending_approval"} IN
  /\ dec[d].pc = "check"
  /\ IF ready /\ Connected THEN DecGoTo(d, "call") ELSE DecReturn(d)
  /\ UNCHANGED <<status, created, gen, history>>

\* PostFacebookPage or PostInstagramMedia; an error may hide a success.
Call(d) ==
  LET p == dec[d].post IN
  /\ dec[d].pc = "call"
  /\ \/ DecGoTo(d, "store") /\ posted' = [posted EXCEPT ![p] = @ + 1]
     \/ DecGoTo(d, "fail")  /\ posted' \in {posted, [posted EXCEPT ![p] = @ + 1]}
  /\ UNCHANGED <<status, created, gen, sent, said, yes, done, cut, asks>>

\* The outcome is stored, whatever the status has become.
Finish(d) ==
  /\ dec[d].pc \in {"store", "fail"}
  /\ IF dec[d].pc = "store"
       THEN UpdateStatus(dec[d].post, "published") /\ done' = done \cup {dec[d].post}
       ELSE UpdateStatus(dec[d].post, "failed") /\ UNCHANGED done
  /\ DecReturn(d)
  /\ UNCHANGED <<created, gen, sent, said, yes, posted, cut, asks>>

\* The context is cancelled: the client of a request is gone, the webhook has
\* answered, a timeout is reached or the process dies.  The next statement fails.
Interrupt ==
  /\ Interrupts
  /\ \/ \E g \in Generators : gen[g].pc # "idle" /\ GenReturn(g) /\ UNCHANGED <<dec, cut>>
     \/ \E d \in Deciders :
          dec[d].pc # "idle" /\ DecReturn(d) /\ cut' = cut \cup {dec[d].post} /\ UNCHANGED gen
  /\ UNCHANGED <<status, created, sent, said, yes, posted, done, asks>>

-----------------------------------------------------------------------------

Generating(g) == Generate(g) \/ Send(g) \/ MarkPending(g)

Deciding(d) == Find(d) \/ Reject(d) \/ Approve(d) \/ Check(d) \/ Call(d) \/ Finish(d)

User(d) ==
  \E p \in Posts, ok \in BOOLEAN :
    Press(d, p, ok) \/ \E quoted \in Quoting : Reply(d, p, ok, quoted)

Next ==
  \/ \E g \in Generators : Generating(g)
  \/ \E d \in Deciders : Deciding(d) \/ User(d)
  \/ Interrupt

Spec == Init /\ [][Next]_vars

\* The runtime schedules every handler and goroutine, and the client of the
\* Meta API has a timeout, so its calls return.
FairSpec == Spec /\ \A d \in Deciders : WF_vars(Deciding(d))

-----------------------------------------------------------------------------
(* Properties.                                                             *)

TypeOK ==
  /\ status \in [Posts -> PostStatus]
  /\ created \in 0..NPosts
  /\ gen \in [Generators -> Generator]
  /\ dec \in [Deciders -> Decider]
  /\ sent \subseteq Posts
  /\ said \in [Posts -> {"nothing", "yes", "no", "unclear"}]
  /\ yes \in [Posts -> Nat]
  /\ posted \in [Posts -> Nat]
  /\ done \subseteq Posts
  /\ cut \subseteq Posts
  /\ asks \in 0..MaxAsks

\* Each appearance of a post on the platform has an approval of its own,
\* however decisions overlap and wherever they are cut off.
OneYesOnePost == \A p \in Posts : posted[p] <= yes[p]

\* What was ever stored as published is on the platform.
PublishedIsPosted == \A p \in done : posted[p] >= 1

InHand(d, p) == dec[d].post = p /\ dec[d].pc \in {"check", "call", "store", "fail"}

\* A post stored as approved is being published by someone, unless a decision
\* about it was cut off: nothing else would ever pick it up.
ApprovedInHand ==
  \A p \in Posts : status[p] = "approved" /\ p \notin cut => \E d \in Deciders : InHand(d, p)

\* A post is published only if yes was the user's last word about it, as far
\* as the user decided one thing at a time and named the post.
OnlyWanted ==
  [][\A p \in Posts : posted'[p] > posted[p] => said[p] \in {"yes", "unclear"}]_vars

\* Execute refuses a post that is neither approved nor pending, "post não está
\* aprovado para publicação": what is published already is not posted again.
PublishedNotReposted ==
  [][\A p \in Posts : posted'[p] > posted[p] => p \notin done]_vars

\* The webhook "processa mensagens de aprovação em background": an answer that
\* quotes its post gets that post decided, whatever overlaps it, unless the
\* context of a decision about it is cancelled.
ReplySettles ==
  \A d \in Deciders, p \in Posts :
    dec[d].pc = "find" /\ dec[d].quoted /\ dec[d].post = p
      ~> status[p] \in {"rejected", "published", "failed"} \/ p \in cut

=============================================================================
