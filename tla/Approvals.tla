------------------------------ MODULE Approvals ------------------------------
(***************************************************************************)
(* Approvals of one paused action: the requests the control plane keeps    *)
(* for one machine and one action fingerprint (table cp.approvals), the    *)
(* tool calls that wait on them, and the people who vote.                  *)
(*                                                                         *)
(* A tool call on the endpoint (askApproval in effigentd) POSTs to the     *)
(* control plane.  The handler files a request or joins the open one,      *)
(* records how it is decided, then polls it.  Approvers decide from the    *)
(* console, the API, an e-mailed link or Slack; each decision reads the    *)
(* request, judges the vote on what it read, and then commits it in a      *)
(* transaction.  Each database transaction is one step of this model and   *)
(* everything a goroutine keeps between two transactions is state.         *)
(*                                                                         *)
(* Requests with another fingerprint or machine are independent: no        *)
(* statement of the code touches two fingerprints except the expiry sweep  *)
(* of ListApprovals, which treats each row alone.                          *)
(***************************************************************************)
EXTENDS Naturals, FiniteSets, Sequences

CONSTANTS
  Calls,        \* tool calls with this fingerprint (a retry is another call)
  Ids,          \* ids a request can get
  Voters,       \* the ways a decision can be cast: an account, a link, an API key
  Kind,         \* Kind[v]: how v decides
  Admin,        \* voters who may write in the workspace (admin, security_admin)
  IdentsOf,     \* IdentsOf[v]: the console user id and e-mails known for v
  UserIds,      \* console user ids
  Emails,       \* e-mail addresses
  Groups,       \* approver group ids
  Routings,     \* the approval routings an admin may save
  Resolutions,  \* what resolveRequester may find: sets of user ids and e-mails
  Recipients,   \* notification e-mails for requests no group decides
  TTL,          \* how long a request stays open
  UseWindow,    \* approvalUseWindow: an approval stays usable at least this long
  MaxNow,       \* bound on the clock
  NoGroup, NoId \* "no group" ("" in the code) and "no request"

VARIABLES
  rows,     \* cp.approvals with cp.approval_votes, by id
  now,      \* the database clock
  routing,  \* cp.approval_routing
  people,   \* whom the owner, the People mappings and git e-mails resolve to now
  call,     \* the handler's goroutine of each tool call, and what became of the call
  ballot    \* the decision each voter has in flight

vars == <<rows, now, routing, people, call, ballot>>

Kinds  == {"console", "link", "slack", "apikey"}
Idents == UserIds \cup Emails
States == {"pending", "approved", "denied", "expired", "used"}

\* A route that matches this action: its group, and how its requests are decided.
Rules   == [required : Nat, exclude : BOOLEAN, ticket : BOOLEAN]
Routes  == [group : Groups, rules : Rules]
Routing == [routes : Seq(Routes), default : Groups \cup {NoGroup}, rules : Rules,
            live : SUBSET Groups, members : [Groups -> SUBSET Idents]]

ASSUME ConstantsAssumption ==
  /\ \A v \in Voters : Kind[v] \in Kinds
  /\ Admin \subseteq Voters
  /\ \A v \in Voters : IdentsOf[v] \in SUBSET Idents
  /\ UserIds \cap Emails = {}
  /\ Routings \subseteq Routing /\ Routings # {}
  /\ Resolutions \subseteq SUBSET Idents /\ Resolutions # {}
  /\ Recipients \subseteq Emails
  /\ TTL \in Nat \ {0} /\ UseWindow \in Nat \ {0} /\ MaxNow \in Nat
  /\ NoGroup \notin Groups /\ NoId \notin Ids

\* `filed' of a vote is history: the request's rules were on record when it was judged.
Vote == [who : Voters, approve : BOOLEAN, ticket : BOOLEAN, filed : BOOLEAN]

\* "none" is an id not given yet; `filed' is history: SetApprovalFiling has run.
Row == [state : States \cup {"none"}, expires : Nat, decided : Nat,
        required : Nat, exclude : BOOLEAN, ticket : BOOLEAN,
        group : Groups \cup {NoGroup}, requester : SUBSET Idents,
        mailed : SUBSET Emails, votes : SUBSET Vote, filed : BOOLEAN]

\* idle: not asked yet; filing: the handler committed a new request and has
\* not recorded how it is decided; waiting: in the poll loop; checking: the
\* poll's consuming update matched nothing and the request is read back next;
\* answered: the handler's copy is final; ran / blocked: what effigentd did.
Phases == {"idle", "filing", "waiting", "checking", "answered", "ran", "blocked"}
Call   == [phase : Phases, req : Ids \cup {NoId}, seen : States \cup {"none"}]

NoBallot == [req |-> NoId]
Ballot   == [req : Ids, vote : Vote]

TypeOK ==
  /\ rows \in [Ids -> Row]
  /\ now \in Nat
  /\ routing \in Routings
  /\ people \in SUBSET Idents
  /\ call \in [Calls -> Call]
  /\ \A c \in Calls : call[c].phase \notin {"idle", "blocked"} => call[c].req \in Ids
  /\ ballot \in [Voters -> Ballot \cup {NoBallot}]

-----------------------------------------------------------------------------
\* Helpers.

EmptyRow == [state |-> "none", expires |-> 0, decided |-> 0, required |-> 1,
             exclude |-> TRUE, ticket |-> FALSE, group |-> NoGroup,
             requester |-> {}, mailed |-> {}, votes |-> {}, filed |-> FALSE]

Open(row) == row.state \in {"pending", "approved"}

\* The row after `update ... set state = 'expired' ... and expires_at <= now()'.
Expired(row) ==
  IF Open(row) /\ row.expires <= now THEN [row EXCEPT !.state = "expired"] ELSE row

Swept == [r \in Ids |-> Expired(rows[r])]

\* One person behind two votes: the same voter, console user or e-mail.
SamePerson(v, w) == v = w \/ IdentsOf[v] \cap IdentsOf[w] # {}

Approvers(row) == {x.who : x \in {y \in row.votes : y.approve}}
Deniers(row)   == {x.who : x \in {y \in row.votes : ~y.approve}}

AtLeast(a, b) == IF a < b THEN b ELSE a

\* ApprovalRules.Required: 1 or 2 different people.
Required(rules) == IF rules.required < 2 THEN 1 ELSE 2

\* routeFor and rulesFor: the first matching route whose group still exists,
\* else the default group under the default rules, else no group (one element).
LiveRoutes(cfg) == {i \in DOMAIN cfg.routes : cfg.routes[i].group \in cfg.live}
RouteFor(cfg) ==
  IF LiveRoutes(cfg) # {}
  THEN {cfg.routes[i] : i \in {k \in LiveRoutes(cfg) : \A j \in LiveRoutes(cfg) : k <= j}}
  ELSE {[group |-> IF cfg.default \in cfg.live THEN cfg.default ELSE NoGroup,
         rules |-> cfg.rules]}

\* The control plane can tell v apart from the requester.
Comparable(requester, v) ==
  IF requester \cap Emails # {} THEN IdentsOf[v] \cap Emails # {}
  ELSE requester \cap UserIds = {} \/ IdentsOf[v] \cap UserIds # {}

Member(v, row) == IdentsOf[v] \cap routing.members[row.group]

\* decideApproval: members of the request's group by their account, with the
\* membership as it is now, and admins, who may step in.
MayConsole(v, row) ==
  v \in Admin \/ (row.group \in routing.live /\ Member(v, row) \cap UserIds # {})

\* approvalLink: whom the request was mailed to, while they are in its group.
MayLink(v, row) ==
  /\ IdentsOf[v] \cap row.mailed # {}
  /\ row.group \in routing.live => Member(v, row) \cap Emails # {}

\* handleSlackDecision: members by the email of their profile, and admins.
MaySlack(v, row) ==
  row.group \in routing.live => Member(v, row) \cap Emails # {} \/ v \in Admin

\* canDecide and its counterparts; an API key has the scope.
CanDecide(v, row) ==
  CASE Kind[v] = "apikey"  -> TRUE
    [] Kind[v] = "console" -> MayConsole(v, row)
    [] Kind[v] = "link"    -> MayLink(v, row)
    [] Kind[v] = "slack"   -> MaySlack(v, row)

\* voteRefusal finds no reason to refuse an approval by v, the requester being
\* the one on record together with the one resolved now.
MayApprove(v, row, requester, ticket) ==
  /\ Kind[v] # "apikey"
  /\ row.exclude => /\ requester # {}
                    /\ IdentsOf[v] \cap requester = {}
                    /\ Comparable(requester, v)
  /\ row.ticket => ticket

-----------------------------------------------------------------------------
\* The endpoint's POST /ep/v1/approvals: RequestApproval, one transaction that
\* expires what is due, then has exactly one of four outcomes.  A concurrent
\* insert loses on the unique index approvals_one_open and runs again, so the
\* transactions of two calls are serial.

Answer(c, r, state) ==
  call' = [call EXCEPT ![c] = [phase |-> "answered", req |-> r, seen |-> state]]

Join(c, r, phase) ==
  call' = [call EXCEPT ![c] = [phase |-> phase, req |-> r, seen |-> "pending"]]

\* An approved request is consumed: the call may run at once.
UseApproved(c, r) ==
  /\ call[c].phase = "idle"
  /\ Swept[r].state = "approved"
  /\ rows' = [Swept EXCEPT ![r].state = "used"]
  /\ Answer(c, r, "used")
  /\ UNCHANGED <<now, routing, people, ballot>>

\* A pending request is returned as it is; the call waits on it too.
JoinPending(c, r) ==
  /\ call[c].phase = "idle"
  /\ Swept[r].state = "pending"
  /\ rows' = Swept
  /\ Join(c, r, "waiting")
  /\ UNCHANGED <<now, routing, people, ballot>>

StandingDenial(r) == rows[r].state = "denied" /\ rows[r].expires > now

\* A denial stands until the request would have expired.
RepeatDenial(c, r) ==
  /\ call[c].phase = "idle"
  /\ \A i \in Ids : ~Open(Swept[i])
  /\ StandingDenial(r)
  /\ \A i \in Ids : StandingDenial(i) => rows[i].decided <= rows[r].decided
  /\ rows' = Swept
  /\ Answer(c, r, "denied")
  /\ UNCHANGED <<now, routing, people, ballot>>

\* Mutant: the unique index on open requests is missing, and its check with it.
FileBesideOpen(c, r) ==
  /\ call[c].phase = "idle"
  /\ \A i \in Ids : ~StandingDenial(i)
  /\ rows[r].state = "none"
  /\ rows' = [Swept EXCEPT ![r] = [EmptyRow EXCEPT !.state = "pending", !.expires = now + TTL]]
  /\ Join(c, r, "filing")
  /\ UNCHANGED <<now, routing, people, ballot>>

\* Mutant: a standing denial is not looked up.
FileBesideDenial(c, r) ==
  /\ call[c].phase = "idle"
  /\ \A i \in Ids : ~Open(Swept[i])
  /\ rows[r].state = "none"
  /\ rows' = [Swept EXCEPT ![r] = [EmptyRow EXCEPT !.state = "pending", !.expires = now + TTL]]
  /\ Join(c, r, "filing")
  /\ UNCHANGED <<now, routing, people, ballot>>

\* Otherwise a new request is committed with the column defaults for how it is
\* decided: one approval, requester excluded, no ticket, no group.
FileRequest(c, r) ==
  /\ call[c].phase = "idle"
  /\ \A i \in Ids : ~Open(Swept[i]) /\ ~StandingDenial(i)
  /\ rows[r].state = "none"
  /\ rows' = [Swept EXCEPT ![r] = [EmptyRow EXCEPT !.state = "pending", !.expires = now + TTL]]
  /\ Join(c, r, "filing")
  /\ UNCHANGED <<now, routing, people, ballot>>

Ask(c) == \E r \in Ids :
  UseApproved(c, r) \/ JoinPending(c, r) \/ RepeatDenial(c, r) \/ FileRequest(c, r)

\* fileApproval, SetApprovalFiling and announce: the request's route and
\* requester are read and recorded in a statement of their own, whatever state
\* the request is in by now, and the e-mailed links go out.  Every lookup and
\* the recording itself may fail (the agent giving up cancels their context):
\* the error is logged and the row keeps its defaults.
FiledRow(row, route, requester) ==
  [row EXCEPT !.required = Required(route.rules), !.exclude = route.rules.exclude,
              !.ticket = route.rules.ticket, !.group = route.group,
              !.requester = requester, !.filed = TRUE]

DefaultRoute == [group |-> NoGroup, rules |-> [required |-> 1, exclude |-> TRUE, ticket |-> FALSE]]

SetApprovalFiling(c) ==
  /\ call[c].phase = "filing"
  /\ \E route \in RouteFor(routing) \cup {DefaultRoute}, requester \in {people, {}}, recorded \in BOOLEAN :
       LET r    == call[c].req
           mail == IF route.group = NoGroup THEN Recipients
                   ELSE routing.members[route.group] \cap Emails
           base == IF recorded THEN FiledRow(rows[r], route, requester) ELSE rows[r]
       IN  rows' = [rows EXCEPT ![r] = [base EXCEPT !.mailed = mail]]
  /\ call' = [call EXCEPT ![c].phase = "waiting"]
  /\ UNCHANGED <<now, routing, people, ballot>>

\* Mutant: the consuming update does not look at the expiry.
ConsumeLapsed(c) ==
  LET r == call[c].req IN
  /\ call[c].phase = "waiting"
  /\ IF rows[r].state = "approved"
     THEN rows' = [rows EXCEPT ![r].state = "used"] /\ Answer(c, r, "used")
     ELSE call' = [call EXCEPT ![c].phase = "checking"] /\ UNCHANGED rows
  /\ UNCHANGED <<now, routing, people, ballot>>

\* Mutant: the consuming update looks at the expiry, not at the state.
ConsumeUndecided(c) ==
  LET r == call[c].req IN
  /\ call[c].phase = "waiting"
  /\ IF rows[r].state \in {"pending", "approved"} /\ rows[r].expires > now
     THEN rows' = [rows EXCEPT ![r].state = "used"] /\ Answer(c, r, "used")
     ELSE call' = [call EXCEPT ![c].phase = "checking"] /\ UNCHANGED rows
  /\ UNCHANGED <<now, routing, people, ballot>>

\* ConsumeApproval, first statement: an approved request that has not expired
\* becomes "used" and the call may run.
ConsumeApproval(c) ==
  LET r == call[c].req IN
  /\ call[c].phase = "waiting"
  /\ IF rows[r].state = "approved" /\ rows[r].expires > now
     THEN rows' = [rows EXCEPT ![r].state = "used"] /\ Answer(c, r, "used")
     ELSE call' = [call EXCEPT ![c].phase = "checking"] /\ UNCHANGED rows
  /\ UNCHANGED <<now, routing, people, ballot>>

\* endpointApproval, in a second and third statement outside any transaction:
\* what is due expires and the row is read back.  A request that is not pending
\* ends the loop, whatever its state.
EndpointApproval(c) ==
  LET r   == call[c].req
      row == Expired(rows[r])
  IN
  /\ call[c].phase = "checking"
  /\ rows' = [rows EXCEPT ![r] = row]
  /\ IF row.state = "pending" THEN Join(c, r, "waiting") ELSE Answer(c, r, row.state)
  /\ UNCHANGED <<now, routing, people, ballot>>

\* Mutant: the poll loop has no deadline.
NoDeadline(c) == call[c].phase = "waiting" /\ FALSE /\ UNCHANGED vars

\* The wait (at most MaxApprovalWait) is over while the request is pending.
WaitOver(c) ==
  /\ call[c].phase = "waiting"
  /\ Answer(c, call[c].req, "pending")
  /\ UNCHANGED <<rows, now, routing, people, ballot>>

\* The response's state: "used" reads "approved" to the endpoint.
RespState(seen) == IF seen = "used" THEN "approved" ELSE seen

\* askApproval: approved lets the call run, anything else denies it.
Deliver(c) ==
  /\ call[c].phase = "answered"
  /\ call' = [call EXCEPT ![c].phase = IF RespState(call[c].seen) = "approved" THEN "ran" ELSE "blocked"]
  /\ UNCHANGED <<rows, now, routing, people, ballot>>

\* The agent gives up, the connection or the control plane fails: whatever the
\* handler did stays, the call is denied.
Abandon(c) ==
  /\ call[c].phase \in {"idle", "filing", "waiting", "checking", "answered"}
  /\ call' = [call EXCEPT ![c].phase = "blocked"]
  /\ UNCHANGED <<rows, now, routing, people, ballot>>

-----------------------------------------------------------------------------
\* Decisions: decideApproval, approvalLink or handleSlackDecision, then castVote.

\* The request is read and the vote judged on it.  Resolving the requester
\* again may fail, which leaves the one on record.
JudgeVote(v, r) ==
  /\ ballot[v] = NoBallot
  /\ rows[r].state = "pending"
  /\ CanDecide(v, rows[r])
  /\ \A x \in rows[r].votes : ~SamePerson(x.who, v)
  /\ \E approve \in BOOLEAN, ticket \in (IF Kind[v] = "console" THEN BOOLEAN ELSE {FALSE}),
        resolved \in {people, {}} :
       /\ approve => MayApprove(v, rows[r], rows[r].requester \cup
                                (IF rows[r].exclude THEN resolved ELSE {}), ticket)
       /\ ballot' = [ballot EXCEPT ![v] =
            [req |-> r, vote |-> [who |-> v, approve |-> approve, ticket |-> ticket, filed |-> rows[r].filed]]]
  /\ UNCHANGED <<rows, now, routing, people, call>>

\* The row after a vote that its transaction accepts.
Voted(row, vote) ==
  LET after   == [row EXCEPT !.votes = @ \cup {vote}]
      reached == Cardinality({x \in after.votes : x.approve}) >= AtLeast(row.required, 1)
  IN  CASE ~vote.approve -> [after EXCEPT !.state = "denied", !.decided = now]
        [] vote.approve /\ reached ->
             [after EXCEPT !.state = "approved", !.decided = now,
                           !.expires = AtLeast(@, now + UseWindow)]
        [] OTHER -> after

\* Mutant: the transaction trusts the votes judged before it.
VoteTwice(v) ==
  LET r == ballot[v].req IN
  /\ ballot[v] # NoBallot
  /\ rows' = IF rows[r].state = "pending" /\ rows[r].expires > now
             THEN [rows EXCEPT ![r] = Voted(@, ballot[v].vote)]
             ELSE rows
  /\ ballot' = [ballot EXCEPT ![v] = NoBallot]
  /\ UNCHANGED <<now, routing, people, call>>

\* VoteApproval, one transaction with the row locked: the state, the expiry and
\* the votes are read again; the rules of the vote are not.
VoteApproval(v) ==
  LET r == ballot[v].req IN
  /\ ballot[v] # NoBallot
  /\ rows' = IF /\ rows[r].state = "pending" /\ rows[r].expires > now
                /\ \A x \in rows[r].votes : ~SamePerson(x.who, v)
             THEN [rows EXCEPT ![r] = Voted(@, ballot[v].vote)]
             ELSE rows
  /\ ballot' = [ballot EXCEPT ![v] = NoBallot]
  /\ UNCHANGED <<now, routing, people, call>>

\* The decision's request fails before its transaction.
LoseBallot(v) ==
  /\ ballot[v] # NoBallot
  /\ ballot' = [ballot EXCEPT ![v] = NoBallot]
  /\ UNCHANGED <<rows, now, routing, people, call>>

-----------------------------------------------------------------------------
\* What happens around them.

\* The console lists requests: every due row of the workspace expires.
ListApprovals ==
  /\ rows' = Swept
  /\ UNCHANGED <<now, routing, people, call, ballot>>

\* An admin saves another routing, while requests are open or not.
PutRouting ==
  /\ routing' \in Routings
  /\ UNCHANGED <<rows, now, people, call, ballot>>

\* Somebody sets the machine's owner or edits People.
MapPeople ==
  /\ people' \in Resolutions
  /\ UNCHANGED <<rows, now, routing, call, ballot>>

Tick ==
  /\ now < MaxNow
  /\ now' = now + 1
  /\ UNCHANGED <<rows, routing, people, call, ballot>>

Init ==
  /\ rows = [r \in Ids |-> EmptyRow]
  /\ now = 0
  /\ routing \in Routings
  /\ people \in Resolutions
  /\ call = [c \in Calls |-> [phase |-> "idle", req |-> NoId, seen |-> "none"]]
  /\ ballot = [v \in Voters |-> NoBallot]

Handler(c) == Ask(c) \/ SetApprovalFiling(c) \/ ConsumeApproval(c)
              \/ EndpointApproval(c) \/ WaitOver(c) \/ Deliver(c)

Next ==
  \/ \E c \in Calls : Handler(c) \/ Abandon(c)
  \/ \E v \in Voters : (\E r \in Ids : JudgeVote(v, r)) \/ VoteApproval(v) \/ LoseBallot(v)
  \/ ListApprovals \/ PutRouting \/ MapPeople \/ Tick

Spec == Init /\ [][Next]_vars

\* The handler's goroutine runs on, its poll loop ends at its deadline, and
\* effigentd reads the answer; nothing forces people to vote or agents to wait.
FairSpec == Spec /\ \A c \in Calls : WF_vars(Handler(c)) /\ SF_vars(WaitOver(c))

-----------------------------------------------------------------------------
\* Safety.

\* At most one request of an action is open: two calls that arrive together,
\* or a retry, share it (RequestApproval, index approvals_one_open).
OneOpenRequest ==
  \A r, q \in Ids : Open(rows[r]) /\ Open(rows[q]) => r = q

\* While a denial stands nobody is asked again and nothing older can still be
\* approved: no request is open beside an unexpired denied one (RequestApproval).
DenialStands ==
  \A r, q \in Ids : StandingDenial(r) => ~Open(rows[q]) \/ rows[q].expires <= now

\* Votes the control plane judged under the request's own rules decide it as
\* those rules say: the quorum is of people it can tell apart, none of them
\* the requester on record, none an API key, each with a ticket where one is
\* needed (castVote judges on an earlier read than VoteApproval commits on).
JudgedUnderRules(row) == row.votes # {} /\ \A x \in row.votes : x.filed
QuorumOfPeople ==
  \A r \in Ids : LET row == rows[r] IN
    row.state \in {"approved", "used"} /\ JudgedUnderRules(row) =>
      /\ Cardinality(Approvers(row)) >= row.required
      /\ \A v, w \in Approvers(row) : v # w => ~SamePerson(v, w)
      /\ row.exclude => \A v \in Approvers(row) : IdentsOf[v] \cap row.requester = {}
      /\ \A x \in row.votes : x.approve /\ row.ticket => x.ticket
      /\ \A v \in Approvers(row) : Kind[v] # "apikey"

\* A call runs only on a request somebody approved and nobody denied: no order
\* of polls, votes, expiries and retries turns a denial or a lapse into a go.
RunsOnlyApproved ==
  \A c \in Calls : call[c].phase = "ran" =>
    LET row == rows[call[c].req] IN Approvers(row) # {} /\ Deniers(row) = {}

\* An approval given in the last moment is not lost to the request's own
\* expiry: an approved request expires only after approvalUseWindow.
ApprovalKept ==
  [][\A r \in Ids : rows[r].state = "approved" /\ rows'[r].state = "expired" =>
        now >= rows[r].decided + UseWindow]_vars

\* The lazily expired table keeps the promise of a permit that lapses on time.
Status == [none |-> "none", pending |-> "asked", approved |-> "granted",
           denied |-> "refused", used |-> "spent", expired |-> "lapsed"]
PermitOf(row) == IF Open(row) /\ row.expires <= now THEN "lapsed" ELSE Status[row.state]

P == INSTANCE Permit WITH permit <- [r \in Ids |-> PermitOf(rows[r])]

\* Every step of the table is a step of the permit or none: a permit is spent
\* at most once, only when granted and not lapsed, and one is live at a time.
ImplementsPermit == P!Spec

-----------------------------------------------------------------------------
\* What the documentation says, and two interleavings refute.

\* store/approvals.go: "each approval lets exactly one tool call through".
OneCallPerApproval ==
  \A c, d \in Calls :
    call[c].phase = "ran" /\ call[d].phase = "ran" /\ call[c].req = call[d].req => c = d

\* migration 012: "the request is approved once approvals_required different
\* people approved it".
QuorumAsFiled ==
  \A r \in Ids : rows[r].state \in {"approved", "used"} =>
    Cardinality(Approvers(rows[r])) >= rows[r].required

-----------------------------------------------------------------------------
\* Liveness.

\* A call that asked is answered: it runs or it is denied, whoever votes or
\* does not (requestApproval's loop and deadline).
EveryCallAnswered ==
  \A c \in Calls : call[c].phase # "idle" ~> call[c].phase \in {"ran", "blocked"}
=============================================================================
