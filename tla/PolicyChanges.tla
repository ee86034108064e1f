----------------------------- MODULE PolicyChanges -----------------------------
(***************************************************************************)
(* Four-eyes policy changes of one workspace: the published policy         *)
(* versions, the proposals that wait for a second admin, and the requests  *)
(* that are in flight in the control plane.                                *)
(*                                                                         *)
(* A change (the policy, an exception, a machine's owner, the setting      *)
(* itself) is applied at once while policy_change_approval is off, and     *)
(* filed as a proposal while it is on.  Applying reads the latest version, *)
(* compiles, and inserts the next one; approving claims the proposal       *)
(* first and then applies.  No transaction spans two of these statements,  *)
(* so each is a step here and a request keeps what it read in between.     *)
(***************************************************************************)
EXTENDS Naturals, Sequences, FiniteSets

CONSTANTS
  Requests,    \* requests in flight at once
  Admins,      \* console admins and security admins
  Keys,        \* API keys: they may propose
  CreatedBy,   \* CreatedBy[k]: the admin who created key k
  Pids,        \* proposal ids
  Exceptions,  \* exception ids
  Machines,    \* machines with an owner
  Owners,      \* owners a machine may get
  Bodies,      \* base policy bodies
  Centrals,    \* lists of central policies, the empty one included
  Asked,       \* the changes people ask for
  MaxVersion,  \* bound on published versions
  Nobody, NoProp, NoCentral, Keep, System

VARIABLES
  versions,    \* cp.policy_versions, in order
  approvalOn,  \* cp.policy_settings.policy_change_approval
  props,       \* cp.policy_proposals by id
  owner,       \* cp.endpoints.owner
  lapsed,      \* exceptions whose time is up
  req          \* the requests in flight

vars == <<versions, approvalOn, props, owner, lapsed, req>>

People == Admins \cup Keys

ASSUME PolicyAssumption ==
  /\ Admins \cap Keys = {} /\ CreatedBy \in [Keys -> Admins]
  /\ Nobody \notin People /\ System \notin People \cup {Nobody}
  /\ NoProp \notin Pids /\ NoCentral \in Centrals /\ Keep \notin Centrals
  /\ Bodies # {} /\ MaxVersion \in Nat \ {0}

Contents == [body : Bodies, central : Centrals, exceptions : SUBSET Exceptions]

\* `from' is history: the version the publisher read; `prop' is in the comment.
Versions == [content : Contents, from : Nat, prop : Pids \cup {NoProp}]

\* policyChange: the payload of a proposal.
Changes == [kind : {"policy"}, body : Bodies, central : Centrals \cup {Keep}]
      \cup [kind : {"exception.create", "exception.delete"}, exception : Exceptions]
      \cup [kind : {"endpoint.owner"}, machine : Machines, owner : Owners]
      \cup [kind : {"settings"}, on : BOOLEAN]

ASSUME AskedAssumption == Asked \subseteq Changes

NoProposal == [state |-> "none"]
Closed     == {"rejected", "superseded", "withdrawn"}
Proposals  == [state : {"pending", "approved"} \cup Closed, change : Changes, base : Nat,
               author : People, authorOwner : Admins \cup {Nobody},
               decidedBy : People \cup {Nobody}, version : Nat]

\* A request between two statements: a change asked for, before or while it is
\* applied directly; a decision, until its claim is applied; then publishing,
\* recording the version, or reopening (and then superseding when `stale').
Idle == [pc |-> "idle"]

Asking     == [pc : {"proposing", "applying", "recompiling"}, who : People, change : Changes,
               prop : {NoProp}, base : Nat]
Deciding   == [pc : {"closing"}, who : People, change : Changes, prop : Pids, to : Closed]
         \cup [pc : {"claiming", "applying", "recompiling"}, who : People, change : Changes,
               prop : Pids, to : {"approved"}]
Publishing == [pc : {"publishing"}, who : People, change : Changes, prop : Pids \cup {NoProp},
               content : Contents, from : Nat]
         \cup [pc : {"publishing"}, who : {System}, prop : {NoProp}, content : Contents, from : Nat]
Ending     == [pc : {"recording"}, who : People, change : Changes, prop : Pids, version : Nat]
         \cup [pc : {"reopening"}, who : People, change : Changes, prop : Pids, stale : BOOLEAN]

InFlight == {Idle} \cup Asking \cup Deciding \cup Publishing \cup Ending

TypeOK ==
  /\ versions \in Seq(Versions) /\ Len(versions) <= MaxVersion
  /\ approvalOn \in BOOLEAN
  /\ props \in [Pids -> Proposals \cup {NoProposal}]
  /\ owner \in [Machines -> Owners \cup {Nobody}]
  /\ lapsed \subseteq Exceptions
  /\ req \in [Requests -> InFlight]

-----------------------------------------------------------------------------
\* Helpers.

Latest    == Len(versions)
Current   == versions[Latest].content
HasSource(content) == content.central # NoCentral \/ content.exceptions # {}

Work(h, r)  == req' = [req EXCEPT ![h] = r]
Finish(h)   == Work(h, Idle)
Goto(h, pc) == Work(h, [req[h] EXCEPT !.pc = pc])

\* Ids are drawn at random: a new exception's id is in no version, proposal or request.
Fresh(x) ==
  /\ \A v \in DOMAIN versions : x \notin versions[v].content.exceptions
  /\ \A p \in Pids : props[p] # NoProposal /\ props[p].change.kind = "exception.create"
                        => props[p].change.exception # x
  /\ \A h \in Requests : req[h] # Idle /\ req[h].who # System /\ req[h].change.kind = "exception.create"
                        => req[h].change.exception # x

\* proposalDecider: a console admin who neither wrote the proposal nor created
\* the key that did.
MayDecide(who, prop) == who \in Admins /\ who # prop.author /\ who # prop.authorOwner

\* The content a change makes of the latest one; with no version yet, of the default.
Default == [body |-> CHOOSE b \in Bodies : TRUE, central |-> NoCentral, exceptions |-> {}]
Base    == IF Latest = 0 THEN Default ELSE Current
Changed(change) ==
  CASE change.kind = "policy" ->
         [Base EXCEPT !.body = change.body,
                      !.central = IF change.central = Keep THEN @ ELSE change.central]
    [] change.kind = "exception.create" -> [Base EXCEPT !.exceptions = @ \cup {change.exception}]
    [] change.kind = "exception.delete" -> [Base EXCEPT !.exceptions = @ \ {change.exception}]
    [] change.kind = "endpoint.owner"   -> Base

\* Whether the latest version takes the change: else "publish a policy first"
\* and "no such exception".
Applies(change) ==
  /\ change.kind = "exception.create" => Latest > 0
  /\ change.kind = "exception.delete" => change.exception \in Base.exceptions

-----------------------------------------------------------------------------
\* Asking for a change: putPolicy, createException, deleteException,
\* setEndpointOwner, putPolicySettings.

\* What each handler has checked when it asks: an exception needs a published
\* version, a removal the exception, and the setting only an admin changes.
AskPolicy(change)          == change.kind = "policy"
AskException(change)       == change.kind = "exception.create" /\ Applies(change) /\ Fresh(change.exception)
AskRemoval(change)         == change.kind = "exception.delete" /\ Applies(change)
AskOwner(change)           == change.kind = "endpoint.owner"
AskSettings(who, change)   == change.kind = "settings" /\ who \in Admins /\ change.on # approvalOn

\* The setting is read: on files a proposal on the latest version, off applies.
\* The setting itself is turned on at once and turned off by a proposal.
AskChange(h, who, change) ==
  /\ req[h] = Idle
  /\ \/ AskPolicy(change) \/ AskException(change) \/ AskRemoval(change)
     \/ AskOwner(change) \/ AskSettings(who, change)
  /\ Work(h, [pc |-> IF approvalOn THEN "proposing" ELSE "applying", who |-> who,
              change |-> change, prop |-> NoProp, base |-> IF approvalOn THEN Latest ELSE 0])
  /\ UNCHANGED <<versions, approvalOn, props, owner, lapsed>>

\* The proposal is inserted.  Looking up who created the key may fail, which
\* leaves author_owner empty.
CreateProposal(h, p) ==
  /\ req[h].pc = "proposing"
  /\ props[p] = NoProposal
  /\ \E creator \in IF req[h].who \in Keys THEN {CreatedBy[req[h].who], Nobody} ELSE {Nobody} :
       props' = [props EXCEPT ![p] =
         [state |-> "pending", change |-> req[h].change, base |-> req[h].base, author |-> req[h].who,
          authorOwner |-> creator, decidedBy |-> Nobody, version |-> 0]]
  /\ Finish(h)
  /\ UNCHANGED <<versions, approvalOn, owner, lapsed>>

-----------------------------------------------------------------------------
\* Deciding: decideProposal and withdrawProposal.

\* The proposal is read pending.  Approving a policy also reads the latest
\* version: a proposal made on another one is superseded instead.
Judge(h, who, p) ==
  /\ req[h] = Idle
  /\ props[p].state = "pending"
  /\ LET go(pc, to) == Work(h, [pc |-> pc, who |-> who, change |-> props[p].change, prop |-> p, to |-> to])
         stale == props[p].change.kind = "policy" /\ props[p].base # Latest
     IN  \/ MayDecide(who, props[p]) /\ go("closing", "rejected")
         \/ MayDecide(who, props[p]) /\ stale  /\ go("closing", "superseded")
         \/ MayDecide(who, props[p]) /\ ~stale /\ go("claiming", "approved")
         \/ who = props[p].author /\ go("closing", "withdrawn")
  /\ UNCHANGED <<versions, approvalOn, props, owner, lapsed>>

\* Mutant: the update has no `and state = 'pending''.
CloseAny(h, state) ==
  props' = [props EXCEPT ![req[h].prop].state = state, ![req[h].prop].decidedBy = req[h].who]

\* The update of CloseProposal: only a pending proposal is closed.
CloseProposal(h, state) ==
  LET p == req[h].prop IN
  props' = IF props[p].state = "pending"
           THEN [props EXCEPT ![p].state = state, ![p].decidedBy = req[h].who]
           ELSE props

CloseStep(h) ==
  /\ req[h].pc = "closing"
  /\ CloseProposal(h, req[h].to)
  /\ Finish(h)
  /\ UNCHANGED <<versions, approvalOn, owner, lapsed>>

\* Mutant: an approval that lost the claim applies the change all the same.
ClaimNothing(h) ==
  /\ req[h].pc = "claiming"
  /\ CloseProposal(h, "approved")
  /\ Goto(h, "applying")
  /\ UNCHANGED <<versions, approvalOn, owner, lapsed>>

\* Approving claims the proposal before it is applied: one caller wins.
Claim(h) ==
  /\ req[h].pc = "claiming"
  /\ CloseProposal(h, "approved")
  /\ IF props[req[h].prop].state = "pending" THEN Goto(h, "applying") ELSE Finish(h)
  /\ UNCHANGED <<versions, approvalOn, owner, lapsed>>

-----------------------------------------------------------------------------
\* Applying: applyChange, for a direct change or for a claimed proposal.

\* An error that is not the server's: a claimed proposal is put back and then
\* superseded.  A server error only puts it back.
Fail(h, stale) ==
  IF req[h].prop = NoProp THEN Finish(h)
  ELSE Work(h, [pc |-> "reopening", who |-> req[h].who, change |-> req[h].change,
                prop |-> req[h].prop, stale |-> stale])

\* Success: a claimed proposal records the version it published, if any.
Succeed(h, v) ==
  IF req[h].prop = NoProp \/ v = 0 THEN Finish(h)
  ELSE Work(h, [pc |-> "recording", who |-> req[h].who, change |-> req[h].change,
                prop |-> req[h].prop, version |-> v])

Compile(h, content) ==
  Work(h, [pc |-> "publishing", who |-> req[h].who, change |-> req[h].change,
           prop |-> req[h].prop, content |-> content, from |-> Latest])

\* The setting is written.
ApplySettings(h) ==
  /\ req[h].pc = "applying" /\ req[h].change.kind = "settings"
  /\ approvalOn' = req[h].change.on
  /\ Finish(h)
  /\ UNCHANGED <<versions, props, owner, lapsed>>

\* The owner is saved before the policy is recompiled for it.
SetEndpointOwner(h) ==
  /\ req[h].pc = "applying" /\ req[h].change.kind = "endpoint.owner"
  /\ owner' = [owner EXCEPT ![req[h].change.machine] = req[h].change.owner]
  /\ Goto(h, "recompiling")
  /\ UNCHANGED <<versions, approvalOn, props, lapsed>>

\* The latest version is read again; without central policies and exceptions
\* nothing depends on owners.
Recompile(h) ==
  /\ req[h].pc = "recompiling"
  /\ IF Latest > 0 /\ HasSource(Current) THEN Compile(h, Current) ELSE Succeed(h, 0)
  /\ UNCHANGED <<versions, approvalOn, props, owner, lapsed>>

\* policySource, latestSource: the change is made to the version read now.
ReadSource(h) ==
  /\ req[h].pc = "applying" /\ req[h].change.kind \notin {"settings", "endpoint.owner"}
  /\ IF Applies(req[h].change) THEN Compile(h, Changed(req[h].change)) ELSE Fail(h, TRUE)
  /\ UNCHANGED <<versions, approvalOn, props, owner, lapsed>>

\* PutPolicy inserts max(version) + 1, whatever was read.  (Of two inserts
\* with one number the second fails on the primary key: a server error.)
PutPolicy(h) ==
  /\ req[h].pc = "publishing" /\ Latest < MaxVersion
  /\ versions' = Append(versions, [content |-> req[h].content, from |-> req[h].from,
                                   prop |-> req[h].prop])
  /\ Succeed(h, Latest + 1)
  /\ UNCHANGED <<approvalOn, props, owner, lapsed>>

\* The change doesn't parse or compile for some machine (an owner change then
\* succeeds all the same), the machine is gone, or the database fails.
ApplyFails(h) ==
  /\ req[h].pc \in {"applying", "recompiling", "publishing"}
  /\ \E stale \in BOOLEAN :
       /\ stale => \/ req[h].pc = "publishing"
                   \/ req[h].pc = "applying" /\ req[h].change.kind # "settings"
       /\ IF stale /\ req[h].pc = "publishing" /\ req[h].who # System /\ req[h].change.kind = "endpoint.owner"
          THEN Succeed(h, 0)
          ELSE Fail(h, stale)
  /\ UNCHANGED <<versions, approvalOn, props, owner, lapsed>>

ProposalApplied(h) ==
  /\ req[h].pc = "recording"
  /\ props' = [props EXCEPT ![req[h].prop].version = req[h].version]
  /\ Finish(h)
  /\ UNCHANGED <<versions, approvalOn, owner, lapsed>>

\* ReopenProposal puts an approved proposal that published nothing back.
ReopenProposal(h) ==
  LET p == req[h].prop IN
  /\ req[h].pc = "reopening"
  /\ props' = IF props[p].state = "approved" /\ props[p].version = 0
              THEN [props EXCEPT ![p].state = "pending", ![p].decidedBy = Nobody]
              ELSE props
  /\ IF req[h].stale
     THEN Work(h, [pc |-> "closing", who |-> req[h].who, change |-> req[h].change,
                   prop |-> p, to |-> "superseded"])
     ELSE Finish(h)
  /\ UNCHANGED <<versions, approvalOn, owner, lapsed>>

\* The admin's browser goes away, which cancels the context every statement
\* uses, or the control plane stops: the request ends where it is.
Cancel(h) ==
  /\ req[h] # Idle
  /\ Finish(h)
  /\ UNCHANGED <<versions, approvalOn, props, owner, lapsed>>

-----------------------------------------------------------------------------
\* expireExceptions: the control plane republishes without what has lapsed.

Lapse(x) ==
  /\ x \notin lapsed /\ \E v \in DOMAIN versions : x \in versions[v].content.exceptions
  /\ lapsed' = lapsed \cup {x}
  /\ UNCHANGED <<versions, approvalOn, props, owner, req>>

ExpireExceptions(h) ==
  /\ req[h] = Idle
  /\ Latest > 0 /\ Current.exceptions \cap lapsed # {}
  /\ Work(h, [pc |-> "publishing", who |-> System, prop |-> NoProp, from |-> Latest,
              content |-> [Current EXCEPT !.exceptions = @ \ lapsed]])
  /\ UNCHANGED <<versions, approvalOn, props, owner, lapsed>>

-----------------------------------------------------------------------------
First == [content |-> Default, from |-> 0, prop |-> NoProp]

\* A workspace that has published a policy or none, with the setting on or off.
Init ==
  /\ versions \in {<<>>, <<First>>}
  /\ approvalOn \in BOOLEAN
  /\ props = [p \in Pids |-> NoProposal]
  /\ owner = [x \in Machines |-> Nobody]
  /\ lapsed = {}
  /\ req = [h \in Requests |-> Idle]

Next ==
  \/ \E h \in Requests :
       \/ \E who \in People, change \in Asked : AskChange(h, who, change)
       \/ \E p \in Pids : CreateProposal(h, p)
       \/ \E who \in People, p \in Pids : Judge(h, who, p)
       \/ CloseStep(h) \/ Claim(h)
       \/ ApplySettings(h) \/ SetEndpointOwner(h) \/ Recompile(h) \/ ReadSource(h)
       \/ PutPolicy(h) \/ ApplyFails(h) \/ ProposalApplied(h) \/ ReopenProposal(h)
       \/ Cancel(h) \/ ExpireExceptions(h)
  \/ \E x \in Exceptions : Lapse(x)

Spec == Init /\ [][Next]_vars

-----------------------------------------------------------------------------
\* Safety.

PublishedBy(p) == {v \in DOMAIN versions : versions[v].prop = p}

\* A proposal is published at most once, although two admins may approve it at
\* the same moment and a failed one is put back and approved again
\* (CloseProposal's claim, ReopenProposal).
AppliedOnce == \A p \in Pids : Cardinality(PublishedBy(p)) <= 1

\* What a proposal published was approved by an admin who neither wrote it nor
\* is recorded as the creator of the key that did, and stays so: no rejection,
\* withdrawal or reopening that crosses the approval undoes the record, and no
\* version carries an exception whose proposal is not approved.
ApprovedByAnother(p) == props[p].state = "approved" /\ MayDecide(props[p].decidedBy, props[p])
FourEyes ==
  \A p \in Pids : props[p] # NoProposal =>
    /\ PublishedBy(p) # {} => ApprovedByAnother(p)
    /\ props[p].change.kind = "exception.create" /\ ~ApprovedByAnother(p) =>
         \A v \in DOMAIN versions : props[p].change.exception \notin versions[v].content.exceptions

\* The setting is turned off only by applying a proposal that another admin
\* approved, whoever turned it on meanwhile (putPolicySettings, applyChange).
OffNeedsTwo ==
  [][approvalOn /\ ~approvalOn' =>
       \E h \in Requests : req[h] # Idle /\ req'[h] = Idle /\ req[h].prop \in Pids
                          /\ ApprovedByAnother(req[h].prop)]_vars

-----------------------------------------------------------------------------
\* What the documentation says, and concurrency or a lost request refutes.

\* server/proposals.go: "an exception or owner change is re-applied on the
\* latest version", "a policy proposal is stale once another version is
\* published after it".
BuildsOnLatest ==
  \A v \in DOMAIN versions : versions[v].prop # NoProp => versions[v].from = v - 1
=============================================================================
