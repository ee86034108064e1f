----------------------------- MODULE PolicyProofs -----------------------------
(***************************************************************************)
(* Theorems about the central policy: how a change of it is decided and    *)
(* published (PolicyChanges), for any requests in flight, people, keys,    *)
(* proposals, exceptions and contents; and what compiling it gives a       *)
(* machine (Compiler), for any base, agents, rules and exceptions.         *)
(***************************************************************************)
EXTENDS PolicyChanges, Compiler, FiniteSetTheorems, FunctionTheorems, SequenceTheorems,
        WellFoundedInduction, TLAPS

-----------------------------------------------------------------------------
\* The inductive invariant.

\* A request past the claim of its proposal, and not yet done with it.
Past       == {"applying", "recompiling", "publishing", "recording", "reopening"}
Holds(h, p) == req[h].pc \in Past /\ req[h].prop = p

\* A change somebody asked for that is no proposal (yet).
Direct(h) == req[h].pc # "idle" /\ req[h].prop = NoProp /\ req[h].who # System

Creates(change, x) == change.kind = "exception.create" /\ change.exception = x

\* The proposal adds the exception.
Proposed(p, x) == props[p] # NoProposal /\ Creates(props[p].change, x)

\* The exception is part of what the workspace has published.
Published(x) == \E v \in DOMAIN versions : x \in versions[v].content.exceptions

\* What a proposal stands for is in a version: by name, or by its exception.
Applied(p) == \/ PublishedBy(p) # {}
              \/ \E x \in Exceptions : Proposed(p, x) /\ Published(x)

\* A request of a proposal carries its change, and judged who may decide it.
CarriesProposal ==
  \A h \in Requests : req[h].pc # "idle" /\ req[h].prop \in Pids =>
    LET prop == props[req[h].prop] IN
    /\ prop # NoProposal /\ req[h].change = prop.change
    /\ req[h].pc = "claiming" => MayDecide(req[h].who, prop)

\* Approved proposals were approved by another admin; one request at most holds
\* one, and it is approved as long as that request is under way.
HeldOnce ==
  /\ \A p \in Pids : props[p].state = "approved" => MayDecide(props[p].decidedBy, props[p])
  /\ \A p \in Pids : \A h, k \in Requests : Holds(h, p) /\ Holds(k, p) => h = k
  /\ \A p \in Pids : \A h \in Requests : Holds(h, p) => props[p].state = "approved"

\* What is applied is applied once, and is not put back.
AppliedStays ==
  /\ \A p \in Pids : \A v, w \in PublishedBy(p) : v = w
  /\ \A p \in Pids : Applied(p) =>
       /\ props[p].state = "approved"
       /\ \A h \in Requests : Holds(h, p) => req[h].pc = "recording"

\* An exception belongs to one request or one proposal until it is published.
OneSource ==
  /\ \A p, q \in Pids, x \in Exceptions : Proposed(p, x) /\ Proposed(q, x) => p = q
  /\ \A h \in Requests, x \in Exceptions : Direct(h) /\ Creates(req[h].change, x) =>
       /\ ~Published(x)
       /\ \A p \in Pids : ~Proposed(p, x)
       /\ \A k \in Requests : Direct(k) /\ Creates(req[k].change, x) => k = h

\* A content about to be published has exceptions of versions, and its own.
Sourced(r) ==
  \A x \in r.content.exceptions : Published(x) \/ (r.who # System /\ Creates(r.change, x))
ContentsSourced == \A h \in Requests : req[h].pc = "publishing" => Sourced(req[h])

\* Only a proposal's request can be about to turn the setting off.
OffIsProposed ==
  \A h \in Requests : req[h].pc = "applying" /\ req[h].change.kind = "settings" /\ ~req[h].change.on
                        => req[h].prop \in Pids

IInv == CarriesProposal /\ HeldOnce /\ AppliedStays /\ OneSource /\ ContentsSourced /\ OffIsProposed

-----------------------------------------------------------------------------
\* Types.

\* What a request in flight is, by where it is (the record sets of InFlight).
LEMMA InFlightFields ==
  ASSUME NEW r \in InFlight
  PROVE  /\ r.pc = "idle" => r = Idle
         /\ r.pc # "idle" => r.who \in People \cup {System} /\ r.prop \in Pids \cup {NoProp}
         /\ r.pc = "proposing" => r \in Asking
         /\ r.pc \in {"closing", "claiming"} => r \in Deciding
         /\ r.pc \in {"applying", "recompiling"} => r \in Asking \cup Deciding
         /\ r.pc = "publishing" => r \in Publishing
         /\ r.pc \in {"recording", "reopening"} => r \in Ending
  BY DEF InFlight, Idle, Asking, Deciding, Publishing, Ending

LEMMA AskingType ==
  ASSUME NEW pc \in {"proposing", "applying", "recompiling"}, NEW who \in People,
         NEW change \in Changes, NEW base \in Nat
  PROVE  [pc |-> pc, who |-> who, change |-> change, prop |-> NoProp, base |-> base] \in InFlight
  BY DEF InFlight, Asking

LEMMA DecidingType ==
  ASSUME NEW who \in People, NEW change \in Changes, NEW prop \in Pids
  PROVE  /\ \A to \in Closed : [pc |-> "closing", who |-> who, change |-> change, prop |-> prop,
                               to |-> to] \in InFlight
         /\ [pc |-> "claiming", who |-> who, change |-> change, prop |-> prop,
             to |-> "approved"] \in InFlight
  BY DEF InFlight, Deciding

\* A request's own fields, wherever it is past its claim or applied directly.
LEMMA ChangeType ==
  ASSUME NEW r \in InFlight, r.pc # "idle", r.who # System
  PROVE  r.who \in People /\ r.change \in Changes /\ r.prop \in Pids \cup {NoProp}
  BY DEF InFlight, Idle, Asking, Deciding, Publishing, Ending

\* The pipeline's next step for the same change: compile, record or put back.
LEMMA NextStepType ==
  ASSUME TypeOK, NEW h \in Requests, req[h].pc # "idle", req[h].who # System
  PROVE  /\ \A content \in Contents : Compile(h, content) => req' \in [Requests -> InFlight]
         /\ \A stale \in BOOLEAN : Fail(h, stale) => req' \in [Requests -> InFlight]
         /\ \A v \in Nat : Succeed(h, v) => req' \in [Requests -> InFlight]
<1>1. req \in [Requests -> InFlight] /\ Len(versions) \in Nat /\ Idle \in InFlight
  BY DEF TypeOK, InFlight
<1>2. req[h].who \in People /\ req[h].change \in Changes /\ req[h].prop \in Pids \cup {NoProp}
  BY <1>1, ChangeType
<1>3. ASSUME NEW content \in Contents, Compile(h, content) PROVE req' \in [Requests -> InFlight]
  <2>1. [pc |-> "publishing", who |-> req[h].who, change |-> req[h].change,
         prop |-> req[h].prop, content |-> content, from |-> Latest] \in InFlight
    BY <1>1, <1>2 DEF InFlight, Publishing, Latest
  <2>2. QED BY <1>1, <1>3, <2>1 DEF Compile, Work
<1>4. ASSUME NEW stale \in BOOLEAN, Fail(h, stale) PROVE req' \in [Requests -> InFlight]
  <2>1. CASE req[h].prop = NoProp
    BY <1>1, <1>4, <2>1 DEF Fail, Finish, Work
  <2>2. CASE req[h].prop # NoProp
    <3>1. [pc |-> "reopening", who |-> req[h].who, change |-> req[h].change,
           prop |-> req[h].prop, stale |-> stale] \in InFlight
      BY <1>2, <2>2 DEF InFlight, Ending
    <3>2. QED BY <1>1, <1>4, <2>2, <3>1 DEF Fail, Work
  <2>3. QED BY <2>1, <2>2
<1>5. ASSUME NEW v \in Nat, Succeed(h, v) PROVE req' \in [Requests -> InFlight]
  <2>1. CASE req[h].prop = NoProp \/ v = 0
    BY <1>1, <1>5, <2>1 DEF Succeed, Finish, Work
  <2>2. CASE ~(req[h].prop = NoProp \/ v = 0)
    <3>1. [pc |-> "recording", who |-> req[h].who, change |-> req[h].change,
           prop |-> req[h].prop, version |-> v] \in InFlight
      BY <1>2, <2>2 DEF InFlight, Ending
    <3>2. QED BY <1>1, <1>5, <2>2, <3>1 DEF Succeed, Work
  <2>3. QED BY <2>1, <2>2
<1>6. QED BY <1>3, <1>4, <1>5

\* The contents applyChange can make of the latest version.
LEMMA BaseType == ASSUME TypeOK PROVE Base \in Contents /\ (Latest > 0 => Current \in Contents)
<1>1. Default \in Contents
  <2>1. (CHOOSE b \in Bodies : TRUE) \in Bodies
    BY PolicyAssumption
  <2>2. QED BY <2>1, PolicyAssumption DEF Default, Contents
<1>2. ASSUME Latest > 0 PROVE Current \in Contents
  <2>1. versions[Latest] \in Versions
    BY <1>2 DEF TypeOK, Latest
  <2>2. QED BY <2>1 DEF Versions, Current
<1>3. Latest = 0 \/ Latest > 0
  BY DEF TypeOK, Latest
<1>4. QED BY <1>1, <1>2, <1>3 DEF Base

LEMMA ChangedType ==
  ASSUME TypeOK, NEW change \in Changes, change.kind \notin {"settings", "endpoint.owner"}
  PROVE  Changed(change) \in Contents
<1>1. Base \in Contents
  BY BaseType
<1>2. CASE change.kind = "policy"
  <2>1. change.body \in Bodies /\ (change.central # Keep => change.central \in Centrals)
    BY <1>2 DEF Changes
  <2>2. QED BY <1>1, <1>2, <2>1 DEF Changed, Contents
<1>3. CASE change.kind = "exception.create"
  <2>1. change.exception \in Exceptions
    BY <1>3 DEF Changes
  <2>2. QED BY <1>1, <1>3, <2>1 DEF Changed, Contents
<1>4. CASE change.kind = "exception.delete"
  BY <1>1, <1>4 DEF Changed, Contents
<1>5. QED BY <1>2, <1>3, <1>4 DEF Changes

\* The updates of a proposal's row keep it a proposal, and the same one.
LEMMA ProposalType ==
  ASSUME NEW prop \in Proposals, NEW state \in {"pending", "approved"} \cup Closed,
         NEW who \in People \cup {Nobody}, NEW v \in Nat
  PROVE  /\ [prop EXCEPT !.state = state, !.decidedBy = who] \in Proposals
         /\ [prop EXCEPT !.version = v] \in Proposals
  BY DEF Proposals

LEMMA TypeInit == Init => TypeOK
<1> SUFFICES ASSUME Init PROVE TypeOK
  OBVIOUS
<1>1. First \in Versions
  <2>1. (CHOOSE b \in Bodies : TRUE) \in Bodies
    BY PolicyAssumption
  <2>2. Default \in Contents
    BY <2>1, PolicyAssumption DEF Default, Contents
  <2>3. QED BY <2>2 DEF First, Versions
<1>2. versions \in Seq(Versions) /\ Len(versions) <= MaxVersion
  <2>1. MaxVersion \in Nat /\ 1 <= MaxVersion
    BY PolicyAssumption
  <2>2. CASE versions = <<>>
    BY <2>1, <2>2
  <2>3. CASE versions = <<First>>
    <3> HIDE DEF First
    <3>1. QED BY <1>1, <2>1, <2>3
  <2>4. QED BY <2>2, <2>3 DEF Init
<1>3. props \in [Pids -> Proposals \cup {NoProposal}] /\ owner \in [Machines -> Owners \cup {Nobody}]
  BY DEF Init
<1>4. req \in [Requests -> InFlight]
  BY DEF Init, InFlight
<1>5. approvalOn \in BOOLEAN /\ lapsed \subseteq Exceptions
  BY DEF Init
<1>6. QED BY <1>2, <1>3, <1>4, <1>5 DEF TypeOK

LEMMA TypeNext == TypeOK /\ [Next]_vars => TypeOK'
<1> SUFFICES ASSUME TypeOK, [Next]_vars PROVE TypeOK'
  OBVIOUS
<1>0. req \in [Requests -> InFlight] /\ Idle \in InFlight /\ Len(versions) \in Nat
  BY DEF TypeOK, InFlight
<1>1. ASSUME NEW h \in Requests, NEW who \in People, NEW change \in Asked, AskChange(h, who, change)
      PROVE  TypeOK'
  <2>1. PICK pc \in {"proposing", "applying"}, base \in Nat :
          req' = [req EXCEPT ![h] = [pc |-> pc, who |-> who, change |-> change,
                                     prop |-> NoProp, base |-> base]]
    BY <1>0, <1>1 DEF AskChange, Work, Latest
  <2>2. req' \in [Requests -> InFlight]
    BY <1>0, <2>1, AskingType, AskedAssumption
  <2>3. QED BY <1>1, <2>2 DEF AskChange, TypeOK
<1>2. ASSUME NEW h \in Requests, NEW p \in Pids, CreateProposal(h, p) PROVE TypeOK'
  <2>1. req[h] \in Asking
    BY <1>0, <1>2, InFlightFields DEF CreateProposal
  <2>2. PICK creator \in Admins \cup {Nobody} :
          props' = [props EXCEPT ![p] =
            [state |-> "pending", change |-> req[h].change, base |-> req[h].base, author |-> req[h].who,
             authorOwner |-> creator, decidedBy |-> Nobody, version |-> 0]]
    BY <1>2, PolicyAssumption DEF CreateProposal
  <2>3. [state |-> "pending", change |-> req[h].change, base |-> req[h].base, author |-> req[h].who,
         authorOwner |-> creator, decidedBy |-> Nobody, version |-> 0] \in Proposals
    BY <2>1 DEF Asking, Proposals
  <2>4. props' \in [Pids -> Proposals \cup {NoProposal}]
    BY <2>2, <2>3 DEF TypeOK
  <2>5. req' \in [Requests -> InFlight]
    BY <1>0, <1>2 DEF CreateProposal, Finish, Work
  <2>6. QED BY <1>2, <2>4, <2>5 DEF CreateProposal, TypeOK
<1>3. ASSUME NEW h \in Requests, NEW who \in People, NEW p \in Pids, Judge(h, who, p) PROVE TypeOK'
  <2>1. props[p].change \in Changes
    BY <1>3 DEF Judge, TypeOK, Proposals, NoProposal
  <2>2. PICK r \in InFlight : req' = [req EXCEPT ![h] = r]
    BY <1>3, <2>1, DecidingType DEF Judge, Work, Closed
  <2>3. req' \in [Requests -> InFlight]
    BY <1>0, <2>2
  <2>4. QED BY <1>3, <2>3 DEF Judge, TypeOK
<1>4. ASSUME NEW h \in Requests, NEW to \in {"approved"} \cup Closed, CloseProposal(h, to),
             req[h] \in Deciding
      PROVE  props' \in [Pids -> Proposals \cup {NoProposal}]
  <2> DEFINE p == req[h].prop
  <2>1. p \in Pids /\ req[h].who \in People
    BY <1>4 DEF Deciding
  <2>2. CASE props[p].state = "pending"
    <3>1. props[p] \in Proposals
      BY <2>1, <2>2 DEF TypeOK, NoProposal
    <3>2. props' = [props EXCEPT ![p] = [props[p] EXCEPT !.state = to, !.decidedBy = req[h].who]]
      BY <1>4, <2>1, <2>2 DEF CloseProposal, TypeOK
    <3>3. [props[p] EXCEPT !.state = to, !.decidedBy = req[h].who] \in Proposals
      BY <2>1, <3>1, ProposalType
    <3>4. QED BY <3>2, <3>3 DEF TypeOK
  <2>3. CASE props[p].state # "pending"
    BY <1>4, <2>3 DEF CloseProposal, TypeOK
  <2>4. QED BY <2>2, <2>3
<1>5. ASSUME NEW h \in Requests, CloseStep(h) PROVE TypeOK'
  <2>1. req[h] \in Deciding /\ req[h].to \in Closed
    BY <1>0, <1>5, InFlightFields DEF CloseStep, Deciding
  <2>2. QED BY <1>0, <1>4, <1>5, <2>1 DEF CloseStep, Finish, Work, TypeOK
<1>6. ASSUME NEW h \in Requests, Claim(h) PROVE TypeOK'
  <2>1. req[h] \in Deciding
    BY <1>0, <1>6, InFlightFields DEF Claim
  <2>2. [req[h] EXCEPT !.pc = "applying"] \in InFlight
    BY <1>6, <2>1 DEF Claim, Deciding, InFlight
  <2>3. req' \in [Requests -> InFlight]
    BY <1>0, <1>6, <2>2 DEF Claim, Goto, Finish, Work
  <2>4. QED BY <1>4, <1>6, <2>1, <2>3 DEF Claim, TypeOK
<1>7. ASSUME NEW h \in Requests, ApplySettings(h) PROVE TypeOK'
  <2>1. req[h].change \in Changes
    BY <1>0, <1>7, InFlightFields DEF ApplySettings, Asking, Deciding
  <2>2. req[h].change.on \in BOOLEAN
    BY <1>7, <2>1 DEF ApplySettings, Changes
  <2>3. QED BY <1>0, <1>7, <2>2 DEF ApplySettings, Finish, Work, TypeOK
<1>8. ASSUME NEW h \in Requests, SetEndpointOwner(h) PROVE TypeOK'
  <2>1. req[h] \in Asking \cup Deciding
    BY <1>0, <1>8, InFlightFields DEF SetEndpointOwner
  <2>2. req[h].change.owner \in Owners
    BY <1>8, <2>1 DEF SetEndpointOwner, Asking, Deciding, Changes
  <2>3. [req[h] EXCEPT !.pc = "recompiling"] \in InFlight
    BY <1>8, <2>1 DEF SetEndpointOwner, Asking, Deciding, InFlight
  <2>4. QED BY <1>0, <1>8, <2>2, <2>3 DEF SetEndpointOwner, Goto, Work, TypeOK
<1>9. ASSUME NEW h \in Requests, req[h].pc \in {"applying", "recompiling"}
      PROVE  req[h].who # System /\ req[h].change \in Changes
  BY <1>0, <1>9, InFlightFields, PolicyAssumption DEF Asking, Deciding
<1>10. ASSUME NEW h \in Requests, Recompile(h) PROVE TypeOK'
  <2>1. req' \in [Requests -> InFlight]
    BY <1>9, <1>10, NextStepType, BaseType DEF Recompile
  <2>2. QED BY <1>10, <2>1 DEF Recompile, TypeOK
<1>11. ASSUME NEW h \in Requests, ReadSource(h) PROVE TypeOK'
  <2>1. req' \in [Requests -> InFlight]
    BY <1>9, <1>11, NextStepType, ChangedType DEF ReadSource
  <2>2. QED BY <1>11, <2>1 DEF ReadSource, TypeOK
<1>12. ASSUME NEW h \in Requests, req[h].pc # "idle", req[h].who = System
       PROVE  req[h].prop = NoProp
  BY <1>0, <1>12, PolicyAssumption DEF InFlight, Idle, Asking, Deciding, Publishing, Ending
<1>13. ASSUME NEW h \in Requests, PutPolicy(h) PROVE TypeOK'
  <2>1. req[h] \in Publishing
    BY <1>0, <1>13, InFlightFields DEF PutPolicy
  <2>2. [content |-> req[h].content, from |-> req[h].from, prop |-> req[h].prop] \in Versions
    BY <2>1 DEF Publishing, Versions
  <2>3. versions' \in Seq(Versions) /\ Len(versions') <= MaxVersion
    BY <1>13, <2>2, PolicyAssumption DEF PutPolicy, TypeOK, Latest
  <2>4. req' \in [Requests -> InFlight]
    <3>1. CASE req[h].who = System
      BY <1>0, <1>12, <1>13, <3>1 DEF PutPolicy, Succeed, Finish, Work
    <3>2. CASE req[h].who # System
      BY <1>0, <1>13, <3>2, NextStepType DEF PutPolicy, Latest
    <3>3. QED BY <3>1, <3>2
  <2>5. QED BY <1>13, <2>3, <2>4 DEF PutPolicy, TypeOK
<1>14. ASSUME NEW h \in Requests, ApplyFails(h) PROVE TypeOK'
  <2>1. req' \in [Requests -> InFlight]
    <3>1. CASE req[h].who = System
      BY <1>0, <1>12, <1>14, <3>1 DEF ApplyFails, Fail, Finish, Work
    <3>2. CASE req[h].who # System
      BY <1>14, <3>2, NextStepType DEF ApplyFails
    <3>3. QED BY <3>1, <3>2
  <2>2. QED BY <1>14, <2>1 DEF ApplyFails, TypeOK
<1>15. ASSUME NEW h \in Requests, req[h].pc \in {"recording", "reopening"}
       PROVE  req[h] \in Ending /\ req[h].prop \in Pids
  BY <1>0, <1>15, InFlightFields DEF Ending
<1>16. ASSUME NEW h \in Requests, ProposalApplied(h) PROVE TypeOK'
  <2>1. req[h].prop \in Pids /\ req[h].version \in Nat
    BY <1>15, <1>16 DEF ProposalApplied, Ending
  <2>2. props' = [props EXCEPT ![req[h].prop] = [props[req[h].prop] EXCEPT !.version = req[h].version]]
    BY <1>16 DEF ProposalApplied
  <2>3. [props[req[h].prop] EXCEPT !.version = req[h].version] \in Proposals \cup {NoProposal}
    <3>1. CASE props[req[h].prop] \in Proposals
      BY <2>1, <3>1 DEF Proposals
    <3>2. CASE props[req[h].prop] = NoProposal
      BY <3>2 DEF NoProposal
    <3>3. QED BY <2>1, <3>1, <3>2 DEF TypeOK
  <2>4. props' \in [Pids -> Proposals \cup {NoProposal}]
    BY <2>1, <2>2, <2>3 DEF TypeOK
  <2>5. QED BY <1>0, <1>16, <2>4 DEF ProposalApplied, Finish, Work, TypeOK
<1>17. ASSUME NEW h \in Requests, ReopenProposal(h) PROVE TypeOK'
  <2> DEFINE p == req[h].prop
  <2>1. req[h] \in Ending /\ p \in Pids
    BY <1>15, <1>17 DEF ReopenProposal
  <2>2. req[h].who \in People /\ req[h].change \in Changes
    BY <2>1 DEF Ending
  <2>3. props' \in [Pids -> Proposals \cup {NoProposal}]
    <3>1. CASE props[p].state = "approved"
      <4>1. props[p] \in Proposals
        BY <2>1, <3>1 DEF TypeOK, NoProposal
      <4>2. [props[p] EXCEPT !.state = "pending", !.decidedBy = Nobody] \in Proposals
        BY <4>1, ProposalType
      <4>3. props' = props \/
            props' = [props EXCEPT ![p] = [props[p] EXCEPT !.state = "pending", !.decidedBy = Nobody]]
        BY <1>17, <2>1 DEF ReopenProposal, TypeOK
      <4>4. QED BY <4>2, <4>3 DEF TypeOK
    <3>2. CASE props[p].state # "approved"
      BY <1>17, <3>2 DEF ReopenProposal, TypeOK
    <3>3. QED BY <3>1, <3>2
  <2>4. req' \in [Requests -> InFlight]
    BY <1>0, <1>17, <2>1, <2>2, DecidingType DEF ReopenProposal, Finish, Work, Closed
  <2>5. QED BY <1>17, <2>3, <2>4 DEF ReopenProposal, TypeOK
<1>18. ASSUME NEW h \in Requests, Cancel(h) PROVE TypeOK'
  BY <1>0, <1>18 DEF Cancel, Finish, Work, TypeOK
<1>19. ASSUME NEW h \in Requests, ExpireExceptions(h) PROVE TypeOK'
  <2>1. [Current EXCEPT !.exceptions = @ \ lapsed] \in Contents
    BY <1>19, BaseType DEF ExpireExceptions, Contents
  <2>2. [pc |-> "publishing", who |-> System, prop |-> NoProp, from |-> Latest,
         content |-> [Current EXCEPT !.exceptions = @ \ lapsed]] \in InFlight
    BY <1>0, <2>1 DEF InFlight, Publishing, Latest
  <2>3. QED BY <1>0, <1>19, <2>2 DEF ExpireExceptions, Work, TypeOK
<1>20. ASSUME NEW x \in Exceptions, Lapse(x) PROVE TypeOK'
  BY <1>20 DEF Lapse, TypeOK
<1>21. CASE UNCHANGED vars
  BY <1>21 DEF vars, TypeOK
<1>22. QED
  BY <1>1, <1>2, <1>3, <1>5, <1>6, <1>7, <1>8, <1>10, <1>11, <1>13, <1>14, <1>16, <1>17,
     <1>18, <1>19, <1>20, <1>21 DEF Next

\* The log of versions, the proposals and every request in flight have their
\* types: a decision's request always names a proposal and a compiled content.
THEOREM TypeCorrect == Spec => []TypeOK
<1>1. QED BY TypeInit, TypeNext, PTL DEF Spec

-----------------------------------------------------------------------------
\* Steps that change one request and neither the proposals nor the versions.

\* What a request h that becomes r must satisfy for the invariant to go on.
Sound(h, r) ==
  /\ r.pc # "idle" /\ r.prop \in Pids =>
       /\ props[r.prop] # NoProposal /\ r.change = props[r.prop].change
       /\ r.pc = "claiming" => MayDecide(r.who, props[r.prop])
       /\ r.pc \in Past => Holds(h, r.prop) /\ (r.pc # "recording" => req[h].pc # "recording")
  /\ r.pc # "idle" /\ r.prop = NoProp /\ r.who # System =>
       \A x \in Exceptions : Creates(r.change, x) =>
         /\ ~Published(x)
         /\ \A p \in Pids : ~Proposed(p, x)
         /\ \A k \in Requests \ {h} : ~(Direct(k) /\ Creates(req[k].change, x))
  /\ r.pc = "publishing" => Sourced(r)
  /\ r.pc = "applying" /\ r.change.kind = "settings" /\ ~r.change.on => r.prop \in Pids

LEMMA RequestStep ==
  ASSUME IInv, NEW h \in Requests, NEW r, Sound(h, r), req \in [Requests -> InFlight],
         req' = [req EXCEPT ![h] = r], versions' = versions, props' = props
  PROVE  IInv'
<1>1. req'[h] = r /\ \A k \in Requests \ {h} : req'[k] = req[k]
  OBVIOUS
<1>2. /\ \A x : Published(x)' <=> Published(x)
      /\ \A p \in Pids : PublishedBy(p)' = PublishedBy(p) /\ (Applied(p)' <=> Applied(p))
      /\ \A p \in Pids, x \in Exceptions : Proposed(p, x)' <=> Proposed(p, x)
  BY DEF Published, PublishedBy, Applied, Proposed
<1>3. \A p \in Pids, k \in Requests : Holds(k, p)' => Holds(k, p)
  BY <1>1 DEF Sound, Holds, Past
<1>4. CarriesProposal'
  BY <1>1 DEF IInv, CarriesProposal, Sound, MayDecide
<1>5. HeldOnce'
  BY <1>3 DEF IInv, HeldOnce, MayDecide
<1>6. AppliedStays'
  <2>1. ASSUME NEW p \in Pids, Applied(p)', NEW k \in Requests, Holds(k, p)'
        PROVE  req'[k].pc = "recording"
    <3>1. Holds(k, p) /\ req[k].pc = "recording"
      BY <1>2, <1>3, <2>1 DEF IInv, AppliedStays
    <3>2. QED BY <1>1, <2>1, <3>1 DEF Sound, Holds, Past
  <2>2. QED BY <1>2, <2>1 DEF IInv, AppliedStays
<1>7. OneSource'
  <2>1. \A k \in Requests \ {h} : Direct(k)' <=> Direct(k)
    BY <1>1 DEF Direct
  <2>2. ASSUME NEW k \in Requests, NEW x \in Exceptions, Direct(k)', Creates(req'[k].change, x)
        PROVE  /\ ~Published(x)
               /\ \A p \in Pids : ~Proposed(p, x)
               /\ \A j \in Requests : Direct(j)' /\ Creates(req'[j].change, x) => j = k
    <3>1. CASE k = h
      BY <1>1, <2>1, <2>2, <3>1 DEF Sound, Direct
    <3>2. CASE k # h
      <4>1. Direct(k) /\ Creates(req[k].change, x)
        BY <1>1, <2>1, <2>2, <3>2
      <4>2. ~(Direct(h)' /\ Creates(req'[h].change, x))
        BY <1>1, <3>2, <4>1 DEF Sound, Direct
      <4>3. QED BY <1>1, <2>1, <3>2, <4>1, <4>2 DEF IInv, OneSource
    <3>3. QED BY <3>1, <3>2
  <2>3. QED BY <1>2, <2>2 DEF IInv, OneSource
<1>8. ContentsSourced'
  BY <1>1, <1>2 DEF IInv, ContentsSourced, Sound, Sourced
<1>9. OffIsProposed'
  BY <1>1 DEF IInv, OffIsProposed, Sound
<1>10. QED BY <1>4, <1>5, <1>6, <1>7, <1>8, <1>9 DEF IInv

LEMMA IdleSound == ASSUME NEW h \in Requests PROVE Sound(h, Idle)
  BY DEF Sound, Idle

\* The pipeline of a change that is being applied goes on, with what it compiled.
LEMMA Continues ==
  ASSUME IInv, TypeOK, NEW h \in Requests, NEW r,
         req[h].pc \in {"applying", "recompiling", "publishing"}, req[h].who # System,
         r.pc \in {"recompiling", "publishing", "reopening"},
         r.who = req[h].who, r.prop = req[h].prop, r.change = req[h].change,
         r.pc = "publishing" => Sourced(r)
  PROVE  Sound(h, r)
<1>1. r.prop \in Pids => /\ props[r.prop] # NoProposal /\ r.change = props[r.prop].change
                         /\ Holds(h, r.prop) /\ req[h].pc # "recording"
  BY DEF IInv, CarriesProposal, Holds, Past
<1>2. r.prop = NoProp => \A x \in Exceptions : Creates(r.change, x) =>
         /\ ~Published(x)
         /\ \A p \in Pids : ~Proposed(p, x)
         /\ \A k \in Requests \ {h} : ~(Direct(k) /\ Creates(req[k].change, x))
  BY DEF IInv, OneSource, Direct
<1>3. QED BY <1>1, <1>2 DEF Sound

\* The exceptions of the latest version are published, so what applyChange
\* compiles has no exception but those and its own.
LEMMA BaseSourced ==
  ASSUME TypeOK
  PROVE  /\ \A x \in Base.exceptions : Published(x)
         /\ Latest > 0 => \A x \in Current.exceptions : Published(x)
<1>1. Latest \in Nat /\ DOMAIN versions = 1..Latest
  BY DEF TypeOK, Latest
<1>2. Latest > 0 => Latest \in DOMAIN versions
  BY <1>1
<1>3. QED BY <1>1, <1>2 DEF Base, Default, Current, Published

LEMMA ChangedSourced ==
  ASSUME TypeOK, NEW change \in Changes, change.kind \notin {"settings", "endpoint.owner"},
         NEW x \in Changed(change).exceptions
  PROVE  Published(x) \/ Creates(change, x)
<1>1. Base \in Contents
  BY BaseType
<1>2. x \in Base.exceptions \/ Creates(change, x)
  <2>1. CASE change.kind = "policy"
    BY <1>1, <2>1 DEF Changed, Contents
  <2>2. CASE change.kind = "exception.create"
    BY <1>1, <2>2 DEF Changed, Contents, Creates
  <2>3. CASE change.kind = "exception.delete"
    BY <1>1, <2>3 DEF Changed, Contents
  <2>4. QED BY <2>1, <2>2, <2>3 DEF Changes
<1>3. QED BY <1>2, BaseSourced

\* Fail, Succeed without a version, and Compile are sound steps of a change
\* that is being applied.
LEMMA PipelineSound ==
  ASSUME IInv, TypeOK, NEW h \in Requests, versions' = versions, props' = props,
         req[h].pc \in {"applying", "recompiling", "publishing"}, req[h].who # System
  PROVE  /\ \A stale \in BOOLEAN : Fail(h, stale) => IInv'
         /\ Succeed(h, 0) => IInv'
         /\ \A content \in Contents :
              (\A x \in content.exceptions : Published(x) \/ Creates(req[h].change, x))
                /\ Compile(h, content) => IInv'
<1>0. req \in [Requests -> InFlight]
  BY DEF TypeOK
<1>1. Finish(h) => IInv'
  BY <1>0, IdleSound, RequestStep DEF Finish, Work
<1>2. ASSUME NEW stale \in BOOLEAN, Fail(h, stale) PROVE IInv'
  <2> DEFINE r == [pc |-> "reopening", who |-> req[h].who, change |-> req[h].change,
                   prop |-> req[h].prop, stale |-> stale]
  <2>1. Sound(h, r)
    BY Continues
  <2>2. Finish(h) \/ Work(h, r)
    BY <1>2 DEF Fail
  <2> HIDE DEF r
  <2>3. QED BY <1>0, <1>1, <2>1, <2>2, RequestStep DEF Work
<1>3. ASSUME NEW content \in Contents, Compile(h, content),
             \A x \in content.exceptions : Published(x) \/ Creates(req[h].change, x)
      PROVE  IInv'
  <2> DEFINE r == [pc |-> "publishing", who |-> req[h].who, change |-> req[h].change,
                   prop |-> req[h].prop, content |-> content, from |-> Latest]
  <2>1. Sourced(r)
    BY <1>3 DEF Sourced
  <2>2. Sound(h, r)
    <3>1. /\ r.pc = "publishing" /\ r.who = req[h].who
          /\ r.prop = req[h].prop /\ r.change = req[h].change
      OBVIOUS
    <3> HIDE DEF r
    <3>2. QED BY <2>1, <3>1, Continues
  <2>3. Work(h, r)
    BY <1>3 DEF Compile
  <2> HIDE DEF r
  <2>4. QED BY <1>0, <2>2, <2>3, RequestStep DEF Work
<1>4. QED BY <1>1, <1>2, <1>3 DEF Succeed

\* Who applies a change, and what a request past its claim is.
LEMMA Appliers ==
  ASSUME TypeOK, NEW h \in Requests
  PROVE  /\ req[h].pc \in {"applying", "recompiling"} =>
              req[h].who # System /\ req[h].who \in People /\ req[h].change \in Changes
         /\ req[h].pc # "idle" /\ req[h].who = System =>
              req[h].pc = "publishing" /\ req[h].prop = NoProp
         /\ req[h].pc \in {"closing", "claiming", "recording", "reopening"} =>
              /\ req[h].who # System /\ req[h].who \in People
              /\ req[h].prop \in Pids /\ req[h].change \in Changes
<1>1. req[h] \in InFlight
  BY DEF TypeOK
<1>2. System \notin People
  BY PolicyAssumption
<1>3. CASE req[h].pc \in {"applying", "recompiling"}
  BY <1>1, <1>2, <1>3, InFlightFields DEF Asking, Deciding
<1>4. CASE req[h].pc \in {"closing", "claiming"}
  BY <1>1, <1>2, <1>4, InFlightFields DEF Deciding
<1>5. CASE req[h].pc \in {"recording", "reopening"}
  BY <1>1, <1>2, <1>5, InFlightFields DEF Ending
<1>6. CASE req[h].pc \in {"proposing", "publishing"}
  BY <1>1, <1>2, <1>6, InFlightFields DEF Asking, Publishing
<1>7. req[h].pc \in Past \cup {"idle", "proposing", "closing", "claiming"}
  BY <1>1 DEF InFlight, Idle, Asking, Deciding, Publishing, Ending, Past
<1>8. QED BY <1>3, <1>4, <1>5, <1>6, <1>7 DEF Past

\* The steps that ask for a change, judge a proposal, apply, fail or give up.
LEMMA RequestSteps ==
  ASSUME TypeOK, IInv, NEW h \in Requests,
         \/ \E who \in People, change \in Asked : AskChange(h, who, change)
         \/ \E who \in People, p \in Pids : Judge(h, who, p)
         \/ ApplySettings(h) \/ SetEndpointOwner(h) \/ Recompile(h) \/ ReadSource(h)
         \/ ApplyFails(h) \/ Cancel(h) \/ ExpireExceptions(h)
  PROVE  IInv'
<1>0. req \in [Requests -> InFlight] /\ Len(versions) \in Nat
  BY DEF TypeOK
<1>1. Finish(h) /\ versions' = versions /\ props' = props => IInv'
  BY <1>0, IdleSound, RequestStep DEF Finish, Work
<1>2. ASSUME NEW who \in People, NEW change \in Asked, AskChange(h, who, change) PROVE IInv'
  <2> DEFINE r == [pc |-> IF approvalOn THEN "proposing" ELSE "applying", who |-> who,
                   change |-> change, prop |-> NoProp, base |-> IF approvalOn THEN Latest ELSE 0]
  <2>1. r.who \in People /\ r.prop = NoProp /\ r.change = change /\ r.pc \in {"proposing", "applying"}
    OBVIOUS
  <2>2. r.pc = "applying" /\ change.kind = "settings" => change.on
    <3>1. CASE approvalOn
      BY <3>1
    <3>2. CASE ~approvalOn
      <4>1. change \in Changes
        BY AskedAssumption
      <4>2. change.kind = "settings" => change.on \in BOOLEAN /\ change.on # approvalOn
        BY <1>2, <4>1 DEF AskChange, AskPolicy, AskException, AskRemoval, AskOwner, AskSettings, Changes
      <4>3. approvalOn = FALSE
        BY <3>2 DEF TypeOK
      <4>4. QED BY <4>2, <4>3
    <3>3. QED BY <3>1, <3>2
  <2>3. ASSUME NEW x \in Exceptions, Creates(change, x)
        PROVE  /\ ~Published(x)
               /\ \A p \in Pids : ~Proposed(p, x)
               /\ \A k \in Requests \ {h} : ~(Direct(k) /\ Creates(req[k].change, x))
    <3>1. Fresh(x)
      BY <1>2, <2>3 DEF AskChange, AskPolicy, AskException, AskRemoval, AskOwner, AskSettings, Creates
    <3>2. QED BY <3>1 DEF Fresh, Published, Proposed, Creates, Direct, Idle
  <2>4. Work(h, r) /\ versions' = versions /\ props' = props
    BY <1>2 DEF AskChange
  <2> HIDE DEF r
  <2>5. Sound(h, r)
    BY <2>1, <2>2, <2>3, PolicyAssumption DEF Sound, Past
  <2>6. QED BY <1>0, <2>4, <2>5, RequestStep DEF Work
<1>3. ASSUME NEW who \in People, NEW p \in Pids, Judge(h, who, p) PROVE IInv'
  <2>1. props[p] # NoProposal
    BY <1>3 DEF Judge, NoProposal
  <2>2. PICK r : /\ Work(h, r) /\ r.pc \in {"closing", "claiming"} /\ r.prop = p /\ r.who = who
                 /\ r.change = props[p].change /\ (r.pc = "claiming" => MayDecide(who, props[p]))
    BY <1>3 DEF Judge
  <2>3. Sound(h, r)
    BY <2>1, <2>2, PolicyAssumption DEF Sound, Past
  <2>4. QED BY <1>0, <1>3, <2>2, <2>3, RequestStep DEF Judge, Work
<1>4. CASE ApplySettings(h)
  BY <1>1, <1>4 DEF ApplySettings
<1>5. CASE SetEndpointOwner(h)
  <2> DEFINE r == [req[h] EXCEPT !.pc = "recompiling"]
  <2>1. /\ r.pc = "recompiling" /\ r.who = req[h].who
        /\ r.prop = req[h].prop /\ r.change = req[h].change
    BY <1>0, <1>5, InFlightFields DEF SetEndpointOwner, Asking, Deciding
  <2>2. Work(h, r) /\ versions' = versions /\ props' = props
    BY <1>5 DEF SetEndpointOwner, Goto
  <2> HIDE DEF r
  <2>3. Sound(h, r)
    BY <1>5, <2>1, Appliers, Continues DEF SetEndpointOwner
  <2>4. QED BY <1>0, <2>2, <2>3, RequestStep DEF Work
<1>6. CASE Recompile(h)
  BY <1>0, <1>6, Appliers, BaseType, BaseSourced, PipelineSound DEF Recompile
<1>7. CASE ReadSource(h)
  BY <1>0, <1>7, Appliers, ChangedType, ChangedSourced, PipelineSound DEF ReadSource
<1>8. CASE ApplyFails(h)
  <2>1. CASE req[h].who = System
    BY <1>1, <1>8, <2>1, Appliers DEF ApplyFails, Fail
  <2>2. CASE req[h].who # System
    BY <1>8, <2>2, PipelineSound DEF ApplyFails
  <2>3. QED BY <2>1, <2>2
<1>9. CASE Cancel(h)
  BY <1>1, <1>9 DEF Cancel
<1>10. CASE ExpireExceptions(h)
  <2> DEFINE r == [pc |-> "publishing", who |-> System, prop |-> NoProp, from |-> Latest,
                   content |-> [Current EXCEPT !.exceptions = @ \ lapsed]]
  <2>1. r.pc = "publishing" /\ r.who = System /\ r.prop = NoProp
    OBVIOUS
  <2>2. Sourced(r)
    <3>1. Current \in Contents /\ \A x \in Current.exceptions : Published(x)
      BY <1>10, BaseType, BaseSourced DEF ExpireExceptions
    <3>2. r.content.exceptions \subseteq Current.exceptions
      BY <3>1 DEF Contents
    <3>3. QED BY <3>1, <3>2 DEF Sourced
  <2>3. Work(h, r) /\ versions' = versions /\ props' = props
    BY <1>10 DEF ExpireExceptions
  <2> HIDE DEF r
  <2>4. Sound(h, r)
    BY <2>1, <2>2, PolicyAssumption DEF Sound
  <2>5. QED BY <1>0, <2>3, <2>4, RequestStep DEF Work
<1>11. QED BY <1>2, <1>3, <1>4, <1>5, <1>6, <1>7, <1>8, <1>9, <1>10

-----------------------------------------------------------------------------
\* Steps that write a proposal.

\* A pending proposal is nobody's and nothing of it is published.
LEMMA PendingFree ==
  ASSUME IInv, NEW p \in Pids, props[p].state # "approved"
  PROVE  /\ ~Applied(p)
         /\ \A k \in Requests : ~Holds(k, p)
  BY DEF IInv, HeldOnce, AppliedStays

\* A request past the claim of a proposal, and not recording it, has it alone
\* and nothing of the proposal is published yet.
LEMMA HolderAlone ==
  ASSUME IInv, NEW h \in Requests, NEW p \in Pids, Holds(h, p)
  PROVE  /\ props[p].state = "approved" /\ MayDecide(props[p].decidedBy, props[p])
         /\ \A k \in Requests \ {h} : ~Holds(k, p)
         /\ req[h].pc # "recording" => ~Applied(p)
  BY DEF IInv, HeldOnce, AppliedStays

\* A request writes the row n of its proposal and becomes r.
LEMMA ProposalStep ==
  ASSUME IInv, TypeOK, NEW h \in Requests, NEW p \in Pids, NEW n, NEW r,
         req[h].pc # "idle", req[h].prop = p,
         req' = [req EXCEPT ![h] = r], versions' = versions, props' = [props EXCEPT ![p] = n],
         n # NoProposal, n.change = props[p].change,
         n.author = props[p].author, n.authorOwner = props[p].authorOwner,
         n.state = "approved" => MayDecide(n.decidedBy, n),
         \/ r = Idle
         \/ r.prop = p /\ r.change = req[h].change /\ r.who # System /\ r.pc \in {"closing", "applying"},
         n.state # "approved" \/ r.pc = "applying" =>
           ~Applied(p) /\ \A k \in Requests \ {h} : ~Holds(k, p),
         r.pc = "applying" => n.state = "approved"
  PROVE  IInv'
<1>0. req \in [Requests -> InFlight] /\ props \in [Pids -> Proposals \cup {NoProposal}] /\ NoProp \notin Pids
  BY PolicyAssumption DEF TypeOK
<1>1. req'[h] = r /\ \A k \in Requests \ {h} : req'[k] = req[k]
  BY <1>0
<1>2. props'[p] = n /\ \A q \in Pids \ {p} : props'[q] = props[q]
  BY <1>0
<1>3. props[p] # NoProposal
  BY DEF IInv, CarriesProposal
<1>4. /\ \A x : Published(x)' <=> Published(x)
      /\ \A q \in Pids : PublishedBy(q)' = PublishedBy(q)
      /\ \A q \in Pids, x \in Exceptions : Proposed(q, x)' <=> Proposed(q, x)
  BY <1>2, <1>3 DEF Published, PublishedBy, Proposed
<1>5. \A q \in Pids : Applied(q)' <=> Applied(q)
  BY <1>4 DEF Applied
<1>6. \A q \in Pids : \A who : MayDecide(who, props'[q]) <=> MayDecide(who, props[q])
  BY <1>2 DEF MayDecide
<1>7. \A q \in Pids, k \in Requests :
        Holds(k, q)' => \/ k = h /\ q = p /\ r.pc = "applying"
                        \/ k # h /\ Holds(k, q)
  <2>1. ASSUME NEW q \in Pids, Holds(h, q)' PROVE q = p /\ r.pc = "applying"
    BY <1>1, <2>1 DEF Holds, Past, Idle
  <2>2. ASSUME NEW q \in Pids, NEW k \in Requests \ {h}, Holds(k, q)' PROVE Holds(k, q)
    BY <1>1, <2>2 DEF Holds
  <2>3. QED BY <2>1, <2>2
<1>8. CarriesProposal'
  <2>1. ASSUME NEW k \in Requests, req'[k].pc # "idle", req'[k].prop \in Pids
        PROVE  /\ props'[req'[k].prop] # NoProposal /\ req'[k].change = props'[req'[k].prop].change
               /\ req'[k].pc = "claiming" => MayDecide(req'[k].who, props'[req'[k].prop])
    <3>1. CASE k = h
      BY <1>1, <1>2, <2>1, <3>1 DEF IInv, CarriesProposal, Idle
    <3>2. CASE k # h
      BY <1>1, <1>2, <1>6, <2>1, <3>2 DEF IInv, CarriesProposal
    <3>3. QED BY <3>1, <3>2
  <2>2. QED BY <2>1 DEF CarriesProposal, MayDecide
<1>9. HeldOnce'
  <2>1. \A q \in Pids : props'[q].state = "approved" => MayDecide(props'[q].decidedBy, props'[q])
    BY <1>2 DEF IInv, HeldOnce
  <2>2. \A q \in Pids : \A j, k \in Requests : Holds(j, q)' /\ Holds(k, q)' => j = k
    BY <1>7 DEF IInv, HeldOnce
  <2>3. \A q \in Pids : \A k \in Requests : Holds(k, q)' => props'[q].state = "approved"
    BY <1>2, <1>7 DEF IInv, HeldOnce
  <2>4. QED BY <2>1, <2>2, <2>3 DEF HeldOnce, MayDecide
<1>10. AppliedStays'
  <2>1. ASSUME NEW q \in Pids, Applied(q)
        PROVE  /\ props'[q].state = "approved"
               /\ \A k \in Requests : Holds(k, q)' => req'[k].pc = "recording"
    <3>1. props'[q].state = "approved"
      BY <1>2, <2>1 DEF IInv, AppliedStays
    <3>2. ASSUME NEW k \in Requests, Holds(k, q)' PROVE req'[k].pc = "recording"
      BY <1>1, <1>7, <2>1, <3>2 DEF IInv, AppliedStays
    <3>3. QED BY <3>1, <3>2
  <2>2. QED BY <1>4, <1>5, <2>1 DEF IInv, AppliedStays
<1>11. OneSource'
  <2>1. \A k \in Requests : Direct(k)' => k # h /\ Direct(k) /\ req'[k] = req[k]
    BY <1>0, <1>1 DEF Direct, Idle
  <2>2. QED BY <1>4, <2>1 DEF IInv, OneSource
<1>12. ContentsSourced'
  BY <1>1, <1>4 DEF IInv, ContentsSourced, Sourced, Idle
<1>13. OffIsProposed'
  BY <1>1 DEF IInv, OffIsProposed, Idle
<1>14. QED BY <1>8, <1>9, <1>10, <1>11, <1>12, <1>13 DEF IInv

\* CloseProposal, for a rejection, a withdrawal or a stale proposal.
LEMMA CloseKeeps ==
  ASSUME IInv, TypeOK, NEW h \in Requests, CloseStep(h)
  PROVE  IInv'
<1> DEFINE p == req[h].prop
           n == [props[p] EXCEPT !.state = req[h].to, !.decidedBy = req[h].who]
<1>1. req \in [Requests -> InFlight] /\ req' = [req EXCEPT ![h] = Idle] /\ versions' = versions
  BY DEF CloseStep, Finish, Work, TypeOK
<1>2. req[h].pc = "closing" /\ p \in Pids /\ req[h].to \in Closed
  BY <1>1, InFlightFields DEF CloseStep, Deciding
<1>3. CASE props[p].state = "pending"
  <2>1. props[p] \in Proposals
    BY <1>2, <1>3 DEF TypeOK, NoProposal
  <2>2. props' = [props EXCEPT ![p] = n]
    BY <1>2, <1>3 DEF CloseStep, CloseProposal, TypeOK
  <2>3. /\ n.state \in Closed /\ n.change = props[p].change
        /\ n.author = props[p].author /\ n.authorOwner = props[p].authorOwner
    BY <1>2, <2>1 DEF Proposals
  <2>4. n # NoProposal /\ n.state # "approved"
    BY <2>3 DEF Closed, NoProposal
  <2>5. ~Applied(p) /\ \A k \in Requests : ~Holds(k, p)
    BY <1>2, <1>3, PendingFree
  <2>6. Idle.pc # "applying"
    BY DEF Idle
  <2> HIDE DEF n
  <2>7. QED BY <1>1, <1>2, <2>2, <2>3, <2>4, <2>5, <2>6, ProposalStep
<1>4. CASE props[p].state # "pending"
  <2>1. props' = props
    BY <1>4 DEF CloseStep, CloseProposal
  <2>2. QED BY <1>1, <2>1, IdleSound, RequestStep
<1>5. QED BY <1>3, <1>4

\* Claim: the caller that finds the proposal pending is its only holder.
LEMMA ClaimKeeps ==
  ASSUME IInv, TypeOK, NEW h \in Requests, Claim(h)
  PROVE  IInv'
<1> DEFINE p == req[h].prop
           n == [props[p] EXCEPT !.state = "approved", !.decidedBy = req[h].who]
           r == [req[h] EXCEPT !.pc = "applying"]
<1>1. req \in [Requests -> InFlight] /\ versions' = versions /\ req[h].pc = "claiming"
  BY DEF Claim, TypeOK
<1>2. p \in Pids /\ req[h].who # System
  BY <1>1, Appliers
<1>3. CASE props[p].state = "pending"
  <2>1. props[p] \in Proposals
    BY <1>2, <1>3 DEF TypeOK, NoProposal
  <2>2. props' = [props EXCEPT ![p] = n] /\ req' = [req EXCEPT ![h] = r]
    BY <1>2, <1>3 DEF Claim, CloseProposal, Goto, Work, TypeOK
  <2>3. /\ n.state = "approved" /\ n.decidedBy = req[h].who /\ n.change = props[p].change
        /\ n.author = props[p].author /\ n.authorOwner = props[p].authorOwner
    BY <2>1 DEF Proposals
  <2>4. n # NoProposal
    BY <2>3 DEF NoProposal
  <2>5. MayDecide(n.decidedBy, n)
    BY <1>1, <1>2, <2>3 DEF IInv, CarriesProposal, MayDecide
  <2>6. ~Applied(p) /\ \A k \in Requests : ~Holds(k, p)
    BY <1>2, <1>3, PendingFree
  <2>7. req[h] \in Deciding
    BY <1>1, InFlightFields
  <2>8. r.pc = "applying" /\ r.prop = p /\ r.change = req[h].change /\ r.who = req[h].who
    BY <2>7 DEF Deciding
  <2> HIDE DEF n, r
  <2>9. QED BY <1>1, <1>2, <2>2, <2>3, <2>4, <2>5, <2>6, <2>8, ProposalStep
<1>4. CASE props[p].state # "pending"
  <2>1. props' = props /\ req' = [req EXCEPT ![h] = Idle]
    BY <1>4 DEF Claim, CloseProposal, Finish, Work
  <2>2. QED BY <1>1, <2>1, IdleSound, RequestStep
<1>5. QED BY <1>3, <1>4

\* ProposalApplied writes the version of a proposal that stays approved.
LEMMA RecordKeeps ==
  ASSUME IInv, TypeOK, NEW h \in Requests, ProposalApplied(h)
  PROVE  IInv'
<1> DEFINE p == req[h].prop
           n == [props[p] EXCEPT !.version = req[h].version]
<1>1. /\ req \in [Requests -> InFlight] /\ versions' = versions /\ req[h].pc = "recording"
      /\ req' = [req EXCEPT ![h] = Idle] /\ props' = [props EXCEPT ![p] = n]
  BY DEF ProposalApplied, Finish, Work, TypeOK
<1>2. p \in Pids /\ Holds(h, p)
  BY <1>1, Appliers DEF Holds, Past
<1>3. props[p].state = "approved" /\ MayDecide(props[p].decidedBy, props[p])
  BY <1>2, HolderAlone
<1>4. props[p] \in Proposals
  BY <1>2, <1>3 DEF TypeOK, NoProposal
<1>5. /\ n.state = "approved" /\ n.decidedBy = props[p].decidedBy /\ n.change = props[p].change
      /\ n.author = props[p].author /\ n.authorOwner = props[p].authorOwner
  BY <1>3, <1>4 DEF Proposals
<1>6. n # NoProposal /\ MayDecide(n.decidedBy, n) /\ Idle.pc # "applying"
  BY <1>3, <1>5 DEF NoProposal, MayDecide, Idle
<1> HIDE DEF n
<1>7. QED BY <1>1, <1>2, <1>5, <1>6, ProposalStep

\* ReopenProposal: only the request that holds the claim can put it back.
LEMMA ReopenKeeps ==
  ASSUME IInv, TypeOK, NEW h \in Requests, ReopenProposal(h)
  PROVE  IInv'
<1> DEFINE p == req[h].prop
           n == [props[p] EXCEPT !.state = "pending", !.decidedBy = Nobody]
           c == [pc |-> "closing", who |-> req[h].who, change |-> req[h].change,
                 prop |-> p, to |-> "superseded"]
<1>1. req \in [Requests -> InFlight] /\ versions' = versions /\ req[h].pc = "reopening"
  BY DEF ReopenProposal, TypeOK
<1>2. p \in Pids /\ Holds(h, p) /\ req[h].who # System
  BY <1>1, Appliers DEF Holds, Past
<1>3. /\ props[p].state = "approved" /\ ~Applied(p)
      /\ \A k \in Requests \ {h} : ~Holds(k, p)
  BY <1>1, <1>2, HolderAlone
<1>4. props[p] \in Proposals
  BY <1>2, <1>3 DEF TypeOK, NoProposal
<1>5. PICK r : /\ req' = [req EXCEPT ![h] = r]
               /\ r = Idle \/ r = c
  BY DEF ReopenProposal, Finish, Work
<1>6. \/ r = Idle
      \/ r.prop = p /\ r.change = req[h].change /\ r.who # System /\ r.pc = "closing"
  BY <1>2, <1>5
<1>7. r.pc # "applying"
  BY <1>6 DEF Idle
<1>8. CASE props' = [props EXCEPT ![p] = n]
  <2>1. /\ n.state = "pending" /\ n.change = props[p].change
        /\ n.author = props[p].author /\ n.authorOwner = props[p].authorOwner
    BY <1>4 DEF Proposals
  <2>2. n # NoProposal
    BY <2>1 DEF NoProposal
  <2> HIDE DEF n, c
  <2>3. QED BY <1>1, <1>2, <1>3, <1>5, <1>6, <1>7, <1>8, <2>1, <2>2, ProposalStep
<1>9. CASE props' = props
  <2>1. Sound(h, Idle)
    BY IdleSound
  <2>2. Sound(h, r)
    <3>1. CASE r = Idle
      BY <2>1, <3>1
    <3>2. CASE r.prop = p /\ r.change = req[h].change /\ r.who # System /\ r.pc = "closing"
      BY <1>1, <1>2, <3>2, PolicyAssumption DEF Sound, Past, IInv, CarriesProposal
    <3>3. QED BY <1>6, <3>1, <3>2
  <2> HIDE DEF c
  <2>3. QED BY <1>1, <1>5, <1>9, <2>2, RequestStep
<1>10. QED BY <1>2, <1>8, <1>9 DEF ReopenProposal, TypeOK

\* CreateProposal: the change moves from the request that asked to a new row.
LEMMA CreateKeeps ==
  ASSUME IInv, TypeOK, NEW h \in Requests, NEW p \in Pids, CreateProposal(h, p)
  PROVE  IInv'
<1>1. /\ req' = [req EXCEPT ![h] = Idle] /\ versions' = versions /\ req[h].pc = "proposing"
      /\ req \in [Requests -> InFlight] /\ props \in [Pids -> Proposals \cup {NoProposal}]
      /\ props[p] = NoProposal
  BY DEF CreateProposal, Finish, Work, TypeOK
<1>2. PICK n : /\ props' = [props EXCEPT ![p] = n]
               /\ n.state = "pending" /\ n.change = req[h].change
  BY DEF CreateProposal
<1>3. props[p].state # "approved" /\ n # NoProposal /\ n.state # "approved"
  BY <1>1, <1>2 DEF NoProposal
<1>4. ~Applied(p) /\ \A k \in Requests : ~Holds(k, p)
  BY <1>3, PendingFree
<1>5. props'[p] = n /\ \A q \in Pids \ {p} : props'[q] = props[q]
  BY <1>1, <1>2
<1>6. req'[h] = Idle /\ \A k \in Requests \ {h} : req'[k] = req[k]
  BY <1>1
<1>7. Direct(h)
  <2>1. req[h] \in Asking
    BY <1>1, InFlightFields
  <2>2. QED BY <1>1, <2>1, PolicyAssumption DEF Asking, Direct
<1>8. /\ \A x : Published(x)' <=> Published(x)
      /\ \A q \in Pids : PublishedBy(q)' = PublishedBy(q)
      /\ \A q \in Pids \ {p}, x \in Exceptions : Proposed(q, x)' <=> Proposed(q, x)
      /\ \A x \in Exceptions : Proposed(p, x)' => Creates(req[h].change, x)
  <2>1. \A x : Published(x)' <=> Published(x)
    BY <1>1 DEF Published
  <2>2. \A q \in Pids : PublishedBy(q)' = PublishedBy(q)
    BY <1>1 DEF PublishedBy
  <2>3. \A q \in Pids \ {p}, x \in Exceptions : Proposed(q, x)' <=> Proposed(q, x)
    BY <1>5 DEF Proposed
  <2>4. \A x \in Exceptions : Proposed(p, x)' => Creates(req[h].change, x)
    BY <1>2, <1>5 DEF Proposed
  <2>5. QED BY <2>1, <2>2, <2>3, <2>4
<1>9. \A x \in Exceptions : Proposed(p, x)' => ~Published(x)
  BY <1>7, <1>8 DEF IInv, OneSource
<1>10. /\ ~Applied(p)'
       /\ \A q \in Pids \ {p} : Applied(q)' <=> Applied(q)
  BY <1>4, <1>8, <1>9 DEF Applied
<1>11. \A q \in Pids, k \in Requests : Holds(k, q)' => k # h /\ q # p /\ Holds(k, q)
  <2>1. \A q \in Pids : ~Holds(h, q)'
    BY <1>6 DEF Holds, Past, Idle
  <2>2. \A q \in Pids, k \in Requests \ {h} : Holds(k, q)' => Holds(k, q)
    BY <1>6 DEF Holds
  <2>3. QED BY <1>4, <2>1, <2>2
<1>12. CarriesProposal'
  <2>1. ASSUME NEW k \in Requests, req'[k].pc # "idle", req'[k].prop \in Pids
        PROVE  k # h /\ req'[k] = req[k] /\ req[k].prop # p
    BY <1>1, <1>6, <2>1 DEF IInv, CarriesProposal, Idle
  <2>2. QED BY <1>5, <2>1 DEF IInv, CarriesProposal, MayDecide
<1>13. HeldOnce'
  BY <1>3, <1>5, <1>11 DEF IInv, HeldOnce, MayDecide
<1>14. AppliedStays'
  <2>1. ASSUME NEW q \in Pids \ {p}, Applied(q)
        PROVE  /\ props'[q].state = "approved"
               /\ \A k \in Requests : Holds(k, q)' => req'[k].pc = "recording"
    BY <1>5, <1>6, <1>11, <2>1 DEF IInv, AppliedStays
  <2>2. QED BY <1>8, <1>10, <2>1 DEF IInv, AppliedStays
<1>15. OneSource'
  <2>1. \A k \in Requests : Direct(k)' => k # h /\ Direct(k) /\ req'[k] = req[k]
    BY <1>6 DEF Direct, Idle
  <2>2. ASSUME NEW q \in Pids \ {p}, NEW x \in Exceptions, Proposed(q, x)', Proposed(p, x)'
        PROVE  FALSE
    BY <1>7, <1>8, <2>2 DEF IInv, OneSource
  <2>3. ASSUME NEW k \in Requests, NEW x \in Exceptions, Direct(k)', Creates(req'[k].change, x)
        PROVE  ~Proposed(p, x)'
    BY <1>7, <1>8, <2>1, <2>3 DEF IInv, OneSource
  <2>4. \A q, s \in Pids, x \in Exceptions : Proposed(q, x)' /\ Proposed(s, x)' => q = s
    BY <1>8, <2>2 DEF IInv, OneSource
  <2>5. \A k \in Requests, x \in Exceptions : Direct(k)' /\ Creates(req'[k].change, x) =>
          /\ ~Published(x)'
          /\ \A q \in Pids : ~Proposed(q, x)'
          /\ \A j \in Requests : Direct(j)' /\ Creates(req'[j].change, x) => j = k
    BY <1>8, <2>1, <2>3 DEF IInv, OneSource
  <2>6. QED BY <2>4, <2>5 DEF OneSource
<1>16. ContentsSourced'
  BY <1>6, <1>8 DEF IInv, ContentsSourced, Sourced, Idle
<1>17. OffIsProposed'
  BY <1>6 DEF IInv, OffIsProposed, Idle
<1>18. QED BY <1>12, <1>13, <1>14, <1>15, <1>16, <1>17 DEF IInv

-----------------------------------------------------------------------------
\* Publishing.

\* The log after PutPolicy.
LEMMA PublishedNext ==
  ASSUME TypeOK, NEW h \in Requests, PutPolicy(h)
  PROVE  /\ \A x : Published(x)' <=> Published(x) \/ x \in req[h].content.exceptions
         /\ \A p \in Pids : PublishedBy(p)' =
              PublishedBy(p) \cup (IF req[h].prop = p THEN {Latest + 1} ELSE {})
<1> DEFINE new == [content |-> req[h].content, from |-> req[h].from, prop |-> req[h].prop]
<1>1. Latest \in Nat /\ DOMAIN versions = 1..Latest
  BY DEF TypeOK, Latest
<1>2. versions' = Append(versions, new)
  BY DEF PutPolicy
<1>3. /\ DOMAIN versions' = 1..(Latest + 1)
      /\ versions'[Latest + 1] = new
      /\ \A v \in 1..Latest : versions'[v] = versions[v]
  <2>1. req[h] \in Publishing
    BY InFlightFields DEF TypeOK, PutPolicy
  <2>2. new \in Versions
    BY <2>1 DEF Publishing, Versions
  <2> HIDE DEF new
  <2>3. QED BY <1>1, <1>2, <2>2 DEF TypeOK, Latest
<1>4. new.content = req[h].content /\ new.prop = req[h].prop
  OBVIOUS
<1> HIDE DEF new
<1>5. 1..(Latest + 1) = (1..Latest) \cup {Latest + 1} /\ Latest + 1 \notin 1..Latest
  BY <1>1
<1>6. QED BY <1>1, <1>3, <1>4, <1>5 DEF Published, PublishedBy

LEMMA PublishKeeps ==
  ASSUME IInv, TypeOK, NEW h \in Requests, PutPolicy(h)
  PROVE  IInv'
<1>0. /\ req \in [Requests -> InFlight] /\ Latest \in Nat /\ props' = props
      /\ req[h].pc = "publishing" /\ req[h] \in Publishing /\ NoProp \notin Pids
  BY InFlightFields, PolicyAssumption DEF TypeOK, PutPolicy, Latest
<1>1. PICK r : /\ req' = [req EXCEPT ![h] = r]
               /\ \/ req[h].prop = NoProp /\ r = Idle
                  \/ /\ req[h].prop \in Pids /\ r.pc = "recording" /\ r.who = req[h].who
                     /\ r.change = req[h].change /\ r.prop = req[h].prop
  <2>1. CASE req[h].prop = NoProp
    BY <2>1 DEF PutPolicy, Succeed, Finish, Work
  <2>2. CASE req[h].prop \in Pids
    BY <1>0, <2>2 DEF PutPolicy, Succeed, Work
  <2>3. QED BY <1>0, <2>1, <2>2 DEF Publishing
<1>2. req'[h] = r /\ \A k \in Requests \ {h} : req'[k] = req[k]
  BY <1>0, <1>1
<1>3. req[h].prop \in Pids => Holds(h, req[h].prop)
  BY <1>0 DEF Holds, Past
<1>4. \A p \in Pids, k \in Requests : Holds(k, p)' => Holds(k, p)
  BY <1>0, <1>1, <1>2 DEF Holds, Past, Idle
<1>5. \A p \in Pids, x \in Exceptions : Proposed(p, x)' <=> Proposed(p, x)
  BY <1>0 DEF Proposed
<1>6. \A x \in Exceptions : Published(x)' =>
        Published(x) \/ (req[h].who # System /\ Creates(req[h].change, x))
  BY <1>0, PublishedNext DEF IInv, ContentsSourced, Sourced
<1>7. \A x : Published(x) => Published(x)'
  BY PublishedNext
<1>8. ASSUME NEW x \in Exceptions, NEW p \in Pids, Proposed(p, x), Published(x)', ~Published(x)
      PROVE  req[h].prop = p
  <2>1. req[h].who # System /\ Creates(req[h].change, x)
    BY <1>6, <1>8
  <2>2. CASE req[h].prop \in Pids
    <3>1. Proposed(req[h].prop, x)
      BY <1>0, <2>1, <2>2 DEF IInv, CarriesProposal, Proposed
    <3>2. QED BY <1>8, <2>2, <3>1 DEF IInv, OneSource
  <2>3. CASE req[h].prop = NoProp
    <3>1. Direct(h)
      BY <1>0, <2>1, <2>3 DEF Direct
    <3>2. QED BY <1>8, <2>1, <3>1 DEF IInv, OneSource
  <2>4. QED BY <1>0, <2>2, <2>3 DEF Publishing
<1>9. ASSUME NEW p \in Pids, Applied(p)', ~Applied(p)
      PROVE  req[h].prop = p
  BY <1>5, <1>8, <1>9, PublishedNext DEF Applied
<1>10. CarriesProposal'
  BY <1>0, <1>1, <1>2 DEF IInv, CarriesProposal, MayDecide, Idle
<1>11. HeldOnce'
  BY <1>0, <1>4 DEF IInv, HeldOnce, MayDecide
<1>12. AppliedStays'
  <2>1. ASSUME NEW p \in Pids, NEW v \in PublishedBy(p)', NEW w \in PublishedBy(p)'
        PROVE  v = w
    <3>1. CASE req[h].prop = p
      <4>1. ~Applied(p)
        BY <1>0, <1>3, <3>1, HolderAlone
      <4>2. PublishedBy(p) = {}
        BY <4>1 DEF Applied
      <4>3. QED BY <2>1, <3>1, <4>2, PublishedNext
    <3>2. CASE req[h].prop # p
      BY <2>1, <3>2, PublishedNext DEF IInv, AppliedStays
    <3>3. QED BY <3>1, <3>2
  <2>2. ASSUME NEW p \in Pids, Applied(p)'
        PROVE  /\ props'[p].state = "approved"
               /\ \A k \in Requests : Holds(k, p)' => req'[k].pc = "recording"
    <3>1. CASE req[h].prop = p
      <4>1. props[p].state = "approved" /\ \A k \in Requests \ {h} : ~Holds(k, p)
        BY <1>3, <3>1, HolderAlone
      <4>2. r.pc = "recording"
        BY <1>0, <1>1, <3>1
      <4>3. QED BY <1>0, <1>2, <1>4, <4>1, <4>2
    <3>2. CASE req[h].prop # p
      <4>1. Applied(p)
        BY <1>9, <2>2, <3>2
      <4>2. ASSUME NEW k \in Requests, Holds(k, p)' PROVE k # h /\ Holds(k, p)
        BY <1>4, <3>2, <4>2 DEF Holds
      <4>3. QED BY <1>0, <1>2, <4>1, <4>2 DEF IInv, AppliedStays
    <3>3. QED BY <3>1, <3>2
  <2>3. QED BY <2>1, <2>2 DEF AppliedStays
<1>13. OneSource'
  <2>1. \A k \in Requests : Direct(k)' => k # h /\ Direct(k) /\ req'[k] = req[k]
    BY <1>0, <1>1, <1>2 DEF Direct, Idle
  <2>2. ASSUME NEW k \in Requests, NEW x \in Exceptions, Direct(k)', Creates(req'[k].change, x)
        PROVE  ~Published(x)'
    <3>1. k # h /\ Direct(k) /\ Creates(req[k].change, x)
      BY <2>1, <2>2
    <3>2. SUFFICES ASSUME Published(x)' PROVE FALSE
      OBVIOUS
    <3>3. req[h].who # System /\ Creates(req[h].change, x)
      BY <1>6, <3>1, <3>2 DEF IInv, OneSource
    <3>4. CASE req[h].prop \in Pids
      <4>1. Proposed(req[h].prop, x)
        BY <1>0, <3>3, <3>4 DEF IInv, CarriesProposal, Proposed
      <4>2. QED BY <3>1, <3>4, <4>1 DEF IInv, OneSource
    <3>5. CASE req[h].prop = NoProp
      <4>1. Direct(h)
        BY <1>0, <3>3, <3>5 DEF Direct
      <4>2. QED BY <3>1, <3>3, <4>1 DEF IInv, OneSource
    <3>6. QED BY <1>0, <3>4, <3>5 DEF Publishing
  <2>3. QED BY <1>5, <2>1, <2>2 DEF IInv, OneSource
<1>14. ContentsSourced'
  BY <1>0, <1>1, <1>2, <1>7 DEF IInv, ContentsSourced, Sourced, Idle
<1>15. OffIsProposed'
  BY <1>1, <1>2 DEF IInv, OffIsProposed, Idle
<1>16. QED BY <1>10, <1>11, <1>12, <1>13, <1>14, <1>15 DEF IInv

-----------------------------------------------------------------------------
LEMMA InvInit == Init => IInv
<1> SUFFICES ASSUME Init PROVE IInv
  OBVIOUS
<1>1. /\ \A h \in Requests : req[h].pc = "idle"
      /\ \A p \in Pids : props[p] = NoProposal /\ props[p].state = "none"
  BY DEF Init, Idle, NoProposal
<1>2. \A p \in Pids : ~Applied(p)
  <2>1. \A v \in DOMAIN versions : versions[v].prop = NoProp
    BY DEF Init, First
  <2>2. QED BY <1>1, <2>1, PolicyAssumption DEF Applied, PublishedBy, Proposed
<1>3. \A p \in Pids : PublishedBy(p) = {}
  BY <1>2 DEF Applied
<1>4. QED
  BY <1>1, <1>2, <1>3 DEF IInv, CarriesProposal, HeldOnce, AppliedStays, OneSource, ContentsSourced,
     OffIsProposed, Holds, Past, Direct, Proposed

LEMMA InvNext == TypeOK /\ IInv /\ [Next]_vars => IInv'
<1> SUFFICES ASSUME TypeOK, IInv, [Next]_vars PROVE IInv'
  OBVIOUS
<1>1. CASE /\ versions' = versions /\ props' = props /\ req' = req
  BY <1>1 DEF IInv, CarriesProposal, HeldOnce, AppliedStays, OneSource, ContentsSourced, OffIsProposed,
     Holds, Direct, Proposed, Published, Applied, PublishedBy, Sourced, MayDecide
<1>2. QED
  BY <1>1, RequestSteps, CloseKeeps, ClaimKeeps, RecordKeeps, ReopenKeeps, CreateKeeps, PublishKeeps
     DEF Next, vars, Lapse

LEMMA Invariance == Spec => [](TypeOK /\ IInv)
<1>1. Init => TypeOK /\ IInv
  BY TypeInit, InvInit
<1>2. TypeOK /\ IInv /\ [Next]_vars => (TypeOK /\ IInv)'
  BY TypeNext, InvNext
<1>3. QED BY <1>1, <1>2, PTL DEF Spec

\* A proposal is published at most once, for any number of admins who approve
\* it at the same moment and any sequence of failures and second approvals.
THEOREM PublishedOnce == Spec => []AppliedOnce
<1>1. IInv => AppliedOnce
  <2>1. SUFFICES ASSUME IInv, NEW p \in Pids PROVE Cardinality(PublishedBy(p)) <= 1
    BY DEF AppliedOnce
  <2>2. \A v, w \in PublishedBy(p) : v = w
    BY <2>1 DEF IInv, AppliedStays
  <2>3. CASE PublishedBy(p) = {}
    BY <2>3, FS_EmptySet
  <2>4. CASE \E v : PublishedBy(p) = {v}
    BY <2>4, FS_Singleton
  <2>5. QED BY <2>2, <2>3, <2>4
<1>2. QED BY <1>1, Invariance, PTL

\* Whatever a proposal published, and every exception of a proposal, stands on
\* the approval of an admin who neither wrote it nor made the key that did.
THEOREM TwoAdmins == Spec => []FourEyes
<1>1. TypeOK /\ IInv => FourEyes
  <2>1. SUFFICES ASSUME TypeOK, IInv, NEW p \in Pids, props[p] # NoProposal
        PROVE  /\ PublishedBy(p) # {} => ApprovedByAnother(p)
               /\ props[p].change.kind = "exception.create" /\ ~ApprovedByAnother(p) =>
                    \A v \in DOMAIN versions : props[p].change.exception \notin versions[v].content.exceptions
    BY DEF FourEyes
  <2>2. Applied(p) => ApprovedByAnother(p)
    BY <2>1 DEF IInv, AppliedStays, HeldOnce, ApprovedByAnother
  <2>3. props[p].change.kind = "exception.create" => props[p].change.exception \in Exceptions
    BY <2>1 DEF TypeOK, Proposals, Changes
  <2>4. QED BY <2>1, <2>2, <2>3 DEF Applied, Proposed, Creates, Published
<1>2. QED BY <1>1, Invariance, PTL

\* Only ApplySettings writes the setting.
LEMMA SettingWritten ==
  ASSUME [Next]_vars, approvalOn' # approvalOn PROVE \E h \in Requests : ApplySettings(h)
<1>1. ASSUME NEW h \in Requests, NEW who \in People, NEW change \in Asked, AskChange(h, who, change)
      PROVE  FALSE
  BY <1>1 DEF AskChange
<1>2. ASSUME NEW h \in Requests, NEW p \in Pids, CreateProposal(h, p) PROVE FALSE
  BY <1>2 DEF CreateProposal
<1>3. ASSUME NEW h \in Requests, NEW who \in People, NEW p \in Pids, Judge(h, who, p) PROVE FALSE
  BY <1>3 DEF Judge
<1>4. ASSUME NEW h \in Requests, CloseStep(h) \/ Claim(h) \/ SetEndpointOwner(h) PROVE FALSE
  BY <1>4 DEF CloseStep, Claim, SetEndpointOwner
<1>5. ASSUME NEW h \in Requests, Recompile(h) \/ ReadSource(h) \/ PutPolicy(h) PROVE FALSE
  BY <1>5 DEF Recompile, ReadSource, PutPolicy
<1>6. ASSUME NEW h \in Requests, ApplyFails(h) \/ ProposalApplied(h) \/ ReopenProposal(h) PROVE FALSE
  BY <1>6 DEF ApplyFails, ProposalApplied, ReopenProposal
<1>7. ASSUME NEW h \in Requests, Cancel(h) \/ ExpireExceptions(h) PROVE FALSE
  BY <1>7 DEF Cancel, ExpireExceptions
<1>8. QED BY <1>1, <1>2, <1>3, <1>4, <1>5, <1>6, <1>7 DEF Next, vars, Lapse

\* Turning the setting off is applying a proposal another admin approved.
THEOREM TwoAdminsTurnOff == Spec => OffNeedsTwo
<1>1. ASSUME TypeOK, IInv, [Next]_vars, approvalOn, ~approvalOn'
      PROVE  \E h \in Requests : req[h] # Idle /\ req'[h] = Idle /\ req[h].prop \in Pids
                                /\ ApprovedByAnother(req[h].prop)
  <2>1. PICK h \in Requests : ApplySettings(h)
    BY <1>1, SettingWritten
  <2>2. req[h].pc = "applying" /\ req[h].change.kind = "settings" /\ ~req[h].change.on /\ req'[h] = Idle
    BY <1>1, <2>1 DEF ApplySettings, Finish, Work, TypeOK
  <2>3. req[h].prop \in Pids
    BY <1>1, <2>2 DEF IInv, OffIsProposed
  <2>4. Holds(h, req[h].prop) /\ req[h] # Idle
    BY <2>2, <2>3 DEF Holds, Past, Idle
  <2>5. ApprovedByAnother(req[h].prop)
    BY <1>1, <2>3, <2>4, HolderAlone DEF ApprovedByAnother
  <2>6. QED BY <2>2, <2>3, <2>4, <2>5
<1>2. TypeOK /\ IInv /\ [Next]_vars =>
        [approvalOn /\ ~approvalOn' =>
           \E h \in Requests : req[h] # Idle /\ req'[h] = Idle /\ req[h].prop \in Pids
                              /\ ApprovedByAnother(req[h].prop)]_vars
  BY <1>1
<1>3. QED BY <1>2, Invariance, PTL DEF Spec, OffNeedsTwo

-----------------------------------------------------------------------------
(* Rules and their lists.                                                  *)

IsRule(r) == r = [mode |-> r.mode, lists |-> r.lists]

LEMMA RuleForIsRule ==
  ASSUME NEW pol, NEW agent
  PROVE  IsRule(RuleFor(pol, agent))
  BY DEF RuleFor, IsRule

LEMMA PutList ==
  ASSUME NEW r, IsRule(r), NEW l, NEW e
  PROVE  /\ IsRule(Put(r, l, e)) /\ Put(r, l, e).mode = r.mode
         /\ ListOf(Put(r, l, e), l) = e
         /\ \A k : k # l => ListOf(Put(r, l, e), k) = ListOf(r, k)
<1> DEFINE lists == [k \in DOMAIN r.lists \cup {l} |-> IF k \in {l} THEN e ELSE r.lists[k]]
<1>1. Put(r, l, e) = [r EXCEPT !.lists = lists]
  BY DEF Put, Over
<1>2. Put(r, l, e) = [mode |-> r.mode, lists |-> lists]
  BY <1>1 DEF IsRule
<1>3. QED BY <1>2 DEF IsRule, ListOf

LEMMA UnionList ==
  ASSUME NEW r, IsRule(r), NEW l, NEW add
  PROVE  /\ IsRule(Union(r, l, add)) /\ Union(r, l, add).mode = r.mode
         /\ ListOf(Union(r, l, add), l) = ListOf(r, l) \cup add
         /\ \A k : k # l => ListOf(Union(r, l, add), k) = ListOf(r, k)
<1>1. CASE add \subseteq ListOf(r, l)
  BY <1>1 DEF Union
<1>2. CASE ~(add \subseteq ListOf(r, l))
  <2>1. Union(r, l, add) = Put(r, l, ListOf(r, l) \cup add)
    BY <1>2 DEF Union
  <2> DEFINE e == ListOf(r, l) \cup add
  <2> HIDE DEF e
  <2>2. /\ IsRule(Put(r, l, e)) /\ Put(r, l, e).mode = r.mode
        /\ ListOf(Put(r, l, e), l) = e
        /\ \A k : k # l => ListOf(Put(r, l, e), k) = ListOf(r, k)
    BY PutList
  <2>3. QED BY <2>1, <2>2 DEF e
<1>3. QED BY <1>1, <1>2

-----------------------------------------------------------------------------
(* What compiling makes of one agent's rule.                               *)

LEMMA Compiled ==
  ASSUME NEW base, IsRule(base), NEW ps, NEW sub, NEW at,
         CompileAgent(base, ps, sub, at).rule # Refused
  PROVE  LET c == CompileAgent(base, ps, sub, at).rule
             deny(d) == Denied(ps, sub, at, d)
             approve(d) == Approved(ps, sub, at, d)
         IN /\ IsRule(c) /\ c.mode = base.mode
            /\ \A l \in {"file_alert", "network_allow", "gated_exec"} : ListOf(c, l) = ListOf(base, l)
            /\ base.mode # "allowlist" => /\ ListOf(c, "exec_deny") = ListOf(base, "exec_deny") \cup deny("exec")
                                          /\ ListOf(c, "exec_allow") = ListOf(base, "exec_allow")
            /\ base.mode = "allowlist" => /\ ListOf(c, "exec_deny") = ListOf(base, "exec_deny")
                                          /\ ListOf(c, "exec_allow") = ListOf(base, "exec_allow") \ deny("exec")
            /\ ListOf(c, "file_deny") = ListOf(base, "file_deny") \cup deny("file")
            /\ ListOf(c, "network_deny") = ListOf(base, "network_deny") \cup deny("network")
            /\ ListOf(c, "exec_approve") = ListOf(base, "exec_approve") \cup approve("exec")
            /\ ListOf(c, "file_approve") = ListOf(base, "file_approve") \cup approve("file")
            /\ ListOf(c, "network_approve") = ListOf(base, "network_approve") \cup approve("network")
<1> DEFINE c == CompileAgent(base, ps, sub, at).rule
           keep   == ListOf(base, "exec_allow") \ Denied(ps, sub, at, "exec")
           execs  == IF base.mode = "allowlist" THEN Put(base, "exec_allow", keep)
                     ELSE Union(base, "exec_deny", Denied(ps, sub, at, "exec"))
           filed  == Union(execs, "file_deny", Denied(ps, sub, at, "file"))
           denies == Union(filed, "network_deny", Denied(ps, sub, at, "network"))
           asked  == Union(denies, "exec_approve", Approved(ps, sub, at, "exec"))
           asks   == Union(asked, "file_approve", Approved(ps, sub, at, "file"))
           all    == Union(asks, "network_approve", Approved(ps, sub, at, "network"))
<1>1. c = all
  BY DEF CompileAgent
<1>2. /\ IsRule(execs) /\ execs.mode = base.mode
      /\ base.mode = "allowlist" => /\ ListOf(execs, "exec_allow") = keep
                                    /\ \A k : k # "exec_allow" => ListOf(execs, k) = ListOf(base, k)
      /\ base.mode # "allowlist" =>
           /\ ListOf(execs, "exec_deny") = ListOf(base, "exec_deny") \cup Denied(ps, sub, at, "exec")
           /\ \A k : k # "exec_deny" => ListOf(execs, k) = ListOf(base, k)
  <2> HIDE DEF keep
  <2>1. CASE base.mode = "allowlist"
    BY <2>1, PutList
  <2>2. CASE base.mode # "allowlist"
    BY <2>2, UnionList
  <2>3. QED BY <2>1, <2>2
<1> HIDE DEF execs
<1>3. /\ IsRule(filed) /\ filed.mode = execs.mode
      /\ ListOf(filed, "file_deny") = ListOf(execs, "file_deny") \cup Denied(ps, sub, at, "file")
      /\ \A k : k # "file_deny" => ListOf(filed, k) = ListOf(execs, k)
  BY <1>2, UnionList
<1> HIDE DEF filed
<1>4. /\ IsRule(denies) /\ denies.mode = filed.mode
      /\ ListOf(denies, "network_deny") = ListOf(filed, "network_deny") \cup Denied(ps, sub, at, "network")
      /\ \A k : k # "network_deny" => ListOf(denies, k) = ListOf(filed, k)
  BY <1>3, UnionList
<1> HIDE DEF denies
<1>5. /\ IsRule(asked) /\ asked.mode = denies.mode
      /\ ListOf(asked, "exec_approve") = ListOf(denies, "exec_approve") \cup Approved(ps, sub, at, "exec")
      /\ \A k : k # "exec_approve" => ListOf(asked, k) = ListOf(denies, k)
  BY <1>4, UnionList
<1> HIDE DEF asked
<1>6. /\ IsRule(asks) /\ asks.mode = asked.mode
      /\ ListOf(asks, "file_approve") = ListOf(asked, "file_approve") \cup Approved(ps, sub, at, "file")
      /\ \A k : k # "file_approve" => ListOf(asks, k) = ListOf(asked, k)
  BY <1>5, UnionList
<1> HIDE DEF asks
<1>7. /\ IsRule(all) /\ all.mode = asks.mode
      /\ ListOf(all, "network_approve") = ListOf(asks, "network_approve") \cup Approved(ps, sub, at, "network")
      /\ \A k : k # "network_approve" => ListOf(all, k) = ListOf(asks, k)
  BY <1>6, UnionList
<1> HIDE DEF all, c
<1>8. IsRule(c) /\ c.mode = base.mode
  BY <1>1, <1>2, <1>3, <1>4, <1>5, <1>6, <1>7
<1>9. \A l \in {"file_alert", "network_allow", "gated_exec"} : ListOf(c, l) = ListOf(base, l)
  BY <1>1, <1>2, <1>3, <1>4, <1>5, <1>6, <1>7
<1>10. /\ ListOf(c, "exec_deny") = ListOf(execs, "exec_deny")
       /\ ListOf(c, "exec_allow") = ListOf(execs, "exec_allow")
  BY <1>1, <1>3, <1>4, <1>5, <1>6, <1>7
<1>11. /\ ListOf(c, "file_deny") = ListOf(execs, "file_deny") \cup Denied(ps, sub, at, "file")
       /\ ListOf(c, "network_deny") = ListOf(execs, "network_deny") \cup Denied(ps, sub, at, "network")
  BY <1>1, <1>3, <1>4, <1>5, <1>6, <1>7
<1>12. /\ ListOf(c, "exec_approve") = ListOf(execs, "exec_approve") \cup Approved(ps, sub, at, "exec")
       /\ ListOf(c, "file_approve") = ListOf(execs, "file_approve") \cup Approved(ps, sub, at, "file")
       /\ ListOf(c, "network_approve") = ListOf(execs, "network_approve") \cup Approved(ps, sub, at, "network")
  BY <1>1, <1>3, <1>4, <1>5, <1>6, <1>7
<1>13. \A k : k \notin {"exec_deny", "exec_allow"} => ListOf(execs, k) = ListOf(base, k)
  BY <1>2
<1>14. QED BY <1>2, <1>8, <1>9, <1>10, <1>11, <1>12, <1>13 DEF c

-----------------------------------------------------------------------------
(* Least numbers.                                                          *)

LEMMA LeastNat ==
  ASSUME NEW T \in SUBSET Nat, T # {}
  PROVE  \E n \in T : \A k \in T : n <= k
<1> DEFINE Less == {p \in Nat \X Nat : p[1] < p[2]}
<1>1. OpToRel(<, Nat) = Less
  BY Zenon DEF OpToRel
<1>2. IsWellFoundedOn(Less, Nat)
  BY <1>1, NatLessThanWellFounded, Zenon
<1> HIDE DEF Less
<1>3. PICK n \in T : \A k \in T : ~(<<k, n>> \in Less)
  BY <1>2, WFMin
<1>4. \A k \in T : k < n => <<k, n>> \in Less
  BY DEF Less
<1>5. ASSUME NEW k \in T PROVE n <= k
  <2>1. k \in Nat /\ n \in Nat
    OBVIOUS
  <2>2. ~(k < n)
    BY <1>3, <1>4, Zenon
  <2>3. QED BY <2>1, <2>2
<1>6. QED BY <1>5

\* Induction, over the set of the numbers for which something holds.
LEMMA InductNat ==
  ASSUME NEW T, 0 \in T, \A n \in Nat : n \in T => n + 1 \in T
  PROVE  \A n \in Nat : n \in T
<1>1. CASE Nat \ T = {}
  BY <1>1
<1>2. CASE Nat \ T # {}
  <2>1. PICK n \in Nat \ T : \A k \in Nat \ T : n <= k
    BY <1>2, LeastNat
  <2>2. n # 0 /\ n - 1 \in Nat /\ (n - 1) + 1 = n /\ ~(n <= n - 1)
    BY <2>1
  <2>3. n - 1 \in T
    BY <2>1, <2>2
  <2>4. QED BY <2>1, <2>2, <2>3
<1>3. QED BY <1>1, <1>2

LEMMA Below ==
  ASSUME NEW n \in Nat, NEW s \in SUBSET (1..(n + 1))
  PROVE  /\ s \ {n + 1} \in SUBSET (1..n)
         /\ n + 1 \notin s => s \in SUBSET (1..n)
<1>1. \A i \in 1..(n + 1) : i # n + 1 => i \in 1..n
  OBVIOUS
<1>2. QED BY <1>1

-----------------------------------------------------------------------------
(* Two sequences, the second of one element.                               *)

LEMMA Joined ==
  ASSUME NEW S, NEW s \in Seq(S), NEW c \in S
  PROVE  LET t == s \o <<c>> IN
         /\ DOMAIN t = 1..(Len(s) + 1) /\ t[Len(s) + 1] = c
         /\ \A i \in 1..Len(s) : t[i] = s[i]
<1>1. <<c>> \in Seq(S) /\ Len(<<c>>) = 1 /\ <<c>>[1] = c
  OBVIOUS
<1>2. QED BY <1>1, ConcatProperties

LEMMA OneAndOne ==
  ASSUME NEW a, NEW c
  PROVE  LET t == <<a>> \o <<c>> IN DOMAIN t = 1..2 /\ t[1] = a /\ t[2] = c
<1> DEFINE S == {a, c}
<1>1. <<a>> \in Seq(S) /\ Len(<<a>>) = 1 /\ <<a>>[1] = a /\ c \in S
  OBVIOUS
<1> HIDE DEF S
<1>2. QED BY <1>1, Joined

LEMMA TwoAndOne ==
  ASSUME NEW a, NEW b, NEW c
  PROVE  LET t == <<a, b>> \o <<c>> IN DOMAIN t = 1..3 /\ t[1] = a /\ t[2] = b /\ t[3] = c
<1> DEFINE S == {a, b, c}
<1>1. <<a, b>> \in Seq(S) /\ Len(<<a, b>>) = 2 /\ <<a, b>>[1] = a /\ <<a, b>>[2] = b /\ c \in S
  OBVIOUS
<1> HIDE DEF S
<1>2. QED BY <1>1, Joined

-----------------------------------------------------------------------------
(* What the kernel does.                                                   *)

LEMMA KernelLists ==
  ASSUME NEW r, IsRule(r), NEW lifted \in BOOLEAN
  PROVE  LET k == Kernel(r, lifted)
             Deny(l, a) == ListOf(r, l) \cup IF lifted THEN {} ELSE ListOf(r, a)
         IN /\ k.mode = r.mode
            /\ ListOf(k, "exec_deny") = Deny("exec_deny", "exec_approve")
            /\ ListOf(k, "network_deny") = Deny("network_deny", "network_approve")
            /\ ListOf(k, "file_deny") = FilePaths(Deny("file_deny", "file_approve"))
            /\ r.mode = "allowlist" => ListOf(k, "exec_allow") =
                 IF lifted THEN ListOf(r, "exec_allow") \cup ListOf(r, "exec_approve")
                 ELSE ListOf(r, "exec_allow") \ ListOf(r, "exec_approve")
            /\ \A l \in {"network_allow", "gated_exec"} : ListOf(k, l) = ListOf(r, l)
<1> DEFINE k == Kernel(r, lifted)
           Deny(list) == ListOf(r, list) \cup IF lifted THEN {} ELSE ListOf(r, ApproveList[list])
           own == [exec_deny    |-> Deny("exec_deny"),
                   network_deny |-> Deny("network_deny"),
                   file_deny    |-> FilePaths(Deny("file_deny")),
                   file_alert   |-> FilePaths(ListOf(r, "file_alert")),
                   exec_allow   |-> IF r.mode # "allowlist" THEN ListOf(r, "exec_allow")
                                    ELSE IF lifted THEN ListOf(r, "exec_allow") \cup ListOf(r, "exec_approve")
                                    ELSE ListOf(r, "exec_allow") \ ListOf(r, "exec_approve")]
<1>1. k.mode = r.mode /\ k.lists = Over(own, r.lists)
  BY DEF Kernel
<1>2. DOMAIN own = {"exec_deny", "network_deny", "file_deny", "file_alert", "exec_allow"}
  OBVIOUS
<1>3. /\ Deny("exec_deny") = ListOf(r, "exec_deny") \cup IF lifted THEN {} ELSE ListOf(r, "exec_approve")
      /\ Deny("network_deny") = ListOf(r, "network_deny") \cup IF lifted THEN {} ELSE ListOf(r, "network_approve")
      /\ Deny("file_deny") = ListOf(r, "file_deny") \cup IF lifted THEN {} ELSE ListOf(r, "file_approve")
  BY DEF ApproveList
<1>4. \A l : ListOf(k, l) = IF l \in DOMAIN own THEN own[l] ELSE ListOf(r, l)
  <2> HIDE DEF own, k
  <2>1. QED BY <1>1 DEF ListOf, Over
<1> DEFINE denied == Deny("exec_deny")
           netted == Deny("network_deny")
           filed  == Deny("file_deny")
<1>5. /\ own["exec_deny"] = denied /\ own["network_deny"] = netted
      /\ own["file_deny"] = FilePaths(filed)
      /\ r.mode = "allowlist" => own["exec_allow"] =
                 IF lifted THEN ListOf(r, "exec_allow") \cup ListOf(r, "exec_approve")
                 ELSE ListOf(r, "exec_allow") \ ListOf(r, "exec_approve")
  <2> HIDE DEF Deny
  <2>1. QED OBVIOUS
<1> HIDE DEF own, k, denied, netted, filed
<1>6. /\ ListOf(k, "exec_deny") = denied /\ ListOf(k, "network_deny") = netted
      /\ ListOf(k, "file_deny") = FilePaths(filed)
      /\ r.mode = "allowlist" => ListOf(k, "exec_allow") =
                 IF lifted THEN ListOf(r, "exec_allow") \cup ListOf(r, "exec_approve")
                 ELSE ListOf(r, "exec_allow") \ ListOf(r, "exec_approve")
      /\ \A l \in {"network_allow", "gated_exec"} : ListOf(k, l) = ListOf(r, l)
  BY <1>2, <1>4, <1>5
<1>7. QED BY <1>1, <1>3, <1>6 DEF k, denied, netted, filed

LEMMA UniformVerdict ==
  ASSUME NEW n \in Nat, NEW s, DOMAIN s = 1..n, NEW o \in BOOLEAN,
         \A i \in 1..n : s[i].override = o, NEW x
  PROVE  Verdict(s, x) = IF \E i \in 1..n : x \in s[i].hits
                         THEN IF o THEN "blocked" ELSE "would_block" ELSE "pass"
<1> DEFINE hit == {i \in DOMAIN s : x \in s[i].hits}
           one == CHOOSE i \in hit : \A j \in hit : i <= j
<1>1. CASE hit = {}
  BY <1>1 DEF Verdict
<1>2. CASE hit # {}
  <2>1. \E i \in hit : \A j \in hit : i <= j
    <3>1. hit \in SUBSET Nat
      OBVIOUS
    <3> HIDE DEF hit
    <3>2. QED BY <1>2, <3>1, LeastNat
  <2>2. one \in hit
    <3> HIDE DEF hit
    <3>1. QED BY <2>1
  <2>3. Verdict(s, x) = IF s[one].override THEN "blocked" ELSE "would_block"
    BY <1>2 DEF Verdict
  <2> HIDE DEF one
  <2>4. s[one].override = o /\ \E i \in 1..n : x \in s[i].hits
    BY <2>2
  <2>5. QED BY <2>3, <2>4
<1>3. QED BY <1>1, <1>2

\* Where a rule stops a program, or a connection.
ExecHit(r, b) == \/ b \in ListOf(r, "gated_exec")
                 \/ r.mode # "allowlist" /\ b \in ListOf(r, "exec_deny")
                 \/ r.mode = "allowlist" /\ b \in Programs \ ListOf(r, "exec_allow")
NetHit(r, ip) == \/ ip \in Blocks(ListOf(r, "network_deny")) \/ ip \in Guard
                 \/ /\ ListOf(r, "network_allow") # {}
                    /\ ip \in Addresses \ (Blocks(ListOf(r, "network_allow")) \cup Loopback)

LEMMA ExecVerdict ==
  ASSUME NEW r, NEW b \in Programs
  PROVE  Verdict(ExecSelectors(r), b) =
           IF ExecHit(r, b) THEN IF Enforced(r) THEN "blocked" ELSE "would_block" ELSE "pass"
<1> DEFINE gated == ListOf(r, "gated_exec")
           free  == Programs \ (ListOf(r, "exec_allow") \cup gated \cup Exempt(r))
           first == IF r.mode = "allowlist" THEN <<[hits |-> free, override |-> TRUE]>>
                    ELSE <<[hits |-> ListOf(r, "exec_deny"), override |-> Enforced(r)]>>
           head  == IF r.mode = "allowlist" THEN free ELSE ListOf(r, "exec_deny")
           s     == ExecSelectors(r)
           o     == Enforced(r)
<1>1. o \in BOOLEAN /\ (r.mode = "allowlist" => o = TRUE)
  BY DEF Enforced
<1>2. b \notin Exempt(r) /\ (Exempt(r) = {} <=> gated = {})
  BY DaemonAssumption DEF Exempt
<1>3. first = <<[hits |-> head, override |-> o]>>
  BY <1>1
<1>4. s = first \o IF Exempt(r) # {} THEN <<[hits |-> gated, override |-> o]>> ELSE <<>>
  BY DEF ExecSelectors
<1>5. b \in head <=> \/ r.mode # "allowlist" /\ b \in ListOf(r, "exec_deny")
                     \/ r.mode = "allowlist" /\ b \in Programs \ (ListOf(r, "exec_allow") \cup gated)
  BY <1>2
<1> HIDE DEF gated, first, head, o, s
<1>6. CASE gated = {}
  <2>1. s = <<[hits |-> head, override |-> o]>> \o <<>>
    BY <1>2, <1>3, <1>4, <1>6
  <2>2. DOMAIN s = 1..1 /\ \A i \in 1..1 : s[i].override = o /\ s[i].hits = head
    BY <2>1
  <2>3. (\E i \in 1..1 : b \in s[i].hits) <=> ExecHit(r, b)
    BY <2>2, <1>5, <1>6 DEF ExecHit, gated
  <2>4. QED BY <2>2, <2>3, <1>1, UniformVerdict DEF s, o
<1>7. CASE gated # {}
  <2>1. s = <<[hits |-> head, override |-> o]>> \o <<[hits |-> gated, override |-> o]>>
    BY <1>2, <1>3, <1>4, <1>7
  <2>2. DOMAIN s = 1..2 /\ \A i \in 1..2 : s[i].override = o /\ s[1].hits = head /\ s[2].hits = gated
    BY <2>1, OneAndOne
  <2>3. (\E i \in 1..2 : b \in s[i].hits) <=> b \in head \/ b \in gated
    BY <2>2
  <2>4. b \in head \/ b \in gated <=> ExecHit(r, b)
    BY <1>5 DEF ExecHit, gated
  <2>5. QED BY <2>2, <2>3, <2>4, <1>1, UniformVerdict DEF s, o
<1>8. QED BY <1>6, <1>7

LEMMA NetVerdict ==
  ASSUME NEW r, NEW ip
  PROVE  Verdict(NetSelectors(r, Loopback, Guard), ip) =
           IF NetHit(r, ip) THEN IF Enforced(r) THEN "blocked" ELSE "would_block" ELSE "pass"
<1> DEFINE deny  == Blocks(ListOf(r, "network_deny"))
           allow == ListOf(r, "network_allow")
           rest  == Addresses \ (Blocks(allow) \cup Loopback)
           s     == NetSelectors(r, Loopback, Guard)
           o     == Enforced(r)
<1>1. o \in BOOLEAN
  BY DEF Enforced
<1>2. s = <<[hits |-> deny, override |-> o], [hits |-> Guard, override |-> o]>>
            \o IF allow = {} THEN <<>> ELSE <<[hits |-> rest, override |-> o]>>
  BY DEF NetSelectors
<1>3. NetHit(r, ip) <=> ip \in deny \/ ip \in Guard \/ (allow # {} /\ ip \in rest)
  BY DEF NetHit
<1> HIDE DEF deny, allow, rest, s, o
<1>4. CASE allow = {}
  <2>1. s = <<[hits |-> deny, override |-> o], [hits |-> Guard, override |-> o]>>
    BY <1>2, <1>4
  <2>2. DOMAIN s = 1..2 /\ \A i \in 1..2 : s[i].override = o /\ s[1].hits = deny /\ s[2].hits = Guard
    BY <2>1
  <2>3. (\E i \in 1..2 : ip \in s[i].hits) <=> NetHit(r, ip)
    BY <2>2, <1>3, <1>4
  <2>4. QED BY <2>2, <2>3, <1>1, UniformVerdict DEF s, o
<1>5. CASE allow # {}
  <2>1. s = <<[hits |-> deny, override |-> o], [hits |-> Guard, override |-> o]>>
              \o <<[hits |-> rest, override |-> o]>>
    BY <1>2, <1>5
  <2>2. /\ DOMAIN s = 1..3 /\ \A i \in 1..3 : s[i].override = o
        /\ s[1].hits = deny /\ s[2].hits = Guard /\ s[3].hits = rest
    BY <2>1, TwoAndOne
  <2>3. (\E i \in 1..3 : ip \in s[i].hits) <=> NetHit(r, ip)
    BY <2>2, <1>3, <1>5
  <2>4. QED BY <2>2, <2>3, <1>1, UniformVerdict DEF s, o
<1>6. QED BY <1>4, <1>5

\* A file is refused when it is the canary or when a rule that enforces denies it.
LEMMA FileVerdict ==
  ASSUME NEW r, NEW f
  PROVE  Verdict(FileSelectors(r), f) = "blocked"
           <=> f \in Suffixed({Canary}) \/ (Enforced(r) /\ f \in Suffixed(ListOf(r, "file_deny")))
<1> DEFINE canary == Suffixed({Canary})
           deny   == Suffixed(ListOf(r, "file_deny"))
           alert  == Suffixed(ListOf(r, "file_alert"))
           o      == Enforced(r)
           s      == FileSelectors(r)
           hit    == {i \in DOMAIN s : f \in s[i].hits}
           one    == CHOOSE i \in hit : \A j \in hit : i <= j
<1>0. o \in BOOLEAN
  BY DEF Enforced
<1>1. s = <<[hits |-> canary, override |-> TRUE], [hits |-> deny, override |-> o],
            [hits |-> alert, override |-> FALSE]>>
  BY DEF FileSelectors
<1> HIDE DEF canary, deny, alert, o, s
<1>2. /\ DOMAIN s = 1..3
      /\ s[1].hits = canary /\ s[2].hits = deny /\ s[3].hits = alert
      /\ s[1].override = TRUE /\ s[2].override = o /\ s[3].override = FALSE
  BY <1>1
<1>3. /\ 1 \in hit <=> f \in canary
      /\ 2 \in hit <=> f \in deny
      /\ 3 \in hit <=> f \in alert
      /\ hit \subseteq 1..3
  BY <1>2
<1>4. CASE hit = {}
  <2>1. Verdict(s, f) = "pass"
    BY <1>4 DEF Verdict
  <2>2. QED BY <2>1, <1>3, <1>4 DEF canary, deny, o, s
<1>5. CASE hit # {}
  <2>1. Verdict(s, f) = IF s[one].override THEN "blocked" ELSE "would_block"
    BY <1>5 DEF Verdict
  <2>2. one \in hit /\ \A j \in hit : one <= j
    <3> HIDE DEF hit
    <3>1. \E i \in hit : \A j \in hit : i <= j
      BY <1>3, <1>5, LeastNat
    <3>2. QED BY <3>1
  <2> HIDE DEF hit, one
  <2>3. CASE f \in canary
    <3>1. one = 1
      BY <2>2, <2>3, <1>3
    <3>2. QED BY <3>1, <2>1, <2>3, <1>2 DEF canary, deny, o, s
  <2>4. CASE f \notin canary /\ f \in deny
    <3>1. one = 2
      BY <2>2, <2>4, <1>3
    <3>2. QED BY <3>1, <2>1, <2>4, <1>0, <1>2 DEF canary, deny, o, s
  <2>5. CASE f \notin canary /\ f \notin deny
    <3>1. one = 3
      BY <2>2, <2>5, <1>3
    <3>2. QED BY <3>1, <2>1, <2>5, <1>2 DEF canary, deny, o, s
  <2>6. QED BY <2>3, <2>4, <2>5
<1>6. QED BY <1>4, <1>5

LEMMA VerdictOfExec ==
  ASSUME NEW r, NEW lifted \in BOOLEAN, NEW b \in Programs
  PROVE  KernelVerdict(r, lifted, Exec(b)) =
           IF ExecHit(Kernel(r, lifted), b)
           THEN IF Enforced(Kernel(r, lifted)) THEN "blocked" ELSE "would_block" ELSE "pass"
<1>1. Exec(b).class = "exec" /\ Exec(b).binary = b
  BY DEF Exec
<1>2. KernelVerdict(r, lifted, Exec(b)) = Verdict(ExecSelectors(Kernel(r, lifted)), b)
  BY <1>1 DEF KernelVerdict
<1>3. QED BY <1>2, ExecVerdict

LEMMA VerdictOfConnect ==
  ASSUME NEW r, NEW lifted \in BOOLEAN, NEW ip \in Addresses
  PROVE  KernelVerdict(r, lifted, Connect(ip)) =
           IF NetHit(Kernel(r, lifted), ip)
           THEN IF Enforced(Kernel(r, lifted)) THEN "blocked" ELSE "would_block" ELSE "pass"
<1>1. Connect(ip).class = "network" /\ Connect(ip).host.ip = ip
  BY DEF Connect, NoHost
<1>2. KernelVerdict(r, lifted, Connect(ip)) = Verdict(NetSelectors(Kernel(r, lifted), Loopback, Guard), ip)
  BY <1>1 DEF KernelVerdict
<1>3. QED BY <1>2, NetVerdict

LEMMA VerdictOfOpen ==
  ASSUME NEW r, NEW lifted \in BOOLEAN, NEW class \in {"file_read", "file_write"}, NEW f \in Files
  PROVE  KernelVerdict(r, lifted, Open(class, f)) = "blocked"
           <=> \/ f \in Suffixed({Canary})
               \/ Enforced(Kernel(r, lifted)) /\ f \in Suffixed(ListOf(Kernel(r, lifted), "file_deny"))
<1>1. Open(class, f).class = class /\ Open(class, f).paths = {f}
  BY DEF Open
<1>2. (CHOOSE g \in {f} : TRUE) = f
  OBVIOUS
<1>3. KernelVerdict(r, lifted, Open(class, f)) = Verdict(FileSelectors(Kernel(r, lifted)), f)
  BY <1>1, <1>2 DEF KernelVerdict
<1>4. QED BY <1>3, FileVerdict

\* A rule that asks for no less than another.
AtLeast(h, b) ==
  /\ h.mode = b.mode
  /\ \A l \in {"network_allow", "gated_exec"} : ListOf(h, l) = ListOf(b, l)
  /\ \A l \in {"exec_deny", "file_deny", "network_deny", "exec_approve", "file_approve", "network_approve"} :
       ListOf(b, l) \subseteq ListOf(h, l)
  /\ b.mode = "allowlist" => ListOf(h, "exec_allow") \subseteq ListOf(b, "exec_allow")

LEMMA AtLeastBlocks ==
  ASSUME NEW h, NEW b, IsRule(h), IsRule(b), AtLeast(h, b), NEW lifted \in BOOLEAN, NEW x \in Actions,
         KernelVerdict(b, lifted, x) = "blocked",
         ~(lifted /\ x.class = "exec" /\ b.mode = "allowlist")
  PROVE  KernelVerdict(h, lifted, x) = "blocked"
<1> DEFINE kh == Kernel(h, lifted)
           kb == Kernel(b, lifted)
<1>1. /\ kh.mode = h.mode /\ kb.mode = b.mode
      /\ \A l \in {"network_allow", "gated_exec"} : ListOf(kh, l) = ListOf(kb, l)
      /\ ListOf(kb, "exec_deny") \subseteq ListOf(kh, "exec_deny")
      /\ ListOf(kb, "network_deny") \subseteq ListOf(kh, "network_deny")
      /\ ListOf(kb, "file_deny") \subseteq ListOf(kh, "file_deny")
      /\ ~lifted /\ b.mode = "allowlist" => ListOf(kh, "exec_allow") \subseteq ListOf(kb, "exec_allow")
  BY KernelLists DEF AtLeast, FilePaths
<1>2. Enforced(kh) <=> Enforced(kb)
  BY <1>1 DEF Enforced, AtLeast
<1> HIDE DEF kh, kb
<1>3. ASSUME NEW p \in Programs, x = Exec(p)
      PROVE  KernelVerdict(h, lifted, x) = "blocked"
  <2>1. ExecHit(kb, p) /\ Enforced(kb)
    BY <1>3, VerdictOfExec DEF kb
  <2>2. x.class = "exec"
    BY <1>3 DEF Exec
  <2>3. ExecHit(kh, p)
    BY <2>1, <2>2, <1>1 DEF ExecHit, AtLeast
  <2>4. QED BY <2>1, <2>3, <1>2, <1>3, VerdictOfExec DEF kh
<1>4. ASSUME NEW f \in Files, NEW class \in {"file_read", "file_write"}, x = Open(class, f)
      PROVE  KernelVerdict(h, lifted, x) = "blocked"
  <2>1. f \in Suffixed({Canary}) \/ (Enforced(kb) /\ f \in Suffixed(ListOf(kb, "file_deny")))
    BY <1>4, VerdictOfOpen DEF kb
  <2>2. Suffixed(ListOf(kb, "file_deny")) \subseteq Suffixed(ListOf(kh, "file_deny"))
    BY <1>1 DEF Suffixed
  <2>3. QED BY <2>1, <2>2, <1>2, <1>4, VerdictOfOpen DEF kh
<1>5. ASSUME NEW ip \in Addresses, x = Connect(ip)
      PROVE  KernelVerdict(h, lifted, x) = "blocked"
  <2>1. NetHit(kb, ip) /\ Enforced(kb)
    BY <1>5, VerdictOfConnect DEF kb
  <2>2. Blocks(ListOf(kb, "network_deny")) \subseteq Blocks(ListOf(kh, "network_deny"))
    BY <1>1 DEF Blocks
  <2>3. NetHit(kh, ip)
    BY <2>1, <2>2, <1>1 DEF NetHit
  <2>4. QED BY <2>1, <2>3, <1>2, <1>5, VerdictOfConnect DEF kh
<1>6. QED BY <1>3, <1>4, <1>5 DEF Actions

-----------------------------------------------------------------------------
(* The folds of the compiler: the exceptions one after the other, within   *)
(* one the agents one after the other, and the exceptions not over yet.  A *)
(* fold is [over, seq, base, by].  Its recursive function exists, by       *)
(* induction on the length, and so it is what it is defined to be.         *)

AfterOne(ms, base, x, at) == IF InForce(x, at) THEN UNION {ApplyException(m, base, x) : m \in ms} ELSE ms

KeptLive(kept, x, at) == IF x.until = 0 \/ at < x.until THEN Append(kept, x) ELSE kept

FoldStep(fold, before, i) ==
  CASE fold.over = "exceptions" -> AfterOne(before, fold.base, fold.seq[i], fold.by)
    [] fold.over = "agents"     -> ApplyTo(before, fold.base, fold.by, fold.seq[i])
    [] fold.over = "live"       -> KeptLive(before, fold.seq[i], fold.by)

\* g is the outcome of each set of positions, the last applied last.
Folding(g, n, zero, fold) ==
  g = [s \in SUBSET (1..n) |-> IF s = {} THEN zero ELSE FoldStep(fold, g[s \ {Max(s)}], Max(s))]

LEMMA MaxOf ==
  ASSUME NEW n \in Nat, NEW s \in SUBSET (1..(n + 1)), n + 1 \in s
  PROVE  Max(s) = n + 1
<1>1. \A y \in s : n + 1 >= y
  OBVIOUS
<1>2. \A x \in s : (\A y \in s : x >= y) => x = n + 1
  OBVIOUS
<1>3. QED BY <1>1, <1>2 DEF Max

LEMMA FoldingExists ==
  ASSUME NEW zero, NEW fold
  PROVE  \A n \in Nat : \E g : Folding(g, n, zero, fold)
<1> DEFINE Has == {n \in Nat : \E g : Folding(g, n, zero, fold)}
<1>1. 0 \in Has
  <2> DEFINE g == [s \in SUBSET (1..0) |-> zero]
  <2>1. \A s \in SUBSET (1..0) : s = {}
    OBVIOUS
  <2>2. g = [s \in SUBSET (1..0) |-> IF s = {} THEN zero ELSE FoldStep(fold, g[s \ {Max(s)}], Max(s))]
    BY <2>1
  <2>3. Folding(g, 0, zero, fold)
    BY <2>2 DEF Folding
  <2>4. QED BY <2>3
<1>2. ASSUME NEW n \in Nat, n \in Has PROVE n + 1 \in Has
  <2>1. PICK h : Folding(h, n, zero, fold)
    BY <1>2
  <2> DEFINE At(f, s) == IF s = {} THEN zero ELSE FoldStep(fold, f[s \ {Max(s)}], Max(s))
             g == [s \in SUBSET (1..(n + 1)) |->
                     IF n + 1 \in s THEN FoldStep(fold, h[s \ {n + 1}], n + 1) ELSE h[s]]
  <2>2. ASSUME NEW s \in SUBSET (1..n) PROVE g[s] = h[s] /\ h[s] = At(h, s)
    <3>1. n + 1 \notin s /\ s \in SUBSET (1..(n + 1))
      OBVIOUS
    <3>2. g[s] = h[s]
      BY <3>1
    <3>3. h[s] = At(h, s)
      BY <2>1 DEF Folding
    <3>4. QED BY <3>2, <3>3
  <2>3. ASSUME NEW s \in SUBSET (1..(n + 1)) PROVE g[s] = At(g, s)
    <3>1. CASE n + 1 \in s
      <4>1. Max(s) = n + 1 /\ s # {} /\ s \ {n + 1} \in SUBSET (1..n)
        BY <3>1, MaxOf, Below
      <4>2. g[s] = FoldStep(fold, h[s \ {n + 1}], n + 1)
        BY <3>1
      <4>3. h[s \ {n + 1}] = g[s \ {n + 1}]
        BY <4>1, <2>2
      <4> HIDE DEF g
      <4>4. QED BY <4>1, <4>2, <4>3
    <3>2. CASE n + 1 \notin s
      <4>1. s \in SUBSET (1..n)
        BY <3>2, Below
      <4>2. s \ {Max(s)} \in SUBSET (1..n)
        BY <4>1
      <4>3. g[s] = At(h, s) /\ g[s \ {Max(s)}] = h[s \ {Max(s)}]
        BY <4>1, <4>2, <2>2
      <4> HIDE DEF g
      <4>4. QED BY <4>3
    <3>3. QED BY <3>1, <3>2
  <2>4. g = [s \in SUBSET (1..(n + 1)) |-> At(g, s)]
    <3>1. g = [s \in SUBSET (1..(n + 1)) |-> g[s]]
      OBVIOUS
    <3> HIDE DEF g, At
    <3>2. QED BY <3>1, <2>3
  <2>5. Folding(g, n + 1, zero, fold)
    <3> HIDE DEF g
    <3>1. QED BY <2>4 DEF Folding
  <2>6. QED BY <2>5
<1> HIDE DEF Has
<1>3. \A n \in Nat : n \in Has
  BY <1>1, <1>2, InductNat
<1>4. QED BY <1>3 DEF Has

\* The outcome after each number of steps.
FoldRun(h, n, zero, fold) == h[0] = zero /\ \A k \in 1..n : h[k] = FoldStep(fold, h[k - 1], k)

LEMMA Folded ==
  ASSUME NEW zero, NEW fold, NEW n \in Nat, NEW g, Folding(g, n, zero, fold)
  PROVE  \E h : FoldRun(h, n, zero, fold) /\ h[n] = g[1..n]
<1>1. ASSUME NEW s \in SUBSET (1..n)
      PROVE  g[s] = IF s = {} THEN zero ELSE FoldStep(fold, g[s \ {Max(s)}], Max(s))
  BY DEF Folding
<1> DEFINE h == [k \in 0..n |-> g[1..k]]
<1>2. h[0] = zero
  <2>1. 1..0 = {} /\ 0 \in 0..n
    OBVIOUS
  <2>2. g[{}] = zero
    BY <1>1
  <2>3. QED BY <2>1, <2>2
<1>3. h[n] = g[1..n]
  OBVIOUS
<1>4. ASSUME NEW k \in 1..n PROVE h[k] = FoldStep(fold, h[k - 1], k)
  <2>1. k \in 0..n /\ k - 1 \in 0..n /\ 1..k \in SUBSET (1..n) /\ 1..k # {}
    OBVIOUS
  <2>2. Max(1..k) = k
    <3>1. k - 1 \in Nat /\ (k - 1) + 1 = k
      OBVIOUS
    <3>2. 1..k \in SUBSET (1..((k - 1) + 1)) /\ (k - 1) + 1 \in 1..k
      OBVIOUS
    <3>3. QED BY <3>1, <3>2, MaxOf
  <2>3. (1..k) \ {k} = 1..(k - 1)
    OBVIOUS
  <2>4. g[1..k] = FoldStep(fold, g[1..(k - 1)], k)
    BY <1>1, <2>1, <2>2, <2>3
  <2>5. QED BY <2>1, <2>4
<1> HIDE DEF h
<1>5. FoldRun(h, n, zero, fold)
  BY <1>2, <1>4 DEF FoldRun
<1>6. QED BY <1>3, <1>5

\* The outcomes after each number of exceptions, and after each number of agents.
ExceptionsRun(h, n, merged, base, exs, at) ==
  h[0] = {merged} /\ \A k \in 1..n : h[k] = AfterOne(h[k - 1], base, exs[k], at)
Walked(merged, base, x, walk) ==
  FoldLeft(LAMBDA m, agent : ApplyTo(m, base, x, agent), merged, walk)
AgentsRun(h, n, merged, base, x, walk) ==
  h[0] = merged /\ \A k \in 1..n : h[k] = ApplyTo(h[k - 1], base, x, walk[k])

LEMMA ExceptionsFold ==
  ASSUME NEW merged, NEW base, NEW at, NEW n \in Nat, NEW exs, DOMAIN exs = 1..n
  PROVE  \E h : ExceptionsRun(h, n, merged, base, exs, at) /\ h[n] = ApplyExceptions(merged, base, exs, at)
<1> DEFINE Is(f) == f = [s \in SUBSET (DOMAIN exs) |->
                           IF s = {} THEN {merged} ELSE AfterOne(f[s \ {Max(s)}], base, exs[Max(s)], at)]
           g == CHOOSE g : Is(g)
           fold == [over |-> "exceptions", seq |-> exs, base |-> base, by |-> at]
<1>1. ApplyExceptions(merged, base, exs, at) = g[DOMAIN exs]
  BY DEF ApplyExceptions, FoldLeft, MapThenFoldSet, AfterOne
<1>2. ASSUME NEW before, NEW i PROVE FoldStep(fold, before, i) = AfterOne(before, base, exs[i], at)
  BY DEF FoldStep
<1>3. \A f : Is(f) <=> Folding(f, n, {merged}, fold)
  <2> HIDE DEF fold
  <2>1. QED BY <1>2 DEF Folding
<1>4. Folding(g, n, {merged}, fold)
  <2>1. \E f : Is(f)
    BY <1>3, FoldingExists
  <2> HIDE DEF Is
  <2>2. Is(g)
    BY <2>1
  <2>3. QED BY <2>2, <1>3
<1> HIDE DEF g, fold
<1>5. PICK h : FoldRun(h, n, {merged}, fold) /\ h[n] = g[1..n]
  BY <1>4, Folded
<1>6. \A k \in 1..n : h[k] = AfterOne(h[k - 1], base, exs[k], at)
  BY <1>2, <1>5 DEF FoldRun
<1>7. h[0] = {merged} /\ h[n] = ApplyExceptions(merged, base, exs, at)
  BY <1>1, <1>5 DEF FoldRun
<1>8. ExceptionsRun(h, n, merged, base, exs, at)
  BY <1>6, <1>7, Zenon DEF ExceptionsRun
<1>9. QED BY <1>7, <1>8, Zenon

LEMMA AgentsFold ==
  ASSUME NEW merged, NEW base, NEW x, NEW n \in Nat, NEW walk, DOMAIN walk = 1..n
  PROVE  \E h : AgentsRun(h, n, merged, base, x, walk) /\ h[n] = Walked(merged, base, x, walk)
<1> DEFINE Is(f) == f = [s \in SUBSET (DOMAIN walk) |->
                           IF s = {} THEN merged ELSE ApplyTo(f[s \ {Max(s)}], base, x, walk[Max(s)])]
           g == CHOOSE g : Is(g)
           fold == [over |-> "agents", seq |-> walk, base |-> base, by |-> x]
<1>1. Walked(merged, base, x, walk) = g[DOMAIN walk]
  BY DEF Walked, FoldLeft, MapThenFoldSet
<1>2. ASSUME NEW before, NEW i PROVE FoldStep(fold, before, i) = ApplyTo(before, base, x, walk[i])
  BY DEF FoldStep
<1>3. \A f : Is(f) <=> Folding(f, n, merged, fold)
  <2> HIDE DEF fold
  <2>1. QED BY <1>2 DEF Folding
<1>4. Folding(g, n, merged, fold)
  <2>1. \E f : Is(f)
    BY <1>3, FoldingExists
  <2> HIDE DEF Is
  <2>2. Is(g)
    BY <2>1
  <2>3. QED BY <2>2, <1>3
<1> HIDE DEF g, fold
<1>5. PICK h : FoldRun(h, n, merged, fold) /\ h[n] = g[1..n]
  BY <1>4, Folded
<1>6. \A k \in 1..n : h[k] = ApplyTo(h[k - 1], base, x, walk[k])
  BY <1>2, <1>5 DEF FoldRun
<1>7. h[0] = merged /\ h[n] = Walked(merged, base, x, walk)
  BY <1>1, <1>5 DEF FoldRun
<1>8. AgentsRun(h, n, merged, base, x, walk)
  BY <1>6, <1>7, Zenon DEF AgentsRun
<1>9. QED BY <1>7, <1>8, Zenon

LEMMA UnexpiredSeq ==
  ASSUME NEW S, NEW exs \in Seq(S), NEW at
  PROVE  Unexpired(exs, at) \in Seq(S)
<1> DEFINE n == Len(exs)
           Is(f) == f = [s \in SUBSET (DOMAIN exs) |->
                           IF s = {} THEN <<>> ELSE KeptLive(f[s \ {Max(s)}], exs[Max(s)], at)]
           g == CHOOSE g : Is(g)
           fold == [over |-> "live", seq |-> exs, base |-> 0, by |-> at]
<1>0. n \in Nat /\ DOMAIN exs = 1..n
  OBVIOUS
<1> HIDE DEF n
<1>1. Unexpired(exs, at) = g[DOMAIN exs]
  BY DEF Unexpired, FoldLeft, MapThenFoldSet, KeptLive
<1>2. ASSUME NEW before, NEW i PROVE FoldStep(fold, before, i) = KeptLive(before, exs[i], at)
  BY DEF FoldStep
<1>3. \A f : Is(f) <=> Folding(f, n, <<>>, fold)
  <2> HIDE DEF fold
  <2>1. QED BY <1>0, <1>2 DEF Folding
<1>4. Folding(g, n, <<>>, fold)
  <2>1. \E f : Is(f)
    BY <1>0, <1>3, FoldingExists
  <2> HIDE DEF Is
  <2>2. Is(g)
    BY <2>1
  <2>3. QED BY <2>2, <1>3
<1> HIDE DEF g, fold
<1>5. PICK h : FoldRun(h, n, <<>>, fold) /\ h[n] = g[1..n]
  BY <1>0, <1>4, Folded
<1> DEFINE Good == {k \in Nat : k <= n => h[k] \in Seq(S)}
<1>6. 0 \in Good
  <2>1. h[0] = <<>> /\ <<>> \in Seq(S)
    BY <1>5 DEF FoldRun
  <2>2. QED BY <2>1
<1>7. ASSUME NEW k \in Nat, k \in Good PROVE k + 1 \in Good
  <2>1. CASE ~(k + 1 <= n)
    BY <2>1
  <2>2. CASE k + 1 <= n
    <3>1. k + 1 \in 1..n /\ (k + 1) - 1 = k /\ k <= n
      BY <1>0, <2>2
    <3>2. h[k + 1] = FoldStep(fold, h[k], k + 1)
      BY <1>5, <3>1 DEF FoldRun
    <3>3. h[k + 1] = KeptLive(h[k], exs[k + 1], at)
      BY <1>2, <3>2
    <3>4. exs[k + 1] \in S /\ h[k] \in Seq(S)
      BY <1>0, <1>7, <3>1
    <3>5. h[k + 1] \in Seq(S)
      BY <3>3, <3>4 DEF KeptLive
    <3>6. QED BY <3>5
  <2>3. QED BY <2>1, <2>2
<1>8. n \in Good
  <2> HIDE DEF Good
  <2>1. QED BY <1>0, <1>6, <1>7, InductNat
<1>9. QED BY <1>0, <1>1, <1>5, <1>8

-----------------------------------------------------------------------------
(* From the rules to the body the machine gets.                            *)

\* The rules of everybody, each of them a rule.
AllRules(m) == m = [a \in Everyone |-> m[a]] /\ \A a \in Everyone : IsRule(m[a])

LEMMA NotRefused ==
  ASSUME NEW m, DOMAIN m = Everyone
  PROVE  m # Refused
<1>1. DOMAIN Refused = {} /\ Defaults \in Everyone
  BY DEF Refused, Everyone
<1>2. QED BY <1>1

LEMMA MergedRules ==
  ASSUME NEW src, NEW at, Merged(src, at) # Refused
  PROVE  /\ AllRules(Merged(src, at))
         /\ \A a \in Everyone :
              LET one == CompileAgent(RuleFor(src.base, a), src.policies, Subject(a), at).rule
              IN one # Refused /\ Merged(src, at)[a] = one
<1> DEFINE One(a) == CompileAgent(RuleFor(src.base, a), src.policies, Subject(a), at).rule
           one == [a \in Everyone |-> One(a)]
<1>1. Merged(src, at) = IF \E a \in Everyone : one[a] = Refused THEN Refused ELSE one
  BY DEF Merged
<1> HIDE DEF One
<1>2. /\ Merged(src, at) = [a \in Everyone |-> One(a)]
      /\ \A a \in Everyone : One(a) # Refused
  BY <1>1
<1>3. ASSUME NEW a \in Everyone PROVE IsRule(One(a))
  <2>1. One(a) # Refused
    BY <1>2
  <2>2. IsRule(RuleFor(src.base, a))
    BY RuleForIsRule
  <2>3. IsRule(CompileAgent(RuleFor(src.base, a), src.policies, Subject(a), at).rule)
    BY <2>1, <2>2, Compiled DEF One
  <2>4. QED BY <2>3 DEF One
<1>4. AllRules(Merged(src, at))
  BY <1>2, <1>3 DEF AllRules
<1>5. \A a \in Everyone : One(a) # Refused /\ Merged(src, at)[a] = One(a)
  BY <1>2
<1>6. QED BY <1>4, <1>5 DEF One

LEMMA Shipped ==
  ASSUME NEW m, Ship(m) # Refused
  PROVE  m # Refused /\ \A a \in Everyone : SameRule(RuleFor(Ship(m), a), m[a])
  BY DEF Ship

LEMMA ShippedFrom ==
  ASSUME NEW src, NEW at, NEW doc \in CompileWith(src, at), doc # Refused
  PROVE  /\ Merged(src, at) # Refused
         /\ \E m \in ApplyExceptions(Merged(src, at), src.base, src.exceptions, at) :
              m # Refused /\ doc = Ship(m) /\ \A a \in Everyone : SameRule(RuleFor(doc, a), m[a])
<1>1. CompileWith(src, at) = IF Merged(src, at) = Refused THEN {Refused}
                             ELSE {Ship(m) : m \in ApplyExceptions(Merged(src, at), src.base, src.exceptions, at)}
  BY DEF CompileWith
<1>2. Merged(src, at) # Refused
  BY <1>1
<1>3. PICK m \in ApplyExceptions(Merged(src, at), src.base, src.exceptions, at) : doc = Ship(m)
  BY <1>1, <1>2
<1>4. QED BY <1>2, <1>3, Shipped

LEMMA NoExceptions ==
  ASSUME NEW merged, NEW base, NEW at, NEW exs, DOMAIN exs = {}
  PROVE  ApplyExceptions(merged, base, exs, at) = {merged}
<1>1. 0 \in Nat /\ DOMAIN exs = 1..0
  OBVIOUS
<1>2. PICK h : ExceptionsRun(h, 0, merged, base, exs, at) /\ h[0] = ApplyExceptions(merged, base, exs, at)
  BY <1>1, ExceptionsFold, Zenon
<1>3. QED BY <1>2 DEF ExceptionsRun

LEMMA OneException ==
  ASSUME NEW merged, NEW base, NEW at, NEW exs, DOMAIN exs = 1..1
  PROVE  ApplyExceptions(merged, base, exs, at) = AfterOne({merged}, base, exs[1], at)
<1>1. 1 \in Nat
  OBVIOUS
<1>2. PICK h : ExceptionsRun(h, 1, merged, base, exs, at) /\ h[1] = ApplyExceptions(merged, base, exs, at)
  BY <1>1, ExceptionsFold, Zenon
<1>3. h[0] = {merged} /\ h[1] = AfterOne(h[1 - 1], base, exs[1], at)
  BY <1>2 DEF ExceptionsRun
<1>4. QED BY <1>2, <1>3

\* Without exceptions, a body says for each agent what compiling made of it.
LEMMA Plain ==
  ASSUME NEW src, NEW at, NEW doc \in CompileWith(src, at), doc # Refused, src.exceptions = <<>>,
         NEW a \in Everyone
  PROVE  LET one == CompileAgent(RuleFor(src.base, a), src.policies, Subject(a), at).rule
         IN one # Refused /\ SameRule(RuleFor(doc, a), one)
<1>1. Merged(src, at) # Refused
  BY ShippedFrom
<1>2. ApplyExceptions(Merged(src, at), src.base, src.exceptions, at) = {Merged(src, at)}
  <2>1. DOMAIN src.exceptions = {}
    OBVIOUS
  <2>2. QED BY <2>1, NoExceptions
<1>3. SameRule(RuleFor(doc, a), Merged(src, at)[a])
  BY ShippedFrom, <1>2
<1>4. QED BY <1>1, <1>3, MergedRules

LEMMA Floored ==
  ASSUME NEW src, NEW at, NEW doc \in CompileWith(src, at), doc # Refused, src.exceptions = <<>>,
         NEW a \in Everyone
  PROVE  AtLeast(RuleFor(doc, a), RuleFor(src.base, a))
<1> DEFINE base == RuleFor(src.base, a)
           one  == CompileAgent(base, src.policies, Subject(a), at).rule
           h    == RuleFor(doc, a)
<1>1. one # Refused /\ SameRule(h, one)
  BY Plain
<1>2. IsRule(base)
  BY RuleForIsRule
<1> HIDE DEF base, h
<1>3. /\ one.mode = base.mode
      /\ \A l \in {"network_allow", "gated_exec"} : ListOf(one, l) = ListOf(base, l)
      /\ \A l \in {"exec_deny", "file_deny", "network_deny", "exec_approve", "file_approve", "network_approve"} :
           ListOf(base, l) \subseteq ListOf(one, l)
      /\ base.mode = "allowlist" => ListOf(one, "exec_allow") \subseteq ListOf(base, "exec_allow")
  BY <1>1, <1>2, Compiled
<1>4. /\ h.mode = one.mode
      /\ \A l \in {"network_allow", "gated_exec", "exec_deny", "file_deny", "network_deny", "exec_approve",
                   "file_approve", "network_approve", "exec_allow"} : ListOf(h, l) = ListOf(one, l)
  BY <1>1 DEF SameRule, Lists
<1> HIDE DEF one
<1>5. AtLeast(h, base)
  BY <1>3, <1>4 DEF AtLeast
<1>6. QED BY <1>5 DEF base, h

-----------------------------------------------------------------------------
(* What one exception makes of the rules, whatever order the agents are    *)
(* walked in.                                                              *)

LEMMA Walks ==
  /\ SetToSeqs(Everyone) # {}
  /\ \A walk \in SetToSeqs(Everyone) : \E n \in Nat :
       /\ DOMAIN walk = 1..n
       /\ \A i, j \in 1..n : i # j => walk[i] # walk[j]
       /\ Everyone = {walk[i] : i \in 1..n}
<1> DEFINE n == Cardinality(Everyone)
<1>1. IsFiniteSet(Everyone)
  <2>1. IsFiniteSet(Agents)
    BY CompilerAssumption
  <2>2. QED BY <2>1, FS_AddElement DEF Everyone
<1>2. n \in Nat /\ ExistsBijection(1..n, Everyone)
  BY <1>1, FS_CardinalityType
<1>3. SetToSeqs(Everyone) = {f \in [1..n -> Everyone] : \A i, j \in 1..n : i # j => f[i] # f[j]}
  BY DEF SetToSeqs
<1> HIDE DEF n
<1>4. SetToSeqs(Everyone) # {}
  <2>1. PICK f : f \in Bijection(1..n, Everyone)
    BY <1>2 DEF ExistsBijection
  <2>2. f \in [1..n -> Everyone] /\ \A i, j \in 1..n : f[i] = f[j] => i = j
    BY <2>1, Fun_BijectionProperties
  <2>3. f \in SetToSeqs(Everyone)
    BY <2>2, <1>3
  <2>4. QED BY <2>3
<1>5. ASSUME NEW walk \in SetToSeqs(Everyone)
      PROVE  /\ DOMAIN walk = 1..n
             /\ \A i, j \in 1..n : i # j => walk[i] # walk[j]
             /\ Everyone = {walk[i] : i \in 1..n}
  <2>1. walk \in [1..n -> Everyone] /\ \A i, j \in 1..n : i # j => walk[i] # walk[j]
    BY <1>3
  <2>2. walk \in Injection(1..n, Everyone)
    <3>1. \A i, j \in 1..n : walk[i] = walk[j] => i = j
      BY <2>1
    <3>2. QED BY <2>1, <3>1, Fun_IsInj
  <2>3. Cardinality(1..n) = Cardinality(Everyone)
    <3>1. IsFiniteSet(1..n)
      BY <1>2, FS_Interval
    <3>2. QED BY <1>2, <3>1, FS_Bijection
  <2>4. walk \in Surjection(1..n, Everyone)
    BY <1>1, <2>2, <2>3, FS_Injection
  <2>5. \A a \in Everyone : \E i \in 1..n : walk[i] = a
    BY <2>4 DEF Surjection
  <2>6. QED BY <2>1, <2>5
<1>6. QED BY <1>2, <1>4, <1>5

LEMMA WithoutTwice ==
  ASSUME NEW entries, NEW x
  PROVE  Without(Without(entries, x), x) = Without(entries, x)
  BY DEF Without

LEMMA LoosenedList ==
  ASSUME NEW r, IsRule(r), NEW x
  PROVE  /\ IsRule(Loosened(r, x)) /\ Loosened(r, x).mode = r.mode
         /\ ListOf(Loosened(r, x), x.list) = IF x.list = "exec_allow" THEN ListOf(r, x.list) \cup {x.value}
                                             ELSE Without(ListOf(r, x.list), x)
         /\ \A l : l # x.list => ListOf(Loosened(r, x), l) = ListOf(r, l)
<1> DEFINE kept == Without(ListOf(r, x.list), x)
           list == x.list
<1>1. Loosened(r, x) = IF list = "exec_allow" THEN Union(r, list, {x.value})
                       ELSE IF kept = ListOf(r, list) THEN r ELSE Put(r, list, kept)
  BY DEF Loosened
<1> HIDE DEF kept, list
<1>2. CASE list = "exec_allow"
  <2>1. Loosened(r, x) = Union(r, list, {x.value})
    BY <1>1, <1>2
  <2>2. QED BY <2>1, <1>2, UnionList DEF list
<1>3. CASE list # "exec_allow" /\ kept = ListOf(r, list)
  BY <1>1, <1>3 DEF list, kept
<1>4. CASE list # "exec_allow" /\ kept # ListOf(r, list)
  <2>1. Loosened(r, x) = Put(r, list, kept)
    BY <1>1, <1>4
  <2>2. QED BY <2>1, <1>4, PutList DEF list, kept
<1>5. QED BY <1>2, <1>3, <1>4

LEMMA LoosenedAny ==
  ASSUME NEW r, IsRule(r), NEW x, NEW list
  PROVE  ListOf(Loosened(r, x), list) = IF x.list # list THEN ListOf(r, list)
                                        ELSE IF list = "exec_allow" THEN ListOf(r, list) \cup {x.value}
                                        ELSE Without(ListOf(r, list), x)
<1>1. CASE x.list = list
  BY <1>1, LoosenedList
<1>2. CASE x.list # list
  BY <1>2, LoosenedList
<1>3. QED BY <1>1, <1>2

\* What x makes of the rules once the agents of A have had their turn.
Outcome(m, base, x, A) ==
  IF \E a \in A : Reaches(x, a) /\ FallsBack(m, base, x, a) THEN Refused
  ELSE [b \in Everyone |-> IF b \in A /\ Reaches(x, b) THEN Loosened(m[b], x) ELSE m[b]]

\* Whether an agent falls back does not depend on who had a turn before it.
LEMMA SameFallBack ==
  ASSUME NEW m, NEW later, AllRules(m), NEW base, NEW x, NEW a \in Everyone,
         later[a] = m[a],
         \/ later[Defaults] = m[Defaults]
         \/ Reaches(x, Defaults) /\ later[Defaults] = Loosened(m[Defaults], x)
  PROVE  FallsBack(later, base, x, a) <=> FallsBack(m, base, x, a)
<1>1. Emptied(later, x, a) <=> Emptied(m, x, a)
  BY DEF Emptied
<1>2. CASE later[Defaults] = m[Defaults]
  BY <1>1, <1>2 DEF FallsBack
<1>3. CASE Reaches(x, Defaults) /\ later[Defaults] = Loosened(m[Defaults], x)
  <2>1. x.agents = {}
    BY <1>3 DEF Reaches
  <2>2. CASE ~Emptied(m, x, a)
    BY <1>1, <2>2 DEF FallsBack
  <2>3. CASE Emptied(m, x, a)
    <3>1. x.list # "exec_allow"
      BY <2>3 DEF Emptied
    <3>2. IsRule(m[Defaults])
      BY DEF AllRules, Everyone
    <3>3. ListOf(later[Defaults], x.list) = Without(ListOf(m[Defaults], x.list), x)
      BY <1>3, <3>1, <3>2, LoosenedList
    <3>4. Without(ListOf(later[Defaults], x.list), x) = Without(ListOf(m[Defaults], x.list), x)
      BY <3>3, WithoutTwice
    <3>5. QED BY <1>1, <2>1, <2>3, <3>4 DEF FallsBack
  <2>4. QED BY <2>2, <2>3
<1>4. QED BY <1>2, <1>3

LEMMA OneTurn ==
  ASSUME NEW m, AllRules(m), NEW base, NEW x, NEW A, A \subseteq Everyone,
         NEW a \in Everyone, a \notin A
  PROVE  ApplyTo(Outcome(m, base, x, A), base, x, a) = Outcome(m, base, x, A \cup {a})
<1> DEFINE Fails(b) == Reaches(x, b) /\ FallsBack(m, base, x, b)
           Turned(B) == [b \in Everyone |-> IF b \in B /\ Reaches(x, b) THEN Loosened(m[b], x) ELSE m[b]]
           out == Outcome(m, base, x, A)
<1>1. \A B : Outcome(m, base, x, B) = IF \E b \in B : Fails(b) THEN Refused ELSE Turned(B)
  BY DEF Outcome
<1>2. ApplyTo(out, base, x, a) =
        IF out = Refused \/ ~Reaches(x, a) THEN out
        ELSE IF FallsBack(out, base, x, a) THEN Refused
        ELSE [out EXCEPT ![a] = Loosened(@, x)]
  BY DEF ApplyTo
<1> HIDE DEF out
<1>3. CASE \E b \in A : Fails(b)
  BY <1>1, <1>2, <1>3 DEF out
<1>4. CASE ~\E b \in A : Fails(b)
  <2>1. out = Turned(A) /\ out # Refused
    BY <1>1, <1>4, NotRefused DEF out
  <2>2. CASE ~Reaches(x, a)
    <3>1. Turned(A \cup {a}) = Turned(A)
      BY <2>2
    <3>2. QED BY <1>1, <1>2, <1>4, <2>1, <2>2, <3>1
  <2>3. CASE Reaches(x, a)
    <3>1. FallsBack(out, base, x, a) <=> FallsBack(m, base, x, a)
      <4>1. out[a] = m[a]
        BY <2>1
      <4>2. \/ out[Defaults] = m[Defaults]
            \/ Reaches(x, Defaults) /\ out[Defaults] = Loosened(m[Defaults], x)
        BY <2>1 DEF Everyone
      <4>3. QED BY <4>1, <4>2, SameFallBack
    <3>2. CASE FallsBack(m, base, x, a)
      BY <1>1, <1>2, <2>1, <2>3, <3>1, <3>2 DEF out
    <3>3. CASE ~FallsBack(m, base, x, a)
      <4>1. Outcome(m, base, x, A \cup {a}) = Turned(A \cup {a})
        BY <1>1, <1>4, <3>3
      <4>2. ApplyTo(out, base, x, a) = [out EXCEPT ![a] = Loosened(@, x)]
        BY <1>2, <2>1, <2>3, <3>1, <3>3
      <4>3. Turned(A \cup {a}) = [Turned(A) EXCEPT ![a] = Loosened(@, x)]
        BY <2>3
      <4>4. [out EXCEPT ![a] = Loosened(@, x)] = [Turned(A) EXCEPT ![a] = Loosened(@, x)]
        BY <2>1
      <4> HIDE DEF Turned
      <4>5. ApplyTo(out, base, x, a) = Outcome(m, base, x, A \cup {a})
        BY <4>1, <4>2, <4>3, <4>4, Zenon
      <4>6. QED BY <4>5 DEF out
    <3>4. QED BY <3>2, <3>3
  <2>4. QED BY <2>2, <2>3
<1>5. QED BY <1>3, <1>4

LEMMA AllTurns ==
  ASSUME NEW m, AllRules(m), NEW base, NEW x, NEW walk, NEW n \in Nat, DOMAIN walk = 1..n,
         \A i, j \in 1..n : i # j => walk[i] # walk[j], Everyone = {walk[i] : i \in 1..n},
         NEW h, AgentsRun(h, n, m, base, x, walk)
  PROVE  h[n] = Outcome(m, base, x, Everyone)
<1> DEFINE Had(k) == {walk[i] : i \in 1..k}
           Good == {k \in Nat : k <= n => h[k] = Outcome(m, base, x, Had(k))}
<1>1. 0 \in Good
  <2>1. Had(0) = {}
    OBVIOUS
  <2>2. Outcome(m, base, x, {}) = m
    BY DEF Outcome, AllRules
  <2>3. h[0] = m
    BY DEF AgentsRun
  <2>4. QED BY <2>1, <2>2, <2>3
<1>2. ASSUME NEW k \in Nat, k \in Good PROVE k + 1 \in Good
  <2>1. SUFFICES ASSUME k + 1 <= n PROVE h[k + 1] = Outcome(m, base, x, Had(k + 1))
    <3>1. k + 1 \in Nat
      OBVIOUS
    <3> HIDE DEF Had
    <3>2. QED BY <3>1
  <2>2. k + 1 \in 1..n /\ (k + 1) - 1 = k /\ k <= n
    BY <2>1
  <2>3. h[k + 1] = ApplyTo(h[k], base, x, walk[k + 1])
    BY <2>2 DEF AgentsRun
  <2>4. h[k] = Outcome(m, base, x, Had(k))
    BY <1>2, <2>2
  <2>5. Had(k) \subseteq Everyone /\ walk[k + 1] \in Everyone
    BY <2>2
  <2>6. walk[k + 1] \notin Had(k)
    BY <2>2
  <2>7. Had(k + 1) = Had(k) \cup {walk[k + 1]}
    <3>1. 1..(k + 1) = (1..k) \cup {k + 1}
      OBVIOUS
    <3>2. QED BY <3>1
  <2> HIDE DEF Had
  <2>8. QED BY <2>3, <2>4, <2>5, <2>6, <2>7, OneTurn
<1>3. n \in Good
  <2> HIDE DEF Good
  <2>1. QED BY <1>1, <1>2, InductNat
<1>4. Had(n) = Everyone
  OBVIOUS
<1>5. QED BY <1>3, <1>4

LEMMA OneOutcome ==
  ASSUME NEW m, AllRules(m), NEW base, NEW x
  PROVE  ApplyException(m, base, x) = {Outcome(m, base, x, Everyone)}
<1>1. ApplyException(m, base, x) = {Walked(m, base, x, walk) : walk \in SetToSeqs(Everyone)}
  BY DEF ApplyException, Walked
<1>2. ASSUME NEW walk \in SetToSeqs(Everyone) PROVE Walked(m, base, x, walk) = Outcome(m, base, x, Everyone)
  <2>1. PICK n \in Nat : /\ DOMAIN walk = 1..n
                         /\ \A i, j \in 1..n : i # j => walk[i] # walk[j]
                         /\ Everyone = {walk[i] : i \in 1..n}
    BY Walks
  <2>2. PICK h : AgentsRun(h, n, m, base, x, walk) /\ h[n] = Walked(m, base, x, walk)
    BY <2>1, AgentsFold
  <2>3. h[n] = Outcome(m, base, x, Everyone)
    BY <2>1, <2>2, AllTurns
  <2>4. QED BY <2>2, <2>3
<1>3. QED BY <1>1, <1>2, Walks

\* Nothing is made of rules that were refused.
LEMMA RefusedStays ==
  ASSUME NEW base, NEW x
  PROVE  ApplyException(Refused, base, x) = {Refused}
<1>1. ApplyException(Refused, base, x) = {Walked(Refused, base, x, walk) : walk \in SetToSeqs(Everyone)}
  BY DEF ApplyException, Walked
<1>2. ASSUME NEW walk \in SetToSeqs(Everyone) PROVE Walked(Refused, base, x, walk) = Refused
  <2>1. PICK n \in Nat : DOMAIN walk = 1..n
    BY Walks
  <2>2. PICK h : AgentsRun(h, n, Refused, base, x, walk) /\ h[n] = Walked(Refused, base, x, walk)
    BY <2>1, AgentsFold
  <2> DEFINE Good == {k \in Nat : k <= n => h[k] = Refused}
  <2>3. 0 \in Good
    BY <2>2 DEF AgentsRun
  <2>4. ASSUME NEW k \in Nat, k \in Good PROVE k + 1 \in Good
    <3>1. SUFFICES ASSUME k + 1 <= n PROVE h[k + 1] = Refused
      OBVIOUS
    <3>2. k + 1 \in 1..n /\ (k + 1) - 1 = k /\ k <= n
      BY <3>1
    <3>3. h[k + 1] = ApplyTo(h[k], base, x, walk[k + 1]) /\ h[k] = Refused
      BY <2>2, <2>4, <3>2 DEF AgentsRun
    <3>4. QED BY <3>3 DEF ApplyTo
  <2>5. n \in Good
    <3> HIDE DEF Good
    <3>1. QED BY <2>3, <2>4, InductNat
  <2>6. QED BY <2>2, <2>5
<1>3. QED BY <1>1, <1>2, Walks

OutcomeRules(m) == m = Refused \/ AllRules(m)

LEMMA OutcomeType ==
  ASSUME NEW m, AllRules(m), NEW base, NEW x, NEW A
  PROVE  OutcomeRules(Outcome(m, base, x, A))
<1> DEFINE One(b) == IF b \in A /\ Reaches(x, b) THEN Loosened(m[b], x) ELSE m[b]
<1>1. ASSUME NEW b \in Everyone PROVE IsRule(One(b))
  <2>1. IsRule(m[b])
    BY DEF AllRules
  <2>2. QED BY <2>1, LoosenedList
<1>2. Outcome(m, base, x, A) = Refused \/ Outcome(m, base, x, A) = [b \in Everyone |-> One(b)]
  BY DEF Outcome
<1> HIDE DEF One
<1>3. AllRules([b \in Everyone |-> One(b)])
  BY <1>1 DEF AllRules
<1>4. QED BY <1>2, <1>3 DEF OutcomeRules

LEMMA OneAfterOne ==
  ASSUME NEW m, OutcomeRules(m), NEW base, NEW x, NEW at
  PROVE  \E r : OutcomeRules(r) /\ AfterOne({m}, base, x, at) = {r}
<1>1. CASE ~InForce(x, at)
  BY <1>1 DEF AfterOne
<1>2. CASE InForce(x, at)
  <2>1. AfterOne({m}, base, x, at) = ApplyException(m, base, x)
    BY <1>2 DEF AfterOne
  <2>2. CASE m = Refused
    BY <2>1, <2>2, RefusedStays DEF OutcomeRules
  <2>3. CASE AllRules(m)
    BY <2>1, <2>3, OneOutcome, OutcomeType
  <2>4. QED BY <2>2, <2>3 DEF OutcomeRules
<1>3. QED BY <1>1, <1>2

\* Compiling the exceptions in has one outcome.
LEMMA OneAfterAll ==
  ASSUME NEW merged, AllRules(merged), NEW base, NEW at, NEW n \in Nat, NEW exs, DOMAIN exs = 1..n
  PROVE  \E m : OutcomeRules(m) /\ ApplyExceptions(merged, base, exs, at) = {m}
<1>1. PICK h : ExceptionsRun(h, n, merged, base, exs, at) /\ h[n] = ApplyExceptions(merged, base, exs, at)
  BY ExceptionsFold
<1> DEFINE Single(k) == \E m : OutcomeRules(m) /\ h[k] = {m}
           Good == {k \in Nat : k <= n => Single(k)}
<1>2. 0 \in Good
  BY <1>1 DEF ExceptionsRun, OutcomeRules
<1>3. ASSUME NEW k \in Nat, k \in Good PROVE k + 1 \in Good
  <2>1. SUFFICES ASSUME k + 1 <= n PROVE Single(k + 1)
    OBVIOUS
  <2>2. k + 1 \in 1..n /\ (k + 1) - 1 = k /\ k <= n
    BY <2>1
  <2>3. PICK m : OutcomeRules(m) /\ h[k] = {m}
    BY <1>3, <2>2
  <2>4. h[k + 1] = AfterOne({m}, base, exs[k + 1], at)
    BY <1>1, <2>2, <2>3 DEF ExceptionsRun
  <2>5. QED BY <2>3, <2>4, OneAfterOne
<1>4. n \in Good
  <2> HIDE DEF Good
  <2>1. QED BY <1>2, <1>3, InductNat
<1>5. Single(n)
  BY <1>4
<1>6. QED BY <1>1, <1>5

LEMMA OneBody ==
  ASSUME NEW src, NEW at, NEW n \in Nat, DOMAIN src.exceptions = 1..n
  PROVE  \E body : CompileWith(src, at) = {body}
<1> DEFINE merged == Merged(src, at)
<1>1. CASE merged = Refused
  BY <1>1 DEF CompileWith
<1>2. CASE merged # Refused
  <2>1. AllRules(merged)
    BY <1>2, MergedRules
  <2> HIDE DEF merged
  <2>2. PICK m : OutcomeRules(m) /\ ApplyExceptions(merged, src.base, src.exceptions, at) = {m}
    BY <2>1, OneAfterAll
  <2>3. CompileWith(src, at) = {Ship(m)}
    BY <1>2, <2>2 DEF CompileWith, merged
  <2>4. QED BY <2>3
<1>3. QED BY <1>1, <1>2

-----------------------------------------------------------------------------
(* The invariant.                                                          *)

\* A central rule under the number its draft gives it.
Numbered == {[r EXCEPT !.id = k] : r \in NewRules, k \in Nat}

Drafted(src) ==
  /\ src = [base |-> src.base, policies |-> src.policies, exceptions |-> src.exceptions]
  /\ src.policies = <<[NoPolicy EXCEPT !.rules = src.policies[1].rules]>>
  /\ src.policies[1].rules \in Seq(Numbered)
  /\ Len(src.policies[1].rules) <= MaxEdits
  /\ \A i \in 1..Len(src.policies[1].rules) : src.policies[1].rules[i].id = i
  /\ src.exceptions \in Seq(NewExceptions)

Compiles(v) == v # NoVersion => Drafted(v.source) /\ CompileWith(v.source, v.at) \ {Refused} # {}
Received(v)  == v # NoVersion => Drafted(v.source) /\ v.policy \in CompileWith(v.source, v.at) \ {Refused}

CompilerInv == Drafted(draft) /\ Compiles(latest) /\ Received(held)

LEMMA DraftedRule ==
  ASSUME NEW src, Drafted(src), NEW r \in NewRules, Len(src.policies[1].rules) < MaxEdits
  PROVE  Drafted([src EXCEPT !.policies[1].rules =
                    Append(@, [r EXCEPT !.id = Len(src.policies[1].rules) + 1])])
<1> DEFINE rules == src.policies[1].rules
           n     == Len(rules)
           new   == [r EXCEPT !.id = n + 1]
           more  == Append(rules, new)
           src2  == [src EXCEPT !.policies[1].rules = more]
<1>1. rules \in Seq(Numbered) /\ n \in Nat /\ n <= MaxEdits /\ \A i \in 1..n : rules[i].id = i
  BY DEF Drafted
<1>2. new \in Numbered /\ new.id = n + 1
  <2>1. n + 1 \in Nat /\ r = [id |-> r.id, priority |-> r.priority, who |-> r.who, what |-> r.what,
                              decision |-> r.decision, until |-> r.until, disabled |-> r.disabled]
    BY <1>1, CompilerAssumption
  <2> HIDE DEF n
  <2>2. new \in Numbered
    BY <2>1 DEF Numbered
  <2>3. new.id = n + 1
    BY <2>1
  <2>4. QED BY <2>2, <2>3
<1>3. /\ more \in Seq(Numbered) /\ Len(more) = n + 1 /\ Len(more) <= MaxEdits
      /\ \A i \in 1..Len(more) : more[i].id = i
  <2> HIDE DEF rules, new
  <2>1. more \in Seq(Numbered) /\ Len(more) = n + 1 /\ more[n + 1] = new /\ \A i \in 1..n : more[i] = rules[i]
    BY <1>1, <1>2
  <2>2. n + 1 <= MaxEdits
    BY <1>1, CompilerAssumption DEF rules
  <2>3. QED BY <1>1, <1>2, <2>1, <2>2
<1>4. /\ src2.policies = <<[NoPolicy EXCEPT !.rules = more]>>
      /\ src2.exceptions = src.exceptions
      /\ src2 = [base |-> src2.base, policies |-> src2.policies, exceptions |-> src2.exceptions]
  <2> HIDE DEF more
  <2>1. src2 = [src EXCEPT !.policies = [@ EXCEPT ![1].rules = more]]
    BY DEF Drafted
  <2>2. [src.policies EXCEPT ![1].rules = more] = <<[NoPolicy EXCEPT !.rules = more]>>
    <3> DEFINE p == [NoPolicy EXCEPT !.rules = rules]
               q == [NoPolicy EXCEPT !.rules = more]
    <3>1. src.policies = <<p>>
      BY DEF Drafted
    <3>2. [p EXCEPT !.rules = more] = q
      BY DEF NoPolicy
    <3> HIDE DEF p, q
    <3>3. [<<p>> EXCEPT ![1].rules = more] = <<[p EXCEPT !.rules = more]>>
      OBVIOUS
    <3>4. [src.policies EXCEPT ![1].rules = more] = <<q>>
      BY <3>1, <3>2, <3>3
    <3>5. QED BY <3>4 DEF q
  <2>3. QED BY <2>1, <2>2 DEF Drafted
<1>5. src2.policies[1].rules = more
  <2> HIDE DEF src2, more
  <2>1. src2.policies[1] = [NoPolicy EXCEPT !.rules = more]
    BY <1>4
  <2>2. QED BY <2>1 DEF NoPolicy
<1>6. src.exceptions \in Seq(NewExceptions)
  BY DEF Drafted
<1> HIDE DEF src2, more
<1>7. Drafted(src2)
  BY <1>3, <1>4, <1>5, <1>6 DEF Drafted
<1>8. QED BY <1>7 DEF src2, more

LEMMA DraftedExceptions ==
  ASSUME NEW src, Drafted(src), NEW exs \in Seq(NewExceptions)
  PROVE  Drafted([src EXCEPT !.exceptions = exs])
<1> DEFINE src2 == [src EXCEPT !.exceptions = exs]
<1>1. /\ src2 = [base |-> src.base, policies |-> src.policies, exceptions |-> exs]
  BY DEF Drafted
<1>2. src2.policies = src.policies /\ src2.exceptions = exs /\ src2.base = src.base
  BY <1>1
<1> HIDE DEF src2
<1>3. Drafted(src2)
  BY <1>1, <1>2 DEF Drafted
<1>4. QED BY <1>3 DEF src2

LEMMA CompilerInvInductive == CompilerInit /\ [][CompilerNext]_compilerVars => []CompilerInv
<1>1. CompilerInit => CompilerInv
  <2>1. SUFFICES ASSUME CompilerInit PROVE Drafted(draft) /\ latest = NoVersion /\ held = NoVersion
    BY Zenon DEF CompilerInv, Compiles, Received
  <2>2. PICK b \in Bases : draft = [base |-> b, policies |-> <<NoPolicy>>, exceptions |-> <<>>]
    BY <2>1 DEF CompilerInit
  <2>3. draft.policies = <<NoPolicy>> /\ draft.exceptions = <<>> /\ NoPolicy.rules = <<>>
    BY <2>2 DEF NoPolicy
  <2>4. NoPolicy = [NoPolicy EXCEPT !.rules = NoPolicy.rules]
    BY DEF NoPolicy
  <2>5. /\ draft = [base |-> draft.base, policies |-> draft.policies, exceptions |-> draft.exceptions]
        /\ draft.policies = <<[NoPolicy EXCEPT !.rules = draft.policies[1].rules]>>
        /\ draft.policies[1].rules = <<>>
    BY <2>2, <2>3, <2>4
  <2>6. /\ draft.policies[1].rules \in Seq(Numbered) /\ draft.exceptions \in Seq(NewExceptions)
        /\ Len(draft.policies[1].rules) = 0 /\ 0 <= MaxEdits
    <3>1. <<>> \in Seq(Numbered) /\ <<>> \in Seq(NewExceptions) /\ Len(<<>>) = 0
      OBVIOUS
    <3>2. 0 <= MaxEdits
      BY CompilerAssumption
    <3>3. QED BY <2>3, <2>5, <3>1, <3>2, Zenon
  <2>7. Drafted(draft)
    BY <2>5, <2>6 DEF Drafted
  <2>8. QED BY <2>1, <2>7 DEF CompilerInit
<1>2. CompilerInv /\ [CompilerNext]_compilerVars => CompilerInv'
  <2> SUFFICES ASSUME CompilerInv, [CompilerNext]_compilerVars PROVE CompilerInv'
    OBVIOUS
  <2>1. Drafted(draft) /\ Compiles(latest) /\ Received(held)
    BY Zenon DEF CompilerInv
  <2>2. ASSUME NEW r \in NewRules, AddRule(r) PROVE CompilerInv'
    <3>1. Len(draft.policies[1].rules) < MaxEdits
      <4>1. Len(draft.policies[1].rules) \in Nat /\ Len(draft.exceptions) \in Nat
        BY <2>1 DEF Drafted
      <4>2. Len(draft.policies[1].rules) + Len(draft.exceptions) < MaxEdits
        BY <2>2 DEF AddRule, Edits
      <4>3. MaxEdits \in Nat
        BY CompilerAssumption
      <4>4. \A i, j, k \in Nat : i + j < k => i < k
        OBVIOUS
      <4>5. QED BY <4>1, <4>2, <4>3, <4>4, Zenon
    <3>2. draft' = [draft EXCEPT !.policies[1].rules =
                      Append(@, [r EXCEPT !.id = Len(draft.policies[1].rules) + 1])]
      BY <2>2 DEF AddRule
    <3>3. Drafted(draft')
      BY <2>1, <3>1, <3>2, DraftedRule
    <3>4. latest' = latest /\ held' = held
      BY <2>2 DEF AddRule
    <3>5. QED BY <2>1, <3>3, <3>4, Zenon DEF CompilerInv
  <2>3. ASSUME NEW x \in NewExceptions, AddException(x) PROVE CompilerInv'
    <3>1. draft' = [draft EXCEPT !.exceptions = Append(draft.exceptions, x)]
      BY <2>1, <2>3 DEF AddException, Drafted
    <3>2. Append(draft.exceptions, x) \in Seq(NewExceptions)
      BY <2>1, <2>3 DEF Drafted
    <3>3. Drafted(draft')
      BY <2>1, <3>1, <3>2, DraftedExceptions
    <3>4. latest' = latest /\ held' = held
      BY <2>3 DEF AddException
    <3>5. QED BY <2>1, <3>3, <3>4, Zenon DEF CompilerInv
  <2>4. CASE Publish
    <3>1. PICK doc \in CompileWith(draft, now) \ {Refused} : latest' = [source |-> draft, at |-> now]
      BY <2>4 DEF Publish
    <3>2. latest'.source = draft /\ latest'.at = now
      BY <3>1
    <3>3. Compiles(latest')
      BY <2>1, <3>1, <3>2 DEF Compiles
    <3>4. draft' = draft /\ held' = held
      BY <2>4 DEF Publish
    <3>5. QED BY <2>1, <3>3, <3>4, Zenon DEF CompilerInv
  <2>5. CASE Fetch
    <3>1. PICK doc \in CompileWith(latest.source, latest.at) \ {Refused} :
                 held' = [source |-> latest.source, at |-> latest.at, policy |-> doc]
      BY <2>5 DEF Fetch
    <3>2. latest # NoVersion
      BY <2>5 DEF Fetch
    <3>3. held'.source = latest.source /\ held'.at = latest.at /\ held'.policy = doc
      BY <3>1
    <3>4. Received(held')
      BY <2>1, <3>1, <3>2, <3>3 DEF Compiles, Received
    <3>5. draft' = draft /\ latest' = latest
      BY <2>5 DEF Fetch
    <3>6. QED BY <2>1, <3>4, <3>5, Zenon DEF CompilerInv
  <2>6. CASE DropExpired
    <3> DEFINE live == Unexpired(latest.source.exceptions, now)
               src  == [latest.source EXCEPT !.exceptions = live]
    <3>1. latest # NoVersion
      BY <2>6 DEF DropExpired
    <3>2. PICK doc \in CompileWith(src, now) \ {Refused} : latest' = [source |-> src, at |-> now]
      BY <2>6 DEF DropExpired
    <3>3. Drafted(latest.source)
      BY <2>1, <3>1 DEF Compiles
    <3>4. live \in Seq(NewExceptions)
      BY <3>3, UnexpiredSeq DEF Drafted
    <3> HIDE DEF live
    <3>5. Drafted(src)
      BY <3>3, <3>4, DraftedExceptions
    <3> HIDE DEF src
    <3>6. latest'.source = src /\ latest'.at = now
      BY <3>2
    <3>7. Compiles(latest')
      BY <3>2, <3>5, <3>6 DEF Compiles
    <3>8. draft' = draft /\ held' = held
      BY <2>6 DEF DropExpired
    <3>9. QED BY <2>1, <3>7, <3>8, Zenon DEF CompilerInv
  <2>7. CASE Tick
    <3>1. draft' = draft /\ latest' = latest /\ held' = held
      BY <2>7 DEF Tick
    <3>2. QED BY <2>1, <3>1, Zenon DEF CompilerInv
  <2>8. CASE UNCHANGED compilerVars
    <3>1. draft' = draft /\ latest' = latest /\ held' = held
      BY <2>8 DEF compilerVars
    <3>2. QED BY <2>1, <3>1, Zenon DEF CompilerInv
  <2>9. QED BY <2>2, <2>3, <2>4, <2>5, <2>6, <2>7, <2>8, Zenon DEF CompilerNext
<1>3. QED BY <1>1, <1>2, PTL

LEMMA CompilerInvHolds == CompilerSpec => []CompilerInv
  BY CompilerInvInductive DEF CompilerSpec

\* Every fetch of a version gives the machine the same body, and none is refused
\* (central_policy.go: compilation is deterministic; publishing already compiled it).
THEOREM FetchesAlike == CompilerSpec => []EveryFetchAlike
<1>1. CompilerInv => EveryFetchAlike
  <2> SUFFICES ASSUME CompilerInv, latest # NoVersion
               PROVE  LET bodies == CompileWith(latest.source, latest.at)
                      IN Refused \notin bodies /\ Cardinality(bodies) = 1
    BY DEF EveryFetchAlike
  <2>1. Drafted(latest.source) /\ CompileWith(latest.source, latest.at) \ {Refused} # {}
    BY DEF CompilerInv, Compiles
  <2>2. latest.source.exceptions \in Seq(NewExceptions)
    BY <2>1 DEF Drafted
  <2>3. PICK n : n \in Nat /\ DOMAIN latest.source.exceptions = 1..n
    BY <2>2
  <2>4. PICK body : CompileWith(latest.source, latest.at) = {body}
    BY <2>3, OneBody
  <2>5. QED BY <2>1, <2>4, FS_Singleton
<1>2. QED BY <1>1, CompilerInvHolds, PTL

\* Without exceptions nothing the base policy stops gets through, for every agent,
\* in a break-glass window or out of one (compile.go, floor).
THEOREM FloorHolds == CompilerSpec => []BaseIsFloor
<1>1. CompilerInv => BaseIsFloor
  <2> SUFFICES ASSUME CompilerInv, held # NoVersion, held.source.exceptions = <<>>,
                      NEW a \in Everyone, NEW lifted \in BOOLEAN, NEW x \in Actions,
                      KernelVerdict(BaseRule(a), lifted, x) = "blocked",
                      ~(lifted /\ x.class = "exec" /\ BaseRule(a).mode = "allowlist")
               PROVE  KernelVerdict(HeldRule(a), lifted, x) = "blocked"
    BY DEF BaseIsFloor
  <2>1. held.policy \in CompileWith(held.source, held.at) /\ held.policy # Refused
    BY DEF CompilerInv, Received
  <2>2. AtLeast(HeldRule(a), BaseRule(a))
    BY <2>1, Floored DEF HeldRule, BaseRule
  <2>3. IsRule(HeldRule(a)) /\ IsRule(BaseRule(a))
    BY RuleForIsRule DEF HeldRule, BaseRule
  <2>4. QED BY <2>2, <2>3, AtLeastBlocks
<1>2. QED BY <1>1, CompilerInvHolds, PTL

\* An exception changes its list of the agents it reaches by exactly its value, and
\* nothing else (exceptions.go, applyExceptions).
THEOREM ExceptionsHold == CompilerSpec => []ExceptionsExact
<1>1. CompilerInv => ExceptionsExact
  <2> DEFINE src == held.source
             before == Merged(held.source, held.at)
             x == held.source.exceptions[1]
  <2> SUFFICES ASSUME CompilerInv, held # NoVersion, Len(held.source.exceptions) = 1,
                      NEW a \in Everyone, NEW list \in Lists
               PROVE  ListOf(HeldRule(a), list) = Lifted(list, ListOf(before[a], list), x, a)
    BY DEF ExceptionsExact
  <2>1. held.policy \in CompileWith(held.source, held.at) /\ held.policy # Refused /\ Drafted(held.source)
    BY DEF CompilerInv, Received
  <2>2. before # Refused
    BY <2>1, ShippedFrom
  <2>3. PICK m \in ApplyExceptions(before, src.base, src.exceptions, held.at) :
          m # Refused /\ \A b \in Everyone : SameRule(RuleFor(held.policy, b), m[b])
    BY <2>1, ShippedFrom
  <2>4. AllRules(before)
    BY <2>2, MergedRules
  <2>5. ApplyExceptions(before, src.base, src.exceptions, held.at) = AfterOne({before}, src.base, x, held.at)
    <3>1. src.exceptions \in Seq(NewExceptions)
      BY <2>1 DEF Drafted
    <3>2. DOMAIN src.exceptions = 1..1
      BY <3>1
    <3>3. QED BY <3>2, OneException
  <2> HIDE DEF before, x
  <2>6. SameRule(HeldRule(a), m[a])
    BY <2>3 DEF HeldRule
  <2>7. ListOf(HeldRule(a), list) = ListOf(m[a], list)
    BY <2>6 DEF SameRule
  <2>8. IsRule(before[a])
    BY <2>4 DEF AllRules
  <2>9. CASE ~InForce(x, held.at)
    <3>1. m = before
      BY <2>3, <2>5, <2>9 DEF AfterOne
    <3>2. QED BY <2>7, <2>9, <3>1 DEF Lifted
  <2>10. CASE InForce(x, held.at)
    <3>1. AfterOne({before}, src.base, x, held.at) = ApplyException(before, src.base, x)
      BY <2>10 DEF AfterOne
    <3>2. m = Outcome(before, src.base, x, Everyone)
      BY <2>3, <2>4, <2>5, <3>1, OneOutcome
    <3>3. m[a] = IF Reaches(x, a) THEN Loosened(before[a], x) ELSE before[a]
      BY <2>3, <3>2 DEF Outcome
    <3>4. Reaches(x, a) <=> x.agents = {} \/ a \in x.agents \ {Defaults}
      BY DEF Reaches
    <3>5. CASE ~Reaches(x, a)
      BY <2>7, <3>3, <3>4, <3>5 DEF Lifted
    <3>6. CASE Reaches(x, a)
      <4>1. m[a] = Loosened(before[a], x)
        BY <3>3, <3>6
      <4>2. ListOf(m[a], list) = IF x.list # list THEN ListOf(before[a], list)
                                 ELSE IF list = "exec_allow" THEN ListOf(before[a], list) \cup {x.value}
                                 ELSE Without(ListOf(before[a], list), x)
        <5>1. PICK r, y : r = before[a] /\ y = x
          OBVIOUS
        <5>2. ListOf(Loosened(r, y), list) = IF y.list # list THEN ListOf(r, list)
                                             ELSE IF list = "exec_allow" THEN ListOf(r, list) \cup {y.value}
                                             ELSE Without(ListOf(r, list), y)
          BY <2>8, <5>1, LoosenedAny
        <5>3. QED BY <4>1, <5>1, <5>2, Zenon
      <4>3. QED BY <2>7, <2>10, <3>4, <3>6, <4>2 DEF Lifted
    <3>7. QED BY <3>5, <3>6
  <2>11. QED BY <2>9, <2>10
<1>2. QED BY <1>1, CompilerInvHolds, PTL

-----------------------------------------------------------------------------
(* The rule that wins.                                                     *)

\* The order of the rules of one policy, of priorities p and strictness s.
Before(p, s, c, d) == p[c] < p[d] \/ (p[c] = p[d] /\ (s[c] < s[d] \/ (s[c] = s[d] /\ c < d)))
LeastOf(p, s, T, c) == c \in T /\ \A d \in T \ {c} : Before(p, s, c, d)

LEMMA HasLeast ==
  ASSUME NEW p, NEW s, NEW n \in Nat, \A i \in 1..n : p[i] \in Int /\ s[i] \in Int,
         NEW T, T \subseteq 1..n, T # {}
  PROVE  \E c : LeastOf(p, s, T, c)
<1> DEFINE Has(U) == \E c : LeastOf(p, s, U, c)
           Good == {k \in Nat : k <= n => \A U \in SUBSET (1..k) : U # {} => Has(U)}
<1>1. 0 \in Good
  <2>1. \A U \in SUBSET (1..0) : U = {}
    OBVIOUS
  <2> HIDE DEF Has
  <2>2. QED BY <2>1
<1>2. ASSUME NEW k \in Nat, k \in Good PROVE k + 1 \in Good
  <2>1. SUFFICES ASSUME k + 1 <= n, NEW U \in SUBSET (1..(k + 1)), U # {} PROVE Has(U)
    <3> HIDE DEF Has
    <3>1. k + 1 \in Nat
      OBVIOUS
    <3>2. QED BY <3>1
  <2>2. \A V \in SUBSET (1..k) : V # {} => Has(V)
    <3> HIDE DEF Has
    <3>1. k <= n
      BY <2>1
    <3>2. QED BY <3>1, <1>2
  <2>3. CASE k + 1 \notin U
    <3> HIDE DEF Has
    <3>1. U \in SUBSET (1..k)
      BY <2>3, Below
    <3>2. QED BY <3>1, <2>1, <2>2
  <2>4. CASE k + 1 \in U
    <3> DEFINE rest == U \ {k + 1}
    <3>1. rest \in SUBSET (1..k)
      BY Below
    <3>2. CASE rest = {}
      <4>1. LeastOf(p, s, U, k + 1)
        BY <2>4, <3>2 DEF LeastOf
      <4>2. QED BY <4>1
    <3>3. CASE rest # {}
      <4> HIDE DEF rest
      <4>1. PICK c : LeastOf(p, s, rest, c)
        BY <2>2, <3>1, <3>3
      <4>2. c \in 1..n /\ k + 1 \in 1..n /\ c \in Int /\ k + 1 \in Int /\ c < k + 1
        BY <2>1, <3>1, <4>1 DEF LeastOf
      <4>3. p[c] \in Int /\ s[c] \in Int /\ p[k + 1] \in Int /\ s[k + 1] \in Int
        BY <4>2
      <4>4. Before(p, s, c, k + 1) \/ Before(p, s, k + 1, c)
        BY <4>2, <4>3 DEF Before
      <4>5. CASE Before(p, s, c, k + 1)
        <5>1. LeastOf(p, s, U, c)
          BY <4>1, <4>2, <4>5 DEF LeastOf, rest
        <5>2. QED BY <5>1
      <4>6. CASE Before(p, s, k + 1, c)
        <5>1. ASSUME NEW d \in rest \ {c} PROVE Before(p, s, k + 1, d)
          <6>1. Before(p, s, c, d)
            BY <4>1 DEF LeastOf
          <6>2. d \in Int /\ p[d] \in Int /\ s[d] \in Int
            <7>1. d \in 1..n
              BY <2>1, <3>1
            <7>2. QED BY <7>1
          <6>3. QED BY <4>2, <4>3, <4>6, <6>1, <6>2 DEF Before
        <5>2. \A d \in U \ {k + 1} : Before(p, s, k + 1, d)
          BY <4>6, <5>1 DEF rest
        <5>3. LeastOf(p, s, U, k + 1)
          BY <2>4, <5>2 DEF LeastOf
        <5>4. QED BY <5>3
      <4>7. QED BY <4>4, <4>5, <4>6
    <3>4. QED BY <3>2, <3>3
  <2>5. QED BY <2>3, <2>4
<1>3. n \in Good
  <2> HIDE DEF Good
  <2>1. QED BY <1>1, <1>2, InductNat
<1>4. QED BY <1>3

LEMMA PrecedesByThree ==
  ASSUME NEW a \in Int, NEW p1 \in Int, NEW p2 \in Int, NEW s1 \in Int, NEW s2 \in Int,
         NEW c \in Int, NEW d \in Int,
         p1 < p2 \/ (p1 = p2 /\ (s1 < s2 \/ (s1 = s2 /\ c < d)))
  PROVE  Precedes(<<a, p1, s1, c, a, c>>, <<a, p2, s2, d, a, d>>)
<1> DEFINE k == <<a, p1, s1, c, a, c>>
           l == <<a, p2, s2, d, a, d>>
<1>1. /\ DOMAIN k = 1..6 /\ k[1] = a /\ k[2] = p1 /\ k[3] = s1 /\ k[4] = c
      /\ l[1] = a /\ l[2] = p2 /\ l[3] = s2 /\ l[4] = d
  OBVIOUS
<1> HIDE DEF k, l
<1>2. \A j : (j \in 1..(2 - 1) => j = 1) /\ (j \in 1..(3 - 1) => j = 1 \/ j = 2)
             /\ (j \in 1..(4 - 1) => j = 1 \/ j = 2 \/ j = 3)
  OBVIOUS
<1>3. CASE p1 < p2
  <2>1. 2 \in DOMAIN k /\ k[2] < l[2] /\ \A j \in 1..(2 - 1) : k[j] = l[j]
    BY <1>1, <1>2, <1>3
  <2>2. Precedes(k, l)
    BY <2>1 DEF Precedes
  <2>3. QED BY <2>2 DEF k, l
<1>4. CASE p1 = p2 /\ s1 < s2
  <2>1. 3 \in DOMAIN k /\ k[3] < l[3] /\ \A j \in 1..(3 - 1) : k[j] = l[j]
    BY <1>1, <1>2, <1>4
  <2>2. Precedes(k, l)
    BY <2>1 DEF Precedes
  <2>3. QED BY <2>2 DEF k, l
<1>5. CASE p1 = p2 /\ s1 = s2 /\ c < d
  <2>1. 4 \in DOMAIN k /\ k[4] < l[4] /\ \A j \in 1..(4 - 1) : k[j] = l[j]
    BY <1>1, <1>2, <1>5
  <2>2. Precedes(k, l)
    BY <2>1 DEF Precedes
  <2>3. QED BY <2>2 DEF k, l
<1>6. QED BY <1>3, <1>4, <1>5

LEMMA Winner ==
  ASSUME NEW src, Drafted(src), NEW sub, NEW act, NEW at,
         Evaluate(src.policies, sub, act, at).rule # NoRule
  PROVE  LET w == Evaluate(src.policies, sub, act, at)
         IN /\ <<1, w.rule>> \in Candidates(src.policies, sub, act, at)
            /\ w.decision = src.policies[1].rules[w.rule].decision
<1> DEFINE ps == src.policies
           rules == ps[1].rules
           n == Len(rules)
           w == Evaluate(ps, sub, act, at)
           cands == Candidates(ps, sub, act, at)
           Wins(c) == \A d \in cands \ {c} : Precedes(Key(ps, c), Key(ps, d))
           best == CHOOSE c \in cands : Wins(c)
<1>1. /\ DOMAIN ps = {1} /\ ps[1].priority = 1 /\ n \in Nat /\ DOMAIN rules = 1..n
      /\ rules \in Seq(Numbered) /\ \A i \in 1..n : rules[i].id = i
  <2>1. ps = <<[NoPolicy EXCEPT !.rules = rules]>> /\ rules \in Seq(Numbered) /\ \A i \in 1..n : rules[i].id = i
    BY DEF Drafted
  <2>2. ps[1] = [NoPolicy EXCEPT !.rules = rules] /\ DOMAIN ps = {1}
    <3> HIDE DEF rules
    <3>1. QED BY <2>1
  <2>3. ps[1].priority = 1
    <3> HIDE DEF rules
    <3>1. QED BY <2>2 DEF NoPolicy
  <2> HIDE DEF rules, ps
  <2>4. QED BY <2>1, <2>2, <2>3
<1>2. ASSUME NEW c \in cands PROVE c[2] \in 1..n /\ c = <<1, c[2]>>
  <2>1. c \in InScope(ps, sub) \X UNION {DOMAIN ps[i].rules : i \in DOMAIN ps} /\ c[2] \in DOMAIN ps[c[1]].rules
    BY DEF Candidates
  <2>2. c[1] = 1 /\ c = <<c[1], c[2]>>
    BY <1>1, <2>1 DEF InScope
  <2>3. QED BY <1>1, <2>1, <2>2
<1>3. ASSUME NEW i \in 1..n
      PROVE  rules[i].priority \in Int /\ 2 - Rank(rules[i].decision) \in Int
  <2>1. PICK r \in NewRules, k \in Nat : rules[i] = [r EXCEPT !.id = k]
    <3>1. rules[i] \in Numbered
      BY <1>1
    <3> HIDE DEF rules
    <3>2. QED BY <3>1 DEF Numbered
  <2>2. r.priority \in Int /\ rules[i].priority = r.priority
    <3>1. r = [id |-> r.id, priority |-> r.priority, who |-> r.who, what |-> r.what,
               decision |-> r.decision, until |-> r.until, disabled |-> r.disabled] /\ r.priority \in Int
      BY CompilerAssumption
    <3> HIDE DEF rules
    <3>2. QED BY <2>1, <3>1
  <2>3. QED BY <2>2 DEF Rank
<1> DEFINE p == [i \in 1..n |-> rules[i].priority]
           s == [i \in 1..n |-> 2 - Rank(rules[i].decision)]
           T == {c[2] : c \in cands}
<1>4. ASSUME NEW i \in 1..n PROVE Key(ps, <<1, i>>) = <<1, p[i], s[i], i, 1, i>>
  <2>1. Key(ps, <<1, i>>) = <<ps[1].priority, rules[i].priority, 2 - Rank(rules[i].decision), rules[i].id, 1, i>>
    BY DEF Key
  <2>2. ps[1].priority = 1 /\ rules[i].id = i /\ p[i] = rules[i].priority /\ s[i] = 2 - Rank(rules[i].decision)
    BY <1>1
  <2>3. QED BY <2>1, <2>2, Zenon
<1>5. \A i \in 1..n : p[i] \in Int /\ s[i] \in Int
  BY <1>3
<1>6. w = IF cands = {} THEN DefaultOf(ps, sub)
          ELSE [decision |-> ps[best[1]].rules[best[2]].decision, policy |-> ps[best[1]].id,
                rule |-> ps[best[1]].rules[best[2]].id]
  BY DEF Evaluate
<1>7. cands # {}
  <2>1. DefaultOf(ps, sub).rule = NoRule
    BY DEF DefaultOf
  <2>2. w.rule # NoRule
    OBVIOUS
  <2> HIDE DEF w, cands, best
  <2>3. QED BY <1>6, <2>1, <2>2
<1> HIDE DEF p, s, cands
<1>8. \E c \in cands : Wins(c)
  <2>1. PICK i : LeastOf(p, s, T, i)
    <3>1. T \subseteq 1..n /\ T # {}
      BY <1>2, <1>7
    <3> HIDE DEF T, n
    <3>2. QED BY <1>1, <1>5, <3>1, HasLeast
  <2>2. <<1, i>> \in cands /\ i \in 1..n
    <3>1. PICK c \in cands : c[2] = i
      BY <2>1 DEF LeastOf
    <3>2. QED BY <3>1, <1>2
  <2>3. ASSUME NEW d \in cands \ {<<1, i>>} PROVE Precedes(Key(ps, <<1, i>>), Key(ps, d))
    <3>1. d[2] \in 1..n /\ d = <<1, d[2]>> /\ d[2] # i /\ d[2] \in T
      BY <1>2
    <3>2. PICK j : j = d[2]
      OBVIOUS
    <3>3. Before(p, s, i, j)
      BY <2>1, <3>1, <3>2 DEF LeastOf
    <3>4. /\ p[i] \in Int /\ s[i] \in Int /\ p[j] \in Int /\ s[j] \in Int
          /\ i \in Int /\ j \in Int /\ 1 \in Int
      BY <1>5, <2>2, <3>1, <3>2
    <3>5. Precedes(<<1, p[i], s[i], i, 1, i>>, <<1, p[j], s[j], j, 1, j>>)
      BY <3>3, <3>4, PrecedesByThree DEF Before
    <3>6. Key(ps, <<1, i>>) = <<1, p[i], s[i], i, 1, i>> /\ Key(ps, d) = <<1, p[j], s[j], j, 1, j>>
      BY <1>4, <2>2, <3>1, <3>2
    <3>7. QED BY <3>5, <3>6, Zenon
  <2>4. QED BY <2>2, <2>3
<1>9. best \in cands
  <2> HIDE DEF Wins
  <2>1. QED BY <1>8
<1> HIDE DEF best
<1>10. best[2] \in 1..n /\ best = <<1, best[2]>>
  BY <1>2, <1>9
<1>11. w.rule = best[2] /\ w.decision = rules[best[2]].decision
  <2>1. best[1] = 1
    BY <1>10
  <2>2. w = [decision |-> rules[best[2]].decision, policy |-> ps[1].id, rule |-> rules[best[2]].id]
    BY <1>6, <1>7, <2>1
  <2>3. rules[best[2]].id = best[2]
    BY <1>1, <1>10
  <2> HIDE DEF w, rules
  <2>4. QED BY <2>2, <2>3
<1>12. <<1, w.rule>> \in cands /\ w.decision = rules[w.rule].decision
  <2> HIDE DEF w, rules
  <2>1. QED BY <1>9, <1>10, <1>11
<1>13. QED BY <1>12 DEF cands

\* An atom that names a program is an atom of dimension exec.
LEMMA ExecDim ==
  ASSUME NEW r, NEW b, b \in Atoms(r), TargetMatches(r.what, Exec(b))
  PROVE  DimOf(r.what) = "exec"
<1>1. ~Problem(r)
  BY DEF Atoms
<1>2. DimOf(r.what) # "none"
  BY <1>1 DEF Problem
<1>3. DimOf(r.what) # "file"
  <2>1. SUFFICES ASSUME DimOf(r.what) = "file" PROVE FALSE
    OBVIOUS
  <2>2. r.what.paths # {}
    BY <2>1 DEF DimOf
  <2>3. Exec(b).paths = {}
    BY DEF Exec
  <2>4. AnyOf(r.what.paths, LAMBDA p : \E f \in Exec(b).paths : GlobMatch(p, f))
    BY DEF TargetMatches
  <2>5. QED BY <2>2, <2>3, <2>4 DEF AnyOf
<1>4. DimOf(r.what) # "network"
  <2>1. SUFFICES ASSUME DimOf(r.what) = "network" PROVE FALSE
    OBVIOUS
  <2>2. r.what.hosts # {}
    BY <2>1 DEF DimOf
  <2>3. Exec(b).host = NoHost
    BY DEF Exec
  <2>4. AnyOf(r.what.hosts, LAMBDA p : Exec(b).host # NoHost /\ HostMatch(p, Exec(b).host))
    BY DEF TargetMatches
  <2>5. QED BY <2>2, <2>3, <2>4 DEF AnyOf
<1>5. DimOf(r.what) \in {"exec", "file", "network", "none"}
  BY DEF DimOf
<1>6. QED BY <1>2, <1>3, <1>4, <1>5

\* A strict winner the kernel can carry is among what compiling denies or asks for.
LEMMA WinnerCompiled ==
  ASSUME NEW src, Drafted(src), NEW sub, NEW b, NEW at,
         Strict(Evaluate(src.policies, sub, Exec(b), at)),
         b \in Atoms(src.policies[1].rules[Evaluate(src.policies, sub, Exec(b), at).rule])
  PROVE  b \in Denied(src.policies, sub, at, "exec") \cup Approved(src.policies, sub, at, "exec")
<1> DEFINE ps == src.policies
           w == Evaluate(ps, sub, Exec(b), at)
           j == w.rule
           r == ps[1].rules[j]
<1>1. <<1, j>> \in Candidates(ps, sub, Exec(b), at) /\ w.decision = r.decision
  BY Winner DEF Strict
<1>2. w.decision # "allow"
  BY DEF Strict
<1> HIDE DEF w
<1>3. /\ 1 \in InScope(ps, sub) /\ j \in DOMAIN ps[1].rules
      /\ Live(r, at) /\ SelectorMatches(r.who, sub) /\ TargetMatches(r.what, Exec(b))
  BY <1>1 DEF Candidates
<1>4. 1 \in DOMAIN ps /\ ps[1].enabled /\ SelectorMatches(ps[1].scope, sub)
  BY <1>3, Zenon DEF InScope
<1>5. j \in 1..MaxEdits
  <2>1. ps[1].rules \in Seq(Numbered) /\ Len(ps[1].rules) <= MaxEdits
    BY DEF Drafted
  <2> DEFINE rules == ps[1].rules
  <2> HIDE DEF rules, ps
  <2>2. j \in 1..Len(rules) /\ Len(rules) \in Nat
    <3>1. j \in DOMAIN rules /\ rules \in Seq(Numbered)
      BY <1>3, <2>1 DEF rules
    <3> HIDE DEF j
    <3>2. QED BY <3>1
  <2>3. Len(rules) <= MaxEdits /\ MaxEdits \in Nat
    BY <2>1, CompilerAssumption DEF rules
  <2>4. QED BY <2>2, <2>3
<1>6. b \in Atoms(r)
  BY DEF w
<1>7. DimOf(r.what) = "exec"
  BY <1>3, <1>6, ExecDim
<1> DEFINE k == <<1, j>>
<1>8. k[1] = 1 /\ k[2] = j /\ k \in (DOMAIN ps) \X (1..MaxEdits)
  BY <1>4, <1>5
<1> HIDE DEF k, j, ps
<1>9. k \in Classified(ps, at)
  <2>1. r = ps[k[1]].rules[k[2]]
    BY <1>8
  <2>2. Atoms(r) # {}
    BY <1>6
  <2> HIDE DEF r
  <2>3. /\ ps[k[1]].enabled /\ k[2] \in DOMAIN ps[k[1]].rules
        /\ Live(ps[k[1]].rules[k[2]], at) /\ ps[k[1]].rules[k[2]].decision # "allow"
        /\ Atoms(ps[k[1]].rules[k[2]]) # {}
    BY <1>1, <1>2, <1>3, <1>4, <1>8, <2>1, <2>2, Zenon
  <2>4. QED BY <1>8, <2>3, Zenon DEF Classified
<1>10. AppliesTo(ps[k[1]], ps[k[1]].rules[k[2]], sub) /\ DimOf(ps[k[1]].rules[k[2]].what) = "exec"
  BY <1>3, <1>4, <1>7, <1>8, Zenon DEF AppliesTo
<1>11. b \in Named(ps, sub, at, "exec")
  <2>1. b \in Atoms(ps[k[1]].rules[k[2]])
    BY <1>6, <1>8
  <2>2. QED BY <1>9, <1>10, <2>1, Zenon DEF Named
<1>12. w \in Winners(ps, sub, at, "exec", b) /\ Strict(w)
  <2>1. Probe("exec", b) = {Exec(b)}
    BY DEF Probe
  <2>2. w \in Winners(ps, sub, at, "exec", b)
    BY <2>1 DEF Winners, w, ps
  <2>3. QED BY <2>2 DEF w, ps
<1>13. b \in Denied(ps, sub, at, "exec") \cup Approved(ps, sub, at, "exec")
  BY <1>11, <1>12, Zenon DEF Approved
<1>14. QED BY <1>13 DEF ps

\* What compiling denies or asks for has a strict winner.
LEMMA CompiledWinner ==
  ASSUME NEW ps, NEW sub, NEW at, NEW b,
         b \in Denied(ps, sub, at, "exec") \cup Approved(ps, sub, at, "exec")
  PROVE  Strict(Evaluate(ps, sub, Exec(b), at))
<1>1. \E w \in Winners(ps, sub, at, "exec", b) : Strict(w)
  BY Zenon DEF Denied, Approved
<1>2. Winners(ps, sub, at, "exec", b) = {Evaluate(ps, sub, a, at) : a \in {Exec(b)}}
  BY DEF Winners, Probe
<1>3. QED BY <1>1, <1>2

\* The programs a compiled rule stops and the base let run are those compiling
\* denies or asks for.
LEMMA Stopped ==
  ASSUME NEW base, IsRule(base), NEW h, IsRule(h), NEW b \in Programs, NEW more,
         h.mode = base.mode, ListOf(h, "gated_exec") = ListOf(base, "gated_exec"),
         base.mode # "allowlist" => ListOf(h, "exec_deny") \cup ListOf(h, "exec_approve") =
                                    ListOf(base, "exec_deny") \cup ListOf(base, "exec_approve") \cup more,
         base.mode = "allowlist" => ListOf(h, "exec_allow") \ ListOf(h, "exec_approve") =
                                    (ListOf(base, "exec_allow") \ ListOf(base, "exec_approve")) \ more,
         KernelVerdict(base, FALSE, Exec(b)) = "pass"
  PROVE  KernelVerdict(h, FALSE, Exec(b)) # "pass" <=> b \in more
<1>1. PICK kb, kh : kb = Kernel(base, FALSE) /\ kh = Kernel(h, FALSE)
  OBVIOUS
<1>2. /\ kb.mode = base.mode /\ kh.mode = base.mode
      /\ ListOf(kb, "gated_exec") = ListOf(base, "gated_exec")
      /\ ListOf(kh, "gated_exec") = ListOf(base, "gated_exec")
      /\ ListOf(kb, "exec_deny") = ListOf(base, "exec_deny") \cup ListOf(base, "exec_approve")
      /\ ListOf(kh, "exec_deny") = ListOf(h, "exec_deny") \cup ListOf(h, "exec_approve")
      /\ base.mode = "allowlist" =>
           /\ ListOf(kb, "exec_allow") = ListOf(base, "exec_allow") \ ListOf(base, "exec_approve")
           /\ ListOf(kh, "exec_allow") = ListOf(h, "exec_allow") \ ListOf(h, "exec_approve")
  BY <1>1, KernelLists
<1>3. ~ExecHit(kb, b)
  BY <1>1, VerdictOfExec
<1>4. KernelVerdict(h, FALSE, Exec(b)) # "pass" <=> ExecHit(kh, b)
  BY <1>1, VerdictOfExec
<1>5. ExecHit(kh, b) <=> b \in more
  <2>1. CASE base.mode = "allowlist"
    BY <2>1, <1>2, <1>3 DEF ExecHit
  <2>2. CASE base.mode # "allowlist"
    BY <2>2, <1>2, <1>3 DEF ExecHit
  <2>3. QED BY <2>1, <2>2
<1>6. QED BY <1>4, <1>5

LEMMA StoppedByRules ==
  ASSUME NEW src, NEW at, NEW doc \in CompileWith(src, at), doc # Refused, src.exceptions = <<>>,
         NEW a \in Everyone, NEW b \in Programs,
         KernelVerdict(RuleFor(src.base, a), FALSE, Exec(b)) = "pass"
  PROVE  KernelVerdict(RuleFor(doc, a), FALSE, Exec(b)) # "pass"
           <=> b \in Denied(src.policies, Subject(a), at, "exec") \cup Approved(src.policies, Subject(a), at, "exec")
<1> DEFINE base == RuleFor(src.base, a)
           one  == CompileAgent(base, src.policies, Subject(a), at).rule
           h    == RuleFor(doc, a)
           deny == Denied(src.policies, Subject(a), at, "exec")
           ask  == Approved(src.policies, Subject(a), at, "exec")
<1>1. one # Refused /\ SameRule(h, one)
  BY Plain
<1>2. IsRule(base) /\ IsRule(h)
  BY RuleForIsRule
<1> HIDE DEF base, h
<1>3. /\ one.mode = base.mode
      /\ ListOf(one, "gated_exec") = ListOf(base, "gated_exec")
      /\ base.mode # "allowlist" => ListOf(one, "exec_deny") = ListOf(base, "exec_deny") \cup deny
      /\ base.mode = "allowlist" => ListOf(one, "exec_allow") = ListOf(base, "exec_allow") \ deny
      /\ ListOf(one, "exec_approve") = ListOf(base, "exec_approve") \cup ask
  BY <1>1, <1>2, Compiled
<1>4. h.mode = one.mode /\ \A l \in Lists : ListOf(h, l) = ListOf(one, l)
  BY <1>1 DEF SameRule
<1> HIDE DEF one, deny, ask
<1>5. /\ h.mode = base.mode /\ ListOf(h, "gated_exec") = ListOf(base, "gated_exec")
      /\ base.mode # "allowlist" => ListOf(h, "exec_deny") = ListOf(base, "exec_deny") \cup deny
      /\ base.mode = "allowlist" => ListOf(h, "exec_allow") = ListOf(base, "exec_allow") \ deny
      /\ ListOf(h, "exec_approve") = ListOf(base, "exec_approve") \cup ask
  BY <1>3, <1>4 DEF Lists
<1>6. KernelVerdict(base, FALSE, Exec(b)) = "pass"
  BY DEF base
<1>7. KernelVerdict(h, FALSE, Exec(b)) # "pass" <=> b \in deny \cup ask
  <2> DEFINE more == deny \cup ask
  <2>1. base.mode # "allowlist" => ListOf(h, "exec_deny") \cup ListOf(h, "exec_approve") =
                                   ListOf(base, "exec_deny") \cup ListOf(base, "exec_approve") \cup more
    BY <1>5
  <2>2. base.mode = "allowlist" => ListOf(h, "exec_allow") \ ListOf(h, "exec_approve") =
                                   (ListOf(base, "exec_allow") \ ListOf(base, "exec_approve")) \ more
    BY <1>5
  <2> HIDE DEF more
  <2>3. KernelVerdict(h, FALSE, Exec(b)) # "pass" <=> b \in more
    BY <1>2, <1>5, <1>6, <2>1, <2>2, Stopped
  <2>4. QED BY <2>3 DEF more
<1>8. QED BY <1>7 DEF h, deny, ask

\* The kernel and the evaluator agree on every program the base lets run: it is
\* stopped only by a strict winner, and by every one the kernel can carry
\* (compile.go: precedence is not re-implemented).
THEOREM ProgramsHold == CompilerSpec => []ProgramsAgree
<1>1. CompilerInv => ProgramsAgree
  <2> SUFFICES ASSUME CompilerInv, held # NoVersion, held.source.exceptions = <<>>,
                      NEW a \in Everyone, NEW b \in Programs,
                      KernelVerdict(BaseRule(a), FALSE, Exec(b)) = "pass"
               PROVE  LET w == Decision(a, Exec(b))
                      IN /\ KernelVerdict(HeldRule(a), FALSE, Exec(b)) # "pass" => Strict(w)
                         /\ Strict(w) /\ b \in Atoms(RuleOf(w)) =>
                              KernelVerdict(HeldRule(a), FALSE, Exec(b)) # "pass"
    BY DEF ProgramsAgree
  <2>1. held.policy \in CompileWith(held.source, held.at) /\ held.policy # Refused /\ Drafted(held.source)
    BY DEF CompilerInv, Received
  <2>2. KernelVerdict(HeldRule(a), FALSE, Exec(b)) # "pass"
          <=> b \in Denied(held.source.policies, Subject(a), held.at, "exec")
                    \cup Approved(held.source.policies, Subject(a), held.at, "exec")
    BY <2>1, StoppedByRules DEF HeldRule, BaseRule
  <2>3. KernelVerdict(HeldRule(a), FALSE, Exec(b)) # "pass" => Strict(Decision(a, Exec(b)))
    BY <2>2, CompiledWinner DEF Decision
  <2>4. Strict(Decision(a, Exec(b))) /\ b \in Atoms(RuleOf(Decision(a, Exec(b)))) =>
          KernelVerdict(HeldRule(a), FALSE, Exec(b)) # "pass"
    BY <2>1, <2>2, WinnerCompiled DEF Decision, RuleOf
  <2>5. QED BY <2>3, <2>4
<1>2. QED BY <1>1, CompilerInvHolds, PTL
=============================================================================
