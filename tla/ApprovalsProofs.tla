--------------------------- MODULE ApprovalsProofs ---------------------------
(***************************************************************************)
(* Proofs about Approvals, for any calls, voters, identities and routings. *)
(***************************************************************************)
EXTENDS Approvals, FiniteSetTheorems, TLAPS

-----------------------------------------------------------------------------
\* Types.

\* The expiry sweep keeps rows rows (`update ... set state = 'expired'`).
LEMMA ExpiredRow == ASSUME NEW row \in Row PROVE Expired(row) \in Row
  BY DEF Expired, Row, States

LEMMA SweptRows == ASSUME rows \in [Ids -> Row] PROVE Swept \in [Ids -> Row]
  BY ExpiredRow DEF Swept

\* Writing one column of a row leaves a row.
LEMMA StateRow ==
  ASSUME NEW row \in Row, NEW state \in States PROVE [row EXCEPT !.state = state] \in Row
  BY DEF Row

\* A fresh row with the column defaults, and a new request, are rows.
LEMMA NewRows ==
  ASSUME now \in Nat
  PROVE  /\ EmptyRow \in Row
         /\ [EmptyRow EXCEPT !.state = "pending", !.expires = now + TTL] \in Row
<1>1. EmptyRow \in Row
  BY DEF EmptyRow, Row
<1>2. now + TTL \in Nat
  BY ConstantsAssumption
<1>3. QED BY <1>1, <1>2 DEF EmptyRow, Row, States

\* A route's group and rules, whichever branch routeFor takes.
LEMMA RouteForType ==
  ASSUME NEW cfg \in Routing, NEW route \in RouteFor(cfg) \cup {DefaultRoute}
  PROVE  /\ route.group \in Groups \cup {NoGroup}
         /\ route.rules \in Rules
<1>1. CASE route = DefaultRoute
  BY <1>1 DEF DefaultRoute, Rules
<1>2. CASE route \in RouteFor(cfg) /\ LiveRoutes(cfg) # {}
  <2>1. PICK i \in LiveRoutes(cfg) : route = cfg.routes[i]
    BY <1>2 DEF RouteFor
  <2>2. cfg.routes \in Seq(Routes) /\ i \in DOMAIN cfg.routes
    BY DEF LiveRoutes, Routing
  <2>3. cfg.routes[i] \in Routes
    BY <2>2
  <2>4. QED BY <2>1, <2>3 DEF Routes
<1>3. CASE route \in RouteFor(cfg) /\ LiveRoutes(cfg) = {}
  BY <1>3 DEF RouteFor, Routing
<1>4. QED BY <1>1, <1>2, <1>3

\* SetApprovalFiling writes a row's columns with values of their types.
LEMMA FiledRowType ==
  ASSUME NEW row \in Row, NEW route, NEW requester \in SUBSET Idents,
         route.group \in Groups \cup {NoGroup}, route.rules \in Rules
  PROVE  FiledRow(row, route, requester) \in Row
  BY DEF FiledRow, Row, Rules, Required

\* A vote leaves a row.
LEMMA VotedRow ==
  ASSUME NEW row \in Row, NEW vote \in Vote, now \in Nat
  PROVE  Voted(row, vote) \in Row
<1> DEFINE after == [row EXCEPT !.votes = @ \cup {vote}]
<1>1. after \in Row
  BY DEF Row
<1>2. AtLeast(row.expires, now + UseWindow) \in Nat
  BY ConstantsAssumption DEF AtLeast, Row
<1>3. [after EXCEPT !.state = "denied", !.decided = now] \in Row
  BY <1>1 DEF Row, States
<1>4. [after EXCEPT !.state = "approved", !.decided = now,
                    !.expires = AtLeast(@, now + UseWindow)] \in Row
  BY <1>1, <1>2 DEF Row, States
<1>5. QED BY <1>1, <1>3, <1>4 DEF Voted, Vote

LEMMA TypeInit == Init => TypeOK
<1> SUFFICES ASSUME Init PROVE TypeOK
  OBVIOUS
<1>1. rows \in [Ids -> Row] /\ now \in Nat
  BY NewRows DEF Init
<1>2. routing \in Routings /\ people \in SUBSET Idents
  BY ConstantsAssumption DEF Init
<1>3. /\ call \in [Calls -> Call]
      /\ \A c \in Calls : call[c].phase = "idle"
  BY DEF Init, Call, Phases
<1>4. ballot \in [Voters -> Ballot \cup {NoBallot}]
  BY DEF Init
<1>5. QED BY <1>1, <1>2, <1>3, <1>4 DEF TypeOK

\* What TypeOK says of the calls, and the ways a step may change one.
CallsOK ==
  /\ call \in [Calls -> Call]
  /\ \A c \in Calls : call[c].phase \notin {"idle", "blocked"} => call[c].req \in Ids

LEMMA AnswerOK ==
  ASSUME CallsOK, NEW c \in Calls, NEW r \in Ids, NEW state \in States, Answer(c, r, state)
  PROVE  CallsOK'
  BY DEF Answer, CallsOK, Call, Phases

LEMMA JoinOK ==
  ASSUME CallsOK, NEW c \in Calls, NEW r \in Ids, NEW phase \in Phases, Join(c, r, phase)
  PROVE  CallsOK'
  BY DEF Join, CallsOK, Call, Phases, States

LEMMA PhaseOK ==
  ASSUME CallsOK, NEW c \in Calls, NEW phase \in Phases,
         call[c].phase \notin {"idle", "blocked"} \/ phase = "blocked",
         call' = [call EXCEPT ![c].phase = phase]
  PROVE  CallsOK'
  BY DEF CallsOK, Call

LEMMA TypeNext == TypeOK /\ [Next]_vars => TypeOK'
<1> SUFFICES ASSUME TypeOK, [Next]_vars PROVE TypeOK'
  OBVIOUS
<1> USE DEF TypeOK
<1>0. Swept \in [Ids -> Row] /\ CallsOK
  BY SweptRows DEF CallsOK
<1>1. ASSUME NEW c \in Calls, NEW r \in Ids, UseApproved(c, r) PROVE TypeOK'
  <2>1. Swept[r] \in Row /\ "used" \in States
    BY <1>0 DEF States
  <2>2. rows' \in [Ids -> Row]
    <3>1. [Swept[r] EXCEPT !.state = "used"] \in Row
      BY <2>1, StateRow
    <3>2. rows' = [Swept EXCEPT ![r] = [Swept[r] EXCEPT !.state = "used"]]
      BY <1>1 DEF UseApproved
    <3>3. QED BY <1>0, <3>1, <3>2
  <2>3. CallsOK'
    BY <1>0, <1>1, AnswerOK DEF UseApproved, States
  <2>4. QED BY <1>1, <2>2, <2>3 DEF UseApproved, CallsOK
<1>2. ASSUME NEW c \in Calls, NEW r \in Ids, JoinPending(c, r) PROVE TypeOK'
  <2>1. CallsOK'
    BY <1>0, <1>2, JoinOK DEF JoinPending, Phases
  <2>2. QED BY <1>0, <1>2, <2>1 DEF JoinPending, CallsOK
<1>3. ASSUME NEW c \in Calls, NEW r \in Ids, RepeatDenial(c, r) PROVE TypeOK'
  <2>1. CallsOK'
    BY <1>0, <1>3, AnswerOK DEF RepeatDenial, States
  <2>2. QED BY <1>0, <1>3, <2>1 DEF RepeatDenial, CallsOK
<1>4. ASSUME NEW c \in Calls, NEW r \in Ids, FileRequest(c, r) PROVE TypeOK'
  <2>1. rows' \in [Ids -> Row]
    BY <1>0, <1>4, NewRows DEF FileRequest
  <2>2. CallsOK'
    BY <1>0, <1>4, JoinOK DEF FileRequest, Phases
  <2>3. QED BY <1>4, <2>1, <2>2 DEF FileRequest, CallsOK
<1>5. ASSUME NEW c \in Calls, SetApprovalFiling(c) PROVE TypeOK'
  <2>1. PICK route \in RouteFor(routing) \cup {DefaultRoute}, requester \in {people, {}},
             recorded \in BOOLEAN :
          rows' = [rows EXCEPT ![call[c].req] =
            [(IF recorded THEN FiledRow(rows[call[c].req], route, requester)
              ELSE rows[call[c].req]) EXCEPT !.mailed =
                IF route.group = NoGroup THEN Recipients
                ELSE routing.members[route.group] \cap Emails]]
    BY <1>5 DEF SetApprovalFiling
  <2> DEFINE r    == call[c].req
             mail == IF route.group = NoGroup THEN Recipients
                     ELSE routing.members[route.group] \cap Emails
             base == IF recorded THEN FiledRow(rows[r], route, requester) ELSE rows[r]
  <2>2. r \in Ids /\ routing \in Routing
    BY <1>5, ConstantsAssumption DEF SetApprovalFiling
  <2>3. base \in Row
    BY <2>2, RouteForType, FiledRowType
  <2>4. mail \in SUBSET Emails
    BY ConstantsAssumption
  <2>5. [base EXCEPT !.mailed = mail] \in Row
    <3> HIDE DEF base, mail
    <3>1. QED BY <2>3, <2>4 DEF Row
  <2>6. rows' = [rows EXCEPT ![r] = [base EXCEPT !.mailed = mail]]
    BY <2>1
  <2>7. rows' \in [Ids -> Row]
    <3> HIDE DEF base, mail
    <3>1. QED BY <2>2, <2>5, <2>6
  <2>8. CallsOK'
    BY <1>0, <1>5, PhaseOK DEF SetApprovalFiling, Phases
  <2>9. QED BY <1>5, <2>7, <2>8 DEF SetApprovalFiling, CallsOK
<1>6. ASSUME NEW c \in Calls, ConsumeApproval(c) PROVE TypeOK'
  <2> DEFINE r == call[c].req
  <2>1. r \in Ids
    BY <1>6 DEF ConsumeApproval
  <2>2. CASE rows[r].state = "approved" /\ rows[r].expires > now
    <3>1. [rows[r] EXCEPT !.state = "used"] \in Row
      BY <2>1, StateRow DEF States
    <3>2. rows' \in [Ids -> Row]
      BY <1>6, <2>2, <3>1 DEF ConsumeApproval
    <3>3. CallsOK'
      BY <1>0, <1>6, <2>1, <2>2, AnswerOK DEF ConsumeApproval, States
    <3>4. QED BY <1>6, <3>2, <3>3 DEF ConsumeApproval, CallsOK
  <2>3. CASE ~(rows[r].state = "approved" /\ rows[r].expires > now)
    <3>1. CallsOK'
      BY <1>0, <1>6, <2>3, PhaseOK DEF ConsumeApproval, Phases
    <3>2. QED BY <1>6, <2>3, <3>1 DEF ConsumeApproval, CallsOK
  <2>4. QED BY <2>2, <2>3
<1>7. ASSUME NEW c \in Calls, EndpointApproval(c) PROVE TypeOK'
  <2> DEFINE r   == call[c].req
             row == Expired(rows[r])
  <2>1. r \in Ids /\ row \in Row
    BY <1>7, ExpiredRow DEF EndpointApproval
  <2>2. rows' = [rows EXCEPT ![r] = row]
    BY <1>7 DEF EndpointApproval
  <2>3. rows' \in [Ids -> Row]
    <3> HIDE DEF row
    <3>1. QED BY <2>1, <2>2
  <2>4. CallsOK'
    <3>1. CASE row.state = "pending"
      BY <1>0, <1>7, <2>1, <3>1, JoinOK DEF EndpointApproval, Phases
    <3>2. CASE row.state \in States \ {"pending"}
      BY <1>0, <1>7, <2>1, <3>2, AnswerOK DEF EndpointApproval
    <3>3. CASE row.state = "none"
      <4>1. Answer(c, r, "none")
        BY <1>7, <3>3 DEF EndpointApproval
      <4>2. QED BY <1>0, <2>1, <4>1 DEF Answer, CallsOK, Call, Phases
    <3>4. QED BY <2>1, <3>1, <3>2, <3>3 DEF Row
  <2>5. QED BY <1>7, <2>3, <2>4 DEF EndpointApproval, CallsOK
<1>8. ASSUME NEW c \in Calls, WaitOver(c) PROVE TypeOK'
  <2>1. CallsOK'
    BY <1>0, <1>8, AnswerOK DEF WaitOver, States
  <2>2. QED BY <1>8, <2>1 DEF WaitOver, CallsOK
<1>9. ASSUME NEW c \in Calls, Deliver(c) PROVE TypeOK'
  <2>1. CallsOK'
    BY <1>0, <1>9, PhaseOK DEF Deliver, Phases
  <2>2. QED BY <1>9, <2>1 DEF Deliver, CallsOK
<1>10. ASSUME NEW c \in Calls, Abandon(c) PROVE TypeOK'
  <2>1. CallsOK'
    BY <1>0, <1>10, PhaseOK DEF Abandon, Phases
  <2>2. QED BY <1>10, <2>1 DEF Abandon, CallsOK
<1>11. ASSUME NEW v \in Voters, NEW r \in Ids, JudgeVote(v, r) PROVE TypeOK'
  <2>1. PICK approve \in BOOLEAN, ticket \in (IF Kind[v] = "console" THEN BOOLEAN ELSE {FALSE}) :
          ballot' = [ballot EXCEPT ![v] =
            [req |-> r, vote |-> [who |-> v, approve |-> approve, ticket |-> ticket, filed |-> rows[r].filed]]]
    BY <1>11 DEF JudgeVote
  <2>2. [req |-> r, vote |-> [who |-> v, approve |-> approve, ticket |-> ticket, filed |-> rows[r].filed]]
          \in Ballot
    BY DEF Ballot, Vote, Row
  <2>3. ballot' \in [Voters -> Ballot \cup {NoBallot}]
    BY <2>1, <2>2
  <2>4. QED BY <1>11, <2>3 DEF JudgeVote
<1>12. ASSUME NEW v \in Voters, VoteApproval(v) PROVE TypeOK'
  <2> DEFINE r == ballot[v].req
  <2>1. ballot[v] \in Ballot
    BY <1>12 DEF VoteApproval
  <2>2. Voted(rows[r], ballot[v].vote) \in Row
    BY <2>1, VotedRow DEF Ballot
  <2>3. \/ rows' = [rows EXCEPT ![r] = Voted(rows[r], ballot[v].vote)]
        \/ rows' = rows
    BY <1>12 DEF VoteApproval
  <2>4. rows' \in [Ids -> Row]
    BY <2>1, <2>2, <2>3 DEF Ballot
  <2>5. QED BY <1>12, <2>4 DEF VoteApproval
<1>13. ASSUME NEW v \in Voters, LoseBallot(v) PROVE TypeOK'
  BY <1>13 DEF LoseBallot
<1>14. ASSUME ListApprovals PROVE TypeOK'
  BY <1>0, <1>14 DEF ListApprovals
<1>15. ASSUME PutRouting PROVE TypeOK'
  BY <1>15 DEF PutRouting
<1>16. ASSUME MapPeople PROVE TypeOK'
  BY <1>16, ConstantsAssumption DEF MapPeople
<1>17. ASSUME Tick PROVE TypeOK'
  BY <1>17 DEF Tick
<1>18. CASE UNCHANGED vars
  BY <1>18 DEF vars
<1>19. QED
  BY <1>1, <1>2, <1>3, <1>4, <1>5, <1>6, <1>7, <1>8, <1>9, <1>10, <1>11, <1>12, <1>13,
     <1>14, <1>15, <1>16, <1>17, <1>18 DEF Next, Handler, Ask

\* Every state of the table, the handlers and the decisions in flight has its
\* type, and a handler past RequestApproval holds a request.
THEOREM TypeCorrect == Spec => []TypeOK
<1>1. QED BY TypeInit, TypeNext, PTL DEF Spec

-----------------------------------------------------------------------------
\* One open request, and denials that stand.

\* What the sweep leaves: an open row is one that was open and has not lapsed;
\* other rows keep everything but "open".
LEMMA SweptOpen ==
  ASSUME TypeOK, NEW r \in Ids
  PROVE  /\ Swept[r].expires = rows[r].expires /\ Swept[r].votes = rows[r].votes
         /\ Open(Swept[r]) => Swept[r] = rows[r] /\ Open(rows[r]) /\ rows[r].expires > now
         /\ Swept[r].state = "denied" => rows[r].state = "denied"
         /\ ~Open(rows[r]) => Swept[r] = rows[r]
  BY DEF TypeOK, Row, Swept, Expired, Open

\* The two facts together are inductive: a vote that denies a request leaves
\* nothing open only because that request was the only open one, and a request
\* is filed or kept alive only where no denial stands.
Exclusive == OneOpenRequest /\ DenialStands

\* A table whose rows keep their expiry and only leave "open" or "denied".
Quieter ==
  \A r \in Ids : /\ Open(rows[r])' => Open(rows[r])
                 /\ rows'[r].state = "denied" => rows[r].state = "denied"
                 /\ rows'[r].expires = rows[r].expires

LEMMA QuieterExclusive ==
  ASSUME TypeOK, TypeOK', Exclusive, Quieter, now' \in Nat, now' >= now
  PROVE  Exclusive'
<1>1. OneOpenRequest'
  BY DEF Exclusive, OneOpenRequest, Quieter
<1>2. ASSUME NEW r \in Ids, NEW q \in Ids, StandingDenial(r)', Open(rows[q])'
      PROVE  rows'[q].expires <= now'
  <2>1. rows'[r].state = "denied" /\ rows'[r].expires > now'
    BY <1>2 DEF StandingDenial
  <2>2. /\ rows[r].state = "denied" /\ Open(rows[q])
        /\ rows'[r].expires = rows[r].expires /\ rows'[q].expires = rows[q].expires
    BY <1>2, <2>1 DEF Quieter
  <2>3. rows[r].expires \in Nat /\ rows[q].expires \in Nat /\ now \in Nat
    BY DEF TypeOK, Row
  <2>4. StandingDenial(r)
    BY <2>1, <2>2, <2>3 DEF StandingDenial
  <2>5. rows[q].expires <= now
    BY <2>2, <2>4 DEF Exclusive, DenialStands
  <2>6. QED BY <2>2, <2>3, <2>5
<1>3. DenialStands'
  BY <1>2 DEF DenialStands
<1>4. QED BY <1>1, <1>3 DEF Exclusive

\* Recording how a request is decided changes neither its state nor its expiry
\* (SetApprovalFiling has no condition on either).
LEMMA FilingKeeps ==
  ASSUME TypeOK, NEW c \in Calls, SetApprovalFiling(c)
  PROVE  \A i \in Ids : /\ rows'[i].state = rows[i].state /\ rows'[i].expires = rows[i].expires
                       /\ rows'[i].decided = rows[i].decided
<1>1. PICK route \in RouteFor(routing) \cup {DefaultRoute}, requester \in {people, {}},
           recorded \in BOOLEAN :
        rows' = [rows EXCEPT ![call[c].req] =
          [(IF recorded THEN FiledRow(rows[call[c].req], route, requester)
            ELSE rows[call[c].req]) EXCEPT !.mailed =
              IF route.group = NoGroup THEN Recipients
              ELSE routing.members[route.group] \cap Emails]]
  BY DEF SetApprovalFiling
<1> DEFINE r    == call[c].req
           mail == IF route.group = NoGroup THEN Recipients
                   ELSE routing.members[route.group] \cap Emails
           base == IF recorded THEN FiledRow(rows[r], route, requester) ELSE rows[r]
<1>2. r \in Ids /\ rows[r] \in Row
  BY DEF SetApprovalFiling, TypeOK
<1>3. base.state = rows[r].state /\ base.expires = rows[r].expires /\ base.decided = rows[r].decided
  BY <1>2 DEF FiledRow, Row
<1>4. /\ [base EXCEPT !.mailed = mail].state = base.state /\ [base EXCEPT !.mailed = mail].expires = base.expires
      /\ [base EXCEPT !.mailed = mail].decided = base.decided
  <2>1. base \in Row
    BY <1>2, ConstantsAssumption, RouteForType, FiledRowType DEF TypeOK
  <2> HIDE DEF base, mail
  <2>2. QED BY <2>1 DEF Row
<1>5. rows' = [rows EXCEPT ![r] = [base EXCEPT !.mailed = mail]]
  BY <1>1
<1> HIDE DEF base, mail
<1>6. QED BY <1>2, <1>3, <1>4, <1>5 DEF TypeOK

LEMMA ExclusiveNext == TypeOK /\ TypeOK' /\ Exclusive /\ [Next]_vars => Exclusive'
<1> SUFFICES ASSUME TypeOK, TypeOK', Exclusive, [Next]_vars PROVE Exclusive'
  OBVIOUS
<1>0. now \in Nat /\ now' \in Nat
  BY DEF TypeOK
<1>1. ASSUME rows' = Swept, now' = now PROVE Quieter
  BY <1>1, SweptOpen DEF Quieter, Open
<1>2. ASSUME NEW r \in Ids, rows' = [Swept EXCEPT ![r].state = "used"], now' = now PROVE Quieter
  <2>1. ASSUME NEW i \in Ids, i # r PROVE rows'[i] = Swept[i]
    BY <1>2, <2>1, SweptRows DEF TypeOK
  <2>2. rows'[r].state = "used" /\ rows'[r].expires = Swept[r].expires
    BY <1>2, SweptRows DEF TypeOK, Row
  <2>3. QED BY <2>1, <2>2, SweptOpen DEF Quieter, Open
<1>3. ASSUME NEW c \in Calls, NEW r \in Ids, FileRequest(c, r) PROVE Exclusive'
  <2>1. \A i \in Ids : ~Open(Swept[i]) /\ ~StandingDenial(i)
    BY <1>3 DEF FileRequest
  <2>2. ASSUME NEW i \in Ids, i # r PROVE rows'[i] = Swept[i]
    BY <1>3, <2>2, SweptRows DEF FileRequest, TypeOK
  <2>3. rows'[r].state = "pending"
    BY <1>3, SweptRows DEF FileRequest, TypeOK, EmptyRow
  <2>4. ASSUME NEW i \in Ids, Open(rows[i])' PROVE i = r
    BY <2>1, <2>2, <2>4
  <2>5. ASSUME NEW i \in Ids PROVE ~StandingDenial(i)'
    <3>1. now' = now
      BY <1>3 DEF FileRequest
    <3>2. CASE i = r
      BY <2>3, <3>2 DEF StandingDenial
    <3>3. CASE i # r
      BY <2>1, <2>2, <3>1, <3>3, SweptOpen DEF StandingDenial
    <3>4. QED BY <3>2, <3>3
  <2>6. QED BY <2>4, <2>5 DEF Exclusive, OneOpenRequest, DenialStands
<1>4. ASSUME NEW c \in Calls, SetApprovalFiling(c) PROVE Quieter /\ now' = now
  BY <1>4, FilingKeeps DEF Quieter, Open, SetApprovalFiling
<1>5. ASSUME NEW c \in Calls, ConsumeApproval(c) PROVE Quieter /\ now' = now
  <2> DEFINE r == call[c].req
  <2>1. r \in Ids /\ rows[r] \in Row
    BY <1>5 DEF ConsumeApproval, TypeOK
  <2>2. CASE rows' = [rows EXCEPT ![r].state = "used"]
    BY <1>5, <2>1, <2>2 DEF Quieter, Open, TypeOK, Row, ConsumeApproval
  <2>3. CASE rows' = rows
    BY <1>5, <2>3 DEF Quieter, Open, ConsumeApproval
  <2>4. QED BY <1>5, <2>2, <2>3 DEF ConsumeApproval
<1>6. ASSUME NEW c \in Calls, EndpointApproval(c) PROVE Quieter /\ now' = now
  <2> DEFINE r == call[c].req
  <2>1. r \in Ids /\ Expired(rows[r]) = Swept[r]
    BY <1>6 DEF EndpointApproval, TypeOK, Swept
  <2>2. rows' = [rows EXCEPT ![r] = Swept[r]]
    BY <1>6, <2>1 DEF EndpointApproval
  <2>3. QED BY <1>6, <2>1, <2>2, SweptOpen DEF Quieter, Open, TypeOK, EndpointApproval
<1>7. ASSUME NEW v \in Voters, VoteApproval(v) PROVE Exclusive'
  <2> DEFINE r == ballot[v].req
  <2>1. ballot[v] \in Ballot /\ r \in Ids /\ rows[r] \in Row
    BY <1>7 DEF VoteApproval, TypeOK, Ballot
  <2>2. CASE rows' = rows
    BY <1>0, <1>7, <2>2, QuieterExclusive DEF Quieter, Open, VoteApproval
  <2>3. CASE /\ rows[r].state = "pending" /\ rows[r].expires > now
             /\ rows' = [rows EXCEPT ![r] = Voted(rows[r], ballot[v].vote)]
    <3>1. Open(rows[r])
      BY <2>3 DEF Open
    <3>2. \A i \in Ids : i # r => rows'[i] = rows[i] /\ ~Open(rows[i])
      BY <2>1, <2>3, <3>1 DEF Exclusive, OneOpenRequest, TypeOK
    <3>3. \A i \in Ids : ~StandingDenial(i)
      BY <2>1, <2>3, <3>1 DEF Exclusive, DenialStands, TypeOK, Row
    <3>4. now' = now
      BY <1>7 DEF VoteApproval
    <3>5. \A i \in Ids : StandingDenial(i)' => i = r
      BY <3>2, <3>3, <3>4 DEF StandingDenial
    <3>6. \A i \in Ids : Open(rows[i])' => i = r
      BY <3>2 DEF Open
    <3>7. ~(StandingDenial(r)' /\ Open(rows[r])')
      BY DEF StandingDenial, Open
    <3>8. OneOpenRequest'
      BY <3>6 DEF OneOpenRequest, Open
    <3>9. DenialStands'
      BY <3>5, <3>6, <3>7 DEF DenialStands, Open, StandingDenial
    <3>10. QED BY <3>8, <3>9 DEF Exclusive
  <2>4. QED BY <1>7, <2>2, <2>3 DEF VoteApproval
<1>8. ASSUME rows' = rows, now' >= now PROVE Quieter
  BY <1>8 DEF Quieter, Open
<1>9. now' = now => now' >= now
  BY <1>0
<1>10. CASE \E c \in Calls : Handler(c)
  BY <1>0, <1>1, <1>2, <1>3, <1>4, <1>5, <1>6, <1>8, <1>9, <1>10, QuieterExclusive
     DEF Handler, Ask, UseApproved, JoinPending, RepeatDenial, WaitOver, Deliver
<1>11. CASE \E v \in Voters : VoteApproval(v)
  BY <1>7, <1>11
<1>12. CASE ListApprovals
  BY <1>0, <1>1, <1>9, <1>12, QuieterExclusive DEF ListApprovals
<1>13. CASE Tick
  BY <1>0, <1>8, <1>13, QuieterExclusive DEF Tick
<1>14. CASE /\ UNCHANGED <<rows, now>>
  BY <1>0, <1>8, <1>9, <1>14, QuieterExclusive
<1>15. QED
  BY <1>10, <1>11, <1>12, <1>13, <1>14
     DEF Next, vars, Abandon, JudgeVote, LoseBallot, PutRouting, MapPeople

LEMMA ExclusiveInit == Init => Exclusive
  BY DEF Init, Exclusive, OneOpenRequest, DenialStands, StandingDenial, Open, EmptyRow

\* Two calls that arrive together, or a retry, never have two requests open.
THEOREM OneOpen == Spec => []OneOpenRequest
<1>1. TypeOK /\ Exclusive /\ [Next]_vars => (TypeOK /\ Exclusive)'
  BY TypeNext, ExclusiveNext
<1>2. Init => TypeOK /\ Exclusive
  BY TypeInit, ExclusiveInit
<1>3. TypeOK /\ Exclusive => OneOpenRequest
  BY DEF Exclusive
<1>4. QED BY <1>1, <1>2, <1>3, PTL DEF Spec

\* No request can be decided beside a denial that stands.
THEOREM DenialsStand == Spec => []DenialStands
<1>1. TypeOK /\ Exclusive /\ [Next]_vars => (TypeOK /\ Exclusive)'
  BY TypeNext, ExclusiveNext
<1>2. Init => TypeOK /\ Exclusive
  BY TypeInit, ExclusiveInit
<1>3. TypeOK /\ Exclusive => DenialStands
  BY DEF Exclusive
<1>4. QED BY <1>1, <1>2, <1>3, PTL DEF Spec

-----------------------------------------------------------------------------
\* What a call runs on, and who decided it: the inductive invariant.

\* The votes of a request decide its state: no denial in a pending or approved
\* one, an approval in an approved one.
RowDecided(row) ==
  /\ row.state \in {"none", "pending", "approved", "used"} => Deniers(row) = {}
  /\ row.state \in {"approved", "used"} => Approvers(row) # {}
  /\ row.state = "none" => row.votes = {}
VotesDecide == \A r \in Ids : RowDecided(rows[r])

\* An answer that lets the call run rests on a request that is decided for good:
\* its votes are the ones it was approved with, even once it has expired.
Go(k) == k.phase = "ran" \/ (k.phase = "answered" /\ k.seen \in {"approved", "used"})
Approved(row) ==
  row.state \in {"approved", "used", "expired"} /\ Approvers(row) # {} /\ Deniers(row) = {}
GoApproved == \A c \in Calls : Go(call[c]) => Approved(rows[call[c].req])

\* Only one handler records how a request is decided, and only once.
FiledOnce ==
  /\ \A c \in Calls : call[c].phase = "filing" =>
       ~rows[call[c].req].filed /\ rows[call[c].req].state # "none"
  /\ \A c, d \in Calls :
       call[c].phase = "filing" /\ call[d].phase = "filing" /\ call[c].req = call[d].req => c = d

\* What castVote judged of an approval, by the rules on record.
Judged(row, x) ==
  x.approve => /\ Kind[x.who] # "apikey"
               /\ row.exclude => IdentsOf[x.who] \cap row.requester = {}
               /\ row.ticket => x.ticket

BallotsJudged ==
  \A v \in Voters : ballot[v] # NoBallot =>
    LET row == rows[ballot[v].req]
        x   == ballot[v].vote
    IN  /\ row.state # "none" /\ x.who = v
        /\ x.filed => row.filed /\ Judged(row, x)

\* The votes of a request are of different people, judged under its rules when
\* those were on record, and as many as its rules ask for once it is approved.
RowVotes(row) ==
  /\ IsFiniteSet(row.votes)
  /\ \A x, y \in row.votes : x # y => ~SamePerson(x.who, y.who)
  /\ \A x \in row.votes : x.filed => row.filed /\ Judged(row, x)
  /\ row.state \in {"approved", "used"} /\ (\A x \in row.votes : x.filed) =>
       Cardinality({x \in row.votes : x.approve}) >= row.required
VotesCount == \A r \in Ids : RowVotes(rows[r])

VotingInv == VotesDecide /\ GoApproved /\ FiledOnce /\ BallotsJudged /\ VotesCount

\* A row that keeps its votes and rules, and expires or is consumed at most.
Keeps(a, b) ==
  /\ b.votes = a.votes /\ b.filed = a.filed /\ b.required = a.required
  /\ b.exclude = a.exclude /\ b.ticket = a.ticket /\ b.requester = a.requester
  /\ \/ b.state = a.state
     \/ Open(a) /\ b.state = "expired"
     \/ a.state = "approved" /\ b.state = "used"
TableKeeps == \A r \in Ids : Keeps(rows[r], rows'[r])

LEMMA KeepsRow ==
  ASSUME NEW a \in Row, NEW b \in Row, Keeps(a, b)
  PROVE  /\ RowDecided(a) => RowDecided(b)
         /\ RowVotes(a) => RowVotes(b)
         /\ Approved(a) => Approved(b)
         /\ a.state = "none" <=> b.state = "none"
         /\ \A x : Judged(a, x) <=> Judged(b, x)
<1>1. Approvers(a) = Approvers(b) /\ Deniers(a) = Deniers(b)
  BY DEF Keeps, Approvers, Deniers
<1>2. a.state = "none" <=> b.state = "none"
  BY DEF Keeps, Open
<1>3. \A x : Judged(a, x) <=> Judged(b, x)
  BY DEF Keeps, Judged
<1>4. RowDecided(a) => RowDecided(b)
  BY <1>1 DEF Keeps, Open, RowDecided
<1>5. b.state \in {"approved", "used"} => a.state \in {"approved", "used"}
  BY DEF Keeps, Open
<1>6. RowVotes(a) => RowVotes(b)
  BY <1>3, <1>5 DEF Keeps, RowVotes
<1>7. Approved(a) => Approved(b)
  BY <1>1 DEF Keeps, Open, Approved
<1>8. QED BY <1>2, <1>3, <1>4, <1>6, <1>7

\* The expiry sweep, alone or with a request consumed, keeps every row so.
LEMMA SweptKeeps ==
  ASSUME rows \in [Ids -> Row], NEW r \in Ids
  PROVE  Keeps(rows[r], rows[r]) /\ Keeps(rows[r], Swept[r])
<1>1. rows[r] \in Row
  OBVIOUS
<1>2. Keeps(rows[r], rows[r])
  BY DEF Keeps
<1>3. Swept[r] = rows[r] \/ (Open(rows[r]) /\ Swept[r] = [rows[r] EXCEPT !.state = "expired"])
  BY DEF Swept, Expired
<1>4. QED BY <1>1, <1>2, <1>3 DEF Keeps, Row

LEMMA UsedKeeps ==
  ASSUME NEW row \in Row, row.state = "approved"
  PROVE  Keeps(row, [row EXCEPT !.state = "used"])
  BY DEF Keeps, Row

\* Calls that change while the table keeps its votes and rules.
LEMMA CallStep ==
  ASSUME TypeOK, TypeOK', VotingInv, TableKeeps, NEW c \in Calls, NEW k,
         call' = [call EXCEPT ![c] = k], k.phase # "filing",
         Go(k) => Approved(rows'[k.req])
  PROVE  GoApproved' /\ FiledOnce'
<1>1. call'[c] = k /\ \A d \in Calls \ {c} : call'[d] = call[d]
  BY DEF TypeOK
<1>2. \A d \in Calls : Go(call[d]) \/ call[d].phase = "filing" => call[d].req \in Ids
  BY DEF TypeOK, Go
<1>3. \A d \in Calls \ {c} : Go(call[d]) => Approved(rows'[call[d].req])
  BY <1>2, KeepsRow DEF VotingInv, GoApproved, TableKeeps, TypeOK
<1>4. GoApproved'
  BY <1>1, <1>3 DEF GoApproved, Go, Approved, Approvers, Deniers
<1>5. \A d \in Calls \ {c} : call[d].phase = "filing" =>
        ~rows'[call[d].req].filed /\ rows'[call[d].req].state # "none"
  BY <1>2, KeepsRow DEF VotingInv, FiledOnce, TableKeeps, Keeps, TypeOK
<1>6. FiledOnce'
  BY <1>1, <1>5 DEF VotingInv, FiledOnce
<1>7. QED BY <1>4, <1>6

LEMMA SameCalls ==
  ASSUME TypeOK, TypeOK', VotingInv, TableKeeps, call' = call
  PROVE  GoApproved' /\ FiledOnce'
<1>1. \A d \in Calls : Go(call[d]) \/ call[d].phase = "filing" => call[d].req \in Ids
  BY DEF TypeOK, Go
<1>2. \A d \in Calls : Go(call[d]) => Approved(rows'[call[d].req])
  BY <1>1, KeepsRow DEF VotingInv, GoApproved, TableKeeps, TypeOK
<1>3. GoApproved'
  BY <1>2 DEF GoApproved, Go, Approved, Approvers, Deniers
<1>4. \A d \in Calls : call[d].phase = "filing" =>
        ~rows'[call[d].req].filed /\ rows'[call[d].req].state # "none"
  BY <1>1, KeepsRow DEF VotingInv, FiledOnce, TableKeeps, Keeps, TypeOK
<1>5. FiledOnce'
  BY <1>4 DEF VotingInv, FiledOnce
<1>6. QED BY <1>3, <1>5

\* Votes on the table stay votes that count; those in flight stay judged.
LEMMA RowsStep ==
  ASSUME TypeOK, TypeOK', VotingInv, TableKeeps
  PROVE  VotesDecide' /\ VotesCount'
<1>1. \A r \in Ids : rows[r] \in Row /\ rows'[r] \in Row
  BY DEF TypeOK
<1>2. \A r \in Ids : RowDecided(rows'[r]) /\ RowVotes(rows'[r])
  BY <1>1, KeepsRow DEF VotingInv, VotesDecide, VotesCount, TableKeeps
<1>3. QED
  BY <1>2 DEF VotesDecide, VotesCount, RowDecided, RowVotes, Approvers, Deniers, Judged, SamePerson

\* (In the primed state, what a row satisfies is a fact about the row alone.)
LEMMA BallotStep ==
  ASSUME TypeOK, TypeOK', VotingInv, TableKeeps,
         \A v \in Voters : ballot'[v] \in {ballot[v], NoBallot}
  PROVE  BallotsJudged'
<1>1. ASSUME NEW v \in Voters, ballot'[v] # NoBallot
      PROVE  /\ rows'[ballot'[v].req].state # "none" /\ ballot'[v].vote.who = v
             /\ ballot'[v].vote.filed => /\ rows'[ballot'[v].req].filed
                                         /\ Judged(rows'[ballot'[v].req], ballot'[v].vote)
  <2>1. ballot'[v] = ballot[v] /\ ballot[v] # NoBallot /\ ballot[v].req \in Ids
    BY <1>1 DEF TypeOK, Ballot
  <2>2. /\ rows[ballot[v].req] \in Row /\ rows'[ballot[v].req] \in Row
        /\ Keeps(rows[ballot[v].req], rows'[ballot[v].req])
    BY <2>1 DEF TypeOK, TableKeeps
  <2>3. QED BY <2>1, <2>2, KeepsRow DEF VotingInv, BallotsJudged, Keeps
<1>2. QED BY <1>1 DEF BallotsJudged, Judged

LEMMA QuietStep ==
  ASSUME TypeOK, TypeOK', VotingInv, TableKeeps, GoApproved', FiledOnce',
         \A v \in Voters : ballot'[v] \in {ballot[v], NoBallot}
  PROVE  VotingInv'
  BY RowsStep, BallotStep DEF VotingInv

LEMMA DecidedGo ==
  ASSUME NEW row, RowDecided(row), row.state \in {"approved", "used"}
  PROVE  Approved(row)
  BY DEF RowDecided, Approved

\* The handler, past filing: whatever it answers, a go rests on an approved request.
LEMMA VotingHandler ==
  ASSUME TypeOK, TypeOK', VotingInv, NEW c \in Calls,
         \/ \E r \in Ids : UseApproved(c, r) \/ JoinPending(c, r) \/ RepeatDenial(c, r)
         \/ ConsumeApproval(c) \/ EndpointApproval(c) \/ WaitOver(c) \/ Deliver(c) \/ Abandon(c)
  PROVE  VotingInv'
<1>0. /\ rows \in [Ids -> Row] /\ Swept \in [Ids -> Row] /\ call \in [Calls -> Call]
      /\ \A r \in Ids : Keeps(rows[r], rows[r]) /\ Keeps(rows[r], Swept[r])
  BY SweptRows, SweptKeeps DEF TypeOK
<1>1. ASSUME NEW k, call' = [call EXCEPT ![c] = k], k.phase # "filing", ballot' = ballot, TableKeeps,
             \/ ~Go(k)
             \/ k.req \in Ids /\ rows'[k.req].state \in {"approved", "used"}
             \/ Go(call[c]) /\ k.req = call[c].req
      PROVE  VotingInv'
  <2>1. \A r \in Ids : RowDecided(rows'[r])
    BY <1>0, <1>1, KeepsRow DEF VotingInv, VotesDecide, TableKeeps, TypeOK
  <2>2. CASE Go(call[c]) /\ k.req = call[c].req
    <3>1. k.req \in Ids
      BY <2>2 DEF TypeOK, Go
    <3>2. Approved(rows'[k.req])
      BY <1>0, <1>1, <2>2, <3>1, KeepsRow DEF VotingInv, GoApproved, TableKeeps, TypeOK
    <3>3. QED BY <1>1, <3>2, CallStep, QuietStep
  <2>3. CASE Go(k) => Approved(rows'[k.req])
    BY <1>1, <2>3, CallStep, QuietStep
  <2>4. QED BY <1>1, <2>1, <2>2, <2>3, DecidedGo
<1>2. ASSUME NEW r \in Ids, UseApproved(c, r) PROVE VotingInv'
  <2> DEFINE k == [phase |-> "answered", req |-> r, seen |-> "used"]
  <2>1. Swept[r].state = "approved" /\ rows' = [Swept EXCEPT ![r].state = "used"]
    BY <1>2 DEF UseApproved
  <2>2. Swept[r] = rows[r]
    BY <2>1, SweptOpen DEF Open
  <2>3. rows'[r] = [rows[r] EXCEPT !.state = "used"] /\ \A i \in Ids \ {r} : rows'[i] = Swept[i]
    BY <1>0, <2>1, <2>2
  <2>4. TableKeeps
    <3>1. Keeps(rows[r], rows'[r])
      BY <1>0, <2>1, <2>2, <2>3, UsedKeeps
    <3>2. QED BY <1>0, <2>3, <3>1 DEF TableKeeps
  <2>5. rows'[r].state = "used"
    BY <1>0, <2>3 DEF Row
  <2>6. call' = [call EXCEPT ![c] = k] /\ ballot' = ballot
    BY <1>2 DEF UseApproved, Answer
  <2>7. k.phase # "filing" /\ k.req = r
    OBVIOUS
  <2> HIDE DEF k
  <2>8. QED BY <1>1, <2>4, <2>5, <2>6, <2>7
<1>3. ASSUME NEW r \in Ids, JoinPending(c, r) \/ RepeatDenial(c, r) PROVE VotingInv'
  <2>1. TableKeeps /\ ballot' = ballot
    BY <1>0, <1>3 DEF JoinPending, RepeatDenial, TableKeeps
  <2>2. PICK k : call' = [call EXCEPT ![c] = k] /\ k.phase # "filing" /\ ~Go(k)
    BY <1>3 DEF JoinPending, RepeatDenial, Join, Answer, Go
  <2>3. QED BY <1>1, <2>1, <2>2
<1>4. CASE ConsumeApproval(c)
  <2> DEFINE r == call[c].req
  <2>1. r \in Ids /\ ballot' = ballot
    BY <1>4 DEF ConsumeApproval, TypeOK
  <2>2. CASE rows[r].state = "approved" /\ rows[r].expires > now
    <3> DEFINE k == [phase |-> "answered", req |-> r, seen |-> "used"]
    <3>1. rows' = [rows EXCEPT ![r].state = "used"] /\ call' = [call EXCEPT ![c] = k]
      BY <1>4, <2>2 DEF ConsumeApproval, Answer
    <3>2. rows'[r] = [rows[r] EXCEPT !.state = "used"] /\ \A i \in Ids \ {r} : rows'[i] = rows[i]
      BY <1>0, <2>1, <3>1
    <3>3. Keeps(rows[r], rows'[r])
      BY <1>0, <2>1, <2>2, <3>2, UsedKeeps
    <3>4. TableKeeps /\ rows'[r].state = "used"
      BY <1>0, <2>1, <3>2, <3>3 DEF TableKeeps, Row
    <3>5. k.phase # "filing" /\ k.req = r
      OBVIOUS
    <3> HIDE DEF k
    <3>6. QED BY <1>1, <2>1, <3>1, <3>4, <3>5
  <2>3. CASE ~(rows[r].state = "approved" /\ rows[r].expires > now)
    <3> DEFINE k == [call[c] EXCEPT !.phase = "checking"]
    <3>1. call' = [call EXCEPT ![c] = k] /\ rows' = rows
      BY <1>4, <2>3 DEF ConsumeApproval
    <3>2. k.phase = "checking" /\ TableKeeps
      BY <1>0, <3>1 DEF Call, TableKeeps
    <3> HIDE DEF k
    <3>3. QED BY <1>1, <2>1, <3>1, <3>2 DEF Go
  <2>4. QED BY <2>2, <2>3
<1>5. CASE EndpointApproval(c)
  <2> DEFINE r == call[c].req
  <2>1. r \in Ids /\ ballot' = ballot /\ rows' = [rows EXCEPT ![r] = Swept[r]]
    BY <1>5 DEF EndpointApproval, TypeOK, Swept
  <2>2. TableKeeps /\ rows'[r] = Swept[r]
    BY <1>0, <2>1 DEF TableKeeps
  <2> DEFINE k == [phase |-> IF Swept[r].state = "pending" THEN "waiting" ELSE "answered",
                   req |-> r, seen |-> Swept[r].state]
  <2>3. Swept[r] = Expired(rows[r])
    BY <2>1 DEF Swept
  <2>4. call' = [call EXCEPT ![c] = k]
    BY <1>5, <2>3 DEF EndpointApproval, Join, Answer
  <2>5. k.req = r /\ k.phase \in {"waiting", "answered"} /\ k.seen = Swept[r].state
    OBVIOUS
  <2> HIDE DEF k
  <2>6. QED BY <1>1, <2>1, <2>2, <2>4, <2>5 DEF Go
<1>6. CASE WaitOver(c)
  <2> DEFINE k == [phase |-> "answered", req |-> call[c].req, seen |-> "pending"]
  <2>1. call' = [call EXCEPT ![c] = k] /\ ballot' = ballot
    BY <1>6 DEF WaitOver, Answer
  <2>2. TableKeeps
    BY <1>0, <1>6 DEF WaitOver, TableKeeps
  <2>3. k.phase # "filing" /\ ~Go(k)
    BY DEF Go
  <2> HIDE DEF k
  <2>4. QED BY <1>1, <2>1, <2>2, <2>3
<1>7. CASE Deliver(c)
  <2>1. PICK phase \in {"ran", "blocked"} :
          /\ call' = [call EXCEPT ![c].phase = phase]
          /\ phase = "ran" => RespState(call[c].seen) = "approved"
    BY <1>7 DEF Deliver
  <2> DEFINE k == [call[c] EXCEPT !.phase = phase]
  <2>2. call' = [call EXCEPT ![c] = k] /\ ballot' = ballot /\ call[c].phase = "answered"
    BY <1>7, <2>1 DEF Deliver
  <2>3. TableKeeps
    BY <1>0, <1>7 DEF Deliver, TableKeeps
  <2>4. k.req = call[c].req /\ k.phase = phase
    BY <1>0 DEF Call
  <2>5. k.phase = "ran" => Go(call[c])
    BY <2>1, <2>2, <2>4 DEF RespState, Go
  <2> HIDE DEF k
  <2>6. QED BY <1>1, <2>2, <2>3, <2>4, <2>5 DEF Go
<1>8. CASE Abandon(c)
  <2> DEFINE k == [call[c] EXCEPT !.phase = "blocked"]
  <2>1. call' = [call EXCEPT ![c] = k] /\ ballot' = ballot
    BY <1>8 DEF Abandon
  <2>2. TableKeeps
    BY <1>0, <1>8 DEF Abandon, TableKeeps
  <2>3. k.phase = "blocked"
    BY <1>0 DEF Call
  <2> HIDE DEF k
  <2>4. QED BY <1>1, <2>1, <2>2, <2>3 DEF Go
<1>9. QED BY <1>2, <1>3, <1>4, <1>5, <1>6, <1>7, <1>8

\* A new request has no votes; the handler that filed it is the only one that
\* still has to record its rules.
LEMMA VotingFile ==
  ASSUME TypeOK, TypeOK', VotingInv, NEW c \in Calls, NEW r \in Ids, FileRequest(c, r)
  PROVE  VotingInv'
<1> DEFINE fresh == [EmptyRow EXCEPT !.state = "pending", !.expires = now + TTL]
           k == [phase |-> "filing", req |-> r, seen |-> "pending"]
<1>0. /\ rows \in [Ids -> Row] /\ Swept \in [Ids -> Row] /\ call \in [Calls -> Call]
      /\ \A i \in Ids : Keeps(rows[i], Swept[i])
  BY SweptRows, SweptKeeps DEF TypeOK
<1>1. /\ rows' = [Swept EXCEPT ![r] = fresh] /\ rows[r].state = "none"
      /\ call' = [call EXCEPT ![c] = k] /\ ballot' = ballot
  BY DEF FileRequest, Join
<1>2. fresh.state = "pending" /\ fresh.votes = {} /\ ~fresh.filed
  BY DEF EmptyRow
<1>3. k.phase = "filing" /\ k.req = r /\ ~Go(k)
  BY DEF Go
<1> HIDE DEF fresh, k
<1>4. /\ rows'[r] = fresh /\ \A i \in Ids \ {r} : rows'[i] = Swept[i]
      /\ call'[c] = k /\ \A d \in Calls \ {c} : call'[d] = call[d]
  BY <1>0, <1>1
<1>5. \A i \in Ids : RowDecided(rows[i]) /\ RowVotes(rows[i])
  BY DEF VotingInv, VotesDecide, VotesCount
<1>6. \A i \in Ids : RowDecided(rows'[i]) /\ RowVotes(rows'[i])
  <2>1. RowDecided(fresh) /\ RowVotes(fresh)
    BY <1>2, FS_EmptySet DEF RowDecided, RowVotes, Deniers
  <2>2. QED BY <1>0, <1>4, <1>5, <2>1, KeepsRow
<1>7. VotesDecide' /\ VotesCount'
  BY <1>6 DEF VotesDecide, VotesCount, RowDecided, RowVotes, Approvers, Deniers, Judged, SamePerson
<1>8. \A d \in Calls : Go(call[d]) \/ call[d].phase = "filing" => call[d].req \in Ids
  BY DEF TypeOK, Go
<1>9. GoApproved'
  <2>1. ASSUME NEW d \in Calls, Go(call'[d]) PROVE Approved(rows'[call'[d].req])
    <3>1. d # c /\ Go(call[d]) /\ call'[d] = call[d] /\ call[d].req \in Ids
      BY <1>3, <1>4, <1>8, <2>1
    <3>2. Approved(rows[call[d].req])
      BY <3>1 DEF VotingInv, GoApproved
    <3>3. call[d].req # r
      BY <1>1, <3>2 DEF Approved
    <3>4. QED BY <1>0, <1>4, <3>1, <3>2, <3>3, KeepsRow
  <2>2. QED BY <2>1 DEF GoApproved, Go, Approved, Approvers, Deniers
<1>10. FiledOnce'
  <2>1. ASSUME NEW d \in Calls \ {c}, call[d].phase = "filing"
        PROVE  /\ call[d].req \in Ids \ {r}
               /\ ~rows'[call[d].req].filed /\ rows'[call[d].req].state # "none"
    <3>1. call[d].req \in Ids /\ ~rows[call[d].req].filed /\ rows[call[d].req].state # "none"
      BY <1>8, <2>1 DEF VotingInv, FiledOnce
    <3>2. QED BY <1>0, <1>1, <1>4, <3>1, KeepsRow DEF Keeps
  <2>2. QED BY <1>2, <1>3, <1>4, <2>1 DEF VotingInv, FiledOnce
<1>11. BallotsJudged'
  <2>1. ASSUME NEW v \in Voters, ballot[v] # NoBallot
        PROVE  /\ rows'[ballot[v].req].state # "none" /\ ballot[v].vote.who = v
               /\ ballot[v].vote.filed => /\ rows'[ballot[v].req].filed
                                          /\ Judged(rows'[ballot[v].req], ballot[v].vote)
    <3>1. ballot[v].req \in Ids \ {r}
      BY <1>1, <2>1 DEF TypeOK, Ballot, VotingInv, BallotsJudged
    <3>2. QED BY <1>0, <1>4, <2>1, <3>1, KeepsRow DEF VotingInv, BallotsJudged, Keeps
  <2>2. QED BY <1>1, <2>1 DEF BallotsJudged, Judged
<1>12. QED BY <1>7, <1>9, <1>10, <1>11 DEF VotingInv

\* What the rest of the invariant needs of a step that writes one row r.
LEMMA OneRowStep ==
  ASSUME TypeOK, TypeOK', VotingInv, NEW r \in Ids, NEW row,
         rows' = [rows EXCEPT ![r] = row], RowDecided(row), RowVotes(row),
         rows[r].state # "none", row.state # "none",
         Approved(rows[r]) => Approved(row)
  PROVE  /\ VotesDecide' /\ VotesCount'
         /\ \A i \in Ids : Approved(rows[i]) => Approved(rows'[i])
         /\ \A i \in Ids : rows[i].state # "none" => rows'[i].state # "none"
         /\ \A i \in Ids \ {r} : rows'[i] = rows[i]
         /\ rows'[r] = row
<1>1. rows'[r] = row /\ \A i \in Ids \ {r} : rows'[i] = rows[i]
  BY DEF TypeOK
<1>2. \A i \in Ids : RowDecided(rows'[i]) /\ RowVotes(rows'[i])
  BY <1>1 DEF VotingInv, VotesDecide, VotesCount
<1>3. VotesDecide' /\ VotesCount'
  BY <1>2 DEF VotesDecide, VotesCount, RowDecided, RowVotes, Approvers, Deniers, Judged, SamePerson
<1>4. QED BY <1>1, <1>3

\* SetApprovalFiling writes the rules of a request none of whose votes were
\* judged by rules on record.
LEMMA VotingFiling ==
  ASSUME TypeOK, TypeOK', VotingInv, NEW c \in Calls, SetApprovalFiling(c)
  PROVE  VotingInv'
<1>1. PICK route \in RouteFor(routing) \cup {DefaultRoute}, requester \in {people, {}},
           recorded \in BOOLEAN :
        rows' = [rows EXCEPT ![call[c].req] =
          [(IF recorded THEN FiledRow(rows[call[c].req], route, requester)
            ELSE rows[call[c].req]) EXCEPT !.mailed =
              IF route.group = NoGroup THEN Recipients
              ELSE routing.members[route.group] \cap Emails]]
  BY DEF SetApprovalFiling
<1> DEFINE r    == call[c].req
           mail == IF route.group = NoGroup THEN Recipients
                   ELSE routing.members[route.group] \cap Emails
           base == IF recorded THEN FiledRow(rows[r], route, requester) ELSE rows[r]
           row  == [base EXCEPT !.mailed = mail]
           k    == [call[c] EXCEPT !.phase = "waiting"]
<1>2. /\ r \in Ids /\ rows[r] \in Row /\ call \in [Calls -> Call]
      /\ call[c].phase = "filing" /\ call' = [call EXCEPT ![c] = k] /\ ballot' = ballot
  BY DEF SetApprovalFiling, TypeOK
<1>3. ~rows[r].filed /\ rows[r].state # "none" /\ RowDecided(rows[r]) /\ RowVotes(rows[r])
  BY <1>2 DEF VotingInv, FiledOnce, VotesDecide, VotesCount
<1>4. base \in Row
  BY <1>2, ConstantsAssumption, RouteForType, FiledRowType DEF TypeOK
<1>5. base.state = rows[r].state /\ base.votes = rows[r].votes /\ (~recorded => base = rows[r])
  BY <1>2 DEF FiledRow, Row
<1>6. rows' = [rows EXCEPT ![r] = row]
  BY <1>1
<1>7. k.phase = "waiting"
  BY <1>2 DEF Call
<1> HIDE DEF base, mail, k
<1>8. /\ row.state = base.state /\ row.votes = base.votes /\ row.filed = base.filed
      /\ row.required = base.required
  BY <1>4 DEF Row
<1> HIDE DEF row
<1>9. \A x \in rows[r].votes : ~x.filed
  BY <1>3 DEF RowVotes
<1>10. Approvers(row) = Approvers(rows[r]) /\ Deniers(row) = Deniers(rows[r])
  BY <1>5, <1>8 DEF Approvers, Deniers
<1>11. RowDecided(row) /\ (Approved(rows[r]) => Approved(row))
  BY <1>3, <1>5, <1>8, <1>10 DEF RowDecided, Approved
<1>12. RowVotes(row)
  <2>1. row.state \in {"approved", "used"} => \E x \in row.votes : ~x.filed
    <3>1. row.state \in {"approved", "used"} => Approvers(rows[r]) # {}
      BY <1>3, <1>5, <1>8 DEF RowDecided
    <3>2. QED BY <1>5, <1>8, <1>9, <3>1 DEF Approvers
  <2>2. QED BY <1>3, <1>5, <1>8, <1>9, <2>1 DEF RowVotes
<1>13. /\ VotesDecide' /\ VotesCount'
       /\ \A i \in Ids : Approved(rows[i]) => Approved(rows'[i])
       /\ \A i \in Ids : rows[i].state # "none" => rows'[i].state # "none"
       /\ \A i \in Ids \ {r} : rows'[i] = rows[i]
       /\ rows'[r] = row
  BY <1>2, <1>3, <1>5, <1>6, <1>8, <1>11, <1>12, OneRowStep
<1>14. call'[c] = k /\ \A d \in Calls \ {c} : call'[d] = call[d]
  BY <1>2
<1>15. \A d \in Calls : Go(call[d]) \/ call[d].phase = "filing" => call[d].req \in Ids
  BY DEF TypeOK, Go
<1>16. GoApproved'
  <2>1. ASSUME NEW d \in Calls, Go(call'[d]) PROVE Approved(rows'[call'[d].req])
    <3>1. d # c
      BY <1>7, <1>14, <2>1 DEF Go
    <3>2. QED BY <1>13, <1>14, <1>15, <2>1, <3>1 DEF VotingInv, GoApproved
  <2>2. QED BY <2>1 DEF GoApproved, Go, Approved, Approvers, Deniers
<1>17. FiledOnce'
  <2>1. \A d \in Calls \ {c} : call[d].phase = "filing" => call[d].req \in Ids \ {r}
    BY <1>2, <1>15 DEF VotingInv, FiledOnce
  <2>2. QED BY <1>7, <1>13, <1>14, <2>1 DEF VotingInv, FiledOnce
<1>18. BallotsJudged'
  <2>1. ASSUME NEW v \in Voters, ballot[v] # NoBallot
        PROVE  /\ rows'[ballot[v].req].state # "none" /\ ballot[v].vote.who = v
               /\ ballot[v].vote.filed => /\ rows'[ballot[v].req].filed
                                          /\ Judged(rows'[ballot[v].req], ballot[v].vote)
    <3>1. ballot[v].req \in Ids
      BY <2>1 DEF TypeOK, Ballot
    <3>2. ballot[v].vote.filed => ballot[v].req # r
      BY <1>3, <2>1 DEF VotingInv, BallotsJudged
    <3>3. QED BY <1>13, <2>1, <3>1, <3>2 DEF VotingInv, BallotsJudged
  <2>2. QED BY <1>2, <2>1 DEF BallotsJudged, Judged
<1>19. QED BY <1>13, <1>16, <1>17, <1>18 DEF VotingInv

\* castVote: an approval it lets through is judged by the rules it read.
LEMMA VotingJudge ==
  ASSUME TypeOK, TypeOK', VotingInv, NEW v \in Voters, NEW r \in Ids, JudgeVote(v, r)
  PROVE  VotingInv'
<1>1. rows' = rows /\ call' = call /\ rows[r].state = "pending" /\ rows[r] \in Row
  BY DEF JudgeVote, TypeOK
<1>2. TableKeeps
  BY <1>1, SweptKeeps DEF TableKeeps, TypeOK
<1>3. PICK approve \in BOOLEAN, ticket \in BOOLEAN, resolved \in {people, {}} :
        /\ approve => MayApprove(v, rows[r], rows[r].requester \cup
                                 (IF rows[r].exclude THEN resolved ELSE {}), ticket)
        /\ ballot' = [ballot EXCEPT ![v] =
             [req |-> r, vote |-> [who |-> v, approve |-> approve, ticket |-> ticket, filed |-> rows[r].filed]]]
  BY DEF JudgeVote
<1> DEFINE x == [who |-> v, approve |-> approve, ticket |-> ticket, filed |-> rows[r].filed]
           b == [req |-> r, vote |-> x]
<1>4. Judged(rows[r], x)
  BY <1>3 DEF Judged, MayApprove
<1>5. x.who = v /\ x.filed = rows[r].filed /\ b.req = r /\ b.vote = x
  OBVIOUS
<1>6. ballot' = [ballot EXCEPT ![v] = b]
  BY <1>3
<1> HIDE DEF x, b
<1>7. ballot'[v] = b /\ \A w \in Voters \ {v} : ballot'[w] = ballot[w]
  BY <1>6 DEF TypeOK
<1>8. BallotsJudged'
  <2>1. ASSUME NEW w \in Voters, ballot'[w] # NoBallot
        PROVE  /\ rows[ballot'[w].req].state # "none" /\ ballot'[w].vote.who = w
               /\ ballot'[w].vote.filed => /\ rows[ballot'[w].req].filed
                                           /\ Judged(rows[ballot'[w].req], ballot'[w].vote)
    BY <1>1, <1>4, <1>5, <1>7, <2>1 DEF VotingInv, BallotsJudged
  <2>2. QED BY <1>1, <2>1 DEF BallotsJudged, Judged
<1>9. QED BY <1>1, <1>2, <1>8, RowsStep, SameCalls DEF VotingInv

\* A vote the transaction accepts: a person who has not voted on the request.
LEMMA VotedVotes ==
  ASSUME NEW row \in Row, NEW vote \in Vote, now \in Nat, row.state = "pending",
         RowDecided(row), RowVotes(row), \A x \in row.votes : ~SamePerson(x.who, vote.who),
         vote.filed => row.filed /\ Judged(row, vote)
  PROVE  /\ RowDecided(Voted(row, vote)) /\ RowVotes(Voted(row, vote))
         /\ Voted(row, vote).state # "none" /\ Voted(row, vote).filed = row.filed
         /\ \A x : Judged(row, x) => Judged(Voted(row, vote), x)
<1> DEFINE after == [row EXCEPT !.votes = @ \cup {vote}]
           next  == Voted(row, vote)
           yes   == {x \in row.votes \cup {vote} : x.approve}
<1>1. /\ after \in Row /\ after.votes = row.votes \cup {vote} /\ after.state = "pending"
      /\ after.filed = row.filed /\ after.required = row.required
      /\ after.exclude = row.exclude /\ after.ticket = row.ticket
      /\ after.requester = row.requester
  BY DEF Row
<1>2. \/ ~vote.approve /\ next = [after EXCEPT !.state = "denied", !.decided = now]
      \/ /\ vote.approve /\ Cardinality(yes) >= AtLeast(row.required, 1)
         /\ next = [after EXCEPT !.state = "approved", !.decided = now,
                                 !.expires = AtLeast(@, now + UseWindow)]
      \/ vote.approve /\ next = after
  BY <1>1 DEF Voted, Vote
<1> HIDE DEF after, next
<1>3. /\ next.votes = row.votes \cup {vote} /\ next.filed = row.filed
      /\ next.required = row.required /\ next.exclude = row.exclude
      /\ next.ticket = row.ticket /\ next.requester = row.requester
  BY <1>1, <1>2 DEF Row
<1>4. \/ ~vote.approve /\ next.state = "denied"
      \/ /\ vote.approve /\ Cardinality(yes) >= AtLeast(row.required, 1)
         /\ next.state = "approved"
      \/ vote.approve /\ next.state = "pending"
  BY <1>1, <1>2 DEF Row
<1>5. \A x : Judged(row, x) => Judged(next, x)
  BY <1>3 DEF Judged
<1>6. RowDecided(next)
  <2>1. vote.approve => Deniers(next) = Deniers(row)
    BY <1>3 DEF Deniers
  <2>2. vote.approve => vote.who \in Approvers(next)
    BY <1>3 DEF Approvers
  <2>3. QED BY <1>4, <2>1, <2>2 DEF RowDecided
<1>7. RowVotes(next)
  <2>1. IsFiniteSet(row.votes \cup {vote})
    BY FS_AddElement DEF RowVotes
  <2>2. \A x, y \in row.votes \cup {vote} : x # y => ~SamePerson(x.who, y.who)
    BY DEF RowVotes, SamePerson
  <2>3. \A x \in row.votes \cup {vote} : x.filed => row.filed /\ Judged(next, x)
    BY <1>5 DEF RowVotes
  <2>4. next.state = "approved" => Cardinality(yes) >= row.required
    <3>1. Cardinality(yes) \in Nat
      BY <2>1, FS_Subset, FS_CardinalityType
    <3>2. row.required \in Nat
      BY DEF Row
    <3>3. QED BY <1>4, <3>1, <3>2 DEF AtLeast
  <2>5. next.state \notin {"used"}
    BY <1>4
  <2>6. QED BY <1>3, <2>1, <2>2, <2>3, <2>4, <2>5 DEF RowVotes
<1>8. QED BY <1>3, <1>4, <1>5, <1>6, <1>7 DEF next

\* VoteApproval reads the votes again, and what castVote judged still holds:
\* the rules on record are written once.
LEMMA VotingVote ==
  ASSUME TypeOK, TypeOK', VotingInv, NEW v \in Voters, VoteApproval(v)
  PROVE  VotingInv'
<1> DEFINE r    == ballot[v].req
           vote == ballot[v].vote
<1>1. /\ r \in Ids /\ vote \in Vote /\ ballot[v] # NoBallot /\ now \in Nat
      /\ rows[r] \in Row /\ rows \in [Ids -> Row] /\ call' = call
      /\ ballot'[v] = NoBallot /\ \A w \in Voters \ {v} : ballot'[w] = ballot[w]
  BY DEF VoteApproval, TypeOK, Ballot
<1>2. rows[r].state # "none" /\ vote.who = v /\ (vote.filed => rows[r].filed /\ Judged(rows[r], vote))
  BY <1>1 DEF VotingInv, BallotsJudged
<1>3. CASE rows' = rows
  <2>1. TableKeeps
    BY <1>1, <1>3, SweptKeeps DEF TableKeeps
  <2>2. \A w \in Voters : ballot'[w] \in {ballot[w], NoBallot}
    BY <1>1
  <2>3. QED BY <1>1, <2>1, <2>2, SameCalls, QuietStep
<1>4. CASE /\ rows[r].state = "pending" /\ \A x \in rows[r].votes : ~SamePerson(x.who, v)
           /\ rows' = [rows EXCEPT ![r] = Voted(rows[r], vote)]
  <2> DEFINE row == Voted(rows[r], vote)
  <2>1. RowDecided(rows[r]) /\ RowVotes(rows[r])
    BY <1>1 DEF VotingInv, VotesDecide, VotesCount
  <2>2. /\ RowDecided(row) /\ RowVotes(row) /\ row.state # "none" /\ row.filed = rows[r].filed
        /\ \A x : Judged(rows[r], x) => Judged(row, x)
    BY <1>1, <1>2, <1>4, <2>1, VotedVotes
  <2>3. rows' = [rows EXCEPT ![r] = row]
    BY <1>4
  <2>4. ~Approved(rows[r])
    BY <1>4 DEF Approved
  <2> HIDE DEF row, r, vote
  <2>5. /\ VotesDecide' /\ VotesCount'
        /\ \A i \in Ids : Approved(rows[i]) => Approved(rows'[i])
        /\ \A i \in Ids : rows[i].state # "none" => rows'[i].state # "none"
        /\ \A i \in Ids \ {r} : rows'[i] = rows[i]
        /\ rows'[r] = row
    BY <1>1, <1>2, <2>2, <2>3, <2>4, OneRowStep
  <2>6. \A i \in Ids : rows'[i].filed = rows[i].filed
    BY <2>2, <2>5
  <2>7. \A d \in Calls : Go(call[d]) \/ call[d].phase = "filing" => call[d].req \in Ids
    BY DEF TypeOK, Go
  <2>8. GoApproved'
    <3>1. \A d \in Calls : Go(call[d]) => Approved(rows'[call[d].req])
      BY <2>5, <2>7 DEF VotingInv, GoApproved
    <3>2. QED BY <1>1, <3>1 DEF GoApproved, Go, Approved, Approvers, Deniers
  <2>9. FiledOnce'
    BY <1>1, <2>5, <2>6, <2>7 DEF VotingInv, FiledOnce
  <2>10. BallotsJudged'
    <3>1. ASSUME NEW w \in Voters, ballot'[w] # NoBallot
          PROVE  /\ rows'[ballot'[w].req].state # "none" /\ ballot'[w].vote.who = w
                 /\ ballot'[w].vote.filed => /\ rows'[ballot'[w].req].filed
                                             /\ Judged(rows'[ballot'[w].req], ballot'[w].vote)
      <4>1. ballot'[w] = ballot[w] /\ ballot[w].req \in Ids /\ ballot[w] # NoBallot
        BY <1>1, <3>1 DEF TypeOK, Ballot
      <4>2. \A x : Judged(rows[ballot[w].req], x) => Judged(rows'[ballot[w].req], x)
        BY <2>2, <2>5, <4>1
      <4>3. QED BY <2>5, <2>6, <4>1, <4>2 DEF VotingInv, BallotsJudged
    <3>2. QED BY <3>1 DEF BallotsJudged, Judged
  <2>11. QED BY <2>5, <2>8, <2>9, <2>10 DEF VotingInv
<1>5. QED BY <1>1, <1>3, <1>4 DEF VoteApproval

\* What happens around the calls and the votes.
LEMMA VotingAround ==
  ASSUME TypeOK, TypeOK', VotingInv,
         \/ \E v \in Voters : LoseBallot(v)
         \/ ListApprovals \/ PutRouting \/ MapPeople \/ Tick \/ UNCHANGED vars
  PROVE  VotingInv'
<1>1. rows' \in {rows, Swept} /\ call' = call /\ rows \in [Ids -> Row]
  BY DEF LoseBallot, ListApprovals, PutRouting, MapPeople, Tick, vars, TypeOK
<1>2. TableKeeps
  BY <1>1, SweptKeeps DEF TableKeeps
<1>3. \A w \in Voters : ballot'[w] \in {ballot[w], NoBallot}
  BY DEF LoseBallot, ListApprovals, PutRouting, MapPeople, Tick, vars, TypeOK
<1>4. QED BY <1>1, <1>2, <1>3, SameCalls, QuietStep

LEMMA VotingInit == Init => VotingInv
<1> SUFFICES ASSUME Init PROVE VotingInv
  OBVIOUS
<1>1. \A r \in Ids : /\ rows[r].state = "none" /\ rows[r].votes = {}
  BY DEF Init, EmptyRow
<1>2. \A c \in Calls : call[c].phase = "idle"
  BY DEF Init
<1>3. \A v \in Voters : ballot[v] = NoBallot
  BY DEF Init
<1>4. VotesDecide
  BY <1>1 DEF VotesDecide, RowDecided, Deniers
<1>5. VotesCount
  BY <1>1, FS_EmptySet DEF VotesCount, RowVotes
<1>6. QED BY <1>2, <1>3, <1>4, <1>5 DEF VotingInv, GoApproved, Go, FiledOnce, BallotsJudged

LEMMA VotingNext == TypeOK /\ TypeOK' /\ VotingInv /\ [Next]_vars => VotingInv'
<1> SUFFICES ASSUME TypeOK, TypeOK', VotingInv, [Next]_vars PROVE VotingInv'
  OBVIOUS
<1>1. ASSUME NEW c \in Calls, NEW r \in Ids, FileRequest(c, r) PROVE VotingInv'
  BY <1>1, VotingFile
<1>2. ASSUME NEW c \in Calls, SetApprovalFiling(c) PROVE VotingInv'
  BY <1>2, VotingFiling
<1>3. ASSUME NEW c \in Calls, Handler(c) \/ Abandon(c), ~SetApprovalFiling(c),
             \A r \in Ids : ~FileRequest(c, r)
      PROVE  VotingInv'
  BY <1>3, VotingHandler DEF Handler, Ask
<1>4. ASSUME NEW v \in Voters, (\E r \in Ids : JudgeVote(v, r)) \/ VoteApproval(v)
      PROVE  VotingInv'
  BY <1>4, VotingJudge, VotingVote
<1>5. CASE \/ \E v \in Voters : LoseBallot(v)
           \/ ListApprovals \/ PutRouting \/ MapPeople \/ Tick \/ UNCHANGED vars
  BY <1>5, VotingAround
<1>6. QED BY <1>1, <1>2, <1>3, <1>4, <1>5 DEF Next

LEMMA VotingAlways == Spec => [](TypeOK /\ VotingInv)
<1>1. Init => TypeOK /\ VotingInv
  BY TypeInit, VotingInit
<1>2. TypeOK /\ VotingInv /\ [Next]_vars => (TypeOK /\ VotingInv)'
  BY TypeNext, VotingNext
<1>3. QED BY <1>1, <1>2, PTL DEF Spec

\* A call runs only on a request somebody approved and nobody denied, whatever
\* the order of polls, votes, expiries and retries.
THEOREM RunsApproved == Spec => []RunsOnlyApproved
<1>1. VotingInv => RunsOnlyApproved
  BY DEF VotingInv, GoApproved, Go, Approved, RunsOnlyApproved
<1>2. QED BY <1>1, VotingAlways, PTL

\* The people who approved are as many as their votes: nobody votes twice.
LEMMA AsManyPeople ==
  ASSUME NEW row, RowVotes(row)
  PROVE  Cardinality(Approvers(row)) = Cardinality({x \in row.votes : x.approve})
<1> DEFINE S == {x \in row.votes : x.approve}
           f == [x \in S |-> x.who]
<1>1. IsFiniteSet(S)
  BY FS_Subset DEF RowVotes
<1>2. \A x, y \in S : x # y => x.who # y.who
  BY DEF RowVotes, SamePerson
<1>3. Approvers(row) = {x.who : x \in S}
  BY DEF Approvers
<1>4. f \in [S -> Approvers(row)] /\ \A p \in Approvers(row) : \E x \in S : f[x] = p
  BY <1>3
<1>5. \A x, y \in S : x # y => f[x] # f[y]
  BY <1>2
<1> HIDE DEF S, f
<1>6. f \in Bijection(S, Approvers(row))
  BY <1>4, <1>5 DEF Bijection, Injection, Surjection, IsInjective
<1>7. QED BY <1>1, <1>6, FS_Bijection DEF ExistsBijection, S

\* Votes judged under a request's own rules decide it as those rules say.
THEOREM Quorum == Spec => []QuorumOfPeople
<1>1. ASSUME TypeOK, VotingInv, NEW r \in Ids, rows[r].state \in {"approved", "used"},
             JudgedUnderRules(rows[r])
      PROVE  /\ Cardinality(Approvers(rows[r])) >= rows[r].required
             /\ \A v, w \in Approvers(rows[r]) : v # w => ~SamePerson(v, w)
             /\ rows[r].exclude => \A v \in Approvers(rows[r]) : IdentsOf[v] \cap rows[r].requester = {}
             /\ \A x \in rows[r].votes : x.approve /\ rows[r].ticket => x.ticket
             /\ \A v \in Approvers(rows[r]) : Kind[v] # "apikey"
  <2>1. RowVotes(rows[r]) /\ \A x \in rows[r].votes : x.filed /\ Judged(rows[r], x)
    BY <1>1 DEF VotingInv, VotesCount, RowVotes, JudgedUnderRules
  <2>2. Cardinality(Approvers(rows[r])) >= rows[r].required
    BY <1>1, <2>1, AsManyPeople DEF RowVotes
  <2>3. \A v \in Approvers(rows[r]) : \E x \in rows[r].votes : x.approve /\ x.who = v
    BY DEF Approvers
  <2>4. \A v, w \in Approvers(rows[r]) : v # w => ~SamePerson(v, w)
    BY <2>1, <2>3 DEF RowVotes
  <2>5. QED BY <2>1, <2>2, <2>3, <2>4 DEF Judged
<1>2. TypeOK /\ VotingInv => QuorumOfPeople
  BY <1>1 DEF QuorumOfPeople
<1>3. QED BY <1>2, VotingAlways, PTL

-----------------------------------------------------------------------------
\* An approval lasts for approvalUseWindow at least.

\* A row that is approved is due when its window has passed.
RowLasts(row) == row.state = "approved" => row.expires >= row.decided + UseWindow
ApprovalsLast == \A r \in Ids : RowLasts(rows[r])

\* A row stays as lasting as it is, and an approved one expires only when due.
Lapses(a, b) ==
  /\ RowLasts(a) => RowLasts(b)
  /\ a.state = "approved" /\ b.state = "expired" => a.expires <= now

LEMMA SweptLapses ==
  ASSUME TypeOK, NEW r \in Ids
  PROVE  /\ Lapses(rows[r], rows[r]) /\ Lapses(rows[r], Swept[r])
         /\ \A b \in Row : b.state \in {"pending", "used", "denied"} => Lapses(rows[r], b)
<1>1. rows[r] \in Row
  BY DEF TypeOK
<1>2. Lapses(rows[r], rows[r])
  BY DEF Lapses
<1>3. Lapses(rows[r], Swept[r])
  <2>1. CASE Open(rows[r]) /\ rows[r].expires <= now
    <3>1. Swept[r].state = "expired"
      BY <1>1, <2>1 DEF Swept, Expired, Row
    <3>2. QED BY <2>1, <3>1 DEF Lapses, RowLasts
  <2>2. CASE ~(Open(rows[r]) /\ rows[r].expires <= now)
    BY <1>2, <2>2 DEF Swept, Expired
  <2>3. QED BY <2>1, <2>2
<1>4. \A b \in Row : b.state \in {"pending", "used", "denied"} => Lapses(rows[r], b)
  BY DEF Lapses, RowLasts
<1>5. QED BY <1>2, <1>3, <1>4, Zenon

\* The vote that approves a request gives its window time to pass.
LEMMA VotedLapses ==
  ASSUME NEW row \in Row, NEW vote \in Vote, row.state = "pending", now \in Nat
  PROVE  Lapses(row, Voted(row, vote))
<1> DEFINE after == [row EXCEPT !.votes = @ \cup {vote}]
<1>1. after.state = "pending"
  BY DEF Row
<1>2. [after EXCEPT !.state = "denied", !.decided = now].state = "denied"
  BY DEF Row
<1>3. RowLasts([after EXCEPT !.state = "approved", !.decided = now, !.expires = AtLeast(@, now + UseWindow)])
  <2> DEFINE b == [after EXCEPT !.state = "approved", !.decided = now, !.expires = AtLeast(@, now + UseWindow)]
  <2>1. b.decided = now /\ b.expires = AtLeast(row.expires, now + UseWindow)
    BY DEF Row
  <2> HIDE DEF b
  <2>2. row.expires \in Nat /\ now + UseWindow \in Nat
    BY ConstantsAssumption DEF Row
  <2>3. QED BY <2>1, <2>2 DEF RowLasts, AtLeast
<1>4. /\ RowLasts(after)
      /\ RowLasts([after EXCEPT !.state = "denied", !.decided = now])
  BY <1>1, <1>2 DEF RowLasts
<1>5. RowLasts(Voted(row, vote))
  <2> HIDE DEF after
  <2>1. vote.approve \in BOOLEAN
    BY DEF Vote
  <2>2. QED BY <1>3, <1>4, <2>1 DEF Voted, after
<1>6. QED BY <1>5 DEF Lapses

LEMMA RowLapses ==
  ASSUME TypeOK, TypeOK', [Next]_vars, NEW r \in Ids
  PROVE  Lapses(rows[r], rows'[r])
<1>1. now \in Nat /\ rows[r] \in Row /\ rows'[r] \in Row /\ Swept \in [Ids -> Row]
  BY SweptRows DEF TypeOK
<1>2. ASSUME NEW q \in Ids, \/ rows' = [Swept EXCEPT ![q].state = "used"]
                            \/ rows' = [rows EXCEPT ![q].state = "used"]
      PROVE  Lapses(rows[r], rows'[r])
  <2>1. CASE r = q
    <3>1. rows'[r].state = "used"
      BY <1>1, <1>2, <2>1 DEF TypeOK, Row
    <3>2. QED BY <1>1, <3>1, SweptLapses
  <2>2. CASE r # q
    BY <1>1, <1>2, <2>2, SweptLapses DEF TypeOK
  <2>3. QED BY <2>1, <2>2
<1>3. ASSUME NEW c \in Calls, NEW q \in Ids, FileRequest(c, q) PROVE Lapses(rows[r], rows'[r])
  <2>1. CASE r = q
    <3>1. rows'[r].state = "pending"
      BY <1>1, <1>3, <2>1 DEF FileRequest, EmptyRow
    <3>2. QED BY <1>1, <3>1, SweptLapses
  <2>2. CASE r # q
    <3>1. rows'[r] = Swept[r]
      BY <1>1, <1>3, <2>2 DEF FileRequest
    <3>2. QED BY <3>1, SweptLapses
  <2>3. QED BY <2>1, <2>2
<1>4. ASSUME NEW c \in Calls, SetApprovalFiling(c) PROVE Lapses(rows[r], rows'[r])
  <2>1. /\ rows'[r].state = rows[r].state /\ rows'[r].expires = rows[r].expires
        /\ rows'[r].decided = rows[r].decided
    BY <1>1, <1>4, FilingKeeps
  <2>2. QED BY <2>1 DEF Lapses, RowLasts
<1>5. ASSUME NEW c \in Calls, EndpointApproval(c) PROVE Lapses(rows[r], rows'[r])
  <2>1. rows' = [rows EXCEPT ![call[c].req] = Swept[call[c].req]]
    BY <1>5 DEF EndpointApproval, TypeOK, Swept
  <2>2. QED BY <2>1, SweptLapses DEF TypeOK
<1>6. ASSUME NEW c \in Calls, ConsumeApproval(c) PROVE Lapses(rows[r], rows'[r])
  BY <1>2, <1>6, SweptLapses DEF ConsumeApproval, TypeOK
<1>7. ASSUME NEW v \in Voters, VoteApproval(v) PROVE Lapses(rows[r], rows'[r])
  <2>1. ballot[v] \in Ballot
    BY <1>7 DEF VoteApproval, TypeOK
  <2>2. CASE rows' = rows
    BY <2>2, SweptLapses
  <2>3. CASE rows[ballot[v].req].state = "pending"
             /\ rows' = [rows EXCEPT ![ballot[v].req] = Voted(rows[ballot[v].req], ballot[v].vote)]
    BY <1>1, <2>1, <2>3, SweptLapses, VotedLapses DEF TypeOK, Ballot
  <2>4. QED BY <1>7, <2>2, <2>3 DEF VoteApproval
<1>8. CASE rows' = Swept \/ rows' = rows
  BY <1>8, SweptLapses
<1>9. QED
  BY <1>2, <1>3, <1>4, <1>5, <1>6, <1>7, <1>8
     DEF Next, vars, Handler, Ask, UseApproved, JoinPending, RepeatDenial, WaitOver, Deliver, Abandon, JudgeVote,
         LoseBallot, ListApprovals, PutRouting, MapPeople, Tick

\* An approved request expires only when approvalUseWindow has passed since the
\* decision, although the request's own deadline may have passed before.
THEOREM ApprovalsLapseLate == Spec => ApprovalKept
<1>1. Init => ApprovalsLast
  BY DEF Init, EmptyRow, ApprovalsLast, RowLasts
<1>2. ASSUME TypeOK, TypeOK', ApprovalsLast, [Next]_vars PROVE ApprovalsLast'
  <2>1. \A r \in Ids : RowLasts(rows'[r])
    BY <1>2, RowLapses DEF ApprovalsLast, Lapses
  <2>2. QED BY <2>1 DEF ApprovalsLast, RowLasts
<1>3. ASSUME TypeOK, TypeOK', ApprovalsLast, [Next]_vars
      PROVE  [\A r \in Ids : rows[r].state = "approved" /\ rows'[r].state = "expired" =>
                 now >= rows[r].decided + UseWindow]_vars
  <2>1. ASSUME NEW r \in Ids, rows[r].state = "approved", rows'[r].state = "expired"
        PROVE  now >= rows[r].decided + UseWindow
    <3>1. rows[r].expires <= now /\ rows[r].expires >= rows[r].decided + UseWindow
      BY <1>3, <2>1, RowLapses DEF Lapses, ApprovalsLast, RowLasts
    <3>2. rows[r].expires \in Nat /\ rows[r].decided \in Nat /\ now \in Nat /\ UseWindow \in Nat
      BY <1>3, ConstantsAssumption DEF TypeOK, Row
    <3>3. QED BY <3>1, <3>2
  <2>2. QED BY <2>1
<1>4. QED BY <1>1, <1>2, <1>3, TypeInit, TypeNext, PTL DEF Spec, ApprovalKept

-----------------------------------------------------------------------------
\* Refinement.

\* One request changes status and no other: the permit's step has that shape.
LEMMA OneBecomes ==
  ASSUME NEW r \in Ids, NEW status,
         \A i \in Ids : PermitOf(rows[i])' = IF i = r THEN status ELSE PermitOf(rows[i])
  PROVE  P!Become(r, status)
  BY DEF P!Become

LEMMA NoneBecomes ==
  ASSUME \A i \in Ids : PermitOf(rows[i])' = PermitOf(rows[i])
  PROVE  UNCHANGED [r \in Ids |-> PermitOf(rows[r])]
  OBVIOUS

\* A step that leaves a request's status and expiry alone, at one time, leaves its permit.
LEMMA SameColumns ==
  ASSUME NEW i \in Ids, rows'[i].state = rows[i].state,
         rows'[i].expires = rows[i].expires, now' = now
  PROVE  PermitOf(rows[i])' = PermitOf(rows[i])
  BY DEF PermitOf, Status, Open

LEMMA SweptSame ==
  ASSUME TypeOK, now' = now, NEW i \in Ids, rows'[i] \in {rows[i], Swept[i]}
  PROVE  PermitOf(rows[i])' = PermitOf(rows[i])
<1>1. rows[i] \in Row
  BY DEF TypeOK
<1>2. CASE rows'[i] = rows[i]
  BY <1>2, SameColumns
<1>3. CASE rows'[i] # rows[i]
  <2>1. rows'[i] = [rows[i] EXCEPT !.state = "expired"] /\ Open(rows[i]) /\ rows[i].expires <= now
    BY <1>3 DEF Swept, Expired
  <2>2. rows'[i].state = "expired"
    BY <1>1, <2>1 DEF Row
  <2>3. PermitOf(rows[i])' = "lapsed"
    BY <2>2 DEF PermitOf, Status, Open
  <2>4. PermitOf(rows[i]) = "lapsed"
    BY <2>1 DEF PermitOf, Status
  <2>5. QED BY <2>3, <2>4
<1>4. QED BY <1>2, <1>3

\* RequestApproval finding an approved request: the permit is spent.
LEMMA UseApprovedSpends ==
  ASSUME TypeOK, NEW c \in Calls, NEW r \in Ids, UseApproved(c, r)
  PROVE  P!Spend(r)
<1>1. rows[r] \in Row /\ Swept[r] = Expired(rows[r])
  BY DEF TypeOK, Swept
<1>2. PermitOf(rows[r]) = "granted"
  BY <1>1 DEF UseApproved, Expired, PermitOf, Status, Open
<1>3. Swept \in [Ids -> Row]
  BY SweptRows DEF TypeOK
<1>4. rows'[r].state = "used" /\ \A i \in Ids : i # r => rows'[i] = Swept[i]
  BY <1>3 DEF UseApproved, Row
<1>5. PermitOf(rows[r])' = "spent"
  BY <1>4 DEF PermitOf, Status, Open
<1>6. \A i \in Ids : i # r => PermitOf(rows[i])' = PermitOf(rows[i])
  BY <1>4, SweptSame DEF UseApproved
<1>7. P!Become(r, "spent")
  BY <1>5, <1>6, OneBecomes
<1>8. QED BY <1>2, <1>7 DEF P!Spend

\* RequestApproval inserting a request: only while no permit is live.
LEMMA FileRequestRequests ==
  ASSUME TypeOK, NEW c \in Calls, NEW r \in Ids, FileRequest(c, r)
  PROVE  P!Request(r)
<1>1. Swept \in [Ids -> Row] /\ now \in Nat /\ TTL \in Nat \ {0}
  BY SweptRows, ConstantsAssumption DEF TypeOK
<1>2. PermitOf(rows[r]) = "none"
  BY DEF FileRequest, PermitOf, Status, Open
<1>3. \A i \in Ids : PermitOf(rows[i]) \notin {"asked", "granted"}
  <2>1. SUFFICES ASSUME NEW i \in Ids PROVE PermitOf(rows[i]) \notin {"asked", "granted"}
    OBVIOUS
  <2>2. ~Open(Swept[i]) /\ Swept[i] = Expired(rows[i]) /\ rows[i] \in Row
    BY DEF FileRequest, Swept, TypeOK
  <2>3. CASE Open(rows[i])
    <3>1. rows[i].expires <= now
      BY <2>2, <2>3 DEF Expired
    <3>2. QED BY <2>3, <3>1 DEF PermitOf, Status
  <2>4. CASE ~Open(rows[i])
    BY <2>2, <2>4 DEF PermitOf, Status, Open, Row, States
  <2>5. QED BY <2>3, <2>4
<1>4. rows'[r] = [EmptyRow EXCEPT !.state = "pending", !.expires = now + TTL]
  BY <1>1 DEF FileRequest
<1>5. rows'[r].state = "pending" /\ rows'[r].expires = now + TTL
  BY <1>4 DEF EmptyRow
<1>6. now + TTL > now
  BY <1>1
<1>7. PermitOf(rows[r])' = "asked"
  BY <1>1, <1>5, <1>6 DEF PermitOf, Status, Open, FileRequest
<1>8. \A i \in Ids : i # r => PermitOf(rows[i])' = PermitOf(rows[i])
  <2>1. \A i \in Ids : i # r => rows'[i] = Swept[i]
    BY <1>1 DEF FileRequest
  <2>2. QED BY <2>1, SweptSame DEF FileRequest
<1>9. P!Become(r, "asked")
  BY <1>7, <1>8, OneBecomes
<1>10. QED BY <1>2, <1>3, <1>9 DEF P!Request, P!Live

\* ConsumeApproval: the permit is spent, or nothing happens to it.
LEMMA ConsumeSpends ==
  ASSUME TypeOK, NEW c \in Calls, ConsumeApproval(c)
  PROVE  (\E r \in Ids : P!Spend(r)) \/ UNCHANGED [r \in Ids |-> PermitOf(rows[r])]
<1>0. PICK r \in Ids : r = call[c].req
  BY DEF ConsumeApproval, TypeOK
<1>1. rows[r] \in Row /\ rows \in [Ids -> Row] /\ now' = now
  BY DEF ConsumeApproval, TypeOK
<1>2. CASE rows[r].state = "approved" /\ rows[r].expires > now
  <2>1. PermitOf(rows[r]) = "granted"
    BY <1>1, <1>2 DEF PermitOf, Status, Open, TypeOK, Row
  <2>2. rows' = [rows EXCEPT ![r].state = "used"]
    BY <1>0, <1>2 DEF ConsumeApproval
  <2>3. rows'[r].state = "used" /\ \A i \in Ids : i # r => rows'[i] = rows[i]
    BY <1>1, <2>2 DEF Row
  <2>4. PermitOf(rows[r])' = "spent"
    BY <2>3 DEF PermitOf, Status, Open
  <2>5. \A i \in Ids : i # r => PermitOf(rows[i])' = PermitOf(rows[i])
    BY <1>1, <2>3, SameColumns
  <2>6. P!Become(r, "spent")
    BY <1>1, <2>4, <2>5, OneBecomes
  <2>7. QED BY <1>1, <2>1, <2>6 DEF P!Spend
<1>3. CASE rows' = rows
  BY <1>1, <1>3, SameColumns, NoneBecomes
<1>4. QED BY <1>0, <1>2, <1>3 DEF ConsumeApproval

\* VoteApproval: the permit is granted, refused, or as it was.
LEMMA VoteDecides ==
  ASSUME TypeOK, NEW v \in Voters, VoteApproval(v)
  PROVE  \/ \E r \in Ids : P!Grant(r) \/ P!Refuse(r)
         \/ UNCHANGED [r \in Ids |-> PermitOf(rows[r])]
<1>0. PICK r \in Ids, vote \in Vote : r = ballot[v].req /\ vote = ballot[v].vote
  BY DEF VoteApproval, TypeOK, Ballot
<1>1. rows[r] \in Row /\ rows \in [Ids -> Row] /\ now' = now /\ now \in Nat
  BY DEF VoteApproval, TypeOK
<1>2. CASE rows' = rows
  BY <1>1, <1>2, SameColumns, NoneBecomes
<1>3. CASE /\ rows[r].state = "pending" /\ rows[r].expires > now
           /\ rows' = [rows EXCEPT ![r] = Voted(rows[r], vote)]
  <2>1. rows'[r] = Voted(rows[r], vote) /\ \A i \in Ids : i # r => rows'[i] = rows[i]
    BY <1>1, <1>3
  <2>2. \A i \in Ids : i # r => PermitOf(rows[i])' = PermitOf(rows[i])
    BY <1>1, <2>1, SameColumns
  <2>3. PermitOf(rows[r]) = "asked"
    BY <1>1, <1>3 DEF PermitOf, Status, Open, Row
  <2> DEFINE after == [rows[r] EXCEPT !.votes = @ \cup {vote}]
  <2>4. /\ after \in Row /\ after.state = "pending" /\ after.expires = rows[r].expires
    BY <1>1, <1>3 DEF Row
  <2>5. \/ rows'[r] = [after EXCEPT !.state = "denied", !.decided = now]
        \/ rows'[r] = [after EXCEPT !.state = "approved", !.decided = now,
                                    !.expires = AtLeast(@, now + UseWindow)]
        \/ rows'[r] = after
    BY <2>1 DEF Voted
  <2> HIDE DEF after
  <2>6. CASE rows'[r] = [after EXCEPT !.state = "denied", !.decided = now]
    <3>1. rows'[r].state = "denied"
      BY <2>4, <2>6 DEF Row
    <3>2. PermitOf(rows[r])' = "refused"
      BY <3>1 DEF PermitOf, Status, Open
    <3>3. P!Become(r, "refused")
      BY <1>1, <2>2, <3>2, OneBecomes
    <3>4. QED BY <1>1, <2>3, <3>3 DEF P!Refuse
  <2>7. CASE rows'[r] = [after EXCEPT !.state = "approved", !.decided = now,
                                     !.expires = AtLeast(@, now + UseWindow)]
    <3>1. rows'[r].state = "approved" /\ rows'[r].expires = AtLeast(after.expires, now + UseWindow)
      BY <2>4, <2>7 DEF Row
    <3>2. AtLeast(after.expires, now + UseWindow) > now /\ AtLeast(after.expires, now + UseWindow) \in Nat
      BY <1>1, <2>4, ConstantsAssumption DEF AtLeast, Row
    <3>3. PermitOf(rows[r])' = "granted"
      BY <1>1, <3>1, <3>2 DEF PermitOf, Status, Open
    <3>4. P!Become(r, "granted")
      BY <1>1, <2>2, <3>3, OneBecomes
    <3>5. QED BY <1>1, <2>3, <3>4 DEF P!Grant
  <2>8. CASE rows'[r] = after
    <3>1. rows'[r].state = rows[r].state /\ rows'[r].expires = rows[r].expires
      BY <1>3, <2>4, <2>8
    <3>2. PermitOf(rows[r])' = PermitOf(rows[r])
      BY <1>1, <3>1, SameColumns
    <3>3. QED BY <2>2, <3>2, NoneBecomes
  <2>9. QED BY <2>5, <2>6, <2>7, <2>8
<1>4. QED BY <1>0, <1>2, <1>3 DEF VoteApproval

\* The clock only makes live permits lapse.
LEMMA TickLapses ==
  ASSUME TypeOK, Tick PROVE P!Lapse
<1> DEFINE S == {i \in Ids : P!Live(i) /\ PermitOf(rows[i])' = "lapsed"}
<1>1. now \in Nat /\ now' = now + 1 /\ rows' = rows
  BY DEF Tick, TypeOK
<1>2. ASSUME NEW i \in Ids
      PROVE  PermitOf(rows[i])' = IF i \in S THEN "lapsed" ELSE PermitOf(rows[i])
  <2>1. rows[i] \in Row
    BY DEF TypeOK
  <2>2. P!Live(i) <=> PermitOf(rows[i]) \in {"asked", "granted"}
    BY DEF P!Live
  <2>3. PermitOf(rows[i])' # "lapsed" => PermitOf(rows[i])' = PermitOf(rows[i])
    BY <1>1, <2>1 DEF PermitOf, Status, Open, Row, States
  <2>4. PermitOf(rows[i]) \notin {"asked", "granted"} => PermitOf(rows[i])' = PermitOf(rows[i])
    BY <1>1, <2>1 DEF PermitOf, Status, Open, Row, States
  <2>5. QED BY <2>2, <2>3, <2>4
<1>3. S \in SUBSET {i \in Ids : P!Live(i)}
  OBVIOUS
<1> HIDE DEF S
<1>4. [i \in Ids |-> PermitOf(rows[i])]' = [i \in Ids |-> IF i \in S THEN "lapsed" ELSE PermitOf(rows[i])]
  BY <1>2
<1>5. \A i \in Ids : [r \in Ids |-> PermitOf(rows[r])][i] = PermitOf(rows[i])
  OBVIOUS
<1>6. QED BY <1>3, <1>4, <1>5 DEF P!Lapse

\* The remaining steps of the handler leave every permit alone.
LEMMA QuietHandler ==
  ASSUME TypeOK, NEW c \in Calls,
         \/ \E r \in Ids : JoinPending(c, r) \/ RepeatDenial(c, r)
         \/ SetApprovalFiling(c) \/ EndpointApproval(c) \/ WaitOver(c) \/ Deliver(c)
  PROVE  UNCHANGED [r \in Ids |-> PermitOf(rows[r])]
<1>0. rows \in [Ids -> Row]
  BY DEF TypeOK
<1>1. CASE rows' = Swept /\ now' = now
  BY <1>1, SweptSame, NoneBecomes
<1>2. CASE rows' = rows /\ now' = now
  BY <1>2, SameColumns, NoneBecomes
<1>3. CASE EndpointApproval(c)
  <2>1. \A i \in Ids : rows'[i] \in {rows[i], Swept[i]}
    BY <1>0, <1>3 DEF EndpointApproval, Swept
  <2>2. QED BY <1>3, <2>1, SweptSame, NoneBecomes DEF EndpointApproval
<1>4. CASE SetApprovalFiling(c)
  BY <1>4, FilingKeeps, SameColumns, NoneBecomes DEF SetApprovalFiling
<1>5. QED
  BY <1>1, <1>2, <1>3, <1>4 DEF JoinPending, RepeatDenial, WaitOver, Deliver

LEMMA RefinesNext ==
  ASSUME TypeOK, [Next]_vars
  PROVE  [P!Next]_([r \in Ids |-> PermitOf(rows[r])])
<1>1. CASE \E c \in Calls : \E r \in Ids : UseApproved(c, r)
  BY <1>1, UseApprovedSpends DEF P!Next
<1>2. CASE \E c \in Calls : \E r \in Ids : FileRequest(c, r)
  BY <1>2, FileRequestRequests DEF P!Next
<1>3. CASE \E c \in Calls : ConsumeApproval(c)
  BY <1>3, ConsumeSpends DEF P!Next
<1>4. CASE \E c \in Calls :
             \/ \E r \in Ids : JoinPending(c, r) \/ RepeatDenial(c, r)
             \/ SetApprovalFiling(c) \/ EndpointApproval(c) \/ WaitOver(c) \/ Deliver(c)
  BY <1>4, QuietHandler
<1>5. CASE \E v \in Voters : VoteApproval(v)
  BY <1>5, VoteDecides DEF P!Next
<1>6. CASE Tick
  BY <1>6, TickLapses DEF P!Next
<1>7. CASE ListApprovals
  BY <1>7, SweptSame, NoneBecomes DEF ListApprovals
<1>8. CASE UNCHANGED <<rows, now>>
  BY <1>8, SameColumns, NoneBecomes
<1>9. QED
  BY <1>1, <1>2, <1>3, <1>4, <1>5, <1>6, <1>7, <1>8
     DEF Next, vars, Handler, Ask, Abandon, JudgeVote, LoseBallot, PutRouting, MapPeople

LEMMA RefinesInit == Init => P!Init
  BY DEF Init, P!Init, PermitOf, Status, Open, EmptyRow

\* The table, its lazy expiry, its polls and its votes together keep the
\* permit's promise, for any number of calls, requests and voters.
THEOREM Refines == Spec => ImplementsPermit
<1>1. TypeOK /\ [Next]_vars => [P!Next]_([r \in Ids |-> PermitOf(rows[r])])
  BY RefinesNext
<1>2. Spec => []TypeOK
  BY TypeCorrect
<1>3. QED BY <1>1, <1>2, RefinesInit, PTL DEF Spec, ImplementsPermit, P!Spec
=============================================================================
