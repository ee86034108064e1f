----------------------------- MODULE MCApprovals -----------------------------
(* Small instances of Approvals for TLC. *)
EXTENDS Approvals, TLC

CONSTANTS c1, c2, c3, i1, i2, g1,           \* calls, request ids, a group
          dana, danaLink, sam, samSlack, rae, key,  \* decisions' origins
          uDana, uSam, uRae, eDana, eSam     \* what identifies the people

MCKind == dana :> "console" @@ danaLink :> "link" @@ sam :> "console" @@ samSlack :> "slack"
          @@ rae :> "console" @@ key :> "apikey"

\* Dana has an account and a link that the group's records tie to it, Sam an
\* account and a Slack profile that share an address; Rae's e-mail is unknown.
MCIdentsOf == dana :> {uDana, eDana} @@ danaLink :> {uDana, eDana} @@ sam :> {uSam, eSam}
              @@ samSlack :> {eSam} @@ rae :> {uRae} @@ key :> {}
MCUserIds  == {uDana, uSam, uRae}
MCEmails   == {eDana, eSam}

\* No route matches: a workspace admin decides, the requester may.
Plain == [routes |-> <<>>, default |-> NoGroup,
          rules |-> [required |-> 0, exclude |-> FALSE, ticket |-> FALSE],
          live |-> {}, members |-> [g \in {g1} |-> {}]]

\* A route that needs two people of a group, neither of them the requester.
TwoPeople == [routes |-> <<[group |-> g1, rules |-> [required |-> 2, exclude |-> TRUE, ticket |-> FALSE]]>>,
              default |-> NoGroup, rules |-> Plain.rules,
              live |-> {g1}, members |-> [g \in {g1} |-> {uDana, eDana, uSam, uRae}]]

\* The same with a ticket; and a default group whose one decision is enough.
Ticketed == [TwoPeople EXCEPT !.routes = <<[group |-> g1, rules |-> [required |-> 2, exclude |-> TRUE, ticket |-> TRUE]]>>]
Default  == [Plain EXCEPT !.default = g1, !.live = {g1}, !.members = [g \in {g1} |-> {eDana, uSam}]]

OnePlain    == {Plain}
PlainOrTwo  == {Plain, TwoPeople}
AllThree    == {Ticketed, TwoPeople, Default}

\* Who asked, as the machine's owner and People say: nobody known, or Rae.
Nobody      == {{}}
RaeOrNobody == {{}, {uRae}}
OnlyRae     == {{uRae}}

Symmetry == Permutations(Calls) \cup Permutations(Ids)
=============================================================================
