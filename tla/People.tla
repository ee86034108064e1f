------------------------------- MODULE People -------------------------------
(* The people of a workspace and the identities each goes by (store/people.go *)
(* and server/people.go), and how a vendor's seat or what a machine reports   *)
(* becomes a person (spend/identity.go).                                      *)
(*                                                                            *)
(* A person key is a work email, [kind |-> "person"], or an unmatched value   *)
(* under the kind it came with.  An identity has a kind, a value and, for an  *)
(* OS user, the one machine it is for ("" any).                               *)
EXTENDS Naturals, Sequences, FiniteSets

CONSTANTS
  ByEmail,     \* emails, in their order
  Identities   \* what may be mapped to a person

\* NormIdentity refuses an identity without a value.
ASSUME PeopleAssumption == \A i \in Identities :
  i = [kind |-> i.kind, value |-> i.value, host |-> i.host] /\ i.value # ""

Emails == {ByEmail[i] : i \in DOMAIN ByEmail}

VARIABLES
  persons,     \* cp.people: work emails
  mapping      \* cp.person_identities: identity to email

peopleVars == <<persons, mapping>>

PeopleInit == persons = {} /\ mapping = << >>

-----------------------------------------------------------------------------
\* Requests.  Each is one transaction; an identity of somebody else is a
\* conflict and nothing is changed.

Conflict(ids, email) == \E i \in ids \cap DOMAIN mapping : mapping[i] # email

\* PutPerson replaces the person's identities.
PutPerson(email, ids) ==
  IF Conflict(ids, email) THEN UNCHANGED peopleVars
  ELSE /\ persons' = persons \cup {email}
       /\ mapping' = [i \in {x \in DOMAIN mapping : mapping[x] # email} \cup ids |->
                        IF i \in ids THEN email ELSE mapping[i]]

\* AddPersonIdentity maps one identity, or none (kind "person"), and adds the
\* person where needed.
AddPersonIdentity(ids, email) ==
  IF Conflict(ids, email) THEN UNCHANGED peopleVars
  ELSE /\ persons' = persons \cup {email}
       /\ mapping' = [i \in DOMAIN mapping \cup ids |-> IF i \in ids THEN email ELSE mapping[i]]

\* DeletePerson: the identities go with the person.
DeletePerson(email) ==
  /\ email \in persons
  /\ persons' = persons \ {email}
  /\ mapping' = [i \in {x \in DOMAIN mapping : mapping[x] # email} |-> mapping[i]]

DeletePersonIdentity(i) ==
  /\ i \in DOMAIN mapping
  /\ mapping' = [x \in DOMAIN mapping \ {i} |-> mapping[x]]
  /\ UNCHANGED persons

-----------------------------------------------------------------------------
\* The directory.

Person(e)       == [kind |-> "person", value |-> e]
Unmatched(k, v) == [kind |-> k, value |-> v]
Nobody          == [kind |-> "", value |-> ""]
IsPerson(key)   == key.kind = "person"

\* A value of a kind mapped by itself, as a set of one or none.
ByKind(kind, value, host) ==
  LET i == [kind |-> kind, value |-> value, host |-> host]
  IN IF i \in DOMAIN mapping THEN {mapping[i]} ELSE {}

\* Whose email a value is, whichever list it is on: the first person's.
ByAlias(value) ==
  LET Whose(e) == \/ e \in persons /\ e = value
                  \/ \E i \in DOMAIN mapping :
                       i.kind \in {"email", "git_email"} /\ i.value = value /\ mapping[i] = e
  IN {ByEmail[i] : i \in {x \in DOMAIN ByEmail : Whose(ByEmail[x]) /\ \A y \in 1 .. x - 1 : ~Whose(ByEmail[y])}}

First(a, b) == IF a # {} THEN a ELSE b

Lookup(kind, value) == First(ByKind(kind, value, ""), ByAlias(value))

The(s) == CHOOSE e \in s : TRUE

\* canonKind: the mapping's name for a kind.
Canonical(kind) == IF kind = "key" THEN "api_key" ELSE kind

\* Resolve: unmatched values keep the kind they came with.
Resolve(kind, value) ==
  LET Of(who) == CASE who # {} -> Person(The(who))
                   [] who = {} /\ value \in Emails /\ kind \in {"email", "git_email", "user"} -> Person(value)
                   [] OTHER -> Unmatched(kind, value)
  IN IF value = "" THEN Nobody ELSE Of(Lookup(Canonical(kind), value))

\* Mutant: the user of any machine comes before the user of this one.
OsUser_AnyFirst(user, host) == First(Lookup("os_user", user), ByKind("os_user", user, host))

\* osUser: an OS user on a machine, "user@host" before "user".
OsUser(user, host) == First(ByKind("os_user", user, host), Lookup("os_user", user))

\* endpointPerson: a machine's owner, its hostname's mapping, the one person
\* that its users resolve to, or the machine itself; and how it was decided.
EndpointPerson(owner, host, users) ==
  LET Of(owned, mapped, found) ==
        CASE IsPerson(owned)                    -> [who |-> owned, via |-> "owner"]
          [] ~IsPerson(owned) /\ mapped # {}    -> [who |-> Person(The(mapped)), via |-> "host"]
          [] ~IsPerson(owned) /\ mapped = {} /\ Cardinality(found) = 1
                                                -> [who |-> Person(The(found)), via |-> "os_user"]
          [] OTHER -> [who |-> IF owner # "" THEN owned ELSE Unmatched("host", host), via |-> ""]
  IN Of(Resolve("user", owner), Lookup("host", host), UNION {OsUser(u, host) : u \in users})

\* ObsPerson: who is behind what a machine reported: the OS user, then the git
\* email (mapped, or that of somebody known), then the machine's person.
ObsPerson(user, git, known, owner, host, users) ==
  LET Of(byUser, byGit) ==
        CASE byUser # {}               -> [who |-> Person(The(byUser)), via |-> "os_user"]
          [] byUser = {} /\ byGit # {} -> [who |-> Person(The(byGit)), via |-> "git_email"]
          [] OTHER                     -> EndpointPerson(owner, host, users)
  IN Of(IF user = "" THEN {} ELSE OsUser(user, host),
        IF git = "" THEN {}
        ELSE First(ByKind("git_email", git, ""),
             First(ByKind("email", git, ""),
             First(ByAlias(git), IF git \in known THEN {git} ELSE {}))))

\* viaRank: 3 the person, 2 their machine, 1 nothing.
ViaRank(via) == CASE via \in {"os_user", "git_email"} -> 3
                  [] via \in {"owner", "host"}        -> 2
                  [] OTHER                            -> 1
=============================================================================
