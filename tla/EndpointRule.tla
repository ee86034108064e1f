----------------------------- MODULE EndpointRule -----------------------------
(***************************************************************************)
(* The endpoint policy (internal/endpoint/policy): one rule for each agent *)
(* over the defaults, what the kernel enforces of it, and the selectors    *)
(* Tetragon is given (internal/endpoint/tetragon).                         *)
(*                                                                         *)
(* A rule is [mode, lists]; `lists' has a field for each list the YAML     *)
(* names, so a list that is not in its domain is nil.  The lists only      *)
(* hooks read (commands, tools, packages) go through RuleFor and overrides *)
(* as these do and are left out.                                           *)
(***************************************************************************)
EXTENDS CentralPolicy

CONSTANTS
  Programs, Files,  \* absolute paths of programs, the daemon's own left out, and of other files
  Daemon            \* paths of the daemon itself (gateExemptPaths)

ASSUME DaemonAssumption == Daemon # {} /\ Daemon \cap Programs = {}

Lists  == {"exec_deny", "exec_allow", "gated_exec", "file_deny", "file_alert", "network_deny",
           "network_allow", "exec_approve", "file_approve", "network_approve"}
Modes  == {"monitor", "learn", "denylist", "allowlist"}

ListOf(r, list) == IF list \in DOMAIN r.lists THEN r.lists[list] ELSE {}
Over(more, lists) == [l \in DOMAIN lists \cup DOMAIN more |-> IF l \in DOMAIN more THEN more[l] ELSE lists[l]]
Put(r, list, entries) == [r EXCEPT !.lists = Over([l \in {list} |-> entries], @)]

\* An agent's own lists replace the defaults'; RuleFor has no case for gated_exec.
OwnLists == Lists \ {"gated_exec"}
RuleFor(pol, agent) ==
  LET own == IF agent \in DOMAIN pol.agents THEN pol.agents[agent] ELSE [mode |-> "", lists |-> <<>>]
  IN [mode  |-> IF own.mode = "" THEN pol.defaults.mode ELSE own.mode,
      lists |-> Over([l \in DOMAIN own.lists \cap OwnLists |-> own.lists[l]], pol.defaults.lists)]

\* An allowlist that allows nothing is refused.
Check(r)  == r.mode = "allowlist" => ListOf(r, "exec_allow") # {}
Valid(pol) == \A a \in DOMAIN pol.agents : Check(RuleFor(pol, a)) /\ Check(pol.defaults)

\* The canonical form of an address or CIDR.
ParseCIDR(c) == [c EXCEPT !.net = FirstIn(c)]

-----------------------------------------------------------------------------
\* What the kernel enforces: it cannot ask, so what needs an approval is denied;
\* in a break-glass window it is allowed instead.

IsTree(f)       == Last(f) = ""
FilePaths(list) == {f \in list : ~IsTree(f)}

ApproveList == [exec_deny |-> "exec_approve", file_deny |-> "file_approve", network_deny |-> "network_approve"]

\* Mutant: a program that needs an approval stays in an allowlist.
KernelAllows(r, lifted) ==
  LET Deny(list) == ListOf(r, list) \cup IF lifted THEN {} ELSE ListOf(r, ApproveList[list]) IN
  [r EXCEPT !.lists = Over([exec_deny |-> Deny("exec_deny"), network_deny |-> Deny("network_deny"),
                            file_deny |-> FilePaths(Deny("file_deny"))], @)]

Kernel(r, lifted) ==
  LET Deny(list) == ListOf(r, list) \cup IF lifted THEN {} ELSE ListOf(r, ApproveList[list])
      approve == ListOf(r, "exec_approve")
      allow   == ListOf(r, "exec_allow")
  IN [mode  |-> r.mode,
      lists |-> Over([exec_deny    |-> Deny("exec_deny"),
                      network_deny |-> Deny("network_deny"),
                      file_deny    |-> FilePaths(Deny("file_deny")),
                      file_alert   |-> FilePaths(ListOf(r, "file_alert")),
                      exec_allow   |-> IF r.mode # "allowlist" THEN allow
                                       ELSE IF lifted THEN allow \cup approve ELSE allow \ approve], r.lists)]

-----------------------------------------------------------------------------
\* What Tetragon is told: for each hook the selectors in order, each with what
\* it hits and whether it refuses the call (Override) or reports it (Post).

Enforced(r) == r.mode \in {"denylist", "allowlist"}
Suffixed(files) == {f \in Files : \E s \in files : IsSuffix(s, f)}
Blocks(cidrs)   == UNION {Block(c) : c \in cidrs}

\* Where a rule gates programs, the kernel is told who may still run them.
Exempt(r) == IF ListOf(r, "gated_exec") = {} THEN {} ELSE Daemon

\* The agent's own calls: the gate's, which is the daemon, pass the last selector.
ExecSelectors(r) ==
  LET gated == ListOf(r, "gated_exec") IN
  (IF r.mode = "allowlist"
     THEN <<[hits |-> Programs \ (ListOf(r, "exec_allow") \cup gated \cup Exempt(r)), override |-> TRUE]>>
     ELSE <<[hits |-> ListOf(r, "exec_deny"), override |-> Enforced(r)]>>)
  \o IF Exempt(r) # {} THEN <<[hits |-> gated, override |-> Enforced(r)]>> ELSE <<>>

Canary == <<".effigent-canary">>
FileSelectors(r) ==
  <<[hits |-> Suffixed({Canary}), override |-> TRUE],
    [hits |-> Suffixed(ListOf(r, "file_deny")), override |-> Enforced(r)],
    [hits |-> Suffixed(ListOf(r, "file_alert")), override |-> FALSE]>>

\* loopback: always reachable; guard: the resolvers an agent may not ask.
NetSelectors(r, loopback, guard) ==
  <<[hits |-> Blocks(ListOf(r, "network_deny")), override |-> Enforced(r)],
    [hits |-> guard, override |-> Enforced(r)]>>
  \o IF ListOf(r, "network_allow") = {} THEN <<>>
     ELSE <<[hits |-> Addresses \ (Blocks(ListOf(r, "network_allow")) \cup loopback),
             override |-> Enforced(r)]>>

\* The first selector that matches decides.
Verdict(selectors, x) ==
  LET hit == {i \in DOMAIN selectors : x \in selectors[i].hits}
      one == CHOOSE i \in hit : \A j \in hit : i <= j
  IN IF hit = {} THEN "pass" ELSE IF selectors[one].override THEN "blocked" ELSE "would_block"
=============================================================================
