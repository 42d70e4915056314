----------------------------- MODULE RbacDecision -----------------------------
(***************************************************************************)
(* What the RBAC middleware of BOS decides.  OAS exports its policies as   *)
(* p lines and its two role links as g lines; FileRBACEnforcer keeps the p *)
(* lines and matches a request against them segment by segment.  How the   *)
(* file gets from one process to the other is PolicySync's subject; here   *)
(* the export and the load are one step.                                   *)
(***************************************************************************)
EXTENDS Naturals, Sequences, FiniteSets

CONSTANTS
  Words,       \* the literal segments of paths and patterns
  Users,       \* user codes
  Roles,       \* role codes
  Methods,     \* HTTP methods
  Patterns,    \* resources of policies: sequences of segments
  Paths,       \* request paths: sequences of segments
  Effects,     \* what admins put into the effect of a policy
  MaxPolicies, \* bound: policies at any one time
  MaxSegments  \* bound: segments of what the matcher is compared on

Star == "*"
Param == ":"   \* a segment that begins with a colon

ASSUME SegmentsAssumption ==
  /\ Star \notin Words /\ Param \notin Words
  /\ Patterns \subseteq Seq(Words \cup {Star, Param}) /\ Paths \subseteq Seq(Words)
ASSUME RolesAssumption == Users \cap Roles = {}
ASSUME EffectsAssumption == Effects \subseteq {"allow", "deny"}
ASSUME BoundAssumption == MaxPolicies \in Nat /\ MaxSegments \in Nat

VARIABLES
  policies, \* rbac_policies, the active rows
  rules     \* FileRBACEnforcer.rules

ruleVars == <<policies, rules>>

-----------------------------------------------------------------------------
Rule == [subject : Users \cup Roles, resource : Patterns, action : Methods \cup {Star}]
Policy == [rule : Rule, effect : Effects]
Request == [user : Users, roles : SUBSET Roles, path : Paths, method : Methods]

\* Mutant: a star takes exactly one segment.
matchSegments_OneSegment(req, pat) ==
  LET matched[j \in 1 .. Len(pat) + 1] ==
        IF j > Len(pat) THEN {Len(req) + 1}
        ELSE {i \in 1 .. Len(req) :
                (pat[j] \in {Star, Param} \/ pat[j] = req[i]) /\ i + 1 \in matched[j + 1]}
  IN 1 \in matched[1]

\* The recursion of matchSegments, for all suffixes of the path at once:
\* matched[j] are the i such that the segments of the path from the i-th on
\* match those of the pattern from the j-th on.
matchSegments(req, pat) ==
  LET matched[j \in 1 .. Len(pat) + 1] ==
        IF j > Len(pat) THEN {Len(req) + 1}
        ELSE LET rest == matched[j + 1] IN
             IF pat[j] = Star THEN {i \in 1 .. Len(req) + 1 : \E k \in rest : i <= k}
             ELSE {i \in 1 .. Len(req) : (pat[j] = Param \/ pat[j] = req[i]) /\ i + 1 \in rest}
  IN 1 \in matched[1]

matchResource(path, pattern) ==
  pattern = <<Star>> \/ pattern = path \/ matchSegments(path, pattern)

matchAction(method, action) == action = Star \/ action = method

Matches(r, rule) ==
  matchResource(r.path, rule.resource) /\ matchAction(r.method, rule.action)

\* Enforce compares the subject of a rule with the user code alone.
Enforce(r) == \E rule \in rules : Matches(r, rule) /\ rule.subject = r.user

EnforceWithRoles(r) ==
  \E rule \in rules : Matches(r, rule) /\ (rule.subject = r.user \/ rule.subject \in r.roles)

\* Mutant: a token without roles is let through to the roles' rules.
RBAC_AnyRole(r) ==
  IF r.roles # {} THEN EnforceWithRoles(r) ELSE \E rule \in rules : Matches(r, rule)

\* The middleware: whether the request is let through.
RBAC(r) == IF r.roles # {} THEN EnforceWithRoles(r) ELSE Enforce(r)

\* RegeneratePolicyCSV writes subject, resource and action of every active
\* row, whatever its effect; loadPolicy keeps these lines, and drops g lines.
Exported(ps) == {p.rule : p \in ps}

-----------------------------------------------------------------------------
RulesInit == policies = {} /\ rules = {}

CreateRBACPolicy ==
  /\ Cardinality(policies) < MaxPolicies
  /\ \E p \in Policy \ policies : policies' = policies \cup {p}
  /\ UNCHANGED rules

DeleteRBACPolicy ==
  /\ \E p \in policies : policies' = policies \ {p}
  /\ UNCHANGED rules

\* The file is regenerated and the watcher has picked it up.
Reload ==
  /\ rules' = Exported(policies)
  /\ UNCHANGED policies

RulesNext == CreateRBACPolicy \/ DeleteRBACPolicy \/ Reload

RulesSpec == RulesInit /\ [][RulesNext]_ruleVars

-----------------------------------------------------------------------------
(* Reference definitions and properties.                                   *)

\* A pattern covers a path when the path can be cut into one piece for each
\* segment of the pattern, the piece of a star being of any length.
Fits(piece, seg) ==
  \/ seg = Star
  \/ Len(piece) = 1 /\ (seg = Param \/ piece[1] = seg)

Cuts(path, pattern) ==
  {c \in [0 .. Len(pattern) -> 0 .. Len(path)] :
     c[0] = 0 /\ c[Len(pattern)] = Len(path) /\ \A j \in 1 .. Len(pattern) : c[j - 1] <= c[j]}

Covers(path, pattern) ==
  \E c \in Cuts(path, pattern) :
    \A j \in 1 .. Len(pattern) : Fits(SubSeq(path, c[j - 1] + 1, c[j]), pattern[j])

\* All sequences over S of up to MaxSegments segments.
Segments(S) == UNION {[1 .. n -> S] : n \in 0 .. MaxSegments}

\* The recursive matcher, with its backtracking over stars, accepts exactly
\* the paths that can be cut up along the pattern.  It reads no state, so one
\* comparison, at the start, is enough.
GlobReference ==
  RulesInit => \A pattern \in Segments(Words \cup {Star, Param}), path \in Segments(Words) :
    matchResource(path, pattern) <=> Covers(path, pattern)

Holders(r) == {r.user} \cup r.roles

\* A request is let through if and only if some loaded rule that names the
\* user or one of the roles in the token covers its path and method; with no
\* rules or no roles the middleware fails closed.
DecisionByRule ==
  \A r \in Request :
    RBAC(r) <=>
      \E rule \in rules :
        /\ rule.subject \in Holders(r)
        /\ Covers(r.path, rule.resource) /\ rule.action \in {Star, r.method}
=============================================================================
