----------------------------- MODULE Comparison -----------------------------
(***************************************************************************)
(* Comparison of stored runs (native/inkflip/baselines/engine.py, compare   *)
(* and write_pair_comparison): both sides are loaded and checked, one      *)
(* report pair after another is compared, each written as an artifact of    *)
(* its own, and the verdict of the whole is put together at the end.        *)
(*                                                                         *)
(* A reading's text, a document, a reader configuration and a profile are   *)
(* values compared for equality; a position is a number of points, or       *)
(* Nowhere. What the comparator process answers is any pairing of readings. *)
(***************************************************************************)
EXTENDS Naturals, Sequences, FiniteSets

CONSTANTS CompareRequests, \* what compare() may be called with
          NoReport, NoRules, Unstated, Nowhere

\* The keys of reports are ordered: they stand for numbers.
ASSUME CompareAssumption ==
    \A r \in CompareRequests : \A side \in {r.left, r.right} :
        (DOMAIN side.reports) \cup side.intended \subseteq Nat

VARIABLES asked,    \* the call
          stage,    \* "loading", "checking", "comparing", "ended"
          outcome,  \* key -> the comparison written for it
          verdict   \* status, exit code and canonical artifact

compareVars == <<asked, stage, outcome, verdict>>

Statuses == {"unchanged", "changed", "regressed", "errored", "incomparable"}
NoVerdict == [status |-> "none", code |-> 0, canonical |-> NoReport]

\* Exit codes.
OK == 0
INVALID == 2
PARTIAL == 3
MISSING == 4
REGRESSION == 5
INCOMPARABLE == 6

SetMin(S) == CHOOSE x \in S : \A y \in S : x <= y

----------------------------------------------------------------------------
(***************************************************************************)
(* The sides.                                                              *)
(***************************************************************************)
\* "readable": found, of a known kind, its reports valid under unambiguous keys.
\* A baseline's reports must be the recorded ones.
Loadable(side) ==
    /\ side.readable
    /\ side.kind = "baseline" => side.recorded = DOMAIN side.reports

\* A run that declares its intended keys lists the missing ones too.
Loaded(side) ==
    [k \in DOMAIN side.reports \cup (IF side.kind = "run" THEN side.intended ELSE {}) |->
        IF k \in DOMAIN side.reports THEN side.reports[k] ELSE NoReport]

CompareKeys == DOMAIN Loaded(asked.left) \cup DOMAIN Loaded(asked.right)

ReportOf(side, key) == IF key \in DOMAIN Loaded(side) THEN Loaded(side)[key] ELSE NoReport

\* The profile a run declares must be the one its reports recorded.
ContradictsItself(side) ==
    LET embedded == {side.reports[k].profile : k \in DOMAIN side.reports} \ {Unstated}
    IN  \/ Cardinality(embedded) > 1
        \/ embedded # {} /\ side.declared # Unstated /\ side.declared \notin embedded

AlgorithmsDiffer(left, right) ==
    left.algorithm # Unstated /\ right.algorithm # Unstated /\ left.algorithm # right.algorithm

----------------------------------------------------------------------------
(***************************************************************************)
(* Acceptance rules.                                                       *)
(***************************************************************************)
InScope(rule, o) ==
    /\ o.page = rule.page
    /\ rule.reader # Unstated => o.reader = rule.reader
    /\ rule.region # Unstated => o.region = rule.region

Scoped(rule, r) == SelectSeq(r.occurrences, LAMBDA o : InScope(rule, o))

Texts(occurrences) == [i \in DOMAIN occurrences |-> occurrences[i].raw]

ScopedChecks(rule, r) ==
    {c \in DOMAIN r.checks :
        /\ r.checks[c].page = rule.page
        /\ rule.reader # Unstated => r.checks[c].reader = rule.reader
        /\ rule.region # Unstated => r.checks[c].region = rule.region}

Distance(a, b) == IF a > b THEN a - b ELSE b - a

\* Positions are compared in order, those that both sides have.
Deltas(before, after) ==
    {Distance(before[i].place, after[i].place) :
        i \in {j \in (DOMAIN before) \cap (DOMAIN after) :
                  before[j].place # Nowhere /\ after[j].place # Nowhere}}

\* What one rule says of a pair. A rule about another document says nothing.
RuleFinding(rule, left, right) ==
    LET before == Scoped(rule, left)
        after == Scoped(rule, right)
        violated ==
            CASE rule.type = "expected_text" -> \A i \in DOMAIN after : after[i].raw # rule.value
              [] rule.type = "stable_reading" -> Texts(after) # Texts(before)
              [] rule.type = "required_coverage" ->
                    \A c \in ScopedChecks(rule, right) : right.checks[c].status # "completed"
              [] rule.type = "expected_occurrence_count" -> Len(after) # rule.value
              [] rule.type = "max_geometry_delta" -> \E d \in Deltas(before, after) : d > rule.value
    IN  IF rule.document # right.document THEN "none"
        ELSE IF rule.type = "max_geometry_delta" /\ Deltas(before, after) = {} THEN "incomparable"
        ELSE IF violated THEN "violated" ELSE "none"

RuleFindings(rules, left, right) ==
    IF rules = NoRules THEN {} ELSE {RuleFinding(rule, left, right) : rule \in rules.rules}

----------------------------------------------------------------------------
(***************************************************************************)
(* One pair of reports.                                                    *)
(***************************************************************************)
Pages(r) == {r.occurrences[i].page : i \in DOMAIN r.occurrences}

\* The readings the comparator was asked about; with none it is not asked.
AsksComparator(left, right) == Pages(left) \cup Pages(right) # {}

\* What it may answer: an order of pages that differs, and pairs of readings of one page.
Alignments(left, right) ==
    {a \in [reordered : BOOLEAN, pairs : SUBSET ((DOMAIN left.occurrences) \X (DOMAIN right.occurrences))] :
        /\ \A p \in a.pairs : left.occurrences[p[1]].page = right.occurrences[p[2]].page
        /\ \A p, q \in a.pairs : p[1] = q[1] \/ p[2] = q[2] => p = q
        /\ a.reordered => Cardinality(a.pairs) > 1}

StatusesOf(r) == [c \in DOMAIN r.checks |-> r.checks[c].status]

\* Statuses compared by how many checks have them.
ChecksDifferInNumber(left, right) == Cardinality(DOMAIN left.checks) # Cardinality(DOMAIN right.checks)

ChecksDiffer(left, right) == StatusesOf(left) # StatusesOf(right)

ReadingChanged(left, right, alignment) ==
    \/ ChecksDiffer(left, right)
    \/ alignment.reordered
    \/ \E p \in alignment.pairs : left.occurrences[p[1]].norm # right.occurrences[p[2]].norm
    \/ Texts(left.occurrences) # Texts(right.occurrences)

Completed(r) == {c \in DOMAIN r.checks : r.checks[c].status = "completed"}

CoverageLost(left, right) ==
    \/ Cardinality(Completed(right)) < Cardinality(Completed(left))
    \/ Len(right.occurrences) < Len(left.occurrences)

Pair(status, code) == [status |-> status, code |-> code]

Policy(rules, field) == rules # NoRules /\ rules[field]

OneSideMissing(rules) ==
    IF Policy(rules, "failOnCoverageLoss") \/ Policy(rules, "failOnError")
    THEN Pair("regressed", REGRESSION) ELSE Pair("errored", PARTIAL)

\* A mode that compares documents or readers says which of them may differ.
Comparable(left, right, mode) ==
    /\ left.document = right.document \/ mode = "document_versions"
    /\ left.readers = right.readers \/ mode \in {"reader_upgrade", "document_versions"}

BothPresent(left, right, rules, alignment) ==
    LET findings == RuleFindings(rules, left, right)
        lost == CoverageLost(left, right)
        failed == \E c \in DOMAIN right.checks : right.checks[c].status \in {"failed", "timeout"}
    IN  IF \/ "violated" \in findings
           \/ lost /\ Policy(rules, "failOnCoverageLoss")
           \/ failed /\ Policy(rules, "failOnError")
        THEN Pair("regressed", REGRESSION)
        ELSE IF ReadingChanged(left, right, alignment) \/ lost \/ "incomparable" \in findings
        THEN Pair("changed", OK)
        ELSE Pair("unchanged", OK)

BuildComparison(left, right, alignment) ==
    IF left = NoReport \/ right = NoReport THEN OneSideMissing(asked.rules)
    ELSE IF ~Comparable(left, right, asked.mode) THEN Pair("incomparable", INCOMPARABLE)
    ELSE BothPresent(left, right, asked.rules, alignment)

----------------------------------------------------------------------------
(***************************************************************************)
(* The whole.                                                              *)
(***************************************************************************)
CompareInit ==
    /\ asked \in CompareRequests
    /\ stage = "loading" /\ outcome = <<>> /\ verdict = NoVerdict

EndWith(status, code) ==
    /\ stage' = "ended"
    /\ verdict' = [status |-> status, code |-> code, canonical |-> NoReport]
    /\ UNCHANGED <<asked, outcome>>

\* A baseline record that breaks the contract raises past compare(); the rest is refused.
LoadSides ==
    /\ stage = "loading"
    /\ IF asked.left.broken \/ asked.right.broken THEN EndWith("raised", MISSING)
       ELSE IF ~Loadable(asked.left) \/ ~Loadable(asked.right) THEN EndWith("incomparable", INVALID)
       ELSE stage' = "checking" /\ UNCHANGED <<asked, outcome, verdict>>

CheckSides ==
    /\ stage = "checking"
    /\ IF \/ ~asked.rulesValid \/ CompareKeys = {} \/ asked.overlaps
          \/ ContradictsItself(asked.left) \/ ContradictsItself(asked.right)
       THEN EndWith("incomparable", INVALID)
       ELSE IF AlgorithmsDiffer(asked.left, asked.right) THEN EndWith("incomparable", INCOMPARABLE)
       ELSE stage' = "comparing" /\ UNCHANGED <<asked, outcome, verdict>>

\* Keys in order. Both sides may lack one that they intended: that raises.
CompareKey ==
    /\ stage = "comparing" /\ CompareKeys # DOMAIN outcome
    /\ LET key == SetMin(CompareKeys \ DOMAIN outcome)
           left == ReportOf(asked.left, key)
           right == ReportOf(asked.right, key)
           both == left # NoReport /\ right # NoReport
       IN  IF left = NoReport /\ right = NoReport THEN EndWith("raised", MISSING)
           ELSE \/ both /\ AsksComparator(left, right) /\ EndWith("incomparable", INVALID)
                \/ /\ \E a \in IF both THEN Alignments(left, right) ELSE {NoReport} :
                         outcome' = [k \in DOMAIN outcome \cup {key} |->
                                        IF k = key THEN BuildComparison(left, right, a) ELSE outcome[k]]
                   /\ UNCHANGED <<asked, stage, verdict>>

\* The worse exit code by its number.
PrecedenceByNumber(code) == code

Precedence(code) ==
    CASE code = INVALID -> 10 [] code = MISSING -> 9 [] code = REGRESSION -> 8
      [] code = INCOMPARABLE -> 7 [] code = PARTIAL -> 6 [] code = OK -> 0

\* --fail-on changed makes a change a regression.
CodeOf(key) ==
    IF asked.failOnChanged /\ outcome[key].status = "changed" THEN REGRESSION ELSE outcome[key].code

Worst == CHOOSE w \in {CodeOf(k) : k \in DOMAIN outcome} :
            \A k \in DOMAIN outcome : Precedence(CodeOf(k)) <= Precedence(w)

StatusOfAll(worst) ==
    CASE worst = REGRESSION -> "regressed"
      [] worst = INCOMPARABLE -> "incomparable"
      [] worst = PARTIAL -> "errored"
      [] OTHER -> IF \E k \in DOMAIN outcome : outcome[k].status = "changed" THEN "changed" ELSE "unchanged"

\* comparison.json is the first pair that is worse than changed, else the first.
Canonical ==
    LET grave == {k \in DOMAIN outcome : outcome[k].status \in {"regressed", "errored", "incomparable"}}
    IN  SetMin(IF grave = {} THEN DOMAIN outcome ELSE grave)

Conclude ==
    /\ stage = "comparing" /\ CompareKeys = DOMAIN outcome
    /\ stage' = "ended"
    /\ verdict' = [status |-> StatusOfAll(Worst), code |-> Worst,
                   canonical |-> IF asked.writes THEN Canonical ELSE NoReport]
    /\ UNCHANGED <<asked, outcome>>

CompareNext == LoadSides \/ CheckSides \/ CompareKey \/ Conclude

CompareSpec == CompareInit /\ [][CompareNext]_compareVars

----------------------------------------------------------------------------
CompareTypeOK ==
    /\ asked \in CompareRequests
    /\ stage \in {"loading", "checking", "comparing", "ended"}
    /\ DOMAIN outcome \subseteq CompareKeys
    /\ \A k \in DOMAIN outcome :
          outcome[k] \in [status : Statuses, code : {OK, PARTIAL, REGRESSION, INCOMPARABLE}]
    /\ verdict.status \in Statuses \cup {"none", "raised"}
    /\ verdict.canonical \in CompareKeys \cup {NoReport}

Concluded == stage = "ended" /\ outcome # <<>> /\ DOMAIN outcome = CompareKeys

Has(statuses) == \E k \in DOMAIN outcome : outcome[k].status \in statuses

(***************************************************************************)
(* engine.py, docs/CLI.md: the exit code and the status of a comparison     *)
(* that ran to its end are those of its gravest pair, a regression before   *)
(* an incomparable pair before a missing one, whatever the order of the     *)
(* keys, and the canonical artifact is one of the gravest kinds when there  *)
(* is any.                                                                  *)
(***************************************************************************)
VerdictTellsAll ==
    Concluded =>
        /\ verdict.code =
              IF Has({"regressed"}) \/ (asked.failOnChanged /\ Has({"changed"})) THEN REGRESSION
              ELSE IF Has({"incomparable"}) THEN INCOMPARABLE
              ELSE IF Has({"errored"}) THEN PARTIAL
              ELSE OK
        /\ (verdict.status = "unchanged") <=> (\A k \in CompareKeys : outcome[k].status = "unchanged")
        /\ asked.writes /\ Has({"regressed", "errored", "incomparable"}) =>
              outcome[verdict.canonical].status \notin {"unchanged", "changed"}

(***************************************************************************)
(* engine.py "lost coverage cannot count as improvement": a comparison says *)
(* "unchanged" only when every report of the left side stands on the right, *)
(* every check that had completed still does, and no reading is gone; and   *)
(* under a policy on lost coverage a report that is missing, or fewer       *)
(* completed checks, is a regression.                                       *)
(***************************************************************************)
Lost(key) ==
    LET left == ReportOf(asked.left, key)
        right == ReportOf(asked.right, key)
    IN  /\ left # NoReport
        /\ \/ right = NoReport
           \/ ~(Completed(left) \subseteq Completed(right))
           \/ \E i \in DOMAIN left.occurrences :
                 \A j \in DOMAIN right.occurrences : left.occurrences[i].raw # right.occurrences[j].raw

Fewer(key) ==
    LET left == ReportOf(asked.left, key)
        right == ReportOf(asked.right, key)
    IN  /\ left # NoReport
        /\ \/ right = NoReport
           \/ /\ Comparable(left, right, asked.mode)
              /\ Cardinality(Completed(right)) < Cardinality(Completed(left))

LossIsSeen ==
    Concluded =>
        /\ verdict.status = "unchanged" => \A key \in CompareKeys : ~Lost(key)
        /\ Policy(asked.rules, "failOnCoverageLoss") /\ (\E key \in CompareKeys : Fewer(key)) =>
              verdict.code = REGRESSION

ComparisonTellsAll == VerdictTellsAll /\ LossIsSeen
=============================================================================
