------------------------------ MODULE Alignment ------------------------------
(***************************************************************************)
(* region-match-v1: alignPage of packages/compare/alignment.  A page holds  *)
(* two readers' occurrences; boxes stand for polygons, and the cost of a    *)
(* candidate pair (geometry, order and text distance, weighted) is an input *)
(* in hundredths, computed exactly.  One step aligns the page.              *)
(***************************************************************************)
EXTENDS Integers, FiniteSets, Sequences, SequencesExt

CONSTANTS Pages,                  \* the pages explored
          MaxComponentFragments,  \* 64 in the code
          GapTolerance,           \* min(1.5 median heights, 24 pt) of the page
          NotAligned, NoRegion    \* values apart from every result and box

VARIABLES page,     \* [left, right: Seq(occurrence), region, cost]
          aligned   \* the AlignmentResult, or NotAligned

alignVars == <<page, aligned>>

AcceptCost == 45
MinMargin == 12
\* Mutant: leaving a fragment unmatched is cheap.
UnmatchedPenaltyHalved == 25
UnmatchedPenalty == 50
PairPreference == 20
MaxSpanFragments == 4

---------------------------------------------------------------------------
(* What a page is given as *)

Boxes == [x0 : Int, y0 : Int, x1 : Int, y1 : Int]

\* Two readings of a page, and what pairing any fragments of them would cost.
IsPage(p) ==
    /\ \A side \in {"left", "right"} :
            /\ p[side] \in Seq(Range(p[side]))
            /\ \A i \in DOMAIN p[side] : p[side][i].box \in Boxes
    /\ \A l \in (SUBSET DOMAIN p.left) \ {{}}, r \in (SUBSET DOMAIN p.right) \ {{}} :
            p.cost[<<l, r>>] \in 0..100

PagesAssumption == \A p \in Pages : IsPage(p)

ASSUME PagesAssumption

ASSUME TolerancesAssumption == GapTolerance \in Int /\ MaxComponentFragments \in Nat

---------------------------------------------------------------------------
(* Boxes *)

Least(a, b) == IF a < b THEN a ELSE b
Most(a, b) == IF a > b THEN a ELSE b

\* The overlap of two vertical bands is at least half of the smaller height.
SameBand(a, b) ==
    2 * (Least(a.y1, b.y1) - Most(a.y0, b.y0)) >= Least(a.y1 - a.y0, b.y1 - b.y0)

Gap(a, b) == Most(0, Most(a.x0, b.x0) - Least(a.x1, b.x1))

Touch(a, b) == a.x0 <= b.x1 /\ b.x0 <= a.x1 /\ a.y0 <= b.y1 /\ b.y0 <= a.y1

Within(a, b) == a.x0 >= b.x0 /\ a.y0 >= b.y0 /\ a.x1 <= b.x1 /\ a.y1 <= b.y1

Near(a, b) == SameBand(a, b) /\ Gap(a, b) <= GapTolerance

---------------------------------------------------------------------------
(* Fragments, line runs and blocks *)

\* Missing geometry is never recovered: only a precise, non-degenerate polygon
\* on this page, touching the selected region, is localized.
Classify(o) ==
    IF ~o.onPage THEN "out_of_scope"
    ELSE IF o.geometry # "precise" THEN "page_level"
    ELSE IF page.region # NoRegion /\ ~Touch(o.box, page.region) THEN "out_of_scope"
    ELSE "localized"

Fragments(side) == {i \in DOMAIN page[side] : Classify(page[side][i]) = "localized"}

BoxOf(side, i) == page[side][i].box

\* The elements of S, each once, none of them after one it is before.
Ordered(S, before) ==
    CHOOSE s \in [1..Cardinality(S) -> S] :
        IsInjective(s) /\ \A i, j \in DOMAIN s : i < j => <<s[j], s[i]>> \notin before

\* No link leaves C.
Closed(C, links) == \A l \in links : l[1] \in C <=> l[2] \in C

\* The members of S connected with a.
Component(S, links, a) ==
    {c \in S : \A C \in SUBSET S : a \in C /\ Closed(C, links) => c \in C}

Components(S, links) == {Component(S, links, a) : a \in S}

Bounds(side, f) ==
    [x0 |-> Min({BoxOf(side, i).x0 : i \in f}), y0 |-> Min({BoxOf(side, i).y0 : i \in f}),
     x1 |-> Max({BoxOf(side, i).x1 : i \in f}), y1 |-> Max({BoxOf(side, i).y1 : i \in f})]

\* Left to right.
ByX(side, band) ==
    Ordered(band, {p \in band \X band :
                        \/ BoxOf(side, p[1]).x0 < BoxOf(side, p[2]).x0
                        \/ BoxOf(side, p[1]).x0 = BoxOf(side, p[2]).x0 /\ p[1] < p[2]})

\* A fragment joins the last run, or begins one where the gap is too wide.
Flushed(side, runs, i) ==
    IF runs # <<>> /\ Gap(Bounds(side, Range(Last(runs))), BoxOf(side, i)) <= GapTolerance
        THEN Append(Front(runs), Append(Last(runs), i))
        ELSE Append(runs, <<i>>)

\* The runs of a band.
SplitBand(side, band) ==
    LET byX == ByX(side, band)
        runs[k \in 0..Cardinality(band)] ==
            IF k = 0 THEN <<>> ELSE Flushed(side, runs[k - 1], byX[k])
    IN  runs[Cardinality(band)]

Banded(side) == {p \in Fragments(side) \X Fragments(side) : SameBand(BoxOf(side, p[1]), BoxOf(side, p[2]))}

LineRuns(side) ==
    UNION {Range(SplitBand(side, band)) : band \in Components(Fragments(side), Banded(side))}

\* Runs of the two sides that may hold the same reading; a right run below the
\* left run's band is never compared.
Linked(l, r) ==
    LET a == Bounds("left", Range(l))
        b == Bounds("right", Range(r))
    IN  b.y0 < a.y1 /\ (Near(a, b) \/ Touch(a, b))

\* Sorted by top, then left.
Above(side, r, s) ==
    LET a == Bounds(side, Range(r))
        b == Bounds(side, Range(s))
    IN  \/ a.y0 < b.y0
        \/ a.y0 = b.y0 /\ a.x0 < b.x0
        \/ a.y0 = b.y0 /\ a.x0 = b.x0 /\ r[1] < s[1]

ReadingOrder(side, runs) == Ordered(runs, {p \in runs \X runs : Above(side, p[1], p[2])})

Nodes == ({"left"} \X LineRuns("left")) \cup ({"right"} \X LineRuns("right"))

Links == {l \in Nodes \X Nodes : l[1][1] = "left" /\ l[2][1] = "right" /\ Linked(l[1][2], l[2][2])}

RunsOf(nodes, side) == ReadingOrder(side, {n[2] : n \in {m \in nodes : m[1] = side}})

\* A block: per side its runs in reading order, and its fragments in that order.
BlockOf(nodes) ==
    [runs |-> [side \in {"left", "right"} |-> RunsOf(nodes, side)],
     order |-> [side \in {"left", "right"} |-> FlattenSeq(RunsOf(nodes, side))]]

Blocks ==
    {BlockOf(c) : c \in {d \in Components(Nodes, Links) :
                            \E m, n \in d : m[1] = "left" /\ n[1] = "right"}}

TooLarge(block) == \E side \in {"left", "right"} :
                        Len(block.order[side]) > MaxComponentFragments

---------------------------------------------------------------------------
(* Candidates *)

\* Contiguous fragments of one run, whose union stays inside the region.
Spans(block, side) ==
    {s \in [from : DOMAIN block.order[side], len : 1..MaxSpanFragments] :
        /\ s.from + s.len - 1 \in DOMAIN block.order[side]
        /\ \E r \in Range(block.runs[side]) :
                {block.order[side][k] : k \in s.from..(s.from + s.len - 1)} \subseteq Range(r)
        /\ page.region = NoRegion
            \/ \A k \in s.from..(s.from + s.len - 1) :
                    Within(BoxOf(side, block.order[side][k]), page.region)}

Covers(block, side, s) == {block.order[side][k] : k \in s.from..(s.from + s.len - 1)}

Pairing(block, l, r) ==
    [l |-> l, r |-> r, left |-> Covers(block, "left", l), right |-> Covers(block, "right", r)]

\* The geometric gate on the spans' unions.
PairAdmitted(p) ==
    LET a == Bounds("left", p.left)
        b == Bounds("right", p.right)
    IN  Touch(a, b) \/ Near(a, b)

Candidates(block) ==
    {p \in {Pairing(block, l, r) : l \in Spans(block, "left"), r \in Spans(block, "right")} :
        PairAdmitted(p)}

CostOf(p) == page.cost[<<p.left, p.right>>]

Key(p) == <<p.l.from, p.l.len, p.r.from, p.r.len>>

---------------------------------------------------------------------------
(* The bounded non-crossing assignment *)

\* solveAssignment: cost maps keys (from, length; from, length) to costs.  A
\* cell holds the least total of the first i and j fragments and the pairs that
\* reach it; moves are tried in the order match (by a, then b), skip left, skip
\* right, and a later one only wins with a smaller total.
KeyAt(i, j, m) == <<i - m[1] + 1, m[1], j - m[2] + 1, m[2]>>

MatchMove(cell, cost, i, j, m) ==
    LET rest == cell[<<i - m[1], j - m[2]>>]
    IN  [total |-> rest.total + cost[KeyAt(i, j, m)] - PairPreference,
         pairs |-> rest.pairs \cup {KeyAt(i, j, m)}, rank |-> 10 * m[1] + m[2]]

SkipMove(rest, rank) ==
    [total |-> rest.total + UnmatchedPenalty, pairs |-> rest.pairs, rank |-> rank]

WaysTo(cell, cost, i, j) ==
    {MatchMove(cell, cost, i, j, m) :
        m \in {n \in (1..Least(i, MaxSpanFragments)) \X (1..Least(j, MaxSpanFragments)) :
                    KeyAt(i, j, n) \in DOMAIN cost}}
    \cup (IF i > 0 THEN {SkipMove(cell[<<i - 1, j>>], 100)} ELSE {})
    \cup (IF j > 0 THEN {SkipMove(cell[<<i, j - 1>>], 101)} ELSE {})

BestMove(moves) ==
    CHOOSE m \in moves : \A n \in moves :
        m.total < n.total \/ (m.total = n.total /\ m.rank <= n.rank)

NoMove == [total |-> 0, pairs |-> {}, rank |-> 0]

\* Filled by diagonals: a cell only reads cells of smaller i + j.
Solve(nLeft, nRight, cost) ==
    LET cells == (0..nLeft) \X (0..nRight)
        upTo[d \in 0..(nLeft + nRight)] ==
            IF d = 0 THEN [c \in cells |-> NoMove]
            ELSE LET cell == upTo[d - 1]
                 IN  [c \in cells |-> IF c[1] + c[2] = d THEN BestMove(WaysTo(cell, cost, c[1], c[2]))
                                                       ELSE cell[c]]
    IN  upTo[nLeft + nRight][<<nLeft, nRight>>]

OfKey(candidates, key) == CHOOSE p \in candidates : Key(p) = key

CostsOf(candidates) ==
    [key \in {Key(p) : p \in candidates} |-> CostOf(OfKey(candidates, key))]

\* The assignment of a block over some of its candidates.
SolveBlock(block, candidates) ==
    LET solved == Solve(Len(block.order.left), Len(block.order.right), CostsOf(candidates))
    IN  [total |-> solved.total, pairs |-> {OfKey(candidates, key) : key \in solved.pairs}]

Shares(p, q) == p.left \cap q.left # {} \/ p.right \cap q.right # {}

\* The place of fragment i among the fragments S of a block, in reading order.
Place(block, side, S, i) ==
    Cardinality({j \in S : \E m, n \in DOMAIN block.order[side] :
                                m <= n /\ block.order[side][m] = j /\ block.order[side][n] = i})

KeyAmong(block, left, right, p) ==
    <<Min({Place(block, "left", left, i) : i \in p.left}), Cardinality(p.left),
      Min({Place(block, "right", right, i) : i \in p.right}), Cardinality(p.right)>>

CandidatesAmong(candidates, left, right) ==
    {p \in candidates : p.left \subseteq left /\ p.right \subseteq right}

CostsAmong(block, left, right, inside) ==
    [k \in {KeyAmong(block, left, right, p) : p \in inside} |->
        CostOf(CHOOSE p \in inside : KeyAmong(block, left, right, p) = k)]

\* The fragments a rival displaces, matched again among themselves.
Rescue(block, left, right, candidates) ==
    Solve(Cardinality(left), Cardinality(right),
          CostsAmong(block, left, right, CandidatesAmong(candidates, left, right))).total

Total(f) == FoldFunction(LAMBDA x, total : x + total, 0, f)

Displaced(optimal, p, q) == {p} \cup {o \in optimal.pairs : Shares(o, q)}

\* What it costs to choose q instead of p and of what else q displaces.
ExchangeDelta(block, candidates, optimal, p, q) ==
    LET left == UNION {o.left : o \in Displaced(optimal, p, q)}
        right == UNION {o.right : o \in Displaced(optimal, p, q)}
        newly == Cardinality(q.left \ left) + Cardinality(q.right \ right)
    IN  Total([o \in Displaced(optimal, p, q) |-> PairPreference - CostOf(o)])
            + CostOf(q) - PairPreference - UnmatchedPenalty * newly
            + Rescue(block, left \ q.left, right \ q.right, candidates)

\* The rivals of p that displace at most two other chosen pairs.
Rivals(candidates, optimal, p) ==
    {q \in candidates : q # p /\ Shares(p, q) /\ Cardinality(Displaced(optimal, p, q)) <= 3}

\* Mutant: only assignments that do not cross compete.
GapsOfTheOptimum(block, candidates, optimal, p) ==
    {SolveBlock(block, candidates \ {p}).total - optimal.total}

\* The cost gaps of the competing assignments: the best one without p, and the
\* local exchanges, which may cross.
Gaps(block, candidates, optimal, p) ==
    {SolveBlock(block, candidates \ {p}).total - optimal.total}
        \cup {ExchangeDelta(block, candidates, optimal, p, q) :
                q \in Rivals(candidates, optimal, p)}

Margin(block, candidates, optimal, p) ==
    LET gaps == Gaps(block, candidates, optimal, p)
    IN  CHOOSE g \in gaps : \A h \in gaps : g <= h

---------------------------------------------------------------------------
(* One block, and the page *)

Ordinals(side, f) == Total([i \in f |-> page[side][i].ordinal])

\* The mean ordinals of two units are ordered one way left and the other right.
Inverted(p, q) ==
    LET d(side, a, b) == Ordinals(side, a) * Cardinality(b) - Ordinals(side, b) * Cardinality(a)
    IN  d("left", p.left, q.left) * d("right", p.right, q.right) < 0

\* The element of a singleton: what is bound this way is computed once.
Sole(S) == CHOOSE x \in S : TRUE

\* A chosen pair is a match when it is cheap, keeps its margin to its gaps and
\* inverts no other such pair; otherwise every candidate stays accessible.
Outcome(candidates, optimal, margin) ==
    LET provisional == {p \in optimal.pairs : CostOf(p) <= AcceptCost /\ margin[p] >= MinMargin}
        conflicted == {p \in provisional : \E q \in provisional : Inverted(p, q)}
        matches == provisional \ conflicted
        reason(p) == IF p \in conflicted THEN "order_conflict"
                     ELSE IF margin[p] < MinMargin THEN "tie" ELSE "weak"
    IN  [matches |-> matches,
         ambiguous |-> {[unit |-> p, reason |-> reason(p),
                         candidates |-> {q \in candidates : Shares(p, q)}] :
                            p \in optimal.pairs \ matches}]

MatchBlock(block) ==
    Sole(UNION {UNION {
        {Outcome(candidates, optimal, margin) :
            margin \in {[p \in optimal.pairs |-> Margin(block, candidates, optimal, p)]}} :
                optimal \in {SolveBlock(block, candidates)}} :
                    candidates \in {Candidates(block)}})

\* The answer from what each block came to.  Of several entries a reading belongs
\* to the code keeps the last index; the model keeps none.
Alignments(outcome) ==
    LET blocks == DOMAIN outcome
        matches == UNION {outcome[b].matches : b \in blocks}
        ambiguous == UNION {outcome[b].ambiguous : b \in blocks}
        mentioned(e) == {e.unit} \cup e.candidates
        status(side, i) ==
            IF i \notin Fragments(side) THEN Classify(page[side][i])
            ELSE IF \E p \in matches : i \in p[side] THEN "unique"
            ELSE IF \E e \in ambiguous : \E p \in mentioned(e) : i \in p[side] THEN "ambiguous"
            ELSE IF \E b \in blocks : TooLarge(b) /\ i \in Range(b.order[side]) THEN "abstained"
            ELSE "unmatched"
        firstOf(side, p) == CHOOSE o \in {page[side][i].ordinal : i \in p[side]} :
                                \A i \in p[side] : o <= page[side][i].ordinal
        inverts(p, q) == (firstOf("left", p) < firstOf("left", q))
                            /\ (firstOf("right", p) > firstOf("right", q))
    IN  [matches |-> matches, ambiguous |-> ambiguous,
         status |-> [side \in {"left", "right"} |->
                        [i \in DOMAIN page[side] |-> status(side, i)]],
         orderDifferences |-> {p \in matches : \E q \in matches : inverts(p, q) \/ inverts(q, p)}]

\* alignPage, without the diagnostics.
AlignPage ==
    Sole({Alignments(outcome) : outcome \in
            {[b \in Blocks |-> IF TooLarge(b) THEN [matches |-> {}, ambiguous |-> {}]
                                              ELSE MatchBlock(b)]}})

AlignInit == page \in Pages /\ aligned = NotAligned

Align == /\ aligned = NotAligned
         /\ aligned' = AlignPage
         /\ UNCHANGED page

---------------------------------------------------------------------------
(* What an assignment is, for the properties *)

Done == aligned # NotAligned

\* Sets of candidates in which no reading is used twice.
Assignments(candidates) ==
    {A \in SUBSET candidates : \A p, q \in A : p # q => ~Shares(p, q)}

Crossing(p, q) == (p.l.from - q.l.from) * (p.r.from - q.r.from) < 0

Price(block, A) ==
    Total([p \in A |-> CostOf(p) - PairPreference])
        + UnmatchedPenalty * (Len(block.order.left) - Cardinality(UNION {p.left : p \in A})
                                + Len(block.order.right) - Cardinality(UNION {p.right : p \in A}))

\* The bounded solver finds a cheapest assignment among those that do not cross.
OptimumIsCheapest ==
    Done => \A b \in {c \in Blocks : ~TooLarge(c)} :
        LET candidates == Candidates(b)
            optimal == SolveBlock(b, candidates)
        IN  /\ Price(b, optimal.pairs) = optimal.total
            /\ \A A \in Assignments(candidates) :
                    (\A p, q \in A : ~Crossing(p, q)) => optimal.total <= Price(b, A)

\* Every candidate of a block reuses or crosses a chosen pair, so that "no
\* matching reading found here" is said of a localized reading only if none could
\* be added; a reading that is not localized takes no part, whatever its text;
\* and no reading is matched twice.
UnmatchedHasNoPartner ==
    Done =>
        LET chosen == aligned.matches \cup {e.unit : e \in aligned.ambiguous}
            mentioned == aligned.matches \cup UNION {e.candidates : e \in aligned.ambiguous}
        IN  /\ \A p, q \in aligned.matches : p # q => ~Shares(p, q)
            /\ \A p \in mentioned : p.left \subseteq Fragments("left") /\ p.right \subseteq Fragments("right")
            /\ \A b \in {c \in Blocks : ~TooLarge(c)} : \A q \in Candidates(b) :
                    \/ \E p \in chosen : Shares(p, q)
                    \/ \E p \in chosen : p \in Candidates(b) /\ Crossing(p, q)

\* The matching is the cheapest that keeps reading order, and what it leaves out
\* had no place.
MatchingIsBest == OptimumIsCheapest /\ UnmatchedHasNoPartner

\* p and o with their partners exchanged.
Swapped(candidates, p, o) ==
    {s \in candidates : \/ s.left = p.left /\ s.right = o.right
                        \/ s.left = o.left /\ s.right = p.right}

\* A match is reported only if every assignment without it that keeps reading
\* order, and every exchange of partners with one other chosen pair, costs at
\* least the margin more.  Nothing is said of the other assignments that cross:
\* with c(1,1) = c(2,2) = c(1,2) = c(3,1) = 0 and all other costs 60 the pair
\* (2,2) is a match although {(1,2), (3,1)} costs as little, because the rescue
\* of a rival only matches again what the rival displaced.
UniqueSurvivesRivals ==
    Done => \A b \in {c \in Blocks : ~TooLarge(c)} :
        LET candidates == Candidates(b)
            optimal == SolveBlock(b, candidates)
            worse(A) == Price(b, A) >= optimal.total + MinMargin
        IN  \A p \in aligned.matches \cap candidates :
                /\ \A A \in Assignments(candidates \ {p}) :
                        (\A q, r \in A : ~Crossing(q, r)) => worse(A)
                /\ \A o \in optimal.pairs \ {p} :
                        LET swap == Swapped(candidates, p, o)
                        IN  Cardinality(swap) = 2 => worse((optimal.pairs \ {p, o}) \cup swap)

\* A page's matching is the cheapest of those that keep reading order, nothing
\* could be added to it, and a match of it keeps its margin to those without it
\* and to a single exchange of partners.
MatchingIsSound == MatchingIsBest /\ UniqueSurvivesRivals
=============================================================================
