----------------------------- MODULE ContextBudget -----------------------------
(***************************************************************************)
(* Fitting an answer into a token budget, and a client that pages through   *)
(* the answers.  The candidates are ranked and freed of duplicates; a page  *)
(* of them is lowered in detail, then shortened, until the rendered         *)
(* response fits.  A context pack is one answer, and spends what is left on *)
(* leading lines of source; a search is paged: the client asks on from      *)
(* where the last answer ended, and with the tokens an answer without a     *)
(* row said one row needs.                                                  *)
(***************************************************************************)
EXTENDS Integers, Sequences, FiniteSets, SequencesExt

CONSTANTS
    Corpora,            \* sets of candidates an answer may be made of
    Tokens(_, _, _, _), \* Tokens(rows, detail, left, limit): estimate of a response
    NoteTokens(_),      \* NoteTokens(needed): estimate of the line that says what a row needs
    Limits,             \* values of max_tokens a client gives; 0 stands for none
    Sizes               \* values of max_results a client gives

Overview == 0
Summary == 1
Detailed == 2
Levels == {Overview, Summary, Detailed}

Definition == 0
Fragment == 1
Relation == 2

(* What a candidate is, where it is and how well it matches; the number of   *)
(* lines of its source, and of those before its own line (-1: not found).   *)
Candidate == [symbol: Nat, evidence: {Definition, Fragment, Relation}, path: Nat, role: Nat,
              first: Nat, last: Nat, score: Int, lines: Nat, lead: Int]

(* A row shows its candidate at a level; keep > 0 leading lines of a summary. *)
Row == [candidate: Candidate, level: Levels, keep: Nat]

(***************************************************************************)
(* rank_and_dedup.                                                          *)
(***************************************************************************)
RankKey(c) == <<-c.score, c.evidence, c.path, c.first, -c.last, c.symbol, c.role>>

(* A span has a line; and the key is all there is of a candidate, its source *)
(* being that of its symbol.                                                 *)
ASSUME BudgetAssumption ==
    /\ \A S \in Corpora : S \subseteq Candidate /\ IsFiniteSet(S)
    /\ \A S \in Corpora : \A c \in S : c.first <= c.last
    /\ \A S \in Corpora : \A a, b \in S : RankKey(a) = RankKey(b) => a = b
    /\ Limits \subseteq Nat
    /\ Sizes \subseteq Nat \ {0}

Better(a, b) ==
    \E i \in 1 .. 7 :
        /\ RankKey(a)[i] < RankKey(b)[i]
        /\ \A j \in 1 .. i - 1 : RankKey(a)[j] = RankKey(b)[j]

Alike(o, c) == <<o.symbol, o.evidence, o.path, o.role>> = <<c.symbol, c.evidence, c.path, c.role>>

(* c says nothing beyond o: the same span, or for fragments a part of it. *)
Covers(o, c) ==
    /\ Alike(o, c)
    /\ IF c.evidence = Fragment
       THEN o.first <= c.first /\ c.last <= o.last
       ELSE o.first = c.first /\ o.last = c.last

(* The candidates, best first. *)
InOrder(S) ==
    CHOOSE order \in [1 .. Cardinality(S) -> S] :
        \A i, j \in 1 .. Cardinality(S) : i < j => Better(order[i], order[j])

(* Each in turn is kept that says more than those kept before it. *)
Kept(order) ==
    LET kept[n \in 0 .. Len(order)] ==
            IF n = 0 THEN <<>>
            ELSE IF \E i \in DOMAIN kept[n - 1] : Covers(kept[n - 1][i], order[n])
                 THEN kept[n - 1]
                 ELSE Append(kept[n - 1], order[n])
    IN kept[Len(order)]

Ranked(S) == Kept(InOrder(S))

-----------------------------------------------------------------------------
VARIABLES
    corpus,     \* the candidates found, as a set
    ranked,     \* those of this answer, best first
    phase,      \* "idle", "fit", "spare", "answered", "complete"
    request,    \* tool, max_tokens, max_results, detail and offset of the call
    rows,       \* the page as it is rendered
    over,       \* over_budget
    needed,     \* needed_min_tokens of the answer; 0 for none
    got,        \* candidates the client has received
    told,       \* needed_min_tokens of the answer before, at this offset
    probe       \* the row whose lines are being spent, and the search bounds

vars == <<corpus, ranked, phase, request, rows, over, needed, got, told, probe>>

Requests == [tool: {"pack", "search"}, limit: Nat, size: Nat, detail: Levels, offset: Nat]

Page(offset, size, level) ==
    [i \in 1 .. (IF Len(ranked) - offset < size THEN Len(ranked) - offset ELSE size) |->
        [candidate |-> ranked[offset + i], level |-> level, keep |-> 0]]

Left(n) == Len(ranked) - request.offset - n
Cost(rs) == Tokens(rs, request.detail, Left(Len(rs)), request.limit)

Fits(rs) == request.limit = 0 \/ Cost(rs) <= request.limit

NoProbe == [row |-> 1, low |-> 0, high |-> 0]

Init ==
    /\ corpus \in Corpora
    /\ ranked = Ranked(corpus)
    /\ phase = "idle"
    /\ \E tool \in {"pack", "search"} :
          request = [tool |-> tool, limit |-> 0, size |-> 1, detail |-> Detailed, offset |-> 0]
    /\ rows = <<>>
    /\ over = FALSE
    /\ needed = 0
    /\ got = <<>>
    /\ told = 0
    /\ probe = NoProbe

(* Mutant: the next page starts where the last one was to end. *)
AskBySize(limit, size, detail) ==
    /\ phase = "idle"
    /\ told # 0 => limit = told /\ detail = request.detail
    /\ request' = [request EXCEPT !.limit = limit, !.detail = detail,
                       !.offset = IF got = <<>> THEN 0 ELSE request.offset + request.size,
                       !.size = IF request.tool = "pack" THEN Len(ranked) + 1 ELSE size]
    /\ rows' = Page(request'.offset, request'.size, detail)
    /\ phase' = "fit"
    /\ over' = FALSE /\ needed' = 0 /\ probe' = NoProbe
    /\ UNCHANGED <<corpus, ranked, got, told>>

(* The client asks for the page where the last one ended; a pack is asked    *)
(* for as a whole.  Told what a row needs, it gives that at the same detail. *)
Ask(limit, size, detail) ==
    /\ phase = "idle"
    /\ told # 0 => limit = told /\ detail = request.detail
    /\ request' = [request EXCEPT !.limit = limit, !.detail = detail, !.offset = Len(got),
                                  !.size = IF request.tool = "pack" THEN Len(ranked) + 1 ELSE size]
    /\ rows' = Page(Len(got), request'.size, detail)
    /\ phase' = "fit"
    /\ over' = FALSE /\ needed' = 0 /\ probe' = NoProbe
    /\ UNCHANGED <<corpus, ranked, got, told>>

Reducible == {i \in DOMAIN rows : rows[i].level > Overview}
FirstOf(S) == CHOOSE i \in S : \A j \in S : i <= j
LastOf(S) == CHOOSE i \in S : \A j \in S : j <= i

(* Mutant: detail is taken from the most relevant row that has some. *)
LowerBest ==
    /\ phase = "fit" /\ ~Fits(rows) /\ Reducible # {}
    /\ rows' = [rows EXCEPT ![FirstOf(Reducible)].level = @ - 1]
    /\ UNCHANGED <<corpus, ranked, phase, request, over, needed, got, told, probe>>

(* Mutant: the last row is lowered whether or not it has a level left. *)
LowerLast ==
    /\ phase = "fit" /\ ~Fits(rows) /\ Reducible # {}
    /\ rows' = [rows EXCEPT ![Len(rows)].level = @ - 1]
    /\ UNCHANGED <<corpus, ranked, phase, request, over, needed, got, told, probe>>

(* The last row that has detail loses a level of it. *)
Lower ==
    /\ phase = "fit" /\ ~Fits(rows) /\ Reducible # {}
    /\ rows' = [rows EXCEPT ![LastOf(Reducible)].level = @ - 1]
    /\ UNCHANGED <<corpus, ranked, phase, request, over, needed, got, told, probe>>

Drop ==
    /\ phase = "fit" /\ ~Fits(rows) /\ Reducible = {} /\ rows # <<>>
    /\ rows' = SubSeq(rows, 1, Len(rows) - 1)
    /\ UNCHANGED <<corpus, ranked, phase, request, over, needed, got, told, probe>>

(* The cheapest response with a row in it. *)
OneRow == Page(request.offset, 1, Overview)

(* Mutant: the row is priced as if it were the last. *)
NeededForLast ==
    IF rows = <<>> /\ OneRow # <<>> /\ request.limit # 0
    THEN Tokens(OneRow, request.detail, 0, request.limit) ELSE 0

NeededTokens ==
    IF rows = <<>> /\ OneRow # <<>> /\ request.limit # 0 THEN Cost(OneRow) ELSE 0

Minimal == rows = <<>> /\ Left(0) > 0

(* What is sent: a line that says what one row needs is added to the rendered *)
(* answer when its cost has been fitted to the limit.                        *)
Sent == IF Minimal /\ needed # 0 THEN Cost(rows) + NoteTokens(needed) ELSE Cost(rows)

(* The loop of select ends: the response fits, or not even the empty one. *)
Settle ==
    /\ phase = "fit"
    /\ \/ Fits(rows) /\ over' = FALSE
       \/ ~Fits(rows) /\ rows = <<>> /\ over' = TRUE
    /\ needed' = NeededTokens
    /\ phase' = IF request.tool = "pack" /\ request.limit # 0 /\ ~Minimal
                THEN "spare" ELSE "answered"
    /\ UNCHANGED <<corpus, ranked, request, rows, got, told, probe>>

-----------------------------------------------------------------------------
(* What the budget of a pack has left goes to leading lines of definitions   *)
(* lowered to a summary: of each in turn as many as fit, by bisection.       *)
Headed(i, k) == [rows EXCEPT ![i].keep = k]

Spendable(i) ==
    /\ rows[i].candidate.evidence = Definition
    /\ rows[i].level = Summary /\ request.detail = Detailed
    /\ rows[i].candidate.lead >= 0
    /\ rows[i].candidate.lines > rows[i].candidate.lead + 1
    /\ Fits(Headed(i, rows[i].candidate.lead + 2))

Spare == phase = "spare" /\ probe.row \in DOMAIN rows

NextRow == [row |-> probe.row + 1, low |-> 0, high |-> 0]

Begin ==
    /\ Spare /\ probe.high = 0
    /\ probe' = IF Spendable(probe.row)
                THEN [probe EXCEPT !.low = rows[probe.row].candidate.lead + 2,
                                   !.high = rows[probe.row].candidate.lines]
                ELSE NextRow
    /\ UNCHANGED <<corpus, ranked, phase, request, rows, over, needed, got, told>>

(* Mutant: the half that fits is left behind with its upper end. *)
HalveHigh ==
    /\ Spare /\ probe.low < probe.high
    /\ LET mid == (probe.low + probe.high + 1) \div 2
       IN probe' = IF Fits(Headed(probe.row, mid))
                   THEN [probe EXCEPT !.low = mid] ELSE [probe EXCEPT !.high = probe.low]
    /\ UNCHANGED <<corpus, ranked, phase, request, rows, over, needed, got, told>>

Halve ==
    /\ Spare /\ probe.low < probe.high
    /\ LET mid == (probe.low + probe.high + 1) \div 2
       IN probe' = IF Fits(Headed(probe.row, mid))
                   THEN [probe EXCEPT !.low = mid] ELSE [probe EXCEPT !.high = mid - 1]
    /\ UNCHANGED <<corpus, ranked, phase, request, rows, over, needed, got, told>>

KeepHead ==
    /\ Spare /\ probe.high # 0 /\ probe.low = probe.high
    /\ rows' = Headed(probe.row, probe.low)
    /\ probe' = NextRow
    /\ UNCHANGED <<corpus, ranked, phase, request, over, needed, got, told>>

Render ==
    /\ phase = "spare" /\ probe.row > Len(rows)
    /\ phase' = "answered"
    /\ UNCHANGED <<corpus, ranked, request, rows, over, needed, got, told, probe>>

Shown == [i \in DOMAIN rows |-> rows[i].candidate]

(* The client takes the answer in.  A pack that has rows is all there is. *)
Receive ==
    /\ phase = "answered"
    /\ got' = got \o Shown
    /\ told' = needed
    /\ phase' = IF Left(Len(rows)) = 0 \/ (request.tool = "pack" /\ rows # <<>>)
                THEN "complete" ELSE "idle"
    /\ UNCHANGED <<corpus, ranked, request, rows, over, needed, probe>>

(* The client has everything and asks no more. *)
Complete == phase = "complete" /\ UNCHANGED vars

Next ==
    \/ \E limit \in Limits \cup {told}, size \in Sizes, detail \in Levels : Ask(limit, size, detail)
    \/ Lower \/ Drop \/ Settle
    \/ Begin \/ Halve \/ KeepHead \/ Render
    \/ Receive \/ Complete

Spec == Init /\ [][Next]_vars

-----------------------------------------------------------------------------
TypeOK ==
    /\ corpus \in Corpora
    /\ ranked \in Seq(Candidate)
    /\ phase \in {"idle", "fit", "spare", "answered", "complete"}
    /\ request \in Requests
    /\ rows \in Seq(Row)
    /\ over \in BOOLEAN
    /\ needed \in Nat
    /\ got \in Seq(Candidate)
    /\ told \in Nat
    /\ probe \in [row: Nat \ {0}, low: Nat, high: Nat]

(* Paging neither skips nor repeats (Selection::next_offset): the pages put  *)
(* together are at all times the head of the ranking, a finished search has  *)
(* all of it, and the ranking is the corpus without what a better candidate  *)
(* already says, whatever limits the pages were asked with.                  *)
Says(o, c) ==
    /\ Alike(o, c)
    /\ IF c.evidence = Fragment
       THEN c.first .. c.last \subseteq o.first .. o.last
       ELSE <<o.first, o.last>> = <<c.first, c.last>>

Essential == {c \in corpus : ~\E o \in corpus : Better(o, c) /\ Says(o, c)}

PagesInOrder ==
    /\ IsPrefix(got, ranked)
    /\ phase = "complete" /\ request.tool = "search" => got = ranked
    /\ ToSet(ranked) = Essential
    /\ \A i, j \in DOMAIN ranked : i < j => Better(ranked[i], ranked[j])

(* The least relevant rows pay first and nobody pays for nothing (the loop   *)
(* of select): a page is a run of the ranking, only its tail loses detail, a *)
(* row is missing only when the others have no detail left, and the last     *)
(* loss could not have been spared.  A page that does not fit is flagged and *)
(* has no rows.  What is sent keeps the limit with one exception: the line   *)
(* that says what a row needs is added uncounted (pack_budget.rs:438-443,    *)
(* 585-591), so an answer without rows may exceed the limit unflagged, where *)
(* pack_budget.rs:475 says that the budget covers the whole response.        *)
Within(rs) == request.limit = 0 \/ Cost(rs) <= request.limit
FullPage == Page(request.offset, request.size, request.detail)
Bare == [i \in DOMAIN rows |-> [rows[i] EXCEPT !.keep = 0]]
Lowered == {i \in DOMAIN rows : rows[i].level < request.detail}

(* The page before its last loss. *)
Undone ==
    IF Len(rows) < Len(FullPage)
    THEN Page(request.offset, Len(rows) + 1, Overview)
    ELSE [Bare EXCEPT ![FirstOf(Lowered)].level = @ + 1]

LeastRelevantFirst ==
    phase # "idle" =>
        /\ Shown = [i \in DOMAIN rows |-> FullPage[i].candidate]
        /\ \A i \in Lowered : \A j \in DOMAIN rows : i < j => rows[j].level = Overview
        /\ Len(rows) < Len(FullPage) => Reducible = {}
        /\ Bare # FullPage => ~Within(Undone)
        /\ phase # "fit" =>
              /\ over <=> ~Within(rows)
              /\ over => rows = <<>>
              /\ \/ request.limit = 0 \/ Sent <= request.limit
                 \/ rows = <<>> /\ (over \/ needed # 0)

(* A pack leaves no line unspent (the bisection of render): no definition    *)
(* lowered to a summary could show one more line of its source within the    *)
(* budget, and those that show some have their own line among them.  This    *)
(* holds of any estimate, one for which a head costs less than the signature *)
(* it replaces too: detail is taken from the tail, so by the time one row is *)
(* a summary those after it are overviews, and no later row gives room back. *)
NothingToSpare ==
    phase = "answered" /\ request.tool = "pack" /\ request.detail = Detailed =>
        \A i \in DOMAIN rows :
            LET c == rows[i].candidate
                more == IF rows[i].keep = 0 THEN c.lead + 2 ELSE rows[i].keep + 1
            IN c.evidence = Definition /\ rows[i].level = Summary /\ c.lead >= 0 =>
                /\ rows[i].keep # 0 => rows[i].keep \in c.lead + 2 .. c.lines
                /\ more <= c.lines => ~Within(Headed(i, more))

(* An estimate counts tokens. *)
EstimateIsNumber(Pages, Numbers) ==
    \A rs \in Pages, detail \in Levels, left \in Numbers, max \in Numbers :
        Tokens(rs, detail, left, max) \in Nat
================================================================================
