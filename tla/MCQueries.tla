------------------------------- MODULE MCQueries ------------------------------
(***************************************************************************)
(* Small corpora, indexes and import graphs for the algorithms of Queries,  *)
(* of which a behaviour runs one on one input.                              *)
(***************************************************************************)
EXTENDS Queries, TLC

(* A name is shared by symbols 1 and 2; 4 and 5 are in a test file, 5 stands *)
(* for the file.                                                             *)
SymbolNames == <<"a", "a", "b", "t", "m", "x">>
SymbolFiles == <<"f", "g", "g", "h", "h", "z">>

R(id, from, to, calls, member, targets) ==
    [id |-> id, from |-> from, to |-> to, call |-> calls, external |-> to = "x",
     member |-> member, targets |-> targets]

Possible == <<
    R(1, 1, "b", TRUE, FALSE, {3}), R(2, 1, "x", TRUE, FALSE, {}), R(3, 2, "a", TRUE, TRUE, {1, 2}),
    R(4, 2, "b", FALSE, FALSE, {3}), R(5, 3, "a", TRUE, FALSE, {1}), R(6, 3, "a", TRUE, TRUE, {2}),
    R(7, 4, "a", TRUE, FALSE, {2}), R(8, 4, "b", TRUE, FALSE, {3}), R(9, 5, "a", FALSE, FALSE, {1}),
    R(10, 4, "b", FALSE, FALSE, {3})>>
Some(S) == SelectSeq(Possible, LAMBDA r : r.id \in S)
SomeIndexes == {Some(S) : S \in {T \in SUBSET (1 .. 10) : Cardinality(T) = 3}}
                 \cup {Some({}), Some(1 .. 10), Some({1, 3, 5, 7, 8}), Some({4, 6, 8, 9, 10})}
AllAsked == [direction : {"calls", "callers", "references", "tests"}, name : {"a", "b"},
             scope : {{"f", "g", "h"}, {"g"}}, depth : {1, 5}, limit : {1, 2}]

(* Import graphs of four files, with imports that point nowhere in particular. *)
Import(from, targets) == [from |-> from, external |-> FALSE, member |-> FALSE, targets |-> targets]
Arrow == {<<1, 2>>, <<2, 3>>, <<3, 1>>, <<3, 2>>, <<2, 4>>, <<4, 3>>, <<4, 2>>, <<1, 4>>}
Odd == {[from |-> 1, external |-> TRUE, member |-> FALSE, targets |-> {}], Import(1, {2, 4}),
        [from |-> 2, external |-> FALSE, member |-> TRUE, targets |-> {1}]}
AllTables == {{}} \cup {Odd \cup {Import(a[1], {a[2]}) : a \in S} :
                        S \in {T \in SUBSET Arrow : Cardinality(T) \in {4, 5, 8}}}
Roots == {{}, {1}, {1, 2}}

(* The signature of symbol 1 fills several lines and costs more than the     *)
(* first lines of its source; that of symbol 2 costs less.                   *)
RowTokens(row) ==
    CASE row.level = Overview -> 1
      [] row.level = Summary /\ row.keep = 0 -> IF row.candidate.symbol = 1 THEN 5 ELSE 2
      [] row.level = Summary /\ row.keep # 0 -> 1 + row.keep
      [] OTHER -> 1 + row.candidate.lines

NoteTokensOf(n) == 3

(* Header, rows, the note on what was lowered, the footer of a page with a    *)
(* successor, and a limit that takes another token to print.                  *)
TokensOf(rs, detail, left, max) ==
    2 + FoldLeft(LAMBDA sum, row : sum + RowTokens(row), 0, rs)
      + (IF \E i \in DOMAIN rs : rs[i].level < detail THEN 1 ELSE 0)
      + (IF left > 0 THEN 1 ELSE 0)
      + (IF max > 4 THEN 1 ELSE 0)

Of(symbol, evidence, first, last, score, lines, lead) ==
    [symbol |-> symbol, evidence |-> evidence, path |-> 0, role |-> 0, first |-> first,
     last |-> last, score |-> score, lines |-> lines, lead |-> lead]
Mixed == {Of(1, 0, 1, 7, 3, 7, 1), Of(2, 0, 9, 11, 2, 3, 0), Of(3, 2, 4, 4, 2, 0, -1)}
Fragments == {Of(1, 1, 1, 3, 2, 2, 0), Of(1, 1, 2, 3, 3, 2, 0), Of(1, 1, 3, 5, 1, 2, 0),
              Of(1, 1, 1, 5, 1, 1, 0), Of(2, 1, 1, 3, 1, 1, 0)}
AllCorpora == {Mixed} \cup {S \in SUBSET Fragments : Cardinality(S) <= 3}

(* What the theorem about types asks of the estimate. *)
ASSUME SmallPagesAssumption ==
    LET SomeRow == [candidate : Mixed, level : Levels, keep : {0, 3}]
        Pages == UNION {[1 .. n -> SomeRow] : n \in 0 .. 2}
    IN EstimateIsNumber(Pages, {0, 1, 5})

(* The two that are not at work have nothing to do. *)
AllInit ==
    /\ task \in {"budget", "walk", "graph"}
    /\ task # "budget" => corpus = {}
    /\ task # "walk" => relations = <<>> /\ query = CHOOSE q \in Asked : q.depth = 1
    /\ IF task = "graph" THEN module \in RootFiles \ {{}} /\ table \in Tables \ {{}}
                         ELSE module = {} /\ table = {} /\ depth = 0 /\ limit = 2
    /\ AnyInit
    /\ task # "budget" => request.tool = "pack"

AllSpec == AllInit /\ [][AllNext]_allVars /\ WF_allVars(AllNext)

(* Every one of them ends: the loops are bounded, the pages get to the last, *)
(* and a client told what a row needs gets one (needed_min_tokens).         *)
AnswersEnd ==
    <>(CASE task = "budget" -> phase = "complete"
         [] task = "walk" -> walkPhase = "complete"
         [] task = "graph" -> stage = "done")
================================================================================
