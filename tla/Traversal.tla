------------------------------- MODULE Traversal -------------------------------
(***************************************************************************)
(* Queries over the relations of an index: who calls, is called by or       *)
(* refers to a name, over several hops, and which tests that reaches.  A    *)
(* walk is bounded by the hits its page needs; hop 1 goes by name, every    *)
(* later one along relations whose target is proven.  A client pages        *)
(* through the answers of one query over one generation of the index.       *)
(***************************************************************************)
EXTENDS Integers, Sequences, FiniteSets, SequencesExt

CONSTANTS
    Symbols,            \* row ids, in the order of path and line
    NameOf,             \* [Symbols -> names]
    FileOf,             \* [Symbols -> files]
    Tests,              \* symbols whose name or path looks like a test's
    Modules,            \* symbols that stand for a file
    Indexes,            \* contents of the relations table, in the order of its rows
    Asked,              \* queries a client may ask
    MaxQueryDepth,      \* MAX_QUERY_DEPTH
    MinFirstHopPage,    \* MIN_FIRST_HOP_PAGE, and the first budget of a search for tests
    None

(* What a query needs of a row: targets are its rows of relation_candidates. *)
RelationRow == [id: Nat, from: Symbols, to: {NameOf[s] : s \in Symbols}, call: BOOLEAN,
                external: BOOLEAN, member: BOOLEAN, targets: SUBSET Symbols]
Directions == {"calls", "callers", "references", "tests"}
Query == [direction: Directions, name: {NameOf[s] : s \in Symbols},
          scope: SUBSET {FileOf[s] : s \in Symbols}, depth: Nat, limit: Nat \ {0}]

TraversalInputs ==
    /\ Symbols \subseteq Nat /\ IsFiniteSet(Symbols)
    /\ Tests \subseteq Symbols /\ Modules \subseteq Symbols
    /\ Indexes \subseteq Seq(RelationRow)
    /\ \A rs \in Indexes : \A i \in DOMAIN rs : rs[i].external => rs[i].targets = {}
    /\ Asked \subseteq Query
    /\ MaxQueryDepth \in Nat \ {0} /\ MinFirstHopPage \in Nat \ {0}

-----------------------------------------------------------------------------
VARIABLES
    relations,  \* the relations table
    query,      \* the query being answered
    phase,      \* "idle", "hop1", "visit", "fetch", "cut", "complete"
    offset,     \* of the page asked for
    budget,     \* hits the walk may collect
    start,      \* symbols the walk starts from
    cursor,     \* offset and size of the next page of hop 1
    level,      \* the hop being visited
    queue,      \* its rows
    frontier,   \* the symbols it leads to
    visited,
    hits,       \* what the walk has found, [row, depth]
    page,       \* the last page received, with what it says about the rest
    got         \* all the pages

vars == <<relations, query, phase, offset, budget, start, cursor, level, queue, frontier,
          visited, hits, page, got>>

(* The elements of a sequence that are in S. *)
Those(s, S) ==
    LET those[n \in 0 .. Len(s)] ==
            IF n = 0 THEN <<>>
            ELSE IF s[n] \in S THEN Append(those[n - 1], s[n]) ELSE those[n - 1]
    IN those[Len(s)]

(* How a relation resolves (query_relation_rows). *)
Resolved(r) == ~r.external /\ Cardinality(r.targets) = 1 /\ ~r.member
Ambiguous(r) == ~r.external /\ r.targets # {} /\ ~Resolved(r)
Target(r) == CHOOSE s \in r.targets : TRUE

Backward(direction) == direction # "calls"
CallsOnly(direction) == direction \in {"calls", "callers"}

(* Symbols of a name, and where a backward walk starts: in the scope, or     *)
(* everywhere if the scope only narrows the places that refer.               *)
Named(name, scope) == {s \in Symbols : NameOf[s] = name /\ FileOf[s] \in scope}
AllFiles == {FileOf[s] : s \in Symbols}
StartOf(q) ==
    IF Backward(q.direction) /\ Named(q.name, q.scope) = {}
    THEN Named(q.name, AllFiles) ELSE Named(q.name, q.scope)

(* The rows of hop 1 by name. *)
ByName(rs, q) == Those(rs, {r \in ToSet(rs) :
    /\ IF Backward(q.direction) THEN r.to = q.name ELSE NameOf[r.from] = q.name
    /\ CallsOnly(q.direction) => r.call
    /\ FileOf[r.from] \in q.scope})

(* A hit that provably misses the start is not one (reaches_start). *)
Reaches(r, from) ==
    CASE Resolved(r) -> Target(r) \in from
      [] Ambiguous(r) -> r.targets \cap from # {}
      [] OTHER -> TRUE
Reaching(rows, direction, from) ==
    Those(rows, {r \in ToSet(rows) : Backward(direction) => Reaches(r, from)})

(* Mutant: a relation that may lead somewhere else is followed as well. *)
NextAnyNode(direction, r) ==
    IF Backward(direction) THEN {r.from} ELSE r.targets

(* The symbol a hit leads on to, if that is proven. *)
NextNode(direction, r) ==
    IF ~Resolved(r) THEN {} ELSE IF Backward(direction) THEN {r.from} ELSE {Target(r)}

(* The rows of a later hop, from one symbol. *)
FetchOf(rs, direction, s) == Those(rs, {r \in ToSet(rs) :
    /\ IF Backward(direction) THEN s \in r.targets ELSE r.from = s
    /\ CallsOnly(direction) => r.call})

Take(s, n) == SubSeq(s, 1, IF n < Len(s) THEN n ELSE Len(s))
Skip(s, n) == SubSeq(s, n + 1, Len(s))

(* Rows of a direct page, as SQL selects them (relation_selection). *)
Direct(rs, q) == Those(ByName(rs, q), {r \in ToSet(rs) :
    Backward(q.direction) =>
        r.external \/ r.targets = {} \/ r.targets \cap StartOf(q) # {}})

Numbered(rows, n) == [i \in DOMAIN rows |-> [row |-> rows[i], depth |-> n]]

NoPage == [hits |-> <<>>, more |-> TRUE, total |-> None]

Rest == <<relations, query, offset>>

Init ==
    /\ relations \in Indexes
    /\ query \in Asked
    /\ phase = "idle"
    /\ offset = 0 /\ budget = 0 /\ cursor = <<0, 1>> /\ level = 0
    /\ start = {} /\ visited = {}
    /\ queue = <<>> /\ frontier = <<>> /\ hits = <<>> /\ got = <<>>
    /\ page = NoPage

(* The walk starts over. *)
Walk(n) ==
    /\ budget' = n
    /\ start' = StartOf(query) /\ visited' = StartOf(query)
    /\ cursor' = <<0, IF n > MinFirstHopPage THEN n ELSE MinFirstHopPage>>
    /\ level' = 1
    /\ queue' = <<>> /\ frontier' = <<>> /\ hits' = <<>>
    /\ phase' = "hop1"

Answer(found, more, total) ==
    /\ page' = [hits |-> found, more |-> more, total |-> total]
    /\ got' = got \o found
    /\ offset' = offset + query.limit
    /\ phase' = IF more THEN "idle" ELSE "complete"

(* One hop is counted and cut in SQL. *)
AskDirect ==
    /\ phase = "idle" /\ query.depth <= 1 /\ query.direction # "tests"
    /\ LET all == Numbered(Direct(relations, query), 1)
           cut == Take(Skip(all, offset), query.limit)
       IN Answer(cut, offset + Len(cut) < Len(all), Len(all))
    /\ UNCHANGED <<relations, query, budget, start, cursor, level, queue, frontier, visited, hits>>

(* Mutant: the walk stops where the page ends. *)
AskWithoutSentinel ==
    /\ phase = "idle"
    /\ query.depth > 1 \/ query.direction = "tests"
    /\ LET wanted == offset + query.limit
       IN Walk(IF query.direction = "tests" /\ wanted < MinFirstHopPage
               THEN MinFirstHopPage ELSE wanted)
    /\ UNCHANGED <<relations, query, offset, page, got>>

(* Several hops: one hit more than the page needs tells whether more exist. *)
AskWalk ==
    /\ phase = "idle"
    /\ query.depth > 1 \/ query.direction = "tests"
    /\ LET wanted == offset + query.limit + 1
       IN Walk(IF query.direction = "tests" /\ wanted < MinFirstHopPage
               THEN MinFirstHopPage ELSE wanted)
    /\ UNCHANGED <<relations, query, offset, page, got>>

(* Hop 1 by name, in pages that double until enough rows are left of them. *)
ReadPage ==
    /\ phase = "hop1"
    /\ LET rows == Take(Skip(ByName(relations, query), cursor[1]), cursor[2])
           kept == queue \o Reaching(rows, query.direction, start)
       IN IF Len(kept) >= budget \/ Len(rows) < cursor[2]
          THEN /\ queue' = Take(kept, budget) /\ phase' = "visit"
               /\ UNCHANGED cursor
          ELSE /\ queue' = kept
               /\ cursor' = <<cursor[1] + Len(rows), 2 * cursor[2]>>
               /\ UNCHANGED phase
    /\ UNCHANGED <<relations, query, offset, budget, start, level, frontier, visited, hits, page, got>>

(* A row becomes a hit, and leads on where nothing has led before. *)
Visit ==
    /\ phase = "visit" /\ queue # <<>>
    /\ LET r == Head(queue)
           new == NextNode(query.direction, r) \ visited
       IN /\ hits' = Append(hits, [row |-> r, depth |-> level])
          /\ visited' = visited \cup new
          /\ frontier' = frontier \o SetToSeq(new)
          /\ queue' = Tail(queue)
          /\ phase' = IF Len(hits) + 1 >= budget THEN "cut" ELSE "visit"
    /\ UNCHANGED <<relations, query, offset, budget, start, cursor, level, page, got>>

(* The depth asked for, clamped. *)
Hops(q) ==
    IF q.depth = 0 THEN 1 ELSE IF q.depth > MaxQueryDepth THEN MaxQueryDepth ELSE q.depth

EndLevel ==
    /\ phase = "visit" /\ queue = <<>>
    /\ IF level = Hops(query) \/ frontier = <<>>
       THEN phase' = "cut" /\ UNCHANGED level
       ELSE phase' = "fetch" /\ level' = level + 1
    /\ UNCHANGED <<relations, query, offset, budget, start, cursor, queue, frontier, visited, hits, page, got>>

(* The rows of the next hop, as many as the budget has room for. *)
Fetch ==
    /\ phase = "fetch"
    /\ LET room == budget - Len(hits)
           more == queue \o Take(FetchOf(relations, query.direction, Head(frontier)),
                              room - Len(queue))
       IN /\ queue' = more
          /\ IF Len(more) >= room \/ Len(frontier) = 1
             THEN frontier' = <<>> /\ phase' = "visit"
             ELSE frontier' = Tail(frontier) /\ UNCHANGED phase
    /\ UNCHANGED <<relations, query, offset, budget, start, cursor, level, visited, hits, page, got>>

CutPage ==
    /\ phase = "cut" /\ query.direction # "tests"
    /\ LET more == Len(hits) > offset + query.limit
       IN Answer(Take(Skip(hits, offset), query.limit), more, IF more THEN None ELSE Len(hits))
    /\ UNCHANGED <<relations, query, budget, start, cursor, level, queue, frontier, visited, hits>>

(* Test functions among the hits, each where it was found first. *)
TestsOf(found) ==
    FlattenSeq([i \in DOMAIN found |->
        IF /\ found[i].row.from \in Tests \ Modules
           /\ \A j \in 1 .. i - 1 : found[j].row.from # found[i].row.from
        THEN <<found[i]>> ELSE <<>>])

(* Too few of them: a longer walk, unless there was nothing more to find. *)
CutTests ==
    /\ phase = "cut" /\ query.direction = "tests"
    /\ LET found == TestsOf(hits)
           exhausted == Len(hits) < budget
           wanted == offset + query.limit
       IN IF Len(found) > wanted \/ exhausted
          THEN /\ Answer(Take(Skip(found, offset), query.limit), Len(found) > wanted,
                         IF exhausted THEN Len(found) ELSE None)
               /\ UNCHANGED <<budget, start, cursor, level, queue, frontier, visited, hits>>
          ELSE Walk(2 * budget) /\ UNCHANGED <<offset, page, got>>
    /\ UNCHANGED <<relations, query>>

Complete == phase = "complete" /\ UNCHANGED vars

Next ==
    \/ AskDirect \/ AskWalk
    \/ ReadPage \/ Visit \/ EndLevel \/ Fetch
    \/ CutPage \/ CutTests \/ Complete

Spec == Init /\ [][Next]_vars

-----------------------------------------------------------------------------
TypeOK ==
    /\ relations \in Indexes /\ query \in Asked
    /\ phase \in {"idle", "hop1", "visit", "fetch", "cut", "complete"}
    /\ offset \in Nat /\ budget \in Nat /\ level \in Nat
    /\ start \subseteq Symbols /\ visited \subseteq Symbols
    /\ cursor \in Nat \X (Nat \ {0})
    /\ queue \in Seq(RelationRow) /\ frontier \in Seq(Symbols)
    /\ hits \in Seq([row: RelationRow, depth: Nat])
    /\ page.total \in Nat \cup {None}
    /\ got \in Seq([row: RelationRow, depth: Nat])

(* The unbounded walk, hop by hop: its rows, and the symbols they lead to    *)
(* that no earlier hop reached.                                              *)
LedTo(q, rows, n) == UNION {NextNode(q.direction, rows[i]) : i \in 1 .. n}

NewNodes(q, rows, seen) ==
    FlattenSeq([i \in DOMAIN rows |->
        SetToSeq(NextNode(q.direction, rows[i]) \ (seen \cup LedTo(q, rows, i - 1)))])

Fetched(rs, q, nodes) ==
    FlattenSeq([i \in DOMAIN nodes |-> FetchOf(rs, q.direction, nodes[i])])

Levels(rs, q) ==
    LET levels[n \in 0 .. Hops(q)] ==
            IF n = 0 THEN [rows |-> <<>>, nodes |-> <<>>, seen |-> StartOf(q)]
            ELSE LET before == levels[n - 1]
                     rows == IF n = 1 THEN Direct(rs, q) ELSE Fetched(rs, q, before.nodes)
                 IN [rows |-> rows, nodes |-> NewNodes(q, rows, before.seen),
                     seen |-> before.seen \cup LedTo(q, rows, Len(rows))]
    IN levels

FullWalk(rs, q) ==
    LET levels == Levels(rs, q)
    IN FlattenSeq([n \in 1 .. Hops(q) |-> Numbered(levels[n].rows, n)])

(* The bounded walks of the pages together are the unbounded one (docs of    *)
(* bfs and relation_page): none skips, repeats or invents a hit, the last    *)
(* one says so, and a total is never wrong.  The first hop, filtered in      *)
(* pages, is the one SQL selects for a direct query.                         *)
FullAnswer(rs, q) == IF q.direction = "tests" THEN TestsOf(FullWalk(rs, q)) ELSE FullWalk(rs, q)

PagesAddUp == phase \in {"idle", "complete"} =>
    LET full == FullAnswer(relations, query)
    IN /\ IsPrefix(got, full)
       /\ phase = "complete" => got = full
       /\ page.total # None => page.total = Len(full)

(* A hit is reported at the least number of proven hops from the start, and  *)
(* nothing is reached through a relation that may mean something else; the   *)
(* start itself is left by the hop by name alone.                            *)
Near(rs, q) ==
    LET near[n \in 0 .. Hops(q)] ==
            IF n = 0 THEN StartOf(q)
            ELSE LET rows == IF n = 1 THEN ToSet(Direct(rs, q))
                             ELSE UNION {ToSet(FetchOf(rs, q.direction, s)) :
                                         s \in near[n - 1] \ StartOf(q)}
                 IN near[n - 1] \cup
                        {s \in Symbols : \E r \in rows :
                            /\ Cardinality(r.targets) = 1 /\ ~r.member
                            /\ IF Backward(q.direction) THEN r.from = s ELSE s \in r.targets}
    IN near

DepthIsShortest ==
    phase = "cut" =>
        LET near == Near(relations, query)
        IN \A i \in DOMAIN hits :
              LET d == hits[i].depth
              IN d > 1 => \E s \in near[d - 1] \ near[d - 2] :
                              hits[i].row \in ToSet(FetchOf(relations, query.direction, s))
================================================================================
