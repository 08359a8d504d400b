------------------------------ MODULE Dependencies -----------------------------
(***************************************************************************)
(* The import graph of a module, some hops deep and of a bounded number of  *)
(* files, and the cycles in it.  The cycles are the strongly connected      *)
(* components as an iterative depth-first search finds them; the order in   *)
(* which it takes up roots and neighbours is left open.                     *)
(***************************************************************************)
EXTENDS Integers, Sequences, FiniteSets, SequencesExt

CONSTANTS
    Files,          \* in the order of their paths
    Tables,         \* imports relations an index may hold
    RootFiles,      \* sets of files a module may be made of
    Depths, Limits, \* arguments of the tool
    MaxQueryDepth   \* MAX_QUERY_DEPTH

(* An imports relation: the file it is made in and the files its candidates  *)
(* are in.                                                                   *)
ImportRow == [from: Files, external: BOOLEAN, member: BOOLEAN, targets: SUBSET Files]

Root == 0                   \* a directory stands for its files
Node == Files \cup {Root}

DependenciesInputs ==
    /\ Files \subseteq Nat \ {0} /\ IsFiniteSet(Files)
    /\ Tables \subseteq SUBSET ImportRow
    /\ RootFiles \subseteq SUBSET Files
    /\ Depths \subseteq Nat /\ Limits \subseteq Nat /\ MaxQueryDepth \in Nat \ {0}

-----------------------------------------------------------------------------
VARIABLES
    table,      \* the imports relations
    module,     \* the files of the module asked for
    depth, limit,
    stage,      \* "walk", "search", "done"
    hop,        \* the hop being walked
    frontier,   \* modules still to expand in this hop
    next,       \* modules found in it
    reached,    \* [module -> hop it was found in], visited
    edges,      \* [from, to, depth]
    truncated,
    index, low, \* of the search: order of discovery, and the least one reached; partial functions
    stack,      \* modules whose component is not known yet
    call,       \* the path searched, with the neighbours still to look at
    cycles

vars == <<table, module, depth, limit, stage, hop, frontier, next, reached, edges, truncated,
          index, low, stack, call, cycles>>

walked == <<table, module, depth, limit, hop, frontier, next, reached, edges, truncated>>
searched == <<index, low, stack, call, cycles>>

NodeOf(f) == IF f \in module /\ module # {f} THEN Root ELSE f
RootNode == IF Cardinality(module) = 1 THEN CHOOSE f \in module : TRUE ELSE Root
FilesOf(n) == IF n = Root THEN module ELSE {n}

(* Where an import points: to the one file all its candidates are in. *)
Pointed(r) == IF ~r.external /\ ~r.member /\ Cardinality(r.targets) = 1 THEN r.targets ELSE {}

Imported(n) ==
    {NodeOf(f) : f \in UNION {Pointed(r) : r \in {q \in table : q.from \in FilesOf(n)}}} \ {n}

Init ==
    /\ table \in Tables
    /\ module \in RootFiles
    /\ depth \in Depths /\ limit \in Limits
    /\ stage = IF module = {} THEN "done" ELSE "walk"
    /\ hop = 1
    /\ frontier = {RootNode} /\ next = {}
    /\ reached = [n \in {RootNode} |-> 0]
    /\ edges = {}
    /\ truncated = FALSE
    /\ index = <<>> /\ low = <<>>
    /\ stack = <<>> /\ call = <<>>
    /\ cycles = {}

AtLeastOne(n) == IF n = 0 THEN 1 ELSE n

(* The depth asked for, clamped. *)
Hops == IF depth > MaxQueryDepth THEN MaxQueryDepth ELSE AtLeastOne(depth)

(* The modules a limit of n lets in, of those imported in order. *)
Room == AtLeastOne(limit) - Cardinality(DOMAIN reached)
Admitted(new) == {n \in new : Cardinality({m \in new : m < n}) < Room}

(* A hop takes its modules in order. *)
First(S) == CHOOSE n \in S : \A m \in S : n <= m

(* Mutant: an edge is noted although its end was cut off. *)
ExpandWithEdges ==
    /\ stage = "walk" /\ frontier # {}
    /\ LET from == First(frontier)
           new == Imported(from) \ DOMAIN reached
           in == Admitted(new)
       IN /\ reached' = [n \in DOMAIN reached \cup in |-> IF n \in in THEN hop ELSE reached[n]]
          /\ next' = next \cup in
          /\ truncated' = (truncated \/ in # new)
          /\ edges' = edges \cup {[from |-> from, to |-> n, depth |-> hop] : n \in Imported(from)}
          /\ frontier' = frontier \ {from}
    /\ UNCHANGED <<table, module, depth, limit, stage, hop, searched>>

(* One module of the frontier: what it imports, as far as the limit lets it  *)
(* in; an import of a module already there is always noted.                  *)
Expand ==
    /\ stage = "walk" /\ frontier # {}
    /\ LET from == First(frontier)
           new == Imported(from) \ DOMAIN reached
           in == Admitted(new)
       IN /\ reached' = [n \in DOMAIN reached \cup in |-> IF n \in in THEN hop ELSE reached[n]]
          /\ next' = next \cup in
          /\ truncated' = (truncated \/ in # new)
          /\ edges' = edges \cup {[from |-> from, to |-> n, depth |-> hop] :
                                    n \in Imported(from) \ (new \ in)}
          /\ frontier' = frontier \ {from}
    /\ UNCHANGED <<table, module, depth, limit, stage, hop, searched>>

EndHop ==
    /\ stage = "walk" /\ frontier = {}
    /\ IF next = {} \/ hop = Hops
       THEN stage' = "search" /\ UNCHANGED <<hop, frontier, next>>
       ELSE hop' = hop + 1 /\ frontier' = next /\ next' = {} /\ UNCHANGED stage
    /\ UNCHANGED <<table, module, depth, limit, reached, edges, truncated, searched>>

-----------------------------------------------------------------------------
(* find_cycles *)
Nodes == {e.from : e \in edges} \cup {e.to : e \in edges}
Neighbours(n) == {e.to : e \in {d \in edges : d.from = n}}

Discover(n, path) ==
    /\ index' = [m \in DOMAIN index \cup {n} |-> IF m = n THEN Cardinality(DOMAIN index) ELSE index[m]]
    /\ low' = [m \in DOMAIN low \cup {n} |-> IF m = n THEN Cardinality(DOMAIN index) ELSE low[m]]
    /\ stack' = Append(stack, n)
    /\ call' = Append(path, [node |-> n, rest |-> Neighbours(n)])

StartAt(n) ==
    /\ stage = "search" /\ call = <<>> /\ n \in Nodes \ DOMAIN index
    /\ Discover(n, <<>>)
    /\ UNCHANGED <<walked, stage, cycles>>

Least(a, b) == IF a < b THEN a ELSE b
Looked(n) == [call EXCEPT ![Len(call)].rest = @ \ {n}]

(* Mutant: a neighbour whose component is closed counts as well. *)
LookAnywhere(n) ==
    /\ stage = "search" /\ call # <<>> /\ n \in Last(call).rest
    /\ IF n \notin DOMAIN index
       THEN Discover(n, Looked(n))
       ELSE /\ call' = Looked(n)
            /\ low' = [low EXCEPT ![Last(call).node] = Least(@, index[n])]
            /\ UNCHANGED <<index, stack>>
    /\ UNCHANGED <<walked, stage, cycles>>

(* A neighbour: descend into it, or note how far back it reaches. *)
Look(n) ==
    /\ stage = "search" /\ call # <<>> /\ n \in Last(call).rest
    /\ IF n \notin DOMAIN index
       THEN Discover(n, Looked(n))
       ELSE /\ call' = Looked(n)
            /\ low' = IF n \in ToSet(stack)
                      THEN [low EXCEPT ![Last(call).node] = Least(@, index[n])] ELSE low
            /\ UNCHANGED <<index, stack>>
    /\ UNCHANGED <<walked, stage, cycles>>

(* All neighbours done: the component is what lies above on the stack, if    *)
(* nothing reached further back.                                             *)
Finish ==
    /\ stage = "search" /\ call # <<>> /\ Last(call).rest = {}
    /\ LET v == Last(call).node
           at == CHOOSE i \in DOMAIN stack : stack[i] = v
           component == ToSet(SubSeq(stack, at, Len(stack)))
           parent == call[Len(call) - 1].node
       IN /\ call' = Front(call)
          /\ low' = IF Len(call) > 1 THEN [low EXCEPT ![parent] = Least(@, low[v])] ELSE low
          /\ IF low[v] = index[v]
             THEN /\ stack' = SubSeq(stack, 1, at - 1)
                  /\ cycles' = IF Cardinality(component) > 1 \/ v \in Neighbours(v)
                               THEN cycles \cup {component} ELSE cycles
             ELSE UNCHANGED <<stack, cycles>>
    /\ UNCHANGED <<walked, stage, index>>

Answer ==
    /\ stage = "search" /\ call = <<>> /\ Nodes \subseteq DOMAIN index
    /\ stage' = "done"
    /\ UNCHANGED <<walked, searched>>

Done == stage = "done" /\ UNCHANGED vars

Next ==
    \/ Expand \/ EndHop
    \/ \E n \in Node : StartAt(n) \/ Look(n)
    \/ Finish \/ Answer \/ Done

Spec == Init /\ [][Next]_vars

-----------------------------------------------------------------------------
TypeOK ==
    /\ table \in Tables /\ module \in RootFiles
    /\ stage \in {"walk", "search", "done"}
    /\ hop \in Nat \ {0}
    /\ frontier \subseteq Node /\ next \subseteq Node
    /\ DOMAIN reached \subseteq Node /\ \A n \in DOMAIN reached : reached[n] \in 0 .. hop
    /\ \A e \in edges : e.from \in Node /\ e.to \in Node /\ e.depth \in 1 .. hop
    /\ truncated \in BOOLEAN
    /\ DOMAIN index = DOMAIN low /\ DOMAIN index \subseteq Node
    /\ ToSet(stack) \subseteq DOMAIN index
    /\ \A i \in DOMAIN call : call[i].node \in DOMAIN index /\ call[i].rest \subseteq Node
    /\ cycles \subseteq SUBSET Node

(* The graph is what it says (doc of dependency_graph): the modules within   *)
(* the depth unless it is marked truncated, each with the number of hops it  *)
(* takes to it through the modules shown, never more than the limit; the     *)
(* edges are the imports among the modules shown, of those near enough.      *)
Within[n \in Nat] ==
    IF n = 0 THEN {RootNode} ELSE Within[n - 1] \cup UNION {Imported(m) : m \in Within[n - 1]}

GraphIsNeighbourhood ==
    stage = "done" /\ module # {} =>
        /\ Cardinality(DOMAIN reached) <= AtLeastOne(limit)
        /\ ~truncated => DOMAIN reached = Within[Hops]
        /\ ~truncated => \A n \in DOMAIN reached :
                n \in Within[reached[n]] /\ (reached[n] > 0 => n \notin Within[reached[n] - 1])
        /\ truncated => \E n \in DOMAIN reached : ~(Imported(n) \subseteq DOMAIN reached)
        /\ edges = {[from |-> arrow[1], to |-> arrow[2], depth |-> reached[arrow[1]] + 1] :
                      arrow \in {p \in (DOMAIN reached) \X (DOMAIN reached) :
                          reached[p[1]] < Hops /\ p[2] \in Imported(p[1])}}

(* What a module leads to along the edges shown, in one step or more: it     *)
(* never takes more steps than there are modules.                            *)
Onward(m) ==
    LET led[n \in Nat] ==
          IF n = 0 THEN Neighbours(m)
          ELSE LET so == led[n - 1] IN so \cup UNION {Neighbours(k) : k \in so}
    IN led[Cardinality(Nodes)]

(* The cycles are the strongly connected components that hold one: modules   *)
(* that lead to each other.                                                  *)
CyclesAreComponents ==
    stage = "done" =>
        cycles = {{m \in Nodes : m \in Onward(n) /\ n \in Onward(m)} :
                    n \in {k \in Nodes : k \in Onward(k)}}
================================================================================
