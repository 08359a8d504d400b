----------------------------- MODULE Queries_proofs -----------------------------
(***************************************************************************)
(* The algorithms behind the tools do what they promise, for any inputs.    *)
(*                                                                          *)
(* An import graph is the neighbourhood asked for: at every step the        *)
(* modules expanded so far have all their imports among the modules found,  *)
(* unless the limit is used up (GraphInv), and the modules of the hops that *)
(* are complete are those so many steps away (BallInv).                     *)
(*                                                                          *)
(* The search for cycles finds the strongly connected components.  Its      *)
(* invariant (SearchInv): every module on the stack leads to one of the     *)
(* path searched that was found no later (LeadsBack), and the path leads to *)
(* all found after it (LeadsOn); arrows not followed yet are those still to *)
(* look at (Followed); closed modules lead to closed ones only (ShutIn);    *)
(* and what is noted as least of a module of the path is on the stack,      *)
(* reached by it (LowIs), and as far back as any arrow already followed     *)
(* from what was found after it goes (LowLeast).  So a module that notes    *)
(* itself heads what lies above it on the stack, and that is its component  *)
(* (ComponentIs).  What leads to what is the closure the property computes, *)
(* shown once to be the least transitive one (IsGraph).                     *)
(*                                                                          *)
(* The ranking is the corpus in order without what a better candidate says  *)
(* (RankedIs): the order is one for the keys compare as tuples of integers, *)
(* and a span that lies within a kept one that lies within another lies in  *)
(* that.  An answer is the head of what is left of it (GotInv), the page    *)
(* before its last loss was too dear (RowsInv), the lower end of a search   *)
(* for lines always fits (FitInv), one line more than its upper end never   *)
(* (EndsInv), nor one more than was given (LinesInv): lines are given to    *)
(* one row only, no other being a summary (OneSummary).                     *)
(***************************************************************************)
EXTENDS Queries, FunctionTheorems, FiniteSetTheorems, SequenceTheorems, WellFoundedInduction,
        TLAPS

-----------------------------------------------------------------------------
(* Induction in the form of sets, which the provers can instantiate.         *)
LEMMA LeastIn ==
  ASSUME NEW S \in SUBSET Nat, S # {}
  PROVE  \E n \in S : \A m \in S : n <= m
  <1>1. PICK n \in S : \A m \in S : ~(<<m, n>> \in OpToRel(<, Nat))
    BY WFMin, NatLessThanWellFounded
  <1>2. \A m \in S : ~(m < n)
    BY <1>1 DEF OpToRel
  <1> QED BY <1>2

LEMMA SetInduction ==
  ASSUME NEW S, 0 \in S, \A n \in Nat : n \in S => n + 1 \in S
  PROVE  Nat \subseteq S
  <1> SUFFICES ASSUME ~(Nat \subseteq S) PROVE FALSE
    OBVIOUS
  <1>1. PICK n \in Nat \ S : \A m \in Nat \ S : n <= m
    <2>1. Nat \ S # {} /\ Nat \ S \in SUBSET Nat
      OBVIOUS
    <2> QED BY <2>1, LeastIn
  <1>2. n # 0 /\ n - 1 \in Nat /\ (n - 1) + 1 = n
    BY <1>1
  <1>3. n - 1 \in S
    <2>1. ~(n <= n - 1)
      BY <1>2
    <2> QED BY <1>1, <1>2, <2>1
  <1> QED BY <1>1, <1>2, <1>3

(* A function on the numbers may be defined by what it is at 0 and how it    *)
(* goes on from there.                                                       *)
LEMMA RecursionExists ==
  ASSUME NEW X, NEW b \in X, NEW G \in [X -> X]
  PROVE  \E f \in [Nat -> X] : f[0] = b /\ \A n \in Nat : f[n + 1] = G[f[n]]
  <1> DEFINE Start(n) == {g \in [0 .. n -> X] :
                            g[0] = b /\ \A i \in 0 .. n : i # n => g[i + 1] = G[g[i]]}
  <1>1. \A n \in Nat : Start(n) # {}
    <2> DEFINE S == {n \in Nat : Start(n) # {}}
    <2>1. 0 \in S
      <3>1. [i \in 0 .. 0 |-> b] \in Start(0)
        OBVIOUS
      <3> QED BY <3>1
    <2>2. ASSUME NEW n \in Nat, n \in S PROVE n + 1 \in S
      <3>1. PICK g \in Start(n) : TRUE
        BY <2>2
      <3> DEFINE h == [i \in 0 .. n + 1 |-> IF i = n + 1 THEN G[g[n]] ELSE g[i]]
      <3>2. h \in [0 .. n + 1 -> X]
        BY <3>1
      <3>3. h[0] = b
        BY <3>1
      <3>4. ASSUME NEW i \in 0 .. n + 1, i # n + 1 PROVE h[i + 1] = G[h[i]]
        <4>1. i \in 0 .. n /\ i + 1 \in 0 .. n + 1 /\ h[i] = g[i]
          BY <3>4
        <4>2. CASE i = n
          BY <4>1, <4>2
        <4>3. CASE i # n
          <5>1. i + 1 # n + 1 /\ h[i + 1] = g[i + 1]
            BY <4>1, <4>3
          <5> QED BY <3>1, <4>1, <4>3, <5>1
        <4> QED BY <4>2, <4>3
      <3>5. h \in Start(n + 1)
        <4> HIDE DEF h
        <4> QED BY <3>2, <3>3, <3>4
      <3> HIDE DEF Start
      <3> QED BY <3>5
    <2> HIDE DEF S
    <2>3. Nat \subseteq S
      BY <2>1, <2>2, SetInduction
    <2> QED BY <2>3 DEF S
  <1>2. ASSUME NEW m \in Nat, NEW n \in Nat, m <= n, NEW g \in Start(m), NEW h \in Start(n)
        PROVE  \A i \in 0 .. m : g[i] = h[i]
    <2> DEFINE S == {i \in Nat : i <= m => g[i] = h[i]}
    <2>1. 0 \in S
      OBVIOUS
    <2>2. ASSUME NEW i \in Nat, i \in S PROVE i + 1 \in S
      <3> SUFFICES ASSUME i + 1 <= m PROVE g[i + 1] = h[i + 1]
        OBVIOUS
      <3>1. i \in 0 .. m /\ i # m /\ i \in 0 .. n /\ i # n /\ i <= m
        BY <1>2
      <3>2. g[i + 1] = G[g[i]] /\ h[i + 1] = G[h[i]] /\ g[i] = h[i]
        BY <2>2, <3>1
      <3> QED BY <3>2
    <2> HIDE DEF S
    <2>3. Nat \subseteq S
      BY <2>1, <2>2, SetInduction
    <2> QED BY <2>3 DEF S
  <1> DEFINE at == [n \in Nat |-> CHOOSE g : g \in Start(n)]
             f == [n \in Nat |-> at[n][n]]
  <1>3. \A n \in Nat : at[n] \in Start(n)
    BY <1>1
  <1> HIDE DEF at
  <1>4. f \in [Nat -> X]
    BY <1>3
  <1>5. f[0] = b
    BY <1>3
  <1>6. ASSUME NEW n \in Nat PROVE f[n + 1] = G[f[n]]
    <2>1. at[n] \in Start(n) /\ at[n + 1] \in Start(n + 1) /\ n + 1 \in Nat
      <3> HIDE DEF Start
      <3> QED BY <1>3
    <2> DEFINE g == at[n]
               h == at[n + 1]
    <2>2. g[n] = h[n]
      <3>1. n \in 0 .. n /\ n <= n + 1
        OBVIOUS
      <3> QED BY <1>2, <2>1, <3>1
    <2>3. h[n + 1] = G[h[n]]
      <3>1. n \in 0 .. n + 1 /\ n # n + 1
        OBVIOUS
      <3> QED BY <2>1, <3>1
    <2> QED BY <2>1, <2>2, <2>3
  <1> QED BY <1>4, <1>5, <1>6
-----------------------------------------------------------------------------
(* The import graph.                                                         *)

LEMMA SameCounting ==
  \A S : (D!IsFiniteSet(S) <=> IsFiniteSet(S)) /\ D!Cardinality(S) = Cardinality(S)
  BY DEF D!IsFiniteSet, IsFiniteSet, D!Cardinality, Cardinality

(* The R least of a finite set of numbers are R of them, or all.             *)
LEMMA LeastOnes ==
  ASSUME NEW S \in SUBSET Nat, IsFiniteSet(S), NEW R \in Nat,
         NEW in, in = {n \in S : Cardinality({m \in S : m < n}) < R}
  PROVE  /\ in \subseteq S /\ IsFiniteSet(in) /\ Cardinality(in) \in Nat
         /\ Cardinality(in) <= R
         /\ in # S => Cardinality(in) = R
  <1> DEFINE below == [n \in S |-> {m \in S : m < n}]
             rank == [n \in in |-> Cardinality(below[n])]
  <1>1. /\ in \subseteq S /\ IsFiniteSet(in) /\ Cardinality(in) \in Nat
        /\ \A n \in S : below[n] \subseteq S /\ IsFiniteSet(below[n])
                        /\ Cardinality(below[n]) \in Nat
    BY FS_Subset, FS_CardinalityType
  <1>2. \A n \in S : n \in in <=> Cardinality(below[n]) < R
    OBVIOUS
  <1>3. ASSUME NEW a \in S, NEW b \in S, a < b
        PROVE  Cardinality(below[a]) < Cardinality(below[b])
    <2>1. below[a] \cup {a} \subseteq below[b] /\ a \notin below[a]
      <3>1. ~(a < a) /\ \A m \in S : m < a => m < b
        BY <1>3
      <3>2. below[a] = {m \in S : m < a} /\ below[b] = {m \in S : m < b}
        OBVIOUS
      <3> HIDE DEF below
      <3> QED BY <1>3, <3>1, <3>2
    <2> HIDE DEF below
    <2>2. Cardinality(below[a] \cup {a}) = Cardinality(below[a]) + 1
      BY <1>1, <2>1, FS_AddElement
    <2>3. Cardinality(below[a] \cup {a}) <= Cardinality(below[b])
      BY <1>1, <2>1, FS_Subset
    <2> QED BY <1>1, <2>2, <2>3
  <1> HIDE DEF below
  <1>4. IsFiniteSet(0 .. R - 1) /\ Cardinality(0 .. R - 1) = R
    BY FS_Interval
  <1>5. rank \in Injection(in, 0 .. R - 1)
    <2>1. \A n \in in : Cardinality(below[n]) \in 0 .. R - 1
      BY <1>1, <1>2
    <2>3. rank \in [in -> 0 .. R - 1]
      BY <2>1
    <2>2. ASSUME NEW a \in in, NEW b \in in, rank[a] = rank[b] PROVE a = b
      <3>1. a \in S /\ b \in S /\ a \in Nat /\ b \in Nat
        BY <1>1
      <3>2. ~(a < b) /\ ~(b < a)
        BY <1>1, <1>3, <2>2, <3>1
      <3> QED BY <3>1, <3>2
    <2> QED BY <2>2, <2>3 DEF Injection, IsInjective
  <1>6. Cardinality(in) <= R
    BY <1>4, <1>5, FS_Injection
  <1>7. ASSUME in # S PROVE Cardinality(in) >= R
    <2>1. PICK n \in S \ in : \A m \in S \ in : n <= m
      <3>1. S \ in # {} /\ S \ in \in SUBSET Nat
        BY <1>1, <1>7
      <3> QED BY <3>1, LeastIn
    <2>2. below[n] \subseteq in
      <3> SUFFICES ASSUME NEW m \in S, m < n PROVE m \in in
        BY DEF below
      <3>1. ~(n <= m)
        OBVIOUS
      <3> QED BY <2>1, <3>1
    <2>3. Cardinality(below[n]) <= Cardinality(in)
      BY <1>1, <2>2, FS_Subset
    <2>4. ~(Cardinality(below[n]) < R)
      BY <1>2, <2>1
    <2> QED BY <1>1, <2>3, <2>4
  <1> QED BY <1>1, <1>6, <1>7

(* The inputs, and what the modules are made of. *)
GraphTypes ==
    /\ table \in SUBSET D!ImportRow /\ module \in SUBSET Files /\ depth \in Nat /\ limit \in Nat
    /\ stage \in {"walk", "search", "done"}
    /\ hop \in Nat \ {0} /\ hop <= D!Hops
    /\ frontier \subseteq D!Node /\ next \subseteq D!Node
    /\ DOMAIN reached \subseteq D!Node /\ reached \in [DOMAIN reached -> 0 .. hop]

(* The modules whose imports have been looked at. *)
Expanded == {n \in DOMAIN reached : reached[n] < hop} \ frontier

(* The arrows of the graph: imports, among the modules found, of those       *)
(* expanded.                                                                 *)
Noted == {p \in (DOMAIN reached) \X (DOMAIN reached) :
             p[1] \in Expanded /\ p[2] \in D!Imported(p[1])}

Frontiers ==
    /\ D!RootNode \in DOMAIN reached
    /\ next = {n \in DOMAIN reached : reached[n] = hop}
    /\ frontier \subseteq {n \in DOMAIN reached : reached[n] = hop - 1}
    /\ stage # "walk" => frontier = {} /\ (next = {} \/ hop = D!Hops)

EdgesInv == edges = {[from |-> p[1], to |-> p[2], depth |-> reached[p[1]] + 1] : p \in Noted}

(* The limit keeps, and only it leaves an import out. *)
LimitInv ==
    /\ Cardinality(DOMAIN reached) <= D!AtLeastOne(limit)
    /\ ~truncated => \A n \in Expanded : D!Imported(n) \subseteq DOMAIN reached
    /\ truncated => /\ Cardinality(DOMAIN reached) = D!AtLeastOne(limit)
                    /\ \E n \in DOMAIN reached : ~(D!Imported(n) \subseteq DOMAIN reached)

(* Hops that are complete hold the modules so many steps away. *)
BallInv == ~truncated =>
    /\ \A h \in 0 .. hop - 1 : D!Within[h] = {n \in DOMAIN reached : reached[n] <= h}
    /\ \A n \in next : \E m \in Expanded : reached[m] = hop - 1 /\ n \in D!Imported(m)

GraphInv == module # {} =>
    GraphTypes /\ truncated \in BOOLEAN /\ Frontiers /\ EdgesInv /\ LimitInv /\ BallInv

-----------------------------------------------------------------------------
LEMMA NodesOf ==
  ASSUME table \in SUBSET D!ImportRow, module \in SUBSET Files, module # {}
  PROVE  /\ D!Node \subseteq Nat /\ IsFiniteSet(D!Node)
         /\ D!RootNode \in D!Node
         /\ \A n : D!Imported(n) \subseteq D!Node \ {n}
         /\ \A n : IsFiniteSet(D!Imported(n))
  <1>1. Files \subseteq Nat \ {0} /\ IsFiniteSet(Files)
    BY QueriesAssumption, SameCounting DEF D!DependenciesInputs
  <1>2. D!Node \subseteq Nat /\ IsFiniteSet(D!Node)
    BY <1>1, FS_AddElement DEF D!Node, D!Root
  <1>3. D!RootNode \in D!Node
    BY DEF D!RootNode, D!Node
  <1>4. ASSUME NEW n PROVE D!Imported(n) \subseteq D!Node \ {n}
    <2>1. \A r \in table : D!Pointed(r) \subseteq Files
      BY DEF D!Pointed, D!ImportRow
    <2>2. \A f \in Files : D!NodeOf(f) \in D!Node
      BY DEF D!NodeOf, D!Node
    <2> QED BY <2>1, <2>2 DEF D!Imported
  <1>5. ASSUME NEW n PROVE IsFiniteSet(D!Imported(n))
    <2>1. D!Imported(n) \in SUBSET D!Node
      BY <1>4
    <2> QED BY <1>2, <2>1, FS_Subset
  <1> QED BY <1>2, <1>3, <1>4, <1>5

(* The modules within n hops, by recursion on n. *)
LEMMA WithinOf ==
  ASSUME table \in SUBSET D!ImportRow, module \in SUBSET Files, module # {}
  PROVE  /\ D!Within[0] = {D!RootNode}
         /\ \A n \in Nat : D!Within[n + 1] =
                D!Within[n] \cup UNION {D!Imported(m) : m \in D!Within[n]}
  <1> DEFINE X == SUBSET D!Node
             G == [S \in X |-> S \cup UNION {D!Imported(m) : m \in S}]
             Def(f) == [n \in Nat |-> IF n = 0 THEN {D!RootNode}
                            ELSE f[n - 1] \cup UNION {D!Imported(m) : m \in f[n - 1]}]
  <1>1. {D!RootNode} \in X /\ G \in [X -> X]
    BY NodesOf
  <1>2. PICK f \in [Nat -> X] : f[0] = {D!RootNode} /\ \A n \in Nat : f[n + 1] = G[f[n]]
    <2> HIDE DEF X, G
    <2> QED BY <1>1, RecursionExists
  <1>3. f = Def(f)
    <2>1. ASSUME NEW n \in Nat \ {0}
          PROVE  f[n] = f[n - 1] \cup UNION {D!Imported(m) : m \in f[n - 1]}
      <3>1. n - 1 \in Nat /\ (n - 1) + 1 = n
        OBVIOUS
      <3>2. f[n] = G[f[n - 1]] /\ f[n - 1] \in X
        BY <1>2, <3>1
      <3> QED BY <3>2
    <2> HIDE DEF X
    <2> QED BY <1>2, <2>1
  <1>4. D!Within = Def(D!Within)
    <2>1. D!Within = CHOOSE g : g = Def(g)
      BY DEF D!Within
    <2> HIDE DEF Def
    <2> QED BY <1>3, <2>1
  <1> HIDE DEF X, G
  <1>5. D!Within[0] = {D!RootNode}
    BY <1>4
  <1>6. ASSUME NEW n \in Nat
        PROVE  D!Within[n + 1] = D!Within[n] \cup UNION {D!Imported(m) : m \in D!Within[n]}
    <2>1. n + 1 \in Nat /\ n + 1 # 0 /\ (n + 1) - 1 = n
      OBVIOUS
    <2> DEFINE w == D!Within
    <2>2. w = Def(w)
      BY <1>4
    <2> HIDE DEF w
    <2>3. w[n + 1] = w[(n + 1) - 1] \cup UNION {D!Imported(m) : m \in w[(n + 1) - 1]}
      BY <2>1, <2>2
    <2>4. w[n + 1] = w[n] \cup UNION {D!Imported(m) : m \in w[n]}
      BY <2>1, <2>3
    <2> QED BY <2>4 DEF w
  <1> QED BY <1>5, <1>6

LEMMA HopsIs ==
  ASSUME depth \in Nat
  PROVE  D!Hops \in Nat \ {0}
  BY QueriesAssumption DEF D!DependenciesInputs, D!Hops, D!AtLeastOne

LEMMA SameInputs ==
  ASSUME UNCHANGED <<table, module>>
  PROVE  /\ D!RootNode' = D!RootNode /\ D!Within' = D!Within
         /\ \A n : D!Imported(n)' = D!Imported(n)
  BY DEF D!Within, D!RootNode, D!Imported, D!NodeOf, D!FilesOf, D!Root, D!Pointed

LEMMA GraphInit == D!Init => GraphInv
  <1> SUFFICES ASSUME D!Init, module # {}
               PROVE  /\ GraphTypes /\ truncated \in BOOLEAN /\ Frontiers /\ EdgesInv
                      /\ LimitInv /\ BallInv
    BY DEF GraphInv
  <1>1. /\ table \in SUBSET D!ImportRow /\ module \in SUBSET Files
        /\ depth \in Nat /\ limit \in Nat
    BY QueriesAssumption DEF D!Init, D!DependenciesInputs
  <1>2. /\ stage = "walk" /\ hop = 1 /\ frontier = {D!RootNode} /\ next = {}
        /\ DOMAIN reached = {D!RootNode} /\ reached = [n \in {D!RootNode} |-> 0]
        /\ reached[D!RootNode] = 0 /\ edges = {} /\ truncated = FALSE
    BY DEF D!Init
  <1>3. D!Hops >= 1 /\ D!AtLeastOne(limit) >= 1
    BY <1>1, HopsIs DEF D!AtLeastOne
  <1>4. GraphTypes
    BY <1>1, <1>2, <1>3, NodesOf DEF GraphTypes
  <1>5. Frontiers
    BY <1>2 DEF Frontiers
  <1>6. Expanded = {}
    BY <1>2 DEF Expanded
  <1>7. EdgesInv
    BY <1>2, <1>6 DEF EdgesInv, Noted
  <1>8. Cardinality(DOMAIN reached) = 1
    BY <1>2, FS_Singleton
  <1>9. LimitInv
    BY <1>2, <1>3, <1>6, <1>8 DEF LimitInv
  <1>10. BallInv
    <2>1. D!Within[0] = {D!RootNode}
      BY <1>1, WithinOf
    <2>2. \A h \in 0 .. hop - 1 : h = 0
      BY <1>2
    <2> QED BY <1>2, <2>1, <2>2 DEF BallInv
  <1> QED BY <1>2, <1>4, <1>5, <1>7, <1>9, <1>10

(* What one module adds: as many of its new imports as the limit has room    *)
(* for, none once something was cut off.                                     *)
LEMMA AdmittedOf ==
  ASSUME GraphInv, module # {}, NEW from
  PROVE  LET new == D!Imported(from) \ DOMAIN reached
             in == D!Admitted(new)
         IN /\ in \subseteq new
            /\ Cardinality(DOMAIN reached \cup in) <= D!AtLeastOne(limit)
            /\ in # new => Cardinality(DOMAIN reached \cup in) = D!AtLeastOne(limit)
            /\ truncated => in = {}
  <1> DEFINE new == D!Imported(from) \ DOMAIN reached
             in == D!Admitted(new)
  <1>1. GraphTypes /\ LimitInv
    BY DEF GraphInv
  <1>2. new \in SUBSET Nat /\ IsFiniteSet(new)
    <2>1. D!Imported(from) \in SUBSET Nat /\ IsFiniteSet(D!Imported(from))
      BY <1>1, NodesOf DEF GraphTypes
    <2> QED BY <2>1, FS_Subset
  <1>3. IsFiniteSet(DOMAIN reached) /\ Cardinality(DOMAIN reached) \in Nat
    BY <1>1, NodesOf, FS_Subset, FS_CardinalityType DEF GraphTypes
  <1>4. D!AtLeastOne(limit) \in Nat
    BY <1>1 DEF GraphTypes, D!AtLeastOne
  <1>5. D!Room = D!AtLeastOne(limit) - Cardinality(DOMAIN reached) /\ D!Room \in Nat
    BY <1>1, <1>3, <1>4, SameCounting DEF D!Room, LimitInv
  <1>6. in = {n \in new : Cardinality({m \in new : m < n}) < D!Room}
    BY SameCounting DEF D!Admitted
  <1> HIDE DEF new, in
  <1>7. /\ in \subseteq new /\ IsFiniteSet(in) /\ Cardinality(in) \in Nat
        /\ Cardinality(in) <= D!Room
        /\ in # new => Cardinality(in) = D!Room
    BY <1>2, <1>5, <1>6, LeastOnes
  <1>8. DOMAIN reached \cap in = {}
    BY <1>7 DEF new
  <1>9. Cardinality(DOMAIN reached \cup in) = Cardinality(DOMAIN reached) + Cardinality(in)
    <2> DEFINE old == DOMAIN reached
    <2>1. Cardinality(old \cap in) = 0
      BY <1>8, FS_EmptySet
    <2>2. IsFiniteSet(old) /\ Cardinality(old) \in Nat
      BY <1>3
    <2> HIDE DEF old
    <2>3. Cardinality(old \cup in) = Cardinality(old) + Cardinality(in) - Cardinality(old \cap in)
      BY <1>7, <2>2, FS_Union
    <2>4. Cardinality(old \cup in) = Cardinality(old) + Cardinality(in)
      BY <1>7, <2>1, <2>2, <2>3
    <2> QED BY <2>4 DEF old
  <1>10. truncated => in = {}
    <2> SUFFICES ASSUME truncated PROVE in = {}
      OBVIOUS
    <2>1. D!Room = 0
      BY <1>1, <1>3, <1>4, <1>5 DEF LimitInv
    <2>2. Cardinality(in) = 0
      BY <1>7, <2>1
    <2> QED BY <1>7, <2>2, FS_EmptySet
  <1>11. /\ Cardinality(DOMAIN reached \cup in) <= D!AtLeastOne(limit)
         /\ in # new => Cardinality(DOMAIN reached \cup in) = D!AtLeastOne(limit)
    BY <1>3, <1>4, <1>5, <1>7, <1>9
  <1> QED BY <1>7, <1>10, <1>11 DEF new, in

LEMMA ExpandKeeps ==
  ASSUME GraphInv, module # {}, D!Expand
  PROVE  GraphInv'
  <1> DEFINE from == D!First(frontier)
             new == D!Imported(from) \ DOMAIN reached
             in == D!Admitted(new)
  <1>1. GraphTypes /\ truncated \in BOOLEAN /\ Frontiers /\ EdgesInv /\ LimitInv /\ BallInv
    BY DEF GraphInv
  <1>2. /\ stage = "walk" /\ frontier # {}
        /\ reached' = [n \in DOMAIN reached \cup in |-> IF n \in in THEN hop ELSE reached[n]]
        /\ next' = next \cup in
        /\ truncated' = (truncated \/ in # new)
        /\ edges' = edges \cup {[from |-> from, to |-> n, depth |-> hop] :
                                   n \in D!Imported(from) \ (new \ in)}
        /\ frontier' = frontier \ {from}
        /\ UNCHANGED <<table, module, depth, limit, stage, hop>>
    BY DEF D!Expand
  <1>3. from \in frontier
    <2>1. frontier \in SUBSET Nat
      BY <1>1, NodesOf DEF GraphTypes
    <2>2. \E n \in frontier : \A m \in frontier : n <= m
      BY <1>2, <2>1, LeastIn
    <2> QED BY <2>2 DEF D!First
  <1>4. /\ in \subseteq new
        /\ Cardinality(DOMAIN reached \cup in) <= D!AtLeastOne(limit)
        /\ in # new => Cardinality(DOMAIN reached \cup in) = D!AtLeastOne(limit)
        /\ truncated => in = {}
    BY AdmittedOf
  <1>5. /\ from \in DOMAIN reached /\ reached[from] = hop - 1 /\ from \notin D!Imported(from)
        /\ D!Imported(from) \subseteq D!Node
    BY <1>1, <1>3, NodesOf DEF Frontiers, GraphTypes
  <1>6. new = D!Imported(from) \ DOMAIN reached
    OBVIOUS
  <1> HIDE DEF from, new, in
  <1>7. /\ DOMAIN reached' = DOMAIN reached \cup in
        /\ \A n \in DOMAIN reached : reached'[n] = reached[n] /\ n \notin in
        /\ \A n \in in : reached'[n] = hop /\ n \notin DOMAIN reached
    BY <1>2, <1>4, <1>6
  <1>8. hop \in Nat \ {0} /\ \A n \in DOMAIN reached : reached[n] \in 0 .. hop
    BY <1>1 DEF GraphTypes
  <1>9. GraphTypes'
    <2>1. in \subseteq D!Node
      BY <1>4, <1>5, <1>6
    <2>2. reached' \in [DOMAIN reached' -> 0 .. hop]
      BY <1>2, <1>7, <1>8
    <2>3. D!Hops' = D!Hops
      BY <1>2 DEF D!Hops, D!AtLeastOne
    <2>4. /\ hop' \in Nat \ {0} /\ hop' <= D!Hops' /\ DOMAIN reached' \subseteq D!Node
          /\ reached' \in [DOMAIN reached' -> 0 .. hop']
      BY <1>1, <1>2, <1>7, <2>1, <2>2, <2>3 DEF GraphTypes
    <2>5. next' \subseteq D!Node /\ frontier' \subseteq D!Node
      BY <1>1, <1>2, <2>1 DEF GraphTypes
    <2> QED BY <1>1, <1>2, <2>4, <2>5 DEF GraphTypes
  <1>10. Expanded' = Expanded \cup {from}
    BY <1>1, <1>2, <1>3, <1>5, <1>7, <1>8 DEF Expanded, Frontiers
  <1>11. from \notin Expanded /\ Expanded \subseteq DOMAIN reached
    BY <1>3 DEF Expanded
  <1>12. Frontiers'
    BY <1>1, <1>2, <1>3, <1>7, <1>8, SameInputs DEF Frontiers
  <1>13. \A n \in Expanded : D!Imported(n) \cap in = {}
    BY <1>1, <1>4, <1>7 DEF LimitInv
  <1>14. EdgesInv'
    <2>1. Noted' = Noted \cup {<<from, n>> : n \in D!Imported(from) \ (new \ in)}
      <3>1. D!Imported(from) \ (new \ in) = D!Imported(from) \cap (DOMAIN reached \cup in)
        BY <1>4, <1>6
      <3> QED BY <1>2, <1>5, <1>7, <1>10, <1>11, <1>13, <3>1, SameInputs DEF Noted
    <2>2. \A p \in Noted : p[1] \in DOMAIN reached /\ reached'[p[1]] = reached[p[1]]
      BY <1>7 DEF Noted
    <2>3. reached'[from] + 1 = hop
      BY <1>5, <1>7, <1>8
    <2>4. edges = {[from |-> p[1], to |-> p[2], depth |-> reached'[p[1]] + 1] : p \in Noted}
      BY <1>1, <2>2 DEF EdgesInv
    <2> DEFINE more == {<<from, n>> : n \in D!Imported(from) \ (new \ in)}
    <2>5. {[from |-> from, to |-> n, depth |-> hop] : n \in D!Imported(from) \ (new \ in)} =
          {[from |-> p[1], to |-> p[2], depth |-> reached'[p[1]] + 1] : p \in more}
      <3> DEFINE shown == D!Imported(from) \ (new \ in)
      <3>1. \A n \in shown : <<from, n>> \in more
        OBVIOUS
      <3>2. \A p \in more : p[1] = from /\ p[2] \in shown
        OBVIOUS
      <3>3. \A n : <<from, n>>[1] = from /\ <<from, n>>[2] = n
        OBVIOUS
      <3> HIDE DEF shown, more
      <3>4. \A p \in more : [from |-> p[1], to |-> p[2], depth |-> reached'[p[1]] + 1] =
                             [from |-> from, to |-> p[2], depth |-> hop]
        BY <2>3, <3>2
      <3>5. {[from |-> from, to |-> n, depth |-> hop] : n \in shown} =
            {[from |-> from, to |-> p[2], depth |-> hop] : p \in more}
        BY <3>1, <3>2, <3>3
      <3> QED BY <3>4, <3>5 DEF shown
    <2> HIDE DEF more
    <2>6. edges' = {[from |-> p[1], to |-> p[2], depth |-> reached'[p[1]] + 1] :
                       p \in Noted \cup more}
      BY <1>2, <2>4, <2>5
    <2> QED BY <2>1, <2>6 DEF EdgesInv, more
  <1>15. LimitInv'
    <2>1. ~truncated' => \A n \in Expanded' : D!Imported(n)' \subseteq DOMAIN reached'
      BY <1>1, <1>2, <1>6, <1>7, <1>10, SameInputs DEF LimitInv
    <2>2. Cardinality(DOMAIN reached') <= D!AtLeastOne(limit)'
      BY <1>2, <1>4, <1>7 DEF D!AtLeastOne
    <2>3. ASSUME truncated'
          PROVE  /\ Cardinality(DOMAIN reached') = D!AtLeastOne(limit)'
                 /\ \E n \in DOMAIN reached' : ~(D!Imported(n)' \subseteq DOMAIN reached')
      <3>1. CASE truncated
        <4>1. DOMAIN reached' = DOMAIN reached
          BY <1>4, <1>7, <3>1
        <4> QED BY <1>1, <1>2, <3>1, <4>1, SameInputs DEF LimitInv, D!AtLeastOne
      <3>2. CASE in # new
        <4>1. ~(D!Imported(from) \subseteq DOMAIN reached')
          BY <1>4, <1>6, <1>7, <3>2
        <4> QED BY <1>2, <1>4, <1>5, <1>7, <3>2, <4>1, SameInputs DEF D!AtLeastOne
      <3> QED BY <1>2, <2>3, <3>1, <3>2
    <2> QED BY <2>1, <2>2, <2>3 DEF LimitInv
  <1>16. BallInv'
    <2> SUFFICES ASSUME ~truncated'
                 PROVE  /\ \A h \in 0 .. hop - 1 :
                              D!Within[h] = {n \in DOMAIN reached' : reached'[n] <= h}
                        /\ \A n \in next' : \E m \in Expanded' :
                              reached'[m] = hop - 1 /\ n \in D!Imported(m)
      BY <1>2, SameInputs DEF BallInv
    <2>1. ~truncated
      BY <1>2
    <2>2. ASSUME NEW h \in 0 .. hop - 1
          PROVE  {n \in DOMAIN reached' : reached'[n] <= h} =
                 {n \in DOMAIN reached : reached[n] <= h}
      <3>1. ~(hop <= h)
        BY <1>8
      <3> QED BY <1>7, <3>1
    <2>3. ASSUME NEW n \in next'
          PROVE  \E m \in Expanded' : reached'[m] = hop - 1 /\ n \in D!Imported(m)
      <3>1. CASE n \in next
        BY <1>1, <1>7, <1>10, <1>11, <2>1, <3>1 DEF BallInv
      <3>2. CASE n \in in
        BY <1>4, <1>5, <1>6, <1>7, <1>10, <3>2
      <3> QED BY <1>2, <3>1, <3>2
    <2> QED BY <1>1, <2>1, <2>2, <2>3 DEF BallInv
  <1> QED BY <1>1, <1>2, <1>9, <1>12, <1>14, <1>15, <1>16 DEF GraphInv
(* A hop that is complete has found what is one step further.                *)
LEMMA FullBall ==
  ASSUME GraphInv, module # {}, ~truncated, frontier = {}
  PROVE  /\ Expanded = {n \in DOMAIN reached : reached[n] <= hop - 1}
         /\ D!Within[hop - 1] = Expanded
         /\ D!Within[hop] = DOMAIN reached
  <1>1. GraphTypes /\ Frontiers /\ LimitInv /\ BallInv
    BY DEF GraphInv
  <1>2. /\ hop \in Nat \ {0} /\ hop - 1 \in Nat /\ (hop - 1) + 1 = hop /\ hop - 1 \in 0 .. hop - 1
        /\ \A n \in DOMAIN reached : reached[n] \in 0 .. hop
    BY <1>1 DEF GraphTypes
  <1>3. Expanded = {n \in DOMAIN reached : reached[n] <= hop - 1}
    <2>1. \A n \in DOMAIN reached : reached[n] < hop <=> reached[n] <= hop - 1
      BY <1>2
    <2> QED BY <2>1 DEF Expanded
  <1>4. D!Within[hop - 1] = Expanded
    BY <1>1, <1>2, <1>3 DEF BallInv
  <1>5. D!Within[hop] = Expanded \cup UNION {D!Imported(m) : m \in Expanded}
    <2>1. D!Within[(hop - 1) + 1] =
            D!Within[hop - 1] \cup UNION {D!Imported(m) : m \in D!Within[hop - 1]}
      BY <1>1, <1>2, WithinOf DEF GraphTypes
    <2> QED BY <1>2, <1>4, <2>1
  <1>6. DOMAIN reached = Expanded \cup next
    <2>1. \A n \in DOMAIN reached : reached[n] < hop \/ reached[n] = hop
      BY <1>2
    <2> QED BY <1>1, <2>1 DEF Expanded, Frontiers
  <1>7. \A n \in Expanded : D!Imported(n) \subseteq DOMAIN reached
    BY <1>1 DEF LimitInv
  <1>8. next \subseteq UNION {D!Imported(m) : m \in Expanded}
    BY <1>1 DEF BallInv
  <1>9. D!Within[hop] = DOMAIN reached
    BY <1>5, <1>6, <1>7, <1>8
  <1> QED BY <1>3, <1>4, <1>9

LEMMA EndHopKeeps ==
  ASSUME GraphInv, module # {}, D!EndHop
  PROVE  GraphInv'
  <1>1. GraphTypes /\ truncated \in BOOLEAN /\ Frontiers /\ EdgesInv /\ LimitInv /\ BallInv
    BY DEF GraphInv
  <1>2. /\ stage = "walk" /\ frontier = {}
        /\ UNCHANGED <<table, module, depth, limit, reached, edges, truncated>>
    BY DEF D!EndHop
  <1>3. D!AtLeastOne(limit)' = D!AtLeastOne(limit) /\ D!Hops' = D!Hops
    BY <1>2 DEF D!AtLeastOne, D!Hops
  <1>4. CASE next = {} \/ hop = D!Hops
    <2>1. stage' = "search" /\ UNCHANGED <<hop, frontier, next>>
      BY <1>4 DEF D!EndHop
    <2>2. GraphTypes' /\ Frontiers'
      BY <1>1, <1>2, <1>3, <1>4, <2>1, SameInputs DEF GraphTypes, Frontiers
    <2>3. Expanded' = Expanded
      BY <1>2, <2>1 DEF Expanded
    <2>4. EdgesInv' /\ LimitInv'
      BY <1>1, <1>2, <1>3, <2>3, SameInputs DEF EdgesInv, Noted, LimitInv
    <2>5. BallInv'
      BY <1>1, <1>2, <2>1, <2>3, SameInputs DEF BallInv
    <2> QED BY <1>1, <1>2, <2>2, <2>4, <2>5 DEF GraphInv
  <1>5. CASE next # {} /\ hop # D!Hops
    <2>1. stage' = stage /\ hop' = hop + 1 /\ frontier' = next /\ next' = {}
      BY <1>5 DEF D!EndHop
    <2>2. /\ hop \in Nat \ {0} /\ (hop + 1) - 1 = hop /\ hop + 1 \in Nat \ {0}
          /\ \A n \in DOMAIN reached : reached[n] \in 0 .. hop
      BY <1>1 DEF GraphTypes
    <2>3. hop + 1 <= D!Hops
      BY <1>1, <1>5, <2>2, HopsIs DEF GraphTypes
    <2>4. GraphTypes'
      <3>1. reached \in [DOMAIN reached -> 0 .. hop + 1]
        BY <1>1, <2>2 DEF GraphTypes
      <3> QED BY <1>1, <1>2, <1>3, <2>1, <2>2, <2>3, <3>1 DEF GraphTypes
    <2>5. Frontiers'
      <3>1. {n \in DOMAIN reached : reached[n] = hop + 1} = {}
        BY <2>2
      <3> QED BY <1>1, <1>2, <2>1, <2>2, <3>1, SameInputs DEF Frontiers
    <2>6. Expanded' = Expanded
      <3>1. \A n \in DOMAIN reached : reached[n] < hop + 1 /\ reached[n] # hop <=> reached[n] < hop
        BY <2>2
      <3> QED BY <1>1, <1>2, <2>1, <3>1 DEF Expanded, Frontiers
    <2>7. EdgesInv' /\ LimitInv'
      BY <1>1, <1>2, <1>3, <2>6, SameInputs DEF EdgesInv, Noted, LimitInv
    <2>8. BallInv'
      <3> SUFFICES ASSUME ~truncated, NEW h \in 0 .. hop
                   PROVE  D!Within[h] = {n \in DOMAIN reached : reached[n] <= h}
        BY <1>2, <2>1, <2>2, SameInputs DEF BallInv
      <3>1. CASE h = hop
        <4>1. {n \in DOMAIN reached : reached[n] <= hop} = DOMAIN reached
          BY <2>2
        <4> QED BY <1>2, <3>1, <4>1, FullBall
      <3>2. CASE h # hop
        <4>1. h \in 0 .. hop - 1
          BY <2>2, <3>2
        <4> QED BY <1>1, <4>1 DEF BallInv
      <3> QED BY <3>1, <3>2
    <2> QED BY <1>1, <1>2, <2>4, <2>5, <2>7, <2>8 DEF GraphInv
  <1> QED BY <1>4, <1>5

(* Searching for cycles leaves the graph alone. *)
LEMMA SearchKeeps ==
  ASSUME GraphInv, UNCHANGED D!walked, stage' = stage \/ (stage # "walk" /\ stage' = "done")
  PROVE  GraphInv'
  <1>1. UNCHANGED <<table, module, depth, limit, hop, frontier, next, reached, edges, truncated>>
    BY DEF D!walked
  <1> SUFFICES ASSUME module # {} PROVE GraphInv'
    BY <1>1 DEF GraphInv
  <1>2. GraphTypes /\ truncated \in BOOLEAN /\ Frontiers /\ EdgesInv /\ LimitInv /\ BallInv
    BY DEF GraphInv
  <1>3. D!AtLeastOne(limit)' = D!AtLeastOne(limit) /\ D!Hops' = D!Hops
    BY <1>1 DEF D!AtLeastOne, D!Hops
  <1>4. GraphTypes' /\ Frontiers'
    BY <1>1, <1>2, <1>3, SameInputs DEF GraphTypes, Frontiers
  <1>5. Expanded' = Expanded
    BY <1>1 DEF Expanded
  <1>6. EdgesInv' /\ LimitInv' /\ BallInv'
    BY <1>1, <1>2, <1>3, <1>5, SameInputs DEF EdgesInv, Noted, LimitInv, BallInv
  <1> QED BY <1>1, <1>2, <1>4, <1>6 DEF GraphInv

LEMMA GraphStep ==
  ASSUME GraphInv, D!Next \/ UNCHANGED graphVars
  PROVE  GraphInv'
  <1>1. CASE module = {}
    <2>1. module' = module
      BY DEF D!Next, D!Expand, D!EndHop, D!StartAt, D!Look, D!Finish, D!Answer, D!Done,
             D!walked, D!vars, graphVars
    <2> QED BY <1>1, <2>1 DEF GraphInv
  <1>2. CASE module # {} /\ (D!Expand \/ D!EndHop)
    BY <1>2, ExpandKeeps, EndHopKeeps
  <1>3. CASE ~(D!Expand \/ D!EndHop)
    <2>1. UNCHANGED D!walked /\ (stage' = stage \/ (stage # "walk" /\ stage' = "done"))
      BY <1>3 DEF D!Next, D!StartAt, D!Look, D!Finish, D!Answer, D!Done, D!walked, D!vars,
                  graphVars
    <2> QED BY <2>1, SearchKeeps
  <1> QED BY <1>1, <1>2, <1>3

(* A finished walk that was not cut short has found all there is within the  *)
(* depth.                                                                    *)
LEMMA WholeBall ==
  ASSUME GraphInv, module # {}, ~truncated, stage # "walk"
  PROVE  D!Within[D!Hops] = DOMAIN reached
  <1>1. GraphTypes /\ Frontiers /\ LimitInv /\ BallInv
    BY DEF GraphInv
  <1>2. frontier = {} /\ (next = {} \/ hop = D!Hops)
    BY <1>1 DEF Frontiers
  <1>3. CASE hop = D!Hops
    BY <1>2, <1>3, FullBall
  <1>4. CASE next = {}
    <2>1. /\ hop \in Nat /\ hop - 1 \in Nat
          /\ hop <= D!Hops /\ D!Hops \in Nat
          /\ \A n \in DOMAIN reached : reached[n] \in 0 .. hop
      BY <1>1, HopsIs DEF GraphTypes
    <2>2. Expanded = DOMAIN reached
      <3>1. \A n \in DOMAIN reached : reached[n] # hop
        BY <1>1, <1>4 DEF Frontiers
      <3>2. \A n \in DOMAIN reached : reached[n] <= hop - 1
        BY <2>1, <3>1
      <3> QED BY <1>2, <3>2, FullBall
    <2> DEFINE S == {k \in Nat : D!Within[(hop - 1) + k] = DOMAIN reached}
    <2>3. 0 \in S
      <3>1. (hop - 1) + 0 = hop - 1
        BY <2>1
      <3> QED BY <1>2, <2>2, <3>1, FullBall
    <2>4. ASSUME NEW k \in Nat, k \in S PROVE k + 1 \in S
      <3> DEFINE m == (hop - 1) + k
      <3>1. m \in Nat /\ (hop - 1) + (k + 1) = m + 1
        BY <2>1
      <3>2. D!Within[m] = DOMAIN reached
        BY <2>4
      <3> HIDE DEF m
      <3>3. D!Within[m + 1] = D!Within[m] \cup UNION {D!Imported(n) : n \in D!Within[m]}
        BY <1>1, <3>1, WithinOf DEF GraphTypes
      <3>4. \A n \in DOMAIN reached : D!Imported(n) \subseteq DOMAIN reached
        BY <1>1, <2>2 DEF LimitInv
      <3>5. D!Within[m + 1] = DOMAIN reached
        BY <3>2, <3>3, <3>4
      <3>6. D!Within[(hop - 1) + (k + 1)] = DOMAIN reached
        BY <3>1, <3>5
      <3> QED BY <3>6
    <2> HIDE DEF S
    <2>5. Nat \subseteq S
      BY <2>3, <2>4, SetInduction
    <2>6. /\ D!Hops - (hop - 1) \in Nat
          /\ (hop - 1) + (D!Hops - (hop - 1)) = D!Hops
      BY <2>1
    <2>7. D!Hops - (hop - 1) \in S
      BY <2>5, <2>6
    <2> QED BY <2>6, <2>7 DEF S
  <1> QED BY <1>2, <1>3, <1>4

LEMMA GraphResult == GraphInv => GraphIsNeighbourhood
  <1> SUFFICES ASSUME GraphInv, stage = "done", module # {}
               PROVE  GraphIsNeighbourhood
    BY DEF GraphIsNeighbourhood, D!GraphIsNeighbourhood
  <1>1. GraphTypes /\ Frontiers /\ EdgesInv /\ LimitInv /\ BallInv
    BY DEF GraphInv
  <1>2. frontier = {} /\ (next = {} \/ hop = D!Hops)
    BY <1>1 DEF Frontiers
  <1>3. /\ hop \in Nat \ {0} /\ hop <= D!Hops /\ D!Hops \in Nat
        /\ \A n \in DOMAIN reached : reached[n] \in 0 .. hop
    BY <1>1, HopsIs DEF GraphTypes
  <1>4. D!Cardinality(DOMAIN reached) <= D!AtLeastOne(limit)
    BY <1>1, SameCounting DEF LimitInv
  <1>5. ~truncated => DOMAIN reached = D!Within[D!Hops]
    BY WholeBall
  <1>6. ASSUME ~truncated, NEW n \in DOMAIN reached
        PROVE  n \in D!Within[reached[n]] /\ (reached[n] > 0 => n \notin D!Within[reached[n] - 1])
    <2>1. \A h \in 0 .. hop - 1 : D!Within[h] = {m \in DOMAIN reached : reached[m] <= h}
      BY <1>1, <1>6 DEF BallInv
    <2>2. reached[n] > 0 => n \notin D!Within[reached[n] - 1]
      <3> SUFFICES ASSUME reached[n] > 0 PROVE n \notin D!Within[reached[n] - 1]
        OBVIOUS
      <3>1. reached[n] - 1 \in 0 .. hop - 1 /\ ~(reached[n] <= reached[n] - 1)
        BY <1>3
      <3> QED BY <2>1, <3>1
    <2>3. CASE reached[n] = hop
      BY <1>2, <1>6, <2>2, <2>3, FullBall
    <2>4. CASE reached[n] # hop
      <3>1. reached[n] \in 0 .. hop - 1 /\ reached[n] <= reached[n]
        BY <1>3, <2>4
      <3> QED BY <2>1, <2>2, <3>1
    <2> QED BY <2>3, <2>4
  <1>7. truncated => \E n \in DOMAIN reached : ~(D!Imported(n) \subseteq DOMAIN reached)
    BY <1>1 DEF LimitInv
  <1>8. \A n \in DOMAIN reached : n \in Expanded <=> reached[n] < D!Hops
    <2>1. CASE hop = D!Hops
      BY <1>2, <2>1 DEF Expanded
    <2>2. CASE next = {}
      <3>1. \A n \in DOMAIN reached : reached[n] # hop
        BY <1>1, <2>2 DEF Frontiers
      <3>2. \A n \in DOMAIN reached : reached[n] < hop /\ reached[n] < D!Hops
        BY <1>3, <3>1
      <3> QED BY <1>2, <3>2 DEF Expanded
    <2> QED BY <1>2, <2>1, <2>2
  <1>9. Noted = {p \in (DOMAIN reached) \X (DOMAIN reached) :
                    reached[p[1]] < D!Hops /\ p[2] \in D!Imported(p[1])}
    BY <1>8 DEF Noted
  <1> QED BY <1>1, <1>4, <1>5, <1>6, <1>7, <1>9
          DEF GraphIsNeighbourhood, D!GraphIsNeighbourhood, EdgesInv

-----------------------------------------------------------------------------
(* The import graph has the modules within the depth asked for, each with    *)
(* the least number of hops to it, and the imports among them; it is cut     *)
(* only at the limit, and says so (walk_dependency_graph).                   *)
THEOREM GraphIsRight == AnySpec => []GraphIsNeighbourhood
  <1>1. AnyInit => GraphInv
    BY GraphInit DEF AnyInit
  <1>2. GraphInv /\ [AllNext]_allVars => GraphInv'
    <2>1. [AllNext]_allVars => D!Next \/ UNCHANGED graphVars
      BY DEF AllNext, allVars, graphVars
    <2> QED BY <2>1, GraphStep
  <1> QED BY <1>1, <1>2, GraphResult, PTL DEF AnySpec

-----------------------------------------------------------------------------
(* The paths of a graph.                                                    *)

(* The arrows of the graph shown. *)
Arrows == {<<e.from, e.to>> : e \in edges}

(* The nodes one step from those of S. *)
After(N, A, S) == {y \in N : \E z \in S : <<z, y>> \in A}

(* Each step adds what the last one leads to. *)
Grows(f, N, A) == \A k \in Nat : f[k + 1] = f[k] \cup After(N, A, f[k])

(* The paths P of a graph of nodes N and arrows A: they hold the arrows, go   *)
(* on along arrows, and are in every set an arrow never leaves.              *)
IsGraph(N, A, P) ==
    /\ IsFiniteSet(N) /\ A \subseteq N \X N /\ P \subseteq N \X N /\ A \subseteq P
    /\ \A p \in P, a \in A : p[2] = a[1] => <<p[1], a[2]>> \in P
    /\ \A S : \A x : (\A a \in A : a[1] \in S \cup {x} => a[2] \in S)
                       => \A p \in P : p[1] = x => p[2] \in S

LEMMA PathsJoin ==
  ASSUME NEW N, NEW A, NEW P, IsGraph(N, A, P), NEW p \in P, NEW q \in P, p[2] = q[1]
  PROVE  <<p[1], q[2]>> \in P
  <1> DEFINE S == {y \in N : <<p[1], y>> \in P}
  <1>0. A \subseteq N \X N /\ P \subseteq N \X N
    BY DEF IsGraph
  <1>1. \A a \in A : a[1] \in S \cup {q[1]} => a[2] \in S
    <2> SUFFICES ASSUME NEW a \in A, a[1] \in S \cup {q[1]} PROVE a[2] \in S
      OBVIOUS
    <2>1. <<p[1], a[1]>> \in P
      <3>1. p = <<p[1], p[2]>>
        BY <1>0
      <3> QED BY <3>1
    <2>2. <<p[1], a[2]>> \in P
      BY <2>1 DEF IsGraph
    <2> QED BY <1>0, <2>2
  <1>2. \A r \in P : r[1] = q[1] => r[2] \in S
    <2> HIDE DEF S
    <2> QED BY <1>1 DEF IsGraph
  <1> QED BY <1>2

(* What k steps lead to grows with k and has stopped growing when k is the    *)
(* number of nodes.                                                          *)
LEMMA StepsEnd ==
  ASSUME NEW N, IsFiniteSet(N), NEW A \in SUBSET (N \X N), NEW f \in [Nat -> SUBSET N],
         Grows(f, N, A)
  PROVE  f[Cardinality(N)] = f[Cardinality(N) + 1]
  <1> DEFINE C == Cardinality(N)
             S == {k \in Nat : f[k] = f[k + 1] \/ Cardinality(f[k]) >= k}
  <1>1. C \in Nat /\ \A k \in Nat : IsFiniteSet(f[k]) /\ Cardinality(f[k]) \in Nat
                                    /\ Cardinality(f[k]) <= C
    BY FS_CardinalityType, FS_Subset
  <1>2. ASSUME NEW k \in Nat, f[k] = f[k + 1] PROVE f[k + 1] = f[(k + 1) + 1]
    <2>1. k + 1 \in Nat
      OBVIOUS
    <2>2. f[(k + 1) + 1] = f[k + 1] \cup After(N, A, f[k + 1])
      BY <2>1 DEF Grows
    <2>3. f[k + 1] = f[k] \cup After(N, A, f[k])
      BY DEF Grows
    <2>4. After(N, A, f[k]) = After(N, A, f[k + 1])
      BY <1>2
    <2> QED BY <1>2, <2>2, <2>3, <2>4
  <1>3. 0 \in S
    BY <1>1
  <1>4. ASSUME NEW k \in Nat, k \in S PROVE k + 1 \in S
    <2>1. CASE f[k] = f[k + 1]
      BY <1>2, <2>1
    <2>2. CASE f[k] # f[k + 1] /\ Cardinality(f[k]) >= k
      <3>1. f[k] \subseteq f[k + 1] /\ k + 1 \in Nat
        BY DEF Grows
      <3>2. Cardinality(f[k]) # Cardinality(f[k + 1]) /\ Cardinality(f[k]) <= Cardinality(f[k + 1])
        BY <1>1, <2>2, <3>1, FS_Subset
      <3>3. Cardinality(f[k + 1]) \in Nat /\ Cardinality(f[k]) \in Nat
        BY <1>1, <3>1
      <3>4. Cardinality(f[k + 1]) >= k + 1
        BY <2>2, <3>2, <3>3
      <3> QED BY <3>1, <3>4
    <2> QED BY <1>4, <2>1, <2>2
  <1>5. Nat \subseteq S
    <2> HIDE DEF S
    <2> QED BY <1>3, <1>4, SetInduction
  <1>6. C \in S
    BY <1>1, <1>5
  <1>7. CASE f[C] # f[C + 1]
    <2>1. Cardinality(f[C]) = C
      <3>1. Cardinality(f[C]) >= C
        BY <1>6, <1>7
      <3> QED BY <1>1, <3>1
    <2>2. f[C] = N
      BY <1>1, <2>1, FS_Subset
    <2>3. f[C] \subseteq f[C + 1] /\ f[C + 1] \subseteq N
      BY <1>1 DEF Grows
    <2> QED BY <2>2, <2>3
  <1> QED BY <1>7

(* What the property takes a module to lead to is what so many steps reach.   *)
LEMMA OnwardIs ==
  ASSUME NEW N, N = D!Nodes, IsFiniteSet(N), NEW A, A = Arrows
  PROVE  \A x \in N : \E f \in [Nat -> SUBSET N] :
           /\ f[0] = After(N, A, {x})
           /\ Grows(f, N, A)
           /\ D!Onward(x) = f[Cardinality(N)]
  <1> SUFFICES ASSUME NEW x \in N
               PROVE  \E f \in [Nat -> SUBSET N] :
                  /\ f[0] = After(N, A, {x})
                  /\ Grows(f, N, A)
                  /\ D!Onward(x) = f[Cardinality(N)]
    OBVIOUS
  <1> DEFINE Y == SUBSET N
             G == [S \in Y |-> S \cup UNION {D!Neighbours(k) : k \in S}]
             Def(f) == [n \in Nat |-> IF n = 0 THEN D!Neighbours(x)
                          ELSE f[n - 1] \cup UNION {D!Neighbours(k) : k \in f[n - 1]}]
  <1>0. \A m : D!Neighbours(m) = {y \in N : <<m, y>> \in A}
    BY DEF D!Neighbours, D!Nodes, Arrows
  <1>1. D!Neighbours(x) \in Y /\ G \in [Y -> Y]
    BY <1>0
  <1>2. PICK f \in [Nat -> Y] : f[0] = D!Neighbours(x) /\ \A n \in Nat : f[n + 1] = G[f[n]]
    <2> HIDE DEF Y, G
    <2> QED BY <1>1, RecursionExists
  <1>3. f = Def(f)
    <2>1. ASSUME NEW n \in Nat \ {0}
          PROVE  f[n] = f[n - 1] \cup UNION {D!Neighbours(k) : k \in f[n - 1]}
      <3>1. n - 1 \in Nat /\ (n - 1) + 1 = n
        OBVIOUS
      <3>2. f[n] = G[f[n - 1]] /\ f[n - 1] \in Y
        BY <1>2, <3>1
      <3> QED BY <3>2
    <2> HIDE DEF Y
    <2> QED BY <1>2, <2>1
  <1>4. D!Onward(x) = f[Cardinality(N)]
    <2>1. D!Onward(x) = (CHOOSE g : g = Def(g))[Cardinality(N)]
      BY SameCounting DEF D!Onward
    <2> DEFINE c == CHOOSE g : g = Def(g)
    <2>2. c = Def(c)
      <3> HIDE DEF Def
      <3> QED BY <1>3
    <2> HIDE DEF c
    <2>3. ASSUME NEW g, g = Def(g)
          PROVE  /\ g[0] = D!Neighbours(x)
                 /\ \A n \in Nat : g[n + 1] = g[n] \cup UNION {D!Neighbours(k) : k \in g[n]}
      <3>1. g[0] = D!Neighbours(x)
        BY <2>3
      <3>2. ASSUME NEW n \in Nat
            PROVE  g[n + 1] = g[n] \cup UNION {D!Neighbours(k) : k \in g[n]}
        <4>1. n + 1 \in Nat /\ n + 1 # 0 /\ (n + 1) - 1 = n
          OBVIOUS
        <4>2. g[n + 1] = g[(n + 1) - 1] \cup UNION {D!Neighbours(k) : k \in g[(n + 1) - 1]}
          BY <2>3, <4>1
        <4> QED BY <4>1, <4>2
      <3> QED BY <3>1, <3>2
    <2> DEFINE S == {k \in Nat : c[k] = f[k]}
    <2> HIDE DEF Def
    <2>4. 0 \in S
      BY <1>2, <2>2, <2>3
    <2>5. ASSUME NEW k \in Nat, k \in S PROVE k + 1 \in S
      <3>1. c[k + 1] = c[k] \cup UNION {D!Neighbours(m) : m \in c[k]}
        BY <2>2, <2>3
      <3>2. f[k + 1] = f[k] \cup UNION {D!Neighbours(m) : m \in f[k]}
        BY <1>3, <2>3
      <3>3. c[k] = f[k]
        BY <2>5
      <3>4. c[k + 1] = f[k + 1]
        BY <3>1, <3>2, <3>3
      <3> QED BY <3>4
    <2>6. Nat \subseteq S
      <3> HIDE DEF S
      <3> QED BY <2>4, <2>5, SetInduction
    <2>7. Cardinality(N) \in Nat
      BY FS_CardinalityType
    <2> QED BY <2>1, <2>6, <2>7 DEF c
  <1>5. Grows(f, N, A)
    <2> SUFFICES ASSUME NEW k \in Nat
                 PROVE  f[k + 1] = f[k] \cup After(N, A, f[k])
      BY DEF Grows
    <2>1. f[k + 1] = G[f[k]] /\ f[k] \in Y
      BY <1>2
    <2>2. f[k + 1] = f[k] \cup UNION {D!Neighbours(m) : m \in f[k]}
      BY <2>1
    <2>3. UNION {D!Neighbours(m) : m \in f[k]} = After(N, A, f[k])
      <3>1. After(N, A, f[k]) = {y \in N : \E z \in f[k] : <<z, y>> \in A}
        BY DEF After
      <3>2. \A y, z : y \in D!Neighbours(z) <=> y \in N /\ <<z, y>> \in A
        BY <1>0
      <3>3. \A y : y \in UNION {D!Neighbours(m) : m \in f[k]}
                     <=> \E m \in f[k] : y \in D!Neighbours(m)
        OBVIOUS
      <3>4. \A y : y \in UNION {D!Neighbours(m) : m \in f[k]} <=> y \in After(N, A, f[k])
        BY <3>1, <3>2, <3>3
      <3> QED BY ONLY <3>4
    <2> QED BY <2>2, <2>3
  <1>6. f[0] = After(N, A, {x})
    BY <1>0, <1>2 DEF After
  <1> QED BY <1>2, <1>4, <1>5, <1>6

LEMMA GraphIs ==
  ASSUME NEW N, N = D!Nodes, IsFiniteSet(N), NEW A, A = Arrows,
         NEW P, P = {p \in N \X N : p[2] \in D!Onward(p[1])}
  PROVE  IsGraph(N, A, P)
  <1>1. A \in SUBSET (N \X N)
    BY DEF D!Nodes, Arrows
  <1>2. ASSUME NEW x \in N
        PROVE  /\ \A a \in A : a[1] = x => <<x, a[2]>> \in P
               /\ \A p \in P, a \in A : p[1] = x /\ p[2] = a[1] => <<x, a[2]>> \in P
               /\ \A S : (\A a \in A : a[1] \in S \cup {x} => a[2] \in S)
                            => \A p \in P : p[1] = x => p[2] \in S
    <2>1. PICK f \in [Nat -> SUBSET N] :
             /\ f[0] = After(N, A, {x})
             /\ Grows(f, N, A)
             /\ D!Onward(x) = f[Cardinality(N)]
      BY OnwardIs
    <2> DEFINE C == Cardinality(N)
    <2>2. C \in Nat
      BY FS_CardinalityType
    <2>3. f[C + 1] = f[C]
      BY <1>1, <2>1, StepsEnd
    <2> HIDE DEF C
    <2>4. \A y : <<x, y>> \in P <=> y \in f[C]
      BY <2>1, <2>2 DEF C
    <2>5. \A a \in A : a[1] \in f[C] => a[2] \in f[C]
      <3> SUFFICES ASSUME NEW a \in A, a[1] \in f[C] PROVE a[2] \in f[C]
        OBVIOUS
      <3>1. f[C + 1] = f[C] \cup After(N, A, f[C])
        BY <2>1, <2>2 DEF Grows
      <3>2. a = <<a[1], a[2]>> /\ a[2] \in N
        BY <1>1
      <3> QED BY <2>3, <3>1, <3>2 DEF After
    <2>6. f[0] \subseteq f[C]
      <3> DEFINE S == {k \in Nat : f[0] \subseteq f[k]}
      <3>1. 0 \in S
        OBVIOUS
      <3>2. ASSUME NEW k \in Nat, k \in S PROVE k + 1 \in S
        <4>1. f[k + 1] = f[k] \cup After(N, A, f[k])
          BY <2>1 DEF Grows
        <4>2. f[0] \subseteq f[k + 1]
          BY <3>2, <4>1
        <4> QED BY <4>2
      <3>3. Nat \subseteq S
        <4> HIDE DEF S
        <4> QED BY <3>1, <3>2, SetInduction
      <3> QED BY <2>2, <3>3
    <2>7. \A a \in A : a[1] = x => a[2] \in f[0]
      <3> SUFFICES ASSUME NEW a \in A, a[1] = x PROVE a[2] \in f[0]
        OBVIOUS
      <3>1. a = <<x, a[2]>> /\ a[2] \in N
        BY <1>1
      <3> QED BY <2>1, <3>1 DEF After
    <2>8. ASSUME NEW S, \A a \in A : a[1] \in S \cup {x} => a[2] \in S
          PROVE  f[C] \subseteq S
      <3> DEFINE T == {k \in Nat : f[k] \subseteq S}
      <3>1. 0 \in T
        BY <2>1, <2>8 DEF After
      <3>2. ASSUME NEW k \in Nat, k \in T PROVE k + 1 \in T
        <4>1. f[k + 1] = f[k] \cup After(N, A, f[k])
          BY <2>1 DEF Grows
        <4>2. \A y, z : z \in f[k] /\ <<z, y>> \in A => y \in S
          BY <2>8, <3>2
        <4>3. \A y \in After(N, A, f[k]) : \E z \in f[k] : <<z, y>> \in A
          BY DEF After
        <4>4. f[k + 1] \subseteq S
          BY <3>2, <4>1, <4>2, <4>3
        <4> QED BY <4>4
      <3>3. Nat \subseteq T
        <4> HIDE DEF T
        <4> QED BY <3>1, <3>2, SetInduction
      <3> QED BY <2>2, <3>3
    <2>9. \A p \in P : p = <<p[1], p[2]>>
      OBVIOUS
    <2> QED BY <2>4, <2>5, <2>6, <2>7, <2>8, <2>9
  <1>3. \A p \in P : p = <<p[1], p[2]>> /\ p[1] \in N /\ p[2] \in N
    OBVIOUS
  <1>4. \A a \in A : a = <<a[1], a[2]>> /\ a[1] \in N /\ a[2] \in N
    BY <1>1
  <1>5. A \subseteq P
    <2> QED BY <1>2, <1>4
  <1>6. \A p \in P, a \in A : p[2] = a[1] => <<p[1], a[2]>> \in P
    BY <1>2, <1>3
  <1>7. \A S : \A x : (\A a \in A : a[1] \in S \cup {x} => a[2] \in S)
                         => \A p \in P : p[1] = x => p[2] \in S
    BY <1>2, <1>3
  <1>8. P \subseteq N \X N
    OBVIOUS
  <1> QED BY <1>1, <1>5, <1>6, <1>7, <1>8 DEF IsGraph

-----------------------------------------------------------------------------
(* The search for cycles.                                                    *)
(* What is on the stack, the i-th of the path searched, the nodes of closed   *)
(* components, paths of any length, and what is still to look at.            *)
OnStack == {stack[i] : i \in DOMAIN stack}
Gray(i) == call[i].node
Shut == DOMAIN index \ OnStack
Arrives(P, x, y) == x = y \/ <<x, y>> \in P
Pending(x, y) == \E i \in DOMAIN call : x = Gray(i) /\ y \in call[i].rest

SearchTypes(N, A) ==
    /\ index \in [DOMAIN index -> Nat] /\ low \in [DOMAIN index -> Nat]
    /\ DOMAIN index \subseteq N
    /\ \A x \in DOMAIN index : index[x] < Cardinality(DOMAIN index)
    /\ stack \in Seq(N) /\ OnStack \subseteq DOMAIN index
    /\ call \in Seq([node : N, rest : SUBSET N])
    /\ \A i \in DOMAIN call : \A y \in call[i].rest : <<Gray(i), y>> \in A

(* The stack and the path on it are in order of discovery. *)
Discovered ==
    /\ \A i, j \in DOMAIN stack : i < j => index[stack[i]] < index[stack[j]]
    /\ \A i \in DOMAIN call : Gray(i) \in OnStack
    /\ \A i, j \in DOMAIN call : i < j => index[Gray(i)] < index[Gray(j)]

(* What is noted as reached by a node of the path is one on the stack it      *)
(* leads to.                                                                 *)
LowIs(P) == \A i \in DOMAIN call :
    /\ low[Gray(i)] <= index[Gray(i)]
    /\ \E w \in OnStack : index[w] = low[Gray(i)] /\ Arrives(P, Gray(i), w)

(* A node on the stack leads back to the path, and the path on to it.        *)
LeadsBack(P) == \A u \in OnStack : \E i \in DOMAIN call :
    index[Gray(i)] <= index[u] /\ Arrives(P, u, Gray(i))
LeadsOn(P) == \A i \in DOMAIN call : \A u \in OnStack :
    index[Gray(i)] <= index[u] => Arrives(P, Gray(i), u)

(* Arrows not followed yet are those still to look at on the path; those of   *)
(* a closed component stay among the closed; those of a node of the path, or *)
(* found after it and before the next, are noted there.                      *)
Followed(A) == \A a \in A : a[1] \in DOMAIN index => a[2] \in DOMAIN index \/ Pending(a[1], a[2])
ShutIn(A) == \A a \in A : a[1] \in Shut => a[2] \in Shut
LowLeast(A) == \A i \in DOMAIN call : \A a \in A :
    /\ a[1] \in OnStack /\ a[2] \in OnStack
    /\ index[Gray(i)] <= index[a[1]]
    /\ i < Len(call) => index[a[1]] < index[Gray(i + 1)]
    => low[Gray(i)] <= index[a[2]] \/ Pending(a[1], a[2])

(* The components closed so far are those reported. *)
Comp(P, N, x) == {y \in N : <<x, y>> \in P /\ <<y, x>> \in P}
CyclesInv(P, N) == cycles = {Comp(P, N, x) : x \in {y \in Shut : <<y, y>> \in P}}

SearchInv(N, A, P) ==
    /\ SearchTypes(N, A) /\ Discovered /\ LowIs(P) /\ LeadsBack(P) /\ LeadsOn(P)
    /\ Followed(A) /\ ShutIn(A) /\ LowLeast(A) /\ CyclesInv(P, N)

-----------------------------------------------------------------------------
(* A node is found: by itself, or as a neighbour of the last of the path.    *)
FoundAs(n, path, A) ==
    /\ Len(path) = Len(call)
    /\ \A i \in DOMAIN call : /\ path[i].node = call[i].node
                              /\ path[i].rest \subseteq call[i].rest
                              /\ call[i].rest \subseteq path[i].rest \cup {n}
    /\ \A i \in 1 .. Len(call) - 1 : path[i].rest = call[i].rest
    /\ Len(call) # 0 => <<Gray(Len(call)), n>> \in A

(* What finding node n does, the c-th, on a path of K. *)
HasFound(N, A, n, path, c, K) ==
    /\ c \in Nat /\ K \in Nat
    /\ DOMAIN index' = DOMAIN index \cup {n} /\ index' \in [DOMAIN index \cup {n} -> Nat]
    /\ index'[n] = c /\ \A x \in DOMAIN index : index'[x] = index[x]
    /\ low' \in [DOMAIN index \cup {n} -> Nat]
    /\ low'[n] = c /\ \A x \in DOMAIN index : low'[x] = low[x]
    /\ Cardinality(DOMAIN index') = c + 1
    /\ stack' = Append(stack, n) /\ OnStack' = OnStack \cup {n} /\ Shut' = Shut
    /\ call' \in Seq([node : N, rest : SUBSET N]) /\ Len(call') = K + 1
    /\ DOMAIN call = 1 .. K /\ DOMAIN call' = 1 .. K + 1
    /\ Gray(K + 1)' = n /\ call'[K + 1].rest = {y \in N : <<n, y>> \in A}
    /\ \A i \in 1 .. K : Gray(i)' = Gray(i) /\ call'[i].rest = path[i].rest

LEMMA FoundIs ==
  ASSUME NEW N, NEW A, NEW P, IsGraph(N, A, P), SearchInv(N, A, P), NEW n \in N \ DOMAIN index,
         NEW path \in Seq([node : N, rest : SUBSET N]), FoundAs(n, path, A),
         D!Discover(n, path), D!Neighbours(n) = {y \in N : <<n, y>> \in A},
         NEW c, c = Cardinality(DOMAIN index), NEW K, K = Len(call)
  PROVE  HasFound(N, A, n, path, c, K)
  <1> DEFINE node == [node |-> n, rest |-> {y \in N : <<n, y>> \in A}]
  <1>0. SearchTypes(N, A) /\ IsFiniteSet(N)
    BY DEF SearchInv, IsGraph
  <1>1. IsFiniteSet(DOMAIN index) /\ c \in Nat /\ Cardinality(DOMAIN index \cup {n}) = c + 1
    <2>1. IsFiniteSet(DOMAIN index)
      BY <1>0, FS_Subset DEF SearchTypes
    <2> QED BY <2>1, FS_CardinalityType, FS_AddElement
  <1>2. D!Cardinality(DOMAIN index) = c /\ DOMAIN low = DOMAIN index
    BY <1>0, SameCounting DEF SearchTypes
  <1>3. /\ index' = [m \in DOMAIN index \cup {n} |-> IF m = n THEN c ELSE index[m]]
        /\ low' = [m \in DOMAIN index \cup {n} |-> IF m = n THEN c ELSE low[m]]
        /\ stack' = Append(stack, n) /\ call' = Append(path, node)
    BY <1>2 DEF D!Discover
  <1>4. /\ DOMAIN index' = DOMAIN index \cup {n} /\ index' \in [DOMAIN index \cup {n} -> Nat]
        /\ index'[n] = c /\ \A x \in DOMAIN index : index'[x] = index[x]
        /\ low' \in [DOMAIN index \cup {n} -> Nat]
        /\ low'[n] = c /\ \A x \in DOMAIN index : low'[x] = low[x]
    BY <1>0, <1>1, <1>3 DEF SearchTypes
  <1>5. OnStack' = OnStack \cup {n} /\ Shut' = Shut
    <2>1. /\ stack \in Seq(N) /\ DOMAIN stack = 1 .. Len(stack) /\ Len(stack) \in Nat
          /\ DOMAIN stack' = 1 .. Len(stack) + 1 /\ stack'[Len(stack) + 1] = n
          /\ \A i \in 1 .. Len(stack) : stack'[i] = stack[i]
      BY <1>0, <1>3 DEF SearchTypes
    <2>2. OnStack' = OnStack \cup {n}
      BY <2>1 DEF OnStack
    <2> QED BY <1>4, <2>2 DEF Shut
  <1>6. node \in [node : N, rest : SUBSET N]
    OBVIOUS
  <1>7. /\ K \in Nat /\ DOMAIN call = 1 .. K /\ Len(path) = K /\ DOMAIN path = 1 .. K
    BY <1>0 DEF SearchTypes, FoundAs
  <1>8. /\ call' \in Seq([node : N, rest : SUBSET N]) /\ Len(call') = K + 1
        /\ DOMAIN call' = 1 .. K + 1 /\ call'[K + 1] = node
        /\ \A i \in 1 .. K : call'[i] = path[i]
    <2> HIDE DEF node
    <2> QED BY <1>3, <1>6, <1>7
  <1>9. /\ Gray(K + 1)' = n /\ call'[K + 1].rest = {y \in N : <<n, y>> \in A}
        /\ \A i \in 1 .. K : Gray(i)' = Gray(i) /\ call'[i].rest = path[i].rest
    <2>1. call'[K + 1].node = n /\ call'[K + 1].rest = {y \in N : <<n, y>> \in A}
      BY <1>8
    <2>2. \A i \in 1 .. K : path[i].node = call[i].node
      BY <1>7 DEF FoundAs
    <2>3. \A i \in 1 .. K : call'[i].node = call[i].node /\ call'[i].rest = path[i].rest
      BY <1>8, <2>2
    <2> QED BY <2>1, <2>3 DEF Gray
  <1> QED BY <1>1, <1>3, <1>4, <1>5, <1>7, <1>8, <1>9 DEF HasFound

LEMMA FoundKeeps ==
  ASSUME NEW N, NEW A, NEW P, IsGraph(N, A, P), SearchInv(N, A, P), NEW n \in N \ DOMAIN index,
         NEW path \in Seq([node : N, rest : SUBSET N]), FoundAs(n, path, A),
         D!Discover(n, path), D!Neighbours(n) = {y \in N : <<n, y>> \in A}, UNCHANGED cycles
  PROVE  SearchInv(N, A, P)'
  <1>0. PICK c, K : c = Cardinality(DOMAIN index) /\ K = Len(call)
    OBVIOUS
  <1>1. /\ c \in Nat /\ K \in Nat
        /\ DOMAIN index' = DOMAIN index \cup {n} /\ index' \in [DOMAIN index \cup {n} -> Nat]
        /\ index'[n] = c /\ \A x \in DOMAIN index : index'[x] = index[x]
        /\ low' \in [DOMAIN index \cup {n} -> Nat]
        /\ low'[n] = c /\ \A x \in DOMAIN index : low'[x] = low[x]
        /\ Cardinality(DOMAIN index') = c + 1
        /\ stack' = Append(stack, n) /\ OnStack' = OnStack \cup {n} /\ Shut' = Shut
        /\ call' \in Seq([node : N, rest : SUBSET N]) /\ Len(call') = K + 1
        /\ DOMAIN call = 1 .. K /\ DOMAIN call' = 1 .. K + 1
        /\ Gray(K + 1)' = n /\ call'[K + 1].rest = {y \in N : <<n, y>> \in A}
        /\ \A i \in 1 .. K : Gray(i)' = Gray(i) /\ call'[i].rest = path[i].rest
    <2>1. HasFound(N, A, n, path, c, K)
      BY <1>0, FoundIs
    <2> QED BY <2>1 DEF HasFound
  <1>2. /\ SearchTypes(N, A) /\ Discovered /\ LowIs(P) /\ LeadsBack(P) /\ LeadsOn(P)
        /\ Followed(A) /\ ShutIn(A) /\ LowLeast(A) /\ CyclesInv(P, N)
    BY DEF SearchInv
  <1>3. /\ index \in [DOMAIN index -> Nat] /\ low \in [DOMAIN index -> Nat]
        /\ DOMAIN index \subseteq N /\ OnStack \subseteq DOMAIN index /\ n \notin DOMAIN index
        /\ \A x \in DOMAIN index : index[x] < c /\ index[x] \in Nat /\ low[x] \in Nat
    BY <1>0, <1>2 DEF SearchTypes
  <1>4. \A i \in 1 .. K : Gray(i) \in OnStack /\ Gray(i) \in DOMAIN index
    BY <1>1, <1>2, <1>3 DEF Discovered
  <1>5. \A i \in 1 .. K + 1 : i = K + 1 \/ i \in 1 .. K
    BY <1>1
  <1>6. /\ A \subseteq N \X N /\ A \subseteq P
        /\ \A a \in A : a = <<a[1], a[2]>> /\ a[1] \in N /\ a[2] \in N
    BY DEF IsGraph
  <1>7. /\ \A i \in 1 .. K : path[i].rest \subseteq call[i].rest
        /\ \A i \in 1 .. K : call[i].rest \subseteq path[i].rest \cup {n}
        /\ \A i \in 1 .. K : i # K => path[i].rest = call[i].rest
        /\ K # 0 => <<Gray(K), n>> \in A
    <2>1. \A i \in 1 .. K : i # K => i \in 1 .. K - 1
      BY <1>1
    <2> QED BY <1>0, <1>1, <2>1 DEF FoundAs
  <1>8. /\ \A x, y : Pending(x, y) /\ y # n => Pending(x, y)'
        /\ \A y : <<n, y>> \in A => Pending(n, y)'
    <2>1. ASSUME NEW x, NEW y, Pending(x, y), y # n PROVE Pending(x, y)'
      <3>1. PICK i \in 1 .. K : x = Gray(i) /\ y \in call[i].rest
        BY <1>1, <2>1 DEF Pending
      <3>2. y \in path[i].rest
        BY <1>7, <2>1, <3>1
      <3>3. i \in 1 .. K + 1 /\ x = Gray(i)' /\ y \in call'[i].rest
        BY <1>1, <3>1, <3>2
      <3> QED BY <1>1, <3>3 DEF Pending
    <2>2. ASSUME NEW y, <<n, y>> \in A PROVE Pending(n, y)'
      <3>1. K + 1 \in 1 .. K + 1 /\ n = Gray(K + 1)' /\ y \in call'[K + 1].rest
        BY <1>1, <1>6, <2>2
      <3> QED BY <1>1, <3>1 DEF Pending
    <2> QED BY <2>1, <2>2
  <1>10. SearchTypes(N, A)'
    <2>1. \A x \in DOMAIN index' : index'[x] < Cardinality(DOMAIN index')
      BY <1>1, <1>3
    <2>2. stack' \in Seq(N)
      BY <1>1, <1>2 DEF SearchTypes
    <2>3. \A i \in 1 .. K + 1 : \A y \in call'[i].rest : <<Gray(i)', y>> \in A
      <3>1. \A i \in 1 .. K : \A y \in call[i].rest : <<Gray(i), y>> \in A
        BY <1>1, <1>2 DEF SearchTypes
      <3>2. \A i \in 1 .. K : \A y \in call'[i].rest : <<Gray(i)', y>> \in A
        BY <1>1, <1>7, <3>1
      <3>3. \A y \in call'[K + 1].rest : <<Gray(K + 1)', y>> \in A
        BY <1>1
      <3> QED BY <1>5, <3>2, <3>3
    <2>4. \A i \in DOMAIN call' : \A y \in call'[i].rest : <<Gray(i)', y>> \in A
      BY <1>1, <2>3
    <2>5. DOMAIN index' \subseteq N /\ OnStack' \subseteq DOMAIN index'
      BY <1>1, <1>3
    <2> QED BY <1>1, <2>1, <2>2, <2>4, <2>5 DEF SearchTypes
  <1>11. Discovered'
    <2>1. \A i, j \in DOMAIN stack' : i < j => index'[stack'[i]] < index'[stack'[j]]
      <3>1. /\ stack \in Seq(N) /\ DOMAIN stack = 1 .. Len(stack) /\ Len(stack) \in Nat
            /\ DOMAIN stack' = 1 .. Len(stack) + 1 /\ stack'[Len(stack) + 1] = n
            /\ \A i \in 1 .. Len(stack) : stack'[i] = stack[i]
        BY <1>1, <1>2 DEF SearchTypes
      <3>2. \A i \in 1 .. Len(stack) : stack[i] \in DOMAIN index
        BY <1>3, <3>1 DEF OnStack
      <3>3. \A i, j \in 1 .. Len(stack) : i < j => index[stack[i]] < index[stack[j]]
        BY <1>2, <3>1 DEF Discovered
      <3> QED BY <1>1, <1>3, <3>1, <3>2, <3>3
    <2>2. \A i \in DOMAIN call' : Gray(i)' \in OnStack'
      BY <1>1, <1>4, <1>5
    <2>3. \A i, j \in 1 .. K : i < j => index[Gray(i)] < index[Gray(j)]
      BY <1>1, <1>2 DEF Discovered
    <2>4. \A i, j \in 1 .. K + 1 : i < j => index'[Gray(i)'] < index'[Gray(j)']
      <3> SUFFICES ASSUME NEW i \in 1 .. K + 1, NEW j \in 1 .. K + 1, i < j
                   PROVE  index'[Gray(i)'] < index'[Gray(j)']
        OBVIOUS
      <3>1. i \in 1 .. K
        BY <1>1, <1>5
      <3>2. index'[Gray(i)'] = index[Gray(i)] /\ index[Gray(i)] < c
        BY <1>1, <1>3, <1>4, <3>1
      <3>3. CASE j = K + 1
        BY <1>1, <3>2, <3>3
      <3>4. CASE j \in 1 .. K
        <4>1. index'[Gray(j)'] = index[Gray(j)]
          BY <1>1, <1>3, <1>4, <3>4
        <4> QED BY <2>3, <3>1, <3>2, <3>4, <4>1
      <3> QED BY <1>5, <3>3, <3>4
    <2>5. \A i, j \in DOMAIN call' : i < j => index'[Gray(i)'] < index'[Gray(j)']
      BY <1>1, <2>4
    <2> QED BY <2>1, <2>2, <2>5 DEF Discovered
  <1>12. LowIs(P)'
    <2>1. \A i \in 1 .. K + 1 : /\ low'[Gray(i)'] <= index'[Gray(i)']
                                /\ \E w \in OnStack' : index'[w] = low'[Gray(i)'] /\ Arrives(P, Gray(i)', w)
      <3> SUFFICES ASSUME NEW i \in 1 .. K + 1
                   PROVE  /\ low'[Gray(i)'] <= index'[Gray(i)']
                          /\ \E w \in OnStack' : index'[w] = low'[Gray(i)'] /\ Arrives(P, Gray(i)', w)
        OBVIOUS
      <3>1. CASE i = K + 1
        BY <1>1, <3>1 DEF Arrives
      <3>2. CASE i \in 1 .. K
        <4>1. low[Gray(i)] <= index[Gray(i)]
              /\ \E w \in OnStack : index[w] = low[Gray(i)] /\ Arrives(P, Gray(i), w)
          BY <1>1, <1>2, <3>2 DEF LowIs
        <4>2. Gray(i)' = Gray(i) /\ Gray(i) \in DOMAIN index
          BY <1>1, <1>4, <3>2
        <4> QED BY <1>1, <1>3, <4>1, <4>2
      <3> QED BY <1>5, <3>1, <3>2
    <2> QED BY <1>1, <2>1 DEF LowIs
  <1>13. LeadsBack(P)'
    <2> SUFFICES ASSUME NEW u \in OnStack'
                 PROVE  \E i \in 1 .. K + 1 :
                          index'[Gray(i)'] <= index'[u] /\ Arrives(P, u, Gray(i)')
      BY <1>1 DEF LeadsBack
    <2>1. CASE u = n
      <3>1. K + 1 \in 1 .. K + 1 /\ index'[Gray(K + 1)'] <= index'[u]
        BY <1>1, <2>1
      <3> QED BY <1>1, <2>1, <3>1 DEF Arrives
    <2>2. CASE u \in OnStack
      <3>1. PICK i \in 1 .. K : index[Gray(i)] <= index[u] /\ Arrives(P, u, Gray(i))
        BY <1>1, <1>2, <2>2 DEF LeadsBack
      <3>2. i \in 1 .. K + 1 /\ index'[Gray(i)'] <= index'[u] /\ Arrives(P, u, Gray(i)')
        BY <1>1, <1>3, <1>4, <2>2, <3>1
      <3> QED BY <3>2
    <2> QED BY <1>1, <2>1, <2>2
  <1>14. LeadsOn(P)'
    <2>0. \A i \in 1 .. K : \A u \in OnStack : index[Gray(i)] <= index[u] => Arrives(P, Gray(i), u)
      BY <1>1, <1>2 DEF LeadsOn
    <2> SUFFICES ASSUME NEW i \in 1 .. K + 1, NEW u \in OnStack', index'[Gray(i)'] <= index'[u]
                 PROVE  Arrives(P, Gray(i)', u)
      BY <1>1 DEF LeadsOn
    <2>1. CASE i = K + 1
      <3>1. u \notin DOMAIN index
        BY <1>1, <1>3, <2>1
      <3> QED BY <1>1, <1>3, <2>1, <3>1 DEF Arrives
    <2>2. CASE i \in 1 .. K /\ u \in OnStack
      BY <1>1, <1>3, <1>4, <2>0, <2>2
    <2>3. CASE i \in 1 .. K /\ u = n
      <3>1. K \in 1 .. K /\ K # 0
        BY <1>1, <2>3
      <3>2. <<Gray(K), n>> \in A
        BY <1>7, <3>1
      <3>3. index[Gray(i)] <= index[Gray(K)]
        <4>1. i # K => index[Gray(i)] < index[Gray(K)]
          <5>1. \A j, k \in 1 .. K : j < k => index[Gray(j)] < index[Gray(k)]
            BY <1>1, <1>2 DEF Discovered
          <5>2. i # K => i < K
            BY <1>1, <2>3
          <5> QED BY <2>3, <3>1, <5>1, <5>2
        <4> QED BY <1>3, <1>4, <2>3, <3>1, <4>1
      <3>4. Arrives(P, Gray(i), Gray(K))
        BY <1>4, <2>0, <2>3, <3>1, <3>3
      <3>5. Arrives(P, Gray(i), n)
        <4>1. \A p \in P, a \in A : p[2] = a[1] => <<p[1], a[2]>> \in P
          BY DEF IsGraph
        <4>2. <<Gray(K), n>> \in P
          BY <1>6, <3>2
        <4> QED BY <3>2, <3>4, <4>1, <4>2 DEF Arrives
      <3> QED BY <1>1, <2>3, <3>5
    <2> QED BY <1>1, <1>5, <2>1, <2>2, <2>3
  <1>15. Followed(A)'
    <2> SUFFICES ASSUME NEW a \in A, a[1] \in DOMAIN index'
                 PROVE  a[2] \in DOMAIN index' \/ Pending(a[1], a[2])'
      BY DEF Followed
    <2>1. CASE a[1] = n
      BY <1>6, <1>8, <2>1
    <2>2. CASE a[1] \in DOMAIN index
      <3>1. a[2] \in DOMAIN index \/ Pending(a[1], a[2])
        BY <1>2, <2>2 DEF Followed
      <3> QED BY <1>1, <1>8, <3>1
    <2> QED BY <1>1, <2>1, <2>2
  <1>16. ShutIn(A)'
    BY <1>1, <1>2 DEF ShutIn
  <1>17. LowLeast(A)'
    <2> SUFFICES ASSUME NEW i \in 1 .. K + 1, NEW a \in A,
                        a[1] \in OnStack', a[2] \in OnStack',
                        index'[Gray(i)'] <= index'[a[1]],
                        i < K + 1 => index'[a[1]] < index'[Gray(i + 1)']
                 PROVE  low'[Gray(i)'] <= index'[a[2]] \/ Pending(a[1], a[2])'
      BY <1>1 DEF LowLeast
    <2>1. CASE i = K + 1
      <3>1. a[1] = n
        BY <1>1, <1>3, <2>1
      <3> QED BY <1>6, <1>8, <3>1
    <2>2. CASE i \in 1 .. K
      <3>1. a[1] \in OnStack
        <4>1. i + 1 \in 1 .. K + 1 /\ i < K + 1
          BY <1>1, <2>2
        <4>2. index'[a[1]] < index'[Gray(i + 1)'] /\ Gray(i + 1)' \in DOMAIN index'
          BY <1>1, <1>4, <1>5, <4>1
        <4>3. index'[Gray(i + 1)'] <= c
          BY <1>1, <1>3, <4>2
        <4>4. a[1] # n
          BY <1>1, <4>2, <4>3
        <4> QED BY <1>1, <4>4
      <3>2. index[Gray(i)] <= index[a[1]]
        BY <1>1, <1>3, <1>4, <2>2, <3>1
      <3>3. i < K => index[a[1]] < index[Gray(i + 1)]
        <4> SUFFICES ASSUME i < K PROVE index[a[1]] < index[Gray(i + 1)]
          OBVIOUS
        <4>1. i + 1 \in 1 .. K /\ i < K + 1
          BY <1>1, <2>2
        <4> QED BY <1>1, <1>3, <1>4, <3>1, <4>1
      <3>4. CASE a[2] = n
        <4>1. low[Gray(i)] <= index[Gray(i)]
          BY <1>1, <1>2, <2>2 DEF LowIs
        <4> QED BY <1>1, <1>3, <1>4, <2>2, <3>4, <4>1
      <3>5. CASE a[2] \in OnStack
        <4>1. low[Gray(i)] <= index[a[2]] \/ Pending(a[1], a[2])
          BY <1>0, <1>1, <1>2, <2>2, <3>1, <3>2, <3>3, <3>5 DEF LowLeast
        <4>2. a[2] # n
          BY <1>3, <3>5
        <4> QED BY <1>1, <1>3, <1>4, <1>8, <2>2, <3>5, <4>1, <4>2
      <3> QED BY <1>1, <3>4, <3>5
    <2> QED BY <1>5, <2>1, <2>2
  <1>18. CyclesInv(P, N)'
    BY <1>1, <1>2 DEF CyclesInv, Comp
  <1> QED BY <1>10, <1>11, <1>12, <1>13, <1>14, <1>15, <1>16, <1>17, <1>18 DEF SearchInv

-----------------------------------------------------------------------------
(* A neighbour found before is looked at.                                    *)
LEMMA OnPath ==
  ASSUME NEW N, NEW A, NEW P, SearchInv(N, A, P), NEW K, K = Len(call)
  PROVE  /\ K \in Nat /\ DOMAIN call = 1 .. K /\ call \in Seq([node : N, rest : SUBSET N])
         /\ index \in [DOMAIN index -> Nat] /\ low \in [DOMAIN index -> Nat]
         /\ DOMAIN index \subseteq N /\ OnStack \subseteq DOMAIN index
         /\ \A i \in 1 .. K : Gray(i) \in OnStack /\ call[i] \in [node : N, rest : SUBSET N]
         /\ \A i, j \in 1 .. K : i < j => index[Gray(i)] < index[Gray(j)]
         /\ \A i, j \in 1 .. K : i # j => Gray(i) # Gray(j)
         /\ \A i \in 1 .. K : index[Gray(i)] <= index[Gray(K)]
  <1>1. SearchTypes(N, A) /\ Discovered
    BY DEF SearchInv
  <1>2. /\ K \in Nat /\ DOMAIN call = 1 .. K /\ call \in Seq([node : N, rest : SUBSET N])
        /\ index \in [DOMAIN index -> Nat] /\ low \in [DOMAIN index -> Nat]
        /\ DOMAIN index \subseteq N /\ OnStack \subseteq DOMAIN index
    BY <1>1 DEF SearchTypes
  <1>3. \A i \in 1 .. K : Gray(i) \in OnStack /\ index[Gray(i)] \in Nat
    BY <1>1, <1>2 DEF Discovered
  <1>4. \A i, j \in 1 .. K : i < j => index[Gray(i)] < index[Gray(j)]
    BY <1>1, <1>2 DEF Discovered
  <1>5. \A i, j \in 1 .. K : i # j => Gray(i) # Gray(j)
    <2> SUFFICES ASSUME NEW i \in 1 .. K, NEW j \in 1 .. K, i < j PROVE Gray(i) # Gray(j)
      BY <1>2
    <2>1. index[Gray(i)] < index[Gray(j)]
      BY <1>4
    <2> QED BY <1>3, <2>1
  <1>6. \A i \in 1 .. K : index[Gray(i)] <= index[Gray(K)]
    <2> SUFFICES ASSUME NEW i \in 1 .. K PROVE index[Gray(i)] <= index[Gray(K)]
      OBVIOUS
    <2>1. K \in 1 .. K /\ (i = K \/ i < K)
      BY <1>2
    <2> QED BY <1>3, <1>4, <2>1
  <1>7. \A i \in 1 .. K : call[i] \in [node : N, rest : SUBSET N]
    <2>1. PICK T : T = [node : N, rest : SUBSET N]
      OBVIOUS
    <2>2. call \in Seq(T) /\ K = Len(call)
      BY <1>2, <2>1
    <2>3. \A i \in 1 .. K : call[i] \in T
      BY ONLY <2>2
    <2> QED BY <2>1, <2>3
  <1> QED BY <1>2, <1>3, <1>4, <1>5, <1>6, <1>7

LEMMA LookKeeps ==
  ASSUME NEW N, NEW A, NEW P, IsGraph(N, A, P), SearchInv(N, A, P), NEW n \in DOMAIN index,
         call # <<>>, n \in D!Last(call).rest, call' = D!Looked(n),
         low' = IF n \in D!ToSet(stack)
                THEN [low EXCEPT ![D!Last(call).node] = D!Least(@, index[n])] ELSE low,
         UNCHANGED <<index, stack, cycles>>
  PROVE  SearchInv(N, A, P)'
  <1>0. PICK K : K = Len(call)
    OBVIOUS
  <1>1. /\ K \in Nat /\ DOMAIN call = 1 .. K /\ call \in Seq([node : N, rest : SUBSET N])
        /\ index \in [DOMAIN index -> Nat] /\ low \in [DOMAIN index -> Nat]
        /\ DOMAIN index \subseteq N /\ OnStack \subseteq DOMAIN index
        /\ \A i \in 1 .. K : Gray(i) \in OnStack /\ call[i] \in [node : N, rest : SUBSET N]
        /\ \A i, j \in 1 .. K : i < j => index[Gray(i)] < index[Gray(j)]
        /\ \A i, j \in 1 .. K : i # j => Gray(i) # Gray(j)
        /\ \A i \in 1 .. K : index[Gray(i)] <= index[Gray(K)]
    BY <1>0, OnPath
  <1>2. /\ SearchTypes(N, A) /\ Discovered /\ LowIs(P) /\ LeadsBack(P) /\ LeadsOn(P)
        /\ Followed(A) /\ ShutIn(A) /\ LowLeast(A) /\ CyclesInv(P, N)
    BY DEF SearchInv
  <1>3. K \in 1 .. K /\ K # 0 /\ D!Last(call) = call[K]
    BY <1>0, <1>1 DEF D!Last
  <1>4. PICK p : p = Gray(K)
    OBVIOUS
  <1>5. p \in OnStack /\ p \in DOMAIN index /\ <<p, n>> \in A
    BY <1>1, <1>2, <1>3, <1>4 DEF SearchTypes
  <1>6. /\ call' \in Seq([node : N, rest : SUBSET N]) /\ DOMAIN call' = 1 .. K /\ Len(call') = K
        /\ \A i \in 1 .. K : Gray(i)' = Gray(i)
        /\ \A i \in 1 .. K : i # K => call'[i].rest = call[i].rest
        /\ call'[K].rest = call[K].rest \ {n}
    <2>1. call' = [call EXCEPT ![K] = [call[K] EXCEPT !.rest = call[K].rest \ {n}]]
      BY <1>0 DEF D!Looked
    <2>2. PICK f : f = [call[K] EXCEPT !.rest = call[K].rest \ {n}]
      OBVIOUS
    <2>3. f \in [node : N, rest : SUBSET N] /\ f.node = call[K].node /\ f.rest = call[K].rest \ {n}
      BY <1>1, <1>3, <2>2
    <2>4. call' = [call EXCEPT ![K] = f]
      BY <2>1, <2>2
    <2>5. call' \in Seq([node : N, rest : SUBSET N]) /\ DOMAIN call' = 1 .. K /\ Len(call') = K
      BY <1>0, <1>1, <1>3, <2>3, <2>4
    <2>6. call'[K] = f /\ \A i \in 1 .. K : i # K => call'[i] = call[i]
      BY <1>1, <1>3, <2>4
    <2> QED BY <2>3, <2>5, <2>6 DEF Gray
  <1>7. OnStack' = OnStack /\ Shut' = Shut
    BY DEF OnStack, Shut
  <1>8. /\ low' \in [DOMAIN index -> Nat]
        /\ \A i \in 1 .. K : i # K => low'[Gray(i)] = low[Gray(i)]
        /\ low'[p] <= low[p] /\ (n \in OnStack => low'[p] <= index[n])
        /\ low'[p] = low[p] \/ (n \in OnStack /\ low'[p] = index[n])
    <2>1. n \in D!ToSet(stack) <=> n \in OnStack
      BY DEF D!ToSet, OnStack
    <2>2. CASE n \in OnStack
      <3>1. low' = [low EXCEPT ![p] = D!Least(low[p], index[n])]
        BY <1>3, <1>4, <2>1, <2>2 DEF Gray
      <3>2. /\ D!Least(low[p], index[n]) \in Nat
            /\ D!Least(low[p], index[n]) <= low[p] /\ D!Least(low[p], index[n]) <= index[n]
            /\ D!Least(low[p], index[n]) \in {low[p], index[n]}
        BY <1>1, <1>5 DEF D!Least
      <3>3. /\ low' \in [DOMAIN index -> Nat] /\ low'[p] = D!Least(low[p], index[n])
            /\ \A x \in DOMAIN index : x # p => low'[x] = low[x]
        BY <1>1, <1>5, <3>1, <3>2
      <3>4. \A i \in 1 .. K : i # K => Gray(i) # p /\ Gray(i) \in DOMAIN index
        BY <1>1, <1>3, <1>4
      <3> QED BY <2>2, <3>2, <3>3, <3>4
    <2>3. CASE n \notin OnStack
      BY <1>1, <1>5, <2>1, <2>3
    <2> QED BY <2>2, <2>3
  <1>9. \A x, y : Pending(x, y) => Pending(x, y)' \/ (x = p /\ y = n)
    <2> SUFFICES ASSUME NEW x, NEW y, Pending(x, y), ~(x = p /\ y = n) PROVE Pending(x, y)'
      OBVIOUS
    <2>1. PICK i \in 1 .. K : x = Gray(i) /\ y \in call[i].rest
      BY <1>1 DEF Pending
    <2>2. y \in call'[i].rest
      BY <1>4, <1>6, <2>1
    <2> QED BY <1>6, <2>1, <2>2 DEF Pending
  <1>10. SearchTypes(N, A)'
    <2>1. \A i \in 1 .. K : \A y \in call'[i].rest : <<Gray(i)', y>> \in A
      <3>1. \A i \in 1 .. K : \A y \in call[i].rest : <<Gray(i), y>> \in A
        BY <1>1, <1>2 DEF SearchTypes
      <3>2. \A i \in 1 .. K : call'[i].rest \subseteq call[i].rest
        BY <1>6
      <3> QED BY <1>6, <3>1, <3>2
    <2>2. \A i \in DOMAIN call' : \A y \in call'[i].rest : <<Gray(i)', y>> \in A
      BY <1>6, <2>1
    <2> QED BY <1>2, <1>6, <1>7, <1>8, <2>2 DEF SearchTypes
  <1>11. Discovered'
    BY <1>1, <1>2, <1>6, <1>7 DEF Discovered
  <1>12. LowIs(P)'
    <2> SUFFICES ASSUME NEW i \in 1 .. K
                 PROVE  /\ low'[Gray(i)] <= index[Gray(i)]
                        /\ \E w \in OnStack : index[w] = low'[Gray(i)] /\ Arrives(P, Gray(i), w)
      BY <1>6, <1>7 DEF LowIs
    <2>1. low[Gray(i)] <= index[Gray(i)]
          /\ \E w \in OnStack : index[w] = low[Gray(i)] /\ Arrives(P, Gray(i), w)
      BY <1>1, <1>2 DEF LowIs
    <2>2. CASE low'[Gray(i)] = low[Gray(i)]
      BY <2>1, <2>2
    <2>3. CASE low'[Gray(i)] # low[Gray(i)]
      <3>1. Gray(i) = p /\ n \in OnStack /\ low'[p] = index[n]
        BY <1>4, <1>8, <2>3
      <3>2. low'[p] <= index[p]
        BY <1>1, <1>5, <1>8, <2>1, <3>1
      <3>3. Arrives(P, p, n)
        BY <1>5 DEF IsGraph, Arrives
      <3> QED BY <3>1, <3>2, <3>3
    <2> QED BY <2>2, <2>3
  <1>13. LeadsBack(P)' /\ LeadsOn(P)'
    <2>1. LeadsBack(P)'
      BY <1>1, <1>2, <1>6, <1>7 DEF LeadsBack
    <2>2. LeadsOn(P)'
      BY <1>1, <1>2, <1>6, <1>7 DEF LeadsOn
    <2> QED BY <2>1, <2>2
  <1>14. Followed(A)'
    BY <1>2, <1>9 DEF Followed
  <1>15. ShutIn(A)'
    BY <1>2, <1>7 DEF ShutIn
  <1>16. LowLeast(A)'
    <2> SUFFICES ASSUME NEW i \in 1 .. K, NEW a \in A, a[1] \in OnStack, a[2] \in OnStack,
                        index[Gray(i)] <= index[a[1]],
                        i < K => index[a[1]] < index[Gray(i + 1)]
                 PROVE  low'[Gray(i)] <= index[a[2]] \/ Pending(a[1], a[2])'
      <3>1. \A i \in 1 .. K : i < K => Gray(i + 1)' = Gray(i + 1)
        <4> SUFFICES ASSUME NEW i \in 1 .. K, i < K PROVE Gray(i + 1)' = Gray(i + 1)
          OBVIOUS
        <4>1. i + 1 \in 1 .. K
          BY <1>1
        <4> QED BY <1>6, <4>1
      <3> QED BY <1>6, <1>7, <3>1 DEF LowLeast
    <2>1. low[Gray(i)] <= index[a[2]] \/ Pending(a[1], a[2])
      BY <1>0, <1>1, <1>2 DEF LowLeast
    <2>2. low'[Gray(i)] <= low[Gray(i)] /\ low'[Gray(i)] \in Nat /\ low[Gray(i)] \in Nat
          /\ index[a[2]] \in Nat
      <3>1. Gray(i) \in DOMAIN index /\ a[2] \in DOMAIN index
        BY <1>1
      <3>2. low'[Gray(i)] \in Nat /\ low[Gray(i)] \in Nat /\ index[a[2]] \in Nat
        BY <1>1, <1>8, <3>1
      <3>3. low'[Gray(i)] <= low[Gray(i)]
        BY <1>4, <1>8, <3>2
      <3> QED BY <3>2, <3>3
    <2>3. CASE low[Gray(i)] <= index[a[2]]
      BY <2>2, <2>3
    <2>4. CASE Pending(a[1], a[2]) /\ ~Pending(a[1], a[2])'
      <3>1. a[1] = p /\ a[2] = n
        BY <1>9, <2>4
      <3>2. i = K
        <4> SUFFICES ASSUME i # K PROVE FALSE
          OBVIOUS
        <4>1. i < K /\ i + 1 \in 1 .. K
          BY <1>1
        <4>2. index[p] < index[Gray(i + 1)] /\ index[Gray(i + 1)] <= index[p]
          BY <1>1, <1>4, <3>1, <4>1
        <4> QED BY <1>1, <1>5, <4>1, <4>2
      <3> QED BY <1>4, <1>8, <3>1, <3>2
    <2> QED BY <2>1, <2>3, <2>4
  <1>17. CyclesInv(P, N)'
    BY <1>2, <1>7 DEF CyclesInv, Comp
  <1> QED BY <1>10, <1>11, <1>12, <1>13, <1>14, <1>15, <1>16, <1>17 DEF SearchInv

-----------------------------------------------------------------------------
(* All neighbours of the last node of the path are done.                     *)
(* The two parts of a sequence.                                              *)
LEMMA PartsOf ==
  ASSUME NEW N, NEW s \in Seq(N), NEW m \in 1 .. Len(s)
  PROVE  /\ SubSeq(s, 1, m - 1) \in Seq(N) /\ DOMAIN SubSeq(s, 1, m - 1) = 1 .. m - 1
         /\ \A i \in 1 .. m - 1 : SubSeq(s, 1, m - 1)[i] = s[i]
         /\ DOMAIN SubSeq(s, m, Len(s)) = 1 .. Len(s) - m + 1
         /\ \A i \in 1 .. Len(s) - m + 1 : SubSeq(s, m, Len(s))[i] = s[m + i - 1]
  <1>1. Len(s) \in Nat /\ 1 \in Int /\ m - 1 \in Int /\ m \in Int /\ m <= Len(s) /\ 1 <= m
    OBVIOUS
  <1>2. \A i \in 1 .. m - 1 : s[i] \in N
    OBVIOUS
  <1>3. \A i \in m .. Len(s) : s[i] \in N
    OBVIOUS
  <1>4. /\ SubSeq(s, 1, m - 1) \in Seq(N)
        /\ Len(SubSeq(s, 1, m - 1)) = IF 1 <= m - 1 THEN (m - 1) - 1 + 1 ELSE 0
        /\ \A i \in 1 .. (m - 1) - 1 + 1 : SubSeq(s, 1, m - 1)[i] = s[1 + i - 1]
    BY <1>1, <1>2, SubSeqProperties
  <1>5. /\ SubSeq(s, m, Len(s)) \in Seq(N)
        /\ Len(SubSeq(s, m, Len(s))) = IF m <= Len(s) THEN Len(s) - m + 1 ELSE 0
        /\ \A i \in 1 .. Len(s) - m + 1 : SubSeq(s, m, Len(s))[i] = s[m + i - 1]
    BY <1>1, <1>3, SubSeqProperties
  <1>6. Len(SubSeq(s, 1, m - 1)) = m - 1 /\ Len(SubSeq(s, m, Len(s))) = Len(s) - m + 1
    BY <1>1, <1>4, <1>5
  <1>7. DOMAIN SubSeq(s, 1, m - 1) = 1 .. m - 1 /\ DOMAIN SubSeq(s, m, Len(s)) = 1 .. Len(s) - m + 1
    BY <1>4, <1>5, <1>6
  <1>8. \A i \in 1 .. m - 1 : i \in 1 .. (m - 1) - 1 + 1 /\ 1 + i - 1 = i
    BY <1>1
  <1>9. \A i \in 1 .. m - 1 : SubSeq(s, 1, m - 1)[i] = s[i]
    BY <1>4, <1>8
  <1> QED BY <1>4, <1>5, <1>7, <1>9

(* The parts of a sequence s before and from its m-th place.                  *)
Halves(s, m, b, t) ==
    /\ m \in 1 .. Len(s)
    /\ DOMAIN b = 1 .. m - 1 /\ \A i \in 1 .. m - 1 : b[i] = s[i]
    /\ DOMAIN t = 1 .. Len(s) - m + 1 /\ \A i \in 1 .. Len(s) - m + 1 : t[i] = s[m + i - 1]

LEMMA StackParts ==
  ASSUME NEW N, NEW A, SearchTypes(N, A), Discovered, NEW v \in OnStack,
         NEW at, stack[at] = v, NEW b, NEW t, Halves(stack, at, b, t)
  PROVE  /\ {t[i] : i \in DOMAIN t} = {u \in OnStack : index[u] >= index[v]}
         /\ {b[i] : i \in DOMAIN b} = {u \in OnStack : index[u] < index[v]}
  <1>1. PICK L : L = Len(stack)
    OBVIOUS
  <1>2. stack \in Seq(N) /\ L \in Nat /\ DOMAIN stack = 1 .. L
    BY <1>1 DEF SearchTypes
  <1>3. /\ at \in 1 .. L /\ stack[at] = v
        /\ DOMAIN b = 1 .. at - 1 /\ \A i \in 1 .. at - 1 : b[i] = stack[i]
        /\ DOMAIN t = 1 .. L - at + 1 /\ \A i \in 1 .. L - at + 1 : t[i] = stack[at + i - 1]
    BY <1>1 DEF Halves
  <1>4. \A i \in 1 .. L : stack[i] \in OnStack /\ index[stack[i]] \in Nat
    BY <1>2 DEF SearchTypes, OnStack
  <1>5. \A i, j \in 1 .. L : i < j => index[stack[i]] < index[stack[j]]
    BY <1>2 DEF Discovered
  <1>6. \A i \in 1 .. L : i < at <=> index[stack[i]] < index[v]
    <2> SUFFICES ASSUME NEW i \in 1 .. L PROVE i < at <=> index[stack[i]] < index[v]
      OBVIOUS
    <2>1. i < at => index[stack[i]] < index[v]
      BY <1>3, <1>5
    <2>2. at < i => index[v] < index[stack[i]]
      BY <1>3, <1>5
    <2>3. index[v] \in Nat /\ index[stack[i]] \in Nat
      BY <1>3, <1>4
    <2>4. i < at \/ at < i \/ i = at
      BY <1>3
    <2> QED BY <1>3, <2>1, <2>2, <2>3, <2>4
  <1>10. {b[i] : i \in DOMAIN b} = {u \in OnStack : index[u] < index[v]}
    <2>1. ASSUME NEW i \in 1 .. at - 1 PROVE b[i] \in OnStack /\ index[b[i]] < index[v]
      <3>1. i \in 1 .. L /\ i < at
        BY <1>2, <1>3
      <3> QED BY <1>3, <1>4, <1>6, <3>1
    <2>2. ASSUME NEW u \in OnStack, index[u] < index[v] PROVE \E i \in 1 .. at - 1 : b[i] = u
      <3>1. PICK i \in 1 .. L : stack[i] = u
        BY <1>2 DEF OnStack
      <3>2. i < at
        BY <1>6, <2>2, <3>1
      <3>3. i \in 1 .. at - 1
        BY <1>2, <1>3, <3>2
      <3> QED BY <1>3, <3>1, <3>3
    <2> QED BY <1>3, <2>1, <2>2
  <1>11. {t[i] : i \in DOMAIN t} = {u \in OnStack : index[u] >= index[v]}
    <2>0. index[v] \in Nat /\ \A u \in OnStack : index[u] \in Nat
      BY DEF SearchTypes
    <2>1. ASSUME NEW i \in 1 .. L - at + 1 PROVE t[i] \in OnStack /\ index[t[i]] >= index[v]
      <3>1. at + i - 1 \in 1 .. L /\ ~(at + i - 1 < at)
        BY <1>2, <1>3
      <3>2. ~(index[stack[at + i - 1]] < index[v])
        BY <1>6, <3>1
      <3>3. t[i] \in OnStack
        BY <1>3, <1>4, <3>1
      <3> QED BY <1>3, <2>0, <3>2, <3>3
    <2>2. ASSUME NEW u \in OnStack, index[u] >= index[v] PROVE \E i \in 1 .. L - at + 1 : t[i] = u
      <3>1. PICK i \in 1 .. L : stack[i] = u
        BY <1>2 DEF OnStack
      <3>2. ~(i < at)
        BY <1>6, <2>0, <2>2, <3>1
      <3>3. i - at + 1 \in 1 .. L - at + 1 /\ at + (i - at + 1) - 1 = i
        BY <1>2, <1>3, <3>2
      <3>4. t[i - at + 1] = stack[i]
        BY <1>3, <3>3
      <3> QED BY <3>1, <3>3, <3>4
    <2>3. \A x : x \in {t[i] : i \in DOMAIN t} <=> \E i \in 1 .. L - at + 1 : t[i] = x
      BY <1>3
    <2>4. \A x : x \in {t[i] : i \in DOMAIN t} <=> x \in OnStack /\ index[x] >= index[v]
      BY <2>1, <2>2, <2>3
    <2> QED BY ONLY <2>4
  <1> QED BY <1>10, <1>11

(* What has been found since a node that reaches no further back is its       *)
(* component.                                                                *)
IsComponent(C, v, N, A, P) ==
    /\ v \in C /\ C \cap Shut = {}
    /\ \A a \in A : a[1] \in C \cup Shut => a[2] \in C \cup Shut
    /\ Cardinality(C) > 1 \/ <<v, v>> \in A <=> <<v, v>> \in P
    /\ \A u \in C : <<u, u>> \in P <=> <<v, v>> \in P
    /\ \A u \in C : <<u, u>> \in P => Comp(P, N, u) = C

LEMMA ComponentIs ==
  ASSUME NEW N, NEW A, NEW P, IsGraph(N, A, P), SearchInv(N, A, P),
         NEW K, K = Len(call), K # 0, NEW v, v = Gray(K), call[K].rest = {}, low[v] = index[v],
         NEW C, C = {u \in OnStack : index[u] >= index[v]}
  PROVE  IsComponent(C, v, N, A, P)
  <1>1. /\ K \in Nat /\ DOMAIN call = 1 .. K /\ call \in Seq([node : N, rest : SUBSET N])
        /\ index \in [DOMAIN index -> Nat] /\ low \in [DOMAIN index -> Nat]
        /\ DOMAIN index \subseteq N /\ OnStack \subseteq DOMAIN index
        /\ \A i \in 1 .. K : Gray(i) \in OnStack /\ call[i] \in [node : N, rest : SUBSET N]
        /\ \A i, j \in 1 .. K : i < j => index[Gray(i)] < index[Gray(j)]
        /\ \A i, j \in 1 .. K : i # j => Gray(i) # Gray(j)
        /\ \A i \in 1 .. K : index[Gray(i)] <= index[Gray(K)]
    BY OnPath
  <1>2. /\ LeadsBack(P) /\ LeadsOn(P) /\ Followed(A) /\ ShutIn(A) /\ LowLeast(A)
    BY DEF SearchInv
  <1>3. /\ K \in 1 .. K /\ v \in OnStack /\ index[v] \in Nat
        /\ \A u \in OnStack : index[u] \in Nat
        /\ \A i \in 1 .. K : i # K => index[Gray(i)] < index[v]
    BY <1>1
  <1>4. v \in C /\ C \subseteq OnStack /\ C \subseteq N /\ C \cap Shut = {}
    BY <1>1, <1>3 DEF Shut
  <1>5. /\ IsFiniteSet(N) /\ A \subseteq N \X N /\ P \subseteq N \X N /\ A \subseteq P
        /\ \A a \in A : a = <<a[1], a[2]>>
    BY DEF IsGraph
  <1>6. \A p, q \in P : p[2] = q[1] => <<p[1], q[2]>> \in P
    BY PathsJoin
  <1>7. \A x, y, z : <<x, y>> \in P /\ <<y, z>> \in P => <<x, z>> \in P
    BY <1>6
  <1>8. \A u \in C : Arrives(P, v, u) /\ Arrives(P, u, v)
    <2> SUFFICES ASSUME NEW u \in C PROVE Arrives(P, v, u) /\ Arrives(P, u, v)
      OBVIOUS
    <2>1. u \in OnStack /\ index[v] <= index[u]
      BY <1>3
    <2>2. Arrives(P, v, u)
      BY <1>1, <1>2, <1>3, <2>1 DEF LeadsOn
    <2>3. PICK i \in 1 .. K : index[Gray(i)] <= index[u] /\ Arrives(P, u, Gray(i))
      BY <1>1, <1>2, <2>1 DEF LeadsBack
    <2>4. Arrives(P, Gray(i), v)
      BY <1>1, <1>2, <1>3, <2>3 DEF LeadsOn
    <2> QED BY <1>7, <2>2, <2>3, <2>4 DEF Arrives
  <1>9. ASSUME NEW a \in A, a[1] \in C \cup Shut PROVE a[2] \in C \cup Shut
    <2>1. CASE a[1] \in Shut
      BY <1>2, <2>1 DEF ShutIn
    <2>2. CASE a[1] \in C
      <3>1. ~Pending(a[1], a[2])
        <4> SUFFICES ASSUME NEW i \in 1 .. K, a[1] = Gray(i), a[2] \in call[i].rest PROVE FALSE
          BY <1>1 DEF Pending
        <4>1. i # K
          OBVIOUS
        <4> QED BY <1>3, <2>2, <4>1
      <3>2. a[2] \in DOMAIN index
        BY <1>1, <1>4, <2>2, <3>1, <1>2 DEF Followed
      <3>3. CASE a[2] \in OnStack
        <4>1. low[v] <= index[a[2]]
          <5>1. a[1] \in OnStack /\ index[Gray(K)] <= index[a[1]]
            BY <1>3, <1>4, <2>2
          <5>2. K \in DOMAIN call /\ ~(K < Len(call))
            BY <1>1, <1>3
          <5>3. low[Gray(K)] <= index[a[2]]
            BY <1>2, <3>1, <3>3, <5>1, <5>2 DEF LowLeast
          <5> QED BY <5>3
        <4> QED BY <1>3, <3>3, <4>1
      <3> QED BY <3>2, <3>3 DEF Shut
    <2> QED BY <1>9, <2>1, <2>2
  <1>10. \A p \in P : p[1] \in C \cup Shut => p[2] \in C \cup Shut
    <2> SUFFICES ASSUME NEW p \in P, p[1] \in C \cup Shut PROVE p[2] \in C \cup Shut
      OBVIOUS
    <2>1. \A a \in A : a[1] \in (C \cup Shut) \cup {p[1]} => a[2] \in C \cup Shut
      BY <1>9
    <2> QED BY <2>1 DEF IsGraph
  <1>11. \A p \in P : p[1] \in Shut => p[2] \in Shut
    <2> SUFFICES ASSUME NEW p \in P, p[1] \in Shut PROVE p[2] \in Shut
      OBVIOUS
    <2>1. \A a \in A : a[1] \in Shut \cup {p[1]} => a[2] \in Shut
      BY <1>2 DEF ShutIn
    <2> QED BY <2>1 DEF IsGraph
  <1>12. IsFiniteSet(C) /\ Cardinality(C) \in Nat
    BY <1>4, <1>5, FS_Subset, FS_CardinalityType
  <1>13. Cardinality(C) > 1 <=> C # {v}
    <2>1. Cardinality({v}) = 1 /\ IsFiniteSet({v})
      BY FS_Singleton
    <2>2. ASSUME C # {v} PROVE Cardinality(C) > 1
      <3>1. {v} \subseteq C
        BY <1>4
      <3>2. Cardinality({v}) <= Cardinality(C) /\ Cardinality(C) # Cardinality({v})
        BY <1>12, <2>2, <3>1, FS_Subset
      <3> QED BY <1>12, <2>1, <3>2
    <2>3. ASSUME C = {v} PROVE ~(Cardinality(C) > 1)
      <3>1. Cardinality(C) = 1
        BY <2>1, <2>3
      <3> QED BY ONLY <3>1
    <2> QED BY <2>2, <2>3
  <1>14. C # {v} => <<v, v>> \in P
    <2> SUFFICES ASSUME C # {v} PROVE <<v, v>> \in P
      OBVIOUS
    <2>1. PICK u \in C : u # v
      BY <1>4
    <2> QED BY <1>7, <1>8, <2>1 DEF Arrives
  <1>15. C = {v} /\ <<v, v>> \in P => <<v, v>> \in A
    <2> SUFFICES ASSUME C = {v}, <<v, v>> \in P, <<v, v>> \notin A PROVE FALSE
      OBVIOUS
    <2>1. \A a \in A : a[1] \in Shut \cup {v} => a[2] \in Shut
      <3> SUFFICES ASSUME NEW a \in A, a[1] \in Shut \cup {v} PROVE a[2] \in Shut
        OBVIOUS
      <3>1. CASE a[1] = v
        <4>1. a[2] # v
          BY <1>5, <3>1
        <4> QED BY <1>9, <3>1, <4>1
      <3>2. CASE a[1] \in Shut
        BY <1>2, <3>2 DEF ShutIn
      <3> QED BY <3>1, <3>2
    <2>2. \A p \in P : p[1] = v => p[2] \in Shut
      BY <2>1 DEF IsGraph
    <2>3. v \in Shut
      BY <2>2
    <2> QED BY <1>4, <2>3
  <1>16. Cardinality(C) > 1 \/ <<v, v>> \in A <=> <<v, v>> \in P
    BY <1>5, <1>13, <1>14, <1>15
  <1>17. \A u \in C : <<u, u>> \in P <=> <<v, v>> \in P
    BY <1>7, <1>8 DEF Arrives
  <1>18. ASSUME NEW u \in C, <<u, u>> \in P PROVE Comp(P, N, u) = C
    <2>1. ASSUME NEW y \in N, <<u, y>> \in P, <<y, u>> \in P PROVE y \in C
      <3>1. y \in C \cup Shut
        BY <1>10, <2>1
      <3>2. y \notin Shut
        BY <1>4, <1>11, <2>1
      <3> QED BY <3>1, <3>2
    <2>2. ASSUME NEW y \in C PROVE y \in N /\ <<u, y>> \in P /\ <<y, u>> \in P
      <3>1. Arrives(P, u, y) /\ Arrives(P, y, u)
        BY <1>7, <1>8 DEF Arrives
      <3> QED BY <1>4, <1>18, <3>1 DEF Arrives
    <2> QED BY <2>1, <2>2 DEF Comp
  <1> QED BY <1>4, <1>9, <1>16, <1>17, <1>18 DEF IsComponent

LEMMA FinishKeeps ==
  ASSUME NEW N, NEW A, NEW P, IsGraph(N, A, P), SearchInv(N, A, P), D!Finish,
         \A x : D!Neighbours(x) = {y \in N : <<x, y>> \in A}
  PROVE  SearchInv(N, A, P)'
  <1>0. PICK K, v : K = Len(call) /\ v = Gray(K)
    OBVIOUS
  <1>1. /\ K \in Nat /\ DOMAIN call = 1 .. K /\ call \in Seq([node : N, rest : SUBSET N])
        /\ index \in [DOMAIN index -> Nat] /\ low \in [DOMAIN index -> Nat]
        /\ DOMAIN index \subseteq N /\ OnStack \subseteq DOMAIN index
        /\ \A i \in 1 .. K : Gray(i) \in OnStack /\ call[i] \in [node : N, rest : SUBSET N]
        /\ \A i, j \in 1 .. K : i < j => index[Gray(i)] < index[Gray(j)]
        /\ \A i, j \in 1 .. K : i # j => Gray(i) # Gray(j)
        /\ \A i \in 1 .. K : index[Gray(i)] <= index[Gray(K)]
    BY <1>0, OnPath
  <1>2. /\ SearchTypes(N, A) /\ Discovered /\ LowIs(P) /\ LeadsBack(P) /\ LeadsOn(P)
        /\ Followed(A) /\ ShutIn(A) /\ LowLeast(A) /\ CyclesInv(P, N)
    BY DEF SearchInv
  <1>3. K \in 1 .. K /\ K # 0 /\ D!Last(call) = call[K] /\ v = call[K].node /\ call[K].rest = {}
    <2>1. call # <<>>
      BY DEF D!Finish
    <2>2. K # 0
      BY <1>0, <1>1, <2>1
    <2> QED BY <1>0, <1>1, <2>2 DEF D!Last, D!Finish, Gray
  <1>4. v \in OnStack /\ v \in DOMAIN index /\ \A u \in OnStack : index[u] \in Nat /\ low[u] \in Nat
    BY <1>0, <1>1, <1>3
  <1>5. \A i \in 1 .. K - 1 : /\ i \in 1 .. K /\ i # K /\ index[Gray(i)] < index[v]
                              /\ Gray(i) \in OnStack /\ Gray(i) # v
    <2> SUFFICES ASSUME NEW i \in 1 .. K - 1
                 PROVE  /\ i \in 1 .. K /\ i # K /\ index[Gray(i)] < index[v]
                        /\ Gray(i) \in OnStack /\ Gray(i) # v
      OBVIOUS
    <2>1. i \in 1 .. K /\ i # K /\ i < K
      BY <1>1
    <2> QED BY <1>0, <1>1, <1>3, <2>1
  <1>6. /\ call' \in Seq([node : N, rest : SUBSET N]) /\ DOMAIN call' = 1 .. K - 1
        /\ Len(call') = K - 1
        /\ \A i \in 1 .. K - 1 : Gray(i)' = Gray(i) /\ call'[i].rest = call[i].rest
    <2>1. call' = SubSeq(call, 1, Len(call) - 1)
      BY DEF D!Finish, D!Front
    <2>2. PICK T : T = [node : N, rest : SUBSET N]
      OBVIOUS
    <2>3. call \in Seq(T) /\ Len(call) \in 1 .. Len(call)
      BY <1>0, <1>1, <1>3, <2>2
    <2>4. /\ SubSeq(call, 1, Len(call) - 1) \in Seq(T)
          /\ DOMAIN SubSeq(call, 1, Len(call) - 1) = 1 .. Len(call) - 1
          /\ \A i \in 1 .. Len(call) - 1 : SubSeq(call, 1, Len(call) - 1)[i] = call[i]
      BY <2>3, PartsOf
    <2>5. call' \in Seq(T) /\ DOMAIN call' = 1 .. K - 1 /\ \A i \in 1 .. K - 1 : call'[i] = call[i]
      BY <1>0, <2>1, <2>4
    <2>6. Len(call') = K - 1
      <3>1. K - 1 \in Nat
        BY <1>1, <1>3
      <3> QED BY <2>5, <3>1
    <2> QED BY <2>2, <2>5, <2>6 DEF Gray
  <1>7. index' = index /\ DOMAIN low = DOMAIN index
    BY <1>1 DEF D!Finish
  <1>8. /\ low' \in [DOMAIN index -> Nat]
        /\ \A i \in 1 .. K - 1 : low'[Gray(i)] <= low[Gray(i)]
        /\ \A i \in 1 .. K - 1 : i # K - 1 => low'[Gray(i)] = low[Gray(i)]
        /\ \A i \in 1 .. K - 1 : i = K - 1 => low'[Gray(i)] <= low[v]
                                        /\ low'[Gray(i)] \in {low[Gray(i)], low[v]}
    <2>1. CASE K = 1
      <3>1. low' = low
        BY <1>0, <2>1 DEF D!Finish
      <3> QED BY <1>1, <2>1, <3>1
    <2>2. CASE K # 1
      <3>1. PICK q : q = Gray(K - 1)
        OBVIOUS
      <3>2. K - 1 \in 1 .. K - 1 /\ K > 1
        BY <1>1, <1>3, <2>2
      <3>3. low' = [low EXCEPT ![q] = D!Least(low[q], low[v])]
        BY <1>0, <1>3, <3>1, <3>2 DEF D!Finish, Gray
      <3>4. q \in DOMAIN index /\ low[q] \in Nat /\ low[v] \in Nat
        BY <1>1, <1>4, <1>5, <3>1, <3>2
      <3>5. /\ D!Least(low[q], low[v]) \in Nat /\ D!Least(low[q], low[v]) <= low[q]
            /\ D!Least(low[q], low[v]) <= low[v] /\ D!Least(low[q], low[v]) \in {low[q], low[v]}
        BY <3>4 DEF D!Least
      <3>6. /\ low' \in [DOMAIN index -> Nat] /\ low'[q] = D!Least(low[q], low[v])
            /\ \A x \in DOMAIN index : x # q => low'[x] = low[x]
        BY <1>1, <3>3, <3>4, <3>5
      <3>7. \A i \in 1 .. K - 1 : i # K - 1 => Gray(i) # q
        BY <1>1, <1>5, <3>1, <3>2
      <3>8. \A i \in 1 .. K - 1 : Gray(i) \in DOMAIN index /\ low[Gray(i)] \in Nat
        BY <1>1, <1>4, <1>5
      <3>9. \A i \in 1 .. K - 1 : i # K - 1 => low'[Gray(i)] = low[Gray(i)]
        BY <3>6, <3>7, <3>8
      <3>10. low'[Gray(K - 1)] <= low[Gray(K - 1)] /\ low'[Gray(K - 1)] <= low[v]
             /\ low'[Gray(K - 1)] \in {low[Gray(K - 1)], low[v]}
        BY <3>1, <3>5, <3>6
      <3>11. \A i \in 1 .. K - 1 : low'[Gray(i)] <= low[Gray(i)]
        <4> SUFFICES ASSUME NEW i \in 1 .. K - 1 PROVE low'[Gray(i)] <= low[Gray(i)]
          OBVIOUS
        <4>1. CASE i = K - 1
          BY <3>10, <4>1
        <4>2. CASE i # K - 1
          BY <3>8, <3>9, <4>2
        <4> QED BY <4>1, <4>2
      <3> QED BY <3>6, <3>9, <3>10, <3>11
    <2> QED BY <2>1, <2>2
  <1>9. \A x, y : Pending(x, y) => Pending(x, y)'
    <2> SUFFICES ASSUME NEW x, NEW y, Pending(x, y) PROVE Pending(x, y)'
      OBVIOUS
    <2>1. PICK i \in 1 .. K : x = Gray(i) /\ y \in call[i].rest
      BY <1>1 DEF Pending
    <2>2. i # K
      BY <1>3, <2>1
    <2>3. i \in 1 .. K - 1
      BY <1>1, <2>2
    <2> QED BY <1>6, <2>1, <2>3 DEF Pending
  <1>10. PICK C : C = {u \in OnStack : index[u] >= index[v]}
    OBVIOUS
  <1>11. /\ stack' \in Seq(N)
         /\ \A i \in DOMAIN stack' : i \in DOMAIN stack /\ stack'[i] = stack[i]
         /\ OnStack' \subseteq OnStack /\ \A u \in OnStack : index[u] < index[v] => u \in OnStack'
         /\ low[v] = index[v] =>
              /\ OnStack' = {u \in OnStack : index[u] < index[v]}
              /\ cycles' = IF Cardinality(C) > 1 \/ <<v, v>> \in A THEN cycles \cup {C} ELSE cycles
         /\ low[v] # index[v] => OnStack' = OnStack /\ cycles' = cycles
    <2>1. CASE low[v] # index[v]
      <3>1. stack' = stack /\ cycles' = cycles
        BY <1>3, <2>1 DEF D!Finish
      <3> QED BY <1>2, <2>1, <3>1 DEF OnStack, SearchTypes
    <2>2. CASE low[v] = index[v]
      <3>1. PICK at : at = CHOOSE i \in DOMAIN stack : stack[i] = v
        OBVIOUS
      <3>2. stack \in Seq(N) /\ at \in 1 .. Len(stack) /\ stack[at] = v
        <4>1. stack \in Seq(N) /\ DOMAIN stack = 1 .. Len(stack)
          BY <1>2 DEF SearchTypes
        <4>2. \E i \in DOMAIN stack : stack[i] = v
          BY <1>4 DEF OnStack
        <4> QED BY <3>1, <4>1, <4>2
      <3>3. PICK b, t : b = SubSeq(stack, 1, at - 1) /\ t = SubSeq(stack, at, Len(stack))
        OBVIOUS
      <3>4. /\ b \in Seq(N) /\ DOMAIN b = 1 .. at - 1
            /\ \A i \in 1 .. at - 1 : b[i] = stack[i]
            /\ DOMAIN t = 1 .. Len(stack) - at + 1
            /\ \A i \in 1 .. Len(stack) - at + 1 : t[i] = stack[at + i - 1]
        BY <3>2, <3>3, PartsOf
      <3>5. /\ stack' = b
            /\ cycles' = IF D!Cardinality(D!ToSet(t)) > 1 \/ v \in D!Neighbours(v)
                         THEN cycles \cup {D!ToSet(t)} ELSE cycles
        BY <1>3, <2>2, <3>1, <3>3 DEF D!Finish
      <3>6. /\ {t[i] : i \in DOMAIN t} = {u \in OnStack : index[u] >= index[v]}
            /\ {b[i] : i \in DOMAIN b} = {u \in OnStack : index[u] < index[v]}
        <4>1. Halves(stack, at, b, t)
          BY <3>2, <3>4 DEF Halves
        <4> QED BY <1>2, <1>4, <3>2, <4>1, StackParts
      <3>7. D!ToSet(t) = C
        BY <1>10, <3>6 DEF D!ToSet
      <3>8. OnStack' = {u \in OnStack : index[u] < index[v]}
        BY <3>5, <3>6 DEF OnStack
      <3>9. \A i \in DOMAIN b : i \in DOMAIN stack /\ b[i] = stack[i]
        <4>1. \A i \in 1 .. at - 1 : i \in 1 .. Len(stack)
          BY <3>2
        <4>2. DOMAIN stack = 1 .. Len(stack)
          BY <3>2
        <4> QED BY <3>4, <4>1, <4>2
      <3>10. v \in D!Neighbours(v) <=> <<v, v>> \in A
        BY <1>1, <1>4
      <3>11. cycles' = IF Cardinality(C) > 1 \/ <<v, v>> \in A THEN cycles \cup {C} ELSE cycles
        BY <3>5, <3>7, <3>10, SameCounting
      <3> QED BY <2>2, <3>4, <3>5, <3>8, <3>9, <3>11
    <2> QED BY <2>1, <2>2
  <1>12. \A i \in 1 .. K : low[Gray(i)] <= index[Gray(i)]
                /\ \E w \in OnStack : index[w] = low[Gray(i)] /\ Arrives(P, Gray(i), w)
    BY <1>1, <1>2 DEF LowIs
  <1>13. \A i \in 1 .. K : \A u \in OnStack : index[Gray(i)] <= index[u] => Arrives(P, Gray(i), u)
    BY <1>1, <1>2 DEF LeadsOn
  <1>14. \A x, y, z : Arrives(P, x, y) /\ Arrives(P, y, z) => Arrives(P, x, z)
    <2>1. \A p, q \in P : p[2] = q[1] => <<p[1], q[2]>> \in P
      BY PathsJoin
    <2>2. \A x, y, z : <<x, y>> \in P /\ <<y, z>> \in P => <<x, z>> \in P
      BY <2>1
    <2> QED BY <2>2 DEF Arrives
  <1>15. \A i \in 1 .. K - 1 : Arrives(P, Gray(i), v)
    <2> SUFFICES ASSUME NEW i \in 1 .. K - 1 PROVE Arrives(P, Gray(i), v)
      OBVIOUS
    <2>1. index[Gray(i)] <= index[v]
      BY <1>4, <1>5
    <2> QED BY <1>4, <1>5, <1>13, <2>1
  <1>16. PICK w \in OnStack : index[w] = low[v] /\ Arrives(P, v, w) /\ low[v] <= index[v]
    BY <1>0, <1>3, <1>12
  <1>20. SearchTypes(N, A)'
    <2>1. \A i \in DOMAIN call' : \A y \in call'[i].rest : <<Gray(i)', y>> \in A
      <3>1. \A i \in 1 .. K : \A y \in call[i].rest : <<Gray(i), y>> \in A
        BY <1>1, <1>2 DEF SearchTypes
      <3> QED BY <1>5, <1>6, <3>1
    <2>2. OnStack' \subseteq DOMAIN index
      BY <1>1, <1>11
    <2>3. \A x \in DOMAIN index : index[x] < Cardinality(DOMAIN index)
      BY <1>2 DEF SearchTypes
    <2> QED BY <1>1, <1>6, <1>7, <1>8, <1>11, <2>1, <2>2, <2>3 DEF SearchTypes
  <1>21. Discovered'
    <2>1. \A i, j \in DOMAIN stack' : i < j => index[stack'[i]] < index[stack'[j]]
      BY <1>2, <1>11 DEF Discovered
    <2>2. \A i \in 1 .. K - 1 : Gray(i) \in OnStack'
      BY <1>5, <1>11
    <2>3. \A i, j \in 1 .. K - 1 : i < j => index[Gray(i)] < index[Gray(j)]
      BY <1>1, <1>5
    <2> QED BY <1>6, <1>7, <2>1, <2>2, <2>3 DEF Discovered
  <1>22. LowIs(P)'
    <2> SUFFICES ASSUME NEW i \in 1 .. K - 1
                 PROVE  /\ low'[Gray(i)] <= index[Gray(i)]
                        /\ \E u \in OnStack' : index[u] = low'[Gray(i)] /\ Arrives(P, Gray(i), u)
      BY <1>6, <1>7 DEF LowIs
    <2>1. /\ i \in 1 .. K /\ Gray(i) \in DOMAIN index /\ index[Gray(i)] \in Nat
          /\ low[Gray(i)] \in Nat /\ low'[Gray(i)] \in Nat /\ index[v] \in Nat /\ low[v] \in Nat
          /\ index[Gray(i)] < index[v]
      BY <1>1, <1>4, <1>5, <1>8
    <2>2. PICK u \in OnStack : index[u] = low[Gray(i)] /\ Arrives(P, Gray(i), u)
      BY <1>12, <2>1
    <2>3. low'[Gray(i)] <= low[Gray(i)] /\ low[Gray(i)] <= index[Gray(i)]
      BY <1>8, <1>12, <2>1
    <2>4. CASE low'[Gray(i)] = low[Gray(i)]
      <3>1. index[u] < index[v]
        BY <2>1, <2>2, <2>3
      <3> QED BY <1>11, <2>2, <2>3, <2>4, <3>1
    <2>5. CASE low'[Gray(i)] # low[Gray(i)]
      <3>1. low'[Gray(i)] = low[v]
        BY <1>8, <2>5
      <3>2. index[w] < index[v]
        BY <1>16, <2>1, <2>3, <3>1
      <3>3. w \in OnStack' /\ index[w] = low'[Gray(i)]
        BY <1>11, <1>16, <3>1, <3>2
      <3>4. Arrives(P, Gray(i), w)
        BY <1>14, <1>15, <1>16
      <3>5. low'[Gray(i)] <= index[Gray(i)]
        BY <2>1, <2>3
      <3> QED BY <3>3, <3>4, <3>5
    <2> QED BY <2>4, <2>5
  <1>23. LeadsBack(P)'
    <2> SUFFICES ASSUME NEW u \in OnStack'
                 PROVE  \E i \in 1 .. K - 1 : index[Gray(i)] <= index[u] /\ Arrives(P, u, Gray(i))
      BY <1>6, <1>7 DEF LeadsBack
    <2>1. u \in OnStack /\ index[u] \in Nat /\ index[v] \in Nat
      BY <1>4, <1>11
    <2>2. \A x \in OnStack : \E i \in 1 .. K : index[Gray(i)] <= index[x] /\ Arrives(P, x, Gray(i))
      BY <1>1, <1>2 DEF LeadsBack
    <2>3. PICK i \in 1 .. K : index[Gray(i)] <= index[u] /\ Arrives(P, u, Gray(i))
      BY <2>1, <2>2
    <2>4. CASE i # K
      <3>1. i \in 1 .. K - 1
        BY <1>1, <2>4
      <3> QED BY <2>3, <3>1
    <2>5. CASE i = K
      <3>1. index[v] <= index[u] /\ Arrives(P, u, v)
        BY <1>0, <2>3, <2>5
      <3>2. low[v] # index[v]
        <4> SUFFICES ASSUME low[v] = index[v] PROVE FALSE
          OBVIOUS
        <4>1. index[u] < index[v]
          BY <1>11
        <4> QED BY <2>1, <3>1, <4>1
      <3>3. index[w] \in Nat /\ index[w] < index[v] /\ index[w] <= index[u]
        BY <1>4, <1>16, <2>1, <3>1, <3>2
      <3>4. PICK j \in 1 .. K : index[Gray(j)] <= index[w] /\ Arrives(P, w, Gray(j))
        BY <2>2
      <3>5. index[Gray(j)] \in Nat
        BY <1>1, <1>4
      <3>6. j # K
        BY <1>0, <3>3, <3>4, <3>5
      <3>7. j \in 1 .. K - 1
        BY <1>1, <3>6
      <3>8. index[Gray(j)] <= index[u]
        BY <2>1, <3>3, <3>4, <3>5
      <3>9. Arrives(P, u, Gray(j))
        BY <1>14, <1>16, <3>1, <3>4
      <3> QED BY <3>7, <3>8, <3>9
    <2> QED BY <2>4, <2>5
  <1>24. LeadsOn(P)'
    <2>1. \A i \in 1 .. K - 1 : \A u \in OnStack' :
              index[Gray(i)] <= index[u] => Arrives(P, Gray(i), u)
      BY <1>5, <1>11, <1>13
    <2> QED BY <1>6, <1>7, <2>1 DEF LeadsOn
  <1>25. Followed(A)'
    BY <1>2, <1>7, <1>9 DEF Followed
  <1>26. LowLeast(A)'
    <2> SUFFICES ASSUME NEW i \in 1 .. K - 1, NEW a \in A, a[1] \in OnStack', a[2] \in OnStack',
                        index[Gray(i)] <= index[a[1]],
                        i < K - 1 => index[a[1]] < index[Gray(i + 1)]
                 PROVE  low'[Gray(i)] <= index[a[2]] \/ Pending(a[1], a[2])'
      <3>1. \A i \in 1 .. K - 1 : i < K - 1 => Gray(i + 1)' = Gray(i + 1)
        <4> SUFFICES ASSUME NEW i \in 1 .. K - 1, i < K - 1 PROVE Gray(i + 1)' = Gray(i + 1)
          OBVIOUS
        <4>1. i + 1 \in 1 .. K - 1
          BY <1>1
        <4> QED BY <1>6, <4>1
      <3> QED BY <1>6, <1>7, <3>1 DEF LowLeast
    <2>1. a[1] \in OnStack /\ a[2] \in OnStack /\ index[a[1]] \in Nat /\ index[a[2]] \in Nat
      BY <1>4, <1>11
    <2>2. /\ i \in 1 .. K /\ Gray(i) \in DOMAIN index /\ low[Gray(i)] \in Nat
          /\ low'[Gray(i)] \in Nat /\ index[v] \in Nat /\ low[v] \in Nat
          /\ low'[Gray(i)] <= low[Gray(i)]
      BY <1>1, <1>4, <1>5, <1>8
    <2>3. \A k \in 1 .. K : /\ index[Gray(k)] <= index[a[1]]
                            /\ k < K => index[a[1]] < index[Gray(k + 1)]
                            => low[Gray(k)] <= index[a[2]] \/ Pending(a[1], a[2])
      BY <1>0, <1>1, <1>2, <2>1 DEF LowLeast
    <2>4. CASE i < K - 1 \/ index[a[1]] < index[v]
      <3>1. index[a[1]] < index[Gray(i + 1)]
        <4>1. CASE i < K - 1
          BY <4>1
        <4>2. CASE ~(i < K - 1)
          <5>1. i + 1 = K
            BY <1>1, <4>2
          <5> QED BY <1>0, <2>4, <4>2, <5>1
        <4> QED BY <4>1, <4>2
      <3>2. low[Gray(i)] <= index[a[2]] \/ Pending(a[1], a[2])
        BY <2>2, <2>3, <3>1
      <3>3. CASE low[Gray(i)] <= index[a[2]]
        BY <2>1, <2>2, <3>3
      <3> QED BY <1>9, <3>2, <3>3
    <2>5. CASE ~(i < K - 1) /\ ~(index[a[1]] < index[v])
      <3>1. i = K - 1 /\ index[v] <= index[a[1]] /\ K \in 1 .. K /\ ~(K < K)
        <4>1. i = K - 1 /\ ~(K < K)
          BY <1>1, <2>5
        <4>2. index[v] <= index[a[1]]
          BY <2>1, <2>2, <2>5
        <4> QED BY <1>3, <4>1, <4>2
      <3>2. low[v] <= index[a[2]] \/ Pending(a[1], a[2])
        BY <1>0, <2>3, <3>1
      <3>3. low'[Gray(i)] <= low[v]
        BY <1>8, <3>1
      <3>4. CASE low[v] <= index[a[2]]
        BY <2>1, <2>2, <3>3, <3>4
      <3> QED BY <1>9, <3>2, <3>4
    <2> QED BY <2>4, <2>5
  <1>27. CASE low[v] # index[v]
    <2>1. Shut' = Shut
      BY <1>7, <1>11, <1>27 DEF Shut
    <2>2. ShutIn(A)'
      BY <1>2, <2>1 DEF ShutIn
    <2>3. CyclesInv(P, N)'
      BY <1>2, <1>11, <1>27, <2>1 DEF CyclesInv, Comp
    <2> QED BY <1>20, <1>21, <1>22, <1>23, <1>24, <1>25, <1>26, <2>2, <2>3 DEF SearchInv
  <1>28. CASE low[v] = index[v]
    <2>1. /\ v \in C /\ C \cap Shut = {}
          /\ \A a \in A : a[1] \in C \cup Shut => a[2] \in C \cup Shut
          /\ Cardinality(C) > 1 \/ <<v, v>> \in A <=> <<v, v>> \in P
          /\ \A u \in C : <<u, u>> \in P <=> <<v, v>> \in P
          /\ \A u \in C : <<u, u>> \in P => Comp(P, N, u) = C
      <3>1. IsComponent(C, v, N, A, P)
        BY <1>0, <1>3, <1>10, <1>28, ComponentIs
      <3> QED BY <3>1 DEF IsComponent
    <2>2. Shut' = C \cup Shut
      <3>1. \A u \in DOMAIN index : u \in OnStack =>
                (u \in OnStack' <=> index[u] < index[v]) /\ (u \in C <=> ~(index[u] < index[v]))
        BY <1>4, <1>10, <1>11, <1>28
      <3>2. C \subseteq OnStack /\ OnStack \subseteq DOMAIN index /\ OnStack' \subseteq OnStack
        BY <1>1, <1>10, <1>11
      <3> QED BY <1>7, <3>1, <3>2 DEF Shut
    <2>3. ShutIn(A)'
      BY <2>1, <2>2 DEF ShutIn
    <2>4. CyclesInv(P, N)'
      <3>1. cycles = {Comp(P, N, x) : x \in {y \in Shut : <<y, y>> \in P}}
        BY <1>2 DEF CyclesInv
      <3>2. CASE <<v, v>> \in P
        <4>1. cycles' = cycles \cup {C}
          BY <1>11, <1>28, <2>1, <3>2
        <4>2. {Comp(P, N, x) : x \in {y \in C \cup Shut : <<y, y>> \in P}} = cycles \cup {C}
          <5>1. ASSUME NEW x \in C \cup Shut, <<x, x>> \in P PROVE Comp(P, N, x) \in cycles \cup {C}
            BY <2>1, <3>1, <5>1
          <5>2. \A c \in cycles : \E x \in C \cup Shut : <<x, x>> \in P /\ c = Comp(P, N, x)
            BY <3>1
          <5>3. C = Comp(P, N, v) /\ v \in C \cup Shut
            BY <2>1, <3>2
          <5> QED BY <3>2, <5>1, <5>2, <5>3
        <4>3. cycles' = {Comp(P, N, x) : x \in {y \in Shut' : <<y, y>> \in P}}
          BY <2>2, <4>1, <4>2
        <4> QED BY <4>3 DEF CyclesInv, Comp
      <3>3. CASE <<v, v>> \notin P
        <4>1. cycles' = cycles
          BY <1>11, <1>28, <2>1, <3>3
        <4>2. {y \in C \cup Shut : <<y, y>> \in P} = {y \in Shut : <<y, y>> \in P}
          BY <2>1, <3>3
        <4>3. cycles' = {Comp(P, N, x) : x \in {y \in Shut' : <<y, y>> \in P}}
          BY <2>2, <3>1, <4>1, <4>2
        <4> QED BY <4>3 DEF CyclesInv, Comp
      <3> QED BY <3>2, <3>3
    <2> QED BY <1>20, <1>21, <1>22, <1>23, <1>24, <1>25, <1>26, <2>3, <2>4 DEF SearchInv
  <1> QED BY <1>27, <1>28

-----------------------------------------------------------------------------
(* The search at every step of it.                                           *)
(* What leads to what, as the property has it. *)
Linked == {p \in D!Nodes \X D!Nodes : p[2] \in D!Onward(p[1])}

(* Before the search. *)
Unsearched == index = <<>> /\ low = <<>> /\ stack = <<>> /\ call = <<>> /\ cycles = {}

CyclesIndInv ==
    /\ GraphInv
    /\ stage \in {"walk", "search", "done"}
    /\ module = {} => stage = "done" /\ edges = {}
    /\ stage = "walk" => Unsearched
    /\ stage # "walk" => \A N, A, P : N = D!Nodes /\ A = Arrows /\ P = Linked => SearchInv(N, A, P)
    /\ stage = "done" => D!Nodes \subseteq DOMAIN index /\ call = <<>>

LEMMA UnsearchedIs ==
  ASSUME NEW N, NEW A, NEW P, Unsearched
  PROVE  SearchInv(N, A, P)
  <1>1. /\ DOMAIN index = {} /\ DOMAIN stack = {} /\ DOMAIN call = {} /\ OnStack = {} /\ Shut = {}
        /\ cycles = {}
    BY DEF Unsearched, OnStack, Shut
  <1>2. index \in [DOMAIN index -> Nat] /\ low \in [DOMAIN index -> Nat]
        /\ stack \in Seq(N) /\ call \in Seq([node : N, rest : SUBSET N])
    BY DEF Unsearched
  <1>3. SearchTypes(N, A) /\ Discovered
    BY <1>1, <1>2 DEF SearchTypes, Discovered
  <1>4. LowIs(P) /\ LeadsBack(P) /\ LeadsOn(P) /\ Followed(A) /\ ShutIn(A) /\ LowLeast(A)
    BY <1>1 DEF LowIs, LeadsBack, LeadsOn, Followed, ShutIn, LowLeast
  <1>5. CyclesInv(P, N)
    BY <1>1 DEF CyclesInv
  <1> QED BY <1>3, <1>4, <1>5 DEF SearchInv

LEMMA NodesAreFew ==
  ASSUME GraphInv, module = {} => edges = {}
  PROVE  D!Nodes \subseteq D!Node /\ IsFiniteSet(D!Nodes)
  <1>1. CASE module = {}
    <2>1. D!Nodes = {}
      BY <1>1 DEF D!Nodes
    <2> QED BY <2>1, FS_EmptySet
  <1>2. CASE module # {}
    <2>1. GraphTypes /\ EdgesInv
      BY <1>2 DEF GraphInv
    <2>2. IsFiniteSet(D!Node)
      BY <1>2, <2>1, NodesOf DEF GraphTypes
    <2>3. \A e \in edges : e.from \in DOMAIN reached /\ e.to \in DOMAIN reached
      BY <2>1 DEF EdgesInv, Noted
    <2>4. D!Nodes \subseteq D!Node
      BY <2>1, <2>3 DEF D!Nodes, GraphTypes
    <2> QED BY <2>2, <2>4, FS_Subset
  <1> QED BY <1>1, <1>2

LEMMA SameGraph ==
  ASSUME edges' = edges
  PROVE  D!Nodes' = D!Nodes /\ Arrows' = Arrows /\ Linked' = Linked
  <1>1. D!Nodes' = D!Nodes /\ Arrows' = Arrows
    BY DEF D!Nodes, Arrows
  <1>2. \A x : D!Neighbours(x)' = D!Neighbours(x)
    BY DEF D!Neighbours
  <1>3. \A x : D!Onward(x)' = D!Onward(x)
    BY DEF D!Onward, D!Nodes, D!Neighbours
  <1> QED BY <1>1, <1>3 DEF Linked

LEMMA SearchStep ==
  ASSUME NEW N, NEW A, NEW P, N = D!Nodes, A = Arrows, IsGraph(N, A, P), SearchInv(N, A, P),
         NEW n, D!StartAt(n) \/ D!Look(n) \/ D!Finish
  PROVE  SearchInv(N, A, P)'
  <1>0. \A x : D!Neighbours(x) = {y \in N : <<x, y>> \in A}
    BY DEF D!Neighbours, D!Nodes, Arrows
  <1>1. PICK K : K = Len(call)
    OBVIOUS
  <1>2. /\ K \in Nat /\ DOMAIN call = 1 .. K /\ call \in Seq([node : N, rest : SUBSET N])
        /\ \A i \in 1 .. K : call[i] \in [node : N, rest : SUBSET N]
        /\ \A i \in 1 .. K : \A y \in call[i].rest : <<Gray(i), y>> \in A
    <2>1. \A i \in DOMAIN call : \A y \in call[i].rest : <<Gray(i), y>> \in A
      BY DEF SearchInv, SearchTypes
    <2> QED BY <1>1, <2>1, OnPath
  <1>3. CASE D!StartAt(n)
    <2>1. call = <<>> /\ n \in N \ DOMAIN index /\ D!Discover(n, <<>>) /\ UNCHANGED cycles
      BY <1>3 DEF D!StartAt
    <2>2. <<>> \in Seq([node : N, rest : SUBSET N]) /\ FoundAs(n, <<>>, A)
      BY <2>1 DEF FoundAs
    <2> QED BY <1>0, <2>1, <2>2, FoundKeeps
  <1>4. CASE D!Look(n) /\ n \in DOMAIN index
    <2>1. /\ call # <<>> /\ n \in D!Last(call).rest /\ call' = D!Looked(n)
          /\ low' = IF n \in D!ToSet(stack)
                    THEN [low EXCEPT ![D!Last(call).node] = D!Least(@, index[n])] ELSE low
          /\ UNCHANGED <<index, stack, cycles>>
      BY <1>4 DEF D!Look
    <2> QED BY <1>4, <2>1, LookKeeps
  <1>5. CASE D!Look(n) /\ n \notin DOMAIN index
    <2>1. /\ call # <<>> /\ n \in D!Last(call).rest /\ D!Discover(n, D!Looked(n))
          /\ UNCHANGED cycles
      BY <1>5 DEF D!Look
    <2>2. K \in 1 .. K /\ D!Last(call) = call[K] /\ n \in N /\ <<Gray(K), n>> \in A
      <3>1. K # 0
        BY <1>1, <1>2, <2>1
      <3>2. K \in 1 .. K /\ D!Last(call) = call[K]
        BY <1>1, <1>2, <3>1 DEF D!Last
      <3> QED BY <1>2, <2>1, <3>2
    <2>3. PICK f : f = [call[K] EXCEPT !.rest = call[K].rest \ {n}]
      OBVIOUS
    <2>4. f \in [node : N, rest : SUBSET N] /\ f.node = call[K].node /\ f.rest = call[K].rest \ {n}
      BY <1>2, <2>2, <2>3
    <2>5. PICK path : path = D!Looked(n)
      OBVIOUS
    <2>6. path = [call EXCEPT ![K] = f]
      BY <1>1, <2>3, <2>5 DEF D!Looked
    <2>7. /\ path \in Seq([node : N, rest : SUBSET N]) /\ Len(path) = K
          /\ path[K] = f /\ \A i \in 1 .. K : i # K => path[i] = call[i]
      BY <1>1, <1>2, <2>2, <2>4, <2>6
    <2>8. FoundAs(n, path, A)
      <3>1. \A i \in 1 .. K : /\ path[i].node = call[i].node
                              /\ path[i].rest \subseteq call[i].rest
                              /\ call[i].rest \subseteq path[i].rest \cup {n}
        BY <2>4, <2>7
      <3>2. \A i \in 1 .. K - 1 : path[i].rest = call[i].rest
        <4>1. \A i \in 1 .. K - 1 : i \in 1 .. K /\ i # K
          BY <1>2
        <4> QED BY <2>7, <4>1
      <3> QED BY <1>1, <1>2, <2>2, <2>7, <3>1, <3>2 DEF FoundAs
    <2>9. n \in N \ DOMAIN index /\ D!Discover(n, path)
      BY <1>5, <2>1, <2>2, <2>5
    <2> QED BY <1>0, <2>1, <2>7, <2>8, <2>9, FoundKeeps
  <1>6. CASE D!Finish
    BY <1>0, <1>6, FinishKeeps
  <1> QED BY <1>3, <1>4, <1>5, <1>6

LEMMA CyclesInit == D!Init => CyclesIndInv
  <1> SUFFICES ASSUME D!Init PROVE CyclesIndInv
    OBVIOUS
  <1>1. Unsearched /\ edges = {} /\ stage = IF module = {} THEN "done" ELSE "walk"
    BY DEF D!Init, Unsearched
  <1>2. D!Nodes = {} /\ call = <<>>
    BY <1>1 DEF D!Nodes, Unsearched
  <1> QED BY <1>1, <1>2, GraphInit, UnsearchedIs DEF CyclesIndInv

LEMMA CyclesStep ==
  ASSUME CyclesIndInv, D!Next \/ UNCHANGED graphVars
  PROVE  CyclesIndInv'
  <1>1. GraphInv'
    BY GraphStep DEF CyclesIndInv
  <1>2. CASE D!Expand \/ D!EndHop
    <2>1. stage = "walk" /\ module # {} /\ module' = module /\ Unsearched'
          /\ stage' \in {"walk", "search"}
      <3>1. /\ stage = "walk" /\ module' = module /\ UNCHANGED D!searched
            /\ stage' \in {"walk", "search"}
        BY <1>2 DEF D!Expand, D!EndHop
      <3> QED BY <3>1 DEF CyclesIndInv, Unsearched, D!searched
    <2>2. \A N, A, P : SearchInv(N, A, P)'
      <3> SUFFICES ASSUME NEW N, NEW A, NEW P PROVE SearchInv(N, A, P)'
        OBVIOUS
      <3>1. Unsearched => SearchInv(N, A, P)
        BY UnsearchedIs
      <3>2. Unsearched' => SearchInv(N, A, P)'
        BY UnsearchedIs, PTL
      <3> QED BY <2>1, <3>2
    <2> QED BY <1>1, <2>1, <2>2 DEF CyclesIndInv
  <1>3. CASE ~(D!Expand \/ D!EndHop)
    <2>1. PICK N, A, P : N = D!Nodes /\ A = Arrows /\ P = Linked
      OBVIOUS
    <2>2. UNCHANGED D!walked
      BY <1>3 DEF D!Next, D!StartAt, D!Look, D!Finish, D!Answer, D!Done, D!walked, D!vars,
                  graphVars
    <2>3. edges' = edges /\ module' = module
      BY <2>2 DEF D!walked
    <2>4. N = D!Nodes' /\ A = Arrows' /\ P = Linked'
      BY <2>1, <2>3, SameGraph
    <2>5. IsGraph(N, A, P)
      <3>1. IsFiniteSet(D!Nodes)
        BY NodesAreFew DEF CyclesIndInv
      <3>2. P = {p \in N \X N : p[2] \in D!Onward(p[1])}
        BY <2>1 DEF Linked
      <3> QED BY <2>1, <3>1, <3>2, GraphIs
    <2>6. ASSUME NEW n, D!StartAt(n) \/ D!Look(n) \/ D!Finish
          PROVE  CyclesIndInv'
      <3>1. stage = "search" /\ stage' = stage
        BY <2>6 DEF D!StartAt, D!Look, D!Finish
      <3>2. SearchInv(N, A, P)
        BY <2>1, <3>1 DEF CyclesIndInv
      <3>3. SearchInv(N, A, P)'
        BY <2>1, <2>5, <2>6, <3>2, SearchStep
      <3> QED BY <1>1, <2>3, <2>4, <3>1, <3>3 DEF CyclesIndInv
    <2>7. CASE D!Answer \/ D!Done \/ UNCHANGED graphVars
      <3>0. UNCHANGED <<index, low, stack, call, cycles>>
        BY <2>7 DEF D!searched, D!Answer, D!Done, D!vars, graphVars
      <3>1. \A N_, A_, P_ : SearchInv(N_, A_, P_)' <=> SearchInv(N_, A_, P_)
        BY <3>0 DEF SearchInv, SearchTypes, Discovered, LowIs, LeadsBack, LeadsOn, Followed,
           ShutIn,
                    LowLeast, CyclesInv, OnStack, Gray, Shut, Pending
      <3>2. Unsearched' <=> Unsearched
        BY <3>0 DEF Unsearched
      <3>3. \/ stage' = stage
            \/ stage = "search" /\ stage' = "done" /\ call = <<>> /\ D!Nodes \subseteq DOMAIN index
        BY <2>7 DEF D!Answer, D!Done, D!vars, graphVars
      <3>4. stage' # "walk" => SearchInv(N, A, P)'
        BY <2>1, <3>1, <3>3 DEF CyclesIndInv
      <3>5. stage' # "walk" => \A N_, A_, P_ :
                (N_ = D!Nodes /\ A_ = Arrows /\ P_ = Linked)' => SearchInv(N_, A_, P_)'
        BY <2>4, <3>4
      <3>6. stage' = "done" => D!Nodes' \subseteq DOMAIN index' /\ call' = <<>>
        BY <2>1, <2>4, <3>0, <3>3 DEF CyclesIndInv
      <3>7. /\ stage' \in {"walk", "search", "done"} /\ (stage' = "walk" => Unsearched')
            /\ (module' = {} => stage' = "done" /\ edges' = {})
        BY <2>3, <3>2, <3>3 DEF CyclesIndInv
      <3> QED BY <1>1, <3>5, <3>6, <3>7 DEF CyclesIndInv
    <2>8. \/ \E n \in D!Node : D!StartAt(n) \/ D!Look(n)
          \/ D!Finish \/ D!Answer \/ D!Done \/ UNCHANGED graphVars
      BY <1>3 DEF D!Next
    <2> QED BY <2>6, <2>7, <2>8
  <1> QED BY <1>2, <1>3

(* A search that is over has closed every component. *)
LEMMA CyclesResult == CyclesIndInv => D!CyclesAreComponents
  <1> SUFFICES ASSUME CyclesIndInv, stage = "done" 
               PROVE  D!CyclesAreComponents
    BY DEF D!CyclesAreComponents
  <1>1. PICK N, A, P : N = D!Nodes /\ A = Arrows /\ P = Linked
    OBVIOUS
  <1>2. SearchInv(N, A, P) /\ call = <<>> /\ N \subseteq DOMAIN index
    BY <1>1 DEF CyclesIndInv
  <1>3. OnStack = {}
    BY <1>2 DEF SearchInv, LeadsBack
  <1>4. Shut = N
    BY <1>2, <1>3 DEF SearchInv, SearchTypes, Shut
  <1>5. cycles = {Comp(P, N, x) : x \in {y \in N : <<y, y>> \in P}}
    BY <1>2, <1>4 DEF SearchInv, CyclesInv
  <1>6. \A x, y \in N : <<x, y>> \in P <=> y \in D!Onward(x)
    BY <1>1 DEF Linked
  <1>7. {y \in N : <<y, y>> \in P} = {y \in N : y \in D!Onward(y)}
    BY <1>6
  <1>8. \A x \in N : Comp(P, N, x) = {m \in N : m \in D!Onward(x) /\ x \in D!Onward(m)}
    BY <1>6 DEF Comp
  <1>9. cycles = {{m \in N : m \in D!Onward(x) /\ x \in D!Onward(m)} :
                    x \in {y \in N : y \in D!Onward(y)}}
    BY <1>5, <1>7, <1>8
  <1> QED BY <1>1, <1>9 DEF D!CyclesAreComponents

(* The cycles reported are the strongly connected components of the edges    *)
(* shown that hold a cycle, each of them and nothing else, in whatever order *)
(* the search takes up roots and neighbours (find_cycles).                   *)
THEOREM CyclesAreTheComponents == AnySpec => []CyclesAreComponents
  <1>1. AnyInit => CyclesIndInv
    BY CyclesInit DEF AnyInit
  <1>2. CyclesIndInv /\ [AllNext]_allVars => CyclesIndInv'
    <2>1. [AllNext]_allVars => D!Next \/ UNCHANGED graphVars
      BY DEF AllNext, allVars, graphVars
    <2> QED BY <2>1, CyclesStep
  <1>3. CyclesIndInv => CyclesAreComponents
    BY CyclesResult DEF CyclesAreComponents
  <1> QED BY <1>1, <1>2, <1>3, PTL DEF AnySpec

-----------------------------------------------------------------------------
(* The ranking.                                                              *)

LEMMA KeysAreInts ==
  ASSUME NEW c \in Candidate
  PROVE  /\ \A i \in 1 .. 7 : RankKey(c)[i] \in Int
         /\ RankKey(c)[5] = -c.last
  BY DEF Candidate, RankKey, Definition, Fragment, Relation

LEMMA KeysEqual ==
  ASSUME NEW a \in Candidate, NEW b \in Candidate,
         \A i \in 1 .. 7 : RankKey(a)[i] = RankKey(b)[i]
  PROVE  RankKey(a) = RankKey(b)
  <1>1. \A i \in 1 .. 7 : RankKey(a)[i] = RankKey(b)[i]
    OBVIOUS
  <1>2. /\ RankKey(a)[1] = RankKey(b)[1] /\ RankKey(a)[2] = RankKey(b)[2]
        /\ RankKey(a)[3] = RankKey(b)[3] /\ RankKey(a)[4] = RankKey(b)[4]
        /\ RankKey(a)[5] = RankKey(b)[5] /\ RankKey(a)[6] = RankKey(b)[6]
        /\ RankKey(a)[7] = RankKey(b)[7]
    BY <1>1
  <1> QED BY <1>2 DEF RankKey

LEMMA BetterIsOrder ==
  ASSUME NEW a \in Candidate, NEW b \in Candidate, NEW c \in Candidate
  PROVE  /\ ~Better(a, a)
         /\ Better(a, b) /\ Better(b, c) => Better(a, c)
         /\ RankKey(a) = RankKey(b) \/ Better(a, b) \/ Better(b, a)
  <1> DEFINE ka == RankKey(a)
             kb == RankKey(b)
             kc == RankKey(c)
  <1>1. \A i \in 1 .. 7 : ka[i] \in Int /\ kb[i] \in Int /\ kc[i] \in Int
    BY KeysAreInts
  <1>2. ~Better(a, a)
    BY <1>1 DEF Better
  <1>3. ASSUME Better(a, b), Better(b, c) PROVE Better(a, c)
    <2>1. PICK i \in 1 .. 7 : ka[i] < kb[i] /\ \A k \in 1 .. i - 1 : ka[k] = kb[k]
      BY <1>3 DEF Better
    <2>2. PICK j \in 1 .. 7 : kb[j] < kc[j] /\ \A k \in 1 .. j - 1 : kb[k] = kc[k]
      BY <1>3 DEF Better
    <2> HIDE DEF ka, kb, kc
    <2>3. PICK m \in 1 .. 7 : ka[m] < kc[m] /\ \A k \in 1 .. m - 1 : ka[k] = kc[k]
      <3>1. CASE i < j
        <4>1. ka[i] < kc[i] /\ \A k \in 1 .. i - 1 : ka[k] = kc[k]
          BY <1>1, <2>1, <2>2, <3>1
        <4> QED BY <4>1
      <3>2. CASE i = j
        <4>1. ka[i] < kc[i] /\ \A k \in 1 .. i - 1 : ka[k] = kc[k]
          BY <1>1, <2>1, <2>2, <3>2
        <4> QED BY <4>1
      <3>3. CASE i > j
        <4>1. ka[j] < kc[j] /\ \A k \in 1 .. j - 1 : ka[k] = kc[k]
          BY <1>1, <2>1, <2>2, <3>3
        <4> QED BY <4>1
      <3> QED BY <3>1, <3>2, <3>3
    <2> QED BY <2>3 DEF Better, ka, kc
  <1>4. ASSUME RankKey(a) # RankKey(b) PROVE Better(a, b) \/ Better(b, a)
    <2>1. {i \in 1 .. 7 : ka[i] # kb[i]} # {}
      BY <1>4, KeysEqual
    <2>2. PICK i \in {i \in 1 .. 7 : ka[i] # kb[i]} :
              \A j \in {j \in 1 .. 7 : ka[j] # kb[j]} : i <= j
      <3>1. {i \in 1 .. 7 : ka[i] # kb[i]} \in SUBSET Nat
        OBVIOUS
      <3> HIDE DEF ka, kb
      <3> QED BY <2>1, <3>1, LeastIn
    <2> HIDE DEF ka, kb, kc
    <2>3. \A j \in 1 .. i - 1 : ka[j] = kb[j]
      <3> SUFFICES ASSUME NEW j \in 1 .. i - 1, ka[j] # kb[j] PROVE FALSE
        OBVIOUS
      <3>1. j \in 1 .. 7 /\ ~(i <= j)
        BY <2>2
      <3> QED BY <2>2, <3>1
    <2>4. ka[i] < kb[i] \/ kb[i] < ka[i]
      BY <1>1, <2>2
    <2>5. CASE ka[i] < kb[i]
      BY <2>2, <2>3, <2>5 DEF Better, ka, kb
    <2>6. CASE kb[i] < ka[i]
      BY <2>2, <2>3, <2>6 DEF Better, ka, kb
    <2> QED BY <2>4, <2>5, <2>6
  <1> QED BY <1>2, <1>3, <1>4

(* What the ranking is made from: a corpus.                                  *)
Rankable(S) ==
    /\ S \subseteq Candidate /\ IsFiniteSet(S)
    /\ \A c \in S : c.first <= c.last
    /\ \A a, b \in S : RankKey(a) = RankKey(b) => a = b

Ordered(s) == \A i, j \in DOMAIN s : i < j => Better(s[i], s[j])

LEMMA InOrderIsOrder ==
  ASSUME NEW S, Rankable(S)
  PROVE  /\ InOrder(S) \in Seq(S) /\ Ordered(InOrder(S))
         /\ {InOrder(S)[i] : i \in DOMAIN InOrder(S)} = S
  <1> DEFINE N == Cardinality(S)
             above == [c \in S |-> {b \in S : Better(b, c)}]
             rank == [c \in S |-> Cardinality(above[c])]
             IsOrder(f) == \A i, j \in 1 .. N : i < j => Better(f[i], f[j])
  <1>1. /\ S \subseteq Candidate /\ IsFiniteSet(S) /\ N \in Nat
        /\ \A a, b \in S : RankKey(a) = RankKey(b) => a = b
    BY FS_CardinalityType DEF Rankable
  <1>2. \A a \in S, b \in S, c \in S :
           /\ ~Better(a, a)
           /\ Better(a, b) /\ Better(b, c) => Better(a, c)
           /\ a = b \/ Better(a, b) \/ Better(b, a)
    BY <1>1, BetterIsOrder
  <1>3. ASSUME NEW c \in S
        PROVE  above[c] \subseteq S \ {c} /\ IsFiniteSet(above[c]) /\ rank[c] \in 0 .. N - 1
    <2>1. above[c] \subseteq S \ {c}
      BY <1>2
    <2>2. IsFiniteSet(S \ {c}) /\ Cardinality(S \ {c}) = N - 1
      BY <1>1, FS_RemoveElement
    <2>3. IsFiniteSet(above[c]) /\ Cardinality(above[c]) <= N - 1 /\ Cardinality(above[c]) \in Nat
      BY <2>1, <2>2, FS_Subset, FS_CardinalityType
    <2> QED BY <1>1, <2>1, <2>3
  <1>4. ASSUME NEW a \in S, NEW b \in S, Better(a, b) PROVE rank[a] < rank[b]
    <2>1. above[a] \cup {a} \subseteq above[b] /\ a \notin above[a]
      BY <1>2, <1>4
    <2> HIDE DEF above
    <2>2. Cardinality(above[a] \cup {a}) = rank[a] + 1
      BY <1>3, <2>1, FS_AddElement
    <2>3. Cardinality(above[a] \cup {a}) <= rank[b]
      BY <1>3, <2>1, FS_Subset
    <2> QED BY <1>3, <2>2, <2>3
  <1> HIDE DEF above
  <1>5. rank \in Bijection(S, 0 .. N - 1)
    <2>1. rank \in [S -> 0 .. N - 1]
      BY <1>3
    <2>2. ASSUME NEW a \in S, NEW b \in S, rank[a] = rank[b] PROVE a = b
      <3>1. ~(rank[a] < rank[b]) /\ ~(rank[b] < rank[a])
        BY <1>3, <2>2
      <3> QED BY <1>2, <1>4, <3>1
    <2> HIDE DEF rank
    <2>3. rank \in Injection(S, 0 .. N - 1)
      BY <2>1, <2>2 DEF Injection, IsInjective
    <2>4. IsFiniteSet(0 .. N - 1) /\ Cardinality(0 .. N - 1) = N
      BY <1>1, FS_Interval
    <2>5. rank \in Surjection(S, 0 .. N - 1)
      BY <2>3, <2>4, FS_Injection
    <2> QED BY <2>3, <2>5 DEF Bijection
  <1> HIDE DEF rank
  <1>6. \A i \in 1 .. N : \E c \in S : rank[c] = i - 1
    <2>1. ASSUME NEW i \in 1 .. N PROVE \E c \in S : rank[c] = i - 1
      <3>1. i - 1 \in 0 .. N - 1
        BY <1>1
      <3> QED BY <1>5, <3>1 DEF Bijection, Surjection
    <2> QED BY <2>1
  <1> DEFINE f == [i \in 1 .. N |-> CHOOSE c \in S : rank[c] = i - 1]
  <1>7. f \in [1 .. N -> S] /\ \A i \in 1 .. N : rank[f[i]] = i - 1
    BY <1>6
  <1>8. IsOrder(f)
    <2>1. ASSUME NEW i \in 1 .. N, NEW j \in 1 .. N, i < j PROVE Better(f[i], f[j])
      <3>1. f[i] \in S /\ f[j] \in S /\ rank[f[i]] = i - 1 /\ rank[f[j]] = j - 1
        BY <1>7
      <3> HIDE DEF f
      <3>2. rank[f[i]] < rank[f[j]]
        BY <1>1, <2>1, <3>1
      <3>3. f[i] # f[j] /\ ~(rank[f[j]] < rank[f[i]])
        BY <1>1, <2>1, <3>1
      <3> QED BY <1>2, <1>4, <3>1, <3>3
    <2> QED BY <2>1
  <1>9. InOrder(S) \in [1 .. N -> S] /\ IsOrder(InOrder(S))
    <2>1. InOrder(S) = CHOOSE g \in [1 .. N -> S] : IsOrder(g)
      BY DEF InOrder
    <2> HIDE DEF f, IsOrder, N
    <2> QED BY <1>7, <1>8, <2>1
  <1> DEFINE order == InOrder(S)
  <1>10. order \in Injection(1 .. N, S)
    <2>1. order \in [1 .. N -> S] /\ IsOrder(order)
      BY <1>9
    <2> HIDE DEF order
    <2>2. ASSUME NEW i \in 1 .. N, NEW j \in 1 .. N, order[i] = order[j] PROVE i = j
      <3>1. order[i] \in S /\ order[j] \in S
        BY <2>1
      <3>2. ~(i < j) /\ ~(j < i)
        BY <1>2, <2>1, <2>2, <3>1
      <3> QED BY <1>1, <3>2
    <2> QED BY <2>1, <2>2 DEF Injection, IsInjective
  <1>11. \A c \in S : \E i \in 1 .. N : order[i] = c
    <2>1. IsFiniteSet(1 .. N) /\ Cardinality(1 .. N) = N
      BY <1>1, FS_Interval
    <2>2. order \in Surjection(1 .. N, S)
      <3> HIDE DEF order
      <3> QED BY <1>1, <1>10, <2>1, FS_Injection
    <2> QED BY <2>2 DEF Surjection
  <1>12. DOMAIN order = 1 .. N /\ Ordered(order) /\ order \in Seq(S)
    <2>1. order \in [1 .. N -> S] /\ IsOrder(order)
      BY <1>9
    <2> HIDE DEF order
    <2> QED BY <1>1, <2>1 DEF Ordered
  <1>13. {order[i] : i \in DOMAIN order} = S
    <2>1. order \in [1 .. N -> S]
      BY <1>9
    <2> HIDE DEF order
    <2> QED BY <1>11, <1>12, <2>1
  <1> QED BY <1>12, <1>13

LEMMA CoversIs ==
  ASSUME NEW a \in Candidate, NEW b \in Candidate, NEW c \in Candidate,
         a.first <= a.last, b.first <= b.last
  PROVE  /\ Covers(a, b) <=> Says(a, b)
         /\ Covers(a, b) /\ Covers(b, c) => Covers(a, c)
  <1>1. /\ a.first \in Nat /\ a.last \in Nat /\ b.first \in Nat /\ b.last \in Nat
        /\ c.first \in Nat /\ c.last \in Nat
    BY DEF Candidate
  <1>2. b.first .. b.last \subseteq a.first .. a.last <=> a.first <= b.first /\ b.last <= a.last
    BY <1>1
  <1>3. Alike(a, b) => a.evidence = b.evidence
    BY DEF Alike
  <1>4. Covers(a, b) <=> Says(a, b)
    BY <1>2 DEF Covers, Says
  <1>5. Alike(a, b) /\ Alike(b, c) => Alike(a, c)
    BY DEF Alike
  <1>6. ASSUME Covers(a, b), Covers(b, c) PROVE Covers(a, c)
    <2>1. Alike(a, c) /\ b.evidence = c.evidence
      BY <1>5, <1>6 DEF Covers, Alike
    <2>2. CASE c.evidence = Fragment
      BY <1>1, <1>6, <2>1, <2>2 DEF Covers
    <2>3. CASE c.evidence # Fragment
      BY <1>1, <1>6, <2>1, <2>3 DEF Covers
    <2> QED BY <2>2, <2>3
  <1> QED BY <1>4, <1>6

(* A step of the deduplication; Kept takes one for every candidate in order. *)
Weighed(s, c) == IF \E i \in DOMAIN s : Covers(s[i], c) THEN s ELSE Append(s, c)

LEMMA KeptSteps ==
  ASSUME NEW S, NEW order, order \in Seq(S)
  PROVE  \E kept \in [0 .. Len(order) -> Seq(S)] :
           /\ kept[0] = <<>> /\ Kept(order) = kept[Len(order)]
           /\ \A n \in 1 .. Len(order) : kept[n] = Weighed(kept[n - 1], order[n])
  <1> DEFINE L == Len(order)
             X == Nat \X Seq(S)
             Go(x) == IF x[1] + 1 \in 1 .. L THEN Weighed(x[2], order[x[1] + 1]) ELSE x[2]
             G == [x \in X |-> <<x[1] + 1, Go(x)>>]
             Def(g) == [n \in 0 .. L |->
                           IF n = 0 THEN <<>>
                           ELSE IF \E i \in DOMAIN g[n - 1] : Covers(g[n - 1][i], order[n])
                                THEN g[n - 1]
                                ELSE Append(g[n - 1], order[n])]
  <1>1. L \in Nat /\ \A n \in 1 .. L : order[n] \in S
    OBVIOUS
  <1>2. \A s \in Seq(S), c \in S : Weighed(s, c) \in Seq(S)
    BY DEF Weighed
  <1>3. ASSUME NEW x \in X PROVE <<x[1] + 1, Go(x)>> \in X
    <2>1. x[1] \in Nat /\ x[2] \in Seq(S)
      OBVIOUS
    <2>2. Go(x) \in Seq(S)
      <3>1. CASE x[1] + 1 \in 1 .. L
        BY <1>1, <1>2, <2>1, <3>1
      <3>2. CASE x[1] + 1 \notin 1 .. L
        BY <2>1, <3>2
      <3> QED BY <3>1, <3>2
    <2> HIDE DEF Go
    <2> QED BY <2>1, <2>2
  <1>4. G \in [X -> X] /\ <<0, <<>>>> \in X
    <2>1. <<0, <<>>>> \in X
      <3>1. <<>> \in Seq(S) /\ 0 \in Nat
        OBVIOUS
      <3> QED BY <3>1, Zenon
    <2> HIDE DEF Go, X
    <2> QED BY <1>3, <2>1
  <1>5. PICK f \in [Nat -> X] : f[0] = <<0, <<>>>> /\ \A n \in Nat : f[n + 1] = G[f[n]]
    <2>1. PICK b \in X : b = <<0, <<>>>>
      BY <1>4
    <2>2. G \in [X -> X]
      BY <1>4
    <2> HIDE DEF X, G
    <2>3. \E f \in [Nat -> X] : f[0] = b /\ \A n \in Nat : f[n + 1] = G[f[n]]
      BY ONLY <2>2, RecursionExists
    <2> QED BY <2>1, <2>3
  <1>6. ASSUME NEW n \in Nat PROVE f[n + 1] = <<f[n][1] + 1, Go(f[n])>>
    <2>1. f[n] \in X /\ f[n + 1] = G[f[n]]
      BY <1>5
    <2> HIDE DEF Go, X
    <2> QED BY <2>1
  <1>7. \A n \in Nat : f[n][1] = n
    <2> DEFINE T == {n \in Nat : f[n][1] = n}
    <2>1. 0 \in T
      BY <1>5
    <2>2. ASSUME NEW n \in Nat, n \in T PROVE n + 1 \in T
      <3>1. f[n][1] = n
        BY <2>2
      <3>2. f[n + 1] = <<f[n][1] + 1, Go(f[n])>>
        BY <1>6
      <3> HIDE DEF Go
      <3>3. f[n + 1][1] = n + 1
        BY <3>1, <3>2
      <3> QED BY <3>3
    <2> HIDE DEF T
    <2>3. Nat \subseteq T
      BY <2>1, <2>2, SetInduction
    <2> QED BY <2>3 DEF T
  <1> DEFINE k == [n \in 0 .. L |-> f[n][2]]
  <1>8. k \in [0 .. L -> Seq(S)]
    <2>1. \A n \in 0 .. L : f[n] \in X
      BY <1>1, <1>5
    <2> QED BY <2>1
  <1>9. k[0] = <<>>
    BY <1>1, <1>5
  <1>10. ASSUME NEW n \in 1 .. L PROVE k[n] = Weighed(k[n - 1], order[n])
    <2>1. n - 1 \in Nat /\ (n - 1) + 1 = n /\ n - 1 \in 0 .. L /\ n \in 0 .. L
      BY <1>1
    <2>2. f[n] = <<f[n - 1][1] + 1, Go(f[n - 1])>> /\ f[n - 1][1] = n - 1
      <3> HIDE DEF Go
      <3> QED BY <1>6, <1>7, <2>1
    <2>3. Go(f[n - 1]) = Weighed(f[n - 1][2], order[n])
      BY <2>1, <2>2
    <2> HIDE DEF Go
    <2> QED BY <2>1, <2>2, <2>3
  <1> HIDE DEF k
  <1>11. k = Def(k)
    <2>1. k = [n \in 0 .. L |-> k[n]]
      BY <1>8
    <2>2. \A n \in 0 .. L : k[n] = Def(k)[n]
      <3>1. ASSUME NEW n \in 0 .. L, n # 0 PROVE k[n] = Def(k)[n]
        <4>1. n \in 1 .. L
          BY <1>1, <3>1
        <4> QED BY <1>10, <3>1, <4>1 DEF Weighed
      <3> QED BY <1>9, <3>1
    <2> QED BY <2>1, <2>2
  <1> DEFINE kept == CHOOSE g : g = Def(g)
  <1>12. kept = Def(kept) /\ Kept(order) = kept[L]
    <2>1. Kept(order) = kept[L]
      BY DEF Kept
    <2> HIDE DEF Def
    <2> QED BY <1>11, <2>1
  <1> HIDE DEF kept
  <1>13. kept[0] = <<>>
    BY <1>1, <1>12
  <1>14. \A n \in 1 .. L : kept[n] = Weighed(kept[n - 1], order[n])
    <2>1. ASSUME NEW n \in 1 .. L PROVE kept[n] = Weighed(kept[n - 1], order[n])
      <3>1. n \in 0 .. L /\ n # 0
        BY <1>1
      <3> QED BY <1>12, <3>1 DEF Weighed
    <2> QED BY <2>1
  <1>15. \A n \in 0 .. L : kept[n] \in Seq(S)
    <2> DEFINE T == {n \in Nat : n <= L => kept[n] \in Seq(S)}
    <2>1. 0 \in T
      <3>1. <<>> \in Seq(S)
        OBVIOUS
      <3> QED BY <1>13, <3>1
    <2>2. ASSUME NEW n \in Nat, n \in T PROVE n + 1 \in T
      <3> SUFFICES ASSUME n + 1 <= L PROVE kept[n + 1] \in Seq(S)
        OBVIOUS
      <3>1. n + 1 \in 1 .. L /\ (n + 1) - 1 = n /\ n <= L
        BY <1>1
      <3>2. kept[n + 1] = Weighed(kept[n], order[n + 1]) /\ kept[n] \in Seq(S)
        BY <1>14, <2>2, <3>1
      <3> QED BY <1>1, <1>2, <3>1, <3>2
    <2> HIDE DEF T
    <2>3. Nat \subseteq T
      BY <2>1, <2>2, SetInduction
    <2> QED BY <1>1, <2>3 DEF T
  <1>16. kept \in [0 .. L -> Seq(S)]
    <2>1. kept = [n \in 0 .. L |-> kept[n]]
      BY <1>12
    <2> QED BY <1>15, <2>1
  <1> QED BY <1>12, <1>13, <1>14, <1>16

(* No candidate before position k says what it does. *)
Fresh(order, k) == ~\E m \in 1 .. k - 1 : Covers(order[m], order[k])

LEMMA KeptIs ==
  ASSUME NEW S, Rankable(S), NEW order \in Seq(S), Ordered(order)
  PROVE  /\ Kept(order) \in Seq(S) /\ Ordered(Kept(order))
         /\ {Kept(order)[i] : i \in DOMAIN Kept(order)} =
                {order[k] : k \in {k \in DOMAIN order : Fresh(order, k)}}
  <1> DEFINE L == Len(order)
             Those(n) == {order[k] : k \in {k \in 1 .. n : Fresh(order, k)}}
             Set(s) == {s[i] : i \in DOMAIN s}
  <1>1. PICK kept \in [0 .. L -> Seq(S)] :
           /\ kept[0] = <<>> /\ Kept(order) = kept[L]
           /\ \A n \in 1 .. L : kept[n] = Weighed(kept[n - 1], order[n])
    BY KeptSteps
  <1>2. L \in Nat /\ DOMAIN order = 1 .. L /\ \A n \in 1 .. L : order[n] \in S
    OBVIOUS
  <1>3. \A a, b, c \in S : Covers(a, b) /\ Covers(b, c) => Covers(a, c)
    BY CoversIs DEF Rankable
  <1> DEFINE T == {n \in Nat : n <= L => Ordered(kept[n]) /\ Set(kept[n]) = Those(n)}
  <1>4. 0 \in T
    BY <1>1 DEF Ordered
  <1>5. ASSUME NEW n \in Nat, n \in T PROVE n + 1 \in T
    <2> DEFINE Good(i) == Ordered(kept[i]) /\ Set(kept[i]) = Those(i)
    <2> SUFFICES n + 1 <= L => Good(n + 1)
      <3>1. n + 1 \in Nat
        OBVIOUS
      <3> HIDE DEF Good
      <3>2. T = {i \in Nat : i <= L => Good(i)}
        BY DEF Good
      <3> HIDE DEF T
      <3> QED BY <3>1, <3>2
    <2> HAVE n + 1 <= L
    <2> DEFINE c == order[n + 1]
               s == kept[n]
    <2>1. n + 1 \in 1 .. L /\ n <= L /\ n \in 0 .. L /\ (n + 1) - 1 = n
      BY <1>2
    <2>2. kept[n + 1] = Weighed(s, c) /\ s \in Seq(S) /\ c \in S
      BY <1>1, <1>2, <2>1
    <2>3. Ordered(s) /\ Set(s) = Those(n)
      BY <1>5, <2>1
    <2>4. Those(n + 1) = IF Fresh(order, n + 1) THEN Those(n) \cup {c} ELSE Those(n)
      <3>1. 1 .. n + 1 = (1 .. n) \cup {n + 1}
        OBVIOUS
      <3> QED BY <3>1
    <2>5. Fresh(order, n + 1) <=> ~\E i \in DOMAIN s : Covers(s[i], c)
      <3>1. ASSUME NEW i \in DOMAIN s, Covers(s[i], c) PROVE ~Fresh(order, n + 1)
        <4>1. s[i] \in Those(n)
          BY <2>3
        <4>2. PICK k \in 1 .. n : s[i] = order[k]
          BY <4>1
        <4> QED BY <2>1, <3>1, <4>2 DEF Fresh
      <3>2. ASSUME ~Fresh(order, n + 1) PROVE \E i \in DOMAIN s : Covers(s[i], c)
        <4> DEFINE M == {m \in 1 .. n : Covers(order[m], c)}
        <4>1. M # {} /\ M \in SUBSET Nat
          BY <2>1, <3>2 DEF Fresh
        <4>2. PICK m \in M : \A j \in M : m <= j
          <5> HIDE DEF M
          <5> QED BY <4>1, LeastIn
        <4>3. m \in 1 .. n /\ Covers(order[m], c) /\ order[m] \in S
          BY <1>2, <2>1, <4>2
        <4>4. Fresh(order, m)
          <5> SUFFICES ASSUME NEW j \in 1 .. m - 1, Covers(order[j], order[m]) PROVE FALSE
            BY DEF Fresh
          <5>1. j \in 1 .. n /\ order[j] \in S /\ ~(m <= j)
            BY <1>2, <2>1, <4>3
          <5>2. Covers(order[j], c)
            BY <1>3, <2>2, <4>3, <5>1
          <5> HIDE DEF c
          <5> QED BY <4>2, <5>1, <5>2
        <4>5. order[m] \in Set(s)
          BY <2>3, <4>3, <4>4
        <4>6. PICK i \in DOMAIN s : s[i] = order[m]
          BY <4>5
        <4> QED BY <4>3, <4>6
      <3> QED BY <3>1, <3>2
    <2>6. CASE \E i \in DOMAIN s : Covers(s[i], c)
      BY <2>2, <2>3, <2>4, <2>5, <2>6 DEF Weighed
    <2>7. CASE ~\E i \in DOMAIN s : Covers(s[i], c)
      <3>1. kept[n + 1] = Append(s, c)
        BY <2>2, <2>7 DEF Weighed
      <3>2. \A i \in DOMAIN s : Better(s[i], c)
        <4>1. ASSUME NEW i \in DOMAIN s PROVE Better(s[i], c)
          <5>1. s[i] \in Those(n)
            BY <2>3
          <5>2. PICK k \in 1 .. n : s[i] = order[k]
            BY <5>1
          <5>3. k \in DOMAIN order /\ n + 1 \in DOMAIN order /\ k < n + 1
            BY <1>2, <2>1
          <5> QED BY <5>2, <5>3 DEF Ordered
        <4> QED BY <4>1
      <3> HIDE DEF c, s
      <3>3. /\ DOMAIN Append(s, c) = (DOMAIN s) \cup {Len(s) + 1}
            /\ \A i \in DOMAIN s : Append(s, c)[i] = s[i] /\ i < Len(s) + 1 /\ i \in Nat
            /\ Append(s, c)[Len(s) + 1] = c /\ Len(s) + 1 \notin DOMAIN s /\ Len(s) \in Nat
        BY <2>2
      <3>4. Ordered(Append(s, c))
        <4> SUFFICES ASSUME NEW i \in DOMAIN Append(s, c), NEW j \in DOMAIN Append(s, c), i < j
                     PROVE  Better(Append(s, c)[i], Append(s, c)[j])
          BY DEF Ordered
        <4>1. i \in DOMAIN s
          BY <3>3
        <4>2. CASE j \in DOMAIN s
          BY <2>3, <3>3, <4>1, <4>2 DEF Ordered
        <4>3. CASE j \notin DOMAIN s
          BY <3>2, <3>3, <4>1, <4>3
        <4> QED BY <4>2, <4>3
      <3>5. Set(Append(s, c)) = Set(s) \cup {c}
        BY <3>3
      <3> QED BY <2>3, <2>4, <2>5, <2>7, <3>1, <3>4, <3>5 DEF c
    <2> QED BY <2>6, <2>7
  <1> HIDE DEF T
  <1>6. Nat \subseteq T
    BY <1>4, <1>5, SetInduction
  <1>7. L \in T
    BY <1>2, <1>6
  <1>8. Ordered(kept[L]) /\ Set(kept[L]) = Those(L)
    BY <1>2, <1>7 DEF T
  <1>9. kept[L] \in Seq(S)
    BY <1>1, <1>2
  <1> QED BY <1>1, <1>2, <1>8, <1>9

(* The ranking is the corpus in order, without what a better candidate says. *)
LEMMA RankedIs ==
  ASSUME NEW S, Rankable(S)
  PROVE  /\ Ranked(S) \in Seq(Candidate) /\ Ordered(Ranked(S))
         /\ {Ranked(S)[i] : i \in DOMAIN Ranked(S)} =
                {c \in S : ~\E o \in S : Better(o, c) /\ Says(o, c)}
  <1> DEFINE order == InOrder(S)
             Those == {order[k] : k \in {k \in DOMAIN order : Fresh(order, k)}}
  <1>1. order \in Seq(S) /\ Ordered(order) /\ {order[i] : i \in DOMAIN order} = S
    BY InOrderIsOrder
  <1>2. /\ Ranked(S) \in Seq(S) /\ Ordered(Ranked(S))
        /\ {Ranked(S)[i] : i \in DOMAIN Ranked(S)} = Those
    <2> HIDE DEF order
    <2>1. /\ Kept(order) \in Seq(S) /\ Ordered(Kept(order))
          /\ {Kept(order)[i] : i \in DOMAIN Kept(order)} = Those
      BY <1>1, KeptIs
    <2> QED BY <2>1 DEF Ranked, order
  <1>3. S \subseteq Candidate /\ \A a, b \in S : Covers(a, b) <=> Says(a, b)
    BY CoversIs DEF Rankable
  <1>4. Ranked(S) \in Seq(Candidate)
    BY <1>2, <1>3
  <1> HIDE DEF order
  <1>5. ASSUME NEW k \in DOMAIN order
        PROVE  Fresh(order, k) <=> ~\E o \in S : Better(o, order[k]) /\ Says(o, order[k])
    <2>1. order[k] \in S /\ k \in 1 .. Len(order) /\ DOMAIN order = 1 .. Len(order)
      BY <1>1
    <2>2. ASSUME NEW m \in 1 .. k - 1, Covers(order[m], order[k])
          PROVE  order[m] \in S /\ Better(order[m], order[k]) /\ Says(order[m], order[k])
      <3>1. m \in DOMAIN order /\ m < k /\ order[m] \in S
        BY <1>1, <2>1
      <3> QED BY <1>1, <1>3, <2>1, <2>2, <3>1 DEF Ordered
    <2>3. ASSUME NEW o \in S, Better(o, order[k]), Says(o, order[k]) PROVE ~Fresh(order, k)
      <3>1. PICK m \in DOMAIN order : o = order[m]
        BY <1>1
      <3>2. m \in 1 .. Len(order)
        BY <2>1, <3>1
      <3>3. ~(k <= m)
        <4>1. ~Better(order[k], order[k])
          BY <1>3, <2>1, BetterIsOrder
        <4>2. k # m
          BY <2>3, <3>1, <4>1
        <4>3. ~(k < m)
          <5> SUFFICES ASSUME k < m PROVE FALSE
            OBVIOUS
          <5>1. Better(order[k], order[m])
            BY <1>1 DEF Ordered
          <5>2. Better(order[k], order[k])
            BY <1>3, <2>1, <2>3, <3>1, <5>1, BetterIsOrder
          <5> QED BY <4>1, <5>2
        <4> QED BY <2>1, <3>2, <4>2, <4>3
      <3>4. m \in 1 .. k - 1
        BY <2>1, <3>2, <3>3
      <3> QED BY <1>3, <2>1, <2>3, <3>1, <3>4 DEF Fresh
    <2> QED BY <2>2, <2>3 DEF Fresh
  <1>6. Those = {c \in S : ~\E o \in S : Better(o, c) /\ Says(o, c)}
    BY <1>1, <1>5
  <1> QED BY <1>2, <1>4, <1>6

-----------------------------------------------------------------------------
(* The budget.  The inputs, and what the variables are made of; the limit is *)
(* left open, for a client gives it back as it was told.                     *)
BudgetTypes ==
    /\ corpus \in Corpora /\ ranked = Ranked(corpus)
    /\ phase \in {"idle", "fit", "spare", "answered", "complete"}
    /\ request \in [tool: {"pack", "search"}, limit: {request.limit}, size: Nat,
                    detail: Levels, offset: 0 .. Len(ranked)]
    /\ rows \in Seq(Row)
    /\ probe \in [row: Nat \ {0}, low: Nat, high: Nat]

(* What the client has is the head of the ranking, up to the page at work.   *)
GotInv ==
    /\ Len(got) \in 0 .. Len(ranked) /\ got = [i \in 1 .. Len(got) |-> ranked[i]]
    /\ phase \in {"fit", "spare", "answered"} => request.offset = Len(got)
    /\ phase = "complete" /\ request.tool = "search" => Len(got) = Len(ranked)

(* The page as it is rendered against the page asked for.                    *)
RowsInv ==
    phase # "idle" =>
        /\ Len(rows) <= Len(FullPage)
        /\ \A i \in DOMAIN rows :
              rows[i].candidate = FullPage[i].candidate /\ rows[i].level <= request.detail
        /\ \A i, j \in DOMAIN rows :
              i < j /\ rows[i].level < request.detail => rows[j].level = Overview
        /\ Len(rows) < Len(FullPage) => \A i \in DOMAIN rows : rows[i].level = Overview
        /\ Bare # FullPage => ~Within(Undone)

(* The answer fits, and so does every number of lines the search has taken   *)
(* for its lower end.                                                        *)
FitInv ==
    /\ phase = "fit" => probe = NoProbe /\ \A i \in DOMAIN rows : rows[i].keep = 0
    /\ phase \in {"spare", "answered", "complete"} =>
          (over <=> ~Within(rows)) /\ (over \/ needed # 0 => rows = <<>>)
    /\ phase = "spare" /\ probe.high # 0 =>
          /\ probe.row \in DOMAIN rows /\ probe.low <= probe.high
          /\ Within(Headed(probe.row, probe.low))

BudgetInv == BudgetTypes /\ GotInv /\ RowsInv /\ FitInv

LEMMA RankedOfCorpus ==
  ASSUME BudgetTypes
  PROVE  /\ ranked \in Seq(Candidate) /\ Ordered(ranked)
         /\ {ranked[i] : i \in DOMAIN ranked} = Essential
  <1>1. Rankable(corpus) /\ ranked = Ranked(corpus)
    BY BudgetAssumption DEF BudgetTypes, Rankable
  <1> QED BY <1>1, RankedIs DEF Essential

LEMMA GreatestIn ==
  ASSUME NEW n \in Nat, NEW S \in SUBSET (1 .. n), S # {}
  PROVE  \E i \in S : \A j \in S : j <= i
  <1> DEFINE T == {m \in Nat : \E i \in S : m = n - i}
  <1>1. T # {} /\ T \in SUBSET Nat
    <2>1. PICK i \in S : TRUE
      OBVIOUS
    <2>2. n - i \in T
      BY <2>1
    <2> QED BY <2>2
  <1>2. PICK m \in T : \A k \in T : m <= k
    <2> HIDE DEF T
    <2> QED BY <1>1, LeastIn
  <1>3. PICK i \in S : m = n - i
    BY <1>2
  <1>4. \A j \in S : j <= i
    <2>1. ASSUME NEW j \in S PROVE j <= i
      <3>1. n - j \in T
        OBVIOUS
      <3>2. m <= n - j /\ i \in Int /\ j \in Int
        BY <1>2, <3>1
      <3> QED BY <1>3, <3>2
    <2> QED BY <2>1
  <1> QED BY <1>4

LEMMA PageIs ==
  ASSUME ranked \in Seq(Candidate), NEW o \in 0 .. Len(ranked), NEW n \in Nat, NEW v \in Levels
  PROVE  /\ Page(o, n, v) \in Seq(Row)
         /\ Len(Page(o, n, v)) = IF Len(ranked) - o < n THEN Len(ranked) - o ELSE n
         /\ \A i \in 1 .. Len(Page(o, n, v)) :
               /\ o + i \in 1 .. Len(ranked)
               /\ Page(o, n, v)[i] = [candidate |-> ranked[o + i], level |-> v, keep |-> 0]
  <1> DEFINE N == IF Len(ranked) - o < n THEN Len(ranked) - o ELSE n
  <1>1. N \in Nat /\ \A i \in 1 .. N : o + i \in 1 .. Len(ranked) /\ ranked[o + i] \in Candidate
    OBVIOUS
  <1>2. Page(o, n, v) = [i \in 1 .. N |-> [candidate |-> ranked[o + i], level |-> v, keep |-> 0]]
    BY DEF Page
  <1> HIDE DEF N
  <1>3. \A i \in 1 .. N : [candidate |-> ranked[o + i], level |-> v, keep |-> 0] \in Row
    BY <1>1 DEF Row
  <1>4. Page(o, n, v) \in [1 .. N -> Row]
    BY <1>2, <1>3
  <1>5. Page(o, n, v) \in Seq(Row) /\ Len(Page(o, n, v)) = N
    <2> DEFINE P == Page(o, n, v)
    <2>1. P \in [1 .. N -> Row]
      BY <1>4
    <2> HIDE DEF P
    <2>2. P \in Seq(Row) /\ Len(P) = N
      BY <1>1, <2>1
    <2> QED BY <2>2 DEF P
  <1> QED BY <1>1, <1>2, <1>5 DEF N

LEMMA RowParts ==
  ASSUME NEW r \in Row
  PROVE  /\ r = [candidate |-> r.candidate, level |-> r.level, keep |-> r.keep]
         /\ r.level \in 0 .. 2 /\ r.keep \in Nat /\ r.candidate \in Candidate
  BY DEF Row, Levels, Overview, Summary, Detailed

LEMMA RowKept ==
  ASSUME NEW r \in Row, NEW k \in Nat
  PROVE  /\ [r EXCEPT !.keep = k] \in Row
         /\ [r EXCEPT !.keep = k] = [candidate |-> r.candidate, level |-> r.level, keep |-> k]
  BY DEF Row

LEMMA RowLevelled ==
  ASSUME NEW r \in Row, NEW v \in Levels
  PROVE  /\ [r EXCEPT !.level = v] \in Row
         /\ [r EXCEPT !.level = v] = [candidate |-> r.candidate, level |-> v, keep |-> r.keep]
  BY DEF Row

(* What the steps leave alone. *)
LEMMA SameRequest ==
  ASSUME UNCHANGED <<ranked, request>>
  PROVE  /\ FullPage' = FullPage
         /\ \A rs : (Within(rs)' <=> Within(rs)) /\ Fits(rs)' = Fits(rs)
         /\ \A rs : Within(rs) <=> Fits(rs)
         /\ \A o, n, v : Page(o, n, v)' = Page(o, n, v)
  BY DEF FullPage, Within, Fits, Cost, Left, Page

LEMMA SameRows ==
  ASSUME UNCHANGED <<ranked, request, rows>>
  PROVE  Bare' = Bare /\ Undone' = Undone /\ \A i, k : Headed(i, k)' = Headed(i, k)
  BY SameRequest DEF Bare, Undone, Lowered, Headed

LEMMA FullPageIs ==
  ASSUME BudgetTypes
  PROVE  /\ FullPage \in Seq(Row) /\ Len(FullPage) \in Nat
         /\ Len(FullPage) <= Len(ranked) - request.offset
         /\ \A i \in 1 .. Len(FullPage) :
               /\ request.offset + i \in 1 .. Len(ranked)
               /\ FullPage[i] = [candidate |-> ranked[request.offset + i],
                                 level |-> request.detail, keep |-> 0]
               /\ FullPage[i].candidate = ranked[request.offset + i]
  <1>1. /\ ranked \in Seq(Candidate) /\ request.offset \in 0 .. Len(ranked)
        /\ request.size \in Nat /\ request.detail \in Levels
    BY RankedOfCorpus DEF BudgetTypes
  <1> DEFINE o == request.offset
  <1>2. /\ FullPage \in Seq(Row)
        /\ Len(FullPage) = IF Len(ranked) - o < request.size THEN Len(ranked) - o ELSE request.size
        /\ \A i \in 1 .. Len(FullPage) :
              /\ o + i \in 1 .. Len(ranked)
              /\ FullPage[i] = [candidate |-> ranked[o + i], level |-> request.detail, keep |-> 0]
    BY <1>1, PageIs DEF FullPage
  <1>3. Len(ranked) \in Nat
    BY <1>1
  <1>4. Len(FullPage) \in Nat /\ Len(FullPage) <= Len(ranked) - o
    BY <1>1, <1>2, <1>3
  <1>5. \A i \in 1 .. Len(FullPage) : FullPage[i].candidate = ranked[o + i]
    <2>1. ASSUME NEW i \in 1 .. Len(FullPage) PROVE FullPage[i].candidate = ranked[o + i]
      <3>1. FullPage[i] = [candidate |-> ranked[o + i], level |-> request.detail, keep |-> 0]
        BY <1>2
      <3> QED BY <3>1
    <2> QED BY <2>1
  <1> QED BY <1>2, <1>4, <1>5

LEMMA BudgetInit == Init => BudgetInv
  <1> SUFFICES ASSUME Init PROVE BudgetInv
    OBVIOUS
  <1>1. PICK tool \in {"pack", "search"} :
          request = [tool |-> tool, limit |-> 0, size |-> 1, detail |-> Detailed, offset |-> 0]
    BY DEF Init
  <1>2. ranked \in Seq(Candidate)
    BY BudgetAssumption, RankedIs DEF Init, Rankable
  <1>3. BudgetTypes
    BY <1>1, <1>2 DEF Init, BudgetTypes, NoProbe, Levels, Detailed
  <1>4. GotInv
    BY <1>2 DEF Init, GotInv
  <1> QED BY <1>3, <1>4 DEF BudgetInv, RowsInv, FitInv, Init

LEMMA AskKeeps ==
  ASSUME BudgetInv, NEW max \in Limits \cup {told}, NEW size \in Sizes, NEW detail \in Levels,
         Ask(max, size, detail)
  PROVE  BudgetInv'
  <1>1. BudgetTypes /\ GotInv
    BY DEF BudgetInv
  <1>2. ranked \in Seq(Candidate) /\ Len(ranked) \in Nat
    BY <1>1, RankedOfCorpus
  <1>3. /\ request'.tool = request.tool /\ request'.limit = max /\ request'.detail = detail
        /\ request'.offset = Len(got)
        /\ request'.size = IF request.tool = "pack" THEN Len(ranked) + 1 ELSE size
        /\ request' \in [tool: {"pack", "search"}, limit: {request'.limit}, size: Nat,
                         detail: Levels, offset: 0 .. Len(ranked)]
    <2>1. size \in Nat /\ Len(ranked) + 1 \in Nat /\ Len(got) \in 0 .. Len(ranked)
      BY <1>1, <1>2, BudgetAssumption DEF GotInv
    <2> QED BY <1>1, <2>1 DEF Ask, BudgetTypes
  <1>4. rows' = FullPage' /\ FullPage' = Page(Len(got), request'.size, detail)
    BY <1>3 DEF Ask, FullPage, Page
  <1>5. BudgetTypes'
    <2>1. rows' \in Seq(Row)
      <3>1. Len(got) \in 0 .. Len(ranked) /\ request'.size \in Nat
        BY <1>1, <1>3 DEF GotInv
      <3>2. PICK n \in Nat : n = request'.size
        BY <3>1
      <3>3. Page(Len(got), n, detail) \in Seq(Row)
        BY <1>2, <3>1, PageIs
      <3> QED BY <1>4, <3>2, <3>3
    <2> QED BY <1>1, <1>3, <2>1 DEF Ask, BudgetTypes, NoProbe
  <1>6. GotInv'
    BY <1>1, <1>3 DEF Ask, GotInv
  <1>7. \A i \in DOMAIN rows' : rows'[i].level = detail /\ rows'[i].keep = 0
    <2>1. Len(got) \in 0 .. Len(ranked) /\ request'.size \in Nat
      BY <1>1, <1>3 DEF GotInv
    <2>2. rows' \in Seq(Row) /\ rows' = Page(Len(got), request'.size, detail)
      BY <1>4, <1>5 DEF BudgetTypes
    <2>3. PICK n \in Nat : n = request'.size
      BY <2>1
    <2>4. \A i \in 1 .. Len(rows') :
             rows'[i] = [candidate |-> ranked[Len(got) + i], level |-> detail, keep |-> 0]
      BY <1>2, <2>1, <2>2, <2>3, PageIs
    <2>5. DOMAIN rows' = 1 .. Len(rows')
      BY <2>2
    <2> QED BY <2>4, <2>5
  <1>8. Bare' = FullPage'
    <2>1. rows' \in Seq(Row)
      BY <1>5 DEF BudgetTypes
    <2>2. \A i \in DOMAIN rows' : [rows'[i] EXCEPT !.keep = 0] = rows'[i]
      <3>1. ASSUME NEW i \in DOMAIN rows' PROVE [rows'[i] EXCEPT !.keep = 0] = rows'[i]
        <4>1. rows'[i] \in Row /\ rows'[i].keep = 0
          BY <1>7, <2>1
        <4> QED BY <4>1, RowParts, RowKept
      <3> QED BY <3>1
    <2>3. Bare' = [i \in DOMAIN rows' |-> rows'[i]]
      BY <2>2 DEF Bare
    <2> QED BY <1>4, <2>1, <2>3
  <1>9. RowsInv'
    <2>1. detail \in 0 .. 2 /\ request'.detail = detail
      BY <1>3 DEF Levels, Overview, Summary, Detailed
    <2>2. Len(rows') \in Nat
      BY <1>5 DEF BudgetTypes
    <2> QED BY <1>4, <1>7, <1>8, <2>1, <2>2 DEF RowsInv
  <1>10. FitInv'
    BY <1>7 DEF Ask, FitInv
  <1> QED BY <1>5, <1>6, <1>9, <1>10 DEF BudgetInv

LEMMA LowerKeeps ==
  ASSUME BudgetInv, Lower
  PROVE  BudgetInv'
  <1>1. BudgetTypes /\ GotInv /\ RowsInv /\ FitInv /\ phase = "fit" /\ phase' = "fit"
    BY DEF BudgetInv, Lower
  <1>2. UNCHANGED <<ranked, request>>
    BY DEF Lower
  <1> DEFINE l == LastOf(Reducible)
  <1>3. /\ rows \in Seq(Row) /\ DOMAIN rows = 1 .. Len(rows) /\ Len(rows) \in Nat
        /\ request.detail \in 0 .. 2
    BY <1>1 DEF BudgetTypes, Levels, Overview, Summary, Detailed
  <1>4. l \in DOMAIN rows /\ rows[l].level > 0 /\ \A j \in DOMAIN rows : rows[j].level > 0 => j <= l
    <2>1. Reducible \subseteq 1 .. Len(rows) /\ Reducible # {}
      BY <1>3 DEF Lower, Reducible
    <2>2. \E i \in Reducible : \A j \in Reducible : j <= i
      BY <1>3, <2>1, GreatestIn
    <2>3. l \in Reducible /\ \A j \in Reducible : j <= l
      BY <2>2 DEF LastOf
    <2> QED BY <2>3 DEF Reducible, Overview
  <1>5. rows' = [rows EXCEPT ![l].level = @ - 1]
    BY DEF Lower
  <1> HIDE DEF l
  <1>6. \A i \in DOMAIN rows :
           /\ rows[i] = [candidate |-> rows[i].candidate, level |-> rows[i].level, keep |-> 0]
           /\ rows[i].level \in 0 .. request.detail
    <2>1. ASSUME NEW i \in DOMAIN rows
          PROVE  /\ rows[i] = [candidate |-> rows[i].candidate, level |-> rows[i].level, keep |-> 0]
                 /\ rows[i].level \in 0 .. request.detail
      <3>1. rows[i] \in Row /\ rows[i].keep = 0 /\ rows[i].level <= request.detail
        BY <1>1, <1>3 DEF FitInv, RowsInv
      <3>2. rows[i].level \in 0 .. 2
        BY <3>1, RowParts
      <3>3. rows[i] = [candidate |-> rows[i].candidate, level |-> rows[i].level, keep |-> 0]
        BY <3>1, RowParts
      <3> QED BY <1>3, <3>1, <3>2, <3>3
    <2> QED BY <2>1
  <1>7. rows[l].level - 1 \in Levels
    BY <1>3, <1>4, <1>6 DEF Levels, Overview, Summary, Detailed
  <1>8. /\ rows' \in Seq(Row) /\ DOMAIN rows' = DOMAIN rows /\ Len(rows') = Len(rows)
        /\ \A i \in DOMAIN rows : i # l => rows'[i] = rows[i]
        /\ rows'[l] = [candidate |-> rows[l].candidate, level |-> rows[l].level - 1, keep |-> 0]
    <2> DEFINE r == [rows[l] EXCEPT !.level = rows[l].level - 1]
    <2>1. rows[l] \in Row /\ rows[l].keep = 0
      BY <1>1, <1>3, <1>4 DEF FitInv
    <2>2. r \in Row /\ r = [candidate |-> rows[l].candidate, level |-> rows[l].level - 1, keep |-> 0]
      BY <1>7, <2>1, RowLevelled
    <2>3. rows' = [rows EXCEPT ![l] = r]
      BY <1>5
    <2> HIDE DEF r
    <2> QED BY <1>3, <1>4, <2>2, <2>3
  <1>9. BudgetTypes'
    BY <1>1, <1>8 DEF BudgetTypes, Lower
  <1>10. GotInv'
    BY <1>1 DEF GotInv, Lower
  <1>11. FitInv'
    BY <1>1, <1>8 DEF FitInv, Lower
  <1>12. Len(rows) = Len(FullPage) /\ FullPage' = FullPage
    <2>1. Len(rows) <= Len(FullPage) /\ ~(Len(rows) < Len(FullPage))
      BY <1>1, <1>4 DEF RowsInv, Overview
    <2> QED BY <1>1, <1>2, <1>3, <2>1, FullPageIs, SameRequest
  <1>13. \A i \in DOMAIN rows : i < l => rows[i].level = request.detail
    BY <1>1, <1>3, <1>4, <1>6 DEF RowsInv, Overview
  <1>14. \A i \in DOMAIN rows : i > l => rows[i].level = 0
    BY <1>3, <1>4, <1>6
  <1>15. Undone' = rows
    <2>1. l \in Lowered' /\ \A j \in Lowered' : l <= j
      <3>1. Lowered' = {i \in DOMAIN rows : rows'[i].level < request.detail}
        BY <1>2, <1>8 DEF Lowered
      <3>2. rows'[l].level = rows[l].level - 1 /\ rows[l].level \in 0 .. request.detail
        BY <1>4, <1>6, <1>8
      <3>3. \A i \in DOMAIN rows : i < l => ~(rows'[i].level < request.detail)
        BY <1>3, <1>4, <1>8, <1>13
      <3> QED BY <1>3, <1>4, <3>1, <3>2, <3>3
    <2>2. FirstOf(Lowered)' = l
      <3>1. \A i \in Lowered' : (\A j \in Lowered' : i <= j) => i = l
        BY <1>3, <1>4, <1>8, <2>1 DEF Lowered
      <3> DEFINE S == Lowered'
      <3>2. l \in S /\ (\A j \in S : l <= j) /\ \A i \in S : (\A j \in S : i <= j) => i = l
        BY <2>1, <3>1
      <3> HIDE DEF S
      <3>3. (CHOOSE i \in S : \A j \in S : i <= j) = l
        BY <3>2
      <3> QED BY <3>3 DEF FirstOf, S
    <2>3. Bare' = rows'
      <3>1. \A i \in DOMAIN rows' : [rows'[i] EXCEPT !.keep = 0] = rows'[i]
        <4>1. ASSUME NEW i \in DOMAIN rows' PROVE [rows'[i] EXCEPT !.keep = 0] = rows'[i]
          <5>1. rows'[i] \in Row /\ rows'[i].keep = 0
            BY <1>8, <1>11, <1>1 DEF FitInv
          <5> QED BY <5>1, RowParts, RowKept
        <4> QED BY <4>1
      <3>2. Bare' = [i \in DOMAIN rows' |-> rows'[i]]
        BY <3>1 DEF Bare
      <3> QED BY <1>8, <3>2
    <2>4. Undone' = [rows' EXCEPT ![l].level = @ + 1]
      <3>1. ~(Len(rows') < Len(FullPage'))
        BY <1>3, <1>8, <1>12
      <3> QED BY <2>2, <2>3, <3>1 DEF Undone
    <2>5. [rows'[l] EXCEPT !.level = rows'[l].level + 1] = rows[l]
      <3>1. rows'[l].level + 1 = rows[l].level
        BY <1>4, <1>6, <1>8
      <3>2. rows'[l] = [candidate |-> rows[l].candidate, level |-> rows[l].level - 1, keep |-> 0]
        BY <1>8
      <3>3. [rows'[l] EXCEPT !.level = rows[l].level] =
               [candidate |-> rows[l].candidate, level |-> rows[l].level, keep |-> 0]
        BY <3>2
      <3> QED BY <1>4, <1>6, <3>1, <3>3
    <2>6. Undone' = [rows' EXCEPT ![l] = rows[l]]
      BY <2>4, <2>5
    <2> QED BY <1>3, <1>4, <1>8, <2>6
  <1>16. ~Within(Undone)'
    <2>1. ~Fits(rows)
      BY DEF Lower
    <2> QED BY <1>2, <1>15, <2>1, SameRequest
  <1>17. RowsInv'
    <2>1. \A i \in DOMAIN rows' :
             rows'[i].candidate = FullPage'[i].candidate /\ rows'[i].level <= request'.detail
      <3>1. ASSUME NEW i \in DOMAIN rows'
            PROVE  rows'[i].candidate = FullPage[i].candidate /\ rows'[i].level <= request.detail
        <4>1. rows[i].candidate = FullPage[i].candidate
          BY <1>1, <1>8 DEF RowsInv
        <4>2. rows[i].level \in 0 .. request.detail
          BY <1>6, <1>8
        <4>3. CASE i = l
          BY <1>3, <1>8, <4>1, <4>2, <4>3
        <4>4. CASE i # l
          BY <1>3, <1>8, <4>1, <4>2, <4>4
        <4> QED BY <4>3, <4>4
      <3> QED BY <1>2, <1>12, <3>1
    <2>2. \A i, j \in DOMAIN rows' :
             i < j /\ rows'[i].level < request'.detail => rows'[j].level = Overview
      <3> SUFFICES ASSUME NEW i \in DOMAIN rows, NEW j \in DOMAIN rows, i < j,
                          rows'[i].level < request.detail
                   PROVE  rows'[j].level = 0
        BY <1>2, <1>8 DEF Overview
      <3>1. ~(i < l)
        BY <1>3, <1>4, <1>8, <1>13
      <3>2. j > l
        BY <1>3, <1>4, <3>1
      <3> QED BY <1>3, <1>4, <1>8, <1>14, <3>2
    <2>3. Len(rows') <= Len(FullPage') /\ ~(Len(rows') < Len(FullPage'))
      BY <1>3, <1>8, <1>12
    <2> QED BY <1>16, <2>1, <2>2, <2>3 DEF RowsInv
  <1> QED BY <1>9, <1>10, <1>11, <1>17 DEF BudgetInv

LEMMA DropKeeps ==
  ASSUME BudgetInv, Drop
  PROVE  BudgetInv'
  <1>1. BudgetTypes /\ GotInv /\ RowsInv /\ FitInv /\ phase = "fit" /\ phase' = "fit"
    BY DEF BudgetInv, Drop
  <1>2. UNCHANGED <<ranked, request>>
    BY DEF Drop
  <1>3. /\ rows \in Seq(Row) /\ DOMAIN rows = 1 .. Len(rows) /\ Len(rows) \in Nat \ {0}
        /\ request.detail \in Levels /\ request.detail \in 0 .. 2
    BY <1>1 DEF BudgetTypes, Drop, Levels, Overview, Summary, Detailed
  <1>4. \A i \in DOMAIN rows :
           rows[i] = [candidate |-> FullPage[i].candidate, level |-> 0, keep |-> 0]
    <2>1. ASSUME NEW i \in DOMAIN rows
          PROVE  rows[i] = [candidate |-> FullPage[i].candidate, level |-> 0, keep |-> 0]
      <3>1. rows[i] \in Row /\ rows[i].keep = 0 /\ ~(rows[i].level > 0)
        BY <1>1, <1>3 DEF FitInv, Drop, Reducible, Overview
      <3>2. rows[i].level = 0
        BY <3>1, RowParts
      <3>3. rows[i].candidate = FullPage[i].candidate
        BY <1>1 DEF RowsInv
      <3> QED BY <3>1, <3>2, <3>3, RowParts
    <2> QED BY <2>1
  <1>5. /\ rows' \in Seq(Row) /\ DOMAIN rows' = 1 .. Len(rows) - 1 /\ Len(rows') = Len(rows) - 1
        /\ \A i \in DOMAIN rows' : i \in DOMAIN rows /\ rows'[i] = rows[i]
    BY <1>3 DEF Drop
  <1>6. Len(rows) <= Len(FullPage) /\ FullPage' = FullPage /\ Len(FullPage) \in Nat
    BY <1>1, <1>2, FullPageIs, SameRequest DEF RowsInv
  <1>7. Page(request.offset, Len(rows), Overview) = rows
    <2> DEFINE P == Page(request.offset, Len(rows), Overview)
               o == request.offset
    <2>1. ranked \in Seq(Candidate) /\ o \in 0 .. Len(ranked) /\ 0 \in Levels /\ Overview = 0
      BY <1>1, RankedOfCorpus DEF BudgetTypes, Levels, Overview
    <2>2. /\ P \in Seq(Row)
          /\ Len(P) = IF Len(ranked) - o < Len(rows) THEN Len(ranked) - o ELSE Len(rows)
          /\ \A i \in 1 .. Len(P) :
                P[i] = [candidate |-> ranked[o + i], level |-> Overview, keep |-> 0]
      <3>1. PICK from \in 0 .. Len(ranked), n \in Nat, v \in Levels :
                from = o /\ n = Len(rows) /\ v = Overview
        BY <1>3, <2>1
      <3>2. /\ Page(from, n, v) \in Seq(Row)
            /\ Len(Page(from, n, v)) =
                  IF Len(ranked) - from < n THEN Len(ranked) - from ELSE n
            /\ \A i \in 1 .. Len(Page(from, n, v)) :
                  Page(from, n, v)[i] = [candidate |-> ranked[from + i], level |-> v, keep |-> 0]
        BY <2>1, PageIs
      <3> QED BY <3>1, <3>2
    <2>3. Len(FullPage) <= Len(ranked) - o
      BY <1>1, FullPageIs
    <2>4. \A i \in 1 .. Len(FullPage) : FullPage[i].candidate = ranked[o + i]
      BY <1>1, FullPageIs
    <2>5. Len(ranked) \in Nat /\ o \in Nat
      BY <2>1
    <2> HIDE DEF P, o
    <2>6. Len(P) = Len(rows)
      BY <1>3, <1>6, <2>2, <2>3, <2>5
    <2>7. \A i \in 1 .. Len(rows) : P[i] = rows[i]
      <3>1. \A i \in 1 .. Len(rows) : i \in 1 .. Len(FullPage)
        BY <1>3, <1>6
      <3> QED BY <1>3, <1>4, <2>1, <2>2, <2>4, <2>6, <3>1
    <2>8. P = rows
      BY <1>3, <2>2, <2>6, <2>7
    <2> QED BY <2>8 DEF P
  <1>8. Undone' = rows
    <2>1. Len(rows') < Len(FullPage') /\ Len(rows') + 1 = Len(rows)
      BY <1>3, <1>5, <1>6
    <2>2. Undone' = Page(request.offset, Len(rows), Overview)
      BY <1>2, <2>1, SameRequest DEF Undone, Page
    <2> QED BY <1>7, <2>2
  <1>9. ~Within(Undone)'
    <2>1. ~Fits(rows)
      BY DEF Drop
    <2> QED BY <1>2, <1>8, <2>1, SameRequest
  <1>10. RowsInv'
    <2>1. \A i \in DOMAIN rows' : rows'[i].level = 0 /\ rows'[i].candidate = FullPage'[i].candidate
      BY <1>4, <1>5, <1>6
    <2>2. Len(rows') <= Len(FullPage') /\ request'.detail \in 0 .. 2
      BY <1>2, <1>3, <1>5, <1>6
    <2> QED BY <1>9, <2>1, <2>2 DEF RowsInv, Overview
  <1>11. FitInv'
    BY <1>1, <1>4, <1>5 DEF FitInv, Drop
  <1>12. BudgetTypes' /\ GotInv'
    BY <1>1, <1>5 DEF BudgetTypes, GotInv, Drop
  <1> QED BY <1>10, <1>11, <1>12 DEF BudgetInv

(* The answer is final: no step of the loop is left. *)
LEMMA SettleKeeps ==
  ASSUME BudgetInv, Settle
  PROVE  BudgetInv'
  <1>1. BudgetTypes /\ GotInv /\ RowsInv /\ FitInv /\ phase = "fit"
        /\ phase' \in {"spare", "answered"}
    BY DEF BudgetInv, Settle
  <1>2. UNCHANGED <<corpus, ranked, request, rows, got, probe>>
    BY DEF Settle
  <1>3. (over' <=> ~Within(rows)) /\ (over' \/ needed' # 0 => rows = <<>>)
    BY <1>2, SameRequest DEF Settle, NeededTokens
  <1>4. BudgetTypes' /\ GotInv'
    BY <1>1, <1>2 DEF BudgetTypes, GotInv
  <1>5. RowsInv'
    BY <1>1, <1>2, SameRequest, SameRows DEF RowsInv
  <1>6. FitInv'
    BY <1>1, <1>2, <1>3, SameRequest DEF FitInv, NoProbe
  <1> QED BY <1>4, <1>5, <1>6 DEF BudgetInv

LEMMA SearchStepKeeps ==
  ASSUME BudgetInv, Begin \/ Halve
  PROVE  BudgetInv'
  <1>1. BudgetTypes /\ GotInv /\ RowsInv /\ FitInv /\ phase = "spare" /\ phase' = "spare"
        /\ probe.row \in DOMAIN rows
    BY DEF BudgetInv, Begin, Halve, Spare
  <1>2. UNCHANGED <<corpus, ranked, request, rows, over, needed, got>>
    BY DEF Begin, Halve
  <1>3. GotInv' /\ RowsInv'
    BY <1>1, <1>2, SameRequest, SameRows DEF GotInv, RowsInv
  <1>4. /\ probe \in [row: Nat \ {0}, low: Nat, high: Nat]
        /\ rows[probe.row].candidate.lead \in Int /\ rows[probe.row].candidate.lines \in Nat
    <2>1. probe \in [row: Nat \ {0}, low: Nat, high: Nat] /\ rows[probe.row] \in Row
      BY <1>1 DEF BudgetTypes
    <2>2. rows[probe.row].candidate \in Candidate
      BY <2>1, RowParts
    <2> QED BY <2>1, <2>2 DEF Candidate
  <1>5. /\ probe' \in [row: Nat \ {0}, low: Nat, high: Nat]
        /\ probe'.high # 0 => /\ probe'.row = probe.row /\ probe'.low <= probe'.high
                              /\ Fits(Headed(probe'.row, probe'.low))
    <2>1. CASE Begin /\ Spendable(probe.row)
      <3> DEFINE c == rows[probe.row].candidate
      <3>1. c.lead >= 0 /\ c.lines > c.lead + 1 /\ Fits(Headed(probe.row, c.lead + 2))
        BY <2>1 DEF Spendable
      <3>2. probe' = [probe EXCEPT !.low = c.lead + 2, !.high = c.lines]
        BY <2>1 DEF Begin
      <3>3. c.lead \in Int /\ c.lines \in Nat
        BY <1>4
      <3> HIDE DEF c
      <3>4. c.lead + 2 \in Nat /\ c.lead + 2 <= c.lines
        BY <3>1, <3>3
      <3>5. /\ probe' \in [row: Nat \ {0}, low: Nat, high: Nat]
            /\ probe'.row = probe.row /\ probe'.low = c.lead + 2 /\ probe'.high = c.lines
        BY <1>4, <3>2, <3>3, <3>4
      <3> QED BY <3>1, <3>4, <3>5
    <2>2. CASE Begin /\ ~Spendable(probe.row)
      BY <1>4, <2>2 DEF Begin, NextRow
    <2>3. CASE Halve
      <3> DEFINE mid == (probe.low + probe.high + 1) \div 2
      <3>1. /\ probe.low \in Nat /\ probe.high \in Nat /\ probe.low < probe.high
            /\ probe' = IF Fits(Headed(probe.row, mid))
                        THEN [probe EXCEPT !.low = mid] ELSE [probe EXCEPT !.high = mid - 1]
        BY <1>4, <2>3 DEF Halve
      <3>2. mid \in Nat /\ probe.low < mid /\ mid <= probe.high /\ mid - 1 \in Nat
            /\ probe.low <= mid - 1
        BY <3>1
      <3> HIDE DEF mid
      <3>3. probe.high # 0 => Fits(Headed(probe.row, probe.low))
        BY <1>1, SameRequest, <1>2 DEF FitInv
      <3> QED BY <1>4, <3>1, <3>2, <3>3
    <2> QED BY <2>1, <2>2, <2>3
  <1>6. BudgetTypes'
    BY <1>1, <1>2, <1>5 DEF BudgetTypes
  <1>7. FitInv'
    <2>1. (over' <=> ~Within(rows)') /\ (over' \/ needed' # 0 => rows' = <<>>)
      BY <1>1, <1>2, SameRequest DEF FitInv
    <2>2. probe'.high # 0 => Within(Headed(probe'.row, probe'.low))
      BY <1>2, <1>5, SameRequest
    <2>3. \A i, k : Within(Headed(i, k)) => Within(Headed(i, k))'
      BY <1>2, SameRequest, SameRows
    <2>4. probe'.high # 0 => Within(Headed(probe.row, probe.low))'
      BY <2>2, <2>3
    <2> QED BY <1>1, <1>2, <1>5, <2>1, <2>4 DEF FitInv
  <1> QED BY <1>3, <1>6, <1>7 DEF BudgetInv

(* A row that shows lines of its source. *)
LEMMA HeadedIs ==
  ASSUME rows \in Seq(Row), NEW i \in DOMAIN rows, NEW k \in Nat
  PROVE  /\ Headed(i, k) \in Seq(Row) /\ DOMAIN Headed(i, k) = DOMAIN rows
         /\ Len(Headed(i, k)) = Len(rows)
         /\ \A j \in DOMAIN rows : j # i => Headed(i, k)[j] = rows[j]
         /\ Headed(i, k)[i] =
               [candidate |-> rows[i].candidate, level |-> rows[i].level, keep |-> k]
  <1> DEFINE r == [rows[i] EXCEPT !.keep = k]
  <1>1. r \in Row /\ r = [candidate |-> rows[i].candidate, level |-> rows[i].level, keep |-> k]
    <2>1. rows[i] \in Row
      OBVIOUS
    <2> QED BY <2>1, RowKept
  <1>2. Headed(i, k) = [rows EXCEPT ![i] = r]
    BY DEF Headed
  <1> HIDE DEF r
  <1> QED BY <1>1, <1>2

LEMMA HeadKeeps ==
  ASSUME BudgetInv, KeepHead
  PROVE  BudgetInv'
  <1>1. BudgetTypes /\ GotInv /\ RowsInv /\ FitInv /\ phase = "spare" /\ phase' = "spare"
        /\ probe.row \in DOMAIN rows /\ probe.high # 0
    BY DEF BudgetInv, KeepHead, Spare
  <1>2. /\ UNCHANGED <<corpus, ranked, request, over, needed, got>>
        /\ rows' = Headed(probe.row, probe.low)
    BY DEF KeepHead
  <1> DEFINE p == probe.row
  <1>3. rows \in Seq(Row) /\ p \in DOMAIN rows /\ probe.low \in Nat /\ probe.row \in Nat \ {0}
    BY <1>1 DEF BudgetTypes
  <1>4. /\ rows' \in Seq(Row) /\ DOMAIN rows' = DOMAIN rows /\ Len(rows') = Len(rows)
        /\ \A j \in DOMAIN rows : j # p => rows'[j] = rows[j]
        /\ rows'[p] = [candidate |-> rows[p].candidate, level |-> rows[p].level,
                       keep |-> probe.low]
    BY <1>2, <1>3, HeadedIs
  <1>5. \A j \in DOMAIN rows :
           rows'[j].candidate = rows[j].candidate /\ rows'[j].level = rows[j].level
    BY <1>4
  <1>6. Bare' = Bare
    <2>1. ASSUME NEW j \in DOMAIN rows
          PROVE  [rows'[j] EXCEPT !.keep = 0] = [rows[j] EXCEPT !.keep = 0]
      <3>1. rows'[j] \in Row /\ rows[j] \in Row
        BY <1>3, <1>4
      <3>2. /\ [rows'[j] EXCEPT !.keep = 0] = [candidate |-> rows'[j].candidate,
                                                 level |-> rows'[j].level, keep |-> 0]
            /\ [rows[j] EXCEPT !.keep = 0] = [candidate |-> rows[j].candidate,
                                                level |-> rows[j].level, keep |-> 0]
        BY <3>1, RowKept
      <3> QED BY <1>5, <3>2
    <2> QED BY <1>4, <2>1 DEF Bare
  <1>7. Undone' = Undone /\ FullPage' = FullPage /\ \A rs : Within(rs)' <=> Within(rs)
    <2>1. Lowered' = Lowered
      BY <1>2, <1>4, <1>5 DEF Lowered
    <2> QED BY <1>2, <1>4, <1>6, <2>1, SameRequest DEF Undone
  <1>8. RowsInv'
    BY <1>1, <1>2, <1>4, <1>5, <1>6, <1>7 DEF RowsInv
  <1>9. probe' = [row |-> probe.row + 1, low |-> 0, high |-> 0]
    BY DEF KeepHead, NextRow
  <1>10. Within(rows)' /\ ~over' /\ needed' = 0
    <2>1. rows # <<>>
      BY <1>3
    <2> QED BY <1>1, <1>2, <1>7, <2>1 DEF FitInv
  <1>11. FitInv'
    BY <1>1, <1>9, <1>10 DEF FitInv
  <1>12. BudgetTypes' /\ GotInv'
    BY <1>1, <1>2, <1>3, <1>4, <1>9 DEF BudgetTypes, GotInv
  <1> QED BY <1>8, <1>11, <1>12 DEF BudgetInv

LEMMA ReceiveKeeps ==
  ASSUME BudgetInv, Receive
  PROVE  BudgetInv'
  <1>1. BudgetTypes /\ GotInv /\ RowsInv /\ FitInv /\ phase = "answered"
        /\ phase' \in {"complete", "idle"}
    BY DEF BudgetInv, Receive
  <1>2. UNCHANGED <<corpus, ranked, request, rows, over, needed, probe>>
    BY DEF Receive
  <1>3. BudgetTypes'
    BY <1>1, <1>2 DEF BudgetTypes
  <1>4. RowsInv'
    BY <1>1, <1>2, SameRequest, SameRows DEF RowsInv
  <1>5. FitInv'
    BY <1>1, <1>2, SameRequest DEF FitInv
  <1>6. GotInv'
    <2> DEFINE n == Len(got)
               m == Len(rows)
    <2>1. /\ n \in 0 .. Len(ranked) /\ got = [i \in 1 .. n |-> ranked[i]] /\ request.offset = n
          /\ ranked \in Seq(Candidate) /\ Len(ranked) \in Nat
      BY <1>1, RankedOfCorpus DEF GotInv
    <2>2. rows \in Seq(Row) /\ m \in Nat /\ DOMAIN rows = 1 .. m /\ m <= Len(FullPage)
      BY <1>1 DEF BudgetTypes, RowsInv
    <2>3. m <= Len(ranked) - n
      BY <1>1, <2>1, <2>2, FullPageIs
    <2>4. \A i \in 1 .. m : rows[i].candidate = ranked[n + i]
      <3>1. \A i \in 1 .. m : i \in 1 .. Len(FullPage)
        BY <1>1, <2>2, FullPageIs
      <3>2. \A i \in 1 .. Len(FullPage) : FullPage[i].candidate = ranked[n + i]
        BY <1>1, <2>1, FullPageIs
      <3> QED BY <1>1, <2>2, <3>1, <3>2 DEF RowsInv
    <2>5. Shown = [i \in 1 .. m |-> ranked[n + i]]
      BY <2>2, <2>4 DEF Shown
    <2>6. got' = got \o Shown
      BY DEF Receive
    <2> HIDE DEF n, m
    <2>7. got \in Seq(Candidate) /\ Len(got) = n
      BY <2>1 DEF n
    <2>8. Shown \in Seq(Candidate) /\ Len(Shown) = m
      <3>1. \A i \in 1 .. m : ranked[n + i] \in Candidate
        BY <2>1, <2>2, <2>3
      <3> QED BY <2>2, <2>5, <3>1
    <2>9. got' \in Seq(Candidate) /\ Len(got') = n + m
      <3>1. got' \in Seq(Candidate) /\ Len(got') = Len(got) + Len(Shown)
        BY <2>6, <2>7, <2>8, ConcatProperties
      <3> QED BY <2>7, <2>8, <3>1
    <2>10. \A i \in 1 .. n + m : got'[i] = ranked[i]
      <3>1. ASSUME NEW i \in 1 .. n + m PROVE got'[i] = ranked[i]
        <4>1. CASE i <= n
          <5>1. i \in 1 .. n /\ got'[i] = got[i]
            BY <2>1, <2>2, <2>6, <2>7, <2>8, <4>1
          <5> QED BY <2>1, <5>1
        <4>2. CASE i > n
          <5>1. i - n \in 1 .. m /\ got'[i] = Shown[i - n] /\ n + (i - n) = i
            BY <2>1, <2>2, <2>6, <2>7, <2>8, <4>2
          <5> QED BY <2>5, <5>1
        <4> QED BY <2>1, <2>2, <4>1, <4>2
      <3> QED BY <3>1
    <2>11. got' = [i \in 1 .. n + m |-> ranked[i]]
      BY <2>9, <2>10
    <2>12. n + m \in 0 .. Len(ranked)
      BY <2>1, <2>2, <2>3
    <2>13. ASSUME phase' = "complete", request.tool = "search" PROVE n + m = Len(ranked)
      <3>1. Left(m) = 0
        BY <1>2, <2>13 DEF Receive, m
      <3> QED BY <2>1, <2>2, <3>1 DEF Left
    <2> QED BY <1>1, <1>2, <2>9, <2>11, <2>12, <2>13 DEF GotInv
  <1> QED BY <1>3, <1>4, <1>5, <1>6 DEF BudgetInv

LEMMA BudgetStep == BudgetInv /\ [Next]_vars => BudgetInv'
  <1> SUFFICES ASSUME BudgetInv, [Next]_vars PROVE BudgetInv'
    OBVIOUS
  <1>1. ASSUME NEW max \in Limits \cup {told}, NEW size \in Sizes, NEW detail \in Levels,
               Ask(max, size, detail)
        PROVE  BudgetInv'
    BY <1>1, AskKeeps
  <1>2. CASE Render
    <2>1. BudgetTypes' /\ GotInv'
      BY <1>2 DEF BudgetInv, BudgetTypes, GotInv, Render
    <2>2. UNCHANGED <<ranked, request, rows>> /\ phase = "spare" /\ phase' = "answered"
          /\ UNCHANGED <<over, needed>>
      BY <1>2 DEF Render
    <2>3. RowsInv' /\ FitInv'
      BY <2>2, SameRequest, SameRows DEF BudgetInv, RowsInv, FitInv
    <2> QED BY <2>1, <2>3 DEF BudgetInv
  <1>3. CASE Complete \/ UNCHANGED vars
    <2>1. UNCHANGED vars
      BY <1>3 DEF Complete
    <2>2. BudgetTypes' /\ GotInv'
      BY <2>1 DEF BudgetInv, BudgetTypes, GotInv, vars
    <2>3. RowsInv'
      BY <2>1, SameRequest, SameRows DEF BudgetInv, RowsInv, vars
    <2>4. FitInv'
      BY <2>1, SameRequest, SameRows DEF BudgetInv, FitInv, vars
    <2> QED BY <2>2, <2>3, <2>4 DEF BudgetInv
  <1> QED BY <1>1, <1>2, <1>3, LowerKeeps, DropKeeps, SettleKeeps, SearchStepKeeps, HeadKeeps,
             ReceiveKeeps DEF Next

LEMMA BudgetResult == BudgetInv => PagesInOrder /\ LeastRelevantFirst
  <1> SUFFICES ASSUME BudgetInv PROVE PagesInOrder /\ LeastRelevantFirst
    OBVIOUS
  <1>1. BudgetTypes /\ GotInv /\ RowsInv /\ FitInv
    BY DEF BudgetInv
  <1>2. ranked \in Seq(Candidate) /\ Ordered(ranked) /\ {ranked[i] : i \in DOMAIN ranked} = Essential
    BY <1>1, RankedOfCorpus
  <1>3. /\ Len(got) \in 0 .. Len(ranked) /\ Len(ranked) \in Nat
        /\ got = [i \in 1 .. Len(got) |-> ranked[i]] /\ got \in Seq(Candidate)
    <2>1. Len(got) \in 0 .. Len(ranked) /\ got = [i \in 1 .. Len(got) |-> ranked[i]]
      BY <1>1 DEF GotInv
    <2> DEFINE n == Len(got)
    <2>2. n \in 0 .. Len(ranked) /\ got = [i \in 1 .. n |-> ranked[i]]
      BY <2>1
    <2> HIDE DEF n
    <2>3. got \in Seq(Candidate)
      BY <1>2, <2>2
    <2> QED BY <1>2, <2>1, <2>3
  <1>4. IsPrefix(got, ranked)
    <2>1. SubSeq(got, 1, Len(got)) = SubSeq(ranked, 1, Len(got))
      <3> DEFINE n == Len(got)
      <3>1. n \in 0 .. Len(ranked) /\ got = [i \in 1 .. n |-> ranked[i]] /\ Len(got) = n
        BY <1>3
      <3> HIDE DEF n
      <3>2. /\ SubSeq(got, 1, n) = [i \in 1 .. n |-> got[i]]
            /\ SubSeq(ranked, 1, n) = [i \in 1 .. n |-> ranked[i]]
        BY <1>2, <1>3, <3>1
      <3> QED BY <3>1, <3>2 DEF n
    <2> QED BY <1>3, <2>1 DEF IsPrefix
  <1>5. phase = "complete" /\ request.tool = "search" => got = ranked
    <2> SUFFICES ASSUME phase = "complete", request.tool = "search" PROVE got = ranked
      OBVIOUS
    <2>1. Len(got) = Len(ranked)
      BY <1>1 DEF GotInv
    <2> QED BY <1>2, <1>3, <2>1
  <1>6. PagesInOrder
    BY <1>2, <1>4, <1>5 DEF PagesInOrder, ToSet, Ordered
  <1>7. ASSUME phase # "fit", phase # "idle"
        PROVE  /\ over <=> ~Within(rows)
               /\ over => rows = <<>>
               /\ \/ request.limit = 0 \/ Sent <= request.limit
                  \/ rows = <<>> /\ (over \/ needed # 0)
    <2>1. (over <=> ~Within(rows)) /\ (over \/ needed # 0 => rows = <<>>)
      BY <1>1, <1>7 DEF BudgetTypes, FitInv
    <2>2. needed = 0 => Sent = Cost(rows)
      BY DEF Sent
    <2> QED BY <2>1, <2>2 DEF Within
  <1>8. ASSUME phase # "idle" PROVE Shown = [i \in DOMAIN rows |-> FullPage[i].candidate]
    BY <1>1, <1>8 DEF RowsInv, Shown
  <1>9. ASSUME phase # "idle", Len(rows) < Len(FullPage) PROVE Reducible = {}
    BY <1>1, <1>9 DEF RowsInv, Reducible, Overview
  <1>10. LeastRelevantFirst
    BY <1>1, <1>7, <1>8, <1>9 DEF LeastRelevantFirst, RowsInv, Lowered
  <1> QED BY <1>6, <1>10

LEMMA BudgetAlways == AnySpec => []BudgetInv
  <1>1. AnyInit => BudgetInv
    BY BudgetInit DEF AnyInit
  <1>2. BudgetInv /\ [AllNext]_allVars => BudgetInv'
    <2>1. [AllNext]_allVars => [Next]_vars
      BY DEF AllNext, allVars
    <2> QED BY <2>1, BudgetStep
  <1> QED BY <1>1, <1>2, PTL DEF AnySpec

(* Paging neither skips nor repeats: the pages put together are the head of  *)
(* the ranking, the ranking is the corpus in order without what a better     *)
(* candidate says, and a finished search has all of it (rank_and_dedup,      *)
(* Selection::next_offset).                                                  *)
THEOREM PagesAreInOrder == AnySpec => []PagesInOrder
  <1>1. BudgetInv => PagesInOrder
    BY BudgetResult
  <1> QED BY <1>1, BudgetAlways, PTL

(* The least relevant rows pay first, nobody for nothing, and what is sent   *)
(* keeps the limit, but for the uncounted line that tells an answer without  *)
(* rows what a row needs (the loop of select), for any estimate.             *)
THEOREM LeastRelevantPayFirst == AnySpec => []LeastRelevantFirst
  <1>1. BudgetInv => LeastRelevantFirst
    BY BudgetResult
  <1> QED BY <1>1, BudgetAlways, PTL

-----------------------------------------------------------------------------
(* What a pack has left goes to lines of the one row that is a summary.      *)

(* A definition lowered to a summary whose own line is known. *)
Summed(i) ==
    /\ rows[i].candidate.evidence = Definition /\ rows[i].level = Summary
    /\ rows[i].candidate.lead >= 0

More(i) == IF rows[i].keep = 0 THEN rows[i].candidate.lead + 2 ELSE rows[i].keep + 1

TooMany(i, k) == k <= rows[i].candidate.lines => ~Within(Headed(i, k))

(* The rows before the one at work have as many lines as fit, those after it *)
(* have none yet.                                                            *)
ToolInv == phase = "spare" => request.tool = "pack" /\ request.limit # 0

LinesInv ==
    phase \in {"spare", "answered"} /\ request.tool = "pack" /\ request.detail = Detailed =>
        \A i \in DOMAIN rows : Summed(i) =>
            /\ rows[i].keep # 0 =>
                  rows[i].keep \in rows[i].candidate.lead + 2 .. rows[i].candidate.lines
            /\ phase = "spare" /\ probe.row <= i => rows[i].keep = 0
            /\ phase = "answered" \/ i < probe.row => TooMany(i, More(i))

(* No more lines fit than the upper end of the search. *)
EndsInv ==
    phase = "spare" /\ probe.high # 0 =>
        /\ Summed(probe.row) /\ request.detail = Detailed
        /\ rows[probe.row].candidate.lead + 2 <= probe.low
        /\ probe.high <= rows[probe.row].candidate.lines
        /\ TooMany(probe.row, probe.high + 1)

SpareInv == ToolInv /\ LinesInv /\ EndsInv

PackInv == BudgetInv /\ SpareInv

LEMMA SpareSettle ==
  ASSUME BudgetInv, SpareInv, Settle
  PROVE  SpareInv'
  <1>1. /\ BudgetTypes /\ RowsInv /\ phase = "fit" /\ probe = NoProbe
        /\ \A i \in DOMAIN rows : rows[i].keep = 0
    BY DEF BudgetInv, FitInv, Settle
  <1>2. UNCHANGED <<ranked, request, rows, probe>>
    BY DEF Settle
  <1>3. phase' = "spare" => request.tool = "pack" /\ request.limit # 0
    BY DEF Settle
  <1>4. CASE phase' = "spare"
    <2>1. \A i \in DOMAIN rows : i \in Nat \ {0}
      BY <1>1 DEF BudgetTypes
    <2>2. \A i \in DOMAIN rows : probe'.row <= i /\ ~(i < probe'.row)
      BY <1>1, <1>2, <2>1 DEF NoProbe
    <2> QED BY <1>1, <1>2, <1>3, <1>4, <2>2 DEF SpareInv, ToolInv, LinesInv, EndsInv, NoProbe
  <1>5. CASE phase' # "spare"
    <2>1. phase' = "answered" /\ (request.tool = "pack" => request.limit = 0 \/ rows = <<>>)
      BY <1>5 DEF Settle, Minimal
    <2>2. ASSUME request.limit = 0, request.detail = Detailed, NEW i \in DOMAIN rows
          PROVE  rows[i].level # Summary
      <3>1. Bare = FullPage
        BY <1>1, <2>2 DEF RowsInv, Within
      <3>2. rows \in Seq(Row) /\ rows[i] \in Row /\ i \in 1 .. Len(rows)
        BY <1>1, <2>2 DEF BudgetTypes
      <3>3. Bare[i] = [candidate |-> rows[i].candidate, level |-> rows[i].level, keep |-> 0]
        BY <3>2, RowKept DEF Bare
      <3>4. i \in 1 .. Len(FullPage)
        <4>1. Len(rows) <= Len(FullPage) /\ Len(FullPage) \in Nat
          BY <1>1, FullPageIs DEF RowsInv
        <4> QED BY <3>2, <4>1
      <3>5. FullPage[i] = [candidate |-> ranked[request.offset + i],
                           level |-> request.detail, keep |-> 0]
        BY <1>1, <3>4, FullPageIs
      <3>6. rows[i].level = request.detail
        BY <3>1, <3>3, <3>5
      <3> QED BY <2>2, <3>6 DEF Summary, Detailed
    <2>3. ASSUME rows = <<>>, NEW i \in DOMAIN rows PROVE FALSE
      BY <2>3
    <2> QED BY <1>2, <1>5, <2>1, <2>2, <2>3 DEF SpareInv, ToolInv, LinesInv, EndsInv, Summed
  <1> QED BY <1>4, <1>5

LEMMA SpareSearch ==
  ASSUME BudgetInv, SpareInv, Begin \/ Halve
  PROVE  SpareInv'
  <1>1. BudgetTypes /\ FitInv /\ phase = "spare" /\ phase' = "spare" /\ probe.row \in DOMAIN rows
    BY DEF BudgetInv, Begin, Halve, Spare
  <1>2. UNCHANGED <<ranked, request, rows>>
    BY DEF Begin, Halve
  <1>3. \A i, k : Fits(Headed(i, k)) <=> Within(Headed(i, k))
    BY <1>2, SameRequest
  <1> DEFINE p == probe.row
             c == rows[p].candidate
  <1>4. /\ probe \in [row: Nat \ {0}, low: Nat, high: Nat] /\ DOMAIN rows \subseteq Nat \ {0}
        /\ c.lead \in Int /\ c.lines \in Nat
    <2>1. probe \in [row: Nat \ {0}, low: Nat, high: Nat] /\ rows[p] \in Row
          /\ DOMAIN rows \subseteq Nat \ {0}
      BY <1>1 DEF BudgetTypes
    <2>2. c \in Candidate
      BY <2>1, RowParts
    <2> QED BY <2>1, <2>2 DEF Candidate
  <1>5. /\ probe'.high # 0 =>
              /\ probe'.row = p /\ Summed(p) /\ request.detail = Detailed
              /\ c.lead + 2 <= probe'.low /\ probe'.high <= c.lines
              /\ TooMany(p, probe'.high + 1)
        /\ probe'.row # p =>
              /\ probe'.row = p + 1 /\ probe'.high = 0
              /\ Summed(p) /\ request.detail = Detailed => TooMany(p, c.lead + 2)
    <2>1. CASE Begin /\ Spendable(p)
      <3>1. probe' = [probe EXCEPT !.low = c.lead + 2, !.high = c.lines]
        BY <2>1 DEF Begin
      <3>2. probe'.row = p /\ probe'.low = c.lead + 2 /\ probe'.high = c.lines
        BY <1>4, <3>1
      <3>3. Summed(p) /\ request.detail = Detailed
        BY <2>1 DEF Spendable, Summed
      <3>4. TooMany(p, c.lines + 1)
        BY <1>4 DEF TooMany
      <3> HIDE DEF c
      <3>5. c.lead + 2 <= c.lead + 2 /\ c.lines <= c.lines
        BY <1>4
      <3> QED BY <3>2, <3>3, <3>4, <3>5
    <2>2. CASE Begin /\ ~Spendable(p)
      <3>1. probe' = [row |-> p + 1, low |-> 0, high |-> 0]
        BY <2>2 DEF Begin, NextRow
      <3>2. ASSUME Summed(p), request.detail = Detailed PROVE TooMany(p, c.lead + 2)
        <4> SUFFICES ASSUME c.lead + 2 <= c.lines PROVE ~Within(Headed(p, c.lead + 2))
          BY DEF TooMany
        <4>1. c.lines > c.lead + 1
          BY <1>4
        <4> QED BY <1>3, <2>2, <3>2, <4>1 DEF Spendable, Summed
      <3> QED BY <1>4, <3>1, <3>2
    <2>3. CASE Halve
      <3> DEFINE mid == (probe.low + probe.high + 1) \div 2
      <3>1. /\ probe.low \in Nat /\ probe.high \in Nat /\ probe.low < probe.high
            /\ probe' = IF Fits(Headed(p, mid))
                        THEN [probe EXCEPT !.low = mid] ELSE [probe EXCEPT !.high = mid - 1]
        BY <1>4, <2>3 DEF Halve
      <3>2. mid \in Nat /\ probe.low < mid /\ mid <= probe.high /\ mid - 1 \in Nat
        BY <3>1
      <3> HIDE DEF mid
      <3>3. /\ Summed(p) /\ request.detail = Detailed
            /\ c.lead + 2 <= probe.low /\ probe.high <= c.lines
            /\ TooMany(p, probe.high + 1)
        BY <1>1, <3>1 DEF SpareInv, EndsInv
      <3>4. CASE Fits(Headed(p, mid))
        <4>1. probe'.row = p /\ probe'.low = mid /\ probe'.high = probe.high
          BY <1>4, <3>1, <3>4
        <4>2. c.lead + 2 <= mid
          BY <1>4, <3>1, <3>2, <3>3
        <4> QED BY <3>3, <4>1, <4>2
      <3>5. CASE ~Fits(Headed(p, mid))
        <4>1. probe'.row = p /\ probe'.low = probe.low /\ probe'.high = mid - 1
          BY <1>4, <3>1, <3>5
        <4>2. (mid - 1) + 1 = mid /\ mid - 1 <= c.lines
          BY <1>4, <3>1, <3>2, <3>3
        <4>3. TooMany(p, mid)
          BY <1>3, <3>5 DEF TooMany
        <4> QED BY <3>3, <4>1, <4>2, <4>3
      <3> QED BY <3>4, <3>5
    <2> QED BY <2>1, <2>2, <2>3
  <1> HIDE DEF c
  <1>6. ASSUME request.tool = "pack", request.detail = Detailed, NEW i \in DOMAIN rows, Summed(i)
        PROVE  /\ rows[i].keep # 0 =>
                     rows[i].keep \in rows[i].candidate.lead + 2 .. rows[i].candidate.lines
               /\ probe'.row <= i => rows[i].keep = 0
               /\ i < probe'.row => TooMany(i, More(i))
    <2>1. /\ rows[i].keep # 0 =>
                rows[i].keep \in rows[i].candidate.lead + 2 .. rows[i].candidate.lines
          /\ p <= i => rows[i].keep = 0
          /\ i < p => TooMany(i, More(i))
      BY <1>1, <1>6 DEF SpareInv, LinesInv
    <2>2. i \in Nat /\ p \in Nat
      BY <1>4, <1>6
    <2>3. CASE probe'.row = p
      BY <2>1, <2>3
    <2>4. CASE probe'.row # p
      <3>1. probe'.row = p + 1 /\ (i < p + 1 <=> i < p \/ i = p) /\ (p + 1 <= i => p <= i)
        BY <1>5, <2>2, <2>4
      <3>2. CASE i = p
        <4>1. rows[i].keep = 0 /\ More(i) = c.lead + 2 /\ rows[i].candidate = c
          BY <2>1, <2>2, <3>2 DEF More, c
        <4> QED BY <1>5, <1>6, <2>1, <2>4, <3>2, <4>1
      <3>3. CASE i # p
        BY <2>1, <3>1, <3>3
      <3> QED BY <3>2, <3>3
    <2> QED BY <2>3, <2>4
  <1>7. LinesInv'
    <2>1. \A i : (Summed(i)' <=> Summed(i)) /\ (TooMany(i, More(i))' <=> TooMany(i, More(i)))
      BY <1>2 DEF Summed, TooMany, More, Headed, Within, Cost, Left
    <2> QED BY <1>1, <1>2, <1>6, <2>1 DEF LinesInv
  <1>8. EndsInv'
    <2> SUFFICES ASSUME probe'.high # 0
                 PROVE  /\ Summed(probe.row)' /\ request'.detail = Detailed
                        /\ rows'[probe'.row].candidate.lead + 2 <= probe'.low
                        /\ probe'.high <= rows'[probe'.row].candidate.lines
                        /\ TooMany(probe.row, probe.high + 1)'
      BY DEF EndsInv
    <2>1. TooMany(probe.row, probe.high + 1)'
      <3>1. TooMany(p, probe'.high + 1) /\ probe'.row = p
        BY <1>5
      <3> QED BY <1>2, <3>1 DEF TooMany, Headed, Within, Cost, Left
    <2>2. Summed(probe.row)'
      BY <1>2, <1>5 DEF Summed
    <2> QED BY <1>2, <1>5, <2>1, <2>2 DEF c
  <1>9. ToolInv'
    BY <1>1, <1>2 DEF SpareInv, ToolInv
  <1> QED BY <1>7, <1>8, <1>9 DEF SpareInv

(* Only the tail loses detail, a level at a time, so of a page asked for in  *)
(* full at most one row is a summary.                                        *)
LEMMA OneSummary ==
  ASSUME BudgetInv, phase # "idle", request.detail = Detailed,
         NEW i \in DOMAIN rows, NEW j \in DOMAIN rows,
         rows[i].level = Summary, rows[j].level = Summary
  PROVE  i = j
  <1>1. /\ RowsInv /\ rows \in Seq(Row) /\ i \in Nat /\ j \in Nat
    BY DEF BudgetInv, BudgetTypes
  <1>2. \A k, l \in DOMAIN rows :
           k < l /\ rows[k].level < request.detail => rows[l].level = Overview
    BY <1>1 DEF RowsInv
  <1> QED BY <1>1, <1>2 DEF Overview, Summary, Detailed

LEMMA HeadedAgain ==
  ASSUME BudgetTypes, NEW p \in DOMAIN rows, NEW fit \in Nat, NEW k \in Nat,
         NEW s, s = Headed(p, fit)
  PROVE  [s EXCEPT ![p].keep = k] = Headed(p, k)
  <1>1. rows \in Seq(Row) /\ rows[p] \in Row
    BY DEF BudgetTypes
  <1>2. s[p] \in Row /\ s[p].candidate = rows[p].candidate /\ s[p].level = rows[p].level
    <2>1. /\ [rows[p] EXCEPT !.keep = fit] \in Row
          /\ [rows[p] EXCEPT !.keep = fit] =
                [candidate |-> rows[p].candidate, level |-> rows[p].level, keep |-> fit]
      BY <1>1, RowKept
    <2>2. s[p] = [rows[p] EXCEPT !.keep = fit]
      BY <1>1 DEF Headed
    <2> QED BY <2>1, <2>2
  <1>3. [s[p] EXCEPT !.keep = k] = [rows[p] EXCEPT !.keep = k]
    <2>1. PICK a, b : a = s[p] /\ b = rows[p]
      OBVIOUS
    <2>2. a \in Row /\ b \in Row
      BY <1>1, <1>2, <2>1
    <2>3. /\ [a EXCEPT !.keep = k] = [candidate |-> a.candidate, level |-> a.level, keep |-> k]
          /\ [b EXCEPT !.keep = k] = [candidate |-> b.candidate, level |-> b.level, keep |-> k]
      BY <2>2, RowKept
    <2> QED BY <1>2, <2>1, <2>3
  <1> DEFINE r == [rows[p] EXCEPT !.keep = k]
             b == [rows[p] EXCEPT !.keep = fit]
  <1>4. s = [rows EXCEPT ![p] = b] /\ Headed(p, k) = [rows EXCEPT ![p] = r]
    BY DEF Headed
  <1>5. [s EXCEPT ![p].keep = k] = [s EXCEPT ![p] = r]
    BY <1>3
  <1> HIDE DEF r, b
  <1> QED BY <1>1, <1>4, <1>5

LEMMA SpareHead ==
  ASSUME PackInv, KeepHead
  PROVE  SpareInv'
  <1>1. /\ BudgetInv /\ SpareInv /\ BudgetTypes
        /\ phase = "spare" /\ phase' = "spare" /\ probe.row \in DOMAIN rows
        /\ probe.high # 0 /\ probe.low = probe.high
    BY DEF PackInv, BudgetInv, KeepHead, Spare
  <1>2. PICK p, fit : p = probe.row /\ fit = probe.low
    OBVIOUS
  <1>3. /\ rows \in Seq(Row) /\ fit \in Nat /\ p \in Nat \ {0} /\ DOMAIN rows \subseteq Nat
        /\ p \in DOMAIN rows
    BY <1>1, <1>2 DEF BudgetTypes
  <1>4. /\ ranked' = ranked /\ request' = request /\ rows' = Headed(p, fit)
        /\ probe' = [row |-> p + 1, low |-> 0, high |-> 0]
    BY <1>2 DEF KeepHead, NextRow
  <1>5. /\ rows' \in Seq(Row) /\ DOMAIN rows' = DOMAIN rows
        /\ \A j \in DOMAIN rows : j # p => rows'[j] = rows[j]
        /\ rows'[p] = [candidate |-> rows[p].candidate, level |-> rows[p].level, keep |-> fit]
    <2>1. PICK s : s = Headed(p, fit)
      OBVIOUS
    <2>2. s \in Seq(Row) /\ DOMAIN s = DOMAIN rows
      BY <1>3, <2>1, HeadedIs
    <2>3. \A j \in DOMAIN rows : j # p => s[j] = rows[j]
      BY <2>1 DEF Headed
    <2>4. s[p] = [rows[p] EXCEPT !.keep = fit] /\ rows[p] \in Row
      BY <1>3, <2>1 DEF Headed
    <2>5. s[p] = [candidate |-> rows[p].candidate, level |-> rows[p].level, keep |-> fit]
      BY <1>3, <2>4, RowKept
    <2> QED BY <1>4, <2>1, <2>2, <2>3, <2>5
  <1>6. /\ Summed(p) /\ rows[p].candidate.lead + 2 <= fit /\ fit <= rows[p].candidate.lines
        /\ TooMany(p, fit + 1) /\ request.detail = Detailed
    <2>1. /\ Summed(probe.row) /\ request.detail = Detailed
          /\ rows[probe.row].candidate.lead + 2 <= probe.low
          /\ probe.high <= rows[probe.row].candidate.lines
          /\ TooMany(probe.row, probe.high + 1)
      BY <1>1 DEF SpareInv, EndsInv
    <2> QED BY <1>1, <1>2, <2>1
  <1>7. \A j \in DOMAIN rows : /\ rows[j].candidate.lead \in Int
                               /\ rows[j].candidate.lines \in Nat /\ rows[j].keep \in Nat
    <2> SUFFICES ASSUME NEW j \in DOMAIN rows
                 PROVE  /\ rows[j].candidate.lead \in Int
                        /\ rows[j].candidate.lines \in Nat /\ rows[j].keep \in Nat
      OBVIOUS
    <2>1. rows[j] \in Row
      BY <1>3
    <2>2. rows[j].candidate \in Candidate /\ rows[j].keep \in Nat
      BY <2>1, RowParts
    <2> QED BY <2>2 DEF Candidate
  <1>8. fit \in rows[p].candidate.lead + 2 .. rows[p].candidate.lines /\ fit # 0
    BY <1>3, <1>6, <1>7 DEF Summed
  <1>9. TooMany(p, fit + 1)'
    <2>1. PICK s, k : s = Headed(p, fit) /\ s = rows' /\ k = fit + 1
      BY <1>4
    <2>2. [s EXCEPT ![p].keep = k] = Headed(p, k)
      <3>1. BudgetTypes /\ p \in DOMAIN rows /\ fit \in Nat /\ s = Headed(p, fit) /\ k \in Nat
        BY <1>1, <1>3, <2>1
      <3> QED BY ONLY <3>1, HeadedAgain, Zenon
    <2>3. rows'[p].candidate = rows[p].candidate
      BY <1>5
    <2>4. k <= rows[p].candidate.lines => ~Within(Headed(p, k))
      BY <1>6, <2>1 DEF TooMany
    <2>5. k <= rows'[p].candidate.lines => ~Within([rows' EXCEPT ![p].keep = k])
      BY <2>1, <2>2, <2>3, <2>4
    <2> QED BY <1>4, <2>1, <2>5 DEF TooMany, Headed, Within, Cost, Left
  <1>10. LinesInv'
    <2> SUFFICES ASSUME request.tool = "pack", NEW i \in DOMAIN rows, Summed(i)'
                 PROVE  /\ rows'[i].keep # 0 =>
                              rows'[i].keep \in rows'[i].candidate.lead + 2
                                                  .. rows'[i].candidate.lines
                        /\ p + 1 <= i => rows'[i].keep = 0
                        /\ i < p + 1 => TooMany(i, More(i))'
      BY <1>1, <1>4, <1>5 DEF LinesInv
    <2>1. i = p
      <3>1. rows'[i].level = rows[i].level
        BY <1>5
      <3>2. rows[i].level = Summary /\ rows[p].level = Summary
        BY <1>6, <3>1 DEF Summed
      <3> QED BY <1>1, <1>3, <1>6, <3>2, OneSummary
    <2>2. rows'[p].keep = fit /\ rows'[p].candidate = rows[p].candidate
      BY <1>5
    <2>3. PICK k : k = fit + 1
      OBVIOUS
    <2>4. More(p)' = k
      BY <1>3, <1>8, <2>2, <2>3 DEF More
    <2>5. TooMany(p, More(p))'
      <3>1. TooMany(p, k)'
        BY <1>9, <2>3 DEF TooMany, Headed, Within, Cost, Left
      <3> QED BY <2>4, <3>1 DEF TooMany, Headed, Within, Cost, Left
    <2>6. ~(p + 1 <= p)
      BY <1>3
    <2> QED BY <1>8, <2>1, <2>2, <2>5, <2>6
  <1>11. ToolInv' /\ EndsInv'
    BY <1>1, <1>4 DEF SpareInv, ToolInv, EndsInv
  <1> QED BY <1>10, <1>11 DEF SpareInv

LEMMA SpareRender ==
  ASSUME BudgetInv, SpareInv, Render
  PROVE  SpareInv'
  <1>1. /\ BudgetTypes /\ phase = "spare" /\ phase' = "answered" /\ probe.row > Len(rows)
        /\ UNCHANGED <<ranked, request, rows>>
    BY DEF BudgetInv, Render
  <1>2. \A i \in DOMAIN rows : i < probe.row
    <2>1. rows \in Seq(Row) /\ probe.row \in Nat
      BY <1>1 DEF BudgetTypes
    <2> QED BY <1>1, <2>1
  <1>3. \A i : (Summed(i)' <=> Summed(i)) /\ (TooMany(i, More(i))' <=> TooMany(i, More(i)))
    BY <1>1 DEF Summed, TooMany, More, Headed, Within, Cost, Left
  <1>4. LinesInv'
    BY <1>1, <1>2, <1>3 DEF SpareInv, LinesInv
  <1> QED BY <1>1, <1>4 DEF SpareInv, ToolInv, EndsInv

LEMMA SpareStep ==
  ASSUME PackInv, [Next]_vars
  PROVE  SpareInv'
  <1>1. BudgetInv /\ SpareInv
    BY DEF PackInv
  <1>2. ASSUME NEW max \in Limits \cup {told}, NEW size \in Sizes, NEW detail \in Levels,
               Ask(max, size, detail)
        PROVE  SpareInv'
    BY <1>2 DEF Ask, SpareInv, ToolInv, LinesInv, EndsInv
  <1>3. CASE Lower \/ Drop
    BY <1>3 DEF Lower, Drop, SpareInv, ToolInv, LinesInv, EndsInv
  <1>4. CASE Settle
    BY <1>1, <1>4, SpareSettle
  <1>5. CASE Begin \/ Halve
    BY <1>1, <1>5, SpareSearch
  <1>6. CASE KeepHead
    BY <1>6, SpareHead
  <1>7. CASE Render
    BY <1>1, <1>7, SpareRender
  <1>8. CASE Receive
    BY <1>8 DEF Receive, SpareInv, ToolInv, LinesInv, EndsInv
  <1>9. CASE Complete \/ UNCHANGED vars
    <2>1. UNCHANGED <<phase, ranked, request, rows, probe>>
      BY <1>9 DEF Complete, vars
    <2>2. \A i : (Summed(i)' <=> Summed(i)) /\ (TooMany(i, More(i))' <=> TooMany(i, More(i)))
      BY <2>1 DEF Summed, TooMany, More, Headed, Within, Cost, Left
    <2>3. LinesInv'
      BY <1>1, <2>1, <2>2 DEF SpareInv, LinesInv
    <2>4. PICK p, high : p = probe.row /\ high = probe.high
      OBVIOUS
    <2>5. (Summed(p)' <=> Summed(p)) /\ (TooMany(p, high + 1)' <=> TooMany(p, high + 1))
      BY <2>1 DEF Summed, TooMany, Headed, Within, Cost, Left
    <2>6. EndsInv'
      <3> SUFFICES ASSUME phase = "spare", high # 0
                   PROVE  /\ Summed(probe.row)' /\ request'.detail = Detailed
                          /\ rows'[probe'.row].candidate.lead + 2 <= probe'.low
                          /\ probe'.high <= rows'[probe'.row].candidate.lines
                          /\ TooMany(probe.row, probe.high + 1)'
        BY <2>1, <2>4 DEF EndsInv
      <3>1. /\ Summed(probe.row) /\ request.detail = Detailed
            /\ rows[probe.row].candidate.lead + 2 <= probe.low
            /\ probe.high <= rows[probe.row].candidate.lines
            /\ TooMany(probe.row, probe.high + 1)
        BY <1>1, <2>4 DEF SpareInv, EndsInv
      <3>2. Summed(probe.row)'
        BY <2>1, <3>1 DEF Summed
      <3>3. TooMany(probe.row, probe.high + 1)'
        BY <2>1, <3>1 DEF TooMany, Headed, Within, Cost, Left
      <3> QED BY <2>1, <3>1, <3>2, <3>3
    <2> QED BY <1>1, <2>1, <2>3, <2>6 DEF SpareInv, ToolInv
  <1> QED BY <1>2, <1>3, <1>4, <1>5, <1>6, <1>7, <1>8, <1>9 DEF Next

LEMMA PackResult == PackInv => NothingToSpare
  <1> SUFFICES ASSUME PackInv, phase = "answered", request.tool = "pack",
                      request.detail = Detailed, NEW i \in DOMAIN rows, Summed(i)
               PROVE  /\ rows[i].keep # 0 =>
                            rows[i].keep \in rows[i].candidate.lead + 2
                                               .. rows[i].candidate.lines
                      /\ More(i) <= rows[i].candidate.lines => ~Within(Headed(i, More(i)))
    BY DEF NothingToSpare, Summed, More
  <1> QED BY DEF PackInv, SpareInv, LinesInv, TooMany

(* A pack leaves no line unspent (the bisection of render): no definition    *)
(* lowered to a summary could show one more line within the budget, for any  *)
(* estimate: no other row is a summary beside it (OneSummary).               *)
THEOREM PackLeavesNothing == AnySpec => []NothingToSpare
  <1>1. AnyInit => PackInv
    <2>1. Init => SpareInv
      BY DEF Init, SpareInv, ToolInv, LinesInv, EndsInv
    <2> QED BY <2>1, BudgetInit DEF AnyInit, PackInv
  <1>2. PackInv /\ [AllNext]_allVars => PackInv'
    <2>1. [AllNext]_allVars => [Next]_vars
      BY DEF AllNext, allVars
    <2>2. PackInv /\ [Next]_vars => PackInv'
      BY BudgetStep, SpareStep DEF PackInv
    <2> QED BY <2>1, <2>2
  <1>3. PackInv => NothingToSpare
    BY PackResult
  <1> QED BY <1>1, <1>2, <1>3, PTL DEF AnySpec

-----------------------------------------------------------------------------
(* The numbers of an answer are numbers if the estimate is one.              *)
NumbersInv == request.limit \in Nat /\ needed \in Nat /\ told \in Nat

LEMMA NumbersStep ==
  ASSUME EstimateIsNumber(Seq(Row), Nat), BudgetInv, NumbersInv, [Next]_vars
  PROVE  NumbersInv'
  <1>1. ASSUME NEW max \in Limits \cup {told}, NEW size \in Sizes, NEW detail \in Levels,
               Ask(max, size, detail)
        PROVE  NumbersInv'
    <2>1. max \in Nat
      BY BudgetAssumption DEF NumbersInv
    <2>2. request'.limit = max /\ needed' = 0 /\ told' = told
      BY <1>1 DEF Ask, BudgetInv, BudgetTypes
    <2> QED BY <2>1, <2>2 DEF NumbersInv
  <1>2. CASE Settle
    <2>1. NeededTokens \in Nat
      <3> DEFINE one == OneRow
      <3>1. /\ ranked \in Seq(Candidate) /\ request.offset \in 0 .. Len(ranked)
            /\ request.detail \in Levels /\ Overview \in Levels /\ 1 \in Nat
        BY RankedOfCorpus DEF BudgetInv, BudgetTypes, Levels, Overview
      <3>2. PICK v \in Levels, n \in Nat : v = Overview /\ n = 1
        BY <3>1
      <3>3. /\ one \in Seq(Row) /\ Len(one) <= Len(ranked) - request.offset /\ Len(one) \in Nat
        <4>1. /\ Page(request.offset, n, v) \in Seq(Row)
              /\ Len(Page(request.offset, n, v)) =
                    IF Len(ranked) - request.offset < n THEN Len(ranked) - request.offset ELSE n
          BY <3>1, PageIs
        <4>2. Len(ranked) \in Nat
          BY <3>1
        <4> QED BY <3>1, <3>2, <4>1, <4>2 DEF OneRow
      <3> HIDE DEF one
      <3>4. Left(Len(one)) \in Nat
        BY <3>1, <3>3 DEF Left
      <3>5. Cost(one) \in Nat
        BY <3>1, <3>3, <3>4 DEF EstimateIsNumber, Cost, NumbersInv
      <3> QED BY <3>5 DEF NeededTokens, one
    <2> QED BY <1>2, <2>1 DEF Settle, NumbersInv
  <1>3. CASE Lower \/ Drop \/ Begin \/ Halve \/ KeepHead \/ Render \/ Complete \/ UNCHANGED vars
    BY <1>3 DEF NumbersInv, Lower, Drop, Begin, Halve, KeepHead, Render, Complete, vars
  <1>4. CASE Receive
    BY <1>4 DEF NumbersInv, Receive
  <1> QED BY <1>1, <1>2, <1>3, <1>4 DEF Next
================================================================================
