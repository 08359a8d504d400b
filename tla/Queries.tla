-------------------------------- MODULE Queries --------------------------------
(***************************************************************************)
(* The sequential algorithms behind the tools, side by side: an answer      *)
(* fitted to a budget and paged, a bounded walk over relations, an import   *)
(* graph and its cycles.  A behaviour is one of them at work.               *)
(***************************************************************************)
EXTENDS ContextBudget

CONSTANTS
    MaxQueryDepth,                                                                  \* of both
    Symbols, NameOf, FileOf, Tests, Modules, Indexes, Asked, MinFirstHopPage, None, \* of Traversal
    Files, Tables, RootFiles, Depths, GraphLimits                                   \* of Dependencies

VARIABLES task,
    relations, query, walkPhase, offset, budget, start, cursor, level, queue, walkFrontier,
    visited, hits, page, walkGot,
    table, module, depth, limit, stage, hop, frontier, next, reached, edges, truncated,
    index, low, stack, call, cycles

walkVars == <<relations, query, walkPhase, offset, budget, start, cursor, level, queue,
              walkFrontier, visited, hits, page, walkGot>>
graphVars == <<table, module, depth, limit, stage, hop, frontier, next, reached, edges,
               truncated, index, low, stack, call, cycles>>
allVars == <<task, vars, walkVars, graphVars>>

W == INSTANCE Traversal WITH phase <- walkPhase, frontier <- walkFrontier, got <- walkGot
D == INSTANCE Dependencies WITH Limits <- GraphLimits

ASSUME QueriesAssumption == W!TraversalInputs /\ D!DependenciesInputs

AnyInit == task \in {"budget", "walk", "graph"} /\ Init /\ W!Init /\ D!Init

AllNext ==
    /\ UNCHANGED task
    /\ \/ task = "budget" /\ Next /\ UNCHANGED <<walkVars, graphVars>>
       \/ task = "walk" /\ W!Next /\ UNCHANGED <<vars, graphVars>>
       \/ task = "graph" /\ D!Next /\ UNCHANGED <<vars, walkVars>>

AnySpec == AnyInit /\ [][AllNext]_allVars

-----------------------------------------------------------------------------
(* Each variable has its type, in the three of them. *)
AllTypesOK == TypeOK /\ W!TypeOK /\ D!TypeOK

(* Pages of a walk put together are the whole answer (relation_page).       *)
PagesAddUp == W!PagesAddUp

(* Hits are reported at the least number of proven hops (traversal::bfs).   *)
DepthIsShortest == W!DepthIsShortest

(* The import graph is the neighbourhood asked for (dependency_graph).      *)
GraphIsNeighbourhood == D!GraphIsNeighbourhood

(* The cycles are the components of the graph shown (find_cycles).          *)
CyclesAreComponents == D!CyclesAreComponents
================================================================================
