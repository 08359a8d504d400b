--------------------------- MODULE Watcher_proofs ---------------------------
(***************************************************************************)
(* No reported change is forgotten by the background reindexer, for any    *)
(* files, any limits and any timers.                                       *)
(*                                                                         *)
(* NothingForgotten is not inductive by itself.  A successful update takes *)
(* away what carried the changes it covered: an owed walk must really have *)
(* been a walk (OwedIsRun), and what was written behind its back must be   *)
(* on its way already (RacingReported).  The thread may end only after the *)
(* last message is out of the channel (FinalInv).  The counters and timers *)
(* are bounded by an invariant of their own (Bounds).                      *)
(***************************************************************************)
EXTENDS Watcher, FiniteSetTheorems, TLAPS

\* The part of the types the argument needs: the timers decide when something
\* happens and never what.
Types ==
    /\ stale \subseteq Files /\ racing \subseteq Files
    /\ watching \in BOOLEAN /\ raw \in Changed /\ handler \in {"idle", "blocked"}
    /\ channel = <<>> \/ \E m \in Changed : channel = <<m>>
    /\ pc \in {"top", "due", "receive", "lock", "run", "gone"}
    /\ pending \in Changed /\ scope \in Changed /\ final \in BOOLEAN
    /\ failures \in Nat

\* The debouncer, the channel and the blocked callback.
Reported ==
    Covers(raw) \cup (IF channel = <<>> THEN {} ELSE Covers(channel[1]))
                \cup (IF handler = "blocked" THEN Files ELSE {})

\* The thread knows that the source is gone only when nothing can follow.
FinalInv ==
    /\ final => ~watching /\ handler = "idle" /\ channel = <<>>
    /\ pc = "gone" => final

\* An update that runs while a walk is owed is that walk.
OwedIsRun == pc = "run" /\ Owed => scope.walk

\* A file written after the update took the mutex is reported anew.
RacingReported ==
    pc = "run" => racing \cap stale \subseteq Reported \cup lost \/ (~watching /\ ~final)

\* While a tool call holds the mutex the watcher's thread is not in an update.
MutexInv == pc = "run" => mutex = "watcher"

IInv == Types /\ FinalInv /\ OwedIsRun /\ RacingReported /\ NothingForgotten

-----------------------------------------------------------------------------
\* What a set of paths turns into covers at least those paths (changed_paths).
LEMMA PathsCover ==
  ASSUME NEW P \in SUBSET Files
  PROVE  Paths(P) \in Changed /\ P \subseteq Covers(Paths(P))
  BY DEF Paths, Rescan, Changed, Covers

\* Merging two changes forgets neither (merge_changed).
LEMMA MergeCovers ==
  ASSUME NEW a \in Changed, NEW b \in Changed
  PROVE  /\ Merge(a, b) \in Changed
         /\ Covers(a) \cup Covers(b) \subseteq Covers(Merge(a, b))
  <1>1. CASE a.walk \/ b.walk
    BY <1>1 DEF Merge, Rescan, Changed, Covers
  <1>2. CASE ~(a.walk \/ b.walk)
    <2>1. a.paths \cup b.paths \in SUBSET Files
      BY DEF Changed
    <2>2. Merge(a, b) = Paths(a.paths \cup b.paths)
      BY <1>2 DEF Merge
    <2>3. Covers(a) = a.paths /\ Covers(b) = b.paths
      BY <1>2 DEF Covers
    <2>4. QED
      BY <2>1, <2>2, <2>3, PathsCover
  <1>3. QED
    BY <1>1, <1>2

\* Classifying a batch forgets nothing of it (changed_paths).
LEMMA ClassifyCovers ==
  ASSUME NEW a \in Changed
  PROVE  Classify(a) \in Changed /\ Covers(a) \subseteq Covers(Classify(a))
  <1>1. CASE a.walk
    BY <1>1 DEF Classify, Rescan, Changed, Covers
  <1>2. CASE ~a.walk
    <2>1. a.paths \in SUBSET Files
      BY DEF Changed
    <2>2. QED
      BY <1>2, <2>1, PathsCover DEF Classify, Covers
  <1>3. QED
    BY <1>1, <1>2

\* A full walk covers everything, no path covers nothing.
LEMMA CoversOf ==
  /\ Rescan \in Changed /\ Covers(Rescan) = Files
  /\ Nothing \in Changed /\ Covers(Nothing) = {}
  /\ \A a \in Changed : Covers(a) \subseteq Files
  BY DEF Rescan, Nothing, Changed, Covers

-----------------------------------------------------------------------------
LEMMA InitIInv == Init => IInv
  <1> SUFFICES ASSUME Init PROVE IInv
    OBVIOUS
  <1>1. Types
    BY CoversOf, WatcherAssumption DEF Init, Types
  <1>2. FinalInv /\ OwedIsRun /\ RacingReported
    BY DEF Init, FinalInv, OwedIsRun, RacingReported
  <1>3. NothingForgotten
    <2>1. stale = lost
      BY DEF Init
    <2>2. QED
      BY <2>1 DEF NothingForgotten
  <1>4. QED
    BY <1>1, <1>2, <1>3 DEF IInv

-----------------------------------------------------------------------------
\* One step per action; under it one per part of the invariant it may disturb.
LEMMA EditKeeps ==
  ASSUME IInv, NEW f \in Files, Edit(f)
  PROVE  IInv'
  <1> USE DEF timers, thread
  <1>1. Types'
    <2>1. \/ raw' = raw
          \/ raw' = [raw EXCEPT !.paths = @ \cup {f}]
          \/ raw' = [raw EXCEPT !.walk = TRUE]
      BY DEF Edit
    <2>2. raw' \in Changed
      <3>1. raw \in Changed
        BY DEF IInv, Types
      <3>2. raw.walk \in BOOLEAN /\ raw.paths \cup {f} \in SUBSET Files
        BY <3>1 DEF Changed
      <3>3. QED
        BY <2>1, <3>1, <3>2 DEF Changed
    <2>3. QED
      BY <2>2 DEF Edit, IInv, Types
  <1>2. Covers(raw) \subseteq Covers(raw') /\ lost \subseteq lost'
    BY DEF Edit, Covers, IInv, Types, Changed
  <1>3. f \in Covers(raw') \cup lost'
    BY DEF Edit, Covers, IInv, Types, Changed
  <1>4. stale' = stale \cup {f} /\ racing' \subseteq racing \cup {f}
    BY DEF Edit
  <1>5. Reported \subseteq Reported' /\ Carried \subseteq Carried'
    BY <1>2 DEF Edit, Reported, Carried
  <1>6. FinalInv' /\ OwedIsRun'
    BY DEF Edit, IInv, FinalInv, OwedIsRun, Owed
  <1>7. RacingReported'
    <2>1. Covers(raw') \subseteq Reported'
      BY DEF Reported
    <2>2. watching' = watching /\ final' = final /\ pc' = pc
      BY DEF Edit
    <2>3. QED
      BY <1>2, <1>3, <1>4, <1>5, <2>1, <2>2 DEF IInv, RacingReported
  <1>8. NothingForgotten'
    <2>1. Covers(raw') \subseteq Carried'
      BY DEF Carried
    <2>2. watching' = watching /\ final' = final /\ failures' = failures
      BY DEF Edit
    <2>3. QED
      BY <1>2, <1>3, <1>4, <1>5, <2>1, <2>2 DEF IInv, NothingForgotten, Owed
  <1>9. QED
    BY <1>1, <1>6, <1>7, <1>8 DEF IInv

LEMMA DeliverKeeps ==
  ASSUME IInv, Deliver
  PROVE  IInv'
  <1> USE DEF disk, timers, thread, shared
  <1>1. watching /\ ~final /\ pc # "gone"
    BY DEF Deliver, IInv, FinalInv, Types
  <1>2. Types'
    BY CoversOf, ClassifyCovers DEF Deliver, IInv, Types
  <1>3. Covers(raw) \subseteq Reported' /\ Reported \subseteq Reported'
    <2>1. CASE channel = <<>> /\ channel' = <<Classify(raw)>> /\ handler' = handler
      <3>1. channel'[1] = Classify(raw) /\ channel' # <<>>
        BY <2>1
      <3>2. Covers(raw) \subseteq Covers(channel'[1])
        BY <3>1, ClassifyCovers DEF IInv, Types
      <3>3. QED
        BY <2>1, <3>1, <3>2 DEF Reported, Deliver
    <2>2. CASE handler' = "blocked" /\ channel' = channel
      <3>1. Reported \subseteq Files
        BY CoversOf DEF Reported, IInv, Types
      <3>2. Reported' = Files \cup Covers(raw') \cup Reported'
        BY <2>2 DEF Reported
      <3>3. QED
        BY <3>1, <3>2, CoversOf DEF IInv, Types
    <2>3. QED
      BY <1>1, <2>1, <2>2 DEF Deliver
  <1>4. Carried \subseteq Carried'
    <2>1. Carried = Reported \cup Covers(pending)
                       \cup (IF pc \in {"lock", "run"} THEN Covers(scope) ELSE {})
      BY DEF Carried, Reported
    <2>2. Carried' = Reported' \cup Covers(pending)
                       \cup (IF pc \in {"lock", "run"} THEN Covers(scope) ELSE {})
      BY DEF Carried, Reported, Deliver
    <2>3. QED
      BY <1>3, <2>1, <2>2
  <1>5. FinalInv' /\ OwedIsRun'
    BY <1>1 DEF Deliver, IInv, FinalInv, OwedIsRun, Owed
  <1>6. RacingReported'
    BY <1>3 DEF Deliver, IInv, RacingReported
  <1>7. NothingForgotten'
    BY <1>4 DEF Deliver, IInv, NothingForgotten, Owed
  <1>8. QED
    BY <1>2, <1>5, <1>6, <1>7 DEF IInv

LEMMA SendRescanKeeps ==
  ASSUME IInv, SendRescan
  PROVE  IInv'
  <1> USE DEF disk, timers, thread, shared
  <1>1. ~final /\ pc # "gone" /\ channel = <<>> /\ channel' = <<Rescan>>
    BY DEF SendRescan, IInv, FinalInv, Types
  <1>2. Types'
    BY <1>1, CoversOf DEF SendRescan, IInv, Types
  <1>3. Files \subseteq Reported'
    <2>1. channel' # <<>> /\ channel'[1] = Rescan
      BY <1>1
    <2>2. QED
      BY <2>1, CoversOf DEF Reported
  <1>4. Files \subseteq Carried'
    BY <1>3 DEF Carried, Reported
  <1>5. stale' \subseteq Files
    BY <1>2 DEF Types
  <1>6. FinalInv' /\ OwedIsRun'
    BY <1>1 DEF SendRescan, IInv, FinalInv, OwedIsRun, Owed
  <1>7. RacingReported' /\ NothingForgotten'
    BY <1>3, <1>4, <1>5 DEF RacingReported, NothingForgotten
  <1>8. QED
    BY <1>2, <1>6, <1>7 DEF IInv

LEMMA UnwatchKeeps ==
  ASSUME IInv, Unwatch
  PROVE  IInv'
  <1> USE DEF disk, timers, thread, shared
  <1>1. ~final /\ ~watching' /\ ~final'
    BY DEF Unwatch, IInv, FinalInv, Types
  <1>2. Types'
    BY CoversOf DEF Unwatch, IInv, Types
  <1>3. FinalInv' /\ OwedIsRun'
    BY <1>1 DEF Unwatch, IInv, FinalInv, OwedIsRun, Owed
  <1>4. RacingReported' /\ NothingForgotten'
    BY <1>1 DEF RacingReported, NothingForgotten
  <1>5. QED
    BY <1>2, <1>3, <1>4 DEF IInv

-----------------------------------------------------------------------------
LEMMA WaitKeeps ==
  ASSUME IInv, Top \/ Tick
  PROVE  IInv'
  <1> USE DEF disk, source, thread, shared
  <1>1. /\ pc \notin {"lock", "run", "gone"} /\ pc' \notin {"lock", "run", "gone"}
        /\ pc' \in {"due", "receive"}
        /\ UNCHANGED <<stale, lost, watching, raw, handler, channel, pending, scope,
                       final, failures, racing>>
    BY DEF Top, Tick
  <1>2. Types' /\ FinalInv' /\ OwedIsRun' /\ RacingReported'
    BY <1>1 DEF IInv, Types, FinalInv, OwedIsRun, RacingReported
  <1>3. Carried' = Carried
    BY <1>1 DEF Carried
  <1>4. NothingForgotten'
    BY <1>1, <1>3 DEF IInv, NothingForgotten, Owed
  <1>5. QED
    BY <1>2, <1>4 DEF IInv

\* What Proceed takes on is carried by the update, which the thread goes for
\* unless there is nothing to do.
LEMMA ProceedCarries ==
  ASSUME NEW change \in Changed, Proceed(change)
  PROVE  /\ pc' \in {"top", "lock"} /\ pending' = Nothing /\ scope' = change
         /\ Covers(change) \subseteq (IF pc' \in {"lock", "run"} THEN Covers(scope') ELSE {})
                                      \cup (IF Owed THEN Files ELSE {})
  BY CoversOf DEF Proceed

LEMMA ReceiveKeeps ==
  ASSUME IInv, Receive
  PROVE  IInv'
  <1> USE DEF disk, shared
  <1>1. PICK m \in Changed : channel = <<m>>
    BY DEF Receive, IInv, Types
  <1>2. Head(channel) = m /\ channel[1] = m /\ channel # <<>> /\ channel' = <<>>
    BY <1>1 DEF Receive
  <1>3. ~final /\ pc = "receive" /\ pending \in Changed
    BY <1>2 DEF IInv, FinalInv, Receive, Types
  <1>4. /\ Merge(pending, m) \in Changed
        /\ Covers(pending) \cup Covers(m) \subseteq Covers(Merge(pending, m))
    BY <1>3, MergeCovers
  <1>5. /\ UNCHANGED <<stale, lost, watching, raw, handler, final, failures, racing>>
        /\ \/ /\ pending' = Merge(pending, m) /\ scope' = scope /\ pc' = "top"
           \/ /\ Proceed(Merge(pending, m))
    BY <1>2 DEF Receive
  <1>6. CASE pending' = Merge(pending, m) /\ scope' = scope /\ pc' = "top"
    <2>1. Types' /\ FinalInv' /\ OwedIsRun' /\ RacingReported'
      BY <1>2, <1>3, <1>4, <1>5, <1>6
         DEF IInv, Types, FinalInv, OwedIsRun, RacingReported
    <2>2. Carried \subseteq Carried'
      BY <1>2, <1>3, <1>4, <1>5, <1>6 DEF Carried
    <2>3. QED
      BY <1>5, <2>1, <2>2 DEF IInv, NothingForgotten, Owed
  <1>7. CASE Proceed(Merge(pending, m))
    <2>1. /\ pc' \in {"top", "lock"} /\ pending' = Nothing /\ scope' = Merge(pending, m)
          /\ Covers(Merge(pending, m)) \subseteq
                (IF pc' \in {"lock", "run"} THEN Covers(scope') ELSE {})
                  \cup (IF Owed THEN Files ELSE {})
      BY <1>4, <1>7, ProceedCarries
    <2>2. Types' /\ FinalInv' /\ OwedIsRun' /\ RacingReported'
      BY <1>2, <1>3, <1>4, <1>5, <2>1, CoversOf
         DEF IInv, Types, FinalInv, OwedIsRun, RacingReported
    <2>3. ~Owed => Carried \subseteq Carried'
      BY <1>2, <1>3, <1>4, <1>5, <2>1 DEF Carried
    <2>4. QED
      BY <1>5, <2>2, <2>3 DEF IInv, NothingForgotten, Owed
  <1>8. QED
    BY <1>5, <1>6, <1>7

LEMMA ExpireKeeps ==
  ASSUME IInv, Expire
  PROVE  IInv'
  <1> USE DEF disk, source, shared
  <1> DEFINE change == IF pending = Nothing /\ (Owed \/ reconcile = 0) THEN Rescan ELSE pending
  <1>1. /\ Proceed(change) /\ pc \in {"due", "receive"}
        /\ UNCHANGED <<stale, lost, watching, raw, handler, channel, final, failures, racing>>
    BY DEF Expire
  <1>2. change \in Changed /\ Covers(pending) \subseteq Covers(change)
    BY CoversOf DEF IInv, Types
  <1>3. /\ pc' \in {"top", "lock"} /\ pending' = Nothing /\ scope' = change
        /\ Covers(change) \subseteq (IF pc' \in {"lock", "run"} THEN Covers(scope') ELSE {})
                                     \cup (IF Owed THEN Files ELSE {})
    BY <1>1, <1>2, ProceedCarries
  <1> HIDE DEF change
  <1>4. Types' /\ FinalInv' /\ OwedIsRun' /\ RacingReported'
    BY <1>1, <1>2, <1>3, CoversOf
       DEF IInv, Types, FinalInv, OwedIsRun, RacingReported
  <1>5. ~Owed => Carried \subseteq Carried'
    BY <1>1, <1>2, <1>3 DEF Carried
  <1>6. QED
    BY <1>1, <1>4, <1>5 DEF IInv, NothingForgotten, Owed

LEMMA DisconnectKeeps ==
  ASSUME IInv, Disconnect
  PROVE  IInv'
  <1> USE DEF disk, source, shared
  <1>1. /\ Proceed(Rescan) /\ final' = TRUE
        /\ channel = <<>> /\ ~watching /\ handler = "idle"
        /\ UNCHANGED <<stale, lost, watching, raw, handler, channel, failures, racing>>
    BY DEF Disconnect, Disconnected
  <1>2. pc' = "lock" /\ pending' = Nothing /\ scope' = Rescan
    BY <1>1 DEF Proceed, Rescan, Nothing
  <1>3. Types' /\ FinalInv' /\ OwedIsRun' /\ RacingReported'
    BY <1>1, <1>2, CoversOf DEF IInv, Types, FinalInv, OwedIsRun, RacingReported
  <1>4. Files \subseteq Carried'
    BY <1>2, CoversOf DEF Carried
  <1>5. QED
    BY <1>3, <1>4 DEF IInv, Types, NothingForgotten

LEMMA ApplyKeeps ==
  ASSUME IInv, Apply
  PROVE  IInv'
  <1> USE DEF disk, source, timers
  <1>1. /\ pc = "lock" /\ pc' = "run" /\ racing' = {}
        /\ scope' = (IF Owed THEN Rescan ELSE scope)
        /\ UNCHANGED <<stale, lost, watching, raw, handler, channel, pending, final, failures>>
    BY DEF Apply
  <1>2. Types' /\ FinalInv' /\ RacingReported'
    BY <1>1, CoversOf DEF IInv, Types, FinalInv, RacingReported
  <1>3. OwedIsRun'
    BY <1>1 DEF OwedIsRun, Owed, Rescan
  <1>4. Carried \subseteq Carried'
    BY <1>1, CoversOf DEF Carried, IInv, Types
  <1>5. QED
    BY <1>1, <1>2, <1>3, <1>4 DEF IInv, NothingForgotten, Owed

\* What a committed run of a scope leaves stale was stale before, and was
\* either outside the scope or written behind the run's back; no change turns
\* into one that is reported to nobody, or back, while it stays stale.
LEMMA IndexedLeaves ==
  ASSUME NEW change \in Changed, Indexed(change)
  PROVE  /\ stale' \subseteq stale
         /\ stale' \subseteq racing \cup (stale \ Covers(change))
         /\ stale' \cap lost \subseteq lost'
  <1>1. PICK missed \in SUBSET racing :
           /\ stale' = stale \ (Covers(change) \ missed)
           /\ lost'  = lost  \ (Covers(change) \ missed)
    BY DEF Indexed
  <1>2. QED
    BY <1>1

LEMMA SucceedKeeps ==
  ASSUME IInv, Succeed
  PROVE  IInv'
  <1> USE DEF source, shared
  <1>1. /\ pc = "run" /\ failures' = 0 /\ pc' = (IF final THEN "gone" ELSE "top")
        /\ Indexed(scope)
        /\ UNCHANGED <<watching, raw, handler, channel, pending, scope, final, racing>>
    BY DEF Succeed, Applied
  <1>2. /\ stale' \subseteq stale
        /\ stale' \subseteq racing \cup (stale \ Covers(scope))
        /\ stale' \cap lost \subseteq lost'
    BY <1>1, IndexedLeaves DEF IInv, Types
  <1>3. Types' /\ FinalInv' /\ OwedIsRun' /\ RacingReported'
    BY <1>1, <1>2 DEF IInv, Types, FinalInv, OwedIsRun, RacingReported
  <1>4. Reported \cup Covers(pending) \subseteq Carried'
    BY <1>1 DEF Reported, Carried
  <1>5. Carried = Reported \cup Covers(pending) \cup Covers(scope)
    BY <1>1 DEF Reported, Carried
  <1>6. Owed => stale \subseteq Covers(scope)
    BY <1>1 DEF IInv, OwedIsRun, Types, Covers
  <1>7. NothingForgotten'
    <2> SUFFICES ASSUME watching \/ final, NEW f \in stale'
                 PROVE  f \in Carried' \cup lost'
      BY <1>1 DEF NothingForgotten
    <2>1. CASE f \in racing
      BY <1>1, <1>2, <1>4, <2>1 DEF IInv, RacingReported
    <2>2. CASE f \in stale \ Covers(scope)
      BY <1>2, <1>4, <1>5, <1>6, <2>2 DEF IInv, NothingForgotten
    <2>3. QED
      BY <1>2, <2>1, <2>2
  <1>8. QED
    BY <1>3, <1>7 DEF IInv

LEMMA FailKeeps ==
  ASSUME IInv, Fail
  PROVE  IInv'
  <1> USE DEF source, shared
  <1>1. /\ pc = "run" /\ pc' = (IF final THEN "gone" ELSE "top")
        /\ failures' = Least(failures + 1, MaxFailures)
        /\ UNCHANGED <<stale, lost, watching, raw, handler, channel, pending, scope, final,
                       racing>>
    BY DEF Fail, Applied
  <1>2. failures' \in Nat /\ failures' > 0
    BY <1>1, WatcherAssumption DEF Least, IInv, Types
  <1>3. Types' /\ FinalInv' /\ OwedIsRun' /\ RacingReported'
    BY <1>1, <1>2 DEF IInv, Types, FinalInv, OwedIsRun, RacingReported
  <1>4. NothingForgotten'
    BY <1>2 DEF NothingForgotten, Owed
  <1>5. QED
    BY <1>3, <1>4 DEF IInv

LEMMA ToolKeeps ==
  ASSUME IInv, MutexInv, ToolLocks \/ ToolReturns
  PROVE  IInv'
  <1> USE DEF source, timers, thread, disk
  <1>1. /\ pc # "run" /\ stale' \subseteq stale /\ racing' \subseteq racing
        /\ stale' \cap lost \subseteq lost'
        /\ UNCHANGED <<watching, raw, handler, channel, pc, pending, scope, final, failures>>
    <2>1. CASE ToolLocks
      BY <2>1 DEF ToolLocks, MutexInv
    <2>2. CASE ToolReturns /\ Indexed(Rescan)
      BY <2>2, CoversOf, IndexedLeaves DEF ToolReturns, MutexInv
    <2>3. CASE ToolReturns /\ UNCHANGED <<stale, lost>>
      BY <2>3 DEF ToolReturns, MutexInv
    <2>4. QED
      BY <2>1, <2>2, <2>3 DEF ToolReturns
  <1>2. Types' /\ FinalInv' /\ OwedIsRun' /\ RacingReported'
    BY <1>1 DEF IInv, Types, FinalInv, OwedIsRun, RacingReported
  <1>3. Carried' = Carried
    BY <1>1 DEF Carried
  <1>4. NothingForgotten'
    BY <1>1, <1>3 DEF IInv, NothingForgotten, Owed
  <1>5. QED
    BY <1>2, <1>4 DEF IInv

-----------------------------------------------------------------------------
LEMMA MutexKept == MutexInv /\ [Next]_vars => MutexInv'
  <1> SUFFICES ASSUME MutexInv, [Next]_vars PROVE MutexInv'
    OBVIOUS
  <1> USE DEF disk, source, timers, thread, shared, MutexInv
  <1>1. ASSUME NEW f \in Files, Edit(f) PROVE MutexInv'
    BY <1>1 DEF Edit
  <1>2. CASE Deliver \/ SendRescan \/ Unwatch
    BY <1>2 DEF Deliver, SendRescan, Unwatch
  <1>3. CASE Top \/ Tick
    BY <1>3 DEF Top, Tick
  <1>4. CASE Receive \/ Expire \/ Disconnect
    BY <1>4 DEF Receive, Expire, Disconnect, Proceed
  <1>5. CASE Apply
    BY <1>5 DEF Apply
  <1>6. CASE Succeed \/ Fail
    BY <1>6 DEF Succeed, Fail, Applied
  <1>7. CASE ToolLocks \/ ToolReturns
    BY <1>7 DEF ToolLocks, ToolReturns
  <1>8. CASE UNCHANGED vars
    BY <1>8 DEF vars
  <1>9. QED
    BY <1>1, <1>2, <1>3, <1>4, <1>5, <1>6, <1>7, <1>8 DEF Next

LEMMA StepKeepsIInv == IInv /\ MutexInv /\ [Next]_vars => IInv'
  <1> SUFFICES ASSUME IInv, MutexInv, [Next]_vars PROVE IInv'
    OBVIOUS
  <1>1. CASE UNCHANGED vars
    BY <1>1 DEF vars, disk, source, timers, thread, shared, IInv, Types, FinalInv, OwedIsRun,
                RacingReported, NothingForgotten, Carried, Reported, Owed
  <1>2. QED
    BY <1>1, EditKeeps, DeliverKeeps, SendRescanKeeps, UnwatchKeeps, WaitKeeps, ReceiveKeeps,
       ExpireKeeps, DisconnectKeeps, ApplyKeeps, SucceedKeeps, FailKeeps, ToolKeeps
       DEF Next

\* The inductive invariant holds throughout.
THEOREM Invariance == Spec => [](IInv /\ MutexInv)
  <1>1. Init => IInv /\ MutexInv
    BY InitIInv DEF Init, MutexInv
  <1>2. IInv /\ MutexInv /\ [Next]_vars => (IInv /\ MutexInv)'
    BY StepKeepsIInv, MutexKept
  <1>3. QED
    BY <1>1, <1>2, PTL DEF Spec

\* A reported change is never forgotten: until the index has it somebody
\* carries it there, a full walk is owed, or the last reconciliation is still
\* to come (background.rs, spawn_watcher_with_reconciliation).
THEOREM ChangesRemembered == Spec => []NothingForgotten
  <1>1. IInv => NothingForgotten
    BY DEF IInv
  <1>2. QED
    BY <1>1, Invariance, PTL

\* The thread ends only when its source is gone and no message is left in the
\* channel (Err(Disconnected)).
THEOREM EndsAfterLastMessage == Spec => [](pc = "gone" => ~watching /\ channel = <<>>)
  <1>1. IInv => (pc = "gone" => ~watching /\ channel = <<>>)
    BY DEF IInv, FinalInv
  <1>2. QED
    BY <1>1, Invariance, PTL
-----------------------------------------------------------------------------
(* The counters stay within their bounds, the delay of a retry among them:  *)
(* it doubles with every failure and is capped.                             *)
Bounds ==
    /\ lost \subseteq Files /\ edits \in 0 .. MaxEdits
    /\ failures \in 0 .. MaxFailures
    /\ deadline \in 0 .. Quiet /\ age \in 0 .. BatchAge
    /\ reconcile \in 0 .. Interval /\ retry \in 0 .. Greatest(RetryCap, Debounce)
    /\ mutex \in {"free", "watcher", "tool"}

\* The arithmetic of powers, by way of the subsets of an interval.
LEMMA PowerOfTwo ==
  ASSUME NEW n \in Nat
  PROVE  2 ^ n \in Nat
  <1>1. IsFiniteSet(1 .. n) /\ Cardinality(1 .. n) = n
    BY FS_Interval
  <1>2. IsFiniteSet(SUBSET (1 .. n)) /\ Cardinality(SUBSET (1 .. n)) = 2 ^ n
    BY <1>1, FS_SUBSET
  <1>3. QED
    BY <1>2, FS_CardinalityType

\* The delay of a retry is capped (BatchState::retry_delay).
LEMMA RetryDelayCapped ==
  ASSUME NEW n \in Nat \ {0}
  PROVE  RetryDelay(n) \in 0 .. Greatest(RetryCap, Debounce)
  <1>1. RetryCap \in Nat /\ Debounce \in Nat
    BY WatcherAssumption
  <1> DEFINE power == 2 ^ (n - 1)
  <1>2. power \in Nat
    BY PowerOfTwo
  <1>3. Debounce * power \in Nat
    <2> HIDE DEF power
    <2>1. QED
      BY <1>1, <1>2
  <1>4. Greatest(RetryCap, Debounce) \in Nat
    BY <1>1 DEF Greatest
  <1>5. \A a, b \in Nat : Least(a, b) \in 0 .. b
    BY DEF Least
  <1>6. QED
    BY <1>3, <1>4, <1>5 DEF RetryDelay

\* A tick takes one from every timer that still runs.
LEMMA DownStays ==
  ASSUME NEW n \in Nat, NEW k \in 0 .. n
  PROVE  Down(k) \in 0 .. n
  BY DEF Down

LEMMA BoundsKept == IInv /\ Bounds /\ [Next]_vars => Bounds'
  <1> SUFFICES ASSUME IInv, Bounds, [Next]_vars PROVE Bounds'
    OBVIOUS
  <1> USE DEF disk, source, timers, thread, shared
  <1>1. /\ {Quiet, MaxEdits} \subseteq Nat /\ Hot \subseteq Files /\ Unreported \subseteq Files
        /\ {BatchAge, Interval, Debounce, RetryCap, MaxFailures} \subseteq Nat \ {0}
        /\ Greatest(RetryCap, Debounce) \in Nat
    BY WatcherAssumption DEF Greatest
  <1>2. ASSUME NEW f \in Files, Edit(f) PROVE Bounds'
    <2>1. lost' \subseteq Files /\ edits' \in 0 .. MaxEdits
      BY <1>1, <1>2 DEF Edit, Bounds
    <2>2. QED
      BY <1>2, <2>1 DEF Edit, Bounds
  <1>3. CASE Deliver \/ SendRescan \/ Unwatch
    BY <1>3 DEF Deliver, SendRescan, Unwatch, Bounds
  <1>4. CASE Top
    <2>1. retry' \in 0 .. Greatest(RetryCap, Debounce)
      BY <1>1, <1>4, RetryDelayCapped DEF Top, Owed, Bounds
    <2>2. QED
      BY <1>4, <2>1 DEF Top, Bounds
  <1>5. CASE Tick
    <2>1. /\ deadline' \in 0 .. Quiet /\ age' \in 0 .. BatchAge
          /\ reconcile' \in 0 .. Interval /\ retry' \in 0 .. Greatest(RetryCap, Debounce)
      BY <1>1, <1>5, DownStays DEF Tick, Bounds
    <2>2. QED
      BY <1>5, <2>1 DEF Tick, Bounds
  <1>6. CASE Receive
    <2>1. deadline' \in 0 .. Quiet /\ age' \in 0 .. BatchAge
      BY <1>1, <1>6 DEF Receive, Proceed, BatchDeadline, Least, Bounds
    <2>2. QED
      BY <1>6, <2>1 DEF Receive, Bounds
  <1>7. CASE Expire \/ Disconnect
    BY <1>1, <1>7 DEF Expire, Disconnect, Proceed, Bounds
  <1>8. CASE Apply
    BY <1>8 DEF Apply, Bounds
  <1>9. CASE Succeed
    <2>1. lost' \subseteq Files
      BY <1>9 DEF Succeed, Indexed, Bounds
    <2>2. QED
      BY <1>1, <1>9, <2>1 DEF Succeed, Applied, Bounds
  <1>10. CASE Fail
    <2>1. failures' \in 0 .. MaxFailures
      BY <1>1, <1>10 DEF Fail, Least, Bounds
    <2>2. QED
      BY <1>1, <1>10, <2>1 DEF Fail, Applied, Bounds
  <1>11. CASE ToolLocks \/ ToolReturns
    <2>1. lost' \subseteq Files
      BY <1>11 DEF ToolLocks, ToolReturns, Indexed, Bounds
    <2>2. QED
      BY <1>11, <2>1 DEF ToolLocks, ToolReturns, Bounds
  <1>12. CASE UNCHANGED vars
    BY <1>12 DEF vars, Bounds
  <1>13. QED
    BY <1>2, <1>3, <1>4, <1>5, <1>6, <1>7, <1>8, <1>9, <1>10, <1>11, <1>12 DEF Next

\* Every variable keeps its type and every counter its bound: the retry delay
\* is capped however often an update fails, no timer runs below zero, and the
\* channel never holds a second message (background.rs).
THEOREM TypeCorrect == Spec => []TypeOK
  <1>1. Init => Bounds
    <2> SUFFICES ASSUME Init PROVE Bounds
      OBVIOUS
    <2>1. Greatest(RetryCap, Debounce) \in Nat
      BY WatcherAssumption DEF Greatest
    <2>2. QED
      BY <2>1, WatcherAssumption DEF Init, Bounds
  <1>2. IInv /\ Bounds => TypeOK
    <2> SUFFICES ASSUME IInv, Bounds PROVE TypeOK
      OBVIOUS
    <2>1. channel \in Seq(Changed) /\ Len(channel) <= 1
      <3>1. \A m \in Changed : <<m>> \in Seq(Changed) /\ Len(<<m>>) <= 1
        OBVIOUS
      <3>2. <<>> \in Seq(Changed) /\ Len(<<>>) <= 1
        OBVIOUS
      <3>3. QED
        BY <3>1, <3>2 DEF IInv, Types
    <2>2. QED
      BY <2>1 DEF IInv, Types, Bounds, TypeOK
  <1>3. QED
    BY <1>1, <1>2, Invariance, BoundsKept, PTL DEF Spec
=============================================================================
