------------------------------ MODULE Watcher ------------------------------
(***************************************************************************)
(* The background reindexer, after crates/mct-mcp-server/src/background.rs.*)
(*                                                                         *)
(* The debouncer's thread classifies each settled batch of file events and *)
(* hands it over a channel of one place; when the place is taken it drops  *)
(* the batch and blocks until it can send a demand for a full walk.  The   *)
(* watcher's thread gathers batches until the project has been quiet for a *)
(* while (or the first batch is too old), takes the mutex it shares with   *)
(* the tool calls and runs the update.  A failed update leaves a full walk *)
(* owed; a walk is also due when nothing ran for a reconciliation interval.*)
(*                                                                         *)
(* Time is counted in ticks and passes only while the thread waits for a   *)
(* message: how long a run or a lock takes decides nothing, since every    *)
(* timer is set after it.                                                  *)
(***************************************************************************)
EXTENDS Naturals, FiniteSets, Sequences

CONSTANTS
    Files,         \* files outside the exclusion rules
    Hot,           \* those some program writes again and again, without end
    Unreported,    \* those whose events the platform may lose, with or without notice
    MaxPaths,      \* MAX_INCREMENTAL_PATHS
    Quiet,         \* debounce - coalesce: the quiet period, in ticks
    BatchAge,      \* MAX_BATCH_AGE
    Interval,      \* reconciliation_interval
    Debounce,      \* debounce, from which the retry delay is computed
    RetryCap,      \* MAX_RETRY_DELAY
    MaxFailures,   \* bound: consecutive failures told apart (a u32 in the code)
    MaxEdits       \* bound: edits of the files that are not hot

ASSUME WatcherAssumption ==
    /\ Hot \subseteq Files /\ Unreported \subseteq Files
    /\ {MaxPaths, Quiet, MaxEdits} \subseteq Nat
    /\ {BatchAge, Interval, Debounce, RetryCap, MaxFailures} \subseteq Nat \ {0}

VARIABLES
    stale,      \* files whose rows in the index differ from the disk
    lost,       \* files with a change no event will ever report
    edits,      \* edits left to the files that are not hot
    watching,   \* the Debouncer guard is alive
    raw,        \* what the debouncer has gathered and not yet delivered
    handler,    \* the callback: "idle", or "blocked" in tx.send(Rescan)
    channel,    \* the messages in sync_channel(1)
    pc,         \* the watcher's thread
    pending,    \* changes waiting for the quiet period to end
    scope,      \* what the update being run was asked to do
    final,      \* watcher_disconnected
    failures,   \* BatchState.failures
    deadline,   \* ticks to the end of the quiet period
    age,        \* ticks until the first pending batch is MAX_BATCH_AGE old
    retry,      \* ticks until an owed walk is tried again
    reconcile,  \* ticks until reconcile_at
    mutex,      \* holder of the index: "free", "watcher" or "tool"
    racing      \* files written since the mutex was last taken

disk   == <<stale, lost, edits>>
source == <<watching, raw, handler, channel>>
timers == <<deadline, age, retry, reconcile>>
thread == <<pc, pending, scope, final, failures>>
shared == <<mutex, racing>>
vars   == <<disk, source, timers, thread, shared>>

(***************************************************************************)
(* enum Changed: a full walk, or the set of paths to update; no path and   *)
(* no walk is Changed::Nothing.                                            *)
(***************************************************************************)
Changed == [walk : BOOLEAN, paths : SUBSET Files]
Rescan  == [walk |-> TRUE,  paths |-> {}]
Paths(P) == IF Cardinality(P) > MaxPaths THEN Rescan ELSE [walk |-> FALSE, paths |-> P]
Nothing == [walk |-> FALSE, paths |-> {}]

\* Mutant: a demand to rescan is not looked for among the events.
ClassifyPaths(batch) == Paths(batch.paths)

\* changed_paths: what a delivered batch asks for.
Classify(batch) == IF batch.walk THEN Rescan ELSE Paths(batch.paths)

\* merge_changed.
Merge(a, b) == IF a.walk \/ b.walk THEN Rescan ELSE Paths(a.paths \cup b.paths)

\* The files an update of this scope looks at.
Covers(change) == IF change.walk THEN Files ELSE change.paths

Least(m, n) == IF m < n THEN m ELSE n
Greatest(m, n) == IF m > n THEN m ELSE n
Down(n) == IF n = 0 THEN 0 ELSE n - 1

Owed == failures > 0
RetryDelay(n) == Least(Debounce * 2 ^ (n - 1), Greatest(RetryCap, Debounce))

TypeOK ==
    /\ stale \subseteq Files /\ lost \subseteq Files /\ edits \in 0 .. MaxEdits
    /\ watching \in BOOLEAN /\ raw \in Changed /\ handler \in {"idle", "blocked"}
    /\ channel \in Seq(Changed) /\ Len(channel) <= 1
    /\ pc \in {"top", "due", "receive", "lock", "run", "gone"}
    /\ pending \in Changed /\ scope \in Changed /\ final \in BOOLEAN
    /\ failures \in 0 .. MaxFailures
    /\ deadline \in 0 .. Quiet /\ age \in 0 .. BatchAge
    /\ reconcile \in 0 .. Interval /\ retry \in 0 .. Greatest(RetryCap, Debounce)
    /\ mutex \in {"free", "watcher", "tool"} /\ racing \subseteq Files

(***************************************************************************)
(* The watch starts after the initial index; a file written in between is  *)
(* stale and was reported to nobody.                                       *)
(***************************************************************************)
Init ==
    /\ lost \in SUBSET Unreported /\ stale = lost
    /\ edits = MaxEdits
    /\ watching = TRUE /\ raw = Nothing /\ handler = "idle" /\ channel = <<>>
    /\ pc = "top" /\ pending = Nothing /\ scope = Nothing
    /\ final = FALSE /\ failures = 0
    /\ deadline = 0 /\ age = 0 /\ retry = 0 /\ reconcile = Interval
    /\ mutex = "free" /\ racing = {}

-----------------------------------------------------------------------------
(* The files and the platform's notifications.                             *)

\* A file is written.  The event reaches the debouncer; or the platform says
\* that it dropped events; or, for some files, nothing is ever reported.
Edit(f) ==
    /\ IF f \in Hot THEN UNCHANGED edits ELSE edits > 0 /\ edits' = edits - 1
    /\ stale' = stale \cup {f}
    /\ racing' = IF mutex = "free" THEN racing ELSE racing \cup {f}
    /\ \/ watching /\ raw' = [raw EXCEPT !.paths = @ \cup {f}] /\ UNCHANGED lost
       \/ watching /\ f \in Unreported /\ raw' = [raw EXCEPT !.walk = TRUE] /\ UNCHANGED lost
       \/ (f \in Unreported \/ ~watching) /\ lost' = lost \cup {f} /\ UNCHANGED raw
    /\ UNCHANGED <<watching, handler, channel, timers, thread, mutex>>

\* The callback gets a settled batch (of accesses and excluded paths only,
\* when nothing was gathered) and tries to send it.
Deliver ==
    /\ watching /\ handler = "idle"
    /\ raw' = Nothing
    /\ \/ pc = "gone" /\ UNCHANGED <<handler, channel>>     \* Disconnected
       \/ pc # "gone" /\ channel = <<>> /\ channel' = <<Classify(raw)>> /\ UNCHANGED handler
       \/ pc # "gone" /\ channel # <<>> /\ handler' = "blocked" /\ UNCHANGED channel
    /\ UNCHANGED <<disk, watching, timers, thread, shared>>

\* The blocked tx.send(Changed::Rescan) returns.
SendRescan ==
    /\ handler = "blocked"
    /\ channel = <<>> \/ pc = "gone"
    /\ handler' = "idle"
    /\ channel' = IF pc = "gone" THEN channel ELSE <<Rescan>>
    /\ UNCHANGED <<disk, watching, raw, timers, thread, shared>>

\* The guard is dropped: what the debouncer still held is never delivered.
Unwatch ==
    /\ watching /\ watching' = FALSE
    /\ raw' = Nothing
    /\ UNCHANGED <<disk, handler, channel, timers, thread, shared>>

Disconnected == ~watching /\ handler = "idle"

-----------------------------------------------------------------------------
(* The watcher's thread.                                                   *)

\* wait_until has passed.
Due == \/ pending # Nothing /\ deadline = 0
       \/ pending = Nothing /\ reconcile = 0
       \/ pending = Nothing /\ Owed /\ retry = 0

\* Mutant: recv_timeout is called even when the deadline has passed.
TopPatient ==
    /\ pc = "top" /\ pc' = "receive"
    /\ retry' = IF pending = Nothing /\ Owed THEN RetryDelay(failures) ELSE 0
    /\ UNCHANGED <<disk, source, pending, scope, final, failures, deadline, age, reconcile, shared>>

\* The head of the loop: an expired deadline goes before a queued message.
Top ==
    /\ pc = "top"
    /\ retry' = IF pending = Nothing /\ Owed THEN RetryDelay(failures) ELSE 0
    /\ pc' = IF (pending # Nothing /\ deadline = 0) \/ (pending = Nothing /\ reconcile = 0)
             THEN "due" ELSE "receive"
    /\ UNCHANGED <<disk, source, pending, scope, final, failures, deadline, age, reconcile, shared>>

\* A tick of the clock, while the thread waits in recv_timeout.
Tick ==
    /\ pc = "receive" /\ ~Due /\ (channel # <<>> \/ ~Disconnected)
    /\ deadline' = Down(deadline) /\ age' = Down(age)
    /\ retry' = Down(retry) /\ reconcile' = Down(reconcile)
    /\ UNCHANGED <<disk, source, thread, shared>>

\* Past the match: take what is pending and, unless there is nothing to do,
\* go for the index.
Proceed(change) ==
    /\ pending' = Nothing /\ scope' = change
    /\ deadline' = 0 /\ age' = 0
    /\ pc' = IF change = Nothing /\ ~Owed THEN "top" ELSE "lock"

\* Mutant: every batch restarts the whole quiet period.
BatchDeadlineUncapped(left) == Quiet

\* batch_deadline, when the first pending batch has `left' ticks to MAX_BATCH_AGE.
BatchDeadline(left) == Least(Quiet, left)

\* Ok(batch).
Receive ==
    /\ pc = "receive" /\ channel # <<>>
    /\ channel' = Tail(channel)
    /\ LET batch    == Head(channel)
           gathered == Merge(pending, batch)
           left     == IF pending = Nothing THEN BatchAge ELSE age
           quiet    == IF batch = Nothing THEN deadline ELSE BatchDeadline(left)
       IN  IF gathered # Nothing /\ quiet > 0
             THEN /\ pending' = gathered /\ deadline' = quiet
                  /\ age' = IF batch = Nothing THEN age ELSE left
                  /\ pc' = "top"
                  /\ UNCHANGED scope
             ELSE Proceed(gathered)
    /\ UNCHANGED <<disk, watching, raw, handler, retry, reconcile, final, failures, shared>>

\* Err(Timeout).
Expire ==
    /\ pc = "due" \/ (pc = "receive" /\ Due /\ channel = <<>> /\ ~Disconnected)
    /\ Proceed(IF pending = Nothing /\ (Owed \/ reconcile = 0) THEN Rescan ELSE pending)
    /\ UNCHANGED <<disk, source, retry, reconcile, final, failures, shared>>

\* Mutant: the final reconciliation is not remembered as final.
DisconnectAgain ==
    /\ pc = "receive" /\ channel = <<>> /\ Disconnected
    /\ Proceed(Rescan)
    /\ UNCHANGED <<disk, source, retry, reconcile, final, failures, shared>>

\* Err(Disconnected).
Disconnect ==
    /\ pc = "receive" /\ channel = <<>> /\ Disconnected
    /\ final' = TRUE
    /\ Proceed(Rescan)
    /\ UNCHANGED <<disk, source, retry, reconcile, failures, shared>>

\* Mutant: an owed walk does not replace what the batch asks for.
ApplyAsAsked ==
    /\ pc = "lock" /\ mutex = "free"
    /\ mutex' = "watcher" /\ racing' = {}
    /\ pc' = "run"
    /\ scope' = IF Owed /\ scope = Nothing THEN Rescan ELSE scope
    /\ UNCHANGED <<disk, source, timers, pending, final, failures>>

\* index.blocking_lock(), then BatchState::apply decides what to run.
Apply ==
    /\ pc = "lock" /\ mutex = "free"
    /\ mutex' = "watcher" /\ racing' = {}
    /\ pc' = "run"
    /\ scope' = IF Owed THEN Rescan ELSE scope
    /\ UNCHANGED <<disk, source, timers, pending, final, failures>>

\* A committed run brings the files it covers up to date, except those that
\* were written after it had read them.
Indexed(change) ==
    \E missed \in SUBSET racing :
        /\ stale' = stale \ (Covers(change) \ missed)
        /\ lost'  = lost  \ (Covers(change) \ missed)

Applied ==
    /\ pc = "run"
    /\ mutex' = "free"
    /\ reconcile' = Interval
    /\ pc' = IF final THEN "gone" ELSE "top"
    /\ UNCHANGED <<edits, source, pending, scope, final, deadline, age, retry, racing>>

Succeed ==
    /\ Applied
    /\ Indexed(scope)
    /\ failures' = 0

\* Mutant: the counter does not saturate.
FailCounting ==
    /\ Applied
    /\ failures' = failures + 1
    /\ UNCHANGED <<stale, lost>>

\* The transaction is rolled back; the paths will not be reported again.
Fail ==
    /\ Applied
    /\ failures' = Least(failures + 1, MaxFailures)
    /\ UNCHANGED <<stale, lost>>

-----------------------------------------------------------------------------
(* The tool calls that share the index.                                    *)

ToolLocks ==
    /\ mutex = "free" /\ mutex' = "tool" /\ racing' = {}
    /\ UNCHANGED <<disk, source, timers, thread>>

\* A query, a failed reindex, or a successful one.
ToolReturns ==
    /\ mutex = "tool" /\ mutex' = "free"
    /\ Indexed(Rescan) \/ UNCHANGED <<stale, lost>>
    /\ UNCHANGED <<edits, source, timers, thread, racing>>

-----------------------------------------------------------------------------
Next ==
    \/ \E f \in Files : Edit(f)
    \/ Deliver \/ SendRescan \/ Unwatch
    \/ Top \/ Tick \/ Receive \/ Expire \/ Disconnect
    \/ Apply \/ Succeed \/ Fail
    \/ ToolLocks \/ ToolReturns

Spec == Init /\ [][Next]_vars

(***************************************************************************)
(* The threads are scheduled, time passes, what the debouncer gathered is  *)
(* delivered, and a tool call returns.  The mutex is a tokio Mutex, whose  *)
(* queue is first come first served.  An update that is tried again and    *)
(* again is assumed to succeed at last: the code promises to retry, not    *)
(* that the disk or the database recovers.                                 *)
(***************************************************************************)
Fairness ==
    /\ WF_vars(raw # Nothing /\ Deliver) /\ WF_vars(SendRescan)
    /\ WF_vars(Top) /\ WF_vars(Receive) /\ WF_vars(Expire) /\ WF_vars(Disconnect)
    /\ SF_vars(Tick) /\ WF_vars(ToolReturns)
    /\ SF_vars(Apply) /\ WF_vars(Succeed \/ Fail) /\ SF_vars(Succeed)

FairSpec == Spec /\ Fairness

-----------------------------------------------------------------------------
(* Safety.                                                                 *)

\* What somebody still carries towards the index: the debouncer, the channel,
\* the blocked callback, the pending set or the update about to run or running.
Carried ==
    Covers(raw) \cup Covers(pending)
        \cup (IF channel = <<>> THEN {} ELSE Covers(channel[1]))
        \cup (IF handler = "blocked" THEN Files ELSE {})
        \cup (IF pc \in {"lock", "run"} THEN Covers(scope) ELSE {})

(***************************************************************************)
(* No change that was reported is forgotten: as long as the index does not *)
(* have it, it is on its way, or a full walk is owed for a failed update,  *)
(* or the final reconciliation is still to come.  A batch dropped on a     *)
(* full channel, a failed update followed by a successful one of other     *)
(* paths, a write during a run and the guard dropped with events gathered  *)
(* are the ways to forget one.  After the thread has gone, its last update *)
(* either failed or left nothing behind but what nobody could report.      *)
(***************************************************************************)
NothingForgotten ==
    stale \subseteq Carried \cup lost
    \/ Owed
    \/ (~watching /\ ~final)

(***************************************************************************)
(* Liveness.                                                               *)
(***************************************************************************)
(* A reported change is indexed, however many irrelevant events arrive and *)
(* whatever other files are written without end: MAX_BATCH_AGE bounds the  *)
(* quiet period, and failed updates are retried.                           *)
(***************************************************************************)
ReportedChangeIndexed ==
    \A f \in Files \ Hot :
        (f \in stale \ lost) ~> (f \notin stale \/ f \in lost \/ pc = "gone")

(***************************************************************************)
(* A change whose event was lost is found by the periodic reconciliation:  *)
(* main.rs:29, "Seconds between full reconciliation scans while the        *)
(* filesystem watcher is active", background.rs:202, "Reconcile missed     *)
(* notifications even when the watcher is otherwise idle".                 *)
(***************************************************************************)
LostChangeReconciled ==
    \A f \in Files \ Hot : f \in stale ~> (f \notin stale \/ pc = "gone")

\* Dropping the guard ends the thread, after one final reconciliation.
StopsWhenUnwatched == ~watching ~> pc = "gone"
=============================================================================
