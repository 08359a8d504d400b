------------------------------ MODULE Indexer -------------------------------
(***************************************************************************)
(* Index runs of one process over a working tree that keeps changing,      *)
(* after crates/mct-index/src/indexer.rs, the ignore rules it consults     *)
(* (exclude.rs) and the entry points of lib.rs.                            *)
(*                                                                         *)
(* A run is one SQLite transaction.  It visits the tree file by file, so   *)
(* the tree, its permissions and its ignore file change between any two    *)
(* steps, and a clone of the rule set held by the watcher may reload the   *)
(* rules under the run.  A full run walks every directory and sweeps what  *)
(* it did not see; a run over reported paths looks at those only.          *)
(*                                                                         *)
(* A file's stored rows (symbols, relations, literals, embeddings cascade  *)
(* from it) are one value, the hash they were parsed from.  Directories    *)
(* are flat and excluded directories are the files in them.  Manifests and *)
(* assets, which have tables and hashes of their own, are left out.  Other *)
(* processes are kept out of a run by the writer lock (Coordination).      *)
(***************************************************************************)
EXTENDS Naturals, FiniteSets

CONSTANTS
    Files, Dirs,     \* paths of the tree
    DirOf,           \* DirOf[f]: the directory of f
    NameOf,          \* NameOf[f]: its last component
    Parsed,          \* files with an extension some registered parser takes
    Pending,         \* files of a language known to have no parser yet
    Hashes,          \* contents a parser accepts
    Odd,             \* other contents a file may get, of OddContents
    Deniable,        \* paths whose permissions the user may take away
    Batches,         \* sets of paths a reindex_paths may be given
    MaxEdits,        \* bound: changes of the user, restarts and reloads that stand still
    MaxGeneration,   \* bound: stands for i64::MAX in touch_last_indexed_at
    CommitMayFail    \* whether the end of a run may fail after its last write

OddContents == {"broken", "foreign", "binary"}
Absent == "absent"
NoRow  == "none"
Nobody == "nobody"

ASSUME DirOfAssumption == \A f \in Files : DirOf[f] \in Dirs
ASSUME PathAssumption  == Files \intersect Dirs = {} /\ Nobody \notin Files \union Dirs
ASSUME KindAssumption  == Parsed \subseteq Files /\ Pending \subseteq Files \ Parsed
ASSUME ContentAssumption ==
    /\ Odd \subseteq OddContents
    /\ Hashes \intersect (OddContents \union {Absent, NoRow}) = {}
ASSUME BatchAssumption == Batches \subseteq (SUBSET (Files \union Dirs)) \ {{}}
ASSUME BoundAssumption ==
    MaxEdits \in Nat /\ MaxGeneration \in Nat /\ CommitMayFail \in BOOLEAN

VARIABLES
    disk,       \* content of each file
    denied,     \* paths that cannot be read, or searched if directories
    ruleFile,   \* files the ignore files on disk exclude
    edits,      \* how many of them there were
    rules,      \* the ExcludeSet: excluded files and generation, shared by clones
    held,       \* ignore files that clones have read and not yet swapped in
    applied,    \* Index.applied_exclusions
    db,         \* the committed database
    work,       \* the database as the open transaction sees it
    run,        \* the run in progress
    ready,      \* a full run committed since this process opened the index
    dirty,      \* history: files that changed since a run last covered them
    changed,    \* history: files that changed since the run in progress began
    walkedWith, \* history: the excluded files as the last full run began
    owes        \* history: owes[g]: files moved to g without an event of their own

env     == <<disk, denied, ruleFile, edits>>
history == <<dirty, changed, walkedWith, owes>>
ruleSet == <<rules, held>>
vars    == <<env, ruleSet, applied, db, work, run, ready, history>>

Node   == Hashes \union Odd \union {Absent}
Paths  == Files \union Dirs

\* UnsupportedKind
IssueKinds == {"syntax", "read", "language"}

Database == [rows       : [Files -> Hashes \union {NoRow}],
             issues     : SUBSET (Paths \X IssueKinds),
             generation : 0 .. MaxGeneration,
             reconciled : 0 .. MaxGeneration]

Idle == [kind |-> "none", force |-> FALSE, todo |-> {}, covers |-> {}, walk |-> Nobody,
         listed |-> {}, seen |-> {}, unreadable |-> {}, created |-> {},
         reading |-> Nobody, was |-> FALSE, content |-> Absent, gen |-> 0, rules |-> {},
         before |-> 0, ending |-> FALSE]

Running == run.kind # "none"
Under(d) == {f \in Files : DirOf[f] = d}

CanReach(f) == DirOf[f] \notin denied
CanRead(f)  == CanReach(f) /\ f \notin denied

TypeOK ==
    /\ disk     \in [Files -> Node]
    /\ denied   \subseteq Deniable
    /\ ruleFile \subseteq Files
    /\ edits    \in 0 .. MaxEdits
    /\ rules    \in [excluded : SUBSET Files, generation : Nat]
    /\ held     \subseteq SUBSET Files
    /\ applied  \in Nat
    /\ db       \in Database
    /\ work     \in Database
    /\ run.kind \in {"none", "full", "paths"}
    /\ run.reading \in Files \union {Nobody}
    /\ ready    \in BOOLEAN
    /\ dirty    \subseteq Files
    /\ changed  \subseteq Files
    /\ walkedWith \subseteq Files
    /\ owes     \in [Files -> SUBSET Files]

Init ==
    /\ disk     \in [Files -> Node]
    /\ denied   = {}
    /\ ruleFile = {}
    /\ edits    = 0
    /\ rules    = [excluded |-> {}, generation |-> 0]
    /\ held     = {}
    /\ applied  = 0
    /\ db       = [rows |-> [f \in Files |-> NoRow], issues |-> {},
                   generation |-> 0, reconciled |-> 0]
    /\ work     = db
    /\ run      = Idle
    /\ ready    = FALSE
    /\ dirty    = {f \in Files : disk[f] # Absent}
    /\ changed  = {}
    /\ walkedWith = {}
    /\ owes     = [f \in Files |-> {}]

-----------------------------------------------------------------------------
(* The user.                                                               *)

\* The files of F changed; whatever was owed to a file that changes again is
\* no longer found by its content.
Touch(F) ==
    LET lost == UNION {owes[f] : f \in F}
    IN  /\ dirty'   = dirty \union F \union lost
        /\ changed' = IF Running THEN changed \union F \union lost ELSE {}
        /\ owes'    = [f \in Files |-> IF f \in F THEN {} ELSE owes[f]]

Spend == edits < MaxEdits /\ edits' = edits + 1

Edit(f, c) ==
    /\ Spend
    /\ disk[f] # c
    /\ disk' = [disk EXCEPT ![f] = c]
    /\ Touch({f})
    /\ UNCHANGED <<denied, ruleFile, ruleSet, applied, db, work, run, ready, walkedWith>>

SetDenied(p) ==
    /\ Spend
    /\ denied' = IF p \in denied THEN denied \ {p} ELSE denied \union {p}
    /\ Touch(IF p \in Files THEN {p} ELSE Under(p))
    /\ UNCHANGED <<disk, ruleFile, ruleSet, applied, db, work, run, ready, walkedWith>>

SetRule(f) ==
    /\ Spend
    /\ ruleFile' = IF f \in ruleFile THEN ruleFile \ {f} ELSE ruleFile \union {f}
    /\ Touch({f})
    /\ UNCHANGED <<disk, denied, ruleSet, applied, db, work, run, ready, walkedWith>>

HasRows(w, f) == w.rows[f] # NoRow \/ \E k \in IssueKinds : <<f, k>> \in w.issues

\* A rename reported by its new path only, as macOS does.  The old end is found
\* when the new one is indexed for the first time, by the hash of its rows: of
\* files without a parser such a rename may stay unnoticed, and is not made here.
RenameUnreported(f, g) ==
    /\ Spend
    /\ ~Running
    /\ {f, g} \subseteq Parsed
    /\ disk[f] \in Hashes /\ disk[g] = Absent
    /\ f \notin dirty /\ g \notin dirty /\ owes[f] = {}
    /\ ~HasRows(db, g)
    /\ {f, g} \intersect (ruleFile \union rules.excluded) = {}
    /\ CanRead(f) /\ CanRead(g)
    /\ disk'  = [disk EXCEPT ![g] = disk[f], ![f] = Absent]
    /\ dirty' = dirty \union {g}
    /\ owes'  = [owes EXCEPT ![g] = @ \union {f}]
    /\ UNCHANGED <<denied, ruleFile, ruleSet, applied, db, work, run, ready, walkedWith, changed>>

-----------------------------------------------------------------------------
(* What a visit does to the open transaction.                              *)

Flag(w, p, kind) == [w EXCEPT !.issues = @ \union {<<p, kind>>}]
Clear(w, p, kind) == [w EXCEPT !.issues = @ \ {<<p, kind>>}]

\* DELETE of every row of the paths in gone.
Forget(w, gone) ==
    [w EXCEPT !.rows   = [f \in Files |-> IF f \in gone THEN NoRow ELSE @[f]],
              !.issues = {i \in @ : i[1] \notin gone}]

\* The rows a parsed, broken, foreign or binary content leaves.
Store(w, f, c) ==
    CASE c \in Hashes    -> [w EXCEPT !.rows[f] = c,
                                      !.issues  = {i \in @ : i[1] # f}]
      [] c \in {"broken", "foreign"} -> Flag([w EXCEPT !.rows[f] = NoRow], f, "syntax")
      [] c = "binary"    -> Clear([w EXCEPT !.rows[f] = NoRow], f, "syntax")

\* Mutant: what could not be read is swept like what is gone.
NothingRetained(f, unreadable) == FALSE

\* is_retained
Retained(f, unreadable) == f \in unreadable \/ DirOf[f] \in unreadable

\* on_disk_as_stored: canonicalize also fails where a directory denies search.
OnDisk(f) == disk[f] # Absent /\ CanReach(f)

-----------------------------------------------------------------------------
(* The rules.                                                              *)

\* try_reload over an ignore file that says what text says: the rules of all
\* clones of the set.
Swapped(r, text) ==
    IF text = r.excluded THEN r
    ELSE [excluded |-> text, generation |-> r.generation + 1]

\* try_reload of this handle or of a clone, with nothing between its steps.
Reloaded == Swapped(rules, ruleFile)

\* The watcher's clone reloads the rules when it sees the ignore file change.
ReloadElsewhere ==
    /\ ruleFile # rules.excluded
    /\ rules' = Reloaded
    /\ UNCHANGED <<env, held, applied, db, work, run, ready, history>>

\* try_reload holds no lock from the reading of the ignore file to the swap: a
\* clone that has read it waits here, ...
HoldRules ==
    /\ Spend
    /\ held' = held \union {ruleFile}
    /\ UNCHANGED <<disk, denied, ruleFile, rules, applied, db, work, run, ready, history>>

\* ... and swaps in what it read, however old, if that is not what the set has.
LateSwap(r) ==
    \E text \in held : /\ rules' = Swapped(r, text)
                       /\ held'  = held \ {text}

\* The files that rules r take for what the ignore file no longer says they are.
Astray(r) == {f \in Files : (f \in r.excluded) # (f \in ruleFile)}

SwapElsewhere ==
    /\ LateSwap(rules)
    /\ dirty'   = dirty \union Astray(rules')
    /\ changed' = IF Running THEN changed \union Astray(rules') ELSE {}
    /\ UNCHANGED <<env, applied, db, work, run, ready, walkedWith, owes>>

-----------------------------------------------------------------------------
(* Starting a run.                                                         *)

Start(r) ==
    /\ ~Running
    /\ work'    = db
    /\ run'     = [r EXCEPT !.before = applied]
    /\ changed' = {}
    /\ UNCHANGED <<env, applied, db, ready, walkedWith, owes>>

\* reindex: reload, remember the generation, then walk.  A clone may swap in
\* what it had read between the first two.
BeginFull(force) ==
    /\ \/ rules' = Reloaded /\ UNCHANGED held
       \/ LateSwap(Reloaded)
    /\ dirty' = dirty \union Astray(rules')
    /\ Start([Idle EXCEPT !.kind = "full", !.force = force, !.todo = Dirs,
                          !.covers = Files \ Astray(rules'),
                          !.gen = rules'.generation, !.rules = rules'.excluded])

\* reindex_paths: when the ignore file is among the paths and its rules
\* changed, the run becomes a full one, whose own try_reload then finds nothing.
\* (So it does when the root of the project is among them: BeginFull again.)
BeginPaths(P, withRules) ==
    IF withRules /\ ruleFile # rules.excluded
    THEN BeginFull(FALSE)
    ELSE /\ Start([Idle EXCEPT !.kind   = "paths",
                               !.todo   = P,
                               !.gen    = rules.generation,
                               !.covers = IF ruleFile = rules.excluded
                                          THEN ((P \intersect Files) \union
                                                UNION {Under(d) : d \in P \intersect Dirs})
                                               \ rules.excluded
                                          ELSE {}])
         /\ UNCHANGED <<ruleSet, dirty>>

-----------------------------------------------------------------------------
(* Visiting.                                                               *)

Ready  == Running /\ ~run.ending /\ run.listed = {} /\ run.reading = Nobody
Rest   == <<env, ruleSet, applied, db, ready, history>>

\* A directory of the walk; a reported one is a walk of its own.  An error
\* retains everything under it.
ListDir(d) ==
    /\ Ready
    /\ run.walk = Nobody
    /\ d \in run.todo
    /\ LET walking == IF run.kind = "paths"
                      THEN [run EXCEPT !.todo = @ \ {d}, !.walk = d,
                                       !.seen = {}, !.unreadable = {}]
                      ELSE [run EXCEPT !.todo = @ \ {d}]
       IN  \/ /\ d \in denied
              /\ work' = Flag(work, d, "read")
              /\ run'  = [walking EXCEPT !.unreadable = @ \union {d}]
           \/ /\ d \notin denied
              /\ run'  = [walking EXCEPT !.listed =
                             {f \in Under(d) \ rules.excluded : disk[f] # Absent}]
              /\ UNCHANGED work
    /\ UNCHANGED Rest

\* One reported path that is not a directory.
VisitPath(f) ==
    /\ Ready
    /\ run.walk = Nobody
    /\ f \in run.todo \intersect Files
    /\ LET next == [run EXCEPT !.todo = @ \ {f}]
       IN  \/ /\ f \in rules.excluded
              /\ run' = next /\ UNCHANGED work
           \/ /\ f \notin rules.excluded /\ ~CanReach(f)
              /\ run' = next /\ work' = Flag(work, f, "read")
           \/ /\ f \notin rules.excluded /\ CanReach(f) /\ disk[f] = Absent
              /\ run' = next /\ work' = Forget(work, {f})
           \/ /\ f \notin rules.excluded /\ CanReach(f) /\ disk[f] # Absent
              /\ run' = [next EXCEPT !.listed = {f}] /\ UNCHANGED work
    /\ UNCHANGED Rest

\* index_file returned Nothing.  A directory walk or a full run sweeps the
\* rows later; a single path drops its own.
Unseen(f) ==
    /\ run'  = [run EXCEPT !.listed = @ \ {f}]
    /\ work' = IF run.kind = "paths" /\ run.walk = Nobody THEN Forget(work, {f}) ELSE work

Unreadable(f) ==
    /\ run'  = [run EXCEPT !.listed = @ \ {f}, !.unreadable = @ \union {f}]
    /\ work' = Flag(work, f, "read")

\* index_noting_created
NoteCreated(r, f, was, w) ==
    IF ~was /\ HasRows(w, f) /\ r.kind = "paths"
    THEN [r EXCEPT !.created = @ \union {f}] ELSE r

\* index_file returned Source, leaving the transaction as w.
SeenAs(r, f, was, w) ==
    /\ work' = w
    /\ run'  = NoteCreated([r EXCEPT !.listed = @ \ {f}, !.seen = @ \union {f},
                                     !.reading = Nobody, !.was = FALSE,
                                     !.content = Absent], f, was, w)

\* index_file up to the parser: judge the path again, read and hash the bytes.
\* A file that no parser takes is noted and never read; a read failure on record
\* for it stays.
ReadFile(f) ==
    /\ Running /\ ~run.ending /\ run.reading = Nobody
    /\ f \in run.listed
    /\ LET c       == disk[f]
           cleared == Clear(work, f, "read")
           was     == HasRows(work, f)
       IN  \/ /\ f \in rules.excluded
              /\ CanReach(f)
              /\ Unseen(f)
           \/ /\ f \notin rules.excluded
              /\ c = Absent
              /\ CanReach(f)
              /\ Unseen(f)
           \/ /\ ~CanReach(f)
              /\ Unreadable(f)
           \/ /\ f \notin rules.excluded \union Parsed
              /\ c # Absent
              /\ CanReach(f)
              /\ SeenAs(run, f, was,
                        IF f \in Pending THEN Flag(work, f, "language") ELSE work)
           \/ /\ f \in Parsed \ rules.excluded \* gone between resolving and reading
              /\ c = Absent
              /\ CanReach(f)
              /\ Unreadable(f)
           \/ /\ f \in Parsed \ rules.excluded
              /\ c # Absent
              /\ CanReach(f) /\ f \in denied
              /\ Unreadable(f)
           \/ /\ f \in Parsed \ rules.excluded
              /\ c # Absent
              /\ CanRead(f)
              /\ IF ~run.force /\ work.rows[f] = c
                 THEN SeenAs(run, f, was, Clear(cleared, f, "syntax"))
                 ELSE IF c \in {"foreign", "binary"}
                 THEN SeenAs(run, f, was, Store(cleared, f, c))
                 ELSE /\ work' = cleared
                      /\ run'  = [run EXCEPT !.reading = f, !.was = was, !.content = c]
    /\ UNCHANGED Rest

\* The parser returned: the bytes are read again and must be the ones parsed.
WriteFile ==
    /\ run.reading # Nobody
    /\ LET f == run.reading
       IN  /\ CanRead(f) /\ disk[f] = run.content
           /\ SeenAs(run, f, run.was, Store(work, f, run.content))
    /\ UNCHANGED Rest

\* The end of one reported directory: rows under it that are not on disk go.
SweepDir ==
    /\ Ready
    /\ run.walk # Nobody
    /\ LET d    == run.walk
           gone == {f \in Under(d) : f \notin run.seen /\ ~Retained(f, run.unreadable)}
       IN  work' = Forget(work, gone \union (IF d \in run.unreadable THEN {} ELSE {d}))
    /\ run' = [run EXCEPT !.walk = Nobody, !.seen = {}, !.unreadable = {}]
    /\ UNCHANGED Rest

-----------------------------------------------------------------------------
(* Ending a run.                                                           *)

\* Mutant: every full walk counts as a full reconciliation.
StampAlways(w, full) ==
    [w EXCEPT !.generation = @ + 1, !.reconciled = w.generation + 1]

\* touch_last_indexed_at
Stamp(w, full) ==
    [w EXCEPT !.generation = @ + 1,
              !.reconciled = IF full THEN w.generation + 1 ELSE @]

\* Mutant: the generation is not checked before it is raised.
CanStampAlways == TRUE

CanStamp == work.generation < MaxGeneration

\* remove_missing_files: paths the rules exclude now, and those the walk did
\* not see although nothing kept it from looking.
Missing ==
    {f \in Files : \/ f \in rules.excluded
                   \/ f \notin run.seen /\ ~Retained(f, run.unreadable)}
        \union (Dirs \ run.unreadable)

\* Mutant: the generation of the rules is read after the walk.
FinishFullLate ==
    /\ run.kind = "full" /\ Ready /\ run.todo = {}
    /\ CanStamp
    /\ work'    = Stamp(Forget(work, Missing), run.unreadable = {})
    /\ applied' = rules.generation
    /\ run'     = [run EXCEPT !.ending = TRUE]
    /\ UNCHANGED <<env, ruleSet, db, ready, history>>

\* The sweeps, the stamp, and the rules taken as applied -- all before the
\* transaction commits.
FinishFull ==
    /\ run.kind = "full" /\ Ready /\ run.todo = {}
    /\ CanStamp
    /\ work'    = Stamp(Forget(work, Missing), run.unreadable = {})
    /\ applied' = run.gen
    /\ run'     = [run EXCEPT !.ending = TRUE]
    /\ UNCHANGED <<env, ruleSet, db, ready, history>>

\* Mutant: only siblings of a created path are looked at.
SiblingsAway(w, created, dirsGone) ==
    {f \in Files \ created : /\ HasRows(w, f) /\ ~OnDisk(f)
                             /\ \E g \in created : DirOf[g] = DirOf[f]}

\* remove_renamed_away: the likely old ends of renames into the created paths.
\* An emptied directory may be gone itself; then everything under it goes.
RenamedAway(w, created, dirsGone) ==
    LET sameHash  == {f \in Files : /\ w.rows[f] # NoRow
                                    /\ \E g \in created : w.rows[g] = w.rows[f]}
        siblings  == {f \in Files : HasRows(w, f) /\ \E g \in created : DirOf[g] = DirOf[f]}
        vanished  == {f \in (sameHash \union siblings) \ created : ~OnDisk(f)}
        oldDirs   == {d \in dirsGone :
                        \E f \in vanished \intersect sameHash, g \in created :
                            /\ DirOf[f] = d
                            /\ w.rows[f] = w.rows[g]
                            /\ NameOf[f] = NameOf[g] /\ DirOf[g] # d}
    IN  vanished \union oldDirs \union UNION {Under(d) : d \in oldDirs}

FinishPaths ==
    /\ run.kind = "paths" /\ Ready /\ run.walk = Nobody /\ run.todo = {}
    /\ CanStamp
    /\ \E dirsGone \in SUBSET {d \in Dirs : \A f \in Under(d) : disk[f] = Absent} :
          work' = Stamp(Forget(work, RenamedAway(work, run.created, dirsGone)), FALSE)
    /\ run' = [run EXCEPT !.ending = TRUE]
    /\ UNCHANGED Rest

\* What the run covered is no longer owed, save what changed under it.
Commit ==
    /\ run.ending
    /\ db'      = work
    /\ run'     = Idle
    /\ dirty'   = (dirty \ run.covers) \union changed
    /\ owes'    = [f \in Files |-> IF f \in run.covers \ changed THEN {} ELSE owes[f]]
    /\ changed' = {}
    /\ ready'   = (ready \/ run.kind = "full")
    /\ walkedWith' = IF run.kind = "full" THEN run.rules ELSE walkedWith
    /\ UNCHANGED <<env, ruleSet, applied, work>>

Rollback ==
    /\ work'    = db
    /\ run'     = Idle
    /\ changed' = {}
    /\ UNCHANGED <<disk, denied, ruleFile, db, dirty, walkedWith, owes>>

\* An error on the way: SourceChangedDuringIndex, a database error, the last
\* generation, a panic.
AbortRun ==
    /\ Running /\ ~run.ending
    /\ Rollback
    /\ UNCHANGED <<edits, ruleSet, applied, ready>>

\* symbol_changes::finish or COMMIT fails: the rows roll back.
CommitFails ==
    /\ CommitMayFail
    /\ run.ending
    /\ Rollback
    /\ UNCHANGED <<edits, ruleSet, applied, ready>>

\* The process dies, in a run or not, and another one opens the index: the
\* rules are read anew and count as applied.
Restart ==
    /\ Spend
    /\ Rollback
    /\ rules'   = [excluded |-> ruleFile, generation |-> 0]
    /\ held'    = {}
    /\ applied' = 0
    /\ ready'   = FALSE

-----------------------------------------------------------------------------
Visit ==
    \/ \E d \in Dirs : ListDir(d)
    \/ \E f \in Files : VisitPath(f) \/ ReadFile(f)
    \/ WriteFile
    \/ SweepDir

User ==
    \/ \E f \in Files, c \in Node : Edit(f, c)
    \/ \E p \in Deniable : SetDenied(p)
    \/ \E f \in Files : SetRule(f)
    \/ \E f, g \in Files : RenameUnreported(f, g)

Next ==
    \/ User
    \/ ReloadElsewhere \/ HoldRules \/ SwapElsewhere
    \/ \E force \in BOOLEAN : BeginFull(force)
    \/ \E P \in Batches, withRules \in BOOLEAN : BeginPaths(P, withRules)
    \/ Visit
    \/ FinishFull \/ FinishPaths \/ Commit
    \/ AbortRun \/ CommitFails \/ Restart

Spec == Init /\ [][Next]_vars

-----------------------------------------------------------------------------
(* Properties.                                                             *)

\* What a fresh index of the tree as it is would hold for f.
FreshRow(f) ==
    IF f \in Parsed \ ruleFile /\ disk[f] \in Hashes THEN disk[f] ELSE NoRow
FreshIssues(f) ==
    {k \in {"syntax", "language"} :
        /\ f \notin ruleFile /\ disk[f] # Absent
        /\ k = "language" => f \in Pending
        /\ k = "syntax"   => f \in Parsed /\ disk[f] \in {"broken", "foreign"}}

Exact(f) ==
    /\ db.rows[f] = FreshRow(f)
    /\ \A k \in {"syntax", "language"} : <<f, k>> \in db.issues <=> k \in FreshIssues(f)

Flagged(f) == {<<f, "read">>, <<DirOf[f], "read">>} \intersect db.issues # {}

\* Every file whose last change some finished run covered is stored exactly as
\* a fresh full index would store it, or its read failure is on record.  This
\* is what reindex_paths promises of the paths it is given, what a full run
\* promises of all, and what a failed or aborted run must not disturb.  The one
\* exception the code makes: of a file behind a directory that denies search,
\* rows and read failure may both be gone, as TakenForMoved tells.
NoSilentStaleness ==
    ~Running =>
        \A f \in Files : \/ f \in dirty
                         \/ \E g \in dirty : f \in owes[g]
                         \/ Exact(f)
                         \/ Flagged(f)
                         \/ ~CanReach(f) /\ ~HasRows(db, f)

Reconciled == db.generation > 0 /\ db.reconciled = db.generation

\* last_full_reconciled_at moves only in a run that could read everything it
\* reads, so at that generation no directory, and no file that a parser takes,
\* has a read failure on record.  Of other files one may be: the record that a
\* run over paths made of such a file behind a denied directory is cleared by no
\* later run, since the file is seen and never read.
ReconciledMeansReadable ==
    Reconciled => \A i \in db.issues : i[2] = "read" => i[1] \notin Dirs \union Parsed

\* What a run may not drop: rows of a file that still is what they were parsed
\* from, if nothing changed during the run.
Live(f) ==
    /\ db.rows[f] \in Hashes
    /\ db.rows[f] = disk[f]
    /\ f \notin ruleFile \union rules.excluded
Undisturbed == run.ending /\ changed = {} /\ run.gen = rules.generation

\* Once a run over paths has indexed a new one, its search for the old end of a
\* rename takes a file that it is not allowed to look up for gone.
TakenForMoved(f) == run.kind = "paths" /\ run.created # {} /\ ~CanReach(f)

\* A run during which nothing changed drops no rows of a file that still is
\* what they were parsed from, whether the file and its directory can be read
\* or not: "the result is the same index a full reindex would produce", and what
\* cannot be read keeps its rows.  A full run keeps them always; a run over
\* paths does but for TakenForMoved, where the code breaks the promise.
LiveRowsStay ==
    [][Undisturbed /\ db' # db =>
         \A f \in Files : Live(f) => db'.rows[f] = db.rows[f] \/ TakenForMoved(f)]_vars

\* When apply_exclusion_changes lets a tool through without a reindex -- the
\* ignore file is as loaded and its generation counts as applied -- no row of
\* an excluded file is stored, and the last full run walked the tree under
\* these rules from its start: no file they admit was passed over, whichever
\* clone of the set reloaded them and when.  Tools wait for the first full run
\* (readiness).
ServedRowsFollowRules ==
    ready /\ ~Running /\ ruleFile = rules.excluded /\ rules.generation = applied
        => /\ \A f \in ruleFile : ~HasRows(db, f)
           /\ walkedWith = ruleFile

\* lib.rs: "a failed reindex leaves the rules unapplied, so the next call tries
\* again".
FailedRunLeavesRulesUnapplied ==
    [][(AbortRun \/ CommitFails) /\ run.before # rules.generation
          => applied' # rules.generation]_vars
=============================================================================
