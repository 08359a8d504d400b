--------------------------------- MODULE Vault ---------------------------------
(***************************************************************************)
(* The Obsidian vault beside the index: every successful run of a process   *)
(* ends in a hook that publishes the notes of the index.  A publication     *)
(* stages a whole tree and swaps it in with two renames, under a lock file  *)
(* that only the end of the publication removes.  Meanwhile a user writes   *)
(* files of their own and edits notes, clients disconnect and processes are *)
(* killed.                                                                  *)
(***************************************************************************)
EXTENDS Naturals

CONSTANTS
    Processes,  \* servers that index and publish
    Paths,      \* files of the vault, generated or the user's
    Texts,      \* texts of generated notes; a hash stands for its text
    Mine,       \* a text of the user's
    Absent,     \* no such file
    NoTree,     \* no such directory
    NoOne,      \* nobody: no lock file
    Left,       \* a lock file whose writer is gone
    MaxRuns,    \* runs that end in the hook
    MaxEdits    \* files the user writes or deletes

ASSUME VaultAssumption ==
    /\ Mine \notin Texts /\ Absent \notin Texts /\ Mine # Absent
    /\ NoOne \notin Processes /\ Left \notin Processes /\ NoOne # Left
    /\ MaxRuns \in Nat /\ MaxEdits \in Nat

Manifest == [Paths -> Texts \cup {Absent}]      \* and what the index generates
Tree == [files: [Paths -> Texts \cup {Mine, Absent}], manifest: Manifest]

ASSUME NoTreeAssumption == NoTree \notin Tree

Empty == [q \in Paths |-> Absent]

(* A publication holds the guard of its process from "built" on, and the     *)
(* lock file from "locked" on.                                               *)
Locked == {"locked", "copy", "write", "staged", "moved", "rollback", "release"}
Guarded == Locked \cup {"built"}

VARIABLES
    index,      \* the notes the index generates
    vault,      \* the tree at its place
    lock,       \* who made the lock file
    leftBy,     \* how the writer of a lock file that is left went
    state,      \* readiness of each process
    job,        \* what runs: "startup", "tool", "watcher" or "none"
    pc,         \* where its publication is
    notes,      \* what it publishes
    old,        \* the manifest it found
    next,       \* the staged tree
    previous,   \* the vault it has moved away
    retained,   \* trees in stage directories nobody will delete
    settled,    \* paths where the user's text must be
    touched,    \* paths the user has written or deleted
    runs, edits \* counts, for the bounds

vars == <<index, vault, lock, leftBy, state, job, pc, notes, old, next, previous, retained,
          settled, touched, runs, edits>>
user == <<settled, touched, edits>>

(* The root map is always there, so no index generates nothing. *)
Indexes == Manifest \ {Empty}

Init ==
    /\ index \in Indexes
    /\ \/ vault = NoTree
       \/ \E q \in Paths : vault = [files |-> [Empty EXCEPT ![q] = Mine], manifest |-> Empty]
       \/ vault = [files |-> index, manifest |-> index]
    /\ lock = NoOne
    /\ leftBy = "none"
    /\ state = [p \in Processes |-> "indexing"]
    /\ job = [p \in Processes |-> "none"]
    /\ pc = [p \in Processes |-> "idle"]
    /\ notes = [p \in Processes |-> Empty]
    /\ old = [p \in Processes |-> Empty]
    /\ next = [p \in Processes |-> NoTree]
    /\ previous = [p \in Processes |-> NoTree]
    /\ retained = {}
    /\ settled = IF vault = NoTree THEN {} ELSE {q \in Paths : vault.files[q] = Mine}
    /\ touched = settled
    /\ runs = 0 /\ edits = 0

Goto(p, label) == pc' = [pc EXCEPT ![p] = label]

(* A run commits; the writer guard is dropped before the hook is called. *)
Reindex(p) ==
    /\ pc[p] = "idle" /\ runs < MaxRuns
    /\ job' \in {[job EXCEPT ![p] = j] : j \in
            CASE state[p] = "indexing" -> {"startup"}
              [] state[p] = "failed" -> {"tool"}
              [] OTHER -> {"tool", "watcher"}}
    /\ index' \in Indexes
    /\ runs' = runs + 1
    /\ Goto(p, "hook")
    /\ UNCHANGED <<vault, lock, leftBy, state, notes, old, next, previous, retained, user>>

StartupFails(p) ==
    /\ pc[p] = "idle" /\ state[p] = "indexing"
    /\ state' = [state EXCEPT ![p] = "failed"]
    /\ UNCHANGED <<index, vault, lock, leftBy, job, pc, notes, old, next, previous, retained, user, runs>>

(* The hook takes the guard and renders the notes of one snapshot. *)
Build(p) ==
    /\ pc[p] = "hook"
    /\ notes' = [notes EXCEPT ![p] = index]
    /\ Goto(p, "built")
    /\ UNCHANGED <<index, vault, lock, leftBy, state, job, old, next, previous, retained, user, runs>>

(* The lock file must be new: a concurrent writer is refused.  The notes or   *)
(* the directory may be what cannot be made, too.                            *)
Acquire(p) ==
    /\ pc[p] = "built"
    /\ \/ lock = NoOne /\ lock' = p /\ Goto(p, "locked")
       \/ UNCHANGED lock /\ Goto(p, "done")
    /\ UNCHANGED <<index, vault, leftBy, state, job, notes, old, next, previous, retained, user, runs>>

Found == IF vault = NoTree THEN Empty ELSE vault.manifest
FileAt(q) == IF vault = NoTree THEN Absent ELSE vault.files[q]

(* A note the user has edited, or a file of the user's where a note goes. *)
Conflict(p) == \E q \in Paths :
    \/ Found[q] # Absent /\ FileAt(q) \notin {Found[q], Absent}
    \/ Found[q] = Absent /\ notes[p][q] # Absent /\ FileAt(q) # Absent

(* A note on the disk that the manifest says is the one wanted. *)
Reusable(p, manifest, q) == manifest[q] = notes[p][q] /\ FileAt(q) # Absent

NothingToDo(p) ==
    /\ vault # NoTree
    /\ \A q \in Paths : IF notes[p][q] = Absent THEN Found[q] = Absent ELSE Reusable(p, Found, q)

Check(p) ==
    /\ pc[p] = "locked"
    /\ old' = [old EXCEPT ![p] = Found]
    /\ Goto(p, IF Conflict(p) \/ NothingToDo(p) THEN "release" ELSE "copy")
    /\ UNCHANGED <<index, vault, lock, leftBy, state, job, notes, next, previous, retained, user, runs>>

(* The user's files go over to the staged tree first. *)
CopyUnmanaged(p) ==
    /\ pc[p] = "copy"
    /\ next' = [next EXCEPT ![p] =
            [files |-> [q \in Paths |-> IF old[p][q] = Absent THEN FileAt(q) ELSE Absent],
             manifest |-> Empty]]
    /\ Goto(p, "write")
    /\ UNCHANGED <<index, vault, lock, leftBy, state, job, notes, old, previous, retained, user, runs>>

(* Mutant: a note found in its place is reused whatever it says. *)
StagedAnyway(p) ==
    [files |-> [q \in Paths |->
        CASE notes[p][q] = Absent -> next[p].files[q]
          [] notes[p][q] # Absent /\ old[p][q] # Absent /\ FileAt(q) # Absent -> FileAt(q)
          [] OTHER -> notes[p][q]],
     manifest |-> notes[p]]

(* Then the notes, those on the disk copied, and the manifest of them all. *)
Staged(p) ==
    [files |-> [q \in Paths |->
        CASE notes[p][q] = Absent -> next[p].files[q]
          [] notes[p][q] # Absent /\ Reusable(p, old[p], q) -> FileAt(q)
          [] OTHER -> notes[p][q]],
     manifest |-> notes[p]]

WriteNotes(p) ==
    /\ pc[p] = "write"
    /\ IF \E q \in Paths : notes[p][q] # Absent /\ next[p].files[q] # Absent
       THEN Goto(p, "release") /\ UNCHANGED next
       ELSE Goto(p, "staged") /\ next' = [next EXCEPT ![p] = Staged(p)]
    /\ UNCHANGED <<index, vault, lock, leftBy, state, job, notes, old, previous, retained, user, runs>>

(* Reading, copying, writing or the first rename fails: the stage goes. *)
Fail(p) ==
    /\ pc[p] \in {"locked", "copy", "write", "staged"}
    /\ Goto(p, "release")
    /\ UNCHANGED <<index, vault, lock, leftBy, state, job, notes, old, next, previous, retained, user, runs>>

MoveOut(p) ==
    /\ pc[p] = "staged"
    /\ previous' = [previous EXCEPT ![p] = vault]
    /\ vault' = NoTree
    /\ Goto(p, "moved")
    /\ UNCHANGED <<index, lock, leftBy, state, job, notes, old, next, retained, user, runs>>

MoveIn(p) ==
    /\ pc[p] = "moved"
    /\ vault' = next[p]
    /\ next' = [next EXCEPT ![p] = NoTree]
    /\ Goto(p, "release")
    /\ UNCHANGED <<index, lock, leftBy, state, job, notes, old, previous, retained, user, runs>>

(* Mutant: the rollback does not ask whether there was a vault. *)
MoveInFailsBack(p) ==
    /\ pc[p] = "moved"
    /\ Goto(p, "rollback")
    /\ UNCHANGED <<index, vault, lock, leftBy, state, job, notes, old, next, previous, retained, user, runs>>

MoveInFails(p) ==
    /\ pc[p] = "moved"
    /\ Goto(p, IF previous[p] = NoTree THEN "release" ELSE "rollback")
    /\ UNCHANGED <<index, vault, lock, leftBy, state, job, notes, old, next, previous, retained, user, runs>>

Rollback(p) ==
    /\ pc[p] = "rollback"
    /\ vault' = previous[p]
    /\ previous' = [previous EXCEPT ![p] = NoTree]
    /\ Goto(p, "release")
    /\ UNCHANGED <<index, lock, leftBy, state, job, notes, old, next, retained, user, runs>>

(* Mutant: the stage is deleted although the vault is in it. *)
RollbackFailsQuietly(p) ==
    /\ pc[p] = "rollback"
    /\ Goto(p, "release")
    /\ UNCHANGED <<index, vault, lock, leftBy, state, job, notes, old, next, previous, retained, user, runs>>

(* The stage directory is kept, with the previous vault in it. *)
RollbackFails(p) ==
    /\ pc[p] = "rollback"
    /\ retained' = retained \cup {previous[p]}
    /\ Goto(p, "release")
    /\ UNCHANGED <<index, vault, lock, leftBy, state, job, notes, old, next, previous, user, runs>>

(* What a publication knew and staged. *)
Forget(p) ==
    /\ notes' = [notes EXCEPT ![p] = Empty] /\ old' = [old EXCEPT ![p] = Empty]
    /\ next' = [next EXCEPT ![p] = NoTree] /\ previous' = [previous EXCEPT ![p] = NoTree]

(* The stage is deleted, then the lock file. *)
Release(p) ==
    /\ pc[p] = "release"
    /\ lock' = NoOne
    /\ Forget(p)
    /\ Goto(p, "done")
    /\ UNCHANGED <<index, vault, leftBy, state, job, retained, user, runs>>

(* The run succeeded, whatever became of the hook. *)
Return(p) ==
    /\ pc[p] = "done"
    /\ state' = [state EXCEPT ![p] = IF job[p] = "watcher" THEN @ ELSE "ready"]
    /\ job' = [job EXCEPT ![p] = "none"]
    /\ Goto(p, "idle")
    /\ UNCHANGED <<index, vault, lock, leftBy, notes, old, next, previous, retained, user, runs>>

-----------------------------------------------------------------------------
(* The process is gone between two steps; what it had on the disk stays. *)
Gone(p, how) ==
    /\ Goto(p, "gone")
    /\ IF lock = p THEN lock' = Left /\ leftBy' = how ELSE UNCHANGED <<lock, leftBy>>
    /\ retained' = retained \cup ({previous[p]} \ {NoTree})
    /\ Forget(p)
    /\ job' = [job EXCEPT ![p] = "none"]
    /\ UNCHANGED <<index, vault, state, user, runs>>

Kill(p) == pc[p] # "gone" /\ Gone(p, "kill")

(* Mutant: the exit does not wait for the guard. *)
ExitStartingAtOnce(p) ==
    /\ pc[p] # "gone" /\ state[p] = "indexing"
    /\ Gone(p, "exit while starting")

(* The client leaves during the startup run: the exit takes the guard. *)
ExitStarting(p) ==
    /\ pc[p] \notin Guarded \cup {"gone"} /\ state[p] = "indexing"
    /\ Gone(p, "exit while starting")

(* Later the process just ends, with the runtime waiting for the tool call   *)
(* it is in but not for the watcher's thread.                                *)
ExitRunning(p) ==
    /\ pc[p] # "gone" /\ state[p] # "indexing"
    /\ pc[p] = "idle" \/ job[p] = "watcher"
    /\ Gone(p, "exit")

Restart(p) ==
    /\ pc[p] = "gone"
    /\ state' = [state EXCEPT ![p] = "indexing"]
    /\ Goto(p, "idle")
    /\ UNCHANGED <<index, vault, lock, leftBy, job, notes, old, next, previous, retained, user, runs>>

(* Someone removes a lock file once no generator is active, and puts a       *)
(* retained vault back in its place.                                         *)
Recover ==
    /\ lock = Left /\ \A p \in Processes : pc[p] \notin Guarded
    /\ lock' = NoOne /\ leftBy' = "none"
    /\ IF vault = NoTree /\ retained # {}
       THEN \E tree \in retained : vault' = tree /\ retained' = retained \ {tree}
       ELSE UNCHANGED <<vault, retained>>
    /\ UNCHANGED <<index, state, job, pc, notes, old, next, previous, user, runs>>

-----------------------------------------------------------------------------
(* A publication that has looked at a file for the last time does not see    *)
(* what the user makes of it then.                                           *)
Unseen(q) == \E p \in Processes :
    \/ pc[p] \in {"write", "staged"}
    \/ pc[p] = "copy" /\ old[p][q] # Absent

(* The user writes a file, new or not, or deletes one. *)
Write(q) ==
    /\ edits < MaxEdits /\ vault # NoTree
    /\ vault' = [vault EXCEPT !.files[q] = Mine]
    /\ settled' = IF Unseen(q) THEN settled \ {q} ELSE settled \cup {q}
    /\ touched' = touched \cup {q}
    /\ edits' = edits + 1
    /\ UNCHANGED <<index, lock, leftBy, state, job, pc, notes, old, next, previous, retained, runs>>

Delete(q) ==
    /\ edits < MaxEdits /\ vault # NoTree /\ vault.files[q] # Absent
    /\ vault' = [vault EXCEPT !.files[q] = Absent]
    /\ settled' = settled \ {q}
    /\ touched' = touched \cup {q}
    /\ edits' = edits + 1
    /\ UNCHANGED <<index, lock, leftBy, state, job, pc, notes, old, next, previous, retained, runs>>

Publish(p) ==
    \/ Build(p) \/ Acquire(p) \/ Check(p) \/ CopyUnmanaged(p) \/ WriteNotes(p) \/ Fail(p)
    \/ MoveOut(p) \/ MoveIn(p) \/ MoveInFails(p) \/ Rollback(p) \/ RollbackFails(p)
    \/ Release(p) \/ Return(p)

Next ==
    \/ \E p \in Processes :
          \/ Reindex(p) \/ StartupFails(p) \/ Publish(p)
          \/ Kill(p) \/ ExitStarting(p) \/ ExitRunning(p) \/ Restart(p)
    \/ Recover
    \/ \E q \in Paths : Write(q) \/ Delete(q)

Spec == Init /\ [][Next]_vars

-----------------------------------------------------------------------------
TypeOK ==
    /\ index \in Manifest
    /\ vault \in Tree \cup {NoTree}
    /\ lock \in Processes \cup {NoOne, Left}
    /\ leftBy \in {"none", "kill", "exit", "exit while starting"}
    /\ state \in [Processes -> {"indexing", "failed", "ready"}]
    /\ job \in [Processes -> {"startup", "tool", "watcher", "none"}]
    /\ pc \in [Processes -> Guarded \cup {"idle", "hook", "done", "gone"}]
    /\ notes \in [Processes -> Manifest]
    /\ old \in [Processes -> Manifest]
    /\ next \in [Processes -> Tree \cup {NoTree}]
    /\ previous \in [Processes -> Tree \cup {NoTree}]
    /\ retained \subseteq Tree
    /\ settled \subseteq Paths /\ touched \subseteq Paths
    /\ runs \in 0 .. MaxRuns /\ edits \in 0 .. MaxEdits

(* One publication at a time, and a lock file without one is explained: the  *)
(* exit of a process that is still starting never leaves it (shutdown.rs).   *)
LockExplained ==
    /\ \A p \in Processes : pc[p] \in Locked <=> lock = p
    /\ lock = Left <=> leftBy # "none"
    /\ leftBy # "exit while starting"

(* A note is the text its manifest names unless the user has been there:     *)
(* what is published is one whole generation of the index (manifest.rs).     *)
WholeTree(tree) ==
    \A q \in Paths \ touched : tree.manifest[q] # Absent => tree.files[q] = tree.manifest[q]

Whole ==
    /\ vault # NoTree => WholeTree(vault)
    /\ \A tree \in retained : WholeTree(tree)

(* What the user wrote stays theirs: in the vault, in the one being moved,   *)
(* or in a stage directory that is kept.                                     *)
Trees == ({vault} \cup {previous[p] : p \in Processes} \cup retained) \ {NoTree}

UserTextKept ==
    /\ \A q \in settled : \E tree \in Trees : tree.files[q] = Mine
    /\ retained = {} /\ vault # NoTree => \A q \in settled : vault.files[q] = Mine

(* The three together: nothing is published by halves, lost or locked away. *)
VaultIntact == LockExplained /\ Whole /\ UserTextKept

(* A process that exits does not leave the lock file of its publication      *)
(* behind (doc of PublishGuard).                                             *)
ExitLeavesNoLock == lock = Left => leftBy = "kill"
================================================================================
