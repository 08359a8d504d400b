------------------------------ MODULE Vault_proofs ------------------------------
(***************************************************************************)
(* For any processes, files and texts: a publication leaves the vault whole *)
(* and the user's text kept, and only a process that has left its startup   *)
(* behind can leave the lock file by its exit.                              *)
(*                                                                         *)
(* VaultIntact is not inductive: what a publication is about to swap in     *)
(* must be whole, and hold what the user has written, before it is swapped  *)
(* in.  It is, because what was read of the vault under the lock file stays *)
(* true until the lock file is given back (Staging), and what the user      *)
(* writes meanwhile is either copied over or not settled (Carried, Safe).   *)
(***************************************************************************)
EXTENDS Vault, TLAPS

(* What a publication knows of the vault stays true while it holds the lock  *)
(* file, and what it has staged or moved away is whole.                      *)
StagingOf(p) ==
    /\ pc[p] \in {"copy", "write", "staged"} => old[p] = Found
    /\ pc[p] \in {"write", "staged", "moved"} => next[p] \in Tree
    /\ pc[p] \in {"staged", "moved"} => WholeTree(next[p])
    /\ previous[p] # NoTree => WholeTree(previous[p])
    /\ pc[p] \in {"moved", "rollback"} => vault = NoTree
    /\ pc[p] = "rollback" => previous[p] # NoTree

Staging == \A p \in Processes : StagingOf(p)

(* The staged tree takes the settled text of the user over. *)
CarriedOf(p) == \A q \in settled :
    /\ pc[p] = "copy" /\ FileAt(q) = Mine => old[p][q] = Absent
    /\ pc[p] \in {"write", "staged"} /\ FileAt(q) = Mine => next[p].files[q] = Mine
    /\ pc[p] = "moved" /\ previous[p] # NoTree /\ previous[p].files[q] = Mine =>
          next[p].files[q] = Mine

Carried == \A p \in Processes : CarriedOf(p)

(* It is in the vault or in a tree that is kept; between the two renames it  *)
(* may be in the vault that was moved away.                                  *)
Kept(q) == \E tree \in {vault} \cup retained : tree # NoTree /\ tree.files[q] = Mine
Away(p, q) == pc[p] \in {"moved",
   "rollback"} /\ previous[p] # NoTree /\ previous[p].files[q] = Mine
Safe == \A q \in settled : Kept(q) \/ \E p \in Processes : Away(p, q)

IInv == TypeOK /\ LockExplained /\ Whole /\ Staging /\ Carried /\ Safe

Inside == {"copy", "write", "staged", "moved", "rollback"}

-----------------------------------------------------------------------------
(* Two processes are never inside a publication at once. *)
LEMMA Alone ==
  ASSUME LockExplained, NEW p \in Processes, NEW r \in Processes,
         pc[p] \in Locked, pc[r] \in Locked
  PROVE  p = r
  BY DEF LockExplained

(* A tree stays whole when the user has been at more paths. *)
LEMMA WholeGrows ==
  touched \subseteq touched' => \A tree : WholeTree(tree) => WholeTree(tree)'
  BY DEF WholeTree

(* What a staged tree holds, path by path. *)
LEMMA StagedFile ==
  ASSUME NEW p \in Processes, NEW q \in Paths
  PROVE  /\ notes[p][q] = Absent => Staged(p).files[q] = next[p].files[q]
         /\ notes[p][q] # Absent /\ Reusable(p, old[p], q) => Staged(p).files[q] = FileAt(q)
         /\ notes[p][q] # Absent /\ ~Reusable(p, old[p], q) => Staged(p).files[q] = notes[p][q]
  BY Zenon DEF Staged

LEMMA StagedTree ==
  ASSUME TypeOK, NEW p \in Processes, next[p] \in Tree
  PROVE  Staged(p) \in Tree
  <1>1. notes[p] \in Manifest /\ \A q \in Paths : FileAt(q) \in Texts \cup {Mine, Absent}
    BY DEF TypeOK, FileAt, Tree
  <1>2. ASSUME NEW q \in Paths PROVE Staged(p).files[q] \in Texts \cup {Mine, Absent}
    BY <1>1, StagedFile DEF Tree, Manifest
  <1>3. DOMAIN Staged(p).files = Paths /\ Staged(p).files = [q \in Paths |-> Staged(p).files[q]]
    BY Zenon DEF Staged
  <1>4. Staged(p).files \in [Paths -> Texts \cup {Mine, Absent}]
    BY <1>2, <1>3
  <1>5. Staged(p) = [files |-> Staged(p).files, manifest |-> notes[p]]
    BY Zenon DEF Staged
  <1> QED BY <1>1, <1>4, <1>5 DEF Tree

(* A note found under the manifest's text is the one wanted, if the user has *)
(* not been there.                                                           *)
LEMMA StagedWhole ==
  ASSUME TypeOK, Whole, NEW p \in Processes, old[p] = Found
  PROVE  WholeTree(Staged(p))
  <1> SUFFICES ASSUME NEW q \in Paths \ touched, notes[p][q] # Absent
               PROVE  Staged(p).files[q] = notes[p][q]
    <2>1. Staged(p).manifest = notes[p]
      BY Zenon DEF Staged
    <2> QED BY <2>1 DEF WholeTree
  <1>1. CASE Reusable(p, old[p], q)
    <2>1. Found[q] = notes[p][q] /\ FileAt(q) # Absent
      BY <1>1 DEF Reusable
    <2>2. vault # NoTree /\ Found[q] = vault.manifest[q] /\ FileAt(q) = vault.files[q]
      BY <2>1 DEF FileAt, Found
    <2>3. vault.files[q] = vault.manifest[q]
      BY <2>1, <2>2 DEF Whole, WholeTree
    <2> QED BY <1>1, <2>1, <2>2, <2>3, StagedFile
  <1>2. CASE ~Reusable(p, old[p], q)
    BY <1>2, StagedFile
  <1> QED BY <1>1, <1>2

LEMMA StagedUser ==
  ASSUME NEW p \in Processes, NEW q \in Paths, notes[p][q] = Absent, next[p].files[q] = Mine
  PROVE  Staged(p).files[q] = Mine
  BY StagedFile

(* What the user does to one file. *)
LEMMA EditedTree ==
  ASSUME TypeOK, NEW q \in Paths, NEW text \in {Mine, Absent}, vault # NoTree,
         vault' = [vault EXCEPT !.files[q] = text]
  PROVE  /\ vault' \in Tree /\ vault' # NoTree
         /\ vault'.manifest = vault.manifest /\ vault'.files[q] = text
         /\ \A k \in Paths : k # q => vault'.files[k] = vault.files[k]
  <1>1. vault \in Tree
    BY DEF TypeOK
  <1>2. PICK f \in [Paths -> Texts \cup {Mine, Absent}], m \in Manifest :
            vault = [files |-> f, manifest |-> m]
    BY <1>1 DEF Tree
  <1>3. vault' = [files |-> [f EXCEPT ![q] = text], manifest |-> m]
    BY <1>2
  <1>4. [f EXCEPT ![q] = text] \in [Paths -> Texts \cup {Mine, Absent}]
    OBVIOUS
  <1>5. vault' \in Tree
    BY <1>2, <1>3, <1>4 DEF Tree
  <1> QED BY <1>2, <1>3, <1>5, NoTreeAssumption

(* A process that goes leaves what it had moved away in its stage directory. *)
LEMMA GoneSafe ==
  ASSUME TypeOK, Safe, NEW p \in Processes, NEW how, Gone(p, how)
  PROVE  Safe'
  <1>1. settled' = settled /\ vault' = vault /\ retained' = retained \cup ({previous[p]} \ {NoTree})
    BY DEF Gone, user
  <1>2. \A r \in Processes : r # p => pc'[r] = pc[r] /\ previous'[r] = previous[r]
    BY DEF Gone, Goto, Forget, TypeOK
  <1> QED BY <1>1, <1>2 DEF Safe, Kept, Away

LEMMA GoneWhole ==
  ASSUME IInv, NEW p \in Processes, NEW how, Gone(p, how)
  PROVE  Whole'
  <1>1. touched' = touched /\ vault' = vault /\ retained' = retained \cup ({previous[p]} \ {NoTree})
    BY DEF Gone, user
  <1>2. previous[p] # NoTree => WholeTree(previous[p])
    BY DEF IInv, Staging, StagingOf
  <1> QED BY <1>1, <1>2, WholeGrows DEF IInv, Whole

-----------------------------------------------------------------------------
(* Every step keeps the types. *)
LEMMA TypeStep ==
  IInv /\ [Next]_vars => TypeOK'
  <1> SUFFICES ASSUME IInv, [Next]_vars PROVE TypeOK' OBVIOUS
  <1>1. ASSUME NEW p \in Processes, Reindex(p) PROVE TypeOK'
    <2>1. job' \in [Processes -> {"startup", "tool", "watcher", "none"}]
      BY <1>1, Zenon DEF Reindex, IInv, TypeOK
    <2>2. index' \in Manifest
      BY <1>1 DEF Reindex, Indexes
    <2>3. runs' = runs + 1 /\ runs < MaxRuns /\ runs \in 0 .. MaxRuns
      BY <1>1, Zenon DEF Reindex, IInv, TypeOK
    <2>4. runs' \in 0 .. MaxRuns
      BY <2>3, VaultAssumption
    <2> QED BY <1>1, <2>1, <2>2, <2>4 DEF Reindex, Goto, user, IInv, TypeOK, Guarded, Locked
  <1>2. ASSUME NEW p \in Processes, StartupFails(p) PROVE TypeOK'
    BY <1>2, VaultAssumption, NoTreeAssumption DEF IInv, TypeOK, Staging, StagingOf, Guarded,
       Locked, Manifest, Goto, StartupFails, user
  <1>3. ASSUME NEW p \in Processes, Build(p) PROVE TypeOK'
    BY <1>3, VaultAssumption, NoTreeAssumption DEF IInv, TypeOK, Staging, StagingOf, Guarded,
       Locked, Manifest, Goto, Build, user
  <1>4. ASSUME NEW p \in Processes, Acquire(p) PROVE TypeOK'
    BY <1>4, VaultAssumption, NoTreeAssumption DEF IInv, TypeOK, Staging, StagingOf, Guarded,
       Locked, Manifest, Goto, Acquire, user
  <1>5. ASSUME NEW p \in Processes, Check(p) PROVE TypeOK'
    <2>1. Found \in Manifest
      BY DEF IInv, TypeOK, Found, Empty, Tree, Manifest
    <2>2. old' \in [Processes -> Manifest]
      BY <1>5, <2>1 DEF Check, IInv, TypeOK
    <2>3. pc' \in [Processes -> Guarded \cup {"idle", "hook", "done", "gone"}]
      BY <1>5 DEF Check, Goto, IInv, TypeOK, Guarded, Locked
    <2> QED BY <1>5, <2>2, <2>3 DEF Check, user, IInv, TypeOK
  <1>6. ASSUME NEW p \in Processes, CopyUnmanaged(p) PROVE TypeOK'
    <2>1. next' \in [Processes -> Tree \cup {NoTree}]
      BY <1>6 DEF CopyUnmanaged, IInv, TypeOK, Tree, Manifest, FileAt, Empty
    <2> QED BY <1>6, <2>1 DEF CopyUnmanaged, Goto, user, IInv, TypeOK, Guarded, Locked
  <1>7. ASSUME NEW p \in Processes, WriteNotes(p) PROVE TypeOK'
    <2>1. next[p] \in Tree
      BY <1>7 DEF WriteNotes, IInv, Staging, StagingOf
    <2>2. Staged(p) \in Tree
      BY <2>1, StagedTree DEF IInv
    <2>3. next' \in [Processes -> Tree \cup {NoTree}]
      BY <1>7, <2>2 DEF WriteNotes, IInv, TypeOK
    <2> QED BY <1>7, <2>3 DEF WriteNotes, Goto, user, IInv, TypeOK, Guarded, Locked
  <1>8. ASSUME NEW p \in Processes, Fail(p) PROVE TypeOK'
    BY <1>8, VaultAssumption, NoTreeAssumption DEF IInv, TypeOK, Staging, StagingOf, Guarded,
       Locked, Manifest, Goto, Fail, user
  <1>9. ASSUME NEW p \in Processes, MoveOut(p) PROVE TypeOK'
    BY <1>9, VaultAssumption, NoTreeAssumption DEF IInv, TypeOK, Staging, StagingOf, Guarded,
       Locked, Manifest, Goto, MoveOut, user
  <1>10. ASSUME NEW p \in Processes, MoveIn(p) PROVE TypeOK'
    BY <1>10, VaultAssumption, NoTreeAssumption DEF IInv, TypeOK, Staging, StagingOf,
       Guarded, Locked, Manifest, Goto, MoveIn, user
  <1>11. ASSUME NEW p \in Processes, MoveInFails(p) PROVE TypeOK'
    BY <1>11, VaultAssumption, NoTreeAssumption DEF IInv, TypeOK, Staging, StagingOf,
       Guarded, Locked, Manifest, Goto, MoveInFails, user
  <1>12. ASSUME NEW p \in Processes, Rollback(p) PROVE TypeOK'
    BY <1>12, VaultAssumption, NoTreeAssumption DEF IInv, TypeOK, Staging, StagingOf,
       Guarded, Locked, Manifest, Goto, Rollback, user
  <1>13. ASSUME NEW p \in Processes, RollbackFails(p) PROVE TypeOK'
    BY <1>13, VaultAssumption, NoTreeAssumption DEF IInv, TypeOK, Staging, StagingOf,
       Guarded, Locked, Manifest, Goto, RollbackFails, user
  <1>14. ASSUME NEW p \in Processes, Release(p) PROVE TypeOK'
    BY <1>14, VaultAssumption, NoTreeAssumption DEF IInv, TypeOK, Staging, StagingOf,
       Guarded, Locked, Manifest, Goto, Release, Forget, user, Empty
  <1>15. ASSUME NEW p \in Processes, Return(p) PROVE TypeOK'
    BY <1>15, VaultAssumption, NoTreeAssumption DEF IInv, TypeOK, Staging, StagingOf,
       Guarded, Locked, Manifest, Goto, Return, user
  <1>16. ASSUME NEW p \in Processes, Kill(p) PROVE TypeOK'
    BY <1>16, VaultAssumption, NoTreeAssumption DEF IInv, TypeOK, Staging, StagingOf,
       Guarded, Locked, Manifest, Goto, Kill, Gone, Forget, user, Empty
  <1>17. ASSUME NEW p \in Processes, ExitStarting(p) PROVE TypeOK'
    BY <1>17, VaultAssumption, NoTreeAssumption DEF IInv, TypeOK, Staging, StagingOf,
       Guarded, Locked, Manifest, Goto, ExitStarting, Gone, Forget, user, Empty
  <1>18. ASSUME NEW p \in Processes, ExitRunning(p) PROVE TypeOK'
    BY <1>18, VaultAssumption, NoTreeAssumption DEF IInv, TypeOK, Staging, StagingOf,
       Guarded, Locked, Manifest, Goto, ExitRunning, Gone, Forget, user, Empty
  <1>19. ASSUME NEW p \in Processes, Restart(p) PROVE TypeOK'
    BY <1>19, VaultAssumption, NoTreeAssumption DEF IInv, TypeOK, Staging, StagingOf,
       Guarded, Locked, Manifest, Goto, Restart, user
  <1>20. ASSUME Recover PROVE TypeOK'
    BY <1>20, VaultAssumption, NoTreeAssumption DEF IInv, TypeOK, Staging, StagingOf,
       Guarded, Locked, Manifest, Recover, user
  <1>21. ASSUME NEW q \in Paths, Write(q) PROVE TypeOK'
    <2>1. vault' \in Tree
      BY <1>21, EditedTree DEF Write, IInv
    <2>2. edits' = edits + 1 /\ edits < MaxEdits /\ edits \in 0 .. MaxEdits
      BY <1>21, Zenon DEF Write, IInv, TypeOK
    <2>3. edits' \in 0 .. MaxEdits
      BY <2>2, VaultAssumption
    <2> QED BY <1>21, <2>1, <2>3 DEF Write, IInv, TypeOK
  <1>22. ASSUME NEW q \in Paths, Delete(q) PROVE TypeOK'
    <2>1. vault' \in Tree
      BY <1>22, EditedTree DEF Delete, IInv
    <2>2. edits' = edits + 1 /\ edits < MaxEdits /\ edits \in 0 .. MaxEdits
      BY <1>22, Zenon DEF Delete, IInv, TypeOK
    <2>3. edits' \in 0 .. MaxEdits
      BY <2>2, VaultAssumption
    <2> QED BY <1>22, <2>1, <2>3 DEF Delete, IInv, TypeOK
  <1>23. ASSUME UNCHANGED vars PROVE TypeOK'
    BY <1>23, VaultAssumption, NoTreeAssumption DEF IInv, TypeOK, Staging, StagingOf,
       Guarded, Locked, Manifest, vars, user
  <1> QED BY <1>1, <1>2, <1>3, <1>4, <1>5, <1>6, <1>7, <1>8, <1>9, <1>10, <1>11, <1>12,
     <1>13, <1>14, <1>15, <1>16, <1>17, <1>18, <1>19, <1>20, <1>21, <1>22, <1>23
     DEF Next, Publish

(* Only the process inside a publication holds the lock file. *)
LEMMA LockStep ==
  IInv /\ [Next]_vars => LockExplained'
  <1> SUFFICES ASSUME IInv, [Next]_vars PROVE LockExplained' OBVIOUS
  <1>1. ASSUME NEW p \in Processes, Reindex(p) PROVE LockExplained'
    BY <1>1, VaultAssumption DEF IInv, TypeOK, LockExplained, Locked, Goto, Reindex
  <1>2. ASSUME NEW p \in Processes, StartupFails(p) PROVE LockExplained'
    BY <1>2, VaultAssumption DEF IInv, TypeOK, LockExplained, Locked, Goto, StartupFails
  <1>3. ASSUME NEW p \in Processes, Build(p) PROVE LockExplained'
    BY <1>3, VaultAssumption DEF IInv, TypeOK, LockExplained, Locked, Goto, Build
  <1>4. ASSUME NEW p \in Processes, Acquire(p) PROVE LockExplained'
    <2>1. CASE lock = NoOne /\ lock' = p /\ Goto(p, "locked")
      BY <1>4, <2>1, VaultAssumption DEF IInv, TypeOK, LockExplained, Locked, Acquire, Goto
    <2>2. CASE UNCHANGED lock /\ Goto(p, "done")
      BY <1>4, <2>2, VaultAssumption DEF IInv, TypeOK, LockExplained, Locked, Acquire, Goto
    <2> QED BY <1>4, <2>1, <2>2 DEF Acquire
  <1>5. ASSUME NEW p \in Processes, Check(p) PROVE LockExplained'
    BY <1>5, VaultAssumption DEF IInv, TypeOK, LockExplained, Locked, Goto, Check
  <1>6. ASSUME NEW p \in Processes, CopyUnmanaged(p) PROVE LockExplained'
    BY <1>6, VaultAssumption DEF IInv, TypeOK, LockExplained, Locked, Goto, CopyUnmanaged
  <1>7. ASSUME NEW p \in Processes, WriteNotes(p) PROVE LockExplained'
    BY <1>7, VaultAssumption DEF IInv, TypeOK, LockExplained, Locked, Goto, WriteNotes
  <1>8. ASSUME NEW p \in Processes, Fail(p) PROVE LockExplained'
    BY <1>8, VaultAssumption DEF IInv, TypeOK, LockExplained, Locked, Goto, Fail
  <1>9. ASSUME NEW p \in Processes, MoveOut(p) PROVE LockExplained'
    BY <1>9, VaultAssumption DEF IInv, TypeOK, LockExplained, Locked, Goto, MoveOut
  <1>10. ASSUME NEW p \in Processes, MoveIn(p) PROVE LockExplained'
    BY <1>10, VaultAssumption DEF IInv, TypeOK, LockExplained, Locked, Goto, MoveIn
  <1>11. ASSUME NEW p \in Processes, MoveInFails(p) PROVE LockExplained'
    BY <1>11, VaultAssumption DEF IInv, TypeOK, LockExplained, Locked, Goto, MoveInFails
  <1>12. ASSUME NEW p \in Processes, Rollback(p) PROVE LockExplained'
    BY <1>12, VaultAssumption DEF IInv, TypeOK, LockExplained, Locked, Goto, Rollback
  <1>13. ASSUME NEW p \in Processes, RollbackFails(p) PROVE LockExplained'
    BY <1>13, VaultAssumption DEF IInv, TypeOK, LockExplained, Locked, Goto, RollbackFails
  <1>14. ASSUME NEW p \in Processes, Release(p) PROVE LockExplained'
    BY <1>14, VaultAssumption DEF IInv, TypeOK, LockExplained, Locked, Goto, Release, Forget
  <1>15. ASSUME NEW p \in Processes, Return(p) PROVE LockExplained'
    BY <1>15, VaultAssumption DEF IInv, TypeOK, LockExplained, Locked, Goto, Return
  <1>16. ASSUME NEW p \in Processes, Kill(p) PROVE LockExplained'
    BY <1>16, VaultAssumption DEF IInv, TypeOK, LockExplained, Locked, Goto, Kill, Gone, Forget
  <1>17. ASSUME NEW p \in Processes, ExitStarting(p) PROVE LockExplained'
    BY <1>17, VaultAssumption DEF IInv, TypeOK, LockExplained, Locked, Goto, ExitStarting,
       Gone, Forget, Guarded
  <1>18. ASSUME NEW p \in Processes, ExitRunning(p) PROVE LockExplained'
    BY <1>18, VaultAssumption DEF IInv, TypeOK, LockExplained, Locked, Goto, ExitRunning,
       Gone, Forget
  <1>19. ASSUME NEW p \in Processes, Restart(p) PROVE LockExplained'
    BY <1>19, VaultAssumption DEF IInv, TypeOK, LockExplained, Locked, Goto, Restart
  <1>20. ASSUME Recover PROVE LockExplained'
    BY <1>20, VaultAssumption DEF IInv, TypeOK, LockExplained, Locked, Recover
  <1>21. ASSUME NEW q \in Paths, Write(q) PROVE LockExplained'
    BY <1>21, VaultAssumption DEF IInv, TypeOK, LockExplained, Locked, Write
  <1>22. ASSUME NEW q \in Paths, Delete(q) PROVE LockExplained'
    BY <1>22, VaultAssumption DEF IInv, TypeOK, LockExplained, Locked, Delete
  <1>23. ASSUME UNCHANGED vars PROVE LockExplained'
    BY <1>23, VaultAssumption DEF IInv, TypeOK, LockExplained, Locked, vars
  <1> QED BY <1>1, <1>2, <1>3, <1>4, <1>5, <1>6, <1>7, <1>8, <1>9, <1>10, <1>11, <1>12,
     <1>13, <1>14, <1>15, <1>16, <1>17, <1>18, <1>19, <1>20, <1>21, <1>22, <1>23
     DEF Next, Publish

(* A publication's knowledge lasts: nobody else moves the vault. *)
LEMMA StagingStep ==
  IInv /\ [Next]_vars => Staging'
  <1> USE NoTreeAssumption
  <1> SUFFICES ASSUME IInv, [Next]_vars, NEW r \in Processes PROVE StagingOf(r)'
    BY DEF Staging, StagingOf
  <1> USE DEF IInv
  <1>a. StagingOf(r)
    BY DEF Staging, StagingOf
  <1>b. ASSUME Found' = Found, vault = NoTree => vault' = NoTree, touched \subseteq touched',
              pc'[r] = pc[r], old'[r] = old[r], next'[r] = next[r], previous'[r] = previous[r]
        PROVE  StagingOf(r)'
    BY <1>a, <1>b, WholeGrows DEF StagingOf
  <1>c. ASSUME touched \subseteq touched', pc'[r] \notin Inside,
              previous'[r] \in {previous[r], NoTree}
        PROVE  StagingOf(r)'
    BY <1>a, <1>c, WholeGrows DEF StagingOf, Inside
  <1>1. ASSUME NEW p \in Processes, Reindex(p) PROVE StagingOf(r)'
    <2>1. CASE r = p
      BY <1>1, <2>1, <1>c DEF TypeOK, Inside, user, Goto, Reindex
    <2>2. CASE r # p
      BY <1>1, <2>2, <1>b DEF TypeOK, Found, user, Goto, Reindex
    <2> QED BY <2>1, <2>2
  <1>2. ASSUME NEW p \in Processes, StartupFails(p) PROVE StagingOf(r)'
    BY <1>2, <1>b DEF Found, user, StartupFails
  <1>3. ASSUME NEW p \in Processes, Build(p) PROVE StagingOf(r)'
    <2>1. CASE r = p
      BY <1>3, <2>1, <1>c DEF TypeOK, Inside, user, Goto, Build
    <2>2. CASE r # p
      BY <1>3, <2>2, <1>b DEF TypeOK, Found, user, Goto, Build
    <2> QED BY <2>1, <2>2
  <1>4. ASSUME NEW p \in Processes, Acquire(p) PROVE StagingOf(r)'
    <2>1. CASE r = p
      <3>1. pc'[r] \in {"locked", "done"}
        BY <1>4, <2>1 DEF Acquire, Goto, TypeOK
      <3> QED BY <1>4, <3>1, <1>c DEF Acquire, Inside, user
    <2>2. CASE r # p
      BY <1>4, <2>2, <1>b DEF TypeOK, Found, user, Goto, Acquire
    <2> QED BY <2>1, <2>2
  <1>5. ASSUME NEW p \in Processes, Check(p) PROVE StagingOf(r)'
    <2>1. CASE r = p
      <3>1. pc'[p] \in {"release", "copy"} /\ old'[p] = Found
        BY <1>5 DEF Check, Goto, TypeOK
      <3>2. Found' = Found
        BY <1>5 DEF Check, Found
      <3> QED BY <1>5, <1>a, <2>1, <3>1, <3>2, WholeGrows DEF Check, user, StagingOf
    <2>2. CASE r # p
      BY <1>5, <2>2, <1>b DEF TypeOK, Found, user, Goto, Check
    <2> QED BY <2>1, <2>2
  <1>6. ASSUME NEW p \in Processes, CopyUnmanaged(p) PROVE StagingOf(r)'
    <2>1. CASE r = p
      <3>1. Found' = Found
        BY <1>6 DEF CopyUnmanaged, Found
      <3>2. pc'[p] = "write" /\ next'[p] \in Tree
        BY <1>6 DEF CopyUnmanaged, Goto, TypeOK, Tree, Manifest, FileAt, Empty
      <3> QED BY <1>6, <1>a, <2>1, <3>1, <3>2, WholeGrows DEF CopyUnmanaged, user, StagingOf
    <2>2. CASE r # p
      BY <1>6, <2>2, <1>b DEF TypeOK, Found, user, Goto, CopyUnmanaged
    <2> QED BY <2>1, <2>2
  <1>7. ASSUME NEW p \in Processes, WriteNotes(p) PROVE StagingOf(r)'
    <2>1. CASE r = p
      <3>1. CASE pc'[p] = "release"
        BY <1>7, <2>1, <3>1, <1>c DEF WriteNotes, Inside, user
      <3>2. CASE pc'[p] # "release"
        <4>1. pc'[p] = "staged" /\ next'[p] = Staged(p)
          BY <1>7, <3>2 DEF WriteNotes, Goto, TypeOK
        <4>2. Staged(p) \in Tree /\ WholeTree(Staged(p))
          BY <1>7, <1>a, <2>1, StagedTree, StagedWhole DEF WriteNotes, StagingOf
        <4>3. Found' = Found
          BY <1>7 DEF WriteNotes, Found
        <4> QED BY <1>7, <1>a, <2>1, <4>1, <4>2, <4>3, WholeGrows
           DEF WriteNotes, user, StagingOf
      <3> QED BY <3>1, <3>2
    <2>2. CASE r # p
      BY <1>7, <2>2, <1>b DEF TypeOK, Found, user, Goto, WriteNotes
    <2> QED BY <2>1, <2>2
  <1>8. ASSUME NEW p \in Processes, Fail(p) PROVE StagingOf(r)'
    <2>1. CASE r = p
      BY <1>8, <2>1, <1>c DEF TypeOK, Inside, user, Goto, Fail
    <2>2. CASE r # p
      BY <1>8, <2>2, <1>b DEF TypeOK, Found, user, Goto, Fail
    <2> QED BY <2>1, <2>2
  <1>9. ASSUME NEW p \in Processes, MoveOut(p) PROVE StagingOf(r)'
    <2>1. CASE r = p
      <3>1. pc'[p] = "moved" /\ previous'[p] = vault /\ vault' = NoTree
        BY <1>9 DEF MoveOut, Goto, TypeOK
      <3>2. vault # NoTree => WholeTree(vault)
        BY DEF Whole
      <3> QED BY <1>9, <1>a, <2>1, <3>1, <3>2, WholeGrows DEF MoveOut, user, StagingOf
    <2>2. CASE r # p
      BY <1>9, <2>2, <1>c, Alone DEF TypeOK, Inside, Locked, user, Goto, MoveOut
    <2> QED BY <2>1, <2>2
  <1>10. ASSUME NEW p \in Processes, MoveIn(p) PROVE StagingOf(r)'
    <2>1. CASE r = p
      BY <1>10, <2>1, <1>c DEF TypeOK, Inside, user, Goto, MoveIn
    <2>2. CASE r # p
      BY <1>10, <2>2, <1>c, Alone DEF TypeOK, Inside, Locked, user, Goto, MoveIn
    <2> QED BY <2>1, <2>2
  <1>11. ASSUME NEW p \in Processes, MoveInFails(p) PROVE StagingOf(r)'
    <2>1. CASE r = p
      <3>1. CASE previous[p] = NoTree
        <4>1. pc'[p] = "release"
          BY <1>11, <3>1 DEF MoveInFails, Goto, TypeOK
        <4> QED BY <1>11, <2>1, <4>1, <1>c DEF MoveInFails, Inside, user
      <3>2. CASE previous[p] # NoTree
        <4>1. pc'[p] = "rollback"
          BY <1>11, <3>2 DEF MoveInFails, Goto, TypeOK
        <4> QED BY <1>11, <1>a, <2>1, <3>2, <4>1, WholeGrows DEF MoveInFails, user, StagingOf
      <3> QED BY <3>1, <3>2
    <2>2. CASE r # p
      BY <1>11, <2>2, <1>b DEF TypeOK, Found, user, Goto, MoveInFails
    <2> QED BY <2>1, <2>2
  <1>12. ASSUME NEW p \in Processes, Rollback(p) PROVE StagingOf(r)'
    <2>1. CASE r = p
      BY <1>12, <2>1, <1>c DEF TypeOK, Inside, user, Goto, Rollback
    <2>2. CASE r # p
      BY <1>12, <2>2, <1>c, Alone DEF TypeOK, Inside, Locked, user, Goto, Rollback
    <2> QED BY <2>1, <2>2
  <1>13. ASSUME NEW p \in Processes, RollbackFails(p) PROVE StagingOf(r)'
    <2>1. CASE r = p
      BY <1>13, <2>1, <1>c DEF TypeOK, Inside, user, Goto, RollbackFails
    <2>2. CASE r # p
      BY <1>13, <2>2, <1>b DEF TypeOK, Found, user, Goto, RollbackFails
    <2> QED BY <2>1, <2>2
  <1>14. ASSUME NEW p \in Processes, Release(p) PROVE StagingOf(r)'
    <2>1. CASE r = p
      BY <1>14, <2>1, <1>c DEF TypeOK, Inside, user, Goto, Release, Forget
    <2>2. CASE r # p
      BY <1>14, <2>2, <1>b DEF TypeOK, Found, user, Goto, Release, Forget
    <2> QED BY <2>1, <2>2
  <1>15. ASSUME NEW p \in Processes, Return(p) PROVE StagingOf(r)'
    <2>1. CASE r = p
      BY <1>15, <2>1, <1>c DEF TypeOK, Inside, user, Goto, Return
    <2>2. CASE r # p
      BY <1>15, <2>2, <1>b DEF TypeOK, Found, user, Goto, Return
    <2> QED BY <2>1, <2>2
  <1>16. ASSUME NEW p \in Processes, Kill(p) PROVE StagingOf(r)'
    <2>1. CASE r = p
      BY <1>16, <2>1, <1>c DEF TypeOK, Inside, user, Goto, Kill, Gone, Forget
    <2>2. CASE r # p
      BY <1>16, <2>2, <1>b DEF TypeOK, Found, user, Goto, Kill, Gone, Forget
    <2> QED BY <2>1, <2>2
  <1>17. ASSUME NEW p \in Processes, ExitStarting(p) PROVE StagingOf(r)'
    <2>1. CASE r = p
      BY <1>17, <2>1, <1>c DEF TypeOK, Inside, user, Goto, ExitStarting, Gone, Forget
    <2>2. CASE r # p
      BY <1>17, <2>2, <1>b DEF TypeOK, Found, user, Goto, ExitStarting, Gone, Forget
    <2> QED BY <2>1, <2>2
  <1>18. ASSUME NEW p \in Processes, ExitRunning(p) PROVE StagingOf(r)'
    <2>1. CASE r = p
      BY <1>18, <2>1, <1>c DEF TypeOK, Inside, user, Goto, ExitRunning, Gone, Forget
    <2>2. CASE r # p
      BY <1>18, <2>2, <1>b DEF TypeOK, Found, user, Goto, ExitRunning, Gone, Forget
    <2> QED BY <2>1, <2>2
  <1>19. ASSUME NEW p \in Processes, Restart(p) PROVE StagingOf(r)'
    <2>1. CASE r = p
      BY <1>19, <2>1, <1>c DEF TypeOK, Inside, user, Goto, Restart
    <2>2. CASE r # p
      BY <1>19, <2>2, <1>b DEF TypeOK, Found, user, Goto, Restart
    <2> QED BY <2>1, <2>2
  <1>20. ASSUME Recover PROVE StagingOf(r)'
    BY <1>20, <1>c DEF TypeOK, Inside, Guarded, Locked, user, Recover
  <1>21. ASSUME NEW q \in Paths, Write(q) PROVE StagingOf(r)'
    <2>1. Found' = Found
      BY <1>21, EditedTree DEF Write, Found
    <2> QED BY <1>21, <2>1, <1>b DEF Write
  <1>22. ASSUME NEW q \in Paths, Delete(q) PROVE StagingOf(r)'
    <2>1. Found' = Found
      BY <1>22, EditedTree DEF Delete, Found
    <2> QED BY <1>22, <2>1, <1>b DEF Delete
  <1>23. ASSUME UNCHANGED vars PROVE StagingOf(r)'
    BY <1>23, <1>b DEF Found, vars
  <1> QED BY <1>1, <1>2, <1>3, <1>4, <1>5, <1>6, <1>7, <1>8, <1>9, <1>10, <1>11, <1>12,
     <1>13, <1>14, <1>15, <1>16, <1>17, <1>18, <1>19, <1>20, <1>21, <1>22, <1>23
     DEF Next, Publish

(* The user's text goes over to the staged tree. *)
LEMMA CarriedStep ==
  IInv /\ [Next]_vars => Carried'
  <1> USE NoTreeAssumption
  <1> SUFFICES ASSUME IInv, [Next]_vars, NEW r \in Processes PROVE CarriedOf(r)'
    BY DEF Carried, CarriedOf
  <1> USE DEF IInv
  <1>a. CarriedOf(r)
    BY DEF Carried, CarriedOf
  <1>b. ASSUME vault' = vault, settled' = settled,
              pc'[r] = pc[r], old'[r] = old[r], next'[r] = next[r], previous'[r] = previous[r]
        PROVE  CarriedOf(r)'
    BY <1>a, <1>b DEF CarriedOf, FileAt
  <1>c. ASSUME pc'[r] \notin Inside PROVE CarriedOf(r)'
    BY <1>c DEF CarriedOf, Inside
  <1>1. ASSUME NEW p \in Processes, Reindex(p) PROVE CarriedOf(r)'
    <2>1. CASE r = p
      BY <1>1, <2>1, <1>c DEF TypeOK, Inside, Goto, Reindex
    <2>2. CASE r # p
      BY <1>1, <2>2, <1>b DEF TypeOK, user, Goto, Reindex
    <2> QED BY <2>1, <2>2
  <1>2. ASSUME NEW p \in Processes, StartupFails(p) PROVE CarriedOf(r)'
    BY <1>2, <1>b DEF user, StartupFails
  <1>3. ASSUME NEW p \in Processes, Build(p) PROVE CarriedOf(r)'
    <2>1. CASE r = p
      BY <1>3, <2>1, <1>c DEF TypeOK, Inside, Goto, Build
    <2>2. CASE r # p
      BY <1>3, <2>2, <1>b DEF TypeOK, user, Goto, Build
    <2> QED BY <2>1, <2>2
  <1>4. ASSUME NEW p \in Processes, Acquire(p) PROVE CarriedOf(r)'
    <2>1. CASE r = p
      <3>1. pc'[r] \in {"locked", "done"}
        BY <1>4, <2>1 DEF Acquire, Goto, TypeOK
      <3> QED BY <3>1, <1>c DEF Inside
    <2>2. CASE r # p
      BY <1>4, <2>2, <1>b DEF TypeOK, user, Goto, Acquire
    <2> QED BY <2>1, <2>2
  <1>5. ASSUME NEW p \in Processes, Check(p) PROVE CarriedOf(r)'
    <2>1. CASE r = p
      <3>1. CASE Conflict(p)
        BY <1>5, <2>1, <3>1, <1>c DEF Check, Goto, TypeOK, Inside
      <3>2. CASE ~Conflict(p)
        <4>1. pc'[p] \in {"release", "copy"} /\ old'[p] = Found
          BY <1>5 DEF Check, Goto, TypeOK
        <4>2. ASSUME NEW q \in settled, FileAt(q) = Mine PROVE Found[q] = Absent
          <5>1. q \in Paths /\ Found \in Manifest
            BY DEF TypeOK, Found, Empty, Tree, Manifest
          <5>2. Found[q] # Mine
            BY <5>1, VaultAssumption DEF Manifest
          <5> QED BY <3>2, <4>2, <5>1, <5>2, VaultAssumption DEF Conflict
        <4>3. settled' = settled /\ \A q : FileAt(q)' = FileAt(q)
          BY <1>5 DEF Check, user, FileAt
        <4> QED BY <2>1, <4>1, <4>2, <4>3 DEF CarriedOf
      <3> QED BY <3>1, <3>2
    <2>2. CASE r # p
      BY <1>5, <2>2, <1>b DEF TypeOK, user, Goto, Check
    <2> QED BY <2>1, <2>2
  <1>6. ASSUME NEW p \in Processes, CopyUnmanaged(p) PROVE CarriedOf(r)'
    <2>1. CASE r = p
      <3>1. pc'[p] = "write" /\ settled' = settled /\ \A q : FileAt(q)' = FileAt(q)
        BY <1>6 DEF CopyUnmanaged, Goto, TypeOK, user, FileAt
      <3>2. \A q \in Paths : old[p][q] = Absent => next'[p].files[q] = FileAt(q)
        BY <1>6 DEF CopyUnmanaged, TypeOK
      <3>3. \A q \in settled : FileAt(q) = Mine => old[p][q] = Absent
        BY <1>6, <1>a, <2>1 DEF CopyUnmanaged, CarriedOf
      <3> QED BY <2>1, <3>1, <3>2, <3>3 DEF CarriedOf, TypeOK
    <2>2. CASE r # p
      BY <1>6, <2>2, <1>b DEF TypeOK, user, Goto, CopyUnmanaged
    <2> QED BY <2>1, <2>2
  <1>7. ASSUME NEW p \in Processes, WriteNotes(p) PROVE CarriedOf(r)'
    <2>1. CASE r = p
      <3>1. CASE \E q \in Paths : notes[p][q] # Absent /\ next[p].files[q] # Absent
        BY <1>7, <2>1, <3>1, <1>c DEF WriteNotes, Goto, TypeOK, Inside
      <3>2. CASE ~ \E q \in Paths : notes[p][q] # Absent /\ next[p].files[q] # Absent
        <4>1. pc'[p] = "staged" /\ next'[p] = Staged(p)
          BY <1>7, <3>2 DEF WriteNotes, Goto, TypeOK
        <4>2. settled' = settled /\ \A q : FileAt(q)' = FileAt(q)
          BY <1>7 DEF WriteNotes, user, FileAt
        <4>3. ASSUME NEW q \in settled, FileAt(q) = Mine PROVE Staged(p).files[q] = Mine
          <5>1. q \in Paths /\ next[p].files[q] = Mine
            BY <1>7, <1>a, <2>1, <4>3 DEF WriteNotes, CarriedOf, TypeOK
          <5>2. notes[p][q] = Absent
            BY <3>2, <5>1, VaultAssumption
          <5> QED BY <5>1, <5>2, StagedUser
        <4> QED BY <2>1, <4>1, <4>2, <4>3 DEF CarriedOf
      <3> QED BY <3>1, <3>2
    <2>2. CASE r # p
      BY <1>7, <2>2, <1>b DEF TypeOK, user, Goto, WriteNotes
    <2> QED BY <2>1, <2>2
  <1>8. ASSUME NEW p \in Processes, Fail(p) PROVE CarriedOf(r)'
    <2>1. CASE r = p
      BY <1>8, <2>1, <1>c DEF TypeOK, Inside, Goto, Fail
    <2>2. CASE r # p
      BY <1>8, <2>2, <1>b DEF TypeOK, user, Goto, Fail
    <2> QED BY <2>1, <2>2
  <1>9. ASSUME NEW p \in Processes, MoveOut(p) PROVE CarriedOf(r)'
    <2>1. CASE r = p
      <3>1. pc'[p] = "moved" /\ previous'[p] = vault /\ next' = next /\ settled' = settled
        BY <1>9 DEF MoveOut, Goto, TypeOK, user
      <3>2. \A q \in settled : FileAt(q) = Mine => next[p].files[q] = Mine
        BY <1>9, <1>a, <2>1 DEF MoveOut, CarriedOf
      <3> QED BY <2>1, <3>1, <3>2 DEF CarriedOf, FileAt
    <2>2. CASE r # p
      BY <1>9, <2>2, <1>c, Alone DEF TypeOK, Inside, Locked, user, Goto, MoveOut
    <2> QED BY <2>1, <2>2
  <1>10. ASSUME NEW p \in Processes, MoveIn(p) PROVE CarriedOf(r)'
    <2>1. CASE r = p
      BY <1>10, <2>1, <1>c DEF TypeOK, Inside, Goto, MoveIn
    <2>2. CASE r # p
      BY <1>10, <2>2, <1>c, Alone DEF TypeOK, Inside, Locked, user, Goto, MoveIn
    <2> QED BY <2>1, <2>2
  <1>11. ASSUME NEW p \in Processes, MoveInFails(p) PROVE CarriedOf(r)'
    <2>1. CASE r = p
      <3>1. pc'[p] \in {"release", "rollback"}
        BY <1>11 DEF MoveInFails, Goto, TypeOK
      <3> QED BY <2>1, <3>1 DEF CarriedOf
    <2>2. CASE r # p
      BY <1>11, <2>2, <1>b DEF TypeOK, user, Goto, MoveInFails
    <2> QED BY <2>1, <2>2
  <1>12. ASSUME NEW p \in Processes, Rollback(p) PROVE CarriedOf(r)'
    <2>1. CASE r = p
      BY <1>12, <2>1, <1>c DEF TypeOK, Inside, Goto, Rollback
    <2>2. CASE r # p
      BY <1>12, <2>2, <1>c, Alone DEF TypeOK, Inside, Locked, user, Goto, Rollback
    <2> QED BY <2>1, <2>2
  <1>13. ASSUME NEW p \in Processes, RollbackFails(p) PROVE CarriedOf(r)'
    <2>1. CASE r = p
      BY <1>13, <2>1, <1>c DEF TypeOK, Inside, Goto, RollbackFails
    <2>2. CASE r # p
      BY <1>13, <2>2, <1>b DEF TypeOK, user, Goto, RollbackFails
    <2> QED BY <2>1, <2>2
  <1>14. ASSUME NEW p \in Processes, Release(p) PROVE CarriedOf(r)'
    <2>1. CASE r = p
      BY <1>14, <2>1, <1>c DEF TypeOK, Inside, Goto, Release, Forget
    <2>2. CASE r # p
      BY <1>14, <2>2, <1>b DEF TypeOK, user, Goto, Release, Forget
    <2> QED BY <2>1, <2>2
  <1>15. ASSUME NEW p \in Processes, Return(p) PROVE CarriedOf(r)'
    <2>1. CASE r = p
      BY <1>15, <2>1, <1>c DEF TypeOK, Inside, Goto, Return
    <2>2. CASE r # p
      BY <1>15, <2>2, <1>b DEF TypeOK, user, Goto, Return
    <2> QED BY <2>1, <2>2
  <1>16. ASSUME NEW p \in Processes, Kill(p) PROVE CarriedOf(r)'
    <2>1. CASE r = p
      BY <1>16, <2>1, <1>c DEF TypeOK, Inside, Goto, Kill, Gone, Forget
    <2>2. CASE r # p
      BY <1>16, <2>2, <1>b DEF TypeOK, user, Goto, Kill, Gone, Forget
    <2> QED BY <2>1, <2>2
  <1>17. ASSUME NEW p \in Processes, ExitStarting(p) PROVE CarriedOf(r)'
    <2>1. CASE r = p
      BY <1>17, <2>1, <1>c DEF TypeOK, Inside, Goto, ExitStarting, Gone, Forget
    <2>2. CASE r # p
      BY <1>17, <2>2, <1>b DEF TypeOK, user, Goto, ExitStarting, Gone, Forget
    <2> QED BY <2>1, <2>2
  <1>18. ASSUME NEW p \in Processes, ExitRunning(p) PROVE CarriedOf(r)'
    <2>1. CASE r = p
      BY <1>18, <2>1, <1>c DEF TypeOK, Inside, Goto, ExitRunning, Gone, Forget
    <2>2. CASE r # p
      BY <1>18, <2>2, <1>b DEF TypeOK, user, Goto, ExitRunning, Gone, Forget
    <2> QED BY <2>1, <2>2
  <1>19. ASSUME NEW p \in Processes, Restart(p) PROVE CarriedOf(r)'
    <2>1. CASE r = p
      BY <1>19, <2>1, <1>c DEF TypeOK, Inside, Goto, Restart
    <2>2. CASE r # p
      BY <1>19, <2>2, <1>b DEF TypeOK, user, Goto, Restart
    <2> QED BY <2>1, <2>2
  <1>20. ASSUME Recover PROVE CarriedOf(r)'
    BY <1>20, <1>c DEF Inside, Guarded, Locked, Recover
  <1>21. ASSUME NEW q \in Paths, Write(q) PROVE CarriedOf(r)'
    <2>1. \A k \in settled' : k # q => k \in settled
      BY <1>21 DEF Write
    <2>2. \A k \in Paths : k # q => FileAt(k)' = FileAt(k)
      BY <1>21, EditedTree DEF Write, FileAt
    <2>3. q \in settled' => ~Unseen(q)
      BY <1>21 DEF Write
    <2>4. pc' = pc /\ old' = old /\ next' = next /\ previous' = previous /\ settled' \subseteq Paths
      BY <1>21 DEF Write, TypeOK
    <2>5. pc[r] # "moved"
      BY <1>21 DEF Write, Staging, StagingOf
    <2> QED BY <1>a, <2>1, <2>2, <2>3, <2>4, <2>5 DEF CarriedOf, Unseen
  <1>22. ASSUME NEW q \in Paths, Delete(q) PROVE CarriedOf(r)'
    <2>1. \A k \in settled' : k # q /\ k \in settled
      BY <1>22 DEF Delete
    <2>2. \A k \in Paths : k # q => FileAt(k)' = FileAt(k)
      BY <1>22, EditedTree DEF Delete, FileAt
    <2>3. pc' = pc /\ old' = old /\ next' = next /\ previous' = previous /\ settled' \subseteq Paths
      BY <1>22 DEF Delete, TypeOK
    <2> QED BY <1>a, <2>1, <2>2, <2>3 DEF CarriedOf
  <1>23. ASSUME UNCHANGED vars PROVE CarriedOf(r)'
    BY <1>23, <1>b DEF vars
  <1> QED BY <1>1, <1>2, <1>3, <1>4, <1>5, <1>6, <1>7, <1>8, <1>9, <1>10, <1>11, <1>12,
     <1>13, <1>14, <1>15, <1>16, <1>17, <1>18, <1>19, <1>20, <1>21, <1>22, <1>23
     DEF Next, Publish

(* The user's text is always somewhere it can be found. *)
LEMMA SafeStep ==
  IInv /\ [Next]_vars => Safe'
  <1> USE NoTreeAssumption
  <1> SUFFICES ASSUME IInv, [Next]_vars PROVE Safe' OBVIOUS
  <1> USE DEF IInv
  <1>a. ASSUME vault' = vault, retained \subseteq retained', settled' = settled,
              \A r \in Processes : pc[r] \in {"moved", "rollback"} =>
                  pc'[r] \in {"moved", "rollback"} /\ previous'[r] = previous[r]
        PROVE  Safe'
    BY <1>a DEF Safe, Kept, Away
  <1>1. ASSUME NEW p \in Processes, Reindex(p) PROVE Safe'
    BY <1>1, <1>a DEF TypeOK, user, Goto, Reindex
  <1>2. ASSUME NEW p \in Processes, StartupFails(p) PROVE Safe'
    BY <1>2, <1>a DEF TypeOK, user, Goto, StartupFails
  <1>3. ASSUME NEW p \in Processes, Build(p) PROVE Safe'
    BY <1>3, <1>a DEF TypeOK, user, Goto, Build
  <1>4. ASSUME NEW p \in Processes, Acquire(p) PROVE Safe'
    <2>1. pc'[p] \in {"locked", "done"} /\ \A r \in Processes : r # p => pc'[r] = pc[r]
      BY <1>4 DEF Acquire, Goto, TypeOK
    <2> QED BY <1>4, <1>a, <2>1 DEF Acquire, user
  <1>5. ASSUME NEW p \in Processes, Check(p) PROVE Safe'
    BY <1>5, <1>a DEF TypeOK, user, Goto, Check
  <1>6. ASSUME NEW p \in Processes, CopyUnmanaged(p) PROVE Safe'
    BY <1>6, <1>a DEF TypeOK, user, Goto, CopyUnmanaged
  <1>7. ASSUME NEW p \in Processes, WriteNotes(p) PROVE Safe'
    BY <1>7, <1>a DEF TypeOK, user, Goto, WriteNotes
  <1>8. ASSUME NEW p \in Processes, Fail(p) PROVE Safe'
    BY <1>8, <1>a DEF TypeOK, user, Goto, Fail
  <1>9. ASSUME NEW p \in Processes, MoveOut(p) PROVE Safe'
    <2>1. pc'[p] = "moved" /\ previous'[p] = vault /\ settled' = settled /\ retained' = retained
      BY <1>9 DEF MoveOut, Goto, TypeOK, user
    <2>2. \A r \in Processes : pc[r] \notin {"moved", "rollback"}
      BY <1>9, Alone DEF MoveOut, Locked
    <2>3. ASSUME NEW q \in settled PROVE (Kept(q) \/ \E r \in Processes : Away(r, q))'
      <3>1. PICK tree \in {vault} \cup retained : tree # NoTree /\ tree.files[q] = Mine
        BY <2>2 DEF Safe, Kept, Away
      <3>2. CASE tree = vault
        BY <2>1, <3>1, <3>2 DEF Away
      <3>3. CASE tree \in retained
        BY <2>1, <3>1, <3>3 DEF Kept
      <3> QED BY <3>1, <3>2, <3>3
    <2> QED BY <2>1, <2>3 DEF Safe
  <1>10. ASSUME NEW p \in Processes, MoveIn(p) PROVE Safe'
    <2>1. vault' = next[p] /\ settled' = settled /\ retained' = retained /\ vault = NoTree
      BY <1>10 DEF MoveIn, user, Staging, StagingOf
    <2>2. next[p] # NoTree
      BY <1>10 DEF MoveIn, Staging, StagingOf
    <2>3. ASSUME NEW q \in settled PROVE Kept(q)'
      <3>1. CASE Kept(q)
        BY <2>1, <3>1 DEF Kept
      <3>2. CASE ~Kept(q)
        <4>1. Away(p, q)
          BY <1>10, <3>2, Alone DEF MoveIn, Safe, Away, Locked
        <4>2. next[p].files[q] = Mine
          BY <1>10, <4>1 DEF MoveIn, Away, Carried, CarriedOf
        <4> QED BY <2>1, <2>2, <4>2 DEF Kept
      <3> QED BY <3>1, <3>2
    <2> QED BY <2>1, <2>3 DEF Safe
  <1>11. ASSUME NEW p \in Processes, MoveInFails(p) PROVE Safe'
    <2>1. settled' = settled /\ retained' = retained /\ vault' = vault /\ previous' = previous
      BY <1>11 DEF MoveInFails, user
    <2>2. \A r \in Processes : pc[r] \in {"moved", "rollback"} => r = p
      BY <1>11, Alone DEF MoveInFails, Locked
    <2>3. previous[p] # NoTree => pc'[p] = "rollback"
      BY <1>11 DEF MoveInFails, Goto, TypeOK
    <2> QED BY <2>1, <2>2, <2>3 DEF Safe, Kept, Away
  <1>12. ASSUME NEW p \in Processes, Rollback(p) PROVE Safe'
    <2>1. vault' = previous[p] /\ settled' = settled /\ retained' = retained /\ vault = NoTree
      BY <1>12 DEF Rollback, user, Staging, StagingOf
    <2>2. \A r \in Processes : pc[r] \in {"moved", "rollback"} => r = p
      BY <1>12, Alone DEF Rollback, Locked
    <2> QED BY <2>1, <2>2 DEF Safe, Kept, Away
  <1>13. ASSUME NEW p \in Processes, RollbackFails(p) PROVE Safe'
    <2>1. settled' = settled /\ vault' = vault /\ retained' = retained \cup {previous[p]}
      BY <1>13 DEF RollbackFails, user
    <2>2. \A r \in Processes : pc[r] \in {"moved", "rollback"} => r = p
      BY <1>13, Alone DEF RollbackFails, Locked
    <2> QED BY <2>1, <2>2 DEF Safe, Kept, Away
  <1>14. ASSUME NEW p \in Processes, Release(p) PROVE Safe'
    BY <1>14, <1>a DEF TypeOK, user, Goto, Release, Forget
  <1>15. ASSUME NEW p \in Processes, Return(p) PROVE Safe'
    BY <1>15, <1>a DEF TypeOK, user, Goto, Return
  <1>16. ASSUME NEW p \in Processes, Kill(p) PROVE Safe'
    BY <1>16, GoneSafe DEF Kill
  <1>17. ASSUME NEW p \in Processes, ExitStarting(p) PROVE Safe'
    BY <1>17, GoneSafe DEF ExitStarting
  <1>18. ASSUME NEW p \in Processes, ExitRunning(p) PROVE Safe'
    BY <1>18, GoneSafe DEF ExitRunning
  <1>19. ASSUME NEW p \in Processes, Restart(p) PROVE Safe'
    BY <1>19, <1>a DEF TypeOK, user, Goto, Restart
  <1>20. ASSUME Recover PROVE Safe'
    BY <1>20 DEF Recover, user, Safe, Kept, Away, Guarded, Locked
  <1>21. ASSUME NEW q \in Paths, Write(q) PROVE Safe'
    <2>1. vault # NoTree /\ vault' # NoTree /\ vault'.files[q] = Mine
      BY <1>21, EditedTree DEF Write
    <2>2. \A k \in Paths : k # q => vault'.files[k] = vault.files[k]
      BY <1>21, EditedTree DEF Write
    <2>3. settled' \subseteq settled \cup {q} /\ settled \subseteq Paths
      BY <1>21 DEF Write, TypeOK
    <2>4. retained' = retained /\ pc' = pc /\ previous' = previous
      BY <1>21 DEF Write
    <2>5. Kept(q)'
      BY <2>1 DEF Kept
    <2>6. \A k \in Paths : k # q /\ Kept(k) => Kept(k)'
      BY <2>1, <2>2, <2>4 DEF Kept
    <2> QED BY <2>3, <2>4, <2>5, <2>6 DEF Safe, Away
  <1>22. ASSUME NEW q \in Paths, Delete(q) PROVE Safe'
    <2>1. vault # NoTree /\ vault' # NoTree
      BY <1>22, EditedTree DEF Delete
    <2>2. \A k \in Paths : k # q => vault'.files[k] = vault.files[k]
      BY <1>22, EditedTree DEF Delete
    <2>3. settled' = settled \ {q} /\ settled \subseteq Paths
      BY <1>22 DEF Delete, TypeOK
    <2>4. retained' = retained /\ pc' = pc /\ previous' = previous
      BY <1>22 DEF Delete
    <2>5. \A k \in Paths : k # q /\ Kept(k) => Kept(k)'
      BY <2>1, <2>2, <2>4 DEF Kept
    <2> QED BY <2>3, <2>4, <2>5 DEF Safe, Away
  <1>23. ASSUME UNCHANGED vars PROVE Safe'
    BY <1>23, <1>a DEF TypeOK, user, vars
  <1> QED BY <1>1, <1>2, <1>3, <1>4, <1>5, <1>6, <1>7, <1>8, <1>9, <1>10, <1>11, <1>12,
     <1>13, <1>14, <1>15, <1>16, <1>17, <1>18, <1>19, <1>20, <1>21, <1>22, <1>23
     DEF Next, Publish

(* What is published or kept is whole. *)
LEMMA WholeStep ==
  IInv /\ [Next]_vars => Whole'
  <1> USE NoTreeAssumption
  <1> SUFFICES ASSUME IInv, [Next]_vars PROVE Whole' OBVIOUS
  <1> USE DEF IInv
  <1>a. ASSUME touched \subseteq touched', vault' \in {vault, NoTree}, retained' = retained
        PROVE  Whole'
    BY <1>a, WholeGrows DEF Whole
  <1>1. ASSUME NEW p \in Processes, Reindex(p) PROVE Whole'
    BY <1>1, <1>a DEF Goto, Reindex, user
  <1>2. ASSUME NEW p \in Processes, StartupFails(p) PROVE Whole'
    BY <1>2, <1>a DEF Goto, StartupFails, user
  <1>3. ASSUME NEW p \in Processes, Build(p) PROVE Whole'
    BY <1>3, <1>a DEF Goto, Build, user
  <1>4. ASSUME NEW p \in Processes, Acquire(p) PROVE Whole'
    BY <1>4, <1>a DEF Goto, Acquire, user
  <1>5. ASSUME NEW p \in Processes, Check(p) PROVE Whole'
    BY <1>5, <1>a DEF Goto, Check, user
  <1>6. ASSUME NEW p \in Processes, CopyUnmanaged(p) PROVE Whole'
    BY <1>6, <1>a DEF Goto, CopyUnmanaged, user
  <1>7. ASSUME NEW p \in Processes, WriteNotes(p) PROVE Whole'
    BY <1>7, <1>a DEF Goto, WriteNotes, user
  <1>8. ASSUME NEW p \in Processes, Fail(p) PROVE Whole'
    BY <1>8, <1>a DEF Goto, Fail, user
  <1>9. ASSUME NEW p \in Processes, MoveOut(p) PROVE Whole'
    BY <1>9, <1>a DEF Goto, MoveOut, user
  <1>10. ASSUME NEW p \in Processes, MoveIn(p) PROVE Whole'
    BY <1>10, WholeGrows DEF MoveIn, user, Whole, Staging, StagingOf
  <1>11. ASSUME NEW p \in Processes, MoveInFails(p) PROVE Whole'
    BY <1>11, <1>a DEF Goto, MoveInFails, user
  <1>12. ASSUME NEW p \in Processes, Rollback(p) PROVE Whole'
    BY <1>12, WholeGrows DEF Rollback, user, Whole, Staging, StagingOf
  <1>13. ASSUME NEW p \in Processes, RollbackFails(p) PROVE Whole'
    BY <1>13, WholeGrows DEF RollbackFails, user, Whole, Staging, StagingOf
  <1>14. ASSUME NEW p \in Processes, Release(p) PROVE Whole'
    BY <1>14, <1>a DEF Goto, Release, Forget, user
  <1>15. ASSUME NEW p \in Processes, Return(p) PROVE Whole'
    BY <1>15, <1>a DEF Goto, Return, user
  <1>16. ASSUME NEW p \in Processes, Kill(p) PROVE Whole'
    BY <1>16, GoneWhole DEF Kill
  <1>17. ASSUME NEW p \in Processes, ExitStarting(p) PROVE Whole'
    BY <1>17, GoneWhole DEF ExitStarting
  <1>18. ASSUME NEW p \in Processes, ExitRunning(p) PROVE Whole'
    BY <1>18, GoneWhole DEF ExitRunning
  <1>19. ASSUME NEW p \in Processes, Restart(p) PROVE Whole'
    BY <1>19, <1>a DEF Goto, Restart, user
  <1>20. ASSUME Recover PROVE Whole'
    BY <1>20, WholeGrows DEF Recover, user, Whole
  <1>21. ASSUME NEW q \in Paths, Write(q) PROVE Whole'
    <2>1. vault # NoTree /\ WholeTree(vault)
      BY <1>21 DEF Write, Whole
    <2>2. vault'.manifest = vault.manifest /\ \A k \in Paths : k # q => vault'.files[k] = vault.files[k]
      BY <1>21, EditedTree DEF Write
    <2>3. touched' = touched \cup {q} /\ retained' = retained
      BY <1>21 DEF Write
    <2>4. WholeTree(vault)'
      BY <2>1, <2>2, <2>3 DEF WholeTree
    <2> QED BY <2>3, <2>4, WholeGrows DEF Whole
  <1>22. ASSUME NEW q \in Paths, Delete(q) PROVE Whole'
    <2>1. vault # NoTree /\ WholeTree(vault)
      BY <1>22 DEF Delete, Whole
    <2>2. vault'.manifest = vault.manifest /\ \A k \in Paths : k # q => vault'.files[k] = vault.files[k]
      BY <1>22, EditedTree DEF Delete
    <2>3. touched' = touched \cup {q} /\ retained' = retained
      BY <1>22 DEF Delete
    <2>4. WholeTree(vault)'
      BY <2>1, <2>2, <2>3 DEF WholeTree
    <2> QED BY <2>3, <2>4, WholeGrows DEF Whole
  <1>23. ASSUME UNCHANGED vars PROVE Whole'
    BY <1>23, <1>a DEF vars, user
  <1> QED BY <1>1, <1>2, <1>3, <1>4, <1>5, <1>6, <1>7, <1>8, <1>9, <1>10, <1>11, <1>12,
     <1>13, <1>14, <1>15, <1>16, <1>17, <1>18, <1>19, <1>20, <1>21, <1>22, <1>23
     DEF Next, Publish

-----------------------------------------------------------------------------
LEMMA InitInv == Init => IInv
  <1> SUFFICES ASSUME Init PROVE IInv OBVIOUS
  <1>1. Empty \in Manifest /\ Indexes \subseteq Manifest
    BY DEF Empty, Manifest, Indexes
  <1>2. vault = NoTree \/ (vault \in Tree /\ WholeTree(vault))
    <2>1. CASE vault = NoTree
      BY <2>1
    <2>2. CASE vault = [files |-> index, manifest |-> index]
      BY <1>1, <2>2 DEF Init, Tree, Manifest, WholeTree
    <2>3. CASE \E q \in Paths : vault = [files |-> [Empty EXCEPT ![q] = Mine],
       manifest |-> Empty]
      <3>1. PICK q \in Paths : vault = [files |-> [Empty EXCEPT ![q] = Mine],
         manifest |-> Empty]
        BY <2>3
      <3>2. [Empty EXCEPT ![q] = Mine] \in [Paths -> Texts \cup {Mine, Absent}]
        BY DEF Empty
      <3>3. vault \in Tree
        BY <1>1, <3>1, <3>2 DEF Tree
      <3>4. \A k \in Paths : vault.manifest[k] = Absent
        BY <3>1 DEF Empty
      <3> QED BY <3>3, <3>4 DEF WholeTree
    <2> QED BY <2>1, <2>2, <2>3 DEF Init
  <1>3. TypeOK
    <2>1. settled \subseteq Paths /\ touched \subseteq Paths
      BY DEF Init
    <2>2. runs \in 0 .. MaxRuns /\ edits \in 0 .. MaxEdits
      BY VaultAssumption DEF Init
    <2> QED BY <1>1, <1>2, <2>1, <2>2 DEF Init, TypeOK
  <1>4. LockExplained
    BY VaultAssumption DEF Init, LockExplained, Locked
  <1>5. Whole
    BY <1>2 DEF Init, Whole
  <1>6. Staging
    BY DEF Init, Staging, StagingOf
  <1>7. Carried
    BY DEF Init, Carried, CarriedOf
  <1>8. Safe
    <2> SUFFICES ASSUME NEW q \in settled PROVE Kept(q)
      BY DEF Safe
    <2>1. vault # NoTree /\ vault.files[q] = Mine
      BY DEF Init
    <2> QED BY <2>1 DEF Kept
  <1> QED BY <1>3, <1>4, <1>5, <1>6, <1>7, <1>8 DEF IInv

LEMMA NextInv == IInv /\ [Next]_vars => IInv'
  BY TypeStep, LockStep, StagingStep, CarriedStep, SafeStep, WholeStep DEF IInv

LEMMA UserKept == IInv => UserTextKept
  <1> SUFFICES ASSUME IInv PROVE UserTextKept OBVIOUS
  <1> USE NoTreeAssumption DEF IInv
  <1>1. ASSUME NEW q \in settled PROVE \E tree \in Trees : tree.files[q] = Mine
    BY DEF Safe, Kept, Away, Trees
  <1>2. ASSUME retained = {}, vault # NoTree, NEW q \in settled PROVE vault.files[q] = Mine
    <2>1. \A p \in Processes : ~Away(p, q)
      BY <1>2 DEF Away, Staging, StagingOf
    <2> QED BY <1>2, <2>1 DEF Safe, Kept
  <1> QED BY <1>1, <1>2 DEF UserTextKept

(* The invariant holds of every behaviour. *)
LEMMA Invariant == Spec => []IInv
  BY InitInv, NextInv, PTL DEF Spec

(* Every reachable state of the vault's publication is of its type. *)
THEOREM VaultTyped == Spec => []TypeOK
  <1>1. IInv => TypeOK
    BY DEF IInv
  <1> QED BY <1>1, Invariant, PTL

(* One publication at a time; what is published is one whole generation of   *)
(* notes; the user's text is never lost; no exit during startup leaves the   *)
(* lock file: for any processes, files, texts and numbers of runs.           *)
THEOREM PublicationIntact == Spec => []VaultIntact
  <1>1. IInv => VaultIntact
    BY UserKept DEF IInv, VaultIntact
  <1> QED BY <1>1, Invariant, PTL
================================================================================
