----------------------------- MODULE Indexer_proofs -----------------------------
(***************************************************************************)
(* For any tree, rules, batches, permissions and bounds: types; a          *)
(* reconciled generation has no read failure on record of what a run       *)
(* reads; rows follow the rules of the last full run when the end of a run *)
(* cannot fail; and live rows stay, but for what a run over paths cannot   *)
(* look up when it searches for the old ends of renames.                   *)
(*                                                                         *)
(* None of them is inductive: each speaks of the committed database, which *)
(* a run replaces at its end by what it gathered in many steps.  The       *)
(* invariants below say what the open transaction and the run know in      *)
(* between.                                                                *)
(*                                                                         *)
(* And what a committed run covered is stored as a fresh index would store *)
(* it, or its read failure is on record, or it is out of reach and nothing *)
(* of it is left (NoSilentStaleness).  That speaks of files that are not   *)
(* dirty and of the committed database.  Settled says how such a file is   *)
(* excused when it is not exact: it could not be read and still cannot, or *)
(* it was moved away and the rows it left will be found by their content.  *)
(* Progress follows the files that will be clean when the run in progress  *)
(* commits, through the transaction: what is seen is exact, what is not    *)
(* yet right is still to be visited.                                       *)
(***************************************************************************)
EXTENDS Indexer, TLAPS

Runs == [kind : {"none", "full", "paths"}, force : BOOLEAN, todo : SUBSET Paths,
         covers : SUBSET Files, walk : Dirs \union {Nobody}, listed : SUBSET Files,
         seen : SUBSET Files, unreadable : SUBSET Paths, created : SUBSET Files,
         reading : Files \union {Nobody}, was : BOOLEAN,
         content : Hashes \union Odd \union {Absent}, gen : Nat, rules : SUBSET Files,
         before : Nat, ending : BOOLEAN]

(* What sort of run is in progress. *)
Sorts ==
    /\ run.kind = "none" => run = Idle
    /\ run.kind = "full" => run.todo \subseteq Dirs /\ run.walk = Nobody
    /\ run.reading # Nobody => Running /\ ~run.ending /\ run.content # Absent
    /\ run.ending => Running

Types == TypeOK /\ run \in Runs /\ Sorts

(* No read failure of what a run reads stands beside a full reconciliation. *)
Readable(w) == w.generation > 0 /\ w.reconciled = w.generation
                  => \A i \in w.issues : i[2] = "read" => i[1] \notin Dirs \union Parsed

Reconciling ==
    /\ db.reconciled <= db.generation /\ work.reconciled <= work.generation
    /\ Readable(db)
    /\ run.ending => Readable(work)
    /\ run.reading # Nobody => <<run.reading, "read">> \notin work.issues
    /\ run.kind = "full" /\ ~run.ending /\ run.unreadable = {} =>
          \A f \in run.seen \intersect Parsed : <<f, "read">> \notin work.issues

(* A generation names the rules it was given, as long as it is the last. *)
Clean(w) == \A f \in rules.excluded : ~HasRows(w, f)

Following ==
    /\ applied <= rules.generation
    /\ run.gen <= rules.generation
    /\ run.kind = "full" /\ run.gen = rules.generation => run.rules = rules.excluded
    /\ run.kind = "full" /\ run.ending =>
          applied = run.gen /\ (run.gen = rules.generation => Clean(work))
    /\ ready /\ applied = rules.generation /\ ~(run.kind = "full" /\ run.ending) =>
          Clean(db) /\ walkedWith = rules.excluded
    /\ ready /\ applied = rules.generation /\ run.kind = "paths" =>
          /\ Clean(work)
          /\ run.listed \intersect rules.excluded = {}
          /\ run.reading # Nobody => run.reading \notin rules.excluded

(* What a run that met no change has to come back to, or has dealt with. *)
Ahead(f) == \/ f \in run.listed \union run.seen \/ f = run.reading
            \/ Retained(f, run.unreadable)

Quiet == Running /\ changed = {} /\ run.gen = rules.generation

Keeping ==
    /\ run.gen <= rules.generation
    /\ Quiet => \A f \in Files : Live(f) =>
          /\ work.rows[f] = db.rows[f] \/ (run.ending /\ TakenForMoved(f))
          /\ run.kind = "full" /\ ~run.ending => DirOf[f] \in run.todo \/ Ahead(f)
          /\ run.walk = DirOf[f] => Ahead(f)

-----------------------------------------------------------------------------
(* The operators on a database. *)
LEMMA Parts ==
  ASSUME NEW w \in Database
  PROVE  /\ w = [rows |-> w.rows, issues |-> w.issues,
                 generation |-> w.generation, reconciled |-> w.reconciled]
         /\ w.rows \in [Files -> Hashes \union {NoRow}]
         /\ w.issues \subseteq Paths \X IssueKinds
         /\ w.generation \in 0 .. MaxGeneration /\ w.reconciled \in 0 .. MaxGeneration
  BY DEF Database

LEMMA FlagOp ==
  ASSUME NEW w \in Database, NEW p \in Paths, NEW k \in IssueKinds
  PROVE  /\ Flag(w, p, k) \in Database
         /\ Flag(w, p, k).rows = w.rows /\ Flag(w, p, k).issues = w.issues \union {<<p, k>>}
         /\ Flag(w, p, k).generation = w.generation /\ Flag(w, p, k).reconciled = w.reconciled
  BY DEF Database, Flag

LEMMA ClearOp ==
  ASSUME NEW w \in Database, NEW p, NEW k
  PROVE  /\ Clear(w, p, k) \in Database
         /\ Clear(w, p, k).rows = w.rows /\ Clear(w, p, k).issues = w.issues \ {<<p, k>>}
         /\ Clear(w, p, k).generation = w.generation /\ Clear(w, p, k).reconciled = w.reconciled
  BY DEF Database, Clear

LEMMA ForgetOp ==
  ASSUME NEW w \in Database, NEW gone
  PROVE  /\ Forget(w, gone) \in Database
         /\ \A f \in Files : Forget(w, gone).rows[f] = IF f \in gone THEN NoRow ELSE w.rows[f]
         /\ Forget(w, gone).issues = {i \in w.issues : i[1] \notin gone}
         /\ Forget(w, gone).generation = w.generation
         /\ Forget(w, gone).reconciled = w.reconciled
  BY DEF Database, Forget

LEMMA StoreOp ==
  ASSUME NEW w \in Database, NEW f \in Files, NEW c \in Hashes \union OddContents
  PROVE  /\ Store(w, f, c) \in Database
         /\ \A g \in Files : g # f => Store(w, f, c).rows[g] = w.rows[g]
         /\ c \in Hashes => Store(w, f, c).rows[f] = c
         /\ \A g, k : g # f \/ k # "syntax" =>
               (<<g, k>> \in Store(w, f, c).issues => <<g, k>> \in w.issues)
         /\ Store(w, f, c).generation = w.generation
         /\ Store(w, f, c).reconciled = w.reconciled
  <1>0. Hashes \intersect OddContents = {}
    BY ContentAssumption
  <1>1. CASE c \in Hashes
    <2>1. Store(w, f, c) = [w EXCEPT !.rows[f] = c, !.issues = {i \in @ : i[1] # f}]
      BY <1>0, <1>1 DEF Store, OddContents
    <2> QED BY <1>1, <2>1 DEF Database
  <1> DEFINE v == [w EXCEPT !.rows[f] = NoRow]
  <1>v. /\ v \in Database /\ v.issues = w.issues
        /\ v.generation = w.generation /\ v.reconciled = w.reconciled
        /\ \A g \in Files : g # f => v.rows[g] = w.rows[g]
    BY DEF Database
  <1>2. CASE c \in {"broken", "foreign"}
    <2>1. Store(w, f, c) = Flag(v, f, "syntax")
      BY <1>0, <1>2 DEF Store, OddContents
    <2>2. f \in Paths /\ "syntax" \in IssueKinds /\ c \notin Hashes
      BY <1>0, <1>2 DEF Paths, IssueKinds, OddContents
    <2> HIDE DEF v
    <2>3. /\ Flag(v, f, "syntax") \in Database
          /\ Flag(v, f, "syntax").rows = v.rows
          /\ Flag(v, f, "syntax").issues = v.issues \union {<<f, "syntax">>}
          /\ Flag(v, f, "syntax").generation = v.generation
          /\ Flag(v, f, "syntax").reconciled = v.reconciled
      BY <1>v, <2>2, FlagOp
    <2> QED BY <1>v, <2>1, <2>2, <2>3
  <1>3. CASE c = "binary"
    <2>1. Store(w, f, c) = Clear(v, f, "syntax")
      BY <1>0, <1>3 DEF Store, OddContents
    <2>2. c \notin Hashes
      BY <1>0, <1>3 DEF OddContents
    <2> HIDE DEF v
    <2> QED BY <1>v, <2>1, <2>2, ClearOp
  <1> QED BY <1>1, <1>2, <1>3 DEF OddContents

LEMMA StampOp ==
  ASSUME NEW w \in Database, NEW full \in BOOLEAN, w.generation < MaxGeneration
  PROVE  /\ Stamp(w, full) \in Database
         /\ Stamp(w, full).rows = w.rows /\ Stamp(w, full).issues = w.issues
         /\ Stamp(w, full).generation = w.generation + 1
         /\ Stamp(w, full).reconciled = IF full THEN w.generation + 1 ELSE w.reconciled
  <1>1. /\ w.generation + 1 \in 0 .. MaxGeneration
        /\ (IF full THEN w.generation + 1 ELSE w.reconciled) \in 0 .. MaxGeneration
    BY Parts, BoundAssumption
  <1> QED BY <1>1 DEF Database, Stamp

LEMMA SwappedOp ==
  ASSUME NEW r \in [excluded : SUBSET Files, generation : Nat], NEW text \in SUBSET Files
  PROVE  /\ Swapped(r, text) \in [excluded : SUBSET Files, generation : Nat]
         /\ Swapped(r, text) = r \/ Swapped(r, text).generation = r.generation + 1
         /\ Swapped(r, text).excluded = text
  BY DEF Swapped

(* No file of the tree is one of its directories. *)
LEMMA FileIsNoDir ==
  \A f \in Files : /\ f \notin Dirs /\ DirOf[f] \in Dirs
                    /\ f # Nobody /\ DirOf[f] # Nobody
  BY PathAssumption, DirOfAssumption

-----------------------------------------------------------------------------
(* A visit leaves the run what it is. *)
Steady == /\ run'.kind = run.kind /\ run'.gen = run.gen /\ run'.rules = run.rules
          /\ run'.ending = run.ending

LEMMA SeenAsOp ==
  ASSUME run \in Runs, NEW f \in Files, NEW was \in BOOLEAN, NEW w \in Database,
         SeenAs(run, f, was, w)
  PROVE  /\ work' = w /\ run' \in Runs /\ Steady
         /\ run'.todo = run.todo /\ run'.walk = run.walk
         /\ run'.listed = run.listed \ {f} /\ run'.seen = run.seen \union {f}
         /\ run'.unreadable = run.unreadable
         /\ run'.reading = Nobody /\ run'.content = Absent
  <1> DEFINE r == [run EXCEPT !.listed = @ \ {f}, !.seen = @ \union {f},
                              !.reading = Nobody, !.was = FALSE, !.content = Absent]
  <1>1. /\ r \in Runs /\ r.kind = run.kind /\ r.gen = run.gen /\ r.rules = run.rules
        /\ r.ending = run.ending /\ r.todo = run.todo /\ r.walk = run.walk
        /\ r.listed = run.listed \ {f} /\ r.seen = run.seen \union {f}
        /\ r.unreadable = run.unreadable /\ r.reading = Nobody /\ r.content = Absent
    BY DEF Runs
  <1>2. work' = w /\ run' = NoteCreated(r, f, was, w)
    BY DEF SeenAs
  <1> HIDE DEF r
  <1>3. CASE run' = r
    BY <1>1, <1>2, <1>3 DEF Steady
  <1>4. CASE run' = [r EXCEPT !.created = @ \union {f}]
    BY <1>1, <1>2, <1>4 DEF Steady, Runs
  <1> QED BY <1>2, <1>3, <1>4 DEF NoteCreated

LEMMA UnseenOp ==
  ASSUME run \in Runs, work \in Database, NEW f \in Files, Unseen(f)
  PROVE  /\ work' \in Database /\ run' \in Runs /\ Steady
         /\ run'.todo = run.todo /\ run'.walk = run.walk
         /\ run'.listed = run.listed \ {f} /\ run'.seen = run.seen
         /\ run'.unreadable = run.unreadable
         /\ run'.reading = run.reading /\ run'.content = run.content
         /\ work' = work \/ work' = Forget(work, {f})
  BY ForgetOp DEF Unseen, Runs, Steady

LEMMA UnreadableOp ==
  ASSUME run \in Runs, work \in Database, NEW f \in Files, Unreadable(f)
  PROVE  /\ work' \in Database /\ run' \in Runs /\ Steady
         /\ run'.todo = run.todo /\ run'.walk = run.walk
         /\ run'.listed = run.listed \ {f} /\ run'.seen = run.seen
         /\ run'.unreadable = run.unreadable \union {f}
         /\ run'.reading = run.reading /\ run'.content = run.content
         /\ work' = Flag(work, f, "read")
  <1>1. f \in Paths /\ "read" \in IssueKinds
    BY DEF Paths, IssueKinds
  <1>2. /\ run' \in Runs /\ Steady
         /\ run'.todo = run.todo /\ run'.walk = run.walk
         /\ run'.listed = run.listed \ {f} /\ run'.seen = run.seen
         /\ run'.unreadable = run.unreadable \union {f}
         /\ run'.reading = run.reading /\ run'.content = run.content
         /\ work' = Flag(work, f, "read")
    BY <1>1 DEF Unreadable, Runs, Steady
  <1> QED BY <1>1, <1>2, FlagOp

(* What is noted in w of f, whose bytes no parser sees. *)
Noted(f, w) ==
    /\ \A g \in Files : g # f \/ f \notin Parsed \/ (~run.force /\ work.rows[f] = disk[f])
                          => w.rows[g] = work.rows[g]
    /\ \A g, k : g # f \/ k = "read" => (<<g, k>> \in w.issues => <<g, k>> \in work.issues)
    /\ \A k : <<f, k>> \in w.issues =>
                 \/ <<f, k>> \in work.issues
                 \/ f \in Parsed /\ k = "syntax"
                 \/ f \in Pending /\ k = "language"
    /\ f \in Parsed => <<f, "read">> \notin w.issues
    /\ w.generation = work.generation /\ w.reconciled = work.reconciled

(* The four ways in which reading a file may end. *)
LEMMA ReadCases ==
  ASSUME Types, NEW f \in Files, ReadFile(f)
  PROVE  /\ Running /\ ~run.ending /\ run.reading = Nobody /\ f \in run.listed
         /\ UNCHANGED Rest
         /\ \/ /\ f \in rules.excluded \/ disk[f] = Absent
               /\ CanReach(f)
               /\ Unseen(f)
            \/ /\ f \notin rules.excluded \/ ~CanReach(f)
               /\ ~CanReach(f) \/ disk[f] = Absent \/ f \in denied
               /\ Unreadable(f)
            \/ /\ f \notin rules.excluded /\ disk[f] # Absent
               /\ \/ f \notin Parsed
                  \/ ~run.force /\ work.rows[f] = disk[f]
                  \/ disk[f] \in {"foreign", "binary"}
               /\ \E w \in Database : SeenAs(run, f, HasRows(work, f), w) /\ Noted(f, w)
            \/ /\ f \in Parsed \ rules.excluded /\ disk[f] # Absent
               /\ work' = Clear(work, f, "read")
               /\ run'  = [run EXCEPT !.reading = f, !.was = HasRows(work, f),
                                      !.content = disk[f]]
  <1> DEFINE cleared == Clear(work, f, "read")
  <1>1. work \in Database /\ disk[f] \in Node
    BY DEF Types, TypeOK
  <1>2. /\ cleared \in Database /\ cleared.rows = work.rows
        /\ cleared.issues = work.issues \ {<<f, "read">>}
        /\ cleared.generation = work.generation /\ cleared.reconciled = work.reconciled
    BY <1>1, ClearOp
  <1>3. /\ Running /\ ~run.ending /\ run.reading = Nobody /\ f \in run.listed
        /\ UNCHANGED Rest
    BY DEF ReadFile
  <1> HIDE DEF cleared
  <1>4. CASE ~run.force /\ work.rows[f] = disk[f] /\ f \notin rules.excluded
             /\ disk[f] # Absent
             /\ SeenAs(run, f, HasRows(work, f), Clear(cleared, f, "syntax"))
    <2> DEFINE w == Clear(cleared, f, "syntax")
    <2>1. /\ w \in Database /\ w.rows = cleared.rows
          /\ w.issues = cleared.issues \ {<<f, "syntax">>}
          /\ w.generation = cleared.generation /\ w.reconciled = cleared.reconciled
      BY <1>2, ClearOp
    <2> HIDE DEF w
    <2>2. SeenAs(run, f, HasRows(work, f), w)
      BY <1>4 DEF w
    <2>3. /\ w.issues \subseteq work.issues /\ <<f, "read">> \notin w.issues
          /\ w.rows = work.rows
          /\ w.generation = work.generation /\ w.reconciled = work.reconciled
      BY <1>2, <2>1
    <2>4. Noted(f, w)
      BY <2>3 DEF Noted
    <2> QED BY <1>3, <1>4, <2>1, <2>2, <2>4
  <1>5. CASE disk[f] \in {"foreign", "binary"} /\ f \in Parsed \ rules.excluded
             /\ disk[f] # Absent
             /\ SeenAs(run, f, HasRows(work, f), Store(cleared, f, disk[f]))
    <2> DEFINE w == Store(cleared, f, disk[f])
    <2>1. disk[f] \in Hashes \union OddContents
      BY <1>5 DEF OddContents
    <2>2. /\ w \in Database
          /\ \A g \in Files : g # f => w.rows[g] = cleared.rows[g]
          /\ \A g, k : g # f \/ k # "syntax" =>
                 (<<g, k>> \in w.issues => <<g, k>> \in cleared.issues)
          /\ w.generation = cleared.generation /\ w.reconciled = cleared.reconciled
      BY <1>2, <2>1, StoreOp
    <2> HIDE DEF w
    <2>3. SeenAs(run, f, HasRows(work, f), w)
      BY <1>5 DEF w
    <2>4. work.rows[f] # disk[f]
      <3>1. work.rows[f] \in Hashes \union {NoRow}
        BY <1>1, Parts
      <3>2. disk[f] \in OddContents /\ disk[f] # NoRow
        BY <1>5 DEF OddContents, NoRow
      <3> QED BY <3>1, <3>2, ContentAssumption
    <2>5. /\ \A g, k : g # f \/ k = "read" =>
                (<<g, k>> \in w.issues => <<g, k>> \in work.issues)
          /\ \A k : <<f, k>> \in w.issues => <<f, k>> \in work.issues \/ k = "syntax"
          /\ <<f, "read">> \notin w.issues
          /\ \A g \in Files : g # f => w.rows[g] = work.rows[g]
          /\ w.generation = work.generation /\ w.reconciled = work.reconciled
      BY <1>2, <2>2
    <2>6. Noted(f, w)
      BY <1>5, <2>4, <2>5 DEF Noted
    <2> QED BY <1>3, <1>5, <2>2, <2>3, <2>6
  <1>6. CASE /\ f \in Parsed \ rules.excluded /\ disk[f] # Absent
             /\ work' = cleared
             /\ run'  = [run EXCEPT !.reading = f, !.was = HasRows(work, f),
                                    !.content = disk[f]]
    BY <1>3, <1>6 DEF cleared
  <1>7. CASE (f \in rules.excluded \/ disk[f] = Absent) /\ CanReach(f) /\ Unseen(f)
    BY <1>3, <1>7
  <1>8. CASE /\ f \notin rules.excluded \/ ~CanReach(f)
             /\ ~CanReach(f) \/ disk[f] = Absent \/ f \in denied
             /\ Unreadable(f)
    BY <1>3, <1>8
  <1>u. CASE /\ f \notin Parsed /\ f \notin rules.excluded /\ disk[f] # Absent
             /\ SeenAs(run, f, HasRows(work, f),
                       IF f \in Pending THEN Flag(work, f, "language") ELSE work)
    <2> DEFINE w == IF f \in Pending THEN Flag(work, f, "language") ELSE work
    <2>1. "language" \in IssueKinds /\ f \in Paths
      BY DEF IssueKinds, Paths
    <2>2. /\ w \in Database /\ w.rows = work.rows
          /\ \A i : i \in w.issues =>
                i \in work.issues \/ (f \in Pending /\ i = <<f, "language">>)
          /\ w.generation = work.generation /\ w.reconciled = work.reconciled
      BY <1>1, <2>1, FlagOp
    <2>3. /\ \A g, k : g # f \/ k = "read" => <<g, k>> # <<f, "language">>
          /\ \A k : <<f, k>> = <<f, "language">> => k = "language"
      OBVIOUS
    <2>5. /\ \A g, k : g # f \/ k = "read" =>
                (<<g, k>> \in w.issues => <<g, k>> \in work.issues)
          /\ \A k : <<f, k>> \in w.issues =>
                <<f, k>> \in work.issues \/ (f \in Pending /\ k = "language")
      BY <2>2, <2>3
    <2> HIDE DEF w
    <2>4. SeenAs(run, f, HasRows(work, f), w)
      BY <1>u DEF w
    <2>6. Noted(f, w)
      BY <1>u, <2>2, <2>5 DEF Noted
    <2> QED BY <1>3, <1>u, <2>2, <2>4, <2>6
  <1> HIDE DEF cleared
  <1>9. \/ (f \in rules.excluded \/ disk[f] = Absent) /\ CanReach(f) /\ Unseen(f)
        \/ /\ f \notin rules.excluded \/ ~CanReach(f)
           /\ ~CanReach(f) \/ disk[f] = Absent \/ f \in denied
           /\ Unreadable(f)
        \/ /\ f \notin Parsed /\ f \notin rules.excluded /\ disk[f] # Absent
           /\ SeenAs(run, f, HasRows(work, f),
                     IF f \in Pending THEN Flag(work, f, "language") ELSE work)
        \/ /\ f \in Parsed \ rules.excluded /\ disk[f] # Absent
           /\ \/ /\ ~run.force /\ work.rows[f] = disk[f]
                 /\ SeenAs(run, f, HasRows(work, f), Clear(cleared, f, "syntax"))
              \/ /\ disk[f] \in {"foreign", "binary"}
                 /\ SeenAs(run, f, HasRows(work, f), Store(cleared, f, disk[f]))
              \/ /\ work' = cleared
                 /\ run'  = [run EXCEPT !.reading = f, !.was = HasRows(work, f),
                                        !.content = disk[f]]
    BY DEF ReadFile, cleared
  <1> QED BY <1>4, <1>5, <1>6, <1>7, <1>8, <1>9, <1>u
-----------------------------------------------------------------------------
(* Types. *)
LEMMA IdleRun == Idle \in Runs /\ Idle.kind = "none" /\ ~Idle.ending /\ Idle.gen = 0
                 /\ Idle.reading = Nobody /\ Idle.walk = Nobody /\ Idle.listed = {}
  BY DEF Idle, Runs

LEMMA TypesInit == Init => Types
  <1> SUFFICES ASSUME Init PROVE Types
    OBVIOUS
  <1>1. 0 \in 0 .. MaxGeneration /\ 0 \in 0 .. MaxEdits
    BY BoundAssumption
  <1>2. db \in Database /\ work = db
    BY <1>1 DEF Init, Database
  <1>3. Types
    BY <1>1, <1>2, IdleRun DEF Types, TypeOK, Sorts, Running, Init, Runs
  <1> QED BY <1>3

LEMMA RestTypes ==
  ASSUME Types, UNCHANGED Rest, work' \in Database, run' \in Runs, Sorts'
  PROVE  Types'
  BY DEF Types, TypeOK, Rest, env, ruleSet, history, Runs

(* What happens beside a run. *)
LEMMA TouchTypes ==
  ASSUME Types, NEW F \in SUBSET Files, Touch(F)
  PROVE  /\ dirty' \subseteq Files /\ changed' \subseteq Files
         /\ owes' \in [Files -> SUBSET Files]
  BY DEF Types, TypeOK, Touch, Running

LEMMA SpendTypes ==
  ASSUME Types, Spend
  PROVE  edits' \in 0 .. MaxEdits
  BY BoundAssumption DEF Types, TypeOK, Spend

LEMMA UserTypes ==
  ASSUME Types, User
  PROVE  Types'
  <1>1. ASSUME NEW f \in Files, NEW c \in Node, Edit(f, c) PROVE Types'
    <2>1. edits' \in 0 .. MaxEdits /\ Touch({f})
      BY <1>1, SpendTypes DEF Edit
    <2>2. dirty' \subseteq Files /\ changed' \subseteq Files /\ owes' \in [Files -> SUBSET Files]
      BY <2>1, TouchTypes
    <2> QED BY <1>1, <2>1, <2>2 DEF Edit, Types, TypeOK, Sorts, Running, ruleSet
  <1>2. ASSUME NEW p \in Deniable, SetDenied(p) PROVE Types'
    <2>1. edits' \in 0 .. MaxEdits
      BY <1>2, SpendTypes DEF SetDenied
    <2>2. dirty' \subseteq Files /\ changed' \subseteq Files /\ owes' \in [Files -> SUBSET Files]
      <3>1. (IF p \in Files THEN {p} ELSE Under(p)) \in SUBSET Files
        BY DEF Under
      <3> QED BY <1>2, <3>1, TouchTypes DEF SetDenied
    <2> QED BY <1>2, <2>1, <2>2 DEF SetDenied, Types, TypeOK, Sorts, Running, ruleSet
  <1>3. ASSUME NEW f \in Files, SetRule(f) PROVE Types'
    <2>1. edits' \in 0 .. MaxEdits /\ Touch({f})
      BY <1>3, SpendTypes DEF SetRule
    <2>2. dirty' \subseteq Files /\ changed' \subseteq Files /\ owes' \in [Files -> SUBSET Files]
      BY <2>1, TouchTypes
    <2> QED BY <1>3, <2>1, <2>2 DEF SetRule, Types, TypeOK, Sorts, Running, ruleSet
  <1>4. ASSUME NEW f \in Files, NEW g \in Files, RenameUnreported(f, g) PROVE Types'
    <2>1. edits' \in 0 .. MaxEdits
      BY <1>4, SpendTypes DEF RenameUnreported
    <2>2. Absent \in Node
      BY DEF Node
    <2> QED BY <1>4, <2>1, <2>2 DEF RenameUnreported, Types, TypeOK, Sorts, Running, ruleSet
  <1> QED BY <1>1, <1>2, <1>3, <1>4 DEF User

LEMMA LateSwapOp ==
  ASSUME Types, NEW r \in [excluded : SUBSET Files, generation : Nat], LateSwap(r)
  PROVE  /\ rules' \in [excluded : SUBSET Files, generation : Nat]
         /\ rules' = r \/ rules'.generation = r.generation + 1
         /\ held' \subseteq SUBSET Files
  BY SwappedOp DEF LateSwap, Types, TypeOK

LEMMA ReloadedOp ==
  ASSUME Types
  PROVE  /\ Reloaded \in [excluded : SUBSET Files, generation : Nat]
         /\ Reloaded = rules \/ Reloaded.generation = rules.generation + 1
  BY SwappedOp DEF Reloaded, Types, TypeOK

LEMMA RulesTypes ==
  ASSUME Types, ReloadElsewhere \/ HoldRules \/ SwapElsewhere
  PROVE  Types'
  <1>1. CASE ReloadElsewhere
    BY <1>1, ReloadedOp DEF ReloadElsewhere, Types, TypeOK, Sorts, Running, env, history
  <1>2. CASE HoldRules
    BY <1>2, SpendTypes DEF HoldRules, Types, TypeOK, Sorts, Running, env, history
  <1>3. CASE SwapElsewhere
    <2>1. rules \in [excluded : SUBSET Files, generation : Nat]
      BY DEF Types, TypeOK
    <2>2. /\ rules' \in [excluded : SUBSET Files, generation : Nat]
          /\ held' \subseteq SUBSET Files
      BY <1>3, <2>1, LateSwapOp DEF SwapElsewhere
    <2>3. dirty' \subseteq Files /\ changed' \subseteq Files
      BY <1>3 DEF SwapElsewhere, Types, TypeOK, Astray
    <2> QED BY <1>3, <2>2, <2>3 DEF SwapElsewhere, Types, TypeOK, Sorts, Running, env
  <1> QED BY <1>1, <1>2, <1>3

(* What BeginFull does to the rules. *)
LEMMA BeginFullOp ==
  ASSUME Types, NEW force \in BOOLEAN, BeginFull(force)
  PROVE  /\ rules' \in [excluded : SUBSET Files, generation : Nat]
         /\ rules' = rules \/ rules'.generation > rules.generation
         /\ held' \subseteq SUBSET Files
         /\ ~Running /\ work' = db /\ run' \in Runs
         /\ run'.kind = "full" /\ run'.todo = Dirs /\ run'.walk = Nobody
         /\ run'.listed = {} /\ run'.seen = {} /\ run'.unreadable = {}
         /\ run'.reading = Nobody /\ ~run'.ending
         /\ run'.gen = rules'.generation /\ run'.rules = rules'.excluded
         /\ dirty' = dirty \union Astray(rules') /\ changed' = {}
         /\ UNCHANGED <<env, applied, db, ready, walkedWith, owes>>
  <1>1. /\ rules' \in [excluded : SUBSET Files, generation : Nat]
        /\ rules' = Reloaded \/ rules'.generation = Reloaded.generation + 1
        /\ held' \subseteq SUBSET Files
    BY ReloadedOp, LateSwapOp DEF BeginFull, Types, TypeOK
  <1>2. rules' = rules \/ rules'.generation > rules.generation
    BY <1>1, ReloadedOp DEF Types, TypeOK
  <1> DEFINE c == Files \ Astray(rules')
             r == [Idle EXCEPT !.kind = "full", !.force = force, !.todo = Dirs,
                               !.covers = c, !.gen = rules'.generation,
                               !.rules = rules'.excluded]
  <1>3. Start(r) /\ dirty' = dirty \union Astray(rules')
    BY DEF BeginFull
  <1> HIDE DEF c
  <1>4. c \subseteq Files /\ applied \in Nat
    BY DEF c, Types, TypeOK
  <1>5. /\ r \in Runs /\ r.kind = "full" /\ r.todo = Dirs /\ r.walk = Nobody
        /\ r.listed = {} /\ r.seen = {} /\ r.unreadable = {}
        /\ r.reading = Nobody /\ ~r.ending
        /\ r.gen = rules'.generation /\ r.rules = rules'.excluded
    BY <1>1, <1>4 DEF Idle, Runs, Paths
  <1> HIDE DEF r
  <1>6. run' = [r EXCEPT !.before = applied] /\ ~Running /\ work' = db /\ changed' = {}
        /\ UNCHANGED <<env, applied, db, ready, walkedWith, owes>>
    BY <1>3 DEF Start
  <1>7. run' \in Runs /\ run'.kind = r.kind /\ run'.todo = r.todo /\ run'.walk = r.walk
        /\ run'.listed = r.listed /\ run'.seen = r.seen /\ run'.unreadable = r.unreadable
        /\ run'.reading = r.reading /\ run'.ending = r.ending
        /\ run'.gen = r.gen /\ run'.rules = r.rules
    BY <1>4, <1>5, <1>6 DEF Runs
  <1> QED BY <1>1, <1>2, <1>3, <1>5, <1>6, <1>7

LEMMA BeginFullTypes ==
  ASSUME Types, NEW force \in BOOLEAN, BeginFull(force)
  PROVE  Types'
  <1>1. /\ rules' \in [excluded : SUBSET Files, generation : Nat]
        /\ held' \subseteq SUBSET Files
        /\ work' = db /\ run' \in Runs
        /\ run'.kind = "full" /\ run'.todo = Dirs /\ run'.walk = Nobody
        /\ run'.reading = Nobody /\ ~run'.ending
        /\ dirty' = dirty \union Astray(rules') /\ changed' = {}
        /\ UNCHANGED <<env, applied, db, ready, walkedWith, owes>>
    BY BeginFullOp
  <1>2. dirty' \subseteq Files
    BY <1>1 DEF Types, TypeOK, Astray
  <1>3. TypeOK'
    BY <1>1, <1>2 DEF Types, TypeOK, env, Runs
  <1> QED BY <1>1, <1>3 DEF Types, Sorts

(* What BeginPaths does when it does not turn into a full run. *)
LEMMA BeginPathsOp ==
  ASSUME Types, NEW P \in Batches, NEW withRules \in BOOLEAN, BeginPaths(P, withRules)
  PROVE  \/ BeginFull(FALSE)
         \/ /\ ~Running /\ work' = db /\ run' \in Runs
            /\ run'.kind = "paths" /\ run'.todo = P /\ run'.walk = Nobody
            /\ run'.listed = {} /\ run'.seen = {} /\ run'.unreadable = {}
            /\ run'.reading = Nobody /\ ~run'.ending
            /\ run'.gen = rules.generation
            /\ changed' = {}
            /\ UNCHANGED <<ruleSet, dirty, env, applied, db, ready, walkedWith, owes>>
  <1> DEFINE c == IF ruleFile = rules.excluded
                  THEN ((P \intersect Files) \union UNION {Under(d) : d \in P \intersect Dirs})
                       \ rules.excluded
                  ELSE {}
             r == [Idle EXCEPT !.kind = "paths", !.todo = P, !.gen = rules.generation,
                               !.covers = c]
  <1>1. CASE withRules /\ ruleFile # rules.excluded
    BY <1>1 DEF BeginPaths
  <1>2. CASE ~(withRules /\ ruleFile # rules.excluded)
    <2>1. Start(r) /\ UNCHANGED <<ruleSet, dirty>>
      BY <1>2 DEF BeginPaths
    <2>2. c \subseteq Files
      BY DEF Under
    <2>3. P \subseteq Paths
      BY BatchAssumption DEF Paths
    <2> HIDE DEF c
    <2>4. applied \in Nat /\ rules.generation \in Nat
      BY DEF Types, TypeOK
    <2>5. /\ r \in Runs /\ r.kind = "paths" /\ r.todo = P /\ r.walk = Nobody
          /\ r.listed = {} /\ r.seen = {} /\ r.unreadable = {}
          /\ r.reading = Nobody /\ ~r.ending /\ r.gen = rules.generation
      BY <2>2, <2>3, <2>4 DEF Idle, Runs
    <2> HIDE DEF r
    <2>6. run' = [r EXCEPT !.before = applied] /\ ~Running /\ work' = db /\ changed' = {}
          /\ UNCHANGED <<env, applied, db, ready, walkedWith, owes>>
      BY <2>1 DEF Start
    <2>7. run' \in Runs /\ run'.kind = r.kind /\ run'.todo = r.todo /\ run'.walk = r.walk
          /\ run'.listed = r.listed /\ run'.seen = r.seen /\ run'.unreadable = r.unreadable
          /\ run'.reading = r.reading /\ run'.ending = r.ending /\ run'.gen = r.gen
      BY <2>4, <2>5, <2>6 DEF Runs
    <2> QED BY <2>1, <2>5, <2>6, <2>7
  <1> QED BY <1>1, <1>2

LEMMA BeginPathsTypes ==
  ASSUME Types, NEW P \in Batches, NEW withRules \in BOOLEAN, BeginPaths(P, withRules)
  PROVE  Types'
  <1>1. CASE BeginFull(FALSE)
    BY <1>1, BeginFullTypes
  <1>2. CASE /\ work' = db /\ run' \in Runs
             /\ run'.kind = "paths" /\ run'.walk = Nobody
             /\ run'.reading = Nobody /\ ~run'.ending
             /\ changed' = {}
             /\ UNCHANGED <<ruleSet, dirty, env, applied, db, ready, walkedWith, owes>>
    <2>1. TypeOK'
      BY <1>2 DEF Types, TypeOK, env, ruleSet, Runs
    <2> QED BY <1>2, <2>1 DEF Types, Sorts, Running
  <1> QED BY <1>1, <1>2, BeginPathsOp
LEMMA ListDirOp ==
  ASSUME Types, NEW d \in Dirs, ListDir(d)
  PROVE  /\ UNCHANGED Rest /\ Steady /\ Running /\ ~run.ending /\ run.reading = Nobody
         /\ run.listed = {} /\ run.walk = Nobody /\ d \in run.todo
         /\ work' \in Database /\ run' \in Runs
         /\ run'.todo = run.todo \ {d} /\ run'.reading = Nobody
         /\ run.kind = "full"  => run'.walk = Nobody /\ run'.seen = run.seen
         /\ run.kind = "paths" => run'.walk = d /\ run'.seen = {}
         /\ \/ /\ work' = Flag(work, d, "read") /\ run'.listed = {}
               /\ d \in run'.unreadable
               /\ run.kind = "full" => run'.unreadable = run.unreadable \union {d}
            \/ /\ work' = work
               /\ run'.listed = {f \in Under(d) \ rules.excluded : disk[f] # Absent}
               /\ run.kind = "full" => run'.unreadable = run.unreadable
  <1> DEFINE walking == IF run.kind = "paths"
                        THEN [run EXCEPT !.todo = @ \ {d}, !.walk = d,
                                         !.seen = {}, !.unreadable = {}]
                        ELSE [run EXCEPT !.todo = @ \ {d}]
             found == {f \in Under(d) \ rules.excluded : disk[f] # Absent}
  <1>1. /\ UNCHANGED Rest /\ Running /\ ~run.ending /\ run.reading = Nobody
        /\ run.listed = {} /\ run.walk = Nobody /\ d \in run.todo
        /\ \/ /\ work' = Flag(work, d, "read")
              /\ run'  = [walking EXCEPT !.unreadable = @ \union {d}]
           \/ /\ run'  = [walking EXCEPT !.listed = found]
              /\ work' = work
    BY DEF ListDir, Ready
  <1>2. run \in Runs /\ work \in Database /\ d \in Paths /\ "read" \in IssueKinds
    BY DEF Types, TypeOK, Paths, IssueKinds
  <1>3. found \subseteq Files
    BY DEF Under
  <1>4. /\ walking \in Runs /\ walking.kind = run.kind /\ walking.gen = run.gen
        /\ walking.rules = run.rules /\ walking.ending = run.ending
        /\ walking.todo = run.todo \ {d} /\ walking.reading = run.reading
        /\ walking.listed = run.listed
        /\ run.kind = "full"  => /\ walking.walk = run.walk /\ walking.seen = run.seen
                                 /\ walking.unreadable = run.unreadable
        /\ run.kind = "paths" => walking.walk = d /\ walking.seen = {}
    BY <1>1, <1>2 DEF Runs
  <1>5. run.kind \in {"full", "paths"}
    BY <1>1, <1>2 DEF Runs, Running
  <1> HIDE DEF walking, found
  <1>6. CASE /\ work' = Flag(work, d, "read")
             /\ run'  = [walking EXCEPT !.unreadable = @ \union {d}]
    <2>1. /\ run' \in Runs /\ Steady
          /\ run'.todo = walking.todo /\ run'.reading = walking.reading
          /\ run'.walk = walking.walk /\ run'.seen = walking.seen
          /\ run'.listed = walking.listed
          /\ run'.unreadable = walking.unreadable \union {d}
      BY <1>2, <1>4, <1>6 DEF Runs, Steady
    <2>2. work' \in Database
      BY <1>2, <1>6, FlagOp
    <2> QED BY <1>1, <1>4, <1>5, <1>6, <2>1, <2>2
  <1>7. CASE run' = [walking EXCEPT !.listed = found] /\ work' = work
    <2>1. /\ run' \in Runs /\ Steady
          /\ run'.todo = walking.todo /\ run'.reading = walking.reading
          /\ run'.walk = walking.walk /\ run'.seen = walking.seen
          /\ run'.listed = found
          /\ run'.unreadable = walking.unreadable
      BY <1>2, <1>3, <1>4, <1>7 DEF Runs, Steady
    <2> QED BY <1>1, <1>2, <1>4, <1>5, <1>7, <2>1 DEF found
  <1> QED BY <1>1, <1>6, <1>7

LEMMA VisitPathOp ==
  ASSUME Types, NEW f \in Files, VisitPath(f)
  PROVE  /\ UNCHANGED Rest /\ Steady /\ run.kind = "paths" /\ ~run.ending
         /\ run.reading = Nobody /\ run.listed = {} /\ run.walk = Nobody
         /\ work' \in Database /\ run' \in Runs
         /\ run'.todo = run.todo \ {f} /\ run'.reading = Nobody /\ run'.walk = Nobody
         /\ \/ work' = work /\ run'.listed = {}
            \/ f \notin rules.excluded /\ work' = Flag(work, f, "read") /\ run'.listed = {}
            \/ disk[f] = Absent /\ work' = Forget(work, {f}) /\ run'.listed = {}
            \/ f \notin rules.excluded /\ work' = work /\ run'.listed = {f}
  <1> DEFINE next == [run EXCEPT !.todo = @ \ {f}]
  <1>1. /\ UNCHANGED Rest /\ Running /\ ~run.ending /\ run.reading = Nobody
        /\ run.listed = {} /\ run.walk = Nobody /\ f \in run.todo
        /\ \/ run' = next /\ work' = work
           \/ f \notin rules.excluded /\ run' = next /\ work' = Flag(work, f, "read")
           \/ disk[f] = Absent /\ run' = next /\ work' = Forget(work, {f})
           \/ f \notin rules.excluded /\ run' = [next EXCEPT !.listed = {f}] /\ work' = work
    BY DEF VisitPath, Ready
  <1>2. run \in Runs /\ work \in Database /\ f \in Paths /\ "read" \in IssueKinds
    BY DEF Types, TypeOK, Paths, IssueKinds
  <1>3. run.kind = "paths"
    BY <1>1, <1>2, FileIsNoDir DEF Types, Sorts, Runs, Running
  <1>4. /\ next \in Runs /\ next.kind = run.kind /\ next.gen = run.gen
        /\ next.rules = run.rules /\ next.ending = run.ending
        /\ next.todo = run.todo \ {f} /\ next.reading = run.reading
        /\ next.listed = run.listed /\ next.walk = run.walk
    BY <1>2 DEF Runs
  <1>5. work' \in Database
    BY <1>1, <1>2, FlagOp, ForgetOp
  <1> HIDE DEF next
  <1>6. CASE run' = next
    BY <1>1, <1>3, <1>4, <1>5, <1>6 DEF Steady
  <1>7. CASE f \notin rules.excluded /\ run' = [next EXCEPT !.listed = {f}] /\ work' = work
    <2>1. /\ run' \in Runs /\ run'.kind = next.kind /\ run'.gen = next.gen
          /\ run'.rules = next.rules /\ run'.ending = next.ending
          /\ run'.todo = next.todo /\ run'.reading = next.reading
          /\ run'.listed = {f} /\ run'.walk = next.walk
      BY <1>4, <1>7 DEF Runs
    <2> QED BY <1>1, <1>3, <1>4, <1>5, <1>7, <2>1 DEF Steady
  <1> QED BY <1>1, <1>6, <1>7

LEMMA WriteFileOp ==
  ASSUME Types, WriteFile
  PROVE  /\ UNCHANGED Rest /\ Steady /\ Running /\ ~run.ending
         /\ work' \in Database /\ run' \in Runs
         /\ run.reading \in Files /\ disk[run.reading] = run.content
         /\ work' = Store(work, run.reading, run.content)
         /\ run.content \in Hashes \union OddContents
         /\ run'.todo = run.todo /\ run'.walk = run.walk
         /\ run'.listed = run.listed \ {run.reading}
         /\ run'.seen = run.seen \union {run.reading}
         /\ run'.unreadable = run.unreadable
         /\ run'.reading = Nobody
  <1>1. run \in Runs /\ work \in Database /\ run.reading # Nobody
        /\ Running /\ ~run.ending
    BY DEF Types, TypeOK, Sorts, WriteFile
  <1>2. run.reading \in Files /\ run.was \in BOOLEAN
    BY <1>1 DEF Runs
  <1>3. run.content \in Hashes \union OddContents
    BY <1>1, ContentAssumption DEF Types, Sorts, Runs
  <1>4. /\ UNCHANGED Rest /\ disk[run.reading] = run.content
        /\ SeenAs(run, run.reading, run.was, Store(work, run.reading, run.content))
    BY DEF WriteFile
  <1>5. Store(work, run.reading, run.content) \in Database
    BY <1>1, <1>2, <1>3, StoreOp
  <1> QED BY <1>1, <1>2, <1>3, <1>4, <1>5, SeenAsOp

LEMMA SweepDirOp ==
  ASSUME Types, SweepDir
  PROVE  /\ UNCHANGED Rest /\ Steady /\ run.kind = "paths" /\ ~run.ending
         /\ run.reading = Nobody /\ run.listed = {} /\ run.walk \in Dirs
         /\ work' \in Database /\ run' \in Runs
         /\ run'.todo = run.todo /\ run'.reading = Nobody /\ run'.walk = Nobody
         /\ run'.listed = {}
         /\ \E gone : /\ work' = Forget(work, gone)
                      /\ \A f \in gone \intersect Files :
                            /\ DirOf[f] = run.walk
                            /\ f \notin run.seen /\ ~Retained(f, run.unreadable)
  <1>1. run \in Runs /\ work \in Database
    BY DEF Types, TypeOK
  <1>2. /\ UNCHANGED Rest /\ Running /\ ~run.ending /\ run.reading = Nobody
        /\ run.listed = {} /\ run.walk # Nobody
        /\ run' = [run EXCEPT !.walk = Nobody, !.seen = {}, !.unreadable = {}]
    BY DEF SweepDir, Ready
  <1>3. run.kind = "paths" /\ run.walk \in Dirs
    BY <1>1, <1>2 DEF Types, Sorts, Running, Runs
  <1>4. /\ Steady /\ run' \in Runs
        /\ run'.todo = run.todo /\ run'.reading = run.reading /\ run'.walk = Nobody
        /\ run'.listed = run.listed
    BY <1>1, <1>2 DEF Steady, Runs
  <1> DEFINE gone == {f \in Under(run.walk) : f \notin run.seen /\ ~Retained(f, run.unreadable)}
                     \union (IF run.walk \in run.unreadable THEN {} ELSE {run.walk})
  <1>5. work' = Forget(work, gone)
    BY DEF SweepDir
  <1>6. \A f \in gone \intersect Files : /\ DirOf[f] = run.walk
                                         /\ f \notin run.seen /\ ~Retained(f, run.unreadable)
    BY <1>3, FileIsNoDir DEF Under
  <1>7. work' \in Database
    BY <1>1, <1>5, ForgetOp
  <1> HIDE DEF gone
  <1> QED BY <1>2, <1>3, <1>4, <1>5, <1>6, <1>7

LEMMA ReadFileTypes ==
  ASSUME Types, NEW f \in Files, ReadFile(f)
  PROVE  Types'
  <1>1. run \in Runs /\ work \in Database /\ disk[f] \in Node
    BY DEF Types, TypeOK
  <1>2. Running /\ ~run.ending /\ run.reading = Nobody /\ UNCHANGED Rest
    BY ReadCases
  <1>3. CASE Unseen(f) \/ Unreadable(f) \/ \E w \in Database : SeenAs(run, f, HasRows(work, f), w)
    <2>1. /\ work' \in Database /\ run' \in Runs /\ Steady
          /\ run'.todo = run.todo /\ run'.walk = run.walk
          /\ run'.reading = Nobody
      <3>1. HasRows(work, f) \in BOOLEAN
        BY DEF HasRows
      <3>2. CASE Unseen(f)
        BY <1>1, <1>2, <3>2, UnseenOp
      <3>3. CASE Unreadable(f)
        BY <1>1, <1>2, <3>3, UnreadableOp
      <3>4. CASE \E w \in Database : SeenAs(run, f, HasRows(work, f), w)
        BY <1>1, <3>1, <3>4, SeenAsOp
      <3> QED BY <1>3, <3>2, <3>3, <3>4
    <2>2. Sorts'
      BY <1>2, <2>1 DEF Types, Sorts, Steady, Running
    <2> QED BY <1>2, <2>1, <2>2, RestTypes
  <1>4. CASE /\ disk[f] # Absent
             /\ work' = Clear(work, f, "read")
             /\ run'  = [run EXCEPT !.reading = f, !.was = HasRows(work, f), !.content = disk[f]]
    <2>1. HasRows(work, f) \in BOOLEAN /\ disk[f] \in Hashes \union Odd \union {Absent}
      BY <1>1 DEF HasRows, Node
    <2>2. /\ run' \in Runs /\ Steady /\ run'.todo = run.todo /\ run'.walk = run.walk
          /\ run'.content # Absent
      BY <1>1, <1>4, <2>1 DEF Runs, Steady
    <2>3. work' \in Database
      BY <1>1, <1>4, ClearOp
    <2>4. Sorts'
      BY <1>2, <2>2 DEF Types, Sorts, Steady, Running
    <2> QED BY <1>2, <2>2, <2>3, <2>4, RestTypes
  <1> QED BY <1>3, <1>4, ReadCases

LEMMA VisitTypes ==
  ASSUME Types, Visit
  PROVE  Types'
  <1>1. ASSUME NEW d \in Dirs, ListDir(d) PROVE Types'
    <2>1. /\ UNCHANGED Rest /\ Steady /\ Running /\ ~run.ending
          /\ work' \in Database /\ run' \in Runs
          /\ run'.todo = run.todo \ {d} /\ run'.reading = Nobody
          /\ run.kind = "full"  => run'.walk = Nobody
      BY <1>1, ListDirOp
    <2>2. Sorts'
      BY <2>1 DEF Types, Sorts, Steady, Running
    <2> QED BY <2>1, <2>2, RestTypes
  <1>2. ASSUME NEW f \in Files, VisitPath(f) PROVE Types'
    <2>1. /\ UNCHANGED Rest /\ Steady /\ run.kind = "paths" /\ ~run.ending
          /\ work' \in Database /\ run' \in Runs /\ run'.reading = Nobody
      BY <1>2, VisitPathOp
    <2>2. Sorts'
      BY <2>1 DEF Types, Sorts, Steady, Running
    <2> QED BY <2>1, <2>2, RestTypes
  <1>3. ASSUME NEW f \in Files, ReadFile(f) PROVE Types'
    BY <1>3, ReadFileTypes
  <1>4. CASE WriteFile
    <2>1. /\ UNCHANGED Rest /\ Steady /\ Running /\ ~run.ending
          /\ work' \in Database /\ run' \in Runs /\ run'.reading = Nobody
          /\ run'.todo = run.todo /\ run'.walk = run.walk
      BY <1>4, WriteFileOp
    <2>2. Sorts'
      BY <2>1 DEF Types, Sorts, Steady, Running
    <2> QED BY <2>1, <2>2, RestTypes
  <1>5. CASE SweepDir
    <2>1. /\ UNCHANGED Rest /\ Steady /\ run.kind = "paths" /\ ~run.ending
          /\ work' \in Database /\ run' \in Runs /\ run'.reading = Nobody
      BY <1>5, SweepDirOp
    <2>2. Sorts'
      BY <2>1 DEF Types, Sorts, Steady, Running
    <2> QED BY <2>1, <2>2, RestTypes
  <1> QED BY <1>1, <1>2, <1>3, <1>4, <1>5 DEF Visit

-----------------------------------------------------------------------------
(* The end of a run. *)
LEMMA FinishFullOp ==
  ASSUME Types, FinishFull
  PROVE  /\ run.kind = "full" /\ ~run.ending /\ run.reading = Nobody
         /\ run.listed = {} /\ run.todo = {}
         /\ work' \in Database /\ run' \in Runs
         /\ run'.kind = "full" /\ run'.ending /\ run'.gen = run.gen
         /\ run'.rules = run.rules /\ run'.reading = Nobody /\ run'.walk = run.walk
         /\ run'.todo = run.todo
         /\ applied' = run.gen
         /\ UNCHANGED <<env, ruleSet, db, ready, history>>
         /\ \A f \in Files : work'.rows[f] = IF f \in Missing THEN NoRow ELSE work.rows[f]
         /\ work'.issues = {i \in work.issues : i[1] \notin Missing}
         /\ work'.generation = work.generation + 1
         /\ work'.reconciled = IF run.unreadable = {} THEN work.generation + 1
                               ELSE work.reconciled
  <1>1. run \in Runs /\ work \in Database
    BY DEF Types, TypeOK
  <1>2. /\ run.kind = "full" /\ ~run.ending /\ run.reading = Nobody
        /\ run.listed = {} /\ run.todo = {} /\ work.generation < MaxGeneration
        /\ work' = Stamp(Forget(work, Missing), run.unreadable = {})
        /\ applied' = run.gen
        /\ run' = [run EXCEPT !.ending = TRUE]
        /\ UNCHANGED <<env, ruleSet, db, ready, history>>
    BY DEF FinishFull, Ready, CanStamp
  <1> DEFINE v == Forget(work, Missing)
  <1>3. /\ v \in Database /\ v.generation = work.generation /\ v.reconciled = work.reconciled
        /\ \A f \in Files : v.rows[f] = IF f \in Missing THEN NoRow ELSE work.rows[f]
        /\ v.issues = {i \in work.issues : i[1] \notin Missing}
    BY <1>1, ForgetOp
  <1> HIDE DEF v
  <1>4. /\ work' \in Database /\ work'.rows = v.rows /\ work'.issues = v.issues
        /\ work'.generation = work.generation + 1
        /\ work'.reconciled = IF run.unreadable = {} THEN work.generation + 1
                              ELSE work.reconciled
    <2>1. work' = Stamp(v, run.unreadable = {}) /\ (run.unreadable = {}) \in BOOLEAN
      BY <1>2 DEF v
    <2> QED BY <1>2, <1>3, <2>1, StampOp
  <1>5. /\ run' \in Runs /\ run'.kind = run.kind /\ run'.ending /\ run'.gen = run.gen
        /\ run'.rules = run.rules /\ run'.reading = run.reading /\ run'.walk = run.walk
        /\ run'.todo = run.todo
    BY <1>1, <1>2 DEF Runs
  <1> QED BY <1>2, <1>3, <1>4, <1>5

LEMMA FinishPathsOp ==
  ASSUME Types, FinishPaths
  PROVE  /\ run.kind = "paths" /\ ~run.ending /\ run.reading = Nobody /\ run.walk = Nobody
         /\ work' \in Database /\ run' \in Runs
         /\ run'.kind = "paths" /\ run'.ending /\ run'.gen = run.gen
         /\ run'.reading = Nobody /\ run'.walk = Nobody /\ run'.listed = run.listed
         /\ UNCHANGED Rest
         /\ \E dirsGone \in SUBSET {d \in Dirs : \A f \in Under(d) : disk[f] = Absent} :
               LET gone == RenamedAway(work, run.created, dirsGone)
               IN  /\ \A f \in Files :
                         work'.rows[f] = IF f \in gone THEN NoRow ELSE work.rows[f]
                   /\ work'.issues = {i \in work.issues : i[1] \notin gone}
         /\ work'.generation = work.generation + 1 /\ work'.reconciled = work.reconciled
  <1>1. run \in Runs /\ work \in Database
    BY DEF Types, TypeOK
  <1>2. PICK dirsGone \in SUBSET {d \in Dirs : \A f \in Under(d) : disk[f] = Absent} :
               work' = Stamp(Forget(work, RenamedAway(work, run.created, dirsGone)), FALSE)
    BY DEF FinishPaths
  <1>3. /\ run.kind = "paths" /\ ~run.ending /\ run.reading = Nobody /\ run.walk = Nobody
        /\ work.generation < MaxGeneration
        /\ run' = [run EXCEPT !.ending = TRUE]
        /\ UNCHANGED Rest
    BY DEF FinishPaths, Ready, CanStamp
  <1> DEFINE gone == RenamedAway(work, run.created, dirsGone)
             v == Forget(work, gone)
  <1>4. work' = Stamp(v, FALSE)
    BY <1>2
  <1> HIDE DEF gone
  <1>5. /\ v \in Database /\ v.generation = work.generation /\ v.reconciled = work.reconciled
        /\ \A f \in Files : v.rows[f] = IF f \in gone THEN NoRow ELSE work.rows[f]
        /\ v.issues = {i \in work.issues : i[1] \notin gone}
    BY <1>1, ForgetOp
  <1> HIDE DEF v
  <1>6. /\ work' \in Database /\ work'.rows = v.rows /\ work'.issues = v.issues
        /\ work'.generation = work.generation + 1 /\ work'.reconciled = work.reconciled
    BY <1>3, <1>4, <1>5, StampOp
  <1>7. /\ run' \in Runs /\ run'.kind = run.kind /\ run'.ending /\ run'.gen = run.gen
        /\ run'.reading = run.reading /\ run'.walk = run.walk /\ run'.listed = run.listed
    BY <1>1, <1>3 DEF Runs
  <1>8. \E gg \in SUBSET {d \in Dirs : \A f \in Under(d) : disk[f] = Absent} :
               LET go == RenamedAway(work, run.created, gg)
               IN  /\ \A f \in Files :
                         work'.rows[f] = IF f \in go THEN NoRow ELSE work.rows[f]
                   /\ work'.issues = {i \in work.issues : i[1] \notin go}
    <2>1. /\ \A f \in Files : work'.rows[f] = IF f \in gone THEN NoRow ELSE work.rows[f]
          /\ work'.issues = {i \in work.issues : i[1] \notin gone}
      BY <1>5, <1>6
    <2>2. WITNESS dirsGone \in SUBSET {d \in Dirs : \A f \in Under(d) : disk[f] = Absent}
    <2> QED BY <2>1 DEF gone
  <1> QED BY <1>3, <1>6, <1>7, <1>8

LEMMA EndTypes ==
  ASSUME Types, FinishFull \/ FinishPaths \/ Commit \/ AbortRun \/ CommitFails \/ Restart
  PROVE  Types'
  <1>1. CASE FinishFull
    <2>1. /\ work' \in Database /\ run' \in Runs
          /\ run'.kind = "full" /\ run'.ending /\ run'.reading = Nobody
          /\ run'.walk = run.walk /\ run'.todo = run.todo /\ run.kind = "full"
          /\ applied' = run.gen
          /\ UNCHANGED <<env, ruleSet, db, ready, history>>
      BY <1>1, FinishFullOp
    <2>2. TypeOK'
      BY <2>1 DEF Types, TypeOK, env, ruleSet, history, Runs
    <2> QED BY <2>1, <2>2 DEF Types, Sorts, Running
  <1>2. CASE FinishPaths
    <2>1. /\ work' \in Database /\ run' \in Runs /\ UNCHANGED Rest
          /\ run'.kind = "paths" /\ run'.ending /\ run'.reading = Nobody
      BY <1>2, FinishPathsOp
    <2>2. Sorts'
      BY <2>1 DEF Sorts, Running
    <2> QED BY <2>1, <2>2, RestTypes
  <1>3. CASE Commit
    <2>1. run' = Idle /\ run.rules \subseteq Files
      BY <1>3 DEF Commit, Types, Runs
    <2>2. TypeOK'
      BY <1>3, <2>1, IdleRun DEF Commit, Types, TypeOK, env, ruleSet, Runs
    <2> QED BY <2>1, <2>2, IdleRun DEF Types, Sorts, Running
  <1>4. ASSUME Rollback, edits' \in 0 .. MaxEdits, rules' \in [excluded : SUBSET Files,
               generation : Nat], held' \subseteq SUBSET Files, applied' \in Nat,
               ready' \in BOOLEAN
        PROVE  Types'
    <2>1. TypeOK'
      BY <1>4, IdleRun DEF Rollback, Types, TypeOK, Runs
    <2> QED BY <1>4, <2>1, IdleRun DEF Rollback, Types, Sorts, Running
  <1>5. CASE AbortRun \/ CommitFails
    BY <1>4, <1>5 DEF AbortRun, CommitFails, Types, TypeOK, ruleSet
  <1>6. CASE Restart
    <2>1. edits' \in 0 .. MaxEdits
      BY <1>6, SpendTypes DEF Restart
    <2> QED BY <1>4, <1>6, <2>1 DEF Restart, Types, TypeOK
  <1> QED BY <1>1, <1>2, <1>3, <1>5, <1>6

LEMMA TypesStep ==
  ASSUME Types, [Next]_vars
  PROVE  Types'
  <1>1. CASE UNCHANGED vars
    BY <1>1 DEF vars, env, ruleSet, history, Types, TypeOK, Sorts, Running, Runs
  <1>2. CASE Next
    BY <1>2, UserTypes, RulesTypes, BeginFullTypes, BeginPathsTypes, VisitTypes, EndTypes
       DEF Next
  <1> QED BY <1>1, <1>2
-----------------------------------------------------------------------------
(* No read failure beside a full reconciliation. *)
LEMMA ReconcilingInit == Init => Reconciling
  BY IdleRun DEF Init, Reconciling, Readable, Idle

LEMMA ReconcilingStep ==
  ASSUME Types, Reconciling, [Next]_vars
  PROVE  Reconciling'
  <1> DEFINE Beside == \/ UNCHANGED vars \/ User \/ ReloadElsewhere \/ HoldRules
                       \/ SwapElsewhere
  <1>0. /\ work \in Database /\ db \in Database /\ run \in Runs
        /\ work.generation \in Nat /\ work.reconciled \in Nat
        /\ db.generation \in Nat /\ db.reconciled \in Nat
    BY BoundAssumption, Parts DEF Types, TypeOK
  <1>1. CASE Beside
    <2>1. UNCHANGED <<db, work, run>>
      BY <1>1 DEF vars, User, Edit, SetDenied, SetRule, RenameUnreported, ReloadElsewhere,
                  HoldRules, SwapElsewhere
    <2> QED BY <2>1 DEF Reconciling, Readable
  <1>2. ASSUME NEW force \in BOOLEAN, BeginFull(force) PROVE Reconciling'
    <2>1. work' = db /\ db' = db /\ ~run'.ending /\ run'.seen = {} /\ run'.reading = Nobody
      BY <1>2, BeginFullOp
    <2> QED BY <2>1 DEF Reconciling, Readable
  <1>3. ASSUME NEW P \in Batches, NEW withRules \in BOOLEAN, BeginPaths(P, withRules)
        PROVE  Reconciling'
    <2>1. CASE BeginFull(FALSE)
      BY <1>2, <2>1
    <2>2. CASE /\ work' = db /\ db' = db /\ run'.kind = "paths"
               /\ ~run'.ending /\ run'.reading = Nobody
      BY <2>2 DEF Reconciling, Readable
    <2> QED BY <1>3, <2>1, <2>2, BeginPathsOp
  <1>4. ASSUME NEW d \in Dirs, ListDir(d) PROVE Reconciling'
    <2>1. /\ UNCHANGED Rest /\ Steady /\ ~run.ending /\ run'.reading = Nobody
          /\ run.kind = "full" => run'.seen = run.seen
          /\ \/ /\ work' = Flag(work, d, "read")
                /\ d \in run'.unreadable
             \/ /\ work' = work
                /\ run.kind = "full" => run'.unreadable = run.unreadable
      BY <1>4, ListDirOp
    <2>k. d \in Paths /\ "read" \in IssueKinds
      BY DEF Paths, IssueKinds
    <2>2. work'.generation = work.generation /\ work'.reconciled = work.reconciled
      BY <1>0, <2>1, <2>k, FlagOp
    <2> QED BY <2>1, <2>2 DEF Reconciling, Readable, Rest, Steady
  <1>5. ASSUME NEW f \in Files, VisitPath(f) PROVE Reconciling'
    <2>1. /\ UNCHANGED Rest /\ Steady /\ ~run.ending /\ run'.reading = Nobody
          /\ run.kind = "paths"
          /\ work' = work \/ work' = Flag(work, f, "read") \/ work' = Forget(work, {f})
      BY <1>5, VisitPathOp
    <2>k. f \in Paths /\ "read" \in IssueKinds
      BY DEF Paths, IssueKinds
    <2>2. work'.generation = work.generation /\ work'.reconciled = work.reconciled
      BY <1>0, <2>1, <2>k, FlagOp, ForgetOp
    <2> QED BY <2>1, <2>2 DEF Reconciling, Readable, Rest, Steady
  <1>6. ASSUME NEW f \in Files, ReadFile(f) PROVE Reconciling'
    <2>1. ~run.ending /\ run.reading = Nobody /\ UNCHANGED Rest
      BY <1>6, ReadCases
    <2>2. CASE Unseen(f)
      <3>1. /\ Steady /\ run'.seen = run.seen /\ run'.unreadable = run.unreadable
            /\ run'.reading = run.reading
            /\ work' = work \/ work' = Forget(work, {f})
        BY <1>0, <2>2, UnseenOp
      <3>2. /\ work'.generation = work.generation /\ work'.reconciled = work.reconciled
            /\ work'.issues \subseteq work.issues
        BY <1>0, <3>1, ForgetOp
      <3> QED BY <2>1, <3>1, <3>2 DEF Reconciling, Readable, Rest, Steady
    <2>3. CASE Unreadable(f)
      <3>1. /\ Steady /\ f \in run'.unreadable /\ run'.reading = run.reading
            /\ work' = Flag(work, f, "read")
        BY <1>0, <2>3, UnreadableOp
      <3>2. work'.generation = work.generation /\ work'.reconciled = work.reconciled
        BY <1>0, <3>1, FlagOp DEF Paths, IssueKinds
      <3> QED BY <2>1, <3>1, <3>2 DEF Reconciling, Readable, Rest, Steady
    <2>4. ASSUME NEW w \in Database, SeenAs(run, f, HasRows(work, f), w),
                 Noted(f, w)
          PROVE  Reconciling'
      <3>0. HasRows(work, f) \in BOOLEAN
        BY DEF HasRows
      <3>1. /\ work' = w /\ Steady /\ run'.seen = run.seen \union {f}
            /\ run'.unreadable = run.unreadable /\ run'.reading = Nobody
        BY <1>0, <2>4, <3>0, SeenAsOp
      <3>2. run.kind = "full" /\ run.unreadable = {} =>
               \A g \in (run.seen \union {f}) \intersect Parsed : <<g, "read">> \notin w.issues
        BY <2>1, <2>4 DEF Reconciling, Noted
      <3>3. w.generation = work.generation /\ w.reconciled = work.reconciled
        BY <2>4 DEF Noted
      <3> QED BY <2>1, <3>1, <3>2, <3>3 DEF Reconciling, Readable, Rest, Steady
    <2>5. CASE /\ work' = Clear(work, f, "read")
               /\ run'  = [run EXCEPT !.reading = f, !.was = HasRows(work, f),
                                      !.content = disk[f]]
      <3>1. /\ Steady /\ run'.seen = run.seen /\ run'.unreadable = run.unreadable
            /\ run'.reading = f
        BY <1>0, <2>5 DEF Runs, Steady
      <3>2. /\ work'.generation = work.generation /\ work'.reconciled = work.reconciled
            /\ work'.issues = work.issues \ {<<f, "read">>}
        BY <1>0, <2>5, ClearOp
      <3> QED BY <2>1, <3>1, <3>2 DEF Reconciling, Readable, Rest, Steady
    <2> QED BY <1>6, <2>2, <2>3, <2>4, <2>5, ReadCases
  <1>7. CASE WriteFile
    <2>1. /\ UNCHANGED Rest /\ Steady /\ Running /\ ~run.ending /\ run.reading \in Files
          /\ work' = Store(work, run.reading, run.content)
          /\ run.content \in Hashes \union OddContents
          /\ run'.seen = run.seen \union {run.reading}
          /\ run'.unreadable = run.unreadable /\ run'.reading = Nobody
      BY <1>7, WriteFileOp
    <2>2. /\ work'.generation = work.generation /\ work'.reconciled = work.reconciled
          /\ \A g : <<g, "read">> \in work'.issues => <<g, "read">> \in work.issues
      BY <1>0, <2>1, StoreOp
    <2>3. run.reading # Nobody
      BY <1>7 DEF WriteFile
    <2> QED BY <2>1, <2>2, <2>3 DEF Reconciling, Readable, Rest, Steady
  <1>8. CASE SweepDir
    <2>1. /\ UNCHANGED Rest /\ Steady /\ run.kind = "paths" /\ ~run.ending
          /\ run'.reading = Nobody /\ \E gone : work' = Forget(work, gone)
      BY <1>8, SweepDirOp
    <2>2. work'.generation = work.generation /\ work'.reconciled = work.reconciled
      BY <1>0, <2>1, ForgetOp
    <2> QED BY <2>1, <2>2 DEF Reconciling, Readable, Rest, Steady
  <1>9. CASE FinishFull
    <2>1. /\ run.kind = "full" /\ ~run.ending /\ run'.ending /\ run'.reading = Nobody
          /\ db' = db
          /\ work'.issues = {i \in work.issues : i[1] \notin Missing}
          /\ work'.generation = work.generation + 1
          /\ work'.reconciled = IF run.unreadable = {} THEN work.generation + 1
                                ELSE work.reconciled
      BY <1>9, FinishFullOp
    <2>2. Readable(work')
      <3>1. CASE run.unreadable = {}
        <4> SUFFICES ASSUME NEW i \in work'.issues, i[1] \in Dirs \union Parsed
                     PROVE  i[2] # "read"
          BY DEF Readable
        <4>1. i \in work.issues /\ i[1] \notin Missing
          BY <2>1
        <4>2. i \in Paths \X IssueKinds
          BY <1>0, <4>1, Parts
        <4>3. i = <<i[1], i[2]>> /\ i[1] \in Files \union Dirs
          BY <4>2 DEF Paths
        <4>4. i[1] \in run.seen /\ i[1] \in Parsed
          <5>1. i[1] \notin Dirs
            BY <3>1, <4>1 DEF Missing
          <5> QED BY <3>1, <4>1, <4>3, <5>1 DEF Missing, Retained
        <4>5. <<i[1], "read">> \notin work.issues
          BY <2>1, <3>1, <4>4 DEF Reconciling
        <4> QED BY <4>1, <4>3, <4>5
      <3>2. CASE run.unreadable # {}
        BY <1>0, <2>1, <3>2 DEF Readable, Reconciling
      <3> QED BY <3>1, <3>2
    <2> QED BY <1>0, <2>1, <2>2 DEF Reconciling, Readable
  <1>10. CASE FinishPaths
    <2>1. /\ run'.kind = "paths" /\ run'.reading = Nobody /\ db' = db
          /\ work'.generation = work.generation + 1 /\ work'.reconciled = work.reconciled
      BY <1>10, FinishPathsOp DEF Rest
    <2> QED BY <1>0, <2>1 DEF Reconciling, Readable
  <1>11. CASE Commit
    BY <1>11, IdleRun DEF Commit, Reconciling, Readable
  <1>12. CASE AbortRun \/ CommitFails \/ Restart
    BY <1>12, IdleRun DEF AbortRun, CommitFails, Restart, Rollback, Reconciling, Readable
  <1> QED BY <1>1, <1>2, <1>3, <1>4, <1>5, <1>6, <1>7, <1>8, <1>9, <1>10, <1>11, <1>12
          DEF Next, Visit

\* Full reconciliation means what it says: at the generation at which the last
\* full run could read everything, the database records no read failure of a
\* directory nor of a file that some parser takes.
THEOREM ReconciledReadable == Spec => []ReconciledMeansReadable
  <1>1. Init => Types /\ Reconciling
    BY TypesInit, ReconcilingInit
  <1>2. Types /\ Reconciling /\ [Next]_vars => (Types /\ Reconciling)'
    BY TypesStep, ReconcilingStep
  <1>3. Types /\ Reconciling => ReconciledMeansReadable
    BY DEF Reconciling, Readable, ReconciledMeansReadable, Reconciled
  <1> QED BY <1>1, <1>2, <1>3, PTL DEF Spec
-----------------------------------------------------------------------------
(* Rows follow the rules of the last full run. *)
LEMMA FollowingInit == Init => Following
  BY IdleRun DEF Init, Following, Idle

(* A path run keeps the transaction clean, and keeps to files that the rules *)
(* admit.                                                                    *)
Admitted == /\ Clean(work)
            /\ run.listed \intersect rules.excluded = {}
            /\ run.reading # Nobody => run.reading \notin rules.excluded

LEMMA FollowingVisit ==
  ASSUME Following, UNCHANGED Rest, Steady, ~run.ending,
         run.kind = "paths" /\ Admitted => Admitted'
  PROVE  Following'
  <1>1. UNCHANGED <<rules, applied, db, ready, walkedWith>>
    BY DEF Rest, ruleSet, history
  <1>2. Clean(db)' <=> Clean(db)
    BY <1>1 DEF Clean, HasRows
  <1>3. /\ ready /\ applied = rules.generation /\ run.kind = "paths" => Admitted
        /\ applied <= rules.generation /\ run.gen <= rules.generation
        /\ run.kind = "full" /\ run.gen = rules.generation => run.rules = rules.excluded
        /\ ready /\ applied = rules.generation => Clean(db) /\ walkedWith = rules.excluded
    BY DEF Following, Admitted
  <1>4. /\ ready' /\ applied' = rules'.generation /\ run'.kind = "paths" => Admitted'
        /\ run'.kind = run.kind /\ run'.gen = run.gen /\ run'.rules = run.rules /\ ~run'.ending
    BY <1>1, <1>3 DEF Steady
  <1> QED BY <1>1, <1>2, <1>3, <1>4 DEF Following, Admitted

(* Fewer rows and issues are no less clean. *)
LEMMA CleanShrinks ==
  ASSUME NEW w, NEW v, NEW f \in Files, ~HasRows(w, f),
         v.rows[f] \in {w.rows[f], NoRow},
         \A k \in IssueKinds : <<f, k>> \in v.issues => <<f, k>> \in w.issues
  PROVE  ~HasRows(v, f)
  BY DEF HasRows, IssueKinds

LEMMA CleanFlag ==
  ASSUME NEW w \in Database, NEW p \in Paths, NEW f \in Files, f # p, ~HasRows(w, f)
  PROVE  ~HasRows(Flag(w, p, "read"), f)
  BY FlagOp DEF HasRows, IssueKinds

LEMMA CleanForget ==
  ASSUME NEW w \in Database, NEW gone, NEW f \in Files, ~HasRows(w, f)
  PROVE  ~HasRows(Forget(w, gone), f)
  <1>1. Forget(w, gone).rows[f] \in {w.rows[f], NoRow}
    BY ForgetOp
  <1>2. \A k \in IssueKinds : <<f, k>> \in Forget(w, gone).issues => <<f, k>> \in w.issues
    BY ForgetOp
  <1> QED BY <1>1, <1>2, CleanShrinks

LEMMA VisitFollows ==
  ASSUME Types, Following, Visit
  PROVE  Following'
  <1>0. /\ work \in Database /\ run \in Runs /\ rules.excluded \subseteq Files
    BY DEF Types, TypeOK
  <1>1. ASSUME NEW d \in Dirs, ListDir(d) PROVE Following'
    <2>1. /\ UNCHANGED Rest /\ Steady /\ ~run.ending /\ run'.reading = Nobody
          /\ \/ work' = Flag(work, d, "read") /\ run'.listed = {}
             \/ /\ work' = work
                /\ run'.listed = {f \in Under(d) \ rules.excluded : disk[f] # Absent}
      BY <1>1, ListDirOp
    <2>2. rules' = rules /\ d \in Paths
      BY <2>1 DEF Rest, ruleSet, Paths
    <2>3. Admitted => Admitted'
      BY <1>0, <2>1, <2>2, CleanFlag, FileIsNoDir DEF Admitted, Clean
    <2> QED BY <2>1, <2>3, FollowingVisit
  <1>2. ASSUME NEW f \in Files, VisitPath(f) PROVE Following'
    <2>1. /\ UNCHANGED Rest /\ Steady /\ ~run.ending /\ run'.reading = Nobody
          /\ \/ work' = work /\ run'.listed = {}
             \/ f \notin rules.excluded /\ work' = Flag(work, f, "read") /\ run'.listed = {}
             \/ disk[f] = Absent /\ work' = Forget(work, {f}) /\ run'.listed = {}
             \/ f \notin rules.excluded /\ work' = work /\ run'.listed = {f}
      BY <1>2, VisitPathOp
    <2>2. rules' = rules /\ f \in Paths
      BY <2>1 DEF Rest, ruleSet, Paths
    <2>3. Admitted => Admitted'
      BY <1>0, <2>1, <2>2, CleanFlag, CleanForget DEF Admitted, Clean
    <2> QED BY <2>1, <2>3, FollowingVisit
  <1>3. ASSUME NEW f \in Files, ReadFile(f) PROVE Following'
    <2>1. ~run.ending /\ run.reading = Nobody /\ UNCHANGED Rest /\ f \in run.listed
      BY <1>3, ReadCases
    <2>2. rules' = rules /\ f \in Paths
      BY <2>1 DEF Rest, ruleSet, Paths
    <2>3. CASE Unseen(f)
      <3>1. /\ Steady /\ run'.listed = run.listed \ {f} /\ run'.reading = run.reading
            /\ work' = work \/ work' = Forget(work, {f})
        BY <1>0, <2>3, UnseenOp
      <3>2. Admitted => Admitted'
        BY <1>0, <2>1, <2>2, <3>1, CleanForget DEF Admitted, Clean
      <3> QED BY <2>1, <3>1, <3>2, FollowingVisit
    <2>4. CASE Unreadable(f)
      <3>1. /\ Steady /\ run'.listed = run.listed \ {f} /\ run'.reading = run.reading
            /\ work' = Flag(work, f, "read")
        BY <1>0, <2>4, UnreadableOp
      <3>2. Admitted => Admitted'
        BY <1>0, <2>1, <2>2, <3>1, CleanFlag DEF Admitted, Clean
      <3> QED BY <2>1, <3>1, <3>2, FollowingVisit
    <2>5. ASSUME NEW w \in Database, SeenAs(run, f, HasRows(work, f), w),
                 Noted(f, w)
          PROVE  Following'
      <3>0. HasRows(work, f) \in BOOLEAN
        BY DEF HasRows
      <3>1. /\ work' = w /\ Steady /\ run'.listed = run.listed \ {f} /\ run'.reading = Nobody
        BY <1>0, <2>5, <3>0, SeenAsOp
      <3>2. ASSUME Admitted PROVE Admitted'
        <4>1. f \notin rules.excluded
          BY <2>1, <3>2 DEF Admitted
        <4>2. ASSUME NEW g \in rules.excluded PROVE ~HasRows(w, g)
          BY <1>0, <2>5, <3>2, <4>1, <4>2, CleanShrinks DEF Admitted, Clean, Noted
        <4> QED BY <2>2, <3>1, <3>2, <4>2 DEF Admitted, Clean
      <3> QED BY <2>1, <3>1, <3>2, FollowingVisit
    <2>6. CASE /\ f \notin rules.excluded
               /\ work' = Clear(work, f, "read")
               /\ run'  = [run EXCEPT !.reading = f, !.was = HasRows(work, f),
                                      !.content = disk[f]]
      <3>1. Steady /\ run'.listed = run.listed /\ run'.reading = f
        BY <1>0, <2>6 DEF Runs, Steady
      <3>2. ASSUME Admitted PROVE Admitted'
        <4>1. ASSUME NEW g \in rules.excluded PROVE ~HasRows(work', g)
          BY <1>0, <2>6, <3>2, <4>1, ClearOp, CleanShrinks DEF Admitted, Clean
        <4> QED BY <2>2, <2>6, <3>1, <3>2, <4>1 DEF Admitted, Clean
      <3> QED BY <2>1, <3>1, <3>2, FollowingVisit
    <2> QED BY <1>3, <2>3, <2>4, <2>5, <2>6, ReadCases
  <1>4. CASE WriteFile
    <2>1. /\ UNCHANGED Rest /\ Steady /\ Running /\ ~run.ending /\ run.reading \in Files
          /\ work' = Store(work, run.reading, run.content)
          /\ run.content \in Hashes \union OddContents
          /\ run'.listed = run.listed \ {run.reading} /\ run'.reading = Nobody
      BY <1>4, WriteFileOp
    <2>2. rules' = rules /\ run.reading # Nobody
      BY <1>4, <2>1 DEF Rest, ruleSet, WriteFile
    <2>3. ASSUME Admitted PROVE Admitted'
      <3>1. ASSUME NEW g \in rules.excluded PROVE ~HasRows(work', g)
        <4>1. g \in Files /\ g # run.reading /\ ~HasRows(work, g)
          BY <1>0, <2>2, <2>3 DEF Admitted, Clean
        <4>2. /\ work'.rows[g] = work.rows[g]
              /\ \A k \in IssueKinds : <<g, k>> \in work'.issues => <<g, k>> \in work.issues
          BY <1>0, <2>1, <4>1, StoreOp
        <4> QED BY <4>1, <4>2, CleanShrinks
      <3> QED BY <2>1, <2>2, <2>3, <3>1 DEF Admitted, Clean
    <2> QED BY <2>1, <2>3, FollowingVisit
  <1>5. CASE SweepDir
    <2>1. /\ UNCHANGED Rest /\ Steady /\ ~run.ending /\ run'.reading = Nobody
          /\ run'.listed = {} /\ \E gone : work' = Forget(work, gone)
      BY <1>5, SweepDirOp
    <2>2. rules' = rules
      BY <2>1 DEF Rest, ruleSet
    <2>3. Admitted => Admitted'
      BY <1>0, <2>1, <2>2, CleanForget DEF Admitted, Clean
    <2> QED BY <2>1, <2>3, FollowingVisit
  <1> QED BY <1>1, <1>2, <1>3, <1>4, <1>5 DEF Visit

LEMMA FollowingStep ==
  ASSUME Types, Following, [Next]_vars, CommitMayFail = FALSE
  PROVE  Following'
  <1>0. /\ work \in Database /\ run \in Runs /\ rules.excluded \subseteq Files
        /\ rules \in [excluded : SUBSET Files, generation : Nat] /\ applied \in Nat
        /\ run.gen \in Nat
    BY DEF Types, TypeOK, Runs
  <1>1. CASE UNCHANGED vars \/ User \/ HoldRules
    <2>1. UNCHANGED <<db, work, run, rules, applied, ready, walkedWith>>
      BY <1>1 DEF vars, ruleSet, history, User, Edit, SetDenied, SetRule, RenameUnreported,
                  HoldRules
    <2> QED BY <2>1 DEF Following, Clean, HasRows
  <1>2. CASE ReloadElsewhere \/ SwapElsewhere
    <2>1. /\ UNCHANGED <<db, work, run, applied, ready, walkedWith>>
          /\ rules' = rules \/ rules'.generation = rules.generation + 1
      BY <1>0, <1>2, ReloadedOp, LateSwapOp DEF ReloadElsewhere, SwapElsewhere, history
    <2>2. CASE rules' = rules
      BY <2>1, <2>2 DEF Following, Clean, HasRows
    <2>3. CASE rules'.generation = rules.generation + 1
      BY <1>0, <2>1, <2>3 DEF Following
    <2> QED BY <2>1, <2>2, <2>3
  <1>3. ASSUME NEW force \in BOOLEAN, BeginFull(force) PROVE Following'
    <2>1. /\ rules' \in [excluded : SUBSET Files, generation : Nat]
          /\ rules' = rules \/ rules'.generation > rules.generation
          /\ ~Running /\ run'.kind = "full" /\ ~run'.ending
          /\ run'.gen = rules'.generation /\ run'.rules = rules'.excluded
          /\ UNCHANGED <<applied, db, ready, walkedWith>>
      BY <1>3, BeginFullOp
    <2>2. run.kind # "full"
      BY <2>1 DEF Running
    <2>3. CASE rules' = rules
      BY <1>0, <2>1, <2>2, <2>3 DEF Following, Clean, HasRows
    <2>4. CASE rules'.generation > rules.generation
      BY <1>0, <2>1, <2>4 DEF Following
    <2> QED BY <2>1, <2>3, <2>4
  <1>4. ASSUME NEW P \in Batches, NEW withRules \in BOOLEAN, BeginPaths(P, withRules)
        PROVE  Following'
    <2>1. CASE BeginFull(FALSE)
      BY <1>3, <2>1
    <2>2. CASE /\ ~Running /\ work' = db /\ run'.kind = "paths"
               /\ run'.listed = {} /\ run'.reading = Nobody /\ ~run'.ending
               /\ run'.gen = rules.generation
               /\ UNCHANGED <<ruleSet, applied, db, ready, walkedWith>>
      BY <1>0, <2>2 DEF Following, Clean, HasRows, ruleSet, Running
    <2> QED BY <1>4, <2>1, <2>2, BeginPathsOp
  <1>5. CASE Visit
    BY <1>5, VisitFollows
  <1>6. CASE FinishFull
    <2>1. /\ run.kind = "full" /\ run'.kind = "full" /\ run'.ending /\ run'.gen = run.gen
          /\ run'.rules = run.rules /\ applied' = run.gen
          /\ UNCHANGED <<env, ruleSet, db, ready, history>>
          /\ \A f \in Files : work'.rows[f] = IF f \in Missing THEN NoRow ELSE work.rows[f]
          /\ work'.issues = {i \in work.issues : i[1] \notin Missing}
      BY <1>6, FinishFullOp
    <2>2. Clean(work)'
      <3> SUFFICES ASSUME NEW f \in rules'.excluded PROVE ~HasRows(work', f)
        BY DEF Clean
      <3>1. f \in Files /\ f \in Missing
        BY <1>0, <2>1 DEF ruleSet, Missing
      <3>2. work'.rows[f] = NoRow
        BY <2>1, <3>1
      <3>3. \A k \in IssueKinds : <<f, k>> \notin work'.issues
        BY <2>1, <3>1
      <3> QED BY <3>2, <3>3 DEF HasRows, IssueKinds
    <2> QED BY <1>0, <2>1, <2>2 DEF Following, ruleSet
  <1>7. CASE FinishPaths
    <2>1. /\ run'.kind = "paths" /\ run.kind = "paths" /\ run'.gen = run.gen
          /\ run'.reading = Nobody /\ run'.listed = run.listed /\ UNCHANGED Rest
      BY <1>7, FinishPathsOp
    <2>2. PICK gone : /\ \A f \in Files :
                            work'.rows[f] = IF f \in gone THEN NoRow ELSE work.rows[f]
                      /\ work'.issues = {i \in work.issues : i[1] \notin gone}
      BY <1>7, FinishPathsOp
    <2>3. ASSUME Clean(work) PROVE Clean(work)'
      <3> SUFFICES ASSUME NEW f \in rules.excluded PROVE ~HasRows(work', f)
        BY <2>1 DEF Clean, Rest, ruleSet
      <3>1. f \in Files /\ ~HasRows(work, f)
        BY <1>0, <2>3 DEF Clean
      <3>2. /\ work'.rows[f] \in {work.rows[f], NoRow}
            /\ \A k \in IssueKinds : <<f, k>> \in work'.issues => <<f, k>> \in work.issues
        BY <2>2, <3>1
      <3> QED BY <3>1, <3>2, CleanShrinks
    <2>4. UNCHANGED <<rules, applied, db, ready, walkedWith>>
      BY <2>1 DEF Rest, ruleSet, history
    <2>5. Clean(db)' <=> Clean(db)
      BY <2>4 DEF Clean, HasRows
    <2> QED BY <1>0, <2>1, <2>3, <2>4, <2>5 DEF Following
  <1>8. CASE Commit
    <2>1. /\ run.ending /\ db' = work /\ run' = Idle /\ ready' = (ready \/ run.kind = "full")
          /\ walkedWith' = IF run.kind = "full" THEN run.rules ELSE walkedWith
          /\ UNCHANGED <<rules, applied>>
      BY <1>8 DEF Commit, ruleSet
    <2>2. run.kind \in {"full", "paths"}
      BY <1>0, <2>1 DEF Types, Sorts, Running, Runs
    <2>3. Clean(db)' <=> Clean(work)
      BY <2>1 DEF Clean, HasRows
    <2>4. ASSUME ready', applied' = rules'.generation
          PROVE  Clean(work) /\ walkedWith' = rules.excluded
      BY <1>0, <2>1, <2>2, <2>4 DEF Following
    <2> QED BY <1>0, <2>1, <2>3, <2>4, IdleRun DEF Following
  <1>9. CASE AbortRun
    <2>1. /\ ~run.ending /\ run' = Idle
          /\ UNCHANGED <<db, rules, applied, ready, walkedWith>>
      BY <1>9 DEF AbortRun, Rollback, ruleSet
    <2>2. Clean(db)' <=> Clean(db)
      BY <2>1 DEF Clean, HasRows
    <2> QED BY <1>0, <2>1, <2>2, IdleRun DEF Following
  <1>10. CASE CommitFails
    BY <1>10 DEF CommitFails
  <1>11. CASE Restart
    BY <1>11, IdleRun DEF Restart, Rollback, Following
  <1> QED BY <1>1, <1>2, <1>3, <1>4, <1>5, <1>6, <1>7, <1>8, <1>9, <1>10, <1>11 DEF Next

\* A tool that apply_exclusion_changes lets through without a reindex sees no
\* rows of an excluded file and a walk made under these rules, whichever clones
\* reloaded or swapped them in while it ran -- if a run cannot fail after it took
\* the rules as applied, which the code does not rule out (run indexer_commit).
THEOREM ServedByRules ==
  ASSUME CommitMayFail = FALSE
  PROVE  Spec => []ServedRowsFollowRules
  <1>1. Init => Types /\ Following
    BY TypesInit, FollowingInit
  <1>2. Types /\ Following /\ [Next]_vars => (Types /\ Following)'
    BY TypesStep, FollowingStep
  <1>3. Types /\ Following => ServedRowsFollowRules
    BY IdleRun DEF Types, Sorts, Following, Clean, ServedRowsFollowRules, Running
  <1> QED BY <1>1, <1>2, <1>3, PTL DEF Spec
-----------------------------------------------------------------------------
(* Live rows stay, save those TakenForMoved tells of. *)
LEMMA KeepingInit == Init => Keeping
  BY IdleRun DEF Init, Keeping, Quiet, Running, Idle

(* What a visit has to show of the live files. *)
LEMMA KeepingVisit ==
  ASSUME Types, Keeping, UNCHANGED Rest, Steady, ~run.ending,
         \A f \in Files : Live(f) /\ work.rows[f] = db.rows[f]
            => /\ work'.rows[f] = db.rows[f]
               /\ run.kind = "full" /\ (DirOf[f] \in run.todo \/ Ahead(f)) =>
                     DirOf[f] \in run'.todo \/ Ahead(f)'
               /\ run'.walk = DirOf[f] /\ (run.walk = DirOf[f] => Ahead(f)) => Ahead(f)'
  PROVE  Keeping'
  <1>1. UNCHANGED <<disk, ruleFile, rules, db, changed>>
    BY DEF Rest, env, ruleSet, history
  <1>2. Quiet' <=> Quiet
    BY <1>1 DEF Quiet, Running, Steady
  <1>3. \A f \in Files : Live(f)' <=> Live(f)
    BY <1>1 DEF Live
  <1>4. run'.kind = run.kind /\ ~run'.ending /\ run'.gen <= rules'.generation
    BY <1>1 DEF Steady, Keeping
  <1> SUFFICES ASSUME Quiet', NEW f \in Files, Live(f)'
               PROVE  /\ work'.rows[f] = db'.rows[f]
                      /\ run'.kind = "full" /\ ~run'.ending =>
                            DirOf[f] \in run'.todo \/ Ahead(f)'
                      /\ run'.walk = DirOf[f] => Ahead(f)'
    BY <1>4 DEF Keeping
  <1>5. /\ work.rows[f] = db.rows[f]
        /\ run.kind = "full" => DirOf[f] \in run.todo \/ Ahead(f)
        /\ run.walk = DirOf[f] => Ahead(f)
    BY <1>2, <1>3 DEF Keeping
  <1> QED BY <1>1, <1>3, <1>4, <1>5

LEMMA VisitKeeps ==
  ASSUME Types, Keeping, Visit
  PROVE  Keeping'
  <1>0. work \in Database /\ run \in Runs /\ db \in Database
    BY DEF Types, TypeOK
  <1>n. \A f \in Files : f # Nobody /\ DirOf[f] # Nobody
    BY FileIsNoDir
  <1>h. \A f \in Files : Live(f) => disk[f] \in Hashes /\ disk[f] # Absent
                                    /\ disk[f] \notin {"foreign", "binary"}
                                    /\ f \notin rules.excluded /\ f \notin Dirs
    BY ContentAssumption, FileIsNoDir DEF Live, OddContents
  <1>1. ASSUME NEW d \in Dirs, ListDir(d) PROVE Keeping'
    <2>1. /\ UNCHANGED Rest /\ Steady /\ ~run.ending /\ run.reading = Nobody
          /\ run.listed = {} /\ run.walk = Nobody /\ run.kind \in {"full", "paths"}
          /\ run'.todo = run.todo \ {d}
          /\ run.kind = "full"  => run'.walk = Nobody /\ run'.seen = run.seen
          /\ run.kind = "paths" => run'.walk = d /\ run'.seen = {}
          /\ \/ /\ work' = Flag(work, d, "read") /\ run'.listed = {}
                /\ d \in run'.unreadable
                /\ run.kind = "full" => run'.unreadable = run.unreadable \union {d}
             \/ /\ work' = work
                /\ run'.listed = {f \in Under(d) \ rules.excluded : disk[f] # Absent}
                /\ run.kind = "full" => run'.unreadable = run.unreadable
      BY <1>0, <1>1, ListDirOp DEF Running, Runs
    <2>k. d \in Paths /\ "read" \in IssueKinds
      BY DEF Paths, IssueKinds
    <2>2. work'.rows = work.rows
      BY <1>0, <2>1, <2>k, FlagOp
    <2>3. ASSUME NEW f \in Files, Live(f), DirOf[f] = d PROVE Ahead(f)'
      BY <1>h, <2>1, <2>3 DEF Ahead, Retained, Under
    <2>4. ASSUME NEW f \in Files, Live(f), run.kind = "full", Ahead(f)
          PROVE  Ahead(f)'
      BY <1>n, <2>1, <2>4 DEF Ahead, Retained
    <2>5. ASSUME NEW f \in Files, Live(f), run'.walk = DirOf[f]
          PROVE  Ahead(f)'
      BY <1>n, <2>1, <2>3, <2>5
    <2>6. ASSUME NEW f \in Files, Live(f), run.kind = "full", DirOf[f] \in run.todo
          PROVE  DirOf[f] \in run'.todo \/ Ahead(f)'
      BY <2>1, <2>3, <2>6
    <2> QED BY <2>1, <2>2, <2>3, <2>4, <2>5, <2>6, KeepingVisit
  <1>2. ASSUME NEW f \in Files, VisitPath(f) PROVE Keeping'
    <2>1. /\ UNCHANGED Rest /\ Steady /\ ~run.ending /\ run.kind = "paths"
          /\ run'.walk = Nobody
          /\ \/ work' = work
             \/ work' = Flag(work, f, "read")
             \/ disk[f] = Absent /\ work' = Forget(work, {f})
      BY <1>2, VisitPathOp
    <2>2. ASSUME NEW g \in Files, Live(g) PROVE work'.rows[g] = work.rows[g]
      <3>1. CASE work' = Flag(work, f, "read")
        BY <1>0, <3>1, FlagOp DEF Paths, IssueKinds
      <3>2. CASE disk[f] = Absent /\ work' = Forget(work, {f})
        BY <1>0, <1>h, <2>2, <3>2, ForgetOp
      <3> QED BY <2>1, <3>1, <3>2
    <2> QED BY <1>n, <2>1, <2>2, KeepingVisit
  <1>3. ASSUME NEW f \in Files, ReadFile(f) PROVE Keeping'
    <2>1. ~run.ending /\ run.reading = Nobody /\ UNCHANGED Rest
      BY <1>3, ReadCases
    <2>2. ASSUME f \in rules.excluded \/ disk[f] = Absent, Unseen(f) PROVE Keeping'
      <3>1. /\ Steady /\ run'.todo = run.todo /\ run'.walk = run.walk
            /\ run'.listed = run.listed \ {f} /\ run'.seen = run.seen
            /\ run'.unreadable = run.unreadable /\ run'.reading = run.reading
            /\ work' = work \/ work' = Forget(work, {f})
        BY <1>0, <2>2, UnseenOp
      <3>2. ASSUME NEW g \in Files, Live(g)
            PROVE  work'.rows[g] = work.rows[g] /\ (Ahead(g) => Ahead(g)')
        BY <1>0, <1>h, <2>2, <3>1, <3>2, ForgetOp DEF Ahead
      <3> QED BY <2>1, <3>1, <3>2, KeepingVisit
    <2>3. CASE Unreadable(f)
      <3>1. /\ Steady /\ run'.todo = run.todo /\ run'.walk = run.walk
            /\ run'.listed = run.listed \ {f} /\ run'.seen = run.seen
            /\ run'.unreadable = run.unreadable \union {f} /\ run'.reading = run.reading
            /\ work' = Flag(work, f, "read")
        BY <1>0, <2>3, UnreadableOp
      <3>2. ASSUME NEW g \in Files
            PROVE  work'.rows[g] = work.rows[g] /\ (Ahead(g) => Ahead(g)')
        BY <1>0, <3>1, FlagOp DEF Ahead, Retained, Paths, IssueKinds
      <3> QED BY <2>1, <3>1, <3>2, KeepingVisit
    <2>4. ASSUME NEW w \in Database, SeenAs(run, f, HasRows(work, f), w),
                 \/ f \notin Parsed
                 \/ ~run.force /\ work.rows[f] = disk[f]
                 \/ disk[f] \in {"foreign", "binary"},
                 Noted(f, w)
          PROVE  Keeping'
      <3>0. HasRows(work, f) \in BOOLEAN
        BY DEF HasRows
      <3>1. /\ work' = w /\ Steady /\ run'.todo = run.todo /\ run'.walk = run.walk
            /\ run'.listed = run.listed \ {f} /\ run'.seen = run.seen \union {f}
            /\ run'.unreadable = run.unreadable /\ run'.reading = Nobody
        BY <1>0, <2>4, <3>0, SeenAsOp
      <3>2. ASSUME NEW g \in Files, Live(g)
            PROVE  work'.rows[g] = work.rows[g] /\ (Ahead(g) => Ahead(g)')
        <4>1. work'.rows[g] = work.rows[g]
          BY <1>h, <2>4, <3>1, <3>2 DEF Noted
        <4> QED BY <1>n, <2>1, <3>1, <4>1 DEF Ahead
      <3> QED BY <2>1, <3>1, <3>2, KeepingVisit
    <2>5. CASE /\ work' = Clear(work, f, "read")
               /\ run'  = [run EXCEPT !.reading = f, !.was = HasRows(work, f),
                                      !.content = disk[f]]
      <3>1. /\ Steady /\ run'.todo = run.todo /\ run'.walk = run.walk
            /\ run'.listed = run.listed /\ run'.seen = run.seen
            /\ run'.unreadable = run.unreadable /\ run'.reading = f
        BY <1>0, <2>5 DEF Runs, Steady
      <3>2. ASSUME NEW g \in Files
            PROVE  work'.rows[g] = work.rows[g] /\ (Ahead(g) => Ahead(g)')
        BY <1>0, <1>n, <2>1, <2>5, <3>1, ClearOp DEF Ahead
      <3> QED BY <2>1, <3>1, <3>2, KeepingVisit
    <2> QED BY <1>3, <2>2, <2>3, <2>4, <2>5, ReadCases
  <1>4. CASE WriteFile
    <2>1. /\ UNCHANGED Rest /\ Steady /\ Running /\ ~run.ending
          /\ run.reading \in Files /\ disk[run.reading] = run.content
          /\ work' = Store(work, run.reading, run.content)
          /\ run.content \in Hashes \union OddContents
          /\ run'.todo = run.todo /\ run'.walk = run.walk
          /\ run'.listed = run.listed \ {run.reading}
          /\ run'.seen = run.seen \union {run.reading}
          /\ run'.unreadable = run.unreadable
      BY <1>4, WriteFileOp
    <2>2. ASSUME NEW g \in Files, Live(g), work.rows[g] = db.rows[g]
          PROVE  work'.rows[g] = db.rows[g] /\ (Ahead(g) => Ahead(g)')
      <3>1. Ahead(g) => Ahead(g)'
        BY <2>1 DEF Ahead
      <3>2. /\ g # run.reading => work'.rows[g] = work.rows[g]
            /\ run.content \in Hashes => work'.rows[run.reading] = run.content
        BY <1>0, <2>1, StoreOp
      <3>3. CASE g = run.reading
        <4>1. run.content \in Hashes /\ run.content = db.rows[g]
          BY <2>1, <2>2, <3>3 DEF Live
        <4> QED BY <3>1, <3>2, <3>3, <4>1
      <3> QED BY <2>2, <3>1, <3>2, <3>3
    <2> QED BY <2>1, <2>2, KeepingVisit
  <1>5. CASE SweepDir
    <2>1. /\ UNCHANGED Rest /\ Steady /\ run.kind = "paths" /\ ~run.ending
          /\ run.reading = Nobody /\ run.listed = {} /\ run'.walk = Nobody
      BY <1>5, SweepDirOp
    <2>2. PICK gone : /\ work' = Forget(work, gone)
                      /\ \A f \in gone \intersect Files :
                            /\ DirOf[f] = run.walk
                            /\ f \notin run.seen /\ ~Retained(f, run.unreadable)
      BY <1>5, SweepDirOp
    <2> SUFFICES ASSUME Quiet', NEW f \in Files, Live(f)'
                 PROVE  work'.rows[f] = db'.rows[f]
      <3>1. run'.gen <= rules'.generation
        BY <2>1 DEF Keeping, Steady, Rest, ruleSet
      <3> QED BY <1>n, <2>1, <3>1 DEF Keeping, Steady
    <2>3. Quiet /\ Live(f) /\ db' = db
      BY <2>1 DEF Quiet, Live, Rest, env, ruleSet, history, Steady, Running
    <2>4. work.rows[f] = db.rows[f] /\ (run.walk = DirOf[f] => Ahead(f))
      BY <2>1, <2>3 DEF Keeping
    <2>5. f \notin gone
      BY <1>n, <2>1, <2>2, <2>4 DEF Ahead
    <2> QED BY <1>0, <2>2, <2>3, <2>4, <2>5, ForgetOp
  <1> QED BY <1>1, <1>2, <1>3, <1>4, <1>5 DEF Visit

LEMMA KeepingStep ==
  ASSUME Types, Keeping, [Next]_vars
  PROVE  Keeping'
  <1>0. /\ work \in Database /\ run \in Runs /\ db \in Database
        /\ rules \in [excluded : SUBSET Files, generation : Nat]
    BY DEF Types, TypeOK
  <1>n. \A f \in Files : /\ f # Nobody /\ DirOf[f] # Nobody /\ f \notin Dirs
                         /\ DirOf[f] \in Dirs
    BY FileIsNoDir
  <1>h. \A f \in Files : Live(f) => disk[f] # Absent /\ f \notin rules.excluded
    BY ContentAssumption DEF Live
  <1>1. CASE \/ UNCHANGED vars \/ HoldRules
    <2>1. UNCHANGED <<disk, denied, ruleFile, db, work, run, rules, changed>>
      BY <1>1 DEF vars, env, ruleSet, history, HoldRules
    <2> QED BY <2>1 DEF Keeping, Quiet, Live, Ahead, Retained, Running, TakenForMoved,
                        CanReach
  <1>2. CASE User
    <2>1. UNCHANGED <<db, work, run, rules>>
      BY <1>2 DEF User, Edit, SetDenied, SetRule, RenameUnreported, ruleSet
    <2>2. ASSUME Quiet'
          PROVE  /\ Quiet /\ UNCHANGED <<disk, ruleFile>>
                 /\ \A f \in Files : CanReach(f)' <=> CanReach(f)
      <3>1. Running /\ run.gen = rules.generation /\ changed' = {}
        BY <2>1, <2>2 DEF Quiet, Running
      <3>2. ASSUME NEW F, Touch(F) PROVE changed = {} /\ F = {}
        BY <3>1, <3>2 DEF Touch
      <3>3. ASSUME NEW f \in Files, NEW c \in Node, Edit(f, c) PROVE FALSE
        BY <3>2, <3>3 DEF Edit
      <3>4. ASSUME NEW f \in Files, SetRule(f) PROVE FALSE
        BY <3>2, <3>4 DEF SetRule
      <3>5. ASSUME NEW f \in Files, NEW g \in Files, RenameUnreported(f, g) PROVE FALSE
        BY <3>1, <3>5 DEF RenameUnreported
      <3>6. ASSUME NEW p \in Deniable, SetDenied(p)
            PROVE  /\ changed = {} /\ UNCHANGED <<disk, ruleFile>>
                   /\ \A f \in Files : CanReach(f)' <=> CanReach(f)
        <4>1. changed = {} /\ p \notin Files /\ Under(p) = {}
          <5>1. Touch(IF p \in Files THEN {p} ELSE Under(p))
            BY <3>6 DEF SetDenied
          <5> QED BY <3>2, <5>1
        <4>2. \A f \in Files : DirOf[f] # p
          BY <4>1 DEF Under
        <4> QED BY <3>6, <4>1, <4>2 DEF SetDenied, CanReach
      <3> QED BY <1>2, <3>1, <3>3, <3>4, <3>5, <3>6 DEF User, Quiet
    <2> QED BY <2>1, <2>2 DEF Keeping, Live, Ahead, Retained, TakenForMoved
  <1>3. CASE ReloadElsewhere \/ SwapElsewhere
    <2>1. /\ UNCHANGED <<env, db, work, run>>
          /\ rules' = rules \/ rules'.generation = rules.generation + 1
      BY <1>0, <1>3, ReloadedOp, LateSwapOp DEF ReloadElsewhere, SwapElsewhere
    <2>2. changed' = {} => changed = {} \/ ~Running
      BY <1>3 DEF ReloadElsewhere, SwapElsewhere, history
    <2>3. CASE rules' = rules
      BY <2>1, <2>2, <2>3 DEF Keeping, Quiet, Live, Ahead, Retained, Running, env,
                              TakenForMoved, CanReach
    <2>4. CASE rules'.generation = rules.generation + 1
      <3>1. run.gen # rules'.generation /\ run.gen <= rules'.generation
        BY <1>0, <2>4 DEF Keeping, Runs
      <3> QED BY <2>1, <3>1 DEF Keeping, Quiet
    <2> QED BY <2>1, <2>3, <2>4
  <1>4. ASSUME NEW force \in BOOLEAN, BeginFull(force) PROVE Keeping'
    <2>1. /\ work' = db /\ db' = db /\ run'.kind = "full" /\ run'.todo = Dirs
          /\ run'.walk = Nobody
          /\ rules'.generation \in Nat /\ run'.gen = rules'.generation
      BY <1>4, BeginFullOp
    <2> QED BY <1>n, <2>1 DEF Keeping
  <1>5. ASSUME NEW P \in Batches, NEW withRules \in BOOLEAN, BeginPaths(P, withRules)
        PROVE  Keeping'
    <2>1. CASE BeginFull(FALSE)
      BY <1>4, <2>1
    <2>2. CASE /\ work' = db /\ db' = db /\ run'.kind = "paths" /\ run'.walk = Nobody
               /\ run'.gen = rules.generation /\ UNCHANGED ruleSet
      BY <1>0, <1>n, <2>2 DEF Keeping, ruleSet
    <2> QED BY <1>5, <2>1, <2>2, BeginPathsOp
  <1>6. CASE Visit
    BY <1>6, VisitKeeps
  <1>7. CASE FinishFull
    <2>1. /\ run.kind = "full" /\ ~run.ending /\ run.reading = Nobody
          /\ run.listed = {} /\ run.todo = {}
          /\ run'.kind = "full" /\ run'.ending /\ run'.gen = run.gen /\ run'.walk = run.walk
          /\ UNCHANGED <<env, ruleSet, db, ready, history>>
          /\ \A f \in Files : work'.rows[f] = IF f \in Missing THEN NoRow ELSE work.rows[f]
      BY <1>7, FinishFullOp
    <2> SUFFICES ASSUME Quiet', NEW f \in Files, Live(f)'
                 PROVE  work'.rows[f] = db'.rows[f]
      <3>1. run'.gen <= rules'.generation
        BY <2>1 DEF Keeping, ruleSet
      <3> QED BY <1>n, <2>1, <3>1 DEF Keeping, Types, Sorts
    <2>2. Quiet /\ Live(f) /\ db' = db
      BY <2>1 DEF Quiet, Live, env, ruleSet, history, Running
    <2>3. work.rows[f] = db.rows[f] /\ Ahead(f)
      BY <2>1, <2>2 DEF Keeping
    <2>4. f \notin Missing
      BY <1>h, <1>n, <2>1, <2>2, <2>3 DEF Ahead, Missing
    <2> QED BY <2>1, <2>2, <2>3, <2>4
  <1>8. CASE FinishPaths
    <2>1. /\ run.kind = "paths" /\ run'.kind = "paths" /\ run'.gen = run.gen
          /\ run'.walk = Nobody /\ UNCHANGED Rest
      BY <1>8, FinishPathsOp
    <2>c. run'.created = run.created /\ run'.ending /\ ~run.ending
      BY <1>0, <1>8 DEF FinishPaths, Ready, Runs
    <2>2. PICK dirsGone \in SUBSET {d \in Dirs : \A f \in Under(d) : disk[f] = Absent} :
             \A f \in Files : work'.rows[f] = IF f \in RenamedAway(work, run.created, dirsGone)
                                              THEN NoRow ELSE work.rows[f]
      BY <1>8, FinishPathsOp
    <2> SUFFICES ASSUME Quiet', NEW f \in Files, Live(f)'
                 PROVE  work'.rows[f] = db'.rows[f] \/ (run'.ending /\ TakenForMoved(f)')
      <3>1. run'.gen <= rules'.generation
        BY <2>1 DEF Keeping, Rest, ruleSet
      <3> QED BY <1>n, <2>1, <3>1 DEF Keeping
    <2>3. Quiet /\ Live(f) /\ db' = db
      BY <2>1 DEF Quiet, Live, Rest, env, ruleSet, history, Running
    <2>4. work.rows[f] = db.rows[f] /\ disk[f] # Absent
      BY <1>h, <2>3, <2>c DEF Keeping
    <2>5. CASE run.created # {} /\ ~CanReach(f)
      BY <2>1, <2>5, <2>c DEF TakenForMoved, CanReach, Rest, env
    <2>6. \A d \in dirsGone : d # f /\ f \notin Under(d)
      BY <1>n, <2>4 DEF Under
    <2>7. CASE CanReach(f) \/ run.created = {}
      <3>1. f \notin RenamedAway(work, run.created, dirsGone)
        BY <2>4, <2>6, <2>7 DEF RenamedAway, OnDisk
      <3> QED BY <2>2, <2>3, <2>4, <3>1
    <2> QED BY <2>5, <2>7
  <1>9. CASE Commit \/ AbortRun \/ CommitFails \/ Restart
    <2>1. run' = Idle
      BY <1>9 DEF Commit, AbortRun, CommitFails, Restart, Rollback
    <2>2. rules'.generation \in Nat
      BY <1>0, <1>9 DEF Commit, AbortRun, CommitFails, Restart, ruleSet
    <2> QED BY <2>1, <2>2, IdleRun DEF Keeping, Quiet, Running
  <1> QED BY <1>1, <1>2, <1>3, <1>4, <1>5, <1>6, <1>7, <1>8, <1>9 DEF Next, Visit

\* A run during which nothing changed drops no rows of a file that is what they
\* were parsed from, whatever the user may deny: a full run never, a run over
\* paths only when its search for renames takes the file for moved.
THEOREM LiveRowsKept == Spec => LiveRowsStay
  <1> DEFINE Stay ==
        Undisturbed /\ db' # db =>
           \A f \in Files : Live(f) => db'.rows[f] = db.rows[f] \/ TakenForMoved(f)
  <1>1. Init => Types /\ Keeping
    BY TypesInit, KeepingInit
  <1>2. Types /\ Keeping /\ [Next]_vars => (Types /\ Keeping)'
    BY TypesStep, KeepingStep
  <1>3. Types /\ Keeping /\ [Next]_vars => [Stay]_vars
    <2> SUFFICES ASSUME Types, Keeping, Next, Undisturbed, db' # db,
                        NEW f \in Files, Live(f)
                 PROVE  db'.rows[f] = db.rows[f] \/ TakenForMoved(f)
      OBVIOUS
    <2>1. Quiet /\ run.ending
      BY DEF Quiet, Undisturbed, Types, Sorts
    <2>2. Commit
      <3>1. ~User /\ ~ReloadElsewhere /\ ~HoldRules /\ ~SwapElsewhere
        BY DEF User, Edit, SetDenied, SetRule, RenameUnreported, ReloadElsewhere, HoldRules,
               SwapElsewhere
      <3>2. ~Visit
        BY DEF Visit, ListDir, VisitPath, ReadFile, WriteFile, SweepDir, Rest
      <3>3. ASSUME NEW force \in BOOLEAN PROVE ~BeginFull(force)
        BY DEF BeginFull, Start
      <3>4. ASSUME NEW P \in Batches, NEW withRules \in BOOLEAN PROVE ~BeginPaths(P, withRules)
        BY <3>3 DEF BeginPaths, Start
      <3>5. ~FinishFull /\ ~FinishPaths /\ ~AbortRun /\ ~CommitFails /\ ~Restart
        BY DEF FinishFull, FinishPaths, AbortRun, CommitFails, Restart, Rollback, Rest
      <3> QED BY <3>1, <3>2, <3>3, <3>4, <3>5 DEF Next
    <2>3. db' = work /\ (work.rows[f] = db.rows[f] \/ TakenForMoved(f))
      BY <2>1, <2>2 DEF Commit, Keeping
    <2> QED BY <2>3
  <1>4. LiveRowsStay <=> [][Stay]_vars
    BY DEF LiveRowsStay
  <1> QED BY <1>1, <1>2, <1>3, <1>4, PTL DEF Spec

(* Types. *)
THEOREM IndexerTyped == Spec => []TypeOK
  <1>1. Types => TypeOK
    BY DEF Types
  <1> QED BY <1>1, TypesInit, TypesStep, PTL DEF Spec

--------------------------------------------------------------------------------
(* What w stores of f is what a fresh index would. *)
ExactIn(w, f) ==
    /\ w.rows[f] = FreshRow(f)
    /\ \A k \in {"syntax", "language"} : <<f, k>> \in w.issues <=> k \in FreshIssues(f)

(* The failure to read f or its directory is on record, and still to be had. *)
Unread(f) == f \in denied \/ ~CanReach(f) \/ disk[f] = Absent
Recorded(w, f) == {<<f, "read">>, <<DirOf[f], "read">>} \intersect w.issues # {} /\ Unread(f)

(* All of f is gone, which is no use to anyone as long as it is out of reach. *)
Lost(w, f) == ~CanReach(f) /\ ~HasRows(w, f)

Right(w, f) == ExactIn(w, f) \/ Recorded(w, f) \/ Lost(w, f)

(* f was moved to g, and nothing has touched g since. *)
Moved(f, g) ==
    /\ f \in owes[g] /\ f # g /\ g \in dirty /\ g \in Parsed
    /\ disk[f] = Absent /\ disk[g] \in Hashes
    /\ g \notin denied \union ruleFile /\ CanReach(g)

(* Only what a parser takes has rows, only languages without one are pending. *)
KindedIn(w) ==
    /\ \A f \in Files \ Parsed : w.rows[f] = NoRow /\ <<f, "syntax">> \notin w.issues
    /\ \A f \in Files \ Pending : <<f, "language">> \notin w.issues

Kinded == KindedIn(db) /\ KindedIn(work) /\ run.reading \in Parsed \union {Nobody}

(* The rows of f will be found when g is indexed for the first time. *)
OwedIn(w, f, g) == Moved(f, g) /\ w.rows[f] = disk[g] /\ ~HasRows(w, g)

Settled == \A f \in Files : \/ f \in dirty
                            \/ Right(db, f)
                            \/ \E g \in Files : OwedIn(db, f, g)

(* Files the rules misjudge are owed a visit, and no run covers them. *)
Straying ==
    /\ Astray(rules) \subseteq dirty
    /\ Running => Astray(rules) \intersect run.covers \subseteq changed

Covering ==
    /\ run.kind = "paths" =>
          run.covers \intersect (rules.excluded \union ruleFile) \subseteq changed
    /\ run.kind = "full" => Files \ run.covers \subseteq dirty
    /\ run.walk # Nobody => /\ run.listed \subseteq Under(run.walk)
                            /\ run.reading \in Under(run.walk) \union {Nobody}

(* Files that will not be dirty if the run in progress commits now. *)
Steadfast(f) == f \notin changed /\ (f \in run.covers \/ f \notin dirty)

Passed(f) ==
    \/ f \in run.listed \/ f = run.reading \/ f \in rules.excluded
    \/ f \in run.seen \/ Retained(f, run.unreadable) \/ disk[f] = Absent

Due(f) ==
    \/ f \in run.covers /\ (f \in run.todo \/ DirOf[f] \in run.todo)
    \/ run.walk = DirOf[f]

OwedHere(f, g) ==
    /\ Moved(f, g)
    /\ work.rows[f] = disk[g]
    /\ ~HasRows(work, g) \/ (g \in run.created /\ work.rows[g] = disk[g])
    /\ run.reading = g => ~run.was \/ g \in run.created

Visited(f) ==
    /\ f \in run.seen => ExactIn(work, f)
    /\ f \in run.unreadable => Unread(f) /\ (<<f, "read">> \in work.issues \/ ExactIn(work, f))
    /\ DirOf[f] \in run.unreadable =>
          ~CanReach(f) /\ <<DirOf[f], "read">> \in work.issues
    /\ f \in run.created => disk[f] # Absent
    /\ f = run.reading => f \notin ruleFile
    /\ run.kind = "full" => DirOf[f] \in run.todo \/ Passed(f)
    /\ run.walk = DirOf[f] => Passed(f)
    /\ run.kind = "paths" => \/ Due(f) \/ f \in run.listed \/ f = run.reading
                             \/ Right(work, f)
                             \/ \E g \in Files : OwedHere(f, g)

Concluded(f) ==
    \/ Right(work, f)
    \/ \E g \in Files : OwedIn(work, f, g) /\ (g \in run.covers => g \in changed)

Progress ==
    Running => \A f \in Files : Steadfast(f) => IF run.ending THEN Concluded(f) ELSE Visited(f)

Fresh == Kinded /\ Settled /\ Straying /\ Covering /\ Progress
-----------------------------------------------------------------------------
(* Rows and issues of one file, and of its directory. *)
Own(f) == /\ work'.rows[f] = work.rows[f]
          /\ \A k \in IssueKinds : <<f, k>> \in work'.issues <=> <<f, k>> \in work.issues
Same(f) == /\ Own(f)
           /\ <<DirOf[f], "read">> \in work'.issues <=> <<DirOf[f], "read">> \in work.issues

LEMMA NothingToStore ==
  ASSUME NEW f \in Files, disk[f] = Absent \/ f \in ruleFile
  PROVE  FreshRow(f) = NoRow /\ FreshIssues(f) = {}
  BY ContentAssumption DEF FreshRow, FreshIssues, Absent

LEMMA ForgottenExact ==
  ASSUME NEW w, NEW f \in Files, disk[f] = Absent \/ f \in ruleFile,
         w.rows[f] = NoRow, \A k \in IssueKinds : <<f, k>> \notin w.issues
  PROVE  ExactIn(w, f)
  <1>1. "syntax" \in IssueKinds /\ "language" \in IssueKinds
    BY DEF IssueKinds
  <1> QED BY <1>1, NothingToStore DEF ExactIn

LEMMA ForgetExact ==
  ASSUME NEW w \in Database, NEW gone, NEW f \in Files \intersect gone,
         disk[f] = Absent \/ f \in ruleFile
  PROVE  ExactIn(Forget(w, gone), f)
  <1>1. /\ Forget(w, gone).rows[f] = NoRow
        /\ Forget(w, gone).issues = {i \in w.issues : i[1] \notin gone}
    BY ForgetOp
  <1>2. \A k \in IssueKinds : <<f, k>> \notin Forget(w, gone).issues
    BY <1>1
  <1> QED BY <1>1, <1>2, ForgottenExact

(* What is stored of one file leaves the others and the directories alone. *)
LEMMA StoreBeside ==
  ASSUME NEW w \in Database, NEW f \in Files, NEW c \in Hashes \union OddContents
  PROVE  /\ \A g \in Files : g # f => Store(w, f, c).rows[g] = w.rows[g]
         /\ \A g, k : g # f =>
               (<<g, k>> \in Store(w, f, c).issues <=> <<g, k>> \in w.issues)
  <1> DEFINE v == [w EXCEPT !.rows[f] = NoRow]
  <1>0. Hashes \intersect OddContents = {}
    BY ContentAssumption
  <1>1. CASE c \in Hashes
    <2>1. Store(w, f, c) = [w EXCEPT !.rows[f] = c, !.issues = {i \in @ : i[1] # f}]
      BY <1>0, <1>1 DEF Store, OddContents
    <2> QED BY <2>1 DEF Database
  <1>v. /\ v \in Database /\ v.issues = w.issues
        /\ \A g \in Files : g # f => v.rows[g] = w.rows[g]
    BY DEF Database
  <1>2. CASE c \in {"broken", "foreign"}
    <2>1. Store(w, f, c) = Flag(v, f, "syntax")
      BY <1>0, <1>2 DEF Store, OddContents
    <2>2. f \in Paths /\ "syntax" \in IssueKinds
      BY DEF Paths, IssueKinds
    <2> HIDE DEF v
    <2>3. /\ Flag(v, f, "syntax").rows = v.rows
          /\ Flag(v, f, "syntax").issues = v.issues \union {<<f, "syntax">>}
      BY <1>v, <2>2, FlagOp
    <2> QED BY <1>v, <2>1, <2>3
  <1>3. CASE c = "binary"
    <2>1. Store(w, f, c) = Clear(v, f, "syntax")
      BY <1>0, <1>3 DEF Store, OddContents
    <2> HIDE DEF v
    <2>2. /\ Clear(v, f, "syntax").rows = v.rows
          /\ Clear(v, f, "syntax").issues = v.issues \ {<<f, "syntax">>}
      BY <1>v, ClearOp
    <2> QED BY <1>v, <2>1, <2>2
  <1> QED BY <1>1, <1>2, <1>3 DEF OddContents

(* A parsed, broken, foreign or binary content is stored as it should be. *)
LEMMA StoreExact ==
  ASSUME NEW w \in Database, NEW f \in Parsed \ ruleFile,
         disk[f] \in Hashes \union OddContents, KindedIn(w)
  PROVE  ExactIn(Store(w, f, disk[f]), f)
  <1> DEFINE c == disk[f]
             v == [w EXCEPT !.rows[f] = NoRow]
  <1>p. f \in Files /\ f \notin Pending /\ <<f, "language">> \notin w.issues
    BY KindAssumption DEF KindedIn
  <1>0. Hashes \intersect OddContents = {}
    BY ContentAssumption
  <1>1. CASE c \in Hashes
    <2>1. Store(w, f, c) = [w EXCEPT !.rows[f] = c, !.issues = {i \in @ : i[1] # f}]
      BY <1>0, <1>1 DEF Store, OddContents
    <2>2. /\ Store(w, f, c).rows[f] = c
          /\ Store(w, f, c).issues = {i \in w.issues : i[1] # f}
      BY <1>p, <2>1 DEF Database
    <2>3. FreshRow(f) = c /\ FreshIssues(f) = {}
      BY <1>0, <1>1, <1>p DEF FreshRow, FreshIssues, OddContents, Absent
    <2> QED BY <2>2, <2>3 DEF ExactIn
  <1>v. /\ v \in Database /\ v.issues = w.issues /\ v.rows[f] = NoRow
    BY <1>p DEF Database
  <1>2. CASE c \in {"broken", "foreign"}
    <2>1. Store(w, f, c) = Flag(v, f, "syntax")
      BY <1>0, <1>2 DEF Store, OddContents
    <2>2. f \in Paths /\ "syntax" \in IssueKinds
      BY <1>p DEF Paths, IssueKinds
    <2>3. FreshRow(f) = NoRow /\ FreshIssues(f) = {"syntax"}
      BY <1>0, <1>2, <1>p DEF FreshRow, FreshIssues, OddContents, Absent
    <2> HIDE DEF v
    <2>4. /\ Flag(v, f, "syntax").rows = v.rows
          /\ Flag(v, f, "syntax").issues = v.issues \union {<<f, "syntax">>}
      BY <1>v, <2>2, FlagOp
    <2> QED BY <1>p, <1>v, <2>1, <2>3, <2>4 DEF ExactIn
  <1>3. CASE c = "binary"
    <2>1. Store(w, f, c) = Clear(v, f, "syntax")
      BY <1>0, <1>3 DEF Store, OddContents
    <2>2. FreshRow(f) = NoRow /\ FreshIssues(f) = {}
      BY <1>0, <1>3, <1>p DEF FreshRow, FreshIssues, OddContents, Absent
    <2> HIDE DEF v
    <2>3. /\ Clear(v, f, "syntax").rows = v.rows
          /\ Clear(v, f, "syntax").issues = v.issues \ {<<f, "syntax">>}
      BY <1>v, ClearOp
    <2> QED BY <1>p, <1>v, <2>1, <2>2, <2>3 DEF ExactIn
  <1> QED BY <1>1, <1>2, <1>3 DEF OddContents

LEMMA OwnSame ==
  ASSUME NEW f \in Files, Own(f), UNCHANGED <<disk, ruleFile, denied>>
  PROVE  /\ ExactIn(work, f) <=> ExactIn(work, f)'
         /\ HasRows(work, f) <=> HasRows(work, f)'
         /\ Lost(work, f) <=> Lost(work, f)'
  <1>1. {"syntax", "language"} \subseteq IssueKinds
    BY DEF IssueKinds
  <1>2. FreshRow(f)' = FreshRow(f) /\ FreshIssues(f)' = FreshIssues(f)
    BY DEF FreshRow, FreshIssues
  <1>3. ExactIn(work, f) <=> ExactIn(work, f)'
    BY <1>1, <1>2 DEF ExactIn, Own
  <1>4. HasRows(work, f) <=> HasRows(work, f)'
    BY DEF HasRows, Own
  <1> QED BY <1>3, <1>4 DEF Lost, CanReach

LEMMA SameRight ==
  ASSUME NEW f \in Files, Same(f), UNCHANGED <<disk, ruleFile, denied>>
  PROVE  /\ ExactIn(work, f) <=> ExactIn(work, f)'
         /\ Right(work, f) <=> Right(work, f)'
         /\ HasRows(work, f) <=> HasRows(work, f)'
  <1>1. "read" \in IssueKinds
    BY DEF IssueKinds
  <1>2. Recorded(work, f) <=> Recorded(work, f)'
    BY <1>1 DEF Recorded, Unread, CanReach, Same, Own
  <1> QED BY <1>2, OwnSame DEF Right, Same
-----------------------------------------------------------------------------
(* What a visit leaves alone. *)
Bound == run'.covers = run.covers /\ Steady /\ UNCHANGED Rest

LEMMA SeenAsRun ==
  ASSUME run \in Runs, NEW f \in Files, NEW was \in BOOLEAN, NEW w \in Database,
         SeenAs(run, f, was, w)
  PROVE  /\ run'.covers = run.covers
         /\ run'.created = IF ~was /\ HasRows(w, f) /\ run.kind = "paths"
                           THEN run.created \union {f} ELSE run.created
  <1> DEFINE r == [run EXCEPT !.listed = @ \ {f}, !.seen = @ \union {f},
                              !.reading = Nobody, !.was = FALSE, !.content = Absent]
  <1>1. r \in Runs /\ r.kind = run.kind /\ r.created = run.created /\ r.covers = run.covers
    BY DEF Runs
  <1>2. run' = NoteCreated(r, f, was, w)
    BY DEF SeenAs
  <1> HIDE DEF r
  <1> QED BY <1>1, <1>2 DEF NoteCreated, Runs

LEMMA UnseenRun ==
  ASSUME run \in Runs, NEW f \in Files, Unseen(f)
  PROVE  /\ run'.covers = run.covers /\ run'.created = run.created
         /\ work' = IF run.kind = "paths" /\ run.walk = Nobody THEN Forget(work, {f}) ELSE work
  BY DEF Unseen, Runs

LEMMA UnreadableRun ==
  ASSUME run \in Runs, NEW f \in Files, Unreadable(f)
  PROVE  run'.covers = run.covers /\ run'.created = run.created
  BY DEF Unreadable, Runs

LEMMA ReadingRun ==
  ASSUME run \in Runs, NEW f \in Files,
         run'  = [run EXCEPT !.reading = f, !.was = HasRows(work, f), !.content = disk[f]]
  PROVE  /\ run'.covers = run.covers /\ run'.created = run.created /\ Steady
         /\ run'.todo = run.todo /\ run'.walk = run.walk
         /\ run'.listed = run.listed /\ run'.seen = run.seen
         /\ run'.unreadable = run.unreadable /\ run'.reading = f
         /\ run'.was = HasRows(work, f)
  BY DEF Runs, Steady

LEMMA ListDirRun ==
  ASSUME Types, NEW d \in Dirs, ListDir(d)
  PROVE  /\ Bound /\ Running /\ ~run.ending /\ run'.created = run.created
         /\ run.reading = Nobody /\ run'.reading = Nobody /\ run.listed = {}
         /\ run.walk = Nobody /\ d \in run.todo /\ run'.todo = run.todo \ {d}
         /\ run.kind = "full"  => run'.walk = Nobody /\ run'.seen = run.seen
         /\ run.kind = "paths" => run'.walk = d /\ run'.seen = {}
         /\ \/ /\ d \notin denied /\ work' = work
               /\ run'.listed = {f \in Under(d) \ rules.excluded : disk[f] # Absent}
               /\ run'.unreadable = IF run.kind = "paths" THEN {} ELSE run.unreadable
            \/ /\ d \in denied /\ work' = Flag(work, d, "read")
               /\ run'.listed = {}
               /\ run'.unreadable = (IF run.kind = "paths" THEN {} ELSE run.unreadable)
                                      \union {d}
  <1>1. run \in Runs
    BY DEF Types, TypeOK
  <1>2. /\ UNCHANGED Rest /\ Steady /\ Running /\ ~run.ending /\ run.reading = Nobody
        /\ run.listed = {} /\ run.walk = Nobody /\ d \in run.todo
        /\ run'.todo = run.todo \ {d} /\ run'.reading = Nobody
        /\ run.kind = "full"  => run'.walk = Nobody /\ run'.seen = run.seen
        /\ run.kind = "paths" => run'.walk = d /\ run'.seen = {}
    BY ListDirOp
  <1> DEFINE walking == IF run.kind = "paths"
                        THEN [run EXCEPT !.todo = @ \ {d}, !.walk = d,
                                         !.seen = {}, !.unreadable = {}]
                        ELSE [run EXCEPT !.todo = @ \ {d}]
  <1>3. /\ walking.unreadable = IF run.kind = "paths" THEN {} ELSE run.unreadable
        /\ walking.created = run.created /\ walking.covers = run.covers
        /\ walking.listed = run.listed /\ walking \in Runs
    BY <1>1 DEF Runs, Paths
  <1>4. \/ /\ d \notin denied /\ work' = work
           /\ run' = [walking EXCEPT !.listed =
                          {f \in Under(d) \ rules.excluded : disk[f] # Absent}]
        \/ /\ d \in denied /\ work' = Flag(work, d, "read")
           /\ run' = [walking EXCEPT !.unreadable = @ \union {d}]
    BY DEF ListDir
  <1> HIDE DEF walking
  <1>5. /\ run'.created = run.created /\ run'.covers = run.covers
        /\ \/ /\ d \notin denied /\ work' = work
              /\ run'.listed = {f \in Under(d) \ rules.excluded : disk[f] # Absent}
              /\ run'.unreadable = walking.unreadable
           \/ /\ d \in denied /\ work' = Flag(work, d, "read")
              /\ run'.listed = run.listed
              /\ run'.unreadable = walking.unreadable \union {d}
    BY <1>3, <1>4 DEF Runs
  <1> QED BY <1>2, <1>3, <1>5 DEF Bound

LEMMA VisitPathRun ==
  ASSUME Types, NEW f \in Files, VisitPath(f)
  PROVE  /\ Bound /\ run.kind = "paths" /\ ~run.ending
         /\ run.reading = Nobody /\ run'.reading = Nobody
         /\ run.listed = {} /\ run.walk = Nobody /\ run'.walk = Nobody
         /\ f \in run.todo /\ run'.todo = run.todo \ {f}
         /\ run'.seen = run.seen /\ run'.unreadable = run.unreadable
         /\ run'.created = run.created
         /\ \/ f \in rules.excluded /\ work' = work /\ run'.listed = {}
            \/ ~CanReach(f) /\ work' = Flag(work, f, "read") /\ run'.listed = {}
            \/ disk[f] = Absent /\ work' = Forget(work, {f}) /\ run'.listed = {}
            \/ f \notin rules.excluded /\ work' = work /\ run'.listed = {f}
  <1>1. run \in Runs
    BY DEF Types, TypeOK
  <1>2. /\ UNCHANGED Rest /\ Steady /\ run.kind = "paths" /\ ~run.ending
        /\ run.reading = Nobody /\ run.listed = {} /\ run.walk = Nobody
        /\ run'.todo = run.todo \ {f} /\ run'.reading = Nobody /\ run'.walk = Nobody
    BY VisitPathOp
  <1>3. f \in run.todo
    BY DEF VisitPath
  <1> DEFINE next == [run EXCEPT !.todo = @ \ {f}]
  <1>4. \/ f \in rules.excluded /\ run' = next /\ work' = work
        \/ ~CanReach(f) /\ run' = next /\ work' = Flag(work, f, "read")
        \/ disk[f] = Absent /\ run' = next /\ work' = Forget(work, {f})
        \/ f \notin rules.excluded /\ run' = [next EXCEPT !.listed = {f}] /\ work' = work
    BY DEF VisitPath
  <1> QED BY <1>1, <1>2, <1>3, <1>4 DEF Runs, Bound

LEMMA SweepDirRun ==
  ASSUME Types, SweepDir
  PROVE  /\ Bound /\ run'.seen = {} /\ run'.unreadable = {} /\ run'.created = run.created
         /\ run.kind = "paths" /\ ~run.ending /\ run.reading = Nobody /\ run'.reading = Nobody
         /\ run.listed = {} /\ run'.listed = {} /\ run.walk \in Dirs /\ run'.walk = Nobody
         /\ run'.todo = run.todo
         /\ \E gone : /\ work' = Forget(work, gone)
                      /\ \A d \in Dirs : d \in gone <=>
                            d = run.walk /\ d \notin run.unreadable
                      /\ \A f \in Files : f \in gone <=>
                            /\ DirOf[f] = run.walk
                            /\ f \notin run.seen /\ ~Retained(f, run.unreadable)
  <1>1. run \in Runs
    BY DEF Types, TypeOK
  <1>2. run' = [run EXCEPT !.walk = Nobody, !.seen = {}, !.unreadable = {}]
    BY DEF SweepDir
  <1>3. /\ run'.seen = {} /\ run'.unreadable = {} /\ run'.created = run.created
        /\ run'.covers = run.covers
    BY <1>1, <1>2 DEF Runs
  <1>4. /\ UNCHANGED Rest /\ Steady /\ run.kind = "paths" /\ ~run.ending
        /\ run.reading = Nobody /\ run.listed = {} /\ run.walk \in Dirs
        /\ run'.todo = run.todo /\ run'.reading = Nobody /\ run'.walk = Nobody
        /\ run'.listed = {}
    BY SweepDirOp
  <1> DEFINE gone == {f \in Under(run.walk) : f \notin run.seen /\ ~Retained(f, run.unreadable)}
                     \union (IF run.walk \in run.unreadable THEN {} ELSE {run.walk})
  <1>5. work' = Forget(work, gone)
    BY DEF SweepDir
  <1>6. \A f \in Files : f \in gone <=>
                            /\ DirOf[f] = run.walk
                            /\ f \notin run.seen /\ ~Retained(f, run.unreadable)
    BY <1>4, FileIsNoDir DEF Under
  <1>7. \A d \in Dirs : d \in gone <=> d = run.walk /\ d \notin run.unreadable
    BY <1>4, FileIsNoDir DEF Under
  <1> HIDE DEF gone
  <1> QED BY <1>3, <1>4, <1>5, <1>6, <1>7 DEF Bound

LEMMA VisitBound ==
  ASSUME Types, Visit
  PROVE  Bound /\ Running /\ ~run.ending
  <1>0. run \in Runs /\ work \in Database
    BY DEF Types, TypeOK
  <1>1. ASSUME NEW d \in Dirs, ListDir(d) PROVE Bound /\ Running /\ ~run.ending
    BY <1>1, ListDirRun
  <1>2. ASSUME NEW f \in Files, VisitPath(f) PROVE Bound /\ Running /\ ~run.ending
    BY <1>2, VisitPathRun DEF Running
  <1>3. ASSUME NEW f \in Files, ReadFile(f) PROVE Bound /\ Running /\ ~run.ending
    <2>0. HasRows(work, f) \in BOOLEAN
      BY DEF HasRows
    <2>1. Running /\ ~run.ending /\ UNCHANGED Rest
      BY <1>3, ReadCases
    <2>2. CASE Unseen(f)
      BY <1>0, <2>1, <2>2, UnseenOp, UnseenRun DEF Bound
    <2>3. CASE Unreadable(f)
      BY <1>0, <2>1, <2>3, UnreadableOp, UnreadableRun DEF Bound
    <2>4. CASE \E w \in Database : SeenAs(run, f, HasRows(work, f), w)
      BY <1>0, <2>0, <2>1, <2>4, SeenAsOp, SeenAsRun DEF Bound
    <2>5. CASE run'  = [run EXCEPT !.reading = f, !.was = HasRows(work, f), !.content = disk[f]]
      BY <1>0, <2>1, <2>5, ReadingRun DEF Bound
    <2> QED BY <1>3, <2>2, <2>3, <2>4, <2>5, ReadCases
  <1>4. CASE WriteFile
    <2>1. /\ UNCHANGED Rest /\ Steady /\ Running /\ ~run.ending /\ run.reading \in Files
          /\ work' \in Database /\ work' = Store(work, run.reading, run.content)
      BY <1>4, WriteFileOp
    <2>2. SeenAs(run, run.reading, run.was, Store(work, run.reading, run.content))
          /\ run.was \in BOOLEAN
      BY <1>0, <1>4 DEF WriteFile, Runs
    <2> QED BY <1>0, <2>1, <2>2, SeenAsRun DEF Bound
  <1>5. CASE SweepDir
    BY <1>5, SweepDirRun DEF Running
  <1> QED BY <1>1, <1>2, <1>3, <1>4, <1>5 DEF Visit
-----------------------------------------------------------------------------
(* The user changes the files of F, and nothing else. *)
Touching(F) ==
    /\ Touch(F)
    /\ \A f \in Files \ F : /\ disk'[f] = disk[f]
                            /\ CanReach(f)' <=> CanReach(f)
                            /\ f \in denied' <=> f \in denied
                            /\ f \in ruleFile' <=> f \in ruleFile
    /\ UNCHANGED <<ruleSet, applied, db, work, run>>

LEMMA UserTouches ==
  ASSUME Types, User
  PROVE  \/ \E F \in SUBSET Files : Touching(F)
         \/ \E f, g \in Files : RenameUnreported(f, g)
  <1>0. disk \in [Files -> Node]
    BY DEF Types, TypeOK
  <1>1. ASSUME NEW f \in Files, NEW c \in Node, Edit(f, c) PROVE Touching({f})
    BY <1>0, <1>1 DEF Edit, Touching, CanReach
  <1>2. ASSUME NEW p \in Deniable, SetDenied(p)
        PROVE  Touching(IF p \in Files THEN {p} ELSE Under(p))
    <2>1. \A f \in Files \ (IF p \in Files THEN {p} ELSE Under(p)) : f # p /\ DirOf[f] # p
      BY FileIsNoDir DEF Under
    <2> QED BY <1>2, <2>1 DEF SetDenied, Touching, CanReach
  <1>3. ASSUME NEW f \in Files, SetRule(f) PROVE Touching({f})
    BY <1>3 DEF SetRule, Touching, CanReach
  <1>4. CASE \E f \in Files, c \in Node : Edit(f, c)
    <2>1. PICK f \in Files, c \in Node : Edit(f, c)
      BY <1>4
    <2>2. {f} \in SUBSET Files /\ Touching({f})
      BY <1>1, <2>1
    <2> QED BY <2>2
  <1>5. CASE \E p \in Deniable : SetDenied(p)
    <2>1. PICK p \in Deniable : SetDenied(p)
      BY <1>5
    <2>2. (IF p \in Files THEN {p} ELSE Under(p)) \in SUBSET Files
      BY DEF Under
    <2>3. Touching(IF p \in Files THEN {p} ELSE Under(p))
      BY <1>2, <2>1
    <2> QED BY <2>2, <2>3
  <1>6. CASE \E f \in Files : SetRule(f)
    <2>1. PICK f \in Files : SetRule(f)
      BY <1>6
    <2>2. {f} \in SUBSET Files /\ Touching({f})
      BY <1>3, <2>1
    <2> QED BY <2>2
  <1> QED BY <1>4, <1>5, <1>6 DEF User

LEMMA TouchingSets ==
  ASSUME NEW F \in SUBSET Files, Touching(F)
  PROVE  /\ dirty \union F \subseteq dirty'
         /\ Running => changed \union F \subseteq changed'
         /\ run' = run /\ rules' = rules /\ db' = db /\ work' = work
         /\ Running' <=> Running
  BY DEF Touching, Touch, ruleSet, Running

-----------------------------------------------------------------------------
(* Who may have rows and issues of which kind. *)
LEMMA KindedLess ==
  ASSUME NEW w, NEW v, KindedIn(w), \A f \in Files \ Parsed : v.rows[f] = w.rows[f] \/ v.rows[f] = NoRow,
         \A f \in Files : \A k \in {"syntax", "language"} :
            <<f, k>> \in v.issues =>
               \/ <<f, k>> \in w.issues
               \/ f \in Parsed /\ k = "syntax"
               \/ f \in Pending /\ k = "language"
  PROVE  KindedIn(v)
  BY DEF KindedIn

LEMMA KindedRead ==
  ASSUME NEW w \in Database, NEW p \in Paths, KindedIn(w)
  PROVE  KindedIn(Flag(w, p, "read"))
  <1>1. "read" \in IssueKinds
    BY DEF IssueKinds
  <1>2. /\ Flag(w, p, "read").rows = w.rows
        /\ Flag(w, p, "read").issues = w.issues \union {<<p, "read">>}
    BY <1>1, FlagOp
  <1> QED BY <1>2, KindedLess

LEMMA KindedForget ==
  ASSUME NEW w \in Database, NEW gone, KindedIn(w)
  PROVE  KindedIn(Forget(w, gone))
  <1>1. /\ \A f \in Files : Forget(w, gone).rows[f] = IF f \in gone THEN NoRow ELSE w.rows[f]
        /\ Forget(w, gone).issues \subseteq w.issues
    BY ForgetOp
  <1> QED BY <1>1, KindedLess

LEMMA KindedStep ==
  ASSUME Types, Kinded, [Next]_vars
  PROVE  Kinded'
  <1>0. work \in Database /\ db \in Database /\ run \in Runs
    BY DEF Types, TypeOK
  <1>p. Files \subseteq Paths /\ Dirs \subseteq Paths
    BY DEF Paths
  <1> USE DEF Kinded
  <1>1. CASE UNCHANGED vars \/ User \/ ReloadElsewhere \/ HoldRules \/ SwapElsewhere
    <2>1. UNCHANGED <<db, work, run>>
      BY <1>1 DEF vars, User, Edit, SetDenied, SetRule, RenameUnreported, ReloadElsewhere,
                  HoldRules, SwapElsewhere
    <2> QED BY <2>1 DEF KindedIn
  <1>2. ASSUME NEW force \in BOOLEAN, BeginFull(force) PROVE Kinded'
    <2>1. work' = db /\ db' = db /\ run'.reading = Nobody
      BY <1>2, BeginFullOp
    <2> QED BY <2>1 DEF KindedIn
  <1>3. ASSUME NEW P \in Batches, NEW withRules \in BOOLEAN, BeginPaths(P, withRules)
        PROVE  Kinded'
    <2>1. CASE BeginFull(FALSE)
      BY <1>2, <2>1
    <2>2. CASE work' = db /\ db' = db /\ run'.reading = Nobody
      BY <2>2 DEF KindedIn
    <2> QED BY <1>3, <2>1, <2>2, BeginPathsOp
  <1>4. ASSUME UNCHANGED Rest, KindedIn(work'), run'.reading \in Parsed \union {Nobody}
        PROVE  Kinded'
    BY <1>4 DEF Rest, KindedIn
  <1>5. ASSUME NEW d \in Dirs, ListDir(d) PROVE Kinded'
    <2>1. /\ UNCHANGED Rest /\ run'.reading = Nobody
          /\ work' = work \/ work' = Flag(work, d, "read")
      BY <1>5, ListDirOp
    <2> QED BY <1>0, <1>p, <1>4, <2>1, KindedRead
  <1>6. ASSUME NEW f \in Files, VisitPath(f) PROVE Kinded'
    <2>1. /\ UNCHANGED Rest /\ run'.reading = Nobody
          /\ work' = work \/ work' = Flag(work, f, "read") \/ work' = Forget(work, {f})
      BY <1>6, VisitPathOp
    <2> QED BY <1>0, <1>p, <1>4, <2>1, KindedRead, KindedForget
  <1>7. ASSUME NEW f \in Files, ReadFile(f) PROVE Kinded'
    <2>0. HasRows(work, f) \in BOOLEAN
      BY DEF HasRows
    <2>1. run.reading = Nobody /\ UNCHANGED Rest
      BY <1>7, ReadCases
    <2>2. CASE Unseen(f)
      <3>1. /\ run'.reading = run.reading
            /\ work' = work \/ work' = Forget(work, {f})
        BY <1>0, <2>2, UnseenOp
      <3> QED BY <1>0, <1>4, <2>1, <3>1, KindedForget
    <2>3. CASE Unreadable(f)
      <3>1. run'.reading = run.reading /\ work' = Flag(work, f, "read")
        BY <1>0, <2>3, UnreadableOp
      <3> QED BY <1>0, <1>p, <1>4, <2>1, <3>1, KindedRead
    <2>4. ASSUME NEW w \in Database, SeenAs(run, f, HasRows(work, f), w), Noted(f, w)
          PROVE  Kinded'
      <3>1. work' = w /\ run'.reading = Nobody
        BY <1>0, <2>0, <2>4, SeenAsOp
      <3>2. \A g \in Files \ Parsed : w.rows[g] = work.rows[g]
        BY <2>4 DEF Noted
      <3>3. \A g \in Files : \A k \in {"syntax", "language"} :
               <<g, k>> \in w.issues =>
                  \/ <<g, k>> \in work.issues
                  \/ g \in Parsed /\ k = "syntax"
                  \/ g \in Pending /\ k = "language"
        BY <2>4 DEF Noted
      <3>4. KindedIn(w)
        BY <3>2, <3>3, KindedLess
      <3> QED BY <1>4, <2>1, <3>1, <3>4
    <2>5. CASE /\ f \in Parsed \ rules.excluded
               /\ work' = Clear(work, f, "read")
               /\ run'  = [run EXCEPT !.reading = f, !.was = HasRows(work, f),
                                      !.content = disk[f]]
      <3>1. run'.reading = f
        BY <1>0, <2>5, ReadingRun
      <3>2. work'.rows = work.rows /\ work'.issues \subseteq work.issues
        BY <1>0, <2>5, ClearOp
      <3>3. KindedIn(work')
        BY <3>2, KindedLess
      <3> QED BY <1>4, <2>1, <2>5, <3>1, <3>3
    <2> QED BY <1>7, <2>2, <2>3, <2>4, <2>5, ReadCases
  <1>8. CASE WriteFile
    <2>1. /\ UNCHANGED Rest /\ run.reading \in Files
          /\ work' = Store(work, run.reading, run.content)
          /\ run.content \in Hashes \union OddContents
          /\ run'.reading = Nobody
      BY <1>8, WriteFileOp
    <2>2. run.reading \in Parsed
      BY <2>1, FileIsNoDir
    <2>3. /\ \A g \in Files : g # run.reading => work'.rows[g] = work.rows[g]
          /\ \A g, k : g # run.reading \/ k # "syntax" =>
                 (<<g, k>> \in work'.issues => <<g, k>> \in work.issues)
      BY <1>0, <2>1, StoreOp
    <2>4. KindedIn(work')
      BY <2>2, <2>3, KindedLess
    <2> QED BY <1>4, <2>1, <2>4
  <1>9. CASE SweepDir
    <2>1. /\ UNCHANGED Rest /\ run'.reading = Nobody
          /\ \E gone : work' = Forget(work, gone)
      BY <1>9, SweepDirOp
    <2> QED BY <1>0, <1>4, <2>1, KindedForget
  <1>10. ASSUME NEW gone, NEW full \in BOOLEAN, CanStamp,
                work' = Stamp(Forget(work, gone), full), db' = db,
                run' = [run EXCEPT !.ending = TRUE]
         PROVE  Kinded'
    <2>1. run'.reading = run.reading
      BY <1>0, <1>10 DEF Runs
    <2>2. Forget(work, gone) \in Database /\ KindedIn(Forget(work, gone))
          /\ Forget(work, gone).generation < MaxGeneration
      BY <1>0, <1>10, ForgetOp, KindedForget DEF CanStamp
    <2>3. work'.rows = Forget(work, gone).rows /\ work'.issues = Forget(work, gone).issues
      BY <1>10, <2>2, StampOp
    <2>4. KindedIn(work')
      BY <2>2, <2>3, KindedLess
    <2> QED BY <1>10, <2>1, <2>4 DEF KindedIn
  <1>11. CASE FinishFull
    <2>1. (run.unreadable = {}) \in BOOLEAN
      OBVIOUS
    <2> QED BY <1>10, <1>11, <2>1 DEF FinishFull
  <1>12. CASE FinishPaths
    BY <1>10, <1>12 DEF FinishPaths, Rest
  <1>13. CASE Commit \/ AbortRun \/ CommitFails \/ Restart
    BY <1>13, IdleRun
       DEF Commit, AbortRun, CommitFails, Restart, Rollback, KindedIn
  <1> QED BY <1>1, <1>2, <1>3, <1>5, <1>6, <1>7, <1>8, <1>9, <1>11, <1>12, <1>13
          DEF Next, Visit
-----------------------------------------------------------------------------
(* Rules and coverage. *)
LEMMA SameStraying ==
  ASSUME Straying, UNCHANGED <<rules, ruleFile>>, run'.covers = run.covers,
         dirty \subseteq dirty', Running' => Running /\ changed \subseteq changed'
  PROVE  Straying'
  <1>1. Astray(rules)' = Astray(rules)
    BY DEF Astray
  <1> QED BY <1>1 DEF Straying

LEMMA StrayingStep ==
  ASSUME Types, Straying, [Next]_vars
  PROVE  Straying'
  <1>0. /\ rules \in [excluded : SUBSET Files, generation : Nat] /\ ruleFile \subseteq Files
        /\ run \in Runs
    BY DEF Types, TypeOK
  <1>i. Idle.kind = "none" /\ Idle.covers = {}
    BY DEF Idle
  <1>1. CASE UNCHANGED vars \/ HoldRules
    BY <1>1, SameStraying DEF vars, env, history, HoldRules, Running, ruleSet
  <1>2. CASE User
    <2>1. ASSUME NEW F \in SUBSET Files, Touching(F) PROVE Straying'
      <3>1. \A f \in Files \ F : f \in ruleFile' <=> f \in ruleFile
        BY <2>1 DEF Touching
      <3>2. Astray(rules)' \subseteq Astray(rules) \union F
        BY <2>1, <3>1, TouchingSets DEF Astray
      <3> QED BY <2>1, <3>2, TouchingSets DEF Straying
    <2>2. ASSUME NEW f \in Files, NEW g \in Files, RenameUnreported(f, g) PROVE Straying'
      BY <2>2, SameStraying DEF RenameUnreported, Running, ruleSet
    <2> QED BY <1>2, <2>1, <2>2, UserTouches
  <1>3. CASE ReloadElsewhere
    <2>1. rules'.excluded = ruleFile /\ ruleFile' = ruleFile
      BY <1>0, <1>3, SwappedOp DEF ReloadElsewhere, Reloaded, env
    <2>2. Astray(rules)' = {}
      BY <2>1 DEF Astray
    <2> QED BY <2>2 DEF Straying
  <1>4. CASE SwapElsewhere
    <2>1. /\ ruleFile' = ruleFile /\ run' = run
          /\ dirty' = dirty \union Astray(rules')
          /\ Running => changed' = changed \union Astray(rules')
      BY <1>4 DEF SwapElsewhere, env
    <2>2. Astray(rules)' = Astray(rules')
      BY <2>1 DEF Astray
    <2> QED BY <2>1, <2>2 DEF Straying, Running
  <1>5. ASSUME NEW force \in BOOLEAN, BeginFull(force) PROVE Straying'
    <2> DEFINE c == Files \ Astray(rules')
    <2>1. /\ ruleFile' = ruleFile /\ dirty' = dirty \union Astray(rules')
          /\ run'.covers = c
      BY <1>5 DEF BeginFull, Start, env, Idle
    <2>2. Astray(rules)' = Astray(rules')
      BY <2>1 DEF Astray
    <2> QED BY <2>1, <2>2 DEF Straying
  <1>6. ASSUME NEW P \in Batches, NEW withRules \in BOOLEAN, BeginPaths(P, withRules)
        PROVE  Straying'
    <2>1. CASE withRules /\ ruleFile # rules.excluded
      BY <1>5, <1>6, <2>1 DEF BeginPaths
    <2>2. CASE ~(withRules /\ ruleFile # rules.excluded)
      <3>1. /\ UNCHANGED <<rules, ruleFile, dirty>>
            /\ ruleFile # rules.excluded => run'.covers = {}
        BY <1>6, <2>2 DEF BeginPaths, Start, ruleSet, env, Idle
      <3>2. Astray(rules)' = Astray(rules)
        BY <3>1 DEF Astray
      <3>3. ruleFile = rules.excluded => Astray(rules) = {}
        BY DEF Astray
      <3> QED BY <3>1, <3>2, <3>3 DEF Straying
    <2> QED BY <2>1, <2>2
  <1>7. CASE Visit \/ FinishFull \/ FinishPaths
    <2>1. UNCHANGED <<rules, ruleFile, dirty, changed>> /\ run'.covers = run.covers /\ Running
      BY <1>0, <1>7, VisitBound
         DEF Bound, Rest, env, ruleSet, history, FinishFull, FinishPaths, Runs, Running
    <2> QED BY <2>1, SameStraying
  <1>8. CASE Commit
    <2>1. /\ UNCHANGED <<rules, ruleFile>> /\ run' = Idle
          /\ dirty' = (dirty \ run.covers) \union changed
          /\ Running
      BY <1>8 DEF Commit, env, ruleSet, Types, Sorts
    <2>2. Astray(rules)' = Astray(rules)
      BY <2>1 DEF Astray
    <2> QED BY <1>i, <2>1, <2>2 DEF Straying, Running
  <1>9. CASE AbortRun \/ CommitFails
    <2>1. UNCHANGED <<rules, ruleFile, dirty>> /\ run' = Idle
      BY <1>9 DEF AbortRun, CommitFails, Rollback, ruleSet
    <2>2. Astray(rules)' = Astray(rules)
      BY <2>1 DEF Astray
    <2> QED BY <1>i, <2>1, <2>2 DEF Straying, Running
  <1>10. CASE Restart
    <2>1. rules'.excluded = ruleFile /\ ruleFile' = ruleFile
      BY <1>10 DEF Restart, Rollback
    <2>2. Astray(rules)' = {}
      BY <2>1 DEF Astray
    <2> QED BY <2>2 DEF Straying
  <1> QED BY <1>1, <1>2, <1>3, <1>4, <1>5, <1>6, <1>7, <1>8, <1>9, <1>10 DEF Next

LEMMA CoveringVisit ==
  ASSUME Types, Covering, Visit
  PROVE  Covering'
  <1>0. run \in Runs /\ work \in Database
    BY DEF Types, TypeOK
  <1>1. /\ UNCHANGED <<rules, ruleFile, dirty, changed>>
        /\ run'.covers = run.covers /\ run'.kind = run.kind
    BY VisitBound DEF Bound, Steady, Rest, env, ruleSet, history
  <1>n. \A f \in Files : f # Nobody /\ f \notin Dirs
    BY FileIsNoDir
  <1> DEFINE Inside == run'.walk # Nobody =>
                             /\ run'.listed \subseteq Under(run'.walk)
                             /\ run'.reading \in Under(run'.walk) \union {Nobody}
  <1>2. Inside => Covering'
    BY <1>1 DEF Covering
  <1> SUFFICES Inside
    BY <1>2
  <1> HIDE DEF Inside
  <1>3. ASSUME NEW d \in Dirs, ListDir(d) PROVE Inside
    <2>1. /\ run'.reading = Nobody
          /\ run'.listed \subseteq Under(d)
          /\ run.kind = "full" => run'.walk = Nobody
          /\ run.kind = "paths" => run'.walk = d
          /\ run.kind \in {"full", "paths"}
      BY <1>0, <1>3, ListDirRun DEF Running, Runs
    <2> QED BY <2>1 DEF Inside, Covering
  <1>4. ASSUME NEW f \in Files, VisitPath(f) PROVE Inside
    BY <1>4, VisitPathRun DEF Inside, Covering
  <1>5. ASSUME NEW f \in Files, ReadFile(f) PROVE Inside
    <2>0. HasRows(work, f) \in BOOLEAN
      BY DEF HasRows
    <2>1. run.reading = Nobody /\ f \in run.listed
      BY <1>5, ReadCases
    <2>2. /\ run'.walk = run.walk
          /\ run'.listed \subseteq run.listed /\ run'.reading \in {Nobody, f}
      <3>1. CASE Unseen(f)
        BY <1>0, <2>1, <3>1, UnseenOp
      <3>2. CASE Unreadable(f)
        BY <1>0, <2>1, <3>2, UnreadableOp
      <3>3. CASE \E w \in Database : SeenAs(run, f, HasRows(work, f), w)
        BY <1>0, <2>0, <2>1, <3>3, SeenAsOp
      <3>4. CASE run'  = [run EXCEPT !.reading = f, !.was = HasRows(work, f), !.content = disk[f]]
        BY <1>0, <2>1, <3>4, ReadingRun
      <3> QED BY <1>5, <3>1, <3>2, <3>3, <3>4, ReadCases
    <2> QED BY <2>1, <2>2 DEF Inside, Covering
  <1>6. CASE WriteFile
    BY <1>6, WriteFileOp DEF Inside, Covering
  <1>7. CASE SweepDir
    BY <1>7, SweepDirRun DEF Inside, Covering
  <1> QED BY <1>3, <1>4, <1>5, <1>6, <1>7 DEF Visit

LEMMA CoveringStep ==
  ASSUME Types, Straying, Covering, [Next]_vars
  PROVE  Covering'
  <1>0. /\ rules \in [excluded : SUBSET Files, generation : Nat] /\ ruleFile \subseteq Files
        /\ run \in Runs /\ held \subseteq SUBSET Files
    BY DEF Types, TypeOK
  <1>i. Idle.kind = "none" /\ Idle.unreadable = {} /\ Idle.walk = Nobody
    BY DEF Idle
  <1>s. ~Running => run = Idle
    BY DEF Types, Sorts, Running
  <1>1. CASE UNCHANGED vars \/ HoldRules
    BY <1>1 DEF vars, env, history, HoldRules, ruleSet, Covering
  <1>2. CASE User
    <2>1. ASSUME NEW F \in SUBSET Files, Touching(F) PROVE Covering'
      <3>1. \A f \in Files \ F : f \in ruleFile' <=> f \in ruleFile
        BY <2>1 DEF Touching
      <3>2. CASE Running
        <4>1. run.covers \subseteq Files
          BY <1>0 DEF Runs
        <4> QED BY <2>1, <3>1, <3>2, <4>1, TouchingSets DEF Covering
      <3>3. CASE ~Running
        BY <1>i, <1>s, <2>1, <3>3, TouchingSets DEF Covering
      <3> QED BY <3>2, <3>3
    <2>2. ASSUME NEW f \in Files, NEW g \in Files, RenameUnreported(f, g) PROVE Covering'
      BY <1>i, <1>s, <2>2 DEF RenameUnreported, Covering
    <2> QED BY <1>2, <2>1, <2>2, UserTouches
  <1>3. CASE ReloadElsewhere
    <2>1. /\ rules'.excluded = ruleFile /\ UNCHANGED <<ruleFile, run, dirty, changed>>
      BY <1>0, <1>3, SwappedOp DEF ReloadElsewhere, Reloaded, env, history
    <2> QED BY <2>1 DEF Covering
  <1>4. CASE SwapElsewhere
    <2>1. /\ ruleFile' = ruleFile /\ run' = run
          /\ dirty' = dirty \union Astray(rules')
          /\ Running => changed' = changed \union Astray(rules')
      BY <1>4 DEF SwapElsewhere, env
    <2>2. CASE Running
      <3>1. run.covers \subseteq Files
        BY <1>0 DEF Runs
      <3>2. \A f \in run.covers : f \in rules'.excluded /\ f \notin ruleFile => f \in changed'
        BY <2>1, <2>2, <3>1 DEF Astray
      <3> QED BY <2>1, <2>2, <3>2 DEF Covering
    <2>3. CASE ~Running
      BY <1>i, <1>s, <2>1, <2>3 DEF Covering
    <2> QED BY <2>2, <2>3
  <1>5. ASSUME NEW force \in BOOLEAN, BeginFull(force) PROVE Covering'
    <2> DEFINE c == Files \ Astray(rules')
    <2>1. /\ dirty' = dirty \union Astray(rules')
          /\ run'.covers = c
      BY <1>5 DEF BeginFull, Start, Idle
    <2>2. run'.kind = "full" /\ run'.unreadable = {} /\ run'.walk = Nobody
      BY <1>5, BeginFullOp
    <2> QED BY <2>1, <2>2 DEF Covering
  <1>6. ASSUME NEW P \in Batches, NEW withRules \in BOOLEAN, BeginPaths(P, withRules)
        PROVE  Covering'
    <2>1. CASE withRules /\ ruleFile # rules.excluded
      BY <1>5, <1>6, <2>1 DEF BeginPaths
    <2>2. CASE ~(withRules /\ ruleFile # rules.excluded)
      <3>1. /\ UNCHANGED <<rules, ruleFile, dirty>>
            /\ ruleFile # rules.excluded => run'.covers = {}
            /\ ruleFile = rules.excluded => run'.covers \intersect rules.excluded = {}
            /\ run'.kind = "paths" /\ run'.unreadable = {} /\ run'.walk = Nobody
        BY <1>6, <2>2 DEF BeginPaths, Start, ruleSet, env, Idle
      <3> QED BY <3>1 DEF Covering
    <2> QED BY <2>1, <2>2
  <1>7. CASE Visit
    BY <1>7, CoveringVisit
  <1>8. CASE FinishFull \/ FinishPaths
    <2>1. /\ UNCHANGED <<rules, ruleFile, dirty, changed>> /\ run' = [run EXCEPT !.ending = TRUE]
      BY <1>8 DEF Rest, env, ruleSet, history, FinishFull, FinishPaths
    <2>2. /\ run'.kind = run.kind /\ run'.covers = run.covers /\ run'.unreadable = run.unreadable
          /\ run'.walk = run.walk /\ run'.listed = run.listed /\ run'.reading = run.reading
      BY <1>0, <2>1 DEF Runs
    <2> QED BY <2>1, <2>2 DEF Covering
  <1>9. CASE Commit \/ AbortRun \/ CommitFails \/ Restart
    <2>1. run' = Idle
      BY <1>9 DEF Commit, AbortRun, CommitFails, Restart, Rollback
    <2> QED BY <1>i, <2>1 DEF Covering
  <1> QED BY <1>1, <1>2, <1>3, <1>4, <1>5, <1>6, <1>7, <1>8, <1>9 DEF Next
-----------------------------------------------------------------------------
(* What a step beside the run leaves of a file. *)
SameView(f) == /\ disk'[f] = disk[f]
               /\ CanReach(f)' <=> CanReach(f)
               /\ f \in denied' <=> f \in denied
               /\ f \in ruleFile' <=> f \in ruleFile

LEMMA ViewFresh ==
  ASSUME NEW f \in Files, SameView(f)
  PROVE  /\ FreshRow(f)' = FreshRow(f) /\ FreshIssues(f)' = FreshIssues(f)
         /\ Unread(f)' <=> Unread(f)
  BY DEF SameView, FreshRow, FreshIssues, Unread

LEMMA ViewRight ==
  ASSUME NEW f \in Files, SameView(f)
  PROVE  /\ work' = work => (Right(work, f) <=> Right(work, f)')
                            /\ (ExactIn(work, f) <=> ExactIn(work, f)')
         /\ db' = db => (Right(db, f) <=> Right(db, f)')
         /\ db' = work => (Right(work, f) <=> Right(db, f)')
         /\ work' = db => (Right(db, f) <=> Right(work, f)')
  BY ViewFresh DEF Right, ExactIn, Recorded, Lost, HasRows, SameView

LEMMA TouchingView ==
  ASSUME Types, NEW F \in SUBSET Files, Touching(F), NEW f \in Files \ F,
         \A g \in F : f \notin owes[g]
  PROVE  SameView(f) /\ \A g \in Files : Moved(f, g) => Moved(f, g)'
  <1>1. SameView(f)
    BY DEF Touching, SameView
  <1>2. ASSUME NEW g \in Files, Moved(f, g) PROVE Moved(f, g)'
    <2>1. g \notin F
      BY <1>2 DEF Moved
    <2>2. SameView(g)
      BY <2>1 DEF Touching, SameView
    <2>3. f \in owes'[g] /\ g \in dirty'
      BY <1>2, <2>1 DEF Touching, Touch, Moved
    <2> QED BY <1>1, <1>2, <2>2, <2>3 DEF Moved, SameView
  <1> QED BY <1>1, <1>2

LEMMA SettledSame ==
  ASSUME Settled, UNCHANGED <<disk, denied, ruleFile, db, owes>>, dirty \subseteq dirty'
  PROVE  Settled'
  <1> SUFFICES ASSUME NEW f \in Files, f \notin dirty'
               PROVE  Right(db, f)' \/ \E g \in Files : OwedIn(db, f, g)'
    BY DEF Settled
  <1>1. CASE Right(db, f)
    BY <1>1, ViewRight DEF SameView, CanReach
  <1>2. ASSUME NEW g \in Files, OwedIn(db, f, g) PROVE OwedIn(db, f, g)'
    BY <1>2 DEF OwedIn, Moved, HasRows, CanReach
  <1> QED BY <1>1, <1>2 DEF Settled

LEMMA SettledTouch ==
  ASSUME Types, Settled, NEW F \in SUBSET Files, Touching(F)
  PROVE  Settled'
  <1>1. dirty' = dirty \union F \union UNION {owes[g] : g \in F} /\ db' = db
    BY DEF Touching, Touch
  <1> SUFFICES ASSUME NEW f \in Files, f \notin dirty'
               PROVE  Right(db, f)' \/ \E g \in Files : OwedIn(db, f, g)'
    BY DEF Settled
  <1>2. f \notin F /\ f \notin dirty /\ \A g \in F : f \notin owes[g]
    BY <1>1
  <1>3. SameView(f) /\ \A g \in Files : Moved(f, g) => Moved(f, g)'
    BY <1>2, TouchingView
  <1>4. CASE Right(db, f)
    BY <1>1, <1>3, <1>4, ViewRight
  <1>5. ASSUME NEW g \in Files, OwedIn(db, f, g) PROVE OwedIn(db, f, g)'
    <2>1. g \notin F
      BY <1>2, <1>5 DEF OwedIn, Moved
    <2>2. disk'[g] = disk[g]
      BY <2>1 DEF Touching
    <2> QED BY <1>1, <1>3, <1>5, <2>2 DEF OwedIn, HasRows
  <1> QED BY <1>2, <1>4, <1>5 DEF Settled

LEMMA SettledRename ==
  ASSUME Types, Settled, NEW x \in Files, NEW y \in Files, RenameUnreported(x, y)
  PROVE  Settled'
  <1>0. disk \in [Files -> Node] /\ owes \in [Files -> SUBSET Files]
    BY DEF Types, TypeOK
  <1>1. /\ disk[x] \in Hashes /\ disk[y] = Absent /\ x # y
        /\ x \notin dirty /\ y \notin dirty /\ owes[x] = {} /\ ~HasRows(db, y)
        /\ x \notin ruleFile /\ y \notin ruleFile
        /\ x \notin denied /\ y \notin denied /\ CanReach(x) /\ CanReach(y)
        /\ x \in Parsed /\ y \in Parsed
        /\ disk' = [disk EXCEPT ![y] = disk[x], ![x] = Absent]
        /\ dirty' = dirty \union {y} /\ owes' = [owes EXCEPT ![y] = @ \union {x}]
        /\ UNCHANGED <<denied, ruleFile, db>>
    BY ContentAssumption DEF RenameUnreported, CanRead
  <1>2. /\ disk'[y] = disk[x] /\ disk'[x] = Absent
        /\ \A f \in Files \ {x, y} : disk'[f] = disk[f]
        /\ x \in owes'[y] /\ \A g \in Files : owes[g] \subseteq owes'[g]
    BY <1>0, <1>1
  <1> SUFFICES ASSUME NEW f \in Files, f \notin dirty'
               PROVE  Right(db, f)' \/ \E g \in Files : OwedIn(db, f, g)'
    BY DEF Settled
  <1>3. f # y /\ f \notin dirty
    BY <1>1
  <1>4. CASE f = x
    <2>1. ~Recorded(db, f) /\ ~Lost(db, f) /\ \A g \in Files : ~OwedIn(db, f, g)
      BY <1>1, <1>4, ContentAssumption DEF Recorded, Lost, Unread, OwedIn, Moved
    <2>2. ExactIn(db, f)
      BY <1>3, <2>1 DEF Settled, Right
    <2>3. db.rows[f] = disk'[y]
      BY <1>1, <1>2, <1>4, <2>2 DEF ExactIn, FreshRow
    <2>4. OwedIn(db, f, y)'
      BY <1>1, <1>2, <1>4, <2>3 DEF OwedIn, Moved, HasRows, CanReach
    <2> QED BY <2>4
  <1>5. CASE f # x /\ Right(db, f)
    <2>1. SameView(f)
      BY <1>1, <1>2, <1>3, <1>5 DEF SameView, CanReach
    <2> QED BY <1>1, <1>5, <2>1, ViewRight
  <1>6. ASSUME f # x, NEW g \in Files, OwedIn(db, f, g) PROVE OwedIn(db, f, g)'
    <2>1. g # y /\ g # x
      BY <1>1, <1>6 DEF OwedIn, Moved
    <2> QED BY <1>1, <1>2, <1>3, <1>6, <2>1 DEF OwedIn, Moved, HasRows, CanReach
  <1> QED BY <1>3, <1>4, <1>5, <1>6 DEF Settled

LEMMA SettledCommit ==
  ASSUME Types, Progress, Commit
  PROVE  Settled'
  <1>0. owes \in [Files -> SUBSET Files]
    BY DEF Types, TypeOK
  <1>1. /\ run.ending /\ db' = work
        /\ dirty' = (dirty \ run.covers) \union changed
        /\ owes' = [f \in Files |-> IF f \in run.covers \ changed THEN {} ELSE owes[f]]
        /\ UNCHANGED <<disk, denied, ruleFile>>
    BY DEF Commit, env
  <1>2. Running
    BY <1>1 DEF Types, Sorts
  <1> SUFFICES ASSUME NEW f \in Files, f \notin dirty'
               PROVE  Right(db, f)' \/ \E g \in Files : OwedIn(db, f, g)'
    BY DEF Settled
  <1>3. Concluded(f)
    BY <1>1, <1>2 DEF Progress, Steadfast
  <1>4. SameView(f)
    BY <1>1 DEF SameView, CanReach
  <1>5. CASE Right(work, f)
    BY <1>1, <1>4, <1>5, ViewRight
  <1>6. ASSUME NEW g \in Files, OwedIn(work, f, g), g \in run.covers => g \in changed
        PROVE  OwedIn(db, f, g)'
    <2>1. owes'[g] = owes[g] /\ (g \in dirty => g \in dirty')
      BY <1>1, <1>6
    <2> QED BY <1>1, <1>6, <2>1 DEF OwedIn, Moved, HasRows, CanReach
  <1> QED BY <1>3, <1>5, <1>6 DEF Concluded

LEMMA SettledStep ==
  ASSUME Types, Settled, Progress, [Next]_vars
  PROVE  Settled'
  <1>1. CASE User
    BY <1>1, UserTouches, SettledTouch, SettledRename
  <1>2. CASE Commit
    BY <1>2, SettledCommit
  <1>3. CASE \/ UNCHANGED vars \/ ReloadElsewhere \/ HoldRules \/ SwapElsewhere
             \/ FinishFull \/ FinishPaths \/ AbortRun \/ CommitFails \/ Restart
    <2>1. UNCHANGED <<disk, denied, ruleFile, db, owes>> /\ dirty \subseteq dirty'
      BY <1>3 DEF vars, env, history, ReloadElsewhere, HoldRules, SwapElsewhere, FinishFull,
                  FinishPaths, Rest, AbortRun, CommitFails, Restart, Rollback
    <2> QED BY <2>1, SettledSame
  <1>4. CASE Visit
    <2>1. UNCHANGED <<disk, denied, ruleFile, db, owes, dirty>>
      BY <1>4, VisitBound DEF Bound, Rest, env, history
    <2> QED BY <2>1, SettledSame
  <1>5. ASSUME NEW force \in BOOLEAN, BeginFull(force) PROVE Settled'
    BY <1>5, BeginFullOp, SettledSame DEF env
  <1>6. ASSUME NEW P \in Batches, NEW withRules \in BOOLEAN, BeginPaths(P, withRules)
        PROVE  Settled'
    <2>1. CASE BeginFull(FALSE)
      BY <1>5, <2>1
    <2>2. CASE UNCHANGED <<ruleSet, dirty, env, applied, db, ready, walkedWith, owes>>
      BY <2>2, SettledSame DEF env
    <2> QED BY <1>6, <2>1, <2>2, BeginPathsOp
  <1> QED BY <1>1, <1>2, <1>3, <1>4, <1>5, <1>6 DEF Next
-----------------------------------------------------------------------------
(* The rules judge steadfast files as the ignore file does, and a run over   *)
(* paths covers no excluded ones.                                            *)
LEMMA SteadfastRules ==
  ASSUME Straying, Covering, Running, NEW f \in Files, Steadfast(f)
  PROVE  /\ f \in rules.excluded <=> f \in ruleFile
         /\ run.kind = "paths" /\ f \in run.covers => f \notin rules.excluded
         /\ run.kind = "full" => f \in run.covers
  BY DEF Straying, Covering, Steadfast, Astray

LEMMA ProgressBeside ==
  ASSUME Progress, Straying, Covering, Straying', Covering', UNCHANGED <<work, run>>,
         Running => changed \subseteq changed', dirty \subseteq dirty',
         \A f \in Files : Running /\ Steadfast(f)' =>
            SameView(f) /\ \A g \in Files : Moved(f, g) => Moved(f, g)'
                                /\ (Moved(f, g) => disk'[g] = disk[g])
  PROVE  Progress'
  <1> SUFFICES ASSUME Running', NEW f \in Files, Steadfast(f)'
               PROVE  IF run.ending THEN Concluded(f)' ELSE Visited(f)'
    BY DEF Progress
  <1>1. Running /\ Steadfast(f)
    BY DEF Running, Steadfast
  <1>2. /\ SameView(f)
        /\ \A g \in Files : Moved(f, g) => Moved(f, g)' /\ disk'[g] = disk[g]
    BY <1>1
  <1>3. /\ Right(work, f) <=> Right(work, f)'
        /\ ExactIn(work, f) <=> ExactIn(work, f)'
        /\ Unread(f) <=> Unread(f)'
    BY <1>2, ViewRight, ViewFresh
  <1>4. CASE run.ending
    <2>1. Concluded(f)
      BY <1>1, <1>4 DEF Progress
    <2>2. ASSUME NEW g \in Files, OwedIn(work, f, g), g \in run.covers => g \in changed
          PROVE  OwedIn(work, f, g)' /\ (g \in run.covers => g \in changed')
      BY <1>1, <1>2, <2>2 DEF OwedIn, HasRows
    <2>3. Right(work, f)' \/ \E g \in Files : OwedIn(work, f, g)'
                                              /\ (g \in run.covers => g \in changed)'
      BY <1>3, <2>1, <2>2 DEF Concluded
    <2> QED BY <1>4, <2>3 DEF Concluded
  <1>5. CASE ~run.ending
    <2>1. Visited(f)
      BY <1>1, <1>5 DEF Progress
    <2>2. f \in rules.excluded <=> f \in rules'.excluded
      <3>1. f \in rules.excluded <=> f \in ruleFile
        BY <1>1, SteadfastRules
      <3>2. (f \in rules.excluded <=> f \in ruleFile)'
        BY <1>1 DEF Straying, Covering, Steadfast, Astray
      <3> QED BY <1>2, <3>1, <3>2 DEF SameView
    <2>3. Passed(f) <=> Passed(f)'
      BY <1>2, <2>2 DEF Passed, Retained, SameView
    <2>4. Due(f) <=> Due(f)'
      BY DEF Due
    <2>5. ASSUME NEW g \in Files, OwedHere(f, g) PROVE OwedHere(f, g)'
      BY <1>2, <2>5 DEF OwedHere, HasRows
    <2>6. run.kind = "paths" => \/ Due(f)' \/ f \in run'.listed \/ f = run'.reading
                                \/ Right(work, f)'
                                \/ \E g \in Files : OwedHere(f, g)'
      BY <1>3, <2>1, <2>4, <2>5 DEF Visited
    <2>7. /\ f \in run.seen => ExactIn(work, f)'
          /\ f \in run.unreadable =>
                Unread(f)' /\ (<<f, "read">> \in work.issues \/ ExactIn(work, f)')
          /\ DirOf[f] \in run.unreadable =>
                ~CanReach(f)' /\ <<DirOf[f], "read">> \in work.issues
          /\ f \in run.created => disk'[f] # Absent
          /\ f = run.reading => f \notin ruleFile'
          /\ run.kind = "full" => DirOf[f] \in run.todo \/ Passed(f)'
          /\ run.walk = DirOf[f] => Passed(f)'
      BY <1>2, <1>3, <2>1, <2>3 DEF Visited, SameView
    <2> QED BY <1>5, <2>6, <2>7 DEF Visited
  <1> QED BY <1>4, <1>5

LEMMA NoProgress ==
  ASSUME ~Running'
  PROVE  Progress'
  BY DEF Progress

LEMMA ProgressUser ==
  ASSUME Types, Progress, Straying, Covering, Straying', Covering', User
  PROVE  Progress'
  <1>1. ASSUME NEW F \in SUBSET Files, Touching(F) PROVE Progress'
    <2>1. /\ UNCHANGED <<work, run>>
          /\ Running => changed \subseteq changed'
          /\ dirty \subseteq dirty'
      BY <1>1, TouchingSets DEF Touching
    <2>2. ASSUME NEW f \in Files, Running, Steadfast(f)'
          PROVE  SameView(f) /\ \A g \in Files : Moved(f, g) => Moved(f, g)'
                                    /\ (Moved(f, g) => disk'[g] = disk[g])
      <3>1. f \notin changed'
        BY <2>2 DEF Steadfast
      <3>2. changed' = changed \union F \union UNION {owes[g] : g \in F}
        BY <1>1, <2>2 DEF Touching, Touch
      <3>3. f \notin F /\ \A g \in F : f \notin owes[g]
        BY <3>1, <3>2
      <3>4. SameView(f) /\ \A g \in Files : Moved(f, g) => Moved(f, g)'
        BY <1>1, <3>3, TouchingView
      <3>5. \A g \in Files : Moved(f, g) => disk'[g] = disk[g]
        BY <1>1, <3>3 DEF Moved, Touching
      <3> QED BY <3>4, <3>5
    <2> QED BY <2>1, <2>2, ProgressBeside
  <1>2. ASSUME NEW x \in Files, NEW y \in Files, RenameUnreported(x, y) PROVE Progress'
    BY <1>2, NoProgress DEF RenameUnreported, Running
  <1> QED BY <1>1, <1>2, UserTouches

LEMMA ProgressRules ==
  ASSUME Types, Progress, Straying, Covering, Straying', Covering',
         UNCHANGED vars \/ ReloadElsewhere \/ HoldRules \/ SwapElsewhere
  PROVE  Progress'
  <1>1. /\ UNCHANGED <<work, run, disk, denied, ruleFile, owes>> /\ dirty \subseteq dirty'
        /\ Running => changed \subseteq changed'
    BY DEF vars, env, history, ReloadElsewhere, HoldRules, SwapElsewhere
  <1>2. ASSUME NEW f \in Files
        PROVE  SameView(f) /\ \A g \in Files : Moved(f, g) => Moved(f, g)'
                                  /\ (Moved(f, g) => disk'[g] = disk[g])
    BY <1>1 DEF SameView, Moved, CanReach
  <1> QED BY <1>1, <1>2, ProgressBeside

LEMMA ProgressBegin ==
  ASSUME Types, Settled,
         \/ \E force \in BOOLEAN : BeginFull(force)
         \/ \E P \in Batches, withRules \in BOOLEAN : BeginPaths(P, withRules)
  PROVE  Progress'
  <1>n. \A f \in Files : f # Nobody /\ DirOf[f] # Nobody /\ DirOf[f] \in Dirs
    BY FileIsNoDir
  <1>1. ASSUME NEW force \in BOOLEAN, BeginFull(force) PROVE Progress'
    <2>1. /\ run'.kind = "full" /\ run'.todo = Dirs /\ run'.walk = Nobody
          /\ run'.seen = {} /\ run'.unreadable = {} /\ ~run'.ending
          /\ run'.reading = Nobody
      BY <1>1, BeginFullOp
    <2>2. run'.created = {}
      BY <1>1 DEF BeginFull, Start, Idle
    <2> QED BY <1>n, <2>1, <2>2 DEF Progress, Visited
  <1>2. ASSUME NEW P \in Batches, NEW withRules \in BOOLEAN, BeginPaths(P, withRules)
        PROVE  Progress'
    <2>1. CASE withRules /\ ruleFile # rules.excluded
      BY <1>1, <1>2, <2>1 DEF BeginPaths
    <2>2. CASE ~(withRules /\ ruleFile # rules.excluded)
      <3> DEFINE c == IF ruleFile = rules.excluded
                      THEN ((P \intersect Files) \union UNION {Under(d) : d \in P \intersect Dirs})
                           \ rules.excluded
                      ELSE {}
                 r == [Idle EXCEPT !.kind = "paths", !.todo = P, !.gen = rules.generation,
                                   !.covers = c]
      <3>r. Start(r) /\ dirty' = dirty
        BY <1>2, <2>2 DEF BeginPaths
      <3>c. c \subseteq (P \intersect Files) \union UNION {Under(d) : d \in P \intersect Dirs}
        OBVIOUS
      <3> HIDE DEF c
      <3>1. /\ run'.kind = "paths" /\ run'.todo = P /\ run'.walk = Nobody
            /\ run'.seen = {} /\ run'.unreadable = {} /\ ~run'.ending
            /\ run'.created = {} /\ run'.reading = Nobody
            /\ run'.covers \subseteq (P \intersect Files) \union
                                     UNION {Under(d) : d \in P \intersect Dirs}
            /\ work' = db /\ UNCHANGED <<disk, denied, ruleFile, dirty, owes>>
        BY <3>r, <3>c DEF Start, env, Idle
      <3>2. \A f \in Files : f \in run'.covers => f \in P \/ DirOf[f] \in P
        BY <3>1 DEF Under
      <3> SUFFICES ASSUME NEW f \in Files, Steadfast(f)'
                   PROVE  \/ Due(f)' \/ Right(work, f)'
                          \/ \E g \in Files : OwedHere(f, g)'
        BY <1>n, <3>1 DEF Progress, Visited
      <3>3. CASE f \in run'.covers
        BY <3>1, <3>2, <3>3 DEF Due
      <3>4. CASE f \notin run'.covers
        <4>1. Right(db, f) \/ \E g \in Files : OwedIn(db, f, g)
          BY <3>1, <3>4 DEF Steadfast, Settled
        <4>2. CASE Right(db, f)
          BY <3>1, <4>2, ViewRight DEF SameView, CanReach
        <4>3. ASSUME NEW g \in Files, OwedIn(db, f, g) PROVE OwedHere(f, g)'
          BY <1>n, <3>1, <4>3 DEF OwedIn, OwedHere, Moved, HasRows, CanReach
        <4> QED BY <4>1, <4>2, <4>3
      <3> QED BY <3>3, <3>4
    <2> QED BY <2>1, <2>2
  <1> QED BY <1>1, <1>2
-----------------------------------------------------------------------------
(* A visit disturbs one file, or the files of one directory. *)
LEMMA BoundSame ==
  ASSUME Bound
  PROVE  /\ Running' <=> Running
         /\ \A f \in Files : /\ Steadfast(f)' <=> Steadfast(f)
                             /\ Unread(f)' <=> Unread(f)
                             /\ CanReach(f)' <=> CanReach(f)
                             /\ \A g \in Files : Moved(f, g)' <=> Moved(f, g)
  BY DEF Bound, Steady, Running, Rest, env, history, Steadfast, Unread, Moved, CanReach

LEMMA VisitedProgress ==
  ASSUME Progress, Bound, Running, ~run.ending,
         \A f \in Files : Steadfast(f) /\ Visited(f) => Visited(f)'
  PROVE  Progress'
  <1>1. ~run'.ending
    BY DEF Bound, Steady
  <1> QED BY <1>1, BoundSame DEF Progress

(* What the run knows of f does not change. *)
Unchanged(f) ==
    /\ Same(f)
    /\ f \in run'.seen <=> f \in run.seen
    /\ f \in run'.unreadable <=> f \in run.unreadable
    /\ DirOf[f] \in run'.unreadable <=> DirOf[f] \in run.unreadable
    /\ f \in run'.created <=> f \in run.created
    /\ f \in run'.listed <=> f \in run.listed
    /\ f = run'.reading <=> f = run.reading
    /\ f \in run'.todo <=> f \in run.todo
    /\ DirOf[f] \in run'.todo <=> DirOf[f] \in run.todo
    /\ run'.walk = run.walk

LEMMA VisitedBeside ==
  ASSUME Bound, NEW f \in Files, Visited(f), Unchanged(f),
         run.kind = "paths" => \A g \in Files : OwedHere(f, g) => OwedHere(f, g)'
  PROVE  Visited(f)'
  <1>1. UNCHANGED <<disk, ruleFile, denied, rules>> /\ run'.kind = run.kind
        /\ run'.covers = run.covers
    BY DEF Bound, Steady, Rest, env, ruleSet
  <1>2. /\ Right(work, f) <=> Right(work, f)'
        /\ ExactIn(work, f) <=> ExactIn(work, f)'
    BY <1>1, SameRight DEF Unchanged
  <1>3. Passed(f)' <=> Passed(f)
    BY <1>1 DEF Passed, Retained, Unchanged
  <1>4. Due(f)' <=> Due(f)
    BY <1>1 DEF Due, Unchanged
  <1>5. Unread(f)' <=> Unread(f)
    BY BoundSame
  <1>6. /\ <<f, "read">> \in work'.issues <=> <<f, "read">> \in work.issues
        /\ <<DirOf[f], "read">> \in work'.issues <=> <<DirOf[f], "read">> \in work.issues
        /\ CanReach(f)' <=> CanReach(f)
    BY BoundSame DEF Unchanged, Same, Own, IssueKinds
  <1>7. run.kind = "paths" => \/ Due(f)' \/ f \in run'.listed \/ f = run'.reading
                              \/ Right(work, f)'
                              \/ \E g \in Files : OwedHere(f, g)'
    BY <1>2, <1>4 DEF Visited, Unchanged
  <1>8. /\ f \in run'.seen => ExactIn(work, f)'
        /\ f \in run'.unreadable =>
              Unread(f)' /\ (<<f, "read">> \in work'.issues \/ ExactIn(work, f)')
        /\ DirOf[f] \in run'.unreadable =>
              ~CanReach(f)' /\ <<DirOf[f], "read">> \in work'.issues
        /\ f \in run'.created => disk'[f] # Absent
        /\ f = run'.reading => f \notin ruleFile'
        /\ run.kind = "full" => DirOf[f] \in run'.todo \/ Passed(f)'
        /\ run'.walk = DirOf[f] => Passed(f)'
    BY <1>1, <1>2, <1>3, <1>5, <1>6 DEF Visited, Unchanged
  <1> QED BY <1>1, <1>7, <1>8 DEF Visited

LEMMA OwedBeside ==
  ASSUME Bound, NEW f \in Files, NEW g \in Files, OwedHere(f, g), Own(f), Own(g),
         g \in run.created => g \in run'.created,
         run'.reading = g => run.reading = g /\ run'.was = run.was
  PROVE  OwedHere(f, g)'
  <1>1. UNCHANGED <<disk, ruleFile, denied>>
    BY DEF Bound, Rest, env
  <1>2. HasRows(work, g)' <=> HasRows(work, g)
    BY <1>1, OwnSame
  <1>3. work'.rows[f] = work.rows[f] /\ work'.rows[g] = work.rows[g]
    BY DEF Own
  <1> QED BY <1>1, <1>2, <1>3, BoundSame DEF OwedHere

(* A file that will stay as the run has just left it. *)
LEMMA VisitedExact ==
  ASSUME Bound, NEW f \in Files, ExactIn(work, f)', Visited(f),
         f \in run'.unreadable => Unread(f),
         DirOf[f] \in run'.unreadable =>
            DirOf[f] \in run.unreadable /\ <<DirOf[f], "read">> \in work'.issues,
         f \in run'.created => disk[f] # Absent,
         f = run'.reading => f \notin ruleFile,
         run.kind = "full" => DirOf[f] \in run'.todo \/ Passed(f)',
         run'.walk = DirOf[f] => Passed(f)'
  PROVE  Visited(f)'
  <1>1. UNCHANGED <<disk, ruleFile, denied>> /\ run'.kind = run.kind
    BY DEF Bound, Steady, Rest, env
  <1>2. (Unread(f)' <=> Unread(f)) /\ (CanReach(f)' <=> CanReach(f))
    BY BoundSame
  <1>3. Right(work, f)'
    BY DEF Right
  <1>4. DirOf[f] \in run'.unreadable =>
           ~CanReach(f)' /\ <<DirOf[f], "read">> \in work'.issues
    BY <1>2 DEF Visited
  <1> QED BY <1>1, <1>2, <1>3, <1>4 DEF Visited
-----------------------------------------------------------------------------
(* What each visit leaves. *)
LEMMA ListDirVisited ==
  ASSUME Types, NEW d \in Dirs, ListDir(d), NEW f \in Files, Visited(f)
  PROVE  Visited(f)'
  <1>n. /\ f # d /\ DirOf[f] \in Dirs /\ f # Nobody /\ DirOf[f] # Nobody
        /\ \A g \in Files : g # d
    BY FileIsNoDir
  <1>0. work \in Database /\ d \in Paths /\ "read" \in IssueKinds
    BY DEF Types, TypeOK, Paths, IssueKinds
  <1>1. /\ Bound /\ run'.created = run.created
        /\ run.reading = Nobody /\ run'.reading = Nobody /\ run.listed = {}
        /\ run.walk = Nobody /\ run'.todo = run.todo \ {d}
        /\ run.kind = "full" => run'.walk = Nobody /\ run'.seen = run.seen
        /\ run.kind = "paths" => run'.walk = d /\ run'.seen = {}
        /\ run.kind \in {"full", "paths"}
    BY ListDirRun DEF Types, Runs, Running
  <1>c. \/ /\ d \notin denied /\ work' = work
           /\ run'.listed = {g \in Under(d) \ rules.excluded : disk[g] # Absent}
           /\ run'.unreadable = IF run.kind = "paths" THEN {} ELSE run.unreadable
        \/ /\ d \in denied /\ work' = Flag(work, d, "read")
           /\ run'.listed = {}
           /\ run'.unreadable = (IF run.kind = "paths" THEN {} ELSE run.unreadable)
                                  \union {d}
    BY ListDirRun
  <1>2. /\ UNCHANGED <<disk, ruleFile, denied, rules>> /\ run'.kind = run.kind
        /\ run'.covers = run.covers
    BY <1>1 DEF Bound, Steady, Rest, env, ruleSet
  <1>w. /\ work'.rows = work.rows /\ work.issues \subseteq work'.issues
        /\ \A i : i \in work'.issues => i \in work.issues \/ i = <<d, "read">>
        /\ d \in denied => <<d, "read">> \in work'.issues
    BY <1>0, <1>c, FlagOp
  <1>3. \A g \in Files : Own(g)
    BY <1>n, <1>w DEF Own
  <1>4. /\ ExactIn(work, f) <=> ExactIn(work, f)'
        /\ Unread(f)' <=> Unread(f)
        /\ CanReach(f)' <=> CanReach(f)
        /\ Lost(work, f) <=> Lost(work, f)'
    BY <1>1, <1>2, <1>3, OwnSame, BoundSame
  <1>r. Right(work, f) => Right(work, f)'
    BY <1>4, <1>w DEF Right, Recorded
  <1>5. DirOf[f] = d => Passed(f)'
    BY <1>1, <1>2, <1>c DEF Passed, Under, Retained
  <1>u. /\ f \in run'.unreadable => f \in run.unreadable
        /\ DirOf[f] \in run'.unreadable =>
              ~CanReach(f)' /\ <<DirOf[f], "read">> \in work'.issues
    <2>1. CASE DirOf[f] \in run'.unreadable /\ DirOf[f] \in run.unreadable
      BY <1>4, <1>w, <2>1, <1>c, <1>n DEF Visited
    <2>2. CASE DirOf[f] \in run'.unreadable /\ DirOf[f] \notin run.unreadable
      <3>1. DirOf[f] = d /\ d \in denied
        BY <1>c, <2>2
      <3> QED BY <1>c, <1>n, <1>4, <1>w, <3>1 DEF CanReach
    <2>3. CASE DirOf[f] \notin run'.unreadable
      BY <1>c, <1>n, <2>3
    <2> QED BY <2>1, <2>2, <2>3
  <1>6. CASE run.kind = "full"
    <2>1. Passed(f) => Passed(f)'
      BY <1>n, <1>1, <1>2, <1>c, <1>6 DEF Passed, Retained
    <2>2. f \in run'.unreadable => Unread(f)' /\ (<<f, "read">> \in work'.issues
                                                    \/ ExactIn(work, f)')
      BY <1>4, <1>u, <1>w DEF Visited
    <2> QED BY <1>n, <1>1, <1>2, <1>4, <1>5, <1>6, <1>u, <2>1, <2>2 DEF Visited
  <1>7. CASE run.kind = "paths"
    <2>1. Due(f) => Due(f)'
      BY <1>n, <1>1, <1>2, <1>7 DEF Due
    <2>2. ASSUME NEW g \in Files, OwedHere(f, g) PROVE OwedHere(f, g)'
      BY <1>1, <1>3, <2>2, OwedBeside, FileIsNoDir
    <2>3. \/ Due(f)' \/ Right(work, f)'
          \/ \E g \in Files : OwedHere(f, g)'
      BY <1>n, <1>1, <1>r, <1>7, <2>1, <2>2 DEF Visited
    <2>4. f \notin run'.unreadable
      BY <1>c, <1>n, <1>7
    <2> QED BY <1>n, <1>1, <1>2, <1>5, <1>7, <1>u, <2>3, <2>4 DEF Visited
  <1> QED BY <1>1, <1>6, <1>7

LEMMA ForgetSame ==
  ASSUME work \in Database, NEW gone, work' = Forget(work, gone), NEW f \in Files
  PROVE  /\ f \notin gone => Own(f)
         /\ f \notin gone /\ DirOf[f] \notin gone => Same(f)
         /\ f \in gone => ~HasRows(work, f)'
  <1>1. /\ work'.rows[f] = IF f \in gone THEN NoRow ELSE work.rows[f]
        /\ work'.issues = {i \in work.issues : i[1] \notin gone}
    BY ForgetOp
  <1> QED BY <1>1 DEF Same, Own, HasRows

LEMMA OwedForget ==
  ASSUME work \in Database, NEW gone, work' = Forget(work, gone), Bound,
         run'.created = run.created, run'.reading = Nobody,
         NEW f \in Files, NEW g \in Files, f \notin gone, OwedHere(f, g)
  PROVE  OwedHere(f, g)'
  <1>1. Own(f) /\ g # Nobody
    BY ForgetSame, FileIsNoDir
  <1>2. CASE g \notin gone
    BY <1>1, <1>2, ForgetSame, OwedBeside
  <1>3. CASE g \in gone
    <2>1. ~HasRows(work, g)'
      BY <1>3, ForgetSame
    <2>2. disk' = disk /\ work'.rows[f] = work.rows[f]
      BY <1>1 DEF Bound, Rest, env, Own
    <2> QED BY <1>1, <2>1, <2>2, BoundSame DEF OwedHere
  <1> QED BY <1>2, <1>3

LEMMA ForgottenRight ==
  ASSUME work \in Database, NEW gone, work' = Forget(work, gone), Bound,
         NEW f \in Files, f \in gone, disk[f] = Absent \/ f \in ruleFile
  PROVE  ExactIn(work, f)'
  <1>1. ExactIn(work', f)
    BY ForgetExact
  <1>2. FreshRow(f)' = FreshRow(f) /\ FreshIssues(f)' = FreshIssues(f)
    BY DEF Bound, Rest, env, FreshRow, FreshIssues
  <1> QED BY <1>1, <1>2 DEF ExactIn

LEMMA VisitPathVisited ==
  ASSUME Types, Straying, Covering, NEW x \in Files, VisitPath(x),
         NEW f \in Files, Steadfast(f), Visited(f)
  PROVE  Visited(f)'
  <1>n. f # Nobody /\ DirOf[f] # Nobody /\ DirOf[f] # x /\ x # Nobody
    BY FileIsNoDir
  <1>0. work \in Database
    BY DEF Types, TypeOK
  <1>1. /\ Bound /\ run.kind = "paths" /\ ~run.ending
        /\ run.reading = Nobody /\ run'.reading = Nobody
        /\ run.listed = {} /\ run.walk = Nobody /\ run'.walk = Nobody
        /\ run'.todo = run.todo \ {x}
        /\ run'.seen = run.seen /\ run'.unreadable = run.unreadable
        /\ run'.created = run.created
        /\ \/ x \in rules.excluded /\ work' = work /\ run'.listed = {}
           \/ ~CanReach(x) /\ work' = Flag(work, x, "read") /\ run'.listed = {}
           \/ disk[x] = Absent /\ work' = Forget(work, {x}) /\ run'.listed = {}
           \/ x \notin rules.excluded /\ work' = work /\ run'.listed = {x}
    BY VisitPathRun
  <1>f. x \in Paths /\ "read" \in IssueKinds /\ \A g \in Files : DirOf[g] # x
    BY FileIsNoDir DEF Paths, IssueKinds
  <1>w. work' = Flag(work, x, "read") =>
           work'.rows = work.rows /\ work'.issues = work.issues \union {<<x, "read">>}
    BY <1>0, <1>f, FlagOp
  <1>2. \A g \in Files : g # x \/ work' = work => Same(g)
    BY <1>0, <1>1, <1>f, <1>w, ForgetSame DEF Same, Own
  <1>3. \A g \in Files : Own(f) /\ OwedHere(f, g) => OwedHere(f, g)'
    <2> SUFFICES ASSUME NEW g \in Files, Own(f), OwedHere(f, g) PROVE OwedHere(f, g)'
      OBVIOUS
    <2>1. Own(g)
      <3>1. disk[g] # Absent /\ CanReach(g)
        BY ContentAssumption DEF OwedHere, Moved
      <3> QED BY <1>1, <1>2, <3>1 DEF Same
    <2>2. g # Nobody
      BY FileIsNoDir
    <2> QED BY <1>1, <2>1, <2>2, OwedBeside
  <1>4. CASE f # x
    BY <1>n, <1>1, <1>2, <1>3, <1>4, VisitedBeside DEF Unchanged, Same
  <1>5. CASE f = x /\ disk[x] = Absent /\ work' = Forget(work, {x})
    <2>1. ExactIn(work, f)'
      BY <1>0, <1>1, <1>5, ForgottenRight
    <2>2. f \in run'.created => disk[f] # Absent
      BY <1>1 DEF Visited
    <2>3. f \in run'.unreadable => Unread(f)
      BY <1>1 DEF Visited
    <2>4. DirOf[f] \in run'.unreadable =>
             DirOf[f] \in run.unreadable /\ <<DirOf[f], "read">> \in work'.issues
      <3>1. work'.issues = {i \in work.issues : i[1] \notin {x}}
        BY <1>0, <1>5, ForgetOp
      <3> QED BY <1>n, <1>1, <3>1 DEF Visited
    <2> QED BY <1>n, <1>1, <2>1, <2>2, <2>3, <2>4, VisitedExact
  <1>r. CASE f = x /\ ~CanReach(x) /\ work' = Flag(work, x, "read")
    <2>1. UNCHANGED <<disk, ruleFile, denied, rules>> /\ run'.kind = run.kind
      BY <1>1 DEF Bound, Steady, Rest, env, ruleSet
    <2>2. /\ (Unread(f)' <=> Unread(f)) /\ (CanReach(f)' <=> CanReach(f))
          /\ Unread(f)
      BY <1>1, <1>r, BoundSame DEF Unread
    <2>3. /\ <<f, "read">> \in work'.issues /\ work.issues \subseteq work'.issues
          /\ work'.rows = work.rows
          /\ \A k \in {"syntax", "language"} :
                <<f, k>> \in work'.issues <=> <<f, k>> \in work.issues
      BY <1>r, <1>w
    <2>4. Right(work, f)'
      BY <2>2, <2>3 DEF Right, Recorded
    <2>5. FreshRow(f)' = FreshRow(f) /\ FreshIssues(f)' = FreshIssues(f)
      BY <2>1 DEF FreshRow, FreshIssues
    <2>6. ExactIn(work, f) <=> ExactIn(work, f)'
      BY <2>3, <2>5 DEF ExactIn
    <2> QED BY <1>n, <1>1, <1>r, <2>1, <2>2, <2>3, <2>4, <2>6 DEF Visited
  <1>6. CASE f = x /\ work' = work
    <2>1. \/ f \in run'.listed \/ Right(work, f)
          \/ \E g \in Files : OwedHere(f, g)
      <3>1. CASE x \in rules.excluded /\ run'.listed = {}
        <4>1. Running
          BY <1>1 DEF Running
        <4>2. f \notin run.covers
          BY <1>1, <1>6, <3>1, <4>1, SteadfastRules
        <4>3. ~Due(f)
          BY <1>n, <1>1, <4>2 DEF Due
        <4> QED BY <1>n, <1>1, <4>3 DEF Visited
      <3>2. CASE run'.listed = {x}
        BY <1>6, <3>2
      <3>3. CASE disk[x] = Absent /\ work' = Forget(work, {x})
        <4>1. ExactIn(work, f)'
          BY <1>0, <1>1, <1>6, <3>3, ForgottenRight
        <4>2. Right(work, f)
          BY <1>1, <1>2, <1>6, <4>1, SameRight DEF Right, Bound, Rest, env
        <4> QED BY <4>2
      <3>4. CASE ~CanReach(x) /\ work' = Flag(work, x, "read")
        <4>1. <<f, "read">> \in work.issues
          BY <1>6, <1>w, <3>4
        <4> QED BY <1>6, <3>4, <4>1 DEF Right, Recorded, Unread
      <3> QED BY <1>1, <3>1, <3>2, <3>3, <3>4
    <2>2. UNCHANGED <<disk, ruleFile, denied, rules>> /\ run'.kind = run.kind
      BY <1>1 DEF Bound, Steady, Rest, env, ruleSet
    <2>3. /\ Right(work, f) <=> Right(work, f)'
          /\ ExactIn(work, f) <=> ExactIn(work, f)'
          /\ Unread(f)' <=> Unread(f)
          /\ CanReach(f)' <=> CanReach(f)
      BY <1>1, <1>2, <1>6, <2>2, SameRight, BoundSame
    <2>4. f \in run'.listed \/ Right(work, f)' \/ \E g \in Files : OwedHere(f, g)'
      BY <1>2, <1>3, <1>6, <2>1, <2>3 DEF Same
    <2> QED BY <1>n, <1>1, <1>6, <2>2, <2>3, <2>4 DEF Visited
  <1> QED BY <1>1, <1>4, <1>5, <1>6, <1>r

LEMMA SweepVisited ==
  ASSUME Types, Straying, Covering, SweepDir,
         NEW f \in Files, Steadfast(f), Visited(f)
  PROVE  Visited(f)'
  <1>n. f # Nobody /\ DirOf[f] # Nobody /\ DirOf[f] \in Dirs
    BY FileIsNoDir
  <1>0. work \in Database
    BY DEF Types, TypeOK
  <1>1. /\ Bound /\ run'.seen = {} /\ run'.unreadable = {} /\ run'.created = run.created
        /\ run.kind = "paths" /\ run.reading = Nobody /\ run'.reading = Nobody
        /\ run.listed = {} /\ run'.listed = {} /\ run'.walk = Nobody
        /\ run'.todo = run.todo
    BY SweepDirRun
  <1>2. PICK gone : /\ work' = Forget(work, gone)
                    /\ \A d \in Dirs : d \in gone <=>
                          d = run.walk /\ d \notin run.unreadable
                    /\ \A g \in Files : g \in gone <=>
                          /\ DirOf[g] = run.walk
                          /\ g \notin run.seen /\ ~Retained(g, run.unreadable)
    BY SweepDirRun
  <1>3. UNCHANGED <<disk, ruleFile, denied, rules>> /\ run'.kind = run.kind
        /\ run'.covers = run.covers
    BY <1>1 DEF Bound, Steady, Rest, env, ruleSet
  <1>4. f \notin gone => Own(f)
    BY <1>0, <1>2, ForgetSame
  <1>5. f \notin gone /\ DirOf[f] \notin gone => Same(f)
    BY <1>0, <1>2, ForgetSame
  <1>6. CASE f \in gone
    <2>1. Passed(f) /\ f \notin run.seen /\ ~Retained(f, run.unreadable)
      BY <1>2, <1>6 DEF Visited
    <2>2. disk[f] = Absent \/ f \in rules.excluded
      BY <1>n, <1>1, <2>1 DEF Passed
    <2>3. Running
      BY <1>1 DEF Running
    <2>4. disk[f] = Absent \/ f \in ruleFile
      BY <2>2, <2>3, SteadfastRules
    <2>5. Right(work, f)'
      BY <1>0, <1>1, <1>2, <1>6, <2>4, ForgottenRight DEF Right
    <2> QED BY <1>n, <1>1, <1>3, <2>5 DEF Visited
  <1>7. CASE f \notin gone /\ run.walk = DirOf[f]
    <2>1. f \in run.seen \/ f \in run.unreadable \/ DirOf[f] \in run.unreadable
      BY <1>n, <1>2, <1>7 DEF Retained
    <2>2. /\ ExactIn(work, f) <=> ExactIn(work, f)'
          /\ Unread(f)' <=> Unread(f)
      BY <1>1, <1>3, <1>4, <1>7, OwnSame, BoundSame
    <2>3. <<f, "read">> \in work.issues <=> <<f, "read">> \in work'.issues
      BY <1>4, <1>7 DEF Own, IssueKinds
    <2>4. Right(work, f)'
      <3>1. CASE f \in run.seen \/ f \in run.unreadable
        BY <2>2, <2>3, <3>1 DEF Visited, Right, Recorded
      <3>2. CASE DirOf[f] \in run.unreadable
        <4>1. Same(f)
          BY <1>n, <1>2, <1>5, <1>7, <3>2
        <4>2. Unread(f) /\ <<DirOf[f], "read">> \in work'.issues
          BY <3>2, <4>1 DEF Visited, Unread, Same
        <4> QED BY <2>2, <4>2 DEF Right, Recorded
      <3> QED BY <2>1, <3>1, <3>2
    <2> QED BY <1>n, <1>1, <1>3, <2>4 DEF Visited
  <1>8. CASE f \notin gone /\ run.walk # DirOf[f]
    <2>1. Same(f)
      BY <1>n, <1>2, <1>5, <1>8
    <2>2. Right(work, f) <=> Right(work, f)'
      BY <1>3, <2>1, SameRight
    <2>3. Due(f) => Due(f)'
      BY <1>1, <1>3, <1>8 DEF Due
    <2>4. \A g \in Files : OwedHere(f, g) => OwedHere(f, g)'
      BY <1>0, <1>1, <1>2, <1>8, OwedForget
    <2>5. \/ Due(f)' \/ Right(work, f)'
          \/ \E g \in Files : OwedHere(f, g)'
      BY <1>n, <1>1, <2>2, <2>3, <2>4 DEF Visited
    <2> QED BY <1>n, <1>1, <1>3, <2>5 DEF Visited
  <1> QED BY <1>6, <1>7, <1>8
-----------------------------------------------------------------------------
(* A file is read. *)
LEMMA ClearSame ==
  ASSUME work \in Database, NEW x \in Files, work' = Clear(work, x, "read")
  PROVE  /\ \A g \in Files : g # x => Same(g)
         /\ work'.rows = work.rows
         /\ \A k \in {"syntax", "language"} :
               <<x, k>> \in work'.issues <=> <<x, k>> \in work.issues
         /\ \A d \in Dirs : <<d, "read">> \in work'.issues <=> <<d, "read">> \in work.issues
         /\ \A g \in Files : ~HasRows(work, g) => ~HasRows(work, g)'
  <1>1. work'.rows = work.rows /\ work'.issues = work.issues \ {<<x, "read">>}
    BY ClearOp
  <1>2. x \notin Dirs /\ \A g \in Files : DirOf[g] # x
    BY FileIsNoDir
  <1> QED BY <1>1, <1>2 DEF Same, Own, HasRows

LEMMA FlagSame ==
  ASSUME work \in Database, NEW x \in Files, work' = Flag(work, x, "read")
  PROVE  /\ \A g \in Files : g # x => Same(g)
         /\ work'.rows = work.rows
         /\ \A k \in {"syntax", "language"} :
               <<x, k>> \in work'.issues <=> <<x, k>> \in work.issues
         /\ \A d \in Dirs : <<d, "read">> \in work'.issues <=> <<d, "read">> \in work.issues
         /\ <<x, "read">> \in work'.issues
  <1>1. x \in Paths /\ "read" \in IssueKinds
    BY DEF Paths, IssueKinds
  <1>2. work'.rows = work.rows /\ work'.issues = work.issues \union {<<x, "read">>}
    BY <1>1, FlagOp
  <1>3. x \notin Dirs /\ \A g \in Files : DirOf[g] # x
    BY FileIsNoDir
  <1> QED BY <1>2, <1>3 DEF Same, Own

LEMMA SameExact ==
  ASSUME Bound, NEW f \in Files, work'.rows = work.rows,
         \A k \in {"syntax", "language"} :
            <<f, k>> \in work'.issues <=> <<f, k>> \in work.issues
  PROVE  ExactIn(work, f)' <=> ExactIn(work, f)
  <1>1. FreshRow(f)' = FreshRow(f) /\ FreshIssues(f)' = FreshIssues(f)
    BY DEF Bound, Rest, env, FreshRow, FreshIssues
  <1> QED BY <1>1 DEF ExactIn

LEMMA UnseenVisited ==
  ASSUME Types, Straying, Covering, Bound, Running, NEW x \in Files, Unseen(x),
         x \in run.listed, run.reading = Nobody, x \in rules.excluded \/ disk[x] = Absent,
         NEW f \in Files, Steadfast(f), Visited(f)
  PROVE  Visited(f)'
  <1>n. f # Nobody /\ DirOf[f] # Nobody /\ \A g \in Files : DirOf[g] # x
    BY FileIsNoDir
  <1>0. work \in Database /\ run \in Runs
    BY DEF Types, TypeOK
  <1>1. /\ run'.todo = run.todo /\ run'.walk = run.walk
        /\ run'.listed = run.listed \ {x} /\ run'.seen = run.seen
        /\ run'.unreadable = run.unreadable /\ run'.created = run.created
        /\ run'.reading = Nobody
        /\ work' = IF run.kind = "paths" /\ run.walk = Nobody THEN Forget(work, {x}) ELSE work
    BY <1>0, UnseenOp, UnseenRun
  <1>2. /\ UNCHANGED <<disk, ruleFile, denied, rules>> /\ run'.kind = run.kind
        /\ run'.covers = run.covers
    BY DEF Bound, Steady, Rest, env, ruleSet
  <1>3. \A g \in Files : g # x \/ work' = work => Same(g)
    BY <1>n, <1>0, <1>1, ForgetSame DEF Same, Own
  <1>4. CASE f # x
    <2>1. \A g \in Files : OwedHere(f, g) => OwedHere(f, g)'
      <3>1. CASE work' = work
        BY <1>1, <1>3, <3>1, OwedBeside, FileIsNoDir DEF Same
      <3>2. CASE work' = Forget(work, {x})
        BY <1>0, <1>1, <1>4, <3>2, OwedForget
      <3> QED BY <1>1, <3>1, <3>2
    <2> QED BY <1>n, <1>1, <1>3, <1>4, <2>1, VisitedBeside DEF Unchanged
  <1>5. CASE f = x
    <2>1. x \in rules.excluded <=> x \in ruleFile
      BY <1>5, SteadfastRules
    <2>2. Passed(f)'
      BY <1>2, <1>5 DEF Passed
    <2>3. CASE run.kind = "paths" /\ run.walk = Nobody
      <3>1. ExactIn(work, f)'
        BY <1>0, <1>1, <1>5, <2>1, <2>3, ForgottenRight
      <3>2. /\ f \in run'.unreadable => Unread(f)
            /\ f \in run'.created => disk[f] # Absent
        BY <1>1 DEF Visited
      <3>3. DirOf[f] \in run'.unreadable =>
               DirOf[f] \in run.unreadable /\ <<DirOf[f], "read">> \in work'.issues
        <4>1. work'.issues = {i \in work.issues : i[1] \notin {x}}
          BY <1>0, <1>1, <2>3, ForgetOp
        <4> QED BY <1>n, <1>1, <4>1 DEF Visited
      <3> QED BY <1>n, <1>1, <2>2, <3>1, <3>2, <3>3, VisitedExact
    <2>4. CASE ~(run.kind = "paths" /\ run.walk = Nobody)
      <3>1. work' = work
        BY <1>1, <2>4
      <3>2. /\ ExactIn(work, f) <=> ExactIn(work, f)'
            /\ Unread(f)' <=> Unread(f)
            /\ CanReach(f)' <=> CanReach(f)
        BY <1>2, <1>3, <3>1, SameRight, BoundSame
      <3>3. run.kind = "paths" => Due(f)'
        <4>1. run.kind = "paths" => x \in Under(run.walk)
          BY <2>4 DEF Covering
        <4> QED BY <1>1, <1>5, <4>1 DEF Due, Under
      <3> QED BY <1>n, <1>1, <1>2, <2>2, <3>1, <3>2, <3>3 DEF Visited
    <2> QED BY <2>3, <2>4
  <1> QED BY <1>4, <1>5

LEMMA UnreadableVisited ==
  ASSUME Types, Bound, NEW x \in Files, Unreadable(x),
         run.reading = Nobody, Unread(x), NEW f \in Files, Visited(f)
  PROVE  Visited(f)'
  <1>n. f # Nobody /\ DirOf[f] # Nobody /\ DirOf[f] # x
    BY FileIsNoDir
  <1>0. work \in Database /\ run \in Runs
    BY DEF Types, TypeOK
  <1>1. /\ run'.todo = run.todo /\ run'.walk = run.walk
        /\ run'.listed = run.listed \ {x} /\ run'.seen = run.seen
        /\ run'.unreadable = run.unreadable \union {x} /\ run'.created = run.created
        /\ run'.reading = Nobody
        /\ work' = Flag(work, x, "read")
    BY <1>0, UnreadableOp, UnreadableRun
  <1>2. /\ UNCHANGED <<disk, ruleFile, denied, rules>> /\ run'.kind = run.kind
    BY DEF Bound, Steady, Rest, env, ruleSet
  <1>3. \A g \in Files : g # x => Same(g)
    BY <1>0, <1>1, FlagSame
  <1>4. CASE f # x
    <2>1. ASSUME NEW g \in Files, OwedHere(f, g) PROVE OwedHere(f, g)'
      <3>1. g # x
        BY <2>1, ContentAssumption DEF OwedHere, Moved, Unread
      <3> QED BY <1>1, <1>3, <1>4, <2>1, <3>1, OwedBeside, FileIsNoDir DEF Same
    <2> QED BY <1>n, <1>1, <1>3, <1>4, <2>1, VisitedBeside DEF Unchanged
  <1>5. CASE f = x
    <2>1. /\ ExactIn(work, f)' <=> ExactIn(work, f)
          /\ <<f, "read">> \in work'.issues
      BY <1>0, <1>1, <1>5, FlagSame, SameExact
    <2>2. Unread(f) /\ Unread(f)' /\ (CanReach(f)' <=> CanReach(f))
      BY <1>5, BoundSame
    <2>3. Right(work, f)' /\ Passed(f)'
      BY <1>1, <1>5, <2>1, <2>2 DEF Right, Recorded, Passed, Retained
    <2>4. DirOf[f] \in run'.unreadable =>
             ~CanReach(f)' /\ <<DirOf[f], "read">> \in work'.issues
      BY <1>n, <1>0, <1>1, <2>2, FlagSame, FileIsNoDir DEF Visited
    <2> QED BY <1>n, <1>1, <1>2, <2>1, <2>2, <2>3, <2>4 DEF Visited
  <1> QED BY <1>4, <1>5

(* The reading of x has begun. *)
LEMMA ReadingVisited ==
  ASSUME Types, Straying, Covering, Bound, Running, NEW x \in Files, x \in run.listed,
         x \notin rules.excluded, disk[x] # Absent, CanRead(x), run.reading = Nobody,
         work' = Clear(work, x, "read"),
         run'  = [run EXCEPT !.reading = x, !.was = HasRows(work, x), !.content = disk[x]],
         NEW f \in Files, Steadfast(f), Visited(f)
  PROVE  Visited(f)'
  <1>n. f # Nobody /\ DirOf[f] # Nobody
    BY FileIsNoDir
  <1>0. work \in Database /\ run \in Runs
    BY DEF Types, TypeOK
  <1>1. /\ run'.created = run.created /\ run'.todo = run.todo /\ run'.walk = run.walk
        /\ run'.listed = run.listed /\ run'.seen = run.seen
        /\ run'.unreadable = run.unreadable /\ run'.reading = x
        /\ run'.was = HasRows(work, x)
    BY <1>0, ReadingRun
  <1>2. /\ UNCHANGED <<disk, ruleFile, denied, rules>> /\ run'.kind = run.kind
    BY DEF Bound, Steady, Rest, env, ruleSet
  <1>3. /\ \A g \in Files : g # x => Same(g)
        /\ \A g \in Files : ~HasRows(work, g) => ~HasRows(work, g)'
        /\ work'.rows = work.rows
    BY <1>0, ClearSame
  <1>4. CASE f # x
    <2>1. ASSUME NEW g \in Files, OwedHere(f, g) PROVE OwedHere(f, g)'
      BY <1>1, <1>2, <1>3, <2>1, BoundSame DEF OwedHere
    <2> QED BY <1>n, <1>1, <1>3, <1>4, <2>1, VisitedBeside DEF Unchanged
  <1>5. CASE f = x
    <2>1. x \notin ruleFile
      BY <1>5, SteadfastRules
    <2>2. ExactIn(work, f)' <=> ExactIn(work, f)
      BY <1>0, <1>3, <1>5, ClearSame, SameExact
    <2>3. ~Unread(f) /\ Passed(f)' /\ CanReach(f)
      BY <1>1, <1>5 DEF Unread, CanRead, Passed
    <2>4. f \notin run'.unreadable /\ DirOf[f] \notin run'.unreadable
      BY <1>1, <2>3 DEF Visited
    <2> QED BY <1>n, <1>1, <1>2, <1>5, <2>1, <2>2, <2>3, <2>4 DEF Visited
  <1> QED BY <1>4, <1>5

(* x is stored as it should be, or was so already. *)
LEMMA SeenVisited ==
  ASSUME Types, Bound, NEW x \in Files, NEW was \in BOOLEAN, NEW w \in Database,
         SeenAs(run, x, was, w), run.reading \in {Nobody, x},
         disk[x] # Absent, CanReach(x), x \notin ruleFile => ExactIn(w, x),
         \A g \in Files : g # x => w.rows[g] = work.rows[g],
         \A p, k : p # x => (<<p, k>> \in w.issues <=> <<p, k>> \in work.issues),
         \A f \in Files : OwedHere(f, x) => ~was \/ x \in run.created,
         NEW f \in Files, Steadfast(f), Visited(f), f = x => x \notin ruleFile
  PROVE  Visited(f)'
  <1>n. f # Nobody /\ DirOf[f] # Nobody /\ x # Nobody /\ \A g \in Files : DirOf[g] # x
    BY FileIsNoDir
  <1>0. work \in Database /\ run \in Runs
    BY DEF Types, TypeOK
  <1>1. /\ work' = w /\ run'.todo = run.todo /\ run'.walk = run.walk
        /\ run'.listed = run.listed \ {x} /\ run'.seen = run.seen \union {x}
        /\ run'.unreadable = run.unreadable
        /\ run'.reading = Nobody
    BY <1>0, SeenAsOp
  <1>c. run'.created = IF ~was /\ HasRows(w, x) /\ run.kind = "paths"
                       THEN run.created \union {x} ELSE run.created
    BY <1>0, SeenAsRun
  <1>2. /\ UNCHANGED <<disk, ruleFile, denied, rules>> /\ run'.kind = run.kind
    BY DEF Bound, Steady, Rest, env, ruleSet
  <1>3. \A g \in Files : g # x => Same(g)
    BY <1>n, <1>1 DEF Same, Own
  <1>4. CASE f # x
    <2>1. ASSUME run.kind = "paths", NEW g \in Files, OwedHere(f, g) PROVE OwedHere(f, g)'
      <3>1. CASE g # x
        BY <1>1, <1>c, <1>3, <1>4, <2>1, <3>1, OwedBeside, FileIsNoDir DEF Same
      <3>2. CASE g = x
        <4>1. x \notin ruleFile /\ disk[x] \in Hashes /\ x \in Parsed
          BY <2>1, <3>2 DEF OwedHere, Moved
        <4>2. w.rows[x] = disk[x]
          BY <4>1 DEF ExactIn, FreshRow
        <4>3. HasRows(w, x)
          BY <4>1, <4>2, ContentAssumption DEF HasRows
        <4>4. x \in run'.created
          BY <1>c, <2>1, <3>2, <4>3
        <4>5. work'.rows[f] = work.rows[f]
          BY <1>3, <1>4 DEF Same, Own
        <4> QED BY <1>n, <1>1, <1>2, <2>1, <3>2, <4>2, <4>4, <4>5, BoundSame DEF OwedHere
      <3> QED BY <3>1, <3>2
    <2>2. Unchanged(f)
      BY <1>n, <1>1, <1>c, <1>3, <1>4 DEF Unchanged
    <2> QED BY <2>1, <2>2, VisitedBeside
  <1>5. CASE f = x
    <2>1. ExactIn(work', f)
      BY <1>1, <1>5
    <2>2. FreshRow(f)' = FreshRow(f) /\ FreshIssues(f)' = FreshIssues(f)
      BY <1>2 DEF FreshRow, FreshIssues
    <2>3. ExactIn(work, f)'
      BY <2>1, <2>2 DEF ExactIn
    <2>4. Passed(f)'
      BY <1>1, <1>5 DEF Passed
    <2>5. /\ f \in run'.unreadable => Unread(f)
          /\ DirOf[f] \notin run'.unreadable
      BY <1>1, <1>5 DEF Visited
    <2> QED BY <1>n, <1>1, <1>5, <2>3, <2>4, <2>5, VisitedExact
  <1> QED BY <1>4, <1>5

LEMMA ReadFileVisited ==
  ASSUME Types, Kinded, Straying, Covering, NEW x \in Files, ReadFile(x),
         NEW f \in Files, Steadfast(f), Visited(f)
  PROVE  Visited(f)'
  <1>0. work \in Database /\ run \in Runs /\ disk[x] \in Node
    BY DEF Types, TypeOK
  <1>k. /\ x \notin Parsed => work.rows[x] = NoRow /\ <<x, "syntax">> \notin work.issues
        /\ x \notin Pending => <<x, "language">> \notin work.issues
        /\ x \in Parsed => x \notin Pending
    BY KindAssumption DEF Kinded, KindedIn
  <1>1. /\ Running /\ ~run.ending /\ run.reading = Nobody /\ x \in run.listed
    BY ReadCases
  <1>b. Bound
    <2>1. Visit
      BY DEF Visit
    <2> QED BY <2>1, VisitBound
  <1> DEFINE c == disk[x]
             cleared == Clear(work, x, "read")
             was == HasRows(work, x)
             quiet == Clear(cleared, x, "syntax")
             stored == Store(cleared, x, c)
             noted == IF x \in Pending THEN Flag(work, x, "language") ELSE work
  <1>2. \/ (x \in rules.excluded \/ disk[x] = Absent) /\ Unseen(x)
        \/ Unread(x) /\ Unreadable(x)
        \/ /\ x \notin rules.excluded \union Parsed /\ c # Absent /\ CanReach(x)
           /\ SeenAs(run, x, was, noted)
        \/ /\ x \in Parsed \ rules.excluded /\ c # Absent /\ CanRead(x)
           /\ \/ work.rows[x] = c /\ SeenAs(run, x, was, quiet)
              \/ c \in {"foreign", "binary"} /\ SeenAs(run, x, was, stored)
              \/ /\ work' = cleared
                 /\ run'  = [run EXCEPT !.reading = x, !.was = was, !.content = c]
    BY DEF ReadFile, Unread
  <1>3. CASE (x \in rules.excluded \/ disk[x] = Absent) /\ Unseen(x)
    BY <1>1, <1>b, <1>3, UnseenVisited
  <1>4. CASE Unread(x) /\ Unreadable(x)
    BY <1>1, <1>b, <1>4, UnreadableVisited
  <1>5. CASE /\ x \in Parsed \ rules.excluded /\ c # Absent /\ CanRead(x)
             /\ work' = cleared
             /\ run'  = [run EXCEPT !.reading = x, !.was = was, !.content = c]
    BY <1>1, <1>b, <1>5, ReadingVisited
  <1>6. /\ cleared \in Database /\ cleared.rows = work.rows
        /\ cleared.issues = work.issues \ {<<x, "read">>}
    BY <1>0, ClearOp
  <1>7. ASSUME NEW w \in Database, SeenAs(run, x, was, w), x \notin rules.excluded,
               disk[x] # Absent, CanReach(x), x \notin ruleFile => ExactIn(w, x),
               \A g \in Files : g # x => w.rows[g] = work.rows[g],
               \A p, k : p # x => (<<p, k>> \in w.issues <=> <<p, k>> \in work.issues)
        PROVE  Visited(f)'
    <2>1. was \in BOOLEAN
      BY DEF HasRows
    <2>2. \A g \in Files : OwedHere(g, x) => ~was \/ x \in run.created
      BY DEF OwedHere
    <2>4. f = x => x \notin ruleFile
      BY <1>1, <1>7, SteadfastRules
    <2>5. run.reading \in {Nobody, x}
      BY <1>1
    <2> HIDE DEF was, c, cleared
    <2> QED BY <1>7, <1>b, <2>1, <2>2, <2>4, <2>5, SeenVisited
  <1>8. CASE x \in Parsed \ rules.excluded /\ c # Absent /\ CanRead(x)
             /\ work.rows[x] = c /\ SeenAs(run, x, was, quiet)
    <2>1. /\ quiet \in Database /\ quiet.rows = work.rows
          /\ quiet.issues = cleared.issues \ {<<x, "syntax">>}
      <3> HIDE DEF cleared
      <3> QED BY <1>6, ClearOp
    <2>2. c \in Hashes /\ c \notin OddContents
      BY <1>0, <1>8, ContentAssumption, Parts DEF Node, NoRow, OddContents, Absent
    <2>3. x \notin ruleFile => FreshRow(x) = c /\ FreshIssues(x) = {}
      BY <1>k, <1>8, <2>2 DEF FreshRow, FreshIssues, OddContents
    <2>6. CanReach(x) /\ disk[x] # Absent
      BY <1>8 DEF CanRead
    <2> HIDE DEF quiet, cleared, c
    <2>4. x \notin ruleFile => ExactIn(quiet, x)
      BY <1>k, <1>6, <1>8, <2>1, <2>3 DEF ExactIn
    <2>5. /\ \A g \in Files : g # x => quiet.rows[g] = work.rows[g]
          /\ \A p, k : p # x => (<<p, k>> \in quiet.issues <=> <<p, k>> \in work.issues)
      BY <1>6, <2>1
    <2> QED BY <1>7, <1>8, <2>1, <2>4, <2>5, <2>6
  <1>9. CASE x \in Parsed \ rules.excluded /\ c # Absent /\ CanRead(x)
             /\ c \in {"foreign", "binary"} /\ SeenAs(run, x, was, stored)
    <2>1. c \in Hashes \union OddContents
      BY <1>9 DEF OddContents
    <2>6. CanReach(x) /\ disk[x] # Absent
      BY <1>9 DEF CanRead
    <2> HIDE DEF cleared
    <2>2. stored \in Database
      BY <1>6, <2>1, StoreOp
    <2>7. KindedIn(cleared)
      <3>1. KindedIn(work)
        BY DEF Kinded
      <3> QED BY <1>6, <3>1, KindedLess
    <2>3. x \notin ruleFile => ExactIn(stored, x)
      BY <1>6, <1>9, <2>1, <2>7, StoreExact
    <2>4. /\ \A g \in Files : g # x => stored.rows[g] = cleared.rows[g]
          /\ \A p, k : p # x => (<<p, k>> \in stored.issues <=> <<p, k>> \in cleared.issues)
      BY <1>6, <2>1, StoreBeside
    <2> HIDE DEF stored
    <2>5. /\ \A g \in Files : g # x => stored.rows[g] = work.rows[g]
          /\ \A p, k : p # x => (<<p, k>> \in stored.issues <=> <<p, k>> \in work.issues)
      BY <1>6, <2>4
    <2> QED BY <1>7, <1>9, <2>2, <2>3, <2>5, <2>6
  <1>10. CASE x \notin rules.excluded \union Parsed /\ c # Absent /\ CanReach(x)
              /\ SeenAs(run, x, was, noted)
    <2>1. "language" \in IssueKinds /\ x \in Paths
      BY DEF IssueKinds, Paths
    <2>2. /\ noted \in Database /\ noted.rows = work.rows
          /\ \A i : i \in noted.issues <=>
                i \in work.issues \/ (x \in Pending /\ i = <<x, "language">>)
      BY <1>0, <2>1, FlagOp
    <2>3. x \notin ruleFile =>
             /\ FreshRow(x) = NoRow
             /\ "language" \in FreshIssues(x) <=> x \in Pending
             /\ "syntax" \notin FreshIssues(x)
      BY <1>10 DEF FreshRow, FreshIssues
    <2> HIDE DEF noted
    <2>4. /\ <<x, "language">> \in noted.issues <=> x \in Pending
          /\ <<x, "syntax">> \notin noted.issues
      BY <1>k, <1>10, <2>2
    <2>5. x \notin ruleFile => ExactIn(noted, x)
      BY <1>k, <1>10, <2>2, <2>3, <2>4 DEF ExactIn
    <2>6. /\ \A g \in Files : g # x => noted.rows[g] = work.rows[g]
          /\ \A p, k : p # x => (<<p, k>> \in noted.issues <=> <<p, k>> \in work.issues)
      BY <2>2
    <2> QED BY <1>7, <1>10, <2>2, <2>5, <2>6
  <1> QED BY <1>2, <1>3, <1>4, <1>5, <1>8, <1>9, <1>10

LEMMA WriteFileVisited ==
  ASSUME Types, Kinded, WriteFile, NEW f \in Files, Steadfast(f), Visited(f)
  PROVE  Visited(f)'
  <1>0. work \in Database /\ run \in Runs
    BY DEF Types, TypeOK
  <1>b. Bound
    <2>1. Visit
      BY DEF Visit
    <2> QED BY <2>1, VisitBound
  <1>k. KindedIn(work) /\ run.reading \in Files /\ run.reading \in Parsed
    BY WriteFileOp, FileIsNoDir DEF Kinded
  <1>1. PICK x \in Parsed : x = run.reading
    BY <1>k
  <1>p. x \in Files
    BY <1>k, <1>1
  <1> DEFINE stored == Store(work, x, disk[x])
  <1>2. /\ disk[x] \in Hashes \union OddContents
        /\ SeenAs(run, x, run.was, stored) /\ CanReach(x) /\ run.was \in BOOLEAN
    BY <1>0, <1>1, WriteFileOp DEF WriteFile, Runs, CanRead
  <1>3. stored \in Database
    BY <1>p, <1>0, <1>2, StoreOp
  <1>4. x \notin ruleFile => ExactIn(stored, x)
    BY <1>k, <1>0, <1>2, StoreExact
  <1>5. /\ \A g \in Files : g # x => stored.rows[g] = work.rows[g]
        /\ \A p, k : p # x => (<<p, k>> \in stored.issues <=> <<p, k>> \in work.issues)
    BY <1>p, <1>0, <1>2, StoreBeside
  <1>6. \A g \in Files : OwedHere(g, x) => ~run.was \/ x \in run.created
    BY <1>1 DEF OwedHere
  <1>7. f = x => x \notin ruleFile
    BY <1>1 DEF Visited
  <1>8. disk[x] # Absent
    BY <1>2, ContentAssumption DEF OddContents, Absent
  <1>9. run.reading \in {Nobody, x}
    BY <1>1
  <1> HIDE DEF stored
  <1> QED BY <1>p, <1>2, <1>3, <1>4, <1>5, <1>6, <1>7, <1>8, <1>9, <1>b, SeenVisited

LEMMA ProgressVisit ==
  ASSUME Types, Kinded, Straying, Covering, Progress, Visit
  PROVE  Progress'
  <1>1. Bound /\ Running /\ ~run.ending
    BY VisitBound
  <1>2. ASSUME NEW f \in Files, Steadfast(f), Visited(f) PROVE Visited(f)'
    <2>1. ASSUME NEW d \in Dirs, ListDir(d) PROVE Visited(f)'
      BY <1>2, <2>1, ListDirVisited
    <2>2. ASSUME NEW x \in Files, VisitPath(x) PROVE Visited(f)'
      BY <1>2, <2>2, VisitPathVisited
    <2>3. ASSUME NEW x \in Files, ReadFile(x) PROVE Visited(f)'
      BY <1>2, <2>3, ReadFileVisited
    <2>4. CASE WriteFile
      BY <1>2, <2>4, WriteFileVisited
    <2>5. CASE SweepDir
      BY <1>2, <2>5, SweepVisited
    <2> QED BY <2>1, <2>2, <2>3, <2>4, <2>5 DEF Visit
  <1> QED BY <1>1, <1>2, VisitedProgress
-----------------------------------------------------------------------------
(* The end of a run. *)
LEMMA FinishFullConcluded ==
  ASSUME Types, Straying, Covering, FinishFull, NEW f \in Files, Steadfast(f), Visited(f)
  PROVE  Concluded(f)'
  <1>n. f # Nobody /\ DirOf[f] \in Dirs /\ DirOf[f] \notin Files /\ f \notin Dirs
    BY FileIsNoDir
  <1>0. work \in Database /\ Running
    BY FinishFullOp DEF Types, TypeOK, Running
  <1>1. /\ run.kind = "full" /\ run.reading = Nobody
        /\ run.listed = {} /\ run.todo = {}
        /\ UNCHANGED <<disk, denied, ruleFile>>
        /\ work'.rows[f] = IF f \in Missing THEN NoRow ELSE work.rows[f]
        /\ work'.issues = {i \in work.issues : i[1] \notin Missing}
    BY FinishFullOp DEF env
  <1>2. f \in rules.excluded <=> f \in ruleFile
    BY <1>0, SteadfastRules
  <1>3. Passed(f)
    BY <1>1 DEF Visited
  <1>m. /\ f \in Missing <=>
              f \in rules.excluded \/ (f \notin run.seen /\ ~Retained(f, run.unreadable))
        /\ DirOf[f] \in Missing <=> DirOf[f] \notin run.unreadable
    BY <1>n DEF Missing
  <1>4. CASE f \in Missing
    <2>1. disk[f] = Absent \/ f \in ruleFile
      BY <1>n, <1>1, <1>2, <1>3, <1>4, <1>m DEF Passed
    <2>2. FreshRow(f)' = NoRow /\ FreshIssues(f)' = {}
      BY <1>1, <2>1, NothingToStore DEF FreshRow, FreshIssues
    <2>3. ExactIn(work, f)'
      BY <1>1, <1>4, <2>2 DEF ExactIn
    <2> QED BY <2>3 DEF Concluded, Right
  <1>5. CASE f \notin Missing
    <2>1. Own(f)
      BY <1>1, <1>5 DEF Own
    <2>2. /\ ExactIn(work, f) <=> ExactIn(work, f)'
          /\ Unread(f)' <=> Unread(f)
      BY <1>1, <2>1, OwnSame DEF Unread, CanReach
    <2>3. <<f, "read">> \in work.issues <=> <<f, "read">> \in work'.issues
      BY <2>1 DEF Own, IssueKinds
    <2>4. CASE f \in run.seen \/ f \in run.unreadable
      BY <2>2, <2>3, <2>4 DEF Visited, Concluded, Right, Recorded
    <2>5. CASE DirOf[f] \in run.unreadable
      <3>1. <<DirOf[f], "read">> \in work'.issues /\ Unread(f)
        BY <1>1, <1>m, <2>5 DEF Visited, Unread
      <3> QED BY <2>2, <3>1 DEF Concluded, Right, Recorded
    <2> QED BY <1>5, <1>m, <2>4, <2>5 DEF Retained
  <1> QED BY <1>4, <1>5

LEMMA FinishPathsConcluded ==
  ASSUME Types, FinishPaths, NEW f \in Files, Steadfast(f),
         \A g \in Files : Steadfast(g) => Visited(g)
  PROVE  Concluded(f)'
  <1>n. \A g \in Files : g # Nobody /\ DirOf[g] # Nobody /\ g \notin Dirs
    BY FileIsNoDir
  <1>0. work \in Database /\ run \in Runs
    BY DEF Types, TypeOK
  <1>1. /\ run.kind = "paths" /\ run.reading = Nobody /\ run.walk = Nobody
        /\ run.listed = {} /\ run.todo = {}
        /\ UNCHANGED <<disk, denied, ruleFile, owes, dirty, changed>>
    BY FinishPathsOp DEF FinishPaths, Ready, Rest, env, history
  <1>c. run'.covers = run.covers
    BY <1>0 DEF FinishPaths, Runs
  <1>2. PICK dirsGone \in SUBSET {d \in Dirs : \A h \in Under(d) : disk[h] = Absent} :
           LET gone == RenamedAway(work, run.created, dirsGone)
           IN  /\ \A h \in Files : work'.rows[h] = IF h \in gone THEN NoRow ELSE work.rows[h]
               /\ work'.issues = {i \in work.issues : i[1] \notin gone}
    BY FinishPathsOp
  <1> DEFINE gone == RenamedAway(work, run.created, dirsGone)
  <1>3. \A h \in Files \intersect gone : disk[h] = Absent \/ ~CanReach(h)
    BY <1>n DEF RenamedAway, OnDisk, Under
  <1>u. f \notin gone => DirOf[f] \notin gone
    BY <1>n, FileIsNoDir DEF RenamedAway, Under
  <1>4. \A h \in Files : /\ h \notin run.created
                         /\ work.rows[h] # NoRow /\ disk[h] = Absent
                         /\ \E g \in run.created : work.rows[g] = work.rows[h]
                         => h \in gone
    BY DEF RenamedAway, OnDisk
  <1>r. /\ \A h \in Files : work'.rows[h] = IF h \in gone THEN NoRow ELSE work.rows[h]
        /\ work'.issues = {i \in work.issues : i[1] \notin gone}
    BY <1>2
  <1> HIDE DEF gone
  <1>d. \A g \in Files : Steadfast(g) => Right(work, g) \/ \E h \in Files : OwedHere(g, h)
    BY <1>n, <1>1 DEF Visited, Due
  <1>5. CASE f \in gone
    <2>1. CASE disk[f] = Absent
      <3>1. FreshRow(f)' = NoRow /\ FreshIssues(f)' = {}
        BY <1>1, <2>1, NothingToStore DEF FreshRow, FreshIssues
      <3>2. ExactIn(work, f)'
        BY <1>r, <1>5, <3>1 DEF ExactIn
      <3> QED BY <3>2 DEF Concluded, Right
    <2>2. CASE ~CanReach(f)
      <3>1. ~HasRows(work, f)' /\ ~CanReach(f)'
        BY <1>r, <1>1, <1>5, <2>2 DEF HasRows, CanReach
      <3> QED BY <3>1 DEF Concluded, Right, Lost
    <2> QED BY <1>3, <1>5, <2>1, <2>2
  <1>6. CASE f \notin gone
    <2>1. Same(f)
      BY <1>r, <1>u, <1>6 DEF Same, Own
    <2>2. CASE Right(work, f)
      BY <1>1, <2>1, <2>2, SameRight DEF Concluded
    <2>3. ASSUME NEW g \in Files, OwedHere(f, g)
          PROVE  OwedIn(work, f, g)' /\ (g \in run'.covers => g \in changed')
      <3>1. ~HasRows(work, g)
        <4>1. disk[f] = Absent /\ work.rows[f] \in Hashes /\ f \notin run.created
          BY <2>3 DEF OwedHere, Moved, Visited
        <4> QED BY <1>4, <1>6, <2>3, <4>1, ContentAssumption DEF OwedHere
      <3>2. ~HasRows(work, g)'
        BY <1>r, <3>1 DEF HasRows
      <3>3. Moved(f, g)'
        BY <1>1, <2>3 DEF OwedHere, Moved, CanReach
      <3>4. work'.rows[f] = disk'[g]
        BY <1>1, <2>1, <2>3 DEF Same, Own, OwedHere
      <3>5. ~Right(work, g) /\ \A h \in Files : ~OwedHere(g, h)
        <4>1. /\ disk[g] \in Hashes /\ g \notin denied \union ruleFile
              /\ g \in Parsed /\ CanReach(g)
          BY <2>3 DEF OwedHere, Moved
        <4>2. disk[g] # Absent /\ disk[g] # NoRow
          BY <4>1, ContentAssumption
        <4>3. FreshRow(g) = disk[g] /\ work.rows[g] = NoRow
          BY <3>1, <4>1 DEF FreshRow, HasRows
        <4> QED BY <4>1, <4>2, <4>3
               DEF Right, ExactIn, Recorded, Unread, Lost, OwedHere, Moved
      <3>6. g \in run.covers => g \in changed
        BY <1>d, <3>5 DEF Steadfast
      <3> QED BY <1>1, <1>c, <3>2, <3>3, <3>4, <3>6 DEF OwedIn
    <2> QED BY <1>d, <2>2, <2>3 DEF Concluded
  <1> QED BY <1>5, <1>6

LEMMA ProgressFinish ==
  ASSUME Types, Straying, Covering, Progress, FinishFull \/ FinishPaths
  PROVE  Progress'
  <1>1. /\ run \in Runs /\ run' = [run EXCEPT !.ending = TRUE]
        /\ UNCHANGED <<dirty, changed>> /\ ~run.ending /\ Running
    BY DEF Types, TypeOK, FinishFull, FinishPaths, Ready, Rest, history
  <1>2. run'.ending /\ run'.covers = run.covers
    BY <1>1 DEF Runs
  <1>3. \A f \in Files : Steadfast(f)' => Steadfast(f)
    BY <1>1, <1>2 DEF Steadfast
  <1>4. \A f \in Files : Steadfast(f) => Visited(f)
    BY <1>1 DEF Progress
  <1>5. \A f \in Files : Steadfast(f) => Concluded(f)'
    BY <1>4, FinishFullConcluded, FinishPathsConcluded
  <1> QED BY <1>2, <1>3, <1>5 DEF Progress

-----------------------------------------------------------------------------
LEMMA FreshInit == Init => Fresh
  <1> SUFFICES ASSUME Init PROVE Fresh
    OBVIOUS
  <1>1. /\ run.kind = "none" /\ run.unreadable = {} /\ run.walk = Nobody
    BY DEF Init, Idle
  <1>2. Settled
    <2> SUFFICES ASSUME NEW f \in Files, f \notin dirty PROVE ExactIn(db, f)
      BY DEF Settled, Right
    <2>1. disk[f] = Absent /\ db.rows[f] = NoRow /\ db.issues = {}
      BY DEF Init
    <2> QED BY <2>1, NothingToStore DEF ExactIn
  <1>4. Kinded
    BY <1>1 DEF Init, Idle, Kinded, KindedIn
  <1>3. Straying
    BY <1>1 DEF Init, Straying, Astray, Running
  <1> QED BY <1>1, <1>2, <1>3, <1>4 DEF Fresh, Covering, Progress, Running

LEMMA FreshStep ==
  ASSUME Types, Fresh, [Next]_vars
  PROVE  Fresh'
  <1>1. Kinded /\ Settled /\ Straying /\ Covering /\ Progress
    BY DEF Fresh
  <1>2. Kinded' /\ Settled' /\ Straying' /\ Covering'
    BY <1>1, KindedStep, SettledStep, StrayingStep, CoveringStep
  <1>3. Progress'
    <2>1. CASE User
      BY <1>1, <1>2, <2>1, ProgressUser
    <2>2. CASE UNCHANGED vars \/ ReloadElsewhere \/ HoldRules \/ SwapElsewhere
      BY <1>1, <1>2, <2>2, ProgressRules
    <2>3. CASE \/ \E force \in BOOLEAN : BeginFull(force)
               \/ \E P \in Batches, withRules \in BOOLEAN : BeginPaths(P, withRules)
      BY <1>1, <2>3, ProgressBegin
    <2>4. CASE Visit
      BY <1>1, <2>4, ProgressVisit
    <2>5. CASE FinishFull \/ FinishPaths
      BY <1>1, <2>5, ProgressFinish
    <2>6. CASE Commit \/ AbortRun \/ CommitFails \/ Restart
      <3>1. run' = Idle
        BY <2>6 DEF Commit, AbortRun, CommitFails, Restart, Rollback
      <3>2. ~Running'
        BY <3>1, IdleRun DEF Running
      <3> QED BY <3>2, NoProgress
    <2> QED BY <2>1, <2>2, <2>3, <2>4, <2>5, <2>6 DEF Next
  <1> QED BY <1>2, <1>3 DEF Fresh

(* Whatever the user, the rules and the runs do, and however their steps     *)
(* interleave: between runs, each file is stored as a fresh index would store *)
(* it, or a run owes it a visit, or the failure to read it or its directory   *)
(* is on record, or it is out of reach and all of it is gone.                 *)
THEOREM NothingSilentlyStale == Spec => []NoSilentStaleness
  <1>1. Init => Types /\ Fresh
    BY TypesInit, FreshInit
  <1>2. Types /\ Fresh /\ [Next]_vars => Types' /\ Fresh'
    BY TypesStep, FreshStep
  <1>3. Fresh => NoSilentStaleness
    <2> SUFFICES ASSUME Settled, NEW f \in Files, f \notin dirty,
                        ~\E g \in dirty : f \in owes[g]
                 PROVE  Exact(f) \/ Flagged(f) \/ (~CanReach(f) /\ ~HasRows(db, f))
      BY DEF Fresh, NoSilentStaleness
    <2>1. Right(db, f)
      BY DEF Settled, OwedIn, Moved
    <2> QED BY <2>1 DEF Right, ExactIn, Recorded, Lost, Exact, Flagged
  <1> QED BY <1>1, <1>2, <1>3, PTL DEF Spec
=============================================================================
