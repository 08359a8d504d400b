--------------------------- MODULE Reviews_proofs ---------------------------
(***************************************************************************)
(* The review store keeps its promises, for any dashboards, findings,      *)
(* clocks and limits: what is saved is an append-only log whose            *)
(* acknowledged entries stay, the copy is one save behind, temporary and   *)
(* unreadable files are left alone, and a saved decision is the one that   *)
(* applies.                                                                *)
(*                                                                         *)
(* The argument: the lock has one holder (LockInv), so what a save read    *)
(* under it is what its rename replaces, and the new file extends that by  *)
(* one event later than every decision it read (SaveInv); what the machine *)
(* may come back with is a prefix that holds what was acknowledged         *)
(* (SurvivorInv).  In every file the rows are the last events and times    *)
(* increase (HistoryInv), and a page shows a prefix of its finding's       *)
(* events (PageInv): an equal revision under the lock means all of them.   *)
(***************************************************************************)
EXTENDS Reviews, SequenceTheorems, WellFoundedInduction, TLAPS

File   == [rows : [Findings -> Row \cup {NoRow}], history : Seq(Event)]
Drafts == [Findings -> Draft \cup {NoRow}]

\* A save has read the sources and not yet replaced the canonical file.
Saving  == {"copy", "copied", "copySync", "write", "written"}
Holding == Saving \cup {"locked", "sync"}

FileTypes ==
    /\ canonical \in File /\ previous \in File
    /\ survivors \subseteq [canonical : File, previous : File]
    /\ \A d \in survivors \cup {Directory} :
          Len(d.canonical.history) <= MaxRows /\ Len(d.previous.history) <= MaxRows
    /\ draft \in Drafts /\ drafts \in 0 .. MaxDrafts /\ broken \in BOOLEAN
    /\ acked \in 0 .. MaxRows

WriterTypes ==
    /\ lock \subseteq Writers /\ temporary \subseteq Writers
    /\ pc \in [Writers -> Holding \cup {"idle", "asked"}]
    /\ page = [w \in Writers |-> page[w]]
    /\ \A w \in Writers :
          pc[w] # "idle" => page[w].identity \in Findings /\ page[w].fingerprint \in Prints
    /\ change \in [Writers -> States]
    /\ current \in [Writers -> [canonical : File, draft : Drafts, copy : File]]
    /\ next \in [Writers -> File]

\* Whoever is past Lock::acquire is the one holder of the lock.
LockInv == \A w \in Writers : pc[w] \in Holding => lock = {w}

\* The decision in the new file is later than what the older file said.
LaterDecision(w) ==
    LET f == page[w].identity
    IN  \E t \in Times :
          /\ next[w].rows[f] = [state |-> change[w], updated |-> t,
                                fingerprint |-> page[w].fingerprint]
          /\ current[w].draft[f] # NoRow => t > current[w].draft[f].at

\* A save replaces what it read by one event more, and a level copy is there first.
Replaces(w) ==
    /\ ~broken /\ current[w].canonical = canonical
    /\ Len(canonical.history) < MaxRows
    /\ \E e \in Event : next[w].history = Append(canonical.history, e)
    /\ LaterDecision(w)
    /\ pc[w] = "copied" => current[w].copy = canonical
    /\ pc[w] \in {"copySync", "write", "written"} => previous.history = canonical.history

SaveInv == \A w \in Writers : pc[w] \in Saving => Replaces(w)

\* The machine comes back with a prefix that holds everything acknowledged.
SurvivorInv ==
    /\ acked <= Len(canonical.history)
    /\ \A d \in survivors : \E n \in acked .. Len(canonical.history) :
          d.canonical.history = SubSeq(canonical.history, 1, n)

FilesInv  == FileTypes /\ SurvivorInv /\ CopyOneBehind
WriterInv == WriterTypes /\ LockInv /\ SaveInv /\ TemporaryKept

IInv == FilesInv /\ WriterInv

-----------------------------------------------------------------------------
(* Largest, prefixes and logical time.                                     *)

\* A nonempty set of bounded numbers has a largest element.
LEMMA LargestIn ==
  ASSUME NEW n \in Nat, NEW S \in SUBSET (0 .. n), S # {}
  PROVE  Largest(S) \in S /\ \A u \in S : u <= Largest(S)
  <1> DEFINE T == {m \in Nat : n - m \in S}
  <1>1. PICK s \in S : TRUE
    OBVIOUS
  <1>2. n - s \in T
    BY <1>1
  <1>3. PICK m \in T : \A k \in T : ~(<<k, m>> \in OpToRel(<, Nat))
    <2> HIDE DEF T
    <2>1. T \subseteq Nat /\ T # {}
      BY <1>2 DEF T
    <2>2. QED
      BY <2>1, WFMin, NatLessThanWellFounded
  <1>4. \A k \in T : ~(k < m)
    BY <1>3 DEF OpToRel
  <1>5. n - m \in S /\ m \in Nat
    OBVIOUS
  <1>6. \A u \in S : u <= n - m
    <2> TAKE u \in S
    <2>1. u \in 0 .. n /\ n - u \in Nat /\ n - (n - u) = u
      OBVIOUS
    <2>2. n - u \in T
      BY <2>1
    <2>3. ~(n - u < m)
      BY <1>4, <2>2
    <2>4. QED
      BY <1>5, <2>1, <2>3
  <1>7. QED
    BY <1>5, <1>6 DEF Largest

\* What was a prefix before an event is appended is one afterwards.
LEMMA PrefixKept ==
  ASSUME NEW s \in Seq(Event), NEW e \in Event, NEW n \in 0 .. Len(s)
  PROVE  SubSeq(Append(s, e), 1, n) = SubSeq(s, 1, n)
  <1>1. Append(s, e) \in Seq(Event) /\ Len(Append(s, e)) = Len(s) + 1
    OBVIOUS
  <1>2. \A i \in 1 .. Len(s) : Append(s, e)[i] = s[i]
    OBVIOUS
  <1>3. SubSeq(Append(s, e), 1, n) = [i \in 1 .. n |-> Append(s, e)[i]]
    BY <1>1
  <1>4. SubSeq(s, 1, n) = [i \in 1 .. n |-> s[i]]
    OBVIOUS
  <1>5. QED
    BY <1>2, <1>3, <1>4

\* A sequence is a prefix of itself.
LEMMA WholePrefix ==
  ASSUME NEW s \in Seq(Event)
  PROVE  SubSeq(s, 1, Len(s)) = s
  BY SubSeqFull

\* The length of a prefix, and prefixes of prefixes.
LEMMA PrefixLen ==
  ASSUME NEW s \in Seq(Event), NEW n \in 0 .. Len(s)
  PROVE  /\ SubSeq(s, 1, n) \in Seq(Event)
         /\ Len(SubSeq(s, 1, n)) = n
  BY SubSeqProperties

\* The times the sources know of a finding are times, and the latest is one.
LEMMA LatestTimeType ==
  ASSUME NEW c \in File, NEW d \in Drafts, NEW f \in Findings
  PROVE  LET sources == [canonical |-> c, draft |-> d]
         IN  /\ LatestTime(sources, f) \in Times
             /\ d[f] # NoRow => d[f].at <= LatestTime(sources, f)
             /\ \A i \in 1 .. Len(c.history) :
                   c.history[i].identity = f => c.history[i].at <= LatestTime(sources, f)
  <1> DEFINE sources == [canonical |-> c, draft |-> d]
             A == {k.at : k \in UNION {Candidates(sources, f, p) : p \in Prints}}
             B == {sources.canonical.history[i].at :
                      i \in {j \in 1 .. Len(sources.canonical.history) :
                               sources.canonical.history[j].identity = f}}
             C == {sources.draft[g].latest : g \in {h \in {f} : sources.draft[h] # NoRow}}
             S == {0} \cup A \cup B \cup C
  <1>1. \A p \in Prints : \A k \in Candidates(sources, f, p) : k.at \in Times
    <2> SUFFICES ASSUME NEW p \in Prints, NEW k \in Candidates(sources, f, p)
                 PROVE  k.at \in Times
      OBVIOUS
    <2>1. c.rows[f] \in Row \cup {NoRow} /\ d[f] \in Draft \cup {NoRow}
      BY DEF File, Drafts
    <2>2. \/ c.rows[f] # NoRow /\ k.at = c.rows[f].updated
          \/ d[f] # NoRow /\ k.at = d[f].at
      BY DEF Candidates, Rows
    <2>3. QED
      BY <2>1, <2>2 DEF Row, Draft
  <1>2. A \subseteq Times
    BY <1>1
  <1>3. B \subseteq Times
    <2>1. c.history \in Seq(Event)
      BY DEF File
    <2>2. \A i \in 1 .. Len(c.history) : c.history[i] \in Event
      BY <2>1
    <2>3. \A e \in Event : e.at \in Times
      BY DEF Event
    <2>4. QED
      BY <2>2, <2>3
  <1>4. C \subseteq Times
    BY DEF Drafts, Draft
  <1>5. S \in SUBSET (0 .. Latest) /\ S # {} /\ Latest \in Nat
    BY <1>2, <1>3, <1>4, ReviewsAssumption DEF Times
  <1>6. LatestTime(sources, f) = Largest(S)
    BY DEF LatestTime
  <1>7. Largest(S) \in S /\ \A u \in S : u <= Largest(S)
    <2> HIDE DEF S
    <2>1. QED
      BY <1>5, LargestIn
  <1>8. LatestTime(sources, f) \in Times
    BY <1>5, <1>6, <1>7 DEF Times
  <1>9. ASSUME d[f] # NoRow PROVE d[f].at \in S
    <2>1. d[f].fingerprint \in Prints
      BY <1>9 DEF Drafts, Draft
    <2> DEFINE k == [state |-> d[f].state, at |-> d[f].at, format |-> 2,
                     matches |-> d[f].fingerprint = d[f].fingerprint]
    <2>2. k \in Candidates(sources, f, d[f].fingerprint)
      BY <1>9 DEF Candidates
    <2>3. k.at \in A
      BY <2>1, <2>2
    <2>4. QED
      BY <2>3
  <1>10. \A i \in 1 .. Len(c.history) : c.history[i].identity = f => c.history[i].at \in S
    <2> SUFFICES ASSUME NEW i \in 1 .. Len(c.history), c.history[i].identity = f
                 PROVE  c.history[i].at \in B
      OBVIOUS
    <2>1. QED
      OBVIOUS
  <1> HIDE DEF S
  <1>11. QED
    BY <1>6, <1>7, <1>8, <1>9, <1>10

\* Logical time is a time, later than every decision read, unless times ran out.
LEMMA NewTimeLater ==
  ASSUME NEW c \in File, NEW d \in Drafts, NEW f \in Findings, NEW now \in Clock,
         LatestTime([canonical |-> c, draft |-> d], f) # Latest
  PROVE  LET t == NewTime([canonical |-> c, draft |-> d], f, now)
         IN  /\ t \in Times /\ (d[f] # NoRow => t > d[f].at)
             /\ \A i \in 1 .. Len(c.history) :
                   c.history[i].identity = f => c.history[i].at < t
  <1> DEFINE l == LatestTime([canonical |-> c, draft |-> d], f)
  <1>1. /\ l \in Times /\ l # Latest /\ (d[f] # NoRow => d[f].at <= l)
        /\ \A i \in 1 .. Len(c.history) : c.history[i].identity = f => c.history[i].at <= l
    BY LatestTimeType
  <1>2. Latest \in Nat /\ now \in 0 .. Latest
    BY ReviewsAssumption
  <1>3. NewTime([canonical |-> c, draft |-> d], f, now) = Largest({l + 1, now})
    BY DEF NewTime
  <1>4. d[f] # NoRow => d[f].at \in Times
    BY DEF Drafts, Draft
  <1>5. \A i \in 1 .. Len(c.history) : c.history[i].at \in Times
    <2>1. c.history \in Seq(Event)
      BY DEF File
    <2>2. \A i \in 1 .. Len(c.history) : c.history[i] \in Event
      BY <2>1
    <2>3. QED
      BY <2>2 DEF Event
  <1> HIDE DEF l
  <1>6. {l + 1, now} \in SUBSET (0 .. Latest)
    BY <1>1, <1>2 DEF Times
  <1>7. Largest({l + 1, now}) \in {l + 1, now} /\ l + 1 <= Largest({l + 1, now})
    BY <1>2, <1>6, LargestIn
  <1>8. QED
    BY <1>1, <1>2, <1>3, <1>4, <1>5, <1>6, <1>7 DEF Times

\* The state that applies to a finding is a review state.
LEMMA StateOfType ==
  ASSUME NEW c \in File, NEW d \in Drafts, NEW f \in Findings, NEW p
  PROVE  StateOf([canonical |-> c, draft |-> d], f, p) \in States
  <1> DEFINE sources == [canonical |-> c, draft |-> d]
  <1>1. \A k \in Candidates(sources, f, p) : k.state \in States
    <2> SUFFICES ASSUME NEW k \in Candidates(sources, f, p)
                 PROVE  k.state \in States
      OBVIOUS
    <2>1. c.rows[f] \in Row \cup {NoRow} /\ d[f] \in Draft \cup {NoRow}
      BY DEF File, Drafts
    <2>2. \/ c.rows[f] # NoRow /\ k.state = c.rows[f].state
          \/ d[f] # NoRow /\ k.state = d[f].state
      BY DEF Candidates, Rows
    <2>3. QED
      BY <2>1, <2>2 DEF Row, Draft
  <1>2. Winners(sources, f, p) \subseteq Candidates(sources, f, p)
    BY DEF Winners
  <1> HIDE DEF sources
  <1>3. CASE Winners(sources, f, p) = {}
    BY <1>3, ReviewsAssumption DEF StateOf, sources
  <1>4. CASE Winners(sources, f, p) # {}
    <2>1. (CHOOSE k \in Winners(sources, f, p) : TRUE) \in Winners(sources, f, p)
      BY <1>4
    <2>2. QED
      BY <1>1, <1>2, <1>4, <2>1 DEF StateOf, sources
  <1>5. QED
    BY <1>3, <1>4

-----------------------------------------------------------------------------
(* What actions have in common.                                            *)

\* What FilesInv says of the two files as they are.
LEMMA DirectoryFacts ==
  ASSUME FilesInv
  PROVE  /\ Directory.canonical = canonical /\ Directory.previous = previous
         /\ canonical.history \in Seq(Event) /\ previous.history \in Seq(Event)
         /\ Len(canonical.history) <= MaxRows /\ Len(previous.history) <= MaxRows
         /\ Len(canonical.history) \in Len(previous.history) .. Len(previous.history) + 1
         /\ previous.history = SubSeq(canonical.history, 1, Len(previous.history))
  <1>1. Directory.canonical = canonical /\ Directory.previous = previous
    BY DEF Directory
  <1>2. Directory \in survivors \cup {Directory}
    OBVIOUS
  <1>3. QED
    BY <1>1, <1>2 DEF FilesInv, FileTypes, CopyOneBehind, File

\* Whatever leaves the files and the acknowledged count alone keeps FilesInv.
LEMMA FilesStay ==
  ASSUME FilesInv, UNCHANGED <<files, acked>>,
         draft' \in Drafts, drafts' \in 0 .. MaxDrafts, broken' \in BOOLEAN
  PROVE  FilesInv'
  BY DEF FilesInv, FileTypes, SurvivorInv, CopyOneBehind, Directory, files

\* A save that ends, however it ends, keeps what concerns the other writers.
LEMMA LeaveKeeps ==
  ASSUME WriterInv, NEW w \in Writers, Leave(w), temporary' \in SUBSET Writers,
         \A v \in Writers \ {w} :
            /\ pc[v] \in {"copied", "written"} => v \in temporary'
            /\ pc[v] \in Saving => UNCHANGED <<canonical, previous, broken>>
  PROVE  WriterInv'
  <1>1. /\ pc' = [v \in Writers |-> IF v = w THEN "idle" ELSE pc[v]]
        /\ page' = [v \in Writers |-> IF v = w THEN NoPage ELSE page[v]]
        /\ change' = [v \in Writers |-> IF v = w THEN "unreviewed" ELSE change[v]]
        /\ current' = [v \in Writers |-> IF v = w THEN Unread ELSE current[v]]
        /\ next' = [v \in Writers |-> IF v = w THEN Empty ELSE next[v]]
        /\ lock' = lock \ {w}
    BY DEF Leave, Goto, WriterInv, WriterTypes
  <1>2. Empty \in File /\ Unread \in [canonical : File, draft : Drafts, copy : File]
    BY DEF Empty, Unread, File, Drafts
  <1>3. WriterTypes'
    <2>1. "unreviewed" \in States
      BY ReviewsAssumption
    <2>2. pc' \in [Writers -> Holding \cup {"idle", "asked"}] /\ lock' \subseteq Writers
      BY <1>1 DEF WriterInv, WriterTypes
    <2>3. page' = [v \in Writers |-> page'[v]]
      BY <1>1
    <2>4. \A v \in Writers : pc'[v] # "idle" =>
             page'[v].identity \in Findings /\ page'[v].fingerprint \in Prints
      BY <1>1 DEF WriterInv, WriterTypes
    <2>5. change' \in [Writers -> States]
      BY <1>1, <2>1 DEF WriterInv, WriterTypes
    <2>6. /\ current' \in [Writers -> [canonical : File, draft : Drafts, copy : File]]
          /\ next' \in [Writers -> File]
      BY <1>1, <1>2 DEF WriterInv, WriterTypes
    <2>7. QED
      BY <2>2, <2>3, <2>4, <2>5, <2>6 DEF WriterTypes
  <1>4. LockInv'
    BY <1>1 DEF WriterInv, LockInv, Holding, Saving
  <1>5. SaveInv'
    <2> SUFFICES ASSUME NEW v \in Writers, pc'[v] \in Saving
                 PROVE  Replaces(v)'
      BY DEF SaveInv
    <2>1. v # w
      BY <1>1 DEF Saving
    <2>2. /\ pc'[v] = pc[v] /\ page'[v] = page[v] /\ change'[v] = change[v]
          /\ current'[v] = current[v] /\ next'[v] = next[v]
      BY <1>1, <2>1
    <2>3. UNCHANGED <<canonical, previous, broken>>
      BY <2>1, <2>2
    <2>4. LaterDecision(v) => LaterDecision(v)'
      BY <2>2 DEF LaterDecision
    <2>5. QED
      BY <2>2, <2>3, <2>4 DEF WriterInv, SaveInv, Replaces
  <1>6. TemporaryKept'
    BY <1>1 DEF WriterInv, TemporaryKept
  <1>7. QED
    BY <1>3, <1>4, <1>5, <1>6 DEF WriterInv

\* A step of the holder of the lock disturbs its own part only: no other writer
\* is past Lock::acquire.
LEMMA HolderKeeps ==
  ASSUME WriterInv, NEW w \in Writers, pc[w] \in Holding,
         NEW station \in Holding, pc' = [pc EXCEPT ![w] = station], lock' = lock,
         WriterTypes', station \in Saving => Replaces(w)',
         station \in {"copied", "written"} => w \in temporary'
  PROVE  WriterInv'
  <1>1. pc' = [v \in Writers |-> IF v = w THEN station ELSE pc[v]]
    BY DEF WriterInv, WriterTypes
  <1>2. \A v \in Writers : v # w => pc[v] \notin Holding
    BY DEF WriterInv, LockInv
  <1>3. LockInv'
    BY <1>1, <1>2 DEF WriterInv, LockInv
  <1>4. SaveInv'
    BY <1>1, <1>2 DEF SaveInv, Holding
  <1>5. TemporaryKept'
    BY <1>1, <1>2 DEF TemporaryKept, Holding, Saving
  <1>6. QED
    BY <1>3, <1>4, <1>5 DEF WriterInv

-----------------------------------------------------------------------------
(* Init and the actions: one lemma each.                                   *)

LEMMA InitIInv == Init => IInv
  <1> SUFFICES ASSUME Init PROVE IInv
    OBVIOUS
  <1>1. Empty \in File /\ Unread \in [canonical : File, draft : Drafts, copy : File]
    BY DEF Empty, Unread, File, Drafts
  <1>2. canonical = Empty /\ previous = Empty /\ survivors = {Directory} /\ acked = 0
    BY DEF Init
  <1>3. canonical.history = <<>> /\ previous.history = <<>>
    BY <1>2 DEF Empty
  <1>4. Directory.canonical = canonical /\ Directory.previous = previous
        /\ Directory \in [canonical : File, previous : File]
    BY <1>1, <1>2 DEF Directory
  <1>5. FileTypes
    <2>1. draft \in Drafts
      BY DEF Init, Drafts
    <2>2. drafts = MaxDrafts /\ broken = FALSE /\ acked = 0
      BY DEF Init
    <2>3. 0 \in 0 .. MaxRows /\ MaxDrafts \in 0 .. MaxDrafts
      BY ReviewsAssumption
    <2>4. Len(canonical.history) <= MaxRows /\ Len(previous.history) <= MaxRows
      BY <1>3, ReviewsAssumption
    <2>5. QED
      BY <1>1, <1>2, <1>4, <2>1, <2>2, <2>3, <2>4 DEF FileTypes
  <1>6. SubSeq(canonical.history, 1, 0) = canonical.history /\ Len(canonical.history) = 0
    BY <1>3
  <1>7. SurvivorInv
    <2>1. 0 \in acked .. Len(canonical.history)
      BY <1>2, <1>6
    <2>2. QED
      BY <1>2, <1>4, <1>6, <2>1 DEF SurvivorInv
  <1>8. CopyOneBehind
    <2>1. survivors \cup {Directory} = {Directory}
      BY <1>2
    <2>2. Len(canonical.history) \in Len(previous.history) .. Len(previous.history) + 1
      BY <1>3
    <2>3. previous.history = SubSeq(canonical.history, 1, Len(previous.history))
      BY <1>3, <1>6
    <2>4. QED
      BY <1>4, <2>1, <2>2, <2>3 DEF CopyOneBehind
  <1>9. WriterTypes
    <2>1. page = [w \in Writers |-> page[w]]
      BY DEF Init
    <2>2. pc = [w \in Writers |-> "idle"] /\ lock = {} /\ temporary = {}
      BY DEF Init
    <2>3. change \in [Writers -> States]
      BY ReviewsAssumption DEF Init
    <2>4. /\ current \in [Writers -> [canonical : File, draft : Drafts, copy : File]]
          /\ next \in [Writers -> File]
      BY <1>1 DEF Init
    <2>5. QED
      BY <2>1, <2>2, <2>3, <2>4 DEF WriterTypes
  <1>10. LockInv /\ SaveInv /\ TemporaryKept
    BY DEF Init, LockInv, SaveInv, TemporaryKept, Holding, Saving
  <1>11. QED
    BY <1>5, <1>7, <1>8, <1>9, <1>10 DEF IInv, FilesInv, WriterInv

LEMMA OldDecisionKeeps ==
  ASSUME IInv, NEW f \in Findings, OldDecision(f)
  PROVE  IInv'
  <1>1. drafts \in Nat /\ drafts' \in 0 .. MaxDrafts
    BY ReviewsAssumption DEF OldDecision, IInv, FilesInv, FileTypes
  <1>2. PICK s \in States, t \in Clock, p \in Prints :
           draft' = [draft EXCEPT ![f] =
              [state |-> s, at |-> t, fingerprint |-> p,
               latest |-> IF @ = NoRow THEN t ELSE Largest({t, @.latest})]]
    BY DEF OldDecision
  <1>3. t \in 0 .. Latest /\ Latest \in Nat
    BY ReviewsAssumption
  <1>4. draft \in Drafts
    BY DEF IInv, FilesInv, FileTypes
  <1>5. (IF draft[f] = NoRow THEN t ELSE Largest({t, draft[f].latest})) \in Times
    <2>1. CASE draft[f] = NoRow
      BY <2>1, <1>3 DEF Times
    <2>2. CASE draft[f] # NoRow
      <3>1. draft[f].latest \in 0 .. Latest
        BY <2>2, <1>4 DEF Drafts, Draft, Times
      <3>2. {t, draft[f].latest} \in SUBSET (0 .. Latest)
        BY <1>3, <3>1
      <3>3. Largest({t, draft[f].latest}) \in {t, draft[f].latest}
        BY <1>3, <3>2, LargestIn
      <3>4. QED
        BY <2>2, <3>2, <3>3 DEF Times
    <2>3. QED
      BY <2>1, <2>2
  <1>6. [state |-> s, at |-> t, fingerprint |-> p,
         latest |-> IF draft[f] = NoRow THEN t ELSE Largest({t, draft[f].latest})] \in Draft
    BY <1>3, <1>5 DEF Draft, Times
  <1>7. draft' \in Drafts
    BY <1>2, <1>4, <1>6 DEF Drafts
  <1>8. FilesInv'
    BY <1>1, <1>7, FilesStay DEF OldDecision, IInv, FilesInv, FileTypes
  <1>9. WriterInv'
    BY DEF OldDecision, IInv, WriterInv, WriterTypes, LockInv, SaveInv, Replaces,
           LaterDecision, TemporaryKept, files, local
  <1>10. QED
    BY <1>8, <1>9 DEF IInv

LEMMA DamageKeeps ==
  ASSUME IInv, Damage
  PROVE  IInv'
  <1>1. FilesInv'
    BY FilesStay DEF Damage, IInv, FilesInv, FileTypes
  <1>2. \A w \in Writers : pc'[w] \notin Saving
    BY DEF Damage, local, Saving
  <1>3. WriterInv'
    BY <1>2 DEF Damage, IInv, WriterInv, WriterTypes, LockInv, SaveInv, TemporaryKept, local
  <1>4. QED
    BY <1>1, <1>3 DEF IInv

LEMMA LookKeeps ==
  ASSUME IInv, NEW w \in Writers, NEW f \in Findings, NEW p \in Prints, Look(w, f, p)
  PROVE  IInv'
  <1>1. FilesInv'
    BY FilesStay DEF Look, older, IInv, FilesInv, FileTypes
  <1>2. PICK revision, events :
           page' = [page EXCEPT ![w] = [identity |-> f, fingerprint |-> p,
                                        revision |-> revision, events |-> events]]
    BY DEF Look
  <1>3. /\ pc[w] = "idle"
        /\ pc' = [v \in Writers |-> IF v = w THEN "asked" ELSE pc[v]]
        /\ \A v \in Writers : v # w => page'[v] = page[v] /\ change'[v] = change[v]
        /\ page'[w].identity = f /\ page'[w].fingerprint = p
        /\ page' = [v \in Writers |-> page'[v]]
        /\ change' \in [Writers -> States]
    <2>1. page = [v \in Writers |-> page[v]] /\ change \in [Writers -> States]
      BY DEF IInv, WriterInv, WriterTypes
    <2>2. PICK s \in States : change' = [change EXCEPT ![w] = s]
      BY DEF Look
    <2>3. page' = [v \in Writers |->
              IF v = w THEN [identity |-> f, fingerprint |-> p,
                             revision |-> revision, events |-> events]
              ELSE page[v]]
      BY <1>2, <2>1
    <2>4. pc[w] = "idle" /\ pc' = [v \in Writers |-> IF v = w THEN "asked" ELSE pc[v]]
      BY DEF Look, Goto, IInv, WriterInv, WriterTypes
    <2>5. QED
      BY <2>1, <2>2, <2>3, <2>4
  <1>4. WriterTypes'
    BY <1>3 DEF Look, IInv, WriterInv, WriterTypes
  <1>5. LockInv'
    BY <1>3 DEF Look, IInv, WriterInv, LockInv, Holding, Saving
  <1>6. SaveInv'
    BY <1>3 DEF Look, older, files, IInv, WriterInv, SaveInv, Replaces, LaterDecision, Saving
  <1>7. TemporaryKept'
    BY <1>3 DEF Look, IInv, WriterInv, TemporaryKept
  <1>8. QED
    BY <1>1, <1>4, <1>5, <1>6, <1>7 DEF IInv, WriterInv

LEMMA AcquireKeeps ==
  ASSUME IInv, NEW w \in Writers, Acquire(w)
  PROVE  IInv'
  <1>1. FilesInv'
    BY FilesStay DEF Acquire, older, IInv, FilesInv, FileTypes
  <1>2. CASE Leave(w) /\ UNCHANGED temporary
    <2>1. UNCHANGED <<canonical, previous, broken>>
      BY DEF Acquire, files, older
    <2>2. temporary' \in SUBSET Writers
      BY <1>2 DEF IInv, WriterInv, WriterTypes
    <2>3. QED
      BY <1>1, <1>2, <2>1, <2>2, LeaveKeeps DEF IInv, WriterInv, TemporaryKept
  <1>3. CASE /\ lock = {}
             /\ Goto(w, "locked") /\ lock' = {w}
             /\ UNCHANGED <<temporary, page, change, current, next>>
    <2>1. pc' = [v \in Writers |-> IF v = w THEN "locked" ELSE pc[v]] /\ pc[w] = "asked"
      BY <1>3 DEF Acquire, Goto, IInv, WriterInv, WriterTypes
    <2>2. \A v \in Writers : pc[v] \notin Holding
      BY <1>3 DEF IInv, WriterInv, LockInv
    <2>3. WriterTypes'
      BY <1>3, <2>1 DEF IInv, WriterInv, WriterTypes, Holding
    <2>4. LockInv' /\ SaveInv' /\ TemporaryKept'
      BY <1>3, <2>1, <2>2 DEF LockInv, SaveInv, TemporaryKept, Holding, Saving
    <2>5. QED
      BY <1>1, <2>3, <2>4 DEF IInv, WriterInv
  <1>4. QED
    BY <1>2, <1>3 DEF Acquire

LEMMA FailsKeeps ==
  ASSUME IInv, NEW w \in Writers, Fails(w)
  PROVE  IInv'
  <1>1. FilesInv'
    BY FilesStay DEF Fails, older, IInv, FilesInv, FileTypes
  <1>2. UNCHANGED <<canonical, previous, broken>>
    BY DEF Fails, files, older
  <1>3. temporary' \in SUBSET Writers
    BY DEF Fails, IInv, WriterInv, WriterTypes
  <1>4. \A v \in Writers \ {w} : pc[v] \in {"copied", "written"} => v \in temporary'
    BY DEF Fails, IInv, WriterInv, TemporaryKept
  <1>5. QED
    BY <1>1, <1>2, <1>3, <1>4, LeaveKeeps DEF IInv, Fails

LEMMA KilledKeeps ==
  ASSUME IInv, NEW w \in Writers, Killed(w)
  PROVE  IInv'
  <1>1. FilesInv'
    BY FilesStay DEF Killed, older, IInv, FilesInv, FileTypes
  <1>2. UNCHANGED <<canonical, previous, broken>>
    BY DEF Killed, files, older
  <1>3. temporary' \in SUBSET Writers
    BY DEF Killed, IInv, WriterInv, WriterTypes
  <1>4. \A v \in Writers \ {w} : pc[v] \in {"copied", "written"} => v \in temporary'
    BY DEF Killed, IInv, WriterInv, TemporaryKept
  <1>5. QED
    BY <1>1, <1>2, <1>3, <1>4, LeaveKeeps DEF IInv, Killed

LEMMA PrepareKeeps ==
  ASSUME IInv, NEW w \in Writers, Prepare(w)
  PROVE  IInv'
  <1> DEFINE f == page[w].identity
             p == page[w].fingerprint
  <1>1. FilesInv'
    BY FilesStay DEF Prepare, older, IInv, FilesInv, FileTypes
  <1>2. UNCHANGED <<canonical, previous, broken, draft>>
    BY DEF Prepare, files, older
  <1>3. temporary' \in SUBSET Writers
    BY DEF Prepare, IInv, WriterInv, WriterTypes
  <1>4. pc[w] = "locked" /\ pc[w] \in Holding
    BY DEF Prepare, Holding
  <1>5. \A v \in Writers \ {w} : pc[v] \notin Holding
    BY <1>4 DEF IInv, WriterInv, LockInv
  <1>6. CASE ~Readable(Sources) \/ ~Seen(w, Sources) \/ Unchanged(w) \/ Full(f)
    <2>1. Leave(w)
      BY <1>6 DEF Prepare
    <2>2. \A v \in Writers \ {w} : pc[v] \notin {"copied", "written"}
      BY <1>5 DEF Holding, Saving
    <2>3. QED
      BY <1>1, <1>2, <1>3, <2>1, <2>2, LeaveKeeps DEF IInv
  <1>7. CASE ~(~Readable(Sources) \/ ~Seen(w, Sources) \/ Unchanged(w) \/ Full(f))
    <2> DEFINE from == StateOf(Sources, f, p)
    <2>1. PICK now \in Clock :
             next' = [next EXCEPT ![w] = Upsert(canonical, w, NewTime(Sources, f, now), from)]
      BY <1>7 DEF Prepare
    <2>2. /\ current' = [current EXCEPT ![w].canonical = canonical, ![w].draft = draft]
          /\ pc' = [pc EXCEPT ![w] = "copy"] /\ UNCHANGED <<lock, page, change>>
      BY <1>7 DEF Prepare, Goto
    <2>3. /\ canonical \in File /\ draft \in Drafts
          /\ f \in Findings /\ p \in Prints /\ change[w] \in States
          /\ current \in [Writers -> [canonical : File, draft : Drafts, copy : File]]
          /\ next \in [Writers -> File]
      BY <1>4 DEF IInv, FilesInv, FileTypes, WriterInv, WriterTypes
    <2>4. ~broken /\ LatestTime(Sources, f) # Latest /\ Len(canonical.history) # MaxRows
      BY <1>7 DEF Readable, Full
    <2> DEFINE t == NewTime(Sources, f, now)
               row == [state |-> change[w], updated |-> t, fingerprint |-> p]
               event == [identity |-> f, from |-> from, to |-> change[w],
                         at |-> t, fingerprint |-> p]
    <2>5. t \in Times /\ (draft[f] # NoRow => t > draft[f].at)
      <3> HIDE DEF f, p
      <3>1. QED
        BY <2>3, <2>4, NewTimeLater DEF Sources
    <2>6. from \in States
      BY <2>3, StateOfType DEF Sources
    <2>7. row \in Row /\ event \in Event
      <3> HIDE DEF t, f, p, from
      <3>1. QED
        BY <2>3, <2>5, <2>6 DEF Row, Event
    <2> DEFINE new == [rows |-> [canonical.rows EXCEPT ![f] = row],
                       history |-> Append(canonical.history, event)]
    <2>8. next' = [next EXCEPT ![w] = new]
      BY <2>1 DEF Upsert
    <2>9. new \in File /\ new.rows[f] = row
      <3> HIDE DEF row, event, f
      <3>1. canonical.rows \in [Findings -> Row \cup {NoRow}]
            /\ canonical.history \in Seq(Event)
        BY <2>3 DEF File
      <3>2. [canonical.rows EXCEPT ![f] = row] \in [Findings -> Row \cup {NoRow}]
            /\ [canonical.rows EXCEPT ![f] = row][f] = row
        BY <2>3, <2>7, <3>1
      <3>3. Append(canonical.history, event) \in Seq(Event)
        BY <2>7, <3>1
      <3>4. QED
        BY <3>2, <3>3 DEF File
    <2>10. next' \in [Writers -> File] /\ next'[w] = new
      <3> HIDE DEF new
      <3>1. QED
        BY <2>3, <2>8, <2>9
    <2>11. /\ current' \in [Writers -> [canonical : File, draft : Drafts, copy : File]]
           /\ current'[w].canonical = canonical /\ current'[w].draft = draft
      BY <2>2, <2>3
    <2>12. WriterTypes'
      <3>1. pc' \in [Writers -> Holding \cup {"idle", "asked"}]
        BY <2>2 DEF IInv, WriterInv, WriterTypes, Holding, Saving
      <3>2. \A v \in Writers : pc'[v] # "idle" => pc[v] # "idle"
        BY <1>4, <2>2 DEF IInv, WriterInv, WriterTypes
      <3>3. QED
        BY <1>3, <2>2, <2>10, <2>11, <3>1, <3>2 DEF IInv, WriterInv, WriterTypes
    <2>13. Replaces(w)'
      <3> HIDE DEF t, row, event, from
      <3>1. Len(canonical'.history) < MaxRows
        BY <1>2, <2>4, DirectoryFacts, ReviewsAssumption DEF IInv
      <3>2. \E e \in Event : next'[w].history = Append(canonical'.history, e)
        BY <1>2, <2>7, <2>10
      <3>3. LaterDecision(w)'
        BY <2>2, <2>5, <2>9, <2>10, <2>11 DEF LaterDecision, row
      <3>4. pc'[w] = "copy"
        BY <2>2 DEF IInv, WriterInv, WriterTypes
      <3>5. QED
        BY <1>2, <2>4, <2>11, <3>1, <3>2, <3>3, <3>4 DEF Replaces
    <2>14. "copy" \in Holding
      BY DEF Holding, Saving
    <2>15. WriterInv'
      BY <1>4, <2>2, <2>12, <2>13, <2>14, HolderKeeps DEF IInv
    <2>16. QED
      BY <1>1, <2>15 DEF IInv
  <1>8. QED
    BY <1>6, <1>7

LEMMA CreateTemporaryKeeps ==
  ASSUME IInv, NEW w \in Writers, CreateTemporary(w)
  PROVE  IInv'
  <1>1. FilesInv'
    BY FilesStay DEF CreateTemporary, older, IInv, FilesInv, FileTypes
  <1>2. /\ UNCHANGED <<canonical, previous, broken, draft, lock, page, change, next>>
        /\ temporary' = temporary \cup {w}
    BY DEF CreateTemporary, files, older
  <1>3. pc[w] \in Saving /\ pc[w] \in Holding
    BY DEF CreateTemporary, Holding, Saving
  <1>4. Replaces(w)
    BY <1>3 DEF IInv, WriterInv, SaveInv
  <1>5. canonical \in File
    BY DEF IInv, FilesInv, FileTypes
  <1>6. CASE /\ pc[w] = "copy" /\ canonical # Empty /\ Goto(w, "copied")
             /\ current' = [current EXCEPT ![w].copy = canonical]
    <2>1. pc' = [pc EXCEPT ![w] = "copied"] /\ pc'[w] = "copied" /\ "copied" \in Holding
      BY <1>6 DEF Goto, IInv, WriterInv, WriterTypes, Holding, Saving
    <2>2. /\ current' \in [Writers -> [canonical : File, draft : Drafts, copy : File]]
          /\ current'[w].canonical = current[w].canonical
          /\ current'[w].draft = current[w].draft /\ current'[w].copy = canonical
      BY <1>5, <1>6 DEF IInv, WriterInv, WriterTypes
    <2>3. WriterTypes'
      BY <1>2, <1>3, <2>1, <2>2 DEF IInv, WriterInv, WriterTypes, Holding, Saving
    <2>4. Replaces(w)'
      BY <1>2, <1>4, <2>1, <2>2 DEF Replaces, LaterDecision
    <2>5. WriterInv'
      BY <1>2, <1>3, <2>1, <2>3, <2>4, HolderKeeps DEF IInv
    <2>6. QED
      BY <1>1, <2>5 DEF IInv
  <1>7. CASE /\ (pc[w] = "copy" /\ canonical = Empty) \/ pc[w] = "write"
             /\ Goto(w, "written")
             /\ UNCHANGED current
    <2>1. pc' = [pc EXCEPT ![w] = "written"] /\ pc'[w] = "written" /\ "written" \in Holding
      BY <1>7 DEF Goto, IInv, WriterInv, WriterTypes, Holding, Saving
    <2>2. WriterTypes'
      BY <1>2, <1>3, <1>7, <2>1 DEF IInv, WriterInv, WriterTypes, Holding, Saving
    <2>3. previous.history = canonical.history
      <3>1. CASE pc[w] = "write"
        BY <1>4, <3>1 DEF Replaces
      <3>2. CASE canonical = Empty
        <4>1. canonical.history = <<>> /\ Len(canonical.history) = 0
          BY <3>2 DEF Empty
        <4>2. Len(canonical.history) \in Len(previous.history) .. Len(previous.history) + 1
          BY DirectoryFacts DEF IInv
        <4>3. previous.history \in Seq(Event)
          BY DirectoryFacts DEF IInv
        <4>4. QED
          BY <4>1, <4>2, <4>3
      <3>3. QED
        BY <1>7, <3>1, <3>2
    <2>4. Replaces(w)'
      BY <1>2, <1>4, <1>7, <2>1, <2>3 DEF Replaces, LaterDecision
    <2>5. WriterInv'
      BY <1>2, <1>3, <2>1, <2>2, <2>4, HolderKeeps DEF IInv
    <2>6. QED
      BY <1>1, <2>5 DEF IInv
  <1>8. QED
    BY <1>6, <1>7 DEF CreateTemporary

LEMMA RenameKeeps ==
  ASSUME IInv, NEW w \in Writers, Rename(w)
  PROVE  IInv'
  <1>1. /\ UNCHANGED <<broken, draft, drafts, lock, page, change, current, next, acked>>
        /\ temporary' = temporary \ {w} /\ survivors' = survivors \cup {Directory'}
    BY DEF Rename, older
  <1>2. pc[w] \in Saving /\ pc[w] \in Holding
    BY DEF Rename, Holding, Saving
  <1>3. Replaces(w)
    BY <1>2 DEF IInv, WriterInv, SaveInv
  <1>4. FileTypes /\ SurvivorInv /\ CopyOneBehind
    BY DEF IInv, FilesInv
  <1>5. Directory'.canonical = canonical' /\ Directory'.previous = previous'
    BY DEF Directory
  <1>6. ASSUME canonical' \in File, previous' \in File,
               Len(canonical'.history) <= MaxRows, Len(previous'.history) <= MaxRows
        PROVE  FileTypes'
    <2>1. Directory' \in [canonical : File, previous : File]
      BY <1>6 DEF Directory
    <2>2. survivors' \subseteq [canonical : File, previous : File]
      BY <1>1, <1>4, <2>1 DEF FileTypes
    <2>3. \A d \in survivors' \cup {Directory'} :
             Len(d.canonical.history) <= MaxRows /\ Len(d.previous.history) <= MaxRows
      BY <1>1, <1>4, <1>5, <1>6 DEF FileTypes
    <2>4. QED
      BY <1>1, <1>4, <1>6, <2>2, <2>3 DEF FileTypes
  <1>7. ASSUME Len(canonical'.history) \in
                  Len(previous'.history) .. Len(previous'.history) + 1,
               previous'.history = SubSeq(canonical'.history, 1, Len(previous'.history))
        PROVE  CopyOneBehind'
    BY <1>1, <1>4, <1>5, <1>7 DEF CopyOneBehind
  <1>8. CASE /\ pc[w] = "copied" /\ Goto(w, "copySync")
             /\ previous' = current[w].copy /\ UNCHANGED canonical
    <2>1. previous' = canonical /\ canonical' = canonical
      BY <1>3, <1>8 DEF Replaces
    <2>2. canonical \in File /\ canonical.history \in Seq(Event)
          /\ Len(canonical.history) <= MaxRows
      BY <1>4, DirectoryFacts DEF FileTypes, IInv
    <2>3. FileTypes'
      BY <1>6, <2>1, <2>2
    <2>4. Len(canonical.history) \in Nat
          /\ SubSeq(canonical.history, 1, Len(canonical.history)) = canonical.history
      BY <2>2, WholePrefix
    <2>5. CopyOneBehind'
      BY <1>7, <2>1, <2>4
    <2>6. SurvivorInv'
      <3>1. acked \in Nat /\ acked <= Len(canonical.history)
        BY <1>4, ReviewsAssumption DEF FileTypes, SurvivorInv
      <3>2. Len(canonical.history) \in acked .. Len(canonical.history)
        BY <2>4, <3>1
      <3>3. QED
        BY <1>1, <1>4, <1>5, <2>1, <2>4, <3>1, <3>2 DEF SurvivorInv
    <2>7. pc' = [pc EXCEPT ![w] = "copySync"] /\ pc'[w] = "copySync"
          /\ "copySync" \in Holding
      BY <1>8 DEF Goto, IInv, WriterInv, WriterTypes, Holding, Saving
    <2>8. WriterTypes'
      BY <1>1, <1>2, <2>7 DEF IInv, WriterInv, WriterTypes, Holding, Saving
    <2>9. Replaces(w)'
      BY <1>1, <1>3, <2>1, <2>7 DEF Replaces, LaterDecision
    <2>10. WriterInv'
      BY <1>1, <1>2, <2>7, <2>8, <2>9, HolderKeeps DEF IInv
    <2>11. QED
      BY <2>3, <2>5, <2>6, <2>10 DEF IInv, FilesInv
  <1>9. CASE /\ pc[w] = "written" /\ Goto(w, "sync")
             /\ canonical' = next[w] /\ UNCHANGED previous
    <2> DEFINE h == canonical.history
    <2>1. PICK e \in Event : canonical'.history = Append(h, e)
      BY <1>3, <1>9 DEF Replaces
    <2>2. previous'.history = h /\ Len(h) < MaxRows
      BY <1>3, <1>9 DEF Replaces
    <2>3. h \in Seq(Event) /\ Len(h) \in Nat /\ acked \in Nat /\ acked <= Len(h)
      BY <1>4, DirectoryFacts, ReviewsAssumption DEF FileTypes, SurvivorInv, IInv
    <2>4. canonical' \in File /\ previous' \in File
      BY <1>4, <1>9 DEF IInv, WriterInv, WriterTypes, FileTypes
    <2>5. canonical'.history \in Seq(Event) /\ Len(canonical'.history) = Len(h) + 1
      BY <2>1, <2>3
    <2>6. FileTypes'
      BY <1>6, <2>2, <2>3, <2>4, <2>5, ReviewsAssumption
    <2>7. \A n \in 0 .. Len(h) : SubSeq(canonical'.history, 1, n) = SubSeq(h, 1, n)
      BY <2>1, <2>3, PrefixKept
    <2>8. SubSeq(h, 1, Len(h)) = h
          /\ SubSeq(canonical'.history, 1, Len(canonical'.history)) = canonical'.history
      BY <2>3, <2>5, WholePrefix
    <2>9. CopyOneBehind'
      BY <1>7, <2>2, <2>3, <2>5, <2>7, <2>8
    <2>10. SurvivorInv'
      <3>1. acked' <= Len(canonical'.history)
        BY <1>1, <2>3, <2>5
      <3>2. \A d \in survivors : \E n \in acked' .. Len(canonical'.history) :
               d.canonical.history = SubSeq(canonical'.history, 1, n)
        <4> SUFFICES ASSUME NEW d \in survivors
                     PROVE  \E n \in acked' .. Len(canonical'.history) :
                               d.canonical.history = SubSeq(canonical'.history, 1, n)
          OBVIOUS
        <4>1. PICK n \in acked .. Len(h) : d.canonical.history = SubSeq(h, 1, n)
          BY <1>4 DEF SurvivorInv
        <4>2. n \in 0 .. Len(h) /\ n \in acked' .. Len(canonical'.history)
          BY <1>1, <2>3, <2>5, <4>1
        <4>3. QED
          BY <2>7, <4>1, <4>2
      <3>3. Len(canonical'.history) \in acked' .. Len(canonical'.history)
        BY <1>1, <2>3, <2>5
      <3>4. QED
        BY <1>1, <1>5, <2>8, <3>1, <3>2, <3>3 DEF SurvivorInv
    <2>11. pc' = [pc EXCEPT ![w] = "sync"] /\ "sync" \in Holding /\ "sync" \notin Saving
      BY <1>9 DEF Goto, Holding, Saving
    <2>12. WriterTypes'
      BY <1>1, <1>2, <2>11 DEF IInv, WriterInv, WriterTypes, Holding, Saving
    <2>13. WriterInv'
      BY <1>1, <1>2, <2>11, <2>12, HolderKeeps DEF IInv
    <2>14. QED
      BY <2>6, <2>9, <2>10, <2>13 DEF IInv, FilesInv
  <1>10. QED
    BY <1>8, <1>9 DEF Rename

LEMMA SyncDirectoryKeeps ==
  ASSUME IInv, NEW w \in Writers, SyncDirectory(w)
  PROVE  IInv'
  <1>1. /\ UNCHANGED <<canonical, previous, broken, draft, drafts, temporary>>
        /\ survivors' = {Directory} /\ Directory' = Directory
    BY DEF SyncDirectory, older, Directory
  <1>2. FileTypes /\ SurvivorInv /\ CopyOneBehind
    BY DEF IInv, FilesInv
  <1>3. /\ canonical.history \in Seq(Event) /\ Len(canonical.history) \in Nat
        /\ Directory.canonical = canonical
        /\ acked \in Nat /\ acked <= Len(canonical.history)
        /\ Len(canonical.history) <= MaxRows
    BY <1>2, DirectoryFacts, ReviewsAssumption DEF FileTypes, SurvivorInv, IInv
  <1>4. acked' \in {acked, Len(canonical.history)}
    BY DEF SyncDirectory
  <1>5. FilesInv'
    <2>1. acked' \in 0 .. MaxRows /\ acked' <= Len(canonical.history)
      BY <1>3, <1>4, ReviewsAssumption
    <2>2. Directory \in [canonical : File, previous : File]
      BY <1>2 DEF FileTypes, Directory
    <2>3. FileTypes'
      BY <1>1, <1>2, <2>1, <2>2 DEF FileTypes
    <2>4. CopyOneBehind'
      BY <1>1, <1>2 DEF CopyOneBehind
    <2>5. Len(canonical.history) \in acked' .. Len(canonical.history)
      BY <1>3, <1>4
    <2>6. SurvivorInv'
      BY <1>1, <1>3, <2>1, <2>5, WholePrefix DEF SurvivorInv
    <2>7. QED
      BY <2>3, <2>4, <2>6 DEF FilesInv
  <1>6. CASE pc[w] = "copySync"
    <2>1. /\ pc' = [pc EXCEPT ![w] = "write"] /\ "write" \in Holding
          /\ UNCHANGED <<lock, page, change, current, next, acked>>
      BY <1>6 DEF SyncDirectory, Goto, Holding, Saving
    <2>2. pc'[w] = "write" /\ pc[w] \in Saving /\ pc[w] \in Holding
      BY <1>6, <2>1 DEF IInv, WriterInv, WriterTypes, Holding, Saving
    <2>3. WriterTypes'
      BY <1>1, <1>6, <2>1 DEF IInv, WriterInv, WriterTypes, Holding, Saving
    <2>4. Replaces(w)'
      BY <1>1, <1>6, <2>1, <2>2 DEF IInv, WriterInv, SaveInv, Replaces, LaterDecision
    <2>5. WriterInv'
      BY <1>1, <2>1, <2>2, <2>3, <2>4, HolderKeeps DEF IInv
    <2>6. QED
      BY <1>5, <2>5 DEF IInv
  <1>7. CASE pc[w] = "sync"
    <2>1. Leave(w)
      BY <1>7 DEF SyncDirectory
    <2>2. temporary' \in SUBSET Writers
      BY <1>1 DEF IInv, WriterInv, WriterTypes
    <2>3. QED
      BY <1>1, <1>5, <2>1, <2>2, LeaveKeeps DEF IInv, WriterInv, TemporaryKept
  <1>8. QED
    BY <1>6, <1>7 DEF SyncDirectory

LEMMA PowerLossKeeps ==
  ASSUME IInv, PowerLoss
  PROVE  IInv'
  <1>1. PICK d \in survivors :
           canonical' = d.canonical /\ previous' = d.previous /\ survivors' = {d}
    BY DEF PowerLoss
  <1>2. FileTypes /\ SurvivorInv /\ CopyOneBehind
    BY DEF IInv, FilesInv
  <1>3. d \in [canonical : File, previous : File] /\ Directory' = d
    BY <1>1, <1>2 DEF FileTypes, Directory
  <1>4. UNCHANGED <<draft, drafts, broken, temporary, acked>>
    BY DEF PowerLoss, older
  <1>5. FileTypes'
    BY <1>1, <1>2, <1>3, <1>4 DEF FileTypes
  <1>6. CopyOneBehind'
    BY <1>1, <1>2, <1>3 DEF CopyOneBehind
  <1>7. SurvivorInv'
    <2>1. PICK n \in acked .. Len(canonical.history) :
             d.canonical.history = SubSeq(canonical.history, 1, n)
      BY <1>2 DEF SurvivorInv
    <2>2. canonical.history \in Seq(Event) /\ acked \in Nat
      BY <1>2, DirectoryFacts, ReviewsAssumption DEF FileTypes, IInv
    <2>3. n \in 0 .. Len(canonical.history)
      BY <2>1, <2>2
    <2>4. canonical'.history \in Seq(Event) /\ Len(canonical'.history) = n
      BY <1>1, <2>1, <2>2, <2>3, PrefixLen
    <2>5. SubSeq(canonical'.history, 1, n) = canonical'.history
      BY <2>4, WholePrefix
    <2>6. acked' <= n /\ n \in acked' .. n
      BY <1>4, <2>1, <2>2
    <2>7. QED
      BY <1>1, <2>4, <2>5, <2>6 DEF SurvivorInv
  <1>8. WriterInv'
    <2>1. Empty \in File /\ Unread \in [canonical : File, draft : Drafts, copy : File]
      BY DEF Empty, Unread, File, Drafts
    <2>2. pc' = [w \in Writers |-> "idle"] /\ lock' = {}
          /\ page' = [w \in Writers |-> NoPage] /\ change' = [w \in Writers |-> "unreviewed"]
          /\ current' = [w \in Writers |-> Unread] /\ next' = [w \in Writers |-> Empty]
      BY DEF PowerLoss
    <2>3. page' = [w \in Writers |-> page'[w]]
      BY <2>2
    <2>4. WriterTypes'
      BY <1>4, <2>1, <2>2, <2>3, ReviewsAssumption DEF IInv, WriterInv, WriterTypes
    <2>5. LockInv' /\ SaveInv' /\ TemporaryKept'
      BY <2>2 DEF LockInv, SaveInv, TemporaryKept, Holding, Saving
    <2>6. QED
      BY <2>4, <2>5 DEF WriterInv
  <1>9. QED
    BY <1>5, <1>6, <1>7, <1>8 DEF IInv, FilesInv

-----------------------------------------------------------------------------
LEMMA StepIInv == IInv /\ [Next]_vars => IInv'
  <1> SUFFICES ASSUME IInv, [Next]_vars PROVE IInv'
    OBVIOUS
  <1>1. CASE Next
    BY <1>1, OldDecisionKeeps, DamageKeeps, PowerLossKeeps, LookKeeps, AcquireKeeps,
       PrepareKeeps, CreateTemporaryKeeps, RenameKeeps, SyncDirectoryKeeps, FailsKeeps,
       KilledKeeps DEF Next
  <1>2. CASE UNCHANGED vars
    <2>1. FilesInv'
      BY <1>2, FilesStay DEF IInv, FilesInv, FileTypes, vars, older
    <2>2. WriterInv'
      BY <1>2 DEF IInv, WriterInv, WriterTypes, LockInv, SaveInv, Replaces, LaterDecision,
                  TemporaryKept, vars, files, older, local
    <2>3. QED
      BY <2>1, <2>2 DEF IInv
  <1>3. QED
    BY <1>1, <1>2

\* The inductive invariant holds in every reachable state.
THEOREM Invariance == Spec => []IInv
  BY InitIInv, StepIInv, PTL DEF Spec

\* Everything keeps its type: logical times stay below the last one, and the
\* history within its rows, because a save is refused when either is used up.
THEOREM TypeCorrect == Spec => []TypeOK
  <1>1. IInv => TypeOK
    <2> SUFFICES ASSUME IInv PROVE TypeOK
      OBVIOUS
    <2>1. Directory \in [canonical : File, previous : File]
      BY DEF IInv, FilesInv, FileTypes, Directory
    <2>2. \A d \in survivors \cup {Directory} : WellFormed(d.canonical) /\ WellFormed(d.previous)
      BY <2>1 DEF IInv, FilesInv, FileTypes, WellFormed, File
    <2>3. QED
      BY <2>2 DEF IInv, FilesInv, FileTypes, WriterInv, WriterTypes, TypeOK, Drafts,
                  Holding, Saving
  <1>2. QED
    BY <1>1, Invariance, PTL

\* The copy is level with the canonical file or one save behind it, in every
\* pair of files the machine may come back with (store.rs, publish).
THEOREM CopyStaysBehind == Spec => []CopyOneBehind
  <1>1. IInv => CopyOneBehind
    BY DEF IInv, FilesInv
  <1>2. QED
    BY <1>1, Invariance, PTL

\* No writer's cleanup takes the temporary file another is about to rename.
THEOREM TemporaryStays == Spec => []TemporaryKept
  <1>1. IInv => TemporaryKept
    BY DEF IInv, WriterInv
  <1>2. QED
    BY <1>1, Invariance, PTL

\* What a step does to the history and to the acknowledged count.
LEMMA HistoryStep ==
  ASSUME IInv, [Next]_vars
  PROVE  \/ UNCHANGED <<canonical.history, acked>>
         \/ /\ ~broken /\ UNCHANGED acked
            /\ \E e \in Event : canonical'.history = Append(canonical.history, e)
         \/ acked' = Len(canonical.history) /\ UNCHANGED canonical.history
         \/ /\ UNCHANGED acked
            /\ \E n \in acked .. Len(canonical.history) :
                  canonical'.history = SubSeq(canonical.history, 1, n)
  <1>1. CASE \E w \in Writers : Rename(w)
    <2>1. PICK w \in Writers : Rename(w)
      BY <1>1
    <2>2. UNCHANGED acked
      BY <2>1 DEF Rename
    <2>3. CASE UNCHANGED canonical
      BY <2>2, <2>3
    <2>4. CASE pc[w] = "written" /\ canonical' = next[w]
      BY <2>2, <2>4 DEF IInv, WriterInv, SaveInv, Replaces, Saving
    <2>5. QED
      BY <2>1, <2>3, <2>4 DEF Rename
  <1>2. CASE \E w \in Writers : SyncDirectory(w)
    BY <1>2 DEF SyncDirectory
  <1>3. CASE PowerLoss
    BY <1>3 DEF PowerLoss, IInv, FilesInv, SurvivorInv
  <1>4. ASSUME \/ \E f \in Findings : OldDecision(f)
               \/ Damage
               \/ \E w \in Writers, f \in Findings, p \in Prints : Look(w, f, p)
               \/ \E w \in Writers : Acquire(w) \/ Prepare(w) \/ CreateTemporary(w)
                                     \/ Fails(w) \/ Killed(w)
               \/ UNCHANGED vars
        PROVE  UNCHANGED <<canonical, acked>>
    BY <1>4 DEF OldDecision, Damage, Look, Acquire, Prepare, CreateTemporary, Fails, Killed,
                vars, files
  <1>5. QED
    BY <1>1, <1>2, <1>3, <1>4 DEF Next

\* Saved decisions are an append-only log whose acknowledged entries stay, for
\* any number of writers, deaths and power cuts.
THEOREM LogImplemented == Spec => LogSpec
  <1>1. Init => Log!Init
    BY DEF Init, Empty, Log!Init
  <1>2. IInv /\ [Next]_vars => [Log!Next]_<<canonical.history, acked>>
    BY HistoryStep DEF Log!Next, Log!Decide, Log!Acknowledge, Log!Vanish
  <1>3. QED
    BY <1>1, <1>2, Invariance, PTL DEF Spec, LogSpec, Log!Spec

\* While a review file cannot be read no decision is added (reviews/store.rs, load).
THEOREM UnreadableKept == Spec => BrokenFilesKept
  <1>1. IInv /\ [Next]_vars => [Len(canonical'.history) > Len(canonical.history) => ~broken]_vars
    <2> SUFFICES ASSUME IInv, [Next]_vars, Len(canonical'.history) > Len(canonical.history)
                 PROVE  ~broken
      OBVIOUS
    <2>1. canonical.history \in Seq(Event) /\ acked \in Nat
      BY DirectoryFacts, ReviewsAssumption DEF IInv, FilesInv, FileTypes
    <2>2. ~UNCHANGED canonical.history
      BY <2>1
    <2>3. \A n \in acked .. Len(canonical.history) :
             canonical'.history # SubSeq(canonical.history, 1, n)
      BY <2>1, PrefixLen
    <2>4. QED
      BY <2>2, <2>3, HistoryStep
  <1>2. QED
    BY <1>1, Invariance, PTL DEF Spec, BrokenFilesKept

\* A row later than the older file's decision is the one winner of its finding.
LEMMA LaterWins ==
  ASSUME NEW c, NEW d \in Drafts, NEW f \in Findings, NEW p, NEW s, NEW t \in Times,
         c.rows[f] = [state |-> s, updated |-> t, fingerprint |-> p],
         c.rows[f] # NoRow,
         d[f] # NoRow => t > d[f].at
  PROVE  StateOf([canonical |-> c, draft |-> d], f, p) = s
  <1> DEFINE sources == [canonical |-> c, draft |-> d]
             k == [state |-> s, at |-> t, format |-> 3, matches |-> p = p]
             o == [state |-> d[f].state, at |-> d[f].at, format |-> 2,
                   matches |-> d[f].fingerprint = p]
  <1>1. Candidates(sources, f, p) = {k} \cup {o : g \in {h \in {f} : d[h] # NoRow}}
    BY DEF Candidates, Rows
  <1>2. d[f] # NoRow => d[f].at \in Times
    BY DEF Drafts, Draft
  <1>3. k \in Candidates(sources, f, p)
    BY <1>1
  <1>4. \A e \in Candidates(sources, f, p) \ {k} : t > e.at /\ e.at \in Times
    BY <1>1, <1>2
  <1>5. k.at = t /\ k.state = s
    OBVIOUS
  <1> HIDE DEF k, o, sources
  <1>6. k \in Winners(sources, f, p)
    BY <1>3, <1>4, <1>5 DEF Winners, Precedes
  <1>7. \A e \in Winners(sources, f, p) : e = k
    <2> SUFFICES ASSUME NEW e \in Winners(sources, f, p), e # k PROVE FALSE
      OBVIOUS
    <2>1. e \in Candidates(sources, f, p) /\ Precedes(e, k)
      BY <1>3 DEF Winners
    <2>2. t > e.at /\ e.at \in Times
      BY <1>4, <2>1
    <2>3. t \in Nat /\ e.at \in Nat
      BY <2>2, ReviewsAssumption DEF Times
    <2>4. e.at >= k.at
      BY <1>5, <2>1, <2>3 DEF Precedes
    <2>5. QED
      BY <1>5, <2>2, <2>3, <2>4
  <1>8. (CHOOSE e \in Winners(sources, f, p) : TRUE) = k
    BY <1>6, <1>7
  <1>9. QED
    BY <1>5, <1>6, <1>8 DEF StateOf, sources

\* A saved decision is the one that applies, whatever the clocks said: logical
\* time puts it after every decision the save read (resolve.rs, precedence).
THEOREM DecisionsTakeEffect == Spec => SavedDecisionApplies
  <1>1. IInv /\ [Next]_vars =>
           [\A w \in Writers :
              (pc[w] = "written" /\ Rename(w) /\ draft = current[w].draft) =>
                 StateOf([canonical |-> canonical', draft |-> draft],
                         page[w].identity, page[w].fingerprint) = change[w]]_vars
    <2> SUFFICES ASSUME IInv, NEW w \in Writers,
                        pc[w] = "written", Rename(w), draft = current[w].draft
                 PROVE  StateOf([canonical |-> canonical', draft |-> draft],
                                page[w].identity, page[w].fingerprint) = change[w]
      OBVIOUS
    <2> DEFINE f == page[w].identity
               p == page[w].fingerprint
    <2>1. canonical' = next[w]
      BY DEF Rename
    <2>2. Replaces(w)
      BY DEF IInv, WriterInv, SaveInv, Saving
    <2>3. f \in Findings /\ draft \in Drafts
      BY DEF IInv, FilesInv, FileTypes, WriterInv, WriterTypes
    <2>4. PICK t \in Times :
             /\ next[w].rows[f] = [state |-> change[w], updated |-> t, fingerprint |-> p]
             /\ draft[f] # NoRow => t > draft[f].at
      BY <2>2 DEF Replaces, LaterDecision
    <2>5. next[w].rows[f] # NoRow
      BY <2>4 DEF NoRow
    <2> HIDE DEF f, p
    <2>6. StateOf([canonical |-> next[w], draft |-> draft], f, p) = change[w]
      BY <2>3, <2>4, <2>5, LaterWins
    <2>7. QED
      BY <2>1, <2>6 DEF f, p
  <1>2. QED
    BY <1>1, Invariance, PTL DEF Spec, SavedDecisionApplies
-----------------------------------------------------------------------------
(* The history and the rows, and what a person has seen of them.           *)

\* The events of a finding among the first n.
UpTo(history, n, f) == [i \in {j \in 1 .. n : history[j].identity = f} |-> history[i]]

\* What Revision says of a finding the older file knows nothing about.
RevisionFrom(events) ==
    IF DOMAIN events = {} THEN {}
    ELSE {<<3, events[Largest(DOMAIN events)].to, events[Largest(DOMAIN events)].at>>}

\* Every file the machine may come back with is consistent, and so is the one
\* a save is about to put there.
HistoryInv ==
    /\ \A d \in survivors \cup {Directory} : Consistent(d.canonical)
    /\ \A w \in Writers : pc[w] \in Saving => Consistent(next[w])

\* A page shows the history as it was, and still is once the save has checked.
Shows(w) ==
    LET f == page[w].identity
    IN  /\ \E n \in 0 .. Len(canonical.history) :
              page[w].events = UpTo(canonical.history, n, f)
        /\ draft[f] = NoRow =>
              /\ page[w].revision = RevisionFrom(page[w].events)
              /\ pc[w] \in Saving => page[w].events = EventsOf(canonical.history, f)

PageInv == \A w \in Writers : pc[w] # "idle" => Shows(w)

\* Of a file's events about a finding, the last one is among them.
LEMMA LastEvent ==
  ASSUME NEW s \in Seq(Event), NEW n \in 0 .. Len(s), NEW f, DOMAIN UpTo(s, n, f) # {}
  PROVE  LET l == Largest(DOMAIN UpTo(s, n, f))
         IN  /\ l \in 1 .. n /\ s[l].identity = f /\ UpTo(s, n, f)[l] = s[l]
             /\ \A i \in 1 .. n : s[i].identity = f => i <= l
  <1> DEFINE D == {j \in 1 .. n : s[j].identity = f}
  <1>1. DOMAIN UpTo(s, n, f) = D /\ \A i \in D : UpTo(s, n, f)[i] = s[i]
    BY DEF UpTo
  <1>2. D \in SUBSET (0 .. n) /\ D # {} /\ n \in Nat
    BY <1>1
  <1>3. Largest(D) \in D /\ \A u \in D : u <= Largest(D)
    <2> HIDE DEF D
    <2>1. QED
      BY <1>2, LargestIn
  <1>4. QED
    BY <1>1, <1>3

\* All of a history is its first Len(history) events.
LEMMA AllEvents ==
  ASSUME NEW s, NEW f
  PROVE  EventsOf(s, f) = UpTo(s, Len(s), f)
  BY DEF EventsOf, UpTo

\* Appending an event does not change what was there.
LEMMA UpToAppend ==
  ASSUME NEW s \in Seq(Event), NEW e \in Event, NEW n \in 0 .. Len(s), NEW f
  PROVE  UpTo(Append(s, e), n, f) = UpTo(s, n, f)
  <1>1. \A i \in 1 .. n : Append(s, e)[i] = s[i]
    OBVIOUS
  <1>2. QED
    BY <1>1 DEF UpTo

\* Two pages of a consistent history with one last event are the same page.
LEMMA SameLast ==
  ASSUME NEW c \in File, Consistent(c), NEW n \in 0 .. Len(c.history), NEW f \in Findings,
         RevisionFrom(UpTo(c.history, n, f)) = RevisionFrom(EventsOf(c.history, f))
  PROVE  UpTo(c.history, n, f) = EventsOf(c.history, f)
  <1> DEFINE s == c.history
             m == Len(s)
             seen == UpTo(s, n, f)
             all == UpTo(s, m, f)
             k == Largest(DOMAIN seen)
             l == Largest(DOMAIN all)
  <1>1. s \in Seq(Event) /\ m \in Nat /\ n \in 0 .. m /\ m \in 0 .. m
    BY DEF File
  <1>2. EventsOf(s, f) = all
    BY AllEvents
  <1>3. /\ DOMAIN seen = {j \in 1 .. n : s[j].identity = f}
        /\ DOMAIN all = {j \in 1 .. m : s[j].identity = f}
    BY DEF UpTo
  <1>4. \A i, j \in DOMAIN all : i < j => all[i].at < all[j].at
    BY <1>2 DEF Consistent
  <1>5. RevisionFrom(seen) = RevisionFrom(all)
    BY <1>2
  <1>6. ASSUME NEW i \in DOMAIN all PROVE i \in DOMAIN seen
    <2>1. DOMAIN seen # {} /\ seen[k].at = all[l].at
      <3> HIDE DEF seen, all, k, l
      <3>1. RevisionFrom(all) = {<<3, all[l].to, all[l].at>>}
        BY <1>6 DEF RevisionFrom, l
      <3>2. DOMAIN seen # {}
        BY <1>5, <3>1 DEF RevisionFrom
      <3>3. RevisionFrom(seen) = {<<3, seen[k].to, seen[k].at>>}
        BY <3>2 DEF RevisionFrom, k
      <3>4. <<3, seen[k].to, seen[k].at>> = <<3, all[l].to, all[l].at>>
        BY <1>5, <3>1, <3>3
      <3>5. QED
        BY <3>2, <3>4
    <2>2. k \in 1 .. n /\ s[k].identity = f /\ seen[k] = s[k]
      <3> HIDE DEF s
      <3>1. QED
        BY <1>1, <2>1, LastEvent
    <2>3. /\ l \in 1 .. m /\ s[l].identity = f /\ all[l] = s[l]
          /\ \A j \in 1 .. m : s[j].identity = f => j <= l
      <3> HIDE DEF s
      <3>1. m \in 0 .. Len(s) /\ DOMAIN all # {}
        BY <1>1, <1>6
      <3>2. QED
        BY <1>1, <3>1, LastEvent
    <2> HIDE DEF s, m, seen, all, k, l
    <2>4. k \in DOMAIN all /\ l \in DOMAIN all /\ i \in 1 .. m /\ s[i].identity = f
      BY <1>1, <1>3, <1>6, <2>2, <2>3
    <2>5. all[k] = s[k]
      BY <2>4 DEF all, UpTo
    <2>6. s[k].at \in Nat
      <3>1. s[k] \in Event
        BY <1>1, <2>2 DEF m
      <3>2. QED
        BY <3>1, ReviewsAssumption DEF Event, Times
    <2>7. k = l
      BY <1>1, <1>4, <2>1, <2>2, <2>3, <2>4, <2>5, <2>6
    <2>8. QED
      BY <1>1, <1>3, <2>2, <2>3, <2>4, <2>7
  <1>7. DOMAIN seen = DOMAIN all
    <2>1. DOMAIN seen \subseteq DOMAIN all
      BY <1>1, <1>3
    <2>2. QED
      BY <1>6, <2>1
  <1>8. QED
    BY <1>2, <1>3, <1>7 DEF UpTo

\* Without a decision in the older file, the revision is that of the last event.
LEMMA RevisionIsLast ==
  ASSUME NEW c \in File, Consistent(c), NEW d \in Drafts, NEW f \in Findings, NEW p,
         d[f] = NoRow
  PROVE  Revision([canonical |-> c, draft |-> d], f, p) = RevisionFrom(EventsOf(c.history, f))
  <1> DEFINE sources == [canonical |-> c, draft |-> d]
             row == c.rows[f]
             k == [state |-> row.state, at |-> row.updated, format |-> 3,
                   matches |-> row.fingerprint = p]
             events == EventsOf(c.history, f)
             last == events[Largest(DOMAIN events)]
  <1>1. Candidates(sources, f, p) = {k : g \in {f} \cap Rows(c)}
    BY DEF Candidates
  <1>2. CASE f \notin Rows(c)
    <2>1. DOMAIN events = {}
      BY <1>2 DEF Consistent
    <2>2. Winners(sources, f, p) = {}
      BY <1>1, <1>2 DEF Winners
    <2>3. QED
      BY <2>1, <2>2 DEF Revision, RevisionFrom
  <1>3. CASE f \in Rows(c)
    <2>1. DOMAIN events # {} /\ row = [state |-> last.to, updated |-> last.at,
                                       fingerprint |-> last.fingerprint]
      BY <1>3 DEF Consistent
    <2>2. k.format = 3 /\ k.state = last.to /\ k.at = last.at
      BY <2>1
    <2>3. Candidates(sources, f, p) = {k}
      BY <1>1, <1>3
    <2> HIDE DEF k, sources, row, last, events
    <2>4. Winners(sources, f, p) = {k}
      BY <2>3 DEF Winners
    <2>5. Revision(sources, f, p) = {<<3, last.to, last.at>>}
      BY <2>2, <2>4 DEF Revision
    <2>6. QED
      BY <2>1, <2>5 DEF RevisionFrom, sources, last, events
  <1>4. QED
    BY <1>2, <1>3

\* A new row with its event, later than those before, leaves a file consistent.
LEMMA UpsertConsistent ==
  ASSUME NEW c \in File, Consistent(c), NEW e \in Event,
         \A i \in 1 .. Len(c.history) : c.history[i].identity = e.identity =>
                                           c.history[i].at < e.at
  PROVE  Consistent([rows |-> [c.rows EXCEPT ![e.identity] =
                                 [state |-> e.to, updated |-> e.at,
                                  fingerprint |-> e.fingerprint]],
                     history |-> Append(c.history, e)])
  <1> DEFINE s == c.history
             m == Len(s)
             t == Append(s, e)
             row == [state |-> e.to, updated |-> e.at, fingerprint |-> e.fingerprint]
             new == [rows |-> [c.rows EXCEPT ![e.identity] = row], history |-> t]
  <1>1. /\ s \in Seq(Event) /\ t \in Seq(Event) /\ m \in Nat /\ Len(t) = m + 1
        /\ t[m + 1] = e /\ \A i \in 1 .. m : t[i] = s[i]
        /\ c.rows \in [Findings -> Row \cup {NoRow}] /\ e.identity \in Findings
    BY DEF File, Event
  <1>2. row # NoRow
    BY DEF NoRow
  <1> SUFFICES ASSUME NEW f \in Findings
               PROVE  LET events == EventsOf(new.history, f)
                          last   == events[Largest(DOMAIN events)]
                      IN  /\ f \in Rows(new) <=> DOMAIN events # {}
                          /\ \A i, j \in DOMAIN events : i < j => events[i].at < events[j].at
                          /\ f \in Rows(new) =>
                               new.rows[f] = [state |-> last.to, updated |-> last.at,
                                              fingerprint |-> last.fingerprint]
    BY DEF Consistent
  <1> DEFINE D == {j \in 1 .. m : s[j].identity = f}
             E == {j \in 1 .. m + 1 : t[j].identity = f}
             old == EventsOf(s, f)
             events == EventsOf(t, f)
  <1>3. /\ DOMAIN old = D /\ \A i \in D : old[i] = s[i]
        /\ DOMAIN events = E /\ \A i \in E : events[i] = t[i]
    BY <1>1 DEF EventsOf
  <1>4. /\ f \in Rows(c) <=> D # {}
        /\ \A i, j \in D : i < j => s[i].at < s[j].at
        /\ f \in Rows(c) => c.rows[f] = [state |-> s[Largest(D)].to, updated |-> s[Largest(D)].at,
                                         fingerprint |-> s[Largest(D)].fingerprint]
    <2>1. /\ f \in Rows(c) <=> DOMAIN old # {}
          /\ \A i, j \in DOMAIN old : i < j => old[i].at < old[j].at
          /\ f \in Rows(c) =>
               c.rows[f] = [state |-> old[Largest(DOMAIN old)].to,
                            updated |-> old[Largest(DOMAIN old)].at,
                            fingerprint |-> old[Largest(DOMAIN old)].fingerprint]
      BY DEF Consistent
    <2>2. D # {} => Largest(D) \in D
      <3>1. D \in SUBSET (0 .. m) /\ m \in Nat
        BY <1>1
      <3> HIDE DEF D
      <3>2. QED
        BY <3>1, LargestIn
    <2> HIDE DEF D, old
    <2>3. QED
      BY <1>3, <2>1, <2>2
  <1>5. new.rows = [c.rows EXCEPT ![e.identity] = row] /\ new.history = t
    OBVIOUS
  <1>6. CASE f # e.identity
    <2>1. E = D
      BY <1>1, <1>6
    <2>2. new.rows[f] = c.rows[f] /\ (f \in Rows(new) <=> f \in Rows(c))
      BY <1>1, <1>5, <1>6 DEF Rows
    <2>3. \A i \in E : events[i] = s[i]
      BY <1>1, <1>3, <2>1
    <2>4. D # {} => Largest(D) \in D
      <3>1. D \in SUBSET (0 .. m) /\ m \in Nat
        BY <1>1
      <3> HIDE DEF D
      <3>2. QED
        BY <3>1, LargestIn
    <2>5. EventsOf(new.history, f) = events
      BY <1>5
    <2> HIDE DEF D, E, events, new, row, t, s, m
    <2>6. QED
      BY <1>3, <1>4, <2>1, <2>2, <2>3, <2>4, <2>5
  <1>7. CASE f = e.identity
    <2>1. m + 1 \in E /\ \A i \in E : i # m + 1 => i \in D /\ i < m + 1
      BY <1>1, <1>7
    <2>2. Largest(E) = m + 1
      <3>1. E \in SUBSET (0 .. m + 1) /\ m + 1 \in Nat /\ E # {}
        BY <1>1, <2>1
      <3>2. Largest(E) \in E /\ \A u \in E : u <= Largest(E)
        <4> HIDE DEF E
        <4>1. QED
          BY <3>1, LargestIn
      <3>3. Largest(E) # m + 1 => Largest(E) \in 1 .. m + 1 /\ Largest(E) < m + 1
        BY <2>1, <3>2
      <3> HIDE DEF E
      <3>4. QED
        BY <1>1, <2>1, <3>2, <3>3
    <2>3. new.rows[f] = row /\ f \in Rows(new)
      BY <1>1, <1>2, <1>5, <1>7 DEF Rows
    <2>4. ASSUME NEW i \in E, NEW j \in E, i < j PROVE t[i].at < t[j].at
      <3>1. i \in D /\ i < m + 1 /\ (j = m + 1 \/ j \in D)
        BY <1>1, <2>1, <2>4
      <3>2. CASE j = m + 1
        BY <1>1, <1>7, <3>1, <3>2
      <3>3. CASE j \in D
        BY <1>1, <1>4, <2>4, <3>1, <3>3
      <3>4. QED
        BY <3>1, <3>2, <3>3
    <2>5. events[m + 1] = e
      BY <1>1, <1>3, <2>1
    <2>6. EventsOf(new.history, f) = events
      BY <1>5
    <2> HIDE DEF D, E, events, new, t, s, m
    <2>7. QED
      BY <1>3, <2>1, <2>2, <2>3, <2>4, <2>5, <2>6
  <1>8. QED
    BY <1>6, <1>7

\* The canonical file is one of those.
LEMMA CanonicalConsistent ==
  ASSUME HistoryInv
  PROVE  Consistent(canonical)
  <1>1. Directory \in survivors \cup {Directory} /\ Directory.canonical = canonical
    BY DEF Directory
  <1>2. QED
    BY <1>1 DEF HistoryInv

\* So is the file before the first save, or in place of one that is broken.
LEMMA EmptyConsistent ==
  Empty \in File /\ Unread.draft \in Drafts /\ Consistent(Empty)
  <1>1. \A f \in Findings : f \notin Rows(Empty) /\ DOMAIN EventsOf(Empty.history, f) = {}
    BY DEF Rows, Empty, EventsOf
  <1>2. QED
    BY <1>1 DEF Consistent, Empty, Unread, File, Drafts

\* A step that leaves the canonical file alone and starts no save leaves the
\* history as it was seen.
LEMMA QuietKeeps ==
  ASSUME HistoryInv, PageInv, WriterTypes, UNCHANGED canonical,
         survivors' \subseteq survivors \cup {Directory'},
         \A f \in Findings : draft'[f] = NoRow => draft[f] = NoRow,
         \A w \in Writers : pc'[w] # "idle" =>
            /\ pc[w] # "idle" /\ page'[w] = page[w]
            /\ pc'[w] \in Saving => pc[w] \in Saving /\ next'[w] = next[w]
  PROVE  HistoryInv' /\ PageInv'
  <1>1. "idle" \notin Saving
    BY DEF Saving
  <1>2. HistoryInv'
    <2>1. Directory.canonical = canonical /\ Directory'.canonical = canonical'
      BY DEF Directory
    <2>2. \A d \in survivors' \cup {Directory'} : Consistent(d.canonical)
      BY <2>1 DEF HistoryInv
    <2>3. \A w \in Writers : pc'[w] \in Saving => Consistent(next'[w])
      BY <1>1 DEF HistoryInv
    <2>4. QED
      BY <2>2, <2>3 DEF HistoryInv
  <1>3. PageInv'
    <2> SUFFICES ASSUME NEW w \in Writers, pc'[w] # "idle"
                 PROVE  Shows(w)'
      BY DEF PageInv
    <2>1. Shows(w) /\ page[w].identity \in Findings
      BY DEF PageInv, WriterTypes
    <2>2. QED
      BY <2>1 DEF Shows
  <1>4. QED
    BY <1>2, <1>3

LEMMA LookShows ==
  ASSUME IInv, HistoryInv, PageInv,
         NEW w \in Writers, NEW f \in Findings, NEW p \in Prints, Look(w, f, p)
  PROVE  HistoryInv' /\ PageInv'
  <1>1. PICK sources \in Loaded :
           page' = [page EXCEPT ![w] =
              [identity |-> f, fingerprint |-> p, revision |-> Revision(sources, f, p),
               events |-> EventsOf(sources.canonical.history, f)]]
    BY DEF Look
  <1> DEFINE seen == [identity |-> f, fingerprint |-> p, revision |-> Revision(sources, f, p),
                      events |-> EventsOf(sources.canonical.history, f)]
  <1>2. /\ UNCHANGED <<canonical, survivors, draft, next>> /\ Directory' = Directory
        /\ pc' = [v \in Writers |-> IF v = w THEN "asked" ELSE pc[v]]
        /\ page' = [v \in Writers |-> IF v = w THEN seen ELSE page[v]]
    BY <1>1 DEF Look, Goto, IInv, WriterInv, WriterTypes, files, older, Directory
  <1>3. HistoryInv'
    BY <1>2 DEF HistoryInv, Saving
  <1>4. ASSUME NEW v \in Writers, pc'[v] # "idle"
        PROVE  Shows(v)'
    <2>1. CASE v # w
      BY <1>2, <1>4, <2>1 DEF PageInv, Shows
    <2>2. CASE v = w
      <3>1. canonical \in File /\ draft \in Drafts /\ Consistent(canonical)
        BY CanonicalConsistent DEF IInv, FilesInv, FileTypes
      <3>2. PICK c \in {Empty, canonical}, d \in {draft, Unread.draft} :
               sources = [canonical |-> c, draft |-> d]
        BY <1>1 DEF Loaded, Sources
      <3>3. c \in File /\ Consistent(c) /\ d \in Drafts
        BY <3>1, <3>2, EmptyConsistent
      <3>4. draft[f] = NoRow => d[f] = NoRow
        BY <3>2 DEF Unread
      <3>5. draft[f] = NoRow =>
               Revision(sources, f, p) = RevisionFrom(EventsOf(c.history, f))
        BY <3>2, <3>3, <3>4, RevisionIsLast
      <3>6. \E n \in 0 .. Len(canonical.history) :
               EventsOf(c.history, f) = UpTo(canonical.history, n, f)
        <4>1. CASE c = canonical
          <5>1. Len(canonical.history) \in 0 .. Len(canonical.history)
            BY <3>1 DEF File
          <5>2. QED
            BY <4>1, <5>1, AllEvents
        <4>2. CASE c = Empty
          <5>1. c.history = <<>> /\ Len(c.history) = 0 /\ 0 \in 0 .. Len(canonical.history)
            BY <3>1, <4>2 DEF Empty, File
          <5>2. UpTo(c.history, 0, f) = UpTo(canonical.history, 0, f)
            BY DEF UpTo
          <5>3. QED
            BY <5>1, <5>2, AllEvents
        <4>3. QED
          BY <3>2, <4>1, <4>2
      <3>7. page'[w] = seen /\ pc'[w] \notin Saving
        BY <1>2 DEF Saving
      <3>8. seen.identity = f /\ seen.revision = Revision(sources, f, p)
            /\ seen.events = EventsOf(c.history, f)
        BY <3>2
      <3> HIDE DEF seen
      <3>9. QED
        BY <1>2, <2>2, <3>5, <3>6, <3>7, <3>8 DEF Shows
    <2>3. QED
      BY <2>1, <2>2
  <1>5. QED
    BY <1>3, <1>4 DEF PageInv

\* A save that goes on has a consistent file to write, and a page that is current.
LEMMA PrepareShows ==
  ASSUME IInv, HistoryInv, PageInv, NEW w \in Writers, Prepare(w)
  PROVE  HistoryInv' /\ PageInv'
  <1> DEFINE f == page[w].identity
             p == page[w].fingerprint
             refused == ~Readable(Sources) \/ ~Seen(w, Sources) \/ Unchanged(w) \/ Full(f)
  <1>1. /\ UNCHANGED <<canonical, survivors, draft>> /\ Directory' = Directory
        /\ pc[w] = "locked" /\ WriterTypes
    BY DEF Prepare, files, older, Directory, IInv, WriterInv
  <1>2. CASE refused
    <2>1. Leave(w)
      BY <1>2 DEF Prepare
    <2>2. \A v \in Writers : pc'[v] # "idle" =>
             pc'[v] = pc[v] /\ page'[v] = page[v] /\ next'[v] = next[v]
      BY <1>1, <2>1 DEF Leave, Goto, WriterTypes
    <2>3. QED
      BY <1>1, <2>2, QuietKeeps
  <1>3. CASE ~refused
    <2> DEFINE from == StateOf(Sources, f, p)
    <2>1. PICK now \in Clock :
             next' = [next EXCEPT ![w] = Upsert(canonical, w, NewTime(Sources, f, now), from)]
      BY <1>3 DEF Prepare
    <2>2. pc' = [pc EXCEPT ![w] = "copy"] /\ UNCHANGED page
      BY <1>3 DEF Prepare, Goto
    <2>3. /\ canonical \in File /\ draft \in Drafts /\ Consistent(canonical)
          /\ f \in Findings /\ p \in Prints /\ change[w] \in States
      BY <1>1, CanonicalConsistent DEF IInv, FilesInv, FileTypes, WriterTypes
    <2>4. LatestTime(Sources, f) # Latest /\ Revision(Sources, f, p) = page[w].revision
      BY <1>3 DEF Full, Seen
    <2> DEFINE t == NewTime(Sources, f, now)
               event == [identity |-> f, from |-> from, to |-> change[w],
                         at |-> t, fingerprint |-> p]
    <2>5. /\ t \in Times
          /\ \A i \in 1 .. Len(canonical.history) :
                canonical.history[i].identity = f => canonical.history[i].at < t
      <3> HIDE DEF f, p
      <3>1. QED
        BY <2>3, <2>4, NewTimeLater DEF Sources
    <2>6. from \in States
      BY <2>3, StateOfType DEF Sources
    <2>7. event \in Event
      <3> HIDE DEF t, f, p, from
      <3>1. QED
        BY <2>3, <2>5, <2>6 DEF Event
    <2>8. event.identity = f /\ event.to = change[w] /\ event.at = t /\ event.fingerprint = p
      OBVIOUS
    <2>9. Upsert(canonical, w, t, from) =
             [rows |-> [canonical.rows EXCEPT ![event.identity] =
                          [state |-> event.to, updated |-> event.at,
                           fingerprint |-> event.fingerprint]],
              history |-> Append(canonical.history, event)]
      BY <2>8 DEF Upsert
    <2>10. Consistent(Upsert(canonical, w, t, from))
      <3> HIDE DEF event, t, from, f, p
      <3>1. QED
        BY <2>3, <2>5, <2>7, <2>8, <2>9, UpsertConsistent
    <2>11. HistoryInv'
      <3>1. \A v \in Writers \ {w} : pc'[v] = pc[v] /\ next'[v] = next[v]
        BY <1>1, <2>1, <2>2 DEF WriterTypes
      <3>2. next'[w] = Upsert(canonical, w, t, from)
        BY <1>1, <2>1 DEF WriterTypes
      <3> HIDE DEF t, from
      <3>3. QED
        BY <1>1, <2>10, <3>1, <3>2 DEF HistoryInv
    <2>12. ASSUME NEW v \in Writers, pc'[v] # "idle"
           PROVE  Shows(v)'
      <3>1. CASE v # w
        BY <1>1, <2>2, <2>12, <3>1 DEF PageInv, Shows, WriterTypes
      <3>2. CASE v = w
        <4>1. Shows(w)
          BY <1>1 DEF PageInv
        <4>2. PICK n \in 0 .. Len(canonical.history) :
                 page[w].events = UpTo(canonical.history, n, f)
          BY <4>1 DEF Shows
        <4>3. ASSUME draft[f] = NoRow
              PROVE  page[w].events = EventsOf(canonical.history, f)
          <5>1. RevisionFrom(EventsOf(canonical.history, f)) = RevisionFrom(page[w].events)
            BY <2>3, <2>4, <4>1, <4>3, RevisionIsLast DEF Shows, Sources
          <5> HIDE DEF f
          <5>2. QED
            BY <2>3, <4>2, <5>1, SameLast
        <4>4. QED
          BY <1>1, <2>2, <3>2, <4>1, <4>3 DEF Shows
      <3>3. QED
        BY <3>1, <3>2
    <2>13. QED
      BY <2>11, <2>12 DEF PageInv
  <1>4. QED
    BY <1>2, <1>3

\* The new file is the one that was found consistent; others' pages are of its past.
LEMMA RenameShows ==
  ASSUME IInv, HistoryInv, PageInv, NEW w \in Writers, Rename(w)
  PROVE  HistoryInv' /\ PageInv'
  <1>1. /\ UNCHANGED <<draft, page, next>> /\ survivors' = survivors \cup {Directory'}
        /\ WriterTypes /\ LockInv /\ SaveInv
    BY DEF Rename, older, IInv, WriterInv
  <1>2. CASE pc[w] = "copied"
    <2>1. pc' = [pc EXCEPT ![w] = "copySync"] /\ UNCHANGED canonical
      BY <1>2 DEF Rename, Goto
    <2>2. \A v \in Writers : pc'[v] # "idle" =>
             pc[v] # "idle" /\ (pc'[v] \in Saving => pc[v] \in Saving)
      BY <1>1, <1>2, <2>1 DEF WriterTypes, Saving
    <2>3. QED
      BY <1>1, <2>1, <2>2, QuietKeeps
  <1>3. CASE pc[w] = "written"
    <2>1. pc' = [pc EXCEPT ![w] = "sync"] /\ canonical' = next[w]
      BY <1>3 DEF Rename, Goto
    <2>2. \A v \in Writers : pc'[v] \notin Saving /\ (pc'[v] # "idle" => pc[v] # "idle")
      <3>1. \A v \in Writers \ {w} : pc[v] \notin Saving
        BY <1>1, <1>3 DEF LockInv, Holding, Saving
      <3>2. QED
        BY <1>1, <1>3, <2>1, <3>1 DEF WriterTypes, Saving
    <2>3. HistoryInv'
      <3>1. Consistent(next[w]) /\ Directory'.canonical = canonical'
        BY <1>3 DEF HistoryInv, Saving, Directory
      <3>2. QED
        BY <1>1, <2>1, <2>2, <3>1 DEF HistoryInv
    <2>4. ASSUME NEW v \in Writers, pc'[v] # "idle"
          PROVE  Shows(v)'
      <3>1. PICK e \in Event : canonical'.history = Append(canonical.history, e)
        BY <1>1, <1>3, <2>1 DEF SaveInv, Replaces, Saving
      <3>2. canonical.history \in Seq(Event)
        BY DEF IInv, FilesInv, FileTypes, File
      <3>3. Shows(v)
        BY <2>2, <2>4 DEF PageInv
      <3>4. PICK n \in 0 .. Len(canonical.history) :
               page[v].events = UpTo(canonical.history, n, page[v].identity)
        BY <3>3 DEF Shows
      <3>5. n \in 0 .. Len(canonical'.history)
        BY <3>1, <3>2
      <3>6. UpTo(canonical'.history, n, page[v].identity) = page[v].events
        BY <3>1, <3>2, <3>4, UpToAppend
      <3>7. QED
        BY <1>1, <2>2, <3>3, <3>5, <3>6 DEF Shows
    <2>5. QED
      BY <2>3, <2>4 DEF PageInv
  <1>4. QED
    BY <1>2, <1>3 DEF Rename

LEMMA PowerLossShows ==
  ASSUME HistoryInv, PowerLoss
  PROVE  HistoryInv' /\ PageInv'
  <1>1. PICK d \in survivors : canonical' = d.canonical /\ survivors' = {d}
    BY DEF PowerLoss
  <1>2. \A w \in Writers : pc'[w] = "idle"
    BY DEF PowerLoss
  <1>3. Directory'.canonical = canonical'
    BY DEF Directory
  <1>4. QED
    BY <1>1, <1>2, <1>3 DEF HistoryInv, PageInv, Saving

\* Every other step is quiet.
LEMMA QuietSteps ==
  ASSUME IInv, HistoryInv, PageInv,
         \/ \E f \in Findings : OldDecision(f)
         \/ Damage
         \/ \E w \in Writers : \/ Acquire(w) \/ CreateTemporary(w) \/ SyncDirectory(w)
                               \/ Fails(w) \/ Killed(w)
         \/ UNCHANGED vars
  PROVE  HistoryInv' /\ PageInv'
  <1>1. WriterTypes /\ draft \in Drafts
    BY DEF IInv, WriterInv, FilesInv, FileTypes
  <1>2. ASSUME NEW f \in Findings, OldDecision(f)
        PROVE  HistoryInv' /\ PageInv'
    <2>1. UNCHANGED <<canonical, survivors, pc, page, next>>
      BY <1>2 DEF OldDecision, files, local
    <2>2. \A g \in Findings : draft'[g] = NoRow => draft[g] = NoRow
      <3>1. PICK s \in States, t \in Clock, p \in Prints :
               draft' = [draft EXCEPT ![f] =
                  [state |-> s, at |-> t, fingerprint |-> p,
                   latest |-> IF @ = NoRow THEN t ELSE Largest({t, @.latest})]]
        BY <1>2 DEF OldDecision
      <3>2. draft'[f] # NoRow
        BY <1>1, <3>1 DEF Drafts, NoRow
      <3>3. QED
        BY <1>1, <3>1, <3>2 DEF Drafts
    <2>3. QED
      BY <1>1, <2>1, <2>2, QuietKeeps
  <1>3. ASSUME Damage \/ UNCHANGED vars
        PROVE  HistoryInv' /\ PageInv'
    BY <1>1, <1>3, QuietKeeps DEF Damage, vars, files, older, local
  <1>4. ASSUME NEW w \in Writers, Leave(w), UNCHANGED <<canonical, draft>>,
               survivors' \subseteq survivors \cup {Directory'}
        PROVE  HistoryInv' /\ PageInv'
    <2>1. \A v \in Writers : pc'[v] # "idle" =>
             pc'[v] = pc[v] /\ page'[v] = page[v] /\ next'[v] = next[v]
      BY <1>1, <1>4 DEF Leave, Goto, WriterTypes
    <2>2. QED
      BY <1>1, <1>4, <2>1, QuietKeeps
  <1>5. ASSUME NEW w \in Writers, NEW station, pc' = [pc EXCEPT ![w] = station],
               pc[w] # "idle", station \in Saving => pc[w] \in Saving,
               UNCHANGED <<canonical, draft, page, next>>,
               survivors' \subseteq survivors \cup {Directory'}
        PROVE  HistoryInv' /\ PageInv'
    <2>1. \A v \in Writers : pc'[v] # "idle" =>
             pc[v] # "idle" /\ (pc'[v] \in Saving => pc[v] \in Saving)
      BY <1>1, <1>5 DEF WriterTypes
    <2>2. QED
      BY <1>1, <1>5, <2>1, QuietKeeps
  <1>6. ASSUME NEW w \in Writers, Acquire(w) \/ Fails(w) \/ Killed(w)
        PROVE  HistoryInv' /\ PageInv'
    BY <1>4, <1>5, <1>6 DEF Acquire, Fails, Killed, Goto, files, older, Saving
  <1>7. ASSUME NEW w \in Writers, CreateTemporary(w)
        PROVE  HistoryInv' /\ PageInv'
    BY <1>5, <1>7 DEF CreateTemporary, Goto, files, older, Saving
  <1>8. ASSUME NEW w \in Writers, SyncDirectory(w)
        PROVE  HistoryInv' /\ PageInv'
    <2>1. UNCHANGED <<canonical, draft>> /\ survivors' = {Directory'}
      BY <1>8 DEF SyncDirectory, older, Directory
    <2>2. QED
      BY <1>4, <1>5, <1>8, <2>1 DEF SyncDirectory, Goto, Saving
  <1>9. QED
    BY <1>2, <1>3, <1>6, <1>7, <1>8

LEMMA StepHistory == IInv /\ HistoryInv /\ PageInv /\ [Next]_vars => HistoryInv' /\ PageInv'
  BY LookShows, PrepareShows, RenameShows, PowerLossShows, QuietSteps DEF Next

LEMMA InitHistory == Init => HistoryInv /\ PageInv
  <1> SUFFICES ASSUME Init PROVE HistoryInv /\ PageInv
    OBVIOUS
  <1>1. /\ canonical = Empty /\ survivors = {Directory} /\ Directory.canonical = canonical
        /\ \A w \in Writers : pc[w] = "idle"
    BY DEF Init, Directory
  <1>2. Consistent(Empty)
    BY EmptyConsistent
  <1>3. QED
    BY <1>1, <1>2 DEF HistoryInv, PageInv, Saving

THEOREM HistoryInvariance == Spec => [](HistoryInv /\ PageInv)
  BY InitHistory, StepHistory, Invariance, PTL DEF Spec

\* The rows are the last events of their findings, in every state, and the events
\* of a finding are in the order of their times (store.rs, save; resolve.rs,
\* latest_time).
THEOREM RowsAreLastEvents == Spec => []RowsFollowHistory
  <1>1. HistoryInv => RowsFollowHistory
    BY CanonicalConsistent DEF RowsFollowHistory
  <1>2. QED
    BY <1>1, HistoryInvariance, PTL

\* What a save replaces is the file it read, and no decision about the finding is in
\* it that was not on the page (store.rs, save, the comparison of revisions).
THEOREM DecisionsWereSeen == Spec => OnlySeenDecisionsReplaced
  <1>1. IInv /\ PageInv /\ [Next]_vars =>
           [\A w \in Writers :
              (pc[w] = "written" /\ Rename(w) /\ draft[page[w].identity] = NoRow) =>
                 /\ canonical = current[w].canonical
                 /\ EventsOf(canonical.history, page[w].identity) = page[w].events]_vars
    <2> SUFFICES ASSUME IInv, PageInv, NEW w \in Writers,
                        pc[w] = "written", draft[page[w].identity] = NoRow
                 PROVE  /\ canonical = current[w].canonical
                        /\ EventsOf(canonical.history, page[w].identity) = page[w].events
      OBVIOUS
    <2>1. pc[w] # "idle" /\ pc[w] \in Saving
      BY DEF Saving
    <2>2. canonical = current[w].canonical
      BY <2>1 DEF IInv, WriterInv, SaveInv, Replaces
    <2>3. Shows(w)
      BY <2>1 DEF PageInv
    <2>4. QED
      BY <2>1, <2>2, <2>3 DEF Shows
  <1>2. QED
    BY <1>1, Invariance, HistoryInvariance, PTL DEF Spec, OnlySeenDecisionsReplaced
=============================================================================
