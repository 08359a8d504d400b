------------------------------ MODULE Reviews ------------------------------
(***************************************************************************)
(* The store of review decisions, after                                    *)
(* crates/mct-index/src/reviews/store.rs and resolve.rs.                   *)
(*                                                                         *)
(* Dashboards save people's decisions about findings in one canonical file *)
(* under an advisory lock: they read everything again, check that the      *)
(* person saw the current decision, append to the history, keep a copy of  *)
(* the file as it was, and rename a synced temporary file over it.  Older  *)
(* binaries write a file of their own (the draft) without that lock; the   *)
(* two are merged when they are read.  A process may be killed and the     *)
(* machine may stop between any two steps, any file operation may fail,    *)
(* and clocks may go back.                                                 *)
(*                                                                         *)
(* The two formats before the draft's are merged in the same way and are   *)
(* left out, and so is what notes and files look like.                     *)
(***************************************************************************)
EXTENDS Naturals, Sequences, FiniteSets

CONSTANTS
    Writers,      \* dashboards
    Findings,     \* identities
    Prints,       \* fingerprints of the code of a finding
    States,       \* review states; "unreviewed" restores
    Clock,        \* what a writer's clock may say, in any order
    Latest,       \* the greatest time (u64::MAX)
    MaxRows,      \* MAX_ROWS, for the history as for the rows
    MaxDrafts     \* bound: decisions older binaries make

Hidden == {"dismissed", "false-positive"}     \* State::suppresses

ASSUME ReviewsAssumption ==
    /\ "unreviewed" \in States
    /\ Clock \subseteq 0 .. Latest /\ {Latest, MaxRows, MaxDrafts} \subseteq Nat

VARIABLES
    canonical,   \* review-decisions.toon: rows and history
    previous,    \* review-decisions.toon.prev
    survivors,   \* what the two files may be after the machine stops
    draft,       \* the older file: its row for each finding
    drafts,      \* decisions left to older binaries
    broken,      \* a review file that is present cannot be read
    lock,        \* holders of review-decisions.lock
    temporary,   \* writers with a temporary file on the disk
    pc,          \* where each writer stands in `save'
    page,        \* what the person in front of each writer has seen
    change,      \* what that person asked for
    current,     \* the sources as read under the lock, and the text to be copied
    next,        \* the new canonical file
    acked        \* history events up to the last one whose own save returned Ok

files == <<canonical, previous, survivors>>
older == <<draft, drafts, broken>>
local == <<pc, page, change, current, next>>
vars  == <<files, older, lock, temporary, local, acked>>

NoRow == [none |-> TRUE]
Times == 0 .. Latest
Row   == [state : States, updated : Times, fingerprint : Prints]
Event == [identity : Findings, from : States, to : States, at : Times, fingerprint : Prints]
Draft == [state : States, at : Times, fingerprint : Prints, latest : Times]

Empty   == [rows |-> [f \in Findings |-> NoRow], history |-> <<>>]
Unread  == [canonical |-> Empty, draft |-> [f \in Findings |-> NoRow], copy |-> Empty]
NoPage  == NoRow

Directory == [canonical |-> canonical, previous |-> previous]

Largest(S) == CHOOSE t \in S : \A u \in S : u <= t
Rows(file) == {f \in Findings : file.rows[f] # NoRow}

\* What the history says about a finding: its events, each at its place.
EventsOf(history, f) ==
    [i \in {j \in 1 .. Len(history) : history[j].identity = f} |-> history[i]]

-----------------------------------------------------------------------------
(* Resolution: the decisions the sources hold about one finding.           *)

Candidates(sources, f, print) ==
    {[state |-> sources.canonical.rows[f].state, at |-> sources.canonical.rows[f].updated,
      format |-> 3, matches |-> sources.canonical.rows[f].fingerprint = print] :
         g \in {f} \cap Rows(sources.canonical)}
    \cup
    {[state |-> sources.draft[f].state, at |-> sources.draft[f].at,
      format |-> 2, matches |-> sources.draft[f].fingerprint = print] :
         g \in {h \in {f} : sources.draft[h] # NoRow}}

Suppresses(c) == c.matches /\ c.state \in Hidden

\* Candidate::precedence: the later, then the less suppressing, then the newer.
Precedes(c, d) ==
    \/ c.at > d.at
    \/ c.at = d.at /\ ~Suppresses(c) /\ Suppresses(d)
    \/ c.at = d.at /\ (Suppresses(c) <=> Suppresses(d)) /\ c.format > d.format

Winners(sources, f, print) ==
    LET C == Candidates(sources, f, print)
    IN  {c \in C : \A d \in C \ {c} : Precedes(c, d)}

StateOf(sources, f, print) ==
    IF Winners(sources, f, print) = {} THEN "unreviewed"
    ELSE (CHOOSE c \in Winners(sources, f, print) : TRUE).state

NeedsReevaluation(sources, f, print) ==
    \E c \in Winners(sources, f, print) : c.state # "unreviewed" /\ ~c.matches

\* Resolution::revision.
Revision(sources, f, print) ==
    {<<c.format, c.state, c.at>> : c \in Winners(sources, f, print)}

\* latest_time: of the candidates and of the history, in every source.
LatestTime(sources, f) ==
    Largest({0} \cup {c.at : c \in UNION {Candidates(sources, f, p) : p \in Prints}}
                \cup {sources.canonical.history[i].at :
                        i \in {j \in 1 .. Len(sources.canonical.history) :
                                 sources.canonical.history[j].identity = f}}
                \cup {sources.draft[g].latest : g \in {h \in {f} : sources.draft[h] # NoRow}})

\* Mutant: the clock is trusted.
NewTimeByClock(sources, f, now) == now

\* Logical time: the new decision is the latest about its finding.
NewTime(sources, f, now) == Largest({LatestTime(sources, f) + 1, now})

-----------------------------------------------------------------------------
WellFormed(file) ==
    /\ file.rows \in [Findings -> Row \cup {NoRow}]
    /\ file.history \in Seq(Event) /\ Len(file.history) <= MaxRows

TypeOK ==
    /\ \A d \in survivors \cup {Directory} : WellFormed(d.canonical) /\ WellFormed(d.previous)
    /\ draft \in [Findings -> Draft \cup {NoRow}]
    /\ drafts \in 0 .. MaxDrafts /\ broken \in BOOLEAN
    /\ lock \subseteq Writers /\ temporary \subseteq Writers
    /\ pc \in [Writers -> {"idle", "asked", "locked", "copy", "copied", "copySync",
                           "write", "written", "sync"}]
    /\ acked \in 0 .. MaxRows

Init ==
    /\ canonical = Empty /\ previous = Empty /\ survivors = {Directory}
    /\ draft \in [Findings -> {NoRow} \cup
                    {d \in Draft : {d.at, d.latest} \subseteq Clock /\ d.at <= d.latest}]
    /\ drafts = MaxDrafts /\ broken = FALSE
    /\ lock = {} /\ temporary = {}
    /\ pc = [w \in Writers |-> "idle"] /\ page = [w \in Writers |-> NoPage]
    /\ change = [w \in Writers |-> "unreviewed"]
    /\ current = [w \in Writers |-> Unread] /\ next = [w \in Writers |-> Empty]
    /\ acked = 0

-----------------------------------------------------------------------------
(* The world outside.                                                      *)

\* An older binary records a decision in its own file, with its own clock.
OldDecision(f) ==
    /\ drafts > 0 /\ drafts' = drafts - 1 /\ ~broken
    /\ \E s \in States, t \in Clock, p \in Prints :
          draft' = [draft EXCEPT ![f] =
              [state |-> s, at |-> t, fingerprint |-> p,
               latest |-> IF @ = NoRow THEN t ELSE Largest({t, @.latest})]]
    /\ UNCHANGED <<files, broken, lock, temporary, local, acked>>

\* A file stops being readable, or is repaired.  What happens to the files
\* by hand after a save has read them and before it renames is not modelled:
\* no lock keeps hands off.
Damage ==
    /\ \A w \in Writers : pc[w] \in {"idle", "asked", "locked"}
    /\ broken' = ~broken
    /\ UNCHANGED <<files, draft, drafts, lock, temporary, local, acked>>

-----------------------------------------------------------------------------
(* Reviews::save                                                           *)

Sources == [canonical |-> canonical, draft |-> draft]

\* Reviews::load.  Without the canonical file nothing applies; an older file
\* that is broken only loses its own rows.
Loaded ==
    IF broken THEN {[canonical |-> c, draft |-> Unread.draft] : c \in {Empty, canonical}}
    ELSE {Sources}

Goto(w, station) == pc' = [pc EXCEPT ![w] = station]

\* The person sees the decision about a finding, as the sources that can be
\* read are now or, by the time the person acts, were.
Look(w, f, print) ==
    /\ pc[w] = "idle"
    /\ \E seen \in Loaded :
          page' = [page EXCEPT ![w] =
              [identity |-> f, fingerprint |-> print, revision |-> Revision(seen, f, print),
               events |-> EventsOf(seen.canonical.history, f)]]
    /\ Goto(w, "asked")
    /\ \E s \in States : change' = [change EXCEPT ![w] = s]
    /\ UNCHANGED <<files, older, lock, temporary, current, next, acked>>

\* Every way out of `save' drops the guard of the lock and forgets what was read.
Leave(w) ==
    /\ Goto(w, "idle")
    /\ lock' = lock \ {w}
    /\ page' = [page EXCEPT ![w] = NoPage] /\ change' = [change EXCEPT ![w] = "unreviewed"]
    /\ current' = [current EXCEPT ![w] = Unread] /\ next' = [next EXCEPT ![w] = Empty]

\* Mutant: abandoned temporary files are removed before the lock is taken.
AcquireSweeping(w) ==
    /\ pc[w] = "asked"
    /\ temporary' = {}
    /\ \/ lock = {} /\ Goto(w, "locked") /\ lock' = {w}
       \/ lock # {} /\ Goto(w, "idle") /\ UNCHANGED lock
    /\ UNCHANGED <<files, older, page, change, current, next, acked>>

\* Mutant: the lock is not exclusive.
AcquireShared(w) ==
    /\ pc[w] = "asked"
    /\ Goto(w, "locked") /\ lock' = lock \cup {w}
    /\ UNCHANGED <<files, older, temporary, page, change, current, next, acked>>

\* Lock::acquire; a save that finds it taken, or cannot open it, is refused.
Acquire(w) ==
    /\ pc[w] = "asked"
    /\ \/ /\ lock = {}
          /\ Goto(w, "locked") /\ lock' = {w}
          /\ UNCHANGED <<temporary, page, change, current, next>>
       \/ Leave(w) /\ UNCHANGED temporary
    /\ UNCHANGED <<files, older, acked>>

\* Mutant: a finding that has a row keeps it.
UpsertOnce(file, w, at, from) ==
    [rows |-> IF page[w].identity \in Rows(file) THEN file.rows
              ELSE [file.rows EXCEPT ![page[w].identity] =
                  [state |-> change[w], updated |-> at, fingerprint |-> page[w].fingerprint]],
     history |-> Append(file.history,
                  [identity |-> page[w].identity, from |-> from, to |-> change[w],
                   at |-> at, fingerprint |-> page[w].fingerprint])]

\* The row and the event the change asks for, at logical time `at'.
Upsert(file, w, at, from) ==
    [rows |-> [file.rows EXCEPT ![page[w].identity] =
                  [state |-> change[w], updated |-> at, fingerprint |-> page[w].fingerprint]],
     history |-> Append(file.history,
                  [identity |-> page[w].identity, from |-> from, to |-> change[w],
                   at |-> at, fingerprint |-> page[w].fingerprint])]

\* Mutants: the person's view, or the state of the files, is not checked again.
SeenAnything(w, seen) == TRUE
ReadableBefore(seen) == TRUE

\* The person saw the decision that applies now.
Seen(w, seen) == Revision(seen, page[w].identity, page[w].fingerprint) = page[w].revision

\* No source present is unreadable.
Readable(seen) == ~broken

\* What the person asks for is already so.
Unchanged(w) ==
    /\ StateOf(Sources, page[w].identity, page[w].fingerprint) = change[w]
    /\ \/ change[w] = "unreviewed"
       \/ ~NeedsReevaluation(Sources, page[w].identity, page[w].fingerprint)

\* Mutant: the times are taken to have room always.
FullOfEvents(f) ==
    \/ Len(canonical.history) = MaxRows
    \/ Cardinality(Rows(canonical) \cup {f}) > MaxRows

\* Neither the times nor the rows have room for one more decision.
Full(f) ==
    \/ LatestTime(Sources, f) = Latest
    \/ Len(canonical.history) = MaxRows
    \/ Cardinality(Rows(canonical) \cup {f}) > MaxRows

\* Everything is read again under the lock and the change is checked; what
\* killed saves left behind is removed unless a source is unreadable.  A save
\* that finds its change made answers Ok too, but it writes and syncs nothing
\* and acknowledges no event of its own.
Prepare(w) ==
    /\ pc[w] = "locked"
    /\ temporary' = IF Readable(Sources) THEN {} ELSE temporary
    /\ LET f == page[w].identity
       IN  IF ~Readable(Sources) \/ ~Seen(w, Sources) \/ Unchanged(w) \/ Full(f)
             THEN Leave(w)
             ELSE /\ \E now \in Clock :
                        next' = [next EXCEPT ![w] =
                                    Upsert(canonical, w, NewTime(Sources, f, now),
                                           StateOf(Sources, f, page[w].fingerprint))]
                  /\ current' = [current EXCEPT ![w].canonical = canonical, ![w].draft = draft]
                  /\ Goto(w, "copy")
                  /\ UNCHANGED <<lock, page, change>>
    /\ UNCHANGED <<files, older, acked>>

\* publish, of the canonical file as it is on the disk, when there is one, and
\* then of the new one: a temporary file is created, filled and synced ...
CreateTemporary(w) ==
    /\ \/ /\ pc[w] = "copy" /\ canonical # Empty /\ Goto(w, "copied")
          /\ current' = [current EXCEPT ![w].copy = canonical]
       \/ /\ (pc[w] = "copy" /\ canonical = Empty) \/ pc[w] = "write"
          /\ Goto(w, "written")
          /\ UNCHANGED current
    /\ temporary' = temporary \cup {w}
    /\ UNCHANGED <<files, older, lock, page, change, next, acked>>

\* ... renamed over the target ...
Rename(w) ==
    /\ \/ /\ pc[w] = "copied" /\ Goto(w, "copySync")
          /\ previous' = current[w].copy /\ UNCHANGED canonical
       \/ /\ pc[w] = "written" /\ Goto(w, "sync")
          /\ canonical' = next[w] /\ UNCHANGED previous
    /\ survivors' = survivors \cup {Directory'}
    /\ temporary' = temporary \ {w}
    /\ UNCHANGED <<older, lock, page, change, current, next, acked>>

\* Mutant: `save' answers without syncing the directory.
SyncNothing(w) ==
    /\ pc[w] \in {"copySync", "sync"}
    /\ IF pc[w] = "copySync"
         THEN Goto(w, "write") /\ UNCHANGED <<lock, page, change, current, next, acked>>
         ELSE Leave(w) /\ acked' = Len(canonical.history)
    /\ UNCHANGED <<files, older, temporary>>

\* ... and the directory synced.
SyncDirectory(w) ==
    /\ pc[w] \in {"copySync", "sync"}
    /\ survivors' = {Directory}
    /\ IF pc[w] = "copySync"
         THEN Goto(w, "write") /\ UNCHANGED <<lock, page, change, current, next, acked>>
         ELSE Leave(w) /\ acked' = Len(canonical.history)
    /\ UNCHANGED <<canonical, previous, older, temporary>>

\* A file operation fails: `save' returns Err(Io) and drops its temporary file.
Fails(w) ==
    /\ pc[w] \notin {"idle", "asked", "locked"}
    /\ Leave(w)
    /\ temporary' = temporary \ {w}
    /\ UNCHANGED <<files, older, acked>>

\* The process is killed: the kernel drops its lock, its temporary file stays.
Killed(w) ==
    /\ pc[w] # "idle"
    /\ Leave(w)
    /\ UNCHANGED <<files, older, temporary, acked>>

\* The machine stops: renames the directory was not synced after may be
\* undone, the last ones first.
PowerLoss ==
    /\ \E d \in survivors :
          canonical' = d.canonical /\ previous' = d.previous /\ survivors' = {d}
    /\ pc' = [w \in Writers |-> "idle"] /\ lock' = {}
    /\ page' = [w \in Writers |-> NoPage] /\ change' = [w \in Writers |-> "unreviewed"]
    /\ current' = [w \in Writers |-> Unread] /\ next' = [w \in Writers |-> Empty]
    /\ UNCHANGED <<older, temporary, acked>>

-----------------------------------------------------------------------------
Next ==
    \/ \E f \in Findings : OldDecision(f)
    \/ Damage \/ PowerLoss
    \/ \E w \in Writers, f \in Findings, p \in Prints : Look(w, f, p)
    \/ \E w \in Writers :
          Acquire(w) \/ Prepare(w) \/ CreateTemporary(w) \/ Rename(w) \/ SyncDirectory(w)
          \/ Fails(w) \/ Killed(w)

Spec == Init /\ [][Next]_vars

-----------------------------------------------------------------------------
(***************************************************************************)
(* The file is consistent with its history: a finding has a row when there *)
(* are events about it, the row is the last of them, and they follow one   *)
(* another in time, whatever the clocks of the writers said.               *)
(***************************************************************************)
Consistent(file) ==
    \A f \in Findings :
        LET events == EventsOf(file.history, f)
            last   == events[Largest(DOMAIN events)]
        IN  /\ f \in Rows(file) <=> DOMAIN events # {}
            /\ \A i, j \in DOMAIN events : i < j => events[i].at < events[j].at
            /\ f \in Rows(file) =>
                 file.rows[f] = [state |-> last.to, updated |-> last.at,
                                 fingerprint |-> last.fingerprint]

RowsFollowHistory == Consistent(canonical)

\* A writer that has made its temporary file still has it when it renames it,
\* whatever other writers clean up.
TemporaryKept == \A w \in Writers : pc[w] \in {"copied", "written"} => w \in temporary

(***************************************************************************)
(* The copy is one save behind the canonical file, or level with it, after *)
(* a power loss too: a person who must go back loses one decision at most. *)
(***************************************************************************)
CopyOneBehind ==
    \A d \in survivors \cup {Directory} :
        /\ Len(d.canonical.history) \in Len(d.previous.history) .. Len(d.previous.history) + 1
        /\ d.previous.history = SubSeq(d.canonical.history, 1, Len(d.previous.history))

(***************************************************************************)
(* A decision takes effect when it is saved: it is the one that applies to *)
(* the finding, even if the clock went back or an older binary left a      *)
(* decision in the future (unless one writes between the read and the      *)
(* rename, which the lock does not prevent).                               *)
(***************************************************************************)
SavedDecisionApplies ==
    [][\A w \in Writers :
         (pc[w] = "written" /\ Rename(w) /\ draft = current[w].draft) =>
             StateOf([canonical |-> canonical', draft |-> draft],
                     page[w].identity, page[w].fingerprint) = change[w]]_vars

(***************************************************************************)
(* Nobody overwrites a decision without having seen it: what is replaced   *)
(* is the canonical file that was read, and the events of the finding are  *)
(* those on the page the person acted on.  (An older binary that decides   *)
(* about the finding between the read and the rename of a save can outrank *)
(* what it saves, and the next person sees the older binary's decision.)   *)
(***************************************************************************)
OnlySeenDecisionsReplaced ==
    [][\A w \in Writers :
         (pc[w] = "written" /\ Rename(w) /\ draft[page[w].identity] = NoRow) =>
             /\ canonical = current[w].canonical
             /\ EventsOf(canonical.history, page[w].identity) = page[w].events]_vars

\* A file that cannot be read is never replaced, and keeps the others from
\* being written.
BrokenFilesKept ==
    [][Len(canonical'.history) > Len(canonical.history) => ~broken]_vars

\* What the store promises: an append-only log whose acknowledged decisions stay.
Log == INSTANCE ReviewLog WITH Events <- Event, log <- canonical.history, acked <- acked
LogSpec == Log!Spec
=============================================================================
