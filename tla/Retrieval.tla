------------------------------ MODULE Retrieval ------------------------------
(***************************************************************************)
(* Hybrid search in one MCP session: the ranking cache, the vectors of the  *)
(* symbols, and the runs of other processes that publish a new generation   *)
(* of the index between any two reads.                                      *)
(*                                                                          *)
(* A file holds one symbol, so a ranked symbol is named by its file.  A row *)
(* of the index has a rowid, which the database may give to another symbol  *)
(* once the row is gone, and the text (the content hash) it was read from.  *)
(* A vector row remembers the symbol and the hash of the snapshot it was    *)
(* computed for and the text that was embedded.  Similarity is given: which *)
(* texts a query matches by words (Lexical) and by vector (Near), and which *)
(* other queries it is close enough to for a semantic hit (Similar).        *)
(***************************************************************************)
EXTENDS Naturals, FiniteSets, Sequences

CONSTANTS
    Files,      \* paths
    Texts,      \* contents a file may have
    Ids,        \* rowids of symbols
    Queries,    \* normalised queries
    Calls,      \* calls of the tool in flight at the same time
    Lexical,    \* <<query, text>> that match by their words
    Near,       \* <<query, text>> whose vectors are close
    Similar,    \* <<query, query>> above the threshold of the semantic cache
    MaxEntries, \* capacity of the cache
    MaxRuns,    \* bound: runs other processes publish
    MaxEdits,   \* bound: edits of files
    MaxAsked,   \* bound: calls over the whole session
    None        \* no file, row, vector, hit or holder

ASSUME RetrievalAssumption ==
    /\ IsFiniteSet(Files) /\ IsFiniteSet(Ids)
    /\ Cardinality(Ids) >= Cardinality(Files)
    /\ None \notin Texts \cup Calls
    /\ MaxEntries \in Nat \ {0}
    /\ MaxRuns \in Nat /\ MaxEdits \in Nat /\ MaxAsked \in Nat

VARIABLES
    disk,     \* text of each file on disk
    rows,     \* committed rows: rowid and text of each file's symbol
    vectors,  \* stored vector of each rowid
    gen,      \* published_generation
    entries,  \* rankings by key; the domain is the set of cached keys
    used,     \* the cached keys, least recently used first
    mutex,    \* holder of the server's index mutex
    calls,    \* the state of each call
    edits, asked

vars == <<disk, rows, vectors, gen, entries, used, mutex, calls, edits, asked>>

Row == [id: Ids, text: Texts]
Item == [id: Ids, file: Files, hash: Texts, text: Texts \cup {None}]
Key == [query: Queries, model: BOOLEAN]
Hashes == [Files -> Texts \cup {None}]
Ranking == SUBSET Files
(* `exact` is a history flag: the ranking was computed with every vector it  *)
(* needs, each of the text its row has.                                      *)
Entry == [hits: Ranking, print: Hashes, state: Hashes, exact: BOOLEAN]
Hit == [key: Key, hits: Ranking, print: Hashes, exact: BOOLEAN]

Labels == {"idle", "exact", "refresh", "print", "rerank", "fence", "closed", "query",
           "semantic", "snapshot", "embed", "final", "rank"}
Call == [pc: Labels, key: Key \cup {None}, before: Nat, fence: Nat, source: Key \cup {None},
         seen: Hashes \cup {None}, hit: Hit \cup {None}, hitGen: Nat,
         vector: {None, "ok", "failed"}, pending: SUBSET Item, refreshed: BOOLEAN]

Indexed == {f \in Files : rows[f] # None}
HashOf(f) == IF rows[f] = None THEN None ELSE rows[f].text
FileHashes == [f \in Files |-> HashOf(f)]

(* A call that was not made: every field at rest. *)
Rest == [pc |-> "idle", key |-> None, before |-> 0, fence |-> 0, source |-> None,
         seen |-> None, hit |-> None, hitGen |-> 0, vector |-> None,
         pending |-> {}, refreshed |-> TRUE]

Init ==
    /\ disk \in [Files -> Texts]
    /\ rows = [f \in Files |-> None]
    /\ vectors = [i \in Ids |-> None]
    /\ gen = 0
    /\ entries = <<>>
    /\ used = <<>>
    /\ mutex = None
    /\ calls = [c \in Calls |-> Rest]
    /\ edits = 0
    /\ asked = 0

(***************************************************************************)
(* The rest of the world: an editor, and runs that publish.                 *)
(***************************************************************************)
Edit(f) ==
    /\ edits < MaxEdits
    /\ \E t \in (Texts \cup {None}) \ {disk[f]} : disk' = [disk EXCEPT ![f] = t]
    /\ edits' = edits + 1
    /\ UNCHANGED <<rows, vectors, gen, entries, used, mutex, calls, asked>>

(* A run rewrites the symbols of every file that changed.  Rewritten and     *)
(* deleted symbols lose their vectors, and their rowids may be used again.   *)
Publish ==
    /\ gen < MaxRuns
    /\ rows' \in [Files -> Row \cup {None}]
    /\ \A f \in Files :
        IF disk[f] = HashOf(f) THEN rows'[f] = rows[f]
        ELSE IF disk[f] = None THEN rows'[f] = None
        ELSE rows'[f] # None /\ rows'[f].text = disk[f]
    /\ \A f, g \in Files :
        rows'[f] # None /\ rows'[g] # None /\ rows'[f].id = rows'[g].id => f = g
    /\ vectors' = [i \in Ids |->
        IF \E f \in Indexed : rows[f].id = i /\ rows'[f] = rows[f]
        THEN vectors[i] ELSE None]
    /\ gen' = gen + 1
    /\ UNCHANGED <<disk, entries, used, mutex, calls, edits, asked>>

(***************************************************************************)
(* Ranking and embedding.                                                   *)
(***************************************************************************)
(* hybrid_search_with_vector: words, and vectors when the query has one. *)
RankBy(q, model, vecs) ==
    {f \in Indexed :
        \/ <<q, rows[f].text>> \in Lexical
        \/ /\ model
           /\ vecs[rows[f].id] # None
           /\ <<q, vecs[rows[f].id].text>> \in Near}

(* The symbols without a vector, with the text to embed: the hash is the     *)
(* row's, the text the one that is on disk now, which nobody compares.       *)
Pending == {[id |-> rows[f].id, file |-> f, hash |-> rows[f].text, text |-> disk[f]] :
            f \in {g \in Indexed : vectors[rows[g].id] = None}}

(* Mutant: the rowid alone identifies the symbol. *)
SameRowid(item) == \E f \in Indexed : rows[f].id = item.id

(* The symbol that was embedded still is: same rowid, file and content hash. *)
SameSymbol(item) ==
    /\ rows[item.file] # None
    /\ rows[item.file].id = item.id
    /\ rows[item.file].text = item.hash

(* refresh_embeddings on one connection: nothing is pending afterwards. *)
Refreshed == [i \in Ids |->
    IF \E item \in Pending : item.id = i
    THEN CHOOSE item \in Pending : item.id = i
    ELSE vectors[i]]

(* Another process refreshes the embeddings: with the same model it fills    *)
(* what is missing, with another model it drops every vector of this one.    *)
OtherRefresh ==
    /\ vectors' \in {Refreshed, [i \in Ids |-> None]} \ {vectors}
    /\ UNCHANGED <<disk, rows, gen, entries, used, mutex, calls, edits, asked>>

Faithful(vecs) == \A f \in Indexed :
    vecs[rows[f].id] # None /\ vecs[rows[f].id].text = rows[f].text

(***************************************************************************)
(* The cache.  Everything below runs under the server's index mutex, so one *)
(* call at a time; a run of another process may publish between any two     *)
(* steps.                                                                   *)
(***************************************************************************)
At(c, label) == calls[c].pc = label
Without(f, k) == [x \in DOMAIN f \ {k} |-> f[x]]

(* A key is used last once. *)
SeqWithout(s, k) ==
    LET at == CHOOSE i \in DOMAIN s : s[i] = k
    IN IF \E i \in DOMAIN s : s[i] = k
       THEN [i \in 1 .. Len(s) - 1 |-> IF i < at THEN s[i] ELSE s[i + 1]] ELSE s

(* Fingerprint of a ranking: the content hash of each file it points into. *)
Fingerprint(hits, seen) == [f \in Files |-> IF f \in hits THEN seen[f] ELSE None]

(* A call asks q; the model may be wanted and at hand, or not. *)
Ask(c, q, model) ==
    /\ At(c, "idle")
    /\ asked < MaxAsked
    /\ asked' = asked + 1
    /\ calls' = [calls EXCEPT ![c] =
        [Rest EXCEPT !.pc = "exact", !.key = [query |-> q, model |-> model]]]
    /\ UNCHANGED <<disk, rows, vectors, gen, entries, used, mutex, edits>>

(* The exact lookup takes the mutex, reads the generation and probes. *)
LookupExact(c) ==
    /\ At(c, "exact") /\ mutex = None
    /\ mutex' = c
    /\ calls' = [calls EXCEPT ![c] =
        IF @.key \in DOMAIN entries
        THEN [@ EXCEPT !.pc = "refresh", !.before = gen, !.source = calls[c].key]
        ELSE [@ EXCEPT !.pc = "closed"]]
    /\ UNCHANGED <<disk, rows, vectors, gen, entries, used, edits, asked>>

(* The semantic lookup, with the query embedded: the nearest of the other    *)
(* queries under the same key.  It is a miss when that one is not near       *)
(* enough, or when a runner-up, near enough or not, is too close to it.      *)
Scored(c) == {k \in DOMAIN entries : k.model /\ k.query # calls[c].key.query}
Candidates(c) == {k \in Scored(c) : <<k.query, calls[c].key.query>> \in Similar}

LookupSemantic(c) ==
    /\ At(c, "semantic") /\ mutex = None
    /\ mutex' = c
    /\ \/ \E k \in Candidates(c) :
            calls' = [calls EXCEPT ![c] =
                [@ EXCEPT !.pc = "refresh", !.before = gen, !.source = k]]
       \/ /\ Candidates(c) = {} \/ Cardinality(Scored(c)) > 1
          /\ calls' = [calls EXCEPT ![c].pc = "closed"]
    /\ UNCHANGED <<disk, rows, vectors, gen, entries, used, edits, asked>>

(* RepoTracker::refresh, after the generation the validation is fenced by. *)
Refresh(c) ==
    /\ At(c, "refresh")
    /\ calls' = [calls EXCEPT ![c] =
        [@ EXCEPT !.pc = "print", !.fence = gen, !.seen = FileHashes]]
    /\ UNCHANGED <<disk, rows, vectors, gen, entries, used, mutex, edits, asked>>

(* A refused entry is dropped, and the lookup is a miss. *)
Drop(c) ==
    /\ entries' = Without(entries, calls[c].source)
    /\ used' = SeqWithout(used, calls[c].source)
    /\ calls' = [calls EXCEPT ![c].pc = "closed"]

(* The ranked symbols still exist, in files whose content is the same. *)
SamePrint(e, seen) ==
    /\ \A f \in e.hits : rows[f] # None /\ seen[f] # None
    /\ Fingerprint(e.hits, seen) = e.print

CheckPrint(c) ==
    LET e == entries[calls[c].source] IN
    /\ At(c, "print")
    /\ \/ /\ SamePrint(e, calls[c].seen)
          /\ calls' = [calls EXCEPT ![c].pc =
                IF e.state = calls[c].seen THEN "fence" ELSE "rerank"]
          /\ UNCHANGED <<entries, used>>
       \/ ~SamePrint(e, calls[c].seen) /\ Drop(c)
    /\ UNCHANGED <<disk, rows, vectors, gen, mutex, edits, asked>>

same_ranking(a, b) == a = b

(* Something else changed: rank again, with every vector there could be.     *)
(* The same ranking is stamped with the state that was seen.                 *)
Rerank(c) ==
    LET src == calls[c].source
        vecs == IF src.model THEN Refreshed ELSE vectors
        fresh == RankBy(src.query, src.model, vecs)
    IN
    /\ At(c, "rerank")
    /\ \/ /\ same_ranking(fresh, entries[src].hits)
          /\ vectors' = vecs
          /\ entries' = [entries EXCEPT ![src].state = calls[c].seen,
                                    ![src].exact = ~src.model \/ Faithful(vecs)]
          /\ calls' = [calls EXCEPT ![c].pc = "fence"]
          /\ UNCHANGED used
       \/ /\ ~same_ranking(fresh, entries[src].hits)
          /\ vectors' = vecs
          /\ Drop(c)
       \/ /\ src.model         \* the refresh or the search failed
          /\ UNCHANGED vectors
          /\ Drop(c)
    /\ UNCHANGED <<disk, rows, gen, mutex, edits, asked>>

Unmoved(c) == gen = calls[c].fence

(* The generation again: a run that was published meanwhile refuses the entry. *)
Fence(c) ==
    LET src == calls[c].source IN
    /\ At(c, "fence")
    /\ \/ /\ Unmoved(c)
          /\ calls' = [calls EXCEPT ![c].pc = "closed",
                ![c].hit = [key |-> src, hits |-> entries[src].hits,
                            print |-> entries[src].print, exact |-> entries[src].exact]]
          /\ used' = Append(SeqWithout(used, src), src)
          /\ UNCHANGED entries
       \/ ~Unmoved(c) /\ Drop(c)
    /\ UNCHANGED <<disk, rows, vectors, gen, mutex, edits, asked>>

(***************************************************************************)
(* The tool: hybrid_search_like around its lookups.                         *)
(***************************************************************************)
(* Mutant: a hit is stamped with the generation found after the lookup only. *)
HitAfterOnly(c) == calls[c].hit

(* A hit counts only if no run was published across the whole lookup. *)
HitAcross(c) == IF calls[c].before = gen THEN calls[c].hit ELSE None

(* After a lookup: a hit, or no model to embed with, goes on to the ranking *)
(* with the mutex held; a miss lets it go to embed the query or the symbols. *)
AfterLookup(c) ==
    LET hit == HitAcross(c)
        keep == hit # None \/ ~calls[c].key.model
    IN
    /\ At(c, "closed")
    /\ calls' = [calls EXCEPT ![c] = [@ EXCEPT
            !.hit = hit, !.hitGen = gen, !.seen = None, !.source = None, !.fence = 0, !.before = 0,
            !.pc = IF keep THEN "rank"
                   ELSE IF calls[c].vector = None THEN "query" ELSE "snapshot"]]
    /\ mutex' = IF keep THEN mutex ELSE None
    /\ UNCHANGED <<disk, rows, vectors, gen, entries, used, edits, asked>>

(* Embedding the query, on a thread of its own; without a vector there is no *)
(* semantic lookup.                                                          *)
EmbedQuery(c) ==
    /\ At(c, "query")
    /\ calls' \in {[calls EXCEPT ![c].pc = "semantic", ![c].vector = "ok"],
                   [calls EXCEPT ![c].pc = "snapshot", ![c].vector = "failed"]}
    /\ UNCHANGED <<disk, rows, vectors, gen, entries, used, mutex, edits, asked>>

(* refresh_pending_unlocked: the snapshot under the mutex, the model without *)
(* it, and one commit under the mutex for each batch of one symbol.          *)
Snapshot(c) ==
    /\ At(c, "snapshot") /\ mutex = None
    /\ calls' = [calls EXCEPT ![c].pc = "embed", ![c].pending = Pending]
    /\ UNCHANGED <<disk, rows, vectors, gen, entries, used, mutex, edits, asked>>

CommitBatch(c) ==
    /\ At(c, "embed") /\ mutex = None
    /\ \E item \in calls[c].pending :
        /\ vectors' = IF SameSymbol(item) THEN [vectors EXCEPT ![item.id] = item] ELSE vectors
        /\ calls' = [calls EXCEPT ![c].pending = @ \ {item}]
    /\ UNCHANGED <<disk, rows, gen, entries, used, mutex, edits, asked>>

EmbedFails(c) ==
    /\ At(c, "embed") /\ calls[c].pending # {}
    /\ calls' = [calls EXCEPT ![c].pc = "final", ![c].pending = {}, ![c].refreshed = FALSE]
    /\ UNCHANGED <<disk, rows, vectors, gen, entries, used, mutex, edits, asked>>

(* The mutex once more, for the ranking. *)
TakeForRanking(c) ==
    /\ \/ At(c, "final")
       \/ At(c, "embed") /\ calls[c].pending = {}
    /\ mutex = None
    /\ mutex' = c
    /\ calls' = [calls EXCEPT ![c].pc = "rank"]
    /\ UNCHANGED <<disk, rows, vectors, gen, entries, used, edits, asked>>

(* Inside the read snapshot: the hit belongs to the generation that is read. *)
HitStands(c) == calls[c].hit # None /\ calls[c].hitGen = gen

(* Mutant: one entry too many. *)
OverFull(n) == n > MaxEntries

Full(n) == n >= MaxEntries

(* QueryCache::insert: the oldest entry goes when the cache is full.  When    *)
(* the state of the repository cannot be read, nothing is cached (Answer).   *)
Insert(k, hits) ==
    LET oldest == IF Full(Len(used)) THEN {Head(used)} ELSE {}
        kept == DOMAIN entries \ oldest
    IN
    /\ entries' = [x \in kept \cup {k} |->
            IF x = k THEN [hits |-> hits, print |-> Fingerprint(hits, FileHashes),
                           state |-> FileHashes, exact |-> ~k.model \/ Faithful(vectors)]
            ELSE entries[x]]
    /\ used' = Append(SeqWithout(IF Full(Len(used)) THEN Tail(used) ELSE used, k), k)

(* Mutant: a lexical ranking that stands in for a failed refresh is cached. *)
CachedAnyway(c) == TRUE

(* Cached only when the semantic side ran exactly as keyed. *)
RanAsKeyed(c) == calls[c].key.model = (calls[c].key.model /\ calls[c].refreshed)

(* One read snapshot: the ranking of a miss, and the entry it leaves.  With   *)
(* a model but no vector of the query the call fails.                         *)
Answer(c) ==
    LET k == calls[c].key
        semantic == k.model /\ calls[c].refreshed
        hits == RankBy(k.query, semantic, vectors)
    IN
    /\ At(c, "rank")
    /\ \/ /\ ~HitStands(c) /\ (semantic => calls[c].vector = "ok") /\ RanAsKeyed(c)
          /\ Insert(k, hits)
       \/ UNCHANGED <<entries, used>>
    /\ calls' = [calls EXCEPT ![c] = Rest]
    /\ mutex' = None
    /\ UNCHANGED <<disk, rows, vectors, gen, edits, asked>>

-----------------------------------------------------------------------------
Step(c) ==
    \/ LookupExact(c) \/ LookupSemantic(c) \/ Refresh(c) \/ CheckPrint(c)
    \/ Rerank(c) \/ Fence(c) \/ AfterLookup(c) \/ EmbedQuery(c) \/ Snapshot(c)
    \/ CommitBatch(c) \/ EmbedFails(c) \/ TakeForRanking(c) \/ Answer(c)

(* The client asks nothing more. *)
SessionOver ==
    /\ asked = MaxAsked
    /\ \A c \in Calls : At(c, "idle")
    /\ UNCHANGED vars

Next ==
    \/ SessionOver
    \/ \E f \in Files : Edit(f)
    \/ Publish
    \/ OtherRefresh
    \/ \E c \in Calls : \E q \in Queries : \E model \in BOOLEAN : Ask(c, q, model)
    \/ \E c \in Calls : Step(c)

Spec == Init /\ [][Next]_vars

(***************************************************************************)
(* Properties.                                                              *)
(***************************************************************************)
TypeOK ==
    /\ disk \in [Files -> Texts \cup {None}]
    /\ rows \in [Files -> Row \cup {None}]
    /\ vectors \in [Ids -> Item \cup {None}]
    /\ gen \in 0..MaxRuns /\ edits \in 0..MaxEdits /\ asked \in 0..MaxAsked
    /\ DOMAIN entries \subseteq Key
    /\ \A k \in DOMAIN entries : entries[k] \in Entry
    /\ used \in Seq(DOMAIN entries) /\ Len(used) = Cardinality(DOMAIN entries)
    /\ Len(used) <= MaxEntries
    /\ mutex \in Calls \cup {None}
    /\ calls \in [Calls -> Call]

(* The hit a call is about to answer from. *)
Serves(c) == At(c, "rank") /\ HitStands(c)

(* A vector was computed for the symbol its rowid stands for now: the        *)
(* snapshot it comes from recorded that rowid, that file and the content     *)
(* hash the index has.  A symbol rewritten or deleted while the model ran is *)
(* skipped, also when its rowid was given to another one                     *)
(* (commit_embedding_batch).  What text was embedded is not compared: it is  *)
(* read from the disk at the snapshot and may be newer than the hash.        *)
VectorsOfTheirSymbols ==
    \A i \in Ids : vectors[i] # None =>
        /\ rows[vectors[i].file] # None
        /\ rows[vectors[i].file].id = i
        /\ rows[vectors[i].file].text = vectors[i].hash

(* A hit that is served points only at symbols that are indexed, in files    *)
(* whose content is what it was when they were ranked, and leaves out no     *)
(* symbol the index now finds by the query's words: no mix of two            *)
(* generations passes the validation (QueryCache::check, hybrid_search_like).*)
HitsMatchIndex ==
    \A c \in Calls : Serves(c) =>
        /\ \A f \in calls[c].hit.hits : rows[f] # None /\ rows[f].text = calls[c].hit.print[f]
        /\ RankBy(calls[c].hit.key.query, FALSE, vectors) \subseteq calls[c].hit.hits

(* A ranking that was computed with the vectors of all symbols is served     *)
(* only while the index would still produce it.                              *)
ExactHitsAreCurrent ==
    \A c \in Calls : Serves(c) /\ calls[c].hit.exact =>
        calls[c].hit.hits = {f \in Indexed :
            \/ <<calls[c].hit.key.query, rows[f].text>> \in Lexical
            \/ calls[c].hit.key.model /\ <<calls[c].hit.key.query, rows[f].text>> \in Near}

(* "Validation decides whether that ranking is still the one the current     *)
(* index would produce" (cache.rs): also for rankings cached while vectors   *)
(* were missing.                                                             *)
ServedRankingIsCurrent ==
    \A c \in Calls : Serves(c) /\ calls[c].hit.key.model =>
        calls[c].hit.hits = RankBy(calls[c].hit.key.query, TRUE, Refreshed)
=============================================================================
