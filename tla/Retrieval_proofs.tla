----------------------------- MODULE Retrieval_proofs -----------------------------
(***************************************************************************)
(* What the ranking cache serves is what the index would answer, and a      *)
(* stored vector is the vector of its symbol, for any files, texts, calls   *)
(* and capacity.                                                            *)
(*                                                                         *)
(* Neither is inductive.  A vector stays right because rowids are not       *)
(* shared (OwnRowids).  A hit is right because the state a validation has   *)
(* seen is the index for as long as no run is published (Validating), the   *)
(* entry says what a ranking of that state says (EntriesInv), and the       *)
(* fences compare the generation before and after (HitsInv).  Nobody else   *)
(* changes the cache meanwhile (MutexInv).  Apart from all that, the order  *)
(* of use lists what the cache holds (UsedInv), which bounds it.            *)
(***************************************************************************)
EXTENDS Retrieval, FunctionTheorems, FiniteSetTheorems, TLAPS

(* The part of the types the argument needs: the order of use decides which *)
(* ranking goes, never what one says.                                       *)
Types ==
    /\ rows \in [Files -> Row \cup {None}]
    /\ disk \in [Files -> Texts \cup {None}]
    /\ vectors \in [Ids -> Item \cup {None}]
    /\ gen \in Nat
    /\ DOMAIN entries \subseteq Key
    /\ \A k \in DOMAIN entries : entries[k] \in Entry
    /\ calls \in [Calls -> Call]
    /\ \A c \in Calls : calls[c].pc # "idle" => calls[c].key \in Key

(* Two symbols never share a rowid. *)
OwnRowids == \A f, g \in Indexed : rows[f].id = rows[g].id => f = g

(* Whoever is between the locks of a lookup or a ranking holds the mutex. *)
Inside == {"refresh", "print", "rerank", "fence", "closed", "rank"}
MutexInv == \A c \in Calls : calls[c].pc \in Inside <=> mutex = c

(* The symbols a query finds in files of the given contents, by its words    *)
(* and, with a model and all vectors, by these.                              *)
ByWords(q, seen) == {f \in Files : seen[f] # None /\ <<q, seen[f]>> \in Lexical}
ByBoth(k, seen) == ByWords(k.query, seen) \cup
    {f \in Files : k.model /\ seen[f] # None /\ <<k.query, seen[f]>> \in Near}

(* What a cached ranking says about the state it is stamped with. *)
EntryOf(k) ==
    LET e == entries[k] IN
    /\ ByWords(k.query, e.state) \subseteq e.hits
    /\ e.exact => e.hits = ByBoth(k, e.state)

Printed(e, seen) == e.print = Fingerprint(e.hits, seen) /\ \A f \in e.hits : seen[f] # None

(* An entry that was ranked again over a newer index than it was validated   *)
(* against is wrong until the fence drops it.                                *)
Doomed(k) == \E c \in Calls : calls[c].pc = "fence" /\ calls[c].source = k /\ gen # calls[c].fence

EntriesInv == \A k \in DOMAIN entries :
    Printed(entries[k], entries[k].state) /\ (Doomed(k) \/ EntryOf(k))

(* A validation under way: what it has seen is the index for as long as no   *)
(* run is published.                                                         *)
ValidatingOf(c) ==
    /\ calls[c].pc \in {"refresh", "print", "rerank", "fence"} =>
          calls[c].source \in DOMAIN entries /\ calls[c].before <= gen
    /\ calls[c].pc \in {"print", "rerank", "fence"} =>
          /\ calls[c].seen \in Hashes
          /\ calls[c].before <= calls[c].fence /\ calls[c].fence <= gen
          /\ gen = calls[c].fence => calls[c].seen = FileHashes
    /\ calls[c].pc \in {"rerank", "fence"} =>
          Printed(entries[calls[c].source], calls[c].seen)
    /\ calls[c].pc = "fence" => entries[calls[c].source].state = calls[c].seen

Validating == \A c \in Calls : ValidatingOf(c)

(* A hit is the ranking of the index for as long as no run is published. *)
Current(h) ==
    /\ Printed(h, FileHashes)
    /\ ByWords(h.key.query, FileHashes) \subseteq h.hits
    /\ h.exact => h.hits = ByBoth(h.key, FileHashes)

HitOf(c) ==
    /\ calls[c].pc \notin {"closed", "rank"} => calls[c].hit = None
    /\ calls[c].pc = "closed" /\ calls[c].hit # None =>
          calls[c].before <= gen /\ (calls[c].before = gen => Current(calls[c].hit))
    /\ calls[c].pc = "rank" /\ calls[c].hit # None =>
          calls[c].hitGen <= gen /\ (calls[c].hitGen = gen => Current(calls[c].hit))

HitsInv == \A c \in Calls : HitOf(c)

IInv == Types /\ OwnRowids /\ VectorsOfTheirSymbols /\ MutexInv /\ EntriesInv /\ Validating /\ HitsInv

-----------------------------------------------------------------------------
LEMMA HashesOf ==
  ASSUME Types
  PROVE  /\ FileHashes \in Hashes
         /\ \A f \in Files : FileHashes[f] # None <=> f \in Indexed
         /\ \A f \in Indexed : rows[f] \in Row /\ FileHashes[f] = rows[f].text
  <1>1. ASSUME NEW f \in Files, rows[f] # None
        PROVE  rows[f] \in Row /\ HashOf(f) = rows[f].text /\ HashOf(f) \in Texts /\ HashOf(f) # None
    <2>1. rows[f] \in Row
      BY <1>1 DEF Types
    <2> QED BY <1>1, <2>1, RetrievalAssumption DEF Row, HashOf
  <1>2. ASSUME NEW f \in Files, rows[f] = None PROVE HashOf(f) = None
    BY <1>2 DEF HashOf
  <1>3. \A f \in Files : FileHashes[f] = HashOf(f)
    BY DEF FileHashes
  <1>4. FileHashes \in Hashes
    BY <1>1, <1>2, Zenon DEF FileHashes, Hashes
  <1> QED BY <1>1, <1>2, <1>3, <1>4 DEF Indexed

(* What a ranking says about the index it is made from. *)
LEMMA RankingOf ==
  ASSUME Types, NEW q, NEW model \in BOOLEAN, NEW vecs
  PROVE  /\ RankBy(q, model, vecs) \in SUBSET Files
         /\ ByWords(q, FileHashes) \subseteq RankBy(q, model, vecs)
         /\ ~model => RankBy(q, model, vecs) = ByWords(q, FileHashes)
         /\ Faithful(vecs) => RankBy(q, model, vecs) = ByWords(q, FileHashes) \cup
                {f \in Files : model /\ FileHashes[f] # None /\ <<q, FileHashes[f]>> \in Near}
  <1>1. ByWords(q, FileHashes) = {f \in Indexed : <<q, rows[f].text>> \in Lexical}
    <2>1. ASSUME NEW f \in Files
          PROVE  f \in ByWords(q, FileHashes) <=> f \in Indexed /\ <<q, rows[f].text>> \in Lexical
      BY HashesOf DEF ByWords
    <2> QED BY <2>1 DEF ByWords, Indexed
  <1>2. ASSUME Faithful(vecs)
        PROVE  RankBy(q, model, vecs) = ByWords(q, FileHashes) \cup
                {f \in Files : model /\ FileHashes[f] # None /\ <<q, FileHashes[f]>> \in Near}
    <2>1. ASSUME NEW f \in Files
          PROVE  f \in RankBy(q, model, vecs) <=>
                    \/ f \in ByWords(q, FileHashes)
                    \/ model /\ FileHashes[f] # None /\ <<q, FileHashes[f]>> \in Near
      <3>1. CASE f \in Indexed
        <4>1. vecs[rows[f].id] # None /\ vecs[rows[f].id].text = rows[f].text
          BY <1>2, <3>1 DEF Faithful
        <4>2. FileHashes[f] # None /\ FileHashes[f] = rows[f].text
          BY <3>1, HashesOf
        <4>3. f \in RankBy(q, model, vecs) <=>
                 <<q, rows[f].text>> \in Lexical \/ (model /\ <<q, rows[f].text>> \in Near)
          BY <3>1, <4>1, Zenon DEF RankBy
        <4> QED BY <1>1, <3>1, <4>2, <4>3
      <3>2. CASE f \notin Indexed
        BY <1>1, <3>2, HashesOf DEF RankBy
      <3> QED BY <3>1, <3>2
    <2> QED BY <2>1 DEF RankBy, Indexed, ByWords
  <1> QED BY <1>1, <1>2 DEF RankBy, Indexed

(* The call that takes a step is the only one that changes. *)
LEMMA OthersStay ==
  ASSUME Types, NEW c \in Calls,
         Step(c) \/ \E q \in Queries, model \in BOOLEAN : Ask(c, q, model),
         NEW d \in Calls, d # c
  PROVE  calls'[d] = calls[d]
  BY DEF Types, Step, Ask, LookupExact, LookupSemantic, Refresh, CheckPrint, Drop, Rerank,
     Fence,
     AfterLookup, EmbedQuery, Snapshot, CommitBatch, EmbedFails, TakeForRanking, Answer

(* The rows, and with them what a query finds, change in a run only. *)
LEMMA RowsStay ==
  ASSUME [Next]_vars, ~Publish
  PROVE  rows' = rows /\ gen' = gen
  BY DEF Next, vars, SessionOver, Edit, OtherRefresh, Step, Ask, LookupExact, LookupSemantic,
     Refresh, CheckPrint, Drop, Rerank, Fence, AfterLookup, EmbedQuery, Snapshot, CommitBatch,
     EmbedFails, TakeForRanking, Answer

LEMMA RefreshedType ==
  ASSUME Types
  PROVE  /\ Pending \subseteq Item
         /\ Refreshed \in [Ids -> Item \cup {None}]
         /\ \A i \in Ids : Refreshed[i] = vectors[i]
                \/ \E f \in Indexed : rows[f].id = i /\ Refreshed[i].file = f
                       /\ Refreshed[i].hash = rows[f].text
  <1>1. ASSUME NEW item \in Pending
        PROVE  item \in Item /\ \E f \in Indexed : item.id = rows[f].id /\ item.file = f /\ item.hash = rows[f].text
    <2>1. PICK f \in Indexed : item = [id |-> rows[f].id, file |-> f, hash |-> rows[f].text, text |-> disk[f]]
      BY <1>1 DEF Pending
    <2>2. rows[f] \in Row /\ f \in Files /\ disk[f] \in Texts \cup {None}
      BY <2>1, HashesOf DEF Indexed, Types
    <2> QED BY <2>1, <2>2 DEF Row, Item
  <1>2. ASSUME NEW i \in Ids
        PROVE  IF \E item \in Pending : item.id = i
               THEN Refreshed[i] \in Pending /\ Refreshed[i].id = i
               ELSE Refreshed[i] = vectors[i]
    <2>1. CASE \E item \in Pending : item.id = i
      <3>1. Refreshed[i] = CHOOSE item \in Pending : item.id = i
        BY <2>1 DEF Refreshed
      <3> QED BY <2>1, <3>1
    <2>2. CASE ~ \E item \in Pending : item.id = i
      BY <2>2 DEF Refreshed
    <2> QED BY <2>1, <2>2
  <1>3. ASSUME NEW i \in Ids PROVE Refreshed[i] \in Item \cup {None}
    BY <1>1, <1>2 DEF Types
  <1>4. Refreshed \in [Ids -> Item \cup {None}]
    <2>1. Refreshed = [i \in Ids |-> Refreshed[i]]
      BY DEF Refreshed
    <2> QED BY <1>3, <2>1
  <1> QED BY <1>1, <1>2, <1>4

-----------------------------------------------------------------------------
LEMMA InitIInv ==
  Init => IInv
  <1> SUFFICES ASSUME Init PROVE IInv OBVIOUS
  <1>1. Rest \in Call
    BY DEF Rest, Call, Labels
  <1>2. Types
    <2>1. \A c \in Calls : calls[c].pc = "idle"
      BY DEF Init, Rest
    <2> QED BY <1>1, <2>1, RetrievalAssumption DEF Init, Types
  <1>3. OwnRowids /\ VectorsOfTheirSymbols
    BY DEF Init, OwnRowids, Indexed, VectorsOfTheirSymbols
  <1>4. \A c \in Calls : calls[c].pc = "idle" /\ calls[c].hit = None
    BY DEF Init, Rest
  <1>5. MutexInv
    BY <1>4, RetrievalAssumption DEF Init, MutexInv, Inside
  <1>6. EntriesInv /\ Validating /\ HitsInv
    BY <1>4 DEF Init, EntriesInv, Validating, ValidatingOf, HitsInv, HitOf
  <1> QED BY <1>2, <1>3, <1>5, <1>6 DEF IInv

(* Rows and vectors. *)
LEMMA RowsStep ==
  ASSUME IInv, [Next]_vars
  PROVE  /\ rows' \in [Files -> Row \cup {None}]
         /\ disk' \in [Files -> Texts \cup {None}]
         /\ vectors' \in [Ids -> Item \cup {None}]
         /\ gen' \in Nat /\ gen <= gen'
         /\ OwnRowids' /\ VectorsOfTheirSymbols'
  <1> USE DEF IInv
  <1>1. CASE Publish
    <2>1. gen' = gen + 1 /\ disk' = disk /\ rows' \in [Files -> Row \cup {None}]
      BY <1>1 DEF Publish
    <2>2. vectors' \in [Ids -> Item \cup {None}]
      BY <1>1 DEF Publish, Types
    <2>3. OwnRowids'
      BY <1>1 DEF Publish, OwnRowids, Indexed
    <2>4. ASSUME NEW i \in Ids, vectors'[i] # None
          PROVE  /\ rows'[vectors'[i].file] # None
                 /\ rows'[vectors'[i].file].id = i
                 /\ rows'[vectors'[i].file].text = vectors'[i].hash
      <3>1. vectors'[i] = vectors[i] /\ \E f \in Indexed : rows[f].id = i /\ rows'[f] = rows[f]
        BY <1>1, <2>4, Zenon DEF Publish
      <3>2. PICK f \in Indexed : rows[f].id = i /\ rows'[f] = rows[f]
        BY <3>1
      <3>3. /\ rows[vectors[i].file] # None
            /\ rows[vectors[i].file].id = i
            /\ rows[vectors[i].file].text = vectors[i].hash
        BY <2>4, <3>1 DEF VectorsOfTheirSymbols
      <3>4. vectors[i].file \in Files
        BY <2>4, <3>1 DEF Types, Item
      <3>5. vectors[i].file = f
        BY <3>2, <3>3, <3>4 DEF OwnRowids, Indexed
      <3> QED BY <3>1, <3>2, <3>3, <3>5
    <2>5. VectorsOfTheirSymbols'
      BY <2>4 DEF VectorsOfTheirSymbols
    <2> QED BY <2>1, <2>2, <2>3, <2>5 DEF Types
  <1>2. CASE ~Publish
    <2>1. rows' = rows /\ gen' = gen
      BY <1>2, RowsStay
    <2>2. disk' \in [Files -> Texts \cup {None}]
      <3>1. CASE \E f \in Files : Edit(f)
        BY <3>1 DEF Edit, Types
      <3>2. CASE ~ \E f \in Files : Edit(f)
        <4>1. disk' = disk
          BY <1>2, <3>2 DEF Next, vars, SessionOver, OtherRefresh, Step, Ask, LookupExact,
             LookupSemantic, Refresh, CheckPrint, Drop, Rerank, Fence, AfterLookup, EmbedQuery,
             Snapshot, CommitBatch, EmbedFails, TakeForRanking, Answer
        <4> QED BY <4>1 DEF Types
      <3> QED BY <3>1, <3>2
    <2>3. \/ \A i \in Ids : vectors'[i] = vectors[i] \/ vectors'[i] = Refreshed[i] \/ vectors'[i] = None
          \/ \E c \in Calls : CommitBatch(c)
      <3>1. CASE OtherRefresh
        BY <3>1 DEF OtherRefresh
      <3>2. CASE \E c \in Calls : Rerank(c)
        BY <3>2 DEF Rerank
      <3>3. CASE ~OtherRefresh /\ ~(\E c \in Calls : Rerank(c)) /\ ~(\E c \in Calls : CommitBatch(c))
        <4>1. vectors' = vectors
          BY <1>2, <3>3 DEF Next, vars, SessionOver, Edit, Step, Ask, LookupExact,
             LookupSemantic, Refresh, CheckPrint, Drop, Fence, AfterLookup, EmbedQuery,
             Snapshot, EmbedFails, TakeForRanking, Answer
        <4> QED BY <4>1
      <3> QED BY <3>1, <3>2, <3>3
    <2>4. ASSUME \A i \in Ids : vectors'[i] = vectors[i] \/ vectors'[i] = Refreshed[i] \/ vectors'[i] = None
          PROVE  VectorsOfTheirSymbols'
      <3> SUFFICES ASSUME NEW i \in Ids, vectors'[i] # None
                   PROVE  /\ rows[vectors'[i].file] # None
                          /\ rows[vectors'[i].file].id = i
                          /\ rows[vectors'[i].file].text = vectors'[i].hash
        BY <2>1 DEF VectorsOfTheirSymbols
      <3>1. CASE vectors'[i] = vectors[i]
        <4>1. /\ rows[vectors[i].file] # None
              /\ rows[vectors[i].file].id = i
              /\ rows[vectors[i].file].text = vectors[i].hash
          BY <3>1, Zenon DEF VectorsOfTheirSymbols
        <4> QED BY <3>1, <4>1
      <3>2. CASE vectors'[i] # vectors[i]
        <4>1. vectors'[i] = Refreshed[i]
          BY <2>4, <3>2
        <4>2. PICK f \in Indexed : rows[f].id = i /\ Refreshed[i].file = f
                                      /\ Refreshed[i].hash = rows[f].text
          BY <3>2, <4>1, RefreshedType
        <4> QED BY <4>1, <4>2 DEF Indexed
      <3> QED BY <3>1, <3>2
    <2>5. ASSUME NEW c \in Calls, CommitBatch(c) PROVE VectorsOfTheirSymbols'
      <3>1. PICK item \in calls[c].pending :
              vectors' = IF SameSymbol(item) THEN [vectors EXCEPT ![item.id] = item] ELSE vectors
        BY <2>5 DEF CommitBatch
      <3>2. item \in Item
        BY <3>1 DEF Types, Call
      <3> QED BY <2>1, <3>1, <3>2 DEF VectorsOfTheirSymbols, SameSymbol, Types, Item
    <2>6. VectorsOfTheirSymbols'
      BY <2>3, <2>4, <2>5
    <2>7. vectors' \in [Ids -> Item \cup {None}]
      <3>1. CASE OtherRefresh
        BY <3>1, RefreshedType DEF OtherRefresh
      <3>2. CASE \E c \in Calls : Rerank(c)
        BY <3>2, RefreshedType DEF Rerank, Types
      <3>3. CASE \E c \in Calls : CommitBatch(c)
        <4>1. PICK c \in Calls : CommitBatch(c)
          BY <3>3
        <4>2. PICK item \in calls[c].pending :
                vectors' = IF SameSymbol(item) THEN [vectors EXCEPT ![item.id] = item] ELSE vectors
          BY <4>1 DEF CommitBatch
        <4>3. item \in Item
          BY <4>2 DEF Types, Call
        <4> QED BY <4>2, <4>3 DEF Types, Item
      <3>4. CASE ~OtherRefresh /\ ~(\E c \in Calls : Rerank(c)) /\ ~(\E c \in Calls : CommitBatch(c))
        <4>1. vectors' = vectors
          BY <1>2, <3>4 DEF Next, vars, SessionOver, Edit, Step, Ask, LookupExact,
             LookupSemantic, Refresh, CheckPrint, Drop, Fence, AfterLookup, EmbedQuery,
             Snapshot, EmbedFails, TakeForRanking, Answer
        <4> QED BY <4>1 DEF Types
      <3> QED BY <3>1, <3>2, <3>3, <3>4
    <2> QED BY <2>1, <2>2, <2>6, <2>7 DEF Types, OwnRowids, Indexed
  <1> QED BY <1>1, <1>2

LEMMA CallChanges ==
  ASSUME calls \in [Calls -> Call], NEW c \in Calls, NEW x \in Call,
         calls' = [calls EXCEPT ![c] = x]
  PROVE  calls' \in [Calls -> Call]
  OBVIOUS

(* The types of the cache and of the calls. *)
LEMMA CacheTypesStep ==
  ASSUME IInv, [Next]_vars
  PROVE  /\ DOMAIN entries' \subseteq Key
         /\ \A k \in DOMAIN entries' : entries'[k] \in Entry
         /\ calls' \in [Calls -> Call]
  <1>1. /\ DOMAIN entries \subseteq Key
        /\ \A k \in DOMAIN entries : entries[k] \in Entry
        /\ calls \in [Calls -> Call] /\ gen \in Nat
    BY DEF IInv, Types
  <1>2. CASE entries' = entries /\ calls' = calls
    BY <1>1, <1>2
  <1>3. ASSUME NEW c \in Calls, NEW q \in Queries, NEW model \in BOOLEAN, Ask(c, q, model)
        PROVE  entries' = entries /\ calls' \in [Calls -> Call]
    BY <1>1, <1>3 DEF Ask, Rest, Call, Labels, Key
  <1>4. ASSUME NEW c \in Calls, Drop(c)
        PROVE  /\ DOMAIN entries' \subseteq Key
               /\ \A k \in DOMAIN entries' : entries'[k] \in Entry
               /\ calls' \in [Calls -> Call]
    BY <1>1, <1>4 DEF Drop, Without, Call, Labels
  <1>5. ASSUME NEW c \in Calls, LookupExact(c)
        PROVE  entries' = entries /\ calls' \in [Calls -> Call]
    <2>1. calls[c] \in Call
      BY <1>1
    <2>2. [calls[c] EXCEPT !.pc = "refresh", !.before = gen, !.source = calls[c].key] \in Call
      BY <1>1, <2>1 DEF Call, Labels
    <2>3. [calls[c] EXCEPT !.pc = "closed"] \in Call
      BY <2>1 DEF Call, Labels
    <2>4. \E x \in Call : calls' = [calls EXCEPT ![c] = x]
      BY <1>5, <2>2, <2>3 DEF LookupExact
    <2> QED BY <1>1, <1>5, <2>4, CallChanges DEF LookupExact
  <1>6. ASSUME NEW c \in Calls, LookupSemantic(c)
        PROVE  entries' = entries /\ calls' \in [Calls -> Call]
    <2>1. calls[c] \in Call
      BY <1>1
    <2>2. ASSUME NEW k \in Key
          PROVE  [calls[c] EXCEPT !.pc = "refresh", !.before = gen, !.source = k] \in Call
      BY <1>1, <2>1 DEF Call, Labels
    <2>3. [calls[c] EXCEPT !.pc = "closed"] \in Call
      BY <2>1 DEF Call, Labels
    <2>4. Candidates(c) \subseteq Key
      BY <1>1 DEF Candidates, Scored
    <2>5. \E x \in Call : calls' = [calls EXCEPT ![c] = x]
      BY <1>6, <2>2, <2>3, <2>4 DEF LookupSemantic
    <2> QED BY <1>1, <1>6, <2>5, CallChanges DEF LookupSemantic
  <1>7. ASSUME NEW c \in Calls, Refresh(c)
        PROVE  entries' = entries /\ calls' \in [Calls -> Call]
    <2>1. FileHashes \in Hashes
      BY HashesOf DEF IInv
    <2>2. [calls[c] EXCEPT !.pc = "print", !.fence = gen, !.seen = FileHashes] \in Call
      BY <1>1, <2>1 DEF Call, Labels
    <2> QED BY <1>1, <1>7, <2>2, CallChanges DEF Refresh
  <1>8. ASSUME NEW c \in Calls, CheckPrint(c), ~Drop(c)
        PROVE  entries' = entries /\ calls' \in [Calls -> Call]
    BY <1>1, <1>8 DEF CheckPrint, Call, Labels
  <1>9. ASSUME NEW c \in Calls, Rerank(c), ~Drop(c)
        PROVE  /\ DOMAIN entries' \subseteq Key
               /\ \A k \in DOMAIN entries' : entries'[k] \in Entry
               /\ calls' \in [Calls -> Call]
    <2>1. At(c, "rerank") /\ calls[c].seen \in Hashes /\ calls[c].source \in DOMAIN entries
      BY <1>9 DEF Rerank, At, IInv, Validating, ValidatingOf
    <2>2. PICK e \in BOOLEAN :
            /\ entries' = [entries EXCEPT ![calls[c].source].state = calls[c].seen,
                                          ![calls[c].source].exact = e]
            /\ calls' = [calls EXCEPT ![c].pc = "fence"]
      <3>1. (~calls[c].source.model \/ Faithful(IF calls[c].source.model THEN Refreshed ELSE vectors)) \in BOOLEAN
        BY DEF Faithful
      <3> QED BY <1>9, <3>1 DEF Rerank
    <2>3. calls' \in [Calls -> Call]
      BY <1>1, <2>2 DEF Call, Labels
    <2>4. entries[calls[c].source] \in Entry
      BY <1>1, <2>1
    <2>5. [entries[calls[c].source] EXCEPT !.state = calls[c].seen, !.exact = e] \in Entry
      BY <2>1, <2>4 DEF Entry
    <2>6. entries' = [entries EXCEPT ![calls[c].source] =
                        [entries[calls[c].source] EXCEPT !.state = calls[c].seen, !.exact = e]]
      BY <2>1, <2>2
    <2> QED BY <1>1, <2>1, <2>3, <2>5, <2>6
  <1>10. ASSUME NEW c \in Calls, Fence(c), ~Drop(c)
         PROVE  entries' = entries /\ calls' \in [Calls -> Call]
    <2>1. calls[c].source \in DOMAIN entries
      BY <1>10 DEF Fence, At, IInv, Validating, ValidatingOf
    <2>2. [key |-> calls[c].source, hits |-> entries[calls[c].source].hits,
           print |-> entries[calls[c].source].print,
           exact |-> entries[calls[c].source].exact] \in Hit
      BY <1>1, <2>1 DEF Entry, Hit
    <2> DEFINE h == [key |-> calls[c].source, hits |-> entries[calls[c].source].hits,
                     print |-> entries[calls[c].source].print,
                     exact |-> entries[calls[c].source].exact]
    <2>3. [calls[c] EXCEPT !.pc = "closed", !.hit = h] \in Call
      <3> HIDE DEF h
      <3> QED BY <1>1, <2>2 DEF Call, Labels, h
    <2>4. calls' = [calls EXCEPT ![c] = [calls[c] EXCEPT !.pc = "closed", !.hit = h]]
      BY <1>1, <1>10 DEF Fence
    <2> QED BY <1>1, <1>10, <2>3, <2>4, CallChanges DEF Fence
  <1>11. ASSUME NEW c \in Calls, AfterLookup(c)
         PROVE  entries' = entries /\ calls' \in [Calls -> Call]
    <2>1. HitAcross(c) \in Hit \cup {None}
      BY <1>1 DEF HitAcross, Call
    <2>2. ASSUME NEW h \in Hit \cup {None}, NEW l \in {"rank", "query", "snapshot"}
          PROVE  [calls[c] EXCEPT !.hit = h, !.hitGen = gen, !.seen = None, !.source = None,
                                  !.fence = 0, !.before = 0, !.pc = l] \in Call
      <3>1. calls[c] \in Call /\ gen \in Nat /\ l \in Labels
        BY <1>1 DEF Labels
      <3> QED BY <3>1 DEF Call
    <2>3. \E x \in Call : calls' = [calls EXCEPT ![c] = x]
      BY <1>11, <2>1, <2>2 DEF AfterLookup
    <2> QED BY <1>1, <1>11, <2>3, CallChanges DEF AfterLookup
  <1>12. ASSUME NEW c \in Calls, EmbedQuery(c)
         PROVE  entries' = entries /\ calls' \in [Calls -> Call]
    BY <1>1, <1>12 DEF EmbedQuery, Call, Labels
  <1>13. ASSUME NEW c \in Calls, Snapshot(c)
         PROVE  entries' = entries /\ calls' \in [Calls -> Call]
    <2>1. Pending \subseteq Item
      BY RefreshedType DEF IInv
    <2>2. [calls[c] EXCEPT !.pc = "embed", !.pending = Pending] \in Call
      BY <1>1, <2>1 DEF Call, Labels
    <2>3. calls' = [calls EXCEPT ![c] = [calls[c] EXCEPT !.pc = "embed", !.pending = Pending]]
      BY <1>1, <1>13 DEF Snapshot
    <2> QED BY <1>1, <1>13, <2>2, <2>3, CallChanges DEF Snapshot
  <1>14. ASSUME NEW c \in Calls, CommitBatch(c)
         PROVE  entries' = entries /\ calls' \in [Calls -> Call]
    BY <1>1, <1>14 DEF CommitBatch, Call
  <1>15. ASSUME NEW c \in Calls, EmbedFails(c) \/ TakeForRanking(c)
         PROVE  entries' = entries /\ calls' \in [Calls -> Call]
    BY <1>1, <1>15 DEF EmbedFails, TakeForRanking, Call, Labels
  <1>16. ASSUME NEW c \in Calls, Answer(c)
         PROVE  /\ DOMAIN entries' \subseteq Key
                /\ \A k \in DOMAIN entries' : entries'[k] \in Entry
                /\ calls' \in [Calls -> Call]
    <2>1. calls' \in [Calls -> Call]
      BY <1>1, <1>16 DEF Answer, Rest, Call, Labels
    <2>2. CASE entries' = entries
      BY <1>1, <2>1, <2>2
    <2>3. CASE entries' # entries
      <3> DEFINE k == calls[c].key
                 hits == RankBy(k.query, k.model /\ calls[c].refreshed, vectors)
                 oldest == IF Full(Len(used)) THEN {Head(used)} ELSE {}
                 new == [hits |-> hits, print |-> Fingerprint(hits, FileHashes),
                         state |-> FileHashes, exact |-> ~k.model \/ Faithful(vectors)]
      <3>1. k \in Key /\ calls[c].refreshed \in BOOLEAN
        BY <1>1, <1>16 DEF Answer, At, IInv, Types, Call
      <3>2. entries' = [x \in (DOMAIN entries \ oldest) \cup {k} |-> IF x = k THEN new ELSE entries[x]]
        BY <1>16, <2>3 DEF Answer, Insert
      <3>3. hits \in SUBSET Files
        BY <3>1, RankingOf DEF IInv, Key
      <3>4. FileHashes \in Hashes
        BY HashesOf DEF IInv
      <3>5. Fingerprint(hits, FileHashes) \in Hashes
        BY <3>4 DEF Fingerprint, Hashes
      <3>6. (~k.model \/ Faithful(vectors)) \in BOOLEAN
        BY <3>1 DEF Faithful, Key
      <3>7. new \in Entry
        BY <3>3, <3>4, <3>5, <3>6 DEF Entry, Ranking
      <3> HIDE DEF k, hits, oldest, new
      <3> QED BY <1>1, <2>1, <3>1, <3>2, <3>7
    <2> QED BY <2>2, <2>3
  <1>17. CASE ~ (\E c \in Calls : Step(c) \/ \E q \in Queries, model \in BOOLEAN : Ask(c, q, model))
    <2>1. entries' = entries /\ calls' = calls
      BY <1>17 DEF Next, vars, SessionOver, Edit, Publish, OtherRefresh
    <2> QED BY <1>1, <2>1
  <1>18. ASSUME NEW c \in Calls, Step(c)
         PROVE  /\ DOMAIN entries' \subseteq Key
                /\ \A k \in DOMAIN entries' : entries'[k] \in Entry
                /\ calls' \in [Calls -> Call]
    BY <1>1, <1>4, <1>5, <1>6, <1>7, <1>8, <1>9, <1>10, <1>11, <1>12, <1>13, <1>14, <1>15,
       <1>16, <1>18
       DEF Step
  <1> QED BY <1>1, <1>3, <1>17, <1>18

(* A call that was made keeps its key. *)
LEMMA KeyedStep ==
  ASSUME IInv, [Next]_vars, NEW d \in Calls, calls'[d].pc # "idle"
  PROVE  calls'[d].key \in Key
  <1>1. calls \in [Calls -> Call] /\ (calls[d].pc # "idle" => calls[d].key \in Key)
    BY DEF IInv, Types
  <1>2. CASE calls' = calls
    BY <1>1, <1>2
  <1>3. ASSUME NEW c \in Calls, NEW q \in Queries, NEW model \in BOOLEAN, Ask(c, q, model)
        PROVE  calls'[d].key \in Key
    BY <1>1, <1>3 DEF Ask, Rest, Key
  <1>4. ASSUME NEW c \in Calls, Step(c), ~Answer(c)
        PROVE  calls'[d].key = calls[d].key /\ (calls[d].pc = "idle" => calls'[d].pc = "idle")
    <2>1. CASE d # c
      BY <1>1, <1>4, <2>1, OthersStay DEF IInv
    <2>2. CASE d = c
      <3>1. CASE LookupExact(c)
        BY <1>1, <2>2, <3>1 DEF Call, At, LookupExact
      <3>5. CASE LookupSemantic(c)
        BY <1>1, <2>2, <3>5 DEF Call, At, LookupSemantic
      <3>6. CASE Refresh(c)
        BY <1>1, <2>2, <3>6 DEF Call, At, Refresh
      <3>7. CASE CheckPrint(c)
        BY <1>1, <2>2, <3>7 DEF Call, At, CheckPrint, Drop
      <3>2. CASE Rerank(c) \/ Fence(c)
        BY <1>1, <2>2, <3>2 DEF Call, At, Rerank, Fence, Drop
      <3>3. CASE AfterLookup(c)
        BY <1>1, <2>2, <3>3 DEF Call, At, AfterLookup
      <3>4. CASE EmbedQuery(c) \/ Snapshot(c) \/ CommitBatch(c) \/ EmbedFails(c) \/ TakeForRanking(c)
        BY <1>1, <2>2, <3>4 DEF Call, At, EmbedQuery, Snapshot, CommitBatch, EmbedFails,
           TakeForRanking
      <3> QED BY <1>4, <3>1, <3>2, <3>3, <3>4, <3>5, <3>6, <3>7 DEF Step
    <2> QED BY <2>1, <2>2
  <1>5. ASSUME NEW c \in Calls, Answer(c)
        PROVE  calls'[d].key \in Key
    BY <1>1, <1>5 DEF Answer, Rest
  <1>6. CASE ~ (\E c \in Calls : Step(c) \/ \E q \in Queries, model \in BOOLEAN : Ask(c, q, model))
    BY <1>2, <1>6 DEF Next, vars, SessionOver, Edit, Publish, OtherRefresh
  <1> QED BY <1>1, <1>3, <1>4, <1>5, <1>6

LEMMA TypesStep ==
  ASSUME IInv, [Next]_vars
  PROVE  Types'
  BY RowsStep, CacheTypesStep, KeyedStep DEF Types

LEMMA SemanticOutcome ==
  ASSUME IInv, NEW c \in Calls, LookupSemantic(c)
  PROVE  /\ calls'[c].hit = calls[c].hit
         /\ \/ calls'[c].pc = "closed"
            \/ /\ calls'[c].pc = "refresh" /\ calls'[c].before = gen
               /\ calls'[c].source \in DOMAIN entries
  <1>1. calls \in [Calls -> Call] /\ calls[c] \in Call
    BY DEF IInv, Types
  <1>2. CASE calls' = [calls EXCEPT ![c].pc = "closed"]
    BY <1>1, <1>2 DEF Call
  <1>3. ASSUME NEW k \in Candidates(c),
               calls' = [calls EXCEPT ![c] = [@ EXCEPT !.pc = "refresh", !.before = gen, !.source = k]]
        PROVE  /\ calls'[c].pc = "refresh" /\ calls'[c].before = gen
               /\ calls'[c].source \in DOMAIN entries /\ calls'[c].hit = calls[c].hit
    <2>1. calls'[c] = [calls[c] EXCEPT !.pc = "refresh", !.before = gen, !.source = k]
      BY <1>1, <1>3
    <2>2. k \in DOMAIN entries
      BY <1>3 DEF Candidates, Scored
    <2> QED BY <1>1, <2>1, <2>2 DEF Call
  <1> QED BY <1>2, <1>3 DEF LookupSemantic

(* The mutex. *)
LEMMA MutexStep ==
  ASSUME IInv, [Next]_vars
  PROVE  MutexInv'
  <1> SUFFICES ASSUME NEW d \in Calls PROVE calls'[d].pc \in Inside <=> mutex' = d
    BY DEF MutexInv
  <1>1. calls \in [Calls -> Call] /\ \A e \in Calls : calls[e].pc \in Inside <=> mutex = e
    BY DEF IInv, Types, MutexInv
  <1>2. CASE calls' = calls /\ mutex' = mutex
    BY <1>1, <1>2
  <1>3. ASSUME NEW c \in Calls, NEW q \in Queries, NEW model \in BOOLEAN, Ask(c, q, model)
        PROVE  calls'[d].pc \in Inside <=> mutex' = d
    BY <1>1, <1>3 DEF Ask, At, Rest, Inside
  <1>4. ASSUME NEW c \in Calls, LookupExact(c) \/ LookupSemantic(c)
        PROVE  calls'[d].pc \in Inside <=> mutex' = d
    <2>1. mutex = None /\ mutex' = c
      BY <1>4 DEF LookupExact, LookupSemantic
    <2>2. calls'[c].pc \in {"refresh", "closed"}
      <3>1. CASE LookupExact(c)
        BY <1>1, <3>1 DEF LookupExact, Call
      <3>2. CASE LookupSemantic(c)
        BY <3>2, SemanticOutcome
      <3> QED BY <1>4, <3>1, <3>2
    <2>3. c # d => calls'[d] = calls[d]
      BY <1>4, OthersStay DEF IInv, Step
    <2> QED BY <1>1, <2>1, <2>2, <2>3, RetrievalAssumption DEF Inside
  <1>5. ASSUME NEW c \in Calls, Refresh(c) \/ CheckPrint(c) \/ Rerank(c) \/ Fence(c)
        PROVE  calls'[d].pc \in Inside <=> mutex' = d
    <2>1. mutex' = mutex /\ calls[c].pc \in Inside
      BY <1>5 DEF Refresh, CheckPrint, Rerank, Fence, At, Inside
    <2>2. CASE Refresh(c) \/ CheckPrint(c)
      BY <1>1, <2>1, <2>2 DEF Refresh, CheckPrint, Drop, Call, Inside
    <2>3. CASE Rerank(c)
      BY <1>1, <2>1, <2>3 DEF Rerank, Drop, Call, Inside
    <2>4. CASE Fence(c)
      BY <1>1, <2>1, <2>4 DEF Fence, Drop, Call, Inside
    <2> QED BY <1>5, <2>2, <2>3, <2>4
  <1>6. ASSUME NEW c \in Calls, AfterLookup(c)
        PROVE  calls'[d].pc \in Inside <=> mutex' = d
    <2>1. calls[c].pc \in Inside
      BY <1>6 DEF AfterLookup, At, Inside
    <2>2. c # d => calls'[d] = calls[d]
      BY <1>6, OthersStay DEF IInv, Step
    <2>3. \/ calls'[c].pc = "rank" /\ mutex' = mutex
          \/ calls'[c].pc \in {"query", "snapshot"} /\ mutex' = None
      BY <1>1, <1>6 DEF AfterLookup, Call
    <2> QED BY <1>1, <2>1, <2>2, <2>3, RetrievalAssumption DEF Inside
  <1>7. ASSUME NEW c \in Calls, EmbedQuery(c) \/ Snapshot(c) \/ EmbedFails(c) \/ CommitBatch(c)
        PROVE  calls'[d].pc \in Inside <=> mutex' = d
    BY <1>1, <1>7 DEF EmbedQuery, Snapshot, EmbedFails, CommitBatch, At, Call, Inside
  <1>8. ASSUME NEW c \in Calls, TakeForRanking(c)
        PROVE  calls'[d].pc \in Inside <=> mutex' = d
    BY <1>1, <1>8, RetrievalAssumption DEF TakeForRanking, Call, Inside
  <1>9. ASSUME NEW c \in Calls, Answer(c)
        PROVE  calls'[d].pc \in Inside <=> mutex' = d
    BY <1>1, <1>9, RetrievalAssumption DEF Answer, At, Rest, Inside
  <1>10. CASE ~ (\E c \in Calls : Step(c) \/ \E q \in Queries, model \in BOOLEAN : Ask(c, q, model))
    <2>1. calls' = calls /\ mutex' = mutex
      BY <1>10 DEF Next, vars, SessionOver, Edit, Publish, OtherRefresh
    <2> QED BY <1>2, <2>1
  <1> QED BY <1>3, <1>4, <1>5, <1>6, <1>7, <1>8, <1>9, <1>10 DEF Step

(* The cache changes under the mutex only. *)
LEMMA CacheUnderMutex ==
  ASSUME [Next]_vars, entries' # entries
  PROVE  \E c \in Calls : calls[c].pc \in {"print", "rerank", "fence", "rank"} /\ Step(c)
  <1>1. PICK c \in Calls : Step(c)
    BY DEF Next, vars, SessionOver, Edit, Publish, OtherRefresh, Ask
  <1>2. CheckPrint(c) \/ Rerank(c) \/ Fence(c) \/ Answer(c)
    BY <1>1 DEF Step, LookupExact, LookupSemantic, Refresh, AfterLookup, EmbedQuery, Snapshot,
       CommitBatch, EmbedFails, TakeForRanking
  <1> QED BY <1>1, <1>2 DEF CheckPrint, Rerank, Fence, Answer, At

(* A call that takes no step keeps what it knows. *)
LEMMA QuietCall ==
  ASSUME IInv, [Next]_vars, NEW d \in Calls, calls'[d] = calls[d],
         calls[d].pc \in Inside => entries' = entries
  PROVE  ValidatingOf(d)' /\ HitOf(d)'
  <1>1. ValidatingOf(d) /\ HitOf(d) /\ gen \in Nat
    BY DEF IInv, Validating, HitsInv, Types
  <1>2. CASE Publish
    <2>1. gen' = gen + 1 /\ entries' = entries
      BY <1>2 DEF Publish
    <2>2. calls[d].before \in Nat /\ calls[d].fence \in Nat /\ calls[d].hitGen \in Nat
      BY DEF IInv, Types, Call
    <2>3. ValidatingOf(d)'
      BY <1>1, <2>1, <2>2, SMTT(30) DEF ValidatingOf, Printed
    <2>4. HitOf(d)'
      BY <1>1, <2>1, <2>2 DEF HitOf
    <2> QED BY <2>3, <2>4
  <1>3. CASE ~Publish
    <2>1. rows' = rows /\ gen' = gen
      BY <1>3, RowsStay
    <2>2. FileHashes' = FileHashes
      BY <2>1 DEF FileHashes, HashOf
    <2>3. ValidatingOf(d)'
      BY <1>1, <2>1, <2>2 DEF ValidatingOf, Printed, Inside
    <2>4. HitOf(d)'
      BY <1>1, <2>1, <2>2 DEF HitOf, Current, Printed, ByWords, ByBoth
    <2> QED BY <2>3, <2>4
  <1> QED BY <1>2, <1>3

(* The call at work. *)
LEMMA ValidatingCall ==
  ASSUME IInv, [Next]_vars, NEW c \in Calls, Step(c)
  PROVE  ValidatingOf(c)'
  <1>1. calls[c] \in Call /\ calls \in [Calls -> Call] /\ ValidatingOf(c) /\ gen \in Nat
    BY DEF IInv, Validating, Types
  <1>2. rows' = rows /\ gen' = gen /\ FileHashes' = FileHashes
    <2>1. rows' = rows /\ gen' = gen
      BY DEF Step, LookupExact, LookupSemantic, Refresh, CheckPrint, Drop, Rerank, Fence,
         AfterLookup,
         EmbedQuery, Snapshot, CommitBatch, EmbedFails, TakeForRanking, Answer
    <2> QED BY <2>1 DEF FileHashes, HashOf
  <1>3. CASE LookupExact(c)
    BY <1>1, <1>2, <1>3 DEF LookupExact, ValidatingOf, Call
  <1>4. CASE LookupSemantic(c)
    <2>1. entries' = entries
      BY <1>4 DEF LookupSemantic
    <2> QED BY <1>1, <1>2, <1>4, <2>1, SemanticOutcome DEF ValidatingOf
  <1>5. CASE Refresh(c)
    <2>1. FileHashes \in Hashes
      BY HashesOf DEF IInv
    <2>2. /\ calls'[c].pc = "print" /\ calls'[c].seen = FileHashes /\ calls'[c].fence = gen
          /\ calls'[c].source = calls[c].source /\ calls'[c].before = calls[c].before
      BY <1>1, <1>5 DEF Refresh, Call
    <2>3. calls[c].pc = "refresh" /\ entries' = entries
      BY <1>5 DEF Refresh, At
    <2> QED BY <1>1, <1>2, <2>1, <2>2, <2>3 DEF ValidatingOf, Call
  <1>6. ASSUME Drop(c) PROVE ValidatingOf(c)'
    BY <1>1, <1>6 DEF Drop, ValidatingOf, Call
  <1>7. CASE CheckPrint(c) /\ ~Drop(c)
    <2>1. /\ calls'[c].pc \in {"fence", "rerank"}
          /\ calls'[c].pc = "fence" => entries[calls[c].source].state = calls[c].seen
          /\ calls'[c].source = calls[c].source /\ calls'[c].before = calls[c].before
          /\ calls'[c].seen = calls[c].seen /\ calls'[c].fence = calls[c].fence
      BY <1>1, <1>7 DEF CheckPrint, Call
    <2>2. calls[c].pc = "print" /\ entries' = entries
      BY <1>7 DEF CheckPrint, At
    <2>3. Printed(entries[calls[c].source], calls[c].seen)
      BY <1>7 DEF CheckPrint, SamePrint, Printed
    <2> QED BY <1>1, <1>2, <2>1, <2>2, <2>3, Zenon DEF ValidatingOf
  <1>8. CASE Rerank(c) /\ ~Drop(c)
    <2> DEFINE src == calls[c].source
    <2>1. /\ calls'[c].pc = "fence"
          /\ calls'[c].source = src /\ calls'[c].before = calls[c].before
          /\ calls'[c].seen = calls[c].seen /\ calls'[c].fence = calls[c].fence
      BY <1>1, <1>8 DEF Rerank, Call
    <2>2. calls[c].pc = "rerank" /\ src \in DOMAIN entries
      BY <1>1, <1>8 DEF Rerank, At, ValidatingOf
    <2>3. entries[src] \in Entry
      BY <2>2 DEF IInv, Types
    <2>4. /\ DOMAIN entries' = DOMAIN entries
          /\ entries'[src].hits = entries[src].hits /\ entries'[src].print = entries[src].print
          /\ entries'[src].state = calls[c].seen
      BY <1>8, <2>2, <2>3 DEF Rerank, Entry
    <2>5. Printed(entries[src], calls[c].seen)
      BY <1>1, <2>2 DEF ValidatingOf
    <2>6. entries'[src].print = Fingerprint(entries'[src].hits, calls[c].seen)
            /\ \A f \in entries'[src].hits : calls[c].seen[f] # None
      BY <2>4, <2>5 DEF Printed
    <2> HIDE DEF src
    <2>7. Printed(entries[src], calls[c].seen)'
      BY <2>1, <2>6 DEF Printed, Fingerprint, src
    <2> QED BY <1>1, <1>2, <2>1, <2>2, <2>4, <2>7 DEF ValidatingOf, src
  <1>9. CASE Fence(c) /\ ~Drop(c)
    BY <1>1, <1>9 DEF Fence, ValidatingOf, Call
  <1>10. CASE AfterLookup(c)
    <2>1. calls'[c].pc \in {"rank", "query", "snapshot"}
      BY <1>1, <1>10 DEF AfterLookup, Call
    <2> QED BY <2>1 DEF ValidatingOf
  <1>11. CASE EmbedQuery(c) \/ Snapshot(c) \/ EmbedFails(c) \/ TakeForRanking(c)
    BY <1>1, <1>11 DEF EmbedQuery, Snapshot, EmbedFails, TakeForRanking, ValidatingOf, Call
  <1>12. CASE CommitBatch(c)
    BY <1>1, <1>12 DEF CommitBatch, ValidatingOf, Call, At
  <1>13. CASE Answer(c)
    <2>1. calls'[c].pc = "idle"
      BY <1>1, <1>13 DEF Answer, Rest
    <2> QED BY <2>1 DEF ValidatingOf
  <1> QED BY <1>3, <1>4, <1>5, <1>6, <1>7, <1>8, <1>9, <1>10, <1>11, <1>12, <1>13 DEF Step

(* The hits. *)
LEMMA HitCall ==
  ASSUME IInv, [Next]_vars, NEW c \in Calls, Step(c)
  PROVE  HitOf(c)'
  <1>1. /\ calls[c] \in Call /\ calls \in [Calls -> Call] /\ gen \in Nat
        /\ ValidatingOf(c) /\ HitOf(c)
    BY DEF IInv, Validating, HitsInv, Types
  <1>2. gen' = gen /\ FileHashes' = FileHashes
    <2>1. rows' = rows /\ gen' = gen
      BY DEF Step, LookupExact, LookupSemantic, Refresh, CheckPrint, Drop, Rerank, Fence,
         AfterLookup,
         EmbedQuery, Snapshot, CommitBatch, EmbedFails, TakeForRanking, Answer
    <2> QED BY <2>1 DEF FileHashes, HashOf
  <1>3. ASSUME NEW h PROVE Current(h)' <=> Current(h)
    BY <1>2 DEF Current, Printed, ByWords, ByBoth, Fingerprint
  <1>4. CASE calls[c].hit = None /\ calls'[c].hit = calls[c].hit
    BY <1>4 DEF HitOf
  <1>5. CASE LookupExact(c)
    <2>1. calls[c].hit = None
      BY <1>1, <1>5 DEF LookupExact, At, HitOf
    <2>2. calls'[c].hit = calls[c].hit
      BY <1>1, <1>5 DEF LookupExact, Call
    <2> QED BY <1>4, <2>1, <2>2
  <1>6. CASE LookupSemantic(c)
    <2>1. calls[c].hit = None
      BY <1>1, <1>6 DEF LookupSemantic, At, HitOf
    <2> QED BY <1>4, <1>6, <2>1, SemanticOutcome
  <1>7. CASE Refresh(c) \/ CheckPrint(c)
    <2>1. calls[c].hit = None
      BY <1>1, <1>7 DEF Refresh, CheckPrint, At, HitOf
    <2>2. calls'[c].hit = calls[c].hit
      <3>1. CASE Refresh(c)
        BY <1>1, <3>1 DEF Refresh, Call
      <3>2. CASE CheckPrint(c)
        BY <1>1, <3>2 DEF CheckPrint, Drop, Call
      <3> QED BY <1>7, <3>1, <3>2
    <2> QED BY <1>4, <2>1, <2>2
  <1>8. CASE Rerank(c) \/ (Fence(c) /\ Drop(c))
    <2>1. calls[c].hit = None
      BY <1>1, <1>8 DEF Rerank, Fence, At, HitOf
    <2>2. calls'[c].hit = calls[c].hit
      BY <1>1, <1>8 DEF Rerank, Drop, Call
    <2> QED BY <1>4, <2>1, <2>2
  <1>9. CASE Fence(c) /\ ~Drop(c)
    <2> DEFINE src == calls[c].source
               h == [key |-> src, hits |-> entries[src].hits, print |-> entries[src].print,
                     exact |-> entries[src].exact]
    <2>1. calls[c].pc = "fence" /\ gen = calls[c].fence
      BY <1>9 DEF Fence, At, Unmoved
    <2>2. calls'[c].pc = "closed" /\ calls'[c].hit = h /\ calls'[c].before = calls[c].before
      BY <1>1, <1>9 DEF Fence, Call
    <2>3. /\ src \in DOMAIN entries /\ calls[c].before <= gen
          /\ entries[src].state = FileHashes
      BY <1>1, <2>1 DEF ValidatingOf
    <2>4. ~Doomed(src)
      <3>1. ASSUME NEW e \in Calls, calls[e].pc = "fence" PROVE e = c
        BY <2>1, <3>1 DEF IInv, MutexInv, Inside
      <3> QED BY <2>1, <3>1 DEF Doomed
    <2>5. EntryOf(src) /\ Printed(entries[src], entries[src].state)
      BY <2>3, <2>4 DEF IInv, EntriesInv
    <2>6. h.key = src /\ h.hits = entries[src].hits /\ h.print = entries[src].print
            /\ h.exact = entries[src].exact
      OBVIOUS
    <2> HIDE DEF h
    <2>7. Current(h)
      BY <2>3, <2>5, <2>6 DEF Current, EntryOf, Printed
    <2> QED BY <1>2, <1>3, <2>2, <2>3, <2>7 DEF HitOf
  <1>10. CASE AfterLookup(c)
    <2>1. calls[c].pc = "closed"
      BY <1>10 DEF AfterLookup, At
    <2>2. /\ calls'[c].hit = HitAcross(c) /\ calls'[c].hitGen = gen
          /\ HitAcross(c) # None => calls'[c].pc = "rank"
      BY <1>1, <1>10 DEF AfterLookup, Call
    <2>3. CASE HitAcross(c) = None
      BY <2>2, <2>3 DEF HitOf
    <2>4. CASE HitAcross(c) # None
      <3>1. calls[c].before = gen /\ HitAcross(c) = calls[c].hit
        BY <2>4 DEF HitAcross
      <3>2. Current(HitAcross(c))
        BY <1>1, <2>1, <2>4, <3>1 DEF HitOf
      <3> QED BY <1>1, <1>2, <1>3, <2>2, <2>4, <3>2 DEF HitOf
    <2> QED BY <2>3, <2>4
  <1>11. CASE EmbedQuery(c) \/ Snapshot(c) \/ EmbedFails(c)
    <2>1. calls[c].hit = None
      BY <1>1, <1>11 DEF EmbedQuery, Snapshot, EmbedFails, At, HitOf
    <2>2. calls'[c].hit = calls[c].hit
      BY <1>1, <1>11 DEF EmbedQuery, Snapshot, EmbedFails, Call
    <2> QED BY <1>4, <2>1, <2>2
  <1>12. CASE CommitBatch(c) \/ TakeForRanking(c)
    <2>1. calls[c].hit = None
      BY <1>1, <1>12 DEF CommitBatch, TakeForRanking, At, HitOf
    <2>2. calls'[c].hit = calls[c].hit
      BY <1>1, <1>12 DEF CommitBatch, TakeForRanking, Call
    <2> QED BY <1>4, <2>1, <2>2
  <1>13. CASE Answer(c)
    <2>1. calls'[c].hit = None
      BY <1>1, <1>13 DEF Answer, Rest
    <2> QED BY <2>1 DEF HitOf
  <1> QED BY <1>5, <1>6, <1>7, <1>8, <1>9, <1>10, <1>11, <1>12, <1>13 DEF Step

(* A call that is only asked for knows nothing yet. *)
LEMMA AskedCall ==
  ASSUME IInv, NEW c \in Calls, NEW q \in Queries, NEW model \in BOOLEAN, Ask(c, q, model)
  PROVE  ValidatingOf(c)' /\ HitOf(c)'
  <1>1. calls'[c].pc = "exact" /\ calls'[c].hit = None
    BY DEF IInv, Types, Ask, Rest
  <1> QED BY <1>1 DEF ValidatingOf, HitOf

LEMMA CallsStep ==
  ASSUME IInv, [Next]_vars
  PROVE  Validating' /\ HitsInv'
  <1> SUFFICES ASSUME NEW d \in Calls PROVE ValidatingOf(d)' /\ HitOf(d)'
    BY DEF Validating, HitsInv
  <1>1. CASE Step(d)
    BY <1>1, ValidatingCall, HitCall
  <1>2. CASE \E q \in Queries, model \in BOOLEAN : Ask(d, q, model)
    BY <1>2, AskedCall
  <1>3. CASE ~Step(d) /\ ~ \E q \in Queries, model \in BOOLEAN : Ask(d, q, model)
    <2>1. calls'[d] = calls[d]
      <3>1. CASE \E c \in Calls : Step(c) \/ \E q \in Queries, model \in BOOLEAN : Ask(c, q, model)
        BY <1>3, <3>1, OthersStay DEF IInv
      <3>2. CASE ~ \E c \in Calls : Step(c) \/ \E q \in Queries, model \in BOOLEAN : Ask(c, q, model)
        BY <3>2 DEF Next, vars, SessionOver, Edit, Publish, OtherRefresh
      <3> QED BY <3>1, <3>2
    <2>2. calls[d].pc \in Inside => entries' = entries
      <3>1. SUFFICES ASSUME calls[d].pc \in Inside, entries' # entries PROVE FALSE
        OBVIOUS
      <3>2. PICK c \in Calls : calls[c].pc \in {"print", "rerank", "fence", "rank"} /\ Step(c)
        BY <3>1, CacheUnderMutex
      <3>3. c = d
        BY <3>1, <3>2 DEF IInv, MutexInv, Inside
      <3> QED BY <1>3, <3>2, <3>3
    <2> QED BY <2>1, <2>2, QuietCall
  <1> QED BY <1>1, <1>2, <1>3

(* The entries. *)
LEMMA OneValidates ==
  ASSUME IInv, NEW c \in Calls, calls[c].pc = "fence",
         NEW e \in Calls, calls[e].pc \in Inside
  PROVE  e = c
  BY DEF IInv, MutexInv, Inside

(* An entry that stays stays right, or doomed. *)
LEMMA EntryStays ==
  ASSUME IInv, [Next]_vars, NEW k \in DOMAIN entries, k \in DOMAIN entries', entries'[k] = entries[k]
  PROVE  Printed(entries[k], entries[k].state)' /\ (Doomed(k)' \/ EntryOf(k)')
  <1>1. Printed(entries[k], entries[k].state) /\ (Doomed(k) \/ EntryOf(k))
    BY DEF IInv, EntriesInv
  <1>2. Printed(entries[k], entries[k].state)'
    BY <1>1 DEF Printed, Fingerprint
  <1>3. CASE EntryOf(k)
    BY <1>2, <1>3 DEF EntryOf, ByWords, ByBoth
  <1>4. CASE Doomed(k)
    <2>1. PICK c \in Calls : calls[c].pc = "fence" /\ calls[c].source = k /\ gen # calls[c].fence
      BY <1>4 DEF Doomed
    <2>2. calls[c].fence \in Nat /\ gen \in Nat /\ calls[c].fence <= gen
      BY <2>1 DEF IInv, Types, Call, Validating, ValidatingOf
    <2>3. gen' \in Nat /\ gen <= gen'
      BY RowsStep
    <2>4. CASE calls'[c] = calls[c]
      BY <1>2, <2>1, <2>2, <2>3, <2>4 DEF Doomed
    <2>5. CASE calls'[c] # calls[c]
      <3>1. Step(c)
        <4>1. PICK e \in Calls : Step(e) \/ \E q \in Queries, model \in BOOLEAN : Ask(e, q, model)
          BY <2>5 DEF Next, vars, SessionOver, Edit, Publish, OtherRefresh
        <4>2. e = c
          BY <2>5, <4>1, OthersStay DEF IInv
        <4> QED BY <2>1, <4>1, <4>2 DEF Ask, At
      <3>2. Fence(c)
        BY <2>1, <3>1 DEF Step, LookupExact, LookupSemantic, Refresh, CheckPrint, Rerank,
           AfterLookup,
           EmbedQuery, Snapshot, CommitBatch, EmbedFails, TakeForRanking, Answer, At
      <3>3. Drop(c)
        BY <2>1, <3>2 DEF Fence, Unmoved
      <3>4. k \notin DOMAIN entries'
        BY <2>1, <3>3 DEF Drop, Without
      <3> QED BY <3>4
    <2> QED BY <2>4, <2>5
  <1> QED BY <1>1, <1>2, <1>3, <1>4

LEMMA EntriesStep ==
  ASSUME IInv, [Next]_vars
  PROVE  EntriesInv'
  <1> SUFFICES ASSUME NEW k \in DOMAIN entries'
               PROVE  Printed(entries[k], entries[k].state)' /\ (Doomed(k)' \/ EntryOf(k)')
    BY DEF EntriesInv
  <1>1. CASE k \in DOMAIN entries /\ entries'[k] = entries[k]
    BY <1>1, EntryStays
  <1>2. CASE ~(k \in DOMAIN entries /\ entries'[k] = entries[k])
    <2>1. PICK c \in Calls : calls[c].pc \in {"print", "rerank", "fence", "rank"} /\ Step(c)
      BY <1>2, CacheUnderMutex
    <2>2. /\ calls[c] \in Call /\ calls \in [Calls -> Call] /\ gen \in Nat
          /\ ValidatingOf(c) /\ calls[c].key \in Key
      BY <2>1 DEF IInv, Validating, Types
    <2>3. ~Drop(c)
      BY <1>2 DEF Drop, Without
    <2>4. (Rerank(c) \/ Answer(c)) /\ entries' # entries
      BY <1>2, <2>1, <2>3 DEF Step, LookupExact, LookupSemantic, Refresh, CheckPrint, Fence,
         AfterLookup,
         EmbedQuery, Snapshot, CommitBatch, EmbedFails, TakeForRanking
    <2>5. rows' = rows /\ gen' = gen /\ FileHashes' = FileHashes
      <3>1. rows' = rows /\ gen' = gen
        BY <2>4 DEF Rerank, Answer
      <3> QED BY <3>1 DEF FileHashes, HashOf
    <2>6. CASE Rerank(c)
      <3> DEFINE src == calls[c].source
                 vecs == IF src.model THEN Refreshed ELSE vectors
                 seen == calls[c].seen
      <3>1. calls[c].pc = "rerank" /\ src \in DOMAIN entries
        BY <2>2, <2>6 DEF Rerank, At, ValidatingOf
      <3>2. entries[src] \in Entry /\ src \in Key
        BY <3>1 DEF IInv, Types
      <3>3. /\ entries' = [entries EXCEPT ![src].state = seen,
                                          ![src].exact = ~src.model \/ Faithful(vecs)]
            /\ RankBy(src.query, src.model, vecs) = entries[src].hits
            /\ calls' = [calls EXCEPT ![c].pc = "fence"]
        BY <2>3, <2>6 DEF Rerank, same_ranking
      <3>4. k = src
        BY <1>2, <3>2, <3>3 DEF Entry
      <3>5. /\ entries'[k].hits = entries[k].hits /\ entries'[k].print = entries[k].print
            /\ entries'[k].state = seen
            /\ entries'[k].exact = (~k.model \/ Faithful(vecs))
        BY <3>1, <3>2, <3>3, <3>4 DEF Entry
      <3>6. Printed(entries[k], seen)
        BY <2>2, <3>1, <3>4 DEF ValidatingOf
      <3>7. entries'[k].print = Fingerprint(entries'[k].hits, entries'[k].state)
              /\ \A f \in entries'[k].hits : entries'[k].state[f] # None
        BY <3>5, <3>6 DEF Printed
      <3>8. Printed(entries[k], entries[k].state)'
        BY <3>7 DEF Printed, Fingerprint
      <3>9. CASE gen # calls[c].fence
        <4>1. /\ calls'[c].pc = "fence" /\ calls'[c].source = k
              /\ calls'[c].fence = calls[c].fence
          BY <2>2, <3>3, <3>4 DEF Call
        <4>2. Doomed(k)'
          BY <2>5, <3>9, <4>1 DEF Doomed
        <4> QED BY <3>8, <4>2
      <3>10. CASE gen = calls[c].fence
        <4>1. seen = FileHashes
          BY <2>2, <3>1, <3>10 DEF ValidatingOf
        <4>2. k.model \in BOOLEAN
          BY <3>2, <3>4 DEF Key
        <4>3. /\ ByWords(k.query, FileHashes) \subseteq entries[k].hits
              /\ ~k.model => entries[k].hits = ByWords(k.query, FileHashes)
              /\ Faithful(vecs) => entries[k].hits = ByBoth(k, FileHashes)
          <5> HIDE DEF src, vecs, seen
          <5>1. Types
            BY DEF IInv
          <5> QED BY <3>3, <3>4, <4>2, <5>1, RankingOf DEF ByBoth
        <4>4. ~k.model => ByBoth(k, FileHashes) = ByWords(k.query, FileHashes)
          BY DEF ByBoth
        <4>5. /\ ByWords(k.query, entries'[k].state) \subseteq entries'[k].hits
              /\ entries'[k].exact => entries'[k].hits = ByBoth(k, entries'[k].state)
          BY <3>5, <4>1, <4>3, <4>4
        <4>6. EntryOf(k)'
          BY <4>5 DEF EntryOf, ByWords, ByBoth
        <4> QED BY <3>8, <4>6
      <3> QED BY <3>9, <3>10
    <2>7. CASE Answer(c)
      <3> DEFINE key == calls[c].key
                 hits == RankBy(key.query, key.model /\ calls[c].refreshed, vectors)
                 oldest == IF Full(Len(used)) THEN {Head(used)} ELSE {}
                 new == [hits |-> hits, print |-> Fingerprint(hits, FileHashes),
                         state |-> FileHashes, exact |-> ~key.model \/ Faithful(vectors)]
      <3>1. entries' = [x \in (DOMAIN entries \ oldest) \cup {key} |-> IF x = key THEN new ELSE entries[x]]
        BY <2>4, <2>7 DEF Answer, Insert
      <3>2. k = key /\ entries'[k] = new
        BY <1>2, <3>1
      <3>3. key.model = (key.model /\ calls[c].refreshed)
        BY <2>4, <2>7 DEF Answer, RanAsKeyed
      <3>4. k.model \in BOOLEAN
        BY <2>2, <3>2 DEF Key
      <3>5. /\ hits \subseteq Files
            /\ ByWords(k.query, FileHashes) \subseteq hits
            /\ ~k.model => hits = ByWords(k.query, FileHashes)
            /\ Faithful(vectors) => hits = ByBoth(k, FileHashes)
        <4>1. Types
          BY DEF IInv
        <4>2. hits = RankBy(k.query, k.model, vectors)
          BY <3>2, <3>3
        <4> HIDE DEF hits, key
        <4> QED BY <3>4, <4>1, <4>2, RankingOf DEF ByBoth
      <3>6. ~k.model => ByBoth(k, FileHashes) = ByWords(k.query, FileHashes)
        BY DEF ByBoth
      <3>7. \A f \in hits : FileHashes[f] # None
        BY HashesOf DEF RankBy, Indexed, IInv
      <3> HIDE DEF hits, key, oldest
      <3>8. /\ entries'[k].hits = hits /\ entries'[k].print = Fingerprint(hits, FileHashes)
            /\ entries'[k].state = FileHashes
            /\ entries'[k].exact = (~k.model \/ Faithful(vectors))
        BY <3>2
      <3>9. Printed(entries[k], entries[k].state)'
        BY <3>7, <3>8 DEF Printed, Fingerprint
      <3>10. /\ ByWords(k.query, entries'[k].state) \subseteq entries'[k].hits
             /\ entries'[k].exact => entries'[k].hits = ByBoth(k, entries'[k].state)
        BY <3>5, <3>6, <3>8
      <3>11. EntryOf(k)'
        BY <3>10 DEF EntryOf, ByWords, ByBoth
      <3> QED BY <3>9, <3>11
    <2> QED BY <2>4, <2>6, <2>7
  <1> QED BY <1>1, <1>2

LEMMA NextIInv ==
  IInv /\ [Next]_vars => IInv'
  BY TypesStep, RowsStep, MutexStep, EntriesStep, CallsStep DEF IInv

LEMMA Invariant == Spec => []IInv
  BY InitIInv, NextIInv, PTL DEF Spec

-----------------------------------------------------------------------------
(* A stored vector comes from a snapshot that recorded the rowid, the file   *)
(* and the content hash the index has for its symbol: what was embedded      *)
(* without the lock is stored for nobody else (commit_embedding_batch).  The *)
(* text that was embedded is not compared with that content.                 *)
THEOREM VectorsBelong == Spec => []VectorsOfTheirSymbols
  <1>1. IInv => VectorsOfTheirSymbols
    BY DEF IInv
  <1> QED BY <1>1, Invariant, PTL

(* A call that answers from the cache answers from the index as it is.       *)
LEMMA ServedIsCurrent ==
  ASSUME IInv, NEW c \in Calls, Serves(c)
  PROVE  calls[c].hit \in Hit /\ Current(calls[c].hit)
  BY DEF IInv, Types, Call, HitsInv, HitOf, Serves, HitStands, At

(* A served hit points only at what is indexed, unchanged since it was       *)
(* ranked, and misses nothing the query's words find (QueryCache::check).    *)
THEOREM HitsMatch == Spec => []HitsMatchIndex
  <1>1. ASSUME IInv, NEW c \in Calls, Serves(c)
        PROVE  /\ \A f \in calls[c].hit.hits : rows[f] # None /\ rows[f].text = calls[c].hit.print[f]
               /\ RankBy(calls[c].hit.key.query, FALSE, vectors) \subseteq calls[c].hit.hits
    <2>1. calls[c].hit \in Hit /\ Current(calls[c].hit) /\ Types
      BY <1>1, ServedIsCurrent DEF IInv
    <2>2. ASSUME NEW f \in calls[c].hit.hits
          PROVE  rows[f] # None /\ rows[f].text = calls[c].hit.print[f]
      <3>1. f \in Files
        BY <2>1 DEF Hit, Ranking
      <3>2. FileHashes[f] # None /\ calls[c].hit.print[f] = FileHashes[f]
        BY <2>1, <3>1 DEF Current, Printed, Fingerprint
      <3> QED BY <2>1, <3>1, <3>2, HashesOf DEF Indexed
    <2>3. RankBy(calls[c].hit.key.query, FALSE, vectors) = ByWords(calls[c].hit.key.query, FileHashes)
      BY <2>1, RankingOf
    <2> QED BY <2>1, <2>2, <2>3 DEF Current
  <1>2. IInv => HitsMatchIndex
    BY <1>1 DEF HitsMatchIndex
  <1> QED BY <1>2, Invariant, PTL

(* A ranking made with the vectors of all symbols is served only while the   *)
(* index would still produce it (QueryCache::check, hybrid_search_like).     *)
THEOREM ExactHitsCurrent == Spec => []ExactHitsAreCurrent
  <1>1. ASSUME IInv, NEW c \in Calls, Serves(c), calls[c].hit.exact
        PROVE  calls[c].hit.hits = {f \in Indexed :
                 \/ <<calls[c].hit.key.query, rows[f].text>> \in Lexical
                 \/ calls[c].hit.key.model /\ <<calls[c].hit.key.query, rows[f].text>> \in Near}
    <2>1. Current(calls[c].hit) /\ Types
      BY <1>1, ServedIsCurrent DEF IInv
    <2>2. calls[c].hit.hits = ByBoth(calls[c].hit.key, FileHashes)
      BY <1>1, <2>1 DEF Current
    <2> QED BY <2>1, <2>2, HashesOf DEF ByBoth, ByWords, Indexed
  <1>2. IInv => ExactHitsAreCurrent
    BY <1>1 DEF ExactHitsAreCurrent
  <1> QED BY <1>2, Invariant, PTL
-----------------------------------------------------------------------------
(* The order of use.  It lists the cached keys, each once, so the one that   *)
(* goes when the cache is full is a cached one, and the cache never holds    *)
(* more than its capacity.                                                   *)
Lists(s, K) ==
    /\ s \in Seq(K)
    /\ \A i, j \in DOMAIN s : s[i] = s[j] => i = j
    /\ \A k \in K : \E i \in DOMAIN s : s[i] = k

UsedInv == Lists(used, DOMAIN entries) /\ Len(used) <= MaxEntries

Bounds ==
    /\ gen \in 0..MaxRuns /\ edits \in 0..MaxEdits /\ asked \in 0..MaxAsked
    /\ mutex \in Calls \cup {None}

LEMMA ListsWithout ==
  ASSUME NEW K, NEW s, Lists(s, K), NEW k
  PROVE  /\ Lists(SeqWithout(s, k), K \ {k})
         /\ Len(SeqWithout(s, k)) <= Len(s)
         /\ k \in K => Len(SeqWithout(s, k)) < Len(s)
  <1> DEFINE at == CHOOSE i \in DOMAIN s : s[i] = k
             w == [i \in 1 .. Len(s) - 1 |-> IF i < at THEN s[i] ELSE s[i + 1]]
  <1>1. /\ s \in Seq(K) /\ Len(s) \in Nat /\ DOMAIN s = 1 .. Len(s)
        /\ \A i, j \in DOMAIN s : s[i] = s[j] => i = j
        /\ \A x \in K : \E i \in DOMAIN s : s[i] = x
        /\ \A i \in DOMAIN s : s[i] \in K
    BY DEF Lists
  <1>2. CASE \E i \in DOMAIN s : s[i] = k
    <2>1. at \in DOMAIN s /\ s[at] = k
      BY <1>2
    <2>2. SeqWithout(s, k) = w
      BY <1>2 DEF SeqWithout
    <2> HIDE DEF at
    <2>3. Len(s) - 1 \in Nat
      BY <1>1, <2>1
    <2>4. \A i \in 1 .. Len(s) - 1 :
            LET old == IF i < at THEN i ELSE i + 1
            IN old \in DOMAIN s \ {at} /\ w[i] = s[old]
      BY <1>1, <2>1, <2>3
    <2>5. \A i \in 1 .. Len(s) - 1 : w[i] \in K \ {k}
      BY <1>1, <2>1, <2>4
    <2>6. w \in Seq(K \ {k}) /\ Len(w) = Len(s) - 1 /\ DOMAIN w = 1 .. Len(s) - 1
      BY <2>3, <2>5
    <2>7. ASSUME NEW i \in 1 .. Len(s) - 1, NEW j \in 1 .. Len(s) - 1, w[i] = w[j]
          PROVE  i = j
      <3> HIDE DEF w
      <3>1. (IF i < at THEN i ELSE i + 1) = (IF j < at THEN j ELSE j + 1)
        BY <1>1, <2>4, <2>7
      <3> QED BY <1>1, <2>1, <2>3, <3>1
    <2>8. ASSUME NEW x \in K \ {k} PROVE \E i \in 1 .. Len(s) - 1 : w[i] = x
      <3>1. PICK j \in DOMAIN s : s[j] = x
        BY <1>1
      <3>2. CASE j < at
        <4>1. j \in 1 .. Len(s) - 1 /\ w[j] = x
          BY <1>1, <2>1, <2>3, <3>1, <3>2
        <4> QED BY <4>1
      <3>3. CASE j > at
        <4>1. j - 1 \in 1 .. Len(s) - 1 /\ w[j - 1] = s[j]
          BY <1>1, <2>1, <2>3, <3>1, <3>3
        <4> QED BY <3>1, <4>1
      <3>4. j # at
        BY <2>1, <3>1
      <3> QED BY <1>1, <2>1, <3>1, <3>2, <3>3, <3>4
    <2> HIDE DEF w
    <2>9. Lists(w, K \ {k})
      BY <2>6, <2>7, <2>8 DEF Lists
    <2> QED BY <1>1, <2>2, <2>3, <2>6, <2>9
  <1>3. CASE ~\E i \in DOMAIN s : s[i] = k
    <2>1. SeqWithout(s, k) = s /\ k \notin K
      BY <1>1, <1>3 DEF SeqWithout
    <2>2. K \ {k} = K
      BY <2>1
    <2>3. Lists(s, K \ {k})
      BY <2>2
    <2>4. Len(s) <= Len(s)
      BY <1>1
    <2> QED BY <2>1, <2>3, <2>4
  <1> QED BY <1>2, <1>3

LEMMA ListsAppend ==
  ASSUME NEW K, NEW s, Lists(s, K), NEW k, k \notin K
  PROVE  Lists(Append(s, k), K \cup {k}) /\ Len(Append(s, k)) = Len(s) + 1
  <1> DEFINE a == Append(s, k)
  <1>1. /\ s \in Seq(K) /\ Len(s) \in Nat /\ DOMAIN s = 1 .. Len(s)
        /\ \A i, j \in DOMAIN s : s[i] = s[j] => i = j
        /\ \A x \in K : \E i \in DOMAIN s : s[i] = x
        /\ \A i \in DOMAIN s : s[i] \in K
    BY DEF Lists
  <1>2. /\ a \in Seq(K \cup {k}) /\ Len(a) = Len(s) + 1 /\ DOMAIN a = 1 .. Len(s) + 1
        /\ \A i \in 1 .. Len(s) : a[i] = s[i]
        /\ a[Len(s) + 1] = k
    BY <1>1
  <1> HIDE DEF a
  <1>3. \A i, j \in DOMAIN a : a[i] = a[j] => i = j
    BY <1>1, <1>2
  <1>4. \A x \in K \cup {k} : \E i \in DOMAIN a : a[i] = x
    BY <1>1, <1>2
  <1>5. Lists(a, K \cup {k})
    BY <1>2, <1>3, <1>4 DEF Lists
  <1> QED BY <1>2, <1>5 DEF a

LEMMA ListsTail ==
  ASSUME NEW K, NEW s, Lists(s, K), s # <<>>
  PROVE  Lists(Tail(s), K \ {Head(s)}) /\ Len(Tail(s)) = Len(s) - 1 /\ Head(s) \in K
  <1> DEFINE t == Tail(s)
  <1>1. /\ s \in Seq(K) /\ Len(s) \in Nat /\ DOMAIN s = 1 .. Len(s)
        /\ \A i, j \in DOMAIN s : s[i] = s[j] => i = j
        /\ \A x \in K : \E i \in DOMAIN s : s[i] = x
        /\ \A i \in DOMAIN s : s[i] \in K
    BY DEF Lists
  <1>2. Len(s) > 0 /\ Head(s) = s[1]
    BY <1>1
  <1>3. /\ t \in Seq(K) /\ Len(t) = Len(s) - 1 /\ DOMAIN t = 1 .. Len(s) - 1
        /\ \A i \in 1 .. Len(s) - 1 : t[i] = s[i + 1]
    BY <1>1, <1>2
  <1> HIDE DEF t
  <1>4. ASSUME NEW i \in 1 .. Len(s) - 1 PROVE t[i] \in K \ {s[1]}
    <2>1. t[i] = s[i + 1] /\ i + 1 \in DOMAIN s /\ 1 \in DOMAIN s /\ i + 1 # 1
      BY <1>1, <1>2, <1>3
    <2> QED BY <1>1, <2>1
  <1>5. t \in Seq(K \ {s[1]})
    BY <1>3, <1>4
  <1>6. ASSUME NEW i \in DOMAIN t, NEW j \in DOMAIN t, t[i] = t[j] PROVE i = j
    <2>1. i \in 1 .. Len(s) - 1 /\ j \in 1 .. Len(s) - 1
      BY <1>3
    <2>2. i + 1 \in DOMAIN s /\ j + 1 \in DOMAIN s
      BY <1>1, <2>1
    <2>3. s[i + 1] = s[j + 1]
      BY <1>3, <1>6, <2>1
    <2>4. i + 1 = j + 1
      BY <1>1, <2>2, <2>3
    <2> QED BY <2>1, <2>4
  <1>7. ASSUME NEW x \in K \ {s[1]} PROVE \E i \in DOMAIN t : t[i] = x
    <2>1. PICK j \in DOMAIN s : s[j] = x
      BY <1>1
    <2>2. j - 1 \in DOMAIN t /\ t[j - 1] = x
      BY <1>1, <1>2, <1>3, <2>1
    <2> QED BY <2>2
  <1> QED BY <1>1, <1>2, <1>3, <1>5, <1>6, <1>7 DEF t, Lists

LEMMA ListsLength ==
  ASSUME NEW K, NEW s, Lists(s, K)
  PROVE  Len(s) = Cardinality(K)
  <1>1. s \in Bijection(1 .. Len(s), K) /\ Len(s) \in Nat
    BY DEF Lists, Bijection, Injection, Surjection, IsInjective
  <1>2. ExistsBijection(1 .. Len(s), K)
    BY <1>1 DEF ExistsBijection
  <1> QED BY <1>1, <1>2, FS_CountingElements

(* Caching a ranking keeps the order, and the capacity (QueryCache::insert). *)
LEMMA InsertKeeps ==
  ASSUME UsedInv, NEW k, NEW hits, Insert(k, hits)
  PROVE  UsedInv'
  <1> DEFINE oldest == IF Full(Len(used)) THEN {Head(used)} ELSE {}
             base == IF Full(Len(used)) THEN Tail(used) ELSE used
             rest == SeqWithout(base, k)
  <1>1. Lists(used, DOMAIN entries) /\ Len(used) \in Nat /\ MaxEntries \in Nat \ {0}
    BY RetrievalAssumption DEF UsedInv, Lists
  <1>2. /\ DOMAIN entries' = (DOMAIN entries \ oldest) \cup {k}
        /\ used' = Append(rest, k)
    BY DEF Insert
  <1>3. Lists(base, DOMAIN entries \ oldest) /\ Len(base) < MaxEntries
    <2>1. CASE Full(Len(used))
      <3>1. used # <<>>
        BY <1>1, <2>1 DEF Full
      <3> QED BY <1>1, <2>1, <3>1, ListsTail DEF UsedInv
    <2>2. CASE ~Full(Len(used))
      <3>1. base = used /\ DOMAIN entries \ oldest = DOMAIN entries
        BY <2>2
      <3> QED BY <1>1, <2>2, <3>1 DEF Full
    <2> QED BY <2>1, <2>2
  <1> HIDE DEF oldest, base
  <1>4. Lists(rest, (DOMAIN entries \ oldest) \ {k}) /\ Len(rest) <= Len(base)
    BY <1>3, ListsWithout
  <1>5. Len(base) \in Nat /\ Len(rest) \in Nat
    BY <1>3, <1>4 DEF Lists
  <1> HIDE DEF rest
  <1>6. /\ Lists(used', ((DOMAIN entries \ oldest) \ {k}) \cup {k})
        /\ Len(used') = Len(rest) + 1
    BY <1>2, <1>4, ListsAppend
  <1>7. ((DOMAIN entries \ oldest) \ {k}) \cup {k} = DOMAIN entries'
    BY <1>2
  <1>8. Lists(used', DOMAIN entries')
    BY <1>6, <1>7
  <1> QED BY <1>1, <1>3, <1>4, <1>5, <1>6, <1>8 DEF UsedInv

(* So does dropping one (QueryCache::lookup). *)
LEMMA DropKeeps ==
  ASSUME UsedInv, NEW c \in Calls, Drop(c)
  PROVE  UsedInv'
  <1>1. Lists(used, DOMAIN entries) /\ Len(used) \in Nat /\ MaxEntries \in Nat
    BY RetrievalAssumption DEF UsedInv, Lists
  <1> DEFINE src == calls[c].source
             K == DOMAIN entries
  <1>2. used' = SeqWithout(used, src) /\ DOMAIN entries' = K \ {src}
    BY DEF Drop, Without
  <1> HIDE DEF src, K
  <1>3. Lists(SeqWithout(used, src), K \ {src}) /\ Len(SeqWithout(used, src)) <= Len(used)
    <2>1. Lists(used, K)
      BY <1>1 DEF K
    <2> QED BY <2>1, ListsWithout
  <1>4. Lists(used', DOMAIN entries') /\ Len(used') <= Len(used)
    BY <1>2, <1>3
  <1>5. Len(used') \in Nat
    BY <1>4 DEF Lists
  <1> QED BY <1>1, <1>4, <1>5 DEF UsedInv

LEMMA UsedStep ==
  ASSUME IInv, UsedInv, [Next]_vars
  PROVE  UsedInv'
  <1>1. CASE DOMAIN entries' = DOMAIN entries /\ used' = used
    BY <1>1 DEF UsedInv
  <1>2. ASSUME NEW c \in Calls, Drop(c) PROVE UsedInv'
    BY <1>2, DropKeeps
  <1>3. ASSUME NEW c \in Calls, CheckPrint(c) \/ Rerank(c), ~Drop(c)
        PROVE  DOMAIN entries' = DOMAIN entries /\ used' = used
    BY <1>3 DEF CheckPrint, Rerank
  <1>4. ASSUME NEW c \in Calls, Fence(c), ~Drop(c) PROVE UsedInv'
    <2> DEFINE src == calls[c].source
    <2>1. src \in DOMAIN entries
      BY <1>4 DEF Fence, At, IInv, Validating, ValidatingOf
    <2>2. used' = Append(SeqWithout(used, src), src) /\ entries' = entries
      BY <1>4 DEF Fence
    <2> HIDE DEF src
    <2>3. Lists(used, DOMAIN entries) /\ Len(used) \in Nat /\ MaxEntries \in Nat
      BY RetrievalAssumption DEF UsedInv, Lists
    <2>4. /\ Lists(SeqWithout(used, src), DOMAIN entries \ {src})
          /\ Len(SeqWithout(used, src)) < Len(used)
      BY <2>1, <2>3, ListsWithout
    <2>5. Lists(used', (DOMAIN entries \ {src}) \cup {src})
          /\ Len(used') = Len(SeqWithout(used, src)) + 1
      BY <2>2, <2>4, ListsAppend
    <2>6. (DOMAIN entries \ {src}) \cup {src} = DOMAIN entries'
      BY <2>1, <2>2
    <2>7. Len(SeqWithout(used, src)) \in Nat
      BY <2>4 DEF Lists
    <2>8. Lists(used', DOMAIN entries')
      BY <2>5, <2>6
    <2> QED BY <2>3, <2>4, <2>5, <2>7, <2>8 DEF UsedInv
  <1>5. ASSUME NEW c \in Calls, Answer(c) PROVE UsedInv'
    <2>1. CASE UNCHANGED <<entries, used>>
      BY <1>1, <2>1
    <2>2. CASE ~UNCHANGED <<entries, used>>
      BY <1>5, <2>2, InsertKeeps DEF Answer
    <2> QED BY <2>1, <2>2
  <1>6. ASSUME NEW c \in Calls,
               \/ LookupExact(c) \/ LookupSemantic(c) \/ Refresh(c) \/ AfterLookup(c)
               \/ EmbedQuery(c) \/ Snapshot(c) \/ CommitBatch(c) \/ EmbedFails(c)
               \/ TakeForRanking(c)
        PROVE  UNCHANGED <<entries, used>>
    BY <1>6 DEF LookupExact, LookupSemantic, Refresh, AfterLookup, EmbedQuery, Snapshot,
                CommitBatch, EmbedFails, TakeForRanking
  <1>7. CASE ~ \E c \in Calls : Step(c)
    <2>1. UNCHANGED <<entries, used>>
      BY <1>7 DEF Next, vars, SessionOver, Edit, Publish, OtherRefresh, Ask
    <2> QED BY <1>1, <2>1
  <1>8. ASSUME NEW c \in Calls, Step(c) PROVE UsedInv'
    BY <1>1, <1>2, <1>3, <1>4, <1>5, <1>6, <1>8 DEF Step
  <1> QED BY <1>7, <1>8

LEMMA BoundsStep ==
  ASSUME Bounds, [Next]_vars
  PROVE  Bounds'
  <1>1. MaxRuns \in Nat /\ MaxEdits \in Nat /\ MaxAsked \in Nat
    BY RetrievalAssumption
  <1>2. CASE \E f \in Files : Edit(f)
    BY <1>1, <1>2 DEF Edit, Bounds
  <1>3. CASE Publish \/ OtherRefresh
    BY <1>1, <1>3 DEF Publish, OtherRefresh, Bounds
  <1>4. ASSUME NEW c \in Calls, NEW q \in Queries, NEW model \in BOOLEAN, Ask(c, q, model)
        PROVE  Bounds'
    BY <1>1, <1>4 DEF Ask, Bounds
  <1>5. ASSUME NEW c \in Calls, Step(c) PROVE Bounds'
    <2>1. UNCHANGED <<gen, edits, asked>> /\ mutex' \in {mutex, c, None}
      BY <1>5 DEF Step, LookupExact, LookupSemantic, Refresh, CheckPrint, Rerank, Fence,
                  AfterLookup, EmbedQuery, Snapshot, CommitBatch, EmbedFails, TakeForRanking,
                  Answer
    <2> QED BY <2>1 DEF Bounds
  <1>6. CASE UNCHANGED vars
    BY <1>6 DEF vars, Bounds
  <1> QED BY <1>2, <1>3, <1>4, <1>5, <1>6 DEF Next, SessionOver

(* The cache keeps its capacity and its order of use lists what it holds,    *)
(* each ranking once, through drops, re-uses and insertions by any number of *)
(* calls; every other variable keeps its type (QueryCache).                  *)
THEOREM RetrievalTyped == Spec => []TypeOK
  <1>1. Init => UsedInv /\ Bounds
    <2> SUFFICES ASSUME Init PROVE UsedInv /\ Bounds
      OBVIOUS
    <2>1. Lists(used, DOMAIN entries) /\ Len(used) = 0
      BY DEF Init, Lists
    <2> QED BY <2>1, RetrievalAssumption DEF Init, UsedInv, Bounds
  <1>2. IInv /\ UsedInv /\ Bounds => TypeOK
    <2> SUFFICES ASSUME IInv, UsedInv, Bounds PROVE TypeOK
      OBVIOUS
    <2>1. used \in Seq(DOMAIN entries) /\ Len(used) = Cardinality(DOMAIN entries)
      BY ListsLength DEF UsedInv, Lists
    <2> QED BY <2>1 DEF IInv, Types, UsedInv, Bounds, TypeOK
  <1>3. IInv /\ UsedInv /\ Bounds /\ [Next]_vars => UsedInv' /\ Bounds'
    BY UsedStep, BoundsStep
  <1> QED BY <1>1, <1>2, <1>3, Invariant, PTL DEF Spec
=============================================================================
